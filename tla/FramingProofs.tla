---------------------------- MODULE FramingProofs -----------------------------
(***************************************************************************)
(* What the receiver of a connection gets is what was sent.                *)
(*                                                                         *)
(* First the codec.  Its operators are folds and other recursive functions, *)
(* which a proof follows step by step: Recursion says that such a function *)
(* exists and what it is at each step, SetInduction what then holds at all *)
(* of them.  ValueOfBytes undoes one integer, ReadFieldBack one field,     *)
(* ReadGroupBack and ReadLayoutBack those of a message, ServersBack the    *)
(* entries of a server list, DecodeBack a message, and CodecRoundTrip the  *)
(* length and the padding.                                                 *)
(*                                                                         *)
(* Then the stream.  FramingInv says that the bytes recvMsg() has, those   *)
(* delivered and those under way are pieces, one after the other, of the   *)
(* messages sent; so the length recvMsg() reads is that of the message it  *)
(* is about to receive.                                                    *)
(***************************************************************************)
EXTENDS Framing, SequenceTheorems, WellFoundedInduction, TLAPS

-----------------------------------------------------------------------------
(* Induction. *)

(* A set of natural numbers has a smallest one. *)
LEMMA NatMin ==
    ASSUME NEW T \in SUBSET Nat, T # {}
    PROVE  \E x \in T : \A y \in T : x <= y
<1> DEFINE R == OpToRel(<, Nat)
<1>1. IsWellFoundedOn(R, Nat)
  BY NatLessThanWellFounded
<1>2. \A x, y \in Nat : y < x => <<y, x>> \in R
  BY DEF OpToRel
<1> HIDE DEF R
<1>3. PICK x \in T : \A y \in T : ~(<<y, x>> \in R)
  BY <1>1, WFMin
<1>4. ASSUME NEW y \in T
      PROVE  x <= y
  <2>1. x \in Nat /\ y \in Nat
    OBVIOUS
  <2>2. ~(y < x)
    BY <1>2, <1>3, <2>1
  <2>3. QED
    BY <2>1, <2>2
<1>5. QED
  BY <1>4

(* Induction, for the numbers a property holds of. *)
LEMMA SetInduction ==
    ASSUME NEW T, 0 \in T, \A k \in Nat : k \in T => k + 1 \in T
    PROVE  Nat \subseteq T
<1> DEFINE Rest == {k \in Nat : k \notin T}
<1>1. SUFFICES ASSUME Rest # {}
               PROVE  FALSE
  OBVIOUS
<1>2. PICK x \in Rest : \A y \in Rest : x <= y
  <2>1. Rest \in SUBSET Nat
    OBVIOUS
  <2> HIDE DEF Rest
  <2>2. QED
    BY <1>1, <2>1, NatMin
<1>3. x \in Nat /\ x # 0 /\ x - 1 \in Nat /\ x - 1 \notin Rest
  BY <1>2
<1>4. QED
  BY <1>3

(* A rule G says what follows each value of S, and f goes by it for n steps. *)
Rules(n, S) == [1..n -> [S -> S]]
Follows(f, S, base, n, G) ==
    /\ f \in [0..n -> S]
    /\ f[0] = base
    /\ \A i \in 1..n : f[i] = G[i][f[i - 1]]

(* There is a function that follows a rule. *)
LEMMA Recursion ==
    ASSUME NEW S, NEW base \in S, NEW n \in Nat, NEW G \in Rules(n, S)
    PROVE  \E f : Follows(f, S, base, n, G)
<1> DEFINE T == {k \in Nat : k <= n => \E f : Follows(f, S, base, k, G)}
<1> USE DEF Follows, Rules
<1>1. 0 \in T
  <2>1. Follows([i \in 0..0 |-> base], S, base, 0, G)
    OBVIOUS
  <2>2. QED
    BY <2>1
<1>2. ASSUME NEW k \in Nat, k \in T
      PROVE  k + 1 \in T
  <2>1. SUFFICES ASSUME k + 1 <= n
                 PROVE  \E f : Follows(f, S, base, k + 1, G)
    OBVIOUS
  <2>2. PICK f : Follows(f, S, base, k, G)
    BY <1>2, <2>1
  <2> DEFINE g == [i \in 0..k + 1 |-> IF i = k + 1 THEN G[k + 1][f[k]] ELSE f[i]]
  <2>3. g \in [0..k + 1 -> S]
    <3>1. k + 1 \in 1..n /\ k \in 0..k
      BY <2>1
    <3>2. G[k + 1][f[k]] \in S
      BY <2>2, <3>1
    <3>3. QED
      BY <2>2, <3>2
  <2>4. Follows(g, S, base, k + 1, G)
    BY <2>2, <2>3
  <2>5. QED
    BY <2>4
<1> HIDE DEF T
<1>3. n \in T
  BY <1>1, <1>2, SetInduction
<1>4. QED
  BY <1>3 DEF T

(* Two functions that follow the same rule are equal. *)
Together(f, g, n) ==
    /\ f[0] = g[0]
    /\ \A i \in 1..n : f[i - 1] = g[i - 1] => f[i] = g[i]

LEMMA RecursionUnique ==
    ASSUME NEW n \in Nat, NEW f, NEW g, Together(f, g, n)
    PROVE  \A i \in 0..n : f[i] = g[i]
<1> DEFINE T == {k \in Nat : k <= n => f[k] = g[k]}
<1> USE DEF Together
<1>1. 0 \in T
  OBVIOUS
<1>2. ASSUME NEW k \in Nat, k \in T
      PROVE  k + 1 \in T
  BY <1>2
<1> HIDE DEF T
<1>3. Nat \subseteq T
  BY <1>1, <1>2, SetInduction
<1>4. QED
  BY <1>3 DEF T

-----------------------------------------------------------------------------
(* Integers. *)

(* A number is what its last byte and the bytes before it say. *)
LEMMA Division ==
    ASSUME NEW x \in Int
    PROVE  x \div 256 \in Int /\ x % 256 \in Byte /\ x = 256 * (x \div 256) + (x % 256)
<1>1. x \div 256 \in Int
  OBVIOUS
<1>2. x % 256 \in Byte
  BY DEF Byte
<1>3. x = 256 * (x \div 256) + (x % 256)
  OBVIOUS
<1>4. QED
  BY <1>1, <1>2, <1>3

LEMMA ValueSteps ==
    ASSUME NEW start, NEW b, Len(b) \in Nat, NEW e \in [0..Len(b) -> Int],
           e[0] = start, \A i \in 1..Len(b) : e[i] = 256 * e[i - 1] + b[i]
    PROVE  Value(start, b) = e[Len(b)]
<1> DEFINE Rule(g) == g = [i \in 0..Len(b) |-> IF i = 0 THEN start ELSE 256 * g[i - 1] + b[i]]
<1>1. Rule(e)
  OBVIOUS
<1>2. Rule(CHOOSE g : Rule(g))
  BY <1>1, Zenon
<1>3. PICK f : Rule(f) /\ Value(start, b) = f[Len(b)]
  BY <1>2 DEF Value, Fold
<1>4. Together(f, e, Len(b))
  BY <1>3 DEF Together
<1>5. \A i \in 0..Len(b) : f[i] = e[i]
  BY ONLY Len(b) \in Nat, <1>4, RecursionUnique
<1>6. QED
  BY <1>3, <1>5

(* What division by 256, again and again, leaves. *)
LEMMA QuotientsSteps ==
    ASSUME NEW n \in Int, NEW w \in Nat
    PROVE  /\ Quotients(n, w) \in [0..w -> Int]
           /\ Quotients(n, w)[0] = n
           /\ \A i \in 1..w : Quotients(n, w)[i] = Quotients(n, w)[i - 1] \div 256
<1> DEFINE Rule(g) == g = [i \in 0..w |-> IF i = 0 THEN n ELSE g[i - 1] \div 256]
<1>1. PICK e \in [0..w -> Int] : e[0] = n /\ \A i \in 1..w : e[i] = e[i - 1] \div 256
  <2> DEFINE G == [i \in 1..w |-> [x \in Int |-> x \div 256]]
  <2>1. G \in Rules(w, Int)
    BY DEF Rules
  <2>2. \A i \in 1..w : \A x \in Int : G[i][x] = x \div 256
    OBVIOUS
  <2> HIDE DEF G
  <2>3. PICK e : Follows(e, Int, n, w, G)
    BY <2>1, Recursion
  <2>4. e \in [0..w -> Int] /\ e[0] = n /\ \A i \in 1..w : e[i] = G[i][e[i - 1]]
    BY <2>3 DEF Follows
  <2>5. ASSUME NEW i \in 1..w
        PROVE  e[i] = e[i - 1] \div 256
    <3>1. PICK x \in Int : x = e[i - 1]
      BY <2>4
    <3>2. e[i] = G[i][x] /\ G[i][x] = x \div 256
      BY <2>2, <2>4, <3>1
    <3>3. QED
      BY <3>1, <3>2
  <2>6. QED
    BY <2>4, <2>5
<1>2. Rule(e)
  BY <1>1
<1>3. Rule(CHOOSE g : Rule(g))
  BY <1>2, Zenon
<1>4. PICK f : Rule(f) /\ Quotients(n, w) = f
  BY <1>3 DEF Quotients
<1>5. Together(f, e, w)
  BY <1>1, <1>4 DEF Together
<1>6. \A i \in 0..w : f[i] = e[i]
  BY ONLY w \in Nat, <1>5, RecursionUnique
<1>7. f = e
  BY <1>4, <1>6
<1>8. QED
  BY <1>1, <1>4, <1>7

(* An integer in w bytes. *)
LEMMA BytesType ==
    ASSUME NEW n \in Int, NEW w \in Nat
    PROVE  /\ Bytes(n, w) \in Seq(Byte) /\ Len(Bytes(n, w)) = w
           /\ \A i \in 1..w : Bytes(n, w)[i] = Quotients(n, w)[w - i] % 256
<1>1. Quotients(n, w) \in [0..w -> Int]
  BY QuotientsSteps
<1>2. \A i \in 1..w : Quotients(n, w)[w - i] % 256 \in Byte
  <2>1. ASSUME NEW i \in 1..w
        PROVE  Quotients(n, w)[w - i] % 256 \in Byte
    <3>1. Quotients(n, w)[w - i] \in Int
      BY <1>1
    <3>2. QED
      BY <3>1, Division
  <2>2. QED
    BY <2>1
<1>3. QED
  BY <1>2 DEF Bytes

(* ... is read back, when nothing but its sign is left beyond them. *)
LEMMA ValueOfBytes ==
    ASSUME NEW n \in Int, NEW w \in Nat
    PROVE  Value(Quotients(n, w)[w], Bytes(n, w)) = n
<1> DEFINE b == Bytes(n, w)
           q == Quotients(n, w)
           e == [i \in 0..w |-> q[w - i]]
<1>1. /\ q \in [0..w -> Int] /\ q[0] = n
      /\ \A i \in 1..w : q[i] = q[i - 1] \div 256
  BY QuotientsSteps
<1>2. Len(b) = w /\ \A i \in 1..w : b[i] = q[w - i] % 256
  BY BytesType
<1> HIDE DEF b, q
<1>3. e \in [0..w -> Int] /\ e[0] = q[w] /\ e[w] = n
  BY <1>1
<1>4. ASSUME NEW i \in 1..w
      PROVE  e[i] = 256 * e[i - 1] + b[i]
  <2>1. q[w - i] \in Int
    BY <1>1
  <2>2. e[i] = q[w - i] /\ b[i] = q[w - i] % 256
    BY <1>2
  <2>3. e[i - 1] = q[w - i] \div 256
    <3>1. w - (i - 1) \in 1..w /\ i - 1 \in 0..w /\ (w - (i - 1)) - 1 = w - i
      OBVIOUS
    <3>2. q[w - (i - 1)] = q[w - i] \div 256
      BY <1>1, <3>1
    <3>3. QED
      BY <3>1, <3>2
  <2> HIDE DEF e
  <2>4. QED
    BY <2>1, <2>2, <2>3, Division
<1> HIDE DEF e
<1>5. Value(q[w], b) = e[Len(b)]
  <2>1. /\ Len(b) \in Nat /\ e \in [0..Len(b) -> Int]
        /\ \A i \in 1..Len(b) : e[i] = 256 * e[i - 1] + b[i]
    BY <1>2, <1>3, <1>4
  <2>2. QED
    BY <1>3, <2>1, ValueSteps
<1>6. QED
  BY <1>2, <1>3, <1>5 DEF b, q

(* Of a number that fits, all is read back. *)
LEMMA UnsignedOfBytes ==
    ASSUME NEW x \in Int, NEW w \in Nat, Quotients(x, w)[w] = 0
    PROVE  Unsigned(Bytes(x, w)) = x
BY ValueOfBytes DEF Unsigned

LEMMA SignedOfBytes ==
    ASSUME NEW x \in Int, NEW w \in Nat,
           Quotients(x, w)[w] = (IF Bytes(x, w)[1] < 128 THEN 0 ELSE -1)
    PROVE  Signed(Bytes(x, w)) = x
BY ValueOfBytes DEF Signed

(* Two bytes are enough for what is less than 65536, and no more. *)
LEMMA TwoBytes ==
    ASSUME NEW n \in Int, 0 <= n, n < 65536
    PROVE  Unsigned(Bytes(n, 2)) = n
<1> DEFINE q == Quotients(n, 2)
<1>1. PICK w \in Nat : w = 2
  OBVIOUS
<1>2. /\ q \in [0..w -> Int] /\ q[0] = n
      /\ \A i \in 1..w : q[i] = q[i - 1] \div 256
  <2>1. /\ Quotients(n, w) \in [0..w -> Int]
        /\ Quotients(n, w)[0] = n
        /\ \A i \in 1..w : Quotients(n, w)[i] = Quotients(n, w)[i - 1] \div 256
    BY QuotientsSteps
  <2>2. QED
    BY <1>1, <2>1
<1> HIDE DEF q
<1>3. /\ q[1] \in Int /\ q[2] \in Int
      /\ q[1] = n \div 256 /\ q[2] = q[1] \div 256
  <2>1. w = 2 /\ 1 \in 1..w /\ 2 \in 1..w /\ 1 \in 0..w /\ 2 \in 0..w
    BY <1>1
  <2>2. q[1] = q[1 - 1] \div 256 /\ q[2] = q[2 - 1] \div 256
    BY <1>2, <2>1
  <2>3. 1 - 1 = 0 /\ 2 - 1 = 1
    OBVIOUS
  <2>4. QED
    BY <1>2, <2>1, <2>2, <2>3
<1>4. n = 256 * q[1] + (n % 256) /\ n % 256 \in Byte
  <2>1. n = 256 * (n \div 256) + (n % 256) /\ n % 256 \in Byte
    BY Division
  <2>2. QED
    BY <1>3, <2>1
<1>5. 0 <= q[1] /\ q[1] < 256
  BY <1>3, <1>4 DEF Byte
<1>6. q[1] = 256 * q[2] + (q[1] % 256) /\ q[1] % 256 \in Byte
  BY <1>3, Division
<1>7. q[2] = 0
  BY <1>3, <1>5, <1>6 DEF Byte
<1>8. QED
  BY <1>7, UnsignedOfBytes DEF q

-----------------------------------------------------------------------------
(* Fields. *)

(* What was packed of a message is the beginning of all of it, ... *)
Extends(p, q) == Len(q) <= Len(p) /\ \A i \in 1..Len(q) : p[i] = q[i]

(* ... and the receiver has it, but for the length at the front. *)
Agrees(b, q) == Len(q) <= Len(b) /\ \A i \in 3..Len(q) : b[i] = q[i]

LEMMA ExtendsConcat ==
    ASSUME NEW p \in Seq(Byte), NEW x \in Seq(Byte)
    PROVE  /\ p \o x \in Seq(Byte) /\ Len(p \o x) = Len(p) + Len(x)
           /\ Extends(p \o x, p)
           /\ \A j \in 1..Len(x) : (p \o x)[Len(p) + j] = x[j]
<1>1. /\ p \o x \in Seq(Byte) /\ Len(p \o x) = Len(p) + Len(x)
      /\ \A i \in 1..Len(p) + Len(x) : (p \o x)[i] = IF i <= Len(p) THEN p[i] ELSE x[i - Len(p)]
  BY ConcatProperties
<1>2. PICK l, k, c : l = Len(p) /\ k = Len(x) /\ c = p \o x
  OBVIOUS
<1>3. l \in Nat /\ k \in Nat
  BY <1>2
<1>4. Len(c) = l + k /\ \A i \in 1..l + k : c[i] = IF i <= l THEN p[i] ELSE x[i - l]
  BY <1>1, <1>2
<1>5. l <= Len(c) /\ \A i \in 1..l : c[i] = p[i]
  BY <1>3, <1>4
<1>6. ASSUME NEW j \in 1..k
      PROVE  c[l + j] = x[j]
  <2>1. PICK i : i = l + j
    OBVIOUS
  <2>2. i \in 1..l + k /\ ~(i <= l) /\ i - l = j
    BY <1>3, <2>1
  <2>3. c[i] = x[i - l]
    BY <1>4, <2>2
  <2>4. QED
    BY <2>1, <2>2, <2>3
<1>7. QED
  BY <1>1, <1>2, <1>5, <1>6 DEF Extends

LEMMA ExtendsTransitive ==
    ASSUME NEW p \in Seq(Byte), NEW q \in Seq(Byte), NEW r \in Seq(Byte),
           Extends(p, q), Extends(q, r)
    PROVE  Extends(p, r)
BY DEF Extends

LEMMA ExtendsAgrees ==
    ASSUME NEW b \in Seq(Byte), NEW p \in Seq(Byte), NEW q \in Seq(Byte),
           Agrees(b, p), Extends(p, q)
    PROVE  Agrees(b, q)
BY DEF Extends, Agrees

(* A piece of the message. *)
LEMMA SliceOf ==
    ASSUME NEW b \in Seq(Byte), NEW o \in Nat, NEW x \in Seq(Byte),
           o + Len(x) <= Len(b), \A j \in 1..Len(x) : b[o + j] = x[j]
    PROVE  Slice(b, o, Len(x)) = x
<1>1. PICK n, y : n = Len(x) /\ y = SubSeq(b, o + 1, o + n)
  OBVIOUS
<1>2. n \in Nat /\ Len(b) \in Nat
  BY <1>1
<1>3. \A i \in o + 1 .. o + n : b[i] \in Byte
  BY <1>1, <1>2
<1>4. /\ y \in Seq(Byte)
      /\ Len(y) = IF o + 1 <= o + n THEN o + n - (o + 1) + 1 ELSE 0
      /\ \A i \in 1 .. o + n - (o + 1) + 1 : y[i] = b[o + 1 + i - 1]
  BY <1>1, <1>2, <1>3, SubSeqProperties
<1>5. Len(y) = n
  BY <1>2, <1>4
<1>6. ASSUME NEW i \in 1..n
      PROVE  y[i] = x[i]
  <2>1. y[i] = b[o + 1 + i - 1] /\ o + 1 + i - 1 = o + i
    BY <1>2, <1>4
  <2>2. b[o + i] = x[i]
    BY <1>1
  <2>3. QED
    BY <2>1, <2>2
<1>7. y = x
  BY <1>1, <1>4, <1>5, <1>6, SeqEqual
<1>8. QED
  BY <1>1, <1>7 DEF Slice

LEMMA Prefix ==
    ASSUME NEW b \in Seq(Byte), NEW x \in Seq(Byte), Extends(b, x)
    PROVE  SubSeq(b, 1, Len(x)) = x
<1>1. PICK o \in Nat : o = 0
  OBVIOUS
<1>2. o + Len(x) <= Len(b) /\ \A j \in 1..Len(x) : b[o + j] = x[j]
  BY <1>1 DEF Extends
<1>3. Slice(b, o, Len(x)) = x
  BY <1>2, SliceOf
<1>4. o + 1 = 1 /\ o + Len(x) = Len(x)
  BY <1>1
<1>5. QED
  BY <1>3, <1>4 DEF Slice

LEMMA SliceAgrees ==
    ASSUME NEW b \in Seq(Byte), NEW p \in Seq(Byte), NEW x \in Seq(Byte),
           Len(p) >= 2, Agrees(b, p \o x)
    PROVE  Slice(b, Len(p), Len(x)) = x
<1>1. PICK l, k, c : l = Len(p) /\ k = Len(x) /\ c = p \o x
  OBVIOUS
<1>2. l \in Nat /\ k \in Nat /\ l >= 2 /\ Len(b) \in Nat
  BY <1>1
<1>3. Len(c) = l + k /\ \A j \in 1..k : c[l + j] = x[j]
  BY <1>1, ExtendsConcat
<1>4. l + k <= Len(b) /\ \A i \in 3..l + k : b[i] = c[i]
  BY <1>1, <1>3 DEF Agrees
<1>5. ASSUME NEW j \in 1..k
      PROVE  b[l + j] = x[j]
  <2>1. l + j \in 3..l + k
    BY <1>2
  <2>2. QED
    BY <1>3, <1>4, <2>1
<1>6. QED
  BY <1>1, <1>2, <1>4, <1>5, SliceOf

LEMMA TwoBytesType ==
    ASSUME NEW n \in Nat
    PROVE  Bytes(n, 2) \in Seq(Byte) /\ Len(Bytes(n, 2)) = 2
<1>1. PICK w \in Nat : w = 2
  OBVIOUS
<1>2. Bytes(n, w) \in Seq(Byte) /\ Len(Bytes(n, w)) = w
  BY BytesType
<1>3. QED
  BY <1>1, <1>2

LEMMA ZerosType ==
    ASSUME NEW n \in Nat
    PROVE  Zeros(n) \in Seq(Byte) /\ Len(Zeros(n)) = n /\ \A i \in 1..n : Zeros(n)[i] = 0
<1>1. \A i \in 1..n : 0 \in Byte
  BY DEF Byte
<1>2. QED
  BY <1>1 DEF Zeros

LEMMA BoundaryType ==
    ASSUME NEW n \in Nat
    PROVE  ToBoundary(n) \in 1..8
BY DEF ToBoundary

(* A field of one of the four kinds, with a value that fits. *)
Shape(f) ==
    /\ f[2] \in {"u", "s", "string", "rest"} /\ f[3] \in Nat
    /\ f[2] = "string" => f[3] = 2
    /\ f[2] = "rest" => f[3] = 0

Plain(f, x) == Shape(f) /\ Fits(f, x)

(* A string with its length and what fills the space up to the boundary. *)
LEMMA PackStringType ==
    ASSUME NEW bl \in Seq(Byte), NEW s \in Seq(Byte), Len(s) < 65536
    PROVE  /\ PackString(bl, s) \in Seq(Byte)
           /\ Len(PackString(bl, s))
                 = Len(bl) + 2 + Len(s) + ToBoundary(Len(bl) + 2 + Len(s))
           /\ Extends(PackString(bl, s), bl \o Bytes(Len(s), 2))
           /\ Extends(PackString(bl, s), bl \o Bytes(Len(s), 2) \o s)
           /\ Extends(PackString(bl, s), bl)
<1> DEFINE y == Bytes(Len(s), 2)
           c == bl \o y
           d == c \o s
           z == Zeros(ToBoundary(Len(d)))
           e == d \o z
<1>1. y \in Seq(Byte) /\ Len(y) = 2
  <2>1. Len(s) \in Nat
    OBVIOUS
  <2>2. QED
    BY <2>1, TwoBytesType
<1> HIDE DEF y
<1>2. c \in Seq(Byte) /\ Len(c) = Len(bl) + Len(y) /\ Extends(c, bl)
  <2>1. y \in Seq(Byte)
    BY <1>1
  <2>2. QED
    BY ONLY <2>1, bl \in Seq(Byte), ExtendsConcat
<1> HIDE DEF c
<1>3. d \in Seq(Byte) /\ Len(d) = Len(c) + Len(s) /\ Extends(d, c)
  BY <1>2, ExtendsConcat
<1> HIDE DEF d
<1>4. z \in Seq(Byte) /\ Len(z) = ToBoundary(Len(d))
  <2>1. Len(d) \in Nat
    BY <1>3
  <2>2. ToBoundary(Len(d)) \in Nat
    BY <2>1, BoundaryType
  <2>3. QED
    BY <2>2, ZerosType
<1> HIDE DEF z
<1>5. e \in Seq(Byte) /\ Len(e) = Len(d) + Len(z) /\ Extends(e, d)
  <2>1. d \in Seq(Byte) /\ z \in Seq(Byte)
    BY <1>3, <1>4
  <2>2. QED
    BY ONLY <2>1, ExtendsConcat
<1> HIDE DEF e
<1>6. Extends(e, c) /\ Extends(e, bl)
  <2>1. Extends(e, c)
    BY <1>2, <1>3, <1>5, ExtendsTransitive
  <2>2. QED
    BY <1>2, <1>5, <2>1, ExtendsTransitive
<1>7. Len(d) = Len(bl) + 2 + Len(s)
  BY <1>1, <1>2, <1>3
<1>8. Len(e) = Len(d) + ToBoundary(Len(d))
  BY <1>4, <1>5
<1>9. PackString(bl, s) = e
  BY DEF PackString, y, c, d, z, e
<1>10. e \in Seq(Byte) /\ Extends(e, d)
  BY <1>5
<1>11. Len(e) = Len(bl) + 2 + Len(s) + ToBoundary(Len(bl) + 2 + Len(s))
  BY <1>7, <1>8
<1>12. QED
  BY <1>6, <1>9, <1>10, <1>11 DEF d, c, y

(* An integer. *)
LEMMA PlainInteger ==
    ASSUME NEW f, NEW x, Plain(f, x), f[2] \in {"u", "s"}
    PROVE  x \in Int /\ f[3] \in Nat
<1>1. CASE f[2] = "u"
  BY <1>1 DEF Plain, Shape, Fits
<1>2. CASE f[2] = "s"
  BY <1>2 DEF Plain, Shape, Fits
<1>3. QED
  BY <1>1, <1>2

LEMMA PackInteger ==
    ASSUME NEW bl \in Seq(Byte), NEW x \in Int, NEW w \in Nat
    PROVE  /\ bl \o Bytes(x, w) \in Seq(Byte)
           /\ Len(bl \o Bytes(x, w)) = Len(bl) + w
           /\ Extends(bl \o Bytes(x, w), bl)
<1> DEFINE y == Bytes(x, w)
<1>1. y \in Seq(Byte) /\ Len(y) = w
  BY BytesType
<1> HIDE DEF y
<1>2. y \in Seq(Byte)
  BY <1>1
<1>3. bl \o y \in Seq(Byte) /\ Len(bl \o y) = Len(bl) + Len(y) /\ Extends(bl \o y, bl)
  BY ONLY <1>2, bl \in Seq(Byte), ExtendsConcat
<1>4. QED
  BY <1>1, <1>3 DEF y

(* Packing a field adds its width at least. *)
LEMMA PackFieldType ==
    ASSUME NEW bl \in Seq(Byte), NEW f, NEW fields, Plain(f, fields[f[1]])
    PROVE  /\ PackField(bl, f, fields) \in Seq(Byte)
           /\ Extends(PackField(bl, f, fields), bl)
           /\ Len(PackField(bl, f, fields)) >= Len(bl) + f[3]
<1> DEFINE x == fields[f[1]]
           p == PackField(bl, f, fields)
<1>1. Plain(f, x)
  OBVIOUS
<1>2. f[2] = "string" => p = PackString(bl, x)
  BY DEF PackField
<1>3. /\ f[2] \in {"u", "s"} => p = bl \o Bytes(x, f[3])
      /\ f[2] = "rest" => p = bl \o x
  BY DEF PackField
<1> HIDE DEF x, p
<1>4. CASE f[2] = "string"
  <2>1. x \in Seq(Byte) /\ Len(x) < 65536 /\ f[3] = 2
    BY <1>1, <1>4 DEF Plain, Shape, Fits
  <2> DEFINE l == Len(bl) + 2 + Len(x)
  <2>2. l \in Nat /\ l >= Len(bl) + 2
    BY <2>1
  <2>3. /\ p \in Seq(Byte) /\ Extends(p, bl)
        /\ Len(p) = l + ToBoundary(l)
    BY <1>2, <1>4, <2>1, PackStringType
  <2> HIDE DEF l
  <2>4. ToBoundary(l) \in 1..8
    BY <2>2, BoundaryType
  <2>5. PICK k \in 1..8 : k = ToBoundary(l)
    BY <2>4
  <2>6. Len(p) >= Len(bl) + 2
    <3>1. Len(p) = l + k
      BY <2>3, <2>5
    <3>2. QED
      BY ONLY <2>2, <3>1, k \in 1..8, Len(bl) \in Nat
  <2>7. QED
    BY <2>1, <2>3, <2>6 DEF p
<1>5. CASE f[2] \in {"u", "s"}
  <2>1. x \in Int /\ f[3] \in Nat
    BY <1>1, <1>5, PlainInteger
  <2>2. PICK w \in Nat : w = f[3]
    BY <2>1
  <2>3. p = bl \o Bytes(x, w)
    BY <1>3, <1>5, <2>2
  <2>4. p \in Seq(Byte) /\ Len(p) = Len(bl) + w /\ Extends(p, bl)
    BY <2>1, <2>3, PackInteger
  <2>5. QED
    BY <2>2, <2>4 DEF p
<1>6. CASE f[2] = "rest"
  <2>1. x \in Seq(Byte) /\ f[3] = 0 /\ p = bl \o x
    BY <1>1, <1>3, <1>6 DEF Plain, Shape, Fits
  <2>2. x \in Seq(Byte)
    BY <2>1
  <2>3. bl \o x \in Seq(Byte) /\ Len(bl \o x) = Len(bl) + Len(x) /\ Extends(bl \o x, bl)
    BY ONLY <2>2, bl \in Seq(Byte), ExtendsConcat
  <2>4. Len(x) \in Nat /\ Len(bl) \in Nat
    BY <2>2
  <2>5. QED
    BY <2>1, <2>3, <2>4 DEF p
<1>7. QED
  BY <1>1, <1>4, <1>5, <1>6 DEF Plain, Shape

(* The offset after a field is where the next was packed, and its value is    *)
(* the one packed.                                                           *)
LEMMA ReadFieldBack ==
    ASSUME NEW b \in Seq(Byte), NEW bl \in Seq(Byte), Len(bl) >= 2,
           NEW f, NEW fields, Plain(f, fields[f[1]]),
           Agrees(b, PackField(bl, f, fields)), NEW r, r.offset = Len(bl),
           f[2] = "rest" => Len(b) = Len(PackField(bl, f, fields))
    PROVE  ReadField(b, r, f) = [offset |-> Len(PackField(bl, f, fields)),
                                 fields |-> [r.fields EXCEPT ![f[1]] = fields[f[1]]]]
<1> DEFINE x == fields[f[1]]
           p == PackField(bl, f, fields)
           l == Len(bl)
<1>1. Plain(f, x) /\ Agrees(b, p) /\ r.offset = l
  OBVIOUS
<1>2. l \in Nat /\ l >= 2
  OBVIOUS
<1>3. f[2] = "string" => p = PackString(bl, x)
  BY DEF PackField
<1>4. /\ f[2] \in {"u", "s"} => p = bl \o Bytes(x, f[3])
      /\ f[2] = "rest" => p = bl \o x /\ Len(b) = Len(p)
  BY DEF PackField
<1> SUFFICES ReadField(b, r, f) = [offset |-> Len(p),
                                   fields |-> [r.fields EXCEPT ![f[1]] = x]]
  OBVIOUS
<1> HIDE DEF x, p
<1>5. CASE f[2] = "string"
  <2> DEFINE n == Len(x)
             y == Bytes(n, 2)
             c == bl \o y
             d == c \o x
             past == 2 + n + ToBoundary(l + 2 + n)
  <2>1. x \in Seq(Byte) /\ n \in Nat /\ n < 65536
    BY <1>1, <1>5 DEF Plain, Shape, Fits
  <2>2. /\ p \in Seq(Byte) /\ Len(p) = l + 2 + n + ToBoundary(l + 2 + n)
        /\ Extends(p, c) /\ Extends(p, d)
    BY <1>3, <1>5, <2>1, PackStringType
  <2>3. y \in Seq(Byte) /\ Len(y) = 2 /\ Unsigned(y) = n
    BY <2>1, TwoBytesType, TwoBytes
  <2>4. ToBoundary(l + 2 + n) \in Nat
    <3>1. l + 2 + n \in Nat
      BY <1>2, <2>1
    <3>2. ToBoundary(l + 2 + n) \in 1..8
      BY <3>1, BoundaryType
    <3>3. QED
      BY <3>2
  <2>5. l + past = Len(p)
    <3>1. PICK k \in Nat : k = ToBoundary(l + 2 + n)
      BY <2>4
    <3>2. Len(p) = l + 2 + n + k /\ past = 2 + n + k
      BY <2>2, <3>1
    <3>3. l \in Nat /\ n \in Nat /\ k \in Nat
      BY <1>2, <2>1, <3>1
    <3> HIDE DEF past, l, n
    <3>4. QED
      BY <3>2, <3>3
  <2>6. /\ ReadField(b, r, f) = ReadString(b, r, f[1])
        /\ Unsigned(Slice(b, l, 2)) = n =>
             ReadString(b, r, f[1]) = Read(r, f[1], Slice(b, l + 2, n), past)
    BY <1>1, <1>5 DEF ReadField, ReadString
  <2> HIDE DEF n, past, y
  <2>7. c \in Seq(Byte) /\ Len(c) = l + 2
    <3>1. y \in Seq(Byte)
      BY <2>3
    <3>2. bl \o y \in Seq(Byte) /\ Len(bl \o y) = Len(bl) + Len(y)
      BY ONLY <3>1, bl \in Seq(Byte), ExtendsConcat
    <3>3. QED
      BY <2>3, <3>2
  <2>8. d \in Seq(Byte)
    <3> HIDE DEF c
    <3>1. c \in Seq(Byte) /\ x \in Seq(Byte)
      BY <2>1, <2>7
    <3>2. QED
      BY ONLY <3>1, ExtendsConcat
  <2> HIDE DEF d
  <2>9. Agrees(b, c) /\ Agrees(b, d)
    <3> HIDE DEF c
    <3>1. QED
      BY ONLY <1>1, <2>2, <2>7, <2>8, b \in Seq(Byte), ExtendsAgrees
  <2>10. Slice(b, l, 2) = y
    <3>1. y \in Seq(Byte) /\ Agrees(b, bl \o y)
      BY <2>3, <2>9
    <3>2. Slice(b, Len(bl), Len(y)) = y
      BY ONLY <3>1, bl \in Seq(Byte), b \in Seq(Byte), Len(bl) >= 2, SliceAgrees
    <3>3. QED
      BY <2>3, <3>2
  <2> HIDE DEF c
  <2>11. Slice(b, l + 2, n) = x
    <3>1. c \in Seq(Byte) /\ x \in Seq(Byte) /\ Len(c) >= 2 /\ Agrees(b, c \o x)
      BY <1>2, <2>1, <2>7, <2>9 DEF d
    <3>2. Slice(b, Len(c), Len(x)) = x
      BY ONLY <3>1, b \in Seq(Byte), SliceAgrees
    <3>3. QED
      BY <2>7, <3>2 DEF n
  <2>12. ReadField(b, r, f) = Read(r, f[1], x, past)
    BY <2>3, <2>6, <2>10, <2>11
  <2>13. QED
    BY <1>1, <2>5, <2>12 DEF Read
<1>6. CASE f[2] \in {"u", "s"}
  <2>1. x \in Int /\ f[3] \in Nat
    BY <1>1, <1>6, PlainInteger
  <2>2. PICK w \in Nat : w = f[3]
    BY <2>1
  <2> DEFINE y == Bytes(x, w)
  <2>3. p = bl \o y /\ Len(p) = l + w
    <3>1. p = bl \o Bytes(x, w)
      BY <1>4, <1>6, <2>2
    <3>2. Len(bl \o Bytes(x, w)) = Len(bl) + w
      BY <2>1, PackInteger
    <3>3. QED
      BY <3>1, <3>2
  <2>4. y \in Seq(Byte) /\ Len(y) = w
    BY <2>1, BytesType
  <2>5. f[2] = "u" => Unsigned(y) = x
    <3>1. ASSUME f[2] = "u"
          PROVE  Quotients(x, w)[w] = 0
      BY <1>1, <2>2, <3>1 DEF Plain, Shape, Fits
    <3>2. QED
      BY <2>1, <3>1, UnsignedOfBytes
  <2>6. f[2] = "s" => Signed(y) = x
    <3>1. ASSUME f[2] = "s"
          PROVE  Quotients(x, w)[w] = (IF Bytes(x, w)[1] < 128 THEN 0 ELSE -1)
      BY <1>1, <2>2, <3>1 DEF Plain, Shape, Fits
    <3>2. QED
      BY <2>1, <3>1, SignedOfBytes
  <2> HIDE DEF y
  <2>7. Slice(b, l, w) = y
    <3>1. y \in Seq(Byte) /\ Agrees(b, bl \o y)
      BY <1>1, <2>3, <2>4
    <3>2. Slice(b, Len(bl), Len(y)) = y
      BY ONLY <3>1, bl \in Seq(Byte), b \in Seq(Byte), Len(bl) >= 2, SliceAgrees
    <3>3. QED
      BY <2>4, <3>2
  <2>8. ReadField(b, r, f) = Read(r, f[1], x, w)
    <3>1. CASE f[2] = "u"
      BY <1>1, <2>2, <2>5, <2>7, <3>1 DEF ReadField
    <3>2. CASE f[2] = "s"
      BY <1>1, <2>2, <2>6, <2>7, <3>2 DEF ReadField
    <3>3. QED
      BY <1>6, <3>1, <3>2
  <2>9. QED
    BY <1>1, <2>3, <2>8 DEF Read
<1>7. CASE f[2] = "rest"
  <2> DEFINE n == Len(b) - l
  <2>1. /\ x \in Seq(Byte) /\ ~Contains(x, 0)
        /\ p = bl \o x /\ Len(b) = Len(p)
    BY <1>1, <1>4, <1>7 DEF Plain, Shape, Fits
  <2>2. x \in Seq(Byte)
    BY <2>1
  <2>3. Len(bl \o x) = l + Len(x)
    BY ONLY <2>2, bl \in Seq(Byte), ExtendsConcat
  <2>4. n = Len(x) /\ l + n = Len(p)
    BY <2>1, <2>3
  <2>5. Agrees(b, bl \o x)
    BY <1>1, <2>1
  <2>6. Slice(b, Len(bl), Len(x)) = x
    BY ONLY <2>2, <2>5, bl \in Seq(Byte), b \in Seq(Byte), Len(bl) >= 2, SliceAgrees
  <2>7. Slice(b, l, n) = x
    BY <2>4, <2>6
  <2>8. ReadField(b, r, f) = Read(r, f[1], UntilZero(Slice(b, l, n)), n)
    BY <1>1, <1>7 DEF ReadField, ReadName
  <2> HIDE DEF n, l
  <2>9. ReadField(b, r, f) = Read(r, f[1], x, n)
    BY <2>1, <2>7, <2>8 DEF UntilZero
  <2>10. QED
    BY <1>1, <2>4, <2>9 DEF Read
<1>8. QED
  BY <1>1, <1>5, <1>6, <1>7 DEF Plain, Shape

-----------------------------------------------------------------------------
(* Groups of fields. *)

(* Each e[i] is what is packed after i steps. *)
Chain(e, n, bl) ==
    /\ e \in [0..n -> Seq(Byte)]
    /\ e[0] = bl
    /\ \A i \in 1..n : Extends(e[i], e[i - 1])

LEMMA ChainEnd ==
    ASSUME NEW n \in Nat, NEW bl, NEW e, Chain(e, n, bl)
    PROVE  \A k \in 0..n : \A i \in 0..k : Extends(e[k], e[i])
<1> DEFINE T == {k \in Nat : k <= n => \A i \in 0..k : Extends(e[k], e[i])}
<1>1. \A i \in 0..n : e[i] \in Seq(Byte) /\ Extends(e[i], e[i])
  BY DEF Chain, Extends
<1>2. 0 \in T
  <2>1. \A i \in 0..0 : i = 0
    OBVIOUS
  <2>2. 0 \in 0..n
    OBVIOUS
  <2>3. QED
    BY <1>1, <2>1, <2>2
<1>3. ASSUME NEW k \in Nat, k \in T
      PROVE  k + 1 \in T
  <2>1. SUFFICES ASSUME k + 1 <= n, NEW i \in 0..k + 1
                 PROVE  Extends(e[k + 1], e[i])
    OBVIOUS
  <2>2. PICK j : j = k + 1
    OBVIOUS
  <2>3. j \in 1..n /\ k \in 0..n /\ j - 1 = k /\ i \in 0..n /\ j \in 0..n
    BY <2>1, <2>2
  <2>4. Extends(e[j], e[k])
    <3>1. Extends(e[j], e[j - 1])
      BY <2>3 DEF Chain
    <3>2. QED
      BY <2>3, <3>1
  <2>5. CASE i = j
    BY <1>1, <2>2, <2>3, <2>5
  <2>6. CASE i # j
    <3>1. i \in 0..k
      BY <2>2, <2>6
    <3>2. Extends(e[k], e[i])
      BY <1>3, <2>1, <3>1
    <3>3. Extends(e[j], e[i])
      BY <1>1, <2>3, <2>4, <3>2, ExtendsTransitive
    <3>4. QED
      BY <2>2, <3>3
  <2>7. QED
    BY <2>5, <2>6
<1> HIDE DEF T
<1>4. Nat \subseteq T
  BY <1>2, <1>3, SetInduction
<1>5. QED
  BY <1>4 DEF T

(* Every field of a group has a value that fits. *)
Packable(group, F) ==
    /\ Len(group) \in Nat
    /\ \A i \in 1..Len(group) : Plain(group[i], F[group[i][1]])

GroupChain(e, bl, group, F) ==
    /\ Chain(e, Len(group), bl)
    /\ \A i \in 1..Len(group) : e[i] = PackField(e[i - 1], group[i], F)
    /\ PackGroup(bl, group, F) = e[Len(group)]

LEMMA PackGroupSteps ==
    ASSUME NEW bl \in Seq(Byte), NEW group, NEW F, Packable(group, F)
    PROVE  \E e : GroupChain(e, bl, group, F)
<1> DEFINE n == Len(group)
           G == [i \in 1..n |-> [x \in Seq(Byte) |-> PackField(x, group[i], F)]]
           Rule(g) == g = [i \in 0..n |-> IF i = 0 THEN bl ELSE PackField(g[i - 1], group[i], F)]
<1>1. n \in Nat /\ \A i \in 1..n : Plain(group[i], F[group[i][1]])
  BY DEF Packable
<1>2. \A i \in 1..n : \A x \in Seq(Byte) :
         PackField(x, group[i], F) \in Seq(Byte) /\ Extends(PackField(x, group[i], F), x)
  BY <1>1, PackFieldType
<1>3. G \in Rules(n, Seq(Byte))
  BY <1>2 DEF Rules
<1>4. \A i \in 1..n : \A x \in Seq(Byte) : G[i][x] = PackField(x, group[i], F)
  OBVIOUS
<1> HIDE DEF G
<1>5. PICK e : Follows(e, Seq(Byte), bl, n, G)
  BY <1>1, <1>3, Recursion
<1>6. e \in [0..n -> Seq(Byte)] /\ e[0] = bl /\ \A i \in 1..n : e[i] = G[i][e[i - 1]]
  BY <1>5 DEF Follows
<1>7. \A i \in 1..n : e[i] = PackField(e[i - 1], group[i], F) /\ Extends(e[i], e[i - 1])
  <2>1. ASSUME NEW i \in 1..n
        PROVE  e[i] = PackField(e[i - 1], group[i], F) /\ Extends(e[i], e[i - 1])
    <3>1. e[i - 1] \in Seq(Byte)
      BY <1>1, <1>6
    <3>2. PICK x \in Seq(Byte) : x = e[i - 1]
      BY <3>1
    <3>3. e[i] = G[i][x]
      BY <1>6, <3>2
    <3>4. G[i][x] = PackField(x, group[i], F)
      BY <1>4
    <3>5. Extends(PackField(x, group[i], F), x)
      BY <1>2
    <3>6. QED
      BY <3>2, <3>3, <3>4, <3>5
  <2>2. QED
    BY <2>1
<1>8. Rule(e)
  BY <1>1, <1>6, <1>7
<1>9. Rule(CHOOSE g : Rule(g))
  BY <1>8, Zenon
<1>10. PICK f : Rule(f) /\ PackGroup(bl, group, F) = f[n]
  BY <1>9 DEF PackGroup, Fold
<1>11. Together(f, e, n)
  <2>1. f[0] = bl /\ \A i \in 1..n : f[i] = PackField(f[i - 1], group[i], F)
    BY <1>1, <1>10
  <2>2. QED
    BY <1>6, <1>7, <2>1 DEF Together
<1>12. \A i \in 0..n : f[i] = e[i]
  BY ONLY n \in Nat, <1>1, <1>11, RecursionUnique
<1>13. PackGroup(bl, group, F) = e[n]
  BY <1>1, <1>10, <1>12
<1>14. QED
  BY <1>6, <1>7, <1>13 DEF GroupChain, Chain

LEMMA GroupLengthSteps ==
    ASSUME NEW group, Len(group) \in Nat, \A i \in 1..Len(group) : group[i][3] \in Nat
    PROVE  \E g \in [0..Len(group) -> Nat] :
              /\ g[0] = 0
              /\ \A i \in 1..Len(group) : g[i] = g[i - 1] + group[i][3]
              /\ GroupLength(group) = g[Len(group)]
<1> DEFINE n == Len(group)
           G == [i \in 1..n |-> [x \in Nat |-> x + group[i][3]]]
           Rule(g) == g = [i \in 0..n |-> IF i = 0 THEN 0 ELSE g[i - 1] + group[i][3]]
<1>1. n \in Nat
  OBVIOUS
<1>2. G \in Rules(n, Nat)
  BY DEF Rules
<1>3. \A i \in 1..n : \A x \in Nat : G[i][x] = x + group[i][3]
  OBVIOUS
<1> HIDE DEF G
<1>4. PICK e : Follows(e, Nat, 0, n, G)
  BY <1>1, <1>2, Recursion
<1>5. e \in [0..n -> Nat] /\ e[0] = 0 /\ \A i \in 1..n : e[i] = G[i][e[i - 1]]
  BY <1>4 DEF Follows
<1>6. \A i \in 1..n : e[i] = e[i - 1] + group[i][3]
  <2>1. ASSUME NEW i \in 1..n
        PROVE  e[i] = e[i - 1] + group[i][3]
    <3>1. e[i - 1] \in Nat
      BY <1>1, <1>5
    <3>2. QED
      BY <1>3, <1>5, <3>1
  <2>2. QED
    BY <2>1
<1>7. Rule(e)
  BY <1>1, <1>5, <1>6
<1>8. Rule(CHOOSE g : Rule(g))
  BY <1>7, Zenon
<1>9. PICK f : Rule(f) /\ GroupLength(group) = f[n]
  BY <1>8 DEF GroupLength, Fold
<1>10. Together(f, e, n)
  <2>1. f[0] = 0 /\ \A i \in 1..n : f[i] = f[i - 1] + group[i][3]
    <3>1. \A i \in 0..n : f[i] = IF i = 0 THEN 0 ELSE f[i - 1] + group[i][3]
      BY <1>9, Zenon
    <3>2. 0 \in 0..n /\ \A i \in 1..n : i \in 0..n /\ i # 0
      BY <1>1
    <3>3. QED
      BY <3>1, <3>2, Zenon
  <2>2. QED
    BY <1>5, <1>6, <2>1 DEF Together
<1>11. \A i \in 0..n : f[i] = e[i]
  BY ONLY n \in Nat, <1>1, <1>10, RecursionUnique
<1>12. GroupLength(group) = e[n]
  BY <1>1, <1>9, <1>11
<1>13. QED
  BY <1>5, <1>6, <1>12

(* Packing a group adds what unpackData() tests for, at least. *)
LEMMA PackGroupType ==
    ASSUME NEW bl \in Seq(Byte), NEW group, NEW F, Packable(group, F)
    PROVE  /\ PackGroup(bl, group, F) \in Seq(Byte)
           /\ Extends(PackGroup(bl, group, F), bl)
           /\ GroupLength(group) \in Nat
           /\ Len(PackGroup(bl, group, F)) >= Len(bl) + GroupLength(group)
<1> DEFINE n == Len(group)
<1>1. n \in Nat /\ \A i \in 1..n : Plain(group[i], F[group[i][1]]) /\ group[i][3] \in Nat
  BY DEF Packable, Plain, Shape
<1>2. PICK e : GroupChain(e, bl, group, F)
  BY PackGroupSteps
<1>3. /\ Chain(e, n, bl) /\ e \in [0..n -> Seq(Byte)] /\ e[0] = bl
      /\ \A i \in 1..n : e[i] = PackField(e[i - 1], group[i], F)
      /\ PackGroup(bl, group, F) = e[n]
  BY <1>2 DEF GroupChain, Chain
<1>4. PICK g \in [0..n -> Nat] : /\ g[0] = 0
                                 /\ \A i \in 1..n : g[i] = g[i - 1] + group[i][3]
                                 /\ GroupLength(group) = g[n]
  BY <1>1, GroupLengthSteps
<1> HIDE DEF n
<1> DEFINE T == {k \in Nat : k <= n => Len(e[k]) >= Len(bl) + g[k]}
<1>5. 0 \in T
  BY <1>3, <1>4
<1>6. ASSUME NEW k \in Nat, k \in T
      PROVE  k + 1 \in T
  <2>1. SUFFICES ASSUME k + 1 <= n
                 PROVE  Len(e[k + 1]) >= Len(bl) + g[k + 1]
    OBVIOUS
  <2>2. PICK j : j = k + 1
    OBVIOUS
  <2>3. j \in 1..n /\ k \in 0..n /\ j - 1 = k /\ j \in 0..n
    BY <1>1, <2>1, <2>2
  <2>4. e[j] = PackField(e[k], group[j], F) /\ g[j] = g[k] + group[j][3]
    BY <1>3, <1>4, <2>3
  <2>5. Len(e[j]) >= Len(e[k]) + group[j][3]
    <3>1. e[k] \in Seq(Byte) /\ Plain(group[j], F[group[j][1]])
      BY <1>1, <1>3, <2>3
    <3>2. Len(PackField(e[k], group[j], F)) >= Len(e[k]) + group[j][3]
      BY <3>1, PackFieldType
    <3>3. QED
      BY <2>4, <3>2
  <2>6. Len(e[k]) >= Len(bl) + g[k]
    BY <1>1, <1>6, <2>1
  <2>7. /\ Len(e[j]) \in Nat /\ Len(e[k]) \in Nat /\ Len(bl) \in Nat
        /\ g[j] \in Nat /\ g[k] \in Nat /\ group[j][3] \in Nat
    BY <1>1, <1>3, <2>3
  <2>8. Len(e[j]) >= Len(bl) + g[j]
    <3>1. PICK a \in Nat, c \in Nat, d \in Nat :
             a = Len(e[k]) /\ c = g[k] /\ d = group[j][3]
      BY <2>7
    <3>2. PICK y \in Nat, z \in Nat, h \in Nat :
             y = Len(bl) /\ z = Len(e[j]) /\ h = g[j]
      BY <2>7
    <3>3. z >= a + d /\ a >= y + c /\ h = c + d
      BY <2>4, <2>5, <2>6, <3>1, <3>2
    <3>4. z >= y + h
      BY ONLY <3>3, a \in Nat, c \in Nat, d \in Nat, h \in Nat, y \in Nat, z \in Nat
    <3>5. QED
      BY <3>2, <3>4
  <2>9. QED
    BY <2>2, <2>8
<1> HIDE DEF T
<1>7. n \in T
  BY <1>1, <1>5, <1>6, SetInduction
<1>8. Len(e[n]) >= Len(bl) + g[n] /\ e[n] \in Seq(Byte)
  BY <1>1, <1>3, <1>7 DEF T
<1>9. Extends(e[n], bl)
  <2>1. \A k \in 0..n : \A i \in 0..k : Extends(e[k], e[i])
    BY <1>1, <1>3, ChainEnd
  <2>2. n \in 0..n /\ 0 \in 0..n
    BY <1>1
  <2>3. QED
    BY <1>3, <2>1, <2>2
<1>10. QED
  BY <1>1, <1>3, <1>4, <1>8, <1>9

(* The members of a message when those of N are read. *)
Filled(fs, F, N) == [x \in DOMAIN fs |-> IF x \in N THEN F[x] ELSE fs[x]]

LEMMA FilledNone ==
    ASSUME NEW fs, NEW F, fs = [x \in DOMAIN fs |-> fs[x]]
    PROVE  Filled(fs, F, {}) = fs
BY DEF Filled

LEMMA FilledMore ==
    ASSUME NEW fs, NEW F, NEW M, NEW N
    PROVE  Filled(Filled(fs, F, M), F, N) = Filled(fs, F, M \cup N)
BY DEF Filled

(* The names of the first i fields. *)
GroupNames(group, i) == {group[j][1] : j \in 1..i}

(* Nothing comes after a field that goes to the end of the message. *)
Ends(b, group, p) ==
    \A i \in 1..Len(group) : group[i][2] = "rest" => i = Len(group) /\ Len(b) = Len(p)

(* What unpackData() reads of a group is what packData() packed. *)
LEMMA ReadGroupBack ==
    ASSUME NEW b \in Seq(Byte), NEW bl \in Seq(Byte), Len(bl) >= 2,
           NEW group, NEW F, Packable(group, F),
           Agrees(b, PackGroup(bl, group, F)), Ends(b, group, PackGroup(bl, group, F)),
           NEW fs, fs = [x \in DOMAIN fs |-> fs[x]]
    PROVE  ReadGroup(b, [offset |-> Len(bl), fields |-> fs], group)
             = [offset |-> Len(PackGroup(bl, group, F)),
                fields |-> Filled(fs, F, GroupNames(group, Len(group)))]
<1> DEFINE n == Len(group)
           p == PackGroup(bl, group, F)
           r == [offset |-> Len(bl), fields |-> fs]
           Rule(g) == g = [i \in 0..n |-> IF i = 0 THEN r ELSE ReadField(b, g[i - 1], group[i])]
<1>1. n \in Nat /\ \A i \in 1..n : Plain(group[i], F[group[i][1]])
  BY DEF Packable
<1>2. Agrees(b, p) /\ \A i \in 1..n : group[i][2] = "rest" => i = n /\ Len(b) = Len(p)
  BY DEF Ends
<1>3. PICK e : GroupChain(e, bl, group, F)
  BY PackGroupSteps
<1>4. /\ Chain(e, n, bl) /\ e \in [0..n -> Seq(Byte)] /\ e[0] = bl
      /\ \A i \in 1..n : e[i] = PackField(e[i - 1], group[i], F)
      /\ p = e[n]
  BY <1>3 DEF GroupChain, Chain
<1>5. /\ p \in Seq(Byte) /\ GroupLength(group) \in Nat
      /\ Len(p) >= Len(bl) + GroupLength(group)
  BY PackGroupType
<1>6. Len(b) - r.offset >= GroupLength(group)
  <2>1. Len(b) >= Len(p)
    BY <1>2 DEF Agrees
  <2> HIDE DEF p
  <2>2. Len(b) \in Nat /\ Len(p) \in Nat /\ Len(bl) \in Nat
    BY <1>5
  <2>3. PICK w \in Nat : w = GroupLength(group)
    BY <1>5
  <2>4. Len(p) >= Len(bl) + w
    BY <1>5, <2>3
  <2>5. Len(b) - Len(bl) >= w
    BY ONLY <2>1, <2>2, <2>4, w \in Nat
  <2>6. QED
    BY <2>3, <2>5
<1>7. r = [offset |-> Len(bl), fields |-> fs]
  OBVIOUS
<1> HIDE DEF n, p, r
<1>8. \A i \in 0..n : e[i] \in Seq(Byte) /\ Len(e[i]) >= 2 /\ Agrees(b, e[i])
  <2>1. TAKE i \in 0..n
  <2>2. \A k \in 0..n : \A j \in 0..k : Extends(e[k], e[j])
    BY <1>1, <1>4, ChainEnd
  <2>3. n \in 0..n /\ i \in 0..n /\ 0 \in 0..i /\ i \in 0..n
    BY <1>1
  <2>4. Extends(e[n], e[i]) /\ Extends(e[i], bl)
    BY <1>4, <2>2, <2>3
  <2>5. e[i] \in Seq(Byte) /\ e[n] \in Seq(Byte)
    BY <1>4, <2>3
  <2>6. Agrees(b, e[i])
    BY <1>2, <1>4, <2>4, <2>5, ExtendsAgrees
  <2>7. Len(e[i]) >= 2
    BY <2>4, <2>5 DEF Extends
  <2>8. QED
    BY <2>5, <2>6, <2>7
<1> DEFINE q == [i \in 0..n |-> [offset |-> Len(e[i]),
                                 fields |-> Filled(fs, F, GroupNames(group, i))]]
<1>9. q[0] = r
  <2>1. GroupNames(group, 0) = {}
    BY DEF GroupNames
  <2>2. Filled(fs, F, GroupNames(group, 0)) = fs
    BY <2>1, FilledNone
  <2>3. QED
    BY <1>1, <1>4, <2>2 DEF r
<1>10. \A i \in 1..n : q[i] = ReadField(b, q[i - 1], group[i])
  <2>1. TAKE i \in 1..n
  <2> DEFINE N == GroupNames(group, i - 1)
             h == group[i]
             a == h[1]
             v == [offset |-> Len(e[i - 1]), fields |-> Filled(fs, F, N)]
  <2>2. i - 1 \in 0..n /\ i \in 0..n /\ q[i - 1] = v
    BY <1>1
  <2>3. GroupNames(group, i) = N \cup {a}
    <3>1. 1..i = 1..(i - 1) \cup {i}
      BY <1>1
    <3>2. QED
      BY <3>1 DEF GroupNames
  <2>4. e[i] = PackField(e[i - 1], h, F) /\ Plain(h, F[h[1]])
    BY <1>1, <1>4
  <2>5. v.offset = Len(e[i - 1]) /\ v.fields = Filled(fs, F, N)
    OBVIOUS
  <2>6. h[2] = "rest" => Len(b) = Len(e[i])
    BY <1>2, <1>4
  <2>7. q[i] = [offset |-> Len(e[i]), fields |-> Filled(fs, F, GroupNames(group, i))]
    BY <2>2
  <2> HIDE DEF v, h, N, q
  <2>8. /\ e[i - 1] \in Seq(Byte) /\ Len(e[i - 1]) >= 2
        /\ Agrees(b, PackField(e[i - 1], h, F))
    BY <1>8, <2>2, <2>4
  <2>9. h[2] = "rest" => Len(b) = Len(PackField(e[i - 1], h, F))
    BY <2>4, <2>6
  <2>10. ReadField(b, v, h)
           = [offset |-> Len(PackField(e[i - 1], h, F)),
              fields |-> [v.fields EXCEPT ![h[1]] = F[h[1]]]]
    <3>1. v.offset = Len(e[i - 1])
      BY <2>5
    <3>2. QED
      BY ONLY <3>1, <2>4, <2>8, <2>9, b \in Seq(Byte), ReadFieldBack
  <2>11. [Filled(fs, F, N) EXCEPT ![a] = F[a]] = Filled(fs, F, N \cup {a})
    <3> HIDE DEF a
    <3>1. QED
      BY DEF Filled
  <2>12. ReadField(b, v, h) = [offset |-> Len(e[i]), fields |-> Filled(fs, F, N \cup {a})]
    BY <2>4, <2>5, <2>10, <2>11
  <2>13. QED
    BY <2>2, <2>3, <2>7, <2>12 DEF h
<1>11. /\ q[n] = [offset |-> Len(p), fields |-> Filled(fs, F, GroupNames(group, n))]
       /\ q = [i \in 0..n |-> q[i]]
  BY <1>1, <1>4
<1> HIDE DEF q
<1>12. Rule(q)
  <2>1. \A i \in 0..n : q[i] = IF i = 0 THEN r ELSE ReadField(b, q[i - 1], group[i])
    BY <1>1, <1>9, <1>10
  <2>2. QED
    BY <1>11, <2>1
<1>13. Rule(CHOOSE g : Rule(g))
  BY <1>12, Zenon
<1>14. PICK f : Rule(f) /\ ReadGroup(b, r, group) = f[n]
  BY <1>6, <1>13 DEF ReadGroup, Fold, n
<1>15. Together(f, q, n)
  <2>1. f[0] = r /\ \A i \in 1..n : f[i] = ReadField(b, f[i - 1], group[i])
    BY <1>1, <1>14
  <2>2. QED
    BY <1>9, <1>10, <2>1 DEF Together
<1>16. \A i \in 0..n : f[i] = q[i]
  <2>1. n \in Nat
    BY <1>1
  <2>2. QED
    BY ONLY <1>15, <2>1, RecursionUnique
<1>17. f[n] = q[n]
  BY <1>1, <1>16
<1>18. QED
  BY <1>11, <1>14, <1>17 DEF n, p, r

-----------------------------------------------------------------------------
(* Layouts. *)

PackableLayout(layout, F) ==
    /\ Len(layout) \in Nat
    /\ \A i \in 1..Len(layout) : Packable(layout[i], F)

LayoutChain(e, bl, layout, F) ==
    /\ Chain(e, Len(layout), bl)
    /\ \A i \in 1..Len(layout) : e[i] = PackGroup(e[i - 1], layout[i], F)
    /\ PackLayout(bl, layout, F) = e[Len(layout)]

LEMMA PackLayoutSteps ==
    ASSUME NEW bl \in Seq(Byte), NEW layout, NEW F, PackableLayout(layout, F)
    PROVE  \E e : LayoutChain(e, bl, layout, F)
<1> DEFINE n == Len(layout)
           G == [i \in 1..n |-> [x \in Seq(Byte) |-> PackGroup(x, layout[i], F)]]
           Rule(g) == g = [i \in 0..n |-> IF i = 0 THEN bl ELSE PackGroup(g[i - 1], layout[i], F)]
<1>1. n \in Nat /\ \A i \in 1..n : Packable(layout[i], F)
  BY DEF PackableLayout
<1>2. \A i \in 1..n : \A x \in Seq(Byte) :
         PackGroup(x, layout[i], F) \in Seq(Byte) /\ Extends(PackGroup(x, layout[i], F), x)
  BY <1>1, PackGroupType
<1>3. G \in Rules(n, Seq(Byte))
  BY <1>2 DEF Rules
<1>4. \A i \in 1..n : \A x \in Seq(Byte) : G[i][x] = PackGroup(x, layout[i], F)
  OBVIOUS
<1> HIDE DEF G
<1>5. PICK e : Follows(e, Seq(Byte), bl, n, G)
  BY <1>1, <1>3, Recursion
<1>6. e \in [0..n -> Seq(Byte)] /\ e[0] = bl /\ \A i \in 1..n : e[i] = G[i][e[i - 1]]
  BY <1>5 DEF Follows
<1>7. \A i \in 1..n : e[i] = PackGroup(e[i - 1], layout[i], F) /\ Extends(e[i], e[i - 1])
  <2>1. ASSUME NEW i \in 1..n
        PROVE  e[i] = PackGroup(e[i - 1], layout[i], F) /\ Extends(e[i], e[i - 1])
    <3>1. e[i - 1] \in Seq(Byte)
      BY <1>1, <1>6
    <3>2. PICK x \in Seq(Byte) : x = e[i - 1]
      BY <3>1
    <3>3. e[i] = G[i][x]
      BY <1>6, <3>2
    <3>4. G[i][x] = PackGroup(x, layout[i], F)
      BY <1>4
    <3>5. Extends(PackGroup(x, layout[i], F), x)
      BY <1>2
    <3>6. QED
      BY <3>2, <3>3, <3>4, <3>5
  <2>2. QED
    BY <2>1
<1>8. Rule(e)
  BY <1>1, <1>6, <1>7
<1>9. Rule(CHOOSE g : Rule(g))
  BY <1>8, Zenon
<1>10. PICK f : Rule(f) /\ PackLayout(bl, layout, F) = f[n]
  BY <1>9 DEF PackLayout, Fold
<1>11. Together(f, e, n)
  <2>1. f[0] = bl /\ \A i \in 1..n : f[i] = PackGroup(f[i - 1], layout[i], F)
    <3>1. \A i \in 0..n : f[i] = IF i = 0 THEN bl ELSE PackGroup(f[i - 1], layout[i], F)
      BY <1>10, Zenon
    <3>2. 0 \in 0..n /\ \A i \in 1..n : i \in 0..n /\ i # 0
      BY <1>1
    <3>3. QED
      BY <3>1, <3>2, Zenon
  <2>2. QED
    BY <1>6, <1>7, <2>1 DEF Together
<1>12. \A i \in 0..n : f[i] = e[i]
  BY ONLY n \in Nat, <1>1, <1>11, RecursionUnique
<1>13. PackLayout(bl, layout, F) = e[n]
  BY <1>1, <1>10, <1>12
<1>14. QED
  BY <1>6, <1>7, <1>13 DEF LayoutChain, Chain

LEMMA PackLayoutType ==
    ASSUME NEW bl \in Seq(Byte), NEW layout, NEW F, PackableLayout(layout, F)
    PROVE  /\ PackLayout(bl, layout, F) \in Seq(Byte)
           /\ Extends(PackLayout(bl, layout, F), bl)
<1> DEFINE n == Len(layout)
<1>1. n \in Nat
  BY DEF PackableLayout
<1>2. PICK e : LayoutChain(e, bl, layout, F)
  BY PackLayoutSteps
<1>3. /\ Chain(e, n, bl) /\ e \in [0..n -> Seq(Byte)] /\ e[0] = bl
      /\ PackLayout(bl, layout, F) = e[n]
  BY <1>2 DEF LayoutChain, Chain
<1> HIDE DEF n
<1>4. \A k \in 0..n : \A i \in 0..k : Extends(e[k], e[i])
  BY <1>1, <1>3, ChainEnd
<1>5. n \in 0..n /\ 0 \in 0..n
  BY <1>1
<1>6. QED
  BY <1>3, <1>4, <1>5

(* The names of the first i groups. *)
LayoutNames(layout, i) == UNION {GroupNames(layout[k], Len(layout[k])) : k \in 1..i}

LayoutEnds(b, layout, p) ==
    \A i \in 1..Len(layout) : \A j \in 1..Len(layout[i]) :
        layout[i][j][2] = "rest" =>
            i = Len(layout) /\ j = Len(layout[i]) /\ Len(b) = Len(p)

(* All that unpackData() reads is what packData() packed. *)
LEMMA ReadLayoutBack ==
    ASSUME NEW b \in Seq(Byte), NEW bl \in Seq(Byte), Len(bl) >= 2,
           NEW layout, NEW F, PackableLayout(layout, F),
           Agrees(b, PackLayout(bl, layout, F)),
           LayoutEnds(b, layout, PackLayout(bl, layout, F)),
           NEW fs, fs = [x \in DOMAIN fs |-> fs[x]]
    PROVE  ReadLayout(b, [offset |-> Len(bl), fields |-> fs], layout)
             = [offset |-> Len(PackLayout(bl, layout, F)),
                fields |-> Filled(fs, F, LayoutNames(layout, Len(layout)))]
<1> DEFINE n == Len(layout)
           p == PackLayout(bl, layout, F)
           r == [offset |-> Len(bl), fields |-> fs]
           Rule(g) == g = [i \in 0..n |-> IF i = 0 THEN r ELSE ReadGroup(b, g[i - 1], layout[i])]
<1>1. n \in Nat /\ \A i \in 1..n : Packable(layout[i], F)
  BY DEF PackableLayout
<1>2. /\ Agrees(b, p)
      /\ \A i \in 1..n : \A j \in 1..Len(layout[i]) :
           layout[i][j][2] = "rest" => i = n /\ j = Len(layout[i]) /\ Len(b) = Len(p)
  BY DEF LayoutEnds
<1>3. PICK e : LayoutChain(e, bl, layout, F)
  BY PackLayoutSteps
<1>4. /\ Chain(e, n, bl) /\ e \in [0..n -> Seq(Byte)] /\ e[0] = bl
      /\ \A i \in 1..n : e[i] = PackGroup(e[i - 1], layout[i], F)
      /\ p = e[n]
  BY <1>3 DEF LayoutChain, Chain
<1> HIDE DEF n, p, r
<1>5. \A i \in 0..n : e[i] \in Seq(Byte) /\ Len(e[i]) >= 2 /\ Agrees(b, e[i])
  <2>1. TAKE i \in 0..n
  <2>2. \A k \in 0..n : \A j \in 0..k : Extends(e[k], e[j])
    BY <1>1, <1>4, ChainEnd
  <2>3. n \in 0..n /\ i \in 0..n /\ 0 \in 0..i /\ i \in 0..n
    BY <1>1
  <2>4. Extends(e[n], e[i]) /\ Extends(e[i], bl)
    BY <1>4, <2>2, <2>3
  <2>5. e[i] \in Seq(Byte) /\ e[n] \in Seq(Byte)
    BY <1>4, <2>3
  <2>6. Agrees(b, e[i])
    BY <1>2, <1>4, <2>4, <2>5, ExtendsAgrees
  <2>7. Len(e[i]) >= 2
    BY <2>4, <2>5 DEF Extends
  <2>8. QED
    BY <2>5, <2>6, <2>7
<1> DEFINE q == [i \in 0..n |-> [offset |-> Len(e[i]),
                                 fields |-> Filled(fs, F, LayoutNames(layout, i))]]
<1>6. q[0] = r
  <2>1. LayoutNames(layout, 0) = {}
    BY DEF LayoutNames
  <2>2. Filled(fs, F, LayoutNames(layout, 0)) = fs
    BY <2>1, FilledNone
  <2>3. QED
    BY <1>1, <1>4, <2>2 DEF r
<1>7. \A i \in 1..n : q[i] = ReadGroup(b, q[i - 1], layout[i])
  <2>1. TAKE i \in 1..n
  <2> DEFINE N == LayoutNames(layout, i - 1)
             h == layout[i]
             M == GroupNames(h, Len(h))
             g == Filled(fs, F, N)
  <2>2. i - 1 \in 0..n /\ i \in 0..n /\ q[i - 1] = [offset |-> Len(e[i - 1]), fields |-> g]
    BY <1>1
  <2>3. LayoutNames(layout, i) = N \cup M
    <3>1. 1..i = 1..(i - 1) \cup {i}
      BY <1>1
    <3>2. QED
      BY <3>1 DEF LayoutNames
  <2>4. e[i] = PackGroup(e[i - 1], h, F) /\ Packable(h, F)
    BY <1>1, <1>4
  <2>5. Ends(b, h, e[i])
    BY <1>2, <1>4 DEF Ends
  <2>6. q[i] = [offset |-> Len(e[i]), fields |-> Filled(fs, F, LayoutNames(layout, i))]
    BY <2>2
  <2>7. g = [x \in DOMAIN g |-> g[x]]
    BY DEF Filled
  <2>8. Filled(g, F, M) = Filled(fs, F, N \cup M)
    BY FilledMore
  <2> HIDE DEF h, N, M, q, g
  <2>9. /\ e[i - 1] \in Seq(Byte) /\ Len(e[i - 1]) >= 2
        /\ Agrees(b, PackGroup(e[i - 1], h, F)) /\ Ends(b, h, PackGroup(e[i - 1], h, F))
    BY <1>5, <2>2, <2>4, <2>5
  <2>10. ReadGroup(b, [offset |-> Len(e[i - 1]), fields |-> g], h)
           = [offset |-> Len(PackGroup(e[i - 1], h, F)),
              fields |-> Filled(g, F, GroupNames(h, Len(h)))]
    BY ONLY <2>4, <2>7, <2>9, b \in Seq(Byte), ReadGroupBack
  <2>11. QED
    BY <2>2, <2>3, <2>4, <2>6, <2>8, <2>10 DEF h, M
<1>8. /\ q[n] = [offset |-> Len(p), fields |-> Filled(fs, F, LayoutNames(layout, n))]
       /\ q = [i \in 0..n |-> q[i]]
  BY <1>1, <1>4
<1> HIDE DEF q
<1>9. Rule(q)
  <2>1. \A i \in 0..n : q[i] = IF i = 0 THEN r ELSE ReadGroup(b, q[i - 1], layout[i])
    BY <1>1, <1>6, <1>7
  <2>2. QED
    BY <1>8, <2>1
<1>10. Rule(CHOOSE g : Rule(g))
  BY <1>9, Zenon
<1>11. PICK f : Rule(f) /\ ReadLayout(b, r, layout) = f[n]
  BY <1>10 DEF ReadLayout, Fold, n
<1>12. Together(f, q, n)
  <2>1. f[0] = r /\ \A i \in 1..n : f[i] = ReadGroup(b, f[i - 1], layout[i])
    BY <1>1, <1>11
  <2>2. QED
    BY <1>6, <1>7, <2>1 DEF Together
<1>13. \A i \in 0..n : f[i] = q[i]
  <2>1. n \in Nat
    BY <1>1
  <2>2. QED
    BY ONLY <1>12, <2>1, RecursionUnique
<1>14. f[n] = q[n]
  BY <1>1, <1>13
<1>15. QED
  BY <1>8, <1>11, <1>14 DEF n, p, r

-----------------------------------------------------------------------------
(* Messages. *)

(* The fields a layout is made of; one that goes to the end of the message   *)
(* is the only one.                                                          *)
Regular(S, layout) ==
    /\ \A f \in S : Shape(f)
    /\ layout \in Seq(Seq(S))
    /\ \/ \A f \in S : f[2] # "rest"
       \/ Len(layout) = 1 /\ Len(layout[1]) = 1

LEMMA PositionFields == \E S : Regular(S, PositionLayout)
<1> DEFINE a(i) == PositionLayout[i][1]
           S == {a(i) : i \in 1..13}
<1>1. \A i \in 1..13 : Shape(a(i)) /\ a(i)[2] # "rest"
  BY DEF PositionLayout, Shape
<1>2. PositionLayout = [i \in 1..13 |-> <<a(i)>>]
  BY DEF PositionLayout
<1> HIDE DEF a
<1>3. [i \in 1..13 |-> <<a(i)>>] \in Seq(Seq(S))
  OBVIOUS
<1>4. Regular(S, PositionLayout)
  BY <1>1, <1>2, <1>3 DEF Regular
<1>5. QED
  BY <1>4

LEMMA StatusFields == \E S : Regular(S, StatusLayout)
<1> DEFINE a == <<"bat_percent", "u", 1>>
           b == <<"mah_used", "u", 4>>
           c == <<"voltage", "u", 4>>
<1>1. \A f \in {a, b, c} : Shape(f) /\ f[2] # "rest"
  BY DEF Shape
<1>2. StatusLayout = <<<<a, b>>, <<c>>>>
  BY DEF StatusLayout
<1> HIDE DEF a, b, c
<1>3. <<<<a, b>>, <<c>>>> \in Seq(Seq({a, b, c}))
  OBVIOUS
<1>4. Regular({a, b, c}, StatusLayout)
  BY <1>1, <1>2, <1>3 DEF Regular
<1>5. QED
  BY <1>4

LEMMA SearchFields == \E S : Regular(S, SearchLayout)
<1> DEFINE a == <<"search_id", "u", 8>>
           b == <<"point_completed", "u", 8>>
           c == <<"points_total", "u", 8>>
<1>1. \A f \in {a, b, c} : Shape(f) /\ f[2] # "rest"
  BY DEF Shape
<1>2. SearchLayout = <<<<a, b, c>>>>
  BY DEF SearchLayout
<1> HIDE DEF a, b, c
<1>3. <<<<a, b, c>>>> \in Seq(Seq({a, b, c}))
  OBVIOUS
<1>4. Regular({a, b, c}, SearchLayout)
  BY <1>1, <1>2, <1>3 DEF Regular
<1>5. QED
  BY <1>4

LEMMA CommandFields == \E S : Regular(S, CommandLayout)
<1> DEFINE a == <<"timestamp", "u", 8>>
           b == <<"latitude", "s", 4>>
           c == <<"longitude", "s", 4>>
           d == <<"altitude", "u", 4>>
           e == <<"command", "u", 1>>
<1>1. \A f \in {a, b, c, d, e} : Shape(f) /\ f[2] # "rest"
  BY DEF Shape
<1>2. CommandLayout = <<<<a, b, c, d, e>>>>
  BY DEF CommandLayout
<1> HIDE DEF a, b, c, d, e
<1>3. <<<<a, b, c, d, e>>>> \in Seq(Seq({a, b, c, d, e}))
  OBVIOUS
<1>4. Regular({a, b, c, d, e}, CommandLayout)
  BY <1>1, <1>2, <1>3 DEF Regular
<1>5. QED
  BY <1>4

LEMMA SMMFields == \E S : Regular(S, SMMLayout)
<1> DEFINE a == <<"server_url", "string", 2>>
           b == <<"username", "string", 2>>
           c == <<"password", "string", 2>>
<1>1. \A f \in {a, b, c} : Shape(f) /\ f[2] # "rest"
  BY DEF Shape
<1>2. SMMLayout = <<<<a>>, <<b>>, <<c>>>>
  BY DEF SMMLayout
<1> HIDE DEF a, b, c
<1>3. <<<<a>>, <<b>>, <<c>>>> \in Seq(Seq({a, b, c}))
  OBVIOUS
<1>4. Regular({a, b, c}, SMMLayout)
  BY <1>1, <1>2, <1>3 DEF Regular
<1>5. QED
  BY <1>4

LEMMA OneField ==
    ASSUME NEW x
    PROVE  /\ \E S : Regular(S, <<<<<<x, "u", 8>>>>>>)
           /\ \E S : Regular(S, <<<<<<x, "rest", 0>>>>>>)
           /\ \E S : Regular(S, <<>>)
<1> DEFINE a == <<x, "u", 8>>
           b == <<x, "rest", 0>>
<1>1. Shape(a) /\ Shape(b)
  BY DEF Shape
<1> HIDE DEF a, b
<1>2. Regular({a}, <<<<a>>>>) /\ Regular({b}, <<<<b>>>>) /\ Regular({}, <<>>)
  BY <1>1 DEF Regular
<1>3. QED
  BY <1>2 DEF a, b

LEMMA LayoutFields ==
    ASSUME NEW type
    PROVE  \E S : Regular(S, Layout(type))
<1>1. Layout(type) \in {PositionLayout, StatusLayout, SearchLayout, CommandLayout, SMMLayout,
                        <<<<<<"name", "rest", 0>>>>>>, <<<<<<"request_id", "u", 8>>>>>>,
                        <<<<<<"capabilities", "u", 8>>>>>>, <<>>}
  BY DEF Layout
<1>2. QED
  BY <1>1, PositionFields, StatusFields, SearchFields, CommandFields, SMMFields, OneField

(* The names of the groups of a layout are those of its fields. *)
LEMMA NamesOf ==
    ASSUME NEW S, NEW layout \in Seq(Seq(S))
    PROVE  LayoutNames(layout, Len(layout)) = Names(layout)
<1>1. DOMAIN layout = 1..Len(layout) /\ \A i \in 1..Len(layout) : layout[i] \in Seq(S)
  OBVIOUS
<1>2. \A g \in Seq(S) : Range(g) = {g[j] : j \in 1..Len(g)}
  BY DEF Range
<1>3. QED
  BY <1>1, <1>2 DEF LayoutNames, GroupNames, Names, Fields

LEMMA LayoutReady ==
    ASSUME NEW type, NEW F, FieldsFit(F, Layout(type))
    PROVE  /\ PackableLayout(Layout(type), F)
           /\ LayoutNames(Layout(type), Len(Layout(type))) = Names(Layout(type))
           /\ \A b, p : Len(b) = Len(p) => LayoutEnds(b, Layout(type), p)
<1> DEFINE layout == Layout(type)
<1>1. PICK S : Regular(S, layout)
  BY LayoutFields
<1>2. FieldsFit(F, layout)
  OBVIOUS
<1> HIDE DEF layout
<1>3. layout \in Seq(Seq(S)) /\ Len(layout) \in Nat
  BY <1>1 DEF Regular
<1>4. ASSUME NEW i \in 1..Len(layout)
      PROVE  Packable(layout[i], F)
  <2>1. layout[i] \in Seq(S) /\ Len(layout[i]) \in Nat
    BY <1>3
  <2>2. ASSUME NEW j \in 1..Len(layout[i])
        PROVE  Plain(layout[i][j], F[layout[i][j][1]])
    <3>1. layout[i][j] \in S /\ layout[i][j] \in Range(layout[i])
      BY <2>1 DEF Range
    <3>2. layout[i][j] \in Fields(layout)
      BY <1>3, <3>1 DEF Fields
    <3>3. Fits(layout[i][j], F[layout[i][j][1]])
      BY <1>2, <3>2 DEF FieldsFit
    <3>4. QED
      BY <1>1, <3>1, <3>3 DEF Plain, Regular
  <2>3. QED
    BY <2>1, <2>2 DEF Packable
<1>5. PackableLayout(layout, F)
  BY <1>3, <1>4 DEF PackableLayout
<1>6. LayoutNames(layout, Len(layout)) = Names(layout)
  BY <1>3, NamesOf
<1>7. ASSUME NEW b, NEW p, Len(b) = Len(p)
      PROVE  LayoutEnds(b, layout, p)
  <2>1. CASE \A f \in S : f[2] # "rest"
    <3>1. \A i \in 1..Len(layout) : \A j \in 1..Len(layout[i]) : layout[i][j] \in S
      BY <1>3
    <3>2. QED
      BY <2>1, <3>1 DEF LayoutEnds
  <2>2. CASE Len(layout) = 1 /\ Len(layout[1]) = 1
    <3>1. ASSUME NEW i \in 1..Len(layout), NEW j \in 1..Len(layout[i])
          PROVE  i = Len(layout) /\ j = Len(layout[i])
      <4>1. i = 1
        BY <2>2
      <4>2. Len(layout[i]) = 1
        BY <2>2, <4>1
      <4>3. j \in 1..1
        BY <4>2
      <4>4. QED
        BY ONLY <2>2, <4>1, <4>2, <4>3
    <3>2. QED
      BY <1>7, <3>1 DEF LayoutEnds
  <2>3. QED
    BY <1>1, <2>1, <2>2 DEF Regular
<1>8. QED
  BY <1>5, <1>6, <1>7 DEF layout

(* What is read of a message that is not a server list: all but tslc. *)
LEMMA UnpackLayout ==
    ASSUME NEW b \in Seq(Byte), NEW bl \in Seq(Byte), Len(bl) = HeaderLength,
           NEW type, type # "server_list", NEW F, FieldsFit(F, Layout(type)),
           Agrees(b, PackLayout(bl, Layout(type), F)),
           Len(b) = Len(PackLayout(bl, Layout(type), F))
    PROVE  UnpackData(b, type) = Filled(Fresh(type), F, Names(Layout(type)))
<1> DEFINE layout == Layout(type)
           fs == Fresh(type)
<1>1. UnpackData(b, type) = ReadLayout(b, [offset |-> HeaderLength, fields |-> fs], layout).fields
  BY DEF UnpackData
<1>2. fs = [x \in DOMAIN fs |-> fs[x]]
  BY DEF Fresh
<1>3. /\ PackableLayout(layout, F)
      /\ LayoutNames(layout, Len(layout)) = Names(layout)
      /\ LayoutEnds(b, layout, PackLayout(bl, layout, F))
  BY LayoutReady
<1>4. Agrees(b, PackLayout(bl, layout, F)) /\ Len(bl) >= 2
  BY DEF HeaderLength
<1> HIDE DEF layout, fs
<1>5. ReadLayout(b, [offset |-> Len(bl), fields |-> fs], layout)
        = [offset |-> Len(PackLayout(bl, layout, F)),
           fields |-> Filled(fs, F, LayoutNames(layout, Len(layout)))]
  BY ONLY <1>2, <1>3, <1>4, b \in Seq(Byte), bl \in Seq(Byte), ReadLayoutBack
<1>6. QED
  BY <1>1, <1>3, <1>5 DEF layout, fs

(* A packed position report has no tslc. *)
LEMMA NoTslc == "tslc" \notin Names(PositionLayout)
<1> DEFINE a(i) == PositionLayout[i][1]
<1>1. \A i \in 1..13 : a(i)[1] # "tslc"
  BY DEF PositionLayout
<1>2. PositionLayout = [i \in 1..13 |-> <<a(i)>>]
  BY DEF PositionLayout
<1> HIDE DEF a
<1>3. \A i \in 1..13 : Range(<<a(i)>>) = {a(i)}
  BY DEF Range
<1>4. Fields(PositionLayout) = {a(i) : i \in 1..13}
  BY <1>2, <1>3 DEF Fields
<1>5. QED
  BY <1>1, <1>4 DEF Names

LEMMA FreshTslc == Fresh("position_report")["tslc"] = 0
<1>1. "tslc" \in Members("position_report")
  BY DEF Members
<1>2. Layout("position_report") = PositionLayout
  BY DEF Layout
<1>3. ~\E f \in Fields(PositionLayout) : f[1] = "tslc"
  BY NoTslc DEF Names
<1>4. QED
  BY <1>1, <1>2, <1>3 DEF Fresh

-----------------------------------------------------------------------------
(* Server lists. *)

LEMMA ServerShape ==
    /\ Regular({<<"port", "u", 2>>, <<"address", "string", 2>>}, <<ServerGroup>>)
    /\ Len(ServerGroup) = 2 /\ GroupNames(ServerGroup, 2) = {"port", "address"}
    /\ GroupLength(ServerGroup) = 4
<1> DEFINE a == <<"port", "u", 2>>
           c == <<"address", "string", 2>>
<1>1. \A f \in {a, c} : Shape(f) /\ f[2] # "rest" /\ f[3] = 2
  BY DEF Shape
<1>2. ServerGroup = <<a, c>> /\ a[1] = "port" /\ c[1] = "address"
  BY DEF ServerGroup
<1> HIDE DEF a, c
<1>3. <<<<a, c>>>> \in Seq(Seq({a, c}))
  OBVIOUS
<1>4. Len(ServerGroup) = 2 /\ ServerGroup[1] = a /\ ServerGroup[2] = c
  BY <1>2
<1>5. Regular({a, c}, <<ServerGroup>>)
  BY <1>1, <1>2, <1>3 DEF Regular
<1>6. GroupNames(ServerGroup, 2) = {"port", "address"}
  <2>1. 1..2 = {1, 2}
    OBVIOUS
  <2>2. QED
    BY <1>2, <1>4, <2>1 DEF GroupNames
<1>7. GroupLength(ServerGroup) = 4
  <2>1. \A i \in 1..Len(ServerGroup) : ServerGroup[i][3] = 2
    BY <1>1, <1>4
  <2>2. PICK g \in [0..Len(ServerGroup) -> Nat] :
           /\ g[0] = 0
           /\ \A i \in 1..Len(ServerGroup) : g[i] = g[i - 1] + ServerGroup[i][3]
           /\ GroupLength(ServerGroup) = g[Len(ServerGroup)]
    BY <1>4, <2>1, GroupLengthSteps
  <2>3. g[1] = g[1 - 1] + 2 /\ g[2] = g[2 - 1] + 2
    BY <1>4, <2>1, <2>2
  <2>4. 1 - 1 = 0 /\ 2 - 1 = 1
    OBVIOUS
  <2>5. QED
    BY <1>4, <2>2, <2>3, <2>4
<1>8. QED
  BY <1>4, <1>5, <1>6, <1>7 DEF a, c

PackableServers(servers) ==
    /\ Len(servers) \in Nat
    /\ \A i \in 1..Len(servers) : Packable(ServerGroup, servers[i])

ServerChain(e, bl, servers) ==
    /\ Chain(e, Len(servers), bl)
    /\ \A i \in 1..Len(servers) : e[i] = PackGroup(e[i - 1], ServerGroup, servers[i])
    /\ PackServers(bl, servers) = e[Len(servers)]

LEMMA PackServersSteps ==
    ASSUME NEW bl \in Seq(Byte), NEW servers, PackableServers(servers)
    PROVE  \E e : ServerChain(e, bl, servers)
<1> DEFINE n == Len(servers)
           G == [i \in 1..n |-> [x \in Seq(Byte) |-> PackGroup(x, ServerGroup, servers[i])]]
           Rule(g) == g = [i \in 0..n |-> IF i = 0 THEN bl ELSE PackGroup(g[i - 1], ServerGroup, servers[i])]
<1>1. n \in Nat /\ \A i \in 1..n : Packable(ServerGroup, servers[i])
  BY DEF PackableServers
<1>2. \A i \in 1..n : \A x \in Seq(Byte) :
         PackGroup(x, ServerGroup, servers[i]) \in Seq(Byte) /\ Extends(PackGroup(x, ServerGroup, servers[i]), x)
  BY <1>1, PackGroupType
<1>3. G \in Rules(n, Seq(Byte))
  BY <1>2 DEF Rules
<1>4. \A i \in 1..n : \A x \in Seq(Byte) : G[i][x] = PackGroup(x, ServerGroup, servers[i])
  OBVIOUS
<1> HIDE DEF G
<1>5. PICK e : Follows(e, Seq(Byte), bl, n, G)
  BY <1>1, <1>3, Recursion
<1>6. e \in [0..n -> Seq(Byte)] /\ e[0] = bl /\ \A i \in 1..n : e[i] = G[i][e[i - 1]]
  BY <1>5 DEF Follows
<1>7. \A i \in 1..n : e[i] = PackGroup(e[i - 1], ServerGroup, servers[i]) /\ Extends(e[i], e[i - 1])
  <2>1. ASSUME NEW i \in 1..n
        PROVE  e[i] = PackGroup(e[i - 1], ServerGroup, servers[i]) /\ Extends(e[i], e[i - 1])
    <3>1. e[i - 1] \in Seq(Byte)
      BY <1>1, <1>6
    <3>2. PICK x \in Seq(Byte) : x = e[i - 1]
      BY <3>1
    <3>3. e[i] = G[i][x]
      BY <1>6, <3>2
    <3>4. G[i][x] = PackGroup(x, ServerGroup, servers[i])
      BY <1>4
    <3>5. Extends(PackGroup(x, ServerGroup, servers[i]), x)
      BY <1>2
    <3>6. QED
      BY <3>2, <3>3, <3>4, <3>5
  <2>2. QED
    BY <2>1
<1>8. Rule(e)
  BY <1>1, <1>6, <1>7
<1>9. Rule(CHOOSE g : Rule(g))
  BY <1>8, Zenon
<1>10. PICK f : Rule(f) /\ PackServers(bl, servers) = f[n]
  BY <1>9 DEF PackServers, Fold
<1>11. Together(f, e, n)
  <2>1. f[0] = bl /\ \A i \in 1..n : f[i] = PackGroup(f[i - 1], ServerGroup, servers[i])
    <3>1. \A i \in 0..n : f[i] = IF i = 0 THEN bl ELSE PackGroup(f[i - 1], ServerGroup, servers[i])
      BY <1>10, Zenon
    <3>2. 0 \in 0..n /\ \A i \in 1..n : i \in 0..n /\ i # 0
      BY <1>1
    <3>3. QED
      BY <3>1, <3>2, Zenon
  <2>2. QED
    BY <1>6, <1>7, <2>1 DEF Together
<1>12. \A i \in 0..n : f[i] = e[i]
  BY ONLY n \in Nat, <1>1, <1>11, RecursionUnique
<1>13. PackServers(bl, servers) = e[n]
  BY <1>1, <1>10, <1>12
<1>14. QED
  BY <1>6, <1>7, <1>13 DEF ServerChain, Chain

LEMMA ServersReady ==
    ASSUME NEW servers \in Seq([port : Int, address : Seq(Byte)]),
           \A i \in DOMAIN servers : FieldsFit(servers[i], <<ServerGroup>>)
    PROVE  PackableServers(servers)
<1>1. PICK S : Regular(S, <<ServerGroup>>)
  BY ServerShape
<1> DEFINE h == ServerGroup
<1>2. h \in Seq(S) /\ Len(h) \in Nat /\ DOMAIN h = 1..Len(h)
  <2> HIDE DEF h
  <2>1. <<h>> \in Seq(Seq(S))
    BY <1>1 DEF Regular, h
  <2>2. <<h>>[1] \in Seq(S)
    BY <2>1
  <2>3. QED
    BY <2>2
<1>3. \A f \in S : Shape(f)
  BY <1>1 DEF Regular
<1> HIDE DEF h
<1>4. Fields(<<h>>) = Range(h)
  BY DEF Fields
<1>5. ASSUME NEW i \in 1..Len(servers)
      PROVE  Packable(h, servers[i])
  <2>1. FieldsFit(servers[i], <<h>>)
    BY DEF h
  <2>2. ASSUME NEW j \in 1..Len(h)
        PROVE  Plain(h[j], servers[i][h[j][1]])
    <3>1. h[j] \in S
      BY <1>2
    <3>2. j \in DOMAIN h
      BY <1>2
    <3>3. h[j] \in Range(h)
      BY <3>2 DEF Range
    <3>4. QED
      BY <1>3, <1>4, <2>1, <3>1, <3>3 DEF Plain, FieldsFit
  <2>3. QED
    BY <1>2, <2>2 DEF Packable
<1>6. QED
  BY <1>5 DEF PackableServers, h

(* Every entry takes the four bytes that are tested for, at least. *)
LEMMA ServerStep ==
    ASSUME NEW bl \in Seq(Byte), NEW servers, PackableServers(servers),
           NEW e, ServerChain(e, bl, servers)
    PROVE  /\ \A i \in 0..Len(servers) : /\ e[i] \in Seq(Byte)
                                         /\ Len(e[i]) >= Len(bl) + i
                                         /\ Extends(e[Len(servers)], e[i])
           /\ \A i \in 1..Len(servers) : Len(e[i]) >= Len(e[i - 1]) + 4
<1> DEFINE n == Len(servers)
<1>1. n \in Nat /\ \A i \in 1..n : Packable(ServerGroup, servers[i])
  BY DEF PackableServers
<1>2. /\ Chain(e, n, bl) /\ e \in [0..n -> Seq(Byte)] /\ e[0] = bl
      /\ \A i \in 1..n : e[i] = PackGroup(e[i - 1], ServerGroup, servers[i])
  BY DEF ServerChain, Chain
<1> HIDE DEF n
<1>3. \A i \in 1..n : Len(e[i]) >= Len(e[i - 1]) + 4
  <2>1. TAKE i \in 1..n
  <2>2. e[i - 1] \in Seq(Byte)
    BY <1>1, <1>2
  <2>3. Len(PackGroup(e[i - 1], ServerGroup, servers[i])) >= Len(e[i - 1]) + GroupLength(ServerGroup)
    BY <1>1, <2>2, PackGroupType
  <2>4. QED
    BY <1>2, <2>3, ServerShape
<1> DEFINE T == {k \in Nat : k <= n => Len(e[k]) >= Len(bl) + k}
<1>4. 0 \in T
  BY <1>2
<1>5. ASSUME NEW k \in Nat, k \in T
      PROVE  k + 1 \in T
  <2>1. SUFFICES ASSUME k + 1 <= n
                 PROVE  Len(e[k + 1]) >= Len(bl) + (k + 1)
    OBVIOUS
  <2>2. PICK j \in Nat : j = k + 1
    OBVIOUS
  <2>3. j \in 1..n /\ k \in 0..n /\ j - 1 = k /\ j \in 0..n /\ k <= n
    BY <1>1, <2>1, <2>2
  <2>4. Len(e[k]) >= Len(bl) + k /\ Len(e[j]) >= Len(e[k]) + 4
    <3>1. Len(e[j]) >= Len(e[j - 1]) + 4
      BY <1>3, <2>3
    <3>2. QED
      BY <1>5, <2>3, <3>1
  <2>5. Len(e[k]) \in Nat /\ Len(e[j]) \in Nat /\ Len(bl) \in Nat
    BY <1>2, <2>3
  <2>6. PICK x \in Nat, y \in Nat, z \in Nat : x = Len(e[k]) /\ y = Len(e[j]) /\ z = Len(bl)
    BY <2>5
  <2>7. x >= z + k /\ y >= x + 4
    BY <2>4, <2>6
  <2>8. y >= z + j
    BY ONLY <2>2, <2>7, x \in Nat, y \in Nat, z \in Nat, k \in Nat, j \in Nat
  <2>9. QED
    BY <2>2, <2>6, <2>8
<1> HIDE DEF T
<1>6. Nat \subseteq T
  BY <1>4, <1>5, SetInduction
<1>7. \A i \in 0..n : Len(e[i]) >= Len(bl) + i
  BY <1>1, <1>6 DEF T
<1>8. \A i \in 0..n : Extends(e[n], e[i])
  <2>1. \A k \in 0..n : \A i \in 0..k : Extends(e[k], e[i])
    BY <1>1, <1>2, ChainEnd
  <2>2. QED
    BY <1>1, <2>1
<1>9. QED
  BY <1>2, <1>3, <1>7, <1>8 DEF n

(* An entry is read as it was packed. *)
LEMMA ReadServerBack ==
    ASSUME NEW b \in Seq(Byte), NEW bl \in Seq(Byte), Len(bl) >= 2,
           NEW s \in [port : Int, address : Seq(Byte)], Packable(ServerGroup, s),
           Agrees(b, PackGroup(bl, ServerGroup, s)), NEW r, r.offset = Len(bl)
    PROVE  ReadServer(b, r) = [offset |-> Len(PackGroup(bl, ServerGroup, s)),
                               servers |-> Append(r.servers, s)]
<1> DEFINE p == PackGroup(bl, ServerGroup, s)
           fs == [port |-> 0, address |-> <<>>]
<1>1. Agrees(b, p)
  OBVIOUS
<1>2. p \in Seq(Byte) /\ Len(p) >= Len(bl) + 4
  BY PackGroupType, ServerShape
<1> HIDE DEF p
<1>3. ~(Len(b) - r.offset < GroupLength(ServerGroup))
  <2>1. Len(b) \in Nat /\ Len(p) \in Nat /\ Len(bl) \in Nat /\ Len(b) >= Len(p)
    BY <1>1, <1>2 DEF Agrees
  <2>2. Len(b) - Len(bl) >= 4
    BY ONLY <1>2, <2>1
  <2>3. QED
    BY <2>1, <2>2, ServerShape
<1>4. fs = [x \in DOMAIN fs |-> fs[x]] /\ DOMAIN fs = {"port", "address"}
  OBVIOUS
<1>5. Filled(fs, s, {"port", "address"}) = s
  BY DEF Filled
<1>6. Ends(b, ServerGroup, p)
  <2>1. PICK S : Regular(S, <<ServerGroup>>) /\ \A f \in S : f[2] # "rest"
    BY ServerShape
  <2> DEFINE h == ServerGroup
  <2>2. <<h>> \in Seq(Seq(S))
    BY <2>1 DEF Regular
  <2> HIDE DEF h
  <2>3. <<h>>[1] \in Seq(S)
    BY <2>2
  <2>4. \A i \in 1..Len(h) : h[i] \in S
    BY <2>3
  <2>5. QED
    BY <2>1, <2>4 DEF Ends, h
<1> HIDE DEF fs
<1>7. ReadGroup(b, [offset |-> Len(bl), fields |-> fs], ServerGroup)
        = [offset |-> Len(p), fields |-> Filled(fs, s, GroupNames(ServerGroup, Len(ServerGroup)))]
  BY <1>1, <1>4, <1>6, ReadGroupBack DEF p
<1> DEFINE entry == ReadGroup(b, [offset |-> Len(bl), fields |-> fs], ServerGroup)
<1>8. entry = [offset |-> Len(p), fields |-> s]
  BY <1>5, <1>7, ServerShape
<1>9. ReadServer(b, r) = [offset |-> entry.offset, servers |-> Append(r.servers, entry.fields)]
  BY <1>3 DEF ReadServer, fs
<1> HIDE DEF entry
<1>10. entry.offset = Len(p) /\ entry.fields = s
  BY <1>8
<1>11. QED
  BY <1>9, <1>10 DEF p

LEMMA PrefixAppend ==
    ASSUME NEW S, NEW s \in Seq(S), NEW i \in 1..Len(s)
    PROVE  Append(SubSeq(s, 1, i - 1), s[i]) = SubSeq(s, 1, i)
<1>1. s[i] \in S /\ \A j \in 1..Len(s) : s[j] \in S
  OBVIOUS
<1>2. PICK u, v : u = SubSeq(s, 1, i - 1) /\ v = SubSeq(s, 1, i)
  OBVIOUS
<1>3. /\ u \in Seq(S) /\ Len(u) = i - 1 /\ \A j \in 1..i - 1 : u[j] = s[j]
      /\ v \in Seq(S) /\ Len(v) = i /\ \A j \in 1..i : v[j] = s[j]
  BY <1>1, <1>2
<1>4. Append(u, s[i]) = v
  BY <1>1, <1>3, SeqEqual
<1>5. QED
  BY <1>2, <1>4

(* The rounds stop after the last entry: nothing is left of the message. *)
LEMMA ServersBack ==
    ASSUME NEW servers \in Seq([port : Int, address : Seq(Byte)]), PackableServers(servers),
           NEW b \in Seq(Byte), NEW bl \in Seq(Byte), Len(bl) = HeaderLength,
           Agrees(b, PackServers(bl, servers)), Len(b) = Len(PackServers(bl, servers))
    PROVE  Servers(b) = servers
<1> DEFINE k == Len(servers)
           n == Len(b)
           p == PackServers(bl, servers)
           r == [offset |-> HeaderLength, servers |-> <<>>]
           Rule(g) == g = [i \in 0..n |-> IF i = 0 THEN r ELSE ReadServer(b, g[i - 1])]
<1>1. /\ k \in Nat /\ n \in Nat /\ Agrees(b, p) /\ n = Len(p)
      /\ \A i \in 1..k : Packable(ServerGroup, servers[i])
      /\ \A i \in 1..k : servers[i] \in [port : Int, address : Seq(Byte)]
  <2>1. k \in Nat /\ n \in Nat
    OBVIOUS
  <2>2. \A i \in 1..k : Packable(ServerGroup, servers[i])
    BY DEF PackableServers
  <2>3. \A i \in 1..k : servers[i] \in [port : Int, address : Seq(Byte)]
    <3> DEFINE S == [port : Int, address : Seq(Byte)]
    <3>1. servers \in Seq(S)
      OBVIOUS
    <3> HIDE DEF S
    <3>2. \A i \in 1..k : servers[i] \in S
      BY <3>1
    <3>3. QED
      BY <3>2 DEF S
  <2>4. QED
    BY <2>1, <2>2, <2>3
<1>2. PICK e : ServerChain(e, bl, servers)
  BY PackServersSteps
<1>3. /\ e[0] = bl /\ p = e[k]
      /\ \A i \in 1..k : e[i] = PackGroup(e[i - 1], ServerGroup, servers[i])
  BY <1>2 DEF ServerChain, Chain
<1>4. /\ \A i \in 0..k : e[i] \in Seq(Byte) /\ Len(e[i]) >= Len(bl) + i /\ Extends(e[k], e[i])
      /\ \A i \in 1..k : Len(e[i]) >= Len(e[i - 1]) + 4
  BY <1>2, ServerStep
<1> HIDE DEF k, n, p
<1>5. \A i \in 0..k : Agrees(b, e[i]) /\ Len(e[i]) >= 2
  <2>1. TAKE i \in 0..k
  <2>2. e[i] \in Seq(Byte) /\ e[k] \in Seq(Byte) /\ Extends(e[k], e[i]) /\ Len(e[i]) >= Len(bl) + i
    BY <1>1, <1>4
  <2>3. Agrees(b, e[i])
    BY <1>1, <1>3, <2>2, ExtendsAgrees
  <2>4. Len(e[i]) >= 2
    BY <2>2 DEF HeaderLength
  <2>5. QED
    BY <2>3, <2>4
<1>6. k <= n
  <2>1. k \in 0..k
    BY <1>1
  <2>2. Len(e[k]) >= Len(bl) + k /\ Len(bl) \in Nat /\ n = Len(e[k])
    BY <1>1, <1>3, <1>4, <2>1
  <2>3. QED
    BY <1>1, <2>2
<1> DEFINE q == [i \in 0..n |-> IF i <= k
                                THEN [offset |-> Len(e[i]), servers |-> SubSeq(servers, 1, i)]
                                ELSE [offset |-> Len(e[k]), servers |-> servers]]
<1>7. q[0] = r
  <2>1. SubSeq(servers, 1, 0) = <<>>
    OBVIOUS
  <2>2. QED
    BY <1>1, <1>3, <2>1
<1>8. SubSeq(servers, 1, k) = servers
  BY DEF k
<1>9. ASSUME NEW i \in 1..n
      PROVE  q[i] = ReadServer(b, q[i - 1])
  <2>1. i \in 0..n /\ i - 1 \in 0..n
    BY <1>1
  <2>2. CASE i <= k
    <3> DEFINE v == [offset |-> Len(e[i - 1]), servers |-> SubSeq(servers, 1, i - 1)]
               s == servers[i]
    <3>1. i \in 1..k /\ i - 1 \in 0..k /\ i \in 0..k /\ i - 1 <= k
      BY <1>1, <2>2
    <3>2. q[i - 1] = v /\ q[i] = [offset |-> Len(e[i]), servers |-> SubSeq(servers, 1, i)]
      BY <2>1, <2>2, <3>1
    <3>3. v.offset = Len(e[i - 1]) /\ v.servers = SubSeq(servers, 1, i - 1)
      OBVIOUS
    <3>4. Append(SubSeq(servers, 1, i - 1), s) = SubSeq(servers, 1, i)
      <4> DEFINE S == [port : Int, address : Seq(Byte)]
      <4>1. servers \in Seq(S)
        OBVIOUS
      <4> HIDE DEF S
      <4>2. i \in 1..Len(servers)
        BY <3>1 DEF k
      <4>3. QED
        BY ONLY <4>1, <4>2, PrefixAppend DEF s
    <3>5. /\ s \in [port : Int, address : Seq(Byte)] /\ Packable(ServerGroup, s)
          /\ e[i - 1] \in Seq(Byte) /\ Len(e[i - 1]) >= 2
          /\ Agrees(b, PackGroup(e[i - 1], ServerGroup, s))
      BY <1>1, <1>3, <1>4, <1>5, <3>1
    <3> HIDE DEF v, s, q
    <3>6. ReadServer(b, v) = [offset |-> Len(PackGroup(e[i - 1], ServerGroup, s)),
                              servers |-> Append(v.servers, s)]
      <4>1. PICK y \in Seq(Byte) : y = e[i - 1]
        BY <3>5
      <4>2. v.offset = Len(y)
        BY <3>3, <4>1
      <4>3. /\ s \in [port : Int, address : Seq(Byte)] /\ Packable(ServerGroup, s)
            /\ Len(y) >= 2 /\ Agrees(b, PackGroup(y, ServerGroup, s))
        BY <3>5, <4>1
      <4>4. ReadServer(b, v) = [offset |-> Len(PackGroup(y, ServerGroup, s)),
                                servers |-> Append(v.servers, s)]
        BY ONLY <4>2, <4>3, y \in Seq(Byte), b \in Seq(Byte), ReadServerBack
      <4>5. QED
        BY <4>1, <4>4
    <3>7. e[i] = PackGroup(e[i - 1], ServerGroup, s)
      BY <1>3, <3>1 DEF s
    <3>8. QED
      BY <3>2, <3>3, <3>4, <3>6, <3>7
  <2>3. CASE ~(i <= k)
    <3> DEFINE v == [offset |-> Len(e[k]), servers |-> servers]
    <3>1. q[i] = v /\ q[i - 1] = v
      <4>1. q[i] = v
        BY <2>1, <2>3
      <4>2. CASE i - 1 = k
        <5>1. q[i - 1] = [offset |-> Len(e[i - 1]), servers |-> SubSeq(servers, 1, i - 1)]
          BY <1>1, <2>1, <4>2
        <5>2. QED
          BY <1>8, <4>1, <4>2, <5>1
      <4>3. CASE i - 1 # k
        <5>1. ~(i - 1 <= k)
          BY <1>1, <2>3, <4>3
        <5>2. QED
          BY <2>1, <4>1, <5>1
      <4>4. QED
        BY <4>1, <4>2, <4>3
    <3>2. v.offset = n
      BY <1>1, <1>3
    <3> HIDE DEF v, q
    <3>3. Len(b) - v.offset < GroupLength(ServerGroup)
      BY <1>1, <3>2, ServerShape DEF n
    <3>4. ReadServer(b, v) = v
      BY <3>3 DEF ReadServer
    <3>5. QED
      BY <3>1, <3>4
  <2>4. QED
    BY <2>2, <2>3
<1>10. q[n].servers = servers /\ q = [i \in 0..n |-> q[i]]
  BY <1>1, <1>6, <1>8
<1> HIDE DEF q, r
<1>11. Rule(q)
  <2>1. \A i \in 0..n : q[i] = IF i = 0 THEN r ELSE ReadServer(b, q[i - 1])
    BY <1>1, <1>7, <1>9
  <2>2. QED
    BY <1>10, <2>1
<1>12. Rule(CHOOSE g : Rule(g))
  BY <1>11, Zenon
<1>13. PICK f : Rule(f) /\ Servers(b) = f[n].servers
  BY <1>12 DEF Servers, Fold, n, r
<1>14. Together(f, q, n)
  <2>1. f[0] = r /\ \A i \in 1..n : f[i] = ReadServer(b, f[i - 1])
    <3>1. \A i \in 0..n : f[i] = IF i = 0 THEN r ELSE ReadServer(b, f[i - 1])
      BY <1>13, Zenon
    <3>2. 0 \in 0..n /\ \A i \in 1..n : i \in 0..n /\ i # 0
      BY <1>1
    <3>3. QED
      BY <3>1, <3>2, Zenon
  <2>2. QED
    BY <1>7, <1>9, <2>1 DEF Together
<1>15. \A i \in 0..n : f[i] = q[i]
  <2>1. n \in Nat
    BY <1>1
  <2>2. QED
    BY ONLY <1>14, <2>1, RecursionUnique
<1>16. f[n] = q[n]
  BY <1>1, <1>15
<1>17. QED
  BY <1>10, <1>13, <1>16

-----------------------------------------------------------------------------
(* Whole messages. *)

LEMMA TypeCodes ==
    /\ \A t \in DOMAIN TypeCode : TypeCode[t] \in 0..12
    /\ \A t, u \in DOMAIN TypeCode : TypeCode[t] = TypeCode[u] => t = u
BY DEF TypeCode

(* What decode() reads in the header is what createHeader() put there. *)
LEMMA HeaderBack ==
    ASSUME NEW m, m.type \in DOMAIN TypeCode, Fits(<<"id", "u", 8>>, m.id)
    PROVE  /\ Header(m) \in Seq(Byte) /\ Len(Header(m)) = HeaderLength
           /\ \A b \in Seq(Byte) : Agrees(b, Header(m)) =>
                 /\ Unsigned(Slice(b, 2, 2)) = TypeCode[m.type]
                 /\ Unsigned(Slice(b, 4, 8)) = m.id
<1> DEFINE code == TypeCode[m.type]
           x == <<48, 48>>
           y == x \o Bytes(code, 2)
           z == y \o Bytes(m.id, 8)
<1>1. PICK v \in Nat, w \in Nat : v = 2 /\ w = 8
  OBVIOUS
<1>2. code \in Int /\ 0 <= code /\ code < 65536 /\ code \in Nat
  BY TypeCodes
<1>3. m.id \in Int /\ Quotients(m.id, w)[w] = 0
  BY <1>1 DEF Fits
<1>4. x \in Seq(Byte) /\ Len(x) = 2
  BY DEF Byte
<1>5. Header(m) = z
  BY DEF Header
<1> HIDE DEF code, x
<1>6. y \in Seq(Byte) /\ Len(y) = 4 /\ Extends(y, x)
  <2>1. /\ x \o Bytes(code, v) \in Seq(Byte) /\ Len(x \o Bytes(code, v)) = Len(x) + v
        /\ Extends(x \o Bytes(code, v), x)
    <3>1. code \in Int /\ x \in Seq(Byte)
      BY <1>2, <1>4
    <3>2. QED
      BY ONLY <3>1, v \in Nat, PackInteger
  <2>2. QED
    BY <1>1, <1>4, <2>1
<1>7. z \in Seq(Byte) /\ Len(z) = 12 /\ Extends(z, y)
  <2> HIDE DEF y
  <2>1. /\ y \o Bytes(m.id, w) \in Seq(Byte) /\ Len(y \o Bytes(m.id, w)) = Len(y) + w
        /\ Extends(y \o Bytes(m.id, w), y)
    BY <1>3, <1>6, PackInteger
  <2>2. QED
    BY <1>1, <1>6, <2>1
<1>8. ASSUME NEW b \in Seq(Byte), Agrees(b, z)
      PROVE  Unsigned(Slice(b, 2, 2)) = code /\ Unsigned(Slice(b, 4, 8)) = m.id
  <2>1. Agrees(b, y)
    <3> HIDE DEF y, z
    <3>1. QED
      BY ONLY <1>6, <1>7, <1>8, b \in Seq(Byte), ExtendsAgrees
  <2>2. Slice(b, 2, 2) = Bytes(code, 2)
    <3> DEFINE c == Bytes(code, 2)
    <3>1. c \in Seq(Byte) /\ Len(c) = 2
      BY <1>2, TwoBytesType
    <3>2. Agrees(b, x \o c)
      BY <2>1
    <3> HIDE DEF c
    <3>3. c \in Seq(Byte) /\ x \in Seq(Byte) /\ Len(x) >= 2
      BY <1>4, <3>1
    <3>4. Slice(b, Len(x), Len(c)) = c
      BY ONLY <3>2, <3>3, b \in Seq(Byte), SliceAgrees
    <3>5. QED
      BY <1>4, <3>1, <3>4 DEF c
  <2>3. Slice(b, 4, 8) = Bytes(m.id, 8)
    <3> DEFINE c == Bytes(m.id, w)
    <3>1. c \in Seq(Byte) /\ Len(c) = w
      BY <1>3, BytesType
    <3>2. Agrees(b, y \o c)
      BY <1>1, <1>8
    <3> HIDE DEF c, y
    <3>3. c \in Seq(Byte) /\ y \in Seq(Byte) /\ Len(y) >= 2
      BY <1>6, <3>1
    <3>4. Slice(b, Len(y), Len(c)) = c
      BY ONLY <3>2, <3>3, b \in Seq(Byte), SliceAgrees
    <3>5. QED
      BY <1>1, <1>6, <3>1, <3>4 DEF c
  <2>4. Unsigned(Bytes(code, 2)) = code
    BY <1>2, TwoBytes
  <2>5. Unsigned(Bytes(m.id, w)) = m.id
    BY <1>3, UnsignedOfBytes
  <2>6. QED
    BY <1>1, <2>2, <2>3, <2>4, <2>5
<1>9. QED
  BY <1>5, <1>7, <1>8 DEF HeaderLength, code

LEMMA WellFormedServers ==
    ASSUME NEW m, WellFormed(m), m.type = "server_list"
    PROVE  /\ m.fields = [servers |-> m.fields.servers]
           /\ m.fields.servers \in Seq([port : Int, address : Seq(Byte)])
           /\ \A i \in DOMAIN m.fields.servers : FieldsFit(m.fields.servers[i], <<ServerGroup>>)
<1>1. m.fields = [servers |-> m.fields.servers]
  BY DEF WellFormed
<1>2. /\ m.fields.servers \in Seq([port : Int, address : Seq(Byte)])
      /\ \A i \in DOMAIN m.fields.servers : FieldsFit(m.fields.servers[i], <<ServerGroup>>)
  BY DEF WellFormed
<1>3. QED
  BY <1>1, <1>2

(* packData() adds to the header. *)
LEMMA PackDataType ==
    ASSUME NEW m, WellFormed(m)
    PROVE  /\ PackData(Header(m), m) \in Seq(Byte)
           /\ Extends(PackData(Header(m), m), Header(m))
           /\ Len(PackData(Header(m), m)) >= 12
           /\ Len(PackData(Header(m), m)) < 65536
<1> DEFINE h == Header(m)
           p == PackData(h, m)
<1>1. h \in Seq(Byte) /\ Len(h) = 12
  <2>1. m.type \in DOMAIN TypeCode /\ Fits(<<"id", "u", 8>>, m.id)
    BY DEF WellFormed
  <2>2. QED
    BY <2>1, HeaderBack DEF HeaderLength
<1> HIDE DEF h
<1>2. ASSUME m.type = "server_list"
      PROVE  p \in Seq(Byte) /\ Extends(p, h)
  <2> DEFINE servers == m.fields.servers
             k == Len(servers)
  <2>1. /\ servers \in Seq([port : Int, address : Seq(Byte)])
        /\ \A i \in DOMAIN servers : FieldsFit(servers[i], <<ServerGroup>>)
    BY <1>2, WellFormedServers
  <2>2. p = PackServers(h, servers)
    BY <1>2 DEF PackData
  <2> HIDE DEF p, servers
  <2>3. PackableServers(servers)
    BY <2>1, ServersReady
  <2>4. PICK e : ServerChain(e, h, servers)
    BY <1>1, <2>3, PackServersSteps
  <2>5. k \in Nat /\ e[0] = h /\ p = e[k]
    BY <2>3, <2>2, <2>4 DEF ServerChain, Chain, PackableServers
  <2>6. \A i \in 0..k : e[i] \in Seq(Byte) /\ Extends(e[k], e[i])
    BY <1>1, <2>3, <2>4, ServerStep
  <2> HIDE DEF k
  <2>7. k \in 0..k /\ 0 \in 0..k
    BY <2>5
  <2>8. QED
    BY <2>5, <2>6, <2>7
<1>3. ASSUME m.type # "server_list"
      PROVE  p \in Seq(Byte) /\ Extends(p, h)
  <2>1. PackableLayout(Layout(m.type), m.fields)
    BY <1>3, LayoutReady DEF WellFormed
  <2>2. p = PackLayout(h, Layout(m.type), m.fields)
    BY <1>3 DEF PackData
  <2> HIDE DEF p
  <2>3. QED
    BY <1>1, <2>1, <2>2, PackLayoutType
<1>4. p \in Seq(Byte) /\ Extends(p, h)
  BY <1>2, <1>3
<1>5. Len(p) < 65536
  BY DEF WellFormed, h
<1> HIDE DEF p
<1>6. Len(p) >= 12
  BY <1>1, <1>4 DEF Extends
<1>7. QED
  BY <1>4, <1>5, <1>6 DEF p, h

(* decode() makes of the bytes packed what Expected() says. *)
LEMMA DecodeBack ==
    ASSUME NEW m, WellFormed(m), NEW b \in Seq(Byte),
           Len(b) = Len(PackData(Header(m), m)), Agrees(b, PackData(Header(m), m))
    PROVE  Decode(b) = Expected(m)
<1> DEFINE h == Header(m)
           p == PackData(h, m)
           F == m.fields
           known == {t \in DOMAIN TypeCode : TypeCode[t] = Unsigned(Slice(b, 2, 2))}
                       \ {"unknown", "closed"}
<1>1. /\ m = [type |-> m.type, id |-> m.id, fields |-> m.fields]
      /\ m.type \in DOMAIN TypeCode \ {"unknown", "closed"}
      /\ Fits(<<"id", "u", 8>>, m.id)
  BY DEF WellFormed
<1>2. p \in Seq(Byte) /\ Extends(p, h)
  BY PackDataType
<1>3. Len(b) = Len(p) /\ Agrees(b, p)
  OBVIOUS
<1>4. h \in Seq(Byte) /\ Len(h) = HeaderLength
  BY <1>1, HeaderBack
<1> HIDE DEF h, p
<1>5. Agrees(b, h)
  BY <1>2, <1>3, <1>4, ExtendsAgrees
<1>6. /\ Unsigned(Slice(b, 2, 2)) = TypeCode[m.type]
      /\ Unsigned(Slice(b, 4, 8)) = m.id
  BY <1>1, <1>5, HeaderBack DEF h
<1>7. known = {m.type}
  BY <1>1, <1>6, TypeCodes
<1>8. Decode(b) = [type   |-> IF m.type = "identity_required" THEN "identity" ELSE m.type,
                   id     |-> m.id,
                   fields |-> UnpackData(b, m.type)]
  <2> DEFINE type == CHOOSE t \in known : TRUE
  <2> HIDE DEF known
  <2>1. type = m.type /\ known # {}
    BY <1>7
  <2> HIDE DEF type
  <2>2. Decode(b) = [type   |-> IF type = "identity_required" THEN "identity" ELSE type,
                     id     |-> Unsigned(Slice(b, 4, 8)),
                     fields |-> UnpackData(b, type)]
    BY <2>1 DEF Decode, known, type
  <2>3. QED
    BY <1>6, <2>1, <2>2
<1> HIDE DEF known
<1>9. CASE m.type = "server_list"
  <2> DEFINE servers == F.servers
  <2>1. /\ F = [servers |-> servers]
        /\ servers \in Seq([port : Int, address : Seq(Byte)])
        /\ \A i \in DOMAIN servers : FieldsFit(servers[i], <<ServerGroup>>)
    BY <1>9, WellFormedServers
  <2>2. p = PackServers(h, servers) /\ UnpackData(b, m.type) = [servers |-> Servers(b)]
    BY <1>9 DEF p, PackData, UnpackData
  <2> HIDE DEF servers
  <2>3. PackableServers(servers)
    BY <2>1, ServersReady
  <2>4. Servers(b) = servers
    BY <1>3, <1>4, <2>1, <2>2, <2>3, ServersBack
  <2>5. UnpackData(b, m.type) = F
    BY <2>1, <2>2, <2>4
  <2>6. Expected(m) = m
    BY <1>9 DEF Expected
  <2>7. QED
    BY <1>1, <1>8, <1>9, <2>5, <2>6
<1>10. CASE m.type # "server_list"
  <2> DEFINE type == m.type
             layout == Layout(type)
  <2>1. F = [x \in Members(type) |-> F[x]] /\ FieldsFit(F, layout)
    BY <1>10 DEF WellFormed
  <2>2. p = PackLayout(h, layout, F)
    BY <1>10 DEF p, PackData
  <2> HIDE DEF F
  <2>3. UnpackData(b, type) = Filled(Fresh(type), F, Names(layout))
    BY <1>3, <1>4, <1>10, <2>1, <2>2, UnpackLayout
  <2>4. DOMAIN Fresh(type) = Members(type)
    BY DEF Fresh
  <2>5. CASE type # "position_report"
    <3>1. Members(type) = Names(layout)
      BY <2>5 DEF Members
    <3>2. UnpackData(b, type) = F
      BY <2>1, <2>3, <2>4, <3>1 DEF Filled
    <3>3. CASE type = "identity_required"
      <4>1. Expected(m) = [m EXCEPT !.type = "identity"]
        BY <3>3 DEF Expected
      <4>2. QED
        BY <1>1, <1>8, <3>2, <3>3, <4>1 DEF F
    <3>4. CASE type # "identity_required"
      <4>1. Expected(m) = m
        BY <2>5, <3>4 DEF Expected
      <4>2. QED
        BY <1>1, <1>8, <3>2, <3>4, <4>1 DEF F
    <3>5. QED
      BY <3>3, <3>4
  <2>6. CASE type = "position_report"
    <3>1. Members(type) = Names(layout) \cup {"tslc"} /\ layout = PositionLayout
      BY <2>6 DEF Members, Layout
    <3>2. "tslc" \notin Names(layout) /\ Fresh(type)["tslc"] = 0
      BY <2>6, <3>1, NoTslc, FreshTslc
    <3>3. UnpackData(b, type) = [F EXCEPT !.tslc = 0]
      BY <2>1, <2>3, <2>4, <3>1, <3>2 DEF Filled
    <3>4. Expected(m) = [m EXCEPT !.fields = [F EXCEPT !.tslc = 0]]
      BY <2>6 DEF Expected, F
    <3>5. QED
      BY <1>1, <1>8, <2>6, <3>3, <3>4
  <2>7. QED
    BY <2>5, <2>6
<1>11. QED
  BY <1>9, <1>10

-----------------------------------------------------------------------------
(* updateSize() puts the length in front and pads; the rest stays. *)

Padding(n) == (-n) % 8

LEMMA PaddingType ==
    ASSUME NEW n \in Int
    PROVE  Padding(n) \in 0..7
BY DEF Padding

LEMMA UpdateSizeType ==
    ASSUME NEW p \in Seq(Byte), Len(p) >= 12, Len(p) < 65536
    PROVE  /\ UpdateSize(p) \in Seq(Byte)
           /\ Len(UpdateSize(p)) = Len(p) + Padding(Len(p))
           /\ Extends(UpdateSize(p), Bytes(Len(p), 2))
           /\ \E c \in Seq(Byte) : Len(c) = Len(p) /\ Agrees(c, p) /\ Extends(UpdateSize(p), c)
<1> DEFINE n == Len(p)
           y == Bytes(n, 2)
           t == SubSeq(p, 3, n)
           c == y \o t
           z == Zeros(Padding(n))
           g == c \o z
<1>1. n \in Nat /\ n >= 12
  OBVIOUS
<1>2. y \in Seq(Byte) /\ Len(y) = 2
  BY <1>1, TwoBytesType
<1>3. t \in Seq(Byte) /\ Len(t) = n - 2 /\ \A j \in 1..n - 2 : t[j] = p[j + 2]
  <2> HIDE DEF n, t
  <2>1. \A i \in 3..n : p[i] \in Byte
    BY <1>1 DEF n
  <2>2. /\ SubSeq(p, 3, n) \in Seq(Byte)
        /\ Len(SubSeq(p, 3, n)) = IF 3 <= n THEN n - 3 + 1 ELSE 0
        /\ \A i \in 1 .. n - 3 + 1 : SubSeq(p, 3, n)[i] = p[3 + i - 1]
    BY <1>1, <2>1, SubSeqProperties
  <2>3. n - 3 + 1 = n - 2 /\ 3 <= n /\ \A j \in 1..n - 2 : 3 + j - 1 = j + 2
    BY <1>1
  <2>4. QED
    BY <2>2, <2>3 DEF t
<1>4. z \in Seq(Byte) /\ Len(z) = Padding(n)
  <2>1. Padding(n) \in Nat
    BY <1>1, PaddingType
  <2>2. QED
    BY <2>1, ZerosType
<1>5. UpdateSize(p) = g
  BY DEF UpdateSize, Padding
<1> HIDE DEF y, t
<1>6. /\ c \in Seq(Byte) /\ Len(c) = Len(y) + Len(t) /\ Extends(c, y)
      /\ \A j \in 1..Len(t) : c[Len(y) + j] = t[j]
  <2>1. y \in Seq(Byte) /\ t \in Seq(Byte)
    BY <1>2, <1>3
  <2>2. QED
    BY ONLY <2>1, ExtendsConcat
<1> HIDE DEF c, z
<1>7. g \in Seq(Byte) /\ Len(g) = Len(c) + Len(z) /\ Extends(g, c)
  <2>1. c \in Seq(Byte) /\ z \in Seq(Byte)
    BY <1>4, <1>6
  <2>2. QED
    BY ONLY <2>1, ExtendsConcat
<1> HIDE DEF g, n
<1>8. Len(c) = n
  BY <1>1, <1>2, <1>3, <1>6
<1>9. Agrees(c, p)
  <2>1. ASSUME NEW i \in 3..n
        PROVE  c[i] = p[i]
    <3>1. PICK j \in 1..n - 2 : j = i - 2
      BY <1>1
    <3>2. c[2 + j] = t[j] /\ t[j] = p[j + 2]
      BY <1>2, <1>3, <1>6
    <3>3. 2 + j = i /\ j + 2 = i
      BY <3>1
    <3>4. QED
      BY <3>2, <3>3
  <2>2. QED
    BY <1>1, <1>8, <2>1 DEF Agrees, n
<1>10. Extends(g, y)
  BY <1>2, <1>6, <1>7, ExtendsTransitive
<1>11. Len(g) = n + Padding(n)
  BY <1>4, <1>7, <1>8
<1>12. QED
  BY <1>5, <1>6, <1>7, <1>8, <1>9, <1>10, <1>11 DEF n, y

(* The first two of the bytes packed say how many are to be decoded, and how *)
(* many there are with the padding.                                          *)
LEMMA GetPackedType ==
    ASSUME NEW m, WellFormed(m)
    PROVE  \E n \in Nat :
              /\ n >= 12
              /\ GetPacked(m) \in Seq(Byte) /\ Len(GetPacked(m)) = n + Padding(n)
              /\ Unsigned(SubSeq(GetPacked(m), 1, 2)) = n
              /\ Decode(SubSeq(GetPacked(m), 1, n)) = Expected(m)
<1> DEFINE p == PackData(Header(m), m)
           g == GetPacked(m)
           n == Len(p)
<1>1. p \in Seq(Byte) /\ n >= 12 /\ n < 65536
  BY PackDataType
<1>2. g = UpdateSize(p)
  BY DEF GetPacked
<1> HIDE DEF p, g
<1>3. n \in Nat
  BY <1>1
<1>4. /\ g \in Seq(Byte) /\ Len(g) = n + Padding(n) /\ Extends(g, Bytes(n, 2))
      /\ \E c \in Seq(Byte) : Len(c) = n /\ Agrees(c, p) /\ Extends(g, c)
  BY <1>1, <1>2, UpdateSizeType
<1> HIDE DEF n
<1>5. SubSeq(g, 1, 2) = Bytes(n, 2)
  <2> DEFINE y == Bytes(n, 2)
  <2>1. y \in Seq(Byte) /\ Len(y) = 2
    BY <1>3, TwoBytesType
  <2>2. Extends(g, y)
    BY <1>4
  <2> HIDE DEF y
  <2>3. SubSeq(g, 1, Len(y)) = y
    BY <1>4, <2>1, <2>2, Prefix
  <2>4. QED
    BY <2>1, <2>3 DEF y
<1>6. PICK c \in Seq(Byte) : Len(c) = n /\ Agrees(c, p) /\ Extends(g, c)
  BY <1>4
<1>7. SubSeq(g, 1, n) = c
  <2>1. SubSeq(g, 1, Len(c)) = c
    BY <1>4, <1>6, Prefix
  <2>2. QED
    BY <1>6, <2>1
<1>8. Unsigned(Bytes(n, 2)) = n
  BY <1>1, <1>3, TwoBytes
<1>9. Decode(c) = Expected(m)
  BY <1>6, DecodeBack DEF p, n
<1>10. Unsigned(SubSeq(g, 1, 2)) = n
  BY <1>5, <1>8
<1>11. Decode(SubSeq(g, 1, n)) = Expected(m)
  BY <1>7, <1>9
<1>12. n >= 12 /\ g \in Seq(Byte) /\ Len(g) = n + Padding(n)
  BY <1>1, <1>4
<1>13. QED
  BY <1>3, <1>10, <1>11, <1>12, Zenon DEF g

(* A message is read back from its bytes, the length and the padding of      *)
(* which say how many of them there are: createHeader(), packData(),         *)
(* updateSize() and getPacked() against decode() and every unpackData() of   *)
(* transport-messages.cpp, for all values that fit the widths on the wire.   *)
THEOREM CodecRoundTrip ==
    ASSUME NEW m, WellFormed(m)
    PROVE  LET bytes  == GetPacked(m)
               length == Unsigned(SubSeq(bytes, 1, 2))
           IN  /\ Len(bytes) = length + ((-length) % 8)
               /\ Decode(SubSeq(bytes, 1, length)) = Expected(m)
<1>1. PICK n \in Nat : /\ Len(GetPacked(m)) = n + Padding(n)
                       /\ Unsigned(SubSeq(GetPacked(m), 1, 2)) = n
                       /\ Decode(SubSeq(GetPacked(m), 1, n)) = Expected(m)
  BY GetPackedType
<1>2. QED
  BY <1>1, Zenon DEF Padding

-----------------------------------------------------------------------------
(* Places in a sequence of bytes. *)

(* x stands in w, after the first o bytes. *)
Window(w, o, x) ==
    /\ o \in Nat /\ o + Len(x) <= Len(w)
    /\ \A j \in 1..Len(x) : w[o + j] = x[j]

LEMMA WindowJoin ==
    ASSUME NEW w \in Seq(Byte), NEW x \in Seq(Byte), NEW y \in Seq(Byte), NEW o \in Nat,
           Window(w, o, x), Window(w, o + Len(x), y)
    PROVE  Window(w, o, x \o y)
<1> DEFINE l == Len(x)
           k == Len(y)
           c == x \o y
<1>1. l \in Nat /\ k \in Nat /\ Len(w) \in Nat
  OBVIOUS
<1>2. Len(c) = l + k /\ \A i \in 1..l + k : c[i] = IF i <= l THEN x[i] ELSE y[i - l]
  BY ConcatProperties
<1>3. /\ o + l + k <= Len(w)
      /\ \A j \in 1..l : w[o + j] = x[j]
      /\ \A j \in 1..k : w[o + l + j] = y[j]
  BY DEF Window
<1> HIDE DEF l, k, c
<1>4. ASSUME NEW i \in 1..l + k
      PROVE  w[o + i] = c[i]
  <2>1. CASE i <= l
    <3>1. i \in 1..l
      BY <1>1, <2>1
    <3>2. QED
      BY <1>2, <1>3, <2>1, <3>1
  <2>2. CASE ~(i <= l)
    <3>1. PICK j \in 1..k : j = i - l
      BY <1>1, <2>2
    <3>2. o + l + j = o + i
      BY <1>1, <3>1
    <3>3. w[o + l + j] = y[j] /\ c[i] = y[i - l]
      BY <1>2, <1>3, <2>2
    <3>4. QED
      BY <3>1, <3>2, <3>3
  <2>3. QED
    BY <2>1, <2>2
<1>5. o + Len(c) <= Len(w)
  BY <1>1, <1>2, <1>3
<1>6. QED
  BY <1>2, <1>4, <1>5 DEF Window, c

LEMMA SplitAt ==
    ASSUME NEW x \in Seq(Byte), NEW c \in 0..Len(x)
    PROVE  /\ SubSeq(x, 1, c) \in Seq(Byte) /\ Len(SubSeq(x, 1, c)) = c
           /\ \A j \in 1..c : SubSeq(x, 1, c)[j] = x[j]
           /\ SubSeq(x, c + 1, Len(x)) \in Seq(Byte)
           /\ Len(SubSeq(x, c + 1, Len(x))) = Len(x) - c
           /\ \A j \in 1..Len(x) - c : SubSeq(x, c + 1, Len(x))[j] = x[c + j]
<1>1. PICK l \in Nat : l = Len(x)
  OBVIOUS
<1>2. \A i \in 1..l : x[i] \in Byte
  BY <1>1
<1>3. c \in Nat /\ c <= l
  BY <1>1
<1>4. /\ SubSeq(x, 1, c) \in Seq(Byte) /\ Len(SubSeq(x, 1, c)) = c
      /\ \A j \in 1..c : SubSeq(x, 1, c)[j] = x[j]
  BY <1>1, <1>2, <1>3
<1>5. PICK y : y = SubSeq(x, c + 1, l)
  OBVIOUS
<1>6. /\ y \in Seq(Byte)
      /\ Len(y) = IF c + 1 <= l THEN l - (c + 1) + 1 ELSE 0
      /\ \A i \in 1 .. l - (c + 1) + 1 : y[i] = x[c + 1 + i - 1]
  <2>1. \A i \in c + 1..l : x[i] \in Byte
    BY <1>2, <1>3
  <2>2. QED
    BY <1>3, <1>5, <2>1, SubSeqProperties
<1>7. Len(y) = l - c
  BY <1>3, <1>6
<1>8. ASSUME NEW j \in 1..l - c
      PROVE  y[j] = x[c + j]
  <2>1. j \in 1 .. l - (c + 1) + 1 /\ c + 1 + j - 1 = c + j
    BY <1>3
  <2>2. QED
    BY <1>6, <2>1
<1>9. QED
  BY <1>1, <1>4, <1>5, <1>6, <1>7, <1>8

LEMMA WindowSplit ==
    ASSUME NEW w \in Seq(Byte), NEW x \in Seq(Byte), NEW o \in Nat, Window(w, o, x),
           NEW c \in 0..Len(x)
    PROVE  /\ Window(w, o, SubSeq(x, 1, c))
           /\ Window(w, o + c, SubSeq(x, c + 1, Len(x)))
<1> DEFINE l == Len(x)
           y == SubSeq(x, 1, c)
           z == SubSeq(x, c + 1, l)
<1>1. /\ Len(y) = c /\ \A j \in 1..c : y[j] = x[j]
      /\ Len(z) = l - c /\ \A j \in 1..l - c : z[j] = x[c + j]
  BY SplitAt
<1>2. /\ o + l <= Len(w) /\ \A j \in 1..l : w[o + j] = x[j]
      /\ l \in Nat /\ c \in Nat /\ c <= l /\ Len(w) \in Nat
  BY DEF Window
<1> HIDE DEF l, y, z
<1>3. Window(w, o, y)
  BY <1>1, <1>2 DEF Window
<1>4. ASSUME NEW j \in 1..l - c
      PROVE  w[o + c + j] = z[j]
  <2>1. PICK i \in 1..l : i = c + j
    BY <1>2
  <2>2. o + i = o + c + j
    BY <1>2, <2>1
  <2>3. QED
    BY <1>1, <1>2, <2>1, <2>2
<1>5. Window(w, o + c, z)
  BY <1>1, <1>2, <1>4 DEF Window
<1>6. QED
  BY <1>3, <1>5 DEF y, z, l

(* What follows later leaves it where it is. *)
LEMMA WindowGrows ==
    ASSUME NEW w \in Seq(Byte), NEW y \in Seq(Byte)
    PROVE  /\ \A o, x : Len(x) \in Nat /\ Window(w, o, x) => Window(w \o y, o, x)
           /\ Window(w \o y, Len(w), y)
<1> DEFINE c == w \o y
<1>1. /\ c \in Seq(Byte) /\ Len(c) = Len(w) + Len(y)
      /\ Extends(c, w) /\ \A j \in 1..Len(y) : c[Len(w) + j] = y[j]
  BY ExtendsConcat
<1>2. Len(w) \in Nat /\ Len(y) \in Nat
  OBVIOUS
<1> HIDE DEF c
<1>3. ASSUME NEW o, NEW x, Len(x) \in Nat, Window(w, o, x)
      PROVE  Window(c, o, x)
  <2>1. o \in Nat /\ o + Len(x) <= Len(w) /\ \A j \in 1..Len(x) : w[o + j] = x[j]
    BY <1>3 DEF Window
  <2>2. ASSUME NEW j \in 1..Len(x)
        PROVE  c[o + j] = x[j]
    <3>1. o + j \in 1..Len(w)
      BY <1>2, <1>3, <2>1
    <3>2. QED
      BY <1>1, <2>1, <3>1 DEF Extends
  <2>3. o + Len(x) <= Len(c)
    BY <1>1, <1>2, <1>3, <2>1
  <2>4. QED
    BY <2>1, <2>2, <2>3 DEF Window
<1>4. Window(c, Len(w), y)
  BY <1>1, <1>2 DEF Window
<1>5. QED
  BY <1>3, <1>4 DEF c

-----------------------------------------------------------------------------
(* The stream as it would be if all that is sent arrived. *)

(* What sendMsg() puts together: the messages, each with an id. *)
SentMessages == {[type |-> m.type, id |-> id, fields |-> m.fields] : m \in Messages, id \in 1..MaxSent}

LEMMA SentWellFormed ==
    ASSUME NEW m \in SentMessages
    PROVE  WellFormed(m)
BY FramingAssumption DEF SentMessages

LEMMA PackedType ==
    ASSUME NEW m \in SentMessages
    PROVE  /\ GetPacked(m) \in Seq(Byte) /\ Len(GetPacked(m)) \in Nat
           /\ Len(GetPacked(m)) >= 12
<1>1. PICK n \in Nat : /\ n >= 12
                       /\ GetPacked(m) \in Seq(Byte) /\ Len(GetPacked(m)) = n + Padding(n)
  BY SentWellFormed, GetPackedType
<1>2. Padding(n) \in 0..7
  BY PaddingType
<1>3. QED
  BY <1>1, <1>2

(* w is what sending s writes; off[i] of it are the first i messages. *)
Wire(w, off, s) ==
    /\ w \in Seq(Byte) /\ off \in [0..Len(s) -> Nat]
    /\ off[0] = 0 /\ off[Len(s)] = Len(w)
    /\ \A i \in 1..Len(s) : /\ off[i] = off[i - 1] + Len(GetPacked(s[i]))
                            /\ Window(w, off[i - 1], GetPacked(s[i]))

(* After k messages recvMsg() has d of the next one, and t comes next. *)
Reading(w, off, s, k, d, t) ==
    /\ k \in Nat /\ k <= Len(s)
    /\ Window(w, off[k], d)
    /\ Window(w, off[k] + Len(d), t)
    /\ d # <<>> => k < Len(s) /\ off[k] + Len(d) <= off[k + 1]

(* The first e bytes are delivered, and q is under way: of the first of its  *)
(* messages what is left, and the others whole.                              *)
Begins(off, s, q, e, i) == IF i = 1 THEN e ELSE off[Len(s) - Len(q) + i - 1]

Pending(w, off, s, q, e) ==
    /\ Len(q) <= Len(s)
    /\ q = <<>> => e = Len(w)
    /\ \A i \in 1..Len(q) :
          /\ Window(w, Begins(off, s, q, e, i), q[i])
          /\ Begins(off, s, q, e, i) + Len(q[i]) = off[Len(s) - Len(q) + i]

(* The offsets, with that of one more message. *)
Further(off, n, length) == [i \in 0..n + 1 |-> IF i <= n THEN off[i] ELSE length]

LEMMA FurtherType ==
    ASSUME NEW n \in Nat, NEW off \in [0..n -> Nat], NEW length \in Nat
    PROVE  /\ Further(off, n, length) \in [0..n + 1 -> Nat]
           /\ \A i \in 0..n : Further(off, n, length)[i] = off[i]
           /\ Further(off, n, length)[n + 1] = length
BY DEF Further

LEMMA WireSend ==
    ASSUME NEW s \in Seq(SentMessages), NEW m \in SentMessages, NEW w, NEW off, Wire(w, off, s)
    PROVE  Wire(w \o GetPacked(m), Further(off, Len(s), Len(w) + Len(GetPacked(m))), Append(s, m))
<1> DEFINE p == GetPacked(m)
           n == Len(s)
           c == w \o p
           u == Append(s, m)
           f == Further(off, n, Len(w) + Len(p))
<1>1. p \in Seq(Byte) /\ Len(p) \in Nat
  BY PackedType
<1>2. /\ w \in Seq(Byte) /\ Len(w) \in Nat /\ n \in Nat /\ off \in [0..n -> Nat]
      /\ off[0] = 0 /\ off[n] = Len(w)
      /\ \A i \in 1..n : /\ off[i] = off[i - 1] + Len(GetPacked(s[i]))
                         /\ Window(w, off[i - 1], GetPacked(s[i]))
  BY DEF Wire
<1>3. Len(u) = n + 1 /\ (\A i \in 1..n : u[i] = s[i]) /\ u[n + 1] = m
  BY AppendProperties
<1> HIDE DEF p, n, u
<1>4. Len(w) + Len(p) \in Nat
  BY <1>1, <1>2
<1>5. /\ f \in [0..n + 1 -> Nat]
      /\ \A i \in 0..n : f[i] = off[i]
      /\ f[n + 1] = Len(w) + Len(p)
  BY <1>2, <1>4, FurtherType
<1>6. c \in Seq(Byte) /\ Len(c) = Len(w) + Len(p)
  BY <1>1, <1>2
<1>7. /\ \A o, x : Len(x) \in Nat /\ Window(w, o, x) => Window(c, o, x)
      /\ Window(c, Len(w), p)
  BY <1>1, <1>2, WindowGrows
<1> HIDE DEF f, c
<1>8. ASSUME NEW i \in 1..n
      PROVE  /\ f[i] = f[i - 1] + Len(GetPacked(u[i]))
             /\ Window(c, f[i - 1], GetPacked(u[i]))
  <2>1. i \in 0..n /\ i - 1 \in 0..n
    BY <1>2
  <2>2. f[i] = off[i] /\ f[i - 1] = off[i - 1] /\ u[i] = s[i]
    BY <1>3, <1>5, <2>1
  <2>3. s[i] \in SentMessages
    BY DEF n
  <2>4. Len(GetPacked(s[i])) \in Nat
    BY <2>3, PackedType
  <2>5. QED
    BY <1>2, <1>7, <2>2, <2>4
<1>9. n \in 0..n /\ 0 \in 0..n /\ (n + 1) - 1 = n
  BY <1>2
<1>10. /\ f[n + 1] = f[(n + 1) - 1] + Len(GetPacked(u[n + 1]))
       /\ Window(c, f[(n + 1) - 1], GetPacked(u[n + 1]))
  BY <1>2, <1>3, <1>5, <1>7, <1>9 DEF p
<1>11. \A i \in 1..n + 1 : i \in 1..n \/ i = n + 1
  BY <1>2
<1>12. \A i \in 1..Len(u) : /\ f[i] = f[i - 1] + Len(GetPacked(u[i]))
                            /\ Window(c, f[i - 1], GetPacked(u[i]))
  BY <1>3, <1>8, <1>10, <1>11
<1>13. f[0] = 0 /\ f[Len(u)] = Len(c)
  BY <1>2, <1>3, <1>5, <1>6, <1>9
<1>14. f \in [0..Len(u) -> Nat]
  BY <1>3, <1>5
<1>15. Wire(c, f, u)
  BY <1>6, <1>12, <1>13, <1>14 DEF Wire
<1>16. QED
  BY <1>15 DEF c, f, u, p, n

LEMMA ReadingSend ==
    ASSUME NEW s \in Seq(SentMessages), NEW m \in SentMessages, NEW w, NEW off, Wire(w, off, s),
           NEW k, NEW d \in Seq(Byte), NEW t \in Seq(Byte), Reading(w, off, s, k, d, t)
    PROVE  /\ Reading(w \o GetPacked(m), Further(off, Len(s), Len(w) + Len(GetPacked(m))),
                      Append(s, m), k, d, t)
           /\ Further(off, Len(s), Len(w) + Len(GetPacked(m)))[k] = off[k]
<1> DEFINE p == GetPacked(m)
           n == Len(s)
           c == w \o p
           u == Append(s, m)
           f == Further(off, n, Len(w) + Len(p))
<1>1. p \in Seq(Byte) /\ Len(p) \in Nat
  BY PackedType
<1>2. w \in Seq(Byte) /\ Len(w) \in Nat /\ n \in Nat /\ off \in [0..n -> Nat]
  BY DEF Wire
<1>3. Len(u) = n + 1
  BY AppendProperties
<1>4. /\ k \in Nat /\ k <= n
      /\ Window(w, off[k], d)
      /\ Window(w, off[k] + Len(d), t)
      /\ d # <<>> => k < n /\ off[k] + Len(d) <= off[k + 1]
  BY DEF Reading
<1> HIDE DEF p, n, u
<1>5. Len(w) + Len(p) \in Nat
  BY <1>1, <1>2
<1>6. \A i \in 0..n : f[i] = off[i]
  BY <1>2, <1>5, FurtherType
<1>7. \A o, x : Len(x) \in Nat /\ Window(w, o, x) => Window(c, o, x)
  BY <1>1, <1>2, WindowGrows
<1> HIDE DEF f, c
<1>8. Len(d) \in Nat /\ Len(t) \in Nat
  OBVIOUS
<1>9. f[k] = off[k]
  BY <1>2, <1>4, <1>6
<1>10. d # <<>> => k < n + 1 /\ f[k] + Len(d) <= f[k + 1]
  <2>1. SUFFICES ASSUME d # <<>>
                 PROVE  k < n + 1 /\ f[k] + Len(d) <= f[k + 1]
    OBVIOUS
  <2>2. k < n /\ off[k] + Len(d) <= off[k + 1]
    BY <1>4, <2>1
  <2>3. k + 1 \in 0..n /\ k < n + 1
    BY <1>2, <1>4, <2>2
  <2>4. f[k + 1] = off[k + 1]
    BY <1>6, <2>3
  <2>5. QED
    BY <1>9, <2>2, <2>3, <2>4
<1>11. Window(c, f[k], d) /\ Window(c, f[k] + Len(d), t)
  BY <1>4, <1>7, <1>8, <1>9
<1>12. k <= n + 1
  BY <1>2, <1>4
<1>13. Reading(c, f, u, k, d, t)
  BY <1>3, <1>4, <1>10, <1>11, <1>12 DEF Reading
<1>14. QED
  BY <1>9, <1>13 DEF c, f, u, p, n

LEMMA PendingSend ==
    ASSUME NEW s \in Seq(SentMessages), NEW m \in SentMessages, NEW w, NEW off, Wire(w, off, s),
           NEW q \in Seq(Seq(Byte)), NEW e \in Nat, Pending(w, off, s, q, e)
    PROVE  Pending(w \o GetPacked(m), Further(off, Len(s), Len(w) + Len(GetPacked(m))),
                   Append(s, m), Append(q, GetPacked(m)), e)
<1> DEFINE p == GetPacked(m)
           n == Len(s)
           l == Len(q)
           c == w \o p
           u == Append(s, m)
           v == Append(q, p)
           f == Further(off, n, Len(w) + Len(p))
<1>1. p \in Seq(Byte) /\ Len(p) \in Nat
  BY PackedType
<1>2. /\ w \in Seq(Byte) /\ Len(w) \in Nat /\ n \in Nat /\ off \in [0..n -> Nat]
      /\ off[n] = Len(w) /\ l \in Nat
  BY DEF Wire
<1>3. Len(u) = n + 1
  BY AppendProperties
<1>4. /\ Len(v) = l + 1 /\ (\A i \in 1..l : v[i] = q[i]) /\ v[l + 1] = p
      /\ \A i \in 1..l : Len(q[i]) \in Nat
  BY <1>1, AppendProperties
<1>5. /\ l <= n /\ (l = 0 => e = Len(w))
      /\ \A i \in 1..l : LET b == IF i = 1 THEN e ELSE off[n - l + i - 1]
                         IN  Window(w, b, q[i]) /\ b + Len(q[i]) = off[n - l + i]
  BY EmptySeq DEF Pending, Begins
<1> HIDE DEF p, n, l, u, v
<1>6. Len(w) + Len(p) \in Nat
  BY <1>1, <1>2
<1>7. (\A i \in 0..n : f[i] = off[i]) /\ f[n + 1] = Len(w) + Len(p)
  BY <1>2, <1>6, FurtherType
<1>8. /\ \A o, x : Len(x) \in Nat /\ Window(w, o, x) => Window(c, o, x)
      /\ Window(c, Len(w), p)
  BY <1>1, <1>2, WindowGrows
<1> HIDE DEF f, c
<1>9. ASSUME NEW i \in 1..l
      PROVE  LET b == IF i = 1 THEN e ELSE f[n + 1 - (l + 1) + i - 1]
             IN  Window(c, b, v[i]) /\ b + Len(v[i]) = f[n + 1 - (l + 1) + i]
  <2>1. n + 1 - (l + 1) + i - 1 = n - l + i - 1 /\ n + 1 - (l + 1) + i = n - l + i
    BY <1>2
  <2>2. n - l + i - 1 \in 0..n /\ n - l + i \in 0..n
    BY <1>2, <1>5
  <2>3. f[n - l + i - 1] = off[n - l + i - 1] /\ f[n - l + i] = off[n - l + i]
    BY <1>7, <2>2
  <2>4. v[i] = q[i] /\ Len(q[i]) \in Nat
    BY <1>4
  <2>5. QED
    BY <1>5, <1>8, <2>1, <2>3, <2>4
<1>10. LET b == IF l + 1 = 1 THEN e ELSE f[n + 1 - (l + 1) + (l + 1) - 1]
       IN  Window(c, b, v[l + 1]) /\ b + Len(v[l + 1]) = f[n + 1 - (l + 1) + (l + 1)]
  <2>1. n + 1 - (l + 1) + (l + 1) - 1 = n /\ n + 1 - (l + 1) + (l + 1) = n + 1 /\ n \in 0..n
    BY <1>2
  <2>2. f[n] = Len(w)
    BY <1>2, <1>7, <2>1
  <2>3. l + 1 = 1 => e = Len(w)
    BY <1>2, <1>5
  <2>4. QED
    BY <1>4, <1>7, <1>8, <2>1, <2>2, <2>3
<1>11. \A i \in 1..l + 1 : i \in 1..l \/ i = l + 1
  BY <1>2
<1>12. \A i \in 1..Len(v) :
          /\ Window(c, Begins(f, u, v, e, i), v[i])
          /\ Begins(f, u, v, e, i) + Len(v[i]) = f[Len(u) - Len(v) + i]
  <2>1. ASSUME NEW i \in 1..l + 1
        PROVE  /\ Window(c, Begins(f, u, v, e, i), v[i])
               /\ Begins(f, u, v, e, i) + Len(v[i]) = f[Len(u) - Len(v) + i]
    <3>1. LET b == IF i = 1 THEN e ELSE f[n + 1 - (l + 1) + i - 1]
          IN  Window(c, b, v[i]) /\ b + Len(v[i]) = f[n + 1 - (l + 1) + i]
      <4>1. CASE i \in 1..l
        BY <1>9, <4>1
      <4>2. CASE i = l + 1
        BY <1>10, <4>2, Zenon
      <4>3. QED
        BY <1>11, <4>1, <4>2
    <3>2. Len(u) = n + 1 /\ Len(v) = l + 1
      BY <1>3, <1>4
    <3>3. Len(u) - Len(v) = n + 1 - (l + 1)
      BY <1>2, <3>2
    <3>4. /\ Begins(f, u, v, e, i) = IF i = 1 THEN e ELSE f[n + 1 - (l + 1) + i - 1]
          /\ f[Len(u) - Len(v) + i] = f[n + 1 - (l + 1) + i]
      BY <3>3, Zenon DEF Begins
    <3>5. QED
      BY <3>1, <3>4, Zenon
  <2>2. Len(v) = l + 1
    BY <1>4
  <2>3. QED
    BY <2>1, <2>2, Zenon
<1>13. Len(v) <= Len(u) /\ v # <<>>
  BY <1>2, <1>3, <1>4, <1>5
<1>14. Pending(c, f, u, v, e)
  BY <1>12, <1>13 DEF Pending
<1>15. QED
  BY <1>14 DEF c, f, u, v, p, n

(* The socket delivers what is left of the first message under way, or less. *)
LEMMA PendingWhole ==
    ASSUME NEW w, NEW off, NEW s \in Seq(SentMessages), Wire(w, off, s),
           NEW q \in Seq(Seq(Byte)), NEW e \in Nat, Pending(w, off, s, q, e), q # <<>>
    PROVE  /\ e + Len(Head(q)) \in Nat
           /\ Window(w, e, Head(q))
           /\ Pending(w, off, s, Tail(q), e + Len(Head(q)))
<1> DEFINE n == Len(s)
           l == Len(q)
           v == Tail(q)
           x == Head(q)
           c == e + Len(x)
<1>1. /\ n \in Nat /\ l \in Nat /\ l # 0 /\ off[n] = Len(w)
      /\ x = q[1] /\ Len(x) \in Nat
  <2>1. x \in Seq(Byte)
    OBVIOUS
  <2>2. l # 0
    BY EmptySeq
  <2>3. QED
    BY <2>1, <2>2 DEF Wire
<1>2. Len(v) = l - 1 /\ \A i \in 1..l - 1 : v[i] = q[i + 1]
  BY HeadTailProperties
<1>3. /\ l <= n
      /\ \A i \in 1..l : LET b == IF i = 1 THEN e ELSE off[n - l + i - 1]
                         IN  Window(w, b, q[i]) /\ b + Len(q[i]) = off[n - l + i]
  BY DEF Pending, Begins
<1> HIDE DEF n, l, v, x
<1>4. Window(w, e, x) /\ c = off[n - l + 1]
  <2>1. 1 \in 1..l
    BY <1>1
  <2>2. QED
    BY <1>1, <1>3, <2>1
<1>5. v = <<>> => c = Len(w)
  <2>1. SUFFICES ASSUME v = <<>>
                 PROVE  c = Len(w)
    OBVIOUS
  <2>2. l - 1 = 0
    BY <1>2, <2>1
  <2>3. n - l + 1 = n
    BY <1>1, <2>2
  <2>4. QED
    BY <1>1, <1>4, <2>3
<1> HIDE DEF c
<1>6. ASSUME NEW i \in 1..l - 1
      PROVE  LET b == IF i = 1 THEN c ELSE off[n - (l - 1) + i - 1]
             IN  Window(w, b, v[i]) /\ b + Len(v[i]) = off[n - (l - 1) + i]
  <2>1. PICK k \in 1..l : k = i + 1
    BY <1>1
  <2>2. /\ k # 1 /\ n - (l - 1) + i - 1 = n - l + k - 1 /\ n - (l - 1) + i = n - l + k
        /\ i = 1 => n - l + k - 1 = n - l + 1
    BY <1>1, <2>1
  <2>3. Window(w, off[n - l + k - 1], q[k]) /\ off[n - l + k - 1] + Len(q[k]) = off[n - l + k]
    BY <1>3, <2>2
  <2>4. v[i] = q[k]
    BY <1>2, <2>1
  <2>5. i = 1 => c = off[n - l + k - 1]
    BY <1>4, <2>2
  <2>6. (IF i = 1 THEN c ELSE off[n - (l - 1) + i - 1]) = off[n - l + k - 1]
    BY <2>2, <2>5
  <2>7. QED
    BY <2>2, <2>3, <2>4, <2>6
<1>7. Len(v) <= n
  BY <1>1, <1>2, <1>3
<1>8. \A i \in 1..Len(v) : /\ Window(w, Begins(off, s, v, c, i), v[i])
                           /\ Begins(off, s, v, c, i) + Len(v[i]) = off[n - Len(v) + i]
  <2>1. \A i : Begins(off, s, v, c, i) = IF i = 1 THEN c ELSE off[n - (l - 1) + i - 1]
    BY <1>2 DEF Begins, n
  <2>2. QED
    BY <1>2, <1>6, <2>1, Zenon
<1>9. Pending(w, off, s, v, c)
  BY <1>5, <1>7, <1>8 DEF Pending, n
<1>10. c \in Nat
  BY <1>1 DEF c
<1>11. QED
  BY <1>4, <1>9, <1>10 DEF c, v, x

LEMMA PendingPart ==
    ASSUME NEW w, NEW off, NEW s \in Seq(SentMessages), Wire(w, off, s),
           NEW q \in Seq(Seq(Byte)), NEW e \in Nat, Pending(w, off, s, q, e), q # <<>>,
           NEW n \in Nat, n < Len(Head(q))
    PROVE  LET x == Head(q) IN
           /\ Window(w, e, SubSeq(x, 1, n))
           /\ Pending(w, off, s, <<SubSeq(x, n + 1, Len(x))>> \o Tail(q), e + n)
<1> DEFINE h == Len(s)
           l == Len(q)
           x == Head(q)
           y == SubSeq(x, 1, n)
           z == SubSeq(x, n + 1, Len(x))
           v == <<z>> \o Tail(q)
<1>1. /\ h \in Nat /\ l \in Nat /\ l # 0
      /\ x = q[1] /\ Len(x) \in Nat /\ x \in Seq(Byte) /\ w \in Seq(Byte)
  <2>1. x \in Seq(Byte)
    OBVIOUS
  <2>2. l # 0
    BY EmptySeq
  <2>3. QED
    BY <2>1, <2>2 DEF Wire
<1>2. /\ l <= h
      /\ \A i \in 1..l : LET b == IF i = 1 THEN e ELSE off[h - l + i - 1]
                         IN  Window(w, b, q[i]) /\ b + Len(q[i]) = off[h - l + i]
  BY DEF Pending, Begins
<1>3. n \in 0..Len(x)
  BY <1>1
<1>4. z \in Seq(Byte) /\ Len(z) = Len(x) - n
  BY <1>1, <1>3, SplitAt
<1>5. Len(v) = l /\ v[1] = z /\ \A i \in 1..l : i # 1 => v[i] = q[i]
  <2> HIDE DEF z
  <2>1. Tail(q) \in Seq(Seq(Byte)) /\ Len(Tail(q)) = l - 1 /\ \A i \in 1..l - 1 : Tail(q)[i] = q[i + 1]
    BY HeadTailProperties
  <2>2. PICK u \in Seq(Seq(Byte)) : u = Tail(q)
    BY <2>1
  <2>3. PICK f \in Seq(Seq(Byte)) : f = <<z>>
    <3>1. PICK y1 \in Seq(Byte) : y1 = z
      BY <1>4
    <3>2. <<y1>> \in Seq(Seq(Byte))
      OBVIOUS
    <3>3. QED
      BY <3>1, <3>2
  <2>4. Len(f) = 1 /\ f[1] = z
    BY <2>3
  <2>5. Len(f \o u) = Len(f) + Len(u) /\ \A i \in 1..Len(f) + Len(u) :
          (f \o u)[i] = IF i <= Len(f) THEN f[i] ELSE u[i - Len(f)]
    BY ConcatProperties
  <2>6. Len(u) = l - 1 /\ \A i \in 1..l - 1 : u[i] = q[i + 1]
    BY <2>1, <2>2
  <2>7. v = f \o u
    BY <2>2, <2>3
  <2> HIDE DEF v, l
  <2>8. Len(v) = l
    BY <1>1, <2>4, <2>5, <2>6, <2>7
  <2>9. \A i \in 1..l : v[i] = IF i <= 1 THEN f[i] ELSE u[i - 1]
    <3>1. Len(f) = 1 /\ Len(f) + Len(u) = l
      BY <1>1, <2>4, <2>6
    <3>2. \A i \in 1..l : v[i] = IF i <= Len(f) THEN f[i] ELSE u[i - Len(f)]
      BY <2>5, <2>7, <3>1
    <3>3. QED
      BY <3>1, <3>2, Zenon
  <2>10. v[1] = z
    BY <1>1, <2>4, <2>9
  <2>11. ASSUME NEW i \in 1..l, i # 1
         PROVE  v[i] = q[i]
    <3>1. v[i] = u[i - 1] /\ i - 1 \in 1..l - 1 /\ (i - 1) + 1 = i
      BY <1>1, <2>9, <2>11
    <3>2. QED
      BY <2>6, <3>1
  <2>12. QED
    BY <2>8, <2>10, <2>11
<1> HIDE DEF h, l, x, z, v
<1>6. Window(w, e, x) /\ e + Len(x) = off[h - l + 1]
  <2>1. 1 \in 1..l
    BY <1>1
  <2>2. QED
    BY <1>1, <1>2, <2>1
<1>7. Window(w, e, y) /\ Window(w, e + n, z)
  BY <1>1, <1>3, <1>6, WindowSplit DEF z
<1> HIDE DEF y
<1>8. ASSUME NEW i \in 1..l
      PROVE  LET b == IF i = 1 THEN e + n ELSE off[h - l + i - 1]
             IN  Window(w, b, v[i]) /\ b + Len(v[i]) = off[h - l + i]
  <2>1. CASE i = 1
    <3>1. e + n + Len(z) = e + Len(x)
      <4>1. PICK h1 \in Nat : h1 = Len(x)
        BY <1>1
      <4>2. Len(z) = h1 - n
        BY <1>4, <4>1
      <4>3. QED
        BY <4>1, <4>2
    <3>2. QED
      BY <1>5, <1>6, <1>7, <2>1, <3>1
  <2>2. CASE i # 1
    BY <1>2, <1>5, <2>2
  <2>3. QED
    BY <2>1, <2>2
<1>9. v # <<>>
  BY <1>1, <1>5
<1>10. \A i \in 1..Len(v) : /\ Window(w, Begins(off, s, v, e + n, i), v[i])
                            /\ Begins(off, s, v, e + n, i) + Len(v[i]) = off[h - Len(v) + i]
  <2>1. \A i : Begins(off, s, v, e + n, i) = IF i = 1 THEN e + n ELSE off[h - l + i - 1]
    BY <1>5 DEF Begins, h
  <2>2. Len(v) = l
    BY <1>5
  <2>3. SUFFICES ASSUME NEW i \in 1..l
                 PROVE  /\ Window(w, Begins(off, s, v, e + n, i), v[i])
                        /\ Begins(off, s, v, e + n, i) + Len(v[i]) = off[h - l + i]
    BY <2>2, Zenon
  <2>4. QED
    BY <1>8, <2>1, Zenon
<1>11. Pending(w, off, s, v, e + n)
  BY <1>2, <1>5, <1>9, <1>10 DEF Pending, h
<1>12. QED
  BY <1>7, <1>11 DEF v, y, z, x

LEMMA ReadingType ==
    ASSUME NEW w, NEW off, NEW s \in Seq(SentMessages), Wire(w, off, s),
           NEW k, NEW d \in Seq(Byte), NEW t \in Seq(Byte), Reading(w, off, s, k, d, t)
    PROVE  /\ w \in Seq(Byte) /\ Len(w) \in Nat /\ Len(s) \in Nat /\ k \in Nat /\ k <= Len(s)
           /\ off[k] \in Nat /\ off[Len(s)] = Len(w) /\ Len(d) \in Nat /\ Len(t) \in Nat
<1>1. Len(s) \in Nat /\ Len(d) \in Nat /\ Len(t) \in Nat
  OBVIOUS
<1>2. w \in Seq(Byte) /\ off[Len(s)] = Len(w)
  BY DEF Wire
<1>3. Len(w) \in Nat
  BY <1>2
<1>4. k \in Nat /\ k <= Len(s) /\ Window(w, off[k], d)
  BY DEF Reading
<1>5. off[k] \in Nat
  BY <1>4 DEF Window
<1>6. QED
  BY <1>1, <1>2, <1>3, <1>4, <1>5

LEMMA ReadingDeliver ==
    ASSUME NEW w, NEW off, NEW s \in Seq(SentMessages), Wire(w, off, s),
           NEW k, NEW d \in Seq(Byte), NEW t \in Seq(Byte), Reading(w, off, s, k, d, t),
           NEW x \in Seq(Byte), Window(w, off[k] + Len(d) + Len(t), x)
    PROVE  Reading(w, off, s, k, d, t \o x)
<1>1. w \in Seq(Byte) /\ off[k] \in Nat /\ Len(d) \in Nat
  BY ReadingType
<1>2. PICK o \in Nat : o = off[k] + Len(d)
  BY <1>1
<1>3. Window(w, o, t) /\ Window(w, o + Len(t), x)
  BY <1>2 DEF Reading
<1>4. Window(w, o, t \o x)
  BY <1>1, <1>3, WindowJoin
<1>5. QED
  BY <1>2, <1>4 DEF Reading

(* recvMsg() reads on, not beyond the end of the message. *)
LEMMA ReadingTake ==
    ASSUME NEW w, NEW off, NEW s \in Seq(SentMessages), Wire(w, off, s),
           NEW k, NEW d \in Seq(Byte), NEW t \in Seq(Byte), Reading(w, off, s, k, d, t),
           NEW c \in 0..Len(t), k < Len(s), off[k] + Len(d) + c <= off[k + 1]
    PROVE  /\ Reading(w, off, s, k, d \o SubSeq(t, 1, c), SubSeq(t, c + 1, Len(t)))
           /\ Len(d \o SubSeq(t, 1, c)) = Len(d) + c
           /\ Len(SubSeq(t, c + 1, Len(t))) = Len(t) - c
<1> DEFINE x == SubSeq(t, 1, c)
           y == SubSeq(t, c + 1, Len(t))
           u == d \o x
<1>1. /\ w \in Seq(Byte) /\ k \in Nat /\ off[k] \in Nat
      /\ Len(d) \in Nat /\ Len(t) \in Nat /\ c \in Nat
  <2>1. c \in Nat
    OBVIOUS
  <2>2. QED
    BY <2>1, ReadingType, Zenon
<1>2. x \in Seq(Byte) /\ Len(x) = c /\ y \in Seq(Byte) /\ Len(y) = Len(t) - c
  BY SplitAt
<1>3. PICK o \in Nat : o = off[k] + Len(d)
  BY <1>1
<1>4. Window(w, off[k], d) /\ Window(w, o, t)
  BY <1>3 DEF Reading
<1>5. Window(w, o, x) /\ Window(w, o + c, y)
  BY <1>1, <1>4, WindowSplit
<1> HIDE DEF x, y
<1>6. Len(u) = Len(d) + c
  BY <1>2, ConcatProperties
<1>7. Window(w, off[k], u)
  <2>1. PICK b \in Nat : b = off[k]
    BY <1>1
  <2>2. Window(w, b, d) /\ Window(w, b + Len(d), x)
    BY <1>3, <1>4, <1>5, <2>1
  <2>3. Window(w, b, u)
    BY <1>1, <1>2, <2>2, WindowJoin
  <2>4. QED
    BY <2>1, <2>3
<1> HIDE DEF u
<1>8. off[k] + Len(u) = o + c
  <2>1. PICK b \in Nat : b = off[k]
    BY <1>1
  <2>2. PICK h \in Nat : h = Len(d)
    BY <1>1
  <2>3. Len(u) = h + c /\ o = b + h
    BY <1>3, <1>6, <2>1, <2>2
  <2>4. QED
    BY <1>1, <2>1, <2>3
<1>9. off[k] + Len(u) <= off[k + 1]
  BY <1>3, <1>8
<1>10. Reading(w, off, s, k, u, y)
  BY <1>5, <1>7, <1>8, <1>9 DEF Reading
<1>11. QED
  BY <1>2, <1>6, <1>10 DEF x, y, u

(* It has the whole of a message and goes on to the next. *)
LEMMA ReadingNext ==
    ASSUME NEW w, NEW off, NEW s \in Seq(SentMessages), Wire(w, off, s),
           NEW k, NEW d \in Seq(Byte), NEW t \in Seq(Byte), Reading(w, off, s, k, d, t),
           k < Len(s), off[k] + Len(d) = off[k + 1]
    PROVE  Reading(w, off, s, k + 1, <<>>, t)
<1>1. w \in Seq(Byte) /\ k \in Nat /\ Len(s) \in Nat /\ Len(w) \in Nat /\ Len(t) \in Nat
  BY ReadingType
<1>2. PICK o : o = off[k + 1]
  OBVIOUS
<1>3. Window(w, o, t)
  BY <1>2 DEF Reading
<1>4. o \in Nat /\ o + Len(t) <= Len(w)
  BY <1>3 DEF Window
<1>5. Len(<<>>) = 0 /\ o + Len(<<>>) = o
  BY <1>4
<1>6. Window(w, o, <<>>)
  BY <1>1, <1>4, <1>5 DEF Window
<1>7. k + 1 \in Nat /\ k + 1 <= Len(s)
  BY <1>1
<1>8. QED
  BY <1>2, <1>3, <1>5, <1>6, <1>7 DEF Reading

(* What is delivered and not read is of a message that was sent. *)
LEMMA ReadingFirst ==
    ASSUME NEW w, NEW off, NEW s \in Seq(SentMessages), Wire(w, off, s),
           NEW k, NEW d \in Seq(Byte), NEW t \in Seq(Byte), Reading(w, off, s, k, d, t),
           t # <<>>
    PROVE  k < Len(s)
<1>1. /\ k \in Nat /\ k <= Len(s) /\ Len(s) \in Nat /\ off[k] \in Nat
      /\ off[Len(s)] = Len(w) /\ Len(w) \in Nat /\ Len(d) \in Nat
  BY ReadingType
<1>2. Len(t) \in Nat /\ Len(t) # 0
  BY EmptySeq
<1>3. off[k] + Len(d) + Len(t) <= Len(w)
  BY DEF Reading, Window
<1>4. off[k] # off[Len(s)]
  BY <1>1, <1>2, <1>3
<1>5. k # Len(s)
  BY <1>4
<1>6. QED
  BY <1>1, <1>5

(* What recvMsg() has of a message are its first bytes. *)
LEMMA ReadingCurrent ==
    ASSUME NEW w, NEW off, NEW s \in Seq(SentMessages), Wire(w, off, s),
           NEW k, NEW d \in Seq(Byte), NEW t \in Seq(Byte), Reading(w, off, s, k, d, t),
           k < Len(s)
    PROVE  /\ s[k + 1] \in SentMessages
           /\ off[k] \in Nat /\ off[k + 1] = off[k] + Len(GetPacked(s[k + 1]))
           /\ Len(d) <= Len(GetPacked(s[k + 1])) => Extends(GetPacked(s[k + 1]), d)
<1> DEFINE i == k + 1
           p == GetPacked(s[i])
<1>1. k \in Nat /\ Len(s) \in Nat /\ off[k] \in Nat /\ Len(d) \in Nat
  BY ReadingType
<1>2. i \in 1..Len(s) /\ i - 1 = k
  BY <1>1
<1>3. s[i] \in SentMessages
  BY <1>2
<1>4. off[i] = off[i - 1] + Len(p) /\ Window(w, off[i - 1], p)
  BY <1>2 DEF Wire
<1>5. Len(p) \in Nat
  BY <1>3, PackedType
<1> HIDE DEF p, i
<1>6. ASSUME Len(d) <= Len(p)
      PROVE  Extends(p, d)
  <2>1. \A j \in 1..Len(p) : w[off[k] + j] = p[j]
    BY <1>2, <1>4 DEF Window
  <2>2. \A j \in 1..Len(d) : w[off[k] + j] = d[j]
    BY DEF Reading, Window
  <2>3. \A j \in 1..Len(d) : j \in 1..Len(p)
    BY <1>1, <1>5, <1>6
  <2>4. QED
    BY <1>6, <2>1, <2>2, <2>3 DEF Extends
<1>7. off[i] = off[k] + Len(p)
  BY <1>2, <1>4
<1>8. QED
  BY <1>1, <1>3, <1>6, <1>7 DEF p, i

-----------------------------------------------------------------------------
(* One direction of a connection, after any number of steps. *)

(* What recvMsg() can return. *)
Received == {Expected(m) : m \in SentMessages} \cup {NullMessage, ClosedMessage}

(* It has come to the end, or lost its place. *)
Broken(g) == Contains(g, NullMessage) \/ Contains(g, ClosedMessage)

Types ==
    /\ sent \in Seq(SentMessages) /\ Len(sent) <= MaxSent
    /\ written \in Seq(Seq(Byte)) /\ \A i \in DOMAIN written : written[i] # <<>>
    /\ open \in BOOLEAN /\ lost \in BOOLEAN
    /\ stream \in Seq(Byte)
    /\ data \in Seq(Byte) /\ Len(data) # 1
    /\ got \in Seq(Received)

(* What recvMsg() has, what it will read and what is under way are pieces,   *)
(* in this order and with nothing between them, of what was sent.            *)
Synced(s, q, l, t, d, g) ==
    \E w, off :
       /\ Wire(w, off, s)
       /\ Reading(w, off, s, Len(g), d, t)
       /\ ~l => Pending(w, off, s, q, off[Len(g)] + Len(d) + Len(t))

(* The messages received are those sent. *)
Matches(s, g) ==
    \A i \in DOMAIN g :
        (\A k \in 1..i : g[k] \notin {NullMessage, ClosedMessage})
            => i \in DOMAIN s /\ g[i] = Expected(s[i])

(* After the end, or a header cut in two, recvMsg() has nothing of a message; *)
(* the end is reported when nothing more can come.                           *)
Ended ==
    Broken(got) =>
        /\ data = <<>>
        /\ Contains(got, NullMessage) \/ (stream = <<>> /\ written = <<>> /\ ~open)

FramingInv ==
    /\ Types
    /\ lost => ~open /\ written = <<>>
    /\ Ended
    /\ ~Broken(got) => Synced(sent, written, lost, stream, data, got)
    /\ Matches(sent, got)

(* No message sent is taken for the end. *)
LEMMA ExpectedType ==
    ASSUME NEW m \in SentMessages
    PROVE  /\ Expected(m).type \in DOMAIN TypeCode
           /\ Expected(m) # NullMessage /\ Expected(m) # ClosedMessage
<1>1. PICK type, id, fields : m = [type |-> type, id |-> id, fields |-> fields]
  BY DEF SentMessages
<1>2. type \in DOMAIN TypeCode \ {"unknown", "closed"}
  <2>1. WellFormed(m)
    BY SentWellFormed
  <2>2. m.type \in DOMAIN TypeCode \ {"unknown", "closed"}
    BY ONLY <2>1 DEF WellFormed
  <2>3. m.type = type
    BY <1>1
  <2>4. QED
    BY <2>2, <2>3
<1>3. Expected(m).type \in {type, "identity"}
  <2>1. CASE type = "position_report"
    <3>1. Expected(m) = [m EXCEPT !.fields = [@ EXCEPT !.tslc = 0]]
      BY <1>1, <2>1 DEF Expected
    <3>2. QED
      BY <1>1, <3>1
  <2>2. CASE type = "identity_required"
    BY <1>1, <2>2 DEF Expected
  <2>3. CASE type \notin {"position_report", "identity_required"}
    BY <1>1, <2>3 DEF Expected
  <2>4. QED
    BY <2>1, <2>2, <2>3
<1>4. /\ "identity" \in DOMAIN TypeCode
      /\ "null" \notin DOMAIN TypeCode
  BY DEF TypeCode
<1>5. NullMessage.type = "null" /\ ClosedMessage.type = "closed"
  BY DEF NullMessage, ClosedMessage
<1>6. Expected(m).type \in DOMAIN TypeCode /\ Expected(m).type # "null"
  BY <1>2, <1>3, <1>4
<1>7. Expected(m).type # "closed"
  BY <1>2, <1>3
<1>8. QED
  BY <1>5, <1>6, <1>7

(* What is received is counted once more. *)
LEMMA ReceivedOneMore ==
    ASSUME NEW g \in Seq(Received), NEW x \in Received, NEW e
    PROVE  /\ Append(g, x) \in Seq(Received) /\ Len(Append(g, x)) = Len(g) + 1
           /\ \A i \in 1..Len(g) : Append(g, x)[i] = g[i]
           /\ Append(g, x)[Len(g) + 1] = x
           /\ Contains(Append(g, x), e) <=> Contains(g, e) \/ x = e
<1>1. /\ Append(g, x) \in Seq(Received) /\ Len(Append(g, x)) = Len(g) + 1
      /\ \A i \in 1..Len(g) : Append(g, x)[i] = g[i]
      /\ Append(g, x)[Len(g) + 1] = x
  BY AppendProperties
<1>2. Len(g) \in Nat
  OBVIOUS
<1>3. \A i : i \in 1..Len(g) + 1 <=> i \in 1..Len(g) \/ i = Len(g) + 1
  BY <1>2
<1>4. Contains(Append(g, x), e) <=> Contains(g, e) \/ x = e
  BY <1>1, <1>3 DEF Contains
<1>5. QED
  BY <1>1, <1>4

(* Nothing but messages sent, the last one among them. *)
LEMMA MatchesNext ==
    ASSUME NEW s \in Seq(SentMessages), NEW g \in Seq(Received), Matches(s, g),
           Len(g) < Len(s)
    PROVE  Matches(s, Append(g, Expected(s[Len(g) + 1])))
<1> DEFINE n == Len(g)
           x == Expected(s[n + 1])
           u == Append(g, x)
<1>1. n \in Nat /\ Len(s) \in Nat
  OBVIOUS
<1>2. n + 1 \in 1..Len(s)
  BY <1>1
<1>3. x \in Received
  <2>1. s[n + 1] \in SentMessages
    BY <1>2
  <2>2. QED
    BY <2>1 DEF Received
<1> HIDE DEF x
<1>4. Len(u) = n + 1 /\ (\A i \in 1..n : u[i] = g[i]) /\ u[n + 1] = x
  BY <1>3, AppendProperties
<1> HIDE DEF n, u
<1>5. DOMAIN u = 1..n + 1 /\ DOMAIN g = 1..n /\ DOMAIN s = 1..Len(s)
  <2>1. u \in Seq(Received)
    BY <1>3, AppendProperties DEF u
  <2>2. QED
    BY <1>4, <2>1 DEF n
<1>6. ASSUME NEW i \in 1..n, \A k \in 1..i : u[k] \notin {NullMessage, ClosedMessage}
      PROVE  i \in DOMAIN s /\ u[i] = Expected(s[i])
  <2>1. \A k \in 1..i : k \in 1..n
    BY <1>1
  <2>2. \A k \in 1..i : g[k] \notin {NullMessage, ClosedMessage}
    BY <1>4, <1>6, <2>1
  <2>3. QED
    BY <1>4, <1>5, <1>6, <2>2 DEF Matches
<1>7. n + 1 \in DOMAIN s /\ u[n + 1] = Expected(s[n + 1])
  BY <1>2, <1>4, <1>5 DEF x
<1>8. \A i \in 1..n + 1 : i \in 1..n \/ i = n + 1
  BY <1>1
<1>9. Matches(s, u)
  BY <1>5, <1>6, <1>7, <1>8 DEF Matches
<1>10. QED
  BY <1>9 DEF u, x, n

(* ... or one that is not. *)
LEMMA MatchesEnd ==
    ASSUME NEW s \in Seq(SentMessages), NEW g \in Seq(Received), Matches(s, g),
           NEW x \in {NullMessage, ClosedMessage}
    PROVE  Matches(s, Append(g, x))
<1> DEFINE n == Len(g)
           u == Append(g, x)
<1>1. n \in Nat /\ x \in Received
  BY DEF Received
<1>2. Len(u) = n + 1 /\ (\A i \in 1..n : u[i] = g[i]) /\ u[n + 1] = x
  BY <1>1, AppendProperties
<1> HIDE DEF n, u
<1>3. DOMAIN u = 1..n + 1 /\ DOMAIN g = 1..n
  <2>1. u \in Seq(Received)
    BY <1>1, AppendProperties DEF u
  <2>2. QED
    BY <1>2, <2>1 DEF n
<1>4. ASSUME NEW i \in 1..n + 1, \A k \in 1..i : u[k] \notin {NullMessage, ClosedMessage}
      PROVE  i \in DOMAIN s /\ u[i] = Expected(s[i])
  <2>1. n + 1 \notin 1..i
    BY <1>2, <1>4
  <2>2. i \in 1..n
    BY <1>1, <2>1
  <2>3. \A k \in 1..i : k \in 1..n
    BY <1>1, <2>2
  <2>4. \A k \in 1..i : g[k] \notin {NullMessage, ClosedMessage}
    BY <1>2, <1>4, <2>3
  <2>5. QED
    BY <1>2, <1>3, <2>2, <2>4 DEF Matches
<1>5. Matches(s, u)
  BY <1>3, <1>4 DEF Matches
<1>6. QED
  BY <1>5 DEF u

(* Another message sent changes nothing for those received. *)
LEMMA MatchesSend ==
    ASSUME NEW s \in Seq(SentMessages), NEW g \in Seq(Received), Matches(s, g),
           NEW m \in SentMessages
    PROVE  Matches(Append(s, m), g)
<1>1. /\ Append(s, m) \in Seq(SentMessages) /\ Len(Append(s, m)) = Len(s) + 1
      /\ \A i \in 1..Len(s) : Append(s, m)[i] = s[i]
  BY AppendProperties
<1>2. Len(s) \in Nat
  OBVIOUS
<1>3. \A i \in DOMAIN s : i \in DOMAIN Append(s, m) /\ Append(s, m)[i] = s[i]
  BY <1>1, <1>2
<1>4. QED
  BY <1>3 DEF Matches

-----------------------------------------------------------------------------
(* Every step keeps the pieces together. *)

LEMMA SyncedType ==
    ASSUME NEW s \in Seq(SentMessages), NEW t \in Seq(Byte), NEW d \in Seq(Byte),
           NEW k, NEW w, NEW off, Wire(w, off, s), Reading(w, off, s, k, d, t)
    PROVE  off[k] + Len(d) + Len(t) \in Nat
<1>1. off[k] \in Nat /\ Len(d) \in Nat /\ Len(t) \in Nat
  BY ReadingType
<1>2. QED
  BY <1>1

LEMMA SyncedSend ==
    ASSUME NEW s \in Seq(SentMessages), NEW q \in Seq(Seq(Byte)), NEW t \in Seq(Byte),
           NEW d \in Seq(Byte), NEW g \in Seq(Received), NEW m \in SentMessages,
           Synced(s, q, FALSE, t, d, g)
    PROVE  Synced(Append(s, m), Append(q, GetPacked(m)), FALSE, t, d, g)
<1> DEFINE k == Len(g)
           u == Append(s, m)
           v == Append(q, GetPacked(m))
<1>1. PICK w, off : /\ Wire(w, off, s) /\ Reading(w, off, s, k, d, t)
                    /\ Pending(w, off, s, q, off[k] + Len(d) + Len(t))
  BY Zenon DEF Synced
<1> HIDE DEF k
<1>2. PICK w1, off1 : /\ w1 = w \o GetPacked(m)
                      /\ off1 = Further(off, Len(s), Len(w) + Len(GetPacked(m)))
  OBVIOUS
<1>3. Wire(w1, off1, u)
  BY <1>1, <1>2, WireSend
<1>4. Reading(w1, off1, u, k, d, t) /\ off1[k] = off[k]
  BY <1>1, <1>2, ReadingSend
<1>5. Pending(w1, off1, u, v, off[k] + Len(d) + Len(t))
  <2>1. PICK e \in Nat : e = off[k] + Len(d) + Len(t)
    BY <1>1, SyncedType
  <2>2. Pending(w, off, s, q, e)
    BY <1>1, <2>1
  <2>3. Pending(w1, off1, u, v, e)
    BY <1>1, <1>2, <2>2, PendingSend
  <2>4. QED
    BY <2>1, <2>3
<1> HIDE DEF u, v
<1>6. Synced(u, v, FALSE, t, d, g)
  BY <1>3, <1>4, <1>5, Zenon DEF Synced, k
<1>7. QED
  BY <1>6 DEF u, v

(* x arrives, and v is still under way. *)
LEMMA SyncedDeliver ==
    ASSUME NEW s \in Seq(SentMessages), NEW q, NEW t \in Seq(Byte),
           NEW d \in Seq(Byte), NEW g \in Seq(Received), NEW v, NEW x \in Seq(Byte),
           Synced(s, q, FALSE, t, d, g),
           \A w, off : \A e \in Nat : Wire(w, off, s) /\ Pending(w, off, s, q, e)
                => Window(w, e, x) /\ Pending(w, off, s, v, e + Len(x))
    PROVE  Synced(s, v, FALSE, t \o x, d, g)
<1> DEFINE k == Len(g)
           y == t \o x
<1>1. PICK w, off : /\ Wire(w, off, s) /\ Reading(w, off, s, k, d, t)
                    /\ Pending(w, off, s, q, off[k] + Len(d) + Len(t))
  BY Zenon DEF Synced
<1> HIDE DEF k
<1>2. off[k] + Len(d) + Len(t) \in Nat
  BY <1>1, SyncedType
<1>3. /\ Window(w, off[k] + Len(d) + Len(t), x)
      /\ Pending(w, off, s, v, off[k] + Len(d) + Len(t) + Len(x))
  BY <1>1, <1>2
<1>4. Reading(w, off, s, k, d, y)
  BY <1>1, <1>3, ReadingDeliver
<1>5. off[k] + Len(d) + Len(y) = off[k] + Len(d) + Len(t) + Len(x)
  <2>1. off[k] \in Nat /\ Len(d) \in Nat /\ Len(t) \in Nat
    BY <1>1, ReadingType
  <2>2. Len(y) = Len(t) + Len(x) /\ Len(x) \in Nat
    BY ConcatProperties
  <2> HIDE DEF y
  <2>3. QED
    BY <2>1, <2>2
<1> HIDE DEF y
<1>6. Pending(w, off, s, v, off[k] + Len(d) + Len(y))
  BY <1>3, <1>5
<1>7. Synced(s, v, FALSE, y, d, g)
  BY <1>1, <1>4, <1>6, Zenon DEF Synced, k
<1>8. QED
  BY <1>7 DEF y

(* recvMsg() takes the next c bytes. *)
LEMMA SyncedTake ==
    ASSUME NEW s \in Seq(SentMessages), NEW q, NEW l, NEW t \in Seq(Byte),
           NEW d \in Seq(Byte), NEW g \in Seq(Received), NEW c \in 0..Len(t),
           Synced(s, q, l, t, d, g), Len(g) < Len(s),
           Len(d) + c <= Len(GetPacked(s[Len(g) + 1]))
    PROVE  Synced(s, q, l, SubSeq(t, c + 1, Len(t)), d \o SubSeq(t, 1, c), g)
<1> DEFINE k == Len(g)
           x == d \o SubSeq(t, 1, c)
           y == SubSeq(t, c + 1, Len(t))
<1>1. PICK w, off : /\ Wire(w, off, s) /\ Reading(w, off, s, k, d, t)
                    /\ ~l => Pending(w, off, s, q, off[k] + Len(d) + Len(t))
  BY Zenon DEF Synced
<1>2. c \in Nat /\ Len(d) \in Nat /\ Len(t) \in Nat /\ k < Len(s)
  OBVIOUS
<1>3. Len(d) + c <= Len(GetPacked(s[k + 1]))
  OBVIOUS
<1> HIDE DEF k
<1>4. /\ s[k + 1] \in SentMessages /\ off[k] \in Nat
      /\ off[k + 1] = off[k] + Len(GetPacked(s[k + 1]))
  BY <1>1, <1>2, ReadingCurrent
<1>5. PICK o \in Nat, h \in Nat, p \in Nat :
         o = off[k] /\ h = Len(d) /\ p = Len(GetPacked(s[k + 1]))
  BY <1>2, <1>4, PackedType
<1>6. off[k] + Len(d) + c <= off[k + 1]
  <2>1. h + c <= p /\ off[k + 1] = o + p
    BY <1>3, <1>4, <1>5
  <2>2. o + h + c <= o + p
    BY <1>2, <2>1
  <2>3. QED
    BY <1>5, <2>1, <2>2
<1>7. Reading(w, off, s, k, x, y) /\ Len(x) = Len(d) + c /\ Len(y) = Len(t) - c
  BY <1>1, <1>2, <1>6, ReadingTake
<1> HIDE DEF x, y
<1>8. off[k] + Len(x) + Len(y) = off[k] + Len(d) + Len(t)
  <2>1. PICK r \in Nat : r = Len(t)
    BY <1>2
  <2>2. Len(x) = h + c /\ Len(y) = r - c
    BY <1>5, <1>7, <2>1
  <2>3. o + Len(x) + Len(y) = o + h + r
    BY <1>2, <2>2
  <2>4. QED
    BY <1>5, <2>1, <2>3
<1>9. ~l => Pending(w, off, s, q, off[k] + Len(x) + Len(y))
  BY <1>1, <1>8
<1>10. Synced(s, q, l, y, x, g)
  BY <1>1, <1>7, <1>9, Zenon DEF Synced, k
<1>11. QED
  BY <1>10 DEF x, y

(* It has all of a message, and starts on the next. *)
LEMMA SyncedNext ==
    ASSUME NEW s \in Seq(SentMessages), NEW q, NEW l, NEW t \in Seq(Byte),
           NEW d \in Seq(Byte), NEW g \in Seq(Received), NEW x \in Received,
           Synced(s, q, l, t, d, g), Len(g) < Len(s),
           Len(d) = Len(GetPacked(s[Len(g) + 1]))
    PROVE  Synced(s, q, l, t, <<>>, Append(g, x))
<1> DEFINE k == Len(g)
           u == Append(g, x)
<1>1. PICK w, off : /\ Wire(w, off, s) /\ Reading(w, off, s, k, d, t)
                    /\ ~l => Pending(w, off, s, q, off[k] + Len(d) + Len(t))
  BY Zenon DEF Synced
<1>2. Len(u) = k + 1 /\ k < Len(s) /\ Len(d) = Len(GetPacked(s[k + 1]))
  BY AppendProperties
<1> HIDE DEF k
<1>3. off[k] \in Nat /\ off[k + 1] = off[k] + Len(d)
  BY <1>1, <1>2, ReadingCurrent
<1>4. Reading(w, off, s, k + 1, <<>>, t)
  BY <1>1, <1>2, <1>3, ReadingNext
<1>5. Len(d) \in Nat /\ Len(t) \in Nat /\ Len(<<>>) = 0
  OBVIOUS
<1>6. off[k + 1] + Len(<<>>) + Len(t) = off[k] + Len(d) + Len(t)
  BY <1>3, <1>5
<1>7. ~l => Pending(w, off, s, q, off[k + 1] + Len(<<>>) + Len(t))
  BY <1>1, <1>6
<1> HIDE DEF u
<1>8. /\ Reading(w, off, s, Len(u), <<>>, t)
      /\ ~l => Pending(w, off, s, q, off[Len(u)] + Len(<<>>) + Len(t))
  BY <1>2, <1>4, <1>7
<1>9. Synced(s, q, l, t, <<>>, u)
  BY <1>1, <1>8, Zenon DEF Synced
<1>10. QED
  BY <1>9 DEF u

(* What of the stream is delivered is of a message that was sent ... *)
LEMMA SyncedFirst ==
    ASSUME NEW s \in Seq(SentMessages), NEW q, NEW l, NEW t \in Seq(Byte),
           NEW d \in Seq(Byte), NEW g \in Seq(Received), Synced(s, q, l, t, d, g),
           t # <<>> \/ d # <<>>
    PROVE  Len(g) < Len(s) /\ s[Len(g) + 1] \in SentMessages
<1>1. PICK w, off : Wire(w, off, s) /\ Reading(w, off, s, Len(g), d, t)
  BY Zenon DEF Synced
<1>2. Len(g) < Len(s)
  <2>1. CASE t # <<>>
    BY <1>1, <2>1, ReadingFirst
  <2>2. CASE d # <<>>
    BY <1>1, <2>2 DEF Reading
  <2>3. QED
    BY <2>1, <2>2
<1>3. QED
  BY <1>1, <1>2, ReadingCurrent

(* ... and the length recvMsg() reads in the header is that of the message. *)
LEMMA SyncedLength ==
    ASSUME NEW s \in Seq(SentMessages), NEW q, NEW l, NEW t \in Seq(Byte),
           NEW d \in Seq(Byte), NEW g \in Seq(Received), Synced(s, q, l, t, d, g),
           d # <<>>, Len(d) # 1
    PROVE  LET p == GetPacked(s[Len(g) + 1])
               n == Unsigned(SubSeq(d, 1, 2))
           IN  /\ Len(d) <= Len(p)
               /\ n + ((-n) % 8) = Len(p)
               /\ Len(d) = Len(p) => Decode(SubSeq(d, 1, n)) = Expected(s[Len(g) + 1])
<1> DEFINE k == Len(g)
           m == s[k + 1]
           p == GetPacked(m)
<1>1. PICK w, off : Wire(w, off, s) /\ Reading(w, off, s, k, d, t)
  BY Zenon DEF Synced
<1>2. k < Len(s) /\ m \in SentMessages
  BY SyncedFirst
<1> HIDE DEF k
<1>3. /\ off[k] \in Nat /\ off[k + 1] = off[k] + Len(p)
      /\ Len(d) <= Len(p) => Extends(p, d)
  BY <1>1, <1>2, ReadingCurrent
<1>4. off[k] + Len(d) <= off[k + 1]
  BY <1>1 DEF Reading
<1>5. WellFormed(m)
  BY <1>2, SentWellFormed
<1> HIDE DEF m
<1>6. PICK n \in Nat :
          /\ n >= 12
          /\ p \in Seq(Byte) /\ Len(p) = n + Padding(n)
          /\ Unsigned(SubSeq(p, 1, 2)) = n
          /\ Decode(SubSeq(p, 1, n)) = Expected(m)
  BY <1>5, GetPackedType
<1> HIDE DEF p
<1>7. Len(p) \in Nat /\ Len(d) \in Nat
  BY <1>6
<1>8. Len(d) <= Len(p) /\ Extends(p, d)
  BY <1>3, <1>4, <1>7
<1>9. SubSeq(p, 1, Len(d)) = d
  BY <1>6, <1>8, Prefix
<1>10. SubSeq(d, 1, 2) = SubSeq(p, 1, 2)
  <2>1. Len(d) # 0
    BY EmptySeq
  <2>2. Len(d) >= 2 /\ Len(p) >= 2
    <3>1. PICK i \in Nat, j \in Nat : i = Len(d) /\ j = Len(p)
      BY <1>7
    <3>2. i # 0 /\ i # 1 /\ i <= j
      BY <1>8, <2>1, <3>1
    <3>3. i >= 2 /\ j >= 2
      BY <3>2
    <3>4. QED
      BY <3>1, <3>3
  <2>3. d[1] = p[1] /\ d[2] = p[2]
    <3>1. 1 \in 1..Len(d) /\ 2 \in 1..Len(d)
      BY <1>7, <2>2
    <3>2. QED
      BY <1>8, <3>1 DEF Extends
  <2>4. 2 \in 0..Len(d) /\ 2 \in 0..Len(p)
    BY <1>7, <2>2
  <2>5. PICK x, y : x = SubSeq(d, 1, 2) /\ y = SubSeq(p, 1, 2)
    OBVIOUS
  <2>6. /\ x \in Seq(Byte) /\ Len(x) = 2 /\ \A j \in 1..2 : x[j] = d[j]
        /\ y \in Seq(Byte) /\ Len(y) = 2 /\ \A j \in 1..2 : y[j] = p[j]
    BY <1>6, <2>4, <2>5, SplitAt
  <2>7. \A j \in 1..2 : d[j] = p[j]
    BY <2>3
  <2>8. x = y
    BY <2>6, <2>7, SeqEqual
  <2>9. QED
    BY <2>5, <2>8
<1>11. Unsigned(SubSeq(d, 1, 2)) = n
  BY <1>6, <1>10
<1>12. Len(d) = Len(p) => Decode(SubSeq(d, 1, n)) = Expected(m)
  <2>1. SUFFICES ASSUME Len(d) = Len(p)
                 PROVE  Decode(SubSeq(d, 1, n)) = Expected(m)
    OBVIOUS
  <2>2. SubSeq(p, 1, Len(p)) = p
    BY <1>6
  <2>3. d = p
    BY <1>9, <2>1, <2>2
  <2>4. QED
    BY <1>6, <2>3
<1>13. n + ((-n) % 8) = Len(p)
  BY <1>6 DEF Padding
<1>14. QED
  BY <1>8, <1>11, <1>12, <1>13, Zenon DEF p, m, k

-----------------------------------------------------------------------------
(* The invariant, action by action. *)

LEMMA FramingStart == Init => FramingInv
<1>1. SUFFICES ASSUME Init
               PROVE  FramingInv
  OBVIOUS
<1>2. /\ sent = <<>> /\ written = <<>> /\ open = TRUE /\ lost = FALSE
      /\ stream = <<>> /\ data = <<>> /\ got = <<>>
  BY <1>1 DEF Init
<1>3. ASSUME NEW T
      PROVE  <<>> \in Seq(T) /\ Len(<<>>) = 0 /\ DOMAIN <<>> = {}
  OBVIOUS
<1>4. Types
  <2>1. \A i \in DOMAIN written : written[i] # <<>>
    BY <1>2, <1>3
  <2>2. MaxSent \in Nat
    BY FramingAssumption
  <2>3. sent \in Seq(SentMessages) /\ Len(sent) <= MaxSent
    BY <1>2, <1>3, <2>2
  <2>4. written \in Seq(Seq(Byte))
    BY <1>2, <1>3, Zenon
  <2>5. stream \in Seq(Byte) /\ data \in Seq(Byte) /\ Len(data) # 1 /\ got \in Seq(Received)
    BY <1>2, <1>3
  <2>6. QED
    BY <1>2, <2>1, <2>3, <2>4, <2>5 DEF Types
<1>5. ~Broken(got)
  BY <1>2 DEF Broken, Contains
<1>6. Matches(sent, got)
  BY <1>2, <1>3 DEF Matches
<1>7. Synced(<<>>, <<>>, FALSE, <<>>, <<>>, <<>>)
  <2>1. PICK e : e = <<>>
    OBVIOUS
  <2>2. /\ e \in Seq(Byte) /\ Len(e) = 0
    BY <2>1
  <2>3. PICK off : off = [i \in 0..0 |-> 0]
    OBVIOUS
  <2>4. off \in [0..0 -> Nat] /\ off[0] = 0
    BY <2>3
  <2>5. Wire(e, off, e)
    BY <2>2, <2>4 DEF Wire
  <2>6. Window(e, 0, e)
    BY <2>2 DEF Window
  <2>7. Reading(e, off, e, 0, e, e)
    BY <2>1, <2>2, <2>4, <2>6 DEF Reading
  <2>8. Pending(e, off, e, e, 0)
    BY <2>2 DEF Pending
  <2>9. off[0] + Len(e) + Len(e) = 0
    BY <2>2, <2>4
  <2>10. Synced(e, e, FALSE, e, e, e)
    BY <2>2, <2>5, <2>7, <2>8, <2>9 DEF Synced
  <2>11. QED
    BY <2>1, <2>10
<1>8. QED
  BY <1>2, <1>4, <1>5, <1>6, <1>7 DEF FramingInv, Ended

LEMMA SendMsgStep ==
    ASSUME FramingInv, NEW m \in Messages, SendMsg(m)
    PROVE  FramingInv'
<1> DEFINE msg == [type |-> m.type, id |-> Len(sent) + 1, fields |-> m.fields]
           p == GetPacked(msg)
<1>1. /\ Types /\ Ended /\ Matches(sent, got) /\ (lost => ~open /\ written = <<>>)
      /\ ~Broken(got) => Synced(sent, written, lost, stream, data, got)
  BY DEF FramingInv
<1>2. /\ open /\ Len(sent) < MaxSent
      /\ sent' = Append(sent, msg) /\ written' = Append(written, p)
      /\ open' = open /\ lost' = lost /\ stream' = stream /\ data' = data /\ got' = got
  BY DEF SendMsg
<1>3. msg \in SentMessages
  <2>1. Len(sent) + 1 \in 1..MaxSent
    BY <1>1, <1>2, FramingAssumption DEF Types
  <2>2. QED
    BY <2>1 DEF SentMessages
<1> HIDE DEF msg
<1>4. p \in Seq(Byte) /\ p # <<>>
  <2>1. p \in Seq(Byte) /\ Len(p) >= 12
    BY <1>3, PackedType
  <2>2. QED
    BY <2>1
<1>5. lost = FALSE
  BY <1>1, <1>2 DEF Types
<1> HIDE DEF p
<1>6. Types'
  <2>1. sent' \in Seq(SentMessages) /\ Len(sent') = Len(sent) + 1
    BY <1>1, <1>2, <1>3, AppendProperties DEF Types
  <2>2. Len(sent') <= MaxSent
    BY <1>1, <1>2, <2>1, FramingAssumption DEF Types
  <2>3. /\ written' \in Seq(Seq(Byte)) /\ Len(written') = Len(written) + 1
        /\ \A i \in 1..Len(written) : written'[i] = written[i]
        /\ written'[Len(written) + 1] = p
    BY <1>1, <1>2, <1>4, AppendProperties DEF Types
  <2>4. \A i \in DOMAIN written' : written'[i] # <<>>
    <3>1. Len(written) \in Nat /\ DOMAIN written = 1..Len(written)
      BY <1>1 DEF Types
    <3>2. DOMAIN written' = 1..Len(written) + 1
      BY <2>3
    <3>3. \A i \in DOMAIN written' : i \in 1..Len(written) \/ i = Len(written) + 1
      BY <3>1, <3>2
    <3>4. QED
      BY <1>1, <1>4, <2>3, <3>1, <3>3 DEF Types
  <2>5. QED
    BY <1>1, <1>2, <2>1, <2>2, <2>3, <2>4 DEF Types
<1>7. Ended'
  BY <1>1, <1>2 DEF Ended
<1>8. Matches(sent', got')
  <2>1. sent \in Seq(SentMessages) /\ got \in Seq(Received)
    BY <1>1 DEF Types
  <2>2. QED
    BY <1>1, <1>2, <1>3, <2>1, MatchesSend
<1>9. ASSUME ~Broken(got')
      PROVE  Synced(sent', written', lost', stream', data', got')
  <2>1. /\ sent \in Seq(SentMessages) /\ written \in Seq(Seq(Byte)) /\ stream \in Seq(Byte)
        /\ data \in Seq(Byte) /\ got \in Seq(Received)
    BY <1>1 DEF Types
  <2>2. Synced(sent, written, FALSE, stream, data, got)
    BY <1>1, <1>2, <1>5, <1>9
  <2>3. Synced(Append(sent, msg), Append(written, p), FALSE, stream, data, got)
    BY <1>3, <2>1, <2>2, SyncedSend DEF p
  <2>4. QED
    BY <1>2, <1>5, <2>3
<1>10. QED
  BY <1>2, <1>5, <1>6, <1>7, <1>8, <1>9 DEF FramingInv

LEMMA CloseStep ==
    ASSUME FramingInv, Close
    PROVE  FramingInv'
BY DEF FramingInv, Close, Types, Ended

LEMMA DieStep ==
    ASSUME FramingInv, Die
    PROVE  FramingInv'
<1>1. /\ Types /\ Ended /\ Matches(sent, got)
      /\ ~Broken(got) => Synced(sent, written, lost, stream, data, got)
  BY DEF FramingInv
<1>2. /\ open' = FALSE /\ lost' = TRUE /\ written' = <<>> /\ written # <<>>
      /\ sent' = sent /\ stream' = stream /\ data' = data /\ got' = got
  BY DEF Die
<1>3. Types'
  <2>1. <<>> \in Seq(Seq(Byte)) /\ DOMAIN <<>> = {}
    OBVIOUS
  <2>2. QED
    BY <1>1, <1>2, <2>1 DEF Types
<1>4. Ended'
  BY <1>1, <1>2 DEF Ended
<1>5. Synced(sent, written, lost, stream, data, got)
         => Synced(sent, <<>>, TRUE, stream, data, got)
  BY Zenon DEF Synced
<1>6. QED
  BY <1>1, <1>2, <1>3, <1>4, <1>5 DEF FramingInv

(* x arrives of what is under way, and v is left. *)
LEMMA ArriveStep ==
    ASSUME FramingInv, NEW x \in Seq(Byte), NEW v \in Seq(Seq(Byte)),
           written # <<>>, \A i \in DOMAIN v : v[i] # <<>>,
           \A w, off : \A e \in Nat : Wire(w, off, sent) /\ Pending(w, off, sent, written, e)
                => Window(w, e, x) /\ Pending(w, off, sent, v, e + Len(x)),
           stream' = stream \o x, written' = v,
           UNCHANGED <<sent, open, lost, data, got>>
    PROVE  FramingInv'
<1>1. /\ Types /\ Ended /\ Matches(sent, got) /\ (lost => ~open /\ written = <<>>)
      /\ ~Broken(got) => Synced(sent, written, lost, stream, data, got)
  BY DEF FramingInv
<1>2. sent' = sent /\ open' = open /\ lost' = lost /\ data' = data /\ got' = got
  OBVIOUS
<1>3. lost = FALSE
  BY <1>1 DEF Types
<1>4. /\ sent \in Seq(SentMessages) /\ stream \in Seq(Byte)
      /\ data \in Seq(Byte) /\ got \in Seq(Received)
  BY <1>1 DEF Types
<1>5. Types'
  <2>1. stream \o x \in Seq(Byte)
    BY <1>4, ConcatProperties
  <2>2. QED
    BY <1>1, <1>2, <2>1 DEF Types
<1>6. Ended'
  BY <1>1, <1>2 DEF Ended
<1>7. ASSUME ~Broken(got')
      PROVE  Synced(sent', written', lost', stream', data', got')
  <2>1. Synced(sent, written, FALSE, stream, data, got)
    BY <1>1, <1>2, <1>3, <1>7
  <2>2. Synced(sent, v, FALSE, stream \o x, data, got)
    BY <1>4, <2>1, SyncedDeliver
  <2>3. QED
    BY <1>2, <1>3, <2>2
<1>8. QED
  BY <1>1, <1>2, <1>3, <1>5, <1>6, <1>7 DEF FramingInv

LEMMA CutType ==
    ASSUME NEW x \in Seq(Byte), x # <<>>, NEW where \in Pieces
    PROVE  Cut(x, where) \in 1..Len(x)
<1>1. Len(x) \in Nat /\ Len(x) # 0
  BY EmptySeq
<1>2. CASE where = "message"
  BY <1>1, <1>2 DEF Cut
<1>3. CASE where = "body"
  BY <1>1, <1>3 DEF Cut
<1>4. CASE where = "header"
  BY <1>1, <1>4 DEF Cut
<1>5. QED
  BY <1>2, <1>3, <1>4 DEF Pieces

LEMMA DeliverStep ==
    ASSUME FramingInv, NEW where \in Pieces, Deliver(where)
    PROVE  FramingInv'
<1> DEFINE x == Head(written)
           n == Cut(x, where)
           l == Len(written)
<1>1. /\ sent \in Seq(SentMessages) /\ written \in Seq(Seq(Byte))
      /\ \A i \in DOMAIN written : written[i] # <<>>
  BY DEF FramingInv, Types
<1>2. /\ written # <<>>
      /\ stream' = stream \o SubSeq(x, 1, n)
      /\ written' = IF n = Len(x) THEN Tail(written)
                    ELSE <<SubSeq(x, n + 1, Len(x))>> \o Tail(written)
      /\ UNCHANGED <<sent, open, lost, data, got>>
  BY DEF Deliver
<1>3. /\ l \in Nat /\ l # 0 /\ DOMAIN written = 1..l
      /\ x = written[1] /\ x \in Seq(Byte) /\ x # <<>> /\ Len(x) \in Nat
  <2>1. l \in Nat /\ l # 0 /\ DOMAIN written = 1..l /\ x = written[1]
    BY <1>1, <1>2, EmptySeq
  <2>2. 1 \in DOMAIN written
    BY <2>1
  <2>3. written[1] \in Seq(Byte)
    BY <1>1, <2>1, <2>2, ElementOfSeq
  <2>4. x \in Seq(Byte) /\ x # <<>>
    BY <1>1, <2>1, <2>2, <2>3
  <2> HIDE DEF x
  <2>5. Len(x) \in Nat
    BY <2>4
  <2>6. QED
    BY <2>1, <2>4, <2>5
<1>4. n \in 1..Len(x)
  BY <1>3, CutType
<1>5. /\ Tail(written) \in Seq(Seq(Byte)) /\ DOMAIN Tail(written) = 1..l - 1
      /\ \A i \in 1..l - 1 : Tail(written)[i] # <<>>
  <2>1. /\ Tail(written) \in Seq(Seq(Byte)) /\ Len(Tail(written)) = l - 1
        /\ \A i \in 1..l - 1 : Tail(written)[i] = written[i + 1]
    BY <1>1, <1>2, HeadTailProperties
  <2>2. \A i \in 1..l - 1 : i + 1 \in DOMAIN written
    BY <1>3
  <2>3. QED
    BY <1>1, <2>1, <2>2
<1> HIDE DEF x, n, l
<1>6. ASSUME n = Len(x)
      PROVE  FramingInv'
  <2>1. SubSeq(x, 1, n) = x
    BY <1>3, <1>6
  <2>2. stream' = stream \o x /\ written' = Tail(written)
    BY <1>2, <1>6, <2>1
  <2>3. \A w, off : \A e \in Nat : Wire(w, off, sent) /\ Pending(w, off, sent, written, e)
           => Window(w, e, x) /\ Pending(w, off, sent, Tail(written), e + Len(x))
    BY <1>1, <1>2, PendingWhole DEF x
  <2>4. QED
    BY <1>2, <1>3, <1>5, <2>2, <2>3, ArriveStep
<1>7. ASSUME n # Len(x)
      PROVE  FramingInv'
  <2> DEFINE y == SubSeq(x, 1, n)
             z == SubSeq(x, n + 1, Len(x))
             v == <<z>> \o Tail(written)
  <2>1. n \in Nat /\ n < Len(x) /\ n \in 0..Len(x)
    BY <1>3, <1>4, <1>7
  <2>2. y \in Seq(Byte) /\ Len(y) = n /\ z \in Seq(Byte) /\ Len(z) = Len(x) - n
    BY <1>3, <2>1, SplitAt
  <2>3. \A w, off : \A e \in Nat : Wire(w, off, sent) /\ Pending(w, off, sent, written, e)
           => Window(w, e, y) /\ Pending(w, off, sent, v, e + n)
    BY <1>1, <1>2, <2>1, PendingPart DEF x
  <2>4. stream' = stream \o y /\ written' = v
    BY <1>2, <1>7
  <2> HIDE DEF y, z
  <2>5. v \in Seq(Seq(Byte)) /\ \A i \in DOMAIN v : v[i] # <<>>
    <3>1. z # <<>>
      BY <1>3, <2>1, <2>2
    <3>2. PICK f \in Seq(Seq(Byte)), u \in Seq(Seq(Byte)) :
             f = <<z>> /\ u = Tail(written)
      <4>1. PICK z1 \in Seq(Byte) : z1 = z
        BY <2>2
      <4>2. <<z1>> \in Seq(Seq(Byte))
        OBVIOUS
      <4>3. QED
        BY <1>5, <4>1, <4>2, Zenon
    <3>3. Len(f) = 1 /\ f[1] = z
      BY <3>2
    <3>4. \A i \in 1..Len(u) : u[i] # <<>>
      <4>1. DOMAIN u = 1..Len(u)
        OBVIOUS
      <4>2. QED
        BY <1>5, <3>2, <4>1, Zenon
    <3>5. /\ f \o u \in Seq(Seq(Byte)) /\ Len(f \o u) = Len(f) + Len(u)
          /\ \A i \in 1..Len(f) + Len(u) : (f \o u)[i] = IF i <= Len(f) THEN f[i] ELSE u[i - Len(f)]
      BY ConcatProperties
    <3>6. ASSUME NEW i \in 1..Len(f) + Len(u)
          PROVE  (f \o u)[i] # <<>>
      <4>1. CASE i <= Len(f)
        BY <3>1, <3>3, <3>5, <4>1
      <4>2. CASE ~(i <= Len(f))
        <5>1. i - Len(f) \in 1..Len(u)
          BY <3>3, <4>2
        <5>2. QED
          BY <3>4, <3>5, <4>2, <5>1
      <4>3. QED
        BY <4>1, <4>2
    <3>7. v = f \o u
      BY <3>2
    <3> HIDE DEF v
    <3>8. QED
      BY <3>5, <3>6, <3>7
  <2> HIDE DEF v
  <2>6. \A w, off : \A e \in Nat : Wire(w, off, sent) /\ Pending(w, off, sent, written, e)
           => Window(w, e, y) /\ Pending(w, off, sent, v, e + Len(y))
    BY <2>2, <2>3
  <2>7. QED
    BY <1>2, <2>2, <2>4, <2>5, <2>6, ArriveStep
<1>8. QED
  BY <1>6, <1>7

(* recvBytes() takes c bytes, of a message that was sent. *)
LEMMA ReceiveStep ==
    ASSUME FramingInv, ~Broken(got), NEW c \in 0..Len(stream),
           Len(got) < Len(sent), Len(data) + c <= Len(GetPacked(sent[Len(got) + 1])),
           Len(data) + c # 1,
           data' = data \o SubSeq(stream, 1, c),
           stream' = SubSeq(stream, c + 1, Len(stream)),
           UNCHANGED <<sent, written, open, lost, got>>
    PROVE  FramingInv'
<1> DEFINE x == data \o SubSeq(stream, 1, c)
           y == SubSeq(stream, c + 1, Len(stream))
<1>1. /\ Types /\ Matches(sent, got) /\ (lost => ~open /\ written = <<>>)
      /\ Synced(sent, written, lost, stream, data, got)
  BY DEF FramingInv
<1>2. /\ sent \in Seq(SentMessages) /\ stream \in Seq(Byte)
      /\ data \in Seq(Byte) /\ got \in Seq(Received)
  BY <1>1 DEF Types
<1>3. Synced(sent, written, lost, y, x, got)
  BY <1>1, <1>2, SyncedTake
<1>4. /\ SubSeq(stream, 1, c) \in Seq(Byte) /\ Len(SubSeq(stream, 1, c)) = c
      /\ y \in Seq(Byte)
  BY <1>2, SplitAt
<1>5. x \in Seq(Byte) /\ Len(x) = Len(data) + c
  <2>1. PICK z \in Seq(Byte) : z = SubSeq(stream, 1, c)
    BY <1>4
  <2>2. data \o z \in Seq(Byte) /\ Len(data \o z) = Len(data) + Len(z)
    BY <1>2, ConcatProperties
  <2>3. QED
    BY <1>4, <2>1, <2>2
<1>6. /\ data' = x /\ stream' = y
      /\ sent' = sent /\ written' = written /\ open' = open /\ lost' = lost /\ got' = got
  OBVIOUS
<1>7. Len(x) # 1
  BY <1>5
<1> HIDE DEF x, y
<1>8. Types'
  BY <1>1, <1>4, <1>5, <1>6, <1>7 DEF Types
<1>9. Ended'
  BY <1>6 DEF Ended
<1>10. Synced(sent', written', lost', stream', data', got')
  BY <1>3, <1>6
<1>11. QED
  BY <1>1, <1>6, <1>8, <1>9, <1>10 DEF FramingInv

LEMMA ReadHeaderStep ==
    ASSUME FramingInv, ReadHeader
    PROVE  FramingInv'
<1>1. /\ stream \in Seq(Byte) /\ data = <<>> /\ stream # <<>>
      /\ sent \in Seq(SentMessages) /\ got \in Seq(Received) /\ data \in Seq(Byte)
  BY DEF FramingInv, Types, ReadHeader, Receives
<1>2. Len(stream) \in Nat /\ Len(stream) >= 2
  BY <1>1 DEF ReadHeader
<1>3. Take(2) = 2
  BY <1>2 DEF Take
<1>4. ~Broken(got)
  BY <1>1 DEF FramingInv, Ended, ReadHeader, InStep, Broken
<1>5. Synced(sent, written, lost, stream, data, got)
  BY <1>4 DEF FramingInv
<1>6. Len(got) < Len(sent) /\ sent[Len(got) + 1] \in SentMessages
  BY <1>1, <1>5, SyncedFirst
<1>7. Len(data) = 0
  BY <1>1
<1>8. PICK c \in 0..Len(stream) : c = 2
  BY <1>2
<1>9. Len(data) + c <= Len(GetPacked(sent[Len(got) + 1])) /\ Len(data) + c # 1
  <2>1. PICK n \in Nat : n = Len(GetPacked(sent[Len(got) + 1])) /\ n >= 12
    BY <1>6, PackedType
  <2>2. Len(data) + c = 2
    BY <1>7, <1>8
  <2>3. QED
    BY <2>1, <2>2
<1>10. /\ data' = data \o SubSeq(stream, 1, c) /\ stream' = SubSeq(stream, c + 1, Len(stream))
       /\ UNCHANGED <<sent, written, open, lost, got>>
  BY <1>3, <1>8 DEF ReadHeader, Receives
<1>11. QED
  BY <1>4, <1>6, <1>9, <1>10, ReceiveStep

LEMMA ReadRestStep ==
    ASSUME FramingInv, ReadRest
    PROVE  FramingInv'
<1>1. /\ stream \in Seq(Byte) /\ data # <<>> /\ Len(data) # 1
      /\ sent \in Seq(SentMessages) /\ got \in Seq(Received) /\ data \in Seq(Byte)
  BY DEF FramingInv, Types, ReadRest
<1>2. ~Broken(got)
  BY <1>1 DEF FramingInv, Ended
<1>3. Synced(sent, written, lost, stream, data, got)
  BY <1>2 DEF FramingInv
<1>4. Len(got) < Len(sent) /\ sent[Len(got) + 1] \in SentMessages
  BY <1>1, <1>3, SyncedFirst
<1>5. TotalLength = Len(GetPacked(sent[Len(got) + 1]))
  BY <1>1, <1>3, SyncedLength DEF TotalLength, DataLength
<1> DEFINE c == Take(TotalLength - Len(data))
<1>6. /\ data' = data \o SubSeq(stream, 1, c) /\ stream' = SubSeq(stream, c + 1, Len(stream))
      /\ UNCHANGED <<sent, written, open, lost, got>>
  BY DEF ReadRest, Receives
<1>7. PICK n \in Nat : n = TotalLength
  BY <1>4, <1>5, PackedType
<1>8. PICK d \in Nat, h \in Nat : d = Len(data) /\ h = Len(stream)
  BY <1>1
<1>9. d # 0 /\ d # 1 /\ d < n
  <2>1. Len(data) # 0
    BY <1>1, EmptySeq
  <2>2. Len(data) < TotalLength
    BY DEF ReadRest
  <2>3. QED
    BY <1>1, <1>7, <1>8, <2>1, <2>2
<1>10. c = IF n - d < h THEN n - d ELSE h
  BY <1>7, <1>8 DEF Take
<1> HIDE DEF c
<1>11. c \in 0..h /\ d + c <= n /\ d + c # 1
  BY <1>9, <1>10
<1>12. c \in 0..Len(stream) /\ Len(data) + c <= Len(GetPacked(sent[Len(got) + 1]))
       /\ Len(data) + c # 1
  BY <1>5, <1>7, <1>8, <1>11
<1>13. QED
  BY <1>2, <1>4, <1>6, <1>12, ReceiveStep

LEMMA DecodeMsgStep ==
    ASSUME FramingInv, DecodeMsg
    PROVE  FramingInv'
<1>1. /\ stream \in Seq(Byte) /\ data # <<>> /\ Len(data) # 1
      /\ sent \in Seq(SentMessages) /\ got \in Seq(Received) /\ data \in Seq(Byte)
      /\ Matches(sent, got)
  BY DEF FramingInv, Types, DecodeMsg
<1>2. ~Broken(got)
  BY <1>1 DEF FramingInv, Ended
<1>3. Synced(sent, written, lost, stream, data, got)
  BY <1>2 DEF FramingInv
<1>4. Len(got) < Len(sent) /\ sent[Len(got) + 1] \in SentMessages
  BY <1>1, <1>3, SyncedFirst
<1>5. /\ TotalLength = Len(GetPacked(sent[Len(got) + 1]))
      /\ Len(data) = TotalLength
           => Decode(SubSeq(data, 1, DataLength)) = Expected(sent[Len(got) + 1])
  BY <1>1, <1>3, SyncedLength DEF TotalLength, DataLength
<1> DEFINE x == Expected(sent[Len(got) + 1])
           u == Append(got, x)
<1>6. /\ Len(data) = Len(GetPacked(sent[Len(got) + 1]))
      /\ got' = u /\ data' = <<>>
      /\ sent' = sent /\ written' = written /\ open' = open /\ lost' = lost /\ stream' = stream
  BY <1>5 DEF DecodeMsg
<1>7. x \in Received /\ x # NullMessage /\ x # ClosedMessage
  BY <1>4, ExpectedType DEF Received
<1>8. Matches(sent, u)
  BY <1>1, <1>4, MatchesNext
<1> HIDE DEF x
<1>9. Synced(sent, written, lost, stream, <<>>, u)
  BY <1>1, <1>3, <1>4, <1>6, <1>7, SyncedNext
<1>10. u \in Seq(Received) /\ ~Broken(u)
  BY <1>1, <1>2, <1>7, ReceivedOneMore DEF Broken
<1> HIDE DEF u
<1>11. Types'
  <2>1. <<>> \in Seq(Byte) /\ Len(<<>>) = 0
    OBVIOUS
  <2>2. QED
    BY <1>6, <1>10, <2>1 DEF FramingInv, Types
<1>12. Ended'
  BY <1>6, <1>10 DEF Ended
<1>13. QED
  BY <1>6, <1>8, <1>9, <1>11, <1>12 DEF FramingInv

(* recvMsg() hands on the end, or a null message. *)
LEMMA EndStep ==
    ASSUME FramingInv, NEW x \in {NullMessage, ClosedMessage}, NEW t,
           data = <<>>, t \in Seq(Byte),
           x = ClosedMessage => t = <<>> /\ written = <<>> /\ ~open,
           stream' = t, got' = Append(got, x),
           UNCHANGED <<sent, written, open, lost, data>>
    PROVE  FramingInv'
<1> DEFINE u == Append(got, x)
<1>1. /\ Types /\ Matches(sent, got) /\ got \in Seq(Received) /\ sent \in Seq(SentMessages)
      /\ lost => ~open /\ written = <<>>
  BY DEF FramingInv, Types
<1>2. x \in Received
  BY DEF Received
<1>3. /\ u \in Seq(Received)
      /\ \A e : Contains(u, e) <=> Contains(got, e) \/ x = e
  BY <1>1, <1>2, ReceivedOneMore
<1>4. Matches(sent, u)
  BY <1>1, MatchesEnd
<1>5. /\ stream' = t /\ got' = u
      /\ sent' = sent /\ written' = written /\ open' = open /\ lost' = lost /\ data' = data
  OBVIOUS
<1> HIDE DEF u
<1>6. Types'
  BY <1>1, <1>3, <1>5 DEF Types
<1>7. Broken(u) /\ (Contains(u, NullMessage) \/ x = ClosedMessage)
  BY <1>3 DEF Broken
<1>8. Ended'
  BY <1>5, <1>7 DEF Ended
<1>9. QED
  BY <1>1, <1>4, <1>5, <1>6, <1>7, <1>8 DEF FramingInv

LEMMA ReadEndStep ==
    ASSUME FramingInv, ReadHalfHeader \/ ReadClosed
    PROVE  FramingInv'
<1>1. CASE ReadHalfHeader
  <2>1. NullMessage # ClosedMessage
    <3>1. NullMessage.type = "null" /\ ClosedMessage.type = "closed"
      BY DEF NullMessage, ClosedMessage
    <3>2. QED
      BY <3>1
  <2>2. <<>> \in Seq(Byte)
    OBVIOUS
  <2>3. /\ data = <<>> /\ stream' = <<>> /\ got' = Append(got, NullMessage)
        /\ UNCHANGED <<sent, written, open, lost, data>>
    BY <1>1 DEF ReadHalfHeader
  <2>4. QED
    BY <2>1, <2>2, <2>3, EndStep
<1>2. CASE ReadClosed
  <2>1. stream \in Seq(Byte)
    BY DEF FramingInv, Types
  <2>2. /\ data = <<>> /\ stream = <<>> /\ written = <<>> /\ ~open
        /\ stream' = stream /\ got' = Append(got, ClosedMessage)
        /\ UNCHANGED <<sent, written, open, lost, data>>
    BY <1>2 DEF ReadClosed
  <2>3. QED
    BY <2>1, <2>2, EndStep
<1>3. QED
  BY <1>1, <1>2

LEMMA FramingNext == FramingInv /\ [Next]_vars => FramingInv'
<1>1. SUFFICES ASSUME FramingInv, [Next]_vars
               PROVE  FramingInv'
  OBVIOUS
<1>2. ASSUME NEW m \in Messages, SendMsg(m)
      PROVE  FramingInv'
  BY <1>1, <1>2, SendMsgStep
<1>3. CASE Close
  BY <1>1, <1>3, CloseStep
<1>4. CASE Die
  BY <1>1, <1>4, DieStep
<1>5. ASSUME NEW where \in Pieces, Deliver(where)
      PROVE  FramingInv'
  BY <1>1, <1>5, DeliverStep
<1>6. CASE ReadHeader
  BY <1>1, <1>6, ReadHeaderStep
<1>7. CASE ReadHalfHeader \/ ReadClosed
  BY <1>1, <1>7, ReadEndStep
<1>8. CASE ReadRest
  BY <1>1, <1>8, ReadRestStep
<1>9. CASE DecodeMsg
  BY <1>1, <1>9, DecodeMsgStep
<1>10. CASE UNCHANGED vars
  BY <1>1, <1>10 DEF vars, FramingInv, Types, Ended
<1>11. QED
  BY <1>1, <1>2, <1>3, <1>4, <1>5, <1>6, <1>7, <1>8, <1>9, <1>10 DEF Next, RecvMsg

(* Sender, socket and recvMsg() together, whatever is sent, wherever the     *)
(* socket cuts the stream and whenever the sender goes.                      *)
THEOREM FramingInvariance == Spec => []FramingInv
<1>1. Init => FramingInv
  BY FramingStart
<1>2. FramingInv /\ [Next]_vars => FramingInv'
  BY FramingNext
<1>3. QED
  BY <1>1, <1>2, PTL DEF Spec

(* What recvMsg() returns is of a type decode() makes, closed or null. *)
THEOREM FramingTypeCorrect == Spec => []TypeOK
<1>1. FramingInv => TypeOK
  <2>1. SUFFICES ASSUME Types
                 PROVE  TypeOK
    BY DEF FramingInv
  <2>2. ASSUME NEW i \in DOMAIN got
        PROVE  got[i].type \in DOMAIN TypeCode \cup {"null"}
    <3>1. got[i] \in Received
      BY <2>1 DEF Types
    <3>2. ClosedMessage.type \in DOMAIN TypeCode /\ NullMessage.type = "null"
      BY DEF ClosedMessage, NullMessage, TypeCode
    <3>3. \A m \in SentMessages : Expected(m).type \in DOMAIN TypeCode
      BY ExpectedType
    <3>4. QED
      BY <3>1, <3>2, <3>3 DEF Received
  <2>3. QED
    BY <2>1, <2>2 DEF Types, TypeOK
<1>2. QED
  BY <1>1, FramingInvariance, PTL

(* The receiver gets the messages that were sent, in order: recvMsg() does   *)
(* not lose its place while every header comes whole.                        *)
THEOREM InSyncHolds == Spec => []InSync
<1>1. FramingInv => InSync
  BY DEF FramingInv, Matches, InSync
<1>2. QED
  BY <1>1, FramingInvariance, PTL

===============================================================================
