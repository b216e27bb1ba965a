---------------------------- MODULE MessagesProofs ----------------------------
(***************************************************************************)
(* Numbers, texts and commands survive the way from one program to         *)
(* another: what the listener of a port reads is what its client meant,    *)
(* and what a client reads is what the server answered.                    *)
(***************************************************************************)
EXTENDS Messages, SequenceTheorems, WellFoundedInduction, TLAPS

\* The texts that a frame can hold
Longest == 2147483000
Texts == {text \in Seq(Characters) : Len(text) <= Longest}

\* The quotients by which IntToByte cuts a number put it together again.
LEMMA Quotients ==
  ASSUME NEW n \in Int32
  PROVE  /\ n \div 256 = 256 * (n \div 65536) + ((n \div 256) % 256)
         /\ n \div 65536 = 256 * (n \div 16777216) + ((n \div 65536) % 256)
         /\ n = 256 * (n \div 256) + (n % 256)
         /\ n \div 16777216 \in -128 .. 127
<1>1. n \in Int /\ -2147483648 <= n /\ n <= 2147483647
  BY SMT DEF Int32
<1>2. n = 256 * (n \div 256) + (n % 256)
  BY SMT, <1>1
<1>3. n \div 256 = 256 * (n \div 65536) + ((n \div 256) % 256)
  BY SMT, <1>1
<1>4. n \div 65536 = 256 * (n \div 16777216) + ((n \div 65536) % 256)
  BY SMT, <1>1
<1>5. n \div 16777216 \in -128 .. 127
  BY SMT, <1>1
<1> QED BY SMT, <1>2, <1>3, <1>4, <1>5

\* An int written by IntToByte is four bytes, ...
THEOREM FourBytes ==
  ASSUME NEW n \in Int32
  PROVE  IntToByte(n) \in [1 .. 4 -> Byte]
<1>1. n \in Int
  BY SMT DEF Int32
<1>2. /\ n \div 256 \in Int /\ n \div 65536 \in Int /\ n \div 16777216 \in Int
  BY SMT, <1>1
<1>3. \A k \in Int : k % 256 \in Byte
  BY SMT DEF Byte
<1> QED BY SMT, <1>1, <1>2, <1>3 DEF IntToByte

\* Four bytes put together as the readers do make the number they were cut from.
LEMMA Recomposed ==
  ASSUME NEW n \in Int32
  PROVE  signed((n \div 16777216) % 256) * 16777216 + ((n \div 65536) % 256) * 65536
           + ((n \div 256) % 256) * 256 + (n % 256) = n
<1> DEFINE a == n \div 16777216
           b == n \div 65536
           c == n \div 256
<1>1. n \in Int
  BY SMT DEF Int32
<1>2. /\ a \in -128 .. 127 /\ b \in Int /\ c \in Int
  BY SMT, <1>1, Quotients
<1>3. a % 256 = IF a < 0 THEN a + 256 ELSE a
  BY SMT, <1>2
<1>4. signed(a % 256) = a
  BY SMT, <1>2, <1>3 DEF signed
<1>5. b = 256 * a + (b % 256) /\ c = 256 * b + (c % 256) /\ n = 256 * c + (n % 256)
  BY SMT, Quotients
<1>6. b % 256 \in Int /\ c % 256 \in Int /\ n % 256 \in Int
  BY SMT, <1>1, <1>2
<1> HIDE DEF a, b, c
<1>7. signed(a % 256) * 16777216 + (b % 256) * 65536 + (c % 256) * 256 + (n % 256) = n
  BY SMT, <1>1, <1>2, <1>4, <1>5, <1>6
<1> QED BY SMT, <1>7 DEF a, b, c

\* ... and ByteToInt reads back the number that was written, negative ones too.
THEOREM IntRoundTrip ==
  ASSUME NEW n \in Int32
  PROVE  ByteToInt(IntToByte(n), 0) = n
BY SMT, Recomposed DEF ByteToInt, IntToByte

\* The length before a message is read as it was written.
THEOREM LengthRoundTrip ==
  ASSUME NEW n \in Int32
  PROVE  byteListToIntLittleEndian(intToByteListLittleEndian(n)) = n
BY SMT, Recomposed DEF byteListToIntLittleEndian, intToByteListLittleEndian

-----------------------------------------------------------------------------
(* Induction, for what can be written as a set of numbers *)

\* Among any numbers there is a least one.
LEMMA LeastNatural ==
  ASSUME NEW T \in SUBSET Nat, T # {}
  PROVE  \E m \in T : \A k \in T : m <= k
<1> DEFINE R == OpToRel(<, Nat)
<1>1. IsWellFoundedOn(R, Nat)
  BY NatLessThanWellFounded
<1>2. R = {ss \in Nat \X Nat : ss[1] < ss[2]}
  BY DEF OpToRel
<1> HIDE DEF R
<1>3. \E m \in T : \A k \in T : ~(<<k, m>> \in R)
  BY <1>1, WFMin
<1>4. ASSUME NEW k \in Nat, NEW m \in Nat, ~(<<k, m>> \in R) PROVE m <= k
  BY <1>2, <1>4
<1> QED BY <1>3, <1>4

\* What holds of 0 and of the successor of every number it holds of, holds of all.
LEMMA Induction ==
  ASSUME NEW T, 0 \in T, \A n \in Nat : n \in T => n + 1 \in T
  PROVE  Nat \subseteq T
<1> SUFFICES ASSUME Nat \ T # {} PROVE FALSE
  OBVIOUS
<1>1. PICK m \in Nat \ T : \A k \in Nat \ T : m <= k
  BY LeastNatural
<1>2. m - 1 \in Nat /\ m - 1 \in T
  BY <1>1
<1> QED BY <1>1, <1>2

\* The elements of sequences of one element each
LEMMA FlattenSingles ==
  ASSUME NEW S, NEW s \in Seq(S)
  PROVE  FlattenSeq([i \in 1 .. Len(s) |-> << s[i] >>]) = s
<1> DEFINE q == [i \in 1 .. Len(s) |-> << s[i] >>]
           step(f) == [i \in 1 .. Len(q) |-> IF i = 1 THEN q[i] ELSE f[i - 1] \o q[i]]
           flat == CHOOSE f : f = step(f)
<1>1. Len(s) \in Nat /\ Len(q) = Len(s) /\ s \in [1 .. Len(s) -> S]
  OBVIOUS
<1>2. ASSUME NEW i \in 1 .. Len(s) PROVE
        /\ i # 1 => SubSeq(s, 1, i - 1) \o << s[i] >> = SubSeq(s, 1, i)
        /\ i = 1 => << s[i] >> = SubSeq(s, 1, i)
  <2>1. \A j \in 1 .. Len(s) : s[j] \in S
    BY <1>1
  <2>2. SubSeq(s, 1, i) \in Seq(S) /\ Len(SubSeq(s, 1, i)) = i /\ \A j \in 1 .. i : SubSeq(s, 1, i)[j] = s[j]
    BY <1>1, <2>1, SubSeqProperties
  <2>3. CASE i = 1
    <3>1. << s[i] >> \in Seq(S) /\ Len(<< s[i] >>) = 1 /\ << s[i] >>[1] = s[i]
      BY <2>1
    <3> DEFINE a == << s[i] >> 
               b == SubSeq(s, 1, i)
    <3>2. a \in Seq(S) /\ b \in Seq(S) /\ Len(a) = Len(b) /\ \A j \in 1 .. Len(a) : a[j] = b[j]
      BY <2>2, <2>3, <3>1
    <3> HIDE DEF a, b
    <3>3. a = b
      BY <3>2, SeqEqual
    <3> QED BY <2>3, <3>3 DEF a, b
  <2>4. CASE i # 1
    <3> DEFINE p == SubSeq(s, 1, i - 1)
               a == p \o << s[i] >> 
               b == SubSeq(s, 1, i)
    <3>1. p \in Seq(S) /\ Len(p) = i - 1 /\ \A j \in 1 .. i - 1 : p[j] = s[j]
      BY <1>1, <2>1, <2>4, SubSeqProperties
    <3> HIDE DEF p
    <3>2. a \in Seq(S) /\ Len(a) = i /\ \A j \in 1 .. i : a[j] = s[j]
      <4>1. << s[i] >> \in Seq(S)
        BY <2>1
      <4> QED BY <1>1, <2>4, <3>1, <4>1
    <3>3. a \in Seq(S) /\ b \in Seq(S) /\ Len(a) = Len(b) /\ \A j \in 1 .. Len(a) : a[j] = b[j]
      BY <2>2, <3>2
    <3> HIDE DEF a, b
    <3>4. a = b
      BY <3>3, SeqEqual
    <3> QED BY <2>4, <3>4 DEF a, b, p
  <2> QED BY <2>3, <2>4
<1>3. flat = step(flat)
  <2> DEFINE g == [i \in 1 .. Len(s) |-> SubSeq(s, 1, i)]
  <2>1. g = step(g)
    <3>1. ASSUME NEW i \in 1 .. Len(s)
          PROVE  g[i] = IF i = 1 THEN q[i] ELSE g[i - 1] \o q[i]
      <4>1. g[i] = SubSeq(s, 1, i) /\ q[i] = << s[i] >>
        OBVIOUS
      <4>2. i # 1 => i - 1 \in 1 .. Len(s) /\ g[i - 1] = SubSeq(s, 1, i - 1)
        BY <1>1
      <4> HIDE DEF g, q
      <4> QED BY <1>2, <4>1, <4>2
    <3> QED BY <1>1, <3>1
  <2>2. \E f : f = step(f)
    BY <2>1
  <2> HIDE DEF step
  <2> QED BY <2>2
<1>4. CASE Len(s) = 0
  <2>1. s = <<>> /\ q = <<>>
    BY <1>1, <1>4
  <2> QED BY <1>4, <2>1 DEF FlattenSeq
<1>5. CASE Len(s) # 0
  <2>1. FlattenSeq(q) = flat[Len(q)]
    BY <1>1, <1>5 DEF FlattenSeq
  <2> HIDE DEF flat
  <2> DEFINE T == {i \in Nat : i \in 1 .. Len(s) => flat[i] = SubSeq(s, 1, i)}
  <2>2. \A i \in 1 .. Len(s) : flat[i] = IF i = 1 THEN << s[i] >> ELSE flat[i - 1] \o << s[i] >>
    BY <1>1, <1>3
  <2>3. 0 \in T
    OBVIOUS
  <2>4. ASSUME NEW n \in Nat, n \in T PROVE n + 1 \in T
    <3>1. CASE n + 1 \in 1 .. Len(s) /\ n # 0
      <4>1. n \in 1 .. Len(s) /\ n + 1 # 1 /\ (n + 1) - 1 = n
        BY <1>1, <3>1
      <4>2. flat[n] = SubSeq(s, 1, n)
        BY <2>4, <4>1
      <4>3. flat[n + 1] = flat[n] \o << s[n + 1] >>
        BY <2>2, <3>1, <4>1
      <4>4. flat[n + 1] = SubSeq(s, 1, n + 1)
        BY <1>2, <3>1, <4>1, <4>2, <4>3
      <4> QED BY <4>4
    <3>2. CASE n = 0 /\ n + 1 \in 1 .. Len(s)
      <4>1. 1 \in 1 .. Len(s)
        BY <3>2
      <4>2. flat[1] = << s[1] >>
        BY <2>2, <4>1
      <4>3. flat[1] = SubSeq(s, 1, 1)
        BY <1>2, <4>1, <4>2
      <4> QED BY <3>2, <4>3
    <3>3. CASE n + 1 \notin 1 .. Len(s)
      BY <3>3
    <3> QED BY <3>1, <3>2, <3>3
  <2> HIDE DEF T
  <2>5. Len(s) \in T
    BY <1>1, <2>3, <2>4, Induction
  <2>6. flat[Len(s)] = SubSeq(s, 1, Len(s))
    BY <1>1, <1>5, <2>5 DEF T
  <2> QED BY <1>1, <2>1, <2>6, SubSeqFull
<1> QED BY <1>4, <1>5

-----------------------------------------------------------------------------
(* Reading *)

\* What a sequence has behind another one
LEMMA Behind ==
  ASSUME NEW S, NEW p \in Seq(S), NEW r \in Seq(S)
  PROVE  /\ p \o r \in Seq(S) /\ Len(p \o r) = Len(p) + Len(r)
         /\ \A k \in 1 .. Len(r) : (p \o r)[Len(p) + k] = r[k]
         /\ \A k \in 1 .. Len(p) : (p \o r)[k] = p[k]
OBVIOUS

LEMMA IntBytes ==
  ASSUME NEW n \in Int32
  PROVE  /\ IntToByte(n) \in Seq(Int) /\ Len(IntToByte(n)) = 4
         /\ intToByteListLittleEndian(n) \in Seq(Int) /\ Len(intToByteListLittleEndian(n)) = 4
<1>1. n \in Int
  BY DEF Int32
<1>2. /\ n \div 256 \in Int /\ n \div 65536 \in Int /\ n \div 16777216 \in Int
  BY <1>1
<1>3. \A k \in Int : k % 256 \in Int
  OBVIOUS
<1> QED BY <1>1, <1>2, <1>3 DEF IntToByte, intToByteListLittleEndian

\* A reader finds a number where it was put.
LEMMA ReadInt ==
  ASSUME NEW p \in Seq(Int), NEW n \in Int32, NEW r \in Seq(Int)
  PROVE  ByteToInt(p \o (IntToByte(n) \o r), Len(p)) = n
<1> DEFINE b == IntToByte(n)
           m == p \o (b \o r)
<1>1. b \in Seq(Int) /\ Len(b) = 4 /\ ByteToInt(b, 0) = n
  BY IntBytes, IntRoundTrip
<1> HIDE DEF b
<1>2. b \o r \in Seq(Int) /\ Len(b \o r) = 4 + Len(r) /\ \A k \in 1 .. 4 : (b \o r)[k] = b[k]
  <2>1. /\ b \o r \in Seq(Int) /\ Len(b \o r) = Len(b) + Len(r)
        /\ \A k \in 1 .. Len(b) : (b \o r)[k] = b[k]
    BY ZenonT(30), <1>1, Behind
  <2> QED BY <1>1, <2>1
<1>3. \A k \in 1 .. 4 : m[Len(p) + k] = b[k]
  <2>1. \A k \in 1 .. Len(b \o r) : m[Len(p) + k] = (b \o r)[k]
    BY SMTT(30), <1>2, Behind
  <2>2. Len(r) \in Nat /\ Len(b \o r) \in Nat
    BY <1>2
  <2>3. \A k \in 1 .. 4 : k \in 1 .. Len(b \o r)
    BY <1>2, <2>2
  <2> HIDE DEF m
  <2> QED BY <1>2, <2>1, <2>3
<1> HIDE DEF m
<1>4. m[Len(p) + 1] = b[1] /\ m[Len(p) + 2] = b[2] /\ m[Len(p) + 3] = b[3] /\ m[Len(p) + 4] = b[4]
  BY <1>3
<1>5. b[0 + 1] = b[1] /\ b[0 + 2] = b[2] /\ b[0 + 3] = b[3] /\ b[0 + 4] = b[4]
  OBVIOUS
<1>6. ByteToInt(m, Len(p)) = n
  BY <1>1, <1>4, <1>5 DEF ByteToInt
<1> QED BY <1>6 DEF m, b

\* The last part of a message
LEMMA Rest ==
  ASSUME NEW p \in Seq(Int), NEW r \in Seq(Int)
  PROVE  /\ after(p \o r, Len(p)) = r
         /\ SubSeq(p \o r, Len(p) + 1, Len(p) + Len(r)) = r
<1>1. SubSeq(p \o r, Len(p) + 1, Len(p) + Len(r)) = r
  <2> DEFINE t == SubSeq(p \o r, Len(p) + 1, Len(p) + Len(r))
  <2>1. Len(p) \in Nat /\ Len(r) \in Nat /\ \A k \in 1 .. Len(r) : r[k] \in Int
    OBVIOUS
  <2>2. \A k \in Len(p) + 1 .. Len(p) + Len(r) :
          (p \o r)[k] = r[k - Len(p)] /\ k - Len(p) \in 1 .. Len(r)
    OBVIOUS
  <2>3. t \in Seq(Int) /\ Len(t) = Len(r) /\ \A k \in 1 .. Len(r) : t[k] = r[k]
    <3>1. /\ t \in Seq(Int)
          /\ Len(t) = IF Len(p) + 1 <= Len(p) + Len(r) THEN (Len(p) + Len(r)) - (Len(p) + 1) + 1 ELSE 0
          /\ \A k \in 1 .. (Len(p) + Len(r)) - (Len(p) + 1) + 1 : t[k] = (p \o r)[Len(p) + 1 + k - 1]
      BY <2>1, <2>2, SubSeqProperties
    <3> HIDE DEF t
    <3>2. ASSUME NEW k \in 1 .. Len(r) PROVE t[k] = (p \o r)[Len(p) + k]
      <4>1. Len(p) + 1 + k - 1 = Len(p) + k /\ k \in 1 .. (Len(p) + Len(r)) - (Len(p) + 1) + 1
        BY <2>1
      <4>2. t[k] = (p \o r)[Len(p) + 1 + k - 1]
        BY <3>1, <4>1
      <4> QED BY <4>1, <4>2
    <3>3. \A k \in 1 .. Len(r) : t[k] = r[k]
      BY <2>1, <3>2, Behind
    <3> QED BY <2>1, <3>1, <3>3
  <2> HIDE DEF t
  <2>4. t = r
    BY <2>3, SeqEqual
  <2> QED BY <2>4 DEF t
<1>2. Len(p \o r) = Len(p) + Len(r)
  OBVIOUS
<1> QED BY <1>1, <1>2 DEF after, subList

LEMMA Joined ==
  ASSUME NEW a \in Seq(Int), NEW b \in Seq(Int)
  PROVE  /\ a \o b \in Seq(Int) /\ Len(a \o b) = Len(a) + Len(b)
         /\ Len(a) \in Nat /\ Len(b) \in Nat
OBVIOUS

LEMMA Regroup ==
  ASSUME NEW a \in Seq(Int), NEW b \in Seq(Int), NEW c \in Seq(Int)
  PROVE  (a \o b) \o c = a \o (b \o c)
BY ConcatAssociative

LEMMA TextBytes ==
  ASSUME NEW text \in Seq(Characters)
  PROVE  text \in Seq(Int) /\ \A k \in 1 .. Len(text) : text[k] \in Characters
<1>1. Characters \subseteq Int
  BY DEF Characters
<1> QED BY <1>1, SeqMonotonic, ElementOfSeq

\* A reader takes a text by the length in front of it.
LEMMA ReadText ==
  ASSUME NEW p \in Seq(Int), NEW text \in Seq(Characters), Len(text) \in Int32
  PROVE  StringAt(p \o constructStringMessageWithSize(text), Len(p)) = text
<1> DEFINE l == IntToByte(Len(text))
           m == p \o (l \o text)
<1>1. text \in Seq(Int) /\ l \in Seq(Int) /\ Len(l) = 4
  BY IntBytes, TextBytes
<1>2. ByteToInt(m, Len(p)) = Len(text)
  BY <1>1, ReadInt
<1>3. m = (p \o l) \o text /\ p \o l \in Seq(Int) /\ Len(p \o l) = Len(p) + 4
  <2> HIDE DEF l
  <2> QED BY <1>1, Regroup, Joined
<1>4. SubSeq(m, Len(p) + 4 + 1, Len(p) + 4 + Len(text)) = text
  <2> DEFINE q == p \o l
  <2> HIDE DEF q
  <2>1. SubSeq(q \o text, Len(q) + 1, Len(q) + Len(text)) = text
    BY <1>1, <1>3, Rest DEF q
  <2> QED BY <1>3, <2>1 DEF q
<1> HIDE DEF m
<1>5. Len(p) + 4 + 1 = Len(p) + 5 /\ Len(p) + 4 + Len(text) = Len(p) + 4 + ByteToInt(m, Len(p))
  BY <1>2
<1>6. StringAt(m, Len(p)) = text
  BY <1>4, <1>5 DEF StringAt
<1> QED BY <1>6 DEF m, l, constructStringMessageWithSize, StringToByte

\* A number behind its length
LEMMA ReadField ==
  ASSUME NEW n \in Int32, NEW p \in Seq(Int), NEW r \in Seq(Int)
  PROVE  /\ prepareIntegerMessageWithSize(n) \in Seq(Int)
         /\ Len(prepareIntegerMessageWithSize(n)) = 8
         /\ ByteToInt(p \o (prepareIntegerMessageWithSize(n) \o r), Len(p) + 4) = n
         /\ after(prepareIntegerMessageWithSize(n) \o r, 8) = r
<1> DEFINE f == IntToByte(4)
           b == IntToByte(n)
<1>1. 4 \in Int32
  BY SMT DEF Int32
<1>2. /\ f \in Seq(Int) /\ Len(f) = 4
      /\ b \in Seq(Int) /\ Len(b) = 4
  BY <1>1, IntBytes
<1>3. prepareIntegerMessageWithSize(n) = f \o b
  BY DEF prepareIntegerMessageWithSize, intToByteList
<1>4. ByteToInt((p \o f) \o (b \o r), Len(p \o f)) = n
  <2>1. p \o f \in Seq(Int)
    BY <1>2
  <2> QED BY <2>1, ReadInt
<1> HIDE DEF f, b
<1>5. f \o b \in Seq(Int) /\ Len(f \o b) = 8 /\ Len(p \o f) = Len(p) + 4
  <2>1. f \o b \in Seq(Int) /\ Len(f \o b) = Len(f) + Len(b)
    BY <1>2, Joined
  <2>2. Len(p \o f) = Len(p) + Len(f)
    BY <1>2, Joined
  <2> QED BY <1>2, <2>1, <2>2
<1>6. (p \o f) \o (b \o r) = p \o ((f \o b) \o r)
  <2>1. b \o r \in Seq(Int)
    BY <1>2
  <2>2. (p \o f) \o (b \o r) = p \o (f \o (b \o r))
    BY <1>2, <2>1, Regroup
  <2>3. f \o (b \o r) = (f \o b) \o r
    BY ZenonT(30), <1>2, Regroup
  <2> QED BY <2>2, <2>3
<1>7. after((f \o b) \o r, 8) = r
  <2> DEFINE q == f \o b
  <2> HIDE DEF q
  <2>1. after(q \o r, Len(q)) = r
    BY <1>5, Rest DEF q
  <2> QED BY <1>5, <2>1 DEF q
<1> QED BY <1>3, <1>4, <1>5, <1>6, <1>7

\* getBytes() of an ASCII text
LEMMA AsciiBytes ==
  ASSUME NEW text \in Seq(Characters)
  PROVE  stringToByteList(text) = text
<1>1. \A i \in 1 .. Len(text) : text[i] < 128
  <2>1. \A i \in 1 .. Len(text) : text[i] \in Characters
    BY TextBytes
  <2>2. \A x \in Characters : x < 128
    BY DEF Characters
  <2> QED BY <2>1, <2>2
<1>2. [i \in 1 .. Len(text) |-> IF text[i] < 128 THEN << text[i] >>
                                 ELSE << 192 + text[i] \div 64, 128 + (text[i] % 64) >>]
        = [i \in 1 .. Len(text) |-> << text[i] >>]
  BY <1>1
<1> QED BY <1>2, FlattenSingles DEF stringToByteList

\* A frame gives back what was put in it.
LEMMA FrameRoundTrip ==
  ASSUME NEW m \in Seq(Int), Len(m) \in Int32
  PROVE  Unframed(addPrefixMessageSize(m)) = m
<1> DEFINE l == intToByteListLittleEndian(Len(m))
           f == l \o m
<1>1. l \in Seq(Int) /\ Len(l) = 4 /\ parse(l) = Len(m)
  BY IntBytes, LengthRoundTrip DEF parse
<1> HIDE DEF l
<1>2. f[1] = l[1] /\ f[2] = l[2] /\ f[3] = l[3] /\ f[4] = l[4]
  <2>1. \A k \in 1 .. Len(l) : f[k] = l[k]
    BY ZenonT(30), <1>1, Behind
  <2> HIDE DEF f
  <2> QED BY <1>1, <2>1
<1>3. SubSeq(f, 4 + 1, 4 + Len(m)) = m
  <2>1. SubSeq(f, Len(l) + 1, Len(l) + Len(m)) = m
    BY <1>1, Rest
  <2> HIDE DEF f
  <2> QED BY <1>1, <2>1
<1> HIDE DEF f
<1>4. parse(f) = Len(m)
  BY <1>1, <1>2 DEF parse, byteListToIntLittleEndian
<1>5. subList(f, 4, 4 + parse(f)) = m
  BY <1>3, <1>4 DEF subList
<1> QED BY <1>5 DEF Unframed, addPrefixMessageSize, f, l

-----------------------------------------------------------------------------
(* Commands *)

\* The fields of a message are written and read in the same way in both codecs.
LEMMA AdministratorFields ==
  /\ \A n : Administrator!prepareIntegerMessageWithSize(n) = prepareIntegerMessageWithSize(n)
  /\ \A text : Administrator!prepareStringMessageWithSize(text)
                = IntToByte(Len(text)) \o stringToByteList(text)
  /\ \A m, k : /\ Administrator!ByteToInt(m, k) = ByteToInt(m, k)
               /\ Administrator!StringAt(m, k) = StringAt(m, k)
               /\ Administrator!after(m, k) = after(m, k)
<1>1. \A m, k : Administrator!ByteToInt(m, k) = ByteToInt(m, k)
  BY DEF Administrator!ByteToInt, Administrator!signed, ByteToInt, signed
<1>2. \A n : Administrator!IntToByte(n) = IntToByte(n)
  BY DEF Administrator!IntToByte, IntToByte
<1>3. \A text : Administrator!stringToByteList(text) = stringToByteList(text)
  BY DEF Administrator!stringToByteList, stringToByteList, Administrator!FlattenSeq, FlattenSeq
<1>4. \A m, k : Administrator!StringAt(m, k) = StringAt(m, k)
  BY <1>1 DEF Administrator!StringAt, StringAt
<1>5. \A m, k : Administrator!after(m, k) = after(m, k)
  BY DEF Administrator!after, after, Administrator!subList, subList
<1>6. \A n : Administrator!prepareIntegerMessageWithSize(n) = prepareIntegerMessageWithSize(n)
  BY <1>2 DEF Administrator!prepareIntegerMessageWithSize, prepareIntegerMessageWithSize,
       Administrator!intToByteList, intToByteList
<1>7. \A text : Administrator!prepareStringMessageWithSize(text)
                = IntToByte(Len(text)) \o stringToByteList(text)
  BY <1>2, <1>3 DEF Administrator!prepareStringMessageWithSize, Administrator!intToByteList
<1> QED BY <1>1, <1>4, <1>5, <1>6, <1>7

LEMMA MonitoringFields ==
  /\ \A n : Monitoring!prepareIntegerMessageWithSize(n) = prepareIntegerMessageWithSize(n)
  /\ \A n : Monitoring!intToByteListLittleEndian(n) = intToByteListLittleEndian(n)
  /\ \A m, k : Monitoring!ByteToInt(m, k) = ByteToInt(m, k)
<1>1. \A m, k : Monitoring!ByteToInt(m, k) = ByteToInt(m, k)
  BY DEF Monitoring!ByteToInt, Monitoring!signed, ByteToInt, signed
<1>2. \A n : Monitoring!prepareIntegerMessageWithSize(n) = prepareIntegerMessageWithSize(n)
  BY DEF Monitoring!prepareIntegerMessageWithSize, prepareIntegerMessageWithSize,
       Monitoring!intToByteList, intToByteList, Monitoring!IntToByte, IntToByte
<1>3. \A n : Monitoring!intToByteListLittleEndian(n) = intToByteListLittleEndian(n)
  BY DEF Monitoring!intToByteListLittleEndian, intToByteListLittleEndian
<1> QED BY <1>1, <1>2, <1>3

\* The numbers that name a command, its sensor or its span
LEMMA SmallNumbers ==
  /\ \A n \in 0 .. 200 : n \in Int32
  /\ \A n \in Int32 : n \in Int
BY SMT DEF Int32

LEMMA Fits ==
  Longest \in Nat /\ \A n \in Nat : n <= Longest + 200 => n \in Int32
BY SMT DEF Longest, Int32

\* A command of one field, then others
LEMMA ReadType ==
  ASSUME NEW n \in Int32, NEW r \in Seq(Int)
  PROVE  /\ ByteToInt(prepareIntegerMessageWithSize(n) \o r, 4) = n
         /\ after(prepareIntegerMessageWithSize(n) \o r, 8) = r
<1> DEFINE f == prepareIntegerMessageWithSize(n)
<1>1. <<>> \in Seq(Int) /\ Len(<<>>) = 0
  OBVIOUS
<1>2. f \in Seq(Int) /\ ByteToInt(<<>> \o (f \o r), Len(<<>>) + 4) = n /\ after(f \o r, 8) = r
  BY <1>1, ReadField
<1> HIDE DEF f
<1>3. <<>> \o (f \o r) = f \o r
  BY <1>2, Joined, ConcatEmptySeq
<1> QED BY <1>1, <1>2, <1>3 DEF f

\* The listener of the administrator's port reads every command as the client gave
\* it (CommunicationManager, ConnectionUtil, SerializerAdministratorMessage).
THEOREM AdministratorCommandRead ==
  ASSUME NEW command \in AdministratorCommands(Int32, Texts)
  PROVE  CommandRead("administrator", command) = command
<1> DEFINE P(n) == prepareIntegerMessageWithSize(n)
           S(text) == constructStringMessageWithSize(text)
           m == Administrator!prepareMessage(command)
           Good == m \in Seq(Int) /\ Len(m) \in Int32 /\ Administrator!analyzeMessage(m) = command
<1>1. \A n \in Int32 : P(n) \in Seq(Int) /\ Len(P(n)) = 8
  <2>1. <<>> \in Seq(Int)
    OBVIOUS
  <2> QED BY <2>1, ReadField
<1>2. ASSUME NEW text \in Texts
      PROVE  /\ Administrator!prepareStringMessageWithSize(text) = S(text)
             /\ S(text) \in Seq(Int) /\ Len(S(text)) = 4 + Len(text)
             /\ Len(text) \in 0 .. Longest
             /\ \A p \in Seq(Int) : StringAt(p \o S(text), Len(p)) = text
  <2>1. text \in Seq(Characters) /\ Len(text) \in 0 .. Longest /\ Len(text) \in Int32
    <3>1. text \in Seq(Characters) /\ Len(text) \in Nat /\ Len(text) <= Longest
      BY DEF Texts
    <3> QED BY <3>1, Fits
  <2>2. IntToByte(Len(text)) \in Seq(Int) /\ Len(IntToByte(Len(text))) = 4 /\ text \in Seq(Int)
    BY <2>1, IntBytes, TextBytes
  <2>3. S(text) \in Seq(Int) /\ Len(S(text)) = 4 + Len(text)
    BY <2>2, Joined DEF constructStringMessageWithSize, StringToByte
  <2>4. Administrator!prepareStringMessageWithSize(text) = S(text)
    BY <2>1, AdministratorFields, AsciiBytes DEF constructStringMessageWithSize, StringToByte
  <2>5. \A p \in Seq(Int) : StringAt(p \o S(text), Len(p)) = text
    BY <2>1, ReadText
  <2> QED BY <2>1, <2>3, <2>4, <2>5
<1>3. Good => CommandRead("administrator", command) = command
  <2>1. ASSUME Good PROVE Unframed(addPrefixMessageSize(m)) = m
    BY <2>1, FrameRoundTrip
  <2> QED BY <2>1 DEF CommandRead
<1>4. <<>> \in Seq(Int) /\ Len(<<>>) = 0
  OBVIOUS
<1> HIDE DEF P, S
<1>5. ASSUME NEW n \in 0 .. 4, NEW r \in Seq(Int), Len(r) <= Longest + 100
      PROVE  /\ P(n) \o r \in Seq(Int) /\ Len(P(n) \o r) \in Int32
             /\ Administrator!ByteToInt(P(n) \o r, 4) = n
             /\ Administrator!after(P(n) \o r, 8) = r
  <2>1. n \in Int32 /\ P(n) \in Seq(Int) /\ Len(P(n)) = 8
    <3>1. n \in Int32
      <4>1. n \in 0 .. 200
        OBVIOUS
      <4> QED BY <4>1, SmallNumbers
    <3> QED BY <1>1, <3>1
  <2>2. P(n) \o r \in Seq(Int) /\ Len(P(n) \o r) = 8 + Len(r) /\ Len(r) \in Nat
    <3>1. /\ P(n) \o r \in Seq(Int) /\ Len(P(n) \o r) = Len(P(n)) + Len(r)
          /\ Len(r) \in Nat
      BY <2>1, Joined
    <3> QED BY <2>1, <3>1
  <2>3. Len(P(n) \o r) \in Int32
    BY <1>5, <2>2, Fits
  <2> QED BY <2>1, <2>2, <2>3, ReadType, AdministratorFields DEF P
<1>6. ASSUME NEW id \in Int32
      PROVE  /\ P(id) \o <<>> = P(id) /\ Len(P(id)) <= Longest + 100
             /\ Administrator!ByteToInt(P(id), 4) = id
  <2>1. P(id) \o <<>> = P(id)
    BY <1>1, ConcatEmptySeq
  <2>2. ByteToInt(P(id) \o <<>>, 4) = id
    BY <1>4, ReadType DEF P
  <2>3. Len(P(id)) <= Longest + 100
    <3>1. Len(P(id)) = 8
      BY <1>1
    <3>2. Longest \in Nat
      BY Fits
    <3> QED BY <3>1, <3>2
  <2> QED BY <2>1, <2>2, <2>3, AdministratorFields
<1>7. \A n : Administrator!prepareIntegerMessageWithSize(n) = P(n)
  BY AdministratorFields DEF P
<1>8. CASE command \in [type : {Administrator!GET_ALL_SENSORS}]
  <2>1. command = [type |-> 0] /\ m = P(0)
    BY <1>7, <1>8 DEF Administrator!GET_ALL_SENSORS, Administrator!UPDATE_SENSOR_NAME,
         Administrator!REVOKE_SENSOR, Administrator!DISCONNECT_SENSOR, Administrator!GENERATE_TOKEN,
         Administrator!prepareMessage, Administrator!prepareMessageGetAllSensors
  <2>2. 0 \in Int32 /\ P(0) \o <<>> = P(0)
    BY <1>6, SmallNumbers
  <2>3. m \in Seq(Int) /\ Len(m) \in Int32 /\ Administrator!ByteToInt(m, 4) = 0
    <3>1. 0 \in 0 .. 4 /\ Len(<<>>) <= Longest + 100
      BY <1>4, Fits
    <3>2. P(0) \o <<>> \in Seq(Int) /\ Len(P(0) \o <<>>) \in Int32 /\ Administrator!ByteToInt(P(0) \o <<>>, 4) = 0
      BY <1>4, <1>5, <3>1
    <3> QED BY <2>1, <2>2, <3>2
  <2>4. Administrator!analyzeMessage(m) = [type |-> 0]
    BY <2>3 DEF Administrator!analyzeMessage, Administrator!GET_ALL_SENSORS,
         Administrator!UPDATE_SENSOR_NAME, Administrator!REVOKE_SENSOR,
         Administrator!DISCONNECT_SENSOR, Administrator!GENERATE_TOKEN
  <2> QED BY <1>3, <2>1, <2>3, <2>4
<1>9. CASE command \in [type : {Administrator!UPDATE_SENSOR_NAME}, id : Int32, name : Texts]
  <2> DEFINE id == command.id
             name == command.name
             r == P(id) \o S(name)
  <2>1. command = [type |-> 1, id |-> id, name |-> name] /\ id \in Int32 /\ name \in Texts
    BY <1>9 DEF Administrator!UPDATE_SENSOR_NAME
  <2>2. m = (P(1) \o P(id)) \o S(name)
    <3>1. Administrator!prepareStringMessageWithSize(name) = S(name)
      BY <1>2, <2>1
    <3>2. m = Administrator!prepareMessageUpdateSensorName(id, name)
      BY <2>1 DEF Administrator!GET_ALL_SENSORS, Administrator!UPDATE_SENSOR_NAME,
           Administrator!REVOKE_SENSOR, Administrator!DISCONNECT_SENSOR, Administrator!GENERATE_TOKEN,
           Administrator!prepareMessage
    <3> QED BY <1>7, <3>1, <3>2 DEF Administrator!prepareMessageUpdateSensorName,
              Administrator!UPDATE_SENSOR_NAME
  <2>3. /\ P(1) \in Seq(Int) /\ P(id) \in Seq(Int) /\ S(name) \in Seq(Int)
        /\ Len(P(id)) = 8 /\ Len(S(name)) <= Longest + 4 /\ Len(S(name)) \in Nat
    <3>1. Len(name) \in 0 .. Longest /\ Len(S(name)) = 4 + Len(name) /\ S(name) \in Seq(Int)
      BY <1>2, <2>1
    <3>2. 1 \in Int32
      BY SmallNumbers
    <3> QED BY <1>1, <2>1, <3>1, <3>2, Fits
  <2> HIDE DEF id, name
  <2>4. m = P(1) \o r /\ r \in Seq(Int) /\ Len(r) <= Longest + 100
    <3>1. m = P(1) \o r
      BY <2>2, <2>3, Regroup
    <3>2. r \in Seq(Int) /\ Len(r) = Len(P(id)) + Len(S(name))
      BY <2>3, Joined
    <3> QED BY <2>3, <3>1, <3>2, Fits
  <2>5. ByteToInt(r, 4) = id
    BY <2>1, <2>3, ReadType DEF P
  <2>6. StringAt(r, 8) = name
    BY <1>2, <2>1, <2>3
  <2> HIDE DEF r
  <2>7. m \in Seq(Int) /\ Len(m) \in Int32 /\ Administrator!ByteToInt(m, 4) = 1 /\ Administrator!after(m, 8) = r
    BY <1>5, <2>4
  <2>8. Administrator!analyzeUpdateSensorName(r) = [type |-> 1, id |-> id, name |-> name]
    BY <2>5, <2>6, AdministratorFields DEF Administrator!analyzeUpdateSensorName, Administrator!UPDATE_SENSOR_NAME
  <2> HIDE DEF m
  <2>9. Administrator!analyzeMessage(m) = [type |-> 1, id |-> id, name |-> name]
    BY <2>7, <2>8 DEF Administrator!analyzeMessage, Administrator!GET_ALL_SENSORS,
         Administrator!UPDATE_SENSOR_NAME, Administrator!REVOKE_SENSOR,
         Administrator!DISCONNECT_SENSOR, Administrator!GENERATE_TOKEN
  <2> QED BY <1>3, <2>1, <2>7, <2>9
<1>10. CASE command \in [type : {Administrator!REVOKE_SENSOR, Administrator!DISCONNECT_SENSOR}, id : Int32]
  <2> DEFINE id == command.id
             n == command.type
  <2>1. command = [type |-> n, id |-> id] /\ id \in Int32 /\ n \in {2, 3} /\ n \in 0 .. 4
    BY <1>10 DEF Administrator!REVOKE_SENSOR, Administrator!DISCONNECT_SENSOR
  <2>2. m = P(n) \o P(id)
    <3>1. CASE n = 2
      BY <1>7, <3>1 DEF Administrator!GET_ALL_SENSORS, Administrator!UPDATE_SENSOR_NAME,
           Administrator!REVOKE_SENSOR, Administrator!DISCONNECT_SENSOR, Administrator!GENERATE_TOKEN,
           Administrator!prepareMessage, Administrator!prepareMessageRevokeSensor
    <3>2. CASE n = 3
      BY <1>7, <3>2 DEF Administrator!GET_ALL_SENSORS, Administrator!UPDATE_SENSOR_NAME,
           Administrator!REVOKE_SENSOR, Administrator!DISCONNECT_SENSOR, Administrator!GENERATE_TOKEN,
           Administrator!prepareMessage, Administrator!prepareMessageDisconnectSensor
    <3> QED BY <2>1, <3>1, <3>2
  <2> HIDE DEF id, n
  <2>3. P(id) \in Seq(Int) /\ Len(P(id)) <= Longest + 100 /\ Administrator!ByteToInt(P(id), 4) = id
    BY <1>1, <1>6, <2>1
  <2>4. m \in Seq(Int) /\ Len(m) \in Int32 /\ Administrator!ByteToInt(m, 4) = n /\ Administrator!after(m, 8) = P(id)
    BY <1>5, <2>1, <2>2, <2>3
  <2> HIDE DEF m
  <2>5. Administrator!analyzeMessage(m) = [type |-> n, id |-> id]
    BY <2>1, <2>3, <2>4 DEF Administrator!analyzeMessage, Administrator!GET_ALL_SENSORS,
         Administrator!UPDATE_SENSOR_NAME, Administrator!REVOKE_SENSOR,
         Administrator!DISCONNECT_SENSOR, Administrator!GENERATE_TOKEN,
         Administrator!analyzeRevokeSensor, Administrator!analyzeDisconnectSensor
  <2> QED BY <1>3, <2>1, <2>4, <2>5
<1>11. CASE command \in [type : {Administrator!GENERATE_TOKEN}, name : Texts]
  <2> DEFINE name == command.name
             r == S(name)
  <2>1. command = [type |-> 4, name |-> name] /\ name \in Texts
    BY <1>11 DEF Administrator!GENERATE_TOKEN
  <2>2. m = P(4) \o r
    <3>1. Administrator!prepareStringMessageWithSize(name) = r
      BY <1>2, <2>1
    <3>2. m = Administrator!prepareMessageGenerateToken(name)
      BY <2>1 DEF Administrator!GET_ALL_SENSORS, Administrator!UPDATE_SENSOR_NAME,
           Administrator!REVOKE_SENSOR, Administrator!DISCONNECT_SENSOR, Administrator!GENERATE_TOKEN,
           Administrator!prepareMessage
    <3> QED BY <1>7, <3>1, <3>2 DEF Administrator!prepareMessageGenerateToken,
              Administrator!GENERATE_TOKEN
  <2>3. r \in Seq(Int) /\ Len(r) <= Longest + 100 /\ StringAt(<<>> \o r, 0) = name
    <3>1. Len(name) \in 0 .. Longest /\ Len(r) = 4 + Len(name) /\ r \in Seq(Int)
      BY <1>2, <2>1
    <3>2. StringAt(<<>> \o r, Len(<<>>)) = name
      BY <1>2, <1>4, <2>1
    <3> QED BY <1>4, <3>1, <3>2, Fits
  <2> HIDE DEF name, r
  <2>4. <<>> \o r = r
    BY <2>3, ConcatEmptySeq
  <2>5. m \in Seq(Int) /\ Len(m) \in Int32 /\ Administrator!ByteToInt(m, 4) = 4 /\ Administrator!after(m, 8) = r
    BY <1>5, <2>2, <2>3
  <2>6. Administrator!analyzeGenerateToken(r) = [type |-> 4, name |-> name]
    BY <2>3, <2>4, AdministratorFields DEF Administrator!analyzeGenerateToken, Administrator!GENERATE_TOKEN
  <2> HIDE DEF m
  <2>7. Administrator!analyzeMessage(m) = [type |-> 4, name |-> name]
    BY <2>5, <2>6 DEF Administrator!analyzeMessage, Administrator!GET_ALL_SENSORS,
         Administrator!UPDATE_SENSOR_NAME, Administrator!REVOKE_SENSOR,
         Administrator!DISCONNECT_SENSOR, Administrator!GENERATE_TOKEN
  <2> QED BY <1>3, <2>1, <2>5, <2>7
<1> QED BY <1>8, <1>9, <1>10, <1>11 DEF AdministratorCommands

\* The listener of the monitoring port reads every command as the client gave it,
\* past the length of its own that the client puts before it.
THEOREM MonitoringCommandRead ==
  ASSUME NEW command \in MonitoringCommands(Int32)
  PROVE  CommandRead("monitoring", command) = command
<1> DEFINE P(n) == prepareIntegerMessageWithSize(n)
           m == Monitoring!prepareMessage(command)
           Good == m \in Seq(Int) /\ Len(m) \in Int32 /\ Monitoring!analyzeMessage(m) = command
<1>1. \A n \in Int32 : P(n) \in Seq(Int) /\ Len(P(n)) = 8
  <2>1. <<>> \in Seq(Int)
    OBVIOUS
  <2> QED BY <2>1, ReadField
<1>2. Good => CommandRead("monitoring", command) = command
  <2>1. ASSUME Good PROVE Unframed(addPrefixMessageSize(m)) = m
    BY <2>1, FrameRoundTrip
  <2> QED BY <2>1 DEF CommandRead
<1>3. <<>> \in Seq(Int) /\ Len(<<>>) = 0
  OBVIOUS
<1>4. ASSUME NEW x \in Seq(Int), Len(x) \in 0 .. 100
      PROVE  /\ Monitoring!prefixMessageSize(x) = intToByteListLittleEndian(Len(x)) \o x
             /\ intToByteListLittleEndian(Len(x)) \in Seq(Int)
             /\ Len(intToByteListLittleEndian(Len(x))) = 4
             /\ Monitoring!prefixMessageSize(x) \in Seq(Int)
             /\ Len(Monitoring!prefixMessageSize(x)) \in Int32
  <2> DEFINE l == intToByteListLittleEndian(Len(x))
  <2>1. l \in Seq(Int) /\ Len(l) = 4
    <3>1. Len(x) \in 0 .. 200
      BY <1>4
    <3>2. Len(x) \in Int32
      BY <3>1, SmallNumbers
    <3> QED BY <3>2, IntBytes
  <2>2. Monitoring!prefixMessageSize(x) = l \o x
    BY MonitoringFields DEF Monitoring!prefixMessageSize
  <2> HIDE DEF l
  <2>3. l \o x \in Seq(Int) /\ Len(l \o x) = 4 + Len(x)
    BY <2>1, Joined
  <2>4. Len(l \o x) \in Int32
    <3> DEFINE k == Len(x)
    <3>1. k \in 0 .. 100
      BY <1>4
    <3> HIDE DEF k
    <3>2. 4 + k \in 0 .. 200
      BY <3>1
    <3> USE DEF k
    <3> QED BY <2>3, <3>2, SmallNumbers
  <2> QED BY <2>1, <2>2, <2>3, <2>4 DEF l
<1>5. ASSUME NEW n \in Int32, NEW q \in Seq(Int), NEW r \in Seq(Int)
      PROVE  Monitoring!ByteToInt(q \o (P(n) \o r), Len(q) + 4) = n
  BY ReadField, MonitoringFields
<1>6. \A n : Monitoring!prepareIntegerMessageWithSize(n) = P(n)
  BY MonitoringFields
<1> HIDE DEF P
<1>7. CASE command \in [type : {Monitoring!GET_ALL_SENSORS_MONITORING}]
  <2> DEFINE x == P(0)
             l == intToByteListLittleEndian(Len(x))
  <2>1. command = [type |-> 0] /\ m = Monitoring!prefixMessageSize(x)
    BY <1>6, <1>7 DEF Monitoring!GET_ALL_SENSORS_MONITORING, Monitoring!prepareMessage,
         Monitoring!prepareMessageGetAllSensors
  <2>2. 0 \in Int32 /\ x \in Seq(Int) /\ Len(x) = 8
    BY <1>1, SmallNumbers
  <2>3. x \o <<>> = x
    BY <2>2, ConcatEmptySeq
  <2>4. l \in Seq(Int) /\ Len(l) = 4 /\ m = l \o x /\ m \in Seq(Int) /\ Len(m) \in Int32
    <3>1. Len(x) \in 0 .. 100
      BY <2>2
    <3> QED BY <1>4, <2>1, <2>2, <3>1
  <2> HIDE DEF l
  <2>5. Monitoring!ByteToInt(l \o (x \o <<>>), Len(l) + 4) = 0
    BY <1>3, <1>5, <2>2, <2>4
  <2> HIDE DEF x, m
  <2>6. Monitoring!ByteToInt(m, 8) = 0
    BY <2>3, <2>4, <2>5
  <2>7. Monitoring!analyzeMessage(m) = [type |-> 0]
    BY <2>6 DEF Monitoring!analyzeMessage, Monitoring!GET_ALL_SENSORS_MONITORING
  <2> QED BY <1>2, <2>1, <2>4, <2>7
<1>8. CASE command \in [type : {Monitoring!GET_SET_OF_MEASUREMENTS}, id : Int32, span : 0 .. 2]
  <2> DEFINE id == command.id
             span == command.span
             x == (P(1) \o P(id)) \o P(span)
             l == intToByteListLittleEndian(Len(x))
  <2>1. command = [type |-> 1, id |-> id, span |-> span] /\ id \in Int32 /\ span \in 0 .. 2
    BY <1>8 DEF Monitoring!GET_SET_OF_MEASUREMENTS
  <2>2. m = Monitoring!prefixMessageSize(x)
    BY <1>6, <2>1 DEF Monitoring!GET_ALL_SENSORS_MONITORING, Monitoring!GET_SET_OF_MEASUREMENTS,
         Monitoring!prepareMessage, Monitoring!prepareMessageGetSetOfMeasurements
  <2>3. 1 \in Int32 /\ span \in Int32
    BY <2>1, SmallNumbers
  <2> HIDE DEF id, span
  <2> DEFINE a == P(1)
             b == P(id)
             c == P(span)
  <2>4. /\ a \in Seq(Int) /\ Len(a) = 8 /\ b \in Seq(Int) /\ Len(b) = 8
        /\ c \in Seq(Int) /\ Len(c) = 8
    BY <1>1, <2>1, <2>3
  <2>5. /\ a \o b \in Seq(Int) /\ Len(a \o b) = 16 /\ x \in Seq(Int) /\ Len(x) = 24
        /\ b \o c \in Seq(Int) /\ x = a \o (b \o c) /\ c = c \o <<>>
    <3> HIDE DEF a, b, c
    <3>1. a \o b \in Seq(Int) /\ Len(a \o b) = 16
      <4>1. a \o b \in Seq(Int) /\ Len(a \o b) = Len(a) + Len(b)
        BY <2>4, Joined
      <4> QED BY <2>4, <4>1
    <3>2. (a \o b) \o c \in Seq(Int) /\ Len((a \o b) \o c) = 24
      BY <2>4, <3>1, Joined
    <3>3. b \o c \in Seq(Int) /\ (a \o b) \o c = a \o (b \o c)
      BY ZenonT(30), <2>4, Joined, Regroup
    <3>4. c \o <<>> = c
      BY <2>4, ConcatEmptySeq
    <3> QED BY <3>1, <3>2, <3>3, <3>4 DEF a, b, c
  <2>6. l \in Seq(Int) /\ Len(l) = 4 /\ m = l \o x /\ m \in Seq(Int) /\ Len(m) \in Int32
    <3>1. Len(x) \in 0 .. 100
      BY <2>5
    <3> HIDE DEF x
    <3> QED BY <1>4, <2>2, <2>5, <3>1
  <2> HIDE DEF l
  <2>7. Monitoring!ByteToInt(l \o (a \o (b \o c)), Len(l) + 4) = 1
    BY <1>5, <2>3, <2>5, <2>6
  <2>8. Monitoring!ByteToInt((l \o a) \o (b \o c), Len(l \o a) + 4) = id /\ Len(l \o a) = 12
    <3>1. l \o a \in Seq(Int) /\ Len(l \o a) = 12
      <4> HIDE DEF a
      <4>1. l \o a \in Seq(Int) /\ Len(l \o a) = Len(l) + Len(a)
        BY <2>4, <2>6, Joined
      <4> QED BY <2>4, <2>6, <4>1
    <3> HIDE DEF a, c
    <3> QED BY <1>5, <2>1, <2>4, <3>1
  <2>9. Monitoring!ByteToInt((l \o (a \o b)) \o (c \o <<>>), Len(l \o (a \o b)) + 4) = span
        /\ Len(l \o (a \o b)) = 20
    <3>1. l \o (a \o b) \in Seq(Int) /\ Len(l \o (a \o b)) = 20
      <4> DEFINE e == a \o b
      <4>1. e \in Seq(Int) /\ Len(e) = 16
        BY <2>5
      <4> HIDE DEF e
      <4>2. l \o e \in Seq(Int) /\ Len(l \o e) = Len(l) + Len(e)
        BY <2>6, <4>1, Joined
      <4> QED BY <2>6, <4>1, <4>2 DEF e
    <3> HIDE DEF a, b
    <3> QED BY <1>3, <1>5, <2>3, <3>1
  <2>10. m = l \o (a \o (b \o c)) /\ m = (l \o a) \o (b \o c) /\ m = (l \o (a \o b)) \o (c \o <<>>)
    <3> HIDE DEF a, b, c
    <3>1. l \o (a \o (b \o c)) = (l \o a) \o (b \o c)
      <4> DEFINE e == b \o c
      <4>1. e \in Seq(Int)
        BY <2>5
      <4> HIDE DEF e
      <4>2. l \o (a \o e) = (l \o a) \o e
        BY ZenonT(30), <2>4, <2>6, <4>1, Regroup
      <4> QED BY <4>2 DEF e
    <3>2. l \o ((a \o b) \o c) = (l \o (a \o b)) \o c
      <4> DEFINE e == a \o b
      <4>1. e \in Seq(Int)
        BY <2>5
      <4> HIDE DEF e
      <4>2. l \o (e \o c) = (l \o e) \o c
        BY ZenonT(30), <2>4, <2>6, <4>1, Regroup
      <4> QED BY <4>2 DEF e
    <3>3. x = (a \o b) \o c
      BY DEF x, a, b, c
    <3> HIDE DEF x
    <3> QED BY <2>5, <2>6, <3>1, <3>2, <3>3
  <2> HIDE DEF a, b, c, x, m
  <2>11. /\ Monitoring!ByteToInt(m, 8) = 1 /\ Monitoring!ByteToInt(m, 16) = id
         /\ Monitoring!ByteToInt(m, 24) = span
    BY <2>6, <2>7, <2>8, <2>9, <2>10
  <2>12. Monitoring!analyzeMessage(m) = [type |-> 1, id |-> id, span |-> span]
    BY <2>11 DEF Monitoring!analyzeMessage, Monitoring!GET_ALL_SENSORS_MONITORING,
         Monitoring!GET_SET_OF_MEASUREMENTS
  <2> QED BY <1>2, <2>1, <2>6, <2>12
<1> QED BY <1>7, <1>8 DEF MonitoringCommands

-----------------------------------------------------------------------------
(* Values one after the other *)

\* g[k] is what the first k sequences of q hold together, up to the n-th.
Accumulates(g, q, n) == g[0] = <<>> /\ \A k \in 1 .. n : g[k] = g[k - 1] \o q[k]

\* There is such a g for all of q.
LEMMA AccumulationExists ==
  ASSUME NEW q \in Seq(Seq(Int))
  PROVE  \E g \in [0 .. Len(q) -> Seq(Int)] : Accumulates(g, q, Len(q))
<1> DEFINE T == {n \in Nat : n <= Len(q) => \E g \in [0 .. n -> Seq(Int)] : Accumulates(g, q, n)}
<1>1. Len(q) \in Nat /\ \A k \in 1 .. Len(q) : q[k] \in Seq(Int)
  OBVIOUS
<1>2. 0 \in T
  <2> DEFINE g == [k \in 0 .. 0 |-> <<>>]
  <2>1. g \in [0 .. 0 -> Seq(Int)] /\ Accumulates(g, q, 0)
    BY DEF Accumulates
  <2> HIDE DEF g
  <2> QED BY <2>1
<1>3. ASSUME NEW n \in Nat, n \in T PROVE n + 1 \in T
  <2> SUFFICES ASSUME n + 1 <= Len(q)
               PROVE  \E g \in [0 .. (n + 1) -> Seq(Int)] : Accumulates(g, q, n + 1)
    OBVIOUS
  <2>1. PICK f \in [0 .. n -> Seq(Int)] : Accumulates(f, q, n)
    BY <1>1, <1>3
  <2> DEFINE x == f[n] \o q[n + 1]
             g == [k \in 0 .. (n + 1) |-> IF k = n + 1 THEN x ELSE f[k]]
  <2>2. x \in Seq(Int)
    <3>1. f[n] \in Seq(Int) /\ q[n + 1] \in Seq(Int)
      BY <1>1
    <3> QED BY <3>1
  <2>3. g \in [0 .. (n + 1) -> Seq(Int)]
    <3> HIDE DEF x
    <3> QED BY <2>2
  <2>4. g[0] = <<>> /\ g[n] = f[n] /\ g[n + 1] = x
    <3>1. f[0] = <<>> /\ 0 # n + 1 /\ n # n + 1
      BY <2>1 DEF Accumulates
    <3> HIDE DEF x
    <3> QED BY <3>1
  <2>5. ASSUME NEW k \in 1 .. (n + 1) PROVE g[k] = g[k - 1] \o q[k]
    <3>1. CASE k = n + 1
      <4>1. k - 1 = n
        BY <3>1
      <4> HIDE DEF g
      <4> QED BY <2>4, <3>1, <4>1
    <3>2. CASE k \in 1 .. n
      <4>1. g[k] = f[k] /\ g[k - 1] = f[k - 1]
        <5>1. k \in 0 .. (n + 1) /\ k - 1 \in 0 .. (n + 1) /\ k # n + 1 /\ k - 1 # n + 1
          BY <3>2
        <5> HIDE DEF x
        <5> QED BY <5>1
      <4> HIDE DEF g
      <4> QED BY <2>1, <3>2, <4>1 DEF Accumulates
    <3>3. k = n + 1 \/ k \in 1 .. n
      OBVIOUS
    <3> HIDE DEF g
    <3> QED BY <3>1, <3>2, <3>3
  <2> HIDE DEF g
  <2> QED BY <2>3, <2>4, <2>5 DEF Accumulates
<1> HIDE DEF T
<1>4. Len(q) \in T
  BY <1>1, <1>2, <1>3, Induction
<1> QED BY <1>1, <1>4 DEF T

\* FlattenSeq takes the last value.
LEMMA FlattenAccumulates ==
  ASSUME NEW q \in Seq(Seq(Int)), NEW g \in [0 .. Len(q) -> Seq(Int)], Accumulates(g, q, Len(q))
  PROVE  FlattenSeq(q) = g[Len(q)]
<1> DEFINE step(f) == [i \in 1 .. Len(q) |-> IF i = 1 THEN q[i] ELSE f[i - 1] \o q[i]]
           flat == CHOOSE f : f = step(f)
           h == [i \in 1 .. Len(q) |-> g[i]]
<1>1. Len(q) \in Nat /\ \A i \in 1 .. Len(q) : q[i] \in Seq(Int)
  OBVIOUS
<1>2. \A i \in 1 .. Len(q) : g[i] = IF i = 1 THEN q[i] ELSE g[i - 1] \o q[i]
  <2>1. ASSUME NEW i \in 1 .. Len(q), i = 1 PROVE g[i] = q[i]
    <3>1. g[1] = <<>> \o q[1]
      <4>1. g[1] = g[1 - 1] \o q[1]
        BY <2>1 DEF Accumulates
      <4>2. g[1 - 1] = <<>>
        BY DEF Accumulates
      <4> QED BY <4>1, <4>2
    <3>2. q[1] \in Seq(Int)
      BY <1>1, <2>1
    <3>3. <<>> \o q[1] = q[1]
      BY <3>2, ConcatEmptySeq
    <3> QED BY <2>1, <3>1, <3>3
  <2> QED BY <2>1 DEF Accumulates
<1>3. h = step(h)
  <2>1. \A i \in 1 .. Len(q) : i # 1 => i - 1 \in 1 .. Len(q)
    BY <1>1
  <2> QED BY <1>2, <2>1
<1>4. flat = step(flat)
  <2> HIDE DEF step, h
  <2> QED BY <1>3
<1>5. Len(q) # 0 => FlattenSeq(q) = flat[Len(q)]
  BY DEF FlattenSeq
<1> HIDE DEF flat
<1>6. \A i \in 1 .. Len(q) : flat[i] = IF i = 1 THEN q[i] ELSE flat[i - 1] \o q[i]
  <2>1. \A i \in 1 .. Len(q) : step(flat)[i] = IF i = 1 THEN q[i] ELSE flat[i - 1] \o q[i]
    OBVIOUS
  <2> HIDE DEF step
  <2> QED BY <1>4, <2>1
<1> DEFINE T == {n \in Nat : n \in 1 .. Len(q) => flat[n] = g[n]}
<1>7. 0 \in T
  OBVIOUS
<1>8. ASSUME NEW n \in Nat, n \in T PROVE n + 1 \in T
  <2> SUFFICES ASSUME n + 1 \in 1 .. Len(q) PROVE flat[n + 1] = g[n + 1]
    OBVIOUS
  <2>1. n # 0 => flat[n] = g[n]
    BY <1>8
  <2>2. (n + 1) - 1 = n /\ (n + 1 = 1 <=> n = 0)
    OBVIOUS
  <2>3. flat[n + 1] = IF n = 0 THEN q[n + 1] ELSE flat[n] \o q[n + 1]
    BY <1>6, <2>2
  <2>4. g[n + 1] = IF n = 0 THEN q[n + 1] ELSE g[n] \o q[n + 1]
    BY <1>2, <2>2
  <2> QED BY <2>1, <2>3, <2>4
<1> HIDE DEF T
<1>9. Len(q) \in T
  BY <1>1, <1>7, <1>8, Induction
<1>10. CASE Len(q) = 0
  <2>1. q = <<>> /\ FlattenSeq(q) = q
    BY <1>10 DEF FlattenSeq
  <2> QED BY <1>10, <2>1 DEF Accumulates
<1>11. CASE Len(q) # 0
  <2>1. flat[Len(q)] = g[Len(q)]
    BY <1>1, <1>9, <1>11 DEF T
  <2> QED BY <1>5, <1>11, <2>1
<1> QED BY <1>10, <1>11

\* Sequences of limited length
Limited(q) == \A k \in 1 .. Len(q) : Len(q[k]) <= 4000

\* What limited sequences hold together is limited.
LEMMA AccumulatedLength ==
  ASSUME NEW q \in Seq(Seq(Int)), NEW g \in [0 .. Len(q) -> Seq(Int)], Accumulates(g, q, Len(q)),
         Limited(q)
  PROVE  Len(g[Len(q)]) <= 4000 * Len(q)
<1> DEFINE T == {n \in Nat : n <= Len(q) => Len(g[n]) <= 4000 * n}
<1>1. Len(q) \in Nat /\ \A k \in 1 .. Len(q) : q[k] \in Seq(Int)
  OBVIOUS
<1>2. 0 \in T
  BY DEF Accumulates
<1>3. ASSUME NEW n \in Nat, n \in T PROVE n + 1 \in T
  <2> SUFFICES ASSUME n + 1 <= Len(q) PROVE Len(g[n + 1]) <= 4000 * (n + 1)
    OBVIOUS
  <2>1. Len(g[n]) <= 4000 * n
    BY <1>1, <1>3
  <2> DEFINE m == n + 1
  <2>2. m \in 1 .. Len(q) /\ m - 1 = n /\ n \in 0 .. Len(q)
    BY <1>1
  <2> HIDE DEF m
  <2>3. g[m] = g[n] \o q[m] /\ Len(q[m]) <= 4000
    <3>1. g[m] = g[m - 1] \o q[m]
      BY <2>2 DEF Accumulates
    <3>2. Len(q[m]) <= 4000
      BY <2>2 DEF Limited
    <3>3. m - 1 = n
      BY <2>2
    <3> DEFINE h(k) == g[k] \o q[m]
    <3>4. h(m - 1) = h(n)
      BY Zenon, <3>3
    <3> QED BY <3>1, <3>2, <3>4
  <2>4. g[n] \in Seq(Int) /\ q[m] \in Seq(Int)
    BY <1>1, <2>2
  <2>5. Len(g[m]) = Len(g[n]) + Len(q[m]) /\ Len(g[n]) \in Nat /\ Len(q[m]) \in Nat
    BY <2>3, <2>4, Joined
  <2>6. Len(g[m]) <= 4000 * (n + 1)
    <3> DEFINE a == Len(g[n])
               b == Len(q[m])
    <3>1. a \in Nat /\ b \in Nat /\ a <= 4000 * n /\ b <= 4000 /\ Len(g[m]) = a + b
      BY <2>1, <2>3, <2>5
    <3> HIDE DEF T, a, b
    <3>2. a + b <= 4000 * (n + 1)
      BY <3>1
    <3> QED BY <3>1, <3>2
  <2> QED BY <2>6 DEF m
<1> HIDE DEF T
<1>4. Len(q) \in T
  BY <1>1, <1>2, <1>3, Induction
<1> QED BY <1>1, <1>4 DEF T

\* What lies between other parts of a message
LEMMA Middle ==
  ASSUME NEW p \in Seq(Int), NEW q \in Seq(Int), NEW r \in Seq(Int)
  PROVE  subList(p \o (q \o r), Len(p), Len(p) + Len(q)) = q
<1> DEFINE m == p \o (q \o r)
           t == SubSeq(m, Len(p) + 1, Len(p) + Len(q))
<1>1. Len(p) \in Nat /\ Len(q) \in Nat /\ Len(r) \in Nat
  OBVIOUS
<1>2. /\ q \o r \in Seq(Int) /\ Len(q \o r) = Len(q) + Len(r)
      /\ \A k \in 1 .. Len(q) : (q \o r)[k] = q[k]
  BY ZenonT(30), Behind
<1>3. /\ m \in Seq(Int) /\ Len(m) = Len(p) + Len(q \o r)
      /\ \A k \in 1 .. Len(q \o r) : m[Len(p) + k] = (q \o r)[k]
  <2> DEFINE s == q \o r
  <2> HIDE DEF s
  <2>1. s \in Seq(Int)
    BY <1>2 DEF s
  <2>2. p \o s \in Seq(Int) /\ Len(p \o s) = Len(p) + Len(s)
    BY <2>1, Joined
  <2>3. \A k \in 1 .. Len(s) : (p \o s)[Len(p) + k] = s[k]
    BY SMTT(30), <2>1, Behind
  <2> QED BY <2>2, <2>3 DEF s
<1>4. ASSUME NEW k \in 1 .. Len(q) PROVE m[Len(p) + k] = q[k]
  <2>1. k \in 1 .. Len(q \o r)
    BY <1>1, <1>2
  <2> HIDE DEF m
  <2> QED BY <1>2, <1>3, <2>1
<1> HIDE DEF m
<1>5. \A k \in Len(p) + 1 .. Len(p) + Len(q) : m[k] \in Int
  <2>1. ASSUME NEW k \in Len(p) + 1 .. Len(p) + Len(q) PROVE k \in 1 .. Len(m)
    BY <1>1, <1>2, <1>3
  <2> QED BY <1>3, <2>1
<1>6. t \in Seq(Int) /\ Len(t) = Len(q) /\ \A k \in 1 .. Len(q) : t[k] = q[k]
  <2>1. /\ t \in Seq(Int)
        /\ Len(t) = IF Len(p) + 1 <= Len(p) + Len(q) THEN (Len(p) + Len(q)) - (Len(p) + 1) + 1 ELSE 0
        /\ \A k \in 1 .. (Len(p) + Len(q)) - (Len(p) + 1) + 1 : t[k] = m[Len(p) + 1 + k - 1]
    BY <1>1, <1>5, SubSeqProperties
  <2> HIDE DEF t
  <2>2. ASSUME NEW k \in 1 .. Len(q) PROVE t[k] = q[k]
    <3>1. Len(p) + 1 + k - 1 = Len(p) + k /\ k \in 1 .. (Len(p) + Len(q)) - (Len(p) + 1) + 1
      BY <1>1
    <3>2. t[k] = m[Len(p) + 1 + k - 1]
      BY <2>1, <3>1
    <3> QED BY <1>4, <3>1, <3>2
  <2>3. Len(t) = Len(q)
    BY <1>1, <2>1
  <2> QED BY <2>1, <2>2, <2>3
<1> HIDE DEF t
<1>7. t = q
  BY <1>6, SeqEqual
<1> QED BY <1>7 DEF subList, t, m

\* A value after its length takes four bytes more.
LEMMA LengthFirst ==
  ASSUME NEW x \in Seq(Int), Len(x) \in Int32
  PROVE  WithLength(x) \in Seq(Int) /\ Len(WithLength(x)) = 4 + Len(x)
<1>1. IntToByte(Len(x)) \in Seq(Int) /\ Len(IntToByte(Len(x))) = 4
  BY IntBytes
<1> QED BY <1>1, Joined DEF WithLength

\* A part of the whole is in front of it.
Starts(m, p) == \E r \in Seq(Int) : m = p \o r

\* What the first k hold is in front of what all hold.
LEMMA AccumulatedParts ==
  ASSUME NEW q \in Seq(Seq(Int)), NEW g \in [0 .. Len(q) -> Seq(Int)], Accumulates(g, q, Len(q)),
         NEW k \in 0 .. Len(q)
  PROVE  Starts(g[Len(q)], g[k])
<1>1. /\ Len(q) \in Nat /\ \A i \in 1 .. Len(q) : q[i] \in Seq(Int)
      /\ \A i \in 0 .. Len(q) : g[i] \in Seq(Int)
  <2>1. Len(q) \in Nat /\ \A i \in 1 .. Len(q) : q[i] \in Seq(Int)
    OBVIOUS
  <2>2. \A i \in 0 .. Len(q) : g[i] \in Seq(Int)
    OBVIOUS
  <2> QED BY <2>1, <2>2
<1> DEFINE n == Len(q)
           T == {j \in Nat : j <= n => Starts(g[n], g[n - j])}
<1>2. \A i \in 1 .. n : g[i] = g[i - 1] \o q[i]
  BY DEF Accumulates
<1>3. 0 \in T
  <2>1. n \in Nat /\ g[n] \in Seq(Int) /\ n - 0 = n /\ <<>> \in Seq(Int)
    BY <1>1
  <2> HIDE DEF n
  <2>2. g[n] = g[n] \o <<>>
    BY <2>1, ConcatEmptySeq
  <2>3. Starts(g[n], g[n - 0])
    BY <2>1, <2>2 DEF Starts
  <2> QED BY <2>3
<1>4. ASSUME NEW j \in Nat, j \in T PROVE j + 1 \in T
  <2> SUFFICES ASSUME j + 1 <= n PROVE Starts(g[n], g[n - (j + 1)])
    OBVIOUS
  <2> DEFINE i == n - j
  <2>1. i \in 1 .. n /\ i - 1 = n - (j + 1) /\ i - 1 \in 0 .. n /\ i \in 0 .. n
    BY <1>1
  <2>2. Starts(g[n], g[i])
    BY <1>1, <1>4
  <2>3. PICK r \in Seq(Int) : g[n] = g[i] \o r
    BY <2>2 DEF Starts
  <2> HIDE DEF i
  <2> DEFINE a == g[i - 1]
             b == q[i]
             w == g[n]
  <2>4. a \in Seq(Int) /\ b \in Seq(Int) /\ g[i] = a \o b
    BY <1>1, <1>2, <2>1
  <2>5. w = (a \o b) \o r
    BY <2>3, <2>4
  <2> HIDE DEF a, b, w
  <2>6. w = a \o (b \o r) /\ b \o r \in Seq(Int)
    <3>1. (a \o b) \o r = a \o (b \o r)
      BY <2>4, Regroup
    <3>2. b \o r \in Seq(Int)
      BY <2>4, Joined
    <3> QED BY <2>5, <3>1, <3>2
  <2>7. Starts(w, a)
    BY <2>6 DEF Starts
  <2> QED BY <2>1, <2>7 DEF a, w
<1> HIDE DEF T
<1>5. n - k \in Nat /\ n - k <= n /\ n - (n - k) = k
  BY <1>1
<1>6. n - k \in T
  <2>1. Nat \subseteq T
    BY <1>3, <1>4, Induction
  <2> QED BY <1>5, <2>1
<1>7. Starts(g[n], g[n - (n - k)])
  BY <1>5, <1>6 DEF T
<1> QED BY <1>5, <1>7

\* Values finds each value between its length and the next one.
Prefixed(q, x) ==
  /\ Len(q) = Len(x)
  /\ \A k \in 1 .. Len(x) : Len(x[k]) \in Int32 /\ q[k] = WithLength(x[k])

LEMMA ValuesAre ==
  ASSUME NEW x \in Seq(Seq(Int)), NEW q \in Seq(Seq(Int)), Prefixed(q, x),
         NEW g \in [0 .. Len(q) -> Seq(Int)], Accumulates(g, q, Len(q))
  PROVE  Values(g[Len(q)], Len(x)) = x
<1> DEFINE n == Len(x)
           m == g[n]
           e(k) == Len(g[k])
<1>0. /\ Len(q) = Len(x)
      /\ \A k \in 1 .. Len(x) : Len(x[k]) \in Int32 /\ q[k] = WithLength(x[k])
  BY DEF Prefixed
<1>1. /\ n \in Nat /\ n = Len(q) /\ \A k \in 1 .. n : x[k] \in Seq(Int)
      /\ \A i \in 0 .. n : g[i] \in Seq(Int) /\ Len(g[i]) \in Nat
  <2>1. n \in Nat /\ n = Len(q) /\ \A k \in 1 .. n : x[k] \in Seq(Int)
    BY <1>0
  <2>2. \A i \in 0 .. n : g[i] \in Seq(Int)
    BY <2>1
  <2>3. \A y \in Seq(Int) : Len(y) \in Nat
    OBVIOUS
  <2> QED BY <2>1, <2>2, <2>3
<1>2. Len(g[0]) = 0 /\ \A k \in 1 .. n : g[k] = g[k - 1] \o WithLength(x[k])
  <2>1. g[0] = <<>> /\ \A k \in 1 .. n : g[k] = g[k - 1] \o q[k]
    BY <1>1 DEF Accumulates
  <2> QED BY <1>0, <2>1
<1>3. ASSUME NEW k \in 1 .. n
      PROVE  /\ byteListToInt(subList(m, e(k - 1), e(k - 1) + 4)) = Len(x[k])
             /\ subList(m, e(k - 1) + 4, e(k)) = x[k]
             /\ e(k) = e(k - 1) + 4 + Len(x[k])
  <2>1. Starts(m, g[k])
    <3>1. k \in 0 .. Len(q) /\ m = g[Len(q)]
      BY <1>1
    <3> HIDE DEF m
    <3>2. Starts(g[Len(q)], g[k])
      BY <3>1, AccumulatedParts
    <3> QED BY <3>1, <3>2
  <2>2. PICK r \in Seq(Int) : m = g[k] \o r
    BY <2>1 DEF Starts
  <2> DEFINE p == g[k - 1]
             y == x[k]
             l == IntToByte(Len(y))
  <2>3. p \in Seq(Int) /\ y \in Seq(Int) /\ Len(y) \in Int32 /\ g[k] = p \o WithLength(y)
    <3>1. k - 1 \in 0 .. n
      BY <1>1
    <3> QED BY <1>1, <1>2, <1>0, <3>1
  <2>4. l \in Seq(Int) /\ Len(l) = 4 /\ ByteToInt(l, 0) = Len(y)
    BY <2>3, IntBytes, IntRoundTrip
  <2>5. m = (p \o (l \o y)) \o r /\ g[k] = p \o (l \o y)
    BY <2>2, <2>3 DEF WithLength
  <2> HIDE DEF p, y, l, m
  <2>6. Len(p) \in Nat /\ Len(y) \in Nat /\ l \o y \in Seq(Int) /\ y \o r \in Seq(Int) /\ p \o l \in Seq(Int)
    BY <2>3, <2>4, Joined
  <2>7. Len(p \o l) = Len(p) + 4 /\ Len(p \o (l \o y)) = Len(p) + 4 + Len(y)
    <3>1. Len(p \o l) = Len(p) + Len(l) /\ Len(l \o y) = Len(l) + Len(y)
      BY <2>3, <2>4, Joined
    <3>2. Len(p \o (l \o y)) = Len(p) + Len(l \o y)
      BY <2>3, <2>6, Joined
    <3> QED BY <2>4, <2>6, <3>1, <3>2
  <2>8. m = p \o (l \o (y \o r)) /\ m = (p \o l) \o (y \o r)
    <3>1. m = p \o ((l \o y) \o r)
      BY ZenonT(30), <2>3, <2>5, <2>6, Regroup
    <3>2. (l \o y) \o r = l \o (y \o r)
      BY ZenonT(30), <2>3, <2>4, Regroup
    <3>3. (p \o l) \o (y \o r) = p \o (l \o (y \o r))
      BY ZenonT(30), <2>3, <2>4, <2>6, Regroup
    <3> QED BY <3>1, <3>2, <3>3
  <2>9. subList(m, Len(p), Len(p) + 4) = l
    <3>1. subList(p \o (l \o (y \o r)), Len(p), Len(p) + Len(l)) = l
      BY <2>3, <2>4, <2>6, Middle
    <3> QED BY <2>4, <2>8, <3>1
  <2>10. subList(m, Len(p) + 4, Len(p) + 4 + Len(y)) = y
    <3> DEFINE a == p \o l
    <3> HIDE DEF a
    <3>1. a \in Seq(Int) /\ Len(a) = Len(p) + 4 /\ m = a \o (y \o r)
      BY <2>6, <2>7, <2>8 DEF a
    <3>2. subList(a \o (y \o r), Len(a), Len(a) + Len(y)) = y
      BY <2>3, <3>1, Middle
    <3> QED BY <3>1, <3>2
  <2>11. e(k - 1) = Len(p) /\ e(k) = Len(p) + 4 + Len(y)
    BY <2>5, <2>7 DEF p
  <2>12. byteListToInt(l) = Len(y)
    BY <2>4 DEF byteListToInt
  <2> HIDE DEF e
  <2> QED BY <2>9, <2>10, <2>11, <2>12 DEF y
<1> DEFINE step(f) == [k \in 0 .. n |->
             IF k = 0 THEN 0 ELSE f[k - 1] + 4 + byteListToInt(subList(m, f[k - 1], f[k - 1] + 4))]
           end == CHOOSE f : f = step(f)
           h == [k \in 0 .. n |-> e(k)]
<1>4. Values(m, n) = [k \in 1 .. n |-> subList(m, end[k - 1] + 4, end[k])]
  BY DEF Values
<1> HIDE DEF m
<1>5. h = step(h)
  <2>1. ASSUME NEW k \in 0 .. n
        PROVE  h[k] = IF k = 0 THEN 0
                      ELSE h[k - 1] + 4 + byteListToInt(subList(m, h[k - 1], h[k - 1] + 4))
    <3>1. CASE k = 0
      BY <1>2, <3>1
    <3>2. CASE k # 0
      <4>1. k \in 1 .. n /\ k - 1 \in 0 .. n
        BY <1>1, <3>2
      <4>2. h[k] = e(k) /\ h[k - 1] = e(k - 1)
        BY <4>1
      <4>3. h[k] = e(k - 1) + 4 + byteListToInt(subList(m, e(k - 1), e(k - 1) + 4))
        BY <1>3, <4>1, <4>2
      <4> HIDE DEF h, e
      <4> QED BY <3>2, <4>2, <4>3
    <3> QED BY <3>1, <3>2
  <2> HIDE DEF e
  <2> QED BY <2>1
<1>6. end = step(end)
  <2> HIDE DEF h, step
  <2> QED BY <1>5
<1> HIDE DEF end, e
<1>7. \A k \in 0 .. n : end[k] = IF k = 0 THEN 0
                        ELSE end[k - 1] + 4 + byteListToInt(subList(m, end[k - 1], end[k - 1] + 4))
  <2>1. \A k \in 0 .. n : step(end)[k] = IF k = 0 THEN 0
                        ELSE end[k - 1] + 4 + byteListToInt(subList(m, end[k - 1], end[k - 1] + 4))
    OBVIOUS
  <2> HIDE DEF step
  <2> QED BY <1>6, <2>1
<1> DEFINE T == {k \in Nat : k <= n => end[k] = e(k)}
<1>8. 0 \in T
  <2>1. 0 \in 0 .. n
    BY <1>1
  <2>2. end[0] = 0
    BY <1>7, <2>1
  <2>3. e(0) = 0
    BY <1>2 DEF e
  <2> QED BY <2>2, <2>3
<1>9. ASSUME NEW k \in Nat, k \in T PROVE k + 1 \in T
  <2> SUFFICES ASSUME k + 1 <= n PROVE end[k + 1] = e(k + 1)
    OBVIOUS
  <2> DEFINE j == k + 1
  <2>1. j \in 1 .. n /\ j \in 0 .. n /\ j # 0 /\ j - 1 = k /\ end[k] = e(k)
    BY <1>1, <1>9
  <2> HIDE DEF j
  <2>2. end[j] = e(k) + 4 + byteListToInt(subList(m, e(k), e(k) + 4))
    BY <1>7, <2>1
  <2>3. end[j] = e(j)
    BY <1>3, <2>1, <2>2
  <2> QED BY <2>3 DEF j
<1> HIDE DEF T
<1>10. Nat \subseteq T
  BY <1>8, <1>9, Induction
<1>11. ASSUME NEW k \in 1 .. n PROVE subList(m, end[k - 1] + 4, end[k]) = x[k]
  <2>1. k \in T /\ k - 1 \in T /\ k <= n /\ k - 1 <= n
    BY <1>1, <1>10
  <2>2. end[k] = e(k) /\ end[k - 1] = e(k - 1)
    BY <2>1 DEF T
  <2> QED BY <1>3, <2>2
<1>12. x = [k \in 1 .. n |-> x[k]]
  OBVIOUS
<1>13. Values(m, n) = x
  <2> HIDE DEF n
  <2> QED BY <1>4, <1>11, <1>12
<1> QED BY <1>1, <1>13 DEF m

\* What the elements of a list take, and lists whose bytes an int can count
Brief == {x \in Seq(Int) : Len(x) <= 3990}
Lists(S) == {list \in Seq(S) : Len(list) <= LongestList}

\* A list as the server writes it: how many, and each after its length
Listing(c) == IntToByte(Len(c)) \o FlattenSeq([i \in 1 .. Len(c) |-> WithLength(c[i])])

\* The length of a list, and of an element, is an int, ...
LEMMA ListNumbers ==
  /\ LongestList \in Nat /\ \A n \in Nat : n <= LongestList => n \in Int32
  /\ \A n \in Nat : n <= 3990 => n \in Int32
<1>1. LongestList \in Nat /\ \A n \in Nat : n <= LongestList => n \in Int32
  BY SMT DEF LongestList, Int32
<1>2. \A n \in Nat : n <= 3990 => n \in Int32
  BY SMT DEF Int32
<1> QED BY <1>1, <1>2

\* ... and so is the number of its bytes.
LEMMA ListBytes ==
  ASSUME NEW a \in Nat, NEW n \in Nat, n <= LongestList, a <= 4000 * n
  PROVE  a + 200 <= Longest
BY SMT DEF LongestList, Longest

\* A value of a list has a length that an int can tell.
LEMMA SmallLengths ==
  ASSUME NEW x \in Seq(Int), Len(x) <= 3990
  PROVE  Len(x) \in Nat /\ Len(x) \in Int32
<1>1. Len(x) \in Nat
  OBVIOUS
<1> DEFINE n == Len(x)
<1> HIDE DEF n
<1>2. n \in Nat /\ n <= 3990 => n \in Int32
  BY ListNumbers
<1> QED BY <1>1, <1>2 DEF n

\* A list is read as it was written.
LEMMA ListRead ==
  ASSUME NEW c \in Lists(Brief)
  PROVE  /\ Listing(c) \in Seq(Int) /\ Len(Listing(c)) + 100 <= Longest
         /\ ListElements(Listing(c)) = c
<1> DEFINE q == [i \in 1 .. Len(c) |-> WithLength(c[i])]
           f == FlattenSeq(q)
           l == IntToByte(Len(c))
<1>1. c \in Seq(Seq(Int)) /\ Len(c) \in Nat /\ Len(c) <= LongestList
  <2>1. c \in Seq(Brief) /\ Len(c) \in Nat /\ Len(c) <= LongestList
    BY DEF Lists
  <2>2. Brief \subseteq Seq(Int)
    BY DEF Brief
  <2> QED BY <2>1, <2>2, SeqMonotonic
<1>2. ASSUME NEW k \in 1 .. Len(c) PROVE c[k] \in Seq(Int) /\ Len(c[k]) <= 3990
  <2>1. c[k] \in Brief
    BY DEF Lists
  <2> QED BY <2>1 DEF Brief
<1>3. ASSUME NEW k \in 1 .. Len(c)
      PROVE  /\ Len(c[k]) \in Int32 /\ WithLength(c[k]) \in Seq(Int) /\ Len(WithLength(c[k])) <= 4000
  <2> DEFINE x == c[k]
  <2>1. x \in Seq(Int) /\ Len(x) <= 3990
    BY <1>2
  <2> HIDE DEF x
  <2>2. Len(x) \in Nat /\ Len(x) \in Int32
    BY <2>1, SmallLengths
  <2>3. WithLength(x) \in Seq(Int) /\ Len(WithLength(x)) = 4 + Len(x)
    BY <2>1, <2>2, LengthFirst
  <2>4. Len(WithLength(x)) <= 4000
    BY <2>1, <2>2, <2>3
  <2> QED BY <2>2, <2>3, <2>4 DEF x
<1>4. /\ q \in Seq(Seq(Int)) /\ Len(q) = Len(c)
      /\ \A k \in 1 .. Len(c) : q[k] = WithLength(c[k])
  BY <1>1, <1>3
<1> HIDE DEF q
<1>5. Limited(q)
  BY <1>3, <1>4 DEF Limited
<1>6. PICK g \in [0 .. Len(q) -> Seq(Int)] : Accumulates(g, q, Len(q))
  BY <1>4, AccumulationExists
<1>7. f = g[Len(q)] /\ Len(f) <= 4000 * Len(q)
  BY <1>4, <1>5, <1>6, FlattenAccumulates, AccumulatedLength
<1>8. Values(g[Len(q)], Len(c)) = c
  <2>1. Prefixed(q, c)
    BY <1>3, <1>4 DEF Prefixed
  <2> QED BY <1>1, <1>4, <1>6, <2>1, ValuesAre
<1>9. f \in Seq(Int)
  <2>1. Len(q) \in 0 .. Len(q)
    BY <1>4
  <2> QED BY <1>6, <1>7, <2>1
<1>10. Len(c) \in Int32
  BY <1>1, ListNumbers
<1>11. l \in Seq(Int) /\ Len(l) = 4 /\ ByteToInt(l, 0) = Len(c)
  BY <1>10, IntBytes, IntRoundTrip
<1>12. Listing(c) = l \o f
  BY DEF Listing, q
<1> HIDE DEF l, f
<1>13. l \o f \in Seq(Int) /\ Len(l \o f) = 4 + Len(f) /\ Len(f) \in Nat
  BY <1>9, <1>11, Joined
<1>14. after(l \o f, 4) = f
  BY <1>9, <1>11, Rest
<1>15. byteListToInt(l \o f) = Len(c)
  <2> DEFINE w == l \o f
  <2>1. \A k \in 1 .. Len(l) : w[k] = l[k]
    BY ZenonT(30), <1>9, <1>11, Behind
  <2> HIDE DEF w
  <2>3. w[1] = l[1] /\ w[2] = l[2] /\ w[3] = l[3] /\ w[4] = l[4]
    BY <1>11, <2>1
  <2>4. ByteToInt(w, 0) = Len(c)
    BY <1>11, <2>3 DEF ByteToInt
  <2> QED BY <2>4 DEF byteListToInt, w
<1>16. ListElements(Listing(c)) = c
  BY <1>7, <1>8, <1>12, <1>14, <1>15 DEF ListElements
<1>17. Len(f) + 200 <= Longest
  <2> DEFINE n == Len(c)
             a == Len(f)
  <2>1. a \in Nat /\ n \in Nat /\ n <= LongestList /\ a <= 4000 * n
    BY <1>1, <1>4, <1>7, <1>13
  <2> HIDE DEF a, n
  <2>2. a + 200 <= Longest
    BY <2>1, ListBytes
  <2> QED BY <2>2 DEF a
<1>18. Len(Listing(c)) + 100 <= Longest
  <2> DEFINE a == Len(f)
  <2>1. a \in Nat /\ a + 200 <= Longest /\ Len(Listing(c)) = 4 + a /\ Longest \in Nat
    BY <1>12, <1>13, <1>17, Fits
  <2> HIDE DEF a
  <2> QED BY <2>1
<1> QED BY <1>12, <1>13, <1>16, <1>18

\* Some values one after another, each after its length: of a sensor five, ...
FiveWithLength(x) ==
  (((WithLength(x[1]) \o WithLength(x[2])) \o WithLength(x[3])) \o WithLength(x[4])) \o WithLength(x[5])

\* ... and of a point of a chart two
TwoWithLength(x) == WithLength(x[1]) \o WithLength(x[2])

\* n values that are small
Small(x, n) == Len(x) = n /\ \A k \in 1 .. n : Len(x[k]) <= 500

\* g[k] is the message up to the k-th value.
Assembles(g, x, n) ==
  g[0] = <<>> /\ \A k \in 1 .. n : g[k] = g[k - 1] \o WithLength(x[k])

\* The k-th value is behind those before it.
LEMMA Assembled ==
  ASSUME NEW g, NEW x, NEW n \in Nat, Assembles(g, x, n), NEW k \in 1 .. n
  PROVE  g[k] = g[k - 1] \o WithLength(x[k])
BY DEF Assembles

\* A small value after its length
LEMMA SmallFields ==
  ASSUME NEW n \in Nat, NEW x \in Seq(Seq(Int)), Small(x, n), NEW k \in 1 .. n
  PROVE  /\ Len(x[k]) \in Int32 /\ WithLength(x[k]) \in Seq(Int)
         /\ Len(WithLength(x[k])) \in 0 .. 504
<1> DEFINE y == x[k]
           l == Len(y)
<1>1. y \in Seq(Int) /\ l <= 500
  BY DEF Small
<1> HIDE DEF y
<1>2. l \in Nat
  BY <1>1
<1> HIDE DEF l
<1>3. l <= 3990 /\ 4 + l \in 0 .. 504
  BY <1>1, <1>2
<1> USE DEF l
<1>4. Len(y) \in Int32
  BY <1>1, <1>3, SmallLengths
<1>5. WithLength(y) \in Seq(Int) /\ Len(WithLength(y)) = 4 + Len(y)
  BY <1>1, <1>4, LengthFirst
<1> QED BY <1>3, <1>4, <1>5 DEF y

\* Values takes such a message apart.
LEMMA FieldsRead ==
  ASSUME NEW n \in Nat, NEW x \in Seq(Seq(Int)), Small(x, n)
  PROVE  \E g \in [0 .. n -> Seq(Int)] : Assembles(g, x, n) /\ Values(g[n], n) = x
<1> DEFINE q == [k \in 1 .. n |-> WithLength(x[k])]
<1>1. \A k \in 1 .. n : Len(x[k]) \in Int32 /\ WithLength(x[k]) \in Seq(Int)
  BY ZenonT(30), SmallFields
<1>2. q \in Seq(Seq(Int)) /\ Len(q) = n /\ \A k \in 1 .. n : q[k] = WithLength(x[k])
  BY <1>1
<1>3. Len(x) = n
  BY DEF Small
<1> HIDE DEF q
<1>4. Prefixed(q, x)
  BY <1>1, <1>2, <1>3 DEF Prefixed
<1>5. PICK g \in [0 .. Len(q) -> Seq(Int)] : Accumulates(g, q, Len(q))
  BY <1>2, AccumulationExists
<1>6. Values(g[Len(q)], Len(x)) = x
  BY <1>2, <1>4, <1>5, ValuesAre
<1>7. g \in [0 .. n -> Seq(Int)] /\ Assembles(g, x, n)
  BY <1>2, <1>5 DEF Accumulates, Assembles
<1> QED BY <1>2, <1>3, <1>6, <1>7

\* A small value after its length
Field == {y \in Seq(Int) : Len(y) \in 0 .. 504}

\* Five small values are brief enough for a list.
LEMMA FieldsJoined ==
  ASSUME NEW a \in Field, NEW b \in Field, NEW c \in Field, NEW d \in Field, NEW e \in Field
  PROVE  (((a \o b) \o c) \o d) \o e \in Brief /\ a \o b \in Brief
<1> DEFINE i == Len(a)
           j == Len(b)
           h == Len(c)
           m == Len(d)
           n == Len(e)
           s == a \o b
           t == s \o c
           u == t \o d
           v == u \o e
<1>1. a \in Seq(Int) /\ b \in Seq(Int) /\ c \in Seq(Int) /\ d \in Seq(Int) /\ e \in Seq(Int)
  BY ZenonT(30) DEF Field
<1>2. i \in 0 .. 504 /\ j \in 0 .. 504 /\ h \in 0 .. 504 /\ m \in 0 .. 504 /\ n \in 0 .. 504
  BY DEF Field
<1>3. s \in Seq(Int) /\ Len(s) = i + j
  BY <1>1, Joined
<1> HIDE DEF s
<1>4. t \in Seq(Int) /\ Len(t) = Len(s) + h
  BY <1>1, <1>3, Joined
<1> HIDE DEF t
<1>5. u \in Seq(Int) /\ Len(u) = Len(t) + m
  BY <1>1, <1>4, Joined
<1> HIDE DEF u
<1>6. v \in Seq(Int) /\ Len(v) = Len(u) + n
  BY <1>1, <1>5, Joined
<1> HIDE DEF v
<1> DEFINE S == Len(s)
           T == Len(t)
           U == Len(u)
           V == Len(v)
<1>7. S = i + j /\ T = S + h /\ U = T + m /\ V = U + n
  BY <1>3, <1>4, <1>5, <1>6
<1> HIDE DEF i, j, h, m, n, S, T, U, V
<1>8. S \in 0 .. 1008 /\ T \in 0 .. 1512 /\ U \in 0 .. 2016 /\ V \in 0 .. 2520
  <2>1. S \in 0 .. 1008
    BY <1>2, <1>7
  <2>2. T \in 0 .. 1512
    BY <1>2, <1>7, <2>1
  <2>3. U \in 0 .. 2016
    BY <1>2, <1>7, <2>2
  <2>4. V \in 0 .. 2520
    BY <1>2, <1>7, <2>3
  <2> QED BY <2>1, <2>2, <2>3, <2>4
<1>9. S <= 3990 /\ V <= 3990
  BY <1>8
<1>10. Len(v) <= 3990 /\ Len(s) <= 3990
  BY <1>9 DEF S, V
<1>11. v \in Brief /\ s \in Brief
  BY <1>3, <1>6, <1>10 DEF Brief
<1> QED BY Zenon, <1>11 DEF s, t, u, v

LEMMA Predecessors == 1 - 1 = 0 /\ 2 - 1 = 1 /\ 3 - 1 = 2 /\ 4 - 1 = 3 /\ 5 - 1 = 4
OBVIOUS

\* A row is read value by value, ...
LEMMA FiveValues ==
  ASSUME NEW x \in Seq(Seq(Int)), Small(x, 5)
  PROVE  FiveWithLength(x) \in Brief /\ Values(FiveWithLength(x), 5) = x
<1> DEFINE w(k) == WithLength(x[k])
<1>1. 5 \in Nat /\ 1 \in 1 .. 5 /\ 2 \in 1 .. 5 /\ 3 \in 1 .. 5 /\ 4 \in 1 .. 5 /\ 5 \in 1 .. 5
  OBVIOUS
<1>2. \A k \in 1 .. 5 : w(k) \in Field
  BY ZenonT(30), <1>1, SmallFields DEF Field
<1>3. PICK g \in [0 .. 5 -> Seq(Int)] : Assembles(g, x, 5) /\ Values(g[5], 5) = x
  BY Zenon, <1>1, FieldsRead
<1>4. g[0] = <<>> /\ \A k \in 1 .. 5 : g[k] = g[k - 1] \o w(k)
  BY <1>3 DEF Assembles
<1>5. FiveWithLength(x) = (((w(1) \o w(2)) \o w(3)) \o w(4)) \o w(5)
  BY DEF FiveWithLength
<1> HIDE DEF w
<1>6. /\ g[1] = g[1 - 1] \o w(1) /\ g[2] = g[2 - 1] \o w(2) /\ g[3] = g[3 - 1] \o w(3)
      /\ g[4] = g[4 - 1] \o w(4) /\ g[5] = g[5 - 1] \o w(5)
  BY Zenon, <1>1, <1>4
<1>7. 1 - 1 = 0 /\ 2 - 1 = 1 /\ 3 - 1 = 2 /\ 4 - 1 = 3 /\ 5 - 1 = 4
  BY Zenon, Predecessors
<1>8. w(1) \in Seq(Int)
  BY <1>1, <1>2 DEF Field
<1>9. <<>> \o w(1) = w(1)
  BY <1>8, ConcatEmptySeq
<1>10. g[5] = FiveWithLength(x)
  BY ZenonT(30), <1>4, <1>5, <1>6, <1>7, <1>9
<1> DEFINE a == w(1)
           b == w(2)
           c == w(3)
           d == w(4)
           e == w(5)
           all == (((a \o b) \o c) \o d) \o e
<1>11. a \in Field /\ b \in Field /\ c \in Field /\ d \in Field /\ e \in Field
  BY Zenon, <1>1, <1>2
<1>12. FiveWithLength(x) = all
  BY <1>5
<1> HIDE DEF a, b, c, d, e
<1>13. all \in Brief
  BY <1>11, FieldsJoined
<1> QED BY <1>3, <1>10, <1>12, <1>13

\* ... and so is a point.
LEMMA TwoValues ==
  ASSUME NEW x \in Seq(Seq(Int)), Small(x, 2)
  PROVE  TwoWithLength(x) \in Brief /\ Values(TwoWithLength(x), 2) = x
<1> DEFINE w(k) == WithLength(x[k])
<1>1. 2 \in Nat /\ 1 \in 1 .. 2 /\ 2 \in 1 .. 2
  OBVIOUS
<1>2. \A k \in 1 .. 2 : w(k) \in Field
  BY ZenonT(30), <1>1, SmallFields DEF Field
<1>3. PICK g \in [0 .. 2 -> Seq(Int)] : Assembles(g, x, 2) /\ Values(g[2], 2) = x
  BY Zenon, <1>1, FieldsRead
<1>4. g[0] = <<>> /\ \A k \in 1 .. 2 : g[k] = g[k - 1] \o w(k)
  BY <1>3 DEF Assembles
<1>5. TwoWithLength(x) = w(1) \o w(2)
  BY DEF TwoWithLength
<1> HIDE DEF w
<1>6. g[1] = g[1 - 1] \o w(1) /\ g[2] = g[2 - 1] \o w(2)
  BY Zenon, <1>1, <1>4
<1>7. 1 - 1 = 0 /\ 2 - 1 = 1
  BY Zenon, Predecessors
<1>8. w(1) \in Seq(Int)
  BY <1>1, <1>2 DEF Field
<1>9. <<>> \o w(1) = w(1)
  BY <1>8, ConcatEmptySeq
<1>10. g[2] = TwoWithLength(x)
  BY Zenon, <1>4, <1>5, <1>6, <1>7, <1>9
<1> DEFINE a == w(1)
           b == w(2)
           all == a \o b
<1>11. a \in Field /\ b \in Field
  BY Zenon, <1>1, <1>2
<1>12. TwoWithLength(x) = all
  BY <1>5
<1> HIDE DEF a, b
<1>13. all \in Brief
  BY <1>11, FieldsJoined
<1> QED BY <1>3, <1>10, <1>12, <1>13

-----------------------------------------------------------------------------
(* Responses *)

\* What is shown of a sensor and of a measurement
ListedSensors == [id : Int32, name : Short, ip : Short, port : Int32, connected : BOOLEAN]
ShownSensors == [id : Int32, name : Short, ip : Short, port : Int32, current : Int32]
Points == [value : Int32, label : Short]

AdministratorResponses ==
  [type : {Administrator!GET_ALL_SENSORS}, sensors : Lists(ListedSensors)]
    \cup [type : {Administrator!UPDATE_SENSOR_NAME, Administrator!REVOKE_SENSOR,
                  Administrator!DISCONNECT_SENSOR}, id : Int32]
    \cup [type : {Administrator!GENERATE_TOKEN}, token : Short]

MonitoringResponses ==
  [type : {Monitoring!GET_ALL_SENSORS_MONITORING}, sensors : Lists(ShownSensors)]
    \cup [type : {Monitoring!GET_SET_OF_MEASUREMENTS}, id : Int32, measurements : Lists(Points)]

\* The values of a response are written and read in the same way in both codecs.
LEMMA AdministratorValues ==
  /\ \A n : Administrator!IntToByte(n) = IntToByte(n)
  /\ \A n : Administrator!byteListToInt(n) = byteListToInt(n)
  /\ \A x : Administrator!WithLength(x) = WithLength(x)
  /\ \A x : Administrator!FlattenSeq(x) = FlattenSeq(x)
  /\ \A x : Administrator!byteListToString(x) = byteListToString(x)
  /\ \A x : Administrator!byteListToBoolean(x) = byteListToBoolean(x)
  /\ \A x : Administrator!BoolToByte(x) = BoolToByte(x)
  /\ \A m, i, j : Administrator!subList(m, i, j) = subList(m, i, j)
  /\ \A m, n : Administrator!Values(m, n) = Values(m, n)
  /\ \A m : Administrator!ListElements(m) = ListElements(m)
<1>1. \A n : Administrator!IntToByte(n) = IntToByte(n)
  BY DEF Administrator!IntToByte, IntToByte
<1>2. \A n : Administrator!byteListToInt(n) = byteListToInt(n)
  BY DEF Administrator!byteListToInt, byteListToInt, Administrator!ByteToInt, ByteToInt,
       Administrator!signed, signed
<1>3. \A x : Administrator!WithLength(x) = WithLength(x)
  BY <1>1 DEF Administrator!WithLength, WithLength
<1>4. \A x : Administrator!FlattenSeq(x) = FlattenSeq(x)
  BY DEF Administrator!FlattenSeq, FlattenSeq
<1>5. \A x : Administrator!byteListToString(x) = byteListToString(x)
  BY DEF Administrator!byteListToString, byteListToString
<1>6. \A x : Administrator!byteListToBoolean(x) = byteListToBoolean(x)
  BY DEF Administrator!byteListToBoolean, byteListToBoolean
<1>7. \A x : Administrator!BoolToByte(x) = BoolToByte(x)
  BY DEF Administrator!BoolToByte, BoolToByte
<1>8. \A m, i, j : Administrator!subList(m, i, j) = subList(m, i, j)
  BY DEF Administrator!subList, subList
<1>9. \A m, n : Administrator!Values(m, n) = Values(m, n)
  BY SMT DEF Administrator!Values, Values, Administrator!subList, subList, Administrator!byteListToInt, byteListToInt,
       Administrator!ByteToInt, ByteToInt, Administrator!signed, signed
<1>10. \A m : Administrator!ListElements(m) = ListElements(m)
  BY <1>2, <1>8, <1>9 DEF Administrator!ListElements, ListElements, Administrator!after, after
<1> QED BY <1>1, <1>2, <1>3, <1>4, <1>5, <1>6, <1>7, <1>8, <1>9, <1>10

LEMMA MonitoringValues ==
  /\ \A n : Monitoring!IntToByte(n) = IntToByte(n)
  /\ \A n : Monitoring!byteListToInt(n) = byteListToInt(n)
  /\ \A x : Monitoring!WithLength(x) = WithLength(x)
  /\ \A x : Monitoring!FlattenSeq(x) = FlattenSeq(x)
  /\ \A x : Monitoring!byteListToString(x) = byteListToString(x)
  /\ \A m, i, j : Monitoring!subList(m, i, j) = subList(m, i, j)
  /\ \A m, n : Monitoring!Values(m, n) = Values(m, n)
  /\ \A m : Monitoring!ListElements(m) = ListElements(m)
<1>1. \A n : Monitoring!IntToByte(n) = IntToByte(n)
  BY DEF Monitoring!IntToByte, IntToByte
<1>2. \A n : Monitoring!byteListToInt(n) = byteListToInt(n)
  BY DEF Monitoring!byteListToInt, byteListToInt, Monitoring!ByteToInt, ByteToInt,
       Monitoring!signed, signed
<1>3. \A x : Monitoring!WithLength(x) = WithLength(x)
  BY <1>1 DEF Monitoring!WithLength, WithLength
<1>4. \A x : Monitoring!FlattenSeq(x) = FlattenSeq(x)
  BY DEF Monitoring!FlattenSeq, FlattenSeq
<1>5. \A x : Monitoring!byteListToString(x) = byteListToString(x)
  BY DEF Monitoring!byteListToString, byteListToString
<1>6. \A m, i, j : Monitoring!subList(m, i, j) = subList(m, i, j)
  BY DEF Monitoring!subList, subList
<1>7. \A m, n : Monitoring!Values(m, n) = Values(m, n)
  BY SMT DEF Monitoring!Values, Values, Monitoring!subList, subList, Monitoring!byteListToInt, byteListToInt,
       Monitoring!ByteToInt, ByteToInt, Monitoring!signed, signed
<1>8. \A m : Monitoring!ListElements(m) = ListElements(m)
  BY <1>2, <1>6, <1>7 DEF Monitoring!ListElements, ListElements, Monitoring!after, after
<1> QED BY <1>1, <1>2, <1>3, <1>4, <1>5, <1>6, <1>7, <1>8

\* A number and a text that were written are read.
LEMMA NumberRead ==
  ASSUME NEW n \in Int32
  PROVE  /\ IntToByte(n) \in Seq(Int) /\ Len(IntToByte(n)) <= 500
         /\ byteListToInt(IntToByte(n)) = n
<1>1. IntToByte(n) \in Seq(Int) /\ Len(IntToByte(n)) = 4
  BY IntBytes
<1> QED BY <1>1, IntRoundTrip DEF byteListToInt

LEMMA TextRead ==
  ASSUME NEW text \in Short
  PROVE  /\ text \in Seq(Int) /\ Len(text) <= 500
         /\ byteListToString(text) = text
<1>1. text \in Seq(Characters) /\ Len(text) <= 500
  BY DEF Short
<1>2. text \in Seq(Int) /\ \A k \in 1 .. Len(text) : text[k] \in Characters
  BY <1>1, TextBytes
<1>3. \A k \in 1 .. Len(text) : text[k] < 128
  <2>1. \A c \in Characters : c < 128
    BY DEF Characters
  <2> QED BY <1>2, <2>1
<1>4. text = [k \in 1 .. Len(text) |-> text[k]]
  BY <1>2
<1>5. byteListToString(text) = [k \in 1 .. Len(text) |-> text[k]]
  BY <1>3 DEF byteListToString
<1> QED BY <1>1, <1>2, <1>4, <1>5

\* What the server writes before a value is its length.
LEMMA NumberWritten ==
  ASSUME NEW n \in Int32
  PROVE  constructIntMessageWithSize(n) = WithLength(IntToByte(n))
<1>1. Len(IntToByte(n)) = 4
  BY IntBytes
<1> QED BY <1>1 DEF constructIntMessageWithSize, WithLength

LEMMA BooleanWritten ==
  ASSUME NEW b \in BOOLEAN
  PROVE  /\ constructBoolMessageWithSize(b) = WithLength(BoolToByte(b))
         /\ BoolToByte(b) \in Seq(Int) /\ Len(BoolToByte(b)) <= 500
         /\ byteListToBoolean(BoolToByte(b)) = b
<1>1. Len(BoolToByte(b)) = 1 /\ BoolToByte(b) \in Seq(Int) /\ Len(BoolToByte(b)) <= 500
  BY DEF BoolToByte
<1>2. BoolToByte(b)[1] # 0 <=> b
  BY DEF BoolToByte
<1> QED BY <1>1, <1>2 DEF constructBoolMessageWithSize, WithLength, byteListToBoolean

\* Fields are written in the same way in both codecs.
LEMMA AdministratorWriters ==
  /\ \A v : Administrator!constructIntMessageWithSize(v) = constructIntMessageWithSize(v)
  /\ \A v : Administrator!constructBoolMessageWithSize(v) = constructBoolMessageWithSize(v)
  /\ \A v : Administrator!constructStringMessageWithSize(v) = WithLength(v)
BY AdministratorValues
   DEF Administrator!constructIntMessageWithSize, constructIntMessageWithSize,
       Administrator!constructBoolMessageWithSize, constructBoolMessageWithSize,
       Administrator!constructStringMessageWithSize, Administrator!StringToByte, WithLength,
       Administrator!BoolToByte, BoolToByte

LEMMA MonitoringWriters ==
  /\ \A v : Monitoring!constructIntMessageWithSize(v) = constructIntMessageWithSize(v)
  /\ \A v : Monitoring!constructStringMessageWithSize(v) = WithLength(v)
BY MonitoringValues
   DEF Monitoring!constructIntMessageWithSize, constructIntMessageWithSize,
       Monitoring!constructStringMessageWithSize, Monitoring!StringToByte, WithLength

\* Five values of a row
LEMMA FiveSmall ==
  ASSUME NEW a \in Seq(Int), NEW b \in Seq(Int), NEW c \in Seq(Int), NEW d \in Seq(Int), NEW e \in Seq(Int),
         Len(a) <= 500 /\ Len(b) <= 500 /\ Len(c) <= 500 /\ Len(d) <= 500 /\ Len(e) <= 500
  PROVE  << a, b, c, d, e >> \in Seq(Seq(Int)) /\ Small(<< a, b, c, d, e >>, 5)
<1> DEFINE x == << a, b, c, d, e >>
<1>1. x \in Seq(Seq(Int)) /\ Len(x) = 5
  OBVIOUS
<1>2. x[1] = a /\ x[2] = b /\ x[3] = c /\ x[4] = d /\ x[5] = e
  OBVIOUS
<1>3. \A k \in 1 .. 5 : k = 1 \/ k = 2 \/ k = 3 \/ k = 4 \/ k = 5
  OBVIOUS
<1> HIDE DEF x
<1>4. \A k \in 1 .. 5 : Len(x[k]) <= 500
  BY Zenon, <1>2, <1>3
<1> QED BY <1>1, <1>4 DEF Small, x

\* Two values of a point
LEMMA TwoSmall ==
  ASSUME NEW a \in Seq(Int), NEW b \in Seq(Int), Len(a) <= 500 /\ Len(b) <= 500
  PROVE  << a, b >> \in Seq(Seq(Int)) /\ Small(<< a, b >>, 2)
<1> DEFINE x == << a, b >>
<1>1. x \in Seq(Seq(Int)) /\ Len(x) = 2
  OBVIOUS
<1>2. x[1] = a /\ x[2] = b
  OBVIOUS
<1>3. \A k \in 1 .. 2 : k = 1 \/ k = 2
  OBVIOUS
<1> HIDE DEF x
<1>4. \A k \in 1 .. 2 : Len(x[k]) <= 500
  BY Zenon, <1>2, <1>3
<1> QED BY <1>1, <1>4 DEF Small, x

\* A row of the administrator's list is read as it was written, ...
LEMMA ListedRow ==
  ASSUME NEW sensor \in ListedSensors
  PROVE  /\ Administrator!constructSensorMessage(sensor) \in Brief
         /\ Administrator!constructSensorFromByteMessage(Administrator!constructSensorMessage(sensor)) = sensor
<1> DEFINE a == IntToByte(sensor.id)
           b == sensor.name
           c == sensor.ip
           d == IntToByte(sensor.port)
           e == BoolToByte(sensor.connected)
           x == << a, b, c, d, e >>
           m == Administrator!constructSensorMessage(sensor)
<1>1. /\ sensor.id \in Int32 /\ sensor.name \in Short /\ sensor.ip \in Short /\ sensor.port \in Int32
      /\ sensor.connected \in BOOLEAN
      /\ sensor = [id |-> sensor.id, name |-> sensor.name, ip |-> sensor.ip, port |-> sensor.port,
                   connected |-> sensor.connected]
  BY DEF ListedSensors
<1>2. /\ a \in Seq(Int) /\ Len(a) <= 500 /\ byteListToInt(a) = sensor.id
      /\ constructIntMessageWithSize(sensor.id) = WithLength(a)
  BY ZenonT(30), <1>1, NumberRead, NumberWritten
<1>3. b \in Seq(Int) /\ Len(b) <= 500 /\ byteListToString(b) = sensor.name
  BY Zenon, <1>1, TextRead
<1>4. c \in Seq(Int) /\ Len(c) <= 500 /\ byteListToString(c) = sensor.ip
  BY Zenon, <1>1, TextRead
<1>5. /\ d \in Seq(Int) /\ Len(d) <= 500 /\ byteListToInt(d) = sensor.port
      /\ constructIntMessageWithSize(sensor.port) = WithLength(d)
  BY ZenonT(30), <1>1, NumberRead, NumberWritten
<1>6. /\ e \in Seq(Int) /\ Len(e) <= 500 /\ byteListToBoolean(e) = sensor.connected
      /\ constructBoolMessageWithSize(sensor.connected) = WithLength(e)
  BY <1>1, BooleanWritten
<1>7. x[1] = a /\ x[2] = b /\ x[3] = c /\ x[4] = d /\ x[5] = e
  OBVIOUS
<1>8. m = (((WithLength(a) \o WithLength(b)) \o WithLength(c)) \o WithLength(d)) \o WithLength(e)
  BY Zenon, <1>2, <1>5, <1>6, AdministratorWriters DEF Administrator!constructSensorMessage
<1> HIDE DEF a, b, c, d, e
<1>9. x \in Seq(Seq(Int)) /\ Small(x, 5)
  BY <1>2, <1>3, <1>4, <1>5, <1>6, FiveSmall
<1> HIDE DEF x, m
<1>10. m = FiveWithLength(x)
  BY Zenon, <1>7, <1>8 DEF FiveWithLength
<1>11. m \in Brief /\ Administrator!Values(m, 5) = x
  BY <1>9, <1>10, FiveValues, AdministratorValues
<1>12. Administrator!constructSensorFromByteMessage(m) = sensor
  BY <1>1, <1>2, <1>3, <1>4, <1>5, <1>6, <1>7, <1>11, AdministratorValues
     DEF Administrator!constructSensorFromByteMessage
<1> QED BY <1>11, <1>12 DEF m

\* ... and so is one of the monitoring client's list ...
LEMMA ShownRow ==
  ASSUME NEW sensor \in ShownSensors
  PROVE  /\ Monitoring!constructSensorMessage(sensor) \in Brief
         /\ Monitoring!constructSensorFromByteMessage(Monitoring!constructSensorMessage(sensor)) = sensor
<1> DEFINE a == IntToByte(sensor.id)
           b == sensor.name
           c == sensor.ip
           d == IntToByte(sensor.port)
           e == IntToByte(sensor.current)
           x == << a, b, c, d, e >>
           m == Monitoring!constructSensorMessage(sensor)
<1>1. /\ sensor.id \in Int32 /\ sensor.name \in Short /\ sensor.ip \in Short /\ sensor.port \in Int32
      /\ sensor.current \in Int32
      /\ sensor = [id |-> sensor.id, name |-> sensor.name, ip |-> sensor.ip, port |-> sensor.port,
                   current |-> sensor.current]
  BY DEF ShownSensors
<1>2. /\ a \in Seq(Int) /\ Len(a) <= 500 /\ byteListToInt(a) = sensor.id
      /\ constructIntMessageWithSize(sensor.id) = WithLength(a)
  BY ZenonT(30), <1>1, NumberRead, NumberWritten
<1>3. b \in Seq(Int) /\ Len(b) <= 500 /\ byteListToString(b) = sensor.name
  BY Zenon, <1>1, TextRead
<1>4. c \in Seq(Int) /\ Len(c) <= 500 /\ byteListToString(c) = sensor.ip
  BY Zenon, <1>1, TextRead
<1>5. /\ d \in Seq(Int) /\ Len(d) <= 500 /\ byteListToInt(d) = sensor.port
      /\ constructIntMessageWithSize(sensor.port) = WithLength(d)
  BY ZenonT(30), <1>1, NumberRead, NumberWritten
<1>6. /\ e \in Seq(Int) /\ Len(e) <= 500 /\ byteListToInt(e) = sensor.current
      /\ constructIntMessageWithSize(sensor.current) = WithLength(e)
  BY ZenonT(30), <1>1, NumberRead, NumberWritten
<1>7. x[1] = a /\ x[2] = b /\ x[3] = c /\ x[4] = d /\ x[5] = e
  OBVIOUS
<1>8. m = (((WithLength(a) \o WithLength(b)) \o WithLength(c)) \o WithLength(d)) \o WithLength(e)
  BY Zenon, <1>2, <1>5, <1>6, MonitoringWriters DEF Monitoring!constructSensorMessage
<1> HIDE DEF a, b, c, d, e
<1>9. x \in Seq(Seq(Int)) /\ Small(x, 5)
  BY <1>2, <1>3, <1>4, <1>5, <1>6, FiveSmall
<1> HIDE DEF x, m
<1>10. m = FiveWithLength(x)
  BY Zenon, <1>7, <1>8 DEF FiveWithLength
<1>11. m \in Brief /\ Monitoring!Values(m, 5) = x
  BY <1>9, <1>10, FiveValues, MonitoringValues
<1>12. Monitoring!constructSensorFromByteMessage(m) = sensor
  BY <1>1, <1>2, <1>3, <1>4, <1>5, <1>6, <1>7, <1>11, MonitoringValues
     DEF Monitoring!constructSensorFromByteMessage
<1> QED BY <1>11, <1>12 DEF m

\* ... and a measurement.
LEMMA PointRow ==
  ASSUME NEW point \in Points, NEW id
  PROVE  /\ Monitoring!constructMeasurementMessage(point) \in Brief
         /\ Monitoring!constructMeasurementFromByteMessage(Monitoring!constructMeasurementMessage(point), id)
              = [id |-> id, value |-> point.value, label |-> point.label]
<1> DEFINE a == IntToByte(point.value)
           b == point.label
           x == << a, b >>
           m == Monitoring!constructMeasurementMessage(point)
<1>1. point.value \in Int32 /\ point.label \in Short
  BY DEF Points
<1>2. /\ a \in Seq(Int) /\ Len(a) <= 500 /\ byteListToInt(a) = point.value
      /\ constructIntMessageWithSize(point.value) = WithLength(a)
  BY ZenonT(30), <1>1, NumberRead, NumberWritten
<1>3. b \in Seq(Int) /\ Len(b) <= 500 /\ byteListToString(b) = point.label
  BY Zenon, <1>1, TextRead
<1>4. x[1] = a /\ x[2] = b
  OBVIOUS
<1>5. m = WithLength(a) \o WithLength(b)
  BY Zenon, <1>2, MonitoringWriters DEF Monitoring!constructMeasurementMessage
<1> HIDE DEF a, b
<1>6. x \in Seq(Seq(Int)) /\ Small(x, 2)
  BY <1>2, <1>3, TwoSmall
<1> HIDE DEF x, m
<1>7. m = TwoWithLength(x)
  BY Zenon, <1>4, <1>5 DEF TwoWithLength
<1>8. m \in Brief /\ Monitoring!Values(m, 2) = x
  BY <1>6, <1>7, TwoValues, MonitoringValues
<1>9. Monitoring!constructMeasurementFromByteMessage(m, id) = [id |-> id, value |-> point.value, label |-> point.label]
  BY <1>2, <1>3, <1>4, <1>8, MonitoringValues
     DEF Monitoring!constructMeasurementFromByteMessage
<1> QED BY <1>8, <1>9 DEF m

\* A number in front of others
LEMMA NumberFirst ==
  ASSUME NEW n \in Int32, NEW r \in Seq(Int)
  PROVE  /\ IntToByte(n) \o r \in Seq(Int) /\ Len(IntToByte(n) \o r) = 4 + Len(r)
         /\ byteListToInt(IntToByte(n) \o r) = n
         /\ byteListToInt(subList(IntToByte(n) \o r, 0, 4)) = n
         /\ after(IntToByte(n) \o r, 4) = r
<1> DEFINE l == IntToByte(n)
           m == l \o r
<1>1. l \in Seq(Int) /\ Len(l) = 4 /\ ByteToInt(l, 0) = n
  BY IntBytes, IntRoundTrip
<1> HIDE DEF l
<1>2. m \in Seq(Int) /\ Len(m) = 4 + Len(r) /\ after(m, 4) = r
  BY <1>1, Joined, Rest
<1>3. byteListToInt(m) = n
  <2>1. \A k \in 1 .. Len(l) : m[k] = l[k]
    BY ZenonT(30), <1>1, Behind
  <2> HIDE DEF m
  <2>2. m[1] = l[1] /\ m[2] = l[2] /\ m[3] = l[3] /\ m[4] = l[4]
    BY <1>1, <2>1
  <2>3. ByteToInt(m, 0) = n
    BY <1>1, <2>2 DEF ByteToInt
  <2> QED BY <2>3 DEF byteListToInt
<1>4. subList(m, 0, 4) = l
  <2>1. <<>> \in Seq(Int) /\ Len(<<>>) = 0
    OBVIOUS
  <2>2. subList(<<>> \o m, Len(<<>>), Len(<<>>) + Len(l)) = l
    BY Zenon, <1>1, <2>1, Middle
  <2>3. <<>> \o m = m
    BY <1>2, ConcatEmptySeq
  <2> HIDE DEF m
  <2> QED BY <1>1, <2>1, <2>2, <2>3
<1>5. byteListToInt(l) = n
  BY <1>1 DEF byteListToInt
<1> QED BY <1>2, <1>3, <1>4, <1>5 DEF l

\* The list of sensors, as the administrator's client reads it, ...
LEMMA ListedSensorsRead ==
  ASSUME NEW list \in Lists(ListedSensors)
  PROVE  /\ Administrator!constructSensorListMessage(list) \in Seq(Int)
         /\ Len(Administrator!constructSensorListMessage(list)) + 100 <= Longest
         /\ Administrator!constructSensors(Administrator!constructSensorListMessage(list)) = list
<1> DEFINE c == [i \in 1 .. Len(list) |-> Administrator!constructSensorMessage(list[i])]
           m == Administrator!constructSensorListMessage(list)
<1>1. list \in Seq(ListedSensors) /\ Len(list) \in Nat /\ Len(list) <= LongestList
  BY DEF Lists
<1>2. \A i \in 1 .. Len(list) :
        /\ Administrator!constructSensorMessage(list[i]) \in Brief
        /\ Administrator!constructSensorFromByteMessage(Administrator!constructSensorMessage(list[i])) = list[i]
  BY <1>1, ListedRow
<1>3. /\ c \in Seq(Brief) /\ Len(c) = Len(list) /\ DOMAIN c = 1 .. Len(list)
      /\ \A i \in 1 .. Len(list) : c[i] = Administrator!constructSensorMessage(list[i])
  BY <1>1, <1>2
<1>4. m = Listing(c)
  <2>1. [i \in 1 .. Len(list) |-> Administrator!WithLength(Administrator!constructSensorMessage(list[i]))]
        = [i \in 1 .. Len(c) |-> WithLength(c[i])]
    BY <1>3, AdministratorValues
  <2> HIDE DEF c
  <2> QED BY <1>3, <2>1, AdministratorValues DEF Listing, Administrator!constructSensorListMessage
<1> HIDE DEF c, m
<1>5. c \in Lists(Brief)
  BY <1>1, <1>3 DEF Lists
<1>6. m \in Seq(Int) /\ Len(m) + 100 <= Longest /\ ListElements(m) = c
  BY <1>4, <1>5, ListRead
<1>7. Administrator!constructSensors(m) = [i \in 1 .. Len(list) |-> list[i]]
  <2>1. Administrator!ListElements(m) = c
    BY <1>6, AdministratorValues
  <2> QED BY <1>2, <1>3, <2>1 DEF Administrator!constructSensors
<1>8. list = [i \in 1 .. Len(list) |-> list[i]]
  BY <1>1
<1> QED BY <1>6, <1>7, <1>8 DEF m

\* ... and as the monitoring client does
LEMMA ShownSensorsRead ==
  ASSUME NEW list \in Lists(ShownSensors)
  PROVE  /\ Monitoring!constructSensorListMessage(list) \in Seq(Int)
         /\ Len(Monitoring!constructSensorListMessage(list)) + 100 <= Longest
         /\ Monitoring!constructSensors(Monitoring!constructSensorListMessage(list)) = list
<1> DEFINE c == [i \in 1 .. Len(list) |-> Monitoring!constructSensorMessage(list[i])]
           m == Monitoring!constructSensorListMessage(list)
<1>1. list \in Seq(ShownSensors) /\ Len(list) \in Nat /\ Len(list) <= LongestList
  BY DEF Lists
<1>2. \A i \in 1 .. Len(list) :
        /\ Monitoring!constructSensorMessage(list[i]) \in Brief
        /\ Monitoring!constructSensorFromByteMessage(Monitoring!constructSensorMessage(list[i])) = list[i]
  BY <1>1, ShownRow
<1>3. /\ c \in Seq(Brief) /\ Len(c) = Len(list) /\ DOMAIN c = 1 .. Len(list)
      /\ \A i \in 1 .. Len(list) : c[i] = Monitoring!constructSensorMessage(list[i])
  BY <1>1, <1>2
<1>4. m = Listing(c)
  <2>1. [i \in 1 .. Len(list) |-> Monitoring!WithLength(Monitoring!constructSensorMessage(list[i]))]
        = [i \in 1 .. Len(c) |-> WithLength(c[i])]
    BY <1>3, MonitoringValues
  <2> HIDE DEF c
  <2> QED BY <1>3, <2>1, MonitoringValues DEF Listing, Monitoring!constructSensorListMessage
<1> HIDE DEF c, m
<1>5. c \in Lists(Brief)
  BY <1>1, <1>3 DEF Lists
<1>6. m \in Seq(Int) /\ Len(m) + 100 <= Longest /\ ListElements(m) = c
  BY <1>4, <1>5, ListRead
<1>7. Monitoring!constructSensors(m) = [i \in 1 .. Len(list) |-> list[i]]
  <2>1. Monitoring!ListElements(m) = c
    BY <1>6, MonitoringValues
  <2> QED BY <1>2, <1>3, <2>1 DEF Monitoring!constructSensors
<1>8. list = [i \in 1 .. Len(list) |-> list[i]]
  BY <1>1
<1> QED BY <1>6, <1>7, <1>8 DEF m

\* The elements of a list of points are the points it was made of.
LEMMA PointsListed ==
  ASSUME NEW list \in Lists(Points)
  PROVE  LET m == Monitoring!constructMeasurementsListMessage(list) IN
         /\ m \in Seq(Int) /\ Len(m) + 100 <= Longest
         /\ Len(ListElements(m)) = Len(list) /\ DOMAIN ListElements(m) = 1 .. Len(list)
         /\ \A i \in 1 .. Len(list) :
              ListElements(m)[i] = Monitoring!constructMeasurementMessage(list[i])
<1> DEFINE c == [i \in 1 .. Len(list) |-> Monitoring!constructMeasurementMessage(list[i])]
           m == Monitoring!constructMeasurementsListMessage(list)
<1>1. list \in Seq(Points) /\ Len(list) \in Nat /\ Len(list) <= LongestList
  BY DEF Lists
<1>2. \A i \in 1 .. Len(list) : Monitoring!constructMeasurementMessage(list[i]) \in Brief
  BY <1>1, PointRow
<1>3. /\ c \in Seq(Brief) /\ Len(c) = Len(list) /\ DOMAIN c = 1 .. Len(list)
      /\ \A i \in 1 .. Len(list) : c[i] = Monitoring!constructMeasurementMessage(list[i])
  BY <1>1, <1>2
<1>4. m = Listing(c)
  <2>1. [i \in 1 .. Len(list) |-> Monitoring!WithLength(Monitoring!constructMeasurementMessage(list[i]))]
        = [i \in 1 .. Len(c) |-> WithLength(c[i])]
    BY <1>3, MonitoringValues
  <2> HIDE DEF c
  <2> QED BY <1>3, <2>1, MonitoringValues DEF Listing, Monitoring!constructMeasurementsListMessage
<1> HIDE DEF c, m
<1>5. c \in Lists(Brief)
  BY <1>1, <1>3 DEF Lists
<1>6. m \in Seq(Int) /\ Len(m) + 100 <= Longest /\ ListElements(m) = c
  BY <1>4, <1>5, ListRead
<1> QED BY <1>3, <1>6 DEF m

\* The points of a chart are all of the sensor that is named in front of them.
LEMMA PointsRead ==
  ASSUME NEW list \in Lists(Points), NEW id \in Int32, NEW r,
         r = IntToByte(id) \o Monitoring!constructMeasurementsListMessage(list)
  PROVE  /\ r \in Seq(Int) /\ Len(r) + 50 <= Longest
         /\ Monitoring!constructMeasurements(r)
              = [i \in 1 .. Len(list) |-> [id |-> id, value |-> list[i].value, label |-> list[i].label]]
<1> DEFINE m == Monitoring!constructMeasurementsListMessage(list)
           c == ListElements(m)
<1>1. list \in Seq(Points) /\ Len(list) \in Nat
  BY DEF Lists
<1>2. \A i \in 1 .. Len(list) :
        Monitoring!constructMeasurementFromByteMessage(Monitoring!constructMeasurementMessage(list[i]), id)
          = [id |-> id, value |-> list[i].value, label |-> list[i].label]
  BY <1>1, PointRow
<1>3. /\ m \in Seq(Int) /\ Len(m) + 100 <= Longest
      /\ DOMAIN c = 1 .. Len(list)
      /\ \A i \in 1 .. Len(list) : c[i] = Monitoring!constructMeasurementMessage(list[i])
  BY PointsListed
<1>4. r = IntToByte(id) \o m
  OBVIOUS
<1>7. m \in Seq(Int) /\ Len(m) + 100 <= Longest /\ ListElements(m) = c
  BY <1>3
<1> HIDE DEF c, m
<1>8. /\ r \in Seq(Int) /\ Len(r) = 4 + Len(m) /\ byteListToInt(r) = id /\ after(r, 4) = m
  BY <1>4, <1>7, NumberFirst
<1>9. Len(r) + 50 <= Longest
  <2> DEFINE n == Len(m)
  <2>1. n \in Nat /\ n + 100 <= Longest /\ Longest \in Nat /\ Len(r) = 4 + n
    BY <1>7, <1>8, Fits
  <2> HIDE DEF n
  <2> QED BY <2>1
<1>10. Monitoring!constructMeasurements(r)
         = [i \in 1 .. Len(list) |-> [id |-> id, value |-> list[i].value, label |-> list[i].label]]
  <2>1. Monitoring!after(r, 4) = after(r, 4)
    BY DEF Monitoring!after, after, Monitoring!subList, subList
  <2>2. Monitoring!ListElements(Monitoring!after(r, 4)) = c /\ Monitoring!byteListToInt(r) = id
    BY <1>7, <1>8, <2>1, MonitoringValues
  <2> QED BY <1>2, <1>3, <2>2 DEF Monitoring!constructMeasurements
<1> QED BY <1>8, <1>9, <1>10

\* The frame around a response
LEMMA ResponseFramed ==
  ASSUME NEW m \in Seq(Int), Len(m) <= Longest
  PROVE  Unframed(addPrefixMessageSize(m)) = m
<1>1. Len(m) \in Nat
  OBVIOUS
<1> DEFINE n == Len(m)
<1>2. n \in Nat /\ n <= Longest
  BY <1>1
<1> HIDE DEF n
<1>3. n <= Longest + 200
  BY <1>2, Fits
<1>4. n \in Int32
  BY <1>2, <1>3, Fits
<1>5. Len(m) \in Int32
  BY <1>4 DEF n
<1> QED BY <1>5, FrameRoundTrip

\* A response is its type and the rest.
LEMMA TypeFirst ==
  ASSUME NEW n \in 0 .. 4, NEW r \in Seq(Int), Len(r) + 50 <= Longest, NEW m, m = IntToByte(n) \o r
  PROVE  /\ Unframed(addPrefixMessageSize(m)) = m
         /\ Administrator!byteListToInt(Administrator!subList(m, 0, 4)) = n /\ Administrator!after(m, 4) = r
         /\ Monitoring!byteListToInt(Monitoring!subList(m, 0, 4)) = n /\ Monitoring!after(m, 4) = r
<1>1. n \in Int32
  <2>1. n \in 0 .. 200
    OBVIOUS
  <2> QED BY <2>1, SmallNumbers
<1>2. /\ m \in Seq(Int) /\ Len(m) = 4 + Len(r)
      /\ byteListToInt(subList(m, 0, 4)) = n /\ after(m, 4) = r
  BY <1>1, NumberFirst
<1>3. Len(m) <= Longest
  <2> DEFINE k == Len(r)
  <2>1. k \in Nat /\ k + 50 <= Longest /\ Longest \in Nat /\ Len(m) = 4 + k
    BY <1>2, Fits
  <2> HIDE DEF k
  <2> QED BY <2>1
<1>4. Administrator!after(m, 4) = r /\ Monitoring!after(m, 4) = r
  BY <1>2 DEF Administrator!after, Monitoring!after, after, Administrator!subList, Monitoring!subList, subList
<1> QED BY <1>2, <1>3, <1>4, ResponseFramed, AdministratorValues, MonitoringValues

\* An int or a short text fits.
LEMMA ShortFits ==
  ASSUME NEW r \in Seq(Int), Len(r) <= 504
  PROVE  Len(r) + 50 <= Longest
<1> DEFINE k == Len(r)
<1>1. k \in Nat /\ k <= 504
  OBVIOUS
<1> HIDE DEF k
<1>2. k + 50 <= Longest
  BY SMT, <1>1 DEF Longest
<1> QED BY <1>2 DEF k

\* The administrator's client reads every response as the server meant it, lists of any
\* sensors among them (SerializerAdministratorMessage, ConnectionUtil, CommunicationManager).
THEOREM AdministratorResponseRead ==
  ASSUME NEW response \in AdministratorResponses
  PROVE  ResponseRead("administrator", response) = response
<1> DEFINE m == Administrator!serializeResponseMessage(response)
           Good == Unframed(addPrefixMessageSize(m)) = m /\ Administrator!analyzeResponse(m) = response
<1> SUFFICES Good
  BY DEF ResponseRead
<1> USE DEF Administrator!GET_ALL_SENSORS, Administrator!UPDATE_SENSOR_NAME, Administrator!REVOKE_SENSOR,
        Administrator!DISCONNECT_SENSOR, Administrator!GENERATE_TOKEN
<1>1. CASE response \in [type : {Administrator!GET_ALL_SENSORS}, sensors : Lists(ListedSensors)]
  <2> DEFINE list == response.sensors
             r == Administrator!constructSensorListMessage(list)
  <2>1. response = [type |-> 0, sensors |-> list] /\ list \in Lists(ListedSensors)
    BY <1>1
  <2>2. m = IntToByte(0) \o r
    BY SMTT(30), <2>1, AdministratorValues DEF Administrator!serializeResponseMessage, Administrator!constructGetAllSensorsMessage
  <2> HIDE DEF list, m
  <2>3. r \in Seq(Int) /\ Len(r) + 100 <= Longest /\ Administrator!constructSensors(r) = list
    BY <2>1, ListedSensorsRead
  <2> HIDE DEF r
  <2>4. Len(r) + 50 <= Longest
    <3> DEFINE k == Len(r)
    <3>1. k \in Nat /\ k + 100 <= Longest /\ Longest \in Nat
      BY <2>3, Fits
    <3> HIDE DEF k
    <3>2. k + 50 <= Longest
      BY <3>1
    <3> QED BY <3>2 DEF k
  <2>5. /\ Unframed(addPrefixMessageSize(m)) = m
        /\ Administrator!byteListToInt(Administrator!subList(m, 0, 4)) = 0 /\ Administrator!after(m, 4) = r
    <3>1. 0 \in 0 .. 4
      OBVIOUS
    <3> QED BY Zenon, <2>2, <2>3, <2>4, <3>1, TypeFirst
  <2>6. Administrator!analyzeResponse(m) = [type |-> 0, sensors |-> list]
    BY <2>3, <2>5 DEF Administrator!analyzeResponse
  <2> QED BY <2>1, <2>5, <2>6
<1>2. CASE response \in [type : {Administrator!UPDATE_SENSOR_NAME, Administrator!REVOKE_SENSOR,
                                 Administrator!DISCONNECT_SENSOR}, id : Int32]
  <2> DEFINE n == response.type
             id == response.id
             r == IntToByte(id)
  <2>1. response = [type |-> n, id |-> id] /\ n \in {1, 2, 3} /\ id \in Int32
    BY <1>2
  <2>2. m = IntToByte(n) \o r
    <3>1. response.type = n /\ response.id = id
      OBVIOUS
    <3> HIDE DEF n, id
    <3>2. n = 1 \/ n = 2 \/ n = 3
      BY <2>1
    <3>3. CASE n = 1
      <4>1. m = Administrator!IntToByte(1) \o Administrator!IntToByte(id)
        BY <3>1, <3>3 DEF Administrator!serializeResponseMessage, Administrator!constructUpdateSensorNameMessage
      <4> QED BY <3>3, <4>1, AdministratorValues
    <3>4. CASE n = 2
      <4>1. m = Administrator!IntToByte(2) \o Administrator!IntToByte(id)
        BY <3>1, <3>4 DEF Administrator!serializeResponseMessage, Administrator!constructRevokeSensorMessage
      <4> QED BY <3>4, <4>1, AdministratorValues
    <3>5. CASE n = 3
      <4>1. m = Administrator!IntToByte(3) \o Administrator!IntToByte(id)
        BY <3>1, <3>5 DEF Administrator!serializeResponseMessage, Administrator!constructDisconnectSensorMessage
      <4> QED BY <3>5, <4>1, AdministratorValues
    <3> QED BY <3>2, <3>3, <3>4, <3>5
  <2> HIDE DEF n, id, m
  <2>3. r \in Seq(Int) /\ Len(r) <= 504 /\ byteListToInt(r) = id
    <3>1. r \in Seq(Int) /\ Len(r) = 4 /\ byteListToInt(r) = id
      BY <2>1, IntBytes, NumberRead
    <3> QED BY <3>1
  <2> HIDE DEF r
  <2>4. Len(r) + 50 <= Longest
    BY <2>3, ShortFits
  <2>5. /\ Unframed(addPrefixMessageSize(m)) = m
        /\ Administrator!byteListToInt(Administrator!subList(m, 0, 4)) = n /\ Administrator!after(m, 4) = r
    <3>1. n \in 0 .. 4
      BY <2>1
    <3> QED BY <2>2, <2>3, <2>4, <3>1, TypeFirst
  <2>6. Administrator!byteListToInt(r) = id
    BY <2>3, AdministratorValues
  <2>7. Administrator!analyzeResponse(m) = [type |-> n, id |-> id]
    BY <2>1, <2>5, <2>6 DEF Administrator!analyzeResponse
  <2> QED BY <2>1, <2>5, <2>7
<1>3. CASE response \in [type : {Administrator!GENERATE_TOKEN}, token : Short]
  <2> DEFINE token == response.token
             r == WithLength(token)
  <2>1. response = [type |-> 4, token |-> token] /\ token \in Short
    BY <1>3
  <2>2. m = IntToByte(4) \o r
    BY <2>1, AdministratorValues, AdministratorWriters
       DEF Administrator!serializeResponseMessage, Administrator!constructGenerateTokenMessage
  <2> HIDE DEF token, m
  <2>3. token \in Seq(Int) /\ Len(token) <= 500 /\ byteListToString(token) = token
    BY <2>1, TextRead
  <2>4. Len(token) \in Int32 /\ Len(token) \in Nat
    <3> DEFINE k == Len(token)
    <3>1. k \in Nat /\ k <= 500
      BY <2>3
    <3> HIDE DEF k
    <3>2. k <= 3990
      BY <3>1
    <3> USE DEF k
    <3> QED BY <2>3, <3>2, SmallLengths
  <2>5. r \in Seq(Int) /\ Len(r) = 4 + Len(token) /\ after(r, 4) = token
    BY <2>3, <2>4, NumberFirst DEF WithLength
  <2> HIDE DEF r
  <2>6. Len(r) + 50 <= Longest
    <3> DEFINE k == Len(token)
    <3>1. k \in Nat /\ k <= 500 /\ Len(r) = 4 + k
      BY <2>3, <2>4, <2>5
    <3> HIDE DEF k
    <3>2. Len(r) <= 504
      BY <3>1
    <3> QED BY <2>5, <3>2, ShortFits
  <2>7. /\ Unframed(addPrefixMessageSize(m)) = m
        /\ Administrator!byteListToInt(Administrator!subList(m, 0, 4)) = 4 /\ Administrator!after(m, 4) = r
    <3>1. 4 \in 0 .. 4
      OBVIOUS
    <3> QED BY Zenon, <2>2, <2>5, <2>6, <3>1, TypeFirst
  <2>8. Administrator!analyzeGenerateTokenResponse(r) = token
    <3>1. Administrator!after(r, 4) = after(r, 4)
      BY DEF Administrator!after, after, Administrator!subList, subList
    <3> QED BY <2>3, <2>5, <3>1, AdministratorValues DEF Administrator!analyzeGenerateTokenResponse
  <2>9. Administrator!analyzeResponse(m) = [type |-> 4, token |-> token]
    BY <2>7, <2>8 DEF Administrator!analyzeResponse
  <2> QED BY <2>1, <2>7, <2>9
<1> QED BY <1>1, <1>2, <1>3 DEF AdministratorResponses

\* The monitoring client reads every response as the server meant it, and notes at every
\* point of a chart whose it is.
THEOREM MonitoringResponseRead ==
  ASSUME NEW response \in MonitoringResponses
  PROVE  ResponseRead("monitoring", response)
           = IF "measurements" \in DOMAIN response
             THEN [type |-> response.type,
                   measurements |-> [i \in 1 .. Len(response.measurements) |->
                     [id |-> response.id, value |-> response.measurements[i].value,
                      label |-> response.measurements[i].label]]]
             ELSE response
<1> DEFINE m == Monitoring!serializeResponseMessage(response)
<1> USE DEF Monitoring!GET_ALL_SENSORS_MONITORING, Monitoring!GET_SET_OF_MEASUREMENTS
<1>1. CASE response \in [type : {Monitoring!GET_ALL_SENSORS_MONITORING}, sensors : Lists(ShownSensors)]
  <2> DEFINE list == response.sensors
             r == Monitoring!constructSensorListMessage(list)
  <2>1. response = [type |-> 0, sensors |-> list] /\ list \in Lists(ShownSensors)
    BY <1>1
  <2>2. m = IntToByte(0) \o r
    BY <2>1, MonitoringValues DEF Monitoring!serializeResponseMessage, Monitoring!constructGetAllSensorsMessage
  <2>3. "measurements" \notin DOMAIN response
    BY <2>1
  <2> HIDE DEF list
  <2>4. r \in Seq(Int) /\ Len(r) + 100 <= Longest /\ Monitoring!constructSensors(r) = list
    BY <2>1, ShownSensorsRead
  <2> HIDE DEF r
  <2>5. Len(r) + 50 <= Longest
    <3> DEFINE k == Len(r)
    <3>1. k \in Nat /\ k + 100 <= Longest /\ Longest \in Nat
      BY <2>4, Fits
    <3> HIDE DEF k
    <3>2. k + 50 <= Longest
      BY <3>1
    <3> QED BY <3>2 DEF k
  <2> HIDE DEF m
  <2>6. /\ Unframed(addPrefixMessageSize(m)) = m
        /\ Monitoring!byteListToInt(Monitoring!subList(m, 0, 4)) = 0 /\ Monitoring!after(m, 4) = r
    <3>1. 0 \in 0 .. 4
      OBVIOUS
    <3> QED BY Zenon, <2>2, <2>4, <2>5, <3>1, TypeFirst
  <2>7. Monitoring!analyzeResponse(m) = [type |-> 0, sensors |-> list]
    BY <2>4, <2>6 DEF Monitoring!analyzeResponse
  <2>8. ResponseRead("monitoring", response) = Monitoring!analyzeResponse(Unframed(addPrefixMessageSize(m)))
    BY DEF ResponseRead, m
  <2> QED BY <2>1, <2>3, <2>6, <2>7, <2>8
<1>2. CASE response \in [type : {Monitoring!GET_SET_OF_MEASUREMENTS}, id : Int32, measurements : Lists(Points)]
  <2> DEFINE list == response.measurements
             id == response.id
             r == IntToByte(id) \o Monitoring!constructMeasurementsListMessage(list)
             shown == [i \in 1 .. Len(list) |-> [id |-> id, value |-> list[i].value, label |-> list[i].label]]
  <2>1. /\ response = [type |-> 1, id |-> id, measurements |-> list]
        /\ id \in Int32 /\ list \in Lists(Points)
    BY <1>2
  <2>2. m = IntToByte(1) \o r
    <3>1. m = (IntToByte(1) \o IntToByte(id)) \o Monitoring!constructMeasurementsListMessage(list)
      BY <2>1, MonitoringValues DEF Monitoring!serializeResponseMessage, Monitoring!constructGetSetOfMeasurements
    <3>2. 1 \in Int32
      BY SmallNumbers
    <3> DEFINE c == Monitoring!constructMeasurementsListMessage(list)
    <3>3. IntToByte(1) \in Seq(Int) /\ IntToByte(id) \in Seq(Int) /\ c \in Seq(Int)
      BY <2>1, <3>2, IntBytes, PointsListed
    <3> HIDE DEF c
    <3>4. (IntToByte(1) \o IntToByte(id)) \o c = IntToByte(1) \o (IntToByte(id) \o c)
      BY Zenon, <3>3, Regroup
    <3> QED BY <3>1, <3>4 DEF c
  <2>3. "measurements" \in DOMAIN response /\ response.type = 1
    BY <2>1
  <2> HIDE DEF list, id
  <2>4. r \in Seq(Int) /\ Len(r) + 50 <= Longest /\ Monitoring!constructMeasurements(r) = shown
    BY <2>1, PointsRead
  <2> HIDE DEF r, shown, m
  <2>5. /\ Unframed(addPrefixMessageSize(m)) = m
        /\ Monitoring!byteListToInt(Monitoring!subList(m, 0, 4)) = 1 /\ Monitoring!after(m, 4) = r
    <3>1. 1 \in 0 .. 4
      OBVIOUS
    <3> QED BY Zenon, <2>2, <2>4, <3>1, TypeFirst
  <2>6. Monitoring!analyzeResponse(m) = [type |-> 1, measurements |-> shown]
    BY <2>4, <2>5 DEF Monitoring!analyzeResponse
  <2>7. ResponseRead("monitoring", response) = Monitoring!analyzeResponse(Unframed(addPrefixMessageSize(m)))
    BY DEF ResponseRead, m
  <2> QED BY <2>3, <2>5, <2>6, <2>7 DEF shown, list, id
<1> QED BY <1>1, <1>2 DEF MonitoringResponses

=============================================================================
