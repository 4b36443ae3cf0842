-------------------------- MODULE StaticPathProofs --------------------------
(***************************************************************************)
(* Proofs about normalize_static_path, for paths of any length over any    *)
(* bytes and any number of passes: what is accepted stays below the asset  *)
(* root however its encodings are decoded later, and what is refused would *)
(* not, or goes on changing for more passes than there are.                *)
(*                                                                         *)
(* Texts are taken apart from the left, into a byte or an encoded byte and *)
(* the rest, and a claim about a recursive function is proved by induction *)
(* on the length.  The argument, in the order of the sections:             *)
(*   - Decode and Collapsed, a byte at a time;                             *)
(*   - decoding one byte and then all of them is decoding all of them, or  *)
(*     that and then one more byte (DecodeOfReduct);                       *)
(*   - what is bad in a text is still bad when the rest is decoded, so a   *)
(*     text is inside if what it decodes to is (InsideOfDecode);           *)
(*   - collapsing separators keeps a text inside, and can be done before   *)
(*     or after decoding (CollapsingAgrees);                               *)
(*   - hence decoding a byte of a durable text, and collapsing it, leave   *)
(*     a durable text, no deeper than before;                              *)
(*   - the readings of a text are the texts that decoding a byte at a time *)
(*     reaches, and decoding all bytes reaches one of them;                *)
(*   - the passes come to an end at a text without an encoding (PassesEnd);*)
(*   - the probe of a path is one of its readings, and what the passes so  *)
(*     far made of it (PathInv).                                           *)
(***************************************************************************)
EXTENDS StaticPath, Recursion, SequenceTheorems, FiniteSetTheorems

Bytes ==
    RawBytes \cup {"%", "/", ":", ".", "2", "3", "5", "Z", "_"}
        \cup {"continuation", "lead of 3", "lead of 4", "no UTF-8"}
Texts == Seq(Bytes)
Hex == Digits \cap Bytes

\* A byte and the rest of a text.
Join(c, r) == <<c>> \o r

-----------------------------------------------------------------------------
(* Texts *)

LEMMA ByteIsByte ==
    ASSUME NEW high, NEW low
    PROVE  Byte(high, low) \in Bytes \ {"\\"}
<1>1. \/ Byte(high, low) \in {"%", ".", "/", ":", "Z", "_"}
      \/ Byte(high, low) \in {"continuation", "lead of 3", "lead of 4", "no UTF-8"}
      \/ low \in {"2", "3", "5"} /\ Byte(high, low) = low
    BY DEF Byte
<1> QED
    BY <1>1 DEF Bytes

LEMMA ConsText ==
    ASSUME NEW c \in Bytes, NEW r \in Texts
    PROVE  /\ Join(c, r) \in Texts /\ Len(Join(c, r)) = Len(r) + 1
           /\ Len(r) \in Nat /\ Join(c, r)[1] = c
           /\ \A i \in 1..Len(r) : Join(c, r)[i + 1] = r[i]
<1>1. <<c>> \in Texts /\ Len(<<c>>) = 1 /\ <<c>>[1] = c
    BY DEF Texts
<1>2. /\ Join(c, r) \in Texts /\ Len(Join(c, r)) = 1 + Len(r)
      /\ \A i \in 1..1 + Len(r) : Join(c, r)[i] = IF i <= 1 THEN <<c>>[i] ELSE r[i - 1]
    BY <1>1, ConcatProperties DEF Texts, Join
<1>3. Len(r) \in Nat
    BY DEF Texts
<1>4. \A i \in 1..Len(r) : i + 1 \in 1..1 + Len(r) /\ ~(i + 1 <= 1) /\ (i + 1) - 1 = i
    BY <1>3
<1>5. 1 \in 1..1 + Len(r) /\ 1 <= 1 /\ 1 + Len(r) = Len(r) + 1
    BY <1>3
<1>6. \A i \in 1..Len(r) : Join(c, r)[i + 1] = r[i]
    BY <1>2, <1>4
<1> QED
    BY <1>1, <1>2, <1>3, <1>5, <1>6

LEMMA EmptyText == <<>> \in Texts /\ Len(<<>>) = 0
BY DEF Texts

\* A text is empty, or a byte and a text.
LEMMA TextCases ==
    ASSUME NEW t \in Texts, t # <<>>
    PROVE  \E c \in Bytes, r \in Texts : t = Join(c, r)
<1>1. Len(t) \in Nat \ {0}
    BY EmptySeq DEF Texts
<1>2. Head(t) \in Bytes /\ Tail(t) \in Texts /\ Len(Tail(t)) = Len(t) - 1
      /\ \A i \in 1..Len(Tail(t)) : Tail(t)[i] = t[i + 1]
    BY HeadTailProperties DEF Texts
<1>3. Head(t) = t[1]
    BY <1>1 DEF Texts
<1> DEFINE u == Join(Head(t), Tail(t))
<1>4. /\ u \in Texts /\ Len(u) = Len(t) /\ u[1] = t[1]
      /\ \A i \in 1..Len(Tail(t)) : u[i + 1] = t[i + 1]
  <2>1. /\ u \in Texts /\ Len(u) = Len(Tail(t)) + 1 /\ u[1] = Head(t)
        /\ \A i \in 1..Len(Tail(t)) : u[i + 1] = Tail(t)[i]
      BY <1>2, ConsText
  <2> HIDE DEF u
  <2> QED
      BY <2>1, <1>1, <1>2, <1>3
<1>5. ASSUME NEW i \in 1..Len(t) PROVE u[i] = t[i]
  <2>1. CASE i = 1
      BY <2>1, <1>4
  <2>2. CASE i # 1
    <3>1. PICK j \in 1..Len(Tail(t)) : i = j + 1
      <4>1. i - 1 \in 1..Len(Tail(t)) /\ i = (i - 1) + 1
          BY <2>2, <1>1, <1>2
      <4> QED
          BY <4>1
    <3> QED
        BY <3>1, <1>4
  <2> QED
      BY <2>1, <2>2
<1>6. t = u
    BY <1>4, <1>5, SeqEqual DEF Texts
<1> QED
    BY <1>2, <1>6

\* The rest of a text, and its first byte, are determined.
RestOf(t) == [i \in 1..Len(t) - 1 |-> t[i + 1]]

LEMMA JoinParts ==
    ASSUME NEW c \in Bytes, NEW r \in Texts
    PROVE  Join(c, r)[1] = c /\ RestOf(Join(c, r)) = r
<1> DEFINE t == Join(c, r)
<1>1. /\ t[1] = c /\ Len(t) = Len(r) + 1 /\ Len(r) \in Nat
      /\ \A i \in 1..Len(r) : t[i + 1] = r[i]
    BY ConsText
<1> HIDE DEF t
<1>2. Len(t) - 1 = Len(r)
    BY <1>1
<1>3. r = [i \in 1..Len(r) |-> r[i]]
    BY DEF Texts
<1>4. RestOf(t) = [i \in 1..Len(r) |-> r[i]]
    BY <1>1, <1>2 DEF RestOf
<1> QED
    BY <1>1, <1>3, <1>4 DEF t

IsJoin(t, c, r) == t[1] = c /\ RestOf(t) = r

LEMMA Joined ==
    ASSUME NEW c \in Bytes, NEW r \in Texts, NEW t, t = Join(c, r)
    PROVE  IsJoin(t, c, r)
BY JoinParts DEF IsJoin

\* A set that has a text once it has all shorter ones has every text.
LEMMA TextInduction ==
    ASSUME NEW S,
           \A t \in Texts : (\A u \in Texts : Len(u) < Len(t) => u \in S) => t \in S
    PROVE  \A t \in Texts : t \in S
<1> DEFINE T == {Len(t) : t \in {u \in Texts : u \notin S}}
<1>1. T \subseteq Nat
    BY DEF Texts
<1>2. CASE T # {}
  <2>1. PICK n \in T : \A m \in T : n <= m
    <3> HIDE DEF T
    <3> QED
        BY <1>1, <1>2, LeastNumber
  <2>2. PICK t \in Texts : t \notin S /\ n = Len(t)
      BY <2>1
  <2>3. ASSUME NEW u \in Texts, Len(u) < Len(t) PROVE u \in S
    <3>1. Len(u) \in Nat /\ Len(t) \in Nat
        BY DEF Texts
    <3>2. CASE u \notin S
      <4>1. Len(u) \in T
          BY <3>2
      <4>2. n <= Len(u)
          BY <2>1, <4>1
      <4> QED
          BY <3>1, <4>2, <2>2, <2>3
    <3> QED
        BY <3>2
  <2> QED
      BY <2>2, <2>3
<1>3. ASSUME T = {}, NEW t \in Texts, t \notin S PROVE FALSE
  <2>1. Len(t) \in T
      BY <1>3
  <2> QED
      BY <1>3, <2>1
<1> QED
    BY <1>2, <1>3

-----------------------------------------------------------------------------
(* Where the encodings of a text are *)

Starts(t) == 1 \in Encoded(t)
TwoDigits(r) == Len(r) >= 2 /\ r[1] \in Digits /\ r[2] \in Digits

\* A text that begins with an encoded byte.
Coded(x, y, s) == Join("%", Join(x, Join(y, s)))

LEMMA DigitsAreBytes ==
    /\ "%" \in Bytes /\ "/" \in Bytes /\ "%" \notin Digits /\ "/" \notin Digits
    /\ ":" \notin Digits /\ "." \notin Digits
BY DEF Bytes, Digits

LEMMA HexBytes == \A x \in Hex : x \in Bytes /\ x \in Digits /\ x # "%" /\ x # "/"
BY DigitsAreBytes DEF Hex

LEMMA EncodedCons ==
    ASSUME NEW c \in Bytes, NEW r \in Texts
    PROVE  /\ \A i \in Nat : i + 1 \in Encoded(Join(c, r)) <=> i \in Encoded(r) \/ (i = 0 /\ c = "%" /\ TwoDigits(r))
           /\ Encoded(r) \subseteq 1..Len(r)
<1> DEFINE t == Join(c, r)
<1>1. /\ t \in Texts /\ Len(t) = Len(r) + 1 /\ Len(r) \in Nat /\ t[1] = c
      /\ \A i \in 1..Len(r) : t[i + 1] = r[i]
    BY ConsText
<1> HIDE DEF t
<1>2. ASSUME NEW i \in 1..Len(r) PROVE i + 1 \in Encoded(t) <=> i \in Encoded(r)
  <2>1. i + 1 \in 1..Len(t) /\ (i + 1 + 2 <= Len(t) <=> i + 2 <= Len(r))
      BY <1>1
  <2>2. t[i + 1] = r[i]
      BY <1>1
  <2>3. ASSUME i + 2 <= Len(r) PROVE t[i + 1 + 1] = r[i + 1] /\ t[i + 1 + 2] = r[i + 2]
    <3>1. i + 1 \in 1..Len(r) /\ i + 2 \in 1..Len(r) /\ i + 1 + 2 = (i + 2) + 1
        BY <1>1, <2>3
    <3> QED
        BY <1>1, <3>1
  <2> QED
      BY <2>1, <2>2, <2>3 DEF Encoded
<1>3. 1 \in Encoded(t) <=> c = "%" /\ TwoDigits(r)
  <2>1. 1 \in 1..Len(t) /\ (1 + 2 <= Len(t) <=> Len(r) >= 2)
      BY <1>1
  <2>2. ASSUME Len(r) >= 2 PROVE t[1 + 1] = r[1] /\ t[1 + 2] = r[2]
    <3>1. 1 \in 1..Len(r) /\ 2 \in 1..Len(r) /\ 1 + 2 = 2 + 1
        BY <1>1, <2>2
    <3> QED
        BY <1>1, <3>1
  <2> QED
      BY <1>1, <2>1, <2>2 DEF Encoded, TwoDigits
<1>4. Encoded(r) \subseteq 1..Len(r)
    BY DEF Encoded
<1>5. ASSUME NEW i \in Nat, i \notin 1..Len(r), i # 0
      PROVE  i + 1 \notin Encoded(t) /\ i \notin Encoded(r)
    BY <1>1, <1>5 DEF Encoded
<1>6. 0 \notin Encoded(r)
    BY <1>4
<1> QED
    BY <1>2, <1>3, <1>4, <1>5, <1>6 DEF t

LEMMA StartsCons ==
    ASSUME NEW c \in Bytes, NEW r \in Texts
    PROVE  Starts(Join(c, r)) <=> c = "%" /\ TwoDigits(r)
<1>1. 0 \in Nat /\ 0 + 1 = 1
    OBVIOUS
<1>2. 0 \notin Encoded(r)
    BY DEF Encoded
<1> QED
    BY <1>1, <1>2, EncodedCons DEF Starts

\* Two digits at the beginning, by taking the text apart.
LEMMA TwoDigitsCases ==
    ASSUME NEW r \in Texts
    PROVE  /\ TwoDigits(r) => \E x, y \in Hex, s \in Texts :
                                  r = Join(x, Join(y, s))
           /\ \A c \in Bytes, q \in Texts : r = Join(c, q) =>
                  (TwoDigits(r) <=> c \in Digits /\ q # <<>> /\ q[1] \in Digits)
<1>1. ASSUME NEW c \in Bytes, NEW q \in Texts, r = Join(c, q)
      PROVE  TwoDigits(r) <=> c \in Digits /\ q # <<>> /\ q[1] \in Digits
  <2>1. Len(r) = Len(q) + 1 /\ r[1] = c /\ Len(q) \in Nat
        /\ \A i \in 1..Len(q) : r[i + 1] = q[i]
      BY <1>1, ConsText
  <2>2. q # <<>> <=> Len(q) >= 1
      BY <2>1, EmptySeq DEF Texts
  <2>3. Len(q) >= 1 => r[2] = q[1]
    <3>1. Len(q) >= 1 => 1 \in 1..Len(q) /\ 1 + 1 = 2
        BY <2>1
    <3> QED
        BY <2>1, <3>1
  <2>4. Len(r) >= 2 <=> Len(q) >= 1
      BY <2>1
  <2> QED
      BY <2>1, <2>2, <2>3, <2>4 DEF TwoDigits
<1>2. ASSUME TwoDigits(r)
      PROVE  \E x, y \in Hex, s \in Texts : r = Join(x, Join(y, s))
  <2>1. r # <<>>
      BY <1>2, EmptyText DEF TwoDigits
  <2>2. PICK x \in Bytes, q \in Texts : r = Join(x, q)
      BY <2>1, TextCases
  <2>3. x \in Digits /\ q # <<>> /\ q[1] \in Digits
      BY <1>1, <1>2, <2>2
  <2>4. PICK y \in Bytes, s \in Texts : q = Join(y, s)
      BY <2>3, TextCases
  <2>5. q[1] = y
      BY <2>4, ConsText
  <2> QED
      BY <2>2, <2>3, <2>4, <2>5 DEF Hex
<1> QED
    BY <1>1, <1>2

\* A text that begins with no encoded byte, or with one.
LEMMA StartCases ==
    ASSUME NEW t \in Texts
    PROVE  \/ t = <<>>
           \/ \E c \in Bytes, r \in Texts : t = Join(c, r) /\ ~Starts(t)
           \/ /\ Starts(t)
              /\ \E x, y \in Hex, s \in Texts : t = Coded(x, y, s)
<1>1. ASSUME t # <<>>, Starts(t)
      PROVE  \E x, y \in Hex, s \in Texts : t = Coded(x, y, s)
  <2>1. PICK c \in Bytes, r \in Texts : t = Join(c, r)
      BY <1>1, TextCases
  <2>2. c = "%" /\ TwoDigits(r)
      BY <1>1, <2>1, StartsCons
  <2>3. PICK x, y \in Hex, s \in Texts : r = Join(x, Join(y, s))
      BY <2>2, TwoDigitsCases
  <2> QED
      BY <2>1, <2>2, <2>3 DEF Coded
<1> QED
    BY <1>1, TextCases

\* The parts of a text that begins with an encoded byte.
LEMMA CodedText ==
    ASSUME NEW x \in Hex, NEW y \in Hex, NEW s \in Texts
    PROVE  /\ Coded(x, y, s) \in Texts /\ Len(Coded(x, y, s)) = Len(s) + 3 /\ Len(s) \in Nat
           /\ Join(y, s) \in Texts /\ Join(x, Join(y, s)) \in Texts
           /\ Coded(x, y, s)[1] = "%" /\ Coded(x, y, s)[2] = x /\ Coded(x, y, s)[3] = y
           /\ Starts(Coded(x, y, s))
           /\ \A i \in 1..Len(s) : Coded(x, y, s)[i + 3] = s[i]
           /\ \A i \in Nat : i + 3 \in Encoded(Coded(x, y, s)) <=> i \in Encoded(s)
           /\ 2 \notin Encoded(Coded(x, y, s)) /\ 3 \notin Encoded(Coded(x, y, s))
<1> DEFINE q == Join(y, s)
           r == Join(x, q)
           t == Join("%", r)
<1>1. t = Coded(x, y, s)
    BY DEF Coded
<1>2. /\ q \in Texts /\ Len(q) = Len(s) + 1 /\ Len(s) \in Nat /\ q[1] = y
      /\ \A i \in 1..Len(s) : q[i + 1] = s[i]
      /\ \A i \in Nat : i + 1 \in Encoded(q) <=> i \in Encoded(s) \/ (i = 0 /\ y = "%" /\ TwoDigits(s))
  <2>1. y \in Bytes
      BY HexBytes
  <2>2. /\ q \in Texts /\ Len(q) = Len(s) + 1 /\ Len(s) \in Nat /\ q[1] = y
        /\ \A i \in 1..Len(s) : q[i + 1] = s[i]
      BY <2>1, ConsText
  <2>3. \A i \in Nat : i + 1 \in Encoded(q) <=> i \in Encoded(s) \/ (i = 0 /\ y = "%" /\ TwoDigits(s))
      BY <2>1, EncodedCons
  <2> QED
      BY <2>2, <2>3
<1> HIDE DEF q
<1>3. /\ r \in Texts /\ Len(r) = Len(q) + 1 /\ r[1] = x
      /\ \A i \in 1..Len(q) : r[i + 1] = q[i]
      /\ \A i \in Nat : i + 1 \in Encoded(r) <=> i \in Encoded(q) \/ (i = 0 /\ x = "%" /\ TwoDigits(q))
  <2>1. x \in Bytes /\ q \in Texts
      BY <1>2, HexBytes
  <2>2. /\ r \in Texts /\ Len(r) = Len(q) + 1 /\ r[1] = x
        /\ \A i \in 1..Len(q) : r[i + 1] = q[i]
      BY <2>1, ConsText
  <2>3. \A i \in Nat : i + 1 \in Encoded(r) <=> i \in Encoded(q) \/ (i = 0 /\ x = "%" /\ TwoDigits(q))
      BY <2>1, EncodedCons
  <2> QED
      BY <2>2, <2>3
<1> HIDE DEF r
<1>4. /\ t \in Texts /\ Len(t) = Len(r) + 1 /\ t[1] = "%"
      /\ \A i \in 1..Len(r) : t[i + 1] = r[i]
      /\ \A i \in Nat : i + 1 \in Encoded(t) <=> i \in Encoded(r) \/ (i = 0 /\ "%" = "%" /\ TwoDigits(r))
    BY <1>3, DigitsAreBytes, ConsText, EncodedCons
<1> HIDE DEF t
<1>5. x # "%" /\ y # "%"
    BY HexBytes
<1>0. Len(s) \in Nat /\ Len(q) = Len(s) + 1 /\ Len(r) = Len(q) + 1
    BY <1>2, <1>3
<1>6. t[2] = x /\ t[3] = y
  <2>1. 1 \in 1..Len(r) /\ 2 \in 1..Len(r) /\ 1 \in 1..Len(q) /\ 1 + 1 = 2 /\ 2 + 1 = 3
      BY <1>0
  <2> QED
      BY <2>1, <1>2, <1>3, <1>4
<1>7. ASSUME NEW i \in 1..Len(s) PROVE t[i + 3] = s[i]
  <2>1. /\ i + 1 \in 1..Len(q) /\ i + 2 \in 1..Len(r) /\ (i + 1) + 1 = i + 2
        /\ (i + 2) + 1 = i + 3
      BY <1>2, <1>3
  <2>2. q[i + 1] = s[i] /\ r[(i + 1) + 1] = q[i + 1] /\ t[(i + 2) + 1] = r[i + 2]
      BY <2>1, <1>2, <1>3, <1>4
  <2> QED
      BY <2>1, <2>2
<1>8. ASSUME NEW i \in Nat PROVE i + 3 \in Encoded(t) <=> i \in Encoded(s)
  <2>1. /\ i + 1 \in Nat /\ i + 2 \in Nat /\ (i + 1) + 1 = i + 2 /\ (i + 2) + 1 = i + 3
        /\ i + 1 # 0 /\ i + 2 # 0
      OBVIOUS
  <2> QED
      BY <2>1, <1>2, <1>3, <1>4, <1>5
<1>9. Starts(t)
  <2>1. TwoDigits(r)
    <3>1. Len(r) >= 2 /\ 1 \in 1..Len(q) /\ 1 + 1 = 2
        BY <1>0
    <3> QED
        BY <3>1, <1>2, <1>3, HexBytes DEF TwoDigits
  <2>2. 0 \in Nat /\ 0 + 1 = 1
      OBVIOUS
  <2> QED
      BY <2>1, <2>2, <1>4 DEF Starts
<1>10. 2 \notin Encoded(t) /\ 3 \notin Encoded(t)
    BY <1>5, <1>6 DEF Encoded
<1>11. Len(t) = Len(s) + 3
    BY <1>2, <1>3, <1>4
<1> QED
    BY <1>1, <1>2, <1>3, <1>4, <1>6, <1>7, <1>8, <1>9, <1>10, <1>11 DEF q, r

LEMMA CodedDigits ==
    ASSUME NEW x \in Hex, NEW y \in Hex, NEW s \in Texts
    PROVE  Coded(x, y, s)[2] = x /\ Coded(x, y, s)[3] = y
<1> DEFINE q == Join(y, s)
           r == Join(x, q)
<1>1. q \in Texts /\ Len(q) = Len(s) + 1 /\ Len(s) \in Nat /\ q[1] = y
    BY HexBytes, ConsText
<1> HIDE DEF q
<1>2. /\ r \in Texts /\ Len(r) = Len(q) + 1 /\ r[1] = x
      /\ \A i \in 1..Len(q) : r[i + 1] = q[i]
  <2>1. x \in Bytes /\ q \in Texts
      BY <1>1, HexBytes
  <2> QED
      BY <2>1, ConsText
<1> HIDE DEF r
<1>3. \A i \in 1..Len(r) : Join("%", r)[i + 1] = r[i]
    BY <1>2, DigitsAreBytes, ConsText
<1>4. 1 \in 1..Len(q) /\ 1 \in 1..Len(r) /\ 2 \in 1..Len(r) /\ 1 + 1 = 2 /\ 2 + 1 = 3
    BY <1>1, <1>2
<1>5. r[2] = y /\ Join("%", r)[2] = x /\ Join("%", r)[3] = r[2]
    BY <1>1, <1>2, <1>3, <1>4
<1> QED
    BY <1>5 DEF Coded, q, r

LEMMA CodedFirst ==
    ASSUME NEW x \in Hex, NEW y \in Hex, NEW s \in Texts
    PROVE  Coded(x, y, s)[1] = "%"
<1>1. Join(x, Join(y, s)) \in Texts
    BY HexBytes, ConsText
<1> QED
    BY <1>1, DigitsAreBytes, JoinParts DEF Coded

LEMMA CodedLength ==
    ASSUME NEW x \in Hex, NEW y \in Hex, NEW s \in Texts
    PROVE  Coded(x, y, s) \in Texts /\ Len(Coded(x, y, s)) = Len(s) + 3 /\ Len(s) \in Nat
<1>1. Join(y, s) \in Texts /\ Len(Join(y, s)) = Len(s) + 1 /\ Len(s) \in Nat
    BY HexBytes, ConsText
<1>2. Join(x, Join(y, s)) \in Texts /\ Len(Join(x, Join(y, s))) = Len(Join(y, s)) + 1
    BY <1>1, HexBytes, ConsText
<1>3. Coded(x, y, s) \in Texts /\ Len(Coded(x, y, s)) = Len(Join(x, Join(y, s))) + 1
    BY <1>2, DigitsAreBytes, ConsText DEF Coded
<1> QED
    BY <1>1, <1>2, <1>3

\* The rest of a text is shorter.
LEMMA ConsShorter ==
    ASSUME NEW c \in Bytes, NEW r \in Texts
    PROVE  Len(r) < Len(Join(c, r))
<1>1. Len(Join(c, r)) = Len(r) + 1 /\ Len(r) \in Nat
    BY ConsText
<1> QED
    BY <1>1

LEMMA CodedShorter ==
    ASSUME NEW x \in Hex, NEW y \in Hex, NEW s \in Texts
    PROVE  Len(s) < Len(Coded(x, y, s))
<1>1. Len(Coded(x, y, s)) = Len(s) + 3 /\ Len(s) \in Nat
    BY CodedLength
<1> QED
    BY <1>1

-----------------------------------------------------------------------------
(* The equations of Decode *)

\* The suffixes of t, decoded.
DecodesFrom(f, t) ==
    f = [i \in 1..Len(t) + 1 |->
            IF i > Len(t) THEN <<>>
            ELSE IF i \in Encoded(t)
                 THEN Join(Byte(t[i + 1], t[i + 2]), f[i + 3])
                 ELSE Join(t[i], f[i + 1])]

DecodedSuffixes(t) == CHOOSE f : DecodesFrom(f, t)

LEMMA DecodeIsSuffix ==
    ASSUME NEW t
    PROVE  Decode(t) = DecodedSuffixes(t)[1]
BY DEF Decode, DecodedSuffixes, DecodesFrom, Join

LEMMA DecodedSuffixValues ==
    ASSUME NEW t \in Texts, NEW f, DecodesFrom(f, t)
    PROVE  /\ f[Len(t) + 1] = <<>>
           /\ \A i \in 1..Len(t) :
                  f[i] = IF i \in Encoded(t)
                         THEN Join(Byte(t[i + 1], t[i + 2]), f[i + 3])
                         ELSE Join(t[i], f[i + 1])
<1>1. Len(t) \in Nat
    BY DEF Texts
<1>2. Len(t) + 1 \in 1..Len(t) + 1 /\ Len(t) + 1 > Len(t)
      /\ \A i \in 1..Len(t) : i \in 1..Len(t) + 1 /\ ~(i > Len(t))
    BY <1>1
<1> QED
    BY <1>2, Zenon DEF DecodesFrom

LEMMA DecodedSuffixShift ==
    ASSUME NEW c \in Bytes, NEW r \in Texts, NEW f, NEW g,
           DecodesFrom(f, Join(c, r)), DecodesFrom(g, r)
    PROVE  \A i \in 1..Len(r) + 1 : f[i + 1] = g[i]
<1> DEFINE t == Join(c, r)
           n == Len(r)
           S == {k \in 0..n : f[(n - k) + 2] # g[(n - k) + 1]}
<1>1. t \in Texts /\ Len(t) = n + 1 /\ n \in Nat
      /\ \A i \in 1..n : t[i + 1] = r[i]
    BY ConsText
<1>4. \A i \in Nat : i # 0 => (i + 1 \in Encoded(t) <=> i \in Encoded(r))
    BY EncodedCons
<1> HIDE DEF t
<1>2. /\ f[n + 2] = <<>>
      /\ \A i \in 1..n + 1 : f[i] = IF i \in Encoded(t)
                                THEN Join(Byte(t[i + 1], t[i + 2]), f[i + 3])
                                ELSE Join(t[i], f[i + 1])
  <2>1. (n + 1) + 1 = n + 2
      BY <1>1
  <2>2. DecodesFrom(f, t)
      BY DEF t
  <2>3. /\ f[Len(t) + 1] = <<>>
        /\ \A i \in 1..Len(t) : f[i] = IF i \in Encoded(t)
                                     THEN Join(Byte(t[i + 1], t[i + 2]), f[i + 3])
                                     ELSE Join(t[i], f[i + 1])
      BY <1>1, <2>2, DecodedSuffixValues
  <2> QED
      BY <1>1, <2>1, <2>3
<1>3. /\ g[n + 1] = <<>>
      /\ \A i \in 1..n : g[i] = IF i \in Encoded(r)
                                THEN Join(Byte(r[i + 1], r[i + 2]), g[i + 3])
                                ELSE Join(r[i], g[i + 1])
    BY DecodedSuffixValues
<1>5. CASE S # {}
  <2>1. PICK k \in S : \A m \in S : k <= m
    <3>1. S \subseteq Nat
        BY <1>1
    <3> HIDE DEF S
    <3> QED
        BY <1>5, <3>1, LeastNumber
  <2>2. k \in 0..n /\ f[(n - k) + 2] # g[(n - k) + 1]
      BY <2>1
  <2>3. k # 0
      BY <1>1, <1>2, <1>3, <2>2
  <2>4. PICK i \in 1..n : i = (n - k) + 1
      BY <1>1, <2>2, <2>3
  <2>5. f[i + 1] # g[i]
    <3>1. (n - k) + 2 = i + 1
        BY <1>1, <2>2, <2>4
    <3> QED
        BY <3>1, <2>2, <2>4
  <2>6. \A j \in i + 1..n + 1 : f[j + 1] = g[j]
    <3>1. ASSUME NEW j \in i + 1..n + 1 PROVE f[j + 1] = g[j]
      <4>1. PICK m \in 0..n : j = (n - m) + 1 /\ m < k /\ j + 1 = (n - m) + 2
        <5>1. n + 1 - j \in 0..n /\ j = (n - (n + 1 - j)) + 1 /\ n + 1 - j < k
              /\ j + 1 = (n - (n + 1 - j)) + 2
            BY <1>1, <2>2, <2>4
        <5> QED
            BY <5>1
      <4>2. m \notin S
          BY <1>1, <2>1, <2>2, <4>1
      <4> QED
          BY <4>1, <4>2
    <3> QED
        BY <3>1
  <2>7. CASE i \in Encoded(r)
    <3>1. i + 1 \in Encoded(t) /\ i + 1 \in 1..n + 1
      <4>1. i \in Nat /\ i # 0 /\ i + 1 \in 1..n + 1
          BY <1>1
      <4> QED
          BY <2>7, <4>1, <1>4
    <3>2. i + 2 <= n
        BY <2>7 DEF Encoded
    <3>3. i + 1 \in 1..n /\ i + 2 \in 1..n /\ i + 3 \in i + 1..n + 1
        BY <1>1, <3>2
    <3>4. t[(i + 1) + 1] = r[i + 1] /\ t[(i + 2) + 1] = r[i + 2] /\ f[(i + 3) + 1] = g[i + 3]
        BY <1>1, <2>6, <3>3
    <3>5. (i + 1) + 2 = (i + 2) + 1 /\ (i + 1) + 3 = (i + 3) + 1
        OBVIOUS
    <3>6. f[i + 1] = Join(Byte(t[(i + 1) + 1], t[(i + 1) + 2]), f[(i + 1) + 3])
        BY <1>2, <3>1
    <3>7. g[i] = Join(Byte(r[i + 1], r[i + 2]), g[i + 3])
        BY <1>3, <2>7
    <3> QED
        BY <2>5, <3>4, <3>5, <3>6, <3>7
  <2>8. CASE i \notin Encoded(r)
    <3>1. i + 1 \notin Encoded(t) /\ i + 1 \in 1..n + 1 /\ i + 1 \in i + 1..n + 1
      <4>1. /\ i \in Nat /\ i # 0 /\ i + 1 \in 1..n + 1
            /\ i + 1 \in i + 1..n + 1
          BY <1>1
      <4> QED
          BY <2>8, <4>1, <1>4
    <3>2. f[i + 1] = Join(t[i + 1], f[(i + 1) + 1])
        BY <1>2, <3>1
    <3>3. g[i] = Join(r[i], g[i + 1])
        BY <1>3, <2>8
    <3> QED
        BY <1>1, <2>5, <2>6, <3>1, <3>2, <3>3
  <2> QED
      BY <2>7, <2>8
<1>6. ASSUME S = {}, NEW i \in 1..n + 1 PROVE f[i + 1] = g[i]
  <2>1. n + 1 - i \in 0..n /\ (n - (n + 1 - i)) + 2 = i + 1 /\ (n - (n + 1 - i)) + 1 = i
      BY <1>1
  <2>2. n + 1 - i \notin S
      BY <1>6
  <2> QED
      BY <2>1, <2>2
<1> QED
    BY <1>5, <1>6

LEMMA DecodedSuffixesExist ==
    ASSUME NEW t \in Texts
    PROVE  DecodesFrom(DecodedSuffixes(t), t)
<1> DEFINE S == {u \in Texts : \E f : DecodesFrom(f, u)}
<1>1. ASSUME NEW u \in Texts, \A v \in Texts : Len(v) < Len(u) => v \in S
      PROVE  u \in S
  <2>1. CASE u = <<>>
    <3> DEFINE f == [i \in {1} |-> <<>>]
    <3>1. 1..Len(u) + 1 = {1} /\ \A i \in {1} : i > Len(u)
        BY <2>1, EmptyText
    <3>2. DecodesFrom(f, u)
        BY <3>1, Zenon DEF DecodesFrom
    <3> QED
        BY <3>2
  <2>2. ASSUME NEW c \in Bytes, NEW r \in Texts, u = Join(c, r) PROVE u \in S
    <3>1. Len(u) = Len(r) + 1 /\ Len(r) \in Nat /\ u[1] = c
          /\ \A i \in 1..Len(r) : u[i + 1] = r[i]
        BY <2>2, ConsText
    <3>2. PICK g : DecodesFrom(g, r)
      <4>1. Len(r) < Len(u)
          BY <3>1
      <4> QED
          BY <4>1, <1>1
    <3> DEFINE first == IF 1 \in Encoded(u) THEN Join(Byte(u[2], u[3]), g[3]) ELSE Join(c, g[1])
               f == [i \in 1..Len(u) + 1 |-> IF i = 1 THEN first ELSE g[i - 1]]
               body == [i \in 1..Len(u) + 1 |->
                           IF i > Len(u) THEN <<>>
                           ELSE IF i \in Encoded(u)
                                THEN Join(Byte(u[i + 1], u[i + 2]), f[i + 3])
                                ELSE Join(u[i], f[i + 1])]
    <3>3. f[1] = first
        BY <3>1
    <3>4. \A i \in 1..Len(r) + 1 : f[i + 1] = g[i]
      <4>1. \A i \in 1..Len(r) + 1 : i + 1 \in 1..Len(u) + 1 /\ i + 1 # 1 /\ (i + 1) - 1 = i
          BY <3>1
      <4> HIDE DEF first
      <4> QED
          BY <4>1
    <3>5. DOMAIN f = 1..Len(u) + 1 /\ f = [i \in 1..Len(u) + 1 |-> f[i]]
        OBVIOUS
    <3> HIDE DEF f
    <3>6. ASSUME NEW i \in 1..Len(u) + 1 PROVE f[i] = body[i]
      <4>1. CASE i = 1
        <5>1. 1 \in 1..Len(u) + 1 /\ ~(1 > Len(u)) /\ 1 + 1 = 2 /\ 1 + 2 = 3 /\ 1 + 3 = 4
            BY <3>1
        <5>2. f[2] = g[1]
          <6>1. 1 \in 1..Len(r) + 1 /\ 1 + 1 = 2
              BY <3>1
          <6> QED
              BY <6>1, <3>4
        <5>3. CASE 1 \in Encoded(u)
          <6>1. 3 \in 1..Len(r) + 1 /\ 3 + 1 = 4
            <7>1. 1 + 2 <= Len(u)
                BY <5>3 DEF Encoded
            <7> QED
                BY <7>1, <3>1
          <6>2. f[4] = g[3]
              BY <6>1, <3>4
          <6> QED
              BY <4>1, <5>1, <5>3, <6>2, <3>3
        <5>4. CASE 1 \notin Encoded(u)
            BY <4>1, <5>1, <5>2, <5>4, <3>1, <3>3
        <5> QED
            BY <5>3, <5>4
      <4>2. CASE i # 1
        <5>1. PICK j \in 1..Len(r) + 1 : i = j + 1
          <6>1. i - 1 \in 1..Len(r) + 1 /\ i = (i - 1) + 1
              BY <4>2, <3>1
          <6> QED
              BY <6>1
        <5>2. f[i] = g[j]
            BY <5>1, <3>4
        <5>3. CASE j = Len(r) + 1
          <6>1. i > Len(u)
              BY <5>1, <5>3, <3>1
          <6>2. g[j] = <<>>
              BY <3>2, <5>3, DecodedSuffixValues
          <6> QED
              BY <5>2, <6>1, <6>2
        <5>4. CASE j # Len(r) + 1
          <6>1. j \in 1..Len(r) /\ ~(i > Len(u)) /\ j \in Nat /\ j # 0
              BY <5>1, <5>4, <3>1
          <6>2. g[j] = IF j \in Encoded(r)
                       THEN Join(Byte(r[j + 1], r[j + 2]), g[j + 3])
                       ELSE Join(r[j], g[j + 1])
              BY <3>2, <6>1, DecodedSuffixValues
          <6>3. i \in Encoded(u) <=> j \in Encoded(r)
            <7>1. j + 1 \in Encoded(Join(c, r))
                  <=> j \in Encoded(r) \/ (j = 0 /\ c = "%" /\ TwoDigits(r))
                BY <2>2, <6>1, EncodedCons, Zenon
            <7> QED
                BY <2>2, <5>1, <6>1, <7>1
          <6>4. CASE j \in Encoded(r)
            <7>1. j + 2 <= Len(r)
                BY <6>4 DEF Encoded
            <7>2. /\ j + 1 \in 1..Len(r) /\ j + 2 \in 1..Len(r) /\ j + 3 \in 1..Len(r) + 1
                  /\ i + 1 = (j + 1) + 1 /\ i + 2 = (j + 2) + 1 /\ i + 3 = (j + 3) + 1
                BY <7>1, <6>1, <5>1, <3>1
            <7>3. u[i + 1] = r[j + 1] /\ u[i + 2] = r[j + 2] /\ f[i + 3] = g[j + 3]
                BY <7>2, <3>1, <3>4
            <7> QED
                BY <5>2, <6>1, <6>2, <6>3, <6>4, <7>3
          <6>5. CASE j \notin Encoded(r)
            <7>1. j + 1 \in 1..Len(r) + 1 /\ i + 1 = (j + 1) + 1
                BY <6>1, <5>1, <3>1
            <7>2. u[i] = r[j] /\ f[i + 1] = g[j + 1]
                BY <7>1, <6>1, <5>1, <3>1, <3>4
            <7> QED
                BY <5>2, <6>1, <6>2, <6>3, <6>5, <7>2
          <6> QED
              BY <6>4, <6>5
        <5> QED
            BY <5>3, <5>4
      <4> QED
          BY <4>1, <4>2
    <3>7. f = body
      <4> HIDE DEF body
      <4>1. body = [i \in 1..Len(u) + 1 |-> body[i]]
          BY DEF body
      <4> QED
          BY <3>5, <3>6, <4>1
    <3>8. DecodesFrom(f, u)
        BY <3>7 DEF DecodesFrom
    <3> QED
        BY <3>8
  <2> QED
      BY <2>1, <2>2, TextCases
<1>2. t \in S
  <2> HIDE DEF S
  <2> QED
      BY <1>1, TextInduction
<1> QED
    BY <1>2 DEF DecodedSuffixes

LEMMA DecodeEmpty == Decode(<<>>) = <<>>
<1>1. DecodedSuffixes(<<>>)[Len(<<>>) + 1] = <<>>
    BY EmptyText, DecodedSuffixesExist, DecodedSuffixValues
<1> QED
    BY <1>1, EmptyText, DecodeIsSuffix

\* A byte that begins no encoding stays.
LEMMA DecodeCons ==
    ASSUME NEW c \in Bytes, NEW r \in Texts, ~Starts(Join(c, r))
    PROVE  Decode(Join(c, r)) = Join(c, Decode(r))
<1> DEFINE t == Join(c, r)
<1>1. t \in Texts /\ 1 \in 1..Len(t) /\ 1 \in 1..Len(r) + 1 /\ t[1] = c
  <2>1. t \in Texts /\ Len(t) = Len(r) + 1 /\ Len(r) \in Nat /\ t[1] = c
      BY ConsText
  <2> QED
      BY <2>1
<1>2. DecodesFrom(DecodedSuffixes(t), t) /\ DecodesFrom(DecodedSuffixes(r), r)
    BY <1>1, DecodedSuffixesExist
<1>3. DecodedSuffixes(t)[1] = Join(t[1], DecodedSuffixes(t)[1 + 1])
    BY <1>1, <1>2, DecodedSuffixValues DEF Starts
<1>4. DecodedSuffixes(t)[1 + 1] = DecodedSuffixes(r)[1]
    BY <1>1, <1>2, DecodedSuffixShift
<1> QED
    BY <1>1, <1>3, <1>4, DecodeIsSuffix

\* An encoded byte is decoded.
LEMMA DecodeCoded ==
    ASSUME NEW x \in Hex, NEW y \in Hex, NEW s \in Texts
    PROVE  Decode(Coded(x, y, s)) = Join(Byte(x, y), Decode(s))
<1> DEFINE q == Join(y, s)
           r == Join(x, q)
           t == Join("%", r)
<1>1. /\ q \in Texts /\ r \in Texts /\ t \in Texts /\ "%" \in Bytes
      /\ Len(q) = Len(s) + 1 /\ Len(r) = Len(q) + 1 /\ Len(t) = Len(r) + 1 /\ Len(s) \in Nat
  <2>1. q \in Texts /\ Len(q) = Len(s) + 1 /\ Len(s) \in Nat
      BY HexBytes, ConsText
  <2>2. r \in Texts /\ Len(r) = Len(q) + 1
      BY <2>1, HexBytes, ConsText
  <2>3. t \in Texts /\ Len(t) = Len(r) + 1
      BY <2>2, DigitsAreBytes, ConsText
  <2> QED
      BY <2>1, <2>2, <2>3, DigitsAreBytes
<1>2. t = Coded(x, y, s)
    BY DEF Coded
<1> HIDE DEF q, r, t
<1>3. /\ DecodesFrom(DecodedSuffixes(t), t) /\ DecodesFrom(DecodedSuffixes(r), r)
      /\ DecodesFrom(DecodedSuffixes(q), q) /\ DecodesFrom(DecodedSuffixes(s), s)
    BY <1>1, DecodedSuffixesExist
<1>4. DecodedSuffixes(s)[1] = DecodedSuffixes(q)[1 + 1]
  <2>1. 1 \in 1..Len(s) + 1
      BY <1>1
  <2> QED
      BY <2>1, <1>3, HexBytes, DecodedSuffixShift DEF q
<1>5. DecodedSuffixes(q)[2] = DecodedSuffixes(r)[2 + 1]
  <2>1. 2 \in 1..Len(q) + 1
      BY <1>1
  <2> QED
      BY <2>1, <1>1, <1>3, HexBytes, DecodedSuffixShift DEF r
<1>6. DecodedSuffixes(r)[3] = DecodedSuffixes(t)[3 + 1]
  <2>1. 3 \in 1..Len(r) + 1
      BY <1>1
  <2> QED
      BY <2>1, <1>1, <1>3, DecodedSuffixShift DEF t
<1>7. DecodedSuffixes(t)[1] = Join(Byte(t[1 + 1], t[1 + 2]), DecodedSuffixes(t)[1 + 3])
  <2>1. 1 \in 1..Len(t) /\ 1 \in Encoded(t)
    <3>1. Starts(t)
        BY <1>2, CodedText
    <3> QED
        BY <3>1 DEF Starts, Encoded
  <2> QED
      BY <2>1, <1>1, <1>3, DecodedSuffixValues
<1>8. t[2] = x /\ t[3] = y
    BY <1>2, CodedDigits
<1> QED
    BY <1>2, <1>4, <1>5, <1>6, <1>7, <1>8, DecodeIsSuffix

LEMMA DecodeText ==
    ASSUME NEW t \in Texts
    PROVE  Decode(t) \in Texts
<1> DEFINE S == {u \in Texts : Decode(u) \in Texts}
<1>1. ASSUME NEW u \in Texts, \A v \in Texts : Len(v) < Len(u) => v \in S
      PROVE  u \in S
  <2>1. CASE u = <<>>
      BY <2>1, DecodeEmpty, EmptyText
  <2>2. ASSUME NEW c \in Bytes, NEW r \in Texts, u = Join(c, r), ~Starts(u)
        PROVE  u \in S
    <3>1. Len(r) < Len(u)
        BY <2>2, ConsShorter
    <3>2. Decode(u) = Join(c, Decode(r)) /\ Decode(r) \in Texts
        BY <2>2, <3>1, <1>1, DecodeCons
    <3> QED
        BY <3>2, ConsText
  <2>3. ASSUME NEW x \in Hex, NEW y \in Hex,
               NEW s \in Texts, u = Coded(x, y, s)
        PROVE  u \in S
    <3>1. Len(s) < Len(u)
        BY <2>3, CodedShorter
    <3>2. Decode(u) = Join(Byte(x, y), Decode(s)) /\ Decode(s) \in Texts
        BY <2>3, <3>1, <1>1, DecodeCoded
    <3>3. Byte(x, y) \in Bytes
        BY ByteIsByte
    <3> QED
        BY <3>2, <3>3, ConsText
  <2> QED
      BY <2>1, <2>2, <2>3, StartCases
<1>2. t \in S
  <2> HIDE DEF S
  <2> QED
      BY <1>1, TextInduction
<1> QED
    BY <1>2

-----------------------------------------------------------------------------
(* The equations of Collapsed *)

KeptAt(t, i) == t[i] # "/" \/ (i < Len(t) /\ t[i + 1] # "/")

\* The suffixes of t, collapsed.
CollapsesFrom(f, t) ==
    f = [i \in 1..Len(t) + 1 |->
            IF i > Len(t) THEN <<>>
            ELSE IF KeptAt(t, i) THEN Join(t[i], f[i + 1]) ELSE f[i + 1]]

CollapsedSuffixes(t) == CHOOSE f : CollapsesFrom(f, t)

LEMMA CollapsedIsSuffix ==
    ASSUME NEW t
    PROVE  Collapsed(t) = CollapsedSuffixes(t)[1]
BY DEF Collapsed, CollapsedSuffixes, CollapsesFrom, KeptAt, Join

LEMMA CollapsedSuffixValues ==
    ASSUME NEW t \in Texts, NEW f, CollapsesFrom(f, t)
    PROVE  /\ f[Len(t) + 1] = <<>>
           /\ \A i \in 1..Len(t) :
                  f[i] = IF KeptAt(t, i) THEN Join(t[i], f[i + 1]) ELSE f[i + 1]
<1>1. Len(t) \in Nat
    BY DEF Texts
<1>2. Len(t) + 1 \in 1..Len(t) + 1 /\ Len(t) + 1 > Len(t)
      /\ \A i \in 1..Len(t) : i \in 1..Len(t) + 1 /\ ~(i > Len(t))
    BY <1>1
<1> QED
    BY <1>2, Zenon DEF CollapsesFrom

\* A slash is kept if something other than a slash follows.
FollowedBy(r) == r # <<>> /\ r[1] # "/"

LEMMA KeptCons ==
    ASSUME NEW c \in Bytes, NEW r \in Texts
    PROVE  /\ \A i \in 1..Len(r) : KeptAt(Join(c, r), i + 1) <=> KeptAt(r, i)
           /\ KeptAt(Join(c, r), 1) <=> c # "/" \/ FollowedBy(r)
<1> DEFINE t == Join(c, r)
<1>1. /\ Len(t) = Len(r) + 1 /\ Len(r) \in Nat /\ t[1] = c
      /\ \A i \in 1..Len(r) : t[i + 1] = r[i]
    BY ConsText
<1> HIDE DEF t
<1>2. ASSUME NEW i \in 1..Len(r) PROVE KeptAt(t, i + 1) <=> KeptAt(r, i)
  <2>1. t[i + 1] = r[i] /\ (i + 1 < Len(t) <=> i < Len(r))
      BY <1>1
  <2>2. i < Len(r) => t[(i + 1) + 1] = r[i + 1]
    <3>1. i < Len(r) => i + 1 \in 1..Len(r)
        BY <1>1
    <3> QED
        BY <3>1, <1>1
  <2> QED
      BY <2>1, <2>2 DEF KeptAt
<1>3. KeptAt(t, 1) <=> c # "/" \/ FollowedBy(r)
  <2>1. 1 < Len(t) <=> r # <<>>
      BY <1>1, EmptySeq DEF Texts
  <2>2. 1 < Len(t) => t[1 + 1] = r[1]
    <3>1. 1 < Len(t) => 1 \in 1..Len(r)
        BY <1>1
    <3> QED
        BY <3>1, <1>1
  <2> QED
      BY <1>1, <2>1, <2>2 DEF KeptAt, FollowedBy
<1> QED
    BY <1>2, <1>3 DEF t

LEMMA CollapsedSuffixShift ==
    ASSUME NEW c \in Bytes, NEW r \in Texts, NEW f, NEW g,
           CollapsesFrom(f, Join(c, r)), CollapsesFrom(g, r)
    PROVE  \A i \in 1..Len(r) + 1 : f[i + 1] = g[i]
<1> DEFINE t == Join(c, r)
           n == Len(r)
           S == {k \in 0..n : f[(n - k) + 2] # g[(n - k) + 1]}
<1>1. t \in Texts /\ Len(t) = n + 1 /\ n \in Nat
      /\ \A i \in 1..n : t[i + 1] = r[i]
    BY ConsText
<1>2. \A i \in 1..n : KeptAt(t, i + 1) <=> KeptAt(r, i)
    BY KeptCons
<1> HIDE DEF t
<1>3. /\ f[n + 2] = <<>>
      /\ \A i \in 1..n + 1 :
             f[i] = IF KeptAt(t, i) THEN Join(t[i], f[i + 1]) ELSE f[i + 1]
  <2>1. (n + 1) + 1 = n + 2
      BY <1>1
  <2>2. CollapsesFrom(f, t)
      BY DEF t
  <2>3. /\ f[Len(t) + 1] = <<>>
        /\ \A i \in 1..Len(t) :
               f[i] = IF KeptAt(t, i) THEN Join(t[i], f[i + 1]) ELSE f[i + 1]
      BY <1>1, <2>2, CollapsedSuffixValues
  <2> QED
      BY <1>1, <2>1, <2>3
<1>4. /\ g[n + 1] = <<>>
      /\ \A i \in 1..n : g[i] = IF KeptAt(r, i) THEN Join(r[i], g[i + 1]) ELSE g[i + 1]
    BY CollapsedSuffixValues
<1>5. CASE S # {}
  <2>1. PICK k \in S : \A m \in S : k <= m
    <3>1. S \subseteq Nat
        BY <1>1
    <3> HIDE DEF S
    <3> QED
        BY <1>5, <3>1, LeastNumber
  <2>2. k \in 0..n /\ f[(n - k) + 2] # g[(n - k) + 1]
      BY <2>1
  <2>3. k # 0
      BY <1>1, <1>3, <1>4, <2>2
  <2>4. k - 1 \in 0..n /\ k - 1 \notin S
    <3>1. k - 1 \in 0..n /\ ~(k <= k - 1)
        BY <1>1, <2>2, <2>3
    <3> HIDE DEF S
    <3> QED
        BY <2>1, <3>1
  <2>5. PICK i \in 1..n : i = (n - k) + 1
      BY <1>1, <2>2, <2>3
  <2>6. /\ (n - k) + 2 = i + 1 /\ (n - (k - 1)) + 2 = (i + 1) + 1
        /\ (n - (k - 1)) + 1 = i + 1 /\ i + 1 \in 1..n + 1
      BY <1>1, <2>2, <2>5
  <2>7. f[i + 1] # g[i] /\ f[(i + 1) + 1] = g[i + 1]
      BY <2>2, <2>4, <2>5, <2>6
  <2>8. f[i + 1] = IF KeptAt(t, i + 1) THEN Join(t[i + 1], f[(i + 1) + 1]) ELSE f[(i + 1) + 1]
      BY <1>3, <2>6
  <2> QED
      BY <1>1, <1>2, <1>4, <2>7, <2>8
<1>6. ASSUME S = {}, NEW i \in 1..n + 1 PROVE f[i + 1] = g[i]
  <2>1. n + 1 - i \in 0..n /\ (n - (n + 1 - i)) + 2 = i + 1 /\ (n - (n + 1 - i)) + 1 = i
      BY <1>1
  <2>2. n + 1 - i \notin S
      BY <1>6
  <2> QED
      BY <2>1, <2>2
<1> QED
    BY <1>5, <1>6

LEMMA CollapsedSuffixesExist ==
    ASSUME NEW t \in Texts
    PROVE  CollapsesFrom(CollapsedSuffixes(t), t)
<1> DEFINE S == {u \in Texts : \E f : CollapsesFrom(f, u)}
<1>1. ASSUME NEW u \in Texts, \A v \in Texts : Len(v) < Len(u) => v \in S
      PROVE  u \in S
  <2>1. CASE u = <<>>
    <3> DEFINE f == [i \in {1} |-> <<>>]
    <3>1. 1..Len(u) + 1 = {1} /\ \A i \in {1} : i > Len(u)
        BY <2>1, EmptyText
    <3>2. CollapsesFrom(f, u)
        BY <3>1, Zenon DEF CollapsesFrom
    <3> QED
        BY <3>2
  <2>2. ASSUME NEW c \in Bytes, NEW r \in Texts, u = Join(c, r) PROVE u \in S
    <3>1. /\ Len(u) = Len(r) + 1 /\ Len(r) \in Nat /\ u[1] = c
          /\ \A i \in 1..Len(r) : u[i + 1] = r[i]
        BY <2>2, ConsText
    <3>2. PICK g : CollapsesFrom(g, r)
      <4>1. Len(r) < Len(u)
          BY <3>1
      <4> QED
          BY <4>1, <1>1
    <3> DEFINE first == IF KeptAt(u, 1) THEN Join(c, g[1]) ELSE g[1]
               f == [i \in 1..Len(u) + 1 |-> IF i = 1 THEN first ELSE g[i - 1]]
               body == [i \in 1..Len(u) + 1 |->
                           IF i > Len(u) THEN <<>>
                           ELSE IF KeptAt(u, i) THEN Join(u[i], f[i + 1]) ELSE f[i + 1]]
    <3>3. f[1] = first
        BY <3>1
    <3>4. \A i \in 1..Len(r) + 1 : f[i + 1] = g[i]
      <4>1. \A i \in 1..Len(r) + 1 : i + 1 \in 1..Len(u) + 1 /\ i + 1 # 1 /\ (i + 1) - 1 = i
          BY <3>1
      <4> HIDE DEF first
      <4> QED
          BY <4>1
    <3>5. f = [i \in 1..Len(u) + 1 |-> f[i]]
        OBVIOUS
    <3> HIDE DEF f
    <3>6. ASSUME NEW i \in 1..Len(u) + 1 PROVE f[i] = body[i]
      <4>1. CASE i = 1
        <5>1. 1 \in 1..Len(u) + 1 /\ ~(1 > Len(u))
            BY <3>1
        <5>2. f[1 + 1] = g[1]
          <6>1. 1 \in 1..Len(r) + 1
              BY <3>1
          <6> QED
              BY <6>1, <3>4
        <5> QED
            BY <4>1, <5>1, <5>2, <3>1, <3>3
      <4>2. CASE i # 1
        <5>1. PICK j \in 1..Len(r) + 1 : i = j + 1
          <6>1. i - 1 \in 1..Len(r) + 1 /\ i = (i - 1) + 1
              BY <4>2, <3>1
          <6> QED
              BY <6>1
        <5>2. f[i] = g[j]
            BY <5>1, <3>4
        <5>3. CASE j = Len(r) + 1
          <6>1. i > Len(u)
              BY <5>1, <5>3, <3>1
          <6>2. g[j] = <<>>
              BY <3>2, <5>3, CollapsedSuffixValues
          <6> QED
              BY <5>2, <6>1, <6>2
        <5>4. CASE j # Len(r) + 1
          <6>1. j \in 1..Len(r) /\ ~(i > Len(u)) /\ j + 1 \in 1..Len(r) + 1
              BY <5>1, <5>4, <3>1
          <6>2. g[j] = IF KeptAt(r, j) THEN Join(r[j], g[j + 1]) ELSE g[j + 1]
              BY <3>2, <6>1, CollapsedSuffixValues
          <6>3. KeptAt(u, i) <=> KeptAt(r, j)
              BY <2>2, <5>1, <6>1, KeptCons
          <6>4. u[i] = r[j] /\ f[i + 1] = g[j + 1]
              BY <6>1, <5>1, <3>1, <3>4
          <6> QED
              BY <5>2, <6>1, <6>2, <6>3, <6>4
        <5> QED
            BY <5>3, <5>4
      <4> QED
          BY <4>1, <4>2
    <3>7. f = body
      <4> HIDE DEF body
      <4>1. body = [i \in 1..Len(u) + 1 |-> body[i]]
          BY DEF body
      <4> QED
          BY <3>5, <3>6, <4>1
    <3>8. CollapsesFrom(f, u)
        BY <3>7 DEF CollapsesFrom
    <3> QED
        BY <3>8
  <2> QED
      BY <2>1, <2>2, TextCases
<1>2. t \in S
  <2> HIDE DEF S
  <2> QED
      BY <1>1, TextInduction
<1> QED
    BY <1>2 DEF CollapsedSuffixes

LEMMA CollapsedEmpty == Collapsed(<<>>) = <<>>
<1>1. CollapsedSuffixes(<<>>)[Len(<<>>) + 1] = <<>>
    BY EmptyText, CollapsedSuffixesExist, CollapsedSuffixValues
<1> QED
    BY <1>1, EmptyText, CollapsedIsSuffix

LEMMA CollapsedCons ==
    ASSUME NEW c \in Bytes, NEW r \in Texts
    PROVE  Collapsed(Join(c, r)) =
               IF c # "/" \/ FollowedBy(r) THEN Join(c, Collapsed(r)) ELSE Collapsed(r)
<1> DEFINE t == Join(c, r)
<1>1. t \in Texts /\ 1 \in 1..Len(t) /\ 1 \in 1..Len(r) + 1 /\ t[1] = c
  <2>1. t \in Texts /\ Len(t) = Len(r) + 1 /\ Len(r) \in Nat /\ t[1] = c
      BY ConsText
  <2> QED
      BY <2>1
<1>2. CollapsesFrom(CollapsedSuffixes(t), t) /\ CollapsesFrom(CollapsedSuffixes(r), r)
    BY <1>1, CollapsedSuffixesExist
<1>3. CollapsedSuffixes(t)[1] = IF KeptAt(t, 1) THEN Join(t[1], CollapsedSuffixes(t)[1 + 1]) ELSE CollapsedSuffixes(t)[1 + 1]
    BY <1>1, <1>2, CollapsedSuffixValues
<1>4. CollapsedSuffixes(t)[1 + 1] = CollapsedSuffixes(r)[1]
    BY <1>1, <1>2, CollapsedSuffixShift
<1> QED
    BY <1>1, <1>3, <1>4, CollapsedIsSuffix, KeptCons

LEMMA CollapsedText ==
    ASSUME NEW t \in Texts
    PROVE  Collapsed(t) \in Texts
<1> DEFINE S == {u \in Texts : Collapsed(u) \in Texts}
<1>1. ASSUME NEW u \in Texts, \A v \in Texts : Len(v) < Len(u) => v \in S
      PROVE  u \in S
  <2>1. CASE u = <<>>
      BY <2>1, CollapsedEmpty, EmptyText
  <2>2. ASSUME NEW c \in Bytes, NEW r \in Texts, u = Join(c, r)
        PROVE  u \in S
    <3>1. Len(r) < Len(u)
        BY <2>2, ConsShorter
    <3>2. Collapsed(r) \in Texts
        BY <3>1, <1>1
    <3> QED
        BY <2>2, <3>2, CollapsedCons, ConsText
  <2> QED
      BY <2>1, <2>2, TextCases
<1>2. t \in S
  <2> HIDE DEF S
  <2> QED
      BY <1>1, TextInduction
<1> QED
    BY <1>2

-----------------------------------------------------------------------------
(* Decoding one encoded byte *)

LEMMA DecodedValues ==
    ASSUME NEW t \in Texts, NEW i \in Encoded(t)
    PROVE  /\ DecodedAt(t, i) \in Texts /\ Len(DecodedAt(t, i)) = Len(t) - 2
           /\ \A k \in 1..Len(t) - 2 :
                  DecodedAt(t, i)[k] =
                      IF k < i THEN t[k]
                      ELSE IF k = i THEN Byte(t[i + 1], t[i + 2]) ELSE t[k + 2]
<1> DEFINE n == Len(t)
           b == Byte(t[i + 1], t[i + 2])
           p == SubSeq(t, 1, i - 1)
           s == SubSeq(t, i + 3, n)
<1>1. n \in Nat /\ i \in 1..n /\ i + 2 <= n /\ i \in Int
    BY DEF Encoded, Texts
<1>2. \A k \in 1..n : t[k] \in Bytes
    BY DEF Texts
<1>3. /\ p \in Texts /\ Len(p) = i - 1
      /\ \A k \in 1..i - 1 : p[k] = t[k]
  <2>1. /\ p \in Texts /\ Len(p) = IF 1 <= i - 1 THEN (i - 1) - 1 + 1 ELSE 0
        /\ \A k \in 1..(i - 1) - 1 + 1 : p[k] = t[1 + k - 1]
    <3>1. 1 \in Int /\ i - 1 \in Int /\ \A k \in 1..i - 1 : t[k] \in Bytes
        BY <1>1, <1>2
    <3> QED
        BY <3>1, SubSeqProperties DEF Texts
  <2>2. \A k \in 1..i - 1 : k \in 1..(i - 1) - 1 + 1 /\ 1 + k - 1 = k
      BY <1>1
  <2> QED
      BY <2>1, <2>2, <1>1
<1>4. /\ s \in Texts /\ Len(s) = n - (i + 2)
      /\ \A k \in 1..n - (i + 2) : s[k] = t[k + (i + 2)]
  <2>1. /\ s \in Texts /\ Len(s) = IF i + 3 <= n THEN n - (i + 3) + 1 ELSE 0
        /\ \A k \in 1..n - (i + 3) + 1 : s[k] = t[(i + 3) + k - 1]
    <3>1. i + 3 \in Int /\ n \in Int /\ \A k \in i + 3..n : t[k] \in Bytes
        BY <1>1, <1>2
    <3> QED
        BY <3>1, SubSeqProperties DEF Texts
  <2>2. \A k \in 1..n - (i + 2) : k \in 1..n - (i + 3) + 1 /\ (i + 3) + k - 1 = k + (i + 2)
      BY <1>1
  <2> QED
      BY <2>1, <2>2, <1>1
<1>5. <<b>> \in Texts /\ Len(<<b>>) = 1 /\ <<b>>[1] = b
    BY ByteIsByte DEF Texts
<1> HIDE DEF p, s, b, n
<1>6. /\ p \o <<b>> \in Texts /\ Len(p \o <<b>>) = i
      /\ \A k \in 1..i : (p \o <<b>>)[k] = IF k <= i - 1 THEN t[k] ELSE b
  <2>1. /\ p \o <<b>> \in Texts /\ Len(p \o <<b>>) = (i - 1) + 1
        /\ \A k \in 1..(i - 1) + 1 :
               (p \o <<b>>)[k] = IF k <= i - 1 THEN p[k] ELSE <<b>>[k - (i - 1)]
      BY <1>3, <1>5, ConcatProperties DEF Texts
  <2>2. (i - 1) + 1 = i /\ \A k \in 1..i : ~(k <= i - 1) => k - (i - 1) = 1
      BY <1>1
  <2>3. \A k \in 1..i : k <= i - 1 => k \in 1..i - 1
      BY <1>1
  <2> QED
      BY <2>1, <2>2, <2>3, <1>3, <1>5
<1> DEFINE u == (p \o <<b>>) \o s
<1>7. /\ u \in Texts /\ Len(u) = n - 2
      /\ \A k \in 1..n - 2 : u[k] = IF k <= i THEN (p \o <<b>>)[k] ELSE s[k - i]
  <2>1. /\ u \in Texts /\ Len(u) = i + (n - (i + 2))
        /\ \A k \in 1..i + (n - (i + 2)) : u[k] = IF k <= i THEN (p \o <<b>>)[k] ELSE s[k - i]
    <3> DEFINE q == p \o <<b>>
    <3>1. q \in Texts /\ Len(q) = i
        BY <1>6
    <3> HIDE DEF q
    <3>2. /\ q \o s \in Texts /\ Len(q \o s) = Len(q) + Len(s)
          /\ \A k \in 1..Len(q) + Len(s) :
                 (q \o s)[k] = IF k <= Len(q) THEN q[k] ELSE s[k - Len(q)]
        BY <1>4, <3>1, ConcatProperties DEF Texts
    <3> QED
        BY <1>4, <3>1, <3>2 DEF q
  <2>2. i + (n - (i + 2)) = n - 2
      BY <1>1
  <2> QED
      BY <2>1, <2>2
<1>8. u = DecodedAt(t, i)
    BY DEF DecodedAt, p, s, b, n
<1> HIDE DEF u
<1>9. ASSUME NEW k \in 1..n - 2
      PROVE  u[k] = IF k < i THEN t[k] ELSE IF k = i THEN b ELSE t[k + 2]
  <2>1. CASE k < i
    <3>1. k <= i /\ k <= i - 1 /\ k \in 1..i
        BY <1>1, <2>1
    <3> QED
        BY <3>1, <2>1, <1>6, <1>7
  <2>2. CASE k = i
    <3>1. k <= i /\ ~(k <= i - 1) /\ k \in 1..i /\ ~(k < i)
        BY <1>1, <2>2
    <3> QED
        BY <3>1, <2>2, <1>6, <1>7
  <2>3. CASE k > i
    <3>1. ~(k <= i) /\ ~(k < i) /\ k # i /\ k - i \in 1..n - (i + 2) /\ (k - i) + (i + 2) = k + 2
        BY <1>1, <2>3
    <3> QED
        BY <3>1, <1>4, <1>7
  <2> QED
      BY <2>1, <2>2, <2>3, <1>1
<1> QED
    BY <1>7, <1>8, <1>9 DEF n, b

\* u is what t becomes when one of its encoded bytes is decoded.
Reduct(t, u) == \E i \in Encoded(t) : u = DecodedAt(t, i)

LEMMA ReductText ==
    ASSUME NEW t \in Texts, NEW u, Reduct(t, u)
    PROVE  u \in Texts /\ Len(u) = Len(t) - 2 /\ Len(t) \in Nat /\ Len(t) >= 3
<1>1. PICK i \in Encoded(t) : u = DecodedAt(t, i)
    BY DEF Reduct
<1>2. Len(t) \in Nat /\ Len(t) >= 3
    BY DEF Encoded, Texts
<1> QED
    BY <1>1, <1>2, DecodedValues

LEMMA DecodedInRest ==
    ASSUME NEW c \in Bytes, NEW r \in Texts, NEW i \in Encoded(r)
    PROVE  /\ i + 1 \in Encoded(Join(c, r))
           /\ DecodedAt(Join(c, r), i + 1) = Join(c, DecodedAt(r, i))
<1> DEFINE t == Join(c, r)
           v == DecodedAt(r, i)
           u == DecodedAt(t, i + 1)
           w == Join(c, v)
<1>1. /\ t \in Texts /\ Len(t) = Len(r) + 1 /\ Len(r) \in Nat /\ t[1] = c
      /\ \A k \in 1..Len(r) : t[k + 1] = r[k]
    BY ConsText
<1>2. i \in 1..Len(r) /\ i + 2 <= Len(r) /\ i \in Nat /\ Len(r) \in Nat
    BY <1>1 DEF Encoded
<1>3. i + 1 \in Encoded(t)
    BY <1>2, EncodedCons
<1>4. /\ v \in Texts /\ Len(v) = Len(r) - 2
      /\ \A k \in 1..Len(r) - 2 :
             v[k] = IF k < i THEN r[k] ELSE IF k = i THEN Byte(r[i + 1], r[i + 2]) ELSE r[k + 2]
    BY DecodedValues
<1>5. /\ w \in Texts /\ Len(w) = Len(v) + 1 /\ w[1] = c
      /\ \A k \in 1..Len(v) : w[k + 1] = v[k]
    BY <1>4, ConsText
<1> HIDE DEF t
<1>6. /\ u \in Texts /\ Len(u) = Len(t) - 2
      /\ \A k \in 1..Len(t) - 2 :
             u[k] = IF k < i + 1 THEN t[k]
                    ELSE IF k = i + 1 THEN Byte(t[(i + 1) + 1], t[(i + 1) + 2]) ELSE t[k + 2]
    BY <1>1, <1>3, DecodedValues
<1> HIDE DEF u, v, w
<1>7. Len(u) = Len(w) /\ Len(u) \in Nat
    BY <1>1, <1>2, <1>4, <1>5, <1>6
<1>8. ASSUME NEW m \in 1..Len(u) PROVE u[m] = w[m]
  <2>1. CASE m = 1
    <3>1. 1 \in 1..Len(t) - 2 /\ 1 < i + 1
        BY <2>1, <1>2, <1>6
    <3> QED
        BY <2>1, <3>1, <1>1, <1>5, <1>6
  <2>2. CASE m # 1
    <3>1. PICK k \in 1..Len(v) : m = k + 1
      <4>1. m - 1 \in 1..Len(v) /\ m = (m - 1) + 1
          BY <2>2, <1>5, <1>7, <1>4, <1>1
      <4> QED
          BY <4>1
    <3>2. w[m] = v[k] /\ k \in 1..Len(r) - 2 /\ m \in 1..Len(t) - 2
        BY <3>1, <1>1, <1>4, <1>5, <1>6
    <3>3. CASE k < i
      <4>1. m < i + 1 /\ k \in 1..Len(r)
          BY <3>1, <3>2, <3>3, <1>2
      <4> QED
          BY <4>1, <3>1, <3>2, <3>3, <1>1, <1>4, <1>6
    <3>4. CASE k = i
      <4>1. ~(m < i + 1) /\ m = i + 1 /\ ~(k < i)
          BY <3>1, <3>4, <1>2
      <4>2. t[(i + 1) + 1] = r[i + 1] /\ t[(i + 1) + 2] = r[i + 2]
        <5>1. i + 1 \in 1..Len(r) /\ i + 2 \in 1..Len(r) /\ (i + 1) + 2 = (i + 2) + 1
            BY <1>1, <1>2
        <5>2. t[(i + 1) + 1] = r[i + 1] /\ t[(i + 2) + 1] = r[i + 2]
            BY <5>1, <1>1, Zenon
        <5> QED
            BY <5>1, <5>2, Zenon
      <4>3. u[m] = Byte(t[(i + 1) + 1], t[(i + 1) + 2])
          BY <4>1, <3>2, <1>6
      <4>4. v[k] = Byte(r[i + 1], r[i + 2])
          BY <3>4, <4>1, <3>2, <1>4
      <4> QED
          BY <4>2, <4>3, <4>4, <3>2
    <3>5. CASE k > i
      <4>1. /\ ~(m < i + 1) /\ m # i + 1 /\ ~(k < i) /\ k # i
            /\ k + 2 \in 1..Len(r) /\ m + 2 = (k + 2) + 1
          BY <3>1, <3>2, <3>5, <1>1, <1>2
      <4>2. u[m] = t[m + 2] /\ v[k] = r[k + 2] /\ t[(k + 2) + 1] = r[k + 2]
          BY <4>1, <3>2, <1>1, <1>4, <1>6
      <4> QED
          BY <4>1, <4>2, <3>2
    <3> QED
        BY <3>2, <3>3, <3>4, <3>5, <1>1, <1>2
  <2> QED
      BY <2>1, <2>2
<1>9. u = w
    BY <1>5, <1>6, <1>7, <1>8, SeqEqual DEF Texts
<1> QED
    BY <1>3, <1>9 DEF t, u, v, w

LEMMA DecodedAtStart ==
    ASSUME NEW x \in Hex, NEW y \in Hex, NEW s \in Texts
    PROVE  /\ 1 \in Encoded(Coded(x, y, s))
           /\ DecodedAt(Coded(x, y, s), 1) = Join(Byte(x, y), s)
<1> DEFINE t == Coded(x, y, s)
           u == DecodedAt(t, 1)
           w == Join(Byte(x, y), s)
<1>1. /\ t \in Texts /\ Len(t) = Len(s) + 3 /\ Len(s) \in Nat
    BY CodedLength
<1>2. 1 \in Encoded(t) /\ t[2] = x /\ t[3] = y
      /\ \A i \in 1..Len(s) : t[i + 3] = s[i]
  <2>1. Starts(t)
      BY CodedText
  <2>3. t[2] = x /\ t[3] = y
      BY CodedDigits
  <2>2. \A i \in 1..Len(s) : t[i + 3] = s[i]
      BY CodedText
  <2> QED
      BY <2>1, <2>2, <2>3 DEF Starts
<1> HIDE DEF t
<1>3. /\ u \in Texts /\ Len(u) = Len(t) - 2
      /\ \A k \in 1..Len(t) - 2 :
             u[k] = IF k < 1 THEN t[k] ELSE IF k = 1 THEN Byte(t[1 + 1], t[1 + 2]) ELSE t[k + 2]
    BY <1>1, <1>2, DecodedValues
<1>4. /\ w \in Texts /\ Len(w) = Len(s) + 1 /\ w[1] = Byte(x, y)
      /\ \A i \in 1..Len(s) : w[i + 1] = s[i]
  <2>1. Byte(x, y) \in Bytes
      BY ByteIsByte
  <2> QED
      BY <2>1, ConsText
<1> HIDE DEF u, w
<1>5. Len(u) = Len(w) /\ Len(u) = Len(s) + 1
    BY <1>1, <1>3, <1>4
<1>6. ASSUME NEW m \in 1..Len(u) PROVE u[m] = w[m]
  <2>1. m \in 1..Len(t) - 2 /\ ~(m < 1)
      BY <1>1, <1>3, <1>5
  <2>2. CASE m = 1
      BY <2>1, <2>2, <1>2, <1>3, <1>4
  <2>3. CASE m # 1
    <3>1. PICK i \in 1..Len(s) : m = i + 1 /\ m + 2 = i + 3
      <4>1. m - 1 \in 1..Len(s) /\ m = (m - 1) + 1 /\ m + 2 = (m - 1) + 3
          BY <2>3, <1>1, <1>5
      <4> QED
          BY <4>1
    <3> QED
        BY <2>1, <2>3, <3>1, <1>2, <1>3, <1>4
  <2> QED
      BY <2>2, <2>3
<1>7. u = w
    BY <1>3, <1>4, <1>5, <1>6, SeqEqual DEF Texts
<1> QED
    BY <1>2, <1>7 DEF t, u, w

\* What one decoding does to a text that is taken apart.
LEMMA ReductOfCons ==
    ASSUME NEW c \in Bytes, NEW r \in Texts
    PROVE  /\ \A v : Reduct(r, v) => Reduct(Join(c, r), Join(c, v))
           /\ \A u : Reduct(Join(c, r), u) /\ ~Starts(Join(c, r)) =>
                  \E v \in Texts : Reduct(r, v) /\ u = Join(c, v)
<1>1. ASSUME NEW v, Reduct(r, v) PROVE Reduct(Join(c, r), Join(c, v))
  <2>1. PICK i \in Encoded(r) : v = DecodedAt(r, i)
      BY <1>1 DEF Reduct
  <2> QED
      BY <2>1, DecodedInRest DEF Reduct
<1>2. ASSUME NEW u, Reduct(Join(c, r), u), ~Starts(Join(c, r))
      PROVE  \E v \in Texts : Reduct(r, v) /\ u = Join(c, v)
  <2>1. PICK i \in Encoded(Join(c, r)) : u = DecodedAt(Join(c, r), i)
      BY <1>2 DEF Reduct
  <2>2. i # 1 /\ i \in Nat /\ i # 0
    <3>1. i # 1
        BY <1>2, <2>1 DEF Starts
    <3>2. i \in 1..Len(Join(c, r))
        BY <2>1 DEF Encoded
    <3> QED
        BY <3>1, <3>2
  <2>3. PICK j \in Nat : i = j + 1 /\ j # 0
    <3>1. i - 1 \in Nat /\ i = (i - 1) + 1 /\ i - 1 # 0
        BY <2>2
    <3> QED
        BY <3>1
  <2>4. j \in Encoded(r)
      BY <2>1, <2>3, EncodedCons
  <2>5. u = Join(c, DecodedAt(r, j))
      BY <2>1, <2>3, <2>4, DecodedInRest
  <2> QED
      BY <2>4, <2>5, DecodedValues DEF Reduct
<1> QED
    BY <1>1, <1>2

LEMMA ReductOfCoded ==
    ASSUME NEW x \in Hex, NEW y \in Hex, NEW s \in Texts
    PROVE  /\ Reduct(Coded(x, y, s), Join(Byte(x, y), s))
           /\ \A u : Reduct(Coded(x, y, s), u) =>
                  \/ u = Join(Byte(x, y), s)
                  \/ \E v \in Texts : Reduct(s, v) /\ u = Coded(x, y, v)
<1> DEFINE t == Coded(x, y, s)
<1>1. Reduct(t, Join(Byte(x, y), s))
    BY DecodedAtStart DEF Reduct
<1>2. ASSUME NEW u, Reduct(t, u), u # Join(Byte(x, y), s)
      PROVE  \E v \in Texts : Reduct(s, v) /\ u = Coded(x, y, v)
  <2>1. PICK i \in Encoded(t) : u = DecodedAt(t, i)
      BY <1>2 DEF Reduct
  <2>2. i # 1
      BY <1>2, <2>1, DecodedAtStart
  <2>3. i # 2 /\ i # 3 /\ i \in Nat /\ i # 0
    <3>1. 2 \notin Encoded(t) /\ 3 \notin Encoded(t)
        BY CodedText, Zenon
    <3>2. i \in Nat /\ i # 0
        BY <2>1, CodedLength DEF Encoded
    <3> QED
        BY <3>1, <3>2
  <2>4. PICK j \in Nat : i = j + 3 /\ j # 0 /\ i = ((j + 1) + 1) + 1
    <3>1. i - 3 \in Nat /\ i = (i - 3) + 3 /\ i - 3 # 0 /\ i = (((i - 3) + 1) + 1) + 1
        BY <2>2, <2>3
    <3> QED
        BY <3>1
  <2>5. j \in Encoded(s)
    <3>1. \A k \in Nat : k + 3 \in Encoded(t) <=> k \in Encoded(s)
        BY CodedText
    <3> QED
        BY <2>1, <2>4, <3>1
  <2>6. Join(y, s) \in Texts /\ Join(x, Join(y, s)) \in Texts
      BY HexBytes, ConsText
  <2>7. /\ j + 1 \in Encoded(Join(y, s))
        /\ DecodedAt(Join(y, s), j + 1) = Join(y, DecodedAt(s, j))
      BY <2>5, HexBytes, DecodedInRest
  <2>8. /\ (j + 1) + 1 \in Encoded(Join(x, Join(y, s)))
        /\ DecodedAt(Join(x, Join(y, s)), (j + 1) + 1) = Join(x, DecodedAt(Join(y, s), j + 1))
      BY <2>6, <2>7, HexBytes, DecodedInRest
  <2>9. DecodedAt(t, i) = Join("%", DecodedAt(Join(x, Join(y, s)), (j + 1) + 1))
      BY <2>4, <2>6, <2>8, DigitsAreBytes, DecodedInRest DEF Coded
  <2>10. u = Coded(x, y, DecodedAt(s, j))
      BY <2>1, <2>7, <2>8, <2>9 DEF Coded
  <2> QED
      BY <2>5, <2>10, DecodedValues DEF Reduct
<1> QED
    BY <1>1, <1>2

-----------------------------------------------------------------------------
(* Decodings commute *)

BadBytes == {"/"}

LEMMA BadlyRest ==
    ASSUME NEW c \in Bytes, NEW r \in Texts
    PROVE  /\ DecodesBadly(r) => DecodesBadly(Join(c, r))
           /\ ~Starts(Join(c, r)) /\ DecodesBadly(Join(c, r)) => DecodesBadly(r)
           /\ DecodesBadly(Join(c, r)) =>
                  \/ DecodesBadly(r)
                  \/ Byte(Join(c, r)[2], Join(c, r)[3]) \in BadBytes
<1> DEFINE t == Join(c, r)
<1>1. /\ t \in Texts /\ Len(t) = Len(r) + 1 /\ Len(r) \in Nat
      /\ \A k \in 1..Len(r) : t[k + 1] = r[k]
    BY ConsText
<1>2. \A i \in Encoded(r) : i + 1 \in Encoded(t)
    BY DecodedInRest
<1>3. ASSUME NEW i \in Encoded(t), i # 1 PROVE i - 1 \in Encoded(r) /\ i = (i - 1) + 1
  <2>1. i - 1 \in Nat /\ i = (i - 1) + 1 /\ i - 1 # 0
      BY <1>1, <1>3 DEF Encoded
  <2> QED
      BY <2>1, EncodedCons
<1> HIDE DEF t
<1>4. ASSUME NEW i \in Encoded(r)
      PROVE  t[(i + 1) + 1] = r[i + 1] /\ t[(i + 1) + 2] = r[i + 2]
  <2>1. i \in Nat /\ i + 1 \in 1..Len(r) /\ i + 2 \in 1..Len(r) /\ (i + 1) + 2 = (i + 2) + 1
      BY <1>1 DEF Encoded
  <2> QED
      BY <2>1, <1>1
<1>5. ASSUME DecodesBadly(r) PROVE DecodesBadly(t)
  <2>1. PICK i \in Encoded(r) : Byte(r[i + 1], r[i + 2]) = "/"
      BY <1>5 DEF DecodesBadly
  <2>2. i + 1 \in Encoded(t) /\ Byte(t[(i + 1) + 1], t[(i + 1) + 2]) = "/"
      BY <2>1, <1>2, <1>4
  <2> QED
      BY <2>2 DEF DecodesBadly
<1>6. ASSUME DecodesBadly(t), ~DecodesBadly(r)
      PROVE  1 \in Encoded(t) /\ Byte(t[2], t[3]) \in BadBytes
  <2>1. PICK i \in Encoded(t) : Byte(t[i + 1], t[i + 2]) = "/"
      BY <1>6 DEF DecodesBadly
  <2>2. CASE i = 1
    <3>1. i + 1 = 2 /\ i + 2 = 3
        BY <2>2
    <3> QED
        BY <2>1, <2>2, <3>1 DEF BadBytes
  <2>3. CASE i # 1
    <3>1. PICK j \in Encoded(r) : i = j + 1
        BY <2>3, <1>3
    <3>2. Byte(r[j + 1], r[j + 2]) = "/"
        BY <2>1, <3>1, <1>4
    <3> QED
        BY <3>2, <1>6 DEF DecodesBadly
  <2> QED
      BY <2>2, <2>3
<1> QED
    BY <1>5, <1>6 DEF t, Starts

LEMMA BadlyCoded ==
    ASSUME NEW x \in Hex, NEW y \in Hex, NEW s \in Texts
    PROVE  DecodesBadly(Coded(x, y, s)) <=> Byte(x, y) \in BadBytes \/ DecodesBadly(s)
<1> DEFINE t == Coded(x, y, s)
<1>1. Join(y, s) \in Texts /\ Join(x, Join(y, s)) \in Texts
    BY HexBytes, ConsText
<1>2. DecodesBadly(Join(y, s)) <=> DecodesBadly(s)
    BY HexBytes, StartsCons, BadlyRest
<1>3. DecodesBadly(Join(x, Join(y, s))) <=> DecodesBadly(Join(y, s))
    BY <1>1, HexBytes, StartsCons, BadlyRest
<1>4. DecodesBadly(Join(x, Join(y, s))) => DecodesBadly(t)
    BY <1>1, DigitsAreBytes, BadlyRest DEF Coded
<1>5. DecodesBadly(t) =>
          DecodesBadly(Join(x, Join(y, s))) \/ Byte(t[2], t[3]) \in BadBytes
    BY <1>1, DigitsAreBytes, BadlyRest DEF Coded
<1>6. t[2] = x /\ t[3] = y
    BY CodedDigits
<1>7. Byte(x, y) \in BadBytes => DecodesBadly(t)
  <2>1. 1 \in Encoded(t)
      BY DecodedAtStart
  <2> HIDE DEF t
  <2>2. 1 + 1 = 2 /\ 1 + 2 = 3
      OBVIOUS
  <2> QED
      BY <2>1, <2>2, <1>6 DEF DecodesBadly, BadBytes
<1> QED
    BY <1>2, <1>3, <1>4, <1>5, <1>6, <1>7

LEMMA ConsNotEmpty ==
    ASSUME NEW c \in Bytes, NEW r \in Texts
    PROVE  Join(c, r) # <<>>
<1>1. Len(Join(c, r)) = Len(r) + 1 /\ Len(r) \in Nat
    BY ConsText
<1>2. Len(Join(c, r)) # 0
    BY <1>1
<1> QED
    BY <1>2, EmptyText

\* Only a percent sign begins an encoding.
LEMMA DecodePlain ==
    ASSUME NEW c \in Bytes, c # "%", NEW r \in Texts
    PROVE  Decode(Join(c, r)) = Join(c, Decode(r))
BY StartsCons, DecodeCons

LEMMA EmptyHasNoReduct == \A u : ~Reduct(<<>>, u)
<1>1. ASSUME NEW u, Reduct(<<>>, u) PROVE FALSE
  <2>1. Len(<<>>) >= 3
      BY <1>1, EmptyText, ReductText
  <2> QED
      BY <2>1, EmptyText
<1> QED
    BY <1>1

\* Two texts after a percent sign, the second of which completes an encoding.
LEMMA NewStart ==
    ASSUME NEW r \in Texts, NEW v \in Texts, Reduct(r, v),
           ~Starts(Join("%", r)), Starts(Join("%", v))
    PROVE  \E x, y \in Hex, s \in Texts :
               /\ v = Join(x, Join(y, s))
               /\ Decode(r) = Join(x, Join(y, Decode(s)))
               /\ DecodesBadly(s) => DecodesBadly(r)
<1>1. ~TwoDigits(r) /\ TwoDigits(v)
    BY DigitsAreBytes, StartsCons
<1>2. PICK x, y \in Hex, s \in Texts : v = Join(x, Join(y, s))
    BY <1>1, TwoDigitsCases
<1>3. /\ x \in Bytes /\ y \in Bytes /\ x # "%" /\ y # "%" /\ Join(y, s) \in Texts
      /\ x \in Digits /\ y \in Digits
    BY HexBytes, ConsText
<1>4. Decode(Join(y, s)) = Join(y, Decode(s))
    BY <1>3, DecodePlain
<1>5. DecodesBadly(s) => DecodesBadly(Join(y, s))
    BY <1>3, BadlyRest
<1>6. r # <<>>
    BY EmptyHasNoReduct
<1>7. ASSUME NEW h \in Hex, NEW l \in Hex, NEW w \in Texts, r = Coded(h, l, w)
      PROVE  /\ Decode(r) = Join(x, Join(y, Decode(s)))
             /\ DecodesBadly(s) => DecodesBadly(r)
  <2>1. ASSUME NEW q \in Texts, v = Coded(h, l, q) PROVE FALSE
    <3>1. IsJoin(v, x, Join(y, s))
        BY <1>2, <1>3, Joined
    <3>2. v[1] = "%"
        BY <2>1, CodedFirst
    <3> QED
        BY <3>1, <3>2, <1>3 DEF IsJoin
  <2>2. v = Join(Byte(h, l), w)
      BY <2>1, <1>7, ReductOfCoded
  <2>3. Byte(h, l) = x /\ w = Join(y, s)
    <3>1. Byte(h, l) \in Bytes
        BY ByteIsByte
    <3>2. IsJoin(v, x, Join(y, s))
        BY <1>2, <1>3, Joined
    <3>3. IsJoin(v, Byte(h, l), w)
        BY <2>2, <3>1, Joined
    <3> QED
        BY <3>2, <3>3 DEF IsJoin
  <2>4. Decode(r) = Join(x, Decode(w))
      BY <1>7, <2>3, DecodeCoded
  <2>5. DecodesBadly(w) => DecodesBadly(r)
      BY <1>7, BadlyCoded
  <2> QED
      BY <1>4, <1>5, <2>3, <2>4, <2>5
<1>8. ASSUME NEW d \in Bytes, NEW q \in Texts, r = Join(d, q), ~Starts(r)
      PROVE  /\ Decode(r) = Join(x, Join(y, Decode(s)))
             /\ DecodesBadly(s) => DecodesBadly(r)
  <2>1. PICK v2 \in Texts : Reduct(q, v2) /\ v = Join(d, v2)
      BY <1>8, ReductOfCons
  <2>2. d = x /\ v2 = Join(y, s)
    <3>1. IsJoin(v, x, Join(y, s))
        BY <1>2, <1>3, Joined
    <3>2. IsJoin(v, d, v2)
        BY <2>1, Joined
    <3> QED
        BY <3>1, <3>2 DEF IsJoin
  <2>3. q # <<>> /\ q[1] \notin Digits
    <3>1. q # <<>>
        BY <2>1, EmptyHasNoReduct
    <3> QED
        BY <3>1, <2>2, <1>1, <1>3, <1>8, TwoDigitsCases
  <2>4. ASSUME NEW e \in Bytes, NEW q2 \in Texts, q = Join(e, q2), ~Starts(q) PROVE FALSE
    <3>1. PICK v3 \in Texts : v2 = Join(e, v3)
        BY <2>1, <2>4, ReductOfCons
    <3>2. e = y
      <4>1. IsJoin(v2, e, v3)
          BY <3>1, Joined
      <4>2. IsJoin(v2, y, s)
          BY <2>2, <1>3, Joined
      <4> QED
          BY <4>1, <4>2 DEF IsJoin
    <3>3. q[1] = e
        BY <2>4, ConsText
    <3> QED
        BY <3>2, <3>3, <2>3, <1>3
  <2>5. PICK h, l \in Hex, w \in Texts : q = Coded(h, l, w)
      BY <2>3, <2>4, StartCases
  <2>6. ASSUME NEW p \in Texts, v2 = Coded(h, l, p) PROVE FALSE
    <3>1. IsJoin(v2, y, s)
        BY <2>2, <1>3, Joined
    <3>2. v2[1] = "%"
        BY <2>6, CodedFirst
    <3> QED
        BY <3>1, <3>2, <1>3 DEF IsJoin
  <2>7. v2 = Join(Byte(h, l), w)
      BY <2>1, <2>5, <2>6, ReductOfCoded
  <2>8. Byte(h, l) = y /\ w = s
    <3>1. Byte(h, l) \in Bytes
        BY ByteIsByte
    <3> QED
      <4>1. IsJoin(v2, Byte(h, l), w)
          BY <2>7, <3>1, Joined
      <4>2. IsJoin(v2, y, s)
          BY <2>2, <1>3, Joined
      <4> QED
          BY <4>1, <4>2 DEF IsJoin
  <2>9. Decode(q) = Join(y, Decode(s))
      BY <2>5, <2>8, DecodeCoded
  <2>10. Decode(r) = Join(x, Decode(q))
      BY <1>8, <2>2, DecodeCons
  <2>11. DecodesBadly(s) => DecodesBadly(q)
      BY <2>5, <2>8, BadlyCoded
  <2>12. DecodesBadly(q) => DecodesBadly(r)
      BY <1>8, BadlyRest
  <2> QED
      BY <2>9, <2>10, <2>11, <2>12
<1>9. /\ Decode(r) = Join(x, Join(y, Decode(s)))
      /\ DecodesBadly(s) => DecodesBadly(r)
    BY <1>6, <1>7, <1>8, StartCases
<1> QED
    BY <1>2, <1>9

\* Decoding everything at once, after one encoded byte has been decoded: the
\* same as without it, or one more byte of it is decoded, the encoding of which
\* the first byte completed.
Commutes(t, u) ==
    /\ Decode(u) = Decode(t) \/ Reduct(Decode(t), Decode(u))
    /\ DecodesBadly(u) => DecodesBadly(t) \/ DecodesBadly(Decode(t))

LEMMA ReductOfDecodeCons ==
    ASSUME NEW c \in Bytes, NEW r \in Texts, NEW v \in Texts, Commutes(r, v)
    PROVE  /\ \/ Join(c, Decode(v)) = Join(c, Decode(r))
              \/ Reduct(Join(c, Decode(r)), Join(c, Decode(v)))
           /\ DecodesBadly(v) => DecodesBadly(r) \/ DecodesBadly(Join(c, Decode(r)))
<1>1. Decode(r) \in Texts
    BY DecodeText
<1>2. Reduct(Decode(r), Decode(v)) => Reduct(Join(c, Decode(r)), Join(c, Decode(v)))
    BY <1>1, ReductOfCons
<1>3. DecodesBadly(Decode(r)) => DecodesBadly(Join(c, Decode(r)))
    BY <1>1, BadlyRest
<1> QED
    BY <1>2, <1>3 DEF Commutes

LEMMA CommutesCons ==
    ASSUME NEW c \in Bytes, NEW r \in Texts, ~Starts(Join(c, r)),
           NEW v \in Texts, Reduct(r, v), Commutes(r, v)
    PROVE  Commutes(Join(c, r), Join(c, v))
<1> DEFINE t == Join(c, r)
           u == Join(c, v)
<1>1. Decode(t) = Join(c, Decode(r)) /\ (DecodesBadly(r) => DecodesBadly(t))
    BY DecodeCons, BadlyRest
<1>2. CASE ~Starts(u)
  <2>1. Decode(u) = Join(c, Decode(v)) /\ (DecodesBadly(u) => DecodesBadly(v))
      BY <1>2, DecodeCons, BadlyRest
  <2> QED
      BY <1>1, <2>1, ReductOfDecodeCons DEF Commutes
<1>3. CASE Starts(u)
  <2>1. c = "%"
      BY <1>3, StartsCons
  <2>2. PICK x, y \in Hex, s \in Texts :
            /\ v = Join(x, Join(y, s))
            /\ Decode(r) = Join(x, Join(y, Decode(s)))
            /\ DecodesBadly(s) => DecodesBadly(r)
      BY <1>3, <2>1, NewStart
  <2>3. u = Coded(x, y, s) /\ Decode(t) = Coded(x, y, Decode(s)) /\ Decode(s) \in Texts
      BY <1>1, <2>1, <2>2, DecodeText DEF Coded
  <2>4. Decode(u) = Join(Byte(x, y), Decode(s))
      BY <2>3, DecodeCoded
  <2>5. Reduct(Decode(t), Decode(u))
      BY <2>3, <2>4, ReductOfCoded
  <2>6. DecodesBadly(u) => Byte(x, y) \in BadBytes \/ DecodesBadly(s)
      BY <2>3, BadlyCoded
  <2>7. Byte(x, y) \in BadBytes => DecodesBadly(Decode(t))
      BY <2>3, BadlyCoded
  <2> QED
      BY <1>1, <2>2, <2>5, <2>6, <2>7 DEF Commutes
<1> QED
    BY <1>2, <1>3

LEMMA CommutesAtStart ==
    ASSUME NEW h \in Hex, NEW l \in Hex, NEW w \in Texts
    PROVE  Commutes(Coded(h, l, w), Join(Byte(h, l), w))
<1> DEFINE t == Coded(h, l, w)
           b == Byte(h, l)
           u == Join(b, w)
<1>1. b \in Bytes
    BY ByteIsByte
<1>2. Decode(t) = Join(b, Decode(w)) /\ (DecodesBadly(w) => DecodesBadly(t))
    BY DecodeCoded, BadlyCoded
<1>3. CASE ~Starts(u)
  <2>1. Decode(u) = Join(b, Decode(w)) /\ (DecodesBadly(u) => DecodesBadly(w))
      BY <1>1, <1>3, DecodeCons, BadlyRest
  <2> QED
      BY <1>2, <2>1 DEF Commutes
<1>4. CASE Starts(u)
  <2>1. b = "%" /\ TwoDigits(w)
      BY <1>1, <1>4, StartsCons
  <2>2. PICK x, y \in Hex, s \in Texts : w = Join(x, Join(y, s))
      BY <2>1, TwoDigitsCases
  <2>3. /\ x \in Bytes /\ y \in Bytes /\ x # "%" /\ y # "%" /\ Join(y, s) \in Texts
      BY HexBytes, ConsText
  <2>4. Decode(Join(y, s)) = Join(y, Decode(s))
      BY <2>3, DecodePlain
  <2>5. Decode(w) = Join(x, Decode(Join(y, s)))
      BY <2>2, <2>3, DecodePlain
  <2>6. u = Coded(x, y, s) /\ Decode(t) = Coded(x, y, Decode(s)) /\ Decode(s) \in Texts
      BY <1>2, <2>1, <2>2, <2>4, <2>5, DecodeText DEF Coded
  <2>7. Decode(u) = Join(Byte(x, y), Decode(s))
      BY <2>6, DecodeCoded
  <2>8. Reduct(Decode(t), Decode(u))
      BY <2>6, <2>7, ReductOfCoded
  <2>9. DecodesBadly(u) => Byte(x, y) \in BadBytes \/ DecodesBadly(s)
      BY <2>6, BadlyCoded
  <2>10. Byte(x, y) \in BadBytes => DecodesBadly(Decode(t))
      BY <2>6, BadlyCoded
  <2>11. DecodesBadly(s) => DecodesBadly(Join(y, s))
      BY <2>3, BadlyRest
  <2>12. DecodesBadly(Join(y, s)) => DecodesBadly(w)
      BY <2>2, <2>3, BadlyRest
  <2> QED
      BY <1>2, <2>8, <2>9, <2>10, <2>11, <2>12 DEF Commutes
<1> QED
    BY <1>3, <1>4

LEMMA CommutesCoded ==
    ASSUME NEW h \in Hex, NEW l \in Hex, NEW w \in Texts, NEW v \in Texts, Commutes(w, v)
    PROVE  Commutes(Coded(h, l, w), Coded(h, l, v))
<1> DEFINE b == Byte(h, l)
<1>1. b \in Bytes
    BY ByteIsByte
<1>2. /\ Decode(Coded(h, l, w)) = Join(b, Decode(w))
      /\ Decode(Coded(h, l, v)) = Join(b, Decode(v))
    BY DecodeCoded
<1>3. /\ DecodesBadly(Coded(h, l, w)) <=> b \in BadBytes \/ DecodesBadly(w)
      /\ DecodesBadly(Coded(h, l, v)) <=> b \in BadBytes \/ DecodesBadly(v)
    BY BadlyCoded
<1>4. /\ \/ Join(b, Decode(v)) = Join(b, Decode(w))
         \/ Reduct(Join(b, Decode(w)), Join(b, Decode(v)))
      /\ DecodesBadly(v) => DecodesBadly(w) \/ DecodesBadly(Join(b, Decode(w)))
    BY <1>1, ReductOfDecodeCons
<1> HIDE DEF b
<1> QED
    BY <1>2, <1>3, <1>4 DEF Commutes

LEMMA DecodeOfReduct ==
    ASSUME NEW t \in Texts, NEW u, Reduct(t, u)
    PROVE  Commutes(t, u)
<1> DEFINE S == {a \in Texts : \A b : Reduct(a, b) => Commutes(a, b)}
<1>1. ASSUME NEW a \in Texts, \A d \in Texts : Len(d) < Len(a) => d \in S
      PROVE  a \in S
  <2> SUFFICES ASSUME NEW b, Reduct(a, b) PROVE Commutes(a, b)
      OBVIOUS
  <2>1. CASE a = <<>>
      BY <2>1, EmptyHasNoReduct
  <2>2. ASSUME NEW c \in Bytes, NEW r \in Texts, a = Join(c, r), ~Starts(a)
        PROVE  Commutes(a, b)
    <3>1. PICK v \in Texts : Reduct(r, v) /\ b = Join(c, v)
        BY <2>2, ReductOfCons
    <3>2. Commutes(r, v)
      <4>1. r \in S
          BY <2>2, <1>1, ConsShorter
      <4> QED
          BY <3>1, <4>1
    <3> QED
        BY <2>2, <3>1, <3>2, CommutesCons
  <2>3. ASSUME NEW h \in Hex, NEW l \in Hex, NEW w \in Texts, a = Coded(h, l, w)
        PROVE  Commutes(a, b)
    <3>1. \/ b = Join(Byte(h, l), w)
          \/ \E v \in Texts : Reduct(w, v) /\ b = Coded(h, l, v)
        BY <2>3, ReductOfCoded
    <3>2. ASSUME NEW v \in Texts, Reduct(w, v), b = Coded(h, l, v)
          PROVE  Commutes(a, b)
      <4>1. w \in S
          BY <2>3, <1>1, CodedShorter
      <4>2. Commutes(w, v)
          BY <3>2, <4>1
      <4> QED
          BY <2>3, <3>2, <4>2, CommutesCoded
    <3> QED
        BY <2>3, <3>1, <3>2, CommutesAtStart
  <2> QED
      BY <2>1, <2>2, <2>3, StartCases
<1>2. t \in S
  <2> HIDE DEF S
  <2> QED
      BY <1>1, TextInduction
<1> QED
    BY <1>2

-----------------------------------------------------------------------------
(* What makes a text bad, and that decoding the rest never mends it *)

Clean(t) == \A i \in DOMAIN t : t[i] # "\\"
FirstSlash(t) == t # <<>> /\ t[1] = "/"

\* A component ends at j.
EndAt(t, j) == j = Len(t) + 1 \/ (j \in 1..Len(t) /\ t[j] = "/")

\* One or two dots at i, and then the component ends.
DotsAt(t, i) ==
    /\ i \in 1..Len(t) /\ t[i] = "."
    /\ \/ EndAt(t, i + 1)
       \/ i + 1 \in 1..Len(t) /\ t[i + 1] = "." /\ EndAt(t, i + 2)

DotsInside(t) == \E i \in 1..Len(t) : t[i] = "/" /\ DotsAt(t, i + 1)

LEMMA CleanCons ==
    ASSUME NEW c \in Bytes, NEW r \in Texts
    PROVE  Clean(Join(c, r)) <=> c # "\\" /\ Clean(r)
<1> DEFINE t == Join(c, r)
<1>1. /\ t \in Texts /\ Len(t) = Len(r) + 1 /\ Len(r) \in Nat /\ t[1] = c
      /\ \A i \in 1..Len(r) : t[i + 1] = r[i]
    BY ConsText
<1> HIDE DEF t
<1>2. DOMAIN t = 1..Len(t) /\ DOMAIN r = 1..Len(r)
    BY <1>1 DEF Texts
<1>3. ASSUME Clean(t) PROVE c # "\\" /\ Clean(r)
  <2>1. 1 \in 1..Len(t) /\ \A i \in 1..Len(r) : i + 1 \in 1..Len(t)
      BY <1>1
  <2> QED
      BY <2>1, <1>1, <1>2, <1>3 DEF Clean
<1>4. ASSUME c # "\\", Clean(r), NEW i \in 1..Len(t)
      PROVE  t[i] # "\\"
  <2>1. CASE i = 1
      BY <2>1, <1>1, <1>4
  <2>2. CASE i # 1
    <3>1. PICK j \in 1..Len(r) : i = j + 1
      <4>1. i - 1 \in 1..Len(r) /\ i = (i - 1) + 1
          BY <2>2, <1>1
      <4> QED
          BY <4>1
    <3> QED
        BY <3>1, <1>1, <1>2, <1>4 DEF Clean
  <2> QED
      BY <2>1, <2>2
<1> QED
    BY <1>2, <1>3, <1>4 DEF Clean, t

LEMMA EndAtCons ==
    ASSUME NEW c \in Bytes, NEW r \in Texts
    PROVE  /\ \A j \in Nat : j # 0 => (EndAt(Join(c, r), j + 1) <=> EndAt(r, j))
           /\ EndAt(r, 1) <=> ~FollowedBy(r)
<1> DEFINE t == Join(c, r)
<1>1. /\ Len(t) = Len(r) + 1 /\ Len(r) \in Nat
      /\ \A i \in 1..Len(r) : t[i + 1] = r[i]
    BY ConsText
<1> HIDE DEF t
<1>2. ASSUME NEW j \in Nat, j # 0 PROVE EndAt(t, j + 1) <=> EndAt(r, j)
  <2>1. /\ j + 1 = Len(t) + 1 <=> j = Len(r) + 1
        /\ j + 1 \in 1..Len(t) <=> j \in 1..Len(r)
      BY <1>1, <1>2
  <2> QED
      BY <2>1, <1>1 DEF EndAt
<1>3. EndAt(r, 1) <=> ~FollowedBy(r)
  <2>1. r = <<>> <=> Len(r) = 0
      BY EmptySeq DEF Texts
  <2>2. 1 = Len(r) + 1 <=> Len(r) = 0
      BY <1>1
  <2>3. 1 \in 1..Len(r) <=> Len(r) # 0
      BY <1>1
  <2> QED
      BY <2>1, <2>2, <2>3 DEF EndAt, FollowedBy
<1> QED
    BY <1>2, <1>3 DEF t

LEMMA DotsAtCons ==
    ASSUME NEW c \in Bytes, NEW r \in Texts, NEW i \in Nat, i # 0
    PROVE  DotsAt(Join(c, r), i + 1) <=> DotsAt(r, i)
<1> DEFINE t == Join(c, r)
<1>1. /\ Len(t) = Len(r) + 1 /\ Len(r) \in Nat
      /\ \A k \in 1..Len(r) : t[k + 1] = r[k]
    BY ConsText
<1>2. \A j \in Nat : j # 0 => (EndAt(t, j + 1) <=> EndAt(r, j))
    BY EndAtCons
<1> HIDE DEF t
<1>3. /\ i + 1 \in 1..Len(t) <=> i \in 1..Len(r)
      /\ (i + 1) + 1 \in 1..Len(t) <=> i + 1 \in 1..Len(r)
      /\ i + 1 \in Nat /\ i + 2 \in Nat /\ i + 1 # 0 /\ i + 2 # 0 /\ (i + 1) + 2 = (i + 2) + 1
    BY <1>1
<1>4. /\ EndAt(t, (i + 1) + 1) <=> EndAt(r, i + 1)
      /\ EndAt(t, (i + 1) + 2) <=> EndAt(r, i + 2)
    BY <1>2, <1>3
<1>5. /\ i \in 1..Len(r) => t[i + 1] = r[i]
      /\ i + 1 \in 1..Len(r) => t[(i + 1) + 1] = r[i + 1]
    BY <1>1
<1> QED
    BY <1>3, <1>4, <1>5 DEF DotsAt, t

\* One or two dots at the beginning.
LEMMA DotsFirst ==
    ASSUME NEW c \in Bytes, NEW r \in Texts
    PROVE  /\ DotsAt(Join(c, r), 1) => c = "."
           /\ c = "." /\ ~FollowedBy(r) => DotsAt(Join(c, r), 1)
           /\ \A d \in Bytes, q \in Texts : r = Join(d, q) =>
                  (DotsAt(Join(c, r), 1) <=>
                      c = "." /\ (~FollowedBy(r) \/ (d = "." /\ ~FollowedBy(q))))
<1> DEFINE t == Join(c, r)
<1>1. /\ Len(t) = Len(r) + 1 /\ Len(r) \in Nat /\ t[1] = c
      /\ \A k \in 1..Len(r) : t[k + 1] = r[k]
    BY ConsText
<1>2. \A j \in Nat : j # 0 => (EndAt(t, j + 1) <=> EndAt(r, j))
    BY EndAtCons
<1>3. EndAt(r, 1) <=> ~FollowedBy(r)
    BY EndAtCons
<1> HIDE DEF t
<1>4. 1 \in Nat /\ 1 # 0 /\ 2 \in Nat /\ 2 # 0 /\ 2 = 1 + 1 /\ 1 + 2 = 2 + 1 /\ 1 \in 1..Len(t)
    BY <1>1
<1>5. DotsAt(t, 1) <=>
          c = "." /\ (EndAt(r, 1) \/ (1 + 1 \in 1..Len(t) /\ t[1 + 1] = "." /\ EndAt(r, 2)))
  <2>1. (EndAt(t, 1 + 1) <=> EndAt(r, 1)) /\ (EndAt(t, 1 + 2) <=> EndAt(r, 2))
      BY <1>2, <1>4
  <2> QED
      BY <1>1, <1>4, <2>1 DEF DotsAt
<1>6. ASSUME NEW d \in Bytes, NEW q \in Texts, r = Join(d, q)
      PROVE  DotsAt(t, 1) <=> c = "." /\ (~FollowedBy(r) \/ (d = "." /\ ~FollowedBy(q)))
  <2>1. Len(r) = Len(q) + 1 /\ Len(q) \in Nat /\ r[1] = d
      BY <1>6, ConsText
  <2>2. 1 \in 1..Len(r) /\ 1 + 1 \in 1..Len(t)
      BY <2>1, <1>1
  <2>3. t[1 + 1] = d
      BY <2>1, <2>2, <1>1
  <2>4. EndAt(r, 2) <=> EndAt(q, 1)
      BY <1>4, <1>6, EndAtCons
  <2>5. EndAt(q, 1) <=> ~FollowedBy(q)
      BY EndAtCons
  <2> QED
      BY <2>2, <2>3, <2>4, <2>5, <1>3, <1>5
<1> QED
    BY <1>3, <1>5, <1>6 DEF t

LEMMA DotsInsideCons ==
    ASSUME NEW c \in Bytes, NEW r \in Texts
    PROVE  DotsInside(Join(c, r)) <=> (c = "/" /\ DotsAt(r, 1)) \/ DotsInside(r)
<1> DEFINE t == Join(c, r)
<1>1. /\ Len(t) = Len(r) + 1 /\ Len(r) \in Nat /\ t[1] = c
      /\ \A k \in 1..Len(r) : t[k + 1] = r[k]
    BY ConsText
<1>2. \A i \in Nat : i # 0 => (DotsAt(t, i + 1) <=> DotsAt(r, i))
    BY DotsAtCons
<1> HIDE DEF t
<1>3. ASSUME NEW i \in 1..Len(t), t[i] = "/", DotsAt(t, i + 1)
      PROVE  (c = "/" /\ DotsAt(r, 1)) \/ DotsInside(r)
  <2>1. i \in Nat /\ i # 0 /\ DotsAt(r, i)
    <3>1. i \in Nat /\ i # 0
        OBVIOUS
    <3> QED
        BY <1>2, <1>3, <3>1, Zenon
  <2>2. CASE i = 1
      BY <1>1, <1>3, <2>1, <2>2
  <2>3. CASE i # 1
    <3>1. PICK j \in 1..Len(r) : i = j + 1
      <4>1. i - 1 \in 1..Len(r) /\ i = (i - 1) + 1
          BY <2>3, <1>1
      <4> QED
          BY <4>1
    <3> QED
        BY <3>1, <2>1, <1>1, <1>3 DEF DotsInside
  <2> QED
      BY <2>2, <2>3
<1>4. ASSUME c = "/", DotsAt(r, 1) PROVE DotsInside(t)
  <2>1. 1 \in Nat /\ 1 # 0 /\ 1 \in 1..Len(t)
      BY <1>1
  <2>2. DotsAt(t, 1 + 1)
      BY <2>1, <1>2, <1>4
  <2> QED
      BY <2>1, <2>2, <1>1, <1>4 DEF DotsInside
<1>5. ASSUME NEW i \in 1..Len(r), r[i] = "/", DotsAt(r, i + 1) PROVE DotsInside(t)
  <2>1. i + 1 \in 1..Len(t) /\ i + 1 \in Nat /\ i + 1 # 0
      BY <1>1
  <2>2. t[i + 1] = "/" /\ DotsAt(t, (i + 1) + 1)
      BY <2>1, <1>1, <1>2, <1>5
  <2> QED
      BY <2>1, <2>2 DEF DotsInside
<1> QED
    BY <1>3, <1>4, <1>5 DEF DotsInside, t

LEMMA PrefixCons ==
    ASSUME NEW c \in Bytes, NEW r \in Texts
    PROVE  HasPrefix(Join(c, r)) <=> c \in Letters /\ r # <<>> /\ r[1] = ":"
<1> DEFINE t == Join(c, r)
<1>1. /\ Len(t) = Len(r) + 1 /\ Len(r) \in Nat /\ t[1] = c
      /\ \A k \in 1..Len(r) : t[k + 1] = r[k]
    BY ConsText
<1> HIDE DEF t
<1>2. r # <<>> <=> Len(r) # 0
    BY EmptySeq DEF Texts
<1>3. /\ Len(t) >= 2 <=> Len(r) # 0
      /\ Len(r) # 0 => 1 \in 1..Len(r) /\ 1 + 1 = 2
    BY <1>1
<1>4. Len(r) # 0 => t[2] = r[1]
    BY <1>1, <1>3
<1> QED
    BY <1>1, <1>2, <1>3, <1>4 DEF HasPrefix, t

LEMMA FollowedCons ==
    ASSUME NEW c \in Bytes, NEW r \in Texts
    PROVE  /\ FollowedBy(Join(c, r)) <=> c # "/"
           /\ FirstSlash(Join(c, r)) <=> c = "/"
BY ConsNotEmpty, JoinParts DEF FollowedBy, FirstSlash

\* The components of a text, by where they begin.
LEMMA DottedComponents ==
    ASSUME NEW t \in Texts
    PROVE  Components(t) \cap {<<".">>, <<".", ".">>} # {} <=> DotsAt(t, 1) \/ DotsInside(t)
<1> DEFINE n == Len(t)
           cuts == {0, n + 1} \cup {i \in 1..n : t[i] = "/"}
           near == {p \in cuts \X cuts : p[1] < p[2] /\ \A k \in cuts : k <= p[1] \/ k >= p[2]}
<1>1. n \in Nat /\ \A i \in 1..n : t[i] \in Bytes
    BY DEF Texts
<1>2. Components(t) = {SubSeq(t, p[1] + 1, p[2] - 1) : p \in near}
    BY DEF Components
<1>3. /\ <<".">> \in Texts /\ Len(<<".">>) = 1 /\ <<".">>[1] = "."
      /\ <<".", ".">> \in Texts /\ Len(<<".", ".">>) = 2
      /\ <<".", ".">>[1] = "." /\ <<".", ".">>[2] = "."
  <2>1. "." \in Bytes
      BY DEF Bytes
  <2>2. <<".">> \in Texts /\ <<".", ".">> \in Texts
      BY <2>1 DEF Texts
  <2> QED
      BY <2>2
<1>4. ASSUME NEW a \in 0..n, NEW b \in a + 1..n + 1
      PROVE  LET s == SubSeq(t, a + 1, b - 1)
             IN  /\ s \in Texts /\ Len(s) = b - 1 - a
                 /\ \A i \in 1..b - 1 - a : s[i] = t[a + i]
  <2> DEFINE s == SubSeq(t, a + 1, b - 1)
  <2>1. /\ s \in Texts /\ Len(s) = IF a + 1 <= b - 1 THEN (b - 1) - (a + 1) + 1 ELSE 0
        /\ \A i \in 1..(b - 1) - (a + 1) + 1 : s[i] = t[(a + 1) + i - 1]
    <3>1. a + 1 \in Int /\ b - 1 \in Int /\ \A i \in a + 1..b - 1 : t[i] \in Bytes
        BY <1>1
    <3> QED
        BY <3>1, SubSeqProperties DEF Texts
  <2> HIDE DEF s
  <2>2. /\ (b - 1) - (a + 1) + 1 = b - 1 - a
        /\ \A i \in 1..b - 1 - a : (a + 1) + i - 1 = a + i
        /\ (IF a + 1 <= b - 1 THEN (b - 1) - (a + 1) + 1 ELSE 0) = b - 1 - a
      BY <1>1
  <2>3. \A i \in 1..b - 1 - a : s[i] = t[a + i]
      BY <2>1, <2>2
  <2> QED
      BY <2>1, <2>2, <2>3 DEF s
<1>5. ASSUME NEW p \in near, SubSeq(t, p[1] + 1, p[2] - 1) \in {<<".">>, <<".", ".">>}
      PROVE  DotsAt(t, 1) \/ DotsInside(t)
  <2>1. PICK a \in cuts, b \in cuts : a < b /\ p[1] = a /\ p[2] = b
      OBVIOUS
  <2>2. a \in 0..n /\ b \in a + 1..n + 1
      BY <1>1, <2>1
  <2> DEFINE s == SubSeq(t, a + 1, b - 1)
  <2>3. /\ s \in {<<".">>, <<".", ".">>} /\ Len(s) = b - 1 - a
        /\ \A i \in 1..b - 1 - a : s[i] = t[a + i]
      BY <1>4, <1>5, <2>1, <2>2
  <2> HIDE DEF s
  <2>4. /\ b = a + 2 \/ b = a + 3
        /\ t[a + 1] = "." /\ (b = a + 3 => t[a + 2] = ".")
    <3>1. CASE s = <<".">>
      <4>1. b - 1 - a = 1
          BY <1>3, <2>3, <3>1
      <4> QED
          BY <4>1, <1>3, <2>2, <2>3, <3>1
    <3>2. CASE s = <<".", ".">>
      <4>1. b - 1 - a = 2
          BY <1>3, <2>3, <3>2
      <4>2. 1 \in 1..b - 1 - a /\ 2 \in 1..b - 1 - a /\ b = a + 3
          BY <4>1, <2>2
      <4> QED
          BY <4>2, <1>3, <2>3, <3>2
    <3> QED
        BY <3>1, <3>2, <2>3
  <2>5. EndAt(t, b)
    <3>1. b # 0
        BY <2>2
    <3> QED
        BY <2>1, <3>1 DEF EndAt
  <2>6. DotsAt(t, a + 1)
    <3>1. a + 1 \in 1..n /\ (a + 1) + 1 = a + 2 /\ (a + 1) + 2 = a + 3
          /\ (b = a + 3 => a + 2 \in 1..n)
        BY <1>1, <2>2, <2>4
    <3> QED
        BY <3>1, <2>4, <2>5 DEF DotsAt
  <2>7. a = 0 \/ (a \in 1..n /\ t[a] = "/")
      BY <1>1, <2>1, <2>2
  <2> QED
      BY <2>6, <2>7 DEF DotsInside
<1>6. ASSUME NEW a \in 0..n, a \in cuts, DotsAt(t, a + 1)
      PROVE  Components(t) \cap {<<".">>, <<".", ".">>} # {}
  <2>1. PICK b \in {a + 2, a + 3} :
            EndAt(t, b) /\ t[a + 1] = "." /\ a + 1 \in 1..n
            /\ (b = a + 3 => a + 2 \in 1..n /\ t[a + 2] = ".")
    <3>1. (a + 1) + 1 = a + 2 /\ (a + 1) + 2 = a + 3 /\ a + 2 # a + 3
        OBVIOUS
    <3> QED
        BY <1>6, <3>1 DEF DotsAt
  <2>2. b \in a + 1..n + 1 /\ b \in cuts
      BY <1>1, <2>1 DEF EndAt
  <2>3. \A k \in cuts : k <= a \/ k >= b
    <3>1. ASSUME NEW k \in cuts, ~(k <= a), ~(k >= b) PROVE FALSE
      <4>1. k = a + 1 \/ (b = a + 3 /\ k = a + 2)
          BY <1>1, <2>1, <3>1
      <4>2. k \in 1..n /\ t[k] = "."
          BY <4>1, <2>1
      <4> QED
          BY <4>2, <3>1, <1>1
    <3> QED
        BY <3>1
  <2>4. <<a, b>> \in near
      BY <1>1, <1>6, <2>2, <2>3
  <2> DEFINE s == SubSeq(t, a + 1, b - 1)
  <2>5. s \in Components(t)
    <3>1. <<a, b>>[1] = a /\ <<a, b>>[2] = b
        OBVIOUS
    <3>2. PICK p \in near : p[1] = a /\ p[2] = b
        BY <2>4, <3>1
    <3> HIDE DEF near
    <3>3. SubSeq(t, p[1] + 1, p[2] - 1) \in Components(t)
        BY <1>2
    <3> QED
        BY <3>2, <3>3
  <2>6. /\ s \in Texts /\ Len(s) = b - 1 - a
        /\ \A i \in 1..b - 1 - a : s[i] = t[a + i]
      BY <1>4, <2>2
  <2> HIDE DEF s
  <2>7. CASE b = a + 2
    <3>1. Len(s) = 1 /\ \A i \in 1..1 : s[i] = <<".">>[i]
        BY <1>1, <1>3, <2>1, <2>6, <2>7
    <3>2. s = <<".">>
        BY <1>3, <2>6, <3>1, SeqEqual DEF Texts
    <3> QED
        BY <2>5, <3>2
  <2>8. CASE b = a + 3
    <3>1. b - 1 - a = 2
        BY <2>8
    <3>2. s[1] = t[a + 1] /\ s[2] = t[a + 2]
        BY <2>6, <3>1
    <3>3. Len(s) = 2 /\ \A i \in 1..2 : s[i] = <<".", ".">>[i]
      <4>1. \A i \in 1..2 : i = 1 \/ i = 2
          OBVIOUS
      <4> QED
          BY <4>1, <1>3, <2>1, <2>6, <2>8, <3>1, <3>2
    <3>4. s = <<".", ".">>
        BY <1>3, <2>6, <3>3, SeqEqual DEF Texts
    <3> QED
        BY <2>5, <3>4
  <2> QED
      BY <2>1, <2>7, <2>8
<1>7. ASSUME Components(t) \cap {<<".">>, <<".", ".">>} # {}
      PROVE  DotsAt(t, 1) \/ DotsInside(t)
  <2>1. PICK p \in near : SubSeq(t, p[1] + 1, p[2] - 1) \in {<<".">>, <<".", ".">>}
      BY <1>2, <1>7
  <2> QED
      BY <2>1, <1>5
<1>8. ASSUME DotsAt(t, 1) \/ DotsInside(t)
      PROVE  Components(t) \cap {<<".">>, <<".", ".">>} # {}
  <2>1. CASE DotsAt(t, 1)
    <3>1. 0 \in 0..n /\ 0 \in cuts /\ 0 + 1 = 1
        BY <1>1
    <3> HIDE DEF cuts
    <3> QED
        BY <3>1, <2>1, <1>6
  <2>2. CASE DotsInside(t)
    <3>1. PICK a \in 1..n : t[a] = "/" /\ DotsAt(t, a + 1)
        BY <2>2 DEF DotsInside
    <3>2. a \in 0..n /\ a \in cuts
        BY <1>1, <3>1
    <3> HIDE DEF cuts
    <3> QED
        BY <3>1, <3>2, <1>6
  <2> QED
      BY <1>8, <2>1, <2>2
<1> QED
    BY <1>7, <1>8

LEMMA InsideParts ==
    ASSUME NEW t \in Texts
    PROVE  Inside(t) <=>
               /\ ~HasPrefix(t) /\ ~FirstSlash(t)
               /\ ~DotsAt(t, 1) /\ ~DotsInside(t) /\ Clean(t)
BY DottedComponents DEF Inside, BadComponents, FirstSlash, Clean

LEMMA EmptyParts ==
    /\ ~FollowedBy(<<>>) /\ ~FirstSlash(<<>>) /\ ~HasPrefix(<<>>)
    /\ ~DotsAt(<<>>, 1) /\ ~DotsInside(<<>>) /\ Clean(<<>>)
<1>1. 1..Len(<<>>) = {} /\ ~(Len(<<>>) >= 2) /\ DOMAIN <<>> = {}
    BY EmptyText
<1> QED
    BY <1>1 DEF FollowedBy, FirstSlash, HasPrefix, DotsAt, DotsInside, Clean

-----------------------------------------------------------------------------
(* Induction on texts, a byte or an encoded byte at a time *)

LEMMA ByteInduction ==
    ASSUME NEW S, <<>> \in S, \A c \in Bytes, r \in Texts : r \in S => Join(c, r) \in S
    PROVE  \A t \in Texts : t \in S
<1>1. ASSUME NEW t \in Texts, \A u \in Texts : Len(u) < Len(t) => u \in S PROVE t \in S
  <2>1. CASE t # <<>>
    <3>1. PICK c \in Bytes, r \in Texts : t = Join(c, r)
        BY <2>1, TextCases
    <3>2. r \in S
        BY <1>1, <3>1, ConsShorter
    <3> QED
        BY <3>1, <3>2
  <2> QED
      BY <2>1
<1> QED
    BY <1>1, TextInduction

LEMMA CodeInduction ==
    ASSUME NEW S, <<>> \in S,
           \A c \in Bytes, r \in Texts : r \in S /\ ~Starts(Join(c, r)) => Join(c, r) \in S,
           \A x, y \in Hex, s \in Texts : s \in S => Coded(x, y, s) \in S
    PROVE  \A t \in Texts : t \in S
<1>1. ASSUME NEW t \in Texts, \A u \in Texts : Len(u) < Len(t) => u \in S PROVE t \in S
  <2>1. ASSUME NEW c \in Bytes, NEW r \in Texts, t = Join(c, r), ~Starts(t) PROVE t \in S
    <3>1. r \in S
        BY <1>1, <2>1, ConsShorter
    <3> QED
        BY <2>1, <3>1
  <2>2. ASSUME NEW x \in Hex, NEW y \in Hex, NEW s \in Texts, t = Coded(x, y, s) PROVE t \in S
    <3>1. s \in S
        BY <1>1, <2>2, CodedShorter
    <3> QED
        BY <2>2, <3>1
  <2> QED
      BY <2>1, <2>2, StartCases
<1> QED
    BY <1>1, TextInduction

\* A text that begins with an encoded byte, as bytes.
LEMMA CodedBytes ==
    ASSUME NEW x \in Hex, NEW y \in Hex, NEW s \in Texts
    PROVE  /\ x \in Bytes /\ y \in Bytes /\ "%" \in Bytes /\ x # "/" /\ y # "/" /\ x # "%" /\ y # "%"
           /\ Join(y, s) \in Texts /\ Join(x, Join(y, s)) \in Texts
           /\ Coded(x, y, s) = Join("%", Join(x, Join(y, s)))
BY HexBytes, DigitsAreBytes, ConsText DEF Coded

-----------------------------------------------------------------------------
(* What is bad stays bad when the rest is decoded *)

LEMMA FirstOfDecode ==
    ASSUME NEW t \in Texts
    PROVE  /\ FirstSlash(t) => FirstSlash(Decode(t))
           /\ ~FollowedBy(t) => ~FollowedBy(Decode(t))
           /\ ~DecodesBadly(t) => (FollowedBy(Decode(t)) <=> FollowedBy(t))
<1>1. CASE t = <<>>
    BY <1>1, DecodeEmpty, EmptyParts
<1>2. ASSUME NEW c \in Bytes, NEW r \in Texts, t = Join(c, r), ~Starts(t)
      PROVE  (FirstSlash(Decode(t)) <=> FirstSlash(t)) /\ (FollowedBy(Decode(t)) <=> FollowedBy(t))
  <2>1. Decode(t) = Join(c, Decode(r)) /\ Decode(r) \in Texts
      BY <1>2, DecodeCons, DecodeText
  <2> QED
      BY <1>2, <2>1, FollowedCons
<1>3. ASSUME NEW x \in Hex, NEW y \in Hex, NEW s \in Texts, t = Coded(x, y, s)
      PROVE  ~FirstSlash(t) /\ FollowedBy(t) /\ (~DecodesBadly(t) => FollowedBy(Decode(t)))
  <2>1. Decode(t) = Join(Byte(x, y), Decode(s)) /\ Decode(s) \in Texts /\ Byte(x, y) \in Bytes
      BY <1>3, DecodeCoded, DecodeText, ByteIsByte
  <2>2. ~DecodesBadly(t) => Byte(x, y) # "/"
      BY <1>3, BadlyCoded DEF BadBytes
  <2>3. ~FirstSlash(t) /\ FollowedBy(t)
      BY <1>3, CodedBytes, FollowedCons
  <2> QED
      BY <2>1, <2>2, <2>3, FollowedCons
<1> QED
    BY <1>1, <1>2, <1>3, StartCases

LEMMA PrefixOfDecode ==
    ASSUME NEW t \in Texts, HasPrefix(t)
    PROVE  HasPrefix(Decode(t))
<1>1. t # <<>>
    BY EmptyParts
<1>2. PICK c \in Bytes, r \in Texts : t = Join(c, r)
    BY <1>1, TextCases
<1>3. c \in Letters /\ r # <<>> /\ r[1] = ":"
    BY <1>2, PrefixCons
<1>4. PICK d \in Bytes, q \in Texts : r = Join(d, q)
    BY <1>3, TextCases
<1>5. d = ":" /\ c # "%" /\ d # "%"
    BY <1>3, <1>4, JoinParts DEF Letters
<1>6. Decode(t) = Join(c, Decode(r)) /\ Decode(r) = Join(d, Decode(q))
    BY <1>2, <1>4, <1>5, DecodePlain
<1>7. Decode(r) \in Texts /\ Decode(q) \in Texts
    BY DecodeText
<1>8. Decode(r) # <<>> /\ Decode(r)[1] = ":"
    BY <1>5, <1>6, <1>7, ConsNotEmpty, JoinParts
<1> QED
    BY <1>3, <1>6, <1>7, <1>8, PrefixCons

LEMMA DotsOfDecode ==
    ASSUME NEW t \in Texts, DotsAt(t, 1)
    PROVE  DotsAt(Decode(t), 1)
<1>1. t # <<>>
    BY EmptyParts
<1>2. PICK c \in Bytes, r \in Texts : t = Join(c, r)
    BY <1>1, TextCases
<1>3. c = "." /\ c # "%"
    BY <1>2, DotsFirst
<1>4. Decode(t) = Join(c, Decode(r)) /\ Decode(r) \in Texts
    BY <1>2, <1>3, DecodePlain, DecodeText
<1>5. CASE ~FollowedBy(r)
    BY <1>3, <1>4, <1>5, FirstOfDecode, DotsFirst
<1>6. CASE FollowedBy(r)
  <2>1. PICK d \in Bytes, q \in Texts : r = Join(d, q)
      BY <1>6, TextCases DEF FollowedBy
  <2>2. d = "." /\ ~FollowedBy(q)
      BY <1>2, <1>6, <2>1, DotsFirst
  <2>3. Decode(r) = Join(d, Decode(q)) /\ Decode(q) \in Texts /\ ~FollowedBy(Decode(q))
      BY <2>1, <2>2, DecodePlain, DecodeText, FirstOfDecode
  <2> QED
      BY <1>3, <1>4, <2>2, <2>3, DotsFirst
<1> QED
    BY <1>5, <1>6

LEMMA DotsInsideDecode ==
    ASSUME NEW t \in Texts, DotsInside(t)
    PROVE  DotsInside(Decode(t))
<1> DEFINE S == {a \in Texts : DotsInside(a) => DotsInside(Decode(a))}
<1>1. <<>> \in S
    BY EmptyParts, EmptyText
<1>2. ASSUME NEW c \in Bytes, NEW r \in Texts, r \in S, ~Starts(Join(c, r))
      PROVE  Join(c, r) \in S
  <2>1. Decode(Join(c, r)) = Join(c, Decode(r)) /\ Decode(r) \in Texts /\ Join(c, r) \in Texts
      BY <1>2, DecodeCons, DecodeText, ConsText
  <2>2. DotsAt(r, 1) => DotsAt(Decode(r), 1)
      BY DotsOfDecode
  <2>3. DotsInside(r) => DotsInside(Decode(r))
      BY <1>2
  <2> HIDE DEF S
  <2>4. DotsInside(Join(c, r)) => DotsInside(Join(c, Decode(r)))
      BY <2>1, <2>2, <2>3, DotsInsideCons
  <2> QED
      BY <2>1, <2>4 DEF S
<1>3. ASSUME NEW x \in Hex, NEW y \in Hex, NEW s \in Texts, s \in S
      PROVE  Coded(x, y, s) \in S
  <2>1. /\ Decode(Coded(x, y, s)) = Join(Byte(x, y), Decode(s))
        /\ Decode(s) \in Texts /\ Byte(x, y) \in Bytes /\ Coded(x, y, s) \in Texts
      BY DecodeCoded, DecodeText, ByteIsByte, CodedLength
  <2>2. DotsInside(Coded(x, y, s)) => DotsInside(s)
    <3>1. DotsInside(Join(y, s)) => DotsInside(s)
        BY CodedBytes, DotsInsideCons
    <3>2. DotsInside(Join(x, Join(y, s))) => DotsInside(Join(y, s))
        BY CodedBytes, DotsInsideCons
    <3>3. DotsInside(Coded(x, y, s)) => DotsInside(Join(x, Join(y, s)))
        BY CodedBytes, DotsInsideCons
    <3> QED
        BY <3>1, <3>2, <3>3
  <2>3. DotsInside(Decode(s)) => DotsInside(Join(Byte(x, y), Decode(s)))
      BY <2>1, DotsInsideCons
  <2>4. DotsInside(s) => DotsInside(Decode(s))
      BY <1>3
  <2> QED
      BY <2>1, <2>2, <2>3, <2>4
<1> HIDE DEF S
<1>4. t \in S
    BY <1>1, <1>2, <1>3, CodeInduction
<1> QED
    BY <1>4 DEF S

LEMMA CleanCoded ==
    ASSUME NEW x \in Hex, NEW y \in Hex, NEW s \in Texts
    PROVE  Clean(Coded(x, y, s)) <=> Clean(s)
<1>1. "\\" \notin {"%", x, y}
    BY DEF Hex, Digits
<1>2. Clean(Join(y, s)) <=> Clean(s)
    BY <1>1, CodedBytes, CleanCons
<1>3. Clean(Join(x, Join(y, s))) <=> Clean(Join(y, s))
    BY <1>1, CodedBytes, CleanCons
<1>4. Clean(Coded(x, y, s)) <=> Clean(Join(x, Join(y, s)))
  <2> DEFINE r == Join(x, Join(y, s))
  <2>1. Coded(x, y, s) = Join("%", r) /\ r \in Texts /\ "%" \in Bytes
      BY CodedBytes
  <2> HIDE DEF r
  <2>2. Clean(Join("%", r)) <=> "%" # "\\" /\ Clean(r)
      BY <2>1, CleanCons
  <2>3. "%" # "\\"
      OBVIOUS
  <2>4. Clean(Coded(x, y, s)) <=> Clean(r)
      BY <2>1, <2>2, <2>3
  <2> QED
      BY <2>4 DEF r
<1> QED
    BY <1>2, <1>3, <1>4

LEMMA CleanDecode ==
    ASSUME NEW t \in Texts
    PROVE  /\ Clean(Decode(t)) => Clean(t)
           /\ Clean(t) /\ ~DecodesBadly(t) => Clean(Decode(t))
<1> DEFINE Q(a) == /\ Clean(Decode(a)) => Clean(a)
                   /\ Clean(a) /\ ~DecodesBadly(a) => Clean(Decode(a))
           S == {a \in Texts : Q(a)}
<1>1. <<>> \in S
    BY EmptyParts, EmptyText, DecodeEmpty
<1>2. ASSUME NEW c \in Bytes, NEW r \in Texts, r \in S, ~Starts(Join(c, r))
      PROVE  Join(c, r) \in S
  <2>1. Decode(Join(c, r)) = Join(c, Decode(r)) /\ Decode(r) \in Texts /\ Join(c, r) \in Texts
      BY <1>2, DecodeCons, DecodeText, ConsText
  <2>2. Q(r)
      BY <1>2
  <2>3. /\ Clean(Join(c, r)) <=> c # "\\" /\ Clean(r)
        /\ Clean(Join(c, Decode(r))) <=> c # "\\" /\ Clean(Decode(r))
      BY <2>1, CleanCons
  <2>4. DecodesBadly(r) => DecodesBadly(Join(c, r))
      BY BadlyRest
  <2>5. Q(Join(c, r))
      BY <2>1, <2>2, <2>3, <2>4
  <2> QED
      BY <2>1, <2>5
<1>3. ASSUME NEW x \in Hex, NEW y \in Hex, NEW s \in Texts, s \in S
      PROVE  Coded(x, y, s) \in S
  <2>1. /\ Decode(Coded(x, y, s)) = Join(Byte(x, y), Decode(s))
        /\ Decode(s) \in Texts /\ Byte(x, y) \in Bytes /\ Coded(x, y, s) \in Texts
      BY DecodeCoded, DecodeText, ByteIsByte, CodedLength
  <2>2. Q(s)
      BY <1>3
  <2>3. /\ Clean(Coded(x, y, s)) <=> Clean(s)
        /\ Clean(Join(Byte(x, y), Decode(s)))
               <=> Byte(x, y) # "\\" /\ Clean(Decode(s))
      BY <2>1, CleanCons, CleanCoded
  <2>4. DecodesBadly(Coded(x, y, s)) <=> Byte(x, y) \in BadBytes \/ DecodesBadly(s)
      BY BadlyCoded
  <2>5. Byte(x, y) \notin BadBytes => Byte(x, y) # "\\"
      BY ByteIsByte DEF BadBytes
  <2>6. Q(Coded(x, y, s))
      BY <2>1, <2>2, <2>3, <2>4, <2>5
  <2> QED
      BY <2>1, <2>6
<1> HIDE DEF S
<1>4. t \in S
    BY <1>1, <1>2, <1>3, CodeInduction
<1> QED
    BY <1>4 DEF S

\* A text is inside if what it decodes to is.
LEMMA InsideOfDecode ==
    ASSUME NEW t \in Texts, Inside(Decode(t))
    PROVE  Inside(t)
<1>1. Decode(t) \in Texts
    BY DecodeText
<1>2. /\ ~HasPrefix(Decode(t)) /\ ~FirstSlash(Decode(t))
      /\ ~DotsAt(Decode(t), 1) /\ ~DotsInside(Decode(t)) /\ Clean(Decode(t))
    BY <1>1, InsideParts
<1>3. ~HasPrefix(t) /\ ~FirstSlash(t) /\ ~DotsAt(t, 1) /\ ~DotsInside(t) /\ Clean(t)
    BY <1>2, PrefixOfDecode, FirstOfDecode, DotsOfDecode, DotsInsideDecode, CleanDecode
<1> QED
    BY <1>3, InsideParts

-----------------------------------------------------------------------------
(* Collapsing separators *)

\* Collapsing a text that does not begin with a separator leaves its first byte.
LEMMA CollapsedPlain ==
    ASSUME NEW c \in Bytes, c # "/", NEW r \in Texts
    PROVE  Collapsed(Join(c, r)) = Join(c, Collapsed(r)) /\ Collapsed(r) \in Texts
BY CollapsedCons, CollapsedText

LEMMA FollowedCollapsed ==
    ASSUME NEW t \in Texts
    PROVE  FollowedBy(Collapsed(t)) <=> FollowedBy(t)
<1> DEFINE S == {a \in Texts : FollowedBy(Collapsed(a)) <=> FollowedBy(a)}
<1>1. <<>> \in S
    BY EmptyText, CollapsedEmpty
<1>2. ASSUME NEW c \in Bytes, NEW r \in Texts, r \in S PROVE Join(c, r) \in S
  <2>1. Collapsed(r) \in Texts /\ Join(c, r) \in Texts
      BY CollapsedText, ConsText
  <2>2. /\ FollowedBy(Join(c, r)) <=> c # "/"
        /\ FollowedBy(Join(c, Collapsed(r))) <=> c # "/"
      BY <2>1, FollowedCons
  <2>3. FollowedBy(Collapsed(r)) <=> FollowedBy(r)
      BY <1>2
  <2>4. Collapsed(Join(c, r)) =
            IF c # "/" \/ FollowedBy(r) THEN Join(c, Collapsed(r)) ELSE Collapsed(r)
      BY CollapsedCons
  <2>5. FollowedBy(Collapsed(Join(c, r))) <=> FollowedBy(Join(c, r))
      BY <2>2, <2>3, <2>4
  <2> QED
      BY <2>1, <2>5
<1> HIDE DEF S
<1>3. t \in S
    BY <1>1, <1>2, ByteInduction
<1> QED
    BY <1>3 DEF S

\* A text and its first byte, when the text is followed by one.
LEMMA FollowedCases ==
    ASSUME NEW t \in Texts, FollowedBy(t)
    PROVE  \E c \in Bytes, r \in Texts :
               /\ t = Join(c, r) /\ t[1] = c /\ c # "/"
               /\ Collapsed(t) = Join(c, Collapsed(r)) /\ Collapsed(r) \in Texts
               /\ Collapsed(t) # <<>> /\ Collapsed(t)[1] = c
<1>1. PICK c \in Bytes, r \in Texts : t = Join(c, r)
    BY TextCases DEF FollowedBy
<1>2. c # "/" /\ t[1] = c
    BY <1>1, FollowedCons, JoinParts
<1>3. Collapsed(t) = Join(c, Collapsed(r)) /\ Collapsed(r) \in Texts
    BY <1>1, <1>2, CollapsedPlain
<1>4. Collapsed(t) # <<>> /\ Collapsed(t)[1] = c
    BY <1>3, ConsNotEmpty, JoinParts
<1> QED
    BY <1>1, <1>2, <1>3, <1>4

LEMMA PrefixCollapsed ==
    ASSUME NEW t \in Texts, FollowedBy(t), HasPrefix(Collapsed(t))
    PROVE  HasPrefix(t)
<1>1. PICK c \in Bytes, r \in Texts :
          t = Join(c, r) /\ Collapsed(t) = Join(c, Collapsed(r)) /\ Collapsed(r) \in Texts
    BY FollowedCases
<1>2. c \in Letters /\ Collapsed(r) # <<>> /\ Collapsed(r)[1] = ":"
    BY <1>1, PrefixCons
<1>3. FollowedBy(r)
  <2>1. FollowedBy(Collapsed(r))
      BY <1>2 DEF FollowedBy
  <2> QED
      BY <2>1, FollowedCollapsed
<1>4. r # <<>> /\ r[1] = Collapsed(r)[1]
    BY <1>3, FollowedCases DEF FollowedBy
<1> QED
    BY <1>1, <1>2, <1>4, PrefixCons

LEMMA DotsCollapsed ==
    ASSUME NEW t \in Texts, FollowedBy(t), DotsAt(Collapsed(t), 1)
    PROVE  DotsAt(t, 1)
<1>1. PICK c \in Bytes, r \in Texts :
          t = Join(c, r) /\ Collapsed(t) = Join(c, Collapsed(r)) /\ Collapsed(r) \in Texts
    BY FollowedCases
<1>2. c = "."
    BY <1>1, DotsFirst
<1>3. CASE ~FollowedBy(r)
    BY <1>1, <1>2, <1>3, DotsFirst
<1>4. CASE FollowedBy(r)
  <2>1. PICK d \in Bytes, q \in Texts :
            r = Join(d, q) /\ Collapsed(r) = Join(d, Collapsed(q)) /\ Collapsed(q) \in Texts
      BY <1>4, FollowedCases
  <2>2. FollowedBy(Collapsed(r))
      BY <1>4, FollowedCollapsed
  <2>3. d = "." /\ ~FollowedBy(Collapsed(q))
      BY <1>1, <2>1, <2>2, DotsFirst
  <2>4. ~FollowedBy(q)
      BY <2>3, FollowedCollapsed
  <2> QED
      BY <1>1, <1>2, <2>1, <2>3, <2>4, DotsFirst
<1> QED
    BY <1>3, <1>4

LEMMA DotsInsideCollapsed ==
    ASSUME NEW t \in Texts, DotsInside(Collapsed(t))
    PROVE  DotsInside(t)
<1> DEFINE S == {a \in Texts : DotsInside(Collapsed(a)) => DotsInside(a)}
<1>1. <<>> \in S
    BY EmptyText, EmptyParts, CollapsedEmpty
<1>2. ASSUME NEW c \in Bytes, NEW r \in Texts, r \in S PROVE Join(c, r) \in S
  <2>1. Collapsed(r) \in Texts /\ Join(c, r) \in Texts
      BY CollapsedText, ConsText
  <2>2. DotsInside(Collapsed(r)) => DotsInside(r)
      BY <1>2
  <2> HIDE DEF S
  <2>3. DotsInside(Join(c, r)) <=> (c = "/" /\ DotsAt(r, 1)) \/ DotsInside(r)
      BY DotsInsideCons
  <2>4. DotsInside(Join(c, Collapsed(r)))
            <=> (c = "/" /\ DotsAt(Collapsed(r), 1)) \/ DotsInside(Collapsed(r))
      BY <2>1, DotsInsideCons
  <2>5. FollowedBy(r) => (DotsAt(Collapsed(r), 1) => DotsAt(r, 1))
      BY DotsCollapsed
  <2>6. Collapsed(Join(c, r)) =
            IF c # "/" \/ FollowedBy(r) THEN Join(c, Collapsed(r)) ELSE Collapsed(r)
      BY CollapsedCons
  <2>7. DotsInside(Collapsed(Join(c, r))) => DotsInside(Join(c, r))
      BY <2>2, <2>3, <2>4, <2>5, <2>6
  <2> QED
      BY <2>1, <2>7 DEF S
<1> HIDE DEF S
<1>3. t \in S
    BY <1>1, <1>2, ByteInduction
<1> QED
    BY <1>3 DEF S

LEMMA CleanCollapsed ==
    ASSUME NEW t \in Texts, Clean(t)
    PROVE  Clean(Collapsed(t))
<1> DEFINE S == {a \in Texts : Clean(a) => Clean(Collapsed(a))}
<1>1. <<>> \in S
    BY EmptyText, EmptyParts, CollapsedEmpty
<1>2. ASSUME NEW c \in Bytes, NEW r \in Texts, r \in S PROVE Join(c, r) \in S
  <2>1. Collapsed(r) \in Texts /\ Join(c, r) \in Texts
      BY CollapsedText, ConsText
  <2>2. Clean(r) => Clean(Collapsed(r))
      BY <1>2
  <2> HIDE DEF S
  <2>3. /\ Clean(Join(c, r)) <=> c # "\\" /\ Clean(r)
        /\ Clean(Join(c, Collapsed(r))) <=> c # "\\" /\ Clean(Collapsed(r))
      BY <2>1, CleanCons
  <2>4. Collapsed(Join(c, r)) =
            IF c # "/" \/ FollowedBy(r) THEN Join(c, Collapsed(r)) ELSE Collapsed(r)
      BY CollapsedCons
  <2>5. Clean(Join(c, r)) => Clean(Collapsed(Join(c, r)))
      BY <2>2, <2>3, <2>4
  <2> QED
      BY <2>1, <2>5 DEF S
<1> HIDE DEF S
<1>3. t \in S
    BY <1>1, <1>2, ByteInduction
<1> QED
    BY <1>3 DEF S

LEMMA InsideCollapsed ==
    ASSUME NEW t \in Texts, Inside(t)
    PROVE  Inside(Collapsed(t))
<1>1. /\ ~HasPrefix(t) /\ ~FirstSlash(t)
      /\ ~DotsAt(t, 1) /\ ~DotsInside(t) /\ Clean(t)
    BY InsideParts
<1>2. Collapsed(t) \in Texts
    BY CollapsedText
<1>3. CASE t = <<>>
    BY <1>3, CollapsedEmpty
<1>4. CASE t # <<>>
  <2>1. FollowedBy(t) /\ FollowedBy(Collapsed(t))
      BY <1>1, <1>4, FollowedCollapsed DEF FollowedBy, FirstSlash
  <2>2. ~FirstSlash(Collapsed(t))
      BY <2>1 DEF FollowedBy, FirstSlash
  <2>3. ~HasPrefix(Collapsed(t)) /\ ~DotsAt(Collapsed(t), 1)
      BY <1>1, <2>1, PrefixCollapsed, DotsCollapsed
  <2>4. ~DotsInside(Collapsed(t)) /\ Clean(Collapsed(t))
      BY <1>1, DotsInsideCollapsed, CleanCollapsed
  <2> QED
      BY <1>2, <2>2, <2>3, <2>4, InsideParts
<1> QED
    BY <1>3, <1>4

\* No byte of it is encoded.
Unencoded(t) == Encoded(t) = {}

LEMMA UnencodedCons ==
    ASSUME NEW c \in Bytes, NEW r \in Texts
    PROVE  Unencoded(Join(c, r)) <=> ~Starts(Join(c, r)) /\ Unencoded(r)
<1>1. /\ \A i \in Nat : i + 1 \in Encoded(Join(c, r)) <=> i \in Encoded(r) \/ (i = 0 /\ c = "%" /\ TwoDigits(r))
      /\ Encoded(r) \subseteq 1..Len(r) /\ Len(r) \in Nat
    BY EncodedCons, ConsText
<1>2. Unencoded(Join(c, r)) => ~Starts(Join(c, r))
    BY DEF Unencoded, Starts
<1>3. Unencoded(Join(c, r)) => Unencoded(r)
  <2>1. ASSUME NEW i \in Encoded(r) PROVE i + 1 \in Encoded(Join(c, r))
    <3>1. i \in Nat
        BY <1>1
    <3> QED
        BY <3>1, <1>1
  <2> QED
      BY <2>1 DEF Unencoded
<1>4. ASSUME ~Starts(Join(c, r)), Unencoded(r), NEW i \in Encoded(Join(c, r)) PROVE FALSE
  <2>1. PICK j \in Nat : i = j + 1
    <3>1. i \in 1..Len(Join(c, r)) /\ Len(Join(c, r)) \in Nat
        BY ConsText, <1>1 DEF Encoded
    <3>2. i - 1 \in Nat /\ i = (i - 1) + 1
        BY <3>1
    <3> QED
        BY <3>2
  <2>2. j = 0
      BY <2>1, <1>1, <1>4 DEF Unencoded
  <2> QED
      BY <2>1, <2>2, <1>4 DEF Starts
<1> QED
    BY <1>2, <1>3, <1>4 DEF Unencoded

LEMMA UnencodedIsNotBad ==
    ASSUME NEW t, Unencoded(t)
    PROVE  ~DecodesBadly(t) /\ \A u : ~Reduct(t, u)
BY DEF Unencoded, DecodesBadly, Reduct

LEMMA CodedIsNotUnencoded ==
    ASSUME NEW x \in Hex, NEW y \in Hex, NEW s \in Texts
    PROVE  ~Unencoded(Coded(x, y, s))
BY DecodedAtStart DEF Unencoded

LEMMA EmptyIsUnencoded == Unencoded(<<>>) /\ ~DecodesBadly(<<>>)
<1>1. 1..Len(<<>>) = {}
    BY EmptyText
<1>2. Unencoded(<<>>)
    BY <1>1 DEF Unencoded, Encoded
<1> QED
    BY <1>2, UnencodedIsNotBad

\* Collapsing begins no encoding, and ends none.
LEMMA StartsCollapsed ==
    ASSUME NEW c \in Bytes, NEW r \in Texts, Starts(Join(c, Collapsed(r)))
    PROVE  Starts(Join(c, r))
<1>1. Collapsed(r) \in Texts
    BY CollapsedText
<1>2. c = "%" /\ TwoDigits(Collapsed(r))
    BY <1>1, StartsCons
<1>3. PICK x \in Hex, y \in Hex, s \in Texts : Collapsed(r) = Join(x, Join(y, s))
    BY <1>1, <1>2, TwoDigitsCases
<1>4. /\ x \in Bytes /\ y \in Bytes /\ x # "/" /\ y # "/" /\ x \in Digits /\ y \in Digits
      /\ Join(y, s) \in Texts
    BY HexBytes, ConsText
<1>5. FollowedBy(r)
  <2>1. FollowedBy(Collapsed(r))
      BY <1>3, <1>4, FollowedCons
  <2> QED
      BY <2>1, FollowedCollapsed
<1>6. PICK d \in Bytes, q \in Texts :
          r = Join(d, q) /\ Collapsed(r) = Join(d, Collapsed(q)) /\ Collapsed(q) \in Texts
    BY <1>5, FollowedCases
<1>7. d = x /\ Collapsed(q) = Join(y, s)
  <2>1. IsJoin(Collapsed(r), d, Collapsed(q))
      BY <1>6, Joined
  <2>2. IsJoin(Collapsed(r), x, Join(y, s))
      BY <1>3, <1>4, Joined
  <2> QED
      BY <2>1, <2>2 DEF IsJoin
<1>8. FollowedBy(q)
  <2>1. FollowedBy(Collapsed(q))
      BY <1>4, <1>7, FollowedCons
  <2> QED
      BY <2>1, FollowedCollapsed
<1>9. PICK e \in Bytes, p \in Texts :
          q = Join(e, p) /\ q[1] = e /\ Collapsed(q)[1] = e
    BY <1>8, FollowedCases
<1>10. e = y
    BY <1>4, <1>7, <1>9, JoinParts
<1>11. q # <<>> /\ q[1] \in Digits
    BY <1>4, <1>8, <1>9, <1>10 DEF FollowedBy
<1>12. TwoDigits(r)
    BY <1>4, <1>6, <1>7, <1>11, TwoDigitsCases
<1> QED
    BY <1>2, <1>12, StartsCons

LEMMA CollapsedCoded ==
    ASSUME NEW x \in Hex, NEW y \in Hex, NEW s \in Texts
    PROVE  Collapsed(Coded(x, y, s)) = Coded(x, y, Collapsed(s))
<1>1. Collapsed(Join(y, s)) = Join(y, Collapsed(s))
    BY CodedBytes, CollapsedPlain
<1>2. Collapsed(Join(x, Join(y, s))) = Join(x, Collapsed(Join(y, s)))
    BY CodedBytes, CollapsedPlain
<1>3. "%" # "/"
    OBVIOUS
<1>4. Collapsed(Coded(x, y, s)) = Join("%", Collapsed(Join(x, Join(y, s))))
    BY <1>3, CodedBytes, CollapsedPlain
<1> QED
    BY <1>1, <1>2, <1>4 DEF Coded

\* Decoding everything and collapsing can be done in either order.
Agrees(t) ==
    /\ Unencoded(t) => Unencoded(Collapsed(t))
    /\ ~DecodesBadly(t) =>
           ~DecodesBadly(Collapsed(t)) /\ Decode(Collapsed(t)) = Collapsed(Decode(t))

LEMMA AgreesCons ==
    ASSUME NEW c \in Bytes, NEW r \in Texts, Agrees(r), ~Starts(Join(c, r))
    PROVE  Agrees(Join(c, r))
<1> DEFINE t == Join(c, r)
<1>1. Collapsed(r) \in Texts /\ Decode(r) \in Texts
    BY CollapsedText, DecodeText
<1>2. Decode(t) = Join(c, Decode(r))
    BY DecodeCons
<1>3. DecodesBadly(r) => DecodesBadly(t)
    BY BadlyRest
<1>4. Unencoded(t) => Unencoded(r)
    BY UnencodedCons
<1>5. /\ c # "/" \/ FollowedBy(r) => Collapsed(t) = Join(c, Collapsed(r))
      /\ ~(c # "/" \/ FollowedBy(r)) => Collapsed(t) = Collapsed(r)
    BY CollapsedCons
<1>6. /\ c # "/" \/ FollowedBy(Decode(r)) =>
             Collapsed(Join(c, Decode(r))) = Join(c, Collapsed(Decode(r)))
      /\ ~(c # "/" \/ FollowedBy(Decode(r))) =>
             Collapsed(Join(c, Decode(r))) = Collapsed(Decode(r))
    BY <1>1, CollapsedCons
<1>7. ~DecodesBadly(r) => (FollowedBy(Decode(r)) <=> FollowedBy(r))
    BY FirstOfDecode
<1>8. ~Starts(Join(c, Collapsed(r)))
    BY StartsCollapsed
<1>9. /\ Unencoded(Join(c, Collapsed(r))) <=> Unencoded(Collapsed(r))
      /\ DecodesBadly(Join(c, Collapsed(r))) => DecodesBadly(Collapsed(r))
      /\ Decode(Join(c, Collapsed(r))) = Join(c, Decode(Collapsed(r)))
    BY <1>1, <1>8, UnencodedCons, BadlyRest, DecodeCons
<1>10. Agrees(r)
    OBVIOUS
<1> HIDE DEF t
<1>11. Unencoded(t) => Unencoded(Collapsed(t))
    BY <1>4, <1>5, <1>9, <1>10 DEF Agrees
<1>12. ASSUME ~DecodesBadly(t)
       PROVE  ~DecodesBadly(Collapsed(t)) /\ Decode(Collapsed(t)) = Collapsed(Decode(t))
  <2>1. ~DecodesBadly(r) /\ ~DecodesBadly(Collapsed(r)) /\ Decode(Collapsed(r)) = Collapsed(Decode(r))
      BY <1>3, <1>10, <1>12 DEF Agrees
  <2>2. CASE c # "/" \/ FollowedBy(r)
    <3>1. Collapsed(t) = Join(c, Collapsed(r)) /\ Collapsed(Decode(t)) = Join(c, Collapsed(Decode(r)))
        BY <1>2, <1>5, <1>6, <1>7, <2>1, <2>2
    <3> QED
        BY <3>1, <1>9, <2>1
  <2>3. CASE ~(c # "/" \/ FollowedBy(r))
    <3>1. Collapsed(t) = Collapsed(r) /\ Collapsed(Decode(t)) = Collapsed(Decode(r))
        BY <1>2, <1>5, <1>6, <1>7, <2>1, <2>3
    <3> QED
        BY <3>1, <2>1
  <2> QED
      BY <2>2, <2>3
<1> QED
    BY <1>11, <1>12 DEF Agrees, t

LEMMA AgreesCoded ==
    ASSUME NEW x \in Hex, NEW y \in Hex, NEW s \in Texts, Agrees(s)
    PROVE  Agrees(Coded(x, y, s))
<1> DEFINE b == Byte(x, y)
<1>1. Collapsed(s) \in Texts /\ Decode(s) \in Texts /\ b \in Bytes
    BY CollapsedText, DecodeText, ByteIsByte
<1>2. /\ Decode(Coded(x, y, s)) = Join(b, Decode(s))
      /\ Collapsed(Coded(x, y, s)) = Coded(x, y, Collapsed(s))
      /\ Decode(Coded(x, y, Collapsed(s))) = Join(b, Decode(Collapsed(s)))
    BY <1>1, DecodeCoded, CollapsedCoded
<1>3. /\ DecodesBadly(Coded(x, y, s)) <=> b \in BadBytes \/ DecodesBadly(s)
      /\ DecodesBadly(Coded(x, y, Collapsed(s))) <=> b \in BadBytes \/ DecodesBadly(Collapsed(s))
    BY <1>1, BadlyCoded
<1>4. b \notin BadBytes => Collapsed(Join(b, Decode(s))) = Join(b, Collapsed(Decode(s)))
    BY <1>1, CollapsedPlain DEF BadBytes
<1>5. ~Unencoded(Coded(x, y, s))
    BY CodedIsNotUnencoded
<1>6. Agrees(s)
    OBVIOUS
<1> HIDE DEF b
<1> QED
    BY <1>2, <1>3, <1>4, <1>5, <1>6 DEF Agrees

LEMMA CollapsingAgrees ==
    ASSUME NEW t \in Texts
    PROVE  Agrees(t)
<1> DEFINE S == {a \in Texts : Agrees(a)}
<1>1. <<>> \in S
  <2>1. Agrees(<<>>)
      BY EmptyIsUnencoded, CollapsedEmpty, DecodeEmpty DEF Agrees
  <2> QED
      BY <2>1, EmptyText
<1>2. ASSUME NEW c \in Bytes, NEW r \in Texts, r \in S, ~Starts(Join(c, r))
      PROVE  Join(c, r) \in S
    BY <1>2, AgreesCons, ConsText
<1>3. ASSUME NEW x \in Hex, NEW y \in Hex, NEW s \in Texts, s \in S
      PROVE  Coded(x, y, s) \in S
    BY <1>3, AgreesCoded, CodedLength
<1> HIDE DEF S
<1>4. t \in S
    BY <1>1, <1>2, <1>3, CodeInduction
<1> QED
    BY <1>4 DEF S

\* In what is left, a separator has a byte of a component behind it.
Spaced(t) == \A i \in Slashes(t) : i < Len(t) /\ t[i + 1] # "/"

LEMMA SpacedCons ==
    ASSUME NEW c \in Bytes, NEW r \in Texts, Spaced(r), c # "/" \/ FollowedBy(r)
    PROVE  Spaced(Join(c, r))
<1> DEFINE t == Join(c, r)
<1>1. /\ t \in Texts /\ Len(t) = Len(r) + 1 /\ Len(r) \in Nat /\ t[1] = c
      /\ \A k \in 1..Len(r) : t[k + 1] = r[k]
    BY ConsText
<1> HIDE DEF t
<1>2. DOMAIN t = 1..Len(t) /\ DOMAIN r = 1..Len(r)
    BY <1>1 DEF Texts
<1>3. ASSUME NEW i \in 1..Len(t), t[i] = "/" PROVE i < Len(t) /\ t[i + 1] # "/"
  <2>1. CASE i = 1
    <3>1. FollowedBy(r)
        BY <1>1, <1>3, <2>1
    <3>2. 1 \in 1..Len(r)
        BY <1>1, <3>1, EmptySeq DEF FollowedBy, Texts
    <3> QED
        BY <1>1, <2>1, <3>1, <3>2 DEF FollowedBy
  <2>2. CASE i # 1
    <3>1. PICK j \in 1..Len(r) : i = j + 1
      <4>1. i - 1 \in 1..Len(r) /\ i = (i - 1) + 1
          BY <2>2, <1>1
      <4> QED
          BY <4>1
    <3>2. r[j] = "/"
        BY <1>1, <1>3, <3>1
    <3>3. j < Len(r) /\ r[j + 1] # "/"
        BY <1>2, <3>2 DEF Spaced, Slashes
    <3>4. j + 1 \in 1..Len(r)
        BY <1>1, <3>3
    <3>5. t[(j + 1) + 1] # "/"
        BY <1>1, <3>3, <3>4
    <3> QED
        BY <1>1, <3>1, <3>3, <3>5
  <2> QED
      BY <2>1, <2>2
<1> QED
    BY <1>2, <1>3 DEF Spaced, Slashes, t

LEMMA CollapsedIsSpaced ==
    ASSUME NEW t \in Texts
    PROVE  Spaced(Collapsed(t))
<1> DEFINE S == {a \in Texts : Spaced(Collapsed(a))}
<1>1. <<>> \in S
  <2>1. DOMAIN <<>> = {}
      OBVIOUS
  <2>2. Spaced(<<>>)
      BY <2>1 DEF Spaced, Slashes
  <2> QED
      BY <2>2, EmptyText, CollapsedEmpty
<1>2. ASSUME NEW c \in Bytes, NEW r \in Texts, r \in S PROVE Join(c, r) \in S
  <2>1. Collapsed(r) \in Texts /\ Join(c, r) \in Texts /\ Spaced(Collapsed(r))
      BY <1>2, CollapsedText, ConsText
  <2>2. FollowedBy(Collapsed(r)) <=> FollowedBy(r)
      BY FollowedCollapsed
  <2>3. Spaced(Collapsed(Join(c, r)))
      BY <2>1, <2>2, CollapsedCons, SpacedCons
  <2> QED
      BY <2>1, <2>3
<1> HIDE DEF S
<1>3. t \in S
    BY <1>1, <1>2, ByteInduction
<1> QED
    BY <1>3 DEF S

-----------------------------------------------------------------------------
(* The texts that are inside, and that stay inside decoding after decoding *)

\* A set of texts has what is inside and either has no encoded byte or decodes,
\* without a refused byte, to a text of the set.
Stays(S) ==
    \A t \in Texts :
        Inside(t) /\ (Unencoded(t) \/ (~DecodesBadly(t) /\ Decode(t) \in S)) => t \in S

\* The least such set: decoding a durable text again and again stays inside and
\* comes to an end.
Durable == {t \in Texts : \A S \in SUBSET Texts : Stays(S) => t \in S}

LEMMA DurableStays == Stays(Durable)
<1>1. ASSUME NEW t \in Texts, Inside(t), Unencoded(t) \/ (~DecodesBadly(t) /\ Decode(t) \in Durable),
             NEW S \in SUBSET Texts, Stays(S)
      PROVE  t \in S
    BY <1>1 DEF Stays, Durable
<1> QED
    BY <1>1 DEF Stays, Durable

\* What is true of each durable text whose decoding has it is true of all.
LEMMA DurableInduction ==
    ASSUME NEW S \in SUBSET Durable, Stays(S)
    PROVE  S = Durable
BY DEF Durable

LEMMA DurableParts ==
    ASSUME NEW t \in Durable
    PROVE  /\ t \in Texts /\ Inside(t) /\ ~DecodesBadly(t)
           /\ Unencoded(t) \/ Decode(t) \in Durable
<1> DEFINE S == {a \in Durable : Inside(a) /\ ~DecodesBadly(a) /\ (Unencoded(a) \/ Decode(a) \in Durable)}
<1>1. ASSUME NEW a \in Texts, Inside(a), Unencoded(a) \/ (~DecodesBadly(a) /\ Decode(a) \in S)
      PROVE  a \in S
  <2>1. Unencoded(a) \/ (~DecodesBadly(a) /\ Decode(a) \in Durable)
      BY <1>1
  <2>2. a \in Durable
      BY <1>1, <2>1, DurableStays DEF Stays
  <2>3. ~DecodesBadly(a)
      BY <2>1, UnencodedIsNotBad
  <2> QED
      BY <1>1, <2>1, <2>2, <2>3
<1>2. S \in SUBSET Durable
    OBVIOUS
<1>3. Durable \subseteq Texts
    BY DEF Durable
<1>4. S = Durable
  <2> HIDE DEF S
  <2> QED
      BY <1>1, <1>2, DurableInduction DEF Stays
<1> QED
    BY <1>3, <1>4

\* Decoding one byte of a durable text leaves a durable text.
LEMMA ReductOfDurable ==
    ASSUME NEW t \in Durable, NEW u, Reduct(t, u)
    PROVE  u \in Durable
<1> DEFINE S == {a \in Durable : \A b : Reduct(a, b) => b \in Durable}
<1>1. ASSUME NEW a \in Texts, Inside(a), Unencoded(a) \/ (~DecodesBadly(a) /\ Decode(a) \in S)
      PROVE  a \in S
  <2>1. Unencoded(a) \/ (~DecodesBadly(a) /\ Decode(a) \in Durable)
      BY <1>1
  <2>2. a \in Durable
      BY <1>1, <2>1, DurableStays DEF Stays
  <2>3. ASSUME NEW b, Reduct(a, b) PROVE b \in Durable
    <3>1. ~Unencoded(a)
        BY <2>3, UnencodedIsNotBad
    <3>2. ~DecodesBadly(a) /\ Decode(a) \in Durable /\ \A c : Reduct(Decode(a), c) => c \in Durable
        BY <1>1, <3>1
    <3>3. ~DecodesBadly(Decode(a))
        BY <3>2, DurableParts
    <3>4. Commutes(a, b)
        BY <2>3, DecodeOfReduct
    <3>5. ~DecodesBadly(b) /\ Decode(b) \in Durable
        BY <3>2, <3>3, <3>4 DEF Commutes
    <3>6. b \in Texts /\ Inside(Decode(b))
        BY <2>3, <3>5, ReductText, DurableParts
    <3>7. Inside(b)
        BY <3>6, InsideOfDecode
    <3> QED
        BY <3>5, <3>6, <3>7, DurableStays DEF Stays
  <2> QED
      BY <2>2, <2>3
<1>2. S \in SUBSET Durable
    OBVIOUS
<1>3. S = Durable
  <2> HIDE DEF S
  <2> QED
      BY <1>1, <1>2, DurableInduction DEF Stays
<1> QED
    BY <1>3

\* So does collapsing its separators.
LEMMA CollapsedOfDurable ==
    ASSUME NEW t \in Durable
    PROVE  Collapsed(t) \in Durable
<1> DEFINE S == {a \in Durable : Collapsed(a) \in Durable}
<1>1. ASSUME NEW a \in Texts, Inside(a), Unencoded(a) \/ (~DecodesBadly(a) /\ Decode(a) \in S)
      PROVE  a \in S
  <2>1. Unencoded(a) \/ (~DecodesBadly(a) /\ Decode(a) \in Durable /\ Collapsed(Decode(a)) \in Durable)
      BY <1>1
  <2>2. a \in Durable
      BY <1>1, <2>1, DurableStays DEF Stays
  <2>3. Collapsed(a) \in Texts /\ Inside(Collapsed(a))
      BY <1>1, CollapsedText, InsideCollapsed
  <2>4. Agrees(a)
      BY CollapsingAgrees
  <2>5. \/ Unencoded(Collapsed(a))
        \/ ~DecodesBadly(Collapsed(a)) /\ Decode(Collapsed(a)) \in Durable
      BY <2>1, <2>4 DEF Agrees
  <2>6. Collapsed(a) \in Durable
      BY <2>3, <2>5, DurableStays DEF Stays
  <2> QED
      BY <2>2, <2>6
<1>2. S \in SUBSET Durable
    OBVIOUS
<1>3. S = Durable
  <2> HIDE DEF S
  <2> QED
      BY <1>1, <1>2, DurableInduction DEF Stays
<1> QED
    BY <1>3

-----------------------------------------------------------------------------
(* How deep a text is *)

Depth(t) == Cardinality(Slashes(t))

LEMMA DepthCons ==
    ASSUME NEW c \in Bytes, NEW r \in Texts
    PROVE  /\ Depth(r) \in Nat
           /\ Depth(Join(c, r)) = Depth(r) + (IF c = "/" THEN 1 ELSE 0)
<1> DEFINE t == Join(c, r)
           moved == {i \in 1..Len(t) : t[i] = "/" /\ i # 1}
<1>1. /\ t \in Texts /\ Len(t) = Len(r) + 1 /\ Len(r) \in Nat /\ t[1] = c
      /\ \A k \in 1..Len(r) : t[k + 1] = r[k]
    BY ConsText
<1> HIDE DEF t
<1>2. DOMAIN t = 1..Len(t) /\ DOMAIN r = 1..Len(r)
    BY <1>1 DEF Texts
<1>3. IsFiniteSet(Slashes(r)) /\ Depth(r) \in Nat
  <2>1. IsFiniteSet(1..Len(r)) /\ Slashes(r) \subseteq 1..Len(r)
      BY <1>1, <1>2, FS_Interval DEF Slashes
  <2>2. IsFiniteSet(Slashes(r))
      BY <2>1, FS_Subset
  <2> QED
      BY <2>2, FS_CardinalityType DEF Depth
<1>4. ExistsBijection(Slashes(r), moved)
  <2> DEFINE f == [i \in Slashes(r) |-> i + 1]
  <2>1. ASSUME NEW i \in Slashes(r) PROVE f[i] \in moved
    <3>1. i \in 1..Len(r) /\ r[i] = "/"
        BY <1>2 DEF Slashes
    <3>2. i + 1 \in 1..Len(t) /\ t[i + 1] = "/" /\ i + 1 # 1
        BY <1>1, <3>1
    <3> QED
        BY <3>2
  <2>2. ASSUME NEW i \in Slashes(r), NEW j \in Slashes(r), f[i] = f[j] PROVE i = j
    <3>1. i \in Nat /\ j \in Nat
        BY <1>2 DEF Slashes
    <3> QED
        BY <3>1, <2>2
  <2>3. ASSUME NEW m \in moved PROVE \E i \in Slashes(r) : f[i] = m
    <3>1. m \in 1..Len(t) /\ t[m] = "/" /\ m # 1
        OBVIOUS
    <3>2. PICK j \in 1..Len(r) : m = j + 1
      <4>1. m - 1 \in 1..Len(r) /\ m = (m - 1) + 1
          BY <3>1, <1>1
      <4> QED
          BY <4>1
    <3>3. j \in Slashes(r)
        BY <1>1, <1>2, <3>1, <3>2 DEF Slashes
    <3> QED
        BY <3>2, <3>3
  <2>4. f \in [Slashes(r) -> moved]
      BY <2>1
  <2> HIDE DEF f, moved
  <2>5. f \in Bijection(Slashes(r), moved)
      BY <2>2, <2>3, <2>4 DEF Bijection, Injection, Surjection, IsInjective
  <2> QED
      BY <2>5 DEF ExistsBijection
<1>5. IsFiniteSet(moved) /\ Cardinality(moved) = Depth(r)
    BY <1>3, <1>4, FS_Bijection DEF Depth
<1>6. CASE c # "/"
  <2>1. Slashes(t) = moved
      BY <1>1, <1>2, <1>6 DEF Slashes
  <2> HIDE DEF moved
  <2> QED
      BY <1>3, <1>5, <1>6, <2>1 DEF Depth, t
<1>7. CASE c = "/"
  <2>1. Slashes(t) = moved \cup {1} /\ 1 \notin moved
      BY <1>1, <1>2, <1>7 DEF Slashes
  <2> HIDE DEF moved
  <2>2. Cardinality(moved \cup {1}) = Cardinality(moved) + 1
      BY <1>5, <2>1, FS_AddElement
  <2> QED
      BY <1>3, <1>5, <1>7, <2>1, <2>2 DEF Depth, t
<1> QED
    BY <1>3, <1>6, <1>7

LEMMA DepthCoded ==
    ASSUME NEW x \in Hex, NEW y \in Hex, NEW s \in Texts
    PROVE  Depth(Coded(x, y, s)) = Depth(s)
<1> DEFINE r == Join(y, s)
           q == Join(x, r)
<1>1. Coded(x, y, s) = Join("%", q) /\ r \in Texts /\ q \in Texts
      /\ x \in Bytes /\ y \in Bytes /\ "%" \in Bytes /\ x # "/" /\ y # "/" /\ "%" # "/"
    BY CodedBytes
<1>2. Depth(r) = Depth(s) + 0 /\ Depth(s) \in Nat
    BY <1>1, DepthCons
<1> HIDE DEF r
<1>3. Depth(q) = Depth(r) + 0
    BY <1>1, DepthCons
<1> HIDE DEF q
<1>4. Depth(Join("%", q)) = Depth(q) + 0
    BY <1>1, DepthCons
<1> QED
    BY <1>1, <1>2, <1>3, <1>4

\* Decoding a byte that is not a separator leaves a text as deep as it was.
LEMMA DepthOfReduct ==
    ASSUME NEW t \in Texts, ~DecodesBadly(t), NEW u, Reduct(t, u)
    PROVE  Depth(u) = Depth(t)
<1> DEFINE Q(a) == ~DecodesBadly(a) => \A b : Reduct(a, b) => Depth(b) = Depth(a)
           S == {a \in Texts : Q(a)}
<1>1. <<>> \in S
    BY EmptyText, EmptyHasNoReduct
<1>2. ASSUME NEW c \in Bytes, NEW r \in Texts, r \in S, ~Starts(Join(c, r))
      PROVE  Join(c, r) \in S
  <2>1. ASSUME ~DecodesBadly(Join(c, r)), NEW b, Reduct(Join(c, r), b)
        PROVE  Depth(b) = Depth(Join(c, r))
    <3>1. ~DecodesBadly(r)
        BY <2>1, BadlyRest
    <3>2. PICK v \in Texts : Reduct(r, v) /\ b = Join(c, v)
        BY <1>2, <2>1, ReductOfCons
    <3>3. Depth(v) = Depth(r)
        BY <1>2, <3>1, <3>2
    <3> HIDE DEF S
    <3> QED
        BY <3>2, <3>3, DepthCons
  <2> QED
      BY <2>1, ConsText
<1>3. ASSUME NEW x \in Hex, NEW y \in Hex, NEW s \in Texts, s \in S
      PROVE  Coded(x, y, s) \in S
  <2>1. ASSUME ~DecodesBadly(Coded(x, y, s)), NEW b, Reduct(Coded(x, y, s), b)
        PROVE  Depth(b) = Depth(Coded(x, y, s))
    <3>1. ~DecodesBadly(s) /\ Byte(x, y) # "/" /\ Byte(x, y) \in Bytes
        BY <2>1, BadlyCoded, ByteIsByte DEF BadBytes
    <3>2. CASE b = Join(Byte(x, y), s)
      <4>1. Depth(b) = Depth(s) + 0 /\ Depth(s) \in Nat
          BY <3>1, <3>2, DepthCons
      <4> QED
          BY <4>1, DepthCoded
    <3>3. ASSUME NEW v \in Texts, Reduct(s, v), b = Coded(x, y, v)
          PROVE  Depth(b) = Depth(Coded(x, y, s))
      <4>1. Depth(v) = Depth(s)
          BY <1>3, <3>1, <3>3
      <4> HIDE DEF S
      <4> QED
          BY <3>3, <4>1, DepthCoded
    <3> QED
        BY <2>1, <3>2, <3>3, ReductOfCoded
  <2> QED
      BY <2>1, CodedLength
<1> HIDE DEF S
<1>4. t \in S
    BY <1>1, <1>2, <1>3, CodeInduction
<1> QED
    BY <1>4 DEF S

\* Of a text that decodes badly, some byte decodes to one more separator.
LEMMA BadReduct ==
    ASSUME NEW t \in Texts, DecodesBadly(t)
    PROVE  \E u \in Texts : Reduct(t, u) /\ Depth(u) # Depth(t)
<1> DEFINE Q(a) == DecodesBadly(a) => \E u \in Texts : Reduct(a, u) /\ Depth(u) # Depth(a)
           S == {a \in Texts : Q(a)}
<1>1. <<>> \in S
    BY EmptyText, EmptyIsUnencoded
<1>2. ASSUME NEW c \in Bytes, NEW r \in Texts, r \in S, ~Starts(Join(c, r))
      PROVE  Join(c, r) \in S
  <2>1. ASSUME DecodesBadly(Join(c, r))
        PROVE  \E u \in Texts : Reduct(Join(c, r), u) /\ Depth(u) # Depth(Join(c, r))
    <3>1. DecodesBadly(r)
        BY <1>2, <2>1, BadlyRest
    <3>2. PICK v \in Texts : Reduct(r, v) /\ Depth(v) # Depth(r)
        BY <1>2, <3>1
    <3> HIDE DEF S
    <3>3. Reduct(Join(c, r), Join(c, v)) /\ Join(c, v) \in Texts
        BY <3>2, ReductOfCons, ConsText
    <3>4. Depth(Join(c, v)) # Depth(Join(c, r))
      <4>1. /\ Depth(v) \in Nat /\ Depth(Join(c, v)) = Depth(v) + (IF c = "/" THEN 1 ELSE 0)
            /\ Depth(r) \in Nat /\ Depth(Join(c, r)) = Depth(r) + (IF c = "/" THEN 1 ELSE 0)
          BY DepthCons
      <4> QED
          BY <3>2, <4>1
    <3> QED
        BY <3>3, <3>4
  <2> QED
      BY <2>1, ConsText
<1>3. ASSUME NEW x \in Hex, NEW y \in Hex, NEW s \in Texts, s \in S
      PROVE  Coded(x, y, s) \in S
  <2>1. ASSUME DecodesBadly(Coded(x, y, s))
        PROVE  \E u \in Texts : Reduct(Coded(x, y, s), u) /\ Depth(u) # Depth(Coded(x, y, s))
    <3>1. CASE Byte(x, y) \in BadBytes
      <4> DEFINE u == Join(Byte(x, y), s)
      <4>1. Byte(x, y) \in Bytes
          BY ByteIsByte
      <4>2. Reduct(Coded(x, y, s), u) /\ u \in Texts
          BY <4>1, ReductOfCoded, ConsText
      <4>3. Depth(u) = Depth(s) + 1 /\ Depth(s) \in Nat
          BY <3>1, <4>1, DepthCons DEF BadBytes
      <4>4. Depth(u) # Depth(Coded(x, y, s))
          BY <4>3, DepthCoded
      <4> QED
          BY <4>2, <4>4
    <3>2. CASE DecodesBadly(s)
      <4>1. PICK v \in Texts : Reduct(s, v) /\ Depth(v) # Depth(s)
          BY <1>3, <3>2
      <4> HIDE DEF S
      <4>2. Reduct(Coded(x, y, s), Coded(x, y, v)) /\ Coded(x, y, v) \in Texts
        <5>1. Reduct(Join(y, s), Join(y, v)) /\ Join(y, v) \in Texts
            BY <4>1, CodedBytes, ReductOfCons
        <5>2. Reduct(Join(x, Join(y, s)), Join(x, Join(y, v))) /\ Join(x, Join(y, v)) \in Texts
            BY <5>1, CodedBytes, ReductOfCons, ConsText
        <5>3. Reduct(Join("%", Join(x, Join(y, s))), Join("%", Join(x, Join(y, v))))
            BY <5>2, CodedBytes, ReductOfCons
        <5> QED
            BY <5>3, CodedLength DEF Coded
      <4>3. Depth(Coded(x, y, v)) = Depth(v) /\ Depth(Coded(x, y, s)) = Depth(s)
          BY DepthCoded
      <4> QED
          BY <4>1, <4>2, <4>3
    <3> QED
        BY <2>1, <3>1, <3>2, BadlyCoded
  <2> QED
      BY <2>1, CodedLength
<1> HIDE DEF S
<1>4. t \in S
    BY <1>1, <1>2, <1>3, CodeInduction
<1> QED
    BY <1>4 DEF S

-----------------------------------------------------------------------------
(* What decoding a byte at a time can make of a text *)

ByteDecodings(A) == A \cup UNION {{DecodedAt(t, i) : i \in Encoded(t)} : t \in A}

ReachesFrom(f, t) ==
    f = [n \in 0..Len(t) |-> IF n = 0 THEN {t} ELSE ByteDecodings(f[n - 1])]

Reach(t) == CHOOSE f : ReachesFrom(f, t)

LEMMA ReadingsIsReach ==
    ASSUME NEW t
    PROVE  Readings(t) = Reach(t)[Len(t)]
BY DEF Readings, Reach, ReachesFrom, ByteDecodings

LEMMA ByteDecodingsOfTexts ==
    ASSUME NEW A \in SUBSET Texts
    PROVE  /\ ByteDecodings(A) \in SUBSET Texts
           /\ \A u : u \in ByteDecodings(A) <=> u \in A \/ \E t \in A : Reduct(t, u)
<1>1. \A u : u \in ByteDecodings(A) <=> u \in A \/ \E t \in A : Reduct(t, u)
    BY DEF ByteDecodings, Reduct
<1>2. \A t \in A : \A u : Reduct(t, u) => u \in Texts
    BY ReductText
<1> QED
    BY <1>1, <1>2

LEMMA ReachExists ==
    ASSUME NEW t \in Texts
    PROVE  ReachesFrom(Reach(t), t)
<1> DEFINE S == SUBSET Texts
           step == [n \in Nat |-> [A \in S |-> ByteDecodings(A)]]
           start == {t}
           m == Len(t)
<1>1. m \in Nat /\ start \in S
    BY DEF Texts
<1>2. \A A \in S : ByteDecodings(A) \in S
    BY ByteDecodingsOfTexts
<1>3. step \in [Nat -> [S -> S]]
    BY <1>2
<1>4. PICK f : FirstValues(f, S, start, step, m)
  <2> HIDE DEF step, S, start, m
  <2> QED
      BY <1>1, <1>3, ValuesExist
<1>5. f = [n \in 0..m |-> f[n]] /\ f[0] = {t}
    BY <1>4 DEF FirstValues
<1>6. ASSUME NEW n \in 0..m PROVE f[n] = IF n = 0 THEN {t} ELSE ByteDecodings(f[n - 1])
  <2>1. CASE n = 0
      BY <1>5, <2>1
  <2>2. CASE n # 0
    <3>1. n \in 1..m /\ n \in Nat /\ n - 1 \in 0..m
        BY <1>1, <2>2
    <3>2. f[n] = step[n][f[n - 1]] /\ f[n - 1] \in S
        BY <1>4, <3>1 DEF FirstValues
    <3>3. step[n] = [A \in S |-> ByteDecodings(A)]
        BY <3>1
    <3> HIDE DEF step, S
    <3>4. f[n] = ByteDecodings(f[n - 1])
        BY <3>2, <3>3
    <3> QED
        BY <2>2, <3>4
  <2> QED
      BY <2>1, <2>2
<1>7. f = [n \in 0..m |-> IF n = 0 THEN {t} ELSE ByteDecodings(f[n - 1])]
    BY <1>5, <1>6
<1>8. ReachesFrom(f, t)
    BY <1>7 DEF ReachesFrom
<1> QED
    BY <1>8 DEF Reach

LEMMA ReachValues ==
    ASSUME NEW t \in Texts
    PROVE  /\ Len(t) \in Nat /\ Reach(t)[0] = {t}
           /\ \A n \in 1..Len(t) : Reach(t)[n] = ByteDecodings(Reach(t)[n - 1])
<1> DEFINE f == Reach(t)
<1>1. Len(t) \in Nat
    BY DEF Texts
<1>2. f = [n \in 0..Len(t) |-> IF n = 0 THEN {t} ELSE ByteDecodings(f[n - 1])]
    BY ReachExists DEF ReachesFrom
<1> HIDE DEF f
<1>3. 0 \in 0..Len(t) /\ \A n \in 1..Len(t) : n \in 0..Len(t) /\ n # 0
    BY <1>1
<1>4. \A n \in 0..Len(t) : f[n] = IF n = 0 THEN {t} ELSE ByteDecodings(f[n - 1])
    BY <1>2
<1>5. f[0] = {t} /\ \A n \in 1..Len(t) : f[n] = ByteDecodings(f[n - 1])
    BY <1>3, <1>4
<1> QED
    BY <1>1, <1>5 DEF f

\* A set of texts closed under decoding a byte.
Decoded(G) == \A t \in G : \A u : Reduct(t, u) => u \in G

\* The readings of a text are within every such set that has the text.
LEMMA ReadingsWithin ==
    ASSUME NEW G \in SUBSET Texts, Decoded(G), NEW t \in G
    PROVE  Readings(t) \subseteq G
<1> DEFINE f == Reach(t)
           N == {n \in Nat : n <= Len(t) => f[n] \subseteq G}
<1>1. t \in Texts
    OBVIOUS
<1>2. /\ Len(t) \in Nat /\ f[0] = {t}
      /\ \A n \in 1..Len(t) : f[n] = ByteDecodings(f[n - 1])
    BY <1>1, ReachValues
<1> HIDE DEF f
<1>3. 0 \in N
    BY <1>2
<1>4. ASSUME NEW n \in Nat, n \in N PROVE n + 1 \in N
  <2>1. CASE n + 1 <= Len(t)
    <3>1. n + 1 \in 1..Len(t) /\ (n + 1) - 1 = n /\ n <= Len(t)
        BY <1>2, <2>1
    <3>2. f[n + 1] = ByteDecodings(f[n]) /\ f[n] \subseteq G
        BY <1>2, <1>4, <3>1
    <3>3. f[n + 1] \subseteq G
        BY <3>2, ByteDecodingsOfTexts DEF Decoded
    <3> QED
        BY <3>3
  <2> QED
      BY <2>1
<1> HIDE DEF N
<1>5. Len(t) \in N
    BY <1>2, <1>3, <1>4, Induction
<1>6. f[Len(t)] \subseteq G
    BY <1>2, <1>5 DEF N
<1> QED
    BY <1>6, ReadingsIsReach DEF f

\* After how many decodings a text is found.
LEMMA ReachGrows ==
    ASSUME NEW t \in Texts, NEW u, NEW m \in 0..Len(t), u \in Reach(t)[m]
    PROVE  u \in Readings(t)
<1> DEFINE f == Reach(t)
           N == {n \in Nat : m <= n /\ n <= Len(t) => u \in f[n]}
<1>1. /\ Len(t) \in Nat /\ f[0] = {t}
      /\ \A n \in 1..Len(t) : f[n] = ByteDecodings(f[n - 1])
    BY ReachValues
<1>2. u \in f[m]
    OBVIOUS
<1> HIDE DEF f
<1>3. 0 \in N
    BY <1>1, <1>2
<1>4. ASSUME NEW n \in Nat, n \in N PROVE n + 1 \in N
  <2>1. CASE m <= n + 1 /\ n + 1 <= Len(t)
    <3>1. CASE m = n + 1
        BY <1>2, <3>1
    <3>2. CASE m # n + 1
      <4>1. n + 1 \in 1..Len(t) /\ (n + 1) - 1 = n /\ n <= Len(t) /\ m <= n
          BY <1>1, <2>1, <3>2
      <4>2. f[n + 1] = ByteDecodings(f[n]) /\ u \in f[n]
          BY <1>1, <1>4, <4>1
      <4>3. u \in f[n + 1]
          BY <4>2 DEF ByteDecodings
      <4> QED
          BY <4>3
    <3> QED
        BY <3>1, <3>2
  <2> QED
      BY <2>1
<1> HIDE DEF N
<1>5. Len(t) \in N
    BY <1>1, <1>3, <1>4, Induction
<1>6. u \in f[Len(t)]
    BY <1>1, <1>5 DEF N
<1> QED
    BY <1>6, ReadingsIsReach DEF f

\* The decodings a reading takes, each of which makes it two bytes shorter.
FoundAfter(t, u, m) == m \in 0..Len(t) /\ u \in Reach(t)[m] /\ Len(u) = Len(t) - 2 * m

LEMMA ReadingFound ==
    ASSUME NEW t \in Texts, NEW u \in Readings(t)
    PROVE  u \in Texts /\ \E m \in Nat : FoundAfter(t, u, m)
<1> DEFINE f == Reach(t)
           found == {v \in Texts : \E m \in Nat : FoundAfter(t, v, m)}
           N == {n \in Nat : n <= Len(t) => f[n] \subseteq {v \in Texts : \E m \in Nat : m <= n /\ FoundAfter(t, v, m)}}
<1>1. /\ Len(t) \in Nat /\ f[0] = {t}
      /\ \A n \in 1..Len(t) : f[n] = ByteDecodings(f[n - 1])
    BY ReachValues
<1>2. \A v, m : FoundAfter(t, v, m) <=> m \in 0..Len(t) /\ v \in f[m] /\ Len(v) = Len(t) - 2 * m
    BY DEF FoundAfter
<1> HIDE DEF f
<1>3. 0 \in N
  <2>1. FoundAfter(t, t, 0) /\ 0 \in Nat /\ 0 <= 0
      BY <1>1, <1>2
  <2> QED
      BY <2>1, <1>1
<1>4. ASSUME NEW n \in Nat, n \in N, n + 1 <= Len(t), NEW v \in f[n + 1]
      PROVE  v \in Texts /\ \E m \in Nat : m <= n + 1 /\ FoundAfter(t, v, m)
  <2>1. n + 1 \in 1..Len(t) /\ (n + 1) - 1 = n /\ n <= Len(t)
      BY <1>1, <1>4
  <2>2. f[n + 1] = ByteDecodings(f[n])
      BY <1>1, <2>1
  <2>3. \A w \in f[n] : w \in Texts /\ \E m \in Nat : m <= n /\ FoundAfter(t, w, m)
      BY <1>4, <2>1
  <2>4. v \in f[n] \/ \E w \in f[n] : Reduct(w, v)
      BY <2>2, <2>3, ByteDecodingsOfTexts
  <2>5. CASE v \in f[n]
    <3>1. PICK m \in Nat : m <= n /\ FoundAfter(t, v, m)
        BY <2>3, <2>5
    <3>2. m <= n + 1
        BY <3>1
    <3> QED
        BY <2>3, <2>5, <3>1, <3>2
  <2>6. ASSUME NEW w \in f[n], Reduct(w, v)
        PROVE  v \in Texts /\ \E m \in Nat : m <= n + 1 /\ FoundAfter(t, v, m)
    <3>1. PICK m \in Nat : m <= n /\ FoundAfter(t, w, m)
        BY <2>3
    <3>2. w \in Texts
        BY <2>3
    <3>3. v \in Texts /\ Len(v) = Len(w) - 2
        BY <2>6, <3>2, ReductText
    <3>4. m + 1 \in 1..Len(t) /\ (m + 1) - 1 = m /\ m + 1 <= n + 1 /\ m + 1 \in Nat
        BY <1>1, <2>1, <3>1
    <3>5. Len(w) = Len(t) - 2 * m /\ w \in f[m]
        BY <1>2, <3>1
    <3>6. Len(v) = Len(t) - 2 * (m + 1)
        BY <1>1, <3>3, <3>5
    <3>7. v \in f[m + 1]
      <4>1. f[m + 1] = ByteDecodings(f[m])
          BY <1>1, <3>4
      <4>2. v \in ByteDecodings(f[m])
          BY <2>6, <3>5 DEF ByteDecodings, Reduct
      <4> QED
          BY <4>1, <4>2
    <3>8. m + 1 \in 0..Len(t)
        BY <3>4
    <3>9. FoundAfter(t, v, m + 1)
        BY <1>2, <3>6, <3>7, <3>8
    <3> QED
        BY <3>3, <3>4, <3>9
  <2> QED
      BY <2>4, <2>5, <2>6
<1>5. ASSUME NEW n \in Nat, n \in N PROVE n + 1 \in N
  <2>1. n + 1 <= Len(t) =>
            f[n + 1] \subseteq {v \in Texts : \E m \in Nat : m <= n + 1 /\ FoundAfter(t, v, m)}
      BY <1>4, <1>5, Zenon
  <2> QED
      BY <2>1
<1> HIDE DEF N
<1>6. Len(t) \in N
    BY <1>1, <1>3, <1>5, Induction
<1>7. u \in f[Len(t)]
    BY ReadingsIsReach DEF f
<1> QED
    BY <1>1, <1>6, <1>7 DEF N

LEMMA OwnReading ==
    ASSUME NEW t \in Texts
    PROVE  t \in Readings(t)
<1>1. Len(t) \in Nat /\ t \in Reach(t)[0]
    BY ReachValues
<1>2. 0 \in 0..Len(t)
    BY <1>1
<1> QED
    BY <1>1, <1>2, ReachGrows

\* The readings of a text are such a set themselves: there are enough steps,
\* since each makes the text shorter.
LEMMA ReadingsDecoded ==
    ASSUME NEW t \in Texts
    PROVE  Readings(t) \in SUBSET Texts /\ Decoded(Readings(t))
<1>1. ASSUME NEW u \in Readings(t), NEW v, Reduct(u, v) PROVE v \in Readings(t)
  <2>1. PICK m \in Nat : FoundAfter(t, u, m)
      BY ReadingFound
  <2>2. u \in Texts /\ Len(t) \in Nat
      BY ReadingFound, ReachValues
  <2>3. Len(u) >= 3 /\ Len(u) \in Nat
      BY <1>1, <2>2, ReductText
  <2>4. m + 1 \in 1..Len(t) /\ (m + 1) - 1 = m /\ m + 1 \in 0..Len(t)
      BY <2>1, <2>2, <2>3 DEF FoundAfter
  <2>5. Reach(t)[m + 1] = ByteDecodings(Reach(t)[m])
      BY <2>4, ReachValues
  <2>6. u \in Reach(t)[m]
      BY <2>1 DEF FoundAfter
  <2>7. v \in ByteDecodings(Reach(t)[m])
      BY <2>6, <1>1 DEF ByteDecodings, Reduct
  <2> QED
      BY <2>4, <2>5, <2>7, ReachGrows
<1> QED
    BY <1>1, ReadingFound DEF Decoded

\* A set closed under decoding a byte is closed under decoding all.
LEMMA DecodedAll ==
    ASSUME NEW t \in Texts, NEW G \in SUBSET Texts, Decoded(G), t \in G
    PROVE  Decode(t) \in G
<1> DEFINE Q(a) == \A H \in SUBSET Texts : Decoded(H) /\ a \in H => Decode(a) \in H
           S == {a \in Texts : Q(a)}
           After(c, H) == {v \in Texts : Join(c, v) \in H}
<1>1. <<>> \in S
    BY EmptyText, DecodeEmpty
<1>2. ASSUME NEW c \in Bytes, NEW H \in SUBSET Texts, Decoded(H)
      PROVE  After(c, H) \in SUBSET Texts /\ Decoded(After(c, H))
  <2>1. ASSUME NEW v \in Texts, Join(c, v) \in H, NEW w, Reduct(v, w)
        PROVE  w \in Texts /\ Join(c, w) \in H
    <3>1. Reduct(Join(c, v), Join(c, w)) /\ w \in Texts
        BY <2>1, ReductOfCons, ReductText
    <3> QED
        BY <1>2, <2>1, <3>1 DEF Decoded
  <2> QED
      BY <2>1 DEF Decoded
<1>3. ASSUME NEW c \in Bytes, NEW r \in Texts, r \in S,
             NEW H \in SUBSET Texts, Decoded(H), Join(c, r) \in H
      PROVE  Join(c, Decode(r)) \in H
  <2>1. After(c, H) \in SUBSET Texts /\ Decoded(After(c, H)) /\ r \in After(c, H)
      BY <1>2, <1>3
  <2>2. Q(r)
      BY <1>3
  <2>3. Decode(r) \in After(c, H)
    <3> HIDE DEF After
    <3> QED
        BY <2>1, <2>2
  <2> QED
      BY <2>3
<1> HIDE DEF After
<1>4. ASSUME NEW c \in Bytes, NEW r \in Texts, r \in S, ~Starts(Join(c, r))
      PROVE  Join(c, r) \in S
  <2>1. Q(Join(c, r))
      BY <1>3, <1>4, DecodeCons
  <2> QED
      BY <2>1, ConsText
<1>5. ASSUME NEW x \in Hex, NEW y \in Hex, NEW s \in Texts, s \in S
      PROVE  Coded(x, y, s) \in S
  <2>1. ASSUME NEW H \in SUBSET Texts, Decoded(H), Coded(x, y, s) \in H
        PROVE  Decode(Coded(x, y, s)) \in H
    <3>1. Byte(x, y) \in Bytes /\ Join(Byte(x, y), s) \in H
        BY <2>1, ByteIsByte, ReductOfCoded DEF Decoded
    <3>2. Join(Byte(x, y), Decode(s)) \in H
        BY <1>3, <1>5, <2>1, <3>1
    <3> QED
        BY <3>2, DecodeCoded
  <2> QED
      BY <2>1, CodedLength
<1>6. t \in S
  <2> HIDE DEF S
  <2> QED
      BY <1>1, <1>4, <1>5, CodeInduction
<1> QED
    BY <1>6

-----------------------------------------------------------------------------
(* What decoding all of a text makes of it, pass by pass *)

PassesFrom(f, t) ==
    f = [n \in 0..MaxPasses |-> IF n = 0 THEN t ELSE Decode(f[n - 1])]

AfterPasses(t) == CHOOSE f : PassesFrom(f, t)

LEMMA PassesExist ==
    ASSUME NEW t \in Texts
    PROVE  PassesFrom(AfterPasses(t), t)
<1> DEFINE step == [n \in Nat |-> [a \in Texts |-> Decode(a)]]
           m == MaxPasses
<1>1. m \in Nat
    BY MaxPassesAssumption
<1>2. step \in [Nat -> [Texts -> Texts]]
    BY DecodeText
<1>3. PICK f : FirstValues(f, Texts, t, step, m)
  <2> HIDE DEF step, m
  <2> QED
      BY <1>1, <1>2, ValuesExist
<1>4. f = [n \in 0..m |-> f[n]] /\ f[0] = t
    BY <1>3 DEF FirstValues
<1>5. ASSUME NEW n \in 0..m PROVE f[n] = IF n = 0 THEN t ELSE Decode(f[n - 1])
  <2>1. CASE n = 0
      BY <1>4, <2>1
  <2>2. CASE n # 0
    <3>1. n \in 1..m /\ n \in Nat /\ n - 1 \in 0..m
        BY <1>1, <2>2
    <3>2. f[n] = step[n][f[n - 1]] /\ f[n - 1] \in Texts
        BY <1>3, <3>1 DEF FirstValues
    <3>3. step[n] = [a \in Texts |-> Decode(a)]
        BY <3>1
    <3> HIDE DEF step
    <3>4. f[n] = Decode(f[n - 1])
        BY <3>2, <3>3
    <3> QED
        BY <2>2, <3>4
  <2> QED
      BY <2>1, <2>2
<1>6. f = [n \in 0..m |-> IF n = 0 THEN t ELSE Decode(f[n - 1])]
    BY <1>4, <1>5
<1>7. PassesFrom(f, t)
    BY <1>6 DEF PassesFrom
<1> QED
    BY <1>7 DEF AfterPasses

LEMMA PassValues ==
    ASSUME NEW t \in Texts
    PROVE  /\ MaxPasses \in Nat /\ AfterPasses(t)[0] = t
           /\ \A n \in 1..MaxPasses : AfterPasses(t)[n] = Decode(AfterPasses(t)[n - 1])
           /\ Decodings(t) = {AfterPasses(t)[n] : n \in 0..MaxPasses}
<1> DEFINE f == AfterPasses(t)
<1>1. MaxPasses \in Nat
    BY MaxPassesAssumption
<1>2. Decodings(t) = {f[n] : n \in 0..MaxPasses}
    BY DEF Decodings, AfterPasses, PassesFrom
<1>3. f = [n \in 0..MaxPasses |-> IF n = 0 THEN t ELSE Decode(f[n - 1])]
    BY PassesExist DEF PassesFrom
<1> HIDE DEF f
<1>4. 0 \in 0..MaxPasses /\ \A n \in 1..MaxPasses : n \in 0..MaxPasses /\ n # 0
    BY <1>1
<1>5. \A n \in 0..MaxPasses : f[n] = IF n = 0 THEN t ELSE Decode(f[n - 1])
    BY <1>3
<1>6. f[0] = t /\ \A n \in 1..MaxPasses : f[n] = Decode(f[n - 1])
    BY <1>4, <1>5
<1> QED
    BY <1>1, <1>2, <1>6 DEF f

\* Without an encoded byte there is nothing to decode.
LEMMA DecodeUnencoded ==
    ASSUME NEW t \in Texts, Unencoded(t)
    PROVE  Decode(t) = t
<1> DEFINE S == {a \in Texts : Unencoded(a) => Decode(a) = a}
<1>1. <<>> \in S
    BY EmptyText, DecodeEmpty
<1>2. ASSUME NEW c \in Bytes, NEW r \in Texts, r \in S PROVE Join(c, r) \in S
    BY <1>2, UnencodedCons, DecodeCons, ConsText
<1> HIDE DEF S
<1>3. t \in S
    BY <1>1, <1>2, ByteInduction
<1> QED
    BY <1>3 DEF S

\* The passes end at a text without an encoded byte.
LEMMA PassesEnd ==
    ASSUME NEW t \in Texts, NEW m \in 0..MaxPasses, NEW u \in Texts,
           u = AfterPasses(t)[m], Unencoded(u), \A n \in 0..m : Utf8(AfterPasses(t)[n])
    PROVE  \A v \in Decodings(t) : Utf8(v)
<1> DEFINE f == AfterPasses(t)
           N == {n \in Nat : m <= n /\ n <= MaxPasses => f[n] = u}
<1>1. /\ MaxPasses \in Nat
      /\ \A n \in 1..MaxPasses : f[n] = Decode(f[n - 1])
      /\ Decodings(t) = {f[n] : n \in 0..MaxPasses}
    BY PassValues
<1>2. f[m] = u /\ \A n \in 0..m : Utf8(f[n])
    OBVIOUS
<1> HIDE DEF f
<1>3. 0 \in N
    BY <1>1, <1>2
<1>4. ASSUME NEW n \in Nat, n \in N PROVE n + 1 \in N
  <2>1. CASE m <= n + 1 /\ n + 1 <= MaxPasses
    <3>1. CASE m = n + 1
        BY <1>2, <3>1
    <3>2. CASE m # n + 1
      <4>1. n + 1 \in 1..MaxPasses /\ (n + 1) - 1 = n /\ n <= MaxPasses /\ m <= n
          BY <1>1, <2>1, <3>2
      <4>2. f[n + 1] = Decode(f[n]) /\ f[n] = u
          BY <1>1, <1>4, <4>1
      <4>3. f[n + 1] = u
          BY <4>2, DecodeUnencoded
      <4> QED
          BY <4>3
    <3> QED
        BY <3>1, <3>2
  <2> QED
      BY <2>1
<1> HIDE DEF N
<1>5. \A n \in Nat : n \in N
    BY <1>3, <1>4, Induction
<1>6. ASSUME NEW n \in 0..MaxPasses PROVE Utf8(f[n])
  <2>1. CASE n <= m
      BY <1>1, <1>2, <2>1
  <2>2. CASE ~(n <= m)
    <3>1. f[n] = u
        BY <1>1, <1>5, <2>2 DEF N
    <3>2. m \in 0..m
        BY <1>1
    <3> QED
        BY <1>2, <3>1, <3>2
  <2> QED
      BY <2>1, <2>2
<1> QED
    BY <1>1, <1>6

-----------------------------------------------------------------------------
(* What normalize_static_path decides *)

\* A durable text is harmless, and so is the key it becomes.
LEMMA DurableIsHarmless ==
    ASSUME NEW t \in Durable
    PROVE  Harmless(t)
<1> DEFINE G == {u \in Durable : Depth(u) = Depth(t)}
<1>1. G \in SUBSET Texts /\ t \in G
    BY DurableParts
<1>2. Decoded(G)
  <2>1. ASSUME NEW u \in Durable, Depth(u) = Depth(t), NEW v, Reduct(u, v)
        PROVE  v \in Durable /\ Depth(v) = Depth(t)
    <3>1. v \in Durable
        BY <2>1, ReductOfDurable
    <3>2. Depth(v) = Depth(u)
        BY <2>1, DurableParts, DepthOfReduct
    <3> QED
        BY <2>1, <3>1, <3>2
  <2> QED
      BY <2>1 DEF Decoded
<1>3. Readings(t) \subseteq G
  <2> HIDE DEF G
  <2> QED
      BY <1>1, <1>2, ReadingsWithin
<1>4. ASSUME NEW u \in Readings(t)
      PROVE  Inside(u) /\ Cardinality(Slashes(u)) = Cardinality(Slashes(t))
  <2>1. u \in Durable /\ Depth(u) = Depth(t)
      BY <1>3
  <2> QED
      BY <2>1, DurableParts DEF Depth
<1> QED
    BY <1>4 DEF Harmless

\* A text with a reading that decodes badly is not harmless.
LEMMA BadIsHarmful ==
    ASSUME NEW t \in Texts, NEW u \in Readings(t), DecodesBadly(u)
    PROVE  ~Harmless(t)
<1>1. u \in Texts /\ Decoded(Readings(t))
    BY ReadingsDecoded
<1>2. PICK v \in Texts : Reduct(u, v) /\ Depth(v) # Depth(u)
    BY <1>1, BadReduct
<1>3. v \in Readings(t)
    BY <1>1, <1>2 DEF Decoded
<1>4. ASSUME Harmless(t) PROVE FALSE
  <2>1. Depth(u) = Depth(t) /\ Depth(v) = Depth(t)
      BY <1>3, <1>4 DEF Harmless, Depth
  <2> QED
      BY <1>2, <2>1
<1> QED
    BY <1>4

\* A text with a reading that is not inside is not harmless.
LEMMA OutsideIsHarmful ==
    ASSUME NEW t, NEW u \in Readings(t), ~Inside(u)
    PROVE  ~Harmless(t)
BY DEF Harmless

Refused == {"%", "%2f", "\\"}

AlwaysText == \A t \in Decodings(decoded) : Utf8(t)

Probing ==
    /\ passes \in 0..MaxPasses /\ probe = AfterPasses(decoded)[passes]
    /\ \A n \in 0..passes : Utf8(AfterPasses(decoded)[n])
    /\ decoded \in Texts /\ Clean(decoded)
    /\ probe \in Readings(decoded) /\ Clean(probe)
    /\ probe = decoded \/ Inside(probe)
    /\ Inside(decoded) /\ probe \in Durable => decoded \in Durable

\* What is known of the paths at each verdict.
PathInv ==
    /\ raw \in Seq(RawBytes)
    /\ verdict \in Verdicts
    /\ verdict = "raw" => passes = 0
    /\ verdict = "probing" => Probing
    /\ verdict = "stable" =>
           /\ decoded \in Texts /\ Clean(decoded) /\ AlwaysText
           /\ Inside(decoded) => decoded \in Durable
    /\ verdict = "accepted" => decoded \in Durable /\ AlwaysText /\ key = Collapsed(decoded)
    /\ verdict = "refused" =>
           \/ Unfit(raw)
           \/ passes = MaxPasses
           \/ ~Harmless(decoded) \/ ~AlwaysText

LEMMA PathInitInv == PathInit => PathInv
<1>1. PathInit => raw \in Seq(RawBytes) /\ verdict = "raw" /\ passes = 0
    BY RawPathsAssumption DEF PathInit
<1> QED
    BY <1>1 DEF PathInv, Verdicts

\* The units of a raw path that is not refused stand for bytes of a path.
LEMMA UnitsAreBytes ==
    ASSUME NEW r \in Seq(RawBytes), \A i \in DOMAIN r : r[i] \notin Refused
    PROVE  [i \in DOMAIN r |-> Unit(r[i])] \in Texts /\ Clean([i \in DOMAIN r |-> Unit(r[i])])
<1> DEFINE d == [i \in DOMAIN r |-> Unit(r[i])]
<1>1. Len(r) \in Nat /\ DOMAIN r = 1..Len(r) /\ \A i \in 1..Len(r) : r[i] \in RawBytes
    OBVIOUS
<1>2. ASSUME NEW i \in 1..Len(r) PROVE Unit(r[i]) \in Bytes /\ Unit(r[i]) # "\\"
  <2>1. r[i] \in RawBytes /\ r[i] \notin Refused
      BY <1>1
  <2>2. Unit(r[i]) \in {"%", "/", r[i]} \/ Unit(r[i]) \in Bytes \ {"\\"}
      BY ByteIsByte DEF Unit
  <2>3. r[i] # "\\"
      BY <2>1 DEF Refused
  <2>4. "%" # "\\" /\ "/" # "\\"
      OBVIOUS
  <2> QED
      BY <2>1, <2>2, <2>3, <2>4 DEF Bytes
<1>3. d \in Seq(Bytes)
  <2>1. d \in [1..Len(r) -> Bytes]
      BY <1>1, <1>2
  <2> QED
      BY <1>1, <2>1
<1>4. DOMAIN d = 1..Len(r)
    BY <1>1
<1> QED
    BY <1>2, <1>3, <1>4 DEF Texts, Clean

LEMMA DecodeOnceInv == PathInv /\ DecodeOnce => PathInv'
<1> SUFFICES ASSUME PathInv, DecodeOnce PROVE PathInv'
    OBVIOUS
<1>1. CASE Unfit(raw)
  <2>1. verdict' = "refused" /\ raw' = raw
      BY <1>1 DEF DecodeOnce, RefusePath
  <2> HIDE DEF Unfit
  <2> QED
      BY <1>1, <2>1 DEF PathInv, Verdicts
<1>2. CASE ~Unfit(raw)
  <2>1. /\ decoded' = [i \in DOMAIN raw |-> Unit(raw[i])]
        /\ probe' = decoded' /\ verdict' = "probing" /\ raw' = raw /\ passes' = passes
        /\ passes = 0
      BY <1>2 DEF DecodeOnce, PathInv
  <2>2. /\ \A i \in DOMAIN raw : raw[i] \notin Refused
        /\ Utf8([i \in DOMAIN raw |-> Unit(raw[i])])
      BY <1>2 DEF Unfit, Refused
  <2>3. decoded' \in Texts /\ Clean(decoded') /\ Utf8(decoded')
      BY <2>1, <2>2, UnitsAreBytes DEF PathInv
  <2>4. decoded' \in Readings(decoded')
      BY <2>3, OwnReading
  <2>5. MaxPasses \in Nat /\ AfterPasses(decoded')[0] = decoded'
      BY <2>3, PassValues
  <2>6. /\ passes' \in 0..MaxPasses /\ probe' = AfterPasses(decoded')[passes']
        /\ \A n \in 0..passes' : Utf8(AfterPasses(decoded')[n])
    <3>1. \A n \in 0..passes' : n = 0
        BY <2>1
    <3> QED
        BY <2>1, <2>3, <2>5, <3>1
  <2>7. Probing'
      BY <2>1, <2>3, <2>4, <2>6 DEF Probing
  <2> QED
      BY <2>1, <2>7 DEF PathInv, Verdicts
<1> QED
    BY <1>1, <1>2

LEMMA ProbeEndsInv == PathInv /\ ProbeEnds => PathInv'
<1> SUFFICES ASSUME PathInv, ProbeEnds PROVE PathInv'
    OBVIOUS
<1>1. /\ Probing /\ Unencoded(probe)
      /\ verdict' = "stable" /\ raw' = raw /\ decoded' = decoded
    BY DEF PathInv, Verdicts, ProbeEnds, Unencoded
<1>2. ASSUME Inside(decoded) PROVE decoded \in Durable
  <2>1. probe \in Texts /\ Inside(probe)
      BY <1>1, <1>2, ReadingFound DEF Probing
  <2>2. probe \in Durable
      BY <1>1, <2>1, DurableStays DEF Stays
  <2> QED
      BY <1>1, <1>2, <2>2 DEF Probing
<1>3. decoded \in Texts /\ Clean(decoded)
    BY <1>1 DEF Probing
<1>4. AlwaysText
  <2>1. /\ probe \in Texts /\ passes \in 0..MaxPasses /\ probe = AfterPasses(decoded)[passes]
        /\ \A n \in 0..passes : Utf8(AfterPasses(decoded)[n])
      BY <1>1, ReadingFound DEF Probing
  <2> QED
      BY <1>1, <1>3, <2>1, PassesEnd DEF AlwaysText
<1>5. AlwaysText' <=> AlwaysText
    BY <1>1 DEF AlwaysText
<1> QED
    BY <1>1, <1>2, <1>3, <1>4, <1>5 DEF PathInv, Verdicts

LEMMA ProbeRefusesInv == PathInv /\ ProbeRefuses => PathInv'
<1> SUFFICES ASSUME PathInv, ProbeRefuses PROVE PathInv'
    OBVIOUS
<1>1. Probing /\ verdict' = "refused" /\ raw' = raw /\ decoded' = decoded
    BY DEF PathInv, Verdicts, ProbeRefuses, RefusePath
<1>2. decoded \in Texts /\ probe \in Readings(decoded) /\ probe \in Texts
    BY <1>1, ReadingFound DEF Probing
<1>3. ~Harmless(decoded) \/ ~AlwaysText
  <2>1. CASE DecodesBadly(probe)
      BY <1>2, <2>1, BadIsHarmful
  <2>4. CASE ~Utf8(Decode(probe))
    <3>1. passes + 1 \in 1..MaxPasses /\ (passes + 1) - 1 = passes /\ passes + 1 \in 0..MaxPasses
        BY <1>1, MaxPassesAssumption DEF Probing, ProbeRefuses
    <3>2. AfterPasses(decoded)[passes + 1] = Decode(probe)
        BY <1>1, <1>2, <3>1, PassValues DEF Probing
    <3>3. Decode(probe) \in Decodings(decoded)
        BY <1>2, <3>1, <3>2, PassValues
    <3> QED
        BY <2>4, <3>3 DEF AlwaysText
  <2>2. CASE HasPrefix(Decode(probe)) \/ BadComponents(Decode(probe))
    <3>1. Decode(probe) \in Readings(decoded)
        BY <1>2, ReadingsDecoded, DecodedAll
    <3>2. ~Inside(Decode(probe))
        BY <2>2 DEF Inside
    <3> QED
        BY <3>1, <3>2, OutsideIsHarmful
  <2> QED
      BY <2>1, <2>2, <2>4 DEF ProbeRefuses
<1>4. (~Harmless(decoded) \/ ~AlwaysText)'
    BY <1>1, <1>3 DEF AlwaysText
<1> QED
    BY <1>1, <1>4 DEF PathInv, Verdicts

LEMMA ProbeGoesOnInv == PathInv /\ ProbeGoesOn => PathInv'
<1> SUFFICES ASSUME PathInv, ProbeGoesOn PROVE PathInv'
    OBVIOUS
<1>1. /\ Probing /\ ~DecodesBadly(probe) /\ Utf8(Decode(probe))
      /\ ~HasPrefix(Decode(probe)) /\ ~BadComponents(Decode(probe))
      /\ probe' = Decode(probe) /\ passes < MaxPasses /\ passes' = passes + 1
      /\ verdict' = "probing" /\ raw' = raw /\ decoded' = decoded
    BY DEF PathInv, Verdicts, ProbeGoesOn
<1>2. decoded \in Texts /\ probe \in Readings(decoded) /\ probe \in Texts /\ Clean(probe)
    BY <1>1, ReadingFound DEF Probing
<1>3. Decode(probe) \in Readings(decoded)
    BY <1>2, ReadingsDecoded, DecodedAll
<1>4. Clean(Decode(probe))
    BY <1>1, <1>2, CleanDecode
<1>5. Inside(Decode(probe))
    BY <1>1, <1>4 DEF Inside, Clean
<1>6. ASSUME Inside(decoded), Decode(probe) \in Durable PROVE decoded \in Durable
  <2>1. Inside(probe)
      BY <1>1, <1>6 DEF Probing
  <2>2. probe \in Durable
      BY <1>1, <1>2, <1>6, <2>1, DurableStays DEF Stays
  <2> QED
      BY <1>1, <1>6, <2>2 DEF Probing
<1>7. Clean(decoded)
    BY <1>1 DEF Probing
<1>8. /\ passes + 1 \in 0..MaxPasses
      /\ Decode(probe) = AfterPasses(decoded)[passes + 1]
      /\ \A n \in 0..passes + 1 : Utf8(AfterPasses(decoded)[n])
  <2>1. /\ passes \in 0..MaxPasses /\ probe = AfterPasses(decoded)[passes]
        /\ \A n \in 0..passes : Utf8(AfterPasses(decoded)[n])
      BY <1>1 DEF Probing
  <2>2. /\ passes + 1 \in 1..MaxPasses /\ (passes + 1) - 1 = passes /\ passes + 1 \in 0..MaxPasses
        /\ \A n \in 0..passes + 1 : n \in 0..passes \/ n = passes + 1
      BY <1>1, <2>1, MaxPassesAssumption
  <2>3. AfterPasses(decoded)[passes + 1] = Decode(probe)
      BY <1>2, <2>1, <2>2, PassValues
  <2> QED
      BY <1>1, <2>1, <2>2, <2>3
<1>9. Probing'
    BY <1>1, <1>2, <1>3, <1>4, <1>5, <1>6, <1>7, <1>8 DEF Probing
<1> QED
    BY <1>1, <1>9 DEF PathInv, Verdicts

LEMMA ConcludeInv == PathInv /\ Conclude => PathInv'
<1> SUFFICES ASSUME PathInv, Conclude PROVE PathInv'
    OBVIOUS
<1>1. /\ decoded \in Texts /\ Clean(decoded) /\ (Inside(decoded) => decoded \in Durable)
      /\ AlwaysText
    BY DEF PathInv, Verdicts, Conclude
<1>2. CASE HasPrefix(decoded) \/ BadComponents(decoded)
  <2>1. verdict' = "refused" /\ raw' = raw /\ decoded' = decoded
      BY <1>2 DEF Conclude, RefusePath
  <2>2. ~Harmless(decoded)
      BY <1>1, <1>2, OwnReading, OutsideIsHarmful DEF Inside
  <2> QED
      BY <2>1, <2>2 DEF PathInv, Verdicts
<1>3. CASE ~(HasPrefix(decoded) \/ BadComponents(decoded))
  <2>1. verdict' = "accepted" /\ key' = Collapsed(decoded) /\ raw' = raw /\ decoded' = decoded
      BY <1>3 DEF Conclude
  <2>2. decoded \in Durable
      BY <1>1, <1>3 DEF Inside, Clean
  <2>3. AlwaysText'
      BY <1>1, <2>1 DEF AlwaysText
  <2> QED
      BY <2>1, <2>2, <2>3 DEF PathInv, Verdicts
<1> QED
    BY <1>2, <1>3

\* The facts about a path and its decodings are inductive: the deepest decoding
\* probed so far is one of the decoded path's readings, inside unless it is the
\* path itself, and if that is durable, so is the path (static_files.rs:89-177).
LEMMA PathStep == PathInv /\ [PathNext]_pathVars => PathInv'
<1> SUFFICES ASSUME PathInv, [PathNext]_pathVars PROVE PathInv'
    OBVIOUS
<1>1. CASE OutOfPasses
    BY <1>1 DEF OutOfPasses, RefusePath, PathInv, Verdicts
<1>2. CASE UNCHANGED pathVars
    BY <1>2 DEF pathVars, PathInv, Verdicts, Probing, AlwaysText
<1> QED
    BY <1>1, <1>2, DecodeOnceInv, ProbeEndsInv, ProbeRefusesInv, ProbeGoesOnInv, ConcludeInv
    DEF PathNext

LEMMA PathInvStays == PathInv => AcceptsWhatStaysInside
<1> SUFFICES ASSUME PathInv PROVE AcceptsWhatStaysInside
    OBVIOUS
<1>1. ASSUME verdict = "accepted"
      PROVE  /\ Harmless(key) /\ AlwaysText
             /\ \A i \in Slashes(key) : i < Len(key) /\ key[i + 1] # "/"
  <2>1. decoded \in Durable /\ AlwaysText /\ key = Collapsed(decoded)
      BY <1>1 DEF PathInv, Verdicts
  <2>2. key \in Durable /\ decoded \in Texts
      BY <2>1, CollapsedOfDurable, DurableParts
  <2>3. Spaced(key)
      BY <2>1, <2>2, CollapsedIsSpaced
  <2> QED
      BY <2>1, <2>2, <2>3, DurableIsHarmless DEF Spaced
<1>2. verdict = "refused" =>
          Unfit(raw) \/ passes = MaxPasses \/ ~Harmless(decoded) \/ ~AlwaysText
    BY DEF PathInv, Verdicts
<1> QED
    BY <1>1, <1>2, Zenon DEF AcceptsWhatStaysInside, AlwaysText

\* What is accepted names something below the asset root however its encodings
\* are decoded later, and is text after each pass that decodes all of them; what
\* is refused does not or is not, or has a byte no path may have, or goes on
\* changing for more passes than there are: for any set of paths, of any length,
\* spelled with the digits of the model, and any number of passes
\* (static_files.rs:89-268).
THEOREM PathStaysInside == PathSpec => []AcceptsWhatStaysInside
<1>1. PathInit => PathInv
    BY PathInitInv
<1>2. PathInv /\ [PathNext]_pathVars => PathInv'
    BY PathStep
<1>3. PathInv => AcceptsWhatStaysInside
    BY PathInvStays
<1> QED
    BY <1>1, <1>2, <1>3, PTL DEF PathSpec
=============================================================================
