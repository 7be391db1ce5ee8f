--------------------------- MODULE ChannelLemmas ---------------------------
(* Sequences as Go channels: elements are appended at one end and taken from
   the head of the other, and pass from one sequence to the next. *)
EXTENDS Sequences, Integers, Functions, SequenceTheorems, FiniteSetTheorems, TLAPS

(* Appending to the last of two sequences appends to the whole. *)
LEMMA AppendToLast ==
  ASSUME NEW S, NEW s \in Seq(S), NEW t \in Seq(S), NEW e \in S
  PROVE  s \o Append(t, e) = Append(s \o t, e)
<1>1. <<e>> \in Seq(S)
  OBVIOUS
<1>2. s \o t \in Seq(S)
  BY ConcatProperties
<1> QED  BY <1>1, <1>2, AppendIsConcat, ConcatAssociative

(* Moving the head of a channel to the end of the sequence before it leaves
   the whole as it was. *)
LEMMA MoveHead ==
  ASSUME NEW S, NEW s \in Seq(S), NEW t \in Seq(S), t # <<>>
  PROVE  Append(s, Head(t)) \o Tail(t) = s \o t
<1>1. Head(t) \in S /\ Tail(t) \in Seq(S) /\ <<Head(t)>> \in Seq(S)
  BY HeadTailProperties
<1>2. t = <<Head(t)>> \o Tail(t)
  OBVIOUS
<1>3. Append(s, Head(t)) = s \o <<Head(t)>>
  BY <1>1, AppendIsConcat
<1> QED  BY <1>1, <1>2, <1>3, ConcatAssociative

(* A sequence is the prefix of its length of any sequence it begins. *)
LEMMA PrefixOfConcat ==
  ASSUME NEW S, NEW s \in Seq(S), NEW t \in Seq(S)
  PROVE  SubSeq(s \o t, 1, Len(s)) = s
<1>1. Len(s) \in Nat
  BY LenProperties
<1>2. CASE Len(s) = 0
  BY <1>2, EmptySeq, SubSeqEmpty
<1>3. CASE Len(s) # 0
  <2>1. 1 \in 1 .. Len(s) /\ Len(s) \in 1 .. Len(s)
    BY <1>1, <1>3
  <2>2. SubSeq(s \o t, 1, Len(s)) = SubSeq(s, 1, Len(s))
    BY <2>1, SubSeqOfConcat1
  <2> QED  BY <2>2, SubSeqFull
<1> QED  BY <1>2, <1>3

(* With the head of a channel the sequence before it is still a prefix of the
   whole, and no shorter. *)
LEMMA NextPrefix ==
  ASSUME NEW S, NEW s \in Seq(S), NEW t \in Seq(S), t # <<>>
  PROVE  \E k \in Len(s) .. Len(s \o t) : Append(s, Head(t)) = SubSeq(s \o t, 1, k)
<1> DEFINE next == Append(s, Head(t))
           rest == Tail(t)
<1>1. /\ next \in Seq(S) /\ rest \in Seq(S)
      /\ Len(next) = Len(s) + 1
  BY HeadTailProperties, AppendProperties
<1>2. next \o rest = s \o t
  BY MoveHead
<1> HIDE DEF next, rest
<1>3. SubSeq(next \o rest, 1, Len(next)) = next
  BY <1>1, PrefixOfConcat
<1>4. Len(next \o rest) = Len(next) + Len(rest) /\ Len(rest) \in Nat /\ Len(s) \in Nat
  BY <1>1, ConcatProperties, LenProperties
<1>5. Len(next) \in Len(s) .. Len(s \o t)
  <2> DEFINE a == Len(s)  b == Len(next)  c == Len(rest)  d == Len(s \o t)
  <2>1. a \in Nat /\ c \in Nat /\ b = a + 1 /\ d = b + c
    BY <1>1, <1>2, <1>4
  <2> HIDE DEF a, b, c, d
  <2>2. b \in a .. d
    BY <2>1
  <2> QED  BY <2>2 DEF a, b, d
<1>6. SubSeq(s \o t, 1, Len(next)) = next
  BY <1>2, <1>3
<1> QED  BY <1>5, <1>6 DEF next

----------------------------------------------------------------------------
(* A pipeline of four sequences: handed over, in a call, accumulated and on
   the channel. *)

(* What has accumulated goes into a call. *)
LEMMA PipelineCall ==
  ASSUME NEW S, NEW h \in Seq(S), NEW a \in Seq(S), NEW s \in Seq(S)
  PROVE  ((h \o a) \o <<>>) \o s = ((h \o <<>>) \o a) \o s
<1>1. h \o a \in Seq(S)
  BY ConcatProperties
<1>2. (h \o a) \o <<>> = h \o a /\ h \o <<>> = h
  BY <1>1, ConcatEmptySeq
<1> QED  BY <1>2

(* The call returns. *)
LEMMA PipelineReturn ==
  ASSUME NEW S, NEW h \in Seq(S), NEW c \in Seq(S), NEW a \in Seq(S), NEW s \in Seq(S)
  PROVE  (((h \o c) \o <<>>) \o a) \o s = ((h \o c) \o a) \o s
<1>1. h \o c \in Seq(S)
  BY ConcatProperties
<1> QED  BY <1>1, ConcatEmptySeq

(* Its length. *)
LEMMA PipelineLength ==
  ASSUME NEW S, NEW h \in Seq(S), NEW c \in Seq(S), NEW a \in Seq(S), NEW s \in Seq(S)
  PROVE  /\ ((h \o c) \o a) \o s \in Seq(S)
         /\ Len(h) \in Nat /\ Len(c) \in Nat /\ Len(a) \in Nat /\ Len(s) \in Nat
         /\ Len(((h \o c) \o a) \o s) = Len(h) + Len(c) + Len(a) + Len(s)
<1>1. h \o c \in Seq(S) /\ Len(h \o c) = Len(h) + Len(c)
  BY ConcatProperties
<1>2. (h \o c) \o a \in Seq(S) /\ Len((h \o c) \o a) = Len(h) + Len(c) + Len(a)
  BY <1>1, ConcatProperties
<1>3. /\ ((h \o c) \o a) \o s \in Seq(S)
      /\ Len(((h \o c) \o a) \o s) = Len(h) + Len(c) + Len(a) + Len(s)
  BY <1>2, ConcatProperties
<1> QED  BY <1>3, LenProperties
----------------------------------------------------------------------------
(* What is in a channel. *)

(* Nothing is in an empty channel, and an element that is put on it joins the
   others. *)
LEMMA RangeOfAppend ==
  ASSUME NEW S, NEW s \in Seq(S), NEW e \in S
  PROVE  Range(Append(s, e)) = Range(s) \cup {e}
<1>1. <<e>> \in Seq(S) /\ Range(<<e>>) = {e}
  BY DEF Range
<1>2. Append(s, e) = s \o <<e>>
  BY AppendIsConcat
<1> DEFINE last == <<e>>
<1>3. Range(s \o last) = Range(s) \cup Range(last)
  <2>1. last \in Seq(S)
    BY <1>1
  <2> HIDE DEF last
  <2> QED  BY <2>1, RangeConcatenation
<1> QED  BY <1>1, <1>2, <1>3

(* What is in a pipeline is in one of its four sequences. *)
LEMMA RangeOfPipeline ==
  ASSUME NEW S, NEW h \in Seq(S), NEW c \in Seq(S), NEW a \in Seq(S), NEW s \in Seq(S)
  PROVE  Range(((h \o c) \o a) \o s) = ((Range(h) \cup Range(c)) \cup Range(a)) \cup Range(s)
<1> DEFINE hc == h \o c
           hca == hc \o a
<1>1. hc \in Seq(S) /\ Range(hc) = Range(h) \cup Range(c)
  BY ConcatProperties, RangeConcatenation
<1> HIDE DEF hc
<1>2. hca \in Seq(S) /\ Range(hca) = Range(hc) \cup Range(a)
  BY <1>1, ConcatProperties, RangeConcatenation
<1> HIDE DEF hca
<1>3. Range(hca \o s) = Range(hca) \cup Range(s)
  BY <1>2, RangeConcatenation
<1> QED  BY <1>1, <1>2, <1>3 DEF hc, hca

(* The head of a channel that is taken leaves the others. *)
LEMMA RangeOfHeadTail ==
  ASSUME NEW S, NEW s \in Seq(S), s # <<>>
  PROVE  Range(s) = {Head(s)} \cup Range(Tail(s))
<1>1. <<Head(s)>> \in Seq(S) /\ Tail(s) \in Seq(S) /\ Range(<<Head(s)>>) = {Head(s)}
  BY HeadTailProperties DEF Range
<1>2. s = <<Head(s)>> \o Tail(s)
  OBVIOUS
<1> DEFINE h == <<Head(s)>>
           t == Tail(s)
<1>3. Range(h \o t) = Range(h) \cup Range(t)
  <2>1. h \in Seq(S) /\ t \in Seq(S)
    BY <1>1
  <2> HIDE DEF h, t
  <2> QED  BY <2>1, RangeConcatenation
<1> QED  BY <1>1, <1>2, <1>3

(* Taking the head of one channel and putting it on the next loses nothing. *)
LEMMA RangeOfMove ==
  ASSUME NEW S, NEW s \in Seq(S), NEW t \in Seq(S), t # <<>>
  PROVE  Range(Append(s, Head(t))) \cup Range(Tail(t)) = Range(s) \cup Range(t)
<1>1. Head(t) \in S
  BY HeadTailProperties
<1> QED  BY <1>1, RangeOfAppend, RangeOfHeadTail
----------------------------------------------------------------------------
(* Channels on which no element comes twice. *)

(* A new element may be appended. *)
LEMMA InjectiveAppend ==
  ASSUME NEW S, NEW s \in Seq(S), NEW e \in S, IsInjective(s), e \notin Range(s)
  PROVE  IsInjective(Append(s, e))
<1>1. /\ DOMAIN s = 1 .. Len(s) /\ Len(s) \in Nat
      /\ DOMAIN Append(s, e) = 1 .. Len(s) + 1
      /\ \A i \in 1 .. Len(s) : Append(s, e)[i] = s[i]
      /\ Append(s, e)[Len(s) + 1] = e
  BY AppendProperties, LenProperties
<1>2. \A i \in 1 .. Len(s) : s[i] # e
  BY <1>1 DEF Range
<1> QED  BY <1>1, <1>2 DEF IsInjective

(* Of two channels in a row each has its elements once, and none of the
   other's; and the other way round. *)
LEMMA InjectiveParts ==
  ASSUME NEW S, NEW s \in Seq(S), NEW t \in Seq(S)
  PROVE  IsInjective(s \o t) <=> /\ IsInjective(s) /\ IsInjective(t)
                                 /\ Range(s) \cap Range(t) = {}
<1> DEFINE j == Len(s)
           k == Len(t)
           u == s \o t
<1>1. /\ j \in Nat /\ k \in Nat
      /\ DOMAIN s = 1 .. j /\ DOMAIN t = 1 .. k /\ DOMAIN u = 1 .. j + k
      /\ \A i \in 1 .. j + k : u[i] = IF i <= j THEN s[i] ELSE t[i - j]
  BY ConcatProperties, LenProperties
<1> HIDE DEF j, k, u
<1>2. /\ \A i \in 1 .. j : i \in DOMAIN u /\ u[i] = s[i]
      /\ \A i \in 1 .. k : i + j \in DOMAIN u /\ i + j > j /\ u[i + j] = t[i]
  BY <1>1
<1>3. ASSUME IsInjective(u)
      PROVE  IsInjective(s) /\ IsInjective(t) /\ Range(s) \cap Range(t) = {}
  <2>1. IsInjective(s)
    BY <1>1, <1>2, <1>3 DEF IsInjective
  <2>2. ASSUME NEW a \in 1 .. k, NEW b \in 1 .. k, t[a] = t[b] PROVE a = b
    <3>1. a + j = b + j
      BY <1>2, <1>3, <2>2 DEF IsInjective
    <3> QED  BY <1>1, <3>1
  <2>3. ASSUME NEW a \in 1 .. j, NEW b \in 1 .. k, s[a] = t[b] PROVE FALSE
    <3>1. a = b + j
      BY <1>2, <1>3, <2>3 DEF IsInjective
    <3> QED  BY <1>1, <3>1
  <2> QED  BY <1>1, <2>1, <2>2, <2>3 DEF IsInjective, Range
<1>4. ASSUME IsInjective(s), IsInjective(t), Range(s) \cap Range(t) = {}
      PROVE  IsInjective(u)
  <2> SUFFICES ASSUME NEW a \in 1 .. j + k, NEW b \in 1 .. j + k, u[a] = u[b]
               PROVE  a = b
    BY <1>1 DEF IsInjective
  <2>1. CASE a <= j /\ b <= j
    BY <1>1, <1>4, <2>1 DEF IsInjective
  <2>2. CASE a > j /\ b > j
    <3>1. a - j \in DOMAIN t /\ b - j \in DOMAIN t /\ t[a - j] = t[b - j]
      BY <1>1, <2>2
    <3>2. a - j = b - j
      BY <1>4, <3>1 DEF IsInjective
    <3> QED  BY <1>1, <3>2
  <2>3. CASE a <= j /\ b > j
    <3>1. a \in DOMAIN s /\ b - j \in DOMAIN t /\ s[a] = t[b - j]
      BY <1>1, <2>3
    <3> QED  BY <1>4, <3>1 DEF Range
  <2>4. CASE a > j /\ b <= j
    <3>1. b \in DOMAIN s /\ a - j \in DOMAIN t /\ s[b] = t[a - j]
      BY <1>1, <2>4
    <3> QED  BY <1>4, <3>1 DEF Range
  <2> QED  BY <1>1, <2>1, <2>2, <2>3, <2>4
<1> QED  BY <1>3, <1>4 DEF u

(* The head does not come again. *)
LEMMA InjectiveTail ==
  ASSUME NEW S, NEW s \in Seq(S), s # <<>>, IsInjective(s)
  PROVE  IsInjective(Tail(s)) /\ Head(s) \notin Range(Tail(s))
<1> DEFINE h == <<Head(s)>>
           t == Tail(s)
<1>1. h \in Seq(S) /\ t \in Seq(S) /\ Range(h) = {Head(s)}
  BY HeadTailProperties DEF Range
<1>2. s = h \o t
  OBVIOUS
<1> HIDE DEF h, t
<1>3. IsInjective(t) /\ Range(h) \cap Range(t) = {}
  BY <1>1, <1>2, InjectiveParts
<1> QED  BY <1>1, <1>3 DEF t

(* There are as many elements as places. *)
LEMMA InjectiveCardinality ==
  ASSUME NEW S, NEW s \in Seq(S), IsInjective(s)
  PROVE  IsFiniteSet(Range(s)) /\ Cardinality(Range(s)) = Len(s) /\ Len(s) \in Nat
<1>1. Len(s) \in Nat /\ DOMAIN s = 1 .. Len(s) /\ s \in [1 .. Len(s) -> S]
  BY LenProperties
<1>2. IsFiniteSet(1 .. Len(s)) /\ Cardinality(1 .. Len(s)) = Len(s)
  BY <1>1, FS_Interval
<1>3. s \in Surjection(1 .. Len(s), Range(s)) /\ s \in Injection(1 .. Len(s), Range(s))
  BY <1>1 DEF Surjection, Injection, IsInjective, Range
<1> QED  BY <1>1, <1>2, <1>3, FS_Surjection
=============================================================================
