----------------------------- MODULE SeqLemmas ------------------------------
(***************************************************************************)
(* Facts about cutting sequences and joining them again, from which the    *)
(* proofs about the buffers are built.                                     *)
(***************************************************************************)
EXTENDS Integers, SequencesExt, SequenceTheorems, TLAPS

(* A cut sequence is its two parts joined, and its parts have the lengths  *)
(* the cut gives them.                                                     *)
LEMMA CutAndJoin ==
    ASSUME NEW S, NEW s \in Seq(S), NEW n \in 0..Len(s)
    PROVE  /\ SubSeq(s, 1, n) \in Seq(S) /\ SubSeq(s, n + 1, Len(s)) \in Seq(S)
           /\ Len(SubSeq(s, 1, n)) = n
           /\ Len(SubSeq(s, n + 1, Len(s))) = Len(s) - n
           /\ SubSeq(s, 1, n) \o SubSeq(s, n + 1, Len(s)) = s
  <1>0. Len(s) \in Nat /\ n \in Nat /\ n <= Len(s)
    BY LenProperties
  <1>1. \A i \in 1..Len(s) : s[i] \in S
    BY ElementOfSeq
  <1>2. SubSeq(s, 1, n) \in Seq(S) /\ Len(SubSeq(s, 1, n)) = n
    <2>1. \A i \in 1..n : s[i] \in S
      BY <1>0, <1>1
    <2>2. SubSeq(s, 1, n) \in Seq(S)
      BY <1>0, <2>1, SubSeqProperties
    <2>3. Len(SubSeq(s, 1, n)) = IF 1 <= n THEN n - 1 + 1 ELSE 0
      BY <1>0, <2>1, SubSeqProperties
    <2> QED  BY <1>0, <2>2, <2>3
  <1>3. /\ SubSeq(s, n + 1, Len(s)) \in Seq(S)
        /\ Len(SubSeq(s, n + 1, Len(s))) = Len(s) - n
    <2>1. \A i \in (n + 1)..Len(s) : s[i] \in S
      BY <1>0, <1>1
    <2>2. SubSeq(s, n + 1, Len(s)) \in Seq(S)
      BY <1>0, <2>1, SubSeqProperties
    <2>3. Len(SubSeq(s, n + 1, Len(s)))
            = IF n + 1 <= Len(s) THEN Len(s) - (n + 1) + 1 ELSE 0
      BY <1>0, <2>1, SubSeqProperties
    <2> QED  BY <1>0, <2>2, <2>3
  <1>4. SubSeq(s, 1, n) \o SubSeq(s, n + 1, Len(s)) = SubSeq(s, 1, Len(s))
    <2>1. 1 \in 1..(Len(s) + 1) /\ n \in (1 - 1)..Len(s) /\ Len(s) \in n..Len(s)
      BY <1>0
    <2> QED  BY <2>1, ConcatAdjacentSubSeq, Zenon
  <1> QED  BY <1>2, <1>3, <1>4, SubSeqFull

(* The front of a front is a front. *)
LEMMA FrontOfFront ==
    ASSUME NEW S, NEW s \in Seq(S), NEW m \in 0..Len(s), NEW n \in 0..m
    PROVE  SubSeq(SubSeq(s, 1, m), 1, n) = SubSeq(s, 1, n)
  <1>0. Len(s) \in Nat /\ m \in Nat /\ n \in Nat /\ m <= Len(s) /\ n <= m
    BY LenProperties
  <1>1. CASE n = 0
    BY <1>0, <1>1, SubSeqEmpty
  <1>2. CASE n > 0
    <2>1. SubSeq(s, 1, m) \in Seq(S)
      BY <1>0, CutAndJoin
    <2> QED  BY <1>0, <1>2, <2>1, SubSeqOfSubSeq
  <1> QED  BY <1>0, <1>1, <1>2

(* What is cut off the front and handed on, and what stays behind, still   *)
(* make up the same sequence of bytes.                                     *)
LEMMA HandOn ==
    ASSUME NEW S, NEW out \in Seq(S), NEW s \in Seq(S), NEW n \in 0..Len(s)
    PROVE  (out \o SubSeq(s, 1, n)) \o SubSeq(s, n + 1, Len(s)) = out \o s
  <1>1. /\ SubSeq(s, 1, n) \in Seq(S) /\ SubSeq(s, n + 1, Len(s)) \in Seq(S)
        /\ SubSeq(s, 1, n) \o SubSeq(s, n + 1, Len(s)) = s
    BY CutAndJoin
  <1>2. ASSUME NEW front \in Seq(S), NEW back \in Seq(S), front \o back = s
        PROVE  (out \o front) \o back = out \o s
    <2>1. (out \o front) \o back = out \o (front \o back)
      BY ConcatAssociative
    <2> QED  BY <2>1, <1>2
  <1> QED  BY <1>1, <1>2

(* A sequence is a prefix of any sequence it is continued to. *)
LEMMA ConcatIsPrefix ==
    ASSUME NEW S, NEW s \in Seq(S), NEW t \in Seq(S)
    PROVE  IsPrefix(s, s \o t)
  <1>1. Len(s) \in Nat /\ Len(t) \in Nat /\ s \o t \in Seq(S)
        /\ Len(s \o t) = Len(s) + Len(t)
    BY LenProperties, ConcatProperties
  <1>2. SubSeq(s \o t, 1, Len(s)) = SubSeq(s, 1, Len(s))
    <2>1. CASE Len(s) = 0
      BY <2>1, <1>1, SubSeqEmpty
    <2>2. CASE Len(s) > 0
      BY <2>2, <1>1, SubSeqOfConcat1
    <2> QED  BY <1>1, <2>1, <2>2
  <1> QED  BY <1>1, <1>2 DEF IsPrefix

(* Every sequence is a prefix of itself. *)
LEMMA PrefixOfItself ==
    ASSUME NEW S, NEW s \in Seq(S)
    PROVE  IsPrefix(s, s)
  BY LenProperties DEF IsPrefix
=============================================================================
