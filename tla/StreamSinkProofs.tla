-------------------------- MODULE StreamSinkProofs --------------------------
(***************************************************************************)
(* Proofs about StreamSink, for every capacity of the dynamic buffer and   *)
(* every way in which the stream's writes may fall short.                  *)
(***************************************************************************)
EXTENDS StreamSink, SeqLemmas

(* The producer's next bytes are a sequence of that length. *)
LEMMA FreshType ==
    ASSUME accepted \in Seq(Nat), NEW k \in Nat
    PROVE  Fresh(k) \in Seq(Nat) /\ Len(Fresh(k)) = k
  <1>1. Len(accepted) \in Nat
    BY LenProperties
  <1>2. \A i \in 1..k : Len(accepted) + i \in Nat
    BY <1>1
  <1>3. Fresh(k) \in [1..k -> Nat]
    BY <1>2 DEF Fresh
  <1> QED  BY <1>3

(* What one commit does, without the cases of its outcome: of the bytes    *)
(* that wait, some number n leaves at the front, no more than it adds, and *)
(* all that it adds if the write did not fall short.                       *)
LEMMA CommitMoves ==
    ASSUME TypeOK, NEW data \in Seq(Nat), Commit(data)
    PROVE  LET whole == area \o data
           IN  /\ whole \in Seq(Nat)
               /\ Len(whole) = Len(area) + Len(data)
               /\ \E n \in 0..Len(data) :
                    /\ n <= Len(whole)
                    /\ sent' = sent \o SubSeq(whole, 1, n)
                    /\ area' = SubSeq(whole, n + 1, Len(whole))
                    /\ accepted' = accepted \o data
                    /\ prepared' = 0
                    /\ fell' = (fell \/ n < Len(data))
  <1> DEFINE whole == area \o data
             offer == Offer(whole, Len(data))
  <1>1. /\ whole \in Seq(Nat) /\ Len(whole) = Len(area) + Len(data)
        /\ Len(area) \in Nat /\ Len(data) \in Nat
    BY LenProperties, ConcatProperties DEF TypeOK
  <1>2. Len(data) \in 0..Len(whole)
    BY <1>1
  <1>3. offer = SubSeq(whole, 1, Len(data)) /\ Len(offer) = Len(data)
    BY <1>1, <1>2, CutAndJoin DEF Offer
  <1>4. PICK res \in WriteResults(Len(offer)) :
          /\ sent' = sent \o SubSeq(offer, 1, res.bytes_transferred)
          /\ area' = Left(whole, res)
          /\ accepted' = accepted \o data
          /\ prepared' = 0
          /\ fell' = (fell \/ res.bytes_transferred < Len(offer))
    BY DEF Commit
  <1> DEFINE n == res.bytes_transferred
  <1>5. n \in 0..Len(data)
    BY <1>3, <1>4 DEF WriteResults
  <1> HIDE DEF whole, offer
  <1>6. SubSeq(offer, 1, n) = SubSeq(whole, 1, n)
    BY <1>1, <1>2, <1>3, <1>5, FrontOfFront
  <1>7. n <= Len(whole)
    BY <1>1, <1>5
  <1>8. area' = SubSeq(whole, n + 1, Len(whole))
    BY <1>4 DEF Left
  <1>9. sent' = sent \o SubSeq(whole, 1, n)
    BY <1>4, <1>6
  <1>10. fell' = (fell \/ n < Len(data))
    BY <1>3, <1>4
  <1> QED  BY <1>1, <1>4, <1>5, <1>7, <1>8, <1>9, <1>10 DEF whole

(* The invariant holds before anything is prepared. *)
LEMMA InitInv == Init => Inv
  <1> SUFFICES ASSUME Init PROVE Inv
    OBVIOUS
  <1>1. TypeOK
    <2>1. <<>> \in Seq(Nat) /\ 0 \in 0..Capacity
      BY SinkAssumption, EmptySeq
    <2> QED  BY <2>1 DEF Init, TypeOK
  <1>2. SinkInOrder
    BY EmptySeq, ConcatEmptySeq DEF Init, SinkInOrder
  <1>3. FitsCapacity /\ BehindOnceFell
    BY EmptySeq, SinkAssumption DEF Init, FitsCapacity, BehindOnceFell
  <1> QED  BY <1>1, <1>2, <1>3 DEF Inv

(* Handing out a region keeps the invariant. *)
LEMMA PrepareInv ==
    ASSUME Inv, NEW size \in Nat, Prepare(size)
    PROVE  Inv'
  <1>1. Len(area) \in Nat /\ Len(area) <= Capacity
    BY LenProperties, SinkAssumption DEF Inv, TypeOK, FitsCapacity
  <1>2. Room(size) \in 0..Capacity /\ Len(area) + Room(size) <= Capacity
    BY <1>1, SinkAssumption DEF Room
  <1> QED
    BY <1>2 DEF Prepare, Inv, TypeOK, SinkInOrder, FitsCapacity, BehindOnceFell

(* Bytes put behind the area continue the stream of accepted bytes.        *)
LEMMA Continued ==
    ASSUME SinkInOrder, sent \in Seq(Nat), area \in Seq(Nat), NEW data \in Seq(Nat)
    PROVE  sent \o (area \o data) = accepted \o data
  <1>1. (sent \o area) \o data = sent \o (area \o data)
    BY ConcatAssociative
  <1> QED  BY <1>1 DEF SinkInOrder

(* Committing no more than was prepared keeps the invariant. *)
LEMMA CommitInv ==
    ASSUME Inv, NEW data \in Seq(Nat), Len(data) <= prepared, Commit(data)
    PROVE  Inv'
  <1> DEFINE whole == area \o data
  <1>0. /\ area \in Seq(Nat) /\ accepted \in Seq(Nat) /\ sent \in Seq(Nat)
        /\ Len(area) \in Nat /\ Len(data) \in Nat
        /\ prepared \in Nat /\ fell \in BOOLEAN
    BY LenProperties, SinkAssumption DEF Inv, TypeOK
  <1>1. whole \in Seq(Nat) /\ Len(whole) = Len(area) + Len(data)
    BY <1>0, ConcatProperties
  <1>2. PICK n \in 0..Len(data) :
          /\ n <= Len(whole)
          /\ sent' = sent \o SubSeq(whole, 1, n)
          /\ area' = SubSeq(whole, n + 1, Len(whole))
          /\ accepted' = accepted \o data
          /\ prepared' = 0
          /\ fell' = (fell \/ n < Len(data))
    BY CommitMoves DEF Inv
  <1>3. sent \o whole = accepted \o data
    BY <1>0, Continued DEF Inv
  <1> HIDE DEF whole
  <1>4. n \in 0..Len(whole)
    BY <1>0, <1>1, <1>2
  <1>5. /\ SubSeq(whole, 1, n) \in Seq(Nat)
        /\ area' \in Seq(Nat) /\ Len(area') = Len(whole) - n
    BY <1>1, <1>2, <1>4, CutAndJoin
  <1>6. TypeOK'
    <2>1. sent' \in Seq(Nat) /\ accepted' \in Seq(Nat)
      BY <1>0, <1>2, <1>5, ConcatProperties
    <2>2. fell' \in BOOLEAN /\ prepared' \in 0..Capacity
      BY <1>2, SinkAssumption
    <2>3. outcome' \in {"none", "ok", "short", "threw"}
      BY DEF Commit, Inv, TypeOK
    <2> QED  BY <1>5, <2>1, <2>2, <2>3 DEF TypeOK
  <1>7. SinkInOrder'
    <2>1. sent' \o area' = sent \o whole
      BY <1>0, <1>1, <1>2, <1>4, HandOn
    <2> QED  BY <1>2, <1>3, <2>1 DEF SinkInOrder
  <1>8. FitsCapacity'
    <2>1. Len(area) + Len(data) <= Capacity
      BY <1>0, SinkAssumption DEF Inv, FitsCapacity
    <2> QED  BY <1>0, <1>1, <1>2, <1>5, <2>1, SinkAssumption DEF FitsCapacity
  <1>9. BehindOnceFell'
    <2>1. Len(area') = Len(area) + (Len(data) - n) /\ n <= Len(data)
      BY <1>0, <1>1, <1>5
    <2>2. fell <=> Len(area) > 0
      BY <1>0, EmptySeq DEF Inv, BehindOnceFell
    <2>3. fell' <=> Len(area') > 0
      <3>1. fell' = (fell \/ n < Len(data))
        BY <1>2, Zenon
      <3>2. n \in Nat /\ Len(area) \in Nat /\ Len(data) \in Nat
        BY <1>0
      <3>3. Len(area') > 0 <=> Len(area) > 0 \/ n < Len(data)
        BY <2>1, <3>2
      <3> QED  BY <2>2, <3>1, <3>3, Zenon
    <2> QED  BY <1>5, <2>3, EmptySeq DEF BehindOnceFell
  <1> QED  BY <1>6, <1>7, <1>8, <1>9 DEF Inv

(* Every step is a prepare, a commit of fresh bytes, or no step. *)
LEMMA StepCases ==
    ASSUME Inv, [Next]_vars
    PROVE  \/ \E size \in 1..MaxBytes : Prepare(size)
           \/ \E data \in Seq(Nat) : Len(data) <= prepared /\ Commit(data)
           \/ UNCHANGED vars
  <1>1. ASSUME NEW size \in 0..prepared, Commit(Fresh(size))
        PROVE  \E data \in Seq(Nat) : Len(data) <= prepared /\ Commit(data)
    <2>1. size \in Nat /\ size <= prepared
      BY SinkAssumption DEF Inv, TypeOK
    <2>2. Fresh(size) \in Seq(Nat) /\ Len(Fresh(size)) <= prepared
      BY <2>1, FreshType DEF Inv, TypeOK
    <2> QED  BY <1>1, <2>2
  <1> QED  BY <1>1 DEF Next

(* Every step keeps the invariant. *)
LEMMA NextInv == Inv /\ [Next]_vars => Inv'
  <1> SUFFICES ASSUME Inv, [Next]_vars PROVE Inv'
    OBVIOUS
  <1>1. CASE UNCHANGED vars
    BY <1>1 DEF vars, Inv, TypeOK, SinkInOrder, FitsCapacity, BehindOnceFell
  <1>2. ASSUME NEW size \in 1..MaxBytes, Prepare(size) PROVE Inv'
    <2>1. size \in Nat
      BY SinkAssumption
    <2> QED  BY <1>2, <2>1, PrepareInv
  <1> QED  BY <1>1, <1>2, StepCases, CommitInv

(* The inductive invariant holds throughout. *)
THEOREM Invariance == Spec => []Inv
  BY InitInv, NextInv, PTL DEF Spec

(* The variables keep the types the code gives them. *)
THEOREM TypeCorrect == Spec => []TypeOK
  <1>1. Inv => TypeOK
    BY DEF Inv
  <1> QED  BY <1>1, Invariance, PTL

(* Failed, short and repeated writes lose, repeat and reorder nothing. *)
THEOREM OrderCorrect == Spec => []SinkInOrder
  <1>1. Inv => SinkInOrder
    BY DEF Inv
  <1> QED  BY <1>1, Invariance, PTL

(* Whatever prepare() handed out fits when it is committed. *)
THEOREM CapacityCorrect == Spec => []FitsCapacity
  <1>1. Inv => FitsCapacity
    BY DEF Inv
  <1> QED  BY <1>1, Invariance, PTL

(* A sink none of whose writes fell short holds nothing back, and one of   *)
(* whose writes one did never gets rid of all it holds.                    *)
THEOREM LagCorrect == Spec => []BehindOnceFell
  <1>1. Inv => BehindOnceFell
    BY DEF Inv
  <1> QED  BY <1>1, Invariance, PTL

(* Every step is a step of the byte pipe or a stutter. *)
LEMMA StepIsTransfer == Inv /\ Inv' /\ [Next]_vars => Pipe!Transfer
  <1> SUFFICES ASSUME Inv, Inv', [Next]_vars PROVE Pipe!Transfer
    OBVIOUS
  <1>0. /\ accepted \in Seq(Nat) /\ sent \in Seq(Nat)
        /\ area' \in Seq(Nat) /\ sent' \in Seq(Nat) /\ accepted' = sent' \o area'
    BY DEF Inv, TypeOK, SinkInOrder
  <1>1. IsPrefix(accepted, accepted') /\ IsPrefix(sent, sent')
    <2>1. ASSUME NEW size \in 1..MaxBytes, Prepare(size)
          PROVE  IsPrefix(accepted, accepted') /\ IsPrefix(sent, sent')
      BY <1>0, <2>1, PrefixOfItself DEF Prepare
    <2>2. ASSUME NEW data \in Seq(Nat), Commit(data)
          PROVE  IsPrefix(accepted, accepted') /\ IsPrefix(sent, sent')
      <3> DEFINE whole == area \o data
      <3>1. PICK n \in 0..Len(data) :
              /\ whole \in Seq(Nat) /\ n <= Len(whole)
              /\ sent' = sent \o SubSeq(whole, 1, n)
              /\ accepted' = accepted \o data
        BY <2>2, CommitMoves DEF Inv
      <3> HIDE DEF whole
      <3>2. n \in 0..Len(whole)
        BY <3>1, LenProperties
      <3>3. SubSeq(whole, 1, n) \in Seq(Nat)
        BY <3>1, <3>2, CutAndJoin
      <3> QED  BY <1>0, <3>1, <3>3, ConcatIsPrefix
    <2>3. CASE UNCHANGED vars
      BY <1>0, <2>3, PrefixOfItself DEF vars
    <2> QED  BY <2>1, <2>2, <2>3, StepCases
  <1>2. IsPrefix(sent', accepted')
    BY <1>0, ConcatIsPrefix
  <1> QED  BY <1>1, <1>2 DEF Pipe!Transfer, Pipe!IsPrefix, IsPrefix

(* The sink implements the byte pipe from its producer to the stream. *)
THEOREM SinkIsPipe == Spec => ImplementsPipe
  <1>1. Init => Pipe!Init
    BY DEF Init, Pipe!Init
  <1> QED
    BY <1>1, StepIsTransfer, Invariance, PTL
       DEF ImplementsPipe, Pipe!Spec, Spec, Pipe!vars
=============================================================================
