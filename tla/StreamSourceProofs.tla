------------------------- MODULE StreamSourceProofs -------------------------
(***************************************************************************)
(* Proofs about StreamSource, for every capacity of the dynamic buffer and *)
(* every pattern of short and failing reads, and about SourceViews, for    *)
(* every place the buffer's storage may have.                              *)
(***************************************************************************)
EXTENDS SourceViews, SeqLemmas

(* What the stream delivers next is a sequence of that many bytes. *)
LEMMA DeliveredType ==
    ASSUME fetched \in Seq(Nat), NEW n \in Nat
    PROVE  /\ [i \in 1..n |-> Len(fetched) + i] \in Seq(Nat)
           /\ Len([i \in 1..n |-> Len(fetched) + i]) = n
  <1>1. Len(fetched) \in Nat
    BY LenProperties
  <1>2. \A i \in 1..n : Len(fetched) + i \in Nat
    BY <1>1
  <1>3. [i \in 1..n |-> Len(fetched) + i] \in [1..n -> Nat]
    BY <1>2
  <1> QED  BY <1>3

(* What one read does, without the numbering of the bytes: something the   *)
(* buffer has room for joins both the fetched bytes and the empty area.    *)
LEMMA ReadAppends ==
    ASSUME TypeOK, NEW size \in Nat, ReadMore(size)
    PROVE  /\ area = <<>>
           /\ \E in \in Seq(Nat) :
                /\ Len(in) <= Capacity
                /\ fetched' = fetched \o in
                /\ area' = in
                /\ view' \in {0, Len(in)}
                /\ outcome' \in {"threw", "bytes", "empty"}
                /\ outcome' = "empty" => Len(in) = 0
                /\ taken' = taken
  <1>1. area = <<>> /\ Len(area) = 0
    BY EmptySeq DEF ReadMore, NeedsRead
  <1>2. size \in Nat /\ Capacity \in Nat
    BY SourceAssumption
  <1>3. Room(size) \in 0..Capacity
    BY <1>1, <1>2 DEF Room
  <1>4. PICK n \in 0..Room(size), error \in BOOLEAN :
          LET in == [i \in 1..n |-> Len(fetched) + i]
          IN  /\ fetched' = fetched \o in
              /\ area' = area \o Keep(in, error)
              /\ IF error THEN outcome' = "threw" /\ view' = 0
                 ELSE /\ outcome' = IF n = 0 THEN "empty" ELSE "bytes"
                      /\ view' = n
    BY DEF ReadMore
  <1>5. n \in Nat /\ n <= Capacity
    BY <1>2, <1>3
  <1> DEFINE in == [i \in 1..n |-> Len(fetched) + i]
  <1>6. in \in Seq(Nat) /\ Len(in) = n
    BY <1>5, DeliveredType DEF TypeOK
  <1>7. fetched' = fetched \o in /\ area' = area \o in
    BY <1>4 DEF Keep
  <1>8. /\ view' \in {0, n} /\ outcome' \in {"threw", "bytes", "empty"}
        /\ outcome' = "empty" => n = 0
    BY <1>4
  <1> HIDE DEF in
  <1>9. area' = in
    BY <1>1, <1>6, <1>7, ConcatEmptySeq
  <1>10. taken' = taken
    BY DEF ReadMore
  <1> QED  BY <1>1, <1>5, <1>6, <1>7, <1>8, <1>9, <1>10

(* The invariant holds before anything is read. *)
LEMMA InitInv == Init => Inv
  <1> SUFFICES ASSUME Init PROVE Inv
    OBVIOUS
  <1>1. <<>> \in Seq(Nat) /\ Len(<<>>) = 0 /\ 0 \in 0..Capacity
    BY SourceAssumption, EmptySeq
  <1>2. TypeOK
    BY <1>1 DEF Init, TypeOK
  <1>3. SourceInOrder
    BY <1>1, ConcatEmptySeq DEF Init, SourceInOrder
  <1>4. ViewInArea /\ EmptyMeansDry
    BY <1>1 DEF Init, ViewInArea, EmptyMeansDry
  <1> QED  BY <1>2, <1>3, <1>4 DEF Inv

(* Showing bytes that wait keeps the invariant. *)
LEMMA ShowInv ==
    ASSUME Inv, NEW size \in Nat, ShowBuffered(size)
    PROVE  Inv'
  <1>1. Len(area) \in Nat /\ Len(area) <= Capacity /\ size \in Nat /\ Capacity \in Nat
    BY LenProperties, SourceAssumption DEF Inv, TypeOK, ViewInArea
  <1>2. view' \in 0..Capacity /\ view' <= Len(area)
    BY <1>1 DEF ShowBuffered
  <1>3. /\ area' = area /\ fetched' = fetched /\ taken' = taken
        /\ outcome' = "bytes"
    BY DEF ShowBuffered
  <1>4. TypeOK'
    BY <1>2, <1>3 DEF Inv, TypeOK
  <1>5. SourceInOrder'
    BY <1>3 DEF Inv, SourceInOrder
  <1>6. ViewInArea' /\ EmptyMeansDry'
    BY <1>1, <1>2, <1>3 DEF ViewInArea, EmptyMeansDry
  <1> QED  BY <1>4, <1>5, <1>6 DEF Inv

(* A read keeps the invariant, whether or not it fails. *)
LEMMA ReadInv ==
    ASSUME Inv, NEW size \in Nat, ReadMore(size)
    PROVE  Inv'
  <1>1. area = <<>>
    BY ReadAppends DEF Inv
  <1>2. PICK in \in Seq(Nat) :
          /\ Len(in) <= Capacity
          /\ fetched' = fetched \o in
          /\ area' = in
          /\ view' \in {0, Len(in)}
          /\ outcome' \in {"threw", "bytes", "empty"}
          /\ outcome' = "empty" => Len(in) = 0
          /\ taken' = taken
    BY ReadAppends DEF Inv
  <1>3. fetched \in Seq(Nat) /\ taken \in Seq(Nat)
    BY DEF Inv, TypeOK
  <1>4. Len(in) \in Nat /\ Capacity \in Nat
    BY LenProperties, SourceAssumption
  <1>5. taken = fetched
    <2>1. taken \o <<>> = fetched
      BY <1>1 DEF Inv, SourceInOrder
    <2> QED  BY <1>3, <2>1, ConcatEmptySeq
  <1>6. TypeOK'
    <2>1. fetched' \in Seq(Nat)
      BY <1>2, <1>3, ConcatProperties
    <2>2. view' \in 0..Capacity
      BY <1>2, <1>4
    <2> QED  BY <1>2, <1>3, <2>1, <2>2 DEF TypeOK
  <1>7. SourceInOrder'
    BY <1>2, <1>5 DEF SourceInOrder
  <1>8. ViewInArea'
    BY <1>2, <1>4 DEF ViewInArea
  <1>9. EmptyMeansDry'
    <2>1. CASE Len(in) = 0
      <3>1. in = <<>>
        BY <2>1, EmptySeq
      <3>2. fetched' = taken' /\ view' = 0
        BY <1>2, <1>3, <1>5, <2>1, <3>1, ConcatEmptySeq
      <3> QED  BY <3>2 DEF EmptyMeansDry
    <2>2. CASE Len(in) # 0
      BY <1>2, <2>2 DEF EmptyMeansDry
    <2> QED  BY <2>1, <2>2
  <1> QED  BY <1>6, <1>7, <1>8, <1>9 DEF Inv

(* Dropping bytes that were shown keeps the invariant. *)
LEMMA ConsumeInv ==
    ASSUME Inv, NEW size \in 0..view, Consume(size)
    PROVE  Inv'
  <1>1. /\ area \in Seq(Nat) /\ fetched \in Seq(Nat) /\ taken \in Seq(Nat)
        /\ taken \o area = fetched
    BY DEF Inv, TypeOK, SourceInOrder
  <1>2. /\ size \in 0..Len(area) /\ Len(area) \in Nat /\ Len(area) <= Capacity
        /\ view \in Nat /\ view <= Len(area) /\ Capacity \in Nat
    BY LenProperties, SourceAssumption DEF Inv, TypeOK, ViewInArea
  <1>3. /\ taken' = taken \o SubSeq(area, 1, size)
        /\ area' = SubSeq(area, size + 1, Len(area))
        /\ view' = view - size
        /\ outcome' = outcome /\ fetched' = fetched
    BY DEF Consume, Drop
  <1>4. /\ SubSeq(area, 1, size) \in Seq(Nat)
        /\ area' \in Seq(Nat) /\ Len(area') = Len(area) - size
    BY <1>1, <1>2, <1>3, CutAndJoin
  <1>5. TypeOK'
    <2>1. taken' \in Seq(Nat)
      BY <1>1, <1>3, <1>4, ConcatProperties
    <2>2. view' \in 0..Capacity
      BY <1>2, <1>3
    <2>3. outcome' \in {"none", "bytes", "empty", "threw"}
      BY <1>3 DEF Inv, TypeOK
    <2> QED  BY <1>1, <1>3, <1>4, <2>1, <2>2, <2>3 DEF TypeOK
  <1>6. SourceInOrder'
    <2>1. taken' \o area' = taken \o area
      BY <1>1, <1>2, <1>3, HandOn
    <2> QED  BY <1>1, <1>3, <2>1 DEF SourceInOrder
  <1>7. ViewInArea'
    BY <1>2, <1>3, <1>4 DEF ViewInArea
  <1>8. EmptyMeansDry'
    <2>1. CASE outcome = "empty"
      <3>1. view = 0 /\ taken = fetched /\ size = 0
        BY <1>2, <2>1 DEF Inv, EmptyMeansDry
      <3>2. SubSeq(area, 1, size) = <<>>
        BY <3>1, SubSeqEmpty
      <3>3. taken' = taken
        BY <1>1, <1>3, <3>2, ConcatEmptySeq
      <3> QED  BY <1>3, <3>1, <3>3 DEF EmptyMeansDry
    <2>2. CASE outcome # "empty"
      BY <1>3, <2>2 DEF EmptyMeansDry
    <2> QED  BY <2>1, <2>2
  <1> QED  BY <1>5, <1>6, <1>7, <1>8 DEF Inv

(* Every step keeps the invariant. *)
LEMMA NextInv == Inv /\ [Next]_vars => Inv'
  <1> SUFFICES ASSUME Inv, [Next]_vars PROVE Inv'
    OBVIOUS
  <1>1. CASE UNCHANGED vars
    BY <1>1 DEF vars, Inv, TypeOK, SourceInOrder, ViewInArea, EmptyMeansDry
  <1>2. ASSUME NEW size \in 1..(2 * Capacity), NextBytes(size) PROVE Inv'
    <2>1. size \in Nat
      BY SourceAssumption
    <2> QED  BY <1>2, <2>1, ShowInv, ReadInv DEF NextBytes
  <1>3. ASSUME NEW size \in 0..view, Consume(size) PROVE Inv'
    BY <1>3, ConsumeInv
  <1> QED  BY <1>1, <1>2, <1>3 DEF Next

(* The inductive invariant holds throughout. *)
THEOREM Invariance == Spec => []Inv
  BY InitInv, NextInv, PTL DEF Spec

(* The variables keep the types the code gives them. *)
THEOREM TypeCorrect == Spec => []TypeOK
  <1>1. Inv => TypeOK
    BY DEF Inv
  <1> QED  BY <1>1, Invariance, PTL

(* Every byte the stream delivered reaches the client once and in order. *)
THEOREM OrderCorrect == Spec => []SourceInOrder
  <1>1. Inv => SourceInOrder
    BY DEF Inv
  <1> QED  BY <1>1, Invariance, PTL

(* An empty view loses no byte. *)
THEOREM EmptyCorrect == Spec => []EmptyMeansDry
  <1>1. Inv => EmptyMeansDry
    BY DEF Inv
  <1> QED  BY <1>1, Invariance, PTL

(* Every step is a step of the byte pipe or a stutter. *)
LEMMA StepIsTransfer == Inv /\ Inv' /\ [Next]_vars => Pipe!Transfer
  <1> SUFFICES ASSUME Inv, Inv', [Next]_vars PROVE Pipe!Transfer
    OBVIOUS
  <1>0. /\ area \in Seq(Nat) /\ fetched \in Seq(Nat) /\ taken \in Seq(Nat)
        /\ area' \in Seq(Nat) /\ taken' \in Seq(Nat) /\ fetched' = taken' \o area'
    BY DEF Inv, TypeOK, SourceInOrder
  <1>1. IsPrefix(fetched, fetched') /\ IsPrefix(taken, taken')
    <2>1. ASSUME NEW size \in 1..(2 * Capacity), ShowBuffered(size)
          PROVE  IsPrefix(fetched, fetched') /\ IsPrefix(taken, taken')
      BY <1>0, <2>1, PrefixOfItself DEF ShowBuffered
    <2>2. ASSUME NEW size \in 1..(2 * Capacity), ReadMore(size)
          PROVE  IsPrefix(fetched, fetched') /\ IsPrefix(taken, taken')
      <3>1. PICK in \in Seq(Nat) : fetched' = fetched \o in /\ taken' = taken
        BY <2>2, ReadAppends DEF Inv
      <3> QED  BY <1>0, <3>1, ConcatIsPrefix, PrefixOfItself
    <2>3. ASSUME NEW size \in 0..view, Consume(size)
          PROVE  IsPrefix(fetched, fetched') /\ IsPrefix(taken, taken')
      <3>1. size \in 0..Len(area)
        BY <1>0, LenProperties, SourceAssumption DEF Inv, TypeOK, ViewInArea
      <3>2. SubSeq(area, 1, size) \in Seq(Nat)
        BY <1>0, <3>1, CutAndJoin
      <3>3. fetched' = fetched /\ taken' = taken \o SubSeq(area, 1, size)
        BY <2>3 DEF Consume
      <3> QED  BY <1>0, <3>2, <3>3, ConcatIsPrefix, PrefixOfItself
    <2>4. CASE UNCHANGED vars
      BY <1>0, <2>4, PrefixOfItself DEF vars
    <2> QED  BY <2>1, <2>2, <2>3, <2>4 DEF Next, NextBytes
  <1>2. IsPrefix(taken', fetched')
    BY <1>0, ConcatIsPrefix
  <1> QED  BY <1>1, <1>2 DEF Pipe!Transfer, Pipe!IsPrefix, IsPrefix

(* The source implements the byte pipe from the stream to its client. *)
THEOREM SourceIsPipe == Spec => ImplementsPipe
  <1>1. Init => Pipe!Init
    BY DEF Init, Pipe!Init
  <1> QED
    BY <1>1, StepIsTransfer, Invariance, PTL
       DEF ImplementsPipe, Pipe!Spec, Spec, Pipe!vars

-----------------------------------------------------------------------------
(* The client's views: what each step does to the source is a step of its. *)
LEMMA ViewsStep == [ViewsNext]_viewVars => [Next]_vars
  BY DEF ViewsNext, ShowsView, ReadsView, ConsumesView, viewVars, Next, NextBytes

(* So all that holds of a source holds of one whose views are kept.        *)
THEOREM ViewsAreSource == ViewsSpec => Spec
  <1>1. ViewsInit => Init
    BY DEF ViewsInit
  <1> QED  BY <1>1, ViewsStep, PTL DEF ViewsSpec, Spec

LEMMA ViewType ==
    ASSUME NEW at \in Nat, NEW size \in Nat
    PROVE  /\ View(at, size) \in [at : Nat, size : Nat]
           /\ View(at, size).size = size
           /\ size > 0 => View(at, size).at = at
  BY DEF View, NoView

(* What becomes of the client's views when it is shown n bytes, while they *)
(* are in place or there are none.                                         *)
LEMMA HoldsValid ==
    ASSUME held \in [at : Nat, size : Nat], start' \in Nat, NEW n \in Nat,
           held.size > 0 => held.at = start', Holds(n)
    PROVE  /\ held' \in [at : Nat, size : Nat]
           /\ held'.size = IF n > held.size THEN n ELSE held.size
           /\ held'.size > 0 => held'.at = start'
  BY ViewType DEF Holds

(* Whatever is shown, read or consumed, the views that are held stay good. *)
LEMMA ShowsViewInv ==
    ASSUME Inv, ViewsInv, NEW size \in Nat, ShowsView(size)
    PROVE  ViewsInv'
  <1>1. /\ start' = start /\ start \in Nat /\ area' = area /\ Len(area) \in Nat
        /\ held \in [at : Nat, size : Nat] /\ view' \in Nat /\ view' <= Len(area)
    BY LenProperties DEF ShowsView, ShowBuffered, Inv, TypeOK, ViewsInv
  <1>2. held.size > 0 => held.at = start' /\ held.size <= Len(area)
    BY <1>1 DEF ViewsInv, ViewsStayValid
  <1>3. /\ held' \in [at : Nat, size : Nat]
        /\ held'.size = IF view' > held.size THEN view' ELSE held.size
        /\ held'.size > 0 => held'.at = start'
    BY <1>1, <1>2, HoldsValid DEF ShowsView
  <1>4. held.size \in Nat
    BY <1>1
  <1>5. view' <= held'.size
    BY <1>1, <1>3, <1>4
  <1>6. held'.size > 0 => held'.size <= Len(area')
    BY <1>1, <1>2, <1>3, <1>4
  <1> QED  BY <1>1, <1>3, <1>5, <1>6 DEF ViewsInv, ViewsStayValid

LEMMA ReadsViewInv ==
    ASSUME Inv, ViewsInv, NEW size \in Nat, ReadsView(size)
    PROVE  ViewsInv'
  <1>1. PICK in \in Seq(Nat) :
          area = <<>> /\ area' = in /\ view' \in {0, Len(in)}
    BY ReadAppends DEF ReadsView, Inv
  <1>2. Len(in) \in Nat /\ view' \in Nat /\ view' <= Len(area')
    BY <1>1, LenProperties
  <1>3. start' \in Nat /\ held \in [at : Nat, size : Nat] /\ held.size \in Nat
    BY PlacesAssumption DEF ReadsView, ViewsInv
  <1>4. held.size = 0
    BY <1>1, <1>3, EmptySeq DEF ViewsInv, ViewsStayValid
  <1>5. /\ held' \in [at : Nat, size : Nat]
        /\ held'.size = IF view' > held.size THEN view' ELSE held.size
        /\ held'.size > 0 => held'.at = start'
    BY <1>2, <1>3, <1>4, HoldsValid DEF ReadsView
  <1>6. held'.size = view'
    BY <1>2, <1>4, <1>5
  <1> QED  BY <1>2, <1>3, <1>5, <1>6 DEF ViewsInv, ViewsStayValid

LEMMA ConsumesViewInv ==
    ASSUME Inv, ViewsInv, NEW size \in 0..view, ConsumesView(size)
    PROVE  ViewsInv'
  <1>1. /\ start \in Nat /\ held.at \in Nat /\ held.size \in Nat
        /\ view \in Nat /\ view <= held.size
        /\ area \in Seq(Nat) /\ Len(area) \in Nat
    BY LenProperties, SourceAssumption DEF ViewsInv, Inv, TypeOK
  <1>2. /\ start' = start + size /\ view' = view - size
        /\ held' = View(held.at + size, held.size - size)
        /\ area' = SubSeq(area, size + 1, Len(area))
    BY DEF ConsumesView, Consume, Drop
  <1>3. size \in Nat /\ held.at + size \in Nat /\ held.size - size \in Nat
    BY <1>1
  <1>4. /\ held' \in [at : Nat, size : Nat] /\ held'.size = held.size - size
        /\ held'.size > 0 => held'.at = held.at + size
    BY <1>2, <1>3, ViewType
  <1>5. view' <= held'.size /\ start' \in Nat
    BY <1>1, <1>2, <1>3, <1>4
  <1>6. ViewsStayValid'
    <2> SUFFICES ASSUME held'.size > 0
                 PROVE  held'.at = start' /\ held'.size <= Len(area')
      BY DEF ViewsStayValid
    <2>1. held.size > 0
      BY <1>1, <1>3, <1>4
    <2>2. held.at = start /\ held.size <= Len(area)
      BY <2>1 DEF ViewsInv, ViewsStayValid
    <2>3. size \in 0..Len(area)
      BY <1>1, <2>2
    <2>4. Len(area') = Len(area) - size
      BY <1>1, <1>2, <2>3, CutAndJoin
    <2> QED  BY <1>1, <1>2, <1>3, <1>4, <2>2, <2>4
  <1> QED  BY <1>4, <1>5, <1>6 DEF ViewsInv

(* A client's views stay good until it has consumed them, wherever the     *)
(* buffer moves its storage.                                               *)
THEOREM ViewsCorrect == ViewsSpec => []ViewsStayValid
  <1>1. ViewsInit => ViewsInv
    <2> SUFFICES ASSUME ViewsInit PROVE ViewsInv
      OBVIOUS
    <2>1. start \in Nat /\ view = 0 /\ held = NoView
      BY PlacesAssumption DEF ViewsInit, Init
    <2> QED  BY <2>1 DEF ViewsInv, ViewsStayValid, NoView
  <1>2. Inv /\ ViewsInv /\ [ViewsNext]_viewVars => ViewsInv'
    <2> SUFFICES ASSUME Inv, ViewsInv, [ViewsNext]_viewVars PROVE ViewsInv'
      OBVIOUS
    <2>1. ASSUME NEW size \in 1..(2 * Capacity), ShowsView(size) \/ ReadsView(size)
          PROVE  ViewsInv'
      <3>1. size \in Nat
        BY SourceAssumption
      <3> QED  BY <2>1, <3>1, ShowsViewInv, ReadsViewInv
    <2>2. ASSUME NEW size \in 0..view, ConsumesView(size)  PROVE ViewsInv'
      BY <2>2, ConsumesViewInv
    <2>3. CASE UNCHANGED viewVars
      BY <2>3 DEF viewVars, vars, ViewsInv, ViewsStayValid
    <2> QED  BY <2>1, <2>2, <2>3 DEF ViewsNext
  <1>3. ViewsInv => ViewsStayValid
    BY DEF ViewsInv
  <1> QED  BY <1>1, <1>2, <1>3, ViewsAreSource, Invariance, PTL DEF ViewsSpec
=============================================================================
