-------------------------- MODULE SslEngineProofs ---------------------------
(***************************************************************************)
(* Proofs about SslEngine, for every size of the pair, the sink and the    *)
(* chunk of input, and every answer OpenSSL may give.  What the sink and   *)
(* the source contribute is taken from the proofs about them.              *)
(***************************************************************************)
EXTENDS SslEngine, SeqLemmas

SinkFacts == INSTANCE StreamSinkProofs WITH
            Capacity <- OutCapacity, MaxBytes <- MaxOut, area <- outArea,
            prepared <- outRoom, outcome <- outEnd, fell <- outFell
SourceFacts == INSTANCE StreamSourceProofs WITH
            Capacity <- InChunk, MaxBytes <- MaxIn, area <- inArea,
            view <- inView, outcome <- inEnd, taken <- fed,
            Places <- {}, start <- 0, held <- [at |-> 0, size |-> 0]

-----------------------------------------------------------------------------
(* Sequences: the numbers of the bytes, and the ends of a sequence.        *)
Count(n) == [i \in 1..n |-> i]
CountOn(p, k) == [i \in 1..k |-> p + i]

LEMMA CountType ==
    ASSUME NEW p \in Nat, NEW k \in Nat
    PROVE  CountOn(p, k) \in Seq(Nat) /\ Len(CountOn(p, k)) = k
  <1>1. \A i \in 1..k : p + i \in Nat
    OBVIOUS
  <1>2. CountOn(p, k) \in [1..k -> Nat]
    BY <1>1 DEF CountOn
  <1> QED  BY <1>2

(* Counting on goes on where counting stopped. *)
LEMMA CountGoesOn ==
    ASSUME NEW p \in Nat, NEW k \in Nat
    PROVE  /\ Count(p) \in Seq(Nat) /\ CountOn(p, k) \in Seq(Nat)
           /\ Len(CountOn(p, k)) = k
           /\ Count(p) \o CountOn(p, k) = Count(p + k)
  <1>1. ASSUME NEW n \in Nat  PROVE Count(n) \in Seq(Nat) /\ Len(Count(n)) = n
    <2>1. Count(n) \in [1..n -> Nat]
      BY DEF Count
    <2> QED  BY <2>1
  <1>2. /\ Count(p) \in Seq(Nat) /\ Len(Count(p)) = p
        /\ CountOn(p, k) \in Seq(Nat) /\ Len(CountOn(p, k)) = k
        /\ p + k \in Nat /\ Count(p + k) \in Seq(Nat) /\ Len(Count(p + k)) = p + k
    BY <1>1, CountType
  <1> DEFINE both == Count(p) \o CountOn(p, k)
  <1>3. /\ both \in Seq(Nat) /\ Len(both) = p + k
        /\ \A i \in 1..(p + k) :
              both[i] = IF i <= p THEN Count(p)[i] ELSE CountOn(p, k)[i - p]
    <2>1. /\ both \in Seq(Nat)
          /\ Len(both) = Len(Count(p)) + Len(CountOn(p, k))
          /\ \A i \in 1..(Len(Count(p)) + Len(CountOn(p, k))) :
                both[i] = IF i <= Len(Count(p)) THEN Count(p)[i]
                          ELSE CountOn(p, k)[i - Len(Count(p))]
      BY <1>2, ConcatProperties
    <2> HIDE DEF both
    <2> QED  BY <1>2, <2>1
  <1> HIDE DEF both
  <1>4. ASSUME NEW i \in 1..(p + k)  PROVE both[i] = Count(p + k)[i]
    <2>1. CASE i <= p
      <3>1. Count(p)[i] = i
        BY <2>1 DEF Count
      <3> QED  BY <1>3, <2>1, <3>1 DEF Count
    <2>2. CASE i > p
      <3>1. i - p \in 1..k
        BY <2>2
      <3>2. CountOn(p, k)[i - p] = p + (i - p)
        BY <3>1 DEF CountOn
      <3> QED  BY <1>3, <2>2, <3>2 DEF Count
    <2> QED  BY <2>1, <2>2
  <1>5. both = Count(p + k)
    BY <1>2, <1>3, <1>4, SeqEqual
  <1> QED  BY <1>2, <1>5 DEF both

(* s is what remains of t behind some front. *)
IsEnd(s, t) == \E n \in 0..Len(t) : s = SubSeq(t, n + 1, Len(t))

(* What follows a front is the end. *)
LEMMA BehindFront ==
    ASSUME NEW S, NEW r \in Seq(S), NEW s \in Seq(S)
    PROVE  IsEnd(s, r \o s)
  <1>1. /\ Len(r) \in Nat /\ Len(s) \in Nat
        /\ r \o s \in Seq(S) /\ Len(r \o s) = Len(r) + Len(s)
    BY LenProperties, ConcatProperties
  <1>2. SubSeq(r \o s, Len(r) + 1, Len(r) + Len(s)) = s
    <2>1. CASE Len(s) = 0
      <3>1. s = <<>>
        BY <2>1, EmptySeq
      <3>2. SubSeq(r \o s, Len(r) + 1, Len(r) + Len(s)) = <<>>
        BY <1>1, <2>1, SubSeqEmpty
      <3> QED  BY <3>1, <3>2
    <2>2. CASE Len(s) > 0
      <3> DEFINE m == Len(r) + 1
                 n == Len(r) + Len(s)
      <3>1. /\ m \in Len(r) + 1..Len(r) + Len(s) /\ n \in Len(r) + 1..Len(r) + Len(s)
            /\ m - Len(r) = 1 /\ n - Len(r) = Len(s)
        BY <1>1, <2>2
      <3> HIDE DEF m, n
      <3>2. SubSeq(r \o s, m, n) = SubSeq(s, m - Len(r), n - Len(r))
        BY <3>1, SubSeqOfConcat2
      <3>3. SubSeq(r \o s, m, n) = s
        BY <3>1, <3>2, SubSeqFull
      <3> QED  BY <3>3 DEF m, n
    <2> QED  BY <1>1, <2>1, <2>2
  <1>3. Len(r) \in 0..Len(r \o s)
    BY <1>1
  <1> QED  BY <1>1, <1>2, <1>3 DEF IsEnd

(* An end has a front. *)
LEMMA EndHasFront ==
    ASSUME NEW S, NEW t \in Seq(S), NEW s, IsEnd(s, t)
    PROVE  s \in Seq(S) /\ \E r \in Seq(S) : t = r \o s
  <1>1. PICK n \in 0..Len(t) : s = SubSeq(t, n + 1, Len(t))
    BY DEF IsEnd
  <1>2. /\ SubSeq(t, 1, n) \in Seq(S) /\ SubSeq(t, n + 1, Len(t)) \in Seq(S)
        /\ SubSeq(t, 1, n) \o SubSeq(t, n + 1, Len(t)) = t
    BY CutAndJoin
  <1> QED  BY <1>1, <1>2

(* What follows two fronts is the end. *)
LEMMA BehindTwoFronts ==
    ASSUME NEW S, NEW r \in Seq(S), NEW q \in Seq(S), NEW last \in Seq(S)
    PROVE  IsEnd(last, r \o (q \o last))
  <1>1. (r \o q) \o last = r \o (q \o last)
    BY ConcatAssociative
  <1>2. r \o q \in Seq(S)
    BY ConcatProperties
  <1> QED  BY <1>1, <1>2, BehindFront

(* The end of an end is an end. *)
LEMMA EndOfEnd ==
    ASSUME NEW S, NEW t \in Seq(S), NEW s \in Seq(S), IsEnd(s, t),
           NEW n \in 0..Len(s)
    PROVE  IsEnd(SubSeq(s, n + 1, Len(s)), t)
  <1> DEFINE q    == SubSeq(s, 1, n)
             last == SubSeq(s, n + 1, Len(s))
  <1>1. q \in Seq(S) /\ last \in Seq(S) /\ q \o last = s
    BY CutAndJoin
  <1> HIDE DEF q, last
  <1>2. PICK r \in Seq(S) : t = r \o s
    BY EndHasFront
  <1>3. IsEnd(last, r \o (q \o last))
    BY <1>1, <1>2, BehindTwoFronts
  <1> QED  BY <1>1, <1>2, <1>3 DEF last

(* What joins a sequence joins its ends. *)
LEMMA EndJoined ==
    ASSUME NEW S, NEW t \in Seq(S), NEW s, IsEnd(s, t), NEW f \in Seq(S)
    PROVE  IsEnd(s \o f, t \o f)
  <1>1. PICK r \in Seq(S) : t = r \o s /\ s \in Seq(S)
    BY EndHasFront
  <1>2. t \o f = r \o (s \o f) /\ s \o f \in Seq(S)
    BY <1>1, ConcatAssociative, ConcatProperties
  <1> QED  BY <1>1, <1>2, BehindFront

(* A sequence and the empty one are its ends. *)
LEMMA TrivialEnds ==
    ASSUME NEW S, NEW t \in Seq(S)
    PROVE  IsEnd(t, t) /\ IsEnd(<<>>, t)
  <1>1. <<>> \in Seq(S) /\ t \o <<>> = t /\ <<>> \o t = t
    BY EmptySeq, ConcatEmptySeq
  <1> QED  BY <1>1, BehindFront

-----------------------------------------------------------------------------
(* What a call to OpenSSL does to the bytes it emits: nothing, some that   *)
(* leave room for the close_notify, or the close_notify.                   *)
LEMMA CallEmits ==
    ASSUME NEW op, NEW size, SSL!Call(op, size)
    PROVE  \/ outgoing' = outgoing /\ produced' = produced /\ sentClose' = sentClose
           \/ sentClose' = sentClose /\ \E k \in Nat : SSL!Emit(k)
           \/ ~sentClose /\ sentClose' /\ SSL!Put(1)
  <1>1. \A k \in 0..BioSize : k \in Nat
    OBVIOUS
  <1>2. \A k \in 1..BioSize : k \in Nat
    OBVIOUS
  <1>3. \A k \in 0..1 : k \in Nat
    OBVIOUS
  <1>4. SSL!Blocked => sentClose' = sentClose /\ \E k \in Nat : SSL!Emit(k)
    BY <1>1 DEF SSL!Blocked, SSL!peer
  <1>5. SSL!Fatal => sentClose' = sentClose /\ \E k \in Nat : SSL!Emit(k)
    BY <1>3 DEF SSL!Fatal
  <1>6. ASSUME NEW code, SSL!Refused(code)
        PROVE  outgoing' = outgoing /\ produced' = produced /\ sentClose' = sentClose
    BY <1>6 DEF SSL!Refused, SSL!Silent, SSL!peer
  <1>7. CASE SSL!Connect
    BY <1>1, <1>4, <1>5, <1>6, <1>7 DEF SSL!Connect, SSL!Silent
  <1>8. CASE SSL!Read(size)
    BY <1>3, <1>4, <1>5, <1>6, <1>8 DEF SSL!Read, SSL!Silent, SSL!peer
  <1>9. CASE SSL!Write(size)
    BY <1>1, <1>2, <1>4, <1>5, <1>6, <1>9 DEF SSL!Write
  <1>10. CASE SSL!Shutdown
    BY <1>4, <1>5, <1>6, <1>10 DEF SSL!Shutdown, SSL!Silent, SSL!peer
  <1> QED  BY <1>7, <1>8, <1>9, <1>10 DEF SSL!Call

(* It reads what it was fed from the front. *)
LEMMA CallAbsorbs ==
    ASSUME incoming \in Seq(Nat), NEW op, NEW size, SSL!Call(op, size)
    PROVE  incoming' = incoming \/ incoming' = <<>> \/ SSL!Absorb
  <1>1. SSL!Blocked => incoming' = <<>> \/ SSL!Absorb
    BY DEF SSL!Blocked
  <1>2. SSL!Fatal => SSL!Absorb
    BY DEF SSL!Fatal
  <1>3. ASSUME NEW code, SSL!Refused(code)  PROVE incoming' = incoming
    BY <1>3 DEF SSL!Refused, SSL!Silent
  <1> QED
    BY <1>1, <1>2, <1>3
       DEF SSL!Call, SSL!Connect, SSL!Read, SSL!Write, SSL!Shutdown, SSL!Silent

(* The results it may give. *)
Codes == {"none", "want_read", "want_write", "syscall", "ssl", "zero_return"}

FlagsOK == /\ hs' \in {"init", "done", "failed"}
           /\ sentClose' \in BOOLEAN /\ recvClose' \in BOOLEAN /\ errno' \in BOOLEAN

Answer(code, n) == want_read' \in BOOLEAN /\ rc' = [code |-> code, n |-> n]

Promised(op, size, code, n) ==
    /\ n > 0 => code = "none"
    /\ size > 0 /\ code = "none" => n > 0
    /\ size > 0 /\ code = "syscall" => hs' = "failed"
    /\ op = "shutdown" /\ code \in {"none", "syscall"} => sentClose'

Answered(op, size) ==
    \E code \in Codes, n \in 0..size : Answer(code, n) /\ Promised(op, size, code, n)

(* An answer that is neither success nor a failure of the system promises  *)
(* nothing.                                                                *)
LEMMA NothingPromised ==
    ASSUME NEW op, NEW size \in Nat,
           NEW code \in {"want_read", "want_write", "ssl", "zero_return"}, Answer(code, 0)
    PROVE  Answered(op, size)
  BY DEF Answered, Promised, Codes

LEMMA Return ==
    ASSUME NEW code, NEW n, SSL!Return(code, n)
    PROVE  Answer(code, n)
  BY DEF SSL!Return, Answer

(* Whatever the object is asked for, its flags stay flags. *)
LEMMA CallFlags ==
    ASSUME SSL!TypeOK, NEW op, NEW size, SSL!Call(op, size)
    PROVE  FlagsOK
  <1>1. /\ hs \in {"init", "done", "failed"} /\ sentClose \in BOOLEAN
        /\ recvClose \in BOOLEAN /\ errno \in BOOLEAN
    BY DEF SSL!TypeOK
  <1>2. SSL!Blocked => FlagsOK
    BY <1>1 DEF SSL!Blocked, SSL!peer, SSL!ClearErrno, FlagsOK
  <1>3. SSL!Fatal => FlagsOK
    BY <1>1 DEF SSL!Fatal, SSL!ClearErrno, FlagsOK
  <1>4. ASSUME NEW code, SSL!Refused(code)  PROVE FlagsOK
    BY <1>1, <1>4 DEF SSL!Refused, SSL!peer, SSL!ClearErrno, FlagsOK
  <1>5. CASE SSL!Connect
    BY <1>1, <1>2, <1>3, <1>4, <1>5 DEF SSL!Connect, SSL!ClearErrno, FlagsOK
  <1>6. CASE SSL!Read(size)
    BY <1>1, <1>2, <1>3, <1>4, <1>6 DEF SSL!Read, SSL!peer, SSL!ClearErrno, FlagsOK
  <1>7. CASE SSL!Write(size)
    BY <1>1, <1>2, <1>3, <1>4, <1>7 DEF SSL!Write, SSL!ClearErrno, FlagsOK
  <1>8. CASE SSL!Shutdown
    BY <1>1, <1>2, <1>3, <1>4, <1>8 DEF SSL!Shutdown, SSL!peer, SSL!ClearErrno, FlagsOK
  <1> QED  BY <1>5, <1>6, <1>7, <1>8 DEF SSL!Call

(* What the codes of its answers promise, to each operation. *)
LEMMA CallAnswers ==
    ASSUME SSL!TypeOK, NEW c \in Calls, SSL!Call(c.op, c.size)
    PROVE  Answered(c.op, c.size)
  <1> DEFINE op == c.op
             size == c.size
  <1>0. size \in Nat /\ (op \in {"connect", "shutdown"} => size = 0)
    BY EngineAssumption DEF Calls
  <1>1. SSL!Call(op, size)
    OBVIOUS
  <1> SUFFICES Answered(op, size)
    OBVIOUS
  <1> HIDE DEF op, size
  <1>2. SSL!Blocked => Answered(op, size)
    BY <1>0, NothingPromised, Return DEF SSL!Blocked
  <1>3. SSL!Fatal => Answered(op, size)
    BY <1>0, NothingPromised, Return DEF SSL!Fatal
  <1>4. ASSUME NEW code, SSL!Refused(code)
        PROVE  Answer(code, 0) /\ hs' = hs /\ sentClose' = sentClose
    BY <1>4, Return DEF SSL!Refused, SSL!peer
  <1>5. ASSUME NEW code \in {"ssl", "zero_return"}, SSL!Refused(code)
        PROVE  Answered(op, size)
    BY <1>0, <1>4, <1>5, NothingPromised
  <1>6. ASSUME NEW n \in 0..size, Answer("none", n), size > 0 => n > 0,
               op = "shutdown" => sentClose'
        PROVE  Answered(op, size)
    BY <1>6 DEF Answered, Promised, Codes
  <1>7. ASSUME Answer("syscall", 0), size > 0 => hs' = "failed",
               op = "shutdown" => sentClose'
        PROVE  Answered(op, size)
    BY <1>0, <1>7 DEF Answered, Promised, Codes
  <1>8. CASE op = "connect" /\ SSL!Connect
    <2>1. size = 0 /\ 0 \in 0..size
      BY <1>0, <1>8
    <2>2. ASSUME SSL!Return("syscall", 0)  PROVE Answered(op, size)
      BY <1>7, <1>8, <2>1, <2>2, Return
    <2>3. ASSUME SSL!Return("none", 0)  PROVE Answered(op, size)
      BY <1>6, <1>8, <2>1, <2>3, Return
    <2>4. ASSUME SSL!Refused("none")  PROVE Answered(op, size)
      BY <1>4, <1>6, <1>8, <2>1, <2>4
    <2> QED  BY <1>2, <1>3, <1>8, <2>2, <2>3, <2>4 DEF SSL!Connect
  <1>9. CASE op = "read" /\ SSL!Read(size)
    <2>1. ASSUME hs = "failed", SSL!Return("syscall", 0), UNCHANGED SSL!peer
          PROVE  Answered(op, size)
      BY <1>7, <1>9, <2>1, Return DEF SSL!peer
    <2>2. ASSUME SSL!Return("zero_return", 0)  PROVE Answered(op, size)
      BY <1>0, <2>2, NothingPromised, Return
    <2>3. ASSUME NEW n \in 1..size, SSL!Return("none", n)  PROVE Answered(op, size)
      <3>1. n \in 0..size /\ n > 0
        BY <1>0
      <3> QED  BY <1>6, <1>9, <2>3, <3>1, Return
    <2> QED  BY <1>2, <1>3, <1>5, <1>9, <2>1, <2>2, <2>3, Zenon DEF SSL!Read
  <1>10. CASE op = "write" /\ SSL!Write(size)
    <2>1. ASSUME hs = "failed" \/ size = 0, SSL!Refused("syscall")  PROVE Answered(op, size)
      BY <1>0, <1>4, <1>7, <1>10, <2>1
    <2>2. ASSUME NEW n \in 1..size, SSL!Return("none", n)  PROVE Answered(op, size)
      <3>1. n \in 0..size /\ n > 0
        BY <1>0
      <3> QED  BY <1>6, <1>10, <2>2, <3>1, Return
    <2>3. ASSUME size = 0, SSL!Return("syscall", 0)  PROVE Answered(op, size)
      BY <1>7, <1>10, <2>3, Return
    <2> QED  BY <1>2, <1>3, <1>5, <1>10, <2>1, <2>2, <2>3, Zenon DEF SSL!Write
  <1>11. CASE op = "shutdown" /\ SSL!Shutdown
    <2>1. size = 0 /\ 0 \in 0..size
      BY <1>0, <1>11
    <2>2. ASSUME NEW code \in {"none", "syscall"}, Answer(code, 0), sentClose'
          PROVE  Answered(op, size)
      BY <1>6, <1>7, <2>1, <2>2
    <2>3. ASSUME sentClose' = TRUE, SSL!Return(IF recvClose THEN "none" ELSE "syscall", 0)
          PROVE  Answered(op, size)
      <3>1. CASE recvClose
        BY <2>2, <2>3, <3>1, Return
      <3>2. CASE ~recvClose
        BY <2>2, <2>3, <3>2, Return
      <3> QED  BY <3>1, <3>2
    <2>4. ASSUME SSL!Return("want_write", 0)  PROVE Answered(op, size)
      BY <1>0, <2>4, NothingPromised, Return
    <2>5. ASSUME sentClose, SSL!Refused("none")  PROVE Answered(op, size)
      BY <1>4, <2>2, <2>5
    <2>6. ASSUME sentClose' = sentClose, sentClose, SSL!Return("none", 0)
          PROVE  Answered(op, size)
      BY <2>2, <2>6, Return
    <2> QED
      BY <1>2, <1>3, <1>5, <1>11, <2>3, <2>4, <2>5, <2>6, Zenon DEF SSL!Shutdown, SSL!peer
  <1>12. \/ op = "connect" /\ SSL!Connect
         \/ op = "read" /\ SSL!Read(size)
         \/ op = "write" /\ SSL!Write(size)
         \/ op = "shutdown" /\ SSL!Shutdown
    BY <1>1 DEF SSL!Call
  <1> QED  BY <1>8, <1>9, <1>10, <1>11, <1>12

-----------------------------------------------------------------------------
(* The two buffers as the engine uses them: what was proved of them, with  *)
(* the engine's names for their variables.                                 *)
LEMMA SinkSame == (Sink!Inv <=> SinkFacts!Inv) /\ (Sink!Inv' <=> SinkFacts!Inv')
  BY DEF Sink!Inv, SinkFacts!Inv, Sink!TypeOK, SinkFacts!TypeOK,
         Sink!SinkInOrder, SinkFacts!SinkInOrder, Sink!FitsCapacity,
         SinkFacts!FitsCapacity, Sink!BehindOnceFell, SinkFacts!BehindOnceFell

LEMMA SourceSame == (Source!Inv <=> SourceFacts!Inv) /\ (Source!Inv' <=> SourceFacts!Inv')
  BY DEF Source!Inv, SourceFacts!Inv, Source!TypeOK, SourceFacts!TypeOK,
         Source!SourceInOrder, SourceFacts!SourceInOrder, Source!ViewInArea,
         SourceFacts!ViewInArea, Source!EmptyMeansDry, SourceFacts!EmptyMeansDry

(* The sizes the engine uses them with are sizes they may have. *)
LEMMA BufferSizes == /\ SinkFacts!SinkAssumption
                     /\ SourceFacts!SourceAssumption /\ SourceFacts!PlacesAssumption
  BY EngineAssumption
     DEF SinkFacts!SinkAssumption, SourceFacts!SourceAssumption, SourceFacts!PlacesAssumption

(* Asking the sink for room keeps its invariant; it has none only if full. *)
LEMMA SinkPrepare ==
    ASSUME Sink!Inv, NEW size \in Nat, Sink!Prepare(size)
    PROVE  /\ Sink!Inv'
           /\ size > 0 /\ outRoom' = 0 => outFell
  <1>1. SinkFacts!Prepare(size)
    BY DEF Sink!Prepare, SinkFacts!Prepare, Sink!Room, SinkFacts!Room
  <1>2. Sink!Inv'
    BY <1>1, BufferSizes, SinkSame, SinkFacts!PrepareInv
  <1>3. ASSUME size > 0, outRoom' = 0  PROVE outFell
    <2>1. outArea # <<>>
      BY <1>3, EngineAssumption, EmptySeq DEF Sink!Prepare, Sink!Room
    <2> QED  BY <2>1 DEF Sink!Inv, Sink!BehindOnceFell
  <1> QED  BY <1>2, <1>3

(* Committing what fits the room keeps it. *)
LEMMA SinkCommit ==
    ASSUME Sink!Inv, NEW data \in Seq(Nat), Len(data) <= outRoom, Sink!Commit(data)
    PROVE  Sink!Inv' /\ accepted' = accepted \o data
  <1>1. SinkFacts!Commit(data)
    BY DEF Sink!Commit, SinkFacts!Commit, Sink!Offer, SinkFacts!Offer, Sink!Left,
           SinkFacts!Left, Sink!WriteResults, SinkFacts!WriteResults
  <1>2. Sink!Inv'
    BY <1>1, BufferSizes, SinkSame, SinkFacts!CommitInv
  <1> QED  BY <1>2 DEF Sink!Commit

(* Asking the source keeps its invariant and consumes nothing. *)
LEMMA SourceNext ==
    ASSUME Source!Inv, Source!NextBytes(InChunk)
    PROVE  Source!Inv' /\ fed' = fed /\ inEnd' \in {"bytes", "empty", "threw"}
  <1>1. SourceFacts!ShowBuffered(InChunk) \/ SourceFacts!ReadMore(InChunk)
    BY DEF Source!NextBytes, Source!ShowBuffered, Source!ReadMore, Source!NeedsRead,
           Source!Keep, Source!Room, SourceFacts!ShowBuffered, SourceFacts!ReadMore,
           SourceFacts!NeedsRead, SourceFacts!Keep, SourceFacts!Room
  <1>2. InChunk \in Nat
    BY EngineAssumption
  <1>3. Source!Inv'
    BY <1>1, <1>2, BufferSizes, SourceSame, SourceFacts!ShowInv, SourceFacts!ReadInv
  <1> QED
    BY <1>3 DEF Source!NextBytes, Source!ShowBuffered, Source!ReadMore

(* Consuming part of the view keeps it. *)
LEMMA SourceConsume ==
    ASSUME Source!Inv, NEW n \in 0..inView, Source!Consume(n)
    PROVE  /\ Source!Inv'
           /\ n <= Len(inArea)
           /\ fed' = fed \o SubSeq(inArea, 1, n)
  <1>1. SourceFacts!Consume(n)
    BY DEF Source!Consume, SourceFacts!Consume, Source!Drop, SourceFacts!Drop
  <1>2. Source!Inv'
    BY <1>1, BufferSizes, SourceSame, SourceFacts!ConsumeInv
  <1>3. n <= Len(inArea)
    <2>1. inView \in Nat /\ inView <= Len(inArea) /\ inArea \in Seq(Nat)
      BY EngineAssumption DEF Source!Inv, Source!TypeOK, Source!ViewInArea
    <2> QED  BY <2>1, LenProperties
  <1> QED  BY <1>2, <1>3 DEF Source!Consume

-----------------------------------------------------------------------------
(* Joining sequences is associative, and yields sequences.                 *)
LEMMA JoinThree ==
    ASSUME NEW a \in Seq(Nat), NEW b \in Seq(Nat), NEW c \in Seq(Nat)
    PROVE  b \o c \in Seq(Nat) /\ a \o (b \o c) = (a \o b) \o c
  <1>1. b \o c \in Seq(Nat)
    BY ConcatProperties
  <1>2. (a \o b) \o c = a \o (b \o c)
    BY ConcatAssociative
  <1> QED  BY <1>1, <1>2

(* More bytes behind all those on their way continue their numbering.      *)
LEMMA OutputGoesOn ==
    ASSUME NEW gone \in Seq(Nat), NEW waiting \in Seq(Nat), NEW p \in Nat, NEW k \in Nat,
           gone \o waiting = Count(p)
    PROVE  /\ waiting \o CountOn(p, k) \in Seq(Nat)
           /\ gone \o (waiting \o CountOn(p, k)) = Count(p + k)
  <1>1. CountOn(p, k) \in Seq(Nat) /\ Count(p) \o CountOn(p, k) = Count(p + k)
    BY CountGoesOn
  <1>2. ASSUME NEW more \in Seq(Nat)
        PROVE  /\ waiting \o more \in Seq(Nat)
               /\ gone \o (waiting \o more) = (gone \o waiting) \o more
    BY JoinThree
  <1> QED  BY <1>1, <1>2

(* What a call emits keeps the output in order and within its bound.       *)
LEMMA CallOutput ==
    ASSUME EngineInv, NEW op, NEW size, SSL!Call(op, size), UNCHANGED sinkVars
    PROVE  /\ outgoing' \in Seq(Nat) /\ produced' \in 0..MaxOut
           /\ OutputInOrder' /\ CloseFits'
  <1>1. /\ outgoing \in Seq(Nat) /\ produced \in 0..MaxOut /\ MaxOut \in Nat
        /\ sent \in Seq(Nat) /\ outArea \in Seq(Nat) /\ sent \o outArea \in Seq(Nat)
        /\ produced \in Nat
    BY EngineAssumption, ConcatProperties
       DEF EngineInv, TypeOK, SSL!TypeOK, Sink!TypeOK
  <1>2. (sent \o outArea) \o outgoing = Count(produced)
    BY DEF EngineInv, OutputInOrder, Count
  <1>3. sentClose \/ produced < MaxOut
    BY DEF EngineInv, CloseFits
  <1>4. sent' = sent /\ outArea' = outArea
    BY DEF sinkVars
  <1>5. ASSUME NEW k \in Nat, SSL!Put(k)
        PROVE  /\ outgoing' \in Seq(Nat) /\ produced' = produced + k
               /\ OutputInOrder'
    <2>1. outgoing' = outgoing \o CountOn(produced, k) /\ produced' = produced + k
      BY <1>5 DEF SSL!Put, CountOn
    <2>2. outgoing' \in Seq(Nat) /\ (sent \o outArea) \o outgoing' = Count(produced')
      BY <1>1, <1>2, <2>1, OutputGoesOn
    <2> QED  BY <1>4, <2>1, <2>2 DEF OutputInOrder, Count
  <1>6. CASE outgoing' = outgoing /\ produced' = produced /\ sentClose' = sentClose
    BY <1>1, <1>2, <1>3, <1>4, <1>6 DEF OutputInOrder, Count, CloseFits
  <1>7. ASSUME sentClose' = sentClose, NEW k \in Nat, SSL!Emit(k)
        PROVE  /\ outgoing' \in Seq(Nat) /\ produced' \in 0..MaxOut
               /\ OutputInOrder' /\ CloseFits'
    <2>1. SSL!Put(k) /\ (k = 0 \/ produced + k < MaxOut)
      BY <1>7 DEF SSL!Emit
    <2>2. outgoing' \in Seq(Nat) /\ produced' = produced + k /\ OutputInOrder'
      BY <1>5, <2>1
    <2> QED  BY <1>1, <1>3, <1>7, <2>1, <2>2 DEF CloseFits
  <1>8. CASE ~sentClose /\ sentClose' /\ SSL!Put(1)
    <2>1. outgoing' \in Seq(Nat) /\ produced' = produced + 1 /\ OutputInOrder'
      BY <1>5, <1>8
    <2> QED  BY <1>1, <1>3, <1>8, <2>1 DEF CloseFits
  <1> QED  BY <1>6, <1>7, <1>8, CallEmits

(* What a call reads keeps the input in order. *)
LEMMA CallInput ==
    ASSUME EngineInv, NEW op, NEW size, SSL!Call(op, size), UNCHANGED sourceVars
    PROVE  incoming' \in Seq(Nat) /\ InputInOrder'
  <1>1. incoming \in Seq(Nat) /\ fed \in Seq(Nat)
    BY DEF EngineInv, TypeOK, SSL!TypeOK, Source!TypeOK
  <1>2. IsEnd(incoming, fed) /\ fed \o inArea = fetched
    BY DEF EngineInv, InputInOrder, IsEnd
  <1>4. IsEnd(incoming', fed)
    <2>1. CASE incoming' = incoming
      BY <1>2, <2>1
    <2>2. CASE incoming' = <<>>
      BY <1>1, <2>2, TrivialEnds
    <2>3. ASSUME NEW k \in 0..Len(incoming),
                 incoming' = SubSeq(incoming, k + 1, Len(incoming))
          PROVE  IsEnd(incoming', fed)
      BY <1>1, <1>2, <2>3, EndOfEnd
    <2> QED  BY <1>1, <2>1, <2>2, <2>3, CallAbsorbs DEF SSL!Absorb
  <1>5. incoming' \in Seq(Nat)
    BY <1>1, <1>4, EndHasFront
  <1> QED  BY <1>2, <1>4, <1>5 DEF InputInOrder, IsEnd, sourceVars

-----------------------------------------------------------------------------
(* The invariant without its buffers: what the variables of the engine     *)
(* itself have to keep.                                                    *)
LocalType == /\ pc \in {"idle", "step", "drain", "commit", "input", "feed"}
             /\ call \in Calls
             /\ state \in {"ok", "stop"}
             /\ ec \in {"none", "system", "ssl", "io_error", "protocol_error",
                        "no_message", "transport"}
             /\ bytes \in 0..MaxCall

Control == /\ Drained /\ SuccessIsSent
           /\ StepKeepsPromise /\ NothingReportedYet /\ ReturnsFinished

(* The invariant is made of the parts that the steps below treat alone.    *)
LEMMA Parts == /\ EngineInv <=> /\ LocalType /\ SSL!TypeOK
                                /\ Sink!Inv /\ Source!Inv
                                /\ OutputInOrder /\ InputInOrder /\ CloseFits
                                /\ Control
               /\ EngineInv' <=> /\ LocalType' /\ SSL!TypeOK'
                                 /\ Sink!Inv' /\ Source!Inv'
                                 /\ OutputInOrder' /\ InputInOrder' /\ CloseFits'
                                 /\ Control'
  BY DEF EngineInv, TypeOK, LocalType, Control, Sink!Inv, Source!Inv

(* A buffer that a step leaves alone keeps its invariant. *)
LEMMA SinkKept ==
    ASSUME Sink!Inv, UNCHANGED sinkVars
    PROVE  Sink!Inv'
  BY DEF sinkVars, Sink!Inv, Sink!TypeOK, Sink!SinkInOrder, Sink!FitsCapacity,
         Sink!BehindOnceFell

LEMMA SourceKept ==
    ASSUME Source!Inv, UNCHANGED sourceVars
    PROVE  Source!Inv'
  BY DEF sourceVars, Source!Inv, Source!TypeOK, Source!SourceInOrder,
         Source!ViewInArea, Source!EmptyMeansDry

(* The same of the object, whatever errno is meanwhile. *)
LEMMA SslKept ==
    ASSUME SSL!TypeOK, errno' \in BOOLEAN,
           UNCHANGED <<peer, want_read, outgoing, incoming, produced, rc>>
    PROVE  SSL!TypeOK'
  BY DEF peer, SSL!TypeOK

(* Starting a call. *)
LEMMA BeginInv ==
    ASSUME EngineInv, NEW c \in Calls, Begin(c)
    PROVE  EngineInv'
  <1>1. /\ LocalType /\ SSL!TypeOK /\ Sink!Inv /\ Source!Inv
        /\ OutputInOrder /\ InputInOrder /\ CloseFits
    BY Parts
  <1>2. /\ UNCHANGED sinkVars /\ UNCHANGED sourceVars
        /\ UNCHANGED <<peer, want_read, outgoing, incoming, produced, rc>>
        /\ errno' \in BOOLEAN
        /\ call' = c /\ state' = state /\ ec' = "none" /\ bytes' = 0
        /\ pc' = IF c.op = "read" /\ c.size = 0 THEN "idle" ELSE "step"
    BY DEF Begin
  <1>3. LocalType'
    BY <1>1, <1>2, EngineAssumption DEF LocalType
  <1>4. SSL!TypeOK' /\ Sink!Inv' /\ Source!Inv'
    BY <1>1, <1>2, SslKept, SinkKept, SourceKept
  <1>5. OutputInOrder' /\ InputInOrder' /\ CloseFits'
    BY <1>1, <1>2 DEF OutputInOrder, InputInOrder, CloseFits, sinkVars, sourceVars, peer
  <1>6. c.size \in Nat
    BY EngineAssumption DEF Calls
  <1>7. Control'
    BY <1>2, <1>6 DEF Control, Drained, SuccessIsSent, StepKeepsPromise,
                      NothingReportedYet, ReturnsFinished
  <1> QED  BY <1>3, <1>4, <1>5, <1>7, Parts

(* What a call has promised once its result is turned into an error code.  *)
LEMMA StepResult ==
    ASSUME LocalType, NothingReportedYet, OneStep, Answered(call.op, call.size)
    PROVE  LocalType' /\ Control'
  <1>1. PICK code \in Codes, n \in 0..call.size :
          Answer(code, n) /\ Promised(call.op, call.size, code, n)
    BY DEF Answered
  <1>2. /\ call.size \in Nat /\ call.size <= MaxCall /\ MaxCall \in Nat
        /\ bytes = 0
    BY EngineAssumption DEF LocalType, Calls, NothingReportedYet, OneStep
  <1>3. rc'.code = code /\ rc'.n = n
    BY <1>1 DEF Answer
  <1>4. /\ call' = call /\ UNCHANGED sinkVars
        /\ state' = IF code \in {"want_read", "want_write"} THEN "ok" ELSE "stop"
        /\ ec' = EcOf(code, errno')
        /\ bytes' = n
        /\ pc' = IF ec' # "none" THEN "idle" ELSE "drain"
    BY <1>1, <1>2, <1>3 DEF OneStep, AfterStep
  <1>5. /\ ec' \in {"none", "system", "ssl", "io_error", "protocol_error"}
        /\ ec' = "none" => code \in {"none", "want_read", "want_write", "syscall"}
    BY <1>4 DEF EcOf
  <1>6. LocalType'
    BY <1>1, <1>2, <1>4, <1>5 DEF LocalType
  <1>7. StepKeepsPromise'
    <2> SUFFICES ASSUME state' = "stop", ec' = "none"
                 PROVE  /\ call.op = "shutdown" => sentClose'
                        /\ call.size > 0 /\ hs' # "failed" => n > 0
      BY <1>4 DEF StepKeepsPromise
    <2>1. code \in {"none", "syscall"}
      BY <1>4, <1>5
    <2> QED  BY <1>1, <2>1 DEF Promised
  <1>8. NothingReportedYet'
    <2> SUFFICES ASSUME state' = "ok"  PROVE n = 0
      BY <1>4 DEF NothingReportedYet
    <2>1. code # "none"
      BY <1>4
    <2> QED  BY <1>1, <1>2, <2>1 DEF Promised
  <1>9. Drained' /\ SuccessIsSent' /\ ReturnsFinished'
    BY <1>4 DEF Drained, SuccessIsSent, ReturnsFinished
  <1> QED  BY <1>6, <1>7, <1>8, <1>9 DEF Control

(* One call to OpenSSL. *)
LEMMA OneStepInv ==
    ASSUME EngineInv, OneStep
    PROVE  EngineInv'
  <1>1. LocalType /\ SSL!TypeOK /\ Sink!Inv /\ Source!Inv /\ NothingReportedYet
    BY Parts DEF Control
  <1>2. SSL!Call(call.op, call.size) /\ UNCHANGED sinkVars /\ UNCHANGED sourceVars
    BY DEF OneStep
  <1>3. call \in Calls
    BY <1>1 DEF LocalType
  <1>4. Answered(call.op, call.size) /\ FlagsOK
    BY <1>1, <1>2, <1>3, CallAnswers, CallFlags
  <1>5. LocalType' /\ Control'
    BY <1>1, <1>4, StepResult
  <1>6. /\ outgoing' \in Seq(Nat) /\ produced' \in 0..MaxOut
        /\ OutputInOrder' /\ CloseFits'
    BY <1>2, CallOutput
  <1>7. incoming' \in Seq(Nat) /\ InputInOrder'
    BY <1>2, CallInput
  <1>8. want_read' \in BOOLEAN /\ \E code \in Codes, n \in Nat : rc' = [code |-> code, n |-> n]
    <2>1. \A n \in 0..call.size : n \in Nat
      BY <1>3, EngineAssumption DEF Calls
    <2> QED  BY <1>4, <2>1 DEF Answered, Answer
  <1>9. SSL!TypeOK'
    BY <1>4, <1>6, <1>7, <1>8 DEF SSL!TypeOK, FlagsOK, Codes
  <1>10. Sink!Inv' /\ Source!Inv'
    BY <1>1, <1>2, SinkKept, SourceKept
  <1> QED  BY <1>5, <1>6, <1>7, <1>9, <1>10, Parts

(* Asking the sink for room. *)
LEMMA PrepareOutputInv ==
    ASSUME EngineInv, PrepareOutput
    PROVE  EngineInv'
  <1>1. /\ LocalType /\ SSL!TypeOK /\ Sink!Inv /\ Source!Inv
        /\ OutputInOrder /\ InputInOrder /\ CloseFits /\ Control
    BY Parts
  <1>2. /\ pc = "drain" /\ UNCHANGED <<call, state, ec, bytes>>
        /\ UNCHANGED sslVars /\ UNCHANGED sourceVars
    BY DEF PrepareOutput
  <1>3. UNCHANGED <<peer, want_read, outgoing, incoming, produced, rc, errno>>
    BY <1>2 DEF sslVars
  <1>4. Len(outgoing) \in Nat /\ (outgoing # <<>> => Len(outgoing) > 0)
    BY <1>1, EmptySeq, LenProperties DEF SSL!TypeOK
  <1>5. /\ Sink!Inv' /\ pc' \in {"input", "commit"}
        /\ sent' = sent /\ outArea' = outArea /\ outFell' = outFell
        /\ pc' = "input" => outgoing = <<>> \/ outFell
    <2>1. CASE outgoing = <<>>
      <3>1. pc' = "input" /\ UNCHANGED sinkVars
        BY <2>1 DEF PrepareOutput
      <3>2. Sink!Inv'
        BY <1>1, <3>1, SinkKept
      <3> QED  BY <2>1, <3>1, <3>2 DEF sinkVars
    <2>2. CASE outgoing # <<>>
      <3>1. /\ Sink!Prepare(Len(outgoing))
            /\ pc' = IF outRoom' = 0 THEN "input" ELSE "commit"
        BY <2>2 DEF PrepareOutput
      <3>2. Sink!Inv' /\ (outRoom' = 0 => outFell)
        BY <1>1, <1>4, <2>2, <3>1, SinkPrepare
      <3> QED  BY <3>1, <3>2 DEF Sink!Prepare
    <2> QED  BY <2>1, <2>2
  <1>6. LocalType' /\ SSL!TypeOK' /\ Source!Inv'
    <2>1. LocalType'
      BY <1>1, <1>2, <1>5 DEF LocalType
    <2>2. errno' \in BOOLEAN
      BY <1>1, <1>3 DEF SSL!TypeOK
    <2> QED  BY <1>1, <1>2, <1>3, <2>1, <2>2, SslKept, SourceKept
  <1>7. OutputInOrder' /\ InputInOrder' /\ CloseFits'
    BY <1>1, <1>2, <1>3, <1>5 DEF OutputInOrder, InputInOrder, CloseFits, sourceVars, peer
  <1>8. Drained'
    <2>1. outArea = <<>> \/ outFell
      BY <1>1 DEF Sink!Inv, Sink!BehindOnceFell
    <2> QED  BY <1>3, <1>5, <2>1 DEF Drained
  <1>9. StepKeepsPromise' /\ NothingReportedYet'
    BY <1>1, <1>2, <1>3, <1>5
       DEF Control, StepKeepsPromise, NothingReportedYet, peer
  <1>10. SuccessIsSent' /\ ReturnsFinished'
    BY <1>5 DEF SuccessIsSent, ReturnsFinished
  <1> QED  BY <1>1, <1>5, <1>6, <1>7, <1>8, <1>9, <1>10, Parts DEF Control

(* Committing what was taken from the pair. *)
LEMMA CommitOutputInv ==
    ASSUME EngineInv, CommitOutput
    PROVE  EngineInv'
  <1>1. /\ LocalType /\ SSL!TypeOK /\ Sink!Inv /\ Source!Inv
        /\ OutputInOrder /\ InputInOrder /\ CloseFits /\ Control
    BY Parts
  <1>2. /\ pc = "commit" /\ UNCHANGED <<call, state, bytes>>
        /\ UNCHANGED <<peer, want_read, incoming, produced, rc, errno>>
        /\ UNCHANGED sourceVars
        /\ \/ pc' = "idle" /\ ec' = "transport"
           \/ pc' = "drain" /\ ec' = ec
    BY DEF CommitOutput, AfterCommit
  <1>3. PICK n \in 1..outRoom :
          /\ n <= Len(outgoing)
          /\ Sink!Commit(SubSeq(outgoing, 1, n))
          /\ outgoing' = SubSeq(outgoing, n + 1, Len(outgoing))
    BY DEF CommitOutput, Committed
  <1>4. /\ outgoing \in Seq(Nat) /\ accepted \in Seq(Nat) /\ outRoom \in Nat
        /\ sent \o outArea = accepted
    BY <1>1, EngineAssumption DEF SSL!TypeOK, Sink!Inv, Sink!TypeOK, Sink!SinkInOrder
  <1>5. n \in 0..Len(outgoing) /\ n <= outRoom
    BY <1>3, <1>4, LenProperties
  <1>6. /\ SubSeq(outgoing, 1, n) \in Seq(Nat) /\ Len(SubSeq(outgoing, 1, n)) = n
        /\ outgoing' \in Seq(Nat)
    BY <1>3, <1>4, <1>5, CutAndJoin
  <1>7. Sink!Inv' /\ accepted' = accepted \o SubSeq(outgoing, 1, n)
    BY <1>1, <1>3, <1>5, <1>6, SinkCommit
  <1>8. OutputInOrder'
    <2>1. accepted' \o outgoing' = accepted \o outgoing
      BY <1>3, <1>4, <1>5, <1>7, HandOn
    <2>2. sent' \o outArea' = accepted'
      BY <1>7 DEF Sink!Inv, Sink!SinkInOrder
    <2> QED  BY <1>1, <1>2, <1>4, <2>1, <2>2 DEF OutputInOrder
  <1>9. LocalType' /\ SSL!TypeOK' /\ Source!Inv'
    <2>1. LocalType'
      BY <1>1, <1>2 DEF LocalType
    <2>2. SSL!TypeOK'
      BY <1>1, <1>2, <1>6 DEF SSL!TypeOK, peer
    <2> QED  BY <1>1, <1>2, <2>1, <2>2, SourceKept
  <1>10. InputInOrder' /\ CloseFits'
    BY <1>1, <1>2 DEF InputInOrder, CloseFits, sourceVars, peer
  <1>11. StepKeepsPromise' /\ NothingReportedYet'
    BY <1>1, <1>2 DEF Control, StepKeepsPromise, NothingReportedYet, peer
  <1>12. Drained' /\ SuccessIsSent' /\ ReturnsFinished'
    BY <1>2 DEF Drained, SuccessIsSent, ReturnsFinished
  <1> QED  BY <1>7, <1>8, <1>9, <1>10, <1>11, <1>12, Parts DEF Control

(* Where a round ends: input is asked for and fed when all output has      *)
(* left, so a call that returns then has left nothing behind.              *)
LEMMA RoundEnds ==
    ASSUME Control, pc \in {"input", "feed"}, LocalType,
           UNCHANGED <<call, state, bytes>>, UNCHANGED peer,
           UNCHANGED outgoing, UNCHANGED sinkVars,
           \/ pc' = AfterFlush /\ ec' = ec
           \/ pc' = "feed" /\ ec' = ec
           \/ pc' = "idle" /\ ec' \in {"transport", "no_message"}
    PROVE  LocalType' /\ Control'
  <1>1. /\ pc' \in {"idle", "step", "feed"}
        /\ pc' = "step" => state = "ok"
        /\ pc' = "idle" /\ ec' = "none" => state = "stop"
        /\ ec' = ec \/ ec' \in {"transport", "no_message"}
    BY DEF AfterFlush, LocalType
  <1>2. LocalType'
    BY <1>1 DEF LocalType
  <1>3. /\ hs' = hs /\ sentClose' = sentClose
        /\ outArea' = outArea /\ outFell' = outFell
    BY DEF peer, sinkVars
  <1>4. Drained' /\ SuccessIsSent'
    BY <1>3 DEF Control, Drained, SuccessIsSent
  <1>5. StepKeepsPromise' /\ NothingReportedYet' /\ ReturnsFinished'
    BY <1>1, <1>3
       DEF Control, StepKeepsPromise, NothingReportedYet, ReturnsFinished
  <1> QED  BY <1>2, <1>4, <1>5 DEF Control

(* Asking the source for input, or going on without. *)
LEMMA AskInputInv ==
    ASSUME EngineInv, AskInput
    PROVE  EngineInv'
  <1>1. /\ LocalType /\ SSL!TypeOK /\ Sink!Inv /\ Source!Inv
        /\ OutputInOrder /\ InputInOrder /\ CloseFits /\ Control
    BY Parts
  <1>2. /\ pc = "input" /\ UNCHANGED <<call, state, bytes>>
        /\ UNCHANGED sslVars /\ UNCHANGED sinkVars
    BY DEF AskInput
  <1>3. UNCHANGED <<peer, want_read, outgoing, incoming, produced, rc, errno>>
    BY <1>2 DEF sslVars
  <1>4. /\ Source!Inv' /\ fed' = fed
        /\ \/ pc' = AfterFlush /\ ec' = ec
           \/ pc' = "feed" /\ ec' = ec
           \/ pc' = "idle" /\ ec' \in {"transport", "no_message"}
    <2>1. CASE want_read
      <3>1. /\ Source!NextBytes(InChunk)
            /\ ec' = CASE inEnd' = "threw" -> "transport"
                       [] inEnd' = "empty" -> "no_message"
                       [] OTHER            -> ec
            /\ pc' = AfterAsk(inEnd')
        BY <2>1 DEF AskInput
      <3>2. Source!Inv' /\ fed' = fed /\ inEnd' \in {"bytes", "empty", "threw"}
        BY <1>1, <3>1, SourceNext
      <3> QED  BY <3>1, <3>2 DEF AfterAsk
    <2>2. CASE ~want_read
      <3>1. pc' = AfterFlush /\ ec' = ec /\ UNCHANGED sourceVars
        BY <2>2 DEF AskInput
      <3> QED  BY <1>1, <3>1, SourceKept DEF sourceVars
    <2> QED  BY <2>1, <2>2
  <1>5. LocalType' /\ Control'
    <2>1. UNCHANGED peer /\ UNCHANGED outgoing
      BY <1>3
    <2> QED  BY <1>1, <1>2, <1>4, <2>1, RoundEnds
  <1>6. SSL!TypeOK' /\ Sink!Inv'
    <2>1. errno' \in BOOLEAN
      BY <1>1, <1>3 DEF SSL!TypeOK
    <2> QED  BY <1>1, <1>2, <1>3, <2>1, SslKept, SinkKept
  <1>7. OutputInOrder' /\ CloseFits'
    BY <1>1, <1>2, <1>3 DEF OutputInOrder, CloseFits, sinkVars, peer
  <1>8. InputInOrder'
    BY <1>1, <1>3, <1>4 DEF InputInOrder, Source!Inv, Source!SourceInOrder
  <1> QED  BY <1>4, <1>5, <1>6, <1>7, <1>8, Parts

(* Feeding what the source showed. *)
LEMMA FeedInputInv ==
    ASSUME EngineInv, FeedInput
    PROVE  EngineInv'
  <1>1. /\ LocalType /\ SSL!TypeOK /\ Sink!Inv /\ Source!Inv
        /\ OutputInOrder /\ InputInOrder /\ CloseFits /\ Control
    BY Parts
  <1>2. /\ pc = "feed" /\ pc' = AfterFlush
        /\ UNCHANGED <<call, state, bytes>> /\ ec' = ec
        /\ UNCHANGED <<peer, want_read, outgoing, produced, rc, errno>>
        /\ UNCHANGED sinkVars
    BY DEF FeedInput
  <1>3. PICK n \in 1..inView :
          /\ incoming' = incoming \o SubSeq(inArea, 1, n)
          /\ Source!Consume(n)
    BY DEF FeedInput, Consumed
  <1>4. /\ incoming \in Seq(Nat) /\ fed \in Seq(Nat) /\ inArea \in Seq(Nat)
        /\ inView \in Nat
    BY <1>1, EngineAssumption DEF SSL!TypeOK, Source!Inv, Source!TypeOK
  <1>5. n \in 0..inView /\ n \in Nat
    BY <1>4
  <1>6. Source!Inv' /\ n <= Len(inArea) /\ fed' = fed \o SubSeq(inArea, 1, n)
    BY <1>1, <1>3, <1>5, SourceConsume
  <1>7. SubSeq(inArea, 1, n) \in Seq(Nat)
    <2>1. n \in 0..Len(inArea)
      BY <1>4, <1>5, <1>6, LenProperties
    <2> QED  BY <1>4, <2>1, CutAndJoin
  <1>8. InputInOrder'
    <2>1. IsEnd(incoming, fed)
      BY <1>1 DEF InputInOrder, IsEnd
    <2>2. IsEnd(incoming', fed')
      BY <1>3, <1>4, <1>6, <1>7, <2>1, EndJoined
    <2>3. fed' \o inArea' = fetched'
      BY <1>6 DEF Source!Inv, Source!SourceInOrder
    <2> QED  BY <2>2, <2>3 DEF InputInOrder, IsEnd
  <1>9. incoming' \in Seq(Nat)
    BY <1>3, <1>4, <1>7, ConcatProperties
  <1>10. SSL!TypeOK' /\ Sink!Inv'
    <2>1. SSL!TypeOK'
      BY <1>1, <1>2, <1>9 DEF SSL!TypeOK, peer
    <2> QED  BY <1>1, <1>2, <2>1, SinkKept
  <1>11. LocalType' /\ Control'
    <2>1. UNCHANGED peer /\ UNCHANGED outgoing
      BY <1>2
    <2> QED  BY <1>1, <1>2, <2>1, RoundEnds
  <1>12. OutputInOrder' /\ CloseFits'
    BY <1>1, <1>2 DEF OutputInOrder, CloseFits, sinkVars, peer
  <1> QED  BY <1>6, <1>8, <1>10, <1>11, <1>12, Parts

-----------------------------------------------------------------------------
(* The engine starts with nothing anywhere. *)
LEMMA EngineInit == Init => EngineInv
  <1> SUFFICES ASSUME Init PROVE EngineInv
    OBVIOUS
  <1>1. Sink!Inv /\ Source!Inv
    <2>1. SinkFacts!Init /\ SourceFacts!Init
      BY DEF Init, Sink!Init, Source!Init, SinkFacts!Init, SourceFacts!Init
    <2> QED  BY <2>1, BufferSizes, SinkSame, SourceSame, SinkFacts!InitInv, SourceFacts!InitInv
  <1>2. /\ MaxOut \in Nat /\ MaxOut > 0 /\ MaxCall \in Nat
        /\ <<>> \in Seq(Nat) /\ Len(<<>>) = 0
    BY EngineAssumption, EmptySeq
  <1>3. LocalType /\ Control
    BY <1>2 DEF Init, LocalType, Calls, Control, Drained, SuccessIsSent, StepKeepsPromise,
                NothingReportedYet, ReturnsFinished, SSL!Init, Sink!Init
  <1>4. SSL!TypeOK /\ CloseFits
    <2>1. /\ hs = "init" /\ sentClose = FALSE /\ recvClose = FALSE
          /\ want_read = FALSE /\ errno = FALSE
          /\ outgoing = <<>> /\ incoming = <<>> /\ produced = 0
          /\ rc = [code |-> "none", n |-> 0]
      BY DEF Init, SSL!Init
    <2>2. rc \in [code : {"none", "want_read", "want_write", "syscall", "ssl",
                         "zero_return"}, n : Nat]
      BY <2>1
    <2>3. produced \in 0..MaxOut /\ CloseFits
      BY <1>2, <2>1 DEF CloseFits
    <2> QED  BY <1>2, <2>1, <2>2, <2>3 DEF SSL!TypeOK
  <1>5. OutputInOrder
    <2>1. [i \in 1..0 |-> i] = <<>>
      BY EmptySeq
    <2> QED
      BY <1>2, <2>1, ConcatEmptySeq DEF Init, Sink!Init, SSL!Init, OutputInOrder
  <1>6. InputInOrder
    <2>1. IsEnd(<<>>, <<>>) /\ <<>> \o <<>> = <<>>
      BY <1>2, TrivialEnds, ConcatEmptySeq
    <2> QED  BY <2>1 DEF Init, Source!Init, SSL!Init, InputInOrder, IsEnd
  <1> QED  BY <1>1, <1>3, <1>4, <1>5, <1>6, Parts

(* Every step keeps the invariant. *)
LEMMA EngineNext == EngineInv /\ [Next]_vars => EngineInv'
  <1> SUFFICES ASSUME EngineInv, [Next]_vars PROVE EngineInv'
    OBVIOUS
  <1>1. CASE UNCHANGED vars
    <2>1. /\ LocalType /\ SSL!TypeOK /\ Sink!Inv /\ Source!Inv
          /\ OutputInOrder /\ InputInOrder /\ CloseFits /\ Control
      BY Parts
    <2>2. /\ UNCHANGED local /\ UNCHANGED sslVars
          /\ UNCHANGED sinkVars /\ UNCHANGED sourceVars
      BY <1>1 DEF vars
    <2>3. LocalType'
      BY <2>1, <2>2 DEF LocalType, local
    <2>4. SSL!TypeOK' /\ Sink!Inv' /\ Source!Inv'
      <3>1. errno' \in BOOLEAN
            /\ UNCHANGED <<peer, want_read, outgoing, incoming, produced, rc>>
        BY <2>1, <2>2 DEF SSL!TypeOK, sslVars
      <3> QED  BY <2>1, <2>2, <3>1, SslKept, SinkKept, SourceKept
    <2>5. OutputInOrder' /\ InputInOrder' /\ CloseFits'
      BY <2>1, <2>2
         DEF OutputInOrder, InputInOrder, CloseFits, sslVars, sinkVars, sourceVars, peer
    <2>6. Control'
      BY <2>1, <2>2
         DEF Control, Drained, SuccessIsSent, StepKeepsPromise, NothingReportedYet,
             ReturnsFinished, local, sslVars, sinkVars, peer
    <2> QED  BY <2>3, <2>4, <2>5, <2>6, Parts
  <1> QED
    BY <1>1, BeginInv, OneStepInv, PrepareOutputInv, CommitOutputInv, AskInputInv,
       FeedInputInv DEF Next, Run

(* The inductive invariant holds throughout, whatever OpenSSL, the stream  *)
(* and the callers of run() do.                                            *)
THEOREM EngineInvariance == Spec => []EngineInv
  BY EngineInit, EngineNext, PTL DEF Spec

(* Every byte OpenSSL emits is on its way once and in order, however the   *)
(* writes of flush_io fall short, fail or are repeated by a later call.    *)
THEOREM OutputCorrect == Spec => []OutputInOrder
  <1>1. EngineInv => OutputInOrder
    BY DEF EngineInv
  <1> QED  BY <1>1, EngineInvariance, PTL

(* OpenSSL is fed what the peer sent, once and in order, however little of *)
(* a view BIO_write takes.                                                 *)
THEOREM InputCorrect == Spec => []InputInOrder
  <1>1. EngineInv => InputInOrder
    BY DEF EngineInv
  <1> QED  BY <1>1, EngineInvariance, PTL

(* The loop of flush_io sends all there is before it asks for input: the   *)
(* engine does not wait for a peer that waits for the engine.              *)
THEOREM NoWaitCorrect == Spec => []NoWaitWhileOutputUnsent
  <1>1. EngineInv => NoWaitWhileOutputUnsent
    BY DEF EngineInv, Drained, NoWaitWhileOutputUnsent
  <1> QED  BY <1>1, EngineInvariance, PTL

(* run() returns success only after flush_io has sent everything.          *)
THEOREM SentCorrect == Spec => []SuccessIsSent
  <1>1. EngineInv => SuccessIsSent
    BY DEF EngineInv
  <1> QED  BY <1>1, EngineInvariance, PTL

(* A shutdown that reports success has put close_notify into the pair,     *)
(* although one_step takes SSL_shutdown's answer of 0 for an error of the  *)
(* system that is none.                                                    *)
THEOREM CloseCorrect == Spec => []ShutdownSendsClose
  <1>1. EngineInv => ShutdownSendsClose
    BY DEF EngineInv, StepKeepsPromise, ReturnsFinished, ShutdownSendsClose
  <1> QED  BY <1>1, EngineInvariance, PTL

(* On a live connection no read or write of a nonempty buffer reports both *)
(* no error and no bytes, which the transfer loop takes for the end.       *)
THEOREM NoStallCorrect == Spec => []NoSilentStall
  <1>1. EngineInv => NoSilentStall
    <2>1. call \in Calls => call.size \in Nat
      BY EngineAssumption DEF Calls
    <2>2. call \in Calls /\ call.op = "read" /\ call.size = 0 => ~(call.size > 0)
      OBVIOUS
    <2> QED
      BY <2>1, <2>2 DEF EngineInv, TypeOK, StepKeepsPromise, ReturnsFinished, NoSilentStall
  <1> QED  BY <1>1, EngineInvariance, PTL

-----------------------------------------------------------------------------
(* What waits in the pair are the numbers behind those that were committed *)
(* to the sink, up to the last byte produced.                              *)
LEMMA PairContinues ==
    ASSUME EngineInv
    PROVE  /\ outgoing \in Seq(Nat) /\ Len(accepted) \in Nat /\ Len(outgoing) \in Nat
           /\ Len(accepted) + Len(outgoing) = produced /\ produced \in 0..MaxOut
           /\ \A i \in 1..Len(outgoing) : outgoing[i] = Len(accepted) + i
  <1>1. /\ outgoing \in Seq(Nat) /\ accepted \in Seq(Nat) /\ produced \in 0..MaxOut
        /\ sent \o outArea = accepted /\ produced \in Nat
    BY EngineAssumption
       DEF EngineInv, TypeOK, SSL!TypeOK, Sink!TypeOK, Sink!Inv, Sink!SinkInOrder
  <1>2. Len(accepted) \in Nat /\ Len(outgoing) \in Nat
    BY <1>1, LenProperties
  <1>3. accepted \o outgoing = Count(produced)
    BY <1>1 DEF EngineInv, OutputInOrder, Count
  <1>4. Len(Count(produced)) = produced /\ \A i \in 1..produced : Count(produced)[i] = i
    <2>1. Count(produced) \in [1..produced -> Nat]
      BY <1>1 DEF Count
    <2> QED  BY <1>1, <2>1 DEF Count
  <1>5. /\ Len(accepted \o outgoing) = Len(accepted) + Len(outgoing)
        /\ \A i \in 1..(Len(accepted) + Len(outgoing)) :
              (accepted \o outgoing)[i] = IF i <= Len(accepted) THEN accepted[i]
                                          ELSE outgoing[i - Len(accepted)]
    BY <1>1, ConcatProperties
  <1>6. Len(accepted) + Len(outgoing) = produced
    BY <1>3, <1>4, <1>5
  <1>7. ASSUME NEW i \in 1..Len(outgoing)  PROVE outgoing[i] = Len(accepted) + i
    <2> DEFINE j == Len(accepted) + i
    <2>1. j \in 1..produced /\ ~(j <= Len(accepted)) /\ j - Len(accepted) = i
      BY <1>2, <1>6
    <2> HIDE DEF j
    <2>2. (accepted \o outgoing)[j] = outgoing[i]
      BY <1>5, <1>6, <2>1
    <2> QED  BY <1>3, <1>4, <2>1, <2>2 DEF j
  <1> QED  BY <1>1, <1>2, <1>6, <1>7

(* The front of the pair is what the sink takes for the producer's next    *)
(* bytes.                                                                  *)
LEMMA PairIsFresh ==
    ASSUME EngineInv, NEW n \in 0..Len(outgoing)
    PROVE  SubSeq(outgoing, 1, n) = Sink!Fresh(n)
  <1>1. /\ outgoing \in Seq(Nat) /\ Len(accepted) \in Nat /\ Len(outgoing) \in Nat
        /\ \A i \in 1..Len(outgoing) : outgoing[i] = Len(accepted) + i
    BY PairContinues
  <1>2. SubSeq(outgoing, 1, n) \in Seq(Nat) /\ Len(SubSeq(outgoing, 1, n)) = n
    BY <1>1, CutAndJoin
  <1>3. Sink!Fresh(n) = CountOn(Len(accepted), n)
    BY DEF Sink!Fresh, CountOn
  <1>4. Sink!Fresh(n) \in Seq(Nat) /\ Len(Sink!Fresh(n)) = n
    BY <1>1, <1>3, CountType
  <1>5. ASSUME NEW i \in 1..n  PROVE SubSeq(outgoing, 1, n)[i] = Sink!Fresh(n)[i]
    <2>1. SubSeq(outgoing, 1, n)[i] = outgoing[i]
      BY <1>1
    <2>2. Sink!Fresh(n)[i] = Len(accepted) + i
      BY DEF Sink!Fresh
    <2> QED  BY <1>1, <2>1, <2>2
  <1> QED  BY <1>2, <1>4, <1>5, SeqEqual

(* Every step of the engine is one of its sink, or leaves it alone. *)
LEMMA SinkDriven == EngineInv /\ [Next]_vars => [Sink!Next]_(Sink!vars)
  <1> SUFFICES ASSUME EngineInv, [Next]_vars  PROVE [Sink!Next]_(Sink!vars)
    OBVIOUS
  <1>1. ASSUME UNCHANGED sinkVars  PROVE [Sink!Next]_(Sink!vars)
    BY <1>1 DEF sinkVars, Sink!vars
  <1>2. /\ Len(accepted) \in Nat /\ Len(outgoing) \in Nat /\ outgoing \in Seq(Nat)
        /\ Len(accepted) + Len(outgoing) <= MaxOut /\ MaxOut \in Nat
    BY PairContinues, EngineAssumption
  <1>3. CASE PrepareOutput
    <2>1. CASE outgoing = <<>>
      BY <1>1, <1>3, <2>1 DEF PrepareOutput
    <2>2. CASE outgoing # <<>>
      <3>1. Len(outgoing) \in 1..MaxOut
        BY <1>2, <2>2, EmptySeq
      <3>2. Sink!Prepare(Len(outgoing))
        BY <1>3, <2>2 DEF PrepareOutput
      <3> QED  BY <3>1, <3>2 DEF Sink!Next
    <2> QED  BY <2>1, <2>2
  <1>4. CASE CommitOutput
    <2>1. PICK n \in 1..outRoom :
            n <= Len(outgoing) /\ Sink!Commit(SubSeq(outgoing, 1, n))
      BY <1>4 DEF CommitOutput, Committed
    <2>2. outRoom \in Nat
      BY EngineAssumption DEF EngineInv, Sink!Inv, Sink!TypeOK
    <2>3. n \in 0..outRoom /\ n \in 0..Len(outgoing) /\ Len(accepted) + n <= MaxOut
      BY <1>2, <2>1, <2>2
    <2>4. Sink!Commit(Sink!Fresh(n))
      BY <2>1, <2>3, PairIsFresh
    <2> QED  BY <2>3, <2>4 DEF Sink!Next
  <1>5. CASE OneStep \/ AskInput \/ FeedInput
    BY <1>1, <1>5 DEF OneStep, AskInput, FeedInput
  <1>6. ASSUME NEW c \in Calls, Begin(c)  PROVE [Sink!Next]_(Sink!vars)
    BY <1>1, <1>6 DEF Begin
  <1>7. CASE UNCHANGED vars
    BY <1>1, <1>7 DEF vars
  <1> QED  BY <1>3, <1>4, <1>5, <1>6, <1>7 DEF Next, Run

(* The same of its source. *)
LEMMA SourceDriven == EngineInv /\ [Next]_vars => [Source!Next]_(Source!vars)
  <1> SUFFICES ASSUME EngineInv, [Next]_vars  PROVE [Source!Next]_(Source!vars)
    OBVIOUS
  <1>1. ASSUME UNCHANGED sourceVars  PROVE [Source!Next]_(Source!vars)
    BY <1>1 DEF sourceVars, Source!vars
  <1>2. CASE AskInput
    <2>1. CASE want_read
      <3>1. InChunk \in 1..(2 * InChunk)
        BY EngineAssumption
      <3>2. Source!NextBytes(InChunk)
        BY <1>2, <2>1 DEF AskInput
      <3> QED  BY <3>1, <3>2 DEF Source!Next
    <2>2. CASE ~want_read
      BY <1>1, <1>2, <2>2 DEF AskInput
    <2> QED  BY <2>1, <2>2
  <1>3. CASE FeedInput
    <2>1. PICK n \in 1..inView : Source!Consume(n)
      BY <1>3 DEF FeedInput, Consumed
    <2>2. n \in 0..inView
      OBVIOUS
    <2> QED  BY <2>1, <2>2 DEF Source!Next
  <1>4. CASE OneStep \/ PrepareOutput \/ CommitOutput
    BY <1>1, <1>4 DEF OneStep, PrepareOutput, CommitOutput
  <1>5. ASSUME NEW c \in Calls, Begin(c)  PROVE [Source!Next]_(Source!vars)
    BY <1>1, <1>5 DEF Begin
  <1>6. CASE UNCHANGED vars
    BY <1>1, <1>6 DEF vars
  <1> QED  BY <1>2, <1>3, <1>4, <1>5, <1>6 DEF Next, Run

(* The engine implements the specifications of both of its buffers: every  *)
(* step is a use of the sink and of the source that their modules allow.   *)
THEOREM BuffersCorrect == Spec => DrivesItsBuffers
  <1>1. Init => Sink!Init /\ Source!Init
    BY DEF Init
  <1> QED
    BY <1>1, SinkDriven, SourceDriven, EngineInvariance, PTL
       DEF Spec, DrivesItsBuffers, Sink!Spec, Source!Spec

(* The proofs about the buffers are about these specifications.            *)
LEMMA SinkSpecSame == Sink!Spec => SinkFacts!Spec
  <1>1. Sink!Init => SinkFacts!Init
    BY DEF Sink!Init, SinkFacts!Init
  <1>2. Sink!Next => SinkFacts!Next
    BY DEF Sink!Next, SinkFacts!Next, Sink!Prepare, SinkFacts!Prepare, Sink!Room,
           SinkFacts!Room, Sink!Fresh, SinkFacts!Fresh, Sink!Commit, SinkFacts!Commit,
           Sink!Offer, SinkFacts!Offer, Sink!Left, SinkFacts!Left,
           Sink!WriteResults, SinkFacts!WriteResults
  <1> QED  BY <1>1, <1>2, PTL DEF Sink!Spec, SinkFacts!Spec, Sink!vars, SinkFacts!vars

LEMMA SourceSpecSame == Source!Spec => SourceFacts!Spec
  <1>1. Source!Init => SourceFacts!Init
    BY DEF Source!Init, SourceFacts!Init
  <1>2. Source!Next => SourceFacts!Next
    BY DEF Source!Next, SourceFacts!Next, Source!NextBytes, SourceFacts!NextBytes,
           Source!ShowBuffered, SourceFacts!ShowBuffered, Source!ReadMore,
           SourceFacts!ReadMore, Source!NeedsRead, SourceFacts!NeedsRead, Source!Keep,
           SourceFacts!Keep, Source!Room, SourceFacts!Room, Source!Consume,
           SourceFacts!Consume, Source!Drop, SourceFacts!Drop
  <1> QED  BY <1>1, <1>2, PTL DEF Source!Spec, SourceFacts!Spec, Source!vars, SourceFacts!vars

(* So the engine is a byte pipe in both directions, from OpenSSL to the    *)
(* stream and from the stream to OpenSSL.                                  *)
THEOREM EngineIsPipe == Spec => Sink!ImplementsPipe /\ Source!ImplementsPipe
  <1>1. SinkFacts!Spec => SinkFacts!ImplementsPipe
    BY BufferSizes, SinkFacts!SinkIsPipe
  <1>2. SourceFacts!Spec => SourceFacts!ImplementsPipe
    BY BufferSizes, SourceFacts!SourceIsPipe
  <1>3. SinkFacts!ImplementsPipe => Sink!ImplementsPipe
    <2>1. SinkFacts!Pipe!Transfer => Sink!Pipe!Transfer
      BY DEF SinkFacts!Pipe!Transfer, Sink!Pipe!Transfer, SinkFacts!Pipe!IsPrefix, Sink!Pipe!IsPrefix
    <2>2. SinkFacts!Pipe!Init => Sink!Pipe!Init
      BY DEF SinkFacts!Pipe!Init, Sink!Pipe!Init
    <2> QED
      BY <2>1, <2>2, PTL
         DEF SinkFacts!ImplementsPipe, Sink!ImplementsPipe, SinkFacts!Pipe!Spec, Sink!Pipe!Spec,
             SinkFacts!Pipe!vars, Sink!Pipe!vars
  <1>4. SourceFacts!ImplementsPipe => Source!ImplementsPipe
    <2>1. SourceFacts!Pipe!Transfer => Source!Pipe!Transfer
      BY DEF SourceFacts!Pipe!Transfer, Source!Pipe!Transfer, SourceFacts!Pipe!IsPrefix, Source!Pipe!IsPrefix
    <2>2. SourceFacts!Pipe!Init => Source!Pipe!Init
      BY DEF SourceFacts!Pipe!Init, Source!Pipe!Init
    <2> QED
      BY <2>1, <2>2, PTL
         DEF SourceFacts!ImplementsPipe, Source!ImplementsPipe, SourceFacts!Pipe!Spec, Source!Pipe!Spec,
             SourceFacts!Pipe!vars, Source!Pipe!vars
  <1> QED
    BY <1>1, <1>2, <1>3, <1>4, SinkSpecSame, SourceSpecSame, BuffersCorrect, PTL
       DEF DrivesItsBuffers
=============================================================================
