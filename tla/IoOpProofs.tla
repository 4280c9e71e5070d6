----------------------------- MODULE IoOpProofs -----------------------------
(***************************************************************************)
(* Proofs about the transfer loop of IoOp and the streams of Streams, for  *)
(* every buffer length and every width of size_t, DWORD and dynamic buffer.*)
(***************************************************************************)
EXTENDS Streams, SequenceTheorems, TLAPS

(* A row of positions is a sequence of them. *)
LEMMA PositionsType ==
    ASSUME NEW n \in Nat, NEW m \in Nat, n <= m
    PROVE  Positions(n) \in Seq(1..m) /\ Len(Positions(n)) = n
  <1>1. Positions(n) \in [1..n -> 1..m]
    BY DEF Positions
  <1> QED  BY <1>1

(* The first n positions of a buffer, followed by the next k, are the      *)
(* first n + k.                                                            *)
LEMMA PositionsConcat ==
    ASSUME NEW n \in Nat, NEW k \in Nat
    PROVE  Positions(n) \o [i \in 1..k |-> n + i] = Positions(n + k)
  <1> USE DEF Positions
  <1> DEFINE s == [i \in 1..n |-> i]
             t == [i \in 1..k |-> n + i]
  <1>1. s \in Seq(Nat) /\ t \in Seq(Nat) /\ Len(s) = n /\ Len(t) = k
    OBVIOUS
  <1>2. s \o t = [i \in 1..(n + k) |-> IF i <= n THEN s[i] ELSE t[i - n]]
    BY <1>1
  <1>3. \A i \in 1..(n + k) : (IF i <= n THEN s[i] ELSE t[i - n]) = i
    OBVIOUS
  <1> QED  BY <1>2, <1>3

(* A shorter row of positions is a prefix of a longer one. *)
LEMMA PositionsPrefix ==
    ASSUME NEW m \in Nat, NEW n \in Nat, m <= n
    PROVE  IsPrefix(Positions(m), Positions(n))
  <1> DEFINE s == Positions(m)
             t == Positions(n)
  <1>1. s \in Seq(Nat) /\ t \in Seq(Nat) /\ Len(s) = m /\ Len(t) = n
    BY DEF Positions
  <1>2. SubSeq(s, 1, m) = Positions(m)
    BY <1>1 DEF Positions
  <1>3. SubSeq(t, 1, m) = Positions(m)
    BY <1>1 DEF Positions
  <1> QED  BY <1>1, <1>2, <1>3 DEF IsPrefix

(* The invariant holds before the first pass of the loop. *)
LEMMA InitInv == Init => Inv
  <1> SUFFICES ASSUME Init PROVE Inv
    OBVIOUS
  <1> USE BoundsAssumption DEF Init, StartOfCall
  <1>1. TypeOK
    <2>1. stream \in Seq(1..MaxLen)
      BY EmptySeq
    <2>2. res_acc \in [bytes_transferred : 0..MaxLen, error : BOOLEAN]
      OBVIOUS
    <2> QED  BY <2>1, <2>2 DEF TypeOK
  <1>2. stream = Positions(0)
    BY DEF Positions
  <1>3. CountMatchesStream
    BY <1>2 DEF CountMatchesStream
  <1>4. ConsumerInStep
    BY DEF ConsumerInStep
  <1>5. ChunkInBounds /\ ExactlyNeverOvershoots /\ ReturnsForAReason
    BY DEF ChunkInBounds, ExactlyNeverOvershoots, ReturnsForAReason, Conditions
  <1> QED
    BY <1>1, <1>3, <1>4, <1>5 DEF Inv

(* Asking the completion condition keeps the invariant: the chunk it leads *)
(* to lies within the buffer and, under transfer_exactly, within the size. *)
LEMMA CheckConditionInv == Inv /\ CheckCondition => Inv'
  <1> SUFFICES ASSUME Inv, CheckCondition PROVE Inv'
    OBVIOUS
  <1> USE BoundsAssumption
  <1>0. /\ TypeOK /\ pc = "check"
        /\ UNCHANGED <<total, base, cond, consumed, res_acc, stream, stalled, failed>>
    BY DEF Inv, CheckCondition
  <1>1. PICK req \in Request(cond, res_acc) :
           IF req = 0
           THEN pc' = "done" /\ UNCHANGED next_out
           ELSE pc' = "op" /\ next_out' \in Chunks(req)
    BY DEF CheckCondition
  <1>2. Remaining \in Nat /\ Remaining <= MaxLen /\ Remaining' = Remaining
    BY <1>0 DEF Inv, TypeOK, Remaining, CountMatchesStream, ConsumerInStep
  <1>3. req \in Nat /\ (cond.kind = "all" => req = SizeMax)
                    /\ (cond.kind = "exactly" => req = cond.size - res_acc.bytes_transferred)
    BY <1>0 DEF Inv, TypeOK, Request, SizeSub, ExactlyNeverOvershoots, Conditions, Size
  <1>4. CountMatchesStream' /\ ExactlyNeverOvershoots'
    BY <1>0 DEF Inv, CountMatchesStream, ExactlyNeverOvershoots
  <1>5. ConsumerInStep'
    BY <1>0, <1>1 DEF Inv, ConsumerInStep
  <1>6. CASE req = 0
    <2>1. pc' = "done" /\ next_out' = next_out
      BY <1>1, <1>6
    <2>2. TypeOK' /\ ChunkInBounds'
      BY <1>0, <2>1 DEF Inv, TypeOK, ChunkInBounds
    <2>3. ReturnsForAReason'
      BY <1>0, <1>3, <1>6, <2>1
         DEF Inv, ReturnsForAReason, ConsumerInStep, TypeOK, Conditions
    <2> QED  BY <1>4, <1>5, <2>2, <2>3 DEF Inv
  <1>7. CASE req # 0
    <2>1. /\ pc' = "op" /\ next_out' \in 0..Remaining
          /\ next_out' = 0 => Remaining = 0
          /\ next_out' <= req
      BY <1>1, <1>2, <1>3, <1>7 DEF Chunks
    <2>2. TypeOK'
      BY <1>0, <1>2, <2>1 DEF TypeOK
    <2>3. ChunkInBounds' /\ ReturnsForAReason'
      BY <1>0, <1>2, <1>3, <2>1 DEF ChunkInBounds, ReturnsForAReason
    <2> QED  BY <1>4, <1>5, <2>2, <2>3 DEF Inv
  <1> QED  BY <1>6, <1>7

(* An operation keeps the invariant: what it moved is what the count grew  *)
(* by, and it continues the stream where the consumer stood.               *)
LEMMA OperateInv == Inv /\ Operate => Inv'
  <1> SUFFICES ASSUME Inv, Operate PROVE Inv'
    OBVIOUS
  <1> USE BoundsAssumption
  <1>0. TypeOK /\ pc = "op" /\ next_out > 0 /\ next_out' = 0
        /\ UNCHANGED <<total, base, cond>>
    BY DEF Inv, Operate, Transfer
  <1> DEFINE bytes == res_acc.bytes_transferred
  <1>1. PICK n \in 0..next_out, error \in BOOLEAN :
          LET op  == [bytes_transferred |-> n, error |-> error]
              sum == SumTransferResult(res_acc, op)
              n_transferred == Growth(sum, res_acc)
          IN  /\ res_acc' = sum
              /\ stream' = stream \o [i \in 1..n |-> base + consumed + i]
              /\ consumed' = consumed + n_transferred
              /\ pc' = AfterOp(sum, n_transferred)
              /\ failed' = (failed \/ error)
              /\ stalled' = (n = 0)
    BY DEF Operate, Transfer
  <1>2. bytes \in Nat /\ n \in Nat /\ base \in Nat /\ total \in Nat /\ consumed = bytes
        /\ base + bytes + n \in Nat /\ base + bytes + n <= total /\ total <= MaxLen
        /\ next_out \in Nat /\ base + bytes + next_out <= total
        /\ ~failed /\ ~stalled
    BY <1>0 DEF Inv, TypeOK, ConsumerInStep, ChunkInBounds, Remaining
  <1>3. res_acc' = [bytes_transferred |-> n + bytes, error |-> error]
    BY <1>1 DEF SumTransferResult
  <1>4. /\ consumed' = bytes + n
        /\ pc' = (IF error \/ n = 0 THEN "done" ELSE "check")
        /\ failed' = error /\ stalled' = (n = 0)
    BY <1>1, <1>2 DEF SumTransferResult, Growth, SizeSub, AfterOp
  <1>5. stream' = Positions(base + bytes + n)
    <2>1. stream = Positions(base + bytes)
      BY DEF Inv, CountMatchesStream
    <2>2. stream' = stream \o [i \in 1..n |-> base + bytes + i]
      BY <1>1, <1>2
    <2>3. base + bytes \in Nat
      BY <1>2
    <2> QED  BY <2>1, <2>2, <2>3, <1>2, PositionsConcat
  <1>6. CountMatchesStream'
    <2>1. base' + res_acc'.bytes_transferred = base + bytes + n
      BY <1>0, <1>2, <1>3
    <2>2. stream' = Positions(base' + res_acc'.bytes_transferred)
      BY <1>5, <2>1
    <2>3. base' + res_acc'.bytes_transferred <= total'
      BY <1>0, <1>2, <2>1
    <2> QED  BY <2>2, <2>3 DEF CountMatchesStream
  <1>7. stream' \in Seq(1..MaxLen)
    BY <1>2, <1>5, PositionsType
  <1>8. TypeOK'
    <2>1. res_acc' \in [bytes_transferred : 0..MaxLen, error : BOOLEAN]
      BY <1>2, <1>3
    <2>2. stalled' \in BOOLEAN /\ failed' \in BOOLEAN
      BY <1>4
    <2>3. pc' \in {"check", "op", "done"} /\ consumed' \in 0..MaxLen /\ next_out' \in 0..MaxLen
      BY <1>0, <1>2, <1>4
    <2> QED  BY <1>0, <1>7, <2>1, <2>2, <2>3 DEF TypeOK
  <1>9. ConsumerInStep' /\ ChunkInBounds'
    BY <1>0, <1>2, <1>3, <1>4 DEF ConsumerInStep, ChunkInBounds
  <1>10. ExactlyNeverOvershoots'
    BY <1>0, <1>2, <1>3 DEF Inv, ExactlyNeverOvershoots, ChunkInBounds, TypeOK, Conditions
  <1>11. ReturnsForAReason'
    BY <1>0, <1>3, <1>4 DEF ReturnsForAReason
  <1> QED  BY <1>6, <1>8, <1>9, <1>10, <1>11 DEF Inv

(* Finding the buffer used up keeps the invariant. *)
LEMMA ExhaustedInv == Inv /\ Exhausted => Inv'
  <1> SUFFICES ASSUME Inv, Exhausted PROVE Inv'
    OBVIOUS
  <1> USE BoundsAssumption DEF Exhausted, AfterNothing
  <1>1. TypeOK' /\ ConsumerInStep' /\ ChunkInBounds'
    BY DEF Inv, TypeOK, ConsumerInStep, ChunkInBounds
  <1>2. CountMatchesStream' /\ ExactlyNeverOvershoots'
    BY DEF Inv, CountMatchesStream, ExactlyNeverOvershoots
  <1>3. ReturnsForAReason'
    BY DEF Inv, ReturnsForAReason, ConsumerInStep, ChunkInBounds, Remaining, TypeOK
  <1> QED  BY <1>1, <1>2, <1>3 DEF Inv

(* A further call starts behind the bytes the last one reported. *)
LEMMA NextCallInv == Inv /\ NextCall => Inv'
  <1> SUFFICES ASSUME Inv, NextCall PROVE Inv'
    OBVIOUS
  <1> USE BoundsAssumption DEF NextCall
  <1>0. /\ base + res_acc.bytes_transferred \in 0..MaxLen
        /\ base' + res_acc'.bytes_transferred = base + res_acc.bytes_transferred
        /\ total' = total /\ stream' = stream
    BY DEF Inv, TypeOK, CountMatchesStream
  <1>1. TypeOK'
    <2>1. res_acc' \in [bytes_transferred : 0..MaxLen, error : BOOLEAN]
      OBVIOUS
    <2>2. stalled' \in BOOLEAN /\ failed' \in BOOLEAN
      OBVIOUS
    <2> QED  BY <1>0, <2>1, <2>2 DEF Inv, TypeOK
  <1>2. CountMatchesStream'
    <2>1. stream' = Positions(base' + res_acc'.bytes_transferred)
      BY <1>0 DEF Inv, CountMatchesStream
    <2> QED  BY <1>0, <2>1 DEF Inv, CountMatchesStream
  <1>3. ConsumerInStep'
    BY DEF ConsumerInStep
  <1>4. ChunkInBounds' /\ ExactlyNeverOvershoots' /\ ReturnsForAReason'
    BY DEF ChunkInBounds, ExactlyNeverOvershoots, ReturnsForAReason, Conditions
  <1> QED  BY <1>1, <1>2, <1>3, <1>4 DEF Inv

(* Every step of the loop and of its caller keeps the invariant. *)
LEMMA NextInv == Inv /\ [Next]_vars => Inv'
  <1> SUFFICES ASSUME Inv, [Next]_vars PROVE Inv'
    OBVIOUS
  <1>1. CASE CheckCondition  BY <1>1, CheckConditionInv
  <1>2. CASE Operate         BY <1>2, OperateInv
  <1>3. CASE Exhausted       BY <1>3, ExhaustedInv
  <1>4. CASE NextCall        BY <1>4, NextCallInv
  <1>5. CASE UNCHANGED vars
    BY <1>5 DEF vars, Inv, TypeOK, ConsumerInStep, ChunkInBounds, Remaining,
                CountMatchesStream, ExactlyNeverOvershoots, ReturnsForAReason
  <1> QED  BY <1>1, <1>2, <1>3, <1>4, <1>5 DEF Next, Loop

(* The inductive invariant holds throughout. *)
THEOREM Invariance == Spec => []Inv
  BY InitInv, NextInv, PTL DEF Spec

(* The variables keep the types the code gives them. *)
THEOREM TypeCorrect == Spec => []TypeOK
  <1>1. Inv => TypeOK
    BY DEF Inv
  <1> QED  BY <1>1, Invariance, PTL

(* The reported count is what reached the stream, in order, each byte      *)
(* once, across short counts, errors and continued calls.                  *)
THEOREM CountCorrect == Spec => []CountMatchesStream
  <1>1. Inv => CountMatchesStream
    BY DEF Inv
  <1> QED  BY <1>1, Invariance, PTL

(* transfer_exactly never overshoots, whatever the width of size_t. *)
THEOREM ExactCorrect == Spec => []ExactlyNeverOvershoots
  <1>1. Inv => ExactlyNeverOvershoots
    BY DEF Inv
  <1> QED  BY <1>1, Invariance, PTL

(* A call returns complete, with its error, or after an idle operation. *)
THEOREM ReturnCorrect == Spec => []ReturnsForAReason
  <1>1. Inv => ReturnsForAReason
    BY DEF Inv
  <1> QED  BY <1>1, Invariance, PTL

(* Every step of the loop is a step of the byte pipe or a stutter. *)
LEMMA StepIsTransfer == Inv /\ Inv' /\ [Next]_vars => Pipe!Transfer
  <1> SUFFICES ASSUME Inv, Inv', [Next]_vars PROVE Pipe!Transfer
    OBVIOUS
  <1> DEFINE m == base + res_acc.bytes_transferred
             n == base' + res_acc'.bytes_transferred
  <1>1. m \in Nat /\ n \in Nat /\ total \in Nat /\ total' = total /\ m <= n /\ n <= total
    <2>1. m \in Nat /\ n \in Nat /\ total \in Nat /\ n <= total'
      BY DEF Inv, TypeOK, CountMatchesStream
    <2>2. total' = total
      BY DEF Next, Loop, CheckCondition, Operate, Transfer, Exhausted, NextCall, vars
    <2>3. m <= n
      <3>1. CASE Operate
        BY <3>1 DEF Operate, Transfer, SumTransferResult, Inv, TypeOK
      <3>2. CASE NextCall
        BY <3>2, <2>1 DEF NextCall
      <3>3. CASE CheckCondition \/ Exhausted \/ UNCHANGED vars
        BY <3>3, <2>1 DEF CheckCondition, Exhausted, vars
      <3> QED  BY <3>1, <3>2, <3>3 DEF Next, Loop
    <2> QED  BY <2>1, <2>2, <2>3
  <1>2. stream = Positions(m) /\ stream' = Positions(n)
    BY DEF Inv, CountMatchesStream
  <1>3. IsPrefix(stream, stream')
    BY <1>1, <1>2, PositionsPrefix
  <1>4. IsPrefix(stream', Positions(total'))
    BY <1>1, <1>2, PositionsPrefix
  <1>5. IsPrefix(Positions(total), Positions(total'))
    BY <1>1, PositionsPrefix
  <1> QED  BY <1>3, <1>4, <1>5 DEF Pipe!Transfer, Pipe!IsPrefix, IsPrefix

(* The loop, continued by its caller however often, implements the pipe. *)
THEOREM LoopIsPipe == Spec => ImplementsPipe
  <1>1. Init => Pipe!Init
    BY DEF Init, Pipe!Init
  <1> QED
    BY <1>1, StepIsTransfer, Invariance, PTL
       DEF ImplementsPipe, Pipe!Spec, Spec, Pipe!vars

-----------------------------------------------------------------------------
(* What each kind of stream answers is an answer the loop is ready for.    *)
LEMMA FdIsOperate ==
  ASSUME pc = "op", next_out > 0, FdOperates, next_out \in Nat  PROVE Operate
  <1>1. PICK n \in {-1} \union (0..next_out), errno \in {0, 5} :
          (n = -1 => errno # 0) /\ Transfer(MkResult(n, errno))
    BY DEF FdOperates
  <1>2. CASE n = -1
    <2>1. MkResult(n, errno) = [bytes_transferred |-> 0, error |-> TRUE]
      BY <1>1, <1>2 DEF MkResult, Native
    <2>2. Transfer([bytes_transferred |-> 0, error |-> TRUE])
      BY <1>1, <2>1
    <2>3. 0 \in 0..next_out
      OBVIOUS
    <2> QED  BY <2>2, <2>3, Zenon DEF Operate
  <1>3. CASE n # -1
    <2>1. MkResult(n, errno) = [bytes_transferred |-> n, error |-> FALSE]
      BY <1>1, <1>3 DEF MkResult, Native
    <2> QED  BY <1>1, <1>3, <2>1 DEF Operate
  <1> QED  BY <1>2, <1>3

LEMMA HandleIsOperate ==
  ASSUME pc = "op", next_out > 0, HandleOperates, next_out \in Nat  PROVE Operate
  <1>1. PICK n \in 0..Dword(next_out), errn \in {0, 5} : Transfer(Native(n, errn))
    BY DEF HandleOperates
  <1>2. Dword(next_out) \in Nat /\ Dword(next_out) <= next_out
    BY StreamsAssumption DEF Dword
  <1>3. n \in 0..next_out /\ (errn # 0) \in BOOLEAN
    BY <1>1, <1>2
  <1> QED  BY <1>1, <1>3 DEF Operate, Native

LEMMA DynbufIsOperate ==
  ASSUME pc = "op", next_out > 0, DynbufOperates, next_out \in Nat, left \in Nat
  PROVE  Operate
  <1> DEFINE n == IF next_out <= left THEN next_out ELSE left
  <1>1. n \in 0..next_out
    OBVIOUS
  <1>2. Transfer([bytes_transferred |-> n, error |-> FALSE])
    BY DEF DynbufOperates
  <1> QED  BY <1>1, <1>2 DEF Operate

(* Every step of the loop over one of these streams is a step of the loop  *)
(* over any stream, and keeps the reasons of an idle operation.            *)
LEMMA StreamStep ==
  ASSUME Inv, DriedOK, [StreamsNext]_streamVars
  PROVE  [Next]_vars /\ DriedOK'
  <1>0. next_out \in Nat /\ left \in 0..Capacity /\ left \in Nat
    <2>1. next_out \in 0..MaxLen /\ left \in 0..Capacity
      BY DEF Inv, TypeOK, DriedOK
    <2> QED  BY <2>1, BoundsAssumption, StreamsAssumption
  <1>1. CASE StreamOperates
    <2>0. pc = "op" /\ next_out > 0 /\ kind' = kind
      BY <1>1 DEF StreamOperates
    <2>1. CASE kind = "fd" /\ FdOperates
      <3>1. PICK n \in {-1} \union (0..next_out), errno \in {0, 5} :
              /\ n = -1 => errno # 0
              /\ Transfer(MkResult(n, errno))
              /\ dried' = IF n = 0 THEN "at the end" ELSE "no"
              /\ left' = left
        BY <2>1 DEF FdOperates
      <3>2. CASE n = -1
        <4>1. failed'
          BY <3>1, <3>2 DEF Transfer, MkResult, Native
        <4> QED  BY <1>0, <2>0, <2>1, <3>1, <4>1, FdIsOperate DEF DriedOK, Next, Loop
      <3>3. CASE n # -1
        <4>1. stalled' => n = 0
          BY <3>1, <3>3 DEF Transfer, MkResult, Native
        <4> QED  BY <1>0, <2>0, <2>1, <3>1, <4>1, FdIsOperate DEF DriedOK, Next, Loop
      <3> QED  BY <3>2, <3>3
    <2>2. CASE kind \in {"handle", "wsa"} /\ HandleOperates
      <3>1. PICK n \in 0..Dword(next_out), errn \in {0, 5} :
              /\ Transfer(Native(n, errn))
              /\ dried' = IF errn # 0 \/ n > 0 THEN "no"
                          ELSE IF Dword(next_out) = 0 THEN "asked for none" ELSE "at the end"
              /\ left' = left
        BY <2>2 DEF HandleOperates
      <3>2. (stalled' => n = 0) /\ (~failed' => errn = 0)
        BY <3>1 DEF Transfer, Native
      <3>3. stalled' /\ ~failed' => dried' \in {"asked for none", "at the end"}
        <4> SUFFICES ASSUME n = 0, errn = 0
                     PROVE  dried' \in {"asked for none", "at the end"}
          BY <3>2
        <4>1. ~(errn # 0 \/ n > 0)
          OBVIOUS
        <4> QED  BY <3>1, <4>1, Zenon
      <3> QED  BY <1>0, <2>0, <2>2, <3>1, <3>3, HandleIsOperate DEF DriedOK, Next, Loop
    <2>3. CASE kind = "dynbuf" /\ DynbufOperates
      <3> DEFINE n == IF next_out <= left THEN next_out ELSE left
      <3>1. /\ Transfer([bytes_transferred |-> n, error |-> FALSE])
            /\ left' = left - n
            /\ dried' = IF n = 0 THEN "at the end" ELSE "no"
        BY <2>3 DEF DynbufOperates
      <3>2. stalled' => n = 0
        BY <3>1 DEF Transfer
      <3>3. left' \in 0..Capacity /\ (n = 0 => left = 0)
        <4>1. left' = left - n
          BY <3>1
        <4> QED  BY <1>0, <2>0, <4>1, StreamsAssumption
      <3>4. stalled' => dried' = "at the end" /\ left' = 0
        <4> SUFFICES ASSUME n = 0  PROVE dried' = "at the end" /\ left' = 0
          BY <3>2
        <4>1. left = 0
          BY <3>3
        <4>2. left' = left - 0
          BY <3>1
        <4>3. dried' = "at the end"
          BY <3>1
        <4>4. left' = 0
          BY <4>1, <4>2
        <4> QED  BY <4>3, <4>4
      <3>5. DriedOK'
        BY <2>0, <2>3, <3>3, <3>4 DEF DriedOK, Kinds
      <3> QED  BY <1>0, <2>0, <2>3, <3>5, DynbufIsOperate DEF Next, Loop
    <2>4. CASE kind = "other" /\ Operate /\ UNCHANGED <<left, dried>>
      BY <2>0, <2>4 DEF DriedOK, Next, Loop
    <2> QED
      BY <1>1, <2>1, <2>2, <2>3, <2>4 DEF StreamOperates, WsaOperates, DriedOK, Kinds
  <1>2. CASE (CheckCondition \/ Exhausted) /\ UNCHANGED <<kind, left, dried>>
    <2>1. UNCHANGED <<kind, left, dried, stalled, failed>>
      BY <1>2 DEF CheckCondition, Exhausted
    <2> QED  BY <1>2, <2>1 DEF DriedOK, Next, Loop
  <1>3. CASE StreamNextCall
    <2>1. ~stalled' /\ kind' = kind
      BY <1>3 DEF StreamNextCall, NextCall
    <2>2. left' \in 0..Capacity
      BY <1>0, <1>3, StreamsAssumption DEF StreamNextCall
    <2> QED  BY <1>3, <2>1, <2>2 DEF DriedOK, Next, StreamNextCall
  <1>4. CASE UNCHANGED streamVars
    BY <1>4 DEF streamVars, vars, DriedOK
  <1> QED  BY <1>1, <1>2, <1>3, <1>4 DEF StreamsNext, StreamLoop

LEMMA StreamsInductive == StreamsSpec => [](Inv /\ DriedOK)
  <1>1. StreamsInit => Inv /\ DriedOK
    BY InitInv DEF StreamsInit, DriedOK, Init, StartOfCall
  <1>2. Inv /\ DriedOK /\ [StreamsNext]_streamVars => (Inv /\ DriedOK)'
    BY StreamStep, NextInv
  <1> QED  BY <1>1, <1>2, PTL DEF StreamsSpec

(* The loop over any of these streams does only what the loop over an      *)
(* arbitrary stream may do, so that all that is proved of it holds here.   *)
THEOREM StreamsAreTransfers == StreamsSpec => Init /\ [][Next]_vars
  <1>1. StreamsInit => Init
    BY DEF StreamsInit
  <1>2. Inv /\ DriedOK /\ [StreamsNext]_streamVars => [Next]_vars
    BY StreamStep
  <1> QED  BY <1>1, <1>2, StreamsInductive, PTL DEF StreamsSpec

(* A transfer that ends short and without an error has met the end of its  *)
(* stream, or, on Windows, a chunk of a multiple of 2^32 bytes.            *)
THEOREM ShortCorrect == StreamsSpec => []ShortOnlyAtEnd
  <1>1. Inv /\ DriedOK => ShortOnlyAtEnd
    <2> SUFFICES ASSUME Inv, DriedOK, pc = "done", cond.kind # "custom", kind # "other",
                        ~res_acc.error, base + res_acc.bytes_transferred < total,
                        cond.kind = "exactly" => res_acc.bytes_transferred < cond.size
                 PROVE  \/ dried = "at the end" /\ (kind = "dynbuf" => left = 0)
                        \/ dried = "asked for none" /\ kind \in {"handle", "wsa"}
      BY DEF ShortOnlyAtEnd
    <2>1. ~failed
      BY DEF Inv, ReturnsForAReason
    <2>2. base + res_acc.bytes_transferred # total
      BY DEF Inv, TypeOK
    <2>3. cond.kind = "exactly" => res_acc.bytes_transferred # cond.size
      BY DEF Inv, TypeOK, Conditions
    <2>4. stalled
      BY <2>1, <2>2, <2>3 DEF Inv, ReturnsForAReason
    <2> QED  BY <2>1, <2>4 DEF DriedOK
  <1> QED  BY <1>1, StreamsInductive, PTL
=============================================================================
