-------------------------- MODULE FileStreamProofs --------------------------
(***************************************************************************)
(* Proofs about FileStream: what each set of flags comes to, on both       *)
(* systems, for files of any length.                                       *)
(***************************************************************************)
EXTENDS FileStream, SequenceTheorems, TLAPS

Flags == {"read", "write", "append", "create", "create_exclusive",
          "no_create", "no_trunc", "trunc"}

Marks == {"old", "mine", "other", "zero"}

-----------------------------------------------------------------------------
(* What write stands for once append has been looked at. *)
Writes(flags) == "write" \in flags \/ "append" \in flags
Creates(flags) == \/ "create" \in flags \/ "create_exclusive" \in flags
                  \/ Writes(flags) /\ "no_create" \notin flags
Truncates(flags) == \/ "trunc" \in flags
                    \/ Writes(flags) /\ {"append", "no_trunc"} \intersect flags = {}

(* What the lines of default_open_flags come to, one after the other: the  *)
(* flags it returns, each by what the caller has set.                      *)
LEMMA FlagsMean ==
    ASSUME NEW flags \in OpenModes
    PROVE  LET f == DefaultOpenFlags(flags)
           IN  /\ f \in OpenModes
               /\ "read" \in f <=> "read" \in flags \/ flags = {} \/ "append" \in flags
               /\ "write" \in f <=> Writes(flags)
               /\ "append" \in f <=> "append" \in flags
               /\ "create_exclusive" \in f <=> "create_exclusive" \in flags
               /\ "create" \in f <=> Creates(flags)
               /\ "no_create" \in f <=> "no_create" \in flags \/ ~Creates(flags)
               /\ "trunc" \in f <=> Truncates(flags)
               /\ "no_trunc" \in f <=> "no_trunc" \in flags \/ ~Truncates(flags)
  <1> DEFINE f0 == With(flags, flags = {}, {"read"})
             f1 == With(f0, "append" \in f0, {"read", "write"})
             f2 == With(f1, "create_exclusive" \in f1, {"create"})
             f3 == With(f2, "write" \in f2 /\ "no_create" \notin f2, {"create"})
             f4 == With(f3, "write" \in f3 /\ {"append", "no_trunc"} \intersect f3 = {},
                        {"trunc"})
             f5 == With(f4, "create" \notin f4, {"no_create"})
             f6 == With(f5, "trunc" \notin f5, {"no_trunc"})
  <1>1. \A x : x \in f0 <=> x \in flags \/ (flags = {} /\ x = "read")
    BY DEF With
  <1>2. \A x : x \in f1 <=> x \in f0 \/ ("append" \in f0 /\ x \in {"read", "write"})
    BY DEF With
  <1>3. \A x : x \in f2 <=> x \in f1 \/ ("create_exclusive" \in f1 /\ x = "create")
    BY DEF With
  <1>4. \A x : x \in f3 <=> \/ x \in f2
                            \/ "write" \in f2 /\ "no_create" \notin f2 /\ x = "create"
    BY DEF With
  <1>5. \A x : x \in f4 <=> \/ x \in f3
                            \/ /\ "write" \in f3 /\ "append" \notin f3
                               /\ "no_trunc" \notin f3 /\ x = "trunc"
    BY DEF With
  <1>6. \A x : x \in f5 <=> x \in f4 \/ ("create" \notin f4 /\ x = "no_create")
    BY DEF With
  <1>7. \A x : x \in f6 <=> x \in f5 \/ ("trunc" \notin f5 /\ x = "no_trunc")
    BY DEF With
  <1>8. DefaultOpenFlags(flags) = f6
    BY DEF DefaultOpenFlags
  <1> HIDE DEF f0, f1, f2, f3, f4, f5, f6
  <1>9. f6 \subseteq Flags
    BY <1>1, <1>2, <1>3, <1>4, <1>5, <1>6, <1>7 DEF OpenModes, Flags
  <1>10. /\ "read" \in f6 <=> "read" \in flags \/ flags = {} \/ "append" \in flags
         /\ "append" \in f6 <=> "append" \in flags
         /\ "create_exclusive" \in f6 <=> "create_exclusive" \in flags
         /\ "write" \in f6 <=> Writes(flags)
    BY <1>1, <1>2, <1>3, <1>4, <1>5, <1>6, <1>7 DEF Writes
  <1>11. /\ "create" \in f6 <=> Creates(flags)
         /\ "no_create" \in f6 <=> "no_create" \in flags \/ ~Creates(flags)
    BY <1>1, <1>2, <1>3, <1>4, <1>5, <1>6, <1>7 DEF Writes, Creates
  <1>12. /\ "trunc" \in f6 <=> Truncates(flags)
         /\ "no_trunc" \in f6 <=> "no_trunc" \in flags \/ ~Truncates(flags)
    <2>1. {"append", "no_trunc"} \intersect flags = {}
            <=> "append" \notin flags /\ "no_trunc" \notin flags
      OBVIOUS
    <2> QED
      BY <1>1, <1>2, <1>3, <1>4, <1>5, <1>6, <1>7, <2>1 DEF Writes, Truncates
  <1> QED  BY <1>8, <1>9, <1>10, <1>11, <1>12 DEF OpenModes, Flags

(* Flags that do not conflict decide each question one way. *)
Settled(f) == /\ "trunc" \in f <=> "no_trunc" \notin f
              /\ "create" \in f <=> "no_create" \notin f

(* No flag is left open, and none is set against another. *)
LEMMA FlagsDecide ==
    ASSUME NEW flags \in OpenModes, ~Conflicting(DefaultOpenFlags(flags))
    PROVE  Settled(DefaultOpenFlags(flags))
  <1> DEFINE f == DefaultOpenFlags(flags)
  <1>1. /\ "create" \in f <=> Creates(flags)
        /\ "no_create" \in f <=> "no_create" \in flags \/ ~Creates(flags)
        /\ "trunc" \in f <=> Truncates(flags)
        /\ "no_trunc" \in f <=> "no_trunc" \in flags \/ ~Truncates(flags)
    BY FlagsMean
  <1>2. ~Conflicting(f)
    OBVIOUS
  <1> HIDE DEF f
  <1>3. Settled(f)
    BY <1>1, <1>2 DEF Settled, Conflicting
  <1> QED  BY <1>3 DEF f

(* Flags that are filled out imply nothing more. *)
LEMMA FlagsFilled ==
    ASSUME NEW flags \in OpenModes, ~Conflicting(DefaultOpenFlags(flags))
    PROVE  DefaultOpenFlags(DefaultOpenFlags(flags)) = DefaultOpenFlags(flags)
  <1> DEFINE f == DefaultOpenFlags(flags)
             g == DefaultOpenFlags(f)
  <1>1. /\ f \in OpenModes
        /\ "read" \in f <=> "read" \in flags \/ flags = {} \/ "append" \in flags
        /\ "write" \in f <=> Writes(flags)
        /\ "append" \in f <=> "append" \in flags
        /\ "create_exclusive" \in f <=> "create_exclusive" \in flags
        /\ "create" \in f <=> Creates(flags)
        /\ "no_create" \in f <=> "no_create" \in flags \/ ~Creates(flags)
        /\ "trunc" \in f <=> Truncates(flags)
        /\ "no_trunc" \in f <=> "no_trunc" \in flags \/ ~Truncates(flags)
    BY FlagsMean
  <1>2. Settled(f)
    BY FlagsDecide
  <1>3. /\ g \in OpenModes
        /\ "read" \in g <=> "read" \in f \/ f = {} \/ "append" \in f
        /\ "write" \in g <=> Writes(f)
        /\ "append" \in g <=> "append" \in f
        /\ "create_exclusive" \in g <=> "create_exclusive" \in f
        /\ "create" \in g <=> Creates(f)
        /\ "no_create" \in g <=> "no_create" \in f \/ ~Creates(f)
        /\ "trunc" \in g <=> Truncates(f)
        /\ "no_trunc" \in g <=> "no_trunc" \in f \/ ~Truncates(f)
    <2> HIDE DEF f
    <2> QED  BY <1>1, FlagsMean
  <1> HIDE DEF f, g
  <1>4. f # {}
    BY <1>2 DEF Settled
  <1>5. "read" \in g <=> "read" \in f
    BY <1>1, <1>3, <1>4
  <1>6. "write" \in g <=> "write" \in f
    BY <1>1, <1>3 DEF Writes
  <1>7. /\ "create" \in g <=> "create" \in f
        /\ "no_create" \in g <=> "no_create" \in f
    BY <1>1, <1>2, <1>3 DEF Settled, Creates, Writes
  <1>8. /\ "trunc" \in g <=> "trunc" \in f
        /\ "no_trunc" \in g <=> "no_trunc" \in f
    <2>1. Truncates(f) <=> "trunc" \in f \/ (Writes(f) /\ "append" \notin f /\ "no_trunc" \notin f)
      BY DEF Truncates
    <2> QED  BY <1>2, <1>3, <2>1 DEF Settled
  <1>9. \A x \in Flags : x \in g <=> x \in f
    BY <1>3, <1>5, <1>6, <1>7, <1>8 DEF Flags
  <1>10. g = f
    <2>1. f \subseteq Flags /\ g \subseteq Flags
      BY <1>1, <1>3 DEF OpenModes, Flags
    <2>2. \A x : x \in f <=> x \in g
      BY <1>9, <2>1
    <2> QED  BY <2>2
  <1> QED  BY <1>10 DEF f, g

-----------------------------------------------------------------------------
(* What POSIX is asked for, by the filled out flags. *)
LEMMA PosixMeans ==
    ASSUME NEW f
    PROVE  /\ "O_CREAT" \in PosixFlags(f) <=> "create" \in f \/ "create_exclusive" \in f
           /\ "O_EXCL" \in PosixFlags(f) <=> "create_exclusive" \in f
           /\ "O_TRUNC" \in PosixFlags(f) <=> "trunc" \in f
  <1> DEFINE append == With({}, "append" \in f, {"O_APPEND"})
             access == IF "read" \in f
                       THEN IF "write" \in f THEN {"O_RDWR"} ELSE {"O_RDONLY"}
                       ELSE IF "write" \in f THEN {"O_WRONLY"} ELSE append \union {"O_RDONLY"}
             trunc  == With(access, "trunc" \in f, {"O_TRUNC"})
             oflag  == IF "create_exclusive" \in f THEN trunc \union {"O_CREAT", "O_EXCL"}
                       ELSE With(trunc, "create" \in f, {"O_CREAT"})
  <1>1. \A x \in append : x = "O_APPEND"
    BY DEF With
  <1>2. \A x \in access : x \in {"O_APPEND", "O_RDWR", "O_RDONLY", "O_WRONLY"}
    <2> HIDE DEF append
    <2> QED  BY <1>1
  <1>3. \A x : x \in trunc <=> x \in access \/ ("trunc" \in f /\ x = "O_TRUNC")
    BY DEF With
  <1> HIDE DEF append, access, trunc
  <1>4. /\ "O_CREAT" \in oflag <=> "create" \in f \/ "create_exclusive" \in f
        /\ "O_EXCL" \in oflag <=> "create_exclusive" \in f
        /\ "O_TRUNC" \in oflag <=> "trunc" \in f
    BY <1>2, <1>3 DEF With
  <1>5. PosixFlags(f) = oflag
    BY DEF PosixFlags, append, access, trunc
  <1> QED  BY <1>4, <1>5

(* What the two systems may do with filled out flags: whether the open can *)
(* succeed, and what is then in the file.                                  *)
OpenOK(f) == IF file.exists THEN "create_exclusive" \notin f ELSE "create" \in f

DoesAsAsked(f, ok, data) ==
    /\ ok => OpenOK(f)
    /\ OpenOK(f) /\ ("trunc" \in f => "write" \in f) => ok
    /\ data \in {<<>>, file.data}
    /\ ~file.exists => data = <<>>
    /\ ok /\ file.exists => data = IF "trunc" \in f THEN <<>> ELSE file.data

(* What an open did is the two things it is made of. *)
LEMMA EffectFields ==
    ASSUME NEW ok, NEW data
    PROVE  Effect(ok, data).ok = ok /\ Effect(ok, data).data = data
  BY DEF Effect

(* POSIX does, whatever is asked for. *)
LEMMA PosixEffect ==
    ASSUME NEW f, "create_exclusive" \in f => "create" \in f
    PROVE  DoesAsAsked(f, PosixOpen(PosixFlags(f)).ok, PosixOpen(PosixFlags(f)).data)
  <1> DEFINE oflag == PosixFlags(f)
             effect == PosixOpen(oflag)
  <1>1. /\ "O_CREAT" \in oflag <=> "create" \in f
        /\ "O_EXCL" \in oflag <=> "create_exclusive" \in f
        /\ "O_TRUNC" \in oflag <=> "trunc" \in f
    BY PosixMeans
  <1> HIDE DEF oflag
  <1>2. CASE ~file.exists
    <2>1. effect = Effect("O_CREAT" \in oflag, <<>>)
      BY <1>2 DEF PosixOpen
    <2>2. effect.ok = ("O_CREAT" \in oflag) /\ effect.data = <<>>
      BY <2>1, EffectFields
    <2> HIDE DEF effect
    <2>3. DoesAsAsked(f, effect.ok, effect.data)
      BY <1>1, <1>2, <2>2 DEF DoesAsAsked, OpenOK
    <2> QED  BY <2>3 DEF effect, oflag
  <1>3. CASE file.exists /\ "create_exclusive" \in f
    <2>1. effect = Effect(FALSE, file.data)
      BY <1>1, <1>3 DEF PosixOpen
    <2> HIDE DEF effect
    <2>2. effect.ok = FALSE /\ effect.data = file.data
      BY <2>1, EffectFields
    <2> HIDE DEF effect
    <2>3. DoesAsAsked(f, effect.ok, effect.data)
      BY <1>3, <2>2 DEF DoesAsAsked, OpenOK
    <2> QED  BY <2>3 DEF effect, oflag
  <1>4. CASE file.exists /\ "create_exclusive" \notin f
    <2>1. effect = IF "trunc" \in f THEN Effect(TRUE, <<>>) ELSE Effect(TRUE, file.data)
      BY <1>1, <1>4 DEF PosixOpen
    <2> HIDE DEF effect
    <2>2. effect.ok = TRUE /\ effect.data = IF "trunc" \in f THEN <<>> ELSE file.data
      BY <2>1, EffectFields
    <2> HIDE DEF effect
    <2>3. DoesAsAsked(f, effect.ok, effect.data)
      BY <1>4, <2>2 DEF DoesAsAsked, OpenOK
    <2> QED  BY <2>3 DEF effect, oflag
  <1> QED  BY <1>2, <1>3, <1>4

(* Windows does, but for truncating a file that is not written.            *)
LEMMA WindowsEffect ==
    ASSUME NEW f, "create_exclusive" \in f => "create" \in f,
           file.exists \in BOOLEAN, ~file.exists => file.data = <<>>
    PROVE  DoesAsAsked(f, CreateFile(WindowsDisposition(f), "write" \in f).ok,
                          CreateFile(WindowsDisposition(f), "write" \in f).data)
  <1> DEFINE effect == CreateFile(WindowsDisposition(f), "write" \in f)
  <1>1. CASE "create_exclusive" \in f
    <2>1. WindowsDisposition(f) = "CREATE_NEW"
      BY <1>1 DEF WindowsDisposition
    <2>2. effect = Effect(~file.exists, file.data)
      BY <2>1 DEF CreateFile
    <2>3. effect.ok = ~file.exists /\ effect.data = file.data
      BY <2>2, EffectFields
    <2> HIDE DEF effect
    <2>4. DoesAsAsked(f, effect.ok, effect.data)
      BY <1>1, <2>3 DEF DoesAsAsked, OpenOK
    <2> QED  BY <2>4 DEF effect
  <1>2. CASE "create_exclusive" \notin f /\ "create" \in f /\ "trunc" \in f
    <2>1. WindowsDisposition(f) = "CREATE_ALWAYS"
      BY <1>2 DEF WindowsDisposition
    <2>2. effect = Effect(TRUE, <<>>)
      BY <2>1 DEF CreateFile
    <2>3. effect.ok = TRUE /\ effect.data = <<>>
      BY <2>2, EffectFields
    <2> HIDE DEF effect
    <2>4. DoesAsAsked(f, effect.ok, effect.data)
      BY <1>2, <2>3 DEF DoesAsAsked, OpenOK
    <2> QED  BY <2>4 DEF effect
  <1>3. CASE "create_exclusive" \notin f /\ "create" \in f /\ "trunc" \notin f
    <2>1. WindowsDisposition(f) = "OPEN_ALWAYS"
      BY <1>3 DEF WindowsDisposition
    <2>2. effect = Effect(TRUE, file.data)
      BY <2>1 DEF CreateFile
    <2>3. effect.ok = TRUE /\ effect.data = file.data
      BY <2>2, EffectFields
    <2> HIDE DEF effect
    <2>4. DoesAsAsked(f, effect.ok, effect.data)
      BY <1>3, <2>3 DEF DoesAsAsked, OpenOK
    <2> QED  BY <2>4 DEF effect
  <1>4. CASE "create_exclusive" \notin f /\ "create" \notin f /\ "trunc" \in f
    <2>1. WindowsDisposition(f) = "TRUNCATE_EXISTING"
      BY <1>4 DEF WindowsDisposition
    <2>2. effect = IF file.exists /\ "write" \in f THEN Effect(TRUE, <<>>)
                   ELSE Effect(FALSE, file.data)
      BY <2>1 DEF CreateFile
    <2> HIDE DEF effect
    <2>3. /\ effect.ok = (file.exists /\ "write" \in f)
          /\ effect.data = IF file.exists /\ "write" \in f THEN <<>> ELSE file.data
      BY <2>2, EffectFields
    <2> HIDE DEF effect
    <2>4. DoesAsAsked(f, effect.ok, effect.data)
      BY <1>4, <2>3 DEF DoesAsAsked, OpenOK
    <2> QED  BY <2>4 DEF effect
  <1>5. CASE "create_exclusive" \notin f /\ "create" \notin f /\ "trunc" \notin f
    <2>1. WindowsDisposition(f) = "OPEN_EXISTING"
      BY <1>5 DEF WindowsDisposition
    <2>2. effect = Effect(file.exists, file.data)
      BY <2>1 DEF CreateFile
    <2>3. effect.ok = file.exists /\ effect.data = file.data
      BY <2>2, EffectFields
    <2> HIDE DEF effect
    <2>4. DoesAsAsked(f, effect.ok, effect.data)
      BY <1>5, <2>3 DEF DoesAsAsked, OpenOK
    <2> QED  BY <2>4 DEF effect
  <1> QED  BY <1>1, <1>2, <1>3, <1>4, <1>5

-----------------------------------------------------------------------------
Streams == [open : BOOLEAN, read : BOOLEAN, write : BOOLEAN, append : BOOLEAN,
            pos : 0..MaxFile]

(* What is known of a file, of its contents in particular. *)
LEMMA FileType ==
    ASSUME TypeOK
    PROVE  /\ file.exists \in BOOLEAN
           /\ file.data \in Seq(Marks) /\ Len(file.data) \in 0..MaxFile
           /\ ~file.exists => file.data = <<>>
           /\ file = [exists |-> file.exists, data |-> file.data]
  <1>1. file \in [exists : BOOLEAN, data : Seq(Marks)] /\ Len(file.data) <= MaxFile
    BY DEF TypeOK, Marks
  <1>2. Len(file.data) \in Nat
    BY <1>1, LenProperties
  <1>3. Len(file.data) \in 0..MaxFile
    BY <1>1, <1>2, FileAssumption
  <1> QED  BY <1>1, <1>3 DEF TypeOK

(* An open that succeeds: what it finds in the flags, does to the file and *)
(* hands out.                                                              *)
Opened(flags, data) ==
    LET f == DefaultOpenFlags(flags)
    IN  /\ DoesAsAsked(f, TRUE, data)
        /\ file' = [exists |-> TRUE, data |-> data]
        /\ stream' \in Streams /\ stream'.open
        /\ platform = "windows" =>
              stream'.pos = WindowsStart(f, Len(data)) /\ ~stream'.append

(* An open changes nothing, or the stream and the file are those of one    *)
(* that succeeded.                                                         *)
LEMMA OpenOutcome ==
    ASSUME TypeOK, NEW flags \in OpenModes, Open(flags)
    PROVE  /\ ~stream.open /\ req' = flags /\ UNCHANGED system
           /\ \/ result' \in {"aborted", "error"} /\ UNCHANGED <<file, stream>>
              \/ result' = "ok" /\ \E data : Opened(flags, data)
  <1> DEFINE f == DefaultOpenFlags(flags)
             oflag == PosixFlags(f)
             effect == IF platform = "posix" THEN PosixOpen(oflag)
                       ELSE CreateFile(WindowsDisposition(f), "write" \in f)
  <1>1. DoesAsAsked(f, effect.ok, effect.data)
    <2>1. "create_exclusive" \in f => "create" \in f
      BY FlagsMean DEF Creates
    <2> HIDE DEF f
    <2>2. DoesAsAsked(f, PosixOpen(PosixFlags(f)).ok, PosixOpen(PosixFlags(f)).data)
      BY <2>1, PosixEffect
    <2>3. DoesAsAsked(f, CreateFile(WindowsDisposition(f), "write" \in f).ok,
                         CreateFile(WindowsDisposition(f), "write" \in f).data)
      BY <2>1, FileType, WindowsEffect
    <2>4. CASE platform = "posix"
      BY <2>2, <2>4
    <2>5. CASE platform # "posix"
      BY <2>3, <2>5
    <2> QED  BY <2>4, <2>5
  <1>2. /\ ~stream.open /\ req' = flags /\ UNCHANGED system
        /\ \/ result' \in {"aborted", "error"} /\ UNCHANGED <<file, stream>>
           \/ /\ effect.ok
              /\ result' = "ok"
              /\ file' = [exists |-> TRUE, data |-> effect.data]
              /\ stream' = IF platform = "posix"
                           THEN [open   |-> TRUE,
                                 read   |-> oflag \intersect {"O_RDONLY", "O_RDWR"} # {},
                                 write  |-> oflag \intersect {"O_WRONLY", "O_RDWR"} # {},
                                 append |-> "O_APPEND" \in oflag,
                                 pos    |-> 0]
                           ELSE [open   |-> TRUE,
                                 read   |-> "read" \in f,
                                 write  |-> "write" \in f,
                                 append |-> FALSE,
                                 pos    |-> WindowsStart(f, Len(effect.data))]
    BY DEF Open
  <1>3. Len(effect.data) \in 0..MaxFile
    <2>1. effect.data \in {<<>>, file.data}
      BY <1>1 DEF DoesAsAsked
    <2> HIDE DEF effect
    <2> QED  BY <2>1, FileType, FileAssumption, EmptySeq
  <1> HIDE DEF effect, oflag
  <1>4. ASSUME effect.ok,
               file' = [exists |-> TRUE, data |-> effect.data],
               stream' = IF platform = "posix"
                         THEN [open   |-> TRUE,
                               read   |-> oflag \intersect {"O_RDONLY", "O_RDWR"} # {},
                               write  |-> oflag \intersect {"O_WRONLY", "O_RDWR"} # {},
                               append |-> "O_APPEND" \in oflag,
                               pos    |-> 0]
                         ELSE [open   |-> TRUE,
                               read   |-> "read" \in f,
                               write  |-> "write" \in f,
                               append |-> FALSE,
                               pos    |-> WindowsStart(f, Len(effect.data))]
        PROVE  Opened(flags, effect.data)
    <2>1. DoesAsAsked(f, TRUE, effect.data)
      BY <1>1, <1>4 DEF DoesAsAsked
    <2>2. WindowsStart(f, Len(effect.data)) \in 0..MaxFile /\ 0 \in 0..MaxFile
      BY <1>3, FileAssumption DEF WindowsStart
    <2>3. stream' \in Streams /\ stream'.open
      BY <1>4, <2>2 DEF Streams
    <2>4. platform = "windows" =>
              stream'.pos = WindowsStart(f, Len(effect.data)) /\ ~stream'.append
      BY <1>4
    <2> QED  BY <1>4, <2>1, <2>3, <2>4 DEF Opened
  <1> QED  BY <1>2, <1>4

(* What a write does to a file. *)
Written(data, at) ==
    [i \in 1..(IF at < Len(data) THEN Len(data) ELSE at + 1) |->
        IF i = at + 1 THEN "mine" ELSE IF i <= Len(data) THEN data[i] ELSE "zero"]

(* The written file is one of marks, no longer than it must be; a write at *)
(* the end only adds to it.                                                *)
LEMMA WrittenType ==
    ASSUME NEW data \in Seq(Marks), NEW at \in Nat
    PROVE  /\ Written(data, at) \in Seq(Marks)
           /\ Len(Written(data, at)) = IF at < Len(data) THEN Len(data) ELSE at + 1
           /\ at = Len(data) => IsPrefix(data, Written(data, at))
  <1> DEFINE n == IF at < Len(data) THEN Len(data) ELSE at + 1
  <1>1. Len(data) \in Nat /\ n \in Nat
    BY LenProperties
  <1>2. \A i \in 1..Len(data) : data[i] \in Marks
    BY ElementOfSeq
  <1>3. Written(data, at) \in [1..n -> Marks]
    BY <1>1, <1>2 DEF Written, Marks
  <1>4. Written(data, at) \in Seq(Marks) /\ Len(Written(data, at)) = n
    <2> HIDE DEF n
    <2> QED  BY <1>1, <1>3
  <1>5. ASSUME at = Len(data)  PROVE IsPrefix(data, Written(data, at))
    <2>1. Len(data) <= Len(Written(data, at)) /\ Len(Written(data, at)) \in Nat
      BY <1>1, <1>4, <1>5
    <2>2. \A i \in 1..Len(data) : Written(data, at)[i] = data[i]
      BY <1>1, <1>5 DEF Written
    <2>3. SubSeq(Written(data, at), 1, Len(data)) = SubSeq(data, 1, Len(data))
      BY <2>2
    <2> QED  BY <2>1, <2>3 DEF IsPrefix
  <1> QED  BY <1>4, <1>5

(* A write through the stream does this, and moves the stream behind it. *)
LEMMA WriteOutcome ==
    ASSUME TypeOK, WriteSome
    PROVE  LET at == IF stream.append THEN Len(file.data) ELSE stream.pos
           IN  /\ at \in Nat /\ at < MaxFile
               /\ stream.open /\ UNCHANGED <<system, req, result>>
               /\ file' = [exists |-> file.exists, data |-> Written(file.data, at)]
               /\ stream' \in Streams /\ stream'.pos = at + 1
               /\ stream'.open = stream.open /\ stream'.append = stream.append
  <1> DEFINE at == IF stream.append THEN Len(file.data) ELSE stream.pos
  <1>1. /\ stream.open /\ at < MaxFile /\ UNCHANGED <<system, req, result>>
        /\ file' = [file EXCEPT !.data = Written(@, at)]
        /\ stream' = [stream EXCEPT !.pos = at + 1]
    BY DEF WriteSome, Written
  <1>2. at \in 0..MaxFile /\ stream \in Streams
    BY FileType DEF TypeOK, Streams
  <1> HIDE DEF at
  <1>3. file' = [exists |-> file.exists, data |-> Written(file.data, at)]
    BY <1>1, FileType, Zenon
  <1>4. at + 1 \in 0..MaxFile /\ at \in Nat
    BY <1>1, <1>2, FileAssumption
  <1>5. /\ stream' \in Streams /\ stream'.pos = at + 1
        /\ stream'.open = stream.open /\ stream'.append = stream.append
    BY <1>1, <1>2, <1>4 DEF Streams
  <1> QED  BY <1>1, <1>3, <1>4, <1>5 DEF at

-----------------------------------------------------------------------------
(* The first state: a closed stream, and any file of old contents. *)
LEMMA FileInit ==
    ASSUME Init
    PROVE  FileInv
  <1>1. stream = Closed /\ platform \in Platforms /\ shared \in Others
        /\ req = {} /\ result = "none"
    BY DEF Init
  <1>2. /\ file \in [exists : BOOLEAN, data : Seq({"old", "mine", "other", "zero"})]
        /\ Len(file.data) <= MaxFile
        /\ ~file.exists => file.data = <<>>
    <2>1. CASE file = [exists |-> FALSE, data |-> <<>>]
      BY <2>1, FileAssumption
    <2>2. ASSUME NEW n \in 0..MaxFile,
                 file = [exists |-> TRUE, data |-> [i \in 1..n |-> "old"]]
          PROVE  <1>2
      <3> DEFINE data == [i \in 1..n |-> "old"]
      <3>1. data \in Seq({"old", "mine", "other", "zero"}) /\ Len(data) = n
        BY FileAssumption
      <3> HIDE DEF data
      <3> QED  BY <2>2, <3>1, FileAssumption DEF data
    <2> QED  BY <2>1, <2>2 DEF Init
  <1>3. Closed \in [open : BOOLEAN, read : BOOLEAN, write : BOOLEAN,
                    append : BOOLEAN, pos : 0..MaxFile] /\ ~Closed.open
    BY FileAssumption DEF Closed
  <1>4. req \in OpenModes
    BY <1>1 DEF OpenModes
  <1> QED  BY <1>1, <1>2, <1>3, <1>4 DEF FileInv, TypeOK, OpenHasFile, AtEnd

(* Whatever flags a stream is opened with, it stands where it should. *)
LEMMA FileOpen ==
    ASSUME FileInv, NEW flags \in OpenModes, Open(flags)
    PROVE  FileInv'
  <1>1. TypeOK
    BY DEF FileInv
  <1>2. /\ ~stream.open /\ req' = flags /\ UNCHANGED system
        /\ \/ result' \in {"aborted", "error"} /\ UNCHANGED <<file, stream>>
           \/ result' = "ok" /\ \E data : Opened(flags, data)
    BY <1>1, OpenOutcome
  <1>3. platform' = platform /\ shared' = shared
    BY <1>2 DEF system
  <1>4. CASE result' \in {"aborted", "error"} /\ UNCHANGED <<file, stream>>
    BY <1>1, <1>2, <1>3, <1>4 DEF FileInv, TypeOK, OpenHasFile, AtEnd
  <1>5. ASSUME NEW data, Opened(flags, data), result' = "ok"  PROVE FileInv'
    <2>1. /\ file' = [exists |-> TRUE, data |-> data]
          /\ stream' \in Streams /\ stream'.open
          /\ platform = "windows" =>
                stream'.pos = WindowsStart(DefaultOpenFlags(flags), Len(data))
                /\ ~stream'.append
      BY <1>5 DEF Opened
    <2>2. data \in {<<>>, file.data}
      BY <1>5 DEF Opened, DoesAsAsked
    <2>3. data \in Seq(Marks) /\ Len(data) <= MaxFile
      <3>1. <<>> \in Seq(Marks) /\ Len(<<>>) <= MaxFile
        BY FileAssumption
      <3>2. file.data \in Seq(Marks) /\ Len(file.data) <= MaxFile
        BY <1>1, FileType, FileAssumption
      <3> QED  BY <2>2, <3>1, <3>2
    <2>4. "append" \in DefaultOpenFlags(flags) <=> "append" \in flags
      BY FlagsMean
    <2>5. TypeOK'
      BY <1>1, <1>2, <1>3, <1>5, <2>1, <2>3 DEF TypeOK, Streams, Marks
    <2>6. AtEnd'
      BY <1>2, <1>3, <2>1, <2>4 DEF AtEnd, WindowsStart
    <2>7. OpenHasFile'
      BY <2>1 DEF OpenHasFile
    <2> QED  BY <2>5, <2>6, <2>7 DEF FileInv
  <1> QED  BY <1>2, <1>4, <1>5

(* A write at the end leaves the stream at the new end. *)
LEMMA FileWrite ==
    ASSUME FileInv, WriteSome
    PROVE  FileInv'
  <1> DEFINE at == IF stream.append THEN Len(file.data) ELSE stream.pos
  <1>1. TypeOK /\ AtEnd
    BY DEF FileInv
  <1>2. /\ at \in Nat /\ at < MaxFile
        /\ stream.open /\ UNCHANGED <<system, req, result>>
        /\ file' = [exists |-> file.exists, data |-> Written(file.data, at)]
        /\ stream' \in Streams /\ stream'.pos = at + 1
        /\ stream'.open = stream.open /\ stream'.append = stream.append
    BY <1>1, WriteOutcome
  <1>3. platform' = platform /\ shared' = shared
    BY <1>2 DEF system
  <1>4. at = IF stream.append THEN Len(file.data) ELSE stream.pos
    OBVIOUS
  <1> HIDE DEF at
  <1>5. /\ Written(file.data, at) \in Seq(Marks)
        /\ Len(Written(file.data, at)) =
              IF at < Len(file.data) THEN Len(file.data) ELSE at + 1
    BY <1>1, <1>2, FileType, WrittenType
  <1>6. file.exists
    BY <1>2 DEF FileInv, OpenHasFile
  <1>7. TypeOK'
    BY <1>1, <1>2, <1>3, <1>5, <1>6, FileType, FileAssumption DEF TypeOK, Streams, Marks
  <1>8. AtEnd'
    BY <1>1, <1>2, <1>3, <1>4, <1>5, FileType DEF AtEnd
  <1>9. OpenHasFile'
    BY <1>2, <1>6 DEF OpenHasFile
  <1> QED  BY <1>7, <1>8, <1>9 DEF FileInv

(* A stream at the end reads nothing, so it stays there. *)
LEMMA FileRead ==
    ASSUME FileInv, ReadSome
    PROVE  FileInv'
  <1>1. /\ stream.open /\ stream.pos < Len(file.data)
        /\ stream' = [stream EXCEPT !.pos = @ + 1]
        /\ UNCHANGED <<platform, shared, file, req, result>>
    BY DEF ReadSome, system
  <1>2. stream \in Streams /\ stream.pos \in 0..MaxFile
    BY DEF FileInv, TypeOK, Streams
  <1>3. Len(file.data) \in 0..MaxFile
    BY FileType DEF FileInv
  <1>4. stream.pos + 1 \in 0..MaxFile
    BY <1>1, <1>2, <1>3, FileAssumption
  <1>5. stream' \in Streams /\ stream'.open
    BY <1>1, <1>2, <1>4 DEF Streams
  <1>6. TypeOK'
    BY <1>1, <1>5 DEF FileInv, TypeOK, Streams
  <1>7. ~(platform = "windows" /\ ~shared /\ "append" \in req)
    BY <1>1, <1>2, <1>3 DEF FileInv, AtEnd
  <1> QED  BY <1>1, <1>6, <1>7 DEF FileInv, OpenHasFile, AtEnd

(* The other program moves the end only of a file it shares. *)
LEMMA FileOthers ==
    ASSUME FileInv, OtherAppends
    PROVE  FileInv'
  <1>1. /\ shared /\ file.exists /\ Len(file.data) < MaxFile
        /\ file' = [file EXCEPT !.data = Append(@, "other")]
        /\ UNCHANGED <<platform, shared, stream, req, result>>
    BY DEF OtherAppends, system
  <1>2. TypeOK
    BY DEF FileInv
  <1>3. file.data \in Seq(Marks) /\ "other" \in Marks
    BY <1>2, FileType DEF Marks
  <1>4. /\ Append(file.data, "other") \in Seq(Marks)
        /\ Len(Append(file.data, "other")) = Len(file.data) + 1
    BY <1>3, AppendProperties
  <1>5. Len(Append(file.data, "other")) <= MaxFile
    BY <1>1, <1>2, <1>4, FileType, FileAssumption
  <1>6. file' = [exists |-> file.exists, data |-> Append(file.data, "other")]
    BY <1>1, <1>2, FileType, Zenon
  <1>7. TypeOK'
    BY <1>1, <1>2, <1>4, <1>5, <1>6, FileType DEF TypeOK, Marks
  <1> QED  BY <1>1, <1>6, <1>7 DEF FileInv, OpenHasFile, AtEnd

(* Every step keeps the inductive invariant. *)
LEMMA FileNext ==
    ASSUME FileInv, [Next]_vars
    PROVE  FileInv'
  <1>1. ASSUME NEW flags \in OpenModes, Open(flags)  PROVE FileInv'
    BY <1>1, FileOpen
  <1>2. CASE WriteSome
    BY <1>2, FileWrite
  <1>3. CASE ReadSome
    BY <1>3, FileRead
  <1>4. CASE Close
    <2>1. stream' = Closed /\ UNCHANGED <<platform, shared, file, req, result>>
      BY <1>4 DEF Close, system
    <2>2. Closed \in Streams /\ ~Closed.open
      BY FileAssumption DEF Closed, Streams
    <2> QED  BY <2>1, <2>2 DEF FileInv, TypeOK, OpenHasFile, AtEnd, Streams
  <1>5. CASE OtherAppends
    BY <1>5, FileOthers
  <1>6. CASE UNCHANGED vars
    BY <1>6 DEF FileInv, TypeOK, OpenHasFile, AtEnd, vars, system
  <1> QED  BY <1>1, <1>2, <1>3, <1>4, <1>5, <1>6 DEF Next

(* The types, that an open stream has a file, and that the only program at *)
(* a file it appends to on Windows stands at the file's end: always.       *)
THEOREM FileInvariance == Spec => []FileInv
  <1>1. Init => FileInv
    BY FileInit
  <1>2. FileInv /\ [Next]_vars => FileInv'
    BY FileNext
  <1> QED  BY <1>1, <1>2, PTL DEF Spec

(* default_open_flags called on its own result changes nothing, and flags  *)
(* it does not abort over say whether to create and whether to truncate.   *)
THEOREM FlagsCorrect == Spec => []FlagsSettle
  <1>1. ASSUME FileInv  PROVE FlagsSettle
    <2> DEFINE f == DefaultOpenFlags(req)
    <2>1. req \in OpenModes
      BY <1>1 DEF FileInv, TypeOK
    <2>2. ASSUME ~Conflicting(f)
          PROVE  /\ DefaultOpenFlags(f) = f
                 /\ {"trunc", "no_trunc"} \intersect f # {}
                 /\ {"create", "no_create"} \intersect f # {}
      <3>1. DefaultOpenFlags(f) = f
        BY <2>1, <2>2, FlagsFilled
      <3>2. Settled(f)
        BY <2>1, <2>2, FlagsDecide
      <3> HIDE DEF f
      <3>3. ("trunc" \in f \/ "no_trunc" \in f) /\ ("create" \in f \/ "no_create" \in f)
        BY <3>2 DEF Settled
      <3> QED  BY <3>1, <3>3
    <2> QED  BY <2>2 DEF FlagsSettle
  <1> QED  BY <1>1, FileInvariance, PTL

-----------------------------------------------------------------------------
(* What an open does is whether it succeeds, and some contents. *)
IsEffect(e) == e.ok \in BOOLEAN /\ e = [ok |-> e.ok, data |-> e.data]

(* Any such pair is one. *)
LEMMA EffectIs ==
    ASSUME NEW ok \in BOOLEAN, NEW data
    PROVE  IsEffect(Effect(ok, data))
  BY DEF IsEffect, Effect

(* Both systems' open calls do one. *)
LEMMA OpensAreEffects ==
    ASSUME file.exists \in BOOLEAN, NEW oflag, NEW disposition, NEW write
    PROVE  IsEffect(PosixOpen(oflag)) /\ IsEffect(CreateFile(disposition, write))
  <1>1. IsEffect(PosixOpen(oflag))
    <2>1. CASE ~file.exists
      <3>1. PosixOpen(oflag) = Effect("O_CREAT" \in oflag, <<>>)
        BY <2>1 DEF PosixOpen
      <3>2. ("O_CREAT" \in oflag) \in BOOLEAN
        OBVIOUS
      <3> QED  BY <3>1, <3>2, EffectIs
    <2>2. CASE file.exists /\ {"O_CREAT", "O_EXCL"} \subseteq oflag
      BY <2>2, EffectIs DEF PosixOpen
    <2>3. CASE file.exists /\ ~({"O_CREAT", "O_EXCL"} \subseteq oflag)
      <3> DEFINE data == IF "O_TRUNC" \in oflag THEN <<>> ELSE file.data
      <3>1. PosixOpen(oflag) = Effect(TRUE, data)
        BY <2>3 DEF PosixOpen
      <3> HIDE DEF data
      <3> QED  BY <3>1, EffectIs
    <2> QED  BY <2>1, <2>2, <2>3
  <1>2. IsEffect(CreateFile(disposition, write))
    <2>1. \/ CreateFile(disposition, write) = Effect(~file.exists, file.data)
          \/ CreateFile(disposition, write) = Effect(TRUE, <<>>)
          \/ CreateFile(disposition, write) = Effect(TRUE, file.data)
          \/ CreateFile(disposition, write) = Effect(FALSE, file.data)
          \/ CreateFile(disposition, write) = Effect(file.exists, file.data)
      BY DEF CreateFile
    <2>2. (~file.exists) \in BOOLEAN
      OBVIOUS
    <2> QED  BY <2>1, <2>2, EffectIs
  <1> QED  BY <1>1, <1>2

(* Two effects that are both as asked, of flags that truncate only what    *)
(* they write, are the same, or both failures.                             *)
LEMMA AskedAgree ==
    ASSUME NEW f, NEW e, NEW g, IsEffect(e), IsEffect(g),
           "trunc" \in f => "write" \in f,
           DoesAsAsked(f, e.ok, e.data), DoesAsAsked(f, g.ok, g.data)
    PROVE  e = g \/ (~e.ok /\ ~g.ok)
  <1>1. CASE ~OpenOK(f)
    BY <1>1 DEF DoesAsAsked
  <1>2. CASE OpenOK(f)
    <2>1. e.ok /\ g.ok /\ e.ok = g.ok
      BY <1>2 DEF DoesAsAsked, IsEffect
    <2>2. e.data = g.data
      BY <2>1 DEF DoesAsAsked
    <2> QED  BY <2>1, <2>2, Zenon DEF IsEffect
  <1> QED  BY <1>1, <1>2

(* Whatever the flags, unless they truncate a file they do not write, the  *)
(* POSIX and the Windows implementation open the same files and leave the  *)
(* same contents in them.                                                  *)
THEOREM PlatformsCorrect == Spec => []PlatformsAgree
  <1>1. ASSUME FileInv  PROVE PlatformsAgree
    <2> DEFINE f == DefaultOpenFlags(req)
               e == PosixOpen(PosixFlags(f))
               g == CreateFile(WindowsDisposition(f), "write" \in f)
    <2>1. file.exists \in BOOLEAN /\ (~file.exists => file.data = <<>>)
      BY <1>1, FileType DEF FileInv
    <2>2. "create_exclusive" \in f => "create" \in f
      BY <1>1, FlagsMean DEF FileInv, TypeOK, Creates
    <2>3. IsEffect(e) /\ IsEffect(g)
      <3> HIDE DEF f
      <3> QED  BY <2>1, OpensAreEffects
    <2>4. DoesAsAsked(f, e.ok, e.data) /\ DoesAsAsked(f, g.ok, g.data)
      <3> HIDE DEF f
      <3> QED  BY <2>1, <2>2, PosixEffect, WindowsEffect
    <2>5. ("trunc" \in f => "write" \in f) => e = g \/ (~e.ok /\ ~g.ok)
      <3> HIDE DEF f, e, g
      <3> QED  BY <2>3, <2>4, AskedAgree
    <2> QED  BY <2>5 DEF PlatformsAgree
  <1> QED  BY <1>1, FileInvariance, PTL

(* The step that opens the stream is an open that succeeded. *)
LEMMA OpeningStep ==
    ASSUME FileInv, [Next]_vars, ~stream.open, stream'.open
    PROVE  req' \in OpenModes /\ \E data : Opened(req', data)
  <1>1. ASSUME NEW flags \in OpenModes, Open(flags)
        PROVE  req' \in OpenModes /\ \E data : Opened(req', data)
    <2>1. /\ req' = flags
          /\ \/ result' \in {"aborted", "error"} /\ UNCHANGED <<file, stream>>
             \/ result' = "ok" /\ \E data : Opened(flags, data)
      BY <1>1, OpenOutcome DEF FileInv
    <2> QED  BY <2>1
  <1>2. CASE WriteSome \/ ReadSome \/ Close
    BY <1>2 DEF WriteSome, ReadSome, Close
  <1>3. CASE OtherAppends \/ UNCHANGED vars
    BY <1>3 DEF OtherAppends, vars
  <1> QED  BY <1>1, <1>2, <1>3 DEF Next

(* Opening empties a file only for trunc, or for write without append and  *)
(* no_trunc: on both systems, for every set of flags.                      *)
THEOREM TruncateCorrect == Spec => TruncatesOnlyAsAsked
  <1>1. ASSUME FileInv, [Next]_vars, ~stream.open, stream'.open, file'.data # file.data
        PROVE  \/ "trunc" \in req'
               \/ "write" \in req' /\ {"append", "no_trunc"} \intersect req' = {}
    <2> DEFINE f == DefaultOpenFlags(req')
    <2>1. PICK data : Opened(req', data)
      BY <1>1, OpeningStep
    <2>2. req' \in OpenModes
      BY <1>1, OpeningStep
    <2>3. DoesAsAsked(f, TRUE, data) /\ file' = [exists |-> TRUE, data |-> data]
      BY <2>1 DEF Opened
    <2>4. "trunc" \in f <=> Truncates(req')
      BY <2>2, FlagsMean
    <2> HIDE DEF f
    <2>5. "trunc" \in f
      <3>1. ~file.exists => file.data = <<>>
        BY <1>1 DEF FileInv, TypeOK
      <3> QED  BY <1>1, <2>3, <3>1 DEF DoesAsAsked
    <2>6. Truncates(req')
      BY <2>4, <2>5
    <2> QED  BY <2>6 DEF Truncates, Writes
  <1>2. FileInv /\ [Next]_vars
          => [~stream.open /\ stream'.open /\ file'.data # file.data
                => \/ "trunc" \in req'
                   \/ "write" \in req' /\ {"append", "no_trunc"} \intersect req' = {}]_vars
    BY <1>1
  <1> QED  BY <1>2, FileInvariance, PTL DEF Spec, TruncatesOnlyAsAsked

(* Opening makes a file only for create, create_exclusive or writing, and  *)
(* against no_create only where a build without assertions goes on with    *)
(* conflicting flags; create_exclusive never opens a file that is there.   *)
THEOREM CreateCorrect == Spec => CreatesOnlyAsAsked
  <1>1. ASSUME FileInv, [Next]_vars, ~stream.open, stream'.open
        PROVE  CreatesAsAsked
    <2> DEFINE f == DefaultOpenFlags(req')
    <2>1. PICK data : Opened(req', data)
      BY <1>1, OpeningStep
    <2>2. req' \in OpenModes
      BY <1>1, OpeningStep
    <2>3. OpenOK(f)
      BY <2>1 DEF Opened, DoesAsAsked
    <2>4. /\ "create" \in f <=> Creates(req')
          /\ "create_exclusive" \in f <=> "create_exclusive" \in req'
          /\ "no_create" \in f <=> "no_create" \in req' \/ ~Creates(req')
      BY <2>2, FlagsMean
    <2>5. ASSUME ~file.exists
          PROVE  Creates(req') /\ ("no_create" \notin req' \/ Conflicting(f))
      <3> HIDE DEF f
      <3> QED  BY <2>3, <2>4, <2>5 DEF OpenOK, Conflicting
    <2>6. "create_exclusive" \in req' => ~file.exists
      <3> HIDE DEF f
      <3> QED  BY <2>3, <2>4 DEF OpenOK
    <2>7. ~file.exists => {"create", "create_exclusive", "write", "append"}
                              \intersect req' # {}
      BY <2>5 DEF Creates, Writes
    <2> QED  BY <2>5, <2>6, <2>7 DEF CreatesAsAsked
  <1>2. FileInv /\ [Next]_vars => [CreatesAsAsked]_vars
    BY <1>1 DEF CreatesAsAsked
  <1> QED  BY <1>2, FileInvariance, PTL DEF Spec, CreatesOnlyAsAsked

(* Where one program alone appends to a file on Windows, it never          *)
(* overwrites what is there: the position it was given at open is enough.  *)
THEOREM AppendCorrect == Spec => AppendsAloneOnWindows
  <1>1. ASSUME FileInv, [Next]_vars, platform = "windows", ~shared,
               stream.open, stream'.open, "append" \in req
        PROVE  IsPrefix(file.data, file'.data)
    <2>1. file.data \in Seq(Marks) /\ Len(file.data) \in Nat
      BY <1>1, FileType, FileAssumption DEF FileInv
    <2>2. stream.pos = Len(file.data) /\ ~stream.append
      BY <1>1 DEF FileInv, AtEnd
    <2>3. CASE WriteSome
      <3>1. file' = [exists |-> file.exists, data |-> Written(file.data, Len(file.data))]
        BY <1>1, <2>2, <2>3, WriteOutcome DEF FileInv
      <3> QED  BY <2>1, <3>1, WrittenType
    <2>4. CASE file' = file
      BY <2>1, <2>4 DEF IsPrefix
    <2>5. ASSUME NEW flags \in OpenModes  PROVE ~Open(flags)
      BY <1>1 DEF Open
    <2>6. CASE ReadSome \/ Close \/ UNCHANGED vars
      BY <2>4, <2>6 DEF ReadSome, Close, vars
    <2>7. ~OtherAppends
      BY <1>1 DEF OtherAppends
    <2> QED  BY <1>1, <2>3, <2>5, <2>6, <2>7 DEF Next
  <1>2. FileInv /\ [Next]_vars
          => [/\ platform = "windows" /\ ~shared
              /\ stream.open /\ stream'.open /\ "append" \in req
              => IsPrefix(file.data, file'.data)]_vars
    BY <1>1
  <1> QED  BY <1>2, FileInvariance, PTL DEF Spec, AppendsAloneOnWindows
=============================================================================
