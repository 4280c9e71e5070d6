----------------------------- MODULE FileStream -----------------------------
(***************************************************************************)
(* file_stream: how open_mode flags become an open file on POSIX and on    *)
(* Windows, and what reads and writes through the stream do to the file.   *)
(* One path is modelled; another program may append to the same file.  The *)
(* contents are a sequence of marks that say who wrote each unit.          *)
(***************************************************************************)
EXTENDS Integers, SequencesExt

CONSTANTS Platforms,  \* the systems looked at: which open() is compiled
          MaxFile,    \* bound: length of the file
          Others      \* whether there is another program at the file: its values

ASSUME FileAssumption ==
    /\ Platforms \subseteq {"posix", "windows"}
    /\ MaxFile \in Nat
    /\ Others \subseteq BOOLEAN

VARIABLES platform,  \* the system, for good
          shared,    \* whether another program uses the file, for good
          file,      \* the file at the path: whether it exists, and its contents
          stream,    \* the file_stream object
          req,       \* the open_mode flags the last open was asked for
          result     \* how it ended: "none", "ok", "error" or "aborted"

system == <<platform, shared>>
vars == <<system, file, stream, req, result>>

OpenModes == SUBSET {"read", "write", "append", "create", "create_exclusive",
                     "no_create", "no_trunc", "trunc"}

Closed == [open |-> FALSE, read |-> FALSE, write |-> FALSE, append |-> FALSE, pos |-> 0]

-----------------------------------------------------------------------------
(* The helper "add G to F when C". *)
With(F, C, G) == IF C THEN F \union G ELSE F

(* mutant: no_trunc is not looked at when write implies trunc *)
DefaultOpenFlagsTruncating(flags) ==
    LET f0 == With(flags, flags = {}, {"read"})
        f1 == With(f0, "append" \in f0, {"read", "write"})
        f2 == With(f1, "create_exclusive" \in f1, {"create"})
        f3 == With(f2, "write" \in f2 /\ "no_create" \notin f2, {"create"})
        f4 == With(f3, "write" \in f3 /\ "no_trunc" \notin f3, {"trunc"})
        f5 == With(f4, "create" \notin f4, {"no_create"})
    IN  With(f5, "trunc" \notin f5, {"no_trunc"})

(* mutant: the last default, no_trunc, is forgotten *)
DefaultOpenFlagsHalf(flags) ==
    LET f0 == With(flags, flags = {}, {"read"})
        f1 == With(f0, "append" \in f0, {"read", "write"})
        f2 == With(f1, "create_exclusive" \in f1, {"create"})
        f3 == With(f2, "write" \in f2 /\ "no_create" \notin f2, {"create"})
        f4 == With(f3, "write" \in f3 /\ {"append", "no_trunc"} \intersect f3 = {}, {"trunc"})
    IN  With(f4, "create" \notin f4, {"no_create"})

(* default_open_flags: each line sees the flags the lines before it set. *)
DefaultOpenFlags(flags) ==
    LET f0 == With(flags, flags = {}, {"read"})
        f1 == With(f0, "append" \in f0, {"read", "write"})
        f2 == With(f1, "create_exclusive" \in f1, {"create"})
        f3 == With(f2, "write" \in f2 /\ "no_create" \notin f2, {"create"})
        f4 == With(f3, "write" \in f3 /\ {"append", "no_trunc"} \intersect f3 = {}, {"trunc"})
        f5 == With(f4, "create" \notin f4, {"no_create"})
    IN  With(f5, "trunc" \notin f5, {"no_trunc"})

(* Its two assertions: conflicting flags end the program, if it is built   *)
(* with assertions.                                                        *)
Conflicting(f) == {"trunc", "no_trunc"} \subseteq f \/ {"create", "no_create"} \subseteq f

(* mutant: create_exclusive is treated as create *)
PosixFlagsNoExcl(f) ==
    LET access == IF "write" \in f THEN {"O_RDWR"} ELSE {"O_RDONLY"}
        trunc  == With(access, "trunc" \in f, {"O_TRUNC"})
    IN  With(trunc, "create" \in f, {"O_CREAT"})

(* The oflag that file.nix.cpp passes to ::open.  Setting the access mode  *)
(* assigns the whole flag word, so what append put there is gone.          *)
PosixFlags(f) ==
    LET append == With({}, "append" \in f, {"O_APPEND"})
        access == IF "read" \in f
                  THEN IF "write" \in f THEN {"O_RDWR"} ELSE {"O_RDONLY"}
                  ELSE IF "write" \in f THEN {"O_WRONLY"} ELSE append \union {"O_RDONLY"}
        trunc  == With(access, "trunc" \in f, {"O_TRUNC"})
    IN  IF "create_exclusive" \in f THEN trunc \union {"O_CREAT", "O_EXCL"}
        ELSE With(trunc, "create" \in f, {"O_CREAT"})

(* The creation disposition that file.win.cpp passes to CreateFileW. *)
WindowsDisposition(f) ==
    IF "create_exclusive" \in f THEN "CREATE_NEW"
    ELSE IF "create" \in f
         THEN IF "trunc" \in f THEN "CREATE_ALWAYS" ELSE "OPEN_ALWAYS"
         ELSE IF "trunc" \in f THEN "TRUNCATE_EXISTING" ELSE "OPEN_EXISTING"

-----------------------------------------------------------------------------
(* What the systems do with these: whether the call succeeds on the file   *)
(* as it is, and the contents that are there afterwards.                   *)
Effect(ok, data) == [ok |-> ok, data |-> data]

PosixOpen(oflag) ==
    IF file.exists
    THEN IF {"O_CREAT", "O_EXCL"} \subseteq oflag THEN Effect(FALSE, file.data)
         ELSE Effect(TRUE, IF "O_TRUNC" \in oflag THEN <<>> ELSE file.data)
    ELSE Effect("O_CREAT" \in oflag, <<>>)

CreateFile(disposition, write) ==
    CASE disposition = "CREATE_NEW"        -> Effect(~file.exists, file.data)
      [] disposition = "CREATE_ALWAYS"     -> Effect(TRUE, <<>>)
      [] disposition = "OPEN_ALWAYS"       -> Effect(TRUE, file.data)
      [] disposition = "TRUNCATE_EXISTING" ->
             IF file.exists /\ write THEN Effect(TRUE, <<>>) ELSE Effect(FALSE, file.data)
      [] OTHER                             -> Effect(file.exists, file.data)

-----------------------------------------------------------------------------
Init == /\ platform \in Platforms /\ shared \in Others
        /\ \/ file = [exists |-> FALSE, data |-> <<>>]
           \/ \E n \in 0..MaxFile :
                 file = [exists |-> TRUE, data |-> [i \in 1..n |-> "old"]]
        /\ stream = Closed
        /\ req = {}
        /\ result = "none"

(* mutant: the file pointer is left at the start *)
SeekStart(f, length) == 0

(* mutant: the file pointer is left one past the end *)
SeekPastEnd(f, length) == IF "append" \in f THEN length + 1 ELSE 0

(* Where a stream just opened on Windows stands: at the end, to append. *)
WindowsStart(f, length) == IF "append" \in f THEN length ELSE 0

(* file_stream::open; any open may also be refused for reasons of its own  *)
(* (permissions, no more handles), which are reported and change nothing.  *)
Open(flags) ==
    LET f == DefaultOpenFlags(flags)
        oflag == PosixFlags(f)
        effect == IF platform = "posix" THEN PosixOpen(oflag)
                  ELSE CreateFile(WindowsDisposition(f), "write" \in f)
    IN  /\ result # "aborted" /\ ~stream.open
        /\ req' = flags /\ UNCHANGED system
        /\ \/ Conflicting(f) /\ result' = "aborted" /\ UNCHANGED <<file, stream>>
           \/ result' = "error" /\ UNCHANGED <<file, stream>>
           \/ /\ effect.ok
              /\ result' = "ok"
              /\ file' = [exists |-> TRUE, data |-> effect.data]
              /\ stream' = IF platform = "posix"
                           THEN [open   |-> TRUE,
                                 read   |-> oflag \intersect {"O_RDONLY", "O_RDWR"} # {},
                                 write  |-> oflag \intersect {"O_WRONLY", "O_RDWR"} # {},
                                 append |-> "O_APPEND" \in oflag,
                                 pos    |-> 0]
                           ELSE [open   |-> TRUE,
                                 read   |-> "read" \in f,
                                 write  |-> "write" \in f,
                                 append |-> FALSE,
                                 pos    |-> WindowsStart(f, Len(effect.data))]

(* One unit is written at the stream's position, or at the end if the      *)
(* system appends; the position moves behind it.  Behind the end of a file *)
(* that was truncated meanwhile, the gap reads as zeros.                   *)
WriteSome ==
    LET at == IF stream.append THEN Len(file.data) ELSE stream.pos
    IN  /\ stream.open /\ stream.write
        /\ at < MaxFile
        /\ file' = [file EXCEPT !.data =
                       [i \in 1..(IF at < Len(@) THEN Len(@) ELSE at + 1) |->
                           IF i = at + 1 THEN "mine"
                           ELSE IF i <= Len(@) THEN @[i] ELSE "zero"]]
        /\ stream' = [stream EXCEPT !.pos = at + 1]
        /\ UNCHANGED <<system, req, result>>

ReadSome ==
    /\ stream.open /\ stream.read
    /\ stream.pos < Len(file.data)
    /\ stream' = [stream EXCEPT !.pos = @ + 1]
    /\ UNCHANGED <<system, file, req, result>>

Close ==
    /\ stream.open
    /\ stream' = Closed
    /\ UNCHANGED <<system, file, req, result>>

(* The other program adds to the end of the file. *)
OtherAppends ==
    /\ shared /\ result # "aborted"
    /\ file.exists /\ Len(file.data) < MaxFile
    /\ file' = [file EXCEPT !.data = Append(@, "other")]
    /\ UNCHANGED <<system, stream, req, result>>

Next == \/ \E flags \in OpenModes : Open(flags)
        \/ WriteSome \/ ReadSome \/ Close \/ OtherAppends

Spec == Init /\ [][Next]_vars

-----------------------------------------------------------------------------
TypeOK == /\ platform \in Platforms /\ shared \in Others
          /\ file \in [exists : BOOLEAN, data : Seq({"old", "mine", "other", "zero"})]
          /\ Len(file.data) <= MaxFile
          /\ ~file.exists => file.data = <<>>
          /\ stream \in [open : BOOLEAN, read : BOOLEAN, write : BOOLEAN,
                         append : BOOLEAN, pos : 0..MaxFile]
          /\ req \in OpenModes
          /\ result \in {"none", "ok", "error", "aborted"}

(* Filling out flags that are filled out changes nothing, so a caller may  *)
(* pass default_open_flags its own result; and flags that do not conflict  *)
(* decide both questions, whether to create and whether to truncate.       *)
FlagsSettle ==
    LET f == DefaultOpenFlags(req)
    IN  ~Conflicting(f) => /\ DefaultOpenFlags(f) = f
                           /\ {"trunc", "no_trunc"} \intersect f # {}
                           /\ {"create", "no_create"} \intersect f # {}

(* Opening loses the contents of a file only if asked to: by trunc, or by  *)
(* write without append or no_trunc.                                       *)
TruncatesOnlyAsAsked ==
    [][~stream.open /\ stream'.open /\ file'.data # file.data
         => \/ "trunc" \in req'
            \/ "write" \in req' /\ {"append", "no_trunc"} \intersect req' = {}]_vars

(* Opening brings a file into existence only if asked to, by create or by  *)
(* any kind of writing without no_create; with create_exclusive it does    *)
(* so or fails.  The one exception is a program built without assertions   *)
(* that asks for no_create and to create: its file is created.             *)
CreatesAsAsked ==
    ~stream.open /\ stream'.open
      => /\ ~file.exists => /\ {"create", "create_exclusive", "write", "append"}
                                   \intersect req' # {}
                            /\ "no_create" \notin req'
                                   \/ Conflicting(DefaultOpenFlags(req'))
         /\ "create_exclusive" \in req' => ~file.exists

CreatesOnlyAsAsked == [][CreatesAsAsked]_vars

(* The two implementations of open() succeed on the same files and leave   *)
(* the same contents, for every set of flags that does not truncate a file *)
(* it does not write.                                                      *)
PlatformsAgree ==
    LET f == DefaultOpenFlags(req)
    IN  ~Conflicting(f) /\ ("trunc" \in f => "write" \in f)
          => PosixOpen(PosixFlags(f)) = CreateFile(WindowsDisposition(f), "write" \in f)
             \/ /\ ~PosixOpen(PosixFlags(f)).ok
                /\ ~CreateFile(WindowsDisposition(f), "write" \in f).ok

(* What is written through a stream opened to append is added to the file: *)
(* nothing that is there is overwritten.                                   *)
AppendNeverOverwrites ==
    [][stream.open /\ stream'.open /\ "append" \in req => IsPrefix(file.data, file'.data)]_vars

(* On Windows the stream is put at the end once, when it is opened; that   *)
(* is enough as long as no other program uses the file.                    *)
AppendsAloneOnWindows ==
    [][/\ platform = "windows" /\ ~shared
       /\ stream.open /\ stream'.open /\ "append" \in req
       => IsPrefix(file.data, file'.data)]_vars

(* What makes that inductive: such a stream stays at the end of its file,  *)
(* as it can read nothing there and nobody else moves the end.             *)
AtEnd == platform = "windows" /\ ~shared /\ stream.open /\ "append" \in req
            => stream.pos = Len(file.data) /\ ~stream.append

(* There is a file for as long as a stream is open. *)
OpenHasFile == stream.open => file.exists

(* The inductive invariant: without OpenHasFile a write could put contents *)
(* into a file that does not exist.                                        *)
FileInv == TypeOK /\ OpenHasFile /\ AtEnd

(* "Only open an existing file, never creating one implicitly. Default for *)
(* 'write'", says the comment on no_create.                                *)
WriteAloneNeverCreates ==
    [][~stream.open /\ stream'.open /\ req' = {"write"} => file.exists]_vars
=============================================================================
