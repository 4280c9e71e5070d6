------------------------------ MODULE BytePipe ------------------------------
(***************************************************************************)
(* What every byte-moving component of neo-io promises, whatever it does   *)
(* in between: the bytes that came out are the bytes that went in, in      *)
(* order, each once, and what came out is never taken back.  A component   *)
(* implements it with INSTANCE BytePipe WITH put <- ..., got <- ...        *)
(***************************************************************************)
EXTENDS SequencesExt

VARIABLES put,  \* the bytes handed to the component so far
          got   \* those it has passed on so far

vars == <<put, got>>

Init == got = <<>>

Transfer == /\ IsPrefix(put, put')
            /\ IsPrefix(got, got')
            /\ IsPrefix(got', put')

Spec == Init /\ [][Transfer]_vars
=============================================================================
