------------------------------ MODULE MCInputs ------------------------------
EXTENDS Inputs

CONSTANTS c1, c2, t1, t2

(* Two frames, an empty frame, a frame without an end, nothing. *)
MCStreams == {<<"a", NUL, "b", NUL>>, <<NUL, "a", "b">>, <<"a", NUL>>, <<>>}

(* An empty datagram, one that fits, one that is too long. *)
MCSizes == <<1, 0, 3, 2>>
=============================================================================
