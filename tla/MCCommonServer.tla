---------------------------- MODULE MCCommonServer ----------------------------
(* CommonServer on small sets, for TLC. *)
EXTENDS CommonServer

\* With four values for a byte, a length of four takes the second byte of the header.  The
\* second body would be a header itself.
MCBodies == {<<3>>, <<1, 0, 0, 0>>}

\* Zero, and a negative number.
MCAbnormal == {<<0, 0, 0, 0>>, <<1, 0, 0, 3>>}

\* Too few, one, two, too many.
MCRequests == {-1, 1, 2, 3}
=============================================================================
