----------------------------- MODULE MCHandoff -----------------------------
(* Two of the seven shots: a last one, and one before it.                  *)
EXTENDS PhotoHandoff

TwoShots == {1, 2}
=============================================================================
