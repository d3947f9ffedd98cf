------------------------------- MODULE Pieces -------------------------------
(***************************************************************************)
(* What `split` makes of a text, here a sequence of kinds of characters.   *)
(***************************************************************************)
EXTENDS Naturals, Sequences

(* Where a piece may end: at a separator, and before and after the text.   *)
Cuts(t, separator) ==
  {0, Len(t) + 1} \cup {i \in 1 .. Len(t) : t[i] = separator}

(* The stretches between one separator and the next, empty ones included.  *)
PiecesOf(t, separator) ==
  LET cuts == Cuts(t, separator)
      Next(i, j) == i < j /\ \A k \in cuts : ~(i < k /\ k < j)
  IN {SubSeq(t, c[1] + 1, c[2] - 1) :
        c \in {p \in cuts \X cuts : Next(p[1], p[2])}}
=============================================================================
