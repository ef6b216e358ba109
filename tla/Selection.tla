------------------------------ MODULE Selection ------------------------------
(***************************************************************************)
(* The part of a sequence that lies in a set: what a loop sees that walks  *)
(* a list and passes over the entries it does not look for.  A recursive   *)
(* function and a set instead of SelectSeq and a test, so that the modules *)
(* that search lists can be proved about.                                  *)
(***************************************************************************)
EXTENDS Integers, Sequences

\* The entries of s that are in A, in their order.
Picked(s, A) ==
    LET upto[n \in 0 .. Len(s)] ==
            IF n = 0 THEN << >>
            ELSE IF s[n] \in A THEN Append(upto[n - 1], s[n]) ELSE upto[n - 1]
    IN  upto[Len(s)]

\* s without the entry at position i.
Erased(s, i) == SubSeq(s, 1, i - 1) \o SubSeq(s, i + 1, Len(s))
=============================================================================
