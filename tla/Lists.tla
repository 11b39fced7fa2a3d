------------------------------- MODULE Lists --------------------------------
(* The Exec lists of several components, as sequences. *)
EXTENDS Naturals, Sequences

\* What REMOVE() of those in gone leaves of a list.  (SelectSeq of the standard
\* module is the same; this form can be proved about.)
Without(s, gone) ==
  LET left[i \in 0 .. Len(s)] ==
        IF i = 0 THEN << >>
        ELSE IF s[i] \in gone THEN left[i - 1] ELSE Append(left[i - 1], s[i])
  IN  left[Len(s)]
=============================================================================
