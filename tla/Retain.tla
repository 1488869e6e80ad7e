------------------------------- MODULE Retain -------------------------------
(* Vec::retain, by which the send buffers take out what is acknowledged. *)
EXTENDS Naturals, Sequences

\* What is left of s, in its order, when only the elements at these places are kept.
Retained(s, places) ==
  LET left[k \in 0 .. Len(s)] ==
        IF k = 0 THEN <<>>
        ELSE IF k \in places THEN Append(left[k - 1], s[k]) ELSE left[k - 1]
  IN left[Len(s)]
=============================================================================
