-------------------------------- MODULE Sieve --------------------------------
(* What is left of a sequence without some of its values: SelectSeq, written  *)
(* as a function so that it can be proved about.                              *)
EXTENDS Naturals, Sequences

Without(s, values) ==
  LET f[k \in 0..Len(s)] ==
        IF k = 0 THEN << >> ELSE IF s[k] \in values THEN f[k - 1] ELSE Append(f[k - 1], s[k])
  IN  f[Len(s)]
=============================================================================
