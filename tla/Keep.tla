-------------------------------- MODULE Keep --------------------------------
(***************************************************************************)
(* What Iterator::filter and retain leave of a sequence: the elements that *)
(* are in a set, in their order.  This is SelectSeq, as a recursive         *)
(* function of the length of the prefix looked at.                         *)
(***************************************************************************)
EXTENDS Naturals, Sequences

KeptOfPrefix(seq, S) ==
  LET kept[n \in 0..Len(seq)] ==
        IF n = 0 THEN <<>>
        ELSE IF seq[n] \in S THEN Append(kept[n - 1], seq[n]) ELSE kept[n - 1]
  IN kept

Keep(seq, S) == KeptOfPrefix(seq, S)[Len(seq)]
=============================================================================
