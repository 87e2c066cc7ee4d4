------------------------------- MODULE Filter --------------------------------
(***************************************************************************)
(* The elements of a sequence that are in a set, in their order.  It is    *)
(* SelectSeq of the standard module for a test of membership, written as a *)
(* recursive function because proofs cannot look inside SelectSeq.         *)
(***************************************************************************)
EXTENDS Naturals, Sequences

(* The elements in T of the first i elements of s, for every i.            *)
FilterPrefixes(s, T) ==
  LET kept[i \in 0 .. Len(s)] ==
        IF i = 0 THEN << >>
        ELSE IF s[i] \in T THEN Append(kept[i - 1], s[i]) ELSE kept[i - 1]
  IN kept

Filter(s, T) == FilterPrefixes(s, T)[Len(s)]
=============================================================================
