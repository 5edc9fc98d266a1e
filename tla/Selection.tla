------------------------------ MODULE Selection ------------------------------
(***************************************************************************)
(* Taking entries out of a sequence while the others keep their order:     *)
(* what SelectSeq gives for the entries at the places in K, as a function  *)
(* defined by recursion, which proofs can unfold (see Recursion).          *)
(***************************************************************************)
EXTENDS Integers, Sequences

\* Those of the first n entries of s whose places are in K.
SelectedTo(s, K, n) ==
    LET f[i \in 0 .. Len(s)] ==
            IF i = 0 THEN <<>>
            ELSE IF i \in K THEN Append(f[i - 1], s[i])
            ELSE f[i - 1]
    IN  f[n]
Selected(s, K) == SelectedTo(s, K, Len(s))
=============================================================================
