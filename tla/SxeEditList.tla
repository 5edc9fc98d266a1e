---------------------------- MODULE SxeEditList ----------------------------
(***************************************************************************)
(* The order of the edits of one record (sxe/sxeedit and the list edits_   *)
(* of sxe/sxerecord).                                                      *)
(*                                                                         *)
(* s stands for edits_ without its New edit, so that an index of s is an   *)
(* index of edits_ and Len(s) is version().  Only the field version of an  *)
(* edit matters here.                                                      *)
(***************************************************************************)
EXTENDS Integers, Sequences

OverriddenBy(e, f) == f.version <= e.version

\* The edit at i takes effect when its version is its index and the next edit
\* of the sorted list does not override it.
EffectiveEarly(s, i) == i < Len(s) => ~OverriddenBy(s[i], s[i + 1])
EffectiveFirst(s, i) == s[i].version = i
Effective(s, i) ==
    /\ s[i].version = i
    /\ i < Len(s) => ~OverriddenBy(s[i], s[i + 1])

\* What qSort may return: it is not stable, so edits of the same version come
\* in any order.
Sorted(s) == \A i, j \in 1 .. Len(s) : i < j => s[i].version <= s[j].version
Shuffle(s, f) == [i \in 1 .. Len(s) |-> s[f[i]]]
Orders(s) ==
    {f \in [1 .. Len(s) -> 1 .. Len(s)] :
        /\ \A i, j \in 1 .. Len(s) : f[i] = f[j] => i = j
        /\ Sorted(Shuffle(s, f))}

InOrder(s, e) ==
    /\ e.version = Len(s) + 1
    /\ s # <<>> => ~OverriddenBy(s[Len(s)], e)
=============================================================================
