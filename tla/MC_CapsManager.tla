--------------------------- MODULE MC_CapsManager ---------------------------
(* Constants to check CapsManager with TLC. *)
EXTENDS CapsManager

CONSTANTS a1, a2, j1, n1, n2, v1, v2, e1, none

\* Two versions of one program that share an extension; another program; and a
\* presence without a version.
Kinds == {[node |-> n1, ver |-> v1, exts |-> {e1}], [node |-> n1, ver |-> v2, exts |-> {e1}],
          [node |-> n2, ver |-> v1, exts |-> {}], [node |-> n1, ver |-> none, exts |-> {}]}
=============================================================================
