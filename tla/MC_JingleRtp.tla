----------------------------- MODULE MC_JingleRtp -----------------------------
(* Constants to check JingleRtp with TLC: voice alone, and voice with video. *)
EXTENDS JingleRtp

Voice == {"audio"}
MC_Modes == {Voice, Media}
================================================================================
