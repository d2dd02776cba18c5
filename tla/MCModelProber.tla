----------------------------- MODULE MCModelProber -----------------------------
(* ModelProber for TLC: three models. *)
EXTENDS ModelProber

CONSTANTS a, b, c

MCScanOrder == <<a, b, c>>
=============================================================================
