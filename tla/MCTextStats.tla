---------------------------- MODULE MCTextStats ----------------------------
(* Small instances of TextStats for TLC.                                   *)
EXTENDS TextStats
============================================================================
