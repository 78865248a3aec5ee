-------------------------- MODULE MCLocalCopy --------------------------
(* Small instances of LocalCopy for TLC.                                   *)
EXTENDS LocalCopy

(* Two bytes, then one: a replacement, or the text of an error, is shorter.*)
Lengths == [v \in Versions |-> IF v = 1 THEN 2 ELSE 1]
============================================================================
