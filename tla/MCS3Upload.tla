----------------------------- MODULE MCS3Upload -----------------------------
(* Small instances of S3Upload for TLC.                                    *)
EXTENDS S3Upload

(* Version 1 goes in one PUT (with Threshold 2), version 2 in two parts    *)
(* and version 3 in three (with MaxParts 3), the last of them short: its   *)
(* parts must be larger than MinPartSize to be few enough.                 *)
Lengths == [v \in Versions |-> IF v = 3 THEN 7 ELSE 2 * v - 1]
============================================================================
