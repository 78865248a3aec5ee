---------------------- MODULE MCResumableHttpReader ----------------------
(* Small instances of ResumableHttpReader for TLC.                         *)
EXTENDS ResumableHttpReader

(* Version v has v + 1 bytes: every replacement is longer than the last.   *)
GrowingLength == [v \in Versions |-> v + 1]

(* A replacement may be shorter: three, then two bytes, and so on.         *)
ShrinkingLength == [v \in Versions |-> 4 - v]

(* Each version has validators of its own.                                 *)
OwnValidator == [v \in Versions |-> v]

(* Every response carries at least one validator; not always the same.     *)
ValidatedHeaders == {h \in SUBSET HeaderNames : h \cap Validators # {}}

(* Every response carries every header.                                    *)
AllHeaders == {HeaderNames}

(* Any response may carry any headers.                                     *)
AnyHeaders == SUBSET HeaderNames
============================================================================
