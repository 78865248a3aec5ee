---------------------------- MODULE MCS3Objects ----------------------------
(* A small instance of S3Objects for TLC.                                  *)
EXTENDS S3Objects

(* 1, 3 and 5 are "/a", "/b/x" and "a".  With the prefix "/" and the       *)
(* delimiter "/", 3 is listed as "/b/", which is 2.                        *)
FolderOf == [k \in Keys |-> IF k = 3 THEN 2 ELSE k]

WithoutSlash == [k \in Slashed |-> 5]

(* 1970-01-01, 1972-02-29, 1999-12-31 and 2100-03-01, at the first, the    *)
(* last and other seconds of the day.                                      *)
SomeClocks == {<<0, 0>>, <<789, 86399>>, <<10956, 3599>>, <<47541, 43200>>}
============================================================================
