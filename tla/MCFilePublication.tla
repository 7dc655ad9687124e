-------------------------- MODULE MCFilePublication --------------------------
(* A snapshot with its receipt, a rival with the same names and one more,   *)
(* and a single file that is one of theirs.                                 *)
EXTENDS FilePublication

MCContents ==
  [p \in {"snapshot", "rival", "single"} |->
     CASE p = "snapshot" -> <<"body", "receipt">>
       [] p = "rival"    -> <<"receipt", "body", "index">>
       [] p = "single"   -> <<"receipt">>]
==============================================================================
