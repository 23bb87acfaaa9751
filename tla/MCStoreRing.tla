----------------------------- MODULE MCStoreRing ----------------------------
(* StoreRing for TLC.  Three pages of four words, records of one to three  *)
(* words: a record with its sequence word can fill a page exactly, end on  *)
(* its last word, or straddle two pages, and six records wrap the region.  *)
EXTENDS StoreRing

MCRecWords == [k \in {"hdr", "chunk"} |-> IF k = "hdr" THEN 1 ELSE 3]
MCPriority == <<"hdr", "chunk">>
=============================================================================
