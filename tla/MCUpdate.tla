------------------------------- MODULE MCUpdate -------------------------------
(* A long image of three pages and a short one of two; two chunks a page, and one *)
(* in the last page of the long image.                                            *)
EXTENDS UpdateSystem

CONSTANTS Long, Short

MCPageCountOf == [image \in Images |-> IF image = Long THEN 3 ELSE 2]
MCLastChunkCount == [image \in Images |-> IF image = Long THEN 1 ELSE 2]
=============================================================================
