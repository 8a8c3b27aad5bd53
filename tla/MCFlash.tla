------------------------------- MODULE MCFlash -------------------------------
(* Six pages of two double words, three to an erase block.  Single double words   *)
(* look erased, and pages that are not the first of a block.                       *)
EXTENDS Flash

LOCAL INSTANCE TLC

Pair(x, y) == (0 :> x) @@ (1 :> y)

MCContents == {"blank", "a", "b"}

MCPageData ==
  [p \in Pages |->
     IF p = FirstPage(p) THEN {Pair("blank", "a"), Pair("b", "blank")}
                         ELSE {Pair("a", "b"), Pair("blank", "a"), BlankPage}]
=============================================================================
