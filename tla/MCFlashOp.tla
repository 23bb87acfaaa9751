------------------------------ MODULE MCFlashOp -----------------------------
(* FlashOp for TLC: two pages of two words, writes of one to three words,  *)
(* so that a write crosses a page; two retries stand for the code's four.  *)
EXTENDS FlashOp

MCWord == {"erased", "garbled", "a", "b"}
MCBursts == {<<"a">>, <<"b", "a">>, <<"a", "b", "a">>}
=============================================================================
