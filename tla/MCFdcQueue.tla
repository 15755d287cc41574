---------------------------- MODULE MCFdcQueue -----------------------------
(* Instances of FdcQueue for TLC: bodies that pass, that cannot be hashed   *)
(* and that are too big.                                                    *)
EXTENDS FdcRefinement

MCBodies == {"good", "other", "odd", "big"}
MCTooBig == {"big"}
MCUnhashable == {"odd"}
=============================================================================
