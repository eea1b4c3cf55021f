----------------------------- MODULE MCActChunks -----------------------------
(* Instances of ActChunks for TLC.                                         *)
EXTENDS ActChunks

(* Four symbols in two chunks: 2 calls 1 and 3, 3 calls 1, 4 calls 2.     *)
(* There is no recursion, yet the halves <<1, 2>> and <<3, 3>> of the      *)
(* first chunk call each other; <<1, 2>> splits again with a call across.  *)
MCCrossCalls == {<<2, 1>>, <<2, 3>>, <<3, 1>>, <<4, 2>>}
MCCrossPlan == {<<1, 3>>, <<4, 4>>}
=============================================================================
