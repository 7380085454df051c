---------------------------- MODULE MCApplyHook -----------------------------
(***************************************************************************)
(* Every hook of up to five bytes of code and two of read-only data, with  *)
(* align_size 8 instead of 0x100: code that fits into half of it, code     *)
(* that does not, code that begins with or contains null bytes, no code.   *)
(***************************************************************************)
EXTENDS ApplyHook

Upto(n) == UNION {[1..m -> {0, 1}] : m \in 0..n}

SmallObjects == [text: Upto(5), rdata: Upto(2)]
=============================================================================
