---------------------------- MODULE MCJitSession ------------------------------
(***************************************************************************)
(* An instance of JitSession: two hook files, two instructions, pointers   *)
(* of four bytes, and a block that the fourth text is beyond.              *)
(***************************************************************************)
EXTENDS JitSession

CONSTANTS A, B

MCInstrs == {[len |-> 1, size |-> 1], [len |-> 2, size |-> 2]}
=============================================================================
