------------------------------ MODULE MCPacker --------------------------------
(***************************************************************************)
(* An instance of Packer: two files of one directory, empty, of a line of  *)
(* text or of a marker; a build of the program and a larger one.           *)
(***************************************************************************)
EXTENDS Packer

CONSTANTS b, c, hooks, old, new

MCDirOf  == [n \in Names |-> hooks]
MCSizeOf == [d \in Builds |-> IF d = old THEN 1 ELSE 2]

Text == [kind |-> "text", arg |-> NoName]

MCContents == {<<>>, <<Text>>, <<[kind |-> "start", arg |-> c]>>}
=============================================================================
