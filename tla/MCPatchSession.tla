--------------------------- MODULE MCPatchSession ---------------------------
(***************************************************************************)
(* Small sessions.  Files: an original, an output beside it or in a        *)
(* directory, an output patched again, the original as its own output, an  *)
(* input that is not there, a directory to deploy to, which may be the     *)
(* input or the output; one hook that can be measured or not.  Hooks: one  *)
(* original and one output, two hooks of which the name of one begins with *)
(* the name of the other, two revisions.                                   *)
(***************************************************************************)
EXTENDS PatchSession

Names  == {"in", "out", "dir/out", "deploy", "absent"}
Cut(p) == IF p = "dir/out" THEN "out" ELSE p
CutDir == [p \in Names |-> Cut(p)]

FourNames == Names \ {"deploy"}
CutFour   == [p \in FourNames |-> Cut(p)]

Ini(in, out, copy, del) == [in |-> in, out |-> out, copy |-> copy, del |-> del]
InOut(in, out)          == [in |-> in, out |-> out]

FilesIni   == {Ini("in", "out", "deploy", FALSE)}
FourIni    == {Ini("in", "out", copy, FALSE) : copy \in {"in", "dir/out"}}
FilesTyped == {InOut("in", "dir/out"), InOut("absent", "out"),
               InOut("in", "in"), InOut("out", "dir/out")}
OneHook    == {"hook_A"}
Itself     == [h \in OneHook |-> {h}]

TwoNames   == {"in", "out"}
SameNames  == [p \in TwoNames |-> p]
HooksIni   == {Ini("in", "out", NoFile, del) : del \in BOOLEAN}
HooksTyped == {InOut("in", "out")}
TwoHooks   == {"hook_A", "hook_AB"}
Contained  == [h \in TwoHooks |-> IF h = "hook_A" THEN TwoHooks ELSE {h}]
=============================================================================
