---------------------------- MODULE MCBinSection ----------------------------
(***************************************************************************)
(* Small instances of BinSection.  A file alignment of 2 and a section     *)
(* alignment of 4 give every relation between raw size, virtual size and   *)
(* alignment that 0x200 and 0x1000 give: sizes of 0, below, at and above   *)
(* one unit.                                                               *)
(***************************************************************************)
EXTENDS BinSection

(* An original file: sections of the given raw and virtual sizes, the      *)
(* first at address va0, laid out as linkers do (aligned pointers, every   *)
(* section padded to the alignment).  Its data ends in a null byte now and *)
(* then, so that realign_section finds something to strip.                 *)
Cell(k, b) == IF (k + b) % 3 = 0 THEN 0 ELSE 10 * k + b

File1(va0, a) ==
  LET p == AlignUp(HeaderSize(1), FileAlign)
      h == [va |-> va0, vsz |-> a[2], raw |-> a[1], ptr |-> p, data |-> <<>>]
  IN  [secs |-> <<h>>, soh |-> p, soi |-> EndOf(h),
       bytes |-> [b \in 1..(p + a[1]) |-> IF b <= p THEN HdrByte ELSE Cell(1, b - p)]]

File2(va0, a, c) ==
  LET p == AlignUp(HeaderSize(2), FileAlign)
      h == [va |-> va0, vsz |-> a[2], raw |-> a[1], ptr |-> p, data |-> <<>>]
      q == p + AlignUp(a[1], FileAlign)
      g == [va |-> EndOf(h), vsz |-> c[2], raw |-> c[1], ptr |-> q, data |-> <<>>]
  IN  [secs |-> <<h, g>>, soh |-> p, soi |-> EndOf(g),
       bytes |-> [b \in 1..(q + c[1]) |->
                    CASE b <= p           -> HdrByte
                      [] b > p /\ b <= q  -> IF b - p <= a[1] THEN Cell(1, b - p) ELSE 0
                      [] OTHER            -> Cell(2, b - q)]]

(* an image without sections                                               *)
File0 == [secs |-> <<>>, soh |-> 4, soi |-> 4, bytes |-> [b \in 1..4 |-> HdrByte]]

(* One file patched in place, as it is when target_out has the name of     *)
(* target_in in another directory (the directory is cut off), over and     *)
(* over, by runs with other settings:                                      *)
(* SizeOfRawData below and above VirtualSize, no raw data, VirtualSize left*)
(* to the raw size, and both zero, which add_section refuses.              *)
InPlace  == {"exe"}
SameFile == [p \in InPlace |-> p]

AllSettings == {[raw |-> 3, vsz |-> 5], [raw |-> 8, vsz |-> 2], [raw |-> 0, vsz |-> 2],
                [raw |-> 2, vsz |-> 0], [raw |-> 0, vsz |-> 0]}

(* two sections with a hole between their addresses, which read_pe refuses *)
Gap ==
  LET f == File2(8, <<3, 3>>, <<2, 2>>)
  IN  [f EXCEPT !.secs[2].va = @ + SectAlign, !.soi = @ + SectAlign]

AllOriginals ==
  {File0, Gap} \union {File1(va0, a) : va0 \in {4, 8}, a \in {<<3, 3>>, <<0, 4>>, <<7, 2>>}}
    \union {File2(va0, a, c) : va0 \in {4, 8}, a \in {<<3, 5>>, <<0, 1>>},
                               c \in {<<2, 2>>, <<6, 1>>}}

(* An input, an output, and the output's name with a directory.            *)
InAndOut == {"in", "out", "dir/out"}
CutDir   == [p \in InAndOut |-> IF p = "dir/out" THEN "out" ELSE p]

OneSetting == {[raw |-> 8, vsz |-> 5]}

SomeOriginals == {File1(8, <<7, 2>>), File2(8, <<0, 1>>, <<2, 2>>)}

(* a linker that leaves VirtualSize at zero                                *)
ZeroSize == {File1(8, <<3, 0>>)}
=============================================================================
