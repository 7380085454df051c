------------------------------ MODULE PeLayout ------------------------------
(***************************************************************************)
(* The section table of a PE image as pe_lib keeps it in memory and lays   *)
(* it out in a file (pe_base.cpp, pe_section.cpp, pe_rebuilder.cpp).       *)
(*                                                                         *)
(* A section is a record: its header fields va (VirtualAddress), vsz       *)
(* (VirtualSize), raw (SizeOfRawData), ptr (PointerToRawData), and data,   *)
(* the bytes of raw_data_.  A byte is a number, 0 the null byte; what the  *)
(* other values mean never matters.  An image carries no bound import      *)
(* directory, and sizes stay far below 2^32.                               *)
(***************************************************************************)
EXTENDS Integers, Sequences, FiniteSets

CONSTANTS
  FileAlign,    (* FileAlignment of the images                             *)
  SectAlign,    (* SectionAlignment of the images                          *)
  HdrFixed,     (* size of DOS header, stub, NT headers, data directories  *)
  ShdrSize,     (* sizeof(image_section_header)                            *)
  MaxSections   (* maximum_number_of_sections                              *)

(* read_pe refuses an image whose alignments are not powers of two with    *)
(* FileAlign <= SectAlign (pe_base.cpp:824-833).                           *)
ASSUME AlignAssumption ==
  /\ FileAlign \in Nat \ {0}
  /\ SectAlign \in Nat \ {0}
  /\ SectAlign % FileAlign = 0

ASSUME SizeAssumption ==
  /\ HdrFixed \in Nat \ {0}
  /\ ShdrSize \in Nat \ {0}
  /\ MaxSections \in Nat

HdrByte == 1                      \* stands for any byte of a header

Section == [va: Nat, vsz: Nat, raw: Nat, ptr: Nat, data: Seq(Nat)]

(***************************************************************************)
(* Arithmetic of pe_utils.  The code masks bits of a power of two.         *)
(***************************************************************************)
AlignDown(x, a) == x - (x % a)
AlignUp(x, a)   == IF x % a # 0 THEN AlignDown(x, a) + a ELSE x

(* std::string::resize(n, 0) and the reads of n bytes at an offset         *)
Resize(d, n) == [k \in 1..n |-> IF k <= Len(d) THEN d[k] ELSE 0]
Slice(bytes, at, n) == [k \in 1..n |-> bytes[at + k]]

(* A faulty StrippedLen, for the check of Implements: it drops every null  *)
(* byte and not only those at the end.                                     *)
CountNonNull(d) == Cardinality({k \in 1..Len(d) : d[k] # 0})

(* How much of d is left when the null bytes that end it are stripped:     *)
(* the cells that have a byte other than null at or after them.            *)
StrippedLen(d) == Cardinality({k \in 1..Len(d) : \E j \in k..Len(d) : d[j] # 0})

(***************************************************************************)
(* Sizes of one section (pe_section.cpp:224, 240).                         *)
(***************************************************************************)
AlignedVirtualSize(s) ==
  IF s.raw # 0 /\ s.vsz = 0 THEN AlignUp(s.raw, SectAlign)
                            ELSE AlignUp(s.vsz, SectAlign)
AlignedRawSize(s) == IF s.raw # 0 THEN AlignUp(s.raw, FileAlign) ELSE 0

EndOf(s)      == s.va + AlignedVirtualSize(s)
HeaderSize(n) == HdrFixed + n * ShdrSize

(* update_image_size: the headers end an image without sections.           *)
ImageSize(ss, soh) == IF ss = <<>> THEN soh ELSE EndOf(ss[Len(ss)])

(***************************************************************************)
(* Reading one section (the loop of read_pe, pe_base.cpp:864-920).  A      *)
(* section with more raw data than virtual space is cut to VirtualSize.    *)
(***************************************************************************)
LoadedRaw(h) ==
  IF AlignUp(h.raw, FileAlign) > AlignUp(h.vsz, SectAlign) THEN h.vsz ELSE h.raw

LoadSection(h, bytes) ==
  [h EXCEPT !.raw  = LoadedRaw(h),
            !.data = IF h.raw = 0 THEN <<>>
                     ELSE Slice(bytes, AlignDown(h.ptr, FileAlign), LoadedRaw(h))]

SectionReadable(h, soi, filesize) ==
  /\ h.raw # 0 \/ h.vsz # 0
  /\ h.raw # 0 =>
       /\ h.va + AlignUp(h.vsz, SectAlign) <= AlignUp(soi, SectAlign)
       /\ AlignDown(h.ptr, FileAlign) + LoadedRaw(h) <= filesize
  /\ h.va + AlignedVirtualSize([h EXCEPT !.raw = LoadedRaw(h)])
       <= AlignUp(soi, SectAlign)

(* The checks read_pe makes once all sections are loaded (:922-961): the   *)
(* table covers the address space without holes, and the headers, which    *)
(* end where the first section with data begins, are in the file.          *)
Contiguous(ss) == \A k \in 1..(Len(ss) - 1) : ss[k + 1].va = EndOf(ss[k])
HeadersEnd(ss, soh) ==
  {soh} \union {ss[k].ptr : k \in {n \in 1..Len(ss) :
                 ss[n].data # <<>> /\ \A m \in 1..(n - 1) : ss[m].data = <<>>}}
TableReadable(ss, soh, filesize) ==
  /\ ss # <<>> => soh <= ss[1].va
  /\ Contiguous(ss)
  /\ (\E k \in 1..Len(ss) : ss[k].data # <<>>) =>
        \E e \in HeadersEnd(ss, soh) : e <= filesize

(***************************************************************************)
(* Changing the table.                                                     *)
(***************************************************************************)
(* prepare_section; it throws when both sizes would be zero                *)
Preparable(s) == Len(s.data) # 0 \/ s.vsz # 0
PrepareSection(s) ==
  LET raw == AlignUp(Len(s.data), FileAlign)
      up  == AlignUp(s.vsz, SectAlign)
  IN  [s EXCEPT !.raw = raw,
                !.vsz = IF s.vsz = 0 THEN raw
                        ELSE IF raw > up THEN raw ELSE up]

(* A faulty AddSection, for the check of DataAtPointer: the raw size of    *)
(* the section that was last is rounded down.                              *)
AddRoundedDown(ss, soh, new) ==
  LET p == PrepareSection(new)
      n == Len(ss)
  IN  IF n = 0
      THEN << [p EXCEPT !.va = AlignUp(IF p.va = 0 THEN soh ELSE p.va, SectAlign)] >>
      ELSE Append([ss EXCEPT ![n].raw = AlignDown(Len(ss[n].data), FileAlign)],
                  [p EXCEPT !.va = AlignUp(EndOf(ss[n]), SectAlign)])

(* add_section: the new section follows the last one, whose raw size is    *)
(* aligned (its data is not resized)                                       *)
AddSection(ss, soh, new) ==
  LET p == PrepareSection(new)
      n == Len(ss)
  IN  IF n = 0
      THEN << [p EXCEPT !.va = AlignUp(IF p.va = 0 THEN soh ELSE p.va, SectAlign)] >>
      ELSE Append([ss EXCEPT ![n].raw = AlignUp(Len(ss[n].data), FileAlign)],
                  [p EXCEPT !.va = AlignUp(EndOf(ss[n]), SectAlign)])

(* set_section_virtual_size of the last section; throws when it would      *)
(* leave the section without any size                                      *)
VirtualSizeSettable(s, vsize) == vsize # 0 \/ s.data # <<>>
SetSectionVirtualSize(ss, vsize) ==
  [ss EXCEPT ![Len(ss)].vsz = IF vsize = 0 THEN ss[Len(ss)].raw ELSE vsize]

(* A faulty RealignSection, for the check of TypeOK: the strip loop stops  *)
(* one byte too late.                                                      *)
RealignOneMore(ss, k) ==
  LET s == ss[k]
      n == IF k = Len(ss) THEN StrippedLen(s.data) - 1 ELSE AlignedRawSize(s)
  IN  [ss EXCEPT ![k] = [s EXCEPT !.raw = n, !.data = Resize(s.data, n)]]

(* realign_section: the last section loses its final null bytes, any other *)
(* is filled up to its aligned raw size                                    *)
RealignSection(ss, k) ==
  LET s == ss[k]
      n == IF k = Len(ss) THEN StrippedLen(s.data) ELSE AlignedRawSize(s)
  IN  [ss EXCEPT ![k] = [s EXCEPT !.raw = n, !.data = Resize(s.data, n)]]

(* What a process that runs the image sees of a section: VirtualSize bytes *)
(* from its address on, the raw data first and null bytes after it.        *)
Mapped(s)      == [va |-> s.va, vsz |-> s.vsz, mem |-> Resize(s.data, s.vsz)]
MappedImage(ss) == [k \in 1..Len(ss) |-> Mapped(ss[k])]

=============================================================================
