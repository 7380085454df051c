----------------------------- MODULE BinSection -----------------------------
(***************************************************************************)
(* BinSection::create_Section and BinSection::remove_last_Section: read a  *)
(* PE file, change its section table in memory, truncate the output file   *)
(* and write the image into it (binSection.cpp, pe_base.cpp,               *)
(* pe_rebuilder.cpp).                                                      *)
(*                                                                         *)
(* Every read, change and write that another run of the program can find   *)
(* half done is an action; the loops over the sections are one action per  *)
(* section.  A pe_exception leaves both functions uncaught and ends the    *)
(* process, debug_pause returns to the menu, and the process may be killed *)
(* between any two steps: whatever is on disk then stays there.            *)
(***************************************************************************)
EXTENDS PeLayout

CONSTANTS
  Paths,      (* names of PE files as the user may give them               *)
  Base,       (* Base[q]: q without its directory, a file of the working   *)
              (* directory                                                 *)
  Settings,   (* the values of sectionSize and sectionVSize in settings.ini*)
  Originals,  (* the PE files the user may start with                      *)
  Supplied,   (* where that file lies                                      *)
  NoFile      (* content of a path at which there is no file               *)

ASSUME PathAssumption ==
  /\ Base \in [Paths -> Paths]
  /\ Supplied \in Paths
  /\ Settings \subseteq [raw: Nat, vsz: Nat]

VARIABLES
  disk,     (* the files, by path                                          *)
  conf,     (* sectionSize and sectionVSize as ParseSettings read them     *)
  pc,       (* the step the program is at                                  *)
  op,       (* "create" or "remove"                                        *)
  inp,      (* path of pe_file                                             *)
  outp,     (* out_file_name once its directory is cut off                 *)
  secs,     (* sections_ of image                                          *)
  soh,      (* SizeOfHeaders of image                                      *)
  soi,      (* SizeOfImage of image                                        *)
  i,        (* index of the loop over the sections                         *)
  cur,      (* ptr_to_section_data                                         *)
  outcome,  (* how the last operation ended                                *)
  goal      (* history, read by no action: the image, as a process sees it *)
            (* once mapped, that the operation is to leave in its output   *)

image == <<secs, soh, soi, i, cur>>
call  == <<conf, op, inp, outp, goal>>
vars  == <<disk, pc, outcome, image, call>>

(***************************************************************************)
(* Files.  The fields of the headers are kept decoded, in secs (section    *)
(* headers, no data), soh and soi; bytes is what the file holds, headers   *)
(* included.                                                               *)
(***************************************************************************)
File == [secs: Seq(Section), soh: Nat, soi: Nat, bytes: Seq(Nat)]
Truncated == [secs |-> <<>>, soh |-> 0, soi |-> 0, bytes |-> <<>>]

ASSUME OriginalAssumption == Originals \subseteq File

(* NoFile is neither a file nor an image.                                  *)
ASSUME NoFileAssumption ==
  /\ NoFile \notin File
  /\ NoFile \notin Seq([va: Nat, vsz: Nat, mem: Seq(Nat)])

Count == Len(secs)

HeadersReadable(f) ==
  /\ HeaderSize(Len(f.secs)) <= Len(f.bytes)
  /\ Len(f.secs) <= MaxSections
  /\ AlignUp(f.soi, SectAlign) # 0

(* A faulty HeaderOf, for the check of DoneReopens: the last header keeps  *)
(* its aligned raw size.                                                   *)
HeaderAsItIs(ss, k) == [ss[k] EXCEPT !.data = <<>>]

(* The header that rebuild_pe writes for section k: the last section's     *)
(* SizeOfRawData is the length of its data, not aligned.                   *)
HeaderOf(ss, k) ==
  [ss[k] EXCEPT !.data = <<>>,
                !.raw  = IF k = Len(ss) THEN Len(ss[k].data) ELSE @]

PadTo(bytes, n) == IF n > Len(bytes) THEN Resize(bytes, n) ELSE bytes

(* What the two functions promise of the image they have read: one section *)
(* of null bytes more, right after the last one, or the last one less.     *)
Wanted ==
  LET img  == MappedImage(secs)
      last == img[Len(img)]
      at   == AlignUp(IF img = <<>> THEN soh ELSE last.va + last.vsz, SectAlign)
      vsz  == IF conf.vsz # 0 THEN conf.vsz ELSE AlignUp(conf.raw, FileAlign)
      refused == IF op = "create" THEN conf.raw = 0 /\ conf.vsz = 0 ELSE img = <<>>
  IN  CASE refused -> NoFile
        [] op = "create" /\ ~refused ->
             Append(img, [va |-> at, vsz |-> vsz, mem |-> Resize(<<>>, vsz)])
        [] op = "remove" /\ ~refused -> SubSeq(img, 1, Len(img) - 1)

(***************************************************************************)
(* The menu calls one of the two functions.                                *)
(***************************************************************************)
Begin(o, p, q) ==
  /\ pc = "idle"
  /\ disk[p] # NoFile                  \* FileIO opened it
  /\ op' = o /\ inp' = p /\ outp' = Base[q]
  /\ secs' = <<>> /\ soh' = 0 /\ soi' = 0 /\ i' = 1 /\ cur' = 0
  /\ pc' = "headers"
  /\ outcome' = "running"
  /\ UNCHANGED <<disk, conf, goal>>

Throw(from, condition) ==
  /\ pc = from
  /\ condition
  /\ pc' = "terminated"
  /\ outcome' = "failed"
  /\ UNCHANGED <<disk, image, call>>

Step(from, to) == pc = from /\ pc' = to /\ UNCHANGED <<outcome, call>>

(***************************************************************************)
(* create_pe: read_pe                                                      *)
(***************************************************************************)
ReadHeaders ==
  /\ Step("headers", "sections")
  /\ HeadersReadable(disk[inp])
  /\ soh' = disk[inp].soh
  /\ soi' = disk[inp].soi
  /\ UNCHANGED <<disk, secs, i, cur>>

BadHeaders == Throw("headers", ~HeadersReadable(disk[inp]))

ReadSection ==
  LET f == disk[inp] IN
  /\ Step("sections", "sections")
  /\ i <= Len(f.secs)
  /\ SectionReadable(f.secs[i], soi, Len(f.bytes))
  /\ secs' = Append(secs, LoadSection(f.secs[i], f.bytes))
  /\ i' = i + 1
  /\ UNCHANGED <<disk, soh, soi, cur>>

BadSection ==
  LET f == disk[inp] IN
  Throw("sections", i <= Len(f.secs) /\ ~SectionReadable(f.secs[i], soi, Len(f.bytes)))

ReadDone ==
  /\ pc = "sections"
  /\ i > Len(disk[inp].secs)
  /\ TableReadable(secs, soh, Len(disk[inp].bytes))
  /\ pc' = IF op = "create" THEN "add" ELSE "open"
  /\ goal' = Wanted
  /\ UNCHANGED <<disk, image, outcome, conf, op, inp, outp>>

BadTable ==
  Throw("sections", /\ i > Len(disk[inp].secs)
                    /\ ~TableReadable(secs, soh, Len(disk[inp].bytes)))

(***************************************************************************)
(* create_Section, before it opens its output                              *)
(***************************************************************************)
NewSection ==
  [va |-> 0, vsz |-> 0, raw |-> 0, ptr |-> 0, data |-> Resize(<<>>, conf.raw)]

Addable ==
  /\ Count < MaxSections
  /\ Preparable(NewSection)
  /\ VirtualSizeSettable(NewSection, conf.vsz)

AddNew ==
  /\ Step("add", "open")
  /\ Addable
  /\ secs' = SetSectionVirtualSize(AddSection(secs, soh, NewSection), conf.vsz)
  /\ soi' = ImageSize(secs', soh)
  /\ UNCHANGED <<disk, soh, i, cur>>

CannotAdd == Throw("add", ~Addable)

(* A faulty Truncate, for the check of Implements: it opens the input.     *)
TruncateInput ==
  /\ Step("open", IF op = "create" THEN "rebuild" ELSE "pop")
  /\ disk' = [disk EXCEPT ![inp] = Truncated]
  /\ UNCHANGED image

(***************************************************************************)
(* The output file                                                         *)
(***************************************************************************)
Truncate ==
  /\ Step("open", IF op = "create" THEN "rebuild" ELSE "pop")
  /\ disk' = [disk EXCEPT ![outp] = Truncated]
  /\ UNCHANGED image

(* "Cannot create": debug_pause jumps back to the menu                     *)
CannotCreate ==
  /\ pc = "open"
  /\ pc' = "idle"
  /\ outcome' = "failed"
  /\ UNCHANGED <<disk, image, call>>

(***************************************************************************)
(* remove_last_Section: sections_.pop_back(), which crashes on an image    *)
(* without sections, and realign_all_sections()                            *)
(***************************************************************************)
Pop ==
  /\ Step("pop", "realign")
  /\ secs # <<>>
  /\ secs' = SubSeq(secs, 1, Count - 1)
  /\ i' = 1
  /\ UNCHANGED <<disk, soh, soi, cur>>

PopEmpty == Throw("pop", secs = <<>>)

Realign ==
  /\ Step("realign", "realign")
  /\ i <= Count
  /\ secs' = RealignSection(secs, i)
  /\ i' = i + 1
  /\ UNCHANGED <<disk, soh, soi, cur>>

RealignDone ==
  /\ Step("realign", "rebuild")
  /\ i > Count
  /\ UNCHANGED <<disk, image>>

(***************************************************************************)
(* rebuild_pe                                                              *)
(***************************************************************************)
FirstPointer == AlignUp(HeaderSize(Count), FileAlign)
HeadersFit   == secs # <<>> => FirstPointer <= secs[1].va

RebuildHeaders ==
  /\ Step("rebuild", "pointers")
  /\ HeadersFit
  /\ soh' = FirstPointer
  /\ soi' = ImageSize(secs, FirstPointer)
  /\ cur' = FirstPointer
  /\ i' = 1
  /\ UNCHANGED <<disk, secs>>

HeadersTooLong == Throw("rebuild", ~HeadersFit)

(* Faulty AssignPointers, for the checks of RawDisjoint and of Terminates: *)
(* the next section follows the aligned-down size of this one; a section   *)
(* without data is passed over before the index has been advanced.         *)
AssignPointerDown ==
  /\ Step("pointers", "pointers")
  /\ i <= Count
  /\ secs' = [secs EXCEPT ![i].ptr = cur]
  /\ cur' = cur + AlignDown(secs[i].raw, FileAlign)
  /\ i' = i + 1
  /\ UNCHANGED <<disk, soh, soi>>

AssignPointerStuck ==
  /\ Step("pointers", "pointers")
  /\ i <= Count
  /\ secs' = [secs EXCEPT ![i].ptr = cur]
  /\ cur' = cur + AlignedRawSize(secs[i])
  /\ i' = IF secs[i].data = <<>> THEN i ELSE i + 1
  /\ UNCHANGED <<disk, soh, soi>>

AssignPointer ==
  /\ Step("pointers", "pointers")
  /\ i <= Count
  /\ secs' = [secs EXCEPT ![i].ptr = cur]
  /\ cur' = cur + AlignedRawSize(secs[i])
  /\ i' = i + 1
  /\ UNCHANGED <<disk, soh, soi>>

WriteHeaders ==
  /\ Step("pointers", "write")
  /\ i > Count
  /\ disk' = [disk EXCEPT ![outp] =
                [secs  |-> [k \in 1..Count |-> HeaderOf(secs, k)],
                 soh   |-> soh,
                 soi   |-> soi,
                 bytes |-> [k \in 1..HeaderSize(Count) |-> HdrByte]]]
  /\ i' = 1
  /\ UNCHANGED <<secs, soh, soi, cur>>

WriteSection ==
  /\ Step("write", "write")
  /\ i <= Count
  /\ disk' = [disk EXCEPT ![outp].bytes = PadTo(@, secs[i].ptr) \o secs[i].data]
  /\ i' = i + 1
  /\ UNCHANGED <<secs, soh, soi, cur>>

Finish ==
  /\ pc = "write"
  /\ i > Count
  /\ pc' = "idle"
  /\ outcome' = "done"
  /\ UNCHANGED <<disk, image, call>>

(***************************************************************************)
(* The process is killed, or started again: ParseSettings reads the        *)
(* settings the user may have changed.                                     *)
(***************************************************************************)
Killed == Throw(pc, pc \notin {"idle", "terminated"})

Restart(c) ==
  /\ pc = "terminated"
  /\ pc' = "idle"
  /\ conf' = c
  /\ UNCHANGED <<disk, outcome, image, op, inp, outp, goal>>

-----------------------------------------------------------------------------
Init ==
  /\ \E f \in Originals : disk = [p \in Paths |-> IF p = Supplied THEN f ELSE NoFile]
  /\ conf \in Settings
  /\ pc = "idle" /\ outcome = "none"
  /\ op = "create" /\ inp = Supplied /\ outp = Supplied
  /\ secs = <<>> /\ soh = 0 /\ soi = 0 /\ i = 1 /\ cur = 0
  /\ goal = NoFile

Read    == ReadHeaders \/ BadHeaders \/ ReadSection \/ BadSection
             \/ ReadDone \/ BadTable
Add     == AddNew \/ CannotAdd
Open    == Truncate \/ CannotCreate
Remove  == Pop \/ PopEmpty \/ Realign \/ RealignDone
Rebuild == RebuildHeaders \/ HeadersTooLong \/ AssignPointer \/ WriteHeaders
             \/ WriteSection \/ Finish

Next ==
  \/ \E o \in {"create", "remove"}, p, q \in Paths : Begin(o, p, q)
  \/ Read \/ Add \/ Open \/ Remove \/ Rebuild
  \/ Killed
  \/ \E c \in Settings : Restart(c)

Spec == Init /\ [][Next]_vars

(* A thread that runs keeps running: every step but the user's choice, the *)
(* kill and the restart happens.                                           *)
FairSpec == Spec /\ WF_vars(Read \/ Add \/ Open \/ Remove \/ Rebuild)

-----------------------------------------------------------------------------
(***************************************************************************)
(* What can be read back.                                                  *)
(***************************************************************************)
Loaded(f) == [k \in 1..Len(f.secs) |-> LoadSection(f.secs[k], f.bytes)]

Readable(f) ==
  /\ f # NoFile
  /\ HeadersReadable(f)
  /\ \A k \in 1..Len(f.secs) : SectionReadable(f.secs[k], f.soi, Len(f.bytes))
  /\ TableReadable(Loaded(f), f.soh, Len(f.bytes))

View(f) == IF Readable(f) THEN MappedImage(Loaded(f)) ELSE NoFile

InRebuild == pc \in {"pointers", "write"}

(***************************************************************************)
(* Properties.                                                             *)
(***************************************************************************)
(* Every variable keeps its type.                                          *)
TypeOK ==
  /\ disk \in [Paths -> File \union {NoFile}]
  /\ conf \in Settings
  /\ pc \in {"idle", "headers", "sections", "add", "open", "pop", "realign",
             "rebuild", "pointers", "write", "terminated"}
  /\ op \in {"create", "remove"} /\ inp \in Paths /\ outp \in Paths
  /\ secs \in Seq(Section)
  /\ soh \in Nat /\ soi \in Nat /\ i \in Nat \ {0} /\ cur \in Nat
  /\ outcome \in {"none", "running", "done", "failed"}

(* rebuild_pe pads with null bytes up to PointerToRawData and then writes  *)
(* the whole of raw_data_ (:163-175); where raw_data_ of an earlier        *)
(* section is longer than its aligned SizeOfRawData the padding loop       *)
(* silently does nothing and every later section lands behind its pointer. *)
(* It never comes to that: each section written so far is found at its     *)
(* PointerToRawData, behind the headers, and untouched by its successors.  *)
DataAtPointer ==
  pc = "write" =>
    \A k \in 1..(i - 1) :
      LET s == secs[k]
          b == disk[outp].bytes
      IN  /\ HeaderSize(Count) <= s.ptr
          /\ s.ptr + Len(s.data) <= Len(b)
          /\ Slice(b, s.ptr, Len(s.data)) = s.data

(* The raw data the headers give to two sections never overlaps.           *)
RawDisjoint ==
  InRebuild =>
    \A j, k \in 1..(IF pc = "write" THEN Count ELSE i - 1) : j < k =>
      /\ secs[j].ptr + AlignedRawSize(secs[j]) <= secs[k].ptr
      /\ Len(secs[j].data) <= AlignedRawSize(secs[j])

(* What the patcher reports as done can be opened again by read_pe, with   *)
(* all of its checks (addresses without holes, sizes within SizeOfImage,   *)
(* data within the file): the next menu choice, "remove last section" or   *)
(* "full patch", starts from it.                                           *)
DoneReopens == (pc = "idle" /\ outcome = "done") => Readable(disk[outp])

(* "If section virtual size is zero, set aligned virtual size of section   *)
(* as aligned raw size" (pe_section.cpp:230-231): a section that has only  *)
(* raw data takes up that much address space, so that an image with such a *)
(* section, once patched, can be opened again, too.                        *)
ZeroSizeReopens == DoneReopens

(* The program gets back to its menu or ends: no loop over the sections    *)
(* goes on for ever.                                                       *)
Terminates == outcome = "running" ~> outcome # "running"

(* BinSection implements ImageStore: a file counts as what a process sees  *)
(* once it is mapped, a file that read_pe rejects counts as no image.      *)
(* Hence no other file changes, sections keep their addresses and their    *)
(* contents through truncation, realignment and padding, an interrupted    *)
(* rebuild never leaves a file that is taken for an image other than the   *)
(* wanted one, and "done" is reported for the wanted image only.           *)
Store == INSTANCE ImageStore WITH
           NoImage <- NoFile,
           view    <- [p \in Paths |-> View(disk[p])],
           target  <- outp,
           phase   <- CASE pc \in {"headers", "sections"} -> "reading"
                        [] pc \in {"idle", "terminated"}   -> "idle"
                        [] OTHER                           -> "writing"

Implements == Store!Spec

=============================================================================
