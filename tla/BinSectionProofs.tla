-------------------------- MODULE BinSectionProofs --------------------------
(***************************************************************************)
(* Theorems about BinSection, for every alignment, every set of paths,     *)
(* settings and original files, and any number of sections.                *)
(***************************************************************************)
EXTENDS BinSection, SequenceTheorems, FiniteSetTheorems, TLAPS

(***************************************************************************)
(* Lemmas about alignment, sequences and sections.                         *)
(***************************************************************************)
LEMMA ModBound ==
  ASSUME NEW x \in Nat, NEW a \in Nat \ {0}
  PROVE  x % a \in 0..(a - 1) /\ x % a <= x
  OBVIOUS

(* align_up never loses a byte.                                            *)
LEMMA AlignUpGe ==
  ASSUME NEW x \in Nat, NEW a \in Nat \ {0}
  PROVE  AlignUp(x, a) \in Nat /\ x <= AlignUp(x, a)
  BY ModBound DEF AlignUp, AlignDown

LEMMA AlignDownLe ==
  ASSUME NEW x \in Nat, NEW a \in Nat \ {0}
  PROVE  AlignDown(x, a) \in Nat /\ AlignDown(x, a) <= x
  BY ModBound DEF AlignDown

(* What a constructor [k \in 1..n |-> ...] has in common with a sequence   *)
LEMMA FunctionIsSeq ==
  ASSUME NEW S, NEW n \in Nat, NEW f \in [1..n -> S]
  PROVE  f \in Seq(S) /\ Len(f) = n
<1>1. f \in Seq(S)
  BY SeqDef
<1>2. DOMAIN f = 1..n /\ DOMAIN f = 1..Len(f) /\ Len(f) \in Nat
  BY <1>1, LenProperties
<1> QED
  BY <1>1, <1>2

LEMMA ResizeType ==
  ASSUME NEW d \in Seq(Nat), NEW n \in Nat
  PROVE  Resize(d, n) \in Seq(Nat) /\ Len(Resize(d, n)) = n
<1>1. Resize(d, n) \in [1..n -> Nat]
  BY ElementOfSeq, LenProperties DEF Resize
<1> QED
  BY <1>1, FunctionIsSeq

LEMMA SliceType ==
  ASSUME NEW b \in Seq(Nat), NEW at \in Nat, NEW n \in Nat, at + n <= Len(b)
  PROVE  Slice(b, at, n) \in Seq(Nat) /\ Len(Slice(b, at, n)) = n
<1>1. \A k \in 1..n : at + k \in 1..Len(b)
  BY LenProperties
<1>2. Slice(b, at, n) \in [1..n -> Nat]
  BY <1>1, ElementOfSeq DEF Slice
<1> QED
  BY <1>2, FunctionIsSeq

LEMMA StrippedLenType ==
  ASSUME NEW d \in Seq(Nat)
  PROVE  StrippedLen(d) \in 0..Len(d)
<1> DEFINE T == {k \in 1..Len(d) : \E j \in k..Len(d) : d[j] # 0}
<1>1. Len(d) \in Nat
  BY LenProperties
<1>2. \A n \in Nat : IsFiniteSet(1..n) /\ Cardinality(1..n) = n
  BY FS_Interval
<1>3. IsFiniteSet(T) /\ Cardinality(T) <= Len(d)
  BY <1>1, <1>2, FS_Subset, T \subseteq 1..Len(d)
<1> QED
  BY <1>1, <1>3, FS_CardinalityType DEF StrippedLen

(* SizeOfRawData, aligned, never falls short of the data that rebuild_pe   *)
(* will write for the section.                                             *)
Covered(s) == Len(s.data) <= AlignedRawSize(s)

LEMMA CoveredBy ==
  ASSUME NEW s \in Section, Len(s.data) <= s.raw
  PROVE  Covered(s)
<1>1. s.raw \in Nat /\ Len(s.data) \in Nat
  BY LenProperties DEF Section
<1>2. s.raw <= AlignUp(s.raw, FileAlign) /\ AlignUp(s.raw, FileAlign) \in Nat
  BY <1>1, AlignUpGe, AlignAssumption
<1> QED
  BY <1>1, <1>2 DEF Covered, AlignedRawSize

LEMMA RawSizeType ==
  ASSUME NEW s \in Section
  PROVE  AlignedRawSize(s) \in Nat
  BY AlignUpGe, AlignAssumption DEF AlignedRawSize, Section

LEMMA VirtualSizeType ==
  ASSUME NEW s \in Section
  PROVE  AlignedVirtualSize(s) \in Nat
  BY AlignUpGe, AlignAssumption DEF AlignedVirtualSize, Section

LEMMA ImageSizeType ==
  ASSUME NEW ss \in Seq(Section), NEW h \in Nat
  PROVE  ImageSize(ss, h) \in Nat
<1>1. ASSUME ss # <<>> PROVE EndOf(ss[Len(ss)]) \in Nat
  <2>1. ss[Len(ss)] \in Section
    BY <1>1, EmptySeq, LenProperties, ElementOfSeq
  <2>2. ss[Len(ss)].va \in Nat /\ AlignedVirtualSize(ss[Len(ss)]) \in Nat
    BY <2>1, VirtualSizeType DEF Section
  <2> QED
    BY <2>2 DEF EndOf
<1> QED
  BY <1>1 DEF ImageSize

LEMMA HeaderSizeType ==
  ASSUME NEW n \in Nat
  PROVE  HeaderSize(n) \in Nat
  BY SizeAssumption DEF HeaderSize

AllCovered(ss) == \A k \in 1..Len(ss) : Covered(ss[k])

LEMMA ReplaceSection ==
  ASSUME NEW ss \in Seq(Section), AllCovered(ss),
         NEW k \in 1..Len(ss), NEW s \in Section, Covered(s)
  PROVE  /\ [ss EXCEPT ![k] = s] \in Seq(Section)
         /\ AllCovered([ss EXCEPT ![k] = s])
         /\ Len([ss EXCEPT ![k] = s]) = Len(ss)
  BY ExceptSeq DEF AllCovered

LEMMA AppendSection ==
  ASSUME NEW ss \in Seq(Section), AllCovered(ss), NEW s \in Section, Covered(s)
  PROVE  /\ Append(ss, s) \in Seq(Section)
         /\ AllCovered(Append(ss, s))
         /\ Append(ss, s) # <<>>
<1>1. Len(ss) \in Nat
  BY LenProperties
<1>2. /\ Append(ss, s) \in Seq(Section)
      /\ Append(ss, s) # <<>>
      /\ Len(Append(ss, s)) = Len(ss) + 1
      /\ \A k \in 1..Len(ss) : Append(ss, s)[k] = ss[k]
      /\ Append(ss, s)[Len(ss) + 1] = s
  BY AppendProperties
<1>3. \A k \in 1..(Len(ss) + 1) : k \in 1..Len(ss) \/ k = Len(ss) + 1
  BY <1>1
<1>4. \A k \in 1..(Len(ss) + 1) : Covered(Append(ss, s)[k])
  BY <1>2, <1>3 DEF AllCovered
<1> QED
  BY <1>2, <1>4 DEF AllCovered

(* read_pe leaves SizeOfRawData equal to the number of bytes it has read.  *)
LEMMA LoadSectionType ==
  ASSUME NEW h \in Section, NEW b \in Seq(Nat), NEW size \in Nat,
         SectionReadable(h, size, Len(b))
  PROVE  LoadSection(h, b) \in Section /\ Covered(LoadSection(h, b))
<1> DEFINE s == LoadSection(h, b)
<1>1. LoadedRaw(h) \in Nat /\ h.ptr \in Nat /\ Len(b) \in Nat
  BY LenProperties DEF LoadedRaw, Section
<1>2. s.data \in Seq(Nat) /\ Len(s.data) <= LoadedRaw(h)
  <2>1. CASE h.raw = 0
    BY <1>1, <2>1, EmptySeq DEF LoadSection, Section
  <2>2. CASE h.raw # 0
    <3>1. AlignDown(h.ptr, FileAlign) \in Nat
      BY <1>1, AlignDownLe, AlignAssumption
    <3>2. AlignDown(h.ptr, FileAlign) + LoadedRaw(h) <= Len(b)
      BY <2>2 DEF SectionReadable
    <3>3. s.data = Slice(b, AlignDown(h.ptr, FileAlign), LoadedRaw(h))
      BY <2>2 DEF LoadSection, Section
    <3> QED
      BY <1>1, <3>1, <3>2, <3>3, SliceType
  <2> QED
    BY <2>1, <2>2
<1>3. s \in Section /\ s.raw = LoadedRaw(h)
  BY <1>1, <1>2 DEF LoadSection, Section
<1> QED
  BY <1>2, <1>3, CoveredBy

LEMMA PrepareSectionType ==
  ASSUME NEW s \in Section
  PROVE  PrepareSection(s) \in Section /\ Covered(PrepareSection(s))
<1>1. Len(s.data) \in Nat /\ s.vsz \in Nat
  BY LenProperties DEF Section
<1>2. AlignUp(Len(s.data), FileAlign) \in Nat /\ AlignUp(s.vsz, SectAlign) \in Nat
  BY <1>1, AlignUpGe, AlignAssumption
<1>3. Len(s.data) <= AlignUp(Len(s.data), FileAlign)
  BY <1>1, AlignUpGe, AlignAssumption
<1>4. /\ PrepareSection(s) \in Section
      /\ PrepareSection(s).data = s.data
      /\ PrepareSection(s).raw = AlignUp(Len(s.data), FileAlign)
  BY <1>2 DEF PrepareSection, Section
<1> QED
  BY <1>3, <1>4, CoveredBy

LEMMA AddSectionType ==
  ASSUME NEW ss \in Seq(Section), AllCovered(ss), NEW h \in Nat, NEW new \in Section
  PROVE  /\ AddSection(ss, h, new) \in Seq(Section)
         /\ AllCovered(AddSection(ss, h, new))
         /\ AddSection(ss, h, new) # <<>>
<1> DEFINE p == PrepareSection(new)
           n == Len(ss)
<1>1. p \in Section /\ Covered(p)
  BY PrepareSectionType
<1>2. \A va \in Nat : [p EXCEPT !.va = va] \in Section /\ Covered([p EXCEPT !.va = va])
  BY <1>1 DEF Covered, AlignedRawSize, Section
<1>3. CASE n = 0
  <2> DEFINE at == AlignUp(IF p.va = 0 THEN h ELSE p.va, SectAlign)
             s  == [p EXCEPT !.va = at]
  <2>1. at \in Nat
    BY <1>1, AlignUpGe, AlignAssumption DEF Section
  <2>2. AddSection(ss, h, new) = << s >>
    BY <1>3 DEF AddSection
  <2>3. s \in Section /\ Covered(s)
    BY <1>2, <2>1
  <2>4. /\ <<s>> \in Seq(Section) /\ Len(<<s>>) = 1 /\ <<s>>[1] = s
        /\ <<s>> # <<>>
    BY <2>3
  <2> HIDE DEF s
  <2> QED
    BY <2>2, <2>3, <2>4 DEF AllCovered
<1>4. CASE n # 0
  <2> DEFINE raw  == AlignUp(Len(ss[n].data), FileAlign)
             last == [ss[n] EXCEPT !.raw = raw]
             at   == AlignUp(EndOf(ss[n]), SectAlign)
             tt   == [ss EXCEPT ![n] = last]
  <2>1. n \in 1..Len(ss) /\ ss[n] \in Section
    BY <1>4, LenProperties, ElementOfSeq
  <2>2. Len(ss[n].data) \in Nat
    BY <2>1, LenProperties DEF Section
  <2>3. raw \in Nat /\ Len(ss[n].data) <= raw
    BY <2>2, AlignUpGe, AlignAssumption
  <2>4. last \in Section /\ last.raw = raw /\ last.data = ss[n].data
    BY <2>1, <2>3 DEF Section
  <2>5. Covered(last)
    BY <2>3, <2>4, CoveredBy
  <2>6. tt \in Seq(Section) /\ AllCovered(tt)
    BY <2>1, <2>4, <2>5, ReplaceSection
  <2>7. EndOf(ss[n]) \in Nat
    <3>1. AlignedVirtualSize(ss[n]) \in Nat
      BY <2>1, VirtualSizeType
    <3>2. ss[n].va \in Nat
      BY <2>1 DEF Section
    <3> QED
      BY <3>1, <3>2 DEF EndOf
  <2>8. at \in Nat
    BY <2>7, AlignUpGe, AlignAssumption
  <2>9. AddSection(ss, h, new) = Append(tt, [p EXCEPT !.va = at])
    BY <1>4 DEF AddSection
  <2> HIDE DEF tt, at
  <2> QED
    BY <1>2, <2>6, <2>8, <2>9, AppendSection
<1> QED
  BY <1>3, <1>4

LEMMA SetVirtualSizeType ==
  ASSUME NEW ss \in Seq(Section), AllCovered(ss), ss # <<>>, NEW v \in Nat
  PROVE  /\ SetSectionVirtualSize(ss, v) \in Seq(Section)
         /\ AllCovered(SetSectionVirtualSize(ss, v))
<1> DEFINE n == Len(ss)
           w == IF v = 0 THEN ss[n].raw ELSE v
           s == [ss[n] EXCEPT !.vsz = w]
<1>1. n \in 1..Len(ss) /\ ss[n] \in Section
  BY EmptySeq, LenProperties, ElementOfSeq
<1>2. w \in Nat
  BY <1>1 DEF Section
<1>3. s \in Section /\ Covered(s)
  BY <1>1, <1>2 DEF AllCovered, Covered, AlignedRawSize, Section
<1>4. SetSectionVirtualSize(ss, v) = [ss EXCEPT ![n] = s]
  BY DEF SetSectionVirtualSize
<1> HIDE DEF n, s
<1> QED
  BY <1>1, <1>3, <1>4, ReplaceSection

LEMMA RealignSectionType ==
  ASSUME NEW ss \in Seq(Section), AllCovered(ss), NEW k \in 1..Len(ss)
  PROVE  /\ RealignSection(ss, k) \in Seq(Section)
         /\ AllCovered(RealignSection(ss, k))
<1> DEFINE n == IF k = Len(ss) THEN StrippedLen(ss[k].data) ELSE AlignedRawSize(ss[k])
           s == [ss[k] EXCEPT !.raw = n, !.data = Resize(ss[k].data, n)]
<1>0. ss[k] \in Section
  BY ElementOfSeq
<1>1. ss[k] \in Section /\ ss[k].data \in Seq(Nat)
  BY <1>0 DEF Section
<1>2. StrippedLen(ss[k].data) \in Nat
  BY <1>1, StrippedLenType, LenProperties
<1>3. n \in Nat
  BY <1>1, <1>2, RawSizeType
<1>4. Resize(ss[k].data, n) \in Seq(Nat) /\ Len(Resize(ss[k].data, n)) = n
  BY <1>1, <1>3, ResizeType
<1>8. \A m \in Nat, d \in Seq(Nat) :
        LET t == [ss[k] EXCEPT !.raw = m, !.data = d]
        IN  t \in Section /\ t.raw = m /\ t.data = d
  BY <1>0 DEF Section
<1>5. s \in Section /\ Len(s.data) <= s.raw
  <2> DEFINE d == Resize(ss[k].data, n)
  <2> HIDE DEF n, d
  <2>1. s \in Section /\ s.raw = n /\ s.data = d
    BY <1>3, <1>4, <1>8 DEF d
  <2> QED
    BY <1>3, <1>4, <2>1 DEF d
<1>6. Covered(s)
  <2> HIDE DEF n, s
  <2> QED
    BY <1>5, CoveredBy
<1>7. RealignSection(ss, k) = [ss EXCEPT ![k] = s]
  BY DEF RealignSection
<1> HIDE DEF n, s
<1> QED
  BY <1>5, <1>6, <1>7, ReplaceSection

(***************************************************************************)
(* The inductive invariant.  Raw data is laid out by two loops: the first  *)
(* gives out pointers, the second writes.  What relates them is that every *)
(* section's data is covered by its SizeOfRawData from the moment it is    *)
(* read or added, so that a pointer is never behind the end of the file    *)
(* when its section's turn comes.                                          *)
(***************************************************************************)
Ends(s) == s.ptr + AlignedRawSize(s)

Ordered(ss, n) == \A j, k \in 1..n : j < k => Ends(ss[j]) <= ss[k].ptr

BehindHeaders(ss, n) == \A k \in 1..n : HeaderSize(Len(ss)) <= ss[k].ptr

Stored(s, b) ==
  /\ s.ptr + Len(s.data) <= Len(b)
  /\ Slice(b, s.ptr, Len(s.data)) = s.data

InputThere == pc \in {"headers", "sections"} => disk[inp] \in File

PointersInv ==
  pc = "pointers" =>
    /\ i <= Count + 1
    /\ HeaderSize(Count) <= cur
    /\ BehindHeaders(secs, i - 1)
    /\ Ordered(secs, i - 1)
    /\ \A k \in 1..(i - 1) : Ends(secs[k]) <= cur

WriteInv ==
  pc = "write" =>
    /\ disk[outp] \in File
    /\ i <= Count + 1
    /\ BehindHeaders(secs, Count)
    /\ Ordered(secs, Count)
    /\ HeaderSize(Count) <= Len(disk[outp].bytes)
    /\ i <= Count => Len(disk[outp].bytes) <= secs[i].ptr
    /\ \A k \in 1..(i - 1) : Stored(secs[k], disk[outp].bytes)

IInv == TypeOK /\ InputThere /\ AllCovered(secs) /\ PointersInv /\ WriteInv

LEMMA InitInv == Init => IInv
<1> SUFFICES ASSUME Init PROVE IInv
  OBVIOUS
<1>1. TypeOK
  BY PathAssumption, OriginalAssumption, EmptySeq DEF Init, TypeOK
<1>2. AllCovered(secs)
  BY EmptySeq DEF Init, AllCovered
<1> QED
  BY <1>1, <1>2 DEF Init, IInv, InputThere, PointersInv, WriteInv

(* A step to a point between the loops that changes no file.               *)
LEMMA QuietStep ==
  ASSUME IInv, UNCHANGED <<disk, conf, op, inp, outp>>,
         pc' \in {"idle", "add", "open", "pop", "realign", "rebuild", "terminated"},
         outcome' \in {"none", "running", "done", "failed"},
         secs' \in Seq(Section), AllCovered(secs'),
         soh' \in Nat, soi' \in Nat, i' \in Nat \ {0}, cur' \in Nat
  PROVE  IInv'
  BY DEF IInv, TypeOK, InputThere, PointersInv, WriteInv

LEMMA BeginInv ==
  ASSUME IInv, NEW o \in {"create", "remove"}, NEW p \in Paths, NEW q \in Paths,
         Begin(o, p, q)
  PROVE  IInv'
<1>1. TypeOK'
  BY PathAssumption, EmptySeq DEF IInv, TypeOK, Begin
<1>2. InputThere'
  BY DEF IInv, TypeOK, Begin, InputThere
<1>3. AllCovered(secs')
  BY EmptySeq DEF Begin, AllCovered
<1> QED
  BY <1>1, <1>2, <1>3 DEF Begin, IInv, PointersInv, WriteInv

LEMMA ReadHeadersInv == ASSUME IInv, ReadHeaders PROVE IInv'
<1>1. disk[inp] \in File
  BY DEF IInv, InputThere, ReadHeaders, Step
<1>2. TypeOK'
  BY <1>1 DEF IInv, TypeOK, ReadHeaders, Step, call, File
<1> QED
  BY <1>1, <1>2 DEF ReadHeaders, Step, call, IInv, InputThere, PointersInv, WriteInv

LEMMA ReadSectionInv == ASSUME IInv, ReadSection PROVE IInv'
<1> DEFINE f == disk[inp]
           s == LoadSection(f.secs[i], f.bytes)
<1>1. f \in File
  BY DEF IInv, InputThere, ReadSection, Step
<1>2. f.secs \in Seq(Section) /\ f.bytes \in Seq(Nat)
  BY <1>1 DEF File
<1>3. f.secs[i] \in Section
  BY <1>2, ElementOfSeq, LenProperties DEF IInv, TypeOK, ReadSection
<1>4. s \in Section /\ Covered(s)
  BY <1>2, <1>3, LoadSectionType DEF IInv, TypeOK, ReadSection
<1>5. secs' \in Seq(Section) /\ AllCovered(secs')
  BY <1>4, AppendSection DEF IInv, TypeOK, ReadSection
<1>6. TypeOK'
  BY <1>5 DEF IInv, TypeOK, ReadSection, Step, call
<1> QED
  BY <1>1, <1>5, <1>6 DEF ReadSection, Step, call, IInv, InputThere, PointersInv, WriteInv

LEMMA AddNewInv == ASSUME IInv, AddNew PROVE IInv'
<1> DEFINE ss == AddSection(secs, soh, NewSection)
<1>1. conf.raw \in Nat /\ conf.vsz \in Nat
  BY PathAssumption DEF IInv, TypeOK
<1>2. Resize(<<>>, conf.raw) \in Seq(Nat)
  BY <1>1, ResizeType, EmptySeq
<1>3. NewSection \in Section
  BY <1>2 DEF NewSection, Section
<1>4. ss \in Seq(Section) /\ AllCovered(ss) /\ ss # <<>>
  BY <1>3, AddSectionType DEF IInv, TypeOK
<1>5. secs' \in Seq(Section) /\ AllCovered(secs')
  <2> HIDE DEF ss
  <2>1. secs' = SetSectionVirtualSize(ss, conf.vsz)
    BY DEF AddNew, ss
  <2> QED
    BY <1>1, <1>4, <2>1, SetVirtualSizeType
<1>6. soi' \in Nat
  BY <1>5, ImageSizeType DEF IInv, TypeOK, AddNew
<1>7. /\ UNCHANGED <<disk, conf, op, inp, outp, soh, i, cur, outcome>>
      /\ pc' = "open"
  BY DEF AddNew, Step, call
<1> QED
  BY <1>5, <1>6, <1>7, QuietStep DEF IInv, TypeOK

LEMMA TruncateInv == ASSUME IInv, Truncate PROVE IInv'
<1>1. Truncated \in File
  BY EmptySeq DEF Truncated, File
<1>2. disk' \in [Paths -> File \union {NoFile}]
  BY <1>1 DEF IInv, TypeOK, Truncate
<1>3. UNCHANGED <<conf, op, inp, outp, secs, soh, soi, i, cur, outcome>>
  BY DEF Truncate, Step, call, image
<1>4. pc' \in {"rebuild", "pop"}
  BY DEF Truncate, Step
<1> QED
  BY <1>2, <1>3, <1>4 DEF IInv, TypeOK, InputThere, PointersInv, WriteInv

LEMMA PopInv == ASSUME IInv, Pop PROVE IInv'
<1>1. Count \in Nat /\ \A k \in 1..(Count - 1) : secs[k] \in Section /\ Covered(secs[k])
  BY LenProperties, ElementOfSeq DEF IInv, TypeOK, AllCovered, Count
<1>2. /\ secs' \in Seq(Section)
      /\ Len(secs') = IF 1 <= Count - 1 THEN Count - 1 ELSE 0
      /\ \A k \in 1..(Count - 1) : secs'[k] = secs[k]
  BY <1>1, SubSeqProperties DEF Pop
<1>3. AllCovered(secs')
  BY <1>1, <1>2 DEF AllCovered
<1>4. /\ UNCHANGED <<disk, conf, op, inp, outp, soh, soi, cur, outcome>>
      /\ pc' = "realign" /\ i' = 1
  BY DEF Pop, Step, call
<1> QED
  BY <1>2, <1>3, <1>4, QuietStep DEF IInv, TypeOK

LEMMA RealignInv == ASSUME IInv, Realign PROVE IInv'
<1>1. i \in 1..Len(secs)
  BY LenProperties DEF IInv, TypeOK, Realign, Count
<1>2. secs' \in Seq(Section) /\ AllCovered(secs')
  BY <1>1, RealignSectionType DEF IInv, TypeOK, Realign
<1>3. /\ UNCHANGED <<disk, conf, op, inp, outp, soh, soi, cur, outcome>>
      /\ pc' = "realign" /\ i' = i + 1
  BY DEF Realign, Step, call
<1> QED
  BY <1>2, <1>3, QuietStep DEF IInv, TypeOK

LEMMA RebuildHeadersInv == ASSUME IInv, RebuildHeaders PROVE IInv'
<1>1. Count \in Nat /\ HeaderSize(Count) \in Nat
  BY LenProperties, HeaderSizeType DEF IInv, TypeOK, Count
<1>2. FirstPointer \in Nat /\ HeaderSize(Count) <= FirstPointer
  BY <1>1, AlignUpGe, AlignAssumption DEF FirstPointer
<1>3. ImageSize(secs, FirstPointer) \in Nat
  BY <1>2, ImageSizeType DEF IInv, TypeOK
<1>4. /\ UNCHANGED <<disk, conf, op, inp, outp, secs, outcome>>
      /\ pc' = "pointers" /\ i' = 1
      /\ soh' = FirstPointer /\ cur' = FirstPointer
      /\ soi' = ImageSize(secs, FirstPointer)
  BY DEF RebuildHeaders, Step, call
<1>5. TypeOK'
  BY <1>2, <1>3, <1>4 DEF IInv, TypeOK
<1>6. PointersInv'
  BY <1>1, <1>2, <1>4 DEF PointersInv, Count, BehindHeaders, Ordered
<1> QED
  BY <1>4, <1>5, <1>6 DEF IInv, InputThere, WriteInv

LEMMA AssignPointerInv == ASSUME IInv, AssignPointer PROVE IInv'
<1> DEFINE s == [secs[i] EXCEPT !.ptr = cur]
<1>1. /\ secs \in Seq(Section) /\ AllCovered(secs)
      /\ i \in 1..Len(secs) /\ cur \in Nat /\ Len(secs) \in Nat
  BY LenProperties DEF IInv, TypeOK, AssignPointer, Count
<1>2. secs[i] \in Section /\ Covered(secs[i])
  BY <1>1, ElementOfSeq DEF AllCovered
<1>3. /\ s \in Section /\ Covered(s) /\ s.ptr = cur
      /\ AlignedRawSize(s) = AlignedRawSize(secs[i])
  BY <1>1, <1>2 DEF Covered, AlignedRawSize, Section
<1>4. secs' = [secs EXCEPT ![i] = s]
  BY DEF AssignPointer
<1>5. /\ secs' \in Seq(Section) /\ AllCovered(secs')
      /\ Len(secs') = Len(secs)
      /\ \A k \in 1..Len(secs) : secs'[k] = IF k = i THEN s ELSE secs[k]
  <2> HIDE DEF s
  <2>1. secs' \in Seq(Section) /\ AllCovered(secs') /\ Len(secs') = Len(secs)
    BY <1>1, <1>3, <1>4, ReplaceSection
  <2>2. \A k \in 1..Len(secs) : secs'[k] = IF k = i THEN s ELSE secs[k]
    BY <1>1, <1>3, <1>4, ExceptSeq
  <2> QED
    BY <2>1, <2>2
<1>6. AlignedRawSize(secs[i]) \in Nat
  BY <1>2, RawSizeType
<1>7. /\ UNCHANGED <<disk, conf, op, inp, outp, soh, soi, outcome>>
      /\ pc = "pointers" /\ pc' = "pointers" /\ i' = i + 1
      /\ cur' = cur + AlignedRawSize(secs[i])
  BY DEF AssignPointer, Step, call
<1>8. TypeOK'
  BY <1>5, <1>6, <1>7, <1>1 DEF IInv, TypeOK
<1>9. PointersInv'
  <2>1. HeaderSize(Count) \in Nat
    BY <1>1, HeaderSizeType DEF Count
  <2>2. \A k \in 1..(i - 1) : secs'[k] = secs[k] /\ Ends(secs[k]) <= cur
    BY <1>1, <1>5, <1>7 DEF IInv, PointersInv
  <2>3. secs'[i].ptr = cur /\ Ends(secs'[i]) = cur'
    <3>1. secs'[i] = s
      BY <1>1, <1>5
    <3> QED
      BY <1>3, <1>7, <3>1 DEF Ends
  <2>4. \A k \in 1..(i - 1) : Ends(secs'[k]) \in Int
    <3>1. \A k \in 1..(i - 1) : secs[k] \in Section
      BY <1>1, ElementOfSeq
    <3>2. \A k \in 1..(i - 1) : secs[k].ptr \in Nat /\ AlignedRawSize(secs[k]) \in Nat
      BY <3>1, RawSizeType DEF Section
    <3> QED
      BY <2>2, <3>2 DEF Ends
  <2>5. \A k \in 1..i : k \in 1..(i - 1) \/ k = i
    BY <1>1
  <2>6. \A k \in 1..i : Ends(secs'[k]) <= cur'
    BY <1>1, <1>6, <1>7, <2>2, <2>3, <2>4, <2>5
  <2>7. Ordered(secs', i)
    <3> SUFFICES ASSUME NEW j \in 1..i, NEW k \in 1..i, j < k
                 PROVE  Ends(secs'[j]) <= secs'[k].ptr
      BY DEF Ordered
    <3>1. j \in 1..(i - 1)
      BY <1>1
    <3>2. CASE k = i
      BY <2>2, <2>3, <3>1, <3>2
    <3>3. CASE k \in 1..(i - 1)
      <4>1. Ordered(secs, i - 1)
        BY <1>7 DEF IInv, PointersInv
      <4> QED
        BY <2>2, <3>1, <3>3, <4>1 DEF Ordered
    <3> QED
      BY <2>5, <3>2, <3>3
  <2>8. BehindHeaders(secs', i)
    <3>1. HeaderSize(Count) <= cur /\ BehindHeaders(secs, i - 1)
      BY <1>7 DEF IInv, PointersInv
    <3> QED
      BY <1>5, <2>2, <2>3, <2>5, <3>1 DEF BehindHeaders, Count
  <2>9. HeaderSize(Len(secs)) <= cur'
    BY <1>1, <1>6, <1>7, <2>1 DEF IInv, PointersInv, Count
  <2>10. i' - 1 = i /\ i' <= Len(secs') + 1
    BY <1>1, <1>5, <1>7
  <2> QED
    BY <1>5, <2>6, <2>7, <2>8, <2>9, <2>10 DEF PointersInv, Count
<1> QED
  BY <1>5, <1>7, <1>8, <1>9 DEF IInv, InputThere, WriteInv

LEMMA WriteHeadersInv == ASSUME IInv, WriteHeaders PROVE IInv'
<1> DEFINE n == Count
           f == [secs  |-> [k \in 1..n |-> HeaderOf(secs, k)],
                 soh   |-> soh, soi |-> soi,
                 bytes |-> [k \in 1..HeaderSize(n) |-> HdrByte]]
<1>1. n \in Nat /\ HeaderSize(n) \in Nat /\ secs \in Seq(Section)
  BY LenProperties, HeaderSizeType DEF IInv, TypeOK, Count
<1>2. \A k \in 1..n : HeaderOf(secs, k) \in Section
  <2> SUFFICES ASSUME NEW k \in 1..n PROVE HeaderOf(secs, k) \in Section
    OBVIOUS
  <2>1. secs[k] \in Section
    BY <1>1, ElementOfSeq DEF Count
  <2>2. Len(secs[k].data) \in Nat
    BY <2>1, LenProperties DEF Section
  <2>3. \A r \in Nat : [secs[k] EXCEPT !.data = <<>>, !.raw = r] \in Section
    BY <2>1, EmptySeq DEF Section
  <2>4. secs[k].raw \in Nat
    BY <2>1 DEF Section
  <2> QED
    BY <2>2, <2>3, <2>4 DEF HeaderOf
<1>3. f.secs \in Seq(Section)
  <2>1. f.secs \in [1..n -> Section]
    BY <1>2
  <2> QED
    BY <1>1, <2>1, FunctionIsSeq
<1>4. f.bytes \in Seq(Nat) /\ Len(f.bytes) = HeaderSize(n)
  <2>1. f.bytes \in [1..HeaderSize(n) -> Nat]
    BY DEF HdrByte
  <2> QED
    BY <1>1, <2>1, FunctionIsSeq
<1>5. f \in File
  BY <1>3, <1>4 DEF IInv, TypeOK, File
<1>6. /\ UNCHANGED <<conf, op, inp, outp, secs, soh, soi, cur, outcome>>
      /\ pc = "pointers" /\ pc' = "write" /\ i' = 1 /\ i = n + 1
      /\ disk' = [disk EXCEPT ![outp] = f]
  <2>1. i <= n + 1 /\ i > n
    BY DEF IInv, PointersInv, WriteHeaders, Step
  <2> QED
    BY <1>1, <2>1 DEF WriteHeaders, Step, call, IInv, TypeOK
<1> HIDE DEF f
<1>7. disk'[outp] = f
  BY <1>6 DEF IInv, TypeOK
<1>8. TypeOK'
  BY <1>5, <1>6 DEF IInv, TypeOK
<1>9. WriteInv'
  <2>1. BehindHeaders(secs, n) /\ Ordered(secs, n)
    BY <1>1, <1>6 DEF IInv, PointersInv
  <2>2. 1 <= n => HeaderSize(n) <= secs[1].ptr
    BY <1>1, <2>1 DEF BehindHeaders, Count
  <2> QED
    BY <1>1, <1>4, <1>5, <1>6, <1>7, <2>1, <2>2 DEF WriteInv, Count
<1> QED
  BY <1>6, <1>8, <1>9 DEF IInv, InputThere, PointersInv

LEMMA InsideRange ==
  ASSUME NEW p \in Nat, NEW n \in Nat, NEW m \in Nat, p + n <= m
  PROVE  \A x \in 1..n : p + x \in 1..m
  OBVIOUS

(* Writing behind the end of a file leaves what was stored in it.          *)
LEMMA StoredStays ==
  ASSUME NEW s \in Section, NEW b \in Seq(Nat), NEW c \in Seq(Nat),
         Len(b) <= Len(c), \A x \in 1..Len(b) : c[x] = b[x],
         Stored(s, b)
  PROVE  Stored(s, c)
<1>1. Len(b) \in Nat /\ Len(c) \in Nat /\ Len(s.data) \in Nat /\ s.ptr \in Nat
  BY LenProperties DEF Section
<1>2. \A x \in 1..Len(s.data) : s.ptr + x \in 1..Len(b)
  <2>1. s.ptr + Len(s.data) <= Len(b)
    BY DEF Stored
  <2> QED
    BY <1>1, <2>1, InsideRange
<1>3. Slice(c, s.ptr, Len(s.data)) = Slice(b, s.ptr, Len(s.data))
  BY <1>2 DEF Slice
<1> QED
  BY <1>1, <1>3 DEF Stored

(* The padding loop reaches the pointer, the data follows.                 *)
LEMMA PadToType ==
  ASSUME NEW b \in Seq(Nat), NEW n \in Nat, Len(b) <= n
  PROVE  /\ PadTo(b, n) \in Seq(Nat) /\ Len(PadTo(b, n)) = n
         /\ \A x \in 1..Len(b) : PadTo(b, n)[x] = b[x]
<1>1. Len(b) \in Nat
  BY LenProperties
<1>2. CASE n > Len(b)
  <2>1. PadTo(b, n) = Resize(b, n)
    BY <1>2 DEF PadTo
  <2>2. \A x \in 1..Len(b) : Resize(b, n)[x] = b[x]
    BY <1>1, <1>2 DEF Resize
  <2> QED
    BY <2>1, <2>2, ResizeType
<1>3. CASE n = Len(b)
  BY <1>3 DEF PadTo
<1> QED
  BY <1>1, <1>2, <1>3

LEMMA PadAndAppend ==
  ASSUME NEW b \in Seq(Nat), NEW n \in Nat, Len(b) <= n, NEW d \in Seq(Nat)
  PROVE  LET c == PadTo(b, n) \o d
         IN  /\ c \in Seq(Nat) /\ Len(c) = n + Len(d)
             /\ \A x \in 1..Len(b) : c[x] = b[x]
             /\ Slice(c, n, Len(d)) = d
<1> DEFINE p == PadTo(b, n)
           c == p \o d
<1>1. Len(d) \in Nat /\ Len(b) \in Nat
  BY LenProperties
<1>2. p \in Seq(Nat) /\ Len(p) = n /\ \A x \in 1..Len(b) : p[x] = b[x]
  BY PadToType
<1> HIDE DEF p
<1>3. /\ c \in Seq(Nat) /\ Len(c) = Len(p) + Len(d)
      /\ \A x \in 1..(Len(p) + Len(d)) :
           c[x] = IF x <= Len(p) THEN p[x] ELSE d[x - Len(p)]
  BY <1>2, ConcatProperties
<1> HIDE DEF c
<1>4. \A x \in 1..Len(b) : c[x] = b[x]
  BY <1>1, <1>2, <1>3
<1>5. Slice(c, n, Len(d)) \in Seq(Nat) /\ Len(Slice(c, n, Len(d))) = Len(d)
  BY <1>1, <1>2, <1>3, SliceType
<1>6. \A x \in 1..Len(d) : Slice(c, n, Len(d))[x] = d[x]
  <2> SUFFICES ASSUME NEW x \in 1..Len(d) PROVE Slice(c, n, Len(d))[x] = d[x]
    OBVIOUS
  <2>1. n + x \in 1..(n + Len(d)) /\ n + x > n /\ (n + x) - n = x
    BY <1>1
  <2>2. c[n + x] = d[x]
    BY <1>1, <1>2, <1>3, <2>1
  <2> QED
    BY <2>2 DEF Slice
<1>7. Slice(c, n, Len(d)) = d
  BY <1>5, <1>6, SeqEqual
<1> QED
  BY <1>2, <1>3, <1>4, <1>7 DEF c, p

LEMMA WrittenIsStored ==
  ASSUME NEW s \in Section, NEW b \in Seq(Nat), Len(b) <= s.ptr
  PROVE  LET c == PadTo(b, s.ptr) \o s.data
         IN  /\ c \in Seq(Nat)
             /\ Len(c) = s.ptr + Len(s.data)
             /\ \A x \in 1..Len(b) : c[x] = b[x]
             /\ Stored(s, c)
<1>1. s.data \in Seq(Nat) /\ s.ptr \in Nat /\ Len(s.data) \in Nat
  BY LenProperties DEF Section
<1> DEFINE c == PadTo(b, s.ptr) \o s.data
<1>2. /\ c \in Seq(Nat) /\ Len(c) = s.ptr + Len(s.data)
      /\ \A x \in 1..Len(b) : c[x] = b[x]
      /\ Slice(c, s.ptr, Len(s.data)) = s.data
  BY <1>1, PadAndAppend
<1> HIDE DEF c
<1>3. Stored(s, c)
  BY <1>1, <1>2 DEF Stored
<1> QED
  BY <1>2, <1>3 DEF c

LEMMA WriteSectionInv == ASSUME IInv, WriteSection PROVE IInv'
<1> DEFINE s == secs[i]
           b == disk[outp].bytes
           c == PadTo(b, s.ptr) \o s.data
<1>1. /\ pc = "write" /\ pc' = "write" /\ i' = i + 1 /\ i <= Count
      /\ UNCHANGED <<conf, op, inp, outp, secs, soh, soi, cur, outcome>>
      /\ disk' = [disk EXCEPT ![outp].bytes = c]
  BY DEF WriteSection, Step, call
<1>2. /\ disk[outp] \in File /\ b \in Seq(Nat)
      /\ secs \in Seq(Section) /\ Count \in Nat /\ i \in 1..Count
  BY <1>1, LenProperties DEF IInv, TypeOK, WriteInv, File, Count
<1>3. \A k \in 1..Count : secs[k] \in Section /\ Covered(secs[k])
  BY <1>2, ElementOfSeq DEF IInv, AllCovered, Count
<1>4. Len(b) <= s.ptr
  BY <1>1 DEF IInv, WriteInv
<1>5. /\ c \in Seq(Nat) /\ Len(c) = s.ptr + Len(s.data)
      /\ \A x \in 1..Len(b) : c[x] = b[x]
      /\ Stored(s, c)
  BY <1>2, <1>3, <1>4, WrittenIsStored
<1>6. disk'[outp] \in File /\ disk'[outp].bytes = c
  <2>1. disk'[outp] = [disk[outp] EXCEPT !.bytes = c]
    BY <1>1 DEF IInv, TypeOK
  <2> QED
    BY <1>2, <1>5, <2>1 DEF File
<1> HIDE DEF c
<1>7. TypeOK'
  <2>1. disk' \in [Paths -> File \union {NoFile}]
    <3>1. disk' = [disk EXCEPT ![outp] = disk'[outp]]
      BY <1>1 DEF IInv, TypeOK
    <3> QED
      BY <1>6, <3>1 DEF IInv, TypeOK
  <2> QED
    BY <1>1, <2>1 DEF IInv, TypeOK
<1>8. WriteInv'
  <2>1. /\ s.ptr \in Nat /\ Len(s.data) \in Nat /\ Len(b) \in Nat
        /\ AlignedRawSize(s) \in Nat /\ Len(s.data) <= AlignedRawSize(s)
        /\ HeaderSize(Count) \in Nat
    BY <1>2, <1>3, LenProperties, RawSizeType, HeaderSizeType DEF Section, Covered
  <2>2. Len(b) <= Len(c) /\ HeaderSize(Count) <= Len(c)
    <3>1. HeaderSize(Count) <= Len(b)
      BY <1>1 DEF IInv, WriteInv
    <3> QED
      BY <1>4, <1>5, <2>1, <3>1
  <2>3. \A k \in 1..i : Stored(secs[k], c)
    <3> SUFFICES ASSUME NEW k \in 1..i PROVE Stored(secs[k], c)
      OBVIOUS
    <3>1. CASE k = i
      BY <1>5, <3>1
    <3>2. CASE k # i
      <4>1. k \in 1..(i - 1) /\ k \in 1..Count
        BY <1>2, <3>2
      <4>2. Stored(secs[k], b)
        BY <1>1, <4>1 DEF IInv, WriteInv
      <4> QED
        BY <1>2, <1>3, <1>5, <2>2, <4>1, <4>2, StoredStays
    <3> QED
      BY <3>1, <3>2
  <2>4. i + 1 <= Count => Len(c) <= secs[i + 1].ptr
    <3> SUFFICES ASSUME i + 1 <= Count PROVE Len(c) <= secs[i + 1].ptr
      OBVIOUS
    <3>1. i + 1 \in 1..Count /\ i < i + 1
      BY <1>2
    <3>2. Ends(s) <= secs[i + 1].ptr
      BY <1>1, <1>2, <3>1 DEF IInv, WriteInv, Ordered
    <3>3. secs[i + 1].ptr \in Nat
      BY <1>3, <3>1 DEF Section
    <3> QED
      BY <1>5, <2>1, <3>2, <3>3 DEF Ends
  <2>5. i' - 1 = i /\ i' <= Count + 1
    BY <1>1, <1>2
  <2>6. BehindHeaders(secs, Count) /\ Ordered(secs, Count)
    BY <1>1 DEF IInv, WriteInv
  <2> QED
    BY <1>1, <1>6, <2>2, <2>3, <2>4, <2>5, <2>6 DEF WriteInv, Count
<1> QED
  BY <1>1, <1>7, <1>8 DEF IInv, InputThere, PointersInv

(***************************************************************************)
(* The invariant holds.                                                    *)
(***************************************************************************)
LEMMA ThrowInv ==
  ASSUME IInv, NEW from, NEW condition, Throw(from, condition)
  PROVE  IInv'
  BY QuietStep DEF Throw, image, call, IInv, TypeOK

LEMMA NextInv == ASSUME IInv, [Next]_vars PROVE IInv'
<1>1. ASSUME NEW o \in {"create", "remove"}, NEW p \in Paths, NEW q \in Paths,
             Begin(o, p, q)
      PROVE  IInv'
  BY <1>1, BeginInv
<1>2. CASE Read
  <2>1. CASE ReadDone
    BY <2>1, QuietStep DEF ReadDone, image, IInv, TypeOK
  <2>2. CASE BadHeaders \/ BadSection \/ BadTable
    BY <2>2, ThrowInv DEF BadHeaders, BadSection, BadTable
  <2> QED
    BY <1>2, <2>1, <2>2, ReadHeadersInv, ReadSectionInv DEF Read
<1>3. CASE Add
  BY <1>3, AddNewInv, ThrowInv DEF Add, CannotAdd
<1>4. CASE Open
  <2>1. CASE CannotCreate
    BY <2>1, QuietStep DEF CannotCreate, image, call, IInv, TypeOK
  <2> QED
    BY <1>4, <2>1, TruncateInv DEF Open
<1>5. CASE Remove
  <2>1. CASE RealignDone
    BY <2>1, QuietStep DEF RealignDone, Step, image, call, IInv, TypeOK
  <2> QED
    BY <1>5, <2>1, PopInv, RealignInv, ThrowInv DEF Remove, PopEmpty
<1>6. CASE Rebuild
  <2>1. CASE Finish
    BY <2>1, QuietStep DEF Finish, image, call, IInv, TypeOK
  <2> QED
    BY <1>6, <2>1, RebuildHeadersInv, AssignPointerInv, WriteHeadersInv,
       WriteSectionInv, ThrowInv DEF Rebuild, HeadersTooLong
<1>7. CASE Killed
  BY <1>7, ThrowInv DEF Killed
<1>8. ASSUME NEW c \in Settings, Restart(c) PROVE IInv'
  BY <1>8 DEF Restart, image, IInv, TypeOK, InputThere, PointersInv, WriteInv
<1>9. CASE UNCHANGED vars
  BY <1>9 DEF vars, image, call, IInv, TypeOK, InputThere, PointersInv, WriteInv,
     Count
<1> QED
  BY <1>1, <1>2, <1>3, <1>4, <1>5, <1>6, <1>7, <1>8, <1>9 DEF Next

LEMMA Invariance == Spec => []IInv
  BY InitInv, NextInv, PTL DEF Spec

(***************************************************************************)
(* Theorems.                                                               *)
(***************************************************************************)
(* Every step of the two functions, throw, crash or restart keeps the      *)
(* variables in their types; the byte ranges read from a file exist.       *)
THEOREM TypeCorrect == Spec => []TypeOK
  BY Invariance, PTL DEF IInv

(* rebuild_pe puts every section's data where its header says it is.       *)
THEOREM DataIsAtPointer == Spec => []DataAtPointer
<1>1. IInv => DataAtPointer
  <2> SUFFICES ASSUME IInv, pc = "write", NEW k \in 1..(i - 1)
               PROVE  /\ HeaderSize(Count) <= secs[k].ptr
                      /\ Stored(secs[k], disk[outp].bytes)
    BY DEF DataAtPointer, Stored
  <2>1. k \in 1..Count
    BY LenProperties DEF IInv, TypeOK, WriteInv, Count
  <2> QED
    BY <2>1 DEF IInv, WriteInv, BehindHeaders, Count
<1> QED
  BY <1>1, Invariance, PTL

(* No two sections share bytes of the file, and none outgrows its share.   *)
THEOREM RawIsDisjoint == Spec => []RawDisjoint
<1>1. IInv => RawDisjoint
  <2> SUFFICES ASSUME IInv, InRebuild,
                      NEW j \in 1..(IF pc = "write" THEN Count ELSE i - 1),
                      NEW k \in 1..(IF pc = "write" THEN Count ELSE i - 1), j < k
               PROVE  /\ Ends(secs[j]) <= secs[k].ptr
                      /\ Covered(secs[j])
    BY DEF RawDisjoint, Ends, Covered
  <2>1. Count \in Nat /\ i \in Nat
    BY LenProperties DEF IInv, TypeOK, Count
  <2>2. CASE pc = "write"
    BY <2>1, <2>2 DEF IInv, WriteInv, Ordered, AllCovered, Count
  <2>3. CASE pc = "pointers"
    <3>1. j \in 1..(i - 1) /\ k \in 1..(i - 1) /\ j \in 1..Count
      BY <2>1, <2>3 DEF IInv, PointersInv
    <3> QED
      BY <2>3, <3>1 DEF IInv, PointersInv, Ordered, AllCovered, Count
  <2> QED
    BY <2>2, <2>3 DEF InRebuild
<1> QED
  BY <1>1, Invariance, PTL
=============================================================================
