------------------------- MODULE BinSectionRefinement --------------------------
(***************************************************************************)
(* BinSection implements ImageStore, and what it reports as done can be    *)
(* opened again: for every alignment, every set of paths and settings, any *)
(* number of sections, and original files that are as linkers make them.   *)
(***************************************************************************)
EXTENDS BinSectionProofs, NatLemmas

(***************************************************************************)
(* Multiples of an alignment.                                              *)
(***************************************************************************)
LEMMA DivMod ==
  ASSUME NEW x \in Nat, NEW a \in Nat \ {0}
  PROVE  x \div a \in Nat /\ x = a * (x \div a) + (x % a) /\ x % a \in 0..(a - 1)
<1>1. x \div a \in Int /\ x \div a >= 0
  <2>1. x \div a >= 0
    OBVIOUS
  <2> QED
    BY <2>1
<1>2. x = a * (x \div a) + (x % a)
  OBVIOUS
<1>3. x % a \in 0..(a - 1)
  OBVIOUS
<1> QED
  BY <1>1, <1>2, <1>3

LEMMA UniqueRest ==
  ASSUME NEW a \in Nat \ {0}, NEW q \in Int, NEW p \in Int,
         NEW r \in 0..(a - 1), NEW s \in 0..(a - 1), a * q + r = a * p + s
  PROVE  q = p /\ r = s
<1>1. ASSUME q > p PROVE FALSE
  <2>1. a * (q - p) >= a
    BY <1>1
  <2> QED
    BY <2>1
<1>2. ASSUME q < p PROVE FALSE
  <2>1. a * (p - q) >= a
    BY <1>2
  <2> QED
    BY <2>1
<1> QED
  BY <1>1, <1>2

Multiple(x, a) == \E q \in Nat : x = a * q

LEMMA MultipleMod ==
  ASSUME NEW x \in Nat, NEW a \in Nat \ {0}
  PROVE  Multiple(x, a) <=> x % a = 0
<1>1. ASSUME x % a = 0 PROVE Multiple(x, a)
  <2> DEFINE p == x \div a
  <2>1. p \in Nat /\ x = a * p + 0
    BY <1>1, DivMod
  <2> HIDE DEF p
  <2> QED
    BY <2>1 DEF Multiple
<1>2. ASSUME NEW q \in Nat, x = a * q PROVE x % a = 0
  <2> DEFINE p == x \div a
             r == x % a
  <2>1. p \in Nat /\ x = a * p + r /\ r \in 0..(a - 1)
    BY DivMod
  <2> HIDE DEF p, r
  <2>2. 0 \in 0..(a - 1) /\ a * q + 0 = a * p + r
    BY <1>2, <2>1
  <2>3. r = 0
    BY <2>1, <2>2, UniqueRest
  <2> QED
    BY <2>3 DEF r
<1> QED
  BY <1>1, <1>2 DEF Multiple

LEMMA SumOfMultiples ==
  ASSUME NEW a \in Nat, NEW x, NEW y, Multiple(x, a), Multiple(y, a)
  PROVE  Multiple(x + y, a)
<1>1. PICK p \in Nat : x = a * p
  BY DEF Multiple
<1>2. PICK q \in Nat : y = a * q
  BY DEF Multiple
<1>3. x + y = a * (p + q) /\ p + q \in Nat
  BY <1>1, <1>2
<1> QED
  BY <1>3 DEF Multiple

(* align_up gives the least multiple that is not smaller.                  *)
LEMMA AlignUpLeast ==
  ASSUME NEW x \in Nat, NEW a \in Nat \ {0}
  PROVE  /\ AlignUp(x, a) \in Nat /\ x <= AlignUp(x, a) /\ Multiple(AlignUp(x, a), a)
         /\ \A y \in Nat : Multiple(y, a) /\ x <= y => AlignUp(x, a) <= y
         /\ Multiple(x, a) => AlignUp(x, a) = x /\ AlignDown(x, a) = x
<1> DEFINE q == x \div a
           r == x % a
<1>1. q \in Nat /\ r \in 0..(a - 1) /\ x = a * q + r
  BY DivMod
<1>2. AlignUp(x, a) = (IF r # 0 THEN x - r + a ELSE x) /\ AlignDown(x, a) = x - r
  BY DEF AlignUp, AlignDown
<1>3. r = 0 <=> Multiple(x, a)
  BY MultipleMod
<1> HIDE DEF q, r
<1>4. CASE r = 0
  BY <1>1, <1>2, <1>3, <1>4
<1>5. CASE r # 0
  <2>1. AlignUp(x, a) = a * (q + 1) /\ q + 1 \in Nat /\ AlignUp(x, a) \in Nat
    BY <1>1, <1>2, <1>5
  <2>2. ASSUME NEW y \in Nat, NEW p \in Nat, y = a * p, x <= y PROVE a * (q + 1) <= y
    <3>1. CASE p >= q + 1
      BY <2>2, <3>1, <1>1
    <3>2. CASE p <= q
      <4>1. a * p <= a * q
        BY <3>2, <1>1
      <4> QED
        BY <4>1, <2>2, <1>1, <1>5
    <3> QED
      BY <3>1, <3>2, <1>1
  <2>3. Multiple(AlignUp(x, a), a)
    BY <2>1 DEF Multiple
  <2>4. \A y \in Nat : Multiple(y, a) /\ x <= y => AlignUp(x, a) <= y
    BY <2>1, <2>2 DEF Multiple
  <2>5. x <= AlignUp(x, a)
    BY <1>1, <1>2, <1>5
  <2> QED
    BY <1>3, <1>5, <2>1, <2>3, <2>4, <2>5
<1> QED
  BY <1>4, <1>5

(* Adding a multiple commutes with align_up.                               *)
LEMMA AlignUpSum ==
  ASSUME NEW x \in Nat, NEW y \in Nat, NEW a \in Nat \ {0}, Multiple(y, a)
  PROVE  AlignUp(y + x, a) = y + AlignUp(x, a)
<1> DEFINE u == AlignUp(x, a)
           v == AlignUp(y + x, a)
<1>1. u \in Nat /\ x <= u /\ Multiple(u, a)
  BY AlignUpLeast
<1>0. y \in Nat /\ y + x \in Nat
  OBVIOUS
<1>2. v \in Nat /\ y + x <= v /\ Multiple(v, a)
      /\ \A z \in Nat : Multiple(z, a) /\ y + x <= z => v <= z
  <2> DEFINE s == y + x
  <2>1. s \in Nat
    BY <1>0
  <2> HIDE DEF s
  <2>2. /\ AlignUp(s, a) \in Nat /\ s <= AlignUp(s, a) /\ Multiple(AlignUp(s, a), a)
        /\ \A z \in Nat : Multiple(z, a) /\ s <= z => AlignUp(s, a) <= z
    BY <2>1, AlignUpLeast
  <2> QED
    BY <2>2 DEF s
<1>3. v <= y + u
  <2>1. Multiple(y + u, a)
    BY <1>1, SumOfMultiples
  <2> QED
    BY <1>1, <1>2, <2>1
<1>4. u <= v - y
  <2>1. PICK p \in Nat : v = a * p
    BY <1>2 DEF Multiple
  <2>2. PICK q \in Nat : y = a * q
    BY DEF Multiple
  <2>3. v - y = a * (p - q) /\ v - y \in Nat
    BY <1>2, <2>1, <2>2
  <2>4. p - q \in Nat
    <3>1. ASSUME p < q PROVE FALSE
      <4>1. a * (q - p) >= a
        BY <3>1
      <4> QED
        BY <2>1, <2>2, <2>3, <4>1
    <3> QED
      BY <3>1
  <2>5. Multiple(v - y, a)
    BY <2>3, <2>4 DEF Multiple
  <2> QED
    BY <1>2, <2>3, <2>5, AlignUpLeast
<1> QED
  BY <1>1, <1>2, <1>3, <1>4

(* The alignments: what is aligned in memory is aligned in the file.       *)
LEMMA SectionsAlignFiles ==
  ASSUME NEW x \in Nat, Multiple(x, SectAlign)
  PROVE  Multiple(x, FileAlign)
<1>1. PICK q \in Nat : x = SectAlign * q
  BY DEF Multiple
<1>2. PICK p \in Nat : SectAlign = FileAlign * p
  BY AlignAssumption, MultipleMod DEF Multiple
<1>3. x = FileAlign * (p * q) /\ p * q \in Nat
  BY <1>1, <1>2, AlignAssumption
<1> QED
  BY <1>3 DEF Multiple

LEMMA AlignUpMonotone ==
  ASSUME NEW x \in Nat, NEW y \in Nat, x <= y, NEW a \in Nat \ {0}
  PROVE  AlignUp(x, a) <= AlignUp(y, a)
<1>1. AlignUp(y, a) \in Nat /\ y <= AlignUp(y, a) /\ Multiple(AlignUp(y, a), a)
  BY AlignUpLeast
<1>2. x <= AlignUp(y, a)
  BY <1>1
<1> QED
  BY <1>1, <1>2, AlignUpLeast

(* Data that read_pe cuts to VirtualSize is longer than VirtualSize.       *)
LEMMA CutBelow ==
  ASSUME NEW raw \in Nat, NEW vsz \in Nat, NEW n \in Nat,
         raw <= AlignUp(n, FileAlign), AlignUp(raw, FileAlign) > AlignUp(vsz, SectAlign)
  PROVE  vsz < n
<1> SUFFICES ASSUME n <= vsz PROVE FALSE
  OBVIOUS
<1>1. /\ AlignUp(vsz, SectAlign) \in Nat /\ vsz <= AlignUp(vsz, SectAlign)
      /\ Multiple(AlignUp(vsz, SectAlign), SectAlign)
  BY AlignUpLeast, AlignAssumption
<1>2. AlignUp(n, FileAlign) <= AlignUp(vsz, SectAlign)
  <2>1. Multiple(AlignUp(vsz, SectAlign), FileAlign) /\ n <= AlignUp(vsz, SectAlign)
    BY <1>1, SectionsAlignFiles
  <2> QED
    BY <1>1, <2>1, AlignUpLeast, AlignAssumption
<1>3. AlignUp(raw, FileAlign) <= AlignUp(n, FileAlign)
  <2>1. AlignUp(n, FileAlign) \in Nat /\ Multiple(AlignUp(n, FileAlign), FileAlign)
    BY AlignUpLeast, AlignAssumption
  <2> QED
    BY <2>1, AlignUpLeast, AlignAssumption
<1>4. AlignUp(raw, FileAlign) \in Nat /\ AlignUp(n, FileAlign) \in Nat
  BY AlignUpLeast, AlignAssumption
<1> QED
  BY <1>1, <1>2, <1>3, <1>4

(***************************************************************************)
(* Bytes.                                                                  *)
(***************************************************************************)
At(d, x) == IF x <= Len(d) THEN d[x] ELSE 0

LEMMA ResizeSame ==
  ASSUME NEW d, NEW e, NEW v \in Nat, \A x \in 1..v : At(d, x) = At(e, x)
  PROVE  Resize(d, v) = Resize(e, v)
  BY DEF Resize, At

LEMMA ResizeTwice ==
  ASSUME NEW d \in Seq(Nat), NEW n \in Nat, NEW v \in Nat,
         \A x \in 1..Len(d) : x > n => d[x] = 0
  PROVE  Resize(Resize(d, n), v) = Resize(d, v)
<1> DEFINE e == Resize(d, n)
<1>1. Len(e) = n /\ Len(d) \in Nat
  BY ResizeType, LenProperties
<1>2. \A x \in 1..n : e[x] = At(d, x)
  BY DEF Resize, At
<1> HIDE DEF e
<1>3. \A x \in 1..v : At(e, x) = At(d, x)
  <2> SUFFICES ASSUME NEW x \in 1..v PROVE At(e, x) = At(d, x)
    OBVIOUS
  <2>1. CASE x <= n
    BY <1>1, <1>2, <2>1 DEF At
  <2>2. CASE x > n
    BY <1>1, <2>2 DEF At
  <2> QED
    BY <2>1, <2>2
<1> QED
  BY <1>3, ResizeSame DEF e

(* What realign_section strips are null bytes.                             *)
LEMMA BehindStripped ==
  ASSUME NEW d \in Seq(Nat), NEW x \in 1..Len(d), x > StrippedLen(d)
  PROVE  d[x] = 0
<1> DEFINE T == {k \in 1..Len(d) : \E j \in k..Len(d) : d[j] # 0}
<1>1. Len(d) \in Nat
  BY LenProperties
<1>2. \A n \in Nat : IsFiniteSet(1..n) /\ Cardinality(1..n) = n
  BY FS_Interval
<1>3. IsFiniteSet(T)
  BY <1>1, <1>2, FS_Subset, T \subseteq 1..Len(d)
<1>4. ASSUME d[x] # 0 PROVE FALSE
  <2>1. \A k \in 1..x : k \in T
    BY <1>1, <1>4
  <2>2. 1..x \subseteq T
    BY <2>1
  <2>3. Cardinality(1..x) <= Cardinality(T)
    BY <1>3, <2>2, FS_Subset
  <2>4. Cardinality(1..x) = x
    BY <1>1, <1>2
  <2>5. StrippedLen(d) = Cardinality(T) /\ Cardinality(T) \in Nat
    BY <1>3, FS_CardinalityType DEF StrippedLen
  <2> QED
    BY <1>1, <2>3, <2>4, <2>5
<1> QED
  BY <1>4

(***************************************************************************)
(* Sections.                                                               *)
(***************************************************************************)
(* SizeOfRawData is zero for a section without data only, and exceeds the  *)
(* data by what aligns it at most.                                         *)
Filled(s) == Len(s.data) <= s.raw /\ s.raw <= AlignUp(Len(s.data), FileAlign)

LEMMA EndOfSection ==
  ASSUME NEW s \in Section, s.vsz # 0
  PROVE  /\ EndOf(s) = s.va + AlignUp(s.vsz, SectAlign)
         /\ AlignUp(s.vsz, SectAlign) \in Nat
         /\ s.vsz <= AlignUp(s.vsz, SectAlign)
         /\ EndOf(s) \in Nat /\ s.va + s.vsz <= EndOf(s) /\ s.va < EndOf(s)
<1>1. s.va \in Nat /\ s.vsz \in Nat
  BY DEF Section
<1>2. AlignUp(s.vsz, SectAlign) \in Nat /\ s.vsz <= AlignUp(s.vsz, SectAlign)
  BY <1>1, AlignUpLeast, AlignAssumption
<1>3. EndOf(s) = s.va + AlignUp(s.vsz, SectAlign)
  BY DEF EndOf, AlignedVirtualSize
<1> QED
  BY <1>1, <1>2, <1>3

LEMMA EndAligned ==
  ASSUME NEW s \in Section, s.vsz # 0, s.va % SectAlign = 0
  PROVE  /\ AlignUp(EndOf(s), SectAlign) = EndOf(s)
         /\ AlignUp(s.va + s.vsz, SectAlign) = EndOf(s)
         /\ EndOf(s) % SectAlign = 0
<1>1. s.va \in Nat /\ s.vsz \in Nat
  BY DEF Section
<1>2. Multiple(s.va, SectAlign)
  BY <1>1, MultipleMod, AlignAssumption
<1>3. AlignUp(s.va + s.vsz, SectAlign) = EndOf(s)
  BY <1>1, <1>2, AlignUpSum, EndOfSection, AlignAssumption
<1>4. EndOf(s) \in Nat /\ Multiple(EndOf(s), SectAlign)
  <2>1. s.va + s.vsz \in Nat
    BY <1>1
  <2> QED
    BY <1>3, <2>1, AlignUpLeast, AlignAssumption
<1>5. AlignUp(EndOf(s), SectAlign) = EndOf(s)
  BY <1>4, AlignUpLeast, AlignAssumption
<1>6. EndOf(s) % SectAlign = 0
  BY <1>4, MultipleMod, AlignAssumption
<1> QED
  BY <1>3, <1>5, <1>6

(* Without holes, every section ends before a later one begins.            *)
LEMMA EndsOrdered ==
  ASSUME NEW ss \in Seq(Section), Contiguous(ss), \A k \in 1..Len(ss) : ss[k].vsz # 0
  PROVE  \A k, m \in 1..Len(ss) : k < m => EndOf(ss[k]) <= ss[m].va
<1> DEFINE S == {m \in Nat : m \in 1..Len(ss) =>
                   \A k \in 1..(m - 1) : EndOf(ss[k]) <= ss[m].va}
<1>1. Len(ss) \in Nat
  BY LenProperties
<1>2. \A k \in 1..Len(ss) : ss[k] \in Section
  BY ElementOfSeq
<1>3. \A k \in 1..Len(ss) : EndOf(ss[k]) \in Nat /\ ss[k].va < EndOf(ss[k])
  BY <1>2, EndOfSection
<1>4. \A k \in 1..Len(ss) : ss[k].va \in Nat
  BY <1>2 DEF Section
<1>5. 0 \in S
  BY <1>1
<1>6. ASSUME NEW m \in Nat, m \in S PROVE m + 1 \in S
  <2> SUFFICES ASSUME m + 1 \in 1..Len(ss), NEW k \in 1..m
               PROVE  EndOf(ss[k]) <= ss[m + 1].va
    BY <1>1
  <2>1. m \in 1..(Len(ss) - 1) /\ m \in 1..Len(ss) /\ k \in 1..Len(ss)
    BY <1>1
  <2>2. ss[m + 1].va = EndOf(ss[m])
    BY <2>1 DEF Contiguous
  <2>3. CASE k = m
    BY <1>3, <2>1, <2>2, <2>3
  <2>4. CASE k # m
    <3>1. EndOf(ss[k]) <= ss[m].va
      BY <1>6, <2>1, <2>4
    <3> QED
      BY <1>3, <1>4, <2>1, <2>2, <3>1
  <2> QED
    BY <2>3, <2>4
<1> HIDE DEF S
<1>7. \A m \in Nat : m \in S
  BY <1>5, <1>6, SetInduction
<1> QED
  <2> SUFFICES ASSUME NEW k \in 1..Len(ss), NEW m \in 1..Len(ss), k < m
               PROVE  EndOf(ss[k]) <= ss[m].va
    OBVIOUS
  <2>1. m \in S /\ k \in 1..(m - 1)
    BY <1>1, <1>7
  <2> QED
    BY <2>1 DEF S

LEMMA LoadedRawFacts ==
  ASSUME NEW h \in Section
  PROVE  /\ LoadedRaw(h) \in Nat /\ LoadedRaw(h) <= h.raw
         /\ \/ LoadedRaw(h) = h.raw
            \/ /\ LoadedRaw(h) = h.vsz
               /\ AlignUp(h.raw, FileAlign) > AlignUp(h.vsz, SectAlign)
         /\ h.raw # 0 /\ h.vsz # 0 => LoadedRaw(h) # 0
<1>1. h.raw \in Nat /\ h.vsz \in Nat
  BY DEF Section
<1>2. CASE AlignUp(h.raw, FileAlign) > AlignUp(h.vsz, SectAlign)
  <2>1. h.raw <= AlignUp(h.raw, FileAlign)
    BY <1>1, AlignUpLeast, AlignAssumption
  <2>2. h.vsz < h.raw
    BY <1>1, <1>2, <2>1, CutBelow
  <2> QED
    BY <1>1, <1>2, <2>2 DEF LoadedRaw
<1>3. CASE ~(AlignUp(h.raw, FileAlign) > AlignUp(h.vsz, SectAlign))
  <2>1. LoadedRaw(h) = h.raw
    BY <1>3 DEF LoadedRaw
  <2> QED
    BY <1>1, <2>1
<1> QED
  BY <1>2, <1>3

LEMMA LoadSectionFacts ==
  ASSUME NEW h \in Section, NEW b \in Seq(Nat), NEW size \in Nat,
         SectionReadable(h, size, Len(b))
  PROVE  LET s == LoadSection(h, b)
         IN  /\ s \in Section /\ s.va = h.va /\ s.vsz = h.vsz /\ s.ptr = h.ptr
             /\ s.raw = LoadedRaw(h) /\ Len(s.data) = s.raw
             /\ s.data = IF h.raw = 0 THEN <<>>
                         ELSE Slice(b, AlignDown(h.ptr, FileAlign), LoadedRaw(h))
             /\ Filled(s)
<1> DEFINE s == LoadSection(h, b)
<1>1. /\ h.raw \in Nat /\ h.ptr \in Nat /\ Len(b) \in Nat
      /\ LoadedRaw(h) \in Nat /\ LoadedRaw(h) <= h.raw
  BY LenProperties, LoadedRawFacts DEF Section
<1>2. /\ s.va = h.va /\ s.vsz = h.vsz /\ s.ptr = h.ptr /\ s.raw = LoadedRaw(h)
      /\ s.data = IF h.raw = 0 THEN <<>>
                  ELSE Slice(b, AlignDown(h.ptr, FileAlign), LoadedRaw(h))
  BY DEF LoadSection, Section
<1>3. s \in Section
  BY LoadSectionType
<1> HIDE DEF s
<1>4. Len(s.data) = s.raw
  <2>1. CASE h.raw = 0
    BY <1>1, <1>2, <2>1, EmptySeq
  <2>2. CASE h.raw # 0
    <3>1. AlignDown(h.ptr, FileAlign) \in Nat
      BY <1>1, AlignDownLe, AlignAssumption
    <3>2. AlignDown(h.ptr, FileAlign) + LoadedRaw(h) <= Len(b)
      BY <2>2 DEF SectionReadable
    <3> QED
      BY <1>1, <1>2, <2>2, <3>1, <3>2, SliceType
  <2> QED
    BY <2>1, <2>2
<1>5. Filled(s)
  <2>1. s.raw <= AlignUp(s.raw, FileAlign)
    BY <1>1, <1>2, AlignUpLeast, AlignAssumption
  <2> QED
    BY <1>1, <1>2, <1>4, <2>1 DEF Filled
<1> QED
  BY <1>2, <1>3, <1>4, <1>5 DEF s

(***************************************************************************)
(* Section tables that can be read back.                                   *)
(***************************************************************************)
(* What linkers make: no VirtualSize is zero, and addresses are aligned.   *)
Regular(ss) ==
  \A k \in 1..Len(ss) : ss[k].vsz # 0 /\ ss[k].va % SectAlign = 0

Table(ss) ==
  /\ Len(ss) <= MaxSections
  /\ Regular(ss)
  /\ Contiguous(ss)
  /\ \A k \in 1..Len(ss) : Filled(ss[k])

MappedSection == [va: Nat, vsz: Nat, mem: Seq(Nat)]

LEMMA ImageType ==
  ASSUME NEW ss \in Seq(Section)
  PROVE  /\ MappedImage(ss) \in Seq(MappedSection) /\ MappedImage(ss) # NoFile
         /\ Len(MappedImage(ss)) = Len(ss)
         /\ \A k \in 1..Len(ss) : MappedImage(ss)[k] = Mapped(ss[k])
<1>1. Len(ss) \in Nat
  BY LenProperties
<1>2. ASSUME NEW k \in 1..Len(ss) PROVE Mapped(ss[k]) \in MappedSection
  <2>1. ss[k] \in Section
    BY ElementOfSeq
  <2>2. ss[k].va \in Nat /\ ss[k].vsz \in Nat /\ ss[k].data \in Seq(Nat)
    BY <2>1 DEF Section
  <2>3. Resize(ss[k].data, ss[k].vsz) \in Seq(Nat)
    BY <2>2, ResizeType
  <2> QED
    BY <2>2, <2>3 DEF Mapped, MappedSection
<1>3. MappedImage(ss) \in [1..Len(ss) -> MappedSection]
  BY <1>2 DEF MappedImage
<1>4. MappedImage(ss) \in Seq(MappedSection) /\ Len(MappedImage(ss)) = Len(ss)
  BY <1>1, <1>3, FunctionIsSeq
<1>5. MappedImage(ss) # NoFile
  BY <1>4, NoFileAssumption DEF MappedSection
<1>6. \A k \in 1..Len(ss) : MappedImage(ss)[k] = Mapped(ss[k])
  BY DEF MappedImage
<1> QED
  BY <1>4, <1>5, <1>6

(* Two tables that map each section alike are the same image.              *)
LEMMA SameImage ==
  ASSUME NEW ss \in Seq(Section), NEW tt \in Seq(Section), Len(tt) = Len(ss),
         \A k \in 1..Len(ss) : Mapped(tt[k]) = Mapped(ss[k])
  PROVE  MappedImage(tt) = MappedImage(ss)
  BY DEF MappedImage

LEMMA ReplaceInTable ==
  ASSUME NEW ss \in Seq(Section), Table(ss), NEW k \in 1..Len(ss),
         NEW s \in Section, s.va = ss[k].va, s.vsz = ss[k].vsz, Filled(s),
         Resize(s.data, s.vsz) = Resize(ss[k].data, s.vsz)
  PROVE  /\ Table([ss EXCEPT ![k] = s])
         /\ MappedImage([ss EXCEPT ![k] = s]) = MappedImage(ss)
<1> DEFINE tt == [ss EXCEPT ![k] = s]
<1>1. /\ tt \in Seq(Section) /\ Len(tt) = Len(ss) /\ Len(ss) \in Nat
      /\ \A m \in 1..Len(ss) : tt[m] = IF m = k THEN s ELSE ss[m]
  BY ExceptSeq, LenProperties
<1> HIDE DEF tt
<1>2. \A m \in 1..Len(ss) : ss[m] \in Section /\ ss[m].vsz # 0
  BY ElementOfSeq DEF Table, Regular
<1>3. \A m \in 1..Len(ss) : tt[m].va = ss[m].va /\ tt[m].vsz = ss[m].vsz /\ Filled(tt[m])
  BY <1>1 DEF Table
<1>4. \A m \in 1..Len(ss) : EndOf(tt[m]) = EndOf(ss[m])
  <2> SUFFICES ASSUME NEW m \in 1..Len(ss) PROVE EndOf(tt[m]) = EndOf(ss[m])
    OBVIOUS
  <2>1. tt[m] \in Section
    BY <1>1, <1>2
  <2> QED
    BY <1>2, <1>3, <2>1, EndOfSection
<1>5. Contiguous(tt)
  <2> SUFFICES ASSUME NEW m \in 1..(Len(ss) - 1) PROVE tt[m + 1].va = EndOf(tt[m])
    BY <1>1 DEF Contiguous
  <2>1. m \in 1..Len(ss) /\ m + 1 \in 1..Len(ss)
    BY <1>1
  <2> QED
    BY <1>3, <1>4, <2>1 DEF Table, Contiguous
<1>6. Table(tt)
  BY <1>1, <1>3, <1>5 DEF Table, Regular
<1>7. \A m \in 1..Len(ss) : Mapped(tt[m]) = Mapped(ss[m])
  BY <1>1 DEF Mapped
<1> QED
  BY <1>1, <1>6, <1>7, SameImage DEF tt

LEMMA PoppedTable ==
  ASSUME NEW ss \in Seq(Section), Table(ss), ss # <<>>
  PROVE  LET tt == SubSeq(ss, 1, Len(ss) - 1)
         IN  /\ Table(tt)
             /\ MappedImage(tt) = SubSeq(MappedImage(ss), 1, Len(ss) - 1)
<1> DEFINE n  == Len(ss) - 1
           tt == SubSeq(ss, 1, n)
<1>1. n \in Nat /\ Len(ss) = n + 1
  BY EmptySeq
<1>2. /\ tt \in Seq(Section) /\ Len(tt) = n
      /\ \A k \in 1..n : tt[k] = ss[k] /\ k \in 1..Len(ss)
  <2>1. 1 \in 1..(Len(ss) + 1) /\ n \in 0..Len(ss)
    BY <1>1
  <2> QED
    BY <1>1, <2>1, SubSeqProperties
<1> HIDE DEF tt, n
<1>3. Table(tt)
  <2>1. Contiguous(tt)
    <3> SUFFICES ASSUME NEW m \in 1..(n - 1) PROVE tt[m + 1].va = EndOf(tt[m])
      BY <1>2 DEF Contiguous
    <3>1. m \in 1..n /\ m + 1 \in 1..n /\ m \in 1..(Len(ss) - 1)
      BY <1>1
    <3> QED
      BY <1>2, <3>1 DEF Table, Contiguous
  <2>2. MaxSections \in Nat /\ n <= MaxSections
    BY <1>1, SizeAssumption DEF Table
  <2> QED
    BY <1>2, <2>1, <2>2 DEF Table, Regular
<1>4. MappedImage(tt) = SubSeq(MappedImage(ss), 1, n)
  <2> DEFINE v == SubSeq(MappedImage(ss), 1, n)
  <2>1. /\ MappedImage(ss) \in Seq(MappedSection) /\ Len(MappedImage(ss)) = n + 1
        /\ \A k \in 1..Len(ss) : MappedImage(ss)[k] = Mapped(ss[k])
    BY <1>1, ImageType
  <2>2. /\ v \in Seq(MappedSection) /\ Len(v) = n
        /\ \A k \in 1..n : v[k] = MappedImage(ss)[k]
    <3>1. 1 \in 1..(Len(MappedImage(ss)) + 1) /\ n \in 0..Len(MappedImage(ss))
      BY <1>1, <2>1
    <3> QED
      BY <1>1, <2>1, <3>1, SubSeqProperties
  <2> HIDE DEF v
  <2>3. /\ MappedImage(tt) \in Seq(MappedSection) /\ Len(MappedImage(tt)) = n
        /\ \A k \in 1..n : MappedImage(tt)[k] = Mapped(tt[k])
    BY <1>2, ImageType
  <2>4. \A k \in 1..n : MappedImage(tt)[k] = v[k]
    BY <1>2, <2>1, <2>2, <2>3
  <2>5. MappedImage(tt) = v
    BY <2>2, <2>3, <2>4, SeqEqual
  <2> QED
    BY <2>5 DEF v
<1> QED
  BY <1>3, <1>4 DEF tt, n

LEMMA AppendToTable ==
  ASSUME NEW ss \in Seq(Section), Table(ss), Len(ss) < MaxSections,
         NEW s \in Section, s.vsz # 0, s.va % SectAlign = 0, Filled(s),
         ss # <<>> => s.va = EndOf(ss[Len(ss)])
  PROVE  /\ Table(Append(ss, s))
         /\ MappedImage(Append(ss, s)) = Append(MappedImage(ss), Mapped(s))
<1> DEFINE n  == Len(ss)
           tt == Append(ss, s)
<1>1. n \in Nat
  BY LenProperties
<1>2. /\ tt \in Seq(Section) /\ Len(tt) = n + 1 /\ tt[n + 1] = s
      /\ \A k \in 1..n : tt[k] = ss[k]
  BY AppendProperties
<1> HIDE DEF tt
<1>3. \A k \in 1..(n + 1) : k \in 1..n \/ k = n + 1
  BY <1>1
<1>4. Table(tt)
  <2>1. Contiguous(tt)
    <3> SUFFICES ASSUME NEW m \in 1..n PROVE tt[m + 1].va = EndOf(tt[m])
      BY <1>1, <1>2 DEF Contiguous
    <3>1. CASE m = n
      <4>1. ss # <<>>
        BY <1>1, <3>1, EmptySeq
      <4> QED
        BY <1>2, <3>1, <4>1
    <3>2. CASE m # n
      <4>1. m \in 1..(n - 1) /\ m + 1 \in 1..n
        BY <1>1, <3>2
      <4> QED
        BY <1>2, <4>1 DEF Table, Contiguous
    <3> QED
      BY <3>1, <3>2
  <2>2. n + 1 <= MaxSections
    BY <1>1, SizeAssumption
  <2>3. \A k \in 1..(n + 1) : tt[k].vsz # 0 /\ tt[k].va % SectAlign = 0 /\ Filled(tt[k])
    BY <1>2, <1>3 DEF Table, Regular
  <2> QED
    BY <1>2, <2>1, <2>2, <2>3 DEF Table, Regular
<1>5. MappedImage(tt) = Append(MappedImage(ss), Mapped(s))
  <2> DEFINE v == Append(MappedImage(ss), Mapped(s))
  <2>1. /\ MappedImage(ss) \in Seq(MappedSection) /\ Len(MappedImage(ss)) = n
        /\ \A k \in 1..n : MappedImage(ss)[k] = Mapped(ss[k])
    BY ImageType
  <2>2. /\ MappedImage(tt) \in Seq(MappedSection) /\ Len(MappedImage(tt)) = n + 1
        /\ \A k \in 1..(n + 1) : MappedImage(tt)[k] = Mapped(tt[k])
    BY <1>2, ImageType
  <2>3. Mapped(s) \in MappedSection
    <3>1. MappedImage(tt)[n + 1] \in MappedSection
      BY <1>1, <2>2, ElementOfSeq
    <3> QED
      BY <1>1, <1>2, <2>2, <3>1
  <2>4. /\ v \in Seq(MappedSection) /\ Len(v) = n + 1 /\ v[n + 1] = Mapped(s)
        /\ \A k \in 1..n : v[k] = MappedImage(ss)[k]
    BY <2>1, <2>3, AppendProperties
  <2> HIDE DEF v
  <2>5. ASSUME NEW k \in 1..(n + 1) PROVE MappedImage(tt)[k] = v[k]
    <3>1. CASE k \in 1..n
      <4>1. v[k] = Mapped(ss[k])
        BY <2>1, <2>4, <3>1
      <4> QED
        BY <1>2, <2>2, <3>1, <4>1
    <3>2. CASE k = n + 1
      BY <1>2, <2>2, <2>4, <3>2
    <3> QED
      BY <1>3, <3>1, <3>2
  <2>6. MappedImage(tt) = v
    BY <2>2, <2>4, <2>5, SeqEqual
  <2> QED
    BY <2>6 DEF v
<1> QED
  BY <1>4, <1>5 DEF tt

(***************************************************************************)
(* The section that create_Section adds.                                   *)
(***************************************************************************)
NewAddress == IF secs = <<>> THEN AlignUp(soh, SectAlign) ELSE EndOf(secs[Len(secs)])
NewSize    == IF conf.vsz # 0 THEN conf.vsz ELSE AlignUp(conf.raw, FileAlign)
Added      == [va |-> NewAddress, vsz |-> NewSize, raw |-> AlignUp(conf.raw, FileAlign),
               ptr |-> 0, data |-> Resize(<<>>, conf.raw)]

LEMMA SetLast ==
  ASSUME NEW ss \in Seq(Section), NEW q \in Section, NEW v \in Nat
  PROVE  SetSectionVirtualSize(Append(ss, q), v) =
           Append(ss, [q EXCEPT !.vsz = IF v = 0 THEN q.raw ELSE v])
<1> DEFINE n == Len(ss)
           t == Append(ss, q)
           r == [q EXCEPT !.vsz = IF v = 0 THEN q.raw ELSE v]
           u == Append(ss, r)
<1>1. n \in Nat /\ n + 1 \in 1..(n + 1)
  BY LenProperties
<1>2. q.raw \in Nat
  BY DEF Section
<1>3. r \in Section
  BY <1>2 DEF Section
<1> HIDE DEF r
<1>4. /\ t \in Seq(Section) /\ Len(t) = n + 1 /\ t[n + 1] = q
      /\ \A k \in 1..n : t[k] = ss[k]
  BY AppendProperties
<1>5. /\ u \in Seq(Section) /\ Len(u) = n + 1 /\ u[n + 1] = r
      /\ \A k \in 1..n : u[k] = ss[k]
  BY <1>3, AppendProperties
<1> HIDE DEF t, u
<1>6. SetSectionVirtualSize(t, v) = [t EXCEPT ![n + 1] = r]
  BY <1>4 DEF SetSectionVirtualSize, r
<1> DEFINE w == [t EXCEPT ![n + 1] = r]
<1>7. /\ w \in Seq(Section) /\ Len(w) = n + 1
      /\ \A k \in 1..(n + 1) : w[k] = IF k = n + 1 THEN r ELSE t[k]
  BY <1>1, <1>3, <1>4, ExceptSeq
<1> HIDE DEF w
<1>8. \A k \in 1..(n + 1) : w[k] = u[k]
  <2> SUFFICES ASSUME NEW k \in 1..(n + 1) PROVE w[k] = u[k]
    OBVIOUS
  <2>1. k \in 1..n \/ k = n + 1
    BY <1>1
  <2> QED
    BY <1>1, <1>4, <1>5, <1>7, <2>1
<1>9. w = u
  BY <1>5, <1>7, <1>8, SeqEqual
<1> QED
  BY <1>6, <1>9 DEF w, u, t, r

(* The address and size of the new section, whatever the table.            *)
LEMMA AddedType ==
  ASSUME secs \in Seq(Section), soh \in Nat, Table(secs),
         conf.raw \in Nat, conf.vsz \in Nat, ~(conf.raw = 0 /\ conf.vsz = 0)
  PROVE  /\ Added \in Section /\ Added.vsz # 0 /\ Added.va % SectAlign = 0 /\ Filled(Added)
         /\ Mapped(Added) = [va |-> NewAddress, vsz |-> NewSize, mem |-> Resize(<<>>, NewSize)]
         /\ NewSize \in Nat \ {0} /\ NewAddress \in Nat
<1>1. NewAddress \in Nat /\ NewAddress % SectAlign = 0
  <2>1. CASE secs = <<>>
    <3>1. AlignUp(soh, SectAlign) \in Nat /\ Multiple(AlignUp(soh, SectAlign), SectAlign)
      BY AlignUpLeast, AlignAssumption
    <3> QED
      BY <2>1, <3>1, MultipleMod, AlignAssumption DEF NewAddress
  <2>2. CASE secs # <<>>
    <3>1. Len(secs) \in 1..Len(secs)
      BY <2>2, EmptySeq
    <3>2. /\ secs[Len(secs)] \in Section /\ secs[Len(secs)].vsz # 0
          /\ secs[Len(secs)].va % SectAlign = 0
      BY <3>1, ElementOfSeq DEF Table, Regular
    <3> QED
      BY <2>2, <3>2, EndAligned, EndOfSection DEF NewAddress
  <2> QED
    BY <2>1, <2>2
<1>2. AlignUp(conf.raw, FileAlign) \in Nat /\ conf.raw <= AlignUp(conf.raw, FileAlign)
  BY AlignUpLeast, AlignAssumption
<1>3. NewSize \in Nat \ {0}
  BY <1>2 DEF NewSize
<1>4. Resize(<<>>, conf.raw) \in Seq(Nat) /\ Len(Resize(<<>>, conf.raw)) = conf.raw
  BY ResizeType, EmptySeq
<1>5. Resize(Resize(<<>>, conf.raw), NewSize) = Resize(<<>>, NewSize)
  <2>1. <<>> \in Seq(Nat) /\ Len(<<>>) = 0
    BY EmptySeq
  <2>2. \A x \in 1..Len(<<>>) : x > conf.raw => <<>>[x] = 0
    BY <2>1
  <2> QED
    BY <1>3, <2>1, <2>2, ResizeTwice
<1>6. Added \in Section
  BY <1>1, <1>2, <1>3, <1>4 DEF Added, Section
<1>7. Filled(Added)
  BY <1>2, <1>4 DEF Added, Filled
<1>8. Mapped(Added) = [va |-> NewAddress, vsz |-> NewSize, mem |-> Resize(<<>>, NewSize)]
  BY <1>5 DEF Added, Mapped
<1> QED
  BY <1>1, <1>3, <1>6, <1>7, <1>8 DEF Added

LEMMA WantedGrown ==
  ASSUME secs \in Seq(Section), soh \in Nat, Table(secs), op = "create",
         conf.raw \in Nat, conf.vsz \in Nat, ~(conf.raw = 0 /\ conf.vsz = 0)
  PROVE  Wanted = Append(MappedImage(secs), Mapped(Added))
<1> DEFINE img == MappedImage(secs)
<1>1. img \in Seq(MappedSection) /\ Len(img) = Len(secs)
  BY ImageType
<1>2. img = <<>> <=> secs = <<>>
  <2>1. img = <<>> <=> Len(img) = 0
    BY <1>1, EmptySeq
  <2>2. secs = <<>> <=> Len(secs) = 0
    BY EmptySeq
  <2> QED
    BY <1>1, <2>1, <2>2
<1>3. secs # <<>> => img[Len(img)] = Mapped(secs[Len(secs)])
  <2> SUFFICES ASSUME secs # <<>> PROVE img[Len(img)] = Mapped(secs[Len(secs)])
    OBVIOUS
  <2>1. Len(secs) \in 1..Len(secs)
    BY EmptySeq
  <2> QED
    BY <1>1, <2>1, ImageType
<1> HIDE DEF img
<1> DEFINE last == img[Len(img)]
           at   == AlignUp(IF img = <<>> THEN soh ELSE last.va + last.vsz, SectAlign)
<1>4. at = NewAddress
  <2>1. CASE secs = <<>>
    BY <1>2, <2>1 DEF NewAddress
  <2>2. CASE secs # <<>>
    <3>1. Len(secs) \in 1..Len(secs)
      BY <2>2, EmptySeq
    <3>2. /\ secs[Len(secs)] \in Section /\ secs[Len(secs)].vsz # 0
          /\ secs[Len(secs)].va % SectAlign = 0
      BY <3>1, ElementOfSeq DEF Table, Regular
    <3>3. last.va = secs[Len(secs)].va /\ last.vsz = secs[Len(secs)].vsz
      BY <1>3, <2>2 DEF Mapped
    <3>4. AlignUp(secs[Len(secs)].va + secs[Len(secs)].vsz, SectAlign) = EndOf(secs[Len(secs)])
      BY <3>2, EndAligned
    <3> QED
      BY <1>2, <2>2, <3>3, <3>4 DEF NewAddress
  <2> QED
    BY <2>1, <2>2
<1>5. Wanted = Append(img, [va |-> at, vsz |-> NewSize, mem |-> Resize(<<>>, NewSize)])
  BY DEF Wanted, NewSize, img
<1>6. Mapped(Added) = [va |-> NewAddress, vsz |-> NewSize, mem |-> Resize(<<>>, NewSize)]
  BY AddedType
<1> QED
  BY <1>4, <1>5, <1>6 DEF img

LEMMA WantedShrunk ==
  ASSUME secs \in Seq(Section), op = "remove", secs # <<>>
  PROVE  Wanted = SubSeq(MappedImage(secs), 1, Len(secs) - 1)
<1> DEFINE img == MappedImage(secs)
<1>1. img \in Seq(MappedSection) /\ Len(img) = Len(secs) /\ Len(secs) # 0
  BY ImageType, EmptySeq
<1>2. img # <<>>
  BY <1>1, EmptySeq
<1> HIDE DEF img
<1>3. Wanted = SubSeq(img, 1, Len(img) - 1)
  BY <1>2 DEF Wanted, img
<1> QED
  BY <1>1, <1>3 DEF img

LEMMA AddedTable ==
  ASSUME secs \in Seq(Section), soh \in Nat, Table(secs), Len(secs) < MaxSections,
         conf.raw \in Nat \ {0}, conf.vsz \in Nat, op = "create"
  PROVE  LET tt == SetSectionVirtualSize(AddSection(secs, soh, NewSection), conf.vsz)
         IN  Table(tt) /\ MappedImage(tt) = Wanted
<1> DEFINE n  == Len(secs)
           r  == AlignUp(conf.raw, FileAlign)
           q  == [va |-> NewAddress, vsz |-> r, raw |-> r, ptr |-> 0,
                  data |-> Resize(<<>>, conf.raw)]
           last == [secs[n] EXCEPT !.raw = AlignUp(Len(secs[n].data), FileAlign)]
           ss == IF n = 0 THEN <<>> ELSE [secs EXCEPT ![n] = last]
<1>1. r \in Nat /\ Resize(<<>>, conf.raw) \in Seq(Nat) /\ Len(Resize(<<>>, conf.raw)) = conf.raw
  BY ResizeType, EmptySeq, AlignUpLeast, AlignAssumption
<1>2. /\ NewSection.data = Resize(<<>>, conf.raw) /\ NewSection.va = 0
      /\ NewSection.vsz = 0 /\ NewSection.ptr = 0
      /\ PrepareSection(NewSection) = [va |-> 0, vsz |-> r, raw |-> r, ptr |-> 0,
                                       data |-> Resize(<<>>, conf.raw)]
  <2> DEFINE d == Resize(<<>>, conf.raw)
  <2> HIDE DEF d
  <2>1. NewSection = [va |-> 0, vsz |-> 0, raw |-> 0, ptr |-> 0, data |-> d]
    BY DEF NewSection, d
  <2>2. AlignUp(Len(d), FileAlign) = r
    BY <1>1 DEF d
  <2> HIDE DEF r
  <2>3. PrepareSection(NewSection) = [va |-> 0, vsz |-> r, raw |-> r, ptr |-> 0, data |-> d]
    <3>1. NewSection.vsz = 0 /\ NewSection.data = d
      BY <2>1
    <3>2. PrepareSection(NewSection) = [NewSection EXCEPT !.raw = r, !.vsz = r]
      BY <2>2, <3>1 DEF PrepareSection
    <3> QED
      BY <2>1, <3>2
  <2> QED
    BY <2>1, <2>3 DEF d
<1>3. q \in Section
  BY <1>1, AddedType DEF Section
<1>4. /\ ss \in Seq(Section) /\ Table(ss) /\ Len(ss) = n
      /\ MappedImage(ss) = MappedImage(secs)
      /\ ss # <<>> => secs # <<>> /\ EndOf(ss[n]) = EndOf(secs[n])
      /\ AddSection(secs, soh, NewSection) = Append(ss, q)
  <2>1. CASE n = 0
    <3>1. secs = <<>>
      BY <2>1, EmptySeq
    <3>2. AddSection(secs, soh, NewSection) = <<q>>
      BY <1>2, <2>1, <3>1 DEF AddSection, NewAddress
    <3>3. Append(<<>>, q) = <<q>>
      OBVIOUS
    <3> QED
      BY <2>1, <3>1, <3>2, <3>3
  <2>2. CASE n # 0
    <3>1. /\ n \in 1..n /\ secs # <<>> /\ secs[n] \in Section /\ secs[n].vsz # 0
          /\ secs[n].va % SectAlign = 0
      BY <2>2, EmptySeq, LenProperties, ElementOfSeq DEF Table, Regular
    <3>2. Len(secs[n].data) \in Nat
      BY <3>1, LenProperties DEF Section
    <3>3. /\ AlignUp(Len(secs[n].data), FileAlign) \in Nat
          /\ Len(secs[n].data) <= AlignUp(Len(secs[n].data), FileAlign)
      BY <3>2, AlignUpLeast, AlignAssumption
    <3>4. /\ last \in Section /\ last.va = secs[n].va /\ last.vsz = secs[n].vsz
          /\ last.data = secs[n].data /\ last.raw = AlignUp(Len(secs[n].data), FileAlign)
      BY <3>1, <3>3 DEF Section
    <3>5. EndOf(last) = EndOf(secs[n])
      BY <3>1, <3>4, EndOfSection
    <3>6. Filled(last)
      BY <3>2, <3>3, <3>4 DEF Filled
    <3>7. AddSection(secs, soh, NewSection) = Append([secs EXCEPT ![n] = last], q)
      <4>1. AlignUp(EndOf(secs[n]), SectAlign) = NewAddress
        BY <3>1, EndAligned DEF NewAddress
      <4> QED
        BY <1>2, <2>2, <4>1 DEF AddSection
    <3> HIDE DEF last
    <3>8. /\ [secs EXCEPT ![n] = last] \in Seq(Section)
          /\ Len([secs EXCEPT ![n] = last]) = n
          /\ [secs EXCEPT ![n] = last][n] = last
      BY <3>1, <3>4, ExceptSeq
    <3>9. /\ Table([secs EXCEPT ![n] = last])
          /\ MappedImage([secs EXCEPT ![n] = last]) = MappedImage(secs)
      BY <3>1, <3>4, <3>6, ReplaceInTable
    <3> QED
      BY <2>2, <3>1, <3>5, <3>7, <3>8, <3>9
  <2> QED
    BY <2>1, <2>2
<1> HIDE DEF ss, last
<1>5. SetSectionVirtualSize(Append(ss, q), conf.vsz) = Append(ss, Added)
  <2>1. [q EXCEPT !.vsz = IF conf.vsz = 0 THEN q.raw ELSE conf.vsz] = Added
    BY DEF Added, NewSize
  <2> HIDE DEF q
  <2> QED
    BY <1>3, <1>4, <2>1, SetLast
<1>6. /\ Added \in Section /\ Added.vsz # 0 /\ Added.va % SectAlign = 0 /\ Filled(Added)
      /\ Added.va = NewAddress
  BY AddedType DEF Added
<1>7. ss # <<>> => Added.va = EndOf(ss[Len(ss)])
  BY <1>4, <1>6 DEF NewAddress
<1>8. Table(Append(ss, Added)) /\ MappedImage(Append(ss, Added)) = Append(MappedImage(ss), Mapped(Added))
  BY <1>4, <1>6, <1>7, AppendToTable
<1>9. Wanted = Append(MappedImage(secs), Mapped(Added))
  BY WantedGrown
<1> QED
  BY <1>4, <1>5, <1>8, <1>9

(***************************************************************************)
(* Files that rebuild_pe writes.                                           *)
(***************************************************************************)
(* The null bytes behind the data of a section, as far as there are any.   *)
Padded(s, b) ==
  \A x \in (Len(s.data) + 1)..AlignedRawSize(s) :
    s.ptr + x <= Len(b) => b[s.ptr + x] = 0

LEMMA HeaderFacts ==
  ASSUME NEW ss \in Seq(Section), NEW k \in 1..Len(ss)
  PROVE  /\ HeaderOf(ss, k) \in Section
         /\ HeaderOf(ss, k).va = ss[k].va /\ HeaderOf(ss, k).vsz = ss[k].vsz
         /\ HeaderOf(ss, k).ptr = ss[k].ptr
         /\ HeaderOf(ss, k).raw = IF k = Len(ss) THEN Len(ss[k].data) ELSE ss[k].raw
<1> DEFINE r == IF k = Len(ss) THEN Len(ss[k].data) ELSE ss[k].raw
           s == ss[k]
<1>1. s \in Section
  BY ElementOfSeq
<1>2. Len(s.data) \in Nat
  BY <1>1, LenProperties DEF Section
<1>3. r \in Nat
  BY <1>1, <1>2 DEF Section
<1>4. HeaderOf(ss, k) = [s EXCEPT !.data = <<>>, !.raw = r]
  BY <1>1 DEF HeaderOf, Section
<1> HIDE DEF r, s
<1>5. /\ HeaderOf(ss, k) \in Section /\ HeaderOf(ss, k).raw = r
      /\ HeaderOf(ss, k).va = s.va /\ HeaderOf(ss, k).vsz = s.vsz
      /\ HeaderOf(ss, k).ptr = s.ptr
  BY <1>1, <1>3, <1>4, EmptySeq DEF Section
<1> QED
  BY <1>5 DEF r, s

LEMMA LoadedType ==
  ASSUME NEW f \in File,
         \A k \in 1..Len(f.secs) : SectionReadable(f.secs[k], f.soi, Len(f.bytes))
  PROVE  /\ Loaded(f) \in Seq(Section) /\ Len(Loaded(f)) = Len(f.secs)
         /\ \A k \in 1..Len(f.secs) : Loaded(f)[k] = LoadSection(f.secs[k], f.bytes)
<1>1. f.secs \in Seq(Section) /\ f.bytes \in Seq(Nat) /\ f.soi \in Nat
  BY DEF File
<1>2. Len(f.secs) \in Nat
  BY <1>1, LenProperties
<1>3. \A k \in 1..Len(f.secs) : LoadSection(f.secs[k], f.bytes) \in Section
  BY <1>1, ElementOfSeq, LoadSectionType
<1>4. Loaded(f) \in [1..Len(f.secs) -> Section]
  BY <1>3 DEF Loaded
<1>5. Loaded(f) \in Seq(Section) /\ Len(Loaded(f)) = Len(f.secs)
  BY <1>2, <1>4, FunctionIsSeq
<1> QED
  BY <1>5 DEF Loaded

(* A section that read_pe accepts is mapped as it was in memory: either it *)
(* is written in full, or it has no data.                                  *)
LEMMA WrittenMapped ==
  ASSUME NEW s \in Section, NEW h \in Section, h.va = s.va, h.vsz = s.vsz, h.ptr = s.ptr,
         h.raw \in {s.raw, Len(s.data)}, s.vsz # 0, s.ptr % FileAlign = 0, Filled(s),
         NEW b \in Seq(Nat), NEW size \in Nat, SectionReadable(h, size, Len(b)),
         (Stored(s, b) /\ Padded(s, b)) \/ Len(b) <= s.ptr
  PROVE  Mapped(LoadSection(h, b)) = Mapped(s)
<1> DEFINE l == LoadSection(h, b)
           n == LoadedRaw(h)
           d == s.data
<1>1. /\ l.va = s.va /\ l.vsz = s.vsz /\ l.raw = n /\ Len(l.data) = n
      /\ l.data = IF h.raw = 0 THEN <<>> ELSE Slice(b, AlignDown(s.ptr, FileAlign), n)
  BY LoadSectionFacts
<1>2. /\ n \in Nat /\ n <= h.raw /\ (n = h.raw \/ n = s.vsz)
      /\ h.raw # 0 => n # 0
  BY LoadedRawFacts
<1>3. /\ d \in Seq(Nat) /\ Len(d) \in Nat /\ s.raw \in Nat /\ s.vsz \in Nat
      /\ s.ptr \in Nat /\ Len(b) \in Nat /\ Len(d) <= s.raw /\ h.raw \in Nat
  BY LenProperties DEF Section, Filled
<1>4. AlignDown(s.ptr, FileAlign) = s.ptr
  BY <1>3, AlignUpLeast, MultipleMod, AlignAssumption
<1> HIDE DEF l, n, d
<1>5. \A x \in 1..s.vsz : At(l.data, x) = At(d, x)
  <2>1. CASE h.raw = 0
    <3>1. Len(d) = 0 /\ n = 0
      BY <1>2, <1>3, <2>1 DEF d
    <3> QED
      BY <1>1, <3>1 DEF At
  <2>2. CASE h.raw # 0
    <3>1. s.ptr + n <= Len(b)
      BY <1>4, <2>2 DEF SectionReadable, n
    <3>2. Stored(s, b) /\ Padded(s, b)
      BY <1>2, <1>3, <2>2, <3>1
    <3>3. l.data = Slice(b, s.ptr, n) /\ d = Slice(b, s.ptr, Len(d))
      BY <1>1, <1>4, <2>2, <3>2 DEF Stored, d
    <3>4. \A x \in 1..n : l.data[x] = b[s.ptr + x]
      BY <3>3 DEF Slice
    <3>5. \A x \in 1..Len(d) : d[x] = b[s.ptr + x]
      BY <3>3 DEF Slice
    <3>6. ASSUME NEW x \in 1..n, x > Len(d) PROVE b[s.ptr + x] = 0
      <4>1. x <= s.raw /\ s.raw # 0
        BY <1>2, <1>3, <3>6 DEF d
      <4>2. AlignedRawSize(s) = AlignUp(s.raw, FileAlign)
        BY <4>1 DEF AlignedRawSize
      <4>3. s.raw <= AlignedRawSize(s) /\ AlignedRawSize(s) \in Nat
        <5>1. s.raw <= AlignUp(s.raw, FileAlign) /\ AlignUp(s.raw, FileAlign) \in Nat
          <6>1. s.raw \in Nat
            BY <1>3
          <6> QED
            BY <6>1, AlignUpLeast, AlignAssumption
        <5> QED
          BY <4>2, <5>1
      <4>4. x \in (Len(d) + 1)..AlignedRawSize(s) /\ s.ptr + x <= Len(b)
        <5>1. x \in Nat /\ x <= n /\ x > Len(d) /\ n \in Nat /\ Len(d) \in Nat
          BY <1>2, <1>3, <3>6
        <5>2. x <= AlignedRawSize(s)
          BY <1>3, <4>1, <4>3, <5>1
        <5>3. s.ptr + x <= Len(b)
          BY <1>3, <3>1, <5>1
        <5> QED
          BY <4>3, <5>1, <5>2, <5>3
      <4> QED
        BY <3>2, <4>4 DEF Padded, d
    <3> SUFFICES ASSUME NEW x \in 1..s.vsz PROVE At(l.data, x) = At(d, x)
      OBVIOUS
    <3>7. CASE x <= n
      <4>1. CASE x <= Len(d)
        BY <1>1, <1>2, <1>3, <3>4, <3>5, <3>7, <4>1 DEF At
      <4>2. CASE x > Len(d)
        <5>1. x \in 1..n /\ ~(x <= Len(d))
          BY <1>2, <1>3, <3>7, <4>2
        <5>2. l.data[x] = 0
          BY <3>4, <3>6, <4>2, <5>1
        <5> QED
          BY <1>1, <5>1, <5>2 DEF At
      <4> QED
        BY <1>3, <4>1, <4>2
    <3>8. CASE x > n
      <4>1. n = h.raw
        BY <1>2, <1>3, <3>8
      <4>2. x > Len(d)
        BY <1>3, <3>8, <4>1 DEF d
      <4> QED
        BY <1>1, <1>2, <1>3, <3>8, <4>2 DEF At
    <3> QED
      BY <1>2, <3>7, <3>8
  <2> QED
    BY <2>1, <2>2
<1>6. Resize(l.data, s.vsz) = Resize(d, s.vsz)
  BY <1>3, <1>5, ResizeSame
<1> QED
  BY <1>1, <1>6 DEF Mapped, l, d

(***************************************************************************)
(* The invariant, on top of IInv.                                          *)
(***************************************************************************)
FilesRegular == \A p \in Paths : disk[p] # NoFile => Regular(disk[p].secs)

ReadInv ==
  /\ pc = "headers" => secs = <<>> /\ i = 1
  /\ pc = "sections" =>
       LET f == disk[inp] IN
       /\ HeadersReadable(f) /\ soh = f.soh /\ soi = f.soi
       /\ Len(secs) = i - 1 /\ i - 1 <= Len(f.secs)
       /\ \A k \in 1..(i - 1) :
            /\ secs[k] = LoadSection(f.secs[k], f.bytes)
            /\ SectionReadable(f.secs[k], f.soi, Len(f.bytes))

Writing == pc \in {"add", "open", "pop", "realign", "rebuild", "pointers", "write"}

TableInv == Writing => Table(secs)

(* Until the table is changed the goal lies ahead, from then on the table  *)
(* is the goal.                                                            *)
Ahead == pc \in {"add", "pop"} \/ (pc = "open" /\ op = "remove")

GoalInv ==
  /\ pc = "add" => op = "create"
  /\ pc = "pop" => op = "remove"
  /\ Writing => goal = IF Ahead THEN Wanted ELSE MappedImage(secs)

LayoutInv ==
  InRebuild =>
    /\ secs # <<>> => soh <= secs[1].va
    /\ soi = ImageSize(secs, soh)
    /\ soh # 0
    /\ cur % FileAlign = 0
    /\ \A k \in 1..(IF pc = "write" THEN Count ELSE i - 1) :
         secs[k].ptr % FileAlign = 0

FileInv ==
  pc = "write" =>
    /\ disk[outp].secs = [k \in 1..Count |-> HeaderOf(secs, k)]
    /\ disk[outp].soh = soh /\ disk[outp].soi = soi
    /\ \A k \in 1..(i - 1) : Padded(secs[k], disk[outp].bytes)

OutcomeInv ==
  /\ pc = "terminated" => outcome = "failed"
  /\ (pc = "idle" /\ outcome = "done") =>
       Readable(disk[outp]) /\ View(disk[outp]) = goal

RInv ==
  /\ IInv /\ FilesRegular /\ ReadInv /\ TableInv /\ GoalInv /\ LayoutInv
  /\ FileInv /\ OutcomeInv

LEMMA TypesOf ==
  ASSUME RInv
  PROVE  /\ secs \in Seq(Section) /\ Count \in Nat /\ Count = Len(secs) /\ soh \in Nat
         /\ soi \in Nat /\ i \in Nat \ {0} /\ cur \in Nat
         /\ inp \in Paths /\ outp \in Paths /\ op \in {"create", "remove"}
         /\ disk \in [Paths -> File \union {NoFile}]
         /\ conf.raw \in Nat /\ conf.vsz \in Nat
         /\ \A k \in 1..Count : secs[k] \in Section
<1>1. secs \in Seq(Section)
  BY DEF RInv, IInv, TypeOK
<1>2. Count \in Nat /\ Count = Len(secs) /\ \A k \in 1..Count : secs[k] \in Section
  BY <1>1, LenProperties, ElementOfSeq DEF Count
<1>3. conf.raw \in Nat /\ conf.vsz \in Nat
  BY PathAssumption DEF RInv, IInv, TypeOK
<1> QED
  BY <1>1, <1>2, <1>3 DEF RInv, IInv, TypeOK

(* What the output of rebuild_pe consists of while it is written.          *)
LEMMA OutputFacts ==
  ASSUME RInv, pc = "write"
  PROVE  LET f == disk[outp]
             b == f.bytes
         IN  /\ f \in File /\ f.secs \in Seq(Section) /\ Len(f.secs) = Count
             /\ b \in Seq(Nat) /\ Len(b) \in Nat
             /\ f.soi = soi /\ f.soh = soh /\ i \in 1..(Count + 1)
             /\ Table(secs)
             /\ \A k \in 1..Count :
                  /\ f.secs[k] = HeaderOf(secs, k)
                  /\ f.secs[k] \in Section
                  /\ f.secs[k].va = secs[k].va /\ f.secs[k].vsz = secs[k].vsz
                  /\ f.secs[k].ptr = secs[k].ptr
                  /\ f.secs[k].raw = IF k = Count THEN Len(secs[k].data) ELSE secs[k].raw
                  /\ secs[k].vsz # 0 /\ secs[k].ptr % FileAlign = 0 /\ Filled(secs[k])
                  /\ secs[k].ptr \in Nat /\ AlignedRawSize(secs[k]) \in Nat
             /\ \A k \in 1..(i - 1) : Stored(secs[k], b) /\ Padded(secs[k], b)
             /\ \A k \in i..Count : Len(b) <= secs[k].ptr
<1> DEFINE f == disk[outp]
           b == f.bytes
<1>1. f \in File /\ f.secs = [k \in 1..Count |-> HeaderOf(secs, k)]
  BY DEF RInv, IInv, WriteInv, FileInv
<1>2. f.secs \in Seq(Section) /\ b \in Seq(Nat) /\ Len(b) \in Nat
  BY <1>1, LenProperties DEF File
<1>3. Len(f.secs) = Count
  <2>1. DOMAIN f.secs = 1..Count /\ DOMAIN f.secs = 1..Len(f.secs) /\ Len(f.secs) \in Nat
    BY <1>1, <1>2, LenProperties
  <2> QED
    BY <2>1, TypesOf
<1>4. f.soi = soi /\ f.soh = soh /\ i \in 1..(Count + 1)
  BY TypesOf DEF RInv, IInv, WriteInv, FileInv
<1>5. Table(secs)
  BY DEF RInv, TableInv, Writing
<1>6. ASSUME NEW k \in 1..Count
      PROVE  /\ f.secs[k] = HeaderOf(secs, k)
             /\ f.secs[k] \in Section
             /\ f.secs[k].va = secs[k].va /\ f.secs[k].vsz = secs[k].vsz
             /\ f.secs[k].ptr = secs[k].ptr
             /\ f.secs[k].raw = IF k = Count THEN Len(secs[k].data) ELSE secs[k].raw
             /\ secs[k].vsz # 0 /\ secs[k].ptr % FileAlign = 0 /\ Filled(secs[k])
             /\ secs[k].ptr \in Nat /\ AlignedRawSize(secs[k]) \in Nat
  <2>1. f.secs[k] = HeaderOf(secs, k)
    BY <1>1
  <2>2. k \in 1..Len(secs) /\ secs \in Seq(Section) /\ secs[k] \in Section
    BY TypesOf
  <2>3. secs[k].vsz # 0 /\ Filled(secs[k])
    BY <1>5, <2>2 DEF Table, Regular
  <2>4. secs[k].ptr % FileAlign = 0
    BY DEF RInv, LayoutInv, InRebuild
  <2>5. secs[k].ptr \in Nat /\ AlignedRawSize(secs[k]) \in Nat
    BY <2>2, RawSizeType DEF Section
  <2> QED
    BY <2>1, <2>2, <2>3, <2>4, <2>5, HeaderFacts, TypesOf
<1>7. \A k \in 1..(i - 1) : Stored(secs[k], b) /\ Padded(secs[k], b)
  BY DEF RInv, IInv, WriteInv, FileInv
<1>8. ASSUME NEW k \in i..Count PROVE Len(b) <= secs[k].ptr
  <2>1. i \in 1..Count /\ k \in 1..Count
    BY <1>4, TypesOf
  <2>2. Len(b) <= secs[i].ptr
    BY <1>4, <2>1 DEF RInv, IInv, WriteInv
  <2>3. CASE k = i
    BY <2>2, <2>3
  <2>4. CASE k # i
    <3>1. Ends(secs[i]) <= secs[k].ptr
      BY <2>1, <2>4 DEF RInv, IInv, WriteInv, Ordered
    <3> QED
      BY <1>2, <1>6, <2>1, <2>2, <3>1 DEF Ends
  <2> QED
    BY <2>3, <2>4
<1> QED
  BY <1>1, <1>2, <1>3, <1>4, <1>5, <1>6, <1>7, <1>8

(* A rebuild cut short never leaves a file that is taken for another image *)
(* than the wanted one.                                                    *)
LEMMA PartialView ==
  ASSUME RInv, pc = "write"
  PROVE  /\ View(disk[outp]) = IF Readable(disk[outp]) THEN goal ELSE NoFile
         /\ goal # NoFile
<1> DEFINE f == disk[outp]
<1>1. goal = MappedImage(secs) /\ MappedImage(secs) # NoFile
  BY TypesOf, ImageType DEF RInv, GoalInv, Writing, Ahead
<1>2. ASSUME Readable(f) PROVE MappedImage(Loaded(f)) = MappedImage(secs)
  <2>1. f \in File /\ Len(f.secs) = Count
    BY OutputFacts
  <2>2. \A k \in 1..Count : SectionReadable(f.secs[k], f.soi, Len(f.bytes))
    BY <1>2, <2>1 DEF Readable
  <2>3. /\ Loaded(f) \in Seq(Section) /\ Len(Loaded(f)) = Count
        /\ \A k \in 1..Count : Loaded(f)[k] = LoadSection(f.secs[k], f.bytes)
    BY <2>1, <2>2, LoadedType
  <2>4. ASSUME NEW k \in 1..Count PROVE Mapped(Loaded(f)[k]) = Mapped(secs[k])
    <3> DEFINE h == f.secs[k]
               s == secs[k]
               b == f.bytes
    <3>1. /\ h \in Section /\ h.va = s.va /\ h.vsz = s.vsz /\ h.ptr = s.ptr
          /\ h.raw \in {s.raw, Len(s.data)} /\ s.vsz # 0 /\ s.ptr % FileAlign = 0
          /\ Filled(s) /\ b \in Seq(Nat)
      BY OutputFacts
    <3>2. (Stored(s, b) /\ Padded(s, b)) \/ Len(b) <= s.ptr
      <4>1. k \in 1..(i - 1) \/ k \in i..Count
        BY TypesOf
      <4> QED
        BY <4>1, OutputFacts
    <3>3. s \in Section /\ f.soi \in Nat
      BY <2>1, TypesOf DEF File
    <3> HIDE DEF h, s, b
    <3>4. SectionReadable(h, f.soi, Len(b))
      BY <2>2 DEF h, b
    <3>5. Mapped(LoadSection(h, b)) = Mapped(s)
      BY <3>1, <3>2, <3>3, <3>4, WrittenMapped
    <3> QED
      BY <2>3, <3>5 DEF h, s, b
  <2> QED
    BY <2>3, <2>4, SameImage, TypesOf
<1> QED
  BY <1>1, <1>2 DEF View

(* The headers of a table with data in it end inside the file.             *)
LEMMA FirstWithData ==
  ASSUME NEW ss \in Seq(Section), NEW h, NEW size,
         \A k \in 1..Len(ss) : ss[k].data # <<>> => ss[k].ptr <= size
  PROVE  (\E k \in 1..Len(ss) : ss[k].data # <<>>) => \E e \in HeadersEnd(ss, h) : e <= size
<1> DEFINE X == {k \in 1..Len(ss) : ss[k].data # <<>>}
<1> SUFFICES ASSUME X # {} PROVE \E e \in HeadersEnd(ss, h) : e <= size
  OBVIOUS
<1>1. Len(ss) \in Nat /\ X \in SUBSET Nat
  BY LenProperties
<1>2. PICK m \in X : \A k \in X : m <= k
  BY <1>1, SmallestMember
<1>3. \A k \in 1..(m - 1) : k \in 1..Len(ss) /\ ~(m <= k)
  BY <1>1, <1>2
<1>4. \A k \in 1..(m - 1) : ss[k].data = <<>>
  BY <1>2, <1>3
<1>5. ss[m].ptr \in HeadersEnd(ss, h)
  BY <1>2, <1>4 DEF HeadersEnd
<1> QED
  BY <1>2, <1>5

(* What rebuild_pe has written to the end passes every check of read_pe.   *)
LEMMA FinalReadable ==
  ASSUME RInv, pc = "write", i > Count
  PROVE  Readable(disk[outp])
<1> DEFINE f == disk[outp]
           b == f.bytes
<1>1. /\ f \in File /\ f # NoFile /\ Len(f.secs) = Count /\ b \in Seq(Nat) /\ Len(b) \in Nat
      /\ f.soi = soi /\ f.soh = soh /\ Table(secs)
  BY OutputFacts, NoFileAssumption
<1>2. soi \in Nat /\ soi # 0 /\ \A k \in 1..Count : EndOf(secs[k]) \in Nat /\ EndOf(secs[k]) <= soi
  <2>1. soi = ImageSize(secs, soh) /\ soh # 0
    BY DEF RInv, LayoutInv, InRebuild
  <2>2. CASE secs = <<>>
    <3>1. soi = soh /\ Count = 0
      BY <2>1, <2>2, EmptySeq, TypesOf DEF ImageSize
    <3> QED
      BY <2>1, <3>1, TypesOf
  <2>3. CASE secs # <<>>
    <3>1. Count \in 1..Count
      BY <2>3, EmptySeq, TypesOf
    <3>2. soi = EndOf(secs[Count])
      BY <2>1, <2>3, TypesOf DEF ImageSize
    <3>3. \A k \in 1..Count : /\ EndOf(secs[k]) \in Nat /\ secs[k].va < EndOf(secs[k])
                              /\ secs[k].va \in Nat
      <4> SUFFICES ASSUME NEW k \in 1..Count
                   PROVE  /\ EndOf(secs[k]) \in Nat /\ secs[k].va < EndOf(secs[k])
                          /\ secs[k].va \in Nat
        OBVIOUS
      <4>1. secs[k] \in Section /\ secs[k].vsz # 0
        BY <1>1, TypesOf DEF Table, Regular
      <4>2. secs[k].va \in Nat
        BY <4>1 DEF Section
      <4> QED
        BY <4>1, <4>2, EndOfSection
    <3>4. ASSUME NEW k \in 1..Count, k # Count PROVE EndOf(secs[k]) <= soi
      <4>1. EndOf(secs[k]) <= secs[Count].va
        <5>1. Contiguous(secs) /\ \A m \in 1..Len(secs) : secs[m].vsz # 0
          BY <1>1 DEF Table, Regular
        <5>2. k < Count
          BY <3>1, <3>4
        <5> QED
          BY <3>1, <5>1, <5>2, TypesOf, EndsOrdered
      <4> QED
        BY <3>1, <3>2, <3>3, <4>1
    <3> QED
      BY <3>1, <3>2, <3>3, <3>4
  <2> QED
    BY <2>2, <2>3
<1>3. AlignUp(soi, SectAlign) \in Nat /\ soi <= AlignUp(soi, SectAlign)
  BY <1>2, AlignUpLeast, AlignAssumption
<1>4. HeadersReadable(f)
  <2>1. HeaderSize(Count) <= Len(b)
    BY DEF RInv, IInv, WriteInv
  <2>2. Count <= MaxSections
    BY <1>1, TypesOf DEF Table
  <2>3. AlignUp(soi, SectAlign) # 0
    BY <1>2, <1>3
  <2> QED
    BY <1>1, <2>1, <2>2, <2>3 DEF HeadersReadable
<1>5. ASSUME NEW k \in 1..Count PROVE SectionReadable(f.secs[k], soi, Len(b))
  <2> DEFINE h == f.secs[k]
             s == secs[k]
             n == LoadedRaw(h)
  <2>1. /\ h \in Section /\ s \in Section /\ h.va = s.va /\ h.vsz = s.vsz /\ h.ptr = s.ptr
        /\ h.raw = IF k = Count THEN Len(s.data) ELSE s.raw
        /\ s.vsz # 0 /\ s.ptr % FileAlign = 0 /\ Filled(s) /\ s.ptr \in Nat
        /\ AlignedRawSize(s) \in Nat
    BY OutputFacts, TypesOf
  <2>2. EndOf(s) = s.va + AlignUp(s.vsz, SectAlign) /\ EndOf(s) <= AlignUp(soi, SectAlign)
    BY <1>2, <1>3, <2>1, EndOfSection
  <2>3. /\ n \in Nat /\ n <= h.raw /\ h.raw \in Nat /\ s.raw \in Nat /\ Len(s.data) \in Nat
    BY <2>1, LoadedRawFacts, LenProperties DEF Section
  <2>4. AlignDown(s.ptr, FileAlign) = s.ptr
    BY <2>1, AlignUpLeast, MultipleMod, AlignAssumption
  <2>5. s.ptr + h.raw <= Len(b)
    <3>1. ASSUME NEW m \in 1..Count PROVE secs[m].ptr + Len(secs[m].data) <= Len(b)
      <4>1. m \in 1..(i - 1)
        BY TypesOf
      <4> QED
        BY <4>1, OutputFacts DEF Stored
    <3>2. CASE k = Count
      BY <2>1, <3>1, <3>2
    <3>3. CASE k # Count
      <4>1. Count \in 1..Count /\ k < Count
        BY <3>3, TypesOf
      <4>2. Ends(s) <= secs[Count].ptr
        BY <4>1 DEF RInv, IInv, WriteInv, Ordered
      <4>3. secs[Count].ptr <= Len(b)
        <5>1. secs[Count] \in Section
          BY <4>1, TypesOf
        <5>2. secs[Count].ptr \in Nat /\ Len(secs[Count].data) \in Nat
          BY <5>1, LenProperties DEF Section
        <5>3. secs[Count].ptr + Len(secs[Count].data) <= Len(b)
          BY <3>1, <4>1
        <5> QED
          BY <1>1, <5>2, <5>3
      <4>4. s.raw <= AlignedRawSize(s)
        <5>1. CASE s.raw = 0
          BY <2>1, <5>1
        <5>2. CASE s.raw # 0
          <6>1. s.raw <= AlignUp(s.raw, FileAlign)
            BY <2>3, AlignUpLeast, AlignAssumption
          <6> QED
            BY <5>2, <6>1 DEF AlignedRawSize
        <5> QED
          BY <5>1, <5>2
      <4>5. secs[Count].ptr \in Nat
        BY <4>1, OutputFacts
      <4>6. s.ptr + AlignedRawSize(s) <= secs[Count].ptr
        BY <4>2 DEF Ends
      <4>7. h.raw = s.raw /\ s.ptr \in Nat /\ AlignedRawSize(s) \in Nat
        BY <2>1, <3>3
      <4> HIDE DEF h, s, b
      <4> QED
        BY <1>1, <2>3, <4>3, <4>4, <4>5, <4>6, <4>7
    <3> QED
      BY <3>2, <3>3
  <2>6. AlignedVirtualSize([h EXCEPT !.raw = n]) = AlignUp(s.vsz, SectAlign)
    <3> DEFINE g == [h EXCEPT !.raw = n]
    <3>1. g.vsz = s.vsz
      BY <2>1 DEF Section
    <3> HIDE DEF g
    <3> QED
      BY <2>1, <3>1 DEF AlignedVirtualSize
  <2> HIDE DEF h, s, n
  <2>7. s.ptr + n <= Len(b)
    <3>1. s.ptr \in Nat /\ Len(b) \in Nat
      BY <1>1, <2>1
    <3> QED
      BY <2>3, <2>5, <3>1
  <2>8. SectionReadable(h, soi, Len(b))
    BY <2>1, <2>2, <2>4, <2>6, <2>7 DEF SectionReadable, n
  <2> QED
    BY <2>8 DEF h
<1>6. TableReadable(Loaded(f), soh, Len(b))
  <2> DEFINE ss == Loaded(f)
  <2>1. /\ ss \in Seq(Section) /\ Len(ss) = Count
        /\ \A k \in 1..Count : ss[k] = LoadSection(f.secs[k], b)
    BY <1>1, <1>5, LoadedType
  <2>2. ASSUME NEW k \in 1..Count
        PROVE  /\ ss[k] \in Section /\ ss[k].va = secs[k].va /\ ss[k].vsz = secs[k].vsz
               /\ EndOf(ss[k]) = EndOf(secs[k])
               /\ ss[k].data # <<>> => ss[k].ptr <= Len(b)
    <3> DEFINE h == f.secs[k]
               s == secs[k]
               n == LoadedRaw(h)
    <3>1. /\ h \in Section /\ s \in Section /\ h.va = s.va /\ h.vsz = s.vsz /\ h.ptr = s.ptr
          /\ s.vsz # 0 /\ s.ptr % FileAlign = 0 /\ s.ptr \in Nat
      BY OutputFacts, TypesOf
    <3>2. /\ ss[k] \in Section /\ ss[k].va = h.va /\ ss[k].vsz = h.vsz /\ ss[k].ptr = h.ptr
          /\ h.raw = 0 => ss[k].data = <<>>
      BY <1>1, <1>2, <1>5, <2>1, <3>1, LoadSectionFacts
    <3>3. EndOf(ss[k]) = EndOf(s)
      BY <3>1, <3>2, EndOfSection
    <3>4. ASSUME h.raw # 0 PROVE s.ptr <= Len(b)
      <4>1. AlignDown(s.ptr, FileAlign) = s.ptr
        BY <3>1, AlignUpLeast, MultipleMod, AlignAssumption
      <4>2. s.ptr + n <= Len(b)
        BY <1>5, <3>1, <3>4, <4>1 DEF SectionReadable
      <4>3. n \in Nat
        BY <3>1, LoadedRawFacts
      <4> QED
        BY <1>1, <3>1, <4>2, <4>3
    <3> QED
      BY <3>1, <3>2, <3>3, <3>4
  <2> HIDE DEF ss
  <2>3. ss # <<>> => soh <= ss[1].va
    <3> SUFFICES ASSUME ss # <<>> PROVE soh <= ss[1].va
      OBVIOUS
    <3>1. Count # 0 /\ 1 \in 1..Count
      BY <2>1, EmptySeq, TypesOf
    <3>2. secs # <<>>
      BY <3>1, EmptySeq, TypesOf
    <3>3. soh <= secs[1].va
      BY <3>2 DEF RInv, LayoutInv, InRebuild
    <3> QED
      BY <2>2, <3>1, <3>3
  <2>4. Contiguous(ss)
    <3> SUFFICES ASSUME NEW k \in 1..(Count - 1) PROVE ss[k + 1].va = EndOf(ss[k])
      BY <2>1 DEF Contiguous
    <3>1. k \in 1..Count /\ k + 1 \in 1..Count
      BY TypesOf
    <3>2. secs[k + 1].va = EndOf(secs[k])
      BY <1>1, TypesOf DEF Table, Contiguous
    <3> QED
      BY <2>2, <3>1, <3>2
  <2>5. (\E k \in 1..Len(ss) : ss[k].data # <<>>) => \E e \in HeadersEnd(ss, soh) : e <= Len(b)
    BY <2>1, <2>2, FirstWithData
  <2> QED
    BY <2>3, <2>4, <2>5 DEF TableReadable, ss
<1> QED
  BY <1>1, <1>4, <1>5, <1>6 DEF Readable

(***************************************************************************)
(* Every step keeps the invariant.                                         *)
(***************************************************************************)
(* The original files are as linkers make them.                            *)
LinkerMade == \A f \in Originals : Regular(f.secs)

LEMMA InitRInv == ASSUME LinkerMade, Init PROVE RInv
<1>1. FilesRegular
  BY PathAssumption DEF Init, LinkerMade, FilesRegular
<1> QED
  BY <1>1, InitInv DEF Init, RInv, ReadInv, TableInv, GoalInv, Writing, LayoutInv,
     InRebuild, FileInv, OutcomeInv

LEMMA BeginRInv ==
  ASSUME RInv, IInv', NEW o, NEW p, NEW q, Begin(o, p, q)
  PROVE  RInv'
<1>1. FilesRegular'
  BY DEF Begin, RInv, FilesRegular
<1> QED
  BY <1>1 DEF Begin, RInv, ReadInv, TableInv, GoalInv, Writing, LayoutInv,
     InRebuild, FileInv, OutcomeInv

LEMMA ThrowRInv ==
  ASSUME RInv, IInv', NEW from, NEW condition, Throw(from, condition)
  PROVE  RInv'
<1>1. FilesRegular'
  BY DEF Throw, RInv, FilesRegular
<1> QED
  BY <1>1 DEF Throw, RInv, ReadInv, TableInv, GoalInv, Writing, LayoutInv,
     InRebuild, FileInv, OutcomeInv

LEMMA ReadHeadersRInv == ASSUME RInv, IInv', ReadHeaders PROVE RInv'
<1>1. /\ pc = "headers" /\ pc' = "sections" /\ HeadersReadable(disk[inp])
      /\ soh' = disk[inp].soh /\ soi' = disk[inp].soi
      /\ UNCHANGED <<disk, inp, secs, i>>
  BY DEF ReadHeaders, Step, call
<1>2. FilesRegular'
  BY <1>1 DEF RInv, FilesRegular
<1>3. ReadInv'
  <2>1. secs = <<>> /\ i = 1
    BY <1>1 DEF RInv, ReadInv
  <2>2. disk[inp] \in File
    BY <1>1 DEF RInv, IInv, InputThere
  <2>3. Len(disk[inp].secs) \in Nat
    BY <2>2, LenProperties DEF File
  <2> QED
    BY <1>1, <2>1, <2>3, EmptySeq DEF ReadInv
<1> QED
  BY <1>1, <1>2, <1>3 DEF RInv, TableInv, GoalInv, Writing, LayoutInv,
     InRebuild, FileInv, OutcomeInv

LEMMA ReadSectionRInv == ASSUME RInv, IInv', ReadSection PROVE RInv'
<1> DEFINE f == disk[inp]
           s == LoadSection(f.secs[i], f.bytes)
<1>1. /\ pc = "sections" /\ pc' = "sections" /\ i <= Len(f.secs)
      /\ SectionReadable(f.secs[i], soi, Len(f.bytes))
      /\ secs' = Append(secs, s) /\ i' = i + 1
      /\ UNCHANGED <<disk, inp, soh, soi>>
  BY DEF ReadSection, Step, call
<1>2. FilesRegular'
  BY <1>1 DEF RInv, FilesRegular
<1>3. ReadInv'
  <2>1. /\ HeadersReadable(f) /\ soh = f.soh /\ soi = f.soi
        /\ Len(secs) = i - 1 /\ i - 1 <= Len(f.secs)
        /\ \A k \in 1..(i - 1) : /\ secs[k] = LoadSection(f.secs[k], f.bytes)
                                 /\ SectionReadable(f.secs[k], f.soi, Len(f.bytes))
    BY <1>1 DEF RInv, ReadInv
  <2>2. f \in File
    BY <1>1 DEF RInv, IInv, InputThere
  <2>3. /\ f.secs \in Seq(Section) /\ f.bytes \in Seq(Nat) /\ Len(f.secs) \in Nat
    BY <2>2, LenProperties DEF File
  <2>4. f.secs[i] \in Section
    BY <1>1, <2>3, TypesOf, ElementOfSeq
  <2>5. s \in Section
    BY <1>1, <2>3, <2>4, TypesOf, LoadSectionType
  <2> HIDE DEF s
  <2>6. /\ Len(Append(secs, s)) = i /\ Append(secs, s)[i] = s
        /\ \A k \in 1..(i - 1) : Append(secs, s)[k] = secs[k]
    BY <2>1, <2>5, TypesOf, AppendProperties
  <2>7. \A k \in 1..i : k \in 1..(i - 1) \/ k = i
    BY TypesOf
  <2>8. \A k \in 1..i : /\ Append(secs, s)[k] = LoadSection(f.secs[k], f.bytes)
                        /\ SectionReadable(f.secs[k], f.soi, Len(f.bytes))
    BY <1>1, <2>1, <2>6, <2>7 DEF s
  <2>9. i' - 1 = i
    BY <1>1, TypesOf
  <2> QED
    BY <1>1, <2>1, <2>6, <2>8, <2>9 DEF ReadInv
<1> QED
  BY <1>1, <1>2, <1>3 DEF RInv, TableInv, GoalInv, Writing, LayoutInv,
     InRebuild, FileInv, OutcomeInv

(* When the last check of read_pe has passed, the table in memory is the   *)
(* one of the file, and it is one that can be read back.                   *)
LEMMA ReadFacts ==
  ASSUME RInv, ReadDone
  PROVE  /\ Readable(disk[inp]) /\ View(disk[inp]) = MappedImage(secs)
         /\ Table(secs)
<1> DEFINE f == disk[inp]
<1>1. /\ pc = "sections" /\ i > Len(f.secs) /\ TableReadable(secs, soh, Len(f.bytes))
  BY DEF ReadDone
<1>2. /\ HeadersReadable(f) /\ soh = f.soh /\ soi = f.soi
      /\ Len(secs) = i - 1 /\ i - 1 <= Len(f.secs)
      /\ \A k \in 1..(i - 1) : /\ secs[k] = LoadSection(f.secs[k], f.bytes)
                               /\ SectionReadable(f.secs[k], f.soi, Len(f.bytes))
  BY <1>1 DEF RInv, ReadInv
<1>3. f \in File /\ f # NoFile
  BY <1>1, NoFileAssumption DEF RInv, IInv, InputThere
<1>4. /\ f.secs \in Seq(Section) /\ f.bytes \in Seq(Nat) /\ Len(f.secs) \in Nat /\ f.soi \in Nat
  BY <1>3, LenProperties DEF File
<1>5. i - 1 = Len(f.secs)
  BY <1>1, <1>2, <1>4, TypesOf
<1>6. /\ Loaded(f) \in Seq(Section) /\ Len(Loaded(f)) = Len(f.secs)
      /\ \A k \in 1..Len(f.secs) : Loaded(f)[k] = LoadSection(f.secs[k], f.bytes)
  BY <1>2, <1>3, <1>5, LoadedType
<1>7. Loaded(f) = secs
  BY <1>2, <1>5, <1>6, SeqEqual, TypesOf
<1>8. Readable(f)
  BY <1>1, <1>2, <1>3, <1>5, <1>7 DEF Readable
<1>9. Table(secs)
  <2>1. Regular(f.secs)
    BY <1>3, TypesOf DEF RInv, FilesRegular
  <2>2. ASSUME NEW k \in 1..Len(secs)
        PROVE  secs[k].vsz # 0 /\ secs[k].va % SectAlign = 0 /\ Filled(secs[k])
    <3>1. /\ f.secs[k] \in Section /\ secs[k] = LoadSection(f.secs[k], f.bytes)
          /\ SectionReadable(f.secs[k], f.soi, Len(f.bytes))
          /\ f.secs[k].vsz # 0 /\ f.secs[k].va % SectAlign = 0
      BY <1>2, <1>4, <1>5, <2>1, ElementOfSeq DEF Regular
    <3> QED
      BY <1>4, <3>1, LoadSectionFacts
  <2>3. Contiguous(secs)
    BY <1>1 DEF TableReadable
  <2>4. Len(secs) <= MaxSections
    BY <1>2, <1>5 DEF HeadersReadable
  <2> QED
    BY <2>2, <2>3, <2>4 DEF Table, Regular
<1> QED
  BY <1>7, <1>8, <1>9 DEF View

LEMMA ReadDoneRInv == ASSUME RInv, IInv', ReadDone PROVE RInv'
<1>1. /\ pc = "sections" /\ pc' = (IF op = "create" THEN "add" ELSE "open") /\ goal' = Wanted
      /\ UNCHANGED <<disk, secs, soh, soi, i, cur, outcome, conf, op, inp, outp>>
  BY DEF ReadDone, image
<1>2. FilesRegular'
  BY <1>1 DEF RInv, FilesRegular
<1>3. TableInv'
  BY <1>1, ReadFacts DEF TableInv
<1>4. GoalInv'
  <2>1. Wanted' = Wanted
    BY <1>1 DEF Wanted
  <2> QED
    BY <1>1, <2>1, TypesOf DEF GoalInv, Ahead
<1> QED
  BY <1>1, <1>2, <1>3, <1>4 DEF RInv, ReadInv, LayoutInv, InRebuild, FileInv, OutcomeInv

LEMMA AddNewRInv == ASSUME RInv, IInv', AddNew PROVE RInv'
<1>1. /\ pc = "add" /\ pc' = "open" /\ Addable
      /\ secs' = SetSectionVirtualSize(AddSection(secs, soh, NewSection), conf.vsz)
      /\ UNCHANGED <<disk, soh, i, cur, outcome, conf, op, inp, outp, goal>>
  BY DEF AddNew, Step, call
<1>2. FilesRegular'
  BY <1>1 DEF RInv, FilesRegular
<1>3. op = "create" /\ goal = Wanted /\ Table(secs)
  BY <1>1 DEF RInv, GoalInv, TableInv, Writing, Ahead
<1>4. Len(secs) < MaxSections /\ conf.raw # 0
  <2>1. Len(NewSection.data) # 0 \/ NewSection.vsz # 0
    BY <1>1 DEF Addable, Preparable
  <2>2. NewSection.data = Resize(<<>>, conf.raw) /\ NewSection.vsz = 0
    BY DEF NewSection
  <2>3. Len(Resize(<<>>, conf.raw)) = conf.raw
    BY TypesOf, EmptySeq, ResizeType
  <2> QED
    BY <1>1, <2>1, <2>2, <2>3, TypesOf DEF Addable
<1>5. Table(secs') /\ MappedImage(secs') = Wanted
  BY <1>1, <1>3, <1>4, TypesOf, AddedTable
<1>6. TableInv' /\ GoalInv'
  BY <1>1, <1>3, <1>5 DEF TableInv, GoalInv, Writing, Ahead
<1> QED
  BY <1>1, <1>2, <1>6 DEF RInv, ReadInv, LayoutInv, InRebuild, FileInv, OutcomeInv

LEMMA TruncateRInv == ASSUME RInv, IInv', Truncate PROVE RInv'
<1>1. /\ pc = "open" /\ pc' = (IF op = "create" THEN "rebuild" ELSE "pop")
      /\ disk' = [disk EXCEPT ![outp] = Truncated]
      /\ UNCHANGED <<secs, soh, soi, i, cur, outcome, conf, op, inp, outp, goal>>
  BY DEF Truncate, Step, image, call
<1>2. FilesRegular'
  <2>1. Regular(Truncated.secs)
    BY EmptySeq DEF Truncated, Regular
  <2>2. \A p \in Paths : disk'[p] = IF p = outp THEN Truncated ELSE disk[p]
    BY <1>1, TypesOf
  <2> QED
    BY <2>1, <2>2 DEF RInv, FilesRegular
<1>3. TableInv'
  BY <1>1 DEF RInv, TableInv, Writing
<1>4. GoalInv'
  <2>1. Wanted' = Wanted
    BY <1>1 DEF Wanted
  <2>2. op = "remove" \/ op = "create"
    BY TypesOf
  <2> QED
    BY <1>1, <2>1, <2>2 DEF RInv, GoalInv, Writing, Ahead
<1> QED
  BY <1>1, <1>2, <1>3, <1>4 DEF RInv, ReadInv, LayoutInv, InRebuild, FileInv, OutcomeInv

LEMMA CannotCreateRInv == ASSUME RInv, IInv', CannotCreate PROVE RInv'
<1>1. FilesRegular'
  BY DEF CannotCreate, RInv, FilesRegular
<1> QED
  BY <1>1 DEF CannotCreate, RInv, ReadInv, TableInv, GoalInv, Writing, LayoutInv,
     InRebuild, FileInv, OutcomeInv

LEMMA PopRInv == ASSUME RInv, IInv', Pop PROVE RInv'
<1>1. /\ pc = "pop" /\ pc' = "realign" /\ secs # <<>>
      /\ secs' = SubSeq(secs, 1, Count - 1)
      /\ UNCHANGED <<disk, outcome, conf, op, inp, outp, goal>>
  BY DEF Pop, Step, call
<1>2. FilesRegular'
  BY <1>1 DEF RInv, FilesRegular
<1>3. op = "remove" /\ goal = Wanted /\ Table(secs)
  BY <1>1 DEF RInv, GoalInv, TableInv, Writing, Ahead
<1>4. Table(secs') /\ MappedImage(secs') = Wanted
  BY <1>1, <1>3, TypesOf, PoppedTable, WantedShrunk
<1>5. TableInv' /\ GoalInv'
  BY <1>1, <1>3, <1>4 DEF TableInv, GoalInv, Writing, Ahead
<1> QED
  BY <1>1, <1>2, <1>5 DEF RInv, ReadInv, LayoutInv, InRebuild, FileInv, OutcomeInv

LEMMA RealignRInv == ASSUME RInv, IInv', Realign PROVE RInv'
<1> DEFINE s == secs[i]
           d == s.data
           n == IF i = Count THEN StrippedLen(d) ELSE AlignedRawSize(s)
           t == [s EXCEPT !.raw = n, !.data = Resize(d, n)]
<1>1. /\ pc = "realign" /\ pc' = "realign" /\ i \in 1..Count
      /\ secs' = [secs EXCEPT ![i] = t]
      /\ UNCHANGED <<disk, outcome, conf, op, inp, outp, goal>>
  BY TypesOf DEF Realign, Step, call, RealignSection, Count
<1>2. FilesRegular'
  BY <1>1 DEF RInv, FilesRegular
<1>3. goal = MappedImage(secs) /\ Table(secs)
  BY <1>1 DEF RInv, GoalInv, TableInv, Writing, Ahead
<1>4. /\ s \in Section /\ d \in Seq(Nat) /\ Len(d) \in Nat /\ Filled(s) /\ s.vsz \in Nat
      /\ s.raw \in Nat
  <2>1. s \in Section
    BY <1>1, TypesOf
  <2>2. s.data \in Seq(Nat) /\ s.vsz \in Nat /\ s.raw \in Nat
    BY <2>1 DEF Section
  <2>3. Filled(s)
    BY <1>1, <1>3, TypesOf DEF Table
  <2> QED
    BY <2>1, <2>2, <2>3, LenProperties
<1>5. n \in Nat /\ \A x \in 1..Len(d) : x > n => d[x] = 0
  <2>1. CASE i = Count
    <3>1. StrippedLen(d) \in Nat
      BY <1>4, StrippedLenType
    <3> QED
      BY <1>4, <2>1, <3>1, BehindStripped
  <2>2. CASE i # Count
    <3>1. AlignedRawSize(s) \in Nat
      BY <1>4, RawSizeType
    <3>2. Len(d) <= AlignedRawSize(s)
      BY <1>4, CoveredBy DEF Filled, Covered
    <3> QED
      BY <1>4, <2>2, <3>1, <3>2
  <2> QED
    BY <2>1, <2>2
<1> HIDE DEF n
<1>6. Resize(d, n) \in Seq(Nat) /\ Len(Resize(d, n)) = n
  BY <1>4, <1>5, ResizeType
<1>7. Resize(Resize(d, n), s.vsz) = Resize(d, s.vsz)
  BY <1>4, <1>5, ResizeTwice
<1>8. /\ t \in Section /\ t.va = s.va /\ t.vsz = s.vsz /\ t.raw = n
      /\ t.data = Resize(d, n)
  BY <1>4, <1>5, <1>6 DEF Section
<1> HIDE DEF t
<1>9. Filled(t)
  <2>1. n <= AlignUp(n, FileAlign)
    BY <1>5, AlignUpLeast, AlignAssumption
  <2> QED
    BY <1>5, <1>6, <1>8, <2>1 DEF Filled
<1>10. Table(secs') /\ MappedImage(secs') = MappedImage(secs)
  BY <1>1, <1>3, <1>7, <1>8, <1>9, TypesOf, ReplaceInTable
<1>11. TableInv' /\ GoalInv'
  BY <1>1, <1>3, <1>10 DEF TableInv, GoalInv, Writing, Ahead
<1> QED
  BY <1>1, <1>2, <1>11 DEF RInv, ReadInv, LayoutInv, InRebuild, FileInv, OutcomeInv

LEMMA RealignDoneRInv == ASSUME RInv, IInv', RealignDone PROVE RInv'
<1>1. /\ pc = "realign" /\ pc' = "rebuild"
      /\ UNCHANGED <<disk, secs, outcome, conf, op, inp, outp, goal>>
  BY DEF RealignDone, Step, image, call
<1>2. FilesRegular' /\ TableInv' /\ GoalInv'
  BY <1>1 DEF RInv, FilesRegular, TableInv, GoalInv, Writing, Ahead
<1> QED
  BY <1>1, <1>2 DEF RInv, ReadInv, LayoutInv, InRebuild, FileInv, OutcomeInv

LEMMA RebuildHeadersRInv == ASSUME RInv, IInv', RebuildHeaders PROVE RInv'
<1>1. /\ pc = "rebuild" /\ pc' = "pointers" /\ HeadersFit
      /\ soh' = FirstPointer /\ soi' = ImageSize(secs, FirstPointer)
      /\ cur' = FirstPointer /\ i' = 1
      /\ UNCHANGED <<disk, secs, outcome, conf, op, inp, outp, goal>>
  BY DEF RebuildHeaders, Step, call
<1>2. FilesRegular' /\ TableInv' /\ GoalInv'
  BY <1>1 DEF RInv, FilesRegular, TableInv, GoalInv, Writing, Ahead
<1>3. LayoutInv'
  <2>1. HeaderSize(Count) \in Nat /\ HeaderSize(Count) # 0
    BY TypesOf, SizeAssumption DEF HeaderSize
  <2>2. /\ FirstPointer \in Nat /\ HeaderSize(Count) <= FirstPointer
        /\ Multiple(FirstPointer, FileAlign)
    BY <2>1, AlignUpLeast, AlignAssumption DEF FirstPointer
  <2>3. FirstPointer # 0 /\ FirstPointer % FileAlign = 0
    BY <2>1, <2>2, MultipleMod, AlignAssumption
  <2> QED
    BY <1>1, <2>3 DEF LayoutInv, InRebuild, HeadersFit
<1> QED
  BY <1>1, <1>2, <1>3 DEF RInv, ReadInv, FileInv, OutcomeInv

LEMMA AssignPointerRInv == ASSUME RInv, IInv', AssignPointer PROVE RInv'
<1> DEFINE s == secs[i]
           t == [s EXCEPT !.ptr = cur]
<1>1. /\ pc = "pointers" /\ pc' = "pointers" /\ i \in 1..Count
      /\ secs' = [secs EXCEPT ![i] = t]
      /\ cur' = cur + AlignedRawSize(s) /\ i' = i + 1
      /\ UNCHANGED <<disk, soh, soi, outcome, conf, op, inp, outp, goal>>
  BY TypesOf DEF AssignPointer, Step, call
<1>2. FilesRegular'
  BY <1>1 DEF RInv, FilesRegular
<1>3. goal = MappedImage(secs) /\ Table(secs)
  BY <1>1 DEF RInv, GoalInv, TableInv, Writing, Ahead
<1>4. /\ s \in Section /\ Filled(s) /\ s.vsz # 0
  BY <1>1, <1>3, TypesOf DEF Table, Regular
<1>5. /\ t \in Section /\ t.va = s.va /\ t.vsz = s.vsz /\ t.data = s.data /\ t.raw = s.raw
      /\ t.ptr = cur
  BY <1>4, TypesOf DEF Section
<1> HIDE DEF t
<1>6. Filled(t)
  BY <1>4, <1>5 DEF Filled
<1>7. Table(secs') /\ MappedImage(secs') = MappedImage(secs)
  BY <1>1, <1>3, <1>5, <1>6, TypesOf, ReplaceInTable
<1>8. TableInv' /\ GoalInv'
  BY <1>1, <1>3, <1>7 DEF TableInv, GoalInv, Writing, Ahead
<1>9. LayoutInv'
  <2>1. /\ secs # <<>> => soh <= secs[1].va
        /\ soi = ImageSize(secs, soh) /\ soh # 0 /\ cur % FileAlign = 0
        /\ \A k \in 1..(i - 1) : secs[k].ptr % FileAlign = 0
    BY <1>1 DEF RInv, LayoutInv, InRebuild
  <2>2. /\ secs' \in Seq(Section) /\ Len(secs') = Count
        /\ \A k \in 1..Count : secs'[k] = IF k = i THEN t ELSE secs[k]
    BY <1>1, <1>5, TypesOf, ExceptSeq
  <2>3. secs # <<>> /\ 1 \in 1..Count /\ Count \in 1..Count
    BY <1>1, TypesOf, EmptySeq
  <2>4. secs'[1].va = secs[1].va
    BY <1>5, <2>2, <2>3
  <2>5. ImageSize(secs', soh) = ImageSize(secs, soh)
    <3>1. secs' # <<>>
      BY <2>2, <2>3, EmptySeq, TypesOf
    <3>2. EndOf(t) = EndOf(s)
      BY <1>4, <1>5, EndOfSection
    <3>3. EndOf(secs'[Count]) = EndOf(secs[Count])
      BY <2>2, <2>3, <3>2
    <3> QED
      BY <2>2, <2>3, <3>1, <3>3, TypesOf DEF ImageSize
  <2>6. cur' % FileAlign = 0
    <3>1. AlignedRawSize(s) \in Nat /\ Multiple(AlignedRawSize(s), FileAlign)
      <4>1. CASE s.raw = 0
        <5>1. 0 = FileAlign * 0
          BY AlignAssumption
        <5> QED
          BY <4>1, <5>1 DEF AlignedRawSize, Multiple
      <4>2. CASE s.raw # 0
        <5>1. s.raw \in Nat
          BY <1>4 DEF Section
        <5> QED
          BY <4>2, <5>1, AlignUpLeast, AlignAssumption DEF AlignedRawSize
      <4> QED
        BY <4>1, <4>2
    <3>2. Multiple(cur, FileAlign)
      BY <2>1, TypesOf, MultipleMod, AlignAssumption
    <3>3. Multiple(cur + AlignedRawSize(s), FileAlign) /\ cur + AlignedRawSize(s) \in Nat
      BY <3>1, <3>2, SumOfMultiples, TypesOf, AlignAssumption
    <3> QED
      BY <1>1, <3>3, MultipleMod, AlignAssumption
  <2>7. \A k \in 1..(i' - 1) : secs'[k].ptr % FileAlign = 0
    <3>1. \A k \in 1..(i' - 1) : k \in 1..Count /\ (k = i \/ k \in 1..(i - 1))
      BY <1>1, TypesOf
    <3> QED
      BY <1>5, <2>1, <2>2, <3>1
  <2> QED
    BY <1>1, <2>1, <2>3, <2>4, <2>5, <2>6, <2>7 DEF LayoutInv, InRebuild
<1> QED
  BY <1>1, <1>2, <1>8, <1>9 DEF RInv, ReadInv, FileInv, OutcomeInv

LEMMA WriteHeadersRInv == ASSUME RInv, IInv', WriteHeaders PROVE RInv'
<1> DEFINE f == [secs  |-> [k \in 1..Count |-> HeaderOf(secs, k)],
                 soh   |-> soh, soi |-> soi,
                 bytes |-> [k \in 1..HeaderSize(Count) |-> HdrByte]]
<1>1. /\ pc = "pointers" /\ pc' = "write" /\ i > Count /\ i' = 1
      /\ disk' = [disk EXCEPT ![outp] = f]
      /\ UNCHANGED <<secs, soh, soi, cur, outcome, conf, op, inp, outp, goal>>
  BY DEF WriteHeaders, Step, call
<1>2. Table(secs)
  BY <1>1 DEF RInv, TableInv, Writing
<1>3. /\ f.secs = [k \in 1..Count |-> HeaderOf(secs, k)] /\ f.soh = soh /\ f.soi = soi
  OBVIOUS
<1>4. f.secs \in Seq(Section) /\ Len(f.secs) = Count
  <2>1. f.secs \in [1..Count -> Section]
    BY TypesOf, HeaderFacts
  <2> QED
    BY <2>1, TypesOf, FunctionIsSeq
<1> HIDE DEF f
<1>5. \A p \in Paths : disk'[p] = IF p = outp THEN f ELSE disk[p]
  BY <1>1, TypesOf
<1>6. FilesRegular'
  <2>1. \A k \in 1..Count : f.secs[k].vsz = secs[k].vsz /\ f.secs[k].va = secs[k].va
    BY <1>3, TypesOf, HeaderFacts
  <2>2. Regular(f.secs)
    BY <1>2, <1>4, <2>1, TypesOf DEF Table, Regular
  <2> QED
    BY <1>5, <2>2 DEF RInv, FilesRegular
<1>7. TableInv' /\ GoalInv'
  BY <1>1 DEF RInv, TableInv, GoalInv, Writing, Ahead
<1>8. LayoutInv'
  <2>1. i <= Count + 1
    BY <1>1, TypesOf DEF RInv, IInv, PointersInv
  <2>2. 1..(i - 1) = 1..Count
    BY <1>1, <2>1, TypesOf
  <2>3. Count' = Count
    BY <1>1 DEF Count
  <2> QED
    BY <1>1, <2>2, <2>3 DEF RInv, LayoutInv, InRebuild
<1>9. FileInv'
  <2>1. Count' = Count
    BY <1>1 DEF Count
  <2> QED
    BY <1>1, <1>3, <1>5, <2>1, TypesOf DEF FileInv
<1> QED
  BY <1>1, <1>6, <1>7, <1>8, <1>9 DEF RInv, ReadInv, OutcomeInv

(* The padding loop writes null bytes only.                                *)
LEMMA PaddingIsNull ==
  ASSUME NEW b \in Seq(Nat), NEW n \in Nat, Len(b) <= n, NEW d \in Seq(Nat),
         NEW x \in 1..n
  PROVE  (PadTo(b, n) \o d)[x] = At(b, x)
<1> DEFINE p == PadTo(b, n)
<1>1. p \in Seq(Nat) /\ Len(p) = n
  BY PadToType
<1>2. p[x] = At(b, x)
  <2>1. CASE n > Len(b)
    BY <2>1 DEF PadTo, Resize, At
  <2>2. CASE ~(n > Len(b))
    <3>1. x <= Len(b)
      BY <2>2, LenProperties
    <3> QED
      BY <2>2, <3>1 DEF PadTo, At
  <2> QED
    BY <2>1, <2>2
<1> HIDE DEF p
<1>3. (p \o d)[x] = p[x]
  <2>1. \A y \in 1..(Len(p) + Len(d)) :
          (p \o d)[y] = IF y <= Len(p) THEN p[y] ELSE d[y - Len(p)]
    BY <1>1, ConcatProperties
  <2>2. x \in 1..(Len(p) + Len(d)) /\ x <= Len(p)
    BY <1>1, LenProperties
  <2> QED
    BY <2>1, <2>2
<1> QED
  BY <1>2, <1>3 DEF p

LEMMA WriteSectionRInv == ASSUME RInv, IInv', WriteSection PROVE RInv'
<1> DEFINE s == secs[i]
           b == disk[outp].bytes
           c == PadTo(b, s.ptr) \o s.data
<1>1. /\ pc = "write" /\ pc' = "write" /\ i \in 1..Count /\ i' = i + 1
      /\ disk' = [disk EXCEPT ![outp].bytes = c]
      /\ UNCHANGED <<secs, soh, soi, cur, outcome, conf, op, inp, outp, goal>>
  BY TypesOf DEF WriteSection, Step, call
<1>2. /\ s \in Section /\ s.data \in Seq(Nat) /\ Len(s.data) \in Nat /\ s.ptr \in Nat
      /\ b \in Seq(Nat) /\ Len(b) \in Nat /\ Len(b) <= s.ptr
  <2>1. s \in Section
    BY <1>1, TypesOf
  <2>2. Len(b) <= s.ptr
    <3>1. i \in i..Count
      BY <1>1, TypesOf
    <3> QED
      BY <1>1, <3>1, OutputFacts
  <2> QED
    BY <1>1, <2>1, <2>2, OutputFacts, LenProperties DEF Section
<1>3. Len(c) = s.ptr + Len(s.data) /\ \A x \in 1..s.ptr : c[x] = At(b, x)
  <2>1. Len(c) = s.ptr + Len(s.data)
    BY <1>2, PadAndAppend
  <2> QED
    BY <1>2, <2>1, PaddingIsNull
<1> HIDE DEF c
<1>4. disk'[outp] = [disk[outp] EXCEPT !.bytes = c]
  BY <1>1, TypesOf
<1>5. /\ disk'[outp].bytes = c /\ disk'[outp].secs = disk[outp].secs
      /\ disk'[outp].soh = disk[outp].soh /\ disk'[outp].soi = disk[outp].soi
  BY <1>1, <1>4, OutputFacts DEF File
<1>6. \A p \in Paths : p # outp => disk'[p] = disk[p]
  BY <1>1, TypesOf
<1>7. FilesRegular'
  <2>1. disk[outp] # NoFile
    BY <1>1, OutputFacts, NoFileAssumption
  <2>2. Regular(disk'[outp].secs)
    BY <1>5, <2>1, TypesOf DEF RInv, FilesRegular
  <2> QED
    BY <1>6, <2>2 DEF RInv, FilesRegular
<1>8. Count' = Count
  BY <1>1 DEF Count
<1>9. TableInv' /\ GoalInv' /\ LayoutInv'
  BY <1>1, <1>8 DEF RInv, TableInv, GoalInv, LayoutInv, InRebuild, Writing, Ahead
<1>10. FileInv'
  <2>1. ASSUME NEW k \in 1..i PROVE Padded(secs[k], c)
    <3> DEFINE t == secs[k]
    <3>1. t \in Section /\ Len(t.data) \in Nat /\ t.ptr \in Nat /\ AlignedRawSize(t) \in Nat
      <4>1. t \in Section
        BY <1>1, TypesOf
      <4> QED
        BY <4>1, RawSizeType, LenProperties DEF Section
    <3> SUFFICES ASSUME NEW x \in (Len(t.data) + 1)..AlignedRawSize(t),
                        t.ptr + x <= Len(c)
                 PROVE  c[t.ptr + x] = 0
      BY DEF Padded
    <3>2. k # i
      BY <1>2, <1>3, <3>1
    <3>3. k \in 1..(i - 1) /\ k \in 1..Count
      BY <1>1, <3>2, TypesOf
    <3>4. Padded(t, b)
      BY <1>1, <3>3, OutputFacts
    <3>5. Ends(t) <= s.ptr
      <4>1. Ordered(secs, Count)
        BY <1>1 DEF RInv, IInv, WriteInv
      <4>2. k < i
        BY <3>3, TypesOf
      <4> QED
        BY <1>1, <3>3, <4>1, <4>2 DEF Ordered
    <3>6. t.ptr + x \in 1..s.ptr
      <4>1. t.ptr + AlignedRawSize(t) <= s.ptr
        BY <3>5 DEF Ends
      <4> HIDE DEF t, s
      <4>2. x \in Nat /\ 1 <= x /\ x <= AlignedRawSize(t)
        BY <3>1
      <4> QED
        BY <1>2, <3>1, <4>1, <4>2
    <3>7. c[t.ptr + x] = At(b, t.ptr + x)
      BY <1>3, <3>6
    <3> QED
      BY <3>4, <3>7 DEF Padded, At
  <2>2. i' - 1 = i
    BY <1>1, TypesOf
  <2>3. /\ disk[outp].secs = [k \in 1..Count |-> HeaderOf(secs, k)]
        /\ disk[outp].soh = soh /\ disk[outp].soi = soi
    BY <1>1 DEF RInv, FileInv
  <2> QED
    BY <1>1, <1>5, <1>8, <2>1, <2>2, <2>3 DEF FileInv
<1> QED
  BY <1>1, <1>7, <1>9, <1>10 DEF RInv, ReadInv, OutcomeInv

LEMMA FinishRInv == ASSUME RInv, IInv', Finish PROVE RInv'
<1>1. /\ pc = "write" /\ i > Count /\ pc' = "idle" /\ outcome' = "done"
      /\ UNCHANGED <<disk, outp, goal>>
  BY DEF Finish, call
<1>2. FilesRegular'
  BY <1>1 DEF RInv, FilesRegular
<1>3. Readable(disk[outp]) /\ View(disk[outp]) = goal
  BY <1>1, FinalReadable, PartialView
<1>4. OutcomeInv'
  BY <1>1, <1>3 DEF OutcomeInv
<1> QED
  BY <1>1, <1>2, <1>4 DEF RInv, ReadInv, TableInv, GoalInv, Writing, LayoutInv,
     InRebuild, FileInv

LEMMA RestartRInv == ASSUME RInv, IInv', NEW c, Restart(c) PROVE RInv'
<1>1. FilesRegular'
  BY DEF Restart, RInv, FilesRegular
<1>2. OutcomeInv'
  BY DEF Restart, RInv, OutcomeInv
<1> QED
  BY <1>1, <1>2 DEF Restart, RInv, ReadInv, TableInv, GoalInv, Writing, LayoutInv,
     InRebuild, FileInv

LEMMA StutterRInv == ASSUME RInv, IInv', UNCHANGED vars PROVE RInv'
<1>1. UNCHANGED <<disk, pc, outcome, secs, soh, soi, i, cur, conf, op, inp, outp, goal>>
  BY DEF vars, image, call
<1>2. FilesRegular' /\ ReadInv' /\ TableInv' /\ OutcomeInv'
  BY <1>1 DEF RInv, FilesRegular, ReadInv, TableInv, Writing, OutcomeInv
<1>3. GoalInv'
  <2>1. Wanted' = Wanted
    BY <1>1 DEF Wanted
  <2> QED
    BY <1>1, <2>1 DEF RInv, GoalInv, Writing, Ahead
<1>4. LayoutInv' /\ FileInv'
  <2>1. Count' = Count
    BY <1>1 DEF Count
  <2> QED
    BY <1>1, <2>1 DEF RInv, LayoutInv, InRebuild, FileInv
<1> QED
  BY <1>2, <1>3, <1>4 DEF RInv

LEMMA NextRInv == ASSUME RInv, [Next]_vars PROVE RInv'
<1>0. IInv'
  BY NextInv DEF RInv
<1>1. ASSUME NEW o \in {"create", "remove"}, NEW p \in Paths, NEW q \in Paths,
             Begin(o, p, q)
      PROVE  RInv'
  BY <1>0, <1>1, BeginRInv
<1>2. CASE Read
  BY <1>0, <1>2, ReadHeadersRInv, ReadSectionRInv, ReadDoneRInv, ThrowRInv
     DEF Read, BadHeaders, BadSection, BadTable
<1>3. CASE Add
  BY <1>0, <1>3, AddNewRInv, ThrowRInv DEF Add, CannotAdd
<1>4. CASE Open
  BY <1>0, <1>4, TruncateRInv, CannotCreateRInv DEF Open
<1>5. CASE Remove
  BY <1>0, <1>5, PopRInv, RealignRInv, RealignDoneRInv, ThrowRInv DEF Remove, PopEmpty
<1>6. CASE Rebuild
  BY <1>0, <1>6, RebuildHeadersRInv, AssignPointerRInv, WriteHeadersRInv,
     WriteSectionRInv, FinishRInv, ThrowRInv DEF Rebuild, HeadersTooLong
<1>7. CASE Killed
  BY <1>0, <1>7, ThrowRInv DEF Killed
<1>8. ASSUME NEW c \in Settings, Restart(c) PROVE RInv'
  BY <1>0, <1>8, RestartRInv
<1>9. CASE UNCHANGED vars
  BY <1>0, <1>9, StutterRInv
<1> QED
  BY <1>1, <1>2, <1>3, <1>4, <1>5, <1>6, <1>7, <1>8, <1>9 DEF Next

LEMMA RInvariance == ASSUME LinkerMade PROVE Spec => []RInv
  BY InitRInv, NextRInv, PTL DEF Spec

(***************************************************************************)
(* Theorems.                                                               *)
(***************************************************************************)
(* An operation that the patcher reports as done has left a file that      *)
(* read_pe accepts, check by check, so that the next operation can start   *)
(* from it.                                                                *)
THEOREM DoneIsReadable == ASSUME LinkerMade PROVE Spec => []DoneReopens
  BY RInvariance, PTL DEF RInv, OutcomeInv, DoneReopens

(***************************************************************************)
(* BinSection implements ImageStore.                                       *)
(***************************************************************************)
Views == [p \in Paths |-> View(disk[p])]
Phase == CASE pc \in {"headers", "sections"} -> "reading"
           [] pc \in {"idle", "terminated"}   -> "idle"
           [] OTHER                           -> "writing"

LEMMA PhaseOf ==
  /\ pc \in {"headers", "sections"} => Phase = "reading"
  /\ pc \in {"idle", "terminated"} => Phase = "idle"
  /\ Writing => Phase = "writing"
  BY DEF Phase, Writing

LEMMA GrownImage ==
  ASSUME secs \in Seq(Section), soh \in Nat, Table(secs),
         conf.raw \in Nat, conf.vsz \in Nat, ~(conf.raw = 0 /\ conf.vsz = 0)
  PROVE  /\ Store!Grown(MappedImage(secs), Append(MappedImage(secs), Mapped(Added)))
         /\ Append(MappedImage(secs), Mapped(Added)) # NoFile
<1> DEFINE old == MappedImage(secs)
           m   == Mapped(Added)
           new == Append(old, m)
           n   == Len(secs) + 1
<1>1. /\ old \in Seq(MappedSection) /\ Len(old) = Len(secs) /\ Len(secs) \in Nat
      /\ \A k \in 1..Len(secs) : old[k] = Mapped(secs[k])
  BY ImageType, LenProperties
<1>2. /\ Added \in Section
      /\ m = [va |-> NewAddress, vsz |-> NewSize, mem |-> Resize(<<>>, NewSize)]
      /\ NewSize \in Nat \ {0} /\ NewAddress \in Nat
  BY AddedType
<1>3. m \in MappedSection
  <2>1. Resize(<<>>, NewSize) \in Seq(Nat)
    BY <1>2, ResizeType, EmptySeq
  <2> HIDE DEF m
  <2> QED
    BY <1>2, <2>1 DEF MappedSection
<1> HIDE DEF old, m
<1>4. /\ new \in Seq(MappedSection) /\ Len(new) = n /\ new[n] = m
      /\ \A k \in 1..(n - 1) : new[k] = old[k]
  BY <1>1, <1>3, AppendProperties
<1> HIDE DEF new
<1>5. SubSeq(new, 1, n - 1) = old
  <2> DEFINE v == SubSeq(new, 1, n - 1)
  <2>1. /\ v \in Seq(MappedSection) /\ Len(v) = n - 1
        /\ \A k \in 1..(n - 1) : v[k] = new[k]
    <3>1. n - 1 \in Nat /\ \A k \in 1..(n - 1) : new[k] \in MappedSection
      BY <1>1, <1>4, ElementOfSeq
    <3> QED
      BY <3>1, SubSeqProperties
  <2> HIDE DEF v
  <2>2. v = old
    BY <1>1, <1>4, <2>1, SeqEqual
  <2> QED
    BY <2>2 DEF v
<1>6. ASSUME NEW k \in 1..(n - 1) PROVE old[k].va + old[k].vsz <= new[n].va
  <2>1. k \in 1..Len(secs) /\ Len(secs) \in 1..Len(secs) /\ secs # <<>>
    BY <1>1, EmptySeq
  <2>2. /\ secs[k] \in Section /\ secs[k].vsz # 0
        /\ secs[Len(secs)] \in Section /\ secs[Len(secs)].vsz # 0
    BY <2>1, ElementOfSeq DEF Table, Regular
  <2>3. new[n].va = EndOf(secs[Len(secs)])
    BY <1>2, <1>4, <2>1 DEF NewAddress
  <2>4. old[k].va = secs[k].va /\ old[k].vsz = secs[k].vsz
    <3>1. old[k] = Mapped(secs[k])
      BY <1>1, <2>1
    <3>2. Mapped(secs[k]).va = secs[k].va /\ Mapped(secs[k]).vsz = secs[k].vsz
      BY DEF Mapped
    <3> QED
      BY <3>1, <3>2
  <2>5. /\ secs[k].va + secs[k].vsz <= EndOf(secs[k]) /\ EndOf(secs[k]) \in Nat
        /\ secs[Len(secs)].va < EndOf(secs[Len(secs)]) /\ EndOf(secs[Len(secs)]) \in Nat
        /\ secs[k].va \in Nat /\ secs[k].vsz \in Nat /\ secs[Len(secs)].va \in Nat
    BY <2>2, EndOfSection DEF Section
  <2>6. EndOf(secs[k]) <= EndOf(secs[Len(secs)])
    <3>1. CASE k = Len(secs)
      BY <2>5, <3>1
    <3>2. CASE k # Len(secs)
      <4>1. EndOf(secs[k]) <= secs[Len(secs)].va
        <5>1. k < Len(secs)
          BY <1>1, <2>1, <3>2
        <5> QED
          BY <2>1, <5>1, EndsOrdered DEF Table, Regular
      <4> QED
        BY <2>5, <4>1
    <3> QED
      BY <3>1, <3>2
  <2> QED
    BY <2>3, <2>4, <2>5, <2>6
<1>7. new[n].vsz = NewSize /\ new[n].vsz > 0
  BY <1>2, <1>4
<1>8. new[n].mem = [k \in 1..new[n].vsz |-> 0]
  <2>1. Resize(<<>>, NewSize) = [k \in 1..NewSize |-> 0]
    <3>1. \A k \in 1..NewSize : ~(k <= Len(<<>>))
      BY <1>2, EmptySeq
    <3> QED
      BY <3>1 DEF Resize
  <2> QED
    BY <1>2, <1>4, <1>7, <2>1
<1>9. new # NoFile
  BY <1>4, NoFileAssumption DEF MappedSection
<1>10. Store!Grown(old, new)
  BY <1>1, <1>4, <1>5, <1>6, <1>7, <1>8 DEF Store!Grown
<1> QED
  BY <1>9, <1>10 DEF new, old, m

LEMMA StoreStutter ==
  ASSUME UNCHANGED <<disk, goal, inp, outp, outcome>>, Phase' = Phase
  PROVE  UNCHANGED Store!vars
  BY DEF Store!vars, Phase

LEMMA StoreEnd ==
  ASSUME UNCHANGED <<disk, goal, inp, outp>>, Phase # "idle", Phase' = "idle",
         outcome' = "failed"
  PROVE  Store!Next
<1>1. Store!End("failed")
  BY DEF Store!End, Phase
<1> QED
  BY <1>1 DEF Store!Next

LEMMA ReadDoneFixes == ASSUME RInv, ReadDone PROVE Store!Next
<1>1. /\ pc = "sections" /\ pc' = (IF op = "create" THEN "add" ELSE "open") /\ goal' = Wanted
      /\ UNCHANGED <<disk, secs, soh, soi, i, cur, outcome, conf, op, inp, outp>>
  BY DEF ReadDone, image
<1>2. View(disk[inp]) = MappedImage(secs) /\ MappedImage(secs) # NoFile /\ Table(secs)
  BY ReadFacts, ImageType, TypesOf
<1>3. Views[inp] = MappedImage(secs)
  BY <1>2, TypesOf DEF Views
<1>4. Phase = "reading" /\ Phase' = "writing"
  BY <1>1 DEF Phase
<1>5. Wanted = NoFile \/ (Wanted # NoFile /\ (Store!Grown(Views[inp], Wanted)
                                               \/ Store!Shrunk(Views[inp], Wanted)))
  <2>1. CASE op = "create" /\ ~(conf.raw = 0 /\ conf.vsz = 0)
    BY <1>2, <1>3, <2>1, TypesOf, WantedGrown, GrownImage
  <2>2. CASE op = "create" /\ conf.raw = 0 /\ conf.vsz = 0
    BY <2>2 DEF Wanted
  <2>3. CASE op = "remove" /\ secs # <<>>
    <3> DEFINE img == MappedImage(secs)
    <3>1. Wanted = SubSeq(img, 1, Len(secs) - 1)
      BY <2>3, TypesOf, WantedShrunk
    <3>2. Len(img) = Len(secs) /\ img # <<>>
      BY <2>3, TypesOf, ImageType, EmptySeq
    <3>3. Wanted = MappedImage(SubSeq(secs, 1, Len(secs) - 1))
      BY <1>2, <2>3, <3>1, TypesOf, PoppedTable
    <3>4. SubSeq(secs, 1, Len(secs) - 1) \in Seq(Section)
      <4>1. Len(secs) - 1 \in Int /\ \A k \in 1..(Len(secs) - 1) : secs[k] \in Section
        BY TypesOf
      <4> QED
        BY <4>1, SubSeqProperties
    <3>5. Wanted # NoFile
      BY <3>3, <3>4, ImageType
    <3> HIDE DEF img
    <3>6. Store!Shrunk(img, Wanted)
      BY <3>1, <3>2 DEF Store!Shrunk
    <3> QED
      BY <1>3, <3>5, <3>6 DEF img
  <2>4. CASE op = "remove" /\ secs = <<>>
    <3> DEFINE img == MappedImage(secs)
    <3>1. img = <<>>
      <4>1. img \in Seq(MappedSection) /\ Len(img) = 0
        BY <2>4, TypesOf, ImageType, EmptySeq
      <4> QED
        BY <4>1, EmptySeq
    <3> HIDE DEF img
    <3> QED
      BY <2>4, <3>1 DEF Wanted, img
  <2> QED
    BY <2>1, <2>2, <2>3, <2>4, TypesOf
<1>6. Store!Fix
  BY <1>1, <1>2, <1>3, <1>4, <1>5 DEF Store!Fix, Views, Phase
<1> QED
  BY <1>6 DEF Store!Next

(* Each write to the output either leaves nothing that read_pe accepts     *)
(* there or the image that was wanted.                                     *)
LEMMA OutputChanges ==
  ASSUME RInv, RInv', Writing, Phase' = "writing",
         NEW f, disk' = [disk EXCEPT ![outp] = f],
         UNCHANGED <<goal, inp, outp, outcome>>,
         View(f) = NoFile \/ (View(f) = goal /\ goal # NoFile)
  PROVE  Store!Next
<1>1. Phase = "writing"
  BY PhaseOf
<1>2. Views' = [Views EXCEPT ![outp] = View(f)]
  BY TypesOf DEF Views
<1>3. CASE View(f) = NoFile
  <2>1. Store!Damage
    BY <1>1, <1>2, <1>3 DEF Store!Damage, Views, Phase
  <2> QED
    BY <2>1 DEF Store!Next
<1>4. CASE View(f) = goal /\ goal # NoFile
  <2>1. Store!Produce
    BY <1>1, <1>2, <1>4 DEF Store!Produce, Views, Phase
  <2> QED
    BY <2>1 DEF Store!Next
<1> QED
  BY <1>3, <1>4

LEMMA TruncateDamages == ASSUME RInv, RInv', Truncate PROVE Store!Next
<1>1. /\ pc = "open" /\ pc' \in {"rebuild", "pop"}
      /\ disk' = [disk EXCEPT ![outp] = Truncated]
      /\ UNCHANGED <<goal, inp, outp, outcome>>
  BY DEF Truncate, Step, call
<1>2. View(Truncated) = NoFile
  <2>1. ~HeadersReadable(Truncated)
    <3>1. Len(Truncated.secs) = 0 /\ Len(Truncated.bytes) = 0
      BY EmptySeq DEF Truncated
    <3>2. HeaderSize(0) \in Nat /\ HeaderSize(0) # 0
      BY SizeAssumption DEF HeaderSize
    <3> QED
      BY <3>1, <3>2 DEF HeadersReadable
  <2> QED
    BY <2>1 DEF View, Readable
<1>3. Writing /\ Phase' = "writing"
  BY <1>1 DEF Writing, Phase
<1> QED
  BY <1>1, <1>2, <1>3, OutputChanges

PartialGoal ==
  pc = "write" => /\ View(disk[outp]) = IF Readable(disk[outp]) THEN goal ELSE NoFile
                  /\ goal # NoFile

LEMMA PartialViewNext == RInv' => PartialGoal'
<1>1. RInv => PartialGoal
  BY PartialView DEF PartialGoal
<1> QED
  BY <1>1, PTL

LEMMA WriteProduces ==
  ASSUME RInv, RInv', WriteHeaders \/ WriteSection
  PROVE  Store!Next
<1> DEFINE f == disk'[outp]
<1>1. /\ pc \in {"pointers", "write"} /\ pc' = "write"
      /\ UNCHANGED <<goal, inp, outp, outcome>>
  BY DEF WriteHeaders, WriteSection, Step, call
<1>2. disk' = [disk EXCEPT ![outp] = f]
  BY TypesOf DEF WriteHeaders, WriteSection
<1>3. View(f) = NoFile \/ (View(f) = goal /\ goal # NoFile)
  <2>1. /\ View(disk[outp])' = IF Readable(disk[outp])' THEN goal' ELSE NoFile
        /\ goal' # NoFile
    BY <1>1, PartialViewNext DEF PartialGoal
  <2> QED
    BY <1>1, <2>1
<1>4. Writing /\ Phase' = "writing"
  BY <1>1 DEF Writing, Phase
<1> HIDE DEF f
<1> QED
  BY <1>1, <1>2, <1>3, <1>4, OutputChanges

LEMMA FinishIsTrue == ASSUME RInv, Finish PROVE Store!Next
<1>1. /\ pc = "write" /\ i > Count /\ pc' = "idle" /\ outcome' = "done"
      /\ UNCHANGED <<disk, goal, inp, outp>>
  BY DEF Finish, call
<1>2. View(disk[outp]) = goal /\ goal # NoFile
  BY <1>1, FinalReadable, PartialView
<1>3. Views[outp] = goal /\ UNCHANGED Views
  BY <1>1, <1>2, TypesOf DEF Views
<1>4. Phase = "writing" /\ Phase' = "idle"
  BY <1>1 DEF Phase
<1>5. Store!End("done")
  BY <1>1, <1>2, <1>3, <1>4 DEF Store!End, Views, Phase
<1> QED
  BY <1>5 DEF Store!Next

LEMMA ThrowEnds ==
  ASSUME NEW from, NEW condition, Throw(from, condition), pc \notin {"idle", "terminated"}, RInv
  PROVE  Store!Next
<1>1. UNCHANGED <<disk, goal, inp, outp>> /\ outcome' = "failed" /\ pc' = "terminated"
  BY DEF Throw, call
<1>2. Phase # "idle" /\ Phase' = "idle"
  BY <1>1 DEF Phase
<1> QED
  BY <1>1, <1>2, StoreEnd

LEMMA NextRefines == ASSUME RInv, RInv', [Next]_vars PROVE [Store!Next]_Store!vars
<1>1. ASSUME NEW o \in {"create", "remove"}, NEW p \in Paths, NEW q \in Paths,
             Begin(o, p, q)
      PROVE  Store!Next
  <2>1. /\ pc = "idle" /\ pc' = "headers" /\ outcome' = "running"
        /\ inp' \in Paths /\ outp' \in Paths /\ UNCHANGED <<disk, goal>>
    BY <1>1, PathAssumption DEF Begin
  <2>2. Phase = "idle" /\ Phase' = "reading" /\ UNCHANGED Views
    BY <2>1 DEF Phase, Views
  <2>3. Store!Begin
    BY <2>1, <2>2 DEF Store!Begin, Views, Phase
  <2> QED
    BY <2>3 DEF Store!Next
<1>2. CASE Read
  <2>1. CASE ReadHeaders \/ ReadSection
    <3>1. pc \in {"headers", "sections"} /\ pc' = "sections"
      BY <2>1 DEF ReadHeaders, ReadSection, Step
    <3>2. UNCHANGED <<disk, goal, inp, outp, outcome>> /\ Phase' = Phase
      BY <2>1, <3>1 DEF ReadHeaders, ReadSection, Step, call, Phase
    <3> QED
      BY <3>2, StoreStutter
  <2>2. CASE BadHeaders \/ BadSection \/ BadTable
    <3>1. pc \in {"headers", "sections"}
      BY <2>2 DEF BadHeaders, BadSection, BadTable, Throw
    <3> QED
      BY <2>2, <3>1, ThrowEnds DEF BadHeaders, BadSection, BadTable
  <2> QED
    BY <1>2, <2>1, <2>2, ReadDoneFixes DEF Read
<1>3. CASE Add
  <2>1. CASE AddNew
    <3>1. UNCHANGED <<disk, goal, inp, outp, outcome>> /\ Phase' = Phase
      BY <2>1 DEF AddNew, Step, call, Phase
    <3> QED
      BY <3>1, StoreStutter
  <2>2. CASE CannotAdd
    <3>1. pc = "add"
      BY <2>2 DEF CannotAdd, Throw
    <3> QED
      BY <2>2, <3>1, ThrowEnds DEF CannotAdd
  <2> QED
    BY <1>3, <2>1, <2>2 DEF Add
<1>4. CASE Open
  <2>1. CASE CannotCreate
    <3>1. /\ UNCHANGED <<disk, goal, inp, outp>> /\ outcome' = "failed"
          /\ pc = "open" /\ pc' = "idle"
      BY <2>1 DEF CannotCreate, call
    <3>2. Phase # "idle" /\ Phase' = "idle"
      BY <3>1 DEF Phase
    <3> QED
      BY <3>1, <3>2, StoreEnd
  <2> QED
    BY <1>4, <2>1, TruncateDamages DEF Open
<1>5. CASE Remove
  <2>1. CASE Pop \/ Realign \/ RealignDone
    <3>1. pc \in {"pop", "realign"} /\ pc' \in {"realign", "rebuild"}
      BY <2>1 DEF Pop, Realign, RealignDone, Step
    <3>2. UNCHANGED <<disk, goal, inp, outp, outcome>> /\ Phase' = Phase
      BY <2>1, <3>1 DEF Pop, Realign, RealignDone, Step, call, Phase
    <3> QED
      BY <3>2, StoreStutter
  <2>2. CASE PopEmpty
    <3>1. pc = "pop"
      BY <2>2 DEF PopEmpty, Throw
    <3> QED
      BY <2>2, <3>1, ThrowEnds DEF PopEmpty
  <2> QED
    BY <1>5, <2>1, <2>2 DEF Remove
<1>6. CASE Rebuild
  <2>1. CASE RebuildHeaders \/ AssignPointer
    <3>1. pc \in {"rebuild", "pointers"} /\ pc' = "pointers"
      BY <2>1 DEF RebuildHeaders, AssignPointer, Step
    <3>2. UNCHANGED <<disk, goal, inp, outp, outcome>> /\ Phase' = Phase
      BY <2>1, <3>1 DEF RebuildHeaders, AssignPointer, Step, call, Phase
    <3> QED
      BY <3>2, StoreStutter
  <2>2. CASE HeadersTooLong
    <3>1. pc = "rebuild"
      BY <2>2 DEF HeadersTooLong, Throw
    <3> QED
      BY <2>2, <3>1, ThrowEnds DEF HeadersTooLong
  <2> QED
    BY <1>6, <2>1, <2>2, WriteProduces, FinishIsTrue DEF Rebuild
<1>7. CASE Killed
  <2>1. pc \notin {"idle", "terminated"}
    BY <1>7 DEF Killed, Throw
  <2> QED
    BY <1>7, <2>1, ThrowEnds DEF Killed
<1>8. ASSUME NEW c \in Settings, Restart(c) PROVE UNCHANGED Store!vars
  <2>1. UNCHANGED <<disk, goal, inp, outp, outcome>> /\ Phase' = Phase
    BY <1>8 DEF Restart, Phase
  <2> QED
    BY <2>1, StoreStutter
<1>9. CASE UNCHANGED vars
  <2>1. UNCHANGED <<disk, goal, inp, outp, outcome>> /\ Phase' = Phase
    BY <1>9 DEF vars, call, Phase
  <2> QED
    BY <2>1, StoreStutter
<1> QED
  BY <1>1, <1>2, <1>3, <1>4, <1>5, <1>6, <1>7, <1>8, <1>9 DEF Next

LEMMA InitRefines == Init => Store!Init
  BY PathAssumption DEF Init, Store!Init

(* A file counts as what a process sees once it is mapped: adding a        *)
(* section and removing one, through realignment, truncation and padding,  *)
(* cut short at any step, produce the wanted image or none, in the output  *)
(* and nowhere else, and "done" is said of the wanted image only.          *)
THEOREM ImplementsImageStore == ASSUME LinkerMade PROVE Spec => Implements
<1>1. RInv /\ RInv' /\ [Next]_vars => [Store!Next]_Store!vars
  BY NextRefines
<1> QED
  BY <1>1, InitRefines, RInvariance, PTL DEF Spec, Implements, Store!Spec
=============================================================================
