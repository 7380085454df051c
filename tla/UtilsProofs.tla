----------------------------- MODULE UtilsProofs ------------------------------
(***************************************************************************)
(* The text and byte tools of Utils, for inputs of any length: the parser  *)
(* of the linker's map, the remover of byte patterns, and the parser of    *)
(* settings.ini.                                                           *)
(***************************************************************************)
EXTENDS Settings, MapParser, BytePattern, NatLemmas

-----------------------------------------------------------------------------
(***************************************************************************)
(* The parser of the map: its three flags mean what they are there for,    *)
(* for every map, of any length, with any words.                           *)
(***************************************************************************)
(***************************************************************************)
(* The inductive invariant: FlagsTellPlace, with the types it needs.  What *)
(* the parser collects has no part in it.                                  *)
(***************************************************************************)
FlagInv ==
  /\ map \in Seq(MapLine) /\ at \in Nat \ {0}
  /\ text_sec_found \in 0..2 /\ data_sec_found \in 0..2 /\ bss_sec_found \in 0..1
  /\ FlagsTellPlace

(***************************************************************************)
(* What one more line changes.                                             *)
(***************************************************************************)
LEMMA NextPlace ==
  ASSUME NEW n \in Nat \ {0}
  PROVE  /\ TextEnds(n + 1) <=> (TextEnds(n) \/ Mark(n, "*(.text.*)"))
         /\ TextAt(n + 1) <=> /\ ~TextEnds(n + 1)
                              /\ TextAt(n) \/ IsHeader(n, ".text")
         /\ DataAt(n + 1) <=> \/ DataAt(n) /\ ~Mark(n, "*(.data2)")
                              \/ DataHeader(n)
         /\ BssAt(n + 1) <=> (BssAt(n) \/ BssHeader(n))
<1>1. 1..((n + 1) - 1) = (1..(n - 1)) \union {n}
  OBVIOUS
<1>2. TextEnds(n + 1) <=> (TextEnds(n) \/ Mark(n, "*(.text.*)"))
  BY <1>1 DEF TextEnds
<1>3. TextAt(n + 1) <=> ~TextEnds(n + 1) /\ (TextAt(n) \/ IsHeader(n, ".text"))
  BY <1>1, <1>2 DEF TextAt
<1>4. BssAt(n + 1) <=> (BssAt(n) \/ BssHeader(n))
  BY <1>1 DEF BssAt
<1>5. DataAt(n + 1) <=> (DataAt(n) /\ ~Mark(n, "*(.data2)")) \/ DataHeader(n)
  <2>1. (n + 1)..((n + 1) - 1) = {}
    OBVIOUS
  <2>2. ASSUME NEW j \in 1..(n - 1)
        PROVE  (j + 1)..((n + 1) - 1) = ((j + 1)..(n - 1)) \union {n}
    OBVIOUS
  <2>3. ASSUME DataHeader(n) PROVE DataAt(n + 1)
    BY <1>1, <2>1, <2>3 DEF DataAt
  <2>4. ASSUME DataAt(n), ~Mark(n, "*(.data2)") PROVE DataAt(n + 1)
    <3>1. PICK j \in 1..(n - 1) :
            DataHeader(j) /\ \A m \in (j + 1)..(n - 1) : ~Mark(m, "*(.data2)")
      BY <2>4 DEF DataAt
    <3> QED
      BY <1>1, <2>2, <2>4, <3>1 DEF DataAt
  <2>5. ASSUME DataAt(n + 1), ~DataHeader(n) PROVE DataAt(n) /\ ~Mark(n, "*(.data2)")
    <3>1. PICK j \in 1..((n + 1) - 1) :
            DataHeader(j) /\ \A m \in (j + 1)..((n + 1) - 1) : ~Mark(m, "*(.data2)")
      BY <2>5 DEF DataAt
    <3>2. j \in 1..(n - 1)
      BY <1>1, <2>5, <3>1
    <3> QED
      BY <2>2, <3>1, <3>2 DEF DataAt
  <2> QED
    BY <2>3, <2>4, <2>5
<1> QED
  BY <1>2, <1>3, <1>4, <1>5

LEMMA PlacesAreBoolean ==
  ASSUME NEW n
  PROVE  /\ TextEnds(n) \in BOOLEAN /\ TextAt(n) \in BOOLEAN
         /\ DataAt(n) \in BOOLEAN /\ BssAt(n) \in BOOLEAN
BY DEF TextEnds, TextAt, DataAt, BssAt

(***************************************************************************)
(* The places do not depend on anything but the map.                       *)
(***************************************************************************)
LEMMA SameMap ==
  ASSUME map' = map
  PROVE  /\ TextEnds(at)' = TextEnds(at') /\ TextAt(at)' = TextAt(at')
         /\ DataAt(at)' = DataAt(at') /\ BssAt(at)' = BssAt(at')
         /\ (\A k \in DOMAIN map : OneSection(k))' <=> \A k \in DOMAIN map : OneSection(k)
BY DEF TextEnds, TextAt, DataAt, BssAt, DataHeader, BssHeader, IsHeader, Mark, OneSection

LEMMA InitFlags == MapInit => FlagInv
<1> SUFFICES ASSUME MapInit PROVE FlagInv
  OBVIOUS
<1>1. map \in Seq(MapLine) /\ at = 1
  BY MapAssumption DEF MapInit
<1>2. 1..(at - 1) = {}
  BY <1>1
<1>3. ~TextEnds(at) /\ ~TextAt(at) /\ ~DataAt(at) /\ ~BssAt(at)
  BY <1>2 DEF TextEnds, TextAt, DataAt, BssAt
<1> QED
  BY <1>1, <1>3, PlacesAreBoolean DEF FlagInv, FlagsTellPlace, MapInit

(***************************************************************************)
(* A step over a line.                                                     *)
(***************************************************************************)
LEMMA ReadingFlags ==
  ASSUME FlagInv, Plain \/ Header \/ Symbol
  PROVE  FlagInv'
<1>1. /\ at \in DOMAIN map /\ at \in Nat \ {0} /\ map \in Seq(MapLine)
      /\ map' = map /\ at' = at + 1
  BY DEF FlagInv, Plain, Header, Symbol, Reading
<1> DEFINE hasAddr == HasAddr(map[at].words)
<1>2. /\ text_sec_found' = IF hasAddr /\ OpensText THEN 1 ELSE textHere
      /\ data_sec_found' = IF hasAddr /\ ~OpensText /\ OpensData THEN 1 ELSE dataHere
      /\ bss_sec_found' = IF hasAddr /\ ~OpensText /\ ~OpensData /\ OpensBss
                          THEN 1 ELSE bss_sec_found
  BY DEF Plain, Header, Symbol, Reading, line
<1>3. /\ textHere \in 0..2 /\ dataHere \in 0..2
      /\ text_sec_found' \in 0..2 /\ data_sec_found' \in 0..2 /\ bss_sec_found' \in 0..1
  BY <1>2 DEF FlagInv, textHere, dataHere
<1>4. ASSUME \A k \in DOMAIN map : OneSection(k)
      PROVE  /\ (text_sec_found' = 2) = TextEnds(at + 1)
             /\ (text_sec_found' = 1) = TextAt(at + 1)
             /\ (data_sec_found' = 1) = DataAt(at + 1)
             /\ (bss_sec_found' = 1) = BssAt(at + 1)
  <2>1. /\ text_sec_found = 2 <=> TextEnds(at)
        /\ text_sec_found = 1 <=> TextAt(at)
        /\ data_sec_found = 1 <=> DataAt(at)
        /\ bss_sec_found = 1 <=> BssAt(at)
    BY <1>4, PlacesAreBoolean DEF FlagInv, FlagsTellPlace
  <2>2. /\ OpensText <=> Mark(at, ".text") /\ textHere # 2
        /\ DataHeader(at) <=> hasAddr /\ OpensData
        /\ BssHeader(at) <=> hasAddr /\ OpensBss
        /\ IsHeader(at, ".text") <=> hasAddr /\ Mark(at, ".text")
    BY DEF OpensText, OpensData, OpensBss, DataHeader, BssHeader, IsHeader, Mark, Has, line
  <2>3. /\ OpensText => ~OpensData /\ ~OpensBss
        /\ OpensData => ~OpensBss
    BY <1>1, <1>4 DEF OneSection, OpensText, OpensData, OpensBss, Mark, Has, line
  <2>4. /\ textHere = IF Mark(at, "*(.text.*)") THEN 2 ELSE text_sec_found
        /\ dataHere = IF Mark(at, "*(.data2)") THEN 2 ELSE data_sec_found
    BY DEF textHere, dataHere, Mark, Has, line
  <2>5. /\ TextEnds(at + 1) <=> (TextEnds(at) \/ Mark(at, "*(.text.*)"))
        /\ TextAt(at + 1) <=> /\ ~TextEnds(at + 1)
                              /\ TextAt(at) \/ IsHeader(at, ".text")
        /\ DataAt(at + 1) <=> \/ DataAt(at) /\ ~Mark(at, "*(.data2)")
                              \/ DataHeader(at)
        /\ BssAt(at + 1) <=> (BssAt(at) \/ BssHeader(at))
    BY <1>1, NextPlace
  <2>6. TextAt(at) => ~TextEnds(at)
    BY DEF TextAt
  <2> HIDE DEF hasAddr
  <2>7. (text_sec_found' = 2) <=> TextEnds(at + 1)
    BY <1>2, <2>1, <2>2, <2>4, <2>5
  <2>8. (text_sec_found' = 1) <=> TextAt(at + 1)
    BY <1>2, <2>1, <2>2, <2>4, <2>5, <2>6
  <2>9. (data_sec_found' = 1) <=> DataAt(at + 1)
    BY <1>2, <2>1, <2>2, <2>3, <2>4, <2>5
  <2>10. (bss_sec_found' = 1) <=> BssAt(at + 1)
    BY <1>2, <2>1, <2>2, <2>3, <2>5
  <2> QED
    BY <2>7, <2>8, <2>9, <2>10, PlacesAreBoolean
<1>5. FlagsTellPlace'
  BY <1>1, <1>4, SameMap DEF FlagsTellPlace
<1> QED
  BY <1>1, <1>3, <1>5 DEF FlagInv

LEMMA NextFlags == FlagInv /\ [MapNext]_mapVars => FlagInv'
<1> SUFFICES ASSUME FlagInv, [MapNext]_mapVars PROVE FlagInv'
  OBVIOUS
<1>1. CASE Plain \/ Header \/ Symbol
  BY <1>1, ReadingFlags
<1>2. CASE EndOfMap \/ WriteDefTable \/ UNCHANGED mapVars
  <2>1. UNCHANGED <<map, at, flags>>
    BY <1>2 DEF EndOfMap, WriteDefTable, mapVars
  <2>2. FlagsTellPlace'
    <3>1. map' = map /\ at' = at /\ text_sec_found' = text_sec_found
          /\ data_sec_found' = data_sec_found /\ bss_sec_found' = bss_sec_found
      BY <2>1 DEF flags
    <3> QED
      BY <3>1, SameMap DEF FlagInv, FlagsTellPlace
  <2> QED
    BY <2>1, <2>2 DEF FlagInv, flags
<1> QED
  BY <1>1, <1>2 DEF MapNext

(***************************************************************************)
(* Theorems.                                                               *)
(***************************************************************************)
(* In a map whose lines each bear at most one section's name, the flags    *)
(* tell the parser at every line whether it is among the functions, among  *)
(* the data or behind them, for every map: a line that clears one flag and *)
(* the header that sets another never get in each other's way.             *)
THEOREM FlagsAreRight == MapSpec => []FlagsTellPlace
<1>1. FlagInv => FlagsTellPlace
  BY DEF FlagInv
<1>2. MapSpec => []FlagInv
  BY InitFlags, NextFlags, PTL DEF MapSpec
<1> QED
  BY <1>1, <1>2, PTL

-----------------------------------------------------------------------------
(***************************************************************************)
(* What the parser collects: lists of names and addresses, of any length.  *)
(***************************************************************************)
Addresses == 0..(Modulus - 1)

LEMMA NamesUnfold ==
  ASSUME NEW ws \in Seq(Word)
  PROVE  LET K == {n \in 1..Len(ws) : IsName(ws[n])} IN
         \E f : NamesOf(ws) = f[Len(ws)] /\ Gathers(f, Len(ws), K, [n \in K |-> ws[n].val])
<1> DEFINE N == Len(ws)
           K == {n \in 1..N : IsName(ws[n])}
           v == [n \in K |-> ws[n].val]
           IsList(f) == f = [n \in 0..N |->
                               IF n = 0 THEN <<>>
                               ELSE IF IsName(ws[n]) THEN Append(f[n - 1], ws[n].val) ELSE f[n - 1]]
           list == CHOOSE f : IsList(f)
<1>1. NamesOf(ws) = list[N]
  BY DEF NamesOf
<1>2. N \in Nat /\ \A n \in 1..N : (n \in K <=> IsName(ws[n])) /\ (n \in K => v[n] = ws[n].val)
  BY LenProperties
<1>3. \A n \in K : v[n] \in MapNames
  <2>1. \A n \in K : n \in 1..N /\ ws[n] \in Word /\ IsName(ws[n]) /\ v[n] = ws[n].val
    BY ElementOfSeq
  <2> QED
    BY <2>1 DEF Word, IsName
<1> HIDE DEF N, K, v
<1>4. \A f : IsList(f) <=> Gathers(f, N, K, v)
  <2>1. 0 \in 0..N /\ \A n \in 0..N : n = 0 \/ n \in 1..N
    BY <1>2
  <2>2. \A n \in 1..N : n \in 0..N /\ n # 0
    BY <1>2
  <2>3. ASSUME NEW f, IsList(f) PROVE Gathers(f, N, K, v)
    BY <1>2, <2>1, <2>2, <2>3 DEF Gathers
  <2>4. ASSUME NEW f, Gathers(f, N, K, v) PROVE IsList(f)
    <3>1. f = [n \in 0..N |-> f[n]]
      BY <2>4 DEF Gathers
    <3>2. \A n \in 0..N :
            f[n] = IF n = 0 THEN <<>>
                   ELSE IF IsName(ws[n]) THEN Append(f[n - 1], ws[n].val) ELSE f[n - 1]
      BY <1>2, <2>1, <2>2, <2>4 DEF Gathers
    <3> QED
      BY <3>1, <3>2
  <2> QED
    BY <2>3, <2>4
<1>5. Gathers(list, N, K, v)
  <2>1. \E f : Gathers(f, N, K, v)
    BY <1>2, <1>3, Gathering
  <2>2. \E f : IsList(f)
    BY <1>4, <2>1
  <2> HIDE DEF IsList
  <2>3. IsList(list)
    BY <2>2
  <2> QED
    BY <1>4, <2>3
<1> HIDE DEF list
<1>6. \E f : NamesOf(ws) = f[N] /\ Gathers(f, N, K, v)
  BY <1>1, <1>5
<1> QED
  BY <1>6 DEF N, K, v

LEMMA AddrsUnfold ==
  ASSUME NEW ws \in Seq(Word)
  PROVE  LET K == {n \in 1..Len(ws) : IsAddr(ws[n])} IN
         \E f : AddrsOf(ws) = f[Len(ws)] /\ Gathers(f, Len(ws), K, [n \in K |-> Moved(ws[n].val)])
<1> DEFINE N == Len(ws)
           K == {n \in 1..N : IsAddr(ws[n])}
           v == [n \in K |-> Moved(ws[n].val)]
           IsList(f) == f = [n \in 0..N |->
                               IF n = 0 THEN <<>>
                               ELSE IF IsAddr(ws[n]) THEN Append(f[n - 1], Moved(ws[n].val))
                               ELSE f[n - 1]]
           list == CHOOSE f : IsList(f)
<1>1. AddrsOf(ws) = list[N]
  BY DEF AddrsOf
<1>2. /\ N \in Nat
      /\ \A n \in 1..N : (n \in K <=> IsAddr(ws[n])) /\ (n \in K => v[n] = Moved(ws[n].val))
  BY LenProperties
<1>3. \A n \in K : v[n] \in Addresses
  <2>1. \A n \in K : n \in 1..N /\ ws[n] \in Word /\ IsAddr(ws[n]) /\ v[n] = Moved(ws[n].val)
    BY ElementOfSeq
  <2>2. \A a \in Addresses : Moved(a) \in Addresses
    BY MapAssumption DEF Moved, Addresses
  <2> QED
    BY <2>1, <2>2 DEF Word, IsAddr, Addresses
<1> HIDE DEF N, K, v
<1>4. \A f : IsList(f) <=> Gathers(f, N, K, v)
  <2>1. 0 \in 0..N /\ \A n \in 0..N : n = 0 \/ n \in 1..N
    BY <1>2
  <2>2. \A n \in 1..N : n \in 0..N /\ n # 0
    BY <1>2
  <2>3. ASSUME NEW f, IsList(f) PROVE Gathers(f, N, K, v)
    BY <1>2, <2>1, <2>2, <2>3 DEF Gathers
  <2>4. ASSUME NEW f, Gathers(f, N, K, v) PROVE IsList(f)
    <3>1. f = [n \in 0..N |-> f[n]]
      BY <2>4 DEF Gathers
    <3>2. \A n \in 0..N :
            f[n] = IF n = 0 THEN <<>>
                   ELSE IF IsAddr(ws[n]) THEN Append(f[n - 1], Moved(ws[n].val)) ELSE f[n - 1]
      BY <1>2, <2>1, <2>2, <2>4 DEF Gathers
    <3> QED
      BY <3>1, <3>2
  <2> QED
    BY <2>3, <2>4
<1>5. Gathers(list, N, K, v)
  <2>1. \E f : Gathers(f, N, K, v)
    BY <1>2, <1>3, Gathering
  <2>2. \E f : IsList(f)
    BY <1>4, <2>1
  <2> HIDE DEF IsList
  <2>3. IsList(list)
    BY <2>2
  <2> QED
    BY <1>4, <2>3
<1> HIDE DEF list
<1>6. \E f : AddrsOf(ws) = f[N] /\ Gathers(f, N, K, v)
  BY <1>1, <1>5
<1> QED
  BY <1>6 DEF N, K, v

LEMMA ListTypes ==
  ASSUME NEW ws \in Seq(Word)
  PROVE  NamesOf(ws) \in Seq(MapNames) /\ AddrsOf(ws) \in Seq(Addresses)
<1>1. Len(ws) \in Nat /\ Len(ws) \in 0..Len(ws) /\ \A n \in 1..Len(ws) : ws[n] \in Word
  <2>1. Len(ws) \in Nat
    BY LenProperties
  <2> QED
    BY <2>1, ElementOfSeq
<1>2. NamesOf(ws) \in Seq(MapNames)
  <2> DEFINE K == {n \in 1..Len(ws) : IsName(ws[n])}
             v == [n \in K |-> ws[n].val]
  <2>1. \A n \in K : v[n] \in MapNames
    BY <1>1 DEF Word, IsName
  <2>2. PICK f : NamesOf(ws) = f[Len(ws)] /\ Gathers(f, Len(ws), K, v)
    BY NamesUnfold
  <2> HIDE DEF K, v
  <2>3. f \in [0..Len(ws) -> Seq(MapNames)]
    BY <1>1, <2>1, <2>2, Gathering
  <2> QED
    BY <1>1, <2>2, <2>3
<1>3. AddrsOf(ws) \in Seq(Addresses)
  <2> DEFINE K == {n \in 1..Len(ws) : IsAddr(ws[n])}
             v == [n \in K |-> Moved(ws[n].val)]
  <2>1. \A n \in K : v[n] \in Addresses
    <3>1. \A n \in K : ws[n].val \in Addresses
      BY <1>1 DEF Word, IsAddr, Addresses
    <3> QED
      BY <3>1, MapAssumption DEF Moved, Addresses
  <2>2. PICK f : AddrsOf(ws) = f[Len(ws)] /\ Gathers(f, Len(ws), K, v)
    BY AddrsUnfold
  <2> HIDE DEF K, v
  <2>3. f \in [0..Len(ws) -> Seq(Addresses)]
    BY <1>1, <2>1, <2>2, Gathering
  <2> QED
    BY <1>1, <2>2, <2>3
<1> QED
  BY <1>2, <1>3

(* Of no words there is nothing to collect. *)
LEMMA NoWords == NamesOf(<<>>) = <<>> /\ AddrsOf(<<>>) = <<>>
<1> DEFINE ws == <<>>
<1>1. ws \in Seq(Word) /\ Len(ws) = 0
  BY EmptySeq
<1> HIDE DEF ws
<1>2. NamesOf(ws) = <<>>
  BY <1>1, NamesUnfold DEF Gathers
<1>3. AddrsOf(ws) = <<>>
  BY <1>1, AddrsUnfold DEF Gathers
<1> QED
  BY <1>2, <1>3 DEF ws

(* The words that a line adds. *)
LEMMA Beginnings ==
  ASSUME NEW ws \in Seq(Word), NEW c \in Nat, c <= Len(ws)
  PROVE  SubSeq(ws, 1, c) \in Seq(Word)
<1>1. Len(ws) \in Nat
  BY LenProperties
<1>2. \A n \in 1..c : n \in 1..Len(ws)
  BY <1>1
<1>3. \A n \in 1..c : ws[n] \in Word
  BY <1>2, ElementOfSeq
<1> QED
  BY <1>3, SubSeqProperties

LEMMA UpToSecondType ==
  ASSUME NEW ws \in Seq(Word)
  PROVE  UpToSecond(ws) \in Seq(Word)
<1> DEFINE seconds == {n \in DOMAIN ws : ~IsName(ws[n]) /\ \E j \in 1..(n - 1) : ~IsName(ws[j])}
           second  == CHOOSE n \in seconds : \A j \in seconds : n <= j
<1>1. UpToSecond(ws) = IF seconds = {} THEN ws ELSE SubSeq(ws, 1, second - 1)
  BY DEF UpToSecond
<1>2. Len(ws) \in Nat /\ seconds \in SUBSET Nat /\ seconds \subseteq 1..Len(ws)
  BY LenProperties
<1> HIDE DEF seconds
<1>3. seconds # {} => second \in seconds
  BY <1>2, SmallestMember
<1> HIDE DEF second
<1>4. CASE seconds # {}
  <2>1. second \in 1..Len(ws)
    BY <1>2, <1>3, <1>4
  <2>2. second - 1 \in Nat /\ second - 1 <= Len(ws)
    BY <1>2, <2>1
  <2> QED
    BY <1>1, <1>4, <2>2, Beginnings
<1> QED
  BY <1>1, <1>4

LEMMA LineWords ==
  ASSUME NEW k \in DOMAIN map, map \in Maps
  PROVE  /\ map[k].words \in Seq(Word)
         /\ map[k].cut # NoCut => BeforeBracket(map[k]) \in Seq(Word)
<1>1. map[k] \in MapLine /\ (map[k].cut # NoCut => map[k].cut <= Len(map[k].words))
  <2>1. map \in Seq(MapLine)
    BY MapAssumption
  <2>2. k \in 1..Len(map)
    BY <2>1, LenProperties
  <2> QED
    BY <2>1, <2>2, ElementOfSeq, MapAssumption
<1>2. map[k].words \in Seq(Word) /\ (map[k].cut # NoCut => map[k].cut \in Nat)
  BY <1>1 DEF MapLine
<1> QED
  BY <1>1, <1>2, Beginnings DEF BeforeBracket

LEMMA TakenType ==
  ASSUME map \in Maps, at \in DOMAIN map
  PROVE  Taken \in Seq(Word)
<1> DEFINE f == IF InFunctions THEN BeforeBracket(line) ELSE <<>>
           d == IF InData THEN UpToSecond(IF InFunctions THEN BeforeBracket(line) ELSE line.words)
                          ELSE <<>>
<1>1. /\ line.words \in Seq(Word)
      /\ line.cut # NoCut => BeforeBracket(line) \in Seq(Word)
      /\ <<>> \in Seq(Word)
  BY LineWords, EmptySeq DEF line
<1>2. Taken = IF InFunctions /\ line.cut = NoCut THEN <<>> ELSE f \o d
  BY DEF Taken
<1>3. CASE InFunctions /\ line.cut = NoCut
  BY <1>1, <1>2, <1>3
<1>4. CASE ~(InFunctions /\ line.cut = NoCut)
  <2>1. f \in Seq(Word)
    BY <1>1, <1>4
  <2>2. d \in Seq(Word)
    BY <1>1, <1>4, UpToSecondType
  <2> HIDE DEF f, d
  <2> QED
    BY <1>2, <1>4, <2>1, <2>2, ConcatProperties
<1> QED
  BY <1>3, <1>4

(***************************************************************************)
(* Types.                                                                  *)
(***************************************************************************)
MapTypeInv == MapTypeOK /\ map \in Maps

LEMMA InitMapTypes == MapInit => MapTypeInv
<1>1. \A S : <<>> \in Seq(S)
  BY EmptySeq
<1> QED
  BY <1>1, MapAssumption DEF MapInit, MapTypeInv, MapTypeOK

LEMMA NextMapTypes == FlagInv' /\ MapTypeInv /\ [MapNext]_mapVars => MapTypeInv'
<1> SUFFICES ASSUME FlagInv', MapTypeInv, [MapNext]_mapVars PROVE MapTypeInv'
  OBVIOUS
<1>1. /\ map' \in Seq(MapLine) /\ at' \in Nat \ {0}
      /\ text_sec_found' \in 0..2 /\ data_sec_found' \in 0..2 /\ bss_sec_found' \in 0..1
  BY DEF FlagInv
<1>2. CASE Plain \/ Header \/ EndOfMap \/ UNCHANGED mapVars
  <2>1. UNCHANGED <<map, Name, FunctionVirtualAddress, defined>>
    BY <1>2 DEF Plain, Header, Reading, EndOfMap, mapVars, table
  <2>2. mpc' = mpc \/ mpc' = "write"
    BY <1>2 DEF Plain, Header, EndOfMap, mapVars
  <2> QED
    BY <1>1, <2>1, <2>2 DEF MapTypeInv, MapTypeOK
<1>3. CASE Symbol
  <2>1. map' = map /\ defined' = defined /\ at \in DOMAIN map
    BY <1>3 DEF Symbol, Reading, MapTypeInv, MapTypeOK
  <2>2. NamesOf(Taken) \in Seq(MapNames) /\ AddrsOf(Taken) \in Seq(Addresses)
    BY <2>1, TakenType, ListTypes DEF MapTypeInv
  <2>3. /\ Name \o NamesOf(Taken) \in Seq(MapNames)
        /\ FunctionVirtualAddress \o AddrsOf(Taken) \in Seq(Addresses)
    <3>1. Name \in Seq(MapNames) /\ FunctionVirtualAddress \in Seq(Addresses)
      BY DEF MapTypeInv, MapTypeOK, Addresses
    <3> QED
      BY <2>2, <3>1, ConcatProperties
  <2>4. \/ mpc' = "menu" /\ UNCHANGED <<Name, FunctionVirtualAddress>>
        \/ /\ Name' = Name \o NamesOf(Taken) /\ mpc' = mpc
           /\ FunctionVirtualAddress' = FunctionVirtualAddress \o AddrsOf(Taken)
    BY <1>3 DEF Symbol, table
  <2> QED
    BY <1>1, <2>1, <2>3, <2>4 DEF MapTypeInv, MapTypeOK, Addresses
<1>4. CASE WriteDefTable
  <2>1. /\ UNCHANGED <<map, Name, FunctionVirtualAddress>>
        /\ \/ mpc' = "undefined" /\ UNCHANGED defined
           \/ /\ mpc' = "defined" /\ Len(Name) <= Len(FunctionVirtualAddress)
              /\ defined' = [k \in DOMAIN Name |-> <<Name[k], FunctionVirtualAddress[k]>>]
    BY <1>4 DEF WriteDefTable, table
  <2>2. ASSUME Len(Name) <= Len(FunctionVirtualAddress)
        PROVE  [k \in DOMAIN Name |-> <<Name[k], FunctionVirtualAddress[k]>>]
                 \in Seq(MapNames \X Addresses)
    <3>1. Name \in Seq(MapNames) /\ FunctionVirtualAddress \in Seq(Addresses)
      BY DEF MapTypeInv, MapTypeOK, Addresses
    <3>2. /\ Len(Name) \in Nat /\ DOMAIN Name = 1..Len(Name)
          /\ Len(FunctionVirtualAddress) \in Nat
      BY <3>1, LenProperties
    <3>3. \A k \in 1..Len(Name) : k \in 1..Len(FunctionVirtualAddress)
      BY <2>2, <3>2
    <3>4. \A k \in 1..Len(Name) : Name[k] \in MapNames /\ FunctionVirtualAddress[k] \in Addresses
      BY <3>1, <3>3, ElementOfSeq
    <3>5. [k \in DOMAIN Name |-> <<Name[k], FunctionVirtualAddress[k]>>]
            \in [1..Len(Name) -> MapNames \X Addresses]
      BY <3>2, <3>4
    <3> QED
      BY <3>2, <3>5, SeqDef
  <2> QED
    BY <1>1, <2>1, <2>2 DEF MapTypeInv, MapTypeOK, Addresses
<1> QED
  BY <1>2, <1>3, <1>4 DEF MapNext

(* The parser's lists and the #defines keep their types for every map: the *)
(* moved addresses stay in 32 bits, and no #define is of anything but a    *)
(* name and an address.                                                    *)
THEOREM MapTypeCorrect == MapSpec => []MapTypeOK
<1>1. MapInit => FlagInv /\ MapTypeInv
  BY InitFlags, InitMapTypes
<1>2. FlagInv /\ MapTypeInv /\ [MapNext]_mapVars => (FlagInv /\ MapTypeInv)'
  BY NextFlags, NextMapTypes
<1>3. MapTypeInv => MapTypeOK
  BY DEF MapTypeInv
<1> QED
  BY <1>1, <1>2, <1>3, PTL DEF MapSpec

(***************************************************************************)
(* The symbols of a regular map, line by line.                             *)
(***************************************************************************)
Pairs == MapNames \X Addresses

LEMMA SymbolParts ==
  ASSUME Regular, map \in Maps, NEW k \in DOMAIN map, IsSymbol(k)
  PROVE  /\ WordsAt(k) \in Seq(Word) /\ SymbolAt(k) \in Pairs
         /\ Len(NamesOf(WordsAt(k))) = 1 /\ Len(AddrsOf(WordsAt(k))) = 1
<1>1. WordsAt(k) \in Seq(Word)
  BY LineWords, UpToSecondType DEF WordsAt, IsFunction
<1>2. Len(NamesOf(WordsAt(k))) = 1 /\ Len(AddrsOf(WordsAt(k))) = 1
  BY DEF Regular
<1>3. NamesOf(WordsAt(k))[1] \in MapNames /\ AddrsOf(WordsAt(k))[1] \in Addresses
  <2>1. NamesOf(WordsAt(k)) \in Seq(MapNames) /\ AddrsOf(WordsAt(k)) \in Seq(Addresses)
    BY <1>1, ListTypes
  <2>2. 1 \in 1..Len(NamesOf(WordsAt(k))) /\ 1 \in 1..Len(AddrsOf(WordsAt(k)))
    BY <1>2
  <2> QED
    BY <2>1, <2>2, ElementOfSeq
<1> QED
  BY <1>1, <1>2, <1>3 DEF SymbolAt, Pairs

LEMMA SymbolsUnfold ==
  ASSUME Regular, map \in Maps
  PROVE  /\ SymbolsTo(0) = <<>>
         /\ \A n \in 1..Len(map) :
              SymbolsTo(n) = IF IsSymbol(n) THEN Append(SymbolsTo(n - 1), SymbolAt(n))
                             ELSE SymbolsTo(n - 1)
         /\ \A n \in 0..Len(map) : SymbolsTo(n) \in Seq(Pairs)
<1> DEFINE N == Len(map)
           K == {n \in 1..N : IsSymbol(n)}
           v == [n \in K |-> SymbolAt(n)]
           IsList(f) == f = [k \in 0..N |->
                               IF k = 0 THEN <<>>
                               ELSE IF IsSymbol(k) THEN Append(f[k - 1], SymbolAt(k)) ELSE f[k - 1]]
           list == CHOOSE f : IsList(f)
<1>1. \A n : SymbolsTo(n) = list[n]
  BY DEF SymbolsTo
<1>2. /\ N \in Nat /\ DOMAIN map = 1..N
      /\ \A n \in 1..N : (n \in K <=> IsSymbol(n)) /\ (n \in K => v[n] = SymbolAt(n))
  <2>1. map \in Seq(MapLine)
    BY MapAssumption
  <2> QED
    BY <2>1, LenProperties
<1>3. \A n \in K : v[n] \in Pairs
  <2>1. \A n \in K : n \in DOMAIN map /\ IsSymbol(n) /\ v[n] = SymbolAt(n)
    BY <1>2
  <2> QED
    BY <2>1, SymbolParts
<1> HIDE DEF N, K, v
<1>4. \A f : IsList(f) <=> Gathers(f, N, K, v)
  <2>1. 0 \in 0..N /\ \A n \in 0..N : n = 0 \/ n \in 1..N
    BY <1>2
  <2>2. \A n \in 1..N : n \in 0..N /\ n # 0
    BY <1>2
  <2>3. ASSUME NEW f, IsList(f) PROVE Gathers(f, N, K, v)
    BY <1>2, <2>1, <2>2, <2>3 DEF Gathers
  <2>4. ASSUME NEW f, Gathers(f, N, K, v) PROVE IsList(f)
    <3>1. f = [n \in 0..N |-> f[n]]
      BY <2>4 DEF Gathers
    <3>2. \A n \in 0..N :
            f[n] = IF n = 0 THEN <<>>
                   ELSE IF IsSymbol(n) THEN Append(f[n - 1], SymbolAt(n)) ELSE f[n - 1]
      BY <1>2, <2>1, <2>2, <2>4 DEF Gathers
    <3> QED
      BY <3>1, <3>2
  <2> QED
    BY <2>3, <2>4
<1>5. Gathers(list, N, K, v)
  <2>1. \E f : Gathers(f, N, K, v)
    BY <1>2, <1>3, Gathering
  <2>2. \E f : IsList(f)
    BY <1>4, <2>1
  <2> HIDE DEF IsList
  <2>3. IsList(list)
    BY <2>2
  <2> QED
    BY <1>4, <2>3
<1> HIDE DEF list
<1>6. list \in [0..N -> Seq(Pairs)]
  BY <1>2, <1>3, <1>5, Gathering
<1>7. \A n \in 1..N : list[n] = IF IsSymbol(n) THEN Append(list[n - 1], SymbolAt(n)) ELSE list[n - 1]
  BY <1>2, <1>5 DEF Gathers
<1> QED
  BY <1>1, <1>5, <1>6, <1>7 DEF N, Gathers

(* Behind the common symbols there are none. *)
LEMMA NoneBehindCommon ==
  ASSUME Regular, map \in Maps, NEW c \in DOMAIN map, Mark(c, "*(COMMON)")
  PROVE  SymbolsTo(Len(map)) = SymbolsTo(c - 1)
<1> DEFINE N == Len(map)
           T == {n \in Nat : c - 1 + n <= N => SymbolsTo(c - 1 + n) = SymbolsTo(c - 1)}
<1>1. N \in Nat /\ c \in 1..N
  <2>1. map \in Seq(MapLine)
    BY MapAssumption
  <2> QED
    BY <2>1, LenProperties
<1> HIDE DEF N
<1>2. 0 \in T
  BY <1>1
<1>3. ASSUME NEW n \in Nat, n \in T PROVE n + 1 \in T
  <2> DEFINE k == c - 1 + (n + 1)
  <2>1. SUFFICES ASSUME k <= N PROVE SymbolsTo(k) = SymbolsTo(c - 1)
    OBVIOUS
  <2>2. k \in 1..N /\ c \in 1..k /\ k - 1 = c - 1 + n /\ c - 1 + n <= N
    BY <1>1, <2>1
  <2>3. SymbolsTo(k - 1) = SymbolsTo(c - 1)
    BY <1>3, <2>2
  <2> HIDE DEF k, T
  <2>4. ~IsSymbol(k)
    BY <2>2 DEF IsSymbol
  <2> QED
    BY <2>2, <2>3, <2>4, SymbolsUnfold DEF N
<1>4. N - (c - 1) \in Nat /\ c - 1 + (N - (c - 1)) = N
  BY <1>1
<1> HIDE DEF T
<1>5. \A n \in Nat : n \in T
  BY <1>2, <1>3, SetInduction
<1>6. N - (c - 1) \in T
  BY <1>4, <1>5
<1> QED
  BY <1>4, <1>6 DEF T, N

(***************************************************************************)
(* The inductive invariant of the lists: they hold the symbols of the      *)
(* lines behind the parser, none of them behind the common symbols.        *)
(***************************************************************************)
Zips(s, a, b) == Len(a) = Len(s) /\ Len(b) = Len(s) /\ \A k \in 1..Len(s) : s[k] = <<a[k], b[k]>>
Collected(n)  == Zips(SymbolsTo(n), Name, FunctionVirtualAddress)

CollectInv ==
  /\ at \in 1..(Len(map) + 1)
  /\ mpc = "lines" => \A j \in 1..(at - 1) : ~Mark(j, "*(COMMON)")
  /\ Regular => /\ mpc = "lines" => Collected(at - 1)
                /\ mpc = "write" => Collected(Len(map))
                /\ mpc = "defined" => defined = Symbols

MapInv == FlagInv /\ MapTypeInv /\ CollectInv

LEMMA SameSymbols ==
  ASSUME map' = map
  PROVE  /\ Regular' <=> Regular
         /\ Symbols' = Symbols /\ \A n : SymbolsTo(n)' = SymbolsTo(n)
         /\ SymbolsTo(at - 1)' = SymbolsTo(at' - 1) /\ SymbolsTo(Len(map))' = SymbolsTo(Len(map))
         /\ \A k, m : Mark(k, m)' <=> Mark(k, m)
BY DEF Regular, Symbols, SymbolsTo, SymbolAt, WordsAt, IsSymbol, IsFunction, IsData, TextAt, TextEnds,
       DataAt, BssAt, DataHeader, BssHeader, IsHeader, Mark, OneSection

LEMMA OneMore ==
  ASSUME NEW A, NEW B, NEW P, NEW s \in Seq(P), NEW e \in P,
         NEW a \in Seq(A), NEW b \in Seq(B), NEW x \in Seq(A), NEW y \in Seq(B),
         Zips(s, a, b), Len(x) = 1, Len(y) = 1, e = <<x[1], y[1]>>
  PROVE  Zips(Append(s, e), a \o x, b \o y)
<1> DEFINE n == Len(s)
           u == Append(s, e)
           c == a \o x
           d == b \o y
<1>1. n \in Nat /\ Len(a) = n /\ Len(b) = n /\ \A k \in 1..n : s[k] = <<a[k], b[k]>>
  BY LenProperties DEF Zips
<1>2. /\ Len(c) = n + 1 /\ Len(d) = n + 1
      /\ \A k \in 1..(n + 1) : c[k] = IF k <= n THEN a[k] ELSE x[k - n]
      /\ \A k \in 1..(n + 1) : d[k] = IF k <= n THEN b[k] ELSE y[k - n]
  <2>1. /\ Len(c) = Len(a) + Len(x)
        /\ \A k \in 1..(Len(a) + Len(x)) : c[k] = IF k <= Len(a) THEN a[k] ELSE x[k - Len(a)]
    BY ConcatProperties
  <2>2. /\ Len(d) = Len(b) + Len(y)
        /\ \A k \in 1..(Len(b) + Len(y)) : d[k] = IF k <= Len(b) THEN b[k] ELSE y[k - Len(b)]
    BY ConcatProperties
  <2> HIDE DEF n, c, d
  <2> QED
    BY <1>1, <2>1, <2>2
<1>3. Len(u) = n + 1 /\ u[n + 1] = e /\ \A k \in 1..n : u[k] = s[k]
  BY AppendProperties
<1> HIDE DEF n, u, c, d
<1>4. ASSUME NEW k \in 1..(n + 1) PROVE u[k] = <<c[k], d[k]>>
  <2>1. CASE k = n + 1
    <3>1. ~(k <= n) /\ k - n = 1
      BY <1>1, <2>1
    <3> QED
      BY <1>2, <1>3, <2>1, <3>1
  <2>2. CASE k # n + 1
    <3>1. k \in 1..n /\ k <= n
      BY <1>1, <2>2
    <3> QED
      BY <1>1, <1>2, <1>3, <3>1
  <2> QED
    BY <2>1, <2>2
<1>5. Zips(u, c, d)
  BY <1>2, <1>3, <1>4 DEF Zips
<1> QED
  BY <1>5 DEF u, c, d

(* The line the parser is at, once its words are in the lists. *)
LEMMA LineCollected ==
  ASSUME MapInv, Reading(TRUE), mpc' \in {"lines", "menu"},
         Regular /\ mpc' = "lines" =>
           IF IsSymbol(at)
           THEN /\ Name' = Name \o NamesOf(WordsAt(at))
                /\ FunctionVirtualAddress' = FunctionVirtualAddress \o AddrsOf(WordsAt(at))
           ELSE UNCHANGED <<Name, FunctionVirtualAddress>>
  PROVE  CollectInv'
<1>1. /\ mpc = "lines" /\ at' = at + 1 /\ map' = map /\ at <= Len(map) /\ ~Mark(at, "*(COMMON)")
      /\ map \in Maps
  BY DEF Reading, Has, Mark, line, MapInv, MapTypeInv
<1>2. Len(map) \in Nat /\ DOMAIN map = 1..Len(map) /\ at \in 1..Len(map)
  <2>1. map \in Seq(MapLine)
    BY <1>1, MapAssumption
  <2>2. Len(map) \in Nat /\ DOMAIN map = 1..Len(map)
    BY <2>1, LenProperties
  <2>3. at \in 1..(Len(map) + 1)
    BY DEF MapInv, CollectInv
  <2> QED
    BY <1>1, <2>2, <2>3
<1>3. at' \in 1..(Len(map') + 1) /\ at' - 1 = at
  BY <1>1, <1>2
<1>4. \A j \in 1..(at' - 1) : ~Mark(j, "*(COMMON)")'
  <2>1. \A j \in 1..at : j \in 1..(at - 1) \/ j = at
    BY <1>2
  <2> QED
    BY <1>1, <1>3, <2>1, SameSymbols DEF MapInv, CollectInv
<1>5. ASSUME Regular, mpc' = "lines" PROVE Zips(SymbolsTo(at), Name', FunctionVirtualAddress')
  <2>1. SymbolsTo(at) = IF IsSymbol(at) THEN Append(SymbolsTo(at - 1), SymbolAt(at))
                        ELSE SymbolsTo(at - 1)
    BY <1>1, <1>2, <1>5, SymbolsUnfold
  <2>2. Zips(SymbolsTo(at - 1), Name, FunctionVirtualAddress)
    BY <1>1, <1>5 DEF MapInv, CollectInv, Collected
  <2>3. CASE ~IsSymbol(at)
    BY <1>5, <2>1, <2>2, <2>3
  <2>4. CASE IsSymbol(at)
    <3>1. /\ WordsAt(at) \in Seq(Word) /\ SymbolAt(at) \in Pairs
          /\ Len(NamesOf(WordsAt(at))) = 1 /\ Len(AddrsOf(WordsAt(at))) = 1
      BY <1>1, <1>2, <1>5, <2>4, SymbolParts
    <3>2. /\ NamesOf(WordsAt(at)) \in Seq(MapNames) /\ AddrsOf(WordsAt(at)) \in Seq(Addresses)
          /\ SymbolAt(at) = <<NamesOf(WordsAt(at))[1], AddrsOf(WordsAt(at))[1]>>
      BY <3>1, ListTypes DEF SymbolAt
    <3>3. SymbolsTo(at - 1) \in Seq(Pairs)
      <4>1. at - 1 \in 0..Len(map)
        BY <1>2
      <4> QED
        BY <1>1, <1>5, <4>1, SymbolsUnfold
    <3>4. Name \in Seq(MapNames) /\ FunctionVirtualAddress \in Seq(Addresses)
      BY DEF MapInv, MapTypeInv, MapTypeOK, Addresses
    <3>5. Zips(Append(SymbolsTo(at - 1), SymbolAt(at)), Name \o NamesOf(WordsAt(at)),
               FunctionVirtualAddress \o AddrsOf(WordsAt(at)))
      BY <2>2, <3>1, <3>2, <3>3, <3>4, OneMore
    <3> QED
      BY <1>5, <2>1, <2>4, <3>5
  <2> QED
    BY <2>3, <2>4
<1>6. Regular' /\ mpc' = "lines" => Collected(at - 1)'
  <2>1. SUFFICES ASSUME Regular', mpc' = "lines" PROVE Collected(at - 1)'
    OBVIOUS
  <2>2. Regular /\ SymbolsTo(at - 1)' = SymbolsTo(at)
    BY <1>1, <1>3, <2>1, SameSymbols
  <2> QED
    BY <1>5, <2>1, <2>2 DEF Collected, Zips
<1>7. mpc' \in {"lines", "menu"}
  OBVIOUS
<1> QED
  BY <1>3, <1>4, <1>6, <1>7 DEF CollectInv

(* What the flags say once the line's own marks are seen. *)
LEMMA FlagsAtLine ==
  ASSUME MapInv, FlagInv', Reading(TRUE), Regular
  PROVE  /\ (text_sec_found' = 1) <=> TextAt(at + 1)
         /\ (data_sec_found' = 1) <=> DataAt(at + 1)
         /\ (bss_sec_found' = 1) <=> BssAt(at + 1)
         /\ at \in DOMAIN map
<1>1. map' = map /\ at' = at + 1
  BY DEF Reading
<1>2. (\A k \in DOMAIN map : OneSection(k))'
  BY <1>1, SameMap DEF Regular
<1>3. /\ (text_sec_found' = 1) = TextAt(at)' /\ (data_sec_found' = 1) = DataAt(at)'
      /\ (bss_sec_found' = 1) = BssAt(at)'
  BY <1>2 DEF FlagInv, FlagsTellPlace
<1>4. at \in DOMAIN map
  BY LenProperties DEF Reading, MapInv, FlagInv
<1> QED
  BY <1>1, <1>3, <1>4, SameMap

LEMMA PlainCollected ==
  ASSUME MapInv, Plain
  PROVE  CollectInv'
<1>1. Reading(TRUE) /\ ~IsSymbol(at)
  BY DEF Plain, Reading, IsSymbol, line
<1>2. UNCHANGED <<Name, FunctionVirtualAddress>> /\ mpc' = "lines"
  BY DEF Plain, Reading, table
<1> QED
  BY <1>1, <1>2, LineCollected

LEMMA HeaderCollected ==
  ASSUME MapInv, FlagInv', Header
  PROVE  CollectInv'
<1>1. Reading(TRUE) /\ HasAddr(map[at].words) /\ (OpensText \/ OpensData \/ OpensBss)
  BY DEF Header, Reading, line
<1>2. UNCHANGED <<Name, FunctionVirtualAddress>> /\ mpc' = "lines"
  BY DEF Header, Reading, table
<1>3. ASSUME Regular PROVE ~IsSymbol(at)
  <2>1. CASE OpensText
    <3>1. text_sec_found' = 1
      BY <2>1 DEF Header
    <3>2. TextAt(at + 1) /\ Mark(at, ".text")
      BY <1>1, <1>3, <2>1, <3>1, FlagsAtLine DEF OpensText, Has, Mark, line
    <3> QED
      BY <3>2 DEF IsSymbol, IsFunction, IsData
  <2>2. CASE OpensData \/ OpensBss
    BY <2>2 DEF OpensData, OpensBss, Has, Mark, line, IsSymbol
  <2> QED
    BY <1>1, <2>1, <2>2
<1> QED
  BY <1>1, <1>2, <1>3, LineCollected

LEMMA SymbolCollected ==
  ASSUME MapInv, FlagInv', Symbol
  PROVE  CollectInv'
<1>1. /\ Reading(TRUE) /\ HasAddr(map[at].words) /\ ~OpensText /\ ~OpensData /\ ~OpensBss
      /\ text_sec_found' = textHere /\ data_sec_found' = dataHere
      /\ bss_sec_found' = bss_sec_found /\ map \in Maps /\ mpc = "lines"
      /\ ~Mark(at, "*(COMMON)")
  BY DEF Symbol, Reading, line, MapInv, MapTypeInv, Has, Mark
<1>2. \/ mpc' = "menu"
      \/ /\ mpc' = "lines" /\ Name' = Name \o NamesOf(Taken)
         /\ FunctionVirtualAddress' = FunctionVirtualAddress \o AddrsOf(Taken)
  BY <1>1 DEF Symbol
<1>3. Name \o <<>> = Name /\ FunctionVirtualAddress \o <<>> = FunctionVirtualAddress
  <2>1. Name \in Seq(MapNames) /\ FunctionVirtualAddress \in Seq(Addresses)
    BY DEF MapInv, MapTypeInv, MapTypeOK, Addresses
  <2> QED
    BY <2>1, ConcatEmptySeq
<1>4. ASSUME Regular
      PROVE  IF IsSymbol(at) THEN Taken = WordsAt(at) ELSE Taken = <<>>
  <2>1. /\ textHere = 1 <=> TextAt(at + 1)
        /\ dataHere = 1 <=> DataAt(at + 1)
        /\ bss_sec_found = 1 <=> BssAt(at + 1)
        /\ at \in DOMAIN map
    BY <1>1, <1>4, FlagsAtLine
  <2>2. /\ InFunctions <=> TextAt(at + 1) /\ ~Mark(at, "../build/")
        /\ InData <=> (DataAt(at + 1) \/ BssAt(at + 1)) /\ ~Mark(at, "../build/")
    BY <2>1 DEF InFunctions, InData, Has, Mark, line
  <2>3. ~(TextAt(at + 1) /\ (DataAt(at + 1) \/ BssAt(at + 1)))
    BY <1>4, <2>1 DEF Regular
  <2>4. TextAt(at + 1) => ~Mark(at, ".text")
    BY <1>1, <2>1 DEF OpensText, Has, Mark, line
  <2>5. IsSymbol(at) <=> ~Mark(at, "../build/") /\ (IsFunction(at) \/ IsData(at))
    <3>1. \A j \in 1..at : ~Mark(j, "*(COMMON)")
      <4>1. \A j \in 1..(at - 1) : ~Mark(j, "*(COMMON)")
        BY <1>1 DEF MapInv, CollectInv
      <4>2. \A j \in 1..at : j \in 1..(at - 1) \/ j = at
        BY DEF MapInv, FlagInv
      <4> QED
        BY <1>1, <4>1, <4>2
    <3> QED
      BY <1>1, <3>1 DEF IsSymbol
  <2>6. /\ IsFunction(at) <=> TextAt(at + 1) /\ line.cut # NoCut
        /\ IsData(at) <=> (DataAt(at + 1) \/ BssAt(at + 1)) /\ ~TextAt(at + 1)
    BY <2>4 DEF IsFunction, IsData, line
  <2>7. CASE InFunctions
    <3>1. ~InData /\ (IsSymbol(at) <=> line.cut # NoCut) /\ (IsSymbol(at) => IsFunction(at))
      BY <2>2, <2>3, <2>5, <2>6, <2>7
    <3>2. CASE line.cut = NoCut
      BY <2>7, <3>1, <3>2 DEF Taken
    <3>3. CASE line.cut # NoCut
      <4>1. Taken = BeforeBracket(line) \o <<>>
        BY <2>7, <3>1, <3>3 DEF Taken
      <4>2. BeforeBracket(line) \in Seq(Word)
        BY <1>1, <2>1, <3>3, LineWords DEF line
      <4>3. Taken = BeforeBracket(line)
        BY <4>1, <4>2, ConcatEmptySeq
      <4> QED
        BY <3>1, <3>3, <4>3 DEF WordsAt, line
    <3> QED
      BY <3>2, <3>3
  <2>8. CASE ~InFunctions /\ InData
    <3>1. IsSymbol(at) /\ ~IsFunction(at)
      BY <2>2, <2>3, <2>5, <2>6, <2>8
    <3>2. Taken = <<>> \o UpToSecond(line.words)
      BY <2>8 DEF Taken
    <3>3. UpToSecond(line.words) \in Seq(Word)
      BY <1>1, <2>1, LineWords, UpToSecondType DEF line
    <3> QED
      BY <3>1, <3>2, <3>3, ConcatEmptySeq DEF WordsAt, line
  <2>9. CASE ~InFunctions /\ ~InData
    <3>1. ~IsSymbol(at)
      BY <2>2, <2>5, <2>6, <2>9
    <3>2. Taken = <<>> \o <<>>
      BY <2>9 DEF Taken
    <3>3. <<>> \in Seq(Word)
      BY EmptySeq
    <3> QED
      BY <3>1, <3>2, <3>3, ConcatEmptySeq
  <2> QED
    BY <2>7, <2>8, <2>9
<1>5. Regular /\ mpc' = "lines" =>
        IF IsSymbol(at)
        THEN /\ Name' = Name \o NamesOf(WordsAt(at))
             /\ FunctionVirtualAddress' = FunctionVirtualAddress \o AddrsOf(WordsAt(at))
        ELSE UNCHANGED <<Name, FunctionVirtualAddress>>
  BY <1>2, <1>3, <1>4, NoWords
<1> QED
  BY <1>1, <1>2, <1>5, LineCollected

LEMMA EndCollected ==
  ASSUME MapInv, EndOfMap
  PROVE  CollectInv'
<1>1. /\ mpc = "lines" /\ mpc' = "write" /\ map' = map /\ at' = at
      /\ Name' = Name /\ FunctionVirtualAddress' = FunctionVirtualAddress
      /\ at <= Len(map) => Mark(at, "*(COMMON)")
  BY DEF EndOfMap, table, Has, Mark, line
<1>2. Len(map) \in Nat /\ DOMAIN map = 1..Len(map) /\ map \in Maps
  BY LenProperties DEF MapInv, FlagInv, MapTypeInv
<1>3. at \in 1..(Len(map) + 1)
  BY DEF MapInv, CollectInv
<1>4. ASSUME Regular PROVE SymbolsTo(Len(map)) = SymbolsTo(at - 1)
  <2>1. CASE at <= Len(map)
    <3>1. at \in DOMAIN map /\ Mark(at, "*(COMMON)")
      BY <1>1, <1>2, <1>3, <2>1
    <3> QED
      BY <1>2, <1>4, <3>1, NoneBehindCommon
  <2>2. CASE ~(at <= Len(map))
    <3>1. at - 1 = Len(map)
      BY <1>2, <1>3, <2>2
    <3> QED
      BY <3>1
  <2> QED
    BY <2>1, <2>2
<1>5. ASSUME Regular' PROVE Collected(Len(map))'
  <2>1. Regular /\ SymbolsTo(Len(map))' = SymbolsTo(Len(map))
    BY <1>1, <1>5, SameSymbols
  <2>2. Zips(SymbolsTo(at - 1), Name, FunctionVirtualAddress)
    BY <1>1, <2>1 DEF MapInv, CollectInv, Collected
  <2> QED
    BY <1>1, <1>4, <2>1, <2>2 DEF Collected, Zips
<1>6. at' \in 1..(Len(map') + 1)
  BY <1>1, <1>3
<1> QED
  BY <1>1, <1>5, <1>6 DEF CollectInv

LEMMA WriteCollected ==
  ASSUME MapInv, WriteDefTable
  PROVE  CollectInv'
<1>1. /\ mpc = "write" /\ map' = map /\ at' = at
      /\ \/ mpc' = "undefined"
         \/ /\ mpc' = "defined"
            /\ defined' = [k \in DOMAIN Name |-> <<Name[k], FunctionVirtualAddress[k]>>]
  BY DEF WriteDefTable
<1>2. at' \in 1..(Len(map') + 1)
  BY <1>1 DEF MapInv, CollectInv
<1>3. ASSUME Regular', mpc' = "defined" PROVE defined' = Symbols'
  <2>1. Regular /\ Symbols' = SymbolsTo(Len(map))
    BY <1>1, <1>3, SameSymbols DEF Symbols
  <2>2. Zips(SymbolsTo(Len(map)), Name, FunctionVirtualAddress)
    BY <1>1, <2>1 DEF MapInv, CollectInv, Collected
  <2>3. SymbolsTo(Len(map)) \in Seq(Pairs)
    <3>1. map \in Maps /\ Len(map) \in 0..Len(map)
      BY LenProperties DEF MapInv, MapTypeInv, FlagInv
    <3> QED
      BY <2>1, <3>1, SymbolsUnfold
  <2>4. Name \in Seq(MapNames)
    BY DEF MapInv, MapTypeInv, MapTypeOK
  <2> DEFINE s == SymbolsTo(Len(map))
  <2>5. DOMAIN Name = 1..Len(s) /\ DOMAIN s = 1..Len(s)
    BY <2>2, <2>3, <2>4, LenProperties DEF Zips
  <2>6. s = [k \in 1..Len(s) |-> s[k]]
    <3> HIDE DEF s
    <3>1. s \in [1..Len(s) -> Pairs]
      BY <2>3, LenProperties DEF s
    <3> QED
      BY <3>1
  <2>7. \A k \in 1..Len(s) : s[k] = <<Name[k], FunctionVirtualAddress[k]>>
    BY <2>2 DEF Zips
  <2> HIDE DEF s
  <2>8. defined' = s
    BY <1>1, <1>3, <2>5, <2>6, <2>7
  <2> QED
    BY <2>1, <2>8 DEF s
<1> QED
  BY <1>1, <1>2, <1>3 DEF CollectInv

LEMMA InitMapInv == MapInit => MapInv
<1> SUFFICES ASSUME MapInit PROVE MapInv
  OBVIOUS
<1>1. FlagInv /\ MapTypeInv
  BY InitFlags, InitMapTypes
<1>2. /\ at = 1 /\ mpc = "lines" /\ Name = <<>> /\ FunctionVirtualAddress = <<>>
      /\ Len(map) \in Nat
  BY <1>1, LenProperties DEF MapInit, FlagInv
<1>3. at \in 1..(Len(map) + 1) /\ 1..(at - 1) = {} /\ at - 1 = 0
  BY <1>2
<1>4. ASSUME Regular PROVE Collected(at - 1)
  <2>1. SymbolsTo(at - 1) = <<>>
    BY <1>1, <1>3, <1>4, SymbolsUnfold DEF MapTypeInv
  <2> DEFINE s == SymbolsTo(at - 1)
  <2>2. Len(s) = 0 /\ Len(Name) = 0 /\ Len(FunctionVirtualAddress) = 0
    BY <1>2, <2>1
  <2> HIDE DEF s
  <2>3. Zips(s, Name, FunctionVirtualAddress)
    BY <2>2 DEF Zips
  <2> QED
    BY <2>3 DEF s, Collected
<1> QED
  BY <1>1, <1>2, <1>3, <1>4 DEF MapInv, CollectInv

LEMMA NextMapInv == MapInv /\ [MapNext]_mapVars => MapInv'
<1> SUFFICES ASSUME MapInv, [MapNext]_mapVars PROVE MapInv'
  OBVIOUS
<1>1. FlagInv' /\ MapTypeInv'
  BY NextFlags, NextMapTypes DEF MapInv
<1>2. ASSUME UNCHANGED mapVars PROVE CollectInv'
  <2>1. UNCHANGED <<map, at, Name, FunctionVirtualAddress, defined, mpc>>
    BY <1>2 DEF mapVars, table
  <2>2. /\ Regular' <=> Regular
        /\ Symbols' = Symbols
        /\ Collected(at - 1)' <=> Collected(at - 1)
        /\ Collected(Len(map))' <=> Collected(Len(map))
    BY <2>1, SameSymbols DEF Collected, Zips
  <2>3. \A j \in 1..(at - 1) : Mark(j, "*(COMMON)")' <=> Mark(j, "*(COMMON)")
    BY <2>1, SameSymbols
  <2> QED
    BY <2>1, <2>2, <2>3 DEF MapInv, CollectInv
<1>3. CollectInv'
  BY <1>1, <1>2, PlainCollected, HeaderCollected, SymbolCollected, EndCollected, WriteCollected
     DEF MapNext
<1> QED
  BY <1>1, <1>3 DEF MapInv

(* The #defines of a regular map are its symbols in their order, each with *)
(* its own address, for every map: the flags never let a line be taken     *)
(* that is no symbol, nor one be missed, and the list of names never gets  *)
(* ahead of the list of addresses or falls behind it.                      *)
THEOREM SymbolsAreDefined == MapSpec => []DefinesAreSymbols
<1>1. MapInv => DefinesAreSymbols
  BY DEF MapInv, CollectInv, DefinesAreSymbols
<1> QED
  BY <1>1, InitMapInv, NextMapInv, PTL DEF MapSpec

-----------------------------------------------------------------------------
(***************************************************************************)
(* What the byte pattern remover changes, for files of any length and      *)
(* patterns like those of main.                                            *)
(***************************************************************************)
(* A place that has been overwritten is its beginning and its length.      *)
Covers(place, k) == k \in place[1]..(place[1] + place[2] - 1)

(***************************************************************************)
(* The inductive invariant.  In a program whose beginnings of patterns are *)
(* whole patterns: what has been overwritten are patterns of the file; the *)
(* buffer differs from the file in these places only, and holds a jump in  *)
(* each of them; no pattern that has been passed was missed.               *)
(***************************************************************************)
PlacesArePatterns ==
  \A place \in places :
    \E k \in DOMAIN target, p \in Range(Patterns) : place = <<k, Len(p)>> /\ Occurs(k, p)

RestIsKept ==
  \A k \in DOMAIN target :
    buffer[k] = target[k] \/ \E place \in places : Covers(place, k)

PlacesAreJumps ==
  \A place \in places : \A k \in DOMAIN buffer :
    Covers(place, k) => buffer[k] = Jump(place[2])[k - place[1] + 1]

Passed(n, k) == n < l \/ (n = l /\ k < i)

NothingMissed ==
  \A n \in DOMAIN Patterns, k \in DOMAIN target :
    Passed(n, k) /\ Occurs(k, Patterns[n]) => <<k, Len(Patterns[n])>> \in places

Ended ==
  bpc = "written" => l = Len(Patterns) + 1 /\ result = SubSeq(buffer, 1, Len(target))

AllFound == PlacesArePatterns /\ RestIsKept /\ PlacesAreJumps /\ NothingMissed

PatternInv == PatternTypeOK /\ Ended /\ (Distinct => AllFound)

(***************************************************************************)
(* Patterns.                                                               *)
(***************************************************************************)
LEMMA PatternTypes ==
  /\ Len(Patterns) \in Nat /\ DOMAIN Patterns = 1..Len(Patterns)
  /\ Width \in Nat /\ Width >= 1
  /\ \A p \in Range(Patterns) : /\ p \in Seq(Byte) /\ Len(p) \in {6, 7} /\ Width <= Len(p)
                                /\ DOMAIN p = 1..Len(p)
  /\ \A n \in DOMAIN Patterns : Patterns[n] \in Range(Patterns)
<1>1. Len(Patterns) \in Nat /\ DOMAIN Patterns = 1..Len(Patterns)
  BY PatternAssumption, LenProperties
<1>2. \A n \in DOMAIN Patterns : Patterns[n] \in Range(Patterns)
  BY DEF Range
<1>3. ASSUME NEW p \in Range(Patterns)
      PROVE  p \in Seq(Byte) /\ Len(p) \in {6, 7} /\ Width <= Len(p) /\ DOMAIN p = 1..Len(p)
  <2>1. PICK n \in DOMAIN Patterns : p = Patterns[n]
    BY DEF Range
  <2>2. p \in Seq(Byte)
    BY <1>1, <2>1, PatternAssumption, ElementOfSeq
  <2>3. DOMAIN p = 1..Len(p)
    BY <2>2, LenProperties
  <2>4. Len(p) \in {6, 7} /\ Width \in 1..6
    BY PatternAssumption
  <2> QED
    BY <2>2, <2>3, <2>4
<1> QED
  BY <1>1, <1>2, <1>3, PatternAssumption

LEMMA JumpBytes ==
  ASSUME NEW n \in {6, 7}
  PROVE  /\ \A k \in 1..n : Jump(n)[k] \in {JMP, NOP, 4, 5} /\ Jump(n)[k] \in Byte
         /\ Jump(n)[1] = JMP /\ Jump(n)[2] = n - 2
         /\ Len(Jump(n)) = n
<1>1. Jump(n) \in [1..n -> {JMP, NOP, 4, 5}]
  BY DEF Jump
<1>2. Jump(n) \in Seq({JMP, NOP, 4, 5}) /\ DOMAIN Jump(n) = 1..n
  BY <1>1, SeqDef
<1>3. Len(Jump(n)) \in Nat /\ DOMAIN Jump(n) = 1..Len(Jump(n))
  BY <1>2, LenProperties
<1>4. Len(Jump(n)) = n
  BY <1>2, <1>3
<1>5. Jump(n)[1] = JMP /\ Jump(n)[2] = n - 2
  BY DEF Jump
<1> QED
  BY <1>1, <1>4, <1>5, PatternAssumption

(* Two patterns of the file do not overlap: the first byte of one is not   *)
(* inside the other.                                                       *)
LEMMA Apart ==
  ASSUME NEW j \in Nat, NEW k \in Nat, NEW p \in Range(Patterns), NEW q \in Range(Patterns),
         Occurs(j, p), Occurs(k, q), j < k
  PROVE  j + Len(p) <= k
<1>1. SUFFICES ASSUME k < j + Len(p) PROVE FALSE
  BY PatternTypes
<1> DEFINE m == k - j + 1
<1>2. m \in 2..Len(p) /\ j + m - 1 = k
  BY <1>1, PatternTypes
<1> HIDE DEF m
<1>3. target[k] = p[m]
  <2>1. m \in DOMAIN p
    BY <1>2, PatternTypes
  <2>2. target[j + m - 1] = p[m]
    BY <2>1 DEF Occurs
  <2> QED
    BY <1>2, <2>2
<1>4. target[k] = q[1]
  <2>1. 1 \in DOMAIN q /\ k + 1 - 1 = k
    BY PatternTypes
  <2>2. target[k + 1 - 1] = q[1]
    BY <2>1 DEF Occurs
  <2> QED
    BY <2>1, <2>2
<1> QED
  BY <1>2, <1>3, <1>4, FsPrefixAssumption

LEMMA SamePattern ==
  ASSUME NEW k \in Nat, NEW p \in Range(Patterns), NEW q \in Range(Patterns),
         Occurs(k, p), Occurs(k, q)
  PROVE  p = q
<1>1. \A j \in 1..Width : j \in DOMAIN p /\ j \in DOMAIN q
  BY PatternTypes
<1>2. \A j \in 1..Width : p[j] = q[j]
  BY <1>1 DEF Occurs
<1> QED
  BY <1>2, FsPrefixAssumption

(***************************************************************************)
(* Types and the initial state.                                            *)
(***************************************************************************)
LEMMA FileTypes ==
  ASSUME PatternTypeOK
  PROVE  /\ Len(target) \in Nat /\ DOMAIN target = 1..Len(target)
         /\ Len(buffer) \in Nat /\ DOMAIN buffer = 1..Len(buffer)
         /\ \A k \in DOMAIN target : k \in DOMAIN buffer
         /\ l \in Nat /\ i \in Nat /\ i >= 1
<1>1. Len(target) \in Nat /\ DOMAIN target = 1..Len(target)
  BY LenProperties DEF PatternTypeOK
<1>2. Len(buffer) \in Nat /\ DOMAIN buffer = 1..Len(buffer)
  BY LenProperties DEF PatternTypeOK
<1> QED
  BY <1>1, <1>2, PatternTypes DEF PatternTypeOK

LEMMA Scanned ==
  ASSUME PatternTypeOK, Scanning
  PROVE  /\ l \in DOMAIN Patterns /\ i \in DOMAIN target
         /\ Patterns[l] \in Range(Patterns) /\ Len(Patterns[l]) \in {6, 7}
<1>1. l \in DOMAIN Patterns /\ i \in DOMAIN target
  BY FileTypes, PatternTypes DEF Scanning, PatternTypeOK
<1>2. Patterns[l] \in Range(Patterns)
  BY <1>1, PatternTypes
<1> QED
  BY <1>1, <1>2, PatternTypes

LEMMA InitFound == PatternInit => PatternInv
<1> SUFFICES ASSUME PatternInit PROVE PatternInv
  OBVIOUS
<1>1. target \in Seq(Byte)
  BY PatternAssumption DEF PatternInit
<1>2. PICK b \in Behind : buffer = target \o b
  BY DEF PatternInit
<1>3. b \in Seq(Byte) /\ Len(b) \in Nat /\ Len(target) \in Nat /\ DOMAIN target = 1..Len(target)
  BY <1>1, PatternAssumption, LenProperties
<1>4. /\ buffer \in Seq(Byte) /\ Len(buffer) = Len(target) + Len(b)
      /\ \A k \in 1..(Len(target) + Len(b)) :
           buffer[k] = IF k <= Len(target) THEN target[k] ELSE b[k - Len(target)]
  BY <1>1, <1>2, <1>3, ConcatProperties
<1>5. PatternTypeOK
  BY <1>1, <1>3, <1>4, PatternTypes, EmptySeq DEF PatternInit, PatternTypeOK
<1>6. RestIsKept
  BY <1>3, <1>4 DEF RestIsKept
<1>7. NothingMissed
  <2>1. l = 1 /\ i = 1
    BY DEF PatternInit
  <2>2. ASSUME NEW n \in DOMAIN Patterns, NEW k \in DOMAIN target PROVE ~Passed(n, k)
    BY <1>3, <2>1, PatternTypes DEF Passed
  <2> QED
    BY <2>2 DEF NothingMissed
<1>8. PlacesArePatterns /\ PlacesAreJumps /\ Ended
  BY DEF PatternInit, PlacesArePatterns, PlacesAreJumps, Ended
<1> QED
  BY <1>5, <1>6, <1>7, <1>8 DEF PatternInv, AllFound

(***************************************************************************)
(* A match.  What is compared has not been overwritten, for none of these  *)
(* bytes is one of a jump; so the pattern begins in the file, too.         *)
(***************************************************************************)
LEMMA MatchOccurs ==
  ASSUME PatternTypeOK, Distinct, AllFound, Match
  PROVE  /\ Occurs(i, Patterns[l])
         /\ \A place \in places : place[1] # i
<1> DEFINE p == Patterns[l]
<1>1. /\ l \in DOMAIN Patterns /\ i \in DOMAIN target
      /\ Matches(buffer, p, i)
  BY Scanned DEF Match
<1>2. p \in Range(Patterns)
  BY Scanned DEF Match
<1> HIDE DEF p
<1>3. ASSUME NEW k \in DOMAIN target, NEW place \in places, Covers(place, k)
      PROVE  buffer[k] \in {JMP, NOP, 4, 5}
  <2>1. PICK m \in DOMAIN target, q \in Range(Patterns) : place = <<m, Len(q)>>
    BY DEF AllFound, PlacesArePatterns
  <2>2. place[1] = m /\ place[2] = Len(q) /\ place[2] \in {6, 7} /\ m \in Nat
    <3>1. Len(q) \in {6, 7} /\ m \in Nat
      BY PatternTypes, FileTypes
    <3> QED
      BY <2>1, <3>1
  <2>3. k - place[1] + 1 \in 1..place[2]
    BY <1>3, <2>2, FileTypes DEF Covers
  <2>4. buffer[k] = Jump(place[2])[k - place[1] + 1]
    BY <1>3, FileTypes DEF AllFound, PlacesAreJumps
  <2> QED
    BY <2>2, <2>3, <2>4, JumpBytes
<1>4. ASSUME NEW j \in 1..Width, i + j - 1 \in DOMAIN target
      PROVE  /\ target[i + j - 1] = p[j]
             /\ \A place \in places : ~Covers(place, i + j - 1)
  <2>1. buffer[i + j - 1] = p[j]
    BY <1>1 DEF Matches
  <2>2. p[j] \notin {JMP, NOP, 4, 5}
    BY <1>2, FsPrefixAssumption
  <2>3. \A place \in places : ~Covers(place, i + j - 1)
    BY <1>3, <1>4, <2>1, <2>2
  <2> QED
    BY <1>4, <2>1, <2>3 DEF AllFound, RestIsKept
<1>5. Begins(i, p)
  <2>1. SUFFICES ASSUME NEW j \in 1..Width, i + j - 1 <= Len(target)
                 PROVE  target[i + j - 1] = p[j]
    BY DEF Begins
  <2>2. i + j - 1 \in DOMAIN target
    BY <1>1, <2>1, FileTypes, PatternTypes
  <2> QED
    BY <1>4, <2>2
<1>6. Occurs(i, p)
  BY <1>1, <1>2, <1>5 DEF Distinct
<1>7. ASSUME NEW place \in places, place[1] = i PROVE FALSE
  <2>1. PICK m \in DOMAIN target, q \in Range(Patterns) : place = <<m, Len(q)>>
    BY DEF AllFound, PlacesArePatterns
  <2>2. Covers(place, i)
    BY <1>7, <2>1, FileTypes, PatternTypes DEF Covers
  <2>3. 1 \in 1..Width /\ i + 1 - 1 = i
    BY PatternTypes, FileTypes
  <2> QED
    BY <1>1, <1>4, <2>2, <2>3
<1> QED
  BY <1>6, <1>7 DEF p

LEMMA MatchTypes ==
  ASSUME PatternTypeOK, Match, NEW n, n = Len(Patterns[l])
  PROVE  /\ PatternTypeOK'
         /\ Len(buffer') = Len(buffer)
         /\ \A k \in DOMAIN buffer :
              buffer'[k] = IF k \in i..(i + n - 1) THEN Jump(n)[k - i + 1] ELSE buffer[k]
<1> DEFINE p == Patterns[l]
<1>1. l \in DOMAIN Patterns /\ i \in DOMAIN target
  BY Scanned DEF Match
<1>2. Len(p) \in {6, 7} /\ Len(Jump(Len(p))) = Len(p) /\ n = Len(p)
  BY Scanned, JumpBytes DEF Match
<1> HIDE DEF p
<1>3. buffer' = [k \in DOMAIN buffer |->
                   IF k \in i..(i + n - 1) THEN Jump(n)[k - i + 1] ELSE buffer[k]]
  BY <1>2 DEF Match, Overwrite, p
<1>4. n \in {6, 7}
  BY <1>2
<1>5. ASSUME NEW k \in DOMAIN buffer
      PROVE  (IF k \in i..(i + n - 1) THEN Jump(n)[k - i + 1] ELSE buffer[k]) \in Byte
  <2>1. CASE k \in i..(i + n - 1)
    <3>1. k - i + 1 \in 1..n
      BY <1>4, <2>1, FileTypes
    <3> QED
      BY <1>4, <2>1, <3>1, JumpBytes
  <2>2. CASE k \notin i..(i + n - 1)
    BY <2>2, FileTypes, ElementOfSeq DEF PatternTypeOK
  <2> QED
    BY <2>1, <2>2
<1>6. buffer' \in [1..Len(buffer) -> Byte]
  BY <1>3, <1>5, FileTypes
<1>7. buffer' \in Seq(Byte) /\ DOMAIN buffer' = 1..Len(buffer)
  BY <1>6, FileTypes, SeqDef
<1>8. Len(buffer') = Len(buffer)
  <2>1. Len(buffer') \in Nat /\ DOMAIN buffer' = 1..Len(buffer')
    BY <1>7, LenProperties
  <2> QED
    BY <1>7, <2>1, FileTypes
<1>9. <<i, Len(Patterns[l])>> \in Nat \X Nat
  BY <1>4, FileTypes
<1>10. i + 1 \in 1..(Len(target) + 1)
  BY <1>1, FileTypes
<1>11. /\ UNCHANGED <<target, l, result, bpc>> /\ i' = i + 1
       /\ places' = places \union {<<i, Len(Patterns[l])>>}
  BY DEF Match
<1>12. PatternTypeOK'
  BY <1>7, <1>8, <1>9, <1>10, <1>11 DEF PatternTypeOK
<1>13. \A k \in DOMAIN buffer :
         buffer'[k] = IF k \in i..(i + n - 1) THEN Jump(n)[k - i + 1] ELSE buffer[k]
  BY <1>3, Zenon
<1> QED
  BY <1>8, <1>12, <1>13, Zenon

LEMMA MatchFound ==
  ASSUME PatternInv, Match
  PROVE  PatternInv'
<1> DEFINE p == Patterns[l]
           new == <<i, Len(p)>>
<1>1. /\ UNCHANGED <<target, l, result, bpc>> /\ i' = i + 1
      /\ places' = places \union {new} /\ bpc = "scan"
  BY DEF Match, Scanning
<1>2. PatternTypeOK /\ Ended'
  BY <1>1 DEF PatternInv, Ended
<1>3. p \in Range(Patterns) /\ Len(p) \in {6, 7} /\ i \in DOMAIN target /\ l \in DOMAIN Patterns
  BY <1>2, Scanned DEF Match
<1> HIDE DEF p
<1>4. new[1] = i /\ new[2] = Len(p)
  OBVIOUS
<1> HIDE DEF new
<1>5. /\ DOMAIN buffer' = DOMAIN buffer
      /\ \A k \in DOMAIN buffer :
           buffer'[k] = IF Covers(new, k) THEN Jump(Len(p))[k - i + 1] ELSE buffer[k]
  <2>1. DOMAIN buffer' = 1..Len(buffer') /\ Len(buffer') = Len(buffer)
    BY <1>2, MatchTypes, LenProperties DEF PatternTypeOK
  <2> QED
    BY <1>2, <1>4, <2>1, FileTypes, MatchTypes DEF Covers, p
<1>6. ASSUME Distinct' PROVE AllFound'
  <2>1. Distinct /\ AllFound /\ \A k, q : Occurs(k, q)' <=> Occurs(k, q)
    BY <1>1, <1>6 DEF Distinct, Begins, Occurs, PatternInv
  <2>2. Occurs(i, p) /\ \A place \in places : place[1] # i
    BY <1>2, <2>1, MatchOccurs DEF p
  <2>3. PlacesArePatterns'
    <3>1. new = <<i, Len(p)>>
      BY DEF new
    <3> QED
      BY <1>1, <1>3, <2>1, <2>2, <3>1 DEF AllFound, PlacesArePatterns
  <2>4. RestIsKept'
    BY <1>1, <1>2, <1>5, <2>1, FileTypes DEF AllFound, RestIsKept, Covers
  <2>5. ASSUME NEW place \in places, NEW k \in DOMAIN buffer, Covers(place, k)
        PROVE  ~Covers(new, k)
    <3>1. PICK m \in DOMAIN target, q \in Range(Patterns) : place = <<m, Len(q)>> /\ Occurs(m, q)
      BY <2>1 DEF AllFound, PlacesArePatterns
    <3>2. /\ place[1] = m /\ place[2] = Len(q) /\ m # i
          /\ m \in Nat /\ i \in Nat /\ k \in Nat /\ Len(q) \in Nat /\ Len(p) \in Nat
      BY <1>2, <1>3, <2>2, <3>1, FileTypes, PatternTypes
    <3>3. m + Len(q) <= i \/ i + Len(p) <= m
      BY <1>3, <2>2, <3>1, <3>2, Apart
    <3> QED
      BY <1>4, <2>5, <3>2, <3>3 DEF Covers
  <2>6. PlacesAreJumps'
    <3>1. ASSUME NEW place \in places', NEW k \in DOMAIN buffer', Covers(place, k)
          PROVE  buffer'[k] = Jump(place[2])[k - place[1] + 1]
      <4>1. CASE place = new
        BY <1>4, <1>5, <3>1, <4>1
      <4>2. CASE place \in places
        BY <1>5, <2>1, <2>5, <3>1, <4>2 DEF AllFound, PlacesAreJumps
      <4> QED
        BY <1>1, <4>1, <4>2
    <3> QED
      BY <3>1 DEF PlacesAreJumps, Covers
  <2>7. NothingMissed'
    <3>1. ASSUME NEW n \in DOMAIN Patterns, NEW k \in DOMAIN target,
                 Passed(n, k)', Occurs(k, Patterns[n])
          PROVE  <<k, Len(Patterns[n])>> \in places'
      <4>1. CASE Passed(n, k)
        BY <1>1, <2>1, <3>1, <4>1 DEF AllFound, NothingMissed
      <4>2. CASE ~Passed(n, k)
        <5>1. n = l /\ k = i
          BY <1>1, <1>2, <3>1, <4>2, FileTypes, PatternTypes DEF Passed
        <5> QED
          BY <1>1, <5>1 DEF new, p
      <4> QED
        BY <4>1, <4>2
    <3> QED
      BY <1>1, <2>1, <3>1 DEF NothingMissed
  <2> QED
    BY <2>3, <2>4, <2>6, <2>7 DEF AllFound
<1> QED
  BY <1>2, <1>6, MatchTypes DEF PatternInv

(***************************************************************************)
(* No match.  A pattern of the file that is not found has been overwritten *)
(* already, and so it has been found.                                      *)
(***************************************************************************)
LEMMA MissedIsFound ==
  ASSUME PatternTypeOK, Distinct, AllFound, NoMatch, Occurs(i, Patterns[l])
  PROVE  <<i, Len(Patterns[l])>> \in places
<1> DEFINE p == Patterns[l]
<1>1. /\ l \in DOMAIN Patterns /\ i \in DOMAIN target
      /\ ~Matches(buffer, p, i)
  BY Scanned DEF NoMatch
<1>2. p \in Range(Patterns) /\ Occurs(i, p)
  BY Scanned DEF NoMatch
<1> HIDE DEF p
<1>3. ASSUME NEW j \in 1..Width
      PROVE  /\ i + j - 1 \in DOMAIN target /\ i + j - 1 \in DOMAIN buffer
             /\ j \in DOMAIN p /\ target[i + j - 1] = p[j]
  <2>1. j \in DOMAIN p /\ Len(p) \in Nat /\ j <= Len(p) /\ j \in Nat /\ j >= 1
    BY <1>2, PatternTypes
  <2>2. i + j - 1 \in DOMAIN target
    BY <1>1, <1>2, <2>1, FileTypes DEF Occurs
  <2> QED
    BY <1>2, <2>1, <2>2, FileTypes DEF Occurs
<1>4. PICK j \in 1..Width : buffer[i + j - 1] # p[j]
  BY <1>1, <1>3 DEF Matches
<1>5. PICK place \in places : Covers(place, i + j - 1)
  BY <1>3, <1>4 DEF AllFound, RestIsKept
<1>6. PICK m \in DOMAIN target, q \in Range(Patterns) : place = <<m, Len(q)>> /\ Occurs(m, q)
  BY <1>5 DEF AllFound, PlacesArePatterns
<1>7. m = i
  <2>1. m \in Nat /\ i \in Nat /\ j \in Nat /\ j >= 1 /\ Len(q) \in Nat /\ Len(p) \in Nat /\ j <= Len(p)
    BY <1>2, <1>6, FileTypes, PatternTypes
  <2>2. m <= i + j - 1 /\ i + j - 1 < m + Len(q)
    BY <1>5, <1>6, <2>1 DEF Covers
  <2>3. ~(m + Len(q) <= i) /\ ~(i + Len(p) <= m)
    BY <2>1, <2>2
  <2> QED
    BY <1>2, <1>6, <2>1, <2>3, Apart
<1>8. q = p
  BY <1>2, <1>6, <1>7, SamePattern, FileTypes
<1> QED
  BY <1>6, <1>7, <1>8 DEF p

LEMMA NoMatchFound ==
  ASSUME PatternInv, NoMatch
  PROVE  PatternInv'
<1>1. UNCHANGED <<target, buffer, l, places, result, bpc>> /\ i' = i + 1
  BY DEF NoMatch
<1>2. PatternTypeOK /\ PatternTypeOK' /\ Ended'
  <2>1. PatternTypeOK /\ i \in 1..Len(target)
    BY FileTypes DEF PatternInv, NoMatch, Scanning, PatternTypeOK
  <2>2. i + 1 \in 1..(Len(target) + 1)
    BY <2>1, FileTypes
  <2> QED
    BY <1>1, <2>1, <2>2 DEF PatternInv, PatternTypeOK, Ended
<1>3. ASSUME Distinct' PROVE AllFound'
  <2>1. Distinct /\ AllFound /\ \A k, q : Occurs(k, q)' <=> Occurs(k, q)
    BY <1>1, <1>3 DEF Distinct, Begins, Occurs, PatternInv
  <2>2. PlacesArePatterns' /\ RestIsKept' /\ PlacesAreJumps'
    BY <1>1, <2>1 DEF AllFound, PlacesArePatterns, RestIsKept, PlacesAreJumps
  <2>3. ASSUME NEW n \in DOMAIN Patterns, NEW k \in DOMAIN target,
               Passed(n, k)', Occurs(k, Patterns[n])
        PROVE  <<k, Len(Patterns[n])>> \in places
    <3>1. CASE Passed(n, k)
      BY <2>1, <2>3, <3>1 DEF AllFound, NothingMissed
    <3>2. CASE ~Passed(n, k)
      <4>1. n = l /\ k = i
        BY <1>1, <1>2, <2>3, <3>2, FileTypes, PatternTypes DEF Passed
      <4> QED
        BY <1>2, <2>1, <2>3, <4>1, MissedIsFound
    <3> QED
      BY <3>1, <3>2
  <2>4. NothingMissed'
    BY <1>1, <2>1, <2>3 DEF NothingMissed
  <2> QED
    BY <2>2, <2>4 DEF AllFound
<1> QED
  BY <1>2, <1>3 DEF PatternInv

(***************************************************************************)
(* The other steps.                                                        *)
(***************************************************************************)
LEMMA NextPatternFound ==
  ASSUME PatternInv, NextPattern
  PROVE  PatternInv'
<1>1. /\ UNCHANGED <<target, buffer, places, result, bpc>> /\ l' = l + 1 /\ i' = 1
      /\ bpc = "scan" /\ l <= Len(Patterns) /\ i > Len(target)
  BY DEF NextPattern
<1>2. PatternTypeOK /\ PatternTypeOK' /\ Ended'
  <2>1. PatternTypeOK
    BY DEF PatternInv
  <2>2. l + 1 \in 1..(Len(Patterns) + 1) /\ 1 \in 1..(Len(target) + 1)
    BY <1>1, <2>1, FileTypes, PatternTypes
  <2> QED
    BY <1>1, <2>1, <2>2 DEF PatternTypeOK, Ended
<1>3. ASSUME Distinct' PROVE AllFound'
  <2>1. Distinct /\ AllFound /\ \A k, q : Occurs(k, q)' <=> Occurs(k, q)
    BY <1>1, <1>3 DEF Distinct, Begins, Occurs, PatternInv
  <2>2. PlacesArePatterns' /\ RestIsKept' /\ PlacesAreJumps'
    BY <1>1, <2>1 DEF AllFound, PlacesArePatterns, RestIsKept, PlacesAreJumps
  <2>3. ASSUME NEW n \in DOMAIN Patterns, NEW k \in DOMAIN target, Passed(n, k)'
        PROVE  Passed(n, k)
    BY <1>1, <1>2, <2>3, FileTypes, PatternTypes DEF Passed
  <2>4. NothingMissed'
    BY <1>1, <2>1, <2>3 DEF AllFound, NothingMissed
  <2> QED
    BY <2>2, <2>4 DEF AllFound
<1> QED
  BY <1>2, <1>3 DEF PatternInv

LEMMA ResultType ==
  ASSUME PatternTypeOK
  PROVE  LET r == SubSeq(buffer, 1, Len(target)) IN
         /\ r \in Seq(Byte) /\ Len(r) = Len(target)
         /\ \A k \in DOMAIN target : r[k] = buffer[k]
<1> DEFINE n == Len(target)
<1>1. n \in Nat /\ DOMAIN target = 1..n
  BY FileTypes
<1>2. \A k \in 1..n : buffer[k] \in Byte
  BY <1>1, FileTypes, ElementOfSeq DEF PatternTypeOK
<1> HIDE DEF n
<1>3. /\ SubSeq(buffer, 1, n) \in Seq(Byte)
      /\ Len(SubSeq(buffer, 1, n)) = IF 1 <= n THEN n - 1 + 1 ELSE 0
      /\ \A k \in 1..(n - 1 + 1) : SubSeq(buffer, 1, n)[k] = buffer[1 + k - 1]
  BY <1>1, <1>2, SubSeqProperties
<1>4. Len(SubSeq(buffer, 1, n)) = n
  BY <1>1, <1>3
<1>5. \A k \in 1..n : k \in 1..(n - 1 + 1) /\ 1 + k - 1 = k
  BY <1>1
<1> QED
  BY <1>1, <1>3, <1>4, <1>5 DEF n

LEMMA WriteTestFound ==
  ASSUME PatternInv, WriteTest
  PROVE  PatternInv'
<1>1. /\ UNCHANGED <<target, buffer, l, i, places>>
      /\ result' = SubSeq(buffer, 1, Len(target)) /\ bpc' = "written"
      /\ l <= Len(Patterns) => Len(Patterns[l]) < Width
  BY DEF WriteTest
<1>2. PatternTypeOK
  BY DEF PatternInv
<1>3. l = Len(Patterns) + 1
  <2>1. l \in 1..(Len(Patterns) + 1)
    BY <1>2 DEF PatternTypeOK
  <2>2. ASSUME l <= Len(Patterns) PROVE FALSE
    <3>1. l \in DOMAIN Patterns
      BY <2>1, <2>2, PatternTypes
    <3>2. Len(Patterns[l]) \in {6, 7} /\ Width <= Len(Patterns[l])
      BY <3>1, PatternTypes
    <3> QED
      BY <1>1, <2>2, <3>2, PatternTypes
  <2> QED
    BY <2>1, <2>2, PatternTypes
<1>4. PatternTypeOK' /\ Ended'
  BY <1>1, <1>2, <1>3, ResultType DEF PatternTypeOK, Ended
<1>5. ASSUME Distinct' PROVE AllFound'
  <2>1. Distinct /\ AllFound /\ \A k, q : Occurs(k, q)' <=> Occurs(k, q)
    BY <1>1, <1>5 DEF Distinct, Begins, Occurs, PatternInv
  <2> QED
    BY <1>1, <2>1 DEF AllFound, PlacesArePatterns, RestIsKept, PlacesAreJumps, NothingMissed, Passed
<1> QED
  BY <1>4, <1>5 DEF PatternInv

LEMMA SameFound ==
  ASSUME PatternInv, UNCHANGED patternVars
  PROVE  PatternInv'
<1>1. UNCHANGED <<target, buffer, l, i, places, result, bpc>>
  BY DEF patternVars
<1>2. PatternTypeOK' /\ Ended'
  BY <1>1 DEF PatternInv, PatternTypeOK, Ended
<1>3. ASSUME Distinct' PROVE AllFound'
  <2>1. Distinct /\ AllFound /\ \A k, q : Occurs(k, q)' <=> Occurs(k, q)
    BY <1>1, <1>3 DEF Distinct, Begins, Occurs, PatternInv
  <2> QED
    BY <1>1, <2>1 DEF AllFound, PlacesArePatterns, RestIsKept, PlacesAreJumps, NothingMissed, Passed
<1> QED
  BY <1>2, <1>3 DEF PatternInv

LEMMA NextFound == PatternInv /\ [PatternNext]_patternVars => PatternInv'
BY MatchFound, NoMatchFound, NextPatternFound, WriteTestFound, SameFound DEF PatternNext

LEMMA AlwaysFound == PatternSpec => []PatternInv
BY InitFound, NextFound, PTL DEF PatternSpec

(***************************************************************************)
(* Theorems.                                                               *)
(***************************************************************************)
(* Every step of the remover keeps every variable in its type.             *)
THEOREM PatternTypeCorrect == PatternSpec => []PatternTypeOK
<1>1. PatternInv => PatternTypeOK
  BY DEF PatternInv
<1> QED
  BY <1>1, AlwaysFound, PTL

(* Nothing behind the buffer is overwritten in a program in which all      *)
(* beginnings of patterns are whole patterns.                              *)
THEOREM StaysInside == PatternSpec => []InsideTheFile
<1>1. ASSUME PatternInv PROVE InsideTheFile
  <2>1. SUFFICES ASSUME Distinct, NEW place \in places
                 PROVE  place[1] + place[2] - 1 <= Len(target)
    BY DEF InsideTheFile
  <2>2. PICK k \in DOMAIN target, p \in Range(Patterns) : place = <<k, Len(p)>> /\ Occurs(k, p)
    BY <1>1, <2>1 DEF PatternInv, AllFound, PlacesArePatterns
  <2> QED
    BY <2>2 DEF Occurs
<1> QED
  BY <1>1, AlwaysFound, PTL

(* Each pattern of such a program, and nothing else, becomes a jump to the *)
(* byte behind it, although only its first bytes are compared and each     *)
(* pattern is looked for in what earlier ones have changed.                *)
THEOREM PatternsBecomeJumps == PatternSpec => []OnlyPatternsChange
<1>1. ASSUME PatternInv PROVE OnlyPatternsChange
  <2>1. SUFFICES ASSUME bpc = "written", Distinct
                 PROVE  /\ Len(result) = Len(target)
                        /\ \A k \in DOMAIN target, p \in Range(Patterns) : Occurs(k, p) =>
                             result[k] = JMP /\ k + 2 + result[k + 1] = k + Len(p)
                        /\ \A k \in DOMAIN target : result[k] # target[k] =>
                             \E j \in DOMAIN target, p \in Range(Patterns) :
                               Occurs(j, p) /\ k \in j..(j + Len(p) - 1)
    BY DEF OnlyPatternsChange
  <2>2. /\ PatternTypeOK /\ AllFound /\ l = Len(Patterns) + 1
        /\ Len(result) = Len(target) /\ \A k \in DOMAIN target : result[k] = buffer[k]
    BY <1>1, <2>1, ResultType DEF PatternInv, Ended
  <2>3. ASSUME NEW k \in DOMAIN target, NEW p \in Range(Patterns), Occurs(k, p)
        PROVE  result[k] = JMP /\ k + 2 + result[k + 1] = k + Len(p)
    <3> DEFINE place == <<k, Len(p)>>
    <3>1. PICK n \in DOMAIN Patterns : p = Patterns[n]
      BY DEF Range
    <3>2. Passed(n, k)
      BY <2>2, PatternTypes DEF Passed
    <3>3. place \in places /\ place[1] = k /\ place[2] = Len(p)
      BY <2>2, <2>3, <3>1, <3>2 DEF AllFound, NothingMissed
    <3>4. Len(p) \in {6, 7} /\ k \in Nat /\ k >= 1
      BY <2>2, FileTypes, PatternTypes
    <3>5. k \in DOMAIN target /\ k + 1 \in DOMAIN target
      <4>1. k + Len(p) - 1 <= Len(target) /\ Len(target) \in Nat /\ DOMAIN target = 1..Len(target)
        BY <2>2, <2>3, FileTypes DEF Occurs
      <4>2. ASSUME NEW m \in {6, 7}, NEW t \in Nat, k + m - 1 <= t
            PROVE  k + 1 <= t
        BY <3>4, <4>2
      <4>3. k + 1 <= Len(target)
        BY <3>4, <4>1, <4>2
      <4> QED
        BY <3>4, <4>1, <4>3
    <3> HIDE DEF place
    <3>6. Covers(place, k) /\ Covers(place, k + 1)
      <4>1. ASSUME NEW m \in {6, 7}
            PROVE  k \in k..(k + m - 1) /\ k + 1 \in k..(k + m - 1)
        BY <3>4, <4>1
      <4> QED
        BY <3>3, <3>4, <4>1 DEF Covers
    <3>7. result[k] = Jump(Len(p))[k - k + 1] /\ result[k + 1] = Jump(Len(p))[k + 1 - k + 1]
      <4>1. k \in DOMAIN buffer /\ k + 1 \in DOMAIN buffer
        BY <2>2, <3>5, FileTypes
      <4>2. /\ buffer[k] = Jump(place[2])[k - place[1] + 1]
            /\ buffer[k + 1] = Jump(place[2])[k + 1 - place[1] + 1]
        BY <2>2, <3>3, <3>6, <4>1 DEF AllFound, PlacesAreJumps
      <4> QED
        BY <2>2, <3>3, <3>5, <4>2
    <3>8. k - k + 1 = 1 /\ k + 1 - k + 1 = 2
      BY <3>4
    <3>9. result[k] = JMP /\ result[k + 1] = Len(p) - 2
      BY <3>4, <3>7, <3>8, JumpBytes
    <3> QED
      BY <3>4, <3>9
  <2>4. ASSUME NEW k \in DOMAIN target, result[k] # target[k]
        PROVE  \E j \in DOMAIN target, p \in Range(Patterns) :
                 Occurs(j, p) /\ k \in j..(j + Len(p) - 1)
    <3>1. PICK place \in places : Covers(place, k)
      BY <2>2, <2>4 DEF AllFound, RestIsKept
    <3>2. PICK j \in DOMAIN target, p \in Range(Patterns) : place = <<j, Len(p)>> /\ Occurs(j, p)
      BY <2>2, <3>1 DEF AllFound, PlacesArePatterns
    <3> QED
      BY <3>1, <3>2 DEF Covers
  <2> QED
    BY <2>2, <2>3, <2>4
<1> QED
  BY <1>1, AlwaysFound, PTL

-----------------------------------------------------------------------------
(***************************************************************************)
(* The parser of settings.ini, for files of any length with lines in any   *)
(* order, and numbers of any length.                                       *)
(***************************************************************************)
LEMMA KeysFacts ==
  /\ Len(OffsetKeys) = 4 /\ Len(StringKeys) = 10 /\ Len(Keys) = 14
  /\ \A n \in 1..4 : Keys[n] = OffsetKeys[n]
  /\ \A n \in 5..14 : Keys[n] = StringKeys[n - 4]
  /\ Range(Keys) = Range(OffsetKeys) \union Range(StringKeys)
  /\ Range(OffsetKeys) = {OffsetKeys[n] : n \in 1..4}
  /\ \A n \in 5..14 : Keys[n] \in Range(StringKeys)
  /\ Range(OffsetKeys) \cap Range(StringKeys) = {}
<1> DEFINE S == {"sectionRoffset", "sectionSize", "sectionVSize", "delbuild", "target_in",
                 "target_out", "sectionName", "linkmapfile", "buildDir", "copytodir", "tccinput",
                 "tccoutput", "tccargs", "arch"}
<1>1. OffsetKeys \in Seq(S) /\ Len(OffsetKeys) = 4 /\ DOMAIN OffsetKeys = 1..4
  BY DEF OffsetKeys
<1>2. StringKeys \in Seq(S) /\ Len(StringKeys) = 10 /\ DOMAIN StringKeys = 1..10
  BY DEF StringKeys
<1> HIDE DEF S
<1>3. /\ Keys \in Seq(S) /\ Len(Keys) = 4 + 10
      /\ \A n \in 1..(4 + 10) : Keys[n] = IF n <= 4 THEN OffsetKeys[n] ELSE StringKeys[n - 4]
  <2> DEFINE m == Len(OffsetKeys)
             j == Len(StringKeys)
             r == OffsetKeys \o StringKeys
  <2>1. /\ r \in Seq(S) /\ Len(r) = m + j
        /\ \A n \in 1..(m + j) : r[n] = IF n <= m THEN OffsetKeys[n] ELSE StringKeys[n - m]
    BY <1>1, <1>2, ConcatProperties
  <2>2. m = 4 /\ j = 10 /\ Keys = r
    BY <1>1, <1>2 DEF Keys
  <2> HIDE DEF m, j, r
  <2> QED
    BY <2>1, <2>2
<1>4. DOMAIN Keys = 1..14
  BY <1>3, LenProperties
<1>5. /\ \A n \in 1..4 : Keys[n] = OffsetKeys[n]
      /\ \A n \in 5..14 : Keys[n] = StringKeys[n - 4] /\ n - 4 \in 1..10
  BY <1>3
<1>6. Range(OffsetKeys) = {OffsetKeys[n] : n \in 1..4}
  BY <1>1 DEF Range
<1>7. \A n \in 5..14 : Keys[n] \in Range(StringKeys)
  BY <1>2, <1>5 DEF Range
<1>8. Range(Keys) = Range(OffsetKeys) \union Range(StringKeys)
  <2>1. ASSUME NEW n \in 1..14 PROVE Keys[n] \in Range(OffsetKeys) \union Range(StringKeys)
    <3>1. n \in 1..4 \/ n \in 5..14
      OBVIOUS
    <3> QED
      BY <1>5, <1>6, <1>7, <3>1
  <2>2. \A n \in 1..10 : StringKeys[n] = Keys[n + 4] /\ n + 4 \in 1..14
    <3>1. \A n \in 1..10 : n + 4 \in 5..14 /\ n + 4 \in 1..14 /\ (n + 4) - 4 = n
      OBVIOUS
    <3> QED
      BY <1>5, <3>1
  <2>3. \A n \in 1..4 : OffsetKeys[n] = Keys[n] /\ n \in 1..14
    BY <1>5
  <2> QED
    BY <1>1, <1>2, <1>4, <2>1, <2>2, <2>3 DEF Range
<1>9. Range(OffsetKeys) \cap Range(StringKeys) = {}
  <2>1. Range(OffsetKeys) = {"sectionRoffset", "sectionSize", "sectionVSize", "delbuild"}
    BY <1>1 DEF Range, OffsetKeys
  <2>2. \A s \in {"sectionRoffset", "sectionSize", "sectionVSize", "delbuild"}, n \in 1..10 :
          StringKeys[n] # s
    BY DEF StringKeys
  <2> QED
    BY <1>2, <2>1, <2>2 DEF Range
<1> QED
  BY <1>1, <1>2, <1>3, <1>5, <1>6, <1>7, <1>8, <1>9

(***************************************************************************)
(* Numbers.                                                                *)
(***************************************************************************)
LEMMA HexUnfolds ==
  ASSUME NEW d \in Seq(Chars)
  PROVE  \E f \in [0..Len(d) -> Nat] :
           Hex(d) = f[Len(d)] /\ f[0] = 0 /\ \A n \in 1..Len(d) : f[n] = 16 * f[n - 1] + d[n]
<1> DEFINE N == Len(d)
           IsNumber(f) == f = [n \in 0..N |-> IF n = 0 THEN 0 ELSE 16 * f[n - 1] + d[n]]
           number == CHOOSE f : IsNumber(f)
           G   == [y \in Nat \X Nat |-> IF y[1] \in 1..N THEN 16 * y[2] + d[y[1]] ELSE y[2]]
<1>1. Hex(d) = number[N]
  BY DEF Hex
<1>2. N \in Nat /\ \A n \in 1..N : d[n] \in Nat
  <2>1. N \in Nat /\ \A n \in 1..N : d[n] \in Chars
    BY LenProperties, ElementOfSeq
  <2> QED
    BY <2>1 DEF Chars
<1>3. \A n \in Nat, s \in Nat : /\ G[<<n, s>>] \in Nat
                                /\ n \in 1..N => G[<<n, s>>] = 16 * s + d[n]
  BY <1>2
<1>4. StaysIn(Nat, G)
  BY <1>3 DEF StaysIn
<1> HIDE DEF G, N
<1>5. PICK f \in [0..N -> Nat] : Follows(f, N, 0, G)
  BY <1>2, <1>4, Recursion
<1>6. \A n \in 1..N : n \in Nat /\ n # 0 /\ n \in 0..N /\ n - 1 \in 0..N
  BY <1>2
<1>7. 0 \in 0..N /\ \A n \in 0..N : n = 0 \/ n \in 1..N
  BY <1>2
<1>8. IsNumber(f)
  <2>1. f[0] = 0 /\ \A n \in 1..N : f[n] = 16 * f[n - 1] + d[n]
    BY <1>3, <1>5, <1>6 DEF Follows
  <2>2. \A n \in 0..N : f[n] = IF n = 0 THEN 0 ELSE 16 * f[n - 1] + d[n]
    BY <1>7, <2>1
  <2> QED
    BY <2>2
<1>9. IsNumber(number)
  <2> HIDE DEF IsNumber
  <2> QED
    BY <1>8
<1>10. /\ number = [n \in 0..N |-> number[n]]
       /\ number[0] = 0 /\ \A n \in 1..N : number[n] = 16 * number[n - 1] + d[n]
  <2> HIDE DEF number
  <2> QED
    BY <1>6, <1>7, <1>9
<1> HIDE DEF number, IsNumber
<1>11. number \in [0..N -> Nat]
  <2>1. \A n \in 1..N : number[n - 1] \in Nat => number[n] = G[<<n, number[n - 1]>>]
    BY <1>3, <1>6, <1>10
  <2> QED
    BY <1>2, <1>4, <1>10, <2>1, StaysTyped
<1> QED
  BY <1>1, <1>10, <1>11 DEF N

LEMMA HexNat ==
  ASSUME NEW d \in Seq(Chars)
  PROVE  Hex(d) \in Nat
BY HexUnfolds, LenProperties

(* Six digits are a number of 24 bits. *)
LEMMA SixDigits ==
  ASSUME NEW d \in Seq(Chars), IsHex(d), Len(d) <= 6
  PROVE  Hex(d) <= 16777215
<1>1. Len(d) \in Nat /\ DOMAIN d = 1..Len(d)
  BY LenProperties
<1>2. PICK f \in [0..Len(d) -> Nat] :
        Hex(d) = f[Len(d)] /\ f[0] = 0 /\ \A n \in 1..Len(d) : f[n] = 16 * f[n - 1] + d[n]
  BY HexUnfolds
<1>3. ASSUME NEW n \in 1..Len(d), NEW b \in Nat, f[n - 1] <= b
      PROVE  f[n] <= 16 * b + 15
  <2>1. d[n] \in Nat /\ d[n] <= 15
    <3>1. d[n] \in Chars
      BY ElementOfSeq
    <3>2. d[n] < X
      BY <1>1 DEF IsHex
    <3> QED
      BY <3>1, <3>2 DEF Chars, X
  <2>2. f[n - 1] \in Nat /\ f[n] = 16 * f[n - 1] + d[n]
    <3>1. n - 1 \in 0..Len(d)
      BY <1>1
    <3> QED
      BY <1>2, <3>1
  <2> QED
    BY <1>3, <2>1, <2>2
<1>4. /\ 1 <= Len(d) => f[1] <= 15
      /\ 2 <= Len(d) => f[2] <= 255
      /\ 3 <= Len(d) => f[3] <= 4095
      /\ 4 <= Len(d) => f[4] <= 65535
      /\ 5 <= Len(d) => f[5] <= 1048575
      /\ 6 <= Len(d) => f[6] <= 16777215
  <2>1. 1 <= Len(d) => f[1] <= 15
    <3>1. 1 <= Len(d) => 1 \in 1..Len(d) /\ 1 - 1 = 0
      BY <1>1
    <3> QED
      BY <1>2, <1>3, <3>1
  <2>2. 2 <= Len(d) => f[2] <= 255
    <3>1. 2 <= Len(d) => 2 \in 1..Len(d) /\ 2 - 1 = 1 /\ 1 <= Len(d)
      BY <1>1
    <3> QED
      BY <1>3, <2>1, <3>1
  <2>3. 3 <= Len(d) => f[3] <= 4095
    <3>1. 3 <= Len(d) => 3 \in 1..Len(d) /\ 3 - 1 = 2 /\ 2 <= Len(d)
      BY <1>1
    <3> QED
      BY <1>3, <2>2, <3>1
  <2>4. 4 <= Len(d) => f[4] <= 65535
    <3>1. 4 <= Len(d) => 4 \in 1..Len(d) /\ 4 - 1 = 3 /\ 3 <= Len(d)
      BY <1>1
    <3> QED
      BY <1>3, <2>3, <3>1
  <2>5. 5 <= Len(d) => f[5] <= 1048575
    <3>1. 5 <= Len(d) => 5 \in 1..Len(d) /\ 5 - 1 = 4 /\ 4 <= Len(d)
      BY <1>1
    <3> QED
      BY <1>3, <2>4, <3>1
  <2>6. 6 <= Len(d) => f[6] <= 16777215
    <3>1. 6 <= Len(d) => 6 \in 1..Len(d) /\ 6 - 1 = 5 /\ 5 <= Len(d)
      BY <1>1
    <3> QED
      BY <1>3, <2>5, <3>1
  <2> QED
    BY <2>1, <2>2, <2>3, <2>4, <2>5, <2>6
<1>5. \A n \in Nat : n <= 6 => n = 0 \/ n = 1 \/ n = 2 \/ n = 3 \/ n = 4 \/ n = 5 \/ n = 6
  OBVIOUS
<1>6. \/ Len(d) = 0 \/ Len(d) = 1 \/ Len(d) = 2 \/ Len(d) = 3
      \/ Len(d) = 4 \/ Len(d) = 5 \/ Len(d) = 6
  BY <1>1, <1>5
<1>7. f[Len(d)] <= 16777215
  <2>1. Len(d) = 0 => f[Len(d)] <= 16777215
    BY <1>2
  <2>2. Len(d) = 1 => f[Len(d)] <= 16777215
    <3>1. Len(d) = 1 => f[1] \in Nat /\ f[1] <= 15
      BY <1>2, <1>4
    <3> QED
      BY <3>1
  <2>3. Len(d) = 2 => f[Len(d)] <= 16777215
    <3>1. Len(d) = 2 => f[2] \in Nat /\ f[2] <= 255
      BY <1>2, <1>4
    <3> QED
      BY <3>1
  <2>4. Len(d) = 3 => f[Len(d)] <= 16777215
    <3>1. Len(d) = 3 => f[3] \in Nat /\ f[3] <= 4095
      BY <1>2, <1>4
    <3> QED
      BY <3>1
  <2>5. Len(d) = 4 => f[Len(d)] <= 16777215
    <3>1. Len(d) = 4 => f[4] \in Nat /\ f[4] <= 65535
      BY <1>2, <1>4
    <3> QED
      BY <3>1
  <2>6. Len(d) = 5 => f[Len(d)] <= 16777215
    <3>1. Len(d) = 5 => f[5] \in Nat /\ f[5] <= 1048575
      BY <1>2, <1>4
    <3> QED
      BY <3>1
  <2>7. Len(d) = 6 => f[Len(d)] <= 16777215
    BY <1>4
  <2> QED
    BY <1>6, <2>1, <2>2, <2>3, <2>4, <2>5, <2>6, <2>7
<1> QED
  BY <1>2, <1>7

(***************************************************************************)
(* What is left of a value.                                                *)
(***************************************************************************)
LEMMA HexCastType ==
  ASSUME NEW t \in Seq(Chars)
  PROVE  HexCast(t) = -1 \/ HexCast(t) \in 0..MaxInt
<1> DEFINE d == IF Len(t) > 2 /\ t[1] = 0 /\ t[2] = X THEN SubSeq(t, 3, Len(t)) ELSE t
<1>1. SubSeq(t, 3, Len(t)) \in Seq(Chars)
  <2>1. Len(t) \in Nat /\ \A k \in 3..Len(t) : k \in 1..Len(t)
    BY LenProperties
  <2>2. \A k \in 3..Len(t) : t[k] \in Chars
    BY <2>1, ElementOfSeq
  <2> QED
    BY <2>1, <2>2, SubSeqProperties
<1>2. d \in Seq(Chars)
  BY <1>1
<1>3. HexCast(t) = IF IsHex(d) /\ Hex(d) <= MaxInt THEN Hex(d) ELSE -1
  BY DEF HexCast
<1> HIDE DEF d
<1>4. Hex(d) \in Nat
  BY <1>2, HexNat
<1> QED
  BY <1>3, <1>4, SettingsAssumption

LEMMA CutValue ==
  ASSUME NEW v \in Seq(Chars)
  PROVE  \E r \in Seq(Chars) :
           /\ ParseOffset(v) = HexCast(<< 0 >> \o r)
           /\ v # <<>> /\ v[1] = 0 => r = SubSeq(v, 2, Len(v))
<1> DEFINE cuts == {k \in DOMAIN v : v[k] \in {0, X}}
           cut  == CHOOSE k \in cuts : \A j \in cuts : k <= j
           r    == IF cuts = {} THEN <<>> ELSE SubSeq(v, cut + 1, Len(v))
<1>1. ParseOffset(v) = HexCast(<< 0 >> \o r)
  BY DEF ParseOffset
<1>2. Len(v) \in Nat /\ DOMAIN v = 1..Len(v) /\ (v # <<>> => Len(v) # 0)
  BY LenProperties, EmptySeq
<1>3. cuts \subseteq 1..Len(v)
  BY <1>2
<1>4. cuts # {} => cut \in cuts /\ \A j \in cuts : cut <= j
  <2>1. SUFFICES ASSUME cuts # {} PROVE \E k \in cuts : \A j \in cuts : k <= j
    OBVIOUS
  <2>2. cuts \in SUBSET Nat
    BY <1>2, <1>3
  <2> HIDE DEF cuts
  <2> QED
    BY <2>1, <2>2, SmallestMember
<1>5. v # <<>> /\ v[1] = 0 => 1 \in cuts
  BY <1>2
<1> HIDE DEF cuts, cut
<1>6. r \in Seq(Chars)
  <2>1. CASE cuts = {}
    BY <2>1, EmptySeq
  <2>2. CASE cuts # {}
    <3>1. cut \in 1..Len(v)
      BY <1>3, <1>4, <2>2
    <3>2. cut + 1 \in Int /\ \A k \in (cut + 1)..Len(v) : k \in 1..Len(v)
      BY <1>2, <3>1
    <3>3. \A k \in (cut + 1)..Len(v) : v[k] \in Chars
      BY <3>2, ElementOfSeq
    <3>4. SubSeq(v, cut + 1, Len(v)) \in Seq(Chars)
      BY <1>2, <3>2, <3>3, SubSeqProperties
    <3> QED
      BY <2>2, <3>4
  <2> QED
    BY <2>1, <2>2
<1>7. v # <<>> /\ v[1] = 0 => r = SubSeq(v, 2, Len(v))
  <2>1. SUFFICES ASSUME 1 \in cuts PROVE r = SubSeq(v, 2, Len(v))
    BY <1>5
  <2>2. cut \in 1..Len(v) /\ cut <= 1
    BY <1>3, <1>4, <2>1
  <2>3. cut + 1 = 2
    BY <1>2, <2>2
  <2> QED
    BY <2>1, <2>3
<1> QED
  BY <1>1, <1>6, <1>7

LEMMA ParseOffsetType ==
  ASSUME NEW v \in Seq(Chars)
  PROVE  ParseOffset(v) = -1 \/ ParseOffset(v) \in 0..MaxInt
<1>1. PICK r \in Seq(Chars) : ParseOffset(v) = HexCast(<< 0 >> \o r)
  BY CutValue
<1>2. << 0 >> \in Seq(Chars)
  BY DEF Chars
<1>3. << 0 >> \o r \in Seq(Chars)
  BY <1>2, ConcatProperties
<1> QED
  BY <1>1, <1>3, HexCastType

(* The 0 that strtok takes from the beginning is put back.                 *)
LEMMA ZeroPutBack ==
  ASSUME NEW v \in Seq(Chars), v # <<>>, v[1] = 0
  PROVE  ParseOffset(v) = HexCast(v)
<1> DEFINE N == Len(v)
           r == SubSeq(v, 2, N)
           o == << 0 >>
<1>1. N \in Nat /\ N # 0 /\ DOMAIN v = 1..N
  BY LenProperties, EmptySeq
<1>2. ParseOffset(v) = HexCast(o \o r)
  BY CutValue
<1>3. \A k \in 2..N : k \in 1..N /\ v[k] \in Chars
  <2>1. \A k \in 2..N : k \in 1..N
    BY <1>1
  <2> QED
    BY <2>1, ElementOfSeq
<1>4. o \in Seq(Chars) /\ Len(o) = 1 /\ o[1] = 0
  BY DEF Chars
<1> HIDE DEF N, o
<1>5. /\ r \in Seq(Chars) /\ Len(r) = (IF 2 <= N THEN N - 2 + 1 ELSE 0)
      /\ \A k \in 1..(N - 2 + 1) : r[k] = v[2 + k - 1]
  BY <1>1, <1>3, SubSeqProperties
<1> HIDE DEF r
<1>6. Len(r) = N - 1 /\ \A k \in 2..N : k - 1 \in 1..Len(r) /\ r[k - 1] = v[k]
  <2>1. Len(r) = N - 1 /\ N - 2 + 1 = N - 1
    BY <1>1, <1>5
  <2>2. \A k \in 2..N : k - 1 \in 1..(N - 1) /\ 2 + (k - 1) - 1 = k
    BY <1>1
  <2> QED
    BY <1>5, <2>1, <2>2
<1>7. /\ o \o r \in Seq(Chars) /\ Len(o \o r) = Len(o) + Len(r)
      /\ \A k \in 1..(Len(o) + Len(r)) : (o \o r)[k] = IF k <= Len(o) THEN o[k] ELSE r[k - Len(o)]
  BY <1>4, <1>5, ConcatProperties
<1>8. Len(o \o r) = N /\ \A k \in 1..N : (o \o r)[k] = v[k]
  <2>1. Len(o) + Len(r) = N
    BY <1>1, <1>4, <1>6
  <2>2. ASSUME NEW k \in 1..N PROVE (o \o r)[k] = v[k]
    <3>1. (o \o r)[k] = IF k <= 1 THEN o[k] ELSE r[k - 1]
      BY <1>4, <1>7, <2>1
    <3>2. CASE k = 1
      BY <1>4, <3>1, <3>2
    <3>3. CASE k # 1
      <4>1. k \in 2..N /\ ~(k <= 1)
        BY <1>1, <3>3
      <4> QED
        BY <1>6, <3>1, <4>1
    <3> QED
      BY <3>2, <3>3
  <2> QED
    BY <1>7, <2>1, <2>2
<1>9. o \o r = v
  BY <1>7, <1>8, SeqEqual DEF N
<1> QED
  BY <1>2, <1>9

(* What stands behind 0x. *)
LEMMA PrefixedIsRead ==
  ASSUME NEW v \in Seq(Chars), Prefixed(v)
  PROVE  LET d == SubSeq(v, 3, Len(v)) IN
         /\ d \in Seq(Chars) /\ Len(d) = Len(v) - 2
         /\ \A k \in 1..Len(d) : k + 2 \in 1..Len(v) /\ d[k] = v[k + 2]
         /\ ParseOffset(v) = IF IsHex(d) /\ Hex(d) <= MaxInt THEN Hex(d) ELSE -1
<1> DEFINE N == Len(v)
           d == SubSeq(v, 3, N)
<1>1. N \in Nat /\ N > 2 /\ v[1] = 0 /\ v[2] = X /\ v # <<>>
  BY LenProperties, EmptySeq DEF Prefixed
<1>2. ParseOffset(v) = HexCast(v)
  BY <1>1, ZeroPutBack
<1>3. HexCast(v) = IF IsHex(d) /\ Hex(d) <= MaxInt THEN Hex(d) ELSE -1
  BY <1>1 DEF HexCast
<1>4. \A k \in 3..N : v[k] \in Chars
  <2>1. \A k \in 3..N : k \in 1..N
    BY <1>1
  <2> QED
    BY <2>1, ElementOfSeq
<1> HIDE DEF N
<1>5. /\ SubSeq(v, 3, N) \in Seq(Chars)
      /\ Len(SubSeq(v, 3, N)) = IF 3 <= N THEN N - 3 + 1 ELSE 0
      /\ \A k \in 1..(N - 3 + 1) : SubSeq(v, 3, N)[k] = v[3 + k - 1]
  BY <1>1, <1>4, SubSeqProperties
<1>6. Len(d) = N - 2 /\ \A k \in 1..(N - 2) : k + 2 \in 1..N /\ d[k] = v[k + 2]
  <2>1. N - 3 + 1 = N - 2 /\ \A k \in 1..(N - 2) : k + 2 \in 1..N /\ 3 + k - 1 = k + 2
    BY <1>1
  <2> QED
    BY <1>1, <1>5, <2>1
<1> QED
  BY <1>2, <1>3, <1>5, <1>6 DEF N

LEMMA ZeroIsRead == ParseOffset(<< 0 >>) = 0
<1> DEFINE v == << 0 >>
<1>1. v \in Seq(Chars) /\ Len(v) = 1 /\ v[1] = 0 /\ v # <<>> /\ DOMAIN v = 1..1
  BY DEF Chars
<1> HIDE DEF v
<1>2. IsHex(v)
  BY <1>1 DEF IsHex, X
<1>3. Hex(v) = 0
  <2>1. PICK f \in [0..Len(v) -> Nat] :
          Hex(v) = f[Len(v)] /\ f[0] = 0 /\ \A n \in 1..Len(v) : f[n] = 16 * f[n - 1] + v[n]
    BY <1>1, HexUnfolds
  <2>2. f[1] = 16 * f[1 - 1] + v[1]
    BY <1>1, <2>1
  <2> QED
    BY <1>1, <2>1, <2>2
<1>4. HexCast(v) = 0
  BY <1>1, <1>2, <1>3, SettingsAssumption DEF HexCast
<1> QED
  BY <1>1, <1>4, ZeroPutBack DEF v

LEMMA SixDigitsAreRead ==
  ASSUME NEW v \in Seq(Chars), Prefixed(v), Len(v) <= 8, \A k \in 3..Len(v) : v[k] < X
  PROVE  ParseOffset(v) # -1
<1> DEFINE d == SubSeq(v, 3, Len(v))
<1>1. /\ d \in Seq(Chars) /\ Len(d) = Len(v) - 2
      /\ \A k \in 1..Len(d) : k + 2 \in 1..Len(v) /\ d[k] = v[k + 2]
      /\ ParseOffset(v) = IF IsHex(d) /\ Hex(d) <= MaxInt THEN Hex(d) ELSE -1
  BY PrefixedIsRead
<1> HIDE DEF d
<1>2. Len(v) \in Nat /\ Len(v) > 2 /\ Len(d) \in Nat /\ DOMAIN d = 1..Len(d)
  BY <1>1, LenProperties DEF Prefixed
<1>3. Len(d) <= 6 /\ Len(d) # 0 /\ d # <<>>
  <2>1. Len(d) <= 6 /\ Len(d) # 0
    BY <1>1, <1>2
  <2> QED
    BY <2>1, EmptySeq
<1>4. IsHex(d)
  <2>1. \A k \in 1..Len(d) : k + 2 \in 3..Len(v)
    BY <1>1, <1>2
  <2>2. \A k \in 1..Len(d) : d[k] < X
    BY <1>1, <2>1
  <2> QED
    BY <1>2, <1>3, <2>2 DEF IsHex
<1>5. Hex(d) \in Nat /\ Hex(d) <= 16777215
  BY <1>1, <1>3, <1>4, HexNat, SixDigits
<1>6. Hex(d) <= MaxInt
  BY <1>5, SettingsAssumption
<1> QED
  BY <1>1, <1>4, <1>5, <1>6

(***************************************************************************)
(* The lines of the file.                                                  *)
(***************************************************************************)
LEMMA FoundLine ==
  ASSUME ini \in Seq(IniLine), NEW k, LinesOf(k) # {}
  PROVE  \E n \in DOMAIN ini : HasName(ini[n], k) /\ ini[n] \in IniLine /\ Found(k) = ini[n].value
<1>1. LinesOf(k) \in SUBSET Nat
  BY LenProperties DEF LinesOf
<1> DEFINE m == CHOOSE n \in LinesOf(k) : \A j \in LinesOf(k) : n <= j
<1>2. m \in LinesOf(k)
  BY <1>1, SmallestMember
<1>3. m \in DOMAIN ini /\ HasName(ini[m], k) /\ Found(k) = ini[m].value
  BY <1>2 DEF LinesOf, Found
<1> HIDE DEF m
<1>4. ini[m] \in IniLine
  BY <1>3, LenProperties, ElementOfSeq
<1> QED
  BY <1>3, <1>4

(* No string contains the name of a number.                                *)
LEMMA NamedLine ==
  ASSUME NEW r \in IniLine, NEW k, HasName(r, k)
  PROVE  /\ k \in Range(OffsetKeys) => r.key = k /\ r.value \in Seq(Chars)
         /\ k \in Range(StringKeys) => r.value \in Strings
<1>1. CASE r \in [key: Range(OffsetKeys), value: Seq(Chars)]
  <2>1. r.key \in Range(OffsetKeys) /\ r.value \in Seq(Chars) /\ r.key \notin Range(StringKeys)
    BY <1>1, KeysFacts
  <2> QED
    BY <2>1 DEF HasName
<1>2. CASE r \in [key: Range(StringKeys), value: Strings]
  <2>1. r.key \in Range(StringKeys) /\ r.value \in Strings
    BY <1>2
  <2>2. Mentions[r.value] \subseteq Range(StringKeys)
    BY <2>1, SettingsAssumption
  <2>3. k \in Range(StringKeys)
    BY <2>1, <2>2 DEF HasName
  <2> QED
    BY <2>1, <2>3, KeysFacts
<1> QED
  BY <1>1, <1>2 DEF IniLine

LEMMA FoundType ==
  ASSUME ini \in Seq(IniLine), NEW k, LinesOf(k) # {}
  PROVE  /\ k \in Range(OffsetKeys) => Found(k) \in Seq(Chars)
         /\ k \in Range(StringKeys) => Found(k) \in Strings
<1>1. PICK n \in DOMAIN ini : HasName(ini[n], k) /\ ini[n] \in IniLine /\ Found(k) = ini[n].value
  BY FoundLine
<1> QED
  BY <1>1, NamedLine

(***************************************************************************)
(* The file that the program writes itself.                                *)
(***************************************************************************)
LEMMA DefaultNumbers ==
  ASSUME NEW v, v \in {<< 0, X, 11, 13, 13, 0, 0, 0 >>, << 0, X, 8, 0, 0, 0, 0 >>,
                       << 0, X, 5, 0, 0, 0, 0 >>, << 0, X, 0 >>}
  PROVE  v \in Seq(Chars) /\ Prefixed(v) /\ ParseOffset(v) # -1
<1>1. CASE v = << 0, X, 11, 13, 13, 0, 0, 0 >>
  <2>1. v \in Seq(Chars) /\ Len(v) = 8 /\ v[1] = 0 /\ v[2] = X
    BY <1>1 DEF Chars, X
  <2>2. \A k \in 3..8 : v[k] < X
    BY <1>1 DEF X
  <2>3. Prefixed(v) /\ Len(v) <= 8 /\ \A k \in 3..Len(v) : v[k] < X
    BY <2>1, <2>2 DEF Prefixed
  <2> QED
    BY <2>1, <2>3, SixDigitsAreRead
<1>2. CASE v = << 0, X, 8, 0, 0, 0, 0 >>
  <2>1. v \in Seq(Chars) /\ Len(v) = 7 /\ v[1] = 0 /\ v[2] = X
    BY <1>2 DEF Chars, X
  <2>2. \A k \in 3..7 : v[k] < X
    BY <1>2 DEF X
  <2>3. Prefixed(v) /\ Len(v) <= 8 /\ \A k \in 3..Len(v) : v[k] < X
    BY <2>1, <2>2 DEF Prefixed
  <2> QED
    BY <2>1, <2>3, SixDigitsAreRead
<1>3. CASE v = << 0, X, 5, 0, 0, 0, 0 >>
  <2>1. v \in Seq(Chars) /\ Len(v) = 7 /\ v[1] = 0 /\ v[2] = X
    BY <1>3 DEF Chars, X
  <2>2. \A k \in 3..7 : v[k] < X
    BY <1>3 DEF X
  <2>3. Prefixed(v) /\ Len(v) <= 8 /\ \A k \in 3..Len(v) : v[k] < X
    BY <2>1, <2>2 DEF Prefixed
  <2> QED
    BY <2>1, <2>3, SixDigitsAreRead
<1>4. CASE v = << 0, X, 0 >>
  <2>1. v \in Seq(Chars) /\ Len(v) = 3 /\ v[1] = 0 /\ v[2] = X
    BY <1>4 DEF Chars, X
  <2>2. \A k \in 3..3 : v[k] < X
    BY <1>4 DEF X
  <2>3. Prefixed(v) /\ Len(v) <= 8 /\ \A k \in 3..Len(v) : v[k] < X
    BY <2>1, <2>2 DEF Prefixed
  <2> QED
    BY <2>1, <2>3, SixDigitsAreRead
<1> QED
  BY <1>1, <1>2, <1>3, <1>4

LEMMA KeyNames ==
  /\ Range(OffsetKeys) = {"sectionRoffset", "sectionSize", "sectionVSize", "delbuild"}
  /\ Range(StringKeys) = {"target_in", "target_out", "sectionName", "linkmapfile", "buildDir",
                          "copytodir", "tccinput", "tccoutput", "tccargs", "arch"}
<1>1. DOMAIN OffsetKeys = 1..4 /\ DOMAIN StringKeys = 1..10
  BY DEF OffsetKeys, StringKeys
<1>2. Range(OffsetKeys) = {OffsetKeys[1], OffsetKeys[2], OffsetKeys[3], OffsetKeys[4]}
  <2>1. \A n : n \in 1..4 <=> n = 1 \/ n = 2 \/ n = 3 \/ n = 4
    OBVIOUS
  <2> QED
    BY <1>1, <2>1 DEF Range
<1>3. Range(StringKeys) = {StringKeys[1], StringKeys[2], StringKeys[3], StringKeys[4], StringKeys[5],
                           StringKeys[6], StringKeys[7], StringKeys[8], StringKeys[9], StringKeys[10]}
  <2>1. \A n : n \in 1..10 <=> \/ n = 1 \/ n = 2 \/ n = 3 \/ n = 4 \/ n = 5
                               \/ n = 6 \/ n = 7 \/ n = 8 \/ n = 9 \/ n = 10
    OBVIOUS
  <2> QED
    BY <1>1, <2>1 DEF Range
<1>4. /\ OffsetKeys[1] = "sectionRoffset" /\ OffsetKeys[2] = "sectionSize"
      /\ OffsetKeys[3] = "sectionVSize" /\ OffsetKeys[4] = "delbuild"
  BY DEF OffsetKeys
<1>5. /\ StringKeys[1] = "target_in" /\ StringKeys[2] = "target_out"
      /\ StringKeys[3] = "sectionName" /\ StringKeys[4] = "linkmapfile"
      /\ StringKeys[5] = "buildDir" /\ StringKeys[6] = "copytodir" /\ StringKeys[7] = "tccinput"
      /\ StringKeys[8] = "tccoutput" /\ StringKeys[9] = "tccargs" /\ StringKeys[10] = "arch"
  BY DEF StringKeys
<1> QED
  BY <1>2, <1>3, <1>4, <1>5

LEMMA KeyIndex == \A k \in Range(Keys) : \E n \in 1..14 : Keys[n] = k
<1>1. DOMAIN Keys = 1..14
  BY KeysFacts, LenProperties, ConcatProperties DEF Keys, OffsetKeys, StringKeys
<1> QED
  BY <1>1 DEF Range

(* Each line has a key of its own, and each key has a line.                *)
LEMMA DefaultValues ==
  /\ Defaults \in Seq(IniLine) /\ DOMAIN Defaults = 1..14
  /\ \A m, n \in 1..14 : Defaults[m].key = Defaults[n].key => m = n
  /\ \A k \in Range(Keys) : \E n \in 1..14 : Defaults[n].key = k
  /\ \A n \in 1..14 :
       /\ Defaults[n].key \in Range(StringKeys) => Defaults[n].value \in DefaultStrings
       /\ Defaults[n].key \in Range(OffsetKeys) =>
            /\ Defaults[n].value \in Seq(Chars) /\ Prefixed(Defaults[n].value)
            /\ ParseOffset(Defaults[n].value) # -1
<1> DEFINE V == {<< 0, X, 11, 13, 13, 0, 0, 0 >>, << 0, X, 8, 0, 0, 0, 0 >>,
                 << 0, X, 5, 0, 0, 0, 0 >>, << 0, X, 0 >>}
           K == <<"target_in", "target_out", "linkmapfile", "buildDir", "copytodir", "sectionName",
                  "sectionRoffset", "sectionSize", "sectionVSize", "delbuild", "tccinput",
                  "tccoutput", "tccargs", "arch">>
<1> DEFINE w1 == "ForgedAlliance_base.exe"
           w2 == "ForgedAlliance_exxt.exe"
           w3 == "build/mapfile.map"
           w4 == "./build"
           w5 == "null"
           w6 == ".exxt"
           w11 == "./test.c"
           w12 == "./test.o"
           w13 == "-c -m32"
           w14 == "x86"
<1>1. \A v \in V : v \in Seq(Chars) /\ Prefixed(v) /\ ParseOffset(v) # -1
  BY DefaultNumbers
<1>2. \A n \in 1..14 : \/ n = 1 \/ n = 2 \/ n = 3 \/ n = 4 \/ n = 5 \/ n = 6 \/ n = 7 \/ n = 8
                       \/ n = 9 \/ n = 10 \/ n = 11 \/ n = 12 \/ n = 13 \/ n = 14
  OBVIOUS
<1>3. /\ Defaults[1] = Setting(K[1], w1)
      /\ Defaults[2] = Setting(K[2], w2)
      /\ Defaults[3] = Setting(K[3], w3)
      /\ Defaults[4] = Setting(K[4], w4)
      /\ Defaults[5] = Setting(K[5], w5)
      /\ Defaults[6] = Setting(K[6], w6)
      /\ Defaults[7] = Setting(K[7], << 0, X, 11, 13, 13, 0, 0, 0 >>)
      /\ Defaults[8] = Setting(K[8], << 0, X, 8, 0, 0, 0, 0 >>)
      /\ Defaults[9] = Setting(K[9], << 0, X, 5, 0, 0, 0, 0 >>)
      /\ Defaults[10] = Setting(K[10], << 0, X, 0 >>)
      /\ Defaults[11] = Setting(K[11], w11)
      /\ Defaults[12] = Setting(K[12], w12)
      /\ Defaults[13] = Setting(K[13], w13)
      /\ Defaults[14] = Setting(K[14], w14)
  BY DEF Defaults
<1>4. /\ \A a, b : Setting(a, b).key = a /\ Setting(a, b).value = b
      /\ w1 \in DefaultStrings
      /\ w2 \in DefaultStrings
      /\ w3 \in DefaultStrings
      /\ w4 \in DefaultStrings
      /\ w5 \in DefaultStrings
      /\ w6 \in DefaultStrings
      /\ w11 \in DefaultStrings
      /\ w12 \in DefaultStrings
      /\ w13 \in DefaultStrings
      /\ w14 \in DefaultStrings
      /\ << 0, X, 11, 13, 13, 0, 0, 0 >> \in V
      /\ << 0, X, 8, 0, 0, 0, 0 >> \in V
      /\ << 0, X, 5, 0, 0, 0, 0 >> \in V
      /\ << 0, X, 0 >> \in V
  BY DEF Setting, DefaultStrings
<1> HIDE DEF w1, w2, w3, w4, w5, w6, w11, w12, w13, w14
<1>5. DOMAIN Defaults = 1..14
  BY DEF Defaults
<1>6. \A n \in 1..14 : Defaults[n].key = K[n]
  BY <1>2, <1>3, <1>4
<1>7. \A m, n \in 1..14 : K[m] = K[n] => m = n
  BY <1>2
<1>8. \A k \in Range(Keys) : \E n \in 1..14 : K[n] = k
  <2>1. \A n \in {1, 2, 3, 4, 5, 6, 7, 8, 9, 10, 11, 12, 13, 14} : n \in 1..14
    OBVIOUS
  <2>2. ASSUME NEW k \in Range(Keys)
        PROVE  \E n \in {1, 2, 3, 4, 5, 6, 7, 8, 9, 10, 11, 12, 13, 14} : K[n] = k
    BY KeysFacts, KeyNames
  <2> QED
    BY <2>1, <2>2
<1>9. ASSUME NEW n \in 1..14
      PROVE  /\ K[n] \in Range(StringKeys) => Defaults[n].value \in DefaultStrings
             /\ K[n] \in Range(OffsetKeys) => Defaults[n].value \in V
  <2>1. /\ \A j \in {7, 8, 9, 10} : K[j] \notin Range(StringKeys)
        /\ \A j \in {1, 2, 3, 4, 5, 6, 11, 12, 13, 14} : K[j] \notin Range(OffsetKeys)
    BY KeyNames
  <2> HIDE DEF V, K
  <2> QED
    BY <1>2, <1>3, <1>4, <2>1
<1>10. \A n \in 1..14 : K[n] \in Range(OffsetKeys) \/ K[n] \in Range(StringKeys)
  BY <1>2, KeyNames
<1> HIDE DEF V, K
<1>11. \A n \in 1..14 : Defaults[n] = Setting(Defaults[n].key, Defaults[n].value)
  BY <1>2, <1>3, <1>4
<1>12. ASSUME NEW n \in 1..14 PROVE Defaults[n] \in IniLine
  <2>1. Defaults[n] = Setting(Defaults[n].key, Defaults[n].value)
    BY <1>11
  <2>2. Defaults[n].key \in Range(OffsetKeys) \/ Defaults[n].key \in Range(StringKeys)
    BY <1>6, <1>10
  <2>3. DefaultStrings \subseteq Strings
    BY SettingsAssumption
  <2> QED
    BY <1>1, <1>6, <1>9, <2>1, <2>2, <2>3 DEF IniLine, Setting
<1>13. Defaults \in Seq(IniLine)
  <2>1. Defaults = [n \in 1..14 |-> Defaults[n]]
    BY <1>5 DEF Defaults
  <2>2. Defaults \in [1..14 -> IniLine]
    BY <1>12, <2>1
  <2> QED
    BY <2>2, SeqDef
<1>14. ASSUME NEW n \in 1..14
       PROVE  /\ Defaults[n].key \in Range(StringKeys) => Defaults[n].value \in DefaultStrings
              /\ Defaults[n].key \in Range(OffsetKeys) =>
                   /\ Defaults[n].value \in Seq(Chars) /\ Prefixed(Defaults[n].value)
                   /\ ParseOffset(Defaults[n].value) # -1
  BY <1>1, <1>6, <1>9
<1>15. /\ \A m, n \in 1..14 : Defaults[m].key = Defaults[n].key => m = n
       /\ \A k \in Range(Keys) : \E n \in 1..14 : Defaults[n].key = k
  BY <1>6, <1>7, <1>8
<1> QED
  BY <1>5, <1>13, <1>14, <1>15

(* Each line of it is the only one that contains its name.                 *)
LEMMA DefaultLines ==
  ASSUME ini = Defaults, NEW n \in 1..14
  PROVE  LinesOf(Defaults[n].key) = {n} /\ Found(Defaults[n].key) = Defaults[n].value
<1> DEFINE k == Defaults[n].key
<1>1. ASSUME NEW m \in 1..14 PROVE HasName(Defaults[m], k) <=> m = n
  <2>1. Defaults[m].key \in Range(StringKeys) => Mentions[Defaults[m].value] = {}
    BY DefaultValues, SettingsAssumption
  <2>2. HasName(Defaults[m], k) <=> Defaults[m].key = k
    BY <2>1 DEF HasName
  <2> QED
    BY <2>2, DefaultValues
<1>2. LinesOf(k) = {n}
  BY <1>1, DefaultValues DEF LinesOf
<1>3. n <= n
  OBVIOUS
<1>4. (CHOOSE j \in LinesOf(k) : \A i1 \in LinesOf(k) : j <= i1) = n
  BY <1>2, <1>3
<1> QED
  BY <1>2, <1>4 DEF Found

(***************************************************************************)
(* The inductive invariant: the settings read so far are those of the      *)
(* first lines with their names.                                           *)
(***************************************************************************)
NumberRead(k) ==
  /\ LinesOf(k) # {} /\ ParseOffset(Found(k)) # -1
  /\ read[k] = ParseOffset(Found(k))

StringRead(k) == LinesOf(k) # {} /\ read[k] = Found(k)

DefaultsGoOn == ini = Defaults => spc \notin {"crashed", "terminated"}

SettingsInv ==
  /\ SettingsTypeOK
  /\ spc = "start" => key = 1
  /\ spc \in {"read", "menu"} => ini \in Seq(IniLine)
  /\ spc = "menu" => key = 15
  /\ \A n \in 1..4 : n < key => NumberRead(Keys[n])
  /\ \A n \in 5..14 : n < key => StringRead(Keys[n])
  /\ DefaultsGoOn

LEMMA InitSettings == SettingsInit => SettingsInv
<1> SUFFICES ASSUME SettingsInit PROVE SettingsInv
  OBVIOUS
<1>1. /\ ini = NoIni \/ ini \in Seq(IniLine)
      /\ key = 1 /\ spc = "start" /\ key \in 1..(Len(Keys) + 1)
  BY SettingsAssumption, KeysFacts DEF SettingsInit
<1>2. /\ DOMAIN read = Range(Keys)
      /\ \A k \in Range(OffsetKeys) : read[k] = NoValue
      /\ \A k \in Range(StringKeys) : read[k] = NoValue
  BY KeysFacts DEF SettingsInit
<1> QED
  BY <1>1, <1>2 DEF SettingsInv, SettingsTypeOK, DefaultsGoOn

LEMMA OpenIniInv ==
  ASSUME SettingsInv, OpenIni
  PROVE  SettingsInv'
<1>1. /\ spc = "start" /\ spc' = "read" /\ key = 1 /\ UNCHANGED <<key, read>>
      /\ ini' = IF ini = NoIni THEN Defaults ELSE ini
  BY DEF OpenIni, SettingsInv
<1>2. ini' \in Seq(IniLine)
  BY <1>1, DefaultValues DEF SettingsInv, SettingsTypeOK
<1>3. (\A n \in 1..4 : ~(n < key')) /\ \A n \in 5..14 : ~(n < key')
  BY <1>1
<1> QED
  BY <1>1, <1>2, <1>3 DEF SettingsInv, SettingsTypeOK, DefaultsGoOn

LEMMA ReadOffsetInv ==
  ASSUME SettingsInv, ReadOffset
  PROVE  SettingsInv'
<1> DEFINE k == Keys[key]
           v == ParseOffset(Found(k))
<1>1. /\ spc = "read" /\ UNCHANGED ini /\ LinesOf(k) # {}
      /\ v = -1 => spc' = "terminated" /\ UNCHANGED <<key, read>>
      /\ v # -1 => key' = key + 1 /\ read' = [read EXCEPT ![k] = v] /\ UNCHANGED spc
  BY DEF ReadOffset
<1>2. key \in 1..4 /\ key \in 1..14
  BY KeysFacts DEF ReadOffset, SettingsInv, SettingsTypeOK
<1>3. k \in Range(OffsetKeys) /\ k \in Range(Keys) /\ k \notin Range(StringKeys)
  BY <1>2, KeysFacts
<1>4. ini \in Seq(IniLine) /\ Found(k) \in Seq(Chars)
  BY <1>1, <1>3, FoundType DEF SettingsInv
<1>5. v = -1 \/ v \in 0..MaxInt
  BY <1>4, ParseOffsetType
<1>6. \A n : LinesOf(Keys[n])' = LinesOf(Keys[n]) /\ Found(Keys[n])' = Found(Keys[n])
  BY <1>1 DEF LinesOf, Found
<1>7. CASE v = -1
  <2>1. ASSUME ini = Defaults PROVE FALSE
    <3>1. PICK n \in 1..14 : Defaults[n].key = k
      BY <1>3, DefaultValues
    <3> QED
      BY <1>3, <1>7, <2>1, <3>1, DefaultLines, DefaultValues
  <2>2. /\ \A n \in 1..4 : n < key' => NumberRead(Keys[n])'
        /\ \A n \in 5..14 : n < key' => StringRead(Keys[n])'
    BY <1>1, <1>6, <1>7 DEF SettingsInv, NumberRead, StringRead
  <2>3. SettingsTypeOK' /\ DefaultsGoOn'
    BY <1>1, <1>7, <2>1 DEF SettingsInv, SettingsTypeOK, DefaultsGoOn
  <2> QED
    BY <1>1, <1>7, <2>2, <2>3 DEF SettingsInv
<1>8. CASE v # -1
  <2> HIDE DEF v
  <2>1. /\ DOMAIN read = Range(Keys) /\ read' = [read EXCEPT ![k] = v] /\ key' = key + 1
        /\ UNCHANGED <<spc, ini>>
    BY <1>1, <1>8 DEF SettingsInv, SettingsTypeOK
  <2>2. read'[k] = v /\ \A j \in Range(Keys) : j # k => read'[j] = read[j]
    BY <1>3, <2>1
  <2>3. SettingsTypeOK'
    <3>1. key' \in 1..(Len(Keys) + 1)
      BY <1>2, <2>1, KeysFacts
    <3>2. \A j \in Range(OffsetKeys) : read'[j] = NoValue \/ read'[j] \in 0..MaxInt
      BY <1>5, <1>8, <2>2, KeysFacts DEF SettingsInv, SettingsTypeOK
    <3>3. \A j \in Range(StringKeys) : read'[j] \in Strings \union {NoValue}
      BY <1>3, <2>2, KeysFacts DEF SettingsInv, SettingsTypeOK
    <3>4. DOMAIN read' = Range(Keys)
      BY <2>1
    <3> QED
      BY <2>1, <3>1, <3>2, <3>3, <3>4 DEF SettingsInv, SettingsTypeOK
  <2>4. ASSUME NEW n \in 1..4, n < key' PROVE NumberRead(Keys[n])'
    <3>1. n < key \/ n = key
      BY <1>2, <2>1, <2>4
    <3>2. CASE Keys[n] = k
      BY <1>1, <1>6, <1>8, <2>2, <3>2 DEF NumberRead, v
    <3>3. CASE Keys[n] # k
      <4>1. NumberRead(Keys[n])
        BY <3>1, <3>3 DEF SettingsInv
      <4>2. Keys[n] \in Range(Keys)
        BY KeysFacts
      <4> QED
        BY <1>6, <2>2, <3>3, <4>1, <4>2 DEF NumberRead
    <3> QED
      BY <3>2, <3>3
  <2>5. \A n \in 5..14 : ~(n < key')
    BY <1>2, <2>1
  <2> QED
    BY <1>1, <2>1, <2>3, <2>4, <2>5 DEF SettingsInv, DefaultsGoOn
<1> QED
  BY <1>7, <1>8

LEMMA ReadStringInv ==
  ASSUME SettingsInv, ReadString
  PROVE  SettingsInv'
<1> DEFINE k == Keys[key]
<1>1. /\ spc = "read" /\ UNCHANGED <<ini, spc>> /\ LinesOf(k) # {}
      /\ key' = key + 1 /\ read' = [read EXCEPT ![k] = Found(k)]
  BY DEF ReadString
<1>2. key \in 5..14
  BY KeysFacts DEF ReadString
<1>3. k \in Range(StringKeys) /\ k \in Range(Keys) /\ k \notin Range(OffsetKeys)
  BY <1>2, KeysFacts
<1>4. Found(k) \in Strings
  BY <1>1, <1>3, FoundType DEF SettingsInv
<1>5. /\ DOMAIN read' = Range(Keys)
      /\ read'[k] = Found(k) /\ \A j \in Range(Keys) : j # k => read'[j] = read[j]
  BY <1>1, <1>3 DEF SettingsInv, SettingsTypeOK
<1>6. \A n : LinesOf(Keys[n])' = LinesOf(Keys[n]) /\ Found(Keys[n])' = Found(Keys[n])
  BY <1>1 DEF LinesOf, Found
<1>7. ASSUME NEW n \in 1..4 PROVE NumberRead(Keys[n])'
  <2>1. NumberRead(Keys[n])
    <3>1. n < key
      BY <1>2
    <3> QED
      BY <3>1 DEF SettingsInv
  <2>2. Keys[n] \in Range(OffsetKeys) /\ Keys[n] \in Range(Keys)
    BY KeysFacts
  <2> QED
    BY <1>3, <1>5, <1>6, <2>1, <2>2 DEF NumberRead
<1>8. SettingsTypeOK'
  <2>1. key' \in 1..(Len(Keys) + 1)
    BY <1>1, <1>2, KeysFacts
  <2>2. \A j \in Range(OffsetKeys) : read'[j] = NoValue \/ read'[j] \in 0..MaxInt
    BY <1>3, <1>5, KeysFacts DEF SettingsInv, SettingsTypeOK
  <2>3. \A j \in Range(StringKeys) : read'[j] \in Strings \union {NoValue}
    BY <1>4, <1>5, KeysFacts DEF SettingsInv, SettingsTypeOK
  <2> QED
    BY <1>1, <1>5, <2>1, <2>2, <2>3 DEF SettingsInv, SettingsTypeOK
<1>9. ASSUME NEW n \in 5..14, n < key' PROVE StringRead(Keys[n])'
  <2>1. n < key \/ n = key
    BY <1>1, <1>2, <1>9
  <2>2. CASE Keys[n] = k
    BY <1>1, <1>5, <1>6, <2>2 DEF StringRead
  <2>3. CASE Keys[n] # k
    <3>1. StringRead(Keys[n])
      BY <2>1, <2>3 DEF SettingsInv
    <3>2. Keys[n] \in Range(Keys)
      BY KeysFacts
    <3> QED
      BY <1>5, <1>6, <2>3, <3>1, <3>2 DEF StringRead
  <2> QED
    BY <2>2, <2>3
<1> QED
  BY <1>1, <1>7, <1>8, <1>9 DEF SettingsInv, DefaultsGoOn

LEMMA NextSettings == SettingsInv /\ [SettingsNext]_settingsVars => SettingsInv'
<1> SUFFICES ASSUME SettingsInv, [SettingsNext]_settingsVars PROVE SettingsInv'
  OBVIOUS
<1>1. CASE KeyMissing \/ AllRead \/ UNCHANGED settingsVars
  <2>1. UNCHANGED <<ini, key, read>>
    BY <1>1 DEF KeyMissing, AllRead, settingsVars
  <2>2. \A n : LinesOf(Keys[n])' = LinesOf(Keys[n]) /\ Found(Keys[n])' = Found(Keys[n])
    BY <2>1 DEF LinesOf, Found
  <2>3. /\ \A n \in 1..4 : n < key' => NumberRead(Keys[n])'
        /\ \A n \in 5..14 : n < key' => StringRead(Keys[n])'
    BY <2>1, <2>2 DEF SettingsInv, NumberRead, StringRead
  <2>4. \/ KeyMissing /\ ini # Defaults
        \/ spc' = "menu" /\ key = 15 /\ spc = "read"
        \/ spc' = spc
    <3>1. ASSUME KeyMissing, ini = Defaults PROVE FALSE
      <4>1. key \in 1..14 /\ LinesOf(Keys[key]) = {}
        BY <3>1, KeysFacts DEF KeyMissing, SettingsInv, SettingsTypeOK
      <4>2. Keys[key] \in Range(Keys)
        BY <4>1, KeysFacts
      <4>3. PICK n \in 1..14 : Defaults[n].key = Keys[key]
        BY <4>2, DefaultValues
      <4> QED
        BY <3>1, <4>1, <4>3, DefaultLines
    <3>2. ASSUME AllRead PROVE spc' = "menu" /\ key = 15 /\ spc = "read"
      <4>1. key \in 1..15 /\ key > 14 /\ spc' = "menu" /\ spc = "read"
        BY <3>2, KeysFacts DEF AllRead, SettingsInv, SettingsTypeOK
      <4> QED
        BY <4>1
    <3> QED
      BY <1>1, <3>1, <3>2 DEF settingsVars
  <2>5. KeyMissing => spc' = "crashed" /\ spc = "read"
    BY DEF KeyMissing
  <2> QED
    BY <2>1, <2>3, <2>4, <2>5 DEF SettingsInv, SettingsTypeOK, DefaultsGoOn
<1> QED
  BY <1>1, OpenIniInv, ReadOffsetInv, ReadStringInv DEF SettingsNext

LEMMA AlwaysSettings == SettingsSpec => []SettingsInv
BY InitSettings, NextSettings, PTL DEF SettingsSpec

(***************************************************************************)
(* Theorems.                                                               *)
(***************************************************************************)
(* Every setting that has been read has its type: no number is negative or *)
(* wider than an int.                                                      *)
THEOREM SettingsTypeCorrect == SettingsSpec => []SettingsTypeOK
<1>1. SettingsInv => SettingsTypeOK
  BY DEF SettingsInv
<1> QED
  BY <1>1, AlwaysSettings, PTL

(* A program that has to write its settings.ini reaches its menu with the  *)
(* settings it has written: each key it asks for stands in one line, no    *)
(* other line contains its name, and each number fits an int.              *)
THEOREM DefaultsSuffice == SettingsSpec => []DefaultsAreEnough
<1>1. ASSUME SettingsInv PROVE DefaultsAreEnough
  <2>1. SUFFICES ASSUME ini = Defaults, spc = "menu", NEW n \in 1..14
                 PROVE  read[ini[n].key] = Meant(ini[n])
    BY <1>1, DefaultValues DEF SettingsInv, DefaultsGoOn, DefaultsAreEnough
  <2> DEFINE k == ini[n].key
             v == ini[n].value
  <2>2. /\ Found(k) = v /\ k \in Range(Keys)
    <3>1. ini[n] \in IniLine
      BY <2>1, DefaultValues, ElementOfSeq, LenProperties
    <3>2. k \in Range(OffsetKeys) \/ k \in Range(StringKeys)
      BY <3>1 DEF IniLine
    <3> QED
      BY <2>1, <3>2, DefaultLines, KeysFacts
  <2>3. PICK j \in 1..14 : k = Keys[j]
    BY <2>2, KeyIndex
  <2>4. j < key
    <3>1. key = 15
      BY <1>1, <2>1 DEF SettingsInv
    <3> QED
      BY <3>1
  <2>5. CASE j \in 1..4
    <3>1. k \in Range(OffsetKeys)
      BY <2>3, <2>5, KeysFacts
    <3>2. NumberRead(k)
      BY <1>1, <2>3, <2>4, <2>5 DEF SettingsInv
    <3>3. v \in Seq(Chars) /\ Prefixed(v) /\ ParseOffset(v) # -1
      BY <2>1, <3>1, DefaultValues
    <3>4. ParseOffset(v) \in {Hex(SubSeq(v, 3, Len(v))), -1}
      BY <3>3, PrefixedIsRead
    <3> QED
      BY <2>2, <3>1, <3>2, <3>3, <3>4 DEF NumberRead, Meant
  <2>6. CASE j \in 5..14
    <3>1. k \in Range(StringKeys) /\ k \notin Range(OffsetKeys)
      BY <2>3, <2>6, KeysFacts
    <3>2. StringRead(k)
      BY <1>1, <2>3, <2>4, <2>6 DEF SettingsInv
    <3> QED
      BY <2>2, <3>1, <3>2 DEF StringRead, Meant
  <2> QED
    BY <2>5, <2>6
<1> QED
  BY <1>1, AlwaysSettings, PTL

(* A number with 0x before it is read as the number it is, and 0 as 0, for *)
(* numbers of any length with any digits, although strtok cuts the line at *)
(* the first 0 or x.                                                       *)
THEOREM NumbersAreRight == SettingsSpec => []NumbersAreRead
<1>1. ASSUME SettingsInv PROVE NumbersAreRead
  <2>1. SUFFICES ASSUME spc = "menu", NEW k \in Range(OffsetKeys)
                 PROVE  LET v == Found(k) IN
                        /\ Prefixed(v) => read[k] = Hex(SubSeq(v, 3, Len(v)))
                        /\ v = << 0 >> => read[k] = 0
    BY DEF NumbersAreRead
  <2>2. PICK n \in 1..4 : k = Keys[n]
    BY KeysFacts
  <2>3. NumberRead(k)
    <3>1. n < key
      BY <1>1, <2>1 DEF SettingsInv
    <3> QED
      BY <1>1, <2>2, <3>1 DEF SettingsInv
  <2>4. Found(k) \in Seq(Chars)
    BY <1>1, <2>1, <2>3, FoundType DEF SettingsInv, NumberRead
  <2>5. ASSUME Prefixed(Found(k)) PROVE read[k] = Hex(SubSeq(Found(k), 3, Len(Found(k))))
    <3>1. ParseOffset(Found(k)) \in {Hex(SubSeq(Found(k), 3, Len(Found(k)))), -1}
      BY <2>4, <2>5, PrefixedIsRead
    <3> QED
      BY <2>3, <3>1 DEF NumberRead
  <2>6. ASSUME Found(k) = << 0 >> PROVE read[k] = 0
    BY <2>3, <2>6, ZeroIsRead DEF NumberRead
  <2> QED
    BY <2>5, <2>6
<1> QED
  BY <1>1, AlwaysSettings, PTL
=============================================================================
