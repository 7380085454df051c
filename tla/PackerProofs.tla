---------------------------- MODULE PackerProofs -----------------------------
(***************************************************************************)
(* Theorems about Packer, for any files, directories, contents, builds and *)
(* bounds.                                                                 *)
(***************************************************************************)
EXTENDS Packer, SequenceTheorems, TLAPS

packing == {"ask", "magic", "dir", "start", "lines"}
inFile  == {"dir", "start", "lines"}

LEMMA CellType ==
  /\ \A b \in Builds : [kind |-> "exe", arg |-> b] \in Cell
  /\ \A n \in Names : Line("start", n) \in Cell /\ Line("end", n) \in Cell
  /\ \A d \in Dirs : Line("dir", d) \in Cell
  /\ \A k \in Nat : Line("size", k) \in Cell
  /\ Magic \in Cell /\ [kind |-> "zero", arg |-> NoName] \in Cell
BY DEF Cell, Line, Magic

LEMMA CellArgs ==
  ASSUME NEW c \in Cell
  PROVE  /\ c.kind \in {"exe", "start", "end", "dir", "size", "text", "zero", "magic"}
         /\ c.kind = "start" => c.arg \in Names
         /\ c.kind = "dir" => c.arg \in Dirs
         /\ c.kind = "size" => c.arg \in Nat
         /\ c.kind = "magic" => c = Magic
BY DEF Cell, Line, Magic

LEMMA ExeType ==
  ASSUME NEW b \in Builds
  PROVE  Exe(b) \in File
<1>1. SizeOf[b] \in Nat
  BY PackerAssumption
<1> QED
  BY <1>1, CellType, SeqDef DEF Exe, File

LEMMA ZerosType ==
  ASSUME NEW n \in Nat
  PROVE  Zeros(n) \in File /\ Len(Zeros(n)) = n
<1>1. Zeros(n) \in [1..n -> Cell]
  BY CellType DEF Zeros
<1>2. Zeros(n) \in Seq(Cell)
  BY <1>1, SeqDef
<1>3. DOMAIN Zeros(n) = 1..n /\ DOMAIN Zeros(n) = 1..Len(Zeros(n)) /\ Len(Zeros(n)) \in Nat
  BY <1>1, <1>2, LenProperties
<1> QED
  BY <1>2, <1>3 DEF File

(***************************************************************************)
(* Appending to a file and writing into it at an offset.                   *)
(***************************************************************************)
LEMMA AppendFile ==
  ASSUME NEW f \in File, NEW c \in Cell
  PROVE  /\ Append(f, c) \in File
         /\ Len(f) \in Nat /\ Len(Append(f, c)) = Len(f) + 1
         /\ DOMAIN f = 1..Len(f) /\ DOMAIN Append(f, c) = 1..(Len(f) + 1)
         /\ \A k \in 1..Len(f) : Append(f, c)[k] = f[k]
         /\ Append(f, c)[Len(f) + 1] = c
BY AppendProperties, LenProperties DEF File

LEMMA WriteAtFile ==
  ASSUME NEW f \in File, NEW n \in Nat, NEW c \in Cell
  PROVE  /\ WriteAt(f, n, c) \in File
         /\ Len(WriteAt(f, n, c)) = (IF n < Len(f) THEN Len(f) ELSE n + 1)
         /\ WriteAt(f, n, c)[n + 1] = c
         /\ \A k \in 1..Len(f) : k # n + 1 => WriteAt(f, n, c)[k] = f[k]
<1>1. Len(f) \in Nat /\ f \in Seq(Cell) /\ DOMAIN f = 1..Len(f)
  BY LenProperties DEF File
<1>2. CASE n < Len(f)
  <2>1. WriteAt(f, n, c) = [f EXCEPT ![n + 1] = c]
    BY <1>2 DEF WriteAt
  <2>2. n + 1 \in 1..Len(f)
    BY <1>1, <1>2
  <2> QED
    BY <1>1, <1>2, <2>1, <2>2, ExceptSeq DEF File
<1>3. CASE ~(n < Len(f))
  <2> DEFINE z == Zeros(n - Len(f))
             g == f \o z
  <2>1. WriteAt(f, n, c) = Append(g, c)
    <3>1. WriteAt(f, n, c) = f \o z \o <<c>>
      BY <1>3 DEF WriteAt
    <3>2. g \in Seq(Cell)
      BY <1>1, <1>3, ZerosType, ConcatProperties DEF File
    <3> QED
      BY <3>1, <3>2, AppendIsConcat
  <2>2. z \in Seq(Cell) /\ Len(z) = n - Len(f)
    BY <1>1, <1>3, ZerosType DEF File
  <2>3. /\ g \in Seq(Cell) /\ Len(g) = n
        /\ \A k \in 1..Len(f) : g[k] = f[k]
    BY <1>1, <1>3, <2>2, ConcatProperties
  <2> HIDE DEF g
  <2>4. /\ Append(g, c) \in File /\ Len(Append(g, c)) = n + 1
        /\ \A k \in 1..n : Append(g, c)[k] = g[k]
        /\ Append(g, c)[n + 1] = c
    BY <2>3, AppendFile DEF File
  <2> HIDE DEF z
  <2> QED
    BY <1>1, <1>3, <2>1, <2>3, <2>4
<1> QED
  BY <1>2, <1>3

LEMMA ResizedFile ==
  ASSUME NEW f \in File, NEW n \in Nat
  PROVE  Resized(f, n) \in File
<1>1. Len(f) \in Nat /\ f \in Seq(Cell)
  BY LenProperties DEF File
<1>2. CASE n <= Len(f)
  BY <1>1, <1>2, SubSeqProperties DEF Resized, File
<1>3. CASE ~(n <= Len(f))
  BY <1>1, <1>3, ZerosType, ConcatProperties DEF Resized, File
<1> QED
  BY <1>2, <1>3

LEMMA SizesType ==
  ASSUME NEW f \in File
  PROVE  SizesIn(f) \subseteq Nat
<1>1. ASSUME f # <<>> PROVE f[Len(f)] \in Cell
  BY <1>1, EmptySeq, LenProperties, ElementOfSeq DEF File
<1> QED
  BY <1>1, CellArgs, PackerAssumption DEF SizesIn

(***************************************************************************)
(* The inductive invariant.  As long as only the program that pac.exe was  *)
(* made from packs files, PACKERMAGIC lies behind the copy of the program, *)
(* or that place holds a size, or pac.exe does not reach as far.           *)
(***************************************************************************)
Known == same /\ pac # NoFile

MagicPlace ==
  /\ pc \in packing \union {"copy"} => pac # NoFile /\ uname # NoFile
  /\ Known /\ pc \in packing \union {"copy"} => uname = base
  /\ Known /\ pc \in inFile => Len(pac) > Len(base)
  /\ Known /\ Len(pac) > Len(base) => pac[Len(base) + 1].kind \in {"magic", "size"}
  /\ Known /\ pc = "copy" => pac = <<>>

PackTypes ==
  /\ pc \in inFile \union {"magic"} => name \in Names
  /\ pc = "lines" => files[name] # NoFile
  /\ pc \in {"clone", "size", "unpack", "unpacked"} => pac # NoFile /\ uname # NoFile
  /\ pc \in {"lines", "unpack"} => at # 0
  /\ started /\ outfile # NoName => /\ files[outfile] # NoFile
                                    /\ pc \in {"unpack", "unpacked"}

IInv == TypeOK /\ PackTypes /\ MagicPlace

(* The steps that leave pac.exe alone and do not go on with packing.       *)
Aside ==
  /\ UNCHANGED <<pac, base, same>>
  /\ pc' \notin packing \union {"copy"}

LEMMA InitInv == Init => IInv
<1> SUFFICES ASSUME Init PROVE IInv
  OBVIOUS
<1>1. uname \in File /\ base \in File
  BY ExeType DEF Init
<1>2. TypeOK
  BY <1>1, PackerAssumption DEF Init, TypeOK
<1>3. PackTypes /\ MagicPlace
  BY DEF Init, PackTypes, MagicPlace, Known, packing, inFile
<1> QED
  BY <1>2, <1>3 DEF IInv

(***************************************************************************)
(* The steps of packing.                                                   *)
(***************************************************************************)
LEMMA OpenPackInv ==
  ASSUME IInv, NEW c \in {3, 4}, OpenPack(c)
  PROVE  IInv'
<1> USE DEF IInv, OpenPack, pack, unpack
<1>1. uname \in File /\ (pac # NoFile => pac \in File)
  BY DEF TypeOK
<1>2. <<>> \in File /\ Len(<<>>) = 0 /\ Len(uname) \in Nat
  BY <1>1, EmptySeq, LenProperties DEF File
<1>3. TypeOK'
  BY <1>1, <1>2 DEF TypeOK
<1>4. PackTypes'
  BY DEF PackTypes, inFile
<1>5. MagicPlace'
  <2>1. CASE pac = NoFile
    BY <1>1, <1>2, <2>1, PackerAssumption DEF MagicPlace, Known, packing, inFile
  <2>2. CASE pac # NoFile
    BY <2>2 DEF MagicPlace, Known, packing, inFile
  <2> QED
    BY <2>1, <2>2
<1> QED
  BY <1>3, <1>4, <1>5

LEMMA CopiedInv ==
  ASSUME IInv, Copied
  PROVE  IInv'
<1> USE DEF IInv, Copied, disk, pack, unpack, history
<1>1. TypeOK'
  BY DEF TypeOK
<1>2. PackTypes'
  BY DEF PackTypes, inFile
<1>3. MagicPlace'
  <2>1. pac # NoFile /\ uname # NoFile /\ base \in File
    BY DEF MagicPlace, TypeOK
  <2>2. Len(base) \in Nat /\ ~(Len(base) > Len(base))
    BY <2>1, LenProperties DEF File
  <2> QED
    BY <2>1, <2>2 DEF MagicPlace, Known, packing, inFile
<1> QED
  BY <1>1, <1>2, <1>3

LEMMA BeginFileInv ==
  ASSUME IInv, (\E n \in Names : PackFile(n)) \/ (\E d \in Dirs : PackDirectory(d))
  PROVE  IInv'
<1> USE DEF IInv, PackFile, PackDirectory, disk, unpack, history
<1>1. TypeOK'
  BY DEF TypeOK
<1>2. PackTypes'
  BY DEF PackTypes, inFile
<1>3. MagicPlace'
  BY DEF MagicPlace, Known, packing, inFile
<1> QED
  BY <1>1, <1>2, <1>3

LEMMA WriteMagicInv ==
  ASSUME IInv, WriteMagic
  PROVE  /\ IInv'
         /\ Known => \A k \in DOMAIN pac :
              k \in DOMAIN pac' /\ (pac'[k] = pac[k] \/ pac[k].kind = "size")
<1> USE DEF IInv, WriteMagic, Packing, pack, unpack
<1>1. uname \in File /\ pac \in File /\ pac # NoFile /\ uname # NoFile /\ base \in File
  BY DEF TypeOK, MagicPlace, packing
<1>2. /\ Len(uname) \in Nat /\ Len(base) \in Nat /\ Len(pac) \in Nat
      /\ DOMAIN pac = 1..Len(pac)
  BY <1>1, LenProperties DEF File
<1>3. /\ pac' \in File
      /\ Len(pac') = IF Len(uname) < Len(pac) THEN Len(pac) ELSE Len(uname) + 1
      /\ pac'[Len(uname) + 1] = Magic
      /\ \A k \in 1..Len(pac) : k # Len(uname) + 1 => pac'[k] = pac[k]
  <2>1. pac' = WriteAt(pac, Len(uname), Magic) /\ Magic \in Cell
    BY CellType
  <2> HIDE DEF IInv, WriteMagic, Packing, pack, unpack
  <2> DEFINE w == WriteAt(pac, Len(uname), Magic)
  <2>2. /\ w \in File
        /\ Len(w) = (IF Len(uname) < Len(pac) THEN Len(pac) ELSE Len(uname) + 1)
        /\ w[Len(uname) + 1] = Magic
        /\ \A k \in 1..Len(pac) : k # Len(uname) + 1 => w[k] = pac[k]
    BY <1>1, <1>2, <2>1, WriteAtFile
  <2>3. pac' = w
    BY <2>1
  <2> HIDE DEF w
  <2> QED
    BY <2>2, <2>3
<1>4. DOMAIN pac' = 1..Len(pac')
  BY <1>3, LenProperties DEF File
<1>5. Known => uname = base
  BY DEF MagicPlace, packing
<1>6. TypeOK'
  BY <1>3 DEF TypeOK
<1>7. PackTypes'
  BY DEF PackTypes, inFile
<1>8. MagicPlace'
  BY <1>1, <1>2, <1>3, <1>5, PackerAssumption DEF MagicPlace, Known, packing, Magic, Line
<1>9. ASSUME Known, NEW k \in DOMAIN pac
      PROVE  k \in DOMAIN pac' /\ (pac'[k] = pac[k] \/ pac[k].kind = "size")
  <2>1. k \in DOMAIN pac'
    BY <1>2, <1>3, <1>4
  <2>2. pac[k] \in Cell
    BY <1>1, <1>2, ElementOfSeq DEF File
  <2>3. CASE k # Len(uname) + 1
    BY <1>2, <1>3, <2>1, <2>3
  <2>4. CASE k = Len(uname) + 1
    BY <1>2, <1>3, <1>5, <1>9, <2>1, <2>2, <2>4, CellArgs DEF MagicPlace
  <2> QED
    BY <2>3, <2>4
<1> QED
  BY <1>6, <1>7, <1>8, <1>9

(* A line behind the end, while a file is packed.                          *)
LEMMA AppendPlace ==
  ASSUME IInv, pc \in inFile, NEW c \in Cell, pac' = Append(pac, c),
         UNCHANGED <<uname, base, same>>, pc' \in packing
  PROVE  MagicPlace' /\ pac' \in File
<1>1. /\ pac \in File /\ base \in File /\ pac # NoFile
      /\ uname # NoFile /\ (Known => uname = base /\ Len(pac) > Len(base))
  BY DEF IInv, TypeOK, MagicPlace, packing, inFile
<1>2. /\ pac' \in File /\ Len(pac') = Len(pac) + 1 /\ Len(pac) \in Nat
      /\ \A k \in 1..Len(pac) : pac'[k] = pac[k]
  BY <1>1, AppendFile
<1>3. Len(base) \in Nat
  BY <1>1, LenProperties DEF File
<1>4. pac' # NoFile /\ pc' # "copy"
  BY <1>2, PackerAssumption DEF packing
<1>5. Known => Len(pac') > Len(base) /\ pac'[Len(base) + 1].kind \in {"magic", "size"}
  BY <1>1, <1>2, <1>3 DEF IInv, MagicPlace
<1> QED
  BY <1>1, <1>2, <1>4, <1>5 DEF MagicPlace, Known

LEMMA KeepPlace ==
  ASSUME IInv, pc \in inFile, UNCHANGED <<uname, pac, base, same>>, pc' \in packing
  PROVE  MagicPlace'
BY DEF IInv, MagicPlace, Known, packing, inFile

LEMMA WriteDirInv ==
  ASSUME IInv, WriteDir
  PROVE  IInv'
<1> USE DEF IInv, WriteDir, Packing, pack, unpack
<1>1. PackTypes'
  BY DEF PackTypes, inFile
<1>2. CASE pth = Here
  BY <1>1, <1>2, KeepPlace DEF TypeOK, inFile, packing
<1>3. CASE pth # Here
  <2>1. Line("dir", pth) \in Cell
    BY <1>3, CellType DEF TypeOK
  <2>2. MagicPlace' /\ pac' \in File
    BY <1>3, <2>1, AppendPlace DEF inFile, packing
  <2> QED
    BY <1>1, <2>2 DEF TypeOK
<1> QED
  BY <1>2, <1>3

LEMMA OpenFileInv ==
  ASSUME IInv, OpenFile
  PROVE  IInv'
<1> USE DEF IInv, OpenFile, Packing, pack, unpack
<1>1. Line("start", name) \in Cell
  BY CellType DEF PackTypes, inFile
<1>2. MagicPlace' /\ pac' \in File
  BY <1>1, AppendPlace DEF inFile, packing
<1>3. PackTypes'
  BY DEF PackTypes, inFile
<1> QED
  BY <1>2, <1>3 DEF TypeOK

LEMMA CopyLineInv ==
  ASSUME IInv, CopyLine
  PROVE  IInv'
<1> USE DEF IInv, CopyLine, Packing, pack, unpack
<1>1. files[name] \in File /\ at \in Nat /\ at # 0
  BY DEF TypeOK, PackTypes, inFile
<1>2. files[name][at] \in Cell
  BY <1>1, LenProperties, ElementOfSeq DEF File
<1>3. MagicPlace' /\ pac' \in File
  BY <1>2, AppendPlace DEF inFile, packing
<1>4. PackTypes'
  BY <1>1 DEF PackTypes, inFile
<1> QED
  BY <1>1, <1>3, <1>4 DEF TypeOK

LEMMA WriteEndInv ==
  ASSUME IInv, WriteEnd
  PROVE  IInv'
<1> USE DEF IInv, WriteEnd, Packing, unpack
<1>1. name \in Names /\ todo \subseteq Names /\ Line("end", name) \in Cell
  BY CellType DEF TypeOK, PackTypes, inFile
<1>2. pc' \in {"ask", "magic"}
  OBVIOUS
<1>3. MagicPlace' /\ pac' \in File
  BY <1>1, <1>2, AppendPlace DEF inFile, packing
<1>4. PackTypes'
  BY <1>1, <1>2 DEF PackTypes, inFile
<1>5. TypeOK'
  BY <1>1, <1>2, <1>3 DEF TypeOK
<1> QED
  BY <1>3, <1>4, <1>5

LEMMA WriteSizeInv ==
  ASSUME IInv, WriteSize
  PROVE  IInv'
<1> USE DEF IInv, WriteSize, ToMenu, history
<1>1. /\ pac \in File /\ uname \in File /\ base \in File
      /\ Len(uname) \in Nat /\ Len(base) \in Nat
  BY LenProperties DEF TypeOK, MagicPlace, packing, File
<1>2. Line("size", Len(uname)) \in Cell
  BY <1>1, CellType
<1>3. /\ pac' \in File /\ Len(pac') = Len(pac) + 1 /\ Len(pac) \in Nat
      /\ \A k \in 1..Len(pac) : pac'[k] = pac[k]
      /\ pac'[Len(pac) + 1] = Line("size", Len(uname))
  BY <1>1, <1>2, AppendFile
<1>4. TypeOK'
  BY <1>3 DEF TypeOK
<1>5. PackTypes'
  BY DEF PackTypes, inFile
<1>6. ASSUME same, Len(pac') > Len(base)
      PROVE  pac'[Len(base) + 1].kind \in {"magic", "size"}
  <2>1. Known
    BY <1>6 DEF Known, MagicPlace, packing
  <2>2. CASE Len(pac) > Len(base)
    BY <1>1, <1>3, <2>1, <2>2 DEF MagicPlace
  <2>3. CASE ~(Len(pac) > Len(base))
    <3>1. Len(base) = Len(pac)
      BY <1>1, <1>3, <1>6, <2>3
    <3> QED
      BY <1>3, <3>1 DEF Line
  <2> QED
    BY <2>2, <2>3
<1>7. MagicPlace'
  BY <1>6 DEF MagicPlace, Known, packing, inFile
<1> QED
  BY <1>4, <1>5, <1>7

(***************************************************************************)
(* Everything else.                                                        *)
(***************************************************************************)
LEMMA AsidePlace ==
  ASSUME IInv, Aside
  PROVE  MagicPlace'
BY DEF IInv, Aside, MagicPlace, Known, packing, inFile

LEMMA ToMenuTypes ==
  ASSUME IInv, ToMenu, UNCHANGED <<disk, base, same, packed, alone>>,
         whole' \in BOOLEAN, events' \in Nat
  PROVE  IInv'
<1>1. TypeOK'
  BY DEF IInv, TypeOK, ToMenu, disk
<1>2. PackTypes'
  BY DEF PackTypes, ToMenu, inFile
<1>3. MagicPlace'
  BY AsidePlace DEF Aside, ToMenu, disk, packing
<1> QED
  BY <1>1, <1>2, <1>3 DEF IInv

LEMMA EndsInv ==
  ASSUME IInv, PackingFails \/ NoSize \/ Unpacked \/ Kill
  PROVE  IInv'
<1>1. /\ ToMenu /\ UNCHANGED <<disk, base, same, packed, alone>>
      /\ whole' \in BOOLEAN /\ events' \in Nat
  <2>1. CASE PackingFails
    BY <2>1 DEF PackingFails, IInv, TypeOK
  <2>2. CASE NoSize \/ Unpacked
    BY <2>2 DEF NoSize, Unpacked, history, IInv, TypeOK
  <2>3. CASE Kill
    BY <2>3 DEF Kill, Event, IInv, TypeOK
  <2> QED
    BY <2>1, <2>2, <2>3
<1> QED
  BY <1>1, ToMenuTypes

LEMMA OpenUnpackInv ==
  ASSUME IInv, OpenUnpack \/ Cloned
  PROVE  IInv'
<1>1. <<>> \in File /\ <<>> # NoFile
  BY EmptySeq, PackerAssumption DEF File
<1>2. TypeOK'
  BY <1>1 DEF IInv, TypeOK, OpenUnpack, Cloned, pack, unpack, history
<1>3. PackTypes'
  BY <1>1 DEF IInv, PackTypes, inFile, OpenUnpack, Cloned, pack, unpack
<1>4. MagicPlace'
  BY AsidePlace DEF Aside, OpenUnpack, Cloned, packing, history
<1> QED
  BY <1>2, <1>3, <1>4 DEF IInv

LEMMA ReadSizeInv ==
  ASSUME IInv, ReadSize
  PROVE  IInv'
<1> USE DEF IInv, ReadSize, disk, pack, history
<1>1. uname \in File
  BY DEF TypeOK, PackTypes
<1>2. ret' \in Nat /\ at' \in Nat /\ at' # 0
  BY <1>1, SizesType
<1>3. TypeOK'
  BY <1>2 DEF TypeOK
<1>4. PackTypes'
  BY <1>2 DEF PackTypes, inFile
<1>5. MagicPlace'
  BY AsidePlace DEF Aside, packing
<1> QED
  BY <1>3, <1>4, <1>5

LEMMA ReadingInv ==
  ASSUME IInv, ReadDir \/ ReadStart \/ ReadEnd \/ ReadOther \/ ReadExe
  PROVE  IInv'
<1>1. /\ pc = "unpack" /\ at <= Len(pac) /\ at' = at + 1
      /\ UNCHANGED <<uname, pac, pc, choice, pack, ret, events, history>>
  BY DEF ReadDir, ReadStart, ReadEnd, ReadOther, ReadExe, Reading
<1>2. pac \in File /\ pac # NoFile /\ uname # NoFile /\ at \in Nat \ {0}
  BY <1>1 DEF IInv, TypeOK, PackTypes
<1>3. pac[at] \in Cell
  BY <1>1, <1>2, LenProperties, ElementOfSeq DEF File
<1>4. <<>> \in File /\ <<>> # NoFile
  BY EmptySeq, PackerAssumption DEF File
<1>5. /\ files' \in [Names -> File \union {NoFile}]
      /\ dirs' \subseteq Dirs /\ started' \in BOOLEAN /\ outfile' \in Names \union {NoName}
      /\ started' /\ outfile' # NoName => files'[outfile'] # NoFile
  <2>1. CASE ReadDir \/ ReadOther
    <3>1. /\ WriteLine /\ UNCHANGED <<started, outfile>> /\ dirs' \subseteq Dirs
      BY <1>3, <2>1, CellArgs DEF ReadDir, ReadOther, Reading, IInv, TypeOK
    <3>2. CASE started /\ outfile # NoName
      <4>1. /\ outfile \in Names /\ files[outfile] \in File
            /\ files \in [Names -> File \union {NoFile}]
        BY <3>2 DEF IInv, TypeOK, PackTypes
      <4>2. Append(files[outfile], pac[at]) \in File
        BY <1>3, <4>1, AppendFile
      <4>3. files' = [files EXCEPT ![outfile] = Append(files[outfile], pac[at])]
        BY <3>1, <3>2 DEF WriteLine
      <4> QED
        BY <3>1, <3>2, <4>1, <4>2, <4>3, PackerAssumption
    <3>3. CASE ~(started /\ outfile # NoName)
      BY <3>1, <3>3 DEF WriteLine, IInv, TypeOK
    <3> QED
      BY <3>2, <3>3
  <2>2. CASE ReadStart
    <3> DEFINE n == pac[at].arg
    <3>1. n \in Names
      BY <1>3, <2>2, CellArgs DEF ReadStart, Reading
    <3>2. /\ started' = TRUE /\ UNCHANGED dirs
          /\ outfile' = IF Exists(DirOf[n]) THEN n ELSE NoName
          /\ files' = IF Exists(DirOf[n]) THEN [files EXCEPT ![n] = <<>>] ELSE files
      BY <2>2 DEF ReadStart
    <3> HIDE DEF n
    <3> QED
      BY <1>4, <3>1, <3>2, PackerAssumption DEF IInv, TypeOK
  <2>3. CASE ReadEnd \/ ReadExe
    BY <2>3 DEF ReadEnd, ReadExe, IInv, TypeOK
  <2> QED
    BY <2>1, <2>2, <2>3
<1>6. TypeOK'
  BY <1>1, <1>2, <1>5 DEF IInv, TypeOK, pack, history
<1>7. PackTypes'
  BY <1>1, <1>2, <1>5 DEF IInv, PackTypes, pack, inFile
<1>8. MagicPlace'
  BY <1>1, AsidePlace DEF Aside, packing, history
<1> QED
  BY <1>6, <1>7, <1>8 DEF IInv

LEMMA CleanUpInv ==
  ASSUME IInv, CleanUp
  PROVE  IInv'
<1> USE DEF IInv, CleanUp, pack, unpack, history
<1>1. uname \in File /\ ret \in Nat
  BY DEF TypeOK, PackTypes
<1>2. uname' \in File /\ uname' # NoFile
  BY <1>1, ResizedFile, PackerAssumption
<1>3. TypeOK'
  BY <1>2 DEF TypeOK
<1>4. PackTypes'
  BY <1>2 DEF PackTypes, inFile
<1>5. MagicPlace'
  BY AsidePlace DEF Aside, packing
<1> QED
  BY <1>3, <1>4, <1>5

LEMMA UserInv ==
  ASSUME IInv, \/ \E n \in Names, c \in Contents : Edit(n, c)
               \/ \E b \in Builds : Rebuild(b)
               \/ Send
  PROVE  IInv'
<1>1. Aside /\ UNCHANGED <<pc, choice, pack, at, unpack, history>> /\ pc = "menu"
  BY DEF Edit, Rebuild, Send, Aside, packing, history
<1>2. TypeOK'
  BY <1>1, ExeType, PackerAssumption
     DEF IInv, TypeOK, Edit, Rebuild, Send, Event, pack, unpack, history
<1>3. PackTypes'
  BY <1>1 DEF IInv, PackTypes, inFile, pack, unpack
<1> QED
  BY <1>1, <1>2, <1>3, AsidePlace DEF IInv

LEMMA NextInv == IInv /\ [Next]_vars => IInv'
<1> SUFFICES ASSUME IInv, [Next]_vars PROVE IInv'
  OBVIOUS
<1>1. CASE Pack
  BY <1>1, OpenPackInv, CopiedInv, BeginFileInv, WriteMagicInv, WriteDirInv,
     OpenFileInv, CopyLineInv, WriteEndInv, WriteSizeInv, EndsInv DEF Pack
<1>2. CASE Unpack
  BY <1>2, OpenUnpackInv, ReadSizeInv, EndsInv, ReadingInv, CleanUpInv DEF Unpack
<1>3. CASE User
  BY <1>3, UserInv, EndsInv DEF User
<1>4. CASE UNCHANGED vars
  BY <1>4 DEF vars, disk, pack, unpack, history, IInv, TypeOK, PackTypes, MagicPlace, Known
<1> QED
  BY <1>1, <1>2, <1>3, <1>4 DEF Next

LEMMA Invariance == Spec => []IInv
  BY InitInv, NextInv, PTL DEF Spec

(***************************************************************************)
(* What one step does to pac.exe.                                          *)
(***************************************************************************)
Overwrites(f, g) ==
  \E k \in DOMAIN f : ~(k \in DOMAIN g /\ (g[k] = f[k] \/ f[k].kind = "size"))

LEMMA AppendKeeps ==
  ASSUME NEW f \in File, NEW c \in Cell
  PROVE  ~Overwrites(f, f) /\ ~Overwrites(f, Append(f, c))
BY AppendFile DEF Overwrites

LEMMA NothingLost ==
  ASSUME IInv, Known, [Next]_vars
  PROVE  ~Overwrites(pac, pac')
<1>1. pac \in File /\ ~Overwrites(pac, pac)
  BY DEF IInv, TypeOK, Known, Overwrites
<1>2. CASE WriteMagic
  BY <1>2, WriteMagicInv DEF Overwrites
<1>3. CASE Copied
  <2>1. pac = <<>>
    BY <1>3 DEF Copied, IInv, MagicPlace
  <2> QED
    BY <2>1 DEF Overwrites
<1>4. CASE WriteDir \/ OpenFile \/ CopyLine \/ WriteEnd \/ WriteSize
  <2>1. ASSUME WriteDir, pth # Here PROVE Line("dir", pth) \in Cell
    BY <2>1, CellType DEF IInv, TypeOK
  <2>2. ASSUME OpenFile \/ WriteEnd
        PROVE  Line("start", name) \in Cell /\ Line("end", name) \in Cell
    BY <2>2, CellType DEF IInv, PackTypes, OpenFile, WriteEnd, Packing, inFile
  <2>3. ASSUME CopyLine PROVE files[name][at] \in Cell
    <3>1. files[name] \in File /\ at \in 1..Len(files[name])
      BY <2>3, LenProperties DEF IInv, TypeOK, PackTypes, CopyLine, Packing, inFile, File
    <3> QED
      BY <3>1, ElementOfSeq DEF File
  <2>4. ASSUME WriteSize PROVE Line("size", Len(uname)) \in Cell
    <3>1. uname \in File
      BY <2>4 DEF WriteSize, IInv, TypeOK, MagicPlace, packing
    <3> QED
      BY <3>1, CellType, LenProperties DEF File
  <2> QED
    BY <1>1, <1>4, <2>1, <2>2, <2>3, <2>4, AppendKeeps
       DEF WriteDir, OpenFile, CopyLine, WriteEnd, WriteSize
<1>5. CASE pac' = pac
  BY <1>1, <1>5
<1>6. \/ pac' = pac \/ WriteMagic \/ Copied
      \/ WriteDir \/ OpenFile \/ CopyLine \/ WriteEnd \/ WriteSize
  <2>1. CASE Pack
    BY <2>1 DEF Pack, Known, PackingFails, OpenPack, PackFile, PackDirectory,
       disk, pack
  <2>2. CASE Unpack
    BY <2>2 DEF Unpack, OpenUnpack, Cloned, ReadSize, NoSize, ReadDir, ReadStart, ReadEnd,
       ReadOther, ReadExe, CleanUp, Unpacked, Reading, disk
  <2>3. CASE User
    BY <2>3 DEF User, Edit, Rebuild, Send, Kill, disk
  <2> QED
    BY <2>1, <2>2, <2>3 DEF Next, vars, disk
<1> QED
  BY <1>2, <1>3, <1>4, <1>5, <1>6

(***************************************************************************)
(* Theorems.                                                               *)
(***************************************************************************)
(* Every variable keeps its type through any sessions of packing and       *)
(* unpacking: nothing is read behind a file's end, no marker names a file  *)
(* that is none, no size is negative.                                      *)
THEOREM TypeCorrect == Spec => []TypeOK
<1>1. IInv => TypeOK
  BY DEF IInv
<1> QED
  BY <1>1, Invariance, PTL

(* Packing into the middle of a pac.exe overwrites nothing but a size that *)
(* a session without any file has left, for any files, sizes of the        *)
(* program and number of sessions, killed ones included.                   *)
THEOREM PackingKeeps == Spec => NothingOverwritten
<1>1. IInv /\ [Next]_vars =>
        [same /\ pac # NoFile =>
           \A k \in DOMAIN pac : k \in DOMAIN pac' /\ (pac'[k] = pac[k] \/ pac[k].kind = "size")]_vars
  BY NothingLost DEF Known, Overwrites
<1> QED
  BY <1>1, Invariance, PTL DEF Spec, NothingOverwritten

-----------------------------------------------------------------------------
(***************************************************************************)
(* What is packed comes back.                                              *)
(*                                                                         *)
(* What stands in pac.exe for one file, n, with the content "text": its    *)
(* start, the lines, its end, no later start of the same file, and the     *)
(* line of its directory, if there is one, before it.  The first m cells   *)
(* are the program.                                                        *)
(***************************************************************************)
HasDirIn(f, d) == \E k \in DOMAIN f : f[k] = Line("dir", d)

RecordIn(f, text, n, s, m) ==
  /\ s \in (m + 1)..Len(f) /\ s + Len(text) + 1 <= Len(f)
  /\ f[s] = Line("start", n)
  /\ \A j \in 1..Len(text) : f[s + j] = text[j]
  /\ f[s + Len(text) + 1] = Line("end", n)
  /\ \A k \in (s + 1)..Len(f) : f[k] # Line("start", n)
  /\ HasDirIn(f, DirOf[n]) => \E k \in 1..(s - 1) : f[k] = Line("dir", DirOf[n])

(* Sessions that RoundTrip speaks of, and the files that are being packed  *)
(* anew.                                                                   *)
Good    == same /\ whole /\ pac # NoFile
Pending == IF pc \in inFile \union {"magic"} THEN todo \union {name} ELSE {}

(***************************************************************************)
(* The inductive invariant for RoundTrip.  pac.exe begins with the program *)
(* and, when nothing is being packed, ends with its size; each file that   *)
(* has been packed and is not being packed anew is recorded.  Of a file    *)
(* that has been packed and has no directory line yet it takes that it is  *)
(* there when its directory is packed, and then becomes one of those being *)
(* packed.                                                                 *)
(***************************************************************************)
BeginsWithBase ==
  pc # "copy" => Len(pac) >= Len(base) /\ \A k \in 1..Len(base) : pac[k] = base[k]

EndsWithSize ==
  pc \notin packing \union {"copy"} =>
    Len(pac) > Len(base) /\ pac[Len(pac)] = Line("size", Len(base))

PresentIfNoDir ==
  \A n \in Names : DirOf[n] \in dirs /\ packed[n] # NoFile /\ ~HasDirIn(pac, DirOf[n])
    => files[n] # NoFile

WholeDirectory ==
  pc \in inFile \union {"magic"} /\ pth # Here =>
    /\ pth \in dirs
    /\ \A n \in Names : DirOf[n] = pth /\ files[n] # NoFile => n \in todo \union {name}

Recorded ==
  pc # "copy" =>
  \A n \in Names : packed[n] # NoFile =>
    /\ Plain(packed[n])
    /\ n \in Pending \/ \E s \in DOMAIN pac : RecordIn(pac, packed[n], n, s, Len(base))

(* the file that is being packed *)
BeingWritten ==
  pc = "lines" =>
    LET s == Len(pac) - (at - 1) IN
    /\ Plain(files[name]) /\ at <= Len(files[name]) + 1
    /\ s > Len(base) /\ pac[s] = Line("start", name)
    /\ \A j \in 1..(at - 1) : pac[s + j] = files[name][j]

(* What unpacking in another place has done so far. *)
UnpackedSoFar(n, s) ==
  LET m == Len(packed[n]) IN
  /\ s < at /\ at <= s + m + 1 =>
       started /\ outfile = n /\ files[n] = SubSeq(packed[n], 1, at - s - 1)
  /\ s + m + 1 < at => files[n] = packed[n] /\ ~(started /\ outfile = n)

Unpacking ==
  /\ pc = "size" => uname = pac
  /\ pc = "unpack" =>
       /\ uname = pac /\ ret = Len(base) /\ at > Len(base)
       /\ \A k \in (Len(base) + 1)..(at - 1) :
            k \in DOMAIN pac /\ pac[k].kind = "dir" => pac[k].arg \in dirs
       /\ \A n \in Names, s \in DOMAIN pac :
            Kept(n) /\ RecordIn(pac, packed[n], n, s, Len(base)) => UnpackedSoFar(n, s)

TripInv ==
  /\ pc \in packing \union {"copy"} => choice # 5
  /\ \A k \in DOMAIN base : base[k].kind = "exe"
  /\ pac = NoFile => \A k \in DOMAIN uname : uname[k].kind = "exe"
  /\ pac = NoFile \/ pc = "copy" => \A n \in Names : packed[n] = NoFile
  /\ Good => /\ BeginsWithBase /\ EndsWithSize /\ PresentIfNoDir /\ WholeDirectory
             /\ Recorded /\ BeingWritten
             /\ alone => Unpacking
  /\ RoundTrip

(***************************************************************************)
(* A file that keeps what is recorded in another.                          *)
(***************************************************************************)
Extends(f, g) ==
  /\ Len(f) <= Len(g)
  /\ \A k \in 1..Len(f) : g[k] = f[k] \/ (f[k].kind \in {"magic", "size"} /\ g[k] = Magic)

NewFor(f, g, n) ==
  \A k \in (Len(f) + 1)..Len(g) :
    g[k] # Line("start", n) /\ (g[k] = Line("dir", DirOf[n]) => HasDirIn(f, DirOf[n]))

LEMMA Lines ==
  /\ \A k, x, j, y : Line(k, x) = Line(j, y) <=> k = j /\ x = y
  /\ \A k, x : Line(k, x).kind = k /\ Line(k, x).arg = x
  /\ Magic.kind = "magic"
BY DEF Line, Magic

LEMMA FileFacts ==
  ASSUME NEW f \in File
  PROVE  Len(f) \in Nat /\ DOMAIN f = 1..Len(f) /\ \A k \in 1..Len(f) : f[k] \in Cell
<1>1. f \in Seq(Cell) /\ Len(f) \in Nat /\ DOMAIN f = 1..Len(f)
  BY LenProperties DEF File
<1> QED
  BY <1>1, ElementOfSeq

LEMMA ExtendsSelf ==
  ASSUME NEW f \in File, NEW n
  PROVE  Extends(f, f) /\ NewFor(f, f, n)
BY FileFacts DEF Extends, NewFor

LEMMA AppendExtends ==
  ASSUME NEW f \in File, NEW c \in Cell
  PROVE  /\ Extends(f, Append(f, c))
         /\ \A n : /\ c # Line("start", n)
                   /\ c = Line("dir", DirOf[n]) => HasDirIn(f, DirOf[n])
                   => NewFor(f, Append(f, c), n)
<1> DEFINE g == Append(f, c)
<1>1. /\ Len(f) \in Nat /\ Len(g) = Len(f) + 1
      /\ \A k \in 1..Len(f) : g[k] = f[k]
      /\ g[Len(f) + 1] = c
  BY AppendFile
<1>2. \A k \in (Len(f) + 1)..Len(g) : k = Len(f) + 1
  BY <1>1
<1> HIDE DEF g
<1>3. Extends(f, g)
  BY <1>1 DEF Extends
<1>4. ASSUME NEW n, c # Line("start", n), c = Line("dir", DirOf[n]) => HasDirIn(f, DirOf[n])
      PROVE  NewFor(f, g, n)
  BY <1>1, <1>2, <1>4 DEF NewFor
<1> QED
  BY <1>3, <1>4 DEF g

LEMMA RecordKept ==
  ASSUME NEW f \in File, NEW g \in File, NEW t \in File, Plain(t), NEW n, NEW s, NEW m \in Nat,
         RecordIn(f, t, n, s, m), Extends(f, g), NewFor(f, g, n)
  PROVE  RecordIn(g, t, n, s, m) /\ s \in DOMAIN g
<1>1. /\ Len(f) \in Nat /\ Len(g) \in Nat /\ Len(t) \in Nat /\ Len(f) <= Len(g)
      /\ DOMAIN f = 1..Len(f) /\ DOMAIN g = 1..Len(g) /\ DOMAIN t = 1..Len(t)
  BY FileFacts DEF Extends
<1>2. s \in (m + 1)..Len(f) /\ s + Len(t) + 1 <= Len(f) /\ s \in Nat
  BY <1>1 DEF RecordIn
<1>3. ASSUME NEW k \in 1..Len(f), f[k].kind \notin {"magic", "size"} PROVE g[k] = f[k]
  BY <1>3 DEF Extends
<1>4. s \in (m + 1)..Len(g) /\ s + Len(t) + 1 <= Len(g) /\ s \in DOMAIN g
  BY <1>1, <1>2
<1>5. g[s] = Line("start", n)
  <2>1. s \in 1..Len(f)
    BY <1>1, <1>2
  <2>2. f[s] = Line("start", n)
    BY DEF RecordIn
  <2> QED
    BY <1>3, <2>1, <2>2, Lines
<1>6. ASSUME NEW j \in 1..Len(t) PROVE g[s + j] = t[j]
  <2>1. s + j \in 1..Len(f)
    BY <1>1, <1>2
  <2>2. f[s + j] = t[j] /\ t[j].kind = "text"
    BY <1>1 DEF RecordIn, Plain
  <2> QED
    BY <1>3, <2>1, <2>2
<1>7. g[s + Len(t) + 1] = Line("end", n)
  <2>1. s + Len(t) + 1 \in 1..Len(f)
    BY <1>1, <1>2
  <2>2. f[s + Len(t) + 1] = Line("end", n)
    BY DEF RecordIn
  <2> QED
    BY <1>3, <2>1, <2>2, Lines
<1>8. ASSUME NEW k \in (s + 1)..Len(g) PROVE g[k] # Line("start", n)
  <2>1. CASE k <= Len(f)
    <3>1. k \in 1..Len(f) /\ k \in (s + 1)..Len(f)
      BY <1>1, <1>2, <2>1
    <3>2. f[k] # Line("start", n)
      BY <3>1 DEF RecordIn
    <3> QED
      BY <3>1, <3>2, Lines DEF Extends
  <2>2. CASE ~(k <= Len(f))
    <3>1. k \in (Len(f) + 1)..Len(g)
      BY <1>1, <1>2, <2>2
    <3> QED
      BY <3>1 DEF NewFor
  <2> QED
    BY <2>1, <2>2
<1>9. ASSUME HasDirIn(g, DirOf[n])
      PROVE  \E k \in 1..(s - 1) : g[k] = Line("dir", DirOf[n])
  <2>1. HasDirIn(f, DirOf[n])
    <3>1. PICK k \in 1..Len(g) : g[k] = Line("dir", DirOf[n])
      BY <1>1, <1>9 DEF HasDirIn
    <3>2. CASE k <= Len(f)
      <4>1. k \in 1..Len(f)
        BY <1>1, <3>2
      <4>2. f[k] = Line("dir", DirOf[n])
        BY <3>1, <4>1, Lines DEF Extends
      <4> QED
        BY <1>1, <4>1, <4>2 DEF HasDirIn
    <3>3. CASE ~(k <= Len(f))
      <4>1. k \in (Len(f) + 1)..Len(g)
        BY <1>1, <3>3
      <4> QED
        BY <3>1, <4>1 DEF NewFor
    <3> QED
      BY <3>2, <3>3
  <2>2. PICK k \in 1..(s - 1) : f[k] = Line("dir", DirOf[n])
    BY <2>1 DEF RecordIn
  <2>3. k \in 1..Len(f)
    BY <1>1, <1>2
  <2>4. g[k] = f[k]
    BY <1>3, <2>2, <2>3, Lines
  <2> QED
    BY <2>2, <2>4
<1> QED
  BY <1>4, <1>5, <1>6, <1>7, <1>8, <1>9 DEF RecordIn

(* Lines of directories stay, too. *)
LEMMA DirsStay ==
  ASSUME NEW f \in File, NEW g \in File, Extends(f, g), NEW d, HasDirIn(f, d)
  PROVE  HasDirIn(g, d)
<1>1. PICK k \in 1..Len(f) : f[k] = Line("dir", d)
  BY FileFacts DEF HasDirIn
<1>2. k \in 1..Len(g)
  BY FileFacts DEF Extends
<1>3. g[k] = f[k]
  BY <1>1, Lines DEF Extends
<1> QED
  BY <1>1, <1>2, <1>3, FileFacts DEF HasDirIn

LEMMA BeginningStays ==
  ASSUME NEW f \in File, NEW g \in File, NEW h \in File, Extends(f, g), Len(f) >= Len(h),
         \A k \in 1..Len(h) : f[k] = h[k] /\ h[k].kind = "exe"
  PROVE  Len(g) >= Len(h) /\ \A k \in 1..Len(h) : g[k] = h[k]
<1>1. Len(f) \in Nat /\ Len(g) \in Nat /\ Len(h) \in Nat /\ Len(f) <= Len(g)
  BY FileFacts DEF Extends
<1>2. \A k \in 1..Len(h) : k \in 1..Len(f)
  BY <1>1
<1>3. \A k \in 1..Len(h) : g[k] = f[k]
  BY <1>2 DEF Extends
<1> QED
  BY <1>1, <1>3

(***************************************************************************)
(* The files that are not being packed stay recorded.                      *)
(***************************************************************************)
LEMMA RecordOf ==
  ASSUME IInv, Recorded, pac # NoFile, pc # "copy", NEW n \in Names, packed[n] # NoFile, n \notin Pending,
         NEW g \in File, Extends(pac, g), NewFor(pac, g, n)
  PROVE  Plain(packed[n]) /\ \E s \in DOMAIN g : RecordIn(g, packed[n], n, s, Len(base))
<1>1. pac \in File /\ packed[n] \in File /\ base \in File
  BY DEF IInv, TypeOK
<1>2. Plain(packed[n]) /\ \E s \in DOMAIN pac : RecordIn(pac, packed[n], n, s, Len(base))
  BY DEF Recorded
<1>3. Len(base) \in Nat
  BY <1>1, FileFacts
<1> QED
  BY <1>1, <1>2, <1>3, RecordKept

LEMMA RecordedKept ==
  ASSUME IInv, Recorded, pac # NoFile, pc # "copy", UNCHANGED <<base, packed>>,
         pac' \in File, Extends(pac, pac'),
         \A n \in Names : n \in Pending => n \in Pending',
         \A n \in Names : packed[n] # NoFile /\ n \notin Pending' => NewFor(pac, pac', n)
  PROVE  Recorded'
<1>1. ASSUME NEW n \in Names, packed[n] # NoFile
      PROVE  /\ Plain(packed[n])
             /\ n \in Pending' \/ \E s \in DOMAIN pac' : RecordIn(pac', packed[n], n, s, Len(base))
  <2>1. Plain(packed[n])
    BY <1>1 DEF Recorded
  <2>2. CASE n \in Pending'
    BY <2>1, <2>2
  <2>3. CASE n \notin Pending'
    BY <1>1, <2>3, RecordOf
  <2> QED
    BY <2>2, <2>3
<1> QED
  BY <1>1 DEF Recorded

(***************************************************************************)
(* The steps of packing.                                                   *)
(***************************************************************************)
LEMMA PackingTrip ==
  ASSUME IInv, IInv', TripInv, pc \in packing \union {"copy"}, pc' \in packing,
         UNCHANGED <<base, choice>>,
         Good' => BeginsWithBase' /\ PresentIfNoDir' /\ WholeDirectory' /\ Recorded' /\ BeingWritten'
  PROVE  TripInv'
<1>1. pac' # NoFile /\ pc' # "copy" /\ pc' \notin {"size", "unpack", "unpacked"}
  BY DEF IInv, MagicPlace, packing
<1> QED
  BY <1>1 DEF TripInv, EndsWithSize, Unpacking, RoundTrip

LEMMA OpenPackTrip ==
  ASSUME IInv, IInv', TripInv, NEW c \in {3, 4}, OpenPack(c)
  PROVE  TripInv'
<1>1. pc = "menu" /\ choice' = c /\ UNCHANGED <<uname, files, dirs, todo, pth, name, at, whole, packed, alone>>
  BY DEF OpenPack, pack
<1>2. CASE pac = NoFile
  <2>1. pc' = "copy" /\ pac' = <<>> /\ base' = uname
    BY <1>2 DEF OpenPack
  <2>2. /\ \A k \in DOMAIN base' : base'[k].kind = "exe"
        /\ \A n \in Names : packed'[n] = NoFile
    BY <1>1, <1>2, <2>1 DEF TripInv
  <2>3. BeginsWithBase' /\ EndsWithSize' /\ WholeDirectory' /\ Recorded' /\ BeingWritten' /\ Unpacking'
    BY <2>1 DEF BeginsWithBase, EndsWithSize, WholeDirectory, Recorded, BeingWritten, Unpacking, inFile
  <2>4. PresentIfNoDir'
    BY <2>2 DEF PresentIfNoDir
  <2>5. RoundTrip' /\ choice' # 5
    BY <1>1, <2>1 DEF RoundTrip
  <2>6. pac' # NoFile
    BY <2>1, EmptySeq, PackerAssumption DEF File
  <2> QED
    BY <2>2, <2>3, <2>4, <2>5, <2>6 DEF TripInv
<1>3. CASE pac # NoFile
  <2>1. pc' = "ask" /\ UNCHANGED <<pac, base>> /\ (Good' => Good)
    <3>1. pc' = "ask" /\ UNCHANGED <<pac, base>>
      BY <1>3 DEF OpenPack
    <3>2. same' = (same /\ (pac # NoFile => uname = base)) /\ whole' = whole
      BY DEF OpenPack
    <3>3. same' => same
      BY <3>2, Zenon
    <3> QED
      BY <1>3, <3>1, <3>2, <3>3 DEF Good
  <2>2. Good' => BeginsWithBase' /\ PresentIfNoDir' /\ Recorded'
    BY <1>1, <2>1 DEF TripInv, BeginsWithBase, PresentIfNoDir, Recorded, Pending, inFile
  <2>3. EndsWithSize' /\ WholeDirectory' /\ BeingWritten' /\ Unpacking' /\ RoundTrip'
    BY <2>1 DEF EndsWithSize, WholeDirectory, BeingWritten, Unpacking, RoundTrip, packing, inFile
  <2>4. choice' # 5 /\ pac' # NoFile /\ pc' # "copy"
    BY <1>1, <1>3, <2>1
  <2> QED
    BY <2>1, <2>2, <2>3, <2>4 DEF TripInv
<1> QED
  BY <1>2, <1>3

LEMMA CopiedTrip ==
  ASSUME IInv, IInv', TripInv, Copied
  PROVE  TripInv'
<1>1. /\ pc = "copy" /\ pc' = "ask" /\ pac' = uname
      /\ UNCHANGED <<uname, files, dirs, choice, base, same, whole, packed, alone>>
  BY DEF Copied, history
<1>2. pac # NoFile /\ uname # NoFile /\ \A n \in Names : packed'[n] = NoFile
  BY <1>1 DEF IInv, MagicPlace, TripInv
<1>3. Good' => uname = base /\ base \in File
  BY <1>1, <1>2 DEF Good, IInv, TypeOK, MagicPlace, Known
<1>4. Good' => BeginsWithBase'
  BY <1>1, <1>3, FileFacts DEF BeginsWithBase
<1>5. PresentIfNoDir' /\ Recorded'
  BY <1>2 DEF PresentIfNoDir, Recorded
<1>6. WholeDirectory' /\ BeingWritten'
  BY <1>1 DEF WholeDirectory, BeingWritten, inFile
<1> QED
  BY <1>1, <1>4, <1>5, <1>6, PackingTrip DEF packing

LEMMA BeginFileTrip ==
  ASSUME IInv, IInv', TripInv, (\E n \in Names : PackFile(n)) \/ (\E d \in Dirs : PackDirectory(d))
  PROVE  TripInv'
<1>1. /\ pc = "ask" /\ pc' \in {"ask", "magic"}
      /\ UNCHANGED <<uname, pac, files, dirs, choice, base, same, whole, packed, alone>>
  BY DEF PackFile, PackDirectory, disk, history
<1>2. /\ Good' => Good /\ BeginsWithBase /\ PresentIfNoDir /\ Recorded
      /\ Pending = {}
  BY <1>1 DEF Good, TripInv, Pending, inFile
<1>3. Good' => BeginsWithBase' /\ PresentIfNoDir'
  BY <1>1, <1>2 DEF BeginsWithBase, PresentIfNoDir
<1>4. Good' => Recorded'
  BY <1>1, <1>2 DEF Recorded
<1>5. BeingWritten'
  BY <1>1 DEF BeingWritten
<1>6. WholeDirectory'
  <2>1. CASE \E n \in Names : PackFile(n)
    BY <2>1 DEF PackFile, WholeDirectory
  <2>2. ASSUME NEW d \in Dirs, PackDirectory(d) PROVE WholeDirectory'
    <3> DEFINE inside == {n \in Names : DirOf[n] = d /\ files[n] # NoFile}
    <3>1. pth' = d /\ d \in dirs
      BY <2>2 DEF PackDirectory
    <3>2. CASE inside = {}
      <4>1. pc' = "ask"
        BY <1>1, <2>2, <3>2 DEF PackDirectory
      <4> QED
        BY <4>1 DEF WholeDirectory, inFile
    <3>3. CASE inside # {}
      <4>1. name' \in inside /\ todo' = inside \ {name'}
        BY <2>2, <3>3 DEF PackDirectory
      <4>2. \A n \in Names : DirOf[n] = d /\ files[n] # NoFile => n \in todo' \union {name'}
        BY <4>1
      <4> QED
        BY <1>1, <3>1, <4>2 DEF WholeDirectory
    <3> QED
      BY <3>2, <3>3
  <2> QED
    BY <2>1, <2>2
<1> QED
  BY <1>1, <1>3, <1>4, <1>5, <1>6, PackingTrip DEF packing

LEMMA WriteMagicTrip ==
  ASSUME IInv, IInv', TripInv, WriteMagic
  PROVE  TripInv'
<1>1. /\ pc = "magic" /\ pc' = "dir" /\ pac' = WriteAt(pac, Len(uname), Magic)
      /\ UNCHANGED <<uname, files, dirs, choice, base, same, whole, packed, alone, todo, pth, name>>
  BY DEF WriteMagic, Packing, pack
<1>2. /\ pac \in File /\ pac # NoFile /\ uname \in File /\ base \in File
      /\ pac' \in File
  BY <1>1, PackerAssumption DEF IInv, TypeOK, MagicPlace, packing
<1>3. ASSUME Good'
      PROVE  /\ Extends(pac, pac') /\ \A n : NewFor(pac, pac', n)
             /\ Good /\ BeginsWithBase /\ PresentIfNoDir /\ WholeDirectory /\ Recorded
  <2>1. Good /\ Known
    BY <1>1, <1>2, <1>3 DEF Good, Known
  <2>2. BeginsWithBase /\ PresentIfNoDir /\ WholeDirectory /\ Recorded
    BY <2>1 DEF TripInv
  <2>3. uname = base /\ Len(pac) >= Len(base)
    BY <1>1, <2>1, <2>2 DEF IInv, MagicPlace, BeginsWithBase, packing
  <2>4. Len(base) \in Nat /\ Len(pac) \in Nat
    BY <1>2, FileFacts
  <2>5. /\ Len(pac') = (IF Len(base) < Len(pac) THEN Len(pac) ELSE Len(base) + 1)
        /\ pac'[Len(base) + 1] = Magic
        /\ \A k \in 1..Len(pac) : k # Len(base) + 1 => pac'[k] = pac[k]
    <3> DEFINE w == WriteAt(pac, Len(base), Magic)
    <3>1. Magic \in Cell
      BY CellType
    <3>2. /\ w \in File
          /\ Len(w) = (IF Len(base) < Len(pac) THEN Len(pac) ELSE Len(base) + 1)
          /\ w[Len(base) + 1] = Magic
          /\ \A k \in 1..Len(pac) : k # Len(base) + 1 => w[k] = pac[k]
      BY <1>2, <2>4, <3>1, WriteAtFile
    <3>3. pac' = w
      BY <1>1, <2>3
    <3> HIDE DEF w
    <3> QED
      BY <3>2, <3>3
  <2>6. Len(base) < Len(pac) => pac[Len(base) + 1].kind \in {"magic", "size"}
    BY <2>1, <2>4 DEF IInv, MagicPlace
  <2>7. Len(pac) <= Len(pac')
    BY <2>4, <2>5
  <2>8. ASSUME NEW k \in 1..Len(pac)
        PROVE  pac'[k] = pac[k] \/ (pac[k].kind \in {"magic", "size"} /\ pac'[k] = Magic)
    <3>1. CASE k = Len(base) + 1
      BY <2>4, <2>5, <2>6, <3>1
    <3> QED
      BY <2>5, <3>1
  <2>9. Extends(pac, pac')
    BY <2>7, <2>8 DEF Extends
  <2>10. ASSUME NEW k \in (Len(pac) + 1)..Len(pac') PROVE pac'[k] = Magic
    <3>1. k = Len(base) + 1
      BY <2>3, <2>4, <2>5
    <3> QED
      BY <2>5, <3>1
  <2>11. \A n : NewFor(pac, pac', n)
    BY <2>10, Lines DEF NewFor
  <2> QED
    BY <2>1, <2>2, <2>9, <2>11
<1>4. ASSUME Good' PROVE BeginsWithBase' /\ PresentIfNoDir' /\ WholeDirectory' /\ Recorded'
  <2>1. Pending' = Pending
    BY <1>1 DEF Pending, inFile
  <2>2. Recorded'
    BY <1>1, <1>2, <1>3, <1>4, <2>1, RecordedKept
  <2>3. WholeDirectory'
    BY <1>1, <1>3, <1>4 DEF WholeDirectory, inFile
  <2>4. PresentIfNoDir'
    BY <1>1, <1>2, <1>3, <1>4, DirsStay DEF PresentIfNoDir
  <2>5. Len(pac') >= Len(base) /\ \A k \in 1..Len(base) : pac'[k] = base[k]
    <3>1. Len(pac) >= Len(base) /\ \A k \in 1..Len(base) : pac[k] = base[k]
      BY <1>1, <1>3, <1>4 DEF BeginsWithBase
    <3>2. \A k \in 1..Len(base) : base[k].kind = "exe"
      BY <1>2, FileFacts DEF TripInv
    <3> QED
      BY <1>2, <1>3, <1>4, <3>1, <3>2, BeginningStays
  <2> QED
    BY <1>1, <2>2, <2>3, <2>4, <2>5 DEF BeginsWithBase
<1>5. BeingWritten'
  BY <1>1 DEF BeingWritten
<1> QED
  BY <1>1, <1>4, <1>5, PackingTrip DEF packing, inFile

(* Every line that is appended while a file is packed. *)
LEMMA AppendTrip ==
  ASSUME IInv, IInv', TripInv, Good', pc \in inFile, NEW c \in Cell, pac' = Append(pac, c),
         UNCHANGED <<files, dirs, base, same, packed>>, whole' => whole,
         pc' \in inFile, UNCHANGED <<todo, name, pth>>,
         \A n \in Names : packed[n] # NoFile /\ n \notin Pending =>
           c # Line("start", n) /\ (c = Line("dir", DirOf[n]) => HasDirIn(pac, DirOf[n]))
  PROVE  BeginsWithBase' /\ PresentIfNoDir' /\ WholeDirectory' /\ Recorded'
<1>1. /\ pac \in File /\ pac # NoFile /\ base \in File /\ pac' \in File
      /\ pc # "copy" /\ pc \in packing
  BY AppendFile DEF IInv, TypeOK, MagicPlace, packing, inFile
<1>2. Good /\ BeginsWithBase /\ PresentIfNoDir /\ WholeDirectory /\ Recorded
  BY <1>1 DEF Good, TripInv
<1>3. Extends(pac, pac')
  BY <1>1, AppendExtends
<1>4. Pending' = Pending /\ Pending = todo \union {name}
  BY DEF Pending
<1>5. Recorded'
  <2>1. \A n \in Names : packed[n] # NoFile /\ n \notin Pending => NewFor(pac, pac', n)
    BY <1>1, AppendExtends
  <2> QED
    BY <1>1, <1>2, <1>3, <1>4, <2>1, RecordedKept
<1>6. WholeDirectory'
  BY <1>2 DEF WholeDirectory
<1>7. PresentIfNoDir'
  BY <1>1, <1>2, <1>3, DirsStay DEF PresentIfNoDir
<1>8. Len(pac') >= Len(base) /\ \A k \in 1..Len(base) : pac'[k] = base[k]
  <2>1. Len(pac) >= Len(base) /\ \A k \in 1..Len(base) : pac[k] = base[k]
    BY <1>1, <1>2 DEF BeginsWithBase
  <2>2. \A k \in 1..Len(base) : base[k].kind = "exe"
    BY <1>1, FileFacts DEF TripInv
  <2> QED
    BY <1>1, <1>3, <2>1, <2>2, BeginningStays
<1> QED
  BY <1>5, <1>6, <1>7, <1>8 DEF BeginsWithBase

LEMMA WriteDirTrip ==
  ASSUME IInv, IInv', TripInv, WriteDir
  PROVE  TripInv'
<1>1. /\ pc = "dir" /\ pc' = "start"
      /\ pac' = IF pth = Here THEN pac ELSE Append(pac, Line("dir", pth))
      /\ UNCHANGED <<uname, files, dirs, choice, base, same, whole, packed, alone, todo, pth, name>>
  BY DEF WriteDir, Packing, pack
<1>2. pac # NoFile
  BY <1>1 DEF IInv, MagicPlace, packing
<1>3. ASSUME Good' PROVE BeginsWithBase' /\ PresentIfNoDir' /\ WholeDirectory' /\ Recorded'
  <2>1. Good /\ BeginsWithBase /\ PresentIfNoDir /\ WholeDirectory /\ Recorded
    BY <1>1, <1>2, <1>3 DEF Good, TripInv
  <2>2. CASE pth = Here
    <3>1. UNCHANGED <<pac, base, packed, files, dirs, todo, pth, name>> /\ Pending' = Pending
      BY <1>1, <2>2 DEF Pending, inFile
    <3>2. BeginsWithBase' /\ PresentIfNoDir' /\ Recorded'
      BY <1>1, <2>1, <3>1 DEF BeginsWithBase, PresentIfNoDir, Recorded
    <3>3. WholeDirectory'
      BY <2>2, <3>1 DEF WholeDirectory
    <3> QED
      BY <3>2, <3>3
  <2>3. CASE pth # Here
    <3>1. pac' = Append(pac, Line("dir", pth)) /\ Line("dir", pth) \in Cell
      BY <1>1, <2>3, CellType DEF IInv, TypeOK
    <3>2. ASSUME NEW n \in Names, packed[n] # NoFile, n \notin Pending, DirOf[n] = pth
          PROVE  HasDirIn(pac, pth)
      <4>1. pth \in dirs /\ (files[n] # NoFile => n \in todo \union {name})
        BY <1>1, <2>1, <2>3, <3>2 DEF WholeDirectory, inFile
      <4>2. Pending = todo \union {name}
        BY <1>1 DEF Pending, inFile
      <4> QED
        BY <2>1, <3>2, <4>1, <4>2 DEF PresentIfNoDir
    <3>3. \A n \in Names : packed[n] # NoFile /\ n \notin Pending =>
            /\ Line("dir", pth) # Line("start", n)
            /\ Line("dir", pth) = Line("dir", DirOf[n]) => HasDirIn(pac, DirOf[n])
      BY <3>2, Lines
    <3> QED
      BY <1>1, <1>3, <3>1, <3>3, AppendTrip DEF inFile
  <2> QED
    BY <2>2, <2>3
<1>4. BeingWritten'
  BY <1>1 DEF BeingWritten
<1> QED
  BY <1>1, <1>3, <1>4, PackingTrip DEF packing

LEMMA OpenFileTrip ==
  ASSUME IInv, IInv', TripInv, OpenFile
  PROVE  TripInv'
<1>1. /\ pc = "start" /\ pc' = "lines" /\ at' = 1 /\ pac' = Append(pac, Line("start", name))
      /\ UNCHANGED <<uname, files, dirs, choice, base, same, packed, alone, todo, pth, name>>
  BY DEF OpenFile, Packing, pack
<1>2. whole' = (whole /\ Plain(files[name])) /\ files[name] # NoFile
  BY DEF OpenFile
<1>3. whole' => whole /\ Plain(files[name])
  BY <1>2, Zenon
<1>4. name \in Names /\ pac \in File /\ pac # NoFile /\ Line("start", name) \in Cell /\ base \in File
      /\ files[name] \in File
  BY <1>1, <1>2, CellType DEF IInv, TypeOK, PackTypes, MagicPlace, packing, inFile
<1>5. ASSUME Good' PROVE BeginsWithBase' /\ PresentIfNoDir' /\ WholeDirectory' /\ Recorded'
  <2>1. name \in Pending
    BY <1>1 DEF Pending, inFile
  <2>2. \A n \in Names : packed[n] # NoFile /\ n \notin Pending =>
          /\ Line("start", name) # Line("start", n)
          /\ Line("start", name) = Line("dir", DirOf[n]) => HasDirIn(pac, DirOf[n])
    BY <2>1, Lines
  <2> QED
    BY <1>1, <1>3, <1>4, <1>5, <2>2, AppendTrip DEF inFile
<1>6. ASSUME Good' PROVE BeingWritten'
  <2>1. Known /\ Plain(files[name])
    BY <1>1, <1>3, <1>4, <1>6 DEF Good, Known
  <2>2. Len(pac) > Len(base)
    BY <1>1, <2>1 DEF IInv, MagicPlace, inFile
  <2>3. /\ Len(pac') = Len(pac) + 1 /\ pac'[Len(pac) + 1] = Line("start", name)
        /\ Len(pac) \in Nat /\ Len(base) \in Nat /\ Len(files[name]) \in Nat
    BY <1>1, <1>4, AppendFile, FileFacts
  <2>4. /\ Len(pac') > Len(base') /\ pac'[Len(pac')] = Line("start", name')
        /\ Len(pac') - (at' - 1) = Len(pac') /\ 1..(at' - 1) = {}
        /\ at' <= Len(files[name]) + 1
    BY <1>1, <2>2, <2>3
  <2> QED
    BY <1>1, <2>1, <2>4 DEF BeingWritten
<1> QED
  BY <1>1, <1>5, <1>6, PackingTrip DEF packing

LEMMA CopyLineTrip ==
  ASSUME IInv, IInv', TripInv, CopyLine
  PROVE  TripInv'
<1>1. /\ pc = "lines" /\ pc' = "lines" /\ at <= Len(files[name]) /\ at' = at + 1
      /\ pac' = Append(pac, files[name][at])
      /\ UNCHANGED <<uname, files, dirs, choice, base, same, whole, packed, alone, todo, pth, name>>
  BY DEF CopyLine, Packing, pack
<1>2. /\ pac \in File /\ pac # NoFile /\ base \in File /\ name \in Names
      /\ files[name] \in File /\ at \in Nat \ {0}
  BY <1>1 DEF IInv, TypeOK, PackTypes, MagicPlace, packing, inFile
<1>3. /\ Len(files[name]) \in Nat /\ Len(pac) \in Nat /\ Len(base) \in Nat
      /\ DOMAIN files[name] = 1..Len(files[name])
      /\ at \in 1..Len(files[name]) /\ files[name][at] \in Cell
  BY <1>1, <1>2, FileFacts
<1>4. ASSUME Good' PROVE Good /\ BeingWritten
  BY <1>1, <1>2, <1>4 DEF Good, TripInv
<1> DEFINE s == Len(pac) - (at - 1)
<1>5. ASSUME Good'
      PROVE  /\ Plain(files[name]) /\ at <= Len(files[name]) + 1
             /\ s > Len(base) /\ pac[s] = Line("start", name)
             /\ \A j \in 1..(at - 1) : pac[s + j] = files[name][j]
  BY <1>1, <1>4, <1>5 DEF BeingWritten
<1>6. ASSUME Good' PROVE BeginsWithBase' /\ PresentIfNoDir' /\ WholeDirectory' /\ Recorded'
  <2>1. files[name][at].kind = "text"
    BY <1>3, <1>5, <1>6 DEF Plain
  <2>2. \A n : files[name][at] # Line("start", n) /\ files[name][at] # Line("dir", DirOf[n])
    BY <2>1, Lines
  <2> QED
    BY <1>1, <1>3, <1>6, <2>2, AppendTrip DEF inFile
<1>7. ASSUME Good' PROVE BeingWritten'
  <2>1. /\ Len(pac') = Len(pac) + 1 /\ pac'[Len(pac) + 1] = files[name][at]
        /\ \A k \in 1..Len(pac) : pac'[k] = pac[k]
    BY <1>1, <1>2, <1>3, AppendFile
  <2>2. Len(pac') - (at' - 1) = s /\ s \in Int /\ s > Len(base) /\ at' <= Len(files[name]) + 1
    BY <1>1, <1>2, <1>3, <1>5, <1>7, <2>1
  <2>3. s \in 1..Len(pac)
    BY <1>2, <1>3, <2>2
  <2>4. pac'[s] = Line("start", name)
    BY <1>5, <1>7, <2>1, <2>3
  <2>5. ASSUME NEW j \in 1..(at' - 1) PROVE pac'[s + j] = files[name][j]
    <3>1. CASE j = at
      <4>1. s + j = Len(pac) + 1
        BY <1>2, <1>3, <3>1
      <4> QED
        BY <2>1, <3>1, <4>1
    <3>2. CASE j # at
      <4>1. j \in 1..(at - 1) /\ s + j \in 1..Len(pac)
        BY <1>1, <1>2, <1>3, <2>3, <3>2
      <4> HIDE DEF s
      <4> QED
        BY <1>5, <1>7, <2>1, <4>1
    <3> QED
      BY <3>1, <3>2
  <2> HIDE DEF s
  <2>6. /\ Plain(files'[name']) /\ at' <= Len(files'[name']) + 1
        /\ Len(pac') - (at' - 1) > Len(base') /\ pac'[Len(pac') - (at' - 1)] = Line("start", name')
        /\ \A j \in 1..(at' - 1) : pac'[(Len(pac') - (at' - 1)) + j] = files'[name'][j]
    BY <1>1, <1>5, <1>7, <2>2, <2>4, <2>5
  <2> QED
    BY <1>1, <2>6 DEF BeingWritten
<1> QED
  BY <1>1, <1>6, <1>7, PackingTrip DEF packing


LEMMA WriteEndTrip ==
  ASSUME IInv, IInv', TripInv, WriteEnd
  PROVE  TripInv'
<1>1. /\ pc = "lines" /\ pc' = (IF todo = {} THEN "ask" ELSE "magic") /\ at > Len(files[name])
      /\ pac' = Append(pac, Line("end", name)) /\ pth' = Here
      /\ packed' = [packed EXCEPT ![name] = files[name]]
      /\ UNCHANGED <<uname, files, dirs, choice, base, same, whole, alone>>
      /\ todo # {} => name' \in todo /\ todo' = todo \ {name'}
  BY DEF WriteEnd, Packing
<1>2. /\ pac \in File /\ pac # NoFile /\ base \in File /\ name \in Names /\ pac' \in File
      /\ files[name] \in File /\ files[name] # NoFile /\ at \in Nat \ {0}
      /\ packed \in [Names -> File \union {NoFile}] /\ Line("end", name) \in Cell
  BY <1>1, CellType, AppendFile DEF IInv, TypeOK, PackTypes, MagicPlace, packing, inFile
<1> DEFINE t == files[name]
           s == Len(pac) - (at - 1)
<1>3. /\ Len(t) \in Nat /\ Len(pac) \in Nat /\ Len(base) \in Nat
      /\ DOMAIN pac = 1..Len(pac) /\ DOMAIN pac' = 1..Len(pac') /\ DOMAIN t = 1..Len(t)
  BY <1>2, FileFacts
<1>4. /\ Len(pac') = Len(pac) + 1 /\ pac'[Len(pac) + 1] = Line("end", name)
      /\ \A k \in 1..Len(pac) : pac'[k] = pac[k]
  BY <1>1, <1>2, AppendFile
<1>5. packed'[name] = t /\ \A n \in Names : n # name => packed'[n] = packed[n]
  BY <1>1, <1>2
<1>6. pc' \in {"ask", "magic"} /\ pc # "copy"
  BY <1>1
<1>7. /\ Pending = todo \union {name}
      /\ \A n : n \in Pending /\ n \notin Pending' => n = name
  <2>1. Pending = todo \union {name}
    BY <1>1 DEF Pending, inFile
  <2>2. CASE todo = {}
    BY <2>1, <2>2
  <2>3. CASE todo # {}
    <3>1. Pending' = todo' \union {name'}
      BY <1>1, <2>3 DEF Pending, inFile
    <3> QED
      BY <1>1, <2>1, <2>3, <3>1
  <2> QED
    BY <2>1, <2>2, <2>3
<1>8. ASSUME Good'
      PROVE  /\ BeginsWithBase /\ PresentIfNoDir /\ Recorded
             /\ Plain(t) /\ at = Len(t) + 1
             /\ s > Len(base) /\ pac[s] = Line("start", name)
             /\ \A j \in 1..(at - 1) : pac[s + j] = t[j]
  <2>1. Good
    BY <1>1, <1>2, <1>8 DEF Good
  <2>2. BeginsWithBase /\ PresentIfNoDir /\ Recorded /\ BeingWritten
    BY <2>1 DEF TripInv
  <2>3. Plain(t) /\ at <= Len(t) + 1 /\ s > Len(base) /\ pac[s] = Line("start", name)
        /\ \A j \in 1..(at - 1) : pac[s + j] = t[j]
    BY <1>1, <2>2 DEF BeingWritten
  <2>4. at = Len(t) + 1
    BY <1>1, <1>2, <1>3, <2>3
  <2> QED
    BY <2>2, <2>3, <2>4
<1>9. ASSUME Good'
      PROVE  s \in DOMAIN pac' /\ RecordIn(pac', t, name, s, Len(base))
  <2>1. /\ s \in Int /\ s + Len(t) = Len(pac) /\ s \in 1..Len(pac) /\ s \in (Len(base) + 1)..Len(pac')
    <3>1. \A p, l, b \in Nat : p - l > b =>
            /\ p - l \in Int /\ (p - l) + l = p /\ p - l \in 1..p /\ p - l \in (b + 1)..(p + 1)
      OBVIOUS
    <3>2. s = Len(pac) - Len(t) /\ s > Len(base)
      BY <1>3, <1>8, <1>9
    <3> HIDE DEF s, t
    <3> QED
      BY <1>3, <1>4, <3>1, <3>2
  <2>2. \A j \in 1..Len(t) : pac[s + j] = t[j] /\ s + j \in 1..Len(pac)
    <3>1. \A j \in 1..Len(t) : j \in 1..(at - 1) /\ s + j \in 1..Len(pac)
      BY <1>2, <1>3, <1>8, <1>9, <2>1
    <3> HIDE DEF s, t
    <3> QED
      BY <1>8, <1>9, <3>1
  <2>3. pac[s] = Line("start", name) /\ Plain(t)
    BY <1>8, <1>9
  <2> HIDE DEF s, t
  <2>4. \A k \in (s + 1)..Len(pac) : pac[k].kind = "text"
    <3> SUFFICES ASSUME NEW k \in (s + 1)..Len(pac) PROVE pac[k].kind = "text"
      OBVIOUS
    <3>1. k - s \in 1..Len(t) /\ s + (k - s) = k
      BY <1>3, <2>1
    <3>2. pac[k] = t[k - s]
      BY <2>2, <3>1
    <3> QED
      BY <1>3, <2>3, <3>1, <3>2 DEF Plain
  <2>5. pac'[s] = Line("start", name) /\ \A j \in 1..Len(t) : pac'[s + j] = t[j]
    BY <1>4, <2>1, <2>2, <2>3
  <2>6. s + Len(t) + 1 = Len(pac) + 1 /\ s + Len(t) + 1 <= Len(pac')
    BY <1>3, <1>4, <2>1
  <2>7. ASSUME NEW k \in (s + 1)..Len(pac')
        PROVE  pac'[k] # Line("start", name)
    <3>1. CASE k = Len(pac) + 1
      BY <1>4, <3>1, Lines
    <3>2. CASE k # Len(pac) + 1
      <4>1. k \in (s + 1)..Len(pac) /\ k \in 1..Len(pac)
        BY <1>3, <1>4, <2>1, <3>2
      <4> QED
        BY <1>4, <2>4, <4>1, Lines
    <3> QED
      BY <3>1, <3>2
  <2>8. ASSUME HasDirIn(pac', DirOf[name])
        PROVE  \E k \in 1..(s - 1) : pac'[k] = Line("dir", DirOf[name])
    <3>1. PICK k \in 1..Len(pac') : pac'[k] = Line("dir", DirOf[name])
      BY <1>3, <2>8 DEF HasDirIn
    <3>2. k # Len(pac) + 1
      BY <1>4, <3>1, Lines
    <3>3. k \in 1..Len(pac) /\ pac[k] = Line("dir", DirOf[name])
      BY <1>3, <1>4, <3>1, <3>2
    <3>4. k \notin (s + 1)..Len(pac) /\ k # s
      BY <2>3, <2>4, <3>3, Lines
    <3>5. k \in 1..(s - 1)
      BY <1>3, <2>1, <3>3, <3>4
    <3> QED
      BY <3>1, <3>5
  <2>9. pac'[s + Len(t) + 1] = Line("end", name)
    BY <1>4, <2>6
  <2>10. s \in DOMAIN pac'
    BY <1>3, <1>4, <2>1
  <2> QED
    BY <2>1, <2>5, <2>6, <2>7, <2>8, <2>9, <2>10 DEF RecordIn
<1>10. Extends(pac, pac') /\ \A n : NewFor(pac, pac', n)
  <2>1. \A n : Line("end", name) # Line("start", n) /\ Line("end", name) # Line("dir", DirOf[n])
    BY Lines
  <2> QED
    BY <1>1, <1>2, <2>1, AppendExtends
<1> HIDE DEF t, s
<1>11. ASSUME Good' PROVE Recorded'
  <2> SUFFICES ASSUME NEW n \in Names, packed'[n] # NoFile
               PROVE  /\ Plain(packed'[n])
                      /\ n \in Pending' \/ \E k \in DOMAIN pac' : RecordIn(pac', packed'[n], n, k, Len(base'))
    BY DEF Recorded
  <2>1. base' = base
    BY <1>1
  <2>2. CASE n = name
    BY <1>5, <1>8, <1>9, <1>11, <2>1, <2>2
  <2>3. CASE n # name /\ n \in Pending'
    <3>1. packed[n] # NoFile /\ packed'[n] = packed[n]
      BY <1>5, <2>3
    <3> QED
      BY <1>6, <1>8, <1>11, <2>3, <3>1 DEF Recorded
  <2>4. CASE n # name /\ n \notin Pending'
    <3>1. packed[n] # NoFile /\ packed'[n] = packed[n] /\ n \notin Pending
      BY <1>5, <1>7, <2>4
    <3> QED
      BY <1>2, <1>6, <1>8, <1>10, <1>11, <2>1, <3>1, RecordOf
  <2> QED
    BY <2>2, <2>3, <2>4
<1>12. ASSUME Good' PROVE PresentIfNoDir'
  <2> SUFFICES ASSUME NEW n \in Names, DirOf[n] \in dirs', packed'[n] # NoFile, ~HasDirIn(pac', DirOf[n])
               PROVE  files'[n] # NoFile
    BY DEF PresentIfNoDir
  <2>1. CASE n = name
    BY <1>1, <1>2, <2>1
  <2>2. CASE n # name
    <3>1. packed[n] # NoFile /\ DirOf[n] \in dirs /\ ~HasDirIn(pac, DirOf[n])
      BY <1>1, <1>2, <1>5, <1>10, <2>2, DirsStay
    <3> QED
      BY <1>1, <1>8, <1>12, <3>1 DEF PresentIfNoDir
  <2> QED
    BY <2>1, <2>2
<1>13. ASSUME Good' PROVE BeginsWithBase'
  <2>1. Len(pac) >= Len(base) /\ \A k \in 1..Len(base) : pac[k] = base[k]
    BY <1>6, <1>8, <1>13 DEF BeginsWithBase
  <2>2. \A k \in 1..Len(base) : base[k].kind = "exe"
    BY <1>2, FileFacts DEF TripInv
  <2>3. Len(pac') >= Len(base) /\ \A k \in 1..Len(base) : pac'[k] = base[k]
    BY <1>2, <1>10, <2>1, <2>2, BeginningStays
  <2> QED
    BY <1>1, <2>3 DEF BeginsWithBase
<1>14. WholeDirectory' /\ BeingWritten'
  BY <1>1, <1>6 DEF WholeDirectory, BeingWritten
<1> QED
  BY <1>1, <1>6, <1>11, <1>12, <1>13, <1>14, PackingTrip DEF packing

(* The size is the last line. *)
LEMMA WriteSizeTrip ==
  ASSUME IInv, IInv', TripInv, WriteSize
  PROVE  TripInv'
<1>1. /\ pc = "ask" /\ pc' = "menu" /\ choice' = 0
      /\ pac' = Append(pac, Line("size", Len(uname)))
      /\ UNCHANGED <<uname, files, dirs, base, same, whole, packed, alone>>
  BY DEF WriteSize, ToMenu, history
<1>2. /\ pac \in File /\ pac # NoFile /\ uname \in File /\ base \in File
      /\ Len(uname) \in Nat /\ Line("size", Len(uname)) \in Cell
  BY <1>1, FileFacts, CellType DEF IInv, TypeOK, MagicPlace, packing
<1>3. /\ pac' \in File /\ Len(pac) \in Nat /\ Len(base) \in Nat /\ Len(pac') = Len(pac) + 1
      /\ pac'[Len(pac) + 1] = Line("size", Len(uname))
  BY <1>1, <1>2, AppendFile, FileFacts
<1>4. Extends(pac, pac') /\ \A n : NewFor(pac, pac', n)
  <2> DEFINE c == Line("size", Len(uname))
  <2>1. \A n : c # Line("start", n) /\ c # Line("dir", DirOf[n])
    BY Lines
  <2>2. c \in Cell /\ pac' = Append(pac, c)
    BY <1>1, <1>2
  <2> HIDE DEF c
  <2> QED
    BY <1>2, <2>1, <2>2, AppendExtends
<1>5. pac' # NoFile /\ pc' # "copy" /\ pc # "copy"
  BY <1>1, <1>3, PackerAssumption
<1>6. ASSUME Good'
      PROVE  /\ BeginsWithBase' /\ EndsWithSize' /\ PresentIfNoDir' /\ Recorded'
  <2>1. Good /\ Known
    BY <1>1, <1>2, <1>6 DEF Good, Known
  <2>2. BeginsWithBase /\ PresentIfNoDir /\ Recorded /\ uname = base
    BY <1>1, <2>1 DEF TripInv, IInv, MagicPlace, packing
  <2>3. Len(pac) >= Len(base) /\ \A k \in 1..Len(base) : pac[k] = base[k]
    BY <1>5, <2>2 DEF BeginsWithBase
  <2>4. \A k \in 1..Len(base) : base[k].kind = "exe"
    BY <1>2, FileFacts DEF TripInv
  <2>5. Len(pac') >= Len(base) /\ \A k \in 1..Len(base) : pac'[k] = base[k]
    BY <1>2, <1>3, <1>4, <2>3, <2>4, BeginningStays
  <2>6. Len(pac') > Len(base) /\ pac'[Len(pac')] = Line("size", Len(base))
    BY <1>3, <2>2, <2>3
  <2>7. PresentIfNoDir'
    BY <1>1, <1>2, <1>3, <1>4, <2>2, DirsStay DEF PresentIfNoDir
  <2>8. Recorded'
    <3>1. Pending = {} /\ UNCHANGED <<base, packed>>
      BY <1>1 DEF Pending, inFile
    <3> QED
      BY <1>2, <1>3, <1>4, <1>5, <2>2, <3>1, RecordedKept
  <2> QED
    BY <1>1, <2>5, <2>6, <2>7, <2>8 DEF BeginsWithBase, EndsWithSize
<1>7. WholeDirectory' /\ BeingWritten' /\ Unpacking' /\ RoundTrip'
  BY <1>1 DEF WholeDirectory, BeingWritten, Unpacking, RoundTrip, inFile
<1> QED
  BY <1>1, <1>5, <1>6, <1>7 DEF TripInv, packing

(***************************************************************************)
(* The steps that leave pac.exe alone.                                     *)
(***************************************************************************)
LEMMA AsideTrip ==
  ASSUME IInv, IInv', TripInv, UNCHANGED <<pac, base, packed>>,
         pc' \notin packing \union {"copy"},
         Good' => Good /\ pc \notin packing \union {"copy"},
         Good' => PresentIfNoDir' /\ (alone' => Unpacking'),
         RoundTrip',
         pac = NoFile => \A k \in DOMAIN uname' : uname'[k].kind = "exe"
  PROVE  TripInv'
<1>1. ASSUME Good' PROVE BeginsWithBase' /\ EndsWithSize' /\ Recorded'
  <2>1. BeginsWithBase /\ EndsWithSize /\ Recorded /\ pc \notin packing \union {"copy"}
    BY <1>1 DEF TripInv
  <2>2. Pending = {}
    BY <2>1 DEF Pending, packing, inFile
  <2> QED
    BY <2>1, <2>2 DEF BeginsWithBase, EndsWithSize, Recorded
<1>2. WholeDirectory' /\ BeingWritten'
  BY DEF WholeDirectory, BeingWritten, packing, inFile
<1> QED
  BY <1>1, <1>2 DEF TripInv

LEMMA EndsTrip ==
  ASSUME IInv, IInv', TripInv, PackingFails \/ NoSize \/ Unpacked \/ Kill
  PROVE  TripInv'
<1>1. pc' = "menu" /\ UNCHANGED <<uname, pac, files, dirs, base, same, packed>>
  BY DEF PackingFails, NoSize, Unpacked, Kill, ToMenu, disk, history
<1>2. ASSUME Good' PROVE Good /\ pc \notin packing \union {"copy"}
  <2>1. pac # NoFile /\ same /\ whole'
    BY <1>1, <1>2 DEF Good
  <2>2. CASE PackingFails
    BY <2>1, <2>2 DEF PackingFails
  <2>3. CASE NoSize \/ Unpacked
    BY <2>1, <2>3 DEF NoSize, Unpacked, history, packing, Good
  <2>4. CASE Kill
    <3>1. whole' = (whole /\ choice = 5)
      BY <2>4 DEF Kill
    <3>2. whole /\ choice = 5
      BY <2>1, <3>1, Zenon
    <3> QED
      BY <2>1, <3>2 DEF TripInv, Good
  <2> QED
    BY <2>2, <2>3, <2>4
<1>3. Good' => PresentIfNoDir'
  BY <1>1, <1>2 DEF TripInv, PresentIfNoDir
<1>4. Unpacking' /\ RoundTrip' /\ pc' \notin packing \union {"copy"}
  BY <1>1 DEF Unpacking, RoundTrip, packing
<1>5. pac = NoFile => \A k \in DOMAIN uname' : uname'[k].kind = "exe"
  BY <1>1 DEF TripInv
<1> QED
  BY <1>1, <1>2, <1>3, <1>4, <1>5, AsideTrip

LEMMA UserTrip ==
  ASSUME IInv, IInv', TripInv, \/ \E n \in Names, c \in Contents : Edit(n, c)
                               \/ \E b \in Builds : Rebuild(b)
                               \/ Send
  PROVE  TripInv'
<1>1. /\ pc = "menu" /\ pc' = "menu" /\ UNCHANGED <<pac, base, same, whole, packed, alone>>
  BY DEF Edit, Rebuild, Send, history
<1>2. Good' => Good /\ PresentIfNoDir
  BY <1>1 DEF Good, TripInv
<1>3. ASSUME Good' PROVE PresentIfNoDir'
  <2>1. CASE Send
    BY <2>1 DEF Send, PresentIfNoDir
  <2>2. CASE \E b \in Builds : Rebuild(b)
    BY <1>1, <1>2, <1>3, <2>2 DEF Rebuild, PresentIfNoDir
  <2>3. ASSUME NEW n \in Names, NEW c \in Contents, Edit(n, c) PROVE PresentIfNoDir'
    <3>1. /\ files' = [files EXCEPT ![n] = c] /\ UNCHANGED dirs
          /\ files \in [Names -> File \union {NoFile}] /\ c # NoFile
      BY <2>3, PackerAssumption DEF Edit, IInv, TypeOK
    <3>2. \A i \in Names : files[i] # NoFile => files'[i] # NoFile
      BY <3>1
    <3> QED
      BY <1>1, <1>2, <1>3, <3>1, <3>2 DEF PresentIfNoDir
  <2> QED
    BY <2>1, <2>2, <2>3
<1>4. Unpacking' /\ RoundTrip' /\ pc' \notin packing \union {"copy"} /\ pc \notin packing \union {"copy"}
  BY <1>1 DEF Unpacking, RoundTrip, packing
<1>5. pac = NoFile => \A k \in DOMAIN uname' : uname'[k].kind = "exe"
  <2>1. ASSUME NEW b \in Builds, Rebuild(b) PROVE \A k \in DOMAIN uname' : uname'[k].kind = "exe"
    BY <2>1 DEF Rebuild, Exe
  <2>2. CASE Send
    BY <2>2 DEF Send
  <2>3. ASSUME NEW n \in Names, NEW c \in Contents, Edit(n, c) PROVE uname' = uname
    BY <2>3 DEF Edit
  <2> QED
    BY <2>1, <2>2, <2>3 DEF TripInv
<1> QED
  BY <1>1, <1>2, <1>3, <1>4, <1>5, AsideTrip

(***************************************************************************)
(* The steps of unpacking.                                                 *)
(***************************************************************************)
LEMMA OpenUnpackTrip ==
  ASSUME IInv, IInv', TripInv, OpenUnpack \/ Cloned
  PROVE  TripInv'
<1>1. /\ pac # NoFile /\ pc \in {"menu", "clone"} /\ pc' \in {"clone", "size"}
      /\ UNCHANGED <<pac, files, dirs, base, same, whole, packed>>
  BY DEF OpenUnpack, Cloned, history, IInv, PackTypes
<1>2. Good' => Good /\ PresentIfNoDir
  BY <1>1 DEF Good, TripInv
<1>3. Good' => PresentIfNoDir'
  BY <1>1, <1>2 DEF PresentIfNoDir
<1>4. ASSUME alone' PROVE Unpacking'
  <2>1. pc' = "size" => uname' = pac'
    <3>1. CASE Cloned
      BY <3>1 DEF Cloned
    <3>2. CASE OpenUnpack
      <4>1. alone' = (uname = NoFile)
        BY <3>2 DEF OpenUnpack
      <4>2. uname = NoFile
        BY <1>4, <4>1, Zenon
      <4> QED
        BY <3>2, <4>2 DEF OpenUnpack
    <3> QED
      BY <3>1, <3>2
  <2> QED
    BY <1>1, <2>1 DEF Unpacking
<1>5. RoundTrip' /\ pc' \notin packing \union {"copy"} /\ pc \notin packing \union {"copy"}
  BY <1>1 DEF RoundTrip, packing
<1> QED
  BY <1>1, <1>2, <1>3, <1>4, <1>5, AsideTrip

LEMMA ReadSizeTrip ==
  ASSUME IInv, IInv', TripInv, ReadSize
  PROVE  TripInv'
<1>1. /\ pc = "size" /\ pc' = "unpack"
      /\ UNCHANGED <<uname, pac, files, dirs, base, same, whole, packed, alone>>
  BY DEF ReadSize, disk, history
<1>2. Good' => Good /\ PresentIfNoDir
  BY <1>1 DEF Good, TripInv
<1>3. Good' => PresentIfNoDir'
  BY <1>1, <1>2 DEF PresentIfNoDir
<1>4. ASSUME Good', alone' PROVE Unpacking'
  <2>1. /\ uname = pac /\ Len(pac) > Len(base) /\ pac[Len(pac)] = Line("size", Len(base))
    BY <1>1, <1>2, <1>4 DEF TripInv, EndsWithSize, Unpacking, packing
  <2>2. pac \in File /\ base \in File /\ Len(pac) \in Nat /\ Len(base) \in Nat
    BY <1>1, FileFacts DEF IInv, TypeOK, PackTypes
  <2>3. pac # <<>>
    BY <2>1, <2>2, EmptySeq
  <2>4. SizesIn(uname) = {Len(base)}
    BY <2>1, <2>3, Lines DEF SizesIn
  <2>5. ret' = Len(base) /\ at' = Len(base) + 1
    BY <2>4 DEF ReadSize
  <2>6. ASSUME NEW n \in Names, NEW s \in DOMAIN pac, RecordIn(pac, packed[n], n, s, Len(base)),
               packed[n] # NoFile
        PROVE  UnpackedSoFar(n, s)'
    <3>1. s \in (Len(base) + 1)..Len(pac)
      BY <2>6 DEF RecordIn
    <3>2. packed[n] \in File
      BY <2>6 DEF IInv, TypeOK
    <3>3. Len(packed[n]) \in Nat
      BY <3>2, FileFacts
    <3>4. ~(s < at') /\ ~(s + Len(packed[n]) + 1 < at')
      BY <2>2, <2>5, <3>1, <3>3
    <3> QED
      BY <1>1, <3>4 DEF UnpackedSoFar
  <2>7. \A n \in Names : Kept(n)' => packed[n] # NoFile
    BY <1>1 DEF Kept
  <2>8. \A n \in Names, s \in DOMAIN pac' :
          Kept(n)' /\ RecordIn(pac', packed'[n], n, s, Len(base')) => UnpackedSoFar(n, s)'
    BY <1>1, <2>6, <2>7
  <2>9. at' > Len(base) /\ (Len(base) + 1)..(at' - 1) = {}
    BY <2>2, <2>5
  <2> QED
    BY <1>1, <2>1, <2>5, <2>8, <2>9 DEF Unpacking
<1>5. RoundTrip' /\ pc' \notin packing \union {"copy"} /\ pc \notin packing \union {"copy"}
  BY <1>1 DEF RoundTrip, packing
<1>6. pac # NoFile
  BY <1>1 DEF IInv, PackTypes
<1> QED
  BY <1>1, <1>2, <1>3, <1>4, <1>5, <1>6, AsideTrip

Read == ReadDir \/ ReadStart \/ ReadEnd \/ ReadOther \/ ReadExe

LEMMA CellIsLine ==
  ASSUME NEW c \in Cell
  PROVE  c = Line(c.kind, c.arg)
BY DEF Cell, Line

LEMMA SubSeqStep ==
  ASSUME NEW q \in File, NEW k \in Nat, k < Len(q)
  PROVE  SubSeq(q, 1, k + 1) = Append(SubSeq(q, 1, k), q[k + 1])
<1>1. q \in Seq(Cell) /\ Len(q) \in Nat /\ DOMAIN q = 1..Len(q)
  BY LenProperties DEF File
<1>2. 1 \in 1..Len(q) /\ k + 1 \in 1..Len(q) /\ (k + 1) - 1 = k
  BY <1>1
<1>3. SubSeq(q, 1, k + 1) = SubSeq(q, 1, k) \o <<q[k + 1]>>
  BY <1>1, <1>2, SubSeqRecursiveSecond
<1>4. \A i \in 1..k : q[i] \in Cell
  BY <1>1, ElementOfSeq
<1>5. SubSeq(q, 1, k) \in Seq(Cell)
  BY <1>4, SubSeqProperties
<1> QED
  BY <1>3, <1>5, AppendIsConcat

(* What reading the line c does to the files and directories. *)
LEMMA ReadOne ==
  ASSUME IInv, Read, NEW c, c = pac[at]
  PROVE  /\ c \in Cell
         /\ c.kind = "dir" => c.arg \in dirs'
         /\ dirs \subseteq dirs' /\ \A d \in dirs' : d \in dirs \/ c = Line("dir", d)
         /\ \A n \in Names :
              /\ files[n] # NoFile => files'[n] # NoFile
              /\ c = Line("start", n) /\ Exists(DirOf[n]) =>
                   started' /\ outfile' = n /\ files'[n] = <<>>
              /\ c.kind = "text" /\ started /\ outfile = n =>
                   started' /\ outfile' = n /\ files'[n] = Append(files[n], c)
              /\ c.kind = "end" => ~started' /\ files'[n] = files[n]
              /\ c # Line("start", n) /\ ~(started /\ outfile = n) =>
                   files'[n] = files[n] /\ ~(started' /\ outfile' = n)
<1>1. /\ pc = "unpack" /\ at <= Len(pac)
  BY DEF Read, ReadDir, ReadStart, ReadEnd, ReadOther, ReadExe, Reading
<1>2. pac \in File /\ at \in Nat \ {0} /\ files \in [Names -> File \union {NoFile}]
  BY <1>1 DEF IInv, TypeOK, PackTypes
<1>3. c \in Cell /\ c = Line(c.kind, c.arg)
  BY <1>1, <1>2, CellIsLine, LenProperties, ElementOfSeq DEF File
<1>4. <<>> # NoFile /\ \A f \in File : Append(f, c) # NoFile
  BY <1>3, AppendFile, EmptySeq, PackerAssumption DEF File
<1>5. NoName \notin Names
  BY PackerAssumption
<1>6. CASE ReadDir \/ ReadOther
  <2>1. /\ files' = IF started /\ outfile # NoName
                    THEN [files EXCEPT ![outfile] = Append(files[outfile], c)] ELSE files
        /\ UNCHANGED <<started, outfile>>
        /\ c.kind \in {"dir", "text", "size", "magic", "zero", "exe"}
    BY <1>6 DEF ReadDir, ReadOther, Reading, WriteLine
  <2>2. dirs' = (IF c.kind = "dir" THEN dirs \union {c.arg} ELSE dirs)
    BY <1>6 DEF ReadDir, ReadOther, Reading
  <2>3. c.kind = "dir" => c.arg \in dirs'
    BY <2>2
  <2>4. dirs \subseteq dirs' /\ \A d \in dirs' : d \in dirs \/ c = Line("dir", d)
    BY <1>3, <2>2
  <2>5. \A n : c # Line("start", n) /\ c.kind # "end"
    BY <2>1, Lines
  <2>6. ASSUME NEW n \in Names
        PROVE  /\ files[n] # NoFile => files'[n] # NoFile
               /\ started /\ outfile = n => files'[n] = Append(files[n], c)
               /\ ~(started /\ outfile = n) => files'[n] = files[n]
    <3>1. CASE started /\ outfile = n
      BY <1>2, <1>4, <1>5, <2>1, <3>1
    <3>2. CASE ~(started /\ outfile = n)
      BY <1>2, <2>1, <3>2
    <3> QED
      BY <3>1, <3>2
  <2> QED
    BY <1>3, <2>1, <2>3, <2>4, <2>5, <2>6
<1>7. CASE ReadStart
  <2>1. /\ started' = TRUE /\ dirs' = dirs /\ c.kind = "start"
        /\ outfile' = IF Exists(DirOf[c.arg]) THEN c.arg ELSE NoName
        /\ files' = IF Exists(DirOf[c.arg]) THEN [files EXCEPT ![c.arg] = <<>>] ELSE files
    BY <1>7 DEF ReadStart, Reading
  <2>2. c = Line("start", c.arg) /\ c.arg \in Names
    BY <1>3, <2>1, CellArgs
  <2>3. ASSUME NEW n \in Names
        PROVE  /\ files[n] # NoFile => files'[n] # NoFile
               /\ c = Line("start", n) /\ Exists(DirOf[n]) =>
                    started' /\ outfile' = n /\ files'[n] = <<>>
               /\ c # Line("start", n) => files'[n] = files[n] /\ outfile' # n
    <3>1. CASE n = c.arg
      BY <1>2, <1>4, <2>1, <2>2, <3>1
    <3>2. CASE n # c.arg
      <4>1. c # Line("start", n)
        BY <2>2, <3>2, Lines
      <4> QED
        BY <1>2, <1>5, <2>1, <2>2, <3>2, <4>1
    <3> QED
      BY <3>1, <3>2
  <2> QED
    BY <1>3, <2>1, <2>3
<1>8. CASE ReadEnd
  <2>1. /\ started' = FALSE /\ UNCHANGED <<files, dirs>> /\ c.kind = "end"
    BY <1>8 DEF ReadEnd, Reading
  <2>2. \A n : c # Line("start", n)
    BY <2>1, Lines
  <2> QED
    BY <1>3, <2>1, <2>2
<1>9. CASE ReadExe
  <2>1. /\ started' = TRUE /\ outfile' = NoName /\ UNCHANGED <<files, dirs>> /\ c.kind = "exe"
    BY <1>9 DEF ReadExe, Reading
  <2>2. \A n : c # Line("start", n)
    BY <2>1, Lines
  <2> QED
    BY <1>3, <1>5, <2>1, <2>2
<1> QED
  BY <1>6, <1>7, <1>8, <1>9 DEF Read

(* One recorded file, while a line is read. *)
LEMMA ReadRecorded ==
  ASSUME IInv, TripInv, Read, Good, alone, NEW n \in Names, NEW s, Kept(n),
         RecordIn(pac, packed[n], n, s, Len(base))
  PROVE  UnpackedSoFar(n, s)'
<1> DEFINE m == Len(packed[n])
           c == pac[at]
<1>1. /\ pc = "unpack" /\ at' = at + 1 /\ at <= Len(pac) /\ UNCHANGED <<pac, packed, base>>
  BY DEF Read, ReadDir, ReadStart, ReadEnd, ReadOther, ReadExe, Reading, history
<1>2. /\ pac \in File /\ base \in File /\ packed[n] \in File /\ packed[n] # NoFile
      /\ at \in Nat \ {0} /\ started \in BOOLEAN
  BY <1>1 DEF IInv, TypeOK, PackTypes, Kept
<1>3. /\ Len(pac) \in Nat /\ m \in Nat /\ Len(base) \in Nat /\ DOMAIN pac = 1..Len(pac)
      /\ DOMAIN packed[n] = 1..m /\ DOMAIN base = 1..Len(base)
  BY <1>2, FileFacts
<1>4. /\ s \in (Len(base) + 1)..Len(pac) /\ s + m + 1 <= Len(pac) /\ s \in Nat /\ s \in DOMAIN pac
      /\ pac[s] = Line("start", n) /\ pac[s + m + 1] = Line("end", n)
      /\ \A j \in 1..m : pac[s + j] = packed[n][j]
      /\ \A k \in (s + 1)..Len(pac) : pac[k] # Line("start", n)
  BY <1>3 DEF RecordIn
<1>5. Unpacking /\ Plain(packed[n]) /\ \A k \in 1..Len(base) : pac[k].kind = "exe"
  <2>1. BeginsWithBase /\ Recorded /\ Unpacking
    BY DEF TripInv
  <2>2. Plain(packed[n])
    BY <1>1, <1>2, <2>1 DEF Recorded
  <2>3. \A k \in 1..Len(base) : pac[k].kind = "exe"
    BY <1>1, <1>3, <2>1 DEF BeginsWithBase, TripInv
  <2> QED
    BY <2>1, <2>2, <2>3
<1>6. /\ s < at /\ at <= s + m + 1 =>
           started /\ outfile = n /\ files[n] = SubSeq(packed[n], 1, at - s - 1)
      /\ s + m + 1 < at => files[n] = packed[n] /\ ~(started /\ outfile = n)
  BY <1>1, <1>4, <1>5 DEF Unpacking, UnpackedSoFar
<1>7. /\ c = Line("start", n) /\ Exists(DirOf[n]) =>
           started' /\ outfile' = n /\ files'[n] = <<>>
      /\ c.kind = "text" /\ started /\ outfile = n =>
           started' /\ outfile' = n /\ files'[n] = Append(files[n], c)
      /\ c.kind = "end" => ~started' /\ files'[n] = files[n]
      /\ c # Line("start", n) /\ ~(started /\ outfile = n) =>
           files'[n] = files[n] /\ ~(started' /\ outfile' = n)
  BY ReadOne
<1> DEFINE Goal(p) ==
             /\ s < p /\ p <= s + m + 1 =>
                  started' /\ outfile' = n /\ files'[n] = SubSeq(packed[n], 1, p - s - 1)
             /\ s + m + 1 < p => files'[n] = packed[n] /\ ~(started' /\ outfile' = n)
<1> SUFFICES Goal(at')
  <2>1. Goal(at')
    OBVIOUS
  <2>2. packed'[n] = packed[n]
    BY <1>1
  <2> QED
    BY <2>1, <2>2 DEF UnpackedSoFar
<1> HIDE DEF m, c
<1>8. ASSUME NEW p, NEW q, p - s - 1 = q, ~(s + m + 1 < p),
              started' /\ outfile' = n /\ files'[n] = SubSeq(packed[n], 1, q)
       PROVE  Goal(p)
  BY <1>8, Zenon
<1>9. CASE at < s
  BY <1>1, <1>2, <1>3, <1>4, <1>9
<1>10. CASE at = s
  <2>1. c = Line("start", n)
    BY <1>4, <1>10 DEF c
  <2>2. Exists(DirOf[n])
    <3>1. CASE DirOf[n] = Here
      BY <3>1 DEF Exists
    <3>2. CASE DirOf[n] # Here
      <4>1. HasDirIn(pac, DirOf[n])
        BY <3>2 DEF Kept, HasDirIn
      <4>2. PICK k \in 1..(s - 1) : pac[k] = Line("dir", DirOf[n])
        BY <4>1 DEF RecordIn
      <4>3. k \notin 1..Len(base)
        BY <1>5, <4>2, Lines
      <4>4. k \in (Len(base) + 1)..(at - 1) /\ k \in DOMAIN pac
        BY <1>3, <1>4, <1>10, <4>3
      <4>5. pac[k].kind = "dir" /\ pac[k].arg = DirOf[n]
        BY <4>2, Lines
      <4> QED
        BY <1>1, <1>5, <4>4, <4>5 DEF Unpacking, Exists
    <3> QED
      BY <3>1, <3>2
  <2>3. started' /\ outfile' = n /\ files'[n] = <<>>
    BY <1>7, <2>1, <2>2
  <2>4. SubSeq(packed[n], 1, 0) = <<>>
    BY SubSeqEmpty
  <2>5. at' - s - 1 = 0 /\ ~(s + m + 1 < at')
    BY <1>1, <1>2, <1>3, <1>4, <1>10
  <2> HIDE DEF Goal
  <2> QED
    BY <1>8, <2>3, <2>4, <2>5
<1>11. CASE s < at /\ at <= s + m
  <2> DEFINE j == at - s
  <2>1. j \in 1..m /\ s + j = at /\ at - s - 1 = j - 1 /\ at' - s - 1 = j /\ j - 1 \in Nat
        /\ (j - 1) + 1 = j /\ j - 1 < m /\ ~(s + m + 1 < at') /\ at <= s + m + 1
    BY <1>1, <1>2, <1>3, <1>4, <1>11
  <2> HIDE DEF j
  <2>2. c = packed[n][j] /\ c.kind = "text"
    <3>1. pac[s + j] = packed[n][j]
      BY <1>4, <2>1
    <3>2. packed[n][j].kind = "text"
      BY <1>3, <1>5, <2>1 DEF Plain
    <3> QED
      BY <2>1, <3>1, <3>2 DEF c
  <2>3. started /\ outfile = n /\ files[n] = SubSeq(packed[n], 1, j - 1)
    BY <1>6, <1>11, <2>1
  <2>4. started' /\ outfile' = n /\ files'[n] = Append(SubSeq(packed[n], 1, j - 1), packed[n][j])
    BY <1>7, <2>2, <2>3
  <2>5. SubSeq(packed[n], 1, (j - 1) + 1) = Append(SubSeq(packed[n], 1, j - 1), packed[n][(j - 1) + 1])
    BY <1>2, <2>1, SubSeqStep DEF m
  <2>6. started' /\ outfile' = n /\ files'[n] = SubSeq(packed[n], 1, j)
    BY <2>1, <2>4, <2>5
  <2> HIDE DEF Goal
  <2> QED
    BY <1>8, <2>1, <2>6
<1>12. CASE at = s + m + 1
  <2>1. c = Line("end", n) /\ c.kind = "end"
    BY <1>4, <1>12, Lines DEF c
  <2>2. files[n] = SubSeq(packed[n], 1, m)
    <3>1. s < at /\ at <= s + m + 1 /\ at - s - 1 = m
      BY <1>1, <1>3, <1>4, <1>12
    <3> QED
      BY <1>6, <3>1
  <2>3. SubSeq(packed[n], 1, m) = packed[n]
    BY <1>2, SubSeqFull DEF m, File
  <2>4. ~(at' <= s + m + 1)
    BY <1>1, <1>3, <1>4, <1>12
  <2> QED
    BY <1>7, <2>1, <2>2, <2>3, <2>4
<1>13. CASE s + m + 1 < at
  <2>1. at \in (s + 1)..Len(pac) /\ ~(at' <= s + m + 1)
    BY <1>1, <1>2, <1>3, <1>4, <1>13
  <2>2. c # Line("start", n)
    BY <1>4, <2>1 DEF c
  <2> QED
    BY <1>6, <1>7, <1>13, <2>1, <2>2
<1>14. at < s \/ at = s \/ (s < at /\ at <= s + m) \/ at = s + m + 1 \/ s + m + 1 < at
  BY <1>2, <1>3, <1>4
<1> QED
  BY <1>9, <1>10, <1>11, <1>12, <1>13, <1>14

LEMMA ReadTrip ==
  ASSUME IInv, IInv', TripInv, Read
  PROVE  TripInv'
<1>1. /\ pc = "unpack" /\ pc' = "unpack" /\ at' = at + 1 /\ at <= Len(pac)
      /\ UNCHANGED <<uname, pac, ret, base, same, whole, packed, alone>>
  BY DEF Read, ReadDir, ReadStart, ReadEnd, ReadOther, ReadExe, Reading, history
<1>2. pac # NoFile /\ pac \in File /\ at \in Nat
  BY <1>1 DEF IInv, TypeOK, PackTypes
<1>3. Good' => Good /\ PresentIfNoDir
  BY <1>1 DEF Good, TripInv
<1> DEFINE c == pac[at]
<1>4. /\ c.kind = "dir" => c.arg \in dirs'
      /\ dirs \subseteq dirs' /\ \A d \in dirs' : d \in dirs \/ c = Line("dir", d)
      /\ \A n \in Names : files[n] # NoFile => files'[n] # NoFile
  BY ReadOne
<1>5. at \in DOMAIN pac /\ DOMAIN pac = 1..Len(pac) /\ Len(pac) \in Nat
  BY <1>1, <1>2, FileFacts DEF IInv, PackTypes
<1>6. ASSUME Good' PROVE PresentIfNoDir'
  <2> SUFFICES ASSUME NEW n \in Names, DirOf[n] \in dirs', packed[n] # NoFile, ~HasDirIn(pac, DirOf[n])
               PROVE  files'[n] # NoFile
    BY <1>1 DEF PresentIfNoDir
  <2>1. DirOf[n] \in dirs
    BY <1>4, <1>5 DEF HasDirIn
  <2> QED
    BY <1>3, <1>4, <1>6, <2>1 DEF PresentIfNoDir
<1>7. ASSUME Good', alone' PROVE Unpacking'
  <2>1. Unpacking /\ alone /\ Good
    BY <1>1, <1>3, <1>7 DEF TripInv
  <2>2. \A n : Kept(n)' => Kept(n)
    BY <1>1 DEF Kept
  <2>3. ASSUME NEW n \in Names, NEW s \in DOMAIN pac, Kept(n), RecordIn(pac, packed[n], n, s, Len(base))
        PROVE  UnpackedSoFar(n, s)'
    BY <2>1, <2>3, ReadRecorded
  <2>4. base \in File /\ Len(base) \in Nat
    BY FileFacts DEF IInv, TypeOK
  <2>5. at > Len(base) /\ at' > Len(base)
    BY <1>1, <1>2, <2>1, <2>4 DEF Unpacking
  <2>6. ASSUME NEW k \in (Len(base) + 1)..(at' - 1), k \in DOMAIN pac, pac[k].kind = "dir"
        PROVE  pac[k].arg \in dirs'
    <3>1. CASE k = at
      BY <1>4, <2>6, <3>1
    <3>2. CASE k # at
      <4>1. k \in (Len(base) + 1)..(at - 1)
        BY <1>1, <1>2, <2>4, <3>2
      <4>2. pac[k].arg \in dirs
        BY <1>1, <2>1, <2>6, <4>1 DEF Unpacking
      <4> QED
        BY <1>4, <4>2
    <3> QED
      BY <3>1, <3>2
  <2>7. \A n \in Names, s \in DOMAIN pac' :
          Kept(n)' /\ RecordIn(pac', packed'[n], n, s, Len(base')) => UnpackedSoFar(n, s)'
    BY <1>1, <2>2, <2>3
  <2>8. uname' = pac' /\ ret' = Len(base')
    BY <1>1, <2>1 DEF Unpacking
  <2>9. \A k \in (Len(base') + 1)..(at' - 1) :
          k \in DOMAIN pac' /\ pac'[k].kind = "dir" => pac'[k].arg \in dirs'
    BY <1>1, <2>6
  <2> QED
    BY <1>1, <2>5, <2>7, <2>8, <2>9 DEF Unpacking
<1>8. RoundTrip' /\ pc' \notin packing \union {"copy"} /\ pc \notin packing \union {"copy"}
  BY <1>1 DEF RoundTrip, packing
<1> QED
  BY <1>1, <1>2, <1>3, <1>6, <1>7, <1>8, AsideTrip

(* Everything has been read, and pac.exe without its lines is the program. *)
LEMMA CleanUpTrip ==
  ASSUME IInv, IInv', TripInv, CleanUp
  PROVE  TripInv'
<1>1. /\ pc = "unpack" /\ pc' = "unpacked" /\ at > Len(pac) /\ uname' = Resized(uname, ret)
      /\ UNCHANGED <<pac, files, dirs, at, base, same, whole, packed, alone>>
  BY DEF CleanUp, history
<1>2. /\ pac \in File /\ pac # NoFile /\ base \in File /\ at \in Nat \ {0}
      /\ pc \notin packing \union {"copy"}
  BY <1>1 DEF IInv, TypeOK, PackTypes, packing
<1>3. Good' => Good /\ PresentIfNoDir
  BY <1>1 DEF Good, TripInv
<1>4. Good' => PresentIfNoDir'
  BY <1>1, <1>3 DEF PresentIfNoDir
<1>5. Unpacking' /\ pc' \notin packing \union {"copy"}
  BY <1>1 DEF Unpacking, packing
<1>6. ASSUME alone', same', whole'
      PROVE  uname' = base' /\ \A n \in Names : Kept(n)' => files'[n] = packed'[n]
  <2>1. Good /\ alone
    BY <1>1, <1>2, <1>6 DEF Good
  <2>2. BeginsWithBase /\ Recorded /\ Unpacking
    BY <2>1 DEF TripInv
  <2>3. /\ pac \in Seq(Cell) /\ base \in Seq(Cell) /\ Len(pac) \in Nat /\ Len(base) \in Nat
        /\ DOMAIN pac = 1..Len(pac)
    BY <1>2, FileFacts DEF File
  <2>4. /\ uname = pac /\ ret = Len(base)
        /\ Len(base) <= Len(pac) /\ \A k \in 1..Len(base) : pac[k] = base[k]
    BY <1>1, <2>2, <2>3 DEF BeginsWithBase, Unpacking
  <2>5. uname' = base
    <3> DEFINE w == SubSeq(pac, 1, Len(base))
    <3>1. uname' = w
      BY <1>1, <2>4 DEF Resized
    <3>2. \A k \in 1..Len(base) : pac[k] \in Cell
      BY <2>3, <2>4, ElementOfSeq
    <3>3. /\ w \in Seq(Cell)
          /\ Len(w) = (IF 1 <= Len(base) THEN Len(base) - 1 + 1 ELSE 0)
          /\ \A k \in 1..(Len(base) - 1 + 1) : w[k] = pac[1 + k - 1]
      BY <2>3, <3>2, SubSeqProperties
    <3> HIDE DEF w
    <3>4. Len(w) = Len(base) /\ \A k \in 1..Len(base) : w[k] = pac[k]
      BY <2>3, <3>3
    <3>5. w = base
      BY <2>3, <2>4, <3>3, <3>4, SeqEqual
    <3> QED
      BY <3>1, <3>5
  <2>6. ASSUME NEW n \in Names, Kept(n) PROVE files[n] = packed[n]
    <3>1. packed[n] # NoFile /\ packed[n] \in File
      BY <2>6 DEF Kept, IInv, TypeOK
    <3>2. n \notin Pending
      BY <1>1 DEF Pending, inFile
    <3>3. PICK s \in DOMAIN pac : RecordIn(pac, packed[n], n, s, Len(base))
      BY <1>1, <2>2, <3>1, <3>2 DEF Recorded
    <3>4. UnpackedSoFar(n, s)
      BY <1>1, <2>2, <2>6, <3>3 DEF Unpacking
    <3>5. s + Len(packed[n]) + 1 <= Len(pac) /\ s \in Nat /\ Len(packed[n]) \in Nat
      BY <2>3, <3>1, <3>3, FileFacts DEF RecordIn
    <3>6. s + Len(packed[n]) + 1 < at
      BY <1>1, <1>2, <2>3, <3>5
    <3> QED
      BY <3>4, <3>6 DEF UnpackedSoFar
  <2>7. \A n : Kept(n)' => Kept(n)
    BY <1>1 DEF Kept
  <2> QED
    BY <1>1, <2>5, <2>6, <2>7
<1>7. RoundTrip'
  BY <1>6 DEF RoundTrip
<1> QED
  BY <1>1, <1>2, <1>3, <1>4, <1>5, <1>7, AsideTrip

LEMMA InitTrip == Init => TripInv
<1> SUFFICES ASSUME Init PROVE TripInv
  OBVIOUS
<1>1. /\ pac = NoFile /\ pc = "menu" /\ choice = 0 /\ base = uname
      /\ \A n \in Names : packed[n] = NoFile
  BY DEF Init
<1>2. \A k \in DOMAIN base : base[k].kind = "exe"
  BY DEF Init, Exe
<1>3. ~Good /\ RoundTrip
  BY <1>1 DEF Good, RoundTrip
<1> QED
  BY <1>1, <1>2, <1>3 DEF TripInv, packing

LEMMA NextTrip ==
  ASSUME IInv, TripInv, [Next]_vars
  PROVE  TripInv'
<1>1. IInv'
  BY NextInv
<1>2. CASE Pack
  BY <1>1, <1>2, OpenPackTrip, CopiedTrip, BeginFileTrip, WriteMagicTrip, WriteDirTrip,
     OpenFileTrip, CopyLineTrip, WriteEndTrip, WriteSizeTrip, EndsTrip DEF Pack
<1>3. CASE Unpack
  BY <1>1, <1>3, OpenUnpackTrip, ReadSizeTrip, EndsTrip, ReadTrip, CleanUpTrip DEF Unpack, Read
<1>4. CASE User
  BY <1>1, <1>4, UserTrip, EndsTrip DEF User
<1>5. CASE UNCHANGED vars
  <2>1. /\ UNCHANGED <<uname, pac, files, dirs, pc, choice, todo, pth, name, at, ret, started, outfile>>
        /\ UNCHANGED <<base, same, whole, packed, alone>>
    BY <1>5 DEF vars, disk, pack, unpack, history
  <2>2. Good' = Good /\ Pending' = Pending /\ \A n : Kept(n)' = Kept(n)
    BY <2>1 DEF Good, Pending, Kept
  <2>3. \A n, s : UnpackedSoFar(n, s)' = UnpackedSoFar(n, s)
    BY <2>1 DEF UnpackedSoFar
  <2>4. /\ BeginsWithBase' = BeginsWithBase /\ EndsWithSize' = EndsWithSize
        /\ PresentIfNoDir' = PresentIfNoDir /\ WholeDirectory' = WholeDirectory
        /\ BeingWritten' = BeingWritten
    BY <2>1 DEF BeginsWithBase, EndsWithSize, PresentIfNoDir, WholeDirectory, BeingWritten
  <2>5. Recorded' = Recorded
    BY <2>1, <2>2 DEF Recorded
  <2>6. Unpacking' = Unpacking /\ RoundTrip' = RoundTrip
    BY <2>1, <2>2, <2>3 DEF Unpacking, RoundTrip
  <2> QED
    BY <2>1, <2>2, <2>4, <2>5, <2>6 DEF TripInv
<1> QED
  BY <1>2, <1>3, <1>4, <1>5 DEF Next

(***************************************************************************)
(* What is packed comes back, for any files, contents, programs and number *)
(* of sessions: pac.exe, unpacked alone in another place, turns into the   *)
(* program it was made from, and each file that was packed, and whose      *)
(* directory was, gets the content it was last packed with, whatever lies  *)
(* there already and whichever sessions of unpacking were killed.          *)
(***************************************************************************)
THEOREM PackedComesBack == Spec => []RoundTrip
<1>1. Init => IInv /\ TripInv
  BY InitInv, InitTrip
<1>2. IInv /\ TripInv /\ [Next]_vars => (IInv /\ TripInv)'
  BY NextInv, NextTrip
<1>3. TripInv => RoundTrip
  BY DEF TripInv
<1> QED
  BY <1>1, <1>2, <1>3, PTL DEF Spec
=============================================================================
