-------------------------------- MODULE Packer --------------------------------
(***************************************************************************)
(* Packer (packer.cpp) and menu choices 3, 4 and 5 of main: files are      *)
(* appended to a copy of the program, pac.exe, which unpacks them again    *)
(* where it has been sent to and makes the program out of itself.          *)
(*                                                                         *)
(* A file is a sequence of cells: a line with the newline in front of it,  *)
(* or a piece of an executable.  Offsets and sizes count cells.  A line of *)
(* a packed file is not told from the lines the packer adds: it is the     *)
(* same cell if it contains the same marker.                               *)
(***************************************************************************)
EXTENDS Integers, Sequences

CONSTANTS
  Names,     (* the files to pack                                          *)
  Dirs,      (* and the directories they may be in                         *)
  Here,      (* the working directory                                      *)
  DirOf,     (* DirOf[n]: the directory of n, in Dirs or Here              *)
  Contents,  (* what the user may write into a file                        *)
  Builds,    (* builds of the program                                      *)
  SizeOf,    (* SizeOf[b]: the size of build b                             *)
  Strays,    (* last digits of earlier sizes, names and texts (0: none)    *)
  MaxCells,  (* bound: nothing is packed into a longer pac.exe              *)
  MaxEvents, (* bound on kills, edits and rebuilds                         *)
  NoFile, NoName

Cell == [kind: {"exe"}, arg: Builds] \union [kind: {"start", "end"}, arg: Names]
        \union [kind: {"dir"}, arg: Dirs] \union [kind: {"size"}, arg: Nat]
        \union [kind: {"text", "zero", "magic"}, arg: {NoName}]

File == Seq(Cell)

ASSUME PackerAssumption ==
  /\ DirOf \in [Names -> Dirs \union {Here}] /\ Here \notin Dirs
  /\ Contents \subseteq File
  /\ SizeOf \in [Builds -> Nat]
  /\ Strays \subseteq Nat /\ 0 \in Strays
  /\ MaxCells \in Nat /\ MaxEvents \in Nat
  /\ NoFile \notin File /\ NoName \notin Names

VARIABLES
  uname,    (* the program's file                                          *)
  pac,      (* pac.exe                                                     *)
  files,    (* the data files                                              *)
  dirs,     (* the directories that exist                                  *)
  pc,
  choice,   (* 3, 4 or 5, 0 in the menu                                    *)
  todo,     (* files of the directory that are still to be packed          *)
  pth,      (* the directory's name, cleared once it has been written      *)
  name,     (* the file being packed                                       *)
  at,       (* the line that getline has come to                           *)
  ret,      (* the size that readSize has found                            *)
  started,  (* PACSTART                                                    *)
  outfile,  (* the file being unpacked, NoName if it could not be opened   *)
  events,   (* number of kills, edits and rebuilds                         *)
  base,     (* history: the program that pac.exe was made from             *)
  same,     (* history: each session of packing began with this program    *)
  whole,    (* history: and none was interrupted or packed a marker        *)
  packed,   (* history: the content each file was last packed with         *)
  alone     (* history: this unpack began without the program's file       *)

disk    == <<uname, pac, files, dirs>>
pack    == <<todo, pth, name>>
unpack  == <<ret, started, outfile>>
history == <<base, same, whole, packed, alone>>
vars    == <<disk, pc, choice, pack, at, unpack, events, history>>

Exe(b)   == [k \in 1..SizeOf[b] |-> [kind |-> "exe", arg |-> b]]
Zeros(n) == [k \in 1..n |-> [kind |-> "zero", arg |-> NoName]]
Line(kind, arg) == [kind |-> kind, arg |-> arg]
Magic    == Line("magic", NoName)

(* FileIO::fWriteString at an offset: behind the end it leaves a hole      *)
WriteAt(f, offset, c) ==
  IF offset < Len(f) THEN [f EXCEPT ![offset + 1] = c]
  ELSE f \o Zeros(offset - Len(f)) \o <<c>>

(* boost::filesystem::resize_file *)
Resized(f, n) == IF n <= Len(f) THEN SubSeq(f, 1, n) ELSE f \o Zeros(n - Len(f))

(* no line of the file looks like a marker or a size *)
Plain(f) == \A k \in DOMAIN f : f[k].kind = "text"

(* back to the menu: the Packer object is gone *)
ToMenu ==
  /\ pc' = "menu" /\ choice' = 0
  /\ todo' = {} /\ pth' = Here /\ name' = NoName /\ at' = 1
  /\ ret' = 0 /\ started' = FALSE /\ outfile' = NoName

(***************************************************************************)
(* What readSize finds in a file, from 50 bytes before its end on.  If all *)
(* lines from some byte on are numbers it is the last of them, the size;   *)
(* else the last number that any byte begins: the last digit of an earlier *)
(* size or of a name or text that ends in a digit, or 0 if there is none.  *)
(* The end of the program alone holds no number.                           *)
(***************************************************************************)
SizesIn(f) ==
  IF f # <<>> /\ f[Len(f)].kind = "size" THEN {f[Len(f)].arg}
  ELSE IF \A k \in DOMAIN f : f[k].kind = "exe" THEN {0}
  ELSE Strays

Exists(d) == d = Here \/ d \in dirs

(***************************************************************************)
(* Packer::Packer() for choices 3 and 4: pac.exe is copied only if it does *)
(* not exist yet.                                                          *)
(***************************************************************************)
OpenPack(c) ==
  /\ pc = "menu" /\ uname # NoFile
  /\ pac # NoFile => Len(pac) < MaxCells
  /\ choice' = c
  /\ IF pac = NoFile
     THEN pc' = "copy" /\ pac' = <<>> /\ base' = uname
     ELSE pc' = "ask" /\ UNCHANGED <<pac, base>>
  /\ same' = (same /\ (pac # NoFile => uname = base))
  /\ UNCHANGED <<uname, files, dirs, pack, at, unpack, events, whole, packed, alone>>

Copied ==
  /\ pc = "copy" /\ pc' = "ask"
  /\ pac' = uname
  /\ UNCHANGED <<uname, files, dirs, choice, pack, at, unpack, events, history>>

PackFile(n) ==
  /\ pc = "ask" /\ pc' = "magic"
  /\ choice = 3 /\ Len(pac) < MaxCells
  /\ name' = n /\ pth' = Here /\ todo' = {}
  /\ UNCHANGED <<disk, choice, at, unpack, events, history>>

(* Packer::packDirectory: the files of the directory, in any order *)
PackDirectory(d) ==
  LET inside == {n \in Names : DirOf[n] = d /\ files[n] # NoFile} IN
  /\ pc = "ask"
  /\ choice = 4 /\ Len(pac) < MaxCells
  /\ d \in dirs
  /\ IF inside = {} THEN UNCHANGED <<pc, name, todo>>
     ELSE pc' = "magic" /\ name' \in inside /\ todo' = inside \ {name'}
  /\ pth' = d
  /\ UNCHANGED <<disk, choice, at, unpack, events, history>>

(***************************************************************************)
(* Packer::packDataFile.  Each line is a write of its own.  It waits in    *)
(* the buffer of the stream until the next one asks for the file's size: a *)
(* kill that loses it is one before its step.                              *)
(***************************************************************************)
Packing(from, to) ==
  /\ pc = from /\ pc' = to
  /\ UNCHANGED <<uname, files, dirs, choice, unpack, events, base, same, alone>>

WriteMagic ==
  /\ Packing("magic", "dir")
  /\ pac' = WriteAt(pac, Len(uname), Magic)
  /\ UNCHANGED <<pack, at, packed, whole>>

WriteDir ==
  /\ Packing("dir", "start")
  /\ pac' = IF pth = Here THEN pac ELSE Append(pac, Line("dir", pth))
  /\ UNCHANGED <<pack, at, packed, whole>>

(* A faulty OpenFile, for the check of NothingOverwritten: START goes      *)
(* behind PACKERMAGIC, which is the end of a new pac.exe only.             *)
OpenFileBehind ==
  /\ Packing("start", "lines")
  /\ files[name] # NoFile
  /\ pac' = WriteAt(pac, Len(uname) + 1, Line("start", name))
  /\ at' = 1
  /\ whole' = (whole /\ Plain(files[name]))
  /\ UNCHANGED <<pack, packed>>

(* START, which is still in the buffer when the file is opened             *)
OpenFile ==
  /\ Packing("start", "lines")
  /\ files[name] # NoFile
  /\ pac' = Append(pac, Line("start", name))
  /\ at' = 1
  /\ whole' = (whole /\ Plain(files[name]))
  /\ UNCHANGED <<pack, packed>>

CopyLine ==
  /\ Packing("lines", "lines")
  /\ at <= Len(files[name])
  /\ pac' = Append(pac, files[name][at])
  /\ at' = at + 1
  /\ UNCHANGED <<pack, packed, whole>>

(* pth is cleared after a file of a directory, so the next goes without    *)
WriteEnd ==
  /\ Packing("lines", IF todo = {} THEN "ask" ELSE "magic")
  /\ at > Len(files[name])
  /\ pac' = Append(pac, Line("end", name))
  /\ packed' = [packed EXCEPT ![name] = files[name]]
  /\ pth' = Here
  /\ IF todo = {} THEN UNCHANGED <<name, todo>>
     ELSE name' \in todo /\ todo' = todo \ {name'}
  /\ UNCHANGED <<at, whole>>

WriteSize ==
  /\ pc = "ask" /\ ToMenu
  /\ pac' = Append(pac, Line("size", Len(uname)))
  /\ UNCHANGED <<uname, files, dirs, events, history>>

(* debug_pause for a file that cannot be opened: no END and no size, and   *)
(* no START, which longjmp leaves in the buffer of a stream never closed   *)
PackingFails ==
  /\ pc = "start" /\ ToMenu
  /\ whole' = FALSE
  /\ UNCHANGED <<disk, events, base, same, packed, alone>>

(***************************************************************************)
(* Choice 5, in pac.exe.  Packer::Packer(execName) makes the program's     *)
(* file out of pac.exe only if it does not exist yet.                      *)
(***************************************************************************)
OpenUnpack ==
  /\ pc = "menu" /\ pac # NoFile
  /\ choice' = 5
  /\ alone' = (uname = NoFile)
  /\ IF uname = NoFile THEN pc' = "clone" /\ uname' = <<>>
     ELSE pc' = "size" /\ UNCHANGED uname
  /\ UNCHANGED <<pac, files, dirs, pack, at, unpack, events, base, same, whole, packed>>

Cloned ==
  /\ pc = "clone" /\ pc' = "size"
  /\ uname' = pac
  /\ UNCHANGED <<pac, files, dirs, choice, pack, at, unpack, events, history>>

(* A faulty ReadSize, for the check of TypeOK: it takes off the newline    *)
(* before it looks whether there is a size.                                *)
ReadSizeMinusOne ==
  /\ pc = "size" /\ pc' = "unpack"
  /\ \E n \in SizesIn(uname) : ret' = n - 1 /\ at' = n
  /\ UNCHANGED <<disk, choice, pack, started, outfile, events, history>>

(***************************************************************************)
(* Packer::readSize looks into the program's file, not into pac.exe.  If   *)
(* there is no number the search is widened, but the stream has failed by  *)
(* then, and debug_pause follows.                                          *)
(***************************************************************************)
ReadSize ==
  /\ pc = "size" /\ pc' = "unpack"
  /\ \E n \in SizesIn(uname) \ {0} : ret' = n /\ at' = n + 1
  /\ UNCHANGED <<disk, choice, pack, started, outfile, events, history>>

NoSize ==
  /\ pc = "size" /\ ToMenu
  /\ 0 \in SizesIn(uname)
  /\ UNCHANGED <<disk, events, history>>

(***************************************************************************)
(* Packer::unpackDataFiles, line by line                                   *)
(***************************************************************************)
Reading(kinds) ==
  /\ pc = "unpack" /\ at <= Len(pac) /\ pac[at].kind \in kinds
  /\ at' = at + 1
  /\ UNCHANGED <<uname, pac, pc, choice, pack, ret, events, history>>

(* outfile<<line<<endl *)
WriteLine ==
  files' = IF started /\ outfile # NoName
           THEN [files EXCEPT ![outfile] = Append(@, pac[at])] ELSE files

ReadDir ==
  /\ Reading({"dir"})
  /\ dirs' = dirs \union {pac[at].arg}
  /\ WriteLine
  /\ UNCHANGED <<started, outfile>>

(* A faulty ReadStart, for the check of RoundTrip: a file that has been    *)
(* unpacked before is opened to append to it.                              *)
ReadStartAppending ==
  LET n == pac[at].arg IN
  /\ Reading({"start"})
  /\ started' = TRUE
  /\ outfile' = IF Exists(DirOf[n]) THEN n ELSE NoName
  /\ files' = IF Exists(DirOf[n]) /\ files[n] = NoFile THEN [files EXCEPT ![n] = <<>>] ELSE files
  /\ UNCHANGED dirs

(* a directory that is missing is no error: the stream just fails          *)
ReadStart ==
  LET n == pac[at].arg IN
  /\ Reading({"start"})
  /\ started' = TRUE
  /\ outfile' = IF Exists(DirOf[n]) THEN n ELSE NoName
  /\ files' = IF Exists(DirOf[n]) THEN [files EXCEPT ![n] = <<>>] ELSE files
  /\ UNCHANGED dirs

ReadEnd ==
  /\ Reading({"end"})
  /\ started' = FALSE
  /\ UNCHANGED <<files, dirs, outfile>>

ReadOther ==
  /\ Reading({"text", "size", "magic", "zero", "exe"})
  /\ WriteLine
  /\ UNCHANGED <<dirs, started, outfile>>

(* the program contains the text of the markers, with nonsense behind it   *)
ReadExe ==
  /\ Reading({"exe"})
  /\ started' = TRUE /\ outfile' = NoName
  /\ UNCHANGED <<files, dirs>>

CleanUp ==
  /\ pc = "unpack" /\ at > Len(pac)
  /\ uname' = Resized(uname, ret)
  /\ pc' = "unpacked"
  /\ UNCHANGED <<pac, files, dirs, choice, pack, at, unpack, events, history>>

Unpacked ==
  /\ pc = "unpacked" /\ ToMenu
  /\ UNCHANGED <<disk, events, history>>

(***************************************************************************)
(* The user: edits a file, builds the program anew, sends pac.exe alone to *)
(* another place; the process is killed.                                   *)
(***************************************************************************)
Event == events < MaxEvents /\ events' = events + 1

Edit(n, c) ==
  /\ pc = "menu" /\ Event
  /\ Exists(DirOf[n])
  /\ files' = [files EXCEPT ![n] = c]
  /\ UNCHANGED <<uname, pac, dirs, pc, choice, pack, at, unpack, history>>

Rebuild(b) ==
  /\ pc = "menu" /\ Event
  /\ uname' = Exe(b)
  /\ UNCHANGED <<pac, files, dirs, pc, choice, pack, at, unpack, history>>

Send ==
  /\ pc = "menu" /\ pac # NoFile
  /\ uname' = NoFile
  /\ files' = [n \in Names |-> NoFile]
  /\ dirs' = {}
  /\ UNCHANGED <<pac, pc, choice, pack, at, unpack, events, history>>

Kill ==
  /\ pc # "menu" /\ ToMenu /\ Event
  /\ whole' = (whole /\ choice = 5)
  /\ UNCHANGED <<disk, base, same, packed, alone>>

-----------------------------------------------------------------------------
Init ==
  /\ \E b \in Builds : uname = Exe(b) /\ base = uname
  /\ pac = NoFile
  /\ dirs = Dirs
  /\ files \in [Names -> Contents \union {NoFile}]
  /\ pc = "menu" /\ choice = 0
  /\ todo = {} /\ pth = Here /\ name = NoName
  /\ at = 1 /\ ret = 0 /\ started = FALSE /\ outfile = NoName
  /\ events = 0 /\ same = TRUE /\ whole = TRUE /\ alone = FALSE
  /\ packed = [n \in Names |-> NoFile]

Pack ==
  \/ Copied \/ WriteMagic \/ WriteDir \/ OpenFile \/ CopyLine \/ WriteEnd
  \/ WriteSize \/ PackingFails
  \/ \E c \in {3, 4} : OpenPack(c)
  \/ \E n \in Names : PackFile(n)
  \/ \E d \in Dirs : PackDirectory(d)

Unpack ==
  \/ OpenUnpack \/ Cloned \/ ReadSize \/ NoSize \/ ReadDir \/ ReadStart \/ ReadEnd \/ ReadOther
  \/ ReadExe \/ CleanUp \/ Unpacked

User ==
  \/ \E n \in Names, c \in Contents : Edit(n, c)
  \/ \E b \in Builds : Rebuild(b)
  \/ Send \/ Kill

Next == Pack \/ Unpack \/ User

Spec == Init /\ [][Next]_vars

-----------------------------------------------------------------------------
(***************************************************************************)
(* Properties.                                                             *)
(***************************************************************************)
(* Every variable keeps its type.                                          *)
TypeOK ==
  /\ uname \in File \union {NoFile} /\ pac \in File \union {NoFile}
  /\ files \in [Names -> File \union {NoFile}]
  /\ dirs \subseteq Dirs
  /\ pc \in {"menu", "copy", "ask", "magic", "dir", "start", "lines",
             "clone", "size", "unpack", "unpacked"}
  /\ choice \in {0, 3, 4, 5}
  /\ todo \subseteq Names /\ pth \in Dirs \union {Here} /\ name \in Names \union {NoName}
  /\ at \in Nat /\ ret \in Nat /\ events \in Nat
  /\ started \in BOOLEAN /\ outfile \in Names \union {NoName}
  /\ base \in File /\ same \in BOOLEAN /\ whole \in BOOLEAN /\ alone \in BOOLEAN
  /\ packed \in [Names -> File \union {NoFile}]

(* Each file starts with PACKERMAGIC at the size of the program, which is  *)
(* in the middle of a pac.exe that holds files already.  As long as only   *)
(* the program that pac.exe was made from packs files, it overwrites       *)
(* nothing but the size that a session without any file has left, whatever *)
(* is interrupted.                                                         *)
NothingOverwritten ==
  [][same /\ pac # NoFile =>
       \A k \in DOMAIN pac : k \in DOMAIN pac' /\ (pac'[k] = pac[k] \/ pac[k].kind = "size")]_vars

(* What was packed in any number of complete sessions comes back: pac.exe, *)
(* alone in another place, turns into the program it was made from and     *)
(* gives each file the content it was last packed with.  It takes that no  *)
(* session was interrupted, the program was not built anew meanwhile, no   *)
(* line of a file looks like a marker, and the directory of the file was   *)
(* packed too.                                                             *)
Kept(n)  == packed[n] # NoFile
            /\ (DirOf[n] = Here \/ \E k \in DOMAIN pac : pac[k] = Line("dir", DirOf[n]))
RoundTrip ==
  pc = "unpacked" /\ alone /\ same /\ whole =>
    uname = base /\ \A n \in Names : Kept(n) => files[n] = packed[n]
=============================================================================
