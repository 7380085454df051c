------------------------------- MODULE Settings -------------------------------
(***************************************************************************)
(* ParseSettings (patcher.cpp:29-73) and the two functions that take a     *)
(* value out of a text file, Utils::parse_offset and Utils::parse_string   *)
(* (utils.cpp:8-57).                                                       *)
(*                                                                         *)
(* A number is the sequence of its characters: 0..15 for the hexadecimal   *)
(* digits, X for the letter x, Other for anything else, the carriage       *)
(* return of a file edited on another system among them.                   *)
(***************************************************************************)
EXTENDS Integers, Sequences, SequencesExt

CONSTANTS
  Strings,      (* values of the settings that are no numbers              *)
  Mentions,     (* Mentions[s]: the settings of which s contains the name and "=" *)
  Inis,         (* what settings.ini may hold                              *)
  MaxInt,       (* the largest int                                         *)
  NoIni, NoValue

X     == 16
Other == 17
Chars == 0..17

(* in the order of reading *)
OffsetKeys == <<"sectionRoffset", "sectionSize", "sectionVSize", "delbuild">>
StringKeys == <<"target_in", "target_out", "sectionName", "linkmapfile", "buildDir",
                "copytodir", "tccinput", "tccoutput", "tccargs", "arch">>
Keys       == OffsetKeys \o StringKeys

IniLine == [key: Range(OffsetKeys), value: Seq(Chars)]
           \union [key: Range(StringKeys), value: Strings]

Setting(k, v) == [key |-> k, value |-> v]

(* A faulty Defaults, for the check of DefaultsAreEnough: the setting that *)
(* is read last is not written.                                            *)
DefaultsWithoutArch == <<
  Setting("target_in",      "ForgedAlliance_base.exe"),
  Setting("target_out",     "ForgedAlliance_exxt.exe"),
  Setting("linkmapfile",    "build/mapfile.map"),
  Setting("buildDir",       "./build"),
  Setting("copytodir",      "null"),
  Setting("sectionName",    ".exxt"),
  Setting("sectionRoffset", <<0, X, 11, 13, 13, 0, 0, 0>>),
  Setting("sectionSize",    <<0, X, 8, 0, 0, 0, 0>>),
  Setting("sectionVSize",   <<0, X, 5, 0, 0, 0, 0>>),
  Setting("delbuild",       <<0, X, 0>>),
  Setting("tccinput",       "./test.c"),
  Setting("tccoutput",      "./test.o"),
  Setting("tccargs",        "-c -m32")>>

(* what a new settings.ini holds, line by line *)
Defaults == <<
  Setting("target_in",      "ForgedAlliance_base.exe"),
  Setting("target_out",     "ForgedAlliance_exxt.exe"),
  Setting("linkmapfile",    "build/mapfile.map"),
  Setting("buildDir",       "./build"),
  Setting("copytodir",      "null"),
  Setting("sectionName",    ".exxt"),
  Setting("sectionRoffset", <<0, X, 11, 13, 13, 0, 0, 0>>),
  Setting("sectionSize",    <<0, X, 8, 0, 0, 0, 0>>),
  Setting("sectionVSize",   <<0, X, 5, 0, 0, 0, 0>>),
  Setting("delbuild",       <<0, X, 0>>),
  Setting("tccinput",       "./test.c"),
  Setting("tccoutput",      "./test.o"),
  Setting("tccargs",        "-c -m32"),
  Setting("arch",           "x86")>>

(* the strings that the program writes itself; none contains the name of a *)
(* setting                                                                 *)
DefaultStrings == {"ForgedAlliance_base.exe", "ForgedAlliance_exxt.exe", "build/mapfile.map",
                   "./build", "null", ".exxt", "./test.c", "./test.o", "-c -m32", "x86"}

ASSUME SettingsAssumption ==
  /\ Inis \subseteq Seq(IniLine) /\ NoIni \notin Inis
  /\ DefaultStrings \subseteq Strings
  /\ Mentions \in [Strings -> SUBSET Range(StringKeys)]
  /\ \A s \in DefaultStrings : Mentions[s] = {}
  /\ MaxInt \in Nat /\ MaxInt >= 16777215     (* an int has more than 24 bits *)

VARIABLES
  ini,    (* settings.ini                                                  *)
  key,    (* number of the setting that is read next                       *)
  read,   (* the settings so far                                           *)
  spc     (* off: not called; start, read; menu, crashed, terminated: the end *)

settingsVars == <<ini, key, read, spc>>

Hex(d) == LET upTo[n \in 0..Len(d)] == IF n = 0 THEN 0 ELSE 16 * upTo[n - 1] + d[n]
          IN  upTo[Len(d)]

IsHex(t) == t # <<>> /\ \A k \in DOMAIN t : t[k] < X

(* A faulty HexCast, for the check of SettingsTypeOK: the number is that   *)
(* of an unsigned.                                                         *)
HexCastUnsigned(t) ==
  LET d == IF Len(t) > 2 /\ t[1] = 0 /\ t[2] = X THEN SubSeq(t, 3, Len(t)) ELSE t
  IN  IF IsHex(d) THEN Hex(d) ELSE -1

(* lexical_cast<HexTo<int>>: digits, with 0x before them or not            *)
HexCast(t) ==
  LET d == IF Len(t) > 2 /\ t[1] = 0 /\ t[2] = X THEN SubSeq(t, 3, Len(t)) ELSE t
  IN  IF IsHex(d) /\ Hex(d) <= MaxInt THEN Hex(d) ELSE -1

(* A faulty ParseOffset, for the check of NumbersAreRead: it cuts at the   *)
(* last 0 or x.                                                            *)
ParseOffsetLast(v) ==
  LET cuts == {k \in DOMAIN v : v[k] \in {0, X}}
      rest == IF cuts = {} THEN <<>>
              ELSE SubSeq(v, (CHOOSE k \in cuts : \A j \in cuts : k >= j) + 1, Len(v))
  IN  HexCast(<<0>> \o rest)

(***************************************************************************)
(* strtok cuts the line at the first 0 or x behind the setting's name;     *)
(* that character goes, too, and a 0 is put in its place.  -1 stands for   *)
(* bad_lexical_cast.                                                       *)
(***************************************************************************)
ParseOffset(v) ==
  LET cuts == {k \in DOMAIN v : v[k] \in {0, X}}
      rest == IF cuts = {} THEN <<>>
              ELSE SubSeq(v, (CHOOSE k \in cuts : \A j \in cuts : k <= j) + 1, Len(v))
  IN  HexCast(<<0>> \o rest)

(* The first line that contains the setting's name and "=", wherever the   *)
(* line stands and wherever in the line the name does; the value of a      *)
(* string is what follows the first "=" of the line.                       *)
HasName(line, k) == line.key = k \/ (line.key \in Range(StringKeys) /\ k \in Mentions[line.value])
LinesOf(k) == {n \in DOMAIN ini : HasName(ini[n], k)}
Found(k)   == ini[CHOOSE n \in LinesOf(k) : \A j \in LinesOf(k) : n <= j].value

SettingsInit ==
  /\ ini \in Inis \union {NoIni}
  /\ key = 1 /\ read = [k \in Range(Keys) |-> NoValue]
  /\ spc = "start"

OpenIni ==
  /\ spc = "start" /\ spc' = "read"
  /\ ini' = IF ini = NoIni THEN Defaults ELSE ini
  /\ UNCHANGED <<key, read>>

ReadOffset ==
  /\ spc = "read" /\ key <= Len(OffsetKeys)
  /\ LinesOf(Keys[key]) # {}
  /\ LET n == ParseOffset(Found(Keys[key])) IN
     IF n = -1 THEN spc' = "terminated" /\ UNCHANGED <<key, read>>
     ELSE key' = key + 1 /\ read' = [read EXCEPT ![Keys[key]] = n] /\ UNCHANGED spc
  /\ UNCHANGED ini

ReadString ==
  /\ spc = "read" /\ key \in (Len(OffsetKeys) + 1)..Len(Keys)
  /\ LinesOf(Keys[key]) # {}
  /\ key' = key + 1
  /\ read' = [read EXCEPT ![Keys[key]] = Found(Keys[key])]
  /\ UNCHANGED <<ini, spc>>

(* debug_pause jumps through jump_buffer, which main sets only later       *)
KeyMissing ==
  /\ spc = "read" /\ key <= Len(Keys)
  /\ LinesOf(Keys[key]) = {}
  /\ spc' = "crashed"
  /\ UNCHANGED <<ini, key, read>>

AllRead ==
  /\ spc = "read" /\ key > Len(Keys)
  /\ spc' = "menu"
  /\ UNCHANGED <<ini, key, read>>

SettingsNext == OpenIni \/ ReadOffset \/ ReadString \/ KeyMissing \/ AllRead

SettingsSpec == SettingsInit /\ [][SettingsNext]_settingsVars

-----------------------------------------------------------------------------
(***************************************************************************)
(* Properties.                                                             *)
(***************************************************************************)
(* What is written with 0x, as the program writes it, is read as the       *)
(* number it is, if that is an int: strtok's cut at the first 0 or x, of   *)
(* which the digits may have any number, takes nothing away.  And what is  *)
(* written as 0 alone is 0.                                                *)
Prefixed(v) == Len(v) > 2 /\ v[1] = 0 /\ v[2] = X
NumbersAreRead ==
  spc = "menu" =>
    \A k \in Range(OffsetKeys) :
      LET v == Found(k) IN
      /\ Prefixed(v) => read[k] = Hex(SubSeq(v, 3, Len(v)))
      /\ v = <<0>> => read[k] = 0

(* Every variable keeps its type.                                          *)
SettingsTypeOK ==
  /\ ini = NoIni \/ ini \in Seq(IniLine)
  /\ key \in 1..(Len(Keys) + 1)
  /\ DOMAIN read = Range(Keys)
  /\ \A k \in Range(OffsetKeys) : read[k] = NoValue \/ read[k] \in 0..MaxInt
  /\ \A k \in Range(StringKeys) : read[k] \in Strings \union {NoValue}
  /\ spc \in {"off", "start", "read", "menu", "crashed", "terminated"}

(* A program started where there is no settings.ini reaches its menu, with *)
(* each setting as the file it has just written says: all that is asked    *)
(* for is written, under the same name, and the numbers fit an int.        *)
Meant(line) == IF line.key \in Range(OffsetKeys)
               THEN Hex(SubSeq(line.value, 3, Len(line.value))) ELSE line.value
DefaultsAreEnough ==
  ini = Defaults =>
    /\ spc \notin {"crashed", "terminated"}
    /\ spc = "menu" => \A n \in DOMAIN ini : read[ini[n].key] = Meant(ini[n])
=============================================================================
