------------------------------ MODULE MapParser -------------------------------
(***************************************************************************)
(* Utils::linker_map_parser and Utils::write_def_table (utils.cpp:109-260):*)
(* out of the linker's map of the .ext sector come the functions and data  *)
(* of the patch with the addresses they will have in the patched program,  *)
(* written as #defines for the hooks.                                      *)
(*                                                                         *)
(* A line of the map is the marks that the parser looks for in it and its  *)
(* words, of which "cut" stand before the first opening bracket.           *)
(***************************************************************************)
EXTENDS Integers, Sequences, SequencesExt

CONSTANTS
  Maps,       (* what the map file may hold                                *)
  MapNames,   (* words that are no addresses                               *)
  Alignment,  (* __section_alignment__                                     *)
  AlignMod,   (* align_mod, 0x1000                                         *)
  Modulus,    (* 2^32                                                      *)
  NoCut       (* "cut" of a line without a bracket                         *)

Marks == {"*(.text.*)", "*(.data2)", "*(COMMON)", ".text", ".data", ".bss", "../build/"}
Word  == [kind: {"addr"}, val: 0..(Modulus - 1)] \union [kind: {"name"}, val: MapNames]
         \union [kind: {"bad"}, val: {0}]
MapLine == [marks: SUBSET Marks, words: Seq(Word), cut: Nat \union {NoCut}]

ASSUME MapAssumption ==
  /\ Modulus \in Nat \ {0} /\ Alignment \in 0..(Modulus - 1) /\ AlignMod \in 0..(Modulus - 1)
  /\ NoCut \notin Nat
  /\ Maps \subseteq Seq(MapLine)
  /\ \A m \in Maps : \A k \in DOMAIN m : m[k].cut # NoCut => m[k].cut <= Len(m[k].words)

VARIABLES
  map,             (* the lines of the map file                            *)
  at,              (* the line getline has come to                         *)
  text_sec_found,
  data_sec_found,
  bss_sec_found,
  Name,            (* table.Name                                           *)
  FunctionVirtualAddress,
  defined,         (* preprocessor/define.h                                *)
  mpc              (* off: not called; menu: debug_pause                   *)

flags   == <<text_sec_found, data_sec_found, bss_sec_found>>
table   == <<Name, FunctionVirtualAddress>>
mapVars == <<map, at, flags, table, defined, mpc>>

line   == map[at]
Has(m) == m \in line.marks

(* the flags once the line's own marks are seen *)
textHere == IF Has("*(.text.*)") THEN 2 ELSE text_sec_found

(* A faulty dataHere, for the check of FlagsTellPlace: nothing ends the data. *)
dataHereToTheEnd == data_sec_found

dataHere == IF Has("*(.data2)") THEN 2 ELSE data_sec_found

IsName(w) == w.kind = "name"
IsAddr(w) == w.kind = "addr"

HasAddr(ws) == \E k \in DOMAIN ws : ~IsName(ws[k])

(* A faulty Moved, for the check of MapTypeOK: the address may wrap around. *)
MovedInteger(v) == v - Alignment + AlignMod

(* the address as it will be, a uint32_t                                   *)
Moved(v) == (v - Alignment + AlignMod) % Modulus

NamesOf(ws) ==
  LET upTo[n \in 0..Len(ws)] ==
        IF n = 0 THEN <<>>
        ELSE IF IsName(ws[n]) THEN Append(upTo[n - 1], ws[n].val) ELSE upTo[n - 1]
  IN  upTo[Len(ws)]
AddrsOf(ws) ==
  LET upTo[n \in 0..Len(ws)] ==
        IF n = 0 THEN <<>>
        ELSE IF IsAddr(ws[n]) THEN Append(upTo[n - 1], Moved(ws[n].val)) ELSE upTo[n - 1]
  IN  upTo[Len(ws)]

(* the words of a function's line; of a line of data, up to a second address *)
BeforeBracket(l) == SubSeq(l.words, 1, l.cut)
UpToSecond(ws) ==
  LET seconds == {k \in DOMAIN ws : ~IsName(ws[k]) /\ \E j \in 1..(k - 1) : ~IsName(ws[j])}
  IN  IF seconds = {} THEN ws
      ELSE SubSeq(ws, 1, (CHOOSE k \in seconds : \A j \in seconds : k <= j) - 1)

MapInit ==
  /\ map \in Maps
  /\ at = 1
  /\ text_sec_found = 0 /\ data_sec_found = 0 /\ bss_sec_found = 0
  /\ Name = <<>> /\ FunctionVirtualAddress = <<>>
  /\ defined = <<>>
  /\ mpc = "lines"

Reading(condition) ==
  /\ mpc = "lines" /\ at <= Len(map) /\ ~Has("*(COMMON)")
  /\ condition
  /\ at' = at + 1
  /\ UNCHANGED <<map, defined>>

(* a line without an address: it may still end the functions or the data   *)
Plain ==
  /\ Reading(~HasAddr(line.words))
  /\ text_sec_found' = textHere /\ data_sec_found' = dataHere
  /\ UNCHANGED <<bss_sec_found, table, mpc>>

(* A faulty OpensText, for the check of DefinesAreSymbols: the functions   *)
(* of later sections are taken, too.                                       *)
OpensTextAgain == Has(".text")

OpensText == Has(".text") /\ textHere # 2
OpensData == Has(".data") /\ Has("../build/")
OpensBss  == Has(".bss") /\ Has("../build/")

Header ==
  /\ Reading(HasAddr(line.words) /\ (OpensText \/ OpensData \/ OpensBss))
  /\ text_sec_found' = IF OpensText THEN 1 ELSE textHere
  /\ data_sec_found' = IF ~OpensText /\ OpensData THEN 1 ELSE dataHere
  /\ bss_sec_found' = IF ~OpensText /\ ~OpensData THEN 1 ELSE bss_sec_found
  /\ UNCHANGED <<table, mpc>>

(* What a line adds to the lists: as a function, unless it has no bracket, *)
(* which ends the work on it, and then as data, what is left of it.        *)
InFunctions == textHere = 1 /\ ~Has("../build/")
InData      == (dataHere = 1 \/ bss_sec_found = 1) /\ ~Has("../build/")
Taken ==
  LET f == IF InFunctions THEN BeforeBracket(line) ELSE <<>>
      d == IF InData THEN UpToSecond(IF InFunctions THEN BeforeBracket(line) ELSE line.words)
                     ELSE <<>>
  IN  IF InFunctions /\ line.cut = NoCut THEN <<>> ELSE f \o d

Symbol ==
  /\ Reading(HasAddr(line.words) /\ ~(OpensText \/ OpensData \/ OpensBss))
  /\ IF \E k \in DOMAIN Taken : Taken[k].kind = "bad"
     THEN mpc' = "menu" /\ UNCHANGED table
     ELSE /\ Name' = Name \o NamesOf(Taken)
          /\ FunctionVirtualAddress' = FunctionVirtualAddress \o AddrsOf(Taken)
          /\ UNCHANGED mpc
  /\ text_sec_found' = textHere /\ data_sec_found' = dataHere
  /\ UNCHANGED bss_sec_found

EndOfMap ==
  /\ mpc = "lines" /\ mpc' = "write"
  /\ at <= Len(map) => Has("*(COMMON)")
  /\ UNCHANGED <<map, at, flags, table, defined>>

(* as many #defines as there are names; an address that is not there is    *)
(* undefined behaviour                                                     *)
WriteDefTable ==
  /\ mpc = "write"
  /\ IF Len(Name) <= Len(FunctionVirtualAddress)
     THEN /\ mpc' = "defined"
          /\ defined' = [k \in DOMAIN Name |-> <<Name[k], FunctionVirtualAddress[k]>>]
     ELSE mpc' = "undefined" /\ UNCHANGED defined
  /\ UNCHANGED <<map, at, flags, table>>

MapNext == Plain \/ Header \/ Symbol \/ EndOfMap \/ WriteDefTable

MapSpec == MapInit /\ [][MapNext]_mapVars

-----------------------------------------------------------------------------
(***************************************************************************)
(* Properties.                                                             *)
(***************************************************************************)
(* The flags say in which part of the map the parser is: functions are     *)
(* those behind the first header of .text and before the line of .text.*,  *)
(* which ends them for good; data those behind a header of an object's     *)
(* .data with no line of .data2 since, to which a further header leads     *)
(* back.                                                                   *)
Mark(k, m)     == m \in map[k].marks
IsHeader(k, m) == Mark(k, m) /\ HasAddr(map[k].words)
TextEnds(k)    == \E j \in 1..(k - 1) : Mark(j, "*(.text.*)")
TextAt(k)      == ~TextEnds(k) /\ \E j \in 1..(k - 1) : IsHeader(j, ".text")
DataHeader(j)  == IsHeader(j, ".data") /\ Mark(j, "../build/")
BssHeader(j)   == IsHeader(j, ".bss") /\ Mark(j, "../build/")
DataAt(k)      == \E j \in 1..(k - 1) :
                    DataHeader(j) /\ \A n \in (j + 1)..(k - 1) : ~Mark(n, "*(.data2)")
BssAt(k)       == \E j \in 1..(k - 1) : BssHeader(j)
OneSection(k)  == \A m, n \in {".text", ".data", ".bss"} : Mark(k, m) /\ Mark(k, n) => m = n

FlagsTellPlace ==
  (\A k \in DOMAIN map : OneSection(k)) =>
    /\ (text_sec_found = 2) = TextEnds(at)
    /\ (text_sec_found = 1) = TextAt(at)
    /\ (data_sec_found = 1) = DataAt(at)
    /\ (bss_sec_found = 1) = BssAt(at)

(* What a map says, read without flags: its symbols are the lines with a   *)
(* bracket among the functions and the lines among the data.               *)
IsFunction(k) == TextAt(k + 1) /\ map[k].cut # NoCut /\ ~Mark(k, ".text")
IsData(k)     == (DataAt(k + 1) \/ BssAt(k + 1)) /\ ~TextAt(k + 1)
IsSymbol(k)   == /\ HasAddr(map[k].words) /\ ~Mark(k, "../build/")
                 /\ \A j \in 1..k : ~Mark(j, "*(COMMON)")
                 /\ IsFunction(k) \/ IsData(k)
WordsAt(k)    == IF IsFunction(k) THEN BeforeBracket(map[k]) ELSE UpToSecond(map[k].words)
Regular       == \A k \in DOMAIN map :
                   /\ OneSection(k)
                   /\ ~(TextAt(k + 1) /\ (DataAt(k + 1) \/ BssAt(k + 1)))
                   /\ IsSymbol(k) => /\ Len(NamesOf(WordsAt(k))) = 1
                                     /\ Len(AddrsOf(WordsAt(k))) = 1
SymbolAt(k)   == <<NamesOf(WordsAt(k))[1], AddrsOf(WordsAt(k))[1]>>
SymbolsTo(n) ==
  LET upTo[k \in 0..Len(map)] ==
        IF k = 0 THEN <<>>
        ELSE IF IsSymbol(k) THEN Append(upTo[k - 1], SymbolAt(k)) ELSE upTo[k - 1]
  IN  upTo[n]
Symbols == SymbolsTo(Len(map))

(* The #defines are the symbols of the map, each with its own address,     *)
(* although names and addresses are collected in two lists, if each line   *)
(* gives one name and one address and the functions end before the data    *)
(* begins.  ("operator new", a template's arguments and an anonymous       *)
(* namespace give two names or none.)                                      *)
DefinesAreSymbols == (mpc = "defined" /\ Regular) => defined = Symbols

(* Every variable keeps its type.                                          *)
MapTypeOK ==
  /\ map \in Seq(MapLine) /\ at \in Nat \ {0}
  /\ text_sec_found \in 0..2 /\ data_sec_found \in 0..2 /\ bss_sec_found \in 0..1
  /\ Name \in Seq(MapNames)
  /\ FunctionVirtualAddress \in Seq(0..(Modulus - 1))
  /\ defined \in Seq(MapNames \X (0..(Modulus - 1)))
  /\ mpc \in {"off", "lines", "write", "defined", "undefined", "menu"}
=============================================================================
