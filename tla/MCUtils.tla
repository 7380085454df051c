------------------------------- MODULE MCUtils --------------------------------
(***************************************************************************)
(* The three text and byte tools of Utils on small inputs: one of them is  *)
(* run, as the program runs one at a time; the others do not start.        *)
(***************************************************************************)
EXTENDS Settings, MapParser, BytePattern

CONSTANTS path, main, init, NoLine, march

(* settings.ini: the default one, or one with a line in front of it, with  *)
(* some number in a line, without a line, or with -march= in tccargs, in   *)
(* this order or with the line of arch first                               *)
MCStrings  == DefaultStrings \union {march}
MCMentions == [s \in MCStrings |-> IF s = march THEN {"arch"} ELSE {}]
Written == {<<>>, <<0>>, <<1>>, <<0, X>>, <<0, X, 10>>, <<0, X, 0, 1>>, <<0, X, 1, 0, 2>>,
            <<0, 0, X, 1>>, <<1, 0, 2>>, <<11, 13>>, <<0, X, 1, Other>>,
            <<0, X, 1, 0, 0, 0, 0, 0, 0>>}
Numbers == {n \in DOMAIN Defaults : Defaults[n].key \in Range(OffsetKeys)}
WithMarch == SelectSeq(Defaults, LAMBDA x : x.key \notin {"tccargs", "arch"})
             \o <<Setting("tccargs", march)>>
MarchInis == {Append(WithMarch, Last(Defaults)), <<Last(Defaults)>> \o WithMarch}
MCInis ==
  {Defaults}
  \union {<<[key |-> k, value |-> v]>> \o Defaults : k \in Range(OffsetKeys), v \in Written}
  \union {[Defaults EXCEPT ![n].value = v] : n \in Numbers, v \in Written}
  \union {RemoveAt(Defaults, n) : n \in DOMAIN Defaults}
  \union MarchInis

(* a map: headers and lines of functions and data, in the order of ld's    *)
(* sections, with lines that are no symbols and irregular ones             *)
L(marks, words, cut) == [marks |-> marks, words |-> words, cut |-> cut]
Addr(v)  == [kind |-> "addr", val |-> v]
Named(n) == [kind |-> "name", val |-> n]

TextHead   == L({".text", "../build/"}, <<Named(path), Addr(1), Addr(2), Named(path)>>, NoCut)
TextHeader == {TextHead}
FunctionOf(v, n) == L({}, <<Addr(v), Named(n)>>, 2)
DataHeads  == {L({".data", "../build/"}, <<Named(path), Addr(5), Addr(2), Named(path)>>, NoCut),
               L({".data"}, <<Named(path), Addr(5), Addr(2)>>, NoCut)}
BssHeads   == {L({".bss", "../build/"}, <<Named(path), Addr(7), Addr(1), Named(path)>>, NoCut)}
Functions  == {FunctionOf(1, main),
               L({}, <<Addr(1), Named(main), Named(init)>>, 3),
               L({}, <<Addr(1), Named(main)>>, 1),
               L({}, <<Addr(2), Named(init)>>, NoCut)}
Datum      == L({}, <<Addr(5), Named(main)>>, NoCut)
Data       == {Datum,
               L({}, <<Named(init), Addr(6), Addr(2), Named(main)>>, NoCut),
               L({}, <<Addr(5), Named(main)>>, 2),
               L({}, <<[kind |-> "bad", val |-> 0]>>, NoCut)}
Ends(m)    == {L({m}, <<Named(path)>>, NoCut)}

MCMaps ==
  LET Part(parts)  == SelectSeq(parts, LAMBDA x : x # NoLine)
      Maybe(lines) == lines \union {NoLine}
  IN  {<<>>} \union
      {Part(m) : m \in TextHeader \X Functions \X Maybe({FunctionOf(2, init), TextHead})
                       \X Maybe(Ends("*(.text.*)")) \X Maybe({TextHead}) \X DataHeads \X Data
                       \X Maybe(Ends("*(.data2)")) \X Maybe({Datum})
                       \X Maybe(BssHeads) \X {Datum, FunctionOf(7, init)}
                       \X Ends("*(COMMON)") \X {FunctionOf(7, init)}}

(* a program: pieces that are patterns, beginnings of patterns, other code *)
MCPatterns == << <<100, 137, 13, 0, 0, 0, 0>>, <<100, 161, 0, 0, 0, 0>>,
                 <<100, 163, 0, 0, 0, 0>>, <<100, 137, 37, 0, 0, 0, 0>> >>
Pieces == Range(MCPatterns)
          \union {<<>>, <<0>>, <<100>>, <<100, 161, 0, 0>>, <<100, 161, 0, 0, 1, 0>>,
                  <<100, 137, 13, 0, 5>>}
MCTargets == {p \o q \o r : p, q, r \in Pieces}
MCBehind  == {<<0, 0, 0, 0, 0, 0, 0>>, <<137, 13, 0, 0, 0, 0, 0>>}

SettingsOff == ini = NoIni /\ key = 1 /\ read = [k \in Range(Keys) |-> NoValue] /\ spc = "off"
MapOff == /\ map = <<>> /\ at = 1 /\ text_sec_found = 0 /\ data_sec_found = 0 /\ bss_sec_found = 0
          /\ Name = <<>> /\ FunctionVirtualAddress = <<>> /\ defined = <<>> /\ mpc = "off"
PatternOff == /\ target = <<>> /\ buffer = <<>> /\ l = 1 /\ i = 1 /\ places = {}
              /\ result = <<>> /\ bpc = "off"

Init == \/ SettingsInit /\ MapOff /\ PatternOff
        \/ SettingsOff /\ MapInit /\ PatternOff
        \/ SettingsOff /\ MapOff /\ PatternInit

Next == \/ SettingsNext /\ UNCHANGED mapVars /\ UNCHANGED patternVars
        \/ MapNext /\ UNCHANGED settingsVars /\ UNCHANGED patternVars
        \/ PatternNext /\ UNCHANGED settingsVars /\ UNCHANGED mapVars

Spec == Init /\ [][Next]_<<settingsVars, mapVars, patternVars>>
=============================================================================
