----------------------------- MODULE BytePattern ------------------------------
(***************************************************************************)
(* Utils::FindAndRemoveBytePattern (utils.cpp:684-824): in a copy of the   *)
(* program in memory every place where an access to fs:[0] begins is       *)
(* overwritten with a short jump over it.  One pattern after the other is  *)
(* looked for from the beginning to the end.                               *)
(***************************************************************************)
EXTENDS Integers, Sequences, SequencesExt

CONSTANTS
  Byte,      (* the bytes                                                  *)
  JMP, NOP,  (* 0xEB and 0x90                                              *)
  Patterns,  (* the patterns, a sequence of sequences of bytes             *)
  Width,     (* how many bytes are compared: sizeof(uint32_t)              *)
  Targets,   (* what the file may hold                                     *)
  Behind     (* what may lie behind the buffer in memory                   *)

ASSUME PatternAssumption ==
  /\ Byte \subseteq Nat /\ {JMP, NOP, 4, 5} \subseteq Byte
  /\ Patterns \in Seq(Seq(Byte))
  /\ Width \in 1..6 /\ \A p \in Range(Patterns) : Len(p) \in {6, 7}
  /\ Targets \subseteq Seq(Byte) /\ Behind \subseteq Seq(Byte)

(* The patterns that main has removed (main.cpp:171): the bytes that are   *)
(* compared are none of a jump and tell one pattern from another, and the  *)
(* first occurs nowhere else.                                              *)
ASSUME FsPrefixAssumption ==
  \A p, q \in Range(Patterns) :
    /\ \A k \in 1..Width : p[k] \notin {JMP, NOP, 4, 5}
    /\ \A k \in 2..Len(q) : p[1] # q[k]
    /\ (\A k \in 1..Width : p[k] = q[k]) => p = q

VARIABLES
  target,   (* the file                                                    *)
  buffer,   (* its copy in memory and what lies behind that                *)
  l, i,     (* the loop variables, counted from 1                          *)
  places,   (* history: the places overwritten, with their lengths         *)
  result,   (* the file target.test                                        *)
  bpc       (* off: not called                                             *)

patternVars == <<target, buffer, l, i, places, result, bpc>>

PatternInit ==
  /\ target \in Targets
  /\ \E b \in Behind : buffer = target \o b
  /\ l = 1 /\ i = 1
  /\ places = {}
  /\ result = <<>>
  /\ bpc = "scan"

(* A faulty Jump, for the check of OnlyPatternsChange: the distance is     *)
(* that of the shorter pattern.                                            *)
JumpShort(n) == [k \in 1..n |-> IF k = 1 THEN JMP ELSE IF k = 2 THEN 4 ELSE NOP]

(* A faulty Jump, for the check of PatternTypeOK: the wrong difference.    *)
JumpBack(n) == [k \in 1..n |-> IF k = 1 THEN JMP ELSE IF k = 2 THEN 2 - n ELSE NOP]

(* _jmp of 6 or of 7 bytes                                                 *)
Jump(n) == [k \in 1..n |-> IF k = 1 THEN JMP ELSE IF k = 2 THEN n - 2 ELSE NOP]

Matches(b, p, k) ==
  \A j \in 1..Width : k + j - 1 \in DOMAIN b /\ j \in DOMAIN p /\ b[k + j - 1] = p[j]

(* memcpy into the buffer *)
Overwrite(b, k, s) == [j \in DOMAIN b |-> IF j \in k..(k + Len(s) - 1) THEN s[j - k + 1] ELSE b[j]]

Scanning == /\ bpc = "scan" /\ l <= Len(Patterns)
            /\ Len(Patterns[l]) >= Width /\ i <= Len(target)

(* A faulty Match, for the check of InsideTheFile: places are numbered     *)
(* behind the pattern.                                                     *)
MatchBehind ==
  LET p == Patterns[l] IN
  /\ Scanning
  /\ Matches(buffer, p, i)
  /\ buffer' = Overwrite(buffer, i + 1, Jump(Len(p)))
  /\ places' = places \union {<<i + 1, Len(p)>>}
  /\ i' = i + 1
  /\ UNCHANGED <<target, l, result, bpc>>

Match ==
  LET p == Patterns[l] IN
  /\ Scanning
  /\ Matches(buffer, p, i)
  /\ buffer' = Overwrite(buffer, i, Jump(Len(p)))
  /\ places' = places \union {<<i, Len(p)>>}
  /\ i' = i + 1
  /\ UNCHANGED <<target, l, result, bpc>>

NoMatch ==
  /\ Scanning
  /\ ~Matches(buffer, Patterns[l], i)
  /\ i' = i + 1
  /\ UNCHANGED <<target, buffer, l, places, result, bpc>>

NextPattern ==
  /\ bpc = "scan" /\ l <= Len(Patterns)
  /\ Len(Patterns[l]) >= Width /\ i > Len(target)
  /\ l' = l + 1 /\ i' = 1
  /\ UNCHANGED <<target, buffer, places, result, bpc>>

(* after the last pattern, and at once at one that is too short            *)
WriteTest ==
  /\ bpc = "scan"
  /\ l <= Len(Patterns) => Len(Patterns[l]) < Width
  /\ result' = SubSeq(buffer, 1, Len(target))
  /\ bpc' = "written"
  /\ UNCHANGED <<target, buffer, l, i, places>>

PatternNext == Match \/ NoMatch \/ NextPattern \/ WriteTest

PatternSpec == PatternInit /\ [][PatternNext]_patternVars

-----------------------------------------------------------------------------
(***************************************************************************)
(* Properties.                                                             *)
(***************************************************************************)
(* a pattern in the file, its beginning, and its beginning cut off by the end *)
Occurs(k, p)  == k + Len(p) - 1 <= Len(target) /\ \A j \in DOMAIN p : target[k + j - 1] = p[j]
Begins(k, p)  == \A j \in 1..Width : k + j - 1 <= Len(target) => target[k + j - 1] = p[j]
Distinct      == \A k \in DOMAIN target, p \in Range(Patterns) : Begins(k, p) => Occurs(k, p)

(* Although only the first bytes of a pattern are compared, and later      *)
(* patterns are looked for in what earlier ones have changed: a program in *)
(* which the compared bytes occur in whole patterns only gets a jump at    *)
(* each pattern, to the byte behind it, and no other change.               *)
OnlyPatternsChange ==
  (bpc = "written" /\ Distinct) =>
    /\ Len(result) = Len(target)
    /\ \A k \in DOMAIN target, p \in Range(Patterns) :
         Occurs(k, p) => result[k] = JMP /\ k + 2 + result[k + 1] = k + Len(p)
    /\ \A k \in DOMAIN target :
         result[k] # target[k] =>
           \E j \in DOMAIN target, p \in Range(Patterns) : Occurs(j, p) /\ k \in j..(j + Len(p) - 1)

(* In such a program nothing behind the buffer is overwritten.             *)
InsideTheFile ==
  Distinct => \A place \in places : place[1] + place[2] - 1 <= Len(target)

(* Every variable keeps its type.                                          *)
PatternTypeOK ==
  /\ target \in Seq(Byte)
  /\ buffer \in Seq(Byte) /\ Len(buffer) >= Len(target)
  /\ l \in 1..(Len(Patterns) + 1) /\ i \in 1..(Len(target) + 1)
  /\ places \subseteq Nat \X Nat
  /\ result \in Seq(Byte)
  /\ bpc \in {"off", "scan", "written"}
=============================================================================
