----------------------------- MODULE ApplyHook ------------------------------
(***************************************************************************)
(* Hooks::apply_Hook writes the machine code of one hook into the patched  *)
(* file (hooks.cpp:36-58).  How much of the hook's .bin file is code is    *)
(* measured by FileIO::parse_binary_end (fileIO.cpp:56-90): it reads bytes *)
(* until it has met at least as many null bytes in a row as it has met     *)
(* bytes before them.  If the measure is 0 apply_Hook links the hook again *)
(* and measures again.                                                     *)
(*                                                                         *)
(* The scan is one action per byte.  The linker is outside src/; what it   *)
(* makes of an object file follows from the linker script.                 *)
(***************************************************************************)
EXTENDS Integers, Sequences

CONSTANTS
  Objects,      (* object files, as records of their sections text, rdata  *)
  Tails,        (* how many null bytes the linker may leave at the end     *)
  FirstAlign    (* align_size of the Makefile                              *)

ObjectFile == [text: Seq(Nat), rdata: Seq(Nat)]

ASSUME HookAssumption ==
  /\ Objects \subseteq ObjectFile
  /\ Tails \subseteq Nat
  /\ FirstAlign \in Nat

VARIABLES
  obj,       (* the hook's object file                                     *)
  bin,       (* the .bin file as the open stream f_in sees it              *)
  pos,       (* read position of f_in                                      *)
  failed,    (* failbit of f_in                                            *)
  count,     (* count_bytes                                                *)
  null,      (* null_count                                                 *)
  errorRet,  (* argument of parse_binary_end                               *)
  result,    (* its return value                                           *)
  hook,      (* hook_F, the content read before the first measure          *)
  bytes,     (* Bytes_to_write                                             *)
  align,     (* align_sizeL                                                *)
  pc,        (* the step, or the caller a return goes to                   *)
  caller,    (* which of the three calls of get_bytes is running           *)
  written,   (* what went to f_out                                         *)
  retried    (* history: the loop body of apply_Hook has been entered      *)

stream == <<bin, pos, failed>>
scan   == <<count, null, errorRet, caller>>
local  == <<hook, bytes, align, written, retried, obj>>
vars   == <<stream, scan, local, result, pc>>

Zeros(n) == [k \in 1..n |-> 0]

(* .text, then .rdata at the next multiple of align_size, then whatever    *)
(* fill the output format asks for                                         *)
Gap(n, a) == IF a = 0 \/ n % a = 0 THEN 0 ELSE a - (n % a)
Linked(o, a, tail) ==
  LET code == IF o.rdata = <<>> THEN o.text
              ELSE o.text \o Zeros(Gap(Len(o.text), a)) \o o.rdata
  IN  code \o Zeros(tail)

(* A faulty CallGetBytes, for the check of RetryIsHopeless: it clears the  *)
(* stream first.                                                           *)
CallCleared(from, er) ==
  /\ pos' = 0 /\ failed' = FALSE
  /\ count' = 0 /\ null' = 0
  /\ errorRet' = er
  /\ caller' = from
  /\ pc' = "scan"
  /\ UNCHANGED result

(***************************************************************************)
(* FileIO::get_bytes: seekg clears eofbit only, so a stream whose failbit  *)
(* is set neither moves nor reads any more.                                *)
(***************************************************************************)
CallGetBytes(from, er) ==
  /\ pos' = IF failed THEN pos ELSE 0
  /\ count' = 0 /\ null' = 0
  /\ errorRet' = er
  /\ caller' = from
  /\ pc' = "scan"
  /\ UNCHANGED <<failed, result>>

Return(value) ==
  /\ result' = value
  /\ pc' = caller

(* Faulty ReadBytes, for the checks of CountersMeasure and of              *)
(* MeasurableIsWritten: null bytes inside the code are not counted; one    *)
(* null byte more than needed is asked for.                                *)
ReadByteNoNulls ==
  /\ pc = "scan"
  /\ ~failed /\ pos < Len(bin)
  /\ count' = IF bin[pos + 1] = 0 THEN count ELSE count + 1
  /\ null' = IF bin[pos + 1] = 0 THEN null + 1 ELSE 0
  /\ pos' = pos + 1
  /\ IF count' - null' > 0 THEN UNCHANGED <<pc, result>> ELSE Return(count')
  /\ UNCHANGED <<bin, failed, errorRet, caller, local>>

ReadByteOneMore ==
  /\ pc = "scan"
  /\ ~failed /\ pos < Len(bin)
  /\ count' = IF bin[pos + 1] = 0 THEN count ELSE count + 1 + null
  /\ null' = IF bin[pos + 1] = 0 THEN null + 1 ELSE 0
  /\ pos' = pos + 1
  /\ IF count' - null' >= 0 THEN UNCHANGED <<pc, result>> ELSE Return(count')
  /\ UNCHANGED <<bin, failed, errorRet, caller, local>>

ReadByte ==
  /\ pc = "scan"
  /\ ~failed /\ pos < Len(bin)
  /\ LET ch == bin[pos + 1] IN
     /\ count' = IF ch = 0 THEN count ELSE count + 1 + null
     /\ null' = IF ch = 0 THEN null + 1 ELSE 0
  /\ pos' = pos + 1
  /\ IF count' - null' > 0 THEN UNCHANGED <<pc, result>> ELSE Return(count')
  /\ UNCHANGED <<bin, failed, errorRet, caller, local>>

(* A faulty EndOfFile, for the check of TypeOK: it returns -1.             *)
EndOfFileMinusOne ==
  /\ pc = "scan"
  /\ failed \/ pos >= Len(bin)
  /\ failed' = TRUE
  /\ Return(IF errorRet THEN -1 ELSE count)
  /\ UNCHANGED <<bin, pos, scan, local>>

EndOfFile ==
  /\ pc = "scan"
  /\ failed \/ pos >= Len(bin)
  /\ failed' = TRUE
  /\ Return(IF errorRet THEN 0 ELSE count)
  /\ UNCHANGED <<bin, pos, scan, local>>

(***************************************************************************)
(* Hooks::apply_Hook                                                       *)
(***************************************************************************)
Open ==
  /\ pc = "open"
  /\ hook' = bin
  /\ CallGetBytes("measured", TRUE)
  /\ UNCHANGED <<bin, bytes, align, written, retried, obj>>

Measured ==
  /\ pc = "measured"
  /\ bytes' = result
  /\ pc' = "test"
  /\ UNCHANGED <<stream, scan, result, hook, align, written, retried, obj>>

MeasureAgain ==
  /\ pc = "test"
  /\ bytes = 0
  /\ CallGetBytes("align", FALSE)
  /\ retried' = TRUE
  /\ UNCHANGED <<bin, hook, bytes, align, written, obj>>

(* align_hook: make and ld rewrite the .bin file.  f_in sees the new       *)
(* content if the tool writes into the same file, not if it replaces it.   *)
Align(tail) ==
  /\ pc = "align"
  /\ align' = result * 2
  /\ \/ bin' = Linked(obj, align', tail)
     \/ bin' = bin
  /\ CallGetBytes("measured", FALSE)
  /\ UNCHANGED <<hook, bytes, written, retried, obj>>

(* gpp_link: a tool fails, debug_pause jumps to the menu                   *)
LinkError ==
  /\ pc = "align"
  /\ pc' = "menu"
  /\ UNCHANGED <<stream, scan, local, result>>

(* A faulty Write, for the check of WrittenIsMeasured: it writes as many   *)
(* bytes as have been read.                                                *)
WriteAllRead ==
  /\ pc = "test"
  /\ bytes # 0
  /\ written' = SubSeq(hook, 1, pos)
  /\ pc' = "done"
  /\ UNCHANGED <<stream, scan, result, hook, bytes, align, retried, obj>>

Write ==
  /\ pc = "test"
  /\ bytes # 0
  /\ written' = SubSeq(hook, 1, bytes)
  /\ pc' = "done"
  /\ UNCHANGED <<stream, scan, result, hook, bytes, align, retried, obj>>

Ended == pc \in {"done", "menu"} /\ UNCHANGED vars

-----------------------------------------------------------------------------
Init ==
  /\ obj \in Objects
  /\ \E tail \in Tails : bin = Linked(obj, FirstAlign, tail)
  /\ pos = 0 /\ failed = FALSE
  /\ count = 0 /\ null = 0 /\ errorRet = TRUE /\ caller = "measured"
  /\ result = 0 /\ hook = <<>> /\ bytes = 0 /\ align = 0
  /\ written = <<>> /\ retried = FALSE
  /\ pc = "open"

Scan  == ReadByte \/ EndOfFile
Apply == Open \/ Measured \/ MeasureAgain \/ (\E tail \in Tails : Align(tail)) \/ Write

Next == Scan \/ Apply \/ LinkError \/ Ended

Spec == Init /\ [][Next]_vars

(* One thread, and no tool that fails for ever                             *)
FairSpec == Spec /\ WF_vars(Scan \/ Apply)

-----------------------------------------------------------------------------
(***************************************************************************)
(* Properties.                                                             *)
(***************************************************************************)
(* Every variable keeps its type.                                          *)
TypeOK ==
  /\ obj \in Objects
  /\ bin \in Seq(Nat) /\ hook \in Seq(Nat) /\ written \in Seq(Nat)
  /\ pos \in Nat /\ count \in Nat /\ null \in Nat
  /\ result \in Nat /\ bytes \in Nat /\ align \in Nat
  /\ failed \in BOOLEAN /\ errorRet \in BOOLEAN /\ retried \in BOOLEAN
  /\ caller \in {"measured", "align"}
  /\ pc \in {"open", "scan", "measured", "align", "test", "done", "menu"}

(* The last byte that is not null among the first n of d, 0 if there is none *)
IsCodeEnd(d, n, e) ==
  /\ e \in 0..n
  /\ e > 0 => d[e] # 0
  /\ \A k \in (e + 1)..n : d[k] = 0

(* The two counters of parse_binary_end, between any two bytes: count is   *)
(* the place of the last byte that is not null, null the nulls since.      *)
CountersMeasure ==
  (pc = "scan" /\ ~failed) => count + null = pos /\ IsCodeEnd(bin, pos, count)

(* A prefix of d that ends in a byte other than null and that as many null *)
(* bytes follow.  A scan takes the shortest one for the code; it gives up  *)
(* at once on a hook that begins with a null byte.                         *)
Fits(d, n) == 2 * n <= Len(d) /\ IsCodeEnd(d, 2 * n, n)
Measurable(d) == d # <<>> /\ d[1] # 0 /\ \E n \in 1..Len(d) : Fits(d, n)

(* What is written is the start of the hook up to a byte that is not null, *)
(* with at least as many null bytes behind it, and the shortest such start;*)
(* no byte is read from behind the buffer hook_F although its length was   *)
(* measured after it had been filled, and perhaps after a relink.          *)
WrittenIsMeasured ==
  pc = "done" =>
    /\ bytes <= Len(hook)
    /\ written = SubSeq(hook, 1, bytes)
    /\ Fits(hook, bytes)
    /\ \A n \in 1..(bytes - 1) : ~Fits(hook, n)

(* Linking again never helps: once apply_Hook has entered its loop it does *)
(* not write the hook.                                                     *)
RetryIsHopeless == retried => pc # "done"

(* A hook that can be measured is written, without a second link.          *)
MeasurableIsWritten == (pc = "open" /\ Measurable(bin)) ~> (pc = "done" /\ ~retried)

(* The comment of the loop: "in case the hook is bigger then supposable    *)
(* allocate more memory" (hooks.cpp:42); the loop should come to an end    *)
(* once more has been allocated, or when a tool fails.                     *)
BigHookIsWritten == pc = "open" ~> pc \in {"done", "menu"}
=============================================================================
