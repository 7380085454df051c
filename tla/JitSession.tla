------------------------------ MODULE JitSession ------------------------------
(***************************************************************************)
(* jitHooks.cpp: menu choice 1.  Instructions are assembled as they are    *)
(* typed, saved to a hook file with their bytes, loaded again and written  *)
(* into the program.  enter_asmjit_hook calls itself, directly and through *)
(* interpret_file, for each layer; the layers share global variables and   *)
(* pointers into one block of memory that grows and is deleted.            *)
(*                                                                         *)
(* Of a string the model keeps where it lies and how many characters are   *)
(* left of it, of the bytes of a hook how many there are and at which      *)
(* offset they belong, of a hook's header whether its architecture is one. *)
(* Undefined behaviour ends in "undefined", or is a choice where the       *)
(* program can go on.                                                      *)
(***************************************************************************)
EXTENDS Integers, Sequences, FiniteSets, SequencesExt

CONSTANTS
  Hooks,      (* names of hook files                                       *)
  Default,    (* the one that filename is at first                         *)
  Target,     (* the program to patch                                      *)
  Offsets,    (* where hooks go; 0 is that of no hook                      *)
  Instrs,     (* instructions: the length of the text, the number of bytes *)
  HeaderLen,  (* length of a line of a hook's header                       *)
  PtrSize,    (* sizeof(char* )                                            *)
  Capacity,   (* MAX_MEMORY_SIZE                                           *)
  MaxFrames,  (* bound on the depth of calls                               *)
  MaxUsed,    (* bound on the text stored in the block                     *)
  MaxBytes,   (* bound on the bytes of a layer                             *)
  MaxCommands, (* bound on commands other than .up and .ret                *)
  Blocks,     (* names of blocks                                           *)
  NoBlock, NoHook, Torn, NoBytes, NoStep

(* "of": the offset that the bytes were assembled for                      *)
Hook == [offs: Offsets, of: Offsets, bytes: BOOLEAN, arch: {0, 1}, instrs: Seq(Instrs)]

ASSUME JitAssumption ==
  /\ 0 \in Offsets /\ Target \notin Hooks /\ Default \in Hooks
  /\ PtrSize \in Nat /\ PtrSize > 2 /\ Capacity \in Nat
  /\ Instrs \subseteq [len: Nat \ {0}, size: Nat \ {0}]
  /\ \A s \in Instrs : PtrSize * s.len < Capacity
  /\ HeaderLen \in Nat \ {0} /\ PtrSize * HeaderLen < Capacity
  /\ MaxFrames \in Nat /\ MaxUsed \in Nat /\ MaxBytes \in Nat /\ MaxCommands \in Nat
  /\ NoBlock \notin Blocks /\ NoBytes \notin Offsets /\ NoStep \notin Nat
  /\ NoHook \notin Hook /\ Torn \notin Hook

(* The allocator always has another block: there are more names of blocks  *)
(* than there can be pointers into them, one for each text and four more.  *)
ASSUME BlocksAssumption == IsFiniteSet(Blocks) => Cardinality(Blocks) > MaxUsed + 4

(* archArg and offsArg: none, into a literal, into the array "input" of    *)
(* the layer at a depth, into that of a layer that has returned, or into a *)
(* block; the value is the offset, or 1 for an architecture and 0 for none *)
Pointer == [kind: {"none", "literal", "input", "gone", "block"}, depth: 0..MaxFrames,
            block: Blocks \union {NoBlock}, value: Offsets \union {0, 1}]
None    == [kind |-> "none", depth |-> 0, block |-> NoBlock, value |-> 0]
Literal == [None EXCEPT !.kind = "literal", !.value = 1]
Into(b, v)  == [kind |-> "block", depth |-> 0, block |-> b, value |-> v]
Input(d, v) == [kind |-> "input", depth |-> d, block |-> NoBlock, value |-> v]

Text == [block: Blocks, from: Nat, len: Nat, left: Nat, size: Nat]

(* a call of enter_asmjit_hook: what it patches, where it returns to, its  *)
(* command, the length of its buffer, step_bytes_length, the files that    *)
(* .wall has to do; history: the texts are those of its buffer, and the    *)
(* last instruction has been undone                                        *)
Frame == [patch: Hooks \union {Target},
          back: {"main", "comp", "load", "loaded", "org", "wall"},
          command: {"none", ".comp", ".clear"},
          code: 0..MaxBytes, step: Nat \union {NoStep}, rest: SUBSET Hooks,
          own: BOOLEAN, undone: BOOLEAN]
Call(patch, back, command) ==
  [patch |-> patch, back |-> back, command |-> command, code |-> 0, step |-> NoStep,
   rest |-> {}, own |-> FALSE, undone |-> FALSE]

VARIABLES
  hooks,     (* the hook files                                             *)
  filename,
  stack,     (* the calls of enter_asmjit_hook                             *)
  jpc,
  job,       (* interpret_file: its file, cmp_asm, who called it, how far it is *)
  call,      (* the call that comes next, or has returned                  *)
  layer, Next,
  block, used,       (* instr_memblock, instr_memblock_offset / PtrSize    *)
  encoded,           (* encoded_instr                                      *)
  archArg, offsArg,
  loaded,            (* buffer_from_file_only: the offset its bytes are for *)
  baseOffset,
  commands,  (* number of commands                                         *)
  moved,     (* history: realloc moved the block since the last reset      *)
  skipped,   (* history: the .clear of .org was not carried out            *)
  astray     (* history: bytes have been written to an offset they are not for *)

control == <<stack, jpc, job, call, layer, Next>>
memory  == <<block, used, moved>>
globals == <<encoded, archArg, offsArg, loaded, baseOffset>>
history == <<skipped, astray, commands>>
vars    == <<hooks, filename, control, memory, globals, history>>

top      == stack[Len(stack)]
Below    == SubSeq(stack, 1, Len(stack) - 1)
OnTop(f) == Append(Below, f)
NoCall   == Call(Target, "main", "none")
NoJob    == [file |-> Target, cmp |-> FALSE, after |-> "comp", line |-> 1, base |-> NoBlock]
Go(from, to) == jpc = from /\ jpc' = to

Stale(p) == p.kind = "block" /\ p.block # block
Referred == {encoded[n].block : n \in DOMAIN encoded}
            \union {archArg.block, offsArg.block, job.base, block}
Fresh    == CHOOSE b \in Blocks : b \notin Referred

(* A faulty ResetGlobals, for the check of PointersAreLive: the texts stay. *)
ResetGlobalsButTexts ==
  /\ archArg' = None /\ offsArg' = None
  /\ loaded' = NoBytes /\ baseOffset' = 0
  /\ UNCHANGED encoded

ResetGlobals ==
  /\ encoded' = <<>>
  /\ archArg' = None /\ offsArg' = None
  /\ loaded' = NoBytes /\ baseOffset' = 0

(* mark_mem: the block may move each time once the offset is beyond it     *)
MarkMem(n) ==
  /\ used' = used + n
  /\ block' \in IF PtrSize * used' >= Capacity THEN {block, Fresh} ELSE {block}
  /\ moved' = (moved \/ block' # block)

Cut(e, n) ==
  IF e.block = block' /\ e.from <= n /\ n < e.from + e.left
  THEN [e EXCEPT !.left = n - e.from] ELSE e
Stored(s, n) ==
  Append([k \in DOMAIN encoded |-> Cut(encoded[k], n)],
         [block |-> block', from |-> PtrSize * used', len |-> s.len, left |-> s.len,
          size |-> s.size])

(* A faulty Store, for the check of TextsAreWhole: the terminator goes to  *)
(* where the text before begins.                                           *)
StoreOneBefore(s) == MarkMem(s.len) /\ encoded' = Stored(s, PtrSize * used)

(* the text goes to the offset, its terminator behind the offset divided   *)
(* by the size of a pointer                                                *)
Store(s) == MarkMem(s.len) /\ encoded' = Stored(s, used' + s.len)

-----------------------------------------------------------------------------
(***************************************************************************)
(* enter_asmjit_hook up to its loop.  "Invalid --arch parameter" makes it  *)
(* return at once; what is left of the array of a layer that has returned  *)
(* may be anything.  The call from main takes the arguments of the command *)
(* line, of which there are none.                                          *)
(***************************************************************************)
ChooseJit ==
  /\ Go("menu", "enter")
  /\ call' = Call(Target, "main", "none")
  /\ UNCHANGED <<hooks, filename, stack, job, layer, Next, memory, globals, history>>

Values   == IF archArg.kind = "gone" THEN {0, 1} ELSE {archArg.value}
Accepted == archArg.kind = "none" \/ (~Stale(archArg) /\ 1 \in Values)
Refused  == archArg.kind # "none" /\ ~Stale(archArg) /\ 0 \in Values

Enter ==
  /\ Go("enter", "command") /\ Accepted
  /\ Len(stack) < MaxFrames
  /\ stack' = Append(stack, [call EXCEPT !.own = (encoded = <<>>)])
  /\ call' = NoCall
  /\ block' = IF block = NoBlock THEN Fresh ELSE block
  /\ IF call.back = "main" THEN archArg' = None /\ offsArg' = None
     ELSE archArg' = (IF archArg.kind = "none" THEN Literal ELSE archArg) /\ UNCHANGED offsArg
  /\ UNCHANGED <<hooks, filename, job, layer, Next, used, moved, encoded, loaded, baseOffset,
                 history>>

EnterRefused ==
  /\ Go("enter", "back") /\ Refused
  /\ skipped' = (skipped \/ call.back = "org")
  /\ UNCHANGED <<hooks, filename, stack, job, call, layer, Next, memory, globals, astray, commands>>

(* the call has returned to the place it came from                         *)
Returned(from, to) == Go("back", to) /\ call.back = from

Return ==
  /\ \/ Returned("main", "menu") /\ call' = NoCall /\ UNCHANGED stack
     \/ Returned("comp", "command") /\ call' = NoCall /\ stack' = OnTop([top EXCEPT !.own = FALSE])
     \/ Returned("load", "enter") /\ call' = Call(top.patch, "loaded", "none") /\ UNCHANGED stack
     \/ Returned("wall", "write") /\ call' = NoCall /\ UNCHANGED stack
     \/ Returned("loaded", "up") /\ call' = NoCall /\ UNCHANGED stack
     \/ Returned("org", "up") /\ call' = NoCall /\ UNCHANGED stack
  /\ UNCHANGED <<hooks, filename, job, layer, Next, memory, globals, history>>

(* the array "input" goes with the call *)
Left(p) == IF p.kind = "input" /\ p.depth = Len(stack) THEN [None EXCEPT !.kind = "gone"] ELSE p

Ret ==
  /\ Go("command", "back") /\ ~Next /\ top.command = "none"
  /\ Next' = TRUE
  /\ call' = top /\ stack' = Below
  /\ archArg' = Left(archArg)
  /\ UNCHANGED <<hooks, filename, job, layer, memory, encoded, offsArg, loaded, baseOffset,
                 history>>

(* .up, and what other commands do in the end                              *)
Up ==
  /\ \/ Go("up", "back")
     \/ Go("command", "back") /\ (Next \/ top.command = "none")
  /\ call' = top /\ stack' = Below
  /\ IF block # NoBlock /\ layer = 1
     THEN /\ ResetGlobals
          /\ block' = NoBlock /\ used' = 0 /\ moved' = FALSE
          /\ Next' = FALSE /\ layer' = 0
     ELSE /\ layer' = IF layer = 0 THEN 0 ELSE layer - 1
          /\ archArg' = Left(archArg)
          /\ UNCHANGED <<Next, memory, encoded, offsArg, loaded, baseOffset>>
  /\ UNCHANGED <<hooks, filename, job, history>>

-----------------------------------------------------------------------------
(***************************************************************************)
(* interpret_file, which all but the second call for one .comp enter with  *)
(* arg_memblock reset.  The three lines of the header are stored and used. *)
(***************************************************************************)
Interpret(f, cmp, after) ==
  job' = [file |-> f, cmp |-> cmp, after |-> after, line |-> 1, base |-> NoBlock]

OpenFails ==
  /\ Go("open", "menu")
  /\ hooks[job.file] = NoHook
  /\ stack' = <<>> /\ job' = NoJob
  /\ UNCHANGED <<hooks, filename, call, layer, Next, memory, globals, history>>

Open ==
  /\ Go("open", "header")
  /\ hooks[job.file] # NoHook
  /\ UNCHANGED <<hooks, filename, stack, job, call, layer, Next, memory, globals, history>>

HeaderLine ==
  LET h == hooks[job.file] IN
  /\ jpc = "header" /\ h # Torn /\ block # NoBlock
  /\ used + HeaderLen <= MaxUsed
  /\ job.line <= 3
  /\ MarkMem(HeaderLen)
  /\ job' = [job EXCEPT !.line = @ + 1, !.base = IF job.line = 1 THEN block' ELSE @]
  /\ offsArg' = IF job.line = 2 THEN Into(block', h.offs) ELSE offsArg
  /\ archArg' = IF job.line = 3 THEN Into(block', h.arch) ELSE archArg
  /\ UNCHANGED <<hooks, filename, stack, jpc, call, layer, Next, encoded, loaded, baseOffset,
                 history>>

(* The hook is compiled in a layer of its own, which patches the hook file. *)
HeaderDone ==
  LET h == hooks[job.file] IN
  /\ jpc = "header" /\ job.line > 3
  /\ job.base = block /\ ~Stale(offsArg)
  /\ baseOffset' = h.offs
  /\ loaded' = IF h.bytes /\ ~job.cmp THEN h.of ELSE NoBytes
  /\ IF h.bytes /\ ~job.cmp
     THEN jpc' = "back" /\ call' = Call(Target, job.after, "none") /\ UNCHANGED layer
     ELSE jpc' = "enter" /\ call' = Call(filename, job.after, ".comp") /\ layer' = layer + 1
  /\ job' = [job EXCEPT !.base = NoBlock, !.line = 1]
  /\ UNCHANGED <<hooks, filename, stack, Next, memory, encoded, archArg, offsArg, history>>

Commanded(c) == Go("command", IF c = ".comp" THEN "compile" ELSE "command")
                /\ ~Next /\ top.command = c
Done         == [top EXCEPT !.command = "none"]

(* The command is copied without its terminator into an array that is not  *)
(* initialized: it may be taken for an instruction, which is wrong.        *)
CommandGarbled ==
  /\ jpc = "command" /\ ~Next /\ top.command # "none"
  /\ stack' = OnTop(Done) /\ job' = NoJob
  /\ skipped' = (skipped \/ top.command = ".clear")
  /\ UNCHANGED <<hooks, filename, jpc, call, layer, Next, memory, globals, astray, commands>>

Comp ==
  /\ Commanded(".comp")
  /\ stack' = OnTop(Done)
  /\ UNCHANGED <<hooks, filename, job, call, layer, Next, memory, globals, history>>

(* compile_asm, a line *)
CompileLine ==
  /\ jpc = "compile" /\ block # NoBlock
  /\ job.line <= Len(hooks[job.file].instrs)
  /\ LET s == hooks[job.file].instrs[job.line] IN
     /\ top.code + s.size <= MaxBytes /\ used + s.len <= MaxUsed
     /\ Store(s)
     /\ stack' = OnTop([top EXCEPT !.code = @ + s.size])
  /\ job' = [job EXCEPT !.line = @ + 1]
  /\ UNCHANGED <<hooks, filename, jpc, call, layer, Next, archArg, offsArg, loaded, baseOffset,
                 history>>

Compiled ==
  /\ Go("compile", "command")
  /\ job.line > Len(hooks[job.file].instrs)
  /\ job' = NoJob
  /\ UNCHANGED <<hooks, filename, stack, call, layer, Next, memory, globals, history>>

-----------------------------------------------------------------------------
(***************************************************************************)
(* The other commands                                                      *)
(***************************************************************************)
Command(to) ==
  /\ Go("command", to) /\ ~Next /\ top.command = "none"
  /\ commands < MaxCommands /\ commands' = commands + 1

CompCommand ==
  /\ Command("open")
  /\ ResetGlobals /\ moved' = FALSE
  /\ Interpret(filename, TRUE, "comp")
  /\ UNCHANGED <<hooks, filename, stack, call, layer, Next, block, used, skipped, astray>>

Load(f) ==
  /\ Command("open")
  /\ ResetGlobals /\ moved' = FALSE
  /\ Interpret(f, FALSE, "load")
  /\ UNCHANGED <<hooks, filename, stack, call, layer, Next, block, used, skipped, astray>>

(* write_all_jithooks: the files of a directory, in any order              *)
Wall ==
  /\ Command("wall")
  /\ stack' = OnTop([top EXCEPT !.rest = {f \in Hooks : hooks[f] # NoHook}])
  /\ UNCHANGED <<hooks, filename, job, call, layer, Next, memory, globals, skipped, astray>>

WallFile(f) ==
  /\ Go("wall", "open") /\ UNCHANGED commands /\ f \in top.rest
  /\ stack' = OnTop([top EXCEPT !.rest = @ \ {f}, !.own = FALSE])
  /\ ResetGlobals /\ moved' = FALSE
  /\ filename' = f
  /\ Interpret(f, FALSE, "wall")
  /\ UNCHANGED <<hooks, call, layer, Next, block, used, skipped, astray>>

WallDone ==
  /\ Go("wall", "command") /\ UNCHANGED commands /\ top.rest = {}
  /\ UNCHANGED <<hooks, filename, stack, job, call, layer, Next, memory, globals, skipped, astray>>

(* HexToBytes of the buffer at an offset of the file, which is opened      *)
(* first and not made if it is missing; a hook file may be left without    *)
(* its header                                                              *)
WriteBytes(file, offset) ==
  /\ file \in Hooks => hooks[file] # NoHook
  /\ astray' = (astray \/ loaded \notin {offset, NoBytes})
  /\ IF loaded # NoBytes /\ file \in Hooks
     THEN hooks' \in {hooks, [hooks EXCEPT ![file] = Torn]}
     ELSE UNCHANGED hooks

WallWrite ==
  /\ Go("write", "wall") /\ UNCHANGED commands
  /\ offsArg.kind # "none" /\ ~Stale(offsArg)
  /\ WriteBytes(top.patch, offsArg.value)
  /\ job' = NoJob
  /\ UNCHANGED <<filename, stack, call, layer, Next, memory, globals, skipped>>

Write ==
  /\ Command("command")
  /\ loaded # NoBytes
  /\ WriteBytes(top.patch, baseOffset)
  /\ UNCHANGED <<filename, control, memory, globals, skipped>>

(* The file to patch is missing or, if it is the program, may be refused:  *)
(* debug_pause, for .write and .wall.                                      *)
WriteFails ==
  /\ \/ Command("menu") /\ loaded # NoBytes
     \/ Go("write", "menu") /\ UNCHANGED commands /\ offsArg.kind # "none" /\ ~Stale(offsArg)
  /\ top.patch \in Hooks => hooks[top.patch] = NoHook
  /\ stack' = <<>> /\ job' = NoJob
  /\ UNCHANGED <<hooks, filename, call, layer, Next, memory, globals, skipped, astray>>

(* The array "input" of this layer takes the architecture.                 *)
Org(offset, arch) ==
  /\ Command("enter")
  /\ baseOffset' = offset
  /\ archArg' = Input(Len(stack), arch)
  /\ call' = Call(top.patch, "org", ".clear")
  /\ UNCHANGED <<hooks, filename, stack, job, layer, Next, memory, encoded, offsArg, loaded,
                 skipped, astray>>

(* A faulty Clear, for the check of BytesAtTheirOffset: the bytes of the   *)
(* loaded file stay.                                                       *)
ClearTexts ==
  /\ (Commanded(".clear") /\ UNCHANGED commands) \/ Command("command")
  /\ stack' = OnTop([Done EXCEPT !.code = 0, !.own = TRUE, !.undone = FALSE])
  /\ encoded' = <<>> /\ UNCHANGED loaded
  /\ UNCHANGED <<hooks, filename, jpc, job, call, layer, Next, memory, archArg, offsArg, baseOffset,
                 skipped, astray>>

(* .clear, typed or from .org                                              *)
Clear ==
  /\ (Commanded(".clear") /\ UNCHANGED commands) \/ Command("command")
  /\ stack' = OnTop([Done EXCEPT !.code = 0, !.own = TRUE, !.undone = FALSE])
  /\ encoded' = <<>> /\ loaded' = NoBytes
  /\ UNCHANGED <<hooks, filename, jpc, job, call, layer, Next, memory, archArg, offsArg, baseOffset,
                 skipped, astray>>

Type(s) ==
  /\ Command("command") /\ block # NoBlock
  /\ top.code + s.size <= MaxBytes /\ used + s.len <= MaxUsed
  /\ Store(s)
  /\ stack' = OnTop([top EXCEPT !.code = @ + s.size, !.step = s.size, !.undone = FALSE])
  /\ UNCHANGED <<hooks, filename, jpc, job, call, layer, Next, archArg, offsArg, loaded, baseOffset,
                 skipped, astray>>

(* A faulty Shorter, for the check of TypeOK: there is no allocation to fail. *)
ShorterThanNothing(f) ==
  IF f.code = 0 THEN {0} ELSE IF f.step = NoStep THEN 0..MaxBytes ELSE {f.code - f.step}

(* step_bytes_length is that of the last instruction typed in this layer,  *)
(* undone or not, and not initialized if there was none.  A buffer of less *)
(* than no bytes cannot be allocated and stays as it is.                   *)
Shorter(f) ==
  IF f.code = 0 THEN {0}
  ELSE IF f.step = NoStep THEN 0..MaxBytes
  ELSE IF f.step > f.code THEN {f.code} ELSE {f.code - f.step}

(* A faulty Undo, for the check of BytesAreTexts: the bytes stay.          *)
UndoText ==
  /\ Command("command")
  /\ encoded' = IF encoded = <<>> THEN <<>> ELSE Front(encoded)
  /\ stack' = OnTop([top EXCEPT !.own = @ /\ ~top.undone /\ top.step # NoStep, !.undone = TRUE])
  /\ UNCHANGED <<hooks, filename, jpc, job, call, layer, Next, memory, archArg, offsArg, loaded,
                 baseOffset, skipped, astray>>

Undo ==
  /\ Command("command")
  /\ encoded' = IF encoded = <<>> THEN <<>> ELSE Front(encoded)
  /\ \E n \in Shorter(top) :
       stack' = OnTop([top EXCEPT !.code = n, !.own = @ /\ ~top.undone /\ top.step # NoStep,
                                  !.undone = TRUE])
  /\ UNCHANGED <<hooks, filename, jpc, job, call, layer, Next, memory, archArg, offsArg, loaded,
                 baseOffset, skipped, astray>>

(* saveCode: the texts as far as they are left, a rest without its newline *)
(* spoiling the next; the bytes follow those that were loaded              *)
Whole(n)  == encoded[n].left = encoded[n].len
             /\ (n = 1 \/ encoded[n - 1].left \in {0, encoded[n - 1].len})
SavedText ==
  LET upTo[n \in 0..Len(encoded)] ==
        IF n = 0 THEN <<>>
        ELSE IF Whole(n)
             THEN Append(upTo[n - 1], [len |-> encoded[n].len, size |-> encoded[n].size])
             ELSE upTo[n - 1]
  IN  upTo[Len(encoded)]

SafeToSave == ~Stale(archArg) /\ \A n \in DOMAIN encoded : encoded[n].block = block

(* no architecture is printed as "(null)" *)
Save ==
  /\ Command("command")
  /\ top.code > 0 /\ SafeToSave
  /\ \E v \in IF archArg.kind = "none" THEN {0} ELSE Values :
       hooks' = [hooks EXCEPT ![filename] =
                   [offs |-> baseOffset, of |-> IF loaded = NoBytes THEN baseOffset ELSE loaded,
                    bytes |-> TRUE, arch |-> v, instrs |-> SavedText]]
  /\ UNCHANGED <<filename, control, memory, globals, skipped, astray>>

SetFile(f) ==
  /\ Command("command")
  /\ filename' = f
  /\ UNCHANGED <<hooks, control, memory, globals, skipped, astray>>

(***************************************************************************)
(* Undefined behaviour: a write through a null pointer, a pointer into     *)
(* memory that has been freed, an argument that the header did not have.   *)
(***************************************************************************)
BadUse ==
  \/ jpc = "enter" /\ Stale(archArg)
  \/ jpc = "header" /\ job.line <= 3 /\ (block = NoBlock \/ hooks[job.file] = Torn)
  \/ jpc = "header" /\ job.line > 3 /\ (job.base # block \/ Stale(offsArg))
  \/ jpc = "compile" /\ block = NoBlock
  \/ jpc = "write" /\ (offsArg.kind = "none" \/ Stale(offsArg))
  \/ /\ jpc = "command" /\ ~Next /\ top.command = "none"
     /\ block = NoBlock \/ (top.code > 0 /\ ~SafeToSave)

Undefined ==
  /\ BadUse
  /\ jpc' = "undefined"
  /\ UNCHANGED <<hooks, filename, stack, job, call, layer, Next, memory, globals, history>>

-----------------------------------------------------------------------------
JitInit ==
  /\ hooks \in [Hooks -> {h \in [offs: Offsets \ {0}, of: Offsets \ {0}, bytes: BOOLEAN, arch: {1},
                                 instrs: {<<s>> : s \in Instrs}] : h.offs = h.of}
                         \union {NoHook}]
  /\ filename = Default
  /\ stack = <<>> /\ jpc = "menu" /\ job = NoJob /\ call = NoCall
  /\ layer = 0 /\ Next = FALSE
  /\ block = NoBlock /\ used = 0 /\ moved = FALSE
  /\ encoded = <<>> /\ archArg = None /\ offsArg = None /\ loaded = NoBytes /\ baseOffset = 0
  /\ skipped = FALSE /\ astray = FALSE /\ commands = 0

Layers == ChooseJit \/ Enter \/ EnterRefused \/ Return \/ Ret \/ Up

Files ==
  \/ OpenFails \/ WriteFails \/ Open \/ HeaderLine \/ HeaderDone
  \/ CommandGarbled \/ Comp \/ CompileLine \/ Compiled

Commands ==
  \/ CompCommand \/ Wall \/ WallDone \/ WallWrite \/ Write \/ Clear \/ Undo \/ Save
  \/ \E f \in Hooks : Load(f) \/ WallFile(f) \/ SetFile(f)
  \/ \E offset \in Offsets, arch \in {0, 1} : Org(offset, arch)
  \/ \E s \in Instrs : Type(s)

JitNext == Layers \/ Files \/ Commands \/ Undefined

JitSpec == JitInit /\ [][JitNext]_vars

-----------------------------------------------------------------------------
(***************************************************************************)
(* Properties.                                                             *)
(***************************************************************************)
(* Every variable keeps its type.                                          *)
TypeOK ==
  /\ \A f \in Hooks : hooks[f] \in {NoHook, Torn} \/ hooks[f] \in Hook
  /\ filename \in Hooks
  /\ stack \in Seq(Frame) /\ call \in Frame
  /\ jpc \in {"menu", "enter", "back", "up", "open", "header", "compile", "command", "wall",
              "write", "undefined"}
  /\ jpc \in {"menu", "enter", "back", "undefined"} \/ stack # <<>>
  /\ layer \in Nat /\ Next \in BOOLEAN
  /\ block \in Blocks \union {NoBlock} /\ used \in Nat /\ moved \in BOOLEAN
  /\ encoded \in Seq(Text) /\ archArg \in Pointer /\ offsArg \in Pointer
  /\ loaded \in Offsets \union {NoBytes} /\ baseOffset \in Offsets
  /\ skipped \in BOOLEAN /\ astray \in BOOLEAN /\ commands \in Nat

(* Although the block is deleted under the layers that still run, they     *)
(* keep no pointer into it: only realloc leaves pointers behind, until the *)
(* next hook is loaded.                                                    *)
PointersAreLive ==
  ~moved => /\ \A n \in DOMAIN encoded : encoded[n].block = block
            /\ ~Stale(archArg) /\ ~Stale(offsArg)

(* Bytes go to the offset they were assembled for, by whatever layers,     *)
(* loads, .org and .wall they come to be written or saved: where .org      *)
(* changes the offset it drops the bytes, if its .clear is carried out.    *)
BytesAtTheirOffset ==
  ~skipped => /\ jpc = "command" /\ top.command = "none" => loaded \in {baseOffset, NoBytes}
              /\ ~astray
              /\ \A f \in Hooks : hooks[f] \in {NoHook, Torn} \/ hooks[f].offs = hooks[f].of

(* The bytes that .save writes are those of the instructions it writes, in *)
(* a layer that has begun without texts of another one, as long as no      *)
(* other has come between and .undo follows an instruction that was typed. *)
Sum(e) == LET upTo[n \in 0..Len(e)] == IF n = 0 THEN 0 ELSE upTo[n - 1] + e[n].size
          IN  upTo[Len(e)]
BytesAreTexts == (jpc = "command" /\ top.own) => top.code = Sum(encoded)

(* No text loses its end to the terminator of a later one, which is put    *)
(* somewhere else in the block, as long as the texts in the block take up  *)
(* less than half of what lies before the text.                            *)
TextsAreWhole ==
  \A n \in DOMAIN encoded : 2 * used < encoded[n].from => encoded[n].left = encoded[n].len
=============================================================================
