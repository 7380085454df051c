-------------------------- MODULE JitSessionProofs ---------------------------
(***************************************************************************)
(* Which pointers of jitHooks.cpp outlive the block they point into, at    *)
(* which offset bytes end up, what .save writes of the texts and which     *)
(* bytes are theirs, for any depth of layers, any hooks, texts and         *)
(* sequences of commands, and whatever number of blocks the allocator      *)
(* gives out.                                                              *)
(***************************************************************************)
EXTENDS JitSession, NatLemmas

(***************************************************************************)
(* The inductive invariant.  A layer that finds no block makes one and     *)
(* leaves the pointers alone: there must be none then.                     *)
(***************************************************************************)
IsText(e) == "block" \in DOMAIN e

TextsAreKept ==
  /\ \E S : encoded \in Seq(S)
  /\ \A n \in DOMAIN encoded : IsText(encoded[n])

Forgotten == encoded = <<>> /\ archArg.kind # "block" /\ offsArg.kind # "block"

PointerInv ==
  /\ TextsAreKept
  /\ PointersAreLive
  /\ ~moved /\ block = NoBlock => Forgotten

(* What the invariant depends on.                                          *)
pointers == <<block, moved, encoded, archArg, offsArg>>

LEMMA InitPointers == JitInit => PointerInv
<1> SUFFICES ASSUME JitInit PROVE PointerInv
  OBVIOUS
<1>1. encoded = <<>> /\ archArg = None /\ offsArg = None
  BY DEF JitInit
<1>2. encoded \in Seq({}) /\ DOMAIN encoded = {}
  BY <1>1, EmptySeq
<1> QED
  BY <1>1, <1>2 DEF PointerInv, TextsAreKept, PointersAreLive, Forgotten, Stale, None

LEMMA SamePointers ==
  ASSUME PointerInv, UNCHANGED pointers
  PROVE  PointerInv'
BY DEF PointerInv, TextsAreKept, PointersAreLive, Forgotten, Stale, pointers

(***************************************************************************)
(* Everything is forgotten when a hook is loaded and with the block.       *)
(***************************************************************************)
LEMMA ResetPointers ==
  ASSUME ResetGlobals
  PROVE  PointerInv'
<1>1. encoded' = <<>> /\ archArg' = None /\ offsArg' = None
  BY DEF ResetGlobals
<1>2. encoded' \in Seq({}) /\ DOMAIN encoded' = {}
  BY <1>1, EmptySeq
<1> QED
  BY <1>1, <1>2 DEF PointerInv, TextsAreKept, PointersAreLive, Forgotten, Stale, None

(***************************************************************************)
(* The pointers of the layers that are entered and left.                   *)
(***************************************************************************)
LEMMA LeftPointer ==
  ASSUME NEW p
  PROVE  Left(p) = p \/ Left(p).kind # "block"
BY DEF Left, None

LEMMA LayersPointers ==
  ASSUME PointerInv, Layers
  PROVE  PointerInv'
<1>1. CASE ChooseJit \/ EnterRefused \/ Return
  BY <1>1, SamePointers DEF ChooseJit, EnterRefused, Return, memory, globals, pointers
<1>2. CASE Enter
  <2>1. /\ UNCHANGED <<moved, encoded>>
        /\ block' = IF block = NoBlock THEN Fresh ELSE block
        /\ archArg' = archArg \/ archArg' = None \/ archArg' = Literal
        /\ offsArg' = offsArg \/ offsArg' = None
    BY <1>2 DEF Enter
  <2>2. None.kind # "block" /\ Literal.kind # "block"
    BY DEF None, Literal
  <2>3. TextsAreKept'
    BY <2>1 DEF PointerInv, TextsAreKept
  <2>4. CASE block = NoBlock
    <3>1. ASSUME ~moved PROVE Forgotten'
      BY <2>1, <2>2, <2>4, <3>1 DEF PointerInv, Forgotten
    <3>2. ASSUME Forgotten' PROVE PointersAreLive'
      BY <3>2 DEF Forgotten, PointersAreLive, Stale
    <3> QED
      BY <2>1, <2>3, <3>1, <3>2 DEF PointerInv, PointersAreLive
  <2>5. CASE block # NoBlock
    BY <2>1, <2>2, <2>3, <2>5 DEF PointerInv, PointersAreLive, Stale
  <2> QED
    BY <2>4, <2>5
<1>3. CASE Ret
  <2>1. /\ UNCHANGED <<block, moved, encoded, offsArg>>
        /\ archArg' = archArg \/ archArg'.kind # "block"
    BY <1>3, LeftPointer DEF Ret, memory
  <2> QED
    BY <2>1 DEF PointerInv, TextsAreKept, PointersAreLive, Forgotten, Stale
<1>4. CASE Up
  <2>1. \/ ResetGlobals
        \/ /\ UNCHANGED <<block, moved, encoded, offsArg>>
           /\ archArg' = archArg \/ archArg'.kind # "block"
    BY <1>4, LeftPointer DEF Up, memory
  <2> QED
    BY <2>1, ResetPointers DEF PointerInv, TextsAreKept, PointersAreLive, Forgotten, Stale
<1> QED
  BY <1>1, <1>2, <1>3, <1>4 DEF Layers

(***************************************************************************)
(* A line is stored.  realloc leaves all pointers behind, and "moved" says *)
(* so; otherwise the new text is in the same block as the others.          *)
(***************************************************************************)
LEMMA CutText ==
  ASSUME NEW e, NEW n, IsText(e)
  PROVE  IsText(Cut(e, n)) /\ Cut(e, n).block = e.block
BY DEF IsText, Cut

LEMMA StorePointers ==
  ASSUME PointerInv, NEW s, Store(s), block # NoBlock, UNCHANGED <<archArg, offsArg>>
  PROVE  PointerInv'
<1> DEFINE m == used' + s.len
           old == [k \in DOMAIN encoded |-> Cut(encoded[k], m)]
           new == [block |-> block', from |-> PtrSize * used', len |-> s.len,
                   left |-> s.len, size |-> s.size]
<1>1. encoded' = Append(old, new) /\ (moved' <=> moved \/ block' # block)
  BY DEF Store, Stored, MarkMem
<1>2. PICK S : encoded \in Seq(S)
  BY DEF PointerInv, TextsAreKept
<1>3. Len(encoded) \in Nat /\ DOMAIN encoded = 1..Len(encoded)
  BY <1>2, LenProperties
<1>4. \A k \in DOMAIN encoded : IsText(old[k]) /\ old[k].block = encoded[k].block
  BY CutText DEF PointerInv, TextsAreKept
<1>5. IsText(new) /\ new.block = block'
  BY DEF IsText
<1> DEFINE T == {old[k] : k \in DOMAIN encoded} \union {new}
<1>6. old \in Seq(T) /\ Len(old) = Len(encoded) /\ DOMAIN old = DOMAIN encoded /\ new \in T
  <2>1. old \in [1..Len(encoded) -> T]
    BY <1>3
  <2>2. old \in Seq(T)
    BY <1>3, <2>1, SeqDef
  <2>3. Len(old) \in Nat /\ DOMAIN old = 1..Len(old) /\ DOMAIN old = 1..Len(encoded)
    BY <2>1, <2>2, LenProperties
  <2> QED
    BY <1>3, <2>2, <2>3
<1> HIDE DEF old, new, T
<1>7. /\ encoded' \in Seq(T) /\ Len(encoded') = Len(encoded) + 1
      /\ \A k \in 1..Len(encoded) : encoded'[k] = old[k]
      /\ encoded'[Len(encoded) + 1] = new
  BY <1>1, <1>6, AppendProperties
<1>8. DOMAIN encoded' = 1..(Len(encoded) + 1)
  BY <1>7, LenProperties
<1>9. /\ \A k \in DOMAIN encoded' : IsText(encoded'[k])
      /\ \A k \in DOMAIN encoded' :
           encoded'[k].block = block' \/ (k \in DOMAIN encoded /\ encoded'[k].block = encoded[k].block)
  BY <1>3, <1>4, <1>5, <1>7, <1>8
<1>10. TextsAreKept'
  BY <1>7, <1>9 DEF TextsAreKept
<1>11. ASSUME ~moved' PROVE block' = block /\ ~moved
  BY <1>1, <1>11
<1> QED
  BY <1>9, <1>10, <1>11 DEF PointerInv, PointersAreLive, Stale

LEMMA FilesPointers ==
  ASSUME PointerInv, Files
  PROVE  PointerInv'
<1>1. CASE OpenFails \/ WriteFails \/ Open \/ HeaderDone \/ CommandGarbled \/ Comp \/ Compiled
  BY <1>1, SamePointers DEF OpenFails, WriteFails, Open, HeaderDone, CommandGarbled, Comp, Compiled,
     memory, globals, pointers
<1>2. CASE HeaderLine
  <2>1. /\ block # NoBlock /\ UNCHANGED encoded
        /\ moved' <=> moved \/ block' # block
        /\ offsArg' = offsArg \/ offsArg'.block = block'
        /\ archArg' = archArg \/ archArg'.block = block'
    BY <1>2 DEF HeaderLine, MarkMem, Into
  <2>2. TextsAreKept'
    BY <2>1 DEF PointerInv, TextsAreKept
  <2>3. ASSUME ~moved' PROVE block' = block /\ ~moved
    BY <2>1, <2>3
  <2> QED
    BY <2>1, <2>2, <2>3 DEF PointerInv, PointersAreLive, Stale
<1>3. CASE CompileLine
  <2>1. /\ block # NoBlock /\ UNCHANGED <<archArg, offsArg>>
        /\ Store(hooks[job.file].instrs[job.line])
    BY <1>3 DEF CompileLine
  <2> QED
    BY <2>1, StorePointers
<1> QED
  BY <1>1, <1>2, <1>3 DEF Files

(***************************************************************************)
(* The commands.                                                           *)
(***************************************************************************)
LEMMA FewerPointers ==
  ASSUME PointerInv, UNCHANGED <<block, moved, archArg, offsArg>>,
         encoded' \in {<<>>, Front(encoded)}, encoded' # <<>> => encoded # <<>>
  PROVE  PointerInv'
<1>1. PICK S : encoded \in Seq(S)
  BY DEF PointerInv, TextsAreKept
<1>2. Len(encoded) \in Nat /\ DOMAIN encoded = 1..Len(encoded)
  BY <1>1, LenProperties
<1>3. CASE encoded' = <<>>
  <2>1. encoded' \in Seq(S) /\ DOMAIN encoded' = {}
    BY <1>3, EmptySeq
  <2> QED
    BY <1>3, <2>1 DEF PointerInv, TextsAreKept, PointersAreLive, Forgotten, Stale
<1>4. CASE encoded' # <<>>
  <2>1. encoded # <<>> /\ encoded' = SubSeq(encoded, 1, Len(encoded) - 1)
    BY <1>4 DEF Front
  <2>2. \A k \in 1..(Len(encoded) - 1) : encoded[k] \in S
    BY <1>1, <1>2, ElementOfSeq
  <2>3. /\ encoded' \in Seq(S)
        /\ Len(encoded') = IF 1 <= Len(encoded) - 1 THEN Len(encoded) - 1 ELSE 0
        /\ \A k \in 1..(Len(encoded) - 1) : encoded'[k] = encoded[k]
    BY <1>2, <2>1, <2>2, SubSeqProperties
  <2>4. DOMAIN encoded' = 1..Len(encoded')
    BY <2>3, LenProperties
  <2>5. \A k \in DOMAIN encoded' : k \in DOMAIN encoded /\ encoded'[k] = encoded[k]
    <3> DEFINE n == Len(encoded)
               m == Len(encoded')
    <3>1. n \in Nat /\ m \in Nat /\ (m = n - 1 \/ m = 0)
      <4>1. n \in Nat /\ m = IF 1 <= n - 1 THEN n - 1 ELSE 0
        BY <1>2, <2>3
      <4> HIDE DEF n, m
      <4> QED
        BY <4>1
    <3>2. DOMAIN encoded = 1..n /\ DOMAIN encoded' = 1..m
      BY <1>2, <2>4
    <3>3. \A k \in 1..(n - 1) : encoded'[k] = encoded[k]
      BY <2>3
    <3> HIDE DEF n, m
    <3>4. \A k \in 1..m : k \in 1..n /\ k \in 1..(n - 1)
      BY <3>1
    <3> QED
      BY <3>2, <3>3, <3>4
  <2> QED
    BY <2>1, <2>3, <2>5 DEF PointerInv, TextsAreKept, PointersAreLive, Forgotten, Stale
<1> QED
  BY <1>3, <1>4

LEMMA CommandsPointers ==
  ASSUME PointerInv, Commands
  PROVE  PointerInv'
<1>1. CASE Wall \/ WallDone \/ WallWrite \/ Write \/ Save \/ \E f \in Hooks : SetFile(f)
  BY <1>1, SamePointers DEF Wall, WallDone, WallWrite, Write, Save, SetFile,
     memory, globals, pointers
<1>2. CASE CompCommand \/ \E f \in Hooks : Load(f) \/ WallFile(f)
  BY <1>2, ResetPointers DEF CompCommand, Load, WallFile
<1>3. CASE Clear \/ Undo
  BY <1>3, FewerPointers DEF Clear, Undo, memory
<1>4. CASE \E offset \in Offsets, arch \in {0, 1} : Org(offset, arch)
  <2>1. UNCHANGED <<block, moved, encoded, offsArg>> /\ archArg'.kind # "block"
    BY <1>4 DEF Org, Input, memory
  <2> QED
    BY <2>1 DEF PointerInv, TextsAreKept, PointersAreLive, Forgotten, Stale
<1>5. CASE \E s \in Instrs : Type(s)
  BY <1>5, StorePointers DEF Type
<1> QED
  BY <1>1, <1>2, <1>3, <1>4, <1>5 DEF Commands

LEMMA NextPointers == PointerInv /\ [JitNext]_vars => PointerInv'
<1> SUFFICES ASSUME PointerInv, [JitNext]_vars PROVE PointerInv'
  OBVIOUS
<1>1. CASE Undefined \/ UNCHANGED vars
  BY <1>1, SamePointers DEF Undefined, vars, memory, globals, pointers
<1> QED
  BY <1>1, LayersPointers, FilesPointers, CommandsPointers DEF JitNext

(***************************************************************************)
(* The second invariant: the offset of the bytes that are loaded.  They    *)
(* are those of the present offset, which is that of the last header, or a *)
(* .clear of .org is to follow; a header is read when none are loaded.     *)
(***************************************************************************)
Pending ==
  /\ ~Next
  /\ \/ jpc = "enter" /\ call.command = ".clear" /\ call.back = "org"
     \/ jpc = "command" /\ top.command = ".clear"

InPlace ==
  \/ loaded = NoBytes
  \/ loaded = baseOffset /\ (offsArg.kind = "none" \/ offsArg.value = loaded)

HeaderRead ==
  /\ jpc \in {"open", "header"} =>
       /\ {"file", "line", "base"} \subseteq DOMAIN job
       /\ job.file \in Hooks /\ job.line \in Nat /\ loaded = NoBytes
  /\ jpc = "open" => job.line = 1
  /\ jpc = "header" => hooks[job.file] # NoHook
  /\ jpc = "header" /\ job.line > 1 => hooks[job.file] # Torn
  /\ jpc = "header" /\ job.line > 2 => offsArg.value = hooks[job.file].offs

HooksInPlace == \A f \in Hooks : hooks[f] \in {NoHook, Torn} \/ hooks[f].offs = hooks[f].of

StackIsSeq == \E S : stack \in Seq(S)

Static ==
  /\ DOMAIN hooks = Hooks /\ filename \in Hooks
  /\ jpc = "enter" => "command" \in DOMAIN call

BytesInv ==
  ~skipped => (InPlace \/ Pending \/ jpc = "undefined") /\ ~astray /\ HooksInPlace

OffsetInv == StackIsSeq /\ Static /\ HeaderRead /\ BytesInv

LEMMA InitOffset == JitInit => OffsetInv
<1> SUFFICES ASSUME JitInit PROVE OffsetInv
  OBVIOUS
<1>1. stack = <<>> /\ jpc = "menu" /\ loaded = NoBytes /\ filename = Default /\ ~skipped /\ ~astray
  BY DEF JitInit
<1>2. StackIsSeq
  <2>1. stack \in Seq({})
    BY <1>1, EmptySeq
  <2> QED
    BY <2>1 DEF StackIsSeq
<1>3. DOMAIN hooks = Hooks /\ HooksInPlace
  BY DEF JitInit, HooksInPlace
<1>4. Static /\ HeaderRead
  BY <1>1, <1>3, JitAssumption DEF Static, HeaderRead
<1> QED
  BY <1>1, <1>2, <1>3, <1>4 DEF OffsetInv, BytesInv, InPlace

(***************************************************************************)
(* The stack.                                                              *)
(***************************************************************************)
LEMMA WiderSeq ==
  ASSUME NEW S, NEW T, S \subseteq T, NEW s \in Seq(S)
  PROVE  s \in Seq(T)
<1>1. Len(s) \in Nat /\ s \in [1..Len(s) -> S]
  BY LenProperties
<1>2. s \in [1..Len(s) -> T]
  BY <1>1
<1> QED
  BY <1>1, <1>2, SeqDef

LEMMA StackSeqs ==
  ASSUME NEW S, stack \in Seq(S), NEW x
  PROVE  /\ Below \in Seq(S)
         /\ OnTop(x) \in Seq(S \union {x})
         /\ Append(stack, x) \in Seq(S \union {x})
         /\ Append(stack, x)[Len(Append(stack, x))] = x
<1>1. Len(stack) \in Nat /\ \A k \in 1..(Len(stack) - 1) : stack[k] \in S
  BY LenProperties, ElementOfSeq
<1>2. Below \in Seq(S)
  BY <1>1, SubSeqProperties DEF Below
<1>3. Below \in Seq(S \union {x}) /\ stack \in Seq(S \union {x})
  BY <1>2, WiderSeq
<1> QED
  BY <1>2, <1>3, AppendProperties DEF OnTop

LEMMA StackForms ==
  ASSUME JitNext
  PROVE  \/ stack' = stack \/ stack' = <<>> \/ stack' = Below
         \/ \E x : stack' = OnTop(x) \/ stack' = Append(stack, x)
<1>1. CASE Layers
  BY <1>1 DEF Layers, ChooseJit, Enter, EnterRefused, Return, Ret, Up
<1>2. CASE Files
  BY <1>2 DEF Files, OpenFails, WriteFails, Open, HeaderLine, HeaderDone, CommandGarbled, Comp,
     CompileLine, Compiled
<1>3. CASE Commands
  BY <1>3 DEF Commands, CompCommand, Wall, WallDone, WallWrite, Write, Clear, Undo, Save, Load,
     WallFile, SetFile, Org, Type, control
<1>4. CASE Undefined
  BY <1>4 DEF Undefined
<1> QED
  BY <1>1, <1>2, <1>3, <1>4 DEF JitNext

LEMMA StackStaysSeq ==
  ASSUME StackIsSeq, JitNext
  PROVE  StackIsSeq'
<1>1. PICK S : stack \in Seq(S)
  BY DEF StackIsSeq
<1>2. \/ stack' = stack \/ stack' = <<>> \/ stack' = Below
      \/ \E x : stack' = OnTop(x) \/ stack' = Append(stack, x)
  BY StackForms
<1>3. CASE stack' \in Seq(S)
  BY <1>3 DEF StackIsSeq
<1>4. CASE \E x : stack' = OnTop(x) \/ stack' = Append(stack, x)
  <2>1. PICK x : stack' = OnTop(x) \/ stack' = Append(stack, x)
    BY <1>4
  <2>2. OnTop(x) \in Seq(S \union {x}) /\ Append(stack, x) \in Seq(S \union {x})
    BY <1>1, StackSeqs
  <2>3. stack' \in Seq(S \union {x})
    BY <2>1, <2>2
  <2> QED
    BY <2>3 DEF StackIsSeq
<1>5. <<>> \in Seq(S) /\ Below \in Seq(S)
  BY <1>1, EmptySeq, StackSeqs
<1> QED
  BY <1>1, <1>2, <1>3, <1>4, <1>5

(***************************************************************************)
(* Steps that leave the bytes and the offsets alone, and those that forget *)
(* the bytes.                                                              *)
(***************************************************************************)
bytes == <<hooks, filename, loaded, baseOffset, offsArg, skipped, astray>>

LEMMA SameBytes ==
  ASSUME OffsetInv, UNCHANGED bytes, ~Pending, jpc # "undefined",
         jpc' \notin {"enter", "open", "header"}
  PROVE  Static' /\ HeaderRead' /\ BytesInv'
BY DEF OffsetInv, Static, HeaderRead, BytesInv, InPlace, HooksInPlace, bytes

LEMMA Forget ==
  ASSUME OffsetInv, ResetGlobals, UNCHANGED <<hooks, skipped, astray>>, filename' \in Hooks,
         jpc' = "open" => /\ {"file", "line", "base"} \subseteq DOMAIN job'
                          /\ job'.file \in Hooks /\ job'.line = 1,
         jpc' \notin {"enter", "header"}
  PROVE  Static' /\ HeaderRead' /\ BytesInv'
BY DEF OffsetInv, ResetGlobals, Static, HeaderRead, BytesInv, InPlace, HooksInPlace

LEMMA CallFields ==
  ASSUME NEW patch, NEW back, NEW command
  PROVE  /\ Call(patch, back, command).command = command
         /\ Call(patch, back, command).back = back
         /\ "command" \in DOMAIN Call(patch, back, command)
BY DEF Call

LEMMA LayersOffset ==
  ASSUME OffsetInv, Layers
  PROVE  Static' /\ HeaderRead' /\ BytesInv'
<1>1. CASE ChooseJit
  <2>1. /\ UNCHANGED bytes /\ jpc = "menu" /\ jpc' = "enter"
        /\ call' = Call(Target, "main", "none")
    BY <1>1 DEF ChooseJit, Go, memory, globals, history, bytes
  <2> QED
    BY <2>1, CallFields
       DEF OffsetInv, Static, HeaderRead, BytesInv, InPlace, HooksInPlace, Pending, bytes
<1>2. CASE Enter
  <2>1. /\ UNCHANGED <<hooks, filename, loaded, baseOffset, skipped, astray, Next>>
        /\ jpc = "enter" /\ jpc' = "command"
        /\ stack' = Append(stack, [call EXCEPT !.own = (encoded = <<>>)])
        /\ offsArg' = offsArg \/ offsArg' = None
    BY <1>2 DEF Enter, Go, history
  <2>2. top'.command = call.command
    <3>1. PICK S : stack \in Seq(S)
      BY DEF OffsetInv, StackIsSeq
    <3>2. top' = [call EXCEPT !.own = (encoded = <<>>)]
      BY <2>1, <3>1, StackSeqs DEF top
    <3>3. "command" \in DOMAIN call
      BY <2>1 DEF OffsetInv, Static
    <3> QED
      BY <3>2, <3>3
  <2>3. None.kind = "none"
    BY DEF None
  <2>4. Static' /\ HeaderRead' /\ HooksInPlace' = HooksInPlace
    BY <2>1 DEF OffsetInv, Static, HeaderRead, HooksInPlace
  <2>5. InPlace => InPlace'
    BY <2>1, <2>3 DEF InPlace
  <2>6. Pending => Pending'
    BY <2>1, <2>2 DEF Pending
  <2> QED
    BY <2>1, <2>4, <2>5, <2>6 DEF OffsetInv, BytesInv
<1>3. CASE EnterRefused
  <2>1. /\ UNCHANGED <<hooks, filename, loaded, baseOffset, offsArg, astray>>
        /\ jpc = "enter" /\ jpc' = "back" /\ skipped' = (skipped \/ call.back = "org")
    BY <1>3 DEF EnterRefused, Go, globals
  <2> QED
    BY <2>1 DEF OffsetInv, Static, HeaderRead, BytesInv, InPlace, HooksInPlace, Pending
<1>4. CASE Return
  <2>1. /\ UNCHANGED bytes /\ jpc = "back" /\ jpc' \in {"menu", "command", "enter", "write", "up"}
        /\ jpc' = "enter" => call' = Call(top.patch, "loaded", "none")
    BY <1>4 DEF Return, Returned, Go, globals, history, bytes
  <2>2. jpc' = "enter" => "command" \in DOMAIN call'
    BY <2>1, CallFields
  <2> QED
    BY <2>1, <2>2 DEF OffsetInv, Static, HeaderRead, BytesInv, InPlace, HooksInPlace, Pending, bytes
<1>5. CASE Ret
  <2>1. /\ UNCHANGED bytes /\ jpc = "command" /\ jpc' = "back" /\ top.command = "none"
    BY <1>5 DEF Ret, Go, history, bytes
  <2> QED
    BY <2>1, SameBytes DEF Pending
<1>6. CASE Up
  <2>1. /\ UNCHANGED <<hooks, filename, skipped, astray>> /\ jpc \in {"up", "command"}
        /\ jpc' = "back" /\ (jpc = "command" => Next \/ top.command = "none")
        /\ ResetGlobals \/ UNCHANGED <<loaded, baseOffset, offsArg>>
    BY <1>6 DEF Up, Go, history
  <2>2. CASE ResetGlobals
    BY <2>1, <2>2, Forget DEF OffsetInv, Static
  <2>3. CASE UNCHANGED <<loaded, baseOffset, offsArg>>
    BY <2>1, <2>3, SameBytes DEF Pending, bytes
  <2> QED
    BY <2>1, <2>2, <2>3
<1> QED
  BY <1>1, <1>2, <1>3, <1>4, <1>5, <1>6 DEF Layers

LEMMA FilesOffset ==
  ASSUME OffsetInv, Files
  PROVE  Static' /\ HeaderRead' /\ BytesInv'
<1>1. CASE OpenFails \/ WriteFails \/ Comp \/ CompileLine \/ Compiled
  <2>1. /\ UNCHANGED bytes /\ ~Pending /\ jpc # "undefined"
        /\ jpc' \in {"menu", "compile", "command"}
    BY <1>1 DEF OpenFails, WriteFails, Command, Comp, CompileLine, Compiled, Commanded, Go,
       memory, globals, history, bytes, Pending
  <2> QED
    BY <2>1, SameBytes
<1>2. CASE Open
  <2>1. /\ UNCHANGED bytes /\ UNCHANGED job /\ jpc = "open" /\ jpc' = "header"
        /\ hooks[job.file] # NoHook
    BY <1>2 DEF Open, Go, memory, globals, history, bytes
  <2>2. job.line = 1
    BY <2>1 DEF OffsetInv, HeaderRead
  <2> QED
    BY <2>1, <2>2 DEF OffsetInv, Static, HeaderRead, BytesInv, InPlace, HooksInPlace, Pending, bytes
<1>3. CASE HeaderLine
  <2> DEFINE h == hooks[job.file]
  <2>1. /\ UNCHANGED <<hooks, filename, jpc, loaded, baseOffset, skipped, astray>>
        /\ jpc = "header" /\ h # Torn
        /\ job' = [job EXCEPT !.line = @ + 1, !.base = IF job.line = 1 THEN block' ELSE @]
        /\ offsArg' = IF job.line = 2 THEN Into(block', h.offs) ELSE offsArg
    BY <1>3 DEF HeaderLine, history
  <2>2. {"file", "line", "base"} \subseteq DOMAIN job /\ job.line \in Nat
    BY <2>1 DEF OffsetInv, HeaderRead
  <2>3. /\ DOMAIN job' = DOMAIN job
        /\ job'.file = job.file /\ job'.line = job.line + 1
    BY <2>1, <2>2
  <2>4. job.line = 2 => offsArg'.value = h.offs
    BY <2>1 DEF Into
  <2>5. job.line > 2 => offsArg'.value = h.offs
    BY <2>1, <2>2 DEF OffsetInv, HeaderRead
  <2> HIDE DEF h
  <2>6. job'.line > 2 => offsArg'.value = h.offs
    BY <2>2, <2>3, <2>4, <2>5
  <2>7. HeaderRead'
    BY <2>1, <2>2, <2>3, <2>6 DEF OffsetInv, HeaderRead, h
  <2>8. loaded' = NoBytes
    BY <2>1 DEF OffsetInv, HeaderRead
  <2> QED
    BY <2>1, <2>7, <2>8 DEF OffsetInv, Static, BytesInv, InPlace, HooksInPlace
<1>4. CASE HeaderDone
  <2> DEFINE h == hooks[job.file]
  <2>1. /\ UNCHANGED <<hooks, filename, offsArg, skipped, astray>>
        /\ jpc = "header" /\ job.line > 3
        /\ baseOffset' = h.offs /\ loaded' \in {h.of, NoBytes}
        /\ \/ jpc' = "back"
           \/ jpc' = "enter" /\ call' = Call(filename, job.after, ".comp")
    BY <1>4 DEF HeaderDone, history
  <2>2. /\ job.file \in Hooks /\ job.line \in Nat /\ job.line > 1 /\ job.line > 2
    BY <2>1 DEF OffsetInv, HeaderRead
  <2>3. h \notin {NoHook, Torn} /\ offsArg.value = h.offs
    BY <2>1, <2>2 DEF OffsetInv, HeaderRead
  <2>4. ~skipped => ~astray /\ HooksInPlace /\ h.offs = h.of
    BY <2>2, <2>3 DEF OffsetInv, BytesInv, HooksInPlace
  <2>5. jpc' = "enter" => "command" \in DOMAIN call'
    BY <2>1, CallFields
  <2> HIDE DEF h
  <2>6. ~skipped => InPlace'
    BY <2>1, <2>3, <2>4 DEF InPlace
  <2>7. BytesInv'
    BY <2>1, <2>4, <2>6 DEF BytesInv, HooksInPlace
  <2> QED
    BY <2>1, <2>5, <2>7 DEF OffsetInv, Static, HeaderRead
<1>5. CASE CommandGarbled
  <2>1. /\ UNCHANGED <<hooks, filename, loaded, baseOffset, offsArg, astray, jpc>>
        /\ jpc = "command" /\ skipped' = (skipped \/ top.command = ".clear")
    BY <1>5 DEF CommandGarbled, globals
  <2> QED
    BY <2>1 DEF OffsetInv, Static, HeaderRead, BytesInv, InPlace, HooksInPlace, Pending
<1> QED
  BY <1>1, <1>2, <1>3, <1>4, <1>5 DEF Files

(***************************************************************************)
(* The commands.  One runs when no .clear is to follow, so what is written *)
(* or saved is in place.                                                   *)
(***************************************************************************)
LEMMA CommandFacts ==
  ASSUME OffsetInv, NEW to, Command(to) \/ Go("write", to)
  PROVE  jpc' = to /\ ~Pending /\ jpc # "undefined"
         /\ (~skipped => InPlace /\ ~astray /\ HooksInPlace)
BY DEF OffsetInv, BytesInv, Command, Go, Pending

LEMMA WrittenOffset ==
  ASSUME OffsetInv, NEW file, NEW offset, WriteBytes(file, offset),
         ~skipped => InPlace /\ ~astray /\ HooksInPlace,
         InPlace => loaded \in {offset, NoBytes},
         UNCHANGED <<filename, loaded, baseOffset, offsArg, skipped>>,
         jpc' \notin {"enter", "open", "header"}
  PROVE  Static' /\ HeaderRead' /\ BytesInv'
<1>1. /\ DOMAIN hooks' = Hooks
      /\ \A f \in Hooks : hooks'[f] \in {hooks[f], Torn}
  BY DEF WriteBytes, OffsetInv, Static
<1>2. HooksInPlace => HooksInPlace'
  BY <1>1 DEF HooksInPlace
<1>3. astray' <=> astray \/ loaded \notin {offset, NoBytes}
  BY DEF WriteBytes
<1>4. BytesInv'
  BY <1>2, <1>3 DEF BytesInv, InPlace
<1> QED
  BY <1>1, <1>4 DEF OffsetInv, Static, HeaderRead

LEMMA CommandsOffset ==
  ASSUME OffsetInv, Commands
  PROVE  Static' /\ HeaderRead' /\ BytesInv'
<1>1. CASE CompCommand \/ \E f \in Hooks : Load(f) \/ WallFile(f)
  <2>1. /\ ResetGlobals /\ UNCHANGED <<hooks, skipped, astray>> /\ jpc' = "open"
        /\ filename' = filename \/ filename' \in Hooks
        /\ \E f \in Hooks \union {filename} : \E cmp, after : Interpret(f, cmp, after)
    BY <1>1 DEF CompCommand, Load, WallFile, Command, Go
  <2>2. filename \in Hooks
    BY DEF OffsetInv, Static
  <2>3. /\ {"file", "line", "base"} \subseteq DOMAIN job'
        /\ job'.file \in Hooks /\ job'.line = 1
    BY <2>1, <2>2 DEF Interpret
  <2> QED
    BY <2>1, <2>2, <2>3, Forget
<1>2. CASE Wall \/ WallDone \/ Undo \/ \E s \in Instrs : Type(s)
  <2>1. /\ UNCHANGED bytes /\ ~Pending /\ jpc # "undefined"
        /\ jpc' \in {"wall", "command"}
    BY <1>2 DEF Wall, WallDone, Undo, Type, Command, Go, memory, globals, bytes, Pending
  <2> QED
    BY <2>1, SameBytes
<1>3. CASE \E f \in Hooks : SetFile(f)
  <2>1. /\ UNCHANGED <<hooks, loaded, baseOffset, offsArg, skipped, astray>>
        /\ filename' \in Hooks /\ Command("command")
    BY <1>3 DEF SetFile, globals
  <2> QED
    BY <2>1, CommandFacts DEF OffsetInv, Static, HeaderRead, BytesInv, InPlace, HooksInPlace
<1>4. CASE WallWrite
  <2>1. /\ UNCHANGED <<filename, loaded, baseOffset, offsArg, skipped>> /\ Go("write", "wall")
        /\ offsArg.kind # "none" /\ WriteBytes(top.patch, offsArg.value)
    BY <1>4 DEF WallWrite, globals
  <2>2. InPlace => loaded \in {offsArg.value, NoBytes}
    BY <2>1 DEF InPlace
  <2> QED
    BY <2>1, <2>2, CommandFacts, WrittenOffset
<1>5. CASE Write
  <2>1. /\ UNCHANGED <<filename, loaded, baseOffset, offsArg, skipped>> /\ Command("command")
        /\ WriteBytes(top.patch, baseOffset)
    BY <1>5 DEF Write, globals
  <2>2. InPlace => loaded \in {baseOffset, NoBytes}
    BY DEF InPlace
  <2> QED
    BY <2>1, <2>2, CommandFacts, WrittenOffset
<1>6. CASE Save
  <2>1. /\ UNCHANGED <<filename, loaded, baseOffset, offsArg, skipped, astray>>
        /\ Command("command")
    BY <1>6 DEF Save, globals
  <2> DEFINE Saved(v) == [offs |-> baseOffset, of |-> IF loaded = NoBytes THEN baseOffset ELSE loaded,
                          bytes |-> TRUE, arch |-> v, instrs |-> SavedText]
  <2>2. \E v : hooks' = [hooks EXCEPT ![filename] = Saved(v)]
    BY <1>6 DEF Save
  <2>3. PICK v : hooks' = [hooks EXCEPT ![filename] = Saved(v)]
    BY <2>2
  <2> DEFINE new == Saved(v)
  <2>4. /\ hooks' = [hooks EXCEPT ![filename] = new]
        /\ new.offs = baseOffset
        /\ new.of = IF loaded = NoBytes THEN baseOffset ELSE loaded
    BY <2>3
  <2> HIDE DEF new
  <2>5. InPlace => new.offs = new.of
    BY <2>4 DEF InPlace
  <2>6. DOMAIN hooks' = Hooks /\ \A f \in Hooks : hooks'[f] \in {hooks[f], new}
    BY <2>4 DEF OffsetInv, Static
  <2>7. InPlace /\ HooksInPlace => HooksInPlace'
    BY <2>5, <2>6 DEF HooksInPlace
  <2> QED
    BY <2>1, <2>6, <2>7, CommandFacts DEF OffsetInv, Static, HeaderRead, BytesInv, InPlace
<1>7. CASE \E offset \in Offsets, arch \in {0, 1} : Org(offset, arch)
  <2>1. /\ UNCHANGED <<hooks, filename, Next, offsArg, skipped, astray>>
        /\ Command("enter") /\ ~Next
        /\ call' = Call(top.patch, "org", ".clear")
    BY <1>7 DEF Org, Command
  <2>2. jpc' = "enter" /\ Pending'
    BY <2>1, CallFields, CommandFacts DEF Pending
  <2>3. "command" \in DOMAIN call'
    BY <2>1, CallFields
  <2> QED
    BY <2>1, <2>2, <2>3, CommandFacts DEF OffsetInv, Static, HeaderRead, BytesInv, HooksInPlace
<1>8. CASE Clear
  <2>1. /\ UNCHANGED <<hooks, filename, skipped, astray>> /\ loaded' = NoBytes
        /\ jpc = "command" /\ jpc' = "command"
    BY <1>8 DEF Clear, Commanded, Command, Go
  <2> QED
    BY <2>1 DEF OffsetInv, Static, HeaderRead, BytesInv, InPlace, HooksInPlace
<1> QED
  BY <1>1, <1>2, <1>3, <1>4, <1>5, <1>6, <1>7, <1>8 DEF Commands

LEMMA NextOffset == OffsetInv /\ [JitNext]_vars => OffsetInv'
<1> SUFFICES ASSUME OffsetInv, [JitNext]_vars PROVE OffsetInv'
  OBVIOUS
<1>1. CASE UNCHANGED vars
  BY <1>1 DEF vars, control, globals, history, OffsetInv, StackIsSeq, Static, HeaderRead, BytesInv,
     InPlace, HooksInPlace, Pending, top
<1>2. CASE JitNext
  <2>1. ASSUME Undefined PROVE Static' /\ HeaderRead' /\ BytesInv'
    BY <2>1 DEF Undefined, globals, history, OffsetInv, Static, HeaderRead, BytesInv, HooksInPlace
  <2>2. Static' /\ HeaderRead' /\ BytesInv'
    BY <1>2, <2>1, LayersOffset, FilesOffset, CommandsOffset DEF JitNext
  <2> QED
    BY <1>2, <2>2, StackStaysSeq DEF OffsetInv
<1> QED
  BY <1>1, <1>2

(***************************************************************************)
(* The third invariant: types.  What a step needs of the pointers, the     *)
(* calls and the hook being read so that the next one stays in its types:  *)
(* the names of blocks that are in use are few, a call returns to one that *)
(* is there, all calls but the last have done their first command, and the *)
(* hook that is compiled is a hook.                                        *)
(***************************************************************************)
Job == [file: Hooks \union {Target}, cmp: BOOLEAN, after: {"comp", "load", "wall"},
        line: Nat \ {0}, base: Blocks \union {NoBlock}]

IsInstr(t) == [len |-> t.len, size |-> t.size] \in Instrs

HooksInv ==
  /\ DOMAIN hooks = Hooks /\ filename \in Hooks
  /\ \A f \in Hooks : hooks[f] \in {NoHook, Torn} \/ hooks[f] \in Hook

StackInv ==
  /\ stack \in Seq(Frame) /\ Len(stack) <= MaxFrames
  /\ stack # <<>> => stack[1].back = "main"
  /\ \A k \in 1..(Len(stack) - 1) : stack[k].command = "none"

CallInv ==
  /\ call \in Frame
  /\ jpc \in {"menu", "enter", "back", "up", "open", "header", "compile", "command", "wall",
              "write", "undefined"}
  /\ jpc \in {"menu", "enter", "back", "undefined"} \/ stack # <<>>
  /\ jpc \in {"enter", "back"} => call.back = "main" \/ stack # <<>>
  /\ jpc # "command" /\ stack # <<>> => top.command = "none"

GlobalsInv ==
  /\ layer \in Nat /\ Next \in BOOLEAN /\ moved \in BOOLEAN
  /\ block \in Blocks \union {NoBlock}
  /\ archArg \in Pointer /\ offsArg \in Pointer /\ archArg.value \in {0, 1}
  /\ loaded \in Offsets \union {NoBytes} /\ baseOffset \in Offsets
  /\ skipped \in BOOLEAN /\ astray \in BOOLEAN /\ commands \in Nat

MemoryInv ==
  /\ used \in Nat /\ used <= MaxUsed
  /\ encoded \in Seq(Text) /\ Len(encoded) <= used
  /\ \A n \in DOMAIN encoded : IsInstr(encoded[n])

Compiling == \/ jpc = "enter" /\ call.command = ".comp"
             \/ jpc = "command" /\ top.command = ".comp"
             \/ jpc = "compile"

JobInv ==
  /\ job \in Job
  /\ jpc \in {"open", "header"} \/ Compiling => job.file \in Hooks
  /\ jpc = "open" => job.line = 1
  /\ jpc = "header" => hooks[job.file] # NoHook /\ (job.line > 1 => hooks[job.file] # Torn)
  /\ Compiling => hooks[job.file] \in Hook

TypeInv == HooksInv /\ StackInv /\ CallInv /\ GlobalsInv /\ MemoryInv /\ JobInv

LEMMA Calls ==
  ASSUME NEW patch \in Hooks \union {Target},
         NEW back \in {"main", "comp", "load", "loaded", "org", "wall"},
         NEW command \in {"none", ".comp", ".clear"}
  PROVE  /\ Call(patch, back, command) \in Frame
         /\ Call(patch, back, command).back = back
         /\ Call(patch, back, command).command = command
         /\ Call(patch, back, command).code = 0 /\ Call(patch, back, command).step = NoStep
         /\ ~Call(patch, back, command).own
BY JitAssumption DEF Call, Frame

(***************************************************************************)
(* What pushing, popping and changing a call does.                         *)
(***************************************************************************)
LEMMA StackFacts ==
  ASSUME StackInv
  PROVE  /\ Len(stack) \in Nat /\ DOMAIN stack = 1..Len(stack)
         /\ stack # <<>> <=> Len(stack) >= 1
         /\ stack # <<>> => top \in Frame
<1>1. stack \in Seq(Frame)
  BY DEF StackInv
<1>2. Len(stack) \in Nat /\ DOMAIN stack = 1..Len(stack)
  BY <1>1, LenProperties
<1>3. stack # <<>> <=> Len(stack) >= 1
  BY <1>1, <1>2, EmptySeq
<1>4. ASSUME stack # <<>> PROVE top \in Frame
  <2>1. Len(stack) \in 1..Len(stack)
    BY <1>2, <1>3, <1>4
  <2> QED
    BY <1>1, <2>1, ElementOfSeq DEF top
<1> QED
  BY <1>2, <1>3, <1>4

LEMMA PushStack ==
  ASSUME StackInv, NEW x \in Frame, Len(stack) < MaxFrames,
         stack # <<>> => top.command = "none", stack = <<>> => x.back = "main",
         stack' = Append(stack, x)
  PROVE  /\ StackInv' /\ stack' # <<>> /\ top' = x
         /\ Len(stack') = Len(stack) + 1
         /\ \A k \in 1..Len(stack) : stack'[k] = stack[k]
<1>1. stack \in Seq(Frame) /\ Len(stack) \in Nat
  BY StackFacts DEF StackInv
<1>2. /\ stack' \in Seq(Frame) /\ Len(stack') = Len(stack) + 1
      /\ \A k \in 1..Len(stack) : stack'[k] = stack[k]
      /\ stack'[Len(stack) + 1] = x
  BY <1>1, AppendProperties
<1>3. stack' # <<>> /\ top' = x
  BY <1>1, <1>2, EmptySeq DEF top
<1>4. Len(stack') <= MaxFrames
  BY <1>1, <1>2, JitAssumption
<1>5. stack'[1].back = "main"
  <2>1. CASE stack = <<>>
    BY <1>2, <2>1, EmptySeq
  <2>2. CASE stack # <<>>
    <3>1. 1 \in 1..Len(stack) /\ stack[1].back = "main"
      BY <1>1, <2>2, StackFacts DEF StackInv
    <3> QED
      BY <1>2, <3>1
  <2> QED
    BY <2>1, <2>2
<1>6. ASSUME NEW k \in 1..(Len(stack') - 1) PROVE stack'[k].command = "none"
  <2>1. k \in 1..Len(stack) /\ stack'[k] = stack[k] /\ stack # <<>>
    BY <1>1, <1>2, StackFacts
  <2>2. CASE k = Len(stack)
    BY <2>1, <2>2 DEF top
  <2>3. CASE k # Len(stack)
    <3>1. k \in 1..(Len(stack) - 1)
      BY <1>1, <2>1, <2>3
    <3> QED
      BY <2>1, <3>1 DEF StackInv
  <2> QED
    BY <2>2, <2>3
<1> QED
  BY <1>2, <1>3, <1>4, <1>5, <1>6 DEF StackInv

LEMMA BelowFacts ==
  ASSUME StackInv, stack # <<>>
  PROVE  /\ Below \in Seq(Frame) /\ Len(Below) = Len(stack) - 1
         /\ \A k \in 1..(Len(stack) - 1) : Below[k] = stack[k]
<1> DEFINE n == Len(stack) - 1
<1>1. stack \in Seq(Frame) /\ n \in Nat /\ n <= Len(stack) /\ Len(stack) \in Nat
  BY StackFacts DEF StackInv
<1>2. \A k \in 1..n : k \in 1..Len(stack)
  BY <1>1
<1>3. \A k \in 1..n : stack[k] \in Frame
  BY <1>1, <1>2, ElementOfSeq
<1> HIDE DEF n
<1>4. /\ SubSeq(stack, 1, n) \in Seq(Frame)
      /\ Len(SubSeq(stack, 1, n)) = IF 1 <= n THEN n - 1 + 1 ELSE 0
      /\ \A k \in 1..(n - 1 + 1) : SubSeq(stack, 1, n)[k] = stack[1 + k - 1]
  BY <1>1, <1>3, SubSeqProperties
<1>5. Len(SubSeq(stack, 1, n)) = n /\ \A k \in 1..n : SubSeq(stack, 1, n)[k] = stack[k]
  <2>1. n - 1 + 1 = n /\ \A k \in 1..n : 1 + k - 1 = k
    BY <1>1
  <2> QED
    BY <1>1, <1>4, <2>1
<1> QED
  BY <1>4, <1>5 DEF n, Below

LEMMA PopStack ==
  ASSUME StackInv, stack # <<>>, stack' = Below
  PROVE  /\ StackInv' /\ top \in Frame
         /\ top.back = "main" \/ stack' # <<>>
         /\ stack' # <<>> => top' = stack[Len(stack) - 1] /\ top'.command = "none"
                             /\ Len(stack) - 1 \in 1..(Len(stack) - 1)
         /\ Len(stack') = Len(stack) - 1
         /\ \A k \in 1..Len(stack') : stack'[k] = stack[k]
<1>1. /\ stack' \in Seq(Frame) /\ Len(stack') = Len(stack) - 1
      /\ \A k \in 1..(Len(stack) - 1) : stack'[k] = stack[k]
  BY BelowFacts
<1>2. Len(stack) \in Nat /\ Len(stack) >= 1 /\ top \in Frame /\ Len(stack) <= MaxFrames
  BY StackFacts DEF StackInv
<1>3. stack' # <<>> <=> Len(stack) > 1
  BY <1>1, <1>2, EmptySeq
<1>4. CASE Len(stack) = 1
  <2>1. top.back = "main"
    BY <1>4 DEF top, StackInv
  <2>2. Len(stack') <= MaxFrames /\ 1..(Len(stack') - 1) = {} /\ 1..Len(stack') = {}
    BY <1>1, <1>2, <1>4, JitAssumption
  <2>3. StackInv'
    BY <1>1, <1>3, <1>4, <2>2 DEF StackInv
  <2> QED
    BY <1>1, <1>2, <1>3, <1>4, <2>1, <2>2, <2>3
<1>5. CASE Len(stack) > 1
  <2>1. 1 \in 1..(Len(stack) - 1) /\ Len(stack) - 1 \in 1..(Len(stack) - 1)
    BY <1>2, <1>5
  <2>2. stack'[1].back = "main"
    BY <1>1, <2>1 DEF StackInv
  <2>3. top' = stack[Len(stack) - 1] /\ top'.command = "none"
    BY <1>1, <2>1 DEF top, StackInv
  <2>4. \A k \in 1..(Len(stack') - 1) : k \in 1..(Len(stack) - 1)
    BY <1>1, <1>2
  <2>5. Len(stack') <= MaxFrames
    BY <1>1, <1>2, JitAssumption
  <2>6. StackInv'
    BY <1>1, <2>2, <2>4, <2>5 DEF StackInv
  <2> QED
    BY <1>1, <1>2, <1>3, <1>5, <2>1, <2>3, <2>6
<1>6. Len(stack) = 1 \/ Len(stack) > 1
  <2>1. \A n \in Nat : n >= 1 => n = 1 \/ n > 1
    OBVIOUS
  <2> QED
    BY <1>2, <2>1
<1> QED
  BY <1>4, <1>5, <1>6

LEMMA TopStack ==
  ASSUME StackInv, stack # <<>>, NEW x \in Frame, x.back = top.back, stack' = OnTop(x)
  PROVE  /\ StackInv' /\ stack' # <<>> /\ top' = x
         /\ Len(stack') = Len(stack)
         /\ \A k \in 1..(Len(stack) - 1) : stack'[k] = stack[k]
<1>1. /\ Below \in Seq(Frame) /\ Len(Below) = Len(stack) - 1
      /\ \A k \in 1..(Len(stack) - 1) : Below[k] = stack[k]
  BY BelowFacts
<1>2. Len(stack) \in Nat /\ Len(stack) >= 1 /\ Len(stack) <= MaxFrames
  BY StackFacts DEF StackInv
<1>3. /\ stack' \in Seq(Frame) /\ Len(stack') = Len(Below) + 1
      /\ \A k \in 1..Len(Below) : stack'[k] = Below[k]
      /\ stack'[Len(Below) + 1] = x
  BY <1>1, AppendProperties DEF OnTop
<1>4. Len(stack') = Len(stack) /\ stack'[Len(stack)] = x
      /\ \A k \in 1..(Len(stack) - 1) : stack'[k] = stack[k]
  <2>1. Len(Below) + 1 = Len(stack)
    BY <1>1, <1>2
  <2> QED
    BY <1>1, <1>3, <2>1
<1>5. stack' # <<>> /\ top' = x
  BY <1>2, <1>4, EmptySeq DEF top
<1>6. stack'[1].back = "main"
  <2>1. stack[1].back = "main"
    BY DEF StackInv
  <2>2. CASE Len(stack) = 1
    BY <1>4, <2>1, <2>2 DEF top
  <2>3. CASE Len(stack) # 1
    <3>1. \A n \in Nat : n >= 1 /\ n # 1 => 1 \in 1..(n - 1)
      OBVIOUS
    <3>2. 1 \in 1..(Len(stack) - 1)
      BY <1>2, <2>3, <3>1
    <3> QED
      BY <1>4, <2>1, <3>2
  <2> QED
    BY <2>2, <2>3
<1> QED
  BY <1>2, <1>3, <1>4, <1>5, <1>6 DEF StackInv

(***************************************************************************)
(* There is always a name for another block, because at most four pointers *)
(* besides the texts are left, and each text takes some of the room.       *)
(***************************************************************************)
LEMMA FreshIsNew ==
  ASSUME MemoryInv
  PROVE  Fresh \in Blocks /\ Fresh \notin Referred
<1> DEFINE N == Len(encoded)
           f == [k \in 1..(N + 4) |-> IF k <= N THEN encoded[k].block
                                      ELSE IF k = N + 1 THEN archArg.block
                                      ELSE IF k = N + 2 THEN offsArg.block
                                      ELSE IF k = N + 3 THEN job.base ELSE block]
<1>1. N \in Nat /\ DOMAIN encoded = 1..N /\ N <= MaxUsed
  BY LenProperties, JitAssumption DEF MemoryInv
<1>2. f \in Surjection(1..(N + 4), Referred)
  <2>1. \A k \in 1..(N + 4) : f[k] \in Referred
    BY <1>1 DEF Referred
  <2>2. ASSUME NEW b \in Referred PROVE \E k \in 1..(N + 4) : f[k] = b
    <3>1. CASE \E n \in DOMAIN encoded : b = encoded[n].block
      <4>1. PICK n \in 1..N : b = encoded[n].block
        BY <1>1, <3>1
      <4>2. n \in 1..(N + 4) /\ n <= N
        BY <1>1
      <4> QED
        BY <4>1, <4>2
    <3>2. CASE b \in {archArg.block, offsArg.block, job.base, block}
      <4>1. /\ N + 1 \in 1..(N + 4) /\ N + 2 \in 1..(N + 4)
            /\ N + 3 \in 1..(N + 4) /\ N + 4 \in 1..(N + 4)
        BY <1>1
      <4>2. /\ f[N + 1] = archArg.block /\ f[N + 2] = offsArg.block
            /\ f[N + 3] = job.base /\ f[N + 4] = block
        BY <1>1, <4>1
      <4> QED
        BY <3>2, <4>1, <4>2
    <3> QED
      BY <3>1, <3>2 DEF Referred
  <2> QED
    BY <2>1, <2>2 DEF Surjection
<1> HIDE DEF f
<1>3. IsFiniteSet(1..(N + 4)) /\ Cardinality(1..(N + 4)) = N + 4
  <2>1. N + 4 \in Int /\ 1 \in Int /\ ~(1 > N + 4) /\ N + 4 - 1 + 1 = N + 4
    BY <1>1
  <2> QED
    BY <2>1, FS_Interval
<1>4. IsFiniteSet(Referred) /\ Cardinality(Referred) <= N + 4
  BY <1>2, <1>3, FS_Surjection
<1>5. ~(Blocks \subseteq Referred)
  <2>1. SUFFICES ASSUME Blocks \subseteq Referred PROVE FALSE
    OBVIOUS
  <2>2. IsFiniteSet(Blocks) /\ Cardinality(Blocks) <= Cardinality(Referred)
    BY <1>4, <2>1, FS_Subset
  <2>3. Cardinality(Blocks) \in Nat /\ Cardinality(Referred) \in Nat
    BY <1>4, <2>2, FS_CardinalityType
  <2> QED
    BY <1>1, <1>4, <2>2, <2>3, BlocksAssumption, JitAssumption
<1> QED
  BY <1>5 DEF Fresh

LEMMA MarkedMemory ==
  ASSUME MemoryInv, GlobalsInv, block # NoBlock, NEW n \in Nat \ {0}, used + n <= MaxUsed,
         MarkMem(n)
  PROVE  /\ used' = used + n /\ used' \in Nat /\ used' <= MaxUsed
         /\ block' \in Blocks /\ moved' \in BOOLEAN
BY FreshIsNew DEF MarkMem, MemoryInv, GlobalsInv

LEMMA CutIsText ==
  ASSUME NEW e \in Text, NEW n \in Nat
  PROVE  /\ Cut(e, n) \in Text
         /\ Cut(e, n).block = e.block /\ Cut(e, n).from = e.from
         /\ Cut(e, n).len = e.len /\ Cut(e, n).size = e.size
         /\ Cut(e, n).left = e.left \/ e.from <= n
BY DEF Cut, Text

LEMMA StoredTexts ==
  ASSUME MemoryInv, GlobalsInv, block # NoBlock, NEW s \in Instrs, used + s.len <= MaxUsed,
         Store(s)
  PROVE  /\ MemoryInv' /\ block' \in Blocks /\ moved' \in BOOLEAN
         /\ used' = used + s.len
         /\ Len(encoded') = Len(encoded) + 1
         /\ \A k \in 1..Len(encoded) : encoded'[k] = Cut(encoded[k], used' + s.len)
         /\ encoded'[Len(encoded) + 1] = [block |-> block', from |-> PtrSize * used',
                                          len |-> s.len, left |-> s.len, size |-> s.size]
<1> DEFINE m == used' + s.len
           old == [k \in DOMAIN encoded |-> Cut(encoded[k], m)]
           new == [block |-> block', from |-> PtrSize * used', len |-> s.len,
                   left |-> s.len, size |-> s.size]
<1>1. encoded' = Append(old, new) /\ MarkMem(s.len)
  BY DEF Store, Stored
<1>2. s \in [len: Nat \ {0}, size: Nat \ {0}] /\ s.len \in Nat \ {0} /\ s.size \in Nat
      /\ s = [len |-> s.len, size |-> s.size]
  BY JitAssumption
<1>3. /\ used' = used + s.len /\ used' \in Nat /\ used' <= MaxUsed /\ used \in Nat
      /\ block' \in Blocks /\ moved' \in BOOLEAN
  BY <1>1, <1>2, MarkedMemory DEF MemoryInv
<1>4. m \in Nat
  BY <1>2, <1>3
<1>5. Len(encoded) \in Nat /\ DOMAIN encoded = 1..Len(encoded) /\ Len(encoded) <= used
      /\ encoded \in Seq(Text)
  BY LenProperties DEF MemoryInv
<1>6. new \in Text
  <2>1. PtrSize * used' \in Nat
    BY <1>3, JitAssumption
  <2> QED
    BY <1>2, <1>3, <2>1 DEF Text
<1> HIDE DEF m
<1>7. \A k \in 1..Len(encoded) : encoded[k] \in Text /\ old[k] = Cut(encoded[k], m)
                                 /\ old[k] \in Text /\ IsInstr(old[k])
  <2> TAKE k \in 1..Len(encoded)
  <2>1. encoded[k] \in Text /\ old[k] = Cut(encoded[k], m) /\ IsInstr(encoded[k])
    BY <1>5, ElementOfSeq DEF MemoryInv
  <2>2. Cut(encoded[k], m) \in Text /\ Cut(encoded[k], m).len = encoded[k].len
        /\ Cut(encoded[k], m).size = encoded[k].size
    BY <1>4, <2>1, CutIsText
  <2> QED
    BY <2>1, <2>2 DEF IsInstr
<1>8. old \in Seq(Text) /\ Len(old) = Len(encoded)
  <2>1. old \in [1..Len(encoded) -> Text]
    BY <1>5, <1>7
  <2>2. old \in Seq(Text) /\ DOMAIN old = 1..Len(encoded)
    BY <1>5, <2>1, SeqDef
  <2>3. Len(old) \in Nat /\ DOMAIN old = 1..Len(old)
    BY <2>2, LenProperties
  <2> QED
    BY <1>5, <2>2, <2>3
<1>9. IsInstr(new)
  BY <1>2 DEF IsInstr
<1>10. new = [block |-> block', from |-> PtrSize * used', len |-> s.len, left |-> s.len,
              size |-> s.size]
  OBVIOUS
<1> HIDE DEF old, new
<1>11. /\ encoded' \in Seq(Text) /\ Len(encoded') = Len(encoded) + 1
       /\ \A k \in 1..Len(encoded) : encoded'[k] = old[k]
       /\ encoded'[Len(encoded) + 1] = new
  BY <1>1, <1>6, <1>8, AppendProperties
<1>12. DOMAIN encoded' = 1..(Len(encoded) + 1)
  BY <1>11, LenProperties
<1>13. \A k \in DOMAIN encoded' : IsInstr(encoded'[k])
  <2>1. \A k \in DOMAIN encoded' : k \in 1..Len(encoded) \/ k = Len(encoded) + 1
    BY <1>5, <1>12
  <2> QED
    BY <1>7, <1>9, <1>11, <2>1
<1>14. Len(encoded') <= used'
  BY <1>2, <1>3, <1>5, <1>11
<1>15. MemoryInv'
  BY <1>3, <1>11, <1>13, <1>14 DEF MemoryInv, IsInstr
<1> QED
  BY <1>3, <1>7, <1>10, <1>11, <1>15 DEF m

LEMMA FewerTexts ==
  ASSUME MemoryInv, UNCHANGED used,
         encoded' = <<>> \/ (encoded' = encoded) \/ (encoded # <<>> /\ encoded' = Front(encoded))
  PROVE  /\ MemoryInv'
         /\ Len(encoded') <= Len(encoded)
         /\ \A k \in 1..Len(encoded') : k \in 1..Len(encoded) /\ encoded'[k] = encoded[k]
<1>1. /\ encoded \in Seq(Text) /\ Len(encoded) \in Nat /\ DOMAIN encoded = 1..Len(encoded)
      /\ Len(encoded) <= used /\ used \in Nat
  BY LenProperties DEF MemoryInv
<1>2. /\ encoded' \in Seq(Text) /\ Len(encoded') \in Nat /\ Len(encoded') <= Len(encoded)
      /\ \A k \in 1..Len(encoded') : k \in 1..Len(encoded) /\ encoded'[k] = encoded[k]
  <2>1. CASE encoded' = <<>>
    <3>1. encoded' \in Seq(Text) /\ Len(encoded') = 0
      BY <2>1, EmptySeq
    <3> QED
      BY <1>1, <3>1
  <2>2. CASE encoded' = encoded
    BY <1>1, <2>2
  <2>3. CASE encoded # <<>> /\ encoded' = Front(encoded)
    <3> DEFINE n == Len(encoded) - 1
    <3>1. Len(encoded) # 0
      BY <1>1, <2>3, EmptySeq
    <3>2. n \in Nat /\ n <= Len(encoded) /\ \A k \in 1..n : k \in 1..Len(encoded)
      BY <1>1, <3>1
    <3>3. \A k \in 1..n : encoded[k] \in Text
      BY <1>1, <3>2, ElementOfSeq
    <3>4. encoded' = SubSeq(encoded, 1, n)
      BY <2>3 DEF Front
    <3> HIDE DEF n
    <3>5. /\ SubSeq(encoded, 1, n) \in Seq(Text)
          /\ Len(SubSeq(encoded, 1, n)) = IF 1 <= n THEN n - 1 + 1 ELSE 0
          /\ \A k \in 1..(n - 1 + 1) : SubSeq(encoded, 1, n)[k] = encoded[1 + k - 1]
      BY <1>1, <3>2, <3>3, SubSeqProperties
    <3>6. Len(encoded') = n /\ \A k \in 1..n : encoded'[k] = encoded[k]
      <4>1. n - 1 + 1 = n /\ \A k \in 1..n : 1 + k - 1 = k
        BY <3>2
      <4> QED
        BY <3>2, <3>4, <3>5, <4>1
    <3> QED
      BY <3>2, <3>4, <3>5, <3>6
  <2> QED
    BY <2>1, <2>2, <2>3
<1>3. DOMAIN encoded' = 1..Len(encoded')
  BY <1>2, LenProperties
<1>4. \A k \in DOMAIN encoded' : IsInstr(encoded'[k])
  BY <1>1, <1>2, <1>3 DEF MemoryInv
<1>5. Len(encoded') <= used'
  BY <1>1, <1>2
<1> QED
  BY <1>2, <1>4, <1>5 DEF MemoryInv, IsInstr

(* What .save writes are instructions. *)
LEMMA SavedInstrs ==
  ASSUME MemoryInv
  PROVE  SavedText \in Seq(Instrs)
<1> DEFINE N       == Len(encoded)
           entry(n) == [len |-> encoded[n].len, size |-> encoded[n].size]
           IsSaved(f) == f = [n \in 0..N |-> IF n = 0 THEN <<>>
                                             ELSE IF Whole(n) THEN Append(f[n - 1], entry(n))
                                             ELSE f[n - 1]]
           saved   == CHOOSE f : IsSaved(f)
           S       == Seq(Instrs)
           G       == [x \in Nat \X S |-> IF x[1] \in 1..N /\ Whole(x[1])
                                          THEN Append(x[2], entry(x[1])) ELSE x[2]]
<1>1. SavedText = saved[N]
  BY DEF SavedText
<1>2. N \in Nat /\ \A n \in 1..N : entry(n) \in Instrs
  BY LenProperties DEF MemoryInv, IsInstr
<1>3. \A n \in Nat, s \in S : /\ G[<<n, s>>] \in S
                              /\ n \in 1..N => G[<<n, s>>] = IF Whole(n) THEN Append(s, entry(n))
                                                                     ELSE s
  <2> TAKE n \in Nat, s \in S
  <2>1. G[<<n, s>>] = IF n \in 1..N /\ Whole(n) THEN Append(s, entry(n)) ELSE s
    OBVIOUS
  <2>2. n \in 1..N => Append(s, entry(n)) \in S
    BY <1>2, AppendProperties
  <2> HIDE DEF G, entry
  <2> QED
    BY <2>1, <2>2
<1>4. StaysIn(S, G) /\ <<>> \in S
  BY <1>3, EmptySeq DEF StaysIn
<1> HIDE DEF G, S, N, entry
<1>5. PICK f \in [0..N -> S] : Follows(f, N, <<>>, G)
  BY <1>2, <1>4, Recursion
<1>6. \A n \in 1..N : f[n] = IF Whole(n) THEN Append(f[n - 1], entry(n)) ELSE f[n - 1]
  <2> TAKE n \in 1..N
  <2>1. n \in Nat /\ n - 1 \in 0..N
    BY <1>2
  <2>2. f[n - 1] \in S /\ f[n] = G[<<n, f[n - 1]>>]
    BY <1>5, <2>1 DEF Follows
  <2> QED
    BY <1>3, <2>1, <2>2
<1>7. IsSaved(f)
  <2>1. f[0] = <<>> /\ \A n \in 0..N : n = 0 \/ n \in 1..N
    BY <1>2, <1>5 DEF Follows
  <2>2. \A n \in 0..N : f[n] = IF n = 0 THEN <<>>
                                ELSE IF Whole(n) THEN Append(f[n - 1], entry(n)) ELSE f[n - 1]
    BY <1>6, <2>1
  <2> QED
    BY <1>5, <2>2
<1>8. IsSaved(saved)
  <2> HIDE DEF IsSaved
  <2> QED
    BY <1>7
<1>9. saved[0] = <<>> /\ \A n \in 1..N :
        saved[n] = IF Whole(n) THEN Append(saved[n - 1], entry(n)) ELSE saved[n - 1]
  <2>1. 0 \in 0..N /\ \A n \in 1..N : n \in 0..N /\ n # 0
    BY <1>2
  <2> HIDE DEF saved
  <2> QED
    BY <1>8, <2>1
<1> HIDE DEF saved, IsSaved
<1> DEFINE T == {n \in Nat : n <= N => saved[n] \in S}
<1>10. 0 \in T
  BY <1>4, <1>9
<1>11. ASSUME NEW n \in Nat, n \in T PROVE n + 1 \in T
  <2>1. SUFFICES ASSUME n + 1 <= N PROVE saved[n + 1] \in S
    OBVIOUS
  <2>2. saved[n] \in S /\ n + 1 \in 1..N /\ (n + 1) - 1 = n
    BY <1>2, <1>11, <2>1
  <2>3. saved[n + 1] = IF Whole(n + 1) THEN Append(saved[n], entry(n + 1)) ELSE saved[n]
    BY <1>9, <2>2
  <2>4. Append(saved[n], entry(n + 1)) \in S
    BY <1>2, <2>2, AppendProperties DEF S
  <2> QED
    BY <2>2, <2>3, <2>4
<1> HIDE DEF T
<1>12. \A n \in Nat : n \in T
  BY <1>10, <1>11, SetInduction
<1> QED
  BY <1>1, <1>2, <1>12 DEF T, S

(***************************************************************************)
(* The hook files.                                                         *)
(***************************************************************************)
LEMMA SameHooks ==
  ASSUME HooksInv, UNCHANGED hooks, filename' \in Hooks
  PROVE  HooksInv'
BY DEF HooksInv

LEMMA WrittenHooks ==
  ASSUME HooksInv, NEW file, NEW offset, WriteBytes(file, offset), UNCHANGED filename
  PROVE  HooksInv' /\ astray' \in BOOLEAN
BY DEF HooksInv, WriteBytes

LEMMA NextHooks ==
  ASSUME TypeInv, JitNext
  PROVE  HooksInv'
<1>1. HooksInv /\ filename \in Hooks
  BY DEF TypeInv, HooksInv
<1>2. CASE Layers
  BY <1>1, <1>2, SameHooks DEF Layers, ChooseJit, Enter, EnterRefused, Return, Ret, Up
<1>3. CASE Files
  BY <1>1, <1>3, SameHooks DEF Files, OpenFails, WriteFails, Open, HeaderLine, HeaderDone,
     CommandGarbled, Comp, CompileLine, Compiled
<1>4. CASE Undefined
  BY <1>1, <1>4, SameHooks DEF Undefined
<1>5. CASE CompCommand \/ Wall \/ WallDone \/ Clear \/ Undo
           \/ (\E f \in Hooks : Load(f) \/ WallFile(f) \/ SetFile(f))
           \/ (\E offset \in Offsets, arch \in {0, 1} : Org(offset, arch))
           \/ (\E s \in Instrs : Type(s))
  <2>1. UNCHANGED hooks /\ filename' \in Hooks
    BY <1>1, <1>5 DEF CompCommand, Wall, WallDone, Clear, Undo, Load, WallFile, SetFile, Org, Type
  <2> QED
    BY <1>1, <2>1, SameHooks
<1>6. CASE WallWrite \/ Write
  BY <1>1, <1>6, WrittenHooks DEF WallWrite, Write
<1>7. CASE Save
  <2> DEFINE Saved(v) == [offs |-> baseOffset, of |-> IF loaded = NoBytes THEN baseOffset ELSE loaded,
                          bytes |-> TRUE, arch |-> v, instrs |-> SavedText]
  <2>1. UNCHANGED filename /\ \E v \in IF archArg.kind = "none" THEN {0} ELSE Values :
                                hooks' = [hooks EXCEPT ![filename] = Saved(v)]
    BY <1>7 DEF Save
  <2>2. PICK v \in IF archArg.kind = "none" THEN {0} ELSE Values :
          hooks' = [hooks EXCEPT ![filename] = Saved(v)]
    BY <2>1
  <2>3. v \in {0, 1}
    BY <2>2 DEF TypeInv, GlobalsInv, Values
  <2>4. Saved(v) \in Hook
    <3>1. SavedText \in Seq(Instrs)
      BY SavedInstrs DEF TypeInv
    <3>2. baseOffset \in Offsets /\ (loaded # NoBytes => loaded \in Offsets)
      BY DEF TypeInv, GlobalsInv
    <3> QED
      BY <2>3, <3>1, <3>2 DEF Hook
  <2> HIDE DEF Saved
  <2>5. \A f \in Hooks : hooks'[f] = hooks[f] \/ hooks'[f] = Saved(v)
    BY <1>1, <2>2 DEF HooksInv
  <2> QED
    BY <1>1, <2>1, <2>2, <2>4, <2>5 DEF HooksInv
<1> QED
  BY <1>2, <1>3, <1>4, <1>5, <1>6, <1>7 DEF JitNext, Commands

(***************************************************************************)
(* The globals.                                                            *)
(***************************************************************************)
LEMMA Pointers ==
  /\ None \in Pointer /\ None.value \in {0, 1}
  /\ Literal \in Pointer /\ Literal.value \in {0, 1}
  /\ \A b \in Blocks, v \in Offsets \union {0, 1} :
       Into(b, v) \in Pointer /\ Into(b, v).value = v
  /\ \A d \in 0..MaxFrames, v \in {0, 1} : Input(d, v) \in Pointer /\ Input(d, v).value = v
  /\ \A p \in Pointer : Left(p) \in Pointer /\ (p.value \in {0, 1} => Left(p).value \in {0, 1})
<1>1. 0 \in 0..MaxFrames
  BY JitAssumption
<1>2. None \in Pointer /\ None.value = 0
  BY <1>1 DEF None, Pointer
<1>3. Literal \in Pointer /\ Literal.value = 1
  BY <1>1 DEF None, Literal, Pointer
<1>4. \A b \in Blocks, v \in Offsets \union {0, 1} :
        Into(b, v) \in Pointer /\ Into(b, v).value = v
  BY <1>1 DEF Into, Pointer
<1>5. \A d \in 0..MaxFrames, v \in {0, 1} : Input(d, v) \in Pointer /\ Input(d, v).value = v
  BY DEF Input, Pointer
<1>6. [None EXCEPT !.kind = "gone"] \in Pointer /\ [None EXCEPT !.kind = "gone"].value = 0
  BY <1>1 DEF None, Pointer
<1>7. \A p \in Pointer : Left(p) \in Pointer /\ (p.value \in {0, 1} => Left(p).value \in {0, 1})
  BY <1>6 DEF Left
<1> QED
  BY <1>2, <1>3, <1>4, <1>5, <1>7

LEMMA ResetGlobalsInv ==
  ASSUME GlobalsInv, ResetGlobals, block' \in Blocks \union {NoBlock}, moved' \in BOOLEAN,
         layer' \in Nat, Next' \in BOOLEAN, UNCHANGED <<skipped, astray>>, commands' \in Nat
  PROVE  GlobalsInv'
BY Pointers, JitAssumption DEF GlobalsInv, ResetGlobals

LEMMA LayersGlobals ==
  ASSUME TypeInv, Layers
  PROVE  GlobalsInv'
<1>1. GlobalsInv
  BY DEF TypeInv
<1>2. CASE ChooseJit \/ Return
  BY <1>1, <1>2 DEF ChooseJit, Return, memory, globals, history, GlobalsInv
<1>3. CASE EnterRefused
  BY <1>1, <1>3 DEF EnterRefused, memory, globals, GlobalsInv
<1>4. CASE Enter
  <2>1. block' \in Blocks \union {NoBlock}
    BY <1>1, <1>4, FreshIsNew DEF Enter, TypeInv, GlobalsInv
  <2>2. /\ archArg' \in {None, Literal, archArg} /\ offsArg' \in {None, offsArg}
        /\ UNCHANGED <<layer, Next, moved, loaded, baseOffset, history>>
    BY <1>4 DEF Enter
  <2> QED
    BY <1>1, <2>1, <2>2, Pointers DEF GlobalsInv, history
<1>5. CASE Ret
  <2>1. /\ Next' = TRUE /\ archArg' = Left(archArg)
        /\ UNCHANGED <<layer, block, moved, offsArg, loaded, baseOffset, history>>
    BY <1>5 DEF Ret, memory
  <2> QED
    BY <1>1, <2>1, Pointers DEF GlobalsInv, history
<1>6. CASE Up
  <2>1. CASE block # NoBlock /\ layer = 1
    <3>1. /\ ResetGlobals /\ block' = NoBlock /\ moved' = FALSE /\ Next' = FALSE /\ layer' = 0
          /\ UNCHANGED history
      BY <1>6, <2>1 DEF Up
    <3> QED
      BY <1>1, <3>1, ResetGlobalsInv DEF history, GlobalsInv
  <2>2. CASE ~(block # NoBlock /\ layer = 1)
    <3>1. /\ layer' = IF layer = 0 THEN 0 ELSE layer - 1
          /\ archArg' = Left(archArg)
          /\ UNCHANGED <<Next, block, moved, offsArg, loaded, baseOffset, history>>
      BY <1>6, <2>2 DEF Up, memory
    <3> QED
      BY <1>1, <3>1, Pointers DEF GlobalsInv, history
  <2> QED
    BY <2>1, <2>2
<1> QED
  BY <1>2, <1>3, <1>4, <1>5, <1>6 DEF Layers

LEMMA JobHook ==
  ASSUME TypeInv, jpc = "header", hooks[job.file] # Torn
  PROVE  hooks[job.file] \in Hook /\ hooks[job.file].offs \in Offsets
         /\ hooks[job.file].of \in Offsets /\ hooks[job.file].arch \in {0, 1}
BY DEF TypeInv, JobInv, HooksInv, Hook

(* The line that is compiled is an instruction of the hook. *)
LEMMA CompiledText ==
  ASSUME TypeInv, CompileLine
  PROVE  LET s == hooks[job.file].instrs[job.line] IN
         /\ s \in Instrs /\ block # NoBlock /\ used + s.len <= MaxUsed /\ Store(s)
         /\ top.code + s.size <= MaxBytes
         /\ stack' = OnTop([top EXCEPT !.code = @ + s.size])
<1>1. hooks[job.file].instrs \in Seq(Instrs) /\ job.line \in Nat \ {0}
  BY DEF CompileLine, TypeInv, JobInv, Compiling, Hook, Job
<1>2. job.line \in 1..Len(hooks[job.file].instrs)
  BY <1>1, LenProperties DEF CompileLine
<1>3. hooks[job.file].instrs[job.line] \in Instrs
  BY <1>1, <1>2, ElementOfSeq
<1> QED
  BY <1>3 DEF CompileLine

LEMMA FilesGlobals ==
  ASSUME TypeInv, Files
  PROVE  GlobalsInv'
<1>1. GlobalsInv /\ MemoryInv
  BY DEF TypeInv
<1>2. CASE OpenFails \/ WriteFails \/ Open \/ Comp \/ Compiled
  BY <1>1, <1>2 DEF OpenFails, WriteFails, Command, Open, Comp, Compiled, memory, globals, history,
     GlobalsInv
<1>3. CASE CommandGarbled
  BY <1>1, <1>3 DEF CommandGarbled, memory, globals, GlobalsInv
<1>4. CASE HeaderLine
  <2> DEFINE h == hooks[job.file]
  <2>1. /\ jpc = "header" /\ h # Torn /\ block # NoBlock /\ MarkMem(HeaderLen)
        /\ used + HeaderLen <= MaxUsed
        /\ offsArg' = IF job.line = 2 THEN Into(block', h.offs) ELSE offsArg
        /\ archArg' = IF job.line = 3 THEN Into(block', h.arch) ELSE archArg
        /\ UNCHANGED <<layer, Next, loaded, baseOffset, history>>
    BY <1>4 DEF HeaderLine
  <2>2. block' \in Blocks /\ moved' \in BOOLEAN
    BY <1>1, <2>1, MarkedMemory, JitAssumption
  <2>3. h.offs \in Offsets /\ h.arch \in {0, 1}
    BY <2>1, JobHook
  <2> HIDE DEF h
  <2> QED
    BY <1>1, <2>1, <2>2, <2>3, Pointers DEF GlobalsInv, history
<1>5. CASE HeaderDone
  <2> DEFINE h == hooks[job.file]
  <2>1. /\ jpc = "header" /\ job.line > 3 /\ job \in Job
        /\ baseOffset' = h.offs /\ loaded' \in {h.of, NoBytes}
        /\ layer' = layer \/ layer' = layer + 1
        /\ UNCHANGED <<Next, block, moved, archArg, offsArg, history>>
    BY <1>5 DEF HeaderDone, memory, TypeInv, JobInv
  <2>2. job.line > 1
    BY <2>1 DEF Job
  <2>3. h.offs \in Offsets /\ h.of \in Offsets
    BY <2>1, <2>2, JobHook DEF TypeInv, JobInv
  <2> HIDE DEF h
  <2> QED
    BY <1>1, <2>1, <2>3 DEF GlobalsInv, history
<1>6. CASE CompileLine
  <2>1. /\ jpc = "compile" /\ block # NoBlock
        /\ UNCHANGED <<layer, Next, archArg, offsArg, loaded, baseOffset, history>>
        /\ \E s \in Instrs : used + s.len <= MaxUsed /\ Store(s)
    BY <1>6, CompiledText DEF CompileLine
  <2>2. block' \in Blocks /\ moved' \in BOOLEAN
    BY <1>1, <2>1, StoredTexts
  <2> QED
    BY <1>1, <2>1, <2>2 DEF GlobalsInv, history
<1> QED
  BY <1>2, <1>3, <1>4, <1>5, <1>6 DEF Files

LEMMA CommandsGlobals ==
  ASSUME TypeInv, Commands
  PROVE  GlobalsInv'
<1>1. GlobalsInv /\ MemoryInv
  BY DEF TypeInv
<1>2. CASE Wall \/ WallDone \/ Undo \/ Save \/ \E f \in Hooks : SetFile(f)
  <2>1. UNCHANGED <<layer, Next, memory, archArg, offsArg, loaded, baseOffset, skipped, astray>>
        /\ commands' \in {commands, commands + 1}
    BY <1>2 DEF Wall, WallDone, Undo, Save, SetFile, Command, control, globals
  <2> QED
    BY <1>1, <2>1 DEF memory, GlobalsInv
<1>3. CASE CompCommand \/ \E f \in Hooks : Load(f) \/ WallFile(f)
  <2>1. /\ ResetGlobals /\ moved' = FALSE
        /\ UNCHANGED <<layer, Next, block, skipped, astray>>
        /\ commands' \in {commands, commands + 1}
    BY <1>3 DEF CompCommand, Load, WallFile, Command
  <2>2. /\ block' \in Blocks \union {NoBlock} /\ moved' \in BOOLEAN /\ layer' \in Nat
        /\ Next' \in BOOLEAN /\ commands' \in Nat /\ UNCHANGED <<skipped, astray>>
    <3>1. commands' \in Nat
      BY <1>1, <2>1 DEF GlobalsInv
    <3> QED
      BY <1>1, <2>1, <3>1 DEF GlobalsInv
  <2> QED
    BY <1>1, <2>1, <2>2, ResetGlobalsInv
<1>4. CASE WallWrite \/ Write
  <2>1. /\ \E file, offset : WriteBytes(file, offset)
        /\ UNCHANGED <<filename, layer, Next, memory, archArg, offsArg, loaded, baseOffset, skipped>>
        /\ commands' \in {commands, commands + 1}
    BY <1>4 DEF WallWrite, Write, Command, control, globals
  <2>2. astray' \in BOOLEAN
    BY <2>1, WrittenHooks DEF TypeInv
  <2> QED
    BY <1>1, <2>1, <2>2 DEF memory, GlobalsInv
<1>5. CASE \E offset \in Offsets, arch \in {0, 1} : Org(offset, arch)
  <2>1. PICK offset \in Offsets, arch \in {0, 1} : Org(offset, arch)
    BY <1>5
  <2>2. /\ baseOffset' = offset /\ archArg' = Input(Len(stack), arch)
        /\ commands' = commands + 1
        /\ UNCHANGED <<layer, Next, memory, offsArg, loaded, skipped, astray>>
    BY <2>1 DEF Org, Command
  <2>3. Len(stack) \in 0..MaxFrames
    BY StackFacts, JitAssumption DEF TypeInv, StackInv
  <2> QED
    BY <1>1, <2>2, <2>3, Pointers DEF memory, GlobalsInv
<1>6. CASE Clear
  <2>1. /\ loaded' = NoBytes /\ commands' \in {commands, commands + 1}
        /\ UNCHANGED <<layer, Next, memory, archArg, offsArg, baseOffset, skipped, astray>>
    BY <1>6 DEF Clear, Command
  <2> QED
    BY <1>1, <2>1 DEF memory, GlobalsInv
<1>7. CASE \E s \in Instrs : Type(s)
  <2>1. PICK s \in Instrs : Type(s)
    BY <1>7
  <2>2. /\ block # NoBlock /\ used + s.len <= MaxUsed /\ Store(s)
        /\ commands' = commands + 1
        /\ UNCHANGED <<layer, Next, archArg, offsArg, loaded, baseOffset, skipped, astray>>
    BY <2>1 DEF Type, Command
  <2>3. block' \in Blocks /\ moved' \in BOOLEAN
    BY <1>1, <2>2, StoredTexts
  <2> QED
    BY <1>1, <2>2, <2>3 DEF GlobalsInv
<1> QED
  BY <1>2, <1>3, <1>4, <1>5, <1>6, <1>7 DEF Commands

(***************************************************************************)
(* The memory.                                                             *)
(***************************************************************************)
LEMMA NextMemory ==
  ASSUME TypeInv, JitNext
  PROVE  MemoryInv'
<1>1. MemoryInv /\ GlobalsInv
  BY DEF TypeInv
<1>2. CASE ChooseJit \/ Enter \/ EnterRefused \/ Return \/ Ret
  BY <1>1, <1>2, FewerTexts DEF ChooseJit, Enter, EnterRefused, Return, Ret, memory, globals
<1>3. CASE Up
  <2>1. \/ UNCHANGED <<used, encoded>>
        \/ used' = 0 /\ encoded' = <<>>
    BY <1>3 DEF Up, memory, ResetGlobals
  <2>2. CASE used' = 0 /\ encoded' = <<>>
    BY <2>2, EmptySeq, JitAssumption DEF MemoryInv
  <2> QED
    BY <1>1, <2>1, <2>2, FewerTexts
<1>4. CASE OpenFails \/ WriteFails \/ Open \/ HeaderDone \/ CommandGarbled \/ Comp \/ Compiled
  BY <1>1, <1>4, FewerTexts DEF OpenFails, WriteFails, Open, HeaderDone, CommandGarbled, Comp, Compiled,
     memory, globals
<1>5. CASE HeaderLine
  <2>1. used' \in Nat /\ used' <= MaxUsed /\ used' = used + HeaderLen /\ UNCHANGED encoded
    BY <1>1, <1>5, MarkedMemory, JitAssumption DEF HeaderLine
  <2>2. Len(encoded) \in Nat /\ Len(encoded') <= used'
    BY <1>1, <2>1, LenProperties, JitAssumption DEF MemoryInv
  <2> QED
    BY <1>1, <2>1, <2>2 DEF MemoryInv, IsInstr
<1>6. CASE CompileLine
  BY <1>1, <1>6, CompiledText, StoredTexts
<1>7. CASE CompCommand \/ Wall \/ WallDone \/ WallWrite \/ Write \/ Clear \/ Undo \/ Save
           \/ (\E f \in Hooks : Load(f) \/ WallFile(f) \/ SetFile(f))
           \/ (\E offset \in Offsets, arch \in {0, 1} : Org(offset, arch))
  <2>1. UNCHANGED used /\ \/ encoded' \in {<<>>, encoded}
                          \/ encoded # <<>> /\ encoded' = Front(encoded)
    BY <1>7 DEF CompCommand, Wall, WallDone, WallWrite, Write, Clear, Undo, Save, Load, WallFile,
       SetFile, Org, ResetGlobals, memory, globals
  <2> QED
    BY <1>1, <2>1, FewerTexts
<1>8. CASE \E s \in Instrs : Type(s)
  BY <1>1, <1>8, StoredTexts DEF Type
<1>9. CASE Undefined
  BY <1>1, <1>9, FewerTexts DEF Undefined, memory, globals
<1> QED
  BY <1>2, <1>3, <1>4, <1>5, <1>6, <1>7, <1>8, <1>9 DEF JitNext, Layers, Files, Commands

(***************************************************************************)
(* The calls.                                                              *)
(***************************************************************************)
LEMMA TypeFacts ==
  ASSUME TypeInv
  PROVE  /\ StackInv /\ CallInv
         /\ stack # <<>> => top \in Frame
         /\ jpc \notin {"menu", "enter", "back", "undefined"} => stack # <<>>
BY StackFacts DEF TypeInv, CallInv

(* A step that leaves the calls alone.                                     *)
LEMMA SameCalls ==
  ASSUME TypeInv, UNCHANGED <<stack, call>>,
         \/ jpc' = jpc
         \/ /\ jpc' \in {"undefined", "open", "header", "compile", "command", "wall", "write"}
            /\ jpc \notin {"menu", "enter", "back", "undefined"} \/ jpc' = "undefined"
            /\ top.command = "none" \/ jpc' = "command" \/ stack = <<>>
  PROVE  StackInv' /\ CallInv'
<1>1. /\ StackInv'
      /\ call' \in Frame /\ stack' = stack /\ top' = top
  BY DEF TypeInv, StackInv, CallInv, top
<1> QED
  BY <1>1 DEF TypeInv, CallInv

(* A step that changes the last call.                                      *)
LEMMA TopCalls ==
  ASSUME TypeInv, stack # <<>>, NEW x \in Frame, x.back = top.back, stack' = OnTop(x),
         call' \in Frame, jpc' \in {"open", "header", "compile", "command", "wall", "write"},
         jpc' = "command" \/ x.command = "none"
  PROVE  StackInv' /\ CallInv'
<1>1. StackInv' /\ stack' # <<>> /\ top' = x
  BY TopStack DEF TypeInv
<1> QED
  BY <1>1 DEF CallInv

LEMMA PopCalls ==
  ASSUME TypeInv, stack # <<>>, stack' = Below, call' = top, jpc' = "back"
  PROVE  StackInv' /\ CallInv'
<1>1. /\ StackInv' /\ top \in Frame
      /\ top.back = "main" \/ stack' # <<>>
      /\ stack' # <<>> => top'.command = "none"
  BY PopStack DEF TypeInv
<1> QED
  BY <1>1 DEF CallInv

LEMMA LayersCalls ==
  ASSUME TypeInv, Layers
  PROVE  StackInv' /\ CallInv'
<1>1. /\ StackInv /\ CallInv /\ (stack # <<>> => top \in Frame)
      /\ jpc \notin {"menu", "enter", "back", "undefined"} => stack # <<>>
  BY TypeFacts
<1>2. CASE ChooseJit
  <2>1. /\ jpc = "menu" /\ jpc' = "enter" /\ stack' = stack
        /\ call' = Call(Target, "main", "none")
    BY <1>2 DEF ChooseJit, Go
  <2>2. call' \in Frame /\ call'.back = "main"
    BY <2>1, Calls
  <2> QED
    BY <1>1, <2>1, <2>2 DEF StackInv, CallInv, top
<1>3. CASE Enter
  <2>1. /\ jpc = "enter" /\ jpc' = "command" /\ Len(stack) < MaxFrames
        /\ stack' = Append(stack, [call EXCEPT !.own = (encoded = <<>>)])
        /\ call' = NoCall
    BY <1>3 DEF Enter, Go
  <2> DEFINE x == [call EXCEPT !.own = (encoded = <<>>)]
  <2>2. x \in Frame /\ x.back = call.back
    BY <1>1 DEF CallInv, Frame
  <2>3. call' \in Frame
    BY <2>1, Calls DEF NoCall
  <2>4. stack = <<>> => x.back = "main"
    BY <1>1, <2>1, <2>2 DEF CallInv
  <2>5. stack # <<>> => top.command = "none"
    BY <1>1, <2>1 DEF CallInv
  <2> HIDE DEF x
  <2>6. StackInv' /\ stack' # <<>>
    BY <1>1, <2>1, <2>2, <2>4, <2>5, PushStack DEF x
  <2> QED
    BY <2>1, <2>3, <2>6 DEF CallInv
<1>4. CASE EnterRefused
  <2>1. jpc = "enter" /\ jpc' = "back" /\ UNCHANGED <<stack, call>>
    BY <1>4 DEF EnterRefused, Go
  <2> QED
    BY <1>1, <2>1 DEF StackInv, CallInv, top
<1>5. CASE Return
  <2>1. jpc = "back"
    BY <1>5 DEF Return, Returned, Go
  <2>2. CASE call.back = "comp"
    <3>1. /\ jpc' = "command" /\ call' = NoCall
          /\ stack' = OnTop([top EXCEPT !.own = FALSE])
      BY <1>5, <2>2 DEF Return, Returned, Go
    <3>2. stack # <<>> /\ top \in Frame
      BY <1>1, <2>1, <2>2 DEF CallInv
    <3>3. /\ [top EXCEPT !.own = FALSE] \in Frame
          /\ [top EXCEPT !.own = FALSE].back = top.back
      BY <3>2 DEF Frame
    <3>4. NoCall \in Frame
      BY Calls DEF NoCall
    <3> QED
      BY <3>1, <3>2, <3>3, <3>4, TopCalls
  <2>3. CASE call.back # "comp"
    <3>1. /\ stack' = stack /\ jpc' \in {"menu", "enter", "write", "up"}
          /\ call' \in {NoCall, Call(top.patch, "loaded", "none")}
          /\ jpc' = "enter" => call.back = "load" /\ call' = Call(top.patch, "loaded", "none")
          /\ jpc' # "enter" => call' = NoCall
          /\ jpc' # "menu" => call.back # "main"
      BY <1>5, <2>3 DEF Return, Returned, Go
    <3>2. jpc' # "menu" => stack # <<>>
      BY <1>1, <2>1, <3>1 DEF CallInv
    <3>3. call' \in Frame
      <4>1. NoCall \in Frame
        BY Calls DEF NoCall
      <4>2. stack # <<>> => top.patch \in Hooks \union {Target}
        BY <1>1 DEF Frame
      <4> QED
        BY <3>1, <3>2, <4>1, <4>2, Calls
    <3>4. stack # <<>> => top.command = "none"
      BY <1>1, <2>1 DEF CallInv
    <3> QED
      BY <1>1, <3>1, <3>2, <3>3, <3>4 DEF StackInv, CallInv, top
  <2> QED
    BY <2>2, <2>3
<1>6. CASE Ret \/ Up
  <2>1. /\ jpc \in {"command", "up"} /\ jpc' = "back" /\ call' = top /\ stack' = Below
    BY <1>6 DEF Ret, Up, Go
  <2> QED
    BY <1>1, <2>1, PopCalls
<1> QED
  BY <1>2, <1>3, <1>4, <1>5, <1>6 DEF Layers

LEMMA FilesCalls ==
  ASSUME TypeInv, Files
  PROVE  StackInv' /\ CallInv'
<1>1. /\ StackInv /\ CallInv /\ JobInv /\ HooksInv /\ (stack # <<>> => top \in Frame)
      /\ jpc \notin {"menu", "enter", "back", "undefined"} => stack # <<>>
  BY TypeFacts DEF TypeInv
<1>2. CASE OpenFails \/ WriteFails
  <2>1. stack' = <<>> /\ jpc' = "menu" /\ UNCHANGED call
    BY <1>2 DEF OpenFails, WriteFails, Command, Go
  <2>2. StackInv'
    <3>1. stack' \in Seq(Frame) /\ Len(stack') = 0 /\ 1..(0 - 1) = {}
      BY <2>1, EmptySeq
    <3> QED
      BY <2>1, <3>1, JitAssumption DEF StackInv
  <2> QED
    BY <1>1, <2>1, <2>2 DEF CallInv
<1>3. CASE Open \/ HeaderLine \/ Compiled
  <2>1. /\ UNCHANGED <<stack, call>>
        /\ \/ jpc' = jpc
           \/ jpc = "open" /\ jpc' = "header"
           \/ jpc = "compile" /\ jpc' = "command"
    BY <1>3 DEF Open, HeaderLine, Compiled, Go
  <2>2. jpc = "open" => top.command = "none"
    BY <1>1 DEF CallInv
  <2> QED
    BY <2>1, <2>2, SameCalls
<1>4. CASE HeaderDone
  <2>1. /\ jpc = "header" /\ stack' = stack /\ job \in Job
        /\ \/ jpc' = "back" /\ call' = Call(Target, job.after, "none")
           \/ jpc' = "enter" /\ call' = Call(filename, job.after, ".comp")
    BY <1>1, <1>4 DEF HeaderDone, JobInv
  <2>2. job.after \in {"comp", "load", "wall"} /\ filename \in Hooks
    BY <1>1, <2>1 DEF Job, HooksInv
  <2>3. call' \in Frame
    BY <2>1, <2>2, Calls
  <2>4. stack # <<>> /\ top.command = "none"
    BY <1>1, <2>1 DEF CallInv
  <2> QED
    BY <1>1, <2>1, <2>3, <2>4 DEF StackInv, CallInv, top
<1>5. CASE CommandGarbled \/ Comp
  <2>1. /\ jpc = "command" /\ jpc' \in {"command", "compile"} /\ UNCHANGED call
        /\ stack' = OnTop(Done)
    BY <1>5 DEF CommandGarbled, Comp, Commanded, Go
  <2>2. Done \in Frame /\ Done.back = top.back /\ Done.command = "none"
    BY <1>1, <2>1 DEF Done, Frame
  <2> QED
    BY <1>1, <2>1, <2>2, TopCalls DEF CallInv
<1>6. CASE CompileLine
  <2>1. PICK s \in Instrs : /\ top.code + s.size <= MaxBytes
                            /\ stack' = OnTop([top EXCEPT !.code = @ + s.size])
    BY <1>6, CompiledText
  <2>2. jpc = "compile" /\ jpc' = "compile" /\ UNCHANGED call
    BY <1>6 DEF CompileLine
  <2>3. s.size \in Nat /\ top \in Frame /\ top.command = "none"
    BY <1>1, <2>2, JitAssumption DEF CallInv
  <2> DEFINE x == [top EXCEPT !.code = @ + s.size]
  <2>4. top.code + s.size \in 0..MaxBytes
    BY <2>1, <2>3, JitAssumption DEF Frame
  <2>5. x \in Frame /\ x.back = top.back /\ x.command = "none"
    BY <2>3, <2>4 DEF Frame
  <2> HIDE DEF x
  <2> QED
    BY <1>1, <2>1, <2>2, <2>5, TopCalls DEF CallInv, x
<1> QED
  BY <1>2, <1>3, <1>4, <1>5, <1>6 DEF Files

LEMMA ShorterCode ==
  ASSUME NEW f \in Frame, NEW n \in Shorter(f)
  PROVE  n \in 0..MaxBytes
BY JitAssumption DEF Shorter, Frame

LEMMA CommandsCalls ==
  ASSUME TypeInv, Commands
  PROVE  StackInv' /\ CallInv'
<1>1. /\ StackInv /\ CallInv /\ (stack # <<>> => top \in Frame)
      /\ jpc \notin {"menu", "enter", "back", "undefined"} => stack # <<>>
  BY TypeFacts
<1>2. CASE CompCommand \/ WallDone \/ WallWrite \/ Write \/ Save
           \/ (\E f \in Hooks : Load(f) \/ SetFile(f))
  <2>1. /\ UNCHANGED <<stack, call>> /\ jpc' \in {"open", "command", "wall"}
        /\ jpc \in {"command", "wall", "write"}
        /\ top.command = "none" \/ jpc # "command"
    BY <1>2 DEF CompCommand, WallDone, WallWrite, Write, Save, Load, SetFile, Command, Go, control
  <2>2. top.command = "none"
    BY <1>1, <2>1 DEF CallInv
  <2> QED
    BY <2>1, <2>2, SameCalls
<1>3. CASE Wall
  <2>1. /\ jpc = "command" /\ jpc' = "wall" /\ top.command = "none" /\ UNCHANGED call
        /\ stack' = OnTop([top EXCEPT !.rest = {f \in Hooks : hooks[f] # NoHook}])
    BY <1>3 DEF Wall, Command, Go
  <2> DEFINE x == [top EXCEPT !.rest = {f \in Hooks : hooks[f] # NoHook}]
  <2>2. x \in Frame /\ x.back = top.back /\ x.command = "none"
    BY <1>1, <2>1 DEF Frame
  <2> HIDE DEF x
  <2> QED
    BY <1>1, <2>1, <2>2, TopCalls DEF CallInv, x
<1>4. CASE \E f \in Hooks : WallFile(f)
  <2>1. PICK f \in Hooks : WallFile(f)
    BY <1>4
  <2>2. /\ jpc = "wall" /\ jpc' = "open" /\ UNCHANGED call
        /\ stack' = OnTop([top EXCEPT !.rest = @ \ {f}, !.own = FALSE])
    BY <2>1 DEF WallFile, Go
  <2> DEFINE x == [top EXCEPT !.rest = @ \ {f}, !.own = FALSE]
  <2>3. top.command = "none" /\ top \in Frame
    BY <1>1, <2>2 DEF CallInv
  <2>4. x \in Frame /\ x.back = top.back /\ x.command = "none"
    BY <2>3 DEF Frame
  <2> HIDE DEF x
  <2> QED
    BY <1>1, <2>2, <2>4, TopCalls DEF CallInv, x
<1>5. CASE \E offset \in Offsets, arch \in {0, 1} : Org(offset, arch)
  <2>1. /\ jpc = "command" /\ jpc' = "enter" /\ top.command = "none" /\ stack' = stack
        /\ call' = Call(top.patch, "org", ".clear")
    BY <1>5 DEF Org, Command, Go
  <2>2. stack # <<>> /\ top.patch \in Hooks \union {Target}
    BY <1>1, <2>1 DEF Frame
  <2>3. call' \in Frame
    BY <2>1, <2>2, Calls
  <2> QED
    BY <1>1, <2>1, <2>2, <2>3 DEF StackInv, CallInv, top
<1>6. CASE Clear
  <2>1. /\ jpc = "command" /\ jpc' = "command" /\ UNCHANGED call
        /\ stack' = OnTop([Done EXCEPT !.code = 0, !.own = TRUE, !.undone = FALSE])
    BY <1>6 DEF Clear, Commanded, Command, Go
  <2> DEFINE x == [Done EXCEPT !.code = 0, !.own = TRUE, !.undone = FALSE]
  <2>2. Done \in Frame /\ Done.back = top.back
    BY <1>1, <2>1 DEF Done, Frame
  <2>3. 0 \in 0..MaxBytes
    BY JitAssumption
  <2>4. x \in Frame /\ x.back = top.back
    BY <2>2, <2>3 DEF Frame
  <2> HIDE DEF x
  <2> QED
    BY <1>1, <2>1, <2>4, TopCalls DEF CallInv, x
<1>7. CASE \E s \in Instrs : Type(s)
  <2>1. PICK s \in Instrs : Type(s)
    BY <1>7
  <2>2. /\ jpc = "command" /\ jpc' = "command" /\ UNCHANGED call
        /\ top.code + s.size <= MaxBytes
        /\ stack' = OnTop([top EXCEPT !.code = @ + s.size, !.step = s.size, !.undone = FALSE])
    BY <2>1 DEF Type, Command, Go
  <2>3. s.size \in Nat /\ top \in Frame
    BY <1>1, <2>2, JitAssumption
  <2> DEFINE x == [top EXCEPT !.code = @ + s.size, !.step = s.size, !.undone = FALSE]
  <2>4. top.code + s.size \in 0..MaxBytes
    BY <2>2, <2>3, JitAssumption DEF Frame
  <2>5. x \in Frame /\ x.back = top.back
    BY <2>3, <2>4 DEF Frame
  <2> HIDE DEF x
  <2> QED
    BY <1>1, <2>2, <2>5, TopCalls DEF CallInv, x
<1>8. CASE Undo
  <2>1. PICK n \in Shorter(top) :
          stack' = OnTop([top EXCEPT !.code = n, !.own = @ /\ ~top.undone /\ top.step # NoStep,
                                     !.undone = TRUE])
    BY <1>8 DEF Undo
  <2>2. jpc = "command" /\ jpc' = "command" /\ UNCHANGED call
    BY <1>8 DEF Undo, Command, Go
  <2> DEFINE x == [top EXCEPT !.code = n, !.own = @ /\ ~top.undone /\ top.step # NoStep,
                              !.undone = TRUE]
  <2>3. top \in Frame /\ n \in 0..MaxBytes
    BY <1>1, <2>2, ShorterCode
  <2>4. x \in Frame /\ x.back = top.back
    BY <2>3 DEF Frame
  <2> HIDE DEF x
  <2> QED
    BY <1>1, <2>1, <2>2, <2>4, TopCalls DEF CallInv, x
<1> QED
  BY <1>2, <1>3, <1>4, <1>5, <1>6, <1>7, <1>8 DEF Commands

(***************************************************************************)
(* The hook that is being read.                                            *)
(***************************************************************************)
LEMMA QuietJob ==
  ASSUME TypeInv, job' \in {job, NoJob}, jpc' \notin {"open", "header", "compile"},
         jpc' = "enter" => call'.command # ".comp",
         jpc' = "command" => top'.command # ".comp"
  PROVE  JobInv'
<1>1. NoJob \in Job
  BY DEF NoJob, Job
<1> QED
  BY <1>1 DEF TypeInv, JobInv, Compiling

LEMMA InterpretedJob ==
  ASSUME NEW f \in Hooks, NEW cmp \in BOOLEAN, NEW after \in {"comp", "load", "wall"},
         Interpret(f, cmp, after), jpc' = "open"
  PROVE  JobInv'
<1>1. job' \in Job /\ job'.file = f /\ job'.line = 1
  BY DEF Interpret, Job
<1> QED
  BY <1>1 DEF JobInv, Compiling

LEMMA LayersJob ==
  ASSUME TypeInv, Layers
  PROVE  JobInv'
<1>1. StackInv /\ CallInv /\ JobInv /\ (stack # <<>> => top \in Frame)
  BY TypeFacts DEF TypeInv
<1>2. CASE Enter
  <2>1. /\ jpc = "enter" /\ jpc' = "command" /\ Len(stack) < MaxFrames
        /\ stack' = Append(stack, [call EXCEPT !.own = (encoded = <<>>)])
        /\ UNCHANGED <<job, hooks>>
    BY <1>2 DEF Enter, Go
  <2>2. top'.command = call.command
    <3>1. top' = [call EXCEPT !.own = (encoded = <<>>)]
      BY <1>1, <2>1, StackSeqs DEF top, StackInv
    <3> QED
      BY <1>1, <3>1 DEF CallInv, Frame
  <2> QED
    BY <1>1, <2>1, <2>2 DEF JobInv, Compiling
<1>3. CASE ChooseJit
  <2>1. jpc' = "enter" /\ UNCHANGED job /\ call' = Call(Target, "main", "none")
    BY <1>3 DEF ChooseJit, Go
  <2> QED
    BY <2>1, QuietJob, CallFields
<1>4. CASE EnterRefused \/ Ret \/ Up
  <2>1. jpc' = "back" /\ UNCHANGED job
    BY <1>4 DEF EnterRefused, Ret, Up, Go
  <2> QED
    BY <2>1, QuietJob
<1>5. CASE Return
  <2>1. /\ jpc = "back" /\ UNCHANGED job /\ jpc' \in {"menu", "command", "enter", "write", "up"}
        /\ jpc' = "enter" => call' = Call(top.patch, "loaded", "none")
        /\ jpc' = "command" => call.back = "comp" /\ stack' = OnTop([top EXCEPT !.own = FALSE])
    BY <1>5 DEF Return, Returned, Go
  <2>2. jpc' = "command" => top'.command # ".comp"
    <3>1. SUFFICES ASSUME jpc' = "command" PROVE top'.command # ".comp"
      OBVIOUS
    <3>2. stack # <<>> /\ top.command = "none" /\ top \in Frame
      BY <1>1, <2>1, <3>1 DEF CallInv
    <3>3. top' = [top EXCEPT !.own = FALSE]
      BY <1>1, <2>1, <3>1, StackSeqs, BelowFacts, <3>2, TopStack DEF Frame
    <3> QED
      BY <3>2, <3>3 DEF Frame
  <2> QED
    BY <2>1, <2>2, QuietJob, CallFields
<1> QED
  BY <1>2, <1>3, <1>4, <1>5 DEF Layers

LEMMA FilesJob ==
  ASSUME TypeInv, Files
  PROVE  JobInv'
<1>1. /\ StackInv /\ CallInv /\ JobInv /\ HooksInv /\ GlobalsInv /\ MemoryInv
      /\ stack # <<>> => top \in Frame
      /\ jpc \notin {"menu", "enter", "back", "undefined"} => stack # <<>>
  BY TypeFacts DEF TypeInv
<1>2. job \in Job /\ job.line \in Nat
  BY <1>1 DEF JobInv, Job
<1>3. CASE OpenFails \/ WriteFails
  BY <1>3, QuietJob DEF OpenFails, WriteFails, Command, Go
<1>4. CASE Open
  <2>1. jpc = "open" /\ jpc' = "header" /\ UNCHANGED <<hooks, job>> /\ hooks[job.file] # NoHook
    BY <1>4 DEF Open, Go
  <2> QED
    BY <1>1, <2>1 DEF JobInv, Compiling
<1>5. CASE HeaderLine
  <2>1. /\ jpc = "header" /\ jpc' = "header" /\ UNCHANGED hooks /\ hooks[job.file] # Torn
        /\ job' = [job EXCEPT !.line = @ + 1, !.base = IF job.line = 1 THEN block' ELSE @]
        /\ block # NoBlock /\ used + HeaderLen <= MaxUsed /\ MarkMem(HeaderLen)
    BY <1>5 DEF HeaderLine
  <2>2. block' \in Blocks
    BY <1>1, <2>1, MarkedMemory, JitAssumption
  <2>3. job.line + 1 \in Nat \ {0}
    BY <1>2
  <2>4. (IF job.line = 1 THEN block' ELSE job.base) \in Blocks \union {NoBlock}
    BY <1>2, <2>2 DEF Job
  <2>5. job' \in Job /\ job'.file = job.file
    BY <1>2, <2>1, <2>3, <2>4 DEF Job
  <2>6. job'.line > 1 /\ job.file \in Hooks /\ hooks[job.file] # NoHook
    BY <1>1, <1>2, <2>1, <2>3, <2>5 DEF JobInv, Job
  <2> QED
    BY <2>1, <2>5, <2>6 DEF JobInv, Compiling
<1>6. CASE HeaderDone
  <2>1. /\ jpc = "header" /\ jpc' \in {"back", "enter"} /\ UNCHANGED hooks /\ job.line > 3
        /\ job' = [job EXCEPT !.base = NoBlock, !.line = 1]
    BY <1>6 DEF HeaderDone
  <2>2. job' \in Job /\ job'.file = job.file
    <3>1. NoBlock \in Blocks \union {NoBlock} /\ 1 \in Nat \ {0}
      OBVIOUS
    <3>2. job \in Job /\ job' = [job EXCEPT !.base = NoBlock, !.line = 1]
      BY <1>2, <2>1
    <3> QED
      BY <3>1, <3>2 DEF Job
  <2>3. job.file \in Hooks /\ hooks[job.file] \in Hook
    <3>1. job.line > 1
      BY <1>2, <2>1
    <3> QED
      BY <1>1, <2>1, <3>1 DEF JobInv, HooksInv
  <2> QED
    BY <2>1, <2>2, <2>3 DEF JobInv
<1>7. CASE CommandGarbled \/ Comp
  <2>1. /\ jpc = "command" /\ stack' = OnTop(Done)
        /\ \/ jpc' = "command" /\ job' = NoJob
           \/ jpc' = "compile" /\ top.command = ".comp" /\ UNCHANGED <<hooks, job>>
    BY <1>7 DEF CommandGarbled, Comp, Commanded, Go
  <2>2. Done \in Frame /\ Done.back = top.back /\ Done.command = "none"
    BY <1>1, <2>1 DEF Done, Frame
  <2>3. top' = Done
    BY <1>1, <2>1, <2>2, TopStack
  <2>4. CASE jpc' = "command"
    BY <2>1, <2>2, <2>3, <2>4, QuietJob
  <2>5. CASE jpc' = "compile"
    BY <1>1, <2>1, <2>5 DEF JobInv, Compiling
  <2> QED
    BY <2>1, <2>4, <2>5
<1>8. CASE CompileLine
  <2>1. jpc = "compile" /\ jpc' = "compile" /\ UNCHANGED hooks
        /\ job' = [job EXCEPT !.line = @ + 1]
    BY <1>8 DEF CompileLine
  <2>2. job' \in Job /\ job'.file = job.file
    BY <1>2, <2>1 DEF Job
  <2> QED
    BY <1>1, <2>1, <2>2 DEF JobInv, Compiling
<1>9. CASE Compiled
  <2>1. jpc = "compile" /\ jpc' = "command" /\ job' = NoJob /\ UNCHANGED stack
    BY <1>9 DEF Compiled, Go
  <2>2. top'.command = "none"
    BY <1>1, <2>1 DEF CallInv, top
  <2> QED
    BY <2>1, <2>2, QuietJob
<1> QED
  BY <1>3, <1>4, <1>5, <1>6, <1>7, <1>8, <1>9 DEF Files

LEMMA CommandsJob ==
  ASSUME TypeInv, Commands
  PROVE  JobInv'
<1>1. /\ StackInv /\ CallInv /\ JobInv /\ HooksInv
      /\ stack # <<>> => top \in Frame
      /\ jpc \notin {"menu", "enter", "back", "undefined"} => stack # <<>>
  BY TypeFacts DEF TypeInv
<1>2. CASE CompCommand \/ \E f \in Hooks : Load(f) \/ WallFile(f)
  <2>1. jpc' = "open" /\ \E f \in Hooks, cmp \in BOOLEAN, after \in {"comp", "load", "wall"} :
                           Interpret(f, cmp, after)
    <3>1. filename \in Hooks
      BY <1>1 DEF HooksInv
    <3> QED
      BY <1>2, <3>1 DEF CompCommand, Load, WallFile, Command, Go
  <2> QED
    BY <2>1, InterpretedJob
<1>3. CASE Wall
  BY <1>3, QuietJob DEF Wall, Command, Go
<1>4. CASE WallDone \/ WallWrite \/ Write \/ Save \/ \E f \in Hooks : SetFile(f)
  <2>1. /\ UNCHANGED stack /\ job' \in {job, NoJob} /\ jpc' \in {"command", "wall"}
        /\ jpc = "command" => top.command = "none"
        /\ jpc \in {"command", "wall", "write"}
    BY <1>4 DEF WallDone, WallWrite, Write, Save, SetFile, Command, Go, control
  <2>2. top'.command = "none"
    BY <1>1, <2>1 DEF CallInv, top
  <2> QED
    BY <2>1, <2>2, QuietJob
<1>5. CASE \E offset \in Offsets, arch \in {0, 1} : Org(offset, arch)
  <2>1. jpc' = "enter" /\ UNCHANGED job /\ call' = Call(top.patch, "org", ".clear")
    BY <1>5 DEF Org, Command, Go
  <2> QED
    BY <2>1, QuietJob, CallFields
<1>6. CASE Clear \/ Undo \/ \E s \in Instrs : Type(s)
  <2>1. /\ jpc = "command" /\ jpc' = "command" /\ UNCHANGED job /\ stack # <<>>
        /\ top \in Frame
    BY <1>1, <1>6 DEF Clear, Undo, Type, Commanded, Command, Go
  <2>2. PICK x : stack' = OnTop(x) /\ x.command = "none"
    <3>1. CASE Clear
      <4> DEFINE x == [Done EXCEPT !.code = 0, !.own = TRUE, !.undone = FALSE]
      <4>1. stack' = OnTop(x)
        BY <3>1 DEF Clear
      <4>2. x.command = "none"
        BY <2>1 DEF Done, Frame
      <4> QED
        BY <4>1, <4>2
    <3>2. CASE Undo
      <4>1. top.command = "none"
        BY <3>2 DEF Undo, Command
      <4>2. PICK n \in Shorter(top) :
              stack' = OnTop([top EXCEPT !.code = n,
                                         !.own = @ /\ ~top.undone /\ top.step # NoStep,
                                         !.undone = TRUE])
        BY <3>2 DEF Undo
      <4> DEFINE x == [top EXCEPT !.code = n, !.own = @ /\ ~top.undone /\ top.step # NoStep,
                                  !.undone = TRUE]
      <4>3. x.command = "none"
        BY <2>1, <4>1 DEF Frame
      <4> QED
        BY <4>2, <4>3
    <3>3. CASE \E s \in Instrs : Type(s)
      <4>1. top.command = "none"
        BY <3>3 DEF Type, Command
      <4>2. PICK s \in Instrs :
              stack' = OnTop([top EXCEPT !.code = @ + s.size, !.step = s.size, !.undone = FALSE])
        BY <3>3 DEF Type
      <4> DEFINE x == [top EXCEPT !.code = @ + s.size, !.step = s.size, !.undone = FALSE]
      <4>3. x.command = "none"
        BY <2>1, <4>1 DEF Frame
      <4> QED
        BY <4>2, <4>3
    <3> QED
      BY <1>6, <3>1, <3>2, <3>3
  <2>3. top' = x
    <3>1. Below \in Seq(Frame) /\ Len(Below) \in Nat
      BY <1>1, <2>1, BelowFacts, LenProperties
    <3>2. Below \in Seq(Frame \union {x})
      BY <3>1, WiderSeq
    <3> QED
      BY <2>2, <3>1, <3>2, AppendProperties DEF top, OnTop
  <2> QED
    BY <2>1, <2>2, <2>3, QuietJob
<1> QED
  BY <1>2, <1>3, <1>4, <1>5, <1>6 DEF Commands

LEMMA InitTypes == JitInit => TypeInv
<1> SUFFICES ASSUME JitInit PROVE TypeInv
  OBVIOUS
<1>1. HooksInv
  <2>1. DOMAIN hooks = Hooks /\ filename \in Hooks
    BY JitAssumption DEF JitInit
  <2>2. ASSUME NEW f \in Hooks, hooks[f] # NoHook PROVE hooks[f] \in Hook
    <3>1. \A s \in Instrs : <<s>> \in Seq(Instrs)
      OBVIOUS
    <3> QED
      BY <2>2, <3>1 DEF JitInit, Hook
  <2> QED
    BY <2>1, <2>2 DEF HooksInv
<1>2. StackInv
  <2>1. stack \in Seq(Frame) /\ Len(stack) = 0 /\ 1..(0 - 1) = {} /\ stack = <<>>
    BY EmptySeq DEF JitInit
  <2> QED
    BY <2>1, JitAssumption DEF StackInv
<1>3. CallInv /\ JobInv
  <2>1. call = Call(Target, "main", "none") /\ jpc = "menu" /\ job = NoJob /\ stack = <<>>
    BY DEF JitInit, NoCall
  <2>2. call \in Frame
    BY <2>1, Calls
  <2>3. job \in Job
    BY <2>1 DEF NoJob, Job
  <2> QED
    BY <2>1, <2>2, <2>3 DEF CallInv, JobInv, Compiling
<1>4. GlobalsInv
  BY Pointers, JitAssumption DEF JitInit, GlobalsInv
<1>5. MemoryInv
  <2>1. encoded \in Seq(Text) /\ Len(encoded) = 0 /\ DOMAIN encoded = {} /\ used = 0
    BY EmptySeq DEF JitInit
  <2> QED
    BY <2>1, JitAssumption DEF MemoryInv
<1> QED
  BY <1>1, <1>2, <1>3, <1>4, <1>5 DEF TypeInv

LEMMA NextTypes == TypeInv /\ [JitNext]_vars => TypeInv'
<1> SUFFICES ASSUME TypeInv, [JitNext]_vars PROVE TypeInv'
  OBVIOUS
<1>1. CASE UNCHANGED vars
  BY <1>1 DEF vars, control, memory, globals, history, TypeInv, HooksInv, StackInv, CallInv,
     GlobalsInv, MemoryInv, JobInv, Compiling, IsInstr, top
<1>2. CASE Undefined
  <2>1. StackInv' /\ CallInv'
    <3>1. jpc' = "undefined" /\ UNCHANGED <<stack, call>>
      BY <1>2 DEF Undefined
    <3>2. top.command = "none" \/ stack = <<>>
      <4>1. jpc = "command" => top.command = "none"
        BY <1>2 DEF Undefined, BadUse
      <4> QED
        BY <4>1 DEF TypeInv, CallInv
    <3> QED
      BY <3>1, <3>2, SameCalls
  <2>2. JobInv'
    BY <1>2, QuietJob DEF Undefined
  <2>3. GlobalsInv'
    BY <1>2 DEF Undefined, memory, globals, history, TypeInv, GlobalsInv
  <2> QED
    BY <1>2, <2>1, <2>2, <2>3, NextHooks, NextMemory DEF JitNext, TypeInv
<1>3. CASE Layers
  BY <1>3, LayersCalls, LayersGlobals, LayersJob, NextHooks, NextMemory DEF JitNext, TypeInv
<1>4. CASE Files
  BY <1>4, FilesCalls, FilesGlobals, FilesJob, NextHooks, NextMemory DEF JitNext, TypeInv
<1>5. CASE Commands
  BY <1>5, CommandsCalls, CommandsGlobals, CommandsJob, NextHooks, NextMemory DEF JitNext, TypeInv
<1> QED
  BY <1>1, <1>2, <1>3, <1>4, <1>5 DEF JitNext

LEMMA AlwaysTyped == JitSpec => []TypeInv
BY InitTypes, NextTypes, PTL DEF JitSpec

(***************************************************************************)
(* The texts.  The terminator of a text goes behind the offset divided by  *)
(* the size of a pointer, which is no more than twice as far as that.      *)
(***************************************************************************)
LEMMA KeptWhole ==
  ASSUME MemoryInv, MemoryInv', TextsAreWhole, used' >= used, Len(encoded') <= Len(encoded),
         \A k \in 1..Len(encoded') : k \in 1..Len(encoded) /\ encoded'[k] = encoded[k]
  PROVE  TextsAreWhole'
<1>1. DOMAIN encoded = 1..Len(encoded) /\ DOMAIN encoded' = 1..Len(encoded')
  BY LenProperties DEF MemoryInv
<1>2. used \in Nat /\ used' \in Nat
  BY DEF MemoryInv
<1>3. SUFFICES ASSUME NEW n \in DOMAIN encoded', 2 * used' < encoded'[n].from
               PROVE  encoded'[n].left = encoded'[n].len
  BY DEF TextsAreWhole
<1>4. n \in DOMAIN encoded /\ encoded'[n] = encoded[n] /\ encoded[n] \in Text
  BY <1>1, <1>3, ElementOfSeq DEF MemoryInv
<1>5. encoded[n].from \in Nat
  BY <1>4 DEF Text
<1>6. 2 * used < encoded[n].from
  BY <1>2, <1>3, <1>4, <1>5
<1> QED
  BY <1>4, <1>6 DEF TextsAreWhole

LEMMA StoredWhole ==
  ASSUME MemoryInv, GlobalsInv, TextsAreWhole, block # NoBlock, NEW s \in Instrs,
         used + s.len <= MaxUsed, Store(s)
  PROVE  TextsAreWhole'
<1>1. /\ MemoryInv' /\ used' = used + s.len
      /\ Len(encoded') = Len(encoded) + 1
      /\ \A k \in 1..Len(encoded) : encoded'[k] = Cut(encoded[k], used' + s.len)
      /\ encoded'[Len(encoded) + 1].left = s.len /\ encoded'[Len(encoded) + 1].len = s.len
  <2>1. encoded'[Len(encoded) + 1] = [block |-> block', from |-> PtrSize * used', len |-> s.len,
                                      left |-> s.len, size |-> s.size]
    BY StoredTexts
  <2>2. encoded'[Len(encoded) + 1].left = s.len /\ encoded'[Len(encoded) + 1].len = s.len
    BY <2>1
  <2> QED
    BY <2>2, StoredTexts
<1>2. s.len \in Nat /\ used \in Nat /\ used' \in Nat /\ used' + s.len \in Nat
  BY <1>1, JitAssumption DEF MemoryInv
<1>3. /\ DOMAIN encoded = 1..Len(encoded) /\ DOMAIN encoded' = 1..(Len(encoded) + 1)
      /\ Len(encoded) \in Nat
  BY <1>1, LenProperties DEF MemoryInv
<1>4. SUFFICES ASSUME NEW n \in DOMAIN encoded', 2 * used' < encoded'[n].from
               PROVE  encoded'[n].left = encoded'[n].len
  BY DEF TextsAreWhole
<1>5. n = Len(encoded) + 1 \/ n \in DOMAIN encoded
  BY <1>3
<1>6. CASE n \in DOMAIN encoded
  <2> DEFINE e == encoded[n]
  <2>1. e \in Text
    BY <1>3, <1>6, ElementOfSeq DEF MemoryInv
  <2>2. e.from \in Nat
    BY <2>1 DEF Text
  <2>3. /\ encoded'[n].from = e.from /\ encoded'[n].len = e.len
        /\ encoded'[n].left = e.left \/ e.from <= used' + s.len
    <3>1. encoded'[n] = Cut(e, used' + s.len)
      BY <1>1, <1>3, <1>6
    <3> HIDE DEF e
    <3> QED
      BY <1>2, <2>1, <3>1, CutIsText
  <2> HIDE DEF e
  <2>4. 2 * used < e.from /\ ~(e.from <= used' + s.len)
    <3>1. \A a, l, f \in Nat : 2 * (a + l) < f => 2 * a < f /\ ~(f <= (a + l) + l)
      OBVIOUS
    <3>2. 2 * (used + s.len) < e.from
      BY <1>1, <1>4, <2>3
    <3>3. used' = used + s.len
      BY <1>1
    <3> QED
      BY <1>2, <2>2, <3>1, <3>2, <3>3
  <2>5. e.left = e.len
    BY <1>6, <2>4 DEF TextsAreWhole, e
  <2> QED
    BY <2>3, <2>4, <2>5
<1> QED
  BY <1>1, <1>5, <1>6

LEMMA NextWhole == TypeInv /\ TextsAreWhole /\ [JitNext]_vars => TextsAreWhole'
<1> SUFFICES ASSUME TypeInv, TextsAreWhole, [JitNext]_vars PROVE TextsAreWhole'
  OBVIOUS
<1>1. MemoryInv /\ GlobalsInv
  BY DEF TypeInv
<1>2. used \in Nat /\ Len(encoded) \in Nat
  BY <1>1, LenProperties DEF MemoryInv
<1>3. CASE UNCHANGED <<used, encoded>>
  BY <1>3 DEF TextsAreWhole
<1>4. CASE Up
  <2>1. UNCHANGED <<used, encoded>> \/ encoded' = <<>>
    BY <1>4 DEF Up, memory, ResetGlobals
  <2>2. CASE encoded' = <<>>
    <3>1. DOMAIN encoded' = {}
      BY <2>2
    <3> QED
      BY <3>1 DEF TextsAreWhole
  <2> QED
    BY <1>3, <2>1, <2>2
<1>5. CASE HeaderLine
  <2>1. used' = used + HeaderLen /\ UNCHANGED encoded
    BY <1>5 DEF HeaderLine, MarkMem
  <2>2. used' >= used
    BY <1>2, <2>1, JitAssumption
  <2>3. MemoryInv'
    BY <1>5, NextMemory DEF JitNext, Files
  <2> QED
    BY <1>1, <1>2, <2>1, <2>2, <2>3, KeptWhole
<1>6. CASE CompileLine
  BY <1>1, <1>6, CompiledText, StoredWhole
<1>7. CASE \E s \in Instrs : Type(s)
  BY <1>1, <1>7, StoredWhole DEF Type
<1>8. CASE CompCommand \/ Clear \/ Undo \/ \E f \in Hooks : Load(f) \/ WallFile(f)
  <2>1. UNCHANGED used /\ \/ encoded' \in {<<>>, encoded}
                          \/ encoded # <<>> /\ encoded' = Front(encoded)
    BY <1>8 DEF CompCommand, Clear, Undo, Load, WallFile, ResetGlobals, memory
  <2>2. /\ MemoryInv' /\ Len(encoded') <= Len(encoded)
        /\ \A k \in 1..Len(encoded') : k \in 1..Len(encoded) /\ encoded'[k] = encoded[k]
    BY <1>1, <2>1, FewerTexts
  <2> QED
    BY <1>1, <1>2, <2>1, <2>2, KeptWhole
<1>9. CASE \/ ChooseJit \/ Enter \/ EnterRefused \/ Return \/ Ret
           \/ OpenFails \/ WriteFails \/ Open \/ HeaderDone \/ CommandGarbled \/ Comp \/ Compiled
           \/ Wall \/ WallDone \/ WallWrite \/ Write \/ Save \/ (\E f \in Hooks : SetFile(f))
           \/ (\E offset \in Offsets, arch \in {0, 1} : Org(offset, arch))
           \/ Undefined \/ UNCHANGED vars
  <2>1. UNCHANGED <<used, encoded>>
    BY <1>9 DEF ChooseJit, Enter, EnterRefused, Return, Ret, OpenFails, WriteFails, Open, HeaderDone,
       CommandGarbled, Comp, Compiled, Wall, WallDone, WallWrite, Write, Save, SetFile, Org,
       Undefined, vars, memory, globals
  <2> QED
    BY <1>3, <2>1
<1> QED
  BY <1>4, <1>5, <1>6, <1>7, <1>8, <1>9 DEF JitNext, Layers, Files, Commands

(***************************************************************************)
(* The fourth invariant: the bytes of a layer that owns the texts are      *)
(* theirs.  A layer that .wall reads files for owns them no longer, nor    *)
(* does the one under a call for a file of .wall; a layer that compiles,   *)
(* or has yet to do its first command, has had no instruction typed, and   *)
(* the one typed last is that of the last text.                            *)
(***************************************************************************)
WallBelow == \A k \in 2..Len(stack) : stack[k].back = "wall" => ~stack[k - 1].own

WallInv ==
  /\ WallBelow
  /\ jpc \in {"open", "header"} /\ job.after = "wall" => ~top.own
  /\ jpc \in {"enter", "back"} /\ call.back = "wall" => ~top.own
  /\ jpc = "write" => ~top.own

StepInv ==
  /\ jpc = "compile" => top.step = NoStep
  /\ jpc = "command" /\ top.command # "none" => top.step = NoStep
  /\ jpc = "enter" => call.step = NoStep /\ call.code = 0
  /\ jpc \in {"command", "wall"} /\ top.own /\ ~top.undone /\ top.step # NoStep
       /\ encoded # <<>> => top.step = encoded[Len(encoded)].size

OwnInv == jpc \in {"command", "compile", "wall"} /\ top.own => top.code = Sum(encoded)

SumInv == WallInv /\ StepInv /\ OwnInv

(* The bytes of the texts, from the first one on. *)
LEMMA SumUnfolds ==
  ASSUME NEW e \in Seq(Text)
  PROVE  \E f \in [0..Len(e) -> Nat] :
           Sum(e) = f[Len(e)] /\ f[0] = 0 /\ \A n \in 1..Len(e) : f[n] = f[n - 1] + e[n].size
<1> DEFINE N == Len(e)
           IsSum(f) == f = [n \in 0..N |-> IF n = 0 THEN 0 ELSE f[n - 1] + e[n].size]
           sum == CHOOSE f : IsSum(f)
           G   == [x \in Nat \X Nat |-> IF x[1] \in 1..N THEN x[2] + e[x[1]].size ELSE x[2]]
<1>1. Sum(e) = sum[N]
  BY DEF Sum
<1>2. N \in Nat /\ \A n \in 1..N : e[n].size \in Nat
  <2>1. N \in Nat /\ \A n \in 1..N : e[n] \in Text
    BY LenProperties, ElementOfSeq
  <2> QED
    BY <2>1 DEF Text
<1>3. \A n \in Nat, s \in Nat : /\ G[<<n, s>>] \in Nat
                                /\ n \in 1..N => G[<<n, s>>] = s + e[n].size
  BY <1>2
<1>4. StaysIn(Nat, G)
  BY <1>3 DEF StaysIn
<1> HIDE DEF G, N
<1>5. PICK f \in [0..N -> Nat] : Follows(f, N, 0, G)
  BY <1>2, <1>4, Recursion
<1>6. \A n \in 1..N : n \in Nat /\ n # 0 /\ n \in 0..N /\ n - 1 \in 0..N
  BY <1>2
<1>7. \A n \in 1..N : f[n] = f[n - 1] + e[n].size
  BY <1>3, <1>5, <1>6 DEF Follows
<1>8. f[0] = 0 /\ N \in 0..N /\ 0 \in 0..N /\ \A n \in 0..N : n = 0 \/ n \in 1..N
  BY <1>2, <1>5 DEF Follows
<1>9. IsSum(f)
  <2>1. \A n \in 0..N : f[n] = IF n = 0 THEN 0 ELSE f[n - 1] + e[n].size
    BY <1>7, <1>8
  <2> QED
    BY <2>1
<1>10. IsSum(sum)
  <2> HIDE DEF IsSum
  <2> QED
    BY <1>9
<1>11. sum[0] = 0 /\ \A n \in 1..N : sum[n] = sum[n - 1] + e[n].size
  <2> HIDE DEF sum
  <2> QED
    BY <1>6, <1>8, <1>10
<1>12. DOMAIN sum = 0..N /\ sum = [n \in 0..N |-> sum[n]]
  <2> HIDE DEF sum
  <2> QED
    BY <1>10
<1> HIDE DEF sum, IsSum
<1> DEFINE T == {n \in Nat : n <= N => sum[n] \in Nat}
<1>13. 0 \in T
  BY <1>11
<1>14. ASSUME NEW n \in Nat, n \in T PROVE n + 1 \in T
  <2>1. SUFFICES ASSUME n + 1 <= N PROVE sum[n + 1] \in Nat
    OBVIOUS
  <2>2. sum[n] \in Nat /\ n + 1 \in 1..N /\ (n + 1) - 1 = n
    BY <1>2, <1>14, <2>1
  <2>3. sum[n + 1] = sum[n] + e[n + 1].size /\ e[n + 1].size \in Nat
    BY <1>2, <1>11, <2>2
  <2> QED
    BY <2>2, <2>3
<1> HIDE DEF T
<1>15. \A n \in Nat : n \in T
  BY <1>13, <1>14, SetInduction
<1>16. \A n \in 0..N : sum[n] \in Nat
  <2>1. \A n \in 0..N : n \in Nat /\ n <= N
    BY <1>2
  <2> QED
    BY <1>15, <2>1 DEF T
<1>17. sum \in [0..N -> Nat]
  BY <1>12, <1>16
<1> QED
  BY <1>1, <1>11, <1>17 DEF N

LEMMA SumOfNone == Sum(<<>>) = 0
<1>1. <<>> \in Seq(Text) /\ Len(<<>>) = 0
  BY EmptySeq
<1> QED
  BY <1>1, SumUnfolds

LEMMA SumOfMore ==
  ASSUME NEW e \in Seq(Text), NEW d \in Seq(Text), Len(d) = Len(e) + 1,
         \A k \in 1..Len(e) : d[k].size = e[k].size
  PROVE  Sum(e) \in Nat /\ Sum(d) = Sum(e) + d[Len(d)].size
<1> DEFINE N == Len(e)
<1>1. N \in Nat /\ Len(d) = N + 1
  BY LenProperties
<1>2. PICK f \in [0..N -> Nat] :
        Sum(e) = f[N] /\ f[0] = 0 /\ \A n \in 1..N : f[n] = f[n - 1] + e[n].size
  BY SumUnfolds
<1>3. PICK g \in [0..(N + 1) -> Nat] :
        /\ Sum(d) = g[N + 1] /\ g[0] = 0
        /\ \A n \in 1..(N + 1) : g[n] = g[n - 1] + d[n].size
  <2>1. \E g \in [0..Len(d) -> Nat] :
          /\ Sum(d) = g[Len(d)] /\ g[0] = 0
          /\ \A n \in 1..Len(d) : g[n] = g[n - 1] + d[n].size
    BY SumUnfolds
  <2>2. Len(d) = N + 1
    BY <1>1
  <2> HIDE DEF N
  <2> QED
    BY <2>1, <2>2
<1>4. \A k \in 1..N : d[k].size = e[k].size
  OBVIOUS
<1> HIDE DEF N
<1> DEFINE T == {n \in Nat : n <= N => f[n] = g[n]}
<1>5. 0 \in T
  BY <1>2, <1>3
<1>6. ASSUME NEW n \in Nat, n \in T PROVE n + 1 \in T
  <2>1. SUFFICES ASSUME n + 1 <= N PROVE f[n + 1] = g[n + 1]
    OBVIOUS
  <2>2. n <= N /\ n + 1 \in 1..N /\ n + 1 \in 1..(N + 1) /\ (n + 1) - 1 = n
    BY <1>1, <2>1
  <2>3. f[n] = g[n]
    BY <1>6, <2>2
  <2>4. f[n + 1] = f[n] + e[n + 1].size
    BY <1>2, <2>2
  <2>5. g[n + 1] = g[n] + d[n + 1].size
    BY <1>3, <2>2
  <2> QED
    BY <1>4, <2>2, <2>3, <2>4, <2>5
<1> HIDE DEF T
<1>7. N \in T
  BY <1>1, <1>5, <1>6, SetInduction
<1>8. f[N] = g[N] /\ f[N] \in Nat
  <2>1. N <= N /\ N \in 0..N
    BY <1>1
  <2> QED
    BY <1>2, <1>7, <2>1 DEF T
<1>9. g[N + 1] = g[N] + d[N + 1].size
  <2>1. N + 1 \in 1..(N + 1) /\ (N + 1) - 1 = N
    BY <1>1
  <2> QED
    BY <1>3, <2>1
<1> QED
  BY <1>1, <1>2, <1>3, <1>8, <1>9

LEMMA InitSum == JitInit => SumInv
<1> SUFFICES ASSUME JitInit PROVE SumInv
  OBVIOUS
<1>1. jpc = "menu" /\ 2..Len(stack) = {}
  BY EmptySeq DEF JitInit
<1> QED
  BY <1>1 DEF SumInv, WallInv, WallBelow, StepInv, OwnInv

(* Calls that come and go. *)
LEMMA WallTop ==
  ASSUME StackInv, WallBelow, stack # <<>>, NEW x \in Frame, x.back = top.back,
         stack' = OnTop(x)
  PROVE  WallBelow'
<1>1. /\ Len(stack') = Len(stack) /\ top' = x /\ Len(stack) \in Nat
      /\ \A k \in 1..(Len(stack) - 1) : stack'[k] = stack[k]
  BY TopStack, StackFacts
<1>2. SUFFICES ASSUME NEW k \in 2..Len(stack), stack'[k].back = "wall"
               PROVE  ~stack'[k - 1].own
  BY <1>1 DEF WallBelow
<1>3. k - 1 \in 1..(Len(stack) - 1) /\ (k = Len(stack) \/ k \in 1..(Len(stack) - 1))
  BY <1>1
<1>4. stack'[k].back = stack[k].back
  BY <1>1, <1>3 DEF top
<1> QED
  BY <1>1, <1>2, <1>3, <1>4 DEF WallBelow

LEMMA WallPush ==
  ASSUME StackInv, WallBelow, NEW x \in Frame, Len(stack) < MaxFrames,
         stack # <<>> => top.command = "none", stack = <<>> => x.back = "main",
         stack # <<>> /\ x.back = "wall" => ~top.own,
         stack' = Append(stack, x)
  PROVE  WallBelow'
<1>1. /\ Len(stack') = Len(stack) + 1 /\ top' = x /\ Len(stack) \in Nat
      /\ \A k \in 1..Len(stack) : stack'[k] = stack[k]
      /\ stack # <<>> <=> Len(stack) >= 1
  BY PushStack, StackFacts
<1>2. SUFFICES ASSUME NEW k \in 2..(Len(stack) + 1), stack'[k].back = "wall"
               PROVE  ~stack'[k - 1].own
  BY <1>1 DEF WallBelow
<1>3. k - 1 \in 1..Len(stack) /\ stack # <<>> /\ (k = Len(stack) + 1 \/ k \in 1..Len(stack))
  BY <1>1
<1>4. CASE k = Len(stack) + 1
  <2>1. stack'[k] = x /\ stack'[k - 1] = top
    <3>1. k - 1 = Len(stack)
      BY <1>1, <1>4
    <3> QED
      BY <1>1, <1>3, <1>4, <3>1 DEF top
  <2> QED
    BY <1>2, <1>3, <2>1
<1>5. CASE k \in 1..Len(stack)
  <2>1. stack'[k] = stack[k] /\ stack'[k - 1] = stack[k - 1] /\ k \in 2..Len(stack)
    BY <1>1, <1>3, <1>5
  <2> QED
    BY <1>2, <2>1 DEF WallBelow
<1> QED
  BY <1>3, <1>4, <1>5

LEMMA WallPop ==
  ASSUME StackInv, WallBelow, stack # <<>>, stack' = Below
  PROVE  WallBelow' /\ (top.back = "wall" => ~top'.own)
<1>1. /\ Len(stack') = Len(stack) - 1 /\ Len(stack) \in Nat
      /\ \A k \in 1..Len(stack') : stack'[k] = stack[k]
      /\ top.back = "main" \/ stack' # <<>>
      /\ stack' # <<>> => /\ top' = stack[Len(stack) - 1]
                          /\ Len(stack) - 1 \in 1..(Len(stack) - 1)
  BY PopStack, StackFacts
<1>2. ASSUME NEW k \in 2..Len(stack'), stack'[k].back = "wall"
      PROVE  ~stack'[k - 1].own
  <2>1. k \in 2..Len(stack) /\ k \in 1..Len(stack') /\ k - 1 \in 1..Len(stack')
    BY <1>1
  <2> QED
    BY <1>1, <1>2, <2>1 DEF WallBelow
<1>3. ASSUME top.back = "wall" PROVE ~top'.own
  <2>1. top' = stack[Len(stack) - 1] /\ Len(stack) \in 2..Len(stack)
    BY <1>1, <1>3
  <2> QED
    BY <1>3, <2>1 DEF WallBelow, top
<1> QED
  BY <1>2, <1>3 DEF WallBelow

LEMMA LayersSum ==
  ASSUME TypeInv, SumInv, Layers
  PROVE  SumInv'
<1>1. /\ StackInv /\ CallInv /\ (stack # <<>> => top \in Frame)
      /\ jpc \notin {"menu", "enter", "back", "undefined"} => stack # <<>>
      /\ WallInv /\ WallBelow
  BY TypeFacts DEF SumInv, WallInv
<1>2. CASE ChooseJit
  <2>1. jpc' = "enter" /\ UNCHANGED stack /\ call' = Call(Target, "main", "none")
    BY <1>2 DEF ChooseJit, Go
  <2>2. call'.back = "main" /\ call'.step = NoStep /\ call'.code = 0
    BY <2>1, Calls
  <2> QED
    BY <1>1, <2>1, <2>2 DEF SumInv, WallInv, WallBelow, StepInv, OwnInv
<1>3. CASE Enter
  <2> DEFINE x == [call EXCEPT !.own = (encoded = <<>>)]
  <2>1. /\ jpc = "enter" /\ jpc' = "command" /\ Len(stack) < MaxFrames
        /\ stack' = Append(stack, x) /\ UNCHANGED encoded
    BY <1>3 DEF Enter, Go
  <2>2. /\ x \in Frame /\ x.back = call.back /\ x.step = call.step /\ x.code = call.code
        /\ x.own <=> encoded = <<>>
    BY <1>1 DEF CallInv, Frame
  <2>3. /\ stack = <<>> => x.back = "main"
        /\ stack # <<>> => top.command = "none"
        /\ stack # <<>> /\ x.back = "wall" => ~top.own
        /\ x.step = NoStep /\ x.code = 0
    BY <1>1, <2>1, <2>2 DEF CallInv, WallInv, SumInv, StepInv
  <2> HIDE DEF x
  <2>4. WallBelow' /\ top' = x
    BY <1>1, <2>1, <2>2, <2>3, WallPush, PushStack
  <2>5. top'.own => top'.code = Sum(encoded')
    BY <2>1, <2>2, <2>3, <2>4, SumOfNone
  <2>6. WallInv' /\ StepInv'
    BY <2>1, <2>3, <2>4 DEF WallInv, StepInv
  <2> QED
    BY <2>5, <2>6 DEF SumInv, OwnInv
<1>4. CASE EnterRefused
  <2>1. jpc = "enter" /\ jpc' = "back" /\ UNCHANGED <<stack, call>>
    BY <1>4 DEF EnterRefused, Go
  <2> QED
    BY <1>1, <2>1 DEF SumInv, WallInv, WallBelow, StepInv, OwnInv, top
<1>5. CASE Return
  <2>1. jpc = "back"
    BY <1>5 DEF Return, Returned, Go
  <2>2. CASE call.back = "comp"
    <3>1. jpc' = "command" /\ stack' = OnTop([top EXCEPT !.own = FALSE])
      BY <1>5, <2>2 DEF Return, Returned, Go
    <3>2. stack # <<>> /\ top \in Frame /\ top.command = "none"
      BY <1>1, <2>1, <2>2 DEF CallInv
    <3> DEFINE x == [top EXCEPT !.own = FALSE]
    <3>3. x \in Frame /\ x.back = top.back /\ ~x.own /\ x.command = "none"
      BY <3>2 DEF Frame
    <3> HIDE DEF x
    <3>4. WallBelow' /\ top' = x
      BY <1>1, <3>1, <3>2, <3>3, WallTop, TopStack DEF x
    <3> QED
      BY <3>1, <3>3, <3>4 DEF SumInv, WallInv, StepInv, OwnInv
  <2>3. CASE call.back # "comp"
    <3>1. /\ stack' = stack /\ jpc' \in {"menu", "enter", "write", "up"}
          /\ jpc' = "enter" => call' = Call(top.patch, "loaded", "none")
          /\ jpc' = "write" => call.back = "wall"
          /\ jpc' = "enter" => call.back = "load"
      BY <1>5, <2>3 DEF Return, Returned, Go
    <3>2. jpc' = "enter" => call'.back = "loaded" /\ call'.step = NoStep /\ call'.code = 0
      <4>1. jpc' = "enter" => top.patch \in Hooks \union {Target}
        BY <1>1, <2>1, <3>1 DEF CallInv, Frame
      <4> QED
        BY <3>1, <4>1, Calls
    <3>3. jpc' = "write" => ~top.own
      BY <1>1, <2>1, <3>1 DEF WallInv
    <3> QED
      BY <1>1, <3>1, <3>2, <3>3 DEF SumInv, WallInv, WallBelow, StepInv, OwnInv, top
  <2> QED
    BY <2>2, <2>3
<1>6. CASE Ret \/ Up
  <2>1. /\ jpc \in {"command", "up"} /\ jpc' = "back" /\ call' = top /\ stack' = Below
    BY <1>6 DEF Ret, Up, Go
  <2>2. WallBelow' /\ (call'.back = "wall" => ~top'.own)
    BY <1>1, <2>1, WallPop
  <2> QED
    BY <2>1, <2>2 DEF SumInv, WallInv, StepInv, OwnInv
<1> QED
  BY <1>2, <1>3, <1>4, <1>5, <1>6 DEF Layers

(* A text is added to the texts and its bytes to those of the layer. *)
LEMMA StoredSum ==
  ASSUME MemoryInv, GlobalsInv, block # NoBlock, NEW s \in Instrs, used + s.len <= MaxUsed,
         Store(s)
  PROVE  /\ Sum(encoded') = Sum(encoded) + s.size
         /\ encoded'[Len(encoded')].size = s.size
<1>1. /\ MemoryInv' /\ used' = used + s.len
      /\ Len(encoded') = Len(encoded) + 1
      /\ \A k \in 1..Len(encoded) : encoded'[k] = Cut(encoded[k], used' + s.len)
  BY StoredTexts
<1>2. encoded'[Len(encoded) + 1].size = s.size
  <2>1. encoded'[Len(encoded) + 1] = [block |-> block', from |-> PtrSize * used', len |-> s.len,
                                      left |-> s.len, size |-> s.size]
    BY StoredTexts
  <2> QED
    BY <2>1
<1>3. encoded \in Seq(Text) /\ encoded' \in Seq(Text)
  BY <1>1 DEF MemoryInv
<1>4. \A k \in 1..Len(encoded) : encoded'[k].size = encoded[k].size
  <2> TAKE k \in 1..Len(encoded)
  <2>1. encoded[k] \in Text
    BY <1>3, ElementOfSeq
  <2>2. used' + s.len \in Nat
    BY <1>1, JitAssumption DEF MemoryInv
  <2> QED
    BY <1>1, <2>1, <2>2, CutIsText
<1> QED
  BY <1>1, <1>2, <1>3, <1>4, SumOfMore

LEMMA FilesSum ==
  ASSUME TypeInv, SumInv, Files
  PROVE  SumInv'
<1>1. /\ StackInv /\ CallInv /\ GlobalsInv /\ MemoryInv /\ JobInv
      /\ stack # <<>> => top \in Frame
      /\ jpc \notin {"menu", "enter", "back", "undefined"} => stack # <<>>
      /\ WallInv /\ WallBelow /\ StepInv /\ OwnInv
  BY TypeFacts DEF TypeInv, SumInv, WallInv
<1>2. CASE OpenFails \/ WriteFails
  <2>1. jpc' = "menu" /\ 2..Len(stack') = {}
    BY <1>2, EmptySeq DEF OpenFails, WriteFails, Command, Go
  <2> QED
    BY <2>1 DEF SumInv, WallInv, WallBelow, StepInv, OwnInv
<1>3. CASE Open
  <2>1. jpc = "open" /\ jpc' = "header" /\ UNCHANGED <<stack, job>>
    BY <1>3 DEF Open, Go
  <2> QED
    BY <1>1, <2>1 DEF SumInv, WallInv, WallBelow, StepInv, OwnInv, top
<1>4. CASE HeaderLine
  <2>1. jpc = "header" /\ jpc' = "header" /\ UNCHANGED stack
        /\ job' = [job EXCEPT !.line = @ + 1, !.base = IF job.line = 1 THEN block' ELSE @]
    BY <1>4 DEF HeaderLine
  <2>2. job'.after = job.after
    BY <1>1, <2>1 DEF JobInv, Job
  <2> QED
    BY <1>1, <2>1, <2>2 DEF SumInv, WallInv, WallBelow, StepInv, OwnInv, top
<1>5. CASE HeaderDone
  <2>1. /\ jpc = "header" /\ UNCHANGED stack
        /\ \/ jpc' = "back" /\ call' = Call(Target, job.after, "none")
           \/ jpc' = "enter" /\ call' = Call(filename, job.after, ".comp")
    BY <1>5 DEF HeaderDone
  <2>2. job.after \in {"comp", "load", "wall"} /\ filename \in Hooks
    BY <1>1 DEF JobInv, Job, TypeInv, HooksInv
  <2>3. call'.back = job.after /\ call'.step = NoStep /\ call'.code = 0
    BY <2>1, <2>2, Calls
  <2>4. jpc' \in {"back", "enter"}
    BY <2>1
  <2> QED
    BY <1>1, <2>1, <2>3, <2>4 DEF SumInv, WallInv, WallBelow, StepInv, OwnInv, top
<1>6. CASE CommandGarbled \/ Comp
  <2>1. /\ jpc = "command" /\ jpc' \in {"command", "compile"} /\ stack' = OnTop(Done)
        /\ UNCHANGED encoded /\ top.command # "none"
    BY <1>6 DEF CommandGarbled, Comp, Commanded, Go, memory, globals
  <2>2. /\ Done \in Frame /\ Done.back = top.back /\ Done.command = "none"
        /\ Done.step = top.step /\ Done.code = top.code /\ Done.own = top.own
    BY <1>1, <2>1 DEF Done, Frame
  <2>3. WallBelow' /\ top' = Done
    BY <1>1, <2>1, <2>2, WallTop, TopStack
  <2>4. Done.step = NoStep
    BY <1>1, <2>1, <2>2 DEF StepInv
  <2>5. Done.own => Done.code = Sum(encoded')
    BY <1>1, <2>1, <2>2 DEF OwnInv
  <2>6. WallInv' /\ StepInv'
    BY <2>1, <2>3, <2>4 DEF WallInv, StepInv
  <2> QED
    BY <2>3, <2>5, <2>6 DEF SumInv, OwnInv
<1>7. CASE CompileLine
  <2>1. PICK s \in Instrs : /\ block # NoBlock /\ used + s.len <= MaxUsed /\ Store(s)
                            /\ top.code + s.size <= MaxBytes
                            /\ stack' = OnTop([top EXCEPT !.code = @ + s.size])
    BY <1>7, CompiledText
  <2>2. jpc = "compile" /\ jpc' = "compile"
    BY <1>7 DEF CompileLine
  <2>3. s.size \in Nat /\ top \in Frame /\ stack # <<>>
    BY <1>1, <2>2, JitAssumption
  <2>4. top.code + s.size \in 0..MaxBytes
    BY <2>1, <2>3, JitAssumption DEF Frame
  <2> DEFINE x == [top EXCEPT !.code = @ + s.size]
  <2>5. x \in Frame /\ x.back = top.back
    BY <2>3, <2>4 DEF Frame
  <2>6. x.step = top.step /\ x.own = top.own /\ x.code = top.code + s.size
    BY <2>3 DEF Frame
  <2> HIDE DEF x
  <2>7. WallBelow' /\ top' = x
    BY <1>1, <2>1, <2>3, <2>5, WallTop, TopStack DEF x
  <2>8. Sum(encoded') = Sum(encoded) + s.size
    BY <1>1, <2>1, StoredSum
  <2>9. x.own => x.code = Sum(encoded')
    BY <1>1, <2>2, <2>6, <2>8 DEF OwnInv
  <2>10. WallInv' /\ StepInv'
    BY <1>1, <2>2, <2>6, <2>7 DEF WallInv, StepInv
  <2> QED
    BY <2>7, <2>9, <2>10 DEF SumInv, OwnInv
<1>8. CASE Compiled
  <2>1. jpc = "compile" /\ jpc' = "command" /\ UNCHANGED <<stack, encoded>>
    BY <1>8 DEF Compiled, Go, globals
  <2>2. top.command = "none" /\ top.step = NoStep
    BY <1>1, <2>1 DEF CallInv, StepInv
  <2>3. top' = top
    BY <2>1 DEF top
  <2> QED
    BY <1>1, <2>1, <2>2, <2>3 DEF SumInv, WallInv, WallBelow, StepInv, OwnInv
<1> QED
  BY <1>2, <1>3, <1>4, <1>5, <1>6, <1>7, <1>8 DEF Files

(* .undo drops the last text and the bytes of the last instruction. *)
LEMMA UndoneSum ==
  ASSUME MemoryInv, NEW f \in Frame, f.code = Sum(encoded),
         f.step # NoStep, encoded # <<>> => f.step = encoded[Len(encoded)].size,
         NEW n \in Shorter(f), encoded' = IF encoded = <<>> THEN <<>> ELSE Front(encoded)
  PROVE  n = Sum(encoded')
<1>1. encoded \in Seq(Text) /\ Len(encoded) \in Nat
  BY LenProperties DEF MemoryInv
<1>2. CASE encoded = <<>>
  <2>1. f.code = 0
    BY <1>2, SumOfNone
  <2> QED
    BY <1>2, <2>1, SumOfNone DEF Shorter
<1>3. CASE encoded # <<>>
  <2> DEFINE m == Len(encoded) - 1
             e == SubSeq(encoded, 1, m)
  <2>1. Len(encoded) # 0
    BY <1>1, <1>3, EmptySeq
  <2>2. m \in Nat /\ m + 1 = Len(encoded) /\ \A k \in 1..m : k \in 1..Len(encoded)
    BY <1>1, <2>1
  <2>3. encoded' = e
    BY <1>3 DEF Front
  <2>4. \A k \in 1..m : encoded[k] \in Text
    BY <1>1, <2>2, ElementOfSeq
  <2>5. Len(encoded) \in 1..Len(encoded) /\ encoded[Len(encoded)] \in Text
    <3>1. Len(encoded) \in 1..Len(encoded)
      BY <1>1, <2>1
    <3> QED
      BY <1>1, <3>1, ElementOfSeq
  <2> HIDE DEF m
  <2>6. /\ e \in Seq(Text)
        /\ Len(e) = IF 1 <= m THEN m - 1 + 1 ELSE 0
        /\ \A k \in 1..(m - 1 + 1) : e[k] = encoded[1 + k - 1]
    BY <1>1, <2>2, <2>4, SubSeqProperties
  <2> HIDE DEF e
  <2>7. Len(e) = m /\ \A k \in 1..m : e[k] = encoded[k]
    <3>1. m - 1 + 1 = m /\ \A k \in 1..m : 1 + k - 1 = k
      BY <2>2
    <3> QED
      BY <2>2, <2>6, <3>1
  <2>8. Sum(e) \in Nat /\ Sum(encoded) = Sum(e) + f.step
    <3>1. Len(encoded) = Len(e) + 1 /\ \A k \in 1..Len(e) : encoded[k].size = e[k].size
      BY <2>2, <2>7
    <3> QED
      BY <1>1, <1>3, <2>6, <3>1, SumOfMore
  <2>9. f.step \in Nat
    BY <1>3, <2>5 DEF Text
  <2>10. f.code = Sum(e) + f.step /\ ~(f.step > f.code)
    BY <2>8, <2>9
  <2>11. n = Sum(e)
    <3>1. CASE f.code = 0
      BY <2>8, <2>9, <2>10, <3>1 DEF Shorter
    <3>2. CASE f.code # 0
      BY <2>8, <2>9, <2>10, <3>2 DEF Shorter
    <3> QED
      BY <3>1, <3>2
  <2> QED
    BY <2>3, <2>11
<1> QED
  BY <1>2, <1>3

LEMMA CommandsSum ==
  ASSUME TypeInv, SumInv, Commands
  PROVE  SumInv'
<1>1. /\ StackInv /\ CallInv /\ GlobalsInv /\ MemoryInv /\ JobInv
      /\ stack # <<>> => top \in Frame
      /\ jpc \notin {"menu", "enter", "back", "undefined"} => stack # <<>>
      /\ WallInv /\ WallBelow /\ StepInv /\ OwnInv
  BY TypeFacts DEF TypeInv, SumInv, WallInv
<1>2. CASE CompCommand \/ \E f \in Hooks : Load(f)
  <2>1. jpc' = "open" /\ UNCHANGED stack /\ job'.after # "wall"
    BY <1>2 DEF CompCommand, Load, Command, Go, Interpret
  <2> QED
    BY <1>1, <2>1 DEF SumInv, WallInv, WallBelow, StepInv, OwnInv
<1>3. CASE Wall
  <2> DEFINE x == [top EXCEPT !.rest = {f \in Hooks : hooks[f] # NoHook}]
  <2>1. /\ jpc = "command" /\ jpc' = "wall" /\ top.command = "none" /\ UNCHANGED encoded
        /\ stack' = OnTop(x)
    BY <1>3 DEF Wall, Command, Go, globals
  <2>2. /\ x \in Frame /\ x.back = top.back /\ x.step = top.step /\ x.own = top.own
        /\ x.undone = top.undone /\ x.code = top.code
    BY <1>1, <2>1 DEF Frame
  <2> HIDE DEF x
  <2>3. WallBelow' /\ top' = x
    BY <1>1, <2>1, <2>2, WallTop, TopStack
  <2>4. WallInv'
    BY <2>1, <2>3 DEF WallInv
  <2>5. StepInv'
    BY <1>1, <2>1, <2>2, <2>3 DEF StepInv
  <2>6. OwnInv'
    BY <1>1, <2>1, <2>2, <2>3 DEF OwnInv
  <2> QED
    BY <2>4, <2>5, <2>6 DEF SumInv
<1>4. CASE \E f \in Hooks : WallFile(f)
  <2>1. PICK f \in Hooks : WallFile(f)
    BY <1>4
  <2> DEFINE x == [top EXCEPT !.rest = @ \ {f}, !.own = FALSE]
  <2>2. jpc = "wall" /\ jpc' = "open" /\ stack' = OnTop(x)
    BY <2>1 DEF WallFile, Go
  <2>3. x \in Frame /\ x.back = top.back /\ ~x.own
    BY <1>1, <2>2 DEF Frame
  <2> HIDE DEF x
  <2>4. WallBelow' /\ top' = x
    BY <1>1, <2>2, <2>3, WallTop, TopStack
  <2> QED
    BY <2>2, <2>3, <2>4 DEF SumInv, WallInv, StepInv, OwnInv
<1>5. CASE WallDone \/ WallWrite \/ Write \/ Save \/ \E f \in Hooks : SetFile(f)
  <2>1. /\ UNCHANGED <<stack, encoded>>
        /\ \/ jpc = "wall" /\ jpc' = "command"
           \/ jpc = "write" /\ jpc' = "wall"
           \/ jpc = "command" /\ jpc' = "command"
    BY <1>5 DEF WallDone, WallWrite, Write, Save, SetFile, Command, Go, control, globals
  <2>2. top' = top
    BY <2>1 DEF top
  <2>3. (jpc = "write" => ~top.own) /\ (jpc = "wall" => top.command = "none")
    BY <1>1, <2>1 DEF WallInv, CallInv
  <2>4. WallInv'
    BY <1>1, <2>1, <2>2 DEF WallInv, WallBelow
  <2>5. StepInv'
    BY <1>1, <2>1, <2>2, <2>3 DEF StepInv
  <2>6. OwnInv'
    BY <1>1, <2>1, <2>2, <2>3 DEF OwnInv
  <2> QED
    BY <2>4, <2>5, <2>6 DEF SumInv
<1>6. CASE \E offset \in Offsets, arch \in {0, 1} : Org(offset, arch)
  <2>1. /\ jpc = "command" /\ jpc' = "enter" /\ UNCHANGED stack
        /\ call' = Call(top.patch, "org", ".clear")
    BY <1>6 DEF Org, Command, Go
  <2>2. call'.back = "org" /\ call'.step = NoStep /\ call'.code = 0
    <3>1. top.patch \in Hooks \union {Target}
      BY <1>1, <2>1 DEF Frame
    <3> QED
      BY <2>1, <3>1, Calls
  <2> QED
    BY <1>1, <2>1, <2>2 DEF SumInv, WallInv, WallBelow, StepInv, OwnInv
<1>7. CASE Clear
  <2> DEFINE x == [Done EXCEPT !.code = 0, !.own = TRUE, !.undone = FALSE]
  <2>1. /\ jpc = "command" /\ jpc' = "command" /\ encoded' = <<>> /\ stack' = OnTop(x)
    BY <1>7 DEF Clear, Commanded, Command, Go
  <2>2. Done \in Frame /\ Done.back = top.back /\ Done.command = "none"
    BY <1>1, <2>1 DEF Done, Frame
  <2>3. 0 \in 0..MaxBytes
    BY JitAssumption
  <2>4. x \in Frame /\ x.back = top.back /\ x.command = "none" /\ x.code = 0
    BY <2>2, <2>3 DEF Frame
  <2> HIDE DEF x
  <2>5. WallBelow' /\ top' = x
    BY <1>1, <2>1, <2>4, WallTop, TopStack
  <2> QED
    BY <2>1, <2>4, <2>5, SumOfNone DEF SumInv, WallInv, StepInv, OwnInv
<1>8. CASE Undo
  <2>1. /\ jpc = "command" /\ jpc' = "command" /\ top.command = "none"
        /\ encoded' = IF encoded = <<>> THEN <<>> ELSE Front(encoded)
    BY <1>8 DEF Undo, Command, Go
  <2>2. PICK n \in Shorter(top) :
          stack' = OnTop([top EXCEPT !.code = n, !.own = @ /\ ~top.undone /\ top.step # NoStep,
                                     !.undone = TRUE])
    BY <1>8 DEF Undo
  <2> DEFINE x == [top EXCEPT !.code = n, !.own = @ /\ ~top.undone /\ top.step # NoStep,
                              !.undone = TRUE]
  <2>3. top \in Frame /\ n \in 0..MaxBytes /\ stack # <<>>
    BY <1>1, <2>1, ShorterCode
  <2>4. /\ x \in Frame /\ x.back = top.back /\ x.command = top.command /\ x.code = n
        /\ x.undone
        /\ x.own <=> top.own /\ ~top.undone /\ top.step # NoStep
    BY <2>3 DEF Frame
  <2> HIDE DEF x
  <2>5. WallBelow' /\ top' = x
    BY <1>1, <2>2, <2>3, <2>4, WallTop, TopStack DEF x
  <2>6. ASSUME x.own PROVE n = Sum(encoded')
    <3>1. top.own /\ ~top.undone /\ top.step # NoStep
      BY <2>4, <2>6
    <3>2. top.code = Sum(encoded) /\ (encoded # <<>> => top.step = encoded[Len(encoded)].size)
      BY <1>1, <2>1, <3>1 DEF OwnInv, StepInv
    <3> QED
      BY <1>1, <2>1, <2>3, <3>1, <3>2, UndoneSum
  <2>7. OwnInv'
    BY <2>4, <2>5, <2>6 DEF OwnInv
  <2>8. WallInv' /\ StepInv'
    BY <2>1, <2>4, <2>5 DEF WallInv, StepInv
  <2> QED
    BY <2>7, <2>8 DEF SumInv
<1>9. CASE \E s \in Instrs : Type(s)
  <2>1. PICK s \in Instrs : Type(s)
    BY <1>9
  <2> DEFINE x == [top EXCEPT !.code = @ + s.size, !.step = s.size, !.undone = FALSE]
  <2>2. /\ jpc = "command" /\ jpc' = "command" /\ top.command = "none" /\ block # NoBlock
        /\ top.code + s.size <= MaxBytes /\ used + s.len <= MaxUsed /\ Store(s)
        /\ stack' = OnTop(x)
    BY <2>1 DEF Type, Command, Go
  <2>3. s.size \in Nat /\ top \in Frame /\ stack # <<>>
    BY <1>1, <2>2, JitAssumption
  <2>4. top.code + s.size \in 0..MaxBytes
    BY <2>2, <2>3, JitAssumption DEF Frame
  <2>5. x \in Frame /\ x.back = top.back
    BY <2>3, <2>4 DEF Frame
  <2>6. /\ x.command = top.command /\ x.own = top.own /\ x.step = s.size
        /\ x.code = top.code + s.size
    BY <2>3 DEF Frame
  <2> HIDE DEF x
  <2>7. WallBelow' /\ top' = x
    BY <1>1, <2>2, <2>3, <2>5, WallTop, TopStack
  <2>8. Sum(encoded') = Sum(encoded) + s.size /\ encoded'[Len(encoded')].size = s.size
    BY <1>1, <2>2, StoredSum
  <2>9. x.own => x.code = Sum(encoded')
    BY <1>1, <2>2, <2>6, <2>8 DEF OwnInv
  <2>10. WallInv' /\ StepInv'
    BY <2>2, <2>6, <2>7, <2>8 DEF WallInv, StepInv
  <2> QED
    BY <2>7, <2>9, <2>10 DEF SumInv, OwnInv
<1> QED
  BY <1>2, <1>3, <1>4, <1>5, <1>6, <1>7, <1>8, <1>9 DEF Commands

LEMMA NextSum == TypeInv /\ SumInv /\ [JitNext]_vars => SumInv'
<1> SUFFICES ASSUME TypeInv, SumInv, [JitNext]_vars PROVE SumInv'
  OBVIOUS
<1>1. CASE UNCHANGED vars
  BY <1>1 DEF vars, control, memory, globals, history, SumInv, WallInv, WallBelow, StepInv,
     OwnInv, top
<1>2. CASE Undefined
  BY <1>2 DEF Undefined, SumInv, WallInv, WallBelow, StepInv, OwnInv, top
<1> QED
  BY <1>1, <1>2, LayersSum, FilesSum, CommandsSum DEF JitNext

(***************************************************************************)
(* Theorems.                                                               *)
(***************************************************************************)
(* Only realloc leaves pointers behind: whatever layer deletes the block   *)
(* under the others, no text and no argument then points into it, nor into *)
(* the block that the next layer makes.                                    *)
THEOREM OnlyReallocStrands == JitSpec => []PointersAreLive
<1>1. PointerInv => PointersAreLive
  BY DEF PointerInv
<1>2. JitSpec => []PointerInv
  BY InitPointers, NextPointers, PTL DEF JitSpec
<1> QED
  BY <1>1, <1>2, PTL

(* Bytes go to the offset they were assembled for: those that wait to be   *)
(* written or saved are for the present offset, none have been written to  *)
(* another, and each hook file holds bytes for the offset in its header,   *)
(* unless a .clear that .org asked for has not been carried out.           *)
THEOREM BytesKeepTheirOffset == JitSpec => []BytesAtTheirOffset
<1>1. OffsetInv => BytesAtTheirOffset
  BY DEF OffsetInv, BytesInv, HooksInPlace, InPlace, Pending, BytesAtTheirOffset
<1>2. JitSpec => []OffsetInv
  BY InitOffset, NextOffset, PTL DEF JitSpec
<1> QED
  BY <1>1, <1>2, PTL

(* Every variable keeps its type: a call returns only to one that is       *)
(* there, a hook file is a hook, torn or missing, the texts are those of   *)
(* instructions, and the depth of calls never exceeds its bound.           *)
THEOREM TypeCorrect == JitSpec => []TypeOK
<1>1. TypeInv => TypeOK
  BY DEF TypeInv, HooksInv, StackInv, CallInv, GlobalsInv, MemoryInv, TypeOK
<1> QED
  BY <1>1, AlwaysTyped, PTL

(* No text loses its end to the terminator of a later one, as long as the  *)
(* texts in the block take up less than half of what lies before it, for   *)
(* texts of any length and in any number.                                  *)
THEOREM WholeTexts == JitSpec => []TextsAreWhole
<1>1. JitInit => TextsAreWhole
  <2>1. JitInit => DOMAIN encoded = {}
    BY DEF JitInit
  <2> QED
    BY <2>1 DEF TextsAreWhole
<1> QED
  BY <1>1, AlwaysTyped, NextWhole, PTL DEF JitSpec

(* The bytes that .save writes in a layer that has the texts for itself    *)
(* are those of the instructions it writes, whatever has been typed,       *)
(* undone, cleared, compiled or written in between, in any layers.         *)
THEOREM BytesOfTheTexts == JitSpec => []BytesAreTexts
<1>1. SumInv => BytesAreTexts
  BY DEF SumInv, OwnInv, BytesAreTexts
<1>2. JitSpec => []SumInv
  BY InitSum, AlwaysTyped, NextSum, PTL DEF JitSpec
<1> QED
  BY <1>1, <1>2, PTL
=============================================================================
