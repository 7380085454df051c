-------------------------- MODULE PatchSessionProofs -------------------------
(***************************************************************************)
(* Theorems about PatchSession, for any file names, settings, hooks, names *)
(* within names, and any interleaving of choices, edits, failures and      *)
(* kills.                                                                  *)
(***************************************************************************)
EXTENDS PatchSession, TLAPS

construction == {"ctor", "copy", "tools"}
onInput      == {"read", "open", "rebuild"}
onOutput     == {"target", "ext", "map"}
onHooks      == {"hooks", "link", "apply", "loop"}
atEnd        == {"close", "deploy", "deploying", "finish"}

Finished == pc = "menu" /\ outcome = "done"

Patching(letters) == letter \in letters /\ ~err

(* copytodir leaves the output alone, and the input, too                   *)
OutputKept == conf.copy # conf.out
FilesKept  == conf.copy \notin {conf.in, conf.out}

(***************************************************************************)
(* The inductive invariant: which choice can have led to a step, what the  *)
(* image in memory and the files have in common with each other at each    *)
(* step, and what has become of the hooks that parse_hooks has been at.    *)
(***************************************************************************)
Flow ==
  /\ pc \in construction => letter \in {"-", "0"}
  /\ pc = "dispatch" => letter \in {"-", "6", "7", "8", "9", "b"}
  /\ pc \in onInput => Patching({"6", "7", "b"})
  /\ pc \in onOutput => Patching({"6", "7"})
  /\ pc \in onHooks => Patching({"6", "8"})
  /\ pc = "deploying" => conf.copy # NoFile
  /\ outcome # "none" => pc = "menu"
  /\ buf => pc \in onHooks \union {"map", "close"}
  /\ buf \/ pc \in {"ext", "map", "apply"} => disk[conf.out] # NoFile
  /\ letter = "6" /\ pc \in onInput \union onOutput => todo = Hooks
  /\ Patching({"6", "8"}) /\ (pc \in atEnd \/ Finished) => todo = {}

Images ==
  /\ pc \in {"open", "rebuild"} => mem.image /\ conf.in # conf.out
  /\ pc = "open" \/ (pc = "rebuild" /\ conf.in # Base[conf.out]) => disk[conf.in] = mem
  /\ OutputKept /\ pc \notin {"off", "ctor", "copy", "rebuild"} =>
       (IsImage(conf.in) => IsImage(conf.out))
  /\ OutputKept /\ pc = "rebuild" /\ Base[conf.out] # conf.out => IsImage(conf.out)
  /\ OutputKept /\ conf.copy # NoFile /\ (pc = "finish" \/ Finished) =>
       disk[conf.copy] = disk[conf.out]

HookCode(h) ==
  LET c == disk[conf.out] IN
  /\ c # NoFile
  /\ c.code[h] # NoCode
  /\ Within[h] = {h} => c.code[h] = [hook |-> h, rev |-> rev[h]]

Codes ==
  /\ pc \in {"link", "apply"} => objs[hook] = rev[hook]
  /\ pc = "apply" /\ Within[hook] = {hook} => bins[hook] = rev[hook]
  /\ OutputKept /\ Patching({"6", "8"}) /\ (pc \in onHooks \union atEnd \/ Finished) =>
       \A h \in Hooks \ todo : (h = hook /\ pc \in {"link", "apply", "loop"}) \/ HookCode(h)

OneMore == /\ conf.in # conf.out
           /\ disk[conf.in] # NoFile /\ disk[conf.out] # NoFile
           /\ disk[conf.out].secs = disk[conf.in].secs + 1

Full ==
  /\ conf.in = conf.out /\ pc \notin {"off", "ctor"} => ~IsImage(conf.in)
  /\ pc \in onOutput => conf.in # conf.out
  /\ FilesKept /\ Base[conf.out] = conf.out /\ Patching({"6"}) =>
       /\ pc \in onOutput \union onHooks \union atEnd \/ Finished => OneMore
       /\ win /\ pc \in onHooks \union {"map", "close"} => disk[conf.out].ext \/ buf
       /\ win /\ (pc \in atEnd \ {"close"} \/ Finished) => disk[conf.out].ext

IInv == TypeOK /\ Flow /\ Images /\ Codes /\ Full

LEMMA ContentTypes ==
  /\ Original \in Content /\ Empty \in Content
  /\ Original.image /\ ~Empty.image
  /\ NoFile \notin Content
<1>1. Original \in Content
  BY DEF Original, Content, Code
<1>2. Empty \in Content /\ ~Empty.image
  BY <1>1 DEF Empty, Original, Content
<1>3. NoFile \notin Content
  BY NothingAssumption
<1> QED
  BY <1>1, <1>2, <1>3 DEF Original, Content, Code

LEMMA WithExt ==
  ASSUME NEW c \in Content
  PROVE  LET d == [c EXCEPT !.ext = TRUE] IN
         /\ d \in Content /\ d # NoFile /\ d.ext
         /\ d.image = c.image /\ d.secs = c.secs /\ d.code = c.code
<1>1. [c EXCEPT !.ext = TRUE] \in Content
  BY DEF Content
<1> QED
  BY <1>1, NothingAssumption DEF Content

LEMMA WithCode ==
  ASSUME NEW c \in Content, NEW h \in Hooks, NEW x \in Code
  PROVE  LET d == [c EXCEPT !.code[h] = x] IN
         /\ d \in Content /\ d # NoFile
         /\ d.image = c.image /\ d.secs = c.secs /\ d.ext = c.ext
         /\ d.code[h] = x /\ \A g \in Hooks \ {h} : d.code[g] = c.code[g]
<1>1. [c EXCEPT !.code[h] = x] \in Content
  BY DEF Content
<1> QED
  BY <1>1, NothingAssumption DEF Content

LEMMA RebuiltContent ==
  ASSUME NEW c \in Content, NEW n \in Nat
  PROVE  LET d == Rebuilt(c, n) IN
         /\ d \in Content /\ d # NoFile /\ d.image = c.image /\ d.secs = n
<1>1. Rebuilt(c, n) \in Content
  BY DEF Rebuilt, Content
<1> QED
  BY <1>1, NothingAssumption DEF Rebuilt, Content

LEMMA ConfPaths ==
  ASSUME TypeOK
  PROVE  /\ conf.in \in Paths /\ conf.out \in Paths /\ Base[conf.out] \in Paths
         /\ conf.copy \in Paths \union {NoFile}
         /\ \A p \in Paths : disk[p] # NoFile => disk[p] \in Content
         /\ NoFile \notin Paths
BY SessionAssumption, NothingAssumption DEF TypeOK

LEMMA InitInv == Init => IInv
<1> SUFFICES ASSUME Init PROVE IInv
  OBVIOUS
<1>1. TypeOK
  <2>1. disk \in [Paths -> Content \union {NoFile}] /\ mem \in Content
    BY ContentTypes DEF Init
  <2>2. rev \in [Hooks -> 1..MaxRev]
    BY SessionAssumption DEF Init
  <2>3. objs \in [Hooks -> 0..MaxRev] /\ bins \in [Hooks -> 0..MaxRev]
    BY SessionAssumption DEF Init
  <2>4. conf \in [in: Paths, out: Paths, copy: Paths \union {NoFile}, del: BOOLEAN]
    BY SessionAssumption DEF Init
  <2> QED
    BY <2>1, <2>2, <2>3, <2>4 DEF Init, TypeOK
<1>2. Flow /\ Images /\ Codes /\ Full
  BY DEF Init, Flow, Images, Codes, Full, Finished, Patching,
     construction, onInput, onOutput, onHooks, atEnd
<1> QED
  BY <1>1, <1>2 DEF IInv

(***************************************************************************)
(* The steps that change no file.                                          *)
(***************************************************************************)
LEMMA PauseInv ==
  ASSUME IInv, NEW from \in {"convert", "read", "open", "target", "ext", "map", "hooks",
                             "link", "apply", "loop"},
         NEW condition \in BOOLEAN, Pause(from, condition)
  PROVE  IInv'
<1> USE DEF IInv, Pause, Go, fixed
<1>1. TypeOK'
  BY ContentTypes DEF TypeOK
<1>2. Flow'
  BY DEF Flow, Finished, Patching, construction, onInput, onOutput, onHooks, atEnd
<1>3. Images'
  BY DEF Images, Flow, Full, Finished, OutputKept, IsImage, onHooks
<1>4. Codes'
  BY DEF Codes, Flow, HookCode, Finished, Patching, OutputKept, construction, onInput,
     onOutput, onHooks, atEnd
<1>5. Full'
  BY DEF Full, Flow, Finished, Patching, FilesKept, OneMore, IsImage, construction,
     onInput, onOutput, onHooks, atEnd
<1> QED
  BY <1>1, <1>2, <1>3, <1>4, <1>5

LEMMA ThrowInv ==
  ASSUME IInv, NEW condition \in BOOLEAN, Throw(pc, condition)
  PROVE  IInv'
<1> USE DEF IInv, Throw, Go, fixed
<1>1. TypeOK'
  BY ContentTypes DEF TypeOK
<1>2. Flow'
  BY DEF Flow, Finished, Patching, construction, onInput, onOutput, onHooks, atEnd
<1>3. Images'
  BY DEF Images, Flow, Full, Finished, OutputKept, IsImage, onHooks
<1>4. Codes'
  BY DEF Codes, Flow, HookCode, Finished, Patching, OutputKept, construction, onInput,
     onOutput, onHooks, atEnd
<1>5. Full'
  BY DEF Full, Flow, Finished, Patching, FilesKept, OneMore, IsImage, construction,
     onInput, onOutput, onHooks, atEnd
<1> QED
  BY <1>1, <1>2, <1>3, <1>4, <1>5

LEMMA StartInv ==
  ASSUME IInv, NEW s \in Settings, Start(s)
  PROVE  IInv'
<1> USE DEF IInv, Start, fixed, hooks
<1>1. TypeOK'
  BY SessionAssumption DEF TypeOK
<1>2. Flow'
  BY DEF Flow, Finished, Patching, construction, onInput, onOutput, onHooks, atEnd
<1>3. Images'
  BY DEF Images, Flow, Full, Finished, OutputKept, IsImage, onHooks
<1>4. Codes'
  BY DEF Codes, Flow, HookCode, Finished, Patching, OutputKept, construction, onInput,
     onOutput, onHooks, atEnd
<1>5. Full'
  BY DEF Full, Flow, Finished, Patching, FilesKept, OneMore, IsImage, construction,
     onInput, onOutput, onHooks, atEnd
<1> QED
  BY <1>1, <1>2, <1>3, <1>4, <1>5

LEMMA InputMissingInv ==
  ASSUME IInv, InputMissing
  PROVE  IInv'
<1> USE DEF IInv, InputMissing, fixed, menu, hooks
<1>1. TypeOK'
  BY DEF TypeOK
<1>2. Flow'
  BY DEF Flow, Finished, Patching, construction, onInput, onOutput, onHooks, atEnd
<1>3. Images'
  BY DEF Images, Flow, Full, Finished, OutputKept, IsImage, onHooks
<1>4. Codes'
  BY DEF Codes, Flow, HookCode, Finished, Patching, OutputKept, construction, onInput,
     onOutput, onHooks, atEnd
<1>5. Full'
  BY DEF Full, Flow, Finished, Patching, FilesKept, OneMore, IsImage, construction,
     onInput, onOutput, onHooks, atEnd
<1> QED
  BY <1>1, <1>2, <1>3, <1>4, <1>5

LEMMA CheckToolsInv ==
  ASSUME IInv, CheckTools
  PROVE  IInv'
<1> USE DEF IInv, CheckTools, fixed, menu, hooks
<1>1. TypeOK'
  BY DEF TypeOK
<1>2. Flow'
  BY DEF Flow, Finished, Patching, construction, onInput, onOutput, onHooks, atEnd
<1>3. Images'
  BY DEF Images, Flow, Full, Finished, OutputKept, IsImage, onHooks
<1>4. Codes'
  BY DEF Codes, Flow, HookCode, Finished, Patching, OutputKept, construction, onInput,
     onOutput, onHooks, atEnd
<1>5. Full'
  BY DEF Full, Flow, Finished, Patching, FilesKept, OneMore, IsImage, construction,
     onInput, onOutput, onHooks, atEnd
<1> QED
  BY <1>1, <1>2, <1>3, <1>4, <1>5

LEMMA ChooseInv ==
  ASSUME IInv, NEW o \in {"0", "2", "6", "7", "8", "9", "b"}, Choose(o)
  PROVE  IInv'
<1> USE DEF IInv, Choose, fixed, hooks
<1>1. TypeOK'
  BY SessionAssumption DEF TypeOK
<1>2. Flow'
  BY DEF Flow, Finished, Patching, construction, onInput, onOutput, onHooks, atEnd
<1>3. Images'
  BY DEF Images, Flow, Full, Finished, OutputKept, IsImage, onHooks
<1>4. Codes'
  BY DEF Codes, Flow, HookCode, Finished, Patching, OutputKept, construction, onInput,
     onOutput, onHooks, atEnd
<1>5. Full'
  BY DEF Full, Flow, Finished, Patching, FilesKept, OneMore, IsImage, construction,
     onInput, onOutput, onHooks, atEnd
<1> QED
  BY <1>1, <1>2, <1>3, <1>4, <1>5

LEMMA DispatchInv ==
  ASSUME IInv, Dispatch
  PROVE  IInv'
<1> USE DEF IInv, Dispatch, Go, fixed, hooks
<1>1. TypeOK'
  BY DEF TypeOK, Flow
<1>2. Flow'
  BY DEF Flow, Finished, Patching, construction, onInput, onOutput, onHooks, atEnd
<1>3. Images'
  BY DEF Images, Flow, Full, Finished, OutputKept, IsImage, onHooks
<1>4. Codes'
  BY DEF Codes, Flow, HookCode, Finished, Patching, OutputKept, construction, onInput,
     onOutput, onHooks, atEnd
<1>5. Full'
  BY DEF Full, Flow, Finished, Patching, FilesKept, OneMore, IsImage, construction,
     onInput, onOutput, onHooks, atEnd
<1> QED
  BY <1>1, <1>2, <1>3, <1>4, <1>5

LEMMA PatternInv ==
  ASSUME IInv, Pattern
  PROVE  IInv'
<1> USE DEF IInv, Pattern, Go, fixed, hooks
<1>1. TypeOK'
  BY DEF TypeOK
<1>2. Flow'
  BY DEF Flow, Finished, Patching, construction, onInput, onOutput, onHooks, atEnd
<1>3. Images'
  BY DEF Images, Flow, Full, Finished, OutputKept, IsImage, onHooks
<1>4. Codes'
  BY DEF Codes, Flow, HookCode, Finished, Patching, OutputKept, construction, onInput,
     onOutput, onHooks, atEnd
<1>5. Full'
  BY DEF Full, Flow, Finished, Patching, FilesKept, OneMore, IsImage, construction,
     onInput, onOutput, onHooks, atEnd
<1> QED
  BY <1>1, <1>2, <1>3, <1>4, <1>5

LEMMA HooksDoneInv ==
  ASSUME IInv, HooksDone
  PROVE  IInv'
<1> USE DEF IInv, HooksDone, Go, fixed, hooks
<1>1. TypeOK'
  BY DEF TypeOK
<1>2. Flow'
  BY DEF Flow, Finished, Patching, construction, onInput, onOutput, onHooks, atEnd
<1>3. Images'
  BY DEF Images, Flow, Full, Finished, OutputKept, IsImage, onHooks
<1>4. Codes'
  BY DEF Codes, Flow, HookCode, Finished, Patching, OutputKept, construction, onInput,
     onOutput, onHooks, atEnd
<1>5. Full'
  BY DEF Full, Flow, Finished, Patching, FilesKept, OneMore, IsImage, construction,
     onInput, onOutput, onHooks, atEnd
<1> QED
  BY <1>1, <1>2, <1>3, <1>4, <1>5

LEMMA EditInv ==
  ASSUME IInv, NEW h \in Hooks, Edit(h)
  PROVE  IInv'
<1> USE DEF IInv, Edit, menu, hooks
<1>1. TypeOK'
  BY SessionAssumption DEF TypeOK
<1>2. Flow'
  BY DEF Flow, Finished, Patching, construction, onInput, onOutput, onHooks, atEnd
<1>3. Images'
  BY DEF Images, Flow, Full, Finished, OutputKept, IsImage, onHooks
<1>4. Codes'
  BY DEF Codes, Flow, HookCode, Finished, Patching, OutputKept, construction, onInput,
     onOutput, onHooks, atEnd
<1>5. Full'
  BY DEF Full, Flow, Finished, Patching, FilesKept, OneMore, IsImage, construction,
     onInput, onOutput, onHooks, atEnd
<1> QED
  BY <1>1, <1>2, <1>3, <1>4, <1>5

LEMMA FinishInv ==
  ASSUME IInv, Finish
  PROVE  IInv'
<1> USE DEF IInv, Finish, Go, fixed, hooks
<1>1. TypeOK'
  BY SessionAssumption DEF TypeOK
<1>2. Flow'
  BY DEF Flow, Finished, Patching, construction, onInput, onOutput, onHooks, atEnd
<1>3. Images'
  BY DEF Images, Flow, Full, Finished, OutputKept, IsImage, onHooks
<1>4. Codes'
  BY DEF Codes, Flow, HookCode, Finished, Patching, OutputKept, construction, onInput,
     onOutput, onHooks, atEnd
<1>5. Full'
  BY DEF Full, Flow, Finished, Patching, FilesKept, OneMore, IsImage, construction,
     onInput, onOutput, onHooks, atEnd
<1> QED
  BY <1>1, <1>2, <1>3, <1>4, <1>5

LEMMA ConvertInv ==
  ASSUME IInv, Convert, ~Pause("convert", TRUE)
  PROVE  IInv'
<1> USE DEF IInv, Go, fixed, hooks
<1>0. /\ Go("convert", "dispatch") /\ letter' \in {"6", "7", "8", "9", "b", "-"}
      /\ UNCHANGED <<disk, conf, mem, buf, hooks, objs, bins, outcome>>
  BY DEF Convert
<1>1. TypeOK'
  BY <1>0 DEF TypeOK
<1>2. Flow'
  BY <1>0 DEF Flow, Finished, Patching, construction, onInput, onOutput, onHooks, atEnd
<1>3. Images'
  BY <1>0 DEF Images, Flow, Full, Finished, OutputKept, IsImage, onHooks
<1>4. Codes'
  BY <1>0 DEF Codes, Flow, HookCode, Finished, Patching, OutputKept, construction,
     onInput, onOutput, onHooks, atEnd
<1>5. Full'
  BY <1>0 DEF Full, Flow, Finished, Patching, FilesKept, OneMore, IsImage, construction,
     onInput, onOutput, onHooks, atEnd
<1> QED
  BY <1>1, <1>2, <1>3, <1>4, <1>5

LEMMA ParseMapInv ==
  ASSUME IInv, ParseMap, ~Pause("map", TRUE)
  PROVE  IInv'
<1> USE DEF IInv, Go, fixed, hooks
<1>0. /\ Go("map", IF letter = "6" THEN "hooks" ELSE "close")
      /\ UNCHANGED <<disk, conf, letter, mem, buf, hooks, objs, bins, outcome>>
  BY DEF ParseMap
<1>1. TypeOK'
  BY <1>0 DEF TypeOK
<1>2. Flow'
  BY <1>0 DEF Flow, Finished, Patching, construction, onInput, onOutput, onHooks, atEnd
<1>3. Images'
  BY <1>0 DEF Images, Flow, Full, Finished, OutputKept, IsImage, onHooks
<1>4. Codes'
  BY <1>0 DEF Codes, Flow, HookCode, Finished, Patching, OutputKept, construction,
     onInput, onOutput, onHooks, atEnd
<1>5. Full'
  BY <1>0 DEF Full, Flow, Finished, Patching, FilesKept, OneMore, IsImage, construction,
     onInput, onOutput, onHooks, atEnd
<1> QED
  BY <1>1, <1>2, <1>3, <1>4, <1>5

LEMMA OpenTargetInv ==
  ASSUME IInv, OpenTarget, ~Pause("target", TRUE)
  PROVE  IInv'
<1> USE DEF IInv, Go, fixed, hooks
<1>0. /\ Go("target", IF letter = "7" \/ win THEN "ext" ELSE "hooks")
      /\ disk[conf.out] # NoFile
      /\ UNCHANGED <<disk, conf, letter, mem, buf, hooks, objs, bins, outcome>>
  BY DEF OpenTarget
<1>1. TypeOK'
  BY <1>0 DEF TypeOK
<1>2. Flow'
  BY <1>0 DEF Flow, Finished, Patching, construction, onInput, onOutput, onHooks, atEnd
<1>3. Images'
  BY <1>0 DEF Images, Flow, Full, Finished, OutputKept, IsImage, onHooks
<1>4. Codes'
  BY <1>0 DEF Codes, Flow, HookCode, Finished, Patching, OutputKept, construction,
     onInput, onOutput, onHooks, atEnd
<1>5. Full'
  BY <1>0 DEF Full, Flow, Finished, Patching, FilesKept, OneMore, IsImage, construction,
     onInput, onOutput, onHooks, atEnd
<1> QED
  BY <1>1, <1>2, <1>3, <1>4, <1>5

LEMMA ReadImageInv ==
  ASSUME IInv, ReadImage, ~Pause("read", TRUE), pc' # "off"
  PROVE  IInv'
<1> USE DEF IInv, Go, fixed, hooks
<1>0. /\ Go("read", "open") /\ disk[conf.in] # NoFile /\ disk[conf.in].image
      /\ mem' = disk[conf.in]
      /\ UNCHANGED <<disk, conf, letter, buf, hooks, objs, bins, outcome>>
  BY DEF ReadImage, Throw
<1>1. TypeOK'
  BY <1>0, ConfPaths DEF TypeOK
<1>2. Flow'
  BY <1>0 DEF Flow, Finished, Patching, construction, onInput, onOutput, onHooks, atEnd
<1>3. Images'
  BY <1>0 DEF Images, Flow, Full, Finished, OutputKept, IsImage, onHooks
<1>4. Codes'
  BY <1>0 DEF Codes, Flow, HookCode, Finished, Patching, OutputKept, construction,
     onInput, onOutput, onHooks, atEnd
<1>5. Full'
  BY <1>0 DEF Full, Flow, Finished, Patching, FilesKept, OneMore, IsImage, construction,
     onInput, onOutput, onHooks, atEnd
<1> QED
  BY <1>1, <1>2, <1>3, <1>4, <1>5

LEMMA BuildOInv ==
  ASSUME IInv, BuildO, ~Pause("hooks", todo # {})
  PROVE  IInv'
<1> USE DEF IInv, Go, fixed, hooks
<1>0. PICK h \in todo :
        /\ Go("hooks", "link") /\ todo' = todo \ {h} /\ hook' = h
        /\ objs' = [objs EXCEPT ![h] = rev[h]]
        /\ UNCHANGED <<disk, conf, letter, mem, buf, bins, outcome>>
  BY DEF BuildO
<1>1. TypeOK'
  BY <1>0 DEF TypeOK
<1>2. Flow'
  BY <1>0 DEF Flow, Finished, Patching, construction, onInput, onOutput, onHooks, atEnd
<1>3. Images'
  BY <1>0 DEF Images, Flow, Full, Finished, OutputKept, IsImage, onHooks
<1>4. Codes'
  <2>1. h \in Hooks /\ objs'[hook'] = rev'[hook'] /\ pc' = "link"
    BY <1>0 DEF TypeOK
  <2>2. ASSUME OutputKept, NEW g \in Hooks \ todo', g # h
        PROVE  HookCode(g)'
    <3>1. g \in Hooks \ todo /\ pc = "hooks"
      BY <1>0, <2>2
    <3>2. HookCode(g)
      BY <2>2, <3>1 DEF Codes, Flow, Patching, onHooks
    <3> QED
      BY <1>0, <3>2 DEF HookCode
  <2> QED
    BY <1>0, <2>1, <2>2 DEF Codes, OutputKept
<1>5. Full'
  BY <1>0 DEF Full, Flow, Finished, Patching, FilesKept, OneMore, IsImage, construction,
     onInput, onOutput, onHooks, atEnd
<1> QED
  BY <1>1, <1>2, <1>3, <1>4, <1>5

LEMMA LinkInv ==
  ASSUME IInv, Link, ~Pause("link", TRUE)
  PROVE  IInv'
<1> USE DEF IInv, Go, fixed, hooks
<1>0. PICK g \in Within[hook] :
        /\ Go("link", "apply") /\ disk[conf.out] # NoFile /\ objs[g] # 0
        /\ bins' = [bins EXCEPT ![g] = objs[g]]
        /\ UNCHANGED <<disk, conf, letter, mem, buf, hooks, objs, outcome>>
  BY DEF Link
<1>1. TypeOK'
  <2>1. Within[hook] \subseteq Hooks /\ bins \in [Hooks -> 0..MaxRev]
        /\ objs \in [Hooks -> 0..MaxRev]
    BY SessionAssumption DEF TypeOK
  <2>2. bins' \in [Hooks -> 0..MaxRev]
    BY <1>0, <2>1
  <2> QED
    BY <1>0, <2>2 DEF TypeOK
<1>2. Flow'
  BY <1>0 DEF Flow, Finished, Patching, construction, onInput, onOutput, onHooks, atEnd
<1>3. Images'
  BY <1>0 DEF Images, Flow, Full, Finished, OutputKept, IsImage, onHooks
<1>4. Codes'
  <2>1. /\ pc = "link" /\ pc' = "apply" /\ objs[hook] = rev[hook]
        /\ UNCHANGED <<disk, conf, err, letter, hook, todo, objs, rev>>
    BY <1>0 DEF Codes
  <2>2. Within[hook] = {hook} => bins'[hook] = rev[hook]
    BY <1>0, <2>1 DEF TypeOK
  <2>3. ASSUME NEW h \in Hooks, HookCode(h) PROVE HookCode(h)'
    BY <2>1, <2>3 DEF HookCode
  <2>4. Patching({"6", "8"}) /\ onHooks' = onHooks
    BY <2>1 DEF Flow, onHooks
  <2> QED
    BY <2>1, <2>2, <2>3, <2>4 DEF Codes, OutputKept, onHooks
<1>5. Full'
  BY <1>0 DEF Full, Flow, Finished, Patching, FilesKept, OneMore, IsImage, construction,
     onInput, onOutput, onHooks, atEnd
<1> QED
  BY <1>1, <1>2, <1>3, <1>4, <1>5

(***************************************************************************)
(* The steps that change a file.                                           *)
(***************************************************************************)
LEMMA ThrowFrom ==
  ASSUME IInv, NEW from, NEW condition \in BOOLEAN, Throw(from, condition)
  PROVE  IInv'
<1>1. Throw(pc, condition)
  BY DEF Throw, Go
<1> QED
  BY <1>1, ThrowInv

LEMMA CopyBeginInv ==
  ASSUME IInv, CopyBegin("ctor", "copy", conf.in, conf.out)
  PROVE  IInv'
<1> USE DEF IInv, Go, fixed, hooks
<1>1. /\ Go("ctor", "copy") /\ disk[conf.in] # NoFile
      /\ disk' = [disk EXCEPT ![conf.out] = Empty]
      /\ UNCHANGED <<conf, letter, mem, buf, hooks, objs, bins, outcome>>
  BY DEF CopyBegin
<1>2. /\ conf.in \in Paths /\ conf.out \in Paths /\ Base[conf.out] \in Paths
      /\ disk \in [Paths -> Content \union {NoFile}] /\ NoFile \notin Content
      /\ \A p \in Paths : disk'[p] = IF p = conf.out THEN Empty ELSE disk[p]
  BY <1>1, ConfPaths, ContentTypes DEF TypeOK
<1>3. TypeOK'
  BY <1>1, <1>2, ContentTypes DEF TypeOK
<1>4. Flow'
  BY <1>1, <1>2, ContentTypes DEF Flow, Finished, Patching, construction, onInput,
     onOutput, onHooks, atEnd
<1>5. Images'
  BY <1>1, <1>2, ContentTypes DEF Images, Flow, Full, Finished, OutputKept, IsImage,
     onHooks
<1>6. Codes'
  BY <1>1, <1>2, ContentTypes DEF Codes, Flow, HookCode, Finished, Patching, OutputKept,
     construction, onInput, onOutput, onHooks, atEnd
<1>7. Full'
  BY <1>1, <1>2, ContentTypes DEF Full, Flow, Images, Finished, Patching, FilesKept,
     OneMore, IsImage, construction, onInput, onOutput, onHooks, atEnd
<1> QED
  BY <1>3, <1>4, <1>5, <1>6, <1>7

LEMMA CopyEndInv ==
  ASSUME IInv, CopyEnd("copy", "tools", conf.in, conf.out)
  PROVE  IInv'
<1> USE DEF IInv, Go, fixed, hooks
<1>1. /\ Go("copy", "tools") /\ disk' = [disk EXCEPT ![conf.out] = disk[conf.in]]
      /\ UNCHANGED <<conf, letter, mem, buf, hooks, objs, bins, outcome>>
  BY DEF CopyEnd
<1>2. /\ conf.in \in Paths /\ conf.out \in Paths /\ Base[conf.out] \in Paths
      /\ disk \in [Paths -> Content \union {NoFile}] /\ NoFile \notin Content
      /\ \A p \in Paths : disk'[p] = IF p = conf.out THEN disk[conf.in] ELSE disk[p]
  BY <1>1, ConfPaths, ContentTypes DEF TypeOK
<1>3. TypeOK'
  BY <1>1, <1>2, ContentTypes DEF TypeOK
<1>4. Flow'
  BY <1>1, <1>2, ContentTypes DEF Flow, Finished, Patching, construction, onInput,
     onOutput, onHooks, atEnd
<1>5. Images'
  BY <1>1, <1>2, ContentTypes DEF Images, Flow, Full, Finished, OutputKept, IsImage,
     onHooks
<1>6. Codes'
  BY <1>1, <1>2, ContentTypes DEF Codes, Flow, HookCode, Finished, Patching, OutputKept,
     construction, onInput, onOutput, onHooks, atEnd
<1>7. Full'
  BY <1>1, <1>2, ContentTypes DEF Full, Flow, Images, Finished, Patching, FilesKept,
     OneMore, IsImage, construction, onInput, onOutput, onHooks, atEnd
<1> QED
  BY <1>3, <1>4, <1>5, <1>6, <1>7

LEMMA OpenOutputInv ==
  ASSUME IInv, OpenOutput, ~Pause("open", TRUE)
  PROVE  IInv'
<1> USE DEF IInv, Go, fixed, hooks
<1>1. /\ Go("open", "rebuild") /\ disk' = [disk EXCEPT ![Base[conf.out]] = Empty]
      /\ UNCHANGED <<conf, letter, mem, buf, hooks, objs, bins, outcome>>
  BY DEF OpenOutput
<1>2. /\ conf.in \in Paths /\ conf.out \in Paths /\ Base[conf.out] \in Paths
      /\ disk \in [Paths -> Content \union {NoFile}] /\ NoFile \notin Content
      /\ \A p \in Paths : disk'[p] = IF p = Base[conf.out] THEN Empty ELSE disk[p]
  BY <1>1, ConfPaths, ContentTypes DEF TypeOK
<1>3. TypeOK'
  BY <1>1, <1>2, ContentTypes DEF TypeOK
<1>4. Flow'
  BY <1>1, <1>2, ContentTypes DEF Flow, Finished, Patching, construction, onInput,
     onOutput, onHooks, atEnd
<1>5. Images'
  <2>1. disk[conf.in] = mem /\ mem # NoFile /\ mem.image /\ conf.in # conf.out
    BY <1>1, <1>2 DEF TypeOK, Images, Go
  <2>2. OutputKept => IsImage(conf.out)
    BY <1>1, <2>1 DEF Images, IsImage, Go
  <2> QED
    BY <1>1, <1>2, <2>1, <2>2 DEF Images, Flow, Finished, OutputKept, IsImage
<1>6. Codes'
  BY <1>1, <1>2, ContentTypes DEF Codes, Flow, HookCode, Finished, Patching, OutputKept,
     construction, onInput, onOutput, onHooks, atEnd
<1>7. Full'
  BY <1>1, <1>2, ContentTypes DEF Full, Flow, Images, Finished, Patching, FilesKept,
     OneMore, IsImage, construction, onInput, onOutput, onHooks, atEnd
<1> QED
  BY <1>3, <1>4, <1>5, <1>6, <1>7

LEMMA RebuildPeInv ==
  ASSUME IInv, RebuildPe, ~Throw("rebuild", TRUE)
  PROVE  IInv'
<1> USE DEF IInv, Go, fixed, hooks
<1>1. PICK n \in Nat :
        /\ n = IF letter = "b" THEN mem.secs - 1 ELSE mem.secs + 1
        /\ Go("rebuild", IF letter = "b" THEN "deploy" ELSE "target")
        /\ disk' = [disk EXCEPT ![Base[conf.out]] = Rebuilt(mem, n)]
        /\ mem' = Empty
        /\ UNCHANGED <<conf, letter, buf, hooks, objs, bins, outcome>>
  <2>1. mem.secs \in Nat
    BY DEF TypeOK, Content
  <2> DEFINE m == IF letter = "b" THEN mem.secs - 1 ELSE mem.secs + 1
  <2>2. Throw("rebuild", m < 0) => Throw("rebuild", TRUE)
    BY DEF Throw
  <2>3. m \in Int /\ (m >= 0 => m \in Nat)
    BY <2>1
  <2> QED
    BY <2>2, <2>3 DEF RebuildPe
<1>2. /\ conf.in \in Paths /\ conf.out \in Paths /\ Base[conf.out] \in Paths
      /\ disk \in [Paths -> Content \union {NoFile}] /\ NoFile \notin Content
      /\ mem \in Content /\ Rebuilt(mem, n) \in Content
      /\ Rebuilt(mem, n).image = mem.image /\ Rebuilt(mem, n).secs = n
      /\ \A p \in Paths : disk'[p] = IF p = Base[conf.out] THEN Rebuilt(mem, n) ELSE disk[p]
  BY <1>1, ConfPaths, ContentTypes, RebuiltContent DEF TypeOK
<1>3. TypeOK'
  BY <1>1, <1>2, ContentTypes DEF TypeOK
<1>4. Flow'
  BY <1>1, <1>2, ContentTypes DEF Flow, Finished, Patching, construction, onInput,
     onOutput, onHooks, atEnd
<1>5. Images'
  BY <1>1, <1>2, ContentTypes DEF Images, Flow, Full, Finished, OutputKept, IsImage,
     onHooks
<1>6. Codes'
  BY <1>1, <1>2, ContentTypes DEF Codes, Flow, HookCode, Finished, Patching, OutputKept,
     construction, onInput, onOutput, onHooks, atEnd
<1>7. Full'
  BY <1>1, <1>2, ContentTypes DEF Full, Flow, Images, Finished, Patching, FilesKept,
     OneMore, IsImage, construction, onInput, onOutput, onHooks, atEnd
<1> QED
  BY <1>3, <1>4, <1>5, <1>6, <1>7

LEMMA CloseInv ==
  ASSUME IInv, Close
  PROVE  IInv'
<1> USE DEF IInv, Go, fixed, hooks
<1>1. /\ Go("close", "deploy") /\ buf' = FALSE
      /\ disk' = IF buf THEN [disk EXCEPT ![conf.out].ext = TRUE] ELSE disk
      /\ UNCHANGED <<conf, letter, mem, hooks, objs, bins, outcome>>
  BY DEF Close
<1>2. /\ conf.in \in Paths /\ conf.out \in Paths /\ Base[conf.out] \in Paths
      /\ disk \in [Paths -> Content \union {NoFile}] /\ NoFile \notin Content
      /\ disk' \in [Paths -> Content \union {NoFile}]
      /\ \A p \in Paths \ {conf.out} : disk'[p] = disk[p]
      /\ disk[conf.out] # NoFile =>
           /\ disk'[conf.out] # NoFile
           /\ disk'[conf.out].image = disk[conf.out].image
           /\ disk'[conf.out].secs = disk[conf.out].secs
           /\ disk'[conf.out].code = disk[conf.out].code
           /\ disk[conf.out].ext => disk'[conf.out].ext
           /\ buf => disk'[conf.out].ext
      /\ disk[conf.out] = NoFile => disk'[conf.out] = NoFile
  <2>1. conf.out \in Paths /\ (buf => disk[conf.out] \in Content)
    BY ConfPaths DEF Flow
  <2>2. CASE buf
    BY <1>1, <2>1, <2>2, ConfPaths, ContentTypes, WithExt DEF TypeOK
  <2>3. CASE ~buf
    BY <1>1, <2>3, ConfPaths, ContentTypes DEF TypeOK
  <2> QED
    BY <2>2, <2>3 DEF TypeOK
<1>3. TypeOK'
  <2>1. /\ pc' = "deploy" /\ buf' = FALSE
        /\ UNCHANGED <<win, rev, opt, err, conf, letter, mem, todo, hook, objs, bins,
                      outcome>>
    BY <1>1
  <2>2. buf' \in BOOLEAN
    BY <2>1
  <2>3. err' \in BOOLEAN /\ win' \in Platforms
    BY <2>1 DEF TypeOK
  <2> QED
    BY <1>2, <2>1, <2>2, <2>3 DEF TypeOK
<1>4. Flow'
  BY <1>1, <1>2 DEF Flow, Finished, Patching, construction, onInput, onOutput, onHooks,
     atEnd
<1>5. Images'
  BY <1>1, <1>2 DEF Images, Flow, Full, Finished, OutputKept, IsImage, onHooks
<1>6. Codes'
  BY <1>1, <1>2 DEF Codes, Flow, HookCode, Finished, Patching, OutputKept, construction,
     onInput, onOutput, onHooks, atEnd
<1>7. Full'
  BY <1>1, <1>2 DEF Full, Flow, Images, Finished, Patching, FilesKept, OneMore, IsImage,
     construction, onInput, onOutput, onHooks, atEnd
<1> QED
  BY <1>3, <1>4, <1>5, <1>6, <1>7

LEMMA ApplyExtInv ==
  ASSUME IInv, ApplyExt, ~Pause("ext", TRUE)
  PROVE  IInv'
<1> USE DEF IInv, Go, fixed, hooks
<1>1. /\ Go("ext", "map")
      /\ \/ disk' = [disk EXCEPT ![conf.out].ext = TRUE] /\ UNCHANGED buf
         \/ buf' = TRUE /\ UNCHANGED disk
      /\ UNCHANGED <<conf, letter, mem, hooks, objs, bins, outcome>>
  BY DEF ApplyExt
<1>2. /\ conf.in \in Paths /\ conf.out \in Paths /\ Base[conf.out] \in Paths
      /\ disk \in [Paths -> Content \union {NoFile}] /\ NoFile \notin Content
      /\ disk' \in [Paths -> Content \union {NoFile}]
      /\ \A p \in Paths \ {conf.out} : disk'[p] = disk[p]
      /\ disk[conf.out] # NoFile =>
           /\ disk'[conf.out] # NoFile
           /\ disk'[conf.out].image = disk[conf.out].image
           /\ disk'[conf.out].secs = disk[conf.out].secs
           /\ disk'[conf.out].code = disk[conf.out].code
           /\ disk[conf.out].ext => disk'[conf.out].ext
           /\ disk'[conf.out].ext \/ buf'
      /\ disk[conf.out] = NoFile => disk'[conf.out] = NoFile
  <2>1. conf.out \in Paths /\ disk[conf.out] \in Content
    BY <1>1, ConfPaths DEF Flow
  <2>2. CASE disk' = [disk EXCEPT ![conf.out].ext = TRUE]
    BY <1>1, <2>1, <2>2, ConfPaths, ContentTypes, WithExt DEF TypeOK
  <2>3. CASE disk' = disk /\ buf' = TRUE
    BY <1>1, <2>1, <2>3, ConfPaths, ContentTypes DEF TypeOK
  <2> QED
    BY <1>1, <2>2, <2>3
<1>3. TypeOK'
  <2>1. buf' \in BOOLEAN
    BY <1>1 DEF TypeOK
  <2>2. /\ pc' = "map"
        /\ UNCHANGED <<win, rev, opt, err, conf, letter, mem, todo, hook, objs, bins,
                      outcome>>
    BY <1>1
  <2> QED
    BY <1>2, <2>1, <2>2 DEF TypeOK
<1>4. Flow'
  BY <1>1, <1>2 DEF Flow, Finished, Patching, construction, onInput, onOutput, onHooks,
     atEnd
<1>5. Images'
  BY <1>1, <1>2 DEF Images, Flow, Full, Finished, OutputKept, IsImage, onHooks
<1>6. Codes'
  BY <1>1, <1>2 DEF Codes, Flow, HookCode, Finished, Patching, OutputKept, construction,
     onInput, onOutput, onHooks, atEnd
<1>7. Full'
  BY <1>1, <1>2 DEF Full, Flow, Images, Finished, Patching, FilesKept, OneMore, IsImage,
     construction, onInput, onOutput, onHooks, atEnd
<1> QED
  BY <1>3, <1>4, <1>5, <1>6, <1>7

LEMMA ApplyInv ==
  ASSUME IInv, Apply, ~Pause("apply", TRUE)
  PROVE  IInv'
<1> USE DEF IInv, Go, fixed, hooks
<1>1. PICK g \in Within[hook] :
        /\ bins[g] # 0
        /\ Go("apply", IF g \in Measurable THEN "hooks" ELSE "loop")
        /\ disk' = IF g \in Measurable
                   THEN [disk EXCEPT ![conf.out].code[hook] = [hook |-> g, rev |-> bins[g]]]
                   ELSE disk
        /\ UNCHANGED <<conf, letter, mem, buf, hooks, objs, bins, outcome>>
  BY DEF Apply
<1>2. /\ conf.in \in Paths /\ conf.out \in Paths /\ Base[conf.out] \in Paths
      /\ disk \in [Paths -> Content \union {NoFile}] /\ NoFile \notin Content
      /\ disk' \in [Paths -> Content \union {NoFile}]
      /\ \A p \in Paths \ {conf.out} : disk'[p] = disk[p]
      /\ disk[conf.out] # NoFile =>
           /\ disk'[conf.out] # NoFile
           /\ disk'[conf.out].image = disk[conf.out].image
           /\ disk'[conf.out].secs = disk[conf.out].secs
           /\ disk'[conf.out].ext = disk[conf.out].ext
           /\ \A h \in Hooks : (h = hook /\ g \in Measurable)
                               \/ disk'[conf.out].code[h] = disk[conf.out].code[h]
           /\ g \in Measurable =>
                disk'[conf.out].code[hook] = [hook |-> g, rev |-> bins[g]]
      /\ disk[conf.out] = NoFile => disk'[conf.out] = NoFile
  <2>1. conf.out \in Paths /\ disk[conf.out] \in Content
    BY <1>1, ConfPaths DEF Flow
  <2>2. CASE g \in Measurable
    <3> DEFINE x == [hook |-> g, rev |-> bins[g]]
               d == [disk[conf.out] EXCEPT !.code[hook] = x]
    <3>1. hook \in Hooks /\ x \in Code
      BY <1>1, SessionAssumption DEF TypeOK, Code
    <3>2. /\ d \in Content /\ d # NoFile
          /\ d.image = disk[conf.out].image /\ d.secs = disk[conf.out].secs
          /\ d.ext = disk[conf.out].ext /\ d.code[hook] = x
          /\ \A h \in Hooks \ {hook} : d.code[h] = disk[conf.out].code[h]
      BY <2>1, <3>1, WithCode
    <3>3. disk' = [disk EXCEPT ![conf.out] = d]
      BY <1>1, <2>2
    <3> HIDE DEF d
    <3> QED
      BY <2>1, <2>2, <3>2, <3>3, ConfPaths, ContentTypes DEF TypeOK
  <2>3. CASE g \notin Measurable
    BY <1>1, <2>3, ConfPaths, ContentTypes DEF TypeOK
  <2> QED
    BY <2>2, <2>3
<1>3. TypeOK'
  BY <1>1, <1>2 DEF TypeOK
<1>4. Flow'
  BY <1>1, <1>2 DEF Flow, Finished, Patching, construction, onInput, onOutput, onHooks,
     atEnd
<1>5. Images'
  BY <1>1, <1>2 DEF Images, Flow, Full, Finished, OutputKept, IsImage, onHooks
<1>6. Codes'
  <2>1. /\ pc = "apply" /\ pc' = (IF g \in Measurable THEN "hooks" ELSE "loop")
        /\ UNCHANGED <<conf, err, letter, todo, hook, rev, objs, bins>>
        /\ disk[conf.out] # NoFile
    BY <1>1 DEF Flow
  <2>2. ASSUME OutputKept, NEW h \in Hooks \ todo, h # hook PROVE HookCode(h)'
    <3>1. HookCode(h)
      BY <2>1, <2>2 DEF Codes, Flow, onHooks
    <3> QED
      BY <1>2, <2>1, <2>2, <3>1 DEF HookCode
  <2>3. ASSUME g \in Measurable PROVE HookCode(hook)'
    <3>1. /\ disk'[conf.out] # NoFile
          /\ disk'[conf.out].code[hook] = [hook |-> g, rev |-> bins[g]]
      BY <1>2, <2>1, <2>3
    <3>2. [hook |-> g, rev |-> bins[g]] # NoCode
      BY <1>1, SessionAssumption, NothingAssumption DEF TypeOK
    <3>3. Within[hook] = {hook} => g = hook /\ bins[g] = rev[hook]
      BY <1>1, <2>1 DEF Codes
    <3> QED
      BY <2>1, <3>1, <3>2, <3>3 DEF HookCode
  <2> QED
    BY <2>1, <2>2, <2>3 DEF Codes, OutputKept
<1>7. Full'
  BY <1>1, <1>2 DEF Full, Flow, Images, Finished, Patching, FilesKept, OneMore, IsImage,
     construction, onInput, onOutput, onHooks, atEnd
<1> QED
  BY <1>3, <1>4, <1>5, <1>6, <1>7

LEMMA DeployBeginInv ==
  ASSUME IInv, CopyBegin("deploy", "deploying", conf.out, conf.copy), conf.copy # NoFile
  PROVE  IInv'
<1> USE DEF IInv, Go, fixed, hooks
<1>1. /\ Go("deploy", "deploying") /\ disk[conf.out] # NoFile
      /\ disk' = [disk EXCEPT ![conf.copy] = Empty]
      /\ UNCHANGED <<conf, letter, mem, buf, hooks, objs, bins, outcome>>
  BY DEF CopyBegin
<1>2. /\ conf.in \in Paths /\ conf.out \in Paths /\ Base[conf.out] \in Paths
      /\ disk \in [Paths -> Content \union {NoFile}] /\ NoFile \notin Content
      /\ conf.copy \in Paths
      /\ \A p \in Paths : disk'[p] = IF p = conf.copy THEN Empty ELSE disk[p]
  BY <1>1, ConfPaths, ContentTypes DEF TypeOK
<1>3. TypeOK'
  BY <1>1, <1>2, ContentTypes DEF TypeOK
<1>4. Flow'
  BY <1>1, <1>2, ContentTypes DEF Flow, Finished, Patching, construction, onInput,
     onOutput, onHooks, atEnd
<1>5. Images'
  BY <1>1, <1>2, ContentTypes DEF Images, Flow, Full, Finished, OutputKept, IsImage,
     onHooks
<1>6. Codes'
  BY <1>1, <1>2, ContentTypes DEF Codes, Flow, HookCode, Finished, Patching, OutputKept,
     construction, onInput, onOutput, onHooks, atEnd
<1>7. Full'
  BY <1>1, <1>2, ContentTypes DEF Full, Flow, Images, Finished, Patching, FilesKept,
     OneMore, IsImage, construction, onInput, onOutput, onHooks, atEnd
<1> QED
  BY <1>3, <1>4, <1>5, <1>6, <1>7

LEMMA DeployEndInv ==
  ASSUME IInv, CopyEnd("deploying", "finish", conf.out, conf.copy), conf.copy # NoFile
  PROVE  IInv'
<1> USE DEF IInv, Go, fixed, hooks
<1>1. /\ Go("deploying", "finish") /\ disk' = [disk EXCEPT ![conf.copy] = disk[conf.out]]
      /\ UNCHANGED <<conf, letter, mem, buf, hooks, objs, bins, outcome>>
  BY DEF CopyEnd
<1>2. /\ conf.in \in Paths /\ conf.out \in Paths /\ Base[conf.out] \in Paths
      /\ disk \in [Paths -> Content \union {NoFile}] /\ NoFile \notin Content
      /\ conf.copy \in Paths
      /\ \A p \in Paths : disk'[p] = IF p = conf.copy THEN disk[conf.out] ELSE disk[p]
  BY <1>1, ConfPaths, ContentTypes DEF TypeOK
<1>3. TypeOK'
  BY <1>1, <1>2, ContentTypes DEF TypeOK
<1>4. Flow'
  BY <1>1, <1>2, ContentTypes DEF Flow, Finished, Patching, construction, onInput,
     onOutput, onHooks, atEnd
<1>5. Images'
  BY <1>1, <1>2, ContentTypes DEF Images, Flow, Full, Finished, OutputKept, IsImage,
     onHooks
<1>6. Codes'
  BY <1>1, <1>2, ContentTypes DEF Codes, Flow, HookCode, Finished, Patching, OutputKept,
     construction, onInput, onOutput, onHooks, atEnd
<1>7. Full'
  BY <1>1, <1>2, ContentTypes DEF Full, Flow, Images, Finished, Patching, FilesKept,
     OneMore, IsImage, construction, onInput, onOutput, onHooks, atEnd
<1> QED
  BY <1>3, <1>4, <1>5, <1>6, <1>7

LEMMA NoDeployInv ==
  ASSUME IInv, Go("deploy", "finish"), conf.copy = NoFile,
         UNCHANGED <<disk, conf, letter, mem, buf, hooks, objs, bins, outcome>>
  PROVE  IInv'
<1> USE DEF IInv, Go, fixed, hooks
<1>1. TypeOK'
  BY DEF TypeOK
<1>2. Flow'
  BY DEF Flow, Finished, Patching, construction, onInput, onOutput, onHooks, atEnd
<1>3. Images'
  BY DEF Images, Flow, Full, Finished, OutputKept, IsImage, onHooks
<1>4. Codes'
  BY DEF Codes, Flow, HookCode, Finished, Patching, OutputKept, construction, onInput,
     onOutput, onHooks, atEnd
<1>5. Full'
  BY DEF Full, Flow, Finished, Patching, FilesKept, OneMore, IsImage, construction,
     onInput, onOutput, onHooks, atEnd
<1> QED
  BY <1>1, <1>2, <1>3, <1>4, <1>5

(***************************************************************************)
(* The steps of Next, the failures among them.                             *)
(***************************************************************************)
LEMMA ConstructInv ==
  ASSUME IInv, Construct
  PROVE  IInv'
<1>1. CASE InputMissing \/ CheckTools
  BY <1>1, InputMissingInv, CheckToolsInv
<1>2. CASE CopyInput
  <2>1. CASE Throw("ctor", TRUE)
    BY <2>1, ThrowFrom
  <2>2. CASE CopyBegin("ctor", "copy", conf.in, conf.out)
    BY <2>2, CopyBeginInv
  <2>3. CASE CopyEnd("copy", "tools", conf.in, conf.out)
    BY <2>3, CopyEndInv
  <2> QED
    BY <1>2, <2>1, <2>2, <2>3 DEF CopyInput, CopyThrows
<1> QED
  BY <1>1, <1>2 DEF Construct

LEMMA SectionsInv ==
  ASSUME IInv, Sections
  PROVE  IInv'
<1>1. CASE ReadImage
  <2>1. CASE Pause("read", TRUE)
    BY <2>1, PauseInv
  <2>2. CASE ~Pause("read", TRUE) /\ pc' # "off"
    BY <1>1, <2>2, ReadImageInv
  <2>3. CASE ~Pause("read", TRUE) /\ pc' = "off"
    <3>1. Throw("read", TRUE)
      BY <1>1, <2>3 DEF ReadImage, Throw, Go
    <3> QED
      BY <3>1, ThrowFrom
  <2> QED
    BY <2>1, <2>2, <2>3
<1>2. CASE OpenOutput
  <2>1. CASE Pause("open", TRUE)
    BY <2>1, PauseInv
  <2> QED
    BY <1>2, <2>1, OpenOutputInv
<1>3. CASE RebuildPe
  <2>1. CASE Throw("rebuild", TRUE)
    BY <2>1, ThrowFrom
  <2> QED
    BY <1>3, <2>1, RebuildPeInv
<1>4. CASE OpenTarget
  <2>1. CASE Pause("target", TRUE)
    BY <2>1, PauseInv
  <2> QED
    BY <1>4, <2>1, OpenTargetInv
<1>5. CASE ApplyExt
  <2>1. CASE Pause("ext", TRUE)
    BY <2>1, PauseInv
  <2> QED
    BY <1>5, <2>1, ApplyExtInv
<1>6. CASE ParseMap
  <2>1. CASE Pause("map", TRUE)
    BY <2>1, PauseInv
  <2> QED
    BY <1>6, <2>1, ParseMapInv
<1> QED
  BY <1>1, <1>2, <1>3, <1>4, <1>5, <1>6 DEF Sections

LEMMA HookFilesInv ==
  ASSUME IInv, HookFiles \/ LoopFails
  PROVE  IInv'
<1>1. CASE BuildO
  <2>1. CASE Pause("hooks", todo # {})
    BY <2>1, PauseInv
  <2> QED
    BY <1>1, <2>1, BuildOInv
<1>2. CASE Link
  <2>1. CASE Pause("link", TRUE)
    BY <2>1, PauseInv
  <2> QED
    BY <1>2, <2>1, LinkInv
<1>3. CASE Apply
  <2>1. CASE Pause("apply", TRUE)
    BY <2>1, PauseInv
  <2> QED
    BY <1>3, <2>1, ApplyInv
<1>4. CASE HooksDone
  BY <1>4, HooksDoneInv
<1>5. CASE LoopFails
  BY <1>5, PauseInv DEF LoopFails
<1> QED
  BY <1>1, <1>2, <1>3, <1>4, <1>5 DEF HookFiles

LEMMA LoopInv ==
  ASSUME IInv, Loop
  PROVE  IInv'
<1>1. CASE Convert
  <2>1. CASE Pause("convert", TRUE)
    BY <2>1, PauseInv
  <2> QED
    BY <1>1, <2>1, ConvertInv
<1>2. CASE Deploy
  <2>1. CASE Throw("deploy", TRUE)
    BY <2>1, ThrowFrom
  <2>2. CASE conf.copy # NoFile /\ CopyBegin("deploy", "deploying", conf.out, conf.copy)
    BY <2>2, DeployBeginInv
  <2>3. CASE CopyEnd("deploying", "finish", conf.out, conf.copy)
    <3>1. conf.copy # NoFile
      BY <2>3 DEF IInv, Flow, CopyEnd, Go
    <3> QED
      BY <2>3, <3>1, DeployEndInv
  <2>4. CASE /\ Go("deploy", "finish") /\ conf.copy = NoFile
             /\ UNCHANGED <<disk, conf, letter, mem, buf, hooks, objs, bins, outcome>>
    BY <2>4, NoDeployInv
  <2> QED
    BY <1>2, <2>1, <2>2, <2>3, <2>4 DEF Deploy, CopyThrows
<1>3. CASE Dispatch \/ Pattern \/ Close \/ Finish
  BY <1>3, DispatchInv, PatternInv, CloseInv, FinishInv
<1> QED
  BY <1>1, <1>2, <1>3 DEF Loop

LEMMA NextInv == IInv /\ [Next]_vars => IInv'
<1> SUFFICES ASSUME IInv, [Next]_vars PROVE IInv'
  OBVIOUS
<1>1. CASE Program \/ LoopFails
  BY <1>1, ConstructInv, SectionsInv, HookFilesInv, LoopInv DEF Program
<1>2. CASE Killed
  <2>1. Throw(pc, pc # "off")
    BY <1>2 DEF Killed
  <2> QED
    BY <2>1, ThrowInv
<1>3. CASE \E s \in Settings : Start(s)
  BY <1>3, StartInv
<1>4. CASE \E o \in {"0", "2", "6", "7", "8", "9", "b"} : Choose(o)
  BY <1>4, ChooseInv
<1>5. CASE \E h \in Hooks : Edit(h)
  BY <1>5, EditInv
<1>6. CASE UNCHANGED vars
  BY <1>6 DEF vars, menu, hooks, build, IInv, TypeOK, Flow, Images, Codes, Full, Finished,
     Patching, OutputKept, FilesKept, IsImage, HookCode, OneMore
<1> QED
  BY <1>1, <1>2, <1>3, <1>4, <1>5, <1>6 DEF Next

LEMMA Invariance == Spec => []IInv
  BY InitInv, NextInv, PTL DEF Spec

(***************************************************************************)
(* Theorems.                                                               *)
(***************************************************************************)
(* No choice, failure or kill, in any order, takes a variable out of its   *)
(* type: no file that is not there is written into, no image gets fewer    *)
(* sections than none.                                                     *)
THEOREM TypeCorrect == Spec => []TypeOK
<1>1. IInv => TypeOK
  BY DEF IInv
<1> QED
  BY <1>1, Invariance, PTL

(* "Done." after a full patch means that all of it is in target_out, if    *)
(* that has no directory and copytodir is another file, for any number of  *)
(* hooks, on both platforms, whether or not the .ext code waited in a      *)
(* buffer.                                                                 *)
THEOREM DoneIsFull == Spec => []PlainPatchIsFull
<1>1. IInv => PlainPatchIsFull
  <2> SUFFICES ASSUME IInv, Done({"6"}), Base[conf.out] = conf.out,
                      conf.copy \notin {conf.in, conf.out}
               PROVE  FullyPatched
    BY DEF PlainPatchIsFull
  <2>1. Finished /\ Patching({"6"}) /\ Patching({"6", "8"}) /\ FilesKept /\ OutputKept
    BY DEF Done, Finished, Patching, FilesKept, OutputKept
  <2>2. disk[conf.out].secs = disk[conf.in].secs + 1 /\ (win => disk[conf.out].ext)
    BY <2>1 DEF IInv, Full, OneMore
  <2>3. \A h \in Hooks : HookCode(h)
    BY <2>1 DEF IInv, Codes, Flow, Finished
  <2> QED
    BY <2>2, <2>3 DEF FullyPatched, HookCode
<1> QED
  BY <1>1, Invariance, PTL

(* A hook whose name is in no other hook's name gets the code of its own   *)
(* latest source, however many hooks there are, whichever their names      *)
(* contain, and whatever earlier runs left in build/.                      *)
THEOREM OwnCode == Spec => []HookIsOwn
<1>1. IInv => HookIsOwn
  <2> SUFFICES ASSUME IInv, Done({"6", "8"}), conf.copy # conf.out, NEW h \in Hooks,
                      Within[h] = {h}
               PROVE  disk[conf.out].code[h] = [hook |-> h, rev |-> rev[h]]
    BY DEF HookIsOwn
  <2>1. Finished /\ Patching({"6", "8"}) /\ OutputKept
    BY DEF Done, Finished, Patching, OutputKept
  <2>2. HookCode(h)
    BY <2>1 DEF IInv, Codes, Flow, Finished
  <2> QED
    BY <2>2 DEF HookCode
<1> QED
  BY <1>1, Invariance, PTL

(* No file that a failed or killed rebuild emptied ever gets to copytodir  *)
(* with "Done.", for any names of the files.                               *)
THEOREM ImagesAreDeployed == Spec => []DeployedIsImage
<1>1. IInv => DeployedIsImage
  <2> SUFFICES ASSUME IInv, Finished, conf.copy \notin {NoFile, conf.out}, IsImage(conf.in)
               PROVE  IsImage(conf.copy)
    BY DEF DeployedIsImage, Finished
  <2>1. IsImage(conf.out) /\ disk[conf.copy] = disk[conf.out]
    BY DEF IInv, Images, Finished, OutputKept
  <2> QED
    BY <2>1 DEF IsImage
<1> QED
  BY <1>1, Invariance, PTL
=============================================================================
