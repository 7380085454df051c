---------------------------- MODULE PatchSession ----------------------------
(***************************************************************************)
(* The program as its user sees it: main's menu (main.cpp), the copy that  *)
(* the constructor of Patcher makes (patcher.cpp:75-110), "full patch",    *)
(* "patch ignoring hooks", "only hooks", "remove last section", the hooks  *)
(* pipeline (hooks.cpp) and the copy of the result to copytodir.           *)
(*                                                                         *)
(* A file is what the steps put into it: sections, the code of the .ext    *)
(* sector, the code of each hook.  BinSection and ApplyHook open up the    *)
(* steps that are single actions here.  Two things end an operation early: *)
(* debug_pause, whose longjmp returns to the menu and runs no destructor,  *)
(* and an exception nobody catches, which ends the process and is, like a  *)
(* kill, possible at every step.                                           *)
(***************************************************************************)
EXTENDS Integers, FiniteSets

CONSTANTS
  Paths,       (* file names the user gives                                *)
  Base,        (* Base[p]: p without its directory                         *)
  Originals,   (* the files that are there at first                        *)
  Platforms,   (* is OS_WIN defined in the build, any of TRUE, FALSE       *)
  Settings,    (* target_in, target_out, copytodir, delbuild as settings   *)
  Typed,       (* target_in and target_out as typed after menu choice 0    *)
  Hooks,       (* names of the files hooks/hook_*                          *)
  Within,      (* Within[h]: the hooks whose names contain the name of h   *)
  Measurable,  (* the hooks whose length apply_Hook can measure            *)
  MaxSections, (* maximum_number_of_sections                               *)
  MaxRev,      (* bound: how often the user edits a hook, plus one         *)
  NoFile, NoCode

ASSUME SessionAssumption ==
  /\ Base \in [Paths -> Paths]
  /\ Originals \subseteq Paths
  /\ Platforms \subseteq BOOLEAN
  /\ Settings \subseteq [in: Paths, out: Paths, copy: Paths \union {NoFile}, del: BOOLEAN]
  /\ Typed \subseteq [in: Paths, out: Paths]
  /\ Within \in [Hooks -> SUBSET Hooks] /\ \A h \in Hooks : h \in Within[h]
  /\ MaxSections \in Nat \ {0} /\ MaxRev \in Nat \ {0}

VARIABLES
  disk,     (* the files                                                   *)
  win,      (* OS_WIN                                                      *)
  conf,     (* the global settings                                         *)
  err,      (* patcher_error                                               *)
  pc,       (* the step the program is at, "off" when it does not run      *)
  opt,      (* what the user chose                                         *)
  letter,   (* reply.at(0), which the dispatch looks at                    *)
  mem,      (* the image that create_pe has read, Empty when it is gone    *)
  buf,      (* the .ext code waits in the stream buffer of file_out        *)
  todo,     (* hook files that parse_hooks has not come to                 *)
  hook,     (* the hook file it is at                                      *)
  rev,      (* the revision of the source of each hook                     *)
  objs,     (* build/: the revision each hook's .o was built from, 0: none *)
  bins,     (* and its .bin                                                *)
  outcome   (* history: how the last operation ended                       *)

menu  == <<opt, letter>>
hooks == <<todo, hook>>
build == <<rev, objs, bins>>
fixed == <<win, rev>>
vars  == <<disk, win, conf, err, pc, menu, mem, buf, hooks, build, outcome>>

Code    == [hook: Hooks, rev: 1..MaxRev] \union {NoCode}
Content == [image: BOOLEAN, secs: Nat, ext: BOOLEAN, code: [Hooks -> Code]]

ASSUME NothingAssumption ==
  /\ NoFile \notin Content \union Paths
  /\ NoCode \notin [hook: Hooks, rev: 1..MaxRev]

Original == [image |-> TRUE, secs |-> 1, ext |-> FALSE, code |-> [h \in Hooks |-> NoCode]]
Empty    == [Original EXCEPT !.image = FALSE, !.secs = 0]

(* rebuild_pe writes the sections and nothing else: sectionRoffset lies in *)
(* the section behind the original one, or behind the end of the image.    *)
Rebuilt(c, n) == [c EXCEPT !.secs = n, !.ext = @ /\ c.secs > 1 /\ n > 1]

(***************************************************************************)
(* How an operation goes on.                                               *)
(***************************************************************************)
Go(from, to) == pc = from /\ pc' = to /\ UNCHANGED <<fixed, opt, err>>

(* debug_pause: what waited in a stream buffer is never written            *)
Pause(from, condition) ==
  /\ Go(from, "menu")
  /\ condition
  /\ outcome' = "error"
  /\ buf' = FALSE /\ mem' = Empty /\ todo' = {}
  /\ UNCHANGED <<disk, conf, letter, hook, objs, bins>>

Throw(from, condition) ==
  /\ Go(from, "off")
  /\ condition
  /\ outcome' = "none"
  /\ buf' = FALSE /\ mem' = Empty /\ todo' = {}
  /\ UNCHANGED <<disk, conf, letter, hook, objs, bins>>

(* copy_file with overwrite_if_exists truncates its target and then reads. *)
(* Windows refuses to copy a file onto itself.                             *)
CopyBegin(from, to, p, q) ==
  /\ Go(from, to)
  /\ disk[p] # NoFile /\ (win => p # q)
  /\ disk' = [disk EXCEPT ![q] = Empty]
  /\ UNCHANGED <<conf, letter, mem, buf, hooks, objs, bins, outcome>>

(* A file that cannot be opened, among them the one a game is running from *)
CopyThrows(from) == Throw(from, TRUE)

CopyEnd(from, to, p, q) ==
  /\ Go(from, to)
  /\ disk' = [disk EXCEPT ![q] = disk[p]]
  /\ UNCHANGED <<conf, letter, mem, buf, hooks, objs, bins, outcome>>

(***************************************************************************)
(* ParseSettings and the constructor of Patcher                            *)
(***************************************************************************)
Start(s) ==
  /\ pc = "off" /\ pc' = "ctor"
  /\ conf' = s
  /\ err' = FALSE
  /\ opt' = "start" /\ letter' = "-"
  /\ UNCHANGED <<disk, fixed, mem, buf, hooks, objs, bins, outcome>>

InputMissing ==
  /\ pc = "ctor" /\ pc' = "tools"
  /\ disk[conf.in] = NoFile
  /\ err' = TRUE
  /\ UNCHANGED <<disk, fixed, conf, menu, mem, buf, hooks, objs, bins, outcome>>

CopyInput ==
  \/ CopyBegin("ctor", "copy", conf.in, conf.out)
  \/ disk[conf.in] # NoFile /\ CopyThrows("ctor")
  \/ CopyEnd("copy", "tools", conf.in, conf.out)

CheckTools ==
  /\ pc = "tools" /\ pc' = "menu"
  /\ \E found \in BOOLEAN : err' = (err \/ ~found)
  /\ UNCHANGED <<disk, fixed, conf, menu, mem, buf, hooks, objs, bins, outcome>>

(***************************************************************************)
(* The menu.  A choice with a name to type, 2 and 9, reads it into reply;  *)
(* the tests that follow look at the first character of that name.         *)
(***************************************************************************)
Choose(o) ==
  /\ pc = "menu"
  /\ pc' = CASE o = "0" -> "ctor" [] o = "2" -> "convert" [] OTHER -> "dispatch"
  /\ IF o = "0" THEN \E t \in Typed : conf' = [conf EXCEPT !.in = t.in, !.out = t.out]
                ELSE UNCHANGED conf
  /\ opt' = o /\ letter' = o
  /\ outcome' = "none"
  /\ UNCHANGED <<disk, fixed, err, mem, buf, hooks, objs, bins>>

Convert ==
  \/ /\ Go("convert", "dispatch")
     /\ letter' \in {"6", "7", "8", "9", "b", "-"}
     /\ UNCHANGED <<disk, conf, mem, buf, hooks, objs, bins, outcome>>
  \/ Pause("convert", TRUE)

Dispatch ==
  /\ Go("dispatch", CASE err \/ letter = "-"                  -> "deploy"
                      [] ~err /\ letter \in {"6", "7", "b"}   -> "read"
                      [] ~err /\ letter = "8"                 -> "hooks"
                      [] ~err /\ letter = "9"                 -> "pattern")
  /\ todo' = IF ~err /\ letter \in {"6", "8"} THEN Hooks ELSE {}
  /\ UNCHANGED <<disk, conf, letter, mem, buf, hook, objs, bins, outcome>>

(* FindAndRemoveBytePattern changes none of these files.  Of the tests in  *)
(* main only the one for b is still to come.                               *)
Pattern ==
  /\ Go("pattern", "dispatch")
  /\ letter' \in {"b", "-"}
  /\ UNCHANGED <<disk, conf, mem, buf, hooks, objs, bins, outcome>>

(***************************************************************************)
(* create_Section and remove_last_Section: the output has no directory.    *)
(* Any file may refuse to be opened.                                       *)
(***************************************************************************)
ReadImage ==
  LET c == disk[conf.in]
      full == letter # "b" /\ c.secs >= MaxSections
  IN  \/ Pause("read", TRUE)
      \/ Throw("read", c # NoFile /\ (~c.image \/ full))
      \/ /\ Go("read", "open")
         /\ c # NoFile /\ c.image /\ ~full
         /\ mem' = c
         /\ UNCHANGED <<disk, conf, letter, buf, hooks, objs, bins, outcome>>

OpenOutput ==
  \/ Pause("open", TRUE)
  \/ /\ Go("open", "rebuild")
     /\ disk' = [disk EXCEPT ![Base[conf.out]] = Empty]
     /\ UNCHANGED <<conf, letter, mem, buf, hooks, objs, bins, outcome>>

(* Faulty RebuildPes, for the checks of TypeOK and of DeployedIsImage: the *)
(* last section of an image without sections is removed; an exception is   *)
(* caught and reported with debug_pause.                                   *)
RebuildNegative ==
  LET n == IF letter = "b" THEN mem.secs - 1 ELSE mem.secs + 1 IN
  /\ Go("rebuild", IF letter = "b" THEN "deploy" ELSE "target")
  /\ disk' = [disk EXCEPT ![Base[conf.out]] = Rebuilt(mem, n)]
  /\ mem' = Empty
  /\ UNCHANGED <<conf, letter, buf, hooks, objs, bins, outcome>>

RebuildCaught ==
  LET n == IF letter = "b" THEN mem.secs - 1 ELSE mem.secs + 1 IN
  \/ Pause("rebuild", TRUE)
  \/ /\ Go("rebuild", IF letter = "b" THEN "deploy" ELSE "target")
     /\ n >= 0
     /\ disk' = [disk EXCEPT ![Base[conf.out]] = Rebuilt(mem, n)]
     /\ mem' = Empty
     /\ UNCHANGED <<conf, letter, buf, hooks, objs, bins, outcome>>

RebuildPe ==
  LET n == IF letter = "b" THEN mem.secs - 1 ELSE mem.secs + 1 IN
  \/ Throw("rebuild", n < 0)
  \/ /\ Go("rebuild", IF letter = "b" THEN "deploy" ELSE "target")
     /\ n >= 0
     /\ disk' = [disk EXCEPT ![Base[conf.out]] = Rebuilt(mem, n)]
     /\ mem' = Empty
     /\ UNCHANGED <<conf, letter, buf, hooks, objs, bins, outcome>>

(***************************************************************************)
(* The rest of "full patch" and "patch ignoring hooks".  What apply_Ext    *)
(* writes goes to the file if it is long, and waits in the buffer of       *)
(* file_out until that stream is closed if it is short.                    *)
(***************************************************************************)
OpenTarget ==
  \/ Pause("target", TRUE)
  \/ /\ Go("target", IF letter = "7" \/ win THEN "ext" ELSE "hooks")
     /\ disk[conf.out] # NoFile
     /\ UNCHANGED <<disk, conf, letter, mem, buf, hooks, objs, bins, outcome>>

ApplyExt ==
  \/ Pause("ext", TRUE)
  \/ /\ Go("ext", "map")
     /\ \/ disk' = [disk EXCEPT ![conf.out].ext = TRUE] /\ UNCHANGED buf
        \/ buf' = TRUE /\ UNCHANGED disk
     /\ UNCHANGED <<conf, letter, mem, hooks, objs, bins, outcome>>

ParseMap ==
  \/ Pause("map", TRUE)
  \/ /\ Go("map", IF letter = "6" THEN "hooks" ELSE "close")
     /\ UNCHANGED <<disk, conf, letter, mem, buf, hooks, objs, bins, outcome>>

(* A faulty BuildO, for the check of ChoiceEnds: the walk over the         *)
(* directory starts again after each file.                                 *)
BuildOAgain ==
  \/ Pause("hooks", todo # {})
  \/ \E h \in todo :
       /\ Go("hooks", "link")
       /\ todo' = Hooks /\ hook' = h
       /\ objs' = [objs EXCEPT ![h] = rev[h]]
       /\ UNCHANGED <<disk, conf, letter, mem, buf, bins, outcome>>

(***************************************************************************)
(* Hooks::parse_hooks, for one file after the other, in any order.         *)
(* parse_build links the first .o whose name contains the hook's, and      *)
(* applies the first such .bin, in the order of the directory build/.      *)
(***************************************************************************)
BuildO ==
  \/ Pause("hooks", todo # {})
  \/ \E h \in todo :
       /\ Go("hooks", "link")
       /\ todo' = todo \ {h} /\ hook' = h
       /\ objs' = [objs EXCEPT ![h] = rev[h]]
       /\ UNCHANGED <<disk, conf, letter, mem, buf, bins, outcome>>

HooksDone ==
  /\ Go("hooks", "close")
  /\ todo = {}
  /\ UNCHANGED <<disk, conf, letter, mem, buf, hooks, objs, bins, outcome>>

(* A faulty Link, for the check of HookIsOwn: a .bin that is there is not  *)
(* linked again.                                                           *)
LinkIfAbsent ==
  \/ Pause("link", TRUE)
  \/ \E g \in Within[hook] :
       /\ Go("link", "apply")
       /\ disk[conf.out] # NoFile
       /\ objs[g] # 0
       /\ bins' = [bins EXCEPT ![g] = IF @ = 0 THEN objs[g] ELSE @]
       /\ UNCHANGED <<disk, conf, letter, mem, buf, hooks, objs, outcome>>

Link ==
  \/ Pause("link", TRUE)
  \/ \E g \in Within[hook] :
       /\ Go("link", "apply")
       /\ disk[conf.out] # NoFile
       /\ objs[g] # 0
       /\ bins' = [bins EXCEPT ![g] = objs[g]]
       /\ UNCHANGED <<disk, conf, letter, mem, buf, hooks, objs, outcome>>

Apply ==
  \/ Pause("apply", TRUE)
  \/ \E g \in Within[hook] :
       /\ bins[g] # 0
       /\ Go("apply", IF g \in Measurable THEN "hooks" ELSE "loop")
       /\ disk' = IF g \in Measurable
                  THEN [disk EXCEPT ![conf.out].code[hook] = [hook |-> g, rev |-> bins[g]]]
                  ELSE disk
       /\ UNCHANGED <<conf, letter, mem, buf, hooks, objs, bins, outcome>>

(* in the loop of apply_Hook only a tool that fails leads back to the menu *)
LoopFails == Pause("loop", TRUE)

(* A faulty Close, for the check of PlainPatchIsFull: the buffer is lost.  *)
CloseUnflushed ==
  /\ Go("close", "deploy")
  /\ buf' = FALSE
  /\ UNCHANGED <<disk, conf, letter, mem, hooks, objs, bins, outcome>>

(* file_out goes out of scope *)
Close ==
  /\ Go("close", "deploy")
  /\ disk' = IF buf THEN [disk EXCEPT ![conf.out].ext = TRUE] ELSE disk
  /\ buf' = FALSE
  /\ UNCHANGED <<conf, letter, mem, hooks, objs, bins, outcome>>

(***************************************************************************)
(* The end of main's loop, after errors of the constructor as well         *)
(***************************************************************************)
Deploy ==
  \/ /\ Go("deploy", "finish")
     /\ conf.copy = NoFile
     /\ UNCHANGED <<disk, conf, letter, mem, buf, hooks, objs, bins, outcome>>
  \/ conf.copy # NoFile /\ CopyBegin("deploy", "deploying", conf.out, conf.copy)
  \/ conf.copy # NoFile /\ CopyThrows("deploy")
  \/ CopyEnd("deploying", "finish", conf.out, conf.copy)

Finish ==
  /\ Go("finish", "menu")
  /\ outcome' = "done"
  /\ objs' = IF conf.del THEN [h \in Hooks |-> 0] ELSE objs
  /\ bins' = IF conf.del THEN [h \in Hooks |-> 0] ELSE bins
  /\ UNCHANGED <<disk, conf, letter, mem, buf, hooks>>

(***************************************************************************)
(* The user edits a hook; the process is killed.                           *)
(***************************************************************************)
Edit(h) ==
  /\ pc \in {"menu", "off"}
  /\ rev[h] < MaxRev
  /\ rev' = [rev EXCEPT ![h] = @ + 1]
  /\ outcome' = "none"
  /\ UNCHANGED <<disk, win, conf, err, pc, menu, mem, buf, hooks, objs, bins>>

Killed == Throw(pc, pc # "off")

-----------------------------------------------------------------------------
Init ==
  /\ disk = [p \in Paths |-> IF p \in Originals THEN Original ELSE NoFile]
  /\ win \in Platforms
  /\ conf \in Settings
  /\ err = FALSE /\ pc = "off" /\ opt = "start" /\ letter = "-"
  /\ mem = Empty /\ buf = FALSE
  /\ todo = {} /\ hook \in Hooks
  /\ rev = [h \in Hooks |-> 1]
  /\ objs = [h \in Hooks |-> 0] /\ bins = [h \in Hooks |-> 0]
  /\ outcome = "none"

Construct == InputMissing \/ CopyInput \/ CheckTools
Sections  == ReadImage \/ OpenOutput \/ RebuildPe \/ OpenTarget \/ ApplyExt \/ ParseMap
HookFiles == BuildO \/ HooksDone \/ Link \/ Apply
Loop      == Convert \/ Dispatch \/ Pattern \/ Close \/ Deploy \/ Finish

Program == Construct \/ Sections \/ HookFiles \/ Loop

Next ==
  \/ Program \/ LoopFails \/ Killed
  \/ \E s \in Settings : Start(s)
  \/ \E o \in {"0", "2", "6", "7", "8", "9", "b"} : Choose(o)
  \/ \E h \in Hooks : Edit(h)

Spec == Init /\ [][Next]_vars

(* The one thread runs on; a tool need not fail, a user need not choose.   *)
FairSpec == Spec /\ WF_vars(Program)

-----------------------------------------------------------------------------
(***************************************************************************)
(* Properties.                                                             *)
(***************************************************************************)
(* Every variable keeps its type.                                          *)
TypeOK ==
  /\ disk \in [Paths -> Content \union {NoFile}]
  /\ win \in Platforms /\ err \in BOOLEAN /\ buf \in BOOLEAN
  /\ conf \in [in: Paths, out: Paths, copy: Paths \union {NoFile}, del: BOOLEAN]
  /\ pc \in {"off", "ctor", "copy", "tools", "menu", "convert", "dispatch", "pattern",
             "read", "open", "rebuild", "target", "ext", "map", "hooks", "link",
             "apply", "loop", "close", "deploy", "deploying", "finish"}
  /\ opt \in {"start", "0", "2", "6", "7", "8", "9", "b"}
  /\ letter \in {"-", "0", "2", "6", "7", "8", "9", "b"}
  /\ mem \in Content
  /\ todo \subseteq Hooks /\ hook \in Hooks
  /\ rev \in [Hooks -> 1..MaxRev]
  /\ objs \in [Hooks -> 0..MaxRev] /\ bins \in [Hooks -> 0..MaxRev]
  /\ outcome \in {"none", "error", "done"}

(* "Done." after the given choice, by a constructor without errors         *)
Done(choices) == pc = "menu" /\ outcome = "done" /\ letter \in choices /\ ~err

FullyPatched ==
  LET c == disk[conf.out] IN
  /\ c.secs = disk[conf.in].secs + 1
  /\ win => c.ext
  /\ \A h \in Hooks : c.code[h] # NoCode

(* A full patch that ends in "Done." has left nothing out, if target_out   *)
(* has no directory: the section is in target_out, the .ext code too,      *)
(* whether it was written at once or waited in a buffer while the hooks    *)
(* were written through other streams, and every hook has its code.  (A    *)
(* copytodir that is target_in or target_out overwrites them.)             *)
PlainPatchIsFull ==
  (Done({"6"}) /\ Base[conf.out] = conf.out /\ conf.copy \notin {conf.in, conf.out})
    => FullyPatched

(* The same for every name of an output the user may give.                 *)
FullPatchIsFull == Done({"6"}) => FullyPatched

(* A hook whose name is contained in no other hook's name gets the code    *)
(* that its own source has now, not another hook's and not one left in     *)
(* build/ by an earlier run, an edit or a failure before, unless copytodir *)
(* is target_out itself.                                                   *)
HookIsOwn ==
  (Done({"6", "8"}) /\ conf.copy # conf.out) =>
    \A h \in Hooks :
      Within[h] = {h} => disk[conf.out].code[h] = [hook |-> h, rev |-> rev[h]]

(* What is left in copytodir after "Done." is an image if target_in is one,*)
(* never a file that a failed or killed rebuild left empty: an exception   *)
(* in a rebuild is not caught, so nothing is copied in that session, and   *)
(* the next start copies target_in over target_out.  A copytodir that is   *)
(* target_out itself is emptied by the copy.                               *)
IsImage(p) == disk[p] # NoFile /\ disk[p].image
DeployedIsImage ==
  (pc = "menu" /\ outcome = "done" /\ conf.copy \notin {NoFile, conf.out} /\ IsImage(conf.in))
    => IsImage(conf.copy)

(* Every choice leads back to the menu or ends the process, unless a hook  *)
(* cannot be measured.                                                     *)
ChoiceEnds == pc \notin {"off", "menu"} ~> pc \in {"off", "menu", "loop"}

(* "2 - convert x64dbg disassembly or masm assembly style to gcc inline"   *)
(* (main.cpp:28): to convert a file changes no executable, apart from the  *)
(* copy to copytodir.                                                      *)
ConvertOnlyConverts ==
  [][opt = "2" /\ pc \notin {"deploy", "deploying"} => disk' = disk]_vars
=============================================================================
