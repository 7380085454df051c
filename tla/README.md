# A verification development for FA_Patcher

FA_Patcher extends a Windows executable (Supreme Commander's
`ForgedAlliance.exe`): it adds a section to the PE file, writes a block of
compiled C++ into it (the *.ext sector*), compiles small assembly *hooks* and
writes each one over the original code at a given offset, and copies the result
to where the game is started from. One program, one thread, no tests in the
repository; its state lives in the files it rewrites, and it leaves functions by
`longjmp`, by exceptions nobody catches, and by being killed. What is
hard to test here is what such an exit leaves on disk, what the next menu
choice makes of it, and the arithmetic of the PE layout at its edges.

The modules below model that core, and the tools the same menu offers: packing files
into a copy of the program, the map of the linker, the byte patcher, and the
interactive assembler for hooks. All paths are relative to the repository.

## 1. Inventory

| Component | Source | State | Operations | Correct means |
|---|---|---|---|---|
| PE image layout | `src/pe_lib/pe_base.cpp`, `pe_section.cpp`, `pe_rebuilder.cpp`, `utils.h` | section table, `SizeOfHeaders`, `SizeOfImage` | `read_pe`, `add_section`, `set_section_virtual_size`, `realign_section`, `rebuild_pe` | data lies where the headers say; sections do not overlap; the result can be read again and maps to the same memory |
| BinSection | `src/patcher/binSection.cpp` | the output file | `create_Section`, `remove_last_Section`, `apply_Ext` (`extend_Section`, `populate_image_section_header`: no caller) | exactly one section more or less; no file destroyed but the named output; no half image taken for a whole one |
| FileIO | `src/patcher/fileIO.cpp` | stream position, `failbit` | constructor (`debug_pause` if the file does not open), reads and writes at an offset, `parse_binary_end` | the length of a hook's code is measured right; never more than the buffer is written |
| Hooks | `src/patcher/hooks.cpp`, `src/linker/hookLinker.ld` | `build/` | `parse_hooks`, `build_O`, `parse_build`, `apply_Hook`, `align_hook` | each hook's own, current code at its offset; the loop ends |
| Session | `src/main.cpp`, `src/patcher/patcher.cpp` | settings, `reply`, `patcher_error`, `jump_buffer`, all the files | the menu, `ParseSettings`, `Patcher::Patcher`, `debug_pause`, `copytodir`, `delbuild` | "Done." means what the menu says; nothing broken is deployed; the menu comes back |
| Settings parser | `src/patcher/patcher.cpp:26-73`, `utils.cpp:8-57` | `settings.ini`, the settings | `ParseSettings`, `parse_offset`, `parse_string` | the value that is written in the file; a default file that has all that is asked for |
| Linker map parser | `src/patcher/utils.cpp:109-260` | three section flags, two lists | `linker_map_parser`, `write_def_table` | a name goes with its own address |
| Byte pattern remover | `src/patcher/utils.cpp:684-824` | a buffer | `FindAndRemoveBytePattern` | only occurrences of the pattern change; no access outside the buffer |
| Packer | `src/patcher/packer.cpp` | `...pac.exe`, flags | `packDataFile`, `packDirectory`, `writeSize`, `readSize`, `unpackDataFiles`, `cleanUp` | unpacking gives what was packed; packing loses nothing packed before |
| JIT hooks | `src/patcher/jitHooks.cpp` | memory block, pointers into it, nested calls ("layers") and the globals they share | `enter_asmjit_hook` and its commands, `interpret_file`, `compile_asm`, `saveCode`, `write_all_jithooks`, `mark_mem` | no pointer outlives its block; bytes go to the offset they were assembled for; the text saved belongs to the bytes saved |
| x64dbg converter | `src/patcher/utils.cpp:302-665` | none | `x64dbg_to_gcc_inline` | text in, text out |
| tcc bridge | `src/tinycc/wrap.cpp` | none | `jit_assemble` | bytes of one instruction |
| External | `src/boost_lib`, `src/asmjit_lib`, `src/tinycc`, make, ld, objcopy | files | `copy_file`, the tools | modelled from their use |

**How they interact.** `main` reads the settings, lets the constructor of
`Patcher` copy `target_in` over `target_out`, and loops over a menu. A patch
choice opens `target_in`, has `BinSection` write the extended image, opens
`target_out` (a stream that stays open), lets `apply_Ext` and `Hooks` write into
it through streams of their own, and then copies it to `copytodir`. All data
between the parts goes through files or global variables; there are no
callbacks, no messages and no threads. The hard behaviours are

- *failure*: `debug_pause` jumps back to the menu and runs no destructors, so
  that what waits in a stream's buffer is lost; a `pe_exception` or a
  `filesystem_error` ends the process, in the middle of a rewrite if it comes
  then; so does a kill;
- *truncation before writing*: both operations of `BinSection`, and
  `copy_file`, empty the target first;
- *repetition*: the output of one patch is the input of the next;
- *re-entrance*: the assembler's shell calls itself for every hook it loads and every
  `.org`; the calls share a block of memory that any of them may move or delete;
- *stale state*: files in `build/`, a stream whose `failbit` stays set, a
  buffer read before the file was rewritten, `patcher_error` which is never reset;
- *layout arithmetic*: aligned and unaligned sizes, `VirtualSize` of 0 or below
  the raw size, sections that are all null bytes.

`PROJECT.json` lists each hazard at its line with the properties that would see it go wrong. Where a property's own
condition excludes a hazard, it is not named there; a note says what the model has of it instead (section 3).

## 2. Modules

| Module | Models | Kind |
|---|---|---|
| `PeLayout` | the section table and the pure functions on it | operators |
| `ImageStore` | what `BinSection` promises | abstract specification |
| `BinSection` | `create_Section` and `remove_last_Section`, step by step | state machine |
| `BinSectionProofs` | theorems about `BinSection`: types, where the data goes | proofs |
| `BinSectionRefinement` | what is reported as done can be read again; `BinSection` implements `ImageStore` | proofs |
| `ApplyHook` | `Hooks::apply_Hook` and `FileIO::parse_binary_end`, byte by byte | state machine |
| `ApplyHookProofs` | theorems about `ApplyHook` | proofs |
| `PatchSession` | the menu and everything it does to files | state machine |
| `PatchSessionProofs` | theorems about `PatchSession` | proofs |
| `Packer` | menu choices 3, 4 and 5, write by write and line by line | state machine |
| `PackerProofs` | theorems about `Packer` | proofs |
| `Settings` | `ParseSettings`, `parse_offset`, `parse_string` | state machine and operators |
| `MapParser` | `linker_map_parser`, `write_def_table`, line by line | state machine |
| `BytePattern` | `FindAndRemoveBytePattern`, byte by byte | state machine |
| `UtilsProofs` | theorems about `Settings`, `MapParser` and `BytePattern` | proofs |
| `JitSession` | menu choice 1: the assembler's shell | state machine |
| `JitSessionProofs` | theorems about `JitSession` | proofs |
| `NatLemmas` | induction and recursion over the natural numbers, for the proof modules | proofs |
| `MCBinSection`, `MCApplyHook`, `MCPatchSession`, `MCPacker`, `MCUtils`, `MCJitSession` | values of the constants; `MCUtils` also runs `Settings`, `MapParser` and `BytePattern` side by side | model checking |

Each module holds a few operators marked as *faulty* right before the
definition they vary: a bug somebody could plausibly write there (a wrong rounding,
a missing flush). They are used by no specification. Putting one in the place
of its definition must make the property its comment names fail; so each property is
known to depend on the code it is about.

### PeLayout and BinSection

A section is a record of the header fields `va`, `vsz`, `raw`, `ptr` and of its
`data`, a sequence of bytes. A file (`File`) holds its decoded headers and
`bytes`, its whole content, headers included as placeholder bytes, so that every
read at an offset and every length is real. `secs`, `soh`, `soi`, `i`, `cur`
are `sections_`, `SizeOfHeaders`, `SizeOfImage`, the loop index and
`ptr_to_section_data`.

| Steps (`pc`) | Code |
|---|---|
| `headers`, `sections` | `read_pe`: the checks before the loop; one action per section; the checks after it. A failing check is a `Throw`, which ends the process because neither function catches it |
| `add` | `add_section` with `prepare_section`, then `set_section_virtual_size`; throws before the output has been touched |
| `open` | the output's directory is cut off (`Base`) and the file truncated, or "Cannot create" |
| `pop`, `realign` | `pop_back()` (which crashes on an empty list) and `realign_section` for each section |
| `rebuild`, `pointers`, `write` | `rebuild_pe`: sizes and the first pointer; one pointer at a time; the headers; one section's padding and data at a time |

`Killed` may happen between any two steps, `Restart` brings the menu back with other settings. `goal`
is a history variable for the refinement; no action reads it.

`ImageStore` says what all this amounts to: each path holds an image as a process
sees it once mapped (`view`: address, size, bytes of memory), or none; an operation
fixes its goal from its input, may damage its target only, and says "done" of a
target that holds the goal. The refinement mapping takes a file that `read_pe`
rejects for no image. Truncation, padding, realignment, and the halves of a file on
disk disappear under the mapping, which is the point: none of them may change
what the image means, and no intermediate file may be readable as something else.

### ApplyHook

`CallGetBytes`, `ReadByte` and `EndOfFile` are `parse_binary_end`; `pc` and
`caller` say which of its three calls in `apply_Hook` is running. `failed` is the
stream's `failbit`: `seekg` clears `eofbit` only, so a stream that has failed never moves again. What a
linker makes of an object file (`Linked`) follows from `src/linker/hookLinker.ld`: `.text`,
then `.rdata` at the next multiple of `align_size`, then fill. A relink
rewrites the file the stream has open, or replaces it; both are allowed.

### PatchSession

The files as the user thinks of them: number of sections, whether the `.ext` code
is there, which hook's code in which revision is at each hook's offset; and an emptied file (`image = FALSE`).
`BinSection` and `ApplyHook` open up steps that are
single actions here. `Choose`, `Convert`, `Dispatch`, `Pattern` are the tests on
`reply` in `main` (`letter` is `reply.at(0)` as the next test sees it); `Pause` is `debug_pause`, `Throw` an
exception nobody catches or a kill; `CopyBegin`, `CopyEnd` are the two halves of
`copy_file`; `buf` says that the `.ext` code waits in the buffer of
`file_out`; `todo`, `objs`, `bins`, `rev` are the hook files still to come, the
revisions in `build/`, and the revision of each source. `Within[h]` are the hooks whose
names contain the name of `h`, which is what `find` in `parse_build` matches; the
order of a directory is arbitrary.

`copytodir` is any name, that of `target_in` or `target_out` among them: `copy_file`
empties the one and overwrites the other (`main.cpp:189-192`), which is why three of the
properties say which name it must not be.

### Packer

A file is a sequence of cells, a line or a piece of an executable; offsets and
sizes count cells. A line of a packed file that contains a marker *is* that marker, as in the
code. Every `fWriteString` of `packDataFile` is a step, because the process may be
killed between any two, as far as it shows in the file: a line waits in the stream's buffer until the next one asks for
the file's size, and a kill that loses it is one before its step. So the line that starts a file and the opening of that file are one step
(`OpenFile`); if the file cannot be opened, `longjmp` leaves the line in the buffer for good (`PackingFails`). `WriteMagic` goes to the offset `file_size(uname)`, all else to the
end. `todo`, `pth`, `started`, `outfile`, `ret` are the directory still to be packed, the name of
the directory (cleared after its first file, as in the code), `PACSTART`, the stream being
written, and the size found by `readSize`. `readSize` looks for the last number in the last 50 bytes:
with a size at the end that is it; without, it is whatever digit stands last (`Strays`), and then
`unpackDataFiles` starts in the middle and `cleanUp` cuts the program's file to that length. `base`, `same`,
`whole`, `packed` and `alone` are history; no action reads them. `whole` ends with the first session that is killed or fails
and with the first file that has a line like a marker.

### Settings, MapParser and BytePattern

`Settings` keeps the characters of a number, since `strtok` cuts at the first `0` or `x`, one of which
may be a digit. The default file (`Defaults`) is written out line by line as the code does, apart from the list of keys (`Keys`) that is
then asked for. A setting is looked for as a piece of text: the first line that contains its name and `=` is taken, whatever setting the line
is for (`HasName`, `Mentions`). So "at least position in file does not matter" (`patcher.cpp:47`) does not hold of a file whose `tccargs` has
`-march=`: above the line of `arch` it becomes the value of `arch`, below it does not. No line of the default file is taken so, which is a part of
`DefaultsAreEnough`. A key that is missing ends in a jump through a buffer
that `setjmp` has not filled yet (`crashed`), a value that is no number in an exception nobody
catches (`terminated`).

A line of `MapParser` is the set of marks that `linker_map_parser` looks for in it and its words, each an
address, a name, or a word that looks like an address and is none (which ends in the menu). `Plain`, `Header` and `Symbol` are the three
ways through the body of its loop. Addresses are 32 bits wide (`Modulus`). More names than
addresses make `write_def_table` read behind its list (`undefined`).

`BytePattern` keeps the buffer together with what lies behind it in memory, because both the
comparison and the overwriting may reach there. Patterns have 6 or 7 bytes, the lengths it has jumps for.

### JitSession

A call of `enter_asmjit_hook` is a frame on `stack`; `jpc` says where the topmost one is,
`call` what is being called or has just returned, `job` how far `interpret_file` has come. A text that was
typed is where it lies in the block, how long it is, and how much of it is left: `mark_mem` moves the
offset in units of a pointer's size, while the terminator of a text goes behind the offset *divided* by it, which may be
inside an earlier text (`Cut`). `realloc` moves the block or not (`MarkMem`); `.up` in the
first layer deletes it, whatever layers still run below. A pointer names the block it points into, so
that a stale one is seen. `loaded` is the offset for which the bytes in `buffer_from_file_only` were assembled.
What the code does next after a write through a null pointer or a pointer into freed memory
is `undefined` and the end of the behaviour; where the program can go on (the length of the
last instruction in a layer that has typed none, a command copied without its terminator) the model chooses.

Reading the code with the model's runs at hand shows what a user of the shell meets; the
properties say under which conditions none of it happens:

- after `realloc` has moved the block, the texts typed before and the hook's arguments point to the old one;
- `.up` in layer 1 of a nested shell deletes the block, and the next instruction typed in the layer below is stored through a null pointer;
- the terminator of a text may erase the end of an earlier one, which `.save` then writes without it;
- `mark_mem` compares where a text begins with the size of the block, not where it ends;
- a second `.undo` takes the length of the last instruction typed, not of the one before it; one in a layer that compiles a file takes a length that was never set;
- `.org` leaves `archArg` pointing into an array of the call that it is typed in;
- `.save` without an architecture writes "(null)" in its place, and the layers of a hook saved like this do not open;
- `.write` in the layer that compiles a loaded hook writes into the hook file, not into the program; if the file is missing, it ends
  all layers (`WriteFails`), and the block and what points into it stay for the next session;
- `layer` counts up even when the nested shell refuses to open, and `.ret` in the first layer closes choice 1 until the program is started again.

## 3. Runs

| Run | Module, cfg | Checks | Distinct states |
|---|---|---|---|
| `bin_section` | `MCBinSection` | `TypeOK`, `DataAtPointer`, `RawDisjoint`, `DoneReopens`, `Implements`, `Terminates` | 157,827 |
| `bin_section_two_files` | `MCBinSectionTwoFiles` | `Implements` | 127,308 |
| `bin_section_zero` | `MCBinSectionZero` | `ZeroSizeReopens`, violated | - |
| `apply_hook` | `MCApplyHook` | `TypeOK`, `CountersMeasure`, `WrittenIsMeasured`, `RetryIsHopeless`, `MeasurableIsWritten` | 13,428 |
| `apply_hook_loops` | `MCApplyHookLoops` | `BigHookIsWritten`, violated | - |
| `patch_session` | `MCPatchSession` | `TypeOK`, `PlainPatchIsFull`, `DeployedIsImage` | 1,005,416 |
| `patch_session_hooks` | `MCPatchSessionHooks` | `HookIsOwn`, `ChoiceEnds` | 372,560 |
| `patch_session_dir` | `MCPatchSessionDir` | `FullPatchIsFull`, violated | - |
| `patch_session_convert` | `MCPatchSessionConvert` | `ConvertOnlyConverts`, violated | - |
| `packer` | `MCPacker` | `TypeOK`, `RoundTrip`, `NothingOverwritten` | 2,019,637 |
| `utils` | `MCUtils` | `SettingsTypeOK`, `NumbersAreRead`, `DefaultsAreEnough`, `MapTypeOK`, `FlagsTellPlace`, `DefinesAreSymbols`, `PatternTypeOK`, `OnlyPatternsChange`, `InsideTheFile` | 156,254 |
| `jit` | `MCJitSession` | `TypeOK`, `PointersAreLive`, `BytesAtTheirOffset`, `BytesAreTexts`, `TextsAreWhole` | 5,834,504 |

Deadlock is checked in all runs but two: the session, `BinSection` and `Packer` always have a menu to
choose from or a process to start, and `ApplyHook` stutters once it has ended. In `utils` each
tool ends when its work is done; in `jit` a behaviour ends in `undefined` or at a bound.

**What the newer properties say.** `RoundTrip` compares what comes out of a `pac.exe` that was sent away
alone with what each file was last packed with, over any number of complete sessions of
choices 3 and 4, if the program was not built anew meanwhile, no session was interrupted, no file that was ever packed has a line
that looks like a marker, and the file's directory was packed (choice 3 packs a file
without it). The condition on markers has to be about every content packed, not only the last of each file: what an earlier one
spells out is still in `pac.exe`, and may begin another file anew. Drop any of these conditions and TLC finds a file that does not come back; the code checks none of them. `NothingOverwritten` needs
only that the same program packs, and holds across kills. `NumbersAreRead` compares `parse_offset` with the
number as it is written. `DefaultsAreEnough` relates the 14 lines that `ParseSettings` writes to the 14 names it then asks
for: the menu is reached, and each setting is what the line written for it says. A name asked for and not written, a line that
is found under another setting's name, or a number that is no int would refute it. `FlagsTellPlace` gives the flags of `linker_map_parser` their meaning in terms of the lines
read so far; `DefinesAreSymbols` compares its two lists with the symbols of the map, read without flags, for maps whose
lines give one name and one address each. `OnlyPatternsChange` compares the patched program with a
search for whole patterns, although the code compares four bytes only, and
`InsideTheFile` says when nothing behind the buffer is written. `BytesAtTheirOffset` and `BytesAreTexts` relate the bytes that
`.save` and `.write` use to the offset and the texts they are written with, across all layers.

**Bounds.** `BinSection`: one file that is input and output at once, which is what
happens when `target_out` is the name of `target_in` in another directory (the directory
is cut off, and the input overwritten), and an input with a separate output; alignments 2 and 4 stand for 0x200 and 0x1000; sizes of 0,
below, at and above one unit, data that ends in null bytes and data that does not,
images of 0, 1 and 2 sections, one with a hole in its address space, one whose first section leaves
too little room for one more header; at most 3 sections, so that the limit, the repeated
add and the repeated remove all happen. A byte may be a null byte or not, and the
other values only tell sections apart. `ApplyHook`: all hooks of up to 5 bytes of code and 2 of data with `align_size` 8:
code shorter and longer than half the file, beginning with null bytes, with null runs inside, empty. `PatchSession`: four
names (an original, an output, the output in a directory, a file that is not
there), input and output the same, an output patched again, and a place to deploy to that may be any of them; in the other
configuration two hooks, one name within the other, two revisions (`MaxRev`), one
hook that can be measured and one that cannot. A third name or hook would only repeat these relations. `Packer`: two files of one
directory, empty, of one line of text or of a marker, two builds of different size, a `pac.exe` to which nothing is added once it has
seven cells (two sessions, the second of which begins in the middle), stray digits or none, and one kill, edit or rebuild
(`MaxEvents`) anywhere. `utils`: the default file, that file with any of twelve numbers in any of the four settings, or in a line before, or
with any line taken out, or with `-march=` in `tccargs`, above or below the line of `arch`; some thousand maps that have or have not each header, end mark and
irregular line; every program made of three of ten pieces, four of which are the
patterns and five their beginnings or other code. `jit`: two hook files, two instructions of different lengths, four
commands besides `.up` and `.ret`, three nested calls, and a block that the fourth line
of text outgrows. A freed block's name is used again only when nothing refers to it, so names run out unless there are more than
pointers; `BlocksAssumption` asks for that many (eleven here), and the theorem about types uses it.

**Fairness.** One thread runs without blocking on anything but its user and the tools it
starts. So weak fairness is assumed of the union of the program's own steps, and of
nothing else: not of the user's choices, not of kills and restarts, and not of a
tool's failing (`LinkError`, `LoopFails`), which nothing guarantees. A tool that is
started returns. `Packer`, the three tools and the shell are checked for safety only.

**Four statements of the code's own text do not hold:**

1. `hooks.cpp:42`, "in case the hook is bigger then supposable allocate more
   memory": when the first measure returns 0, the stream has failed (or begins with a null
   byte); every later measure is 0 too, `align_size` becomes `0 * 2`, and the loop
   calls make for ever (`BigHookIsWritten`). `RetryIsHopeless` is the safety half, and proved.
2. `pe_section.cpp:230-231`, a section of `VirtualSize` 0 takes its raw size:
   `pe_base.cpp:890` has set its raw size to 0 before, both are written as 0, "Done." is reported, and the
   next choice cannot read the file (`ZeroSizeReopens`). `DoneReopens` is what does hold.
3. "6 - full patch" and "Done.": with a directory in `target_out`, the section goes into a file of the working directory
   (`binSection.cpp:57-61`), everything else into `target_out` (`FullPatchIsFull`).
   `PlainPatchIsFull` is what does hold.
4. "2 - convert ...": the file's name is read into `reply` and taken for a menu
   choice (`main.cpp:109`, `ConvertOnlyConverts`).

**Hazards that the models have and no property catches.** The code makes no promise about these, and the properties exclude them in their
conditions: `realloc` moving the block (`~moved` in `PointersAreLive`), the null pointer after `.up`, texts cut by a terminator (the bound of
`TextsAreWhole`), a second `.undo` in a row (`own` in `BytesAreTexts`), lines of a map with two names or none (`Regular`), a pattern cut off
by the end of the file (`Distinct`), a `pac.exe` without a size or left empty by a kill (`whole` in `RoundTrip`; `NothingOverwritten` holds there,
too), and a run of null bytes within a hook, where `WrittenIsMeasured` takes the measured prefix as the right one. For these a run shows when
they cannot happen, not that they do not. `patcher_error`, which is never reset, and an output that is the input are in `PatchSession`, but
none of its properties would see them go wrong.

## 4. Proofs

All hold for every value of the constants that the named assumptions allow:
alignments with `SectAlign % FileAlign = 0` (which `read_pe` checks), positive sizes of
the headers, any set of paths, settings, files, hooks, names within names, contents and builds; any object files and tails; any
maps and settings files; any `MaxInt` from 0xFFFFFF on (the default settings have numbers of six digits); any depth of layers. The two theorems of `BinSectionRefinement` have one more hypothesis,
`LinkerMade`, on the files that are there at the start.

| Module | Theorem | States | Checked by |
|---|---|---|---|
| `BinSectionProofs` | `TypeCorrect` | `Spec => []TypeOK` | `bin_section` |
| | `DataIsAtPointer` | `Spec => []DataAtPointer` | `bin_section` |
| | `RawIsDisjoint` | `Spec => []RawDisjoint` | `bin_section` |
| `BinSectionRefinement` | `DoneIsReadable` | `LinkerMade` implies `Spec => []DoneReopens` | `bin_section` |
| | `ImplementsImageStore` | `LinkerMade` implies `Spec => Implements` | `bin_section`, `bin_section_two_files` |
| `ApplyHookProofs` | `TypeCorrect` | `Spec => []TypeOK` | `apply_hook` |
| | `ScanIsCorrect` | `Spec => []CountersMeasure` | `apply_hook` |
| | `WritesWhatItMeasured` | `Spec => []WrittenIsMeasured` | `apply_hook` |
| | `RelinkNeverHelps` | `Spec => []RetryIsHopeless` | `apply_hook` |
| `PatchSessionProofs` | `TypeCorrect` | `Spec => []TypeOK` | `patch_session` |
| | `DoneIsFull` | `Spec => []PlainPatchIsFull` | `patch_session` |
| | `OwnCode` | `Spec => []HookIsOwn` | `patch_session_hooks` |
| | `ImagesAreDeployed` | `Spec => []DeployedIsImage` | `patch_session` |
| `PackerProofs` | `TypeCorrect` | `Spec => []TypeOK` | `packer` |
| | `PackingKeeps` | `Spec => NothingOverwritten` | `packer` |
| | `PackedComesBack` | `Spec => []RoundTrip` | `packer` |
| `UtilsProofs` | `FlagsAreRight` | `MapSpec => []FlagsTellPlace` | `utils` |
| | `MapTypeCorrect` | `MapSpec => []MapTypeOK` | `utils` |
| | `SymbolsAreDefined` | `MapSpec => []DefinesAreSymbols` | `utils` |
| | `PatternTypeCorrect` | `PatternSpec => []PatternTypeOK` | `utils` |
| | `StaysInside` | `PatternSpec => []InsideTheFile` | `utils` |
| | `PatternsBecomeJumps` | `PatternSpec => []OnlyPatternsChange` | `utils` |
| | `SettingsTypeCorrect` | `SettingsSpec => []SettingsTypeOK` | `utils` |
| | `DefaultsSuffice` | `SettingsSpec => []DefaultsAreEnough` | `utils` |
| | `NumbersAreRight` | `SettingsSpec => []NumbersAreRead` | `utils` |
| `JitSessionProofs` | `OnlyReallocStrands` | `JitSpec => []PointersAreLive` | `jit` |
| | `BytesKeepTheirOffset` | `JitSpec => []BytesAtTheirOffset` | `jit` |
| | `TypeCorrect` | `JitSpec => []TypeOK` | `jit` |
| | `WholeTexts` | `JitSpec => []TextsAreWhole` | `jit` |
| | `BytesOfTheTexts` | `JitSpec => []BytesAreTexts` | `jit` |

**BinSection.** `DataAtPointer` is not inductive: whether the next section will land at its
pointer depends on how long the file has become, which depends on whether each section's
data fits the share of the file its header claims. That claim is made by
`read_pe`, `add_section` and `realign_section` long before. `IInv` is therefore
`TypeOK`; `InputThere` (the file that is being read exists); `AllCovered(secs)` (in every
section, at every step, the data is no longer than the aligned `SizeOfRawData`);
`PointersInv` (the pointers given so far are ordered, disjoint, behind the headers, and end
before `cur`); and `WriteInv` (the file is never longer than the next section's
pointer, and each section written is still there). There is one lemma per operator of `PeLayout` that
changes a section, one per action, and the theorems follow from `IInv`.
The interesting step is `AllCovered` under `add_section`: it rounds up the raw size of the
section that was last so far without resizing its data.

**Refinement.** Between `read_pe` and "Done." a file is read, its table changed, the file emptied and written again piece
by piece; all that `ImageStore` sees is the goal, a target that is damaged, and the outcome. The invariant `RInv` adds to `IInv` what
ties these together, in the order in which the code goes: `FilesRegular` (a file that is there, half written or not, has regular
headers); `ReadInv` (the sections loaded are those of the file, each past its checks); `TableInv` (a table that can be laid out:
contiguous addresses, and data that trimming or filling up with null bytes does not change once mapped); `GoalInv` (until the table is
changed it maps to the image that the goal is computed from, from then on to the goal itself); `LayoutInv` and `FileInv` (what has been given its pointer,
what has been written, and that it maps back to its section); `OutcomeInv` (what is done is readable and is the goal). A step of
`BinSection` is then a step of `ImageStore` or a stutter, one lemma per action. That trailing null bytes are cut off (`StrippedLen`) and
come back as padding, in memory or in the file, is the part that needs care. `LinkerMade` says that the original files have
aligned section addresses and no `VirtualSize` of 0. Neither can be dropped: the second is the run `bin_section_zero`; and `read_pe`
(`pe_base.cpp:864-961`) does not check that addresses are aligned, so behind a last section that is not aligned `add_section`
leaves a hole which the next `read_pe` refuses. Everything the patcher writes is regular again, which is part of the proof.

**ApplyHook.** `IInv` keeps the counters' meaning during a scan and adds, for the steps
between scans, that a result other than 0 of the first measure is the shortest fitting
prefix of the content read into `hook_F`, and that after a measure of 0 either the stream has failed for good or
the object file begins with a null byte, which no alignment and no fill can change
(`DeadObject`). Hence the loop's second measure can only be 0.

**PatchSession.** The four properties speak of the menu after "Done."; what makes them true happens up to a
dozen steps earlier, and earlier failures have left files of all kinds. `IInv` is `TypeOK` with four parts:
`Flow`, which choice can have led to each step (so that "Done." of choice 6 is known to have
gone through all of them, and that a constructor's error rules them out); `Images`, what the image in memory, `target_in` and
`target_out` have in common at each step (whenever the program is not in the constructor or a rebuild, `target_out` is an image if
`target_in` is: an exception in a rebuild ends the process, and the next start copies `target_in` again); `Codes`, that a hook that
`parse_hooks` is done with has its own code at its offset, by way of `objs` and `bins`; and `Full`, that the section and the
`.ext` code are in the file or the code in the buffer. There is one lemma per action.

**MapParser.** `FlagsTellPlace` is inductive with the types of the flags. `NextPlace` says what one more
line does to the places it speaks of, `ReadingFlags` what the line does to the flags. `DefinesAreSymbols` is about the
end; on the way `CollectInv` says that the two lists zip to the symbols of the lines behind the parser (`SymbolsTo`), which takes
`FlagsTellPlace`, for the flags decide what is collected. One more line adds at most one word to each list (`OneMore`), and an index that runs over both writes their pairs.

**Settings.** `SettingsInv` says that each number read is what `parse_offset` makes of the first line with its key. The rest
is about `parse_offset` itself: a number with `0x` in front loses its 0 where the line is cut, and gets one back; a text of
digits has a value in the naturals whatever its length (`Hex`, a recursive function). For the default file each of the 14 names is shown to have
that line alone which was written for it (`DefaultLines`): the texts written contain no setting's name, which `SettingsAssumption` states. The four numbers
are computed, and the strings are those of their lines.

**Packer.** `NothingOverwritten` is an action property; that `WriteMagic` hits nothing but a size
follows from what stands at the place it writes to (`MagicPlace`): if `pac.exe` reaches that far, the cell there is
`PACKERMAGIC`, or the size of a session without files. The invariant has to hold through copies that were killed half way, which leave an empty
`pac.exe`, and through the clone of choice 5, which does not touch it.

`RoundTrip` speaks of the end of a session of unpacking, and rests on everything that was packed before. `TripInv`
says what a `pac.exe` has to be like. It begins with the program (`BeginsWithBase`) and, when nothing is being packed, ends with its size
(`EndsWithSize`), so that `readSize` finds that. For each file packed there is a record (`Recorded`, `RecordIn`): the
start, the lines, the end, no later start of the same file, and, if its directory's line is there at all, that line before the start.
That last part is what choice 3 followed by choice 4 puts at risk: the file packed first has no directory, and the directory's line comes
behind it; but then the file is there when the directory is packed (`PresentIfNoDir`, `WholeDirectory`) and gets a
new record behind the line. Until then it is `Pending`. Packing only adds to a file in this sense (`Extends`, `NewFor`: the size of a session without files may turn
into `PACKERMAGIC`), which keeps every record (`RecordKept`). Unpacking line by line keeps `UnpackedSoFar`: in a record,
the file is open and holds the lines read; behind it, the file is whole and nothing writes into it any more.

**BytePattern.** The buffer is searched once for each pattern, and later searches run over what
earlier ones have written. The invariant `Found` says that each place overwritten is a pattern of the *file*,
that the buffer differs from the file there only and holds a jump there, and that none of the
patterns passed so far was missed. It holds because a match cannot begin or end in a jump, and patterns cannot overlap.
Both rest on `FsPrefixAssumption`, which the patterns of `main.cpp:171` satisfy (the run `utils` evaluates it with these
patterns): the compared bytes are none of a jump's, they tell the patterns apart, and
a pattern's first byte occurs nowhere else in one.

**JitSession.** The invariant adds to `PointersAreLive` that texts are texts, and that a shell that finds no block finds
no pointers either (`Forgotten`), for it makes a new block and leaves the pointers alone. The step to
look at is `.up` in the first layer: it deletes the block under all layers below, and resets every pointer with it.
`BytesAtTheirOffset` has an invariant of its own, `OffsetInv`: loaded bytes are for `base_offset`, which is what the
last header's offset points to, or a `.clear` from `.org` is to follow (`Pending`). `.wall` writes at the offset of the
header and `.write` at `base_offset`, and between loading and writing other layers run, are entered and left.
The lines of a header are read when no bytes are loaded (`HeaderRead`).

`TypeInv` is what the types take. A pointer, an index, a call to return to and a file to compile must be there at the step that uses
them, which is several steps, and often several calls, after the one that made them. Its longest argument is that there is always a name for
the next block: the pointers into blocks are those of the texts and at most four others, and `BlocksAssumption` asks
for more names than that. `TextsAreWhole` is inductive with these types. `BytesAreTexts` speaks of the layers that have the texts for
themselves; its invariant `SumInv` says of which layers this is so while `.wall` reads file after file (`WallInv`), what the last instruction
typed was, which is what `.undo` subtracts (`StepInv`), and that the length of the code is the sum of the texts (`OwnInv`).

**Induction.** The provers cannot instantiate the library's induction theorems, which take an operator. `NatLemmas` goes around this:
a set of naturals that holds 0 and with each number the next one holds them all (`SetInduction`, from the library's
theorem that finite sets are well-founded under inclusion), and a function defined by recursion over `0..n` exists and
satisfies its equation (`Recursion`); `StaysTyped` and `Gathering` give the type of what is added up or gathered step by step. `Hex`, `Sum`, `SavedText`,
`NamesOf`, `AddrsOf` and `SymbolsTo` are reasoned about with these, and so is every least index that a `CHOOSE` picks.

The invariants `RInv`, `TripInv`, `SumInv`, `CollectInv` were checked by TLC on the instances above before they were proved.

**Only model-checked.** Liveness (`Terminates`, `MeasurableIsWritten`, `ChoiceEnds`) is out of the
prover's reach; so is that the four statements of section 3 fail, which takes one counterexample each. Every
invariant and action property of the other runs, and the refinement, is a theorem.

## 5. What is left out

- Overflow of 32-bit sizes in `pe_lib` (`is_sum_safe` rejects such headers), data
  directories and bound import: the patcher calls nothing that changes them.
- The overlay behind the last section is not part of an image as it is mapped; that `rebuild_pe` drops it
  is therefore not visible in `Implements`.
- Write errors of the output streams (a full disk); the code does not look at them.
- Contents: the code of hooks and of the `.ext` sector, the text of an instruction, the wording of the map's names
  (`::` becomes `__`; words with a `*` are taken apart), everything printed.
- What `mark_mem`'s late comparison lets a text overwrite behind its block: the model knows where a text begins,
  not what lies behind the block. `.print`, `.info`, `.inc`, the base address and the arguments of the command line
  of the shell only show things or choose the architecture.
- That `apply_Ext` writes at `sectionRoffset` whatever the new section's pointer is: `PatchSession` takes
  the settings to fit the file.

**Not modelled.**

- The x64dbg converter (`utils.cpp:302-665`): it rewrites text and keeps no state; all that can be said of it is wording. What it does to the session,
  overwriting `reply`, is in `PatchSession`.
- The tcc bridge (`src/tinycc/wrap.cpp`), menu choice a: it formats a string for a vendored compiler and prints the bytes.
- The sector and hook sources and the makefiles: the code that is patched in and the rules that build it. Their effect, object files
  and binaries that may be old, is in `PatchSession`.
- `src/boost_lib`, `src/asmjit_lib`, `src/tinycc`: third-party code, nearly all of the repository's lines. `copy_file`, `resize_file` and the
  assembler's buffer are modelled from their use. Of `pe_lib`, only what the patcher calls is modelled: data directories, imports, resources,
  relocations, TLS and .NET headers have no caller.
- Functions without a caller: `extend_Section` (which always ends in `debug_pause`),
  `populate_image_section_header`, `get_line_count`, the branch of `FindAndRemoveBytePattern` for `l == -1`, the branch for `fast_Compile_Hooks`.

## 6. Plan

Done: PE layout and `BinSection` with refinement and proofs; the measure and the retry loop of hooks with
proofs; the session with proofs; packer, settings, map parser, byte patterns and the shell of the
assembler, each with the proofs listed above.

Still worth doing: a module of the `.ext` code's place in bytes, which would relate
`sectionRoffset` to the new section's pointer.

## 7. Running

    tlc -workers 2 -config MCBinSection.cfg MCBinSection
    tlapm BinSectionProofs.tla
    tlapm ApplyHookProofs.tla

and the same for the other configurations and proof modules.

`PROJECT.json` names every run, every theorem, every faulty variant with the property it
breaks, and the source lines of every definition.
