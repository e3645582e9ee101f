------------------------------- MODULE Driver -------------------------------
(***************************************************************************)
(* driver_main (src/driver/driver.c) in any number of processes that share *)
(* a file system.  A process is one invocation of holycc; its pc is the    *)
(* stage of the pipeline it is about to run, and the passes themselves are *)
(* abstracted to the diagnostics they emit.  A process may be killed       *)
(* between any two stages, together with the gcc it waits for.             *)
(*                                                                         *)
(* A file holds the text of one program, named by its stem (the path of    *)
(* the source without its extension): source, generated C and executable   *)
(* of a program differ by the path they are found at.                      *)
(***************************************************************************)
EXTENDS Diagnostics, FiniteSets

CONSTANTS
  Procs,         \* the processes
  Stems,         \* the source files, by path without extension
  TmpNames,      \* the names /tmp/<basename>
  BasenameOf,    \* the /tmp name of a stem: its directory is forgotten
  Outputs,       \* arguments of -o
  NoOutput,      \* no -o on the command line
  Invocations,   \* the command lines of this instance
  DiskMayFill    \* whether writing a file may fail once it is open

Modes == {"tokens", "ast", "c", "compile"}
Invocation == [stem : Stems, output : Outputs \cup {NoOutput}, mode : Modes,
               run : BOOLEAN, keep_c : BOOLEAN]
NoInvocation == [stem |-> NoOutput, output |-> NoOutput, mode |-> "none",
                 run |-> FALSE, keep_c |-> FALSE]

Path == (Stems \cup TmpNames \cup Outputs) \X {"", ".c", ".exe", ".c.exe"}

(* Contents of a file that are not the text of one program.                *)
Absent  == "absent"
Empty   == "empty"      \* created or truncated, and not written yet
Garbled == "garbled"    \* written by two processes at once
Contents == Stems \cup {Absent, Empty, Garbled}

ASSUME InvocationsAssumption == Invocations \subseteq Invocation
ASSUME BasenameAssumption == BasenameOf \in [Stems -> TmpNames]
ASSUME DiskAssumption == DiskMayFill \in BOOLEAN
ASSUME StemsAssumption ==
  /\ Stems \cap {Absent, Empty, Garbled} = {}
  /\ Stems \cap TmpNames = {} /\ Stems \cap Outputs = {} /\ TmpNames \cap Outputs = {}
  /\ NoOutput \notin Stems \cup Outputs

Objects == {"source", "diag", "lexer", "parser", "ast", "semantic", "codegen",
            "auto_c", "auto_exe", "c_file", "exe_file"}

VARIABLES
  files,     \* the file system: the contents of every path
  pc,        \* the stage each process runs next
  opts,      \* its command line
  diag,      \* its diagnostics collector
  printed,   \* whether it has called diagnostics_print
  live,      \* the objects it has created and not destroyed; after an exit,
             \* those it has left behind, or destroyed more often than created
  handle,    \* its descriptor on its C file
  input,     \* what the gcc it started has read
  ran,       \* the program --run has executed
  status,    \* its exit code, or "none"
  touched,   \* the paths it has created, written or removed
  clean      \* no other process has shared a path with it since it began

fsvars == << files, handle, touched >>
vars == << fsvars, pc, opts, diag, printed, live, input, ran, status, clean >>

Idle(p)   == pc[p] = "idle"
Active(p) == pc[p] \notin {"idle", "exit", "killed"}

-----------------------------------------------------------------------------
(***************************************************************************)
(* Output names (driver.c:287-313, 367-368).                               *)
(***************************************************************************)
c_file(o) ==
  IF o.output = NoOutput THEN << BasenameOf[o.stem], ".c" >>
  ELSE IF o.mode = "c"   THEN << o.output, "" >>
                         ELSE << o.output, ".c" >>

exe_file(o) ==
  IF o.mode = "c"
  THEN IF o.output = NoOutput THEN << BasenameOf[o.stem], ".c.exe" >>
                              ELSE << o.output, ".exe" >>
  ELSE IF o.output = NoOutput THEN << o.stem, "" >> ELSE << o.output, "" >>

Generates(o) == o.mode \in {"c", "compile"}
Compiles(o)  == o.mode = "compile" \/ (o.mode = "c" /\ o.run)

PathsOf(o) == {q \in Path : \/ Generates(o) /\ q = c_file(o)
                            \/ Compiles(o) /\ q = exe_file(o)}
Shares(o1, o2) == PathsOf(o1) \cap PathsOf(o2) # {}

-----------------------------------------------------------------------------
(***************************************************************************)
(* Steps of one process.                                                   *)
(***************************************************************************)
Go(p, stage) == pc' = [pc EXCEPT ![p] = stage]

(* The strings of the two names, as the variables of driver_main point to  *)
(* them: c_file is auto_c, and exe_file auto_exe, when there was no -o.    *)
Null == "NULL"
Pointers(auto_c, auto_exe, own_c, own_exe) ==
  [auto_c |-> auto_c, auto_exe |-> auto_exe, c_file |-> own_c, exe_file |-> own_exe]

name_pointers(o) ==
  CASE o.output # NoOutput /\ o.mode # "c" -> Pointers(Null, Null, "c_file", "exe_file")
    [] o.output # NoOutput /\ o.mode = "c" -> Pointers(Null, Null, "c_file", Null)
    [] o.output = NoOutput /\ o.mode = "c" -> Pointers("auto_c", Null, "auto_c", Null)
    [] OTHER -> Pointers("auto_c", "auto_exe", "auto_c", "auto_exe")

NameStrings(o) == {s \in Objects : \E v \in DOMAIN name_pointers(o) : name_pointers(o)[v] = s}

Unless(pointer, other) == IF pointer # other THEN pointer ELSE Null

(* The objects that a list of calls does not leave as it should: created   *)
(* and not destroyed once, or not created and destroyed.                   *)
DestroyedOnce(calls, x) ==
  \E i \in DOMAIN calls : calls[i] = x /\ \A j \in DOMAIN calls \ {i} : calls[j] # x
Destroyed(calls, x) == \E i \in DOMAIN calls : calls[i] = x
Mishandled(created, calls) ==
  {x \in Objects : IF x \in created THEN ~DestroyedOnce(calls, x) ELSE Destroyed(calls, x)}

(* A return from driver_main, with what has just been created and what is  *)
(* destroyed, in the order of the calls.                                   *)
Exit(p, code, created, calls) ==
  /\ Go(p, "exit")
  /\ status' = [status EXCEPT ![p] = code]
  /\ live' = [live EXCEPT ![p] = Mishandled(@ \cup created, calls)]

Keep(p, objects) == live' = [live EXCEPT ![p] = @ \cup objects]

(* Writing, replacing or removing a path.  A descriptor another process    *)
(* has on a file that is replaced or removed no longer leads to the path.  *)
SetFile(p, path, contents) ==
  /\ files' = [files EXCEPT ![path] = contents]
  /\ touched' = [touched EXCEPT ![p] = @ \cup {path}]
Detached(p, path) ==
  [q \in Procs |->
     IF q # p /\ handle[q] = "open" /\ c_file(opts[q]) = path
     THEN "stale" ELSE handle[q]]

(* --help and --version; an unknown option, no input, an unreadable or an  *)
(* ELF input.                                                              *)
ExitEarly(p) ==
  /\ Idle(p)
  /\ \/ \E code \in {"0", "1"} : Exit(p, code, {}, << >>)
     \/ Exit(p, "1", {"source"}, << "source" >>)
  /\ UNCHANGED << fsvars, opts, diag, printed, input, ran, clean >>

Begin(p, o) ==
  /\ Idle(p)
  /\ opts' = [opts EXCEPT ![p] = o]
  /\ IF o.mode = "tokens"
     THEN Go(p, "tokens") /\ Keep(p, {"source", "diag", "lexer"})
     ELSE Go(p, "parse") /\ Keep(p, {"source", "diag", "lexer", "parser"})
  /\ diag' = [diag EXCEPT ![p] = diagnostics_create]
  /\ clean' = [q \in Procs |->
       IF q = p THEN \A r \in Procs \ {p} : ~(Active(r) /\ Shares(o, opts[r]))
                ELSE clean[q] /\ ~Shares(o, opts[q])]
  /\ UNCHANGED << fsvars, printed, input, ran, status >>

(* Errors of the lexer end the dump; nothing is printed.                   *)
Tokens(p) ==
  /\ pc[p] = "tokens"
  /\ \E d \in {diag[p], diag_error(diag[p])} : diag' = [diag EXCEPT ![p] = d]
  /\ Exit(p, "0", {}, << "diag", "lexer", "source" >>)
  /\ UNCHANGED << fsvars, opts, printed, input, ran, clean >>

Parse(p) ==
  /\ pc[p] = "parse"
  /\ \E d \in {diag[p], diag_error(diag[p])} :
       /\ diag' = [diag EXCEPT ![p] = d]
       /\ printed' = [printed EXCEPT ![p] = d.had_error]
       /\ IF d.had_error
          THEN Exit(p, "1", {"ast"}, << "ast", "diag", "parser", "lexer", "source" >>)
          ELSE IF opts[p].mode = "ast"
          THEN Exit(p, "0", {"ast"}, << "ast", "diag", "parser", "lexer", "source" >>)
          ELSE /\ Go(p, "analyze")
               /\ Keep(p, {"ast", "semantic"})
               /\ status' = status
  /\ UNCHANGED << fsvars, opts, input, ran, clean >>

(* Semantic adds warnings, errors, and errors with a note, in any order.   *)
Analyzed(d) ==
  {d, diag_warning(d), diag_error(d), diag_note(diag_error(d)),
   diag_error(diag_warning(d)), diag_warning(diag_error(d))}

(* A bug: errors are printed and code is generated all the same.           *)
Analyze_continues(p) ==
  /\ pc[p] = "analyze"
  /\ \E d \in Analyzed(diag[p]) :
       /\ diag' = [diag EXCEPT ![p] = d]
       /\ printed' = [printed EXCEPT ![p] = d.had_error]
  /\ Go(p, "open")
  /\ Keep(p, {"codegen"} \cup NameStrings(opts[p]))
  /\ UNCHANGED << fsvars, opts, input, ran, status, clean >>

Analyze(p) ==
  /\ pc[p] = "analyze"
  /\ \E d \in Analyzed(diag[p]) :
       /\ diag' = [diag EXCEPT ![p] = d]
       /\ printed' = [printed EXCEPT ![p] = d.had_error]
       /\ IF d.had_error
          THEN Exit(p, "1", {}, << "ast", "semantic", "diag", "parser", "lexer", "source" >>)
          ELSE /\ Go(p, "open")
               /\ Keep(p, {"codegen"} \cup NameStrings(opts[p]))
               /\ status' = status
  /\ UNCHANGED << fsvars, opts, input, ran, clean >>

(* The four ways out from here on, each with its own list of calls: the C  *)
(* file cannot be opened, gcc fails on it, gcc fails on the C of --c --run, *)
(* and the end.                                                            *)
ExitUnopened(p) ==
  LET names == name_pointers(opts[p])
  IN Exit(p, "1", {},
       << names.auto_c, names.auto_exe, Unless(names.c_file, names.auto_c),
          Unless(names.exe_file, names.auto_exe), "codegen", "ast", "semantic",
          "diag", "parser", "lexer", "source" >>)

ExitUncompiled(p) ==
  LET names == name_pointers(opts[p])
  IN Exit(p, "1", {},
       << names.auto_c, names.auto_exe, Unless(names.c_file, names.auto_c),
          Unless(names.exe_file, names.auto_exe), "codegen", "ast", "semantic",
          "diag", "parser", "lexer", "source" >>)

(* A bug: the name of the C file is freed as the one made up, and again.   *)
ExitUnrunnable_freedTwice(p) ==
  LET names == name_pointers(opts[p])
  IN Exit(p, "1", {},
       << names.auto_c, names.auto_exe, names.c_file,
          Unless(names.exe_file, names.auto_exe), "codegen", "ast", "semantic",
          "diag", "parser", "lexer", "source" >>)

ExitUnrunnable(p) ==
  LET names == name_pointers(opts[p])
  IN Exit(p, "1", {},
       << names.auto_c, names.auto_exe, Unless(names.c_file, names.auto_c),
          Unless(names.exe_file, names.auto_exe), "codegen", "ast", "semantic",
          "diag", "parser", "lexer", "source" >>)

ExitCompleted(p) ==
  LET names == name_pointers(opts[p])
  IN Exit(p, "0", {},
       << names.auto_c, names.auto_exe, Unless(names.c_file, names.auto_c),
          Unless(names.exe_file, names.auto_exe), "codegen", "ast", "semantic",
          "diag", "parser", "lexer", "source" >>)

(* codegen_generate_file: fopen truncates the file, the text follows.      *)
OpenC(p) ==
  /\ pc[p] = "open"
  /\ \/ /\ ExitUnopened(p)
        /\ UNCHANGED fsvars
     \/ /\ SetFile(p, c_file(opts[p]), Empty)
        /\ handle' = [handle EXCEPT ![p] = "open"]
        /\ Go(p, "write")
        /\ UNCHANGED << live, status >>
  /\ UNCHANGED << opts, diag, printed, input, ran, clean >>

(* Write errors are not looked at.                                         *)
WriteC(p) ==
  /\ pc[p] = "write"
  /\ \/ /\ handle[p] = "open"
        /\ \E text \in IF files[c_file(opts[p])] = Empty
                       THEN {opts[p].stem} ELSE {opts[p].stem, Garbled} :
             SetFile(p, c_file(opts[p]), text)
     \/ /\ handle[p] = "stale" \/ DiskMayFill
        /\ UNCHANGED << files, touched >>
  /\ handle' = [handle EXCEPT ![p] = "none"]
  /\ IF Compiles(opts[p])
     THEN Go(p, "gcc") /\ UNCHANGED << live, status >>
     ELSE ExitCompleted(p)
  /\ UNCHANGED << opts, diag, printed, input, ran, clean >>

(* compile_c_to_binary: gcc reads the C file some time before it writes or *)
(* refuses to write the executable.                                        *)
GccRead(p) ==
  /\ pc[p] = "gcc"
  /\ input' = [input EXCEPT ![p] = files[c_file(opts[p])]]
  /\ Go(p, "link")
  /\ UNCHANGED << fsvars, opts, diag, printed, live, ran, status, clean >>

(* What remains to be done once the executable is there.                   *)
AfterUnlink(p) == IF opts[p].run THEN Go(p, "run") /\ UNCHANGED << live, status >>
                                 ELSE ExitCompleted(p)

(* A bug: --keep-c the wrong way round.                                    *)
GccSucceeds_inverted(p) ==
  /\ pc[p] = "link"
  /\ input[p] \notin {Absent, Empty}
  /\ SetFile(p, exe_file(opts[p]), input[p])
  /\ handle' = Detached(p, exe_file(opts[p]))
  /\ IF opts[p].mode = "compile" /\ opts[p].keep_c
     THEN Go(p, "unlink") /\ UNCHANGED << live, status >>
     ELSE AfterUnlink(p)
  /\ UNCHANGED << opts, diag, printed, input, ran, clean >>

GccSucceeds(p) ==
  /\ pc[p] = "link"
  /\ input[p] \notin {Absent, Empty}
  /\ SetFile(p, exe_file(opts[p]), input[p])
  /\ handle' = Detached(p, exe_file(opts[p]))
  /\ IF opts[p].mode = "compile" /\ ~opts[p].keep_c
     THEN Go(p, "unlink") /\ UNCHANGED << live, status >>
     ELSE AfterUnlink(p)
  /\ UNCHANGED << opts, diag, printed, input, ran, clean >>

(* A bug: gcc's exit status is not looked at.                              *)
GccFails_ignored(p) ==
  /\ pc[p] = "link"
  /\ AfterUnlink(p)
  /\ UNCHANGED << fsvars, opts, diag, printed, input, ran, clean >>

(* The linker removes its output when it fails, the compiler does not.     *)
GccFails(p) ==
  /\ pc[p] = "link"
  /\ \/ UNCHANGED fsvars
     \/ /\ SetFile(p, exe_file(opts[p]), Absent)
        /\ handle' = Detached(p, exe_file(opts[p]))
  /\ IF opts[p].mode = "compile" THEN ExitUncompiled(p) ELSE ExitUnrunnable(p)
  /\ UNCHANGED << opts, diag, printed, input, ran, clean >>

UnlinkC(p) ==
  /\ pc[p] = "unlink"
  /\ SetFile(p, c_file(opts[p]), Absent)
  /\ handle' = Detached(p, c_file(opts[p]))
  /\ AfterUnlink(p)
  /\ UNCHANGED << opts, diag, printed, input, ran, clean >>

(* The exit code of the program is printed and not passed on.              *)
Run(p) ==
  /\ pc[p] = "run"
  /\ ran' = [ran EXCEPT ![p] = files[exe_file(opts[p])]]
  /\ IF opts[p].mode = "c" THEN Go(p, "remove") /\ UNCHANGED << live, status >>
                           ELSE ExitCompleted(p)
  /\ UNCHANGED << fsvars, opts, diag, printed, input, clean >>

RemoveExe(p) ==
  /\ pc[p] = "remove"
  /\ SetFile(p, exe_file(opts[p]), Absent)
  /\ handle' = Detached(p, exe_file(opts[p]))
  /\ ExitCompleted(p)
  /\ UNCHANGED << opts, diag, printed, input, ran, clean >>

Kill(p) ==
  /\ Active(p)
  /\ Go(p, "killed")
  /\ live' = [live EXCEPT ![p] = {}]
  /\ handle' = [handle EXCEPT ![p] = "none"]
  /\ UNCHANGED << files, touched, opts, diag, printed, input, ran, status, clean >>

-----------------------------------------------------------------------------
Init ==
  /\ files = [path \in Path |-> Absent]
  /\ pc = [p \in Procs |-> "idle"]
  /\ opts = [p \in Procs |-> NoInvocation]
  /\ diag = [p \in Procs |-> diagnostics_create]
  /\ printed = [p \in Procs |-> FALSE]
  /\ live = [p \in Procs |-> {}]
  /\ handle = [p \in Procs |-> "none"]
  /\ input = [p \in Procs |-> Absent]
  /\ ran = [p \in Procs |-> "none"]
  /\ status = [p \in Procs |-> "none"]
  /\ touched = [p \in Procs |-> {}]
  /\ clean = [p \in Procs |-> TRUE]

Next ==
  \E p \in Procs :
    \/ ExitEarly(p)
    \/ \E o \in Invocations : Begin(p, o)
    \/ Tokens(p)
    \/ Parse(p)
    \/ Analyze(p)
    \/ OpenC(p)
    \/ WriteC(p)
    \/ GccRead(p)
    \/ GccSucceeds(p)
    \/ GccFails(p)
    \/ UnlinkC(p)
    \/ Run(p)
    \/ RemoveExe(p)
    \/ Kill(p)

Spec == Init /\ [][Next]_vars
-----------------------------------------------------------------------------
(***************************************************************************)
(* Correctness.                                                            *)
(***************************************************************************)
Stages == {"idle", "tokens", "parse", "analyze", "open", "write", "gcc", "link",
           "unlink", "run", "remove", "exit", "killed"}

TypeOK ==
  /\ files \in [Path -> Contents]
  /\ pc \in [Procs -> Stages]
  /\ opts \in [Procs -> Invocation \cup {NoInvocation}]
  /\ diag \in [Procs -> Collector]
  /\ \A p \in Procs : Len(diag[p].list) <= MaxDiagnostics
  /\ printed \in [Procs -> BOOLEAN]
  /\ live \in [Procs -> SUBSET Objects]
  /\ handle \in [Procs -> {"none", "open", "stale"}]
  /\ input \in [Procs -> Contents]
  /\ ran \in [Procs -> Contents \cup {"none"}]
  /\ status \in [Procs -> {"none", "0", "1"}]
  /\ touched \in [Procs -> SUBSET Path]
  /\ clean \in [Procs -> BOOLEAN]

Succeeded(p, mode) == status[p] = "0" /\ opts[p].mode = mode

(* An invocation that exits with 0 has left the program it was given at    *)
(* its output path, whatever earlier invocations left behind there (of     *)
(* other programs, failed in gcc, or killed half way), as long as none     *)
(* that shares a path ran at the same time (driver.c:315-349).  On a full  *)
(* disk, which nothing notices, the C of --c is empty.                     *)
OutputIsOwn ==
  \A p \in Procs : clean[p] =>
    /\ Succeeded(p, "compile") => files[exe_file(opts[p])] = opts[p].stem
    /\ Succeeded(p, "c") => \/ files[c_file(opts[p])] = opts[p].stem
                            \/ DiskMayFill /\ files[c_file(opts[p])] = Empty

(* --run runs the program that was just compiled, and no other.            *)
RunsOwnProgram ==
  \A p \in Procs : clean[p] => ran[p] \in {"none", opts[p].stem}

(* After a successful compilation the generated C is gone, unless          *)
(* --keep-c asked for it (docs/LANGUAGE.md:776-777, driver.c:353-355).     *)
CFileRemoved ==
  \A p \in Procs : clean[p] /\ Succeeded(p, "compile") =>
    files[c_file(opts[p])] = IF opts[p].keep_c THEN opts[p].stem ELSE Absent

(* A program rejected by any pass leaves the file system alone: what an    *)
(* earlier compilation produced is still there.                            *)
RejectedTouchesNothing ==
  \A p \in Procs : diag[p].had_error => touched[p] = {}

(* A rejected program is explained: an error has been printed, except when *)
(* the collector was full of other messages (diag.c:73-97).                *)
RejectionExplained ==
  \A p \in Procs : status[p] = "1" /\ diag[p].had_error =>
    /\ printed[p]
    /\ Stored(diag[p], "error") \/ Len(diag[p].list) = MaxDiagnostics

(* On each of the ways out of driver_main everything that was created on   *)
(* the way to it has been destroyed, once, and nothing that was not: the   *)
(* lists of calls at driver.c:229-235, 250-283, 317-331, 337-350, 369-382  *)
(* and 393-406 each fit what the command line has had created.             *)
AllReleased == \A p \in Procs : pc[p] = "exit" => live[p] = {}

(* What the documentation says of an invocation, in six places:            *)
(*   an error is an exit code ("If diag.had_error is true after a pass,    *)
(*   skip remaining passes and exit non-zero", ARCHITECTURE.md:314);       *)
(*   messages are shown ("All diagnostics collected during compilation,    *)
(*   printed at end", ARCHITECTURE.md:229), an error among them ("All      *)
(*   errors go through the Diagnostics interface", 306);                   *)
(*   the C file is a temporary one ("The generated .c file is created in   *)
(*   /tmp/", LANGUAGE.md:775);                                             *)
(*   code that could not be written is not reported as generated           *)
(*   ("CodeGen -> errors? -> print -> skip GCC", ARCHITECTURE.md:323);     *)
(*   a binary no other invocation writes holds the program it was given    *)
(*   ("holycc program.HC  # compile to binary", LANGUAGE.md:48).           *)
ErrorsExitNonZero(p) == pc[p] = "exit" /\ diag[p].had_error => status[p] = "1"
DiagnosticsPrinted(p) == pc[p] = "exit" /\ diag[p].list # << >> => printed[p]
ErrorsListed(p) == diag[p].had_error => Stored(diag[p], "error")
GeneratedInTmp(p) ==
  opts[p].mode = "compile" =>
    touched[p] \subseteq {exe_file(opts[p])} \cup (TmpNames \X {".c"})
EmittedCIsComplete(p) ==
  clean[p] /\ Succeeded(p, "c") => files[c_file(opts[p])] = opts[p].stem
Unrivalled(p) == \A q \in Procs \ {p} : exe_file(opts[p]) \notin touched[q]
BinaryIsOwn(p) ==
  Succeeded(p, "compile") /\ Unrivalled(p) => files[exe_file(opts[p])] = opts[p].stem

DoesAsDocumented ==
  \A p \in Procs :
    /\ ErrorsExitNonZero(p)
    /\ DiagnosticsPrinted(p)
    /\ ErrorsListed(p)
    /\ GeneratedInTmp(p)
    /\ EmittedCIsComplete(p)
    /\ BinaryIsOwn(p)
=============================================================================
