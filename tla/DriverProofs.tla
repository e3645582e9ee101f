---------------------------- MODULE DriverProofs ----------------------------
(***************************************************************************)
(* What driver_main promises of the files and of itself, for any number of *)
(* invocations at the same time, killed or failing at any stage.           *)
(***************************************************************************)
EXTENDS Driver, DiagnosticsProofs

(***************************************************************************)
(* The inductive invariant.  A process is described by the stage it is in: *)
(* its command line, what it has created, what it may have reported, and,  *)
(* as long as it has its paths for itself, what is found at them.          *)
(***************************************************************************)
Late     == {"open", "write", "gcc", "link", "unlink", "run", "remove"}
Compiled == {"gcc", "link", "unlink", "run", "remove"}

CommandFits(p) ==
  /\ Idle(p) => opts[p] = NoInvocation
  /\ Active(p) => opts[p] \in Invocation
  /\ pc[p] = "tokens" => opts[p].mode = "tokens"
  /\ pc[p] = "parse" => opts[p].mode # "tokens"
  /\ pc[p] \in Late \cup {"analyze"} => Generates(opts[p])
  /\ pc[p] \in Compiled => Compiles(opts[p])
  /\ pc[p] = "unlink" => opts[p].mode = "compile" /\ ~opts[p].keep_c
  /\ pc[p] = "remove" => opts[p].mode = "c"

(* What each stage finds created, and nothing when there is no stage left. *)
TokensObjects  == {"source", "diag", "lexer"}
ParseObjects   == TokensObjects \cup {"parser"}
AnalyzeObjects == ParseObjects \cup {"ast", "semantic"}
LateObjects(o) == AnalyzeObjects \cup {"codegen"} \cup NameStrings(o)
LiveFits(p) ==
  /\ pc[p] \in {"idle", "exit", "killed"} => live[p] = {}
  /\ pc[p] = "tokens" => live[p] = TokensObjects
  /\ pc[p] = "parse" => live[p] = ParseObjects
  /\ pc[p] = "analyze" => live[p] = AnalyzeObjects
  /\ pc[p] \in Late => live[p] = LateObjects(opts[p])

ReportsFit(p) ==
  /\ Kept(diag[p])
  /\ pc[p] \in Late \cup {"idle"} => ~diag[p].had_error
  /\ diag[p].had_error \/ pc[p] \in {"idle", "tokens", "parse", "analyze"} => touched[p] = {}
  /\ pc[p] # "exit" => status[p] = "none"
  /\ pc[p] \notin {"remove", "exit", "killed"} => ran[p] = "none"
  /\ status[p] = "1" /\ diag[p].had_error => printed[p]

(* No process that is running has a path in common with one that is clean. *)
Alone(p) ==
  clean[p] => \A q \in Procs \ {p} : Active(q) => ~Shares(opts[p], opts[q])

(* The C file, the executable and the program of p, and what a disk that   *)
(* may be full leaves of the first.                                        *)
C(p)    == files[c_file(opts[p])]
Exe(p)  == files[exe_file(opts[p])]
Own(p)  == opts[p].stem
Written(p) == C(p) = Own(p) \/ (DiskMayFill /\ C(p) = Empty)
COver(p) ==
  C(p) = IF opts[p].mode = "c" \/ opts[p].keep_c THEN Own(p) ELSE Absent

FilesFit(p) ==
  /\ pc[p] = "write"  => handle[p] = "open" /\ C(p) = Empty
  /\ pc[p] = "gcc"    => Written(p)
  /\ pc[p] = "link"   => Written(p) /\ input[p] = C(p)
  /\ pc[p] = "unlink" => Exe(p) = Own(p)
  /\ pc[p] = "run"    => Exe(p) = Own(p) /\ COver(p)
  /\ pc[p] = "remove" => COver(p)
  /\ Succeeded(p, "compile") => Exe(p) = Own(p) /\ COver(p)
  /\ Succeeded(p, "c")       => Written(p)
  /\ ran[p] \in {"none", Own(p)}

Fits(p) ==
  /\ CommandFits(p) /\ LiveFits(p) /\ ReportsFit(p) /\ Alone(p)
  /\ clean[p] => FilesFit(p)

IInv == TypeOK /\ \A p \in Procs : Fits(p)

-----------------------------------------------------------------------------
(* The generated C and the executable of a command are different files,    *)
(* and both are among its paths when it makes them (driver.c:287-313).     *)
LEMMA PathsOfCommand ==
  ASSUME NEW o \in Invocation
  PROVE  /\ c_file(o) \in Path /\ exe_file(o) \in Path
         /\ c_file(o) # exe_file(o)
         /\ Generates(o) => c_file(o) \in PathsOf(o)
         /\ Compiles(o) => exe_file(o) \in PathsOf(o)
         /\ o.stem \in Stems /\ o # NoInvocation
<1>1. /\ o.stem \in Stems /\ BasenameOf[o.stem] \in TmpNames
      /\ o.output # NoOutput => o.output \in Outputs
      /\ o.mode \in Modes
  BY BasenameAssumption DEF Invocation
<1>2. c_file(o) \in Path
  BY <1>1 DEF c_file, Path
<1>3. exe_file(o) \in Path
  BY <1>1 DEF exe_file, Path
<1>4. c_file(o) # exe_file(o)
  BY DEF c_file, exe_file
<1>5. o # NoInvocation
  BY <1>1 DEF NoInvocation, Modes
<1>6. QED
  BY <1>1, <1>2, <1>3, <1>4, <1>5 DEF PathsOf

LEMMA NothingIsSharedByNoCommand ==
  PathsOf(NoInvocation) = {} /\ ~Generates(NoInvocation) /\ ~Compiles(NoInvocation)
BY DEF PathsOf, Generates, Compiles, NoInvocation

-----------------------------------------------------------------------------
(* Every step of a process but the first.                                  *)
Work(p) ==
  \/ ExitEarly(p) \/ Tokens(p) \/ Parse(p) \/ Analyze(p)
  \/ OpenC(p) \/ WriteC(p) \/ GccRead(p) \/ GccSucceeds(p) \/ GccFails(p)
  \/ UnlinkC(p) \/ Run(p) \/ RemoveExe(p) \/ Kill(p)

(* What such a step leaves alone: everything of the other processes, and   *)
(* the files that are not among its own.                                   *)
SameProcess(q) ==
  /\ pc'[q] = pc[q] /\ diag'[q] = diag[q] /\ printed'[q] = printed[q]
  /\ live'[q] = live[q] /\ input'[q] = input[q] /\ ran'[q] = ran[q]
  /\ status'[q] = status[q] /\ touched'[q] = touched[q]

OnlyOwnFiles(p) ==
  /\ opts' = opts /\ clean' = clean
  /\ Active(p)' => Active(p)
  /\ \A q \in Procs \ {p} : SameProcess(q)
  /\ ~Active(p) => files' = files /\ handle' = handle
  /\ \A path \in Path \ PathsOf(opts[p]) : files'[path] = files[path]
  /\ \A q \in Procs \ {p} :
       c_file(opts[q]) \notin PathsOf(opts[p]) => handle'[q] = handle[q]

LEMMA WorkOnOwnFiles ==
  ASSUME IInv, NEW p \in Procs, Work(p)
  PROVE  OnlyOwnFiles(p)
<1> USE DEF SameProcess, OnlyOwnFiles, fsvars
<1>1. /\ files \in [Path -> Contents] /\ pc \in [Procs -> Stages]
      /\ diag \in [Procs -> Collector] /\ printed \in [Procs -> BOOLEAN]
      /\ live \in [Procs -> SUBSET Objects]
      /\ handle \in [Procs -> {"none", "open", "stale"}]
      /\ input \in [Procs -> Contents] /\ ran \in [Procs -> Contents \cup {"none"}]
      /\ status \in [Procs -> {"none", "0", "1"}]
      /\ touched \in [Procs -> SUBSET Path] /\ CommandFits(p)
  BY DEF IInv, TypeOK, Fits
<1>2. ASSUME Active(p)
      PROVE  opts[p] \in Invocation
  BY <1>1, <1>2 DEF CommandFits
<1>3. ASSUME pc[p] \in Late
      PROVE  /\ c_file(opts[p]) \in PathsOf(opts[p])
             /\ pc[p] \in Compiled => exe_file(opts[p]) \in PathsOf(opts[p])
             /\ Active(p)
  BY <1>1, <1>2, <1>3, PathsOfCommand DEF CommandFits, Active, Late, Compiled
<1>4. CASE ExitEarly(p)
  BY <1>1, <1>4 DEF ExitEarly, Exit, Go, Active
<1>5. CASE Tokens(p)
  BY <1>1, <1>5 DEF Tokens, Exit, Go, Active
<1>6. CASE Parse(p)
  BY <1>1, <1>6 DEF Parse, Exit, Go, Active, Keep
<1>7. CASE Analyze(p)
  BY <1>1, <1>7 DEF Analyze, Exit, Go, Active, Keep
<1>8. CASE OpenC(p)
  BY <1>1, <1>3, <1>8 DEF OpenC, ExitUnopened, ExitUncompiled, ExitUnrunnable,
         ExitCompleted, Exit, Go, SetFile, Late
<1>9. CASE WriteC(p)
  BY <1>1, <1>3, <1>9 DEF WriteC, ExitUnopened, ExitUncompiled, ExitUnrunnable,
         ExitCompleted, Exit, Go, SetFile, Late
<1>10. CASE GccRead(p)
  BY <1>1, <1>10 DEF GccRead, Go, Active
<1>11. CASE GccSucceeds(p)
  BY <1>1, <1>3, <1>11
     DEF GccSucceeds, AfterUnlink, ExitUnopened, ExitUncompiled, ExitUnrunnable,
         ExitCompleted, Exit, Go, SetFile, Detached, Late, Compiled
<1>12. CASE GccFails(p)
  BY <1>1, <1>3, <1>12
     DEF GccFails, ExitUnopened, ExitUncompiled, ExitUnrunnable,
         ExitCompleted, Exit, Go, SetFile, Detached, Late, Compiled
<1>13. CASE UnlinkC(p)
  BY <1>1, <1>3, <1>13
     DEF UnlinkC, AfterUnlink, ExitUnopened, ExitUncompiled, ExitUnrunnable,
         ExitCompleted, Exit, Go, SetFile, Detached, Late
<1>14. CASE Run(p)
  BY <1>1, <1>14 DEF Run, ExitUnopened, ExitUncompiled, ExitUnrunnable,
         ExitCompleted, Exit, Go, Active
<1>15. CASE RemoveExe(p)
  BY <1>1, <1>3, <1>15
     DEF RemoveExe, ExitUnopened, ExitUncompiled, ExitUnrunnable,
         ExitCompleted, Exit, Go, SetFile, Detached, Late, Compiled
<1>16. CASE Kill(p)
  BY <1>1, <1>16 DEF Kill, Go, Active
<1>17. QED
  BY <1>4, <1>5, <1>6, <1>7, <1>8, <1>9, <1>10, <1>11, <1>12, <1>13, <1>14,
     <1>15, <1>16 DEF Work

(* A step of p disturbs no other process that shares no path with it.      *)
LEMMA OthersStillFit ==
  ASSUME IInv, NEW p \in Procs, OnlyOwnFiles(p), NEW q \in Procs \ {p}
  PROVE  Fits(q)'
<1>1. Fits(q) /\ opts[q] \in Invocation \cup {NoInvocation}
  BY DEF IInv, TypeOK
<1>2. opts'[q] = opts[q] /\ clean'[q] = clean[q] /\ SameProcess(q)
  BY DEF OnlyOwnFiles
<1>3. CommandFits(q)' /\ LiveFits(q)' /\ ReportsFit(q)'
  BY <1>1, <1>2
     DEF Fits, SameProcess, CommandFits, LiveFits, ReportsFit, Idle, Active,
         Generates, Compiles
<1>4. Alone(q)'
  <2> SUFFICES ASSUME clean'[q], NEW r \in Procs \ {q}, Active(r)'
               PROVE  ~Shares(opts'[q], opts'[r])
    BY DEF Alone
  <2>1. Active(r)
    BY DEF OnlyOwnFiles, SameProcess, Active
  <2>2. QED
    BY <1>1, <1>2, <2>1 DEF Fits, Alone, OnlyOwnFiles
<1>5. ASSUME clean'[q]
      PROVE  FilesFit(q)'
  <2>1. FilesFit(q) /\ (Active(p) => ~Shares(opts[q], opts[p]))
    BY <1>1, <1>2, <1>5 DEF Fits, Alone
  <2>2. ASSUME Generates(opts[q])
        PROVE  C(q)' = C(q) /\ handle'[q] = handle[q]
    <3>1. c_file(opts[q]) \in PathsOf(opts[q]) /\ c_file(opts[q]) \in Path
      BY <1>1, <2>2, PathsOfCommand, NothingIsSharedByNoCommand
    <3>2. QED
      BY <1>2, <2>1, <3>1 DEF C, OnlyOwnFiles, Shares
  <2>3. ASSUME Compiles(opts[q])
        PROVE  Exe(q)' = Exe(q)
    <3>1. exe_file(opts[q]) \in PathsOf(opts[q]) /\ exe_file(opts[q]) \in Path
      BY <1>1, <2>3, PathsOfCommand, NothingIsSharedByNoCommand
    <3>2. QED
      BY <1>2, <2>1, <3>1 DEF Exe, OnlyOwnFiles, Shares
  <2>4. /\ pc[q] \in Late => Generates(opts[q])
        /\ pc[q] \in Compiled => Compiles(opts[q])
        /\ Succeeded(q, "compile") => Generates(opts[q]) /\ Compiles(opts[q])
        /\ Succeeded(q, "c") => Generates(opts[q])
    BY <1>1 DEF Fits, CommandFits, Succeeded, Generates, Compiles
  <2>5. Own(q)' = Own(q) /\ pc'[q] = pc[q] /\ (\A m : Succeeded(q, m)' <=> Succeeded(q, m))
        /\ input'[q] = input[q] /\ ran'[q] = ran[q]
    BY <1>2 DEF Own, Succeeded, SameProcess
  <2>6. /\ Generates(opts[q]) => (Written(q)' <=> Written(q)) /\ (COver(q)' <=> COver(q))
    BY <1>2, <2>2, <2>5 DEF Written, COver
  <2>7. QED
    BY <2>1, <2>2, <2>3, <2>4, <2>5, <2>6 DEF FilesFit, Late, Compiled
<1>6. QED
  BY <1>3, <1>4, <1>5 DEF Fits

-----------------------------------------------------------------------------
(* What a step of p makes of p itself.                                     *)
FitsItself(p) ==
  CommandFits(p) /\ LiveFits(p) /\ ReportsFit(p) /\ (clean[p] => FilesFit(p))

(* The facts every one of those proofs starts from.                        *)
LEMMA Before ==
  ASSUME IInv, NEW p \in Procs
  PROVE  /\ files \in [Path -> Contents] /\ pc \in [Procs -> Stages]
         /\ opts \in [Procs -> Invocation \cup {NoInvocation}]
         /\ diag \in [Procs -> Collector] /\ printed \in [Procs -> BOOLEAN]
         /\ \A q \in Procs : Len(diag[q].list) <= MaxDiagnostics
         /\ live \in [Procs -> SUBSET Objects]
         /\ handle \in [Procs -> {"none", "open", "stale"}]
         /\ input \in [Procs -> Contents] /\ ran \in [Procs -> Contents \cup {"none"}]
         /\ status \in [Procs -> {"none", "0", "1"}]
         /\ touched \in [Procs -> SUBSET Path] /\ clean \in [Procs -> BOOLEAN]
         /\ FitsItself(p)
BY DEF IInv, TypeOK, Fits, FitsItself

LEMMA BeforeLate ==
  ASSUME IInv, NEW p \in Procs, pc[p] \in Late
  PROVE  /\ c_file(opts[p]) \in Path /\ exe_file(opts[p]) \in Path
         /\ c_file(opts[p]) # exe_file(opts[p])
         /\ opts[p] \in Invocation /\ opts[p].stem \in Stems
         /\ opts[p].mode \in Modes /\ opts[p].keep_c \in BOOLEAN
BY PathsOfCommand DEF IInv, Fits, CommandFits, Late, Active, Invocation

LEMMA ContentsDiffer ==
  /\ Absent \in Contents /\ Empty \in Contents /\ Garbled \in Contents
  /\ Stems \subseteq Contents /\ Absent # Empty
  /\ \A s \in Stems : s # Absent /\ s # Empty /\ s # Garbled
BY StemsAssumption DEF Contents, Absent, Empty, Garbled

(* An exit whose calls handle every object leaves nothing alive.           *)
LEMMA ExitReleases ==
  ASSUME IInv, NEW p \in Procs, NEW code \in {"0", "1"}, NEW created, NEW calls,
         Exit(p, code, created, calls), Mishandled(live[p] \cup created, calls) = {}
  PROVE  /\ pc' = [pc EXCEPT ![p] = "exit"] /\ pc' \in [Procs -> Stages]
         /\ status' = [status EXCEPT ![p] = code] /\ status' \in [Procs -> {"none", "0", "1"}]
         /\ live' = [live EXCEPT ![p] = {}] /\ live' \in [Procs -> SUBSET Objects]
         /\ live'[p] = {}
<1>1. live' = [live EXCEPT ![p] = {}]
  BY DEF Exit
<1>2. QED
  BY <1>1, Before DEF Exit, Go, Stages

(* The lists of the exits before any code is generated.                    *)
LEMMA EarlyCallsFit ==
  /\ Mishandled({} \cup {}, << >>) = {}
  /\ Mishandled({} \cup {"source"}, << "source" >>) = {}
  /\ Mishandled(TokensObjects \cup {}, << "diag", "lexer", "source" >>) = {}
  /\ Mishandled(ParseObjects \cup {"ast"}, << "ast", "diag", "parser", "lexer", "source" >>) = {}
  /\ Mishandled(AnalyzeObjects \cup {}, << "ast", "semantic", "diag", "parser", "lexer", "source" >>) = {}
<1>1. ASSUME NEW objects, NEW calls,
             \A x \in Objects : IF x \in objects THEN DestroyedOnce(calls, x)
                                                 ELSE ~Destroyed(calls, x)
      PROVE  Mishandled(objects, calls) = {}
  BY <1>1 DEF Mishandled
<1>2. Mishandled({} \cup {}, << >>) = {}
  BY <1>1 DEF Objects, DestroyedOnce, Destroyed
<1>3. Mishandled({} \cup {"source"}, << "source" >>) = {}
  BY <1>1 DEF Objects, DestroyedOnce, Destroyed
<1>4. Mishandled(TokensObjects \cup {}, << "diag", "lexer", "source" >>) = {}
  BY <1>1 DEF Objects, DestroyedOnce, Destroyed, TokensObjects
<1>5. Mishandled(ParseObjects \cup {"ast"}, << "ast", "diag", "parser", "lexer", "source" >>) = {}
  BY <1>1 DEF Objects, DestroyedOnce, Destroyed, TokensObjects, ParseObjects
<1>6. Mishandled(AnalyzeObjects \cup {},
                 << "ast", "semantic", "diag", "parser", "lexer", "source" >>) = {}
  BY <1>1 DEF Objects, DestroyedOnce, Destroyed, TokensObjects, ParseObjects, AnalyzeObjects
<1>7. QED
  BY <1>2, <1>3, <1>4, <1>5, <1>6

LEMMA ExitEarlyFits ==
  ASSUME IInv, NEW p \in Procs, ExitEarly(p)
  PROVE  TypeOK' /\ FitsItself(p)'
<1> USE Before DEF fsvars
<1>1. /\ Idle(p) /\ UNCHANGED << fsvars, opts, diag, printed, input, ran, clean >>
      /\ \/ \E code \in {"0", "1"} : Exit(p, code, {}, << >>)
         \/ Exit(p, "1", {"source"}, << "source" >>)
  BY DEF ExitEarly
<1>2. live[p] = {}
  BY <1>1 DEF FitsItself, LiveFits, Idle
<1>3. PICK code \in {"0", "1"} :
        /\ pc' = [pc EXCEPT ![p] = "exit"] /\ pc' \in [Procs -> Stages]
        /\ status' = [status EXCEPT ![p] = code] /\ status' \in [Procs -> {"none", "0", "1"}]
        /\ live' \in [Procs -> SUBSET Objects] /\ live'[p] = {}
  <2>1. CASE \E code \in {"0", "1"} : Exit(p, code, {}, << >>)
    <3>1. PICK code \in {"0", "1"} : Exit(p, code, {}, << >>)
      BY <2>1
    <3>2. Mishandled(live[p] \cup {}, << >>) = {}
      BY <1>2, EarlyCallsFit
    <3>3. /\ pc' = [pc EXCEPT ![p] = "exit"] /\ pc' \in [Procs -> Stages]
          /\ status' = [status EXCEPT ![p] = code] /\ status' \in [Procs -> {"none", "0", "1"}]
          /\ live' \in [Procs -> SUBSET Objects] /\ live'[p] = {}
      BY <3>1, <3>2 DEF Exit, Go, Stages
    <3>4. QED
      BY <3>3
  <2>2. CASE Exit(p, "1", {"source"}, << "source" >>)
    BY <1>2, <2>2, ExitReleases, EarlyCallsFit
  <2>3. QED
    BY <1>1, <2>1, <2>2
<1>4. TypeOK'
  BY <1>1, <1>3 DEF TypeOK
<1>5. FitsItself(p)'
  BY <1>1, <1>3
     DEF FitsItself, CommandFits, LiveFits, ReportsFit, FilesFit, Idle, Active, Late,
         Compiled, Succeeded, NoInvocation
<1>6. QED
  BY <1>4, <1>5

LEMMA TokensFits ==
  ASSUME IInv, NEW p \in Procs, Tokens(p)
  PROVE  TypeOK' /\ FitsItself(p)'
<1> USE Before DEF fsvars
<1>1. PICK d \in {diag[p], diag_error(diag[p])} :
        /\ diag' = [diag EXCEPT ![p] = d] /\ pc[p] = "tokens"
        /\ Exit(p, "0", {}, << "diag", "lexer", "source" >>)
        /\ UNCHANGED << fsvars, opts, printed, input, ran, clean >>
  BY DEF Tokens
<1>2. Kept(d)
  BY <1>1, DiagKept DEF FitsItself, ReportsFit
<1>3. live[p] = TokensObjects
  BY <1>1 DEF FitsItself, LiveFits
<1>4. /\ pc' = [pc EXCEPT ![p] = "exit"] /\ pc' \in [Procs -> Stages]
      /\ status' = [status EXCEPT ![p] = "0"] /\ status' \in [Procs -> {"none", "0", "1"}]
      /\ live' \in [Procs -> SUBSET Objects] /\ live'[p] = {}
  BY <1>1, <1>3, ExitReleases, EarlyCallsFit
<1>5. TypeOK'
  BY <1>1, <1>2, <1>4 DEF TypeOK, Kept, BoundedCollector
<1>6. FitsItself(p)'
  BY <1>1, <1>2, <1>4
     DEF FitsItself, CommandFits, LiveFits, ReportsFit, FilesFit, Idle, Active,
         Late, Compiled, Succeeded
<1>7. QED
  BY <1>5, <1>6

LEMMA ParseFits ==
  ASSUME IInv, NEW p \in Procs, Parse(p)
  PROVE  TypeOK' /\ FitsItself(p)'
<1> USE Before DEF Exit, Go, Keep, fsvars
<1>1. PICK d \in {diag[p], diag_error(diag[p])} :
        /\ diag' = [diag EXCEPT ![p] = d]
        /\ printed' = [printed EXCEPT ![p] = d.had_error]
        /\ IF d.had_error
           THEN Exit(p, "1", {"ast"}, << "ast", "diag", "parser", "lexer", "source" >>)
           ELSE IF opts[p].mode = "ast"
           THEN Exit(p, "0", {"ast"}, << "ast", "diag", "parser", "lexer", "source" >>)
           ELSE /\ Go(p, "analyze")
                /\ Keep(p, {"ast", "semantic"})
                /\ status' = status
        /\ UNCHANGED << fsvars, opts, input, ran, clean >> /\ pc[p] = "parse"
  BY DEF Parse
<1>2. Kept(d)
  BY <1>1, DiagKept DEF FitsItself, ReportsFit
<1>3. d.had_error \in BOOLEAN
  BY <1>2 DEF Kept, BoundedCollector, Collector
<1>4. opts[p].mode \in Modes /\ opts[p].mode # "tokens" /\ opts[p] \in Invocation
  BY <1>1 DEF FitsItself, CommandFits, Active, Invocation
<1>5. CASE d.had_error \/ opts[p].mode = "ast"
  <2> DEFINE code == IF d.had_error THEN "1" ELSE "0"
  <2>1. code \in {"0", "1"} /\ (d.had_error => code = "1") /\ (~d.had_error => code = "0")
    OBVIOUS
  <2>2. Exit(p, code, {"ast"}, << "ast", "diag", "parser", "lexer", "source" >>)
    BY <1>1, <1>5
  <2> HIDE DEF code
  <2>3. live[p] = ParseObjects
    BY <1>1 DEF FitsItself, LiveFits
  <2>4. /\ pc' = [pc EXCEPT ![p] = "exit"] /\ pc' \in [Procs -> Stages]
        /\ status' = [status EXCEPT ![p] = code] /\ status' \in [Procs -> {"none", "0", "1"}]
        /\ live' \in [Procs -> SUBSET Objects] /\ live'[p] = {}
    BY <2>1, <2>2, <2>3, ExitReleases, EarlyCallsFit
  <2>5. TypeOK'
    <3>1. diag' \in [Procs -> Collector] /\ \A q \in Procs : Len(diag'[q].list) <= MaxDiagnostics
      BY <1>1, <1>2 DEF Kept, BoundedCollector
    <3>2. printed' \in [Procs -> BOOLEAN]
      BY <1>1, <1>3
    <3>3. QED
      BY <1>1, <2>4, <3>1, <3>2 DEF TypeOK
  <2>6. FitsItself(p)'
    BY <1>1, <1>2, <1>3, <1>4, <1>5, <2>1, <2>4
       DEF FitsItself, CommandFits, LiveFits, ReportsFit, FilesFit, Idle, Active,
           Late, Compiled, Succeeded
  <2>7. QED
    BY <2>5, <2>6
<1>6. CASE ~(d.had_error \/ opts[p].mode = "ast")
  <2>1. TypeOK'
    <3>1. live' \in [Procs -> SUBSET Objects]
      BY <1>1, <1>6 DEF Objects
    <3>2. QED
      BY <1>1, <1>2, <1>3, <1>6, <3>1 DEF TypeOK, Stages, Kept, BoundedCollector
  <2>2. FitsItself(p)'
    BY <1>1, <1>2, <1>3, <1>4, <1>6
       DEF FitsItself, CommandFits, LiveFits, ReportsFit, FilesFit, Idle, Active,
           Late, Compiled, Succeeded, ParseObjects, AnalyzeObjects, Modes, Generates
  <2>3. QED
    BY <2>1, <2>2
<1>7. QED
  BY <1>5, <1>6

LEMMA AnalyzeFits ==
  ASSUME IInv, NEW p \in Procs, Analyze(p)
  PROVE  TypeOK' /\ FitsItself(p)'
<1> USE Before DEF Exit, Go, Keep, fsvars
<1>1. PICK d \in Analyzed(diag[p]) :
        /\ diag' = [diag EXCEPT ![p] = d]
        /\ printed' = [printed EXCEPT ![p] = d.had_error]
        /\ IF d.had_error
           THEN Exit(p, "1", {}, << "ast", "semantic", "diag", "parser", "lexer", "source" >>)
           ELSE /\ Go(p, "open")
                /\ Keep(p, {"codegen"} \cup NameStrings(opts[p]))
                /\ status' = status
        /\ UNCHANGED << fsvars, opts, input, ran, clean >> /\ pc[p] = "analyze"
  BY DEF Analyze
<1>2. Kept(d)
  BY <1>1, DiagKept DEF FitsItself, ReportsFit, Analyzed
<1>3. d.had_error \in BOOLEAN
  BY <1>2 DEF Kept, BoundedCollector, Collector
<1>4. opts[p] \in Invocation /\ Generates(opts[p])
  BY <1>1 DEF FitsItself, CommandFits, Active
<1>5. CASE d.had_error
  <2>1. live[p] = AnalyzeObjects
    BY <1>1 DEF FitsItself, LiveFits
  <2>2. /\ pc' = [pc EXCEPT ![p] = "exit"] /\ pc' \in [Procs -> Stages]
        /\ status' = [status EXCEPT ![p] = "1"] /\ status' \in [Procs -> {"none", "0", "1"}]
        /\ live' \in [Procs -> SUBSET Objects] /\ live'[p] = {}
    <3>1. Mishandled(live[p] \cup {},
                     << "ast", "semantic", "diag", "parser", "lexer", "source" >>) = {}
      BY <2>1, EarlyCallsFit
    <3>2. Exit(p, "1", {}, << "ast", "semantic", "diag", "parser", "lexer", "source" >>)
      BY <1>1, <1>5
    <3>3. QED
      BY <3>1, <3>2, ExitReleases
  <2>3. TypeOK'
    BY <1>1, <1>2, <1>3, <2>2 DEF TypeOK, Kept, BoundedCollector
  <2>4. FitsItself(p)'
    BY <1>1, <1>2, <1>3, <1>4, <1>5, <2>2
       DEF FitsItself, CommandFits, LiveFits, ReportsFit, FilesFit, Idle, Active,
           Late, Compiled, Succeeded
  <2>5. QED
    BY <2>3, <2>4
<1>6. CASE ~d.had_error
  <2> DEFINE made == {"codegen"} \cup NameStrings(opts[p])
  <2>1. TypeOK'
    <3>1. made \in SUBSET Objects
      BY DEF Objects, NameStrings
    <3>2. live' = [live EXCEPT ![p] = @ \cup made]
      BY <1>1, <1>6
    <3> HIDE DEF made
    <3>3. live' \in [Procs -> SUBSET Objects]
      BY <3>1, <3>2
    <3>4. QED
      BY <1>1, <1>2, <1>3, <1>6, <3>3 DEF TypeOK, Stages, Kept, BoundedCollector
  <2>2. FitsItself(p)'
    BY <1>1, <1>2, <1>3, <1>4, <1>6
       DEF FitsItself, CommandFits, LiveFits, ReportsFit, FilesFit, Idle, Active,
           Late, Compiled, Succeeded, AnalyzeObjects, LateObjects
  <2>3. QED
    BY <2>1, <2>2
<1>7. QED
  BY <1>5, <1>6

(* On the ways out of the later stages nothing is left alive: each of the  *)
(* four lists has every object once, and of the names' strings those that  *)
(* the command line has had created.                                       *)
Finish(p, code) ==
  /\ pc[p] \in Late
  /\ \/ code = "1" /\ (ExitUnopened(p) \/ ExitUncompiled(p) \/ ExitUnrunnable(p))
     \/ code = "0" /\ ExitCompleted(p)

Calls(n) ==
  << n.auto_c, n.auto_exe, Unless(n.c_file, n.auto_c), Unless(n.exe_file, n.auto_exe),
     "codegen", "ast", "semantic", "diag", "parser", "lexer", "source" >>

LEMMA CallsFit ==
  ASSUME NEW o \in Invocation, Generates(o)
  PROVE  Mishandled(LateObjects(o), Calls(name_pointers(o))) = {}
<1> DEFINE n == name_pointers(o)
<1>1. \/ n = Pointers(Null, Null, "c_file", "exe_file")
      \/ n = Pointers(Null, Null, "c_file", Null)
      \/ n = Pointers("auto_c", Null, "auto_c", Null)
      \/ n = Pointers("auto_c", "auto_exe", "auto_c", "auto_exe")
  BY DEF name_pointers
<1>2. LateObjects(o) = AnalyzeObjects \cup {"codegen"} \cup
                     {s \in Objects : \E v \in DOMAIN n : n[v] = s}
  BY DEF LateObjects, NameStrings
<1> HIDE DEF n
<1>3. SUFFICES ASSUME NEW x \in Objects
               PROVE  IF x \in LateObjects(o) THEN DestroyedOnce(Calls(n), x)
                                             ELSE ~Destroyed(Calls(n), x)
  BY DEF Mishandled, n
<1>4. CASE n = Pointers(Null, Null, "c_file", "exe_file")
  BY <1>2, <1>4 DEF Calls, DestroyedOnce, Destroyed, Pointers, Unless, Null, AnalyzeObjects,
     ParseObjects, TokensObjects, Objects
<1>5. CASE n = Pointers(Null, Null, "c_file", Null)
  BY <1>2, <1>5 DEF Calls, DestroyedOnce, Destroyed, Pointers, Unless, Null, AnalyzeObjects,
     ParseObjects, TokensObjects, Objects
<1>6. CASE n = Pointers("auto_c", Null, "auto_c", Null)
  BY <1>2, <1>6 DEF Calls, DestroyedOnce, Destroyed, Pointers, Unless, Null, AnalyzeObjects,
     ParseObjects, TokensObjects, Objects
<1>7. CASE n = Pointers("auto_c", "auto_exe", "auto_c", "auto_exe")
  BY <1>2, <1>7 DEF Calls, DestroyedOnce, Destroyed, Pointers, Unless, Null, AnalyzeObjects,
     ParseObjects, TokensObjects, Objects
<1>8. QED
  BY <1>1, <1>4, <1>5, <1>6, <1>7

LEMMA FinishReleases ==
  ASSUME IInv, NEW p \in Procs, NEW code \in {"0", "1"}, Finish(p, code)
  PROVE  /\ pc' = [pc EXCEPT ![p] = "exit"] /\ pc' \in [Procs -> Stages]
         /\ status' = [status EXCEPT ![p] = code] /\ status' \in [Procs -> {"none", "0", "1"}]
         /\ live' \in [Procs -> SUBSET Objects] /\ live'[p] = {}
<1>1. Exit(p, code, {}, Calls(name_pointers(opts[p])))
  BY DEF Finish, ExitUnopened, ExitUncompiled, ExitUnrunnable, ExitCompleted, Calls
<1>2. live[p] \cup {} = LateObjects(opts[p]) /\ opts[p] \in Invocation /\ Generates(opts[p])
  <2>1. pc[p] \in Late
    BY DEF Finish
  <2>2. Active(p)
    BY <2>1 DEF Late, Active
  <2>3. QED
    BY <2>1, <2>2, Before DEF FitsItself, LiveFits, CommandFits
<1>3. Mishandled(live[p] \cup {}, Calls(name_pointers(opts[p]))) = {}
  BY <1>2, CallsFit
<1>4. QED
  BY <1>1, <1>3, ExitReleases

LEMMA GoesOn ==
  ASSUME IInv, NEW p \in Procs, NEW stage \in Stages, Go(p, stage)
  PROVE  pc' = [pc EXCEPT ![p] = stage] /\ pc' \in [Procs -> Stages]
BY Before DEF Go

LEMMA SetFileKeepsTypes ==
  ASSUME IInv, NEW p \in Procs, NEW path \in Path, NEW contents \in Contents,
         SetFile(p, path, contents)
  PROVE  /\ files' = [files EXCEPT ![path] = contents] /\ files' \in [Path -> Contents]
         /\ touched' \in [Procs -> SUBSET Path]
BY Before DEF SetFile

LEMMA DetachedHandles ==
  ASSUME IInv, NEW p \in Procs, NEW path
  PROVE  /\ Detached(p, path) \in [Procs -> {"none", "open", "stale"}]
         /\ Detached(p, path)[p] = handle[p]
BY Before DEF Detached

LEMMA OpenCFits ==
  ASSUME IInv, NEW p \in Procs, OpenC(p)
  PROVE  TypeOK' /\ FitsItself(p)'
<1> USE Before
<1>1. pc[p] = "open" /\ UNCHANGED << opts, diag, printed, input, ran, clean >>
  BY DEF OpenC
<1>2. pc[p] \in Late /\ "write" \in Stages
  BY <1>1 DEF Late, Stages
<1>3. CASE Finish(p, "1") /\ UNCHANGED fsvars
  <2>1. TypeOK'
    BY <1>1, <1>3, FinishReleases DEF TypeOK, fsvars
  <2>2. FitsItself(p)'
    BY <1>1, <1>3, FinishReleases
       DEF fsvars, FitsItself, CommandFits, LiveFits, ReportsFit, FilesFit, Idle,
           Active, Late, Compiled, Succeeded
  <2>3. QED
    BY <2>1, <2>2
<1>4. CASE /\ SetFile(p, c_file(opts[p]), Empty)
           /\ handle' = [handle EXCEPT ![p] = "open"]
           /\ Go(p, "write")
           /\ UNCHANGED << live, status >>
  <2>1. /\ pc' = [pc EXCEPT ![p] = "write"] /\ pc' \in [Procs -> Stages]
        /\ files' = [files EXCEPT ![c_file(opts[p])] = Empty]
        /\ files' \in [Path -> Contents] /\ touched' \in [Procs -> SUBSET Path]
    BY <1>2, <1>4, BeforeLate, ContentsDiffer, GoesOn, SetFileKeepsTypes
  <2>2. TypeOK'
    BY <1>1, <1>4, <2>1 DEF TypeOK
  <2>3. C(p)' = Empty
    BY <1>1, <1>2, <2>1, BeforeLate DEF C
  <2>4. FitsItself(p)'
    BY <1>1, <1>4, <2>1, <2>3
       DEF FitsItself, CommandFits, LiveFits, ReportsFit, FilesFit, Idle,
           Active, Late, Compiled, Succeeded
  <2>5. QED
    BY <2>2, <2>4
<1>5. QED
  BY <1>2, <1>3, <1>4 DEF OpenC, Finish

LEMMA WriteCFits ==
  ASSUME IInv, NEW p \in Procs, WriteC(p)
  PROVE  TypeOK' /\ FitsItself(p)'
<1> USE Before
<1>1. /\ pc[p] = "write" /\ UNCHANGED << opts, diag, printed, input, ran, clean >>
      /\ handle' = [handle EXCEPT ![p] = "none"]
  BY DEF WriteC
<1>2. pc[p] \in Late /\ "gcc" \in Stages
  BY <1>1 DEF Late, Stages
<1>3. /\ files' \in [Path -> Contents] /\ touched' \in [Procs -> SUBSET Path]
      /\ clean[p] => Written(p)'
  <2>1. CASE /\ handle[p] = "open"
             /\ \E text \in IF files[c_file(opts[p])] = Empty
                            THEN {opts[p].stem} ELSE {opts[p].stem, Garbled} :
                  SetFile(p, c_file(opts[p]), text)
    <3>1. PICK text \in IF files[c_file(opts[p])] = Empty
                        THEN {opts[p].stem} ELSE {opts[p].stem, Garbled} :
            SetFile(p, c_file(opts[p]), text)
      BY <2>1
    <3>2. text \in Contents
      BY <1>2, BeforeLate, ContentsDiffer
    <3>3. /\ files' = [files EXCEPT ![c_file(opts[p])] = text]
          /\ files' \in [Path -> Contents] /\ touched' \in [Procs -> SUBSET Path]
      BY <1>2, <3>1, <3>2, BeforeLate, SetFileKeepsTypes
    <3>4. ASSUME clean[p]
          PROVE  Written(p)'
      <4>1. text = opts[p].stem
        BY <1>1, <3>4 DEF FitsItself, FilesFit, C
      <4>2. QED
        BY <1>1, <1>2, <3>3, <4>1, BeforeLate DEF Written, C, Own
    <3>5. QED
      BY <3>3, <3>4
  <2>2. CASE (handle[p] = "stale" \/ DiskMayFill) /\ UNCHANGED << files, touched >>
    BY <1>1, <2>2 DEF FitsItself, FilesFit, Written, C
  <2>3. QED
    BY <2>1, <2>2 DEF WriteC
<1>4. handle' \in [Procs -> {"none", "open", "stale"}]
  BY <1>1
<1>5. CASE Compiles(opts[p]) /\ Go(p, "gcc") /\ UNCHANGED << live, status >>
  <2>1. pc' = [pc EXCEPT ![p] = "gcc"] /\ pc' \in [Procs -> Stages]
    BY <1>2, <1>5, GoesOn
  <2>2. TypeOK'
    BY <1>1, <1>3, <1>4, <1>5, <2>1 DEF TypeOK
  <2>3. CommandFits(p)' /\ LiveFits(p)' /\ ReportsFit(p)'
    <3>1. touched'[p] = {} \/ ~diag[p].had_error
      BY <1>1 DEF FitsItself, ReportsFit, Late
    <3>2. QED
      BY <1>1, <1>5, <2>1, <3>1
         DEF FitsItself, CommandFits, LiveFits, ReportsFit, Idle, Active, Late, Compiled
  <2>4. clean[p] => FilesFit(p)'
    BY <1>1, <1>3, <1>5, <2>1
       DEF FitsItself, ReportsFit, FilesFit, Succeeded, Own
  <2>5. QED
    BY <1>1, <2>2, <2>3, <2>4 DEF FitsItself
<1>6. CASE ~Compiles(opts[p]) /\ Finish(p, "0")
  <2>1. TypeOK'
    BY <1>1, <1>3, <1>4, <1>6, FinishReleases DEF TypeOK
  <2>2. CommandFits(p)' /\ LiveFits(p)' /\ ReportsFit(p)'
    BY <1>1, <1>6, FinishReleases
       DEF FitsItself, CommandFits, LiveFits, ReportsFit, Idle, Active, Late, Compiled
  <2>3. clean[p] => FilesFit(p)'
    BY <1>1, <1>3, <1>6, FinishReleases
       DEF FitsItself, ReportsFit, FilesFit, Succeeded, Own, Compiles
  <2>4. QED
    BY <1>1, <2>1, <2>2, <2>3 DEF FitsItself
<1>7. QED
  BY <1>2, <1>5, <1>6 DEF WriteC, Finish

LEMMA GccReadFits ==
  ASSUME IInv, NEW p \in Procs, GccRead(p)
  PROVE  TypeOK' /\ FitsItself(p)'
<1> USE Before
<1>1. /\ pc[p] = "gcc" /\ Go(p, "link") /\ input' = [input EXCEPT ![p] = C(p)]
      /\ UNCHANGED << files, handle, touched, opts, diag, printed, live, ran, status, clean >>
  BY DEF GccRead, fsvars, C
<1>2. pc[p] \in Late /\ "link" \in Stages
  BY <1>1 DEF Late, Stages
<1>3. C(p) \in Contents
  BY <1>2, BeforeLate DEF C
<1>4. pc' = [pc EXCEPT ![p] = "link"] /\ pc' \in [Procs -> Stages]
  BY <1>1, <1>2, GoesOn
<1>5. TypeOK'
  BY <1>1, <1>3, <1>4 DEF TypeOK
<1>6. FitsItself(p)'
  BY <1>1, <1>4
     DEF FitsItself, CommandFits, LiveFits, ReportsFit, FilesFit, Written, C, Own,
         Idle, Active, Late, Compiled, Succeeded
<1>7. QED
  BY <1>5, <1>6

(* Once the executable holds the program, and the C file is as it is to    *)
(* remain, p either runs the program or returns.                           *)
LEMMA AfterUnlinkFits ==
  ASSUME IInv, NEW p \in Procs, pc[p] \in {"link", "unlink"}, AfterUnlink(p),
         UNCHANGED << opts, diag, printed, input, ran, clean >>,
         files' \in [Path -> Contents], touched' \in [Procs -> SUBSET Path],
         handle' \in [Procs -> {"none", "open", "stale"}],
         clean[p] => Exe(p)' = Own(p) /\ COver(p)'
  PROVE  TypeOK' /\ FitsItself(p)'
<1> USE Before
<1>1. pc[p] \in Late /\ "run" \in Stages /\ pc[p] \in Compiled
  BY DEF Late, Stages, Compiled
<1>2. CASE opts[p].run /\ Go(p, "run") /\ UNCHANGED << live, status >>
  <2>1. pc' = [pc EXCEPT ![p] = "run"] /\ pc' \in [Procs -> Stages]
    BY <1>1, <1>2, GoesOn
  <2>2. TypeOK'
    BY <1>2, <2>1 DEF TypeOK
  <2>3. FitsItself(p)'
    BY <1>1, <1>2, <2>1
       DEF FitsItself, CommandFits, LiveFits, ReportsFit, FilesFit, Own,
           Idle, Active, Late, Compiled, Succeeded
  <2>4. QED
    BY <2>2, <2>3
<1>3. CASE Finish(p, "0")
  <2>1. TypeOK'
    BY <1>3, FinishReleases DEF TypeOK
  <2>2. CommandFits(p)' /\ LiveFits(p)' /\ ReportsFit(p)'
    BY <1>1, <1>3, FinishReleases
       DEF FitsItself, CommandFits, LiveFits, ReportsFit, Idle, Active, Late, Compiled
  <2>3. ASSUME clean[p]
        PROVE  FilesFit(p)'
    <3>1. Written(p)' \/ opts[p].mode # "c"
      BY <2>3 DEF COver, Written, Own
    <3>2. QED
      BY <1>1, <1>3, <2>3, <3>1, FinishReleases
         DEF FitsItself, ReportsFit, FilesFit, Succeeded, Own
  <2>4. QED
    BY <2>1, <2>2, <2>3 DEF FitsItself
<1>4. QED
  BY <1>1, <1>2, <1>3 DEF AfterUnlink, Finish

LEMMA GccSucceedsFits ==
  ASSUME IInv, NEW p \in Procs, GccSucceeds(p)
  PROVE  TypeOK' /\ FitsItself(p)'
<1> USE Before
<1>1. /\ pc[p] = "link" /\ input[p] \notin {Absent, Empty}
      /\ SetFile(p, exe_file(opts[p]), input[p])
      /\ handle' = Detached(p, exe_file(opts[p]))
      /\ UNCHANGED << opts, diag, printed, input, ran, clean >>
  BY DEF GccSucceeds
<1>2. pc[p] \in Late /\ pc[p] \in Compiled /\ "unlink" \in Stages
  BY <1>1 DEF Late, Compiled, Stages
<1>3. /\ files' = [files EXCEPT ![exe_file(opts[p])] = input[p]]
      /\ files' \in [Path -> Contents] /\ touched' \in [Procs -> SUBSET Path]
      /\ handle' \in [Procs -> {"none", "open", "stale"}]
  BY <1>1, <1>2, BeforeLate, SetFileKeepsTypes, DetachedHandles
<1>4. ASSUME clean[p]
      PROVE  Exe(p)' = Own(p) /\ C(p)' = Own(p)
  <2>1. C(p) = Own(p) /\ input[p] = Own(p)
    BY <1>1, <1>4 DEF FitsItself, FilesFit, Written
  <2>2. QED
    BY <1>1, <1>2, <1>3, <2>1, BeforeLate DEF Exe, C, Own
<1>5. CASE /\ opts[p].mode = "compile" /\ ~opts[p].keep_c
           /\ Go(p, "unlink") /\ UNCHANGED << live, status >>
  <2>1. pc' = [pc EXCEPT ![p] = "unlink"] /\ pc' \in [Procs -> Stages]
    BY <1>2, <1>5, GoesOn
  <2>2. TypeOK'
    BY <1>1, <1>3, <1>5, <2>1 DEF TypeOK
  <2>3. FitsItself(p)'
    BY <1>1, <1>2, <1>4, <1>5, <2>1
       DEF FitsItself, CommandFits, LiveFits, ReportsFit, FilesFit, Own,
           Idle, Active, Late, Compiled, Succeeded
  <2>4. QED
    BY <2>2, <2>3
<1>6. CASE ~(opts[p].mode = "compile" /\ ~opts[p].keep_c) /\ AfterUnlink(p)
  <2>1. opts[p].mode = "c" \/ opts[p].keep_c
    BY <1>2, <1>6 DEF FitsItself, CommandFits, Compiles
  <2>2. clean[p] => Exe(p)' = Own(p) /\ COver(p)'
    BY <1>1, <1>4, <2>1 DEF COver, Own
  <2>3. QED
    BY <1>1, <1>3, <1>6, <2>2, AfterUnlinkFits
<1>7. QED
  BY <1>5, <1>6 DEF GccSucceeds

LEMMA GccFailsFits ==
  ASSUME IInv, NEW p \in Procs, GccFails(p)
  PROVE  TypeOK' /\ FitsItself(p)'
<1> USE Before
<1>1. /\ pc[p] = "link" /\ Finish(p, "1")
      /\ UNCHANGED << opts, diag, printed, input, ran, clean >>
  BY DEF GccFails, Finish, Late
<1>2. pc[p] \in Late
  BY <1>1 DEF Late
<1>3. /\ files' \in [Path -> Contents] /\ touched' \in [Procs -> SUBSET Path]
      /\ handle' \in [Procs -> {"none", "open", "stale"}]
  BY <1>2, BeforeLate, SetFileKeepsTypes, DetachedHandles, ContentsDiffer
     DEF GccFails, fsvars
<1>4. TypeOK'
  BY <1>1, <1>3, FinishReleases DEF TypeOK
<1>5. FitsItself(p)'
  BY <1>1, <1>2, FinishReleases
     DEF FitsItself, CommandFits, LiveFits, ReportsFit, FilesFit, Own,
         Idle, Active, Late, Compiled, Succeeded
<1>6. QED
  BY <1>4, <1>5

LEMMA UnlinkCFits ==
  ASSUME IInv, NEW p \in Procs, UnlinkC(p)
  PROVE  TypeOK' /\ FitsItself(p)'
<1> USE Before
<1>1. /\ pc[p] = "unlink" /\ SetFile(p, c_file(opts[p]), Absent)
      /\ handle' = Detached(p, c_file(opts[p])) /\ AfterUnlink(p)
      /\ UNCHANGED << opts, diag, printed, input, ran, clean >>
  BY DEF UnlinkC
<1>2. pc[p] \in Late
  BY <1>1 DEF Late
<1>3. /\ files' = [files EXCEPT ![c_file(opts[p])] = Absent]
      /\ files' \in [Path -> Contents] /\ touched' \in [Procs -> SUBSET Path]
      /\ handle' \in [Procs -> {"none", "open", "stale"}]
  BY <1>1, <1>2, BeforeLate, SetFileKeepsTypes, DetachedHandles, ContentsDiffer
<1>4. opts[p].mode = "compile" /\ ~opts[p].keep_c
  BY <1>1 DEF FitsItself, CommandFits
<1>5. clean[p] => Exe(p)' = Own(p) /\ COver(p)'
  BY <1>1, <1>2, <1>3, <1>4, BeforeLate DEF FitsItself, FilesFit, Exe, COver, C, Own
<1>6. QED
  BY <1>1, <1>3, <1>5, AfterUnlinkFits

LEMMA RunFits ==
  ASSUME IInv, NEW p \in Procs, Run(p)
  PROVE  TypeOK' /\ FitsItself(p)'
<1> USE Before
<1>1. /\ pc[p] = "run" /\ ran' = [ran EXCEPT ![p] = Exe(p)]
      /\ UNCHANGED << files, handle, touched, opts, diag, printed, input, clean >>
  BY DEF Run, fsvars, Exe
<1>2. pc[p] \in Late /\ pc[p] \in Compiled /\ "remove" \in Stages
  BY <1>1 DEF Late, Compiled, Stages
<1>3. ran' \in [Procs -> Contents \cup {"none"}]
  BY <1>1, <1>2, BeforeLate DEF Exe
<1>4. CASE opts[p].mode = "c" /\ Go(p, "remove") /\ UNCHANGED << live, status >>
  <2>1. pc' = [pc EXCEPT ![p] = "remove"] /\ pc' \in [Procs -> Stages]
    BY <1>2, <1>4, GoesOn
  <2>2. TypeOK'
    BY <1>1, <1>3, <1>4, <2>1 DEF TypeOK
  <2>3. FitsItself(p)'
    BY <1>1, <1>2, <1>4, <2>1
       DEF FitsItself, CommandFits, LiveFits, ReportsFit, FilesFit, COver, C, Own,
           Idle, Active, Late, Compiled, Succeeded
  <2>4. QED
    BY <2>2, <2>3
<1>5. CASE opts[p].mode # "c" /\ Finish(p, "0")
  <2>1. TypeOK'
    BY <1>1, <1>3, <1>5, FinishReleases DEF TypeOK
  <2>2. FitsItself(p)'
    BY <1>1, <1>2, <1>5, FinishReleases
       DEF FitsItself, CommandFits, LiveFits, ReportsFit, FilesFit, COver, C, Exe, Own,
           Idle, Active, Late, Compiled, Succeeded
  <2>3. QED
    BY <2>1, <2>2
<1>6. QED
  BY <1>2, <1>4, <1>5 DEF Run, Finish

LEMMA RemoveExeFits ==
  ASSUME IInv, NEW p \in Procs, RemoveExe(p)
  PROVE  TypeOK' /\ FitsItself(p)'
<1> USE Before
<1>1. /\ pc[p] = "remove" /\ SetFile(p, exe_file(opts[p]), Absent)
      /\ handle' = Detached(p, exe_file(opts[p])) /\ Finish(p, "0")
      /\ UNCHANGED << opts, diag, printed, input, ran, clean >>
  BY DEF RemoveExe, Finish, Late
<1>2. pc[p] \in Late
  BY <1>1 DEF Late
<1>3. /\ files' = [files EXCEPT ![exe_file(opts[p])] = Absent]
      /\ files' \in [Path -> Contents] /\ touched' \in [Procs -> SUBSET Path]
      /\ handle' \in [Procs -> {"none", "open", "stale"}]
  BY <1>1, <1>2, BeforeLate, SetFileKeepsTypes, DetachedHandles, ContentsDiffer
<1>4. clean[p] => Written(p)'
  BY <1>1, <1>2, <1>3, BeforeLate
     DEF FitsItself, CommandFits, FilesFit, COver, Written, C, Own
<1>5. TypeOK'
  BY <1>1, <1>3, FinishReleases DEF TypeOK
<1>6. FitsItself(p)'
  BY <1>1, <1>2, <1>4, FinishReleases
     DEF FitsItself, CommandFits, LiveFits, ReportsFit, FilesFit, Own,
         Idle, Active, Late, Compiled, Succeeded
<1>7. QED
  BY <1>5, <1>6

(* A process may be killed at any stage: what it leaves on the disk is not *)
(* taken for its output, because it has no exit code.                      *)
LEMMA KillFits ==
  ASSUME IInv, NEW p \in Procs, Kill(p)
  PROVE  TypeOK' /\ FitsItself(p)'
<1> USE Before DEF Kill, Go
<1>1. TypeOK'
  BY DEF TypeOK, Stages
<1>2. FitsItself(p)'
  BY DEF FitsItself, CommandFits, LiveFits, ReportsFit, FilesFit, Own,
         Idle, Active, Late, Compiled, Succeeded
<1>3. QED
  BY <1>1, <1>2

-----------------------------------------------------------------------------
(* A process that begins takes the paths it shares from the processes that *)
(* had them for themselves, and has its own paths for itself when no       *)
(* running process has one of them.                                        *)
LEMMA BeginFits ==
  ASSUME IInv, NEW p \in Procs, NEW o \in Invocations, Begin(p, o)
  PROVE  TypeOK' /\ \A q \in Procs : Fits(q)'
<1> DEFINE stage == IF o.mode = "tokens" THEN "tokens" ELSE "parse"
           made  == IF o.mode = "tokens" THEN TokensObjects ELSE ParseObjects
<1> USE Before
<1>1. o \in Invocation
  BY InvocationsAssumption
<1>2. /\ pc[p] = "idle" /\ opts' = [opts EXCEPT ![p] = o]
      /\ diag' = [diag EXCEPT ![p] = diagnostics_create]
      /\ clean' = [q \in Procs |->
           IF q = p THEN \A r \in Procs \ {p} : ~(Active(r) /\ Shares(o, opts[r]))
                    ELSE clean[q] /\ ~Shares(o, opts[q])]
      /\ UNCHANGED << files, handle, touched, printed, input, ran, status >>
  BY DEF Begin, fsvars, Idle
<1>3. pc' = [pc EXCEPT ![p] = stage] /\ live' = [live EXCEPT ![p] = @ \cup made]
  BY DEF Begin, Go, Keep, TokensObjects, ParseObjects
<1>4. Kept(diagnostics_create) /\ ~diagnostics_create.had_error
  BY DiagKept
<1>5. TypeOK'
  <2>1. stage \in Stages /\ made \in SUBSET Objects
    BY DEF Stages, Objects, TokensObjects, ParseObjects
  <2> HIDE DEF stage, made
  <2>2. pc' \in [Procs -> Stages] /\ live' \in [Procs -> SUBSET Objects]
    BY <1>3, <2>1
  <2>3. diag' \in [Procs -> Collector] /\ \A q \in Procs : Len(diag'[q].list) <= MaxDiagnostics
    BY <1>2, <1>4 DEF Kept, BoundedCollector
  <2>4. clean' \in [Procs -> BOOLEAN]
    BY <1>2
  <2>5. QED
    BY <1>1, <1>2, <2>2, <2>3, <2>4 DEF TypeOK
<1>6. Fits(p)'
  <2>1. CommandFits(p)' /\ LiveFits(p)' /\ ReportsFit(p)'
    BY <1>1, <1>2, <1>3, <1>4
       DEF FitsItself, CommandFits, LiveFits, ReportsFit, Idle, Active, Late, Compiled
  <2>2. Alone(p)'
    BY <1>2, <1>3 DEF Alone, Active
  <2>3. FilesFit(p)'
    BY <1>2, <1>3 DEF FitsItself, ReportsFit, FilesFit, Succeeded
  <2>4. QED
    BY <2>1, <2>2, <2>3 DEF Fits
<1>7. ASSUME NEW q \in Procs \ {p}
      PROVE  Fits(q)'
  <2>1. /\ pc'[q] = pc[q] /\ opts'[q] = opts[q] /\ diag'[q] = diag[q]
        /\ live'[q] = live[q] /\ clean'[q] = (clean[q] /\ ~Shares(o, opts[q]))
    BY <1>2, <1>3
  <2>2. Fits(q)
    BY DEF IInv
  <2>3. CommandFits(q)' /\ LiveFits(q)' /\ ReportsFit(q)'
    BY <1>2, <2>1, <2>2
       DEF Fits, CommandFits, LiveFits, ReportsFit, Idle, Active, Generates, Compiles
  <2>4. Alone(q)'
    <3> SUFFICES ASSUME clean'[q], NEW r \in Procs \ {q}, Active(r)'
                 PROVE  ~Shares(opts'[q], opts'[r])
      BY DEF Alone
    <3>1. CASE r = p
      BY <1>2, <2>1, <3>1 DEF Shares
    <3>2. CASE r # p
      BY <1>2, <1>3, <2>1, <2>2, <3>2 DEF Fits, Alone, Active
    <3>3. QED
      BY <3>1, <3>2
  <2>5. ASSUME clean'[q]
        PROVE  FilesFit(q)'
    BY <1>2, <2>1, <2>2, <2>5
       DEF Fits, FilesFit, Succeeded, Written, COver, C, Exe, Own
  <2>6. QED
    BY <2>3, <2>4, <2>5 DEF Fits
<1>8. QED
  BY <1>5, <1>6, <1>7

LEMMA WorkFits ==
  ASSUME IInv, NEW p \in Procs, Work(p)
  PROVE  IInv'
<1>1. TypeOK' /\ FitsItself(p)'
  BY ExitEarlyFits, TokensFits, ParseFits, AnalyzeFits, OpenCFits, WriteCFits,
     GccReadFits, GccSucceedsFits, GccFailsFits, UnlinkCFits, RunFits,
     RemoveExeFits, KillFits DEF Work
<1>2. OnlyOwnFiles(p)
  BY WorkOnOwnFiles
<1>3. Alone(p)'
  <2> SUFFICES ASSUME clean'[p], NEW q \in Procs \ {p}, Active(q)'
               PROVE  ~Shares(opts'[p], opts'[q])
    BY DEF Alone
  <2>1. Fits(p) /\ clean[p] /\ Active(q)
    BY <1>2 DEF IInv, OnlyOwnFiles, SameProcess, Active
  <2>2. QED
    BY <1>2, <2>1 DEF Fits, Alone, OnlyOwnFiles
<1>4. Fits(p)'
  BY <1>1, <1>3 DEF FitsItself, Fits
<1>5. \A q \in Procs \ {p} : Fits(q)'
  BY <1>2, OthersStillFit
<1>6. QED
  BY <1>1, <1>4, <1>5 DEF IInv

LEMMA IInvInitially == Init => IInv
<1> SUFFICES ASSUME Init
             PROVE  IInv
  OBVIOUS
<1>1. Kept(diagnostics_create) /\ ~diagnostics_create.had_error
  BY DiagKept
<1>2. TypeOK
  <2>1. diag \in [Procs -> Collector] /\ \A p \in Procs : Len(diag[p].list) <= MaxDiagnostics
    BY <1>1 DEF Init, Kept, BoundedCollector
  <2>2. QED
    BY <2>1, ContentsDiffer DEF Init, TypeOK, Stages
<1>3. ASSUME NEW p \in Procs
      PROVE  Fits(p)
  <2>1. CommandFits(p) /\ LiveFits(p) /\ ReportsFit(p)
    BY <1>1 DEF Init, CommandFits, LiveFits, ReportsFit, Idle, Active, Late, Compiled
  <2>2. Alone(p) /\ FilesFit(p)
    BY DEF Init, Alone, Active, FilesFit, Succeeded
  <2>3. QED
    BY <2>1, <2>2 DEF Fits
<1>4. QED
  BY <1>2, <1>3 DEF IInv

LEMMA IInvPreserved == IInv /\ [Next]_vars => IInv'
<1> SUFFICES ASSUME IInv, [Next]_vars
             PROVE  IInv'
  OBVIOUS
<1>1. CASE UNCHANGED vars
  BY <1>1
     DEF vars, fsvars, IInv, TypeOK, Fits, CommandFits, LiveFits, ReportsFit,
         Alone, FilesFit, Idle, Active, Succeeded, Written, COver, C, Exe, Own
<1>2. ASSUME NEW p \in Procs, NEW o \in Invocations, Begin(p, o)
      PROVE  IInv'
  BY <1>2, BeginFits DEF IInv
<1>3. ASSUME NEW p \in Procs, Work(p)
      PROVE  IInv'
  BY <1>3, WorkFits
<1>4. QED
  BY <1>1, <1>2, <1>3 DEF Next, Work

LEMMA IInvAlways == Spec => []IInv
BY IInvInitially, IInvPreserved, PTL DEF Spec

-----------------------------------------------------------------------------
(* Every variable keeps its type: no process is ever at a stage driver_main *)
(* does not have, and no list of messages outgrows its capacity.           *)
THEOREM DriverTypeCorrect == Spec => []TypeOK
<1>1. IInv => TypeOK
  BY DEF IInv
<1>2. QED
  BY <1>1, IInvAlways, PTL

(* Exit code 0 means that the program that was given is at the output path *)
(* (driver.c:315-349), whatever other processes did before, were killed    *)
(* at, or do at the same time on other paths.                              *)
THEOREM OutputIsOwnAlways == Spec => []OutputIsOwn
<1>1. IInv => OutputIsOwn
  BY DEF IInv, Fits, FilesFit, OutputIsOwn, Written, Exe, C, Own
<1>2. QED
  BY <1>1, IInvAlways, PTL

(* --run runs the program it has just compiled (driver.c:357-380).         *)
THEOREM RunsOwnProgramAlways == Spec => []RunsOwnProgram
<1>1. IInv => RunsOwnProgram
  BY DEF IInv, Fits, FilesFit, RunsOwnProgram, Own
<1>2. QED
  BY <1>1, IInvAlways, PTL

(* A successful compilation leaves the generated C exactly when --keep-c   *)
(* asked for it (driver.c:353-355).                                        *)
THEOREM CFileRemovedAlways == Spec => []CFileRemoved
<1>1. IInv => CFileRemoved
  <2> SUFFICES ASSUME IInv, NEW p \in Procs, clean[p], Succeeded(p, "compile")
               PROVE  files[c_file(opts[p])] = IF opts[p].keep_c THEN opts[p].stem ELSE Absent
    BY DEF CFileRemoved
  <2>1. COver(p) /\ opts[p].mode = "compile"
    BY DEF IInv, Fits, FilesFit, Succeeded
  <2>2. QED
    BY <2>1 DEF COver, C, Own
<1>2. QED
  BY <1>1, IInvAlways, PTL

(* A program a pass rejects leaves every file as it was (driver.c:221-281). *)
THEOREM RejectedTouchesNothingAlways == Spec => []RejectedTouchesNothing
<1>1. IInv => RejectedTouchesNothing
  BY DEF IInv, Fits, ReportsFit, RejectedTouchesNothing
<1>2. QED
  BY <1>1, IInvAlways, PTL

(* A rejection has been printed with an error among the messages, unless   *)
(* there was no room for it (diag.c:73-97).                                *)
THEOREM RejectionExplainedAlways == Spec => []RejectionExplained
<1>1. IInv => RejectionExplained
  BY DEF IInv, Fits, ReportsFit, RejectionExplained, Kept, Explained
<1>2. QED
  BY <1>1, IInvAlways, PTL

(* Every return from driver_main has destroyed, once, each object that was *)
(* created on the way to it, and none that was not: the strings of the     *)
(* names too, two of which are the same object without -o                  *)
(* (driver.c:229-235, 250-283, 317-331, 337-350, 369-382, 393-406).        *)
THEOREM AllReleasedAlways == Spec => []AllReleased
<1>1. IInv => AllReleased
  BY DEF IInv, Fits, LiveFits, AllReleased
<1>2. QED
  BY <1>1, IInvAlways, PTL
=============================================================================
