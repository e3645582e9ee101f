# holycc in TLA+

holycc translates HolyC to C and hands the C to gcc. This directory models the
parts of it whose correctness depends on order, nesting, state that outlives a
step, or on other processes; TLC checks the models on small instances and TLAPS
proves, for every instance, the invariants of the semantic analyser, the lexer, the
types and the driver, what the parser has read when it accepts, that the analyser
implements the rules of names, `break` and `continue`, and that the generated exception
handling implements exceptions.

`PROJECT.json` lists components, runs, the source lines each definition stands
for, the hazards of the code and where the code departs from its documents.

    tlc -workers 2 -config semantic_core.cfg MCSemantic     # a run
    tlapm SemanticProofs.tla                                # the proofs of a component

## The system

| Component | State | Operations | Talks to |
|---|---|---|---|
| Driver (`src/driver/driver.c`, `main.c`) | options, the objects it created, paths of C file and executable | parse arguments; tokens / AST dump; the pipeline; gcc; run; remove | everything below by calls; other invocations by the file system |
| Diagnostics (`src/diag.c`) | list of at most 256 messages, `had_error` | `diag_error`, `diag_warning`, `diag_note`, print | one collector shared by all passes |
| Lexer (`src/lexer/lexer.c`, `token.c`) | source, position, line and column, the token held back by a peek | `lexer_next_token`, `lexer_peek_token` | Parser and token listing (pull), Diagnostics |
| Parser (`src/parser/parser.c`) | two tokens of lookahead, the C stack | one function per level of the grammar; a parser within the parser for each `#include` | Lexer, AST, Diagnostics |
| AST (`src/ast/ast.c`) | children by sibling links | create, append, clone, destroy | Parser creates, Semantic and CodeGen read |
| Types (`src/types/types.c`) | heap of types that refer to each other | create, destroy | Semantic creates, shares and destroys; symbols refer to them |
| Symbol table (`src/symbol/symbol.c`) | chain of scopes, each a list of symbols | push, pop, add, lookup | Semantic |
| Semantic (`src/semantic/semantic.c`) | symbol table, loop and switch depth, current return type | one recursive walk | Symbol table, Types, Diagnostics |
| CodeGen (`src/codegen/codegen.c`) | text written, indentation, the names of the file's functions | one recursive walk that prints C | AST, the file system |
| Generated C and runtime (`runtime/`) | one global `jmp_buf` | `setjmp` / `longjmp` | libc |
| Utils (`src/utils.c`) | growing string buffers | append, read and write files | Lexer, CodeGen, Driver |

The compiler is one thread; each pass runs to its end, reads what the previous
one made and reports to the shared collector, and the driver looks at
`had_error` between passes. What is hard is this:

* **Protocols down a recursion.** The analyser sets depth counters, scopes and
  the return type on the way down and undoes them by hand on the way up, in
  twenty handlers. One forgotten path breaks all that follows.
* **Parts of the tree that no one walks.** Some handlers return early.
* **Loops that must consume.** Every list of the parser depends on some callee
  to skip the token that nothing expects.
* **Lookahead.** Two tokens decide between label, declaration, cast, expression.
* **Nested parsers** for included files, which share the collector.
* **Several invocations** with paths in common in `/tmp`, killed or failing at
  any stage, and gcc failing after files were created.
* **Control flow of the compiled program:** one jump buffer for all tries.
* **Shared pointers.** Analysing an expression returns a type that may be new or a
  symbol's own, and nothing tells which.
* **Writing text for another reader.** The C must be read as the tree it stands
  for, though parentheses, declarations and statements are written where the walk
  happens to be.
* **Limits:** the collector drops the 257th message; a case range is written out
  value by value.

All of these, with the line where each bites and the properties that would
catch it, are the hazards of `PROJECT.json`.

What makes each component correct:

* Diagnostics: no error goes without a rejection; the list is bounded.
* Symbol table: no two symbols of one name in a scope; lookup finds the name
  of the innermost scope that has it; scopes leave as they came.
* Semantic: rejects exactly the programs that break a rule of names, `break` or
  `continue`; its counters are those of the nesting; it ends as it began.
* Parser: accepts exactly its language; returns on every input.
* Driver: an executable holds the program it was compiled from; a rejected
  program touches nothing; everything created is destroyed on every exit.
* Lexer: its tokens are the longest pieces of the lexical grammar, whether peeked
  or taken; nothing between them is lost; locations and errors are exact; it
  reaches the end.
* Types: no pointer leads to a type that was destroyed, and none is null.
* CodeGen: C reads what is written as the tree that was meant; names are declared
  before their uses, statements are in functions, nothing is lost; a throw enters
  the handler of the innermost active try.
* AST, Utils: a tree stays a tree; capacity never below length.

## Modules

| Module | Models | State and actions, in terms of the code |
|---|---|---|
| `Diagnostics` | `diag.c` | a collector is a record of the list and `had_error`; operators, no variables, since every pass has its own use of it |
| `SymbolTable` | `symbol.c` | a table is the sequence of scopes, innermost last; `symbol_add` reports a duplicate and leaves the table alone |
| `Semantic` | `semantic.c` | `frames` is the C stack of `semantic_analyze_stmt`; one action per kind of node entered, `Leave` what a handler does after its children |
| `LexicalRules` | `docs/LANGUAGE.md` on names, `break`, `continue` | the abstract specification: nested contexts with the names declared in each and the statement just read, no counters, no scope chain; since the statement with its names is part of its state, an implementation can neither reject nor accept on the pretext of another |
| `MCSemantic` | | small languages: which constructs, which names, how many nodes |
| `MCRules` | the other rules of `docs/LANGUAGE.md` on names | what has been declared so far and what was read without a meaning, kept beside the analyser: functions before they stand, `argv`, macros, and everything in places no one walks |
| `DiagnosticsProofs`, `NestingProofs` | | lemmas on the operators of `Diagnostics`, of `SymbolTable`, and on stacks of frames: no state |
| `SemanticProofs`, `ParserProofs`, `LexerProofs`, `TypesProofs`, `DriverProofs`, `TryCatchProofs` | | the theorems on the component of that name |
| `Parser` | `parser.c` | `todo` is the C stack unfolded into items: calls, loops, `parser_expect`s still to come; one action per parse function, `Include` and `Resume` for the parser within the parser |
| `HolyC`, `Grammar` | the language | the reference: a context-free grammar and what it derives; the forms of the documentation that the parser has no rule for stand apart in `Refused`, and `DocumentedRules` is both |
| `MCParser` | | parts of the language, their short sentences, texts one token away; programs of the documentation |
| `Lexer` | `lexer.c` | a text is a sequence of characters, `current`, `line`, `column` and `peek` are the lexer's; one action per entry point, each whole reader (number, string, directive, comment, operator) an operator that says where its token ends |
| `LexicalGrammar` | `docs/LANGUAGE.md` on names, numbers and literals, `token.h` | the reference: which pieces of a text are tokens of which kind, and `LongestMatch`, which compares the lexer with it |
| `MCLexer` | | the texts |
| `Types` | `semantic_resolve_type`, `semantic_analyze_expr`, `types.c` | a heap of types by address; `operands` is what the recursion has returned so far; one action per kind of node, `ArrayType` the one that destroys |
| `MCTypes` | | the symmetry of names |
| `CodeGen` | `codegen.c` | `todo` is the recursion unfolded: nodes and pieces of text still to be written; one action per kind of node, which replaces it by what the code writes |
| `CReader` | a C compiler, external | tokens, expressions, literals, what a switch enters: as much of C as the text calls for |
| `MCCodeGen` | | trees, and the properties that relate a tree to the text |
| `MCGenerated` | | trees whose C does not do what `docs/LANGUAGE.md` says, written by `CodeGen` and, where exceptions are concerned, run by `TryCatch` |
| `Driver` | `driver_main`, `codegen_generate_file`, gcc | processes that share `files`; `pc` is the stage of the pipeline; `Kill` at any stage |
| `MCDriver` | | two sources of one basename, command lines whose paths overlap |
| `Exceptions` | what `try`, `catch`, `throw` promise | the abstract specification: a throw unwinds the stack of activations to the innermost active try body |
| `TryCatch` | the C that `codegen.c` generates | the same programs with one `jmp_buf`, set by `TRY_STMT`, used by `THROW_STMT`, reset by nothing |
| `MCTryCatch` | | all short programs with one try at a time, and three without |

`Semantic` and `Driver` extend `Diagnostics`; `Semantic` and `Types` extend `SymbolTable`;
`Semantic` ends with the mapping of its frames and scopes to the contexts of
`LexicalRules` (`ImplementsLexicalRules`); `TryCatch` extends `Exceptions`
with the buffer and implements it. Modules whose operators are named for the bug
they contain (`scope_pop_nothing`, `Resume_oneLate`, ...) hold them right before
the operator they distort; nothing uses them but the mutation of a run, which
shows that its property can fail.

**Abstractions.** Semantic has no AST: an action chooses the next node among
those the parser can put in that place, so that the behaviours range over all
programs within `MaxNodes` and `MaxDepth`. An expression is the set of names it
reads, and the kind of node says whether `semantic_analyze_expr` looks them up: an
operand of `sizeof`, a called name and a list of initial values are nodes of their own.
A variable has the names in the sizes of its array too, which are analysed before it is
declared; sizes between a function's name and its parenthesis (`parser.c:841-848`), those
in the types of parameters and fields, and default values of parameters are left out. What
the function returns is the subject of Types, where nodes are chosen in the order the
recursion is done with them. Types has no sizes or offsets, and one kind of type for all without parts but
`F64`. Parser has tokens by kind,
one for all that the parser treats alike (`=` for all assignments), and no tree.
Driver's passes are the diagnostics they emit, files hold the name of the program
whose text they are, and objects are names in `live`; each way out of `driver_main` has its own
list of the names it destroys, in the order of the calls, and `name_pointers` says which of
the four pointers to file names lead to one string. TryCatch keeps the
statements that touch exceptions or calls. Lexer has two of the keywords, those that are
directives, and its texts have no zero bytes. CodeGen writes no indentation and not the fixed text at the head of a
file; a number has `Width` bits.

## Runs

All pass except those marked with an x, which TLC must find violated.

| Run | Question | Instance |
|---|---|---|
| `semantic_core` | Do scope chain, counters and collector implement the rules of lexical scope, `break` and `continue`, step by step, and match the nesting when constructs that are not walked are mixed in? | 2 messages; constructs that are walked: two names, one never declared, 5 nodes, 4 deep; all constructs that nest: one name, 5 nodes, 6 deep; names where nobody looks them up or makes them symbols: 4 nodes, 4 deep |
| `semantic_every_place` x | Is a stray `break` or an undeclared name found wherever it stands, and is no program rejected whose names all mean something? | 5 nodes; 4 nodes that give names a meaning, each name once |
| `parser_texts` | Does the parser accept exactly the language, has it read all of what it accepts, with all files included and no token that nothing expects, and does it return on texts of statements? | parts of the language with sentences of up to 5 to 11 tokens, and of the shorter ones every text one token away; included files of 7 contents, nested twice |
| `parser_documented` x | Are programs of the documentation accepted, does it return on the others, and report them? | nine documented programs; an enumerator that is a number, two dots, a malformed number in an included file |
| `driver_processes` | Who ends up with which file, killed or failing anywhere? | two processes, two sources of one basename, one `-o`, 8 command lines, a disk that may fill, 1 message |
| `driver_documented` x | Exit codes, messages and files as documented, and a binary of one's own program where no one else writes the binary? | the same |
| `trycatch_one_at_a_time` | Does the generated C implement exceptions, and end? | main of up to two statements, try bodies of up to two, handlers of one, a function called from bodies or from elsewhere |
| `generated_documented` x | Does the C compute, print, select, declare and catch what the documentation says? | 18 trees, and 3 programs that throw after an inner try, from a handler, and after a callee returned from its try |
| `lexer_texts` | Are the tokens those of the lexical grammar, located right, complained about once, up to the end? | all texts of up to 4 pieces of numbers, of quotes, escapes and comments, and of directives, and of up to 3 operator characters; any mixture of peek and next; with and without a collector |
| `types_heap` | Where can a destroyed or a null type be reached? | 2 names, 4 live types of up to 2 parts, 3 operands, 2 scopes; a declaration begins while no symbol is in scope |
| `types_documented` x | Does the table own its types? | the same, with one symbol in scope |
| `codegen_trees` | Does C read the text as the tree it was written for? | 5,897 trees: expressions of two operators, literals, switches, statements, classes, files with includes; 2 bits; 80 pieces of text |

**Why the bounds are enough.** *Semantic:* the two innermost frames and one
saved value decide every step; five nodes are enough for a function with a loop, a
scope, a declaration and a use, and what is not bounded is proved. Two messages let
the list overflow. *Lexer:* a reader looks at most two characters ahead, so that four
pieces hold every construct beside another and cut off by the end. *Types:* a
type is freed twice through two pointers, and four types hold a pointer to a
function with a parameter beside a symbol; addresses that nothing refers to are given out again. *CodeGen:*
parentheses depend on a node and its parent; with two bits a range meets the largest number
and the sign; `MaxWritten` cuts off the range that never ends and no other text.
*Parser:* each part takes one representative of the operators,
operands or statements that only nest, so that 6 to 11 tokens hold every construct within
another; what is left out is treated by the same branch. *Driver:* interference
is between pairs of paths; a third process adds none. A process is one
invocation, so that the second may start after the first is over (stale files) or
during it (races). *TryCatch:* a buffer has one previous owner.

**Deadlock** is not checked: every one of these programs ends, and its last state
has no successor. That they do not end early is what `RestoredAtEnd`, `StatementsTerminate`,
`EndIsReached`, `WrittenOut` and `Ends` are for; `AllReleased` and `OutputIsOwn` only
speak of processes that exited.

**Fairness.** `Parser`, `CodeGen` and `TryCatch` assume weak fairness of the whole
next-state relation: the compiler, and the compiled program, are a single thread
that never waits, which an operating system that runs it at all runs on. `Lexer`
assumes it of `lexer_next_token`: the parser and the token listing ask until they are
given the end, and peeking alone is not progress. `Semantic`, `Types` and `Driver`
assume none and claim no liveness.

**Modelled outcomes of undefined behaviour.** `ast_clone_node` passes a number to
`strdup` as if it were a pointer: the item `crashed` has no successor. A `longjmp`
through a buffer whose function has returned ends the program as `undefined`. In
`Types`, a read through a null or destroyed pointer is recorded in `fault` and ends
the behaviour.

**`StatementsTerminate` is about texts made of statements.** The other texts
include enumerators that are no identifiers and chained comparisons with
operators in the middle: on those the parser does not return, which is what
`parser_documented` shows. For `AcceptsLanguage` a text on which it does not return is
neither accepted nor rejected.

## Where code and documents disagree

Each was also seen with the compiler built from this source, except the race of
two compilations and the jump into a function that has returned. `findings` in
`PROJECT.json` quotes the document for each. A property that holds leaves these cases out
by name, and a run that must be violated has them:

* `semantic_every_place`. Accepted: `break` in a nested function's body counts the loops of
  the enclosing function; `try`, `do` bodies, methods and a `for`'s first expression are
  not analysed at all, nor are the operands of `throw` and `sizeof`, called names and lists of
  initial values (`semantic.c:328, 564, 475, 397, 491, 566, 268, 206, 278`). Rejected: the
  use of a function that stands further down, `argv` and `argc`, macros, and the first enumerator of an
  enumeration without a name (`semantic.c:323, 125, 569, 439`).
* `parser_documented`. Rejected: a variable whose type is a class, the parameter of a `catch`,
  `offset(Type.field)`, `reg I64 R15 x`, `sizeof(1)`, `I64 a, b, c;`, `const`, the operand of
  `#ifdef`. Accepted: `x..y`, and a file that includes one with a malformed number, whose
  lexer has no collector. `enum {1}` is never over, and `a < b+1 <= c` crashes.
* `driver_documented`. `--tokens` exits with 0, warnings of good programs are not printed, an
  error behind 256 warnings is not named, `-o` moves the C file out of `/tmp`, a full disk is
  not noticed, and `/tmp/<basename>.c` is shared by sources of different directories.
* `generated_documented`. Expressions: `-(-x)` is written `--x`; `(++p)[i]` loses its
  parentheses; `3.0/x` is `3/x` in C; `sizeof(I64)` is `sizeof()`. Strings: any text between
  two dollar signs is dropped, and behind a single one the rest. Switches: one case goes on
  into the next, and `case -1...1` has another bound. Files: functions of an included file follow their
  users when the file is wrapped in a `main`, and are not called by their bare names;
  statements beside a written `main`, or from an included file alone, stay outside of all functions;
  a variable that hides a function is called; a function that is used before it stands has no
  prototype. Declarations: the dimensions of an array come out reversed, or in a `for` not
  at all; fields behind a method are lost. Exceptions: a throw after an inner try, or in
  its handler, enters the inner handler; after a callee returned from its try, it is undefined.
* `types_documented`. After `I64 n; I64 a[n];` the type of `n` is destroyed, and `I64 b[n];`
  destroys it again (`semantic.c:92`).

Each of these runs is one property, a conjunction, and TLC stops at the first of its parts
to fail. The states of the others are found by restricting the instance (`Fragments`,
`Documented`, `OddUnits`) or, where the property is an invariant, with `tlc -continue`.

**What the passing properties leave out**, so that TLC shows that nothing else goes wrong:

* `semantic_core`: `WalkedReadsReported` speaks of expressions the analyser looks into
  (`UnreadConstructs`), `ImplementsLexicalRules` of what it walks (`Heard`); the rules are those of
  the order of the text, and a macro or the lost enumerator (`UndeclaredConstructs`) declares
  nothing in them.
* `parser_texts`: `AcceptsLanguage` is about the grammar without `Refused`, its texts have no
  two dots, and the files they include no malformed numbers.
* `lexer_texts`: `.5` is read as a floating number that is its dot alone, and an integer `5`;
  `..` is one dot; a comment or string that does not end is accepted; an unknown directive is an
  error token without a message; an error points behind its character. `ErrorsReportedOnce`
  speaks of lexers with a collector.
* `codegen_trees`: the cases of `generated_documented`, and the range that ends at the largest
  value, which does not end (`RangesEnd`).
* `types_heap`: an array whose size is read off a declaration destroys its type;
  a label read as a value has none.

Seen in the source and outside the models: the same operator twice (`a < b < c`) is not
taken for a chain; a file that includes itself recurses without bound; `#define X` takes the next
line's expression for its value; locals are not `volatile` across `setjmp`; an input without
an extension gets its own name as output; `argc` of a variadic function is always 64; `x++` is written `++x`; `x = y = 3` groups to the
left; floats keep 16 digits; large hexadecimal numbers are signed.

## What is proved

Each theorem holds for every value of the constants. The assumptions are those of the
modules themselves, which TLC evaluates on the runs: that undeclared names are names,
that paths are paths, that bounds are numbers. No proof depends on a bound being small.

| Module | Theorem | Property | For every |
|---|---|---|---|
| `SemanticProofs` | `TypeCorrect`, `NestingCorrect`, `ReturnTypeCorrect`, `NamesStayUnique`, `AnalyserRestored` | `TypeOK`, `DepthsMatchNesting`, `ReturnTypeMatchesNesting`, `ScopesHaveUniqueNames`, `RestoredAtEnd` | program and capacity of the collector |
| | `StrayJumpsAreReported`, `UndeclaredReadsAreReported` | `WalkedJumpsReported`, `WalkedReadsReported` | |
| | `AnalyserImplementsRules` | `ImplementsLexicalRules` | |
| `ParserProofs` | `ParserTypeCorrect`, `AcceptedIsAlwaysRead` | `TypeOK`, `AcceptedIsRead` | text, set of included files, nesting |
| `LexerProofs` | `LexerTypeCorrect`, `LocationsAreExact`, `ErrorsAreReportedOnce` | `TypeOK`, `LocationsExact`, `ErrorsReportedOnce` | text, set of keywords, mixture of peek and next |
| | `LeftOutBetweenTokens`, `TokensAreLongest` | `NothingLost`, `LongestMatch` | |
| `TypesProofs` | `TypesTypeCorrect`, `NothingEverDangles`, `NullComesFromLabels` | `TypeOK`, `NothingDangles`, `NullOnlyFromLabels` | heap, table, program |
| `DriverProofs` | `DriverTypeCorrect`, `OutputIsOwnAlways`, `RunsOwnProgramAlways`, `CFileRemovedAlways`, `RejectedTouchesNothingAlways`, `RejectionExplainedAlways`, `AllReleasedAlways` | the same without `Always` | number of processes, command lines, sources |
| `TryCatchProofs` | `TryCatchTypeCorrect` | `TypeOK` | programs of statements |
| | `OneBufferIsEnough` | `ImplementsExceptions`, from `OneTryAtATime` | |

Hardly one of these properties is inductive. What each needs besides:

* **Semantic.** When a frame is left, a counter drops by one, and to know that this is
  right one must know that the frame was counted; the return type goes back to what the
  frame saved, and one must know what every frame saved. `IInv` is `TypeOK` with `Shape`:
  while running, the bottom frame is the unit, the global scope is empty, names are unique,
  and the frames are `Balanced` with the variables: each counter is the number of open
  frames of its kinds, and a function's frame saved "no type" exactly when no function is
  open below it. When not running, the analyser is as created. `NestingProofs` shows what
  pushing, popping and replacing a frame do to the set of open frames, and
  what the table's operations preserve. The handlers reduce to three forms (a leaf, a
  frame entered, a frame left), and `StepPreserves` has one case per group of actions. The
  two rules of what is reported follow from it: that no scope has a name nobody declares,
  and that `had_error` is never taken back.
* **Semantic implements `LexicalRules`.** A context of the rules is a frame with the
  names of the scope it opened, which is found by counting: it is as far up the chain as
  there are frames below that open one (`ScopeOf`). So entering and leaving a frame
  adds and takes away a context and leaves the others as they are (`ContextsOf`), a name is
  in the chain exactly when a context has it, and a counter is above 0 exactly when
  a context of its kind is there. Each action is then shown to be the rule for
  what it walks, with the same verdict: what breaks a rule is reported, and nothing
  else is. Of a program, the rules hear only the nodes that the analyser walks (`Heard`): what it
  loses by not walking the others is what `semantic_every_place` is about, as are the names
  in walked nodes that it looks up nowhere, which are no part of what the rules hear either.
* **Parser.** `ParserInv` adds to `TypeOK`, unless the parser has crashed, that it is done with
  a file only at its end (`FilesEnd`: the last item of each file is its unit, or nothing is
  left of the file and `EOF` is the token), and that it goes back to as many files as were set
  aside (`Matched`); and that, as long as no error was raised, every token read in
  any of the files is one that some rule expects (`Accounted`). A step stays
  within one file (`WithinFileKeeps`), works on the unit, includes a file, goes back to
  the one before, or crashes: each has a lemma. The items that the parse functions put on
  the stack are typed construct by construct.
* **Lexer.** `LexerInv` adds to the properties that the cursor's line and column are the
  `Position` of its place (`Located`), and that only `EOF` is found at the end (`AtEnd`). The
  lexer moves line and column on from where it last stopped, `Position` counts from the
  start of the text: the lemmas show for each reader, those included that run
  through quotes and comments of any length, that the two agree where it stops. An
  error token and its message come from one scan, and a peeked token is not scanned again.
  `LeftOutBetweenTokens` needs in addition where the last token ended (`Reached`), and that what
  `lexer_skip_whitespace` passes over can be cut into blanks and comments and goes on as
  long as one begins (`SkipGap`). `TokensAreLongest` follows from a lemma for each
  reader: the first character of a piece tells its kind (`Beginnings`), so that a reader is
  compared with one kind only; its loops stop at the first character outside of a class, which
  is as far as a piece of that class goes (`OutsideIs`); of a number that is
  shown part by part, of a literal by taking the places where `quoted_end` looks for the
  cuts between its characters (`ContentsRead`, `ReadContents`).
* **Types.** `TypesInv` is `HeapOK` (types have the parts of their kinds, all of them live),
  `WalkOK` (what each operand and symbol may refer to), `NoNull`, and `Owned`: a type that
  an expression made for itself is a chain of pointers with one way to each part, which no
  declaration reaches. `PrivateFreedOnce` concludes that `type_destroy` frees each once and
  leaves all else, which is what `NothingDangles` says while no array has had a declaration's
  type for that of its size. The actions reduce to five forms (fault, evaluate, annotate,
  drop, declare) and `ArrayType`.
* **Driver.** `IInv` says of each process, by the stage it is at, what its command line can
  be (`CommandFits`), what it may have reported (`ReportsFit`), what it has created
  (`LiveFits`), and what is at its paths as long as it has them for itself (`FilesFit`).
  That a step of one process leaves the files of the others alone comes from
  `clean`, which is lost when the paths of two active processes meet. `AllReleased` compares
  the list of calls of each exit with what the command line has had created: the pointers of
  `name_pointers` lead to each string of the two names through one of them or through two, and
  the lists destroy it through one.
* **TryCatch.** `Shape` types the stack; `BufferIsCurrent` says that, while a try body is
  being executed, the buffer leads to its activation and its handler. One `setjmp` overwrites it, so
  that this survives a step only under `OneTryAtATime`: the theorem has that as its
  hypothesis. The programs of `trycatch_one_at_a_time` satisfy it, which TLC confirms when it
  is added to that run's invariants, and `generated_documented` shows what happens without.
  `Fragment(Stmts)` only says that programs consist of statements, the parts of statements
  included.

**Induction.** The library's induction theorems take an operator as a parameter, which no
installed prover instantiates. Where the code's recursion is a recursive function on
places of a text (`skip_whitespace`, `quoted_end`) or a least set (what can be reached in the heap),
`LexerProofs` and `TypesProofs` argue with sets instead: a set of numbers that is not empty
has a least element (`LeastNumber`), and what can be reached is the least closed set.

## What is only model-checked

* `AcceptsLanguage`: what a grammar derives, and what the parser reads of it, needs
  induction over texts in a form the provers do not take, and `Grammar` declares RECURSIVE
  operators. What is proved of the parser holds without them.
* All of `CodeGen`. What the text means is defined by `CReader`, and what a tree means by
  `MCCodeGen`, with RECURSIVE operators. Of its `TypeOK`, that the text consists of strings
  does not follow from the definitions of `ToString` and of the joining of strings, and that
  every node has the children its kind calls for is a property of trees of any depth.
* `StatementsTerminate`, `EndIsReached`, `WrittenOut` and `Ends`: liveness under fairness is out
  of the prover's reach.
* `OneTryAtATime`: a property of programs, not of the code, and a hypothesis of a theorem.

## What is not modelled, and why

* Utils: a buffer that doubles its capacity and the reading and writing of whole files; a
  sequence stands for the one, the files of `Driver` for the other.
* The links of the AST: nodes have sequences of children everywhere. `ast_clone_node` is
  in `Parser`, `ast_kind_is_declaration` in `CodeGen`. Which tree the parser builds is left
  out; that a chain of comparisons is rewritten shows only in its crash.
* `token.c`: the texts of the kinds, for `--tokens`. Of the table of keywords those that
  directives consist of.
* Sizes, alignments and offsets of types: they are only added up to each other; CodeGen does
  not read them, and the C compiler computes its own.
* The errors for dereferencing what is no pointer and for a member that a class has not:
  `Semantic` has the names of an expression, `Types` which type is read, and neither
  which fields there are.
* `AST_OFFSET_EXPR` of CodeGen, which the parser never builds.
* Layout of messages, indentation of the C text and the prototypes in front of it, the
  arguments' syntax and `--help`: wording.
* `runtime/` wraps the C library and keeps no state. gcc, the linker, the kernel and
  the compiled program are external, and modelled from how the driver uses them.
  Partial writes of the C file are: nothing written, or all, or, with two
  writers, garbled.

## Plan

Done: `Diagnostics`, `SymbolTable`, `Semantic` with `LexicalRules`; `Parser` with its
reference grammar; `Driver`; `TryCatch` with `Exceptions`; `Lexer` with its lexical grammar;
`Types`; `CodeGen` with a reader of C; the proofs above. What remains, in this order:

1. The tree that precedence climbing builds, composed with `CodeGen`; `AstTree` (sibling
   links); `StringBuffer` (growth).
2. A compilation as one atomic step from source to executable, implemented by `Driver` when
   paths are not shared.
3. Of `CodeGen`'s `TypeOK` the part about nodes, as a theorem, from an assumption that says of
   each kind of node which children it has.
