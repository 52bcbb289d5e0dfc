# FleetLang: a verification project

FleetLang is a small ahead-of-time compiler written in C++ on top of ANTLR and LLVM.
This directory holds TLA+ models of its passes and of the part of ANTLR's runtime they
stand on, the TLC configurations that check them on small programs, and proofs, checked
by TLAPS, of what holds for all programs. Paths in this document are relative to the
repository; the compiler's own code is in `src/src`, ANTLR's runtime is vendored in
`src/antlr4/runtime/src`.

## 1. The system

`main` (main.cpp) is a straight line: read the file, parse it, build a syntax tree,
validate the tree, generate LLVM IR for it, write an object file. Nothing runs
concurrently and nothing is persisted but the object file. What makes the code hard is

- the *passes are recursive descents with state on the side*: a symbol table whose
  current scope is moved by hand, a `currentFunction`, LLVM's insert point and block
  list, two global maps of variables. Every early return and every nested statement
  has to leave that state as its caller expects;
- the passes *share assumptions through the tree* without checking them: the tree has
  null pointers where the source has empty statements or no `else`, and types that the
  Validator computed and code generation computes again in its own way;
- *failures are answers* (a `bool`, a `pair`, a `nullptr`) that each caller must pass on;
- the parser is *an interpreter of an automaton* whose decisions come from a simulation
  of all alternatives at once, with merged stacks, a cache, predicates and recovery.

| Component | State | Operations | Talks to |
|---|---|---|---|
| Lexer and token source, `Lexer.cpp`, `atn/LexerATNSimulator.cpp` | position, line, column, a DFA | `nextToken`, `match`, `recover` | characters in, tokens out |
| Streams, `BufferedTokenStream.cpp`, `CommonTokenStream.cpp`, `UnbufferedTokenStream.cpp`, `ANTLRInputStream.cpp` | a buffer or a window, an index, marks | `LT`, `consume`, `seek`, `mark`, `release`, hidden tokens | pull from their source |
| ATN, `atn/ATNDeserializer.cpp`, `atn/LL1Analyzer.cpp` | the automaton | `verifyATN`, `nextTokens` | read by everything below |
| Prediction, `atn/ParserATNSimulator.cpp`, `PredictionContext.cpp`, `SemanticContext.cpp`, `dfa/` | sets of configurations, merged stacks, DFAs | `adaptivePredict` | called by the parser before a decision |
| Parser and error strategy, `ParserInterpreter.cpp`, `Parser.cpp`, `DefaultErrorStrategy.cpp` | automaton state, contexts, precedences, errors | one step of the automaton; `sync`, `recover`, `recoverInline` | tokens in, a parse tree and a number of errors out |
| Tree builder, `NewVisitor.cpp` | none | one visit method per grammar rule | parse tree in, AST nodes out, `nullptr` for empty statements and missing arms, exceptions of `stoi`/`as<>` |
| Types, `AST/Type.h`, `StmtAST.h` | the coercion table | `CanCoerce`, `GetFromType` | Validator, code generation |
| Symbol table, `SymbolTable.cpp` | two maps and a parent pointer per scope | `addVariable`, `addFunction`, the lookups, `GetParent` | owned and moved by the Validator |
| Validator, `Validator.cpp` | `table` (the current scope), `currentFunction`, the C++ call stack | one `check` per node kind | rewrites expressions (casts), answers accepted or rejected |
| Expressions, `AST/ExprAST.cpp` | none of their own | `generate` per node kind | `NamedValues`, `AllocaValues`, `TheModule`, `Builder` |
| Statements and functions, `AST/StmtAST.cpp`, `Function.cpp`, `Program.cpp`, `CodegenHelper.cpp` | `TheModule`, `Builder`'s insert block, `NamedValues`, `AllocaValues`, basic blocks | `generate` per node kind, `FindAlloca`, `CreateAlloca` | LLVM |
| Driver, `main.cpp` and `WriteOBJ` | exit code, output file | the phases in order | everything |

What makes each component correct:

- *Lexer and streams*: the longest match wins, every character is accounted for, and what
  a reader sees does not depend on buffering, marks or hidden tokens.
- *Prediction, parser and recovery*: exactly the grammar's sentences parse without an
  error, with the tree their precedences call for; remembered decisions equal fresh ones;
  no token is lost, no error is silent, and recovery ends.
- *Symbol table and Validator*: scopes are balanced on every path; lookups implement
  lexical scoping; `currentFunction` is valid when it is followed; a failed check is
  final on its way up through the open calls; the first declaration of a function is the one that counts.
- *Expressions*: a checked and rewritten expression is stable under a second check (the
  code relies on it), its operands agree, and it generates a value of the type the
  Validator computed.
- *Statements and functions*: jumps go to blocks of the function, no block is forgotten
  or orphaned, blocks end where the source's control flow ends, variables of different
  functions never meet in the shared maps, a body is generated once.
- *The passes together*: what the Validator finds, code generation finds, with the same
  type; and an accepted program compiles, where that can be said at all.
- *Driver and tree builder*: exit codes tell success from failure; the tree is its
  source, with null pointers where the source has nothing and nowhere else.

## 2. The modules

Indentation is "built on" (EXTENDS or INSTANCE).

```
StdMap                      std::map: insert keeps an existing entry
  SymbolTable               SymbolTable.cpp: a chain of scopes as a sequence
    Validator               Validator.cpp: statements, functions, programs (uses FleetTypes)
      ValidatorProperties   what must hold of it; the refinement of LexicalScope
        ValidatorProofs     theorems
        MCValidator         instance for TLC (with Expressions as its expression check)
    Expressions             check and generate of every expression (uses FleetTypes)
      ExprProofs            theorems about every expression
      ExpressionProperties  both on the same expression, while it grows
        SyntaxProofs        theorems (uses ExprProofs)
      TreeBuilder           NewVisitor.cpp: parse trees to syntax trees
        MCSyntax            all parse trees and all expressions up to a size
  Codegen                   Program / Function / statement generate()
    CodegenProperties       what must hold of it; the same steps beside the source's control flow
      CodegenProofs         theorems
        FlowProofs          theorems about the control flow
      MCCodegen             instances for TLC
  Compiler                  Validator and Codegen on the same program
    CompilerProperties      what the second pass takes for granted; the fragment where it may
      CompilerProofs        theorems (uses ValidatorProofs, CodegenProofs and ExprProofs)
      MCCompiler            instances for TLC (with Expressions as the expressions)
FleetTypes                  Type, TypeCoercions, GetFromType
LexicalScope                abstract specification: environments that are restored

AtnLayout                   grammars as data, and the automaton ANTLR's tool lays out for one
  Grammar, Atn              FleetLang's rules; deserialize, verifyATN, nextTokens
    PredictionContexts      merged stacks
      Prediction            adaptivePredict, and its memory of DFAs
        Parser              ParserInterpreter and Parser, one step at a time; DefaultErrorStrategy
          ParserProperties  what the parser promises
  Lexer                     LexerATNSimulator and its DFA
    TokenSource             Lexer::nextToken, and its properties
CommandLine                 main's words and what was asked for with them
  Driver                    main.cpp and WriteOBJ, phases with any outcome
    DriverProofs            theorems
    FrontEnd                Driver with Parser (and its DFAs) as its second phase
      MCFrontEnd            instances for TLC
TokenCursor                 abstract specification: a cursor on the visible symbols
  TokenStream, UnbufferedStream, InputStream   the three streams
    Streams                 each under any sequence of calls, and the refinement
      StreamProofs          theorems
IntervalSets                IntervalSet.cpp, and a machine that applies every operation
ConfigurationContexts       tests of precedences and predicates, and a machine that makes
                            stacks and tests in every sequence of operations
MCRuntime                   lexer, streams, interval sets, stacks and tests for TLC
```

**How the recursion is modelled.** `Validator` and `Codegen` do not take a tree as
input. Whenever the C++ code descends into a node, the specification chooses which node
it is, so a behaviour is the pass over one program and the set of behaviours is the
pass over every program. The call stack is the variable `frames`; a handler is split
where it calls another handler on a statement inside it, and nowhere else. In
`Validator` the boolean that the last call returned is `ret`; in `Codegen`, where
statements return nothing, `returned` tells a call that has its child behind it from one
that still has to make the call. Functions and blocks can have any number of statements,
programs any number of declarations.

**Validator ↔ code.** `table` is the chain from the current scope (`this->table`) to the
root, `currentFunction` the field of that name. `CheckFunction(f)` is `check(Function *)`
up to its first statement, with the redeclaration test, `addFunction`, `pushScope` and
the arguments; `FunctionDone` is the rest. `CheckVarDecl`, `CheckAssign`, `CheckReturn`
and `CheckExprStmt` are whole handlers. `CheckIf`, `CheckWhile` and `CheckBlock` run to
the first inner call, `TrueArmDone` from the true arm to the false one, `StatementDone`
to the return. `Fail` is the early return every caller takes on `false`: it pops the
scope and answers `false`. What the code does and one would not expect is kept: the
value of an assignment is never checked, a `return` whose expression fails its own check
succeeds, a null statement in a block fails, `currentFunction` stays set on failure.
A variable declaration is its type, a function a record of kind, return type, name and
arguments; the identity of the node matters in one place (`SameDeclaration`, where the
code compares owning pointers).

**Expressions ↔ code.** `Check(table, e)` returns the pair the C++ function returns and
the node as the check leaves it, with the casts that were inserted. `Generate(env, e)`
returns the LLVM type of the value, `nullptr` ("null") or a followed null pointer
("crash"), and whether LLVM's verifier would accept the instructions built (`valid`):
the release build of LLVM builds ill-typed instructions without complaint. Which of the
operators of one kind a node has decides nothing about types and is left out. The C++
functions call each other on the parts of a node, and a comparison calls `check` on
itself: `Checks(table)` and `Generates(env)` are functions of how many calls are open,
so that `Checks(table)[n][e]` is the answer for `e` if no more than `n` calls nest, and
`Check` is the answer at `MaxNesting`. An operator makes an expression one deeper, its
casts may do so once more, and a comparison is checked twice, hence the assumption
`ExpressionBounds` on `MaxNesting`.

**Codegen ↔ code.** `blocks` are the basic blocks created for the current function,
`layout` is its block list, `insert` is `Builder`'s insert block. A block is reduced to
what the code and the verifier look at: what it holds last (nothing, an instruction, a
terminator), whether something follows a terminator (`mid`), and its successors. An
expression is what `generate` amounts to for the statement: its outcome, whether an
instruction is appended, and whether the verifier accepts it there. `back().back()` of an
empty block is an undefined read, and either answer is possible. An `ifcont` that is not
inserted is deleted; the block that holds jumps to it would be left with a dangling one.
An expression statement drops its value, but what was built for it stays in the block,
also when the answer is `nullptr` in the end. LLVM renames arguments of one function that
have the same name, which a prototype may have; `NamedValues` of the model has the name
once.

In `CodegenProperties`, ghost variables follow the *source* beside the code: `reach` says
whether some path reaches the next statement, `dead` that something was generated where
nothing can run, `guessed` that an undefined read happened.

**Compiler ↔ code.** Each step is one action of `Validator` and one of `Codegen` for the
same node, so the two stacks stay aligned. Expressions come in through constant operators
(`CheckNode`, `GenerateNode`, `NodesIn`, `SupportedNode`), which `MCCompiler` sets to
those of `Expressions`; only `AcceptanceSuffices` needs to know that. `GenerateNode` is evaluated in the
environment that `NamedValues`, `AllocaValues` and the module are at that point (`Env`).
`Emits` and `Unspoilt`, which say what is left in the block, also look at arguments behind
one that is `nullptr`, where `generate` stops.
The value of an assignment, which is not checked, is generated as it was parsed. Steps
that the Validator answers with `false` are not taken: a rejected program is never
generated. The body of a second definition of a name is validated and not generated
(`UngeneratedBody`). When code generation follows a null pointer the Validator, which ran
before, has already finished: `AfterCrash` lets it close what is open, to show that the
program was accepted. `kind` tells the two kinds of programs a run looks at: "all", and
the "fragment" of section 3.

**TreeBuilder ↔ code.** A parse tree is a rule of the grammar and the parts its visit
method visits, in order. `Visit` takes the value out of each part with the `as<T>()` the
method has (`Wanted`), throws `bad_cast` if the part's method put something else into
the `Any` (`AnyOf`), and builds the node. Rules without a method get ANTLR's
`visitChildren`: `parenExpr`, `refType`, `arrayType` and `tupleType` end in a token and
answer the null `Any`, a tuple expression answers its last element.

**Driver ↔ code.** `pc` follows `main` and `WriteOBJ` statement by statement where a
decision is taken; a phase ends in any of its outcomes. `argv` is the command line, so
`argi` (its `i`), `argc` and the reading of `argv[i + 1]` are the code's. `CommandLine`
says, reading the words from the right, which file was asked for; the code reads them
from the left. In `FrontEnd` the outcome of the second phase is the parser's: `RunParser`
takes its steps, `Parse` asks `getNumberOfSyntaxErrors()`.

**Grammar, ATN ↔ code.** ANTLR's tool, not part of the repository, generates the parser
from `src/grammar/*.g4` as an automaton. `Grammar` has the fragment of the rules in which
each decision that is hard to take occurs, with the left-recursive rule rewritten as the
tool does. `AtnLayout` lays it out as the tool stores it (external), `Atn` adds what
`deserialize` adds and has its `verifyATN`; the MC modules assume nothing of the layout
but check that `verifyATN` holds of it. The automata are constants (`states`,
`lexerStates`) so that TLC computes them once.

**Prediction ↔ code.** A configuration is a state, an alternative, a graph of callers
and a test. `adaptivePredict` is a function of the input and of the callers, first SLL,
then LL from the start. The order of configurations in a set is not modelled, nor how
far each reaches out of its rule beyond whether it does. `filterPrecedencePredicates`
leaves its argument as the code's filter does; operands of "and" and "or" are sets.
`predictByDFA` answers along the edges that exist and adds those that are missing; two of its
states are the same when `ATNConfigSet::operator==` says so, which leaves out some of
what a configuration holds. `calledRuleStack` of the LL(1) analysis never matters for
this grammar, `removeAllConfigsNotInRuleStopState` never has to look to the end of a rule,
and the `PLUS_LOOP_BACK` branch of `sync` is not reached.

**Parser ↔ code.** `ParserInterpreter` stands for the generated `FleetLangParser`, which
is not in the repository. The two share the automaton, the prediction and the error
strategy, but not the handler of an exception (`handle`): the interpreter goes to the
rule's stop state, recovers there, and makes up a leaf if recovery took no token; a
generated parser stays at the state of the error and makes up none. `ErrorsReported` and
`RecoveryIsBounded` are therefore about the interpreter: with the generated parser an
error that recovery takes no token for leaves no error node (that an error node is never
without an error, which `main` relies on, does not rest on `handle`), and the states that
the failsafe remembers are others. The first half of the module is the error strategy: reporting,
single token deletion and insertion, `consumeUntil` and the failsafe.

**Lexer, streams ↔ code.** The lexer works on characters of a few kinds and on a
fragment of the lexer rules with every conflict between them. DFA states differ by what
`operator==` compares; on these rules that never shows. What an observer of the streams
may find strange is in the model because it is in the code: `LT(-1)` of the unbuffered
stream answers a token that the window has deleted, unless it was consumed under a mark;
`LT(-k)` for larger `k` is off by one; `seek` forward fetches one token short and may
stop one early. The first and the last of these, which `IntStream.h` permits, are left
out of the calls that `Streams` makes (`TokenBack` looks back under a mark only,
`SeekToken` goes no further than what was read), so `StreamsAreCursors` says nothing of
them. `ANTLRInputStream::size()` leaves out the end of file that `IntStream.h`
counts.

**LexicalScope** knows environments only: entering a scope remembers the environment,
leaving it restores it, a declaration changes one name. `ValidatorProperties!Scoping`
maps the chain of maps to it: `env` is what `FindVariable` answers for each name.
**TokenCursor** knows a sequence of visible symbols and a position in it; `Streams`
maps the buffer, the window and the index to it.

## 3. Properties and runs

Six runs are expected to pass, six to violate the one property they check. State counts
are of distinct states; times with two workers.

### `validator` (MCValidator.cfg, 16 800 states)

Two variable names, declarations of two types, four expressions with one answer each (an
`int`, a comparison whose answer depends on the scopes, a call that depends on the
functions declared, one that is always refused), five declarations, three open constructs.

| Property | What it says |
|---|---|
| `TypeOK` | types of the fields and of the call stack; the table is never empty |
| `ScopesBalanced` | one scope per open construct plus the root; the verdict is given at the root |
| `ReturnHasFunction` | whenever a statement is checked `currentFunction` is valid, its function is visible, and it is the only open function |
| `LexicalScoping` | the Validator implements `LexicalScope` (refinement) |
| `FirstFunctionStays` | what the name of a function finds never changes |
| `FailureIsFinal` | after a failed check, only scopes are popped until the program is rejected |
| `FailureRejects` | a statement that fails its check, at any depth, leads to rejection (liveness). Not so the answers that the handlers of assignments and returns drop (`Validator.cpp:104`, `:165`): they reach no caller |

### `syntax` (MCSyntax.cfg, 592 000 states, one to two minutes)

The states are inputs: all parse trees that four nesting steps make of the leaves, from
expressions to programs; and all expressions that two wrapping steps make of the leaves
(a variable of each type, literals, an undeclared name), with calls to functions whose
parameter is `int` or `double` and whose results are `int`, `double` and `void`.

| Property | What it says |
|---|---|
| `BuiltIfMethods` | every `as<T>()` finds its `T`: a tree whose literals fit and whose rules have methods is built, and no other, tuples apart |
| `TreeIsWhole` | the identifiers, literals and types of the built tree are those of the source in their order (of a tuple, those of the last element), with a null pointer exactly where the source leaves an optional part out or has an empty statement, which functions drop (`NothingLost`). A function has a null pointer that `generate` follows without a test *if and only if* its source has an `if` without `else` or an empty statement as an arm or loop body: these the passes do *not* test (`StmtAST.cpp:71`, `:80`, `:134`), and `if_without_else` shows one crash (`OnlyEmptyArmsAreFollowed`). The value of a `return` is tested by both passes; an empty statement in a block fails its check and is never generated |
| `CheckSettles` | checking an accepted expression again answers the same and inserts nothing, so the recursion in `check(ComparisonExprAST)` ends; all operands of all its operators have one type |
| `GeneratedAsChecked` | an accepted expression generates a valid value of the computed type *if and only if* it avoids four kinds of node (bool literals, casts other than integer to floating point, a sign before a `double`, an argument of another type than its parameter) |

### `codegen` (MCCodegen.cfg, 610 000 states, about a minute)

Two kinds of program: several functions with a prototype, a definition with another
argument name, repeated definitions, values that are dropped, ill-typed or `nullptr`, and one branching statement in each body; and one
body, of an `int` or `void` function, with up to two branching statements in sequence or
one in the other, blocks, returns, dead code, empty arms and null arms.

| Property | What it says |
|---|---|
| `AllocaIsOwn` | what a name finds in the never-cleared `AllocaValues` is this function's variable of that name, if keys do not collide (`NamesApart`) |
| `BodyGeneratedOnce` | a function changes only from declared to a verdict, while its body is generated |
| `InsertIsBack` | the block that is tested for a terminator is the block the jump goes to |
| `GraphIsClosed` | blocks that are not last end in a terminator before the final loop adds any, unless they are empty; a jump goes to a block of the function or to one an open statement will insert; every block but the entry has a predecessor before it |
| `FlowAgrees` | the insert block is closed exactly where the source cannot reach the next statement |
| `VerdictFollowsSource` | the verifier's verdict depends on the source alone: operands fit, nothing follows a return, and the end is not reached in a non-void function |

`NamesApart` is a real restriction that the code does not enforce: the key is the name of
the function followed by the name of the variable, so that `f` with `oo` and `fo` with
`o` have the same key, and a function `a` with variables `b` and `ab` has a key that is a
variable's name. MCCodegen states it as an assumption, `NamesAreApart`.

### `compiler` (MCCompiler.cfg, 58 550 states, about a minute and a half)

Both passes over the accepted programs with two names: of "all" kinds, with a declaration
followed by a definition that differs in its return type and argument name; and of the
"fragment", which restricts programs by exactly what the Validator should check and does
not: one signature and one body per function name (`OneSignature`), one type per name in
a function and no redeclared argument (`OneType`: shadowing with another type confuses
the name-keyed maps), expressions of supported nodes (`Fine`), assigned values of the
variable's type (`FineValue`), both arms present, nothing after a `return`, and a
`return` at the end of a function that returns a value.

| Property | What it says |
|---|---|
| `NamesAreGenerated` | a variable the Validator finds is found in `NamedValues` or `AllocaValues`, in every function of every accepted program. The only exceptions are the arguments that an earlier declaration of the function names otherwise (`Renamed`): the code knows them under the declaration's names. A function the Validator finds is in the module, with the same arguments |
| `AcceptedCompiles` | in the fragment an accepted program does not crash code generation, and LLVM's verifier accepts every function |
| `TypesAgree` | in the fragment the type the Validator has for a name is the type of the value code generation has for it. The fragment has no function that is declared twice in different ways, so of such this says nothing |

### `front_end` (MCFrontEnd.cfg, 390 000 states, about two minutes)

`main` with ANTLR's parser over programs of one function with nine different bodies,
everything one edit (a token dropped, replaced or put in) makes of them, and each body
twice for the parser's memory; every command line of up to four words after the input for
an empty program, and every outcome of the later phases.

| Property | What it says |
|---|---|
| `ErrorFreeIffSentence` | no error is reported exactly for the sentences of the grammar |
| `NoTokenLost` | at every moment the leaves of the contexts are the tokens up to the cursor |
| `ErrorsReported` | the first error is not reported too late, and the interpreter's tree has an error node exactly if an error was counted |
| `RecoveryIsBounded` | the interpreter makes up no more leaves than the parser has come to tokens |
| `TightestFirst` | the tree of an expression is the one its precedences call for |
| `NearestElse` | an `else` belongs to the nearest `if` |
| `MemoryTransparent` | a DFA answers what prediction without one would |
| `OnlyProgramsCompile` | exit code 1 exactly on what is not a program; nothing else is validated or written |
| `OnlyAskedIsWritten` | a file is touched only for an accepted program, and only the one named after the last `-o` |
| `SilenceMeansWritten` | exit code 0 without a message means that the file has the whole object |
| `ProcessEnds` | the process ends (liveness) |

The first error may be reported *earlier* than the first bad token:
`getSynValidOrSemInvalidAlt` ends a rule before a token that fits. The offending tokens
of successive errors need not be in order. `SilenceMeansWritten` says nothing of output
to stdout: there a temporary file that cannot be read back is not reported. Errors of the
lexer are not in the number that `main` asks for.

### `runtime` (MCRuntime.cfg, 126 000 states, two minutes)

Five machines that do not interact, `machine` says which: the lexer on all texts of up to
three pieces, the streams under every sequence of the modelled calls on sources of up to four tokens,
interval sets under every sequence of operations on elements up to five, merges of stacks
three deep, and tests put together in any order.

| Property | What it says |
|---|---|
| `LongestFirst` | each token is the longest match of any rule, of the first of those |
| `TextAccountedFor` | lexemes follow one another without a gap, with the right lines and columns, and what is dropped is dropped because no rule matches |
| `StreamsAreCursors` | each stream implements `TokenCursor` (refinement) |
| `HiddenAround` | hidden tokens around a token are those up to its visible neighbours |
| `IntervalsAreSets` | interval sets stay sorted and disjoint and answer as a plain set does |
| `ContextsAreStacks` | a merged context stands for the stacks of both, and equal stacks are equal contexts |
| `CacheTransparent` | a cached merge is what merging again would give |
| `PredicatesKeepTruth` | a test holds in the calls its parts say, in whatever order it was put together |

### Expected violations

| Run | Property | What the run shows |
|---|---|---|
| `overload` (MCOverload.cfg) | `OverloadMeansDifferentSignature` | the comment in `Validator.cpp:42` says "Overload found", but a prototype followed by the definition of the *same* signature ends there too, because argument vectors of owning pointers are compared |
| `if_without_else` (MCNoElse.cfg) | `IfWithoutElseCompiles` | the grammar makes `else` optional; an accepted program without one ends in `fals->generate()` on a null pointer |
| `parentheses` (MCParens.cfg) | `ParenthesesAreBuilt` | parentheses around an expression make the compiler throw |
| `rejected_exit_code` (MCRejected.cfg) | `RejectedFails` | `main` returns 0 for a rejected program, and `test/test_runner.py` expects otherwise |
| `call_arguments` (MCCallArguments.cfg) | `ArgumentsAreSeparate` | the arguments of `f(a, b)` are parsed as one tuple |
| `lexer_skip` (MCSkip.cfg) | `OneCharacterSkipped` | "skip a char and try again" drops everything that was scanned and one character more |

Related facts that the models show and that are not findings: a tuple `a, b, c` nests to
the right; an unterminated `/*` is a division and a multiplication.

Every property of a passing run is accompanied by a *mutant*: a definition such as
`InsertOverwriting`, placed before the definition it would replace, that changes it as a
slip in the code would. With the mutant in place TLC finds the property violated, which
shows that the property depends on that piece of code. `PROJECT.json` lists the pairs.

## 4. Bounds

- `MaxDepth` bounds open constructs. Three in `validator` is a function with two nested
  statements: every kind of construct inside every other, a variable hidden twice, and a
  failure two levels down. The lists at each level are unbounded. Two for the control
  flow of `codegen` nests every branching statement in every arm of another.
- `MaxBlocks` bounds the blocks of one body: seven are the entry and two branching
  statements, so each statement is also followed by another at the same level.
- `MaxSize` and `MaxOperators` of `syntax`: a tree of four nestings is an operator around
  a leaf, a statement around it, a function and a program, or more operators or statements
  in place of the latter, and a visit method depends on a part only through what its
  `Any` holds; an expression is an operator around an operator, and the check of a node
  depends on its operands only through their answers.
  `MaxNesting` is seven, enough for two operators (`ExpressionBounds`, which TLC checks).
- `compiler` allows a function with one branching statement, or any number of blocks in
  sequence; `Chosen` limits which declarations and types each kind of program has. The
  state the passes meet in (names and their types) does not depend on deeper nesting.
- `front_end`: one edit of a program is enough for each branch of recovery, and the edits
  are made at every place. `Remembered` limits the inputs for which DFAs are followed;
  without that limit, `MemoryTransparent` was also checked on an instance with every pair
  of bodies (1 185 inputs), which is not part of the runs for its length.
- `MaxArgs` four is a flag, its word, and the same again.
- `MaxPieces`, `MaxTokens`, `MaxLook`, `MaxMarks`, `Largest` and `MaxOperands` of
  `runtime` are above what the code distinguishes: three lexemes, a window with tokens
  before, inside and behind it, an interval that touches one on each side.
- Two names are one that is declared and one that is not, or a name in two scopes.

Depth, number of blocks, names, types, expressions and functions of the Validator, of
code generation and of both together are *not* bounded in the theorems of section 6.

## 5. Fairness

The compiler is sequential: if there is a next step, it takes it. `Validator!Spec`
therefore has `WF_vars(Next)`, and nothing stronger; which node comes next is the
program's choice, so no fairness is assumed between actions. `FrontEnd` has `FProgress`,
the same assumption in another form: a step is enabled until the process has ended (which
the check for deadlock confirms), so that weak fairness of the whole next-state relation
says that steps are taken until then. The liveness properties are `FailureRejects` and
`ProcessEnds`. A program may be arbitrarily long, so nothing is claimed of how soon an
accepted program ends. Deadlock is checked in `validator`, `codegen`, `compiler` and
`front_end`; the states of `syntax` are inputs, not steps of the code, and the machines of
`runtime` stop at the end of a text or at a bound.

## 6. What is proved

All theorems hold for every value of the constants: all names, types, declarations,
expressions, tokens, nesting depths and lengths. The modules assume of their constants
only

- `NodesAssumption` (Validator, Compiler): the arguments of a function are a sequence of
  named and typed declarations, and `Null` is neither a function nor a type;
- `NestingBound`, `ExpressionBounds` (expressions): the bounds are numbers, and a tree of
  `MaxOperators` operators with all its casts does not nest deeper than `MaxNesting`.
  Both can be as large as one likes;
- `DeclarationsAgree` (ExpressionProperties): a name that is found in the scopes has its
  LLVM type in the environment. That the two passes keep this up is `TypesAreShared`;
- `StreamBounds` (Streams): the bounds are natural numbers, and `LT` may look one ahead.

What else a theorem assumes of the constants is in its statement, and TLC evaluates it in
the MC module of its component.

| Theorem | Assumes | Statement |
|---|---|---|
| `ValidatorProofs!TypeCorrect` | | `Spec => []TypeOK` |
| `ValidatorProofs!Balanced` | | `Spec => []ScopesBalanced` |
| `ValidatorProofs!ReturnIsSafe` | | `Spec => []ReturnHasFunction` |
| `ValidatorProofs!FunctionsStay` | | `Spec => FirstFunctionStays` |
| `ValidatorProofs!FailureFinal` | | `Spec => FailureIsFinal` |
| `ValidatorProofs!ScopingIsLexical` | | `Spec => LexicalScoping`, a refinement |
| `CodegenProofs!OneBody` | | `Spec => BodyGeneratedOnce` |
| `CodegenProofs!OwnAllocas` | `NamesApart` | `Spec => []AllocaIsOwn` |
| `CodegenProofs!ClosedGraph` | | `Spec => []GraphIsClosed` |
| `CodegenProofs!InsertAtBack` | | `Spec => []InsertIsBack` |
| `CodegenProofs!CarefulVerifies` | | `Init /\ [][CarefulNext]_vars =>` no crash, every body verifies |
| `FlowProofs!AgreesWithSource` | `NullApart` | `FlowSpec => []FlowAgrees` |
| `FlowProofs!VerdictIsSources` | `NullApart` | `FlowSpec => VerdictFollowsSource` |
| `CompilerProofs!NamesGenerated` | `NullApart` | `KindSpec => []NamesAreGenerated` |
| `CompilerProofs!TypesAreShared` | `NullApart`, `KeysAreNoNames` | `KindSpec => []TypesAgree` |
| `CompilerProofs!AcceptanceSuffices` | `Hypotheses` | `KindSpec => []AcceptedCompiles` |
| `CompilerProofs!ExpressionsAgree` | `TypesKnown`, `ParametersAreExpressions` | `ExprsAgree` |
| `ExprProofs!BuiltExpressions` | `SameDeclarations`, a depth within `MaxNesting` | `PassesAgree` of every built expression |
| `SyntaxProofs!ChecksSettle` | | `ExprSpec => []CheckSettles` |
| `SyntaxProofs!ChecksAreGenerated` | | `ExprSpec => []GeneratedAsChecked` |
| `DriverProofs!OnlyAsked` | | `Spec => []OnlyAskedIsWritten` |
| `DriverProofs!Silence` | | `Spec => []SilenceMeansWritten` |
| `StreamProofs!StreamsRefineCursor` | | `StreamSpec => StreamsAreCursors`, a refinement |
| `StreamProofs!HiddenTokensAround` | | `StreamSpec => []HiddenAround` |

The assumptions, all in `CodegenProperties` or `CompilerProperties`:

- `NullApart`: `nullptr` is not one of the allocas;
- `NamesApart`, `KeysAreNoNames`, `KeysDiffer`: the keys of `AllocaValues` do not collide
  with each other or with names of variables. Real names can violate this (section 3,
  `codegen`), and what the theorems say then fails. "All names" below means all sets of
  names whose keys do not collide;
- `TypesKnown`: no variable is `void`, as the grammar has it;
- `NoNullHere`: `nullptr` is no expression and no value;
- `ParametersAreExpressions`: the expressions of programs are among those that NewVisitor
  builds (`Built`), nested to some depth that `MaxNesting` has room for, and they are
  checked and generated as `Expressions` says. MCCompiler checks it of its expressions
  (`TreesHypothesis`); the rest of it is how its operators are defined.

### The Validator

None of the first five is inductive alone. That a `return` finds its function after a
scope has been popped needs that the function is not in the popped scope, which needs
that functions are only ever added at the root, which needs that declarations are only
checked when no construct is open, which needs that scopes and open calls correspond. The
inductive invariant `IInv` says all of it at once: `Consistent(table, frames,
currentFunction)` relates the chain (`Chain`: only the root has functions), the stack
(`Stack`: exactly the outermost call is a function), their lengths, and the current
function (its name is in the root while a call is open); and a verdict is given only with
no call open. One lemma per kind of change (`ConsistentPush`, `ConsistentPop`,
`ConsistentVariable`, `ConsistentFunction`) shows that the relation survives it, and
`StepIInv` goes through the actions. `StepIInv` also shows that a step keeps every
function of the root, from which `FunctionsStay` follows with `FindInRoot`: a lookup of a
function through any chain answers what the root answers.

`ScopingIsLexical` shows that every step of the Validator maps to `Enter`, `Declare`,
`Leave` or `LeaveAndEnter` of `LexicalScope`, or to a stutter. The mapping takes the
chain to environments through `FindVariable`, which walks from the innermost scope
outwards to the first that declares the name; the lemmas about it say what a lookup
answers after a scope was pushed, popped or added to, from the least index of a scope
that has the name (`LeastNatural`, by well-foundedness).

### Code generation

`OneBody` follows from `InBody` (the open function is declared and has no verdict),
`OwnAllocas` from `Keyed` (each key of `AllocaValues` is the one made of its alloca's
function and name). `ClosedGraph` and `InsertAtBack` follow from `Graph`, the conjunction
of

- `Shape`: types, and `insert` is the last block of the layout;
- `Placed`: a block is laid out once or waits in exactly one open statement;
- `Jumps`: jumps go to blocks that are laid out or wait; an arm that has not jumped has
  left no jump to the block behind the statement; the block that an open statement
  inserts next has a jump to it already;
- `Finished` and `EarlierPredecessor`, the properties, with the entry block not empty
  once there is another.

What makes the plain properties not inductive is the deletion of an `ifcont`: it is
harmless only because *no* open statement's arm has jumped to it, which `Jumps` says by
way of `jumpGenerated`.

`CarefulVerifies` is the verifier's side: if arms are present, values fit, and nothing is
generated behind a terminator, no step crashes and every body verifies. Its invariant
`Sound` adds to `Graph` that nothing is misfit and no block goes on behind a terminator
(`NoneBehind`). The theorem is stated of `CarefulNext`, a restriction of `Next` by what a
program does; `AcceptanceSuffices` shows that it is not empty.

### Control flow

`Flow` relates the graph with the ghost variables: one saved `reach` per open statement
(`Remembered`), nothing is generated into a block that waits (`Waiting`), only blocks
that are laid out go on behind a terminator (`CutLaid`), and (`Followed`), as long as no
undefined read was made: something is dead exactly if some block goes on behind a
terminator, and otherwise the insert block is closed exactly where the source cannot go
on, with each open statement entered where the source could, and the false arm knowing
whether the true arm can be left (`Agreed`). The verdict follows because the loop that
ends a body adds terminators only to blocks that have none (`TerminatedBlocks`).

### Both passes

`CompilerProofs` uses `ValidatorProofs` and `CodegenProofs` as instances: `SameActions`
shows that the actions composed in `Compiler` are the ones these theorems are about.

- `NamesGenerated`: `CInv` says that the root scope and the module have the same
  functions (`SameFunctions`), that the function being checked is the one being generated
  (`SameFunction`), and that every variable in any scope is an argument or has an alloca
  (`DeclsHeld`; an argument of the declaration that is checked, which may be `Renamed`,
  or of the one that is generated). A variable whose scope was left keeps its alloca; that is what makes the
  maps agree although one of them is never cleared.
- `TypesAreShared`: `TInv` adds that no key of `AllocaValues` is a variable's name and
  that each declaration in the scopes has the type of the argument or alloca of its name.
- `AcceptanceSuffices`: `AInv` adds `Sound`, `Keyed` and `InBody` of code generation, that
  allocas belong to functions that have a body (`Fresh`), and that arguments have no
  alloca (`ArgsBare`). `FragmentIsCareful` then maps each step of the fragment to a step
  of `CarefulNext` or to a stutter: acceptance by the Validator, with `TypesAgree` and
  `ExprsAgree`, gives the premises that `CarefulVerifies` needs. That expressions agree is
  the theorem `ExpressionsAgree`: wherever names mean the same to both passes
  (`SameMeaning`), they do so in the sense of `Expressions` (`DeclarationsMeet`), and
  `BuiltExpressions` says the rest. The hypotheses are what
  the code relies on and does not check.

### Expressions

The functions `Checks(Table)` and `Generates(Env)` have the values their definitions give
them: `ChecksDefined`, `GeneratesDefined`, `NodesDefined` and `BuiltDefined` say so once,
so that no proof unfolds a recursion twice. `TreesSettled` is an induction over the depth
of the trees that NewVisitor builds, whatever they are made of: each is *settled* at a
depth that grows by three with each operator (one for the operator, one for a cast, one
for the second check of a comparison). `Settled(table, env, e, k)` says that more than `k`
open calls do not change the answer for `e`, and that `e` is rejected for good or
rewritten to an expression that is `Accepted`: its own check answers the same type and
the same node, at each of its nodes the operands agree, and generation makes a valid
value of that type exactly if all nodes are supported, and otherwise never a valid one.
One lemma per kind of node (`PairSettled`, `SignSettled`, `CallSettled`) shows that an
operator around settled operands is settled; casts need that a type coerces to itself
(`Coercions`), and calls with any number of arguments that the loop of `generate`
ends at the first argument without a value (`FirstStop`). None of what `PassesAgree` says is inductive: that
a *checked* tree is stable says nothing of the tree's next check under another operator,
and that an unsupported node is not generated validly has to be known of every outcome, a
crash included.

`SyntaxProofs` brings this to the machine of `ExpressionProperties`, whose expressions
are all `Built` (`ExprInv`), and to the two properties that the run `syntax` checks.

### The streams

`StreamInv` has one part per stream: `Buffer` (how much has been fetched is consistent
with the cursor, which is on a visible token or at the end, and everything up to it has
been fetched), `Window` (the window is within
the source and the index inside it; there are as many marks as `numMarkers` says, the
earliest of them is between the window's start and the index, and if something was
consumed since, `lastToken` is the token before the index), and for characters that the
index is in the text; and `Source`: only the last token is the end of file, and it is
visible. `Visible` and `Position` of the mapping are defined by counting (`Rank`), so the
lemmas say that `Rank` grows by one at a visible token and stays at a hidden one, that it
has an inverse on visible tokens, and what that makes of the walks `nextTokenOnChannel`
and `previousTokenOnChannel`, whose answers are a least and a greatest number with a
property. `StreamKeeps` goes through the calls: each keeps `StreamInv` and is `Consume`,
`Seek`, a question of `TokenCursor`, or a stutter. TLC had found `StreamInv` to hold of
`StreamSpec` alone with sources of four tokens (4 180 states).

### The driver

`IInv` is `WordsRead /\ FilesTouched /\ EndSeen`. The code reads the words from the left
and forgets all but the last `-o`; `CommandLine` states what was asked for from the
right. `OutputRead`, in terms of the set of flags passed so far, is what connects them:
`output_file` is the word after the greatest of them, and each has such a word, because
otherwise `argv[argc]` would have been read and the process would have crashed.

### What is only model-checked, and why

- `FailureRejects` and `ProcessEnds`: liveness is out of this prover's reach.
- `BuiltIfMethods`, `TreeIsWhole`; `ErrorFreeIffSentence`, `NoTokenLost`,
  `ErrorsReported`, `RecoveryIsBounded`, `TightestFirst`, `NearestElse`,
  `MemoryTransparent`, `OnlyProgramsCompile`; `LongestFirst`, `TextAccountedFor`;
  `IntervalsAreSets`, `ContextsAreStacks`, `CacheTransparent`, `PredicatesKeepTruth`:
  visiting trees, closures over the automaton, merges of stacks and the walks of interval
  sets are `RECURSIVE` operators, with which the prover has no SMT backend. Most of these
  properties are about what a recursion computes of data of any depth.
- Induction over the natural numbers *is* possible where it was needed: `LeastNatural` in
  `ValidatorProofs`, and with it the depths of expressions and the counts of tokens, is
  proved from the well-foundedness of `<`. Library theorems with an operator as a
  parameter cannot be used.

The inductive invariants were model-checked on the instances of their runs before they
were proved.

## 7. What could be done next

1. `FleetTypes`: the algebra of the coercion table (commutative and associative) as
   theorems of their own.
2. `IntervalSets` with loops as functions in the place of its two recursive walks, and a
   proof that `add` keeps a set canonical.
3. `TreeBuilder` with functions of the depth, as `Expressions` has them, and a proof of
   `TreeIsWhole`.

## 8. Not modelled

- Headers, documentation comments and the parts of the ANTLR runtime the compiler never
  calls: serializer, rewriter, XPath, tree patterns, profiling, printing, SLL-only
  prediction. They are most of the repository's lines; the map of the model covers about
  a sixth of all lines.
- Reading the automaton from its serialized string, listeners, tracing, the wording of
  messages.
- `UnbufferedCharStream`: nothing uses it, and its `nextChar` skips white space and never
  yields the end of file.
- Modes and `more()` of the lexer; rules that only repeat what others already show.
- LLVM, of which only what the code relies on is modelled: `IRBuilder` appending to the
  insert block, the names of a module, `verifyFunction`. `argh.h` (not included anywhere).
- The `print` methods, `TypeToString`, the order in which globals are initialised
  (`TheFPM` takes `TheModule` before it is made), dead code (`TypeSizes`,
  `SmallestType`), build files and the test runner. Values of constants and the
  arithmetic of generated programs: no decision of the compiler depends on them.
