------------------------------ MODULE Compiler ------------------------------
(***************************************************************************)
(* main's two passes over one program: validator.check(pr) and, if it      *)
(* accepts, pr->generate().  The second walks the tree that the first has  *)
(* walked and rewritten, with state of its own and no look at the first    *)
(* one's, so the passes meet in the nodes only.  Here they visit each node *)
(* in the same step: the Validator's action and code generation's action   *)
(* for one choice of the node.                                             *)
(*                                                                         *)
(* Only programs that are accepted are generated, so only those steps are  *)
(* taken that the Validator does not answer with false; the rejections are *)
(* the subject of Validator itself.                                        *)
(***************************************************************************)
EXTENDS SymbolTable, FleetTypes

CONSTANTS
  Functions, VarNames, VarTypes,
  Exprs,            \* the expressions of the program, as NewVisitor built them
  CheckNode(_, _), GenerateNode(_, _),   \* Check, Generate and Nodes
  NodesIn(_),       \* of Expressions
  Mangle(_, _),     \* see Codegen
  MaxDepth,         \* bound: see Validator
  MaxBlocks         \* bound: see Codegen

\* See Validator.
ASSUME NodesAssumption ==
  /\ \A f \in Functions : f.args \in Seq([name : VarNames, type : VarTypes])
  /\ Null \notin Functions
  /\ Null \notin VarTypes

VARIABLES
  table, currentFunction, frames, ret, verdict,           \* the Validator
  module, AllocaValues, NamedValues, fn, blocks, layout,  \* code generation,
  insert, misfit, calls, returned, status                 \* `calls' its stack

CheckExpr(t, e) == LET c == CheckNode(t, e) IN [ok |-> c.ok, type |-> c.type]

V == INSTANCE Validator
C == INSTANCE Codegen WITH frames <- calls, Exprs <- {}

validation == << table, currentFunction, frames, ret, verdict >>
generation == << module, AllocaValues, NamedValues, fn, blocks, layout, insert, misfit,
                 calls, returned, status >>
vars == << validation, generation >>

Init == V!Init /\ C!Init

-----------------------------------------------------------------------------
(* What generate() makes of an expression at this point of code generation. *)

LLVMType(f) ==
  [ret |-> GetFromType(f.ret), args |-> [i \in DOMAIN f.args |-> GetFromType(f.args[i].type)]]

Argument(name) == CHOOSE a \in Range(module[fn].args) : a.name = name

\* What the names mean, given the allocas there are.
Env(allocas) ==
  LET alloca(n) == C!FindAlloca(allocas, n)
  IN  [named     |-> [n \in NamedValues |-> GetFromType(Argument(n).type)],
       allocas   |-> [n \in {m \in VarNames : alloca(m) # Null} |-> GetFromType(alloca(n).type)],
       functions |-> [name \in DOMAIN module |-> LLVMType(module[name])]]

\* An instruction is built unless constants are folded: a load, a call, or an
\* operator somewhere above an argument.
Emits(env, e) ==
  LET isArgument(x) == x.op = "var" /\ x.name \in DOMAIN env.named
      isLoad(x) == x.op = "var" /\ ~isArgument(x) /\ x.name \in DOMAIN env.allocas
  IN  \E x \in NodesIn(e) :
        \/ isLoad(x)
        \/ x.op = "call" /\ GenerateNode(env, x).outcome = "value"
        \/ x.op # "call" /\ \E y \in NodesIn(x) : y # x /\ isArgument(y)

\* No instruction that is left in the block has bad operands, of those built
\* before some nullptr either.  (Arguments behind one that is nullptr count too,
\* though they are not generated.)
Unspoilt(env, e) ==
  \A x \in NodesIn(e) :
    GenerateNode(env, x).outcome = "value" => GenerateNode(env, x).valid

\* The value a statement needs with type ir; CreateRet(nullptr) is `ret void'.
Generated(env, e, ir) ==
  LET v == GenerateNode(env, e)
  IN  [outcome |-> v.outcome, emits |-> Emits(env, e),
       fits |-> v.outcome = "value" /\ v.valid /\ v.ir = ir /\ ir # "void"]

Returned(env, e) ==
  LET v == Generated(env, e, GetFromType(module[fn].ret))
  IN  [v EXCEPT !.fits = @ \/ (v.outcome = "null" /\ module[fn].ret = "Void" /\ Unspoilt(env, e))]

Dropped(env, e) ==
  LET v == GenerateNode(env, e)
  IN  [outcome |-> v.outcome, emits |-> Emits(env, e),
       fits |-> IF v.outcome = "value" THEN v.valid ELSE Unspoilt(env, e)]

\* Mutant of Rewritten: the casts are not stored in the node.
RewrittenNever(e) == e

\* The node as the Validator leaves it.
Rewritten(e) == CheckNode(table, e).expr
Now == Env(AllocaValues)

-----------------------------------------------------------------------------
(* The declarations.                                                       *)

Declaration(f) == V!CheckFunctionDeclaration(f) /\ C!GenerateDeclaration(f)

Definition(f) ==
  /\ V!CheckFunction(f)
  /\ \/ C!GenerateFunction(f)
     \/ C!HasBody(f.name) /\ UNCHANGED generation

EndOfFunction == V!FunctionDone /\ C!FunctionDone

EndOfProgram == V!ProgramAccepted /\ C!ProgramDone

\* The body of a second definition: validated, not generated.
UngeneratedBody ==
  /\ fn = Null /\ frames # << >>
  /\ V!Statement \/ V!Return
  /\ UNCHANGED generation

-----------------------------------------------------------------------------
(* The statements.                                                         *)

VarDecl(name, type) == V!CheckVarDecl(name, type) /\ C!GenerateVarDecl(name, type)

\* The value is generated as it was parsed (it is never checked, so it gets no
\* casts), after the declaration that belongs to it.
Assign(decl, lvar, e) ==
  /\ V!CheckAssign(decl, lvar)
  /\ LET values == IF decl = Null THEN AllocaValues ELSE C!CreateAlloca(lvar, decl)
         env == Env(values)
     IN  C!GenerateAssign(decl, lvar,
           Generated(env, e, IF lvar \in DOMAIN env.allocas THEN env.allocas[lvar] ELSE "void"))

ReturnValue(e) ==
  V!CheckReturn(e) /\ C!GenerateReturn(Returned(Now, Rewritten(e)))

ReturnVoid == V!CheckReturn(Null) /\ C!GenerateReturn(Null)

ExprStmt(e) ==
  V!CheckExprStmt(e) /\ C!GenerateExprStmt(Dropped(Now, Rewritten(e)))

If(cond, tru, fals) ==
  V!CheckIf(cond, tru, fals) /\ C!GenerateIf(Generated(Now, Rewritten(cond), "i1"), tru, fals)

While(cond, hasBody) ==
  V!CheckWhile(cond, hasBody) /\ C!GenerateWhile(Generated(Now, Rewritten(cond), "i1"), hasBody)

Block == V!CheckBlock /\ C!GenerateBlock

EndOfBlock == V!StatementDone /\ C!BlockDone
EndOfLoop  == V!StatementDone /\ C!WhileDone
EndOfThen  == (V!TrueArmDone \/ V!StatementDone) /\ C!ThenDone
EndOfElse  == V!StatementDone /\ C!ElseDone

-----------------------------------------------------------------------------
\* Code generation has crashed.  The Validator, which ran before, has gone on
\* to its answer: here on a program that only closes what is open, with a
\* declaration as the statement an arm or a loop still needs.
AfterCrash ==
  /\ status = "crashed"
  /\ \/ V!Return
     \/ V!ProgramAccepted
     \/ ret = "none" /\ \E name \in VarNames, type \in VarTypes : V!CheckVarDecl(name, type)
  /\ UNCHANGED generation

Done == verdict # "checking" /\ status # "running" /\ UNCHANGED vars

Structure ==
  \/ Block \/ EndOfBlock \/ EndOfLoop \/ EndOfThen \/ EndOfElse
  \/ EndOfFunction \/ EndOfProgram \/ UngeneratedBody \/ AfterCrash

Statement ==
  \/ \E name \in VarNames, type \in VarTypes : VarDecl(name, type)
  \/ \E decl \in VarTypes \cup {Null}, lvar \in VarNames, e \in Exprs : Assign(decl, lvar, e)
  \/ \E e \in Exprs : ReturnValue(e) \/ ExprStmt(e)
  \/ ReturnVoid
  \/ \E cond \in Exprs, tru, fals \in BOOLEAN : If(cond, tru, fals)
  \/ \E cond \in Exprs, hasBody \in BOOLEAN : While(cond, hasBody)

Next ==
  \/ /\ \/ \E f \in Functions : Declaration(f) \/ Definition(f)
        \/ Statement
        \/ Structure
     /\ ret' # "false"
  \/ Done

Spec == Init /\ [][Next]_vars
=============================================================================
