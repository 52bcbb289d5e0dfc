----------------------------- MODULE Validator -----------------------------
(***************************************************************************)
(* src/Validator.cpp: the pass that accepts or rejects a parsed program    *)
(* before any code is generated for it.  The pass is a recursive descent   *)
(* over the syntax tree that pushes and pops scopes of the symbol table as *)
(* it goes.  The C++ call stack is the variable `frames', the object's     *)
(* fields are `table' and `currentFunction', and `ret' is the boolean that *)
(* the call that has just ended returned to its caller.                    *)
(*                                                                         *)
(* The tree is not fixed in advance: whenever the pass descends into a     *)
(* node the specification chooses the node, so a behaviour is the check of *)
(* one program and the behaviours together are the checks of all programs, *)
(* with functions and blocks of any length, whose statements are nested    *)
(* at most MaxDepth deep.                                                  *)
(***************************************************************************)
EXTENDS SymbolTable, FleetTypes

CONSTANTS
  VarNames,         \* the names variables have
  VarTypes,         \* the types declarations give them
  Exprs,            \* the expressions statements contain
  Functions,        \* the declarations a program may contain
  MaxDepth,         \* bound: constructs open at the same time
  CheckExpr(_, _)   \* Validator::check(ExprAST *): [ok, type] from a table

\* Functions are nodes of their own, with typed and named arguments; nullptr
\* is none of them and no type.
ASSUME NodesAssumption ==
  /\ \A f \in Functions : f.args \in Seq([name : VarNames, type : VarTypes])
  /\ Null \notin Functions
  /\ Null \notin VarTypes

VARIABLES
  table,            \* SymbolTable *table, with its chain of parents
  currentFunction,  \* Function *currentFunction
  frames,           \* the open check(Function / Block / If / While) calls
  ret,              \* what the call that just ended returned
  verdict           \* what check(Program *) answers

vars == << table, currentFunction, frames, ret, verdict >>

\* One frame for each call that has pushed a scope and not yet popped it: the
\* two arms of an if are frames of their own; `fals' says whether an if whose
\* true arm is open has a false arm to check afterwards.
Frame == [kind : {"function", "block", "true", "false", "while"}, fals : BOOLEAN]

Open(kind)  == [kind |-> kind, fals |-> FALSE]
OpenTrue(f) == [kind |-> "true", fals |-> f]

Top    == Head(frames)
InList == Top.kind \in {"function", "block"}

Init ==
  /\ table = << EmptyScope >>
  /\ currentFunction = Null
  /\ frames = << >>
  /\ ret = "none"
  /\ verdict = "checking"

-----------------------------------------------------------------------------
(* check(Program): the loop over the declarations.                         *)

\* FunctionDeclaration::operator==.  The arguments are compared as vectors of
\* owning pointers: two nodes of a tree have equal vectors only if empty.
SameDeclaration(f, g) ==
  f.name = g.name /\ f.ret = g.ret /\ f.args = << >> /\ g.args = << >>

\* The verdict of check(FunctionDeclaration *).
IsOverload(f) ==
  LET prevDecl == FindFunction(table, f.name)
  IN  /\ prevDecl # Null
      /\ ~SameDeclaration(prevDecl, f)
      /\ prevDecl.ret = f.ret

NextDeclaration == verdict = "checking" /\ frames = << >> /\ ret # "false"

CheckFunctionDeclaration(f) ==
  /\ NextDeclaration
  /\ f.kind = "prototype"
  /\ IF IsOverload(f)
     THEN ret' = "false" /\ UNCHANGED table
     ELSE ret' = "true" /\ table' = addFunction(table, f)
  /\ UNCHANGED << currentFunction, frames, verdict >>

ArgsDistinct(f) ==
  \A i, j \in DOMAIN f.args : f.args[i].name = f.args[j].name => i = j

\* Mutant of ArgScope: every argument gets the type the function returns.
ArgScopeReturned(f) ==
  [EmptyScope EXCEPT !.variables =
     [name \in {f.args[i].name : i \in DOMAIN f.args} |-> f.ret]]

\* The scope of the function once its (distinct) arguments have been added.
ArgScope(f) ==
  [EmptyScope EXCEPT !.variables =
     [name \in {f.args[i].name : i \in DOMAIN f.args} |->
        (CHOOSE a \in Range(f.args) : a.name = name).type]]

\* Mutant of RepeatedArgument: it returns without popScope.
RepeatedArgumentKept(f) ==
  /\ ~ArgsDistinct(f)
  /\ ret' = "false"
  /\ table' = << ArgScope(f) >> \o addFunction(table, f)
  /\ UNCHANGED frames

\* A repeated argument name is found in the scope that has just been pushed,
\* which is popped before the call returns.
RepeatedArgument(f) ==
  /\ ~ArgsDistinct(f)
  /\ ret' = "false"
  /\ table' = addFunction(table, f)
  /\ UNCHANGED frames

OpenBody(f) ==
  /\ ArgsDistinct(f)
  /\ ret' = "none"
  /\ table' = << ArgScope(f) >> \o addFunction(table, f)
  /\ frames' = << Open("function") >>

\* check(Function *) up to its first statement.
CheckFunction(f) ==
  /\ NextDeclaration
  /\ f.kind = "definition"
  /\ \/ /\ IsOverload(f)
        /\ ret' = "false"
        /\ UNCHANGED << table, currentFunction, frames >>
     \/ /\ ~IsOverload(f)
        /\ currentFunction' = f
        /\ RepeatedArgument(f) \/ OpenBody(f)
  /\ UNCHANGED verdict

\* The loop over the declarations ends, or a declaration failed.
ProgramAccepted ==
  /\ NextDeclaration
  /\ verdict' = "accepted"
  /\ UNCHANGED << table, currentFunction, frames, ret >>

ProgramRejected ==
  /\ verdict = "checking" /\ frames = << >> /\ ret = "false"
  /\ verdict' = "rejected"
  /\ UNCHANGED << table, currentFunction, frames, ret >>

-----------------------------------------------------------------------------
(* check(StmtAST): the statements.  A list asks for its next statement as  *)
(* long as none has failed, an arm or a loop body for its only statement.   *)

\* Mutant of NextStatement: a list goes on after a statement that failed.
NextStatementAfterFailure ==
  verdict = "checking" /\ frames # << >> /\ (ret = "none" \/ InList)

NextStatement ==
  /\ verdict = "checking" /\ frames # << >>
  /\ ret = "none" \/ (ret = "true" /\ InList)

\* A check that opens no scope answers at once ...
Answer(ok) ==
  /\ ret' = IF ok THEN "true" ELSE "false"
  /\ UNCHANGED << currentFunction, frames, verdict >>

\* ... and one that does calls check on a statement inside it.
Call(frame) ==
  /\ Len(frames) < MaxDepth
  /\ frames' = << frame >> \o frames
  /\ table' = PushScope(table)
  /\ ret' = "none"
  /\ UNCHANGED << currentFunction, verdict >>

CheckVarDecl(name, type) ==
  /\ NextStatement
  /\ LET isNew == FindVariableInCurrentScope(table, name) = Null
     IN  /\ Answer(isNew)
         /\ table' = IF isNew THEN addVariable(table, name, type) ELSE table

\* The check of the declaration is called for its effect, its answer dropped;
\* addVariable keeps an earlier declaration just as check(VarDecl) does.  The
\* assigned value is not checked at all.
CheckAssign(decl, lvar) ==
  /\ NextStatement
  /\ LET t == IF decl = Null THEN table ELSE addVariable(table, lvar, decl)
     IN  table' = t /\ Answer(FindVariable(t, lvar) # Null)

\* currentFunction is read through a pointer.  An expression that fails its
\* own check makes the statement succeed.
CheckReturn(expr) ==
  /\ NextStatement
  /\ Answer(IF expr = Null
            THEN currentFunction.ret = "Void"
            ELSE LET val == CheckExpr(table, expr)
                 IN  val.ok => val.type = currentFunction.ret)
  /\ UNCHANGED table

CheckExprStmt(expr) ==
  /\ NextStatement
  /\ Answer(CheckExpr(table, expr).ok)
  /\ UNCHANGED table

IsCondition(expr) ==
  LET c == CheckExpr(table, expr) IN c.ok /\ c.type = "Bool"

\* tru and fals: whether the arm is a statement, that is, not the nullptr
\* that an empty statement or a missing else leaves.
CheckIf(cond, tru, fals) ==
  /\ NextStatement
  /\ \/ /\ IsCondition(cond) /\ tru
        /\ Call(OpenTrue(fals))
     \/ /\ IsCondition(cond) /\ ~tru /\ fals
        /\ Call(Open("false"))
     \/ /\ ~(IsCondition(cond) /\ (tru \/ fals))
        /\ Answer(IsCondition(cond))
        /\ UNCHANGED table

CheckWhile(cond, body) ==
  /\ NextStatement
  /\ \/ /\ IsCondition(cond) /\ body
        /\ Call(Open("while"))
     \/ /\ ~(IsCondition(cond) /\ body)
        /\ Answer(IsCondition(cond))
        /\ UNCHANGED table

CheckBlock == NextStatement /\ Call(Open("block"))

\* Every dynamic_cast of a nullptr fails.  Only blocks keep the null of an
\* empty statement: functions drop it and check(If / While) test for it.
CheckEmptyStmt ==
  /\ NextStatement
  /\ Top.kind = "block"
  /\ Answer(FALSE)
  /\ UNCHANGED table

-----------------------------------------------------------------------------
(* Returning from the calls on the stack.                                  *)

\* The true arm succeeded and there is a false arm: one scope for the other.
TrueArmDone ==
  /\ frames # << >> /\ Top.kind = "true" /\ Top.fals /\ ret = "true"
  /\ frames' = << Open("false") >> \o Tail(frames)
  /\ table' = PushScope(GetParent(table))
  /\ ret' = "none"
  /\ UNCHANGED << currentFunction, verdict >>

\* Mutant of ChildDone: whatever the statement inside answered.
ChildAnswered ==
  \/ Top.kind = "block"
  \/ Top.kind # "function" /\ ~Top.fals /\ ret # "none"

\* An arm or a body succeeded, or a block has no more statements.
ChildDone ==
  \/ Top.kind = "block" /\ ret # "false"
  \/ Top.kind \in {"true", "false", "while"} /\ ~Top.fals /\ ret = "true"

StatementDone ==
  /\ frames # << >> /\ ChildDone
  /\ frames' = Tail(frames)
  /\ table' = GetParent(table)
  /\ ret' = "true"
  /\ UNCHANGED << currentFunction, verdict >>

FunctionDone ==
  /\ frames # << >> /\ Top.kind = "function" /\ ret # "false"
  /\ frames' = Tail(frames)
  /\ table' = GetParent(table)
  /\ currentFunction' = Null
  /\ ret' = "true"
  /\ UNCHANGED verdict

\* A statement failed: every open call pops its scope and returns false.
\* currentFunction keeps pointing at the function that failed.
Fail ==
  /\ frames # << >> /\ ret = "false"
  /\ frames' = Tail(frames)
  /\ table' = GetParent(table)
  /\ UNCHANGED << currentFunction, ret, verdict >>

\* main has its answer.
Done == verdict # "checking" /\ UNCHANGED vars

Statement ==
  \/ \E name \in VarNames, type \in VarTypes : CheckVarDecl(name, type)
  \/ \E lvar \in VarNames, decl \in VarTypes \cup {Null} : CheckAssign(decl, lvar)
  \/ \E expr \in Exprs \cup {Null} : CheckReturn(expr)
  \/ \E expr \in Exprs : CheckExprStmt(expr)
  \/ \E cond \in Exprs, tru, fals \in BOOLEAN : CheckIf(cond, tru, fals)
  \/ \E cond \in Exprs, body \in BOOLEAN : CheckWhile(cond, body)
  \/ CheckBlock
  \/ CheckEmptyStmt

Return == TrueArmDone \/ StatementDone \/ FunctionDone \/ Fail

Next ==
  \/ \E f \in Functions : CheckFunctionDeclaration(f) \/ CheckFunction(f)
  \/ Statement
  \/ Return
  \/ ProgramAccepted
  \/ ProgramRejected
  \/ Done

\* A sequential program: it takes its next step as long as it has one.
Spec == Init /\ [][Next]_vars /\ WF_vars(Next)
=============================================================================
