---------------------------- MODULE Expressions ----------------------------
(***************************************************************************)
(* The expressions of FleetLang (src/AST/ExprAST.h), what the Validator    *)
(* answers for one and rewrites in it, and what ExprAST::generate makes of *)
(* it.  A node is a record with a field `op'.  The operators of a kind     *)
(* (+ - * /, the six comparisons, && ||) are not told apart: no decision   *)
(* about types depends on which one it is.                                 *)
(***************************************************************************)
EXTENDS SymbolTable, FleetTypes

CONSTANT MaxNesting   \* bound: how deep trees, and calls of check and generate, are nested

ASSUME NestingBound == MaxNesting \in Nat

IntLit    == [op |-> "int"]
FloatLit  == [op |-> "float"]
DoubleLit == [op |-> "double"]
BoolLit   == [op |-> "bool"]
StringLit == [op |-> "string"]
Var(n)          == [op |-> "var", name |-> n]
Sign(e)         == [op |-> "sign", value |-> e]
CallTo(callee, args) == [op |-> "call", callee |-> callee, args |-> args]
Call1(callee, e) == CallTo(callee, << e >>)
Arith(l, r)     == [op |-> "binary", LHS |-> l, RHS |-> r]
Compare(l, r)   == [op |-> "comparison", LHS |-> l, RHS |-> r]
Logical(l, r)   == [op |-> "boolop", LHS |-> l, RHS |-> r]
Casting(e, t)   == [op |-> "casting", value |-> e, type |-> t]

Literals == {IntLit, FloatLit, DoubleLit, BoolLit, StringLit}

\* The expressions nested at most n deep.
ExprAST[n \in 0 .. MaxNesting] ==
  IF n = 0 THEN Literals \cup [op : {"var"}, name : STRING]
  ELSE LET E == ExprAST[n - 1]
       IN  [op : {"sign"}, value : E] \cup [op : {"casting"}, value : E, type : Type]
           \cup [op : {"binary", "comparison", "boolop"}, LHS : E, RHS : E]
           \cup [op : {"call"}, callee : STRING, args : Seq(E)] \cup E

Expr == ExprAST[MaxNesting]

\* Those that NewVisitor builds with these names: only the Validator makes casts.
Built(variables, callees) ==
  LET built[n \in 0 .. MaxNesting] ==
        IF n = 0 THEN Literals \cup {Var(name) : name \in variables}
        ELSE LET E == built[n - 1]
             IN  [op : {"sign"}, value : E]
                 \cup [op : {"binary", "comparison", "boolop"}, LHS : E, RHS : E]
                 \cup [op : {"call"}, callee : callees, args : Seq(E)] \cup E
  IN  built

-----------------------------------------------------------------------------
(* Validator::check(ExprAST): the pair it returns, and the node as the     *)
(* check leaves it.  The children of a node keep the casts their own check *)
(* inserted even when the node fails, so the node is part of every answer. *)
(* `check' gives the answers of the calls for the operands.                *)

Yes(t, e) == [ok |-> TRUE,  type |-> t,      expr |-> e]
No(e)     == [ok |-> FALSE, type |-> "Void", expr |-> e]

\* A CastingExprAST around an operand that does not have the common type.
CastTo(coercion, checked) ==
  IF coercion = checked.type THEN checked.expr ELSE Casting(checked.expr, coercion)

\* SetLHS and SetRHS.
WithOperands(e, l, r) == [op |-> e.op, LHS |-> l, RHS |-> r]

\* Both operands in order; the second is not looked at when the first fails.
CheckOperands(check, e) ==
  LET lhs == check[e.LHS]
      rhs == IF lhs.ok THEN check[e.RHS] ELSE No(e.RHS)
  IN  [lhs |-> lhs, rhs |-> rhs, ok |-> lhs.ok /\ rhs.ok,
       coercion |-> CanCoerce(lhs.type, rhs.type),
       expr |-> WithOperands(e, lhs.expr, rhs.expr)]

WithCasts(o) == WithOperands(o.expr, CastTo(o.coercion, o.lhs), CastTo(o.coercion, o.rhs))

\* Mutant of CheckBinary: SetRHS is forgotten.
CheckBinaryCastsLeft(check, e) ==
  LET o == CheckOperands(check, e)
  IN  IF o.ok /\ o.coercion # "Void"
      THEN Yes(o.coercion, WithOperands(o.expr, CastTo(o.coercion, o.lhs), o.rhs.expr))
      ELSE No(o.expr)

CheckBinary(check, e) ==
  LET o == CheckOperands(check, e)
  IN  IF o.ok /\ o.coercion # "Void" THEN Yes(o.coercion, WithCasts(o)) ELSE No(o.expr)

\* A comparison that gets casts is checked again, casts included.
CheckComparison(check, e) ==
  LET o == CheckOperands(check, e)
  IN  IF ~o.ok \/ o.coercion = "Void" THEN No(o.expr)
      ELSE IF o.coercion = o.lhs.type /\ o.coercion = o.rhs.type THEN Yes("Bool", o.expr)
      ELSE check[WithCasts(o)]

CheckBoolOp(check, e) ==
  LET lhs == check[e.LHS]
      rhs == IF lhs.ok /\ lhs.type = "Bool" THEN check[e.RHS] ELSE No(e.RHS)
      node == WithOperands(e, lhs.expr, rhs.expr)
  IN  IF rhs.ok /\ rhs.type = "Bool" THEN Yes("Bool", node) ELSE No(node)

\* UnaryOp::Pos and Neg; the grammar has no operator that builds Not.
CheckSign(check, e) ==
  LET v == check[e.value]
      node == [e EXCEPT !.value = v.expr]
  IN  IF v.ok /\ v.type \notin {"Bool", "Void"} THEN Yes(v.type, node) ELSE No(node)

\* The arguments in order, up to the first that does not coerce to its
\* parameter; none is cast.
CheckArgs(check, e, f) ==
  LET args    == [i \in DOMAIN e.args |-> check[e.args[i]]]
      Fits(i) == args[i].ok /\ CanCoerce(args[i].type, f.args[i].type) # "Void"
      node    == [op |-> "call", callee |-> e.callee, args |-> [i \in DOMAIN args |->
                    IF \A j \in 1 .. i - 1 : Fits(j) THEN args[i].expr ELSE e.args[i]]]
  IN  IF \A i \in DOMAIN args : Fits(i) THEN Yes(f.ret, node) ELSE No(node)

CheckCall(table, check, e) ==
  LET f == FindFunction(table, e.callee)
  IN  IF f = Null \/ Len(e.args) # Len(f.args) THEN No(e) ELSE CheckArgs(check, e, f)

CheckVariable(table, e) ==
  LET type == FindVariable(table, e.name)
  IN  IF type = Null THEN No(e) ELSE Yes(type, e)

CheckCasting(check, e) ==
  LET v == check[e.value]
      node == [e EXCEPT !.value = v.expr]
  IN  IF v.ok THEN Yes(e.type, node) ELSE No(node)

CheckExpression(table, check, e) ==
  CASE e.op = "string"     -> No(e)
    [] e.op = "float"      -> Yes("Float", e)
    [] e.op = "double"     -> Yes("Double", e)
    [] e.op = "int"        -> Yes("Int", e)
    [] e.op = "bool"       -> Yes("Bool", e)
    [] e.op = "binary"     -> CheckBinary(check, e)
    [] e.op = "comparison" -> CheckComparison(check, e)
    [] e.op = "boolop"     -> CheckBoolOp(check, e)
    [] e.op = "sign"       -> CheckSign(check, e)
    [] e.op = "call"       -> CheckCall(table, check, e)
    [] e.op = "var"        -> CheckVariable(table, e)
    [] e.op = "casting"    -> CheckCasting(check, e)

Checks(table) ==
  LET check[n \in 0 .. MaxNesting] ==
        [e \in Expr |-> IF n = 0 THEN No(e) ELSE CheckExpression(table, check[n - 1], e)]
  IN  check

Check(table, e) == Checks(table)[MaxNesting][e]

-----------------------------------------------------------------------------
(* ExprAST::generate.  The answer is a value of an LLVM type, nullptr      *)
(* ("null"), or the end of the process, where the code or LLVM follows a   *)
(* null pointer ("crash").  `valid' says that no instruction built on the  *)
(* way has operands that LLVM's verifier rejects: the release library      *)
(* builds it all the same.  env gives the named arguments, the allocas and *)
(* the declared functions with their LLVM types.                           *)

Value(ir, valid) == [outcome |-> "value", ir |-> ir, valid |-> valid]
NullValue        == [outcome |-> "null",  ir |-> "void", valid |-> FALSE]
Crash            == [outcome |-> "crash", ir |-> "void", valid |-> FALSE]

\* Chosen by the left operand alone: floating point or integer arithmetic.
GenerateBinary(generate, e) ==
  LET L == generate[e.LHS]
      R == generate[e.RHS]
  IN  IF "crash" \in {L.outcome, R.outcome} THEN Crash
      ELSE IF "null" \in {L.outcome, R.outcome} THEN NullValue
      ELSE Value(L.ir, L.valid /\ R.valid /\ L.ir = R.ir /\ L.ir # "void")

\* Both getType() calls go through the pointers unchecked.
GenerateComparison(generate, e) ==
  LET L == generate[e.LHS]
      R == generate[e.RHS]
  IN  IF L.outcome # "value" \/ R.outcome # "value" THEN Crash
      ELSE IF \/ IsFloatingPoint(L.ir)
              \/ IsFloatingPoint(R.ir)
              \/ IsInteger(L.ir) /\ IsInteger(R.ir)
           THEN Value("i1", L.valid /\ R.valid /\ L.ir = R.ir)
           ELSE NullValue

\* CreateAnd and CreateOr follow both pointers; they need integers.
GenerateBoolOp(generate, e) ==
  LET L == generate[e.LHS]
      R == generate[e.RHS]
  IN  IF L.outcome # "value" \/ R.outcome # "value" THEN Crash
      ELSE Value(L.ir, L.valid /\ R.valid /\ L.ir = R.ir /\ IsInteger(L.ir))

\* Negation, whatever the sign was.  isFloatTy() is LLVM's `float' only, so
\* a double is negated with the integer instruction.
GenerateSign(generate, e) ==
  LET v == generate[e.value]
  IN  IF v.outcome # "value" THEN Crash
      ELSE Value(v.ir, v.valid /\ (v.ir = "float" \/ IsInteger(v.ir)))

GenerateCall(env, generate, e) ==
  IF e.callee \notin DOMAIN env.functions THEN NullValue
  ELSE LET f == env.functions[e.callee]
           argsV == [i \in DOMAIN e.args |-> generate[e.args[i]]]
           stop == SelectInSeq(argsV, LAMBDA a : a.outcome # "value")
       IN  IF Len(e.args) # Len(f.args) THEN NullValue
           ELSE IF stop # 0 THEN argsV[stop]
           ELSE Value(f.ret, \A i \in DOMAIN argsV :
                               argsV[i].valid /\ argsV[i].ir = f.args[i])

\* An argument hides an alloca of the same name.
GenerateVariable(env, e) ==
  IF e.name \in DOMAIN env.named THEN Value(env.named[e.name], TRUE)
  ELSE IF e.name \in DOMAIN env.allocas THEN Value(env.allocas[e.name], TRUE)
  ELSE NullValue

\* Mutant of GenerateCasting: the cast instruction is always built.
GenerateCastingAlways(generate, e) ==
  LET v == generate[e.value]
      ir == GetFromType(e.type)
  IN  IF v.outcome # "value" THEN Crash
      ELSE Value(ir, v.valid /\ IsInteger(v.ir) /\ IsFloatingPoint(ir))

\* CreateCast gives back a value that has the type already; otherwise it is
\* SIToFP, which takes an integer to a floating point type, for every cast.
GenerateCasting(generate, e) ==
  LET v == generate[e.value]
      ir == GetFromType(e.type)
  IN  IF v.outcome # "value" THEN Crash
      ELSE Value(ir, v.valid /\ (v.ir = ir \/ (IsInteger(v.ir) /\ IsFloatingPoint(ir))))

GenerateExpression(env, generate, e) ==
  CASE e.op = "string"     -> NullValue
    [] e.op = "bool"       -> NullValue
    [] e.op = "float"      -> Value("float", TRUE)
    [] e.op = "double"     -> Value("double", TRUE)
    [] e.op = "int"        -> Value("i32", TRUE)
    [] e.op = "binary"     -> GenerateBinary(generate, e)
    [] e.op = "comparison" -> GenerateComparison(generate, e)
    [] e.op = "boolop"     -> GenerateBoolOp(generate, e)
    [] e.op = "sign"       -> GenerateSign(generate, e)
    [] e.op = "call"       -> GenerateCall(env, generate, e)
    [] e.op = "var"        -> GenerateVariable(env, e)
    [] e.op = "casting"    -> GenerateCasting(generate, e)

Generates(env) ==
  LET generate[n \in 0 .. MaxNesting] ==
        [e \in Expr |-> IF n = 0 THEN NullValue ELSE GenerateExpression(env, generate[n - 1], e)]
  IN  generate

Generate(env, e) == Generates(env)[MaxNesting][e]

-----------------------------------------------------------------------------
(* The expressions the two passes agree on.                                *)

Children(e) ==
  CASE e.op \in {"binary", "comparison", "boolop"} -> {e.LHS, e.RHS}
    [] e.op \in {"sign", "casting"} -> {e.value}
    [] e.op = "call" -> Range(e.args)
    [] OTHER -> {}

NodesWithin[n \in 0 .. MaxNesting] ==
  [e \in Expr |-> IF n = 0 THEN {} ELSE {e} \cup UNION { NodesWithin[n - 1][c] : c \in Children(e) }]

Nodes(e) == NodesWithin[MaxNesting][e]

TypeOf(table, e) == Check(table, e).type

\* What code generation supports of an accepted expression: no bool literal,
\* casts from an integer to a floating point type (or between the types that
\* share i8), no sign before a double, arguments of the parameter's own type.
Floating == {"Float", "Double"}
SameBits(t, u) == t = u \/ {t, u} = {"Byte", "Char"}

Supported(table, e) ==
  /\ e.op # "bool"
  /\ e.op = "casting" =>
       \/ SameBits(TypeOf(table, e.value), e.type)
       \/ TypeOf(table, e.value) \notin Floating /\ e.type \in Floating
  /\ e.op = "sign" => TypeOf(table, e.value) # "Double"
  /\ e.op = "call" =>
       \A i \in DOMAIN e.args :
         SameBits(TypeOf(table, e.args[i]), FindFunction(table, e.callee).args[i].type)

\* The same declarations, for both passes: what is found in the scopes has its
\* LLVM type in the environment.  No variable is void (FleetLang.g4:29).
SameDeclarations(table, env, variables, callees) ==
  /\ variables \subseteq STRING /\ callees \subseteq STRING
  /\ \A name \in variables :
       LET type == FindVariable(table, name)
       IN  type # Null =>
             /\ type \in Type \ {"Void"}
             /\ name \in DOMAIN env.named \cup DOMAIN env.allocas
             /\ GetFromType(type) =
                  IF name \in DOMAIN env.named THEN env.named[name] ELSE env.allocas[name]
  /\ \A name \in callees :
       LET f == FindFunction(table, name)
       IN  f # Null =>
             /\ f.ret \in Type
             /\ Len(f.args) \in Nat /\ DOMAIN f.args = 1 .. Len(f.args)
             /\ \A i \in DOMAIN f.args : f.args[i].type \in Type
             /\ name \in DOMAIN env.functions
             /\ env.functions[name] =
                  [ret |-> GetFromType(f.ret),
                   args |-> [i \in DOMAIN f.args |-> GetFromType(f.args[i].type)]]
=============================================================================
