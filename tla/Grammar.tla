------------------------------ MODULE Grammar ------------------------------
(***************************************************************************)
(* A fragment of FleetLang's grammar in which every decision of the parser *)
(* that is hard to take occurs: the two readings of "(", of "," and of an  *)
(* ID, the dangling else, and operators of several precedences.            *)
(*                                                                         *)
(* Left out are alternatives that differ from one that is here only in     *)
(* their tokens: literals, operators of other precedences, the primitive   *)
(* types but int, the array and tuple types, while, and the parameters of  *)
(* a function.                                                             *)
(*                                                                         *)
(* The rule `expression' is written the way ANTLR's tool rewrites a        *)
(* left-recursive rule: the alternatives that start otherwise, then a loop *)
(* over the operators, each behind a test of the precedence of the call.   *)
(* The n-th of the 18 alternatives has precedence 19 - n, the right        *)
(* operand of a binary operator one more than its operator, the operand of *)
(* a prefix operator that of its own.  Operands elsewhere, those of the    *)
(* tuple's suffix too, are called with 0.                                  *)
(***************************************************************************)
EXTENDS AtnLayout

EOF == "EOF"

\* The numbers of the rules.
FUNCTION   == 2
TYPE       == 3
STATEMENT  == 4
EXPRESSION == 5
STMT_END   == 6

Expr == Call(EXPRESSION, 0)

Program == << Star(<< << Call(FUNCTION, 0) >> >>), Tok(EOF) >>

Function ==
  << Call(TYPE, 0), Tok("ID"), Tok("("), Tok(")"),
     Block(<< << Tok("{"), Star(<< << Call(STATEMENT, 0) >> >>), Tok("}") >>,
              << Tok(";") >> >>) >>

Type == << Block(<< << Tok("ID") >>, << Tok("INT") >> >>) >>

AssignStmt == << Optional(<< << Call(TYPE, 0) >> >>), Tok("ID"), Tok("="), Expr, Call(STMT_END, 0) >>
IfStmt     == << Tok("IF"), Tok("("), Expr, Tok(")"), Call(STATEMENT, 0),
                 Optional(<< << Tok("ELSE"), Call(STATEMENT, 0) >> >>) >>
ReturnStmt == << Tok("RETURN"), Optional(<< << Expr >> >>), Call(STMT_END, 0) >>
BlockStmt  == << Tok("{"), Star(<< << Call(STATEMENT, 0) >> >>), Tok("}") >>
DeclStmt   == << Call(TYPE, 0), Tok("ID"), Call(STMT_END, 0) >>

Statement ==
  << Block(<< AssignStmt, IfStmt, ReturnStmt, << Call(STMT_END, 0) >>, BlockStmt, DeclStmt,
              << Expr, Call(STMT_END, 0) >> >>) >>

FuncExpr ==
  << Tok("ID"), Tok("("), Optional(<< << Expr, Star(<< << Tok(","), Expr >> >>) >> >>), Tok(")") >>

Parenthesized == << Tok("("), Expr, Tok(")") >>

\* The last two are parenExpr and parenBool.
Primary == Block(<< << Tok("ID") >>, << Tok("+"), Call(EXPRESSION, 11) >>, FuncExpr,
                    Parenthesized, Parenthesized >>)

TupleSuffix == << Test(1), Plus(<< << Tok(","), Expr >> >>) >>

Expression ==
  << Primary,
     Star(<< << Test(9), Tok("*"), Call(EXPRESSION, 10) >>,
             << Test(8), Tok("+"), Call(EXPRESSION, 9) >>,
             TupleSuffix >>) >>

Rules ==
  << [name |-> "program",    body |-> Program],
     [name |-> "function",   body |-> Function],
     [name |-> "type",       body |-> Type],
     [name |-> "statement",  body |-> Statement],
     [name |-> "expression", body |-> Expression],
     [name |-> "stmtEnd",    body |-> << Tok(";") >>] >>

TokenTypes == {"ID", "INT", "IF", "ELSE", "RETURN", "=", "(", ")", "{", "}", ";", "+", "*", ",", EOF}

LeftRecursive == {"expression"}

RuleIndex(name) == (CHOOSE n \in DOMAIN Rules : Rules[n].name = name)

\* w, with its end of file, is a program.  Some program starts with w.
IsSentence(w) == Derives(Rules, Program, w)
CanStart(w)   == DerivesFrom(Rules, Program, w)
=============================================================================
