---------------------------- MODULE SymbolTable ----------------------------
(***************************************************************************)
(* src/SymbolTable.cpp as operators.  A SymbolTable object and its chain   *)
(* of parents is a sequence of scopes: the head is the object itself (the  *)
(* Validator's `table'), the tail its parent.  A scope keeps two           *)
(* std::maps, from names to variable and to function declarations; what    *)
(* the Validator reads of a variable declaration is its type.              *)
(***************************************************************************)
EXTENDS StdMap, SequencesExt

CONSTANT Null   \* nullptr, wherever the code returns or stores one

EmptyScope == [variables |-> EmptyMap, functions |-> EmptyMap]

\* SymbolTable(parent) and GetParent(): the chain the new scope starts, and
\* the chain left when the current scope is abandoned.
PushScope(table) == << EmptyScope >> \o table

\* Mutant of GetParent: one parent too far.
GrandParent(table) == Tail(Tail(table))

GetParent(table) == Tail(table)

addVariable(table, name, type) ==
  [table EXCEPT ![1].variables = Insert(@, name, type)]

addFunction(table, f) ==
  [table EXCEPT ![1].functions = Insert(@, f.name, f)]

FindVariableInCurrentScope(table, name) ==
  IF name \in DOMAIN table[1].variables THEN table[1].variables[name] ELSE Null

\* Mutant of FindVariable: the outermost declaration answers.
FindVariableOutermost(table, name) ==
  LET scopes == {i \in DOMAIN table : name \in DOMAIN table[i].variables}
  IN  IF scopes = {} THEN Null ELSE table[Max(scopes)].variables[name]

\* The nearest scope of the chain that declares the name answers.
FindVariable(table, name) ==
  LET scopes == {i \in DOMAIN table : name \in DOMAIN table[i].variables}
  IN  IF scopes = {} THEN Null ELSE table[Min(scopes)].variables[name]

\* Mutant of FindFunction: the parents are not asked.
FindFunctionHere(table, name) ==
  IF name \in DOMAIN table[1].functions THEN table[1].functions[name] ELSE Null

FindFunction(table, name) ==
  LET scopes == {i \in DOMAIN table : name \in DOMAIN table[i].functions}
  IN  IF scopes = {} THEN Null ELSE table[Min(scopes)].functions[name]
=============================================================================
