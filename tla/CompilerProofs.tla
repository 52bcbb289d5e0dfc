--------------------------- MODULE CompilerProofs ---------------------------
(***************************************************************************)
(* What the two passes over one program keep between them, for every       *)
(* program, every answer that the checks and the generation of expressions *)
(* may give, and every bound on the nesting.  The Validator's own facts    *)
(* are those of ValidatorProofs.                                           *)
(***************************************************************************)
EXTENDS CompilerProperties, ExprProofs, TLAPS

VP == INSTANCE ValidatorProofs

-----------------------------------------------------------------------------
(* The Validator in the Compiler is the one that ValidatorProofs is about. *)

LEMMA SameNodes == VP!NodesAssumption
  BY NodesAssumption DEF VP!NodesAssumption

LEMMA SameActions ==
  /\ \A f : V!CheckFunctionDeclaration(f) <=> VP!CheckFunctionDeclaration(f)
  /\ \A f : V!CheckFunction(f) <=> VP!CheckFunction(f)
  /\ \A n, t : V!CheckVarDecl(n, t) <=> VP!CheckVarDecl(n, t)
  /\ \A n, d : V!CheckAssign(d, n) <=> VP!CheckAssign(d, n)
  /\ \A e : V!CheckReturn(e) <=> VP!CheckReturn(e)
  /\ \A e : V!CheckExprStmt(e) <=> VP!CheckExprStmt(e)
  /\ \A c, t, f : V!CheckIf(c, t, f) <=> VP!CheckIf(c, t, f)
  /\ \A c, b : V!CheckWhile(c, b) <=> VP!CheckWhile(c, b)
  /\ V!CheckBlock <=> VP!CheckBlock
  /\ V!CheckEmptyStmt <=> VP!CheckEmptyStmt
  /\ V!TrueArmDone <=> VP!TrueArmDone
  /\ V!StatementDone <=> VP!StatementDone
  /\ V!FunctionDone <=> VP!FunctionDone
  /\ V!Fail <=> VP!Fail
  /\ V!ProgramAccepted <=> VP!ProgramAccepted
  /\ V!Init <=> VP!Init
  <1>1. ASSUME NEW f PROVE V!CheckFunctionDeclaration(f) <=> VP!CheckFunctionDeclaration(f)
    BY DEF V!CheckFunctionDeclaration, VP!CheckFunctionDeclaration, V!NextDeclaration,
       VP!NextDeclaration, V!IsOverload, VP!IsOverload, V!SameDeclaration, VP!SameDeclaration,
       V!FindFunction, VP!FindFunction, V!Min, VP!Min, V!addFunction, VP!addFunction, V!Insert,
       VP!Insert
  <1>2. ASSUME NEW f PROVE V!CheckFunction(f) <=> VP!CheckFunction(f)
    BY DEF V!CheckFunction, VP!CheckFunction, V!NextDeclaration, VP!NextDeclaration, V!IsOverload,
       VP!IsOverload, V!SameDeclaration, VP!SameDeclaration, V!FindFunction, VP!FindFunction, V!Min,
       VP!Min, V!addFunction, VP!addFunction, V!Insert, VP!Insert, V!RepeatedArgument,
       VP!RepeatedArgument, V!OpenBody, VP!OpenBody, V!ArgsDistinct, VP!ArgsDistinct, V!ArgScope,
       VP!ArgScope, V!Range, VP!Range, V!EmptyScope, VP!EmptyScope, V!EmptyMap, VP!EmptyMap, V!Open,
       VP!Open
  <1>3. ASSUME NEW n, NEW t PROVE V!CheckVarDecl(n, t) <=> VP!CheckVarDecl(n, t)
    BY DEF V!CheckVarDecl, VP!CheckVarDecl, V!NextStatement, VP!NextStatement, V!InList, VP!InList,
       V!Top, VP!Top, V!FindVariableInCurrentScope, VP!FindVariableInCurrentScope, V!Answer,
       VP!Answer, V!addVariable, VP!addVariable, V!Insert, VP!Insert
  <1>4. ASSUME NEW n, NEW d PROVE V!CheckAssign(d, n) <=> VP!CheckAssign(d, n)
    BY DEF V!CheckAssign, VP!CheckAssign, V!NextStatement, VP!NextStatement, V!InList, VP!InList,
       V!Top, VP!Top, V!FindVariable, VP!FindVariable, V!Min, VP!Min, V!Answer, VP!Answer,
       V!addVariable, VP!addVariable, V!Insert, VP!Insert
  <1>5. ASSUME NEW e PROVE V!CheckReturn(e) <=> VP!CheckReturn(e)
    BY DEF V!CheckReturn, VP!CheckReturn, V!NextStatement, VP!NextStatement, V!InList, VP!InList,
       V!Top, VP!Top, V!Answer, VP!Answer
  <1>6. ASSUME NEW e PROVE V!CheckExprStmt(e) <=> VP!CheckExprStmt(e)
    BY DEF V!CheckExprStmt, VP!CheckExprStmt, V!NextStatement, VP!NextStatement, V!InList,
       VP!InList, V!Top, VP!Top, V!Answer, VP!Answer
  <1>7. ASSUME NEW c, NEW t, NEW f PROVE V!CheckIf(c, t, f) <=> VP!CheckIf(c, t, f)
    BY DEF V!CheckIf, VP!CheckIf, V!IsCondition, VP!IsCondition, V!NextStatement, VP!NextStatement,
       V!InList, VP!InList, V!Top, VP!Top, V!Answer, VP!Answer, V!Call, VP!Call, V!OpenTrue,
       VP!OpenTrue, V!Open, VP!Open, V!PushScope, VP!PushScope, V!EmptyScope, VP!EmptyScope,
       V!EmptyMap, VP!EmptyMap
  <1>8. ASSUME NEW c, NEW b PROVE V!CheckWhile(c, b) <=> VP!CheckWhile(c, b)
    BY DEF V!CheckWhile, VP!CheckWhile, V!IsCondition, VP!IsCondition, V!NextStatement,
       VP!NextStatement, V!InList, VP!InList, V!Top, VP!Top, V!Answer, VP!Answer, V!Call, VP!Call,
       V!Open, VP!Open, V!PushScope, VP!PushScope, V!EmptyScope, VP!EmptyScope, V!EmptyMap,
       VP!EmptyMap
  <1>9. V!CheckBlock <=> VP!CheckBlock
    BY DEF V!CheckBlock, VP!CheckBlock, V!NextStatement, VP!NextStatement, V!InList, VP!InList,
       V!Top, VP!Top, V!Call, VP!Call, V!Open, VP!Open, V!PushScope, VP!PushScope, V!EmptyScope,
       VP!EmptyScope, V!EmptyMap, VP!EmptyMap
  <1>10. V!CheckEmptyStmt <=> VP!CheckEmptyStmt
    BY DEF V!CheckEmptyStmt, VP!CheckEmptyStmt, V!NextStatement, VP!NextStatement, V!InList,
       VP!InList, V!Top, VP!Top, V!Answer, VP!Answer
  <1>11. V!TrueArmDone <=> VP!TrueArmDone
    BY DEF V!TrueArmDone, VP!TrueArmDone, V!Top, VP!Top, V!Open, VP!Open, V!PushScope, VP!PushScope,
       V!EmptyScope, VP!EmptyScope, V!EmptyMap, VP!EmptyMap, V!GetParent, VP!GetParent
  <1>12. V!StatementDone <=> VP!StatementDone
    BY DEF V!StatementDone, VP!StatementDone, V!ChildDone, VP!ChildDone, V!Top, VP!Top, V!GetParent,
       VP!GetParent
  <1>13. V!FunctionDone <=> VP!FunctionDone
    BY DEF V!FunctionDone, VP!FunctionDone, V!Top, VP!Top, V!GetParent, VP!GetParent
  <1>14. V!Fail <=> VP!Fail
    BY DEF V!Fail, VP!Fail, V!GetParent, VP!GetParent
  <1>15. V!ProgramAccepted <=> VP!ProgramAccepted
    BY DEF V!ProgramAccepted, VP!ProgramAccepted, V!NextDeclaration, VP!NextDeclaration
  <1>16. V!Init <=> VP!Init
    BY DEF V!Init, VP!Init, V!EmptyScope, VP!EmptyScope, V!EmptyMap, VP!EmptyMap
  <1>. QED
    BY <1>1, <1>2, <1>3, <1>4, <1>5, <1>6, <1>7, <1>8, <1>9, <1>10, <1>11, <1>12, <1>13, <1>14, <1>15, <1>16

-----------------------------------------------------------------------------
(* Code generation: what its steps do to the module and to the allocas.    *)

Kept == module' = module /\ fn' = fn /\ NamedValues' = NamedValues

Quiet == Kept /\ AllocaValues' = AllocaValues

\* CreateAlloca.
Put(n, type) ==
  /\ Kept
  /\ AllocaValues' = Insert(AllocaValues, Mangle(fn, n), [fn |-> fn, name |-> n, type |-> type])

LEMMA GenerationSteps ==
  /\ \A n, type : C!GenerateVarDecl(n, type) =>
       fn # Null /\ status = "running" /\ status' = "running" /\ Put(n, type)
  /\ \A n, decl, value : C!GenerateAssign(decl, n, value) =>
       /\ fn # Null /\ status = "running"
       /\ \/ status' = "crashed" /\ Quiet
          \/ status' = "running" /\ IF decl = Null THEN Quiet ELSE Put(n, decl)
  /\ \A value : C!GenerateReturn(value) => fn # Null /\ status = "running" /\ Quiet
  /\ \A expr : C!GenerateExprStmt(expr) => fn # Null /\ status = "running" /\ Quiet
  /\ \A cond, tru, fals : C!GenerateIf(cond, tru, fals) => fn # Null /\ status = "running" /\ Quiet
  /\ \A cond, hasBody : C!GenerateWhile(cond, hasBody) => fn # Null /\ status = "running" /\ Quiet
  /\ C!GenerateBlock \/ C!BlockDone \/ C!WhileDone \/ C!ThenDone \/ C!ElseDone =>
       status = "running" /\ Quiet
  <1>1. ASSUME NEW n, NEW type, C!GenerateVarDecl(n, type)
        PROVE  fn # Null /\ status = "running" /\ status' = "running" /\ Put(n, type)
    BY <1>1 DEF C!GenerateVarDecl, C!NextStatement, C!CreateAlloca, C!Insert, C!Proceed, Put, Kept, Insert
  <1>2. ASSUME NEW n, NEW decl, NEW value, C!GenerateAssign(decl, n, value)
        PROVE  /\ fn # Null /\ status = "running"
               /\ \/ status' = "crashed" /\ Quiet
                  \/ status' = "running" /\ IF decl = Null THEN Quiet ELSE Put(n, decl)
    <2>1. fn # Null /\ status = "running"
      BY <1>2 DEF C!GenerateAssign, C!NextStatement
    <2>2. \/ C!Crash
          \/ /\ C!Proceed
             /\ AllocaValues' = IF decl = Null THEN AllocaValues ELSE C!CreateAlloca(n, decl)
      BY <1>2 DEF C!GenerateAssign
    <2>3. CASE C!Crash
      BY <2>1, <2>3 DEF C!Crash, C!globals, Quiet, Kept
    <2>4. CASE /\ C!Proceed
               /\ AllocaValues' = IF decl = Null THEN AllocaValues ELSE C!CreateAlloca(n, decl)
      BY <2>1, <2>4 DEF C!Proceed, C!CreateAlloca, C!Insert, Quiet, Put, Kept, Insert
    <2>. QED
      BY <2>1, <2>2, <2>3, <2>4
  <1>3. ASSUME NEW value, C!GenerateReturn(value)
        PROVE  fn # Null /\ status = "running" /\ Quiet
    BY <1>3 DEF C!GenerateReturn, C!NextStatement, C!Proceed, C!Crash, C!globals, Quiet, Kept
  <1>4. ASSUME NEW expr, C!GenerateExprStmt(expr)
        PROVE  fn # Null /\ status = "running" /\ Quiet
    BY <1>4 DEF C!GenerateExprStmt, C!NextStatement, C!Proceed, C!Crash, C!globals, Quiet, Kept
  <1>5. ASSUME NEW cond, NEW tru, NEW fals, C!GenerateIf(cond, tru, fals)
        PROVE  fn # Null /\ status = "running" /\ Quiet
    BY <1>5 DEF C!GenerateIf, C!NextStatement, C!Enter, C!Crash, C!globals, Quiet, Kept
  <1>6. ASSUME NEW cond, NEW hasBody, C!GenerateWhile(cond, hasBody)
        PROVE  fn # Null /\ status = "running" /\ Quiet
    BY <1>6 DEF C!GenerateWhile, C!NextStatement, C!Enter, C!Crash, C!globals, Quiet, Kept
  <1>7. ASSUME C!GenerateBlock \/ C!BlockDone
        PROVE  status = "running" /\ Quiet
    BY <1>7 DEF C!GenerateBlock, C!NextStatement, C!Enter, C!BlockDone, C!Leave, C!globals, Quiet, Kept
  <1>8. ASSUME C!WhileDone \/ C!ElseDone
        PROVE  status = "running" /\ Quiet
    BY <1>8 DEF C!WhileDone, C!ElseDone, C!ChildDone, C!Leave, C!globals, Quiet, Kept
  <1>9. ASSUME C!ThenDone
        PROVE  status = "running" /\ Quiet
    BY <1>9 DEF C!ThenDone, C!ChildDone, C!Crash, C!globals, Quiet, Kept
  <1>. QED
    BY <1>1, <1>2, <1>3, <1>4, <1>5, <1>6, <1>7, <1>8, <1>9

-----------------------------------------------------------------------------
(* The invariant.                                                          *)

\* The module has the functions that the root scope has.
SameFunctions ==
  /\ DOMAIN module = DOMAIN VP!Root(table)
  /\ \A name \in DOMAIN module :
       /\ module[name].args = VP!Root(table)[name].args
       /\ module[name].ret = VP!Root(table)[name].ret

\* The function that is generated is the one that is checked.
SameFunction ==
  /\ fn # Null => /\ fn \in FunctionNames /\ fn \in DOMAIN module
                  /\ NamedValues = ArgNames(module[fn].args)
  /\ fn # Null /\ status = "running" => frames # << >> /\ currentFunction.name = fn

HasAlloca(n) == n \in DOMAIN AllocaValues \/ Mangle(fn, n) \in DOMAIN AllocaValues

\* Every variable in the scopes is an argument, of the declaration that is
\* checked or of the one that is generated, or has an alloca.
InBody == fn # Null /\ status = "running"

Means(d) == d[1] \in NamedValues \/ HasAlloca(d[1]) \/ Renamed(d[1])

AllocasMade  == \A key \in DOMAIN AllocaValues : AllocaValues[key] \in Allocas
DeclsHeld    == InBody => \A d \in VP!Decls(table) : Means(d)

CInv == VP!Rooted /\ SameFunctions /\ SameFunction /\ AllocasMade /\ DeclsHeld

LEMMA InitCInv == Init => CInv
  <1>. SUFFICES ASSUME Init PROVE CInv
    OBVIOUS
  <1>1. VP!Init
    BY SameActions DEF Init
  <1>2. VP!IInv
    BY <1>1, VP!InitIInv, SameNodes
  <1>3. /\ table = << [variables |-> EmptyMap, functions |-> EmptyMap] >> /\ fn = Null /\ module = EmptyMap
        /\ AllocaValues = EmptyMap
    BY DEF Init, V!Init, C!Init, V!EmptyScope, V!EmptyMap, C!EmptyMap, EmptyMap
  <1>4. VP!Bare(table) /\ DOMAIN VP!Root(table) = {}
    BY <1>3 DEF VP!Bare, VP!Root, EmptyMap
  <1>. QED
    BY <1>2, <1>3, <1>4 DEF CInv, VP!Rooted, SameFunctions, SameFunction, AllocasMade, DeclsHeld, InBody, EmptyMap

\* A step of a statement that both passes take: it declares D in the scopes,
\* and has allocas for D.
LEMMA InsideStep ==
  ASSUME CInv, VP!Rooted', NEW D, VP!Declares(D), Kept, status = "running",
         AllocasMade', DOMAIN AllocaValues \subseteq DOMAIN AllocaValues',
         fn # Null => \A d \in D : HasAlloca(d[1])'
  PROVE  CInv'
  <1>1. SameFunctions'
    BY DEF CInv, SameFunctions, Kept, VP!Declares
  <1>2. SameFunction'
    BY DEF CInv, SameFunction, Kept, VP!Declares
  <1>3. ASSUME InBody'
        PROVE  InBody
    BY <1>3 DEF InBody, Kept
  <1>. currentFunction' = currentFunction /\ NamedValues' = NamedValues
    BY DEF Kept, VP!Declares
  <1>4. ASSUME InBody', NEW d \in VP!Decls(table')
        PROVE  Means(d)'
    <2>1. CASE d \in VP!Decls(table)
      BY <1>3, <1>4, <2>1 DEF CInv, DeclsHeld, Means, HasAlloca, Renamed, Kept
    <2>2. CASE d \in D
      BY <1>4, <2>2 DEF Means, InBody, Kept
    <2>. QED
      BY <1>4, <2>1, <2>2 DEF VP!Declares
  <1>5. DeclsHeld'
    BY <1>4 DEF DeclsHeld, VP!Decls
  <1>. QED
    BY <1>1, <1>2, <1>5 DEF CInv

LEMMA QuietStep ==
  ASSUME CInv, VP!Rooted', VP!Declares({}), Quiet, status = "running"
  PROVE  CInv'
  <1>1. AllocasMade' /\ Kept /\ DOMAIN AllocaValues \subseteq DOMAIN AllocaValues'
    BY DEF CInv, AllocasMade, Quiet
  <1>. QED
    BY <1>1, InsideStep

LEMMA PutStep ==
  ASSUME CInv, VP!Rooted', NEW n \in VarNames, NEW type \in VarTypes,
         VP!Declares({<< n, type >>}), Put(n, type), status = "running", fn # Null
  PROVE  CInv'
  <1>. DEFINE key == Mangle(fn, n)
              alloca == [fn |-> fn, name |-> n, type |-> type]
  <1>1. Kept /\ AllocaValues' = Insert(AllocaValues, key, alloca)
    BY DEF Put
  <1>2. alloca \in Allocas
    BY DEF CInv, SameFunction, Allocas
  <1>. HIDE DEF key, alloca
  <1>3. /\ DOMAIN AllocaValues' = DOMAIN AllocaValues \cup {key}
        /\ \A k \in DOMAIN AllocaValues' : AllocaValues'[k] \in {alloca, AllocaValues[k]}
        /\ \A k \in DOMAIN AllocaValues : AllocaValues'[k] = AllocaValues[k]
    BY <1>1 DEF Insert
  <1>4. AllocasMade'
    <2>1. ASSUME NEW k \in DOMAIN AllocaValues'
          PROVE  AllocaValues'[k] \in Allocas
      <3>1. CASE k \in DOMAIN AllocaValues
        BY <1>3, <3>1 DEF CInv, AllocasMade
      <3>2. CASE k \notin DOMAIN AllocaValues
        <4>1. k = key /\ AllocaValues' = [j \in DOMAIN AllocaValues \cup {key} |->
                           IF j \in DOMAIN AllocaValues THEN AllocaValues[j] ELSE alloca]
          BY <1>1, <1>3, <3>2 DEF Insert
        <4>. QED
          BY <1>2, <3>2, <4>1
      <3>. QED
        BY <3>1, <3>2
    <2>. QED
      BY <2>1 DEF AllocasMade
  <1>5. HasAlloca(n)'
    BY <1>1, <1>3 DEF HasAlloca, Kept, key
  <1>6. \A d \in {<< n, type >>} : HasAlloca(d[1])'
    BY <1>5
  <1>7. DOMAIN AllocaValues \subseteq DOMAIN AllocaValues'
    BY <1>3
  <1>. QED
    BY <1>1, <1>4, <1>6, <1>7, InsideStep

-----------------------------------------------------------------------------
(* The steps.                                                              *)

\* A fragment is a program.
LEMMA FragmentIsProgram == KindNext => Next
  BY DEF KindNext, FragmentNext, FragmentStatement, Next, Statement, Structure

\* Every step of the Compiler that the Validator takes part in is one of it.
LEMMA ValidatorSteps ==
  ASSUME [Next]_vars
  PROVE  [VP!Next]_VP!vars
  <1>1. UNCHANGED validation => UNCHANGED VP!vars
    BY DEF validation, VP!vars
  <1>2. CASE UNCHANGED vars
    BY <1>1, <1>2 DEF vars
  <1>3. V!Statement => VP!Statement
    BY SameActions DEF V!Statement, VP!Statement
  <1>4. V!Return => VP!Return
    BY SameActions DEF V!Return, VP!Return
  <1>5. VP!Statement \/ VP!Return => VP!Next
    BY DEF VP!Next
  <1>6. ASSUME NEW f \in Functions, Declaration(f) \/ Definition(f)
        PROVE  VP!Next
    BY <1>6, SameActions DEF Declaration, Definition, VP!Next
  <1>7. CASE Statement
    <2>1. V!Statement
      BY <1>7 DEF Statement, VarDecl, Assign, ReturnValue, ReturnVoid, ExprStmt, If, While, V!Statement
    <2>. QED
      BY <1>3, <1>5, <2>1
  <1>8. CASE Structure
    <2>1. Block => V!Statement
      BY DEF Block, V!Statement
    <2>2. EndOfBlock \/ EndOfLoop \/ EndOfThen \/ EndOfElse \/ EndOfFunction => V!Return
      BY DEF EndOfBlock, EndOfLoop, EndOfThen, EndOfElse, EndOfFunction, V!Return
    <2>3. EndOfProgram => VP!Next
      BY SameActions DEF EndOfProgram, VP!Next
    <2>4. UngeneratedBody => V!Statement \/ V!Return
      BY DEF UngeneratedBody
    <2>5. AfterCrash => V!Statement \/ V!Return \/ VP!Next
      BY SameActions DEF AfterCrash, V!Statement, VP!Next
    <2>. QED
      BY <1>3, <1>4, <1>5, <1>8, <2>1, <2>2, <2>3, <2>4, <2>5 DEF Structure
  <1>9. CASE Done
    BY <1>1, <1>9 DEF Done, vars
  <1>. QED
    BY <1>2, <1>6, <1>7, <1>8, <1>9 DEF Next

\* A declaration, or the beginning of a definition, that both passes take.
LEMMA FunctionStep ==
  ASSUME CInv, VP!Rooted', NEW f \in Functions,
         VP!Root(table') = Insert(VP!Root(table), f.name, f),
         module' = Insert(module, f.name, C!Declared(f)), AllocaValues' = AllocaValues
  PROVE  /\ SameFunctions' /\ AllocasMade'
         /\ f.name \in DOMAIN module'
  <1>1. AllocasMade'
    BY DEF CInv, AllocasMade
  <1>2. C!Declared(f).args = f.args /\ C!Declared(f).ret = f.ret
    BY DEF C!Declared
  <1>3. /\ DOMAIN module' = DOMAIN module \cup {f.name}
        /\ \A name \in DOMAIN module' :
             module'[name] = IF name \in DOMAIN module THEN module[name] ELSE C!Declared(f)
    BY DEF Insert
  <1>4. /\ DOMAIN VP!Root(table') = DOMAIN VP!Root(table) \cup {f.name}
        /\ \A name \in DOMAIN VP!Root(table') :
             VP!Root(table')[name] = IF name \in DOMAIN VP!Root(table) THEN VP!Root(table)[name] ELSE f
    BY DEF Insert
  <1>5. DOMAIN module = DOMAIN VP!Root(table)
    BY DEF CInv, SameFunctions
  <1>6. ASSUME NEW name \in DOMAIN module'
        PROVE  /\ module'[name].args = VP!Root(table')[name].args
               /\ module'[name].ret = VP!Root(table')[name].ret
    <2>1. CASE name \in DOMAIN module
      BY <1>3, <1>4, <1>5, <2>1 DEF CInv, SameFunctions
    <2>2. CASE name \notin DOMAIN module
      <3>1. name = f.name /\ module'[name] = C!Declared(f)
        BY <1>3, <2>2
      <3>2. VP!Root(table')[name] = f
        BY <1>3, <1>4, <1>5, <2>2
      <3>. QED
        BY <1>2, <3>1, <3>2
    <2>. QED
      BY <2>1, <2>2
  <1>7. SameFunctions'
    BY <1>3, <1>4, <1>5, <1>6 DEF SameFunctions
  <1>. QED
    BY <1>1, <1>3, <1>7

\* The arguments of a function are declared in its scope, and only they.
LEMMA ArgsDeclared ==
  ASSUME NEW f \in Functions, NEW d \in VP!ArgDecls(f)
  PROVE  d[1] \in ArgNames(f.args)
  <1>. DEFINE names == {f.args[i].name : i \in DOMAIN f.args}
              type(name) == (CHOOSE a \in VP!Range(f.args) : a.name = name).type
  <1>1. VP!ArgScope(f) = [VP!EmptyScope EXCEPT !.variables = [name \in names |-> type(name)]]
    BY DEF VP!ArgScope
  <1>. HIDE DEF type
  <1>2. DOMAIN VP!ArgScope(f).variables = names
    BY <1>1 DEF VP!EmptyScope
  <1>3. PICK n \in names : d = << n, VP!ArgScope(f).variables[n] >>
    BY <1>2 DEF VP!ArgDecls, VP!DeclsOf
  <1>4. PICK i \in DOMAIN f.args : n = f.args[i].name
    BY <1>3
  <1>5. f.args[i] \in Range(f.args)
    BY DEF Range
  <1>. QED
    BY <1>3, <1>4, <1>5 DEF ArgNames

LEMMA StepCInv ==
  CInv /\ [Next]_vars => CInv'
  <1>. SUFFICES ASSUME CInv, [Next]_vars PROVE CInv'
    OBVIOUS
  <1>0. VP!Rooted /\ VP!Rooted' /\ VP!NodesAssumption
    BY ValidatorSteps, VP!RootedNext, SameNodes DEF CInv
  <1>1. CASE UNCHANGED vars
    BY <1>0, <1>1 DEF vars, validation, generation, CInv, SameFunctions, SameFunction, AllocasMade,
       DeclsHeld, InBody, Means, HasAlloca, Renamed, VP!Decls, VP!Root
  <1>2. ASSUME NEW f \in Functions, Declaration(f), ret' # "false"
        PROVE  CInv'
    <2>1. VP!CheckFunctionDeclaration(f)
      BY <1>2, SameActions DEF Declaration
    <2>2. /\ frames' = frames /\ currentFunction' = currentFunction
          /\ VP!Root(table') = VP!Insert(VP!Root(table), f.name, f)
      BY <1>0, <1>2, <2>1, VP!DeclsOutside
    <2>3. /\ module' = C!Insert(module, f.name, C!Declared(f)) /\ fn' = Null
          /\ AllocaValues' = AllocaValues
      BY <1>2 DEF Declaration, C!GenerateDeclaration
    <2>4. SameFunctions' /\ AllocasMade'
      BY <1>0, <2>2, <2>3, FunctionStep DEF VP!Insert, C!Insert, Insert
    <2>. QED
      BY <1>0, <2>3, <2>4 DEF CInv, SameFunction, DeclsHeld, InBody
  <1>3. ASSUME NEW f \in Functions, Definition(f), ret' # "false"
        PROVE  CInv'
    <2>1. VP!CheckFunction(f)
      BY <1>3, SameActions DEF Definition
    <2>2. /\ frames = << >> /\ frames' # << >> /\ currentFunction' = f
          /\ VP!Root(table') = VP!Insert(VP!Root(table), f.name, f)
          /\ VP!Decls(table') = VP!ArgDecls(f)
      BY <1>0, <1>3, <2>1, VP!DeclsOutside
    <2>3. CASE C!GenerateFunction(f)
      <3>1. /\ module' = C!Insert(module, f.name, C!Declared(f)) /\ fn' = f.name
            /\ AllocaValues' = AllocaValues
            /\ NamedValues' = {a.name : a \in C!Range(module'[f.name].args)}
        BY <2>3 DEF C!GenerateFunction
      <3>2. SameFunctions' /\ AllocasMade' /\ f.name \in DOMAIN module'
        BY <1>0, <2>2, <3>1, FunctionStep DEF VP!Insert, C!Insert, Insert
      <3>3. NamedValues' = ArgNames(module'[f.name].args)
        BY <3>1 DEF ArgNames, C!Range, Range
      <3>4. SameFunction'
        BY <2>2, <3>1, <3>2, <3>3 DEF SameFunction, FunctionNames
      <3>5. ASSUME InBody', NEW d \in VP!Decls(table')
            PROVE  Means(d)'
        <4>1. d[1] \in ArgNames(f.args)
          BY <2>2, ArgsDeclared
        <4>2. currentFunction'.args = f.args
          BY <2>2
        <4>. QED
          BY <4>1, <4>2 DEF Means, Renamed
      <3>6. DeclsHeld'
        BY <3>5 DEF DeclsHeld, VP!Decls
      <3>. QED
        BY <1>0, <3>2, <3>4, <3>6 DEF CInv
    <2>4. CASE C!HasBody(f.name) /\ UNCHANGED generation
      <3>1. /\ module' = module /\ fn' = fn /\ NamedValues' = NamedValues /\ AllocaValues' = AllocaValues
            /\ status' = status
        BY <2>4 DEF generation
      <3>2. f.name \in DOMAIN VP!Root(table)
        BY <2>4 DEF C!HasBody, CInv, SameFunctions
      <3>3. /\ DOMAIN VP!Root(table') = DOMAIN VP!Root(table)
            /\ \A name \in DOMAIN VP!Root(table) : VP!Root(table')[name] = VP!Root(table)[name]
        BY <2>2, <3>2 DEF VP!Insert
      <3>4. ~ (fn # Null /\ status = "running")
        BY <2>2 DEF CInv, SameFunction
      <3>5. SameFunctions'
        BY <3>1, <3>3 DEF CInv, SameFunctions
      <3>6. SameFunction'
        BY <3>1, <3>4 DEF CInv, SameFunction
      <3>. QED
        BY <1>0, <3>1, <3>4, <3>5, <3>6 DEF CInv, AllocasMade, DeclsHeld, InBody
    <2>. QED
      BY <1>3, <2>3, <2>4 DEF Definition
  <1>4. CASE Statement
    <2>1. ASSUME NEW n \in VarNames, NEW type \in VarTypes, VarDecl(n, type)
          PROVE  CInv'
      <3>1. VP!CheckVarDecl(n, type)
        BY <2>1, SameActions DEF VarDecl
      <3>2. VP!Declares({<< n, type >>})
        BY <1>0, <3>1, VP!DeclsInside
      <3>3. fn # Null /\ status = "running" /\ Put(n, type)
        BY <2>1, GenerationSteps DEF VarDecl
      <3>. QED
        BY <1>0, <3>2, <3>3, PutStep
    <2>2. ASSUME NEW decl \in VarTypes \cup {Null}, NEW n \in VarNames, NEW e, Assign(decl, n, e)
          PROVE  CInv'
      <3>1. VP!CheckAssign(decl, n)
        BY <2>2, SameActions DEF Assign
      <3>2. VP!Declares(IF decl = Null THEN {} ELSE {<< n, decl >>})
        BY <1>0, <3>1, VP!DeclsInside
      <3>3. /\ fn # Null /\ status = "running"
            /\ \/ status' = "crashed" /\ Quiet
               \/ status' = "running" /\ IF decl = Null THEN Quiet ELSE Put(n, decl)
        BY <2>2, GenerationSteps DEF Assign
      <3>4. CASE Quiet /\ decl = Null
        BY <1>0, <3>2, <3>3, <3>4, QuietStep
      <3>5. CASE Put(n, decl) /\ decl # Null
        BY <1>0, <3>2, <3>3, <3>5, PutStep
      <3>6. CASE status' = "crashed" /\ Quiet
        <4>1. SameFunctions' /\ SameFunction' /\ AllocasMade'
          BY <3>2, <3>6 DEF CInv, SameFunctions, SameFunction, AllocasMade, Quiet, Kept, VP!Declares
        <4>. QED
          BY <1>0, <3>6, <4>1 DEF CInv, DeclsHeld, InBody
      <3>. QED
        BY <3>3, <3>4, <3>5, <3>6
    <2>3. ASSUME NEW e, ReturnValue(e) \/ ExprStmt(e)
          PROVE  CInv'
      <3>1. (\E r : VP!CheckReturn(r)) \/ VP!CheckExprStmt(e)
        BY <2>3, SameActions DEF ReturnValue, ExprStmt
      <3>2. VP!Declares({})
        BY <1>0, <3>1, VP!DeclsInside
      <3>3. Quiet /\ status = "running"
        BY <2>3, GenerationSteps DEF ReturnValue, ExprStmt
      <3>. QED
        BY <1>0, <3>2, <3>3, QuietStep
    <2>4. CASE ReturnVoid
      <3>1. VP!CheckReturn(Null)
        BY <2>4, SameActions DEF ReturnVoid
      <3>2. VP!Declares({})
        BY <1>0, <3>1, VP!DeclsInside
      <3>3. Quiet /\ status = "running"
        BY <2>4, GenerationSteps DEF ReturnVoid
      <3>. QED
        BY <1>0, <3>2, <3>3, QuietStep
    <2>5. ASSUME NEW cond, NEW tru, NEW fals, If(cond, tru, fals)
          PROVE  CInv'
      <3>1. VP!CheckIf(cond, tru, fals)
        BY <2>5, SameActions DEF If
      <3>2. VP!Declares({})
        BY <1>0, <3>1, VP!DeclsInside
      <3>3. Quiet /\ status = "running"
        BY <2>5, GenerationSteps DEF If
      <3>. QED
        BY <1>0, <3>2, <3>3, QuietStep
    <2>6. ASSUME NEW cond, NEW hasBody, While(cond, hasBody)
          PROVE  CInv'
      <3>1. VP!CheckWhile(cond, hasBody)
        BY <2>6, SameActions DEF While
      <3>2. VP!Declares({})
        BY <1>0, <3>1, VP!DeclsInside
      <3>3. Quiet /\ status = "running"
        BY <2>6, GenerationSteps DEF While
      <3>. QED
        BY <1>0, <3>2, <3>3, QuietStep
    <2>. QED
      BY <1>4, <2>1, <2>2, <2>3, <2>4, <2>5, <2>6 DEF Statement
  <1>5. CASE Block \/ EndOfBlock \/ EndOfLoop \/ EndOfThen \/ EndOfElse
    <2>1. VP!CheckBlock \/ VP!TrueArmDone \/ VP!StatementDone
      BY <1>5, SameActions DEF Block, EndOfBlock, EndOfLoop, EndOfThen, EndOfElse
    <2>2. VP!Declares({})
      BY <1>0, <2>1, VP!DeclsInside
    <2>3. Quiet /\ status = "running"
      BY <1>5, GenerationSteps DEF Block, EndOfBlock, EndOfLoop, EndOfThen, EndOfElse
    <2>. QED
      BY <1>0, <2>2, <2>3, QuietStep
  <1>6. CASE EndOfFunction
    <2>1. VP!FunctionDone
      BY <1>6, SameActions DEF EndOfFunction
    <2>2. VP!Root(table') = VP!Root(table)
      BY <1>0, <2>1, VP!DeclsOutside
    <2>3. /\ fn' = Null /\ AllocaValues' = AllocaValues
          /\ module' = [module EXCEPT ![fn].state = IF C!Verifies THEN "verified" ELSE "broken"]
      BY <1>6 DEF EndOfFunction, C!FunctionDone
    <2>4. /\ DOMAIN module' = DOMAIN module
          /\ \A name \in DOMAIN module : module'[name].args = module[name].args /\ module'[name].ret = module[name].ret
      BY <2>3
    <2>5. SameFunctions'
      BY <2>2, <2>4 DEF CInv, SameFunctions
    <2>. QED
      BY <1>0, <2>3, <2>5 DEF CInv, SameFunction, AllocasMade, DeclsHeld, InBody
  <1>7. CASE EndOfProgram
    <2>1. table' = table
      BY <1>7 DEF EndOfProgram, V!ProgramAccepted
    <2>2. Quiet /\ fn = Null
      BY <1>7 DEF EndOfProgram, C!ProgramDone, C!globals, Quiet, Kept
    <2>. QED
      BY <1>0, <2>1, <2>2 DEF CInv, SameFunctions, SameFunction, AllocasMade, DeclsHeld, InBody, Quiet, Kept
  <1>8. CASE (UngeneratedBody \/ AfterCrash) /\ ret' # "false"
    <2>1. Quiet /\ status' = status /\ ~ (fn # Null /\ status = "running")
      BY <1>8 DEF UngeneratedBody, AfterCrash, generation, Quiet, Kept
    <2>2. \/ VP!Statement
          \/ VP!TrueArmDone \/ VP!StatementDone \/ VP!FunctionDone
          \/ VP!ProgramAccepted
      <3>1. V!Fail => ret' = "false"
        BY DEF V!Fail
      <3>. QED
        BY <1>8, <3>1, SameActions DEF UngeneratedBody, AfterCrash, V!Statement, VP!Statement, V!Return
    <2>3. VP!Root(table') = VP!Root(table)
      <3>1. VP!Statement => \E D : VP!Declares(D)
        BY <1>0, VP!DeclsInside DEF VP!Statement
      <3>2. VP!TrueArmDone \/ VP!StatementDone => VP!Declares({})
        BY <1>0, VP!DeclsInside
      <3>3. VP!FunctionDone => VP!Root(table') = VP!Root(table)
        BY <1>0, VP!DeclsOutside
      <3>4. VP!ProgramAccepted => table' = table
        BY DEF VP!ProgramAccepted
      <3>. QED
        BY <2>2, <3>1, <3>2, <3>3, <3>4 DEF VP!Declares
    <2>. QED
      BY <1>0, <2>1, <2>3 DEF CInv, SameFunctions, SameFunction, AllocasMade, DeclsHeld, InBody, Quiet, Kept
  <1>9. CASE Done
    BY <1>1, <1>9 DEF Done
  <1>. QED
    BY <1>1, <1>2, <1>3, <1>4, <1>5, <1>6, <1>7, <1>8, <1>9 DEF Next, Structure

-----------------------------------------------------------------------------
(* Names.                                                                  *)

LEMMA SameFind ==
  /\ \A t, n : FindVariable(t, n) = VP!FindVariable(t, n)
  /\ \A t, n : FindFunction(t, n) = VP!FindFunction(t, n)
  BY DEF FindVariable, VP!FindVariable, FindFunction, VP!FindFunction, Min, VP!Min

\* A variable whose declaration has an alloca is found by FindAlloca.
LEMMA AllocaFound ==
  ASSUME CInv, NullApart, NEW n, HasAlloca(n)
  PROVE  C!FindAlloca(AllocaValues, n) # Null
  BY DEF CInv, AllocasMade, NullApart, HasAlloca, C!FindAlloca

LEMMA CInvMeans ==
  ASSUME CInv, NullApart
  PROVE  NamesAreGenerated
  <1>1. ASSUME fn # Null, status = "running",
               NEW n \in VarNames, FindVariable(table, n) # Null
        PROVE  n \in DOMAIN Now.named \cup DOMAIN Now.allocas \/ Renamed(n)
    <2>1. << n, VP!FindVariable(table, n) >> \in VP!Decls(table)
      <3>1. VP!Chain(table) /\ VP!FindVariable(table, n) # Null
        BY <1>1, SameFind DEF CInv, VP!Rooted, VP!IInv, VP!Consistent
      <3>. QED
        BY <3>1, VP!FoundIsDeclared, SameNodes
    <2>2. n \in NamedValues \/ HasAlloca(n) \/ Renamed(n)
      BY <1>1, <2>1 DEF CInv, DeclsHeld, InBody, Means
    <2>3. HasAlloca(n) => C!FindAlloca(AllocaValues, n) # Null
      BY AllocaFound
    <2>4. /\ DOMAIN Now.named = NamedValues
          /\ DOMAIN Now.allocas = {m \in VarNames : C!FindAlloca(AllocaValues, m) # Null}
      BY DEF Now, Env
    <2>. QED
      BY <1>1, <2>2, <2>3, <2>4
  <1>2. ASSUME NEW name \in FunctionNames, FindFunction(table, name) # Null
        PROVE  name \in DOMAIN module /\ module[name].args = FindFunction(table, name).args
    <2>1. VP!Chain(table) /\ VP!FindFunction(table, name) # Null
      BY <1>2, SameFind DEF CInv, VP!Rooted, VP!IInv, VP!Consistent
    <2>2. name \in DOMAIN VP!Root(table) /\ VP!FindFunction(table, name) = VP!Root(table)[name]
      BY <2>1, VP!FindInRoot, SameNodes
    <2>. QED
      BY <2>2, SameFind DEF CInv, SameFunctions
  <1>. QED
    BY <1>1, <1>2 DEF NamesAreGenerated, VisibleIsGenerated, CallableIsDeclared

\* Code generation, with maps that have no scopes, finds every name that the
\* Validator found in the scopes: "Undefined variable" and "Function does not
\* exist" (ExprAST.cpp) are for programs that were not accepted, and for the
\* arguments that an earlier declaration of the function names otherwise.
THEOREM NamesGenerated ==
  ASSUME NullApart
  PROVE  KindSpec => []NamesAreGenerated
  <1>1. KindInit => CInv
    BY InitCInv DEF KindInit
  <1>2. CInv /\ [KindNext]_<< kind, vars >> => CInv'
    <2>1. [KindNext]_<< kind, vars >> => [Next]_vars
      BY FragmentIsProgram
    <2>. QED
      BY <2>1, StepCInv
  <1>3. CInv => NamesAreGenerated
    BY CInvMeans
  <1>. QED
    BY <1>1, <1>2, <1>3, PTL DEF KindSpec

-----------------------------------------------------------------------------
(* Types, in the fragment.                                                 *)

\* A declaration in the scopes is that of an argument or, among these allocas,
\* of one of its type.
HasTypeIn(values, d) ==
  /\ d[1] \in VarNames
  /\ IF d[1] \in NamedValues
     THEN d[2] = Argument(d[1]).type
     ELSE LET alloca == C!FindAlloca(values, d[1])
          IN  alloca # Null /\ alloca.type = d[2]

Generating == kind = "fragment" /\ fn # Null /\ status = "running"

KeysMade == \A key \in DOMAIN AllocaValues : key \notin VarNames

\* The declaration LLVM has under the name is the one being defined: no other
\* one with other arguments came first.
OwnDeclaration ==
  /\ module[fn].args = currentFunction.args
  /\ module[fn].ret = currentFunction.ret

TypesHeld ==
  Generating => OwnDeclaration /\ \A d \in VP!Decls(table) : HasTypeIn(AllocaValues, d)

TInv == CInv /\ KeysMade /\ TypesHeld

\* Nothing is declared.
LEMMA QuietTypes ==
  ASSUME TInv, VP!Declares({}), Quiet, status = "running", UNCHANGED kind
  PROVE  KeysMade' /\ TypesHeld'
  <1>1. KeysMade'
    BY DEF TInv, KeysMade, Quiet
  <1>2. ASSUME Generating', NEW d \in VP!Decls(table')
        PROVE  HasTypeIn(AllocaValues, d)'
    <2>1. HasTypeIn(AllocaValues, d)
      BY <1>2 DEF TInv, TypesHeld, Generating, Quiet, Kept, VP!Declares
    <2>. QED
      BY <2>1 DEF HasTypeIn, Argument, C!FindAlloca, Quiet, Kept
  <1>3. Generating' => OwnDeclaration'
    BY DEF TInv, TypesHeld, Generating, OwnDeclaration, Quiet, Kept, VP!Declares
  <1>4. TypesHeld'
    BY <1>2, <1>3 DEF TypesHeld, VP!Decls
  <1>. QED
    BY <1>1, <1>4

\* An alloca is made: the declarations there are keep theirs, the new one has it.
LEMMA PutMeaning ==
  ASSUME TInv, NullApart, KeysAreNoNames, Generating,
         NEW n \in VarNames, NEW type \in VarTypes, OneType(n, type),
         NEW d \in VP!Decls(table) \cup {<< n, type >>}
  PROVE  HasTypeIn(C!CreateAlloca(n, type), d)
  <1>. DEFINE key == Mangle(fn, n)
              alloca == [fn |-> fn, name |-> n, type |-> type]
              values == C!CreateAlloca(n, type)
  <1>1. values = Insert(AllocaValues, key, alloca) /\ alloca.type = type
    BY DEF C!CreateAlloca, C!Insert, Insert
  <1>2. key \notin VarNames /\ key = Mangle(fn, n)
    BY DEF TInv, CInv, SameFunction, KeysAreNoNames, Generating
  <1>3. alloca # Null
    BY DEF TInv, CInv, SameFunction, Allocas, NullApart, Generating
  <1>. HIDE DEF key, alloca, values
  <1>4. /\ DOMAIN values = DOMAIN AllocaValues \cup {key}
        /\ \A k \in DOMAIN AllocaValues : values[k] = AllocaValues[k]
        /\ key \notin DOMAIN AllocaValues => values[key] = alloca
    BY <1>1 DEF Insert
  <1>5. \A m \in VarNames : m \notin DOMAIN AllocaValues /\ m \notin DOMAIN values
    BY <1>2, <1>4 DEF TInv, KeysMade
  <1>6. CASE d \in VP!Decls(table)
    <2>1. HasTypeIn(AllocaValues, d)
      BY <1>6 DEF TInv, TypesHeld
    <2>2. d[1] \notin DOMAIN AllocaValues /\ d[1] \notin DOMAIN values
      BY <1>5, <2>1 DEF HasTypeIn
    <2>3. C!FindAlloca(AllocaValues, d[1]) # Null =>
            C!FindAlloca(values, d[1]) = C!FindAlloca(AllocaValues, d[1])
      BY <1>4, <2>2 DEF C!FindAlloca
    <2>. QED
      BY <2>1, <2>3 DEF HasTypeIn, values
  <1>7. CASE d = << n, type >>
    <2>1. n \notin NamedValues /\ (C!FindAlloca(AllocaValues, n) # Null => C!FindAlloca(AllocaValues, n).type = type)
      BY DEF OneType
    <2>2. n \notin DOMAIN AllocaValues /\ n \notin DOMAIN values
      BY <1>5
    <2>3. C!FindAlloca(values, n) = values[key]
      BY <1>2, <1>4, <2>2 DEF C!FindAlloca
    <2>4. values[key] # Null /\ values[key].type = type
      <3>1. CASE key \in DOMAIN AllocaValues
        <4>1. C!FindAlloca(AllocaValues, n) = AllocaValues[key]
          BY <1>2, <2>2, <3>1 DEF C!FindAlloca
        <4>2. AllocaValues[key] # Null
          BY <3>1 DEF TInv, CInv, AllocasMade, NullApart
        <4>. QED
          BY <1>4, <2>1, <3>1, <4>1, <4>2
      <3>2. CASE key \notin DOMAIN AllocaValues
        BY <1>1, <1>3, <1>4, <3>2
      <3>. QED
        BY <3>1, <3>2
    <2>5. d[1] = n /\ d[2] = type
      BY <1>7
    <2>. QED
      BY <2>1, <2>3, <2>4, <2>5 DEF HasTypeIn, values
  <1>. QED
    BY <1>6, <1>7

LEMMA PutTypes ==
  ASSUME TInv, NullApart, KeysAreNoNames, UNCHANGED kind,
         NEW n \in VarNames, NEW type \in VarTypes,
         VP!Declares({<< n, type >>}), Put(n, type), status = "running", fn # Null,
         Generating => OneType(n, type)
  PROVE  KeysMade' /\ TypesHeld'
  <1>1. Kept /\ AllocaValues' = C!CreateAlloca(n, type)
    BY DEF Put, C!CreateAlloca, C!Insert, Insert
  <1>2. Mangle(fn, n) \notin VarNames
    BY DEF TInv, CInv, SameFunction, KeysAreNoNames
  <1>3. DOMAIN AllocaValues' = DOMAIN AllocaValues \cup {Mangle(fn, n)}
    BY DEF Put, Insert
  <1>4. KeysMade'
    BY <1>2, <1>3 DEF TInv, KeysMade
  <1>5. ASSUME Generating', NEW d \in VP!Decls(table')
        PROVE  HasTypeIn(AllocaValues, d)'
    <2>1. Generating
      BY <1>1, <1>5 DEF Generating, Kept
    <2>2. d \in VP!Decls(table) \cup {<< n, type >>}
      BY <1>5 DEF VP!Declares
    <2>3. HasTypeIn(C!CreateAlloca(n, type), d)
      BY <2>1, <2>2, PutMeaning
    <2>. QED
      BY <1>1, <2>3 DEF HasTypeIn, Argument, C!FindAlloca, Kept
  <1>6. Generating' => OwnDeclaration'
    BY <1>1 DEF TInv, TypesHeld, Generating, OwnDeclaration, Kept, VP!Declares
  <1>7. TypesHeld'
    BY <1>5, <1>6 DEF TypesHeld, VP!Decls
  <1>. QED
    BY <1>4, <1>7

\* The declarations of the arguments have the types Argument finds for them.
LEMMA ArgsTyped ==
  ASSUME NEW f \in Functions, NEW d \in VP!ArgDecls(f)
  PROVE  /\ d[1] \in VarNames /\ d[1] \in ArgNames(f.args)
         /\ d[2] = (CHOOSE a \in Range(f.args) : a.name = d[1]).type
  <1>. DEFINE names == {f.args[i].name : i \in DOMAIN f.args}
              type(name) == (CHOOSE a \in VP!Range(f.args) : a.name = name).type
  <1>1. VP!ArgScope(f) = [VP!EmptyScope EXCEPT !.variables = [name \in names |-> type(name)]]
    BY DEF VP!ArgScope
  <1>2. \A n : type(n) = (CHOOSE a \in Range(f.args) : a.name = n).type
    BY DEF Range, VP!Range
  <1>. HIDE DEF type
  <1>3. VP!ArgScope(f).variables = [name \in names |-> type(name)]
    BY <1>1 DEF VP!EmptyScope
  <1>4. PICK n \in names : d = << n, type(n) >>
    BY <1>3 DEF VP!ArgDecls, VP!DeclsOf
  <1>5. PICK i \in DOMAIN f.args : n = f.args[i].name
    BY <1>4
  <1>6. f.args[i].name \in VarNames
    <2>1. f.args \in [1 .. Len(f.args) -> [name : VarNames, type : VarTypes]]
      BY NodesAssumption, VP!LenProperties
    <2>. QED
      BY <2>1
  <1>. QED
    BY <1>2, <1>4, <1>5, <1>6, ArgsDeclared

LEMMA DefinitionTypes ==
  ASSUME TInv, CInv', UNCHANGED kind,
         NEW f \in Functions, OneSignature(f), Definition(f), ret' # "false"
  PROVE  KeysMade' /\ TypesHeld'
  <1>1. VP!CheckFunction(f) /\ C!GenerateFunction(f)
    BY SameActions DEF Definition, OneSignature, C!GenerateFunction, C!HasBody, V!CheckFunction
  <1>2. currentFunction' = f /\ VP!Decls(table') = VP!ArgDecls(f)
    BY <1>1, VP!DeclsOutside, SameNodes DEF TInv, CInv
  <1>3. /\ module' = Insert(module, f.name, C!Declared(f)) /\ fn' = f.name
        /\ AllocaValues' = AllocaValues
    BY <1>1 DEF C!GenerateFunction, C!Insert, Insert
  <1>4. module'[f.name].args = f.args /\ module'[f.name].ret = f.ret
    BY <1>3 DEF OneSignature, Insert, C!Declared
  <1>5. KeysMade'
    BY <1>3 DEF TInv, KeysMade
  <1>6. ASSUME Generating', NEW d \in VP!Decls(table')
        PROVE  HasTypeIn(AllocaValues, d)'
    <2>1. /\ d[1] \in VarNames /\ d[1] \in ArgNames(f.args)
          /\ d[2] = (CHOOSE a \in Range(f.args) : a.name = d[1]).type
      BY <1>2, ArgsTyped
    <2>2. NamedValues' = ArgNames(f.args)
      BY <1>3, <1>4, <1>6 DEF CInv, SameFunction, Generating
    <2>3. Argument(d[1])' = CHOOSE a \in Range(f.args) : a.name = d[1]
      BY <1>3, <1>4 DEF Argument
    <2>. QED
      BY <2>1, <2>2, <2>3 DEF HasTypeIn
  <1>7. OwnDeclaration'
    BY <1>2, <1>3, <1>4 DEF OwnDeclaration
  <1>8. TypesHeld'
    BY <1>6, <1>7 DEF TypesHeld, VP!Decls
  <1>. QED
    BY <1>5, <1>8

LEMMA TypesStay ==
  ASSUME TInv, UNCHANGED << kind, vars >>
  PROVE  KeysMade' /\ TypesHeld'
  BY DEF vars, validation, generation, TInv, KeysMade, TypesHeld, Generating, OwnDeclaration, VP!Decls,
     HasTypeIn, Argument, C!FindAlloca

LEMMA StepTypes ==
  ASSUME TInv, NullApart, KeysAreNoNames, FragmentNext, UNCHANGED kind, CInv'
  PROVE  TInv'
  <1>0. VP!Rooted /\ VP!NodesAssumption
    BY SameNodes DEF TInv, CInv
  <1>. SUFFICES KeysMade' /\ TypesHeld'
    BY DEF TInv
  <1>1. ASSUME NEW f \in Functions, OneSignature(f), Declaration(f), ret' # "false"
        PROVE  KeysMade' /\ TypesHeld'
    BY <1>1 DEF Declaration, C!GenerateDeclaration, TInv, KeysMade, TypesHeld, Generating
  <1>2. ASSUME NEW f \in Functions, OneSignature(f), Definition(f), ret' # "false"
        PROVE  KeysMade' /\ TypesHeld'
    BY <1>2, DefinitionTypes
  <1>3. ASSUME NEW n \in VarNames, NEW type \in VarTypes, OneType(n, type), VarDecl(n, type)
        PROVE  KeysMade' /\ TypesHeld'
    <2>1. VP!CheckVarDecl(n, type)
      BY <1>3, SameActions DEF VarDecl
    <2>2. VP!Declares({<< n, type >>})
      BY <1>0, <2>1, VP!DeclsInside
    <2>3. fn # Null /\ status = "running" /\ Put(n, type)
      BY <1>3, GenerationSteps DEF VarDecl
    <2>. QED
      BY <1>3, <2>2, <2>3, PutTypes
  <1>4. ASSUME NEW n \in VarNames, NEW e, Assign(Null, n, e)
        PROVE  KeysMade' /\ TypesHeld'
    <2>1. VP!CheckAssign(Null, n)
      BY <1>4, SameActions DEF Assign
    <2>2. VP!Declares({})
      BY <1>0, <2>1, VP!DeclsInside
    <2>3. status = "running" /\ Quiet
      BY <1>4, GenerationSteps DEF Assign
    <2>. QED
      BY <2>2, <2>3, QuietTypes
  <1>5. ASSUME NEW decl \in VarTypes, NEW n \in VarNames, NEW e, OneType(n, decl), Assign(decl, n, e)
        PROVE  KeysMade' /\ TypesHeld'
    <2>1. VP!CheckAssign(decl, n) /\ decl # Null
      BY <1>5, SameActions, NodesAssumption DEF Assign
    <2>2. VP!Declares({<< n, decl >>})
      BY <1>0, <2>1, VP!DeclsInside
    <2>3. /\ fn # Null /\ status = "running"
          /\ \/ status' = "crashed" /\ Quiet
             \/ status' = "running" /\ Put(n, decl)
      BY <1>5, <2>1, GenerationSteps DEF Assign
    <2>4. CASE status' = "crashed" /\ Quiet
      BY <2>4 DEF Quiet, TInv, KeysMade, TypesHeld, Generating
    <2>5. CASE Put(n, decl)
      BY <1>5, <2>2, <2>3, <2>5, PutTypes
    <2>. QED
      BY <2>3, <2>4, <2>5
  <1>6. ASSUME NEW e, ReturnValue(e) \/ ExprStmt(e)
        PROVE  KeysMade' /\ TypesHeld'
    <2>1. (\E r : VP!CheckReturn(r)) \/ VP!CheckExprStmt(e)
      BY <1>6, SameActions DEF ReturnValue, ExprStmt
    <2>2. VP!Declares({})
      BY <1>0, <2>1, VP!DeclsInside
    <2>3. Quiet /\ status = "running"
      BY <1>6, GenerationSteps DEF ReturnValue, ExprStmt
    <2>. QED
      BY <2>2, <2>3, QuietTypes
  <1>7. CASE ReturnVoid
    <2>1. VP!CheckReturn(Null)
      BY <1>7, SameActions DEF ReturnVoid
    <2>2. VP!Declares({})
      BY <1>0, <2>1, VP!DeclsInside
    <2>3. Quiet /\ status = "running"
      BY <1>7, GenerationSteps DEF ReturnVoid
    <2>. QED
      BY <2>2, <2>3, QuietTypes
  <1>8. ASSUME NEW cond, NEW tru, NEW fals, If(cond, tru, fals)
        PROVE  KeysMade' /\ TypesHeld'
    <2>1. VP!CheckIf(cond, tru, fals)
      BY <1>8, SameActions DEF If
    <2>2. VP!Declares({})
      BY <1>0, <2>1, VP!DeclsInside
    <2>3. Quiet /\ status = "running"
      BY <1>8, GenerationSteps DEF If
    <2>. QED
      BY <2>2, <2>3, QuietTypes
  <1>9. ASSUME NEW cond, NEW hasBody, While(cond, hasBody)
        PROVE  KeysMade' /\ TypesHeld'
    <2>1. VP!CheckWhile(cond, hasBody)
      BY <1>9, SameActions DEF While
    <2>2. VP!Declares({})
      BY <1>0, <2>1, VP!DeclsInside
    <2>3. Quiet /\ status = "running"
      BY <1>9, GenerationSteps DEF While
    <2>. QED
      BY <2>2, <2>3, QuietTypes
  <1>10. CASE Block \/ EndOfBlock \/ EndOfLoop \/ EndOfThen \/ EndOfElse
    <2>1. VP!CheckBlock \/ VP!TrueArmDone \/ VP!StatementDone
      BY <1>10, SameActions DEF Block, EndOfBlock, EndOfLoop, EndOfThen, EndOfElse
    <2>2. VP!Declares({})
      BY <1>0, <2>1, VP!DeclsInside
    <2>3. Quiet /\ status = "running"
      BY <1>10, GenerationSteps DEF Block, EndOfBlock, EndOfLoop, EndOfThen, EndOfElse
    <2>. QED
      BY <2>2, <2>3, QuietTypes
  <1>11. CASE EndOfFunction
    BY <1>11 DEF EndOfFunction, C!FunctionDone, TInv, KeysMade, TypesHeld, Generating
  <1>12. CASE EndOfProgram
    BY <1>12 DEF EndOfProgram, C!ProgramDone, C!globals, TInv, KeysMade, TypesHeld, Generating
  <1>13. CASE Done
    BY <1>13, TypesStay DEF Done
  <1>14. FragmentStatement =>
           \/ \E n \in VarNames, type \in VarTypes : OneType(n, type) /\ VarDecl(n, type)
           \/ \E n \in VarNames, e \in Exprs : Assign(Null, n, e)
           \/ \E decl \in VarTypes, n \in VarNames, e \in Exprs : OneType(n, decl) /\ Assign(decl, n, e)
           \/ \E e \in Exprs : ReturnValue(e) \/ ExprStmt(e)
           \/ ReturnVoid
           \/ \E cond \in Exprs : If(cond, TRUE, TRUE) \/ While(cond, TRUE)
           \/ Block
    BY DEF FragmentStatement
  <1>15. FragmentStatement => KeysMade' /\ TypesHeld'
    BY <1>3, <1>4, <1>5, <1>6, <1>7, <1>8, <1>9, <1>10, <1>14
  <1>. QED
    BY <1>1, <1>2, <1>10, <1>11, <1>12, <1>13, <1>15 DEF FragmentNext

\* Where declarations have their types, names mean the same to both passes.
LEMMA SameMeaningHere ==
  ASSUME TInv, NEW t, VP!Chain(t), VP!Root(t) = VP!Root(table), NEW values,
         \A d \in VP!Decls(t) : HasTypeIn(values, d)
  PROVE  SameMeaning(t, Env(values))
  <1>. DEFINE env == Env(values)
  <1>1. ASSUME NEW n \in VarNames, FindVariable(t, n) # Null
        PROVE  /\ n \in DOMAIN env.named \cup DOMAIN env.allocas
               /\ GetFromType(FindVariable(t, n)) = IF n \in DOMAIN env.named THEN env.named[n] ELSE env.allocas[n]
    <2>1. << n, FindVariable(t, n) >> \in VP!Decls(t)
      <3>1. VP!FindVariable(t, n) # Null
        BY <1>1, SameFind
      <3>2. << n, VP!FindVariable(t, n) >> \in VP!Decls(t)
        BY <3>1, VP!FoundIsDeclared, SameNodes
      <3>. QED
        BY <3>2, SameFind
    <2>2. HasTypeIn(values, << n, FindVariable(t, n) >>)
      BY <2>1
    <2>3. /\ DOMAIN env.named = NamedValues
          /\ DOMAIN env.allocas = {m \in VarNames : C!FindAlloca(values, m) # Null}
          /\ \A m \in NamedValues : env.named[m] = GetFromType(Argument(m).type)
          /\ \A m \in VarNames : C!FindAlloca(values, m) # Null =>
               env.allocas[m] = GetFromType(C!FindAlloca(values, m).type)
      BY DEF Env
    <2>. HIDE DEF env
    <2>. QED
      BY <2>2, <2>3 DEF HasTypeIn
  <1>2. ASSUME NEW name \in FunctionNames, FindFunction(t, name) # Null
        PROVE  name \in DOMAIN env.functions /\ env.functions[name] = LLVMType(FindFunction(t, name))
    <2>1. VP!FindFunction(t, name) # Null
      BY <1>2, SameFind
    <2>2. name \in DOMAIN VP!Root(t) /\ VP!FindFunction(t, name) = VP!Root(t)[name]
      BY <2>1, VP!FindInRoot, SameNodes
    <2>3. /\ name \in DOMAIN module
          /\ module[name].args = FindFunction(t, name).args /\ module[name].ret = FindFunction(t, name).ret
      BY <2>2, SameFind DEF TInv, CInv, SameFunctions
    <2>4. DOMAIN env.functions = DOMAIN module /\ env.functions[name] = LLVMType(module[name])
      BY <2>3 DEF Env
    <2>. QED
      BY <2>3, <2>4 DEF LLVMType
  <1>. QED
    BY <1>1, <1>2 DEF SameMeaning

LEMMA SameMeaningNow ==
  ASSUME TInv, Generating
  PROVE  SameMeaning(table, Now)
  <1>1. VP!Chain(table)
    BY DEF TInv, CInv, VP!Rooted, VP!IInv, VP!Consistent
  <1>2. \A d \in VP!Decls(table) : HasTypeIn(AllocaValues, d)
    BY DEF TInv, TypesHeld
  <1>3. SameMeaning(table, Env(AllocaValues))
    BY <1>1, <1>2, SameMeaningHere
  <1>. QED
    BY <1>3 DEF Now

LEMMA TypesAgreeHere ==
  ASSUME TInv
  PROVE  TypesAgree
  BY SameMeaningNow DEF TypesAgree, Generating

\* In the fragment a variable has one type, the one the Validator computes
\* with: the value that code generation loads and stores has it.
THEOREM TypesAreShared ==
  ASSUME NullApart, KeysAreNoNames
  PROVE  KindSpec => []TypesAgree
  <1>. DEFINE Inv == CInv /\ (kind = "fragment" => TInv)
  <1>1. KindInit => Inv
    <2>. SUFFICES ASSUME KindInit PROVE Inv
      OBVIOUS
    <2>1. CInv
      BY InitCInv DEF KindInit
    <2>2. fn = Null /\ AllocaValues = C!EmptyMap
      BY DEF KindInit, Init, C!Init
    <2>. QED
      BY <2>1, <2>2 DEF TInv, KeysMade, TypesHeld, Generating, C!EmptyMap
  <1>2. Inv /\ [KindNext]_<< kind, vars >> => Inv'
    <2>. SUFFICES ASSUME Inv, [KindNext]_<< kind, vars >> PROVE Inv'
      OBVIOUS
    <2>1. CInv'
      BY FragmentIsProgram, StepCInv
    <2>2. CASE KindNext
      BY <2>1, <2>2, StepTypes DEF KindNext
    <2>3. CASE UNCHANGED << kind, vars >>
      BY <2>1, <2>3, TypesStay DEF TInv
    <2>. QED
      BY <2>2, <2>3
  <1>3. Inv => TypesAgree
    BY TypesAgreeHere DEF TypesAgree
  <1>. QED
    BY <1>1, <1>2, <1>3, PTL DEF KindSpec

-----------------------------------------------------------------------------
(* Acceptance is enough, in the fragment.  Code generation in the Compiler *)
(* is the one that CodegenProofs is about, with the expressions that the   *)
(* fragment has.                                                           *)

G == INSTANCE CodegenProofs WITH
       frames <- calls, Exprs <- Values,
       reach <- FALSE, saved <- << >>, dead <- FALSE, guessed <- FALSE

LEMMA SameGeneration ==
  /\ C!Init <=> G!Init
  /\ \A f : C!GenerateDeclaration(f) <=> G!GenerateDeclaration(f)
  /\ \A f : C!GenerateFunction(f) <=> G!GenerateFunction(f)
  /\ \A n, t : C!GenerateVarDecl(n, t) <=> G!GenerateVarDecl(n, t)
  /\ \A d, n, v : C!GenerateAssign(d, n, v) <=> G!GenerateAssign(d, n, v)
  /\ \A v : C!GenerateReturn(v) <=> G!GenerateReturn(v)
  /\ \A v : C!GenerateExprStmt(v) <=> G!GenerateExprStmt(v)
  /\ \A c, t, f : C!GenerateIf(c, t, f) <=> G!GenerateIf(c, t, f)
  /\ \A c, b : C!GenerateWhile(c, b) <=> G!GenerateWhile(c, b)
  /\ C!GenerateBlock <=> G!GenerateBlock
  /\ C!ThenDone <=> G!ThenDone
  /\ C!ElseDone <=> G!ElseDone
  /\ C!WhileDone <=> G!WhileDone
  /\ C!BlockDone <=> G!BlockDone
  /\ C!FunctionDone <=> G!FunctionDone
  /\ C!ProgramDone <=> G!ProgramDone
  <1>1. C!Init <=> G!Init
    BY DEF C!Init, G!Init, C!EmptyMap, G!EmptyMap
  <1>2. ASSUME NEW f PROVE C!GenerateDeclaration(f) <=> G!GenerateDeclaration(f)
    BY DEF C!GenerateDeclaration, G!GenerateDeclaration, C!Insert, G!Insert, C!Declared, G!Declared,
       C!body, G!body, C!cfg, G!cfg
  <1>3. ASSUME NEW f PROVE C!GenerateFunction(f) <=> G!GenerateFunction(f)
    BY DEF C!GenerateFunction, G!GenerateFunction, C!HasBody, G!HasBody, C!Insert, G!Insert,
       C!Declared, G!Declared, C!Range, G!Range, C!StartBody, G!StartBody, C!NewBlock, G!NewBlock
  <1>4. ASSUME NEW n, NEW t PROVE C!GenerateVarDecl(n, t) <=> G!GenerateVarDecl(n, t)
    BY DEF C!GenerateVarDecl, G!GenerateVarDecl, C!NextStatement, G!NextStatement, C!InList,
       G!InList, C!CreateAlloca, G!CreateAlloca, C!Insert, G!Insert, C!InsertAlloca, G!InsertAlloca,
       C!Proceed, G!Proceed
  <1>5. ASSUME NEW d, NEW n, NEW v PROVE C!GenerateAssign(d, n, v) <=> G!GenerateAssign(d, n, v)
    BY DEF C!GenerateAssign, G!GenerateAssign, C!NextStatement, G!NextStatement, C!InList, G!InList,
       C!CreateAlloca, G!CreateAlloca, C!Insert, G!Insert, C!InsertAlloca, G!InsertAlloca,
       C!FindAlloca, G!FindAlloca, C!AddOp, G!AddOp, C!Proceed, G!Proceed, C!Crash, G!Crash,
       C!globals, G!globals, C!body, G!body, C!cfg, G!cfg
  <1>6. ASSUME NEW v PROVE C!GenerateReturn(v) <=> G!GenerateReturn(v)
    BY DEF C!GenerateReturn, G!GenerateReturn, C!NextStatement, G!NextStatement, C!InList, G!InList,
       C!EmitTerminator, G!EmitTerminator, C!AddTerminator, G!AddTerminator, C!EmitExpr, G!EmitExpr,
       C!AddOp, G!AddOp, C!IsVoid, G!IsVoid, C!Proceed, G!Proceed, C!Crash, G!Crash, C!globals,
       G!globals, C!body, G!body, C!cfg, G!cfg
  <1>7. ASSUME NEW v PROVE C!GenerateExprStmt(v) <=> G!GenerateExprStmt(v)
    BY DEF C!GenerateExprStmt, G!GenerateExprStmt, C!NextStatement, G!NextStatement, C!InList,
       G!InList, C!EmitExpr, G!EmitExpr, C!AddOp, G!AddOp, C!Proceed, G!Proceed, C!Crash, G!Crash,
       C!globals, G!globals, C!body, G!body, C!cfg, G!cfg
  <1>8. ASSUME NEW c, NEW t, NEW f PROVE C!GenerateIf(c, t, f) <=> G!GenerateIf(c, t, f)
    BY DEF C!GenerateIf, G!GenerateIf, C!NextStatement, G!NextStatement, C!InList, G!InList,
       C!EmitTerminator, G!EmitTerminator, C!AddTerminator, G!AddTerminator, C!EmitExpr, G!EmitExpr,
       C!AddOp, G!AddOp, C!NewBlock, G!NewBlock, C!Enter, G!Enter, C!Crash, G!Crash, C!globals,
       G!globals, C!body, G!body, C!cfg, G!cfg
  <1>9. ASSUME NEW c, NEW b PROVE C!GenerateWhile(c, b) <=> G!GenerateWhile(c, b)
    BY DEF C!GenerateWhile, G!GenerateWhile, C!NextStatement, G!NextStatement, C!InList, G!InList,
       C!EmitTerminator, G!EmitTerminator, C!AddTerminator, G!AddTerminator, C!NewBlock, G!NewBlock,
       C!Enter, G!Enter, C!Crash, G!Crash, C!globals, G!globals, C!body, G!body, C!cfg, G!cfg
  <1>10. C!GenerateBlock <=> G!GenerateBlock
    BY DEF C!GenerateBlock, G!GenerateBlock, C!NextStatement, G!NextStatement, C!InList, G!InList,
       C!Enter, G!Enter, C!globals, G!globals, C!cfg, G!cfg
  <1>11. C!ThenDone <=> G!ThenDone
    BY DEF C!ThenDone, G!ThenDone, C!ChildDone, G!ChildDone, C!BackIsTerminator, G!BackIsTerminator,
       C!Last, G!Last, C!LeaveFor, G!LeaveFor, C!EmitTerminator, G!EmitTerminator, C!AddTerminator,
       G!AddTerminator, C!ElseFrame, G!ElseFrame, C!PushBlock, G!PushBlock, C!Crash, G!Crash,
       C!globals, G!globals, C!body, G!body, C!cfg, G!cfg
  <1>12. C!ElseDone <=> G!ElseDone
    BY DEF C!ElseDone, G!ElseDone, C!ChildDone, G!ChildDone, C!BackIsTerminator, G!BackIsTerminator,
       C!Last, G!Last, C!LeaveFor, G!LeaveFor, C!EmitTerminator, G!EmitTerminator, C!AddTerminator,
       G!AddTerminator, C!JumpGenerated, G!JumpGenerated, C!PushBlock, G!PushBlock, C!Leave,
       G!Leave, C!globals, G!globals
  <1>13. C!WhileDone <=> G!WhileDone
    BY DEF C!WhileDone, G!WhileDone, C!ChildDone, G!ChildDone, C!BackIsTerminator,
       G!BackIsTerminator, C!Last, G!Last, C!LeaveFor, G!LeaveFor, C!EmitTerminator,
       G!EmitTerminator, C!AddTerminator, G!AddTerminator, C!PushBlock, G!PushBlock, C!Leave,
       G!Leave, C!globals, G!globals
  <1>14. C!BlockDone <=> G!BlockDone
    BY DEF C!BlockDone, G!BlockDone, C!Leave, G!Leave, C!globals, G!globals, C!cfg, G!cfg
  <1>15. C!FunctionDone <=> G!FunctionDone
    BY DEF C!FunctionDone, G!FunctionDone, C!Verifies, G!Verifies, C!Terminated, G!Terminated,
       C!Range, G!Range, C!Last, G!Last, C!IsVoid, G!IsVoid, C!AddTerminator, G!AddTerminator
  <1>16. C!ProgramDone <=> G!ProgramDone
    BY DEF C!ProgramDone, G!ProgramDone, C!globals, G!globals, C!body, G!body, C!cfg, G!cfg
  <1>. QED
    BY <1>1, <1>2, <1>3, <1>4, <1>5, <1>6, <1>7, <1>8, <1>9, <1>10, <1>11, <1>12, <1>13, <1>14,
       <1>15, <1>16

-----------------------------------------------------------------------------
(* The expressions of a program.                                           *)

\* The parameters are the operators of Expressions, and the expressions of the
\* program are trees that NewVisitor builds, with whatever names.
ParametersAreExpressions ==
  /\ \A t, e : CheckNode(t, e) = Check(t, e)
  /\ \A env, e : GenerateNode(env, e) = Generate(env, e)
  /\ \A e : NodesIn(e) = Nodes(e)
  /\ \A t, e : SupportedNode(t, e) <=> Supported(t, e)
  /\ \E n \in Nat : 3 * n + 1 <= MaxNesting /\ Exprs \subseteq Built(STRING, STRING)[n]

\* What is found in scopes was declared in one of them.
LEMMA FoundInScopes ==
  ASSUME NEW t \in Seq(ScopeTypes), NEW name
  PROVE  /\ FindVariable(t, name) # Null => name \in VarNames /\ FindVariable(t, name) \in VarTypes
         /\ FindFunction(t, name) # Null =>
              name \in FunctionNames /\ FindFunction(t, name) \in Functions
  <1>1. \A i \in DOMAIN t :
          /\ DOMAIN t[i].variables \subseteq VarNames
          /\ \A n \in DOMAIN t[i].variables : t[i].variables[n] \in VarTypes
          /\ DOMAIN t[i].functions \subseteq FunctionNames
          /\ \A n \in DOMAIN t[i].functions : t[i].functions[n] \in Functions
    <2>1. \A K, R : \A f \in Maps(K, R) : DOMAIN f \subseteq K /\ \A k \in DOMAIN f : f[k] \in R
      BY DEF Maps
    <2>2. ASSUME NEW i \in DOMAIN t
          PROVE  t[i].variables \in Maps(VarNames, VarTypes) /\ t[i].functions \in Maps(FunctionNames, Functions)
      <3>1. t[i] \in ScopeTypes
        OBVIOUS
      <3>. QED
        BY <3>1 DEF ScopeTypes
    <2>. QED
      BY <2>1, <2>2
  <1>2. ASSUME NEW S \in SUBSET DOMAIN t, S # {}
        PROVE  Min(S) \in S
    <2>1. S \in SUBSET Nat
      OBVIOUS
    <2>2. \E x \in S : \A y \in S : x <= y
      BY <1>2, <2>1, LeastNatural
    <2>. QED
      BY <2>2 DEF Min
  <1>3. ASSUME FindVariable(t, name) # Null
        PROVE  name \in VarNames /\ FindVariable(t, name) \in VarTypes
    <2>. DEFINE S == {i \in DOMAIN t : name \in DOMAIN t[i].variables}
    <2>1. FindVariable(t, name) = IF S = {} THEN Null ELSE t[Min(S)].variables[name]
      BY DEF FindVariable
    <2>2. S # {} /\ Min(S) \in S
      BY <1>2, <1>3, <2>1
    <2>. QED
      BY <1>1, <2>1, <2>2
  <1>4. ASSUME FindFunction(t, name) # Null
        PROVE  name \in FunctionNames /\ FindFunction(t, name) \in Functions
    <2>. DEFINE S == {i \in DOMAIN t : name \in DOMAIN t[i].functions}
    <2>1. FindFunction(t, name) = IF S = {} THEN Null ELSE t[Min(S)].functions[name]
      BY DEF FindFunction
    <2>2. S # {} /\ Min(S) \in S
      BY <1>2, <1>4, <2>1
    <2>. QED
      BY <1>1, <2>1, <2>2
  <1>. QED
    BY <1>3, <1>4

LEMMA SequenceElements ==
  ASSUME NEW S, NEW q \in Seq(S), NEW i \in DOMAIN q
  PROVE  q[i] \in S
  OBVIOUS

\* Where names mean the same to both passes, they do so in expressions.
LEMMA DeclarationsMeet ==
  ASSUME TypesKnown, NEW t \in Seq(ScopeTypes), NEW env, SameMeaning(t, env)
  PROVE  SameDeclarations(t, env, STRING, STRING)
  <1>1. ASSUME NEW name \in STRING, FindVariable(t, name) # Null
        PROVE  /\ FindVariable(t, name) \in Type \ {"Void"}
               /\ name \in DOMAIN env.named \cup DOMAIN env.allocas
               /\ GetFromType(FindVariable(t, name)) =
                    IF name \in DOMAIN env.named THEN env.named[name] ELSE env.allocas[name]
    <2>1. name \in VarNames /\ FindVariable(t, name) \in VarTypes
      BY <1>1, FoundInScopes
    <2>. QED
      BY <1>1, <2>1 DEF SameMeaning, TypesKnown
  <1>2. ASSUME NEW name \in STRING, FindFunction(t, name) # Null
        PROVE  LET f == FindFunction(t, name)
               IN  /\ f.ret \in Type
                   /\ Len(f.args) \in Nat /\ DOMAIN f.args = 1 .. Len(f.args)
                   /\ \A i \in DOMAIN f.args : f.args[i].type \in Type
                   /\ name \in DOMAIN env.functions
                   /\ env.functions[name] =
                        [ret |-> GetFromType(f.ret),
                         args |-> [i \in DOMAIN f.args |-> GetFromType(f.args[i].type)]]
    <2>. DEFINE f == FindFunction(t, name)
    <2>1. name \in FunctionNames /\ f \in Functions
      BY <1>2, FoundInScopes
    <2>2. name \in DOMAIN env.functions /\ env.functions[name] = LLVMType(f)
      BY <1>2, <2>1 DEF SameMeaning
    <2>. HIDE DEF f
    <2>3. f.ret \in Type /\ VarTypes \subseteq Type
      BY <2>1 DEF TypesKnown
    <2>4. f.args \in Seq([name : VarNames, type : VarTypes])
      BY <2>1, NodesAssumption DEF NodesAssumption
    <2>5. Len(f.args) \in Nat /\ DOMAIN f.args = 1 .. Len(f.args)
      BY <2>4
    <2>6. ASSUME NEW i \in DOMAIN f.args PROVE f.args[i].type \in Type
      <3>1. f.args[i] \in [name : VarNames, type : VarTypes]
        BY <2>4, <2>6, SequenceElements
      <3>2. f.args[i].type \in VarTypes
        BY <3>1
      <3>. QED
        BY <2>3, <3>2
    <2>. QED
      BY <2>2, <2>3, <2>5, <2>6 DEF f, LLVMType
  <1>. QED
    BY <1>1, <1>2 DEF SameDeclarations

\* An accepted expression of the fragment generates a valid value of the type
\* it was checked to have, wherever names mean the same to both passes: every
\* expression that NewVisitor builds and in all scopes (Validator.cpp and
\* ExprAST.cpp).
THEOREM ExpressionsAgree ==
  ASSUME TypesKnown, ParametersAreExpressions
  PROVE  ExprsAgree
  <1>. SUFFICES ASSUME NEW t \in Seq(ScopeTypes), NEW e \in Exprs, NEW env,
                       SameMeaning(t, env), Fine(t, e)
                PROVE  LET c == CheckNode(t, e)
                           v == GenerateNode(env, c.expr)
                       IN  v.outcome = "value" /\ v.valid /\ v.ir = GetFromType(c.type)
    BY DEF ExprsAgree, ExprAgrees
  <1>. DEFINE c == Check(t, e)
  <1>1. PICK n \in Nat : 3 * n + 1 <= MaxNesting /\ Exprs \subseteq Built(STRING, STRING)[n]
    BY DEF ParametersAreExpressions
  <1>2. SameDeclarations(t, env, STRING, STRING)
    BY DeclarationsMeet
  <1>3. CheckNode(t, e) = c
    BY DEF ParametersAreExpressions
  <1>4. c.ok /\ \A x \in Nodes(c.expr) : Supported(t, x)
    BY <1>3, Zenon DEF Fine, ParametersAreExpressions
  <1>5. e \in Built(STRING, STRING)[n]
    BY <1>1
  <1>6. Generate(env, c.expr) = Value(GetFromType(c.type), TRUE)
    <2>1. PassesAgree(t, env, e)
      BY <1>1, <1>2, <1>5, BuiltExpressions
    <2>. QED
      BY <1>4, <2>1, Zenon DEF PassesAgree
  <1>7. GenerateNode(env, c.expr) = Generate(env, c.expr)
    BY DEF ParametersAreExpressions
  <1>. HIDE DEF c
  <1>. QED
    BY <1>3, <1>6, <1>7 DEF Value

-----------------------------------------------------------------------------
(* What accepted programs compile to.                                      *)

\* What the theorem takes for granted of the names, types and expressions.
Hypotheses ==
  /\ NullApart /\ NoNullHere /\ KeysAreNoNames /\ KeysDiffer
  /\ TypesKnown /\ ParametersAreExpressions

LEMMA SameScopes == VP!ScopeType = ScopeTypes
  BY DEF VP!ScopeType, ScopeTypes, VP!FunctionNames, FunctionNames, VP!Maps, Maps

\* What an expression of the fragment generates.
LEMMA ValueGenerated ==
  ASSUME Hypotheses, NEW t, VP!Chain(t), NEW env, SameMeaning(t, env), NEW e \in Exprs, Fine(t, e)
  PROVE  LET v == GenerateNode(env, CheckNode(t, e).expr)
         IN  v.outcome = "value" /\ v.valid /\ v.ir = GetFromType(CheckNode(t, e).type)
  <1>1. t \in Seq(ScopeTypes)
    BY SameScopes DEF VP!Chain
  <1>2. ExprAgrees(t, env, e)
    BY <1>1, ExpressionsAgree DEF Hypotheses, ExprsAgree
  <1>. QED
    BY <1>2 DEF ExprAgrees

LEMMA EmitsBoolean == \A env, e : Emits(env, e) \in BOOLEAN
  BY DEF Emits

\* In a statement that needs a value of its type.
LEMMA GeneratedFits ==
  ASSUME NEW env, NEW e, GenerateNode(env, e).outcome = "value", NEW ir
  PROVE  /\ Generated(env, e, ir) \in Values
         /\ Generated(env, e, ir).outcome = "value"
         /\ GenerateNode(env, e).valid /\ GenerateNode(env, e).ir = ir /\ ir # "void" =>
              Generated(env, e, ir).fits
  <1>. DEFINE fits == GenerateNode(env, e).outcome = "value" /\ GenerateNode(env, e).valid
                        /\ GenerateNode(env, e).ir = ir /\ ir # "void"
  <1>1. Generated(env, e, ir) = [outcome |-> "value", emits |-> Emits(env, e), fits |-> fits]
    BY DEF Generated
  <1>2. fits \in BOOLEAN /\ Emits(env, e) \in BOOLEAN
    BY EmitsBoolean
  <1>3. GenerateNode(env, e).valid /\ GenerateNode(env, e).ir = ir /\ ir # "void" => fits
    OBVIOUS
  <1>. HIDE DEF fits
  <1>. QED
    BY <1>1, <1>2, <1>3 DEF Values

LEMMA ReturnedFits ==
  ASSUME NEW env, NEW e, GenerateNode(env, e).outcome = "value", GenerateNode(env, e).valid,
         GenerateNode(env, e).ir = GetFromType(module[fn].ret), GetFromType(module[fn].ret) # "void"
  PROVE  /\ Returned(env, e) \in Values
         /\ Returned(env, e).outcome = "value" /\ Returned(env, e).fits
  <1>. DEFINE v == Generated(env, e, GetFromType(module[fn].ret))
  <1>1. v \in Values /\ v.outcome = "value" /\ v.fits
    BY GeneratedFits
  <1>2. Returned(env, e) = [v EXCEPT !.fits = v.fits \/ (v.outcome = "null" /\ module[fn].ret = "Void" /\ Unspoilt(env, e))]
    BY DEF Returned
  <1>. HIDE DEF v
  <1>3. v.fits \/ (v.outcome = "null" /\ module[fn].ret = "Void" /\ Unspoilt(env, e))
    BY <1>1
  <1>4. Returned(env, e) = [v EXCEPT !.fits = TRUE]
    BY <1>2, <1>3
  <1>. QED
    BY <1>1, <1>4 DEF Values

LEMMA DroppedFits ==
  ASSUME NEW env, NEW e, GenerateNode(env, e).outcome = "value", GenerateNode(env, e).valid \in BOOLEAN,
         GenerateNode(env, e).valid
  PROVE  /\ Dropped(env, e) \in Values
         /\ Dropped(env, e).outcome = "value" /\ Dropped(env, e).fits
  <1>1. Dropped(env, e) = [outcome |-> "value", emits |-> Emits(env, e), fits |-> GenerateNode(env, e).valid]
    BY DEF Dropped
  <1>. QED
    BY <1>1, EmitsBoolean DEF Values

LEMMA NotVoid ==
  /\ \A t \in Type \ {"Void"} : GetFromType(t) # "void"
  /\ GetFromType("Bool") = "i1"
  BY DEF Type, GetFromType

\* An alloca is of a function that has a body, or gets one now; arguments
\* have none.
Fresh ==
  \A key \in DOMAIN AllocaValues :
    LET g == AllocaValues[key].fn
    IN  g \in DOMAIN module /\ (module[g].state # "declared" \/ (fn # Null /\ g = fn))

ArgsBare ==
  fn # Null => \A n \in NamedValues : n \in VarNames /\ Mangle(fn, n) \notin DOMAIN AllocaValues

AInv == TInv /\ G!Sound /\ G!Keyed /\ G!InBody /\ Fresh /\ ArgsBare

\* The alloca that a name finds among these is its own.
OwnIn(values, n) ==
  LET alloca == C!FindAlloca(values, n)
  IN  alloca # Null =>
        /\ n \notin NamedValues
        /\ alloca \in Allocas /\ alloca.fn = fn

LEMMA OwnHere ==
  ASSUME Hypotheses, AInv, fn # Null, NEW n \in VarNames
  PROVE  OwnIn(AllocaValues, n)
  <1>. SUFFICES ASSUME C!FindAlloca(AllocaValues, n) # Null
                PROVE  LET alloca == C!FindAlloca(AllocaValues, n)
                       IN  n \notin NamedValues /\ alloca \in Allocas /\ alloca.fn = fn
    BY DEF OwnIn
  <1>1. n \notin DOMAIN AllocaValues
    BY DEF AInv, TInv, KeysMade
  <1>2. /\ Mangle(fn, n) \in DOMAIN AllocaValues
        /\ C!FindAlloca(AllocaValues, n) = AllocaValues[Mangle(fn, n)]
    BY <1>1 DEF C!FindAlloca
  <1>3. n \notin NamedValues
    BY <1>2 DEF AInv, ArgsBare
  <1>4. PICK f \in G!FunctionNames, v \in VarNames :
          Mangle(fn, n) = Mangle(f, v) /\ AllocaValues[Mangle(fn, n)].fn = f
    BY <1>2 DEF AInv, G!Keyed
  <1>5. f = fn
    BY <1>4 DEF Hypotheses, KeysDiffer, G!FunctionNames, FunctionNames, AInv, TInv, CInv, SameFunction
  <1>. QED
    BY <1>2, <1>3, <1>4, <1>5 DEF AInv, TInv, CInv, AllocasMade

LEMMA OwnCreated ==
  ASSUME Hypotheses, AInv, fn # Null, NEW n \in VarNames, NEW type \in VarTypes, OneType(n, type)
  PROVE  /\ OwnIn(C!CreateAlloca(n, type), n)
         /\ C!FindAlloca(C!CreateAlloca(n, type), n) # Null
  <1>. DEFINE key    == Mangle(fn, n)
              alloca == [fn |-> fn, name |-> n, type |-> type]
              values == C!CreateAlloca(n, type)
  <1>1. values = Insert(AllocaValues, key, alloca) /\ alloca.fn = fn
    BY DEF C!CreateAlloca, C!Insert, Insert
  <1>2. key \notin VarNames /\ key = Mangle(fn, n)
    BY DEF AInv, TInv, CInv, SameFunction, KeysAreNoNames, Hypotheses
  <1>3. alloca \in Allocas
    BY DEF AInv, TInv, CInv, SameFunction, Allocas
  <1>4. n \notin NamedValues
    BY DEF OneType
  <1>. HIDE DEF key, alloca, values
  <1>5. /\ DOMAIN values = DOMAIN AllocaValues \cup {key}
        /\ key \in DOMAIN AllocaValues => values[key] = AllocaValues[key]
        /\ key \notin DOMAIN AllocaValues => values[key] = alloca
    BY <1>1 DEF Insert
  <1>6. n \notin DOMAIN AllocaValues /\ n \notin DOMAIN values
    BY <1>2, <1>5 DEF AInv, TInv, KeysMade
  <1>7. C!FindAlloca(values, n) = values[key]
    BY <1>2, <1>5, <1>6 DEF C!FindAlloca
  <1>8. values[key] \in Allocas /\ values[key].fn = fn
    <2>1. CASE key \notin DOMAIN AllocaValues
      BY <1>1, <1>3, <1>5, <2>1
    <2>2. CASE key \in DOMAIN AllocaValues
      <3>1. AllocaValues[key] # Null /\ AllocaValues[key] \in Allocas
        BY <2>2 DEF AInv, TInv, CInv, AllocasMade, Hypotheses, NullApart
      <3>2. C!FindAlloca(AllocaValues, n) = AllocaValues[key]
        BY <1>2, <1>6, <2>2 DEF C!FindAlloca
      <3>3. AllocaValues[key].fn = fn
        BY <3>1, <3>2, OwnHere DEF OwnIn
      <3>. QED
        BY <1>5, <2>2, <3>1, <3>3
    <2>. QED
      BY <2>1, <2>2
  <1>9. values[key] # Null
    BY <1>8 DEF Hypotheses, NullApart
  <1>. QED
    BY <1>4, <1>7, <1>8, <1>9 DEF OwnIn, values

\* The value of an assignment has the type of the alloca that it goes to.
LEMMA AssignedFits ==
  ASSUME Hypotheses, NEW t, VP!Chain(t), NEW values, SameMeaning(t, Env(values)),
         NEW n \in VarNames, OwnIn(values, n), FindVariable(t, n) # Null,
         NEW e \in Exprs, Fine(t, e), CheckNode(t, e).expr = e,
         GetFromType(CheckNode(t, e).type) = GetFromType(FindVariable(t, n))
  PROVE  LET env   == Env(values)
             value == Generated(env, e, IF n \in DOMAIN env.allocas THEN env.allocas[n] ELSE "void")
         IN  /\ value \in Values
             /\ C!FindAlloca(values, n) # Null => G!Fitting(value)
  <1>. DEFINE env    == Env(values)
              alloca == C!FindAlloca(values, n)
              ir     == IF n \in DOMAIN env.allocas THEN env.allocas[n] ELSE "void"
              value  == Generated(env, e, ir)
  <1>1. /\ GenerateNode(env, e).outcome = "value" /\ GenerateNode(env, e).valid
        /\ GenerateNode(env, e).ir = GetFromType(FindVariable(t, n))
    BY ValueGenerated
  <1>2. /\ DOMAIN env.named = NamedValues
        /\ n \in DOMAIN env.allocas <=> alloca # Null
        /\ alloca # Null => env.allocas[n] = GetFromType(alloca.type)
    BY DEF Env
  <1>3. GetFromType(FindVariable(t, n)) = IF n \in DOMAIN env.named THEN env.named[n] ELSE env.allocas[n]
    BY DEF SameMeaning
  <1>4. alloca # Null => GenerateNode(env, e).ir = ir /\ ir # "void"
    <2>. SUFFICES ASSUME alloca # Null PROVE GenerateNode(env, e).ir = ir /\ ir # "void"
      OBVIOUS
    <2>1. n \notin NamedValues /\ alloca \in Allocas
      BY DEF OwnIn
    <2>2. alloca.type \in Type \ {"Void"}
      BY <2>1 DEF Allocas, Hypotheses, TypesKnown
    <2>3. GetFromType(alloca.type) # "void"
      BY <2>2, NotVoid
    <2>. HIDE DEF env, alloca
    <2>. QED
      BY <1>1, <1>2, <1>3, <2>1, <2>3
  <1>. HIDE DEF env, ir
  <1>5. value \in Values /\ value.outcome = "value"
    BY <1>1, GeneratedFits
  <1>6. alloca # Null => value.fits
    BY <1>1, <1>4, GeneratedFits
  <1>. HIDE DEF value, alloca
  <1>7. alloca # Null => G!Fitting(value)
    BY <1>5, <1>6 DEF G!Fitting
  <1>. QED
    BY <1>5, <1>7 DEF env, ir, value, alloca

LEMMA SameTarget ==
  /\ \A n : G!Target(Null, n) = C!FindAlloca(AllocaValues, n)
  /\ \A n, type : type # Null => G!Target(type, n) = C!FindAlloca(C!CreateAlloca(n, type), n)
  BY DEF G!Target, G!FindAlloca, C!FindAlloca, G!CreateAlloca, C!CreateAlloca, G!Insert, C!Insert

\* A statement of the fragment in code generation.
CarefulAssign(decl, n) ==
  \E value \in Values :
    /\ G!GenerateAssign(decl, n, value)
    /\ G!Target(decl, n) # Null => G!Fitting(value) /\ G!Target(decl, n).fn = fn

LEMMA AssignIsCareful ==
  ASSUME Hypotheses, AInv, kind = "fragment", NEW n \in VarNames, NEW e \in Exprs,
         FindVariable(table, n) # Null, FineValue(Null, n, e), Assign(Null, n, e)
  PROVE  CarefulAssign(Null, n)
  <1>. DEFINE env   == Env(AllocaValues)
              value == Generated(env, e, IF n \in DOMAIN env.allocas THEN env.allocas[n] ELSE "void")
  <1>1. C!GenerateAssign(Null, n, value) /\ fn # Null /\ status = "running"
    BY GenerationSteps DEF Assign
  <1>2. VP!Chain(table) /\ SameMeaning(table, Env(AllocaValues)) /\ OwnIn(AllocaValues, n)
    BY <1>1, SameMeaningNow, OwnHere DEF AInv, TInv, CInv, VP!Rooted, VP!IInv, VP!Consistent, Generating, Now
  <1>3. /\ Fine(table, e) /\ CheckNode(table, e).expr = e
        /\ GetFromType(CheckNode(table, e).type) = GetFromType(FindVariable(table, n))
    BY DEF FineValue
  <1>4. value \in Values /\ (C!FindAlloca(AllocaValues, n) # Null => G!Fitting(value))
    BY <1>2, <1>3, AssignedFits
  <1>. HIDE DEF env, value
  <1>5. G!GenerateAssign(Null, n, value)
    BY <1>1, SameGeneration
  <1>6. G!Target(Null, n) = C!FindAlloca(AllocaValues, n)
    BY SameTarget
  <1>. QED
    BY <1>2, <1>4, <1>5, <1>6 DEF CarefulAssign, OwnIn

LEMMA DeclaredAssignIsCareful ==
  ASSUME Hypotheses, AInv, kind = "fragment", ret' # "false",
         NEW decl \in VarTypes, NEW n \in VarNames, NEW e \in Exprs,
         OneType(n, decl), FineValue(decl, n, e), Assign(decl, n, e)
  PROVE  CarefulAssign(decl, n)
  <1>0. decl # Null
    BY NodesAssumption
  <1>. DEFINE t      == addVariable(table, n, decl)
              values == C!CreateAlloca(n, decl)
              env    == Env(values)
              value  == Generated(env, e, IF n \in DOMAIN env.allocas THEN env.allocas[n] ELSE "void")
  <1>1. C!GenerateAssign(decl, n, value) /\ fn # Null /\ status = "running"
    BY <1>0, GenerationSteps DEF Assign
  <1>2. Generating /\ VP!Chain(table)
    BY <1>1 DEF AInv, TInv, CInv, VP!Rooted, VP!IInv, VP!Consistent, Generating
  <1>3. t = VP!addVariable(table, n, decl)
    BY DEF addVariable, VP!addVariable, Insert, VP!Insert
  <1>4. VP!Chain(t) /\ VP!Root(t) = VP!Root(table) /\ VP!Decls(t) \subseteq VP!Decls(table) \cup {<< n, decl >>}
    <2>. DEFINE u == VP!addVariable(table, n, decl)
    <2>1. VP!Chain(u) /\ VP!Root(u) = VP!Root(table)
      BY <1>2, SameNodes, VP!AddVariableChain
    <2>2. VP!Decls(u) \subseteq VP!Decls(table) \cup {<< n, decl >>}
      BY <1>2, SameNodes, VP!DeclsVariable
    <2>3. t = u
      BY <1>3
    <2>. HIDE DEF t, u
    <2>. QED
      BY <2>1, <2>2, <2>3
  <1>5. FindVariable(t, n) # Null
    <2>1. ret' = IF VP!FindVariable(VP!addVariable(table, n, decl), n) # Null THEN "true" ELSE "false"
      BY <1>0, SameActions DEF Assign, VP!CheckAssign, VP!Answer
    <2>. QED
      BY <1>3, <2>1, SameFind
  <1>6. /\ Fine(t, e) /\ CheckNode(t, e).expr = e
        /\ GetFromType(CheckNode(t, e).type) = GetFromType(FindVariable(t, n))
    BY <1>0 DEF FineValue
  <1>7. OwnIn(values, n)
    BY <1>1, OwnCreated
  <1>. HIDE DEF t, values
  <1>8. \A d \in VP!Decls(table) \cup {<< n, decl >>} : HasTypeIn(values, d)
    BY <1>2, PutMeaning DEF AInv, Hypotheses, values
  <1>9. SameMeaning(t, env)
    BY <1>4, <1>8, SameMeaningHere DEF AInv
  <1>10. value \in Values /\ (C!FindAlloca(values, n) # Null => G!Fitting(value))
    BY <1>4, <1>5, <1>6, <1>7, <1>9, AssignedFits
  <1>. HIDE DEF env, value
  <1>11. G!GenerateAssign(decl, n, value)
    BY <1>1, SameGeneration
  <1>12. G!Target(decl, n) = C!FindAlloca(values, n)
    BY <1>0, SameTarget DEF values
  <1>. QED
    BY <1>7, <1>10, <1>11, <1>12 DEF CarefulAssign, OwnIn

LEMMA ValueStatements ==
  ASSUME Hypotheses, AInv, kind = "fragment", ret' # "false", NEW e \in Exprs, Fine(table, e)
  PROVE  /\ CheckNode(table, e).type # "Void" /\ ReturnValue(e) =>
              \E value \in Values : value # Null /\ G!Fitting(value) /\ G!GenerateReturn(value)
         /\ ExprStmt(e) => \E expr \in Values : G!Fitting(expr) /\ G!GenerateExprStmt(expr)
         /\ If(e, TRUE, TRUE) => \E cond \in Values : G!Fitting(cond) /\ G!GenerateIf(cond, TRUE, TRUE)
         /\ While(e, TRUE) => \E cond \in Values : G!Fitting(cond) /\ G!GenerateWhile(cond, TRUE)
  <1>. DEFINE node == Rewritten(e)
              type == CheckNode(table, e).type
  <1>1. ASSUME Generating
        PROVE  GenerateNode(Now, node).outcome = "value" /\ GenerateNode(Now, node).valid
                 /\ GenerateNode(Now, node).ir = GetFromType(type)
    <2>1. VP!Chain(table) /\ SameMeaning(table, Now)
      BY <1>1, SameMeaningNow DEF AInv, TInv, CInv, VP!Rooted, VP!IInv, VP!Consistent
    <2>. QED
      BY <2>1, ValueGenerated DEF Rewritten
  <1>2. Null \notin Values /\ e # Null
    BY DEF Hypotheses, NoNullHere
  <1>3. ReturnValue(e) \/ ExprStmt(e) \/ If(e, TRUE, TRUE) \/ While(e, TRUE) => Generating
    BY GenerationSteps DEF ReturnValue, ExprStmt, If, While, Generating
  <1>4. ASSUME type # "Void", ReturnValue(e)
        PROVE  \E value \in Values : value # Null /\ G!Fitting(value) /\ G!GenerateReturn(value)
    <2>1. VP!CheckReturn(e) /\ C!GenerateReturn(Returned(Now, node))
      BY <1>4, SameActions DEF ReturnValue
    <2>2. type = currentFunction.ret
      <3>1. ret' = IF (CheckExpr(table, e).ok => CheckExpr(table, e).type = currentFunction.ret)
                   THEN "true" ELSE "false"
        BY <1>2, <2>1 DEF VP!CheckReturn, VP!Answer
      <3>2. CheckExpr(table, e) = [ok |-> CheckNode(table, e).ok, type |-> CheckNode(table, e).type]
        BY DEF CheckExpr
      <3>3. CheckNode(table, e).ok
        BY DEF Fine
      <3>. QED
        BY <3>1, <3>2, <3>3
    <2>3. /\ frames # << >> /\ currentFunction \in Functions
          /\ module[fn].ret = currentFunction.ret
      BY <1>3, <1>4 DEF AInv, TInv, CInv, SameFunction, TypesHeld, OwnDeclaration, Generating, VP!Rooted,
         VP!IInv, VP!Consistent
    <2>4. type \in Type \ {"Void"}
      BY <1>4, <2>2, <2>3 DEF Hypotheses, TypesKnown
    <2>. HIDE DEF type, node
    <2>5. GetFromType(module[fn].ret) # "void" /\ GenerateNode(Now, node).ir = GetFromType(module[fn].ret)
      BY <1>1, <1>3, <1>4, <2>2, <2>3, <2>4, NotVoid
    <2>6. Returned(Now, node) \in Values /\ G!Fitting(Returned(Now, node))
      BY <1>1, <1>3, <1>4, <2>5, ReturnedFits DEF G!Fitting
    <2>7. G!GenerateReturn(Returned(Now, node))
      BY <2>1, SameGeneration
    <2>. QED
      BY <1>2, <2>6, <2>7
  <1>5. ASSUME ExprStmt(e)
        PROVE  \E expr \in Values : G!Fitting(expr) /\ G!GenerateExprStmt(expr)
    <2>1. C!GenerateExprStmt(Dropped(Now, node))
      BY <1>5 DEF ExprStmt
    <2>. HIDE DEF node
    <2>2. Dropped(Now, node) \in Values /\ G!Fitting(Dropped(Now, node))
      BY <1>1, <1>3, <1>5, DroppedFits DEF G!Fitting
    <2>3. G!GenerateExprStmt(Dropped(Now, node))
      BY <2>1, SameGeneration
    <2>. QED
      BY <2>2, <2>3
  <1>6. ASSUME VP!IsCondition(e), Generating
        PROVE  LET cond == Generated(Now, node, "i1") IN cond \in Values /\ G!Fitting(cond)
    <2>1. CheckExpr(table, e) = [ok |-> CheckNode(table, e).ok, type |-> type]
      BY DEF CheckExpr
    <2>2. type = "Bool"
      BY <1>6, <2>1 DEF VP!IsCondition
    <2>. HIDE DEF node, type
    <2>3. GenerateNode(Now, node).ir = "i1"
      BY <1>1, <1>6, <2>2, NotVoid
    <2>. QED
      BY <1>1, <1>6, <2>3, GeneratedFits DEF G!Fitting
  <1>7. ASSUME If(e, TRUE, TRUE)
        PROVE  \E cond \in Values : G!Fitting(cond) /\ G!GenerateIf(cond, TRUE, TRUE)
    <2>1. VP!CheckIf(e, TRUE, TRUE) /\ G!GenerateIf(Generated(Now, node, "i1"), TRUE, TRUE)
      BY <1>7, SameActions, SameGeneration DEF If
    <2>2. VP!IsCondition(e)
      BY <2>1 DEF VP!CheckIf, VP!Answer
    <2>. QED
      BY <1>3, <1>6, <1>7, <2>1, <2>2
  <1>8. ASSUME While(e, TRUE)
        PROVE  \E cond \in Values : G!Fitting(cond) /\ G!GenerateWhile(cond, TRUE)
    <2>1. VP!CheckWhile(e, TRUE) /\ G!GenerateWhile(Generated(Now, node, "i1"), TRUE)
      BY <1>8, SameActions, SameGeneration DEF While
    <2>2. VP!IsCondition(e)
      BY <2>1 DEF VP!CheckWhile, VP!Answer
    <2>. QED
      BY <1>3, <1>6, <1>8, <2>1, <2>2
  <1>. QED
    BY <1>4, <1>5, <1>7, <1>8

\* Every step of a fragment is one of a careful program.
LEMMA FragmentIsCareful ==
  ASSUME Hypotheses, AInv, kind = "fragment", FragmentNext
  PROVE  [G!CarefulNext]_G!vars
  <1>1. ASSUME NEW f \in Functions, OneSignature(f), Declaration(f) \/ Definition(f)
        PROVE  G!CarefulNext
    <2>1. C!GenerateDeclaration(f) \/ C!GenerateFunction(f)
      BY <1>1 DEF Declaration, Definition, OneSignature, V!CheckFunction
    <2>2. G!GenerateDeclaration(f) \/ G!GenerateFunction(f)
      BY <2>1, SameGeneration
    <2>. QED
      BY <2>2 DEF G!CarefulNext
  <1>2. ASSUME FragmentStatement, ret' # "false"
        PROVE  G!CarefulNext
    <2>1. G!Writable
      BY <1>2 DEF FragmentStatement, Alive, G!Writable
    <2>2. ASSUME NEW n \in VarNames, NEW type \in VarTypes, VarDecl(n, type)
          PROVE  G!CarefulStatement
      <3>1. G!GenerateVarDecl(n, type)
        BY <2>2, SameGeneration DEF VarDecl
      <3>. QED
        BY <3>1 DEF G!CarefulStatement
    <2>3. ASSUME NEW decl \in VarTypes \cup {Null}, NEW n \in VarNames, CarefulAssign(decl, n)
          PROVE  G!CarefulStatement
      BY <2>3 DEF CarefulAssign, G!CarefulStatement
    <2>4. ASSUME NEW n \in VarNames, NEW e \in Exprs, FindVariable(table, n) # Null,
                 FineValue(Null, n, e), Assign(Null, n, e)
          PROVE  G!CarefulStatement
      BY <2>3, <2>4, AssignIsCareful
    <2>5. ASSUME NEW decl \in VarTypes, NEW n \in VarNames, NEW e \in Exprs,
                 OneType(n, decl), FineValue(decl, n, e), Assign(decl, n, e)
          PROVE  G!CarefulStatement
      BY <1>2, <2>3, <2>5, DeclaredAssignIsCareful
    <2>6. ASSUME NEW e \in Exprs, Fine(table, e),
                 \/ CheckNode(table, e).type # "Void" /\ ReturnValue(e)
                 \/ ExprStmt(e) \/ If(e, TRUE, TRUE) \/ While(e, TRUE)
          PROVE  G!CarefulStatement
      BY <1>2, <2>6, ValueStatements DEF G!CarefulStatement
    <2>7. ASSUME ReturnVoid
          PROVE  G!CarefulStatement
      <3>1. VP!CheckReturn(Null) /\ C!GenerateReturn(Null)
        BY <2>7, SameActions DEF ReturnVoid
      <3>2. currentFunction.ret = "Void"
        BY <1>2, <3>1 DEF VP!CheckReturn, VP!Answer
      <3>3. Generating
        BY <2>7, GenerationSteps DEF ReturnVoid, Generating
      <3>4. G!IsVoid
        BY <3>2, <3>3 DEF AInv, TInv, TypesHeld, OwnDeclaration, G!IsVoid
      <3>5. G!GenerateReturn(Null)
        BY <3>1, SameGeneration
      <3>. QED
        BY <3>4, <3>5 DEF G!CarefulStatement
    <2>8. ASSUME Block
          PROVE  G!CarefulStatement
      <3>1. G!GenerateBlock
        BY <2>8, SameGeneration DEF Block
      <3>. QED
        BY <3>1 DEF G!CarefulStatement
    <2>9. G!CarefulStatement
      BY <1>2, <2>2, <2>4, <2>5, <2>6, <2>7, <2>8 DEF FragmentStatement
    <2>. QED
      BY <2>1, <2>9 DEF G!CarefulNext
  <1>3. ASSUME EndOfBlock \/ EndOfLoop \/ EndOfThen \/ EndOfElse
        PROVE  G!CarefulNext
    <2>1. G!BlockDone \/ G!WhileDone \/ G!ThenDone \/ G!ElseDone
      BY <1>3, SameGeneration DEF EndOfBlock, EndOfLoop, EndOfThen, EndOfElse
    <2>. QED
      BY <2>1 DEF G!CarefulNext
  <1>4. ASSUME EndOfFunction, module[fn].ret = "Void" \/ ~ Alive
        PROVE  G!CarefulNext
    <2>1. G!FunctionDone /\ fn # Null
      BY <1>4, SameGeneration DEF EndOfFunction, C!FunctionDone
    <2>2. G!IsVoid \/ ~ G!Writable
      BY <1>4, <2>1 DEF G!IsVoid, Alive, G!Writable
    <2>. QED
      BY <2>1, <2>2 DEF G!CarefulNext
  <1>5. ASSUME EndOfProgram
        PROVE  G!CarefulNext
    <2>1. G!ProgramDone
      BY <1>5, SameGeneration DEF EndOfProgram
    <2>. QED
      BY <2>1 DEF G!CarefulNext
  <1>6. ASSUME Done
        PROVE  UNCHANGED G!vars
    BY <1>6 DEF Done, vars, generation, G!vars, G!globals, G!body, G!cfg
  <1>. QED
    BY <1>1, <1>2, <1>3, <1>4, <1>5, <1>6 DEF FragmentNext

\* What a fragment's steps leave of the allocas.
LEMMA FreshAside ==
  ASSUME AInv, Quiet
  PROVE  Fresh' /\ ArgsBare'
  BY DEF AInv, Fresh, ArgsBare, Quiet, Kept

LEMMA FreshPut ==
  ASSUME Hypotheses, AInv, NEW n \in VarNames, NEW type \in VarTypes, OneType(n, type), Put(n, type), fn # Null
  PROVE  Fresh' /\ ArgsBare'
  <1>. DEFINE key    == Mangle(fn, n)
              alloca == [fn |-> fn, name |-> n, type |-> type]
  <1>1. Kept /\ AllocaValues' = Insert(AllocaValues, key, alloca) /\ alloca.fn = fn
    BY DEF Put
  <1>2. fn \in DOMAIN module /\ fn \in FunctionNames
    BY DEF AInv, TInv, CInv, SameFunction
  <1>3. n \notin NamedValues /\ key = Mangle(fn, n)
    BY DEF OneType
  <1>. HIDE DEF key, alloca
  <1>4. /\ DOMAIN AllocaValues' = DOMAIN AllocaValues \cup {key}
        /\ \A k \in DOMAIN AllocaValues : AllocaValues'[k] = AllocaValues[k]
        /\ key \notin DOMAIN AllocaValues => AllocaValues'[key] = alloca
    BY <1>1 DEF Insert
  <1>5. ASSUME NEW k \in DOMAIN AllocaValues'
        PROVE  LET g == AllocaValues'[k].fn
               IN  g \in DOMAIN module' /\ (module'[g].state # "declared" \/ (fn' # Null /\ g = fn'))
    <2>1. CASE k \in DOMAIN AllocaValues
      BY <1>1, <1>4, <2>1 DEF AInv, Fresh, Kept
    <2>2. CASE k \notin DOMAIN AllocaValues
      BY <1>1, <1>2, <1>4, <2>2 DEF Kept
    <2>. QED
      BY <2>1, <2>2
  <1>6. ASSUME NEW m \in NamedValues'
        PROVE  m \in VarNames /\ Mangle(fn', m) \notin DOMAIN AllocaValues'
    <2>1. m \in VarNames /\ Mangle(fn, m) \notin DOMAIN AllocaValues /\ m # n
      BY <1>1, <1>3 DEF AInv, ArgsBare, Kept
    <2>2. Mangle(fn, m) # key
      BY <1>2, <1>3, <2>1 DEF Hypotheses, KeysDiffer
    <2>. QED
      BY <1>1, <1>4, <2>1, <2>2 DEF Kept
  <1>. QED
    BY <1>5, <1>6 DEF Fresh, ArgsBare

LEMMA FreshDefinition ==
  ASSUME Hypotheses, AInv, NEW f \in Functions, OneSignature(f), C!GenerateFunction(f)
  PROVE  Fresh' /\ ArgsBare'
  <1>1. /\ module' = Insert(module, f.name, C!Declared(f)) /\ fn' = f.name /\ fn = Null
        /\ AllocaValues' = AllocaValues
        /\ NamedValues' = ArgNames(module'[f.name].args)
    BY DEF C!GenerateFunction, C!Insert, Insert, C!Range, Range, ArgNames
  <1>2. /\ \A name \in DOMAIN module : name \in DOMAIN module' /\ module'[name] = module[name]
        /\ module'[f.name].args = f.args
    BY <1>1 DEF Insert, OneSignature, C!Declared
  <1>3. Fresh'
    BY <1>1, <1>2 DEF AInv, Fresh
  <1>4. ASSUME NEW m \in NamedValues'
        PROVE  m \in VarNames
    <2>1. f.args \in [1 .. Len(f.args) -> [name : VarNames, type : VarTypes]]
      BY NodesAssumption, VP!LenProperties
    <2>2. PICK a \in Range(f.args) : m = a.name
      BY <1>1, <1>2 DEF ArgNames
    <2>3. a \in [name : VarNames, type : VarTypes]
      BY <2>1, <2>2 DEF Range
    <2>. QED
      BY <2>2, <2>3
  <1>5. ASSUME NEW m \in NamedValues', Mangle(f.name, m) \in DOMAIN AllocaValues
        PROVE  FALSE
    <2>1. PICK g \in G!FunctionNames, v \in VarNames :
            /\ Mangle(f.name, m) = Mangle(g, v)
            /\ AllocaValues[Mangle(f.name, m)].fn = g
      BY <1>5 DEF AInv, G!Keyed
    <2>2. g = f.name
      BY <1>4, <1>5, <2>1 DEF Hypotheses, KeysDiffer, G!FunctionNames, FunctionNames
    <2>3. f.name \in DOMAIN module /\ module[f.name].state # "declared"
      BY <1>1, <1>5, <2>1, <2>2 DEF AInv, Fresh
    <2>. QED
      BY <2>3 DEF C!GenerateFunction, C!HasBody
  <1>6. ArgsBare'
    BY <1>1, <1>4, <1>5 DEF ArgsBare
  <1>. QED
    BY <1>3, <1>6

LEMMA FreshNext ==
  ASSUME Hypotheses, AInv, FragmentNext
  PROVE  Fresh' /\ ArgsBare'
  <1>1. ASSUME NEW f \in Functions, Declaration(f)
        PROVE  Fresh' /\ ArgsBare'
    <2>1. /\ module' = Insert(module, f.name, C!Declared(f)) /\ AllocaValues' = AllocaValues
          /\ fn = Null /\ fn' = Null
      BY <1>1 DEF Declaration, C!GenerateDeclaration, C!Insert, Insert
    <2>2. \A name \in DOMAIN module : name \in DOMAIN module' /\ module'[name] = module[name]
      BY <2>1 DEF Insert
    <2>. QED
      BY <2>1, <2>2 DEF AInv, Fresh, ArgsBare
  <1>2. ASSUME NEW f \in Functions, OneSignature(f), Definition(f)
        PROVE  Fresh' /\ ArgsBare'
    <2>1. C!GenerateFunction(f)
      BY <1>2 DEF Definition, OneSignature, V!CheckFunction
    <2>. QED
      BY <1>2, <2>1, FreshDefinition
  <1>3. ASSUME NEW n \in VarNames, NEW type \in VarTypes, OneType(n, type), Put(n, type), fn # Null
        PROVE  Fresh' /\ ArgsBare'
    BY <1>3, FreshPut
  <1>4. FragmentStatement =>
          \/ Quiet
          \/ \E n \in VarNames, type \in VarTypes : OneType(n, type) /\ Put(n, type) /\ fn # Null
    <2>1. \A e : ReturnValue(e) \/ ExprStmt(e) => Quiet
      BY GenerationSteps DEF ReturnValue, ExprStmt
    <2>2. \A e : If(e, TRUE, TRUE) \/ While(e, TRUE) => Quiet
      BY GenerationSteps DEF If, While
    <2>3. ReturnVoid \/ Block => Quiet
      BY GenerationSteps DEF ReturnVoid, Block
    <2>4. \A n, e : Assign(Null, n, e) => Quiet
      BY GenerationSteps DEF Assign
    <2>5. \A n, type : VarDecl(n, type) => Put(n, type) /\ fn # Null
      BY GenerationSteps DEF VarDecl
    <2>6. \A type \in VarTypes : \A n, e : Assign(type, n, e) => Quiet \/ (Put(n, type) /\ fn # Null)
      <3>1. \A type \in VarTypes : type # Null
        BY NodesAssumption
      <3>. QED
        BY <3>1, GenerationSteps DEF Assign
    <2>. QED
      BY <2>1, <2>2, <2>3, <2>4, <2>5, <2>6 DEF FragmentStatement
  <1>5. EndOfBlock \/ EndOfLoop \/ EndOfThen \/ EndOfElse => Quiet
    BY GenerationSteps DEF EndOfBlock, EndOfLoop, EndOfThen, EndOfElse
  <1>6. ASSUME EndOfFunction
        PROVE  Fresh' /\ ArgsBare'
    <2>1. /\ module' = [module EXCEPT ![fn].state = IF C!Verifies THEN "verified" ELSE "broken"]
          /\ fn # Null /\ fn' = Null /\ AllocaValues' = AllocaValues
      BY <1>6 DEF EndOfFunction, C!FunctionDone
    <2>2. "state" \in DOMAIN module[fn] /\ fn \in DOMAIN module
      BY <2>1 DEF AInv, G!InBody
    <2>3. /\ DOMAIN module' = DOMAIN module
          /\ module'[fn].state # "declared"
          /\ \A name \in DOMAIN module : name # fn => module'[name] = module[name]
      BY <2>1, <2>2
    <2>4. Fresh'
      BY <2>1, <2>3 DEF AInv, Fresh
    <2>. QED
      BY <2>1, <2>4 DEF ArgsBare
  <1>7. EndOfProgram \/ Done => Quiet
    BY DEF EndOfProgram, C!ProgramDone, C!globals, Done, vars, generation, Quiet, Kept
  <1>. QED
    BY <1>1, <1>2, <1>3, <1>4, <1>5, <1>6, <1>7, FreshAside DEF FragmentNext

LEMMA CarefulAInv ==
  ASSUME AInv, [G!CarefulNext]_G!vars, TInv', Fresh', ArgsBare'
  PROVE  AInv'
  <1>1. [G!Next]_G!vars
    BY G!CarefulIsNext
  <1>2. G!Sound'
    BY G!SoundNext DEF AInv
  <1>3. G!Keyed'
    BY <1>1, G!KeyedNext DEF AInv
  <1>4. G!InBody'
    BY <1>1, G!InBodyNext DEF AInv
  <1>. QED
    BY <1>2, <1>3, <1>4 DEF AInv

LEMMA FragmentAInv ==
  ASSUME Hypotheses, AInv, kind = "fragment", [KindNext]_<< kind, vars >>
  PROVE  AInv'
  <1>1. CInv'
    BY FragmentIsProgram, StepCInv DEF AInv, TInv
  <1>2. CASE FragmentNext /\ UNCHANGED kind
    <2>1. TInv' /\ Fresh' /\ ArgsBare'
      BY <1>1, <1>2, StepTypes, FreshNext DEF AInv, Hypotheses
    <2>2. [G!CarefulNext]_G!vars
      BY <1>2, FragmentIsCareful
    <2>. QED
      BY <2>1, <2>2, CarefulAInv
  <1>3. CASE UNCHANGED << kind, vars >>
    <2>1. TInv'
      BY <1>1, <1>3, TypesStay DEF AInv, TInv
    <2>2. Quiet /\ UNCHANGED G!vars
      BY <1>3 DEF vars, generation, Quiet, Kept, G!vars, G!globals, G!body, G!cfg
    <2>3. Fresh' /\ ArgsBare'
      BY <2>2, FreshAside
    <2>. QED
      BY <2>1, <2>2, <2>3, CarefulAInv
  <1>. QED
    BY <1>2, <1>3 DEF KindNext

LEMMA AInvBegins ==
  ASSUME Init
  PROVE  AInv
  <1>1. G!Init /\ CInv
    BY InitCInv, SameGeneration DEF Init
  <1>2. G!Sound
    BY <1>1, G!SoundBegins
  <1>3. fn = Null /\ DOMAIN AllocaValues = {} /\ DOMAIN module = {}
    BY DEF Init, C!Init, C!EmptyMap
  <1>. QED
    BY <1>1, <1>2, <1>3 DEF AInv, TInv, KeysMade, TypesHeld, Generating, G!Keyed, G!InBody, Fresh, ArgsBare

\* A program of the fragment that the Validator accepts is generated without
\* a crash, and LLVM's verifier accepts every function of it: the tests that
\* code generation leaves out are the Validator's (Function.cpp:76).
THEOREM AcceptanceSuffices ==
  ASSUME Hypotheses
  PROVE  KindSpec => []AcceptedCompiles
  <1>. DEFINE Inv == kind = "fragment" => AInv
  <1>1. KindInit => Inv
    BY AInvBegins DEF KindInit
  <1>2. Inv /\ [KindNext]_<< kind, vars >> => Inv'
    BY FragmentAInv DEF KindNext
  <1>3. Inv => AcceptedCompiles
    BY DEF AInv, G!Sound, AcceptedCompiles
  <1>. QED
    BY <1>1, <1>2, <1>3, PTL DEF KindSpec
=============================================================================
