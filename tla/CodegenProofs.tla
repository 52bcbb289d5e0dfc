---------------------------- MODULE CodegenProofs ----------------------------
(***************************************************************************)
(* What code generation keeps for every program: any functions, variables  *)
(* and expressions, statements nested to any depth and bodies of any       *)
(* number of basic blocks.                                                 *)
(***************************************************************************)
EXTENDS CodegenProperties, TLAPS

-----------------------------------------------------------------------------
(* One body for a function.                                                *)

\* The function that is generated has been declared and has no verdict yet.
InBody ==
  /\ \A name \in DOMAIN module : "state" \in DOMAIN module[name]
  /\ fn # Null => fn \in DOMAIN module /\ module[fn].state = "declared"

\* What a call of a statement's generate() leaves alone.
Aside == module' = module /\ fn' = fn

LEMMA StatementsAside ==
  ASSUME Next
  PROVE  \/ Aside
         \/ \E f \in Functions : GenerateDeclaration(f) \/ GenerateFunction(f)
         \/ FunctionDone
  BY ZenonT(60) DEF Next, Aside, RedefineFunction, GenerateVarDecl, GenerateAssign, GenerateReturn,
     GenerateExprStmt, GenerateIf, GenerateWhile, GenerateBlock, ThenDone, ElseDone, WhileDone, BlockDone,
     ProgramDone, Done, Proceed, Crash, Enter, Leave, vars, globals

LEMMA InBodyNext ==
  ASSUME InBody, [Next]_vars
  PROVE  InBody'
<1>1. CASE Aside
  BY <1>1 DEF InBody, Aside
<1>2. CASE UNCHANGED vars
  BY <1>2 DEF InBody, vars, globals
<1>3. ASSUME NEW f \in Functions, GenerateDeclaration(f)
      PROVE  InBody'
  <2>1. fn' = Null /\ module' = Insert(module, f.name, Declared(f))
    BY <1>3 DEF GenerateDeclaration
  <2>2. "state" \in DOMAIN Declared(f)
    BY DEF Declared
  <2> QED
    BY <2>1, <2>2 DEF InBody, Insert
<1>4. ASSUME NEW f \in Functions, GenerateFunction(f)
      PROVE  InBody'
  <2>1. fn' = f.name /\ module' = Insert(module, f.name, Declared(f)) /\ ~ HasBody(f.name)
    BY <1>4 DEF GenerateFunction
  <2>2. "state" \in DOMAIN Declared(f) /\ Declared(f).state = "declared"
    BY DEF Declared
  <2>3. \A name \in DOMAIN module' : "state" \in DOMAIN module'[name]
    BY <2>1, <2>2 DEF InBody, Insert
  <2>4. f.name \in DOMAIN module' /\ module'[f.name].state = "declared"
    BY <2>1, <2>2 DEF HasBody, Insert
  <2> QED
    BY <2>1, <2>3, <2>4 DEF InBody
<1>5. CASE FunctionDone
  <2>1. fn' = Null /\ module' = [module EXCEPT ![fn].state = IF Verifies THEN "verified" ELSE "broken"]
    BY <1>5 DEF FunctionDone
  <2>2. \A name \in DOMAIN module' : DOMAIN module'[name] = DOMAIN module[name]
    BY <2>1
  <2> QED
    BY <2>1, <2>2 DEF InBody
<1> QED
  BY <1>1, <1>2, <1>3, <1>4, <1>5, StatementsAside

\* A step from the invariant gives a function a verdict only at the end of
\* the one body that it was declared for.
LEMMA OneBodyStep ==
  ASSUME InBody, [Next]_vars, NEW name \in DOMAIN module
  PROVE  \/ module'[name] = module[name]
         \/ /\ module[name].state = "declared" /\ fn = name
            /\ module'[name].state # "declared" /\ fn' = Null
<1>1. CASE Aside \/ UNCHANGED vars
  BY <1>1 DEF Aside, vars, globals
<1>2. ASSUME NEW f \in Functions, GenerateDeclaration(f) \/ GenerateFunction(f)
      PROVE  module'[name] = module[name]
  BY <1>2 DEF GenerateDeclaration, GenerateFunction, Insert
<1>3. CASE FunctionDone
  <2>1. fn # Null /\ fn' = Null /\ module' = [module EXCEPT ![fn].state = IF Verifies THEN "verified" ELSE "broken"]
    BY <1>3 DEF FunctionDone
  <2>2. CASE name = fn
    <3>1. module'[name] = [module[name] EXCEPT !.state = IF Verifies THEN "verified" ELSE "broken"]
      BY <2>1, <2>2
    <3>2. module'[name].state # "declared"
      BY <3>1 DEF InBody
    <3> QED
      BY <2>1, <2>2, <3>2 DEF InBody
  <2>3. CASE name # fn
    BY <2>1, <2>3
  <2> QED
    BY <2>2, <2>3
<1> QED
  BY <1>1, <1>2, <1>3, StatementsAside

\* A function is given at most one body, however often it is declared or
\* defined (Function.cpp:33).
THEOREM OneBody == Spec => BodyGeneratedOnce
<1>1. Init => InBody
  BY DEF Init, InBody, EmptyMap
<1>2. InBody /\ [Next]_vars => InBody'
  BY InBodyNext
<1>3. InBody /\ [Next]_vars =>
        [\A name \in DOMAIN module :
           \/ module'[name] = module[name]
           \/ /\ module[name].state = "declared" /\ fn = name
              /\ module'[name].state # "declared" /\ fn' = Null]_vars
  BY OneBodyStep
<1> QED
  BY <1>1, <1>2, <1>3, PTL DEF Spec, BodyGeneratedOnce

-----------------------------------------------------------------------------
(* The allocas of the functions.                                           *)

\* The function that is generated is one of the program's, and every entry
\* has the key of its own function and variable.
Keyed ==
  /\ fn # Null => fn \in FunctionNames
  /\ \A key \in DOMAIN AllocaValues :
       \E f \in FunctionNames, v \in VarNames :
         /\ key = Mangle(f, v)
         /\ AllocaValues[key] \in Allocas
         /\ AllocaValues[key].fn = f
         /\ AllocaValues[key].name = v

LEMMA CreatedKeyed ==
  ASSUME Keyed, fn # Null, NEW name \in VarNames, NEW type \in VarTypes,
         fn' = fn, AllocaValues' = CreateAlloca(name, type)
  PROVE  Keyed'
<1> DEFINE alloca == [fn |-> fn, name |-> name, type |-> type]
           key    == Mangle(fn, name)
<1>1. AllocaValues' = [k \in DOMAIN AllocaValues \cup {key} |->
                         IF k \in DOMAIN AllocaValues THEN AllocaValues[k] ELSE alloca]
  BY DEF CreateAlloca, Insert
<1>2. fn \in FunctionNames
  BY DEF Keyed
<1>3. ASSUME NEW k \in DOMAIN AllocaValues'
      PROVE  \E f \in FunctionNames, v \in VarNames :
               /\ k = Mangle(f, v) /\ AllocaValues'[k] \in Allocas
               /\ AllocaValues'[k].fn = f /\ AllocaValues'[k].name = v
  <2>1. CASE k \in DOMAIN AllocaValues
    <3>1. AllocaValues'[k] = AllocaValues[k]
      BY <1>1, <2>1
    <3> QED
      BY <2>1, <3>1 DEF Keyed
  <2>2. CASE k \notin DOMAIN AllocaValues
    <3>1. k = key /\ AllocaValues'[k] = alloca
      BY <1>1, <1>3, <2>2
    <3>2. alloca \in Allocas /\ alloca.fn = fn /\ alloca.name = name
      BY <1>2 DEF Allocas
    <3> QED
      BY <1>2, <3>1, <3>2
  <2> QED
    BY <2>1, <2>2
<1> QED
  BY <1>2, <1>3 DEF Keyed

LEMMA KeyedNext ==
  ASSUME Keyed, [Next]_vars
  PROVE  Keyed'
<1>1. CASE fn' = fn /\ AllocaValues' = AllocaValues
  BY <1>1 DEF Keyed
<1>2. CASE fn' = Null /\ AllocaValues' = AllocaValues
  BY <1>2 DEF Keyed
<1>3. ASSUME NEW f \in Functions, GenerateFunction(f)
      PROVE  Keyed'
  <2>1. fn' = f.name /\ AllocaValues' = AllocaValues
    BY <1>3 DEF GenerateFunction
  <2> QED
    BY <2>1 DEF Keyed, FunctionNames
<1>4. ASSUME NEW name \in VarNames, NEW type \in VarTypes, GenerateVarDecl(name, type)
      PROVE  Keyed'
  BY <1>4, CreatedKeyed DEF GenerateVarDecl, NextStatement, Proceed
<1>5. ASSUME NEW decl \in VarTypes \cup {Null}, NEW lvar \in VarNames, NEW value \in Exprs,
             GenerateAssign(decl, lvar, value)
      PROVE  Keyed'
  <2>1. fn # Null /\ fn' = fn
    BY <1>5 DEF GenerateAssign, NextStatement, Proceed, Crash
  <2>2. \/ AllocaValues' = AllocaValues
        \/ decl \in VarTypes /\ AllocaValues' = CreateAlloca(lvar, decl)
    BY <1>5 DEF GenerateAssign, Crash, globals
  <2> QED
    BY <1>1, <2>1, <2>2, CreatedKeyed
<1>6. \/ AllocaValues' = AllocaValues /\ fn' \in {fn, Null}
      \/ \E f \in Functions : GenerateFunction(f)
      \/ \E name \in VarNames, type \in VarTypes : GenerateVarDecl(name, type)
      \/ \E decl \in VarTypes \cup {Null}, lvar \in VarNames, value \in Exprs : GenerateAssign(decl, lvar, value)
  BY Zenon DEF Next, GenerateDeclaration, RedefineFunction, GenerateReturn, GenerateExprStmt,
     GenerateIf, GenerateWhile, GenerateBlock, ThenDone, ElseDone, WhileDone, BlockDone, FunctionDone,
     ProgramDone, Done, Proceed, Crash, Enter, Leave, vars, globals
<1> QED
  BY <1>1, <1>2, <1>3, <1>4, <1>5, <1>6

\* A variable never finds the alloca of another function, as long as the keys
\* of the program's functions and variables do not collide (CodegenHelper.cpp).
THEOREM OwnAllocas ==
  ASSUME NamesApart
  PROVE  Spec => []AllocaIsOwn
<1>1. Init => Keyed
  BY DEF Init, Keyed, EmptyMap
<1>2. Keyed /\ [Next]_vars => Keyed'
  BY KeyedNext
<1>3. Keyed => AllocaIsOwn
  <2> SUFFICES ASSUME Keyed, fn # Null, NEW name \in VarNames, FindAlloca(AllocaValues, name) # Null
               PROVE  /\ FindAlloca(AllocaValues, name).fn = fn
                      /\ FindAlloca(AllocaValues, name).name = name
    BY DEF AllocaIsOwn
  <2>1. name \notin DOMAIN AllocaValues
    BY DEF Keyed, NamesApart
  <2>2. /\ Mangle(fn, name) \in DOMAIN AllocaValues
        /\ FindAlloca(AllocaValues, name) = AllocaValues[Mangle(fn, name)]
    BY <2>1 DEF FindAlloca
  <2>3. PICK f \in FunctionNames, v \in VarNames :
          /\ Mangle(fn, name) = Mangle(f, v)
          /\ AllocaValues[Mangle(fn, name)].fn = f
          /\ AllocaValues[Mangle(fn, name)].name = v
    BY <2>2 DEF Keyed
  <2>4. f = fn /\ v = name
    BY <2>3 DEF NamesApart, Keyed
  <2> QED
    BY <2>2, <2>3, <2>4
<1> QED
  BY <1>1, <1>2, <1>3, PTL DEF Spec

-----------------------------------------------------------------------------
(* The blocks of a body.                                                   *)

Frame ==
  [kind : {"block"}]
    \cup [kind : {"then"}, fals : BOOLEAN, elseBB : Nat, mergeBB : Nat]
    \cup [kind : {"else"}, mergeBB : Nat, jumpGenerated : BOOLEAN]
    \cup [kind : {"while"}, condBB : Nat, contBB : Nat]

Laid(b) == \E n \in 1 .. Len(layout) : layout[n] = b

Shape ==
  /\ blocks \in Seq(Block)
  /\ layout \in Seq(Nat)
  /\ frames \in Seq(Frame)
  /\ \A n \in 1 .. Len(layout) : layout[n] \in Ids
  /\ fn # Null \/ frames # << >> => Len(layout) > 0
  /\ Len(layout) > 0 => insert = layout[Len(layout)]

\* The open statements, the outermost first.
Open(k) == frames[Len(frames) + 1 - k]
Opens   == 1 .. Len(frames)

\* A block is laid out once or waits in one open statement.
Placed ==
  /\ \A m, n \in 1 .. Len(layout) : layout[m] = layout[n] => m = n
  /\ \A k \in Opens : \A b \in Held(Open(k)) : b \in Ids /\ ~ Laid(b)
  /\ \A k, l \in Opens : \A b \in Held(Open(k)) : b \in Held(Open(l)) => k = l
  /\ \A k \in Opens :
       /\ Open(k).kind = "then"  => Open(k).elseBB # Open(k).mergeBB
       /\ Open(k).kind = "while" => Laid(Open(k).condBB)
       /\ Open(k).kind # "block" => Len(layout) > 1

\* No arm of the statement has jumped behind it so far.
Unjumped(f) == f.kind = "then" \/ (f.kind = "else" /\ ~ f.jumpGenerated)

\* The block that the statement inserts next has a jump to it already.
Awaits(f, b) ==
  \/ f.kind = "then"  /\ b = f.elseBB
  \/ f.kind = "else"  /\ b = f.mergeBB /\ f.jumpGenerated
  \/ f.kind = "while" /\ b = f.contBB

\* A block of the layout jumps to b.
Reached(b) == \E n \in 1 .. Len(layout) : b \in blocks[layout[n]].succ

Jumps ==
  /\ \A i \in Ids : \A b \in blocks[i].succ : Laid(b) \/ \E k \in Opens : b \in Held(Open(k))
  /\ \A k \in Opens : Unjumped(Open(k)) => \A i \in Ids : Open(k).mergeBB \notin blocks[i].succ
  /\ \A k \in Opens, b \in Nat : Awaits(Open(k), b) => Reached(b)

\* The first block, which gets the allocas, is not empty once there is another.
Finished ==
  /\ NonLastTerminated
  /\ Len(layout) > 1 => blocks[layout[1]].body # "empty"

Graph == Shape /\ Placed /\ Jumps /\ Finished /\ EarlierPredecessor

LEMMA GraphCloses == ASSUME Graph PROVE GraphIsClosed /\ InsertIsBack
<1>1. JumpTargetsExist
  <2> SUFFICES ASSUME NEW i \in Ids, NEW b \in blocks[i].succ
               PROVE  b \in Range(layout) \cup Pending
    BY DEF JumpTargetsExist
  <2>1. CASE Laid(b)
    BY <2>1 DEF Laid, Range, Graph, Shape
  <2>2. ASSUME NEW k \in Opens, b \in Held(Open(k))
        PROVE  b \in Pending
    <3>1. Open(k) \in Range(frames)
      BY DEF Range, Graph, Shape, Open, Opens
    <3> QED
      BY <2>2, <3>1 DEF Pending
  <2> QED
    BY <2>1, <2>2 DEF Graph, Jumps
<1>2. InsertIsBack
  BY DEF Graph, Shape, InsertIsBack, Last
<1> QED
  BY <1>1, <1>2 DEF Graph, Finished, GraphIsClosed

LEMMA AddOpOpens ==
  ASSUME NEW b \in Block
  PROVE  AddOp(b) \in Block /\ AddOp(b).body = "open" /\ AddOp(b).succ = b.succ
  BY DEF Block, AddOp

LEMMA AddTerminatorCloses ==
  ASSUME NEW b \in Block, NEW targets \in SUBSET Nat
  PROVE  /\ AddTerminator(b, targets) \in Block
         /\ AddTerminator(b, targets).body = "closed"
         /\ AddTerminator(b, targets).succ = b.succ \cup targets
  BY DEF Block, AddTerminator

\* Where the Builder is, instructions and perhaps jumps to `targets' have been
\* appended, and perhaps an alloca to an empty first block.
Filled(bs, targets) ==
  /\ bs \in Seq(Block)
  /\ Len(bs) = Len(blocks)
  /\ \A i \in Ids :
       /\ bs[i].succ = IF i = insert THEN blocks[i].succ \cup targets ELSE blocks[i].succ
       /\ blocks[i].body # "empty" => bs[i].body # "empty"
       /\ bs[i].body = blocks[i].body \/ i = insert \/ (i = layout[1] /\ blocks[i].body = "empty")

\* And a terminator is the last of them.
Closed(bs, targets) == Filled(bs, targets) /\ bs[insert].body = "closed"

LEMMA Replaced ==
  ASSUME NEW cs \in Seq(Block), NEW i \in 1 .. Len(cs), NEW b \in Block
  PROVE  LET new == [cs EXCEPT ![i] = b]
         IN  /\ new \in Seq(Block) /\ Len(new) = Len(cs)
             /\ new[i] = b
             /\ \A j \in 1 .. Len(cs) : j # i => new[j] = cs[j]
  OBVIOUS

LEMMA NothingFilled == ASSUME Shape PROVE Filled(blocks, {})
  BY DEF Filled, Shape, Ids

LEMMA OpFilled ==
  ASSUME Shape, NEW bs, Filled(bs, {}), insert \in Ids
  PROVE  Filled([bs EXCEPT ![insert] = AddOp(@)], {})
<1> DEFINE new == [bs EXCEPT ![insert] = AddOp(@)]
<1>1. bs[insert] \in Block
  BY DEF Filled, Ids, Shape
<1>2. LET b == AddOp(bs[insert])
      IN  b \in Block /\ b.body = "open" /\ b.succ = bs[insert].succ
  BY <1>1, AddOpOpens
<1>3. bs \in Seq(Block) /\ Len(bs) = Len(blocks) /\ insert \in 1 .. Len(bs)
  BY DEF Filled, Ids
<1>4. /\ new \in Seq(Block) /\ Len(new) = Len(blocks)
      /\ new[insert] = AddOp(bs[insert])
      /\ \A i \in Ids : i # insert => new[i] = bs[i]
  BY <1>2, <1>3, Replaced DEF Ids
<1> QED
  BY <1>2, <1>4 DEF Filled

LEMMA ExprFilled ==
  ASSUME Shape, NEW e, insert \in Ids
  PROVE  Filled(EmitExpr(blocks, e), {})
  BY NothingFilled, OpFilled DEF EmitExpr

LEMMA TerminatorCloses ==
  ASSUME Shape, NEW bs, Filled(bs, {}), insert \in Ids, NEW targets \in SUBSET Nat
  PROVE  Closed(EmitTerminator(bs, insert, targets), targets)
<1> DEFINE new == EmitTerminator(bs, insert, targets)
<1>1. bs[insert] \in Block
  BY DEF Filled, Ids, Shape
<1>2. new = [bs EXCEPT ![insert] = AddTerminator(bs[insert], targets)]
  BY DEF EmitTerminator
<1>3. LET b == AddTerminator(bs[insert], targets)
      IN  b \in Block /\ b.body = "closed" /\ b.succ = bs[insert].succ \cup targets
  BY <1>1, AddTerminatorCloses
<1>4. bs \in Seq(Block) /\ Len(bs) = Len(blocks) /\ insert \in 1 .. Len(bs)
  BY DEF Filled, Ids
<1>5. /\ new \in Seq(Block) /\ Len(new) = Len(blocks)
      /\ new[insert] = AddTerminator(bs[insert], targets)
      /\ \A i \in Ids : i # insert => new[i] = bs[i]
  BY <1>2, <1>3, <1>4, Replaced DEF Ids
<1>6. bs[insert].succ = blocks[insert].succ
  BY DEF Filled
<1> QED
  BY <1>3, <1>5, <1>6, ZenonT(40) DEF Filled, Closed

LEMMA AllocaFilled ==
  ASSUME Shape, Len(layout) > 0, NEW name
  PROVE  Filled(InsertAlloca(name), {})
<1> DEFINE first == layout[1]
<1>1. first \in Ids
  BY DEF Shape
<1>2. CASE InsertAlloca(name) = blocks
  BY <1>2, NothingFilled
<1>3. CASE blocks[first].body = "empty" /\ InsertAlloca(name) = [blocks EXCEPT ![first].body = "open"]
  <2>1. blocks[first] \in Block
    BY <1>1 DEF Shape, Ids
  <2>2. LET b == [blocks[first] EXCEPT !.body = "open"]
        IN  b \in Block /\ b.body = "open" /\ b.succ = blocks[first].succ
    BY <2>1 DEF Block
  <2>3. /\ InsertAlloca(name) \in Seq(Block) /\ Len(InsertAlloca(name)) = Len(blocks)
        /\ InsertAlloca(name)[first].body = "open" /\ InsertAlloca(name)[first].succ = blocks[first].succ
        /\ \A i \in Ids : i # first => InsertAlloca(name)[i] = blocks[i]
    BY <1>1, <1>3, <2>2 DEF Shape, Ids
  <2> QED
    BY <1>3, <2>3 DEF Filled
<1> QED
  BY <1>2, <1>3 DEF InsertAlloca

LEMMA InsertIsLaid ==
  ASSUME Shape, Len(layout) > 0
  PROVE  insert \in Ids /\ insert = layout[Len(layout)] /\ Len(layout) \in Nat /\ Len(blocks) \in Nat
  BY DEF Shape

-----------------------------------------------------------------------------
(* Statements that do not branch.                                          *)

LEMMA GraphFilled ==
  ASSUME Graph, Filled(blocks', {}), UNCHANGED << layout, insert, frames >>, fn' \in {fn, Null}
  PROVE  Graph'
<1>1. Ids' = Ids
  BY DEF Ids, Filled
<1>2. Shape'
  BY <1>1 DEF Graph, Shape, Filled
<1>3. \A b : Laid(b)' <=> Laid(b)
  BY DEF Laid
<1>4. Placed'
  BY <1>1, <1>3 DEF Graph, Placed, Held, Open, Opens
<1>5. \A i \in Ids : blocks'[i].succ = blocks[i].succ
  BY DEF Filled
<1>6. \A n \in 1 .. Len(layout) : blocks'[layout[n]].succ = blocks[layout[n]].succ
  BY <1>5 DEF Graph, Shape
<1>7. Jumps'
  BY <1>1, <1>3, <1>5, <1>6 DEF Graph, Jumps, Held, Unjumped, Awaits, Open, Opens, Reached
<1>8. EarlierPredecessor'
  <2>1. ASSUME NEW i \in 2 .. Len(layout)
        PROVE  \E j \in 1 .. i - 1 : layout[i] \in blocks'[layout[j]].succ
    <3>1. PICK j \in 1 .. i - 1 : layout[i] \in blocks[layout[j]].succ
      BY DEF Graph, EarlierPredecessor
    <3>2. j \in 1 .. Len(layout)
      BY DEF Graph, Shape
    <3> QED
      BY <1>6, <3>1, <3>2
  <2> QED
    BY <2>1 DEF EarlierPredecessor
<1>9. Finished'
  <2>1. ASSUME Len(layout) > 1
        PROVE  blocks'[layout[1]].body # "empty"
    BY <2>1 DEF Graph, Finished, Shape, Filled
  <2>2. ASSUME NEW i \in 1 .. Len(layout) - 1
        PROVE  blocks'[layout[i]].body # "open"
    <3>1. blocks[layout[i]].body # "open" /\ layout[i] \in Ids /\ Len(layout) > 1
      BY <2>2 DEF Graph, Finished, NonLastTerminated, Shape
    <3>2. layout[i] # insert
      BY <2>2 DEF Graph, Shape, Placed
    <3>3. layout[i] = layout[1] => blocks[layout[i]].body # "empty"
      BY <3>1 DEF Graph, Finished
    <3> QED
      BY <3>1, <3>2, <3>3 DEF Filled
  <2> QED
    BY <2>1, <2>2 DEF Finished, NonLastTerminated
<1> QED
  BY <1>2, <1>4, <1>7, <1>8, <1>9 DEF Graph

-----------------------------------------------------------------------------
(* Statements that branch.                                                 *)

\* A block is laid out behind the others.
LEMMA LaidBehind ==
  ASSUME Shape, NEW b \in Nat, layout' = Append(layout, b)
  PROVE  /\ layout' \in Seq(Nat)
         /\ Len(layout') = Len(layout) + 1
         /\ \A i \in 1 .. Len(layout) : layout'[i] = layout[i]
         /\ layout'[Len(layout')] = b
         /\ \A c : Laid(c)' <=> Laid(c) \/ c = b
<1>1. /\ layout' \in Seq(Nat)
      /\ Len(layout') = Len(layout) + 1
      /\ \A i \in 1 .. Len(layout) : layout'[i] = layout[i]
      /\ layout'[Len(layout) + 1] = b
      /\ Len(layout) \in Nat
  BY DEF Shape
<1>2. ASSUME NEW c, Laid(c)'
      PROVE  Laid(c) \/ c = b
  BY <1>1, <1>2 DEF Laid
<1>3. ASSUME NEW c, Laid(c) \/ c = b
      PROVE  Laid(c)'
  BY <1>1, <1>3 DEF Laid
<1> QED
  BY <1>1, <1>2, <1>3

\* Blocks are only laid out behind the others.
Extends ==
  /\ Len(layout') \in Nat /\ Len(layout') >= Len(layout)
  /\ \A i \in 1 .. Len(layout) : layout'[i] = layout[i]

\* Jumps are only added, and instructions only to the insert block, if it is
\* not for the first alloca.
Grown ==
  \A i \in Ids :
    /\ \A b \in blocks[i].succ : b \in blocks'[i].succ
    /\ blocks[i].body # "empty" => blocks'[i].body # "empty"
    /\ blocks'[i].body = blocks[i].body \/ i = insert \/ (i = layout[1] /\ blocks[i].body = "empty")

LEMMA StillReached ==
  ASSUME Shape, Extends, Grown, NEW b, Reached(b)
  PROVE  Reached(b)'
<1>1. PICK i \in 1 .. Len(layout) : b \in blocks[layout[i]].succ
  BY DEF Reached
<1>2. layout[i] \in Ids
  BY DEF Shape
<1>3. i \in 1 .. Len(layout') /\ layout'[i] = layout[i]
  BY DEF Extends, Shape
<1>4. b \in blocks'[layout'[i]].succ
  BY <1>1, <1>2, <1>3 DEF Grown
<1> QED
  BY <1>3, <1>4 DEF Reached

LEMMA PredecessorsKept ==
  ASSUME Graph, Extends, Grown,
         \A i \in Len(layout) + 1 .. Len(layout') :
           \E j \in 1 .. i - 1 : layout'[i] \in blocks'[layout'[j]].succ
  PROVE  EarlierPredecessor'
<1> SUFFICES ASSUME NEW i \in 2 .. Len(layout')
             PROVE  \E j \in 1 .. i - 1 : layout'[i] \in blocks'[layout'[j]].succ
  BY DEF EarlierPredecessor
<1>1. Len(layout) \in Nat /\ Len(layout') \in Nat /\ \A k \in 1 .. Len(layout) : layout[k] \in Ids
  BY DEF Graph, Shape, Extends
<1>2. CASE i <= Len(layout)
  <2>1. i \in 2 .. Len(layout)
    BY <1>1, <1>2
  <2>2. PICK j \in 1 .. i - 1 : layout[i] \in blocks[layout[j]].succ
    BY <2>1 DEF Graph, EarlierPredecessor
  <2>3. j \in 1 .. Len(layout) /\ i \in 1 .. Len(layout)
    BY <1>1, <2>1
  <2>4. layout'[i] = layout[i] /\ layout'[j] = layout[j]
    BY <2>3 DEF Extends
  <2>5. layout[i] \in blocks'[layout[j]].succ
    BY <1>1, <2>2, <2>3 DEF Grown
  <2> QED
    BY <2>4, <2>5
<1>3. CASE i > Len(layout)
  BY <1>1, <1>3
<1> QED
  BY <1>1, <1>2, <1>3

\* The block that was the last has a terminator, or is empty; the new ones but
\* the last are not open either.
Sealed ==
  /\ blocks'[insert].body = "closed" \/ (blocks'[insert].body # "open" /\ Len(layout) > 1)
  /\ \A i \in Len(layout) + 1 .. Len(layout') - 1 : blocks'[layout'[i]].body # "open"

LEMMA FinishedKept ==
  ASSUME Graph, Extends, Grown, Len(layout) > 0, Sealed
  PROVE  Finished'
<1>1. /\ Len(layout) \in Nat /\ Len(layout') \in Nat
      /\ \A k \in 1 .. Len(layout) : layout[k] \in Ids
      /\ insert = layout[Len(layout)]
  BY DEF Graph, Shape, Extends
<1>2. blocks'[layout'[1]].body # "empty"
  <2>1. layout'[1] = layout[1]
    BY <1>1 DEF Extends
  <2>2. CASE Len(layout) = 1
    BY <1>1, <2>1, <2>2 DEF Sealed
  <2>3. CASE Len(layout) > 1
    <3>1. blocks[layout[1]].body # "empty" /\ layout[1] \in Ids
      BY <1>1, <2>3 DEF Graph, Finished
    <3> QED
      BY <2>1, <3>1 DEF Grown
  <2>4. Len(layout) = 1 \/ Len(layout) > 1
    BY <1>1
  <2> QED
    BY <2>2, <2>3, <2>4
<1>3. ASSUME NEW i \in 1 .. Len(layout') - 1
      PROVE  blocks'[layout'[i]].body # "open"
  <2>1. CASE i = Len(layout)
    <3>1. layout'[i] = insert
      BY <1>1, <2>1 DEF Extends
    <3> QED
      BY <3>1 DEF Sealed
  <2>2. CASE i < Len(layout)
    <3>1. i \in 1 .. Len(layout) - 1 /\ i \in 1 .. Len(layout) /\ Len(layout) > 1
      BY <1>1, <2>2
    <3>2. blocks[layout[i]].body # "open"
      BY <3>1 DEF Graph, Finished, NonLastTerminated
    <3>3. layout[i] # insert
      BY <1>1, <2>2, <3>1 DEF Graph, Placed
    <3>4. layout[i] = layout[1] => blocks[layout[i]].body # "empty"
      BY <3>1 DEF Graph, Finished
    <3>5. layout'[i] = layout[i] /\ layout[i] \in Ids
      BY <1>1, <3>1 DEF Extends
    <3> QED
      BY <3>2, <3>3, <3>4, <3>5 DEF Grown
  <2>3. CASE i > Len(layout)
    <3>1. i \in Len(layout) + 1 .. Len(layout') - 1
      BY <1>1, <2>3
    <3> QED
      BY <3>1 DEF Sealed
  <2> QED
    BY <1>1, <2>1, <2>2, <2>3
<1> QED
  BY <1>2, <1>3 DEF Finished, NonLastTerminated

\* A statement is entered.
LEMMA FramePushed ==
  ASSUME Shape, NEW f \in Frame, frames' = << f >> \o frames
  PROVE  /\ frames' \in Seq(Frame)
         /\ Len(frames') = Len(frames) + 1
         /\ \A k \in Opens : Open(k)' = Open(k)
         /\ \A k : k = Len(frames') => Open(k)' = f
<1>1. /\ frames \in Seq(Frame) /\ Len(frames) \in Nat
      /\ Len(frames') = Len(frames) + 1
      /\ frames' \in Seq(Frame)
      /\ frames'[1] = f
      /\ \A j \in 1 .. Len(frames) : frames'[j + 1] = frames[j]
  BY DEF Shape
<1>2. ASSUME NEW k \in Opens
      PROVE  Open(k)' = Open(k)
  <2>1. Len(frames) + 1 - k \in 1 .. Len(frames)
    BY <1>1 DEF Opens
  <2>2. Len(frames') + 1 - k = (Len(frames) + 1 - k) + 1
    BY <1>1 DEF Opens
  <2> QED
    BY <1>1, <2>1, <2>2 DEF Open
<1>3. ASSUME NEW k, k = Len(frames')
      PROVE  Open(k)' = f
  <2>1. Len(frames') + 1 - k = 1
    BY <1>1, <1>3
  <2> QED
    BY <1>1, <2>1 DEF Open
<1> QED
  BY <1>1, <1>2, <1>3

\* The call of the innermost statement returns.
LEMMA FramePopped ==
  ASSUME Shape, frames # << >>, frames' = Tail(frames)
  PROVE  /\ frames' \in Seq(Frame)
         /\ Len(frames') = Len(frames) - 1
         /\ \A k \in 1 .. Len(frames) - 1 : Open(k)' = Open(k)
         /\ Open(Len(frames)) = Head(frames)
<1>1. /\ frames \in Seq(Frame) /\ Len(frames) \in Nat /\ Len(frames) > 0
      /\ Len(frames') = Len(frames) - 1
      /\ frames' \in Seq(Frame)
      /\ Head(frames) = frames[1]
      /\ \A j \in 1 .. Len(frames) - 1 : frames'[j] = frames[j + 1]
  BY DEF Shape
<1>2. ASSUME NEW k \in 1 .. Len(frames) - 1
      PROVE  Open(k)' = Open(k)
  <2>1. Len(frames) - k \in 1 .. Len(frames) - 1
    BY <1>1
  <2>2. Len(frames') + 1 - k = Len(frames) - k /\ (Len(frames) - k) + 1 = Len(frames) + 1 - k
    BY <1>1
  <2> QED
    BY <1>1, <2>1, <2>2 DEF Open
<1>3. Open(Len(frames)) = Head(frames)
  BY <1>1 DEF Open
<1> QED
  BY <1>1, <1>2, <1>3

\* Three blocks are created.
LEMMA ThreeCreated ==
  ASSUME NEW cs \in Seq(Block), NEW ds, ds = cs \o << NewBlock, NewBlock, NewBlock >>
  PROVE  /\ ds \in Seq(Block)
         /\ Len(ds) = Len(cs) + 3
         /\ \A i \in 1 .. Len(cs) : ds[i] = cs[i]
         /\ \A i \in Len(cs) + 1 .. Len(cs) + 3 : ds[i] = NewBlock
<1>1. NewBlock \in Block
  BY DEF NewBlock, Block
<1> QED
  BY <1>1

\* The insert block ends with `bs', and an if is entered.
EnterIf(bs, fals) ==
  /\ Len(layout) > 0
  /\ Closed(bs, {Len(blocks) + 1, Len(blocks) + 2})
  /\ blocks' = bs \o << NewBlock, NewBlock, NewBlock >>
  /\ layout' = Append(layout, Len(blocks) + 1)
  /\ insert' = Len(blocks) + 1
  /\ frames' = << [kind |-> "then", fals |-> fals,
                   elseBB |-> Len(blocks) + 2, mergeBB |-> Len(blocks) + 3] >> \o frames

LEMMA GraphIf ==
  ASSUME Graph, NEW bs, NEW fals \in BOOLEAN, EnterIf(bs, fals)
  PROVE  Graph'
<1> DEFINE n == Len(blocks)
           K == Len(frames)
           f == [kind |-> "then", fals |-> fals, elseBB |-> n + 2, mergeBB |-> n + 3]
<1>1. /\ n \in Nat /\ K \in Nat /\ Len(layout) \in Nat /\ Len(layout) > 0 /\ Shape
      /\ Ids = 1 .. n /\ Opens = 1 .. K
      /\ insert \in Ids /\ insert = layout[Len(layout)]
      /\ \A i \in 1 .. Len(layout) : layout[i] \in Ids
  <2>1. Shape /\ Len(layout) > 0
    BY DEF Graph, EnterIf
  <2>2. n \in Nat /\ K \in Nat /\ Len(layout) \in Nat /\ \A i \in 1 .. Len(layout) : layout[i] \in Ids
    BY <2>1 DEF Shape
  <2> QED
    BY <2>1, <2>2, InsertIsLaid DEF Ids, Opens
<1>2. bs \in Seq(Block) /\ Len(bs) = n
  BY DEF Closed, Filled, EnterIf
<1>3. /\ blocks' \in Seq(Block)
      /\ Len(blocks') = n + 3
      /\ \A i \in Ids : blocks'[i] = bs[i]
      /\ \A i \in n + 1 .. n + 3 : blocks'[i] = NewBlock
  <2>1. blocks' = bs \o << NewBlock, NewBlock, NewBlock >>
    BY DEF EnterIf
  <2>2. /\ blocks' \in Seq(Block)
        /\ Len(blocks') = Len(bs) + 3
        /\ \A i \in 1 .. Len(bs) : blocks'[i] = bs[i]
        /\ \A i \in Len(bs) + 1 .. Len(bs) + 3 : blocks'[i] = NewBlock
    BY <1>2, <2>1, ThreeCreated
  <2> QED
    BY <1>1, <1>2, <2>2
<1>4. /\ layout' \in Seq(Nat)
      /\ Len(layout') = Len(layout) + 1
      /\ \A i \in 1 .. Len(layout) : layout'[i] = layout[i]
      /\ layout'[Len(layout')] = n + 1
      /\ \A c : Laid(c)' <=> Laid(c) \/ c = n + 1
  <2>1. layout' = Append(layout, n + 1) /\ n + 1 \in Nat
    BY <1>1 DEF EnterIf
  <2> QED
    BY <1>1, <2>1, LaidBehind
<1>5. f \in Frame /\ Held(f) = {n + 2, n + 3}
  BY <1>1 DEF Frame, Held
<1>6. /\ frames' \in Seq(Frame)
      /\ Len(frames') = K + 1
      /\ \A k \in 1 .. K : Open(k)' = Open(k)
      /\ \A k : k = K + 1 => Open(k)' = f
      /\ Opens' = 1 .. K + 1
  BY <1>1, <1>5, FramePushed DEF EnterIf, Opens
<1>7. Ids' = 1 .. n + 3
  BY <1>3 DEF Ids
<1>8. \A c : Laid(c) => c \in 1 .. n
  BY <1>1 DEF Laid
<1>9. /\ blocks'[insert].body = "closed"
      /\ \A b : b \in blocks'[insert].succ <=> b \in blocks[insert].succ \/ b = n + 1 \/ b = n + 2
      /\ \A i \in Ids :
           /\ blocks[i].body # "empty" => blocks'[i].body # "empty"
           /\ blocks'[i].body = blocks[i].body \/ i = insert \/ (i = layout[1] /\ blocks[i].body = "empty")
           /\ i # insert => blocks'[i].succ = blocks[i].succ
  <2>1. bs[insert].body = "closed" /\ bs[insert].succ = blocks[insert].succ \cup {n + 1, n + 2}
    BY <1>1 DEF EnterIf, Closed, Filled
  <2>2. \A i \in Ids :
          /\ blocks[i].body # "empty" => bs[i].body # "empty"
          /\ bs[i].body = blocks[i].body \/ i = insert \/ (i = layout[1] /\ blocks[i].body = "empty")
          /\ i # insert => bs[i].succ = blocks[i].succ
    BY DEF EnterIf, Closed, Filled
  <2>3. blocks'[insert] = bs[insert]
    BY <1>1, <1>3
  <2> QED
    BY <1>3, <2>1, <2>2, <2>3
<1>10. \A i \in n + 1 .. n + 3 : blocks'[i].succ = {}
  BY <1>3 DEF NewBlock
<1> HIDE DEF n, K
<1>11. Extends
  BY <1>1, <1>4 DEF Extends
<1>12. Grown
  BY <1>1, <1>9 DEF Grown
<1>13. Shape'
  <2>1. ASSUME NEW i \in 1 .. Len(layout')
        PROVE  layout'[i] \in Ids'
    <3>1. i = Len(layout') \/ i \in 1 .. Len(layout)
      BY <1>1, <1>4
    <3>2. \A j \in Ids \cup {n + 1} : j \in Ids'
      BY <1>1, <1>7
    <3> QED
      BY <1>1, <1>4, <3>1, <3>2
  <2>2. insert' = layout'[Len(layout')] /\ Len(layout') > 0
    BY <1>1, <1>4 DEF EnterIf, n
  <2> QED
    BY <1>3, <1>4, <1>6, <2>1, <2>2 DEF Shape
<1>14. Placed'
  <2>1. \A i, j \in 1 .. Len(layout') : layout'[i] = layout'[j] => i = j
    <3>1. \A i, j \in 1 .. Len(layout) : layout[i] = layout[j] => i = j
      BY DEF Graph, Placed
    <3>2. \A i \in 1 .. Len(layout) : layout'[i] = layout[i] /\ layout[i] # n + 1
      BY <1>1, <1>4
    <3>3. \A i \in 1 .. Len(layout') : i \in 1 .. Len(layout) \/ i = Len(layout')
      BY <1>1, <1>4
    <3> QED
      BY <1>4, <3>1, <3>2, <3>3
  <2>2. \A k \in 1 .. K : \A b \in Held(Open(k)) : b \in 1 .. n /\ ~ Laid(b)
    BY <1>1 DEF Graph, Placed
  <2>3. ASSUME NEW k \in 1 .. K + 1, NEW b \in Held(Open(k)')
        PROVE  b \in 1 .. n + 3 /\ ~ Laid(b)'
    <3>1. CASE k = K + 1
      <4>1. b = n + 2 \/ b = n + 3
        BY <1>5, <1>6, <2>3, <3>1
      <4>2. b \in 1 .. n + 3 /\ b # n + 1 /\ b \notin 1 .. n
        BY <1>1, <4>1
      <4>3. ~ Laid(b)
        BY <1>8, <4>2
      <4> QED
        BY <1>4, <4>2, <4>3
    <3>2. CASE k \in 1 .. K
      <4>1. b \in 1 .. n /\ ~ Laid(b)
        BY <1>6, <2>2, <2>3, <3>2
      <4>2. b \in 1 .. n + 3 /\ b # n + 1
        BY <1>1, <4>1
      <4> QED
        BY <1>4, <4>1, <4>2
    <3> QED
      BY <1>1, <3>1, <3>2
  <2>4. ASSUME NEW j \in 1 .. K + 1, NEW k \in 1 .. K + 1, NEW b \in Held(Open(j)'), b \in Held(Open(k)')
        PROVE  j = k
    <3>1. CASE j \in 1 .. K /\ k \in 1 .. K
      BY <1>1, <1>6, <2>4, <3>1 DEF Graph, Placed
    <3>2. CASE j = K + 1 /\ k \in 1 .. K
      <4>1. b \in 1 .. n /\ (b = n + 2 \/ b = n + 3)
        BY <1>5, <1>6, <2>2, <2>4, <3>2
      <4> QED
        BY <1>1, <4>1
    <3>3. CASE k = K + 1 /\ j \in 1 .. K
      <4>1. b \in 1 .. n /\ (b = n + 2 \/ b = n + 3)
        BY <1>5, <1>6, <2>2, <2>4, <3>3
      <4> QED
        BY <1>1, <4>1
    <3> QED
      BY <1>1, <3>1, <3>2, <3>3
  <2>5. ASSUME NEW k \in 1 .. K + 1
        PROVE  /\ Open(k)'.kind = "then"  => Open(k)'.elseBB # Open(k)'.mergeBB
               /\ Open(k)'.kind = "while" => \A c : c = Open(k)'.condBB => Laid(c)'
               /\ Len(layout') > 1
    <3>1. CASE k = K + 1
      <4>1. Open(k)' = f
        BY <1>6, <3>1
      <4>2. f.kind = "then" /\ f.elseBB # f.mergeBB
        BY <1>1
      <4> QED
        BY <1>1, <1>4, <4>1, <4>2
    <3>2. CASE k \in 1 .. K
      <4>1. /\ Open(k).kind = "then"  => Open(k).elseBB # Open(k).mergeBB
            /\ Open(k).kind = "while" => Laid(Open(k).condBB)
        BY <1>1, <3>2 DEF Graph, Placed
      <4>2. Open(k)' = Open(k)
        BY <1>6, <3>2
      <4> QED
        BY <1>1, <1>4, <4>1, <4>2
    <3> QED
      BY <1>1, <3>1, <3>2
  <2> QED
    BY <1>6, <1>7, <2>1, <2>3, <2>4, <2>5, ZenonT(40) DEF Placed, Held, Laid
<1>15. Jumps'
  <2>1. \A i \in 1 .. n : \A b \in blocks[i].succ : Laid(b) \/ \E k \in 1 .. K : b \in Held(Open(k))
    BY <1>1 DEF Graph, Jumps
  <2>2. \A i \in 1 .. n : \A b \in blocks[i].succ : b \in 1 .. n
    BY <1>1, <1>8, <2>1 DEF Graph, Placed
  <2>3. ASSUME NEW i \in 1 .. n + 3, NEW b \in blocks'[i].succ
        PROVE  i \in 1 .. n /\ (b \in blocks[i].succ \/ (i = insert /\ (b = n + 1 \/ b = n + 2)))
    BY <1>1, <1>9, <1>10, <2>3
  <2>4. ASSUME NEW i \in 1 .. n + 3, NEW b \in blocks'[i].succ
        PROVE  Laid(b)' \/ \E k \in 1 .. K + 1 : b \in Held(Open(k)')
    <3>1. CASE b = n + 1
      BY <1>4, <3>1
    <3>2. CASE b = n + 2
      <4>1. K + 1 \in 1 .. K + 1 /\ \A k : k = K + 1 => b \in Held(Open(k)')
        BY <1>1, <1>5, <1>6, <3>2
      <4> QED
        BY <4>1
    <3>3. CASE i \in 1 .. n /\ b \in blocks[i].succ
      <4>1. CASE Laid(b)
        BY <1>4, <4>1
      <4>2. ASSUME NEW k \in 1 .. K, b \in Held(Open(k))
            PROVE  k \in 1 .. K + 1 /\ b \in Held(Open(k)')
        BY <1>1, <1>6, <4>2
      <4> QED
        BY <2>1, <3>3, <4>1, <4>2
    <3> QED
      BY <2>3, <2>4, <3>1, <3>2, <3>3
  <2>5. ASSUME NEW k \in 1 .. K + 1, Unjumped(Open(k)'), NEW i \in 1 .. n + 3
        PROVE  Open(k)'.mergeBB \notin blocks'[i].succ
    <3>1. CASE k = K + 1
      <4>1. Open(k)'.mergeBB = n + 3
        BY <1>6, <3>1
      <4> QED
        BY <1>1, <2>2, <2>3, <4>1
    <3>2. CASE k \in 1 .. K
      <4>1. Open(k)' = Open(k)
        BY <1>6, <3>2
      <4>2. \A j \in 1 .. n : Open(k).mergeBB \notin blocks[j].succ
        BY <1>1, <2>5, <3>2, <4>1 DEF Graph, Jumps
      <4>3. Open(k).mergeBB \in Held(Open(k))
        BY <2>5, <4>1 DEF Unjumped, Held
      <4>4. Open(k).mergeBB \in 1 .. n
        BY <1>1, <3>2, <4>3 DEF Graph, Placed
      <4>5. ASSUME Open(k).mergeBB \in blocks'[i].succ
            PROVE  i \in 1 .. n /\ Open(k).mergeBB \in blocks[i].succ
        BY <1>1, <2>3, <4>4, <4>5, SMTT(30)
      <4> QED
        BY <4>1, <4>2, <4>5
    <3> QED
      BY <1>1, <3>1, <3>2
  <2>6. ASSUME NEW k \in 1 .. K + 1, NEW b \in Nat, Awaits(Open(k)', b)
        PROVE  Reached(b)'
    <3>1. CASE k = K + 1
      <4>1. b = n + 2
        BY <1>6, <2>6, <3>1 DEF Awaits
      <4>2. /\ Len(layout) \in 1 .. Len(layout')
            /\ layout'[Len(layout)] = insert
            /\ b \in blocks'[insert].succ
        BY <1>1, <1>4, <1>9, <4>1, SMTT(30)
      <4> QED
        BY <4>2 DEF Reached
    <3>2. CASE k \in 1 .. K
      <4>1. Open(k)' = Open(k)
        BY <1>6, <3>2
      <4>2. Reached(b)
        BY <1>1, <2>6, <3>2, <4>1 DEF Graph, Jumps
      <4> QED
        BY <1>1, <1>11, <1>12, <4>2, StillReached
    <3> QED
      BY <1>1, <3>1, <3>2
  <2> QED
    BY <1>6, <1>7, <2>4, <2>5, <2>6 DEF Jumps, Held, Unjumped, Awaits
<1>16. EarlierPredecessor'
  <2>1. ASSUME NEW i \in Len(layout) + 1 .. Len(layout')
        PROVE  \E j \in 1 .. i - 1 : layout'[i] \in blocks'[layout'[j]].succ
    <3>1. i = Len(layout')
      BY <1>1, <1>4
    <3>2. /\ Len(layout) \in 1 .. i - 1
          /\ layout'[Len(layout)] = insert
          /\ layout'[i] \in blocks'[insert].succ
      BY <1>1, <1>4, <1>9, <3>1
    <3> QED
      BY <3>2
  <2> QED
    BY <1>11, <1>12, <2>1, PredecessorsKept
<1>17. Finished'
  <2>1. Sealed
    BY <1>1, <1>4, <1>9 DEF Sealed
  <2> QED
    BY <1>1, <1>11, <1>12, <2>1, FinishedKept
<1> QED
  BY <1>13, <1>14, <1>15, <1>16, <1>17 DEF Graph

\* The insert block ends with `bs', and a loop is entered.
EnterWhile(bs) ==
  /\ Len(layout) > 0
  /\ Closed(bs, {Len(blocks) + 1})
  /\ blocks' \in Seq(Block)
  /\ Len(blocks') = Len(blocks) + 3
  /\ \A i \in Ids : blocks'[i] = bs[i]
  /\ blocks'[Len(blocks) + 1].body = "closed"
  /\ blocks'[Len(blocks) + 1].succ = {Len(blocks) + 2, Len(blocks) + 3}
  /\ blocks'[Len(blocks) + 2] = NewBlock
  /\ blocks'[Len(blocks) + 3] = NewBlock
  /\ layout' = layout \o << Len(blocks) + 1, Len(blocks) + 2 >>
  /\ insert' = Len(blocks) + 2
  /\ frames' = << [kind |-> "while", condBB |-> Len(blocks) + 1, contBB |-> Len(blocks) + 3] >> \o frames

LEMMA GraphWhile ==
  ASSUME Graph, NEW bs, EnterWhile(bs)
  PROVE  Graph'
<1> DEFINE n == Len(blocks)
           K == Len(frames)
           f == [kind |-> "while", condBB |-> n + 1, contBB |-> n + 3]
<1>1. /\ n \in Nat /\ K \in Nat /\ Len(layout) \in Nat /\ Len(layout) > 0 /\ Shape
      /\ Ids = 1 .. n /\ Opens = 1 .. K
      /\ insert \in Ids /\ insert = layout[Len(layout)]
      /\ \A i \in 1 .. Len(layout) : layout[i] \in Ids
  <2>1. Shape /\ Len(layout) > 0
    BY DEF Graph, EnterWhile
  <2>2. n \in Nat /\ K \in Nat /\ Len(layout) \in Nat /\ \A i \in 1 .. Len(layout) : layout[i] \in Ids
    BY <2>1 DEF Shape
  <2> QED
    BY <2>1, <2>2, InsertIsLaid DEF Ids, Opens
<1>2. bs \in Seq(Block) /\ Len(bs) = n
  BY DEF Closed, Filled, EnterWhile
<1>3. /\ blocks' \in Seq(Block)
      /\ Len(blocks') = n + 3
      /\ \A i \in Ids : blocks'[i] = bs[i]
      /\ blocks'[n + 1].body = "closed" /\ blocks'[n + 1].succ = {n + 2, n + 3}
      /\ blocks'[n + 2] = NewBlock /\ blocks'[n + 3] = NewBlock
  BY DEF EnterWhile
<1>4. /\ layout' \in Seq(Nat)
      /\ Len(layout') = Len(layout) + 2
      /\ \A i \in 1 .. Len(layout) : layout'[i] = layout[i]
      /\ layout'[Len(layout) + 1] = n + 1
      /\ layout'[Len(layout')] = n + 2
      /\ \A c : Laid(c)' <=> Laid(c) \/ c = n + 1 \/ c = n + 2
  <2>1. layout \in Seq(Nat) /\ layout' = layout \o << n + 1, n + 2 >>
    BY <1>1 DEF EnterWhile, Shape
  <2>2. /\ layout' \in Seq(Nat)
        /\ Len(layout') = Len(layout) + 2
        /\ \A i \in 1 .. Len(layout) : layout'[i] = layout[i]
        /\ layout'[Len(layout) + 1] = n + 1
        /\ layout'[Len(layout) + 2] = n + 2
    BY <1>1, <2>1
  <2>3. ASSUME NEW c, Laid(c)'
        PROVE  Laid(c) \/ c = n + 1 \/ c = n + 2
    <3>1. PICK i \in 1 .. Len(layout') : layout'[i] = c
      BY <2>3 DEF Laid
    <3>2. i \in 1 .. Len(layout) \/ i = Len(layout) + 1 \/ i = Len(layout) + 2
      BY <1>1, <2>2, SMTT(30)
    <3> QED
      BY <2>2, <3>1, <3>2 DEF Laid
  <2>4. ASSUME NEW c, Laid(c) \/ c = n + 1 \/ c = n + 2
        PROVE  Laid(c)'
    <3>1. \A i \in 1 .. Len(layout) : i \in 1 .. Len(layout')
      BY <1>1, <2>2
    <3>2. Len(layout) + 1 \in 1 .. Len(layout') /\ Len(layout) + 2 \in 1 .. Len(layout')
      BY <1>1, <2>2
    <3> QED
      BY <2>2, <2>4, <3>1, <3>2 DEF Laid
  <2> QED
    BY <2>2, <2>3, <2>4
<1>5. f \in Frame /\ Held(f) = {n + 3}
  BY <1>1 DEF Frame, Held
<1>6. /\ frames' \in Seq(Frame)
      /\ Len(frames') = K + 1
      /\ \A k \in 1 .. K : Open(k)' = Open(k)
      /\ \A k : k = K + 1 => Open(k)' = f
      /\ Opens' = 1 .. K + 1
  BY <1>1, <1>5, FramePushed DEF EnterWhile, Opens
<1>7. Ids' = 1 .. n + 3
  BY <1>3 DEF Ids
<1>8. \A c : Laid(c) => c \in 1 .. n
  BY <1>1 DEF Laid
<1>9. /\ blocks'[insert].body = "closed"
      /\ \A b : b \in blocks'[insert].succ <=> b \in blocks[insert].succ \/ b = n + 1
      /\ \A i \in Ids :
           /\ blocks[i].body # "empty" => blocks'[i].body # "empty"
           /\ blocks'[i].body = blocks[i].body \/ i = insert \/ (i = layout[1] /\ blocks[i].body = "empty")
           /\ i # insert => blocks'[i].succ = blocks[i].succ
  <2>1. bs[insert].body = "closed" /\ bs[insert].succ = blocks[insert].succ \cup {n + 1}
    BY <1>1 DEF EnterWhile, Closed, Filled
  <2>2. \A i \in Ids :
          /\ blocks[i].body # "empty" => bs[i].body # "empty"
          /\ bs[i].body = blocks[i].body \/ i = insert \/ (i = layout[1] /\ blocks[i].body = "empty")
          /\ i # insert => bs[i].succ = blocks[i].succ
    BY DEF EnterWhile, Closed, Filled
  <2>3. blocks'[insert] = bs[insert]
    BY <1>1, <1>3
  <2> QED
    BY <1>3, <2>1, <2>2, <2>3
<1>10. \A i \in n + 2 .. n + 3 : blocks'[i].succ = {}
  BY <1>3 DEF NewBlock
<1> HIDE DEF n, K
<1>11. Extends
  BY <1>1, <1>4 DEF Extends
<1>12. Grown
  BY <1>1, <1>9 DEF Grown
<1>13. Shape'
  <2>1. ASSUME NEW i \in 1 .. Len(layout')
        PROVE  layout'[i] \in Ids'
    <3>0. Len(layout') = Len(layout) + 2 /\ Len(layout) \in Nat
      BY <1>1, <1>4
    <3>1. i = Len(layout') \/ i = Len(layout) + 1 \/ i \in 1 .. Len(layout)
      BY <3>0
    <3>2. \A j \in Ids \cup {n + 1, n + 2} : j \in Ids'
      BY <1>1, <1>7
    <3> QED
      BY <1>1, <1>4, <3>1, <3>2
  <2>2. insert' = layout'[Len(layout')] /\ Len(layout') > 0
    BY <1>1, <1>4 DEF EnterWhile, n
  <2> QED
    BY <1>3, <1>4, <1>6, <2>1, <2>2 DEF Shape
<1>14. Placed'
  <2>1. \A i, j \in 1 .. Len(layout') : layout'[i] = layout'[j] => i = j
    <3>1. \A i, j \in 1 .. Len(layout) : layout[i] = layout[j] => i = j
      BY DEF Graph, Placed
    <3>2. \A i \in 1 .. Len(layout) : layout'[i] = layout[i] /\ layout[i] # n + 1 /\ layout[i] # n + 2
      BY <1>1, <1>4
    <3>3. Len(layout') = Len(layout) + 2 /\ Len(layout) \in Nat
      BY <1>1, <1>4
    <3>4. \A i \in 1 .. Len(layout') : i \in 1 .. Len(layout) \/ i = Len(layout) + 1 \/ i = Len(layout')
      BY <3>3
    <3>5. layout'[Len(layout) + 1] = n + 1 /\ layout'[Len(layout')] = n + 2 /\ n + 1 # n + 2
      BY <1>1, <1>4
    <3> QED
      BY <3>1, <3>2, <3>4, <3>5
  <2>2. \A k \in 1 .. K : \A b \in Held(Open(k)) : b \in 1 .. n /\ ~ Laid(b)
    BY <1>1 DEF Graph, Placed
  <2>3. ASSUME NEW k \in 1 .. K + 1, NEW b \in Held(Open(k)')
        PROVE  b \in 1 .. n + 3 /\ ~ Laid(b)'
    <3>1. CASE k = K + 1
      <4>1. b = n + 3
        BY <1>5, <1>6, <2>3, <3>1
      <4>2. b \notin 1 .. n /\ b # n + 1 /\ b # n + 2 /\ b \in 1 .. n + 3
        BY <1>1, <4>1
      <4> QED
        BY <1>4, <1>8, <4>2
    <3>2. CASE k \in 1 .. K
      <4>1. b \in 1 .. n /\ ~ Laid(b)
        BY <1>6, <2>2, <2>3, <3>2
      <4>2. b # n + 1 /\ b # n + 2 /\ b \in 1 .. n + 3
        BY <1>1, <4>1
      <4> QED
        BY <1>4, <4>1, <4>2
    <3> QED
      BY <1>1, <3>1, <3>2
  <2>4. ASSUME NEW j \in 1 .. K + 1, NEW k \in 1 .. K + 1, NEW b \in Held(Open(j)'), b \in Held(Open(k)')
        PROVE  j = k
    <3>1. CASE j \in 1 .. K /\ k \in 1 .. K
      BY <1>1, <1>6, <2>4, <3>1 DEF Graph, Placed
    <3>2. CASE j = K + 1 /\ k \in 1 .. K
      <4>1. b \in 1 .. n /\ (b = n + 3)
        BY <1>5, <1>6, <2>2, <2>4, <3>2
      <4> QED
        BY <1>1, <4>1
    <3>3. CASE k = K + 1 /\ j \in 1 .. K
      <4>1. b \in 1 .. n /\ (b = n + 3)
        BY <1>5, <1>6, <2>2, <2>4, <3>3
      <4> QED
        BY <1>1, <4>1
    <3> QED
      BY <1>1, <3>1, <3>2, <3>3
  <2>5. ASSUME NEW k \in 1 .. K + 1
        PROVE  /\ Open(k)'.kind = "then"  => Open(k)'.elseBB # Open(k)'.mergeBB
               /\ Open(k)'.kind = "while" => \A c : c = Open(k)'.condBB => Laid(c)'
               /\ Len(layout') > 1
    <3>1. CASE k = K + 1
      <4>1. Open(k)' = f
        BY <1>6, <3>1
      <4>2. f.kind = "while" /\ f.condBB = n + 1
        BY <1>1
      <4> QED
        BY <1>1, <1>4, <4>1, <4>2
    <3>2. CASE k \in 1 .. K
      <4>1. /\ Open(k).kind = "then"  => Open(k).elseBB # Open(k).mergeBB
            /\ Open(k).kind = "while" => Laid(Open(k).condBB)
        BY <1>1, <3>2 DEF Graph, Placed
      <4>2. Open(k)' = Open(k)
        BY <1>6, <3>2
      <4> QED
        BY <1>1, <1>4, <4>1, <4>2
    <3> QED
      BY <1>1, <3>1, <3>2
  <2> QED
    BY <1>6, <1>7, <2>1, <2>3, <2>4, <2>5, ZenonT(40) DEF Placed, Held, Laid
<1>15. Jumps'
  <2>1. \A i \in 1 .. n : \A b \in blocks[i].succ : Laid(b) \/ \E k \in 1 .. K : b \in Held(Open(k))
    BY <1>1 DEF Graph, Jumps
  <2>2. \A i \in 1 .. n : \A b \in blocks[i].succ : b \in 1 .. n
    BY <1>1, <1>8, <2>1 DEF Graph, Placed
  <2>3. ASSUME NEW i \in 1 .. n + 3, NEW b \in blocks'[i].succ
        PROVE  \/ i \in 1 .. n /\ b \in blocks[i].succ
               \/ b = n + 1 \/ b = n + 2 \/ b = n + 3
    <3>1. i \in 1 .. n \/ i = n + 1 \/ i \in n + 2 .. n + 3
      BY <1>1
    <3> QED
      BY <1>1, <1>3, <1>9, <1>10, <2>3, <3>1
  <2>4. ASSUME NEW i \in 1 .. n + 3, NEW b \in blocks'[i].succ
        PROVE  Laid(b)' \/ \E k \in 1 .. K + 1 : b \in Held(Open(k)')
    <3>1. CASE b = n + 1 \/ b = n + 2
      BY <1>4, <3>1
    <3>2. CASE b = n + 3
      <4>1. K + 1 \in 1 .. K + 1 /\ \A k : k = K + 1 => b \in Held(Open(k)')
        BY <1>1, <1>5, <1>6, <3>2
      <4> QED
        BY <4>1
    <3>3. CASE i \in 1 .. n /\ b \in blocks[i].succ
      <4>1. CASE Laid(b)
        BY <1>4, <4>1
      <4>2. ASSUME NEW k \in 1 .. K, b \in Held(Open(k))
            PROVE  k \in 1 .. K + 1 /\ b \in Held(Open(k)')
        BY <1>1, <1>6, <4>2
      <4> QED
        BY <2>1, <3>3, <4>1, <4>2
    <3> QED
      BY <2>3, <2>4, <3>1, <3>2, <3>3
  <2>5. ASSUME NEW k \in 1 .. K + 1, Unjumped(Open(k)'), NEW i \in 1 .. n + 3
        PROVE  Open(k)'.mergeBB \notin blocks'[i].succ
    <3>1. CASE k = K + 1
      BY <1>6, <2>5, <3>1 DEF Unjumped
    <3>2. CASE k \in 1 .. K
      <4>1. Open(k)' = Open(k)
        BY <1>6, <3>2
      <4>2. \A j \in 1 .. n : Open(k).mergeBB \notin blocks[j].succ
        BY <1>1, <2>5, <3>2, <4>1 DEF Graph, Jumps
      <4>3. Open(k).mergeBB \in Held(Open(k))
        BY <2>5, <4>1 DEF Unjumped, Held
      <4>4. Open(k).mergeBB \in 1 .. n
        BY <1>1, <3>2, <4>3 DEF Graph, Placed
      <4>5. Open(k).mergeBB # n + 1 /\ Open(k).mergeBB # n + 2 /\ Open(k).mergeBB # n + 3
        BY <1>1, <4>4
      <4>6. ASSUME Open(k).mergeBB \in blocks'[i].succ
            PROVE  i \in 1 .. n /\ Open(k).mergeBB \in blocks[i].succ
        BY <2>3, <4>5, <4>6
      <4> QED
        BY <4>1, <4>2, <4>6
    <3> QED
      BY <1>1, <3>1, <3>2
  <2>6. ASSUME NEW k \in 1 .. K + 1, NEW b \in Nat, Awaits(Open(k)', b)
        PROVE  Reached(b)'
    <3>1. CASE k = K + 1
      <4>1. b = n + 3
        BY <1>6, <2>6, <3>1 DEF Awaits
      <4>2. /\ Len(layout) + 1 \in 1 .. Len(layout')
            /\ b \in blocks'[layout'[Len(layout) + 1]].succ
        BY <1>1, <1>3, <1>4, <4>1
      <4> QED
        BY <4>2 DEF Reached
    <3>2. CASE k \in 1 .. K
      <4>1. Open(k)' = Open(k)
        BY <1>6, <3>2
      <4>2. Reached(b)
        BY <1>1, <2>6, <3>2, <4>1 DEF Graph, Jumps
      <4> QED
        BY <1>1, <1>11, <1>12, <4>2, StillReached
    <3> QED
      BY <1>1, <3>1, <3>2
  <2> QED
    BY <1>6, <1>7, <2>4, <2>5, <2>6 DEF Jumps, Held, Unjumped, Awaits
<1>16. EarlierPredecessor'
  <2>1. ASSUME NEW i \in Len(layout) + 1 .. Len(layout')
        PROVE  \E j \in 1 .. i - 1 : layout'[i] \in blocks'[layout'[j]].succ
    <3>1. CASE i = Len(layout) + 1
      <4>1. /\ Len(layout) \in 1 .. i - 1
            /\ layout'[Len(layout)] = insert
            /\ layout'[i] \in blocks'[insert].succ
        BY <1>1, <1>4, <1>9, <3>1, SMTT(30)
      <4> QED
        BY <4>1
    <3>2. CASE i = Len(layout')
      <4>1. Len(layout) + 1 \in 1 .. i - 1 /\ layout'[i] \in blocks'[layout'[Len(layout) + 1]].succ
        BY <1>1, <1>3, <1>4, <3>2
      <4> QED
        BY <4>1
    <3>3. i = Len(layout) + 1 \/ i = Len(layout')
      BY <1>1, <1>4, SMTT(30)
    <3> QED
      BY <3>1, <3>2, <3>3
  <2> QED
    BY <1>11, <1>12, <2>1, PredecessorsKept
<1>17. Finished'
  <2>1. Sealed
    <3>1. \A i \in Len(layout) + 1 .. Len(layout') - 1 : layout'[i] = n + 1
      BY <1>1, <1>4
    <3> QED
      BY <1>3, <1>9, <3>1 DEF Sealed
  <2> QED
    BY <1>1, <1>11, <1>12, <2>1, FinishedKept
<1> QED
  BY <1>13, <1>14, <1>15, <1>16, <1>17 DEF Graph

\* What is generated in the innermost statement ends with a jump to bb unless
\* it has a terminator, the statement lays out b and goes on behind it.
Follows(b, bb, isTerminator) ==
  /\ frames # << >> /\ Len(layout) > 0
  /\ Filled(blocks', IF isTerminator THEN {} ELSE {bb})
  /\ blocks'[insert].body # "open"
  /\ ~ isTerminator => blocks'[insert].body = "closed"
  /\ layout' = Append(layout, b) /\ insert' = b
  /\ \/ /\ Head(frames).kind = "then"
        /\ b = Head(frames).elseBB /\ bb = Head(frames).mergeBB
        /\ frames' = << ElseFrame(Head(frames), isTerminator) >> \o Tail(frames)
     \/ /\ Head(frames).kind = "else"
        /\ b = Head(frames).mergeBB /\ bb = Head(frames).mergeBB
        /\ Head(frames).jumpGenerated \/ ~ isTerminator
        /\ frames' = Tail(frames)
     \/ /\ Head(frames).kind = "while"
        /\ b = Head(frames).contBB /\ bb = Head(frames).condBB
        /\ frames' = Tail(frames)

\* The innermost statement gives way to another.
LEMMA FrameReplaced ==
  ASSUME Shape, frames # << >>, NEW f \in Frame, frames' = << f >> \o Tail(frames)
  PROVE  /\ frames' \in Seq(Frame)
         /\ Len(frames') = Len(frames)
         /\ \A k \in 1 .. Len(frames) - 1 : Open(k)' = Open(k)
         /\ \A k : k = Len(frames) => Open(k)' = f
<1>1. /\ frames \in Seq(Frame) /\ Len(frames) \in Nat /\ Len(frames) > 0
      /\ Len(frames') = Len(frames)
      /\ frames' \in Seq(Frame)
      /\ frames'[1] = f
      /\ \A j \in 2 .. Len(frames) : frames'[j] = frames[j]
  BY DEF Shape
<1>2. ASSUME NEW k \in 1 .. Len(frames) - 1
      PROVE  Open(k)' = Open(k)
  <2>1. Len(frames) + 1 - k \in 2 .. Len(frames)
    BY <1>1
  <2> QED
    BY <1>1, <2>1 DEF Open
<1>3. ASSUME NEW k, k = Len(frames)
      PROVE  Open(k)' = f
  <2>1. Len(frames') + 1 - k = 1
    BY <1>1, <1>3
  <2> QED
    BY <1>1, <2>1 DEF Open
<1> QED
  BY <1>1, <1>2, <1>3

\* The open statements behind it: all but the innermost stay what they were,
\* and a true arm is followed by a false arm.
LEMMA FollowsFrames ==
  ASSUME Shape, NEW b, NEW bb, NEW isTerminator \in BOOLEAN, Follows(b, bb, isTerminator)
  PROVE  LET K == Len(frames)
             h == Open(K)
         IN  /\ K \in Nat /\ K > 0 /\ K \in Opens
             /\ h = Head(frames) /\ h \in Frame
             /\ frames' \in Seq(Frame)
             /\ Len(frames') = IF h.kind = "then" THEN K ELSE K - 1
             /\ \A k \in 1 .. K - 1 : Open(k)' = Open(k)
             /\ h.kind = "then" => \A k : k = K => Open(k)' = ElseFrame(h, isTerminator)
<1> DEFINE K == Len(frames)
           h == Open(K)
<1>1. K \in Nat /\ K > 0 /\ K \in Opens
  BY DEF Shape, Follows, Opens
<1>2. h = Head(frames) /\ h \in Frame
  BY <1>1 DEF Shape, Open
<1>3. CASE h.kind = "then"
  <2>1. h.mergeBB \in Nat
    BY <1>2, <1>3 DEF Frame
  <2>2. ElseFrame(h, isTerminator) \in Frame
    BY <2>1 DEF ElseFrame, Frame
  <2>3. frames' = << ElseFrame(h, isTerminator) >> \o Tail(frames) /\ frames # << >>
    BY <1>2, <1>3 DEF Follows
  <2> QED
    BY <1>1, <1>2, <1>3, <2>2, <2>3, FrameReplaced
<1>4. CASE h.kind # "then"
  <2>1. frames' = Tail(frames) /\ frames # << >>
    BY <1>2, <1>4 DEF Follows
  <2> QED
    BY <1>1, <1>2, <1>4, <2>1, FramePopped
<1> QED
  BY <1>3, <1>4

LEMMA GraphFollows ==
  ASSUME Graph, NEW b, NEW bb, NEW isTerminator \in BOOLEAN, Follows(b, bb, isTerminator)
  PROVE  Graph'
<1> DEFINE n == Len(blocks)
           K == Len(frames)
           h == Open(K)
<1>1. /\ n \in Nat /\ K \in Nat /\ K > 0 /\ Len(layout) \in Nat /\ Len(layout) > 0 /\ Shape
      /\ Ids = 1 .. n /\ Opens = 1 .. K /\ K \in Opens
      /\ insert \in Ids /\ insert = layout[Len(layout)]
      /\ \A i \in 1 .. Len(layout) : layout[i] \in Ids
  <2>1. Shape /\ Len(layout) > 0 /\ frames # << >>
    BY DEF Graph, Follows
  <2>2. /\ n \in Nat /\ K \in Nat /\ K > 0 /\ Len(layout) \in Nat
        /\ \A i \in 1 .. Len(layout) : layout[i] \in Ids
    BY <2>1 DEF Shape
  <2> QED
    BY <2>1, <2>2, InsertIsLaid DEF Ids, Opens
<1>2. h = Head(frames) /\ h \in Frame
  BY <1>1 DEF Shape, Open
<1>3. h.kind # "block" /\ b \in Held(h) /\ (bb \in Held(h) \/ Laid(bb))
  <2>1. h.kind = "while" => Laid(h.condBB)
    BY <1>1 DEF Graph, Placed
  <2> QED
    BY <1>2, <2>1 DEF Follows, Held
<1>4. b \in Ids /\ ~ Laid(b) /\ bb \in Ids /\ Len(layout) > 1
  <2>1. \A c \in Held(h) : c \in Ids /\ ~ Laid(c)
    BY <1>1 DEF Graph, Placed
  <2>2. \A c : Laid(c) => c \in Ids
    BY <1>1 DEF Laid
  <2>3. Len(layout) > 1
    BY <1>1, <1>3 DEF Graph, Placed
  <2> QED
    BY <1>3, <2>1, <2>2, <2>3
<1>5. /\ layout' \in Seq(Nat)
      /\ Len(layout') = Len(layout) + 1
      /\ \A i \in 1 .. Len(layout) : layout'[i] = layout[i]
      /\ layout'[Len(layout')] = b
      /\ \A c : Laid(c)' <=> Laid(c) \/ c = b
  <2>1. layout' = Append(layout, b) /\ b \in Nat
    BY <1>1, <1>4 DEF Follows
  <2> QED
    BY <1>1, <2>1, LaidBehind
<1>6. blocks' \in Seq(Block) /\ Len(blocks') = n /\ Ids' = Ids
  BY DEF Follows, Filled, Ids
<1>7. /\ blocks'[insert].body # "open"
      /\ \A c : c \in blocks'[insert].succ <=> c \in blocks[insert].succ \/ (~ isTerminator /\ c = bb)
      /\ \A i \in Ids :
           /\ blocks[i].body # "empty" => blocks'[i].body # "empty"
           /\ blocks'[i].body = blocks[i].body \/ i = insert \/ (i = layout[1] /\ blocks[i].body = "empty")
           /\ i # insert => blocks'[i].succ = blocks[i].succ
  <2>1. blocks'[insert].succ = blocks[insert].succ \cup (IF isTerminator THEN {} ELSE {bb})
    BY <1>1 DEF Follows, Filled
  <2>2. \A c : c \in blocks'[insert].succ <=> c \in blocks[insert].succ \/ (~ isTerminator /\ c = bb)
    BY <2>1
  <2>3. \A i \in Ids :
           /\ blocks[i].body # "empty" => blocks'[i].body # "empty"
           /\ blocks'[i].body = blocks[i].body \/ i = insert \/ (i = layout[1] /\ blocks[i].body = "empty")
           /\ i # insert => blocks'[i].succ = blocks[i].succ
    BY DEF Follows, Filled
  <2>4. blocks'[insert].body # "open"
    BY DEF Follows
  <2> QED
    BY <2>2, <2>3, <2>4
<1>8. /\ frames' \in Seq(Frame)
      /\ Len(frames') = IF h.kind = "then" THEN K ELSE K - 1
      /\ \A k \in 1 .. K - 1 : Open(k)' = Open(k)
      /\ h.kind = "then" => \A k : k = K => Open(k)' = ElseFrame(h, isTerminator)
  BY <1>1, FollowsFrames
<1>9. h.kind = "then" => /\ Held(h) = {h.elseBB, h.mergeBB} /\ h.elseBB # h.mergeBB
                         /\ b = h.elseBB /\ bb = h.mergeBB
                         /\ Held(ElseFrame(h, isTerminator)) = {bb}
                         /\ ElseFrame(h, isTerminator).kind = "else"
                         /\ ElseFrame(h, isTerminator).mergeBB = bb
                         /\ ElseFrame(h, isTerminator).jumpGenerated = ~ isTerminator
  <2>1. h.kind = "then" => h.elseBB # h.mergeBB
    BY <1>1 DEF Graph, Placed
  <2> QED
    BY <1>2, <2>1 DEF Follows, ElseFrame, Held
<1>10. h.kind # "then" => Held(h) = {b}
  BY <1>2 DEF Follows, Held
<1>11. Opens' = 1 .. Len(frames') /\ \A k \in Opens' : k \in Opens /\ (k \in 1 .. K - 1 \/ (k = K /\ h.kind = "then"))
  BY <1>1, <1>8 DEF Opens
<1>12. \A k \in Opens : (k \in 1 .. K - 1 /\ k \in Opens') \/ (k = K /\ (h.kind = "then" => k \in Opens'))
  BY <1>1, <1>8 DEF Opens
<1> HIDE DEF n, K, h
<1>13. ASSUME NEW k \in Opens'
       PROVE  /\ k \in Opens
              /\ \A c \in Held(Open(k)') : c \in Held(Open(k)) /\ c # b
              /\ k # K => Open(k)' = Open(k)
              /\ k = K => h.kind = "then" /\ Open(k)' = ElseFrame(h, isTerminator)
  <2>1. CASE k \in 1 .. K - 1
    <3>1. k # K /\ k \in Opens /\ Open(k)' = Open(k)
      BY <1>1, <1>8, <1>11, <2>1
    <3>2. \A c \in Held(Open(k)) : c # b
      BY <1>1, <1>3, <3>1 DEF Graph, Placed, h
    <3> QED
      BY <3>1, <3>2
  <2>2. CASE k = K /\ h.kind = "then"
    <3>1. Open(k)' = ElseFrame(h, isTerminator) /\ Open(k) = h /\ k \in Opens
      BY <1>1, <1>8, <2>2 DEF h
    <3> QED
      BY <1>9, <2>2, <3>1
  <2> QED
    BY <1>11, <2>1, <2>2
<1>14. ASSUME NEW k \in Opens, NEW c \in Held(Open(k)), c # b
       PROVE  k \in Opens' /\ c \in Held(Open(k)')
  <2>1. CASE k \in 1 .. K - 1 /\ k \in Opens'
    BY <1>8, <1>14, <2>1
  <2>2. CASE k = K
    <3>1. Open(k) = h /\ h.kind = "then" /\ k \in Opens'
      BY <1>10, <1>12, <1>14, <2>2 DEF h
    <3>2. Open(k)' = ElseFrame(h, isTerminator) /\ c = bb
      BY <1>8, <1>9, <1>14, <2>2, <3>1
    <3> QED
      BY <1>9, <3>1, <3>2
  <2> QED
    BY <1>12, <2>1, <2>2
<1>15. Extends
  BY <1>1, <1>5 DEF Extends
<1>16. Grown
  BY <1>1, <1>7 DEF Grown
<1>17. Shape'
  <2>1. ASSUME NEW i \in 1 .. Len(layout')
        PROVE  layout'[i] \in Ids'
    <3>1. i = Len(layout') \/ i \in 1 .. Len(layout)
      BY <1>1, <1>5
    <3> QED
      BY <1>1, <1>4, <1>5, <1>6, <3>1
  <2>2. insert' = layout'[Len(layout')] /\ Len(layout') > 0
    BY <1>1, <1>5 DEF Follows
  <2> QED
    BY <1>5, <1>6, <1>8, <2>1, <2>2 DEF Shape
<1>18. Placed'
  <2>1. \A i, j \in 1 .. Len(layout') : layout'[i] = layout'[j] => i = j
    <3>1. \A i, j \in 1 .. Len(layout) : layout[i] = layout[j] => i = j
      BY DEF Graph, Placed
    <3>2. \A i \in 1 .. Len(layout) : layout'[i] = layout[i] /\ layout[i] # b
      BY <1>4, <1>5 DEF Laid
    <3>3. \A i \in 1 .. Len(layout') : i \in 1 .. Len(layout) \/ i = Len(layout')
      BY <1>1, <1>5
    <3> QED
      BY <1>5, <3>1, <3>2, <3>3
  <2>2. ASSUME NEW k \in Opens', NEW c \in Held(Open(k)')
        PROVE  c \in Ids' /\ ~ Laid(c)'
    <3>1. k \in Opens /\ c \in Held(Open(k)) /\ c # b
      BY <1>13
    <3>2. c \in Ids /\ ~ Laid(c)
      BY <3>1 DEF Graph, Placed
    <3> QED
      BY <1>5, <1>6, <3>1, <3>2
  <2>3. ASSUME NEW j \in Opens', NEW k \in Opens', NEW c \in Held(Open(j)'), c \in Held(Open(k)')
        PROVE  j = k
    BY <1>13, <2>3 DEF Graph, Placed
  <2>4. ASSUME NEW k \in Opens'
        PROVE  /\ Open(k)'.kind = "then"  => Open(k)'.elseBB # Open(k)'.mergeBB
               /\ Open(k)'.kind = "while" => \A c : c = Open(k)'.condBB => Laid(c)'
               /\ Len(layout') > 1
    <3>1. CASE k # K
      <4>1. k \in Opens /\ Open(k)' = Open(k)
        BY <1>13, <3>1
      <4>2. /\ Open(k).kind = "then"  => Open(k).elseBB # Open(k).mergeBB
            /\ Open(k).kind = "while" => Laid(Open(k).condBB)
        BY <4>1 DEF Graph, Placed
      <4> QED
        BY <1>1, <1>5, <4>1, <4>2
    <3>2. CASE k = K
      <4>1. Open(k)'.kind = "else"
        BY <1>9, <1>13, <3>2
      <4> QED
        BY <1>1, <1>5, <4>1
    <3> QED
      BY <3>1, <3>2
  <2> QED
    BY <2>1, <2>2, <2>3, <2>4 DEF Placed, Held, Laid
<1>19. ASSUME NEW i \in Ids, NEW c \in blocks'[i].succ
       PROVE  c \in blocks[i].succ \/ (i = insert /\ ~ isTerminator /\ c = bb)
  BY <1>7, <1>19
<1>20. Jumps'
  <2>1. ASSUME NEW i \in Ids, NEW c \in blocks'[i].succ
        PROVE  Laid(c)' \/ \E k \in Opens' : c \in Held(Open(k)')
    <3>1. Laid(c) \/ \E k \in Opens : c \in Held(Open(k))
      BY <1>1, <1>3, <1>19, <2>1 DEF Graph, Jumps, h
    <3>2. CASE Laid(c) \/ c = b
      BY <1>5, <3>2
    <3>3. ASSUME NEW k \in Opens, c \in Held(Open(k)), c # b
          PROVE  k \in Opens' /\ c \in Held(Open(k)')
      BY <1>14, <3>3
    <3> QED
      BY <3>1, <3>2, <3>3
  <2>2. ASSUME NEW k \in Opens', Unjumped(Open(k)'), NEW i \in Ids
        PROVE  Open(k)'.mergeBB \notin blocks'[i].succ
    <3>1. CASE k # K
      <4>1. k \in Opens /\ Open(k)' = Open(k)
        BY <1>13, <3>1
      <4>2. Open(k).mergeBB \notin blocks[i].succ
        BY <2>2, <4>1 DEF Graph, Jumps
      <4>3. Open(k).mergeBB \in Held(Open(k))
        BY <2>2, <4>1 DEF Unjumped, Held
      <4>4. Open(k).mergeBB # bb
        <5>1. ~ Laid(Open(k).mergeBB)
          BY <4>1, <4>3 DEF Graph, Placed
        <5>2. Open(k).mergeBB \notin Held(h)
          BY <1>1, <3>1, <4>1, <4>3 DEF Graph, Placed, h
        <5> QED
          BY <1>3, <5>1, <5>2
      <4>5. Open(k).mergeBB \notin blocks'[i].succ
        BY <1>19, <4>2, <4>4
      <4> QED
        BY <4>1, <4>5
    <3>2. CASE k = K
      <4>1. h.kind = "then" /\ Open(k)' = ElseFrame(h, isTerminator)
        BY <1>13, <3>2
      <4>2. isTerminator /\ Open(k)'.mergeBB = bb
        BY <1>9, <2>2, <4>1 DEF Unjumped
      <4>3. Unjumped(h) /\ h.mergeBB = bb
        BY <1>9, <4>1 DEF Unjumped
      <4>4. bb \notin blocks[i].succ
        BY <1>1, <4>3 DEF Graph, Jumps, h
      <4>5. bb \notin blocks'[i].succ
        BY <1>19, <4>2, <4>4
      <4> QED
        BY <4>2, <4>5
    <3> QED
      BY <3>1, <3>2
  <2>3. ASSUME NEW k \in Opens', NEW c \in Nat, Awaits(Open(k)', c)
        PROVE  Reached(c)'
    <3>1. CASE k # K
      <4>1. k \in Opens /\ Open(k)' = Open(k)
        BY <1>13, <3>1
      <4>2. Reached(c)
        BY <2>3, <4>1 DEF Graph, Jumps
      <4> QED
        BY <1>1, <1>15, <1>16, <4>2, StillReached
    <3>2. CASE k = K
      <4>1. h.kind = "then" /\ Open(k)' = ElseFrame(h, isTerminator)
        BY <1>13, <3>2
      <4>2. ~ isTerminator /\ c = bb
        BY <1>9, <2>3, <4>1 DEF Awaits
      <4>3. Len(layout) \in 1 .. Len(layout') /\ layout'[Len(layout)] = insert
        BY <1>1, <1>5
      <4>4. c \in blocks'[insert].succ
        BY <1>7, <4>2
      <4> QED
        BY <4>3, <4>4 DEF Reached
    <3> QED
      BY <3>1, <3>2
  <2> QED
    BY <1>6, <2>1, <2>2, <2>3 DEF Jumps, Held, Unjumped, Awaits
<1>21. EarlierPredecessor'
  <2>1. PICK j \in 1 .. Len(layout) : b \in blocks'[layout[j]].succ
    <3>1. CASE Awaits(h, b)
      <4>1. Reached(b)
        BY <1>1, <1>4, <3>1 DEF Graph, Jumps, h
      <4>2. PICK j \in 1 .. Len(layout) : b \in blocks[layout[j]].succ
        BY <4>1 DEF Reached
      <4>3. b \in blocks'[layout[j]].succ
        BY <1>1, <1>16, <4>2 DEF Grown
      <4> QED
        BY <4>3
    <3>2. CASE ~ isTerminator /\ b = bb
      <4>1. Len(layout) \in 1 .. Len(layout) /\ b \in blocks'[layout[Len(layout)]].succ
        BY <1>1, <1>7, <3>2
      <4> QED
        BY <4>1
    <3>3. Awaits(h, b) \/ (~ isTerminator /\ b = bb)
      BY <1>2 DEF Follows, Awaits
    <3> QED
      BY <3>1, <3>2, <3>3
  <2>2. ASSUME NEW i \in Len(layout) + 1 .. Len(layout')
        PROVE  \E k \in 1 .. i - 1 : layout'[i] \in blocks'[layout'[k]].succ
    <3>1. i = Len(layout') /\ j \in 1 .. i - 1
      BY <1>1, <1>5
    <3>2. layout'[i] = b /\ layout'[j] = layout[j]
      BY <1>5, <3>1
    <3> QED
      BY <2>1, <3>1, <3>2
  <2> QED
    BY <1>15, <1>16, <2>2, PredecessorsKept
<1>22. Finished'
  <2>1. \A i : i \notin Len(layout) + 1 .. Len(layout') - 1
    BY <1>1, <1>5
  <2>2. Sealed
    BY <1>4, <1>7, <2>1 DEF Sealed
  <2> QED
    BY <1>1, <1>15, <1>16, <2>2, FinishedKept
<1> QED
  BY <1>17, <1>18, <1>20, <1>21, <1>22 DEF Graph

-----------------------------------------------------------------------------
(* Steps that leave the blocks alone.                                      *)

\* A block is entered: it holds nothing.
LEMMA GraphPushed ==
  ASSUME Graph, UNCHANGED cfg, Len(layout) > 0, frames' = << [kind |-> "block"] >> \o frames
  PROVE  Graph'
<1> DEFINE K == Len(frames)
           f == [kind |-> "block"]
<1>1. Shape /\ K \in Nat /\ Opens = 1 .. K
  BY DEF Graph, Shape, Opens
<1>2. blocks' = blocks /\ layout' = layout /\ insert' = insert /\ Ids' = Ids
  BY DEF cfg, Ids
<1>3. f \in Frame /\ f.kind = "block" /\ Held(f) = {}
  BY DEF Frame, Held
<1>4. /\ frames' \in Seq(Frame)
      /\ Len(frames') = K + 1
      /\ \A k \in 1 .. K : Open(k)' = Open(k)
      /\ \A k : k = K + 1 => Open(k)' = f
      /\ Opens' = 1 .. K + 1
  BY <1>1, <1>3, FramePushed DEF Opens
<1> HIDE DEF K, f
<1>5. ASSUME NEW k \in Opens'
      PROVE  (k \in Opens /\ Open(k)' = Open(k)) \/ Open(k)' = f
  BY <1>1, <1>4
<1>6. ASSUME NEW k \in Opens
      PROVE  k \in Opens' /\ Open(k)' = Open(k)
  BY <1>1, <1>4
<1>7. Shape'
  BY <1>1, <1>2, <1>4 DEF Shape
<1>8. ASSUME NEW k \in Opens', NEW b \in Held(Open(k)')
      PROVE  k \in Opens /\ b \in Held(Open(k))
  BY <1>3, <1>5
<1>9. Placed'
  <2>1. ASSUME NEW k \in Opens', NEW b \in Held(Open(k)')
        PROVE  b \in Ids /\ ~ Laid(b)
    BY <1>8 DEF Graph, Placed
  <2>2. ASSUME NEW k \in Opens', NEW l \in Opens', NEW b \in Held(Open(k)'), b \in Held(Open(l)')
        PROVE  k = l
    BY <1>8, <2>2 DEF Graph, Placed
  <2>3. ASSUME NEW k \in Opens'
        PROVE  /\ Open(k)'.kind = "then"  => Open(k)'.elseBB # Open(k)'.mergeBB
               /\ Open(k)'.kind = "while" => \A c : c = Open(k)'.condBB => Laid(c)
               /\ Open(k)'.kind # "block" => Len(layout) > 1
    BY <1>3, <1>5 DEF Graph, Placed
  <2> QED
    BY <1>2, <2>1, <2>2, <2>3 DEF Graph, Placed, Held, Laid
<1>10. Jumps'
  <2>1. ASSUME NEW i \in Ids, NEW b \in blocks[i].succ
        PROVE  Laid(b) \/ \E k \in Opens' : b \in Held(Open(k)')
    BY <1>6 DEF Graph, Jumps
  <2>2. ASSUME NEW k \in Opens', Unjumped(Open(k)'), NEW i \in Ids
        PROVE  Open(k)'.mergeBB \notin blocks[i].succ
    BY <1>3, <1>5, <2>2 DEF Graph, Jumps, Unjumped
  <2>3. ASSUME NEW k \in Opens', NEW b \in Nat, Awaits(Open(k)', b)
        PROVE  Reached(b)
    BY <1>3, <1>5, <2>3 DEF Graph, Jumps, Awaits
  <2> QED
    BY <1>2, <2>1, <2>2, <2>3 DEF Jumps, Held, Unjumped, Awaits, Laid, Reached
<1>11. EarlierPredecessor' /\ Finished'
  BY <1>2 DEF Graph, EarlierPredecessor, Finished, NonLastTerminated
<1> QED
  BY <1>7, <1>9, <1>10, <1>11 DEF Graph

\* A statement ends that holds nothing, or an ifcont that nothing jumps to: it
\* is deleted.
LEMMA GraphPopped ==
  ASSUME Graph, UNCHANGED cfg, frames # << >>, frames' = Tail(frames),
         Head(frames).kind = "block" \/ (Head(frames).kind = "else" /\ ~ Head(frames).jumpGenerated)
  PROVE  Graph'
<1> DEFINE K == Len(frames)
           h == Open(K)
<1>1. Shape /\ K \in Nat /\ K > 0 /\ Opens = 1 .. K /\ K \in Opens /\ Len(layout) > 0
  BY DEF Graph, Shape, Opens
<1>2. blocks' = blocks /\ layout' = layout /\ insert' = insert /\ Ids' = Ids
  BY DEF cfg, Ids
<1>3. /\ frames' \in Seq(Frame)
      /\ Len(frames') = K - 1
      /\ \A k \in 1 .. K - 1 : Open(k)' = Open(k)
      /\ h = Head(frames)
      /\ Opens' = 1 .. K - 1
  BY <1>1, FramePopped DEF Opens
<1>4. \A b \in Held(h) : \A i \in Ids : b \notin blocks[i].succ
  <2>1. CASE h.kind = "block"
    BY <2>1 DEF Held
  <2>2. CASE h.kind = "else" /\ ~ h.jumpGenerated
    BY <1>1, <2>2 DEF Held, Unjumped, Graph, Jumps
  <2> QED
    BY <1>3, <2>1, <2>2
<1> HIDE DEF K, h
<1>5. ASSUME NEW k \in Opens'
      PROVE  k \in Opens /\ Open(k)' = Open(k)
  BY <1>1, <1>3
<1>6. ASSUME NEW k \in Opens
      PROVE  k = K \/ (k \in Opens' /\ Open(k)' = Open(k))
  BY <1>1, <1>3
<1>7. Shape'
  BY <1>1, <1>2, <1>3 DEF Shape
<1>8. Placed'
  <2>1. ASSUME NEW k \in Opens', NEW b \in Held(Open(k)')
        PROVE  b \in Ids /\ ~ Laid(b)
    BY <1>5 DEF Graph, Placed
  <2>2. ASSUME NEW k \in Opens', NEW l \in Opens', NEW b \in Held(Open(k)'), b \in Held(Open(l)')
        PROVE  k = l
    BY <1>5, <2>2 DEF Graph, Placed
  <2>3. ASSUME NEW k \in Opens'
        PROVE  /\ Open(k)'.kind = "then"  => Open(k)'.elseBB # Open(k)'.mergeBB
               /\ Open(k)'.kind = "while" => \A c : c = Open(k)'.condBB => Laid(c)
               /\ Open(k)'.kind # "block" => Len(layout) > 1
    BY <1>5 DEF Graph, Placed
  <2> QED
    BY <1>2, <2>1, <2>2, <2>3 DEF Graph, Placed, Held, Laid
<1>9. Jumps'
  <2>1. ASSUME NEW i \in Ids, NEW b \in blocks[i].succ
        PROVE  Laid(b) \/ \E k \in Opens' : b \in Held(Open(k)')
    <3>1. ASSUME NEW k \in Opens, b \in Held(Open(k))
          PROVE  k \in Opens' /\ b \in Held(Open(k)')
      BY <1>4, <1>6, <3>1 DEF h
    <3> QED
      BY <3>1 DEF Graph, Jumps
  <2>2. ASSUME NEW k \in Opens', Unjumped(Open(k)'), NEW i \in Ids
        PROVE  Open(k)'.mergeBB \notin blocks[i].succ
    BY <1>5, <2>2 DEF Graph, Jumps
  <2>3. ASSUME NEW k \in Opens', NEW b \in Nat, Awaits(Open(k)', b)
        PROVE  Reached(b)
    BY <1>5, <2>3 DEF Graph, Jumps
  <2> QED
    BY <1>2, <2>1, <2>2, <2>3 DEF Jumps, Held, Unjumped, Awaits, Laid, Reached
<1>10. EarlierPredecessor' /\ Finished'
  BY <1>2 DEF Graph, EarlierPredecessor, Finished, NonLastTerminated
<1> QED
  BY <1>7, <1>8, <1>9, <1>10 DEF Graph

LEMMA GraphUnchanged ==
  ASSUME Graph, UNCHANGED << cfg, frames >>, fn' \in {fn, Null}
  PROVE  Graph'
<1>1. UNCHANGED << layout, insert, frames >> /\ blocks' = blocks
  BY DEF cfg
<1>2. Filled(blocks', {})
  BY <1>1, NothingFilled DEF Graph
<1> QED
  BY <1>1, <1>2, GraphFilled

\* A body begins with one empty block and no statement, or there is none.
LEMMA GraphStarts ==
  ASSUME frames' = << >>,
         \/ StartBody
         \/ blocks' = << >> /\ layout' = << >> /\ insert' = 0 /\ fn' = Null
  PROVE  Graph'
<1>1. NewBlock \in Block /\ NewBlock.succ = {}
  BY DEF NewBlock, Block
<1>2. CASE StartBody
  <2>1. /\ blocks' = << NewBlock >> /\ layout' = << 1 >> /\ insert' = 1
        /\ blocks' \in Seq(Block) /\ layout' \in Seq(Nat) /\ Len(blocks') = 1 /\ Len(layout') = 1
        /\ \A i \in 1 .. 1 : blocks'[i] = NewBlock /\ layout'[i] = 1
    BY <1>1, <1>2 DEF StartBody
  <2>2. Ids' = 1 .. 1 /\ Opens' = {} /\ frames' \in Seq(Frame)
    BY <2>1 DEF Ids, Opens
  <2>3. Shape'
    BY <2>1, <2>2 DEF Shape
  <2>4. Placed'
    BY <2>1, <2>2 DEF Placed
  <2>5. Jumps'
    BY <1>1, <2>1, <2>2 DEF Jumps
  <2>6. EarlierPredecessor' /\ Finished'
    BY <2>1 DEF EarlierPredecessor, Finished, NonLastTerminated
  <2> QED
    BY <2>3, <2>4, <2>5, <2>6 DEF Graph
<1>3. CASE blocks' = << >> /\ layout' = << >> /\ insert' = 0 /\ fn' = Null
  <2>1. /\ blocks' \in Seq(Block) /\ layout' \in Seq(Nat) /\ Len(blocks') = 0 /\ Len(layout') = 0
        /\ Ids' = {} /\ Opens' = {} /\ frames' \in Seq(Frame)
    BY <1>3 DEF Ids, Opens
  <2>2. Shape'
    BY <1>3, <2>1 DEF Shape
  <2>3. Placed' /\ Jumps'
    BY <2>1 DEF Placed, Jumps
  <2>4. EarlierPredecessor' /\ Finished'
    BY <2>1 DEF EarlierPredecessor, Finished, NonLastTerminated
  <2> QED
    BY <2>2, <2>3, <2>4 DEF Graph
<1> QED
  BY <1>2, <1>3

-----------------------------------------------------------------------------
(* The actions.                                                            *)

\* The end of an arm or a loop body: a terminator, or an empty block that is
\* taken for one that has a terminator.
LEMMA LeftEnds ==
  ASSUME Graph, frames # << >>, NEW bb \in Nat, NEW isTerminator \in BackIsTerminator,
         LeaveFor(bb, isTerminator)
  PROVE  /\ isTerminator \in BOOLEAN
         /\ Filled(blocks', IF isTerminator THEN {} ELSE {bb})
         /\ blocks'[insert].body # "open"
         /\ ~ isTerminator => blocks'[insert].body = "closed"
<1>1. /\ Shape /\ Len(layout) > 0
      /\ insert \in Ids /\ insert = layout[Len(layout)]
  BY InsertIsLaid DEF Graph, Shape
<1>2. /\ isTerminator \in BOOLEAN
      /\ isTerminator => blocks[insert].body # "open"
  <2>1. Last(layout) = insert
    BY <1>1 DEF Last
  <2>2. BackIsTerminator = IF blocks[insert].body = "empty" THEN BOOLEAN ELSE {blocks[insert].body = "closed"}
    BY <2>1 DEF BackIsTerminator
  <2>3. CASE blocks[insert].body = "empty"
    BY <2>2, <2>3
  <2>4. CASE blocks[insert].body # "empty"
    <3>1. isTerminator = (blocks[insert].body = "closed")
      BY <2>2, <2>4
    <3> QED
      BY <3>1
  <2> QED
    BY <2>3, <2>4
<1>3. CASE isTerminator
  <2>1. blocks' = blocks
    BY <1>3 DEF LeaveFor
  <2> QED
    BY <1>1, <1>2, <1>3, <2>1, NothingFilled
<1>4. CASE ~ isTerminator
  <2>1. blocks' = EmitTerminator(blocks, insert, {bb})
    BY <1>4 DEF LeaveFor
  <2>2. Closed(blocks', {bb})
    BY <1>1, <2>1, NothingFilled, TerminatorCloses
  <2> QED
    BY <1>2, <1>4, <2>2 DEF Closed
<1> QED
  BY <1>2, <1>3, <1>4

LEMMA GraphStatement ==
  ASSUME Graph, NextStatement, frames' = frames, fn' = fn, UNCHANGED << layout, insert >>,
         \/ blocks' = blocks
         \/ \E name : \/ blocks' = InsertAlloca(name)
                      \/ blocks' = [InsertAlloca(name) EXCEPT ![insert] = AddOp(@)]
         \/ blocks' = [blocks EXCEPT ![insert] = AddOp(@)]
         \/ \E e : blocks' = EmitExpr(blocks, e)
         \/ \E e : blocks' = EmitTerminator(EmitExpr(blocks, e), insert, {})
         \/ blocks' = EmitTerminator(blocks, insert, {})
  PROVE  Graph'
<1>1. Shape /\ Len(layout) > 0 /\ insert \in Ids
  BY InsertIsLaid DEF Graph, Shape, NextStatement
<1>2. Filled(blocks', {})
  <2>1. Filled(blocks, {})
    BY <1>1, NothingFilled
  <2>2. ASSUME NEW name
        PROVE  Filled(InsertAlloca(name), {}) /\ Filled([InsertAlloca(name) EXCEPT ![insert] = AddOp(@)], {})
    BY <1>1, AllocaFilled, OpFilled
  <2>3. Filled([blocks EXCEPT ![insert] = AddOp(@)], {})
    BY <1>1, <2>1, OpFilled
  <2>4. ASSUME NEW e
        PROVE  Filled(EmitExpr(blocks, e), {}) /\ Filled(EmitTerminator(EmitExpr(blocks, e), insert, {}), {})
    BY <1>1, ExprFilled, TerminatorCloses DEF Closed
  <2>5. Filled(EmitTerminator(blocks, insert, {}), {})
    BY <1>1, <2>1, TerminatorCloses DEF Closed
  <2> QED
    BY <2>1, <2>2, <2>3, <2>4, <2>5
<1> QED
  BY <1>2, GraphFilled

LEMMA GraphGenerateIf ==
  ASSUME Graph, NEW cond, NEW tru, NEW fals \in BOOLEAN, GenerateIf(cond, tru, fals)
  PROVE  Graph'
<1> DEFINE n  == Len(blocks)
           bs == EmitTerminator(EmitExpr(blocks, cond), insert, {n + 1, n + 2})
<1>1. Shape /\ Len(layout) > 0 /\ insert \in Ids /\ n \in Nat
  BY InsertIsLaid DEF Graph, Shape, GenerateIf, NextStatement
<1>2. CASE UNCHANGED << cfg, frames, fn >>
  BY <1>2, GraphUnchanged
<1>3. CASE ~ UNCHANGED << cfg, frames, fn >>
  <2>1. /\ blocks' = bs \o << NewBlock, NewBlock, NewBlock >>
        /\ layout' = Append(layout, n + 1)
        /\ insert' = n + 1
        /\ frames' = << [kind |-> "then", fals |-> fals, elseBB |-> n + 2, mergeBB |-> n + 3] >> \o frames
    BY <1>3 DEF GenerateIf, Crash, body, Enter
  <2>2. {n + 1, n + 2} \in SUBSET Nat
    BY <1>1
  <2>3. Closed(bs, {n + 1, n + 2})
    BY <1>1, <2>2, ExprFilled, TerminatorCloses
  <2>4. EnterIf(bs, fals)
    BY <1>1, <2>1, <2>3 DEF EnterIf
  <2> QED
    BY <2>4, GraphIf
<1> QED
  BY <1>2, <1>3

LEMMA GraphGenerateWhile ==
  ASSUME Graph, NEW cond, NEW hasBody, GenerateWhile(cond, hasBody)
  PROVE  Graph'
<1> DEFINE n  == Len(blocks)
           bs == EmitTerminator(blocks, insert, {n + 1})
           cb == [NewBlock EXCEPT !.body = IF cond.emits THEN "open" ELSE "empty"]
           cs == bs \o << cb, NewBlock, NewBlock >>
<1>1. Shape /\ Len(layout) > 0 /\ insert \in Ids /\ n \in Nat
  BY InsertIsLaid DEF Graph, Shape, GenerateWhile, NextStatement
<1>2. CASE UNCHANGED << cfg, frames, fn >>
  BY <1>2, GraphUnchanged
<1>3. CASE ~ UNCHANGED << cfg, frames, fn >>
  <2>1. /\ blocks' = EmitTerminator(cs, n + 1, {n + 2, n + 3})
        /\ layout' = layout \o << n + 1, n + 2 >>
        /\ insert' = n + 2
        /\ frames' = << [kind |-> "while", condBB |-> n + 1, contBB |-> n + 3] >> \o frames
    BY <1>3 DEF GenerateWhile, Crash, body, Enter
  <2>2. {n + 1} \in SUBSET Nat /\ {n + 2, n + 3} \in SUBSET Nat
    BY <1>1
  <2>3. Closed(bs, {n + 1})
    BY <1>1, <2>2, NothingFilled, TerminatorCloses
  <2>4. bs \in Seq(Block) /\ Len(bs) = n
    BY <2>3 DEF Closed, Filled
  <2>5. cb \in Block /\ cb.succ = {} /\ NewBlock \in Block
    BY DEF NewBlock, Block
  <2> HIDE DEF bs, cb, n
  <2>6. /\ cs \in Seq(Block) /\ Len(cs) = n + 3
        /\ \A i \in 1 .. n : cs[i] = bs[i]
        /\ cs[n + 1] = cb /\ cs[n + 2] = NewBlock /\ cs[n + 3] = NewBlock
    BY <1>1, <2>4, <2>5
  <2> HIDE DEF cs
  <2>7. LET b == AddTerminator(cb, {n + 2, n + 3})
        IN  b \in Block /\ b.body = "closed" /\ b.succ = {n + 2, n + 3}
    BY <2>2, <2>5, AddTerminatorCloses
  <2>8. blocks' = [cs EXCEPT ![n + 1] = AddTerminator(cb, {n + 2, n + 3})] /\ n + 1 \in 1 .. Len(cs)
    BY <1>1, <2>1, <2>6 DEF EmitTerminator
  <2>9. /\ blocks' \in Seq(Block) /\ Len(blocks') = n + 3
        /\ blocks'[n + 1] = AddTerminator(cb, {n + 2, n + 3})
        /\ \A i \in 1 .. n + 3 : i # n + 1 => blocks'[i] = cs[i]
    BY <2>6, <2>7, <2>8, Replaced
  <2>10. /\ \A i \in 1 .. n : blocks'[i] = bs[i]
         /\ blocks'[n + 1].body = "closed" /\ blocks'[n + 1].succ = {n + 2, n + 3}
         /\ blocks'[n + 2] = NewBlock /\ blocks'[n + 3] = NewBlock
    <3>1. /\ n + 2 \in 1 .. n + 3 /\ n + 3 \in 1 .. n + 3 /\ n + 2 # n + 1 /\ n + 3 # n + 1
          /\ \A i \in 1 .. n : i \in 1 .. n + 3 /\ i # n + 1
      BY <1>1
    <3>2. \A i \in 1 .. n : blocks'[i] = bs[i]
      BY <2>6, <2>9, <3>1
    <3>3. blocks'[n + 2] = NewBlock /\ blocks'[n + 3] = NewBlock
      BY <2>6, <2>9, <3>1
    <3> QED
      BY <2>7, <2>9, <3>2, <3>3
  <2>11. EnterWhile(bs)
    BY <1>1, <2>1, <2>3, <2>9, <2>10 DEF EnterWhile, n, Ids
  <2> QED
    BY <2>11, GraphWhile
<1> QED
  BY <1>2, <1>3

LEMMA GraphDone ==
  ASSUME Graph, ThenDone \/ ElseDone \/ WhileDone
  PROVE  Graph'
<1>1. /\ Shape /\ Len(layout) > 0 /\ frames # << >>
      /\ Head(frames) \in Frame /\ Open(Len(frames)) = Head(frames) /\ Len(frames) \in Opens
  BY DEF Graph, Shape, ThenDone, ElseDone, WhileDone, ChildDone, Open, Opens
<1>2. Head(frames).kind = "while" => Head(frames).condBB \in Nat
  BY <1>1 DEF Frame
<1>3. Head(frames).kind \in {"then", "else"} => Head(frames).mergeBB \in Nat
  BY <1>1 DEF Frame
<1>4. CASE ThenDone
  <2>1. CASE UNCHANGED << cfg, frames, fn >>
    BY <2>1, GraphUnchanged
  <2>2. CASE ~ UNCHANGED << cfg, frames, fn >>
    <3>1. PICK isTerminator \in BackIsTerminator :
            /\ Head(frames).kind = "then"
            /\ LeaveFor(Head(frames).mergeBB, isTerminator)
            /\ frames' = << ElseFrame(Head(frames), isTerminator) >> \o Tail(frames)
            /\ layout' = Append(layout, Head(frames).elseBB) /\ insert' = Head(frames).elseBB
      BY <1>4, <2>2 DEF ThenDone, ChildDone, Crash, body, PushBlock
    <3>2. Follows(Head(frames).elseBB, Head(frames).mergeBB, isTerminator) /\ isTerminator \in BOOLEAN
      BY <1>1, <1>3, <3>1, LeftEnds DEF Follows
    <3> QED
      BY <3>2, GraphFollows
  <2> QED
    BY <2>1, <2>2
<1>5. CASE ElseDone
  <2>1. PICK isTerminator \in BackIsTerminator :
          /\ LeaveFor(Head(frames).mergeBB, isTerminator)
          /\ IF JumpGenerated(Head(frames), isTerminator)
             THEN PushBlock(Head(frames).mergeBB)
             ELSE UNCHANGED << layout, insert >>
    BY <1>5 DEF ElseDone
  <2>2. Head(frames).kind = "else" /\ frames' = Tail(frames)
    BY <1>5 DEF ElseDone, ChildDone, Leave
  <2>3. CASE JumpGenerated(Head(frames), isTerminator)
    <3>1. layout' = Append(layout, Head(frames).mergeBB) /\ insert' = Head(frames).mergeBB
      BY <2>1, <2>3 DEF PushBlock
    <3>2. Follows(Head(frames).mergeBB, Head(frames).mergeBB, isTerminator) /\ isTerminator \in BOOLEAN
      BY <1>1, <1>3, <2>1, <2>2, <2>3, <3>1, LeftEnds DEF Follows, JumpGenerated
    <3> QED
      BY <3>2, GraphFollows
  <2>4. CASE ~ JumpGenerated(Head(frames), isTerminator)
    <3>1. UNCHANGED << layout, insert >> /\ ~ Head(frames).jumpGenerated /\ isTerminator
      BY <2>1, <2>4 DEF JumpGenerated
    <3>2. UNCHANGED cfg
      BY <2>1, <3>1 DEF LeaveFor, cfg
    <3> QED
      BY <1>1, <2>2, <3>1, <3>2, GraphPopped
  <2> QED
    BY <2>3, <2>4
<1>6. CASE WhileDone
  <2>1. PICK isTerminator \in BackIsTerminator : LeaveFor(Head(frames).condBB, isTerminator)
    BY <1>6 DEF WhileDone
  <2>2. /\ Head(frames).kind = "while" /\ frames' = Tail(frames)
        /\ layout' = Append(layout, Head(frames).contBB) /\ insert' = Head(frames).contBB
    BY <1>6 DEF WhileDone, ChildDone, Leave, PushBlock
  <2>3. Follows(Head(frames).contBB, Head(frames).condBB, isTerminator) /\ isTerminator \in BOOLEAN
    BY <1>1, <1>2, <2>1, <2>2, LeftEnds DEF Follows
  <2> QED
    BY <2>3, GraphFollows
<1> QED
  BY <1>4, <1>5, <1>6

LEMMA GraphNext ==
  ASSUME Graph, [Next]_vars
  PROVE  Graph'
<1>1. CASE UNCHANGED vars
  BY <1>1, GraphUnchanged DEF vars, body
<1>2. ASSUME NEW f \in Functions, GenerateDeclaration(f) \/ GenerateFunction(f) \/ RedefineFunction(f)
      PROVE  Graph'
  <2>1. CASE GenerateFunction(f)
    BY <2>1, GraphStarts DEF GenerateFunction
  <2>2. CASE GenerateDeclaration(f) \/ RedefineFunction(f)
    BY <2>2, GraphUnchanged DEF GenerateDeclaration, RedefineFunction, vars, body
  <2> QED
    BY <1>2, <2>1, <2>2
<1>3. ASSUME NEW name \in VarNames, NEW type \in VarTypes, GenerateVarDecl(name, type)
      PROVE  Graph'
  BY <1>3, GraphStatement DEF GenerateVarDecl, Proceed
<1>4. ASSUME NEW decl \in VarTypes \cup {Null}, NEW lvar \in VarNames, NEW value \in Exprs,
             GenerateAssign(decl, lvar, value)
      PROVE  Graph'
  <2>1. CASE UNCHANGED << cfg, frames, fn >>
    BY <2>1, GraphUnchanged
  <2>2. CASE ~ UNCHANGED << cfg, frames, fn >>
    <3>1. NextStatement /\ frames' = frames /\ fn' = fn /\ UNCHANGED << layout, insert >>
      BY <1>4, <2>2 DEF GenerateAssign, Proceed, Crash, body, cfg
    <3>2. \/ blocks' = blocks
          \/ blocks' = InsertAlloca(lvar)
          \/ blocks' = [InsertAlloca(lvar) EXCEPT ![insert] = AddOp(@)]
          \/ blocks' = [blocks EXCEPT ![insert] = AddOp(@)]
      BY <1>4, <2>2 DEF GenerateAssign, Crash, body, cfg
    <3> QED
      BY <3>1, <3>2, GraphStatement
  <2> QED
    BY <2>1, <2>2
<1>5. ASSUME NEW value \in Exprs \cup {Null}, GenerateReturn(value)
      PROVE  Graph'
  <2>1. CASE UNCHANGED << cfg, frames, fn >>
    BY <2>1, GraphUnchanged
  <2>2. CASE ~ UNCHANGED << cfg, frames, fn >>
    <3>1. NextStatement /\ frames' = frames /\ fn' = fn /\ UNCHANGED << layout, insert >>
      BY <1>5, <2>2 DEF GenerateReturn, Proceed, Crash, body, cfg
    <3>2. \/ blocks' = EmitTerminator(blocks, insert, {})
          \/ blocks' = EmitTerminator(EmitExpr(blocks, value), insert, {})
      BY <1>5, <2>2 DEF GenerateReturn, Crash, body, cfg
    <3> QED
      BY <3>1, <3>2, GraphStatement
  <2> QED
    BY <2>1, <2>2
<1>6. ASSUME NEW expr \in Exprs, GenerateExprStmt(expr)
      PROVE  Graph'
  <2>1. CASE UNCHANGED << cfg, frames, fn >>
    BY <2>1, GraphUnchanged
  <2>2. CASE ~ UNCHANGED << cfg, frames, fn >>
    BY <1>6, <2>2, GraphStatement DEF GenerateExprStmt, Proceed, Crash, body, cfg
  <2> QED
    BY <2>1, <2>2
<1>7. ASSUME NEW cond \in Exprs, NEW tru \in BOOLEAN, NEW fals \in BOOLEAN, GenerateIf(cond, tru, fals)
      PROVE  Graph'
  BY <1>7, GraphGenerateIf
<1>8. ASSUME NEW cond \in Exprs, NEW hasBody \in BOOLEAN, GenerateWhile(cond, hasBody)
      PROVE  Graph'
  BY <1>8, GraphGenerateWhile
<1>9. CASE GenerateBlock
  <2>1. Len(layout) > 0 /\ frames' = << [kind |-> "block"] >> \o frames /\ UNCHANGED cfg
    BY <1>9 DEF GenerateBlock, NextStatement, Enter, Graph, Shape
  <2> QED
    BY <2>1, GraphPushed
<1>10. CASE ThenDone \/ ElseDone \/ WhileDone
  BY <1>10, GraphDone
<1>11. CASE BlockDone
  <2>1. frames # << >> /\ Head(frames).kind = "block" /\ frames' = Tail(frames) /\ UNCHANGED cfg
    BY <1>11 DEF BlockDone, Leave
  <2> QED
    BY <2>1, GraphPopped
<1>12. CASE FunctionDone
  BY <1>12, GraphStarts DEF FunctionDone
<1>13. CASE ProgramDone \/ Done
  BY <1>13, GraphUnchanged DEF ProgramDone, Done, vars, body
<1> QED
  BY <1>1, <1>2, <1>3, <1>4, <1>5, <1>6, <1>7, <1>8, <1>9, <1>10, <1>11, <1>12, <1>13 DEF Next

LEMMA GraphBegins == Init => Graph
<1> SUFFICES ASSUME Init
             PROVE  Graph
  OBVIOUS
<1>1. /\ Len(blocks) = 0 /\ Len(layout) = 0 /\ Len(frames) = 0
      /\ blocks \in Seq(Block) /\ layout \in Seq(Nat) /\ frames \in Seq(Frame)
      /\ Ids = {} /\ Opens = {} /\ fn = Null /\ frames = << >>
  BY DEF Init, Ids, Opens
<1>2. Shape /\ Placed /\ Jumps
  BY <1>1 DEF Shape, Placed, Jumps
<1>3. EarlierPredecessor /\ Finished
  BY <1>1 DEF EarlierPredecessor, Finished, NonLastTerminated
<1> QED
  BY <1>2, <1>3 DEF Graph

LEMMA GraphAlways == Spec => []Graph
<1>1. Init => Graph
  BY GraphBegins
<1>2. Graph /\ [Next]_vars => Graph'
  BY GraphNext
<1> QED
  BY <1>1, <1>2, PTL DEF Spec

\* Whatever the statements of a body and however deep they are nested: no jump
\* goes to a block that was deleted, no block but the last lacks its terminator
\* and each can be reached (StmtAST.cpp:90, Function.cpp:60).
THEOREM ClosedGraph == Spec => []GraphIsClosed
  BY GraphAlways, GraphCloses, PTL

\* The block that generate() asks for its terminator is the one that it then
\* appends to (StmtAST.cpp).
THEOREM InsertAtBack == Spec => []InsertIsBack
  BY GraphAlways, GraphCloses, PTL

-----------------------------------------------------------------------------
(* Bodies that the verifier accepts.                                       *)

\* Something can be appended where the Builder is.
Writable == blocks[insert].body # "closed"

Fitting(value) == value.outcome = "value" /\ value.fits

\* The alloca that an assignment stores to.
Target(decl, lvar) ==
  FindAlloca(IF decl = Null THEN AllocaValues ELSE CreateAlloca(lvar, decl), lvar)

\* A statement whose values fit and whose arms and bodies are statements.
CarefulStatement ==
  \/ \E name \in VarNames, type \in VarTypes : GenerateVarDecl(name, type)
  \/ \E decl \in VarTypes \cup {Null}, lvar \in VarNames, value \in Exprs :
       /\ GenerateAssign(decl, lvar, value)
       /\ Target(decl, lvar) # Null => Fitting(value) /\ Target(decl, lvar).fn = fn
  \/ \E value \in Exprs : value # Null /\ Fitting(value) /\ GenerateReturn(value)
  \/ IsVoid /\ GenerateReturn(Null)
  \/ \E expr \in Exprs : Fitting(expr) /\ GenerateExprStmt(expr)
  \/ \E cond \in Exprs : Fitting(cond) /\ GenerateIf(cond, TRUE, TRUE)
  \/ \E cond \in Exprs : Fitting(cond) /\ GenerateWhile(cond, TRUE)
  \/ GenerateBlock

\* The steps of a program with nothing but such statements, none behind a
\* return, whose functions end in one unless they return nothing.
CarefulNext ==
  \/ \E f \in Functions : GenerateDeclaration(f) \/ GenerateFunction(f)
  \/ Writable /\ CarefulStatement
  \/ ThenDone \/ ElseDone \/ WhileDone \/ BlockDone
  \/ FunctionDone /\ (IsVoid \/ ~Writable)
  \/ ProgramDone
  \/ Done

LEMMA CarefulIsNext == CarefulNext => Next
  BY DEF CarefulNext, CarefulStatement, Next

\* No terminator has anything behind it.
NoneBehind(bs) == \A i \in 1 .. Len(bs) : ~ bs[i].mid

Sound ==
  /\ Graph
  /\ status # "crashed"
  /\ \A name \in DOMAIN module : module[name].state # "broken"
  /\ misfit = FALSE
  /\ NoneBehind(blocks)
  /\ \A k \in 1 .. Len(frames) : frames[k].kind = "then" => frames[k].fals

\* Blocks that the Builder may append to.
Unspoilt(bs) ==
  /\ bs \in Seq(Block) /\ Len(bs) = Len(blocks)
  /\ NoneBehind(bs)
  /\ bs[insert].body # "closed"

LEMMA OpUnspoilt ==
  ASSUME NEW bs, Unspoilt(bs), insert \in Ids
  PROVE  Unspoilt([bs EXCEPT ![insert] = AddOp(@)])
<1> DEFINE new == [bs EXCEPT ![insert] = AddOp(@)]
<1>1. bs \in Seq(Block) /\ insert \in 1 .. Len(bs) /\ bs[insert] \in Block
  BY DEF Unspoilt, Ids
<1>2. LET b == AddOp(bs[insert])
      IN  b \in Block /\ b.body = "open" /\ ~ b.mid
  BY <1>1 DEF AddOp, Block, Unspoilt, NoneBehind
<1>3. /\ new \in Seq(Block) /\ Len(new) = Len(bs) /\ new[insert] = AddOp(bs[insert])
      /\ \A i \in 1 .. Len(bs) : i # insert => new[i] = bs[i]
  BY <1>1, <1>2, Replaced
<1> QED
  BY <1>2, <1>3 DEF Unspoilt, NoneBehind

LEMMA ExprUnspoilt ==
  ASSUME Unspoilt(blocks), insert \in Ids, NEW e
  PROVE  Unspoilt(EmitExpr(blocks, e))
  BY OpUnspoilt DEF EmitExpr

LEMMA AllocaUnspoilt ==
  ASSUME Shape, Unspoilt(blocks), Len(layout) > 0, insert \in Ids, NEW name
  PROVE  Unspoilt(InsertAlloca(name))
<1> DEFINE first == layout[1]
<1>1. first \in 1 .. Len(blocks) /\ blocks \in Seq(Block)
  BY DEF Shape, Ids
<1>2. CASE InsertAlloca(name) = blocks
  BY <1>2
<1>3. CASE InsertAlloca(name) = [blocks EXCEPT ![first].body = "open"]
  <2>1. blocks[first] \in Block /\ ~ blocks[first].mid
    BY <1>1 DEF Unspoilt, NoneBehind
  <2>2. LET b == [blocks[first] EXCEPT !.body = "open"]
        IN  b \in Block /\ b.body = "open" /\ ~ b.mid
    BY <2>1 DEF Block
  <2>3. InsertAlloca(name) = [blocks EXCEPT ![first] = [blocks[first] EXCEPT !.body = "open"]]
    BY <1>3
  <2>4. /\ InsertAlloca(name) \in Seq(Block) /\ Len(InsertAlloca(name)) = Len(blocks)
        /\ InsertAlloca(name)[first] = [blocks[first] EXCEPT !.body = "open"]
        /\ \A i \in 1 .. Len(blocks) : i # first => InsertAlloca(name)[i] = blocks[i]
    BY <1>1, <2>2, <2>3, Replaced
  <2> QED
    BY <2>2, <2>4 DEF Unspoilt, NoneBehind, Ids
<1> QED
  BY <1>2, <1>3 DEF InsertAlloca

LEMMA TerminatorBehindNone ==
  ASSUME NEW bs, Unspoilt(bs), insert \in Ids, NEW targets \in SUBSET Nat
  PROVE  LET new == EmitTerminator(bs, insert, targets)
         IN  new \in Seq(Block) /\ Len(new) = Len(blocks) /\ NoneBehind(new)
<1> DEFINE new == EmitTerminator(bs, insert, targets)
           b   == AddTerminator(bs[insert], targets)
<1>1. bs \in Seq(Block) /\ insert \in 1 .. Len(bs) /\ bs[insert] \in Block
  BY DEF Unspoilt, Ids
<1>2. b \in Block /\ ~ b.mid
  BY <1>1 DEF AddTerminator, Block, Unspoilt, NoneBehind
<1>3. new = [bs EXCEPT ![insert] = b]
  BY DEF EmitTerminator
<1> HIDE DEF b, new
<1>4. /\ new \in Seq(Block) /\ Len(new) = Len(bs) /\ new[insert] = b
      /\ \A i \in 1 .. Len(bs) : i # insert => new[i] = bs[i]
  BY <1>1, <1>2, <1>3, Replaced
<1>5. Len(bs) = Len(blocks) /\ \A i \in 1 .. Len(bs) : ~ bs[i].mid
  BY DEF Unspoilt, NoneBehind
<1>6. NoneBehind(new)
  BY <1>2, <1>4, <1>5 DEF NoneBehind
<1> QED
  BY <1>4, <1>5, <1>6 DEF new

LEMMA NewBehindNone ==
  ASSUME NEW bs \in Seq(Block), NoneBehind(bs), NEW b \in Block, ~ b.mid
  PROVE  /\ NoneBehind(bs \o << b, NewBlock, NewBlock >>)
         /\ bs \o << b, NewBlock, NewBlock >> \in Seq(Block)
         /\ Len(bs \o << b, NewBlock, NewBlock >>) = Len(bs) + 3
<1> DEFINE new == bs \o << b, NewBlock, NewBlock >>
<1>1. NewBlock \in Block /\ ~ NewBlock.mid
  BY DEF NewBlock, Block
<1>2. /\ new \in Seq(Block) /\ Len(new) = Len(bs) + 3
      /\ \A i \in 1 .. Len(bs) : new[i] = bs[i]
      /\ new[Len(bs) + 1] = b /\ new[Len(bs) + 2] = NewBlock /\ new[Len(bs) + 3] = NewBlock
  BY <1>1
<1> HIDE DEF new
<1>3. ASSUME NEW i \in 1 .. Len(new)
      PROVE  ~ new[i].mid
  <2>1. Len(bs) \in Nat
    OBVIOUS
  <2>2. i \in 1 .. Len(bs) \/ i \in {Len(bs) + 1, Len(bs) + 2, Len(bs) + 3}
    BY <1>2, <2>1
  <2> QED
    BY <1>1, <1>2, <2>2 DEF NoneBehind
<1>4. NoneBehind(new)
  BY <1>3 DEF NoneBehind
<1> QED
  BY <1>2, <1>4 DEF new

\* At the end of a body.
LEMMA SoundVerifies ==
  ASSUME Sound, FunctionDone, IsVoid \/ ~ Writable
  PROVE  Verifies
<1>1. Shape /\ Len(layout) > 0 /\ frames = << >> /\ fn # Null
  BY DEF Sound, Graph, Shape, FunctionDone
<1>2. /\ insert \in Ids /\ Last(layout) = insert
      /\ \A i \in Range(layout) : i \in Ids /\ i \in DOMAIN blocks /\ blocks[i] \in Block
  BY <1>1, InsertIsLaid DEF Last, Range, Shape, Ids
<1>3. Pending = {}
  BY <1>1 DEF Pending, Range
<1>4. \A i \in Ids : blocks[i].succ \subseteq Range(layout)
  BY <1>3, GraphCloses DEF Sound, GraphIsClosed, JumpTargetsExist
<1>5. ASSUME NEW i \in Range(layout)
      PROVE  /\ Terminated[i].body = "closed"
             /\ ~ Terminated[i].mid
             /\ Terminated[i].succ \subseteq Range(layout)
  <2>1. ~ blocks[i].mid /\ blocks[i].succ \subseteq Range(layout) /\ blocks[i] \in Block
    BY <1>2, <1>4 DEF Sound, NoneBehind, Ids
  <2>2. CASE blocks[i].body = "closed"
    <3>1. Terminated[i] = blocks[i]
      BY <1>2, <2>2 DEF Terminated
    <3> QED
      BY <2>1, <2>2, <3>1
  <2>3. CASE blocks[i].body # "closed"
    <3>1. ~ (i = Last(layout) /\ ~ IsVoid)
      BY <1>2, <2>3 DEF Writable
    <3>2. Terminated[i] = AddTerminator(blocks[i], {})
      BY <1>2, <2>3, <3>1 DEF Terminated
    <3>3. /\ AddTerminator(blocks[i], {}).body = "closed"
          /\ ~ AddTerminator(blocks[i], {}).mid
          /\ AddTerminator(blocks[i], {}).succ = blocks[i].succ
      BY <2>1, <2>3 DEF AddTerminator, Block
    <3> QED
      BY <2>1, <3>2, <3>3
  <2> QED
    BY <2>2, <2>3
<1> QED
  BY <1>5 DEF Verifies, Sound

\* A step that changes the blocks at most, and adds a frame at most.
LEMMA SoundHolds ==
  ASSUME Sound, Graph', UNCHANGED << status, module, misfit >>, NoneBehind(blocks'),
         \/ frames' = frames
         \/ \E frame : frames' = << frame >> \o frames /\ (frame.kind = "then" => frame.fals)
         \/ frames' = Tail(frames)
         \/ \E frame : frames' = << frame >> \o Tail(frames) /\ frame.kind # "then"
  PROVE  Sound'
<1>1. frames \in Seq(Frame) /\ frames' \in Seq(Frame)
  BY DEF Sound, Graph, Shape
<1>2. ASSUME NEW k \in 1 .. Len(frames'), frames'[k].kind = "then"
      PROVE  frames'[k].fals
  <2>1. CASE frames' = frames
    BY <1>2, <2>1 DEF Sound
  <2>2. ASSUME NEW frame, frames' = << frame >> \o frames, frame.kind = "then" => frame.fals
        PROVE  frames'[k].fals
    <3>1. Len(frames') = Len(frames) + 1 /\ Len(frames) \in Nat
      BY <1>1, <2>2
    <3>2. CASE k = 1
      BY <1>1, <1>2, <2>2, <3>2
    <3>3. CASE k # 1
      <4>1. frames'[k] = frames[k - 1] /\ k - 1 \in 1 .. Len(frames)
        BY <1>1, <2>2, <3>1, <3>3
      <4> QED
        BY <1>2, <4>1 DEF Sound
    <3> QED
      BY <3>2, <3>3
  <2>3. CASE frames' = Tail(frames)
    <3>1. CASE frames = << >>
      <4>1. frames' = << >>
        BY <2>3, <3>1
      <4> QED
        BY <1>2, <4>1
    <3>2. CASE frames # << >>
      <4>1. frames'[k] = frames[k + 1] /\ k + 1 \in 1 .. Len(frames)
        BY <1>1, <2>3, <3>2
      <4> QED
        BY <1>2, <4>1 DEF Sound
    <3> QED
      BY <3>1, <3>2
  <2>4. ASSUME NEW frame, frames' = << frame >> \o Tail(frames), frame.kind # "then"
        PROVE  frames'[k].fals
    <3>1. CASE frames = << >>
      <4>1. frames' = << frame >>
        BY <2>4, <3>1
      <4> QED
        BY <1>2, <2>4, <4>1
    <3>2. CASE frames # << >>
      <4>1. /\ Tail(frames) \in Seq(Frame) /\ Len(Tail(frames)) = Len(frames) - 1 /\ Len(frames) \in Nat
            /\ Len(frames') = Len(frames)
        BY <1>1, <2>4, <3>2
      <4>2. CASE k = 1
        BY <1>1, <1>2, <2>4, <4>2
      <4>3. CASE k # 1
        <5>1. k - 1 \in 1 .. Len(Tail(frames)) /\ frames'[k] = Tail(frames)[k - 1]
          <6> DEFINE rest == Tail(frames)
          <6>0. Len(rest) + 1 = Len(frames')
            BY <4>1
          <6>1. rest \in Seq(Frame) /\ frames' = << frame >> \o rest
            BY <2>4, <4>1, Zenon
          <6> HIDE DEF rest
          <6>2. k - 1 \in 1 .. Len(rest) /\ k \in 2 .. Len(rest) + 1
            <7>1. k \in 1 .. Len(rest) + 1
              BY <6>0
            <7>2. Len(rest) \in Nat
              BY <6>1
            <7> QED
              BY <4>3, <7>1, <7>2
          <6>3. frames'[k] = rest[k - 1]
            <7>1. \A j \in 2 .. Len(rest) + 1 : (<< frame >> \o rest)[j] = rest[j - 1]
              BY <6>1
            <7> QED
              BY <6>1, <6>2, <7>1
          <6> QED
            BY <6>2, <6>3 DEF rest
        <5>2. Tail(frames)[k - 1] = frames[k]
          BY <1>1, <3>2, <4>1, <5>1
        <5> QED
          BY <1>2, <4>1, <5>1, <5>2 DEF Sound
      <4> QED
        BY <4>2, <4>3
    <3> QED
      BY <3>1, <3>2
  <2> QED
    BY <2>1, <2>2, <2>3, <2>4
<1> QED
  BY <1>2 DEF Sound

LEMMA SoundStatement ==
  ASSUME Sound, Graph', Writable, CarefulStatement
  PROVE  Sound'
<1>1. Shape /\ Len(layout) > 0 /\ insert \in Ids /\ Len(blocks) \in Nat /\ NextStatement
  <2>1. NextStatement
    BY DEF CarefulStatement, GenerateVarDecl, GenerateAssign, GenerateReturn, GenerateExprStmt, GenerateIf,
       GenerateWhile, GenerateBlock
  <2> QED
    BY <2>1, InsertIsLaid DEF Sound, Graph, Shape, NextStatement
<1>2. Unspoilt(blocks)
  BY <1>1 DEF Unspoilt, Sound, Shape, Writable
<1>3. ASSUME NEW bs, Unspoilt(bs)
      PROVE  NoneBehind(bs)
  BY <1>3 DEF Unspoilt
<1>4. ASSUME Proceed, UNCHANGED misfit, NoneBehind(blocks')
      PROVE  Sound'
  BY <1>4, SoundHolds DEF Proceed
<1>5. ASSUME NEW name \in VarNames, NEW type \in VarTypes, GenerateVarDecl(name, type)
      PROVE  Sound'
  <2>1. NoneBehind(InsertAlloca(name))
    BY <1>1, <1>2, <1>3, AllocaUnspoilt
  <2> QED
    BY <1>4, <1>5, <2>1 DEF GenerateVarDecl
<1>6. ASSUME NEW decl \in VarTypes \cup {Null}, NEW lvar \in VarNames, NEW value \in Exprs,
             GenerateAssign(decl, lvar, value),
             Target(decl, lvar) # Null => Fitting(value) /\ Target(decl, lvar).fn = fn
      PROVE  Sound'
  <2> DEFINE bs == IF decl = Null THEN blocks ELSE InsertAlloca(lvar)
  <2>1. Unspoilt(bs)
    BY <1>1, <1>2, AllocaUnspoilt
  <2> HIDE DEF bs
  <2>2. Unspoilt([bs EXCEPT ![insert] = AddOp(@)])
    BY <1>1, <2>1, OpUnspoilt
  <2>3. /\ Proceed
        /\ blocks' = bs \/ blocks' = [bs EXCEPT ![insert] = AddOp(@)]
        /\ misfit' = misfit
    BY <1>6 DEF GenerateAssign, Target, Fitting, Sound, bs
  <2> QED
    BY <1>3, <1>4, <2>1, <2>2, <2>3
<1>7. ASSUME NEW value \in Exprs, value # Null, Fitting(value), GenerateReturn(value)
      PROVE  Sound'
  <2>1. /\ Proceed /\ UNCHANGED misfit
        /\ blocks' = EmitTerminator(EmitExpr(blocks, value), insert, {})
    BY <1>7 DEF GenerateReturn, Fitting, Sound
  <2>2. Unspoilt(EmitExpr(blocks, value))
    BY <1>1, <1>2, ExprUnspoilt
  <2>3. NoneBehind(blocks')
    BY <1>1, <2>1, <2>2, TerminatorBehindNone
  <2> QED
    BY <1>4, <2>1, <2>3
<1>8. ASSUME IsVoid, GenerateReturn(Null)
      PROVE  Sound'
  <2>1. Proceed /\ UNCHANGED misfit /\ blocks' = EmitTerminator(blocks, insert, {})
    BY <1>8 DEF GenerateReturn, Sound
  <2>2. NoneBehind(blocks')
    BY <1>1, <1>2, <2>1, TerminatorBehindNone
  <2> QED
    BY <1>4, <2>1, <2>2
<1>9. ASSUME NEW expr \in Exprs, Fitting(expr), GenerateExprStmt(expr)
      PROVE  Sound'
  <2>1. Proceed /\ UNCHANGED misfit /\ blocks' = EmitExpr(blocks, expr)
    BY <1>9 DEF GenerateExprStmt, Fitting, Sound
  <2>2. NoneBehind(blocks')
    BY <1>1, <1>2, <1>3, <2>1, ExprUnspoilt
  <2> QED
    BY <1>4, <2>1, <2>2
<1>10. ASSUME NEW cond \in Exprs, Fitting(cond), GenerateIf(cond, TRUE, TRUE)
       PROVE  Sound'
  <2> DEFINE n     == Len(blocks)
             bs    == EmitTerminator(EmitExpr(blocks, cond), insert, {n + 1, n + 2})
             frame == [kind |-> "then", fals |-> TRUE, elseBB |-> n + 2, mergeBB |-> n + 3]
  <2>1. /\ blocks' = bs \o << NewBlock, NewBlock, NewBlock >>
        /\ misfit' = (misfit \/ ~ cond.fits) /\ Enter(frame)
    BY <1>10 DEF GenerateIf, Fitting
  <2>2. misfit' = misfit /\ frames' = << frame >> \o frames /\ frame.fals /\ UNCHANGED << status, module >>
    BY <1>10, <2>1 DEF Fitting, Sound, Enter, globals
  <2>3. Unspoilt(EmitExpr(blocks, cond))
    BY <1>1, <1>2, ExprUnspoilt
  <2>4. {n + 1, n + 2} \in SUBSET Nat
    BY <1>1
  <2>5. bs \in Seq(Block) /\ NoneBehind(bs)
    BY <1>1, <2>3, <2>4, TerminatorBehindNone
  <2>6. NewBlock \in Block /\ ~ NewBlock.mid
    BY DEF NewBlock, Block
  <2> HIDE DEF bs, n, frame
  <2>7. NoneBehind(blocks')
    BY <2>1, <2>5, <2>6, NewBehindNone
  <2> QED
    BY <2>2, <2>7, SoundHolds
<1>11. ASSUME NEW cond \in Exprs, Fitting(cond), GenerateWhile(cond, TRUE)
       PROVE  Sound'
  <2> DEFINE n     == Len(blocks)
             bs    == EmitTerminator(blocks, insert, {n + 1})
             cb    == [NewBlock EXCEPT !.body = IF cond.emits THEN "open" ELSE "empty"]
             cs    == bs \o << cb, NewBlock, NewBlock >>
             frame == [kind |-> "while", condBB |-> n + 1, contBB |-> n + 3]
             b     == AddTerminator(cb, {n + 2, n + 3})
  <2>1. /\ blocks' = EmitTerminator(cs, n + 1, {n + 2, n + 3})
        /\ misfit' = (misfit \/ ~ cond.fits) /\ Enter(frame)
    BY <1>11 DEF GenerateWhile, Fitting
  <2>2. misfit' = misfit /\ frames' = << frame >> \o frames /\ frame.kind # "then" /\ UNCHANGED << status, module >>
    BY <1>11, <2>1 DEF Fitting, Sound, Enter, globals
  <2>3. {n + 1} \in SUBSET Nat /\ {n + 2, n + 3} \in SUBSET Nat
    BY <1>1
  <2>4. bs \in Seq(Block) /\ Len(bs) = n /\ NoneBehind(bs)
    BY <1>1, <1>2, <2>3, TerminatorBehindNone
  <2>5. cb \in Block /\ ~ cb.mid /\ cb.body # "closed"
    BY DEF NewBlock, Block
  <2>6. b \in Block /\ ~ b.mid
    BY <2>3, <2>5 DEF AddTerminator, Block
  <2>7. blocks' = [cs EXCEPT ![n + 1] = AddTerminator(cs[n + 1], {n + 2, n + 3})]
    BY <2>1 DEF EmitTerminator
  <2> HIDE DEF bs, cb, n, frame
  <2>8. NoneBehind(cs) /\ cs \in Seq(Block) /\ Len(cs) = n + 3 /\ n \in Nat
    BY <1>1, <2>4, <2>5, NewBehindNone DEF n
  <2>9. cs[n + 1] = cb
    <3>1. NewBlock \in Block
      BY DEF NewBlock, Block
    <3> QED
      BY <1>1, <2>4, <2>5, <3>1 DEF n
  <2> HIDE DEF cs, b
  <2>10. blocks' = [cs EXCEPT ![n + 1] = b] /\ n + 1 \in 1 .. Len(cs)
    BY <2>7, <2>8, <2>9 DEF b
  <2>11. /\ Len(blocks') = Len(cs) /\ blocks'[n + 1] = b
         /\ \A i \in 1 .. Len(cs) : i # n + 1 => blocks'[i] = cs[i]
    BY <2>6, <2>8, <2>10, Replaced
  <2>12. NoneBehind(blocks')
    BY <2>6, <2>8, <2>11 DEF NoneBehind
  <2> QED
    BY <2>2, <2>12, SoundHolds
<1>12. CASE GenerateBlock
  <2> DEFINE frame == [kind |-> "block"]
  <2>1. /\ frames' = << frame >> \o frames /\ frame.kind # "then"
        /\ UNCHANGED << status, module, misfit, blocks >>
    BY <1>12 DEF GenerateBlock, Enter, globals, cfg
  <2> HIDE DEF frame
  <2>2. NoneBehind(blocks')
    BY <2>1 DEF Sound
  <2> QED
    BY <2>1, <2>2, SoundHolds
<1> QED
  BY <1>5, <1>6, <1>7, <1>8, <1>9, <1>10, <1>11, <1>12 DEF CarefulStatement

LEMMA SoundNext ==
  ASSUME Sound, InBody, [CarefulNext]_vars
  PROVE  Sound'
<1>1. Graph' /\ [Next]_vars
  BY CarefulIsNext, GraphNext DEF Sound
<1>2. CASE UNCHANGED vars \/ Done
  BY <1>1, <1>2 DEF Done, vars, globals, body, cfg, Sound, NoneBehind
<1>3. ASSUME NEW f \in Functions, GenerateDeclaration(f) \/ GenerateFunction(f)
      PROVE  Sound'
  <2>1. module' = Insert(module, f.name, Declared(f)) /\ status' = status
    BY <1>3 DEF GenerateDeclaration, GenerateFunction
  <2>2. \A name \in DOMAIN module' : module'[name].state # "broken"
    BY <2>1 DEF Insert, Declared, Sound
  <2>3. CASE GenerateDeclaration(f)
    BY <1>1, <2>1, <2>2, <2>3 DEF GenerateDeclaration, body, cfg, Sound, NoneBehind
  <2>4. CASE GenerateFunction(f)
    <3>1. blocks' = << NewBlock >> /\ frames' = << >> /\ misfit' = FALSE
      BY <2>4 DEF GenerateFunction, StartBody
    <3>2. NoneBehind(blocks')
      BY <3>1 DEF NoneBehind, NewBlock
    <3> QED
      BY <1>1, <2>1, <2>2, <3>1, <3>2 DEF Sound
  <2> QED
    BY <1>3, <2>3, <2>4
<1>4. CASE Writable /\ CarefulStatement
  BY <1>1, <1>4, SoundStatement
<1>5. CASE ThenDone \/ ElseDone \/ WhileDone
  <2>1. /\ Shape /\ Len(layout) > 0 /\ frames # << >> /\ Head(frames) \in Frame /\ Head(frames) = frames[1]
        /\ 1 \in 1 .. Len(frames)
    BY <1>5 DEF Sound, Graph, Shape, ThenDone, ElseDone, WhileDone, ChildDone
  <2>2. insert \in Ids /\ Last(layout) = insert /\ Len(blocks) \in Nat
    BY <2>1, InsertIsLaid DEF Last
  <2>3. ASSUME NEW bb \in Nat, NEW isTerminator \in BackIsTerminator, LeaveFor(bb, isTerminator)
        PROVE  NoneBehind(blocks')
    <3>1. CASE isTerminator
      BY <2>3, <3>1 DEF LeaveFor, Sound
    <3>2. CASE ~ isTerminator
      <4>1. blocks' = EmitTerminator(blocks, insert, {bb})
        BY <2>3, <3>2 DEF LeaveFor
      <4>2. BackIsTerminator = IF blocks[insert].body = "empty" THEN BOOLEAN ELSE {blocks[insert].body = "closed"}
        BY <2>2 DEF BackIsTerminator
      <4>3. blocks[insert].body # "closed"
        <5>1. CASE blocks[insert].body = "empty"
          BY <5>1
        <5>2. CASE blocks[insert].body # "empty"
          <6>1. isTerminator = (blocks[insert].body = "closed")
            BY <4>2, <5>2
          <6> QED
            BY <3>2, <6>1
        <5> QED
          BY <5>1, <5>2
      <4>4. Unspoilt(blocks)
        BY <2>1, <4>3 DEF Unspoilt, Sound, Shape
      <4> QED
        BY <2>2, <4>1, <4>4, TerminatorBehindNone
    <3> QED
      BY <3>1, <3>2
  <2>4. CASE ThenDone
    <3>1. Head(frames).kind = "then" /\ Head(frames).fals
      BY <2>1, <2>4 DEF ThenDone, ChildDone, Sound
    <3>2. Head(frames).mergeBB \in Nat
      BY <2>1, <3>1 DEF Frame
    <3>3. PICK isTerminator \in BackIsTerminator :
            /\ LeaveFor(Head(frames).mergeBB, isTerminator)
            /\ frames' = << ElseFrame(Head(frames), isTerminator) >> \o Tail(frames)
      BY <2>4, <3>1 DEF ThenDone
    <3>4. UNCHANGED << status, module, misfit >>
      BY <2>4, <3>1 DEF ThenDone, globals
    <3>5. ElseFrame(Head(frames), isTerminator).kind # "then"
      BY DEF ElseFrame
    <3>6. NoneBehind(blocks')
      BY <2>3, <3>2, <3>3
    <3> QED
      BY <1>1, <3>3, <3>4, <3>5, <3>6, SoundHolds
  <2>5. CASE ElseDone
    <3>1. Head(frames).kind = "else" /\ Head(frames).mergeBB \in Nat
      BY <2>1, <2>5 DEF ElseDone, ChildDone, Frame
    <3>2. NoneBehind(blocks')
      BY <2>3, <2>5, <3>1 DEF ElseDone
    <3>3. frames' = Tail(frames) /\ UNCHANGED << status, module, misfit >>
      BY <2>5 DEF ElseDone, Leave, globals
    <3> QED
      BY <1>1, <3>2, <3>3, SoundHolds
  <2>6. CASE WhileDone
    <3>1. Head(frames).kind = "while" /\ Head(frames).condBB \in Nat
      BY <2>1, <2>6 DEF WhileDone, ChildDone, Frame
    <3>2. NoneBehind(blocks')
      BY <2>3, <2>6, <3>1 DEF WhileDone
    <3>3. frames' = Tail(frames) /\ UNCHANGED << status, module, misfit >>
      BY <2>6 DEF WhileDone, Leave, globals
    <3> QED
      BY <1>1, <3>2, <3>3, SoundHolds
  <2> QED
    BY <1>5, <2>4, <2>5, <2>6
<1>6. CASE BlockDone
  <2>1. frames' = Tail(frames) /\ UNCHANGED << status, module, misfit, blocks >>
    BY <1>6 DEF BlockDone, Leave, globals, cfg
  <2>2. NoneBehind(blocks')
    BY <2>1 DEF Sound
  <2> QED
    BY <1>1, <2>1, <2>2, SoundHolds
<1>7. CASE FunctionDone /\ (IsVoid \/ ~ Writable)
  <2>1. module' = [module EXCEPT ![fn].state = "verified"]
    BY <1>7, SoundVerifies DEF FunctionDone
  <2>2. \A name \in DOMAIN module' : module'[name].state # "broken"
    BY <2>1 DEF Sound, InBody
  <2>3. blocks' = << >> /\ frames' = << >> /\ misfit' = FALSE /\ status' = status
    BY <1>7 DEF FunctionDone
  <2>4. NoneBehind(blocks')
    BY <2>3 DEF NoneBehind
  <2> QED
    BY <1>1, <2>2, <2>3, <2>4 DEF Sound
<1>8. CASE ProgramDone
  <2>1. status' = "done" /\ UNCHANGED << module, misfit, blocks, frames >>
    BY <1>8 DEF ProgramDone, globals, body, cfg
  <2> QED
    BY <1>1, <2>1 DEF Sound, NoneBehind
<1> QED
  BY <1>2, <1>3, <1>4, <1>5, <1>6, <1>7, <1>8 DEF CarefulNext

LEMMA SoundBegins == Init => Sound
  BY GraphBegins DEF Init, Sound, NoneBehind, EmptyMap

\* A program whose values fit, in which nothing follows a return and whose
\* arms are statements is generated to the end, and the verifier passes all
\* its functions (Function.cpp:76): what the blocks and jumps of StmtAST.cpp
\* come to never fails.
THEOREM CarefulVerifies ==
  Init /\ [][CarefulNext]_vars =>
    [](/\ status # "crashed"
       /\ \A name \in DOMAIN module : module[name].state # "broken")
<1>1. Init => Sound /\ InBody
  BY SoundBegins DEF Init, InBody, EmptyMap
<1>2. Sound /\ InBody /\ [CarefulNext]_vars => (Sound /\ InBody)'
  BY SoundNext, InBodyNext, CarefulIsNext
<1>3. Sound => /\ status # "crashed"
               /\ \A name \in DOMAIN module : module[name].state # "broken"
  BY DEF Sound
<1> QED
  BY <1>1, <1>2, <1>3, PTL
=============================================================================
