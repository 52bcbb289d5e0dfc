------------------------- MODULE CodegenProperties -------------------------
(***************************************************************************)
(* What must hold of the module and of the body under construction; and    *)
(* code generation beside the control flow of the source.                  *)
(***************************************************************************)
EXTENDS Codegen, FiniteSets, Naturals

FunctionNames == {f.name : f \in Functions}
Ids == 1 .. Len(blocks)

\* The blocks that an open statement has created and not inserted yet.
Held(f) ==
  CASE f.kind = "then"  -> {f.elseBB, f.mergeBB}
    [] f.kind = "else"  -> {f.mergeBB}
    [] f.kind = "while" -> {f.contBB}
    [] OTHER -> {}

Pending == UNION {Held(f) : f \in Range(frames)}

\* Between two statements the Builder is at the last block of the function.
\* The generated jumps rest on it: generate() asks whether the *last* block
\* ends with a terminator, and then appends to the *insert* block.
InsertIsBack == fn # Null => insert = Last(layout)

\* A block that is not the last is finished: it has its terminator, or
\* nothing at all was generated for it.  The `unreachable' that ends the
\* remaining ones can therefore never cut off instructions of the program.
NonLastTerminated ==
  \A i \in 1 .. Len(layout) - 1 : blocks[layout[i]].body # "open"

\* A jump goes to a block of the function, or to one that an open statement
\* still holds and will insert.  In particular an `ifcont' is deleted only
\* if neither arm jumps to it.
JumpTargetsExist ==
  \A i \in Ids : blocks[i].succ \subseteq Range(layout) \cup Pending

\* Every block but the entry is the target of a block before it: by induction
\* along the layout, all blocks of a function can be reached from its entry.
EarlierPredecessor ==
  \A i \in 2 .. Len(layout) :
    \E j \in 1 .. i - 1 : layout[i] \in blocks[layout[j]].succ

\* The graph of a body is closed and connected (StmtAST.cpp:90, Function.cpp:60).
GraphIsClosed == NonLastTerminated /\ JumpTargetsExist /\ EarlierPredecessor

\* A function gets at most one body: its record changes only while its body
\* is generated, from "declared" to a verdict.
BodyGeneratedOnce ==
  [][\A name \in DOMAIN module :
       \/ module'[name] = module[name]
       \/ /\ module[name].state = "declared" /\ fn = name
          /\ module'[name].state # "declared" /\ fn' = Null]_vars

\* What CreateAlloca makes; nullptr is none of them.
Allocas == [fn : FunctionNames, name : VarNames, type : VarTypes]
NullApart == Null \notin Allocas

\* The keys, made by writing the function's name before the variable's, do not
\* collide: the one assumption the next property takes on names.
NamesApart ==
  \A f, g \in FunctionNames, v, w \in VarNames :
    /\ Mangle(f, v) = Mangle(g, w) => f = g /\ v = w
    /\ Mangle(f, v) \notin VarNames

\* AllocaValues is one map for all functions and is never cleared; still, what
\* a name finds in a function is that function's variable of that name.
AllocaIsOwn ==
  fn # Null =>
    \A name \in VarNames :
      LET alloca == FindAlloca(AllocaValues, name)
      IN  alloca # Null => alloca.fn = fn /\ alloca.name = name
-----------------------------------------------------------------------------
(* While a body is generated, `reach' follows the structure of the         *)
(* statements and says whether the next statement can be reached at all.   *)
(* The code has no such variable: it looks at the last instruction of the  *)
(* last block instead.                                                     *)

VARIABLES
  reach,     \* some path through the statements so far has not returned
  saved,     \* for each open statement, the reach it will need again
  dead,      \* an instruction was generated where nothing can reach it
  guessed    \* an empty block was asked for its last instruction

flow     == << reach, saved, dead, guessed >>
flowVars == << vars, flow >>

FlowInit == Init /\ reach = FALSE /\ saved = << >> /\ dead = FALSE /\ guessed = FALSE

Straight(emits) ==
  /\ dead' = (dead \/ (emits /\ ~reach))
  /\ UNCHANGED << reach, saved, guessed >>

Into ==
  /\ saved' = << reach >> \o saved
  /\ dead' = (dead \/ ~reach)
  /\ UNCHANGED << reach, guessed >>

Ask == guessed' = (guessed \/ blocks[Last(layout)].body = "empty")

Leaf ==
  \/ \E name \in VarNames, type \in VarTypes :
       GenerateVarDecl(name, type) /\ Straight(FALSE)
  \/ \E decl \in VarTypes \cup {Null}, lvar \in VarNames, value \in Exprs :
       /\ GenerateAssign(decl, lvar, value)
       /\ Straight(decl # Null \/ FindAlloca(AllocaValues, lvar) # Null)
  \/ \E expr \in Exprs : GenerateExprStmt(expr) /\ Straight(expr.emits)
  \/ \E value \in Exprs \cup {Null} :
       /\ GenerateReturn(value)
       /\ reach' = FALSE
       /\ dead' = (dead \/ ~reach)
       /\ UNCHANGED << saved, guessed >>

FlowNext ==
  \/ \E f \in Functions :
       \/ (GenerateDeclaration(f) \/ RedefineFunction(f)) /\ UNCHANGED flow
       \/ /\ GenerateFunction(f)
          /\ reach' = TRUE /\ saved' = << >> /\ dead' = FALSE /\ guessed' = FALSE
  \/ Leaf
  \/ GenerateBlock /\ saved' = << reach >> \o saved /\ UNCHANGED << reach, dead, guessed >>
  \/ (\E cond \in Exprs, tru, fals \in BOOLEAN : GenerateIf(cond, tru, fals)) /\ Into
  \/ (\E cond \in Exprs, hasBody \in BOOLEAN : GenerateWhile(cond, hasBody)) /\ Into
  \* The false arm starts where the true arm started; after both, one of the
  \* ends must be reachable.  A loop may be left before its first round.
  \/ ThenDone /\ Ask /\ reach' = Head(saved)
              /\ saved' = << reach >> \o Tail(saved) /\ UNCHANGED dead
  \/ ElseDone /\ Ask /\ reach' = (reach \/ Head(saved))
              /\ saved' = Tail(saved) /\ UNCHANGED dead
  \/ WhileDone /\ Ask /\ reach' = Head(saved)
               /\ saved' = Tail(saved) /\ UNCHANGED dead
  \/ BlockDone /\ saved' = Tail(saved) /\ UNCHANGED << reach, dead, guessed >>
  \/ (FunctionDone \/ ProgramDone \/ Done) /\ UNCHANGED flow

FlowSpec == FlowInit /\ [][FlowNext]_flowVars

\* Where no instruction was generated in vain and no empty block was asked,
\* the last block is closed by a terminator exactly where the source says
\* that the next statement is unreachable.
FlowAgrees ==
  fn # Null /\ status = "running" /\ ~dead /\ ~guessed =>
    (blocks[insert].body = "closed" <=> ~reach)

\* The verdict on a function that is finished in this step.
VerdictAgrees ==
  fn # Null /\ fn' = Null /\ ~guessed =>
    (module'[fn].state = "verified" <=> ~misfit /\ ~dead /\ (IsVoid \/ ~reach))

\* The verifier's verdict on a finished function depends on the source alone:
\* it passes if every operand fits, no statement follows a return, and the
\* end of the body cannot be reached unless the function returns void.
VerdictFollowsSource == [][VerdictAgrees]_flowVars
=============================================================================
