------------------------------ MODULE Codegen ------------------------------
(***************************************************************************)
(* Program::generate and what it calls (src/AST/Function.cpp, StmtAST.cpp, *)
(* CodegenHelper.cpp): the functions of the LLVM module, the allocas and   *)
(* the basic blocks that code generation builds for each body.             *)
(*                                                                         *)
(* As in the Validator, the tree is chosen node by node while it is        *)
(* visited.  An expression is what its generate() amounts to:              *)
(*   outcome  "value", "null" (nullptr) or "crash" (a null pointer is      *)
(*            followed on the way);                                        *)
(*   emits    an instruction is appended (constants are folded);           *)
(*   fits     LLVM's verifier accepts its instructions and its type where  *)
(*            the statement uses it.                                       *)
(* The LLVM library is the release build, without assertions.              *)
(***************************************************************************)
EXTENDS StdMap, SequencesExt

CONSTANTS
  Null,
  Functions,      \* the declarations of a program, as in the Validator
  VarNames, VarTypes,
  Exprs,          \* [outcome, emits, fits]
  Mangle(_, _),   \* the key of a variable: function name + variable name
  MaxDepth,       \* bound: statements nested in a body
  MaxBlocks       \* bound: basic blocks created for a body

VARIABLES
  module,         \* TheModule: name -> function
  AllocaValues,   \* key -> alloca, of all the functions generated so far
  NamedValues,    \* the arguments of the current function
  fn,             \* name of the function being generated
  blocks,         \* the basic blocks created for it; a block is an index
  layout,         \* TheFunction->getBasicBlockList()
  insert,         \* Builder.GetInsertBlock()
  misfit,         \* the verifier will find a bad operand in this function
  frames,         \* the open generate() calls
  returned,       \* the innermost call is back from its child
  status          \* "running", "done", or "crashed"

globals == << module, AllocaValues >>
cfg     == << blocks, layout, insert >>
body    == << cfg, misfit, frames, returned >>
vars    == << globals, NamedValues, fn, body, status >>

\* `body': what the block holds last; `mid': a terminator has something behind
\* it; `succ': the targets of its terminators.
Block    == [body : {"empty", "open", "closed"}, mid : BOOLEAN, succ : SUBSET Nat]
NewBlock == [body |-> "empty", mid |-> FALSE, succ |-> {}]

Init ==
  /\ module = EmptyMap /\ AllocaValues = EmptyMap /\ NamedValues = {}
  /\ fn = Null
  /\ blocks = << >> /\ layout = << >> /\ insert = 0
  /\ misfit = FALSE /\ frames = << >> /\ returned = FALSE
  /\ status = "running"

-----------------------------------------------------------------------------
(* IRBuilder: it appends at the end of the insert block, whatever is there. *)

AddOp(b) == [b EXCEPT !.mid = @ \/ b.body = "closed", !.body = "open"]
AddTerminator(b, targets) ==
  [b EXCEPT !.mid = @ \/ b.body = "closed", !.body = "closed", !.succ = @ \cup targets]

EmitExpr(bs, e) == IF e.emits THEN [bs EXCEPT ![insert] = AddOp(@)] ELSE bs
EmitTerminator(bs, b, targets) == [bs EXCEPT ![b] = AddTerminator(@, targets)]

\* back().back().isTerminator(): on an empty block the read is undefined.
BackIsTerminator ==
  LET back == blocks[Last(layout)]
  IN  IF back.body = "empty" THEN BOOLEAN ELSE {back.body = "closed"}

\* Mutant of LeaveFor: no jump.
LeaveNever(bb, isTerminator) == blocks' = blocks

\* The end of an arm or a loop body: a jump unless it has a terminator.
LeaveFor(bb, isTerminator) ==
  blocks' = IF isTerminator THEN blocks ELSE EmitTerminator(blocks, insert, {bb})

\* Mutant of PushBlock: SetInsertPoint is forgotten.
PushBlockBehind(bb) == layout' = Append(layout, bb) /\ UNCHANGED insert

\* getBasicBlockList().push_back(bb) and SetInsertPoint(bb).
PushBlock(bb) == layout' = Append(layout, bb) /\ insert' = bb

-----------------------------------------------------------------------------
(* CodegenHelper.cpp: the allocas.                                         *)

\* Mutant of FindAlloca: only the bare name is looked up.
FindAllocaBare(values, name) == IF name \in DOMAIN values THEN values[name] ELSE Null

\* The bare name is looked up before the name with the function's prefix.
FindAlloca(values, name) ==
  IF name \in DOMAIN values THEN values[name]
  ELSE IF Mangle(fn, name) \in DOMAIN values THEN values[Mangle(fn, name)]
  ELSE Null

\* Mutant of CreateAlloca: the key is the name alone.
CreateAllocaBare(name, type) ==
  Insert(AllocaValues, name, [fn |-> fn, name |-> name, type |-> type])

\* The alloca of a name that the function has already is kept ("redeclared").
CreateAlloca(name, type) ==
  Insert(AllocaValues, Mangle(fn, name), [fn |-> fn, name |-> name, type |-> type])

\* It goes to the beginning of the entry block.
InsertAlloca(name) ==
  IF Mangle(fn, name) \in DOMAIN AllocaValues \/ blocks[layout[1]].body # "empty"
  THEN blocks
  ELSE [blocks EXCEPT ![layout[1]].body = "open"]

-----------------------------------------------------------------------------
(* Function.cpp: declarations, and the beginning and the end of a body.    *)

Declared(f) ==
  [ret |-> f.ret, args |-> f.args, state |-> "declared"]

\* Mutant of GenerateDeclaration: declarations without a body are skipped.
DeclarationSkipped(f) ==
  status = "running" /\ fn = Null /\ f.kind = "prototype" /\ UNCHANGED vars

\* A second llvm::Function of a name is renamed by LLVM: nothing finds it.
GenerateDeclaration(f) ==
  /\ status = "running" /\ fn = Null
  /\ f.kind = "prototype"
  /\ module' = Insert(module, f.name, Declared(f))
  /\ UNCHANGED << AllocaValues, NamedValues, fn, body, status >>

\* The entry block.
StartBody == blocks' = << NewBlock >> /\ layout' = << 1 >> /\ insert' = 1

\* Mutant of HasBody: a body never counts.
HasNever(name) == FALSE

\* !TheFunction->empty()
HasBody(name) == name \in DOMAIN module /\ module[name].state # "declared"

\* The arguments have the names of the declaration LLVM has, not the node's.
GenerateFunction(f) ==
  /\ status = "running" /\ fn = Null
  /\ f.kind = "definition" /\ ~HasBody(f.name)
  /\ module' = Insert(module, f.name, Declared(f))
  /\ fn' = f.name
  /\ NamedValues' = {a.name : a \in Range(module'[f.name].args)}
  /\ StartBody
  /\ misfit' = FALSE /\ frames' = << >> /\ returned' = TRUE
  /\ UNCHANGED << AllocaValues, status >>

\* "Function cannot be redefined.": the body is dropped, generation goes on.
RedefineFunction(f) ==
  /\ status = "running" /\ fn = Null
  /\ f.kind = "definition" /\ HasBody(f.name)
  /\ UNCHANGED vars

IsVoid == module[fn].ret = "Void"

\* Mutant of Terminated: the last block gets ret void in any function.
TerminatedAlways ==
  [i \in DOMAIN blocks |->
     IF blocks[i].body = "closed" \/ i \notin Range(layout)
     THEN blocks[i]
     ELSE AddTerminator(blocks[i], {})]

\* The terminators the end of generate() adds: unreachable to any block but
\* the last, ret void to the last if the function returns nothing.
Terminated ==
  [i \in DOMAIN blocks |->
     IF \/ blocks[i].body = "closed"
        \/ i \notin Range(layout)
        \/ i = Last(layout) /\ ~IsVoid
     THEN blocks[i]
     ELSE AddTerminator(blocks[i], {})]

\* llvm::verifyFunction.
Verifies ==
  /\ ~misfit
  /\ \A i \in Range(layout) :
       /\ Terminated[i].body = "closed"
       /\ ~Terminated[i].mid
       /\ Terminated[i].succ \subseteq Range(layout)

\* Its verdict is printed; the function stays in the module either way.
FunctionDone ==
  /\ status = "running" /\ fn # Null /\ frames = << >>
  /\ module' = [module EXCEPT ![fn].state = IF Verifies THEN "verified" ELSE "broken"]
  /\ fn' = Null
  /\ blocks' = << >> /\ layout' = << >> /\ insert' = 0
  /\ misfit' = FALSE /\ returned' = FALSE
  /\ UNCHANGED << AllocaValues, NamedValues, frames, status >>

ProgramDone ==
  /\ status = "running" /\ fn = Null
  /\ status' = "done"
  /\ UNCHANGED << globals, NamedValues, fn, body >>

-----------------------------------------------------------------------------
(* StmtAST.cpp.  A function body or a block generates one statement after  *)
(* another, an arm or a loop body exactly one.                             *)

InList == frames # << >> => Head(frames).kind = "block"

NextStatement == status = "running" /\ fn # Null /\ (returned => InList)

Crash ==
  /\ status' = "crashed"
  /\ UNCHANGED << globals, NamedValues, fn, body >>

Proceed == returned' = TRUE /\ UNCHANGED << module, NamedValues, fn, frames, status >>

GenerateVarDecl(name, type) ==
  /\ NextStatement
  /\ AllocaValues' = CreateAlloca(name, type)
  /\ blocks' = InsertAlloca(name)
  /\ Proceed
  /\ UNCHANGED << layout, insert, misfit >>

\* Without an alloca (an argument has none) the value is not even generated.
GenerateAssign(decl, lvar, value) ==
  /\ NextStatement
  /\ LET values == IF decl = Null THEN AllocaValues ELSE CreateAlloca(lvar, decl)
         bs == IF decl = Null THEN blocks ELSE InsertAlloca(lvar)
         alloca == FindAlloca(values, lvar)
     IN  \/ /\ alloca = Null
            /\ AllocaValues' = values /\ blocks' = bs
            /\ Proceed
            /\ UNCHANGED << layout, insert, misfit >>
         \/ /\ alloca # Null /\ value.outcome = "value"
            /\ AllocaValues' = values
            /\ blocks' = [bs EXCEPT ![insert] = AddOp(@)]
            /\ misfit' = (misfit \/ ~value.fits \/ alloca.fn # fn)
            /\ Proceed
            /\ UNCHANGED << layout, insert >>
         \/ /\ alloca # Null /\ value.outcome # "value"
            /\ Crash

\* CreateRet(nullptr) is `ret void'.
GenerateReturn(value) ==
  /\ NextStatement
  /\ \/ /\ value = Null
        /\ blocks' = EmitTerminator(blocks, insert, {})
        /\ misfit' = (misfit \/ ~IsVoid)
        /\ Proceed
        /\ UNCHANGED << AllocaValues, layout, insert >>
     \/ /\ value # Null /\ value.outcome # "crash"
        /\ blocks' = EmitTerminator(EmitExpr(blocks, value), insert, {})
        /\ misfit' = (misfit \/ ~value.fits)
        /\ Proceed
        /\ UNCHANGED << AllocaValues, layout, insert >>
     \/ /\ value # Null /\ value.outcome = "crash"
        /\ Crash

\* The value is dropped; what was built on the way stays, nullptr or not.
GenerateExprStmt(expr) ==
  /\ NextStatement
  /\ IF expr.outcome = "crash" THEN Crash
     ELSE /\ blocks' = EmitExpr(blocks, expr)
          /\ misfit' = (misfit \/ (~expr.fits /\ (expr.outcome = "value" \/ expr.emits)))
          /\ Proceed
          /\ UNCHANGED << AllocaValues, layout, insert >>

Enter(frame) ==
  /\ frames' = << frame >> \o frames
  /\ returned' = (frame.kind = "block")
  /\ UNCHANGED << globals, NamedValues, fn, status >>

\* The statement inside is generated; and the call returns.
ChildDone(kind) ==
  status = "running" /\ frames # << >> /\ returned /\ Head(frames).kind = kind

Leave ==
  /\ frames' = Tail(frames)
  /\ returned' = TRUE
  /\ UNCHANGED << globals, NamedValues, fn, misfit, status >>

GenerateBlock ==
  /\ NextStatement /\ Len(frames) < MaxDepth
  /\ Enter([kind |-> "block"])
  /\ UNCHANGED << cfg, misfit >>

\* then is inserted at once, else and ifcont are created outside the function.
\* tru: whether the arm is a statement and not nullptr, and so fals.
GenerateIf(cond, tru, fals) ==
  LET n == Len(blocks)
      thenBB == n + 1  elseBB == n + 2  mergeBB == n + 3
  IN  /\ NextStatement /\ Len(frames) < MaxDepth /\ n + 3 <= MaxBlocks
      /\ IF cond.outcome = "crash" \/ ~tru THEN Crash
         ELSE /\ blocks' = EmitTerminator(EmitExpr(blocks, cond), insert, {thenBB, elseBB})
                             \o << NewBlock, NewBlock, NewBlock >>
              /\ layout' = Append(layout, thenBB)
              /\ insert' = thenBB
              /\ misfit' = (misfit \/ ~cond.fits)
              /\ Enter([kind |-> "then", fals |-> fals, elseBB |-> elseBB, mergeBB |-> mergeBB])

\* Mutant of ElseFrame: a jump from the true arm is not noted.
ElseFrameUnjumped(f, isTerminator) ==
  [kind |-> "else", mergeBB |-> f.mergeBB, jumpGenerated |-> FALSE]

\* What the call still needs when it is in its false arm.
ElseFrame(f, isTerminator) ==
  [kind |-> "else", mergeBB |-> f.mergeBB, jumpGenerated |-> ~isTerminator]

\* The true arm is generated: leave for ifcont unless it has left already,
\* and go on with the false arm, without a test that there is one.
ThenDone ==
  /\ ChildDone("then")
  /\ LET f == Head(frames)
     IN  IF ~f.fals THEN Crash
         ELSE /\ \E isTerminator \in BackIsTerminator :
                   /\ LeaveFor(f.mergeBB, isTerminator)
                   /\ frames' = << ElseFrame(f, isTerminator) >> \o Tail(frames)
              /\ PushBlock(f.elseBB)
              /\ returned' = FALSE
              /\ UNCHANGED << globals, NamedValues, fn, misfit, status >>

\* Mutants of JumpGenerated.
JumpAssumed(f, isTerminator)  == TRUE
JumpFromElse(f, isTerminator) == ~isTerminator

JumpGenerated(f, isTerminator) == f.jumpGenerated \/ ~isTerminator

\* ifcont is inserted only if an arm jumps to it, and deleted otherwise.
ElseDone ==
  /\ ChildDone("else")
  /\ LET f == Head(frames)
     IN  \E isTerminator \in BackIsTerminator :
           /\ LeaveFor(f.mergeBB, isTerminator)
           /\ IF JumpGenerated(f, isTerminator)
              THEN PushBlock(f.mergeBB)
              ELSE UNCHANGED << layout, insert >>
  /\ Leave

\* The condition is generated into its own block, which the loop returns to.
GenerateWhile(cond, hasBody) ==
  LET n == Len(blocks)
      condBB == n + 1  whileBB == n + 2  contBB == n + 3
      bs == EmitTerminator(blocks, insert, {condBB})
              \o << [NewBlock EXCEPT !.body = IF cond.emits THEN "open" ELSE "empty"],
                    NewBlock, NewBlock >>
  IN  /\ NextStatement /\ Len(frames) < MaxDepth /\ n + 3 <= MaxBlocks
      /\ IF cond.outcome = "crash" \/ ~hasBody THEN Crash
         ELSE /\ blocks' = EmitTerminator(bs, condBB, {whileBB, contBB})
              /\ layout' = layout \o << condBB, whileBB >>
              /\ insert' = whileBB
              /\ misfit' = (misfit \/ ~cond.fits)
              /\ Enter([kind |-> "while", condBB |-> condBB, contBB |-> contBB])

WhileDone ==
  /\ ChildDone("while")
  /\ \E isTerminator \in BackIsTerminator : LeaveFor(Head(frames).condBB, isTerminator)
  /\ PushBlock(Head(frames).contBB)
  /\ Leave

BlockDone ==
  /\ status = "running" /\ frames # << >> /\ Head(frames).kind = "block"
  /\ Leave
  /\ UNCHANGED cfg

Done == status # "running" /\ UNCHANGED vars

Next ==
  \/ \E f \in Functions :
       GenerateDeclaration(f) \/ GenerateFunction(f) \/ RedefineFunction(f)
  \/ \E name \in VarNames, type \in VarTypes : GenerateVarDecl(name, type)
  \/ \E decl \in VarTypes \cup {Null}, lvar \in VarNames, value \in Exprs :
       GenerateAssign(decl, lvar, value)
  \/ \E value \in Exprs \cup {Null} : GenerateReturn(value)
  \/ \E expr \in Exprs : GenerateExprStmt(expr)
  \/ \E cond \in Exprs, tru, fals \in BOOLEAN : GenerateIf(cond, tru, fals)
  \/ \E cond \in Exprs, hasBody \in BOOLEAN : GenerateWhile(cond, hasBody)
  \/ GenerateBlock
  \/ ThenDone \/ ElseDone \/ WhileDone \/ BlockDone
  \/ FunctionDone \/ ProgramDone
  \/ Done

Spec == Init /\ [][Next]_vars
=============================================================================
