-------------------------- MODULE ValidatorProofs --------------------------
(***************************************************************************)
(* The Validator's invariants for every program, every set of names, types *)
(* and functions, and every bound on the nesting.                          *)
(***************************************************************************)
EXTENDS ValidatorProperties, SequenceTheorems, WellFoundedInduction, TLAPS

\* A map after an insertion is a map of the same type, has the new key, and
\* keeps the entries it had.
LEMMA InsertMap ==
  ASSUME NEW S, NEW T, NEW map \in Maps(S, T), NEW key \in S, NEW value \in T
  PROVE  /\ Insert(map, key, value) \in Maps(S, T)
         /\ DOMAIN Insert(map, key, value) = DOMAIN map \cup {key}
         /\ \A k \in DOMAIN map : Insert(map, key, value)[k] = map[k]
  <1>1. PICK D \in SUBSET S : map \in [D -> T]
    BY DEF Maps
  <1>2. Insert(map, key, value) \in [D \cup {key} -> T] /\ D \cup {key} \in SUBSET S
    BY <1>1 DEF Insert
  <1>. QED
    BY <1>1, <1>2 DEF Maps, Insert

-----------------------------------------------------------------------------
(* The chain of scopes.  Functions are only in the last one, the root.     *)

Chain(t) ==
  /\ t \in Seq(ScopeType) /\ t # << >>
  /\ \A i \in 1 .. Len(t) - 1 : DOMAIN t[i].functions = {}

Root(t) == t[Len(t)].functions

\* A scope pushed before the others leaves the root alone.
LEMMA PushChain ==
  ASSUME NEW t, Chain(t), NEW s \in ScopeType, DOMAIN s.functions = {}
  PROVE  /\ Chain(<< s >> \o t)
         /\ Len(<< s >> \o t) = Len(t) + 1
         /\ Root(<< s >> \o t) = Root(t)
  <1>. DEFINE new == << s >> \o t
  <1>1. /\ t \in Seq(ScopeType) /\ Len(t) \in Nat /\ Len(t) > 0
        /\ \A i \in 1 .. Len(t) - 1 : DOMAIN t[i].functions = {}
    BY EmptySeq, LenProperties DEF Chain
  <1>2. << s >> \in Seq(ScopeType) /\ Len(<< s >>) = 1 /\ << s >>[1] = s
    OBVIOUS
  <1>3. /\ new \in Seq(ScopeType)
        /\ Len(new) = Len(t) + 1
        /\ \A i \in 1 .. Len(t) + 1 : new[i] = IF i <= 1 THEN s ELSE t[i - 1]
    <2>1. /\ new \in Seq(ScopeType)
          /\ Len(new) = 1 + Len(t)
          /\ \A i \in 1 .. 1 + Len(t) : new[i] = IF i <= 1 THEN << s >>[i] ELSE t[i - 1]
      BY <1>1, <1>2, ConcatProperties
    <2>. QED
      BY <1>1, <1>2, <2>1
  <1>4. \A i \in 1 .. Len(new) - 1 : DOMAIN new[i].functions = {}
    BY <1>1, <1>3
  <1>5. new[Len(new)] = t[Len(t)]
    BY <1>1, <1>3
  <1>6. new # << >>
    BY <1>1, <1>3
  <1>. HIDE DEF new
  <1>. QED
    BY <1>3, <1>4, <1>5, <1>6 DEF Chain, Root, new

\* The parent of a scope that is not the root has the same root.
LEMMA PopChain ==
  ASSUME NEW t, Chain(t), Len(t) > 1
  PROVE  /\ Chain(GetParent(t))
         /\ Len(GetParent(t)) = Len(t) - 1
         /\ Root(GetParent(t)) = Root(t)
  <1>1. t \in Seq(ScopeType) /\ t # << >> /\ Len(t) \in Nat
    BY LenProperties DEF Chain
  <1>2. \A i \in 1 .. Len(t) - 1 : DOMAIN t[i].functions = {}
    BY DEF Chain
  <1>3. Tail(t) \in Seq(ScopeType) /\ Len(Tail(t)) = Len(t) - 1
    BY <1>1, HeadTailProperties
  <1>4. \A i \in 1 .. Len(t) - 1 : Tail(t)[i] = t[i + 1]
    BY <1>1, <1>3, HeadTailProperties
  <1>5. Tail(t) # << >>
    <2>1. Len(Tail(t)) # 0
      BY <1>1, <1>3
    <2>2. Len(<< >>) = 0
      OBVIOUS
    <2>. QED
      BY <2>1, <2>2
  <1>6. ASSUME NEW i \in 1 .. Len(Tail(t)) - 1
        PROVE  DOMAIN Tail(t)[i].functions = {}
    <2>1. i \in 1 .. Len(t) - 1 /\ i + 1 \in 1 .. Len(t) - 1
      BY <1>1, <1>3
    <2>2. Tail(t)[i] = t[i + 1]
      BY <1>4, <2>1
    <2>. QED
      BY <1>2, <2>1, <2>2
  <1>7. Tail(t)[Len(Tail(t))] = t[Len(t)]
    <2>1. Len(t) - 1 \in 1 .. Len(t) - 1 /\ Len(t) - 1 + 1 = Len(t)
      BY <1>1
    <2>. QED
      BY <1>3, <1>4, <2>1
  <1>8. Chain(Tail(t))
    BY <1>3, <1>5, <1>6 DEF Chain
  <1>9. Root(Tail(t)) = Root(t)
    BY <1>7 DEF Root
  <1>. QED
    BY <1>3, <1>8, <1>9 DEF GetParent

\* A variable declared in the current scope changes no function.
LEMMA AddVariableChain ==
  ASSUME NEW t, Chain(t), NEW n \in VarNames, NEW type \in VarTypes
  PROVE  /\ Chain(addVariable(t, n, type))
         /\ Len(addVariable(t, n, type)) = Len(t)
         /\ Root(addVariable(t, n, type)) = Root(t)
  <1>. DEFINE s == [t[1] EXCEPT !.variables = Insert(@, n, type)]
  <1>1. /\ t \in Seq(ScopeType) /\ Len(t) \in Nat /\ 1 \in 1 .. Len(t)
        /\ \A i \in 1 .. Len(t) - 1 : DOMAIN t[i].functions = {}
    BY EmptySeq, LenProperties DEF Chain
  <1>2. t[1] \in ScopeType
    BY <1>1, ElementOfSeq
  <1>3. Insert(t[1].variables, n, type) \in Maps(VarNames, VarTypes)
    BY <1>2, InsertMap DEF ScopeType
  <1>4. s \in ScopeType /\ s.functions = t[1].functions
    BY <1>2, <1>3 DEF ScopeType
  <1>5. addVariable(t, n, type) = [t EXCEPT ![1] = s]
    BY <1>1 DEF addVariable
  <1>. HIDE DEF s
  <1>6. /\ [t EXCEPT ![1] = s] \in Seq(ScopeType)
        /\ Len([t EXCEPT ![1] = s]) = Len(t)
        /\ \A j \in 1 .. Len(t) : [t EXCEPT ![1] = s][j] = IF j = 1 THEN s ELSE t[j]
    BY <1>1, <1>4, ExceptSeq
  <1>. QED
    BY <1>1, <1>4, <1>5, <1>6, EmptySeq DEF Chain, Root

\* A function declared at the root is added to it, unless its name is there.
LEMMA AddFunctionChain ==
  ASSUME NEW t, Chain(t), Len(t) = 1, NEW f \in Functions
  PROVE  /\ Chain(addFunction(t, f))
         /\ Len(addFunction(t, f)) = 1
         /\ Root(addFunction(t, f)) = Insert(Root(t), f.name, f)
         /\ f.name \in DOMAIN Root(addFunction(t, f))
  <1>. DEFINE map == Insert(t[1].functions, f.name, f)
              s == [t[1] EXCEPT !.functions = map]
  <1>1. t \in Seq(ScopeType) /\ 1 \in 1 .. Len(t)
    BY DEF Chain
  <1>2. t[1] \in ScopeType
    BY <1>1, ElementOfSeq
  <1>3. f.name \in FunctionNames /\ t[1].functions \in Maps(FunctionNames, Functions)
    BY <1>2 DEF FunctionNames, ScopeType
  <1>4. map \in Maps(FunctionNames, Functions) /\ f.name \in DOMAIN map
    <2>1. map \in Maps(FunctionNames, Functions)
      BY <1>3, InsertMap
    <2>2. DOMAIN map = DOMAIN t[1].functions \cup {f.name}
      BY DEF Insert
    <2>. QED
      BY <2>1, <2>2
  <1>5. addFunction(t, f) = [t EXCEPT ![1] = s]
    BY <1>1 DEF addFunction
  <1>6. Root(t) = t[1].functions
    BY DEF Root
  <1>. HIDE DEF map
  <1>7. s \in ScopeType /\ s.functions = map
    BY <1>2, <1>4 DEF ScopeType
  <1>. HIDE DEF s
  <1>8. /\ [t EXCEPT ![1] = s] \in Seq(ScopeType)
        /\ Len([t EXCEPT ![1] = s]) = 1
        /\ [t EXCEPT ![1] = s][1] = s
    BY <1>1, <1>7, ExceptSeq
  <1>9. [t EXCEPT ![1] = s] # << >>
    BY <1>8, EmptySeq
  <1>10. Chain([t EXCEPT ![1] = s]) /\ Root([t EXCEPT ![1] = s]) = map
    BY <1>7, <1>8, <1>9 DEF Chain, Root
  <1>. QED
    BY <1>4, <1>5, <1>6, <1>8, <1>10 DEF map

\* The empty scope and the scope of a function's arguments.
LEMMA NewScopes ==
  /\ EmptyScope \in ScopeType /\ DOMAIN EmptyScope.functions = {}
  /\ \A f \in Functions : ArgScope(f) \in ScopeType /\ DOMAIN ArgScope(f).functions = {}
  <1>1. EmptyMap \in [{} -> VarTypes] /\ EmptyMap \in [{} -> Functions] /\ DOMAIN EmptyMap = {}
    BY DEF EmptyMap
  <1>2. EmptyMap \in Maps(VarNames, VarTypes) /\ EmptyMap \in Maps(FunctionNames, Functions)
    BY <1>1 DEF Maps
  <1>3. EmptyScope \in ScopeType /\ DOMAIN EmptyScope.functions = {}
    BY <1>1, <1>2 DEF EmptyScope, ScopeType
  <1>4. ASSUME NEW f \in Functions
        PROVE  ArgScope(f) \in ScopeType /\ DOMAIN ArgScope(f).functions = {}
    <2>. DEFINE names == {f.args[i].name : i \in DOMAIN f.args}
                type(name) == (CHOOSE a \in Range(f.args) : a.name = name).type
                map == [name \in names |-> type(name)]
    <2>1. f.args \in [1 .. Len(f.args) -> [name : VarNames, type : VarTypes]]
      BY NodesAssumption, LenProperties
    <2>2. names \in SUBSET VarNames
      BY <2>1
    <2>3. \A name \in names : type(name) \in VarTypes
      <3>1. \A name \in names : \E a \in Range(f.args) : a.name = name
        BY <2>1 DEF Range
      <3>2. \A a \in Range(f.args) : a \in [name : VarNames, type : VarTypes]
        BY <2>1 DEF Range
      <3>. QED
        BY <3>1, <3>2
    <2>. HIDE DEF type, names
    <2>4. map \in Maps(VarNames, VarTypes)
      BY <2>2, <2>3 DEF Maps
    <2>. HIDE DEF map
    <2>5. ArgScope(f) = [EmptyScope EXCEPT !.variables = map]
      BY DEF ArgScope, map, type, names
    <2>. QED
      BY <1>1, <1>2, <2>4, <2>5 DEF EmptyScope, ScopeType
  <1>. QED
    BY <1>3, <1>4

-----------------------------------------------------------------------------
(* The stack of open calls: the only function is the outermost call.       *)

Stack(fr) ==
  /\ fr \in Seq(Frame)
  /\ \A i \in 1 .. Len(fr) : fr[i].kind = "function" <=> i = Len(fr)

\* A call from a statement of the function.
LEMMA PushFrame ==
  ASSUME NEW fr, Stack(fr), fr # << >>, NEW f \in Frame, f.kind # "function"
  PROVE  Stack(<< f >> \o fr) /\ Len(<< f >> \o fr) = Len(fr) + 1
  <1>. DEFINE new == << f >> \o fr
  <1>1. fr \in Seq(Frame) /\ Len(fr) \in Nat /\ Len(fr) > 0
    BY EmptySeq, LenProperties DEF Stack
  <1>2. << f >> \in Seq(Frame) /\ Len(<< f >>) = 1 /\ << f >>[1] = f
    OBVIOUS
  <1>3. /\ new \in Seq(Frame)
        /\ Len(new) = 1 + Len(fr)
        /\ \A i \in 1 .. 1 + Len(fr) : new[i] = IF i <= 1 THEN << f >>[i] ELSE fr[i - 1]
    BY <1>1, <1>2, ConcatProperties
  <1>. HIDE DEF new
  <1>4. ASSUME NEW i \in 1 .. Len(new)
        PROVE  new[i].kind = "function" <=> i = Len(new)
    <2>1. CASE i = 1
      BY <1>1, <1>2, <1>3, <2>1
    <2>2. CASE i > 1
      <3>1. i - 1 \in 1 .. Len(fr) /\ new[i] = fr[i - 1]
        BY <1>1, <1>3, <2>2
      <3>. QED
        BY <1>1, <1>3, <3>1 DEF Stack
    <2>. QED
      BY <2>1, <2>2
  <1>. QED
    BY <1>1, <1>3, <1>4 DEF Stack, new

\* The return of the innermost call.
LEMMA PopFrame ==
  ASSUME NEW fr, Stack(fr), fr # << >>
  PROVE  /\ Stack(Tail(fr))
         /\ Len(Tail(fr)) = Len(fr) - 1
         /\ Tail(fr) = << >> <=> Head(fr).kind = "function"
  <1>1. fr \in Seq(Frame) /\ Len(fr) \in Nat /\ Len(fr) > 0
    BY EmptySeq, LenProperties DEF Stack
  <1>2. /\ Tail(fr) \in Seq(Frame)
        /\ Len(Tail(fr)) = Len(fr) - 1
        /\ \A i \in 1 .. Len(Tail(fr)) : Tail(fr)[i] = fr[i + 1]
        /\ Head(fr) = fr[1]
    BY <1>1, HeadTailProperties
  <1>3. ASSUME NEW i \in 1 .. Len(Tail(fr))
        PROVE  Tail(fr)[i].kind = "function" <=> i = Len(Tail(fr))
    <2>1. i + 1 \in 1 .. Len(fr) /\ Tail(fr)[i] = fr[i + 1]
      BY <1>1, <1>2
    <2>2. \A j \in 1 .. Len(fr) : fr[j].kind = "function" <=> j = Len(fr)
      BY DEF Stack
    <2>3. fr[i + 1].kind = "function" <=> i + 1 = Len(fr)
      BY <2>1, <2>2
    <2>4. i + 1 = Len(fr) <=> i = Len(Tail(fr))
      BY <1>1, <1>2
    <2>. QED
      BY <2>1, <2>3, <2>4
  <1>4. fr[1].kind = "function" <=> Len(fr) = 1
    <2>1. 1 \in 1 .. Len(fr)
      BY <1>1
    <2>2. \A i \in 1 .. Len(fr) : fr[i].kind = "function" <=> i = Len(fr)
      BY DEF Stack
    <2>3. fr[1].kind = "function" <=> 1 = Len(fr)
      BY <2>1, <2>2
    <2>. QED
      BY <2>3
  <1>5. Tail(fr) = << >> <=> Len(Tail(fr)) = 0
    BY <1>2, EmptySeq
  <1>6. Stack(Tail(fr))
    BY <1>2, <1>3, Zenon DEF Stack
  <1>7. Tail(fr) = << >> <=> Head(fr).kind = "function"
    <2>1. Len(Tail(fr)) = 0 <=> Len(fr) = 1
      BY <1>1, <1>2
    <2>. QED
      BY <1>2, <1>4, <1>5, <2>1, Zenon
  <1>. QED
    BY <1>2, <1>6, <1>7, Zenon

-----------------------------------------------------------------------------
(* The inductive invariant relates the three structures.  The invariants   *)
(* of ValidatorProperties are not inductive: that scopes are balanced does *)
(* not say that popping one leaves the current function findable, which    *)
(* holds because functions are only ever added to the root.                *)

Consistent(t, fr, f) ==
  /\ Chain(t) /\ Stack(fr) /\ Len(t) = Len(fr) + 1
  /\ f \in Functions \cup {Null}
  /\ fr # << >> => f \in Functions /\ f.name \in DOMAIN Root(t)

\* Every entry of a map is in the next one.
Keeps(map, next) ==
  DOMAIN map \subseteq DOMAIN next /\ \A key \in DOMAIN map : next[key] = map[key]

IInv ==
  /\ Consistent(table, frames, currentFunction)
  /\ ret \in {"none", "true", "false"}
  /\ verdict \in {"checking", "accepted", "rejected"}
  /\ verdict # "checking" => frames = << >>

\* A statement calls check on a statement inside it.
LEMMA ConsistentPush ==
  ASSUME NEW t, NEW fr, NEW f, Consistent(t, fr, f), fr # << >>,
         NEW frame \in Frame, frame.kind # "function"
  PROVE  /\ Consistent(PushScope(t), << frame >> \o fr, f)
         /\ Root(PushScope(t)) = Root(t)
  <1>1. Stack(<< frame >> \o fr) /\ Len(<< frame >> \o fr) = Len(fr) + 1
    BY PushFrame DEF Consistent
  <1>2. /\ Chain(PushScope(t))
        /\ Len(PushScope(t)) = Len(t) + 1
        /\ Root(PushScope(t)) = Root(t)
    BY PushChain, NewScopes DEF Consistent, PushScope
  <1>3. Len(fr) \in Nat /\ Len(t) = Len(fr) + 1
    BY LenProperties DEF Consistent, Stack
  <1>. QED
    BY <1>1, <1>2, <1>3 DEF Consistent

\* A call returns.
LEMMA ConsistentPop ==
  ASSUME NEW t, NEW fr, NEW f, Consistent(t, fr, f), fr # << >>
  PROVE  /\ Consistent(GetParent(t), Tail(fr), f)
         /\ Root(GetParent(t)) = Root(t)
         /\ Tail(fr) = << >> <=> Head(fr).kind = "function"
  <1>1. /\ Stack(Tail(fr))
        /\ Len(Tail(fr)) = Len(fr) - 1
        /\ Tail(fr) = << >> <=> Head(fr).kind = "function"
    BY PopFrame DEF Consistent
  <1>2. Len(fr) \in Nat /\ Len(fr) > 0 /\ Len(t) = Len(fr) + 1
    BY EmptySeq, LenProperties DEF Consistent, Stack
  <1>3. /\ Chain(GetParent(t))
        /\ Len(GetParent(t)) = Len(t) - 1
        /\ Root(GetParent(t)) = Root(t)
    BY <1>2, PopChain DEF Consistent
  <1>. QED
    BY <1>1, <1>2, <1>3 DEF Consistent

\* A variable is declared.
LEMMA ConsistentVariable ==
  ASSUME NEW t, NEW fr, NEW f, Consistent(t, fr, f),
         NEW n \in VarNames, NEW type \in VarTypes
  PROVE  /\ Consistent(addVariable(t, n, type), fr, f)
         /\ Root(addVariable(t, n, type)) = Root(t)
  BY AddVariableChain DEF Consistent

\* A function is declared, and its body opened if it has one.
LEMMA ConsistentFunction ==
  ASSUME NEW t, NEW f, Consistent(t, << >>, f), NEW g \in Functions
  PROVE  /\ Consistent(addFunction(t, g), << >>, f)
         /\ Consistent(addFunction(t, g), << >>, g)
         /\ Consistent(<< ArgScope(g) >> \o addFunction(t, g), << Open("function") >>, g)
         /\ Keeps(Root(t), Root(addFunction(t, g)))
         /\ Keeps(Root(t), Root(<< ArgScope(g) >> \o addFunction(t, g)))
  <1>. DEFINE new == addFunction(t, g)
  <1>1. Chain(t) /\ Len(t) = 1 /\ Stack(<< >>)
    BY EmptySeq DEF Consistent
  <1>2. /\ Chain(new) /\ Len(new) = 1 /\ g.name \in DOMAIN Root(new)
        /\ Root(new) = Insert(Root(t), g.name, g)
    BY <1>1, AddFunctionChain
  <1>8. Keeps(Root(t), Root(new))
    BY <1>2 DEF Keeps, Insert
  <1>. HIDE DEF new
  <1>3. /\ Chain(<< ArgScope(g) >> \o new)
        /\ Len(<< ArgScope(g) >> \o new) = 2
        /\ Root(<< ArgScope(g) >> \o new) = Root(new)
    <2>1. ArgScope(g) \in ScopeType /\ DOMAIN ArgScope(g).functions = {}
      BY NewScopes
    <2>2. /\ Chain(<< ArgScope(g) >> \o new)
          /\ Len(<< ArgScope(g) >> \o new) = Len(new) + 1
          /\ Root(<< ArgScope(g) >> \o new) = Root(new)
      BY <1>2, <2>1, PushChain
    <2>. QED
      BY <1>2, <2>2
  <1>4. /\ << Open("function") >> \in Seq(Frame)
        /\ Len(<< Open("function") >>) = 1
        /\ << Open("function") >>[1].kind = "function"
    BY DEF Open, Frame
  <1>5. Stack(<< Open("function") >>)
    BY <1>4 DEF Stack
  <1>6. Len(<< >>) = 0
    OBVIOUS
  <1>7. << Open("function") >> # << >>
    BY <1>4, <1>6
  <1>. QED
    BY <1>1, <1>2, <1>3, <1>4, <1>5, <1>6, <1>7, <1>8 DEF Consistent, new

-----------------------------------------------------------------------------
(* The initial state and the steps.                                        *)

LEMMA InitIInv == Init => IInv
  <1>. SUFFICES ASSUME Init PROVE IInv
    OBVIOUS
  <1>1. EmptyScope \in ScopeType /\ DOMAIN EmptyScope.functions = {}
    BY NewScopes
  <1>2. /\ << EmptyScope >> \in Seq(ScopeType)
        /\ Len(<< EmptyScope >>) = 1
        /\ << EmptyScope >> # << >>
    BY <1>1
  <1>3. Chain(<< EmptyScope >>)
    BY <1>2 DEF Chain
  <1>4. << >> \in Seq(Frame) /\ Len(<< >>) = 0
    BY EmptySeq
  <1>5. Stack(<< >>)
    BY <1>4 DEF Stack
  <1>. QED
    BY <1>2, <1>3, <1>4, <1>5 DEF Init, IInv, Consistent

\* A step keeps the inductive invariant and every function of the root.
LEMMA StepIInv ==
  IInv /\ [Next]_vars => IInv' /\ Keeps(Root(table), Root(table'))
  <1>. SUFFICES ASSUME IInv, [Next]_vars
                PROVE  IInv' /\ Keeps(Root(table), Root(table'))
    OBVIOUS
  <1>. USE DEF IInv
  <1>0. Root(table') = Root(table) => Keeps(Root(table), Root(table'))
    BY DEF Keeps
  <1>1. ASSUME NEW f \in Functions, CheckFunctionDeclaration(f)
        PROVE  IInv' /\ Keeps(Root(table), Root(table'))
    <2>1. CASE IsOverload(f)
      BY <1>0, <1>1, <2>1 DEF CheckFunctionDeclaration, NextDeclaration
    <2>2. CASE ~IsOverload(f)
      BY <1>1, <2>2, ConsistentFunction DEF CheckFunctionDeclaration, NextDeclaration
    <2>. QED
      BY <2>1, <2>2
  <1>2. ASSUME NEW f \in Functions, CheckFunction(f)
        PROVE  IInv' /\ Keeps(Root(table), Root(table'))
    <2>1. CASE IsOverload(f)
      BY <1>0, <1>2, <2>1 DEF CheckFunction, NextDeclaration
    <2>2. CASE RepeatedArgument(f) /\ ~IsOverload(f)
      BY <1>2, <2>2, ConsistentFunction DEF CheckFunction, RepeatedArgument, NextDeclaration
    <2>3. CASE OpenBody(f) /\ ~IsOverload(f)
      BY <1>2, <2>3, ConsistentFunction DEF CheckFunction, OpenBody, NextDeclaration
    <2>. QED
      BY <1>2, <2>1, <2>2, <2>3 DEF CheckFunction
  <1>3. ASSUME NEW name \in VarNames, NEW type \in VarTypes, CheckVarDecl(name, type)
        PROVE  IInv' /\ Keeps(Root(table), Root(table'))
    BY <1>0, <1>3, ConsistentVariable DEF CheckVarDecl, NextStatement, Answer
  <1>4. ASSUME NEW lvar \in VarNames, NEW decl \in VarTypes \cup {Null}, CheckAssign(decl, lvar)
        PROVE  IInv' /\ Keeps(Root(table), Root(table'))
    BY <1>0, <1>4, ConsistentVariable DEF CheckAssign, NextStatement, Answer
  <1>5. ASSUME NEW expr, CheckReturn(expr) \/ CheckExprStmt(expr)
        PROVE  IInv' /\ Keeps(Root(table), Root(table'))
    BY <1>0, <1>5 DEF CheckReturn, CheckExprStmt, NextStatement, Answer
  <1>6. ASSUME NextStatement, NEW frame \in Frame, frame.kind # "function", Call(frame)
        PROVE  IInv' /\ Keeps(Root(table), Root(table'))
    BY <1>0, <1>6, ConsistentPush DEF Call, NextStatement
  <1>7. ASSUME NEW cond, NEW tru \in BOOLEAN, NEW fals \in BOOLEAN, CheckIf(cond, tru, fals)
        PROVE  IInv' /\ Keeps(Root(table), Root(table'))
    <2>1. /\ OpenTrue(fals) \in Frame /\ OpenTrue(fals).kind # "function"
          /\ Open("false") \in Frame /\ Open("false").kind # "function"
      BY DEF Frame, OpenTrue, Open
    <2>2. CASE Call(OpenTrue(fals)) \/ Call(Open("false"))
      BY <1>6, <1>7, <2>1, <2>2 DEF CheckIf
    <2>3. CASE Answer(IsCondition(cond)) /\ UNCHANGED table
      BY <1>0, <1>7, <2>3 DEF CheckIf, NextStatement, Answer
    <2>. QED
      BY <1>7, <2>2, <2>3 DEF CheckIf
  <1>8. ASSUME NEW cond, NEW body \in BOOLEAN, CheckWhile(cond, body)
        PROVE  IInv' /\ Keeps(Root(table), Root(table'))
    <2>1. Open("while") \in Frame /\ Open("while").kind # "function"
      BY DEF Frame, Open
    <2>2. CASE Call(Open("while"))
      BY <1>6, <1>8, <2>1, <2>2 DEF CheckWhile
    <2>3. CASE Answer(IsCondition(cond)) /\ UNCHANGED table
      BY <1>0, <1>8, <2>3 DEF CheckWhile, NextStatement, Answer
    <2>. QED
      BY <1>8, <2>2, <2>3 DEF CheckWhile
  <1>9. CASE CheckBlock
    <2>1. Open("block") \in Frame /\ Open("block").kind # "function"
      BY DEF Frame, Open
    <2>. QED
      BY <1>6, <1>9, <2>1 DEF CheckBlock
  <1>10. CASE CheckEmptyStmt
    BY <1>0, <1>10 DEF CheckEmptyStmt, NextStatement, Answer
  <1>11. CASE TrueArmDone
    <2>1. /\ Consistent(GetParent(table), Tail(frames), currentFunction)
          /\ Root(GetParent(table)) = Root(table)
          /\ Tail(frames) # << >>
      BY <1>11, ConsistentPop DEF TrueArmDone, Top
    <2>2. Open("false") \in Frame /\ Open("false").kind # "function"
      BY DEF Frame, Open
    <2>3. /\ Consistent(table', frames', currentFunction)
          /\ Root(table') = Root(table)
      BY <1>11, <2>1, <2>2, ConsistentPush DEF TrueArmDone
    <2>. QED
      BY <1>0, <1>11, <2>3 DEF TrueArmDone
  <1>12. CASE StatementDone
    BY <1>0, <1>12, ConsistentPop DEF StatementDone
  <1>13. CASE FunctionDone
    <2>1. /\ Consistent(GetParent(table), << >>, currentFunction)
          /\ Root(GetParent(table)) = Root(table)
          /\ Tail(frames) = << >>
      BY <1>13, ConsistentPop DEF FunctionDone, Top
    <2>2. Consistent(GetParent(table), << >>, Null)
      BY <2>1 DEF Consistent
    <2>. QED
      BY <1>0, <1>13, <2>1, <2>2 DEF FunctionDone
  <1>14. CASE Fail
    BY <1>0, <1>14, ConsistentPop DEF Fail
  <1>15. CASE ProgramAccepted
    BY <1>0, <1>15 DEF ProgramAccepted, NextDeclaration
  <1>16. CASE ProgramRejected
    BY <1>0, <1>16 DEF ProgramRejected
  <1>17. CASE Done \/ UNCHANGED vars
    BY <1>0, <1>17 DEF Done, vars
  <1>. QED
    BY <1>1, <1>2, <1>3, <1>4, <1>5, <1>7, <1>8, <1>9, <1>10, <1>11, <1>12, <1>13,
       <1>14, <1>15, <1>16, <1>17 DEF Next, Statement, Return

\* Every reachable state of the pass satisfies the inductive invariant.
THEOREM Inductive == Spec => []IInv
  <1>1. IInv /\ [Next]_vars => IInv'
    BY StepIInv
  <1>. QED
    BY InitIInv, <1>1, PTL DEF Spec

-----------------------------------------------------------------------------
(* What the properties read of the table and of the stack.                 *)

\* A function is found through any chain exactly if the root has it.
LEMMA FindInRoot ==
  ASSUME NEW t, Chain(t), NEW name
  PROVE  FindFunction(t, name) = IF name \in DOMAIN Root(t) THEN Root(t)[name] ELSE Null
  <1>. DEFINE scopes == {i \in DOMAIN t : name \in DOMAIN t[i].functions}
  <1>1. /\ DOMAIN t = 1 .. Len(t) /\ Len(t) \in Nat /\ Len(t) > 0
        /\ \A i \in 1 .. Len(t) - 1 : DOMAIN t[i].functions = {}
    BY EmptySeq, LenProperties DEF Chain
  <1>2. scopes = IF name \in DOMAIN Root(t) THEN {Len(t)} ELSE {}
    BY <1>1 DEF Root
  <1>3. Min({Len(t)}) = Len(t)
    BY <1>1 DEF Min
  <1>4. FindFunction(t, name) =
          IF scopes = {} THEN Null ELSE t[Min(scopes)].functions[name]
    BY DEF FindFunction
  <1>. HIDE DEF scopes
  <1>. QED
    BY <1>2, <1>3, <1>4 DEF Root

\* What the root has is a function that was declared.
LEMMA RootFunctions ==
  ASSUME NEW t, Chain(t), NEW name \in DOMAIN Root(t)
  PROVE  Root(t)[name] \in Functions /\ Root(t)[name] # Null
  <1>1. t \in Seq(ScopeType) /\ Len(t) \in 1 .. Len(t)
    BY EmptySeq, LenProperties DEF Chain
  <1>2. t[Len(t)] \in ScopeType
    BY <1>1, ElementOfSeq
  <1>3. Root(t) \in Maps(FunctionNames, Functions)
    BY <1>2 DEF Root, ScopeType
  <1>4. PICK D \in SUBSET FunctionNames : Root(t) \in [D -> Functions]
    BY <1>3 DEF Maps
  <1>. QED
    BY <1>4, NodesAssumption

LEMMA IInvGives ==
  IInv => TypeOK /\ ScopesBalanced /\ ReturnHasFunction
  <1>. SUFFICES ASSUME IInv PROVE TypeOK /\ ScopesBalanced /\ ReturnHasFunction
    OBVIOUS
  <1>1. Chain(table) /\ Stack(frames) /\ Len(table) = Len(frames) + 1
    BY DEF IInv, Consistent
  <1>2. TypeOK
    BY <1>1, Zenon DEF TypeOK, IInv, Consistent, Chain, Stack
  <1>3. ScopesBalanced
    <2>1. verdict # "checking" => Len(frames) = 0
      <3>1. verdict # "checking" => frames = << >>
        BY Zenon DEF IInv
      <3>2. Len(<< >>) = 0
        BY EmptySeq, Zenon
      <3>. QED
        BY <3>1, <3>2, Zenon
    <2>. QED
      BY <1>1, <2>1 DEF ScopesBalanced
  <1>4. FunctionIsOutermost
    <2>1. DOMAIN frames = 1 .. Len(frames)
      BY <1>1, LenProperties DEF Stack
    <2>. QED
      BY <1>1, <2>1 DEF FunctionIsOutermost, Stack
  <1>5. ASSUME frames # << >>
        PROVE  currentFunction # Null /\ FindFunction(table, currentFunction.name) # Null
    <2>1. currentFunction \in Functions /\ currentFunction.name \in DOMAIN Root(table)
      BY <1>5 DEF IInv, Consistent
    <2>2. FindFunction(table, currentFunction.name) = Root(table)[currentFunction.name]
      BY <1>1, <2>1, FindInRoot
    <2>. QED
      BY <1>1, <2>1, <2>2, RootFunctions, NodesAssumption
  <1>. QED
    BY <1>2, <1>3, <1>4, <1>5 DEF ReturnHasFunction

\* The Validator's fields and its call stack have their types in every state.
THEOREM TypeCorrect == Spec => []TypeOK
  BY Inductive, IInvGives, PTL

\* Every pushScope is matched by a popScope on every path, whatever fails:
\* ~Validator deletes the root scope.
THEOREM Balanced == Spec => []ScopesBalanced
  BY Inductive, IInvGives, PTL

\* check(ReturnStmtAST) never dereferences a null currentFunction, and the
\* function being checked can always be called.
THEOREM ReturnIsSafe == Spec => []ReturnHasFunction
  BY Inductive, IInvGives, PTL

\* The first declaration of a function's name is the one that every later
\* call is checked against.
THEOREM FunctionsStay == Spec => FirstFunctionStays
  <1>. DEFINE Stay == \A name \in FunctionNames :
                        FindFunction(table, name) # Null =>
                          FindFunction(table', name) = FindFunction(table, name)
  <1>1. ASSUME IInv, [Next]_vars PROVE Stay
    <2>1. Chain(table) /\ Chain(table') /\ Keeps(Root(table), Root(table'))
      BY <1>1, StepIInv DEF IInv, Consistent
    <2>2. SUFFICES ASSUME NEW name \in FunctionNames, FindFunction(table, name) # Null
                   PROVE  FindFunction(table', name) = FindFunction(table, name)
      OBVIOUS
    <2>3. FindFunction(table, name) =
            IF name \in DOMAIN Root(table) THEN Root(table)[name] ELSE Null
      BY <2>1, FindInRoot
    <2>4. FindFunction(table', name) =
            IF name \in DOMAIN Root(table') THEN Root(table')[name] ELSE Null
      BY <2>1, FindInRoot
    <2>. QED
      BY <2>1, <2>2, <2>3, <2>4 DEF Keeps
  <1>2. IInv /\ [Next]_vars => [Stay]_vars
    BY <1>1
  <1>. HIDE DEF Stay
  <1>3. Spec => [][Stay]_vars
    BY Inductive, <1>2, PTL DEF Spec
  <1>. QED
    BY <1>3 DEF FirstFunctionStays, Stay

\* After a failed check nothing is looked at or declared any more: the scopes
\* are popped one by one and the program is rejected.
THEOREM FailureFinal == Spec => FailureIsFinal
  <1>. DEFINE Unwinds == ret = "false" =>
                           /\ ret' = "false"
                           /\ \/ table' = Tail(table) /\ verdict' = "checking"
                              \/ table' = table /\ verdict' = "rejected"
  <1>1. IInv /\ [Next]_vars => [Unwinds]_vars
    <2>. SUFFICES ASSUME IInv, Next, ret = "false" PROVE [Unwinds]_vars
      BY DEF Unwinds
    <2>1. \/ Fail
          \/ ProgramRejected
          \/ Done
      BY DEF Next, Statement, Return, CheckFunctionDeclaration, CheckFunction,
         NextDeclaration, CheckVarDecl, CheckAssign, CheckReturn, CheckExprStmt,
         CheckIf, CheckWhile, CheckBlock, CheckEmptyStmt, NextStatement, TrueArmDone,
         StatementDone, ChildDone, FunctionDone, ProgramAccepted
    <2>2. CASE Fail
      BY <2>2 DEF Fail, GetParent, IInv
    <2>3. CASE ProgramRejected
      BY <2>3 DEF ProgramRejected
    <2>4. CASE Done
      BY <2>4 DEF Done
    <2>. QED
      BY <2>1, <2>2, <2>3, <2>4
  <1>. HIDE DEF Unwinds
  <1>2. Spec => [][Unwinds]_vars
    BY Inductive, <1>1, PTL DEF Spec
  <1>. QED
    BY <1>2 DEF FailureIsFinal, Unwinds

-----------------------------------------------------------------------------
(* The chain of maps implements lexical scoping.                           *)

LEMMA LeastNatural ==
  ASSUME NEW S \in SUBSET Nat, S # {}
  PROVE  \E x \in S : \A y \in S : x <= y
  <1>1. \A x, y \in Nat : << y, x >> \in OpToRel(<, Nat) <=> y < x
    BY DEF OpToRel
  <1>2. PICK R : R = OpToRel(<, Nat)
    OBVIOUS
  <1>3. \A x, y \in Nat : << y, x >> \in R <=> y < x
    BY <1>1, <1>2, Zenon
  <1>4. IsWellFoundedOn(R, Nat)
    BY <1>2, NatLessThanWellFounded, Zenon
  <1>5. PICK x \in S : \A y \in S : ~ (<< y, x >> \in R)
    BY <1>4, WFMin
  <1>6. ASSUME NEW y \in S
        PROVE  x <= y
    <2>1. x \in Nat /\ y \in Nat /\ ~ (<< y, x >> \in R)
      BY <1>5
    <2>2. ~ (y < x)
      BY <1>3, <2>1
    <2>. QED
      BY <2>1, <2>2
  <1>. QED
    BY <1>6

LEMMA MinIs ==
  ASSUME NEW S \in SUBSET Nat, NEW m \in S, \A y \in S : m <= y
  PROVE  Min(S) = m
  <1>1. \A x \in S : (\A y \in S : x <= y) => x = m
    <2>1. ASSUME NEW x \in S, \A y \in S : x <= y
          PROVE  x = m
      <3>1. x \in Nat /\ m \in Nat /\ x <= m /\ m <= x
        BY <2>1
      <3>. QED
        BY <3>1
    <2>. QED
      BY <2>1
  <1>. QED
    BY <1>1 DEF Min

\* The scopes of a chain that declare a variable.
Declaring(t, n) == {i \in DOMAIN t : n \in DOMAIN t[i].variables}

LEMMA FoundAt ==
  ASSUME NEW t, Chain(t), NEW n
  PROVE  /\ Declaring(t, n) = {} => FindVariable(t, n) = Null
         /\ \A m \in Declaring(t, n) :
              (\A i \in Declaring(t, n) : m <= i) => FindVariable(t, n) = t[m].variables[n]
         /\ Declaring(t, n) # {} => \E m \in Declaring(t, n) : \A i \in Declaring(t, n) : m <= i
  <1>1. Declaring(t, n) \in SUBSET Nat
    BY LenProperties DEF Chain, Declaring
  <1>2. FindVariable(t, n) =
          IF Declaring(t, n) = {} THEN Null ELSE t[Min(Declaring(t, n))].variables[n]
    BY DEF FindVariable, Declaring
  <1>. QED
    BY <1>1, <1>2, LeastNatural, MinIs

\* A name is looked up in the innermost scope first, and then in the others.
LEMMA FoundBehind ==
  ASSUME NEW t, Chain(t), NEW s \in ScopeType, DOMAIN s.functions = {}, NEW n
  PROVE  FindVariable(<< s >> \o t, n) =
           IF n \in DOMAIN s.variables THEN s.variables[n] ELSE FindVariable(t, n)
  <1>. DEFINE new == << s >> \o t
  <1>1. Chain(new) /\ Len(new) = Len(t) + 1
    BY PushChain
  <1>2. t \in Seq(ScopeType) /\ Len(t) \in Nat /\ DOMAIN t = 1 .. Len(t)
    BY LenProperties DEF Chain
  <1>3. DOMAIN new = 1 .. Len(t) + 1 /\ new[1] = s /\ \A i \in 1 .. Len(t) : new[i + 1] = t[i]
    BY <1>2
  <1>. HIDE DEF new
  <1>4. CASE n \in DOMAIN s.variables
    <2>1. 1 \in Declaring(new, n) /\ \A i \in Declaring(new, n) : 1 <= i
      BY <1>2, <1>3, <1>4 DEF Declaring
    <2>2. FindVariable(new, n) = new[1].variables[n]
      BY <1>1, <2>1, FoundAt
    <2>. QED
      BY <1>3, <1>4, <2>2 DEF new
  <1>5. CASE n \notin DOMAIN s.variables
    <2>1. \A i \in Declaring(t, n) : i + 1 \in Declaring(new, n)
      BY <1>2, <1>3 DEF Declaring
    <2>2. ASSUME NEW i \in Declaring(new, n)
          PROVE  i - 1 \in Declaring(t, n) /\ i \in Nat
      <3>1. i \in 1 .. Len(t) + 1 /\ n \in DOMAIN new[i].variables
        BY <1>3, <2>2 DEF Declaring
      <3>2. i # 1
        BY <1>3, <1>5, <3>1
      <3>3. i - 1 \in 1 .. Len(t) /\ (i - 1) + 1 = i
        BY <1>2, <3>1, <3>2
      <3>4. new[i] = t[i - 1]
        BY <1>3, <3>3
      <3>. QED
        BY <1>2, <3>1, <3>3, <3>4 DEF Declaring
    <2>3. CASE Declaring(t, n) = {}
      <3>1. Declaring(new, n) = {}
        BY <2>2, <2>3
      <3>. QED
        BY <1>1, <1>5, <2>3, <3>1, FoundAt DEF new
    <2>4. CASE Declaring(t, n) # {}
      <3>1. PICK m \in Declaring(t, n) : \A i \in Declaring(t, n) : m <= i
        BY <2>4, FoundAt
      <3>2. m \in 1 .. Len(t)
        BY <1>2 DEF Declaring
      <3>3. FindVariable(t, n) = t[m].variables[n]
        BY <3>1, FoundAt
      <3>4. m + 1 \in Declaring(new, n)
        BY <2>1
      <3>5. ASSUME NEW i \in Declaring(new, n)
            PROVE  m + 1 <= i
        <4>1. m <= i - 1 /\ i \in Nat
          BY <2>2, <3>1
        <4>. QED
          BY <3>2, <4>1
      <3>6. FindVariable(new, n) = new[m + 1].variables[n]
        BY <1>1, <3>4, <3>5, FoundAt
      <3>. QED
        BY <1>3, <1>5, <3>2, <3>3, <3>6 DEF new
    <2>. QED
      BY <2>3, <2>4
  <1>. QED
    BY <1>4, <1>5

\* The answer depends only on what the scopes say of the name.
LEMMA FoundAlike ==
  ASSUME NEW t, NEW u, Chain(t), Chain(u), Len(t) = Len(u), NEW n,
         \A i \in 1 .. Len(t) : /\ n \in DOMAIN t[i].variables <=> n \in DOMAIN u[i].variables
                                /\ n \in DOMAIN t[i].variables => t[i].variables[n] = u[i].variables[n]
  PROVE  FindVariable(t, n) = FindVariable(u, n)
  <1>1. DOMAIN t = 1 .. Len(t) /\ DOMAIN u = 1 .. Len(t)
    BY LenProperties DEF Chain
  <1>2. Declaring(t, n) = Declaring(u, n)
    BY <1>1 DEF Declaring
  <1>3. CASE Declaring(t, n) = {}
    BY <1>2, <1>3, FoundAt
  <1>4. CASE Declaring(t, n) # {}
    <2>1. PICK m \in Declaring(t, n) : \A i \in Declaring(t, n) : m <= i
      BY <1>4, FoundAt
    <2>2. FindVariable(t, n) = t[m].variables[n] /\ FindVariable(u, n) = u[m].variables[n]
      BY <1>2, <2>1, FoundAt
    <2>. QED
      BY <1>1, <2>2 DEF Declaring
  <1>. QED
    BY <1>3, <1>4

\* Entering a scope keeps what the enclosing scopes had, and remembers it.
Remembered(t) == << [env |-> Visible(t), here |-> Here(t)] >>

LEMMA EnclosingSeq ==
  ASSUME NEW t, Chain(t)
  PROVE  \E S : /\ Enclosing(t) \in Seq(S) /\ Remembered(t) \in Seq(S)
                /\ Len(Enclosing(t)) = Len(t) - 1 /\ Len(Remembered(t)) = 1
  <1>. DEFINE S == {Enclosing(t)[i] : i \in 1 .. Len(t) - 1} \cup {[env |-> Visible(t), here |-> Here(t)]}
  <1>1. Len(t) \in Nat /\ Len(t) > 0
    BY EmptySeq, LenProperties DEF Chain
  <1>2. \A e \in [1 .. Len(t) - 1 -> S] : e \in Seq(S) /\ Len(e) = Len(t) - 1
    BY <1>1
  <1>3. Enclosing(t) \in [1 .. Len(t) - 1 -> S]
    BY DEF Enclosing
  <1>4. Remembered(t) \in Seq(S) /\ Len(Remembered(t)) = 1
    BY DEF Remembered
  <1>. QED
    BY <1>2, <1>3, <1>4

LEMMA PushLexical ==
  ASSUME NEW t, Chain(t), NEW s \in ScopeType, DOMAIN s.functions = {}
  PROVE  /\ Here(<< s >> \o t) = s.variables
         /\ Visible(<< s >> \o t) =
              [n \in VarNames |-> IF n \in DOMAIN s.variables THEN s.variables[n] ELSE Visible(t)[n]]
         /\ Enclosing(<< s >> \o t) = Remembered(t) \o Enclosing(t)
  <1>. DEFINE new == << s >> \o t
              record(u) == [env |-> Visible(u), here |-> Here(u)]
  <1>1. Chain(new) /\ Len(new) = Len(t) + 1
    BY PushChain
  <1>2. t \in Seq(ScopeType) /\ new \in Seq(ScopeType) /\ Len(t) \in Nat /\ Len(t) > 0
    BY <1>1, EmptySeq, LenProperties DEF Chain
  <1>3. new[1] = s /\ \A i \in 1 .. Len(t) : new[i + 1] = t[i]
    BY <1>2
  <1>4. \A n : FindVariable(new, n) =
                 IF n \in DOMAIN s.variables THEN s.variables[n] ELSE FindVariable(t, n)
    BY FoundBehind
  <1>. HIDE DEF new
  <1>5. Here(new) = s.variables
    BY <1>3 DEF Here
  <1>6. Visible(new) =
          [n \in VarNames |-> IF n \in DOMAIN s.variables THEN s.variables[n] ELSE Visible(t)[n]]
    BY <1>4 DEF Visible
  <1>7. Outer(new, 1) = t /\ \A i \in 1 .. Len(t) - 1 : Outer(new, i + 1) = Outer(t, i)
    <2>1. \A i \in 0 .. Len(t) - 1 :
            /\ SubSeq(t, i + 1, Len(t)) \in Seq(ScopeType)
            /\ Len(SubSeq(t, i + 1, Len(t))) = Len(t) - i
            /\ \A j \in 1 .. Len(t) - i : SubSeq(t, i + 1, Len(t))[j] = t[i + j]
      BY <1>2
    <2>2. \A i \in 0 .. Len(t) - 1 :
            /\ SubSeq(new, i + 2, Len(t) + 1) \in Seq(ScopeType)
            /\ Len(SubSeq(new, i + 2, Len(t) + 1)) = Len(t) - i
            /\ \A j \in 1 .. Len(t) - i : SubSeq(new, i + 2, Len(t) + 1)[j] = new[i + j + 1]
      BY <1>1, <1>2
    <2>3. ASSUME NEW i \in 0 .. Len(t) - 1
          PROVE  SubSeq(new, i + 2, Len(t) + 1) = SubSeq(t, i + 1, Len(t))
      <3>1. \A j \in 1 .. Len(t) - i : i + j \in 1 .. Len(t)
        BY <1>2
      <3>2. \A j \in 1 .. Len(t) - i : SubSeq(new, i + 2, Len(t) + 1)[j] = SubSeq(t, i + 1, Len(t))[j]
        BY <1>3, <2>1, <2>2, <3>1
      <3>. DEFINE a == SubSeq(new, i + 2, Len(t) + 1)
                  b == SubSeq(t, i + 1, Len(t))
      <3>3. /\ a \in Seq(ScopeType) /\ b \in Seq(ScopeType)
            /\ Len(a) = Len(t) - i /\ Len(b) = Len(t) - i
            /\ \A j \in 1 .. Len(t) - i : a[j] = b[j]
        BY <2>1, <2>2, <3>2
      <3>. HIDE DEF a, b
      <3>4. a = b
        BY <3>3, SeqEqual
      <3>. QED
        BY <3>4 DEF a, b
    <2>4. SubSeq(t, 1, Len(t)) = t
      BY <1>2
    <2>5. Outer(new, 1) = t
      <3>1. 0 \in 0 .. Len(t) - 1 /\ 0 + 2 = 2 /\ 0 + 1 = 1
        BY <1>2
      <3>2. SubSeq(new, 0 + 2, Len(t) + 1) = SubSeq(t, 0 + 1, Len(t))
        BY <2>3, <3>1
      <3>3. SubSeq(new, 2, Len(t) + 1) = SubSeq(t, 1, Len(t))
        BY <3>1, <3>2
      <3>4. Outer(new, 1) = SubSeq(new, 2, Len(t) + 1)
        BY <1>1 DEF Outer
      <3>. QED
        BY <2>4, <3>3, <3>4
    <2>6. ASSUME NEW i \in 1 .. Len(t) - 1
          PROVE  Outer(new, i + 1) = Outer(t, i)
      BY <1>1, <1>2, <2>3 DEF Outer
    <2>. QED
      BY <2>5, <2>6
  <1>8. Enclosing(new) = Remembered(t) \o Enclosing(t)
    <2>1. PICK S : /\ Enclosing(t) \in Seq(S) /\ Remembered(t) \in Seq(S)
                   /\ Len(Enclosing(t)) = Len(t) - 1 /\ Len(Remembered(t)) = 1
      BY EnclosingSeq
    <2>2. /\ Remembered(t) \o Enclosing(t) \in Seq(S)
          /\ Len(Remembered(t) \o Enclosing(t)) = Len(t)
          /\ \A i \in 1 .. Len(t) : (Remembered(t) \o Enclosing(t))[i] =
               IF i = 1 THEN Remembered(t)[1] ELSE Enclosing(t)[i - 1]
      <3>1. \A a \in Seq(S), b \in Seq(S) : Len(a) = 1 =>
              /\ a \o b \in Seq(S) /\ Len(a \o b) = 1 + Len(b)
              /\ \A i \in 1 .. 1 + Len(b) : (a \o b)[i] = IF i = 1 THEN a[1] ELSE b[i - 1]
        <4>. SUFFICES ASSUME NEW a \in Seq(S), NEW b \in Seq(S), Len(a) = 1
                      PROVE  /\ a \o b \in Seq(S) /\ Len(a \o b) = 1 + Len(b)
                             /\ \A i \in 1 .. 1 + Len(b) :
                                  (a \o b)[i] = IF i = 1 THEN a[1] ELSE b[i - 1]
          OBVIOUS
        <4>1. /\ a \o b \in Seq(S) /\ Len(a \o b) = Len(a) + Len(b)
              /\ \A i \in 1 .. Len(a) + Len(b) :
                   (a \o b)[i] = IF i <= Len(a) THEN a[i] ELSE b[i - Len(a)]
          BY ConcatProperties
        <4>. QED
          BY <4>1
      <3>2. 1 + (Len(t) - 1) = Len(t)
        BY <1>2
      <3>. QED
        BY <2>1, <3>1, <3>2
    <2>3. Remembered(t)[1] = record(t)
      BY DEF Remembered
    <2>4. \A i \in 1 .. Len(t) - 1 : Enclosing(t)[i] = record(Outer(t, i))
      BY DEF Enclosing
    <2>5. /\ Enclosing(new) = [i \in 1 .. Len(t) |-> record(Outer(new, i))]
      BY <1>1, <1>2 DEF Enclosing
    <2>. HIDE DEF record
    <2>6. \A i \in 1 .. Len(t) : record(Outer(new, i)) = (Remembered(t) \o Enclosing(t))[i]
      <3>1. ASSUME NEW i \in 1 .. Len(t), i # 1
            PROVE  record(Outer(new, i)) = (Remembered(t) \o Enclosing(t))[i]
        <4>1. i - 1 \in 1 .. Len(t) - 1 /\ (i - 1) + 1 = i
          BY <1>2, <3>1
        <4>2. Outer(new, i) = Outer(t, i - 1)
          BY <1>7, <4>1
        <4>. QED
          BY <2>2, <2>4, <3>1, <4>1, <4>2
      <3>2. 1 \in 1 .. Len(t)
        BY <1>2
      <3>. QED
        BY <1>7, <2>2, <2>3, <3>1, <3>2
    <2>7. \A e \in Seq(S) : Len(e) = Len(t) => e = [i \in 1 .. Len(t) |-> e[i]]
      BY <1>2
    <2>8. Remembered(t) \o Enclosing(t) = [i \in 1 .. Len(t) |-> (Remembered(t) \o Enclosing(t))[i]]
      BY <2>2, <2>7
    <2>. QED
      BY <2>5, <2>6, <2>8
  <1>. QED
    BY <1>5, <1>6, <1>8 DEF new

\* Leaving a scope gives back what was remembered when it was entered.
LEMMA PopLexical ==
  ASSUME NEW t, Chain(t), Len(t) > 1
  PROVE  /\ Enclosing(t) # << >>
         /\ Head(Enclosing(t)) = [env |-> Visible(GetParent(t)), here |-> Here(GetParent(t))]
         /\ Tail(Enclosing(t)) = Enclosing(GetParent(t))
  <1>. DEFINE p == GetParent(t)
  <1>1. t \in Seq(ScopeType) /\ Len(t) \in Nat /\ t[1] \in ScopeType /\ DOMAIN t[1].functions = {}
    BY LenProperties DEF Chain
  <1>2. Chain(p)
    BY PopChain
  <1>3. t = << t[1] >> \o p
    BY <1>1 DEF GetParent
  <1>4. Enclosing(t) = Remembered(p) \o Enclosing(p)
    BY <1>1, <1>2, <1>3, PushLexical
  <1>5. PICK S : Enclosing(p) \in Seq(S) /\ Remembered(p) \in Seq(S)
    BY <1>2, EnclosingSeq
  <1>6. /\ Remembered(p) \o Enclosing(p) # << >>
        /\ Head(Remembered(p) \o Enclosing(p)) = Remembered(p)[1]
        /\ Tail(Remembered(p) \o Enclosing(p)) = Enclosing(p)
    BY <1>5 DEF Remembered
  <1>. QED
    BY <1>4, <1>6 DEF Remembered

\* The enclosing scopes stay the same when only the innermost one changes.
LEMMA EnclosingAlike ==
  ASSUME NEW t, NEW u, Chain(t), Chain(u), Len(t) = Len(u),
         \A i \in 2 .. Len(t) : t[i] = u[i]
  PROVE  Enclosing(t) = Enclosing(u)
  <1>1. t \in Seq(ScopeType) /\ u \in Seq(ScopeType) /\ Len(t) \in Nat /\ Len(t) > 0
    BY EmptySeq, LenProperties DEF Chain
  <1>2. ASSUME NEW i \in 1 .. Len(t) - 1
        PROVE  Outer(t, i) = Outer(u, i)
    <2>1. \A w \in Seq(ScopeType) : Len(w) = Len(t) =>
            /\ Outer(w, i) \in Seq(ScopeType)
            /\ Len(Outer(w, i)) = Len(t) - i
            /\ \A j \in 1 .. Len(t) - i : Outer(w, i)[j] = w[i + j]
      BY <1>1 DEF Outer
    <2>2. \A j \in 1 .. Len(t) - i : i + j \in 2 .. Len(t)
      BY <1>1
    <2>3. /\ Outer(t, i) \in Seq(ScopeType) /\ Outer(u, i) \in Seq(ScopeType)
          /\ Len(Outer(t, i)) = Len(t) - i
          /\ Len(Outer(u, i)) = Len(t) - i
          /\ \A j \in 1 .. Len(t) - i : Outer(t, i)[j] = t[i + j] /\ Outer(u, i)[j] = u[i + j]
      BY <1>1, <2>1, Zenon
    <2>4. \A j \in 1 .. Len(t) - i : Outer(t, i)[j] = Outer(u, i)[j]
      BY <2>2, <2>3
    <2>. QED
      BY <2>3, <2>4, SeqEqual
  <1>. QED
    BY <1>2 DEF Enclosing

\* The table u is t with the variable n declared in its scope.
DeclaredAs(t, u, n, type) ==
  /\ Enclosing(u) = Enclosing(t)
  /\ Here(u) = [m \in DOMAIN Here(t) \cup {n} |-> IF m = n THEN type ELSE Here(t)[m]]
  /\ Visible(u) = [Visible(t) EXCEPT ![n] = type]

\* A declaration of a new name is seen, and hides the name outside; one of a
\* name the scope has already changes nothing.
LEMMA VariableLexical ==
  ASSUME NEW t, Chain(t), NEW n \in VarNames, NEW type \in VarTypes
  PROVE  /\ n \in DOMAIN Here(t) => addVariable(t, n, type) = t
         /\ n \notin DOMAIN Here(t) => DeclaredAs(t, addVariable(t, n, type), n, type)
  <1>. DEFINE map == Insert(t[1].variables, n, type)
              s   == [t[1] EXCEPT !.variables = map]
              new == addVariable(t, n, type)
  <1>1. /\ t \in Seq(ScopeType) /\ Len(t) \in Nat /\ 1 \in 1 .. Len(t) /\ t[1] \in ScopeType
        /\ DOMAIN t = 1 .. Len(t)
    BY EmptySeq, LenProperties DEF Chain
  <1>2. PICK D \in SUBSET VarNames : t[1].variables \in [D -> VarTypes]
    BY <1>1 DEF ScopeType, Maps
  <1>3. n \in DOMAIN t[1].variables => map = t[1].variables
    BY <1>2 DEF Insert
  <1>4. new = [t EXCEPT ![1] = s]
    BY <1>1 DEF addVariable
  <1>5. n \notin DOMAIN t[1].variables =>
          map = [m \in DOMAIN t[1].variables \cup {n} |-> IF m = n THEN type ELSE t[1].variables[m]]
    BY <1>2 DEF Insert
  <1>6. Chain(new) /\ Len(new) = Len(t)
    BY AddVariableChain
  <1>. HIDE DEF map
  <1>7. CASE n \in DOMAIN Here(t)
    <2>1. s = t[1]
      BY <1>1, <1>3, <1>7 DEF Here, ScopeType
    <2>2. new = t
      BY <1>1, <1>4, <2>1
    <2>. QED
      BY <1>7, <2>2
  <1>8. CASE n \notin DOMAIN Here(t)
    <2>1. s.variables = map
      BY <1>1 DEF ScopeType
    <2>2. new[1] = s /\ \A i \in 2 .. Len(t) : new[i] = t[i]
      BY <1>1, <1>4
    <2>. HIDE DEF s, new
    <2>3. /\ DOMAIN new[1].variables = DOMAIN t[1].variables \cup {n}
          /\ new[1].variables[n] = type
          /\ \A m \in DOMAIN t[1].variables : new[1].variables[m] = t[1].variables[m]
          /\ new[1].variables =
               [m \in DOMAIN t[1].variables \cup {n} |-> IF m = n THEN type ELSE t[1].variables[m]]
      BY <1>5, <1>8, <2>1, <2>2 DEF Here
    <2>4. Enclosing(new) = Enclosing(t)
      BY <1>6, <2>2, EnclosingAlike
    <2>5. FindVariable(new, n) = type
      <3>1. 1 \in Declaring(new, n) /\ \A i \in Declaring(new, n) : 1 <= i
        BY <1>1, <1>6, <2>3, LenProperties DEF Declaring, Chain
      <3>. QED
        BY <1>6, <2>3, <3>1, FoundAt
    <2>6. ASSUME NEW m, m # n
          PROVE  FindVariable(new, m) = FindVariable(t, m)
      <3>1. \A i \in 1 .. Len(t) :
              /\ m \in DOMAIN t[i].variables <=> m \in DOMAIN new[i].variables
              /\ m \in DOMAIN t[i].variables => t[i].variables[m] = new[i].variables[m]
        <4>1. \A i \in 1 .. Len(t) : i = 1 \/ i \in 2 .. Len(t)
          BY <1>1
        <4>. QED
          BY <2>2, <2>3, <2>6, <4>1
      <3>. QED
        BY <1>6, <3>1, FoundAlike
    <2>7. Visible(new) = [Visible(t) EXCEPT ![n] = type]
      BY <2>5, <2>6 DEF Visible
    <2>8. DeclaredAs(t, new, n, type)
      BY <2>3, <2>4, <2>7 DEF DeclaredAs, Here
    <2>. QED
      BY <1>8, <2>8 DEF new
  <1>. QED
    BY <1>7, <1>8

\* A function declared at the root is not a variable.
LEMMA FunctionLexical ==
  ASSUME NEW t, Chain(t), Len(t) = 1, NEW f \in Functions
  PROVE  /\ Visible(addFunction(t, f)) = Visible(t)
         /\ Here(addFunction(t, f)) = Here(t)
         /\ Enclosing(addFunction(t, f)) = Enclosing(t)
  <1>. DEFINE new == addFunction(t, f)
  <1>1. Chain(new) /\ Len(new) = 1
    BY AddFunctionChain
  <1>2. new[1].variables = t[1].variables
    <2>1. t \in Seq(ScopeType) /\ 1 \in 1 .. Len(t) /\ t[1] \in ScopeType
      BY DEF Chain
    <2>. QED
      BY <2>1 DEF addFunction, ScopeType
  <1>. HIDE DEF new
  <1>3. \A n : FindVariable(new, n) = FindVariable(t, n)
    <2>1. \A i \in 1 .. Len(t) : new[i].variables = t[i].variables
      BY <1>2
    <2>. QED
      BY <1>1, <2>1, FoundAlike
  <1>4. Enclosing(new) = Enclosing(t)
    BY <1>1, EnclosingAlike
  <1>. QED
    BY <1>2, <1>3, <1>4 DEF Visible, Here, new

-----------------------------------------------------------------------------
(* Every step of the pass is a step of lexical scoping or leaves the       *)
(* scopes alone.                                                           *)

EnterScope(t, u, map) ==
  /\ Here(u) = map
  /\ Visible(u) = [n \in VarNames |-> IF n \in DOMAIN map THEN map[n] ELSE Visible(t)[n]]
  /\ Enclosing(u) = Remembered(t) \o Enclosing(t)

DeclareIn(t, u) ==
  \E n \in VarNames \ DOMAIN Here(t), type \in VarTypes : DeclaredAs(t, u, n, type)

LeaveScope(t, u) ==
  /\ Enclosing(t) # << >>
  /\ Visible(u) = Head(Enclosing(t)).env
  /\ Here(u) = Head(Enclosing(t)).here
  /\ Enclosing(u) = Tail(Enclosing(t))

SwapScope(t, u) ==
  /\ Enclosing(t) # << >>
  /\ Visible(u) = Head(Enclosing(t)).env
  /\ Here(u) = EmptyMap
  /\ Enclosing(u) = Enclosing(t)

SameScope(t, u) ==
  Visible(u) = Visible(t) /\ Here(u) = Here(t) /\ Enclosing(u) = Enclosing(t)

Scoped(t, u) ==
  \/ \E names \in SUBSET VarNames : \E map \in [names -> VarTypes] : EnterScope(t, u, map)
  \/ DeclareIn(t, u)
  \/ LeaveScope(t, u)
  \/ SwapScope(t, u)
  \/ SameScope(t, u)

\* What the steps do with the table is what lexical scoping allows.
LEMMA ScopedSteps ==
  ASSUME NEW t, Chain(t)
  PROVE  /\ Scoped(t, t)
         /\ Scoped(t, PushScope(t))
         /\ Len(t) > 1 => Scoped(t, GetParent(t)) /\ Scoped(t, PushScope(GetParent(t)))
         /\ \A n \in VarNames, type \in VarTypes : Scoped(t, addVariable(t, n, type))
         /\ Len(t) = 1 =>
              \A f \in Functions : /\ Scoped(t, addFunction(t, f))
                                   /\ Scoped(t, << ArgScope(f) >> \o addFunction(t, f))
  <1>1. Scoped(t, t)
    BY DEF Scoped, SameScope
  <1>2. ASSUME NEW p, Chain(p)
        PROVE  EnterScope(p, PushScope(p), EmptyMap)
    <2>1. EmptyScope \in ScopeType /\ DOMAIN EmptyScope.functions = {}
      BY NewScopes
    <2>2. EmptyScope.variables = EmptyMap
      BY DEF EmptyScope
    <2>. QED
      BY <1>2, <2>1, <2>2, PushLexical DEF PushScope, EnterScope
  <1>3. Scoped(t, PushScope(t))
    <2>1. EmptyMap \in [{} -> VarTypes]
      BY DEF EmptyMap
    <2>. QED
      BY <1>2, <2>1 DEF Scoped
  <1>4. ASSUME Len(t) > 1
        PROVE  Scoped(t, GetParent(t)) /\ Scoped(t, PushScope(GetParent(t)))
    <2>1. Chain(GetParent(t))
      BY <1>4, PopChain
    <2>2. /\ Enclosing(t) # << >>
          /\ Head(Enclosing(t)) = [env |-> Visible(GetParent(t)), here |-> Here(GetParent(t))]
          /\ Tail(Enclosing(t)) = Enclosing(GetParent(t))
      BY <1>4, PopLexical
    <2>3. LeaveScope(t, GetParent(t))
      BY <2>2 DEF LeaveScope
    <2>4. EnterScope(GetParent(t), PushScope(GetParent(t)), EmptyMap)
      BY <1>2, <2>1
    <2>5. Enclosing(t) = Remembered(GetParent(t)) \o Enclosing(GetParent(t))
      <3>1. Len(t) \in Nat /\ t \in Seq(ScopeType) /\ t[1] \in ScopeType /\ DOMAIN t[1].functions = {}
        BY <1>4, LenProperties DEF Chain
      <3>2. t = << t[1] >> \o GetParent(t)
        BY <1>4, <3>1 DEF GetParent
      <3>. QED
        BY <2>1, <3>1, <3>2, PushLexical
    <2>6. Visible(PushScope(GetParent(t))) = Visible(GetParent(t))
      BY <2>4 DEF EnterScope, EmptyMap, Visible
    <2>7. SwapScope(t, PushScope(GetParent(t)))
      BY <2>2, <2>4, <2>5, <2>6 DEF SwapScope, EnterScope
    <2>. QED
      BY <2>3, <2>7 DEF Scoped
  <1>5. ASSUME NEW n \in VarNames, NEW type \in VarTypes
        PROVE  Scoped(t, addVariable(t, n, type))
    <2>. DEFINE u == addVariable(t, n, type)
    <2>1. /\ n \in DOMAIN Here(t) => u = t
          /\ n \notin DOMAIN Here(t) => DeclaredAs(t, u, n, type)
      BY VariableLexical
    <2>. HIDE DEF u
    <2>2. Scoped(t, u)
      BY <1>1, <2>1 DEF Scoped, DeclareIn
    <2>. QED
      BY <2>2 DEF u
  <1>6. ASSUME Len(t) = 1, NEW f \in Functions
        PROVE  /\ Scoped(t, addFunction(t, f))
               /\ Scoped(t, << ArgScope(f) >> \o addFunction(t, f))
    <2>. DEFINE root == addFunction(t, f)
                map  == ArgScope(f).variables
    <2>1. Chain(root) /\ SameScope(t, root)
      BY <1>6, AddFunctionChain, FunctionLexical DEF SameScope
    <2>2. ArgScope(f) \in ScopeType /\ DOMAIN ArgScope(f).functions = {}
      BY NewScopes
    <2>3. PICK names \in SUBSET VarNames : map \in [names -> VarTypes]
      BY <2>2 DEF ScopeType, Maps
    <2>4. EnterScope(root, << ArgScope(f) >> \o root, map)
      BY <2>1, <2>2, PushLexical DEF EnterScope
    <2>. HIDE DEF root, map
    <2>5. EnterScope(t, << ArgScope(f) >> \o root, map)
      BY <2>1, <2>4 DEF EnterScope, SameScope, Remembered
    <2>. QED
      BY <2>1, <2>3, <2>5 DEF Scoped, root
  <1>. QED
    BY <1>1, <1>3, <1>4, <1>5, <1>6

LEMMA StepScoped == IInv /\ [Next]_vars => Scoped(table, table')
  <1>. SUFFICES ASSUME IInv, [Next]_vars
                PROVE  Scoped(table, table')
    OBVIOUS
  <1>1. Chain(table) /\ Len(table) = Len(frames) + 1 /\ Len(frames) \in Nat
    BY LenProperties DEF IInv, Consistent, Stack
  <1>2. frames = << >> => Len(table) = 1
    BY <1>1
  <1>3. frames # << >> => Len(table) > 1
    BY <1>1, EmptySeq DEF IInv, Consistent, Stack
  <1>4. \/ table' = table
        \/ table' = PushScope(table)
        \/ Len(table) > 1 /\ (table' = GetParent(table) \/ table' = PushScope(GetParent(table)))
        \/ \E n \in VarNames, type \in VarTypes : table' = addVariable(table, n, type)
        \/ Len(table) = 1 /\ \E f \in Functions :
             table' \in {addFunction(table, f), << ArgScope(f) >> \o addFunction(table, f)}
    <2>1. ASSUME NEW f \in Functions, CheckFunctionDeclaration(f)
          PROVE  table' = table \/ (Len(table) = 1 /\ table' = addFunction(table, f))
      BY <1>2, <2>1 DEF CheckFunctionDeclaration, NextDeclaration
    <2>2. ASSUME NEW f \in Functions, CheckFunction(f)
          PROVE  \/ table' = table
                 \/ /\ Len(table) = 1
                    /\ table' \in {addFunction(table, f), << ArgScope(f) >> \o addFunction(table, f)}
      BY <1>2, <2>2 DEF CheckFunction, NextDeclaration, RepeatedArgument, OpenBody
    <2>3. ASSUME NEW name \in VarNames, NEW type \in VarTypes, CheckVarDecl(name, type)
          PROVE  table' = table \/ table' = addVariable(table, name, type)
      BY <2>3 DEF CheckVarDecl
    <2>4. ASSUME NEW lvar \in VarNames, NEW decl \in VarTypes \cup {Null}, CheckAssign(decl, lvar)
          PROVE  table' = table \/ (decl \in VarTypes /\ table' = addVariable(table, lvar, decl))
      BY <2>4 DEF CheckAssign
    <2>5. ASSUME NEW cond, NEW tru, NEW fals, CheckIf(cond, tru, fals)
          PROVE  table' = table \/ table' = PushScope(table)
      BY <2>5 DEF CheckIf, Call
    <2>6. ASSUME NEW cond, NEW body, CheckWhile(cond, body)
          PROVE  table' = table \/ table' = PushScope(table)
      BY <2>6 DEF CheckWhile, Call
    <2>7. ASSUME NEW expr, CheckReturn(expr) \/ CheckExprStmt(expr)
          PROVE  table' = table
      BY <2>7 DEF CheckReturn, CheckExprStmt
    <2>8. CheckBlock \/ CheckEmptyStmt => table' = table \/ table' = PushScope(table)
      BY DEF CheckBlock, CheckEmptyStmt, Call
    <2>9. Return => /\ Len(table) > 1
                    /\ table' = GetParent(table) \/ table' = PushScope(GetParent(table))
      BY <1>3 DEF Return, TrueArmDone, StatementDone, FunctionDone, Fail
    <2>10. ProgramAccepted \/ ProgramRejected \/ Done \/ UNCHANGED vars => table' = table
      BY DEF ProgramAccepted, ProgramRejected, Done, vars
    <2>. QED
      BY <2>1, <2>2, <2>3, <2>4, <2>5, <2>6, <2>7, <2>8, <2>9, <2>10 DEF Next, Statement
  <1>. QED
    BY <1>1, <1>4, ScopedSteps

\* Seen through the mapping, the pass keeps its environment as lexical scoping
\* does: what is declared in a scope is forgotten when the scope is left, what
\* it hid is visible again, and no scope changes the type of a name.
THEOREM ScopingIsLexical == Spec => LexicalScoping
  <1>1. Init => Scoping!Init
    <2>. SUFFICES ASSUME Init PROVE Scoping!Init
      OBVIOUS
    <2>1. table = << EmptyScope >> /\ EmptyScope.variables = EmptyMap
      BY DEF Init, EmptyScope
    <2>2. Chain(table) /\ Len(table) = 1
      BY <2>1, InitIInv DEF IInv, Consistent
    <2>3. Here(table) = EmptyMap /\ EmptyMap = [n \in {} |-> Null]
      BY <2>1 DEF Here, EmptyMap
    <2>4. Visible(table) = [n \in VarNames |-> Null]
      <3>1. \A n : Declaring(table, n) = {}
        BY <2>1, <2>2, <2>3 DEF Declaring, Here
      <3>. QED
        BY <2>2, <3>1, FoundAt DEF Visible
    <2>5. Enclosing(table) = << >>
      BY <2>2 DEF Enclosing
    <2>. QED
      BY <2>3, <2>4, <2>5 DEF Scoping!Init, Scoping!Nothing
  <1>2. IInv /\ [Next]_vars => [Scoping!Next]_(Scoping!lexicalVars)
    <2>. SUFFICES ASSUME IInv, [Next]_vars
                  PROVE  [Scoping!Next]_(Scoping!lexicalVars)
      OBVIOUS
    <2>1. Scoped(table, table')
      BY StepScoped
    <2>2. \A names \in SUBSET VarNames : \A map \in [names -> VarTypes] :
            EnterScope(table, table', map) => Scoping!Enter
      BY DEF EnterScope, Scoping!Enter, Scoping!Remember, Remembered
    <2>3. DeclareIn(table, table') => Scoping!Declare
      BY DEF DeclareIn, DeclaredAs, Scoping!Declare
    <2>4. LeaveScope(table, table') => Scoping!Leave
      BY DEF LeaveScope, Scoping!Leave
    <2>5. SwapScope(table, table') => Scoping!LeaveAndEnter
      BY DEF SwapScope, Scoping!LeaveAndEnter, Scoping!Nothing, EmptyMap
    <2>6. SameScope(table, table') => UNCHANGED Scoping!lexicalVars
      BY DEF SameScope, Scoping!lexicalVars
    <2>. QED
      BY <2>1, <2>2, <2>3, <2>4, <2>5, <2>6 DEF Scoped, Scoping!Next
  <1>. QED
    BY Inductive, <1>1, <1>2, PTL DEF Spec, LexicalScoping, Scoping!Spec

-----------------------------------------------------------------------------
(* What the second pass may rely on: which declarations the steps leave in *)
(* the scopes.                                                             *)

DeclsOf(s) == {<< n, s.variables[n] >> : n \in DOMAIN s.variables}
Decls(t)   == UNION {DeclsOf(t[i]) : i \in DOMAIN t}

\* No variable is declared outside of a function.
Bare(t) == DOMAIN t[Len(t)].variables = {}

\* What is found has been declared.
LEMMA FoundIsDeclared ==
  ASSUME NEW t, Chain(t), NEW n, FindVariable(t, n) # Null
  PROVE  << n, FindVariable(t, n) >> \in Decls(t)
  <1>1. Declaring(t, n) # {}
    BY FoundAt
  <1>2. PICK m \in Declaring(t, n) : FindVariable(t, n) = t[m].variables[n]
    BY <1>1, FoundAt
  <1>. QED
    BY <1>2 DEF Declaring, Decls, DeclsOf

LEMMA DeclsPush ==
  ASSUME NEW t, Chain(t), NEW s \in ScopeType, DOMAIN s.functions = {}
  PROVE  /\ Decls(<< s >> \o t) = DeclsOf(s) \cup Decls(t)
         /\ Bare(<< s >> \o t) <=> Bare(t)
  <1>. DEFINE new == << s >> \o t
  <1>1. t \in Seq(ScopeType) /\ Len(t) \in Nat /\ Len(t) > 0 /\ DOMAIN t = 1 .. Len(t)
    BY EmptySeq, LenProperties DEF Chain
  <1>2. /\ Len(new) = Len(t) + 1 /\ DOMAIN new = 1 .. Len(t) + 1
        /\ new[1] = s /\ \A i \in 1 .. Len(t) : new[i + 1] = t[i]
    BY <1>1
  <1>. HIDE DEF new
  <1>3. Bare(new) <=> Bare(t)
    <2>1. Len(t) \in 1 .. Len(t)
      BY <1>1
    <2>2. new[Len(new)] = t[Len(t)]
      BY <1>2, <2>1
    <2>. QED
      BY <2>2 DEF Bare
  <1>4. ASSUME NEW d
        PROVE  d \in Decls(new) <=> d \in DeclsOf(s) \cup Decls(t)
    <2>1. d \in Decls(new) <=> \E i \in 1 .. Len(t) + 1 : d \in DeclsOf(new[i])
      BY <1>2 DEF Decls
    <2>2. d \in Decls(t) <=> \E i \in 1 .. Len(t) : d \in DeclsOf(t[i])
      BY <1>1 DEF Decls
    <2>3. \A i \in 1 .. Len(t) + 1 : i = 1 \/ (i - 1 \in 1 .. Len(t) /\ (i - 1) + 1 = i)
      BY <1>1
    <2>4. \A i \in 1 .. Len(t) : i + 1 \in 1 .. Len(t) + 1
      BY <1>1
    <2>5. 1 \in 1 .. Len(t) + 1
      BY <1>1
    <2>6. ASSUME d \in Decls(new)
          PROVE  d \in DeclsOf(s) \cup Decls(t)
      <3>1. PICK i \in 1 .. Len(t) + 1 : d \in DeclsOf(new[i])
        BY <2>1, <2>6
      <3>2. CASE i = 1
        BY <1>2, <3>1, <3>2
      <3>3. CASE i - 1 \in 1 .. Len(t) /\ (i - 1) + 1 = i
        <4>1. new[i] = t[i - 1]
          BY <1>2, <3>3
        <4>. QED
          BY <2>2, <3>1, <3>3, <4>1
      <3>. QED
        BY <2>3, <3>2, <3>3
    <2>7. ASSUME d \in Decls(t)
          PROVE  d \in Decls(new)
      BY <1>2, <2>1, <2>2, <2>4, <2>7
    <2>8. d \in DeclsOf(s) => d \in Decls(new)
      BY <1>2, <2>1, <2>5
    <2>. QED
      BY <2>6, <2>7, <2>8
  <1>. QED
    BY <1>3, <1>4 DEF new

LEMMA DeclsPop ==
  ASSUME NEW t, Chain(t), Len(t) > 1
  PROVE  Decls(GetParent(t)) \subseteq Decls(t) /\ (Bare(GetParent(t)) <=> Bare(t))
  <1>1. Len(t) \in Nat /\ t \in Seq(ScopeType) /\ t[1] \in ScopeType /\ DOMAIN t[1].functions = {}
    BY LenProperties DEF Chain
  <1>2. t = << t[1] >> \o GetParent(t)
    BY <1>1 DEF GetParent
  <1>3. Chain(GetParent(t))
    BY PopChain
  <1>. DEFINE p == GetParent(t)
  <1>4. Chain(p) /\ t = << t[1] >> \o p /\ t[1] \in ScopeType /\ DOMAIN t[1].functions = {}
    BY <1>1, <1>2, <1>3
  <1>. HIDE DEF p
  <1>5. /\ Decls(<< t[1] >> \o p) = DeclsOf(t[1]) \cup Decls(p)
        /\ Bare(<< t[1] >> \o p) <=> Bare(p)
    BY <1>4, DeclsPush
  <1>6. Decls(p) \subseteq Decls(t) /\ (Bare(p) <=> Bare(t))
    BY <1>4, <1>5
  <1>. QED
    BY <1>6 DEF p

LEMMA DeclsVariable ==
  ASSUME NEW t, Chain(t), NEW n \in VarNames, NEW type \in VarTypes
  PROVE  /\ Decls(addVariable(t, n, type)) \subseteq Decls(t) \cup {<< n, type >>}
         /\ Len(t) > 1 /\ Bare(t) => Bare(addVariable(t, n, type))
  <1>. DEFINE s == [t[1] EXCEPT !.variables = Insert(@, n, type)]
              new == addVariable(t, n, type)
  <1>1. /\ t \in Seq(ScopeType) /\ Len(t) \in Nat /\ Len(t) > 0 /\ 1 \in 1 .. Len(t) /\ t[1] \in ScopeType
        /\ DOMAIN t = 1 .. Len(t)
    BY EmptySeq, LenProperties DEF Chain
  <1>2. /\ Len(new) = Len(t) /\ DOMAIN new = 1 .. Len(t)
        /\ new[1] = s /\ \A i \in 1 .. Len(t) : i # 1 => new[i] = t[i]
    BY <1>1 DEF addVariable
  <1>3. s.variables = Insert(t[1].variables, n, type)
    BY <1>1 DEF ScopeType
  <1>. HIDE DEF s, new
  <1>4. DeclsOf(s) \subseteq DeclsOf(t[1]) \cup {<< n, type >>}
    <2>1. /\ DOMAIN s.variables = DOMAIN t[1].variables \cup {n}
          /\ \A m \in DOMAIN s.variables :
               s.variables[m] = IF m \in DOMAIN t[1].variables THEN t[1].variables[m] ELSE type
      BY <1>3 DEF Insert
    <2>. QED
      BY <2>1 DEF DeclsOf
  <1>5. Decls(new) \subseteq Decls(t) \cup {<< n, type >>}
    BY <1>1, <1>2, <1>4 DEF Decls
  <1>6. Len(t) > 1 => new[Len(new)] = t[Len(t)]
    BY <1>1, <1>2
  <1>. QED
    BY <1>5, <1>6 DEF Bare, new

LEMMA DeclsFunction ==
  ASSUME NEW t, Chain(t), Len(t) = 1, NEW f \in Functions
  PROVE  Decls(addFunction(t, f)) = Decls(t) /\ (Bare(addFunction(t, f)) <=> Bare(t))
  <1>. DEFINE new == addFunction(t, f)
  <1>1. t \in Seq(ScopeType) /\ 1 \in 1 .. Len(t) /\ t[1] \in ScopeType /\ DOMAIN t = 1 .. 1
    BY LenProperties DEF Chain
  <1>2. new[1].variables = t[1].variables /\ Len(new) = 1 /\ DOMAIN new = 1 .. 1
    BY <1>1 DEF addFunction, ScopeType
  <1>. HIDE DEF new
  <1>. QED
    BY <1>1, <1>2 DEF Decls, DeclsOf, Bare, new

\* What a step inside a function declares: at most D.
Declares(D) ==
  /\ Decls(table') \subseteq Decls(table) \cup D
  /\ Root(table') = Root(table)
  /\ currentFunction' = currentFunction
  /\ frames # << >> /\ frames' # << >>

\* No variable is declared at the root, where the functions are.
Rooted == IInv /\ Bare(table)

ArgDecls(f) == DeclsOf(ArgScope(f))

LEMMA DeclsInside ==
  ASSUME Rooted
  PROVE  /\ \A n \in VarNames, type \in VarTypes :
              CheckVarDecl(n, type) => Declares({<< n, type >>}) /\ Bare(table')
         /\ \A n \in VarNames, decl \in VarTypes \cup {Null} :
              CheckAssign(decl, n) =>
                Declares(IF decl = Null THEN {} ELSE {<< n, decl >>}) /\ Bare(table')
         /\ \A e : CheckReturn(e) \/ CheckExprStmt(e) => Declares({}) /\ Bare(table')
         /\ \A cond, tru, fals : CheckIf(cond, tru, fals) => Declares({}) /\ Bare(table')
         /\ \A cond, hasBody : CheckWhile(cond, hasBody) => Declares({}) /\ Bare(table')
         /\ CheckBlock \/ CheckEmptyStmt => Declares({}) /\ Bare(table')
         /\ TrueArmDone \/ StatementDone => Declares({}) /\ Bare(table')
  <1>1. /\ Consistent(table, frames, currentFunction) /\ Chain(table) /\ Stack(frames)
        /\ Len(table) = Len(frames) + 1 /\ Len(frames) \in Nat /\ frames \in Seq(Frame)
    BY LenProperties DEF Rooted, IInv, Consistent, Stack
  <1>2. frames # << >> => Len(table) > 1
    BY <1>1, EmptySeq
  <1>3. frames # << >> /\ table' = table /\ frames' = frames /\ currentFunction' = currentFunction =>
          Declares({}) /\ Bare(table')
    BY DEF Declares, Rooted
  <1>4. ASSUME frames # << >>, NEW n \in VarNames, NEW type \in VarTypes,
               table' = addVariable(table, n, type), frames' = frames, currentFunction' = currentFunction
        PROVE  Declares({<< n, type >>}) /\ Bare(table')
    <2>1. Root(table') = Root(table)
      BY <1>1, <1>4, AddVariableChain
    <2>2. Decls(table') \subseteq Decls(table) \cup {<< n, type >>} /\ Bare(table')
      BY <1>1, <1>2, <1>4, DeclsVariable DEF Rooted
    <2>. QED
      BY <1>4, <2>1, <2>2 DEF Declares
  <1>5. ASSUME NEW t, Chain(t), Bare(t)
        PROVE  Decls(PushScope(t)) = Decls(t) /\ Bare(PushScope(t)) /\ Root(PushScope(t)) = Root(t)
    <2>1. EmptyScope \in ScopeType /\ DOMAIN EmptyScope.functions = {}
      BY NewScopes
    <2>2. DeclsOf(EmptyScope) = {}
      BY DEF DeclsOf, EmptyScope, EmptyMap
    <2>3. Root(PushScope(t)) = Root(t)
      BY <1>5, <2>1, PushChain DEF PushScope
    <2>. QED
      BY <1>5, <2>1, <2>2, <2>3, DeclsPush DEF PushScope
  <1>6. ASSUME NEW frame, frames # << >>, Call(frame)
        PROVE  Declares({}) /\ Bare(table')
    <2>1. << frame >> \o frames # << >>
      BY <1>1, <1>6
    <2>. QED
      BY <1>1, <1>5, <1>6, <2>1 DEF Call, Declares, Rooted
  <1>7. ASSUME NEW n \in VarNames, NEW type \in VarTypes, CheckVarDecl(n, type)
        PROVE  Declares({<< n, type >>}) /\ Bare(table')
    <2>1. frames # << >> /\ frames' = frames /\ currentFunction' = currentFunction
      BY <1>7 DEF CheckVarDecl, NextStatement, Answer
    <2>2. table' = table \/ table' = addVariable(table, n, type)
      BY <1>7 DEF CheckVarDecl
    <2>. QED
      BY <1>3, <1>4, <2>1, <2>2 DEF Declares
  <1>8. ASSUME NEW n \in VarNames, NEW decl \in VarTypes \cup {Null}, CheckAssign(decl, n)
        PROVE  Declares(IF decl = Null THEN {} ELSE {<< n, decl >>}) /\ Bare(table')
    <2>1. frames # << >> /\ frames' = frames /\ currentFunction' = currentFunction
      BY <1>8 DEF CheckAssign, NextStatement, Answer
    <2>2. CASE decl = Null
      BY <1>3, <1>8, <2>1, <2>2 DEF CheckAssign
    <2>3. CASE decl # Null
      BY <1>4, <1>8, <2>1, <2>3 DEF CheckAssign
    <2>. QED
      BY <2>2, <2>3
  <1>9. \A e : CheckReturn(e) \/ CheckExprStmt(e) => Declares({}) /\ Bare(table')
    BY <1>3 DEF CheckReturn, CheckExprStmt, NextStatement, Answer
  <1>10. \A cond, tru, fals : CheckIf(cond, tru, fals) => Declares({}) /\ Bare(table')
    BY <1>3, <1>6 DEF CheckIf, NextStatement, Answer
  <1>11. \A cond, hasBody : CheckWhile(cond, hasBody) => Declares({}) /\ Bare(table')
    BY <1>3, <1>6 DEF CheckWhile, NextStatement, Answer
  <1>12. CheckBlock \/ CheckEmptyStmt => Declares({}) /\ Bare(table')
    BY <1>3, <1>6 DEF CheckBlock, CheckEmptyStmt, NextStatement, Answer
  <1>13. ASSUME frames # << >>
         PROVE  /\ Chain(GetParent(table)) /\ Bare(GetParent(table))
                /\ Decls(GetParent(table)) \subseteq Decls(table)
                /\ Root(GetParent(table)) = Root(table)
                /\ Tail(frames) = << >> <=> Top.kind = "function"
    <2>1. Chain(GetParent(table)) /\ Root(GetParent(table)) = Root(table)
      BY <1>1, <1>2, <1>13, PopChain
    <2>2. Decls(GetParent(table)) \subseteq Decls(table) /\ Bare(GetParent(table))
      BY <1>1, <1>2, <1>13, DeclsPop DEF Rooted
    <2>. QED
      BY <1>1, <1>13, <2>1, <2>2, PopFrame DEF Top
  <1>14. CASE TrueArmDone
    <2>1. << Open("false") >> \o Tail(frames) # << >>
      BY <1>1, <1>14 DEF TrueArmDone
    <2>. QED
      BY <1>5, <1>13, <1>14, <2>1 DEF TrueArmDone, Declares
  <1>15. CASE StatementDone
    BY <1>13, <1>15 DEF StatementDone, ChildDone, Declares
  <1>. QED
    BY <1>7, <1>8, <1>9, <1>10, <1>11, <1>12, <1>14, <1>15

LEMMA DeclsOutside ==
  ASSUME Rooted
  PROVE  /\ FunctionDone =>
              /\ Decls(table') \subseteq Decls(table) /\ Bare(table')
              /\ Root(table') = Root(table) /\ frames' = << >>
         /\ \A f \in Functions : CheckFunctionDeclaration(f) /\ ret' # "false" =>
              /\ frames = << >> /\ frames' = frames /\ currentFunction' = currentFunction
              /\ Root(table') = Insert(Root(table), f.name, f)
              /\ Decls(table') = Decls(table) /\ Bare(table')
         /\ \A f \in Functions : CheckFunction(f) /\ ret' # "false" =>
              /\ frames = << >> /\ frames' # << >> /\ currentFunction' = f
              /\ Root(table') = Insert(Root(table), f.name, f)
              /\ Decls(table') = ArgDecls(f) /\ Bare(table')
  <1>1. /\ Chain(table) /\ Stack(frames) /\ Bare(table)
        /\ Len(table) = Len(frames) + 1 /\ Len(frames) \in Nat /\ frames \in Seq(Frame)
    BY LenProperties DEF Rooted, IInv, Consistent, Stack
  <1>2. frames # << >> => Len(table) > 1
    BY <1>1, EmptySeq
  <1>3. ASSUME FunctionDone
        PROVE  /\ Decls(table') \subseteq Decls(table) /\ Bare(table')
               /\ Root(table') = Root(table) /\ frames' = << >>
    <2>1. Chain(GetParent(table)) /\ Root(GetParent(table)) = Root(table)
      BY <1>1, <1>2, <1>3, PopChain DEF FunctionDone
    <2>2. Decls(GetParent(table)) \subseteq Decls(table) /\ Bare(GetParent(table))
      BY <1>1, <1>2, <1>3, DeclsPop DEF FunctionDone
    <2>3. Tail(frames) = << >>
      BY <1>1, <1>3, PopFrame DEF FunctionDone, Top
    <2>. QED
      BY <1>3, <2>1, <2>2, <2>3 DEF FunctionDone
  <1>4. frames = << >> => Len(table) = 1
    BY <1>1
  <1>5. ASSUME frames = << >>, NEW f \in Functions
        PROVE  LET new == addFunction(table, f)
               IN  /\ Chain(new) /\ Bare(new) /\ Decls(new) = Decls(table) /\ Decls(new) = {}
                   /\ Root(new) = Insert(Root(table), f.name, f)
    <2>1. DOMAIN table = 1 .. 1
      BY <1>1, <1>4, <1>5, LenProperties DEF Chain
    <2>2. Decls(table) = {}
      BY <1>1, <1>4, <1>5, <2>1 DEF Decls, DeclsOf, Bare
    <2>. QED
      BY <1>1, <1>4, <1>5, <2>2, DeclsFunction, AddFunctionChain
  <1>6. ASSUME NEW f \in Functions, CheckFunctionDeclaration(f), ret' # "false"
        PROVE  /\ frames = << >> /\ frames' = frames /\ currentFunction' = currentFunction
               /\ Root(table') = Insert(Root(table), f.name, f)
               /\ Decls(table') = Decls(table) /\ Bare(table')
    <2>1. frames = << >> /\ frames' = frames /\ currentFunction' = currentFunction
          /\ table' = addFunction(table, f)
      BY <1>6 DEF CheckFunctionDeclaration, NextDeclaration
    <2>. QED
      BY <1>5, <2>1
  <1>7. ASSUME NEW f \in Functions, CheckFunction(f), ret' # "false"
        PROVE  /\ frames = << >> /\ frames' # << >> /\ currentFunction' = f
               /\ Root(table') = Insert(Root(table), f.name, f)
               /\ Decls(table') = ArgDecls(f) /\ Bare(table')
    <2>. DEFINE new == addFunction(table, f)
    <2>1. /\ frames = << >> /\ frames' = << Open("function") >> /\ currentFunction' = f
          /\ table' = << ArgScope(f) >> \o new
      BY <1>7 DEF CheckFunction, NextDeclaration, RepeatedArgument, OpenBody
    <2>2. /\ Chain(new) /\ Bare(new) /\ Decls(new) = {} /\ Root(new) = Insert(Root(table), f.name, f)
      BY <1>5, <2>1
    <2>. HIDE DEF new
    <2>3. ArgScope(f) \in ScopeType /\ DOMAIN ArgScope(f).functions = {}
      BY NewScopes
    <2>4. Root(table') = Root(new)
      BY <2>1, <2>2, <2>3, PushChain
    <2>5. Decls(table') = DeclsOf(ArgScope(f)) /\ Bare(table')
      BY <2>1, <2>2, <2>3, DeclsPush
    <2>6. << Open("function") >> # << >>
      OBVIOUS
    <2>. QED
      BY <2>1, <2>2, <2>4, <2>5, <2>6 DEF ArgDecls
  <1>. QED
    BY <1>3, <1>6, <1>7

\* The root stays bare whatever the pass does.
LEMMA RootedNext == Rooted /\ [Next]_vars => Rooted'
  <1>. SUFFICES ASSUME Rooted, [Next]_vars PROVE Rooted'
    OBVIOUS
  <1>1. IInv'
    BY StepIInv DEF Rooted
  <1>2. table' = table => Bare(table')
    BY DEF Rooted
  <1>3. ASSUME NEW f \in Functions, CheckFunctionDeclaration(f) \/ CheckFunction(f)
        PROVE  Bare(table')
    <2>1. CASE ret' # "false"
      BY <1>3, <2>1, DeclsOutside
    <2>2. CASE ret' = "false"
      <3>1. \/ table' = table
            \/ frames = << >> /\ table' = addFunction(table, f)
        BY <1>3, <2>2 DEF CheckFunctionDeclaration, CheckFunction, NextDeclaration, RepeatedArgument, OpenBody
      <3>2. frames = << >> => Chain(table) /\ Len(table) = 1
        BY DEF Rooted, IInv, Consistent
      <3>. QED
        BY <1>2, <3>1, <3>2, DeclsFunction DEF Rooted
    <2>. QED
      BY <2>1, <2>2
  <1>4. Statement \/ TrueArmDone \/ StatementDone \/ FunctionDone => Bare(table')
    BY DeclsInside, DeclsOutside DEF Statement
  <1>5. CASE Fail
    <2>1. Chain(table) /\ Len(table) > 1
      BY <1>5, EmptySeq, LenProperties DEF Fail, Rooted, IInv, Consistent, Stack
    <2>. QED
      BY <1>1, <1>5, <2>1, DeclsPop DEF Fail, Rooted
  <1>6. ProgramAccepted \/ ProgramRejected \/ Done \/ UNCHANGED vars => table' = table
    BY DEF ProgramAccepted, ProgramRejected, Done, vars
  <1>. QED
    BY <1>1, <1>2, <1>3, <1>4, <1>5, <1>6 DEF Next, Return, Rooted
=============================================================================
