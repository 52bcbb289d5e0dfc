----------------------------- MODULE ExprProofs -----------------------------
(***************************************************************************)
(* What the Validator accepts of an expression and rewrites in it is what  *)
(* code generation needs, for expressions of any depth.                    *)
(***************************************************************************)
EXTENDS Expressions, WellFoundedInduction, TLAPS

LEMMA LeastNatural ==
  ASSUME NEW S \in SUBSET Nat, S # {}
  PROVE  \E x \in S : \A y \in S : x <= y
  <1>1. \A x, y \in Nat : << y, x >> \in OpToRel(<, Nat) <=> y < x
    BY DEF OpToRel
  <1>2. PICK R : R = OpToRel(<, Nat)
    OBVIOUS
  <1>3. \A x, y \in Nat : << y, x >> \in R <=> y < x
    BY <1>1, <1>2, Zenon
  <1>4. IsWellFoundedOn(R, Nat)
    BY <1>2, NatLessThanWellFounded, Zenon
  <1>5. PICK x \in S : \A y \in S : ~ (<< y, x >> \in R)
    BY <1>4, WFMin
  <1>6. ASSUME NEW y \in S
        PROVE  x <= y
    <2>1. x \in Nat /\ y \in Nat /\ ~ (<< y, x >> \in R)
      BY <1>5
    <2>2. ~ (y < x)
      BY <1>3, <2>1
    <2>. QED
      BY <2>1, <2>2
  <1>. QED
    BY <1>6

\* Induction, for a set of numbers.
LEMMA SetInduction ==
  ASSUME NEW S \in SUBSET Nat, 0 \in S, \A m \in S : m + 1 \in S
  PROVE  S = Nat
  <1>. DEFINE T == Nat \ S
  <1>1. ASSUME T # {}
        PROVE  FALSE
    <2>1. PICK x \in T : \A y \in T : x <= y
      BY <1>1, LeastNatural
    <2>2. x \in Nat /\ x # 0 /\ x - 1 \in Nat /\ ~ (x <= x - 1) /\ (x - 1) + 1 = x
      OBVIOUS
    <2>3. x - 1 \in S
      BY <2>1, <2>2
    <2>. QED
      BY <2>2, <2>3
  <1>. QED
    BY <1>1

-----------------------------------------------------------------------------
(* The recursive functions have the values that their definitions say.     *)

NestedTrees(n, E) ==
  IF n = 0 THEN Literals \cup [op : {"var"}, name : STRING]
  ELSE [op : {"sign"}, value : E] \cup [op : {"casting"}, value : E, type : Type]
       \cup [op : {"binary", "comparison", "boolop"}, LHS : E, RHS : E]
       \cup [op : {"call"}, callee : STRING, args : Seq(E)] \cup E

LEMMA TreesDefined ==
  \A n \in 0 .. MaxNesting : ExprAST[n] = NestedTrees(n, ExprAST[n - 1])
  <1>. DEFINE Trees(g, m) == g = [n \in 0 .. m |-> NestedTrees(n, g[n - 1])]
              S == {m \in Nat : \E g : Trees(g, m)}
  <1>1. ExprAST = CHOOSE g : Trees(g, MaxNesting)
    BY DEF ExprAST, NestedTrees
  <1>2. 0 \in S
    <2>1. Trees([n \in 0 .. 0 |-> NestedTrees(0, {})], 0)
      BY DEF NestedTrees
    <2>. QED
      BY <2>1
  <1>3. ASSUME NEW m \in Nat, \E g : Trees(g, m)
        PROVE  \E g : Trees(g, m + 1)
    <2>1. PICK g : Trees(g, m)
      BY <1>3
    <2>. DEFINE h == [n \in 0 .. m + 1 |-> NestedTrees(n, g[n - 1])]
    <2>2. ASSUME NEW n \in 0 .. m + 1
          PROVE  NestedTrees(n, g[n - 1]) = NestedTrees(n, h[n - 1])
      <3>1. CASE n = 0
        BY <3>1 DEF NestedTrees
      <3>2. CASE n # 0
        <4>. HIDE DEF NestedTrees
        <4>1. n - 1 \in 0 .. m /\ n - 1 \in 0 .. m + 1
          BY <3>2
        <4>2. g[n - 1] = NestedTrees(n - 1, g[(n - 1) - 1])
          BY <2>1, <4>1
        <4>3. h[n - 1] = NestedTrees(n - 1, g[(n - 1) - 1])
          BY <4>1
        <4>. QED
          BY <4>2, <4>3
      <3>. QED
        BY <3>1, <3>2
    <2>3. Trees(h, m + 1)
      <3>. HIDE DEF NestedTrees
      <3>. QED
        BY <2>2
    <2>. QED
      BY <2>3
  <1>4. S = Nat
    <2>. HIDE DEF Trees
    <2>1. \A m \in S : m + 1 \in S
      BY <1>3
    <2>2. S \in SUBSET Nat
      OBVIOUS
    <2>. HIDE DEF S
    <2>. QED
      BY <1>2, <2>1, <2>2, SetInduction
  <1>5. Trees(ExprAST, MaxNesting)
    <2>. HIDE DEF Trees
    <2>1. \E g : Trees(g, MaxNesting)
      BY <1>4, NestingBound DEF NestingBound
    <2>. QED
      BY <1>1, <2>1
  <1>6. MaxNesting \in Nat
    BY NestingBound DEF NestingBound
  <1>. HIDE DEF NestedTrees
  <1>. QED
    BY <1>5, <1>6

BuiltTrees(variables, callees, n, E) ==
  IF n = 0 THEN Literals \cup {Var(name) : name \in variables}
  ELSE [op : {"sign"}, value : E]
       \cup [op : {"binary", "comparison", "boolop"}, LHS : E, RHS : E]
       \cup [op : {"call"}, callee : callees, args : Seq(E)] \cup E

LEMMA BuiltDefined ==
  ASSUME NEW variables, NEW callees
  PROVE  \A n \in 0 .. MaxNesting : Built(variables, callees)[n] = BuiltTrees(variables, callees, n, Built(variables, callees)[n - 1])
  <1>. DEFINE Rec(g, m) == g = [n \in 0 .. m |-> BuiltTrees(variables, callees, n, g[n - 1])]
              S == {m \in Nat : \E g : Rec(g, m)}
  <1>1. Built(variables, callees) = CHOOSE g : Rec(g, MaxNesting)
    BY DEF Built, BuiltTrees
  <1>2. 0 \in S
    <2>1. Rec([n \in 0 .. 0 |-> BuiltTrees(variables, callees, 0, {})], 0)
      BY DEF BuiltTrees
    <2>. QED
      BY <2>1
  <1>3. ASSUME NEW m \in Nat, \E g : Rec(g, m)
        PROVE  \E g : Rec(g, m + 1)
    <2>1. PICK g : Rec(g, m)
      BY <1>3
    <2>. DEFINE h == [n \in 0 .. m + 1 |-> BuiltTrees(variables, callees, n, g[n - 1])]
    <2>2. ASSUME NEW n \in 0 .. m + 1
          PROVE  BuiltTrees(variables, callees, n, g[n - 1]) = BuiltTrees(variables, callees, n, h[n - 1])
      <3>1. CASE n = 0
        BY <3>1 DEF BuiltTrees
      <3>2. CASE n # 0
        <4>. HIDE DEF BuiltTrees
        <4>1. n - 1 \in 0 .. m /\ n - 1 \in 0 .. m + 1
          BY <3>2
        <4>2. g[n - 1] = BuiltTrees(variables, callees, n - 1, g[(n - 1) - 1])
          BY <2>1, <4>1
        <4>3. h[n - 1] = BuiltTrees(variables, callees, n - 1, g[(n - 1) - 1])
          BY <4>1
        <4>. QED
          BY <4>2, <4>3
      <3>. QED
        BY <3>1, <3>2
    <2>3. Rec(h, m + 1)
      <3>. HIDE DEF BuiltTrees
      <3>. QED
        BY <2>2
    <2>. QED
      BY <2>3
  <1>4. S = Nat
    <2>. HIDE DEF Rec
    <2>1. \A m \in S : m + 1 \in S
      BY <1>3
    <2>2. S \in SUBSET Nat
      OBVIOUS
    <2>. HIDE DEF S
    <2>. QED
      BY <1>2, <2>1, <2>2, SetInduction
  <1>5. Rec(Built(variables, callees), MaxNesting)
    <2>. HIDE DEF Rec
    <2>1. \E g : Rec(g, MaxNesting)
      BY <1>4, NestingBound DEF NestingBound
    <2>. QED
      BY <1>1, <2>1
  <1>6. MaxNesting \in Nat
    BY NestingBound DEF NestingBound
  <1>. HIDE DEF BuiltTrees
  <1>. QED
    BY <1>5, <1>6

Answers(table, n, check) ==
  [e \in Expr |-> IF n = 0 THEN No(e) ELSE CheckExpression(table, check, e)]

LEMMA ChecksDefined ==
  ASSUME NEW table
  PROVE  \A n \in 0 .. MaxNesting : Checks(table)[n] = Answers(table, n, Checks(table)[n - 1])
  <1>. DEFINE Rec(g, m) == g = [n \in 0 .. m |-> Answers(table, n, g[n - 1])]
              S == {m \in Nat : \E g : Rec(g, m)}
  <1>1. Checks(table) = CHOOSE g : Rec(g, MaxNesting)
    BY DEF Checks, Answers
  <1>2. 0 \in S
    <2>1. Rec([n \in 0 .. 0 |-> Answers(table, 0, {})], 0)
      BY DEF Answers
    <2>. QED
      BY <2>1
  <1>3. ASSUME NEW m \in Nat, \E g : Rec(g, m)
        PROVE  \E g : Rec(g, m + 1)
    <2>1. PICK g : Rec(g, m)
      BY <1>3
    <2>. DEFINE h == [n \in 0 .. m + 1 |-> Answers(table, n, g[n - 1])]
    <2>2. ASSUME NEW n \in 0 .. m + 1
          PROVE  Answers(table, n, g[n - 1]) = Answers(table, n, h[n - 1])
      <3>1. CASE n = 0
        BY <3>1 DEF Answers
      <3>2. CASE n # 0
        <4>. HIDE DEF Answers
        <4>1. n - 1 \in 0 .. m /\ n - 1 \in 0 .. m + 1
          BY <3>2
        <4>2. g[n - 1] = Answers(table, n - 1, g[(n - 1) - 1])
          BY <2>1, <4>1
        <4>3. h[n - 1] = Answers(table, n - 1, g[(n - 1) - 1])
          BY <4>1
        <4>. QED
          BY <4>2, <4>3
      <3>. QED
        BY <3>1, <3>2
    <2>3. Rec(h, m + 1)
      <3>. HIDE DEF Answers
      <3>. QED
        BY <2>2
    <2>. QED
      BY <2>3
  <1>4. S = Nat
    <2>. HIDE DEF Rec
    <2>1. \A m \in S : m + 1 \in S
      BY <1>3
    <2>2. S \in SUBSET Nat
      OBVIOUS
    <2>. HIDE DEF S
    <2>. QED
      BY <1>2, <2>1, <2>2, SetInduction
  <1>5. Rec(Checks(table), MaxNesting)
    <2>. HIDE DEF Rec
    <2>1. \E g : Rec(g, MaxNesting)
      BY <1>4, NestingBound DEF NestingBound
    <2>. QED
      BY <1>1, <2>1
  <1>6. MaxNesting \in Nat
    BY NestingBound DEF NestingBound
  <1>. HIDE DEF Answers
  <1>. QED
    BY <1>5, <1>6

GeneratedValues(env, n, generate) ==
  [e \in Expr |-> IF n = 0 THEN NullValue ELSE GenerateExpression(env, generate, e)]

LEMMA GeneratesDefined ==
  ASSUME NEW env
  PROVE  \A n \in 0 .. MaxNesting : Generates(env)[n] = GeneratedValues(env, n, Generates(env)[n - 1])
  <1>. DEFINE Rec(g, m) == g = [n \in 0 .. m |-> GeneratedValues(env, n, g[n - 1])]
              S == {m \in Nat : \E g : Rec(g, m)}
  <1>1. Generates(env) = CHOOSE g : Rec(g, MaxNesting)
    BY DEF Generates, GeneratedValues
  <1>2. 0 \in S
    <2>1. Rec([n \in 0 .. 0 |-> GeneratedValues(env, 0, {})], 0)
      BY DEF GeneratedValues
    <2>. QED
      BY <2>1
  <1>3. ASSUME NEW m \in Nat, \E g : Rec(g, m)
        PROVE  \E g : Rec(g, m + 1)
    <2>1. PICK g : Rec(g, m)
      BY <1>3
    <2>. DEFINE h == [n \in 0 .. m + 1 |-> GeneratedValues(env, n, g[n - 1])]
    <2>2. ASSUME NEW n \in 0 .. m + 1
          PROVE  GeneratedValues(env, n, g[n - 1]) = GeneratedValues(env, n, h[n - 1])
      <3>1. CASE n = 0
        BY <3>1 DEF GeneratedValues
      <3>2. CASE n # 0
        <4>. HIDE DEF GeneratedValues
        <4>1. n - 1 \in 0 .. m /\ n - 1 \in 0 .. m + 1
          BY <3>2
        <4>2. g[n - 1] = GeneratedValues(env, n - 1, g[(n - 1) - 1])
          BY <2>1, <4>1
        <4>3. h[n - 1] = GeneratedValues(env, n - 1, g[(n - 1) - 1])
          BY <4>1
        <4>. QED
          BY <4>2, <4>3
      <3>. QED
        BY <3>1, <3>2
    <2>3. Rec(h, m + 1)
      <3>. HIDE DEF GeneratedValues
      <3>. QED
        BY <2>2
    <2>. QED
      BY <2>3
  <1>4. S = Nat
    <2>. HIDE DEF Rec
    <2>1. \A m \in S : m + 1 \in S
      BY <1>3
    <2>2. S \in SUBSET Nat
      OBVIOUS
    <2>. HIDE DEF S
    <2>. QED
      BY <1>2, <2>1, <2>2, SetInduction
  <1>5. Rec(Generates(env), MaxNesting)
    <2>. HIDE DEF Rec
    <2>1. \E g : Rec(g, MaxNesting)
      BY <1>4, NestingBound DEF NestingBound
    <2>. QED
      BY <1>1, <2>1
  <1>6. MaxNesting \in Nat
    BY NestingBound DEF NestingBound
  <1>. HIDE DEF GeneratedValues
  <1>. QED
    BY <1>5, <1>6

Within(n, nodes) ==
  [e \in Expr |-> IF n = 0 THEN {} ELSE {e} \cup UNION { nodes[c] : c \in Children(e) }]

LEMMA NodesDefined ==
  \A n \in 0 .. MaxNesting : NodesWithin[n] = Within(n, NodesWithin[n - 1])
  <1>. DEFINE Rec(g, m) == g = [n \in 0 .. m |-> Within(n, g[n - 1])]
              S == {m \in Nat : \E g : Rec(g, m)}
  <1>1. NodesWithin = CHOOSE g : Rec(g, MaxNesting)
    BY DEF NodesWithin, Within
  <1>2. 0 \in S
    <2>1. Rec([n \in 0 .. 0 |-> Within(0, {})], 0)
      BY DEF Within
    <2>. QED
      BY <2>1
  <1>3. ASSUME NEW m \in Nat, \E g : Rec(g, m)
        PROVE  \E g : Rec(g, m + 1)
    <2>1. PICK g : Rec(g, m)
      BY <1>3
    <2>. DEFINE h == [n \in 0 .. m + 1 |-> Within(n, g[n - 1])]
    <2>2. ASSUME NEW n \in 0 .. m + 1
          PROVE  Within(n, g[n - 1]) = Within(n, h[n - 1])
      <3>1. CASE n = 0
        BY <3>1 DEF Within
      <3>2. CASE n # 0
        <4>. HIDE DEF Within
        <4>1. n - 1 \in 0 .. m /\ n - 1 \in 0 .. m + 1
          BY <3>2
        <4>2. g[n - 1] = Within(n - 1, g[(n - 1) - 1])
          BY <2>1, <4>1
        <4>3. h[n - 1] = Within(n - 1, g[(n - 1) - 1])
          BY <4>1
        <4>. QED
          BY <4>2, <4>3
      <3>. QED
        BY <3>1, <3>2
    <2>3. Rec(h, m + 1)
      <3>. HIDE DEF Within
      <3>. QED
        BY <2>2
    <2>. QED
      BY <2>3
  <1>4. S = Nat
    <2>. HIDE DEF Rec
    <2>1. \A m \in S : m + 1 \in S
      BY <1>3
    <2>2. S \in SUBSET Nat
      OBVIOUS
    <2>. HIDE DEF S
    <2>. QED
      BY <1>2, <2>1, <2>2, SetInduction
  <1>5. Rec(NodesWithin, MaxNesting)
    <2>. HIDE DEF Rec
    <2>1. \E g : Rec(g, MaxNesting)
      BY <1>4, NestingBound DEF NestingBound
    <2>. QED
      BY <1>1, <2>1
  <1>6. MaxNesting \in Nat
    BY NestingBound DEF NestingBound
  <1>. HIDE DEF Within
  <1>. QED
    BY <1>5, <1>6

-----------------------------------------------------------------------------
(* Trees within trees.                                                     *)

LEMMA TreesGrow ==
  ASSUME NEW i \in 0 .. MaxNesting, NEW j \in 0 .. MaxNesting, i <= j
  PROVE  ExprAST[i] \subseteq ExprAST[j]
  <1>. DEFINE S == {d \in Nat : i + d <= MaxNesting => ExprAST[i] \subseteq ExprAST[i + d]}
  <1>1. MaxNesting \in Nat
    BY NestingBound DEF NestingBound
  <1>2. ASSUME NEW n \in 1 .. MaxNesting
        PROVE  ExprAST[n - 1] \subseteq ExprAST[n]
    <2>1. n \in 0 .. MaxNesting /\ n # 0
      BY <1>1
    <2>2. ExprAST[n] = NestedTrees(n, ExprAST[n - 1])
      BY <2>1, TreesDefined
    <2>3. \A E : E \subseteq NestedTrees(n, E)
      BY <2>1 DEF NestedTrees
    <2>. QED
      BY <2>2, <2>3
  <1>3. ASSUME NEW d \in S
        PROVE  d + 1 \in S
    <2>1. CASE i + (d + 1) <= MaxNesting
      <3>1. i + d <= MaxNesting /\ i + (d + 1) \in 1 .. MaxNesting /\ (i + (d + 1)) - 1 = i + d
        BY <1>1, <2>1
      <3>2. ExprAST[i] \subseteq ExprAST[i + d]
        BY <3>1
      <3>3. ExprAST[i + d] \subseteq ExprAST[i + (d + 1)]
        BY <1>2, <3>1
      <3>. QED
        BY <3>2, <3>3
    <2>. QED
      BY <2>1
  <1>4. S = Nat
    <2>1. 0 \in S
      BY <1>1
    <2>2. S \in SUBSET Nat /\ \A d \in S : d + 1 \in S
      BY <1>3
    <2>. HIDE DEF S
    <2>. QED
      BY <2>1, <2>2, SetInduction
  <1>5. j - i \in Nat /\ i + (j - i) = j /\ j <= MaxNesting
    BY <1>1
  <1>6. j - i \in S
    BY <1>4, <1>5
  <1>. QED
    BY <1>5, <1>6

LEMMA TreesAreExpr ==
  ASSUME NEW n \in 0 .. MaxNesting
  PROVE  ExprAST[n] \subseteq Expr
  BY TreesGrow, NestingBound DEF NestingBound, Expr

LEMMA LeavesAreTrees ==
  /\ Literals \subseteq ExprAST[0]
  /\ \A name \in STRING : Var(name) \in ExprAST[0]
  <1>1. ExprAST[0] = NestedTrees(0, ExprAST[0 - 1])
    BY TreesDefined, NestingBound DEF NestingBound
  <1>. QED
    BY <1>1 DEF NestedTrees, Var

\* The nodes around a tree, or around two.
LEMMA TreesAroundTrees ==
  ASSUME NEW n \in 1 .. MaxNesting, NEW x \in ExprAST[n - 1], NEW y \in ExprAST[n - 1]
  PROVE  /\ Arith(x, y) \in ExprAST[n]
         /\ Compare(x, y) \in ExprAST[n]
         /\ Logical(x, y) \in ExprAST[n]
         /\ Sign(x) \in ExprAST[n]
         /\ \A t \in Type : Casting(x, t) \in ExprAST[n]
  <1>. DEFINE E == ExprAST[n - 1]
  <1>1. n \in 0 .. MaxNesting /\ n # 0
    BY NestingBound DEF NestingBound
  <1>2. ExprAST[n] = NestedTrees(n, E)
    BY <1>1, TreesDefined
  <1>3. x \in E /\ y \in E
    OBVIOUS
  <1>. HIDE DEF E
  <1>. DEFINE F == NestedTrees(n, E)
  <1>4. [op : {"binary", "comparison", "boolop"}, LHS : E, RHS : E] \subseteq F
    BY <1>1 DEF NestedTrees
  <1>5. [op : {"sign"}, value : E] \subseteq F
    BY <1>1 DEF NestedTrees
  <1>6. [op : {"casting"}, value : E, type : Type] \subseteq F
    BY <1>1 DEF NestedTrees
  <1>. HIDE DEF F
  <1>8. Arith(x, y) \in F /\ Compare(x, y) \in F /\ Logical(x, y) \in F
    BY <1>3, <1>4 DEF Arith, Compare, Logical
  <1>9. Sign(x) \in F
    BY <1>3, <1>5 DEF Sign
  <1>10. \A t \in Type : Casting(x, t) \in F
    BY <1>3, <1>6 DEF Casting
  <1>. QED
    BY <1>2, <1>8, <1>9, <1>10 DEF F

LEMMA CallsAroundTrees ==
  ASSUME NEW n \in 1 .. MaxNesting, NEW name \in STRING, NEW args \in Seq(ExprAST[n - 1])
  PROVE  CallTo(name, args) \in ExprAST[n]
  <1>. DEFINE E == ExprAST[n - 1]
  <1>1. n \in 0 .. MaxNesting /\ n # 0
    BY NestingBound DEF NestingBound
  <1>2. ExprAST[n] = NestedTrees(n, E)
    BY <1>1, TreesDefined
  <1>3. args \in Seq(E)
    OBVIOUS
  <1>. HIDE DEF E
  <1>4. [op : {"call"}, callee : STRING, args : Seq(E)] \subseteq NestedTrees(n, E)
    BY <1>1 DEF NestedTrees
  <1>5. CallTo(name, args) \in [op : {"call"}, callee : STRING, args : Seq(E)]
    BY <1>3 DEF CallTo
  <1>. QED
    BY <1>2, <1>4, <1>5

\* One call of check, of generate and one step into the nodes.
LEMMA OneCall ==
  ASSUME NEW table, NEW env, NEW n \in 1 .. MaxNesting, NEW e \in Expr
  PROVE  /\ Checks(table)[n][e] = CheckExpression(table, Checks(table)[n - 1], e)
         /\ Generates(env)[n][e] = GenerateExpression(env, Generates(env)[n - 1], e)
  <1>1. n \in 0 .. MaxNesting /\ n # 0
    BY NestingBound DEF NestingBound
  <1>2. Checks(table)[n] = Answers(table, n, Checks(table)[n - 1])
    BY <1>1, ChecksDefined
  <1>3. Generates(env)[n] = GeneratedValues(env, n, Generates(env)[n - 1])
    BY <1>1, GeneratesDefined
  <1>5. \A c : Answers(table, n, c)[e] = CheckExpression(table, c, e)
    BY <1>1 DEF Answers
  <1>6. \A g : GeneratedValues(env, n, g)[e] = GenerateExpression(env, g, e)
    BY <1>1 DEF GeneratedValues
  <1>. QED
    BY <1>2, <1>3, <1>5, <1>6

LEMMA OneStep ==
  ASSUME NEW n \in 1 .. MaxNesting, NEW e \in Expr
  PROVE  NodesWithin[n][e] = {e} \cup UNION { NodesWithin[n - 1][c] : c \in Children(e) }
  <1>1. n \in 0 .. MaxNesting /\ n # 0
    BY NestingBound DEF NestingBound
  <1>2. NodesWithin[n] = Within(n, NodesWithin[n - 1])
    BY <1>1, NodesDefined
  <1>3. \A w : Within(n, w)[e] = {e} \cup UNION { w[c] : c \in Children(e) }
    BY <1>1 DEF Within
  <1>. QED
    BY <1>2, <1>3

-----------------------------------------------------------------------------
(* The coercion table and the LLVM types, type by type.                    *)

LEMMA Underlying ==
  /\ to_underlying["Byte"] = 1 /\ to_underlying["Char"] = 2 /\ to_underlying["Short"] = 3
  /\ to_underlying["Int"] = 4 /\ to_underlying["Long"] = 5 /\ to_underlying["Float"] = 6
  /\ to_underlying["Double"] = 7 /\ to_underlying["Bool"] = 8 /\ to_underlying["Void"] = 9
  BY DEF to_underlying

\* What one row of the table says about the type it belongs to.
RowOf(a) ==
  \A b \in Type :
    /\ CanCoerce(a, b) \in Type
    /\ CanCoerce(a, b) # "Void" => a # "Void" /\ b # "Void"
    /\ b = a /\ a # "Void" => CanCoerce(a, b) = a

LEMMA Coercions ==
  \A a \in Type : RowOf(a)
  <1>. DEFINE T == TypeCoercions
  <1>1. RowOf("Byte")
    <2>1. T[1] = << "Byte",   "Byte",   "Short",  "Int",    "Long",   "Float",  "Double", "Void", "Void" >>
      BY DEF TypeCoercions
    <2>. QED
      BY <2>1, Underlying DEF RowOf, CanCoerce, Type
  <1>2. RowOf("Char")
    <2>1. T[2] = << "Byte",   "Char",   "Short",  "Int",    "Long",   "Float",  "Double", "Void", "Void" >>
      BY DEF TypeCoercions
    <2>. QED
      BY <2>1, Underlying DEF RowOf, CanCoerce, Type
  <1>3. RowOf("Short")
    <2>1. T[3] = << "Short",  "Short",  "Short",  "Int",    "Long",   "Float",  "Double", "Void", "Void" >>
      BY DEF TypeCoercions
    <2>. QED
      BY <2>1, Underlying DEF RowOf, CanCoerce, Type
  <1>4. RowOf("Int")
    <2>1. T[4] = << "Int",    "Int",    "Int",    "Int",    "Long",   "Float",  "Double", "Void", "Void" >>
      BY DEF TypeCoercions
    <2>. QED
      BY <2>1, Underlying DEF RowOf, CanCoerce, Type
  <1>5. RowOf("Long")
    <2>1. T[5] = << "Long",   "Long",   "Long",   "Long",   "Long",   "Double", "Double", "Void", "Void" >>
      BY DEF TypeCoercions
    <2>. QED
      BY <2>1, Underlying DEF RowOf, CanCoerce, Type
  <1>6. RowOf("Float")
    <2>1. T[6] = << "Float",  "Float",  "Float",  "Float",  "Double", "Float",  "Double", "Void", "Void" >>
      BY DEF TypeCoercions
    <2>. QED
      BY <2>1, Underlying DEF RowOf, CanCoerce, Type
  <1>7. RowOf("Double")
    <2>1. T[7] = << "Double", "Double", "Double", "Double", "Double", "Double", "Double", "Void", "Void" >>
      BY DEF TypeCoercions
    <2>. QED
      BY <2>1, Underlying DEF RowOf, CanCoerce, Type
  <1>8. RowOf("Bool")
    <2>1. T[8] = << "Void",   "Void",   "Void",   "Void",   "Void",   "Void",   "Void",   "Bool", "Void" >>
      BY DEF TypeCoercions
    <2>. QED
      BY <2>1, Underlying DEF RowOf, CanCoerce, Type
  <1>9. RowOf("Void")
    <2>1. T[9] = << "Void",   "Void",   "Void",   "Void",   "Void",   "Void",   "Void",   "Void", "Void" >>
      BY DEF TypeCoercions
    <2>. QED
      BY <2>1, Underlying DEF RowOf, CanCoerce, Type
  <1>. QED
    BY <1>1, <1>2, <1>3, <1>4, <1>5, <1>6, <1>7, <1>8, <1>9 DEF Type

LEMMA IRTypes ==
  /\ GetFromType("Byte") = "i8" /\ GetFromType("Char") = "i8" /\ GetFromType("Short") = "i16"
  /\ GetFromType("Int") = "i32" /\ GetFromType("Long") = "i64" /\ GetFromType("Float") = "float"
  /\ GetFromType("Double") = "double" /\ GetFromType("Bool") = "i1" /\ GetFromType("Void") = "void"
  BY DEF GetFromType

LEMMA IRKinds ==
  ASSUME NEW t \in Type
  PROVE  /\ IsFloatingPoint(GetFromType(t)) <=> t \in Floating
         /\ IsInteger(GetFromType(t)) <=> t \notin Floating \cup {"Void"}
         /\ GetFromType(t) = "void" <=> t = "Void"
         /\ GetFromType(t) = "float" <=> t = "Float"
  BY IRTypes DEF Type, IsFloatingPoint, IsInteger, Floating

LEMMA IRDiffers ==
  ASSUME NEW t \in Type, NEW u \in Type
  PROVE  GetFromType(t) = GetFromType(u) <=> SameBits(t, u)
  <1>. DEFINE Swapped(x, y) == (x = "Byte" /\ y = "Char") \/ (x = "Char" /\ y = "Byte")
  <1>1. {t, u} = {"Byte", "Char"} => Swapped(t, u)
    <2>1. ASSUME {t, u} = {"Byte", "Char"}
          PROVE  Swapped(t, u)
      <3>1. t \in {"Byte", "Char"} /\ u \in {"Byte", "Char"}
        BY <2>1
      <3>2. "Byte" \in {t, u} /\ "Char" \in {t, u}
        BY <2>1
      <3>. QED
        BY <3>1, <3>2
    <2>. QED
      BY <2>1
  <1>2. Swapped(t, u) => {t, u} = {"Byte", "Char"}
    OBVIOUS
  <1>3. SameBits(t, u) <=> (t = u \/ Swapped(t, u))
    BY <1>1, <1>2, Zenon DEF SameBits
  <1>. QED
    BY <1>3, IRTypes DEF Type

-----------------------------------------------------------------------------
(* One call, from the answers of the calls for the operands.               *)

\* The answers for a node depend on those for its operands alone.
LEMMA SameAnswers ==
  ASSUME NEW table,
         NEW c, NEW d, NEW x, NEW y, c[x] = d[x], c[y] = d[y]
  PROVE  /\ CheckExpression(table, c, Arith(x, y)) = CheckExpression(table, d, Arith(x, y))
         /\ CheckExpression(table, c, Logical(x, y)) = CheckExpression(table, d, Logical(x, y))
         /\ CheckExpression(table, c, Sign(x)) = CheckExpression(table, d, Sign(x))
  BY DEF CheckExpression, CheckBinary, CheckBoolOp, CheckSign, CheckOperands, WithCasts,
         Arith, Logical, Sign

LEMMA SameValues ==
  ASSUME NEW env,
         NEW c, NEW d, NEW x, NEW y, c[x] = d[x], c[y] = d[y]
  PROVE  /\ GenerateExpression(env, c, Arith(x, y)) = GenerateExpression(env, d, Arith(x, y))
         /\ GenerateExpression(env, c, Compare(x, y)) = GenerateExpression(env, d, Compare(x, y))
         /\ GenerateExpression(env, c, Logical(x, y)) = GenerateExpression(env, d, Logical(x, y))
  <1>1. GenerateExpression(env, c, Arith(x, y)) = GenerateExpression(env, d, Arith(x, y))
    BY DEF GenerateExpression, GenerateBinary, Arith
  <1>2. GenerateExpression(env, c, Compare(x, y)) = GenerateExpression(env, d, Compare(x, y))
    BY DEF GenerateExpression, GenerateComparison, Compare
  <1>3. GenerateExpression(env, c, Logical(x, y)) = GenerateExpression(env, d, Logical(x, y))
    BY DEF GenerateExpression, GenerateBoolOp, Logical
  <1>. QED
    BY <1>1, <1>2, <1>3

LEMMA SameValue ==
  ASSUME NEW env, NEW c, NEW d, NEW x, NEW t, c[x] = d[x]
  PROVE  /\ GenerateExpression(env, c, Sign(x)) = GenerateExpression(env, d, Sign(x))
         /\ GenerateExpression(env, c, Casting(x, t)) = GenerateExpression(env, d, Casting(x, t))
  <1>1. GenerateExpression(env, c, Sign(x)) = GenerateExpression(env, d, Sign(x))
    BY DEF GenerateExpression, GenerateSign, Sign
  <1>2. GenerateExpression(env, c, Casting(x, t)) = GenerateExpression(env, d, Casting(x, t))
    BY DEF GenerateExpression, GenerateCasting, Casting
  <1>. QED
    BY <1>1, <1>2

Gives(v, t) == v = Value(GetFromType(t), TRUE)

LEMMA PairGenerated ==
  ASSUME NEW env, NEW g, NEW x, NEW y, NEW t \in Type, t # "Void", Gives(g[x], t), Gives(g[y], t)
  PROVE  /\ Gives(GenerateExpression(env, g, Arith(x, y)), t)
         /\ Gives(GenerateExpression(env, g, Compare(x, y)), "Bool")
         /\ t = "Bool" => Gives(GenerateExpression(env, g, Logical(x, y)), "Bool")
  <1>. DEFINE ir == GetFromType(t)
  <1>1. /\ ir # "void" /\ GetFromType("Bool") = "i1"
        /\ IsFloatingPoint(ir) \/ IsInteger(ir)
        /\ t = "Bool" => ir = "i1" /\ IsInteger(ir)
    BY IRKinds, IRTypes DEF Floating
  <1>2. g[x] = Value(ir, TRUE) /\ g[y] = Value(ir, TRUE)
    BY DEF Gives
  <1>. HIDE DEF ir, Gives
  <1>3. /\ g[x].outcome = "value" /\ g[y].outcome = "value"
        /\ g[x].ir = ir /\ g[y].ir = ir /\ g[x].valid = TRUE /\ g[y].valid = TRUE
    BY <1>2 DEF Value
  <1>. DEFINE L == g[x]
              R == g[y]
              p == L.valid /\ R.valid /\ L.ir = R.ir /\ L.ir # "void"
              q == L.valid /\ R.valid /\ L.ir = R.ir
              r == L.valid /\ R.valid /\ L.ir = R.ir /\ IsInteger(L.ir)
  <1>4. p = TRUE /\ q = TRUE /\ (IsInteger(ir) => r = TRUE)
    BY <1>1, <1>3
  <1>5. GenerateExpression(env, g, Arith(x, y)) = Value(ir, p)
    BY <1>3 DEF GenerateExpression, GenerateBinary, Arith
  <1>6. GenerateExpression(env, g, Compare(x, y)) = Value("i1", q)
    BY <1>1, <1>3 DEF GenerateExpression, GenerateComparison, Compare
  <1>7. GenerateExpression(env, g, Logical(x, y)) = Value(ir, r)
    BY <1>3 DEF GenerateExpression, GenerateBoolOp, Logical
  <1>. HIDE DEF p, q, r
  <1>. QED
    BY <1>1, <1>4, <1>5, <1>6, <1>7 DEF ir, Gives

LEMMA PairInvalid ==
  ASSUME NEW env, NEW g, NEW x, NEW y, g[x].valid = FALSE \/ g[y].valid = FALSE
  PROVE  /\ GenerateExpression(env, g, Arith(x, y)).valid = FALSE
         /\ GenerateExpression(env, g, Compare(x, y)).valid = FALSE
         /\ GenerateExpression(env, g, Logical(x, y)).valid = FALSE
  <1>1. GenerateExpression(env, g, Arith(x, y)).valid = FALSE
    BY DEF GenerateExpression, GenerateBinary, Arith, Value, NullValue, Crash
  <1>2. GenerateExpression(env, g, Compare(x, y)).valid = FALSE
    BY DEF GenerateExpression, GenerateComparison, Compare, Value, NullValue, Crash
  <1>3. GenerateExpression(env, g, Logical(x, y)).valid = FALSE
    BY DEF GenerateExpression, GenerateBoolOp, Logical, Value, Crash
  <1>. QED
    BY <1>1, <1>2, <1>3

LEMMA SignGenerated ==
  ASSUME NEW env,
         NEW g, NEW x, NEW c \in Type, c # "Void",
         g[x] = Value(GetFromType(c), TRUE)
  PROVE  /\ c # "Double" => GenerateExpression(env, g, Sign(x)) = Value(GetFromType(c), TRUE)
         /\ c = "Double" => GenerateExpression(env, g, Sign(x)).valid = FALSE
  <1>. DEFINE ir == GetFromType(c)
              p  == ir = "float" \/ IsInteger(ir)
  <1>1. p \in BOOLEAN /\ (c # "Double" <=> p)
    BY IRKinds DEF Floating
  <1>2. (c # "Double" => p = TRUE) /\ (c = "Double" => p = FALSE)
    BY <1>1
  <1>3. GenerateExpression(env, g, Sign(x)) = Value(ir, p)
    <2>. HIDE DEF ir
    <2>. QED
      BY DEF GenerateExpression, GenerateSign, Sign, Value, ir
  <1>. HIDE DEF ir, p
  <1>4. Value(ir, FALSE).valid = FALSE
    BY DEF Value
  <1>. QED
    BY <1>2, <1>3, <1>4 DEF ir

LEMMA CastingGenerated ==
  ASSUME NEW env,
         NEW g, NEW x, NEW c \in Type, NEW t \in Type, c # "Void",
         g[x] = Value(GetFromType(c), TRUE)
  PROVE  /\ SameBits(c, t) \/ (c \notin Floating /\ t \in Floating) =>
              GenerateExpression(env, g, Casting(x, t)) = Value(GetFromType(t), TRUE)
         /\ ~ (SameBits(c, t) \/ (c \notin Floating /\ t \in Floating)) =>
              GenerateExpression(env, g, Casting(x, t)).valid = FALSE
  <1>. DEFINE ir   == GetFromType(c)
              jr   == GetFromType(t)
              q    == ir = jr \/ (IsInteger(ir) /\ IsFloatingPoint(jr))
              Fits == SameBits(c, t) \/ (c \notin Floating /\ t \in Floating)
  <1>1. q \in BOOLEAN /\ (Fits <=> q)
    BY IRKinds, IRDiffers DEF Floating
  <1>. HIDE DEF Fits
  <1>2. (Fits => q = TRUE) /\ (~Fits => q = FALSE)
    BY <1>1
  <1>3. GenerateExpression(env, g, Casting(x, t)) = Value(jr, q)
    <2>1. g[x] = Value(ir, TRUE) /\ jr = GetFromType(t)
      OBVIOUS
    <2>. HIDE DEF ir, jr
    <2>. QED
      BY <2>1 DEF GenerateExpression, GenerateCasting, Casting, Value
  <1>. HIDE DEF ir, jr, q
  <1>4. Value(jr, FALSE).valid = FALSE
    BY DEF Value
  <1>. QED
    BY <1>2, <1>3, <1>4 DEF jr, Fits

LEMMA UnaryInvalid ==
  ASSUME NEW env,
         NEW g, NEW x, NEW t, g[x].valid = FALSE
  PROVE  /\ GenerateExpression(env, g, Sign(x)).valid = FALSE
         /\ GenerateExpression(env, g, Casting(x, t)).valid = FALSE
  BY DEF GenerateExpression, GenerateSign, GenerateCasting, Sign, Casting, Value, Crash

LEMMA Replaced ==
  ASSUME NEW l, NEW r, NEW x, NEW y
  PROVE  /\ WithOperands(Arith(l, r), x, y) = Arith(x, y)
         /\ WithOperands(Compare(l, r), x, y) = Compare(x, y)
         /\ WithOperands(Logical(l, r), x, y) = Logical(x, y)
  BY DEF WithOperands, Arith, Compare, Logical

LEMMA Operands ==
  ASSUME NEW l, NEW r
  PROVE  /\ Arith(l, r).LHS = l /\ Arith(l, r).RHS = r
         /\ Compare(l, r).LHS = l /\ Compare(l, r).RHS = r
         /\ Logical(l, r).LHS = l /\ Logical(l, r).RHS = r
  BY DEF Arith, Compare, Logical

\* A comparison without new casts is accepted, one with new casts checked again.
Compared(c, same, node) == IF same THEN Yes("Bool", node) ELSE c[node]

\* Operands of types that coerce: the casts are put around them.
LEMMA PairChecked ==
  ASSUME NEW table,
         NEW c, NEW l, NEW r, NEW x, NEW y, NEW t \in Type, NEW u \in Type,
         c[l] = Yes(t, x), c[r] = Yes(u, y),
         NEW v, v = CanCoerce(t, u), v # "Void",
         NEW X, X = CastTo(v, Yes(t, x)), NEW Y, Y = CastTo(v, Yes(u, y))
  PROVE  /\ CheckExpression(table, c, Arith(l, r)) = Yes(v, Arith(X, Y))
         /\ CheckExpression(table, c, Compare(l, r)) = Compared(c, v = t /\ v = u, Compare(X, Y))
  <1>1. /\ c[l].ok = TRUE /\ c[l].type = t /\ c[l].expr = x
        /\ c[r].ok = TRUE /\ c[r].type = u /\ c[r].expr = y
    BY DEF Yes
  <1>2. X = CastTo(v, c[l]) /\ Y = CastTo(v, c[r]) /\ v # "Void"
    OBVIOUS
  <1>3. v = t /\ v = u => X = x /\ Y = y
    BY DEF CastTo, Yes
  <1>4. v = CanCoerce(t, u)
    OBVIOUS
  <1>. DEFINE oA == CheckOperands(c, Arith(l, r))
              oC == CheckOperands(c, Compare(l, r))
  <1>5. oA.ok = TRUE /\ oA.coercion = v /\ WithCasts(oA) = Arith(X, Y)
    <2>. DEFINE e == Arith(l, r)
                made == WithOperands(e, c[l].expr, c[r].expr)
    <2>1. e.LHS = l /\ e.RHS = r /\ made = Arith(x, y)
      BY <1>1, Operands, Replaced
    <2>. HIDE DEF e, made
    <2>2. /\ CheckOperands(c, e).ok = TRUE /\ CheckOperands(c, e).coercion = v
          /\ CheckOperands(c, e).lhs = c[l] /\ CheckOperands(c, e).rhs = c[r]
          /\ CheckOperands(c, e).expr = made
      BY <1>1, <1>4, <2>1 DEF CheckOperands, made
    <2>3. /\ oA.ok = TRUE /\ oA.coercion = v /\ oA.lhs = c[l] /\ oA.rhs = c[r]
          /\ oA.expr = Arith(x, y)
      BY <2>1, <2>2 DEF e
    <2>. HIDE DEF oA
    <2>4. WithCasts(oA) = WithOperands(Arith(x, y), X, Y)
      BY <1>2, <2>3 DEF WithCasts
    <2>. QED
      BY <1>1, <2>3, <2>4, Replaced
  <1>6. /\ oC.ok = TRUE /\ oC.coercion = v /\ WithCasts(oC) = Compare(X, Y)
        /\ oC.expr = Compare(x, y) /\ oC.lhs.type = t /\ oC.rhs.type = u
    <2>. DEFINE e == Compare(l, r)
                made == WithOperands(e, c[l].expr, c[r].expr)
    <2>1. e.LHS = l /\ e.RHS = r /\ made = Compare(x, y)
      BY <1>1, Operands, Replaced
    <2>. HIDE DEF e, made
    <2>2. /\ CheckOperands(c, e).ok = TRUE /\ CheckOperands(c, e).coercion = v
          /\ CheckOperands(c, e).lhs = c[l] /\ CheckOperands(c, e).rhs = c[r]
          /\ CheckOperands(c, e).expr = made
      BY <1>1, <1>4, <2>1 DEF CheckOperands, made
    <2>3. /\ oC.ok = TRUE /\ oC.coercion = v /\ oC.lhs = c[l] /\ oC.rhs = c[r]
          /\ oC.expr = Compare(x, y)
      BY <2>1, <2>2 DEF e
    <2>. HIDE DEF oC
    <2>4. WithCasts(oC) = WithOperands(Compare(x, y), X, Y)
      BY <1>2, <2>3 DEF WithCasts
    <2>. QED
      BY <1>1, <2>3, <2>4, Replaced
  <1>7. /\ CheckExpression(table, c, Arith(l, r)) = CheckBinary(c, Arith(l, r))
        /\ CheckExpression(table, c, Compare(l, r)) = CheckComparison(c, Compare(l, r))
    BY DEF CheckExpression, Arith, Compare
  <1>8. CheckBinary(c, Arith(l, r)) = Yes(v, Arith(X, Y))
    <2>. HIDE DEF oA
    <2>1. oA.ok /\ oA.coercion # "Void" => CheckBinary(c, Arith(l, r)) = Yes(oA.coercion, WithCasts(oA))
      BY DEF CheckBinary, oA
    <2>. QED
      BY <1>2, <1>5, <2>1
  <1>9. CheckComparison(c, Compare(l, r))
          = IF v = t /\ v = u THEN Yes("Bool", Compare(x, y)) ELSE c[Compare(X, Y)]
    <2>. HIDE DEF oC
    <2>1. CheckComparison(c, Compare(l, r))
            = IF ~oC.ok \/ oC.coercion = "Void" THEN No(oC.expr)
              ELSE IF oC.coercion = oC.lhs.type /\ oC.coercion = oC.rhs.type
                   THEN Yes("Bool", oC.expr)
                   ELSE c[WithCasts(oC)]
      BY DEF CheckComparison, oC
    <2>. QED
      BY <1>2, <1>6, <2>1
  <1>10. v = t /\ v = u => Compare(x, y) = Compare(X, Y)
    BY <1>3
  <1>11. CheckExpression(table, c, Arith(l, r)) = Yes(v, Arith(X, Y))
    BY <1>7, <1>8
  <1>12. v = t /\ v = u => CheckExpression(table, c, Compare(l, r)) = Yes("Bool", Compare(X, Y))
    BY <1>7, <1>9, <1>10
  <1>13. v # t \/ v # u => CheckExpression(table, c, Compare(l, r)) = c[Compare(X, Y)]
    BY <1>7, <1>9
  <1>. QED
    BY <1>11, <1>12, <1>13 DEF Compared

IsNo(answer) == answer = No(answer.expr)

\* And without such operands there is no answer but no.
LEMMA PairRejected ==
  ASSUME NEW table,
         NEW c, NEW l, NEW r,
         \/ IsNo(c[l])
         \/ IsNo(c[r])
         \/ CanCoerce(c[l].type, c[r].type) = "Void"
  PROVE  /\ IsNo(CheckExpression(table, c, Arith(l, r)))
         /\ IsNo(CheckExpression(table, c, Compare(l, r)))
         /\ CheckExpression(table, c, Compare(l, r)) = No(CheckOperands(c, Compare(l, r)).expr)
  <1>. DEFINE oA == CheckOperands(c, Arith(l, r))
              oC == CheckOperands(c, Compare(l, r))
  <1>1. IsNo(c[l]) \/ IsNo(c[r]) => ~oA.ok /\ ~oC.ok
    <2>1. /\ IsNo(c[l]) => c[l].ok = FALSE
          /\ IsNo(c[r]) => c[r].ok = FALSE
          /\ No(r).ok = FALSE
      BY DEF IsNo, No
    <2>2. ASSUME c[l].ok = FALSE \/ c[r].ok = FALSE
          PROVE  \A e : e.LHS = l /\ e.RHS = r => ~ CheckOperands(c, e).ok
      <3>1. \A e : CheckOperands(c, e).ok
                    <=> (c[e.LHS].ok /\ (IF c[e.LHS].ok THEN c[e.RHS] ELSE No(e.RHS)).ok)
        BY DEF CheckOperands
      <3>. QED
        BY <2>1, <2>2, <3>1
    <2>3. IsNo(c[l]) \/ IsNo(c[r]) => c[l].ok = FALSE \/ c[r].ok = FALSE
      BY <2>1, Zenon
    <2>4. /\ Arith(l, r).LHS = l /\ Arith(l, r).RHS = r
          /\ Compare(l, r).LHS = l /\ Compare(l, r).RHS = r
      BY Operands
    <2>. QED
      BY <2>2, <2>3, <2>4, Zenon
  <1>2. oA.ok => oA.coercion = CanCoerce(c[l].type, c[r].type)
    BY DEF CheckOperands, Arith
  <1>3. oC.ok => oC.coercion = CanCoerce(c[l].type, c[r].type)
    BY DEF CheckOperands, Compare
  <1>4. /\ CheckExpression(table, c, Arith(l, r)) = CheckBinary(c, Arith(l, r))
        /\ CheckExpression(table, c, Compare(l, r)) = CheckComparison(c, Compare(l, r))
    BY DEF CheckExpression, Arith, Compare
  <1>. HIDE DEF oA, oC
  <1>5. CheckBinary(c, Arith(l, r))
          = IF oA.ok /\ oA.coercion # "Void" THEN Yes(oA.coercion, WithCasts(oA)) ELSE No(oA.expr)
    BY DEF CheckBinary, oA
  <1>6. CheckComparison(c, Compare(l, r))
          = IF ~oC.ok \/ oC.coercion = "Void" THEN No(oC.expr)
            ELSE IF oC.coercion = oC.lhs.type /\ oC.coercion = oC.rhs.type
                 THEN Yes("Bool", oC.expr)
                 ELSE c[WithCasts(oC)]
    BY DEF CheckComparison, oC
  <1>7. CheckBinary(c, Arith(l, r)) = No(oA.expr) /\ CheckComparison(c, Compare(l, r)) = No(oC.expr)
    BY <1>1, <1>2, <1>3, <1>5, <1>6
  <1>. QED
    BY <1>4, <1>7 DEF IsNo, No, oC

LEMMA LogicalChecked ==
  ASSUME NEW table,
         NEW c, NEW l, NEW r
  PROVE  /\ \A x, y : c[l] = Yes("Bool", x) /\ c[r] = Yes("Bool", y) =>
                        CheckExpression(table, c, Logical(l, r)) = Yes("Bool", Logical(x, y))
         /\ \/ IsNo(c[l])
            \/ IsNo(c[r])
            \/ c[l].type # "Bool"
            \/ c[r].type # "Bool"
            => IsNo(CheckExpression(table, c, Logical(l, r)))
  <1>. DEFINE node == Logical(l, r)
              R == IF c[l].ok /\ c[l].type = "Bool" THEN c[r] ELSE No(r)
              made == WithOperands(node, c[l].expr, R.expr)
  <1>1. CheckExpression(table, c, node) = IF R.ok /\ R.type = "Bool" THEN Yes("Bool", made) ELSE No(made)
    BY DEF CheckExpression, CheckBoolOp, Logical
  <1>2. ASSUME NEW x, NEW y, c[l] = Yes("Bool", x), c[r] = Yes("Bool", y)
        PROVE  CheckExpression(table, c, node) = Yes("Bool", Logical(x, y))
    <2>1. R.ok = TRUE /\ R.type = "Bool" /\ R.expr = y /\ c[l].expr = x
      BY <1>2 DEF Yes
    <2>2. made = Logical(x, y)
      <3>. HIDE DEF R
      <3>. QED
        BY <2>1, Replaced
    <2>. HIDE DEF made, R
    <2>. QED
      BY <1>1, <2>1, <2>2
  <1>3. ASSUME \/ IsNo(c[l])
               \/ IsNo(c[r])
               \/ c[l].type # "Bool"
               \/ c[r].type # "Bool"
        PROVE  IsNo(CheckExpression(table, c, node))
    <2>1. ~ (R.ok /\ R.type = "Bool")
      BY <1>3 DEF IsNo, No
    <2>. HIDE DEF made, R
    <2>2. CheckExpression(table, c, node) = No(made)
      BY <1>1, <2>1
    <2>. QED
      BY <2>2 DEF IsNo, No
  <1>. QED
    BY <1>2, <1>3

LEMMA UnaryChecked ==
  ASSUME NEW table,
         NEW c, NEW l, NEW t, NEW x, NEW u, c[l] = Yes(t, x)
  PROVE  /\ t \notin {"Bool", "Void"} => CheckExpression(table, c, Sign(l)) = Yes(t, Sign(x))
         /\ CheckExpression(table, c, Casting(l, u)) = Yes(u, Casting(x, u))
  <1>1. c[l].ok = TRUE /\ c[l].type = t /\ c[l].expr = x
    BY DEF Yes
  <1>2. [Sign(l) EXCEPT !.value = x] = Sign(x)
    BY DEF Sign
  <1>3. [Casting(l, u) EXCEPT !.value = x] = Casting(x, u)
    BY DEF Casting
  <1>4. t \notin {"Bool", "Void"} =>
           CheckExpression(table, c, Sign(l)) = Yes(t, [Sign(l) EXCEPT !.value = x])
    BY <1>1 DEF CheckExpression, CheckSign, Sign
  <1>5. CheckExpression(table, c, Casting(l, u)) = Yes(u, [Casting(l, u) EXCEPT !.value = x])
    BY <1>1 DEF CheckExpression, CheckCasting, Casting
  <1>. QED
    BY <1>2, <1>3, <1>4, <1>5

LEMMA SignRejected ==
  ASSUME NEW table,
         NEW c, NEW l, IsNo(c[l]) \/ c[l].type \in {"Bool", "Void"}
  PROVE  IsNo(CheckExpression(table, c, Sign(l)))
  <1>. DEFINE made == [Sign(l) EXCEPT !.value = c[l].expr]
  <1>1. CheckExpression(table, c, Sign(l))
          = IF c[l].ok /\ c[l].type \notin {"Bool", "Void"} THEN Yes(c[l].type, made) ELSE No(made)
    BY DEF CheckExpression, CheckSign, Sign
  <1>2. ~ (c[l].ok /\ c[l].type \notin {"Bool", "Void"})
    BY DEF IsNo, No
  <1>. HIDE DEF made
  <1>3. CheckExpression(table, c, Sign(l)) = No(made)
    BY <1>1, <1>2
  <1>. QED
    BY <1>3 DEF IsNo, No

-----------------------------------------------------------------------------
(* Accepted trees: what check returns for a tree with its casts, and what  *)
(* generate makes of it, once the calls are nested deep enough.            *)

Operators == {"binary", "comparison", "boolop"}
Agrees(table, e) == e.op \in Operators => TypeOf(table, e.LHS) = TypeOf(table, e.RHS)
AllSupported(table, x) == \A e \in Nodes(x) : Supported(table, e)

\* The answers for a tree x from depth k on.
Steady(table, env, x, k) ==
  /\ k \in 1 .. MaxNesting /\ x \in ExprAST[k]
  /\ \A n \in k .. MaxNesting :
       /\ Checks(table)[n][x] = Check(table, x)
       /\ Generates(env)[n][x] = Generate(env, x)
       /\ NodesWithin[n][x] = Nodes(x)

Accepted(table, env, x, t, k) ==
  /\ t \in Type
  /\ Steady(table, env, x, k)
  /\ Check(table, x) = Yes(t, x)
  /\ \A e \in Nodes(x) : Agrees(table, e)
  /\ AllSupported(table, x) => Generate(env, x) = Value(GetFromType(t), TRUE)
  /\ ~AllSupported(table, x) => Generate(env, x).valid = FALSE

LEMMA AcceptedNode ==
  ASSUME NEW table, NEW env,
         NEW k \in 1 .. MaxNesting, NEW x \in ExprAST[k], NEW t \in Type, NEW v, NEW M,
         \A n \in k .. MaxNesting : Checks(table)[n][x] = Yes(t, x),
         \A n \in k .. MaxNesting : Generates(env)[n][x] = v,
         \A n \in k .. MaxNesting : NodesWithin[n][x] = {x} \cup M,
         Agrees(table, x), \A e \in M : Agrees(table, e),
         Supported(table, x) /\ (\A e \in M : Supported(table, e)) => v = Value(GetFromType(t), TRUE),
         ~ (Supported(table, x) /\ (\A e \in M : Supported(table, e))) => v.valid = FALSE
  PROVE  Accepted(table, env, x, t, k)
  <1>1. MaxNesting \in k .. MaxNesting
    BY NestingBound DEF NestingBound
  <1>2. Check(table, x) = Yes(t, x) /\ Generate(env, x) = v /\ Nodes(x) = {x} \cup M
    BY <1>1 DEF Check, Generate, Nodes
  <1>3. Steady(table, env, x, k)
    BY <1>2 DEF Steady
  <1>4. \A e \in Nodes(x) : Agrees(table, e)
    BY <1>2
  <1>5. AllSupported(table, x) <=> Supported(table, x) /\ (\A e \in M : Supported(table, e))
    BY <1>2 DEF AllSupported
  <1>. QED
    BY <1>2, <1>3, <1>4, <1>5, Zenon DEF Accepted

\* What is known of an accepted tree when a node around it is checked.
LEMMA AcceptedTree ==
  ASSUME NEW table, NEW env,
         NEW x, NEW t, NEW k, Accepted(table, env, x, t, k)
  PROVE  /\ t \in Type /\ k \in 1 .. MaxNesting /\ x \in ExprAST[k] /\ x \in Expr
         /\ \A n \in k .. MaxNesting :
              /\ Checks(table)[n][x] = Yes(t, x)
              /\ Generates(env)[n][x] = Generate(env, x)
              /\ NodesWithin[n][x] = Nodes(x)
         /\ TypeOf(table, x) = t
         /\ \A e \in Nodes(x) : Agrees(table, e)
         /\ AllSupported(table, x) => Generate(env, x) = Value(GetFromType(t), TRUE)
         /\ ~AllSupported(table, x) => Generate(env, x).valid = FALSE
  <1>1. t \in Type /\ k \in 1 .. MaxNesting /\ x \in ExprAST[k]
    BY DEF Accepted, Steady
  <1>2. x \in Expr
    BY <1>1, TreesAreExpr, NestingBound DEF NestingBound
  <1>3. TypeOf(table, x) = t
    BY DEF Accepted, TypeOf, Yes
  <1>. QED
    BY <1>1, <1>2, <1>3, Zenon DEF Accepted, Steady

\* The same under a name, for the steps that need several of them.
Known(table, env, x, t, k) ==
  /\ t \in Type /\ x \in ExprAST[k] /\ TypeOf(table, x) = t
  /\ \A n \in k .. MaxNesting :
       /\ Checks(table)[n][x] = Yes(t, x)
       /\ Generates(env)[n][x] = Generate(env, x)
       /\ NodesWithin[n][x] = Nodes(x)
  /\ \A e \in Nodes(x) : Agrees(table, e)
  /\ AllSupported(table, x) => Generate(env, x) = Value(GetFromType(t), TRUE)
  /\ ~AllSupported(table, x) => Generate(env, x).valid = FALSE

LEMMA AcceptedKnown ==
  ASSUME NEW table, NEW env, NEW x, NEW t, NEW k, Accepted(table, env, x, t, k)
  PROVE  Known(table, env, x, t, k)
  <1>1. x \in ExprAST[k] /\ TypeOf(table, x) = t
    BY AcceptedTree, Zenon
  <1>. QED
    BY <1>1, Zenon DEF Accepted, Steady, Known

LEMMA AcceptedDeeper ==
  ASSUME NEW table, NEW env,
         NEW x, NEW t, NEW k, Accepted(table, env, x, t, k), NEW j \in k .. MaxNesting
  PROVE  Accepted(table, env, x, t, j)
  <1>6. k \in 1 .. MaxNesting /\ x \in ExprAST[k]
    BY AcceptedTree, Zenon
  <1>1. k \in 1 .. MaxNesting /\ x \in ExprAST[k] /\ j \in 1 .. MaxNesting /\ k <= j
    BY <1>6, NestingBound DEF NestingBound
  <1>2. x \in ExprAST[j]
    BY <1>1, TreesGrow, NestingBound DEF NestingBound
  <1>3. \A n \in j .. MaxNesting : n \in k .. MaxNesting
    BY <1>1, NestingBound DEF NestingBound
  <1>4. Steady(table, env, x, k)
    BY DEF Accepted
  <1>5. Steady(table, env, x, j)
    BY <1>1, <1>2, <1>3, <1>4 DEF Steady
  <1>. QED
    BY <1>5, Zenon DEF Accepted

\* One level up.
LEMMA NextLevel ==
  ASSUME NEW k \in 1 .. MaxNesting, k + 1 <= MaxNesting
  PROVE  /\ k + 1 \in 1 .. MaxNesting /\ (k + 1) - 1 = k
         /\ \A n \in k + 1 .. MaxNesting :
              n \in 1 .. MaxNesting /\ n - 1 \in k .. MaxNesting /\ n \in k .. MaxNesting
         /\ k \in k .. MaxNesting
  BY NestingBound DEF NestingBound

LEMMA NodesAround ==
  ASSUME NEW n \in 1 .. MaxNesting, NEW e \in Expr
  PROVE  /\ \A x, y : Children(e) = {x, y} =>
              NodesWithin[n][e] = {e} \cup (NodesWithin[n - 1][x] \cup NodesWithin[n - 1][y])
         /\ \A x : Children(e) = {x} => NodesWithin[n][e] = {e} \cup NodesWithin[n - 1][x]
         /\ Children(e) = {} => NodesWithin[n][e] = {e}
  <1>1. NodesWithin[n][e] = {e} \cup UNION { NodesWithin[n - 1][c] : c \in Children(e) }
    BY OneStep
  <1>2. \A x, y : UNION { NodesWithin[n - 1][c] : c \in {x, y} } = NodesWithin[n - 1][x] \cup NodesWithin[n - 1][y]
    OBVIOUS
  <1>3. \A x : UNION { NodesWithin[n - 1][c] : c \in {x} } = NodesWithin[n - 1][x]
    OBVIOUS
  <1>4. UNION { NodesWithin[n - 1][c] : c \in {} } = {}
    OBVIOUS
  <1>. QED
    BY <1>1, <1>2, <1>3, <1>4

\* The nodes that check puts together from accepted operands.
LEMMA PairAccepted ==
  ASSUME NEW table, NEW env,
         NEW k \in 1 .. MaxNesting, k + 1 <= MaxNesting,
         NEW x, NEW y, NEW t, t # "Void", Accepted(table, env, x, t, k), Accepted(table, env, y, t, k)
  PROVE  /\ Accepted(table, env, Arith(x, y), t, k + 1)
         /\ Accepted(table, env, Compare(x, y), "Bool", k + 1)
         /\ t = "Bool" => Accepted(table, env, Logical(x, y), "Bool", k + 1)
  <1>. DEFINE j == k + 1
              M == Nodes(x) \cup Nodes(y)
              g == Generates(env)[k]
              Good == AllSupported(table, x) /\ AllSupported(table, y)
  <1>0. Known(table, env, x, t, k) /\ Known(table, env, y, t, k)
    BY AcceptedKnown
  <1>1. /\ t \in Type
        /\ \A n \in k .. MaxNesting : Checks(table)[n][x] = Yes(t, x)
        /\ \A n \in k .. MaxNesting : Checks(table)[n][y] = Yes(t, y)
        /\ \A n \in k .. MaxNesting : Generates(env)[n][x] = Generate(env, x)
        /\ \A n \in k .. MaxNesting : Generates(env)[n][y] = Generate(env, y)
        /\ \A n \in k .. MaxNesting : NodesWithin[n][x] = Nodes(x)
        /\ \A n \in k .. MaxNesting : NodesWithin[n][y] = Nodes(y)
    BY <1>0 DEF Known
  <1>2. x \in ExprAST[k] /\ y \in ExprAST[k] /\ TypeOf(table, x) = t /\ TypeOf(table, y) = t
    BY <1>0 DEF Known
  <1>3. \A e \in M : Agrees(table, e)
    BY <1>0, Zenon DEF Known
  <1>4. (\A e \in M : Supported(table, e)) <=> Good
    BY Zenon DEF AllSupported
  <1>5. /\ Good => /\ Generate(env, x) = Value(GetFromType(t), TRUE)
                   /\ Generate(env, y) = Value(GetFromType(t), TRUE)
        /\ ~Good => \/ Generate(env, x).valid = FALSE
                    \/ Generate(env, y).valid = FALSE
    BY <1>0, Zenon DEF Known
  <1>6. /\ j \in 1 .. MaxNesting /\ j - 1 = k /\ k \in k .. MaxNesting
        /\ \A n \in j .. MaxNesting :
              n \in 1 .. MaxNesting /\ n - 1 \in k .. MaxNesting
    BY NextLevel
  <1>7. t = CanCoerce(t, t) /\ "Bool" \in Type
    BY <1>1, Coercions DEF RowOf, Type
  <1>8. CastTo(t, Yes(t, x)) = x /\ CastTo(t, Yes(t, y)) = y
    BY DEF CastTo, Yes
  <1>9. /\ Arith(x, y) \in ExprAST[j] /\ Compare(x, y) \in ExprAST[j] /\ Logical(x, y) \in ExprAST[j]
        /\ Arith(x, y) \in Expr /\ Compare(x, y) \in Expr /\ Logical(x, y) \in Expr
    <2>1. j \in 0 .. MaxNesting
      BY <1>6, NestingBound DEF NestingBound
    <2>. QED
      BY <1>2, <1>6, <2>1, TreesAroundTrees, TreesAreExpr
  <1>10. /\ Children(Arith(x, y)) = {x, y} /\ Children(Compare(x, y)) = {x, y}
         /\ Children(Logical(x, y)) = {x, y}
    BY DEF Children, Arith, Compare, Logical
  <1>11. /\ Agrees(table, Arith(x, y)) /\ Agrees(table, Compare(x, y)) /\ Agrees(table, Logical(x, y))
         /\ Supported(table, Arith(x, y)) /\ Supported(table, Compare(x, y))
         /\ Supported(table, Logical(x, y))
    BY <1>2 DEF Agrees, Supported, Arith, Compare, Logical
  <1>12. ASSUME NEW n \in j .. MaxNesting
         PROVE  /\ Checks(table)[n][Arith(x, y)] = Yes(t, Arith(x, y))
                /\ Checks(table)[n][Compare(x, y)] = Yes("Bool", Compare(x, y))
                /\ t = "Bool" => Checks(table)[n][Logical(x, y)] = Yes("Bool", Logical(x, y))
    <2>. DEFINE c == Checks(table)[n - 1]
    <2>1. c[x] = Yes(t, x) /\ c[y] = Yes(t, y)
      BY <1>1, <1>6
    <2>2. /\ Checks(table)[n][Arith(x, y)] = CheckExpression(table, c, Arith(x, y))
          /\ Checks(table)[n][Compare(x, y)] = CheckExpression(table, c, Compare(x, y))
          /\ Checks(table)[n][Logical(x, y)] = CheckExpression(table, c, Logical(x, y))
      BY <1>6, <1>9, OneCall
    <2>. HIDE DEF c
    <2>3. /\ t = CanCoerce(t, t) /\ x = CastTo(t, Yes(t, x)) /\ y = CastTo(t, Yes(t, y))
          /\ t \in Type
      BY <1>1, <1>7, <1>8
    <2>4. CheckExpression(table, c, Arith(x, y)) = Yes(t, Arith(x, y))
      BY <2>1, <2>3, PairChecked
    <2>5. CheckExpression(table, c, Compare(x, y)) = Yes("Bool", Compare(x, y))
      <3>1. CheckExpression(table, c, Compare(x, y)) = Compared(c, t = t /\ t = t, Compare(x, y))
        BY <2>1, <2>3, PairChecked
      <3>. QED
        BY <3>1 DEF Compared
    <2>6. t = "Bool" => CheckExpression(table, c, Logical(x, y)) = Yes("Bool", Logical(x, y))
      BY <2>1, LogicalChecked
    <2>. QED
      BY <2>2, <2>4, <2>5, <2>6
  <1>13. ASSUME NEW n \in j .. MaxNesting
         PROVE  /\ Generates(env)[n][Arith(x, y)] = GenerateExpression(env, g, Arith(x, y))
                /\ Generates(env)[n][Compare(x, y)] = GenerateExpression(env, g, Compare(x, y))
                /\ Generates(env)[n][Logical(x, y)] = GenerateExpression(env, g, Logical(x, y))
    <2>. DEFINE c == Generates(env)[n - 1]
    <2>1. c[x] = g[x] /\ c[y] = g[y]
      BY <1>1, <1>6
    <2>2. /\ Generates(env)[n][Arith(x, y)] = GenerateExpression(env, c, Arith(x, y))
          /\ Generates(env)[n][Compare(x, y)] = GenerateExpression(env, c, Compare(x, y))
          /\ Generates(env)[n][Logical(x, y)] = GenerateExpression(env, c, Logical(x, y))
      BY <1>6, <1>9, OneCall
    <2>. HIDE DEF c, g
    <2>. QED
      BY <2>1, <2>2, SameValues
  <1>14. ASSUME NEW n \in j .. MaxNesting
         PROVE  /\ NodesWithin[n][Arith(x, y)] = {Arith(x, y)} \cup M
                /\ NodesWithin[n][Compare(x, y)] = {Compare(x, y)} \cup M
                /\ NodesWithin[n][Logical(x, y)] = {Logical(x, y)} \cup M
    <2>1. NodesWithin[n - 1][x] = Nodes(x) /\ NodesWithin[n - 1][y] = Nodes(y)
      BY <1>1, <1>6
    <2>2. n \in 1 .. MaxNesting
      BY <1>6
    <2>. QED
      BY <1>9, <1>10, <2>1, <2>2, NodesAround
  <1>15. g[x] = Generate(env, x) /\ g[y] = Generate(env, y)
    BY <1>1, <1>6
  <1>. HIDE DEF g, M, j, Good
  <1>16. /\ Good =>
              /\ GenerateExpression(env, g, Arith(x, y)) = Value(GetFromType(t), TRUE)
              /\ GenerateExpression(env, g, Compare(x, y)) = Value(GetFromType("Bool"), TRUE)
              /\ t = "Bool" => GenerateExpression(env, g, Logical(x, y)) = Value(GetFromType("Bool"), TRUE)
         /\ ~Good =>
              /\ GenerateExpression(env, g, Arith(x, y)).valid = FALSE
              /\ GenerateExpression(env, g, Compare(x, y)).valid = FALSE
              /\ GenerateExpression(env, g, Logical(x, y)).valid = FALSE
    <2>1. /\ Good => g[x] = Value(GetFromType(t), TRUE) /\ g[y] = Value(GetFromType(t), TRUE)
          /\ ~Good => g[x].valid = FALSE \/ g[y].valid = FALSE
      BY <1>5, <1>15
    <2>4. t \in Type
      BY <1>1
    <2>3. CASE Good
      <3>1. Gives(g[x], t) /\ Gives(g[y], t)
        BY <2>1, <2>3 DEF Gives
      <3>2. /\ Gives(GenerateExpression(env, g, Arith(x, y)), t)
            /\ Gives(GenerateExpression(env, g, Compare(x, y)), "Bool")
            /\ t = "Bool" => Gives(GenerateExpression(env, g, Logical(x, y)), "Bool")
        BY <2>4, <3>1, PairGenerated
      <3>. QED
        BY <2>3, <3>2 DEF Gives
    <2>5. CASE ~Good
      <3>1. g[x].valid = FALSE \/ g[y].valid = FALSE
        BY <2>1, <2>5
      <3>. QED
        BY <2>5, <3>1, PairInvalid
    <2>. QED
      BY <2>3, <2>5
  <1>17. Accepted(table, env, Arith(x, y), t, j)
    <2>. DEFINE N == Arith(x, y)
                v == GenerateExpression(env, g, N)
    <2>1. /\ \A n \in j .. MaxNesting : Checks(table)[n][N] = Yes(t, N)
          /\ \A n \in j .. MaxNesting : Generates(env)[n][N] = v
          /\ \A n \in j .. MaxNesting : NodesWithin[n][N] = {N} \cup M
      BY <1>12, <1>13, <1>14
    <2>2. N \in ExprAST[j] /\ Agrees(table, N)
      BY <1>9, <1>11
    <2>3. /\ Supported(table, N) /\ (\A e \in M : Supported(table, e)) => v = Value(GetFromType(t), TRUE)
          /\ ~ (Supported(table, N) /\ (\A e \in M : Supported(table, e))) => v.valid = FALSE
      BY <1>4, <1>11, <1>16
    <2>4. t \in Type
      BY <1>1, <1>7
    <2>. HIDE DEF N, v
    <2>5. Accepted(table, env, N, t, j)
      BY <1>3, <1>6, <2>1, <2>2, <2>3, <2>4, AcceptedNode
    <2>. QED
      BY <2>5 DEF N
  <1>18. Accepted(table, env, Compare(x, y), "Bool", j)
    <2>. DEFINE N == Compare(x, y)
                v == GenerateExpression(env, g, N)
    <2>1. /\ \A n \in j .. MaxNesting : Checks(table)[n][N] = Yes("Bool", N)
          /\ \A n \in j .. MaxNesting : Generates(env)[n][N] = v
          /\ \A n \in j .. MaxNesting : NodesWithin[n][N] = {N} \cup M
      BY <1>12, <1>13, <1>14
    <2>2. N \in ExprAST[j] /\ Agrees(table, N)
      BY <1>9, <1>11
    <2>3. /\ Supported(table, N) /\ (\A e \in M : Supported(table, e)) => v = Value(GetFromType("Bool"), TRUE)
          /\ ~ (Supported(table, N) /\ (\A e \in M : Supported(table, e))) => v.valid = FALSE
      BY <1>4, <1>11, <1>16
    <2>4. "Bool" \in Type
      BY <1>1, <1>7
    <2>. HIDE DEF N, v
    <2>5. Accepted(table, env, N, "Bool", j)
      BY <1>3, <1>6, <2>1, <2>2, <2>3, <2>4, AcceptedNode
    <2>. QED
      BY <2>5 DEF N
  <1>19. ASSUME t = "Bool"
         PROVE  Accepted(table, env, Logical(x, y), "Bool", j)
    <2>. DEFINE N == Logical(x, y)
                v == GenerateExpression(env, g, N)
    <2>1. /\ \A n \in j .. MaxNesting : Checks(table)[n][N] = Yes("Bool", N)
          /\ \A n \in j .. MaxNesting : Generates(env)[n][N] = v
          /\ \A n \in j .. MaxNesting : NodesWithin[n][N] = {N} \cup M
      BY <1>12, <1>13, <1>14, <1>19
    <2>2. N \in ExprAST[j] /\ Agrees(table, N)
      BY <1>9, <1>11
    <2>3. /\ Supported(table, N) /\ (\A e \in M : Supported(table, e)) => v = Value(GetFromType("Bool"), TRUE)
          /\ ~ (Supported(table, N) /\ (\A e \in M : Supported(table, e))) => v.valid = FALSE
      BY <1>4, <1>11, <1>16, <1>19
    <2>4. "Bool" \in Type
      BY <1>1, <1>7
    <2>. HIDE DEF N, v
    <2>5. Accepted(table, env, N, "Bool", j)
      BY <1>3, <1>6, <2>1, <2>2, <2>3, <2>4, AcceptedNode
    <2>. QED
      BY <2>5 DEF N
  <1>. QED
    BY <1>17, <1>18, <1>19 DEF j

LEMMA UnaryAccepted ==
  ASSUME NEW table, NEW env,
         NEW k \in 1 .. MaxNesting, k + 1 <= MaxNesting,
         NEW x, NEW t, t # "Void", Accepted(table, env, x, t, k), NEW u \in Type
  PROVE  /\ t # "Bool" => Accepted(table, env, Sign(x), t, k + 1)
         /\ Accepted(table, env, Casting(x, u), u, k + 1)
  <1>. DEFINE j == k + 1
              M == Nodes(x)
              g == Generates(env)[k]
              Good == AllSupported(table, x)
              Fits == SameBits(t, u) \/ (t \notin Floating /\ u \in Floating)
  <1>0. Known(table, env, x, t, k)
    BY AcceptedKnown
  <1>1. /\ t \in Type
        /\ \A n \in k .. MaxNesting : Checks(table)[n][x] = Yes(t, x)
        /\ \A n \in k .. MaxNesting : Generates(env)[n][x] = Generate(env, x)
        /\ \A n \in k .. MaxNesting : NodesWithin[n][x] = Nodes(x)
    BY <1>0, Zenon DEF Known
  <1>2. x \in ExprAST[k] /\ TypeOf(table, x) = t
    BY <1>0, Zenon DEF Known
  <1>3. \A e \in M : Agrees(table, e)
    BY <1>0, Zenon DEF Known
  <1>4. (\A e \in M : Supported(table, e)) <=> Good
    BY Zenon DEF AllSupported
  <1>5. /\ Good => Generate(env, x) = Value(GetFromType(t), TRUE)
        /\ ~Good => Generate(env, x).valid = FALSE
    BY <1>0, Zenon DEF Known
  <1>6. /\ j \in 1 .. MaxNesting /\ j - 1 = k /\ k \in k .. MaxNesting
        /\ \A n \in j .. MaxNesting :
              n \in 1 .. MaxNesting /\ n - 1 \in k .. MaxNesting
    BY NextLevel
  <1>9. /\ Sign(x) \in ExprAST[j] /\ Casting(x, u) \in ExprAST[j]
        /\ Sign(x) \in Expr /\ Casting(x, u) \in Expr
    <2>1. j \in 0 .. MaxNesting
      BY <1>6, NestingBound DEF NestingBound
    <2>. QED
      BY <1>2, <1>6, <2>1, TreesAroundTrees, TreesAreExpr
  <1>10. Children(Sign(x)) = {x} /\ Children(Casting(x, u)) = {x}
    BY DEF Children, Sign, Casting
  <1>11. /\ Agrees(table, Sign(x)) /\ Agrees(table, Casting(x, u))
         /\ Supported(table, Sign(x)) <=> t # "Double"
         /\ Supported(table, Casting(x, u)) <=> Fits
    <2>1. Agrees(table, Sign(x)) /\ Agrees(table, Casting(x, u))
      BY DEF Agrees, Operators, Sign, Casting
    <2>2. Supported(table, Sign(x)) <=> t # "Double"
      BY <1>2 DEF Supported, Sign
    <2>3. Supported(table, Casting(x, u)) <=> Fits
      BY <1>2 DEF Supported, Casting
    <2>. QED
      BY <2>1, <2>2, <2>3
  <1>12. ASSUME NEW n \in j .. MaxNesting
         PROVE  /\ t # "Bool" => Checks(table)[n][Sign(x)] = Yes(t, Sign(x))
                /\ Checks(table)[n][Casting(x, u)] = Yes(u, Casting(x, u))
    <2>. DEFINE c == Checks(table)[n - 1]
    <2>1. c[x] = Yes(t, x)
      BY <1>1, <1>6
    <2>2. /\ Checks(table)[n][Sign(x)] = CheckExpression(table, c, Sign(x))
          /\ Checks(table)[n][Casting(x, u)] = CheckExpression(table, c, Casting(x, u))
      BY <1>6, <1>9, OneCall
    <2>. HIDE DEF c
    <2>3. /\ t \notin {"Bool", "Void"} => CheckExpression(table, c, Sign(x)) = Yes(t, Sign(x))
          /\ CheckExpression(table, c, Casting(x, u)) = Yes(u, Casting(x, u))
      BY <2>1, UnaryChecked
    <2>. QED
      BY <1>1, <2>2, <2>3
  <1>13. ASSUME NEW n \in j .. MaxNesting
         PROVE  /\ Generates(env)[n][Sign(x)] = GenerateExpression(env, g, Sign(x))
                /\ Generates(env)[n][Casting(x, u)] = GenerateExpression(env, g, Casting(x, u))
    <2>. DEFINE c == Generates(env)[n - 1]
    <2>1. c[x] = g[x]
      BY <1>1, <1>6
    <2>2. /\ Generates(env)[n][Sign(x)] = GenerateExpression(env, c, Sign(x))
          /\ Generates(env)[n][Casting(x, u)] = GenerateExpression(env, c, Casting(x, u))
      BY <1>6, <1>9, OneCall
    <2>. HIDE DEF c, g
    <2>. QED
      BY <2>1, <2>2, SameValue
  <1>14. ASSUME NEW n \in j .. MaxNesting
         PROVE  /\ NodesWithin[n][Sign(x)] = {Sign(x)} \cup M
                /\ NodesWithin[n][Casting(x, u)] = {Casting(x, u)} \cup M
    <2>1. NodesWithin[n - 1][x] = Nodes(x)
      BY <1>1, <1>6
    <2>2. n \in 1 .. MaxNesting
      BY <1>6
    <2>3. /\ NodesWithin[n][Sign(x)] = {Sign(x)} \cup NodesWithin[n - 1][x]
          /\ NodesWithin[n][Casting(x, u)] = {Casting(x, u)} \cup NodesWithin[n - 1][x]
      BY <1>9, <1>10, <2>2, NodesAround
    <2>. QED
      BY <2>1, <2>3
  <1>15. g[x] = Generate(env, x)
    BY <1>1, <1>6
  <1>. HIDE DEF g, M, j, Good
  <1>16. /\ Good /\ t # "Double" => GenerateExpression(env, g, Sign(x)) = Value(GetFromType(t), TRUE)
         /\ ~ (Good /\ t # "Double") => GenerateExpression(env, g, Sign(x)).valid = FALSE
         /\ Good /\ Fits => GenerateExpression(env, g, Casting(x, u)) = Value(GetFromType(u), TRUE)
         /\ ~ (Good /\ Fits) => GenerateExpression(env, g, Casting(x, u)).valid = FALSE
    <2>1. /\ Good => g[x] = Value(GetFromType(t), TRUE)
          /\ ~Good => g[x].valid = FALSE
      BY <1>5, <1>15
    <2>2. t \in Type
      BY <1>1
    <2>3. ASSUME g[x] = Value(GetFromType(t), TRUE)
          PROVE  /\ t # "Double" => GenerateExpression(env, g, Sign(x)) = Value(GetFromType(t), TRUE)
                 /\ t = "Double" => GenerateExpression(env, g, Sign(x)).valid = FALSE
      BY <2>2, <2>3, SignGenerated
    <2>4. ASSUME g[x] = Value(GetFromType(t), TRUE)
          PROVE  /\ Fits => GenerateExpression(env, g, Casting(x, u)) = Value(GetFromType(u), TRUE)
                 /\ ~Fits => GenerateExpression(env, g, Casting(x, u)).valid = FALSE
      BY <2>2, <2>4, CastingGenerated
    <2>5. g[x].valid = FALSE =>
            /\ GenerateExpression(env, g, Sign(x)).valid = FALSE
            /\ GenerateExpression(env, g, Casting(x, u)).valid = FALSE
      BY UnaryInvalid
    <2>. HIDE DEF Fits
    <2>. QED
      BY <2>1, <2>3, <2>4, <2>5
  <1>. HIDE DEF Fits
  <1>19. /\ Supported(table, Sign(x)) /\ (\A e \in M : Supported(table, e)) <=> Good /\ t # "Double"
         /\ Supported(table, Casting(x, u)) /\ (\A e \in M : Supported(table, e)) <=> Good /\ Fits
    BY <1>4, <1>11, Zenon
  <1>17. ASSUME t # "Bool"
         PROVE  Accepted(table, env, Sign(x), t, j)
    <2>. DEFINE N == Sign(x)
                v == GenerateExpression(env, g, N)
    <2>1. /\ \A n \in j .. MaxNesting : Checks(table)[n][N] = Yes(t, N)
          /\ \A n \in j .. MaxNesting : Generates(env)[n][N] = v
          /\ \A n \in j .. MaxNesting : NodesWithin[n][N] = {N} \cup M
      BY <1>12, <1>13, <1>14, <1>17
    <2>2. N \in ExprAST[j] /\ Agrees(table, N)
      BY <1>9, <1>11
    <2>3. /\ Supported(table, N) /\ (\A e \in M : Supported(table, e)) => v = Value(GetFromType(t), TRUE)
          /\ ~ (Supported(table, N) /\ (\A e \in M : Supported(table, e))) => v.valid = FALSE
      BY <1>16, <1>19
    <2>4. t \in Type
      BY <1>1
    <2>. HIDE DEF N, v
    <2>5. Accepted(table, env, N, t, j)
      BY <1>3, <1>6, <2>1, <2>2, <2>3, <2>4, AcceptedNode
    <2>. QED
      BY <2>5 DEF N
  <1>18. Accepted(table, env, Casting(x, u), u, j)
    <2>. DEFINE N == Casting(x, u)
                v == GenerateExpression(env, g, N)
    <2>1. /\ \A n \in j .. MaxNesting : Checks(table)[n][N] = Yes(u, N)
          /\ \A n \in j .. MaxNesting : Generates(env)[n][N] = v
          /\ \A n \in j .. MaxNesting : NodesWithin[n][N] = {N} \cup M
      BY <1>12, <1>13, <1>14
    <2>2. N \in ExprAST[j] /\ Agrees(table, N)
      BY <1>9, <1>11
    <2>3. /\ Supported(table, N) /\ (\A e \in M : Supported(table, e)) => v = Value(GetFromType(u), TRUE)
          /\ ~ (Supported(table, N) /\ (\A e \in M : Supported(table, e))) => v.valid = FALSE
      BY <1>16, <1>19
    <2>4. u \in Type
      OBVIOUS
    <2>. HIDE DEF N, v
    <2>5. Accepted(table, env, N, u, j)
      BY <1>3, <1>6, <2>1, <2>2, <2>3, <2>4, AcceptedNode
    <2>. QED
      BY <2>5 DEF N
  <1>. QED
    BY <1>17, <1>18 DEF j

\* Around an operand that has the common type there is no cast.
LEMMA CastAccepted ==
  ASSUME NEW table, NEW env,
         NEW k \in 1 .. MaxNesting, k + 1 <= MaxNesting,
         NEW x, NEW t, t # "Void", Accepted(table, env, x, t, k), NEW u \in Type
  PROVE  Accepted(table, env, CastTo(u, Yes(t, x)), u, k + 1)
  <1>1. k + 1 \in k .. MaxNesting
    BY NestingBound DEF NestingBound
  <1>2. CastTo(u, Yes(t, x)) = IF u = t THEN x ELSE Casting(x, u)
    BY DEF CastTo, Yes
  <1>3. Accepted(table, env, x, t, k + 1)
    BY <1>1, AcceptedDeeper
  <1>4. Accepted(table, env, Casting(x, u), u, k + 1)
    BY UnaryAccepted
  <1>. QED
    BY <1>2, <1>3, <1>4

-----------------------------------------------------------------------------
(* Settled trees: as NewVisitor builds them, accepted with their casts or  *)
(* rejected once and for all.                                              *)

Settled(table, env, e, k) ==
  /\ k \in 1 .. MaxNesting /\ e \in ExprAST[k]
  /\ \A n \in k .. MaxNesting : Checks(table)[n][e] = Check(table, e)
  /\ \/ IsNo(Check(table, e))
     \/ \E x, t : Check(table, e) = Yes(t, x) /\ Accepted(table, env, x, t, k)

LEMMA SettledNode ==
  ASSUME NEW table, NEW env,
         NEW k \in 1 .. MaxNesting, NEW e \in ExprAST[k], NEW a,
         \A n \in k .. MaxNesting : Checks(table)[n][e] = a,
         IsNo(a) \/ \E x, t : a = Yes(t, x) /\ Accepted(table, env, x, t, k)
  PROVE  Settled(table, env, e, k)
  <1>1. MaxNesting \in k .. MaxNesting
    BY NestingBound DEF NestingBound
  <1>2. Check(table, e) = a
    BY <1>1 DEF Check
  <1>. QED
    BY <1>2 DEF Settled

LEMMA SettledDeeper ==
  ASSUME NEW table, NEW env,
         NEW e, NEW k, Settled(table, env, e, k), NEW j \in k .. MaxNesting
  PROVE  Settled(table, env, e, j)
  <1>1. k \in 1 .. MaxNesting /\ e \in ExprAST[k]
    BY DEF Settled
  <1>2. j \in 1 .. MaxNesting /\ k <= j /\ k \in 0 .. MaxNesting /\ j \in 0 .. MaxNesting
    BY <1>1, NestingBound DEF NestingBound
  <1>3. e \in ExprAST[j]
    BY <1>1, <1>2, TreesGrow
  <1>4. \A n \in j .. MaxNesting : n \in k .. MaxNesting
    BY <1>1, <1>2, NestingBound DEF NestingBound
  <1>5. \A x, t : Accepted(table, env, x, t, k) => Accepted(table, env, x, t, j)
    BY AcceptedDeeper
  <1>. QED
    BY <1>2, <1>3, <1>4, <1>5 DEF Settled

LEMMA PairSettled ==
  ASSUME NEW table, NEW env,
         NEW k \in 1 .. MaxNesting, k + 3 <= MaxNesting, NEW l, NEW r, Settled(table, env, l, k), Settled(table, env, r, k)
  PROVE  /\ Settled(table, env, Arith(l, r), k + 3)
         /\ Settled(table, env, Compare(l, r), k + 3)
         /\ Settled(table, env, Logical(l, r), k + 3)
  <1>. DEFINE j == k + 3
              a == Check(table, l)
              b == Check(table, r)
              d == Checks(table)[k]
  <1>1. /\ l \in ExprAST[k] /\ r \in ExprAST[k]
        /\ \A n \in k .. MaxNesting : Checks(table)[n][l] = a /\ Checks(table)[n][r] = b
        /\ IsNo(a) \/ \E x, t : a = Yes(t, x) /\ Accepted(table, env, x, t, k)
        /\ IsNo(b) \/ \E x, t : b = Yes(t, x) /\ Accepted(table, env, x, t, k)
    BY DEF Settled
  <1>2. /\ j \in 1 .. MaxNesting /\ j - 1 \in 0 .. MaxNesting /\ k <= j - 1 /\ k \in 0 .. MaxNesting
        /\ j \in 0 .. MaxNesting
        /\ k \in k .. MaxNesting
        /\ \A n \in j .. MaxNesting :
              /\ n \in 1 .. MaxNesting /\ n - 1 \in k .. MaxNesting
              /\ n - 1 \in (k + 1) + 1 .. MaxNesting
        /\ k + 1 \in 1 .. MaxNesting /\ k + 1 <= MaxNesting /\ (k + 1) + 1 <= MaxNesting
        /\ j \in (k + 1) + 1 .. MaxNesting
        /\ j \in k + 1 .. MaxNesting
    BY NestingBound DEF NestingBound
  <1>3. d[l] = a /\ d[r] = b
    BY <1>1, <1>2
  <1>4. /\ Arith(l, r) \in ExprAST[j] /\ Compare(l, r) \in ExprAST[j] /\ Logical(l, r) \in ExprAST[j]
        /\ Arith(l, r) \in Expr /\ Compare(l, r) \in Expr /\ Logical(l, r) \in Expr
    <2>1. l \in ExprAST[j - 1] /\ r \in ExprAST[j - 1]
      BY <1>1, <1>2, TreesGrow
    <2>. QED
      BY <1>2, <2>1, TreesAroundTrees, TreesAreExpr
  <1>5. ASSUME NEW n \in j .. MaxNesting
        PROVE  LET c == Checks(table)[n - 1]
               IN  /\ c[l] = a /\ c[r] = b
                   /\ Checks(table)[n][Arith(l, r)] = CheckExpression(table, c, Arith(l, r))
                   /\ Checks(table)[n][Compare(l, r)] = CheckExpression(table, c, Compare(l, r))
                   /\ Checks(table)[n][Logical(l, r)] = CheckExpression(table, c, Logical(l, r))
    BY <1>1, <1>2, <1>4, OneCall
  <1>. HIDE DEF a, b, d, j
  <1>6. ASSUME IsNo(a) \/ IsNo(b) \/ CanCoerce(a.type, b.type) = "Void"
        PROVE  Settled(table, env, Arith(l, r), j) /\ Settled(table, env, Compare(l, r), j)
    <2>1. /\ IsNo(CheckExpression(table, d, Arith(l, r)))
          /\ IsNo(CheckExpression(table, d, Compare(l, r)))
          /\ CheckExpression(table, d, Compare(l, r)) = No(CheckOperands(d, Compare(l, r)).expr)
      BY <1>3, <1>6, PairRejected
    <2>2. ASSUME NEW n \in j .. MaxNesting
          PROVE  /\ Checks(table)[n][Arith(l, r)] = CheckExpression(table, d, Arith(l, r))
                 /\ Checks(table)[n][Compare(l, r)] = CheckExpression(table, d, Compare(l, r))
      <3>. DEFINE c == Checks(table)[n - 1]
      <3>1. /\ c[l] = a /\ c[r] = b
            /\ Checks(table)[n][Arith(l, r)] = CheckExpression(table, c, Arith(l, r))
            /\ Checks(table)[n][Compare(l, r)] = CheckExpression(table, c, Compare(l, r))
        BY <1>5
      <3>. HIDE DEF c
      <3>2. CheckExpression(table, c, Arith(l, r)) = CheckExpression(table, d, Arith(l, r))
        BY <1>3, <3>1, SameAnswers
      <3>3. CheckExpression(table, c, Compare(l, r)) = No(CheckOperands(c, Compare(l, r)).expr)
        BY <1>6, <3>1, PairRejected
      <3>4. CheckOperands(c, Compare(l, r)) = CheckOperands(d, Compare(l, r))
        BY <1>3, <3>1, Operands DEF CheckOperands
      <3>. QED
        BY <2>1, <3>1, <3>2, <3>3, <3>4
    <2>3. Settled(table, env, Arith(l, r), j)
      BY <1>2, <1>4, <2>1, <2>2, SettledNode
    <2>4. Settled(table, env, Compare(l, r), j)
      BY <1>2, <1>4, <2>1, <2>2, SettledNode
    <2>. QED
      BY <2>3, <2>4
  <1>7. ASSUME ~ (IsNo(a) \/ IsNo(b) \/ CanCoerce(a.type, b.type) = "Void")
        PROVE  Settled(table, env, Arith(l, r), j) /\ Settled(table, env, Compare(l, r), j)
    <2>1. PICK x, t : a = Yes(t, x) /\ Accepted(table, env, x, t, k)
      BY <1>1, <1>7, Zenon
    <2>2. PICK y, u : b = Yes(u, y) /\ Accepted(table, env, y, u, k)
      BY <1>1, <1>7, Zenon
    <2>. DEFINE v == CanCoerce(t, u)
                X == CastTo(v, Yes(t, x))
                Y == CastTo(v, Yes(u, y))
    <2>3. t \in Type /\ u \in Type
      BY <2>1, <2>2, AcceptedTree, Zenon
    <2>4. a.type = t /\ b.type = u
      BY <2>1, <2>2 DEF Yes
    <2>5. v # "Void" /\ v \in Type /\ t # "Void" /\ u # "Void"
      BY <1>7, <2>3, <2>4, Coercions DEF RowOf
    <2>6. Accepted(table, env, X, v, k + 1) /\ Accepted(table, env, Y, v, k + 1)
      BY <1>2, <2>1, <2>2, <2>5, CastAccepted
    <2>7. Accepted(table, env, Arith(X, Y), v, (k + 1) + 1) /\ Accepted(table, env, Compare(X, Y), "Bool", (k + 1) + 1)
      <3>. HIDE DEF v, X, Y
      <3>. QED
        BY <1>2, <2>5, <2>6, PairAccepted
    <2>8. ASSUME NEW n \in j .. MaxNesting
          PROVE  /\ Checks(table)[n][Arith(l, r)] = Yes(v, Arith(X, Y))
                 /\ Checks(table)[n][Compare(l, r)] = Yes("Bool", Compare(X, Y))
      <3>. DEFINE c == Checks(table)[n - 1]
      <3>1. /\ c[l] = Yes(t, x) /\ c[r] = Yes(u, y)
            /\ Checks(table)[n][Arith(l, r)] = CheckExpression(table, c, Arith(l, r))
            /\ Checks(table)[n][Compare(l, r)] = CheckExpression(table, c, Compare(l, r))
        BY <1>5, <2>1, <2>2
      <3>2. c[Compare(X, Y)] = Yes("Bool", Compare(X, Y))
        <4>1. n - 1 \in (k + 1) + 1 .. MaxNesting
          BY <1>2
        <4>. HIDE DEF c, v, X, Y
        <4>. DEFINE i == (k + 1) + 1
                    z == Compare(X, Y)
        <4>2. Accepted(table, env, z, "Bool", i)
          BY <2>7
        <4>. HIDE DEF i, z
        <4>3. \A m \in i .. MaxNesting : Checks(table)[m][z] = Yes("Bool", z)
          <5>1. Known(table, env, z, "Bool", i)
            BY <4>2, AcceptedKnown
          <5>. QED
            BY <5>1 DEF Known
        <4>. QED
          BY <4>1, <4>3 DEF c, i, z
      <3>. HIDE DEF c
      <3>3. /\ CheckExpression(table, c, Arith(l, r)) = Yes(v, Arith(X, Y))
            /\ v = t /\ v = u => CheckExpression(table, c, Compare(l, r)) = Yes("Bool", Compare(X, Y))
            /\ v # t \/ v # u => CheckExpression(table, c, Compare(l, r)) = c[Compare(X, Y)]
        <4>1. X = CastTo(v, Yes(t, x)) /\ Y = CastTo(v, Yes(u, y)) /\ v = CanCoerce(t, u)
          OBVIOUS
        <4>. HIDE DEF v, X, Y
        <4>2. CheckExpression(table, c, Arith(l, r)) = Yes(v, Arith(X, Y))
          BY <2>3, <2>5, <3>1, <4>1, PairChecked
        <4>3. CheckExpression(table, c, Compare(l, r)) = Compared(c, v = t /\ v = u, Compare(X, Y))
          BY <2>3, <2>5, <3>1, <4>1, PairChecked
        <4>. QED
          BY <4>2, <4>3 DEF Compared
      <3>. HIDE DEF v, X, Y
      <3>. QED
        BY <3>1, <3>2, <3>3
    <2>9. Accepted(table, env, Arith(X, Y), v, j) /\ Accepted(table, env, Compare(X, Y), "Bool", j)
      <3>. HIDE DEF v, X, Y
      <3>. QED
        BY <1>2, <2>7, AcceptedDeeper
    <2>. HIDE DEF v, X, Y
    <2>10. Settled(table, env, Arith(l, r), j)
      <3>1. \E z, w : Yes(v, Arith(X, Y)) = Yes(w, z) /\ Accepted(table, env, z, w, j)
        BY <2>9, Zenon
      <3>. QED
        BY <1>2, <1>4, <2>8, <3>1, SettledNode
    <2>11. Settled(table, env, Compare(l, r), j)
      <3>1. \E z, w : Yes("Bool", Compare(X, Y)) = Yes(w, z) /\ Accepted(table, env, z, w, j)
        BY <2>9, Zenon
      <3>. QED
        BY <1>2, <1>4, <2>8, <3>1, SettledNode
    <2>. QED
      BY <2>10, <2>11
  <1>8. Settled(table, env, Logical(l, r), j)
    <2>. DEFINE answer == CheckExpression(table, d, Logical(l, r))
    <2>1. ASSUME NEW n \in j .. MaxNesting
          PROVE  Checks(table)[n][Logical(l, r)] = answer
      <3>. DEFINE c == Checks(table)[n - 1]
      <3>1. /\ c[l] = a /\ c[r] = b
            /\ Checks(table)[n][Logical(l, r)] = CheckExpression(table, c, Logical(l, r))
        BY <1>5
      <3>. HIDE DEF c
      <3>. QED
        BY <1>3, <3>1, SameAnswers
    <2>2. CASE IsNo(a) \/ IsNo(b) \/ a.type # "Bool" \/ b.type # "Bool"
      <3>1. IsNo(answer)
        BY <1>3, <2>2, LogicalChecked
      <3>. HIDE DEF answer
      <3>. QED
        BY <1>2, <1>4, <2>1, <3>1, SettledNode
    <2>3. CASE ~ (IsNo(a) \/ IsNo(b) \/ a.type # "Bool" \/ b.type # "Bool")
      <3>1. PICK x, t : a = Yes(t, x) /\ Accepted(table, env, x, t, k)
        BY <1>1, <2>3, Zenon
      <3>2. PICK y, u : b = Yes(u, y) /\ Accepted(table, env, y, u, k)
        BY <1>1, <2>3, Zenon
      <3>3. t = "Bool" /\ u = "Bool"
        BY <2>3, <3>1, <3>2 DEF Yes
      <3>4. answer = Yes("Bool", Logical(x, y))
        BY <1>3, <3>1, <3>2, <3>3, LogicalChecked
      <3>5. Accepted(table, env, Logical(x, y), "Bool", k + 1)
        BY <1>2, <3>1, <3>2, <3>3, PairAccepted
      <3>6. Accepted(table, env, Logical(x, y), "Bool", j)
        BY <1>2, <3>5, AcceptedDeeper
      <3>. HIDE DEF answer
      <3>. QED
        BY <1>2, <1>4, <2>1, <3>4, <3>6, SettledNode
    <2>. QED
      BY <2>2, <2>3
  <1>. QED
    BY <1>6, <1>7, <1>8 DEF j

\* Leaves: literals and variables.
LEMMA LeafAccepted ==
  ASSUME NEW table, NEW env,
         1 <= MaxNesting, NEW e \in ExprAST[0], Children(e) = {}, Agrees(table, e),
         NEW t \in Type, NEW v,
         \A c : CheckExpression(table, c, e) = Yes(t, e),
         \A g : GenerateExpression(env, g, e) = v,
         Supported(table, e) => v = Value(GetFromType(t), TRUE),
         ~Supported(table, e) => v.valid = FALSE
  PROVE  Accepted(table, env, e, t, 1)
  <1>1. 1 \in 1 .. MaxNesting /\ 1 \in 0 .. MaxNesting /\ 0 \in 0 .. MaxNesting
    BY NestingBound DEF NestingBound
  <1>2. e \in ExprAST[1] /\ e \in Expr
    BY <1>1, TreesGrow, TreesAreExpr
  <1>3. \A n \in 1 .. MaxNesting : Checks(table)[n][e] = Yes(t, e)
    BY <1>2, OneCall
  <1>4. \A n \in 1 .. MaxNesting : Generates(env)[n][e] = v
    BY <1>2, OneCall
  <1>5. \A n \in 1 .. MaxNesting : NodesWithin[n][e] = {e} \cup {}
    BY <1>2, NodesAround
  <1>. QED
    BY <1>1, <1>2, <1>3, <1>4, <1>5, AcceptedNode

LEMMA LeafSettled ==
  ASSUME NEW table, NEW env,
         1 <= MaxNesting, NEW e \in ExprAST[0], NEW a,
         \A c : CheckExpression(table, c, e) = a,
         \/ IsNo(a)
         \/ \E x, t : a = Yes(t, x) /\ Accepted(table, env, x, t, 1)
  PROVE  Settled(table, env, e, 1)
  <1>1. 1 \in 1 .. MaxNesting /\ 1 \in 0 .. MaxNesting /\ 0 \in 0 .. MaxNesting
    BY NestingBound DEF NestingBound
  <1>2. e \in ExprAST[1] /\ e \in Expr
    BY <1>1, TreesGrow, TreesAreExpr
  <1>3. \A n \in 1 .. MaxNesting : Checks(table)[n][e] = a
    BY <1>2, OneCall
  <1>. QED
    BY <1>1, <1>2, <1>3, SettledNode

LEMMA LiteralsSettled ==
  ASSUME NEW table, NEW env,
         1 <= MaxNesting, NEW e \in Literals
  PROVE  Settled(table, env, e, 1)
  <1>. DEFINE t == CASE e.op = "int" -> "Int" [] e.op = "float" -> "Float"
                     [] e.op = "double" -> "Double" [] OTHER -> "Bool"
              v == IF e.op = "bool" THEN NullValue ELSE Value(GetFromType(t), TRUE)
  <1>1. e \in ExprAST[0] /\ e = [op |-> e.op] /\ e.op \in {"int", "float", "double", "bool", "string"}
    BY LeavesAreTrees DEF Literals, IntLit, FloatLit, DoubleLit, BoolLit, StringLit
  <1>2. CASE e.op = "string"
    <2>1. \A c : CheckExpression(table, c, e) = No(e)
      BY <1>2 DEF CheckExpression
    <2>2. IsNo(No(e))
      BY DEF IsNo, No
    <2>. QED
      BY <1>1, <2>1, <2>2, LeafSettled
  <1>3. CASE e.op # "string"
    <2>1. \A c : CheckExpression(table, c, e) = Yes(t, e)
      BY <1>1, <1>3 DEF CheckExpression
    <2>2. \A g : GenerateExpression(env, g, e) = v
      BY <1>1, <1>3, IRTypes DEF GenerateExpression
    <2>3. t \in Type
      BY <1>1, <1>3 DEF Type
    <2>4. Agrees(table, e) /\ Children(e) = {}
      BY <1>1 DEF Agrees, Operators, Children
    <2>5. Supported(table, e) <=> e.op # "bool"
      BY <1>1 DEF Supported
    <2>6. NullValue.valid = FALSE
      BY DEF NullValue
    <2>. HIDE DEF t
    <2>7. /\ Supported(table, e) => v = Value(GetFromType(t), TRUE)
          /\ ~Supported(table, e) => v.valid = FALSE
      BY <2>5, <2>6
    <2>. HIDE DEF v
    <2>8. Accepted(table, env, e, t, 1)
      BY <1>1, <2>1, <2>2, <2>3, <2>4, <2>7, LeafAccepted
    <2>. QED
      BY <1>1, <2>1, <2>8, LeafSettled
  <1>. QED
    BY <1>2, <1>3

LEMMA VariablesSettled ==
  ASSUME NEW table, NEW env,
         1 <= MaxNesting, NEW variables, NEW callees,
         SameDeclarations(table, env, variables, callees), NEW name \in variables
  PROVE  Settled(table, env, Var(name), 1)
  <1>. DEFINE e == Var(name)
              t == FindVariable(table, name)
              v == GenerateVariable(env, e)
  <1>1. e \in ExprAST[0]
    BY LeavesAreTrees DEF SameDeclarations
  <1>2. e.op = "var" /\ e.name = name
    BY DEF Var
  <1>3. \A c : CheckExpression(table, c, e) = IF t = Null THEN No(e) ELSE Yes(t, e)
    BY <1>2 DEF CheckExpression, CheckVariable, Var
  <1>4. CASE t = Null
    <2>1. IsNo(No(e))
      BY DEF IsNo, No
    <2>. HIDE DEF e, t
    <2>. QED
      BY <1>1, <1>3, <1>4, <2>1, LeafSettled DEF e
  <1>5. CASE t # Null
    <2>1. /\ t \in Type
          /\ name \in DOMAIN env.named \cup DOMAIN env.allocas
          /\ GetFromType(t) = IF name \in DOMAIN env.named THEN env.named[name] ELSE env.allocas[name]
      BY <1>5 DEF SameDeclarations
    <2>2. v = Value(GetFromType(t), TRUE)
      BY <1>2, <2>1 DEF GenerateVariable
    <2>3. \A g : GenerateExpression(env, g, e) = v
      BY <1>2 DEF GenerateExpression, Var
    <2>4. Agrees(table, e) /\ Children(e) = {} /\ Supported(table, e)
      BY <1>2 DEF Agrees, Operators, Children, Supported, Var
    <2>. HIDE DEF e, t, v
    <2>5. \A c : CheckExpression(table, c, e) = Yes(t, e)
      BY <1>3, <1>5
    <2>6. Accepted(table, env, e, t, 1)
      BY <1>1, <2>1, <2>2, <2>3, <2>4, <2>5, LeafAccepted
    <2>. QED
      BY <1>1, <2>5, <2>6, LeafSettled DEF e
  <1>. QED
    BY <1>4, <1>5

LEMMA SignSettled ==
  ASSUME NEW table, NEW env,
         NEW k \in 1 .. MaxNesting, k + 3 <= MaxNesting, NEW l, Settled(table, env, l, k)
  PROVE  Settled(table, env, Sign(l), k + 3)
  <1>. DEFINE j == k + 3
              a == Check(table, l)
              d == Checks(table)[k]
              answer == CheckExpression(table, d, Sign(l))
  <1>1. /\ l \in ExprAST[k]
        /\ \A n \in k .. MaxNesting : Checks(table)[n][l] = a
        /\ IsNo(a) \/ \E x, t : a = Yes(t, x) /\ Accepted(table, env, x, t, k)
    BY DEF Settled
  <1>2. /\ j \in 1 .. MaxNesting /\ j - 1 \in 0 .. MaxNesting /\ k <= j - 1 /\ k \in 0 .. MaxNesting
        /\ j \in 0 .. MaxNesting
        /\ k \in k .. MaxNesting
        /\ \A n \in j .. MaxNesting : n \in 1 .. MaxNesting /\ n - 1 \in k .. MaxNesting
        /\ k + 1 <= MaxNesting
        /\ j \in k + 1 .. MaxNesting
    BY NestingBound DEF NestingBound
  <1>3. d[l] = a
    BY <1>1, <1>2
  <1>4. Sign(l) \in ExprAST[j] /\ Sign(l) \in Expr
    <2>1. l \in ExprAST[j - 1]
      BY <1>1, <1>2, TreesGrow
    <2>. QED
      BY <1>2, <2>1, TreesAroundTrees, TreesAreExpr
  <1>5. ASSUME NEW n \in j .. MaxNesting
        PROVE  Checks(table)[n][Sign(l)] = answer
    <2>. DEFINE c == Checks(table)[n - 1]
    <2>1. c[l] = a /\ Checks(table)[n][Sign(l)] = CheckExpression(table, c, Sign(l))
      BY <1>1, <1>2, <1>4, OneCall
    <2>. HIDE DEF c
    <2>. QED
      BY <1>3, <2>1, SameAnswers
  <1>. HIDE DEF a, d, j
  <1>6. CASE IsNo(a) \/ a.type \in {"Bool", "Void"}
    <2>1. IsNo(answer)
      BY <1>3, <1>6, SignRejected
    <2>. HIDE DEF answer
    <2>. QED
      BY <1>2, <1>4, <1>5, <2>1, SettledNode DEF j
  <1>7. CASE ~ (IsNo(a) \/ a.type \in {"Bool", "Void"})
    <2>1. PICK x, t : a = Yes(t, x) /\ Accepted(table, env, x, t, k)
      BY <1>1, <1>7, Zenon
    <2>2. t # "Bool" /\ t # "Void"
      BY <1>7, <2>1 DEF Yes
    <2>3. answer = Yes(t, Sign(x))
      BY <1>3, <2>1, <2>2, UnaryChecked
    <2>4. \A u \in Type : Accepted(table, env, Sign(x), t, k + 1)
      BY <1>2, <2>1, <2>2, UnaryAccepted
    <2>5. "Bool" \in Type
      BY DEF Type
    <2>6. Accepted(table, env, Sign(x), t, j)
      BY <1>2, <2>4, <2>5, AcceptedDeeper
    <2>. HIDE DEF answer
    <2>. QED
      BY <1>2, <1>4, <1>5, <2>3, <2>6, SettledNode DEF j
  <1>. QED
    BY <1>6, <1>7

\* Calls: the callee is declared with as many parameters as there are arguments,
\* or the call is rejected.
LEMMA CallOf ==
  ASSUME NEW name, NEW args
  PROVE  /\ CallTo(name, args).op = "call" /\ CallTo(name, args).callee = name
         /\ CallTo(name, args).args = args
         /\ Children(CallTo(name, args)) = Range(args)
  <1>1. /\ CallTo(name, args).op = "call" /\ CallTo(name, args).callee = name
        /\ CallTo(name, args).args = args
    BY DEF CallTo
  <1>. HIDE DEF CallTo
  <1>. QED
    BY <1>1 DEF Children

SameOn(c, d, xs) == \A i \in DOMAIN xs : c[xs[i]] = d[xs[i]]

LEMMA SameChecks ==
  ASSUME NEW table, NEW c, NEW d, NEW name, NEW xs, SameOn(c, d, xs)
  PROVE  CheckExpression(table, c, CallTo(name, xs)) = CheckExpression(table, d, CallTo(name, xs))
  <1>. DEFINE e == CallTo(name, xs)
  <1>1. e.op = "call" /\ e.args = xs
    BY CallOf
  <1>. HIDE DEF e
  <1>3. [i \in DOMAIN e.args |-> c[e.args[i]]] = [i \in DOMAIN e.args |-> d[e.args[i]]]
    BY <1>1 DEF SameOn
  <1>4. ASSUME NEW f
        PROVE  CheckArgs(c, e, f) = CheckArgs(d, e, f)
    <2>. DEFINE Fits(args, i) == args[i].ok /\ CanCoerce(args[i].type, f.args[i].type) # "Void"
                made(args) == [op |-> "call", callee |-> e.callee, args |-> [i \in DOMAIN args |->
                                 IF \A j \in 1 .. i - 1 : Fits(args, j) THEN args[i].expr ELSE e.args[i]]]
                Answer(args) == IF \A i \in DOMAIN args : Fits(args, i)
                                THEN Yes(f.ret, made(args)) ELSE No(made(args))
    <2>1. /\ CheckArgs(c, e, f) = Answer([i \in DOMAIN e.args |-> c[e.args[i]]])
          /\ CheckArgs(d, e, f) = Answer([i \in DOMAIN e.args |-> d[e.args[i]]])
      BY DEF CheckArgs
    <2>. HIDE DEF Answer
    <2>. QED
      BY <1>3, <2>1
  <1>5. CheckCall(table, c, e) = CheckCall(table, d, e)
    BY <1>4, Zenon DEF CheckCall
  <1>6. /\ CheckExpression(table, c, e) = CheckCall(table, c, e)
        /\ CheckExpression(table, d, e) = CheckCall(table, d, e)
    BY <1>1 DEF CheckExpression
  <1>. QED
    BY <1>5, <1>6 DEF e

LEMMA SameCalls ==
  ASSUME NEW env, NEW c, NEW d, NEW name, NEW xs, SameOn(c, d, xs)
  PROVE  GenerateExpression(env, c, CallTo(name, xs)) = GenerateExpression(env, d, CallTo(name, xs))
  <1>. DEFINE e == CallTo(name, xs)
  <1>1. e.op = "call" /\ e.args = xs
    BY CallOf
  <1>. HIDE DEF e
  <1>3. [i \in DOMAIN e.args |-> c[e.args[i]]] = [i \in DOMAIN e.args |-> d[e.args[i]]]
    BY <1>1 DEF SameOn
  <1>4. GenerateCall(env, c, e) = GenerateCall(env, d, e)
    <2>. DEFINE f == env.functions[e.callee]
                Stop(args) == SelectInSeq(args, LAMBDA a : a.outcome # "value")
                Answer(args) ==
                  IF e.callee \notin DOMAIN env.functions THEN NullValue
                  ELSE IF Len(e.args) # Len(f.args) THEN NullValue
                  ELSE IF Stop(args) # 0 THEN args[Stop(args)]
                  ELSE Value(f.ret, \A i \in DOMAIN args : args[i].valid /\ args[i].ir = f.args[i])
    <2>1. /\ GenerateCall(env, c, e) = Answer([i \in DOMAIN e.args |-> c[e.args[i]]])
          /\ GenerateCall(env, d, e) = Answer([i \in DOMAIN e.args |-> d[e.args[i]]])
      BY DEF GenerateCall, SelectInSeq
    <2>. HIDE DEF Answer
    <2>. QED
      BY <1>3, <2>1
  <1>5. /\ GenerateExpression(env, c, e) = GenerateCall(env, c, e)
        /\ GenerateExpression(env, d, e) = GenerateCall(env, d, e)
    BY <1>1 DEF GenerateExpression
  <1>. QED
    BY <1>4, <1>5 DEF e

\* An argument is accepted and coerces to its parameter.
Passes(answer, type) == answer.ok /\ CanCoerce(answer.type, type) # "Void"

AllPass(c, xs, f) == \A i \in DOMAIN xs : Passes(c[xs[i]], f.args[i].type)
RewrittenArgs(c, xs) == [i \in DOMAIN xs |-> c[xs[i]].expr]

LEMMA CallChecked ==
  ASSUME NEW table, NEW c, NEW name, NEW E, NEW xs \in Seq(E),
         NEW f, f = FindFunction(table, name), f # Null, Len(xs) = Len(f.args)
  PROVE  /\ AllPass(c, xs, f) =>
              CheckExpression(table, c, CallTo(name, xs)) = Yes(f.ret, CallTo(name, RewrittenArgs(c, xs)))
         /\ ~ AllPass(c, xs, f) => IsNo(CheckExpression(table, c, CallTo(name, xs)))
  <1>. DEFINE e == CallTo(name, xs)
              args == [i \in DOMAIN e.args |-> c[e.args[i]]]
              Fits(i) == args[i].ok /\ CanCoerce(args[i].type, f.args[i].type) # "Void"
              made == [i \in DOMAIN args |->
                         IF \A j \in 1 .. i - 1 : Fits(j) THEN args[i].expr ELSE e.args[i]]
              node == [op |-> "call", callee |-> e.callee, args |-> made]
  <1>1. e.op = "call" /\ e.args = xs /\ e.callee = name
    BY CallOf
  <1>2. DOMAIN args = DOMAIN xs /\ \A i \in DOMAIN xs : args[i] = c[xs[i]]
    BY <1>1
  <1>. HIDE DEF e
  <1>4. CheckExpression(table, c, e) = CheckCall(table, c, e)
    BY <1>1 DEF CheckExpression
  <1>5. CheckCall(table, c, e) = CheckArgs(c, e, f)
    BY <1>1 DEF CheckCall
  <1>6. CheckArgs(c, e, f) = IF \A i \in DOMAIN args : Fits(i) THEN Yes(f.ret, node) ELSE No(node)
    BY Zenon DEF CheckArgs
  <1>. HIDE DEF args
  <1>7. (\A i \in DOMAIN args : Fits(i)) <=> AllPass(c, xs, f)
    BY <1>2 DEF Passes, AllPass
  <1>8. ASSUME \A i \in DOMAIN args : Fits(i)
        PROVE  node = CallTo(name, RewrittenArgs(c, xs))
    <2>1. \A i \in DOMAIN args : \A j \in 1 .. i - 1 : j \in DOMAIN args
      BY <1>2
    <2>2. \A i \in DOMAIN args : \A j \in 1 .. i - 1 : Fits(j)
      BY <1>8, <2>1
    <2>. HIDE DEF Fits
    <2>3. made = RewrittenArgs(c, xs)
      BY <1>2, <2>2 DEF RewrittenArgs
    <2>. QED
      BY <1>1, <2>3 DEF CallTo
  <1>. HIDE DEF made, node, Fits
  <1>9. IsNo(No(node))
    BY DEF IsNo, No
  <1>10. CheckExpression(table, c, CallTo(name, xs))
           = IF \A i \in DOMAIN args : Fits(i) THEN Yes(f.ret, node) ELSE No(node)
    BY <1>4, <1>5, <1>6 DEF e
  <1>. QED
    BY <1>7, <1>8, <1>9, <1>10

LEMMA CallRejected ==
  ASSUME NEW table, NEW c, NEW name, NEW xs,
         NEW f, f = FindFunction(table, name), f = Null \/ Len(xs) # Len(f.args)
  PROVE  CheckExpression(table, c, CallTo(name, xs)) = No(CallTo(name, xs))
  <1>. DEFINE e == CallTo(name, xs)
  <1>1. e.op = "call" /\ e.args = xs /\ e.callee = name
    BY CallOf
  <1>. HIDE DEF e
  <1>3. CheckExpression(table, c, e) = CheckCall(table, c, e)
    BY <1>1 DEF CheckExpression
  <1>4. CheckCall(table, c, e) = No(e)
    BY <1>1 DEF CheckCall
  <1>. QED
    BY <1>3, <1>4 DEF e

\* The first of the arguments that is no value, if there is one.
LEMMA FirstStop ==
  ASSUME NEW vs, Len(vs) \in Nat, DOMAIN vs = 1 .. Len(vs)
  PROVE  LET stop == SelectInSeq(vs, LAMBDA a : a.outcome # "value")
         IN  IF \A i \in DOMAIN vs : vs[i].outcome = "value" THEN stop = 0
             ELSE stop \in DOMAIN vs /\ stop # 0 /\ vs[stop].outcome # "value"
  <1>. DEFINE I == {i \in 1 .. Len(vs) : vs[i].outcome # "value"}
              stop == SelectInSeq(vs, LAMBDA a : a.outcome # "value")
  <1>1. stop = IF I # {} THEN Min(I) ELSE 0
    BY DEF SelectInSeq
  <1>2. DOMAIN vs = 1 .. Len(vs) /\ I \in SUBSET Nat
    OBVIOUS
  <1>3. ASSUME I # {}
        PROVE  Min(I) \in I
    <2>1. \E x \in I : \A y \in I : x <= y
      BY <1>2, <1>3, LeastNatural
    <2>. QED
      BY <2>1 DEF Min
  <1>. HIDE DEF stop
  <1>. QED
    BY <1>1, <1>2, <1>3 DEF stop

\* A call is valid if its arguments are and have the parameters' LLVM types, and
\* otherwise it is not.  `good' are the arguments that are known to be valid.
ArgumentsFit(xs, ts, f, good) ==
  good = DOMAIN xs /\ \A i \in DOMAIN xs : SameBits(ts[i], f.args[i].type)

ArgumentValues(g, xs, ts, f, good) ==
  /\ Len(xs) \in Nat /\ DOMAIN xs = 1 .. Len(xs) /\ Len(xs) = Len(f.args)
  /\ good \in SUBSET DOMAIN xs /\ \A i \in DOMAIN xs : ts[i] \in Type
  /\ \A i \in good : g[xs[i]] = Value(GetFromType(ts[i]), TRUE)
  /\ \A i \in DOMAIN xs \ good : g[xs[i]].valid = FALSE

LEMMA CallGenerated ==
  ASSUME NEW table, NEW env, NEW variables, NEW callees,
         SameDeclarations(table, env, variables, callees), NEW name \in callees,
         NEW xs, NEW ts, NEW f, NEW g, NEW good,
         f = FindFunction(table, name), f # Null, ArgumentValues(g, xs, ts, f, good)
  PROVE  /\ ArgumentsFit(xs, ts, f, good) => Gives(GenerateExpression(env, g, CallTo(name, xs)), f.ret)
         /\ ~ArgumentsFit(xs, ts, f, good) =>
              GenerateExpression(env, g, CallTo(name, xs)).valid = FALSE
  <1>. DEFINE e == CallTo(name, xs)
              h == env.functions[name]
              argsV == [i \in DOMAIN e.args |-> g[e.args[i]]]
              stop == SelectInSeq(argsV, LAMBDA a : a.outcome # "value")
              fits == good = DOMAIN xs /\ \A i \in DOMAIN xs : SameBits(ts[i], f.args[i].type)
  <1>1. e.op = "call" /\ e.args = xs /\ e.callee = name
    BY CallOf
  <1>0. /\ Len(xs) \in Nat /\ DOMAIN xs = 1 .. Len(xs) /\ Len(xs) = Len(f.args)
        /\ good \in SUBSET DOMAIN xs /\ \A i \in DOMAIN xs : ts[i] \in Type
    BY DEF ArgumentValues
  <1>2. /\ f.ret \in Type /\ Len(f.args) \in Nat /\ DOMAIN f.args = 1 .. Len(f.args)
        /\ \A i \in DOMAIN f.args : f.args[i].type \in Type
        /\ name \in DOMAIN env.functions
        /\ h = [ret |-> GetFromType(f.ret),
                args |-> [i \in DOMAIN f.args |-> GetFromType(f.args[i].type)]]
    BY DEF SameDeclarations
  <1>3. DOMAIN xs = 1 .. Len(xs) /\ Len(xs) \in Nat /\ DOMAIN xs = DOMAIN f.args
    BY <1>0, <1>2
  <1>4. /\ h.ret = GetFromType(f.ret)
        /\ DOMAIN h.args = DOMAIN xs /\ Len(h.args) = Len(xs)
        /\ \A i \in DOMAIN xs : h.args[i] = GetFromType(f.args[i].type)
    <2>. DEFINE irs == [i \in 1 .. Len(xs) |-> GetFromType(f.args[i].type)]
    <2>1. h.ret = GetFromType(f.ret) /\ h.args = irs
      BY <1>2, <1>3
    <2>2. DOMAIN irs = 1 .. Len(xs) /\ Len(irs) = Len(xs)
      BY <1>3
    <2>. QED
      BY <1>3, <2>1, <2>2
  <1>5. /\ DOMAIN argsV = DOMAIN xs /\ Len(argsV) = Len(xs)
        /\ \A i \in DOMAIN xs : argsV[i] = g[xs[i]]
    <2>. DEFINE vs == [i \in 1 .. Len(xs) |-> g[xs[i]]]
    <2>1. argsV = vs
      BY <1>1, <1>3
    <2>2. DOMAIN vs = 1 .. Len(xs) /\ Len(vs) = Len(xs)
      BY <1>3
    <2>. QED
      BY <1>3, <2>1, <2>2
  <1>6. Len(e.args) = Len(h.args)
    BY <1>1, <1>4
  <1>. HIDE DEF e, h, argsV
  <1>7. GenerateExpression(env, g, e) = GenerateCall(env, g, e)
    BY <1>1 DEF GenerateExpression
  <1>. DEFINE ok == \A i \in DOMAIN argsV : argsV[i].valid /\ argsV[i].ir = h.args[i]
  <1>8. GenerateCall(env, g, e) = IF stop # 0 THEN argsV[stop] ELSE Value(h.ret, ok)
    <2>. DEFINE Answer(k) ==
                  IF Len(e.args) # Len(k.args) THEN NullValue
                  ELSE IF stop # 0 THEN argsV[stop]
                  ELSE Value(k.ret, \A i \in DOMAIN argsV : argsV[i].valid /\ argsV[i].ir = k.args[i])
    <2>1. e.callee \in DOMAIN env.functions /\ env.functions[e.callee] = h
      BY <1>1, <1>2 DEF h
    <2>2. GenerateCall(env, g, e)
            = IF e.callee \notin DOMAIN env.functions THEN NullValue ELSE Answer(env.functions[e.callee])
      BY DEF GenerateCall, argsV, SelectInSeq
    <2>3. Answer(h) = IF Len(e.args) # Len(h.args) THEN NullValue
                      ELSE IF stop # 0 THEN argsV[stop] ELSE Value(h.ret, ok)
      OBVIOUS
    <2>. HIDE DEF stop, ok, Answer
    <2>. QED
      BY <1>6, <2>1, <2>2, <2>3
  <1>9. IF \A i \in DOMAIN argsV : argsV[i].outcome = "value" THEN stop = 0
        ELSE stop \in DOMAIN argsV /\ stop # 0 /\ argsV[stop].outcome # "value"
    BY <1>3, <1>5, FirstStop
  <1>10. /\ \A i \in good : /\ argsV[i].outcome = "value" /\ argsV[i].valid = TRUE
                            /\ argsV[i].ir = GetFromType(ts[i])
         /\ \A i \in DOMAIN xs \ good : argsV[i].valid = FALSE
    <2>1. ASSUME NEW i \in good
          PROVE  argsV[i].outcome = "value" /\ argsV[i].valid = TRUE /\ argsV[i].ir = GetFromType(ts[i])
      <3>1. argsV[i] = Value(GetFromType(ts[i]), TRUE)
        BY <1>0, <1>5 DEF ArgumentValues
      <3>. QED
        BY <3>1 DEF Value
    <2>2. ASSUME NEW i \in DOMAIN xs \ good
          PROVE  argsV[i].valid = FALSE
      BY <1>0, <1>5 DEF ArgumentValues
    <2>. QED
      BY <2>1, <2>2
  <1>11. \A i \in DOMAIN xs : GetFromType(ts[i]) = GetFromType(f.args[i].type) <=> SameBits(ts[i], f.args[i].type)
    BY <1>0, <1>2, <1>3, IRDiffers
  <1>12. ok \in BOOLEAN
    OBVIOUS
  <1>. HIDE DEF stop
  <1>13. (fits => ok = TRUE) /\ (~fits => ok = FALSE)
    <2>1. ASSUME fits PROVE ok
      BY <1>4, <1>5, <1>10, <1>11, <2>1
    <2>2. ASSUME ok PROVE fits
      <3>1. \A i \in DOMAIN xs : i \in good
        BY <1>5, <1>10, <2>2
      <3>2. \A i \in DOMAIN xs : SameBits(ts[i], f.args[i].type)
        BY <1>4, <1>5, <1>10, <1>11, <2>2, <3>1
      <3>. QED
        BY <1>0, <3>1, <3>2
    <2>. HIDE DEF ok, fits
    <2>. QED
      BY <1>12, <2>1, <2>2
  <1>14. fits => stop = 0
    BY <1>5, <1>9, <1>10
  <1>15. stop # 0 => argsV[stop].valid = FALSE
    BY <1>5, <1>9, <1>10
  <1>16. \A ir : Value(ir, FALSE).valid = FALSE
    BY DEF Value
  <1>. HIDE DEF ok, fits
  <1>. QED
    BY <1>4, <1>7, <1>8, <1>13, <1>14, <1>15, <1>16 DEF e, fits, ArgumentsFit, Gives

LEMMA CallAccepted ==
  ASSUME NEW table, NEW env, NEW variables, NEW callees,
         SameDeclarations(table, env, variables, callees), NEW name \in callees,
         NEW k \in 1 .. MaxNesting, k + 1 <= MaxNesting,
         NEW xs \in Seq(ExprAST[k]), NEW ts,
         \A i \in DOMAIN xs : Accepted(table, env, xs[i], ts[i], k),
         NEW f, f = FindFunction(table, name), f # Null, Len(xs) = Len(f.args),
         \A i \in DOMAIN xs : CanCoerce(ts[i], f.args[i].type) # "Void"
  PROVE  Accepted(table, env, CallTo(name, xs), f.ret, k + 1)
  <1>. DEFINE j == k + 1
              e == CallTo(name, xs)
              M == UNION { Nodes(y) : y \in Range(xs) }
              g == Generates(env)[k]
              v == GenerateExpression(env, g, e)
              good == {i \in DOMAIN xs : AllSupported(table, xs[i])}
              types == [i \in DOMAIN xs |-> ts[i]]
              Fits == ArgumentsFit(xs, types, f, good)
  <1>0. \A i \in DOMAIN xs : Known(table, env, xs[i], ts[i], k)
    BY AcceptedKnown
  <1>1. \A i \in DOMAIN xs :
          /\ ts[i] \in Type
          /\ \A n \in k .. MaxNesting : Checks(table)[n][xs[i]] = Yes(ts[i], xs[i])
          /\ \A n \in k .. MaxNesting : Generates(env)[n][xs[i]] = Generate(env, xs[i])
          /\ \A n \in k .. MaxNesting : NodesWithin[n][xs[i]] = Nodes(xs[i])
          /\ TypeOf(table, xs[i]) = ts[i]
          /\ \A y \in Nodes(xs[i]) : Agrees(table, y)
    BY <1>0 DEF Known
  <1>2. \A y \in M : Agrees(table, y)
    BY <1>1 DEF Range
  <1>3. (\A y \in M : Supported(table, y)) <=> good = DOMAIN xs
    <2>1. (\A y \in M : Supported(table, y)) <=> \A i \in DOMAIN xs : AllSupported(table, xs[i])
      BY DEF AllSupported, Range
    <2>. QED
      BY <2>1
  <1>4. \A i \in DOMAIN xs :
          /\ AllSupported(table, xs[i]) => Generate(env, xs[i]) = Value(GetFromType(ts[i]), TRUE)
          /\ ~AllSupported(table, xs[i]) => Generate(env, xs[i]).valid = FALSE
    BY <1>0 DEF Known
  <1>5. /\ j \in 1 .. MaxNesting /\ j - 1 = k /\ k \in k .. MaxNesting
        /\ \A n \in j .. MaxNesting :
              n \in 1 .. MaxNesting /\ n - 1 \in k .. MaxNesting
    BY NextLevel
  <1>6. \A i \in DOMAIN xs : g[xs[i]] = Generate(env, xs[i])
    BY <1>1, <1>5
  <1>7. f.ret \in Type
    BY DEF SameDeclarations
  <1>8. e \in ExprAST[j] /\ e \in Expr
    <2>1. xs \in Seq(ExprAST[j - 1]) /\ name \in STRING /\ j \in 0 .. MaxNesting
      BY <1>5, NestingBound DEF NestingBound, SameDeclarations
    <2>2. e \in ExprAST[j]
      BY <1>5, <2>1, CallsAroundTrees
    <2>. QED
      BY <2>1, <2>2, TreesAreExpr
  <1>9. e.op = "call" /\ e.callee = name /\ e.args = xs /\ Children(e) = Range(xs)
    BY CallOf
  <1>. HIDE DEF e
  <1>10. Agrees(table, e) /\ (Supported(table, e) <=> \A i \in DOMAIN xs : SameBits(types[i], f.args[i].type))
    <2>1. Agrees(table, e)
      BY <1>9 DEF Agrees, Operators
    <2>2. Supported(table, e) <=>
             \A i \in DOMAIN xs : SameBits(TypeOf(table, xs[i]), FindFunction(table, name).args[i].type)
      BY <1>9 DEF Supported
    <2>. QED
      BY <1>1, <2>1, <2>2
  <1>11. ASSUME NEW n \in j .. MaxNesting
         PROVE  /\ Checks(table)[n][e] = Yes(f.ret, e)
                /\ Generates(env)[n][e] = v
                /\ NodesWithin[n][e] = {e} \cup M
    <2>. DEFINE c == Checks(table)[n - 1]
                d == Generates(env)[n - 1]
    <2>1. n \in 1 .. MaxNesting
      BY <1>5
    <2>2. \A i \in DOMAIN xs : c[xs[i]] = Yes(ts[i], xs[i]) /\ d[xs[i]] = g[xs[i]]
      BY <1>1, <1>5
    <2>3. /\ Checks(table)[n][e] = CheckExpression(table, c, e)
          /\ Generates(env)[n][e] = GenerateExpression(env, d, e)
      BY <1>8, <2>1, OneCall
    <2>4. NodesWithin[n][e] = {e} \cup M
      <3>1. \A y \in Range(xs) : NodesWithin[n - 1][y] = Nodes(y)
        BY <1>1, <1>5 DEF Range
      <3>2. NodesWithin[n][e] = {e} \cup UNION { NodesWithin[n - 1][y] : y \in Range(xs) }
        BY <1>8, <1>9, <2>1, OneStep
      <3>. QED
        BY <3>1, <3>2
    <2>. HIDE DEF c, d, g
    <2>5. CheckExpression(table, c, CallTo(name, xs)) = Yes(f.ret, CallTo(name, xs))
      <3>0. ASSUME NEW i \in DOMAIN xs
            PROVE  c[xs[i]].ok = TRUE /\ c[xs[i]].type = ts[i] /\ c[xs[i]].expr = xs[i]
        <4>1. c[xs[i]] = Yes(ts[i], xs[i])
          BY <2>2
        <4>. QED
          BY <4>1 DEF Yes
      <3>1. AllPass(c, xs, f)
        BY <3>0 DEF Passes, AllPass
      <3>2. RewrittenArgs(c, xs) = xs
        <4>1. xs = [i \in DOMAIN xs |-> xs[i]]
          OBVIOUS
        <4>2. [i \in DOMAIN xs |-> c[xs[i]].expr] = [i \in DOMAIN xs |-> xs[i]]
          BY <3>0
        <4>. QED
          BY <4>1, <4>2, Zenon DEF RewrittenArgs
      <3>. QED
        BY <3>1, <3>2, CallChecked
    <2>6. GenerateExpression(env, d, CallTo(name, xs)) = GenerateExpression(env, g, CallTo(name, xs))
      <3>1. SameOn(d, g, xs)
        BY <2>2 DEF SameOn
      <3>. QED
        BY <3>1, SameCalls
    <2>. QED
      BY <2>3, <2>4, <2>5, <2>6 DEF e
  <1>12. Supported(table, e) /\ (\A y \in M : Supported(table, y)) <=> Fits
    BY <1>3, <1>10 DEF ArgumentsFit
  <1>13. (Fits => v = Value(GetFromType(f.ret), TRUE)) /\ (~Fits => v.valid = FALSE)
    <2>1. types \in [DOMAIN xs -> Type] /\ good \in SUBSET DOMAIN xs
      BY <1>1
    <2>2. ArgumentValues(g, xs, types, f, good)
      <3>1. Len(xs) \in Nat /\ DOMAIN xs = 1 .. Len(xs) /\ Len(xs) = Len(f.args)
        OBVIOUS
      <3>2. /\ \A i \in good : g[xs[i]] = Value(GetFromType(types[i]), TRUE)
            /\ \A i \in DOMAIN xs \ good : g[xs[i]].valid = FALSE
        BY <1>4, <1>6
      <3>. HIDE DEF types, good, g
      <3>. QED
        BY <2>1, <3>1, <3>2 DEF ArgumentValues
    <2>. HIDE DEF types, good, g
    <2>3. /\ Fits => Gives(GenerateExpression(env, g, CallTo(name, xs)), f.ret)
          /\ ~Fits => GenerateExpression(env, g, CallTo(name, xs)).valid = FALSE
      BY <2>1, <2>2, CallGenerated
    <2>. QED
      BY <2>3 DEF e, Gives
  <1>. HIDE DEF M, j, Fits, v
  <1>14. Accepted(table, env, e, f.ret, j)
    BY <1>2, <1>5, <1>7, <1>8, <1>10, <1>11, <1>12, <1>13, AcceptedNode
  <1>. QED
    BY <1>14 DEF e, j

LEMMA CallSettled ==
  ASSUME NEW table, NEW env, NEW variables, NEW callees,
         SameDeclarations(table, env, variables, callees), NEW name \in callees,
         NEW k \in 1 .. MaxNesting, k + 3 <= MaxNesting,
         NEW E, NEW ls \in Seq(E), \A i \in DOMAIN ls : Settled(table, env, ls[i], k)
  PROVE  Settled(table, env, CallTo(name, ls), k + 3)
  <1>. DEFINE j == k + 3
              e == CallTo(name, ls)
              a(i) == Check(table, ls[i])
              d == Checks(table)[k]
              f == FindFunction(table, name)
              answer == CheckExpression(table, d, e)
              xs == [i \in DOMAIN ls |-> a(i).expr]
              ts == [i \in DOMAIN ls |-> a(i).type]
  <1>1. \A i \in DOMAIN ls :
          /\ ls[i] \in ExprAST[k]
          /\ \A n \in k .. MaxNesting : Checks(table)[n][ls[i]] = a(i)
          /\ IsNo(a(i)) \/ \E x, t : a(i) = Yes(t, x) /\ Accepted(table, env, x, t, k)
    BY DEF Settled
  <1>2. /\ j \in 1 .. MaxNesting /\ j - 1 \in 0 .. MaxNesting /\ k <= j - 1 /\ k \in 0 .. MaxNesting
        /\ j \in 0 .. MaxNesting
        /\ k \in k .. MaxNesting
        /\ \A n \in j .. MaxNesting : n \in 1 .. MaxNesting /\ n - 1 \in k .. MaxNesting
        /\ k + 1 \in 1 .. MaxNesting /\ k + 1 <= MaxNesting
        /\ j \in k + 1 .. MaxNesting
    BY NestingBound DEF NestingBound
  <1>3. \A i \in DOMAIN ls : d[ls[i]] = a(i)
    BY <1>1, <1>2
  <1>4. e \in ExprAST[j] /\ e \in Expr
    <2>1. \A i \in DOMAIN ls : ls[i] \in ExprAST[j - 1]
      BY <1>1, <1>2, TreesGrow
    <2>2. ls \in Seq(ExprAST[j - 1])
      BY <2>1
    <2>3. e \in ExprAST[j]
      BY <1>2, <2>2, CallsAroundTrees DEF SameDeclarations
    <2>. QED
      BY <1>2, <2>3, TreesAreExpr
  <1>5. ASSUME NEW n \in j .. MaxNesting
        PROVE  Checks(table)[n][e] = answer
    <2>. DEFINE c == Checks(table)[n - 1]
    <2>1. \A i \in DOMAIN ls : c[ls[i]] = a(i)
      BY <1>1, <1>2
    <2>2. Checks(table)[n][e] = CheckExpression(table, c, e)
      BY <1>2, <1>4, OneCall
    <2>3. SameOn(c, d, ls)
      BY <1>3, <2>1 DEF SameOn
    <2>. HIDE DEF c, d
    <2>4. CheckExpression(table, c, CallTo(name, ls)) = CheckExpression(table, d, CallTo(name, ls))
      BY <2>3, SameChecks
    <2>. QED
      BY <2>2, <2>4
  <1>6. f = FindFunction(table, name)
    OBVIOUS
  <1>. DEFINE Pass == \A i \in DOMAIN ls : Passes(a(i), f.args[i].type)
  <1>7. Pass <=> AllPass(d, ls, f)
    BY <1>3 DEF AllPass
  <1>8. RewrittenArgs(d, ls) = xs
    BY <1>3 DEF RewrittenArgs
  <1>. HIDE DEF d, j, f
  <1>9. CASE f = Null \/ Len(ls) # Len(f.args)
    <2>1. answer = No(e)
      BY <1>6, <1>9, CallRejected
    <2>2. IsNo(answer)
      BY <2>1 DEF IsNo, No
    <2>. HIDE DEF answer, e
    <2>. QED
      BY <1>2, <1>4, <1>5, <2>2, SettledNode DEF j, e
  <1>10. CASE f # Null /\ Len(ls) = Len(f.args) /\ ~ Pass
    <2>1. IsNo(answer)
      BY <1>6, <1>7, <1>10, CallChecked
    <2>. HIDE DEF answer, e
    <2>. QED
      BY <1>2, <1>4, <1>5, <2>1, SettledNode DEF j, e
  <1>11. CASE f # Null /\ Len(ls) = Len(f.args) /\ Pass
    <2>1. ASSUME NEW i \in DOMAIN ls
          PROVE  /\ Accepted(table, env, xs[i], ts[i], k)
                 /\ CanCoerce(ts[i], f.args[i].type) # "Void"
                 /\ xs[i] \in ExprAST[k]
      <3>1. a(i).ok /\ CanCoerce(a(i).type, f.args[i].type) # "Void"
        BY <1>11 DEF Passes
      <3>2. ~ IsNo(a(i))
        BY <3>1 DEF IsNo, No
      <3>. HIDE DEF a
      <3>3. PICK x, t : a(i) = Yes(t, x) /\ Accepted(table, env, x, t, k)
        BY <1>1, <3>2, Zenon
      <3>4. a(i).type = t /\ a(i).expr = x
        BY <3>3 DEF Yes
      <3>5. x \in ExprAST[k]
        BY <3>3, AcceptedTree, Zenon
      <3>. QED
        BY <3>1, <3>3, <3>4, <3>5
    <2>2. answer = Yes(f.ret, CallTo(name, xs))
      BY <1>6, <1>7, <1>8, <1>11, CallChecked
    <2>3. xs \in Seq(ExprAST[k]) /\ Len(xs) = Len(ls) /\ DOMAIN xs = DOMAIN ls
      BY <2>1
    <2>4. Accepted(table, env, CallTo(name, xs), f.ret, k + 1)
      <3>. HIDE DEF xs, ts, Pass
      <3>. QED
        BY <1>2, <1>6, <1>11, <2>1, <2>3, CallAccepted
    <2>5. Accepted(table, env, CallTo(name, xs), f.ret, j)
      BY <1>2, <2>4, AcceptedDeeper
    <2>. HIDE DEF answer, e, xs
    <2>. QED
      BY <1>2, <1>4, <1>5, <2>2, <2>5, SettledNode DEF j, e
  <1>. QED
    BY <1>9, <1>10, <1>11

-----------------------------------------------------------------------------
(* All the expressions that NewVisitor builds.                             *)

Depth(n) == 3 * n + 1

\* By induction on how deep they are nested.
LEMMA TreesSettled ==
  ASSUME NEW table, NEW env, NEW variables, NEW callees,
         SameDeclarations(table, env, variables, callees),
         NEW n \in Nat, Depth(n) <= MaxNesting, NEW e \in Built(variables, callees)[n]
  PROVE  Settled(table, env, e, Depth(n))
  <1>. DEFINE T == Built(variables, callees)
              Good(m) == Depth(m) <= MaxNesting => \A x \in T[m] : Settled(table, env, x, Depth(m))
              S == {m \in Nat : Good(m)}
  <1>1. \A m \in 0 .. MaxNesting : T[m] = BuiltTrees(variables, callees, m, T[m - 1])
    BY BuiltDefined
  <1>2. MaxNesting \in Nat
    BY NestingBound DEF NestingBound
  <1>. HIDE DEF T
  <1>3. Good(0)
    <2>1. CASE Depth(0) <= MaxNesting
      <3>1. 1 <= MaxNesting /\ Depth(0) = 1 /\ 0 \in 0 .. MaxNesting
        BY <1>2, <2>1 DEF Depth
      <3>2. T[0] = Literals \cup {Var(name) : name \in variables}
        BY <1>1, <3>1 DEF BuiltTrees
      <3>3. \A x \in Literals : Settled(table, env, x, 1)
        BY <3>1, LiteralsSettled
      <3>4. \A name \in variables : Settled(table, env, Var(name), 1)
        BY <3>1, VariablesSettled
      <3>. QED
        BY <3>1, <3>2, <3>3, <3>4
    <2>. QED
      BY <2>1
  <1>4. ASSUME NEW m \in Nat, Good(m)
        PROVE  Good(m + 1)
    <2>. SUFFICES ASSUME Depth(m + 1) <= MaxNesting, NEW x \in T[m + 1]
                  PROVE  Settled(table, env, x, Depth(m + 1))
      OBVIOUS
    <2>. DEFINE k == Depth(m)
                E == T[m]
    <2>1. /\ k \in 1 .. MaxNesting /\ k + 3 <= MaxNesting /\ Depth(m + 1) = k + 3
          /\ m + 1 \in 0 .. MaxNesting /\ m + 1 # 0 /\ (m + 1) - 1 = m
          /\ k + 3 \in k .. MaxNesting
      BY <1>2 DEF Depth
    <2>2. \A y \in E : Settled(table, env, y, k)
      BY <1>4, <2>1
    <2>3. x \in BuiltTrees(variables, callees, m + 1, E)
      BY <1>1, <2>1
    <2>. HIDE DEF k, E
    <2>4. CASE x \in [op : {"sign"}, value : E]
      <3>1. PICK y \in E : x = Sign(y)
        BY <2>4 DEF Sign
      <3>. QED
        BY <2>1, <2>2, <3>1, SignSettled
    <2>5. CASE x \in [op : {"binary", "comparison", "boolop"}, LHS : E, RHS : E]
      <3>1. PICK l \in E, r \in E : x \in {Arith(l, r), Compare(l, r), Logical(l, r)}
        BY <2>5 DEF Arith, Compare, Logical
      <3>2. /\ Settled(table, env, Arith(l, r), k + 3)
            /\ Settled(table, env, Compare(l, r), k + 3)
            /\ Settled(table, env, Logical(l, r), k + 3)
        BY <2>1, <2>2, PairSettled
      <3>. QED
        BY <2>1, <3>1, <3>2
    <2>6. CASE x \in [op : {"call"}, callee : callees, args : Seq(E)]
      <3>1. PICK name \in callees, ls \in Seq(E) : x = CallTo(name, ls)
        BY <2>6 DEF CallTo
      <3>2. \A i \in DOMAIN ls : Settled(table, env, ls[i], k)
        BY <2>2
      <3>. QED
        BY <2>1, <3>1, <3>2, CallSettled
    <2>7. CASE x \in E
      <3>1. Settled(table, env, x, k)
        BY <2>2, <2>7
      <3>. QED
        BY <2>1, <3>1, SettledDeeper
    <2>. QED
      BY <2>1, <2>3, <2>4, <2>5, <2>6, <2>7 DEF BuiltTrees
  <1>5. S = Nat
    <2>. HIDE DEF Good
    <2>1. 0 \in S /\ \A m \in S : m + 1 \in S
      BY <1>3, <1>4
    <2>. HIDE DEF S
    <2>2. S \in SUBSET Nat
      BY DEF S
    <2>. QED
      BY <2>1, <2>2, SetInduction
  <1>. QED
    BY <1>5 DEF T

\* An accepted expression is known with its casts.
LEMMA AcceptedIsKnown ==
  ASSUME NEW table, NEW env, NEW e, NEW k, Settled(table, env, e, k), Check(table, e).ok
  PROVE  LET c == Check(table, e) IN c = Yes(c.type, c.expr) /\ Accepted(table, env, c.expr, c.type, k)
  <1>. DEFINE c == Check(table, e)
  <1>1. IsNo(c) \/ \E x, t : c = Yes(t, x) /\ Accepted(table, env, x, t, k)
    BY DEF Settled
  <1>2. ~ IsNo(c)
    BY DEF IsNo, No
  <1>3. PICK x, t : c = Yes(t, x) /\ Accepted(table, env, x, t, k)
    BY <1>1, <1>2, Zenon
  <1>4. c.type = t /\ c.expr = x
    BY <1>3 DEF Yes
  <1>. QED
    BY <1>3, <1>4

\* If check accepts an expression, it has rewritten it so that checking it again
\* answers the same and adds no cast and that the operands of each operator have
\* one type (Validator.cpp), and generate makes a valid value of the type that
\* check has answered exactly if all nodes are of the kinds it supports
\* (ExprAST.cpp).
PassesAgree(table, env, e) ==
  LET c == Check(table, e)
  IN  c.ok =>
        /\ Check(table, c.expr) = c
        /\ \A x \in Nodes(c.expr) :
             x.op \in {"binary", "comparison", "boolop"} => TypeOf(table, x.LHS) = TypeOf(table, x.RHS)
        /\ (Generate(env, c.expr) = Value(GetFromType(c.type), TRUE))
             <=> \A x \in Nodes(c.expr) : Supported(table, x)

\* The two passes agree on every expression that NewVisitor can build of names
\* that mean the same to both of them, whatever it is made of and however deep
\* (Validator.cpp:149-389, ExprAST.cpp).
THEOREM BuiltExpressions ==
  ASSUME NEW table, NEW env, NEW variables, NEW callees,
         SameDeclarations(table, env, variables, callees),
         NEW n \in Nat, 3 * n + 1 <= MaxNesting, NEW e \in Built(variables, callees)[n]
  PROVE  PassesAgree(table, env, e)
  <1>. DEFINE c == Check(table, e)
  <1>. SUFFICES ASSUME Check(table, e).ok
                PROVE  /\ Check(table, c.expr) = c
                       /\ \A x \in Nodes(c.expr) : Agrees(table, x)
                       /\ (Generate(env, c.expr) = Value(GetFromType(c.type), TRUE))
                            <=> AllSupported(table, c.expr)
    BY Zenon DEF PassesAgree, Agrees, Operators, AllSupported
  <1>1. Settled(table, env, e, Depth(n))
    BY TreesSettled DEF Depth
  <1>2. c = Yes(c.type, c.expr) /\ Accepted(table, env, c.expr, c.type, Depth(n))
    BY <1>1, AcceptedIsKnown
  <1>. HIDE DEF c
  <1>3. Check(table, c.expr) = c
    BY <1>2 DEF Accepted
  <1>4. \A x \in Nodes(c.expr) : Agrees(table, x)
    BY <1>2 DEF Accepted
  <1>5. /\ AllSupported(table, c.expr) => Generate(env, c.expr) = Value(GetFromType(c.type), TRUE)
        /\ ~AllSupported(table, c.expr) => Generate(env, c.expr).valid = FALSE
    BY <1>2, Zenon DEF Accepted
  <1>6. \A ir : Value(ir, TRUE).valid = TRUE
    BY DEF Value
  <1>. QED
    BY <1>3, <1>4, <1>5, <1>6, Zenon
=============================================================================
