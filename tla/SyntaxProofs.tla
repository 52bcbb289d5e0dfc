---------------------------- MODULE SyntaxProofs ----------------------------
(***************************************************************************)
(* Proofs about ExpressionProperties: every expression that its machine    *)
(* makes is one that NewVisitor builds, so what ExprProofs says of those   *)
(* holds in each of its states.                                            *)
(***************************************************************************)
EXTENDS ExpressionProperties, ExprProofs, TLAPS

\* The expression is built of as many operators as the machine has counted.
ExprInv ==
  /\ size \in Nat /\ size <= MaxOperators
  /\ expr \in Built(Variables, Callees)[size]

\* One more operator around what has been built, or none.
LEMMA BuiltFurther ==
  ASSUME NEW n \in Nat, n + 1 <= MaxNesting
  PROVE  LET E == Built(Variables, Callees)[n]
         IN  Built(Variables, Callees)[n + 1] =
               [op : {"sign"}, value : E]
               \cup [op : {"binary", "comparison", "boolop"}, LHS : E, RHS : E]
               \cup [op : {"call"}, callee : Callees, args : Seq(E)] \cup E
  <1>1. n + 1 \in 0 .. MaxNesting /\ n + 1 # 0 /\ (n + 1) - 1 = n
    BY NestingBound DEF NestingBound
  <1>2. Built(Variables, Callees)[n + 1] =
          BuiltTrees(Variables, Callees, n + 1, Built(Variables, Callees)[n])
    <2>. HIDE DEF BuiltTrees
    <2>. QED
      BY <1>1, BuiltDefined
  <1>. QED
    BY <1>1, <1>2, Zenon DEF BuiltTrees

LEMMA BuiltOfNames ==
  Built(Variables, Callees)[0] = Leaves
  <1>1. 0 \in 0 .. MaxNesting
    BY NestingBound DEF NestingBound
  <1>. QED
    BY <1>1, BuiltDefined DEF BuiltTrees, Leaves

LEMMA LeavesStay ==
  ASSUME NEW n \in Nat, n <= MaxNesting
  PROVE  Leaves \subseteq Built(Variables, Callees)[n]
  <1>. DEFINE S == {m \in Nat : m <= MaxNesting => Leaves \subseteq Built(Variables, Callees)[m]}
  <1>1. 0 \in S
    BY BuiltOfNames
  <1>2. ASSUME NEW m \in S PROVE m + 1 \in S
    <2>1. CASE m + 1 <= MaxNesting
      <3>1. m <= MaxNesting /\ m \in Nat
        BY <2>1, NestingBound DEF NestingBound
      <3>2. Built(Variables, Callees)[m] \subseteq Built(Variables, Callees)[m + 1]
        BY <2>1, <3>1, BuiltFurther
      <3>. QED
        BY <3>1, <3>2
    <2>. QED
      BY <2>1
  <1>3. S \in SUBSET Nat /\ \A m \in S : m + 1 \in S
    BY <1>2
  <1>. HIDE DEF S
  <1>4. n \in S
    BY <1>1, <1>3, SetInduction
  <1>. QED
    BY <1>4 DEF S

LEMMA InvInit == ExprInit /\ size = 0 => ExprInv
  BY ExpressionBounds, BuiltOfNames DEF ExprInit, ExprInv, ExpressionBounds

LEMMA InvStep == ExprInv /\ [GrowExpr /\ size' = size + 1]_<< expr, size >> => ExprInv'
  <1>. SUFFICES ASSUME ExprInv, [GrowExpr /\ size' = size + 1]_<< expr, size >> PROVE ExprInv'
    OBVIOUS
  <1>1. CASE GrowExpr /\ size' = size + 1
    <2>. DEFINE E == Built(Variables, Callees)[size]
    <2>1. /\ size \in Nat /\ size < MaxOperators /\ size <= MaxNesting /\ size + 1 <= MaxNesting
          /\ size' \in Nat /\ size' <= MaxOperators
      BY <1>1, ExpressionBounds, NestingBound DEF ExprInv, GrowExpr, ExpressionBounds, NestingBound
    <2>2. Leaves \cup {expr} \subseteq E
      BY <2>1, LeavesStay DEF ExprInv
    <2>3. Built(Variables, Callees)[size'] =
            [op : {"sign"}, value : E]
            \cup [op : {"binary", "comparison", "boolop"}, LHS : E, RHS : E]
            \cup [op : {"call"}, callee : Callees, args : Seq(E)] \cup E
      BY <1>1, <2>1, BuiltFurther
    <2>. HIDE DEF E
    <2>4. CASE \E l, r \in Leaves \cup {expr} :
                 expr \in {l, r} /\ expr' \in {Arith(l, r), Compare(l, r), Logical(l, r)}
      <3>1. PICK l \in E, r \in E : expr' \in {Arith(l, r), Compare(l, r), Logical(l, r)}
        BY <2>2, <2>4
      <3>2. expr' \in [op : {"binary", "comparison", "boolop"}, LHS : E, RHS : E]
        BY <3>1 DEF Arith, Compare, Logical
      <3>. QED
        BY <2>1, <2>3, <3>2 DEF ExprInv
    <2>5. CASE expr' = Sign(expr)
      <3>1. expr' \in [op : {"sign"}, value : E]
        BY <2>2, <2>5 DEF Sign
      <3>. QED
        BY <2>1, <2>3, <3>1 DEF ExprInv
    <2>6. CASE \E name \in Callees : expr' = Call1(name, expr)
      <3>1. << expr >> \in Seq(E)
        BY <2>2
      <3>2. expr' \in [op : {"call"}, callee : Callees, args : Seq(E)]
        BY <2>6, <3>1 DEF Call1, CallTo
      <3>. QED
        BY <2>1, <2>3, <3>2 DEF ExprInv
    <2>. QED
      BY <1>1, <2>4, <2>5, <2>6 DEF GrowExpr
  <1>2. CASE UNCHANGED << expr, size >>
    BY <1>2 DEF ExprInv
  <1>. QED
    BY <1>1, <1>2

LEMMA Invariant == ExprSpec => []ExprInv
  BY InvInit, InvStep, PTL DEF ExprSpec

\* In each state the passes agree on the expression.
LEMMA InvAgrees == ExprInv => PassesAgree(Table, Env, expr)
  <1>. SUFFICES ASSUME ExprInv PROVE PassesAgree(Table, Env, expr)
    OBVIOUS
  <1>1. size \in Nat /\ 3 * size + 1 <= MaxNesting
    BY ExpressionBounds, NestingBound DEF ExprInv, ExpressionBounds, NestingBound
  <1>2. expr \in Built(Variables, Callees)[size]
    BY DEF ExprInv
  <1>. QED
    BY <1>1, <1>2, DeclarationsAgree, BuiltExpressions DEF DeclarationsAgree

LEMMA InvChecks == ExprInv => CheckSettles
  BY InvAgrees, Zenon
     DEF PassesAgree, CheckSettles, RecheckChangesNothing, OperandsAgree, Checked

LEMMA InvGenerates == ExprInv => GeneratedAsChecked
  BY InvAgrees, Zenon DEF PassesAgree, GeneratedAsChecked, ValueAsChecked, Checked, Generated

\* Whatever expression the Validator accepts, in whatever scopes: checking it
\* again gives the same type and inserts no further cast, so the second call in
\* check(ComparisonExprAST) returns at once, and the operands of every operator
\* in it have one type (Validator.cpp).
THEOREM ChecksSettle == ExprSpec => []CheckSettles
  BY Invariant, InvChecks, PTL

\* And if the environment declares the same names, ExprAST::generate makes a
\* valid value of exactly the LLVM type of that type of it, if and only if no
\* node is of the kinds that code generation does not support.
THEOREM ChecksAreGenerated == ExprSpec => []GeneratedAsChecked
  BY Invariant, InvGenerates, PTL
=============================================================================
