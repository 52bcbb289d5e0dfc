----------------------------- MODULE FleetTypes -----------------------------
(***************************************************************************)
(* The types of FleetLang and the coercion table of src/AST/StmtAST.h.     *)
(* Validator::CanCoerce indexes the table with two types and reads Void as *)
(* "no coercion"; GetFromType maps a type to the LLVM type that carries    *)
(* its values.                                                             *)
(***************************************************************************)
EXTENDS Naturals, Sequences

\* enum class Type.
Type == {"Byte", "Char", "Short", "Int", "Long", "Float", "Double", "Bool", "Void"}

\* static_cast<int>(t) + 1: sequences are indexed from 1, std::array from 0.
to_underlying ==
  [Byte |-> 1, Char |-> 2, Short |-> 3, Int |-> 4, Long |-> 5, Float |-> 6,
   Double |-> 7, Bool |-> 8, Void |-> 9]

\* constexpr TypeCoercions: row = type of the left operand, column = right.
TypeCoercions ==
  << << "Byte",   "Byte",   "Short",  "Int",    "Long",   "Float",  "Double", "Void", "Void" >>,
     << "Byte",   "Char",   "Short",  "Int",    "Long",   "Float",  "Double", "Void", "Void" >>,
     << "Short",  "Short",  "Short",  "Int",    "Long",   "Float",  "Double", "Void", "Void" >>,
     << "Int",    "Int",    "Int",    "Int",    "Long",   "Float",  "Double", "Void", "Void" >>,
     << "Long",   "Long",   "Long",   "Long",   "Long",   "Double", "Double", "Void", "Void" >>,
     << "Float",  "Float",  "Float",  "Float",  "Double", "Float",  "Double", "Void", "Void" >>,
     << "Double", "Double", "Double", "Double", "Double", "Double", "Double", "Void", "Void" >>,
     << "Void",   "Void",   "Void",   "Void",   "Void",   "Void",   "Void",   "Bool", "Void" >>,
     << "Void",   "Void",   "Void",   "Void",   "Void",   "Void",   "Void",   "Void", "Void" >> >>

CanCoerce(a, b) == TypeCoercions[to_underlying[a]][to_underlying[b]]

\* The LLVM types GetFromType returns.
IRType == {"i1", "i8", "i16", "i32", "i64", "float", "double", "void"}

GetFromType(t) ==
  [Byte |-> "i8", Char |-> "i8", Short |-> "i16", Int |-> "i32", Long |-> "i64",
   Float |-> "float", Double |-> "double", Bool |-> "i1", Void |-> "void"][t]

IsFloatingPoint(ir) == ir \in {"float", "double"}
IsInteger(ir)       == ir \in {"i1", "i8", "i16", "i32", "i64"}
=============================================================================
