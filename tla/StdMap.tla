------------------------------- MODULE StdMap -------------------------------
(***************************************************************************)
(* std::map as the compiler uses it: the symbol tables, AllocaValues, and  *)
(* the names of an llvm::Module.  A map is a function from the keys it     *)
(* has.                                                                    *)
(***************************************************************************)

Maps(Keys, Values) == UNION {[D -> Values] : D \in SUBSET Keys}

EmptyMap == [key \in {} |-> key]

\* Mutant of Insert: map[key] = value.
InsertOverwriting(map, key, value) ==
  [k \in DOMAIN map \cup {key} |-> IF k = key THEN value ELSE map[k]]

\* map.insert({key, value}): an entry that exists already is kept.
Insert(map, key, value) ==
  [k \in DOMAIN map \cup {key} |-> IF k \in DOMAIN map THEN map[k] ELSE value]
=============================================================================
