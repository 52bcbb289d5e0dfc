---------------------------- MODULE LexicalScope ----------------------------
(***************************************************************************)
(* Lexical scoping, as the language promises it: at every point of a       *)
(* program there is an environment, which gives each name the type of its  *)
(* visible declaration or None.  Entering a scope keeps the environment    *)
(* and remembers it; leaving the scope restores exactly the environment    *)
(* that was there when it was entered.  Nothing is said of how names are   *)
(* looked up: SymbolTable.cpp keeps maps chained by parent pointers.       *)
(***************************************************************************)
EXTENDS Sequences

CONSTANTS Names, Types, None

VARIABLES
  env,     \* the type of the visible declaration of each name
  here,    \* the declarations of the innermost scope itself: name -> type
  saved    \* what the enclosing scopes had when the next one was entered

lexicalVars == << env, here, saved >>

Nothing == [n \in {} |-> None]

Init ==
  /\ env = [n \in Names |-> None]
  /\ here = Nothing
  /\ saved = << >>

Remember == << [env |-> env, here |-> here] >>

\* A scope is entered with some names already declared in it (the arguments
\* of a function; none for every other construct).
Enter ==
  /\ saved' = Remember \o saved
  /\ \E names \in SUBSET Names : here' \in [names -> Types]
  /\ env' = [n \in Names |-> IF n \in DOMAIN here' THEN here'[n] ELSE env[n]]

\* A name is declared once in a scope; it may hide the same name outside.
Declare ==
  /\ UNCHANGED saved
  /\ \E n \in Names \ DOMAIN here, t \in Types :
       /\ here' = [m \in DOMAIN here \cup {n} |-> IF m = n THEN t ELSE here[m]]
       /\ env' = [env EXCEPT ![n] = t]

Leave ==
  /\ saved # << >>
  /\ env' = Head(saved).env
  /\ here' = Head(saved).here
  /\ saved' = Tail(saved)

\* One scope is left and a sibling entered: the sibling starts from what the
\* enclosing scope had.
LeaveAndEnter ==
  /\ saved # << >>
  /\ env' = Head(saved).env
  /\ here' = Nothing
  /\ UNCHANGED saved

Next == Enter \/ Declare \/ Leave \/ LeaveAndEnter

Spec == Init /\ [][Next]_lexicalVars
=============================================================================
