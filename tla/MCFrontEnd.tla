----------------------------- MODULE MCFrontEnd -----------------------------
(***************************************************************************)
(* Programs of one function with at most one token too many, too few or    *)
(* wrong, compiled with one command line; and every command line for an    *)
(* empty program.                                                          *)
(***************************************************************************)
EXTENDS FrontEnd

CONSTANTS
  Bodies,    \* the statements of the function, before they are edited
  Edited     \* whether they are edited

MCFiles == {"a.o", "b.o"}

Function_(body) == << "INT", "ID", "(", ")", "{" >> \o body \o << "}" >>

Visible == TokenTypes \ {EOF}

\* Everything one edit makes of w: a token dropped, replaced or put in.
Edits(w) ==
  {RemoveAt(w, n) : n \in DOMAIN w}
    \cup {ReplaceAt(w, n, t) : n \in DOMAIN w, t \in Visible}
    \cup {InsertAt(w, n, t) : n \in 1 .. Len(w) + 1, t \in Visible}

Prototype == << "ID", "ID", "(", ")", ";" >>

Sources == {Function_(body) : body \in Bodies} \cup {Prototype \o Function_(<< >>)}

MCInputs ==
  Remembered \cup {Append(w, EOF) : w \in {<< >>} \cup Sources \cup (IF Edited THEN UNION {Edits(w) : w \in Sources} ELSE {})}

\* Both readings of "(", of "," and of an ID, an else that two statements can
\* take, operators in both orders.
MCBodies ==
  { << "ID", "=", "ID", ";" >>,
    << "ID", "(", "ID", ",", "ID", ")", ";" >>,
    << "IF", "(", "ID", ")", "IF", "(", "ID", ")", ";", "ELSE", ";" >>,
    << "ID", "+", "ID", "*", "ID", "+", "ID", ";" >>,
    << "+", "ID", "*", "ID", ";" >>,
    << "RETURN", "(", "ID", ",", "ID", ",", "ID", ")", ";" >>,
    << "INT", "ID", ";", "{", "ID", "ID", ";", "}" >>,
    << "ID", "=", "(", "(", "ID", ")", ")", "*", "+", "ID", ";" >>,
    << "IF", "(", "ID", ")", "{", "}", "ELSE", ";" >> }

\* A body twice, the second time possibly short of a token.
Shortened(body) == {body} \cup {RemoveAt(body, n) : n \in DOMAIN body}

MCRemembered ==
  UNION {{Append(Function_(body \o again), EOF) : again \in Shortened(body)} : body \in MCBodies}

CallBodies == {<< "ID", "(", "ID", ",", "ID", ")", ";" >>}

MCCommands(w) == IF w = << EOF >> THEN D!CommandLines ELSE {<< "input", "-o", "a.o" >>}

MCStates == LET atn == Deserialized IN atn

MCSpec == FInit /\ [][FNext]_all /\ FProgress

\* The rules are laid out as the deserializer wants an automaton to be, with
\* the edges that leave a rule too.
ASSUME ParserVerified == verifyATN(Serialized) /\ verifyATN(states)
=============================================================================
