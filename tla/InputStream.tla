---------------------------- MODULE InputStream ----------------------------
(***************************************************************************)
(* ANTLRInputStream of ANTLR's runtime, from which FleetLang's lexer reads *)
(* the characters of the file.  All of them are in _data, so that marks do *)
(* nothing.  A stream is told by the number `size' of its characters and   *)
(* the index `p' of the current one, a character by its index.  The end of *)
(* file is no character of _data; here it is the index after the last.     *)
(***************************************************************************)
EXTENDS Integers

CharAt(size, i) == IF i >= size THEN size ELSE i

\* LA(k), k > 0, and LA(-k), which is the end of file if it is before the
\* first character.
LA(size, p, k) == CharAt(size, p + k - 1)
LB(size, p, k) == IF p - k < 0 THEN size ELSE CharAt(size, p - k)

\* Consuming at the end of file throws.
AtEnd(size, p) == p >= size
consume(p)     == p + 1

\* Forward it consumes up to the end of file.
seek(size, p, i) == IF i <= p THEN i ELSE IF i > size THEN size ELSE i
=============================================================================
