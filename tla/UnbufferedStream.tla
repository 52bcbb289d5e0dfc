-------------------------- MODULE UnbufferedStream --------------------------
(***************************************************************************)
(* UnbufferedTokenStream of ANTLR's runtime: a token stream that keeps a   *)
(* window of the tokens only, from the earliest mark on while there is     *)
(* one.  A token is told by its index; the source returns the tokens 0 to  *)
(* `last', of which `last' is the end of file.                             *)
(*                                                                         *)
(* start, size: the window _tokens;  p: the current token in the window;   *)
(* numMarkers;  lastToken, lastTokenBufferStart: the tokens before the     *)
(* current one and before the window.  The tokens are owned by the window: *)
(* lastToken is deleted with it unless it is in the window still.          *)
(***************************************************************************)
EXTENDS Integers, FiniteSetsExt

CONSTANT Null

index(s)        == s.start + s.p
LastInWindow(s) == s.start + s.size - 1

\* n more tokens, or those up to the end of file.
fill(last, s, n) == [s EXCEPT !.size = Min({@ + n, last - s.start + 1})]

sync(last, s, want) == fill(last, s, Max({0, s.p + want - s.size}))

NewStream(last) ==
  fill(last, [start |-> 0, size |-> 0, p |-> 0, numMarkers |-> 0,
              lastToken |-> Null, lastTokenBufferStart |-> Null], 1)

\* LT(k) for k > 0: past the end of file it is the end of file.
LT(last, s, k) ==
  LET synced == sync(last, s, k)
  IN  [stream |-> synced, index |-> Min({s.start + s.p + k - 1, LastInWindow(synced)})]

\* LT(-1).  LT(-k) for k > 1 is the token before the one asked for, or throws.
LB(s) == s.lastToken

\* Mutant of Flush: the marks are not looked at.
FlushAnyway(s) == s.p = s.size - 1

\* The window is dropped when its last token is consumed, unless it is marked.
Flush(s) == s.p = s.size - 1 /\ s.numMarkers = 0

\* Not to be called at the end of file: it throws.
consume(last, s) ==
  LET read == index(s)
      moved == IF Flush(s)
               THEN [s EXCEPT !.start = read + 1, !.size = 0, !.p = 0,
                              !.lastToken = read, !.lastTokenBufferStart = read]
               ELSE [s EXCEPT !.p = @ + 1, !.lastToken = read]
  IN  sync(last, moved, 1)

\* The marker is - numMarkers.
mark(s) ==
  [s EXCEPT !.numMarkers = @ + 1,
            !.lastTokenBufferStart = IF s.numMarkers = 0 THEN s.lastToken ELSE @]

\* The innermost mark; another one throws.
release(s) ==
  IF s.numMarkers > 1 THEN [s EXCEPT !.numMarkers = @ - 1]
  ELSE [s EXCEPT !.numMarkers = 0, !.lastTokenBufferStart = s.lastToken,
                 !.start = index(s), !.size = @ - s.p, !.p = 0]

\* A seek forward fetches one token less than it has to, and ends at the last
\* one that there is then.
Target(synced, i) == Min({i, LastInWindow(synced)})

\* Not to be called for a token before the window: it throws.
seek(last, s, i) ==
  LET synced == IF i > index(s) THEN sync(last, s, i - index(s)) ELSE s
      at     == Target(synced, i) - synced.start
  IN  IF i = index(s) THEN s
      ELSE [synced EXCEPT !.p = at,
              !.lastToken = IF at = 0 THEN s.lastTokenBufferStart ELSE synced.start + at - 1]
=============================================================================
