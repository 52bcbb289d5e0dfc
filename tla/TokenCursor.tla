---------------------------- MODULE TokenCursor ----------------------------
(***************************************************************************)
(* What a token stream promises to a parser: the tokens on its channel in  *)
(* the order of the source and a cursor on them.  There is no buffer, no   *)
(* lookahead that has been fetched and no token of another channel.        *)
(***************************************************************************)
EXTENDS Integers, Sequences

CONSTANTS
  Null,
  CannotConsumeEOF,
  MaxLook,   \* bound: how far a call looks ahead or back
  MaxIndex   \* bound: the largest index that is sought

VARIABLES
  visible,   \* the indices of the tokens on the channel, the end of file last
  cursor,    \* the current one
  answer     \* what the last call returned

vars == << visible, cursor, answer >>

Smaller(a, b) == IF a < b THEN a ELSE b

\* Looking past the end of file finds the end of file.
LT(k) ==
  /\ answer' = visible[Smaller(cursor + k - 1, Len(visible))]
  /\ UNCHANGED << visible, cursor >>

\* Nothing is promised of looking back further than the first token.
LB(k) ==
  /\ k < cursor => answer' = visible[cursor - k]
  /\ UNCHANGED << visible, cursor >>

\* Consume and Seek answer with the index of the symbol they end at.
Consume ==
  /\ IF cursor = Len(visible)
     THEN answer' = CannotConsumeEOF /\ UNCHANGED cursor
     ELSE cursor' = cursor + 1 /\ answer' = visible[cursor']
  /\ UNCHANGED visible

\* To the first visible token from index i on, or to the end of file.
Seek(i) ==
  /\ cursor' = IF i > visible[Len(visible)] THEN Len(visible)
               ELSE CHOOSE c \in 1 .. Len(visible) :
                      /\ visible[c] >= i
                      /\ \A before \in 1 .. c - 1 : visible[before] < i
  /\ answer' = visible[cursor']
  /\ UNCHANGED visible

Count == answer' = Len(visible) /\ UNCHANGED << visible, cursor >>

Next ==
  \/ Consume
  \/ Count
  \/ \E k \in 1 .. MaxLook : LT(k) \/ LB(k)
  \/ \E i \in 0 .. MaxIndex : Seek(i)

Init == cursor = 1 /\ answer = Null

Spec == Init /\ [][Next]_vars
=============================================================================
