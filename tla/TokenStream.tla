---------------------------- MODULE TokenStream ----------------------------
(***************************************************************************)
(* BufferedTokenStream and CommonTokenStream of ANTLR's runtime, which     *)
(* stand between FleetLang's lexer and its parser.  Comments are tokens on *)
(* a hidden channel: they are kept in the buffer and skipped by the cursor.*)
(*                                                                         *)
(* A token source `src' is the sequence of all tokens the lexer will ever  *)
(* return, with one EOF at its end.  fetch appends its next tokens to      *)
(* _tokens, so the buffer is told by its size.  Indices count from 0, as   *)
(* in the code.                                                            *)
(***************************************************************************)
EXTENDS Integers, Sequences, FiniteSetsExt

CONSTANT Null

DefaultChannel == 0
HiddenChannel  == 1
EOF            == "EOF"

LastIndex(src)    == Len(src) - 1
TypeAt(src, i)    == src[i + 1].type
ChannelAt(src, i) == src[i + 1].channel

\* The end of file is on every channel.
OnChannel(src, i) == TypeAt(src, i) = EOF \/ ChannelAt(src, i) = DefaultChannel

NewStream == [size |-> 0, p |-> 0, needSetup |-> TRUE, fetchedEOF |-> FALSE]

-----------------------------------------------------------------------------
(* Filling the buffer.                                                     *)

fetch(src, s, n) ==
  IF s.fetchedEOF THEN s
  ELSE LET size == Min({s.size + n, Len(src)})
       IN  [s EXCEPT !.size = size, !.fetchedEOF = (size = Len(src))]

\* Mutant of sync: the token at i itself is forgotten.
syncShort(src, s, i) == IF i < s.size THEN s ELSE fetch(src, s, i - s.size)

\* The code returns whether there is a token at i afterwards: i < size.
sync(src, s, i) == IF i < s.size THEN s ELSE fetch(src, s, i - s.size + 1)

\* Mutant of nextTokenOnChannel: the next token, whatever its channel.
nextToken(src, i) == IF i >= Len(src) THEN LastIndex(src) ELSE i

\* Every token up to the one that is found is fetched on the way.
nextTokenOnChannel(src, i) ==
  IF i >= Len(src) THEN LastIndex(src) ELSE Min({j \in i .. LastIndex(src) : OnChannel(src, j)})

\* `i' is unsigned: one less than 0 is beyond every token, and the last one
\* that has been fetched is returned.  If none is on the channel it is 0.
previousTokenOnChannel(src, s, i) ==
  LET size == sync(src, s, i).size
      on   == {j \in 0 .. i : OnChannel(src, j)}
  IN  IF i = -1 \/ i >= size THEN size - 1
      ELSE IF on = {} THEN 0 ELSE Max(on)

-----------------------------------------------------------------------------
(* The operations.  Each gives the stream after the call.                  *)

adjustSeekIndex(src, s, i) ==
  LET next == nextTokenOnChannel(src, i)
  IN  [sync(src, s, Max({i, next})) EXCEPT !.p = next]

setup(src, s)    == adjustSeekIndex(src, sync(src, [s EXCEPT !.needSetup = FALSE], 0), 0)
lazyInit(src, s) == IF s.needSetup THEN setup(src, s) ELSE s

seek(src, s, i) == adjustSeekIndex(src, lazyInit(src, s), i)

\* The k-th token on the channel from p on, or the end of file before it.
Ahead(src, p, k) ==
  LET step[n \in 1 .. k] ==
        IF n = 1 THEN p
        ELSE IF step[n - 1] = LastIndex(src) THEN LastIndex(src)
        ELSE nextTokenOnChannel(src, step[n - 1] + 1)
  IN  step[k]

\* LT(k), k > 0: the index of the token and the stream after the call.
LT(src, s, k) ==
  LET ready == lazyInit(src, s)
      index == Ahead(src, ready.p, k)
  IN  [stream |-> sync(src, ready, index), index |-> index]

LA(src, s, k) == TypeAt(src, LT(src, s, k).index)

\* Mutant of LB: it counts from the token before the current one.
LBFromPrevious(src, s, k) ==
  LET step[n \in 0 .. k] ==
        IF n = 0 THEN s.p - 1 ELSE previousTokenOnChannel(src, s, step[n - 1] - 1)
  IN  IF k = 0 \/ k > s.p THEN Null ELSE step[k]

\* LT(-k): nullptr only if there are less than k tokens of any channel.
LB(src, s, k) ==
  LET step[n \in 0 .. k] ==
        IF n = 0 THEN s.p ELSE previousTokenOnChannel(src, s, step[n - 1] - 1)
  IN  IF k = 0 \/ k > s.p THEN Null ELSE step[k]

\* The test that the code skips for speed when p is before the end.
AtEOF(src, s) ==
  /\ s.needSetup \/ s.p >= (IF s.fetchedEOF THEN s.size - 1 ELSE s.size)
  /\ LA(src, s, 1) = EOF

\* Mutant of advance: the next token, whatever its channel.
advanceByOne(src, s) == LET t == sync(src, s, s.p + 1) IN [t EXCEPT !.p = @ + 1]

advance(src, s) ==
  IF s.p + 1 < sync(src, s, s.p + 1).size
  THEN adjustSeekIndex(src, s, s.p + 1)
  ELSE sync(src, s, s.p + 1)

\* Not to be called at the end of file: it throws.
consume(src, s) == advance(src, lazyInit(src, s))

fill(src, s) == fetch(src, lazyInit(src, s), Len(src))

filterForChannel(src, from, to) == {i \in from .. to : ChannelAt(src, i) # DefaultChannel}

getHiddenTokensToRight(src, i) == filterForChannel(src, i + 1, nextTokenOnChannel(src, i + 1))

getHiddenTokensToLeft(src, s, i) ==
  IF i = 0 THEN {}
  ELSE filterForChannel(src, previousTokenOnChannel(src, s, i - 1) + 1, i - 1)

getNumberOfOnChannelTokens(src) == Cardinality({i \in 0 .. LastIndex(src) : ChannelAt(src, i) = DefaultChannel})
=============================================================================
