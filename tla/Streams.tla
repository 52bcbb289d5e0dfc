------------------------------ MODULE Streams ------------------------------
(***************************************************************************)
(* The three streams of the runtime, each read with any sequence of calls: *)
(* the buffered stream of tokens, which the parser has, the unbuffered     *)
(* one, and the stream of characters, which the lexer has.  Two calls that *)
(* IntStream allows on the unbuffered one are left out, as their answers   *)
(* are not a cursor's: LT(-1) of a token that no mark has kept, and seek   *)
(* forward to a token that has not been read.  The source is every one of  *)
(* up to MaxTokens visible and hidden tokens; channels matter to the       *)
(* buffered stream only.                                                   *)
(***************************************************************************)
EXTENDS Integers, Sequences, SequencesExt

CONSTANTS
  NoToken,           \* nullptr
  CannotConsumeEOF,  \* the exceptions of consume
  CannotSeek,        \* and of seek
  MaxTokens,         \* bound: the length of the source, its end of file left out
  MaxLook,           \* bound: how far LT looks ahead or back
  MaxMarks           \* bound: nested marks

ASSUME StreamBounds == MaxTokens \in Nat /\ MaxMarks \in Nat /\ MaxLook \in Nat \ {0}

VARIABLES
  reader,      \* which stream it is
  source,      \* the tokens the lexer returns
  stream,
  marks,       \* the indices at which marks were taken that are not released yet
  answer,      \* what the last of LT, the count, and index() after consume and seek returned
  hidden       \* what the last calls about hidden tokens returned

streamVars == << reader, source, stream, marks, answer, hidden >>

B == INSTANCE TokenStream WITH Null <- NoToken
U == INSTANCE UnbufferedStream WITH Null <- NoToken
C == INSTANCE InputStream

eof == B!LastIndex(source)

Word(channel) == [type |-> "ID", channel |-> channel]
EndOfFile     == [type |-> B!EOF, channel |-> B!DefaultChannel]

Sources(channels) ==
  {Append([n \in 1 .. Len(w) |-> Word(w[n])], EndOfFile) : w \in BoundedSeq(channels, MaxTokens)}

StreamInit ==
  /\ reader \in {"buffered", "unbuffered", "characters"}
  /\ source \in Sources(IF reader = "buffered" THEN {B!DefaultChannel, B!HiddenChannel} ELSE {B!DefaultChannel})
  /\ stream = CASE reader = "buffered"   -> B!NewStream
                [] reader = "unbuffered" -> U!NewStream(eof)
                [] reader = "characters" -> 0
  /\ marks = << >>
  /\ answer = NoToken
  /\ hidden = NoToken

Answered(s, a) == stream' = s /\ answer' = a /\ UNCHANGED << reader, source, marks, hidden >>

-----------------------------------------------------------------------------
(* The buffered stream.  Marks do nothing.                                 *)

LookAhead(k) == Answered(B!LT(source, stream, k).stream, B!LT(source, stream, k).index)

LookBack(k) ==
  LET ready == B!lazyInit(source, stream) IN Answered(ready, B!LB(source, ready, k))

Consume ==
  IF B!AtEOF(source, stream) THEN Answered(B!LT(source, stream, 1).stream, CannotConsumeEOF)
  ELSE Answered(B!consume(source, stream), B!consume(source, stream).p)

Seek(i) == Answered(B!seek(source, stream, i), B!seek(source, stream, i).p)

Count == Answered(B!fill(source, stream), B!getNumberOfOnChannelTokens(source))

\* Both calls throw if the token at i has not been fetched.
AskHidden(i) ==
  LET ready == B!lazyInit(source, stream)
  IN  /\ i < ready.size
      /\ stream' = B!sync(source, ready, B!nextTokenOnChannel(source, i + 1))
      /\ hidden' = [at |-> i,
                    right |-> B!getHiddenTokensToRight(source, i),
                    left  |-> B!getHiddenTokensToLeft(source, ready, i)]
      /\ UNCHANGED << reader, source, marks, answer >>

Buffered ==
  \/ Consume
  \/ Count
  \/ \E k \in 1 .. MaxLook : LookAhead(k) \/ LookBack(k)
  \/ \E i \in 0 .. MaxTokens + 1 : Seek(i) \/ AskHidden(i)

-----------------------------------------------------------------------------
(* The unbuffered stream.                                                  *)

TokenAhead(k) == Answered(U!LT(eof, stream, k).stream, U!LT(eof, stream, k).index)

\* A token that was consumed before the earliest mark has been deleted with
\* the window it was in, and LT(-1) would return it nevertheless.
TokenBack ==
  /\ marks # << >> /\ U!index(stream) > Head(marks)
  /\ Answered(stream, U!LB(stream))

ConsumeToken ==
  LET next == U!consume(eof, stream)
  IN  IF U!LT(eof, stream, 1).index = eof THEN Answered(stream, CannotConsumeEOF)
      ELSE Answered(next, U!index(next))

Mark ==
  /\ Len(marks) < MaxMarks
  /\ stream' = U!mark(stream)
  /\ marks' = Append(marks, U!index(stream))
  /\ UNCHANGED << reader, source, answer, hidden >>

\* In reverse order only.
Release ==
  /\ marks # << >>
  /\ stream' = U!release(stream)
  /\ marks' = Front(marks)
  /\ UNCHANGED << reader, source, answer, hidden >>

\* Back into the marked region or forward to a token that has been read: more
\* than the runtime itself needs, which only returns to its marks.  To a token
\* that has not been read it may stop one short (see U!Target).
SeekToken(i) ==
  LET next == U!seek(eof, stream, i)
  IN  /\ i >= (IF marks = << >> THEN U!index(stream) ELSE Head(marks))
      /\ i <= U!LastInWindow(stream)
      /\ IF i < stream.start THEN Answered(stream, CannotSeek) ELSE Answered(next, U!index(next))

Unbuffered ==
  \/ ConsumeToken \/ TokenBack \/ Mark \/ Release
  \/ \E k \in 1 .. MaxLook : TokenAhead(k)
  \/ \E i \in 0 .. MaxTokens : SeekToken(i)

-----------------------------------------------------------------------------
(* The stream of characters.  Marks do nothing.                            *)

CharAhead(k) == Answered(stream, C!LA(eof, stream, k))
CharBack(k)  == Answered(stream, C!LB(eof, stream, k))

ConsumeChar ==
  IF C!AtEnd(eof, stream) THEN Answered(stream, CannotConsumeEOF)
  ELSE Answered(C!consume(stream), C!consume(stream))

SeekChar(i) == Answered(C!seek(eof, stream, i), C!seek(eof, stream, i))

Characters ==
  \/ ConsumeChar
  \/ \E k \in 1 .. MaxLook : CharAhead(k) \/ CharBack(k)
  \/ \E i \in 0 .. MaxTokens + 1 : SeekChar(i)

-----------------------------------------------------------------------------
StreamNext ==
  \/ reader = "buffered"   /\ Buffered
  \/ reader = "unbuffered" /\ Unbuffered
  \/ reader = "characters" /\ Characters

StreamSpec == StreamInit /\ [][StreamNext]_streamVars

-----------------------------------------------------------------------------
(* Properties.                                                             *)

On(i) == B!OnChannel(source, i)

\* How many symbols there are up to the i-th token.
Rank(i) == Cardinality({j \in 0 .. i : On(j)})

Visible == [n \in 1 .. Rank(eof) |-> CHOOSE i \in 0 .. eof : On(i) /\ Rank(i) = n]

Position ==
  CASE reader = "buffered"   -> IF stream.needSetup THEN 1 ELSE Rank(stream.p)
    [] reader = "unbuffered" -> U!index(stream) + 1
    [] reader = "characters" -> stream + 1

\* Each of the streams implements a cursor on its visible symbols: hidden
\* tokens, how far the buffer is filled, what is in the window and the marks
\* cannot be told from the answers.
Cursor ==
  INSTANCE TokenCursor WITH Null <- NoToken, visible <- Visible, cursor <- Position, MaxIndex <- MaxTokens + 1

StreamsAreCursors == Cursor!Spec

\* The hidden tokens to the right of a token are those before the next
\* visible one, and those to its left those after the previous visible one,
\* if there is a visible token to its left.
HiddenAround ==
  hidden # NoToken =>
    LET at       == hidden.at
        After(i)  == \A j \in at + 1 .. i : ~ On(j)
        Before(i) == \A j \in i .. at - 1 : ~ On(j)
    IN  /\ hidden.right = {i \in at + 1 .. eof : After(i)}
        /\ (\E j \in 0 .. at - 1 : On(j)) =>
             hidden.left = {i \in 0 .. at - 1 : Before(i)}
=============================================================================
