----------------------------- MODULE FlowProofs -----------------------------
(***************************************************************************)
(* Code generation follows the control flow of the source: for statements  *)
(* nested to any depth, where no empty block has been asked for its last   *)
(* instruction, the last block has a terminator exactly where the source   *)
(* cannot go on, and the verifier's verdict is the source's.               *)
(***************************************************************************)
EXTENDS CodegenProofs

-----------------------------------------------------------------------------
(* The invariant.                                                          *)

\* The reach that the k-th open statement, from the outside, will need again.
Saved(k) == saved[Len(saved) + 1 - k]

Remembered == reach \in BOOLEAN /\ saved \in Seq(BOOLEAN) /\ Len(saved) = Len(frames)

\* Nothing is generated into a block before it is laid out.
Waiting == \A k \in Opens : \A b \in Held(Open(k)) : blocks[b].body = "empty"

\* Some block that is laid out goes on behind a terminator.
Cut     == \E i \in Ids : blocks[i].mid
CutLaid == \A i \in Ids : blocks[i].mid => Laid(i)

\* An open statement was entered where the source can go on, and a false arm
\* knows whether the true arm can be left.
Agreed(k) ==
  /\ Open(k).kind \in {"then", "while"} => Saved(k)
  /\ Open(k).kind = "else" => (Saved(k) <=> Open(k).jumpGenerated)

Followed ==
  fn # Null /\ ~ guessed =>
    /\ dead <=> Cut
    /\ ~ dead => /\ blocks[insert].body = "closed" <=> ~ reach
                 /\ \A k \in Opens : Agreed(k)

Flow == status = "running" => Remembered /\ Waiting /\ CutLaid /\ Followed

-----------------------------------------------------------------------------
(* What the statements append.                                             *)

\* Where the Builder is, instructions have been appended (emits), with a
\* terminator as the last (closes).
Appended(bs, emits, closes) ==
  /\ \A i \in Ids : i # insert => (bs[i].mid <=> blocks[i].mid)
  /\ bs[insert].mid <=> blocks[insert].mid \/ (emits /\ blocks[insert].body = "closed")
  /\ bs[insert].body = "closed" <=> closes \/ (~ emits /\ blocks[insert].body = "closed")

LEMMA NothingAppended == Appended(blocks, FALSE, FALSE)
  BY DEF Appended

LEMMA OpAppended ==
  ASSUME Shape, NEW bs, Filled(bs, {}), insert \in Ids, Appended(bs, FALSE, FALSE)
  PROVE  Appended([bs EXCEPT ![insert] = AddOp(@)], TRUE, FALSE)
<1> DEFINE new == [bs EXCEPT ![insert] = AddOp(@)]
<1>1. bs[insert] \in Block /\ bs \in Seq(Block) /\ Len(bs) = Len(blocks) /\ insert \in 1 .. Len(bs)
  BY DEF Filled, Ids, Shape
<1>2. LET b == AddOp(bs[insert])
      IN  b \in Block /\ b.body = "open" /\ (b.mid <=> bs[insert].mid \/ bs[insert].body = "closed")
  BY <1>1 DEF AddOp, Block
<1>3. /\ new[insert] = AddOp(bs[insert])
      /\ \A i \in Ids : i # insert => new[i] = bs[i]
  BY <1>1, <1>2, Replaced DEF Ids
<1> QED
  BY <1>2, <1>3 DEF Appended

LEMMA TerminatorAppended ==
  ASSUME Shape, NEW bs, Filled(bs, {}), insert \in Ids, NEW emits \in BOOLEAN, Appended(bs, emits, FALSE),
         NEW targets \in SUBSET Nat
  PROVE  Appended(EmitTerminator(bs, insert, targets), TRUE, TRUE)
<1> DEFINE new == EmitTerminator(bs, insert, targets)
<1>1. bs[insert] \in Block /\ bs \in Seq(Block) /\ Len(bs) = Len(blocks) /\ insert \in 1 .. Len(bs)
  BY DEF Filled, Ids, Shape
<1>2. LET b == AddTerminator(bs[insert], targets)
      IN  b \in Block /\ b.body = "closed" /\ (b.mid <=> bs[insert].mid \/ bs[insert].body = "closed")
  BY <1>1 DEF AddTerminator, Block
<1>3. new = [bs EXCEPT ![insert] = AddTerminator(bs[insert], targets)]
  BY DEF EmitTerminator
<1>4. /\ new[insert] = AddTerminator(bs[insert], targets)
      /\ \A i \in Ids : i # insert => new[i] = bs[i]
  BY <1>1, <1>2, <1>3, Replaced DEF Ids
<1> QED
  BY <1>2, <1>4 DEF Appended

LEMMA ExprAppended ==
  ASSUME Shape, NEW e, insert \in Ids
  PROVE  /\ e.emits => Appended(EmitExpr(blocks, e), TRUE, FALSE)
         /\ ~ e.emits => Appended(EmitExpr(blocks, e), FALSE, FALSE)
<1>1. CASE e.emits
  <2>1. EmitExpr(blocks, e) = [blocks EXCEPT ![insert] = AddOp(@)]
    BY <1>1 DEF EmitExpr
  <2> QED
    BY <1>1, <2>1, NothingFilled, NothingAppended, OpAppended
<1>2. CASE ~ e.emits
  <2>1. EmitExpr(blocks, e) = blocks
    BY <1>2 DEF EmitExpr
  <2> QED
    BY <1>2, <2>1, NothingAppended
<1> QED
  BY <1>1, <1>2

LEMMA AllocaAppended ==
  ASSUME Shape, Len(layout) > 0, NEW name
  PROVE  Appended(InsertAlloca(name), FALSE, FALSE)
<1> DEFINE first == layout[1]
           new   == InsertAlloca(name)
<1>1. first \in Ids /\ insert \in Ids
  BY InsertIsLaid DEF Shape
<1>2. CASE new = blocks
  BY <1>2, NothingAppended
<1>3. CASE blocks[first].body = "empty" /\ new = [blocks EXCEPT ![first].body = "open"]
  <2>1. blocks[first] \in Block /\ blocks \in Seq(Block)
    BY <1>1 DEF Shape, Ids
  <2>2. LET b == [blocks[first] EXCEPT !.body = "open"]
        IN  b \in Block /\ b.body = "open" /\ b.mid = blocks[first].mid
    BY <2>1 DEF Block
  <2>3. /\ new[first].body = "open" /\ new[first].mid = blocks[first].mid
        /\ \A i \in Ids : i # first => new[i] = blocks[i]
    BY <1>1, <1>3, <2>1, <2>2 DEF Ids
  <2> HIDE DEF new, first
  <2>4. \A i \in Ids : new[i].mid = blocks[i].mid
    BY <1>1, <2>3
  <2>5. new[insert].body = "closed" <=> blocks[insert].body = "closed"
    BY <1>1, <1>3, <2>3
  <2>6. Appended(new, FALSE, FALSE)
    BY <1>1, <2>4, <2>5 DEF Appended
  <2> QED
    BY <2>6 DEF new
<1> QED
  BY <1>2, <1>3 DEF InsertAlloca

-----------------------------------------------------------------------------
(* Statements that do not branch.                                          *)

\* A block that waits is neither the one the Builder is at nor the first.
LEMMA WaitingApart ==
  ASSUME Graph, NEW k \in Opens, NEW b \in Held(Open(k))
  PROVE  /\ b \in Ids /\ ~ Laid(b) /\ Len(layout) > 0
         /\ insert \in Ids /\ Laid(insert) /\ b # insert
         /\ Laid(layout[1]) /\ b # layout[1]
<1>1. Shape /\ Len(layout) > 0
  BY DEF Graph, Shape, Opens
<1>2. insert \in Ids /\ insert = layout[Len(layout)] /\ Len(layout) \in Nat
  BY <1>1, InsertIsLaid
<1>3. Laid(insert) /\ Laid(layout[1])
  BY <1>1, <1>2 DEF Laid
<1>4. b \in Ids /\ ~ Laid(b)
  BY DEF Graph, Placed
<1> QED
  BY <1>1, <1>2, <1>3, <1>4

\* A statement: it appends to the insert block, where the source can go on or not.
Straightly(emits, closes) ==
  /\ status = "running" /\ status' = "running" /\ fn # Null /\ fn' = fn
  /\ UNCHANGED << layout, insert, frames, saved, guessed >>
  /\ Filled(blocks', {}) /\ Appended(blocks', emits, closes)
  /\ closes => emits
  /\ reach' \in BOOLEAN /\ (reach' <=> reach /\ ~ closes)
  /\ dead' <=> dead \/ (emits /\ ~ reach)

LEMMA FlowStraight ==
  ASSUME Flow, Graph, NEW emits \in BOOLEAN, NEW closes \in BOOLEAN, Straightly(emits, closes)
  PROVE  Flow'
<1>1. /\ Len(layout) > 0 /\ insert \in Ids /\ Laid(insert)
      /\ Remembered /\ Waiting /\ CutLaid /\ Followed
  <2>1. Shape /\ Len(layout) > 0
    BY DEF Graph, Shape, Straightly
  <2>2. insert \in Ids /\ insert = layout[Len(layout)] /\ Len(layout) \in Nat
    BY <2>1, InsertIsLaid
  <2>3. Laid(insert)
    BY <2>1, <2>2 DEF Laid
  <2> QED
    BY <2>1, <2>2, <2>3 DEF Flow, Straightly
<1>2. Ids' = Ids
  BY DEF Ids, Straightly, Filled
<1>3. Remembered'
  BY <1>1 DEF Remembered, Straightly
<1>4. Waiting'
  <2>1. ASSUME NEW k \in Opens, NEW b \in Held(Open(k))
        PROVE  blocks'[b].body = "empty"
    BY <1>1, WaitingApart DEF Straightly, Filled, Waiting
  <2> QED
    BY <2>1 DEF Waiting, Held, Open, Opens, Straightly
<1>5. ASSUME NEW i \in Ids
      PROVE  blocks'[i].mid <=> blocks[i].mid \/ (i = insert /\ emits /\ blocks[insert].body = "closed")
  BY DEF Straightly, Appended
<1>6. CutLaid'
  <2>1. \A i \in Ids : blocks'[i].mid => Laid(i)
    BY <1>1, <1>5 DEF CutLaid
  <2> QED
    BY <1>2, <2>1 DEF CutLaid, Laid, Straightly
<1>7. Followed'
  <2>1. Cut' <=> Cut \/ (emits /\ blocks[insert].body = "closed")
    BY <1>1, <1>2, <1>5 DEF Cut
  <2>2. \A k \in Opens : Agreed(k)' <=> Agreed(k)
    BY DEF Agreed, Open, Opens, Saved, Straightly
  <2>3. ASSUME ~ guessed
        PROVE  /\ dead' <=> Cut'
               /\ ~ dead' => /\ blocks'[insert].body = "closed" <=> ~ reach'
                             /\ \A k \in Opens : Agreed(k)
    BY <1>1, <2>1, <2>3 DEF Followed, Straightly, Appended
  <2> QED
    BY <2>2, <2>3 DEF Followed, Straightly, Opens
<1> QED
  BY <1>3, <1>4, <1>6, <1>7 DEF Flow

-----------------------------------------------------------------------------
(* Statements that branch.                                                 *)

\* A statement is entered, and the reach before it is saved.
LEMMA SavedPushed ==
  ASSUME Remembered, Shape, saved' = << reach >> \o saved, Len(frames') = Len(frames) + 1
  PROVE  /\ saved' \in Seq(BOOLEAN) /\ Len(saved') = Len(frames')
         /\ \A k \in Opens : Saved(k)' = Saved(k)
         /\ \A k : k = Len(frames') => Saved(k)' = reach
<1>1. /\ saved \in Seq(BOOLEAN) /\ Len(saved) \in Nat /\ Len(saved) = Len(frames)
      /\ Len(saved') = Len(saved) + 1
      /\ saved' \in Seq(BOOLEAN)
      /\ saved'[1] = reach
      /\ \A j \in 1 .. Len(saved) : saved'[j + 1] = saved[j]
  BY DEF Remembered
<1>2. ASSUME NEW k \in Opens
      PROVE  Saved(k)' = Saved(k)
  <2>1. Len(saved) + 1 - k \in 1 .. Len(saved)
    BY <1>1 DEF Opens
  <2>2. Len(saved') + 1 - k = (Len(saved) + 1 - k) + 1
    BY <1>1 DEF Opens
  <2>3. saved'[(Len(saved) + 1 - k) + 1] = saved[Len(saved) + 1 - k]
    BY <1>1, <2>1
  <2> QED
    BY <2>2, <2>3 DEF Saved
<1>3. ASSUME NEW k, k = Len(frames')
      PROVE  Saved(k)' = reach
  <2>1. Len(saved') + 1 - k = 1
    <3>1. k = Len(saved) + 1 /\ Len(saved) \in Nat /\ Len(saved') = Len(saved) + 1
      BY <1>1, <1>3
    <3> QED
      BY <3>1
  <2>2. saved'[1] = reach
    BY <1>1, Zenon
  <2> QED
    BY <2>1, <2>2 DEF Saved
<1> QED
  BY <1>1, <1>2, <1>3

\* The innermost statement ends, or goes on with another reach to come back to.
LEMMA SavedPopped ==
  ASSUME Remembered, frames # << >>, Shape,
         \/ saved' = Tail(saved)
         \/ saved' = << reach >> \o Tail(saved)
  PROVE  /\ saved' \in Seq(BOOLEAN)
         /\ Len(saved') = IF saved' = Tail(saved) THEN Len(frames) - 1 ELSE Len(frames)
         /\ \A k \in 1 .. Len(frames) - 1 : Saved(k)' = Saved(k)
         /\ saved' # Tail(saved) => \A k : k = Len(frames) => Saved(k)' = reach
         /\ Saved(Len(frames)) = Head(saved) /\ Head(saved) \in BOOLEAN
<1>1. /\ saved \in Seq(BOOLEAN) /\ Len(saved) \in Nat /\ Len(saved) = Len(frames) /\ Len(saved) > 0
      /\ Head(saved) = saved[1] /\ Head(saved) \in BOOLEAN /\ reach \in BOOLEAN
  BY DEF Remembered, Shape
<1>2. Saved(Len(frames)) = Head(saved)
  BY <1>1 DEF Saved
<1>3. CASE saved' = Tail(saved)
  <2>1. /\ saved' \in Seq(BOOLEAN) /\ Len(saved') = Len(saved) - 1
        /\ \A j \in 1 .. Len(saved) - 1 : saved'[j] = saved[j + 1]
    BY <1>1, <1>3
  <2>2. ASSUME NEW k \in 1 .. Len(frames) - 1
        PROVE  Saved(k)' = Saved(k)
    <3>1. Len(saved) - k \in 1 .. Len(saved) - 1
      BY <1>1
    <3>2. Len(saved') + 1 - k = Len(saved) - k /\ (Len(saved) - k) + 1 = Len(saved) + 1 - k
      BY <1>1, <2>1
    <3> QED
      BY <2>1, <3>1, <3>2 DEF Saved
  <2> QED
    BY <1>1, <1>2, <1>3, <2>1, <2>2
<1>4. CASE saved' # Tail(saved) /\ saved' = << reach >> \o Tail(saved)
  <2>1. /\ saved' \in Seq(BOOLEAN) /\ Len(saved') = Len(saved)
        /\ saved'[1] = reach
        /\ \A j \in 2 .. Len(saved) : saved'[j] = saved[j]
    BY <1>1, <1>4
  <2>2. ASSUME NEW k \in 1 .. Len(frames) - 1
        PROVE  Saved(k)' = Saved(k)
    <3>1. Len(saved) + 1 - k \in 2 .. Len(saved)
      BY <1>1
    <3> QED
      BY <2>1, <3>1 DEF Saved
  <2>3. ASSUME NEW k, k = Len(frames)
        PROVE  Saved(k)' = reach
    <3>1. Len(saved') + 1 - k = 1
      BY <1>1, <2>1, <2>3
    <3> QED
      BY <2>1, <3>1 DEF Saved
  <2> QED
    BY <1>1, <1>2, <1>4, <2>1, <2>2, <2>3
<1> QED
  BY <1>3, <1>4

\* A statement that branches is entered.
Branches(f) ==
  /\ status = "running" /\ status' = "running" /\ fn # Null /\ fn' = fn
  /\ Len(layout) > 0
  /\ f \in Frame /\ f.kind \in {"then", "while"}
  /\ frames' = << f >> \o frames /\ saved' = << reach >> \o saved
  /\ UNCHANGED << reach, guessed >> /\ (dead' <=> dead \/ ~ reach)
  /\ \A i \in Ids : i \in Ids' /\ (i # insert => (blocks'[i].mid <=> blocks[i].mid))
  /\ blocks'[insert].mid <=> blocks[insert].mid \/ blocks[insert].body = "closed"
  /\ \A i \in Ids' : i \in Ids \/ ~ blocks'[i].mid
  /\ \A i \in Ids : blocks'[i].body = blocks[i].body \/ i = insert \/ i = layout[1]
  /\ blocks'[insert'].body = "empty"
  /\ \A b \in Held(f) : blocks'[b].body = "empty"
  /\ \A c : Laid(c) => Laid(c)'

LEMMA FlowBranches ==
  ASSUME Flow, Graph, NEW f, Branches(f)
  PROVE  Flow'
<1> DEFINE K == Len(frames)
<1>1. /\ Remembered /\ Waiting /\ CutLaid /\ Followed /\ Shape
      /\ insert \in Ids /\ Laid(insert) /\ K \in Nat /\ Opens = 1 .. K
  <2>1. Shape /\ Len(layout) > 0
    BY DEF Graph, Branches
  <2>2. insert \in Ids /\ insert = layout[Len(layout)] /\ Len(layout) \in Nat
    BY <2>1, InsertIsLaid
  <2>3. Laid(insert)
    BY <2>1, <2>2 DEF Laid
  <2> QED
    BY <2>1, <2>2, <2>3 DEF Flow, Branches, Shape, Opens
<1>2. /\ Len(frames') = K + 1 /\ Opens' = 1 .. K + 1
      /\ \A k \in 1 .. K : Open(k)' = Open(k)
      /\ \A k : k = K + 1 => Open(k)' = f
  BY <1>1, FramePushed DEF Branches, Opens
<1>3. /\ saved' \in Seq(BOOLEAN) /\ Len(saved') = Len(frames')
      /\ \A k \in 1 .. K : Saved(k)' = Saved(k)
      /\ \A k : k = K + 1 => Saved(k)' = reach
  BY <1>1, <1>2, SavedPushed DEF Branches
<1> HIDE DEF K
<1>4. Remembered'
  BY <1>1, <1>3 DEF Remembered, Branches
<1>5. Waiting'
  <2>1. ASSUME NEW k \in 1 .. K, NEW b \in Held(Open(k))
        PROVE  blocks'[b].body = "empty"
    <3>1. b \in Ids /\ b # insert /\ b # layout[1]
      BY <1>1, WaitingApart
    <3>2. blocks[b].body = "empty"
      BY <1>1 DEF Waiting
    <3> QED
      BY <3>1, <3>2 DEF Branches
  <2>2. ASSUME NEW k \in 1 .. K + 1, NEW b \in Held(Open(k)')
        PROVE  blocks'[b].body = "empty"
    <3>1. CASE k = K + 1
      <4>1. Open(k)' = f
        BY <1>2, <3>1
      <4> QED
        BY <2>2, <4>1 DEF Branches
    <3>2. CASE k \in 1 .. K
      <4>1. Open(k)' = Open(k)
        BY <1>2, <3>2
      <4> QED
        BY <2>1, <2>2, <3>2, <4>1
    <3> QED
      BY <1>1, <3>1, <3>2
  <2> QED
    BY <1>2, <2>2 DEF Waiting, Held
<1>6. ASSUME NEW i \in Ids'
      PROVE  blocks'[i].mid <=> i \in Ids /\ (blocks[i].mid \/ (i = insert /\ blocks[insert].body = "closed"))
  BY DEF Branches
<1>7. CutLaid'
  <2>1. ASSUME NEW i \in Ids', blocks'[i].mid
        PROVE  Laid(i)'
    <3>1. Laid(i)
      BY <1>1, <1>6, <2>1 DEF CutLaid
    <3> QED
      BY <3>1 DEF Branches
  <2> QED
    BY <2>1 DEF CutLaid
<1>8. Followed'
  <2>1. \A i \in Ids : i \in Ids'
    BY DEF Branches
  <2>2. Cut' <=> Cut \/ blocks[insert].body = "closed"
    BY <1>1, <1>6, <2>1 DEF Cut
  <2>3. ASSUME ~ guessed, ~ dead', NEW k \in 1 .. K + 1
        PROVE  /\ Open(k)'.kind \in {"then", "while"} => Saved(k)'
               /\ Open(k)'.kind = "else" => (Saved(k)' <=> Open(k)'.jumpGenerated)
    <3>1. CASE k = K + 1
      <4>1. Open(k)' = f /\ Saved(k)' = reach
        BY <1>2, <1>3, <3>1
      <4> QED
        BY <2>3, <4>1 DEF Branches
    <3>2. CASE k \in 1 .. K
      <4>1. Open(k)' = Open(k) /\ Saved(k)' = Saved(k)
        BY <1>2, <1>3, <3>2
      <4>2. Agreed(k)
        BY <1>1, <2>3, <3>2 DEF Followed, Branches
      <4> QED
        BY <4>1, <4>2 DEF Agreed
    <3> QED
      BY <1>1, <3>1, <3>2
  <2>4. ASSUME ~ guessed
        PROVE  /\ dead' <=> Cut'
               /\ ~ dead' => (blocks'[insert'].body = "closed" <=> ~ reach')
    BY <1>1, <2>2, <2>4 DEF Followed, Branches
  <2>5. \A k \in Opens' : ~ guessed /\ ~ dead' => Agreed(k)'
    BY <1>2, <2>3 DEF Agreed
  <2> QED
    BY <2>4, <2>5 DEF Followed, Branches
<1> QED
  BY <1>4, <1>5, <1>7, <1>8 DEF Flow

\* The end of an arm or a loop body as the Flow sees it: what is asked for its
\* last instruction is not empty.
LEMMA LeftAppends ==
  ASSUME Graph, frames # << >>, NEW bb \in Nat, NEW isTerminator \in BackIsTerminator,
         LeaveFor(bb, isTerminator)
  PROVE  /\ isTerminator => blocks' = blocks
         /\ ~ isTerminator => Appended(blocks', TRUE, TRUE)
         /\ Last(layout) = insert
         /\ blocks[insert].body # "empty" => (isTerminator <=> blocks[insert].body = "closed")
<1>1. /\ Shape /\ Len(layout) > 0
      /\ insert \in Ids /\ insert = layout[Len(layout)]
  BY InsertIsLaid DEF Graph, Shape
<1>2. Last(layout) = insert
  BY <1>1 DEF Last
<1>3. blocks[insert].body # "empty" => (isTerminator <=> blocks[insert].body = "closed")
  <2> SUFFICES ASSUME blocks[insert].body # "empty"
               PROVE  isTerminator <=> blocks[insert].body = "closed"
    OBVIOUS
  <2>1. BackIsTerminator = {blocks[insert].body = "closed"}
    BY <1>2 DEF BackIsTerminator
  <2>2. isTerminator = (blocks[insert].body = "closed")
    BY <2>1
  <2> QED
    BY <2>2
<1>4. isTerminator => blocks' = blocks
  BY DEF LeaveFor
<1>5. ~ isTerminator => Appended(blocks', TRUE, TRUE)
  <2>1. Appended(EmitTerminator(blocks, insert, {bb}), TRUE, TRUE)
    BY <1>1, NothingFilled, NothingAppended, TerminatorAppended
  <2> QED
    BY <2>1 DEF LeaveFor
<1> QED
  BY <1>2, <1>3, <1>4, <1>5

\* What follows in the source can be reached from where the statement began, or
\* from the end of its part.
Resumes(isTerminator) ==
  /\ status = "running" /\ status' = "running" /\ fn' = fn
  /\ isTerminator => blocks' = blocks
  /\ ~ isTerminator => Appended(blocks', TRUE, TRUE)
  /\ blocks[insert].body # "empty" => (isTerminator <=> blocks[insert].body = "closed")
  /\ guessed' <=> guessed \/ blocks[insert].body = "empty"
  /\ dead' = dead
  /\ \/ /\ Head(frames).kind = "then"
        /\ reach' = Head(saved) /\ saved' = << reach >> \o Tail(saved) /\ saved' # Tail(saved)
     \/ /\ Head(frames).kind = "else"
        /\ reach' = (reach \/ Head(saved)) /\ saved' = Tail(saved)
     \/ /\ Head(frames).kind = "while"
        /\ reach' = Head(saved) /\ saved' = Tail(saved)

LEMMA FlowFollows ==
  ASSUME Flow, Graph, NEW b, NEW bb, NEW isTerminator \in BOOLEAN,
         Follows(b, bb, isTerminator), Resumes(isTerminator)
  PROVE  Flow'
<1> DEFINE K == Len(frames)
           h == Open(K)
<1>1. /\ Remembered /\ Waiting /\ CutLaid /\ Followed /\ Shape
      /\ frames # << >> /\ Len(layout) > 0
      /\ insert \in Ids /\ Laid(insert) /\ Opens = 1 .. K
  <2>1. Shape /\ Len(layout) > 0 /\ frames # << >>
    BY DEF Graph, Follows
  <2>2. insert \in Ids /\ insert = layout[Len(layout)] /\ Len(layout) \in Nat
    BY <2>1, InsertIsLaid
  <2>3. Laid(insert)
    BY <2>1, <2>2 DEF Laid
  <2> QED
    BY <2>1, <2>2, <2>3 DEF Flow, Resumes, Opens
<1>2. /\ K \in Nat /\ K > 0 /\ K \in Opens
      /\ h = Head(frames) /\ h \in Frame
      /\ Len(frames') = IF h.kind = "then" THEN K ELSE K - 1
      /\ \A k \in 1 .. K - 1 : Open(k)' = Open(k)
      /\ h.kind = "then" => \A k : k = K => Open(k)' = ElseFrame(h, isTerminator)
  BY <1>1, FollowsFrames
<1>3. /\ saved' \in Seq(BOOLEAN)
      /\ Len(saved') = Len(frames')
      /\ \A k \in 1 .. K - 1 : Saved(k)' = Saved(k)
      /\ h.kind = "then" => \A k : k = K => Saved(k)' = reach
      /\ Saved(K) = Head(saved) /\ Head(saved) \in BOOLEAN
  BY <1>1, <1>2, SavedPopped DEF Resumes
<1>4. b \in Held(h) /\ insert' = b
  BY <1>2 DEF Follows, Held
<1>5. /\ Len(blocks') = Len(blocks) /\ Ids' = Ids
      /\ \A i \in Ids : blocks'[i].body = blocks[i].body \/ i = insert \/ i = layout[1]
  BY DEF Follows, Filled, Ids
<1>6. \A c : Laid(c) => Laid(c)'
  <2>1. b \in Nat
    BY <1>1, <1>2, <1>4 DEF Graph, Placed, Ids
  <2> QED
    BY <1>1, <2>1, LaidBehind DEF Follows
<1>7. ASSUME NEW k \in Opens, NEW c \in Held(Open(k))
      PROVE  blocks'[c].body = "empty"
  <2>1. c \in Ids /\ c # insert /\ c # layout[1]
    BY WaitingApart
  <2>2. blocks[c].body = "empty"
    BY <1>1 DEF Waiting
  <2> QED
    BY <1>5, <2>1, <2>2
<1>8. Opens' = 1 .. Len(frames') /\ \A k \in Opens' : k \in 1 .. K - 1 \/ (k = K /\ h.kind = "then")
  BY <1>2 DEF Opens
<1>9. h.kind = "then" => /\ Held(h) = {h.elseBB, h.mergeBB}
                         /\ Held(ElseFrame(h, isTerminator)) = {h.mergeBB}
                         /\ ElseFrame(h, isTerminator).kind = "else"
                         /\ ElseFrame(h, isTerminator).jumpGenerated = ~ isTerminator
  BY DEF ElseFrame, Held
<1>10. \A k \in 1 .. K - 1 : k \in Opens
  BY <1>1, <1>2
<1> HIDE DEF K, h
<1>11. Remembered'
  BY <1>1, <1>3 DEF Remembered, Resumes
<1>12. Waiting'
  <2>1. ASSUME NEW k \in Opens', NEW c \in Held(Open(k)')
        PROVE  blocks'[c].body = "empty"
    <3>1. CASE k \in 1 .. K - 1
      BY <1>2, <1>7, <1>10, <2>1, <3>1
    <3>2. CASE k = K /\ h.kind = "then"
      <4>1. Open(k)' = ElseFrame(h, isTerminator) /\ Open(k) = h /\ k \in Opens
        BY <1>2, <3>2 DEF h
      <4>2. c \in Held(Open(k))
        BY <1>9, <2>1, <3>2, <4>1
      <4> QED
        BY <1>7, <4>1, <4>2
    <3> QED
      BY <1>8, <3>1, <3>2
  <2> QED
    BY <2>1 DEF Waiting, Held
<1>13. ASSUME NEW i \in Ids
       PROVE  blocks'[i].mid <=> blocks[i].mid \/ (~ isTerminator /\ i = insert /\ blocks[insert].body = "closed")
  BY DEF Resumes, Appended
<1>14. CutLaid'
  <2>1. ASSUME NEW i \in Ids, blocks'[i].mid
        PROVE  Laid(i)'
    <3>1. Laid(i)
      BY <1>1, <1>13, <2>1 DEF CutLaid
    <3> QED
      BY <1>6, <3>1
  <2> QED
    BY <1>5, <2>1 DEF CutLaid
<1>15. ASSUME fn # Null, ~ guessed'
       PROVE  /\ dead' <=> Cut'
              /\ ~ dead' => /\ blocks'[insert'].body = "closed" <=> ~ reach'
                            /\ \A k \in Opens' : Agreed(k)'
  <2>1. ~ guessed /\ (isTerminator <=> blocks[insert].body = "closed")
    BY <1>15 DEF Resumes
  <2>2. Cut' <=> Cut
    BY <1>5, <1>13, <2>1 DEF Cut
  <2>3. dead' <=> Cut'
    BY <1>1, <1>15, <2>1, <2>2 DEF Followed, Resumes
  <2>4. ASSUME ~ dead'
        PROVE  /\ isTerminator <=> ~ reach
               /\ \A k \in Opens : Agreed(k)
    BY <1>1, <1>15, <2>1, <2>4 DEF Followed, Resumes
  <2>5. blocks'[insert'].body = "empty"
    BY <1>2, <1>4, <1>7 DEF h
  <2>6. ASSUME ~ dead'
        PROVE  reach'
    <3>1. Agreed(K)
      BY <1>2, <2>4, <2>6
    <3>2. /\ h.kind \in {"then", "while"} => Head(saved)
          /\ h.kind = "else" => (Head(saved) <=> h.jumpGenerated)
      BY <1>3, <3>1 DEF Agreed, h
    <3>3. h.kind = "else" => h.jumpGenerated \/ ~ isTerminator
      BY <1>2 DEF Follows
    <3> QED
      BY <1>2, <2>4, <2>6, <3>2, <3>3 DEF Resumes
  <2>7. ASSUME ~ dead', NEW k \in Opens'
        PROVE  Agreed(k)'
    <3>1. CASE k \in 1 .. K - 1
      <4>1. Agreed(k) /\ Open(k)' = Open(k) /\ Saved(k)' = Saved(k)
        BY <1>2, <1>3, <1>10, <2>4, <2>7, <3>1
      <4> QED
        BY <4>1 DEF Agreed
    <3>2. CASE k = K /\ h.kind = "then"
      <4>1. Open(k)' = ElseFrame(h, isTerminator) /\ Saved(k)' = reach
        BY <1>2, <1>3, <3>2
      <4>2. Open(k)'.kind = "else" /\ (Saved(k)' <=> Open(k)'.jumpGenerated)
        BY <1>9, <2>4, <2>7, <3>2, <4>1
      <4> QED
        BY <4>2 DEF Agreed
    <3> QED
      BY <1>8, <3>1, <3>2
  <2> QED
    BY <2>3, <2>5, <2>6, <2>7
<1>16. Followed'
  BY <1>15 DEF Followed, Resumes
<1> QED
  BY <1>11, <1>12, <1>14, <1>16 DEF Flow

-----------------------------------------------------------------------------
(* Steps that leave the blocks alone.                                      *)

LEMMA FlowAside ==
  ASSUME Flow, UNCHANGED << cfg, frames, flow, status >>, fn' \in {fn, Null}
  PROVE  Flow'
<1>1. /\ blocks' = blocks /\ layout' = layout /\ insert' = insert /\ frames' = frames
      /\ reach' = reach /\ saved' = saved /\ dead' = dead /\ guessed' = guessed /\ status' = status
  BY DEF cfg, flow
<1>2. Ids' = Ids /\ Opens' = Opens
  BY <1>1 DEF Ids, Opens
<1>3. Remembered => Remembered'
  BY <1>1 DEF Remembered
<1>4. Waiting => Waiting'
  BY <1>1 DEF Waiting, Held, Open, Opens
<1>5. CutLaid => CutLaid'
  BY <1>1, <1>2 DEF CutLaid, Laid
<1>6. Cut' <=> Cut
  BY <1>1, <1>2 DEF Cut
<1>7. \A k \in Opens : Agreed(k) => Agreed(k)'
  BY <1>1 DEF Agreed, Open, Saved
<1>8. Followed => Followed'
  BY <1>1, <1>2, <1>6, <1>7 DEF Followed
<1> QED
  BY <1>1, <1>3, <1>4, <1>5, <1>8 DEF Flow

\* A body begins: its first statement can be reached.
LEMMA FlowStarts ==
  ASSUME StartBody, frames' = << >>, saved' = << >>, reach' = TRUE, dead' = FALSE
  PROVE  Flow'
<1>1. NewBlock.body = "empty" /\ NewBlock.mid = FALSE
  BY DEF NewBlock
<1>2. Opens' = {} /\ saved' \in Seq(BOOLEAN) /\ Len(saved') = Len(frames') /\ Ids' = 1 .. 1
      /\ blocks'[1] = NewBlock /\ insert' = 1
  BY DEF Opens, Ids, StartBody
<1>3. Remembered' /\ Waiting'
  BY <1>2 DEF Remembered, Waiting
<1>4. ~ Cut' /\ CutLaid'
  BY <1>1, <1>2 DEF Cut, CutLaid
<1>5. Followed'
  BY <1>1, <1>2, <1>4 DEF Followed
<1> QED
  BY <1>3, <1>4, <1>5 DEF Flow

\* No body is generated.
LEMMA FlowStops ==
  ASSUME fn' = Null, blocks' = << >>, frames' = << >>, saved' = << >>, reach' \in BOOLEAN
  PROVE  Flow'
<1>1. Opens' = {} /\ saved' \in Seq(BOOLEAN) /\ Len(saved') = Len(frames') /\ Ids' = {}
  BY DEF Opens, Ids
<1>2. Remembered' /\ Waiting' /\ CutLaid' /\ Followed'
  BY <1>1 DEF Remembered, Waiting, CutLaid, Followed
<1> QED
  BY <1>2 DEF Flow

\* A block is entered.
LEMMA FlowPushed ==
  ASSUME Flow, Graph, status = "running", UNCHANGED cfg, fn' = fn,
         frames' = << [kind |-> "block"] >> \o frames, saved' = << reach >> \o saved,
         UNCHANGED << reach, dead, guessed >>
  PROVE  Flow'
<1> DEFINE K == Len(frames)
           f == [kind |-> "block"]
<1>1. Shape /\ Remembered /\ Waiting /\ CutLaid /\ Followed /\ K \in Nat /\ Opens = 1 .. K
  BY DEF Graph, Shape, Opens, Flow
<1>2. blocks' = blocks /\ layout' = layout /\ insert' = insert /\ Ids' = Ids
  BY DEF cfg, Ids
<1>3. f \in Frame /\ f.kind = "block" /\ Held(f) = {}
  BY DEF Frame, Held
<1>4. /\ Len(frames') = K + 1
      /\ \A k \in 1 .. K : Open(k)' = Open(k)
      /\ \A k : k = K + 1 => Open(k)' = f
      /\ Opens' = 1 .. K + 1
  BY <1>1, <1>3, FramePushed DEF Opens
<1>5. /\ saved' \in Seq(BOOLEAN) /\ Len(saved') = Len(frames')
      /\ \A k \in 1 .. K : Saved(k)' = Saved(k)
  BY <1>1, <1>4, SavedPushed
<1> HIDE DEF K, f
<1>6. ASSUME NEW k \in Opens'
      PROVE  \/ k \in Opens /\ Open(k)' = Open(k) /\ Saved(k)' = Saved(k)
             \/ Open(k)' = f
  BY <1>1, <1>4, <1>5
<1>7. Remembered'
  BY <1>1, <1>5 DEF Remembered
<1>8. Waiting'
  <2>1. ASSUME NEW k \in Opens', NEW b \in Held(Open(k)')
        PROVE  blocks[b].body = "empty"
    BY <1>1, <1>3, <1>6 DEF Waiting
  <2> QED
    BY <1>2, <2>1 DEF Waiting, Held
<1>9. CutLaid' /\ (Cut' <=> Cut)
  BY <1>1, <1>2 DEF CutLaid, Laid, Cut
<1>10. ASSUME NEW k \in Opens', \A l \in Opens : Agreed(l)
       PROVE  Agreed(k)'
  <2>1. \/ k \in Opens /\ Open(k)' = Open(k) /\ Saved(k)' = Saved(k)
        \/ Open(k)'.kind = "block"
    BY <1>3, <1>6
  <2> QED
    BY <1>10, <2>1 DEF Agreed
<1>11. Followed'
  BY <1>1, <1>2, <1>9, <1>10 DEF Followed
<1> QED
  BY <1>7, <1>8, <1>9, <1>11 DEF Flow

\* A block ends, or an if that nothing goes on behind.
LEMMA FlowPopped ==
  ASSUME Flow, Graph, status = "running", UNCHANGED cfg, fn' = fn, frames # << >>,
         frames' = Tail(frames), saved' = Tail(saved), dead' = dead, guessed => guessed',
         reach' \in BOOLEAN,
         fn # Null /\ ~ guessed' /\ ~ dead => (reach' <=> reach)
  PROVE  Flow'
<1> DEFINE K == Len(frames)
<1>1. Shape /\ Remembered /\ Waiting /\ CutLaid /\ Followed /\ K \in Nat /\ Opens = 1 .. K /\ K > 0
  BY DEF Graph, Shape, Opens, Flow
<1>2. blocks' = blocks /\ layout' = layout /\ insert' = insert /\ Ids' = Ids
  BY DEF cfg, Ids
<1>3. /\ Len(frames') = K - 1
      /\ \A k \in 1 .. K - 1 : Open(k)' = Open(k)
      /\ Opens' = 1 .. K - 1
  BY <1>1, FramePopped DEF Opens
<1>4. /\ saved' \in Seq(BOOLEAN) /\ Len(saved') = Len(frames')
      /\ \A k \in 1 .. K - 1 : Saved(k)' = Saved(k)
  BY <1>1, <1>3, SavedPopped
<1> HIDE DEF K
<1>5. ASSUME NEW k \in Opens'
      PROVE  k \in Opens /\ Open(k)' = Open(k) /\ Saved(k)' = Saved(k)
  BY <1>1, <1>3, <1>4
<1>6. Remembered'
  BY <1>4 DEF Remembered
<1>7. Waiting'
  <2>1. ASSUME NEW k \in Opens', NEW b \in Held(Open(k)')
        PROVE  blocks[b].body = "empty"
    BY <1>1, <1>5 DEF Waiting
  <2> QED
    BY <1>2, <2>1 DEF Waiting, Held
<1>8. CutLaid' /\ (Cut' <=> Cut)
  BY <1>1, <1>2 DEF CutLaid, Laid, Cut
<1>9. ASSUME NEW k \in Opens', \A l \in Opens : Agreed(l)
      PROVE  Agreed(k)'
  BY <1>5, <1>9 DEF Agreed
<1>10. Followed'
  BY <1>1, <1>2, <1>8, <1>9 DEF Followed
<1> QED
  BY <1>6, <1>7, <1>8, <1>10 DEF Flow

-----------------------------------------------------------------------------
(* The actions.                                                            *)

LEMMA FlowVarDecl ==
  ASSUME Flow, Graph, NEW name \in VarNames, NEW type \in VarTypes,
         GenerateVarDecl(name, type), Straight(FALSE)
  PROVE  Flow'
<1>1. status = "running" /\ fn # Null /\ Shape /\ Len(layout) > 0 /\ Remembered
  BY DEF Graph, Shape, GenerateVarDecl, NextStatement, Flow
<1>2. blocks' = InsertAlloca(name)
  BY DEF GenerateVarDecl
<1>3. Filled(blocks', {}) /\ Appended(blocks', FALSE, FALSE)
  BY <1>1, <1>2, AllocaFilled, AllocaAppended
<1>4. Straightly(FALSE, FALSE)
  BY <1>1, <1>3 DEF Straightly, GenerateVarDecl, Proceed, Straight, Remembered
<1> QED
  BY <1>4, FlowStraight

LEMMA FlowExprStmt ==
  ASSUME Flow, Graph, NEW expr \in Exprs, GenerateExprStmt(expr), Straight(expr.emits)
  PROVE  Flow'
<1>1. status = "running" /\ fn # Null /\ Shape /\ insert \in Ids /\ Remembered
  BY InsertIsLaid DEF Graph, Shape, GenerateExprStmt, NextStatement, Flow
<1>2. CASE expr.outcome = "crash"
  BY <1>2 DEF GenerateExprStmt, Crash, Flow
<1>3. CASE expr.outcome # "crash"
  <2>1. blocks' = EmitExpr(blocks, expr) /\ Proceed /\ UNCHANGED << layout, insert >>
    BY <1>3 DEF GenerateExprStmt
  <2>2. Filled(blocks', {})
    BY <1>1, <2>1, ExprFilled
  <2>3. CASE expr.emits
    <3>1. Appended(blocks', TRUE, FALSE)
      BY <1>1, <2>1, <2>3, ExprAppended
    <3>2. Straightly(TRUE, FALSE)
      BY <1>1, <2>1, <2>2, <2>3, <3>1 DEF Straightly, Proceed, Straight, Remembered
    <3> QED
      BY <3>2, FlowStraight
  <2>4. CASE ~ expr.emits
    <3>1. Appended(blocks', FALSE, FALSE)
      BY <1>1, <2>1, <2>4, ExprAppended
    <3>2. Straightly(FALSE, FALSE)
      BY <1>1, <2>1, <2>2, <2>4, <3>1 DEF Straightly, Proceed, Straight, Remembered
    <3> QED
      BY <3>2, FlowStraight
  <2> QED
    BY <2>3, <2>4
<1> QED
  BY <1>2, <1>3

LEMMA FlowReturn ==
  ASSUME Flow, Graph, NEW value \in Exprs \cup {Null}, GenerateReturn(value),
         reach' = FALSE, dead' = (dead \/ ~ reach), UNCHANGED << saved, guessed >>
  PROVE  Flow'
<1>1. status = "running" /\ fn # Null /\ Shape /\ insert \in Ids /\ Remembered
  BY InsertIsLaid DEF Graph, Shape, GenerateReturn, NextStatement, Flow
<1>2. CASE value # Null /\ value.outcome = "crash"
  BY <1>2 DEF GenerateReturn, Crash, Flow
<1>3. CASE ~ (value # Null /\ value.outcome = "crash")
  <2>1. /\ \/ blocks' = EmitTerminator(blocks, insert, {})
           \/ blocks' = EmitTerminator(EmitExpr(blocks, value), insert, {})
        /\ Proceed /\ UNCHANGED << layout, insert >>
    BY <1>3 DEF GenerateReturn
  <2>2. Filled(blocks, {}) /\ Filled(EmitExpr(blocks, value), {})
    BY <1>1, NothingFilled, ExprFilled
  <2>3. /\ Appended(blocks, FALSE, FALSE)
        /\ \E emits \in BOOLEAN : Appended(EmitExpr(blocks, value), emits, FALSE)
    BY <1>1, NothingAppended, ExprAppended
  <2>4. Filled(blocks', {})
    BY <1>1, <2>1, <2>2, TerminatorCloses DEF Closed
  <2>5. Appended(blocks', TRUE, TRUE)
    BY <1>1, <2>1, <2>2, <2>3, TerminatorAppended
  <2>6. Straightly(TRUE, TRUE)
    BY <1>1, <2>1, <2>4, <2>5 DEF Straightly, Proceed, Remembered
  <2> QED
    BY <2>6, FlowStraight
<1> QED
  BY <1>2, <1>3

\* A variable that is declared where it is assigned has an alloca.
LEMMA DeclaredFound ==
  ASSUME Keyed, NullApart, fn # Null, NEW name \in VarNames, NEW type \in VarTypes
  PROVE  FindAlloca(CreateAlloca(name, type), name) # Null
<1> DEFINE alloca == [fn |-> fn, name |-> name, type |-> type]
           values == CreateAlloca(name, type)
<1>1. values = [k \in DOMAIN AllocaValues \cup {Mangle(fn, name)} |->
                  IF k \in DOMAIN AllocaValues THEN AllocaValues[k] ELSE alloca]
  BY DEF CreateAlloca, Insert
<1>2. alloca \in Allocas
  BY DEF Keyed, Allocas
<1>3. \A k \in DOMAIN values : values[k] \in Allocas
  BY <1>1, <1>2 DEF Keyed
<1>4. Mangle(fn, name) \in DOMAIN values
  BY <1>1
<1> QED
  BY <1>3, <1>4 DEF FindAlloca, NullApart

LEMMA FlowAssign ==
  ASSUME Flow, Graph, Keyed, NullApart,
         NEW decl \in VarTypes \cup {Null}, NEW lvar \in VarNames, NEW value \in Exprs,
         GenerateAssign(decl, lvar, value),
         Straight(decl # Null \/ FindAlloca(AllocaValues, lvar) # Null)
  PROVE  Flow'
<1> DEFINE values == IF decl = Null THEN AllocaValues ELSE CreateAlloca(lvar, decl)
           bs     == IF decl = Null THEN blocks ELSE InsertAlloca(lvar)
           alloca == FindAlloca(values, lvar)
           emits  == decl # Null \/ FindAlloca(AllocaValues, lvar) # Null
<1>1. status = "running" /\ fn # Null /\ Shape /\ Len(layout) > 0 /\ insert \in Ids /\ Remembered
  BY InsertIsLaid DEF Graph, Shape, GenerateAssign, NextStatement, Flow
<1>2. Filled(bs, {}) /\ Appended(bs, FALSE, FALSE)
  BY <1>1, NothingFilled, NothingAppended, AllocaFilled, AllocaAppended
<1>3. emits <=> alloca # Null
  <2>1. CASE decl = Null
    BY <2>1
  <2>2. CASE decl # Null
    BY <1>1, <2>2, DeclaredFound
  <2> QED
    BY <2>1, <2>2
<1>4. \/ /\ alloca = Null /\ blocks' = bs /\ Proceed /\ UNCHANGED << layout, insert >>
      \/ /\ alloca # Null /\ blocks' = [bs EXCEPT ![insert] = AddOp(@)]
         /\ Proceed /\ UNCHANGED << layout, insert >>
      \/ Crash
  BY DEF GenerateAssign
<1>5. (dead' <=> dead \/ (emits /\ ~ reach)) /\ UNCHANGED << reach, saved, guessed >>
  BY DEF Straight
<1> HIDE DEF bs, alloca, emits, values
<1>6. CASE Crash
  BY <1>6 DEF Crash, Flow
<1>7. CASE alloca = Null /\ blocks' = bs /\ Proceed /\ UNCHANGED << layout, insert >>
  <2>1. ~ emits
    BY <1>3, <1>7
  <2>2. Straightly(FALSE, FALSE)
    BY <1>1, <1>2, <1>5, <1>7, <2>1 DEF Straightly, Proceed, Remembered
  <2> QED
    BY <2>2, FlowStraight
<1>8. CASE /\ alloca # Null /\ blocks' = [bs EXCEPT ![insert] = AddOp(@)]
           /\ Proceed /\ UNCHANGED << layout, insert >>
  <2>1. emits
    BY <1>3, <1>8
  <2>2. Filled(blocks', {}) /\ Appended(blocks', TRUE, FALSE)
    BY <1>1, <1>2, <1>8, OpFilled, OpAppended
  <2>3. Straightly(TRUE, FALSE)
    BY <1>1, <1>5, <1>8, <2>1, <2>2 DEF Straightly, Proceed, Remembered
  <2> QED
    BY <2>3, FlowStraight
<1> QED
  BY <1>4, <1>6, <1>7, <1>8

LEMMA FlowIf ==
  ASSUME Flow, Graph, NEW cond, NEW tru, NEW fals \in BOOLEAN, GenerateIf(cond, tru, fals), Into
  PROVE  Flow'
<1> DEFINE n  == Len(blocks)
           bs == EmitTerminator(EmitExpr(blocks, cond), insert, {n + 1, n + 2})
           f  == [kind |-> "then", fals |-> fals, elseBB |-> n + 2, mergeBB |-> n + 3]
<1>1. /\ status = "running" /\ fn # Null /\ Shape /\ Len(layout) > 0 /\ insert \in Ids /\ n \in Nat
      /\ Ids = 1 .. n
  BY InsertIsLaid DEF Graph, Shape, GenerateIf, NextStatement, Ids
<1>2. CASE Crash
  BY <1>2 DEF Crash, Flow
<1>3. CASE ~ Crash
  <2>1. /\ blocks' = bs \o << NewBlock, NewBlock, NewBlock >>
        /\ layout' = Append(layout, n + 1)
        /\ insert' = n + 1
        /\ frames' = << f >> \o frames /\ fn' = fn /\ status' = status
    BY <1>3 DEF GenerateIf, Enter
  <2>2. {n + 1, n + 2} \in SUBSET Nat
    BY <1>1
  <2>3. Closed(bs, {n + 1, n + 2})
    BY <1>1, <2>2, ExprFilled, TerminatorCloses
  <2>4. Appended(bs, TRUE, TRUE)
    <3>1. \E emits \in BOOLEAN : Appended(EmitExpr(blocks, cond), emits, FALSE)
      BY <1>1, ExprAppended
    <3> QED
      BY <1>1, <2>2, <3>1, ExprFilled, TerminatorAppended
  <2> HIDE DEF bs
  <2>5. /\ bs \in Seq(Block) /\ Len(bs) = n
        /\ \A i \in Ids : bs[i].body = blocks[i].body \/ i = insert \/ i = layout[1]
    BY <2>3 DEF Closed, Filled
  <2>6. /\ Len(blocks') = n + 3 /\ Ids' = 1 .. n + 3
        /\ \A i \in 1 .. n : blocks'[i] = bs[i]
        /\ \A i \in n + 1 .. n + 3 : blocks'[i] = NewBlock
    <3>1. /\ Len(blocks') = Len(bs) + 3
          /\ \A i \in 1 .. Len(bs) : blocks'[i] = bs[i]
          /\ \A i \in Len(bs) + 1 .. Len(bs) + 3 : blocks'[i] = NewBlock
      BY <2>1, <2>5, ThreeCreated
    <3> QED
      BY <2>5, <3>1 DEF Ids
  <2>7. NewBlock.body = "empty" /\ NewBlock.mid = FALSE
    BY DEF NewBlock
  <2>8. f \in Frame /\ f.kind = "then" /\ Held(f) = {n + 2, n + 3}
    BY <1>1 DEF Frame, Held
  <2>9. \A c : Laid(c) => Laid(c)'
    BY <1>1, <2>1, LaidBehind
  <2> HIDE DEF f, n
  <2>10. \A i \in Ids : i \in Ids' /\ (i # insert => (blocks'[i].mid <=> blocks[i].mid))
    BY <1>1, <2>4, <2>6 DEF Appended
  <2>11. blocks'[insert].mid <=> blocks[insert].mid \/ blocks[insert].body = "closed"
    BY <1>1, <2>4, <2>6 DEF Appended
  <2>12. \A i \in Ids' : i \in Ids \/ ~ blocks'[i].mid
    BY <1>1, <2>6, <2>7
  <2>13. \A i \in Ids : blocks'[i].body = blocks[i].body \/ i = insert \/ i = layout[1]
    BY <1>1, <2>5, <2>6
  <2>14. blocks'[insert'].body = "empty" /\ \A b \in Held(f) : blocks'[b].body = "empty"
    BY <1>1, <2>1, <2>6, <2>7, <2>8
  <2>15. Branches(f)
    BY <1>1, <2>1, <2>8, <2>9, <2>10, <2>11, <2>12, <2>13, <2>14 DEF Branches, Into
  <2> QED
    BY <2>15, FlowBranches
<1> QED
  BY <1>2, <1>3

LEMMA FlowWhile ==
  ASSUME Flow, Graph, NEW cond, NEW hasBody, GenerateWhile(cond, hasBody), Into
  PROVE  Flow'
<1> DEFINE n  == Len(blocks)
           bs == EmitTerminator(blocks, insert, {n + 1})
           cb == [NewBlock EXCEPT !.body = IF cond.emits THEN "open" ELSE "empty"]
           cs == bs \o << cb, NewBlock, NewBlock >>
           f  == [kind |-> "while", condBB |-> n + 1, contBB |-> n + 3]
<1>1. /\ status = "running" /\ fn # Null /\ Shape /\ Len(layout) > 0 /\ insert \in Ids /\ n \in Nat
      /\ Ids = 1 .. n
  BY InsertIsLaid DEF Graph, Shape, GenerateWhile, NextStatement, Ids
<1>2. CASE Crash
  BY <1>2 DEF Crash, Flow
<1>3. CASE ~ Crash
  <2>1. /\ blocks' = EmitTerminator(cs, n + 1, {n + 2, n + 3})
        /\ layout' = layout \o << n + 1, n + 2 >>
        /\ insert' = n + 2
        /\ frames' = << f >> \o frames /\ fn' = fn /\ status' = status
    BY <1>3 DEF GenerateWhile, Enter
  <2>2. {n + 1} \in SUBSET Nat /\ {n + 2, n + 3} \in SUBSET Nat
    BY <1>1
  <2>3. Closed(bs, {n + 1}) /\ Appended(bs, TRUE, TRUE)
    BY <1>1, <2>2, NothingFilled, NothingAppended, TerminatorCloses, TerminatorAppended
  <2>4. /\ bs \in Seq(Block) /\ Len(bs) = n
        /\ \A i \in Ids : bs[i].body = blocks[i].body \/ i = insert \/ i = layout[1]
    BY <2>3 DEF Closed, Filled
  <2>5. /\ cb \in Block /\ cb.mid = FALSE /\ cb.body # "closed"
        /\ NewBlock \in Block /\ NewBlock.mid = FALSE /\ NewBlock.body = "empty"
    BY DEF NewBlock, Block
  <2>6. f \in Frame /\ f.kind = "while" /\ Held(f) = {n + 3}
    BY <1>1 DEF Frame, Held
  <2> HIDE DEF bs, cb, f, n
  <2>7. /\ cs \in Seq(Block) /\ Len(cs) = n + 3
        /\ \A i \in 1 .. n : cs[i] = bs[i]
        /\ cs[n + 1] = cb /\ cs[n + 2] = NewBlock /\ cs[n + 3] = NewBlock
    BY <1>1, <2>4, <2>5
  <2> HIDE DEF cs
  <2>8. LET b == AddTerminator(cb, {n + 2, n + 3})
        IN  b \in Block /\ b.mid = FALSE
    BY <2>2, <2>5 DEF AddTerminator, Block
  <2>9. blocks' = [cs EXCEPT ![n + 1] = AddTerminator(cb, {n + 2, n + 3})] /\ n + 1 \in 1 .. Len(cs)
    BY <1>1, <2>1, <2>7 DEF EmitTerminator
  <2>10. /\ Len(blocks') = n + 3
         /\ blocks'[n + 1] = AddTerminator(cb, {n + 2, n + 3})
         /\ \A i \in 1 .. n + 3 : i # n + 1 => blocks'[i] = cs[i]
    BY <2>7, <2>8, <2>9, Replaced
  <2>11. /\ Ids' = 1 .. n + 3
         /\ \A i \in 1 .. n : blocks'[i] = bs[i]
         /\ blocks'[n + 1].mid = FALSE
         /\ blocks'[n + 2] = NewBlock /\ blocks'[n + 3] = NewBlock
    <3>1. /\ n + 2 \in 1 .. n + 3 /\ n + 3 \in 1 .. n + 3 /\ n + 2 # n + 1 /\ n + 3 # n + 1
          /\ \A i \in 1 .. n : i \in 1 .. n + 3 /\ i # n + 1
      BY <1>1
    <3>2. \A i \in 1 .. n : blocks'[i] = bs[i]
      BY <2>7, <2>10, <3>1
    <3>3. blocks'[n + 2] = NewBlock /\ blocks'[n + 3] = NewBlock
      BY <2>7, <2>10, <3>1
    <3> QED
      BY <2>8, <2>10, <3>2, <3>3 DEF Ids
  <2>12. \A c : Laid(c) => Laid(c)'
    <3>1. /\ Len(layout') = Len(layout) + 2 /\ Len(layout) \in Nat
          /\ \A i \in 1 .. Len(layout) : layout'[i] = layout[i]
      BY <1>1, <2>1 DEF Shape
    <3> QED
      BY <3>1 DEF Laid
  <2>13. \A i \in Ids : i \in Ids' /\ (i # insert => (blocks'[i].mid <=> blocks[i].mid))
    BY <1>1, <2>3, <2>11 DEF Appended
  <2>14. blocks'[insert].mid <=> blocks[insert].mid \/ blocks[insert].body = "closed"
    BY <1>1, <2>3, <2>11 DEF Appended
  <2>15. \A i \in Ids' : i \in Ids \/ ~ blocks'[i].mid
    <3>1. \A i \in Ids' : i \in Ids \/ i = n + 1 \/ i = n + 2 \/ i = n + 3
      BY <1>1, <2>11
    <3> QED
      BY <2>5, <2>11, <3>1
  <2>16. \A i \in Ids : blocks'[i].body = blocks[i].body \/ i = insert \/ i = layout[1]
    BY <1>1, <2>4, <2>11
  <2>17. blocks'[insert'].body = "empty" /\ \A b \in Held(f) : blocks'[b].body = "empty"
    BY <2>1, <2>5, <2>6, <2>11
  <2>18. Branches(f)
    BY <1>1, <2>1, <2>6, <2>12, <2>13, <2>14, <2>15, <2>16, <2>17 DEF Branches, Into
  <2> QED
    BY <2>18, FlowBranches
<1> QED
  BY <1>2, <1>3

LEMMA FlowThenDone ==
  ASSUME Flow, Graph, ThenDone, Ask, reach' = Head(saved),
         saved' = << reach >> \o Tail(saved), UNCHANGED dead
  PROVE  Flow'
<1>1. /\ status = "running" /\ Shape /\ frames # << >> /\ Len(layout) > 0
      /\ Head(frames) \in Frame /\ Head(frames).kind = "then" /\ Remembered
  BY DEF Graph, Shape, ThenDone, ChildDone, Flow
<1>2. Head(frames).mergeBB \in Nat
  BY <1>1 DEF Frame
<1>3. CASE Crash
  BY <1>3 DEF Crash, Flow
<1>4. CASE ~ Crash
  <2>1. PICK isTerminator \in BackIsTerminator :
          /\ LeaveFor(Head(frames).mergeBB, isTerminator)
          /\ frames' = << ElseFrame(Head(frames), isTerminator) >> \o Tail(frames)
    BY <1>4 DEF ThenDone
  <2>2. /\ layout' = Append(layout, Head(frames).elseBB) /\ insert' = Head(frames).elseBB
        /\ fn' = fn /\ status' = status
    BY <1>4 DEF ThenDone, PushBlock
  <2>3. Follows(Head(frames).elseBB, Head(frames).mergeBB, isTerminator) /\ isTerminator \in BOOLEAN
    BY <1>1, <1>2, <2>1, <2>2, LeftEnds DEF Follows
  <2>4. saved' # Tail(saved)
    <3>1. saved \in Seq(BOOLEAN) /\ Len(saved) > 0
      BY <1>1 DEF Remembered, Shape
    <3>2. Len(saved') = Len(saved) /\ Len(Tail(saved)) = Len(saved) - 1
      BY <3>1
    <3> QED
      BY <3>1, <3>2
  <2>5. Resumes(isTerminator)
    BY <1>1, <1>2, <2>1, <2>2, <2>4, LeftAppends DEF Resumes, Ask
  <2> QED
    BY <2>3, <2>5, FlowFollows
<1> QED
  BY <1>3, <1>4

\* Behind an if the source goes on where it does at the end of either arm.
Joins == reach' = (reach \/ Head(saved)) /\ saved' = Tail(saved) /\ UNCHANGED dead

LEMMA FlowElseDone ==
  ASSUME Flow, Graph, ElseDone, Ask, Joins
  PROVE  Flow'
<1>1. /\ status = "running" /\ Shape /\ frames # << >> /\ Len(layout) > 0 /\ Len(frames) \in Opens
      /\ Head(frames) \in Frame /\ Head(frames).kind = "else" /\ Remembered /\ Followed
      /\ Open(Len(frames)) = Head(frames)
  <2>1. /\ status = "running" /\ Shape /\ frames # << >> /\ Head(frames).kind = "else"
        /\ Remembered /\ Followed
    BY DEF Graph, ElseDone, ChildDone, Flow
  <2>2. Len(layout) > 0 /\ Head(frames) \in Frame /\ Len(frames) \in Opens /\ Open(Len(frames)) = Head(frames)
    BY <2>1 DEF Shape, Open, Opens
  <2> QED
    BY <2>1, <2>2
<1>2. Head(frames).mergeBB \in Nat
  BY <1>1 DEF Frame
<1>3. PICK isTerminator \in BackIsTerminator :
        /\ LeaveFor(Head(frames).mergeBB, isTerminator)
        /\ IF JumpGenerated(Head(frames), isTerminator)
           THEN PushBlock(Head(frames).mergeBB)
           ELSE UNCHANGED << layout, insert >>
  BY DEF ElseDone
<1>4. frames' = Tail(frames) /\ fn' = fn /\ status' = status
  BY DEF ElseDone, Leave
<1>5. CASE JumpGenerated(Head(frames), isTerminator)
  <2>1. layout' = Append(layout, Head(frames).mergeBB) /\ insert' = Head(frames).mergeBB
    BY <1>3, <1>5 DEF PushBlock
  <2>2. Follows(Head(frames).mergeBB, Head(frames).mergeBB, isTerminator) /\ isTerminator \in BOOLEAN
    BY <1>1, <1>2, <1>3, <1>4, <1>5, <2>1, LeftEnds DEF Follows, JumpGenerated
  <2>3. Resumes(isTerminator)
    BY <1>1, <1>2, <1>3, <1>4, LeftAppends DEF Resumes, Ask, Joins
  <2> QED
    BY <2>2, <2>3, FlowFollows
<1>6. CASE ~ JumpGenerated(Head(frames), isTerminator)
  <2>1. UNCHANGED << layout, insert >> /\ ~ Head(frames).jumpGenerated /\ isTerminator
    BY <1>3, <1>6 DEF JumpGenerated
  <2>2. UNCHANGED cfg
    BY <1>3, <2>1 DEF LeaveFor, cfg
  <2>3. /\ Last(layout) = insert
        /\ blocks[insert].body # "empty" => (isTerminator <=> blocks[insert].body = "closed")
    BY <1>1, <1>2, <1>3, LeftAppends
  <2>4. /\ saved \in Seq(BOOLEAN) /\ Len(saved) = Len(frames) /\ Len(saved) > 0
        /\ Head(saved) \in BOOLEAN /\ Saved(Len(frames)) = Head(saved) /\ reach \in BOOLEAN
    <3>1. saved \in Seq(BOOLEAN) /\ Len(saved) = Len(frames) /\ reach \in BOOLEAN
      BY <1>1 DEF Remembered
    <3>2. Len(saved) > 0 /\ Len(saved) \in Nat
      BY <1>1, <3>1 DEF Shape
    <3>3. Head(saved) = saved[1] /\ Head(saved) \in BOOLEAN /\ Len(frames) + 1 - Len(frames) = 1
      BY <3>1, <3>2
    <3> QED
      BY <3>1, <3>2, <3>3 DEF Saved
  <2>5. ASSUME fn # Null, ~ guessed', ~ dead
        PROVE  reach' <=> reach
    <3>1. ~ guessed /\ blocks[insert].body = "closed"
      BY <2>1, <2>3, <2>5 DEF Ask
    <3>2. Agreed(Len(frames)) /\ ~ reach
      BY <1>1, <2>5, <3>1 DEF Followed
    <3>3. Head(saved) <=> Head(frames).jumpGenerated
      BY <1>1, <2>4, <3>2 DEF Agreed
    <3> QED
      BY <2>1, <3>2, <3>3 DEF Joins
  <2>6. (guessed => guessed') /\ reach' \in BOOLEAN /\ dead' = dead /\ saved' = Tail(saved)
    BY <2>4 DEF Ask, Joins
  <2> QED
    BY <1>1, <1>4, <2>2, <2>5, <2>6, FlowPopped
<1> QED
  BY <1>5, <1>6

LEMMA FlowWhileDone ==
  ASSUME Flow, Graph, WhileDone, Ask, reach' = Head(saved), saved' = Tail(saved), UNCHANGED dead
  PROVE  Flow'
<1>1. /\ status = "running" /\ Shape /\ frames # << >> /\ Len(layout) > 0
      /\ Head(frames) \in Frame /\ Head(frames).kind = "while"
  BY DEF Graph, Shape, WhileDone, ChildDone
<1>2. Head(frames).condBB \in Nat
  BY <1>1 DEF Frame
<1>3. PICK isTerminator \in BackIsTerminator : LeaveFor(Head(frames).condBB, isTerminator)
  BY DEF WhileDone
<1>4. /\ frames' = Tail(frames) /\ fn' = fn /\ status' = status
      /\ layout' = Append(layout, Head(frames).contBB) /\ insert' = Head(frames).contBB
  BY DEF WhileDone, Leave, PushBlock
<1>5. Follows(Head(frames).contBB, Head(frames).condBB, isTerminator) /\ isTerminator \in BOOLEAN
  BY <1>1, <1>2, <1>3, <1>4, LeftEnds DEF Follows
<1>6. Resumes(isTerminator)
  BY <1>1, <1>2, <1>3, <1>4, LeftAppends DEF Resumes, Ask
<1> QED
  BY <1>5, <1>6, FlowFollows

LEMMA FlowLeaf ==
  ASSUME Flow, Graph, Keyed, NullApart, Leaf
  PROVE  Flow'
<1>1. ASSUME NEW name \in VarNames, NEW type \in VarTypes, GenerateVarDecl(name, type), Straight(FALSE)
      PROVE  Flow'
  BY <1>1, FlowVarDecl
<1>2. ASSUME NEW decl \in VarTypes \cup {Null}, NEW lvar \in VarNames, NEW value \in Exprs,
             GenerateAssign(decl, lvar, value),
             Straight(decl # Null \/ FindAlloca(AllocaValues, lvar) # Null)
      PROVE  Flow'
  BY <1>2, FlowAssign
<1>3. ASSUME NEW expr \in Exprs, GenerateExprStmt(expr), Straight(expr.emits)
      PROVE  Flow'
  BY <1>3, FlowExprStmt
<1>4. ASSUME NEW value \in Exprs \cup {Null}, GenerateReturn(value),
             reach' = FALSE, dead' = (dead \/ ~ reach), UNCHANGED << saved, guessed >>
      PROVE  Flow'
  BY <1>4, FlowReturn
<1> QED
  BY <1>1, <1>2, <1>3, <1>4, Zenon DEF Leaf

LEMMA FlowGenerates ==
  ASSUME FlowNext
  PROVE  Next
  BY Zenon DEF FlowNext, Leaf, Next

LEMMA FlowKept ==
  ASSUME Flow, Graph, Keyed, NullApart, [FlowNext]_flowVars
  PROVE  Flow'
<1>1. CASE UNCHANGED flowVars
  BY <1>1, FlowAside DEF flowVars, vars, body
<1>2. ASSUME NEW f \in Functions, GenerateDeclaration(f) \/ RedefineFunction(f), UNCHANGED flow
      PROVE  Flow'
  BY <1>2, FlowAside DEF GenerateDeclaration, RedefineFunction, vars, body
<1>3. ASSUME NEW f \in Functions, GenerateFunction(f),
             reach' = TRUE, saved' = << >>, dead' = FALSE, guessed' = FALSE
      PROVE  Flow'
  BY <1>3, FlowStarts DEF GenerateFunction
<1>4. CASE Leaf
  BY <1>4, FlowLeaf
<1>5. CASE GenerateBlock /\ saved' = << reach >> \o saved /\ UNCHANGED << reach, dead, guessed >>
  BY <1>5, FlowPushed DEF GenerateBlock, NextStatement, Enter
<1>6. ASSUME NEW cond \in Exprs, NEW tru \in BOOLEAN, NEW fals \in BOOLEAN, GenerateIf(cond, tru, fals), Into
      PROVE  Flow'
  BY <1>6, FlowIf
<1>7. ASSUME NEW cond \in Exprs, NEW hasBody \in BOOLEAN, GenerateWhile(cond, hasBody), Into
      PROVE  Flow'
  BY <1>7, FlowWhile
<1>8. CASE ThenDone /\ Ask /\ reach' = Head(saved) /\ saved' = << reach >> \o Tail(saved) /\ UNCHANGED dead
  BY <1>8, FlowThenDone
<1>9. CASE ElseDone /\ Ask /\ reach' = (reach \/ Head(saved)) /\ saved' = Tail(saved) /\ UNCHANGED dead
  <2>1. Joins
    BY <1>9 DEF Joins
  <2> QED
    BY <1>9, <2>1, FlowElseDone
<1>10. CASE WhileDone /\ Ask /\ reach' = Head(saved) /\ saved' = Tail(saved) /\ UNCHANGED dead
  BY <1>10, FlowWhileDone
<1>11. CASE BlockDone /\ saved' = Tail(saved) /\ UNCHANGED << reach, dead, guessed >>
  <2>1. status = "running" /\ frames # << >> /\ frames' = Tail(frames) /\ fn' = fn /\ UNCHANGED cfg
    BY <1>11 DEF BlockDone, Leave
  <2>2. reach' \in BOOLEAN /\ reach' = reach
    BY <1>11, <2>1 DEF Flow, Remembered
  <2> QED
    BY <1>11, <2>1, <2>2, FlowPopped
<1>12. CASE FunctionDone /\ UNCHANGED flow
  <2>1. /\ status = "running" /\ fn' = Null /\ blocks' = << >> /\ frames = << >> /\ frames' = << >>
        /\ reach' = reach /\ saved' = saved
    BY <1>12 DEF FunctionDone, flow
  <2>2. reach \in BOOLEAN /\ saved \in Seq(BOOLEAN) /\ Len(saved) = 0
    BY <2>1 DEF Flow, Remembered
  <2>3. saved = << >>
    BY <2>2
  <2> QED
    BY <2>1, <2>2, <2>3, FlowStops
<1>13. CASE ProgramDone
  BY <1>13 DEF ProgramDone, Flow
<1>14. CASE Done /\ UNCHANGED flow
  BY <1>14, FlowAside DEF Done, vars, body
<1> QED
  BY <1>1, <1>2, <1>3, <1>4, <1>5, <1>6, <1>7, <1>8, <1>9, <1>10, <1>11, <1>12, <1>13, <1>14, Zenon DEF FlowNext

-----------------------------------------------------------------------------
(* The verdict.                                                            *)

\* The terminators that end a body change nothing in the blocks that have one.
LEMMA TerminatedBlocks ==
  ASSUME Shape, NEW i \in Ids, Laid(i), Last(layout) = insert
  PROVE  /\ Terminated[i].mid <=> blocks[i].mid
         /\ Terminated[i].succ = blocks[i].succ
         /\ Terminated[i].body = "closed" <=> blocks[i].body = "closed" \/ i # insert \/ IsVoid
<1>1. i \in Range(layout)
  BY DEF Laid, Range, Shape
<1>2. DOMAIN blocks = Ids /\ blocks[i] \in Block
  BY DEF Shape, Ids
<1>3. Terminated[i] = IF blocks[i].body = "closed" \/ (i = insert /\ ~ IsVoid)
                      THEN blocks[i]
                      ELSE AddTerminator(blocks[i], {})
  BY <1>1, <1>2 DEF Terminated
<1>4. CASE blocks[i].body = "closed" \/ (i = insert /\ ~ IsVoid)
  BY <1>3, <1>4
<1>5. CASE ~ (blocks[i].body = "closed" \/ (i = insert /\ ~ IsVoid))
  <2>1. Terminated[i] = AddTerminator(blocks[i], {})
    BY <1>3, <1>5
  <2> QED
    BY <1>2, <1>5, <2>1 DEF AddTerminator, Block
<1> QED
  BY <1>4, <1>5

LEMMA VerdictFollows ==
  ASSUME Flow, Graph, FunctionDone, ~ guessed
  PROVE  Verifies <=> ~ misfit /\ ~ dead /\ (IsVoid \/ ~ reach)
<1>1. /\ status = "running" /\ fn # Null /\ frames = << >> /\ Shape /\ Len(layout) > 0
      /\ CutLaid /\ Followed
  BY DEF FunctionDone, Graph, Shape, Flow
<1>2. insert \in Ids /\ Last(layout) = insert /\ Laid(insert)
  BY <1>1, InsertIsLaid DEF Last, Laid
<1>3. \A i : Laid(i) <=> i \in Range(layout)
  BY <1>1 DEF Laid, Range, Shape
<1>4. \A i : Laid(i) => i \in Ids
  BY <1>1 DEF Laid, Shape
<1>5. ASSUME NEW i, Laid(i)
      PROVE  blocks[i].succ \subseteq Range(layout)
  <2>1. \A b \in blocks[i].succ : Laid(b)
    BY <1>1, <1>4, <1>5 DEF Graph, Jumps, Opens
  <2> QED
    BY <1>3, <2>1
<1>6. (\A i \in Range(layout) : ~ Terminated[i].mid) <=> ~ Cut
  <2>1. \A i \in Range(layout) : Terminated[i].mid <=> blocks[i].mid
    BY <1>1, <1>2, <1>3, <1>4, TerminatedBlocks
  <2>2. Cut <=> \E i \in Range(layout) : blocks[i].mid
    BY <1>1, <1>3, <1>4 DEF Cut, CutLaid
  <2> QED
    BY <2>1, <2>2
<1>7. \A i \in Range(layout) : Terminated[i].succ \subseteq Range(layout)
  BY <1>1, <1>2, <1>3, <1>4, <1>5, TerminatedBlocks
<1>8. (\A i \in Range(layout) : Terminated[i].body = "closed") <=> blocks[insert].body = "closed" \/ IsVoid
  <2>1. \A i \in Range(layout) : Terminated[i].body = "closed" <=> blocks[i].body = "closed" \/ i # insert \/ IsVoid
    BY <1>1, <1>2, <1>3, <1>4, TerminatedBlocks
  <2>2. insert \in Range(layout)
    BY <1>2, <1>3
  <2> QED
    BY <2>1, <2>2
<1>9. Verifies <=> ~ misfit /\ ~ Cut /\ (blocks[insert].body = "closed" \/ IsVoid)
  BY <1>6, <1>7, <1>8, Zenon DEF Verifies
<1>10. (dead <=> Cut) /\ (~ dead => (blocks[insert].body = "closed" <=> ~ reach))
  BY <1>1 DEF Followed
<1> QED
  BY <1>9, <1>10

\* Only the end of a body leaves the function.
LEMMA OnlyDoneLeaves ==
  ASSUME Next, fn # Null, fn' = Null
  PROVE  FunctionDone
  BY ZenonT(40) DEF Next, GenerateDeclaration, GenerateFunction, RedefineFunction, GenerateVarDecl, GenerateAssign,
     GenerateReturn, GenerateExprStmt, GenerateIf, GenerateWhile, GenerateBlock, ThenDone, ElseDone, WhileDone,
     BlockDone, ProgramDone, Done, Proceed, Crash, Enter, Leave, vars, globals

LEMMA VerdictStep ==
  ASSUME Flow, Graph, InBody, FlowNext
  PROVE  VerdictAgrees
<1> SUFFICES ASSUME fn # Null, fn' = Null, ~ guessed
             PROVE  module'[fn].state = "verified" <=> ~ misfit /\ ~ dead /\ (IsVoid \/ ~ reach)
  BY DEF VerdictAgrees
<1>1. FunctionDone
  BY FlowGenerates, OnlyDoneLeaves
<1>2. module'[fn].state = IF Verifies THEN "verified" ELSE "broken"
  BY <1>1 DEF FunctionDone, InBody
<1>3. Verifies <=> ~ misfit /\ ~ dead /\ (IsVoid \/ ~ reach)
  BY <1>1, VerdictFollows
<1>4. CASE Verifies
  BY <1>2, <1>3, <1>4
<1>5. CASE ~ Verifies
  BY <1>2, <1>3, <1>5
<1> QED
  BY <1>4, <1>5

-----------------------------------------------------------------------------
(* The theorems.                                                           *)

LEMMA FlowAlways ==
  ASSUME NullApart
  PROVE  FlowSpec => [](Flow /\ Graph /\ Keyed /\ InBody)
<1>1. FlowInit => Flow /\ Graph /\ Keyed /\ InBody
  <2> SUFFICES ASSUME FlowInit
               PROVE  Flow /\ Graph /\ Keyed /\ InBody
    OBVIOUS
  <2>1. Init /\ reach = FALSE /\ saved = << >> /\ dead = FALSE /\ guessed = FALSE
    BY DEF FlowInit
  <2>2. Graph
    BY <2>1, GraphBegins
  <2>3. Keyed /\ InBody
    BY <2>1 DEF Init, Keyed, InBody, EmptyMap
  <2>4. Opens = {} /\ saved \in Seq(BOOLEAN) /\ Len(saved) = Len(frames) /\ Ids = {} /\ fn = Null
    BY <2>1 DEF Init, Opens, Ids
  <2>5. Remembered /\ Waiting /\ CutLaid /\ Followed
    BY <2>1, <2>4 DEF Remembered, Waiting, CutLaid, Followed
  <2> QED
    BY <2>2, <2>3, <2>5 DEF Flow
<1>2. Flow /\ Graph /\ Keyed /\ InBody /\ [FlowNext]_flowVars => (Flow /\ Graph /\ Keyed /\ InBody)'
  <2> SUFFICES ASSUME Flow, Graph, Keyed, InBody, [FlowNext]_flowVars
               PROVE  Flow' /\ Graph' /\ Keyed' /\ InBody'
    OBVIOUS
  <2>1. [Next]_vars
    BY FlowGenerates DEF flowVars
  <2> QED
    BY <2>1, FlowKept, GraphNext, KeyedNext, InBodyNext
<1> QED
  BY <1>1, <1>2, PTL DEF FlowSpec

\* Whatever the statements and their nesting: where nothing was generated in
\* vain and no empty block was asked for its last instruction, the last block
\* has a terminator exactly where the source cannot go on (StmtAST.cpp:90).
THEOREM AgreesWithSource ==
  ASSUME NullApart
  PROVE  FlowSpec => []FlowAgrees
<1>1. Flow => FlowAgrees
  BY DEF Flow, Followed, FlowAgrees
<1> QED
  BY <1>1, FlowAlways, PTL

\* The verifier's verdict on a function is a property of its source, whatever
\* blocks it was generated into, unless an empty one was asked for its last
\* instruction on the way (Function.cpp:60).
THEOREM VerdictIsSources ==
  ASSUME NullApart
  PROVE  FlowSpec => VerdictFollowsSource
<1>1. Flow /\ Graph /\ InBody /\ [FlowNext]_flowVars => [VerdictAgrees]_flowVars
  BY VerdictStep
<1> QED
  BY <1>1, FlowAlways, PTL DEF FlowSpec, VerdictFollowsSource
=============================================================================
