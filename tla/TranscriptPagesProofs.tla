------------------------ MODULE TranscriptPagesProofs ------------------------
(***************************************************************************)
(* What a reader makes of any session, and a client of its pages, for any  *)
(* window, block limit, page limits and number of rows.                    *)
(***************************************************************************)
EXTENDS TranscriptPages, FiniteSetTheorems, SequenceTheorems, WellFoundedInduction,
        TLAPS

-----------------------------------------------------------------------------
(* How a transcript is read.                                                *)

\* A set of numbers has a least one.
LEMMA Smallest ==
    ASSUME NEW T, T \subseteq Nat, T # {}
    PROVE  \E x \in T : \A y \in T : x <= y
<1> DEFINE R == OpToRel(<, Nat)
<1>1. IsWellFoundedOn(R, Nat)
  BY NatLessThanWellFounded
<1>2. \A x, y \in Nat : x < y => <<x, y>> \in R
  BY DEF OpToRel
<1> HIDE DEF R
<1>3. PICK x \in T : \A y \in T : ~(<<y, x>> \in R)
  BY <1>1, WFMin
<1>4. ASSUME NEW y \in T, y < x PROVE FALSE
  <2>1. <<y, x>> \in R
    BY <1>2, <1>4
  <2>2. QED
    BY <1>3, <2>1
<1>5. QED
  BY <1>4

\* A set of numbers that holds 0 and what follows each of its members below n
\* holds them all up to n.
LEMMA Upwards ==
    ASSUME NEW n \in Nat, NEW T, 0 \in T,
           \A m \in 1..n : m - 1 \in T => m \in T
    PROVE  \A m \in 0..n : m \in T
<1> SUFFICES ASSUME NEW m \in 0..n, m \notin T PROVE FALSE
  OBVIOUS
<1> DEFINE U == {k \in 0..n : k \notin T}
<1>1. PICK x \in U : \A y \in U : x <= y
  <2>1. U \subseteq Nat /\ m \in U
    OBVIOUS
  <2> HIDE DEF U
  <2>2. QED
    BY <2>1, Smallest
<1>2. x \in 1..n
  BY <1>1
<1>3. x - 1 \in 0..n /\ x - 1 \notin U
  BY <1>1, <1>2
<1>4. QED
  BY <1>1, <1>2, <1>3

\* In particular n.
LEMMA UpToTop ==
    ASSUME NEW n \in Nat, NEW T, 0 \in T,
           \A m \in 1..n : m - 1 \in T => m \in T
    PROVE  n \in T
<1>1. n \in 0..n
  OBVIOUS
<1>2. QED
  BY <1>1, Upwards, Zenon

\* What is read before the first row, and how a row changes it: blocks for
\* parts, blocks and the rows seen for lines.  Blocks are read for their bytes alike.
Nothing(s) ==
    IF s = "bytes" THEN 0 ELSE IF s = "parts" THEN <<>> ELSE [blocks |-> <<>>, seen |-> {}]

ReadRow(s, row, acc) ==
    IF s = "bytes" THEN acc + Bytes(row)
    ELSE IF s = "parts" THEN Shown(row, acc)
    ELSE IF Repeated(row, acc.seen) THEN acc
    ELSE [blocks |-> Shown(row, acc.blocks),
          seen |-> IF row.kind = "hidden" THEN acc.seen ELSE acc.seen \cup {row.key}]

\* it is the fold over the rows up to n.
FoldOf(s, rs, n, it) ==
    it = [t \in SUBSET (1..n) |-> IF t = {} THEN Nothing(s)
                                  ELSE ReadRow(s, rs[Max(t)], it[t \ {Max(t)}])]

\* The readers are that fold.
LEMMA ReadersFold ==
    ASSUME NEW rs \in Seq(Row), NEW n, n = Len(rs)
    PROVE  /\ PartsToBlocks(rs) = (CHOOSE it : FoldOf("parts", rs, n, it))[1..n]
           /\ LinesToBlocks(rs) = (CHOOSE it : FoldOf("lines", rs, n, it))[1..n].blocks
<1>1. DOMAIN rs = 1..n
  OBVIOUS
<1>2. PartsToBlocks(rs) = (CHOOSE it : FoldOf("parts", rs, n, it))[1..n]
  BY <1>1 DEF PartsToBlocks, FoldLeft, MapThenFoldSet, FoldOf, ReadRow, Nothing
<1>3. LinesToBlocks(rs) = (CHOOSE it : FoldOf("lines", rs, n, it))[1..n].blocks
  BY <1>1 DEF LinesToBlocks, FoldLeft, MapThenFoldSet, FoldOf, ReadRow, Nothing
<1>4. QED
  BY <1>2, <1>3

\* And so are the bytes of blocks.
LEMMA BytesFold ==
    ASSUME NEW bs \in Seq(Block), NEW n, n = Len(bs)
    PROVE  BytesOf(bs) = (CHOOSE it : FoldOf("bytes", bs, n, it))[1..n]
<1>1. DOMAIN bs = 1..n
  OBVIOUS
<1>2. QED
  BY <1>1 DEF BytesOf, FoldLeft, MapThenFoldSet, FoldOf, ReadRow, Nothing

\* The largest member of a set that holds no larger one.
LEMMA MaxIs ==
    ASSUME NEW n \in Nat, NEW t, t \subseteq 1..n, n \in t
    PROVE  Max(t) = n
<1>1. \A y \in t : n >= y
  OBVIOUS
<1>2. \A x \in t : (\A y \in t : x >= y) => x = n
  OBVIOUS
<1>3. QED
  BY <1>1, <1>2 DEF Max

\* The fold exists.
LEMMA FoldExists ==
    ASSUME NEW s, NEW rs, NEW n \in Nat
    PROVE  \E it : FoldOf(s, rs, n, it)
<1> DEFINE T == {m \in 0..n : \E it : FoldOf(s, rs, m, it)}
<1>1. 0 \in T
  <2>1. SUBSET (1..0) = {{}}
    OBVIOUS
  <2>2. FoldOf(s, rs, 0, [t \in {{}} |-> Nothing(s)])
    BY <2>1 DEF FoldOf
  <2>3. QED
    BY <2>2
<1>2. ASSUME NEW m \in 1..n, m - 1 \in T PROVE m \in T
  <2>1. PICK k \in Nat : k = m - 1
    OBVIOUS
  <2>2. PICK it : FoldOf(s, rs, k, it)
    BY <1>2, <2>1
  <2> DEFINE jt == [t \in SUBSET (1..m) |->
                      IF m \in t THEN ReadRow(s, rs[m], it[t \ {m}]) ELSE it[t]]
  <2>3. \A t \in SUBSET (1..m) : m \notin t => t \in SUBSET (1..k)
    BY <2>1
  <2>4. ASSUME NEW t \in SUBSET (1..m)
        PROVE  jt[t] = IF t = {} THEN Nothing(s)
                       ELSE ReadRow(s, rs[Max(t)], jt[t \ {Max(t)}])
    <3>1. CASE m \in t
      <4>1. Max(t) = m
        <5>1. m \in Nat /\ t \subseteq 1..m
          OBVIOUS
        <5>2. QED
          BY <3>1, <5>1, MaxIs
      <4>2. t \ {m} \in SUBSET (1..m) /\ m \notin t \ {m}
        OBVIOUS
      <4>3. jt[t \ {m}] = it[t \ {m}]
        BY <4>2
      <4>4. QED
        BY <3>1, <4>1, <4>3
    <3>2. CASE m \notin t
      <4>1. PICK x : x = Max(t)
        OBVIOUS
      <4>2. t \in SUBSET (1..k) /\ t \ {x} \in SUBSET (1..m) /\ m \notin t \ {x}
        BY <2>3, <3>2
      <4>3. jt[t] = it[t] /\ jt[t \ {x}] = it[t \ {x}]
        BY <3>2, <4>2
      <4>4. it[t] = IF t = {} THEN Nothing(s) ELSE ReadRow(s, rs[x], it[t \ {x}])
        BY <2>2, <4>1, <4>2 DEF FoldOf
      <4>5. QED
        BY <4>1, <4>3, <4>4
    <3>3. QED
      BY <3>1, <3>2
  <2>5. jt = [t \in SUBSET (1..m) |-> IF t = {} THEN Nothing(s)
                                      ELSE ReadRow(s, rs[Max(t)], jt[t \ {Max(t)}])]
    <3>1. jt = [t \in SUBSET (1..m) |-> jt[t]]
      OBVIOUS
    <3> HIDE DEF jt
    <3>2. QED
      BY <2>4, <3>1
  <2> HIDE DEF jt
  <2>6. FoldOf(s, rs, m, jt)
    BY <2>5 DEF FoldOf
  <2>7. QED
    BY <2>6
<1> HIDE DEF T
<1>3. n \in T
  BY <1>1, <1>2, Upwards
<1>4. QED
  BY <1>3 DEF T

\* acc is what was read after each row of rs.
Run(s, rs, n, acc) ==
    /\ acc[0] = Nothing(s)
    /\ \A m \in 1..n : acc[m] = ReadRow(s, rs[m], acc[m - 1])

\* The fold goes over the rows one by one.
LEMMA FoldRuns ==
    ASSUME NEW s, NEW rs, NEW n \in Nat, NEW it, FoldOf(s, rs, n, it)
    PROVE  \E acc : Run(s, rs, n, acc) /\ acc[n] = it[1..n]
<1> DEFINE acc == [m \in 0..n |-> it[1..m]]
<1>1. it[{}] = Nothing(s)
  BY DEF FoldOf
<1>2. acc[0] = Nothing(s)
  <2>1. 1..0 = {} /\ 0 \in 0..n
    OBVIOUS
  <2>2. QED
    BY <1>1, <2>1
<1>3. ASSUME NEW m \in 1..n PROVE acc[m] = ReadRow(s, rs[m], acc[m - 1])
  <2>1. m \in Nat /\ m \in 0..n /\ m - 1 \in 0..n /\ m \in 1..m
    OBVIOUS
  <2>2. 1..m \in SUBSET (1..n) /\ 1..m # {} /\ (1..m) \ {m} = 1..(m - 1)
    <3>1. \A i \in 1..m : i \in 1..n
      OBVIOUS
    <3>2. \A i : i \in (1..m) \ {m} <=> i \in 1..(m - 1)
      BY <2>1
    <3>3. (1..m) \ {m} = 1..(m - 1)
      BY <3>2
    <3>4. QED
      BY <2>1, <3>1, <3>3
  <2>3. Max(1..m) = m
    BY <2>1, MaxIs
  <2>4. it[1..m] = ReadRow(s, rs[m], it[1..(m - 1)])
    BY <2>2, <2>3 DEF FoldOf
  <2>5. QED
    BY <2>1, <2>4
<1>4. n \in 0..n
  OBVIOUS
<1>5. acc[n] = it[1..n]
  BY <1>4
<1> HIDE DEF acc
<1>6. QED
  BY <1>2, <1>3, <1>5 DEF Run

\* A reader takes the rows one by one.
LEMMA ReadersRun ==
    ASSUME NEW rs \in Seq(Row), NEW n, n = Len(rs)
    PROVE  /\ \E acc : Run("parts", rs, n, acc) /\ PartsToBlocks(rs) = acc[n]
           /\ \E acc : Run("lines", rs, n, acc) /\ LinesToBlocks(rs) = acc[n].blocks
<1>0. n \in Nat
  OBVIOUS
<1>2. \A s : FoldOf(s, rs, n, CHOOSE it : FoldOf(s, rs, n, it))
  BY <1>0, FoldExists
<1>3. PICK it : it = CHOOSE i : FoldOf("parts", rs, n, i)
  OBVIOUS
<1>4. PICK jt : jt = CHOOSE i : FoldOf("lines", rs, n, i)
  OBVIOUS
<1>5. FoldOf("parts", rs, n, it) /\ PartsToBlocks(rs) = it[1..n]
  BY <1>2, <1>3, ReadersFold
<1>6. FoldOf("lines", rs, n, jt) /\ LinesToBlocks(rs) = jt[1..n].blocks
  BY <1>2, <1>4, ReadersFold
<1>7. \E acc : Run("parts", rs, n, acc) /\ acc[n] = it[1..n]
  BY <1>0, <1>5, FoldRuns
<1>8. \E acc : Run("lines", rs, n, acc) /\ acc[n] = jt[1..n]
  BY <1>0, <1>6, FoldRuns
<1>9. QED
  BY <1>5, <1>6, <1>7, <1>8

\* And the bytes of blocks are counted one by one.
LEMMA BytesRun ==
    ASSUME NEW bs \in Seq(Block), NEW n, n = Len(bs)
    PROVE  \E acc : Run("bytes", bs, n, acc) /\ BytesOf(bs) = acc[n]
<1>1. n \in Nat
  OBVIOUS
<1>2. PICK it : it = CHOOSE i : FoldOf("bytes", bs, n, i)
  OBVIOUS
<1>3. FoldOf("bytes", bs, n, it)
  BY <1>1, <1>2, FoldExists
<1>4. BytesOf(bs) = it[1..n]
  BY <1>2, BytesFold
<1>5. QED
  BY <1>1, <1>3, <1>4, FoldRuns

-----------------------------------------------------------------------------
(* What the readers make of rows.                                           *)

\* Rows as a session writes them: a key is that of one row, repeats apart; a call
\* has one result; what a result answers is a call; parts are never repeated.
WellKept(rs) ==
    /\ rs \in Seq(Row)
    /\ \A i, j \in 1..Len(rs) : rs[i].key = rs[j].key => rs[i] = rs[j]
    /\ \A i, j \in 1..Len(rs) :
          /\ rs[i].kind = "result" /\ rs[j].kind = "result" /\ rs[i].of = rs[j].of
          => rs[i].key = rs[j].key
    /\ \A i, j \in 1..Len(rs) :
          rs[i].kind = "result" /\ rs[j].key = rs[i].of => rs[j].kind = "call"
    /\ store = "parts" => \A i, j \in 1..Len(rs) : rs[i].key = rs[j].key => i = j

\* Row m of rs is no repeat of one before it.
FirstIn(rs, m) == \A j \in 1..(m - 1) : rs[j].key # rs[m].key

\* bs is what is shown after each row: a repeat adds nothing.
Reading(rs, n, bs) ==
    /\ bs[0] = <<>>
    /\ \A m \in 1..n : bs[m] = IF FirstIn(rs, m) THEN Shown(rs[m], bs[m - 1]) ELSE bs[m - 1]

\* Either reader shows each row once, where it first comes.
LEMMA ReadingOf ==
    ASSUME NEW rs \in Seq(Row), WellKept(rs), store \in {"parts", "lines"},
           NEW n \in Nat, n = Len(rs)
    PROVE  \E bs : Reading(rs, n, bs) /\ ToBlocks(rs) = bs[n]
<1>1. CASE store = "parts"
  <2>1. PICK acc : Run("parts", rs, n, acc) /\ PartsToBlocks(rs) = acc[n]
    BY ReadersRun
  <2>2. \A m \in 1..n : FirstIn(rs, m)
    BY <1>1 DEF WellKept, FirstIn
  <2>3. Reading(rs, n, acc)
    BY <2>1, <2>2 DEF Run, Reading, ReadRow, Nothing
  <2>4. QED
    BY <1>1, <2>1, <2>3 DEF ToBlocks
<1>2. CASE store = "lines"
  <2>1. PICK acc : Run("lines", rs, n, acc) /\ LinesToBlocks(rs) = acc[n].blocks
    BY ReadersRun
  <2>2. /\ acc[0].blocks = <<>> /\ acc[0].seen = {}
        /\ \A m \in 1..n : acc[m] = ReadRow("lines", rs[m], acc[m - 1])
    BY <2>1 DEF Run, Nothing
  <2> DEFINE Keys(m) == {rs[j].key : j \in {i \in 1..m : rs[i].kind # "hidden"}}
             T == {m \in 0..n : acc[m].seen = Keys(m)}
  <2>3. 0 \in T
    BY <2>2
  <2>4. \A m \in 1..n : FirstIn(rs, m) => rs[m].key \notin Keys(m - 1)
    BY DEF FirstIn
  <2>5. \A m \in 1..n : ~FirstIn(rs, m) /\ rs[m].kind # "hidden" => rs[m].key \in Keys(m - 1)
    <3> SUFFICES ASSUME NEW m \in 1..n, ~FirstIn(rs, m), rs[m].kind # "hidden"
                 PROVE  rs[m].key \in Keys(m - 1)
      OBVIOUS
    <3>1. PICK j \in 1..(m - 1) : rs[j].key = rs[m].key
      BY DEF FirstIn
    <3>2. j \in 1..n /\ rs[j] = rs[m]
      BY <3>1 DEF WellKept
    <3>3. QED
      BY <3>1, <3>2
  <2>6. \A m \in 1..n : Keys(m) = IF rs[m].kind = "hidden" THEN Keys(m - 1)
                                  ELSE Keys(m - 1) \cup {rs[m].key}
    <3> SUFFICES ASSUME NEW m \in 1..n
                 PROVE  Keys(m) = IF rs[m].kind = "hidden" THEN Keys(m - 1)
                                  ELSE Keys(m - 1) \cup {rs[m].key}
      OBVIOUS
    <3>1. 1..m = (1..(m - 1)) \cup {m}
      OBVIOUS
    <3>2. QED
      BY <3>1
  <2> HIDE DEF Keys
  <2>7. ASSUME NEW m \in 1..n, m - 1 \in T PROVE m \in T
    <3>1. acc[m] = ReadRow("lines", rs[m], acc[m - 1]) /\ acc[m - 1].seen = Keys(m - 1)
      BY <2>2, <2>7
    <3>2. CASE rs[m].key \in Keys(m - 1)
      <4>1. acc[m] = acc[m - 1]
        BY <3>1, <3>2 DEF ReadRow, Repeated
      <4>2. Keys(m) = Keys(m - 1)
        <5>1. Keys(m - 1) \cup {rs[m].key} = Keys(m - 1)
          BY <3>2
        <5>2. QED
          BY <2>6, <5>1
      <4>3. acc[m].seen = Keys(m)
        BY <3>1, <4>1, <4>2
      <4>4. QED
        BY <4>3
    <3>3. CASE rs[m].key \notin Keys(m - 1)
      <4>1. acc[m].seen = IF rs[m].kind = "hidden" THEN Keys(m - 1)
                          ELSE Keys(m - 1) \cup {rs[m].key}
        BY <3>1, <3>3 DEF ReadRow, Repeated
      <4>2. acc[m].seen = Keys(m)
        BY <2>6, <4>1
      <4>3. QED
        BY <4>2
    <3>4. QED
      BY <3>2, <3>3
  <2>8. \A m \in 0..n : acc[m].seen = Keys(m)
    <3> HIDE DEF T
    <3>1. \A m \in 0..n : m \in T
      BY <2>3, <2>7, Upwards
    <3>2. QED
      BY <3>1 DEF T
  <2> DEFINE bs == [m \in 0..n |-> acc[m].blocks]
  <2>9. ASSUME NEW m \in 1..n
        PROVE  bs[m] = IF FirstIn(rs, m) THEN Shown(rs[m], bs[m - 1]) ELSE bs[m - 1]
    <3>1. /\ acc[m] = ReadRow("lines", rs[m], acc[m - 1]) /\ acc[m - 1].seen = Keys(m - 1)
          /\ m \in 0..n /\ m - 1 \in 0..n
      BY <2>2, <2>8
    <3>2. CASE FirstIn(rs, m)
      <4>1. acc[m].blocks = Shown(rs[m], acc[m - 1].blocks)
        BY <2>4, <3>1, <3>2 DEF ReadRow, Repeated
      <4>2. QED
        BY <3>1, <3>2, <4>1
    <3>3. CASE ~FirstIn(rs, m)
      <4>1. acc[m].blocks = acc[m - 1].blocks
        <5>1. CASE rs[m].key \in Keys(m - 1)
          BY <3>1, <5>1 DEF ReadRow, Repeated
        <5>2. CASE rs[m].key \notin Keys(m - 1)
          <6>1. rs[m].kind = "hidden"
            BY <2>5, <3>3, <5>2
          <6>2. QED
            BY <3>1, <5>2, <6>1 DEF ReadRow, Repeated, Shown
        <5>3. QED
          BY <5>1, <5>2
      <4>2. QED
        BY <3>1, <3>3, <4>1
    <3>4. QED
      BY <3>2, <3>3
  <2>10. bs[0] = <<>> /\ bs[n] = LinesToBlocks(rs)
    BY <2>1, <2>2
  <2> HIDE DEF bs
  <2>11. Reading(rs, n, bs) /\ ToBlocks(rs) = bs[n]
    BY <1>2, <2>9, <2>10 DEF Reading, ToBlocks
  <2>12. QED
    BY <2>11
<1>3. QED
  BY <1>1, <1>2

\* Block k of bs shows row p[k] of the first m of rs: in their order, no row twice, and
\* no text or call is left out.
ShownAs(rs, m, bs, p) ==
    /\ bs \in Seq(Block) /\ p \in [1..Len(bs) -> 1..m]
    /\ \A k, l \in 1..Len(bs) : k < l => p[k] < p[l]
    /\ \A k \in 1..Len(bs) :
          /\ FirstIn(rs, p[k]) /\ rs[p[k]].kind # "hidden"
          /\ bs[k].row = rs[p[k]].key /\ bs[k].id = bs[k].row
    /\ \A i \in 1..m : FirstIn(rs, i) /\ rs[i].kind \in {"text", "call"} =>
          \E k \in 1..Len(bs) : p[k] = i /\ (rs[i].kind = "call" => bs[k].kind = "tool")

\* A result is shown by one block, its call's or one of its own.
Results(rs, m, bs) ==
    /\ \A i \in 1..m : FirstIn(rs, i) /\ rs[i].kind = "result" =>
          \E k \in 1..Len(bs) : bs[k].answer = rs[i].key
    /\ \A k \in 1..Len(bs) : bs[k].answer # 0 =>
          \E i \in 1..m : /\ FirstIn(rs, i) /\ rs[i].kind = "result"
                          /\ rs[i].key = bs[k].answer /\ bs[k].row \in {rs[i].key, rs[i].of}
    /\ \A k, l \in 1..Len(bs) : bs[k].answer = bs[l].answer /\ bs[k].answer # 0 => k = l

\* A row that shows nothing.
LEMMA ShownSame ==
    ASSUME NEW rs, NEW m \in Nat \ {0}, NEW bs, NEW p, ShownAs(rs, m - 1, bs, p),
           Results(rs, m - 1, bs), ~FirstIn(rs, m) \/ rs[m].kind = "hidden"
    PROVE  ShownAs(rs, m, bs, p) /\ Results(rs, m, bs)
<1>1. \A i \in 1..(m - 1) : i \in 1..m
  OBVIOUS
<1>2. \A i \in 1..m : i = m \/ i \in 1..(m - 1)
  OBVIOUS
<1>3. p \in [1..Len(bs) -> 1..m]
  BY <1>1 DEF ShownAs
<1>4. ShownAs(rs, m, bs, p)
  BY <1>2, <1>3 DEF ShownAs
<1>5. Results(rs, m, bs)
  BY <1>1, <1>2 DEF Results
<1>6. QED
  BY <1>4, <1>5

\* A row that is shown as a block of its own.
LEMMA ShownMore ==
    ASSUME NEW rs, NEW m \in Nat \ {0}, NEW bs, NEW p, ShownAs(rs, m - 1, bs, p),
           FirstIn(rs, m), rs[m].kind # "hidden",
           NEW b \in Block, b.row = rs[m].key, b.id = b.row,
           rs[m].kind = "call" => b.kind = "tool"
    PROVE  \E q : ShownAs(rs, m, Append(bs, b), q)
<1>1. \A i \in 1..(m - 1) : i \in 1..m /\ i < m
  OBVIOUS
<1>2. \A i \in 1..m : i = m \/ i \in 1..(m - 1)
  OBVIOUS
<1>3. PICK n \in Nat : n = Len(bs)
  BY DEF ShownAs
<1>4. /\ bs \in Seq(Block) /\ p \in [1..n -> 1..(m - 1)]
      /\ \A k, l \in 1..n : k < l => p[k] < p[l]
      /\ \A k \in 1..n : /\ FirstIn(rs, p[k]) /\ rs[p[k]].kind # "hidden"
                         /\ bs[k].row = rs[p[k]].key /\ bs[k].id = bs[k].row
      /\ \A i \in 1..(m - 1) : FirstIn(rs, i) /\ rs[i].kind \in {"text", "call"} =>
            \E k \in 1..n : p[k] = i /\ (rs[i].kind = "call" => bs[k].kind = "tool")
  BY <1>3 DEF ShownAs
<1>5. PICK cs : cs = Append(bs, b)
  OBVIOUS
<1>6. /\ cs \in Seq(Block) /\ Len(cs) = n + 1 /\ cs[n + 1] = b
      /\ \A k \in 1..n : cs[k] = bs[k]
  BY <1>3, <1>4, <1>5
<1>7. PICK q : q = [k \in 1..(n + 1) |-> IF k = n + 1 THEN m ELSE p[k]]
  OBVIOUS
<1>8. /\ q \in [1..(n + 1) -> 1..m] /\ q[n + 1] = m
      /\ \A k \in 1..n : q[k] = p[k] /\ q[k] \in 1..(m - 1)
  BY <1>1, <1>4, <1>7
<1>9. \A k \in 1..(n + 1) : k = n + 1 \/ k \in 1..n
  OBVIOUS
<1>10. \A k, l \in 1..(n + 1) : k < l => q[k] < q[l]
  <2> SUFFICES ASSUME NEW k \in 1..(n + 1), NEW l \in 1..(n + 1), k < l PROVE q[k] < q[l]
    OBVIOUS
  <2>1. k \in 1..n
    OBVIOUS
  <2>2. CASE l = n + 1
    BY <1>1, <1>8, <2>1, <2>2
  <2>3. CASE l # n + 1
    BY <1>4, <1>8, <1>9, <2>1, <2>3
  <2>4. QED
    BY <2>2, <2>3
<1>11. \A k \in 1..(n + 1) : /\ FirstIn(rs, q[k]) /\ rs[q[k]].kind # "hidden"
                             /\ cs[k].row = rs[q[k]].key /\ cs[k].id = cs[k].row
  <2> SUFFICES ASSUME NEW k \in 1..(n + 1)
               PROVE  /\ FirstIn(rs, q[k]) /\ rs[q[k]].kind # "hidden"
                      /\ cs[k].row = rs[q[k]].key /\ cs[k].id = cs[k].row
    OBVIOUS
  <2>1. CASE k = n + 1
    <3>1. q[k] = m /\ cs[k] = b
      BY <1>6, <1>8, <2>1, Zenon
    <3>2. QED
      BY <3>1, Zenon
  <2>2. CASE k \in 1..n
    <3>1. q[k] = p[k] /\ cs[k] = bs[k]
      BY <1>6, <1>8, <2>2, Zenon
    <3>2. /\ FirstIn(rs, p[k]) /\ rs[p[k]].kind # "hidden"
          /\ bs[k].row = rs[p[k]].key /\ bs[k].id = bs[k].row
      BY <1>4, <2>2, Zenon
    <3>3. QED
      BY <3>1, <3>2, Zenon
  <2>3. QED
    BY <1>9, <2>1, <2>2, Zenon
<1>12. \A i \in 1..m : FirstIn(rs, i) /\ rs[i].kind \in {"text", "call"} =>
          \E k \in 1..(n + 1) : q[k] = i /\ (rs[i].kind = "call" => cs[k].kind = "tool")
  <2> SUFFICES ASSUME NEW i \in 1..m, FirstIn(rs, i), rs[i].kind \in {"text", "call"}
               PROVE  \E k \in 1..(n + 1) :
                         q[k] = i /\ (rs[i].kind = "call" => cs[k].kind = "tool")
    OBVIOUS
  <2>1. CASE i = m
    BY <1>6, <1>8, <2>1
  <2>2. CASE i # m
    <3>1. PICK k \in 1..n : p[k] = i /\ (rs[i].kind = "call" => bs[k].kind = "tool")
      BY <1>2, <1>4, <2>2
    <3>2. k \in 1..(n + 1)
      OBVIOUS
    <3>3. QED
      BY <1>6, <1>8, <3>1, <3>2
  <2>3. QED
    BY <2>1, <2>2
<1>13. ShownAs(rs, m, cs, q)
  BY <1>6, <1>8, <1>10, <1>11, <1>12 DEF ShownAs
<1>14. QED
  BY <1>5, <1>13

\* Its results, when it is a result that is shown by itself or no result.
LEMMA ResultsMore ==
    ASSUME NEW rs, NEW m \in Nat \ {0}, NEW bs \in Seq(Block), Results(rs, m - 1, bs),
           FirstIn(rs, m), rs[m].key # 0, NEW b \in Block, b.row = rs[m].key,
           b.answer = IF rs[m].kind = "result" THEN rs[m].key ELSE 0
    PROVE  Results(rs, m, Append(bs, b))
<1>1. \A i \in 1..m : i = m \/ i \in 1..(m - 1)
  OBVIOUS
<1>2. \A i \in 1..(m - 1) : i \in 1..m /\ rs[i].key # rs[m].key
  BY DEF FirstIn
<1>3. PICK n \in Nat : n = Len(bs)
  OBVIOUS
<1>4. PICK cs : cs = Append(bs, b)
  OBVIOUS
<1>5. /\ Len(cs) = n + 1 /\ cs[n + 1] = b
      /\ \A k \in 1..n : cs[k] = bs[k] /\ k \in 1..(n + 1)
  BY <1>3, <1>4
<1>6. \A k \in 1..(n + 1) : k = n + 1 \/ k \in 1..n
  OBVIOUS
<1>7. \A k \in 1..n : bs[k].answer # rs[m].key \/ bs[k].answer = 0
  BY <1>2, <1>3 DEF Results
<1>8. \A i \in 1..m : FirstIn(rs, i) /\ rs[i].kind = "result" =>
          \E k \in 1..(n + 1) : cs[k].answer = rs[i].key
  BY <1>1, <1>3, <1>5 DEF Results
<1>9. \A k \in 1..(n + 1) : cs[k].answer # 0 =>
          \E i \in 1..m : /\ FirstIn(rs, i) /\ rs[i].kind = "result"
                          /\ rs[i].key = cs[k].answer /\ cs[k].row \in {rs[i].key, rs[i].of}
  <2> SUFFICES ASSUME NEW k \in 1..(n + 1), cs[k].answer # 0
               PROVE  \E i \in 1..m : /\ FirstIn(rs, i) /\ rs[i].kind = "result"
                          /\ rs[i].key = cs[k].answer /\ cs[k].row \in {rs[i].key, rs[i].of}
    OBVIOUS
  <2>1. CASE k = n + 1
    BY <1>5, <2>1
  <2>2. CASE k \in 1..n
    BY <1>2, <1>3, <1>5, <2>2 DEF Results
  <2>3. QED
    BY <1>6, <2>1, <2>2
<1>10. \A k, l \in 1..(n + 1) : cs[k].answer = cs[l].answer /\ cs[k].answer # 0 => k = l
  <2> SUFFICES ASSUME NEW k \in 1..(n + 1), NEW l \in 1..(n + 1),
                      cs[k].answer = cs[l].answer, cs[k].answer # 0, k # l
               PROVE  FALSE
    OBVIOUS
  <2>1. CASE k \in 1..n /\ l \in 1..n
    BY <1>3, <1>5, <2>1 DEF Results
  <2>2. CASE k = n + 1 /\ l \in 1..n
    BY <1>5, <1>7, <2>2
  <2>3. CASE l = n + 1 /\ k \in 1..n
    BY <1>5, <1>7, <2>3
  <2>4. QED
    BY <1>6, <2>1, <2>2, <2>3
<1>11. Results(rs, m, cs)
  BY <1>5, <1>8, <1>9, <1>10 DEF Results
<1>12. QED
  BY <1>4, <1>11

\* The n blocks bs with the answer of block c set to a.
WithAnswer(bs, n, c, a) ==
    [i \in 1..n |-> IF i = c THEN [bs[i] EXCEPT !.answer = a] ELSE bs[i]]

\* The n blocks cs are those of bs but for the answer of block c, which is a.
OneAnswered(cs, bs, n, c, a) ==
    /\ cs \in Seq(Block) /\ Len(cs) = n
    /\ \A k \in 1..n : /\ cs[k].row = bs[k].row /\ cs[k].id = bs[k].id
                       /\ cs[k].kind = bs[k].kind
                       /\ cs[k].answer = IF k = c THEN a ELSE bs[k].answer

\* Answering one block leaves the others, and leaves that one its row.
LEMMA AnsweredBlock ==
    ASSUME NEW n \in Nat, NEW bs \in Seq(Block), n = Len(bs), NEW c \in 1..n,
           NEW a \in Nat \ {0}, NEW cs, cs = WithAnswer(bs, n, c, a)
    PROVE  OneAnswered(cs, bs, n, c, a)
<1>1. \A b \in Block : LET d == [b EXCEPT !.answer = a] IN
         d \in Block /\ d.row = b.row /\ d.id = b.id /\ d.kind = b.kind /\ d.answer = a
  BY DEF Block
<1>2. ASSUME NEW k \in 1..n
      PROVE  /\ cs[k] \in Block /\ cs[k].row = bs[k].row /\ cs[k].id = bs[k].id
             /\ cs[k].kind = bs[k].kind
             /\ cs[k].answer = IF k = c THEN a ELSE bs[k].answer
  <2>1. bs[k] \in Block
    OBVIOUS
  <2>2. CASE k = c
    <3>1. cs[k] = [bs[k] EXCEPT !.answer = a]
      BY <2>2, Zenon DEF WithAnswer
    <3>2. QED
      BY <1>1, <2>1, <2>2, <3>1, Zenon
  <2>3. CASE k # c
    <3>1. cs[k] = bs[k]
      BY <2>3, Zenon DEF WithAnswer
    <3>2. QED
      BY <2>1, <2>3, <3>1, Zenon
  <2>4. QED
    BY <2>2, <2>3, Zenon
<1>3. DOMAIN cs = 1..n /\ cs = [i \in 1..n |-> cs[i]]
  BY Zenon DEF WithAnswer
<1>4. cs \in [1..n -> Block]
  BY <1>2, <1>3
<1>5. cs \in Seq(Block)
  BY <1>4, SeqDef
<1>6. 1..Len(cs) = 1..n /\ Len(cs) \in Nat
  BY <1>3, <1>5, LenProperties
<1>7. Len(cs) = n
  BY <1>6
<1>8. QED
  BY <1>2, <1>5, <1>7, Zenon DEF OneAnswered

\* A result that goes to its call's block.
LEMMA ShownInCall ==
    ASSUME NEW rs \in Seq(Row), WellKept(rs), NEW m \in 1..Len(rs), NEW bs, NEW p,
           ShownAs(rs, m - 1, bs, p), Results(rs, m - 1, bs),
           FirstIn(rs, m), rs[m].kind = "result", CallOf(rs[m], bs) # {},
           NEW cs, cs = [i \in DOMAIN bs |->
                          IF i \in CallOf(rs[m], bs) THEN [bs[i] EXCEPT !.answer = rs[m].key]
                          ELSE bs[i]]
    PROVE  ShownAs(rs, m, cs, p) /\ Results(rs, m, cs)
<1>1. \A i \in 1..m : i = m \/ i \in 1..(m - 1)
  OBVIOUS
<1>2. \A i \in 1..(m - 1) : i \in 1..m /\ i \in 1..Len(rs) /\ rs[i].key # rs[m].key
  BY DEF FirstIn
<1>3. PICK n \in Nat : n = Len(bs)
  BY DEF ShownAs
<1>4. /\ bs \in Seq(Block) /\ p \in [1..n -> 1..(m - 1)]
      /\ \A k, l \in 1..n : k < l => p[k] < p[l]
      /\ \A k \in 1..n : /\ FirstIn(rs, p[k]) /\ rs[p[k]].kind # "hidden"
                         /\ bs[k].row = rs[p[k]].key /\ bs[k].id = bs[k].row
  BY <1>3 DEF ShownAs
<1>5. PICK c \in 1..n : bs[c].kind = "tool" /\ bs[c].row = rs[m].of
  BY <1>3, <1>4 DEF CallOf
<1>6. \A k \in 1..n : bs[k].row = rs[m].of => k = c
  <2> SUFFICES ASSUME NEW k \in 1..n, bs[k].row = rs[m].of, k # c PROVE FALSE
    OBVIOUS
  <2>1. rs[p[k]].key = rs[p[c]].key
    BY <1>4, <1>5
  <2>2. p[k] \in Int /\ p[c] \in Int /\ (k < c \/ c < k)
    BY <1>4, <1>5
  <2>3. p[k] < p[c] \/ p[c] < p[k]
    BY <1>4, <1>5, <2>2
  <2>4. p[k] \in 1..(p[c] - 1) \/ p[c] \in 1..(p[k] - 1)
    BY <1>4, <1>5, <2>3
  <2>5. FirstIn(rs, p[k]) /\ FirstIn(rs, p[c])
    BY <1>4
  <2>6. QED
    BY <2>1, <2>4, <2>5 DEF FirstIn
<1>7. rs[m].key \in Nat \ {0}
  <2>1. rs[m] \in Row
    OBVIOUS
  <2>2. QED
    BY <2>1 DEF Row
<1>8. CallOf(rs[m], bs) = {c} /\ DOMAIN bs = 1..n
  BY <1>3, <1>4, <1>5, <1>6 DEF CallOf
<1>9. /\ cs \in Seq(Block) /\ Len(cs) = n
      /\ \A k \in 1..n : cs[k].row = bs[k].row /\ cs[k].id = bs[k].id /\ cs[k].kind = bs[k].kind
      /\ \A k \in 1..n : cs[k].answer = IF k = c THEN rs[m].key ELSE bs[k].answer
  <2>1. PICK a \in Nat \ {0} : a = rs[m].key
    BY <1>7
  <2>2. cs = WithAnswer(bs, n, c, a)
    BY <1>8, <2>1 DEF WithAnswer
  <2>3. bs \in Seq(Block)
    BY <1>4, Zenon
  <2>4. OneAnswered(cs, bs, n, c, a)
    BY <1>3, <1>5, <2>2, <2>3, AnsweredBlock, Zenon
  <2>5. OneAnswered(cs, bs, n, c, rs[m].key)
    BY <2>1, <2>4, Zenon
  <2>6. QED
    BY <2>5, Zenon DEF OneAnswered
<1>10. bs[c].answer = 0
  <2> SUFFICES ASSUME bs[c].answer # 0 PROVE FALSE
    OBVIOUS
  <2>1. PICK i \in 1..(m - 1) : /\ FirstIn(rs, i) /\ rs[i].kind = "result"
                                /\ bs[c].row \in {rs[i].key, rs[i].of}
    BY <1>3 DEF Results
  <2>2. i \in 1..Len(rs) /\ rs[i].key # rs[m].key
    BY <1>2
  <2>3. CASE rs[i].key = rs[m].of
    BY <2>1, <2>2, <2>3 DEF WellKept
  <2>4. CASE rs[i].of = rs[m].of
    BY <2>1, <2>2, <2>4 DEF WellKept
  <2>5. QED
    BY <1>5, <2>1, <2>3, <2>4
<1>11. ShownAs(rs, m, cs, p)
  <2>1. p \in [1..n -> 1..m]
    BY <1>2, <1>4
  <2>2. \A k \in 1..n : /\ FirstIn(rs, p[k]) /\ rs[p[k]].kind # "hidden"
                        /\ cs[k].row = rs[p[k]].key /\ cs[k].id = cs[k].row
    BY <1>4, <1>9
  <2>3. \A i \in 1..m : FirstIn(rs, i) /\ rs[i].kind \in {"text", "call"} =>
          \E k \in 1..n : p[k] = i /\ (rs[i].kind = "call" => cs[k].kind = "tool")
    <3> SUFFICES ASSUME NEW i \in 1..m, FirstIn(rs, i), rs[i].kind \in {"text", "call"}
                 PROVE  \E k \in 1..n : p[k] = i /\ (rs[i].kind = "call" => cs[k].kind = "tool")
      OBVIOUS
    <3>1. i \in 1..(m - 1)
      BY <1>1
    <3>2. PICK k \in 1..n : p[k] = i /\ (rs[i].kind = "call" => bs[k].kind = "tool")
      BY <1>3, <3>1 DEF ShownAs
    <3>3. QED
      BY <1>9, <3>2
  <2>4. QED
    BY <1>4, <1>9, <2>1, <2>2, <2>3 DEF ShownAs
<1>12. Results(rs, m, cs)
  <2>1. \A i \in 1..m : FirstIn(rs, i) /\ rs[i].kind = "result" =>
          \E k \in 1..n : cs[k].answer = rs[i].key
    <3> SUFFICES ASSUME NEW i \in 1..m, FirstIn(rs, i), rs[i].kind = "result"
                 PROVE  \E k \in 1..n : cs[k].answer = rs[i].key
      OBVIOUS
    <3>1. CASE i = m
      BY <1>9, <3>1
    <3>2. CASE i # m
      <4>1. i \in 1..(m - 1) /\ rs[i] \in Row
        BY <1>1, <1>2, <3>2
      <4>2. PICK k \in 1..n : bs[k].answer = rs[i].key
        BY <1>3, <4>1 DEF Results
      <4>3. rs[i].key # 0
        BY <4>1 DEF Row
      <4>4. QED
        BY <1>9, <1>10, <4>2, <4>3
    <3>3. QED
      BY <3>1, <3>2
  <2>2. \A k \in 1..n : cs[k].answer # 0 =>
          \E i \in 1..m : /\ FirstIn(rs, i) /\ rs[i].kind = "result"
                          /\ rs[i].key = cs[k].answer /\ cs[k].row \in {rs[i].key, rs[i].of}
    <3> SUFFICES ASSUME NEW k \in 1..n, cs[k].answer # 0
                 PROVE  \E i \in 1..m : /\ FirstIn(rs, i) /\ rs[i].kind = "result"
                          /\ rs[i].key = cs[k].answer /\ cs[k].row \in {rs[i].key, rs[i].of}
      OBVIOUS
    <3>1. CASE k = c
      <4>1. cs[k].answer = rs[m].key /\ cs[k].row = rs[m].of /\ m \in 1..m
        BY <1>5, <1>9, <3>1
      <4>2. QED
        BY <4>1
    <3>2. CASE k # c
      <4>1. cs[k].answer = bs[k].answer /\ cs[k].row = bs[k].row
        BY <1>9, <3>2
      <4>2. QED
        BY <1>2, <1>3, <4>1 DEF Results
    <3>3. QED
      BY <3>1, <3>2
  <2>3. \A k \in 1..n : bs[k].answer # rs[m].key
    BY <1>2, <1>3, <1>7 DEF Results
  <2>4. \A k, l \in 1..n : cs[k].answer = cs[l].answer /\ cs[k].answer # 0 => k = l
    <3> SUFFICES ASSUME NEW k \in 1..n, NEW l \in 1..n,
                        cs[k].answer = cs[l].answer, cs[k].answer # 0
                 PROVE  k = l
      OBVIOUS
    <3>1. CASE k # c /\ l # c
      <4>1. bs[k].answer = bs[l].answer /\ bs[k].answer # 0
        BY <1>9, <3>1
      <4>2. QED
        BY <1>3, <4>1 DEF Results
    <3>2. CASE ~(k # c /\ l # c)
      BY <1>9, <2>3, <3>2
    <3>3. QED
      BY <3>1, <3>2
  <2>5. QED
    BY <1>9, <2>1, <2>2, <2>4 DEF Results
<1>13. QED
  BY <1>11, <1>12

\* What a row that comes first adds.
LEMMA ShownStep ==
    ASSUME NEW rs \in Seq(Row), WellKept(rs), NEW m \in 1..Len(rs), NEW bs, NEW p,
           ShownAs(rs, m - 1, bs, p), Results(rs, m - 1, bs), FirstIn(rs, m),
           NEW cs, cs = Shown(rs[m], bs)
    PROVE  \E q : ShownAs(rs, m, cs, q) /\ Results(rs, m, cs)
<1>1. PICK r \in Row : r = rs[m]
  OBVIOUS
<1>2. m \in Nat \ {0} /\ r.key \in Nat \ {0} /\ bs \in Seq(Block)
  BY DEF Row, ShownAs
<1>3. r.kind \in {"text", "call", "result", "hidden"}
  BY DEF Row
<1>4. CASE r.kind = "hidden"
  <2>1. cs = bs
    BY <1>1, <1>4 DEF Shown
  <2>2. QED
    BY <1>1, <1>2, <1>4, <2>1, ShownSame
<1>5. ASSUME NEW kind \in {"text", "tool"}, NEW a, a = IF r.kind = "result" THEN r.key ELSE 0,
             r.kind = "call" => kind = "tool", r.kind # "hidden", cs = Added(r, bs, kind, a)
      PROVE  \E q : ShownAs(rs, m, cs, q) /\ Results(rs, m, cs)
  <2>1. PICK b : b = [id |-> r.key, row |-> r.key, kind |-> kind, answer |-> a]
    OBVIOUS
  <2>2. /\ b \in Block /\ b.row = rs[m].key /\ b.id = b.row /\ b.kind = kind
        /\ b.answer = IF rs[m].kind = "result" THEN rs[m].key ELSE 0
    <3>1. a \in Nat
      BY <1>2, <1>5
    <3>2. QED
      BY <1>1, <1>2, <1>5, <2>1, <3>1 DEF Block
  <2>3. cs = Append(bs, b)
    BY <1>5, <2>1 DEF Added, BlockId
  <2>4. \E q : ShownAs(rs, m, Append(bs, b), q)
    BY <1>1, <1>2, <1>5, <2>2, ShownMore
  <2>5. Results(rs, m, Append(bs, b))
    BY <1>1, <1>2, <2>2, ResultsMore
  <2>6. QED
    BY <2>3, <2>4, <2>5
<1>6. CASE r.kind = "text"
  <2>1. cs = Added(r, bs, "text", 0)
    BY <1>1, <1>6 DEF Shown
  <2>2. QED
    BY <1>5, <1>6, <2>1
<1>7. CASE r.kind = "call"
  <2>1. cs = Added(r, bs, "tool", 0)
    BY <1>1, <1>7 DEF Shown
  <2>2. QED
    BY <1>5, <1>7, <2>1
<1>8. CASE r.kind = "result" /\ CallOf(r, bs) = {}
  <2>1. cs = Added(r, bs, "tool", r.key)
    BY <1>1, <1>8 DEF Shown, Orphan
  <2>2. QED
    BY <1>5, <1>8, <2>1
<1>9. CASE r.kind = "result" /\ CallOf(r, bs) # {}
  <2>1. cs = [i \in DOMAIN bs |->
                IF i \in CallOf(rs[m], bs) THEN [bs[i] EXCEPT !.answer = rs[m].key] ELSE bs[i]]
    BY <1>1, <1>9 DEF Shown
  <2>2. QED
    BY <1>1, <1>9, <2>1, ShownInCall
<1>10. QED
  BY <1>3, <1>4, <1>6, <1>7, <1>8, <1>9

\* What a reader makes of the rows: each once, in order.
LEMMA BlocksOf ==
    ASSUME NEW rs \in Seq(Row), WellKept(rs), store \in {"parts", "lines"},
           NEW n \in Nat, n = Len(rs), NEW bs, bs = ToBlocks(rs)
    PROVE  \E p : ShownAs(rs, n, bs, p) /\ Results(rs, n, bs)
<1>1. PICK read : Reading(rs, n, read) /\ bs = read[n]
  BY ReadingOf
<1> DEFINE T == {m \in 0..n : \E p : ShownAs(rs, m, read[m], p) /\ Results(rs, m, read[m])}
<1>2. 0 \in T
  <2>1. read[0] = <<>>
    BY <1>1 DEF Reading
  <2>2. PICK p : p = [k \in 1..0 |-> 0]
    OBVIOUS
  <2>3. 1..0 = {} /\ Len(<<>>) = 0 /\ <<>> \in Seq(Block)
    OBVIOUS
  <2>4. p \in [1..0 -> 1..0]
    BY <2>2, <2>3
  <2>5. ShownAs(rs, 0, <<>>, p)
    BY <2>3, <2>4 DEF ShownAs
  <2>6. Results(rs, 0, <<>>)
    BY <2>3 DEF Results
  <2>7. QED
    BY <2>1, <2>5, <2>6
<1>3. ASSUME NEW m \in 1..n, m - 1 \in T PROVE m \in T
  <2>1. PICK p : ShownAs(rs, m - 1, read[m - 1], p) /\ Results(rs, m - 1, read[m - 1])
    BY <1>3
  <2>2. m \in Nat \ {0} /\ m \in 0..n /\ m \in 1..Len(rs)
    OBVIOUS
  <2>3. PICK bs1 : bs1 = read[m - 1]
    OBVIOUS
  <2>4. CASE FirstIn(rs, m)
    <3>1. read[m] = Shown(rs[m], bs1)
      BY <1>1, <2>3, <2>4 DEF Reading
    <3>2. \E q : ShownAs(rs, m, read[m], q) /\ Results(rs, m, read[m])
      BY <2>1, <2>2, <2>3, <2>4, <3>1, ShownStep
    <3>3. QED
      BY <2>2, <3>2
  <2>5. CASE ~FirstIn(rs, m)
    <3>1. read[m] = bs1
      BY <1>1, <2>3, <2>5 DEF Reading
    <3>2. ShownAs(rs, m, read[m], p) /\ Results(rs, m, read[m])
      BY <2>1, <2>2, <2>3, <2>5, <3>1, ShownSame
    <3>3. QED
      BY <2>2, <3>2
  <2>6. QED
    BY <2>4, <2>5
<1> HIDE DEF T
<1>4. n \in 0..n
  OBVIOUS
<1>5. n \in T
  BY <1>2, <1>3, <1>4, Upwards
<1>6. QED
  BY <1>1, <1>5 DEF T

\* The first row with the key of row i.
LEMMA FirstExists ==
    ASSUME NEW rs, NEW n \in Nat, NEW i \in 1..n
    PROVE  \E f \in 1..i : FirstIn(rs, f) /\ rs[f].key = rs[i].key
<1> DEFINE T == {j \in 1..i : rs[j].key = rs[i].key}
<1>1. T \subseteq Nat /\ i \in T
  OBVIOUS
<1>2. \A j \in T : j \in 1..i /\ rs[j].key = rs[i].key
  OBVIOUS
<1>3. \A j \in 1..i : rs[j].key = rs[i].key => j \in T
  OBVIOUS
<1> HIDE DEF T
<1>4. PICK f \in T : \A j \in T : f <= j
  BY <1>1, Smallest
<1>5. ASSUME NEW j \in 1..(f - 1) PROVE rs[j].key # rs[f].key
  <2>1. j \in 1..i /\ ~(f <= j) /\ f \in 1..i
    BY <1>2
  <2>2. QED
    BY <1>2, <1>3, <1>4, <2>1
<1>6. QED
  BY <1>2, <1>5 DEF FirstIn

\* Every row that a reader read is shown by one block.
LEMMA ShownOnce ==
    ASSUME NEW rs \in Seq(Row), WellKept(rs), NEW n \in Nat, n = Len(rs), NEW bs, NEW p,
           ShownAs(rs, n, bs, p), Results(rs, n, bs),
           NEW i \in 1..n, rs[i].kind # "hidden"
    PROVE  Cardinality({k \in 1..Len(bs) :
                  IF rs[i].kind = "result" THEN bs[k].answer = rs[i].key
                  ELSE bs[k].row = rs[i].key}) = 1
<1> DEFINE S == {k \in 1..Len(bs) : IF rs[i].kind = "result" THEN bs[k].answer = rs[i].key
                                    ELSE bs[k].row = rs[i].key}
<1>1. PICK f \in 1..n : FirstIn(rs, f) /\ rs[f] = rs[i]
  <2>1. PICK f \in 1..i : FirstIn(rs, f) /\ rs[f].key = rs[i].key
    BY FirstExists
  <2>2. f \in 1..n
    OBVIOUS
  <2>3. rs[f] = rs[i]
    BY <2>1, <2>2 DEF WellKept
  <2>4. QED
    BY <2>1, <2>2, <2>3
<1>2. rs[f].key # 0 /\ rs[f].kind \in {"text", "call", "result", "hidden"}
  <2>1. rs[f] \in Row
    OBVIOUS
  <2>2. QED
    BY <2>1 DEF Row
<1>3. \E k \in S : S = {k}
  <2>1. CASE rs[i].kind = "result"
    <3>1. PICK k \in 1..Len(bs) : bs[k].answer = rs[f].key
      BY <1>1, <2>1 DEF Results
    <3>2. \A l \in 1..Len(bs) : bs[l].answer = rs[f].key => l = k
      BY <1>2, <3>1 DEF Results
    <3>3. S = {k}
      BY <1>1, <2>1, <3>1, <3>2
    <3>4. QED
      BY <3>3
  <2>2. CASE rs[i].kind # "result"
    <3>1. PICK k \in 1..Len(bs) : p[k] = f
      BY <1>1, <1>2, <2>2 DEF ShownAs
    <3>2. bs[k].row = rs[f].key
      BY <3>1 DEF ShownAs
    <3>3. ASSUME NEW l \in 1..Len(bs), bs[l].row = rs[f].key, l # k PROVE FALSE
      <4>1. FirstIn(rs, p[l]) /\ rs[p[l]].key = rs[f].key /\ p[l] \in 1..n
        BY <3>3 DEF ShownAs
      <4>2. l < k \/ k < l
        BY <3>3 DEF ShownAs
      <4>3. p[l] < f \/ f < p[l]
        BY <3>1, <4>2 DEF ShownAs
      <4>4. p[l] \in 1..(f - 1) \/ f \in 1..(p[l] - 1)
        BY <4>1, <4>3
      <4>5. QED
        BY <1>1, <4>1, <4>4 DEF FirstIn
    <3>4. S = {k}
      BY <1>1, <2>2, <3>2, <3>3
    <3>5. QED
      BY <3>4
  <2>3. QED
    BY <2>1, <2>2
<1> HIDE DEF S
<1>4. Cardinality(S) = 1
  BY <1>3, FS_Singleton
<1>5. QED
  BY <1>4 DEF S

-----------------------------------------------------------------------------
(* The window, and the blocks in reach.                                     *)

\* The newest n of s: what is left when the first off are gone.
LEMMA NewestOf ==
    ASSUME NEW S, NEW s \in Seq(S), NEW n \in Nat \ {0}, NEW r, r = Newest(s, n)
    PROVE  \E off \in Nat :
              /\ r \in Seq(S) /\ Len(r) + off = Len(s)
              /\ \A i \in 1..Len(r) : i + off \in 1..Len(s) /\ r[i] = s[i + off]
              /\ off = 0 \/ off + n = Len(s)
<1>1. PICK l \in Nat : l = Len(s)
  OBVIOUS
<1>2. CASE l <= n
  <2>1. r = s
    BY <1>1, <1>2 DEF Newest
  <2>2. 0 \in Nat /\ l + 0 = l /\ \A i \in 1..l : i + 0 = i
    OBVIOUS
  <2>3. QED
    BY <1>1, <2>1, <2>2
<1>3. CASE ~(l <= n)
  <2>1. PICK off \in Nat : off = l - n
    BY <1>3
  <2>2. r = SubSeq(s, off + 1, l)
    BY <1>1, <1>3, <2>1 DEF Newest
  <2>3. /\ off + 1 \in 1..l /\ l - (off + 1) + 1 = n /\ n + off = l
        /\ \A i \in 1..n : i + off \in 1..l /\ (off + 1) + i - 1 = i + off
    BY <1>3, <2>1
  <2>4. /\ SubSeq(s, off + 1, l) \in Seq(S) /\ Len(SubSeq(s, off + 1, l)) = n
        /\ \A i \in 1..n : SubSeq(s, off + 1, l)[i] = s[i + off]
    BY <1>1, <2>3, SubSeqProperties
  <2>5. /\ r \in Seq(S) /\ Len(r) + off = Len(s)
        /\ \A i \in 1..Len(r) : i + off \in 1..Len(s) /\ r[i] = s[i + off]
    BY <1>1, <2>2, <2>3, <2>4
  <2>6. off + n = Len(s)
    BY <1>1, <2>3
  <2>7. QED
    BY <2>5, <2>6
<1>4. QED
  BY <1>2, <1>3

\* The rows in reach are kept as well as all of them.
LEMMA WindowKept ==
    ASSUME WellKept(rows), NEW rs, rs = InReach(rows)
    PROVE  /\ rs \in Seq(Row) /\ WellKept(rs)
           /\ \E off \in Nat :
                 /\ Len(rs) + off = Len(rows)
                 /\ \A i \in 1..Len(rs) : i + off \in 1..Len(rows) /\ rs[i] = rows[i + off]
                 /\ off = 0 \/ off + Window = Len(rows)
<1>1. PICK off \in Nat :
        /\ rs \in Seq(Row) /\ Len(rs) + off = Len(rows)
        /\ \A i \in 1..Len(rs) : i + off \in 1..Len(rows) /\ rs[i] = rows[i + off]
        /\ off = 0 \/ off + Window = Len(rows)
  <2>1. rows \in Seq(Row) /\ Window \in Nat \ {0} /\ rs = Newest(rows, Window)
    BY ConstantsOK DEF WellKept, InReach
  <2>2. QED
    BY <2>1, NewestOf
<1>2. WellKept(rs)
  <2>1. \A i, j \in 1..Len(rs) : rs[i].key = rs[j].key => rs[i] = rs[j]
    <3> SUFFICES ASSUME NEW i \in 1..Len(rs), NEW j \in 1..Len(rs), rs[i].key = rs[j].key
                 PROVE  rs[i] = rs[j]
      OBVIOUS
    <3>1. /\ i + off \in 1..Len(rows) /\ j + off \in 1..Len(rows)
          /\ rs[i] = rows[i + off] /\ rs[j] = rows[j + off]
      BY <1>1
    <3>2. QED
      BY <3>1 DEF WellKept
  <2>2. \A i, j \in 1..Len(rs) :
           /\ rs[i].kind = "result" /\ rs[j].kind = "result" /\ rs[i].of = rs[j].of
           => rs[i].key = rs[j].key
    <3> SUFFICES ASSUME NEW i \in 1..Len(rs), NEW j \in 1..Len(rs), rs[i].kind = "result",
                        rs[j].kind = "result", rs[i].of = rs[j].of
                 PROVE  rs[i].key = rs[j].key
      OBVIOUS
    <3>1. /\ i + off \in 1..Len(rows) /\ j + off \in 1..Len(rows)
          /\ rs[i] = rows[i + off] /\ rs[j] = rows[j + off]
      BY <1>1
    <3>2. QED
      BY <3>1 DEF WellKept
  <2>3. \A i, j \in 1..Len(rs) :
           rs[i].kind = "result" /\ rs[j].key = rs[i].of => rs[j].kind = "call"
    <3> SUFFICES ASSUME NEW i \in 1..Len(rs), NEW j \in 1..Len(rs), rs[i].kind = "result",
                        rs[j].key = rs[i].of
                 PROVE  rs[j].kind = "call"
      OBVIOUS
    <3>1. /\ i + off \in 1..Len(rows) /\ j + off \in 1..Len(rows)
          /\ rs[i] = rows[i + off] /\ rs[j] = rows[j + off]
      BY <1>1
    <3>2. QED
      BY <3>1 DEF WellKept
  <2>4. store = "parts" => \A i, j \in 1..Len(rs) : rs[i].key = rs[j].key => i = j
    <3> SUFFICES ASSUME store = "parts", NEW i \in 1..Len(rs), NEW j \in 1..Len(rs),
                        rs[i].key = rs[j].key
                 PROVE  i = j
      OBVIOUS
    <3>1. i + off = j + off
      BY <1>1 DEF WellKept
    <3>2. QED
      BY <3>1
  <2>5. QED
    BY <1>1, <2>1, <2>2, <2>3, <2>4 DEF WellKept
<1>3. QED
  BY <1>1, <1>2

\* What it is to come first.
LEMMA FirstsAre ==
    ASSUME NEW i
    PROVE  i \in Firsts <=> /\ i \in DOMAIN rows
                            /\ \A j \in 1..(i - 1) : rows[j].key # rows[i].key
  BY Zenon DEF Firsts

\* Without a split, what comes first in the window comes first at all.
LEMMA FirstInReach ==
    ASSUME WellKept(rows), ~Split, NEW rs, NEW off \in Nat, Len(rs) \in Nat,
           Len(rs) + off = Len(rows),
           \A i \in 1..Len(rs) : i + off \in 1..Len(rows) /\ rs[i] = rows[i + off],
           off = 0 \/ off + Window = Len(rows), NEW i \in 1..Len(rs)
    PROVE  FirstIn(rs, i) <=> i + off \in Firsts
<1>1. PICK l \in Nat : l = Len(rows)
  BY DEF WellKept
<1>2. DOMAIN rows = 1..l /\ Window \in Nat \ {0} /\ i + off \in 1..l
  BY <1>1, ConstantsOK DEF WellKept
<1>3. PICK x \in 1..l : x = i + off /\ rs[i] = rows[x] /\ i \in Nat
  BY <1>2
<1>4. ASSUME FirstIn(rs, i), NEW j \in 1..(x - 1), rows[j].key = rows[x].key
      PROVE  FALSE
  <2>1. CASE j <= off
    <3>1. off + Window = l /\ j \in 1..l /\ j + Window <= l /\ x + Window > l
      BY <1>1, <1>2, <1>3, <2>1
    <3>2. /\ j \in DOMAIN rows /\ x \in DOMAIN rows
          /\ j + Window <= Len(rows) /\ x + Window > Len(rows)
      BY <1>1, <1>2, <3>1, Zenon
    <3>3. QED
      BY <1>4, <3>2, Zenon DEF Split
  <2>2. CASE ~(j <= off)
    <3>1. j - off \in 1..(i - 1) /\ j - off \in 1..Len(rs) /\ (j - off) + off = j
      BY <1>3, <2>2
    <3>2. rs[j - off] = rows[j]
      BY <3>1
    <3>3. QED
      BY <1>3, <1>4, <3>1, <3>2, Zenon DEF FirstIn
  <2>3. QED
    BY <2>1, <2>2
<1>5. ASSUME FirstIn(rs, i) PROVE x \in Firsts
  <2>1. \A j \in 1..(x - 1) : rows[j].key # rows[x].key
    BY <1>4, <1>5, Zenon
  <2>2. QED
    BY <1>2, <2>1, FirstsAre, Zenon
<1>6. ASSUME x \in Firsts PROVE FirstIn(rs, i)
  <2> SUFFICES ASSUME NEW j \in 1..(i - 1), rs[j].key = rs[i].key PROVE FALSE
    BY Zenon DEF FirstIn
  <2>1. j \in 1..Len(rs) /\ j + off \in 1..(x - 1)
    BY <1>3
  <2>2. rs[j] = rows[j + off]
    BY <2>1, Zenon
  <2>3. QED
    BY <1>3, <1>6, <2>1, <2>2, FirstsAre, Zenon
<1>7. QED
  BY <1>3, <1>5, <1>6, Zenon

\* Where in the session the rows of the blocks in reach stand: in order, each
\* where it first comes, and no text or call from the first of them on is missing,
\* unless the window parts a row from its repeat.
Reaches(hs, q) ==
    /\ hs \in Seq(Block) /\ q \in [1..Len(hs) -> 1..Len(rows)]
    /\ \A k, l \in 1..Len(hs) : k < l => q[k] < q[l]
    /\ \A k \in 1..Len(hs) : rows[q[k]].key = hs[k].row /\ hs[k].id = hs[k].row
    /\ ~Split => \A k \in 1..Len(hs) : q[k] \in Firsts
    /\ ~Split => \A i \in Firsts : \A f \in 1..Len(hs) :
          f = 1 /\ rows[i].kind \in {"text", "call"} /\ q[f] <= i
          => \E k \in 1..Len(hs) : q[k] = i

\* So do those of any session.
LEMMA HistoryReaches ==
    ASSUME WellKept(rows), store \in {"parts", "lines"}, NEW hs, hs = History
    PROVE  \E q : Reaches(hs, q)
<1>1. PICK rs : rs = InReach(rows)
  OBVIOUS
<1>2. rs \in Seq(Row) /\ WellKept(rs)
  BY <1>1, WindowKept
<1>3. PICK off \in Nat :
        /\ Len(rs) + off = Len(rows)
        /\ \A i \in 1..Len(rs) : i + off \in 1..Len(rows) /\ rs[i] = rows[i + off]
        /\ off = 0 \/ off + Window = Len(rows)
  BY <1>1, WindowKept
<1>4. PICK n \in Nat : n = Len(rs)
  BY <1>2
<1>5. PICK bs : bs = ToBlocks(rs)
  OBVIOUS
<1>6. PICK p : ShownAs(rs, n, bs, p)
  BY <1>2, <1>4, <1>5, BlocksOf
<1>7. bs \in Seq(Block) /\ hs = Newest(bs, BlockLimit) /\ BlockLimit \in Nat \ {0}
  BY <1>1, <1>5, <1>6, ConstantsOK DEF ShownAs, History
<1>8. PICK cut \in Nat :
        /\ hs \in Seq(Block) /\ Len(hs) + cut = Len(bs)
        /\ \A k \in 1..Len(hs) : k + cut \in 1..Len(bs) /\ hs[k] = bs[k + cut]
        /\ cut = 0 \/ cut + BlockLimit = Len(bs)
  BY <1>7, NewestOf
<1>9. PICK h \in Nat : h = Len(hs)
  BY <1>8
<1>10. PICK q : q = [k \in 1..h |-> p[k + cut] + off]
  OBVIOUS
<1>11. ASSUME NEW k \in 1..h
       PROVE  /\ k + cut \in 1..Len(bs) /\ hs[k] = bs[k + cut]
              /\ q[k] = p[k + cut] + off /\ p[k + cut] \in 1..n
              /\ FirstIn(rs, p[k + cut]) /\ rs[p[k + cut]] = rows[q[k]]
              /\ q[k] \in 1..Len(rows)
  <2>1. k + cut \in 1..Len(bs) /\ hs[k] = bs[k + cut] /\ q[k] = p[k + cut] + off
    BY <1>8, <1>9, <1>10
  <2>2. p[k + cut] \in 1..n /\ FirstIn(rs, p[k + cut])
    BY <1>6, <2>1 DEF ShownAs
  <2>3. q[k] \in 1..Len(rows) /\ rs[p[k + cut]] = rows[q[k]]
    BY <1>3, <1>4, <2>1, <2>2
  <2>4. QED
    BY <2>1, <2>2, <2>3
<1>12. q \in [1..h -> 1..Len(rows)]
  BY <1>10, <1>11
<1>13. ASSUME NEW k \in 1..h, NEW l \in 1..h, k < l PROVE q[k] < q[l]
  <2>1. k + cut < l + cut
    BY <1>13
  <2>2. p[k + cut] < p[l + cut]
    BY <1>6, <1>11, <2>1 DEF ShownAs
  <2>3. QED
    BY <1>11, <2>2
<1>14. ASSUME NEW k \in 1..h PROVE rows[q[k]].key = hs[k].row /\ hs[k].id = hs[k].row
  <2>1. PICK c : c = k + cut
    OBVIOUS
  <2>2. c \in 1..Len(bs) /\ hs[k] = bs[c] /\ rs[p[c]] = rows[q[k]]
    BY <1>11, <2>1
  <2>3. bs[c].row = rs[p[c]].key /\ bs[c].id = bs[c].row
    BY <1>6, <2>2 DEF ShownAs
  <2>4. QED
    BY <2>2, <2>3
<1>15. ASSUME ~Split, NEW i \in 1..n PROVE FirstIn(rs, i) <=> i + off \in Firsts
  <2>1. Len(rs) \in Nat /\ i \in 1..Len(rs)
    BY <1>4
  <2>2. QED
    BY <1>3, <1>15, <2>1, FirstInReach
<1>16. ~Split => \A k \in 1..h : q[k] \in Firsts
  BY <1>11, <1>15
<1>17. ASSUME ~Split, NEW i \in Firsts, rows[i].kind \in {"text", "call"},
              1 \in 1..h, q[1] <= i
       PROVE  \E k \in 1..h : q[k] = i
  <2>1. PICK c \in Nat \ {0} : c = 1 + cut
    OBVIOUS
  <2>2. q[1] = p[c] + off /\ p[c] \in 1..n /\ c \in 1..Len(bs)
    BY <1>11, <1>17, <2>1
  <2>3. i \in 1..Len(rows)
    BY DEF Firsts, WellKept
  <2>4. PICK j \in 1..n : j + off = i
    <3>1. i - off \in 1..n /\ (i - off) + off = i
      BY <1>3, <1>4, <1>17, <2>2, <2>3
    <3>2. QED
      BY <3>1
  <2>5. FirstIn(rs, j) /\ rs[j] = rows[i]
    BY <1>3, <1>4, <1>15, <1>17, <2>4
  <2>6. PICK l \in 1..Len(bs) : p[l] = j
    BY <1>6, <1>17, <2>5 DEF ShownAs
  <2>7. l >= c
    <3>1. ASSUME l < c PROVE FALSE
      <4>1. p[l] < p[c]
        BY <1>6, <2>2, <3>1 DEF ShownAs
      <4>2. QED
        BY <1>17, <2>2, <2>4, <2>6, <4>1
    <3>2. QED
      BY <2>1, <3>1
  <2>8. l - cut \in 1..h /\ (l - cut) + cut = l
    BY <1>8, <1>9, <2>1, <2>7
  <2>9. q[l - cut] = i
    BY <1>11, <2>4, <2>6, <2>8
  <2>10. QED
    BY <2>8, <2>9
<1>18. Reaches(hs, q)
  BY <1>8, <1>9, <1>12, <1>13, <1>14, <1>16, <1>17 DEF Reaches
<1>19. QED
  BY <1>18

-----------------------------------------------------------------------------
(* A page.                                                                  *)

\* The page that holds blocks start + 1 to end of hs.
Holds(page, hs, start, end) ==
    /\ page.blocks = SubSeq(hs, start + 1, end)
    /\ page.more = (start > 0)
    /\ page.next = IF start > 0 /\ start < end THEN hs[start + 1].id ELSE None

\* PageEndingAt makes such a page.
LEMMA HoldsIs ==
    ASSUME NEW hs, NEW start, NEW end, NEW page,
           page = [blocks |-> SubSeq(hs, start + 1, end), more |-> start > 0,
                   next |-> IF start > 0 /\ start < end THEN hs[start + 1].id ELSE None]
    PROVE  Holds(page, hs, start, end)
<1>1. PICK m : m = (start > 0)
  BY Zenon
<1>2. PICK bs, n : /\ bs = SubSeq(hs, start + 1, end)
                   /\ n = IF start > 0 /\ start < end THEN hs[start + 1].id ELSE None
  BY Zenon
<1>3. page = [blocks |-> bs, more |-> m, next |-> n]
  BY <1>1, <1>2, Zenon
<1>4. page.blocks = bs /\ page.more = m /\ page.next = n
  BY <1>3
<1>5. QED
  BY <1>1, <1>2, <1>4, Zenon DEF Holds

\* A page holds a block where there is one.
LEMMA PageHolds ==
    ASSUME NEW hs \in Seq(Block), NEW end \in 0..Len(hs), NEW limit \in PageLimits,
           NEW page, page = PageEndingAt(hs, end, limit)
    PROVE  \E start \in 0..end : Holds(page, hs, start, end) /\ (end > 0 => start < end)
<1> DEFINE starts == {s \in 0..end : Fits(SubSeq(hs, s + 1, end), limit)}
<1>1. PICK l : l = IF end > 0 THEN end - 1 ELSE 0
  OBVIOUS
<1>2. l \in 0..end /\ end - l <= 1
  BY <1>1
<1>3. Len(SubSeq(hs, l + 1, end)) <= 1
  <2>1. CASE end > 0
    <3>1. l + 1 = end /\ end \in 1..Len(hs)
      BY <1>1, <2>1
    <3>2. Len(SubSeq(hs, end, end)) = 1
      BY <3>1, SubSeqProperties
    <3>3. QED
      BY <3>1, <3>2
  <2>2. CASE ~(end > 0)
    <3>1. l + 1 = 1 /\ end = 0
      BY <1>1, <2>2
    <3>2. SubSeq(hs, 1, 0) = <<>>
      BY SubSeqEmpty
    <3>3. QED
      BY <3>1, <3>2
  <2>3. QED
    BY <2>1, <2>2
<1>4. Fits(SubSeq(hs, l + 1, end), limit)
  <2>1. limit.blocks \in Nat \ {0}
    BY ConstantsOK
  <2>2. SubSeq(hs, l + 1, end) \in Seq(Block)
    BY <1>2, SubSeqProperties
  <2>3. QED
    BY <1>3, <2>1, <2>2 DEF Fits
<1>5. starts \subseteq Nat /\ l \in starts /\ starts \subseteq 0..end
  BY <1>2, <1>4
<1>6. PICK start : start = CHOOSE s \in starts : \A t \in starts : s <= t
  OBVIOUS
<1>7. page = [blocks |-> SubSeq(hs, start + 1, end), more |-> start > 0,
              next |-> IF start > 0 /\ start < end THEN hs[start + 1].id ELSE None]
  BY <1>6 DEF PageEndingAt
<1> HIDE DEF starts
<1>8. start \in starts /\ \A t \in starts : start <= t
  BY <1>5, <1>6, Smallest
<1>9. start \in 0..end /\ start <= l
  BY <1>5, <1>8
<1>10. end > 0 => start < end
  BY <1>1, <1>9
<1>11. Holds(page, hs, start, end)
  BY <1>7, HoldsIs
<1>12. QED
  BY <1>9, <1>10, <1>11

\* Where a page begins and ends: before the block its cursor names, or, without one,
\* at the newest; nowhere when the cursor names no block.
Ends(page, hs, before, start, end) ==
    /\ Holds(page, hs, start, end) /\ (end > 0 => start < end)
    /\ before = None => end = Len(hs)
    /\ before # None => end < Len(hs) /\ hs[end + 1].id = before

IsLost(page, hs, before) == before # None /\ At(hs, before) = {} /\ page = EmptyPage

\* paginate_blocks finds one or the other.
LEMMA PageOf ==
    ASSUME NEW hs \in Seq(Block), NEW before, NEW limit \in PageLimits,
           NEW page, page = Page(hs, before, limit)
    PROVE  IsLost(page, hs, before)
           \/ \E end \in 0..Len(hs) : \E start \in 0..end : Ends(page, hs, before, start, end)
<1>1. PICK l \in Nat : l = Len(hs)
  OBVIOUS
<1>2. CASE before = None
  <2>1. page = PageEndingAt(hs, l, limit) /\ l \in 0..Len(hs)
    BY <1>1, <1>2 DEF Page
  <2>2. PICK start \in 0..l : Holds(page, hs, start, l) /\ (l > 0 => start < l)
    BY <2>1, PageHolds
  <2>3. Ends(page, hs, before, start, l)
    BY <1>1, <1>2, <2>2 DEF Ends
  <2>4. QED
    BY <2>1, <2>2, <2>3
<1>3. CASE before # None /\ At(hs, before) = {}
  BY <1>3 DEF Page, Lost, IsLost
<1>4. CASE before # None /\ At(hs, before) # {}
  <2>1. PICK S : S = At(hs, before)
    OBVIOUS
  <2>2. S \subseteq Nat /\ S # {} /\ \A i \in S : i \in 1..l /\ hs[i].id = before
    BY <1>1, <1>4, <2>1 DEF At
  <2>3. PICK i \in S : TRUE
    BY <2>2
  <2>4. PICK at : at = CHOOSE k \in S : \A j \in S : k <= j
    OBVIOUS
  <2>5. at \in S
    BY <2>2, <2>3, <2>4, Smallest
  <2>6. page = PageEndingAt(hs, at - 1, limit)
    BY <1>4, <2>1, <2>4 DEF Page, Before
  <2>7. PICK end : end = at - 1
    OBVIOUS
  <2>8. end \in 0..Len(hs) /\ end < Len(hs) /\ end + 1 = at /\ hs[end + 1].id = before
    BY <1>1, <2>2, <2>5, <2>7
  <2>9. PICK start \in 0..end : Holds(page, hs, start, end) /\ (end > 0 => start < end)
    BY <2>6, <2>7, <2>8, PageHolds
  <2>10. Ends(page, hs, before, start, end)
    BY <1>4, <2>8, <2>9 DEF Ends
  <2>11. QED
    BY <2>8, <2>9, <2>10
<1>5. QED
  BY <1>2, <1>3, <1>4

-----------------------------------------------------------------------------
(* The rows a session writes.                                               *)

\* The keys in use are those to n, and a result answers one of them.
KeysTo(rs, n) ==
    /\ {rs[i].key : i \in DOMAIN rs} = 1..n
    /\ \A i \in 1..Len(rs) : rs[i].of \in 0..n

\* Rows are kept well, whatever a session writes.
RowsAreKept ==
    /\ store \in {"parts", "lines"}
    /\ WellKept(rows)
    /\ \E n \in Nat : KeysTo(rows, n)

\* The key of a new row is new.
LEMMA NewKeyIs ==
    ASSUME NEW n \in Nat, KeysTo(rows, n)
    PROVE  NewKey = n + 1
<1>1. Cardinality(1..n) = n
  BY FS_Interval
<1>2. QED
  BY <1>1 DEF KeysTo, NewKey

\* A row with a new key keeps them so; a result answers a call that has none.
LEMMA FreshRow ==
    ASSUME WellKept(rows), NEW n \in Nat, KeysTo(rows, n), NEW row \in Row, row.key = n + 1,
           row.of \in 0..n, row.kind = "result" => row.of \in Calls \ Answered,
           NEW rs, rs = Append(rows, row)
    PROVE  WellKept(rs) /\ KeysTo(rs, n + 1)
<1>1. PICK l \in Nat : l = Len(rows)
  BY DEF WellKept
<1>2. rows \in Seq(Row) /\ DOMAIN rows = 1..l
  BY <1>1 DEF WellKept
<1>3. /\ rs \in Seq(Row) /\ Len(rs) = l + 1 /\ DOMAIN rs = 1..(l + 1)
      /\ rs[l + 1] = row /\ \A i \in 1..l : rs[i] = rows[i]
  BY <1>1, <1>2
<1>4. \A i \in 1..(l + 1) : i = l + 1 \/ i \in 1..l
  OBVIOUS
<1>5. \A i \in 1..l : rows[i].key \in 1..n /\ rows[i].of \in 0..n
  BY <1>1, <1>2 DEF KeysTo
<1>6. \A i \in 1..l : rows[i].key # n + 1 /\ rows[i].of # n + 1
  <2> SUFFICES ASSUME NEW i \in 1..l PROVE rows[i].key # n + 1 /\ rows[i].of # n + 1
    OBVIOUS
  <2>1. PICK x \in 1..n, y \in 0..n : rows[i].key = x /\ rows[i].of = y
    BY <1>5
  <2>2. QED
    BY <2>1
<1>7. row.of # n + 1
  OBVIOUS
<1>8. \A i, j \in 1..(l + 1) : rs[i].key = rs[j].key => rs[i] = rs[j]
  BY <1>1, <1>3, <1>4, <1>6 DEF WellKept
<1>9. \A i \in 1..l : row.kind = "result" => rows[i].of # row.of
  BY <1>2 DEF Answered
<1>10. \A i, j \in 1..(l + 1) :
           /\ rs[i].kind = "result" /\ rs[j].kind = "result" /\ rs[i].of = rs[j].of
           => rs[i].key = rs[j].key
  <2> SUFFICES ASSUME NEW i \in 1..(l + 1), NEW j \in 1..(l + 1), rs[i].kind = "result",
                      rs[j].kind = "result", rs[i].of = rs[j].of
               PROVE  rs[i].key = rs[j].key
    OBVIOUS
  <2>1. CASE i \in 1..l /\ j \in 1..l
    BY <1>1, <1>3, <2>1 DEF WellKept
  <2>2. CASE i = l + 1 /\ j = l + 1
    BY <2>2, Zenon
  <2>3. CASE i = l + 1 /\ j \in 1..l
    BY <1>3, <1>9, <2>3, Zenon
  <2>4. CASE i \in 1..l /\ j = l + 1
    BY <1>3, <1>9, <2>4, Zenon
  <2>5. QED
    BY <1>4, <2>1, <2>2, <2>3, <2>4, Zenon
<1>11. \A j \in 1..l : row.kind = "result" /\ rows[j].key = row.of => rows[j].kind = "call"
  <2> SUFFICES ASSUME NEW j \in 1..l, row.kind = "result", rows[j].key = row.of
               PROVE  rows[j].kind = "call"
    OBVIOUS
  <2>1. PICK k \in 1..l : rows[k].kind = "call" /\ rows[k].key = row.of
    BY <1>2 DEF Calls
  <2>2. QED
    BY <1>1, <2>1 DEF WellKept
<1>12. \A i, j \in 1..(l + 1) :
           rs[i].kind = "result" /\ rs[j].key = rs[i].of => rs[j].kind = "call"
  BY <1>1, <1>3, <1>4, <1>6, <1>7, <1>11 DEF WellKept
<1>13. store = "parts" => \A i, j \in 1..(l + 1) : rs[i].key = rs[j].key => i = j
  BY <1>1, <1>3, <1>4, <1>6 DEF WellKept
<1>14. WellKept(rs)
  BY <1>3, <1>8, <1>10, <1>12, <1>13 DEF WellKept
<1>15. {rs[i].key : i \in DOMAIN rs} = 1..(n + 1)
  <2>1. \A i \in 1..(l + 1) : rs[i].key \in 1..(n + 1)
    <3> SUFFICES ASSUME NEW i \in 1..(l + 1) PROVE rs[i].key \in 1..(n + 1)
      OBVIOUS
    <3>1. CASE i = l + 1
      BY <1>3, <3>1
    <3>2. CASE i \in 1..l
      <4>1. PICK x \in 1..n : rows[i].key = x
        BY <1>5, <3>2
      <4>2. QED
        BY <1>3, <3>2, <4>1
    <3>3. QED
      BY <1>4, <3>1, <3>2
  <2>2. ASSUME NEW x \in 1..(n + 1) PROVE \E i \in 1..(l + 1) : rs[i].key = x
    <3>1. CASE x = n + 1
      BY <1>3, <3>1
    <3>2. CASE x \in 1..n
      <4>1. PICK i \in 1..l : rows[i].key = x
        BY <1>2, <3>2 DEF KeysTo
      <4>2. QED
        BY <1>3, <4>1
    <3>3. x = n + 1 \/ x \in 1..n
      OBVIOUS
    <3>4. QED
      BY <3>1, <3>2, <3>3
  <2>3. {rs[i].key : i \in DOMAIN rs} \subseteq 1..(n + 1)
    BY <1>3, <2>1
  <2>4. 1..(n + 1) \subseteq {rs[i].key : i \in DOMAIN rs}
    <3>1. DOMAIN rs = 1..(l + 1)
      BY <1>3
    <3>2. QED
      BY <2>2, <3>1
  <2>5. QED
    BY <2>3, <2>4
<1>16. \A i \in 1..(l + 1) : rs[i].of \in 0..(n + 1)
  <2> SUFFICES ASSUME NEW i \in 1..(l + 1) PROVE rs[i].of \in 0..(n + 1)
    OBVIOUS
  <2>1. PICK y \in 0..n : rs[i].of = y
    BY <1>3, <1>4, <1>5
  <2>2. QED
    BY <2>1
<1>17. QED
  BY <1>3, <1>14, <1>15, <1>16 DEF KeysTo

\* So does a repeat, where a session repeats rows.
LEMMA RepeatedRow ==
    ASSUME WellKept(rows), store # "parts", NEW n \in Nat, KeysTo(rows, n),
           NEW r \in DOMAIN rows, NEW rs, rs = Append(rows, rows[r])
    PROVE  WellKept(rs) /\ KeysTo(rs, n)
<1>1. PICK l \in Nat : l = Len(rows)
  BY DEF WellKept
<1>2. rows \in Seq(Row) /\ DOMAIN rows = 1..l /\ r \in 1..l
  BY <1>1 DEF WellKept
<1>3. /\ rs \in Seq(Row) /\ Len(rs) = l + 1 /\ DOMAIN rs = 1..(l + 1)
      /\ rs[l + 1] = rows[r] /\ \A i \in 1..l : rs[i] = rows[i]
  BY <1>1, <1>2
<1>4. \A i \in 1..(l + 1) : \E j \in 1..l : rs[i] = rows[j]
  <2> SUFFICES ASSUME NEW i \in 1..(l + 1) PROVE \E j \in 1..l : rs[i] = rows[j]
    OBVIOUS
  <2>1. i = l + 1 \/ i \in 1..l
    OBVIOUS
  <2>2. QED
    BY <1>2, <1>3, <2>1
<1>5. ASSUME NEW i \in 1..(l + 1), NEW j \in 1..(l + 1)
      PROVE  /\ rs[i].key = rs[j].key => rs[i] = rs[j]
             /\ rs[i].kind = "result" /\ rs[j].kind = "result"
                => (rs[i].of = rs[j].of => rs[i].key = rs[j].key)
             /\ rs[i].kind = "result" => (rs[j].key = rs[i].of => rs[j].kind = "call")
  <2>1. PICK x \in 1..l, y \in 1..l : rs[i] = rows[x] /\ rs[j] = rows[y]
    BY <1>4
  <2>2. QED
    BY <1>1, <2>1 DEF WellKept
<1>6. WellKept(rs)
  BY <1>3, <1>5 DEF WellKept
<1>7. {rs[i].key : i \in DOMAIN rs} = {rows[i].key : i \in DOMAIN rows}
  <2>1. \A i \in 1..l : i \in 1..(l + 1)
    OBVIOUS
  <2>2. {rs[i].key : i \in DOMAIN rs} \subseteq {rows[i].key : i \in DOMAIN rows}
    <3> SUFFICES ASSUME NEW i \in DOMAIN rs
                 PROVE  \E j \in DOMAIN rows : rows[j].key = rs[i].key
      OBVIOUS
    <3>1. PICK j \in 1..l : rs[i] = rows[j]
      BY <1>3, <1>4
    <3>2. QED
      BY <1>2, <3>1
  <2>3. ASSUME NEW i \in DOMAIN rows PROVE \E j \in DOMAIN rs : rs[j].key = rows[i].key
    BY <1>2, <1>3, <2>1
  <2>4. {rows[i].key : i \in DOMAIN rows} \subseteq {rs[i].key : i \in DOMAIN rs}
    BY <2>3
  <2>5. QED
    BY <2>2, <2>4
<1>8. \A i \in 1..Len(rs) : rs[i].of \in 0..n
  <2>1. \A j \in 1..l : rows[j].of \in 0..n
    BY <1>1 DEF KeysTo
  <2>2. \A i \in 1..Len(rs) : \E j \in 1..l : rs[i] = rows[j]
    BY <1>3, <1>4
  <2>3. QED
    BY <2>1, <2>2, Zenon
<1>9. QED
  BY <1>6, <1>7, <1>8 DEF KeysTo

-----------------------------------------------------------------------------
(* What a walk was given.                                                   *)

\* Where in the session the rows of the given blocks stand: in order, each where it
\* first comes, and no text or call between the first and the last is missing.
Placed(given, g) ==
    /\ g \in [1..Len(given) -> Firsts]
    /\ \A k, l \in 1..Len(given) : k < l => g[k] < g[l]
    /\ \A k \in 1..Len(given) : rows[g[k]].key = given[k].row
    /\ \A i \in Firsts :
          /\ given # <<>> /\ rows[i].kind \in {"text", "call"}
          /\ g[1] <= i /\ i <= g[Len(given)]
          => \E k \in 1..Len(given) : g[k] = i

IdsAreRows(given) == \A k \in 1..Len(given) : given[k].id = given[k].row

\* The cursor of a walk that goes on: the oldest block it was given.
CursorOf(given) == IF given = <<>> THEN None ELSE given[1].id

\* A row comes first at one place.
LEMMA FirstsDiffer ==
    ASSUME rows \in Seq(Row), NEW i \in Firsts, NEW j \in Firsts, rows[i].key = rows[j].key
    PROVE  i = j
<1>1. i \in 1..Len(rows) /\ j \in 1..Len(rows) /\ Len(rows) \in Nat
  BY DEF Firsts
<1>2. ~(i < j) /\ ~(j < i)
  BY <1>1 DEF Firsts
<1>3. QED
  BY <1>1, <1>2

\* The session grows at its end, behind whatever a walk was given.
LEMMA RowsGrow ==
    ASSUME rows \in Seq(Row), NEW row \in Row, rows' = Append(rows, row),
           NEW given \in Seq(Block), NEW g, Placed(given, g)
    PROVE  Placed(given, g)'
<1>1. PICK l \in Nat : l = Len(rows)
  OBVIOUS
<1>2. DOMAIN rows = 1..l /\ DOMAIN rows' = 1..(l + 1) /\ \A i \in 1..l : rows'[i] = rows[i]
  BY <1>1
<1>3. PICK F : F = Firsts
  OBVIOUS
<1>4. PICK G : G = Firsts'
  OBVIOUS
<1>5. /\ \A i \in F : i \in 1..l /\ \A j \in 1..(i - 1) : rows[j].key # rows[i].key
      /\ \A i \in 1..l : (\A j \in 1..(i - 1) : rows[j].key # rows[i].key) => i \in F
  BY <1>2, <1>3 DEF Firsts
<1>6. /\ \A i \in G : i \in 1..(l + 1) /\ \A j \in 1..(i - 1) : rows'[j].key # rows'[i].key
      /\ \A i \in 1..(l + 1) :
            (\A j \in 1..(i - 1) : rows'[j].key # rows'[i].key) => i \in G
  BY <1>2, <1>4 DEF Firsts
<1>7. ASSUME NEW i \in 1..l PROVE i \in G <=> i \in F
  <2>1. i \in 1..(l + 1) /\ rows'[i] = rows[i] /\ \A j \in 1..(i - 1) : rows'[j] = rows[j]
    BY <1>2
  <2>2. QED
    BY <1>5, <1>6, <2>1, Zenon
<1>8. PICK m \in Nat : m = Len(given) /\ (given # <<>> => m # 0)
  OBVIOUS
<1>9. /\ g \in [1..m -> F]
      /\ \A k, j \in 1..m : k < j => g[k] < g[j]
      /\ \A k \in 1..m : g[k] \in 1..l /\ rows[g[k]].key = given[k].row
  BY <1>3, <1>5, <1>8 DEF Placed
<1>10. \A i \in F : /\ given # <<>> /\ rows[i].kind \in {"text", "call"}
                    /\ g[1] <= i /\ i <= g[m]
                    => \E k \in 1..m : g[k] = i
  BY <1>3, <1>8 DEF Placed
<1>11. g \in [1..m -> G]
  BY <1>5, <1>7, <1>9
<1>12. \A k \in 1..m : rows'[g[k]].key = given[k].row
  BY <1>2, <1>9
<1>13. ASSUME NEW i \in G, given # <<>>, rows'[i].kind \in {"text", "call"},
              g[1] <= i, i <= g[m], m # 0
       PROVE  \E k \in 1..m : g[k] = i
  <2>1. PICK x \in 1..l : x = g[m]
    BY <1>9, <1>13
  <2>2. i \in 1..l
    BY <1>6, <1>13, <2>1
  <2>3. i \in F /\ rows'[i] = rows[i]
    BY <1>2, <1>7, <1>13, <2>2
  <2>4. QED
    BY <1>10, <1>13, <2>3
<1>14. \A i \in G : /\ given # <<>> /\ rows'[i].kind \in {"text", "call"}
                    /\ g[1] <= i /\ i <= g[m]
                    => \E k \in 1..m : g[k] = i
  BY <1>8, <1>13
<1>15. QED
  BY <1>4, <1>8, <1>9, <1>11, <1>12, <1>14 DEF Placed

\* The first n blocks are those of hs after start, the rest those given before.
JoinedOf(joined, hs, start, n, given) ==
    /\ joined \in Seq(Block) /\ Len(joined) = n + Len(given)
    /\ \A k \in 1..n : joined[k] = hs[start + k]
    /\ \A k \in 1..Len(given) : joined[k + n] = given[k]

\* Nothing but the blocks of the page comes before what the walk was given.
LEMMA GivenIs ==
    ASSUME NEW hs \in Seq(Block), NEW given \in Seq(Block), NEW end \in 0..Len(hs),
           NEW start \in 0..end, NEW n \in Nat, start + n = end,
           NEW page, Holds(page, hs, start, end),
           NEW joined, joined = page.blocks \o given
    PROVE  JoinedOf(joined, hs, start, n, given)
<1>1. n = end - start
  OBVIOUS
<1>2. PICK m \in Nat : m = Len(given)
  OBVIOUS
<1>3. PICK pb : pb = SubSeq(hs, start + 1, end)
  OBVIOUS
<1>4. pb \in Seq(Block) /\ Len(pb) = n /\ \A k \in 1..n : pb[k] = hs[start + k]
  <2>1. CASE n = 0
    <3>1. pb = <<>>
      BY <1>1, <1>3, <2>1, SubSeqEmpty
    <3>2. QED
      BY <2>1, <3>1
  <2>2. CASE n # 0
    <3>1. /\ start + 1 \in 1..Len(hs) /\ end \in (start + 1)..Len(hs)
          /\ end - (start + 1) + 1 = n
          /\ \A k \in 1..n : (start + 1) + k - 1 = start + k
      BY <1>1, <2>2
    <3>2. QED
      BY <1>3, <3>1, SubSeqProperties
  <2>3. QED
    BY <2>1, <2>2
<1>5. /\ pb \o given \in Seq(Block) /\ Len(pb \o given) = n + m
      /\ \A k \in 1..(n + m) : (pb \o given)[k] = IF k <= n THEN pb[k] ELSE given[k - n]
  <2>1. /\ pb \o given \in Seq(Block) /\ Len(pb \o given) = Len(pb) + Len(given)
        /\ \A k \in 1..(Len(pb) + Len(given)) :
              (pb \o given)[k] = IF k <= Len(pb) THEN pb[k] ELSE given[k - Len(pb)]
    BY <1>4, ConcatProperties
  <2>2. QED
    BY <1>2, <1>4, <2>1
<1>6. joined = pb \o given
  BY <1>3 DEF Holds
<1>7. ASSUME NEW k \in 1..n PROVE joined[k] = hs[start + k]
  <2>1. k \in 1..(n + m) /\ k <= n
    OBVIOUS
  <2>2. joined[k] = pb[k]
    BY <1>5, <1>6, <2>1
  <2>3. QED
    BY <1>4, <2>2
<1>8. ASSUME NEW k \in 1..m PROVE joined[k + n] = given[k]
  <2>1. k + n \in 1..(n + m) /\ ~(k + n <= n) /\ (k + n) - n = k
    OBVIOUS
  <2>2. joined[k + n] = given[(k + n) - n]
    BY <1>5, <1>6, <2>1
  <2>3. QED
    BY <2>1, <2>2
<1>9. QED
  BY <1>2, <1>5, <1>6, <1>7, <1>8 DEF JoinedOf

\* A page joins what the walk was given: it ends before the oldest of its blocks.
LEMMA PageJoins ==
    ASSUME rows \in Seq(Row), ~Split, NEW hs, NEW q, Reaches(hs, q),
           NEW given \in Seq(Block), NEW g, Placed(given, g), IdsAreRows(given),
           NEW end \in 0..Len(hs), NEW start \in 0..end, NEW page,
           Ends(page, hs, CursorOf(given), start, end),
           NEW joined, joined = page.blocks \o given
    PROVE  \E h : Placed(joined, h)
<1>1. hs \in Seq(Block) /\ Len(hs) \in Nat
  BY DEF Reaches
<1>2. PICK n \in Nat : n = end - start /\ start + n = end
  BY <1>1
<1>3. PICK m \in Nat : m = Len(given) /\ (given # <<>> <=> m # 0)
  OBVIOUS
<1>4. /\ joined \in Seq(Block) /\ Len(joined) = n + m
      /\ \A k \in 1..n : joined[k] = hs[start + k]
      /\ \A k \in 1..m : joined[k + n] = given[k]
  <2>1. Holds(page, hs, start, end)
    BY DEF Ends
  <2>2. JoinedOf(joined, hs, start, n, given)
    BY <1>1, <1>2, <2>1, GivenIs
  <2>3. QED
    BY <1>3, <2>2 DEF JoinedOf
<1>8. /\ q \in [1..Len(hs) -> Firsts]
      /\ \A k, l \in 1..Len(hs) : k < l => q[k] < q[l]
      /\ \A k \in 1..Len(hs) : rows[q[k]].key = hs[k].row /\ hs[k].id = hs[k].row
  BY DEF Reaches
<1>9. \A i \in Firsts : i \in 1..Len(rows) /\ i \in Nat
  BY DEF Firsts
<1>10. /\ g \in [1..m -> Firsts]
       /\ \A k, l \in 1..m : k < l => g[k] < g[l]
       /\ \A k \in 1..m : rows[g[k]].key = given[k].row
       /\ \A i \in Firsts : /\ given # <<>> /\ rows[i].kind \in {"text", "call"}
                            /\ g[1] <= i /\ i <= g[m]
                            => \E k \in 1..m : g[k] = i
  BY <1>3 DEF Placed
<1>11. ASSUME m # 0 PROVE end + 1 \in 1..Len(hs) /\ q[end + 1] = g[1] /\ 1 \in 1..m
  <2>1. CursorOf(given) = given[1].id /\ 1 \in 1..m /\ given[1] \in Block
    BY <1>3, <1>11 DEF CursorOf
  <2>2. given[1].id # None
    BY <2>1, ConstantsOK DEF Block
  <2>3. end < Len(hs) /\ hs[end + 1].id = given[1].id
    BY <2>1, <2>2 DEF Ends
  <2>4. end + 1 \in 1..Len(hs)
    BY <1>1, <2>3
  <2>5. rows[q[end + 1]].key = rows[g[1]].key
    BY <1>3, <1>8, <1>10, <2>1, <2>3, <2>4 DEF IdsAreRows
  <2>6. q[end + 1] \in Firsts /\ g[1] \in Firsts
    BY <1>8, <1>10, <2>1, <2>4
  <2>7. QED
    BY <2>1, <2>4, <2>5, <2>6, FirstsDiffer
<1>12. ASSUME m = 0 PROVE end = Len(hs)
  BY <1>3, <1>12 DEF Ends, CursorOf
<1>13. \A k \in 1..n : start + k \in 1..Len(hs) /\ start + k < end + 1
  BY <1>1, <1>2
<1>14. \A k \in 1..(n + m) : k \in 1..n \/ (~(k <= n) /\ k - n \in 1..m)
  OBVIOUS
<1>15. PICK h : h = [k \in 1..(n + m) |-> IF k <= n THEN q[start + k] ELSE g[k - n]]
  OBVIOUS
<1>16. /\ \A k \in 1..n : k \in 1..(n + m) /\ h[k] = q[start + k]
       /\ \A k \in 1..m : k + n \in 1..(n + m) /\ h[k + n] = g[k]
  <2>1. ASSUME NEW k \in 1..n PROVE k \in 1..(n + m) /\ k <= n
    OBVIOUS
  <2>2. ASSUME NEW k \in 1..m PROVE k + n \in 1..(n + m) /\ ~(k + n <= n) /\ (k + n) - n = k
    OBVIOUS
  <2>3. QED
    BY <1>15, <2>1, <2>2
<1>18. \A k \in 1..(n + m) : k \in 1..n \/ \E j \in 1..m : k = j + n
  <2> SUFFICES ASSUME NEW k \in 1..(n + m), k \notin 1..n PROVE \E j \in 1..m : k = j + n
    OBVIOUS
  <2>1. k - n \in 1..m /\ k = (k - n) + n
    OBVIOUS
  <2>2. QED
    BY <2>1
<1>19. \A k \in 1..(n + m) : h[k] \in Firsts /\ rows[h[k]].key = joined[k].row
  <2> SUFFICES ASSUME NEW k \in 1..(n + m)
               PROVE  h[k] \in Firsts /\ rows[h[k]].key = joined[k].row
    OBVIOUS
  <2>1. CASE k \in 1..n
    <3>1. PICK s \in 1..Len(hs) : s = start + k
      BY <1>13, <2>1
    <3>2. h[k] = q[s] /\ joined[k] = hs[s]
      BY <1>4, <1>16, <2>1, <3>1
    <3>3. QED
      BY <1>8, <3>2
  <2>2. CASE k \notin 1..n
    <3>1. PICK j \in 1..m : k = j + n
      BY <1>18, <2>2
    <3>2. h[k] = g[j] /\ joined[k] = given[j]
      BY <1>4, <1>16, <3>1
    <3>3. QED
      BY <1>10, <3>2
  <2>3. QED
    BY <2>1, <2>2
<1>20. h \in [1..(n + m) -> Firsts]
  BY <1>15, <1>19
<1>21. ASSUME NEW k \in 1..(n + m), NEW l \in 1..(n + m), k < l PROVE h[k] < h[l]
  <2>1. CASE k \in 1..n /\ l \in 1..n
    <3>1. PICK s \in 1..Len(hs), t \in 1..Len(hs) : s = start + k /\ t = start + l
      BY <1>13, <2>1
    <3>2. s < t
      BY <1>21, <3>1
    <3>3. h[k] = q[s] /\ h[l] = q[t]
      BY <1>16, <2>1, <3>1
    <3>4. QED
      BY <1>8, <3>2, <3>3
  <2>2. CASE k \in 1..n /\ l \notin 1..n
    <3>1. PICK j \in 1..m : l = j + n
      BY <1>18, <2>2
    <3>2. PICK s \in 1..Len(hs), t \in 1..Len(hs) : s = start + k /\ t = end + 1 /\ s < t
      <4>1. m # 0
        BY <3>1
      <4>2. PICK s \in 1..Len(hs) : s = start + k /\ s < end + 1
        BY <1>13, <2>2
      <4>3. end + 1 \in 1..Len(hs)
        BY <1>11, <4>1
      <4>4. QED
        BY <4>2, <4>3
    <3>3. m # 0 /\ q[t] = g[1] /\ 1 \in 1..m
      BY <1>11, <3>1, <3>2
    <3>4. q[s] < g[1]
      BY <1>8, <3>2, <3>3
    <3>5. j = 1 \/ g[1] < g[j]
      BY <1>10, <3>1, <3>3
    <3>6. g[1] \in Nat /\ g[j] \in Nat /\ q[s] \in Nat
      BY <1>8, <1>9, <1>10, <3>1, <3>2, <3>3
    <3>7. h[k] = q[s] /\ h[l] = g[j]
      BY <1>16, <2>2, <3>1, <3>2
    <3>8. QED
      BY <3>4, <3>5, <3>6, <3>7
  <2>3. CASE k \notin 1..n
    <3>1. PICK i \in 1..m : k = i + n
      BY <1>18, <2>3
    <3>2. l \notin 1..n
      BY <1>21, <2>3
    <3>3. PICK j \in 1..m : l = j + n
      BY <1>18, <3>2
    <3>4. i < j
      BY <1>21, <3>1, <3>3
    <3>5. QED
      BY <1>10, <1>16, <3>1, <3>3, <3>4
  <2>4. QED
    BY <2>1, <2>2, <2>3
<1>22. ASSUME NEW i \in Firsts, rows[i].kind \in {"text", "call"}, n + m # 0,
              h[1] <= i, i <= h[n + m]
       PROVE  \E k \in 1..(n + m) : h[k] = i
  <2>1. i \in Nat
    BY <1>9
  <2>2. CASE m # 0 /\ g[1] <= i
    <3>1. n + m = m + n /\ m \in 1..m
      BY <2>2
    <3>2. i <= g[m]
      BY <1>16, <1>22, <3>1
    <3>3. PICK k \in 1..m : g[k] = i
      BY <1>3, <1>10, <1>22, <2>2, <3>2
    <3>4. QED
      BY <1>16, <3>3
  <2>3. CASE ~(m # 0 /\ g[1] <= i)
    <3>1. n # 0 /\ 1 \in 1..n
      <4>1. CASE n = 0
        <5>1. m # 0 /\ 1 \in 1..m /\ 1 + n = 1
          BY <1>22, <4>1
        <5>2. h[1] = g[1]
          BY <1>16, <5>1
        <5>3. QED
          BY <1>22, <2>3, <5>1, <5>2
      <4>2. QED
        BY <4>1
    <3>2. PICK s \in 1..Len(hs) : s = start + 1
      BY <1>13, <3>1
    <3>3. q[s] <= i
      BY <1>16, <1>22, <3>1, <3>2
    <3>4. q[1] <= i /\ 1 \in 1..Len(hs)
      <4>1. 1 \in 1..Len(hs) /\ (s = 1 \/ 1 < s)
        BY <1>1, <3>2
      <4>2. q[1] \in Nat /\ q[s] \in Nat
        BY <1>8, <1>9, <4>1
      <4>3. s = 1 \/ q[1] < q[s]
        BY <1>8, <4>1
      <4>4. QED
        BY <2>1, <3>3, <4>1, <4>2, <4>3
    <3>5. PICK k \in 1..Len(hs) : q[k] = i
      BY <1>22, <3>4 DEF Reaches
    <3>6. s <= k
      <4>1. ASSUME k < s PROVE FALSE
        <5>1. q[k] < q[s] /\ q[s] \in Nat
          BY <1>8, <1>9, <4>1
        <5>2. QED
          BY <2>1, <3>3, <3>5, <5>1
      <4>2. QED
        BY <4>1
    <3>7. k <= end
      <4>1. CASE m = 0
        BY <1>1, <1>12, <4>1
      <4>2. CASE m # 0
        <5>1. q[end + 1] = g[1] /\ end + 1 \in 1..Len(hs) /\ g[1] \in Nat
          BY <1>9, <1>10, <1>11, <4>2
        <5>2. i < g[1]
          BY <2>1, <2>3, <4>2, <5>1
        <5>3. ASSUME k > end PROVE FALSE
          <6>1. k = end + 1 \/ end + 1 < k
            BY <1>1, <5>3
          <6>2. q[end + 1] <= q[k]
            BY <1>8, <2>1, <3>5, <5>1, <6>1
          <6>3. QED
            BY <2>1, <3>5, <5>1, <5>2, <6>2
        <5>4. QED
          BY <1>1, <5>3
      <4>3. QED
        BY <4>1, <4>2
    <3>8. PICK j \in 1..n : start + j = k
      <4>1. k - start \in 1..n /\ start + (k - start) = k
        BY <1>1, <1>2, <3>2, <3>6, <3>7
      <4>2. QED
        BY <4>1
    <3>9. QED
      BY <1>16, <3>5, <3>8
  <2>4. QED
    BY <2>2, <2>3
<1>23. joined # <<>> => n + m # 0
  BY <1>4
<1>24. Placed(joined, h)
  BY <1>4, <1>19, <1>20, <1>21, <1>22, <1>23 DEF Placed
<1>25. QED
  BY <1>24

-----------------------------------------------------------------------------
(* The inductive invariant.                                                 *)

\* A walk that goes on stands at the oldest block it was given, and what it was given
\* is a stretch of the session.
WalkFits ==
    /\ IdsAreRows(walk.given)
    /\ ~walk.over => walk.cursor = CursorOf(walk.given)
    /\ ~walk.split => \E g : Placed(walk.given, g)

PagesInv == TypeOK /\ RowsAreKept /\ WalkFits

\* No rows, no walk.
LEMMA InvInit == Init => PagesInv
<1> SUFFICES ASSUME Init PROVE PagesInv
  OBVIOUS
<1>1. /\ store \in {"lines", "parts"} /\ rows = <<>> /\ Len(rows) = 0 /\ DOMAIN rows = {}
      /\ rows \in Seq(Row) /\ <<>> \in Seq(Block)
  BY DEF Init
<1>2. /\ walk.cursor = None /\ walk.given = <<>> /\ walk.over = FALSE /\ walk.split = FALSE
      /\ walk \in [cursor: Nat \cup {None}, given: Seq(Block), pages: 0..MaxPages,
                   over: BOOLEAN, split: BOOLEAN]
  BY <1>1, ConstantsOK DEF Init, Fresh
<1>3. TypeOK
  BY <1>1, <1>2, ConstantsOK DEF TypeOK
<1>4. RowsAreKept
  <2>1. 1..0 = {} /\ 0 \in Nat
    OBVIOUS
  <2>2. WellKept(rows)
    BY <1>1, <2>1 DEF WellKept
  <2>3. {rows[i].key : i \in DOMAIN rows} = {}
    BY <1>1
  <2>4. KeysTo(rows, 0)
    BY <1>1, <2>1, <2>3 DEF KeysTo
  <2>5. QED
    BY <1>1, <2>1, <2>2, <2>4 DEF RowsAreKept
<1>5. WalkFits
  <2>1. PICK g : g = [k \in {} |-> 0]
    OBVIOUS
  <2>2. 1..0 = {} /\ Len(<<>>) = 0
    OBVIOUS
  <2>3. g \in [{} -> Firsts]
    BY <2>1
  <2>4. Placed(<<>>, g)
    BY <2>2, <2>3 DEF Placed
  <2>5. IdsAreRows(<<>>)
    BY <2>2 DEF IdsAreRows
  <2>6. CursorOf(<<>>) = None
    BY DEF CursorOf
  <2>7. QED
    BY <1>2, <2>4, <2>5, <2>6 DEF WalkFits
<1>6. QED
  BY <1>3, <1>4, <1>5 DEF PagesInv

\* What a session does: one row more, of a kind that keeps the rows well.
Grows ==
    \E row \in Row : /\ Len(rows) < MaxRows /\ rows' = Append(rows, row)
                     /\ store' = store /\ walk' = walk

\* A session keeps its rows well, whichever row it writes.
LEMMA WritesAreKept ==
    ASSUME RowsAreKept,
           WritesText \/ WritesHidden \/ WritesCall \/ WritesResult \/ WritesAgain
    PROVE  RowsAreKept' /\ Grows
<1>1. PICK n \in Nat : KeysTo(rows, n)
  BY DEF RowsAreKept
<1>2. NewKey = n + 1 /\ n + 1 \in Nat \ {0} /\ 0 \in 0..n /\ n + 1 \in Nat
  BY <1>1, NewKeyIs
<1>3. WellKept(rows) /\ store \in {"parts", "lines"}
  BY DEF RowsAreKept
<1>4. ASSUME NEW row \in Row, Writes(row),
             \E m \in Nat : WellKept(Append(rows, row)) /\ KeysTo(Append(rows, row), m)
      PROVE  RowsAreKept' /\ Grows
  <2>1. Len(rows) < MaxRows /\ rows' = Append(rows, row) /\ store' = store /\ walk' = walk
    BY <1>4 DEF Writes
  <2>2. WellKept(rows') /\ \E m \in Nat : KeysTo(rows', m)
    BY <1>4, <2>1
  <2>3. WellKept(rows)'
    BY <2>1, <2>2 DEF WellKept
  <2>4. (\E m \in Nat : KeysTo(rows, m))'
    BY <2>2 DEF KeysTo
  <2>5. RowsAreKept'
    BY <1>3, <2>1, <2>3, <2>4 DEF RowsAreKept
  <2>6. QED
    BY <1>4, <2>1, <2>5 DEF Grows
<1>5. ASSUME NEW kind \in {"text", "hidden", "call"},
             Writes([key |-> NewKey, kind |-> kind, of |-> 0])
      PROVE  RowsAreKept' /\ Grows
  <2>1. PICK row : row = [key |-> NewKey, kind |-> kind, of |-> 0]
    OBVIOUS
  <2>2. /\ row \in Row /\ row.key = n + 1 /\ row.of \in 0..n
        /\ row.kind = "result" => row.of \in Calls \ Answered
    BY <1>2, <2>1 DEF Row
  <2>3. WellKept(Append(rows, row)) /\ KeysTo(Append(rows, row), n + 1)
    BY <1>1, <1>3, <2>2, FreshRow
  <2>4. QED
    BY <1>2, <1>4, <1>5, <2>1, <2>2, <2>3
<1>6. ASSUME WritesResult PROVE RowsAreKept' /\ Grows
  <2>1. PICK c \in Calls \ Answered : Writes([key |-> NewKey, kind |-> "result", of |-> c])
    BY <1>6 DEF WritesResult
  <2>2. c \in 1..n
    BY <1>1 DEF Calls, KeysTo
  <2>3. PICK row : row = [key |-> NewKey, kind |-> "result", of |-> c]
    OBVIOUS
  <2>4. /\ row \in Row /\ row.key = n + 1 /\ row.of \in 0..n
        /\ row.kind = "result" => row.of \in Calls \ Answered
    BY <1>2, <2>1, <2>2, <2>3 DEF Row
  <2>5. WellKept(Append(rows, row)) /\ KeysTo(Append(rows, row), n + 1)
    BY <1>1, <1>3, <2>4, FreshRow
  <2>6. QED
    BY <1>2, <1>4, <2>1, <2>3, <2>4, <2>5
<1>7. ASSUME WritesAgain PROVE RowsAreKept' /\ Grows
  <2>1. PICK i \in DOMAIN rows : Writes(rows[i])
    BY <1>7 DEF WritesAgain
  <2>2. store # "parts"
    BY <1>7 DEF WritesAgain
  <2>3. WellKept(Append(rows, rows[i])) /\ KeysTo(Append(rows, rows[i]), n)
    BY <1>1, <1>3, <2>1, <2>2, RepeatedRow
  <2>4. rows[i] \in Row
    BY <1>3, <2>1 DEF WellKept
  <2>5. QED
    BY <1>4, <2>1, <2>3, <2>4
<1>8. QED
  BY <1>5, <1>6, <1>7 DEF WritesText, WritesHidden, WritesCall

\* What a client asks for, and what it makes of the answer.
Asked(hs, page) ==
    /\ hs = History /\ \E q : Reaches(hs, q)
    /\ \/ IsLost(page, hs, walk.cursor)
       \/ \E end \in 0..Len(hs) : \E start \in 0..end :
             Ends(page, hs, walk.cursor, start, end)
    /\ ~walk.over /\ walk.pages < MaxPages
    /\ walk' = [cursor |-> page.next, given |-> page.blocks \o walk.given,
                pages |-> walk.pages + 1, over |-> ~page.more,
                split |-> walk.split \/ Split]
    /\ store' = store /\ rows' = rows

\* A page is one that joins, or is lost.
LEMMA AsksAre ==
    ASSUME PagesInv, NEW limit \in PageLimits, AsksPage(limit)
    PROVE  \E hs, page : Asked(hs, page)
<1>1. PICK hs : hs = History
  OBVIOUS
<1>2. PICK page : page = Page(hs, walk.cursor, limit)
  OBVIOUS
<1>3. PICK q : Reaches(hs, q)
  BY <1>1, HistoryReaches DEF PagesInv, RowsAreKept
<1>4. PICK before : before = walk.cursor
  OBVIOUS
<1>5. \/ IsLost(page, hs, before)
      \/ \E end \in 0..Len(hs) : \E start \in 0..end : Ends(page, hs, before, start, end)
  <2>1. hs \in Seq(Block)
    BY <1>3 DEF Reaches
  <2>2. QED
    BY <1>2, <1>4, <2>1, PageOf
<1>6. /\ ~walk.over /\ walk.pages < MaxPages
      /\ walk' = [cursor |-> page.next, given |-> page.blocks \o walk.given,
                  pages |-> walk.pages + 1, over |-> ~page.more,
                  split |-> walk.split \/ Split]
      /\ store' = store /\ rows' = rows
  BY <1>1, <1>2, Zenon DEF AsksPage
<1>7. Asked(hs, page)
  BY <1>1, <1>3, <1>4, <1>5, <1>6, Zenon DEF Asked
<1>8. QED
  BY <1>7

\* A page is blocks, a cursor, and whether there is more.
LEMMA PageIs ==
    ASSUME NEW hs, NEW q, Reaches(hs, q), NEW before, NEW page,
           IsLost(page, hs, before)
           \/ \E end \in 0..Len(hs) : \E start \in 0..end : Ends(page, hs, before, start, end)
    PROVE  /\ page.blocks \in Seq(Block) /\ page.more \in BOOLEAN
           /\ page.next \in Nat \cup {None}
<1>1. hs \in Seq(Block) /\ Len(hs) \in Nat
  BY DEF Reaches
<1>2. CASE IsLost(page, hs, before)
  BY <1>2 DEF IsLost, EmptyPage
<1>3. CASE ~IsLost(page, hs, before)
  <2>0. PICK end \in 0..Len(hs) : \E start \in 0..end : Ends(page, hs, before, start, end)
    BY <1>3
  <2>1. PICK start \in 0..end : Ends(page, hs, before, start, end)
    BY <2>0
  <2>2. SubSeq(hs, start + 1, end) \in Seq(Block)
    <3>1. CASE start = end
      BY <1>1, <3>1, SubSeqEmpty
    <3>2. CASE start # end
      <4>1. start + 1 \in 1..Len(hs) /\ end \in (start + 1)..Len(hs)
        BY <1>1, <3>2
      <4>2. QED
        BY <1>1, <4>1, SubSeqProperties
    <3>3. QED
      BY <3>1, <3>2
  <2>3. page.blocks \in Seq(Block)
    BY <2>1, <2>2 DEF Ends, Holds
  <2>4. page.next \in Nat \cup {None}
    <3>1. CASE start > 0 /\ start < end
      <4>1. start + 1 \in 1..Len(hs) /\ page.next = hs[start + 1].id
        BY <1>1, <2>1, <3>1 DEF Ends, Holds
      <4>2. hs[start + 1] \in Block
        BY <1>1, <4>1
      <4>3. QED
        BY <4>1, <4>2 DEF Block
    <3>2. CASE ~(start > 0 /\ start < end)
      BY <2>1, <3>2 DEF Ends, Holds
    <3>3. QED
      BY <3>1, <3>2
  <2>5. page.more \in BOOLEAN
    <3>1. page.more = (start > 0)
      BY <2>1 DEF Ends, Holds
    <3>2. (start > 0) \in BOOLEAN
      OBVIOUS
    <3>3. QED
      BY <3>1, <3>2, Zenon
  <2>6. QED
    BY <2>3, <2>4, <2>5
<1>4. QED
  BY <1>2, <1>3

\* What the client keeps of it.
LEMMA WalkIs ==
    ASSUME PagesInv, NEW hs, NEW page, Asked(hs, page)
    PROVE  /\ walk'.cursor = page.next /\ walk'.given = page.blocks \o walk.given
           /\ walk'.over <=> ~page.more
           /\ walk'.split <=> (walk.split \/ Split)
           /\ TypeOK'
<1>1. PICK q : Reaches(hs, q)
  BY DEF Asked
<1>2. /\ page.blocks \in Seq(Block) /\ page.more \in BOOLEAN
      /\ page.next \in Nat \cup {None}
  BY <1>1, PageIs DEF Asked
<1>3. PICK over \in BOOLEAN : over <=> ~page.more
  BY Zenon
<1>4. PICK split \in BOOLEAN : split <=> (walk.split \/ Split)
  BY Zenon
<1>5. PICK given : given = page.blocks \o walk.given
  OBVIOUS
<1>6. PICK pages : pages = walk.pages + 1
  OBVIOUS
<1>7. over = ~page.more /\ split = (walk.split \/ Split)
  BY <1>3, <1>4, Zenon
<1>8. walk' = [cursor |-> page.next, given |-> given, pages |-> pages, over |-> over,
               split |-> split]
  BY <1>5, <1>6, <1>7, Zenon DEF Asked
<1>9. walk.given \in Seq(Block) /\ walk.pages \in 0..MaxPages /\ walk.pages < MaxPages
  BY DEF PagesInv, TypeOK, Asked
<1>10. given \in Seq(Block)
  BY <1>2, <1>5, <1>9, ConcatProperties
<1>11. pages \in 0..MaxPages
  BY <1>6, <1>9, ConstantsOK
<1>12. walk' \in [cursor: Nat \cup {None}, given: Seq(Block), pages: 0..MaxPages,
                  over: BOOLEAN, split: BOOLEAN]
  BY <1>2, <1>8, <1>10, <1>11
<1>13. TypeOK'
  BY <1>12 DEF PagesInv, TypeOK, Asked
<1>14. /\ walk'.cursor = page.next /\ walk'.given = given /\ walk'.over = over
       /\ walk'.split = split
  BY <1>8
<1>15. QED
  BY <1>3, <1>4, <1>5, <1>13, <1>14

\* A lost page leaves what the walk was given.
LEMMA LostIs ==
    ASSUME NEW page, NEW hs, NEW before, IsLost(page, hs, before), NEW given \in Seq(Block)
    PROVE  /\ page.blocks \o given = given /\ page.more = FALSE /\ page.next = None
<1>1. page.blocks = <<>> /\ page.more = FALSE /\ page.next = None
  BY DEF IsLost, EmptyPage
<1>2. <<>> \o given = given
  BY ConcatEmptySeq
<1>3. QED
  BY <1>1, <1>2

\* With the page the walk stands at the oldest block it was given, as before.
LEMMA AskedFits ==
    ASSUME PagesInv, NEW hs, NEW page, Asked(hs, page)
    PROVE  WalkFits'
<1>1. PICK q : Reaches(hs, q)
  BY DEF Asked
<1>2. hs \in Seq(Block) /\ Len(hs) \in Nat /\ \A k \in 1..Len(hs) : hs[k].id = hs[k].row
  BY <1>1 DEF Reaches
<1>3. PICK given \in Seq(Block) : given = walk.given
  BY DEF PagesInv, TypeOK
<1>4. PICK joined : joined = page.blocks \o given
  OBVIOUS
<1>5. /\ walk'.cursor = page.next /\ walk'.given = joined /\ (walk'.over <=> ~page.more)
      /\ (walk'.split <=> (walk.split \/ Split))
  BY <1>3, <1>4, WalkIs
<1>6. /\ IdsAreRows(given) /\ walk.cursor = CursorOf(given)
      /\ ~walk.split => \E g : Placed(given, g)
  BY <1>3 DEF PagesInv, WalkFits, Asked
<1>7. rows' = rows /\ rows \in Seq(Row)
  BY DEF Asked, PagesInv, TypeOK
<1>8. ASSUME NEW s, NEW h, Placed(s, h) PROVE Placed(s, h)'
  <2>1. Firsts' = Firsts
    BY <1>7 DEF Firsts
  <2>2. QED
    BY <1>7, <1>8, <2>1 DEF Placed
<1>9. CASE IsLost(page, hs, walk.cursor)
  <2>1. PICK before : before = walk.cursor
    OBVIOUS
  <2>2. joined = given /\ page.more = FALSE
    BY <1>4, <1>9, <2>1, LostIs
  <2>3. walk'.over
    BY <1>5, <2>2
  <2>4. ASSUME ~walk'.split PROVE \E g : Placed(given, g)'
    <3>1. PICK g : Placed(given, g)
      BY <1>5, <1>6, <2>4
    <3>2. QED
      BY <1>8, <3>1
  <2>5. QED
    BY <1>5, <1>6, <2>2, <2>3, <2>4 DEF WalkFits, IdsAreRows, Placed
<1>10. CASE ~IsLost(page, hs, walk.cursor)
  <2>1. PICK before : before = CursorOf(given)
    OBVIOUS
  <2>2. PICK end \in 0..Len(hs) : \E start \in 0..end : Ends(page, hs, before, start, end)
    BY <1>6, <1>10, <2>1 DEF Asked
  <2>3. PICK start \in 0..end : Ends(page, hs, before, start, end)
    BY <2>2
  <2>4. PICK n \in Nat : start + n = end
    <3>1. end - start \in Nat /\ start + (end - start) = end
      OBVIOUS
    <3>2. QED
      BY <3>1
  <2>5. JoinedOf(joined, hs, start, n, given)
    <3>1. Holds(page, hs, start, end)
      BY <2>3 DEF Ends
    <3>2. QED
      BY <1>2, <1>4, <2>4, <3>1, GivenIs
  <2>6. PICK m \in Nat : m = Len(given)
    OBVIOUS
  <2>7. /\ joined \in Seq(Block) /\ Len(joined) = n + m
        /\ \A k \in 1..n : joined[k] = hs[start + k]
        /\ \A k \in 1..m : joined[k + n] = given[k]
    BY <2>5, <2>6 DEF JoinedOf
  <2>8. IdsAreRows(joined)
    <3> SUFFICES ASSUME NEW k \in 1..(n + m) PROVE joined[k].id = joined[k].row
      BY <2>7 DEF IdsAreRows
    <3>1. CASE k \in 1..n
      <4>1. start + k \in 1..Len(hs)
        BY <1>2, <2>4, <3>1
      <4>2. joined[k] = hs[start + k]
        BY <2>7, <3>1
      <4>3. QED
        BY <1>2, <4>1, <4>2
    <3>2. CASE k \notin 1..n
      <4>1. PICK j \in 1..m : k = j + n
        <5>1. k - n \in 1..m /\ k = (k - n) + n
          BY <3>2
        <5>2. QED
          BY <5>1
      <4>2. joined[k] = given[j]
        BY <2>7, <4>1
      <4>3. QED
        BY <1>6, <2>6, <4>1, <4>2 DEF IdsAreRows
    <3>3. QED
      BY <3>1, <3>2
  <2>9. ASSUME ~walk'.over PROVE page.next = CursorOf(joined)
    <3>1. start > 0
      BY <1>5, <2>3, <2>9 DEF Ends, Holds
    <3>2. start < end /\ 1 \in 1..n
      BY <2>3, <2>4, <3>1 DEF Ends
    <3>3. page.next = hs[start + 1].id
      BY <2>3, <3>1, <3>2 DEF Ends, Holds
    <3>4. joined # <<>> /\ joined[1] = hs[start + 1]
      <4>1. Len(joined) # 0
        BY <2>7, <3>2
      <4>2. QED
        BY <2>7, <3>2, <4>1
    <3>5. QED
      BY <3>3, <3>4 DEF CursorOf
  <2>10. ASSUME ~walk'.split PROVE \E g : Placed(joined, g)'
    <3>1. ~Split /\ ~walk.split
      BY <1>5, <2>10
    <3>2. PICK g : Placed(given, g)
      BY <1>6, <3>1
    <3>3. PICK h : Placed(joined, h)
      BY <1>1, <1>4, <1>6, <1>7, <2>1, <2>3, <3>1, <3>2, PageJoins
    <3>4. QED
      BY <1>8, <3>3
  <2>11. QED
    BY <1>5, <2>8, <2>9, <2>10 DEF WalkFits, IdsAreRows, CursorOf, Placed
<1>11. QED
  BY <1>9, <1>10

\* Whatever the session writes, it writes behind what the walk was given.
LEMMA GrowsFits ==
    ASSUME PagesInv, Grows
    PROVE  TypeOK' /\ WalkFits'
<1>1. PICK row \in Row : /\ Len(rows) < MaxRows /\ rows' = Append(rows, row)
                         /\ store' = store /\ walk' = walk
  BY DEF Grows
<1>2. rows \in Seq(Row) /\ Len(rows) <= MaxRows
  BY DEF PagesInv, TypeOK
<1>3. rows' \in Seq(Row) /\ Len(rows') = Len(rows) + 1
  BY <1>1, <1>2
<1>4. TypeOK'
  BY <1>1, <1>2, <1>3, ConstantsOK DEF PagesInv, TypeOK
<1>5. PICK given \in Seq(Block) : given = walk.given
  BY DEF PagesInv, TypeOK
<1>6. ASSUME ~walk.split PROVE \E g : Placed(given, g)'
  <2>1. PICK g : Placed(given, g)
    BY <1>5, <1>6 DEF PagesInv, WalkFits
  <2>2. QED
    BY <1>1, <1>2, <2>1, RowsGrow
<1>7. IdsAreRows(walk.given) /\ (~walk.over => walk.cursor = CursorOf(walk.given))
  BY DEF PagesInv, WalkFits
<1>8. WalkFits'
  <2>1. IdsAreRows(walk.given)'
    BY <1>1, <1>7 DEF IdsAreRows
  <2>2. (~walk.over => walk.cursor = CursorOf(walk.given))'
    BY <1>1, <1>7 DEF CursorOf
  <2>3. (~walk.split => \E g : Placed(walk.given, g))'
    <3>1. walk'.given = given /\ walk'.split = walk.split
      BY <1>1, <1>5
    <3>2. QED
      BY <1>6, <3>1 DEF Placed
  <2>4. QED
    BY <2>1, <2>2, <2>3 DEF WalkFits
<1>9. QED
  BY <1>4, <1>8

\* Rows that nothing writes stay well kept.
LEMMA RowsStay ==
    ASSUME RowsAreKept, store' = store, rows' = rows
    PROVE  RowsAreKept'
<1>1. WellKept(rows)'
  BY DEF RowsAreKept, WellKept
<1>2. PICK n \in Nat : KeysTo(rows, n)
  BY DEF RowsAreKept
<1>3. KeysTo(rows, n)'
  BY <1>2 DEF KeysTo
<1>4. (store \in {"parts", "lines"})'
  BY DEF RowsAreKept
<1>5. QED
  BY <1>1, <1>3, <1>4, Zenon DEF RowsAreKept

\* The rows stay well kept, and the walk a stretch of them.
LEMMA InvNext == PagesInv /\ [Next]_vars => PagesInv'
<1> SUFFICES ASSUME PagesInv, [Next]_vars PROVE PagesInv'
  OBVIOUS
<1>1. CASE WritesText \/ WritesHidden \/ WritesCall \/ WritesResult \/ WritesAgain
  <2>1. RowsAreKept' /\ Grows
    BY <1>1, WritesAreKept DEF PagesInv
  <2>2. TypeOK' /\ WalkFits'
    BY <2>1, GrowsFits
  <2>3. QED
    BY <2>1, <2>2 DEF PagesInv
<1>2. ASSUME NEW limit \in PageLimits, AsksPage(limit) PROVE PagesInv'
  <2>1. PICK hs, page : Asked(hs, page)
    BY <1>2, AsksAre
  <2>2. WalkFits'
    BY <2>1, AskedFits
  <2>3. TypeOK'
    BY <2>1, WalkIs
  <2>4. store' = store /\ rows' = rows
    BY <2>1 DEF Asked
  <2>5. RowsAreKept'
    BY <2>4, RowsStay DEF PagesInv
  <2>6. QED
    BY <2>2, <2>3, <2>5 DEF PagesInv
<1>3. CASE UNCHANGED vars
  <2>1. store' = store /\ rows' = rows /\ walk' = walk
    BY <1>3 DEF vars
  <2>2. TypeOK'
    BY <2>1 DEF PagesInv, TypeOK
  <2>3. RowsAreKept'
    BY <2>1, RowsStay DEF PagesInv
  <2>4. WalkFits'
    BY <2>1 DEF PagesInv, WalkFits, IdsAreRows, CursorOf, Placed, Firsts
  <2>5. QED
    BY <2>2, <2>3, <2>4 DEF PagesInv
<1>4. QED
  BY <1>1, <1>2, <1>3 DEF Next, Quiescent

-----------------------------------------------------------------------------

\* The invariant holds of every session and every walk.
LEMMA Invariance == Spec => []PagesInv
<1>1. Init => PagesInv
  BY InvInit
<1>2. PagesInv /\ [Next]_vars => PagesInv'
  BY InvNext
<1>3. QED
  BY <1>1, <1>2, PTL DEF Spec

\* Rows, cursor and blocks are what their types say, and no more rows or pages are
\* there than the bounds allow.
THEOREM PagesTyping == Spec => []TypeOK
<1>1. PagesInv => TypeOK
  BY DEF PagesInv
<1>2. QED
  BY <1>1, Invariance, PTL

\* Whatever the window cuts off, a reader shows every row in it once, repeats or not:
\* a text or a call as a block, a result in its call's block or in one of its own
\* (transcript_to_blocks, rollout_to_blocks, opencode_to_blocks).
THEOREM RowsShown == Spec => []RowsAreShownOnce
<1>1. ASSUME PagesInv PROVE RowsAreShownOnce
  <2>1. WellKept(rows) /\ store \in {"parts", "lines"}
    BY <1>1 DEF PagesInv, RowsAreKept
  <2>2. PICK rs : rs = InReach(rows)
    OBVIOUS
  <2>3. rs \in Seq(Row) /\ WellKept(rs)
    BY <2>1, <2>2, WindowKept
  <2>4. PICK n \in Nat : n = Len(rs)
    BY <2>3
  <2>5. PICK bs : bs = ToBlocks(rs)
    OBVIOUS
  <2>6. PICK p : ShownAs(rs, n, bs, p) /\ Results(rs, n, bs)
    BY <2>1, <2>3, <2>4, <2>5, BlocksOf
  <2>7. DOMAIN rs = 1..n /\ DOMAIN bs = 1..Len(bs)
    BY <2>3, <2>4, <2>6 DEF ShownAs
  <2>8. ASSUME NEW i \in 1..n, rs[i].kind # "hidden"
        PROVE  Cardinality({k \in 1..Len(bs) :
                   IF rs[i].kind = "result" THEN bs[k].answer = rs[i].key
                   ELSE bs[k].row = rs[i].key}) = 1
    BY <2>3, <2>4, <2>6, <2>8, ShownOnce
  <2>9. QED
    BY <2>2, <2>5, <2>7, <2>8 DEF RowsAreShownOnce
<1>2. QED
  BY <1>1, Invariance, PTL

\* The place of a row is where it first comes.
LEMMA PlaceIs ==
    ASSUME rows \in Seq(Row), NEW i \in Firsts, NEW key, rows[i].key = key
    PROVE  Place(key) = i
<1>1. \A j \in Firsts : rows[j].key = key => j = i
  BY FirstsDiffer
<1>2. QED
  BY <1>1 DEF Place

\* The pages of a walk fit together, however the session grows and its window moves
\* between two of them: no block twice, none left out, in the session's order
\* (paginate_blocks, _stable_id).
THEOREM WalksAreUnbroken == Spec => []WalkIsUnbroken
<1>1. ASSUME PagesInv, ~walk.split
      PROVE  /\ \A i \in DOMAIN walk.given, j \in DOMAIN walk.given :
                   i < j => Place(walk.given[i].row) < Place(walk.given[j].row)
             /\ \A i \in Passed : rows[i].kind \in {"text", "call"} =>
                   \E k \in DOMAIN walk.given : walk.given[k].row = rows[i].key
  <2>1. rows \in Seq(Row)
    BY <1>1 DEF PagesInv, TypeOK
  <2>2. PICK given \in Seq(Block) : given = walk.given
    BY <1>1 DEF PagesInv, TypeOK
  <2>3. PICK g : Placed(given, g)
    BY <1>1, <2>2 DEF PagesInv, WalkFits
  <2>4. PICK m \in Nat : m = Len(given) /\ DOMAIN given = 1..m /\ (given # <<>> => m # 0)
    OBVIOUS
  <2>5. /\ \A k \in 1..m : g[k] \in Firsts /\ rows[g[k]].key = given[k].row
        /\ \A k, l \in 1..m : k < l => g[k] < g[l]
    BY <2>3, <2>4 DEF Placed
  <2>6. \A k \in 1..m : Place(given[k].row) = g[k]
    BY <2>1, <2>5, PlaceIs
  <2>7. \A k, l \in 1..m : k < l => Place(given[k].row) < Place(given[l].row)
    BY <2>5, <2>6
  <2>8. ASSUME NEW i \in Passed, rows[i].kind \in {"text", "call"}
        PROVE  \E k \in 1..m : given[k].row = rows[i].key
    <3>1. given # <<>> /\ 1 \in 1..m /\ m \in 1..m
      BY <2>2, <2>4, <2>8 DEF Passed
    <3>2. Head(given) = given[1] /\ Last(given) = given[m]
      BY <2>4, <3>1 DEF Last
    <3>3. i \in Firsts /\ i \in Place(given[1].row)..Place(given[m].row)
      BY <2>2, <2>8, <3>2 DEF Passed
    <3>4. Place(given[1].row) = g[1] /\ Place(given[m].row) = g[m]
      BY <2>6, <3>1
    <3>5. g[1] <= i /\ i <= g[m]
      <4>1. g[1] \in Int /\ g[m] \in Int
        BY <2>1, <2>5, <3>1 DEF Firsts
      <4>2. QED
        BY <3>3, <3>4, <4>1
    <3>6. PICK k \in 1..m : g[k] = i
      BY <2>3, <2>4, <2>8, <3>1, <3>3, <3>5 DEF Placed
    <3>7. QED
      BY <2>5, <3>6
  <2>9. QED
    BY <2>2, <2>4, <2>7, <2>8
<1>2. PagesInv => WalkIsUnbroken
  BY <1>1 DEF WalkIsUnbroken
<1>3. QED
  BY <1>2, Invariance, PTL

\* A page is at the oldest block in reach, or its cursor is lost, or it takes the walk
\* further back.
LEMMA AskedGoesOn ==
    ASSUME PagesInv, NEW hs, NEW page, Asked(hs, page)
    PROVE  IF walk'.over
           THEN \/ hs = <<>> \/ (walk.cursor # None /\ At(hs, walk.cursor) = {})
                \/ \E k \in DOMAIN walk'.given : walk'.given[k].row = Head(hs).row
           ELSE walk'.cursor # None /\ Len(walk'.given) > Len(walk.given)
<1>1. PICK q : Reaches(hs, q)
  BY DEF Asked
<1>2. hs \in Seq(Block) /\ Len(hs) \in Nat /\ \A k \in 1..Len(hs) : hs[k].id = hs[k].row
  BY <1>1 DEF Reaches
<1>3. PICK given \in Seq(Block) : given = walk.given
  BY DEF PagesInv, TypeOK
<1>4. PICK joined : joined = page.blocks \o given
  OBVIOUS
<1>5. /\ walk'.cursor = page.next /\ walk'.given = joined /\ (walk'.over <=> ~page.more)
  BY <1>3, <1>4, WalkIs
<1>6. IdsAreRows(given) /\ walk.cursor = CursorOf(given)
  BY <1>3 DEF PagesInv, WalkFits, Asked
<1>7. CASE IsLost(page, hs, walk.cursor)
  <2>1. PICK before : before = walk.cursor
    OBVIOUS
  <2>2. page.more = FALSE
    BY <1>7, <2>1, <1>3, LostIs
  <2>3. walk'.over
    BY <1>5, <2>2
  <2>4. walk.cursor # None /\ At(hs, walk.cursor) = {}
    BY <1>7 DEF IsLost
  <2>5. QED
    BY <2>3, <2>4
<1>8. CASE ~IsLost(page, hs, walk.cursor)
  <2>1. PICK before : before = CursorOf(given)
    OBVIOUS
  <2>2. PICK end \in 0..Len(hs) : \E start \in 0..end : Ends(page, hs, before, start, end)
    BY <1>6, <1>8, <2>1 DEF Asked
  <2>3. PICK start \in 0..end : Ends(page, hs, before, start, end)
    BY <2>2
  <2>4. PICK n \in Nat : start + n = end
    <3>1. end - start \in Nat /\ start + (end - start) = end
      OBVIOUS
    <3>2. QED
      BY <3>1
  <2>5. PICK m \in Nat : m = Len(given)
    OBVIOUS
  <2>6. /\ joined \in Seq(Block) /\ Len(joined) = n + m
        /\ \A k \in 1..n : joined[k] = hs[start + k]
        /\ \A k \in 1..m : joined[k + n] = given[k]
    <3>1. Holds(page, hs, start, end)
      BY <2>3 DEF Ends
    <3>2. JoinedOf(joined, hs, start, n, given)
      BY <1>2, <1>4, <2>4, <3>1, GivenIs
    <3>3. QED
      BY <2>5, <3>2 DEF JoinedOf
  <2>7. ASSUME ~walk'.over
        PROVE  walk'.cursor # None /\ Len(walk'.given) > Len(walk.given)
    <3>1. start > 0
      BY <1>5, <2>3, <2>7 DEF Ends, Holds
    <3>2. start < end
      BY <2>3, <3>1 DEF Ends
    <3>3. n > 0 /\ start + 1 \in 1..Len(hs)
      BY <1>2, <2>4, <3>2
    <3>4. page.next = hs[start + 1].id
      BY <2>3, <3>1, <3>2 DEF Ends, Holds
    <3>5. page.next # None
      <4>1. hs[start + 1] \in Block
        BY <1>2, <3>3
      <4>2. QED
        BY <3>4, <4>1, ConstantsOK DEF Block
    <3>6. Len(walk'.given) = n + m /\ Len(walk.given) = m
      BY <1>3, <1>5, <2>5, <2>6
    <3>7. QED
      BY <1>5, <3>3, <3>5, <3>6
  <2>8. ASSUME walk'.over, hs # <<>>
        PROVE  \E k \in DOMAIN walk'.given : walk'.given[k].row = Head(hs).row
    <3>1. start = 0 /\ n = end
      <4>1. ~(start > 0)
        BY <1>5, <2>3, <2>8 DEF Ends, Holds
      <4>2. QED
        BY <2>4, <4>1
    <3>2. Len(hs) # 0 /\ Head(hs) = hs[1] /\ DOMAIN joined = 1..(n + m)
      BY <1>2, <2>6, <2>8
    <3>3. CASE end > 0
      <4>1. 1 \in 1..n /\ 1 \in 1..(n + m)
        BY <2>4, <3>1, <3>3
      <4>2. joined[1] = hs[1]
        BY <2>6, <3>1, <4>1
      <4>3. QED
        BY <1>5, <3>2, <4>1, <4>2
    <3>4. CASE end = 0
      <4>1. before # None /\ hs[1].id = before
        BY <1>2, <2>3, <3>2, <3>4 DEF Ends
      <4>2. given # <<>> /\ before = given[1].id
        BY <2>1, <4>1 DEF CursorOf
      <4>3. 1 \in 1..m /\ 1 \in 1..Len(hs)
        BY <1>2, <2>5, <3>2, <4>2
      <4>4. hs[1].row = given[1].row
        BY <1>2, <1>6, <2>5, <4>1, <4>2, <4>3 DEF IdsAreRows
      <4>5. n = 0 /\ 1 + n = 1 /\ 1 \in 1..(n + m)
        BY <3>1, <3>4, <4>3
      <4>6. joined[1] = given[1]
        BY <2>6, <4>3, <4>5
      <4>7. QED
        BY <1>5, <3>2, <4>4, <4>5, <4>6
    <3>5. QED
      BY <3>3, <3>4
  <2>9. QED
    BY <2>7, <2>8
<1>9. QED
  BY <1>7, <1>8

\* A walk ends only at the oldest block in reach or where its cursor has left the
\* window; any other page takes it further back (paginate_blocks, pane_block_page).
THEOREM WalksGoOn == Spec => WalkGoesOn
<1>1. ASSUME PagesInv, [Next]_vars, walk' # walk
      PROVE  IF walk'.over
             THEN \/ History = <<>> \/ (walk.cursor # None /\ At(History, walk.cursor) = {})
                  \/ \E k \in DOMAIN walk'.given : walk'.given[k].row = Head(History).row
             ELSE walk'.cursor # None /\ Len(walk'.given) > Len(walk.given)
  <2>1. PICK limit \in PageLimits : AsksPage(limit)
    <3>1. ASSUME WritesText \/ WritesHidden \/ WritesCall \/ WritesResult \/ WritesAgain
          PROVE  FALSE
      <4>1. Grows
        BY <1>1, <3>1, WritesAreKept DEF PagesInv
      <4>2. QED
        BY <1>1, <4>1 DEF Grows
    <3>2. QED
      BY <1>1, <3>1 DEF Next, Quiescent, vars
  <2>2. PICK hs, page : Asked(hs, page)
    BY <1>1, <2>1, AsksAre
  <2>3. hs = History
    BY <2>2 DEF Asked
  <2>4. QED
    BY <1>1, <2>2, <2>3, AskedGoesOn
<1>2. QED
  BY <1>1, Invariance, PTL DEF Spec, WalkGoesOn

-----------------------------------------------------------------------------
(* How a page is found.                                                     *)

\* The last m blocks before end.
LastBefore(bs, end, m) == SubSeq(bs, end - m + 1, end)

\* paginate_blocks takes another block: there is one, the page has room for it, and
\* it is the page's first or its bytes fit.
TakesBlock(bs, end, limit, at) ==
    /\ at.start > 0 /\ end - at.start < limit.blocks
    /\ at.start < end => at.used + Bytes(bs[at.start]) <= limit.bytes

\* Its loop: it takes n blocks from end down, and no more.
Loop(bs, end, limit, n, at) ==
    /\ at[0] = [start |-> end, used |-> 0]
    /\ \A m \in 1..n : /\ TakesBlock(bs, end, limit, at[m - 1])
                       /\ at[m] = [start |-> at[m - 1].start - 1,
                                   used |-> at[m - 1].used + Bytes(bs[at[m - 1].start])]
    /\ ~TakesBlock(bs, end, limit, at[n])

\* A block in front adds its bytes.
LEMMA BytesInFront ==
    ASSUME NEW q \in Seq(Block), NEW r \in Seq(Block), NEW k \in Nat, Len(q) = k + 1,
           Len(r) = k, \A i \in 1..k : r[i] = q[i + 1]
    PROVE  BytesOf(r) \in Nat /\ BytesOf(q) = BytesOf(r) + Bytes(q[1])
<1>1. \A b : Bytes(b) \in Nat
  BY DEF Bytes
<1>2. PICK a : Run("bytes", q, k + 1, a) /\ BytesOf(q) = a[k + 1]
  BY BytesRun
<1>3. PICK b : Run("bytes", r, k, b) /\ BytesOf(r) = b[k]
  BY BytesRun
<1>4. a[0] = 0 /\ \A m \in 1..(k + 1) : a[m] = a[m - 1] + Bytes(q[m])
  BY <1>2 DEF Run, Nothing, ReadRow
<1>5. b[0] = 0 /\ \A m \in 1..k : b[m] = b[m - 1] + Bytes(r[m])
  BY <1>3 DEF Run, Nothing, ReadRow
<1> DEFINE T == {m \in 0..k : b[m] \in Nat /\ a[m + 1] = b[m] + Bytes(q[1])}
<1>6. 0 \in T
  <2>1. a[1] = 0 + Bytes(q[1])
    BY <1>4
  <2>2. QED
    BY <1>5, <2>1
<1>7. ASSUME NEW m \in 1..k, m - 1 \in T PROVE m \in T
  <2>1. PICK x \in Nat : x = b[m - 1] /\ a[m] = x + Bytes(q[1])
    BY <1>7
  <2>2. b[m] = x + Bytes(r[m])
    BY <1>5, <2>1
  <2>3. m + 1 \in 1..(k + 1) /\ (m + 1) - 1 = m
    OBVIOUS
  <2>4. a[m + 1] = a[m] + Bytes(q[m + 1])
    BY <1>4, <2>3
  <2>5. PICK y \in Nat, z \in Nat : y = Bytes(q[1]) /\ z = Bytes(r[m])
    BY <1>1
  <2>6. Bytes(q[m + 1]) = z
    BY <2>5
  <2>7. b[m] = x + z /\ a[m + 1] = (x + y) + z
    BY <2>1, <2>2, <2>4, <2>5, <2>6
  <2>8. \A u, v \in Nat : u = x + z /\ v = (x + y) + z => v = u + y
    OBVIOUS
  <2>9. x + z \in Nat /\ (x + y) + z \in Nat
    OBVIOUS
  <2>10. b[m] \in Nat /\ a[m + 1] = b[m] + y
    BY <2>7, <2>8, <2>9, Zenon
  <2>11. m \in 0..k
    OBVIOUS
  <2>12. QED
    BY <2>5, <2>10, <2>11, Zenon
<1> HIDE DEF T
<1>8. k \in T
  BY <1>6, <1>7, UpToTop, Zenon
<1>9. QED
  BY <1>2, <1>3, <1>8 DEF T

\* The last m blocks are m blocks, the last of them at end.
LEMMA LastBeforeIs ==
    ASSUME NEW bs \in Seq(Block), NEW end \in 0..Len(bs), NEW m \in 0..end
    PROVE  /\ LastBefore(bs, end, m) \in Seq(Block) /\ Len(LastBefore(bs, end, m)) = m
           /\ \A i \in 1..m : LastBefore(bs, end, m)[i] = bs[end - m + i]
<1>1. PICK x \in Int : x = end - m + 1
  OBVIOUS
<1>2. \A i \in x..end : bs[i] \in Block
  <2>1. \A i \in x..end : i \in 1..Len(bs)
    BY <1>1
  <2>2. QED
    BY <2>1
<1>3. LastBefore(bs, end, m) = SubSeq(bs, x, end)
  BY <1>1, Zenon DEF LastBefore
<1>4. PICK q : q = SubSeq(bs, x, end)
  OBVIOUS
<1>5. /\ q \in Seq(Block) /\ Len(q) = IF x <= end THEN end - x + 1 ELSE 0
      /\ \A i \in 1..(end - x + 1) : q[i] = bs[x + i - 1]
  BY <1>2, <1>4, SubSeqProperties
<1>6. end - x + 1 = m /\ (x <= end <=> m # 0)
  BY <1>1
<1>7. Len(q) = m
  BY <1>5, <1>6
<1>8. \A i \in 1..m : q[i] = bs[end - m + i]
  <2>1. \A i \in 1..m : x + i - 1 = end - m + i
    BY <1>1
  <2>2. QED
    BY <1>5, <1>6, <2>1
<1>9. QED
  BY <1>3, <1>4, <1>5, <1>7, <1>8, Zenon

\* One more of them adds the bytes of the block in front.
LEMMA OneMore ==
    ASSUME NEW bs \in Seq(Block), NEW end \in 0..Len(bs), NEW m \in 1..end
    PROVE  /\ BytesOf(LastBefore(bs, end, m - 1)) \in Nat
           /\ BytesOf(LastBefore(bs, end, m))
              = BytesOf(LastBefore(bs, end, m - 1)) + Bytes(bs[end - (m - 1)])
<1>1. PICK k \in Nat : k = m - 1 /\ k + 1 = m /\ k \in 0..end
  OBVIOUS
<1>2. PICK q, r : q = LastBefore(bs, end, m) /\ r = LastBefore(bs, end, k)
  OBVIOUS
<1>3. m \in 0..end
  OBVIOUS
<1>4. /\ q \in Seq(Block) /\ Len(q) = m /\ \A i \in 1..m : q[i] = bs[end - m + i]
      /\ r \in Seq(Block) /\ Len(r) = k /\ \A i \in 1..k : r[i] = bs[end - k + i]
  BY <1>1, <1>2, <1>3, LastBeforeIs
<1>5. ASSUME NEW i \in 1..k PROVE r[i] = q[i + 1]
  <2>1. i + 1 \in 1..m /\ end - m + (i + 1) = end - k + i
    BY <1>1
  <2>2. q[i + 1] = bs[end - m + (i + 1)] /\ r[i] = bs[end - k + i]
    BY <1>4, <2>1, Zenon
  <2>3. QED
    BY <2>1, <2>2, Zenon
<1>6. q[1] = bs[end - (m - 1)]
  <2>1. 1 \in 1..m /\ end - m + 1 = end - (m - 1)
    OBVIOUS
  <2>2. QED
    BY <1>4, <2>1
<1>7. Len(q) = k + 1
  BY <1>1, <1>4
<1>8. BytesOf(r) \in Nat /\ BytesOf(q) = BytesOf(r) + Bytes(q[1])
  BY <1>4, <1>5, <1>7, BytesInFront
<1>9. QED
  BY <1>1, <1>2, <1>6, <1>8, Zenon

\* No blocks have no bytes, some have at least one, and more have no fewer.
LEMMA BytesGrow ==
    ASSUME NEW bs \in Seq(Block), NEW end \in 0..Len(bs), NEW m \in 0..end
    PROVE  /\ BytesOf(LastBefore(bs, end, 0)) = 0
           /\ BytesOf(LastBefore(bs, end, m)) \in Nat
           /\ \A k \in 0..m :
                 BytesOf(LastBefore(bs, end, k)) <= BytesOf(LastBefore(bs, end, m))
<1> DEFINE Size(k) == BytesOf(LastBefore(bs, end, k))
<1>1. Size(0) = 0
  <2>1. PICK q : q = LastBefore(bs, end, 0)
    OBVIOUS
  <2>2. 0 \in 0..end
    OBVIOUS
  <2>3. q \in Seq(Block) /\ 0 = Len(q)
    BY <2>1, <2>2, LastBeforeIs
  <2>4. PICK acc : Run("bytes", q, 0, acc) /\ BytesOf(q) = acc[0]
    BY <2>3, BytesRun
  <2>5. QED
    BY <2>1, <2>4, Zenon DEF Run, Nothing
<1>2. ASSUME NEW k \in 1..end
      PROVE  Size(k - 1) \in Nat /\ Size(k) \in Nat /\ Size(k - 1) <= Size(k)
  <2>1. PICK x \in Nat : x = Size(k - 1)
    BY OneMore
  <2>2. PICK z \in Nat : z = Bytes(bs[end - (k - 1)])
    BY DEF Bytes
  <2>3. Size(k) = x + z
    BY <2>1, <2>2, OneMore
  <2>4. x + z \in Nat /\ x <= x + z
    OBVIOUS
  <2>5. QED
    BY <2>1, <2>3, <2>4, Zenon
<1> HIDE DEF Size
<1> DEFINE T == {j \in 0..m : Size(j) \in Nat /\ \A k \in 0..j : Size(k) <= Size(j)}
<1>3. 0 \in T
  BY <1>1
<1>4. ASSUME NEW j \in 1..m, j - 1 \in T PROVE j \in T
  <2>1. j \in 1..end
    OBVIOUS
  <2>2. PICK x \in Nat, y \in Nat : x = Size(j - 1) /\ y = Size(j) /\ x <= y
    BY <1>2, <2>1
  <2>3. ASSUME NEW k \in 0..j PROVE Size(k) <= y
    <3>1. CASE k = j
      BY <2>2, <3>1
    <3>2. CASE k # j
      <4>1. k \in 0..(j - 1)
        BY <3>2
      <4>2. Size(k) <= x
        BY <1>4, <2>2, <4>1
      <4>3. k \in 0..end /\ Size(k) \in Nat
        <5>1. k = 0 \/ k \in 1..end
          OBVIOUS
        <5>2. QED
          BY <1>1, <1>2, <5>1
      <4>4. QED
        BY <2>2, <4>2, <4>3
    <3>3. QED
      BY <3>1, <3>2
  <2>4. QED
    BY <2>2, <2>3
<1> HIDE DEF T
<1>5. m \in T
  <2>1. m \in Nat
    OBVIOUS
  <2>2. QED
    BY <1>3, <1>4, <2>1, UpToTop, Zenon
<1>6. Size(m) \in Nat /\ \A k \in 0..m : Size(k) <= Size(m)
  BY <1>5, Zenon DEF T
<1>7. QED
  BY <1>1, <1>6, Zenon DEF Size

\* Where the loop is after m blocks, and that they fit.
LEMMA LoopIs ==
    ASSUME NEW bs \in Seq(Block), NEW end \in 0..Len(bs), NEW limit \in PageLimits,
           NEW n \in Nat, NEW at, Loop(bs, end, limit, n, at)
    PROVE  /\ n \in 0..end
           /\ at[n] = [start |-> end - n, used |-> BytesOf(LastBefore(bs, end, n))]
           /\ Fits(LastBefore(bs, end, n), limit)
<1>0. limit.blocks \in Nat \ {0} /\ limit.bytes \in Nat \ {0}
  BY ConstantsOK
<1> DEFINE State(m) == [start |-> end - m, used |-> BytesOf(LastBefore(bs, end, m))]
<1> DEFINE T == {m \in 0..n : m <= end /\ at[m] = State(m) /\ Fits(LastBefore(bs, end, m), limit)}
<1>1. 0 \in T
  <2>1. 0 \in 0..end /\ end - 0 = end
    OBVIOUS
  <2>2. Len(LastBefore(bs, end, 0)) = 0 /\ BytesOf(LastBefore(bs, end, 0)) = 0
    BY <2>1, LastBeforeIs, BytesGrow
  <2>3. at[0] = State(0)
    BY <2>1, <2>2 DEF Loop
  <2>4. Fits(LastBefore(bs, end, 0), limit)
    BY <1>0, <2>2 DEF Fits
  <2>5. QED
    BY <2>3, <2>4
<1>2. ASSUME NEW m \in 1..n, m - 1 \in T PROVE m \in T
  <2>1. PICK k \in 0..n : k = m - 1 /\ k + 1 = m /\ k <= end /\ k \in Nat
    BY <1>2
  <2>2. at[k] = State(k)
    BY <1>2, <2>1
  <2>3. /\ TakesBlock(bs, end, limit, at[k])
        /\ at[m] = [start |-> at[k].start - 1, used |-> at[k].used + Bytes(bs[at[k].start])]
    BY <2>1 DEF Loop
  <2>4. PICK s : s = end - k
    OBVIOUS
  <2>5. PICK u : u = BytesOf(LastBefore(bs, end, k))
    OBVIOUS
  <2>6. at[k].start = s /\ at[k].used = u
    BY <2>2, <2>4, <2>5
  <2> HIDE DEF State
  <2>7. /\ s > 0 /\ end - s < limit.blocks
        /\ s < end => u + Bytes(bs[s]) <= limit.bytes
    BY <2>3, <2>6, Zenon DEF TakesBlock
  <2>8. m \in 1..end /\ m \in 0..end /\ s - 1 = end - m
    BY <2>1, <2>4, <2>7
  <2>9. BytesOf(LastBefore(bs, end, m)) = u + Bytes(bs[s])
    BY <2>1, <2>4, <2>5, <2>8, OneMore
  <2>10. at[m] = State(m)
    <3>1. at[m] = [start |-> s - 1, used |-> u + Bytes(bs[s])]
      BY <2>3, <2>6, Zenon
    <3>2. QED
      BY <2>8, <2>9, <3>1, Zenon DEF State
  <2>11. Len(LastBefore(bs, end, m)) = m
    BY <2>8, LastBeforeIs
  <2>12. m <= limit.blocks /\ (m <= 1 \/ s < end)
    BY <1>0, <2>1, <2>4, <2>7
  <2>13. Fits(LastBefore(bs, end, m), limit)
    BY <2>7, <2>9, <2>11, <2>12, Zenon DEF Fits
  <2>14. m <= end /\ m \in 0..n
    BY <2>8
  <2>15. QED
    BY <2>10, <2>13, <2>14, Zenon
<1> HIDE DEF T
<1>3. n \in T
  BY <1>1, <1>2, UpToTop, Zenon
<1>4. n \in 0..end
  BY <1>3 DEF T
<1>5. QED
  BY <1>3, <1>4, Zenon DEF T, State

\* Where the loop stops, nothing longer fits.
LEMMA NoLonger ==
    ASSUME NEW bs \in Seq(Block), NEW end \in 0..Len(bs), NEW limit \in PageLimits,
           NEW n \in Nat, NEW at, Loop(bs, end, limit, n, at),
           NEW m \in 0..end, n < m
    PROVE  ~Fits(LastBefore(bs, end, m), limit)
<1>0. limit.blocks \in Nat \ {0} /\ limit.bytes \in Nat \ {0}
  BY ConstantsOK
<1>1. /\ n \in 0..end
      /\ at[n] = [start |-> end - n, used |-> BytesOf(LastBefore(bs, end, n))]
  BY LoopIs
<1>2. PICK s : s = end - n
  OBVIOUS
<1>3. PICK u : u = BytesOf(LastBefore(bs, end, n))
  OBVIOUS
<1>4. at[n].start = s /\ at[n].used = u
  BY <1>1, <1>2, <1>3
<1>5. ~(/\ s > 0 /\ end - s < limit.blocks
        /\ s < end => u + Bytes(bs[s]) <= limit.bytes)
  BY <1>4 DEF Loop, TakesBlock
<1>6. PICK k \in 1..end : k = n + 1 /\ k - 1 = n /\ k <= m
  OBVIOUS
<1>7. BytesOf(LastBefore(bs, end, k)) = u + Bytes(bs[s])
  BY <1>2, <1>3, <1>6, OneMore
<1>8. PICK v \in Nat, w \in Nat : /\ v = BytesOf(LastBefore(bs, end, k))
                                 /\ w = BytesOf(LastBefore(bs, end, m)) /\ v <= w
  <2>1. k \in 0..end /\ k \in 0..m
    BY <1>6
  <2>2. QED
    BY <2>1, BytesGrow
<1>9. Len(LastBefore(bs, end, m)) = m
  BY LastBeforeIs
<1>10. SUFFICES ASSUME m <= limit.blocks, m <= 1 \/ w <= limit.bytes PROVE FALSE
  BY <1>8, <1>9, Zenon DEF Fits
<1>11. s > 0 /\ end - s < limit.blocks
  BY <1>0, <1>1, <1>2, <1>10
<1>12. s < end /\ ~(v <= limit.bytes)
  BY <1>5, <1>7, <1>8, <1>11, Zenon
<1>13. n # 0
  BY <1>2, <1>12
<1>14. QED
  BY <1>0, <1>8, <1>10, <1>12, <1>13

\* The loop comes to its end, whatever the blocks.
LEMMA LoopStops ==
    ASSUME NEW bs \in Seq(Block), NEW end \in 0..Len(bs), NEW limit \in PageLimits
    PROVE  \E n \in 0..end : \E at : Loop(bs, end, limit, n, at)
<1> DEFINE State(m) == [start |-> end - m, used |-> BytesOf(LastBefore(bs, end, m))]
<1> DEFINE stops == {m \in 0..end : ~TakesBlock(bs, end, limit, State(m))}
<1>1. end \in stops
  <2>1. end \in 0..end /\ State(end).start = 0
    OBVIOUS
  <2>2. QED
    BY <2>1 DEF TakesBlock
<1>2. stops \subseteq Nat
  OBVIOUS
<1> HIDE DEF stops
<1>3. PICK n \in stops : \A m \in stops : n <= m
  BY <1>1, <1>2, Smallest
<1>4. n \in 0..end /\ ~TakesBlock(bs, end, limit, State(n))
  BY DEF stops
<1>5. PICK at : at = [m \in 0..n |-> State(m)]
  OBVIOUS
<1>6. at[0] = [start |-> end, used |-> 0]
  <2>1. 0 \in 0..n /\ 0 \in 0..end /\ end - 0 = end
    BY <1>4
  <2>2. BytesOf(LastBefore(bs, end, 0)) = 0
    BY <2>1, BytesGrow
  <2>3. QED
    BY <1>5, <2>1, <2>2
<1>7. ASSUME NEW m \in 1..n
      PROVE  /\ TakesBlock(bs, end, limit, at[m - 1])
             /\ at[m] = [start |-> at[m - 1].start - 1,
                         used |-> at[m - 1].used + Bytes(bs[at[m - 1].start])]
  <2>1. m \in 1..end /\ m \in 0..n /\ m - 1 \in 0..n /\ m - 1 \in 0..end /\ ~(n <= m - 1)
    BY <1>4
  <2>2. PICK k : k = m - 1
    OBVIOUS
  <2>3. at[m] = State(m) /\ at[k] = State(k)
    BY <1>5, <2>1, <2>2, Zenon
  <2>4. TakesBlock(bs, end, limit, State(k))
    BY <1>3, <2>1, <2>2, Zenon DEF stops
  <2>5. PICK s : s = end - k
    OBVIOUS
  <2>6. PICK u : u = BytesOf(LastBefore(bs, end, k))
    OBVIOUS
  <2>7. at[k].start = s /\ at[k].used = u
    BY <2>3, <2>5, <2>6
  <2>8. BytesOf(LastBefore(bs, end, m)) = u + Bytes(bs[s]) /\ end - m = s - 1
    BY <2>1, <2>2, <2>5, <2>6, OneMore
  <2>9. at[m] = [start |-> s - 1, used |-> u + Bytes(bs[s])]
    BY <2>3, <2>8, Zenon
  <2>10. QED
    BY <2>2, <2>3, <2>4, <2>7, <2>9, Zenon
<1>8. ~TakesBlock(bs, end, limit, at[n])
  <2>1. n \in 0..n
    BY <1>4
  <2>2. QED
    BY <1>4, <1>5, <2>1, Zenon
<1>9. Loop(bs, end, limit, n, at)
  BY <1>6, <1>7, <1>8, Zenon DEF Loop
<1>10. QED
  BY <1>4, <1>9, Zenon

\* The loop of paginate_blocks comes to its end, and what it has then is the page of
\* PageEndingAt, with which AsksPage answers a cursor: the longest run of blocks that
\* ends at end and fits, where one block fits whatever its size.
THEOREM PageIsLongest ==
    ASSUME NEW bs \in Seq(Block), NEW end \in 0..Len(bs), NEW limit \in PageLimits
    PROVE  /\ \E n \in Nat : \E at : Loop(bs, end, limit, n, at)
           /\ \A n \in Nat : \A at : Loop(bs, end, limit, n, at) =>
                 Holds(PageEndingAt(bs, end, limit), bs, at[n].start, end)
<1>1. \E n \in Nat : \E at : Loop(bs, end, limit, n, at)
  BY LoopStops
<1>2. ASSUME NEW n \in Nat, NEW at, Loop(bs, end, limit, n, at)
      PROVE  Holds(PageEndingAt(bs, end, limit), bs, at[n].start, end)
  <2> DEFINE starts == {s \in 0..end : Fits(SubSeq(bs, s + 1, end), limit)}
  <2>1. /\ n \in 0..end /\ Fits(LastBefore(bs, end, n), limit)
        /\ at[n] = [start |-> end - n, used |-> BytesOf(LastBefore(bs, end, n))]
    BY <1>2, LoopIs
  <2>2. PICK x \in 0..end : x = end - n /\ x = at[n].start
    BY <2>1
  <2>3. x \in starts
    BY <2>1, <2>2 DEF LastBefore
  <2>4. ASSUME NEW s \in starts, s < x PROVE FALSE
    <3>1. PICK m \in 0..end : m = end - s /\ n < m /\ end - m = s
      BY <2>2, <2>4
    <3>2. Fits(LastBefore(bs, end, m), limit)
      BY <3>1 DEF LastBefore
    <3>3. QED
      BY <1>2, <3>1, <3>2, NoLonger
  <2>5. starts \subseteq Nat
    OBVIOUS
  <2>6. PICK start : start = CHOOSE s \in starts : \A t \in starts : s <= t
    OBVIOUS
  <2>7. PICK page : page = PageEndingAt(bs, end, limit)
    OBVIOUS
  <2>8. page = [blocks |-> SubSeq(bs, start + 1, end), more |-> start > 0,
                next |-> IF start > 0 /\ start < end THEN bs[start + 1].id ELSE None]
    BY <2>6, <2>7 DEF PageEndingAt
  <2> HIDE DEF starts
  <2>9. start \in starts /\ \A t \in starts : start <= t
    BY <2>3, <2>5, <2>6, Smallest
  <2>10. start = x
    BY <2>2, <2>3, <2>4, <2>5, <2>9
  <2>11. Holds(page, bs, start, end)
    BY <2>8, HoldsIs
  <2>12. QED
    BY <2>2, <2>7, <2>10, <2>11, Zenon
<1>3. QED
  BY <1>1, <1>2

=============================================================================
