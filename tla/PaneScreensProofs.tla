-------------------------- MODULE PaneScreensProofs --------------------------
(***************************************************************************)
(* How a dialog is read, for any number of any lines printed above it and  *)
(* any dialog drawn as agents draw them.                                   *)
(***************************************************************************)
EXTENDS PaneScreens, SequenceTheorems, WellFoundedInduction, TLAPS

-----------------------------------------------------------------------------
(* The readers go through lines one by one.                                 *)

\* A set of numbers has a least one.
LEMMA Smallest ==
    ASSUME NEW T, T \subseteq Nat, T # {}
    PROVE  \E x \in T : \A y \in T : x <= y
<1> DEFINE R == OpToRel(<, Nat)
<1>1. IsWellFoundedOn(R, Nat)
  BY NatLessThanWellFounded
<1>2. \A x, y \in Nat : x < y => <<x, y>> \in R
  BY DEF OpToRel
<1> HIDE DEF R
<1>3. PICK x \in T : \A y \in T : ~(<<y, x>> \in R)
  BY <1>1, WFMin
<1>4. ASSUME NEW y \in T, y < x PROVE FALSE
  <2>1. <<y, x>> \in R
    BY <1>2, <1>4
  <2>2. QED
    BY <1>3, <2>1
<1>5. QED
  BY <1>4

\* A set of numbers that holds 0 and what follows each of its members below n
\* holds them all up to n.
LEMMA Upwards ==
    ASSUME NEW n \in Nat, NEW T, 0 \in T,
           \A m \in 1..n : m - 1 \in T => m \in T
    PROVE  \A m \in 0..n : m \in T
<1> SUFFICES ASSUME NEW m \in 0..n, m \notin T PROVE FALSE
  OBVIOUS
<1> DEFINE U == {k \in 0..n : k \notin T}
<1>1. PICK x \in U : \A y \in U : x <= y
  <2>1. U \subseteq Nat /\ m \in U
    OBVIOUS
  <2> HIDE DEF U
  <2>2. QED
    BY <2>1, Smallest
<1>2. x \in 1..n
  BY <1>1
<1>3. x - 1 \in 0..n /\ x - 1 \notin U
  BY <1>1, <1>2
<1>4. QED
  BY <1>1, <1>2, <1>3

\* In particular, of the last.
LEMMA UpToTop ==
    ASSUME NEW n \in Nat, NEW T, 0 \in T,
           \A m \in 1..n : m - 1 \in T => m \in T
    PROVE  n \in T
<1>1. n \in 0..n
  OBVIOUS
<1>2. QED
  BY <1>1, Upwards, Zenon

\* What reader s makes of x after acc.  ls and os are the screen and the options of
\* the walk upward.
Step(s, ls, os, x, acc) ==
    IF s = "menu" THEN ReadLine(acc, x)
    ELSE IF s = "bullets" THEN AddBullet(acc, x)
    ELSE IF s = "cleaned" THEN AddCleaned(acc, x)
    ELSE Upward(ls, os, acc, x)

\* it is the fold over xs up to n.
FoldOf(s, ls, os, base, xs, n, it) ==
    it = [t \in SUBSET (1..n) |-> IF t = {} THEN base
                                  ELSE Step(s, ls, os, xs[Max(t)], it[t \ {Max(t)}])]

TheFold(s, ls, os, base, xs, n) == CHOOSE it : FoldOf(s, ls, os, base, xs, n, it)

\* The largest member of a set that holds no larger one.
LEMMA MaxIs ==
    ASSUME NEW n \in Nat, NEW t, t \subseteq 1..n, n \in t
    PROVE  Max(t) = n
<1>1. \A y \in t : n >= y
  OBVIOUS
<1>2. \A x \in t : (\A y \in t : x >= y) => x = n
  OBVIOUS
<1>3. QED
  BY <1>1, <1>2 DEF Max

\* The fold exists.
LEMMA FoldExists ==
    ASSUME NEW s, NEW ls, NEW os, NEW base, NEW xs, NEW n \in Nat
    PROVE  \E it : FoldOf(s, ls, os, base, xs, n, it)
<1> DEFINE T == {m \in 0..n : \E it : FoldOf(s, ls, os, base, xs, m, it)}
<1>1. 0 \in T
  <2>1. SUBSET (1..0) = {{}}
    OBVIOUS
  <2>2. FoldOf(s, ls, os, base, xs, 0, [t \in {{}} |-> base])
    BY <2>1 DEF FoldOf
  <2>3. QED
    BY <2>2
<1>2. ASSUME NEW m \in 1..n, m - 1 \in T PROVE m \in T
  <2>1. PICK k \in Nat : k = m - 1
    OBVIOUS
  <2>2. PICK it : FoldOf(s, ls, os, base, xs, k, it)
    BY <1>2, <2>1
  <2> DEFINE jt == [t \in SUBSET (1..m) |->
                      IF m \in t THEN Step(s, ls, os, xs[m], it[t \ {m}]) ELSE it[t]]
  <2>3. \A t \in SUBSET (1..m) : m \notin t => t \in SUBSET (1..k)
    BY <2>1
  <2>4. ASSUME NEW t \in SUBSET (1..m)
        PROVE  jt[t] = IF t = {} THEN base
                       ELSE Step(s, ls, os, xs[Max(t)], jt[t \ {Max(t)}])
    <3>1. CASE m \in t
      <4>1. Max(t) = m
        <5>1. m \in Nat /\ t \subseteq 1..m
          OBVIOUS
        <5>2. QED
          BY <3>1, <5>1, MaxIs
      <4>2. t \ {m} \in SUBSET (1..m) /\ m \notin t \ {m}
        OBVIOUS
      <4>3. jt[t \ {m}] = it[t \ {m}]
        BY <4>2
      <4>4. QED
        BY <3>1, <4>1, <4>3
    <3>2. CASE m \notin t
      <4>1. PICK x : x = Max(t)
        OBVIOUS
      <4>2. t \in SUBSET (1..k) /\ t \ {x} \in SUBSET (1..m) /\ m \notin t \ {x}
        BY <2>3, <3>2
      <4>3. jt[t] = it[t] /\ jt[t \ {x}] = it[t \ {x}]
        BY <3>2, <4>2
      <4>4. it[t] = IF t = {} THEN base ELSE Step(s, ls, os, xs[x], it[t \ {x}])
        BY <2>2, <4>1, <4>2 DEF FoldOf
      <4>5. QED
        BY <4>1, <4>3, <4>4
    <3>3. QED
      BY <3>1, <3>2
  <2>5. jt = [t \in SUBSET (1..m) |-> IF t = {} THEN base
                                      ELSE Step(s, ls, os, xs[Max(t)], jt[t \ {Max(t)}])]
    <3>1. jt = [t \in SUBSET (1..m) |-> jt[t]]
      OBVIOUS
    <3> HIDE DEF jt
    <3>2. QED
      BY <2>4, <3>1
  <2> HIDE DEF jt
  <2>6. FoldOf(s, ls, os, base, xs, m, jt)
    BY <2>5 DEF FoldOf
  <2>7. QED
    BY <2>6
<1> HIDE DEF T
<1>3. n \in T
  BY <1>1, <1>2, Upwards
<1>4. QED
  BY <1>3 DEF T

\* acc is what was made of xs, one after the other.
Run(s, ls, os, base, xs, n, acc) ==
    /\ acc[0] = base
    /\ \A m \in 1..n : acc[m] = Step(s, ls, os, xs[m], acc[m - 1])

\* A fold takes its elements one by one.
LEMMA FoldRun ==
    ASSUME NEW s, NEW ls, NEW os, NEW base, NEW xs, NEW n \in Nat
    PROVE  \E acc : /\ Run(s, ls, os, base, xs, n, acc)
                    /\ acc[n] = TheFold(s, ls, os, base, xs, n)[1..n]
<1>1. PICK it : it = TheFold(s, ls, os, base, xs, n)
  OBVIOUS
<1>2. FoldOf(s, ls, os, base, xs, n, it)
  BY <1>1, FoldExists DEF TheFold
<1> DEFINE acc == [m \in 0..n |-> it[1..m]]
<1>3. it[{}] = base
  BY <1>2 DEF FoldOf
<1>4. acc[0] = base
  <2>1. 1..0 = {} /\ 0 \in 0..n
    OBVIOUS
  <2>2. QED
    BY <1>3, <2>1
<1>5. ASSUME NEW m \in 1..n PROVE acc[m] = Step(s, ls, os, xs[m], acc[m - 1])
  <2>1. m \in Nat /\ m \in 0..n /\ m - 1 \in 0..n /\ m \in 1..m
    OBVIOUS
  <2>2. 1..m \in SUBSET (1..n) /\ 1..m # {} /\ (1..m) \ {m} = 1..(m - 1)
    <3>1. \A i \in 1..m : i \in 1..n
      OBVIOUS
    <3>2. \A i : i \in (1..m) \ {m} <=> i \in 1..(m - 1)
      BY <2>1
    <3>3. (1..m) \ {m} = 1..(m - 1)
      BY <3>2
    <3>4. QED
      BY <2>1, <3>1, <3>3
  <2>3. Max(1..m) = m
    BY <2>1, MaxIs
  <2>4. it[1..m] = Step(s, ls, os, xs[m], it[1..(m - 1)])
    BY <1>2, <2>2, <2>3 DEF FoldOf
  <2>5. QED
    BY <2>1, <2>4
<1>6. n \in 0..n /\ acc[n] = it[1..n]
  OBVIOUS
<1> HIDE DEF acc
<1>7. QED
  BY <1>1, <1>4, <1>5, <1>6 DEF Run

Nothing == [run |-> NoRun, best |-> <<>>]

\* The readers are such folds.
LEMMA ReadersFold ==
    ASSUME NEW n \in Nat, NEW lines, DOMAIN lines = 1..n
    PROVE  /\ FoldLeft(ReadLine, Nothing, lines)
                = TheFold("menu", <<>>, <<>>, Nothing, lines, n)[1..n]
           /\ FoldLeft(AddBullet, <<>>, lines)
                = TheFold("bullets", <<>>, <<>>, <<>>, lines, n)[1..n]
           /\ Cleaned(lines) = TheFold("cleaned", <<>>, <<>>, <<>>, lines, n)[1..n]
<1>1. FoldLeft(ReadLine, Nothing, lines) = TheFold("menu", <<>>, <<>>, Nothing, lines, n)[1..n]
  BY DEF FoldLeft, MapThenFoldSet, TheFold, FoldOf, Step
<1>2. FoldLeft(AddBullet, <<>>, lines) = TheFold("bullets", <<>>, <<>>, <<>>, lines, n)[1..n]
  BY DEF FoldLeft, MapThenFoldSet, TheFold, FoldOf, Step
<1>3. Cleaned(lines) = TheFold("cleaned", <<>>, <<>>, <<>>, lines, n)[1..n]
  BY DEF FoldLeft, MapThenFoldSet, TheFold, FoldOf, Step, Cleaned
<1>4. QED
  BY <1>1, <1>2, <1>3

\* So is the walk upward.
LEMMA UpwardFold ==
    ASSUME NEW n \in Nat, NEW xs, DOMAIN xs = 1..n, NEW lines, NEW options, NEW base
    PROVE  FoldLeft(LAMBDA a, i : Upward(lines, options, a, i), base, xs)
             = TheFold("upward", lines, options, base, xs, n)[1..n]
  BY DEF FoldLeft, MapThenFoldSet, TheFold, FoldOf, Step

-----------------------------------------------------------------------------
(* numbered_menu: what a line does to what was read.                        *)

RunType == [rows: Seq(Seq(STRING)), col: Nat, selectable: BOOLEAN]
Read == [run: RunType, best: Seq(Seq(STRING))]

\* The ways a line changes what was read: it begins a run, is its next row, goes on
\* with its last label, or ends it.
Begins(acc, line, r) ==
    /\ r.run.rows = <<line.says>> /\ r.run.col = line.col
    /\ r.run.selectable <=> ~line.boxed \/ line.cursor
    /\ r.best = acc.best

Follows(acc, line, r) ==
    /\ r.run.rows = Append(acc.run.rows, line.says) /\ r.run.col = acc.run.col
    /\ r.run.selectable <=> acc.run.selectable \/ line.cursor
    /\ r.best = IF r.run.selectable THEN r.run.rows ELSE acc.best

Continues(acc, line, r) ==
    /\ r.run.rows = [acc.run.rows EXCEPT ![Len(acc.run.rows)] = @ \o line.says]
    /\ r.run.col = acc.run.col
    /\ r.run.selectable <=> acc.run.selectable
    /\ r.best = IF Len(acc.run.rows) >= 2 /\ r.run.selectable THEN r.run.rows ELSE acc.best

Ends(acc, r) == r.run = NoRun /\ r.best = acc.best

\* No run is a run without rows.
LEMMA NoRunIs == NoRun \in RunType /\ NoRun.rows = <<>> /\ ~Complete(NoRun)
<1>1. NoRun \in RunType /\ NoRun.rows = <<>>
  BY DEF NoRun, RunType
<1>2. QED
  BY <1>1 DEF Complete

\* What reading to a run gives.
LEMMA ToRun ==
    ASSUME NEW acc \in Read, NEW run \in RunType, NEW r,
           r = [run |-> run, best |-> Kept(acc.best, run)]
    PROVE  r \in Read /\ r.run = run /\ r.best = Kept(acc.best, run)
<1>1. Kept(acc.best, run) \in Seq(Seq(STRING))
  BY DEF Kept, Read, RunType
<1>2. QED
  BY <1>1 DEF Read

\* A row numbered one begins a run.
LEMMA BeginsRun ==
    ASSUME NEW acc \in Read, NEW line \in Line, line.kind = "row", ~Inside(acc.run, line),
           line.n = 1, NEW r, r = ReadLine(acc, line)
    PROVE  r \in Read /\ Begins(acc, line, r)
<1>1. PICK b \in BOOLEAN : b = (~line.boxed \/ line.cursor)
  BY Zenon
<1>2. PICK says : says = line.says /\ says \in Seq(STRING)
  BY DEF Line
<1>3. PICK run : run = [rows |-> <<says>>, col |-> line.col, selectable |-> b]
  OBVIOUS
<1>4. run \in RunType /\ run.rows = <<says>> /\ run.col = line.col /\ run.selectable = b
  BY <1>2, <1>3 DEF RunType, Line
<1>5. RunWith(acc.run, line) = run
  BY <1>1, <1>2, <1>3, Zenon DEF RunWith, Selectable
<1>6. r = [run |-> run, best |-> Kept(acc.best, run)]
  BY <1>5 DEF ReadLine
<1>7. r \in Read /\ r.run = run /\ r.best = Kept(acc.best, run)
  BY <1>4, <1>6, ToRun
<1>8. ~Complete(run)
  BY <1>4 DEF Complete
<1>9. r.best = acc.best
  BY <1>7, <1>8 DEF Kept
<1>10. r.run.selectable <=> ~line.boxed \/ line.cursor
  BY <1>1, <1>4, <1>7, Zenon
<1>11. QED
  BY <1>2, <1>4, <1>7, <1>9, <1>10 DEF Begins

\* The row with the next number follows.
LEMMA FollowsRun ==
    ASSUME NEW acc \in Read, NEW line \in Line, line.kind = "row", ~Inside(acc.run, line),
           line.n # 1, acc.run.rows # <<>>, line.n = Len(acc.run.rows) + 1,
           NEW r, r = ReadLine(acc, line)
    PROVE  r \in Read /\ Follows(acc, line, r)
<1>1. PICK old \in RunType : old = acc.run
  BY DEF Read
<1>2. PICK b \in BOOLEAN : b = (old.selectable \/ line.cursor)
  BY Zenon
<1>3. PICK rows : rows = Append(old.rows, line.says)
  OBVIOUS
<1>4. rows \in Seq(Seq(STRING)) /\ Len(rows) = Len(old.rows) + 1 /\ Len(old.rows) \in Nat \ {0}
  BY <1>1, <1>3 DEF RunType, Line
<1>5. PICK run : run = [old EXCEPT !.rows = rows, !.selectable = b]
  OBVIOUS
<1>6. run \in RunType /\ run.rows = rows /\ run.col = old.col /\ run.selectable = b
  BY <1>4, <1>5 DEF RunType
<1>7. RunWith(acc.run, line) = Joins(old, line)
  BY <1>1 DEF RunWith
<1>8. Joins(old, line) = run
  BY <1>2, <1>3, <1>5, Zenon DEF Joins
<1>9. r = [run |-> run, best |-> Kept(acc.best, run)]
  BY <1>7, <1>8 DEF ReadLine
<1>10. r \in Read /\ r.run = run /\ r.best = Kept(acc.best, run)
  BY <1>6, <1>9, ToRun
<1>11. r.best = IF r.run.selectable THEN r.run.rows ELSE acc.best
  BY <1>4, <1>6, <1>10 DEF Kept, Complete
<1>12. r.run.selectable <=> acc.run.selectable \/ line.cursor
  BY <1>1, <1>2, <1>6, <1>10, Zenon
<1>13. QED
  BY <1>1, <1>3, <1>6, <1>10, <1>11, <1>12 DEF Follows

\* A deeper line goes on with the last label, even when it reads like a row.
LEMMA ContinuesRun ==
    ASSUME NEW acc \in Read, NEW line \in Line, line.kind = "row" => Inside(acc.run, line),
           GoesOn(line, acc.run.col), Indent(line) > acc.run.col, acc.run.rows # <<>>,
           NEW r, r = ReadLine(acc, line)
    PROVE  r \in Read /\ Continues(acc, line, r)
<1>1. PICK old \in RunType : old = acc.run
  BY DEF Read
<1>2. PICK n \in Nat \ {0} : n = Len(old.rows)
  BY <1>1 DEF RunType
<1>3. PICK rows : rows = [old.rows EXCEPT ![n] = @ \o line.says]
  OBVIOUS
<1>4. rows \in Seq(Seq(STRING)) /\ Len(rows) = n
  <2>1. old.rows \in Seq(Seq(STRING)) /\ n \in 1..Len(old.rows) /\ line.says \in Seq(STRING)
    BY <1>2 DEF RunType, Line
  <2>2. old.rows[n] \o line.says \in Seq(STRING)
    BY <2>1, ConcatProperties
  <2>3. QED
    BY <1>2, <1>3, <2>1, <2>2
<1>5. PICK run : run = [old EXCEPT !.rows = rows]
  OBVIOUS
<1>6. run \in RunType /\ run.rows = rows /\ run.col = old.col /\ run.selectable = old.selectable
  BY <1>4, <1>5 DEF RunType
<1>7. [acc.run EXCEPT !.rows[Len(acc.run.rows)] = @ \o line.says] = run
  BY <1>1, <1>2, <1>3, <1>5
<1>8. r = [run |-> run, best |-> Kept(acc.best, run)]
  <2>1. ~(line.kind = "row" /\ ~Inside(acc.run, line))
    OBVIOUS
  <2>2. line.kind \notin {"blank", "rule", "edge", "footer"}
    BY DEF GoesOn
  <2>3. QED
    BY <1>7, <2>1, <2>2 DEF ReadLine, IsRule
<1>9. r \in Read /\ r.run = run /\ r.best = Kept(acc.best, run)
  BY <1>6, <1>8, ToRun
<1>10. r.best = IF n >= 2 /\ r.run.selectable THEN r.run.rows ELSE acc.best
  BY <1>4, <1>6, <1>9 DEF Kept, Complete
<1>11. QED
  BY <1>1, <1>2, <1>3, <1>6, <1>9, <1>10 DEF Continues

\* A blank line or a rule leaves a run as it is.
LEMMA StaysRun ==
    ASSUME NEW acc \in Read, NEW line, line.kind = "blank" \/ IsRule(line),
           line.kind = "blank" \/ acc.run.rows # <<>>
    PROVE  ReadLine(acc, line) = acc
<1>1. line.kind # "row"
  BY DEF IsRule
<1>2. QED
  BY <1>1 DEF ReadLine

\* Any other line ends it.
LEMMA EndsRun ==
    ASSUME NEW acc \in Read, NEW line, line.kind # "blank",
           line.kind = "row" => Inside(acc.run, line),
           IsRule(line) => acc.run.rows = <<>>,
           acc.run.rows = <<>> \/ line.kind = "footer" \/ ~(Indent(line) > acc.run.col),
           NEW r, r = ReadLine(acc, line)
    PROVE  r \in Read /\ Ends(acc, r)
<1>1. r = [acc EXCEPT !.run = NoRun]
  BY DEF ReadLine
<1>2. QED
  BY <1>1, NoRunIs DEF Read, Ends

\* So does a row out of turn.
LEMMA BreaksRun ==
    ASSUME NEW acc \in Read, NEW line, line.kind = "row", ~Inside(acc.run, line), line.n # 1,
           ~(acc.run.rows # <<>> /\ line.n = Len(acc.run.rows) + 1),
           NEW r, r = ReadLine(acc, line)
    PROVE  r \in Read /\ Ends(acc, r)
<1>1. RunWith(acc.run, line) = NoRun
  BY DEF RunWith
<1>2. r = [run |-> NoRun, best |-> Kept(acc.best, NoRun)]
  BY <1>1 DEF ReadLine
<1>3. Kept(acc.best, NoRun) = acc.best
  BY NoRunIs DEF Kept
<1>4. QED
  BY <1>2, <1>3, NoRunIs DEF Read, Ends

\* Whatever is read stays a run and a menu.
LEMMA ReadsOn ==
    ASSUME NEW acc \in Read, NEW line \in Line
    PROVE  ReadLine(acc, line) \in Read
<1>1. PICK r : r = ReadLine(acc, line)
  OBVIOUS
<1>2. CASE line.kind = "row" /\ ~Inside(acc.run, line)
  <2>1. CASE line.n = 1
    BY <1>1, <1>2, <2>1, BeginsRun
  <2>2. CASE line.n # 1 /\ acc.run.rows # <<>> /\ line.n = Len(acc.run.rows) + 1
    BY <1>1, <1>2, <2>2, FollowsRun
  <2>3. CASE line.n # 1 /\ ~(acc.run.rows # <<>> /\ line.n = Len(acc.run.rows) + 1)
    BY <1>1, <1>2, <2>3, BreaksRun
  <2>4. QED
    BY <2>1, <2>2, <2>3
<1>3. CASE (line.kind = "blank" \/ IsRule(line)) /\ (line.kind = "blank" \/ acc.run.rows # <<>>)
  BY <1>3, StaysRun
<1>4. CASE /\ line.kind = "row" => Inside(acc.run, line)
           /\ line.kind # "blank" /\ (IsRule(line) => acc.run.rows = <<>>)
  <2>1. CASE acc.run.rows = <<>> \/ line.kind = "footer" \/ ~(Indent(line) > acc.run.col)
    BY <1>1, <1>4, <2>1, EndsRun
  <2>2. CASE acc.run.rows # <<>> /\ line.kind # "footer" /\ Indent(line) > acc.run.col
    <3>1. line.col \in Nat /\ acc.run.col \in Nat
      BY DEF Line, Read, RunType
    <3>2. GoesOn(line, acc.run.col)
      BY <1>4, <2>2, <3>1 DEF GoesOn, Indent, IsRule
    <3>3. QED
      BY <1>1, <1>4, <2>2, <3>2, ContinuesRun
  <2>3. QED
    BY <2>1, <2>2
<1>5. QED
  BY <1>2, <1>3, <1>4

-----------------------------------------------------------------------------
(* A dialog under a transcript.                                             *)

\* line is drawn like of, but for the cursor.
Alike(line, of) ==
    /\ line.kind = of.kind /\ line.n = of.n /\ line.col = of.col
    /\ line.hint = of.hint /\ line.says = of.says /\ line.boxed = of.boxed

\* lines are those of ls and, under them, those of d with its cursor on row p.
Shows(lines, ls, d, p) ==
    /\ Len(ls) \in Nat /\ Len(d.lines) \in Nat
    /\ DOMAIN lines = 1..(Len(ls) + Len(d.lines))
    /\ \A i \in DOMAIN lines : lines[i] \in Line
    /\ \A i \in 1..Len(ls) : lines[i] = ls[i]
    /\ \A i \in 1..Len(d.lines) : Alike(lines[Len(ls) + i], d.lines[i])
    /\ \A i \in 1..Len(d.lines) :
          lines[Len(ls) + i].cursor <=> p \in DOMAIN d.at /\ d.at[p] = i

\* A line of either part, by its place on the screen.
LEMMA ShownLines ==
    ASSUME NEW lines, NEW ls, NEW d, NEW p, Shows(lines, ls, d, p),
           NEW x \in DOMAIN lines
    PROVE  \/ x \in 1..Len(ls) /\ lines[x] = ls[x]
           \/ \E i \in 1..Len(d.lines) : x = Len(ls) + i
<1>1. Len(ls) \in Nat /\ Len(d.lines) \in Nat /\ x \in 1..(Len(ls) + Len(d.lines))
  BY DEF Shows
<1>2. CASE x <= Len(ls)
  BY <1>1, <1>2 DEF Shows
<1>3. CASE x > Len(ls)
  <2>1. x - Len(ls) \in 1..Len(d.lines) /\ x = Len(ls) + (x - Len(ls))
    BY <1>1, <1>3
  <2>2. QED
    BY <2>1
<1>4. QED
  BY <1>1, <1>2, <1>3

\* How a line of the dialog looks, with a cursor or without.
LEMMA DrawnLine ==
    ASSUME NEW line \in Line, NEW c \in BOOLEAN, NEW drawn,
           drawn = [line EXCEPT !.cursor = c]
    PROVE  /\ drawn \in Line /\ drawn.kind = line.kind /\ drawn.n = line.n
           /\ drawn.col = line.col /\ drawn.hint = line.hint /\ drawn.says = line.says
           /\ drawn.boxed = line.boxed /\ drawn.cursor = c
  BY DEF Line

\* The screen is such lines.
LEMMA ScreenShows ==
    ASSUME NEW ls \in Seq(Line), NEW d \in Dialog, NEW p, NEW lines,
           lines = ls \o Drawn(d, p)
    PROVE  Shows(lines, ls, d, p) /\ lines \in Seq(Line)
<1>1. d.lines \in Seq(Line)
  BY DEF Dialog
<1>2. PICK n \in Nat : n = Len(d.lines) /\ DOMAIN d.lines = 1..n
  BY <1>1
<1>3. PICK m \in Nat : m = Len(ls) /\ DOMAIN ls = 1..m
  OBVIOUS
<1>4. PICK drawn : drawn = Drawn(d, p)
  OBVIOUS
<1>5. ASSUME NEW i \in 1..n
      PROVE  /\ drawn[i] \in Line /\ Alike(drawn[i], d.lines[i])
             /\ drawn[i].cursor <=> p \in DOMAIN d.at /\ d.at[p] = i
  <2>1. PICK c \in BOOLEAN : c = (p \in DOMAIN d.at /\ d.at[p] = i)
    BY Zenon
  <2>2. PICK line \in Line : line = d.lines[i]
    BY <1>1, <1>2
  <2>3. drawn[i] = [line EXCEPT !.cursor = c]
    BY <1>2, <1>4, <2>1, <2>2, Zenon DEF Drawn
  <2>4. /\ drawn[i] \in Line /\ drawn[i].kind = line.kind /\ drawn[i].n = line.n
        /\ drawn[i].col = line.col /\ drawn[i].hint = line.hint /\ drawn[i].says = line.says
        /\ drawn[i].boxed = line.boxed /\ drawn[i].cursor = c
    BY <2>3, DrawnLine
  <2>5. drawn[i].cursor <=> p \in DOMAIN d.at /\ d.at[p] = i
    BY <2>1, <2>4, Zenon
  <2>6. QED
    BY <2>2, <2>4, <2>5 DEF Alike
<1>6. drawn \in Seq(Line) /\ Len(drawn) = n
  <2>1. DOMAIN drawn = 1..n /\ drawn = [i \in 1..n |-> drawn[i]]
    BY <1>2, <1>4 DEF Drawn
  <2>2. drawn \in [1..n -> Line]
    BY <1>5, <2>1
  <2>3. drawn \in Seq(Line)
    BY <2>2, SeqDef
  <2>4. QED
    BY <2>1, <2>3, LenProperties
<1>7. lines \in Seq(Line) /\ Len(lines) = m + n
  BY <1>3, <1>4, <1>6, ConcatProperties
<1>8. \A i \in 1..m : lines[i] = ls[i]
  BY <1>3, <1>4, <1>6
<1>9. \A i \in 1..n : lines[m + i] = drawn[i]
  BY <1>3, <1>4, <1>6
<1>10. \A i \in DOMAIN lines : lines[i] \in Line
  BY <1>7
<1>11. DOMAIN lines = 1..(m + n)
  BY <1>7
<1>12. \A i \in 1..n : Alike(lines[m + i], d.lines[i])
  BY <1>5, <1>9
<1>13. \A i \in 1..n : lines[m + i].cursor <=> p \in DOMAIN d.at /\ d.at[p] = i
  <2>1. SUFFICES ASSUME NEW i \in 1..n
                 PROVE  lines[m + i].cursor <=> p \in DOMAIN d.at /\ d.at[p] = i
    BY Zenon
  <2>2. lines[m + i] = drawn[i]
    BY <1>9
  <2>3. QED
    BY <1>5, <2>2, Zenon
<1>14. QED
  BY <1>2, <1>3, <1>7, <1>8, <1>10, <1>11, <1>12, <1>13, Zenon DEF Shows

-----------------------------------------------------------------------------
(* A menu is read as it is drawn.                                           *)

\* acc is what is read of a screen, line by line.
Reads(lines, ls, d, p, acc) ==
    /\ Shows(lines, ls, d, p)
    /\ Run("menu", <<>>, <<>>, Nothing, lines, Len(ls) + Len(d.lines), acc)

\* One line after the other.
LEMMA ReadsStep ==
    ASSUME NEW lines, NEW ls, NEW d, NEW p, NEW acc, Reads(lines, ls, d, p, acc)
    PROVE  /\ acc[0] = Nothing
           /\ \A m \in 1..(Len(ls) + Len(d.lines)) : acc[m] = ReadLine(acc[m - 1], lines[m])
           /\ \A m \in 0..(Len(ls) + Len(d.lines)) : acc[m] \in Read
<1>1. PICK n \in Nat : n = Len(ls) + Len(d.lines)
  BY DEF Reads, Shows
<1>2. acc[0] = Nothing /\ \A m \in 1..n : acc[m] = ReadLine(acc[m - 1], lines[m])
  BY <1>1 DEF Reads, Run, Step
<1>3. \A m \in 1..n : lines[m] \in Line
  BY <1>1 DEF Reads, Shows
<1> DEFINE T == {m \in 0..n : acc[m] \in Read}
<1>4. 0 \in T
  <2>1. Nothing.run = NoRun /\ Nothing.best = <<>> /\ Nothing = [run |-> NoRun, best |-> <<>>]
    BY DEF Nothing
  <2>2. <<>> \in Seq(Seq(STRING))
    OBVIOUS
  <2>3. Nothing \in Read
    BY <2>1, <2>2, NoRunIs DEF Read
  <2>4. QED
    BY <1>2, <2>3
<1>5. ASSUME NEW m \in 1..n, m - 1 \in T PROVE m \in T
  <2>1. acc[m - 1] \in Read /\ lines[m] \in Line /\ acc[m] = ReadLine(acc[m - 1], lines[m])
    BY <1>2, <1>3, <1>5
  <2>2. QED
    BY <2>1, ReadsOn
<1> HIDE DEF T
<1>6. \A m \in 0..n : m \in T
  BY <1>4, <1>5, Upwards
<1>7. QED
  BY <1>1, <1>2, <1>6 DEF T

\* A run has the column of a row, and only a row begins one.
LEMMA ReadsColumn ==
    ASSUME NEW acc \in Read, NEW line \in Line, NEW r, r = ReadLine(acc, line)
    PROVE  /\ r.run.rows # <<>> =>
                 \/ acc.run.rows # <<>> /\ r.run.col = acc.run.col
                 \/ line.kind = "row" /\ r.run.col = line.col
           /\ line.kind # "row" /\ acc.run.rows = <<>> => r.run.rows = <<>> /\ r.best = acc.best
<1>1. CASE line.kind = "row" /\ ~Inside(acc.run, line)
  <2>1. CASE line.n = 1
    BY <1>1, <2>1, BeginsRun DEF Begins
  <2>2. CASE line.n # 1 /\ acc.run.rows # <<>> /\ line.n = Len(acc.run.rows) + 1
    BY <1>1, <2>2, FollowsRun DEF Follows
  <2>3. CASE line.n # 1 /\ ~(acc.run.rows # <<>> /\ line.n = Len(acc.run.rows) + 1)
    BY <1>1, <2>3, BreaksRun, NoRunIs DEF Ends
  <2>4. QED
    BY <2>1, <2>2, <2>3
<1>2. CASE (line.kind = "blank" \/ IsRule(line)) /\ (line.kind = "blank" \/ acc.run.rows # <<>>)
  BY <1>2, StaysRun
<1>3. CASE /\ line.kind = "row" => Inside(acc.run, line)
           /\ line.kind # "blank" /\ (IsRule(line) => acc.run.rows = <<>>)
  <2>1. CASE acc.run.rows = <<>> \/ line.kind = "footer" \/ ~(Indent(line) > acc.run.col)
    BY <1>3, <2>1, EndsRun, NoRunIs DEF Ends
  <2>2. CASE acc.run.rows # <<>> /\ line.kind # "footer" /\ Indent(line) > acc.run.col
    <3>1. line.col \in Nat /\ acc.run.col \in Nat
      BY DEF Line, Read, RunType
    <3>2. GoesOn(line, acc.run.col)
      BY <1>3, <2>2, <3>1 DEF GoesOn, Indent, IsRule
    <3>3. Continues(acc, line, r)
      BY <1>3, <2>2, <3>2, ContinuesRun
    <3>4. QED
      BY <2>2, <3>3 DEF Continues
  <2>3. QED
    BY <2>1, <2>2
<1>4. QED
  BY <1>1, <1>2, <1>3

\* Down to a dialog's first row f, a run's column is that of a printed row.
LEMMA PrintedColumn ==
    ASSUME NEW lines, NEW ls, NEW d, NEW p, NEW acc, Reads(lines, ls, d, p, acc),
           NEW f \in 1..Len(d.lines), \A i \in 1..(f - 1) : d.lines[i].kind # "row",
           NEW m \in 0..(Len(ls) + f - 1), acc[m].run.rows # <<>>
    PROVE  \E k \in 1..Len(ls) : ls[k].kind = "row" /\ ls[k].col = acc[m].run.col
<1>1. PICK L \in Nat : L = Len(ls)
  BY DEF Reads, Shows
<1>2. PICK D \in Nat : D = Len(d.lines) /\ DOMAIN lines = 1..(L + D)
  BY <1>1 DEF Reads, Shows
<1>3. PICK n \in Nat : n = L + f - 1 /\ n <= L + D
  BY <1>1, <1>2
<1>4. /\ acc[0] = Nothing
      /\ \A x \in 1..n : acc[x] = ReadLine(acc[x - 1], lines[x])
      /\ \A x \in 0..n : acc[x] \in Read
  <2>1. /\ acc[0] = Nothing
        /\ \A x \in 1..(L + D) : acc[x] = ReadLine(acc[x - 1], lines[x])
        /\ \A x \in 0..(L + D) : acc[x] \in Read
    <3>1. Len(ls) + Len(d.lines) = L + D
      BY <1>1, <1>2
    <3>2. QED
      BY <3>1, ReadsStep
  <2>2. QED
    BY <1>3, <2>1
<1> DEFINE Of(x) == \E k \in 1..L : ls[k].kind = "row" /\ ls[k].col = acc[x].run.col
<1> DEFINE T == {x \in 0..n : acc[x].run.rows = <<>> \/ Of(x)}
<1>5. 0 \in T
  BY <1>4, NoRunIs DEF Nothing
<1>6. ASSUME NEW x \in 1..n, x - 1 \in T PROVE x \in T
  <2>1. SUFFICES ASSUME acc[x].run.rows # <<>> PROVE Of(x)
    OBVIOUS
  <2>2. acc[x - 1] \in Read /\ lines[x] \in Line /\ acc[x] = ReadLine(acc[x - 1], lines[x])
    <3>1. x - 1 \in 0..n /\ x \in 1..(L + D)
      BY <1>3
    <3>2. \A i \in DOMAIN lines : lines[i] \in Line
      BY Zenon DEF Reads, Shows
    <3>3. lines[x] \in Line
      BY <1>2, <3>1, <3>2, Zenon
    <3>4. QED
      BY <1>4, <3>1, <3>3, Zenon
  <2>3. \/ acc[x - 1].run.rows # <<>> /\ acc[x].run.col = acc[x - 1].run.col
        \/ lines[x].kind = "row" /\ acc[x].run.col = lines[x].col
    BY <2>1, <2>2, ReadsColumn
  <2>4. CASE acc[x - 1].run.rows # <<>> /\ acc[x].run.col = acc[x - 1].run.col
    <3>1. PICK k \in 1..L : ls[k].kind = "row" /\ ls[k].col = acc[x - 1].run.col
      BY <1>6, <2>4
    <3>2. QED
      BY <2>4, <3>1
  <2>5. CASE lines[x].kind = "row" /\ acc[x].run.col = lines[x].col
    <3>1. CASE x <= L
      <4>1. x \in 1..L /\ lines[x] = ls[x]
        BY <1>1, <3>1 DEF Reads, Shows
      <4>2. QED
        BY <2>5, <4>1
    <3>2. CASE x > L
      <4>1. PICK i \in 1..(f - 1) : x = L + i
        <5>1. x - L \in 1..(f - 1) /\ x = L + (x - L)
          BY <1>3, <3>2
        <5>2. QED
          BY <5>1
      <4>2. i \in 1..D
        BY <1>2
      <4>3. Alike(lines[x], d.lines[i])
        BY <1>1, <1>2, <4>1, <4>2 DEF Reads, Shows
      <4>4. QED
        BY <2>5, <4>3 DEF Alike
    <3>3. QED
      BY <3>1, <3>2
  <2>6. QED
    BY <2>3, <2>4, <2>5
<1> HIDE DEF T
<1>7. \A x \in 0..n : x \in T
  BY <1>5, <1>6, Upwards
<1>8. m \in T
  BY <1>1, <1>3, <1>7
<1>9. QED
  BY <1>1, <1>8 DEF T

\* No printed row is further left than the whole dialog.
NoneIsLeft(ls, d) ==
    \A k \in 1..Len(ls) :
        ls[k].kind = "row" =>
            \E i \in 1..Len(d.lines) : d.lines[i].kind # "edge" /\ ls[k].col >= d.lines[i].col

\* f is the first row of d, under a line that is no deeper than any.
HeadDrawn(d, f) ==
    /\ f \in 1..Len(d.lines) /\ \A i \in 1..(f - 1) : d.lines[i].kind # "row"
    /\ \E i \in 1..f :
          /\ d.lines[i].kind # "blank" /\ ~IsRule(d.lines[i])
          /\ \A j \in 1..Len(d.lines) :
                d.lines[j].kind # "edge" => d.lines[i].col <= d.lines[j].col

\* A line that is no deeper than a run, and no row, ends it.
LEMMA ShallowEnds ==
    ASSUME NEW acc \in Read, NEW line \in Line, line.kind # "row", line.kind # "blank",
           ~IsRule(line), line.col <= acc.run.col, NEW r, r = ReadLine(acc, line)
    PROVE  Ends(acc, r)
<1>1. line.col \in Nat /\ acc.run.col \in Nat
  BY DEF Line, Read, RunType
<1>2. ~(Indent(line) > acc.run.col)
  BY <1>1 DEF Indent
<1>3. QED
  BY <1>2, EndsRun

\* So what was read of the transcript does not swallow the first row.
LEMMA FirstRowIsOne ==
    ASSUME NEW lines, NEW ls, NEW d \in Dialog, NEW p, NEW acc, Reads(lines, ls, d, p, acc),
           NEW f, HeadDrawn(d, f), d.lines[f].kind = "row",
           NoneIsLeft(ls, d)
    PROVE  ~Inside(acc[Len(ls) + f - 1].run, lines[Len(ls) + f])
<1>1. PICK L \in Nat : L = Len(ls)
  BY DEF Reads, Shows
<1>2. PICK D \in Nat : D = Len(d.lines) /\ DOMAIN lines = 1..(L + D)
  BY <1>1 DEF Reads, Shows
<1>3. f \in 1..D /\ \A i \in 1..(f - 1) : d.lines[i].kind # "row"
  BY <1>2 DEF HeadDrawn
<1>4. PICK h \in 1..f : /\ d.lines[h].kind # "blank" /\ ~IsRule(d.lines[h])
                        /\ \A j \in 1..D :
                              d.lines[j].kind # "edge" => d.lines[h].col <= d.lines[j].col
  BY <1>2 DEF HeadDrawn
<1>5. \A i \in 1..D : d.lines[i].col \in Nat
  <2>1. \A i \in 1..D : d.lines[i] \in Line
    BY <1>2 DEF Dialog
  <2>2. QED
    BY <2>1 DEF Line
<1>6. /\ \A x \in 1..(L + D) : acc[x] = ReadLine(acc[x - 1], lines[x])
      /\ \A x \in 0..(L + D) : acc[x] \in Read
  <2>1. Len(ls) + Len(d.lines) = L + D
    BY <1>1, <1>2
  <2>2. QED
    BY <2>1, ReadsStep
<1>7. ASSUME NEW m \in 0..(L + f - 1), acc[m].run.rows # <<>>
      PROVE  acc[m].run.col >= d.lines[h].col
  <2>1. \A i \in 1..(f - 1) : d.lines[i].kind # "row"
    BY <1>3
  <2>2. PICK k \in 1..L : ls[k].kind = "row" /\ ls[k].col = acc[m].run.col
    <3>1. f \in 1..Len(d.lines) /\ m \in 0..(Len(ls) + f - 1)
      BY <1>1, <1>2, <1>3
    <3>2. \E k \in 1..Len(ls) : ls[k].kind = "row" /\ ls[k].col = acc[m].run.col
      BY <1>7, <2>1, <3>1, PrintedColumn
    <3>3. QED
      BY <1>1, <3>2, Zenon
  <2>3. PICK i \in 1..D : d.lines[i].kind # "edge" /\ ls[k].col >= d.lines[i].col
    BY <1>1, <1>2, <2>2 DEF NoneIsLeft
  <2>4. d.lines[h].col <= d.lines[i].col
    BY <1>4, <2>3
  <2>5. h \in 1..D /\ acc[m].run.col \in Nat
    BY <1>3, <2>2, <1>6 DEF Read, RunType
  <2>6. ls[k].col \in Nat /\ d.lines[i].col \in Nat /\ d.lines[h].col \in Nat
    BY <1>5, <2>2, <2>3, <2>5 DEF Line
  <2>7. QED
    BY <2>2, <2>3, <2>4, <2>6
<1>8. \A i \in 1..D : Alike(lines[L + i], d.lines[i]) /\ lines[L + i] \in Line
  BY <1>1, <1>2 DEF Reads, Shows
<1>9. CASE h = f
  <2>1. CASE acc[L + f - 1].run.rows = <<>>
    BY <1>1, <2>1 DEF Inside
  <2>2. CASE acc[L + f - 1].run.rows # <<>>
    <3>1. PICK m \in 0..(L + f - 1) : m = L + f - 1
      BY <1>3
    <3>2. acc[m].run.col >= d.lines[h].col
      BY <1>7, <2>2, <3>1
    <3>3. lines[L + f].col = d.lines[h].col /\ d.lines[h].col \in Nat
      BY <1>3, <1>5, <1>8, <1>9 DEF Alike
    <3>4. acc[m] \in Read
      BY <1>3, <1>6, <3>1
    <3>5. acc[m].run.col \in Nat
      BY <3>4 DEF Read, RunType
    <3>6. QED
      BY <1>1, <3>1, <3>2, <3>3, <3>5 DEF Inside
  <2>3. QED
    BY <2>1, <2>2
<1>10. CASE h < f
  <2>1. PICK n \in Nat : n = f - 1 - h
    BY <1>3, <1>10
  <2> DEFINE T == {x \in 0..n : acc[L + h + x].run.rows = <<>>}
  <2>2. 0 \in T
    <3>1. acc[L + h] = ReadLine(acc[L + h - 1], lines[L + h]) /\ acc[L + h - 1] \in Read
      BY <1>3, <1>6
    <3>2. lines[L + h] \in Line /\ Alike(lines[L + h], d.lines[h]) /\ h \in 1..(f - 1)
      BY <1>3, <1>8, <1>10
    <3>3. CASE acc[L + h - 1].run.rows = <<>>
      <4>1. lines[L + h].kind # "row"
        BY <1>3, <3>2 DEF Alike
      <4>2. acc[L + h].run.rows = <<>>
        BY <3>1, <3>2, <3>3, <4>1, ReadsColumn
      <4>3. QED
        BY <4>2
    <3>4. CASE acc[L + h - 1].run.rows # <<>>
      <4>1. PICK m \in 0..(L + f - 1) : m = L + h - 1
        BY <1>3
      <4>2. acc[m].run.col >= d.lines[h].col
        BY <1>7, <3>4, <4>1
      <4>3. h \in 1..D /\ d.lines[h].col \in Nat
        BY <1>3, <1>5
      <4>4. /\ lines[L + h].kind # "row" /\ lines[L + h].kind # "blank"
            /\ ~IsRule(lines[L + h]) /\ lines[L + h].col = d.lines[h].col
        BY <1>3, <1>4, <3>2 DEF Alike, IsRule
      <4>5. acc[m].run.col \in Nat
        BY <3>1, <4>1 DEF Read, RunType
      <4>6. lines[L + h].col <= acc[m].run.col
        BY <4>2, <4>3, <4>4, <4>5
      <4>7. Ends(acc[m], acc[L + h])
        BY <3>1, <3>2, <4>1, <4>4, <4>6, ShallowEnds
      <4>8. QED
        BY <4>7, NoRunIs DEF Ends
    <3>5. QED
      BY <3>3, <3>4
  <2>3. ASSUME NEW x \in 1..n, x - 1 \in T PROVE x \in T
    <3>1. PICK i \in 1..(f - 1) : i = h + x
      BY <1>3, <2>1
    <3>2. lines[L + i] \in Line /\ Alike(lines[L + i], d.lines[i]) /\ d.lines[i].kind # "row"
      BY <1>3, <1>8, <3>1
    <3>3. acc[L + i] = ReadLine(acc[L + i - 1], lines[L + i]) /\ acc[L + i - 1] \in Read
      BY <1>3, <1>6, <3>1
    <3>4. acc[L + i - 1].run.rows = <<>>
      <4>1. L + i - 1 = L + h + (x - 1)
        BY <3>1
      <4>2. QED
        BY <2>3, <4>1
    <3>5. acc[L + i].run.rows = <<>>
      <4>1. lines[L + i].kind # "row"
        BY <3>2 DEF Alike
      <4>2. QED
        BY <3>2, <3>3, <3>4, <4>1, ReadsColumn
    <3>6. L + i = L + h + x
      BY <3>1
    <3>7. QED
      BY <3>5, <3>6
  <2> HIDE DEF T
  <2>4. n \in T
    BY <2>1, <2>2, <2>3, Upwards
  <2>5. L + h + n = L + f - 1
    BY <1>3, <2>1
  <2>6. acc[L + f - 1].run.rows = <<>>
    BY <2>4, <2>5 DEF T
  <2>7. QED
    BY <1>1, <2>6 DEF Inside
<1>11. QED
  BY <1>3, <1>9, <1>10

\* The rows of a menu: how many, and where.
MenuRows(d, n, c) ==
    /\ n \in Nat /\ n >= 2 /\ DOMAIN d.at = 1..n /\ DOMAIN d.rows = 1..n
    /\ c = d.lines[d.at[1]].col
    /\ \A k \in 1..n : d.at[k] \in 1..Len(d.lines) /\ d.rows[k].n = k
    /\ \A j, k \in 1..n : j < k => d.at[j] < d.at[k]
    /\ \A k \in 1..n : LET row == d.lines[d.at[k]]
                       IN row.kind = "row" /\ row.n = k /\ row.col = c /\ row.says # <<>>
    /\ \A i \in 1..Len(d.lines) :
          /\ d.lines[i].kind \notin {"phrase", "buttons", "step"}
          /\ d.lines[i].kind = "row" => d.at[1] <= i /\ i <= d.at[n]

\* What its last row goes on to, and what its rows have said by each line.
MenuSays(d, n, c, end, label) ==
    /\ end \in d.at[n]..Len(d.lines)
    /\ \A i \in d.at[1]..end : i \in Range(d.at) \/ InMenu(d.lines[i], c)
    /\ end < Len(d.lines) => ~InMenu(d.lines[end + 1], c)
    /\ \A i \in d.at[1]..end :
          label[i] = IF i \in Range(d.at) THEN d.lines[i].says
                     ELSE IF GoesOn(d.lines[i], c) THEN label[i - 1] \o d.lines[i].says
                     ELSE label[i - 1]
    /\ \A k \in 1..(n - 1) : label[d.at[k + 1] - 1] = d.rows[k].says
    /\ label[end] = d.rows[n].says

\* A menu that is drawn as menus are has them.
LEMMA MenuIs ==
    ASSUME NEW d \in Dialog, MenuDrawn(d)
    PROVE  /\ HeadDrawn(d, d.at[1])
           /\ \E n, c : /\ MenuRows(d, n, c)
                        /\ \E end, label : MenuSays(d, n, c, end, label)
<1>1. PICK n : n = Len(d.at)
  OBVIOUS
<1>2. PICK c : c = d.lines[d.at[1]].col
  OBVIOUS
<1>3. n \in Nat /\ DOMAIN d.at = 1..n /\ Len(d.rows) \in Nat /\ DOMAIN d.rows = 1..Len(d.rows)
      /\ Len(d.lines) \in Nat /\ DOMAIN d.lines = 1..Len(d.lines)
  BY <1>1 DEF Dialog
<1>4. MenuRows(d, n, c)
  BY <1>1, <1>2, <1>3 DEF MenuDrawn, MenuRows
<1>5. HeadDrawn(d, d.at[1])
  <2>1. \E i \in 1..d.at[1] :
             /\ d.lines[i].kind # "blank" /\ ~IsRule(d.lines[i])
             /\ \A j \in DOMAIN d.lines :
                   d.lines[j].kind # "edge" => d.lines[i].col <= d.lines[j].col
    BY DEF MenuDrawn
  <2>2. d.at[1] \in 1..Len(d.lines)
    BY <1>4 DEF MenuRows
  <2>3. \A i \in 1..(d.at[1] - 1) : d.lines[i].kind # "row"
    <3>1. \A i \in 1..(d.at[1] - 1) : i \in 1..Len(d.lines) /\ ~(d.at[1] <= i)
      BY <1>3, <2>2
    <3>2. QED
      BY <1>4, <3>1 DEF MenuRows
  <2>4. QED
    BY <1>3, <2>1, <2>2, <2>3, Zenon DEF HeadDrawn
<1>6. PICK end \in d.at[n]..Len(d.lines) :
         /\ \A i \in d.at[1]..end : i \in Range(d.at) \/ InMenu(d.lines[i], c)
         /\ end < Len(d.lines) => ~InMenu(d.lines[end + 1], c)
         /\ RowsSay(d, end, c)
  BY <1>1, <1>2, Zenon DEF MenuDrawn
<1>7. PICK label :
         /\ \A i \in d.at[1]..end :
              label[i] = IF i \in Range(d.at) THEN d.lines[i].says
                         ELSE IF GoesOn(d.lines[i], c) THEN label[i - 1] \o d.lines[i].says
                         ELSE label[i - 1]
         /\ \A k \in 1..(Len(d.at) - 1) : label[d.at[k + 1] - 1] = d.rows[k].says
         /\ label[end] = d.rows[Len(d.at)].says
  BY <1>6, Zenon DEF RowsSay
<1>8. MenuSays(d, n, c, end, label)
  BY <1>1, <1>6, <1>7, Zenon DEF MenuSays
<1>9. QED
  BY <1>4, <1>5, <1>8

\* What is read by a line of a menu, when it is one of row k that has said said.
MenuAt(d, c, n, p, k, said, r) ==
    /\ r \in Read /\ Len(r.run.rows) = k /\ r.run.col = c
    /\ \A j \in 1..(k - 1) : r.run.rows[j] = d.rows[j].says
    /\ r.run.rows[k] = said
    /\ p \in 1..k => r.run.selectable
    /\ k = n => r.best = r.run.rows

\* The first row begins a run.
LEMMA MenuBegins ==
    ASSUME NEW d, NEW n, NEW c, MenuRows(d, n, c), NEW p, NEW acc \in Read, NEW line \in Line,
           Alike(line, d.lines[d.at[1]]), ~Inside(acc.run, line), p = 1 => line.cursor
    PROVE  MenuAt(d, c, n, p, 1, line.says, ReadLine(acc, line))
<1>1. PICK r : r = ReadLine(acc, line)
  OBVIOUS
<1>2. line.kind = "row" /\ line.n = 1 /\ line.col = c /\ n >= 2 /\ n \in Nat
  BY DEF MenuRows, Alike
<1>3. r \in Read /\ Begins(acc, line, r)
  BY <1>1, <1>2, BeginsRun
<1>4. p = 1 => r.run.selectable
  BY <1>3 DEF Begins
<1>5. line.says \in Seq(STRING)
  BY DEF Line
<1>6. r.run.rows = <<line.says>> /\ r.run.col = c
  BY <1>2, <1>3 DEF Begins
<1>7. p \in 1..1 => r.run.selectable
  BY <1>4
<1>8. Len(r.run.rows) = 1 /\ r.run.rows[1] = line.says
  BY <1>6
<1>9. ~(1 = n) /\ 1..(1 - 1) = {}
  BY <1>2
<1>10. QED
  BY <1>1, <1>3, <1>6, <1>7, <1>8, <1>9 DEF MenuAt

\* The next row follows, and what the one before it said is its label.
LEMMA MenuFollows ==
    ASSUME NEW d, NEW n, NEW c, MenuRows(d, n, c), NEW p \in 1..n, NEW k \in 1..n, k < n,
           NEW acc, MenuAt(d, c, n, p, k, d.rows[k].says, acc), NEW line \in Line,
           Alike(line, d.lines[d.at[k + 1]]), p = k + 1 => line.cursor
    PROVE  MenuAt(d, c, n, p, k + 1, line.says, ReadLine(acc, line))
<1>1. PICK r : r = ReadLine(acc, line)
  OBVIOUS
<1>2. n \in Nat /\ n >= 2 /\ k + 1 \in 1..n /\ k \in Nat \ {0}
  BY DEF MenuRows
<1>3. line.kind = "row" /\ line.n = k + 1 /\ line.col = c
  BY <1>2 DEF MenuRows, Alike
<1>4. acc \in Read /\ Len(acc.run.rows) = k /\ acc.run.col = c
  BY DEF MenuAt
<1>5. c \in Nat /\ acc.run.rows \in Seq(Seq(STRING)) /\ line.says \in Seq(STRING)
  BY <1>4 DEF Read, RunType, Line
<1>6. acc.run.rows # <<>>
  BY <1>2, <1>4, <1>5
<1>7. ~Inside(acc.run, line)
  BY <1>3, <1>4, <1>5 DEF Inside
<1>8. r \in Read /\ Follows(acc, line, r)
  BY <1>1, <1>2, <1>3, <1>4, <1>6, <1>7, FollowsRun
<1>9. r.run.rows = Append(acc.run.rows, line.says) /\ r.run.col = c
  BY <1>4, <1>8 DEF Follows
<1>10. /\ Len(r.run.rows) = k + 1 /\ r.run.rows[k + 1] = line.says
       /\ \A j \in 1..k : r.run.rows[j] = acc.run.rows[j]
  <2>1. PICK old \in Seq(Seq(STRING)) : old = acc.run.rows
    BY <1>5
  <2>2. PICK rows : rows = r.run.rows
    OBVIOUS
  <2>3. rows = Append(old, line.says) /\ Len(old) = k
    BY <1>4, <1>9, <2>1, <2>2
  <2>4. PICK says \in Seq(STRING) : says = line.says
    BY <1>5
  <2>5. rows = Append(old, says)
    BY <2>3, <2>4
  <2>6. Len(rows) = k + 1 /\ rows[k + 1] = says /\ \A j \in 1..k : rows[j] = old[j]
    BY <2>3, <2>5, AppendProperties
  <2>7. QED
    BY <2>1, <2>2, <2>4, <2>6
<1>11. \A j \in 1..k : acc.run.rows[j] = d.rows[j].says
  BY <1>2 DEF MenuAt
<1>12. p \in 1..(k + 1) => r.run.selectable
  <2>1. CASE p \in 1..k
    <3>1. acc.run.selectable
      BY <2>1 DEF MenuAt
    <3>2. QED
      BY <1>8, <3>1 DEF Follows
  <2>2. CASE p = k + 1
    BY <1>8, <2>2 DEF Follows
  <2>3. QED
    BY <1>2, <2>1, <2>2
<1>13. k + 1 = n => r.best = r.run.rows
  BY <1>8, <1>12 DEF Follows
<1>14. \A j \in 1..((k + 1) - 1) : r.run.rows[j] = d.rows[j].says
  BY <1>2, <1>10, <1>11
<1>15. QED
  BY <1>1, <1>8, <1>9, <1>10, <1>12, <1>13, <1>14, Zenon DEF MenuAt

\* A deeper line goes on with the row's label.
LEMMA MenuContinues ==
    ASSUME NEW d, NEW n, NEW c, MenuRows(d, n, c), NEW p \in 1..n, NEW k \in 1..n,
           NEW said, NEW acc, MenuAt(d, c, n, p, k, said, acc), NEW line \in Line,
           GoesOn(line, c), ~line.cursor
    PROVE  MenuAt(d, c, n, p, k, said \o line.says, ReadLine(acc, line))
<1>1. PICK r : r = ReadLine(acc, line)
  OBVIOUS
<1>2. n \in Nat /\ n >= 2 /\ k \in Nat \ {0}
  BY DEF MenuRows
<1>3. acc \in Read /\ Len(acc.run.rows) = k /\ acc.run.col = c /\ acc.run.rows[k] = said
  BY DEF MenuAt
<1>4. c \in Nat /\ acc.run.rows \in Seq(Seq(STRING)) /\ line.says \in Seq(STRING)
  BY <1>3 DEF Read, RunType, Line
<1>5. acc.run.rows # <<>> /\ k \in 1..Len(acc.run.rows)
  BY <1>2, <1>3, <1>4
<1>6. Indent(line) > acc.run.col /\ Inside(acc.run, line) /\ GoesOn(line, acc.run.col)
  BY <1>3, <1>5 DEF GoesOn, Indent, Inside
<1>7. r \in Read /\ Continues(acc, line, r)
  BY <1>1, <1>3, <1>5, <1>6, ContinuesRun
<1>8. /\ r.run.rows = [acc.run.rows EXCEPT ![k] = @ \o line.says] /\ r.run.col = c
      /\ r.run.selectable <=> acc.run.selectable
  BY <1>3, <1>7 DEF Continues
<1>9. /\ Len(r.run.rows) = k /\ r.run.rows[k] = said \o line.says
      /\ \A j \in 1..(k - 1) : r.run.rows[j] = acc.run.rows[j]
  <2>1. DOMAIN r.run.rows = DOMAIN acc.run.rows /\ Len(r.run.rows) = Len(acc.run.rows)
    BY <1>4, <1>5, <1>8
  <2>2. r.run.rows[k] = said \o line.says
    BY <1>3, <1>4, <1>5, <1>8
  <2>3. ASSUME NEW j \in 1..(k - 1) PROVE r.run.rows[j] = acc.run.rows[j]
    <3>1. j # k /\ j \in DOMAIN acc.run.rows
      BY <1>2, <1>3, <1>4
    <3>2. QED
      BY <1>8, <3>1, Zenon
  <2>4. QED
    BY <1>3, <2>1, <2>2, <2>3, Zenon
<1>10. p \in 1..k => r.run.selectable
  BY <1>8 DEF MenuAt
<1>11. k = n => r.best = r.run.rows
  <2>1. SUFFICES ASSUME k = n PROVE r.best = r.run.rows
    OBVIOUS
  <2>2. r.run.selectable /\ Len(acc.run.rows) >= 2
    BY <1>2, <1>3, <1>10, <2>1
  <2>3. QED
    BY <1>7, <2>2 DEF Continues
<1>12. \A j \in 1..(k - 1) : r.run.rows[j] = d.rows[j].says
  BY <1>9 DEF MenuAt
<1>13. QED
  BY <1>1, <1>7, <1>8, <1>9, <1>10, <1>11, <1>12, Zenon DEF MenuAt

\* The lines of a menu, read down to end.
LEMMA MenuReadTo ==
    ASSUME NEW lines, NEW ls, NEW d \in Dialog, NEW n, NEW c, NEW p \in 1..n, NEW acc,
           Reads(lines, ls, d, p, acc), MenuRows(d, n, c), HeadDrawn(d, d.at[1]),
           NoneIsLeft(ls, d), NEW end, NEW label, MenuSays(d, n, c, end, label),
           NEW i \in d.at[1]..end
    PROVE  \E k \in 1..n : /\ d.at[k] <= i /\ (k = n \/ i < d.at[k + 1])
                           /\ MenuAt(d, c, n, p, k, label[i], acc[Len(ls) + i])
<1>1. PICK L \in Nat : L = Len(ls)
  BY DEF Reads, Shows
<1>2. PICK D \in Nat : D = Len(d.lines) /\ DOMAIN lines = 1..(L + D)
  BY <1>1 DEF Reads, Shows
<1>3. /\ n \in Nat /\ n >= 2 /\ DOMAIN d.at = 1..n /\ \A k \in 1..n : d.at[k] \in 1..D
      /\ \A j, k \in 1..n : j < k => d.at[j] < d.at[k]
  BY <1>2 DEF MenuRows
<1>4. PICK f \in 1..D : f = d.at[1]
  BY <1>3
<1>5. end \in f..D /\ end \in d.at[n]..D
  BY <1>2, <1>3, <1>4 DEF MenuSays
<1>6. /\ \A x \in 1..(L + D) : acc[x] = ReadLine(acc[x - 1], lines[x])
      /\ \A x \in 0..(L + D) : acc[x] \in Read
  <2>1. Len(ls) + Len(d.lines) = L + D
    BY <1>1, <1>2
  <2>2. QED
    BY <2>1, ReadsStep
<1>7. \A x \in 1..D :
         /\ Alike(lines[L + x], d.lines[x]) /\ lines[L + x] \in Line
         /\ lines[L + x].cursor <=> d.at[p] = x
  <2>1. SUFFICES ASSUME NEW x \in 1..D
                 PROVE  /\ Alike(lines[L + x], d.lines[x]) /\ lines[L + x] \in Line
                        /\ lines[L + x].cursor <=> d.at[p] = x
    BY Zenon
  <2>2. Alike(lines[L + x], d.lines[x])
    BY <1>1, <1>2 DEF Reads, Shows
  <2>3. lines[L + x] \in Line
    <3>1. L + x \in 1..(L + D)
      BY <2>1
    <3>2. QED
      BY <1>2, <3>1 DEF Reads, Shows
  <2>4. lines[L + x].cursor <=> p \in DOMAIN d.at /\ d.at[p] = x
    BY <1>1, <1>2, <2>1, Zenon DEF Reads, Shows
  <2>5. p \in DOMAIN d.at
    BY <1>3
  <2>6. QED
    BY <2>2, <2>3, <2>4, <2>5, Zenon
<1> DEFINE At(k, x) == /\ d.at[k] <= x /\ (k = n \/ x < d.at[k + 1])
                       /\ MenuAt(d, c, n, p, k, label[x], acc[L + x])
<1> DEFINE T == {x \in 0..(end - f) : \E k \in 1..n : At(k, f + x)}
<1>8. 0 \in T
  <2>1. acc[L + f] = ReadLine(acc[L + f - 1], lines[L + f]) /\ acc[L + f - 1] \in Read
    BY <1>6
  <2>2. d.lines[f].kind = "row"
    BY <1>3, <1>4 DEF MenuRows
  <2>3. ~Inside(acc[L + f - 1].run, lines[L + f])
    BY <1>1, <1>4, <2>2, FirstRowIsOne
  <2>4. p = 1 => lines[L + f].cursor
    BY <1>4, <1>7
  <2>5. MenuAt(d, c, n, p, 1, lines[L + f].says, acc[L + f])
    <3>1. PICK line \in Line : line = lines[L + f] /\ Alike(line, d.lines[d.at[1]])
      BY <1>4, <1>7
    <3>2. PICK a \in Read : a = acc[L + f - 1]
      BY <2>1
    <3>3. ~Inside(a.run, line) /\ (p = 1 => line.cursor)
      BY <2>3, <2>4, <3>1, <3>2
    <3>4. MenuAt(d, c, n, p, 1, line.says, ReadLine(a, line))
      BY <3>1, <3>3, MenuBegins
    <3>5. QED
      BY <2>1, <3>1, <3>2, <3>4
  <2>6. label[f] = lines[L + f].says
    <3>1. f \in Range(d.at) /\ f \in f..end
      BY <1>3, <1>4, <1>5 DEF Range
    <3>2. label[f] = d.lines[f].says
      BY <1>4, <3>1 DEF MenuSays
    <3>3. QED
      BY <1>7, <3>2 DEF Alike
  <2>7. 1 \in 1..n /\ d.at[1] <= f /\ f < d.at[1 + 1]
    BY <1>3, <1>4
  <2>8. At(1, f + 0)
    BY <2>5, <2>6, <2>7
  <2>9. QED
    BY <1>5, <2>7, <2>8
<1>9. ASSUME NEW m \in 1..(end - f), m - 1 \in T PROVE m \in T
  <2>1. PICK x \in (f + 1)..end : x = f + m
    BY <1>5
  <2>2. PICK w \in f..end : w = x - 1 /\ w = f + (m - 1)
    <3>1. x - 1 \in f..end /\ x - 1 = f + (m - 1)
      BY <1>4, <1>5, <2>1
    <3>2. QED
      BY <3>1
  <2>3. PICK k \in 1..n : At(k, w)
    BY <1>9, <2>2
  <2>4. d.at[k] <= w /\ (k = n \/ w < d.at[k + 1])
    BY <2>3
  <2>5. x \in 1..D /\ x \in f..end /\ L + x \in 1..(L + D) /\ L + w = L + x - 1 /\ k \in Nat \ {0}
    BY <1>3, <1>5, <2>1, <2>2
  <2>6. acc[L + x] = ReadLine(acc[L + w], lines[L + x]) /\ acc[L + w] \in Read
    BY <1>6, <2>5
  <2>7. label[x] = IF x \in Range(d.at) THEN d.lines[x].says
                   ELSE IF GoesOn(d.lines[x], c) THEN label[w] \o d.lines[x].says
                   ELSE label[w]
    BY <1>4, <2>2, <2>5 DEF MenuSays
  <2>8. x \in Range(d.at) \/ InMenu(d.lines[x], c)
    BY <1>4, <2>5 DEF MenuSays
  <2>9. Alike(lines[L + x], d.lines[x]) /\ lines[L + x] \in Line
    BY <1>7, <2>5
  <2>10. CASE x \in Range(d.at)
    <3>1. PICK j \in 1..n : x = d.at[j]
      BY <1>3, <2>10 DEF Range
    <3>2. k < n /\ x = d.at[k + 1]
      <4>1. d.at[k] <= w /\ w < x /\ d.at[k] \in Nat
        <5>1. w < x
          BY <2>2
        <5>2. d.at[k] \in Nat
          BY <1>3
        <5>3. QED
          BY <2>4, <5>1, <5>2
      <4>2. k < j
        <5>1. ~(k = j)
          BY <3>1, <4>1, <2>2
        <5>2. ~(j < k)
          <6>1. SUFFICES ASSUME j < k PROVE FALSE
            OBVIOUS
          <6>2. d.at[j] < d.at[k]
            BY <1>3, <6>1
          <6>3. QED
            BY <3>1, <4>1, <6>2, <2>2
        <5>3. QED
          BY <5>1, <5>2
      <4>3. k < n /\ k + 1 \in 1..n /\ w < d.at[k + 1]
        <5>1. k < n /\ k + 1 \in 1..n /\ k # n
          BY <1>3, <4>2
        <5>2. QED
          BY <2>4, <5>1
      <4>4. ~(k + 1 < j)
        <5>1. SUFFICES ASSUME k + 1 < j PROVE FALSE
          OBVIOUS
        <5>2. d.at[k + 1] < d.at[j] /\ d.at[k + 1] \in Nat
          BY <1>3, <4>3, <5>1
        <5>3. QED
          BY <2>2, <3>1, <4>3, <5>2
      <4>5. j = k + 1
        BY <4>2, <4>4
      <4>6. QED
        BY <3>1, <4>3, <4>5
    <3>3. k + 1 \in 1..n
      BY <1>3, <3>2
    <3>4. label[w] = d.rows[k].says
      <4>1. k \in 1..(n - 1) /\ w = d.at[k + 1] - 1
        BY <1>3, <2>2, <3>2
      <4>2. QED
        BY <4>1 DEF MenuSays
    <3>5. p = k + 1 => lines[L + x].cursor
      BY <1>7, <2>5, <3>2
    <3>6. MenuAt(d, c, n, p, k + 1, lines[L + x].says, acc[L + x])
      <4>1. MenuAt(d, c, n, p, k, d.rows[k].says, acc[L + w])
        BY <2>3, <3>4
      <4>2. QED
        BY <2>6, <2>9, <3>2, <3>5, <4>1, MenuFollows
    <3>7. label[x] = lines[L + x].says
      BY <2>7, <2>9, <2>10 DEF Alike
    <3>8. d.at[k + 1] <= x /\ (k + 1 = n \/ x < d.at[(k + 1) + 1])
      <4>1. CASE k + 1 = n
        BY <3>2, <4>1, <2>5
      <4>2. CASE k + 1 < n
        <5>1. (k + 1) + 1 \in 1..n
          BY <1>3, <4>2
        <5>2. d.at[k + 1] < d.at[(k + 1) + 1]
          BY <1>3, <3>3, <5>1
        <5>3. QED
          BY <3>2, <5>2, <2>5
      <4>3. QED
        BY <3>3, <4>1, <4>2, <1>3
    <3>9. At(k + 1, x)
      BY <3>6, <3>7, <3>8
    <3>10. QED
      BY <2>1, <3>3, <3>9
  <2>11. CASE x \notin Range(d.at)
    <3>1. d.at[k] <= x
      <4>1. PICK y \in Nat : y = d.at[k]
        BY <1>3
      <4>2. y <= w
        BY <2>4, <4>1, Zenon
      <4>3. w < x /\ x \in Nat /\ w \in Nat
        BY <2>2, <2>5
      <4>4. y <= x
        BY <4>2, <4>3
      <4>5. QED
        BY <4>1, <4>4, Zenon
    <3>2. k = n \/ x < d.at[k + 1]
      <4>1. SUFFICES ASSUME k # n PROVE x < d.at[k + 1]
        OBVIOUS
      <4>2. k + 1 \in 1..n /\ w < d.at[k + 1]
        BY <1>3, <2>3, <4>1
      <4>3. d.at[k + 1] \in Nat
        BY <1>3, <4>2
      <4>4. d.at[k + 1] # x
        BY <1>3, <2>11, <4>2, Zenon DEF Range
      <4>5. PICK y \in Nat : y = d.at[k + 1]
        BY <4>3
      <4>6. x \in Nat /\ w = x - 1 /\ w < y /\ y # x
        BY <2>2, <2>5, <4>2, <4>4, <4>5
      <4>7. QED
        BY <4>5, <4>6
    <3>3. CASE GoesOn(d.lines[x], c)
      <4>1. GoesOn(lines[L + x], c)
        BY <2>9, <3>3 DEF GoesOn, Alike
      <4>2. ~lines[L + x].cursor
        <5>1. d.at[p] # x
          BY <1>3, <2>11 DEF Range
        <5>2. QED
          BY <1>7, <2>5, <5>1
      <4>3. MenuAt(d, c, n, p, k, label[w] \o lines[L + x].says, acc[L + x])
        BY <2>3, <2>6, <2>9, <4>1, <4>2, MenuContinues
      <4>4. label[x] = label[w] \o lines[L + x].says
        BY <2>7, <2>9, <2>11, <3>3 DEF Alike
      <4>5. At(k, x)
        BY <3>1, <3>2, <4>3, <4>4
      <4>6. QED
        BY <2>1, <4>5
    <3>4. CASE ~GoesOn(d.lines[x], c)
      <4>1. lines[L + x].kind = "blank" \/ IsRule(lines[L + x])
        BY <2>8, <2>9, <2>11, <3>4 DEF InMenu, Alike, IsRule
      <4>2. acc[L + w].run.rows # <<>>
        <5>1. acc[L + w] \in Read /\ Len(acc[L + w].run.rows) = k
          BY <2>3 DEF MenuAt
        <5>2. QED
          BY <2>5, <5>1 DEF Read, RunType
      <4>3. acc[L + x] = acc[L + w]
        BY <2>6, <4>1, <4>2, StaysRun
      <4>4. label[x] = label[w]
        BY <2>7, <2>11, <3>4
      <4>5. At(k, x)
        BY <2>3, <3>1, <3>2, <4>3, <4>4
      <4>6. QED
        BY <2>1, <4>5
    <3>5. QED
      BY <3>3, <3>4
  <2>12. QED
    BY <2>10, <2>11
<1> HIDE DEF T
<1>10. PICK m \in 0..(end - f) : i = f + m
  <2>1. i - f \in 0..(end - f) /\ i = f + (i - f)
    BY <1>4, <1>5
  <2>2. QED
    BY <2>1
<1>11. end - f \in Nat
  BY <1>5
<1>12. m \in T
  BY <1>8, <1>9, <1>11, Upwards
<1>13. QED
  BY <1>1, <1>10, <1>12 DEF T

\* Below its last row nothing more is read.
LEMMA MenuReadOn ==
    ASSUME NEW lines, NEW ls, NEW d \in Dialog, NEW n, NEW c, NEW p \in 1..n, NEW acc,
           Reads(lines, ls, d, p, acc), MenuRows(d, n, c), HeadDrawn(d, d.at[1]),
           NoneIsLeft(ls, d), NEW end, NEW label, MenuSays(d, n, c, end, label)
    PROVE  /\ DOMAIN acc[Len(ls) + Len(d.lines)].best = 1..n
           /\ \A k \in 1..n : acc[Len(ls) + Len(d.lines)].best[k] = d.rows[k].says
<1>1. PICK L \in Nat : L = Len(ls)
  BY DEF Reads, Shows
<1>2. PICK D \in Nat : D = Len(d.lines) /\ DOMAIN lines = 1..(L + D)
  BY <1>1 DEF Reads, Shows
<1>3. /\ n \in Nat /\ n >= 2 /\ \A k \in 1..n : d.at[k] \in 1..D
      /\ \A j, k \in 1..n : j < k => d.at[j] < d.at[k]
  BY <1>2 DEF MenuRows
<1>4. d.at[1] \in 1..D /\ d.at[n] \in 1..D /\ d.at[1] < d.at[n]
  BY <1>3
<1>5. end \in d.at[n]..D /\ end \in d.at[1]..end
  BY <1>2, <1>4 DEF MenuSays
<1>6. /\ \A x \in 1..(L + D) : acc[x] = ReadLine(acc[x - 1], lines[x])
      /\ \A x \in 0..(L + D) : acc[x] \in Read
  <2>1. Len(ls) + Len(d.lines) = L + D
    BY <1>1, <1>2
  <2>2. QED
    BY <2>1, ReadsStep
<1>7. MenuAt(d, c, n, p, n, label[end], acc[L + end])
  <2>1. PICK k \in 1..n : /\ d.at[k] <= end /\ (k = n \/ end < d.at[k + 1])
                          /\ MenuAt(d, c, n, p, k, label[end], acc[L + end])
    BY <1>1, <1>5, MenuReadTo
  <2>2. k = n
    <3>1. SUFFICES ASSUME k # n PROVE FALSE
      OBVIOUS
    <3>2. k + 1 \in 1..n /\ end < d.at[k + 1]
      BY <1>3, <2>1, <3>1
    <3>3. d.at[k + 1] <= d.at[n]
      <4>1. CASE k + 1 = n
        BY <1>3, <4>1
      <4>2. CASE k + 1 < n
        <5>1. n \in 1..n
          BY <1>3
        <5>2. d.at[k + 1] < d.at[n]
          BY <1>3, <3>2, <4>2, <5>1
        <5>3. d.at[k + 1] \in Nat /\ d.at[n] \in Nat
          BY <1>3, <3>2, <1>4
        <5>4. QED
          BY <5>2, <5>3
      <4>3. QED
        BY <3>2, <4>1, <4>2, <1>3
    <3>4. d.at[k + 1] \in Nat
      BY <1>3, <3>2
    <3>5. QED
      BY <1>4, <1>5, <3>2, <3>3, <3>4
  <2>3. QED
    BY <2>1, <2>2
<1>8. PICK best : best = acc[L + end].best
  OBVIOUS
<1>9. DOMAIN best = 1..n /\ \A k \in 1..n : best[k] = d.rows[k].says
  <2>1. best = acc[L + end].run.rows /\ acc[L + end] \in Read /\ Len(best) = n
    BY <1>7, <1>8 DEF MenuAt
  <2>2. DOMAIN best = 1..n
    BY <2>1 DEF Read, RunType
  <2>3. best[n] = d.rows[n].says
    <3>1. label[end] = d.rows[n].says
      BY DEF MenuSays
    <3>2. QED
      BY <1>7, <2>1, <3>1 DEF MenuAt
  <2>4. \A k \in 1..(n - 1) : best[k] = d.rows[k].says
    BY <1>7, <2>1 DEF MenuAt
  <2>5. \A k \in 1..n : k = n \/ k \in 1..(n - 1)
    BY <1>3
  <2>6. QED
    BY <2>2, <2>3, <2>4, <2>5
<1>10. CASE end = D
  BY <1>1, <1>2, <1>8, <1>9, <1>10
<1>11. CASE end < D
  <2>1. PICK e \in Nat : e = end + 1
    BY <1>4, <1>5
  <2>2. \A x \in e..D : /\ lines[L + x] \in Line /\ Alike(lines[L + x], d.lines[x])
                        /\ d.lines[x].kind # "row"
    <3>1. SUFFICES ASSUME NEW x \in e..D
                   PROVE  /\ lines[L + x] \in Line /\ Alike(lines[L + x], d.lines[x])
                          /\ d.lines[x].kind # "row"
      OBVIOUS
    <3>2. x \in 1..D /\ ~(x <= d.at[n]) /\ L + x \in 1..(L + D)
      BY <1>4, <1>5, <2>1
    <3>3. d.lines[x].kind # "row"
      BY <1>2, <3>2 DEF MenuRows
    <3>4. QED
      BY <1>1, <1>2, <3>2, <3>3 DEF Reads, Shows
  <2> DEFINE T == {x \in 0..(D - e) : acc[L + e + x].run.rows = <<>> /\ acc[L + e + x].best = best}
  <2>3. 0 \in T
    <3>1. e \in e..D /\ L + e \in 1..(L + D) /\ L + end = L + e - 1 /\ L + end \in 0..(L + D)
      BY <1>4, <1>5, <1>11, <2>1
    <3>2. acc[L + e] = ReadLine(acc[L + end], lines[L + e]) /\ acc[L + end] \in Read
      BY <1>6, <3>1
    <3>3. ~InMenu(d.lines[e], c)
      BY <1>2, <1>11, <2>1 DEF MenuSays
    <3>4. ~InMenu(lines[L + e], c) /\ lines[L + e].kind # "row"
      BY <2>2, <3>1, <3>3 DEF InMenu, Alike, IsRule, GoesOn
    <3>5. acc[L + end].run.col = c /\ c \in Nat
      BY <1>7, <3>2 DEF MenuAt, Read, RunType
    <3>6. lines[L + e].kind # "blank" /\ ~IsRule(lines[L + e])
      BY <3>4 DEF InMenu
    <3>7. lines[L + e].kind = "footer" \/ ~(Indent(lines[L + e]) > c)
      <4>1. lines[L + e].col \in Nat
        BY <2>2, <3>1 DEF Line
      <4>2. lines[L + e].kind = "footer" \/ ~(lines[L + e].col > c)
        BY <3>4, <3>6 DEF InMenu, GoesOn, IsRule
      <4>3. QED
        BY <3>5, <4>1, <4>2 DEF Indent
    <3>8. Ends(acc[L + end], acc[L + e])
      BY <3>2, <3>4, <3>5, <3>6, <3>7, EndsRun
    <3>9. acc[L + e].run.rows = <<>> /\ acc[L + e].best = best
      BY <1>8, <3>8, NoRunIs DEF Ends
    <3>10. L + e + 0 = L + e /\ 0 \in 0..(D - e)
      BY <3>1
    <3>11. QED
      BY <3>9, <3>10
  <2>4. ASSUME NEW m \in 1..(D - e), m - 1 \in T PROVE m \in T
    <3>1. PICK x \in e..D : x = e + m
      BY <2>1
    <3>2. /\ L + x \in 1..(L + D) /\ L + x - 1 \in 0..(L + D) /\ L + e + (m - 1) = L + x - 1
          /\ L + e + m = L + x
      BY <2>1, <3>1
    <3>3. acc[L + x] = ReadLine(acc[L + x - 1], lines[L + x]) /\ acc[L + x - 1] \in Read
      BY <1>6, <3>2
    <3>4. acc[L + x - 1].run.rows = <<>> /\ acc[L + x - 1].best = best
      BY <2>4, <3>2
    <3>5. lines[L + x] \in Line /\ lines[L + x].kind # "row"
      BY <2>2 DEF Alike
    <3>6. acc[L + x].run.rows = <<>> /\ acc[L + x].best = best
      BY <3>3, <3>4, <3>5, ReadsColumn
    <3>7. QED
      BY <3>2, <3>6
  <2> HIDE DEF T
  <2>5. D - e \in Nat
    BY <1>4, <1>5, <1>11, <2>1
  <2>6. D - e \in T
    BY <2>3, <2>4, <2>5, Upwards
  <2>7. L + e + (D - e) = L + D
    BY <2>1
  <2>8. acc[L + D].best = best
    BY <2>6, <2>7 DEF T
  <2>9. QED
    BY <1>1, <1>2, <1>9, <2>8
<1>12. QED
  BY <1>5, <1>10, <1>11

-----------------------------------------------------------------------------
(* detect_options: what is offered is the dialog's.                         *)

\* The lowest of some lines is one of them, if there are any.
LEMMA LowestIs ==
    ASSUME NEW n \in Nat, NEW S, S \subseteq 1..n
    PROVE  Lowest(S) \in S \cup {0} /\ \A x \in S : x <= Lowest(S)
<1> DEFINE T == {n - x : x \in S \cup {0}}
<1>1. T \subseteq Nat /\ T # {}
  OBVIOUS
<1>2. PICK y \in T : \A z \in T : y <= z
  <2> HIDE DEF T
  <2>1. QED
    BY <1>1, Smallest
<1>3. PICK m \in S \cup {0} : y = n - m
  BY <1>2
<1>4. \A x \in S \cup {0} : x \in Nat /\ m >= x
  <2>1. SUFFICES ASSUME NEW x \in S \cup {0} PROVE x \in Nat /\ m >= x
    OBVIOUS
  <2>2. n - x \in T
    OBVIOUS
  <2>3. y <= n - x
    BY <1>2, <2>2
  <2>4. QED
    BY <1>3, <2>3
<1>5. \A x \in S \cup {0} : (\A z \in S \cup {0} : x >= z) => x = m
  BY <1>4
<1>6. Max(S \cup {0}) = m
  BY <1>4, <1>5 DEF Max
<1>7. QED
  BY <1>4, <1>6 DEF Lowest

\* Where the readers take what was printed for a dialog.
Misreads(ls, d) ==
    \/ Has(ls, "phrase")
    \/ /\ d.kind = "yn"
       /\ \E k \in DOMAIN ls :
            \/ ls[k].kind \in {"bullet", "title", "ask"} \/ ls[k].hint
            \/ ls[k].kind = "row" /\ (~ls[k].boxed \/ ls[k].cursor)
    \/ \E k \in DOMAIN ls :
            /\ ls[k].kind = "row"
            /\ \A i \in DOMAIN d.lines :
                    d.lines[i].kind # "edge" => ls[k].col < d.lines[i].col

\* Elsewhere no row is left of the dialog.
LEMMA ReadRight ==
    ASSUME NEW ls \in Seq(Line), NEW d \in Dialog, ~Misreads(ls, d)
    PROVE  NoneIsLeft(ls, d)
<1>1. DOMAIN ls = 1..Len(ls) /\ DOMAIN d.lines = 1..Len(d.lines) /\ d.lines \in Seq(Line)
  BY DEF Dialog
<1>2. SUFFICES ASSUME NEW k \in 1..Len(ls), ls[k].kind = "row"
               PROVE  \E i \in 1..Len(d.lines) :
                         d.lines[i].kind # "edge" /\ ls[k].col >= d.lines[i].col
  BY DEF NoneIsLeft
<1>3. PICK i \in 1..Len(d.lines) : d.lines[i].kind # "edge" /\ ~(ls[k].col < d.lines[i].col)
  BY <1>1, <1>2 DEF Misreads
<1>4. ls[k].col \in Nat /\ d.lines[i].col \in Nat
  <2>1. ls[k] \in Line /\ d.lines[i] \in Line
    BY <1>1
  <2>2. QED
    BY <2>1 DEF Line
<1>5. QED
  BY <1>3, <1>4

\* The menu that is read is the one that is drawn.
LEMMA MenuIsRead ==
    ASSUME NEW lines, NEW ls \in Seq(Line), NEW d \in Dialog, NEW p, Shows(lines, ls, d, p),
           NEW n, NEW c, MenuRows(d, n, c), p \in 1..n, HeadDrawn(d, d.at[1]),
           NoneIsLeft(ls, d), NEW end, NEW label, MenuSays(d, n, c, end, label)
    PROVE  NumberedMenu(lines) = d.rows
<1>1. PICK N \in Nat : N = Len(ls) + Len(d.lines) /\ DOMAIN lines = 1..N
  BY DEF Shows
<1>2. PICK acc : /\ Run("menu", <<>>, <<>>, Nothing, lines, N, acc)
                 /\ acc[N] = TheFold("menu", <<>>, <<>>, Nothing, lines, N)[1..N]
  BY FoldRun
<1>3. Reads(lines, ls, d, p, acc)
  BY <1>1, <1>2 DEF Reads
<1>4. PICK best : best = acc[N].best
  OBVIOUS
<1>5. DOMAIN best = 1..n /\ \A k \in 1..n : best[k] = d.rows[k].says
  <2>1. /\ DOMAIN acc[Len(ls) + Len(d.lines)].best = 1..n
        /\ \A k \in 1..n : acc[Len(ls) + Len(d.lines)].best[k] = d.rows[k].says
    BY <1>3, MenuReadOn
  <2>2. acc[Len(ls) + Len(d.lines)].best = best
    BY <1>1, <1>4
  <2>3. QED
    BY <2>1, <2>2
<1>6. FoldLeft(ReadLine, Nothing, lines).best = best
  BY <1>1, <1>2, <1>4, ReadersFold
<1>7. NumberedMenu(lines) = [k \in DOMAIN best |-> [n |-> k, says |-> best[k]]]
  BY <1>6 DEF NumberedMenu, Nothing
<1>8. \A k \in 1..n : d.rows[k] = [n |-> k, says |-> best[k]]
  <2>1. SUFFICES ASSUME NEW k \in 1..n PROVE d.rows[k] = [n |-> k, says |-> best[k]]
    OBVIOUS
  <2>2. d.rows[k] \in Option /\ d.rows[k].n = k
    BY DEF Dialog, MenuRows
  <2>3. QED
    BY <1>5, <2>2 DEF Option
<1>9. d.rows = [k \in 1..n |-> d.rows[k]]
  BY DEF Dialog, MenuRows
<1>10. QED
  BY <1>5, <1>7, <1>8, <1>9

\* A line of a kind is one of the transcript's or of the dialog's.
LEMMA HasShown ==
    ASSUME NEW lines, NEW ls \in Seq(Line), NEW d \in Dialog, NEW p, Shows(lines, ls, d, p),
           NEW kind
    PROVE  Has(lines, kind) <=> Has(ls, kind) \/ Has(d.lines, kind)
<1>1. DOMAIN ls = 1..Len(ls) /\ DOMAIN d.lines = 1..Len(d.lines)
  BY DEF Dialog
<1>2. PICK L \in Nat : L = Len(ls)
  BY DEF Shows
<1>3. PICK D \in Nat : D = Len(d.lines) /\ DOMAIN lines = 1..(L + D)
  BY <1>2 DEF Shows
<1>4. ASSUME Has(lines, kind) PROVE Has(ls, kind) \/ Has(d.lines, kind)
  <2>1. PICK x \in DOMAIN lines : lines[x].kind = kind
    BY <1>4 DEF Has
  <2>2. CASE x \in 1..Len(ls) /\ lines[x] = ls[x]
    BY <1>1, <2>1, <2>2 DEF Has
  <2>3. CASE \E i \in 1..Len(d.lines) : x = Len(ls) + i
    <3>1. PICK i \in 1..Len(d.lines) : x = Len(ls) + i
      BY <2>3
    <3>2. d.lines[i].kind = kind
      BY <2>1, <3>1 DEF Shows, Alike
    <3>3. QED
      BY <1>1, <3>2 DEF Has
  <2>4. QED
    BY <2>2, <2>3, ShownLines
<1>5. ASSUME Has(ls, kind) PROVE Has(lines, kind)
  <2>1. PICK x \in 1..L : ls[x].kind = kind
    BY <1>1, <1>2, <1>5 DEF Has
  <2>2. x \in DOMAIN lines /\ lines[x] = ls[x]
    BY <1>2, <1>3 DEF Shows
  <2>3. QED
    BY <2>1, <2>2 DEF Has
<1>6. ASSUME Has(d.lines, kind) PROVE Has(lines, kind)
  <2>1. PICK x \in 1..D : d.lines[x].kind = kind
    BY <1>1, <1>3, <1>6 DEF Has
  <2>2. L + x \in DOMAIN lines /\ lines[L + x].kind = kind
    BY <1>2, <1>3, <2>1 DEF Shows, Alike
  <2>3. QED
    BY <2>2 DEF Has
<1>7. QED
  BY <1>4, <1>5, <1>6

\* No row of buttons in the transcript takes the screen from a menu below it.
LEMMA MenuNotOpenCode ==
    ASSUME NEW lines, NEW ls \in Seq(Line), NEW d \in Dialog, NEW p, Shows(lines, ls, d, p),
           NEW n, NEW c, MenuRows(d, n, c)
    PROVE  OpenCodeOptions(lines) = <<>>
<1>1. PICK L \in Nat : L = Len(ls)
  BY DEF Shows
<1>2. PICK D \in Nat : D = Len(d.lines) /\ DOMAIN lines = 1..(L + D)
  BY <1>1 DEF Shows
<1>3. PICK S : S = {i \in DOMAIN lines :
                      (IsButtonRow(lines[i]) \/ lines[i].kind = "step") /\ Hinted(lines, i)}
  OBVIOUS
<1>4. S \subseteq 1..L
  <2>1. SUFFICES ASSUME NEW x \in S PROVE x \in 1..L
    OBVIOUS
  <2>2. x \in DOMAIN lines /\ lines[x].kind \in {"buttons", "step"}
    BY <1>3 DEF IsButtonRow
  <2>3. ASSUME NEW i \in 1..D, x = L + i PROVE FALSE
    <3>1. d.lines[i].kind = lines[x].kind
      BY <1>1, <1>2, <2>3 DEF Shows, Alike
    <3>2. QED
      BY <1>2, <2>2, <3>1 DEF MenuRows
  <2>4. QED
    BY <1>1, <1>2, <2>2, <2>3, ShownLines
<1>5. PICK at : at = Lowest(S)
  OBVIOUS
<1>6. at \in S \cup {0}
  BY <1>4, <1>5, LowestIs
<1>7. PICK x \in 1..D : x = d.at[1] /\ d.lines[x].kind = "row"
  BY <1>2 DEF MenuRows
<1>8. L + x \in DOMAIN lines /\ lines[L + x].kind = "row" /\ Len(lines) = L + D
  <2>1. L + x \in DOMAIN lines /\ lines[L + x].kind = "row"
    <3>1. L + x \in DOMAIN lines
      BY <1>2
    <3>2. Alike(lines[L + x], d.lines[x])
      BY <1>1, <1>2 DEF Shows
    <3>3. QED
      BY <1>7, <3>1, <3>2 DEF Alike
  <2>2. Len(lines) = L + D
    BY <1>2, LenProperties
  <2>3. QED
    BY <2>1, <2>2
<1>9. ~OpenCodeOwns(lines, at)
  <2>1. SUFFICES ASSUME at > 0 PROVE \E j \in at..Len(lines) : lines[j].kind = "row"
    BY DEF OpenCodeOwns
  <2>2. at \in 1..L
    BY <1>4, <1>6, <2>1
  <2>3. L + x \in at..Len(lines)
    BY <1>2, <1>8, <2>2
  <2>4. QED
    BY <1>8, <2>3
<1>10. ~\A i \in DOMAIN lines : lines[i].kind # "row"
  BY <1>8
<1>11. QED
  BY <1>3, <1>5, <1>9, <1>10 DEF OpenCodeOptions

\* A menu is offered whole, below whatever was printed.
LEMMA MenuOffered ==
    ASSUME NEW lines, NEW ls \in Seq(Line), NEW d \in Dialog, NEW p, Shows(lines, ls, d, p),
           MenuDrawn(d), p \in DOMAIN d.at, ~Misreads(ls, d)
    PROVE  DetectOptions(lines) = d.rows
<1>1. PICK n, c : /\ MenuRows(d, n, c)
                  /\ \E end, label : MenuSays(d, n, c, end, label)
  BY MenuIs
<1>2. PICK end, label : MenuSays(d, n, c, end, label)
  BY <1>1
<1>3. HeadDrawn(d, d.at[1]) /\ NoneIsLeft(ls, d) /\ p \in 1..n
  BY <1>1, MenuIs, ReadRight DEF MenuRows
<1>4. NumberedMenu(lines) = d.rows
  BY <1>1, <1>2, <1>3, MenuIsRead
<1>5. OpenCodeOptions(lines) = <<>>
  BY <1>1, MenuNotOpenCode
<1>6. ~Has(lines, "phrase")
  <2>1. ~Has(ls, "phrase")
    BY DEF Misreads
  <2>2. ~Has(d.lines, "phrase")
    BY <1>1 DEF Has, MenuRows, Dialog
  <2>3. QED
    BY <2>1, <2>2, HasShown
<1>7. d.rows # <<>>
  BY <1>1 DEF MenuRows
<1>8. QED
  BY <1>4, <1>5, <1>6, <1>7 DEF DetectOptions

\* OpenCode's rows of buttons read as such.
LEMMA ButtonRowsRead ==
    ASSUME NEW kind \in {"opencode1", "opencode2"}, NEW labels \in ButtonRows(kind),
           NEW line, line.kind = "buttons", line.says = labels
    PROVE  IsButtonRow(line) /\ labels # <<>> /\ DOMAIN labels # {}
<1>1. \/ labels = <<"AllowOnce", "AllowAlways", "Reject">>
      \/ labels = <<"AllowOnce", "AlwaysAllow", "Reject">>
      \/ labels = <<"AllowOnce", "Reject">>
  BY DEF ButtonRows
<1>2. \/ /\ Len(labels) = 3 /\ DOMAIN labels = 1..3 /\ labels[3] = "Reject"
         /\ labels[2] \in {"AllowAlways", "AlwaysAllow"}
      \/ Len(labels) = 2 /\ DOMAIN labels = 1..2 /\ labels[2] = "Reject"
  BY <1>1
<1>3. /\ labels[1] = "AllowOnce" /\ labels[Len(labels)] = "Reject" /\ labels # <<>>
      /\ Head(labels) = "AllowOnce"
  <2>1. labels[1] = "AllowOnce" /\ labels # <<>>
    BY <1>1
  <2>2. Head(labels) = "AllowOnce"
    BY <1>1
  <2>3. labels[Len(labels)] = "Reject"
    BY <1>2
  <2>4. QED
    BY <2>1, <2>2, <2>3
<1>4. IsInjective(labels)
  <2>1. SUFFICES ASSUME NEW x \in DOMAIN labels, NEW y \in DOMAIN labels, labels[x] = labels[y]
                 PROVE  x = y
    BY DEF IsInjective
  <2>2. CASE Len(labels) = 3
    <3>1. x \in {1, 2, 3} /\ y \in {1, 2, 3}
      BY <1>2, <2>2
    <3>2. QED
      BY <1>2, <1>3, <2>1, <2>2, <3>1
  <2>3. CASE Len(labels) = 2
    <3>1. x \in {1, 2} /\ y \in {1, 2}
      BY <1>2, <2>3
    <3>2. QED
      BY <1>3, <2>1, <2>3, <3>1
  <2>4. QED
    BY <1>2, <2>2, <2>3
<1>5. QED
  BY <1>2, <1>3, <1>4 DEF IsButtonRow, Last

\* The buttons that are drawn are the ones that are offered, whatever others are above.
LEMMA ButtonsOffered ==
    ASSUME NEW lines, NEW ls \in Seq(Line), NEW d \in Dialog, NEW p, Shows(lines, ls, d, p),
           d.kind \in {"opencode1", "opencode2", "step"}, ButtonsDrawn(d), ~Misreads(ls, d)
    PROVE  DetectOptions(lines) = d.rows
<1>1. PICK L \in Nat : L = Len(ls)
  BY DEF Shows
<1>2. PICK D \in Nat : D = Len(d.lines) /\ DOMAIN lines = 1..(L + D) /\ DOMAIN d.lines = 1..D
  BY <1>1 DEF Shows, Dialog
<1>3. PICK i \in 1..D :
        \E labels \in ButtonRows(d.kind) :
            /\ d.rows = Unnumbered(labels)
            /\ IF d.kind = "step" THEN d.lines[i].kind = "step"
               ELSE d.lines[i].kind = "buttons" /\ d.lines[i].says = labels
            /\ \E j \in i..Len(d.lines) : d.lines[j].hint
            /\ \A j \in DOMAIN d.lines :
                  /\ d.lines[j].kind \notin {"row", "phrase"}
                  /\ j # i => d.lines[j].kind \notin {"buttons", "step"}
  BY <1>2, Zenon DEF ButtonsDrawn
<1>4. PICK labels \in ButtonRows(d.kind) :
            /\ d.rows = Unnumbered(labels)
            /\ IF d.kind = "step" THEN d.lines[i].kind = "step"
               ELSE d.lines[i].kind = "buttons" /\ d.lines[i].says = labels
            /\ \E j \in i..Len(d.lines) : d.lines[j].hint
            /\ \A j \in DOMAIN d.lines :
                  /\ d.lines[j].kind \notin {"row", "phrase"}
                  /\ j # i => d.lines[j].kind \notin {"buttons", "step"}
  BY <1>3
<1>5. ASSUME NEW j \in 1..D
      PROVE  Alike(lines[L + j], d.lines[j]) /\ L + j \in 1..(L + D)
  BY <1>1, <1>2 DEF Shows
<1>6. Len(lines) = L + D
  BY <1>2, LenProperties
<1>7. PICK S : S = {x \in DOMAIN lines :
                      (IsButtonRow(lines[x]) \/ lines[x].kind = "step") /\ Hinted(lines, x)}
  OBVIOUS
<1>8. L + i \in S
  <2>1. IsButtonRow(lines[L + i]) \/ lines[L + i].kind = "step"
    <3>1. CASE d.kind = "step"
      BY <1>4, <1>5, <3>1 DEF Alike
    <3>2. CASE d.kind # "step"
      <4>1. lines[L + i].kind = "buttons" /\ lines[L + i].says = labels
        BY <1>4, <1>5, <3>2 DEF Alike
      <4>2. d.kind \in {"opencode1", "opencode2"}
        BY <3>2
      <4>3. QED
        BY <4>1, <4>2, ButtonRowsRead
    <3>3. QED
      BY <3>1, <3>2
  <2>2. PICK j \in i..D : d.lines[j].hint
    BY <1>2, <1>4
  <2>3. j \in 1..D /\ L + j \in (L + i)..(L + D)
    OBVIOUS
  <2>4. lines[L + j].hint
    BY <1>5, <2>2, <2>3 DEF Alike
  <2>5. Hinted(lines, L + i)
    BY <1>6, <2>3, <2>4 DEF Hinted
  <2>6. QED
    BY <1>2, <1>5, <1>7, <2>1, <2>5
<1>9. \A x \in S : x <= L + i
  <2>1. SUFFICES ASSUME NEW x \in S PROVE x <= L + i
    OBVIOUS
  <2>2. x \in DOMAIN lines /\ lines[x].kind \in {"buttons", "step"}
    BY <1>7 DEF IsButtonRow
  <2>3. CASE x \in 1..L
    BY <2>3
  <2>4. CASE \E j \in 1..D : x = L + j
    <3>1. PICK j \in 1..D : x = L + j
      BY <2>4
    <3>2. d.lines[j].kind \in {"buttons", "step"}
      BY <1>5, <2>2, <3>1 DEF Alike
    <3>3. j = i
      BY <1>2, <1>4, <3>2
    <3>4. QED
      BY <3>1, <3>3
  <2>5. QED
    BY <1>1, <1>2, <2>2, <2>3, <2>4, ShownLines
<1>10. PICK at : at = Lowest(S)
  OBVIOUS
<1>11. at = L + i
  <2>1. PICK N \in Nat : N = L + D
    OBVIOUS
  <2>2. S \subseteq 1..N
    BY <1>2, <1>7, <2>1
  <2>3. at \in S \cup {0} /\ L + i <= at
    BY <1>8, <1>10, <2>2, LowestIs
  <2>4. at <= L + i /\ at \in Nat
    BY <1>9, <2>2, <2>3
  <2>5. QED
    BY <2>3, <2>4
<1>12. OpenCodeOwns(lines, at)
  <2>1. ASSUME NEW x \in (L + i)..(L + D) PROVE lines[x].kind # "row"
    <3>1. PICK j \in 1..D : x = L + j
      <4>1. x - L \in 1..D /\ x = L + (x - L)
        BY <2>1
      <4>2. QED
        BY <4>1
    <3>2. d.lines[j].kind # "row"
      BY <1>2, <1>4
    <3>3. Alike(lines[x], d.lines[j])
      BY <1>5, <3>1
    <3>4. QED
      BY <3>2, <3>3 DEF Alike
  <2>2. QED
    BY <1>6, <1>11, <2>1 DEF OpenCodeOwns
<1>13. /\ d.rows = Labels(labels) /\ labels # <<>> /\ DOMAIN labels # {}
       /\ lines[at].kind = "step" => labels = <<"ConfirmRejection", "CancelRejection">>
       /\ lines[at].kind # "step" => labels = lines[at].says
  <2>1. d.rows = Labels(labels)
    BY <1>4 DEF Labels, Label, Unnumbered
  <2>2. CASE d.kind = "step"
    <3>1. labels = <<"ConfirmRejection", "CancelRejection">>
      BY <2>2 DEF ButtonRows
    <3>2. lines[at].kind = "step"
      BY <1>4, <1>5, <1>11, <2>2 DEF Alike
    <3>3. labels # <<>> /\ DOMAIN labels # {}
      BY <3>1
    <3>4. QED
      BY <2>1, <3>1, <3>2, <3>3
  <2>3. CASE d.kind # "step"
    <3>1. d.kind \in {"opencode1", "opencode2"}
      BY <2>3
    <3>2. lines[at].kind = "buttons" /\ lines[at].says = labels
      BY <1>4, <1>5, <1>11, <2>3 DEF Alike
    <3>3. labels # <<>> /\ DOMAIN labels # {}
      BY <3>1, <3>2, ButtonRowsRead
    <3>4. QED
      BY <2>1, <3>2, <3>3
  <2>4. QED
    BY <2>2, <2>3
<1>14. OpenCodeOptions(lines) = d.rows
  BY <1>7, <1>10, <1>12, <1>13 DEF OpenCodeOptions
<1>15. d.rows # <<>>
  <2>1. DOMAIN d.rows = DOMAIN labels
    BY <1>13 DEF Labels
  <2>2. QED
    <3>1. PICK k : k \in DOMAIN d.rows
      BY <1>13, <2>1
    <3>2. QED
      BY <3>1
<1>16. ~Has(lines, "phrase")
  <2>1. ~Has(ls, "phrase")
    BY DEF Misreads
  <2>2. ~Has(d.lines, "phrase")
    BY <1>4 DEF Has
  <2>3. QED
    BY <2>1, <2>2, HasShown
<1>17. QED
  BY <1>14, <1>15, <1>16 DEF DetectOptions

\* No row is selectable.
NoneSelectable(lines, N) ==
    \A i \in 1..N : lines[i].kind = "row" => lines[i].boxed /\ ~lines[i].cursor

\* Nothing numbered is selectable where no row is.
LEMMA NoMenuRead ==
    ASSUME NEW N \in Nat, NEW lines, DOMAIN lines = 1..N, \A i \in 1..N : lines[i] \in Line,
           NoneSelectable(lines, N)
    PROVE  NumberedMenu(lines) = <<>>
<1>1. PICK acc : /\ Run("menu", <<>>, <<>>, Nothing, lines, N, acc)
                 /\ acc[N] = TheFold("menu", <<>>, <<>>, Nothing, lines, N)[1..N]
  BY FoldRun
<1>2. acc[0] = Nothing /\ \A m \in 1..N : acc[m] = ReadLine(acc[m - 1], lines[m])
  BY <1>1 DEF Run, Step
<1> DEFINE T == {m \in 0..N : acc[m] \in Read /\ acc[m].best = <<>> /\ ~acc[m].run.selectable}
<1>3. 0 \in T
  <2>1. Nothing.run = NoRun /\ Nothing.best = <<>> /\ Nothing = [run |-> NoRun, best |-> <<>>]
    BY DEF Nothing
  <2>2. <<>> \in Seq(Seq(STRING))
    OBVIOUS
  <2>3. Nothing \in Read
    BY <2>1, <2>2, NoRunIs DEF Read
  <2>4. ~NoRun.selectable
    BY DEF NoRun
  <2>5. QED
    BY <1>2, <2>1, <2>3, <2>4
<1>4. ASSUME NEW m \in 1..N, m - 1 \in T PROVE m \in T
  <2>1. PICK old \in Read : old = acc[m - 1] /\ old.best = <<>> /\ ~old.run.selectable
    BY <1>4
  <2>2. PICK line \in Line : line = lines[m] /\ (line.kind = "row" => line.boxed /\ ~line.cursor)
    BY DEF NoneSelectable
  <2>3. PICK r : r = acc[m] /\ r = ReadLine(old, line)
    BY <1>2, <2>1, <2>2
  <2>4. ~NoRun.selectable
    BY DEF NoRun
  <2>5. r \in Read /\ r.best = <<>> /\ ~r.run.selectable
    <3>1. CASE line.kind = "row" /\ ~Inside(old.run, line)
      <4>1. CASE line.n = 1
        BY <2>1, <2>2, <2>3, <3>1, <4>1, BeginsRun DEF Begins
      <4>2. CASE line.n # 1 /\ old.run.rows # <<>> /\ line.n = Len(old.run.rows) + 1
        <5>1. r \in Read /\ Follows(old, line, r)
          BY <2>3, <3>1, <4>2, FollowsRun
        <5>2. ~(old.run.selectable \/ line.cursor)
          BY <2>1, <2>2, <3>1
        <5>3. ~r.run.selectable
          BY <5>1, <5>2, Zenon DEF Follows
        <5>4. r.best = <<>>
          BY <2>1, <5>1, <5>3 DEF Follows
        <5>5. QED
          BY <5>1, <5>3, <5>4
      <4>3. CASE line.n # 1 /\ ~(old.run.rows # <<>> /\ line.n = Len(old.run.rows) + 1)
        BY <2>1, <2>3, <2>4, <3>1, <4>3, BreaksRun DEF Ends
      <4>4. QED
        BY <4>1, <4>2, <4>3
    <3>2. CASE (line.kind = "blank" \/ IsRule(line)) /\ (line.kind = "blank" \/ old.run.rows # <<>>)
      BY <2>1, <2>3, <3>2, StaysRun
    <3>3. CASE /\ line.kind = "row" => Inside(old.run, line)
               /\ line.kind # "blank" /\ (IsRule(line) => old.run.rows = <<>>)
      <4>1. CASE old.run.rows = <<>> \/ line.kind = "footer" \/ ~(Indent(line) > old.run.col)
        BY <2>1, <2>3, <2>4, <3>3, <4>1, EndsRun DEF Ends
      <4>2. CASE old.run.rows # <<>> /\ line.kind # "footer" /\ Indent(line) > old.run.col
        <5>1. line.col \in Nat /\ old.run.col \in Nat
          BY DEF Line, Read, RunType
        <5>2. GoesOn(line, old.run.col)
          BY <3>3, <4>2, <5>1 DEF GoesOn, Indent, IsRule
        <5>3. Continues(old, line, r) /\ r \in Read
          BY <2>3, <3>3, <4>2, <5>2, ContinuesRun
        <5>4. QED
          BY <2>1, <5>3 DEF Continues
      <4>3. QED
        BY <4>1, <4>2
    <3>4. QED
      BY <3>1, <3>2, <3>3
  <2>6. acc[m] \in Read /\ acc[m].best = <<>> /\ ~acc[m].run.selectable
    BY <2>3, <2>5
  <2>7. m \in 0..N
    OBVIOUS
  <2>8. QED
    BY <2>6, <2>7, Zenon
<1> HIDE DEF T
<1>5. N \in T
  BY <1>3, <1>4, Upwards
<1>6. acc[N].best = <<>>
  BY <1>5 DEF T
<1>7. FoldLeft(ReadLine, Nothing, lines).best = <<>>
  BY <1>1, <1>6, ReadersFold
<1>8. NumberedMenu(lines) = [k \in DOMAIN <<>> |-> [n |-> k, says |-> <<>>[k]]]
  BY <1>7 DEF NumberedMenu, Nothing
<1>9. QED
  BY <1>8

\* No list where there is no bullet.
LEMMA NoBullets ==
    ASSUME NEW N \in Nat, NEW lines, DOMAIN lines = 1..N,
           \A i \in 1..N : lines[i].kind # "bullet"
    PROVE  Bullets(lines) = <<>>
<1>1. PICK acc : /\ Run("bullets", <<>>, <<>>, <<>>, lines, N, acc)
                 /\ acc[N] = TheFold("bullets", <<>>, <<>>, <<>>, lines, N)[1..N]
  BY FoldRun
<1>2. acc[0] = <<>> /\ \A m \in 1..N : acc[m] = AddBullet(acc[m - 1], lines[m])
  BY <1>1 DEF Run, Step
<1> DEFINE T == {m \in 0..N : acc[m] = <<>>}
<1>3. 0 \in T
  BY <1>2
<1>4. ASSUME NEW m \in 1..N, m - 1 \in T PROVE m \in T
  BY <1>2, <1>4 DEF AddBullet
<1> HIDE DEF T
<1>5. N \in T
  BY <1>3, <1>4, UpToTop, Zenon
<1>6. FoldLeft(AddBullet, <<>>, lines) = <<>>
  BY <1>1, <1>5, ReadersFold DEF T
<1>7. QED
  BY <1>6 DEF Bullets

\* A prompt without choices of its own is answered with its two letters.
LEMMA PromptOffered ==
    ASSUME NEW lines, NEW ls \in Seq(Line), NEW d \in Dialog, NEW p, Shows(lines, ls, d, p),
           d.kind = "yn", PromptDrawn(d), ~Misreads(ls, d)
    PROVE  DetectOptions(lines) = d.rows
<1>1. PICK L \in Nat : L = Len(ls) /\ DOMAIN ls = 1..L
  BY DEF Shows
<1>2. PICK D \in Nat : D = Len(d.lines) /\ DOMAIN lines = 1..(L + D) /\ DOMAIN d.lines = 1..D
  BY <1>1 DEF Shows, Dialog
<1>3. PICK N \in Nat : N = L + D /\ DOMAIN lines = 1..N
  BY <1>2
<1>4. ASSUME NEW x \in 1..N
      PROVE  /\ lines[x] \in Line /\ ~lines[x].hint
             /\ lines[x].kind \notin {"phrase", "bullet", "title", "ask"}
             /\ lines[x].kind = "row" => lines[x].boxed /\ ~lines[x].cursor
  <2>1. lines[x] \in Line
    BY <1>3 DEF Shows
  <2>2. CASE x \in 1..L /\ lines[x] = ls[x]
    BY <1>1, <2>1, <2>2 DEF Misreads, Has
  <2>3. CASE \E j \in 1..D : x = L + j
    <3>1. PICK j \in 1..D : x = L + j
      BY <2>3
    <3>2. Alike(lines[x], d.lines[j])
      BY <1>1, <1>2, <3>1 DEF Shows
    <3>3. QED
      BY <1>2, <2>1, <3>2 DEF PromptDrawn, Alike
  <2>4. QED
    BY <1>1, <1>2, <1>3, <2>2, <2>3, ShownLines
<1>5. OpenCodeOptions(lines) = <<>>
  <2>1. PICK S : S = {x \in DOMAIN lines :
                        (IsButtonRow(lines[x]) \/ lines[x].kind = "step") /\ Hinted(lines, x)}
    OBVIOUS
  <2>2. Len(lines) = N
    BY <1>3, LenProperties
  <2>3. S = {}
    <3>1. \A x \in DOMAIN lines : ~Hinted(lines, x)
      BY <1>3, <1>4, <2>2 DEF Hinted
    <3>2. QED
      BY <2>1, <3>1
  <2>4. PICK at : at = Lowest(S)
    OBVIOUS
  <2>5. at = 0
    <3>1. S \subseteq 1..N
      BY <2>3
    <3>2. at \in S \cup {0}
      BY <2>4, <3>1, LowestIs
    <3>3. QED
      BY <2>3, <3>2
  <2>6. ~OpenCodeOwns(lines, at)
    BY <2>5 DEF OpenCodeOwns
  <2>7. ~\E x \in DOMAIN lines : lines[x].kind = "title"
    BY <1>3, <1>4
  <2>8. QED
    BY <2>1, <2>4, <2>6, <2>7 DEF OpenCodeOptions
<1>6. NumberedMenu(lines) = <<>>
  <2>1. NoneSelectable(lines, N)
    BY <1>4, Zenon DEF NoneSelectable
  <2>2. QED
    BY <1>3, <1>4, <2>1, NoMenuRead
<1>7. Bullets(lines) = <<>>
  BY <1>3, <1>4, NoBullets
<1>8. ~Has(lines, "phrase") /\ ~Has(lines, "ask")
  BY <1>3, <1>4 DEF Has
<1>9. Has(lines, "yn")
  <2>1. Has(d.lines, "yn")
    BY DEF PromptDrawn, Has
  <2>2. QED
    BY <2>1, HasShown
<1>10. d.rows = Labels(<<"y", "n">>)
  BY DEF PromptDrawn, Labels, Label, Unnumbered
<1>11. QED
  BY <1>5, <1>6, <1>7, <1>8, <1>9, <1>10 DEF DetectOptions

-----------------------------------------------------------------------------
(* question_block: from the rule to the last row.                           *)

\* Lines that look the same are kept as the same.
LEMMA CleanedAlike ==
    ASSUME NEW n \in Nat, NEW a, NEW b, DOMAIN a = 1..n, DOMAIN b = 1..n,
           \A i \in 1..n : Alike(a[i], b[i])
    PROVE  Cleaned(a) = Cleaned(b)
<1>1. PICK f : /\ Run("cleaned", <<>>, <<>>, <<>>, a, n, f)
               /\ f[n] = TheFold("cleaned", <<>>, <<>>, <<>>, a, n)[1..n]
  BY FoldRun
<1>2. PICK g : /\ Run("cleaned", <<>>, <<>>, <<>>, b, n, g)
               /\ g[n] = TheFold("cleaned", <<>>, <<>>, <<>>, b, n)[1..n]
  BY FoldRun
<1>3. f[0] = <<>> /\ \A m \in 1..n : f[m] = AddCleaned(f[m - 1], a[m])
  BY <1>1 DEF Run, Step
<1>4. g[0] = <<>> /\ \A m \in 1..n : g[m] = AddCleaned(g[m - 1], b[m])
  BY <1>2 DEF Run, Step
<1> DEFINE T == {m \in 0..n : f[m] = g[m]}
<1>5. 0 \in T
  BY <1>3, <1>4
<1>6. ASSUME NEW m \in 1..n, m - 1 \in T PROVE m \in T
  <2>1. f[m - 1] = g[m - 1] /\ Alike(a[m], b[m])
    BY <1>6
  <2>2. AddCleaned(f[m - 1], a[m]) = AddCleaned(g[m - 1], b[m])
    BY <2>1 DEF AddCleaned, Alike
  <2>3. QED
    BY <1>3, <1>4, <2>2
<1> HIDE DEF T
<1>7. n \in T
  BY <1>5, <1>6, Upwards
<1>8. QED
  BY <1>1, <1>2, <1>7, ReadersFold DEF T

\* A label begins as its row does.
LEMMA LabelBegins ==
    ASSUME NEW d \in Dialog, NEW n, NEW c, MenuRows(d, n, c),
           NEW end, NEW label, MenuSays(d, n, c, end, label), NEW k \in 1..n
    PROVE  Head(d.lines[d.at[k]].says) = Head(d.rows[k].says)
<1>1. PICK D \in Nat : D = Len(d.lines) /\ DOMAIN d.lines = 1..D
  BY DEF Dialog
<1>2. /\ n \in Nat /\ n >= 2 /\ DOMAIN d.at = 1..n /\ \A j \in 1..n : d.at[j] \in 1..D
      /\ \A j, l \in 1..n : j < l => d.at[j] < d.at[l]
  BY <1>1 DEF MenuRows
<1>3. \A i \in 1..D : d.lines[i].says \in Seq(STRING)
  <2>1. \A i \in 1..D : d.lines[i] \in Line
    BY <1>1 DEF Dialog
  <2>2. QED
    BY <2>1 DEF Line
<1>4. PICK f \in 1..D : f = d.at[k]
  BY <1>2
<1>5. PICK says \in Seq(STRING) : says = d.lines[f].says /\ says # <<>>
  BY <1>3, <1>4 DEF MenuRows
<1>6. end \in d.at[n]..D /\ d.at[1] <= f /\ f <= d.at[n]
  <2>1. end \in d.at[n]..D
    BY <1>1 DEF MenuSays
  <2>2. d.at[1] <= f
    <3>1. CASE k = 1
      BY <1>4, <3>1
    <3>2. CASE 1 < k
      BY <1>2, <1>4, <3>2
    <3>3. QED
      BY <1>2, <3>1, <3>2
  <2>3. f <= d.at[n]
    <3>1. CASE k = n
      BY <1>4, <3>1
    <3>2. CASE k < n
      <4>1. n \in 1..n
        BY <1>2
      <4>2. QED
        BY <1>2, <1>4, <3>2, <4>1
    <3>3. QED
      BY <1>2, <3>1, <3>2
  <2>4. QED
    BY <2>1, <2>2, <2>3
<1>7. PICK e \in f..end : /\ label[e] = d.rows[k].says
                          /\ \A i \in (f + 1)..e : i \notin Range(d.at)
  <2>1. ASSUME NEW i, NEW j \in 1..n, i = d.at[j], i > f PROVE j > k
    <3>1. SUFFICES ASSUME j <= k PROVE FALSE
      BY <1>2
    <3>2. d.at[j] <= d.at[k]
      <4>1. CASE j = k
        BY <1>4, <4>1
      <4>2. CASE j < k
        BY <1>2, <1>4, <4>2
      <4>3. QED
        BY <1>2, <3>1, <4>1, <4>2
    <3>3. QED
      BY <1>2, <1>4, <2>1, <3>2
  <2>2. CASE k = n
    <3>1. label[end] = d.rows[k].says /\ end \in f..end
      BY <1>6, <1>4, <2>2 DEF MenuSays
    <3>2. ASSUME NEW i \in (f + 1)..end, i \in Range(d.at) PROVE FALSE
      <4>1. PICK j \in 1..n : i = d.at[j]
        BY <1>2, <3>2 DEF Range
      <4>2. j > k
        BY <2>1, <4>1
      <4>3. QED
        BY <1>2, <2>2, <4>2
    <3>3. QED
      BY <3>1, <3>2
  <2>3. CASE k < n
    <3>1. k + 1 \in 1..n /\ k \in 1..(n - 1)
      BY <1>2, <2>3
    <3>2. PICK g \in 1..D : g = d.at[k + 1]
      BY <1>2, <3>1
    <3>3. f < g /\ g <= d.at[n]
      <4>1. f < g
        BY <1>2, <1>4, <3>1, <3>2
      <4>2. CASE k + 1 = n
        BY <3>2, <4>1, <4>2
      <4>3. CASE k + 1 < n
        <5>1. n \in 1..n
          BY <1>2
        <5>2. QED
          BY <1>2, <3>1, <3>2, <4>1, <4>3, <5>1
      <4>4. QED
        BY <3>1, <4>2, <4>3, <1>2
    <3>4. label[g - 1] = d.rows[k].says
      BY <3>1, <3>2 DEF MenuSays
    <3>5. g - 1 \in f..end
      <4>1. d.at[n] \in Nat /\ end \in Int /\ d.at[n] <= end
        <5>1. n \in 1..n
          BY <1>2
        <5>2. QED
          BY <1>2, <1>6, <5>1
      <4>2. QED
        BY <3>3, <4>1
    <3>6. ASSUME NEW i \in (f + 1)..(g - 1), i \in Range(d.at) PROVE FALSE
      <4>1. PICK j \in 1..n : i = d.at[j]
        BY <1>2, <3>6 DEF Range
      <4>2. j > k
        BY <2>1, <4>1
      <4>3. CASE j = k + 1
        BY <3>2, <4>1, <4>3
      <4>4. CASE k + 1 < j
        <5>1. d.at[k + 1] < d.at[j]
          BY <1>2, <3>1, <4>4
        <5>2. QED
          BY <3>2, <4>1, <5>1
      <4>5. QED
        BY <1>2, <4>2, <4>3, <4>4
    <3>7. QED
      BY <3>4, <3>5, <3>6
  <2>4. QED
    BY <1>2, <2>2, <2>3
<1> DEFINE T == {x \in 0..(e - f) : /\ label[f + x] \in Seq(STRING) /\ label[f + x] # <<>>
                                    /\ Head(label[f + x]) = Head(says)}
<1>8. 0 \in T
  <2>1. f \in Range(d.at) /\ f \in d.at[1]..end
    <3>1. f \in Range(d.at)
      BY <1>2, <1>4 DEF Range
    <3>2. f \in d.at[1]..end
      <4>1. d.at[1] \in Nat /\ d.at[n] \in Nat
        <5>1. n \in 1..n /\ 1 \in 1..n
          BY <1>2
        <5>2. QED
          BY <1>2, <5>1
      <4>2. end \in Nat /\ f <= end
        BY <1>6, <4>1
      <4>3. QED
        BY <1>6, <4>1, <4>2
    <3>3. QED
      BY <3>1, <3>2
  <2>2. label[f] = d.lines[f].says
    BY <2>1 DEF MenuSays
  <2>3. f + 0 = f /\ 0 \in 0..(e - f)
    BY <1>7
  <2>4. label[f + 0] = says
    BY <1>5, <2>2, <2>3
  <2>5. QED
    BY <1>5, <2>3, <2>4
<1>9. ASSUME NEW m \in 1..(e - f), m - 1 \in T PROVE m \in T
  <2>1. PICK x \in (f + 1)..e : x = f + m
    BY <1>7
  <2>2. x \in d.at[1]..end /\ x \notin Range(d.at) /\ x \in 1..D
    <3>1. d.at[1] \in Nat /\ d.at[n] \in Nat /\ end \in Int /\ end <= D
      <4>1. n \in 1..n /\ 1 \in 1..n
        BY <1>2
      <4>2. QED
        BY <1>2, <1>6, <4>1
    <3>2. QED
      BY <1>6, <1>7, <2>1, <3>1
  <2>3. label[x] = IF GoesOn(d.lines[x], c) THEN label[x - 1] \o d.lines[x].says
                   ELSE label[x - 1]
    BY <2>2 DEF MenuSays
  <2>4. PICK old \in Seq(STRING) : old = label[x - 1] /\ old # <<>> /\ Head(old) = Head(says)
    <3>1. x - 1 = f + (m - 1)
      BY <2>1
    <3>2. QED
      BY <1>9, <3>1
  <2>5. PICK more \in Seq(STRING) : more = d.lines[x].says
    BY <1>3, <2>2
  <2>6. old \o more \in Seq(STRING) /\ old \o more # <<>> /\ Head(old \o more) = Head(says)
    <3>1. Len(old) \in Nat \ {0} /\ Len(more) \in Nat
      BY <2>4
    <3>2. Len(old \o more) = Len(old) + Len(more) /\ old \o more \in Seq(STRING)
      BY ConcatProperties
    <3>3. (old \o more)[1] = old[1]
      BY <3>1, ConcatProperties
    <3>4. old \o more # <<>>
      BY <3>1, <3>2
    <3>5. QED
      BY <2>4, <3>2, <3>3, <3>4
  <2>7. label[x] \in Seq(STRING) /\ label[x] # <<>> /\ Head(label[x]) = Head(says)
    BY <2>3, <2>4, <2>5, <2>6
  <2>8. QED
    BY <2>1, <2>7
<1> HIDE DEF T
<1>10. PICK m \in Nat : m = e - f
  BY <1>7
<1>11. m \in T
  <2>1. \A x \in 1..m : x - 1 \in T => x \in T
    BY <1>9, <1>10
  <2>2. \A x \in 0..m : x \in T
    BY <1>8, <2>1, Upwards
  <2>3. QED
    BY <2>2
<1>12. f + m = e
  BY <1>7, <1>10
<1>13. Head(label[e]) = Head(says)
  BY <1>11, <1>12 DEF T
<1>14. QED
  BY <1>4, <1>5, <1>7, <1>13

\* So each row of a menu reads like one of its choices, and no line below the last does.
LEMMA RowsOffer ==
    ASSUME NEW d \in Dialog, NEW n, NEW c, MenuRows(d, n, c),
           NEW end, NEW label, MenuSays(d, n, c, end, label), NEW i \in 1..Len(d.lines),
           NEW line, Alike(line, d.lines[i])
    PROVE  /\ i \in Range(d.at) => Offers(line, d.rows)
           /\ Offers(line, d.rows) => i <= d.at[n]
<1>1. ASSUME i \in Range(d.at) PROVE Offers(line, d.rows)
  <2>1. PICK k \in 1..n : i = d.at[k]
    BY <1>1 DEF Range, MenuRows
  <2>2. k \in DOMAIN d.rows /\ d.rows[k].n = line.n /\ line.kind = "row"
    BY <2>1 DEF MenuRows, Alike
  <2>3. Head(line.says) = Head(d.rows[k].says)
    BY <2>1, LabelBegins DEF Alike
  <2>4. QED
    BY <2>2, <2>3 DEF Offers
<1>2. ASSUME Offers(line, d.rows) PROVE i <= d.at[n]
  <2>1. d.lines[i].kind \in {"row", "buttons"}
    BY <1>2 DEF Offers, Alike
  <2>2. QED
    BY <2>1 DEF MenuRows
<1>3. QED
  BY <1>1, <1>2

\* Where the walk upward stands.
WalkType == [start: Nat, top: Nat, done: BOOLEAN]

\* A line that does not end the block is passed.
LEMMA WalksOn ==
    ASSUME NEW lines, NEW options, NEW at \in WalkType, ~at.done, NEW i \in Nat,
           ~(at.top - at.start >= BlockLines), ~EndsBlock(lines, i, options),
           NEW r, r = Upward(lines, options, at, i)
    PROVE  /\ r \in WalkType /\ r.start = i /\ ~r.done
           /\ r.top = IF Offers(lines[i], options) THEN i ELSE at.top
<1>1. PICK top : top = IF Offers(lines[i], options) THEN i ELSE at.top
  OBVIOUS
<1>2. r = [at EXCEPT !.start = i, !.top = top]
  BY <1>1 DEF Upward
<1>3. top \in Nat
  BY <1>1 DEF WalkType
<1>4. r \in WalkType /\ r.start = i /\ r.top = top /\ r.done = at.done
  BY <1>2, <1>3 DEF WalkType
<1>5. QED
  BY <1>1, <1>4

\* Where it has ended it stays.
LEMMA WalkEnds ==
    ASSUME NEW lines, NEW options, NEW at \in WalkType, NEW i,
           at.done \/ EndsBlock(lines, i, options),
           NEW r, r = Upward(lines, options, at, i)
    PROVE  r \in WalkType /\ r.start = at.start /\ r.done
<1>1. r = [at EXCEPT !.done = TRUE]
  BY DEF Upward
<1>2. QED
  BY <1>1 DEF WalkType

\* A rule parts the dialog from the transcript, and nothing above it reads like a row.
Parted(ls, d) ==
    /\ d.lines[1].kind = "edge"
    /\ \A k \in 1..Len(ls) : ~Offers(ls[k], d.rows)

\* The block is anchored on the last row.
LEMMA BlockAnchor ==
    ASSUME NEW lines, NEW ls \in Seq(Line), NEW d \in Dialog, NEW p, Shows(lines, ls, d, p),
           NEW n, NEW c, MenuRows(d, n, c), NEW end, NEW label, MenuSays(d, n, c, end, label)
    PROVE  Lowest({i \in DOMAIN lines : Offers(lines[i], d.rows)}) = Len(ls) + d.at[n]
<1>1. PICK L \in Nat : L = Len(ls)
  BY DEF Shows
<1>2. PICK D \in Nat : D = Len(d.lines) /\ DOMAIN lines = 1..(L + D)
  BY <1>1 DEF Shows
<1>3. n \in 1..n /\ d.at[n] \in 1..D /\ DOMAIN d.at = 1..n
  BY <1>2 DEF MenuRows
<1>4. PICK S : S = {i \in DOMAIN lines : Offers(lines[i], d.rows)}
  OBVIOUS
<1>5. \A i \in 1..D : Alike(lines[L + i], d.lines[i]) /\ L + i \in DOMAIN lines
  BY <1>1, <1>2 DEF Shows
<1>6. L + d.at[n] \in S
  <2>1. d.at[n] \in Range(d.at)
    BY <1>3 DEF Range
  <2>2. Offers(lines[L + d.at[n]], d.rows)
    BY <1>2, <1>3, <1>5, <2>1, RowsOffer
  <2>3. QED
    BY <1>3, <1>4, <1>5, <2>2
<1>7. \A x \in S : x <= L + d.at[n]
  <2>1. SUFFICES ASSUME NEW x \in S PROVE x <= L + d.at[n]
    OBVIOUS
  <2>2. x \in DOMAIN lines /\ Offers(lines[x], d.rows)
    BY <1>4
  <2>3. CASE x \in 1..L
    BY <1>3, <2>3
  <2>4. CASE \E i \in 1..D : x = L + i
    <3>1. PICK i \in 1..D : x = L + i
      BY <2>4
    <3>2. i <= d.at[n]
      BY <1>2, <1>5, <2>2, <3>1, RowsOffer
    <3>3. QED
      BY <1>3, <3>1, <3>2
  <2>5. QED
    <3>1. x \in 1..L \/ \E i \in 1..D : x = L + i
      BY <1>1, <1>2, <2>2, ShownLines
    <3>2. QED
      BY <2>3, <2>4, <3>1
<1>8. PICK N \in Nat : N = L + D
  OBVIOUS
<1>9. S \subseteq 1..N
  BY <1>2, <1>4, <1>8
<1>10. PICK m : m = Lowest(S)
  OBVIOUS
<1>11. m \in S \cup {0} /\ \A x \in S : x <= m
  BY <1>9, <1>10, LowestIs
<1>12. m = L + d.at[n]
  <2>1. L + d.at[n] <= m
    BY <1>6, <1>11
  <2>2. m # 0 /\ m \in Nat
    <3>1. m = 0 \/ m \in 1..N
      BY <1>9, <1>11
    <3>2. QED
      BY <1>3, <2>1, <3>1
  <2>3. m <= L + d.at[n]
    BY <1>7, <1>11, <2>2
  <2>4. QED
    BY <1>3, <2>1, <2>2, <2>3
<1>13. QED
  BY <1>1, <1>4, <1>10, <1>12

\* Within the dialog the walk meets no end of the block.
LEMMA NoEndInside ==
    ASSUME NEW lines, NEW ls \in Seq(Line), NEW d \in Dialog, NEW p, Shows(lines, ls, d, p),
           NEW n, NEW c, MenuRows(d, n, c), NEW end, NEW label, MenuSays(d, n, c, end, label),
           BlockDrawn(d), NEW x \in 2..(d.at[n] - 1)
    PROVE  ~EndsBlock(lines, Len(ls) + x, d.rows)
<1>1. PICK L \in Nat : L = Len(ls)
  BY DEF Shows
<1>2. PICK D \in Nat : D = Len(d.lines) /\ DOMAIN lines = 1..(L + D)
  BY <1>1 DEF Shows
<1>3. n \in 1..n /\ d.at[n] \in 1..D /\ DOMAIN d.at = 1..n /\ \A k \in 1..n : d.at[k] \in 1..D
  BY <1>2 DEF MenuRows
<1>4. \A i \in 1..D : Alike(lines[L + i], d.lines[i])
  BY <1>1, <1>2 DEF Shows
<1>5. x \in 1..D /\ x - 1 \in 1..D /\ x \in 2..(Last(d.at) - 1)
  <2>1. Last(d.at) = d.at[n]
    BY <1>3 DEF Last, Dialog
  <2>2. QED
    BY <1>3, <2>1
<1>6. ASSUME lines[L + x].kind = "blank", lines[(L + x) - 1].kind = "blank" PROVE FALSE
  <2>1. (L + x) - 1 = L + (x - 1)
    BY <1>5
  <2>2. d.lines[x].kind = "blank" /\ d.lines[x - 1].kind = "blank"
    BY <1>4, <1>5, <1>6, <2>1 DEF Alike
  <2>3. QED
    BY <1>5, <2>2 DEF BlockDrawn
<1>7. ASSUME lines[L + x].kind = "edge" PROVE RuleInMenu(lines, L + x, d.rows)
  <2>1. d.lines[x].kind = "edge"
    BY <1>4, <1>5, <1>7 DEF Alike
  <2>2. PICK j \in Range(d.at) : j < x /\ \A m \in (j + 1)..(x - 1) : d.lines[m].kind = "blank"
    BY <1>5, <2>1 DEF BlockDrawn
  <2>3. PICK k \in 1..n : j = d.at[k]
    BY <1>3 DEF Range
  <2>4. j \in 1..D /\ d.lines[j].kind = "row"
    BY <1>3, <2>3 DEF MenuRows
  <2>5. PICK S : S = {m \in 1..((L + x) - 1) : lines[m].kind # "blank"}
    OBVIOUS
  <2>6. PICK N \in Nat : N = (L + x) - 1
    BY <1>5
  <2>7. S \subseteq 1..N /\ L + j \in S
    <3>1. lines[L + j].kind = "row"
      BY <1>4, <2>4 DEF Alike
    <3>2. L + j \in 1..((L + x) - 1)
      BY <1>5, <2>2, <2>4
    <3>3. QED
      BY <2>5, <2>6, <3>1, <3>2
  <2>8. PICK above : above = Lowest(S)
    OBVIOUS
  <2>9. above \in S \cup {0} /\ L + j <= above
    BY <2>7, <2>8, LowestIs
  <2>10. above \in S /\ above \in Nat
    BY <2>4, <2>7, <2>9
  <2>11. above = L + j
    <3>1. SUFFICES ASSUME above # L + j PROVE FALSE
      OBVIOUS
    <3>2. above - L \in (j + 1)..(x - 1) /\ above = L + (above - L) /\ above - L \in 1..D
      BY <1>5, <2>4, <2>5, <2>9, <2>10, <3>1
    <3>3. d.lines[above - L].kind = "blank"
      BY <2>2, <3>2
    <3>4. lines[above].kind = "blank"
      BY <1>4, <3>2, <3>3 DEF Alike
    <3>5. QED
      BY <2>5, <2>10, <3>4
  <2>12. Offers(lines[above], d.rows)
    BY <1>2, <1>4, <2>4, <2>11, RowsOffer
  <2>13. above # 0
    BY <2>4, <2>11
  <2>14. QED
    BY <2>5, <2>8, <2>12, <2>13 DEF RuleInMenu
<1>8. QED
  BY <1>1, <1>6, <1>7 DEF EndsBlock

\* The rule above it ends it.
LEMMA EndAtRule ==
    ASSUME NEW lines, NEW ls \in Seq(Line), NEW d \in Dialog, NEW p, Shows(lines, ls, d, p),
           1 \in 1..Len(d.lines), Parted(ls, d)
    PROVE  EndsBlock(lines, Len(ls) + 1, d.rows)
<1>1. PICK L \in Nat : L = Len(ls)
  BY DEF Shows
<1>2. lines[L + 1].kind = "edge"
  BY <1>1 DEF Shows, Alike, Parted
<1>3. PICK S : S = {m \in 1..((L + 1) - 1) : lines[m].kind # "blank"}
  OBVIOUS
<1>4. S \subseteq 1..L
  BY <1>3
<1>5. PICK above : above = Lowest(S)
  OBVIOUS
<1>6. above \in S \cup {0}
  BY <1>4, <1>5, LowestIs
<1>7. above # 0 => ~Offers(lines[above], d.rows)
  <2>1. SUFFICES ASSUME above # 0 PROVE ~Offers(lines[above], d.rows)
    OBVIOUS
  <2>2. above \in 1..L
    BY <1>4, <1>6, <2>1
  <2>3. lines[above] = ls[above]
    BY <1>1, <2>2 DEF Shows
  <2>4. QED
    BY <1>1, <2>2, <2>3 DEF Parted
<1>8. ~RuleInMenu(lines, L + 1, d.rows)
  BY <1>3, <1>5, <1>7 DEF RuleInMenu
<1>9. QED
  BY <1>1, <1>2, <1>8 DEF EndsBlock

\* acc is the walk upward from the last row, line A of the screen.
Walks(lines, ls, d, n, A, acc) ==
    /\ A \in Nat /\ A = Len(ls) + d.at[n]
    /\ Run("upward", lines, d.rows, [start |-> A, top |-> A, done |-> FALSE],
           [k \in 1..(A - 1) |-> A - k], A - 1, acc)

\* It stops under the rule.
LEMMA WalkStops ==
    ASSUME NEW lines, NEW ls \in Seq(Line), NEW d \in Dialog, NEW p, Shows(lines, ls, d, p),
           NEW n, NEW c, MenuRows(d, n, c), NEW end, NEW label, MenuSays(d, n, c, end, label),
           BlockDrawn(d), Parted(ls, d), NEW A, NEW acc, Walks(lines, ls, d, n, A, acc)
    PROVE  acc[A - 1].start = Len(ls) + 2
<1>1. PICK L \in Nat : L = Len(ls)
  BY DEF Shows
<1>2. PICK D \in Nat : D = Len(d.lines) /\ DOMAIN lines = 1..(L + D)
  BY <1>1 DEF Shows
<1>3. /\ n \in 1..n /\ d.at[n] \in 1..D /\ DOMAIN d.at = 1..n /\ \A k \in 1..n : d.at[k] \in 1..D
      /\ 1 \in 1..n /\ d.at[1] < d.at[n]
  <2>1. /\ n \in Nat /\ n >= 2 /\ DOMAIN d.at = 1..n /\ \A k \in 1..n : d.at[k] \in 1..D
        /\ \A j, k \in 1..n : j < k => d.at[j] < d.at[k]
    BY <1>2 DEF MenuRows
  <2>2. n \in 1..n /\ 1 \in 1..n /\ 1 < n
    BY <2>1
  <2>3. d.at[n] \in 1..D /\ d.at[1] < d.at[n]
    BY <2>1, <2>2
  <2>4. QED
    BY <2>1, <2>2, <2>3
<1>4. PICK b \in 1..D : b = d.at[n]
  BY <1>3
<1>5. A \in Nat /\ A = L + b /\ b \in Nat /\ b > 2
  <2>1. d.at[1] # 1
    BY DEF MenuRows, Parted
  <2>2. d.at[1] \in 1..D
    BY <1>3
  <2>3. b > 2
    BY <1>3, <1>4, <2>1, <2>2
  <2>4. A \in Nat /\ A = Len(ls) + d.at[n]
    BY DEF Walks
  <2>5. QED
    BY <1>1, <1>4, <2>3, <2>4
<1>6. PICK M \in Nat : M = A - 1
  BY <1>5
<1>7. /\ acc[0] = [start |-> A, top |-> A, done |-> FALSE]
      /\ \A m \in 1..M : acc[m] = Upward(lines, d.rows, acc[m - 1], A - m)
  <2>1. acc[0] = [start |-> A, top |-> A, done |-> FALSE]
    BY DEF Walks, Run
  <2>2. ASSUME NEW m \in 1..M PROVE acc[m] = Upward(lines, d.rows, acc[m - 1], A - m)
    <3>1. [k \in 1..(A - 1) |-> A - k][m] = A - m
      BY <1>6
    <3>2. QED
      BY <1>6, <3>1 DEF Walks, Run, Step
  <2>3. QED
    BY <2>1, <2>2
<1>8. \A i \in 1..D : Alike(lines[L + i], d.lines[i])
  BY <1>1, <1>2 DEF Shows
<1>9. Last(d.at) = b
  BY <1>3, <1>4 DEF Last, Dialog
<1> DEFINE T == {m \in 0..(b - 2) :
                   /\ acc[m] \in WalkType /\ acc[m].start = A - m /\ ~acc[m].done
                   /\ \A k \in 1..n : A - m <= L + d.at[k] => acc[m].top <= L + d.at[k]}
<1>10. 0 \in T
  <2>1. acc[0] \in WalkType /\ acc[0].start = A /\ ~acc[0].done /\ acc[0].top = A
    BY <1>7, <1>5 DEF WalkType
  <2>2. 0 \in 0..(b - 2) /\ A - 0 = A
    BY <1>5
  <2>3. QED
    BY <2>1, <2>2
<1> HIDE DEF T
<1>11. ASSUME NEW m \in 1..(b - 2), m - 1 \in T PROVE m \in T
  <2>1. PICK at \in WalkType : at = acc[m - 1]
    BY <1>11 DEF T
  <2>2. /\ at.start = A - (m - 1) /\ ~at.done
        /\ \A k \in 1..n : A - (m - 1) <= L + d.at[k] => at.top <= L + d.at[k]
    BY <1>11, <2>1 DEF T
  <2>3. PICK x \in 2..(b - 1) : x = b - m /\ L + x = A - m /\ at.start = L + x + 1
    <3>1. b - m \in 2..(b - 1) /\ L + (b - m) = A - m /\ A - (m - 1) = L + (b - m) + 1
      <4>1. m \in Nat /\ m >= 1 /\ m <= b - 2
        BY <1>5
      <4>2. b - m \in 2..(b - 1)
        BY <1>5, <4>1
      <4>3. L + (b - m) = A - m /\ A - (m - 1) = L + (b - m) + 1
        BY <1>5, <4>1
      <4>4. QED
        BY <4>2, <4>3
    <3>2. QED
      BY <2>2, <3>1
  <2>4. ~EndsBlock(lines, L + x, d.rows)
    BY <1>1, <1>4, <2>3, NoEndInside
  <2>5. ~(at.top - at.start >= BlockLines)
    <3>1. PICK j \in Range(d.at) : x < j /\ j <= x + BlockLines
      BY <1>9, <2>3 DEF BlockDrawn
    <3>2. PICK k \in 1..n : j = d.at[k]
      BY <1>3 DEF Range
    <3>3. j \in 1..D
      BY <1>3, <3>2
    <3>4. A - (m - 1) <= L + j
      BY <1>5, <2>3, <3>1, <3>3
    <3>5. at.top <= L + j
      BY <2>2, <3>2, <3>4
    <3>6. at.top \in Nat /\ BlockLines \in Nat
      BY ConstantsOK DEF WalkType
    <3>7. QED
      BY <2>3, <3>1, <3>3, <3>5, <3>6
  <2>6. PICK i \in Nat : i = L + x
    BY <2>3
  <2>7. acc[m] = Upward(lines, d.rows, at, i)
    <3>1. m \in 1..M /\ A - m = i
      BY <1>5, <1>6, <2>3, <2>6
    <3>2. QED
      BY <1>7, <2>1, <3>1
  <2>8. PICK r : r = acc[m]
    OBVIOUS
  <2>9. /\ r \in WalkType /\ r.start = i /\ ~r.done
        /\ r.top = IF Offers(lines[i], d.rows) THEN i ELSE at.top
    BY <2>2, <2>4, <2>5, <2>6, <2>7, <2>8, WalksOn
  <2>10. ASSUME NEW k \in 1..n, A - m <= L + d.at[k] PROVE r.top <= L + d.at[k]
    <3>1. d.at[k] \in 1..D
      BY <1>3
    <3>2. CASE d.at[k] = x
      <4>1. Alike(lines[i], d.lines[x]) /\ x \in 1..D /\ x \in Range(d.at)
        BY <1>3, <1>8, <2>6, <3>1, <3>2 DEF Range
      <4>2. Offers(lines[i], d.rows)
        BY <1>2, <4>1, RowsOffer
      <4>3. QED
        BY <2>6, <2>9, <3>2, <4>2
    <3>3. CASE d.at[k] # x
      <4>1. A - (m - 1) <= L + d.at[k]
        BY <1>5, <2>3, <2>10, <3>1, <3>3
      <4>2. at.top <= L + d.at[k]
        BY <2>2, <4>1
      <4>3. i <= L + d.at[k]
        BY <2>3, <2>6, <2>10
      <4>4. QED
        BY <2>9, <4>2, <4>3
    <3>4. QED
      BY <3>2, <3>3
  <2>11. r.start = A - m
    BY <2>3, <2>6, <2>9
  <2>12. QED
    BY <2>8, <2>9, <2>10, <2>11 DEF T
<1>12. PICK w \in Nat : w = b - 2
  BY <1>5
<1>13. w \in T
  BY <1>10, <1>11, <1>12, UpToTop, Zenon
<1>14. PICK at \in WalkType : at = acc[w] /\ at.start = L + 2
  <2>1. acc[w] \in WalkType /\ acc[w].start = A - w
    BY <1>13 DEF T
  <2>2. A - w = L + 2
    BY <1>5, <1>12
  <2>3. QED
    BY <2>1, <2>2
<1>15. PICK r : r = acc[w + 1]
  OBVIOUS
<1>16. r \in WalkType /\ r.start = L + 2 /\ r.done
  <2>1. w + 1 \in 1..M /\ (w + 1) - 1 = w /\ A - (w + 1) = L + 1
    BY <1>5, <1>6, <1>12
  <2>2. r = Upward(lines, d.rows, at, L + 1)
    BY <1>7, <1>14, <1>15, <2>1
  <2>3. EndsBlock(lines, L + 1, d.rows)
    BY <1>1, <1>2, <1>5, EndAtRule
  <2>4. QED
    BY <1>14, <2>2, <2>3, WalkEnds
<1> DEFINE U == {m \in 0..(M - (w + 1)) : /\ acc[w + 1 + m] \in WalkType
                                          /\ acc[w + 1 + m].start = L + 2 /\ acc[w + 1 + m].done}
<1>17. M - (w + 1) \in Nat
  BY <1>5, <1>6, <1>12
<1>18. 0 \in U
  <2>1. w + 1 + 0 = w + 1 /\ 0 \in 0..(M - (w + 1))
    BY <1>17
  <2>2. QED
    BY <1>15, <1>16, <2>1
<1>19. ASSUME NEW m \in 1..(M - (w + 1)), m - 1 \in U PROVE m \in U
  <2>1. PICK x \in 1..M : x = w + 1 + m /\ x - 1 = w + 1 + (m - 1)
    <3>1. w + 1 + m \in 1..M /\ (w + 1 + m) - 1 = w + 1 + (m - 1)
      BY <1>6, <1>12
    <3>2. QED
      BY <3>1
  <2>2. PICK old \in WalkType : old = acc[x - 1] /\ old.start = L + 2 /\ old.done
    BY <1>19, <2>1
  <2>3. PICK s : s = acc[x]
    OBVIOUS
  <2>4. PICK i : i = A - x
    OBVIOUS
  <2>5. s = Upward(lines, d.rows, old, i)
    BY <1>7, <2>1, <2>2, <2>3, <2>4
  <2>6. s \in WalkType /\ s.start = L + 2 /\ s.done
    BY <2>2, <2>5, WalkEnds
  <2>7. QED
    BY <2>1, <2>3, <2>6
<1> HIDE DEF U
<1>20. M - (w + 1) \in U
  BY <1>17, <1>18, <1>19, UpToTop, Zenon
<1>21. w + 1 + (M - (w + 1)) = M
  BY <1>6, <1>12
<1>22. acc[M].start = L + 2
  BY <1>20, <1>21 DEF U
<1>23. QED
  BY <1>1, <1>6, <1>22

\* A part of some lines.
LEMMA PartOfScreen ==
    ASSUME NEW s \in Seq(Line), NEW m \in Nat \ {0}, NEW n \in Nat, m <= n, n <= Len(s)
    PROVE  /\ DOMAIN SubSeq(s, m, n) = 1..((n - m) + 1)
           /\ \A i \in 1..((n - m) + 1) : SubSeq(s, m, n)[i] = s[m + i - 1]
<1>1. \A i \in m..n : s[i] \in Line
  OBVIOUS
<1>2. /\ SubSeq(s, m, n) \in Seq(Line) /\ Len(SubSeq(s, m, n)) = (n - m) + 1
      /\ \A i \in 1..((n - m) + 1) : SubSeq(s, m, n)[i] = s[m + i - 1]
  BY <1>1, SubSeqProperties
<1>3. QED
  BY <1>2

\* The block is the dialog's lines from the rule to its last row.
LEMMA BlockIsWhole ==
    ASSUME NEW lines \in Seq(Line), NEW ls \in Seq(Line), NEW d \in Dialog, NEW p,
           Shows(lines, ls, d, p), MenuDrawn(d), BlockDrawn(d), Parted(ls, d)
    PROVE  QuestionBlock(lines, d.rows) = Cleaned(SubSeq(d.lines, 2, Last(d.at)))
<1>1. PICK n, c : /\ MenuRows(d, n, c)
                  /\ \E end, label : MenuSays(d, n, c, end, label)
  BY MenuIs
<1>2. PICK end, label : MenuSays(d, n, c, end, label)
  BY <1>1
<1>3. PICK L \in Nat : L = Len(ls)
  BY DEF Shows
<1>4. PICK D \in Nat : D = Len(d.lines) /\ DOMAIN lines = 1..(L + D) /\ d.lines \in Seq(Line)
  BY <1>3 DEF Shows, Dialog
<1>5. /\ n \in 1..n /\ d.at[n] \in 1..D /\ DOMAIN d.at = 1..n /\ 1 \in 1..n
      /\ d.at[1] \in 1..D /\ d.at[1] < d.at[n] /\ d.at[1] # 1
  <2>1. /\ n \in Nat /\ n >= 2 /\ DOMAIN d.at = 1..n /\ \A k \in 1..n : d.at[k] \in 1..D
        /\ \A j, k \in 1..n : j < k => d.at[j] < d.at[k]
    BY <1>1, <1>4 DEF MenuRows
  <2>2. n \in 1..n /\ 1 \in 1..n /\ 1 < n
    BY <2>1
  <2>3. d.at[n] \in 1..D /\ d.at[1] \in 1..D /\ d.at[1] < d.at[n]
    BY <2>1, <2>2
  <2>4. d.at[1] # 1
    BY <1>1, <2>2 DEF MenuRows, Parted
  <2>5. QED
    BY <2>1, <2>2, <2>3, <2>4
<1>6. PICK b \in 1..D : b = d.at[n] /\ b > 2
  BY <1>5
<1>7. PICK A \in Nat : A = L + b /\ A # 0
  BY <1>6
<1>8. Lowest({i \in DOMAIN lines : Offers(lines[i], d.rows)}) = A
  BY <1>1, <1>2, <1>3, <1>6, <1>7, BlockAnchor
<1> DEFINE base == [start |-> A, top |-> A, done |-> FALSE]
<1> DEFINE xs == [k \in 1..(A - 1) |-> A - k]
<1>9. PICK N \in Nat : N = A - 1
  BY <1>7
<1>10. PICK acc : /\ Run("upward", lines, d.rows, base, xs, N, acc)
                  /\ acc[N] = TheFold("upward", lines, d.rows, base, xs, N)[1..N]
  <2> HIDE DEF base, xs
  <2>1. QED
    BY FoldRun
<1>11. FoldLeft(LAMBDA a, i : Upward(lines, d.rows, a, i), base, xs) = acc[N]
  <2>1. DOMAIN xs = 1..N
    BY <1>9
  <2> HIDE DEF base, xs
  <2>2. FoldLeft(LAMBDA a, i : Upward(lines, d.rows, a, i), base, xs)
          = TheFold("upward", lines, d.rows, base, xs, N)[1..N]
    BY <2>1, UpwardFold
  <2>3. QED
    BY <1>10, <2>2
<1>12. Walks(lines, ls, d, n, A, acc)
  BY <1>3, <1>6, <1>7, <1>9, <1>10 DEF Walks
<1>13. acc[N].start = L + 2
  BY <1>1, <1>2, <1>3, <1>9, <1>12, WalkStops
<1>14. QuestionBlock(lines, d.rows) = Cleaned(SubSeq(lines, L + 2, A))
  <2>1. A # 0
    BY <1>6, <1>7
  <2>2. QED
    BY <1>8, <1>11, <1>13, <2>1 DEF QuestionBlock
<1> HIDE DEF base, xs
<1>15. PICK l \in Nat : l = b - 1
  BY <1>6
<1>16. PICK f : f = SubSeq(lines, L + 2, A)
  OBVIOUS
<1>17. PICK g : g = SubSeq(d.lines, 2, b)
  OBVIOUS
<1>18. b \in Nat /\ b > 2 /\ b <= D
  BY <1>6
<1>19. DOMAIN f = 1..l /\ \A i \in 1..l : f[i] = lines[L + (i + 1)]
  <2>1. PICK m \in Nat \ {0} : m = L + 2
    OBVIOUS
  <2>2. m <= A /\ A <= L + D /\ (A - m) + 1 = l
    BY <1>7, <1>15, <1>18, <2>1
  <2>3. A <= Len(lines)
    BY <1>4, <2>2, LenProperties
  <2>4. DOMAIN f = 1..((A - m) + 1) /\ \A i \in 1..((A - m) + 1) : f[i] = lines[m + i - 1]
    <3>1. f = SubSeq(lines, m, A)
      BY <1>16, <2>1
    <3>2. m <= A
      BY <2>2
    <3>3. QED
      BY <2>3, <3>1, <3>2, PartOfScreen
  <2>5. \A i \in 1..l : m + i - 1 = L + (i + 1)
    BY <2>1
  <2>6. QED
    BY <2>2, <2>4, <2>5
<1>20. DOMAIN g = 1..l /\ \A i \in 1..l : g[i] = d.lines[i + 1]
  <2>1. PICK m \in Nat \ {0} : m = 2
    OBVIOUS
  <2>2. m <= b /\ b \in Nat /\ b <= Len(d.lines) /\ (b - m) + 1 = l
    BY <1>4, <1>15, <1>18, <2>1
  <2>3. DOMAIN g = 1..((b - m) + 1) /\ \A i \in 1..((b - m) + 1) : g[i] = d.lines[m + i - 1]
    <3>1. g = SubSeq(d.lines, m, b)
      BY <1>17, <2>1
    <3>2. m <= b /\ b <= Len(d.lines) /\ d.lines \in Seq(Line)
      BY <1>4, <2>2
    <3>3. QED
      BY <3>1, <3>2, PartOfScreen
  <2>4. \A i \in 1..l : m + i - 1 = i + 1
    BY <2>1
  <2>5. QED
    BY <2>2, <2>3, <2>4
<1>21. ASSUME NEW i \in 1..l PROVE Alike(f[i], g[i])
  <2>1. i + 1 \in 1..D
    BY <1>6, <1>15
  <2>2. Alike(lines[L + (i + 1)], d.lines[i + 1])
    BY <1>3, <1>4, <2>1 DEF Shows
  <2>3. QED
    BY <1>19, <1>20, <2>2
<1>22. Cleaned(f) = Cleaned(g)
  <2>1. DOMAIN f = 1..l
    BY <1>19
  <2>2. DOMAIN g = 1..l
    BY <1>20
  <2>3. QED
    BY <1>21, <2>1, <2>2, CleanedAlike
<1>23. Last(d.at) = b
  BY <1>5, <1>6 DEF Last, Dialog
<1>24. QED
  BY <1>14, <1>16, <1>17, <1>22, <1>23

-----------------------------------------------------------------------------
(* What an answer picks.                                                    *)

\* The keys that are sent differ.
LEMMA KeysDiffer ==
    /\ <<"Enter">> # <<"Escape">> /\ <<"Enter">> # <<"Right", "Enter">>
    /\ <<"Enter">> # <<"Right", "Enter", "Enter">> /\ <<"Escape">> # <<"Right", "Enter">>
    /\ <<"Escape">> # <<"Right", "Enter", "Enter">>
    /\ <<"Right", "Enter">> # <<"Right", "Enter", "Enter">>
  OBVIOUS

\* Each choice of a dialog is picked by what is pressed for it.
LEMMA ChoicesArePicked ==
    ASSUME NEW d \in Dialog, NEW k \in DOMAIN d.rows,
           IF d.kind = "menu" THEN MenuDrawn(d)
           ELSE IF d.kind = "yn" THEN PromptDrawn(d) ELSE ButtonsDrawn(d)
    PROVE  Takes(d, RespondAction(d.rows[k])) = d.rows[k].says
<1>1. CASE d.kind = "menu"
  <2>1. PICK n, c : MenuRows(d, n, c)
    BY <1>1, MenuIs
  <2>2. k \in DOMAIN d.rows /\ d.rows[k].n = k /\ k # 0
    BY <2>1 DEF MenuRows
  <2>3. PICK a : a = RespondAction(d.rows[k])
    OBVIOUS
  <2>4. a.n = k
    BY <2>2, <2>3 DEF RespondAction, Digit
  <2>5. Takes(d, a) = d.rows[k].says
    BY <1>1, <2>2, <2>4 DEF Takes
  <2>6. QED
    BY <2>3, <2>5
<1>2. CASE d.kind = "yn"
  <2>1. d.rows = Unnumbered(<<"y", "n">>)
    BY <1>2 DEF PromptDrawn
  <2>2. PICK says \in {"y", "n"} : d.rows[k] = [n |-> 0, says |-> <<says>>]
    BY <2>1 DEF Unnumbered
  <2>3. PICK a : a = RespondAction(d.rows[k])
    OBVIOUS
  <2>4. a.text = says
    BY <2>2, <2>3 DEF RespondAction, Text
  <2>5. Takes(d, a) = <<says>>
    BY <1>2, <2>4 DEF Takes
  <2>6. QED
    BY <2>2, <2>3, <2>5
<1>3. CASE d.kind = "step"
  <2>1. d.rows = Unnumbered(<<"ConfirmRejection", "CancelRejection">>)
    BY <1>3 DEF ButtonsDrawn, ButtonRows
  <2>2. PICK says \in {"ConfirmRejection", "CancelRejection"} :
           d.rows[k] = [n |-> 0, says |-> <<says>>]
    BY <2>1 DEF Unnumbered
  <2>3. PICK a : a = RespondAction(d.rows[k])
    OBVIOUS
  <2>4. d.rows[k].says = <<says>> /\ d.rows[k].n = 0 /\ d.rows[k].says[1] = says
    BY <2>2
  <2>5. CASE says = "ConfirmRejection"
    <3>1. a.keys = <<"Enter">>
      BY <2>3, <2>5, <2>4 DEF RespondAction, Keys
    <3>2. Takes(d, a) = <<says>>
      BY <1>3, <2>5, <3>1, KeysDiffer DEF Takes
    <3>3. QED
      BY <2>2, <2>3, <3>2
  <2>6. CASE says = "CancelRejection"
    <3>1. a.keys = <<"Escape">>
      BY <2>3, <2>6, <2>4 DEF RespondAction, Keys
    <3>2. Takes(d, a) = <<says>>
      BY <1>3, <2>6, <3>1, KeysDiffer DEF Takes
    <3>3. QED
      BY <2>2, <2>3, <3>2
  <2>7. QED
    BY <2>5, <2>6
<1>4. CASE d.kind \in {"opencode1", "opencode2"}
  <2>1. PICK labels \in ButtonRows(d.kind) : d.rows = Unnumbered(labels)
    BY <1>4 DEF ButtonsDrawn
  <2>2. \/ d.kind = "opencode1" /\ labels = <<"AllowOnce", "AllowAlways", "Reject">>
        \/ d.kind = "opencode2" /\ labels = <<"AllowOnce", "AlwaysAllow", "Reject">>
        \/ d.kind = "opencode2" /\ labels = <<"AllowOnce", "Reject">>
    BY <1>4 DEF ButtonRows
  <2>3. /\ DOMAIN d.rows = DOMAIN labels
        /\ \A j \in DOMAIN labels : d.rows[j] = [n |-> 0, says |-> <<labels[j]>>]
    BY <2>1 DEF Unnumbered
  <2>4. PICK says : says = labels[k] /\ d.rows[k] = [n |-> 0, says |-> <<says>>]
    BY <2>3
  <2>5. \/ says = "AllowOnce" /\ k = 1
        \/ says = "AllowAlways" /\ k = 2 /\ d.kind = "opencode1"
        \/ says = "AlwaysAllow" /\ k = 2 /\ d.kind = "opencode2"
        \/ says = "Reject"
    <3>1. CASE d.kind = "opencode1" /\ labels = <<"AllowOnce", "AllowAlways", "Reject">>
      BY <2>3, <2>4, <3>1
    <3>2. CASE d.kind = "opencode2" /\ labels = <<"AllowOnce", "AlwaysAllow", "Reject">>
      BY <2>3, <2>4, <3>2
    <3>3. CASE d.kind = "opencode2" /\ labels = <<"AllowOnce", "Reject">>
      BY <2>3, <2>4, <3>3
    <3>4. QED
      BY <2>2, <3>1, <3>2, <3>3
  <2>6. PICK a : a = RespondAction(d.rows[k])
    OBVIOUS
  <2>7. d.rows[k].says = <<says>> /\ d.rows[k].n = 0 /\ d.rows[k].says[1] = says
    BY <2>4
  <2>8. CASE says = "AllowOnce" /\ k = 1
    <3>1. a.keys = <<"Enter">>
      BY <2>6, <2>7, <2>8 DEF RespondAction, Keys
    <3>2. Takes(d, a) = d.rows[1].says
      BY <1>4, <3>1, KeysDiffer DEF Takes
    <3>3. QED
      BY <2>6, <2>8, <3>2
  <2>9. CASE says = "AllowAlways" /\ k = 2 /\ d.kind = "opencode1"
    <3>1. a.keys = <<"Right", "Enter", "Enter">>
      BY <2>6, <2>7, <2>9 DEF RespondAction, Keys, AlwaysKeys
    <3>2. Takes(d, a) = d.rows[2].says
      BY <2>9, <3>1, KeysDiffer DEF Takes
    <3>3. QED
      BY <2>6, <2>9, <3>2
  <2>10. CASE says = "AlwaysAllow" /\ k = 2 /\ d.kind = "opencode2"
    <3>1. a.keys = <<"Right", "Enter">>
      BY <2>6, <2>7, <2>10 DEF RespondAction, Keys, AlwaysKeys
    <3>2. Takes(d, a) = d.rows[2].says
      BY <2>10, <3>1, KeysDiffer DEF Takes
    <3>3. QED
      BY <2>6, <2>10, <3>2
  <2>11. CASE says = "Reject"
    <3>1. a.keys = <<"Escape">>
      BY <2>6, <2>7, <2>11 DEF RespondAction, Keys
    <3>2. Takes(d, a) = <<"Reject">>
      BY <1>4, <3>1, KeysDiffer DEF Takes
    <3>3. QED
      BY <2>6, <2>7, <2>11, <3>2
  <2>12. QED
    BY <2>5, <2>8, <2>9, <2>10, <2>11
<1>5. QED
  BY <1>1, <1>2, <1>3, <1>4 DEF Dialog

-----------------------------------------------------------------------------
(* The theorems.                                                            *)

\* The lines above a dialog stay those that were printed before it, and its cursor is on
\* one of its rows: a screen is only printed on, blocked by a dialog and answered.
THEOREM ScreensTyping == Spec => []TypeOK
<1>1. Init => TypeOK
  BY ConstantsOK DEF Init, TypeOK
<1>2. TypeOK /\ [Next]_vars => TypeOK'
  <2> SUFFICES ASSUME TypeOK, [Next]_vars PROVE TypeOK'
    OBVIOUS
  <2>1. ASSUME NEW line \in Printed, Prints(line) PROVE TypeOK'
    <3>1. printed' \in Seq(Printed) /\ Len(printed') = Len(printed) + 1
      BY <2>1 DEF TypeOK, Prints
    <3>2. Len(printed') <= MaxPrinted
      BY <2>1, <3>1, ConstantsOK DEF TypeOK, Prints
    <3>3. QED
      BY <2>1, <3>1, <3>2 DEF TypeOK, Prints
  <2>2. ASSUME NEW d \in Dialogs, Blocks(d) PROVE TypeOK'
    <3>1. d # None
      BY ConstantsOK
    <3>2. QED
      BY <2>2, <3>1 DEF TypeOK, Blocks
  <2>3. ASSUME dialog # None, NEW k \in DOMAIN dialog.at, Moves(k) PROVE TypeOK'
    BY <2>3 DEF TypeOK, Moves
  <2>4. ASSUME Answered PROVE TypeOK'
    BY <2>4 DEF TypeOK, Answered
  <2>5. ASSUME UNCHANGED vars PROVE TypeOK'
    BY <2>5 DEF TypeOK, vars
  <2>6. QED
    BY <2>1, <2>2, <2>3, <2>4, <2>5 DEF Next
<1>3. QED
  BY <1>1, <1>2, PTL DEF Spec

\* What is up, when a dialog is.
LEMMA DialogUp ==
    ASSUME TypeOK, dialog # None
    PROVE  /\ Screen \in Seq(Line) /\ printed \in Seq(Line) /\ dialog \in Dialog
           /\ Shows(Screen, printed, dialog, pointer)
           /\ IF dialog.kind = "menu" THEN MenuDrawn(dialog)
              ELSE IF dialog.kind = "yn" THEN PromptDrawn(dialog) ELSE ButtonsDrawn(dialog)
           /\ dialog.lines[1].kind = "edge" => dialog.kind = "menu" /\ BlockDrawn(dialog)
           /\ dialog.kind = "menu" => pointer \in DOMAIN dialog.at
           /\ Misread <=> Misreads(printed, dialog)
<1>1. dialog \in Dialogs /\ dialog \in Dialog
  BY ConstantsOK DEF TypeOK
<1>2. printed \in Seq(Line)
  BY ConstantsOK DEF TypeOK
<1>3. PICK ls \in Seq(Line) : ls = printed
  BY <1>2
<1>4. PICK d \in Dialog : d = dialog
  BY <1>1
<1>5. PICK p : p = pointer
  OBVIOUS
<1>6. PICK lines : lines = ls \o Drawn(d, p)
  OBVIOUS
<1>7. Screen = lines
  BY <1>3, <1>4, <1>5, <1>6 DEF Screen
<1>8. Shows(lines, ls, d, p)
  BY <1>6, ScreenShows
<1>9. lines \in Seq(Line)
  BY <1>6, ScreenShows
<1>10. Misread <=> Misreads(printed, dialog)
  BY DEF Misread, Misreads
<1>11. IF dialog.kind = "menu"
       THEN MenuDrawn(dialog) /\ (dialog.lines[1].kind = "edge" => BlockDrawn(dialog))
       ELSE /\ dialog.at = <<>> /\ dialog.lines # <<>> /\ dialog.lines[1].kind # "edge"
            /\ IF dialog.kind = "yn" THEN PromptDrawn(dialog) ELSE ButtonsDrawn(dialog)
  BY <1>1, DialogsAreDrawn
<1>12. dialog.kind = "menu" => pointer \in DOMAIN dialog.at
  <2>1. SUFFICES ASSUME dialog.kind = "menu" PROVE pointer \in DOMAIN dialog.at
    OBVIOUS
  <2>2. PICK n, c : MenuRows(dialog, n, c)
    BY <1>1, <1>11, <2>1, MenuIs
  <2>3. 1 \in DOMAIN dialog.at
    BY <2>2 DEF MenuRows
  <2>4. QED
    BY <2>3 DEF TypeOK
<1>13. QED
  BY <1>1, <1>2, <1>3, <1>4, <1>5, <1>7, <1>8, <1>9, <1>10, <1>11, <1>12

\* What is offered for any dialog that is not misread is its choices.
LEMMA OffersChoices ==
    ASSUME TypeOK
    PROVE  EveryChoiceIsOffered
<1>1. SUFFICES ASSUME dialog # None, ~Misread PROVE DetectOptions(Screen) = dialog.rows
  BY DEF EveryChoiceIsOffered
<1>2. PICK lines \in Seq(Line) : lines = Screen
  BY <1>1, DialogUp
<1>3. PICK ls \in Seq(Line) : ls = printed
  BY <1>1, DialogUp
<1>4. PICK d \in Dialog : d = dialog
  BY <1>1, DialogUp
<1>5. PICK p : p = pointer
  OBVIOUS
<1>6. Shows(lines, ls, d, p) /\ ~Misreads(ls, d)
  BY <1>1, <1>2, <1>3, <1>4, <1>5, DialogUp
<1>7. IF d.kind = "menu" THEN MenuDrawn(d)
      ELSE IF d.kind = "yn" THEN PromptDrawn(d) ELSE ButtonsDrawn(d)
  BY <1>1, <1>4, DialogUp
<1>8. CASE d.kind = "menu"
  <2>1. p \in DOMAIN d.at
    BY <1>1, <1>4, <1>5, <1>8, DialogUp
  <2>2. QED
    BY <1>2, <1>4, <1>6, <1>7, <1>8, <2>1, MenuOffered
<1>9. CASE d.kind = "yn"
  BY <1>2, <1>4, <1>6, <1>7, <1>9, PromptOffered
<1>10. CASE d.kind \notin {"menu", "yn"}
  <2>1. d.kind \in {"opencode1", "opencode2", "step"}
    BY <1>10 DEF Dialog
  <2>2. QED
    BY <1>2, <1>4, <1>6, <1>7, <1>10, <2>1, ButtonsOffered
<1>11. QED
  BY <1>8, <1>9, <1>10

\* A dialog that is drawn whole is offered with all of its choices and nothing else, under
\* any transcript that is not misread and whichever row its cursor is on: numbered_menu
\* and _opencode_options read the lowest of what they could read.
THEOREM ChoicesAreOffered == Spec => []EveryChoiceIsOffered
<1>1. TypeOK => EveryChoiceIsOffered
  BY OffersChoices
<1>2. QED
  BY <1>1, ScreensTyping, PTL

\* What respond_action sends for an option that is offered picks what the option says in
\* the dialog that is up, whatever the agent printed above it that is not misread.
THEOREM AnswersPick == Spec => []AnswersPickWhatTheySay
<1>1. TypeOK => AnswersPickWhatTheySay
  <2>1. SUFFICES ASSUME TypeOK, dialog # None, ~Misread,
                        NEW k \in DOMAIN DetectOptions(Screen)
                 PROVE  Takes(dialog, RespondAction(DetectOptions(Screen)[k]))
                          = DetectOptions(Screen)[k].says
    BY DEF AnswersPickWhatTheySay
  <2>2. PICK d \in Dialog : d = dialog
    BY <2>1, DialogUp
  <2>3. DetectOptions(Screen) = d.rows
    BY <2>1, <2>2, OffersChoices DEF EveryChoiceIsOffered
  <2>4. IF d.kind = "menu" THEN MenuDrawn(d)
        ELSE IF d.kind = "yn" THEN PromptDrawn(d) ELSE ButtonsDrawn(d)
    BY <2>1, <2>2, DialogUp
  <2>5. PICK j \in DOMAIN d.rows : j = k
    BY <2>1, <2>3
  <2>6. Takes(d, RespondAction(d.rows[j])) = d.rows[j].says
    BY <2>4, ChoicesArePicked
  <2>7. QED
    BY <2>2, <2>3, <2>5, <2>6
<1>2. QED
  BY <1>1, ScreensTyping, PTL

\* question_block cuts out the dialog from the rule above it to its last row, wherever
\* the cursor is and whatever is printed above the rule that does not read like a row.
THEOREM BlocksAreWhole == Spec => []BlockIsTheQuestions
<1>1. TypeOK => BlockIsTheQuestions
  <2>1. SUFFICES ASSUME TypeOK, dialog # None, ~Misread, dialog.lines[1].kind = "edge",
                        ~\E k \in DOMAIN printed : Offers(printed[k], dialog.rows)
                 PROVE  QuestionBlock(Screen, DetectOptions(Screen))
                          = Cleaned(SubSeq(dialog.lines, 2, Last(dialog.at)))
    BY DEF BlockIsTheQuestions
  <2>2. PICK d \in Dialog : d = dialog
    BY <2>1, DialogUp
  <2>3. PICK lines \in Seq(Line) : lines = Screen
    BY <2>1, DialogUp
  <2>4. PICK ls \in Seq(Line) : ls = printed
    BY <2>1, DialogUp
  <2>5. PICK p : p = pointer
    OBVIOUS
  <2>6. DetectOptions(lines) = d.rows
    BY <2>1, <2>2, <2>3, OffersChoices DEF EveryChoiceIsOffered
  <2>7. d.kind = "menu" /\ BlockDrawn(d)
    BY <2>1, <2>2, DialogUp
  <2>8. MenuDrawn(d) /\ Shows(lines, ls, d, p)
    BY <2>1, <2>2, <2>3, <2>4, <2>5, <2>7, DialogUp
  <2>9. Parted(ls, d)
    BY <2>1, <2>2, <2>4 DEF Parted
  <2>10. QuestionBlock(lines, d.rows) = Cleaned(SubSeq(d.lines, 2, Last(d.at)))
    BY <2>7, <2>8, <2>9, BlockIsWhole
  <2>11. QED
    BY <2>2, <2>3, <2>6, <2>10
<1>2. QED
  BY <1>1, ScreensTyping, PTL

=============================================================================
