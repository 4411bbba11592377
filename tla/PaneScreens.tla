----------------------------- MODULE PaneScreens -----------------------------
(***************************************************************************)
(* What a blocked pane's screen offers and what an answer presses:         *)
(* relay/herdr_relay/panes.py.  The relay sees lines of text; the agent's  *)
(* terminal interface below them takes keys.  A label is offered because   *)
(* of how the lines read, and its keys reach whatever dialog is up.        *)
(*                                                                         *)
(* A screen is a transcript with the dialog drawn under it, as lines that  *)
(* keep what the readers look at: the kind of a line, its number, how far  *)
(* it is indented, its box and its cursor.  Wording is a token of a word.   *)
(***************************************************************************)
EXTENDS Integers, FiniteSets, Sequences, SequencesExt

CONSTANTS None,       \* nothing offered, no dialog, no block
          Printed,    \* lines an agent may have printed
          Dialogs,    \* dialogs an agent may draw
          BlockLines, \* QUESTION_BLOCK_LINES
          MaxPrinted  \* bound: lines above the dialog

\* n: the number of a "row".  col: the width of what precedes its number or its text.
\* says: labels in the order of the line; hint: OpenCode's key hint is on the line.
\* A "rule" is of dashes, an "edge" of box-drawing characters.
Line == [kind: {"row", "text", "rule", "edge", "blank", "footer", "buttons", "step", "title",
                "phrase", "bullet", "ask", "yn", "spinner"},
         n: Nat, col: Nat, boxed: BOOLEAN, cursor: BOOLEAN, hint: BOOLEAN, says: Seq(STRING)]

\* An option is a label, with its number when it is a menu's.
Option == [n: Nat, says: Seq(STRING)]

\* lines: how it is drawn, without a cursor.  at: the lines of the rows a cursor marks.
\* rows: its choices, in order.  kind: the interface that takes the answer.
Dialog == [lines: Seq(Line), at: Seq(Nat), rows: Seq(Option),
           kind: {"menu", "opencode1", "opencode2", "step", "yn"}]

ASSUME ConstantsOK ==
    /\ Printed \subseteq Line /\ Dialogs \subseteq Dialog /\ None \notin Dialogs
    /\ BlockLines \in Nat \ {0} /\ MaxPrinted \in Nat

VARIABLES printed,  \* the lines above
          dialog,   \* the dialog under them, or None
          pointer   \* the row its cursor is on

vars == <<printed, dialog, pointer>>

\* A dialog as it is drawn with its cursor on row k.
Drawn(d, k) ==
    [i \in DOMAIN d.lines |->
        [d.lines[i] EXCEPT !.cursor = k \in DOMAIN d.at /\ d.at[k] = i]]

Screen == IF dialog = None THEN printed ELSE printed \o Drawn(dialog, pointer)

IsRule(line) == line.kind \in {"rule", "edge"}

-----------------------------------------------------------------------------
(* How agents draw their dialogs, whatever reads them.                      *)

\* Under a row, at the column of the numbers: the label goes on, or a rule or nothing.
GoesOn(line, col) == line.kind \notin {"blank", "rule", "edge", "footer"} /\ line.col > col
InMenu(line, col) == line.kind = "blank" \/ IsRule(line) \/ GoesOn(line, col)

\* What the rows say, wrapped and described in the lines under them.  The last row
\* goes on to end; label is what its row has said once a line is read.
RowsSay(d, end, col) ==
    LET At == Range(d.at)
        Parts == UNION {{SubSeq(o.says, 1, j) : j \in 1..Len(o.says)} : o \in Range(d.rows)}
    IN \E label \in [d.at[1]..end -> Parts] :
          /\ \A i \in d.at[1]..end :
                label[i] = IF i \in At THEN d.lines[i].says
                           ELSE IF GoesOn(d.lines[i], col) THEN label[i - 1] \o d.lines[i].says
                           ELSE label[i - 1]
          /\ \A k \in 1..(Len(d.at) - 1) : label[d.at[k + 1] - 1] = d.rows[k].says
          /\ label[end] = d.rows[Len(d.at)].says

\* Two rows or more, numbered from one, under a question that is no deeper.
MenuDrawn(d) ==
    LET n == Len(d.at)
        col == d.lines[d.at[1]].col
    IN /\ n >= 2 /\ Len(d.rows) = n
       /\ \A k \in 1..n : d.at[k] \in DOMAIN d.lines /\ d.rows[k].n = k
       /\ \A j, k \in 1..n : j < k => d.at[j] < d.at[k]
       /\ \A k \in 1..n : LET row == d.lines[d.at[k]]
                          IN row.kind = "row" /\ row.n = k /\ row.col = col /\ row.says # <<>>
       /\ \A i \in DOMAIN d.lines :
             /\ d.lines[i].kind \notin {"phrase", "buttons", "step"}
             /\ d.lines[i].kind = "row" => d.at[1] <= i /\ i <= d.at[n]
       /\ \E i \in 1..d.at[1] :
             /\ d.lines[i].kind # "blank" /\ ~IsRule(d.lines[i])
             /\ \A j \in DOMAIN d.lines :
                   d.lines[j].kind # "edge" => d.lines[i].col <= d.lines[j].col
       /\ \E end \in d.at[n]..Len(d.lines) :
             /\ \A i \in d.at[1]..end : i \in Range(d.at) \/ InMenu(d.lines[i], col)
             /\ end < Len(d.lines) => ~InMenu(d.lines[end + 1], col)
             /\ RowsSay(d, end, col)

\* Where a rule parts a dialog from the transcript, it has no other gap: no two blank
\* lines, a rule only under a row, and a row within every few lines.
BlockDrawn(d) ==
    \A i \in 2..(Last(d.at) - 1) :
        /\ ~(d.lines[i].kind = "blank" /\ d.lines[i - 1].kind = "blank")
        /\ d.lines[i].kind = "edge" =>
              \E j \in Range(d.at) : /\ j < i
                                     /\ \A m \in (j + 1)..(i - 1) : d.lines[m].kind = "blank"
        /\ \E j \in Range(d.at) : i < j /\ j <= i + BlockLines

ButtonRows(kind) ==
    CASE kind = "opencode1" -> {<<"AllowOnce", "AllowAlways", "Reject">>}
      [] kind = "opencode2" -> {<<"AllowOnce", "AlwaysAllow", "Reject">>,
                                <<"AllowOnce", "Reject">>}
      [] OTHER -> {<<"ConfirmRejection", "CancelRejection">>}

Unnumbered(labels) == [k \in DOMAIN labels |-> [n |-> 0, says |-> <<labels[k]>>]]

\* OpenCode's row of buttons, or its rejection step, with the key hint on it or below.
ButtonsDrawn(d) ==
    \E i \in DOMAIN d.lines, labels \in ButtonRows(d.kind) :
        /\ d.rows = Unnumbered(labels)
        /\ IF d.kind = "step" THEN d.lines[i].kind = "step"
           ELSE d.lines[i].kind = "buttons" /\ d.lines[i].says = labels
        /\ \E j \in i..Len(d.lines) : d.lines[j].hint
        /\ \A j \in DOMAIN d.lines :
              /\ d.lines[j].kind \notin {"row", "phrase"}
              /\ j # i => d.lines[j].kind \notin {"buttons", "step"}

\* A question without choices of its own.
PromptDrawn(d) ==
    /\ d.rows = Unnumbered(<<"y", "n">>)
    /\ \E i \in DOMAIN d.lines : d.lines[i].kind = "yn"
    /\ \A i \in DOMAIN d.lines :
          d.lines[i].kind \in {"yn", "text", "blank", "rule", "footer"} /\ ~d.lines[i].hint

ASSUME DialogsAreDrawn ==
    \A d \in Dialogs :
        IF d.kind = "menu" THEN MenuDrawn(d) /\ (d.lines[1].kind = "edge" => BlockDrawn(d))
        ELSE /\ d.at = <<>> /\ d.lines # <<>> /\ d.lines[1].kind # "edge"
             /\ IF d.kind = "yn" THEN PromptDrawn(d) ELSE ButtonsDrawn(d)

-----------------------------------------------------------------------------
(* numbered_menu.                                                           *)

\* The marker is two columns of what precedes the number.
Indent(line) == IF line.cursor THEN line.col - 2 ELSE line.col

NoRun == [rows |-> <<>>, col |-> 0, selectable |-> FALSE]

\* Slip: a row inside a label starts a menu of its own.
InsideNever(run, line) == FALSE
\* A line deeper than the numbers belongs to the label above it.
Inside(run, line) == run.rows # <<>> /\ line.col > run.col

\* Slip: a box of numbered prose is a menu too.
SelectableAlways(line) == TRUE
\* A row in a box counts once a cursor is seen.
Selectable(line) == ~line.boxed \/ line.cursor

Complete(run) == Len(run.rows) >= 2 /\ run.selectable

\* Slip: only the first row's cursor counts.
JoinsWithoutCursor(run, line) == [run EXCEPT !.rows = Append(@, line.says)]
\* The next row of the run.
Joins(run, line) ==
    [run EXCEPT !.rows = Append(@, line.says), !.selectable = @ \/ line.cursor]

RunWith(run, line) ==
    IF line.n = 1
    THEN [rows |-> <<line.says>>, col |-> line.col, selectable |-> Selectable(line)]
    ELSE IF run.rows # <<>> /\ line.n = Len(run.rows) + 1 THEN Joins(run, line)
    ELSE NoRun

\* Slip: the first complete run is kept.
KeptFirst(best, run) == IF best = <<>> /\ Complete(run) THEN run.rows ELSE best
\* The last complete run wins.
Kept(best, run) == IF Complete(run) THEN run.rows ELSE best

ReadLine(acc, line) ==
    LET run == acc.run
        To(r) == [run |-> r, best |-> Kept(acc.best, r)]
        Joined == [run EXCEPT !.rows[Len(run.rows)] = @ \o line.says]
    IN IF line.kind = "row" /\ ~Inside(run, line) THEN To(RunWith(run, line))
       ELSE IF line.kind = "blank" THEN acc
       ELSE IF run.rows # <<>> /\ IsRule(line) THEN acc
       ELSE IF line.kind # "footer" /\ run.rows # <<>> /\ Indent(line) > run.col THEN To(Joined)
       ELSE [acc EXCEPT !.run = NoRun]

NumberedMenu(lines) ==
    LET best == FoldLeft(ReadLine, [run |-> NoRun, best |-> <<>>], lines).best
    IN [k \in DOMAIN best |-> [n |-> k, says |-> best[k]]]

-----------------------------------------------------------------------------
(* detect_options.                                                          *)

Label(s) == [n |-> 0, says |-> <<s>>]
Labels(ss) == [k \in DOMAIN ss |-> Label(ss[k])]

\* A button row reads "AllowOnce" first and "Reject" last, each label once.
IsButtonRow(line) ==
    /\ line.kind = "buttons" /\ line.says # <<>>
    /\ Head(line.says) = "AllowOnce" /\ Last(line.says) = "Reject"
    /\ IsInjective(line.says)

\* Slip: the hint is not asked for.
HintedAlways(lines, i) == TRUE
\* OpenCode's key hint is on the line or below it.
Hinted(lines, i) == \E j \in i..Len(lines) : lines[j].hint

\* Of some lines, the lowest on the screen.
Lowest(S) == Max(S \cup {0})

\* Slip: a numbered row below does not take the screen from OpenCode.
OpenCodeAnyway(lines, at) == at > 0
\* Nothing numbered is drawn under OpenCode's dialog.
OpenCodeOwns(lines, at) == at > 0 /\ \A j \in at..Len(lines) : lines[j].kind # "row"

\* _opencode_options: the lower of the button row and the rejection step.
OpenCodeOptions(lines) ==
    LET at == Lowest({i \in DOMAIN lines :
                        (IsButtonRow(lines[i]) \/ lines[i].kind = "step") /\ Hinted(lines, i)})
    IN IF OpenCodeOwns(lines, at)
       THEN IF lines[at].kind = "step" THEN Labels(<<"ConfirmRejection", "CancelRejection">>)
            ELSE Labels(lines[at].says)
       ELSE IF at = 0 /\ (\E i \in DOMAIN lines : lines[i].kind = "title")
               /\ \A i \in DOMAIN lines : lines[i].kind # "row"
       THEN Labels(<<"AllowOnce", "Reject">>)
       ELSE <<>>

\* _bullet_options: the labels of bulleted lines, each once.
AddBullet(ls, line) ==
    IF line.kind = "bullet" /\ line.says[1] \notin Range(ls) THEN Append(ls, line.says[1]) ELSE ls

Bullets(lines) ==
    LET ls == FoldLeft(AddBullet, <<>>, lines)
    IN IF Len(ls) >= 2 THEN Labels(ls) ELSE <<>>

Has(lines, kind) == \E i \in DOMAIN lines : lines[i].kind = kind

DetectOptions(lines) ==
    IF Has(lines, "phrase")
    THEN Labels(<<"YesOnce", "TrustAlways", "NoTabToEdit">>)
    ELSE IF OpenCodeOptions(lines) # <<>> THEN OpenCodeOptions(lines)
    ELSE IF NumberedMenu(lines) # <<>> THEN NumberedMenu(lines)
    ELSE IF Bullets(lines) # <<>> THEN Bullets(lines)
    ELSE IF Has(lines, "ask") THEN <<[n |-> 1, says |-> <<"Yes">>], [n |-> 2, says |-> <<"No">>]>>
    ELSE IF Has(lines, "yn") THEN Labels(<<"y", "n">>)
    ELSE <<>>

-----------------------------------------------------------------------------
(* respond_action, and the interfaces that take what it sends.              *)

\* Slip: both majors' "always" is answered with the keys of the first.
AlwaysKeysOfOne(says) == <<"Right", "Enter", "Enter">>
\* 1.x asks once more, 2.x does not.
AlwaysKeys(says) == IF says = "AllowAlways" THEN <<"Right", "Enter", "Enter">>
                    ELSE <<"Right", "Enter">>

Keys(keys) == [text |-> "", n |-> 0, keys |-> keys]
Text(says) == [text |-> says, n |-> 0, keys |-> <<>>]
Digit(n) == [text |-> "", n |-> n, keys |-> <<>>]

RespondAction(o) ==
    LET says == o.says[1]
    IN IF o.n # 0 THEN Digit(o.n)
       ELSE CASE says \in {"AllowOnce", "ConfirmRejection"} -> Keys(<<"Enter">>)
              [] says \in {"AllowAlways", "AlwaysAllow"} -> Keys(AlwaysKeys(says))
              [] says \in {"Reject", "CancelRejection"} -> Keys(<<"Escape">>)
              [] OTHER -> Text(says)

\* The choice a dialog takes an answer for, or none.
Takes(d, a) ==
    CASE d.kind = "menu" -> IF a.n \in DOMAIN d.rows THEN d.rows[a.n].says ELSE <<>>
      [] d.kind = "yn" -> IF a.text \in {"y", "n"} THEN <<a.text>> ELSE <<>>
      [] d.kind = "step" -> CASE a.keys = <<"Enter">> -> <<"ConfirmRejection">>
                              [] a.keys = <<"Escape">> -> <<"CancelRejection">>
                              [] OTHER -> <<>>
      [] OTHER ->
            CASE a.keys = <<"Enter">> -> d.rows[1].says
              [] a.keys = <<"Escape">> -> <<"Reject">>
              [] a.keys = <<"Right", "Enter">> /\ d.kind = "opencode2" -> d.rows[2].says
              [] a.keys = <<"Right", "Enter", "Enter">> /\ d.kind = "opencode1" -> d.rows[2].says
              [] OTHER -> <<>>

-----------------------------------------------------------------------------
(* question_block.                                                          *)

\* _offers: a row starts a label or starts with one, and the button row does.
Offers(line, options) ==
    \E k \in DOMAIN options :
        IF line.kind = "row"
        THEN options[k].n = line.n /\ Head(line.says) = Head(options[k].says)
        ELSE line.kind = "buttons" /\ IsPrefix(options[k].says, line.says)

\* Slip: every rule above the anchor ends the block.
RuleInMenuNever(lines, i, options) == FALSE
\* A rule directly under one of the menu's rows does not end it.
RuleInMenu(lines, i, options) ==
    LET above == Lowest({j \in 1..(i - 1) : lines[j].kind # "blank"})
    IN above # 0 /\ Offers(lines[above], options)

EndsBlock(lines, i, options) ==
    \/ lines[i].kind = "edge" /\ ~RuleInMenu(lines, i, options)
    \/ lines[i].kind = "blank" /\ i > 1 /\ lines[i - 1].kind = "blank"

\* What is left of a line: spinners, hints and blanks go, and the cursor.
AddCleaned(kept, line) ==
    IF line.kind \in {"blank", "spinner", "edge"} THEN kept
    ELSE Append(kept, [kind |-> line.kind, n |-> line.n, says |-> line.says])

Cleaned(lines) == FoldLeft(AddCleaned, <<>>, lines)

\* The walk upward: where it stands, and the highest row it has seen.
Upward(lines, options, at, i) ==
    IF at.done \/ at.top - at.start >= BlockLines \/ EndsBlock(lines, i, options)
    THEN [at EXCEPT !.done = TRUE]
    ELSE [at EXCEPT !.start = i, !.top = IF Offers(lines[i], options) THEN i ELSE @]

QuestionBlock(lines, options) ==
    LET anchor == Lowest({i \in DOMAIN lines : Offers(lines[i], options)})
        at == FoldLeft(LAMBDA a, i : Upward(lines, options, a, i),
                       [start |-> anchor, top |-> anchor, done |-> FALSE],
                       [k \in 1..(anchor - 1) |-> anchor - k])
    IN IF anchor = 0 THEN None ELSE Cleaned(SubSeq(lines, at.start, anchor))

-----------------------------------------------------------------------------

TypeOK ==
    /\ printed \in Seq(Printed) /\ Len(printed) <= MaxPrinted
    /\ dialog \in Dialogs \cup {None}
    /\ pointer \in IF dialog = None THEN {0} ELSE {1} \cup DOMAIN dialog.at

Init == printed = <<>> /\ dialog = None /\ pointer = 0

Prints(line) ==
    /\ dialog = None /\ Len(printed) < MaxPrinted
    /\ printed' = Append(printed, line)
    /\ UNCHANGED <<dialog, pointer>>

Blocks(d) == dialog = None /\ dialog' = d /\ pointer' = 1 /\ UNCHANGED printed

\* The cursor moves to another row of the menu.
Moves(k) ==
    /\ k # pointer
    /\ pointer' = k
    /\ UNCHANGED <<printed, dialog>>

Answered == dialog # None /\ dialog' = None /\ pointer' = 0 /\ UNCHANGED printed

Next ==
    \/ \E line \in Printed : Prints(line)
    \/ \E d \in Dialogs : Blocks(d)
    \/ dialog # None /\ \E k \in DOMAIN dialog.at : Moves(k)
    \/ Answered

Spec == Init /\ [][Next]_vars

-----------------------------------------------------------------------------

\* Where the readers take what was printed for a dialog: Kiro's own words; a list, the
\* buttons with their hint, the title or the question of another dialog, over a prompt
\* without choices of its own; and a numbered list further left than everything in the
\* dialog, whose last label then goes on to its end.
Misread ==
    \/ Has(printed, "phrase")
    \/ /\ dialog.kind = "yn"
       /\ \E k \in DOMAIN printed :
            \/ printed[k].kind \in {"bullet", "title", "ask"} \/ printed[k].hint
            \/ printed[k].kind = "row" /\ (~printed[k].boxed \/ printed[k].cursor)
    \/ \E k \in DOMAIN printed :
            /\ printed[k].kind = "row"
            /\ \A i \in DOMAIN dialog.lines :
                    dialog.lines[i].kind # "edge" => printed[k].col < dialog.lines[i].col

\* What an option says is what its keys pick in the dialog that is up, whatever the
\* agent printed above it: the labels of OpenCode's buttons, which become keys, are
\* never offered over another agent's menu, nor those of a row it has not drawn.
AnswersPickWhatTheySay ==
    dialog # None /\ ~Misread =>
        LET options == DetectOptions(Screen)
        IN \A k \in DOMAIN options : Takes(dialog, RespondAction(options[k])) = options[k].says

\* A menu or a button row that is drawn whole is offered with all of its choices and
\* nothing else, whichever row the cursor is on.
EveryChoiceIsOffered == dialog # None /\ ~Misread => DetectOptions(Screen) = dialog.rows

\* The block that identifies a question is all of it, from the rule that parts it from
\* the transcript to its last row, wherever the cursor is and whatever is printed above
\* the rule that does not read like one of its rows.
BlockIsTheQuestions ==
    /\ dialog # None /\ ~Misread
    /\ dialog.lines[1].kind = "edge"
    /\ ~\E k \in DOMAIN printed : Offers(printed[k], dialog.rows)
    => QuestionBlock(Screen, DetectOptions(Screen))
         = Cleaned(SubSeq(dialog.lines, 2, Last(dialog.at)))

=============================================================================
