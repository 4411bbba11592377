---------------------------- MODULE MCPaneScreens ----------------------------
(* Instances of PaneScreens for TLC. *)
EXTENDS PaneScreens

L(kind, col, says) == [kind |-> kind, n |-> 0, col |-> col, boxed |-> FALSE, cursor |-> FALSE,
                       hint |-> FALSE, says |-> says]
R(n, col, says) == [L("row", col, <<says>>) EXCEPT !.n = n]
Boxed(line) == [line EXCEPT !.boxed = TRUE]
Hint(line) == [line EXCEPT !.hint = TRUE]
O(n, says) == [n |-> n, says |-> says]
Once == <<"AllowOnce">>

Edge == L("edge", 0, <<>>)
Footer == L("footer", 0, <<>>)

\* What agents print: prose at two depths, a list at two depths, the rows of a dialog that
\* was answered, a box of numbered prose, OpenCode's dialogs quoted or left over, a
\* bulleted list, and lines that change by themselves.
PrintedLines ==
    {L("text", 0, <<"prose">>), L("text", 4, <<"deep">>), L("blank", 0, <<>>), Edge,
     R(1, 2, "one"), R(2, 2, "two"), R(1, 0, "left"), R(1, 3, "Yes"), Boxed(R(1, 2, "one")),
     Boxed(R(2, 2, "two")), L("buttons", 0, <<"AllowOnce", "Reject">>),
     Hint(L("buttons", 0, <<"AllowOnce", "AllowAlways", "Reject">>)), L("step", 0, <<>>),
     L("bullet", 2, <<"item">>), L("bullet", 2, <<"thing">>), L("phrase", 0, <<"trust">>),
     L("spinner", 0, <<>>), L("ask", 0, <<"proceed">>), L("title", 0, <<>>)}

\* A permission prompt of Claude Code; a question of it, with a description that reads
\* like a row and the row it appends under a rule; gemini-cli's box; a plain prompt.
Permission ==
    [kind |-> "menu", at |-> <<3, 4, 6>>,
     rows |-> <<O(1, <<"Yes">>), O(2, <<"Always", "here">>), O(3, <<"No">>)>>,
     lines |-> <<Edge, L("ask", 1, <<"proceed">>), R(1, 3, "Yes"), R(2, 3, "Always"),
                 L("text", 6, <<"here">>), R(3, 3, "No")>>]
Question ==
    [kind |-> "menu", at |-> <<3, 5, 7>>,
     rows |-> <<O(1, <<"Red", "warm">>), O(2, <<"Blue">>), O(3, <<"Chat">>)>>,
     lines |-> <<Edge, L("text", 0, <<"which">>), R(1, 2, "Red"), R(2, 5, "warm"),
                 R(2, 2, "Blue"), Edge, R(3, 2, "Chat"), Footer>>]
Box ==
    [kind |-> "menu", at |-> <<3, 4>>, rows |-> <<O(1, <<"Once">>), O(2, <<"No">>)>>,
     lines |-> <<Edge, L("text", 1, <<"run">>), Boxed(R(1, 3, "Once")), Boxed(R(2, 3, "No")),
                 Edge>>]
YesNo ==
    [kind |-> "yn", at |-> <<>>, rows |-> <<O(0, <<"y">>), O(0, <<"n">>)>>,
     lines |-> <<L("yn", 0, <<"go on">>)>>]

\* OpenCode's dialog, with the key hint on the row of buttons or below it, and
\* its rejection step.
Buttons(kind, labels, lines) ==
    [kind |-> kind, at |-> <<>>, rows |-> [k \in DOMAIN labels |-> O(0, <<labels[k]>>)],
     lines |-> <<L("title", 0, <<>>)>> \o lines]
Keyed == Hint(L("text", 0, <<"keys">>))
Row(kind, labels) == Buttons(kind, labels, <<L("buttons", 0, labels), Keyed>>)
Narrow(kind, labels) == Buttons(kind, labels, <<Hint(L("buttons", 0, labels))>>)
RejectStep ==
    [kind |-> "step", at |-> <<>>,
     rows |-> <<O(0, <<"ConfirmRejection">>), O(0, <<"CancelRejection">>)>>,
     lines |-> <<L("step", 0, <<>>), Keyed>>]

DrawnDialogs ==
    {Permission, Question, Box, YesNo, RejectStep,
     Row("opencode1", <<"AllowOnce", "AllowAlways", "Reject">>),
     Row("opencode2", <<"AllowOnce", "AlwaysAllow", "Reject">>),
     Narrow("opencode2", <<"AllowOnce", "Reject">>)}

=============================================================================
