---------------------------- MODULE TranscriptPages ----------------------------
(***************************************************************************)
(* How a transcript becomes blocks, and how a client walks back through    *)
(* them page by page while the agent keeps writing: the readers of         *)
(* relay/herdr_relay/transcripts and paginate_blocks.                      *)
(*                                                                         *)
(* A transcript is a sequence of rows.  A read sees the tail that fits the *)
(* window, so the first rows of a long session leave it while a client is  *)
(* on its way to them.  Claude Code and Codex write lines, in which a tool *)
(* call and its result are two rows and a resumed session repeats rows.    *)
(* OpenCode keeps parts, in which a call and its result are one.           *)
(***************************************************************************)
EXTENDS Naturals, FiniteSets, Sequences, SequencesExt

CONSTANTS None,        \* no cursor
          Window,      \* rows that fit HISTORY_MAX_BYTES; parts read_session reads
          BlockLimit,  \* HISTORY_BLOCK_LIMIT
          PageLimits,  \* block_limit and max_bytes of the requests
          MaxRows,     \* bound: rows written
          MaxPages     \* bound: pages a walk asks for

ASSUME ConstantsOK ==
    /\ None \notin Nat
    /\ Window \in Nat \ {0} /\ BlockLimit \in Nat \ {0}
    /\ PageLimits \subseteq [blocks: Nat \ {0}, bytes: Nat \ {0}]
    /\ MaxRows \in Nat /\ MaxPages \in Nat

VARIABLES store, \* "lines" or "parts"
          rows,  \* the session's lines or parts, oldest first
          walk   \* the client: its cursor, the blocks it was given, oldest first;
                 \* split (history): a page was read from a Split window

vars == <<store, rows, walk>>

\* key: the row's uuid, item id or part id.  of: the call a "result" answers, else 0.
\* A "text" is any row with a block of its own that no row adds to: a text, or a failed
\* result without a body, which Claude Code's reader keeps apart from its call even in
\* the window (claude.py:345-357).  "hidden" rows are metadata, side chains, empty
\* texts and empty results that did not fail.
Row == [key: Nat \ {0}, kind: {"text", "call", "result", "hidden"}, of: Nat]

\* row: the row it is made of; answer: the row shown as the tool's result, or 0.
Block == [id: Nat \ {0}, row: Nat \ {0}, kind: {"text", "tool"}, answer: Nat]

-----------------------------------------------------------------------------
(* Rows to blocks.                                                          *)

\* Slip: a block is numbered by its place among the rows read.
BlockIdByPlace(row, blocks) == Len(blocks)
\* _stable_id, _row_key: the id comes from the row, not from its place.
BlockId(row, blocks) == row.key

\* The call's block a result belongs to, where the call was read before it.
CallOf(row, blocks) == {i \in DOMAIN blocks : blocks[i].kind = "tool" /\ blocks[i].row = row.of}

Added(row, blocks, kind, answer) ==
    Append(blocks, [id |-> BlockId(row, blocks), row |-> row.key, kind |-> kind, answer |-> answer])

\* Slip: a result whose call is not in the window is dropped.
OrphanDropped(row, blocks) == blocks
\* A result whose call is not in the window is kept as a block of its own.
Orphan(row, blocks) == Added(row, blocks, "tool", row.key)

\* What one row adds to the blocks read so far.
Shown(row, blocks) ==
    CASE row.kind = "hidden" -> blocks
      [] row.kind = "text" -> Added(row, blocks, "text", 0)
      [] row.kind = "call" -> Added(row, blocks, "tool", 0)
      [] row.kind = "result" ->
            IF CallOf(row, blocks) = {} THEN Orphan(row, blocks)
            ELSE [i \in DOMAIN blocks |->
                    IF i \in CallOf(row, blocks) THEN [blocks[i] EXCEPT !.answer = row.key]
                    ELSE blocks[i]]

\* Slip: a row a resumed session repeats is read again.
RepeatedNever(row, seen) == FALSE
\* seen_rows: a resumed session repeats the rows it started from.
Repeated(row, seen) == row.key \in seen

\* opencode_to_blocks.
PartsToBlocks(parts) == FoldLeft(LAMBDA blocks, part : Shown(part, blocks), <<>>, parts)

\* transcript_to_blocks, rollout_to_blocks.
LinesToBlocks(rs) ==
    LET Step(acc, row) ==
            IF Repeated(row, acc.seen) THEN acc
            ELSE [blocks |-> Shown(row, acc.blocks),
                  seen |-> IF row.kind = "hidden" THEN acc.seen ELSE acc.seen \cup {row.key}]
    IN FoldLeft(Step, [blocks |-> <<>>, seen |-> {}], rs).blocks

ToBlocks(rs) == IF store = "parts" THEN PartsToBlocks(rs) ELSE LinesToBlocks(rs)

Newest(s, n) == IF Len(s) <= n THEN s ELSE SubSeq(s, Len(s) - n + 1, Len(s))

\* read_transcript: the last bytes of the file, less the row they cut; read_session:
\* the last parts, however they are spread over messages.
InReach(rs) == Newest(rs, Window)

\* The last blocks of those.
History == Newest(ToBlocks(InReach(rows)), BlockLimit)

-----------------------------------------------------------------------------
(* Blocks to pages.                                                         *)

\* The bytes of a block: a tool with its result is the larger.
Bytes(block) == IF block.answer = 0 THEN 1 ELSE 2

BytesOf(bs) == FoldLeft(LAMBDA n, b : n + Bytes(b), 0, bs)

At(bs, id) == {i \in DOMAIN bs : bs[i].id = id}

\* Slip: a page that holds one block may be over its bytes, or may be empty.
FitsStrictly(page, limit) == Len(page) <= limit.blocks /\ BytesOf(page) <= limit.bytes
\* The limits of a page: one block fits whatever its size.
Fits(page, limit) ==
    Len(page) <= limit.blocks /\ (Len(page) <= 1 \/ BytesOf(page) <= limit.bytes)

EmptyPage == [blocks |-> <<>>, more |-> FALSE, next |-> None]

\* The longest run of blocks that ends at end and fits.
PageEndingAt(bs, end, limit) ==
    LET starts == {s \in 0..end : Fits(SubSeq(bs, s + 1, end), limit)}
        start == CHOOSE s \in starts : \A t \in starts : s <= t
    IN [blocks |-> SubSeq(bs, start + 1, end), more |-> start > 0,
        next |-> IF start > 0 /\ start < end THEN bs[start + 1].id ELSE None]

\* Slip: a cursor that is not found is read as none.
LostRestarts(bs, limit) == PageEndingAt(bs, Len(bs), limit)
\* A cursor of rows that left the window, or of another session, ends the walk.
Lost(bs, limit) == EmptyPage

\* Slip: the page starts over the block the cursor names.
BeforeInclusive(bs, at) == at
\* The page ends before the block the cursor names.
Before(bs, at) == at - 1

\* paginate_blocks.
Page(bs, before, limit) ==
    IF before = None THEN PageEndingAt(bs, Len(bs), limit)
    ELSE IF At(bs, before) = {} THEN Lost(bs, limit)
    ELSE LET at == CHOOSE i \in At(bs, before) : \A j \in At(bs, before) : i <= j
         IN PageEndingAt(bs, Before(bs, at), limit)

-----------------------------------------------------------------------------

Fresh == [cursor |-> None, given |-> <<>>, pages |-> 0, over |-> FALSE, split |-> FALSE]

TypeOK ==
    /\ store \in {"lines", "parts"}
    /\ rows \in Seq(Row) /\ Len(rows) <= MaxRows
    /\ walk \in [cursor: Nat \cup {None}, given: Seq(Block), pages: 0..MaxPages,
              over: BOOLEAN, split: BOOLEAN]

Init == store \in {"lines", "parts"} /\ rows = <<>> /\ walk = Fresh

NewKey == Cardinality({rows[i].key : i \in DOMAIN rows}) + 1

Calls == {rows[i].key : i \in {j \in DOMAIN rows : rows[j].kind = "call"}}
Answered == {rows[i].of : i \in DOMAIN rows}

Writes(row) ==
    /\ Len(rows) < MaxRows
    /\ rows' = Append(rows, row)
    /\ UNCHANGED <<store, walk>>

WritesText == Writes([key |-> NewKey, kind |-> "text", of |-> 0])
WritesHidden == Writes([key |-> NewKey, kind |-> "hidden", of |-> 0])
WritesCall == Writes([key |-> NewKey, kind |-> "call", of |-> 0])
WritesResult ==
    store = "lines" /\ \E c \in Calls \ Answered :
                          Writes([key |-> NewKey, kind |-> "result", of |-> c])

\* A resumed session repeats a row it started from.
WritesAgain == store = "lines" /\ \E i \in DOMAIN rows : Writes(rows[i])

\* The window holds the repeat of a row but no longer the row.
Split == \E i \in DOMAIN rows, j \in DOMAIN rows :
            i + Window <= Len(rows) /\ j + Window > Len(rows) /\ rows[i].key = rows[j].key

\* read_pane with a cursor: pane_block_page.  The client asks on until a page
\* tells it that there is no more.
AsksPage(limit) ==
    /\ ~walk.over /\ walk.pages < MaxPages /\ rows # <<>>
    /\ LET page == Page(History, walk.cursor, limit)
       IN walk' = [cursor |-> page.next, given |-> page.blocks \o walk.given,
                   pages |-> walk.pages + 1, over |-> ~page.more,
                   split |-> walk.split \/ Split]
    /\ UNCHANGED <<store, rows>>

\* Both bounds are reached.
Quiescent == UNCHANGED vars

Next ==
    \/ WritesText \/ WritesHidden \/ WritesCall \/ WritesResult \/ WritesAgain
    \/ \E limit \in PageLimits : AsksPage(limit)
    \/ Quiescent

Spec == Init /\ [][Next]_vars

-----------------------------------------------------------------------------

\* The rows a reader sees once: without the repeats.
Firsts == {i \in DOMAIN rows : \A j \in 1..(i - 1) : rows[j].key # rows[i].key}

Place(key) == CHOOSE i \in Firsts : rows[i].key = key

\* The rows a walk has passed.
Passed == {i \in Firsts : walk.given # <<>>
              /\ i \in Place(Head(walk.given).row)..Place(Last(walk.given).row)}

\* The pages of a walk fit together while the session grows and its oldest rows leave
\* the window: no block comes twice, none is left out, and the order is the session's
\* (blocks.py:87-88).
WalkIsUnbroken ==
    ~walk.split =>
        /\ \A i \in DOMAIN walk.given, j \in DOMAIN walk.given :
              i < j => Place(walk.given[i].row) < Place(walk.given[j].row)
        /\ \A i \in Passed : rows[i].kind \in {"text", "call"} =>
              \E k \in DOMAIN walk.given : walk.given[k].row = rows[i].key

\* Whatever the window cuts off, every row in it is shown once: a text or a call as a
\* block, a result in its call's block or in one of its own (claude.py:340-343).
RowsAreShownOnce ==
    LET window == InReach(rows)
        bs == ToBlocks(window)
    IN \A i \in DOMAIN window :
          window[i].kind # "hidden" =>
              Cardinality({k \in DOMAIN bs :
                  IF window[i].kind = "result" THEN bs[k].answer = window[i].key
                  ELSE bs[k].row = window[i].key}) = 1

\* A walk ends at the oldest block in reach, or because its cursor has left the window,
\* and any other page takes it further back, or its client would begin anew.
WalkGoesOn ==
    [][walk' # walk =>
         IF walk'.over
         THEN \/ History = <<>> \/ (walk.cursor # None /\ At(History, walk.cursor) = {})
              \/ \E k \in DOMAIN walk'.given : walk'.given[k].row = Head(History).row
         ELSE walk'.cursor # None /\ Len(walk'.given) > Len(walk.given)]_vars

=============================================================================
