---------------------------- MODULE QuestionBody ----------------------------
(***************************************************************************)
(* How a parser takes the body of one question apart: the blocks MinerU    *)
(* found between the question's heading and its end.                       *)
(*                                                                         *)
(* The code does it three times over the same blocks: _split_sub_questions *)
(* makes the text of the parts, _compute_owner_hints_by_block says whose   *)
(* the figures are, and _split_into_logical_segments makes the blocks that *)
(* are displayed.  All three find the parts by the index of a line, and    *)
(* the third numbers the lines in a loop of its own.  Both parsers have a  *)
(* copy of this code; they differ in how marks are written.                *)
(*                                                                         *)
(* A body is a function from the positions of its blocks in the content    *)
(* list to the blocks, records [type, lines, page].  A block's lines are   *)
(* the items of a list and otherwise its one text; an image has none.      *)
(* "text" stands for the types that are read as one text (text, equation,  *)
(* code) and "footer" for those no parser reads (footer, aside_text).      *)
(* A loop over the lines is the set of places it visits, in the order of   *)
(* the paper, and the index of a line is how many it has come to by then.  *)
(***************************************************************************)
EXTENDS Naturals, Sequences, FiniteSets

CONSTANT Labels         \* the part labels in order, a, b, c...

Blank == <<"blank">>
Plain == <<"plain">>
Marked == <<"marked">>              \* a line that ends with its marks
Label(l) == <<"label", l>>          \* a line that begins with a label
Heading(n) == <<"heading", n>>      \* "Question n", or "n Topic (author)"
Cover == <<"cover">>                \* names the paper: its year, its number
Phrase == <<"phrase">>              \* "please turn over"

NoLabel == 0

Read == {"text", "table", "list"}

(* A line is named by its block and its place in the block.                *)
LineAt(body, p) == body[p[1]].lines[p[2]]
Places(body) == UNION {{i} \X DOMAIN body[i].lines : i \in DOMAIN body}
Filled(body, ps) == {p \in ps : LineAt(body, p) # Blank}

Above(p, q) == p[1] < q[1] \/ (p[1] = q[1] /\ p[2] < q[2])
UpTo(ps, q) == {p \in ps : p = q \/ Above(p, q)}

(* The number of the label a line begins with.                             *)
LabelOf(line) ==
    IF \E n \in DOMAIN Labels : line = Label(Labels[n])
    THEN CHOOSE n \in DOMAIN Labels : line = Label(Labels[n])
    ELSE NoLabel

(* The segments of a body: every item of a list, and the text of every     *)
(* other block that is read and has one.                                   *)
Flatten(body) ==
    {p \in Places(body) :
        \/ body[p[1]].type = "list"
        \/ body[p[1]].type \in Read /\ LineAt(body, p) # Blank}

(* Labels open parts in the order a, b, c...: a label counts when it is    *)
(* the next after those that count above it; one out of order belongs to a *)
(* nested list.                                                            *)
Sequential(body, starts) ==
    \A p \in Flatten(body) :
        p \in starts <=>
            LabelOf(LineAt(body, p)) =
                Cardinality({q \in starts : Above(q, p)}) + 1

FilterSequentialLabels(body) ==
    CHOOSE starts \in SUBSET {p \in Flatten(body) :
                                 LabelOf(LineAt(body, p)) # NoLabel} :
        Sequential(body, starts)

(* The segments that open a part, and the numbers of the parts.            *)
Starts(body) == FilterSequentialLabels(body)
Parts(body) == 1..Cardinality(Starts(body))

-----------------------------------------------------------------------------
(* The text of the question: a part extends to the next, and what lies     *)
(* before the first part is the preamble (n = NoLabel).                    *)
SubQuestion(body, n) ==
    LET starts == Starts(body)
    IN  {p \in Flatten(body) : Cardinality(UpTo(starts, p)) = n}

-----------------------------------------------------------------------------
(* Figures and tables.                                                     *)

MediaBlocks(body) ==
    {i \in DOMAIN body : body[i].type \in {"image", "table"}}

(* Mutated: the last label, in or out of order. *)
OwnerHint_AnyLabel(body, i) ==
    LET labelled == {p \in Flatten(body) :
                        p[1] <= i /\ LabelOf(LineAt(body, p)) # NoLabel}
        last == CHOOSE p \in labelled : UpTo(labelled, p) = labelled
    IN  IF labelled = {} THEN NoLabel ELSE LabelOf(LineAt(body, last))

(* The part that is open after the segments of a block; none before the    *)
(* first.                                                                  *)
OwnerHint(body, i) == Cardinality({s \in Starts(body) : s[1] <= i})

-----------------------------------------------------------------------------
(* The displayed blocks.                                                   *)

(* What each block displays: a figure; a table or a note in its place; a   *)
(* text, read or not; the items of a list.  Nothing blank is displayed.    *)
Displayed(body) ==
    {<<i, 1>> : i \in MediaBlocks(body)}
    \cup {p \in Filled(body, Places(body)) : p[1] \notin MediaBlocks(body)}

(* What has an index of its own here: a text that is read, and an item of  *)
(* a list, unless it is blank.                                             *)
Indexed(body, ps) ==
    {p \in ps : body[p[1]].type \in Read /\ LineAt(body, p) # Blank}

(* The segment that is open when something is displayed is that of the     *)
(* last label whose index has been reached.                                *)
Reached(body, starts, seen) ==
    {s \in starts : Cardinality(UpTo(Flatten(body), s)) <= Cardinality(seen)}

(* Mutated: the index is the place among all that is displayed.            *)
LogicalSegment_ByPlace(body, n) ==
    LET displayed == Displayed(body)
        starts == Starts(body)
    IN  {p \in displayed :
            Cardinality(Reached(body, starts, UpTo(displayed, p))) = n}

(* What the segment of part n displays, or the preamble (n = NoLabel):     *)
(* the labels open segments, and whatever has no label of its own joins    *)
(* the segment that is open.                                               *)
LogicalSegment(body, n) ==
    LET displayed == Displayed(body)
        starts == Starts(body)
    IN  {p \in displayed :
            Cardinality(Reached(body, starts,
                                Indexed(body, UpTo(displayed, p)))) = n}

-----------------------------------------------------------------------------
(* Marks: every marked line is worth one.  A part without any has NoMarks. *)

NoMarks == 0
MarkedLines(body, ps) == Cardinality({p \in ps : LineAt(body, p) = Marked})

(* Cambridge: the sum of all marks in the part.                            *)
CambridgeMarks(body, ps) == MarkedLines(body, ps)

(* UoE: the marks of the last line that has some.                          *)
UOEMarks(body, ps) == IF MarkedLines(body, ps) > 0 THEN 1 ELSE NoMarks

=============================================================================
