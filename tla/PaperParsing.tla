---------------------------- MODULE PaperParsing ----------------------------
(***************************************************************************)
(* From MinerU's content list of one exam paper to the chunks that are     *)
(* indexed: the two parsers (src/src/chunking/*_content_list_parser.py)    *)
(* find the questions and their parts, the pipeline (pipeline.py) makes a  *)
(* chunk of each and hands out the figures.                                *)
(*                                                                         *)
(* MinerU is external: it may write any sequence of blocks, one page after *)
(* the other, so every content list up to a bound is parsed.  A block      *)
(* keeps its position in the content list when others are left out, and a  *)
(* question is named by the position of the block that opens it.           *)
(***************************************************************************)
EXTENDS QuestionBody, FiniteSetsExt, Functions

CONSTANTS
    Source,     \* what is known of papers beside their content
    Blocks,     \* the blocks MinerU may find, without their pages
    MinPages,   \* pages from which a repeated text is a running title
    MaxBlocks,  \* bound: blocks of a content list
    MaxPages    \* bound: pages

(* A paper: the parser chosen for it, whether its file name starts with a  *)
(* number, and the year, number and question the downloader recorded.      *)
(* Values are numbers from 1; 0 is "not known".                            *)
Unknown == 0
PaperFields == [parser : {"cambridge", "uoe"},
                fileNumber : {Unknown, 1},
                year : {Unknown, 1}, paper : {Unknown, 1},
                question : {Unknown, 1}]

ASSUME PaperAssumption ==
    /\ Source \subseteq PaperFields
    /\ MinPages \in Nat \ {0} /\ MaxBlocks \in Nat /\ MaxPages \in Nat \ {0}

(* Only a list has more than one line.                                     *)
ASSUME BlocksAssumption ==
    \A b \in Blocks :
        /\ b.type \in {"text", "list", "table", "image", "footer", "header"}
        /\ Len(b.lines) \in Nat /\ DOMAIN b.lines = 1..Len(b.lines)
        /\ b.type = "image" => b.lines = <<>>
        /\ b.type \notin {"image", "list"} => DOMAIN b.lines = {1}

VARIABLES
    source,     \* the paper
    stage,      \* "converting", "parsed" or "skipped"
    blocks,     \* its content list, page numbers left out
    chunks      \* what the pipeline made of it

parseVars == <<source, stage, blocks, chunks>>

-----------------------------------------------------------------------------
(* Finding the questions.                                                  *)

HasText(b) == b.type \in {"text", "footer", "header"}
Says(b, line) == HasText(b) /\ b.lines[1] = line
IsHeading(b) == HasText(b) /\ b.lines[1][1] = "heading"
HeadingOf(b) == b.lines[1][2]
Or(a, b) == IF a # Unknown THEN a ELSE b

(* Cambridge: a PDF is one question, and there is no block that opens it.  *)
WholePaper == 0

(* Its line "N Topic (author)" opens the body; the page header, wherever   *)
(* it is, names the paper.                                                 *)
CambridgeHeader(content) ==
    IF \E i \in DOMAIN content : Says(content[i], Cover) THEN 1 ELSE Unknown

QuestionLines(content) ==
    {i \in DOMAIN content : content[i].type = "text" /\ IsHeading(content[i])}

CambridgeBody(content) ==
    Restrict(content,
             {i \in DOMAIN content :
                 /\ QuestionLines(content) # {} => i > Min(QuestionLines(content))
                 /\ content[i].type # "header"})

CambridgeQuestions(content) ==
    [n \in {WholePaper} |->
        [number |-> IF QuestionLines(content) = {} THEN Unknown
                    ELSE HeadingOf(content[Min(QuestionLines(content))]),
         year |-> CambridgeHeader(content),
         paper |-> CambridgeHeader(content),
         body |-> CambridgeBody(content)]]

(* UoE: a text that stands on several pages is a running title, and "turn  *)
(* over" is not content.                                                   *)
PagesOf(content, line) ==
    {content[i].page : i \in {i \in DOMAIN content : Says(content[i], line)}}

Repeating(content) ==
    {i \in DOMAIN content :
        /\ HasText(content[i])
        /\ content[i].lines[1] # Blank
        /\ Cardinality(PagesOf(content, content[i].lines[1])) >= MinPages}

Content(content) ==
    Restrict(content,
             {i \in DOMAIN content \ Repeating(content) :
                 ~ (content[i].type \in {"text", "footer"}
                    /\ Says(content[i], Phrase))})

(* The cover ends where "Question 1" stands.                               *)
OnCover(content, i) ==
    \A j \in DOMAIN content : Says(content[j], Heading(1)) => i < j

UOEYear(content) ==
    IF \E i \in DOMAIN content : /\ OnCover(content, i)
                                 /\ content[i].type = "text"
                                 /\ Says(content[i], Cover)
    THEN 1 ELSE Unknown

(* From there every marker opens a question.                               *)
Markers(content) ==
    {i \in DOMAIN content : IsHeading(content[i]) /\ ~OnCover(content, i)}

SplitQuestions(content) ==
    [m \in Markers(content) |->
        Restrict(content,
                 {i \in DOMAIN content :
                     i > m /\ \A n \in Markers(content) : n > m => i < n})]

UOEQuestions(content) ==
    LET kept == Content(content)
    IN  [m \in Markers(kept) |->
            [number |-> HeadingOf(kept[m]),
             year |-> UOEYear(kept),
             paper |-> source.fileNumber,
             body |-> SplitQuestions(kept)[m]]]

(* What the parser knows comes first, the downloader's record second.      *)
Questions ==
    LET found == IF source.parser = "cambridge" THEN CambridgeQuestions(blocks)
                 ELSE UOEQuestions(blocks)
    IN  [n \in DOMAIN found |->
            [found[n] EXCEPT !.number = Or(@, source.question),
                             !.year = Or(@, source.year),
                             !.paper = Or(@, source.paper)]]

Marks(body, ps) ==
    IF source.parser = "cambridge" THEN CambridgeMarks(body, ps)
    ELSE UOEMarks(body, ps)

-----------------------------------------------------------------------------
(* The pipeline.                                                           *)

(* Mutated: the number of the question is left out.                        *)
ChunkId_OfPaper(q, part) ==
    [year |-> q.year, paper |-> q.paper, number |-> 0, part |-> part]

(* year-paper-question, with the part's label; when one is not known, the  *)
(* name of the file stands for all three.                                  *)
ChunkId(q, part) ==
    IF q.year # Unknown /\ q.paper # Unknown /\ q.number # Unknown
    THEN [year |-> q.year, paper |-> q.paper, number |-> q.number, part |-> part]
    ELSE [year |-> 0, paper |-> 0, number |-> 0, part |-> part]

(* The figures of a chunk: [block, relation].  A figure in front of the    *)
(* first part is the question's, and every part inherits it; any other is  *)
(* its part's, and the question shows it.                                  *)
MediaRefs(q, part) ==
    LET owned == {i \in MediaBlocks(q.body) : OwnerHint(q.body, i) = part}
        shared == {i \in MediaBlocks(q.body) : OwnerHint(q.body, i) = NoLabel}
    IN  (owned \X {"direct"})
        \cup (IF part = NoLabel
              THEN (MediaBlocks(q.body) \ owned) \X {"visible_from_child"}
              ELSE shared \X {"inherited_shared"})

(* What a chunk says: what its segment displays, or, if that is empty, the *)
(* text of the part.                                                       *)
PartLines(q, part) ==
    IF LogicalSegment(q.body, part) # {} THEN LogicalSegment(q.body, part)
    ELSE SubQuestion(q.body, part)

QuestionText(q) ==
    LET displayed == UNION {LogicalSegment(q.body, n) :
                               n \in {NoLabel} \cup Parts(q.body)}
    IN  IF displayed # {} THEN displayed
        ELSE UNION {SubQuestion(q.body, n) : n \in {NoLabel} \cup Parts(q.body)}

(* The chunk of a question, and one of each part, whose parent_chunk_id is *)
(* the question's id.                                                      *)
BuildChunks(n) ==
    LET q == Questions[n]
    IN  {[of |-> n, part |-> NoLabel, id |-> ChunkId(q, NoLabel), parent |-> {},
          lines |-> QuestionText(q),
          media |-> MediaRefs(q, NoLabel), marks |-> NoMarks]}
        \cup
        {[of |-> n, part |-> k, id |-> ChunkId(q, k),
          parent |-> {ChunkId(q, NoLabel)},
          lines |-> PartLines(q, k),
          media |-> MediaRefs(q, k),
          marks |-> Marks(q.body, SubQuestion(q.body, k))] : k \in Parts(q.body)}

-----------------------------------------------------------------------------

ParseInit ==
    /\ source \in Source
    /\ stage = "converting"
    /\ blocks = <<>>
    /\ chunks = {}

LastPage == IF blocks = <<>> THEN 1 ELSE blocks[Len(blocks)].page

(* MinerU finds one more block.  Pages only matter to a text that has been *)
(* there before, so the page is turned for such a one only.                *)
Find ==
    /\ stage = "converting"
    /\ Len(blocks) < MaxBlocks
    /\ \E b \in Blocks, page \in LastPage..MaxPages :
          /\ \/ page = LastPage
             \/ \E i \in DOMAIN blocks : /\ HasText(b)
                                         /\ Says(blocks[i], b.lines[1])
          /\ blocks' = Append(blocks, [type |-> b.type, lines |-> b.lines,
                                       page |-> page])
    /\ UNCHANGED <<source, stage, chunks>>

(* The content list is complete, and run_pipeline reads it.                *)
RunPipeline ==
    /\ stage = "converting"
    /\ DOMAIN Questions # {}
    /\ chunks' = UNION {BuildChunks(n) : n \in DOMAIN Questions}
    /\ stage' = "parsed"
    /\ UNCHANGED <<source, blocks>>

(* No question is found, or the parser raises: the paper is skipped.       *)
Skip ==
    /\ stage = "converting"
    /\ stage' = "skipped"
    /\ UNCHANGED <<source, blocks, chunks>>

ParseNext == Find \/ RunPipeline \/ Skip

ParseSpec == ParseInit /\ [][ParseNext]_parseVars

-----------------------------------------------------------------------------
(* Properties.                                                             *)

(* No item of a list in front of one of the first n labels is blank.       *)
Aligned(body, n) ==
    \A s \in Starts(body) :
        Cardinality(UpTo(Starts(body), s)) <= n =>
            \A p \in UpTo(Flatten(body), s) : LineAt(body, p) # Blank

(* What a chunk displays is found by the label that ends it: the loops     *)
(* count blank items differently, so after one the labels come late.  The  *)
(* question as a whole has none to miss.                                   *)
InStep(c) == c.part # NoLabel => Aligned(Questions[c.of].body, c.part + 1)

(* The displayed lines of a chunk are those its part was found to have.    *)
Agree(c) ==
    LET body == Questions[c.of].body
        read == Indexed(body, c.lines)
    IN  /\ read = Filled(body, IF c.part = NoLabel THEN Flatten(body)
                               ELSE SubQuestion(body, c.part))
        /\ c.part # NoLabel => c.marks = Marks(body, read)

(* Text, display and marks of a part belong together: a chunk displays the *)
(* lines its part was found to have, over which its marks were counted,    *)
(* although the three are computed by loops of their own.  Of the parts    *)
(* that end after a blank item in front of a label nothing is said.        *)
PartsAgree == \A c \in chunks : InStep(c) => Agree(c)

(* Every figure is owned by one chunk, the one that displays it between    *)
(* its lines; one in front of the first part is displayed by the question  *)
(* only; the question refers to every figure, and a part to none that      *)
(* another part owns.                                                      *)
MediaFollowsItsPart ==
    \A n \in {c.of : c \in chunks} :
      LET body == Questions[n].body
          family == {c \in chunks : c.of = n}
          owners(i) == {c \in family : <<i, "direct">> \in c.media}
          refers(c, i) == \E r \in c.media : r[1] = i
      IN  \A i \in MediaBlocks(body) :
            /\ Cardinality(owners(i)) = 1
            /\ \A c \in owners(i) :
                 /\ InStep(c) => <<i, 1>> \in c.lines
                 /\ c.part = NoLabel =>
                      \A d \in family \ {c} : <<i, 1>> \notin d.lines
            /\ \A c \in family :
                 IF c.part = NoLabel THEN refers(c, i)
                 ELSE refers(c, i) => \A d \in owners(i) : d.part \in {c.part, NoLabel}

(* Year and number of the paper are known and no question number occurs    *)
(* twice, or there is only one question.                                   *)
Identified ==
    LET qs == Questions IN
    \/ Cardinality(DOMAIN qs) = 1
    \/ /\ \A n \in DOMAIN qs : qs[n].year # Unknown /\ qs[n].paper # Unknown
       /\ \A n, m \in DOMAIN qs : qs[n].number = qs[m].number => n = m

(* index_chunks inserts a paper's chunks by id, and parts find their       *)
(* question by id: in an identified paper no two chunks have one id, and   *)
(* the id a part names as its parent is that of its own question.          *)
FamiliesDistinct ==
    stage = "parsed" /\ Identified =>
        \A c, d \in chunks :
            /\ c.id = d.id => c = d
            /\ d.id \in c.parent <=>
                 d.of = c.of /\ d.part = NoLabel /\ c.part # NoLabel

=============================================================================
