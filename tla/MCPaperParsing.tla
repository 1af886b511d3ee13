--------------------------- MODULE MCPaperParsing ---------------------------
(***************************************************************************)
(* Content lists of up to four blocks, with two part labels and two        *)
(* question headings, for a paper of either university about which more or *)
(* less is known.                                                          *)
(***************************************************************************)
EXTENDS PaperParsing, TLC

MCLabels == <<"a", "b">>

One(type, line) == [type |-> type, lines |-> <<line>>]

MCBlocks ==
    {One("text", line) : line \in {Plain, Marked, Label("a"), Label("b"),
                                   Heading(1), Heading(2), Cover, Phrase}}
    \cup {[type |-> "list", lines |-> ls] :
             ls \in {<<Blank, Marked>>, <<Plain, Label("a")>>,
                     <<Label("a"), Marked>>, <<Label("a"), Label("b")>>}}
    \cup {[type |-> "image", lines |-> <<>>],
          One("table", Plain), One("table", Blank),
          One("footer", Plain), One("header", Cover)}

Known == [parser |-> "cambridge", fileNumber |-> 0,
          year |-> 1, paper |-> 1, question |-> 1]

MCSource ==
    {[Known EXCEPT !.year = 0, !.paper = 0, !.question = 0],
     [Known EXCEPT !.parser = "uoe", !.fileNumber = 1],
     [Known EXCEPT !.parser = "uoe", !.year = 0, !.fileNumber = 1,
                   !.question = 0]}

=============================================================================
