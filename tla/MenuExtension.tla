--------------------------- MODULE MenuExtension ---------------------------
(***************************************************************************)
(* How the Omarchy menu extension, a JSONC file of the user's, is edited   *)
(* as text (crates/cli/src/setup/menu.rs).                                 *)
(*                                                                         *)
(* A document is a sequence of tokens.  What the edits look for in the     *)
(* text are braces, commas, comments and line ends, so these are told      *)
(* apart; an entry of the user's is one token, which has a brace of its    *)
(* own, and so are the rows of the managed block between its two markers.  *)
(***************************************************************************)
EXTENDS Naturals, Sequences, SequencesExt

CONSTANT Own    \* the user's entries, each with the comments inside it

Mark == {"start", "end"}             \* the marker lines, which are comments
Note == {"note", "brace"}            \* a line comment, and one with a brace in it
Entry == Own \union {"rows"}
Meaningful == {"open", "close", "comma"} \union Entry
Token == Meaningful \union Mark \union Note \union {"nl"}

\* EMPTY_EXTENSIONS, what a missing file is taken for.
Stock == <<"open", "nl", "close", "nl">>

\* block(), put on lines of its own.
Block == <<"start", "nl", "rows", "nl", "end", "nl">>

First(doc, token) == SelectInSeq(doc, LAMBDA t : t = token)

\* rfind of a brace: the text is searched, comments and strings included.
LastBrace(doc) == SelectLastInSeq(doc, LAMBDA t : t \in {"close", "brace"} \union Entry)

\* Mutant: the comments before the closing brace are taken for its text.
LastTokenOf(doc) == SelectLastInSeq(doc, LAMBDA t : t # "nl")
LastMeaningful(doc) == SelectLastInSeq(doc, LAMBDA t : t \in Meaningful)

Before(doc, i) == SubSeq(doc, 1, i - 1)
LineEndBefore(doc, i) == SelectLastInSeq(Before(doc, i), LAMBDA t : t = "nl")

HasBlock(doc) == First(doc, "start") # 0 /\ First(doc, "end") # 0
Malformed(doc) == HasBlock(doc) /\ First(doc, "start") > First(doc, "end")

\* The lines from the start marker's to the end marker's go, whole.
WithoutBlock(doc) ==
  LET first == LineEndBefore(doc, First(doc, "start"))
      rest == SubSeq(doc, First(doc, "end"), Len(doc))
      last == SelectInSeq(rest, LAMBDA t : t = "nl")
  IN  SubSeq(doc, 1, first) \o
      IF last = 0 THEN <<>> ELSE SubSeq(rest, last + 1, Len(rest))

WithoutTrailingComma(doc) ==
  LET at == LastMeaningful(Before(doc, LastBrace(doc)))
  IN  IF LastBrace(doc) # 0 /\ at # 0 /\ doc[at] = "comma" THEN RemoveAt(doc, at) ELSE doc

RenderRemoval(doc) ==
  IF HasBlock(doc) THEN WithoutTrailingComma(WithoutBlock(doc)) ELSE doc

WithComma(doc) ==
  LET at == LastMeaningful(Before(doc, LastBrace(doc)))
  IN  IF at # 0 /\ doc[at] \notin {"open", "comma"} THEN InsertAt(doc, at + 1, "comma") ELSE doc

\* The block goes to the start of the line of the last brace.
WithBlock(doc) ==
  LET line == LineEndBefore(doc, LastBrace(doc))
      at == IF line = 0 THEN LastBrace(doc) ELSE line + 1
  IN  Before(doc, at) \o Block \o SubSeq(doc, at, Len(doc))

Unclosed(doc) == LastBrace(RenderRemoval(doc)) = 0

RenderEntry(doc) == WithBlock(WithComma(RenderRemoval(doc)))

-----------------------------------------------------------------------------
(***************************************************************************)
(* What the shell makes of a document, and what is the user's in it.       *)
(***************************************************************************)

\* The tokens of some kinds, in their order.
Those(doc, kinds) ==
  LET those[n \in 0..Len(doc)] ==
        IF n = 0 THEN <<>>
        ELSE IF doc[n] \in kinds THEN Append(those[n - 1], doc[n]) ELSE those[n - 1]
  IN  those[Len(doc)]

\* What comes behind a comment on its line belongs to the comment.
Uncommented(doc) ==
  [i \in DOMAIN doc |->
     IF \E k \in 1..(i - 1) : doc[k] \in Mark \union Note /\ \A j \in k..i : doc[j] # "nl"
     THEN "note" ELSE doc[i]]

\* The shell's reader: entries separated by commas, between one pair of braces.
Reads(text) ==
  LET n == Len(text)
  IN  /\ n >= 2 /\ text[1] = "open" /\ text[n] = "close"
      /\ n = 2 \/ n % 2 = 1
      /\ \A i \in 2..(n - 1) : IF i % 2 = 0 THEN text[i] \in Entry ELSE text[i] = "comma"

Parses(doc) == Reads(Those(Uncommented(doc), Meaningful))

TheUsers(doc) == Those(doc, Own \union Note)

\* No two blocks, whole or torn: of one of the markers there is no second.
OneBlock(doc) ==
  \E mark \in Mark : \A i, j \in DOMAIN doc : doc[i] = mark /\ doc[j] = mark => i = j

\* A line comment is the last on its line.
Lines(doc) ==
  \A i \in DOMAIN doc : doc[i] \in Mark \union Note => i = Len(doc) \/ doc[i + 1] = "nl"

Unmarked(doc) == \A i \in DOMAIN doc : doc[i] \notin Mark

\* Rows on lines of their own, with nothing of the user's among them but the
\* comma that separates them from what was put behind them.
Kept(doc) ==
  LET i == First(doc, "start")
      j == First(doc, "end")
      rows == SubSeq(doc, i, j)
      behind == SubSeq(doc, j + 1, Len(doc))
  IN  /\ 1 < i /\ i < j /\ doc[i - 1] = "nl"
      /\ Unmarked(SubSeq(doc, i + 1, j - 1)) /\ Unmarked(behind)
      /\ TheUsers(rows) = <<>>
      /\ \/ Those(rows, Meaningful) = <<"rows", "comma">>
         \/ Those(rows, Meaningful) = <<"rows">> /\ Those(behind, Meaningful) = <<"close">>

\* Documents whose last brace is the closing one, first on a line of its own.
Editable(doc) ==
  LET at == LastBrace(doc)
  IN  /\ Parses(doc) /\ Lines(doc) /\ at > 1 /\ doc[at] = "close" /\ doc[at - 1] = "nl"
      /\ Unmarked(doc) \/ Kept(doc)

=============================================================================
