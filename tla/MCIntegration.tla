--------------------------- MODULE MCIntegration ---------------------------
(***************************************************************************)
(* Two commands at a time, and bindings and menu files of every shape the  *)
(* edits tell apart.                                                       *)
(***************************************************************************)
EXTENDS Integration, TLC

MCFound ==
  { [binding |-> <<>>, menu |-> Text!Stock],
    \* An entry, a comment with a brace, and one put behind the rows of a setup.
    [binding |-> <<>>, menu |-> <<"open", "nl", "a", "comma", "nl", "start", "nl", "rows",
      "comma", "nl", "end", "nl", "b", "nl", "brace", "nl", "close", "nl">>],
    \* Without a closing brace.
    [binding |-> <<>>, menu |-> <<>>],
    \* A binding of which a marker is lost, rows whose markers are swapped.
    [binding |-> <<"start">>,
     menu |-> <<"open", "nl", "end", "nl", "start", "nl", "close", "nl">>],
    \* A binding whose markers are swapped, and one pasted twice.
    [binding |-> <<"end", "start">>, menu |-> Text!Stock],
    [binding |-> Block \o Block, menu |-> Text!Stock] }

Symmetric == Permutations(Process)
=============================================================================
