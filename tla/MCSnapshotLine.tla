---- MODULE MCSnapshotLine ----
(***************************************************************************)
(* The words that matter to the parser, and values that are and are not    *)
(* written exactly.                                                        *)
(***************************************************************************)
EXTENDS SnapshotLine

Word(keys, number, hash) == [keys |-> keys, number |-> number, hash |-> hash]

MCWords == {Word(<<>>, NoNumber, FALSE),
            Word(<<>>, NoNumber, TRUE),
            Word(<<>>, 7, FALSE),
            Word(<<>>, 104, FALSE),
            Word(<<"labels">>, NoNumber, FALSE),
            Word(<<"help">>, NoNumber, FALSE),
            Word(<<"value">>, NoNumber, FALSE),
            Word(<<"value">>, 8, FALSE)}
====
