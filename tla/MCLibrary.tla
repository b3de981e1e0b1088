----------------------------- MODULE MCLibrary -----------------------------
(***************************************************************************)
(* Disks and calls for the CMOC library's files; one heap; arrays and      *)
(* strings.                                                                *)
(***************************************************************************)
EXTENDS Library

F(name, firstGran, last) == [kind |-> "file", name |-> name, firstGran |-> firstGran,
                             numBytesLastSector |-> last]
Erased == [kind |-> "erased"]
End    == [kind |-> "end"]

Table(chains) ==
    [g \in 0..67 |-> IF \E c \in chains : c[1] = g
                     THEN (CHOOSE c \in chains : c[1] = g)[2] ELSE 255]

SomeNames == {<<"A", " ", " ">>, <<"A", "B", "B">>, <<"B", " ", " ">>}

\* A file over both sides of the directory track, with one byte in its last
\* sector, and one that fills its only sector.
DiskOne == [id |-> 1,
            fat |-> Table({<<33, 34>>, <<34, 193>>, <<1, 193>>}),
            dir |-> <<<<Erased, F(<<"A", "B", "B">>, 1, 2)>>,
                      <<F(<<"A", " ", " ">>, 33, 1), End>>>>]
\* The same granule in another use; a file that fills its granule; an empty one.
DiskTwo == [id |-> 2,
            fat |-> Table({<<33, 194>>, <<1, 0>>, <<0, 194>>, <<67, 193>>}),
            dir |-> <<<<F(<<"A", " ", " ">>, 1, 2), F(<<"B", " ", " ">>, 67, 0)>>,
                      <<F(<<"A", "B", "B">>, 33, 1), Erased>>>>]

SomeInserted == {[n \in {0, 1} |-> IF n = 0 THEN DiskOne ELSE DiskTwo]}
SomeDisks == {DiskOne, DiskTwo}
SomeFilenames == {<<"a">>, <<"A", "b", "a", ".", "B", "b">>, <<"b", ".">>}

\* Two delimiters, given together or one at a time.
SomeChars == {"a", "b", ",", ";"}
SomeTexts == UNION {[1..n -> SomeChars \ {"b"}] : n \in 0..4}
             \cup {<<"a", ",", "b">>, <<"a", "b", ";", "b">>}
SomeDelims == {{","}, {",", ";"}}
=============================================================================
