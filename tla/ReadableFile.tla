---------------------------- MODULE ReadableFile ----------------------------
(***************************************************************************)
(* What the files a program has open for reading promise it: each has a    *)
(* position in its bytes, reads that deliver what is there and move on,    *)
(* seeks that move within it.                                              *)
(*                                                                         *)
(* A file is trusted as long as what the library knows of its disk is what *)
(* is on the disk.  Nothing is promised of one that is not, until it is    *)
(* opened, or placed, again.                                               *)
(***************************************************************************)
EXTENDS Integers, Sequences

CONSTANT Fds
VARIABLES content,      \* the bytes of each file
          pos,          \* how many of them are before its position
          answer,       \* what the last call on it answered
          trusted

vars == <<content, pos, answer, trusted>>

Lower(m, n) == IF m < n THEN m ELSE n

Init == \A f \in Fds : ~trusted[f]

Open(f) ==
    /\ answer'[f].op = "open"
    /\ pos'[f] = 0

\* A read is short at the end of the file, or where the disk failed.
Read(f) ==
    LET got == answer'[f]
    IN  /\ trusted[f]
        /\ got.op = "read"
        /\ \E n \in 0..Lower(got.asked, Len(content[f]) - pos[f]) :
              /\ got.bytes = SubSeq(content[f], pos[f] + 1, pos[f] + n)
              /\ n < got.asked => pos[f] + n = Len(content[f]) \/ got.failed
              /\ pos'[f] = pos[f] + n
        /\ content'[f] = content[f]

Place(f) ==
    /\ \/ /\ answer'[f].op = "seek"
          /\ pos'[f] = Lower(answer'[f].at, Len(content[f]))
       \/ /\ answer'[f].op = "rewind"
          /\ pos'[f] = 0
    /\ content'[f] = content[f]

Measure(f) ==
    /\ trusted[f]
    /\ answer'[f].op = "length" /\ answer'[f].length = Len(content[f])
    /\ pos'[f] = pos[f] /\ content'[f] = content[f]

Rest(f) ==
    /\ trusted[f]
    /\ answer'[f] = answer[f] \/ answer'[f].op = "none"
    /\ content'[f] = content[f] /\ pos'[f] = pos[f]

Next == \A f \in Fds :
    trusted'[f] => Open(f) \/ Read(f) \/ Place(f) \/ Measure(f) \/ Rest(f)

Spec == Init /\ [][Next]_vars
=============================================================================
