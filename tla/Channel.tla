------------------------------ MODULE Channel ------------------------------
(***************************************************************************)
(* What a program that reads and writes the console is promised, whatever  *)
(* the device is: an ordered channel each way.  Typed characters may be    *)
(* lost, never reordered, repeated or made up; a line ends in one          *)
(* character, however it was typed; everything written is shown once and   *)
(* in order; and with echo on a program's input is shown as it gets it.    *)
(***************************************************************************)
EXTENDS Stdio, SequencesExt

CONSTANTS
    Typings,       \* what a terminal may send: sequences of bytes
    Writable       \* the characters a program may write

VARIABLES
    coming,        \* typed, not yet read nor lost, oldest first
    last,          \* the last character given, 0 before there is one
    given,         \* what the program has got, as it asked for it
    shown,         \* what the terminal shows or will show
    echoing        \* g.echo: whether what is given is also shown

channel == <<coming, last, given, shown, echoing>>

ChannelInit ==
    /\ coming \in Typings
    /\ last = 0
    /\ given = <<>> /\ shown = <<>> /\ echoing = FALSE

Lose ==
    /\ \E i \in DOMAIN coming : coming' = RemoveAt(coming, i)
    /\ UNCHANGED <<last, given, shown, echoing>>

\* The line feed of a CR LF pair.
Skip ==
    /\ coming # <<>> /\ Swallowed(last, Head(coming))
    /\ coming' = Tail(coming)
    /\ UNCHANGED <<last, given, shown, echoing>>

Give ==
    /\ coming # <<>> /\ ~Swallowed(last, Head(coming))
    /\ coming' = Tail(coming)
    /\ last' = Canonical(Head(coming))
    /\ given' = Append(given, last')
    /\ shown' = IF echoing THEN Append(shown, last') ELSE shown
    /\ UNCHANGED echoing

Show ==
    /\ \E c \in Writable : shown' = Append(shown, c)
    /\ UNCHANGED <<coming, last, given, echoing>>

SetEcho ==
    /\ echoing' = ~echoing
    /\ UNCHANGED <<coming, last, given, shown>>

ChannelNext == Lose \/ Skip \/ Give \/ Show \/ SetEcho

ChannelSpec == ChannelInit /\ [][ChannelNext]_channel
=============================================================================
