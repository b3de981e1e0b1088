----------------------------- MODULE MCMonitor -----------------------------
(***************************************************************************)
(* Lines and programs for the monitor; or the command loop alone, with the *)
(* lines of MCCommandLine.                                                 *)
(***************************************************************************)
EXTENDS MCCommandLine, Monitor

Typed(chars) == chars \o <<CR>>
\* w 0, w 2 behind an LF, w 100; dump, dump fff8 2, dump g 3, dump 1 fffff; u, u 10, u zz;
\* go, go 4000; reg, dec, bi; cpu, zob, l, bo; 1 2 3 4 5 6 7; and a key that is rubbed
\* out, a TAB and no word, ended by CR LF.
SomeMonitorLines == {<<120, DEL, DEL, TAB, SPACE, CR, LF>>} \cup {Typed(s) : s \in {
    <<119, 32, 48>>, <<LF, 119, 32, 50>>, <<119, 32, 49, 48, 48>>,
    <<100, 117>>, <<100, 117, 32, 102, 102, 102, 56, 32, 50>>,
    <<100, 117, 32, 103, 32, 51>>, <<100, 117, 32, 49, 32, 102, 102, 102, 102, 102>>,
    <<117>>, <<117, 32, 49, 48>>, <<117, 32, 122>>,
    <<103>>, <<103, 32, 52, 48, 48, 48>>, <<114, 101>>, <<100, 101>>, <<98, 105>>,
    <<99>>, <<122>>, <<108>>, <<98, 111>>, <<49, 32, 50, 32, 51, 32, 52, 32, 53, 32, 54, 32, 55>>}}

R(a, b, x, yy, u) == [A |-> a, B |-> b, X |-> x, Y |-> yy, U |-> u]
SomeRegisters == {R(0, 0, 0, 1, 10), R(0, 9, 256, 32768, 65535), R(255, 10, 32767, 4096, 1005)}

TwoBytes(a) == 2

VARIABLE using
Alone == using = "line" /\ Next /\ UNCHANGED <<monitor, using>>
Whole == using = "monitor" /\ MonitorNext /\ UNCHANGED using
BothInit == MonitorInit /\ using \in {"line", "monitor"}
BothNext == Alone \/ Whole
BothSpec == BothInit /\ [][BothNext]_<<vars, monitor, using>> /\ Progress
=============================================================================
