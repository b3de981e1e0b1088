---------------------------- MODULE SectorDevice ----------------------------
(***************************************************************************)
(* What a sector reader and writer promises its caller: status 0 means     *)
(* that the sector asked for was read, or written, exactly; nothing but    *)
(* the sector a write was asked for ever changes.                          *)
(***************************************************************************)
CONSTANTS Original(_),   \* a sector as it was at first
          Data           \* what is written
VARIABLES asked,     \* the request under way: its op and its sector, or none
          status,    \* of the last request: a set, empty for 0
          buffer,    \* the memory it reads to
          changed    \* what the sectors that were written to hold now

vars == <<asked, status, buffer, changed>>

Holds(place) == IF place \in DOMAIN changed THEN changed[place] ELSE Original(place)

Init == asked.op = "none" /\ changed = <<>>

Ask ==
    /\ asked.op = "none" /\ asked'.op # "none"
    /\ changed' = changed

\* A sector being written to may hold anything.
Work ==
    /\ asked' = asked /\ asked.op # "none"
    /\ \/ changed' = changed
       \/ /\ asked.op = "write"
          /\ DOMAIN changed' = DOMAIN changed \cup {asked.place}
          /\ \A place \in DOMAIN changed \ {asked.place} : changed'[place] = changed[place]

Answer ==
    /\ asked.op # "none" /\ asked'.op = "none"
    /\ changed' = changed
    /\ status' = {} => /\ asked.op = "read" => buffer' = Holds(asked.place)
                       /\ asked.op = "write" => Holds(asked.place) = Data

\* Between requests nothing happens to the disks.
Rest == asked.op = "none" /\ asked' = asked /\ changed' = changed

Next == Ask \/ Work \/ Answer \/ Rest
Spec == Init /\ [][Next]_vars
=============================================================================
