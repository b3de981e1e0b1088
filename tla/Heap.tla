-------------------------------- MODULE Heap --------------------------------
(***************************************************************************)
(* sbrk() and sbrkmax() under OS-9 (stdlib/os9-sbrk.c, os9-sbrkmax.c,      *)
(* os9-sbrk-util.c).  The system call F$Mem, which grows or shrinks the    *)
(* data memory of the process to whole pages, is external; how far it can  *)
(* grow depends on the other processes, and changes with them.             *)
(*                                                                         *)
(* Addresses are words: they wrap at AddressSpace.  sbrk() is a step;      *)
(* sbrkmax() is a step for each system call.                               *)
(***************************************************************************)
EXTENDS Integers

CONSTANTS
    AddressSpace,     \* 65536
    LARGE_INCREMENT,  \* $2000
    SMALL_INCREMENT,  \* $100, a page: what F$Mem rounds to
    DataStart,        \* where the data memory of the process begins
    FirstEnd,         \* where it ends at first
    Limits,           \* how far OS-9 may be able to let it grow
    Increments        \* what the program asks of sbrk()

Addresses == 0..AddressSpace - 1
IsPage(a) == a % SMALL_INCREMENT = 0

ASSUME HeapAssumption ==
    /\ AddressSpace \in Nat /\ LARGE_INCREMENT \in Nat \ {0} /\ SMALL_INCREMENT \in Nat \ {0}
    /\ LARGE_INCREMENT <= AddressSpace
    /\ DataStart \in Addresses /\ FirstEnd \in Addresses
    /\ DataStart < FirstEnd /\ FirstEnd \in Limits
    /\ Limits \subseteq Addresses
    /\ Increments \subseteq 1..AddressSpace - 1

\* OS-9 gives memory in pages, and the large step is a number of them.
ASSUME PagesAssumption ==
    /\ IsPage(AddressSpace) /\ IsPage(LARGE_INCREMENT)
    /\ IsPage(DataStart) /\ IsPage(FirstEnd)
    /\ \A l \in Limits : IsPage(l)

VARIABLES
    osEnd,            \* OS-9: the end of the memory the process has
    limit,            \* OS-9: how far it could grow now
    dataSegmentEnd, freeDataMemoryStart,    \* 0 for NULL
    maxAddress,       \* sbrkmax's static variable, 0 for NULL
    scan,             \* sbrkmax(): where it is, highestEnd and increment
    handed,           \* history: the bytes sbrk() has handed out
    wrapped,          \* history: an end beyond the address space was asked for
    outdated          \* history: the limit has changed since sbrkmax() looked

os9 == <<osEnd, limit>>
heap == <<dataSegmentEnd, freeDataMemoryStart>>
heapVars == <<os9, heap, maxAddress, scan, handed, wrapped, outdated>>

Scans == [at : {"no", "grow", "restore"}, highestEnd : Addresses,
          increment : {LARGE_INCREMENT, SMALL_INCREMENT}]
NoScan == [at |-> "no", highestEnd |-> 0, increment |-> LARGE_INCREMENT]

HeapInit ==
    /\ osEnd = FirstEnd
    /\ limit \in Limits /\ limit >= FirstEnd
    /\ dataSegmentEnd = 0 /\ freeDataMemoryStart = 0
    /\ maxAddress = 0
    /\ scan = NoScan
    /\ handed = {}
    /\ wrapped = FALSE
    /\ outdated = FALSE

(***************************************************************************)
(* F$Mem: the size is relative to the start of the data memory, in a word; *)
(* a size of 0 only asks.                                                  *)
(***************************************************************************)
Size(end) == (end - DataStart) % AddressSpace
Page(size) == ((size + SMALL_INCREMENT - 1) \div SMALL_INCREMENT) * SMALL_INCREMENT
Granted(end) == IF Size(end) = 0 THEN osEnd ELSE DataStart + Page(Size(end))
Grants(end) == Granted(end) <= limit

\* _CMOC_initSbrkAllocator: both variables, if not already done.  If OS-9 does not
\* even answer a question, sbrk() and sbrkmax() return and nothing has changed.
Start == IF dataSegmentEnd = 0 THEN osEnd ELSE dataSegmentEnd
Next0 == IF dataSegmentEnd = 0 THEN osEnd ELSE freeDataMemoryStart

(***************************************************************************)
(* sbrk(): from what the process has, or by growing it.                    *)
(***************************************************************************)
\* A mutant: the sum is not tested.
TooLarge_Not(increment) == Next0 - 1 > AddressSpace - 1 + increment
TooLarge(increment) == Next0 - 1 >= AddressSpace - 1 - increment

HandOut(increment) ==
    /\ freeDataMemoryStart' = (Next0 + increment) % AddressSpace
    /\ handed' = handed \cup (Next0..Next0 + increment - 1)

sbrkHere(increment) ==
    /\ scan.at = "no"
    /\ Start - Next0 >= increment
    /\ HandOut(increment)
    /\ dataSegmentEnd' = Start
    /\ UNCHANGED <<os9, maxAddress, scan, wrapped, outdated>>

sbrkGrows(increment) ==
    LET end == Next0 + increment
    IN  /\ scan.at = "no"
        /\ Start - Next0 < increment
        /\ ~TooLarge(increment)
        /\ Grants(end)
        /\ osEnd' = Granted(end)
        /\ dataSegmentEnd' = Granted(end)
        /\ HandOut(increment)
        /\ UNCHANGED <<limit, maxAddress, scan, wrapped, outdated>>

sbrkFails(increment) ==
    /\ scan.at = "no"
    /\ Start - Next0 < increment
    /\ TooLarge(increment) \/ ~Grants(Next0 + increment)
    /\ dataSegmentEnd' = Start /\ freeDataMemoryStart' = Next0
    /\ UNCHANGED <<os9, maxAddress, scan, handed, wrapped, outdated>>

\* sbrk(0) only tells where the next byte would be.
sbrkNothing ==
    /\ scan.at = "no"
    /\ dataSegmentEnd' = Start /\ freeDataMemoryStart' = Next0
    /\ UNCHANGED <<os9, maxAddress, scan, handed, wrapped, outdated>>

(***************************************************************************)
(* sbrkmax(): grow until OS-9 refuses, in large steps and then in small    *)
(* ones, then give it all back; once, and remembered.                      *)
(***************************************************************************)
sbrkmax ==
    /\ scan.at = "no"
    /\ dataSegmentEnd' = Start /\ freeDataMemoryStart' = Next0
    /\ IF maxAddress = 0
       THEN /\ scan' = [at |-> "grow", highestEnd |-> Start, increment |-> LARGE_INCREMENT]
            /\ outdated' = FALSE
       ELSE UNCHANGED <<scan, outdated>>
    /\ UNCHANGED <<os9, maxAddress, handed, wrapped>>

Growing == scan.at = "grow" /\ scan.highestEnd <= AddressSpace - 2 * SMALL_INCREMENT
Wanted == (scan.highestEnd + scan.increment) % AddressSpace

\* highestEnd goes on by the increment, whatever OS-9 granted.
ScanGrows ==
    /\ Growing /\ Grants(Wanted)
    /\ osEnd' = Granted(Wanted)
    /\ scan' = [scan EXCEPT !.highestEnd = Wanted]
    /\ wrapped' = (wrapped \/ scan.highestEnd + scan.increment >= AddressSpace)
    /\ UNCHANGED <<limit, heap, maxAddress, handed, outdated>>

\* A mutant: the small steps are left out.
ScanRefused_Coarse ==
    /\ Growing /\ ~Grants(Wanted)
    /\ scan' = [scan EXCEPT !.at = "restore"]
    /\ UNCHANGED <<os9, heap, maxAddress, handed, wrapped, outdated>>
ScanRefused ==
    /\ Growing /\ ~Grants(Wanted)
    /\ scan' = IF scan.increment = SMALL_INCREMENT
               THEN [scan EXCEPT !.at = "restore"]
               ELSE [scan EXCEPT !.increment = SMALL_INCREMENT]
    /\ UNCHANGED <<os9, heap, maxAddress, handed, wrapped, outdated>>

ScanStops ==
    /\ scan.at = "grow" /\ ~Growing
    /\ scan' = [scan EXCEPT !.at = "restore"]
    /\ UNCHANGED <<os9, heap, maxAddress, handed, wrapped, outdated>>

ScanRestores ==
    /\ scan.at = "restore"
    /\ scan' = NoScan
    /\ IF Grants(dataSegmentEnd)
       THEN osEnd' = Granted(dataSegmentEnd) /\ maxAddress' = scan.highestEnd
       ELSE UNCHANGED <<osEnd, maxAddress>>
    /\ UNCHANGED <<limit, heap, handed, wrapped, outdated>>

\* Other processes take memory, or give it back.
OthersRun ==
    /\ limit' \in Limits
    /\ limit' >= osEnd /\ limit' # limit
    /\ outdated' = (outdated \/ scan.at # "no" \/ maxAddress # 0)
    /\ UNCHANGED <<osEnd, heap, maxAddress, scan, handed, wrapped>>

ScanStep == ScanGrows \/ ScanRefused \/ ScanStops \/ ScanRestores
HeapNext ==
    \/ \E n \in Increments : sbrkHere(n) \/ sbrkGrows(n) \/ sbrkFails(n)
    \/ sbrkNothing \/ sbrkmax \/ ScanStep \/ OthersRun

HeapSpec == HeapInit /\ [][HeapNext]_heapVars
HeapFairSpec == HeapSpec /\ WF_heapVars(ScanStep)

(***************************************************************************)
(* Properties.                                                             *)
(***************************************************************************)
HeapTypeOK ==
    /\ osEnd \in Addresses /\ limit \in Limits
    /\ dataSegmentEnd \in Addresses /\ freeDataMemoryStart \in Addresses
    /\ maxAddress \in Addresses
    /\ scan \in Scans
    /\ wrapped \in BOOLEAN /\ outdated \in BOOLEAN

\* What sbrk() has handed out lies behind the memory the process began with,
\* before what sbrk() hands out next (so that no byte is handed out twice), and
\* in what OS-9 has granted, also while sbrkmax() tries how far it could go:
\* unless sbrkmax() asked for an end beyond the address space, which is taken
\* for a small one and takes the memory away (os9-sbrkmax.c:32-34).
HeapSafe ==
    ~wrapped => \A a \in handed :
        FirstEnd <= a /\ a < freeDataMemoryStart /\ a < osEnd

\* sbrkmax() answers "the maximum number of bytes still allocatable via sbrk()"
\* (cmoc.h:371), to the byte, as long as no other process has run meanwhile: it
\* looks once and remembers.
CanHave(n) == Start - Next0 >= n \/ (~TooLarge(n) /\ Grants(Next0 + n))
MaxIsMost ==
    (scan.at = "no" /\ maxAddress # 0 /\ ~outdated /\ ~wrapped)
        => \A n \in Increments :
              CanHave(n) <=> n <= (maxAddress - freeDataMemoryStart) % AddressSpace

\* sbrkmax() returns, unless it went beyond the address space: then it may begin
\* from the bottom again, without end.
SbrkmaxReturns == (scan.at # "no") ~> (scan.at = "no" \/ wrapped)
=============================================================================
