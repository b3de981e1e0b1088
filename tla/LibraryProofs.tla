---------------------------- MODULE LibraryProofs ----------------------------
(***************************************************************************)
(* The heap, strtok() and the files of a disk, for every value of their    *)
(* constants.                                                              *)
(*                                                                         *)
(* The heap: HeapSafe and MaxIsMost for every size of the address space,   *)
(* of the steps and of the limits, whatever OS-9 grants and other          *)
(* processes do.  HeapSafe is not inductive: that sbrkmax() never takes    *)
(* away what was handed out depends on where its scan began, and that      *)
(* sbrk() never hands out a byte twice on where it last stopped.           *)
(*                                                                         *)
(* strtok(): TokensAreWords for all strings and all sets of delimiters.    *)
(* It is not inductive: that a scan goes on where the last word was cut    *)
(* off, and that the string is untouched from there on, is what Scan adds. *)
(*                                                                         *)
(* The files: for all disks, all files on them, all sizes of sectors and   *)
(* granules, any number of descriptors and changes of disks.  DiesInDoubt  *)
(* rests on what a descriptor knows of its file (Knows) and on the buffer  *)
(* never being used up but at the end of the file (Within); the promise of *)
(* a readable file on where the buffer and the reader are in its bytes     *)
(* (Sited), and on what read() has gathered so far (Gathered).             *)
(*                                                                         *)
(* The library: a program that uses it is one of each of its parts.        *)
(***************************************************************************)
EXTENDS Library, DecbProofs, SequenceTheorems

-----------------------------------------------------------------------------
(* The heap: the invariant.                                                *)

\* As long as no end beyond the address space was asked for: what was handed
\* out, what is handed out next, the end the library knows of and the one of
\* OS-9 follow one another; a scan looks only behind the end it began with.
Sound ==
    /\ dataSegmentEnd = 0 =>
          /\ handed = {}
          /\ FirstEnd <= osEnd
          /\ scan.at = "no"
    /\ dataSegmentEnd # 0 =>
          /\ FirstEnd <= freeDataMemoryStart
          /\ freeDataMemoryStart <= dataSegmentEnd
          /\ dataSegmentEnd <= osEnd
          /\ \A a \in handed : FirstEnd <= a /\ a < freeDataMemoryStart
    /\ scan.at # "no" => dataSegmentEnd <= scan.highestEnd

HeapInv == HeapTypeOK /\ handed \subseteq Int /\ (~wrapped => Sound)

-----------------------------------------------------------------------------
(* Arithmetic of words and pages.                                          *)

LEMMA ModType ==
    ASSUME NEW x \in Int, NEW n \in Nat \ {0}
    PROVE  x % n \in 0..n - 1
  BY Z3

LEMMA ModSmall ==
    ASSUME NEW n \in Nat \ {0}, NEW x \in 0..n - 1
    PROVE  x % n = x
  BY Z3

LEMMA RoundUp ==
    ASSUME NEW s \in Nat, NEW b \in Nat \ {0}
    PROVE  /\ ((s + b - 1) \div b) * b \in Nat
           /\ ((s + b - 1) \div b) * b >= s
  <1> DEFINE x == s + b - 1
             q == x \div b
             r == x % b
  <1>1. x \in Nat /\ q \in Nat /\ r \in 0..b - 1 /\ x = b * q + r
    BY Z3
  <1>2. q * b = b * q /\ q * b \in Nat
    BY <1>1, Z3
  <1> HIDE DEF q, r
  <1> QED
    BY <1>1, <1>2, Z3

\* What F$Mem grants is an address, if it grants anything, and no less than an
\* end between the start of the data memory and the end of the address space.
LEMMA GrantedEnd ==
    ASSUME HeapTypeOK, NEW end \in Int, Grants(end)
    PROVE  /\ Granted(end) \in Addresses
           /\ (DataStart < end /\ end < AddressSpace) => end <= Granted(end)
  <1> USE HeapAssumption DEF Addresses
  <1> DEFINE size == Size(end)
  <1>1. size \in 0..AddressSpace - 1
    <2>1. end - DataStart \in Int /\ AddressSpace \in Nat \ {0}
      OBVIOUS
    <2> QED
      BY <2>1, ModType DEF Size
  <1>2. Page(size) \in Nat /\ Page(size) >= size
    <2>1. size \in Nat
      BY <1>1
    <2> HIDE DEF size
    <2> QED
      BY <2>1, RoundUp DEF Page
  <1>3. limit \in Addresses /\ osEnd \in Addresses
    BY DEF HeapTypeOK
  <1>4. Granted(end) = IF size = 0 THEN osEnd ELSE DataStart + Page(size)
    BY DEF Granted
  <1>5. Granted(end) <= limit
    BY DEF Grants
  <1>6. ASSUME DataStart < end, end < AddressSpace
        PROVE  size = end - DataStart
    <2>1. end - DataStart \in 0..AddressSpace - 1 /\ AddressSpace \in Nat \ {0}
      BY <1>6
    <2> QED
      BY <2>1, ModSmall DEF Size
  <1> HIDE DEF size
  <1> QED
    BY <1>1, <1>2, <1>3, <1>4, <1>5, <1>6

\* Where the heap is, once it is known to the library.
LEMMA HeapKnown ==
    ASSUME HeapInv, ~wrapped
    PROVE  /\ Start \in Addresses /\ Next0 \in Addresses
           /\ Start # 0
           /\ DataStart < FirstEnd /\ FirstEnd <= Next0 /\ Next0 <= Start /\ Start <= osEnd
           /\ \A a \in handed : FirstEnd <= a /\ a < Next0
  BY HeapAssumption DEF HeapInv, HeapTypeOK, Sound, Start, Next0, Addresses

\* An end that sbrk() asks for is one of the address space.
LEMMA NotTooLarge ==
    ASSUME HeapInv, NEW n \in Increments, ~TooLarge(n)
    PROVE  Next0 + n \in Addresses
  BY HeapAssumption DEF HeapInv, HeapTypeOK, TooLarge, Next0, Addresses

-----------------------------------------------------------------------------
LEMMA HeapInit_Inv == HeapInit => HeapInv
  <1> SUFFICES ASSUME HeapInit PROVE HeapInv
    OBVIOUS
  <1>1. 0 \in Addresses /\ FirstEnd \in Addresses
    BY HeapAssumption DEF Addresses
  <1>2. scan \in Scans /\ scan.at = "no"
    BY <1>1 DEF HeapInit, Scans, NoScan
  <1>3. HeapTypeOK
    BY <1>1, <1>2 DEF HeapInit, HeapTypeOK
  <1>4. Sound
    BY <1>1, <1>2 DEF HeapInit, Sound, Addresses
  <1> QED
    BY <1>3, <1>4 DEF HeapInit, HeapInv

\* A byte handed out lies between Next0 and Next0 + n.
LEMMA HandsOut ==
    ASSUME HeapInv, NEW n \in Increments, HandOut(n), Next0 + n \in Addresses
    PROVE  /\ freeDataMemoryStart' = Next0 + n
           /\ freeDataMemoryStart' \in Addresses
           /\ handed' \subseteq Int
           /\ \A a \in handed' : a \in handed \/ (Next0 <= a /\ a < Next0 + n)
  <1> USE HeapAssumption DEF Addresses
  <1>1. Next0 \in Int /\ n \in Int /\ AddressSpace \in Nat \ {0}
    BY DEF HeapInv, HeapTypeOK, Next0
  <1>2. (Next0 + n) % AddressSpace = Next0 + n
    BY <1>1, ModSmall
  <1>3. \A a \in Next0..Next0 + n - 1 : a \in Int /\ Next0 <= a /\ a < Next0 + n
    BY <1>1
  <1> QED
    BY <1>2, <1>3 DEF HandOut, HeapInv

LEMMA HeapNext_Inv == HeapInv /\ [HeapNext]_heapVars => HeapInv'
  <1> SUFFICES ASSUME HeapInv, [HeapNext]_heapVars
               PROVE  HeapInv'
    OBVIOUS
  <1> USE HeapAssumption
  <1>1. ASSUME NEW n \in Increments, sbrkHere(n)
        PROVE  HeapInv'
    <2>1. Next0 \in Addresses /\ Start \in Addresses /\ n \in Nat
      BY DEF HeapInv, HeapTypeOK, Next0, Start, Addresses
    <2>2. Next0 + n \in Addresses /\ Next0 + n <= Start
      BY <1>1, <2>1 DEF sbrkHere, Addresses
    <2>3. HandOut(n) /\ dataSegmentEnd' = Start /\ scan.at = "no"
          /\ UNCHANGED <<osEnd, limit, maxAddress, scan, wrapped, outdated>>
      BY <1>1 DEF sbrkHere, os9
    <2>4. /\ freeDataMemoryStart' = Next0 + n
          /\ handed' \subseteq Int
          /\ \A a \in handed' : a \in handed \/ (Next0 <= a /\ a < Next0 + n)
      BY <2>2, <2>3, HandsOut
    <2>5. HeapTypeOK'
      BY <2>1, <2>2, <2>3, <2>4 DEF HeapInv, HeapTypeOK
    <2>6. ASSUME ~wrapped PROVE Sound'
      <3>1. /\ Start # 0
            /\ FirstEnd <= Next0 /\ Start <= osEnd
            /\ \A a \in handed : FirstEnd <= a /\ a < Next0
        BY <2>6, HeapKnown
      <3>2. \A a \in handed' : a \in Int
        BY <2>4
      <3> QED
        BY <2>1, <2>2, <2>3, <2>4, <3>1, <3>2 DEF HeapInv, HeapTypeOK, Sound, Addresses
    <2> QED
      BY <2>3, <2>4, <2>5, <2>6 DEF HeapInv
  <1>2. ASSUME NEW n \in Increments, sbrkGrows(n)
        PROVE  HeapInv'
    <2> DEFINE end == Next0 + n
    <2>1. Next0 \in Addresses /\ n \in Nat \ {0} /\ end \in Addresses
      BY <1>2, NotTooLarge DEF HeapInv, HeapTypeOK, Next0, Addresses, sbrkGrows
    <2>2. HandOut(n) /\ dataSegmentEnd' = Granted(end) /\ osEnd' = Granted(end)
          /\ scan.at = "no" /\ Grants(end)
          /\ UNCHANGED <<limit, maxAddress, scan, wrapped, outdated>>
      BY <1>2 DEF sbrkGrows
    <2>3. /\ freeDataMemoryStart' = end
          /\ handed' \subseteq Int
          /\ \A a \in handed' : a \in handed \/ (Next0 <= a /\ a < end)
      BY <2>1, <2>2, HandsOut
    <2>4. /\ Granted(end) \in Addresses
          /\ (DataStart < end /\ end < AddressSpace) => end <= Granted(end)
      BY <2>1, <2>2, GrantedEnd DEF HeapInv, Addresses
    <2>5. HeapTypeOK'
      BY <2>1, <2>2, <2>3, <2>4 DEF HeapInv, HeapTypeOK
    <2>6. ASSUME ~wrapped PROVE Sound'
      <3>1. /\ DataStart < FirstEnd /\ FirstEnd <= Next0
            /\ \A a \in handed : FirstEnd <= a /\ a < Next0
        BY <2>6, HeapKnown
      <3>2. DataStart < end /\ end < AddressSpace /\ FirstEnd <= end /\ end # 0
        BY <2>1, <3>1 DEF Addresses
      <3>3. \A a \in handed' : FirstEnd <= a /\ a < end
        <4>1. \A a \in handed' : a \in Int
          BY <2>3
        <4> QED
          BY <2>1, <2>3, <3>1, <4>1 DEF Addresses
      <3> HIDE DEF end
      <3> QED
        BY <2>1, <2>2, <2>3, <2>4, <3>2, <3>3 DEF Sound, Addresses
    <2> QED
      BY <2>2, <2>3, <2>5, <2>6 DEF HeapInv
  <1>3. ASSUME NEW n, sbrkFails(n) \/ sbrkNothing
        PROVE  HeapInv'
    <2>1. /\ dataSegmentEnd' = Start /\ freeDataMemoryStart' = Next0 /\ scan.at = "no"
          /\ UNCHANGED <<osEnd, limit, maxAddress, scan, handed, wrapped, outdated>>
      BY <1>3 DEF sbrkFails, sbrkNothing, os9
    <2>2. HeapTypeOK'
      BY <2>1 DEF HeapInv, HeapTypeOK, Start, Next0
    <2>3. ASSUME ~wrapped PROVE Sound'
      BY <2>1, <2>3, HeapKnown DEF Sound
    <2> QED
      BY <2>1, <2>2, <2>3 DEF HeapInv
  <1>4. CASE sbrkmax
    <2>1. /\ dataSegmentEnd' = Start /\ freeDataMemoryStart' = Next0
          /\ \/ UNCHANGED scan /\ scan.at = "no"
             \/ scan' = [at |-> "grow", highestEnd |-> Start, increment |-> LARGE_INCREMENT]
          /\ outdated' \in {outdated, FALSE}
          /\ UNCHANGED <<osEnd, limit, maxAddress, handed, wrapped>>
      BY <1>4 DEF sbrkmax, os9
    <2>2. Start \in Addresses /\ Next0 \in Addresses
      BY DEF HeapInv, HeapTypeOK, Start, Next0
    <2>3. scan' \in Scans
      BY <2>1, <2>2 DEF Scans, HeapInv, HeapTypeOK
    <2>4. HeapTypeOK'
      BY <2>1, <2>2, <2>3 DEF HeapInv, HeapTypeOK
    <2>5. ASSUME ~wrapped PROVE Sound'
      <3>1. scan'.at # "no" => Start <= scan'.highestEnd
        BY <2>1, <2>2 DEF Addresses
      <3> QED
        BY <2>1, <2>5, <3>1, HeapKnown DEF Sound
    <2> QED
      BY <2>1, <2>4, <2>5 DEF HeapInv
  <1>5. CASE ScanGrows
    <2> DEFINE end == scan.highestEnd + scan.increment
    <2>1. /\ scan.at = "grow" /\ Grants(Wanted)
          /\ osEnd' = Granted(Wanted)
          /\ scan' = [scan EXCEPT !.highestEnd = Wanted]
          /\ wrapped' = (wrapped \/ end >= AddressSpace)
          /\ UNCHANGED <<limit, dataSegmentEnd, freeDataMemoryStart, maxAddress, handed, outdated>>
      BY <1>5 DEF ScanGrows, Growing, heap
    <2>2. /\ scan \in Scans /\ scan.highestEnd \in Addresses
          /\ scan.increment \in Nat \ {0} /\ end \in Nat
          /\ AddressSpace \in Nat \ {0}
      <3>1. /\ scan \in Scans /\ scan.highestEnd \in Addresses
            /\ scan.increment \in {LARGE_INCREMENT, SMALL_INCREMENT}
        BY DEF HeapInv, HeapTypeOK, Scans
      <3>2. AddressSpace \in Nat \ {0}
        BY DEF Addresses
      <3> QED
        BY <3>1, <3>2 DEF Addresses
    <2>3. Wanted \in Addresses /\ Wanted \in Int
      <3>1. Wanted = end % AddressSpace
        BY DEF Wanted
      <3>2. end \in Int /\ AddressSpace \in Nat \ {0}
        BY <2>2
      <3> HIDE DEF end
      <3>3. end % AddressSpace \in 0..AddressSpace - 1
        BY <3>2, ModType
      <3> QED
        BY <2>2, <3>1, <3>3 DEF Addresses
    <2>4. end < AddressSpace => Wanted = end
      BY <2>2, ModSmall DEF Wanted
    <2>5. /\ Granted(Wanted) \in Addresses
          /\ (DataStart < Wanted /\ Wanted < AddressSpace) => Wanted <= Granted(Wanted)
      BY <2>1, <2>3, GrantedEnd DEF HeapInv
    <2>6. scan' \in Scans /\ scan'.at = "grow" /\ scan'.highestEnd = Wanted
      BY <2>1, <2>2, <2>3 DEF Scans
    <2>7. HeapTypeOK'
      <3>1. wrapped' \in BOOLEAN
        BY <2>1
      <3> QED
        BY <2>1, <2>5, <2>6, <3>1 DEF HeapInv, HeapTypeOK
    <2>8. ASSUME ~wrapped' PROVE Sound'
      <3>1. ~wrapped /\ ~(end >= AddressSpace)
        BY <2>1, <2>8
      <3>2. end < AddressSpace /\ Wanted = end
        BY <2>2, <2>4, <3>1
      <3>3. /\ dataSegmentEnd # 0 /\ dataSegmentEnd <= scan.highestEnd
            /\ FirstEnd <= freeDataMemoryStart /\ freeDataMemoryStart <= dataSegmentEnd
            /\ \A a \in handed : FirstEnd <= a /\ a < freeDataMemoryStart
        BY <2>1, <3>1 DEF HeapInv, Sound
      <3>4. /\ dataSegmentEnd \in Int /\ freeDataMemoryStart \in Int
            /\ DataStart \in Int /\ FirstEnd \in Int /\ DataStart < FirstEnd
        BY DEF HeapInv, HeapTypeOK, Addresses
      <3>5. dataSegmentEnd <= end /\ DataStart < end
        <4>1. scan.highestEnd \in Int /\ scan.increment \in Nat
          BY <2>2 DEF Addresses
        <4> QED
          BY <3>3, <3>4, <4>1
      <3> HIDE DEF end
      <3>6. dataSegmentEnd <= Granted(Wanted)
        BY <2>2, <2>5, <3>2, <3>4, <3>5 DEF Addresses
      <3> QED
        BY <2>1, <2>6, <3>2, <3>3, <3>5, <3>6 DEF Sound
    <2> QED
      BY <2>1, <2>7, <2>8 DEF HeapInv
  <1>6. CASE ScanRefused \/ ScanStops
    <2>1. /\ scan.at = "grow"
          /\ \/ scan' = [scan EXCEPT !.at = "restore"]
             \/ scan' = [scan EXCEPT !.increment = SMALL_INCREMENT]
          /\ UNCHANGED <<osEnd, limit, dataSegmentEnd, freeDataMemoryStart, maxAddress,
                         handed, wrapped, outdated>>
      BY <1>6 DEF ScanRefused, ScanStops, Growing, os9, heap
    <2>2. scan \in Scans
      BY DEF HeapInv, HeapTypeOK
    <2>3. scan' \in Scans /\ scan'.at # "no" /\ scan'.highestEnd = scan.highestEnd
      BY <2>1, <2>2 DEF Scans
    <2>4. HeapTypeOK'
      BY <2>1, <2>3 DEF HeapInv, HeapTypeOK
    <2>5. ASSUME ~wrapped PROVE Sound'
      BY <2>1, <2>3, <2>5 DEF HeapInv, Sound
    <2> QED
      BY <2>1, <2>4, <2>5 DEF HeapInv
  <1>7. CASE ScanRestores
    <2>1. /\ scan.at # "no" /\ scan' = NoScan
          /\ \/ /\ Grants(dataSegmentEnd)
                /\ osEnd' = Granted(dataSegmentEnd) /\ maxAddress' = scan.highestEnd
             \/ UNCHANGED <<osEnd, maxAddress>>
          /\ UNCHANGED <<limit, dataSegmentEnd, freeDataMemoryStart, handed, wrapped, outdated>>
      BY <1>7 DEF ScanRestores, heap
    <2>2. scan \in Scans /\ dataSegmentEnd \in Addresses /\ dataSegmentEnd \in Int
      BY DEF HeapInv, HeapTypeOK, Addresses
    <2>3. scan' \in Scans /\ scan'.at = "no"
      BY <2>1 DEF Scans, NoScan, Addresses
    <2>4. Grants(dataSegmentEnd) =>
             /\ Granted(dataSegmentEnd) \in Addresses
             /\ (DataStart < dataSegmentEnd /\ dataSegmentEnd < AddressSpace)
                   => dataSegmentEnd <= Granted(dataSegmentEnd)
      BY <2>2, GrantedEnd DEF HeapInv
    <2>5. HeapTypeOK'
      BY <2>1, <2>2, <2>3, <2>4 DEF HeapInv, HeapTypeOK, Scans
    <2>6. ASSUME ~wrapped PROVE Sound'
      <3>1. /\ dataSegmentEnd # 0
            /\ FirstEnd <= freeDataMemoryStart /\ freeDataMemoryStart <= dataSegmentEnd
            /\ dataSegmentEnd <= osEnd
            /\ \A a \in handed : FirstEnd <= a /\ a < freeDataMemoryStart
        BY <2>1, <2>6 DEF HeapInv, Sound
      <3>2. DataStart < dataSegmentEnd /\ dataSegmentEnd < AddressSpace
        BY <2>2, <3>1 DEF HeapInv, HeapTypeOK, Addresses
      <3>3. dataSegmentEnd <= osEnd'
        BY <2>1, <2>4, <3>1, <3>2
      <3> QED
        BY <2>1, <2>3, <3>1, <3>3 DEF Sound
    <2> QED
      BY <2>1, <2>5, <2>6 DEF HeapInv
  <1>8. CASE OthersRun
    <2>1. /\ limit' \in Limits /\ outdated' \in BOOLEAN
          /\ UNCHANGED <<osEnd, dataSegmentEnd, freeDataMemoryStart, maxAddress, scan,
                         handed, wrapped>>
      BY <1>8 DEF OthersRun, heap, HeapInv, HeapTypeOK
    <2> QED
      BY <2>1 DEF HeapInv, HeapTypeOK, Sound
  <1>9. CASE UNCHANGED heapVars
    BY <1>9 DEF heapVars, os9, heap, HeapInv, HeapTypeOK, Sound
  <1> QED
    BY <1>1, <1>2, <1>3, <1>4, <1>5, <1>6, <1>7, <1>8, <1>9 DEF HeapNext, ScanStep

LEMMA HeapInv_Always == HeapSpec => []HeapInv
  BY HeapInit_Inv, HeapNext_Inv, PTL DEF HeapSpec

\* The ends that the library and OS-9 keep are addresses, whatever sbrk() and
\* sbrkmax() are asked for (os9-sbrk.c, os9-sbrkmax.c).
THEOREM HeapTypeCorrect == HeapSpec => []HeapTypeOK
  <1>1. HeapInv => HeapTypeOK
    BY DEF HeapInv
  <1> QED
    BY <1>1, HeapInv_Always, PTL

\* No byte is handed out twice, or taken away while the program uses it, also
\* during a scan of sbrkmax(): unless it has asked for an end beyond the address
\* space (os9-sbrk.c:15-40, os9-sbrkmax.c:19-54).
THEOREM HeapIsSafe == HeapSpec => []HeapSafe
  <1>1. HeapInv => HeapSafe
    <2> SUFFICES ASSUME HeapInv, ~wrapped, NEW a \in handed
                 PROVE  FirstEnd <= a /\ a < freeDataMemoryStart /\ a < osEnd
      BY DEF HeapSafe
    <2>1. /\ dataSegmentEnd # 0
          /\ FirstEnd <= a /\ a < freeDataMemoryStart
          /\ freeDataMemoryStart <= dataSegmentEnd /\ dataSegmentEnd <= osEnd
      BY DEF HeapInv, Sound
    <2>2. a \in Int /\ freeDataMemoryStart \in Int /\ dataSegmentEnd \in Int /\ osEnd \in Int
      BY DEF HeapInv, HeapTypeOK, Addresses
    <2> QED
      BY <2>1, <2>2
  <1> QED
    BY <1>1, HeapInv_Always, PTL

-----------------------------------------------------------------------------
(* MaxIsMost.  The scan ends at the limit itself because every end on the  *)
(* way is one of a page, and so is the limit: a small step that is refused *)
(* leaves no page between.  Where it was when a large step was refused does *)
(* not matter, nor does a limit that OS-9 never comes to because the steps  *)
(* stop two pages before the end of the address space.                     *)

\* While nothing else ran: the scan is at a page that OS-9 could still give,
\* when it goes back that page is the limit, and so is what it remembers.
Exact ==
    /\ IsPage(osEnd) /\ IsPage(dataSegmentEnd) /\ osEnd <= limit
    /\ scan.at # "no" =>
          /\ maxAddress = 0
          /\ IsPage(scan.highestEnd)
          /\ ~outdated => scan.highestEnd <= limit
          /\ (~outdated /\ scan.at = "restore") => scan.highestEnd = limit
    /\ maxAddress # 0 => dataSegmentEnd # 0 /\ (~outdated => maxAddress = limit)

MaxInv == HeapInv /\ (~wrapped => Exact)

LEMMA Multiples ==
    ASSUME NEW b \in Nat \ {0}, NEW a \in Int
    PROVE  a % b = 0 <=> \E k \in Int : a = k * b
  <1>1. ASSUME a % b = 0 PROVE \E k \in Int : a = k * b
    <2>1. a \div b \in Int /\ a = b * (a \div b) + (a % b)
      BY Z3
    <2> DEFINE q == a \div b
    <2> HIDE DEF q
    <2>2. q \in Int /\ a = q * b
      BY <1>1, <2>1, Z3 DEF q
    <2> QED
      BY <2>2
  <1>2. ASSUME NEW k \in Int, a = k * b PROVE a % b = 0
    BY <1>2, Z3
  <1> QED
    BY <1>1, <1>2

\* Ends of pages: their sums and differences, how far apart they are.
LEMMA Pages ==
    ASSUME NEW a \in Int, NEW b \in Int, IsPage(a), IsPage(b)
    PROVE  /\ IsPage(a + b) /\ IsPage(a - b)
           /\ a < b => a + SMALL_INCREMENT <= b
  <1> DEFINE s == SMALL_INCREMENT
  <1>0. s \in Nat \ {0}
    BY HeapAssumption
  <1> HIDE DEF s
  <1>1. PICK i \in Int : a = i * s
    BY <1>0, Multiples DEF IsPage, s
  <1>2. PICK j \in Int : b = j * s
    BY <1>0, Multiples DEF IsPage, s
  <1>3. i + j \in Int /\ a + b = (i + j) * s
    BY <1>0, <1>1, <1>2, Z3
  <1>4. i - j \in Int /\ a - b = (i - j) * s
    BY <1>0, <1>1, <1>2, Z3
  <1>5. ASSUME a < b PROVE a + s <= b
    <2>1. i < j
      BY <1>0, <1>1, <1>2, <1>5, Z3
    <2> DEFINE d == j - i - 1
    <2>2. d \in Nat /\ b = a + s + d * s
      BY <1>0, <1>1, <1>2, <2>1, Z3
    <2>3. d * s \in Nat
      BY <1>0, <2>2, Z3
    <2> HIDE DEF d
    <2> QED
      BY <1>0, <2>2, <2>3
  <1>6. IsPage(a + b)
    BY <1>0, <1>3, Multiples DEF IsPage, s
  <1>7. IsPage(a - b)
    BY <1>0, <1>4, Multiples DEF IsPage, s
  <1> QED
    BY <1>5, <1>6, <1>7 DEF s

\* The size that F$Mem gives is the least number of pages that is enough.
LEMMA PageIsLeast ==
    ASSUME NEW size \in Nat
    PROVE  /\ Page(size) \in Nat /\ IsPage(Page(size))
           /\ Page(size) >= size
           /\ \A p \in Int : (IsPage(p) /\ size <= p) => Page(size) <= p
  <1> DEFINE s == SMALL_INCREMENT
             x == size + s - 1
             q == x \div s
             r == x % s
  <1>0. s \in Nat \ {0}
    BY HeapAssumption
  <1> HIDE DEF s
  <1>1. x \in Nat /\ q \in Nat /\ r \in 0..s - 1 /\ x = s * q + r
    BY <1>0, Z3
  <1>2. q * s = s * q /\ q * s \in Nat
    BY <1>0, <1>1, Z3
  <1>3. Page(size) = q * s
    BY DEF Page, s
  <1> HIDE DEF q, r
  <1>4. Page(size) \in Nat /\ Page(size) >= size /\ Page(size) < size + s
    BY <1>0, <1>1, <1>2, <1>3
  <1>5. IsPage(Page(size))
    <2>1. q \in Int /\ Page(size) \in Int
      BY <1>1, <1>4
    <2>2. \E k \in Int : Page(size) = k * s
      BY <1>3, <2>1, Zenon
    <2>3. Page(size) % s = 0
      BY <1>0, <2>1, <2>2, Multiples
    <2> QED
      BY <2>3 DEF IsPage, s
  <1>6. ASSUME NEW p \in Int, IsPage(p), size <= p, ~(Page(size) <= p)
        PROVE  FALSE
    <2>1. p + s <= Page(size)
      BY <1>4, <1>5, <1>6, Pages DEF s
    <2> QED
      BY <1>0, <1>4, <1>6, <2>1
  <1> QED
    BY <1>4, <1>5, <1>6

\* Behind the start of the data memory OS-9 grants an end if, and only if, it
\* is not behind the limit, and then it grants a page; an end of a page as it is.
LEMMA GrantedPages ==
    ASSUME HeapTypeOK, NEW end \in Addresses, DataStart < end
    PROVE  /\ Grants(end) <=> end <= limit
           /\ IsPage(Granted(end))
           /\ IsPage(end) => Granted(end) = end
  <1> USE HeapAssumption, PagesAssumption DEF Addresses
  <1> DEFINE size == Size(end)
  <1>1. size = end - DataStart /\ size \in Nat \ {0}
    <2>1. end - DataStart \in 0..AddressSpace - 1 /\ AddressSpace \in Nat \ {0}
      OBVIOUS
    <2> QED
      BY <2>1, ModSmall DEF Size
  <1>2. Granted(end) = DataStart + Page(size)
    BY <1>1 DEF Granted
  <1> HIDE DEF size
  <1>3. /\ Page(size) \in Nat /\ IsPage(Page(size)) /\ Page(size) >= size
        /\ \A p \in Int : (IsPage(p) /\ size <= p) => Page(size) <= p
    BY <1>1, PageIsLeast
  <1>4. limit \in Int /\ IsPage(limit) /\ DataStart \in Int /\ IsPage(DataStart)
    BY DEF HeapTypeOK
  <1>5. limit - DataStart \in Int /\ IsPage(limit - DataStart)
    BY <1>4, Pages
  <1>6. IsPage(Granted(end))
    <2>1. IsPage(DataStart + Page(size))
      <3>1. Page(size) \in Int
        BY <1>3
      <3> QED
        BY <1>3, <1>4, <3>1, Pages
    <2> QED
      BY <1>2, <2>1
  <1>7. Grants(end) <=> end <= limit
    BY <1>1, <1>2, <1>3, <1>4, <1>5 DEF Grants
  <1>8. ASSUME IsPage(end) PROVE Granted(end) = end
    <2>1. IsPage(size) /\ size \in Int
      BY <1>1, <1>4, <1>8, Pages
    <2>2. Page(size) <= size
      BY <1>3, <2>1
    <2> QED
      BY <1>1, <1>2, <1>3, <2>2
  <1> QED
    BY <1>6, <1>7, <1>8

LEMMA MaxInit == HeapInit => MaxInv
  <1> SUFFICES ASSUME HeapInit PROVE MaxInv
    OBVIOUS
  <1>1. SMALL_INCREMENT \in Nat \ {0} /\ IsPage(FirstEnd)
    BY HeapAssumption, PagesAssumption
  <1>2. IsPage(0)
    <2>1. 0 \in 0..SMALL_INCREMENT - 1
      BY <1>1
    <2> QED
      BY <1>1, <2>1, ModSmall DEF IsPage
  <1>3. scan.at = "no"
    BY DEF HeapInit, NoScan
  <1> QED
    BY <1>1, <1>2, <1>3, HeapInit_Inv DEF HeapInit, MaxInv, Exact

\* What the library finds out about the heap at its first call is as exact.
LEMMA ExactKnown ==
    ASSUME MaxInv, ~wrapped
    PROVE  /\ Start \in Addresses /\ IsPage(Start) /\ Start <= osEnd /\ Start # 0
           /\ DataStart < Start /\ DataStart < Next0
           /\ osEnd <= limit
  <1>1. /\ Start \in Addresses /\ Start # 0 /\ DataStart < FirstEnd /\ FirstEnd <= Next0
        /\ Next0 \in Addresses /\ Next0 <= Start /\ Start <= osEnd
    BY HeapKnown DEF MaxInv
  <1>2. IsPage(Start) /\ osEnd <= limit
    BY DEF MaxInv, Exact, Start
  <1> QED
    BY <1>1, <1>2, HeapAssumption DEF Addresses

LEMMA MaxNext == MaxInv /\ [HeapNext]_heapVars => MaxInv'
  <1> SUFFICES ASSUME MaxInv, [HeapNext]_heapVars, ~wrapped'
               PROVE  Exact'
    BY HeapNext_Inv DEF MaxInv
  <1> USE HeapAssumption, PagesAssumption
  <1>0. HeapTypeOK /\ (~wrapped => Sound /\ Exact)
    BY DEF MaxInv, HeapInv
  <1>1. ASSUME NEW n, sbrkHere(n) \/ sbrkFails(n) \/ sbrkNothing
        PROVE  Exact'
    <2>1. /\ dataSegmentEnd' = Start /\ scan.at = "no"
          /\ UNCHANGED <<osEnd, limit, maxAddress, scan, wrapped, outdated>>
      BY <1>1 DEF sbrkHere, sbrkFails, sbrkNothing, os9
    <2> QED
      BY <1>0, <2>1, ExactKnown DEF Exact
  <1>2. ASSUME NEW n \in Increments, sbrkGrows(n)
        PROVE  Exact'
    <2> DEFINE end == Next0 + n
    <2>1. /\ dataSegmentEnd' = Granted(end) /\ osEnd' = Granted(end)
          /\ scan.at = "no" /\ Grants(end) /\ ~TooLarge(n)
          /\ UNCHANGED <<limit, maxAddress, scan, wrapped, outdated>>
      BY <1>2 DEF sbrkGrows
    <2>2. end \in Addresses /\ DataStart < end
      <3>1. DataStart < Next0 /\ Next0 \in Int /\ DataStart \in Int /\ n \in Nat
        BY <1>0, <2>1, ExactKnown DEF Addresses, HeapTypeOK, Next0
      <3>2. end \in Addresses
        BY <2>1, NotTooLarge DEF MaxInv
      <3> QED
        BY <3>1, <3>2
    <2> HIDE DEF end
    <2>3. IsPage(Granted(end)) /\ Granted(end) <= limit
      BY <1>0, <2>1, <2>2, GrantedPages DEF Grants
    <2>4. Granted(end) # 0
      <3>1. end <= Granted(end) /\ end \in Int /\ DataStart \in Nat /\ Granted(end) \in Int
        BY <1>0, <2>1, <2>2, GrantedEnd DEF Addresses
      <3> QED
        BY <2>2, <3>1
    <2> QED
      BY <1>0, <2>1, <2>3, <2>4 DEF Exact
  <1>3. CASE sbrkmax
    <2>1. /\ dataSegmentEnd' = Start /\ scan.at = "no"
          /\ IF maxAddress = 0
             THEN /\ scan' = [at |-> "grow", highestEnd |-> Start,
                              increment |-> LARGE_INCREMENT]
                  /\ outdated' = FALSE
             ELSE UNCHANGED <<scan, outdated>>
          /\ UNCHANGED <<osEnd, limit, maxAddress, wrapped>>
      BY <1>3 DEF sbrkmax, os9
    <2>2. /\ IsPage(Start) /\ Start \in Int /\ Start # 0 /\ Start <= limit
          /\ IsPage(osEnd) /\ osEnd <= limit
      <3>1. Start \in Addresses /\ IsPage(Start) /\ Start <= osEnd /\ Start # 0 /\ osEnd <= limit
        BY <2>1, ExactKnown
      <3>2. osEnd \in Int /\ limit \in Int /\ Start \in Int /\ IsPage(osEnd)
        BY <1>0, <2>1, <3>1 DEF HeapTypeOK, Addresses, Exact
      <3> QED
        BY <3>1, <3>2
    <2>3. CASE maxAddress = 0
      <3>1. scan'.at = "grow" /\ scan'.highestEnd = Start
        BY <2>1, <2>3
      <3> QED
        BY <2>1, <2>2, <2>3, <3>1 DEF Exact
    <2>4. CASE maxAddress # 0
      BY <1>0, <2>1, <2>2, <2>4 DEF Exact
    <2> QED
      BY <2>3, <2>4
  <1>4. CASE ScanGrows
    <2> DEFINE end == scan.highestEnd + scan.increment
    <2>1. /\ scan.at = "grow" /\ Grants(Wanted)
          /\ osEnd' = Granted(Wanted)
          /\ scan' = [scan EXCEPT !.highestEnd = Wanted]
          /\ wrapped' = (wrapped \/ end >= AddressSpace)
          /\ UNCHANGED <<limit, dataSegmentEnd, maxAddress, outdated>>
      BY <1>4 DEF ScanGrows, Growing, heap
    <2>2. ~wrapped /\ ~(end >= AddressSpace)
      BY <2>1
    <2>3. /\ scan \in Scans /\ scan.highestEnd \in Addresses
          /\ scan.increment \in Nat \ {0} /\ IsPage(scan.increment)
      <3>1. /\ scan \in Scans /\ scan.highestEnd \in Addresses
            /\ scan.increment \in {LARGE_INCREMENT, SMALL_INCREMENT}
        BY <1>0 DEF HeapTypeOK, Scans
      <3>2. SMALL_INCREMENT % SMALL_INCREMENT = 0
        BY Z3
      <3> QED
        BY <3>1, <3>2 DEF IsPage
    <2>4. end \in Addresses /\ Wanted = end
      <3>1. end \in 0..AddressSpace - 1 /\ AddressSpace \in Nat \ {0}
        BY <2>2, <2>3 DEF Addresses
      <3> QED
        BY <3>1, ModSmall DEF Wanted, Addresses
    <2>5. IsPage(end)
      <3>1. scan.highestEnd \in Int /\ scan.increment \in Int /\ IsPage(scan.highestEnd)
        BY <1>0, <2>1, <2>2, <2>3 DEF Exact, Addresses
      <3> QED
        BY <2>3, <3>1, Pages
    <2>6. DataStart < end
      <3>1. dataSegmentEnd <= scan.highestEnd /\ FirstEnd <= dataSegmentEnd
        BY <1>0, <2>1, <2>2 DEF Sound, HeapTypeOK, Addresses
      <3>2. dataSegmentEnd \in Int /\ scan.highestEnd \in Int /\ FirstEnd \in Int /\ DataStart \in Int
        BY <1>0, <2>3 DEF HeapTypeOK, Addresses
      <3> QED
        BY <2>3, <3>1, <3>2
    <2> HIDE DEF end
    <2>7. end <= limit /\ Granted(end) = end
      BY <1>0, <2>1, <2>4, <2>5, <2>6, GrantedPages
    <2>8. scan'.at = "grow" /\ scan'.highestEnd = end
      BY <2>1, <2>3, <2>4 DEF Scans
    <2> QED
      BY <1>0, <2>1, <2>2, <2>4, <2>5, <2>7, <2>8 DEF Exact
  <1>5. CASE ScanRefused \/ ScanStops
    <2> DEFINE top == scan.highestEnd
    <2>1. /\ scan.at = "grow"
          /\ UNCHANGED <<osEnd, limit, dataSegmentEnd, maxAddress, wrapped, outdated>>
          /\ \/ scan' = [scan EXCEPT !.increment = SMALL_INCREMENT]
             \/ /\ scan' = [scan EXCEPT !.at = "restore"]
                /\ \/ scan.increment = SMALL_INCREMENT /\ Growing /\ ~Grants(Wanted)
                   \/ ~Growing
      BY <1>5 DEF ScanRefused, ScanStops, Growing, os9, heap
    <2>2. scan \in Scans /\ top \in Addresses
      BY <1>0 DEF HeapTypeOK, Scans
    <2>3. scan'.highestEnd = top /\ scan'.at \in {"grow", "restore"}
          /\ (scan'.at = "restore" =>
                \/ scan.increment = SMALL_INCREMENT /\ Growing /\ ~Grants(Wanted)
                \/ ~Growing)
      BY <2>1, <2>2 DEF Scans
    <2>4. /\ IsPage(top) /\ maxAddress = 0 /\ (~outdated => top <= limit)
          /\ dataSegmentEnd <= top /\ FirstEnd <= dataSegmentEnd
      BY <1>0, <2>1 DEF Exact, Sound, HeapTypeOK, Addresses
    <2>5. /\ limit \in Int /\ IsPage(limit) /\ limit < AddressSpace
          /\ top \in Int /\ SMALL_INCREMENT \in Nat \ {0}
          /\ AddressSpace \in Nat \ {0} /\ DataStart \in Int /\ DataStart < top
      BY <1>0, <2>2, <2>4 DEF HeapTypeOK, Addresses
    <2>6. ASSUME ~outdated, scan'.at = "restore"
          PROVE  top = limit
      <3>1. ASSUME top < limit PROVE FALSE
        <4>1. top + SMALL_INCREMENT <= limit
          BY <2>4, <2>5, <3>1, Pages
        <4>2. limit + SMALL_INCREMENT <= AddressSpace
          BY <2>5, Pages
        <4>3. top <= AddressSpace - 2 * SMALL_INCREMENT
          BY <2>5, <4>1, <4>2
        <4>4. scan.increment = SMALL_INCREMENT /\ ~Grants(Wanted)
          BY <2>1, <2>3, <2>6, <4>3 DEF Growing
        <4> DEFINE end == top + SMALL_INCREMENT
        <4>5. end \in 0..AddressSpace - 1 /\ DataStart < end
          BY <2>2, <2>5, <4>1 DEF Addresses
        <4>6. Wanted = end
          BY <2>5, <4>4, <4>5, ModSmall DEF Wanted
        <4> HIDE DEF end
        <4>7. ~(end <= limit)
          BY <1>0, <4>4, <4>5, <4>6, GrantedPages DEF Addresses
        <4> QED
          BY <4>1, <4>7 DEF end
      <3> QED
        BY <2>4, <2>5, <2>6, <3>1
    <2> HIDE DEF top
    <2> QED
      BY <1>0, <2>1, <2>3, <2>4, <2>6 DEF Exact
  <1>6. CASE ScanRestores
    <2>1. /\ scan.at = "restore" /\ scan' = NoScan
          /\ \/ /\ Grants(dataSegmentEnd)
                /\ osEnd' = Granted(dataSegmentEnd) /\ maxAddress' = scan.highestEnd
             \/ UNCHANGED <<osEnd, maxAddress>>
          /\ UNCHANGED <<limit, dataSegmentEnd, wrapped, outdated>>
      BY <1>6 DEF ScanRestores, heap
    <2>2. /\ dataSegmentEnd \in Addresses /\ dataSegmentEnd # 0 /\ DataStart < dataSegmentEnd
          /\ IsPage(dataSegmentEnd)
      BY <1>0, <2>1 DEF Sound, Exact, HeapTypeOK, Addresses
    <2>3. Grants(dataSegmentEnd) =>
             Granted(dataSegmentEnd) = dataSegmentEnd /\ dataSegmentEnd <= limit
      BY <1>0, <2>2, GrantedPages
    <2>4. scan'.at = "no"
      BY <2>1 DEF NoScan
    <2> QED
      BY <1>0, <2>1, <2>2, <2>3, <2>4 DEF Exact
  <1>7. CASE OthersRun
    BY <1>0, <1>7 DEF OthersRun, heap, Exact
  <1>8. CASE UNCHANGED heapVars
    BY <1>0, <1>8 DEF heapVars, os9, heap, Exact
  <1> QED
    BY <1>1, <1>2, <1>3, <1>4, <1>5, <1>6, <1>7, <1>8 DEF HeapNext, ScanStep

\* What sbrkmax() remembers is what sbrk() can still give, to the byte, as long
\* as nothing else has run and it has not asked for an end beyond the address
\* space (os9-sbrkmax.c:19-54, os9-sbrk.c:15-40; cmoc.h:371).
THEOREM MaxIsTheMost == HeapSpec => []MaxIsMost
  <1>1. MaxInv => MaxIsMost
    <2> SUFFICES ASSUME MaxInv, scan.at = "no", maxAddress # 0, ~outdated, ~wrapped,
                        NEW n \in Increments
                 PROVE  CanHave(n) <=>
                           n <= (maxAddress - freeDataMemoryStart) % AddressSpace
      BY DEF MaxIsMost
    <2> DEFINE end == freeDataMemoryStart + n
    <2>1. HeapTypeOK /\ Sound /\ Exact
      BY DEF MaxInv, HeapInv
    <2>2. /\ maxAddress = limit /\ dataSegmentEnd # 0
          /\ Start = dataSegmentEnd /\ Next0 = freeDataMemoryStart
      BY <2>1 DEF Exact, Start, Next0
    <2>3. /\ freeDataMemoryStart \in Int /\ dataSegmentEnd \in Int /\ limit \in Addresses
          /\ n \in Nat \ {0} /\ AddressSpace \in Nat \ {0} /\ DataStart \in Nat
          /\ DataStart < freeDataMemoryStart /\ freeDataMemoryStart <= dataSegmentEnd
          /\ dataSegmentEnd <= limit
      BY <2>1, <2>2, HeapAssumption DEF HeapTypeOK, Sound, Exact, Addresses
    <2>4. (maxAddress - freeDataMemoryStart) % AddressSpace = limit - freeDataMemoryStart
      <3>1. limit - freeDataMemoryStart \in 0..AddressSpace - 1
        BY <2>3 DEF Addresses
      <3> QED
        BY <2>2, <2>3, <3>1, ModSmall
    <2>5. TooLarge(n) <=> end >= AddressSpace
      BY <2>2, <2>3 DEF TooLarge
    <2>6. ASSUME ~TooLarge(n) PROVE Grants(end) <=> end <= limit
      <3>1. end \in Addresses /\ DataStart < end
        BY <2>3, <2>5, <2>6 DEF Addresses
      <3> HIDE DEF end
      <3> QED
        BY <2>1, <3>1, GrantedPages
    <2>7. CanHave(n) <=> (dataSegmentEnd - freeDataMemoryStart >= n \/ (~TooLarge(n) /\ Grants(end)))
      BY <2>2 DEF CanHave
    <2>8. n <= limit - freeDataMemoryStart <=> end <= limit
      BY <2>3 DEF Addresses
    <2>9. dataSegmentEnd - freeDataMemoryStart >= n => end <= limit
      BY <2>3 DEF Addresses
    <2>10. end <= limit => ~TooLarge(n)
      BY <2>3, <2>5 DEF Addresses
    <2> QED
      BY <2>4, <2>6, <2>7, <2>8, <2>9, <2>10
  <1> QED
    BY <1>1, MaxInit, MaxNext, PTL DEF HeapSpec

-----------------------------------------------------------------------------
(* strtok(): the invariant.                                                *)

Strings == Seq(Chars \cup {NUL})
Words == [from : Nat, to : Nat, delim : SUBSET Chars]
EndsInNUL(w) == \A i \in DOMAIN w : w[i] = NUL <=> i = Len(w)

\* Where the next call begins: behind the last word, in what is untouched; or
\* nowhere, since the string is used up or the last call found nothing.
Scan ==
    /\ currentString # 0 =>
          /\ currentString = Begins(tokens, Len(tokens) + 1)
          /\ currentString <= Len(whole)
          /\ \A i \in currentString..Len(whole) : text[i] = whole[i]
    /\ (currentString = 0 /\ whole # <<>> /\ ~over) =>
          Begins(tokens, Len(tokens) + 1) = Len(whole) + 1

TokensInv ==
    /\ text \in Strings /\ whole \in Strings
    /\ EndsInNUL(whole)
    /\ tokens \in Seq(Words)
    /\ currentString \in Nat /\ over \in BOOLEAN
    /\ Scan
    /\ TokensAreWords

-----------------------------------------------------------------------------
(* The lowest number of a set: what strspn() and strcspn() look for.       *)

LEMMA LowestIs ==
    ASSUME NEW S \in SUBSET Nat, S # {}
    PROVE  Lowest(S) \in S /\ \A j \in S : Lowest(S) <= j
  BY LeastOf DEF Lowest

LEMMA Spans ==
    ASSUME NEW t \in Strings, NEW from \in 1..Len(t), t[Len(t)] = NUL,
           NEW delim \in SUBSET Chars
    PROVE  LET str == from + strspn(t, from, delim)
           IN  /\ str \in from..Len(t) /\ t[str] \notin delim
               /\ \A i \in from..str - 1 : t[i] \in delim
  <1> DEFINE S == {i \in from..Len(t) : t[i] \notin delim}
             low == Lowest(S)
  <1>1. Len(t) \in Nat /\ S \in SUBSET Nat
    BY DEF Strings
  <1>2. Len(t) \in S
    BY <1>1, TokensAssumption
  <1>3. low \in S /\ \A j \in S : low <= j
    BY <1>1, <1>2, LowestIs
  <1>4. from + strspn(t, from, delim) = low
    BY <1>1, <1>3 DEF strspn
  <1>5. \A i \in from..low - 1 : t[i] \in delim
    <2> HIDE DEF low
    <2> QED
      BY <1>1, <1>3
  <1> QED
    BY <1>3, <1>4, <1>5

LEMMA Word ==
    ASSUME NEW t \in Strings, NEW str \in 1..Len(t), t[Len(t)] = NUL,
           NEW delim \in SUBSET Chars
    PROVE  LET end == str + strcspn(t, str, delim)
           IN  /\ end \in str..Len(t) /\ t[end] \in delim \cup {NUL}
               /\ \A i \in str..end - 1 : t[i] \notin delim \cup {NUL}
  <1> DEFINE S == {i \in str..Len(t) : t[i] \in delim \cup {NUL}}
             low == Lowest(S)
  <1>1. Len(t) \in Nat /\ S \in SUBSET Nat
    BY DEF Strings
  <1>2. Len(t) \in S
    BY <1>1
  <1>3. low \in S /\ \A j \in S : low <= j
    BY <1>1, <1>2, LowestIs
  <1>4. str + strcspn(t, str, delim) = low
    BY <1>1, <1>3 DEF strcspn
  <1>5. \A i \in str..low - 1 : t[i] \notin delim \cup {NUL}
    <2> HIDE DEF low
    <2> QED
      BY <1>1, <1>3
  <1> QED
    BY <1>3, <1>4, <1>5

-----------------------------------------------------------------------------
(* Sequences.                                                              *)

LEMMA Appended ==
    ASSUME NEW S, NEW q \in Seq(S), NEW e \in S
    PROVE  /\ Append(q, e) \in Seq(S) /\ Len(Append(q, e)) = Len(q) + 1
           /\ DOMAIN Append(q, e) = 1..Len(q) + 1
           /\ \A n \in 1..Len(q) : Append(q, e)[n] = q[n]
           /\ Append(q, e)[Len(q) + 1] = e
  OBVIOUS

LEMMA NoWords ==
    ASSUME NEW w
    PROVE  /\ <<>> \in Seq(Words) /\ Len(<<>>) = 0 /\ DOMAIN <<>> = {}
           /\ Begins(<<>>, Len(<<>>) + 1) = 1
           /\ AreWords(w, w, <<>>)
  <1>1. <<>> \in Seq(Words) /\ Len(<<>>) = 0 /\ DOMAIN <<>> = {}
    OBVIOUS
  <1> QED
    BY <1>1 DEF Begins, AreWords

-----------------------------------------------------------------------------
(* One search, of a string w that is in memory as t.                       *)

LEMMA TokenKeeps ==
    ASSUME NEW t \in Strings, NEW w \in Strings, w # <<>>, EndsInNUL(w),
           NEW before \in Seq(Words), NEW from \in 1..Len(w),
           from = Begins(before, Len(before) + 1),
           \A i \in from..Len(w) : t[i] = w[i],
           AreWords(t, w, before),
           NEW delim \in SUBSET Chars,
           whole' = w, Token(t, from, delim, before)
    PROVE  TokensInv'
  <1> DEFINE str == from + strspn(t, from, delim)
             end == str + strcspn(t, str, delim)
             word == [from |-> str, to |-> end - 1, delim |-> delim]
  <1>1. /\ Len(t) = Len(w) /\ Len(w) \in Nat \ {0} /\ Len(before) \in Nat
        /\ t[Len(t)] = NUL
    BY DEF AreWords, EndsInNUL, Strings
  <1>2. /\ str \in from..Len(t) /\ t[str] \notin delim
        /\ \A i \in from..str - 1 : t[i] \in delim
    BY <1>1, Spans
  <1>3. /\ end \in str..Len(t) /\ t[end] \in delim \cup {NUL}
        /\ \A i \in str..end - 1 : t[i] \notin delim \cup {NUL}
    <2>1. str \in 1..Len(t)
      BY <1>1, <1>2
    <2> HIDE DEF str
    <2> QED
      BY <1>1, <2>1, Word
  <1>4. NUL \notin Chars
    BY TokensAssumption
  <1>5. /\ sought' = delim
        /\ end = str => /\ text' = t /\ currentString' = 0
                        /\ tokens' = before /\ over' = TRUE
        /\ end # str => /\ text' = [t EXCEPT ![end] = NUL]
                        /\ currentString' = Onward(t, end)
                        /\ tokens' = Append(before, word) /\ over' = FALSE
    BY DEF Token
  <1> HIDE DEF str, end
  <1>6. CASE end = str
    <2>1. str = Len(w)
      BY <1>1, <1>2, <1>3, <1>6 DEF EndsInNUL, Strings
    <2>2. \A i \in from..Len(w) - 1 : w[i] \in delim
      BY <1>1, <1>2, <2>1
    <2> QED
      BY <1>1, <1>5, <1>6, <2>2 DEF TokensInv, Scan, TokensAreWords, AreWords, IsWord, Begins,
                                   EndsInNUL
  <1>7. CASE end # str
    <2>1. /\ word \in Words /\ end \in Nat /\ str \in Nat /\ end > str /\ end <= Len(w)
          /\ str >= from
      BY <1>1, <1>2, <1>3, <1>7 DEF Words
    <2>2. /\ tokens' \in Seq(Words) /\ Len(tokens') = Len(before) + 1
          /\ \A n \in 1..Len(before) : tokens'[n] = before[n]
          /\ tokens'[Len(before) + 1] = word /\ DOMAIN tokens' = 1..Len(before) + 1
      <3>1. tokens' = Append(before, word) /\ word \in Words
        BY <1>5, <1>7, <2>1
      <3> HIDE DEF word
      <3>2. /\ Append(before, word) \in Seq(Words)
            /\ Len(Append(before, word)) = Len(before) + 1
            /\ DOMAIN Append(before, word) = 1..Len(before) + 1
            /\ \A n \in 1..Len(before) : Append(before, word)[n] = before[n]
            /\ Append(before, word)[Len(before) + 1] = word
        BY <3>1, Appended
      <3> QED
        BY <3>1, <3>2
    <2>3. /\ text' \in Strings /\ Len(text') = Len(w) /\ text'[end] = NUL
          /\ \A i \in DOMAIN w : i # end => text'[i] = t[i]
      BY <1>1, <1>5, <1>7, <2>1, SMTT(30) DEF Strings
    <2>4. \A n \in 1..Len(before) :
             /\ Begins(tokens', n) = Begins(before, n)
             /\ IsWord(w, tokens', n)
             /\ text'[tokens'[n].to + 1] = NUL
      <3> TAKE n \in 1..Len(before)
      <3>1. IsWord(w, before, n) /\ t[before[n].to + 1] = NUL
        BY DEF AreWords
      <3>2. Begins(tokens', n) = Begins(before, n)
        <4>1. n = 1 \/ n - 1 \in 1..Len(before)
          BY <1>1
        <4>2. n - 1 \in 1..Len(before) => tokens'[n - 1] = before[n - 1]
          BY <2>2
        <4> HIDE DEF word
        <4> QED
          BY <4>1, <4>2 DEF Begins
      <3>3. before[n].to \in Nat /\ before[n].to < Len(w)
        <4>1. before[n] \in Words
          OBVIOUS
        <4> QED
          BY <3>1, <4>1 DEF IsWord, Words
      <3>4. text'[before[n].to + 1] = NUL
        BY <1>1, <2>3, <3>1, <3>3, SMTT(30)
      <3> QED
        BY <2>2, <3>1, <3>2, <3>4 DEF IsWord
    <2>5. Begins(tokens', Len(before) + 1) = from
      BY <1>1, <2>2 DEF Begins
    <2>6. IsWord(w, tokens', Len(before) + 1)
      <3>1. \A i \in from..str - 1 : w[i] \in delim
        BY <1>1, <1>2, <2>1
      <3>2. \A i \in str..end - 1 : w[i] \notin delim \cup {NUL}
        BY <1>1, <1>3, <2>1
      <3>3. w[end] \in delim \cup {NUL}
        BY <1>1, <1>3, <2>1
      <3> QED
        BY <2>1, <2>2, <2>5, <3>1, <3>2, <3>3 DEF IsWord
    <2>7. AreWords(text', w, tokens')
      <3>1. \A n \in DOMAIN tokens' : IsWord(w, tokens', n) /\ text'[tokens'[n].to + 1] = NUL
        BY <1>1, <2>1, <2>2, <2>3, <2>4, <2>6
      <3>2. ASSUME NEW i \in DOMAIN w
            PROVE  text'[i] = w[i] \/ \E n \in DOMAIN tokens' : i = tokens'[n].to + 1
        <4>1. CASE i = end
          <5>1. Len(before) + 1 \in DOMAIN tokens' /\ i = tokens'[Len(before) + 1].to + 1
            BY <1>1, <2>1, <2>2, <4>1
          <5> QED
            BY <5>1
        <4>2. CASE i # end
          <5>1. t[i] = w[i] \/ \E n \in DOMAIN before : i = before[n].to + 1
            BY DEF AreWords
          <5>2. \A n \in DOMAIN before : n \in DOMAIN tokens' /\ tokens'[n] = before[n]
            BY <1>1, <2>2
          <5> QED
            BY <2>3, <4>2, <5>1, <5>2
        <4> QED
          BY <4>1, <4>2
      <3> QED
        BY <2>3, <3>1, <3>2 DEF AreWords
    <2>8. Begins(tokens', Len(tokens') + 1) = end + 1
      BY <1>1, <2>1, <2>2 DEF Begins
    <2>9. Scan'
      <3>1. CASE t[end] = NUL
        <4>1. end = Len(w)
          BY <1>1, <2>1, <3>1, SMTT(30) DEF EndsInNUL, Strings
        <4> QED
          BY <1>1, <1>5, <1>7, <2>8, <3>1, <4>1 DEF Scan, Onward
      <3>2. CASE t[end] # NUL
        <4>1. end # Len(w)
          BY <1>1, <3>2
        <4>2. \A i \in end + 1..Len(w) : text'[i] = w[i]
          BY <1>1, <2>1, <2>3
        <4> QED
          BY <1>1, <1>5, <1>7, <2>1, <2>8, <3>2, <4>1, <4>2 DEF Scan, Onward
      <3> QED
        BY <3>1, <3>2
    <2>10. over' = FALSE /\ currentString' \in Nat
      BY <1>5, <1>7, <2>1 DEF Onward
    <2>11. TokensAreWords'
      BY <2>7, <2>10 DEF TokensAreWords
    <2> QED
      BY <2>2, <2>3, <2>9, <2>10, <2>11 DEF TokensInv, EndsInNUL
  <1> QED
    BY <1>6, <1>7

-----------------------------------------------------------------------------
(* The three facts, and the theorem.                                       *)

LEMMA TokensInitInv == TokensInit => TokensInv
  <1> SUFFICES ASSUME TokensInit PROVE TokensInv
    OBVIOUS
  <1>1. AreWords(text, whole, tokens) /\ tokens \in Seq(Words)
    BY NoWords DEF TokensInit
  <1>2. text \in Strings /\ whole \in Strings /\ EndsInNUL(whole)
    BY NoWords DEF TokensInit, Strings, EndsInNUL
  <1> QED
    BY <1>1, <1>2 DEF TokensInit, TokensInv, Scan, TokensAreWords

LEMMA TokensNextInv == TokensInv /\ [TokensNext]_tokenVars => TokensInv'
  <1> SUFFICES ASSUME TokensInv, [TokensNext]_tokenVars PROVE TokensInv'
    OBVIOUS
  <1>1. ASSUME NEW s \in Texts, NEW delim \in Delims, strtok(s, delim) PROVE TokensInv'
    <2> DEFINE w == Append(s, NUL)
    <2>1. s \in Seq(Chars) /\ delim \in SUBSET Chars /\ NUL \notin Chars
      BY TokensAssumption
    <2>2. /\ w \in Strings /\ w # <<>> /\ Len(w) = Len(s) + 1 /\ Len(s) \in Nat
          /\ EndsInNUL(w)
      <3>1. s \in Strings /\ NUL \in Chars \cup {NUL}
        BY <2>1 DEF Strings
      <3>2. /\ w \in Strings /\ Len(w) = Len(s) + 1 /\ DOMAIN w = 1..Len(s) + 1
            /\ \A n \in 1..Len(s) : w[n] = s[n]
            /\ w[Len(s) + 1] = NUL
        BY <3>1, Appended DEF Strings
      <3>3. Len(s) \in Nat /\ \A n \in 1..Len(s) : s[n] \in Chars
        BY <2>1
      <3> HIDE DEF w
      <3>4. \A n \in 1..Len(s) : w[n] # NUL
        BY <2>1, <3>2, <3>3
      <3>5. EndsInNUL(w)
        BY <3>2, <3>3, <3>4 DEF EndsInNUL
      <3>6. w # <<>>
        BY <3>2, <3>3
      <3> QED
        BY <3>2, <3>3, <3>5, <3>6
    <2>3. Begins(<<>>, Len(<<>>) + 1) = 1 /\ AreWords(w, w, <<>>)
      BY NoWords
    <2>4. whole' = w /\ Token(w, 1, delim, <<>>)
      BY <1>1 DEF strtok
    <2> HIDE DEF w
    <2>5. 1 \in 1..Len(w) /\ <<>> \in Seq(Words)
      BY <2>2, NoWords
    <2> QED
      BY <2>1, <2>2, <2>3, <2>4, <2>5, TokenKeeps
  <1>2. ASSUME NEW delim \in Delims, strtokNext(delim) PROVE TokensInv'
    <2>1. /\ delim \in SUBSET Chars /\ text \in Strings /\ whole \in Strings
          /\ EndsInNUL(whole) /\ tokens \in Seq(Words)
      BY TokensAssumption DEF TokensInv
    <2>2. /\ whole' = whole /\ Token(text, currentString, delim, tokens)
          /\ currentString # 0
      BY <1>2 DEF strtokNext
    <2>3. /\ currentString \in 1..Len(whole) /\ whole # <<>>
          /\ currentString = Begins(tokens, Len(tokens) + 1)
          /\ \A i \in currentString..Len(whole) : text[i] = whole[i]
          /\ AreWords(text, whole, tokens)
      BY <2>1, <2>2 DEF TokensInv, Scan, TokensAreWords, Strings
    <2> QED
      BY <2>1, <2>2, <2>3, TokenKeeps
  <1>3. CASE strtokNone
    <2>1. ~over => Begins(tokens, Len(tokens) + 1) = Len(whole) + 1
      BY <1>3 DEF strtokNone, TokensInv, Scan
    <2>2. Len(whole) \in Nat
      BY DEF TokensInv, Strings
    <2>3. \A i \in Begins(tokens, Len(tokens) + 1)..Len(whole) - 1 : whole[i] \in sought
      BY <2>1, <2>2 DEF TokensInv, TokensAreWords
    <2> QED
      BY <1>3, <2>3 DEF strtokNone, TokensInv, Scan, TokensAreWords
  <1>4. CASE UNCHANGED tokenVars
    BY <1>4 DEF tokenVars, TokensInv, Scan, TokensAreWords
  <1> QED
    BY <1>1, <1>2, <1>3, <1>4 DEF TokensNext

\* Whatever the string and the delimiters, strtok() returns its words, all of
\* them and in order, and changes nothing but what is behind them.
THEOREM StrtokFindsWords == TokensSpec => []TokensAreWords
  <1>1. TokensInv => TokensAreWords
    BY DEF TokensInv
  <1> QED
    BY <1>1, TokensInitInv, TokensNextInv, PTL DEF TokensSpec

-----------------------------------------------------------------------------
(* Files: the invariant.                                                   *)

DiskBytes == {d.id : d \in DecbDisks} \X (Nat \X Nat) \X Nat

FileDescs ==
    [drive : Drives, firstGran : Granules, numBytesLastSector : 0..SectorBytes,
     length : Nat, curGran : Granules \cup {EndOfFile}, curSec : Nat, curGranLen : Int,
     offset : Nat, secOffset : 0..SectorBytes, curSector : Seq(DiskBytes),
     curSectorAvailBytes : 0..SectorBytes]

Jobs == [fd : Fds, left : Nat, bytes : Seq(DiskBytes), from : Nat, asked : Nat]

\* The sector buffer is a whole sector, and the offset is in what is of the file.
Fits(file) ==
    file.curSectorAvailBytes # 0 =>
        Len(file.curSector) = SectorBytes /\ file.secOffset <= file.curSectorAvailBytes

FileTypes ==
    /\ disk \in [Drives -> DecbDisks] /\ curDriveNo \in Drives
    /\ fatBuffer \in {NoBuffer, Zeros} \cup {d.fat : d \in DecbDisks}
    /\ fatUpToDate \in BOOLEAN /\ (fatUpToDate => fatBuffer # NoBuffer)
    /\ fd \in [Fds -> FileDescs] /\ \A f \in Fds : Fits(fd[f])
    /\ pc \in {"program", "read", "aborted", "hung"}
    /\ pc = "read" => job \in Jobs /\ job.left # 0 /\ doubt[job.fd] # "closed"
    /\ doubt \in [Fds -> Doubts] /\ DOMAIN content = Fds

\* A file of disk d.
IsFile(d, e) ==
    \E s \in 1..DirSectors, i \in 1..DirEntries : e = d.dir[s][i] /\ e.kind = "file"

\* What a descriptor holds of a file that was opened with this table: unless it
\* was the one of zeros, the chain has an end.  If the file is not in doubt, it
\* is on disk d, and the table is the disk's.
Knows(file, table, d, why, bytes) ==
    /\ table # Zeros =>
          /\ WalkEnds(table, file.firstGran)
          /\ file.length = computeFileLength(table, file.firstGran, file.numBytesLastSector)
    /\ why # "stale" =>
          /\ table = d.fat
          /\ \E e \in Entries :
                /\ IsFile(d, e)
                /\ file.firstGran = e.firstGran
                /\ file.numBytesLastSector = e.numBytesLastSector
                /\ bytes = ContentOf(d, e)

LastSector(table, file) ==
    table[file.curGran] >= 193 /\ file.curSec = table[file.curGran] - 192

\* What is in the sector buffer goes on behind the offset, except at the end of
\* a file; where there is nothing in it, the offset is within the sector that is
\* fetched next.
Within(table, file) ==
    /\ file.curSectorAvailBytes # 0 /\ file.secOffset = file.curSectorAvailBytes =>
          file.curGran = EndOfFile
    /\ file.curSectorAvailBytes = 0 =>
          /\ file.secOffset < SectorBytes
          /\ file.curGran # EndOfFile /\ LastSector(table, file) =>
                file.secOffset <= file.numBytesLastSector

\* As long as the program runs.
Opened(f) ==
    IF Open(f)
    THEN /\ fatUpToDate
         /\ Knows(fd[f], fatBuffer, disk[fd[f].drive], doubt[f], content[f])
         /\ Within(fatBuffer, fd[f])
    ELSE fd[f] = NoFile

Survives ==
    /\ pc \in {"program", "read"} => \A f \in Fds : Opened(f)
    /\ pc = "aborted" => \E f \in Fds : doubt[f] \in {"stale", "behind"}
    /\ pc = "hung" => \E f \in Fds : doubt[f] = "stale"

FilesInv == FileTypes /\ Survives

-----------------------------------------------------------------------------
(* Files: sizes, tables and descriptors.                                   *)

LEMMA DivMod ==
    ASSUME NEW x \in Nat, NEW n \in Nat \ {0}
    PROVE  /\ x \div n \in Nat /\ x % n \in 0..n - 1
           /\ x = n * (x \div n) + (x % n)
  BY Z3

LEMMA Sizes ==
    /\ SectorBytes \in Nat \ {0} /\ GranSectors \in 1..9
    /\ GRANULE_SIZE \in Nat \ {0} /\ GRANULE_SIZE = GranSectors * SectorBytes
  <1>1. SectorBytes \in Nat \ {0} /\ GranSectors \in 1..9
    BY DecbAssumption
  <1> QED
    BY <1>1 DEF GRANULE_SIZE

LEMMA TablesAre ==
    /\ Zeros \in Fats /\ Zeros # NoBuffer
    /\ \A d \in DecbDisks : d.fat \in Fats /\ d.fat # NoBuffer
  <1>1. 0 \in Granules /\ Granules \subseteq FatBytes
    BY DEF Granules, MAX_NUM_GRANULES, FatBytes
  <1>2. \A t \in Fats : t # NoBuffer
    BY <1>1 DEF Fats, NoBuffer
  <1>3. Zeros \in Fats
    BY <1>1 DEF Fats, Zeros
  <1> QED
    BY <1>2, <1>3, DecbAssumption

LEMMA TableIs ==
    ASSUME FileTypes, fatBuffer # NoBuffer
    PROVE  fatBuffer \in Fats
  BY TablesAre DEF FileTypes

LEMMA EntriesAre ==
    ASSUME NEW d \in DecbDisks, NEW e, IsFile(d, e)
    PROVE  /\ e \in Entries /\ e.firstGran \in Granules
           /\ e.numBytesLastSector \in 0..SectorBytes
           /\ WalkEnds(d.fat, e.firstGran)
           /\ After(d.fat, e.firstGran, Steps(d.fat, e.firstGran)) \in 193..192 + GranSectors
  <1>1. PICK s \in 1..DirSectors, i \in 1..DirEntries : e = d.dir[s][i] /\ e.kind = "file"
    BY DEF IsFile
  <1>2. e \in Entries
    BY <1>1, DecbAssumption
  <1>3. e.firstGran \in Granules /\ e.numBytesLastSector \in 0..SectorBytes
    BY <1>1, <1>2 DEF Entries
  <1>4. WalkEnds(d.fat, e.firstGran)
    BY <1>1, ChainsEndAssumption
  <1> DEFINE T == d.fat
             g == e.firstGran
             n == Steps(T, g)
  <1>5. T \in Fats /\ g \in FatBytes /\ n \in 1..MAX_NUM_GRANULES /\ EndsAt(T, g, n)
    BY <1>3, StepsEnd, TablesAre DEF FatBytes
  <1>6. After(T, g, n) \in FatBytes /\ After(T, g, n) > 192
    <2>1. n \in Nat
      BY <1>5 DEF MAX_NUM_GRANULES
    <2>2. After(T, g, n) \in FatBytes
      BY <1>5, <2>1, AfterFollows, Zenon
    <2> QED
      BY <1>4, <2>2 DEF WalkEnds
  <1>7. After(T, g, n) # Free
    <2> DEFINE k == n - 1
    <2>1. k \in Nat /\ n = k + 1 /\ After(T, g, k) \in Granules
      BY <1>5 DEF EndsAt, MAX_NUM_GRANULES
    <2> HIDE DEF k
    <2> DEFINE h == After(T, g, k)
    <2>2. After(T, g, n) = T[h]
      BY <1>5, <2>1, AfterFollows, SMTT(30) DEF Following
    <2>3. CASE k = 0
      BY <1>1, <1>5, <2>2, <2>3, AfterFollows, ChainsAssumption, SMTT(30)
    <2>4. CASE k # 0
      <3> DEFINE j == k - 1
      <3>1. j \in Nat /\ k = j + 1 /\ After(T, g, j) \in Granules
        BY <1>5, <2>1, <2>4 DEF EndsAt, MAX_NUM_GRANULES
      <3> HIDE DEF j
      <3>2. h = T[After(T, g, j)]
        BY <1>5, <3>1, AfterFollows DEF Following
      <3> QED
        BY <2>1, <2>2, <3>1, <3>2, ChainsAssumption
    <2> QED
      BY <2>3, <2>4
  <1>8. After(T, g, n) \in 193..192 + GranSectors
    BY <1>6, <1>7, Sizes DEF FatBytes, Granules, MAX_NUM_GRANULES
  <1> QED
    BY <1>2, <1>3, <1>4, <1>8

\* The length that is computed, and the one the file has.
LEMMA LengthIs ==
    ASSUME NEW T \in Fats, NEW g \in Granules, WalkEnds(T, g), NEW last \in 0..SectorBytes
    PROVE  /\ computeFileLength(T, g, last) \in Nat
           /\ T # Zeros
  <1> DEFINE n == Steps(T, g)
             u == After(T, g, n)
  <1>1. n \in Nat /\ n >= 1 /\ u \in FatBytes /\ u > 192
    <2>1. n \in Nat /\ n >= 1 /\ g \in FatBytes
      BY StepsEnd DEF MAX_NUM_GRANULES, FatBytes
    <2>2. u \in FatBytes
      BY <2>1, AfterFollows, Zenon
    <2> QED
      BY <2>1, <2>2 DEF WalkEnds
  <1>2. u \in Nat
    BY <1>1, Sizes DEF FatBytes, Granules, MAX_NUM_GRANULES, Free
  <1>3. computeFileLength(T, g, last) = (n - 1) * GRANULE_SIZE + (u - 193) * SectorBytes + last
    BY DEF computeFileLength
  <1> HIDE DEF n, u
  <1>4. (n - 1) * GRANULE_SIZE \in Nat /\ (u - 193) * SectorBytes \in Nat
    <2>1. n - 1 \in Nat /\ u - 193 \in Nat /\ GRANULE_SIZE \in Nat /\ SectorBytes \in Nat
      BY <1>1, <1>2, Sizes
    <2>2. \A a, b \in Nat : a * b \in Nat
      OBVIOUS
    <2> QED
      BY <2>1, <2>2
  <1>5. computeFileLength(T, g, last) \in Nat
    BY <1>3, <1>4, Sizes
  <1>6. ASSUME T = Zeros PROVE FALSE
    <2>1. u \in Granules
      <3> DEFINE k == n - 1
      <3>1. k \in Nat /\ n = k + 1 /\ After(T, g, k) \in Granules
        BY <1>1, StepsEnd DEF n, EndsAt, MAX_NUM_GRANULES
      <3>2. 0 \in Granules
        BY DEF Granules, MAX_NUM_GRANULES
      <3> HIDE DEF k
      <3>3. u = T[After(T, g, k)]
        BY <3>1, AfterFollows DEF Following, FatBytes, u
      <3> QED
        BY <1>6, <3>1, <3>2, <3>3 DEF Zeros
    <2> QED
      BY <1>1, <2>1 DEF Granules, MAX_NUM_GRANULES
  <1> QED
    BY <1>5, <1>6

LEMMA LengthOfFile ==
    ASSUME NEW d \in DecbDisks, NEW e, IsFile(d, e)
    PROVE  computeFileLength(d.fat, e.firstGran, e.numBytesLastSector) = LengthOf(d, e)
  <1> DEFINE n == Steps(d.fat, e.firstGran)
             u == After(d.fat, e.firstGran, n)
  <1>1. u \in 193..192 + GranSectors
    BY EntriesAre
  <1>2. computeFileLength(d.fat, e.firstGran, e.numBytesLastSector)
           = (n - 1) * GRANULE_SIZE + (u - 193) * SectorBytes + e.numBytesLastSector
    BY DEF computeFileLength
  <1>3. LengthOf(d, e)
           = (n - 1) * GRANULE_SIZE + ((u - 192) - 1) * SectorBytes + e.numBytesLastSector
    BY DEF LengthOf
  <1> HIDE DEF n, u
  <1>4. (u - 192) - 1 = u - 193
    BY <1>1, Sizes
  <1> QED
    BY <1>2, <1>3, <1>4

LEMMA GranuleLength ==
    ASSUME NEW T \in Fats, NEW g \in Granules, NEW last \in 0..SectorBytes
    PROVE  getGranuleLength(T, g, last) \in Int
  <1>1. T[g] \in Int
    <2>1. T[g] \in FatBytes
      BY DEF Fats
    <2>2. MAX_NUM_GRANULES \in Nat
      BY DEF MAX_NUM_GRANULES
    <2> QED
      BY <2>1, <2>2, Sizes DEF FatBytes, Granules, Free
  <1>2. (T[g] - 193) * SectorBytes + last \in Int
    <2>1. \A a, b \in Int : a * b \in Int
      OBVIOUS
    <2> QED
      BY <1>1, <2>1, Sizes
  <1> QED
    BY <1>1, <1>2, Sizes DEF getGranuleLength

LEMMA AtStartIs ==
    ASSUME NEW file \in FileDescs, NEW T \in Fats
    PROVE  /\ AtStart(file, T) \in FileDescs /\ Fits(AtStart(file, T))
           /\ Within(T, AtStart(file, T))
           /\ AtStart(file, T).drive = file.drive
           /\ AtStart(file, T).firstGran = file.firstGran
           /\ AtStart(file, T).numBytesLastSector = file.numBytesLastSector
           /\ AtStart(file, T).length = file.length
  <1> DEFINE len == getGranuleLength(T, file.firstGran, file.numBytesLastSector)
  <1>1. /\ file.firstGran \in Granules /\ file.numBytesLastSector \in 0..SectorBytes
        /\ SectorBytes \in Nat \ {0} /\ 0 \in 0..SectorBytes
    BY Sizes DEF FileDescs
  <1>2. len \in Int
    BY <1>1, GranuleLength
  <1> HIDE DEF len
  <1>3. AtStart(file, T) =
           [file EXCEPT !.curGran = file.firstGran, !.curSec = 1, !.offset = 0,
                        !.secOffset = 0, !.curGranLen = len, !.curSectorAvailBytes = 0]
    BY DEF AtStart, len
  <1> DEFINE new == AtStart(file, T)
  <1> HIDE DEF new
  <1>4. new = [file EXCEPT !.curGran = file.firstGran, !.curSec = 1, !.offset = 0,
                           !.secOffset = 0, !.curGranLen = len, !.curSectorAvailBytes = 0]
    BY <1>3 DEF new
  <1>5. new \in FileDescs
    BY <1>1, <1>2, <1>4 DEF FileDescs
  <1>6. /\ new \in FileDescs /\ new.curSectorAvailBytes = 0 /\ new.secOffset = 0
        /\ new.drive = file.drive /\ new.firstGran = file.firstGran
        /\ new.numBytesLastSector = file.numBytesLastSector /\ new.length = file.length
    BY <1>4, <1>5 DEF FileDescs
  <1>7. Fits(new) /\ Within(T, new)
    BY <1>1, <1>6 DEF Fits, Within, FileDescs
  <1> QED
    BY <1>6, <1>7 DEF new

\* Where a position is.
LEMMA Divided ==
    ASSUME NEW x \in Nat
    PROVE  LET i == x \div GRANULE_SIZE
               r == x % GRANULE_SIZE
               q == r \div SectorBytes
               s == r % SectorBytes
           IN  /\ i \in Nat /\ r \in 0..GRANULE_SIZE - 1 /\ x = i * GRANULE_SIZE + r
               /\ q \in 0..GranSectors - 1 /\ s \in 0..SectorBytes - 1
               /\ r = q * SectorBytes + s
  <1> DEFINE i == x \div GRANULE_SIZE
             r == x % GRANULE_SIZE
             q == r \div SectorBytes
             s == r % SectorBytes
  <1>1. i \in Nat /\ r \in 0..GRANULE_SIZE - 1 /\ x = GRANULE_SIZE * i + r
    BY Sizes, DivMod
  <1>2. r \in Nat
    BY <1>1, Sizes
  <1>3. q \in Nat /\ s \in 0..SectorBytes - 1 /\ r = SectorBytes * q + s
    BY <1>2, Sizes, DivMod
  <1> HIDE DEF i, r, q, s
  <1>4. x = i * GRANULE_SIZE + r /\ r = q * SectorBytes + s
    BY <1>1, <1>2, <1>3, Sizes
  <1>5. q < GranSectors
    <2> SUFFICES ASSUME q >= GranSectors PROVE FALSE
      BY <1>3, Sizes
    <2>1. \A a, b, c \in Nat : a >= b => a * c >= b * c
      BY Z3
    <2>2. q * SectorBytes >= GranSectors * SectorBytes
      BY <1>3, <2>1, Sizes
    <2>3. r < GRANULE_SIZE /\ SectorBytes * q = q * SectorBytes
      BY <1>1, <1>3, Sizes
    <2> QED
      BY <1>2, <1>3, <2>2, <2>3, Sizes
  <1>6. q \in 0..GranSectors - 1
    BY <1>3, <1>5, Sizes
  <1> QED
    BY <1>1, <1>3, <1>4, <1>6 DEF i, r, q, s

LEMMA AtPositionIs ==
    ASSUME fatBuffer \in Fats, NEW file \in FileDescs, NEW newPos \in Nat,
           After(fatBuffer, file.firstGran, newPos \div GRANULE_SIZE) \in Granules
    PROVE  LET new == AtPosition(file, newPos)
           IN  /\ new \in FileDescs /\ Fits(new)
               /\ new.drive = file.drive /\ new.firstGran = file.firstGran
               /\ new.numBytesLastSector = file.numBytesLastSector
               /\ new.length = file.length /\ new.offset = newPos
               /\ new.curGran = After(fatBuffer, file.firstGran, newPos \div GRANULE_SIZE)
               /\ new.curSec = (newPos % GRANULE_SIZE) \div SectorBytes + 1
               /\ new.secOffset = (newPos % GRANULE_SIZE) % SectorBytes
               /\ new.curSectorAvailBytes = 0
  <1> DEFINE gran == After(fatBuffer, file.firstGran, newPos \div GRANULE_SIZE)
             len == getGranuleLength(fatBuffer, gran, file.numBytesLastSector)
             sec == (newPos % GRANULE_SIZE) \div SectorBytes + 1
             off == (newPos % GRANULE_SIZE) % SectorBytes
             new == AtPosition(file, newPos)
  <1>1. new = [file EXCEPT !.curGran = gran, !.curSec = sec, !.curGranLen = len,
                           !.secOffset = off, !.curSectorAvailBytes = 0,
                           !.offset = newPos]
    BY Zenon DEF AtPosition
  <1>2. sec \in Nat /\ off \in 0..SectorBytes /\ 0 \in 0..SectorBytes
    <2> DEFINE q == (newPos % GRANULE_SIZE) \div SectorBytes
    <2>1. q \in 0..GranSectors - 1 /\ off \in 0..SectorBytes - 1
      BY Divided, Zenon
    <2> HIDE DEF q, off
    <2>2. sec = q + 1
      BY DEF q
    <2> QED
      BY <2>1, <2>2, Sizes
  <1>3. len \in Int
    BY GranuleLength DEF FileDescs
  <1>4. gran \in Granules
    OBVIOUS
  <1> HIDE DEF gran, len, sec, off, new
  <1>5. new \in FileDescs
    BY <1>1, <1>2, <1>3, <1>4 DEF FileDescs
  <1>6. /\ new.drive = file.drive /\ new.firstGran = file.firstGran
        /\ new.numBytesLastSector = file.numBytesLastSector
        /\ new.length = file.length /\ new.offset = newPos
        /\ new.curGran = gran /\ new.curSec = sec
        /\ new.secOffset = off /\ new.curSectorAvailBytes = 0
    BY <1>1 DEF FileDescs
  <1>7. Fits(new)
    BY <1>6 DEF Fits
  <1> QED
    BY <1>5, <1>6, <1>7 DEF gran, sec, off, new

\* Where the last sector would be, the position is within it.
LEMMA SeekStaysWithin ==
    ASSUME NEW T \in Fats, NEW g \in Granules, WalkEnds(T, g), NEW last \in 0..SectorBytes,
           NEW x \in 0..computeFileLength(T, g, last),
           After(T, g, x \div GRANULE_SIZE) \in Granules,
           T[After(T, g, x \div GRANULE_SIZE)] >= 193,
           (x % GRANULE_SIZE) \div SectorBytes + 1
              = T[After(T, g, x \div GRANULE_SIZE)] - 192
    PROVE  (x % GRANULE_SIZE) % SectorBytes <= last
  <1> DEFINE n == Steps(T, g)
             i == x \div GRANULE_SIZE
             r == x % GRANULE_SIZE
             q == r \div SectorBytes
             s == r % SectorBytes
             h == After(T, g, i)
             u == After(T, g, n)
  <1>1. x \in Nat
    BY LengthIs
  <1>2. /\ i \in Nat /\ r \in 0..GRANULE_SIZE - 1 /\ x = i * GRANULE_SIZE + r
        /\ q \in 0..GranSectors - 1 /\ s \in 0..SectorBytes - 1
        /\ r = q * SectorBytes + s
    BY <1>1, Divided
  <1>3. n \in Nat /\ n >= 1 /\ g \in FatBytes /\ EndsAt(T, g, n)
    BY StepsEnd DEF MAX_NUM_GRANULES, FatBytes
  <1>4. u > 192 /\ computeFileLength(T, g, last)
                     = (n - 1) * GRANULE_SIZE + (u - 193) * SectorBytes + last
    BY DEF WalkEnds, computeFileLength
  <1>5. h \in Granules /\ T[h] >= 193 /\ q + 1 = T[h] - 192
    OBVIOUS
  <1> HIDE DEF n, i, r, q, s, h, u
  <1>6. After(T, g, i + 1) = T[h] /\ T[h] \in FatBytes
    <2>1. After(T, g, i + 1) = Following(T, h)
      BY <1>2, <1>3, AfterFollows, Zenon DEF h
    <2> QED
      BY <1>5, <2>1 DEF Following, Fats
  <1>7. u \in FatBytes /\ u \notin Granules
    <2>1. u \in FatBytes
      BY <1>3, AfterFollows, Zenon DEF u
    <2> QED
      BY <1>4, <2>1 DEF Granules, MAX_NUM_GRANULES
  <1>8. T[h] \notin Granules
    BY <1>5 DEF Granules, MAX_NUM_GRANULES
  <1>9. i + 1 = n
    BY <1>2, <1>3, <1>5, <1>6, <1>7, <1>8, LastIs DEF h, u
  <1>10. u = T[h] /\ q = u - 193 /\ i = n - 1
    <2>1. u = T[h]
      BY <1>6, <1>9 DEF u
    <2>2. u \in Nat
      BY <1>7, Sizes DEF FatBytes, Granules, MAX_NUM_GRANULES, Free
    <2> QED
      BY <1>2, <1>3, <1>5, <1>9, <2>1, <2>2, Sizes
  <1> DEFINE front == (n - 1) * GRANULE_SIZE
             whole2 == (u - 193) * SectorBytes
  <1>11. front \in Int /\ whole2 \in Int
    <2>1. \A a, b \in Int : a * b \in Int
      OBVIOUS
    <2>2. n - 1 \in Int /\ u - 193 \in Int
      BY <1>2, <1>3, <1>10, Sizes
    <2> QED
      BY <2>1, <2>2, Sizes
  <1>12. x = front + (whole2 + s) /\ x <= front + whole2 + last
    BY <1>2, <1>4, <1>10
  <1> HIDE DEF front, whole2
  <1> QED
    BY <1>2, <1>11, <1>12, Sizes DEF s, r

LEMMA AvailableIs ==
    ASSUME NEW file \in FileDescs, Fits(file)
    PROVE  /\ getCurrentlyAvailableBytes(file) \in 0..SectorBytes
           /\ file.curSectorAvailBytes = 0 => getCurrentlyAvailableBytes(file) = 0
           /\ file.curSectorAvailBytes # 0 =>
                 file.secOffset + getCurrentlyAvailableBytes(file) = file.curSectorAvailBytes
  BY Sizes DEF getCurrentlyAvailableBytes, Fits, FileDescs

LEMMA DeliveredIs ==
    ASSUME NEW file \in FileDescs, Fits(file), NEW n \in 0..getCurrentlyAvailableBytes(file)
    PROVE  /\ Delivered(file, n) \in Seq(DiskBytes) /\ Len(Delivered(file, n)) = n
           /\ \A i \in 1..n : Delivered(file, n)[i] = file.curSector[file.secOffset + i]
  <1> DEFINE s == file.curSector
             o == file.secOffset
  <1>1. /\ s \in Seq(DiskBytes) /\ o \in Nat /\ n \in Nat
    BY AvailableIs, Sizes DEF FileDescs
  <1>2. Delivered(file, n) = SubSeq(s, o + 1, o + n)
    BY DEF Delivered
  <1>3. CASE file.curSectorAvailBytes = 0
    <2>1. n = 0
      BY <1>3, AvailableIs
    <2>2. SubSeq(s, o + 1, o + n) = <<>>
      BY <1>1, <2>1
    <2>3. <<>> \in Seq(DiskBytes) /\ Len(<<>>) = 0 /\ \A i \in 1..n : FALSE
      BY <2>1
    <2> QED
      BY <1>2, <2>1, <2>2, <2>3
  <1>4. CASE file.curSectorAvailBytes # 0
    <2>1. Len(s) = SectorBytes /\ o + n <= Len(s)
      BY <1>1, <1>4, AvailableIs, Sizes DEF Fits, FileDescs
    <2> HIDE DEF s, o
    <2>2. o + 1 \in 1..Len(s) + 1 /\ o + n \in (o + 1) - 1..Len(s) /\ (o + n) - (o + 1) + 1 = n
          /\ \A i \in Nat : (o + 1) + i - 1 = o + i
      BY <1>1, <2>1, Sizes
    <2> DEFINE a == o + 1
               b == o + n
    <2>3. a \in 1..Len(s) + 1 /\ b \in a - 1..Len(s) /\ b - a + 1 = n
      BY <2>2
    <2> HIDE DEF a, b
    <2>4. /\ SubSeq(s, a, b) \in Seq(DiskBytes) /\ Len(SubSeq(s, a, b)) = n
          /\ \A i \in 1..n : SubSeq(s, a, b)[i] = s[a + i - 1]
      BY <1>1, <2>3, SubSeqProperties
    <2>5. ASSUME NEW i \in 1..n PROVE s[a + i - 1] = s[o + i]
      <3>1. a + i - 1 = o + i
        BY <1>1 DEF a
      <3> QED
        BY <3>1
    <2> QED
      BY <1>2, <2>4, <2>5 DEF a, b, s, o
  <1> QED
    BY <1>3, <1>4

\* What is the same of two descriptors of a file.
SameFile(new, file) ==
    /\ new.drive = file.drive /\ new.firstGran = file.firstGran
    /\ new.numBytesLastSector = file.numBytesLastSector /\ new.length = file.length

LEMMA OffsetAdvances ==
    ASSUME NEW file \in FileDescs, Fits(file), NEW n \in Nat, NEW T \in Fats
    PROVE  /\ advanceOffset(file, n) \in FileDescs /\ Fits(advanceOffset(file, n))
           /\ Within(T, advanceOffset(file, n)) /\ SameFile(advanceOffset(file, n), file)
           /\ advanceOffset(file, n).curGran = file.curGran
           /\ advanceOffset(file, n).curSec = file.curSec
           /\ advanceOffset(file, n).curSector = file.curSector
           /\ advanceOffset(file, n).offset = file.offset + n
           /\ IF file.secOffset + n >= file.curSectorAvailBytes
              THEN /\ advanceOffset(file, n).secOffset = 0
                   /\ advanceOffset(file, n).curSectorAvailBytes = 0
              ELSE /\ advanceOffset(file, n).secOffset = file.secOffset + n
                   /\ advanceOffset(file, n).curSectorAvailBytes = file.curSectorAvailBytes
  <1> DEFINE used == file.secOffset + n >= file.curSectorAvailBytes
             off == IF used THEN 0 ELSE file.secOffset + n
             left == IF used THEN 0 ELSE file.curSectorAvailBytes
             new == advanceOffset(file, n)
  <1>1. new = [file EXCEPT !.offset = file.offset + n, !.secOffset = off,
                           !.curSectorAvailBytes = left]
    BY DEF advanceOffset
  <1>2. /\ off \in 0..SectorBytes /\ left \in 0..SectorBytes /\ off < SectorBytes
        /\ left # 0 => off < left /\ Len(file.curSector) = SectorBytes
        /\ left = 0 => off = 0
    BY Sizes DEF FileDescs, Fits
  <1>3. file.offset + n \in Nat
    BY DEF FileDescs
  <1>4. IF used THEN off = 0 /\ left = 0
        ELSE off = file.secOffset + n /\ left = file.curSectorAvailBytes
    OBVIOUS
  <1> HIDE DEF off, left, new
  <1>5. new \in FileDescs
    BY <1>1, <1>2, <1>3 DEF FileDescs
  <1>6. /\ SameFile(new, file) /\ new.curGran = file.curGran /\ new.curSec = file.curSec
        /\ new.curSector = file.curSector /\ new.offset = file.offset + n
        /\ new.secOffset = off /\ new.curSectorAvailBytes = left
    BY <1>1 DEF FileDescs, SameFile
  <1>7. new.numBytesLastSector \in 0..SectorBytes
    BY <1>5 DEF FileDescs
  <1>8. Fits(new) /\ Within(T, new)
    BY <1>2, <1>6, <1>7, Sizes DEF Fits, Within
  <1> QED
    BY <1>4, <1>5, <1>6, <1>8 DEF new

LEMMA EmptiedIs ==
    ASSUME NEW file \in FileDescs, Fits(file), NEW T \in Fats, Within(T, file)
    PROVE  /\ Emptied(file) \in FileDescs /\ Fits(Emptied(file)) /\ Within(T, Emptied(file))
           /\ SameFile(Emptied(file), file)
           /\ Emptied(file).curGran = file.curGran /\ Emptied(file).curSec = file.curSec
           /\ Emptied(file).curGran # EndOfFile => Emptied(file).curSectorAvailBytes = 0
           /\ Emptied(file).offset = file.offset + getCurrentlyAvailableBytes(file)
  <1> DEFINE n == getCurrentlyAvailableBytes(file)
  <1>1. n \in 0..SectorBytes /\ n \in Nat
    BY AvailableIs, Sizes
  <1>2. CASE n > 0
    <2>1. Emptied(file) = advanceOffset(file, n)
      BY <1>2 DEF Emptied
    <2>2. file.secOffset + n >= file.curSectorAvailBytes
      BY <1>1, <1>2, AvailableIs, Sizes DEF FileDescs
    <2> HIDE DEF n
    <2>3. advanceOffset(file, n).curSectorAvailBytes = 0
      BY <1>1, <2>2, OffsetAdvances
    <2> QED
      BY <1>1, <2>1, <2>3, OffsetAdvances DEF n
  <1>3. CASE ~(n > 0)
    <2>1. Emptied(file) = file /\ n = 0
      BY <1>1, <1>3, Sizes DEF Emptied
    <2>2. file.curGran # EndOfFile => file.curSectorAvailBytes = 0
      BY <2>1, AvailableIs DEF Within, FileDescs
    <2>3. file.offset + n = file.offset
      BY <2>1 DEF FileDescs
    <2> QED
      BY <2>1, <2>2, <2>3 DEF SameFile
  <1> QED
    BY <1>2, <1>3

LEMMA SectorIs ==
    ASSUME NEW d \in DecbDisks, NEW place \in Nat \X Nat
    PROVE  /\ Sector(d, place) \in Seq(DiskBytes) /\ Len(Sector(d, place)) = SectorBytes
           /\ \A i \in 1..SectorBytes : Sector(d, place)[i] = <<d.id, place, i>>
  <1>1. \A i \in 1..SectorBytes : <<d.id, place, i>> \in DiskBytes
    BY Sizes DEF DiskBytes
  <1>2. Sector(d, place) \in [1..SectorBytes -> DiskBytes]
    BY <1>1 DEF Sector
  <1>3. SectorBytes \in Nat
    BY Sizes
  <1> QED
    BY <1>2, <1>3 DEF Sector

LEMMA PlaceIs ==
    ASSUME NEW file \in FileDescs, file.curGran # EndOfFile
    PROVE  PlaceToRead(file) \in Nat \X Nat
  <1> DEFINE at == granuleToTrack(file.curGran)
  <1>1. file.curGran \in Granules /\ file.curSec \in Nat
    BY DEF FileDescs
  <1>2. at[1] \in Nat /\ at[2] \in Nat
    BY <1>1, Sizes DEF granuleToTrack, Granules, MAX_NUM_GRANULES
  <1> QED
    BY <1>1, <1>2 DEF PlaceToRead

\* Where the reader goes behind a sector of the file.
NextSector(T, file) ==
    LET g == T[file.curGran]
        sectors == IF g >= 193 THEN g - 192 ELSE GranSectors
    IN  IF file.curSec + 1 <= sectors THEN <<file.curGran, file.curSec + 1>>
        ELSE IF g >= 193 THEN <<EndOfFile, file.curSec + 1>> ELSE <<g, 1>>

LEMMA AdvancedIs ==
    ASSUME NEW file \in FileDescs, fatBuffer \in Fats, file.curGran # EndOfFile
    PROVE  LET new == Advanced(file)
           IN  /\ new \in FileDescs /\ SameFile(new, file)
               /\ new.offset = file.offset /\ new.secOffset = file.secOffset
               /\ new.curSector = file.curSector
               /\ new.curSectorAvailBytes = file.curSectorAvailBytes
               /\ new.curGran = NextSector(fatBuffer, file)[1]
               /\ new.curSec = NextSector(fatBuffer, file)[2]
  <1> DEFINE next == NextSector(fatBuffer, file)
             new == Advanced(file)
             g == fatBuffer[file.curGran]
             sectors == IF g >= 193 THEN g - 192 ELSE GranSectors
  <1>1. file.curGran \in Granules /\ file.curSec \in Nat
    BY DEF FileDescs
  <1>2. g \in FatBytes /\ (g < 193 => g \in Granules)
    <2>1. g \in FatBytes
      BY <1>1 DEF Fats
    <2> QED
      BY <2>1, Sizes DEF FatBytes, Granules, MAX_NUM_GRANULES, Free
  <1>3. g \in Int
    BY <1>2, Sizes DEF FatBytes, Granules, MAX_NUM_GRANULES, Free
  <1> HIDE DEF g
  <1>4. \/ next = <<file.curGran, file.curSec + 1>> /\ new = [file EXCEPT !.curSec = @ + 1]
        \/ next = <<EndOfFile, file.curSec + 1>>
           /\ new = [file EXCEPT !.curSec = @ + 1, !.curGran = EndOfFile]
        \/ next = <<g, 1>> /\ g < 193 /\ new = [file EXCEPT !.curSec = 1, !.curGran = g]
    <2> HIDE DEF sectors
    <2>1. next = IF file.curSec + 1 <= sectors THEN <<file.curGran, file.curSec + 1>>
                 ELSE IF g >= 193 THEN <<EndOfFile, file.curSec + 1>> ELSE <<g, 1>>
      BY DEF NextSector, sectors, g
    <2>2. new = IF file.curSec + 1 <= sectors THEN [file EXCEPT !.curSec = @ + 1]
                ELSE IF g >= 193 THEN [file EXCEPT !.curSec = @ + 1, !.curGran = EndOfFile]
                ELSE [file EXCEPT !.curSec = 1, !.curGran = g]
      BY DEF Advanced, sectors, g
    <2> HIDE DEF next, new
    <2>3. CASE file.curSec + 1 <= sectors
      BY <2>1, <2>2, <2>3, Zenon
    <2>4. CASE ~(file.curSec + 1 <= sectors) /\ g >= 193
      BY <2>1, <2>2, <2>4
    <2>5. CASE ~(file.curSec + 1 <= sectors) /\ ~(g >= 193)
      BY <1>3, <2>1, <2>2, <2>5
    <2> QED
      BY <2>3, <2>4, <2>5
  <1> HIDE DEF next, new
  <1> DEFINE To(a, b) == [file EXCEPT !.curSec = b, !.curGran = a]
  <1>5. \/ next = <<file.curGran, file.curSec + 1>> /\ new = To(file.curGran, file.curSec + 1)
        \/ next = <<EndOfFile, file.curSec + 1>> /\ new = To(EndOfFile, file.curSec + 1)
        \/ next = <<g, 1>> /\ g \in Granules /\ new = To(g, 1)
    <2>1. [file EXCEPT !.curSec = file.curSec + 1] = To(file.curGran, file.curSec + 1)
      BY DEF FileDescs
    <2> QED
      BY <1>2, <1>4, <2>1, Zenon
  <1>6. ASSUME NEW a \in Granules \cup {EndOfFile}, NEW b \in Nat
        PROVE  /\ To(a, b) \in FileDescs /\ SameFile(To(a, b), file)
               /\ To(a, b).offset = file.offset /\ To(a, b).secOffset = file.secOffset
               /\ To(a, b).curSector = file.curSector
               /\ To(a, b).curSectorAvailBytes = file.curSectorAvailBytes
               /\ To(a, b).curGran = a /\ To(a, b).curSec = b
    BY DEF FileDescs, SameFile
  <1> HIDE DEF To
  <1>7. PICK a \in Granules \cup {EndOfFile} : \E b \in Nat : next = <<a, b>> /\ new = To(a, b)
    <2>1. file.curSec + 1 \in Nat /\ 1 \in Nat
      BY <1>1
    <2> QED
      BY <1>1, <1>5, <2>1
  <1>8. PICK b \in Nat : next = <<a, b>> /\ new = To(a, b)
    BY <1>7
  <1>9. next[1] = a /\ next[2] = b
    BY <1>8
  <1> QED
    BY <1>6, <1>8, <1>9 DEF new, next

LEMMA WithSectorIs ==
    ASSUME NEW file \in FileDescs, fatBuffer \in Fats, disk \in [Drives -> DecbDisks],
           file.curGran # EndOfFile, file.curSectorAvailBytes = 0,
           Within(fatBuffer, file)
    PROVE  LET new == WithSector(file)
           IN  /\ new \in FileDescs /\ Fits(new) /\ Within(fatBuffer, new)
               /\ SameFile(new, file)
               /\ new.offset = file.offset /\ new.secOffset = file.secOffset
               /\ new.curSector = Sector(disk[file.drive], PlaceToRead(file))
               /\ new.curSectorAvailBytes = IF LastSector(fatBuffer, file)
                                            THEN file.numBytesLastSector ELSE SectorBytes
               /\ new.curGran = NextSector(fatBuffer, file)[1]
               /\ new.curSec = NextSector(fatBuffer, file)[2]
  <1> DEFINE sector == Sector(disk[file.drive], PlaceToRead(file))
             holds == IF LastSector(fatBuffer, file)
                      THEN file.numBytesLastSector ELSE SectorBytes
             old == [file EXCEPT !.curSector = sector, !.curSectorAvailBytes = holds]
             new == WithSector(file)
  <1>1. /\ file.curGran \in Granules /\ file.curSec \in Nat /\ file.drive \in Drives
        /\ file.numBytesLastSector \in 0..SectorBytes /\ file.secOffset \in 0..SectorBytes
    BY DEF FileDescs
  <1>2. sector \in Seq(DiskBytes) /\ Len(sector) = SectorBytes
    <2>1. disk[file.drive] \in DecbDisks /\ PlaceToRead(file) \in Nat \X Nat
      BY <1>1, PlaceIs
    <2> QED
      BY <2>1, SectorIs
  <1>3. holds \in 0..SectorBytes /\ file.secOffset <= holds
        /\ (file.secOffset = holds => LastSector(fatBuffer, file))
    BY <1>1, Sizes DEF Within
  <1>4. holds = 0 => LastSector(fatBuffer, file) /\ file.secOffset = 0
    BY <1>1, <1>3, Sizes
  <1>5. new = Advanced(old)
    BY DEF WithSector, isLastSectorOfFile, LastSector
  <1> HIDE DEF sector, holds, new
  <1>6. /\ old \in FileDescs /\ SameFile(old, file) /\ old.curGran = file.curGran
        /\ old.curSec = file.curSec /\ old.offset = file.offset
        /\ old.secOffset = file.secOffset /\ old.curSector = sector
        /\ old.curSectorAvailBytes = holds
    <2>1. old \in FileDescs
      BY <1>2, <1>3 DEF FileDescs
    <2> QED
      BY <2>1 DEF FileDescs, SameFile
  <1> HIDE DEF old
  <1>7. /\ new \in FileDescs /\ SameFile(new, old)
        /\ new.offset = old.offset /\ new.secOffset = old.secOffset
        /\ new.curSector = old.curSector
        /\ new.curSectorAvailBytes = old.curSectorAvailBytes
        /\ new.curGran = NextSector(fatBuffer, old)[1]
        /\ new.curSec = NextSector(fatBuffer, old)[2]
    <2>1. old.curGran # EndOfFile
      BY <1>6
    <2> QED
      BY <1>5, <1>6, <2>1, AdvancedIs
  <1>8. NextSector(fatBuffer, old) = NextSector(fatBuffer, file)
    BY <1>6 DEF NextSector
  <1>9. LastSector(fatBuffer, file) => new.curGran = EndOfFile
    <2> DEFINE g == fatBuffer[file.curGran]
    <2>1. g \in FatBytes
      BY <1>1 DEF Fats
    <2>2. g \in Int
      BY <2>1, Sizes DEF FatBytes, Granules, MAX_NUM_GRANULES, Free
    <2>3. LastSector(fatBuffer, file) => NextSector(fatBuffer, file)[1] = EndOfFile
      BY <1>1, <2>2 DEF LastSector, NextSector
    <2> QED
      BY <1>7, <1>8, <2>3
  <1>10. Fits(new) /\ Within(fatBuffer, new)
    <2>1. new.curSectorAvailBytes = holds /\ new.secOffset = file.secOffset
          /\ new.curSector = sector /\ new.numBytesLastSector = file.numBytesLastSector
      BY <1>6, <1>7 DEF SameFile
    <2>2. Fits(new)
      BY <1>2, <1>3, <2>1 DEF Fits
    <2>3. holds = 0 => 0 < SectorBytes /\ new.curGran = EndOfFile
      BY <1>4, <1>9, Sizes
    <2>4. Within(fatBuffer, new)
      BY <1>3, <1>4, <1>9, <2>1, <2>3 DEF Within
    <2> QED
      BY <2>2, <2>4
  <1>11. SameFile(new, file)
    BY <1>6, <1>7 DEF SameFile
  <1> QED
    BY <1>6, <1>7, <1>8, <1>10, <1>11 DEF new, sector, holds

-----------------------------------------------------------------------------
(* Files: the invariant is kept.                                           *)

LEMMA NoFileIs == NoFile \in FileDescs /\ Fits(NoFile)
  <1>1. 0 \in Drives /\ 0 \in Granules /\ 0 \in 0..SectorBytes /\ <<>> \in Seq(DiskBytes)
    BY DecbFileAssumption, Sizes DEF Granules, MAX_NUM_GRANULES
  <1> QED
    BY <1>1 DEF NoFile, FileDescs, Fits

LEMMA FilesInit == Init => FilesInv
  <1> SUFFICES ASSUME Init PROVE FilesInv
    OBVIOUS
  <1>1. disk \in [Drives -> DecbDisks] /\ curDriveNo \in Drives
    BY DecbFileAssumption DEF Init
  <1>2. FileTypes
    BY <1>1, NoFileIs DEF Init, FileTypes, Doubts
  <1>3. \A f \in Fds : Opened(f)
    BY DEF Init, Opened, Open
  <1> QED
    BY <1>2, <1>3 DEF FilesInv, Survives, Init

\* A file is left where it is, or placed elsewhere, in the table that is in use.
LEMMA FileMoves ==
    ASSUME FilesInv, NEW f \in Fds, Open(f), pc \in {"program", "read"},
           NEW new \in FileDescs, Fits(new), Within(fatBuffer, new), SameFile(new, fd[f]),
           fd' = [fd EXCEPT ![f] = new],
           UNCHANGED <<world, decb, content>>,
           NEW why \in {"none", "stale", "behind"}, doubt' = [doubt EXCEPT ![f] = why],
           doubt[f] = "stale" => why = "stale",
           pc' \in {"program", "read"},
           pc' = "read" => job' \in Jobs /\ job'.left # 0 /\ doubt'[job'.fd] # "closed"
    PROVE  FilesInv'
  <1>1. /\ disk' = disk /\ curDriveNo' = curDriveNo /\ fatBuffer' = fatBuffer
        /\ fatUpToDate' = fatUpToDate /\ content' = content
    BY DEF world, decb
  <1>2. fd \in [Fds -> FileDescs] /\ doubt \in [Fds -> Doubts] /\ DOMAIN content = Fds
        /\ \A h \in Fds : Fits(fd[h]) /\ Opened(h)
    BY DEF FilesInv, FileTypes, Survives
  <1>3. fd' \in [Fds -> FileDescs] /\ doubt' \in [Fds -> Doubts]
    BY <1>2 DEF Doubts
  <1>4. fd'[f] = new /\ doubt'[f] = why
        /\ \A h \in Fds : h # f => fd'[h] = fd[h] /\ doubt'[h] = doubt[h]
    BY <1>2
  <1>5. \A h \in Fds : Fits(fd'[h])
    BY <1>2, <1>4
  <1>6. FileTypes'
    BY <1>1, <1>3, <1>5 DEF FilesInv, FileTypes
  <1>7. ASSUME NEW h \in Fds PROVE Opened(h)'
    <2>1. CASE h # f
      BY <1>1, <1>2, <1>4, <2>1 DEF Opened, Open
    <2>2. CASE h = f
      <3>1. /\ fatUpToDate /\ Knows(fd[f], fatBuffer, disk[fd[f].drive], doubt[f], content[f])
        BY <1>2 DEF Opened
      <3>2. Knows(new, fatBuffer, disk[new.drive], why, content[f])
        BY <3>1 DEF Knows, SameFile
      <3>3. why # "closed"
        OBVIOUS
      <3> QED
        BY <1>1, <1>4, <2>2, <3>1, <3>2, <3>3 DEF Opened, Open
    <2> QED
      BY <2>1, <2>2
  <1> QED
    BY <1>6, <1>7 DEF FilesInv, Survives

LEMMA FilesInitdisk == ASSUME FilesInv, initdisk(Zeros) PROVE FilesInv'
  <1>1. /\ pc = "program" /\ fatBuffer' = Zeros /\ pc' = pc /\ fd' = fd /\ disk' = disk
        /\ curDriveNo' = curDriveNo /\ fatUpToDate' = fatUpToDate /\ content' = content
        /\ doubt' = [f \in Fds |-> IF Open(f) /\ Zeros # disk[fd[f].drive].fat
                                   THEN "stale" ELSE doubt[f]]
    BY DEF initdisk, world
  <1>2. fd \in [Fds -> FileDescs] /\ doubt \in [Fds -> Doubts] /\ \A h \in Fds : Opened(h)
    BY <1>1 DEF FilesInv, FileTypes, Survives
  <1>3. doubt' \in [Fds -> Doubts]
    BY <1>1, <1>2 DEF Doubts
  <1>4. FileTypes'
    BY <1>1, <1>3, TablesAre DEF FilesInv, FileTypes
  <1>5. ASSUME NEW f \in Fds PROVE Opened(f)'
    <2> DEFINE d == disk[fd[f].drive]
    <2>1. doubt'[f] = IF Open(f) /\ Zeros # d.fat THEN "stale" ELSE doubt[f]
      BY <1>1
    <2> HIDE DEF d
    <2>2. CASE ~Open(f)
      <3>1. doubt'[f] = doubt[f] /\ fd[f] = NoFile
        BY <1>2, <2>1, <2>2 DEF Opened
      <3> QED
        BY <1>1, <2>2, <3>1 DEF Opened, Open
    <2>3. CASE Open(f)
      <3>1. fatUpToDate /\ Knows(fd[f], fatBuffer, d, doubt[f], content[f])
            /\ Within(fatBuffer, fd[f])
        BY <1>2, <2>3 DEF Opened, d
      <3>2. Knows(fd[f], Zeros, d, doubt'[f], content[f])
        BY <2>1, <2>3, <3>1 DEF Knows
      <3>3. fd[f].curGran # EndOfFile => ~LastSector(Zeros, fd[f])
        <4>1. fd[f].curGran # EndOfFile => fd[f].curGran \in Granules
          BY <1>2 DEF FileDescs
        <4> QED
          BY <4>1 DEF LastSector, Zeros
      <3>4. Within(Zeros, fd[f])
        BY <3>1, <3>3 DEF Within
      <3>5. Open(f)'
        BY <2>1, <2>3 DEF Open
      <3> QED
        BY <1>1, <3>1, <3>2, <3>4, <3>5 DEF Opened, d
    <2> QED
      BY <2>2, <2>3
  <1> QED
    BY <1>1, <1>4, <1>5 DEF FilesInv, Survives

\* No file is open, as at first.
LEMMA FilesDrop == ASSUME FilesInv, dropFAT PROVE FilesInv'
  <1>1. /\ pc = "program" /\ pc' = pc /\ disk' = disk /\ curDriveNo' = curDriveNo
        /\ fatBuffer' = fatBuffer /\ fatUpToDate' = FALSE
        /\ fd' = [f \in Fds |-> NoFile] /\ content' = [f \in Fds |-> <<>>]
        /\ doubt' = [f \in Fds |-> "closed"]
    BY DEF dropFAT, world
  <1>2. NoFile \in FileDescs /\ Fits(NoFile)
    BY NoFileIs
  <1>3. FileTypes'
    BY <1>1, <1>2 DEF FilesInv, FileTypes, Doubts
  <1>4. \A f \in Fds : Opened(f)'
    BY <1>1 DEF Opened, Open
  <1> QED
    BY <1>1, <1>3, <1>4 DEF FilesInv, Survives

\* Nothing but the default drive and the arguments of a read changes.
LEMMA FilesStay ==
    ASSUME FilesInv, UNCHANGED <<disk, fatBuffer, fatUpToDate, fd, content, doubt>>,
           curDriveNo' \in Drives,
           \/ pc' = pc \/ pc' = "program"
           \/ pc = "program" /\ pc' = "read",
           pc = "program" \/ pc' = pc,
           pc' = "read" => job' \in Jobs /\ job'.left # 0 /\ doubt[job'.fd] # "closed"
    PROVE  FilesInv'
  <1>1. FileTypes'
    BY DEF FilesInv, FileTypes
  <1>2. \A f \in Fds : Opened(f)' <=> Opened(f)
    BY DEF Opened, Open
  <1> QED
    BY <1>1, <1>2 DEF FilesInv, FileTypes, Survives

LEMMA FilesRead ==
    ASSUME FilesInv, NEW f \in Fds, NEW n \in ReadSizes, read(f, n)
    PROVE  FilesInv'
  <1>1. /\ pc = "program" /\ Open(f) /\ pc' = "read"
        /\ job' = [fd |-> f, left |-> n, bytes |-> <<>>, from |-> fd[f].offset, asked |-> n]
        /\ UNCHANGED <<disk, fatBuffer, fatUpToDate, fd, content, doubt>>
        /\ curDriveNo' = curDriveNo
    BY DEF read, world, decb
  <1>2. n \in Nat \ {0} /\ fd[f].offset \in Nat /\ <<>> \in Seq(DiskBytes)
    BY DecbFileAssumption DEF FilesInv, FileTypes, FileDescs
  <1>3. job' \in Jobs /\ job'.left # 0 /\ job'.fd = f
    BY <1>1, <1>2 DEF Jobs
  <1>4. curDriveNo' \in Drives /\ doubt[job'.fd] # "closed"
    BY <1>1, <1>3 DEF FilesInv, FileTypes, Open
  <1> QED
    BY <1>1, <1>3, <1>4, FilesStay

LEMMA FilesGetLength ==
    ASSUME FilesInv, NEW f \in Fds, getFileLength(f)
    PROVE  FilesInv'
  <1>1. /\ pc = "program" /\ Open(f) /\ disk' = disk /\ fatBuffer' = fatBuffer
        /\ fatUpToDate' = fatUpToDate /\ fd' = fd /\ content' = content /\ doubt' = doubt
        /\ curDriveNo' = curDriveNo
        /\ IF ~WalkEnds(fatBuffer, fd[f].firstGran) THEN pc' = "hung" ELSE pc' = pc
    BY DEF getFileLength, world, decb
  <1>2. CASE WalkEnds(fatBuffer, fd[f].firstGran)
    BY <1>1, <1>2, FilesStay DEF FilesInv, FileTypes
  <1>3. CASE ~WalkEnds(fatBuffer, fd[f].firstGran)
    <2>1. Opened(f) /\ fd[f] \in FileDescs /\ doubt[f] \in Doubts
          /\ disk[fd[f].drive] \in DecbDisks
      BY <1>1 DEF FilesInv, Survives, FileTypes, FileDescs
    <2>2. doubt[f] = "stale"
      <3> SUFFICES ASSUME doubt[f] # "stale" PROVE FALSE
        OBVIOUS
      <3>1. PICK e \in Entries : IsFile(disk[fd[f].drive], e) /\ fd[f].firstGran = e.firstGran
        BY <1>1, <2>1 DEF Opened, Knows
      <3>2. fatBuffer = disk[fd[f].drive].fat
        BY <1>1, <2>1 DEF Opened, Knows
      <3> QED
        BY <1>3, <2>1, <3>1, <3>2, EntriesAre
    <2>3. FileTypes'
      BY <1>1, <1>3 DEF FilesInv, FileTypes
    <2> QED
      BY <1>1, <1>3, <2>2, <2>3 DEF FilesInv, Survives
  <1> QED
    BY <1>2, <1>3

LEMMA FilesRewind ==
    ASSUME FilesInv, NEW f \in Fds, rewind(f)
    PROVE  FilesInv'
  <1> DEFINE new == AtStart(fd[f], fatBuffer)
             why == IF doubt[f] = "behind" THEN "none" ELSE doubt[f]
  <1>1. /\ pc = "program" /\ Open(f) /\ fd' = [fd EXCEPT ![f] = new]
        /\ doubt' = [doubt EXCEPT ![f] = why] /\ pc' = pc
        /\ UNCHANGED <<world, decb, content>>
    BY DEF rewind, Placed
  <1>2. /\ fd[f] \in FileDescs /\ doubt[f] \in Doubts /\ fatBuffer \in Fats
    BY <1>1, TableIs DEF FilesInv, FileTypes, Survives, Opened
  <1>3. new \in FileDescs /\ Fits(new) /\ Within(fatBuffer, new) /\ SameFile(new, fd[f])
    BY <1>2, AtStartIs DEF SameFile
  <1>4. why \in {"none", "stale", "behind"} /\ (doubt[f] = "stale" => why = "stale")
    BY <1>1, <1>2 DEF Doubts, Open
  <1> HIDE DEF new, why
  <1> QED
    BY <1>1, <1>3, <1>4, FileMoves

\* Only the end of a file that fills its last granule is where no granule is.
LEMMA NoGranuleAtEnd ==
    ASSUME NEW d \in DecbDisks, NEW e, IsFile(d, e), NEW x \in 0..LengthOf(d, e),
           After(d.fat, e.firstGran, x \div GRANULE_SIZE) \notin Granules
    PROVE  x = LengthOf(d, e) /\ x > 0 /\ x % GRANULE_SIZE = 0
  <1> DEFINE T == d.fat
             g == e.firstGran
             last == e.numBytesLastSector
             n == Steps(T, g)
             u == After(T, g, n)
             i == x \div GRANULE_SIZE
             r == x % GRANULE_SIZE
  <1>1. /\ T \in Fats /\ g \in Granules /\ g \in FatBytes /\ last \in 0..SectorBytes
        /\ u \in 193..192 + GranSectors
    BY TablesAre, EntriesAre DEF FatBytes
  <1>2. LengthOf(d, e) = (n - 1) * GRANULE_SIZE + ((u - 192) - 1) * SectorBytes + last
    BY DEF LengthOf
  <1>3. n \in Nat /\ n >= 1 /\ EndsAt(T, g, n)
    BY <1>1, StepsEnd DEF MAX_NUM_GRANULES
  <1>4. After(T, g, i) \notin Granules
    OBVIOUS
  <1>5. LengthOf(d, e) \in Nat
    BY <1>1, LengthIs, LengthOfFile, EntriesAre
  <1>6. x \in Nat /\ x <= LengthOf(d, e)
    BY <1>5
  <1>7. i \in Nat /\ r \in 0..GRANULE_SIZE - 1 /\ x = i * GRANULE_SIZE + r
    BY <1>6, Divided
  <1> HIDE DEF T, g, last, n, u, i, r
  <1>8. u \notin Granules
    BY <1>1, Sizes DEF Granules, MAX_NUM_GRANULES
  <1>9. i >= n
    BY <1>1, <1>3, <1>4, <1>7, <1>8, LastIs DEF u
  <1>10. ((u - 192) - 1) * SectorBytes + last <= GRANULE_SIZE
    <2> DEFINE k == (u - 192) - 1
    <2>1. k \in Nat /\ k <= GranSectors - 1 /\ GranSectors - 1 \in Nat
      BY <1>1, Sizes
    <2> HIDE DEF k
    <2>2. \A a, b, c \in Nat : a <= b => a * c <= b * c
      BY Z3
    <2>3. k * SectorBytes <= (GranSectors - 1) * SectorBytes
      BY <2>1, <2>2, Sizes
    <2>4. (GranSectors - 1) * SectorBytes + SectorBytes = GRANULE_SIZE
      BY Sizes, Z3
    <2>5. k * SectorBytes \in Int /\ (GranSectors - 1) * SectorBytes \in Int
      <3>1. \A a, b \in Int : a * b \in Int
        OBVIOUS
      <3> QED
        BY <2>1, <3>1, Sizes
    <2>6. k * SectorBytes + last <= GRANULE_SIZE
      BY <1>1, <2>3, <2>4, <2>5, Sizes
    <2> QED
      BY <2>6 DEF k
  <1> DEFINE rest == ((u - 192) - 1) * SectorBytes
  <1>11. rest \in Int
    <2>1. \A a, b \in Int : a * b \in Int
      OBVIOUS
    <2> QED
      BY <1>1, <2>1, Sizes
  <1> HIDE DEF rest
  <1>12. x <= (n - 1) * GRANULE_SIZE + GRANULE_SIZE
    <2>1. (n - 1) * GRANULE_SIZE \in Int
      <3>1. \A a, b \in Int : a * b \in Int
        OBVIOUS
      <3> QED
        BY <1>3, <3>1, Sizes
    <2> DEFINE front == (n - 1) * GRANULE_SIZE
    <2> HIDE DEF front
    <2>2. LengthOf(d, e) = front + rest + last /\ rest + last <= GRANULE_SIZE /\ front \in Int
      BY <1>2, <1>10, <2>1 DEF rest, front
    <2>3. x <= front + GRANULE_SIZE
      BY <1>1, <1>6, <1>11, <2>2, Sizes
    <2> QED
      BY <2>3 DEF front
  <1>13. n * GRANULE_SIZE = (n - 1) * GRANULE_SIZE + GRANULE_SIZE
    BY <1>3, Sizes, Z3
  <1>14. i * GRANULE_SIZE >= n * GRANULE_SIZE
    <2>1. \A a, b, c \in Nat : a >= b => a * c >= b * c
      BY Z3
    <2> QED
      BY <1>3, <1>7, <1>9, <2>1, Sizes
  <1> DEFINE end == n * GRANULE_SIZE
             at == i * GRANULE_SIZE
  <1>15. end \in Nat /\ at \in Nat /\ end > 0
    <2>1. \A a, b \in Nat : a * b \in Nat /\ (a > 0 /\ b > 0 => a * b > 0)
      BY Z3
    <2> QED
      BY <1>3, <1>7, <2>1, Sizes
  <1> HIDE DEF end, at
  <1>16. x <= end /\ at >= end /\ x = at + r
    BY <1>7, <1>12, <1>13, <1>14 DEF end, at
  <1>17. x = end /\ r = 0
    BY <1>6, <1>7, <1>15, <1>16, Sizes
  <1>18. end <= LengthOf(d, e) /\ LengthOf(d, e) <= end
    <2>1. end <= LengthOf(d, e)
      BY <1>6, <1>17
    <2> DEFINE front == (n - 1) * GRANULE_SIZE
    <2>2. front \in Int
      <3>1. \A a, b \in Int : a * b \in Int
        OBVIOUS
      <3> QED
        BY <1>3, <3>1, Sizes
    <2>3. LengthOf(d, e) = front + rest + last /\ rest + last <= GRANULE_SIZE
          /\ end = front + GRANULE_SIZE
      BY <1>2, <1>10, <1>13 DEF rest, end
    <2> HIDE DEF front
    <2> QED
      BY <1>1, <1>11, <2>1, <2>2, <2>3, Sizes
  <1> QED
    BY <1>5, <1>15, <1>17, <1>18 DEF r

LEMMA FilesSeek ==
    ASSUME FilesInv, NEW f \in Fds, NEW newPos \in SeekTo, seek(f, newPos)
    PROVE  FilesInv'
  <1> DEFINE T == fatBuffer
             to == Clamped(fd[f], newPos)
             gran == After(T, fd[f].firstGran, to \div GRANULE_SIZE)
             new == AtPosition(fd[f], to)
             d == disk[fd[f].drive]
  <1>1. /\ pc = "program" /\ Open(f) /\ UNCHANGED <<world, decb, content>>
        /\ IF gran \notin Granules
           THEN /\ pc' = "aborted" /\ fd' = fd
                /\ doubt' = [doubt EXCEPT ![f] =
                      IF @ # "stale" /\ Filled(fd[f]) /\ to = fd[f].length THEN "behind" ELSE @]
           ELSE /\ pc' = pc /\ fd' = [fd EXCEPT ![f] = new]
                /\ doubt' = [doubt EXCEPT ![f] = IF @ = "stale" THEN @ ELSE
                                                 IF Behind(new) THEN "behind" ELSE "none"]
    BY DEF seek, world, decb
  <1>2. /\ fd[f] \in FileDescs /\ doubt \in [Fds -> Doubts] /\ fatUpToDate
        /\ Knows(fd[f], T, d, doubt[f], content[f]) /\ T \in Fats /\ d \in DecbDisks
    BY <1>1, TableIs DEF FilesInv, FileTypes, Survives, Opened, FileDescs
  <1>3. /\ to \in 0..fd[f].length /\ to \in Nat /\ fd[f].firstGran \in Granules
        /\ fd[f].numBytesLastSector \in 0..SectorBytes
    BY <1>2, DecbFileAssumption DEF Clamped, FileDescs
  <1>4. CASE gran \in Granules
    <2>1. /\ new \in FileDescs /\ Fits(new) /\ SameFile(new, fd[f])
          /\ new.curGran = gran
          /\ new.curSec = (to % GRANULE_SIZE) \div SectorBytes + 1
          /\ new.secOffset = (to % GRANULE_SIZE) % SectorBytes
          /\ new.curSectorAvailBytes = 0
          /\ new.numBytesLastSector = fd[f].numBytesLastSector
      BY <1>2, <1>3, <1>4, AtPositionIs DEF SameFile
    <2>2. new.secOffset < SectorBytes
      <3>1. (to % GRANULE_SIZE) % SectorBytes \in 0..SectorBytes - 1
        BY <1>3, Divided, Zenon
      <3> QED
        BY <2>1, <3>1, Sizes
    <2>3. LastSector(T, new) => new.secOffset <= new.numBytesLastSector
      <3> SUFFICES ASSUME LastSector(T, new)
                   PROVE  new.secOffset <= new.numBytesLastSector
        OBVIOUS
      <3>1. T[gran] >= 193 /\ (to % GRANULE_SIZE) \div SectorBytes + 1 = T[gran] - 192
        BY <2>1 DEF LastSector
      <3>2. T # Zeros
        BY <1>4, <3>1 DEF Zeros
      <3>3. /\ WalkEnds(T, fd[f].firstGran)
            /\ to \in 0..computeFileLength(T, fd[f].firstGran, fd[f].numBytesLastSector)
        BY <1>2, <1>3, <3>2 DEF Knows
      <3>4. (to % GRANULE_SIZE) % SectorBytes <= fd[f].numBytesLastSector
        BY <1>2, <1>3, <1>4, <3>1, <3>3, SeekStaysWithin
      <3> QED
        BY <2>1, <3>4
    <2>4. Within(T, new)
      BY <2>1, <2>2, <2>3 DEF Within
    <2> DEFINE why == IF doubt[f] = "stale" THEN doubt[f] ELSE
                      IF Behind(new) THEN "behind" ELSE "none"
    <2>5. why \in {"none", "stale", "behind"} /\ (doubt[f] = "stale" => why = "stale")
      OBVIOUS
    <2>6. doubt' = [doubt EXCEPT ![f] = why] /\ fd' = [fd EXCEPT ![f] = new]
          /\ pc' = "program" /\ pc \in {"program", "read"} /\ pc' \in {"program", "read"}
      BY <1>1, <1>4
    <2> HIDE DEF why, new
    <2> QED
      BY <1>1, <2>1, <2>4, <2>5, <2>6, FileMoves
  <1>5. CASE gran \notin Granules
    <2>1. pc' = "aborted" /\ fd' = fd /\ disk' = disk /\ fatBuffer' = fatBuffer
          /\ fatUpToDate' = fatUpToDate /\ curDriveNo' = curDriveNo /\ content' = content
      BY <1>1, <1>5 DEF world, decb
    <2> DEFINE why == IF doubt[f] # "stale" /\ Filled(fd[f]) /\ to = fd[f].length
                      THEN "behind" ELSE doubt[f]
    <2>2. doubt' = [doubt EXCEPT ![f] = why]
      BY <1>1, <1>5
    <2>3. why \in {"stale", "behind"}
      <3> SUFFICES ASSUME doubt[f] # "stale"
                   PROVE  Filled(fd[f]) /\ to = fd[f].length
        OBVIOUS
      <3>1. PICK e \in Entries : /\ IsFile(d, e) /\ fd[f].firstGran = e.firstGran
                                 /\ fd[f].numBytesLastSector = e.numBytesLastSector
        BY <1>2 DEF Knows
      <3>2. T = d.fat
        BY <1>2 DEF Knows
      <3>3. WalkEnds(T, e.firstGran) /\ T # Zeros
        BY <1>2, <3>1, <3>2, EntriesAre, LengthIs
      <3>4. fd[f].length = LengthOf(d, e)
        BY <1>2, <3>1, <3>2, <3>3, LengthOfFile DEF Knows
      <3>5. to \in 0..LengthOf(d, e)
        BY <1>3, <3>4
      <3>6. After(d.fat, e.firstGran, to \div GRANULE_SIZE) \notin Granules
        BY <1>5, <3>1, <3>2
      <3> HIDE DEF T, d, to, gran
      <3>7. to = LengthOf(d, e) /\ to > 0 /\ to % GRANULE_SIZE = 0
        BY <1>2, <3>1, <3>5, <3>6, NoGranuleAtEnd
      <3> QED
        BY <3>4, <3>7 DEF Filled
    <2> HIDE DEF why
    <2>4. doubt' \in [Fds -> Doubts] /\ doubt'[f] \in {"stale", "behind"}
      BY <1>2, <2>2, <2>3 DEF Doubts
    <2>5. FileTypes'
      BY <2>1, <2>4 DEF FilesInv, FileTypes
    <2> QED
      BY <2>1, <2>4, <2>5 DEF FilesInv, Survives
  <1> QED
    BY <1>4, <1>5

LEMMA FilesChangeDisk ==
    ASSUME FilesInv, NEW drive \in Drives, NEW d \in DecbDisks, ChangeDisk(drive, d)
    PROVE  FilesInv'
  <1>1. /\ pc \in {"program", "read"} /\ disk' = [disk EXCEPT ![drive] = d]
        /\ doubt' = [f \in Fds |-> IF Open(f) /\ fd[f].drive = drive
                                   THEN "stale" ELSE doubt[f]]
        /\ fatBuffer' = fatBuffer /\ fatUpToDate' = fatUpToDate /\ fd' = fd /\ pc' = pc
        /\ curDriveNo' = curDriveNo /\ job' = job /\ content' = content
    BY DEF ChangeDisk, decb
  <1>2. /\ disk \in [Drives -> DecbDisks] /\ fd \in [Fds -> FileDescs]
        /\ doubt \in [Fds -> Doubts] /\ \A h \in Fds : Opened(h)
    BY <1>1 DEF FilesInv, FileTypes, Survives
  <1>3. disk' \in [Drives -> DecbDisks] /\ doubt' \in [Fds -> Doubts]
    BY <1>1, <1>2 DEF Doubts
  <1>4. \A f \in Fds : doubt'[f] # "closed" <=> doubt[f] # "closed"
    BY <1>1 DEF Open
  <1>5. FileTypes'
    BY <1>1, <1>3, <1>4 DEF FilesInv, FileTypes, Jobs
  <1>6. ASSUME NEW f \in Fds PROVE Opened(f)'
    <2>1. CASE ~Open(f)
      BY <1>1, <1>2, <1>4, <2>1 DEF Opened, Open
    <2>2. CASE Open(f) /\ fd[f].drive = drive
      <3>1. doubt'[f] = "stale"
        BY <1>1, <2>2
      <3>2. /\ fatUpToDate /\ Knows(fd[f], fatBuffer, disk[drive], doubt[f], content[f])
            /\ Within(fatBuffer, fd[f])
        BY <1>2, <2>2 DEF Opened
      <3>3. Knows(fd[f], fatBuffer, d, "stale", content[f])
        BY <3>2 DEF Knows
      <3>4. disk'[fd[f].drive] = d
        BY <1>1, <1>2, <2>2
      <3> QED
        BY <1>1, <3>1, <3>2, <3>3, <3>4 DEF Opened, Open
    <2>3. CASE Open(f) /\ fd[f].drive # drive
      <3>1. doubt'[f] = doubt[f]
        BY <1>1, <2>3
      <3>2. disk'[fd[f].drive] = disk[fd[f].drive]
        BY <1>1, <1>2, <2>3 DEF FileDescs
      <3> QED
        BY <1>1, <1>2, <2>3, <3>1, <3>2 DEF Opened, Open
    <2> QED
      BY <2>1, <2>2, <2>3
  <1> QED
    BY <1>1, <1>5, <1>6 DEF FilesInv, Survives

LEMMA FilesOpenfile ==
    ASSUME FilesInv, NEW f \in Fds, NEW filename \in Filenames, openfile(f, filename)
    PROVE  FilesInv'
  <1> DEFINE d == disk[curDriveNo]
             name == normalizeFilename(filename)
             entry == findDirEntry(d, name)
             table == Cached(curDriveNo)
             len == computeFileLength(table, entry.firstGran, entry.numBytesLastSector)
             opened == [fd[f] EXCEPT !.drive = curDriveNo, !.firstGran = entry.firstGran,
                                     !.numBytesLastSector = entry.numBytesLastSector,
                                     !.length = len]
             new == AtStart(opened, table)
  <1>1. /\ pc = "program" /\ Named(d, name) # {} /\ fatBuffer # NoBuffer
        /\ fatBuffer' = table /\ fatUpToDate' = TRUE
        /\ disk' = disk /\ curDriveNo' = curDriveNo /\ job' = job
        /\ doubt' = [doubt EXCEPT ![f] = Stale(d, table)]
        /\ IF ~WalkEnds(table, entry.firstGran)
           THEN pc' = "hung" /\ fd' = fd /\ content' = content
           ELSE /\ pc' = pc /\ fd' = [fd EXCEPT ![f] = new]
                /\ content' = [content EXCEPT ![f] = ContentOf(d, entry)]
    BY DEF openfile, updateFAT, world
  <1>2. /\ disk \in [Drives -> DecbDisks] /\ curDriveNo \in Drives /\ d \in DecbDisks
        /\ fd \in [Fds -> FileDescs] /\ doubt \in [Fds -> Doubts] /\ DOMAIN content = Fds
        /\ \A h \in Fds : Fits(fd[h]) /\ Opened(h)
    BY <1>1 DEF FilesInv, FileTypes, Survives
  <1>3. IsFile(d, entry)
    <2>1. PICK p \in Named(d, name) : entry = EntryAt(d, p)
      <3> HIDE DEF d, name
      <3>1. PICK p \in Named(d, name) : FirstNamed(d, name) = EntryAt(d, p)
        BY <1>1, HasFirst
      <3> QED
        BY <3>1 DEF findDirEntry
    <2>2. p[1] \in 1..DirSectors /\ p[2] \in 1..DirEntries /\ entry.kind = "file"
          /\ entry = d.dir[p[1]][p[2]]
      BY <2>1 DEF Named, Slots, EntryAt
    <2> QED
      BY <2>2 DEF IsFile
  <1>4. /\ entry \in Entries /\ entry.firstGran \in Granules
        /\ entry.numBytesLastSector \in 0..SectorBytes /\ WalkEnds(d.fat, entry.firstGran)
    BY <1>2, <1>3, EntriesAre
  <1>5. /\ table \in {Zeros} \cup {c.fat : c \in DecbDisks} /\ table # NoBuffer
        /\ table \in Fats /\ (~fatUpToDate => table = d.fat) /\ (fatUpToDate => table = fatBuffer)
    <2>1. fatUpToDate \in BOOLEAN /\ fatBuffer \in {NoBuffer, Zeros} \cup {c.fat : c \in DecbDisks}
      BY DEF FilesInv, FileTypes
    <2>2. CASE fatUpToDate
      BY <1>1, <2>1, <2>2, TableIs DEF Cached, FilesInv
    <2>3. CASE ~fatUpToDate
      BY <1>2, <2>3, TablesAre DEF Cached
    <2> QED
      BY <2>1, <2>2, <2>3
  <1>6. Stale(d, table) \in {"none", "stale"} /\ (Stale(d, table) = "none" <=> table = d.fat)
    BY DEF Stale
  <1>7. doubt' \in [Fds -> Doubts] /\ doubt'[f] = Stale(d, table)
        /\ \A h \in Fds : h # f => doubt'[h] = doubt[h]
    BY <1>1, <1>2, <1>6 DEF Doubts
  <1>8. CASE ~WalkEnds(table, entry.firstGran)
    <2>1. doubt'[f] = "stale"
      BY <1>4, <1>6, <1>7, <1>8
    <2>2. FileTypes'
      <3> HIDE DEF d, name, entry, table, len, opened, new
      <3> QED
        BY <1>1, <1>2, <1>5, <1>7, <1>8 DEF FileTypes
    <2> QED
      BY <1>1, <1>8, <2>1, <2>2 DEF FilesInv, Survives
  <1>9. CASE WalkEnds(table, entry.firstGran)
    <2>1. len \in Nat
      <3> HIDE DEF d, name, entry, table
      <3> QED
        BY <1>4, <1>5, <1>9, LengthIs
    <2> HIDE DEF len
    <2>2. /\ opened \in FileDescs /\ opened.drive = curDriveNo
          /\ opened.firstGran = entry.firstGran
          /\ opened.numBytesLastSector = entry.numBytesLastSector /\ opened.length = len
      <3> HIDE DEF d, name, entry, table
      <3>1. opened \in FileDescs
        BY <1>2, <1>4, <2>1, ZenonT(40) DEF FileDescs
      <3>2. fd[f] \in FileDescs
        BY <1>2
      <3> QED
        BY <3>1, <3>2 DEF FileDescs
    <2> HIDE DEF opened
    <2>3. /\ new \in FileDescs /\ Fits(new) /\ Within(table, new)
          /\ new.drive = curDriveNo /\ new.firstGran = entry.firstGran
          /\ new.numBytesLastSector = entry.numBytesLastSector /\ new.length = len
      <3> HIDE DEF d, name, entry, table
      <3> QED
        BY <1>5, <2>2, AtStartIs
    <2> HIDE DEF d, name, entry, table, new
    <2>4. /\ fd' = [fd EXCEPT ![f] = new] /\ pc' = "program"
          /\ content' = [content EXCEPT ![f] = ContentOf(d, entry)]
      BY <1>1, <1>9
    <2>5. /\ fd' \in [Fds -> FileDescs] /\ fd'[f] = new /\ content'[f] = ContentOf(d, entry)
          /\ \A h \in Fds : h # f => fd'[h] = fd[h] /\ content'[h] = content[h]
          /\ DOMAIN content' = Fds
      BY <1>2, <2>3, <2>4
    <2>6. \A h \in Fds : Fits(fd'[h])
      BY <1>2, <2>3, <2>5
    <2>7. FileTypes'
      BY <1>1, <1>2, <1>5, <1>7, <2>4, <2>5, <2>6 DEF FileTypes
    <2>8. Knows(new, table, d, doubt'[f], content'[f])
      BY <1>3, <1>4, <1>6, <1>7, <1>9, <2>3, <2>5 DEF Knows, len
    <2>9. ASSUME NEW h \in Fds PROVE Opened(h)'
      <3>1. CASE h = f
        <4>1. disk'[fd'[f].drive] = d /\ Open(f)'
          BY <1>1, <1>6, <1>7, <2>3, <2>5 DEF d, Open
        <4> QED
          BY <1>1, <2>3, <2>5, <2>8, <3>1, <4>1 DEF Opened
      <3>2. CASE h # f /\ fatUpToDate
        <4>1. fatBuffer' = fatBuffer /\ fatUpToDate' = fatUpToDate
          BY <1>1, <1>5, <3>2
        <4> QED
          BY <1>1, <1>2, <1>7, <2>5, <3>2, <4>1 DEF Opened, Open
      <3>3. CASE h # f /\ ~fatUpToDate
        <4>1. ~Open(h) /\ fd[h] = NoFile
          BY <1>2, <3>3 DEF Opened
        <4> QED
          BY <1>7, <2>5, <3>3, <4>1 DEF Opened, Open
      <3> QED
        BY <3>1, <3>2, <3>3
    <2> QED
      BY <2>4, <2>7, <2>9 DEF FilesInv, Survives
  <1> QED
    BY <1>8, <1>9

\* A round of read(): what it does to the descriptor.
LEMMA FilesReadStep ==
    ASSUME FilesInv, ReadStep
    PROVE  FilesInv'
  <1> DEFINE f == job.fd
             file == fd[f]
             avail == getCurrentlyAvailableBytes(file)
             emptied == Emptied(file)
  <1>1. pc = "read"
    BY DEF ReadStep, ReadFills, ReadEnds, ReadFails, ReadFetches, ReadGoesOn
  <1>2. /\ f \in Fds /\ Open(f) /\ job \in Jobs /\ file \in FileDescs /\ Fits(file)
        /\ Opened(f) /\ doubt \in [Fds -> Doubts] /\ disk \in [Drives -> DecbDisks]
    BY <1>1 DEF FilesInv, FileTypes, Survives, Jobs, Open
  <1>3. fatBuffer \in Fats /\ Within(fatBuffer, file)
    BY <1>2, TableIs DEF FilesInv, FileTypes, Opened
  <1>4. /\ doubt[f] \in {"none", "stale", "behind"} /\ doubt = [doubt EXCEPT ![f] = doubt[f]]
        /\ job.left \in Nat
    BY <1>2 DEF Doubts, Open, Jobs
  <1>5. avail \in 0..SectorBytes /\ avail \in Nat
    BY <1>2, AvailableIs, Sizes
  <1>6. /\ emptied \in FileDescs /\ Fits(emptied) /\ Within(fatBuffer, emptied)
        /\ SameFile(emptied, file)
        /\ emptied.curGran # EndOfFile => emptied.curSectorAvailBytes = 0
    BY <1>2, <1>3, EmptiedIs
  <1>7. ASSUME NEW new \in FileDescs, Fits(new), Within(fatBuffer, new), SameFile(new, file),
               fd' = [fd EXCEPT ![f] = new], UNCHANGED <<world, decb, content, doubt>>,
               \/ pc' = "program"
               \/ pc' = pc /\ job' \in Jobs /\ job'.left # 0 /\ job'.fd = f
        PROVE  FilesInv'
    <2>1. /\ UNCHANGED <<world, decb, content>> /\ doubt' = [doubt EXCEPT ![f] = doubt[f]]
          /\ pc \in {"program", "read"} /\ pc' \in {"program", "read"}
          /\ pc' = "read" => job' \in Jobs /\ job'.left # 0 /\ doubt'[job'.fd] # "closed"
      BY <1>1, <1>2, <1>4, <1>7 DEF Open
    <2> HIDE DEF f, file
    <2> QED
      BY <1>2, <1>4, <1>7, <2>1, FileMoves DEF file
  <1>8. CASE ReadFills
    <2> DEFINE new == advanceOffset(file, job.left)
    <2>1. new \in FileDescs /\ Fits(new) /\ Within(fatBuffer, new) /\ SameFile(new, file)
      BY <1>2, <1>3, <1>4, OffsetAdvances
    <2>2. fd' = [fd EXCEPT ![f] = new] /\ UNCHANGED <<world, decb, content, doubt>>
          /\ pc' = "program"
      BY <1>8 DEF ReadFills, Return
    <2> HIDE DEF new, f, file
    <2> QED
      BY <1>7, <2>1, <2>2
  <1>9. CASE ReadEnds \/ ReadFails
    <2>1. fd' = [fd EXCEPT ![f] = emptied] /\ UNCHANGED <<world, decb, content, doubt>>
          /\ pc' = "program"
      BY <1>9 DEF ReadEnds, ReadFails, Return
    <2> HIDE DEF emptied, f, file
    <2> QED
      BY <1>6, <1>7, <2>1
  <1>10. CASE ReadFetches
    <2> DEFINE new == WithSector(emptied)
    <2>1. /\ emptied.curGran # EndOfFile /\ fd' = [fd EXCEPT ![f] = new]
          /\ job' = [job EXCEPT !.left = job.left - avail, !.bytes = Collected]
          /\ UNCHANGED <<world, decb, content, doubt>> /\ pc' = pc
          /\ avail \in 0..job.left - 1
      BY <1>10 DEF ReadFetches, ReadGoesOn, ghosts
    <2>2. new \in FileDescs /\ Fits(new) /\ Within(fatBuffer, new) /\ SameFile(new, emptied)
      <3> HIDE DEF emptied, f, file
      <3> QED
        BY <1>2, <1>3, <1>6, <2>1, WithSectorIs
    <2>3. SameFile(new, file)
      <3> HIDE DEF emptied, f, file, new
      <3> QED
        BY <1>6, <2>2 DEF SameFile
    <2>4. Collected \in Seq(DiskBytes)
      <3>1. Delivered(file, avail) \in Seq(DiskBytes)
        BY <1>2, <1>5, DeliveredIs
      <3>2. job.bytes \in Seq(DiskBytes)
        BY <1>2 DEF Jobs
      <3> QED
        BY <3>1, <3>2 DEF Collected
    <2>5. job' \in Jobs /\ job'.left # 0 /\ job'.fd = f
      <3> HIDE DEF avail, file, emptied, new
      <3>1. job.left - avail \in Nat /\ job.left - avail # 0
        BY <1>4, <1>5, <2>1
      <3> QED
        BY <1>2, <2>1, <2>4, <3>1 DEF Jobs
    <2> HIDE DEF f, file, emptied, new
    <2> QED
      BY <1>7, <2>1, <2>2, <2>3, <2>5
  <1> QED
    BY <1>8, <1>9, <1>10 DEF ReadStep

LEMMA FilesNext == FilesInv /\ [Next]_vars => FilesInv'
  <1> SUFFICES ASSUME FilesInv, [Next]_vars PROVE FilesInv'
    OBVIOUS
  <1>1. CASE UNCHANGED vars
    <2>1. UNCHANGED <<disk, fatBuffer, fatUpToDate, fd, content, doubt, curDriveNo, pc, job>>
      BY <1>1 DEF vars, world, decb, ghosts
    <2> QED
      BY <2>1, FilesStay DEF FilesInv, FileTypes
  <1>2. ASSUME NEW no \in Drives, setDefaultDriveNo(no) PROVE FilesInv'
    <2>1. UNCHANGED <<disk, fatBuffer, fatUpToDate, fd, content, doubt, pc, job>>
          /\ pc = "program" /\ curDriveNo' \in Drives
      BY <1>2 DEF setDefaultDriveNo, world, ghosts
    <2> QED
      BY <2>1, FilesStay
  <1>3. CASE Call
    BY <1>2, <1>3, FilesInitdisk, FilesDrop, FilesOpenfile, FilesRewind, FilesGetLength, FilesSeek,
       FilesRead DEF Call
  <1> QED
    BY <1>1, <1>3, FilesReadStep, FilesChangeDisk DEF Next

LEMMA FilesInv_Always == Spec => []FilesInv
  BY FilesInit, FilesNext, PTL DEF Spec

\* The descriptors hold what struct FileDesc says, and the ghosts what they
\* should, whatever the disks hold and whatever table is in memory.
THEOREM FilesTypeCorrect == Spec => []TypeOK
  <1>1. FilesInv => TypeOK
    BY DEF FilesInv, FileTypes, FileDescs, TypeOK
  <1> QED
    BY <1>1, FilesInv_Always, PTL

\* The program dies of a failed assertion or a walk without end only where the
\* table is not the disk's, or at the end of a file that fills its last granule.
THEOREM DiesOnlyInDoubt == Spec => []DiesInDoubt
  <1>1. FilesInv => DiesInDoubt
    BY DEF FilesInv, FileTypes, Survives, Fits, DiesInDoubt
  <1> QED
    BY <1>1, FilesInv_Always, PTL

-----------------------------------------------------------------------------
(* Files: sectors and bytes of a file.                                     *)

LEMMA DivIs ==
    ASSUME NEW n \in Nat \ {0}, NEW i \in Nat, NEW r \in 0..n - 1
    PROVE  (i * n + r) \div n = i /\ (i * n + r) % n = r
  BY Z3

\* The number of the last sector of a file, counted from 0.
Sectors(T, g) ==
    (Steps(T, g) - 1) * GranSectors + (After(T, g, Steps(T, g)) - 193)

\* The reader is at sector k of the file.
SectorAt(T, file, k) ==
    /\ k \in 0..Sectors(T, file.firstGran)
    /\ file.curGran = After(T, file.firstGran, k \div GranSectors)
    /\ file.curSec = (k % GranSectors) + 1

\* Byte j of sector k, among the bytes of the file.
LEMMA BytesOfSector ==
    ASSUME NEW k \in Nat, NEW j \in 0..SectorBytes - 1
    PROVE  /\ (k * SectorBytes + j) \div GRANULE_SIZE = k \div GranSectors
           /\ ((k * SectorBytes + j) % GRANULE_SIZE) \div SectorBytes = k % GranSectors
           /\ ((k * SectorBytes + j) % GRANULE_SIZE) % SectorBytes = j
  <1> DEFINE i == k \div GranSectors
             q == k % GranSectors
             r == q * SectorBytes + j
  <1>1. i \in Nat /\ q \in 0..GranSectors - 1 /\ k = i * GranSectors + q
    BY InGranules
  <1> HIDE DEF i, q
  <1>2. q * SectorBytes \in Nat /\ r \in Nat /\ r < GRANULE_SIZE
    <2>1. \A a, b \in Nat : a * b \in Nat
      BY Z3
    <2>2. \A a, b, c \in Nat : a <= b => a * c <= b * c
      BY Z3
    <2>3. q \in Nat /\ GranSectors - 1 \in Nat /\ q <= GranSectors - 1
      BY <1>1, Sizes
    <2>4. q * SectorBytes \in Nat /\ q * SectorBytes <= (GranSectors - 1) * SectorBytes
      BY <2>1, <2>2, <2>3, Sizes
    <2>5. (GranSectors - 1) * SectorBytes + SectorBytes = GRANULE_SIZE
      BY Sizes, Z3
    <2>6. (GranSectors - 1) * SectorBytes \in Nat
      BY <2>1, <2>3, Sizes
    <2> QED
      BY <2>4, <2>5, <2>6, Sizes
  <1> HIDE DEF r
  <1>3. r \in 0..GRANULE_SIZE - 1
    BY <1>2, Sizes
  <1>4. k * SectorBytes + j = i * GRANULE_SIZE + r
    <2>1. \A a, b, c, q1 \in Nat : (a * b + q1) * c = a * (b * c) + q1 * c
      BY Z3
    <2>2. k * SectorBytes = i * (GranSectors * SectorBytes) + q * SectorBytes
      BY <1>1, <2>1, Sizes
    <2>3. i * (GranSectors * SectorBytes) = i * GRANULE_SIZE
      BY Sizes
    <2>4. i * GRANULE_SIZE \in Nat
      <3>1. \A a, b \in Nat : a * b \in Nat
        BY Z3
      <3> QED
        BY <1>1, <3>1, Sizes
    <2> QED
      BY <1>2, <2>2, <2>3, <2>4, Sizes DEF r
  <1>5. (i * GRANULE_SIZE + r) \div GRANULE_SIZE = i /\ (i * GRANULE_SIZE + r) % GRANULE_SIZE = r
    BY <1>1, <1>3, DivIs, Sizes
  <1>6. r \div SectorBytes = q /\ r % SectorBytes = j
    BY <1>1, DivIs, Sizes DEF r
  <1> QED
    BY <1>4, <1>5, <1>6 DEF i, q

\* The table of a file, and where it ends.
LEMMA FileOfDisk ==
    ASSUME NEW d \in DecbDisks, NEW e, IsFile(d, e)
    PROVE  LET T == d.fat
               g == e.firstGran
               n == Steps(T, g)
               u == After(T, g, n)
           IN  /\ T \in Fats /\ g \in Granules /\ g \in FatBytes
               /\ n \in Nat /\ n >= 1 /\ EndsAt(T, g, n)
               /\ u \in 193..192 + GranSectors /\ u \notin Granules
               /\ Sectors(T, g) = (n - 1) * GranSectors + (u - 193)
               /\ Sectors(T, g) \in Nat /\ (n - 1) * GranSectors \in Nat
               /\ e.numBytesLastSector \in 0..SectorBytes
  <1> DEFINE T == d.fat
             g == e.firstGran
             n == Steps(T, g)
             u == After(T, g, n)
  <1>1. /\ T \in Fats /\ g \in Granules /\ g \in FatBytes
        /\ u \in 193..192 + GranSectors
        /\ e.numBytesLastSector \in 0..SectorBytes
    BY TablesAre, EntriesAre DEF FatBytes
  <1>2. n \in Nat /\ n >= 1 /\ EndsAt(T, g, n)
    BY <1>1, StepsEnd DEF MAX_NUM_GRANULES
  <1>3. Sectors(T, g) = (n - 1) * GranSectors + (u - 193)
    BY DEF Sectors
  <1> HIDE DEF n, u
  <1>4. u \notin Granules
    BY <1>1, Sizes DEF Granules, MAX_NUM_GRANULES
  <1>5. (n - 1) * GranSectors \in Nat /\ u - 193 \in Nat
    <2>1. \A a, b \in Nat : a * b \in Nat
      BY Z3
    <2> QED
      BY <1>1, <1>2, <2>1, Sizes
  <1>6. Sectors(T, g) \in Nat
    BY <1>3, <1>5
  <1> QED
    BY <1>1, <1>2, <1>3, <1>4, <1>5, <1>6 DEF n, u

LEMMA LengthInSectors ==
    ASSUME NEW d \in DecbDisks, NEW e, IsFile(d, e)
    PROVE  /\ LengthOf(d, e) = Sectors(d.fat, e.firstGran) * SectorBytes + e.numBytesLastSector
           /\ LengthOf(d, e) \in Nat
  <1> DEFINE n == Steps(d.fat, e.firstGran)
             u == After(d.fat, e.firstGran, n)
             last == e.numBytesLastSector
  <1>1. /\ n \in Nat /\ n >= 1 /\ u \in 193..192 + GranSectors /\ last \in 0..SectorBytes
        /\ Sectors(d.fat, e.firstGran) = (n - 1) * GranSectors + (u - 193)
    BY FileOfDisk, ZenonT(40)
  <1>2. LengthOf(d, e) = (n - 1) * GRANULE_SIZE + ((u - 192) - 1) * SectorBytes + last
    BY DEF LengthOf
  <1> HIDE DEF n, u, last
  <1> DEFINE m == n - 1
             w == u - 193
  <1>3. m \in Nat /\ w \in Nat /\ (u - 192) - 1 = w
    BY <1>1, Sizes
  <1> HIDE DEF m, w
  <1>4. \A a, b, c, q1 \in Nat : (a * b + q1) * c = a * (b * c) + q1 * c
    BY Z3
  <1>5. (m * GranSectors + w) * SectorBytes = m * (GranSectors * SectorBytes) + w * SectorBytes
    BY <1>3, <1>4, Sizes
  <1>6. LengthOf(d, e) = m * GRANULE_SIZE + w * SectorBytes + last
    BY <1>2, <1>3 DEF m
  <1>7. m * GRANULE_SIZE = m * (GranSectors * SectorBytes)
    BY Sizes
  <1>8. m * GRANULE_SIZE \in Nat /\ w * SectorBytes \in Nat
    <2>1. \A a, b \in Nat : a * b \in Nat
      BY Z3
    <2> QED
      BY <1>3, <2>1, Sizes
  <1>9. Sectors(d.fat, e.firstGran) = m * GranSectors + w
    BY <1>1 DEF m, w
  <1>10. Sectors(d.fat, e.firstGran) * SectorBytes = m * GRANULE_SIZE + w * SectorBytes
    BY <1>5, <1>7, <1>9
  <1> HIDE DEF last
  <1>11. LengthOf(d, e) = Sectors(d.fat, e.firstGran) * SectorBytes + last
    BY <1>6, <1>10
  <1>12. LengthOf(d, e) \in Nat
    BY <1>1, <1>6, <1>8, Sizes
  <1> QED
    BY <1>11, <1>12 DEF last

\* The bytes of a file are those of the sectors the reader is sent to.
LEMMA ContentIs ==
    ASSUME NEW d \in DecbDisks, NEW e, IsFile(d, e)
    PROVE  /\ Len(ContentOf(d, e)) = LengthOf(d, e)
           /\ ContentOf(d, e) \in Seq({ContentOf(d, e)[i] : i \in 1..LengthOf(d, e)})
  <1> DEFINE c == ContentOf(d, e)
  <1>1. LengthOf(d, e) \in Nat
    BY LengthInSectors
  <1>2. c = [i \in 1..LengthOf(d, e) |-> c[i]]
    BY DEF ContentOf
  <1> HIDE DEF c
  <1> QED
    BY <1>1, <1>2 DEF c

LEMMA ByteIs ==
    ASSUME NEW d \in DecbDisks, NEW e, IsFile(d, e), NEW file \in FileDescs,
           file.firstGran = e.firstGran, file.curGran # EndOfFile,
           NEW k \in Nat, SectorAt(d.fat, file, k),
           NEW j \in 1..SectorBytes, k * SectorBytes + j <= LengthOf(d, e)
    PROVE  ContentOf(d, e)[k * SectorBytes + j] = Sector(d, PlaceToRead(file))[j]
  <1> DEFINE i == k * SectorBytes + j
             h == After(d.fat, e.firstGran, (i - 1) \div GRANULE_SIZE)
             within == (i - 1) % GRANULE_SIZE
             at == granuleToTrack(file.curGran)
             j1 == j - 1
  <1>1. k * SectorBytes \in Nat
    <2>1. \A a, b \in Nat : a * b \in Nat
      BY Z3
    <2> QED
      BY <2>1, Sizes
  <1>2. i \in 1..LengthOf(d, e) /\ i - 1 = k * SectorBytes + j1 /\ j1 \in 0..SectorBytes - 1
    <2> DEFINE p == k * SectorBytes
    <2> HIDE DEF p
    <2> QED
      BY <1>1, LengthInSectors, Sizes DEF p
  <1>3. ContentOf(d, e)[i] =
           <<d.id, <<PlaceOf(h)[1], PlaceOf(h)[2] + within \div SectorBytes>>,
             (within % SectorBytes) + 1>>
    BY <1>2, Zenon DEF ContentOf
  <1>4. /\ (i - 1) \div GRANULE_SIZE = k \div GranSectors
        /\ within \div SectorBytes = k % GranSectors
        /\ within % SectorBytes = j1
    <2> HIDE DEF i, j1
    <2>1. j1 \in 0..SectorBytes - 1 /\ i - 1 = k * SectorBytes + j1
      BY <1>2
    <2> QED
      BY <2>1, BytesOfSector
  <1>5. file.curGran = h /\ file.curSec = (k % GranSectors) + 1 /\ file.curGran \in Granules
    BY <1>4 DEF SectorAt, FileDescs
  <1>6. <<PlaceOf(h)[1], PlaceOf(h)[2] + (k % GranSectors)>> = PlaceToRead(file)
    <2> DEFINE q == k % GranSectors
    <2>1. q \in Nat
      BY InGranules, Sizes
    <2> HIDE DEF q, h
    <2>2. h \in Granules /\ PlaceToRead(file) = <<at[1], at[2] + (q + 1)>>
      BY <1>5 DEF PlaceToRead, q
    <2>3. PlaceOf(h)[1] = at[1]
      BY <1>5, <2>2 DEF PlaceOf, granuleToTrack, Granules, MAX_NUM_GRANULES
    <2>4. h % 2 = 0 \/ h % 2 = 1
      BY <2>2 DEF Granules, MAX_NUM_GRANULES
    <2>5. PlaceOf(h)[2] + q = at[2] + (q + 1)
      <3>1. PlaceOf(h)[2] = (h % 2) * GranSectors + 1
        BY DEF PlaceOf
      <3>2. at[2] = IF h % 2 > 0 THEN GranSectors ELSE 0
        BY <1>5 DEF granuleToTrack
      <3> QED
        BY <2>1, <2>4, <3>1, <3>2, Sizes
    <2>6. <<PlaceOf(h)[1], PlaceOf(h)[2] + q>> = PlaceToRead(file)
      BY <2>2, <2>3, <2>5
    <2> QED
      BY <2>6 DEF q
  <1>7. Sector(d, PlaceToRead(file))[j] = <<d.id, PlaceToRead(file), j>>
    BY DEF Sector
  <1>8. j1 + 1 = j
    BY Sizes
  <1> HIDE DEF h, within, at, j1
  <1>9. ContentOf(d, e)[i] = <<d.id, <<PlaceOf(h)[1], PlaceOf(h)[2] + (k % GranSectors)>>, j1 + 1>>
    BY <1>3, <1>4, Zenon
  <1> QED
    BY <1>6, <1>7, <1>8, <1>9

\* Behind a sector comes the next one, behind the last one the end.
LEMMA NextSectorIs ==
    ASSUME NEW d \in DecbDisks, NEW e, IsFile(d, e), NEW file \in FileDescs,
           file.firstGran = e.firstGran, NEW k \in Nat, SectorAt(d.fat, file, k)
    PROVE  /\ file.curGran \in Granules
           /\ LastSector(d.fat, file) <=> k = Sectors(d.fat, e.firstGran)
           /\ k = Sectors(d.fat, e.firstGran) => NextSector(d.fat, file)[1] = EndOfFile
           /\ k # Sectors(d.fat, e.firstGran) =>
                 /\ k + 1 \in 0..Sectors(d.fat, e.firstGran)
                 /\ NextSector(d.fat, file)[1]
                       = After(d.fat, e.firstGran, (k + 1) \div GranSectors)
                 /\ NextSector(d.fat, file)[2] = ((k + 1) % GranSectors) + 1
  <1> DEFINE T == d.fat
             g == e.firstGran
             n == Steps(T, g)
             u == After(T, g, n)
             i == k \div GranSectors
             q == k % GranSectors
             h == After(T, g, i)
             last == Sectors(T, g)
             m == (n - 1) * GranSectors
  <1>1. /\ T \in Fats /\ g \in FatBytes /\ n \in Nat /\ n >= 1 /\ EndsAt(T, g, n)
        /\ u \in 193..192 + GranSectors /\ u \notin Granules
        /\ last = m + (u - 193) /\ last \in Nat /\ m \in Nat
    BY FileOfDisk DEF FatBytes
  <1>2. /\ i \in Nat /\ q \in 0..GranSectors - 1 /\ k = i * GranSectors + q
        /\ q # GranSectors - 1 => (k + 1) \div GranSectors = i /\ (k + 1) % GranSectors = q + 1
        /\ q = GranSectors - 1 => (k + 1) \div GranSectors = i + 1 /\ (k + 1) % GranSectors = 0
    BY InGranules
  <1>3. k \in 0..last /\ file.curGran = h /\ file.curSec = q + 1
    BY DEF SectorAt
  <1> HIDE DEF n, u, i, q, h, last
  <1>4. \A a, b, c \in Nat : a <= b => a * c <= b * c
    BY Z3
  <1>5. i <= n - 1
    <2> SUFFICES ASSUME i >= n PROVE FALSE
      BY <1>1, <1>2
    <2>1. n * GranSectors <= i * GranSectors
      BY <1>1, <1>2, <1>4, Sizes
    <2>2. n * GranSectors = m + GranSectors
      BY <1>1, Sizes, Z3
    <2>3. i * GranSectors \in Nat /\ n * GranSectors \in Nat
      <3>1. \A a, b \in Nat : a * b \in Nat
        BY Z3
      <3> QED
        BY <1>1, <1>2, <3>1, Sizes
    <2> HIDE DEF m
    <2> DEFINE x == i * GranSectors
               y == n * GranSectors
    <2> HIDE DEF x, y
    <2>4. x \in Nat /\ y \in Nat /\ y <= x /\ y = m + GranSectors /\ k = x + q
      BY <1>2, <2>1, <2>2, <2>3 DEF x, y
    <2> QED
      BY <1>1, <1>2, <1>3, <2>4, Sizes
  <1>6. h \in Granules
    BY <1>1, <1>2, <1>5, LastIs DEF h, u
  <1>7. T[h] = After(T, g, i + 1) /\ T[h] \in FatBytes
    <2>1. After(T, g, i + 1) = Following(T, h)
      <3>1. h = After(T, g, i) /\ T \in Fats /\ g \in FatBytes /\ i \in Nat
        BY <1>1, <1>2 DEF h
      <3> QED
        BY <3>1, AfterFollows, Zenon
    <2> QED
      BY <1>1, <1>6, <2>1 DEF Following, Fats
  <1>8. NextSector(T, file) =
           LET sectors == IF T[h] >= 193 THEN T[h] - 192 ELSE GranSectors
           IN  IF q + 1 + 1 <= sectors THEN <<h, q + 1 + 1>>
               ELSE IF T[h] >= 193 THEN <<EndOfFile, q + 1 + 1>> ELSE <<T[h], 1>>
    BY <1>3, Zenon DEF NextSector
  <1>9. LastSector(T, file) <=> T[h] >= 193 /\ q + 1 = T[h] - 192
    BY <1>3 DEF LastSector
  <1>10. CASE i = n - 1
    <2>1. T[h] = u
      BY <1>1, <1>2, <1>7, <1>10 DEF u
    <2>2. k = m + q
      BY <1>2, <1>10 DEF m
    <2> HIDE DEF m
    <2>3. k = last <=> q + 1 = u - 192
      BY <1>1, <1>2, <2>2, Sizes
    <2>4. LastSector(T, file) <=> k = last
      BY <1>1, <1>9, <2>1, <2>3, Sizes
    <2>5. q + 1 <= u - 192
      BY <1>1, <1>2, <1>3, <2>2, Sizes
    <2>6. CASE k = last
      <3>1. ~(q + 1 + 1 <= u - 192) /\ u >= 193
        BY <1>1, <1>2, <2>3, <2>6, Sizes
      <3>2. NextSector(T, file) = <<EndOfFile, q + 1 + 1>>
        BY <1>8, <2>1, <3>1
      <3> QED
        BY <1>3, <1>6, <2>4, <2>6, <3>2 DEF last
    <2>7. CASE k # last
      <3>1. q + 1 + 1 <= u - 192 /\ u >= 193 /\ q # GranSectors - 1
        BY <1>1, <1>2, <2>3, <2>5, <2>7, Sizes
      <3>2. NextSector(T, file) = <<h, q + 1 + 1>>
        BY <1>8, <2>1, <3>1
      <3>3. k + 1 \in 0..last
        BY <1>1, <1>3, <2>7
      <3>4. /\ (k + 1) \div GranSectors = i /\ (k + 1) % GranSectors = q + 1
        BY <1>2, <3>1
      <3> QED
        BY <1>3, <1>6, <2>4, <2>7, <3>2, <3>3, <3>4 DEF last, h
    <2> QED
      BY <2>6, <2>7
  <1>11. CASE i # n - 1
    <2>1. i + 1 < n /\ i + 1 \in Nat
      BY <1>1, <1>2, <1>5, <1>11
    <2>2. T[h] \in Granules
      BY <1>1, <1>7, <2>1, LastIs DEF u
    <2>3. ~(T[h] >= 193)
      BY <2>2 DEF Granules, MAX_NUM_GRANULES
    <2>4. k < last
      <3>1. (i + 1) * GranSectors <= m
        <4>1. i + 1 <= n - 1 /\ n - 1 \in Nat
          BY <1>1, <2>1
        <4> QED
          BY <1>4, <2>1, <4>1, Sizes DEF m
      <3>2. (i + 1) * GranSectors = i * GranSectors + GranSectors
        BY <1>2, Sizes, Z3
      <3>3. i * GranSectors \in Nat
        <4>1. \A a, b \in Nat : a * b \in Nat
          BY Z3
        <4> QED
          BY <1>2, <4>1, Sizes
      <3> HIDE DEF m
      <3> DEFINE x == i * GranSectors
      <3> HIDE DEF x
      <3>4. x \in Nat /\ x + GranSectors <= m /\ k = x + q
        BY <1>2, <3>1, <3>2, <3>3 DEF x
      <3> QED
        BY <1>1, <1>2, <3>4, Sizes
    <2>5. k + 1 \in 0..last /\ k # last
      BY <1>1, <2>4
    <2>6. CASE q = GranSectors - 1
      <3>1. ~(q + 1 + 1 <= GranSectors)
        BY <2>6, Sizes
      <3>2. NextSector(T, file) = <<T[h], 1>>
        BY <1>8, <2>3, <3>1
      <3>3. After(T, g, (k + 1) \div GranSectors) = T[h] /\ ((k + 1) % GranSectors) + 1 = 1
        BY <1>2, <1>7, <2>6
      <3> QED
        BY <1>3, <1>6, <1>9, <2>3, <2>5, <3>2, <3>3 DEF last
    <2>7. CASE q # GranSectors - 1
      <3>1. q + 1 + 1 <= GranSectors
        BY <1>2, <2>7, Sizes
      <3>2. NextSector(T, file) = <<h, q + 1 + 1>>
        BY <1>8, <2>3, <3>1
      <3>3. (k + 1) \div GranSectors = i /\ (k + 1) % GranSectors = q + 1
        BY <1>2, <2>7
      <3> QED
        BY <1>3, <1>6, <1>9, <2>3, <2>5, <3>2, <3>3 DEF last, h
    <2> QED
      BY <2>6, <2>7
  <1> QED
    BY <1>10, <1>11

\* A position is in a sector, unless it is behind the last one.
LEMMA PositionIs ==
    ASSUME NEW d \in DecbDisks, NEW e, IsFile(d, e), NEW x \in Nat, NEW new \in FileDescs,
           fatBuffer = d.fat, new.firstGran = e.firstGran, new.curGran \in Granules,
           new.curGran = After(d.fat, e.firstGran, x \div GRANULE_SIZE),
           new.curSec = (x % GRANULE_SIZE) \div SectorBytes + 1,
           ~Behind(new)
    PROVE  \E k \in Nat : /\ SectorAt(d.fat, new, k)
                          /\ x = k * SectorBytes + ((x % GRANULE_SIZE) % SectorBytes)
  <1> DEFINE T == d.fat
             g == e.firstGran
             n == Steps(T, g)
             u == After(T, g, n)
             i == x \div GRANULE_SIZE
             r == x % GRANULE_SIZE
             q == r \div SectorBytes
             s == r % SectorBytes
             h == After(T, g, i)
             last == Sectors(T, g)
             m == (n - 1) * GranSectors
             k == i * GranSectors + q
  <1>1. /\ T \in Fats /\ g \in FatBytes /\ n \in Nat /\ n >= 1 /\ EndsAt(T, g, n)
        /\ u \in 193..192 + GranSectors /\ u \notin Granules
        /\ last = m + (u - 193) /\ last \in Nat /\ m \in Nat
    BY FileOfDisk DEF FatBytes
  <1>2. /\ i \in Nat /\ r \in 0..GRANULE_SIZE - 1 /\ x = i * GRANULE_SIZE + r
        /\ q \in 0..GranSectors - 1 /\ s \in 0..SectorBytes - 1
        /\ r = q * SectorBytes + s
    BY Divided
  <1>3. new.curGran = h /\ h \in Granules /\ new.curSec = q + 1
    OBVIOUS
  <1>4. ~(T[h] >= 193 /\ q + 1 > T[h] - 192)
    BY <1>3 DEF Behind
  <1> HIDE DEF n, u, i, r, q, s, h, last
  <1>5. i < n
    BY <1>1, <1>2, <1>3, LastIs DEF h, u
  <1>6. T[h] = After(T, g, i + 1) /\ T[h] \in FatBytes
    <2>1. T \in Fats /\ g \in FatBytes /\ i \in Nat
      BY <1>1, <1>2
    <2>2. After(T, g, i + 1) = Following(T, h)
      BY <2>1, AfterFollows DEF h
    <2> QED
      BY <1>1, <1>3, <2>2 DEF Following, Fats
  <1>7. i * GranSectors \in Nat /\ k \in Nat
    <2>1. \A a, b \in Nat : a * b \in Nat
      BY Z3
    <2>2. i * GranSectors \in Nat
      BY <1>2, <2>1, Sizes
    <2> QED
      BY <1>2, <2>2, Sizes
  <1>8. k \in 0..last
    <2>1. CASE i = n - 1
      <3>1. T[h] = u
        BY <1>1, <1>2, <1>6, <2>1 DEF u
      <3>2. q <= u - 193
        BY <1>1, <1>2, <1>4, <3>1, Sizes
      <3>3. k = m + q
        BY <2>1
      <3> HIDE DEF m, k
      <3> QED
        BY <1>1, <1>2, <1>7, <3>2, <3>3, Sizes
    <2>2. CASE i # n - 1
      <3>1. i + 1 <= n - 1 /\ i + 1 \in Nat /\ n - 1 \in Nat
        BY <1>1, <1>2, <1>5, <2>2
      <3>2. \A a, b, c \in Nat : a <= b => a * c <= b * c
        BY Z3
      <3>3. (i + 1) * GranSectors <= m
        BY <3>1, <3>2, Sizes
      <3>4. (i + 1) * GranSectors = i * GranSectors + GranSectors
        BY <1>2, Sizes, Z3
      <3> DEFINE y == i * GranSectors
      <3> HIDE DEF m, y
      <3>5. y \in Nat /\ y + GranSectors <= m /\ k = y + q
        BY <1>7, <3>3, <3>4 DEF y
      <3> HIDE DEF k
      <3> QED
        BY <1>1, <1>2, <1>7, <3>5, Sizes
    <2> QED
      BY <2>1, <2>2
  <1>9. k \div GranSectors = i /\ k % GranSectors = q
    BY <1>2, DivIs, Sizes
  <1>10. x = k * SectorBytes + s
    <2>1. \A a, b, c, q1 \in Nat : (a * b + q1) * c = a * (b * c) + q1 * c
      BY Z3
    <2>2. q \in Nat
      BY <1>2, Sizes
    <2>3. k * SectorBytes = i * (GranSectors * SectorBytes) + q * SectorBytes
      BY <1>2, <2>1, <2>2, Sizes
    <2>4. i * (GranSectors * SectorBytes) = i * GRANULE_SIZE
      BY Sizes
    <2>5. i * GRANULE_SIZE \in Nat /\ q * SectorBytes \in Nat
      <3>1. \A a, b \in Nat : a * b \in Nat
        BY Z3
      <3> QED
        BY <1>2, <2>2, <3>1, Sizes
    <2> DEFINE y == i * GRANULE_SIZE
               z == q * SectorBytes
               w == k * SectorBytes
    <2> HIDE DEF y, z, w
    <2>6. w = y + z /\ x = y + r /\ r = z + s /\ y \in Nat /\ z \in Nat
      BY <1>2, <2>3, <2>4, <2>5 DEF y, z, w
    <2>7. x = w + s
      BY <1>2, <2>6, Sizes
    <2> QED
      BY <2>7 DEF w
  <1>11. SectorAt(T, new, k)
    BY <1>3, <1>8, <1>9 DEF SectorAt, last, h
  <1> HIDE DEF k
  <1> QED
    BY <1>7, <1>10, <1>11 DEF s, r

-----------------------------------------------------------------------------
(* Files: where a file that is trusted is read.                            *)

\* With the table of its disk, a descriptor stands for the position it says: the
\* sector buffer holds the bytes from it on, up to the end of the sector or of
\* the file, and the reader is at the sector behind them; or the buffer is empty,
\* and the reader at the sector of the position.
Sited(T, file, bytes) ==
    /\ file.offset <= Len(bytes)
    /\ file.curSectorAvailBytes = 0 =>
          IF file.curGran = EndOfFile THEN file.offset = Len(bytes)
          ELSE \E k \in Nat : /\ SectorAt(T, file, k)
                              /\ file.offset = k * SectorBytes + file.secOffset
    /\ file.curSectorAvailBytes # 0 =>
          \E p \in Nat :
             /\ file.offset = p + file.secOffset
             /\ p + file.curSectorAvailBytes <= Len(bytes)
             /\ \A i \in 1..file.curSectorAvailBytes : file.curSector[i] = bytes[p + i]
             /\ IF file.curGran = EndOfFile THEN p + file.curSectorAvailBytes = Len(bytes)
                ELSE /\ file.curSectorAvailBytes = SectorBytes
                     /\ \E k \in Nat : /\ SectorAt(T, file, k)
                                       /\ p + SectorBytes = k * SectorBytes

\* What read() has delivered so far, of the bytes from where it began.
Gathered(file, bytes) ==
    /\ job.from \in 0..file.offset
    /\ job.bytes = SubSeq(bytes, job.from + 1, file.offset)
    /\ job.asked = job.left + (file.offset - job.from)

Delivering ==
    /\ DOMAIN answer = Fds
    /\ pc \in {"program", "read"} =>
          \A f \in Fds : Trusted(f) => Sited(fatBuffer, fd[f], content[f])
    /\ pc = "read" /\ Trusted(job.fd) => Gathered(fd[job.fd], content[job.fd])

ContractInv == FilesInv /\ Delivering

LEMMA Stretch ==
    ASSUME NEW S, NEW c \in Seq(S), NEW a \in Nat, NEW b \in Nat, a <= b, b <= Len(c)
    PROVE  /\ SubSeq(c, a + 1, b) \in Seq(S) /\ Len(SubSeq(c, a + 1, b)) = b - a
           /\ \A i \in 1..b - a : SubSeq(c, a + 1, b)[i] = c[a + i]
  <1> DEFINE a1 == a + 1
  <1>1. a1 \in 1..Len(c) + 1 /\ b \in a1 - 1..Len(c) /\ b - a1 + 1 = b - a
    OBVIOUS
  <1>2. \A i \in 1..b - a : a1 + i - 1 = a + i
    OBVIOUS
  <1> HIDE DEF a1
  <1>3. /\ SubSeq(c, a1, b) \in Seq(S) /\ Len(SubSeq(c, a1, b)) = b - a1 + 1
        /\ \A i \in 1..b - a1 + 1 : SubSeq(c, a1, b)[i] = c[a1 + i - 1]
    BY <1>1, SubSeqProperties
  <1>4. Len(SubSeq(c, a1, b)) = b - a
    BY <1>1, <1>3
  <1>5. \A i \in 1..b - a : SubSeq(c, a1, b)[i] = c[a + i]
    <2> SUFFICES ASSUME NEW i \in 1..b - a PROVE SubSeq(c, a1, b)[i] = c[a + i]
      OBVIOUS
    <2>1. i \in 1..b - a1 + 1 /\ a1 + i - 1 = a + i
      BY <1>1, <1>2
    <2>2. SubSeq(c, a1, b)[i] = c[a1 + i - 1]
      BY <1>3, <2>1
    <2> QED
      BY <2>1, <2>2
  <1> QED
    BY <1>3, <1>4, <1>5 DEF a1

LEMMA StretchesJoin ==
    ASSUME NEW S, NEW c \in Seq(S), NEW a \in Nat, NEW b \in Nat, NEW z \in Nat,
           a <= b, b <= z, z <= Len(c)
    PROVE  SubSeq(c, a + 1, b) \o SubSeq(c, b + 1, z) = SubSeq(c, a + 1, z)
  <1> DEFINE s == SubSeq(c, a + 1, b)
             t == SubSeq(c, b + 1, z)
             w == SubSeq(c, a + 1, z)
  <1>1. /\ s \in Seq(S) /\ Len(s) = b - a /\ \A i \in 1..b - a : s[i] = c[a + i]
        /\ t \in Seq(S) /\ Len(t) = z - b /\ \A i \in 1..z - b : t[i] = c[b + i]
        /\ w \in Seq(S) /\ Len(w) = z - a /\ \A i \in 1..z - a : w[i] = c[a + i]
    BY Stretch
  <1> HIDE DEF s, t, w
  <1>2. /\ s \o t \in Seq(S) /\ Len(s \o t) = z - a
        /\ \A i \in 1..z - a : (s \o t)[i] = IF i <= b - a THEN s[i] ELSE t[i - (b - a)]
    <2>1. /\ s \o t \in Seq(S) /\ Len(s \o t) = Len(s) + Len(t)
          /\ \A i \in 1..Len(s) + Len(t) :
                (s \o t)[i] = IF i <= Len(s) THEN s[i] ELSE t[i - Len(s)]
      BY <1>1, ConcatProperties
    <2>2. Len(s) + Len(t) = z - a /\ Len(s) = b - a
      BY <1>1
    <2> QED
      BY <2>1, <2>2
  <1>3. ASSUME NEW i \in 1..z - a PROVE (s \o t)[i] = w[i]
    <2>1. CASE i <= b - a
      <3>1. (s \o t)[i] = s[i]
        BY <1>2, <2>1
      <3>2. i \in 1..b - a
        BY <2>1
      <3>3. s[i] = c[a + i] /\ w[i] = c[a + i]
        BY <1>1, <3>2
      <3> QED
        BY <3>1, <3>3
    <2>2. CASE ~(i <= b - a)
      <3>1. i - (b - a) \in 1..z - b /\ b + (i - (b - a)) = a + i
        BY <2>2
      <3>2. t[i - (b - a)] = c[b + (i - (b - a))]
        BY <1>1, <3>1
      <3> QED
        BY <1>1, <1>2, <2>2, <3>1, <3>2
    <2> QED
      BY <2>1, <2>2
  <1>4. Len(s \o t) = Len(w) /\ \A i \in 1..Len(w) : (s \o t)[i] = w[i]
    BY <1>1, <1>2, <1>3
  <1>5. s \o t = w
    BY <1>1, <1>2, <1>4, SeqEqual
  <1> QED
    BY <1>5 DEF s, t, w

\* What the buffer holds are the next bytes of the file.
LEMMA DeliveredAreNext ==
    ASSUME NEW file \in FileDescs, Fits(file), NEW T, NEW S, NEW bytes \in Seq(S),
           Sited(T, file, bytes), NEW n \in 0..getCurrentlyAvailableBytes(file)
    PROVE  /\ file.offset + n <= Len(bytes)
           /\ Delivered(file, n) = SubSeq(bytes, file.offset + 1, file.offset + n)
  <1> DEFINE o == file.offset
             s == Delivered(file, n)
  <1>1. /\ s \in Seq(DiskBytes) /\ Len(s) = n /\ n \in Nat
        /\ \A i \in 1..n : s[i] = file.curSector[file.secOffset + i]
    BY DeliveredIs, AvailableIs, Sizes
  <1>2. o \in Nat /\ o <= Len(bytes) /\ Len(bytes) \in Nat
    BY DEF Sited, FileDescs
  <1>3. o + n <= Len(bytes) /\ \A i \in 1..n : s[i] = bytes[o + i]
    <2>1. CASE file.curSectorAvailBytes = 0
      BY <1>2, <2>1, AvailableIs
    <2>2. CASE file.curSectorAvailBytes # 0
      <3>1. PICK p \in Nat : /\ o = p + file.secOffset
                             /\ p + file.curSectorAvailBytes <= Len(bytes)
                             /\ \A i \in 1..file.curSectorAvailBytes :
                                   file.curSector[i] = bytes[p + i]
        BY <2>2 DEF Sited
      <3>2. /\ file.secOffset \in Nat /\ file.curSectorAvailBytes \in Nat
            /\ file.secOffset + n <= file.curSectorAvailBytes
        BY <1>1, <2>2, AvailableIs, Sizes, SMTT(30) DEF FileDescs
      <3>3. ASSUME NEW i \in 1..n PROVE s[i] = bytes[o + i]
        <4>1. file.secOffset + i \in 1..file.curSectorAvailBytes
              /\ p + (file.secOffset + i) = o + i
          BY <1>1, <3>1, <3>2, SMTT(30)
        <4>2. file.curSector[file.secOffset + i] = bytes[p + (file.secOffset + i)]
          BY <3>1, <4>1
        <4> QED
          BY <1>1, <4>1, <4>2
      <3> QED
        BY <1>1, <1>2, <3>1, <3>2, <3>3
    <2> QED
      BY <2>1, <2>2
  <1> HIDE DEF o, s
  <1> DEFINE b == o + n
             t == SubSeq(bytes, o + 1, b)
  <1>4. b \in Nat /\ o <= b /\ b <= Len(bytes) /\ b - o = n
    BY <1>1, <1>2, <1>3
  <1> HIDE DEF b
  <1>5. t \in Seq(S) /\ Len(t) = n /\ \A i \in 1..n : t[i] = bytes[o + i]
    BY <1>2, <1>4, Stretch
  <1> HIDE DEF t
  <1>6. Len(s) = Len(t) /\ \A i \in 1..Len(t) : s[i] = t[i]
    BY <1>1, <1>3, <1>5
  <1>7. s = t
    <2>1. s \in Seq(DiskBytes \cup S) /\ t \in Seq(DiskBytes \cup S)
      BY <1>1, <1>5, SeqMonotonic
    <2> QED
      BY <1>6, <2>1, SeqEqual
  <1> QED
    BY <1>3, <1>7 DEF o, s, t, b

LEMMA SamePlace ==
    ASSUME NEW T, NEW new, NEW file, NEW k, SectorAt(T, file, k),
           new.firstGran = file.firstGran, new.curGran = file.curGran,
           new.curSec = file.curSec
    PROVE  SectorAt(T, new, k)
  BY DEF SectorAt

\* Where a part of what the buffer holds is delivered.
LEMMA AdvanceSited ==
    ASSUME NEW file \in FileDescs, Fits(file), NEW T \in Fats, NEW S, NEW bytes \in Seq(S),
           Sited(T, file, bytes), NEW n \in 1..getCurrentlyAvailableBytes(file)
    PROVE  Sited(T, advanceOffset(file, n), bytes)
  <1> DEFINE new == advanceOffset(file, n)
             o == file.offset
             avail == file.curSectorAvailBytes
  <1>1. /\ n \in Nat /\ avail # 0 /\ avail \in Nat /\ avail <= SectorBytes
        /\ file.secOffset \in Nat /\ file.secOffset + n <= avail
    <2> DEFINE holds == getCurrentlyAvailableBytes(file)
    <2>1. /\ holds \in 0..SectorBytes /\ (avail = 0 => holds = 0)
          /\ (avail # 0 => file.secOffset + holds = avail)
      BY AvailableIs
    <2>2. n \in 1..holds
      OBVIOUS
    <2>3. avail \in 0..SectorBytes /\ file.secOffset \in 0..SectorBytes
      BY DEF FileDescs
    <2> HIDE DEF holds, avail
    <2> QED
      BY <2>1, <2>2, <2>3, Sizes
  <1>2. /\ SameFile(new, file) /\ new.curGran = file.curGran /\ new.curSec = file.curSec
        /\ new.curSector = file.curSector /\ new.offset = o + n
        /\ IF file.secOffset + n >= avail
           THEN new.secOffset = 0 /\ new.curSectorAvailBytes = 0
           ELSE new.secOffset = file.secOffset + n /\ new.curSectorAvailBytes = avail
    BY <1>1, OffsetAdvances
  <1> SUFFICES Sited(T, new, bytes)
    OBVIOUS
  <1> HIDE DEF new
  <1>3. n \in 0..getCurrentlyAvailableBytes(file)
    BY <1>1
  <1>4. o + n <= Len(bytes)
    BY <1>3, DeliveredAreNext
  <1>5. PICK p \in Nat :
           /\ o = p + file.secOffset
           /\ p + avail <= Len(bytes)
           /\ \A i \in 1..avail : file.curSector[i] = bytes[p + i]
           /\ IF file.curGran = EndOfFile THEN p + avail = Len(bytes)
              ELSE /\ avail = SectorBytes
                   /\ \E k \in Nat : SectorAt(T, file, k) /\ p + SectorBytes = k * SectorBytes
    BY <1>1 DEF Sited
  <1>6. CASE file.secOffset + n >= avail
    <2>1. file.secOffset + n = avail /\ o + n = p + avail
      <3>1. o = p + file.secOffset /\ p \in Nat
        BY <1>5
      <3>2. file.secOffset + n = avail
        BY <1>1, <1>6
      <3>3. (p + file.secOffset) + n = p + (file.secOffset + n)
        BY <1>1, <3>1
      <3>4. o + n = (p + file.secOffset) + n
        BY <3>1
      <3> QED
        BY <3>2, <3>3, <3>4
    <2>2. CASE file.curGran = EndOfFile
      <3>1. new.offset = Len(bytes) /\ new.offset <= Len(bytes)
            /\ new.curSectorAvailBytes = 0 /\ new.curGran = EndOfFile
        BY <1>2, <1>4, <1>5, <1>6, <2>1, <2>2
      <3> QED
        BY <3>1 DEF Sited
    <2>3. CASE file.curGran # EndOfFile
      <3>1. PICK k \in Nat : SectorAt(T, file, k) /\ p + SectorBytes = k * SectorBytes
        BY <1>5, <2>3
      <3>2. SectorAt(T, new, k)
        BY <1>2, <3>1, SamePlace DEF SameFile
      <3>3. avail = SectorBytes
        BY <1>5, <2>3
      <3>4. p + SectorBytes \in Nat
        BY Sizes
      <3>5. new.offset = k * SectorBytes + new.secOffset
        BY <1>2, <1>6, <2>1, <3>1, <3>3, <3>4
      <3>6. new.offset <= Len(bytes) /\ new.curSectorAvailBytes = 0
        BY <1>2, <1>4, <1>6
      <3> QED
        BY <1>2, <2>3, <3>2, <3>5, <3>6, Zenon DEF Sited
    <2> QED
      BY <2>2, <2>3
  <1>7. CASE ~(file.secOffset + n >= avail)
    <2>1. /\ new.offset = p + new.secOffset /\ new.curSectorAvailBytes = avail
          /\ new.curSector = file.curSector /\ new.curGran = file.curGran
          /\ new.offset <= Len(bytes)
      BY <1>1, <1>2, <1>4, <1>5, <1>7
    <2>2. \A k : SectorAt(T, file, k) => SectorAt(T, new, k)
      BY <1>2, SamePlace DEF SameFile
    <2>3. IF new.curGran = EndOfFile THEN p + avail = Len(bytes)
          ELSE /\ avail = SectorBytes
               /\ \E k \in Nat : SectorAt(T, new, k) /\ p + SectorBytes = k * SectorBytes
      BY <1>5, <2>1, <2>2
    <2> HIDE DEF avail
    <2> QED
      BY <1>1, <1>5, <2>1, <2>3, ZenonT(40) DEF Sited
  <1> QED
    BY <1>6, <1>7

LEMMA EmptiedSited ==
    ASSUME NEW file \in FileDescs, Fits(file), NEW T \in Fats, Within(T, file),
           NEW S, NEW bytes \in Seq(S), Sited(T, file, bytes)
    PROVE  /\ Sited(T, Emptied(file), bytes)
           /\ file.curGran = EndOfFile => Emptied(file).offset = Len(bytes)
  <1> DEFINE n == getCurrentlyAvailableBytes(file)
  <1>1. n \in 0..SectorBytes /\ n \in Nat
    BY AvailableIs, Sizes
  <1>2. CASE n > 0
    <2>1. Emptied(file) = advanceOffset(file, n)
      BY <1>2 DEF Emptied
    <2>2. n \in 1..n
      BY <1>1, <1>2
    <2>3. Sited(T, advanceOffset(file, n), bytes)
      BY <2>2, AdvanceSited
    <2>4. /\ advanceOffset(file, n).curSectorAvailBytes = 0
          /\ advanceOffset(file, n).curGran = file.curGran
      <3>1. file.secOffset + n >= file.curSectorAvailBytes
        BY <1>1, <1>2, AvailableIs, Sizes, SMTT(30) DEF FileDescs
      <3> HIDE DEF n
      <3> QED
        BY <1>1, <3>1, OffsetAdvances
    <2> HIDE DEF n
    <2> QED
      BY <2>1, <2>3, <2>4 DEF Sited
  <1>3. CASE ~(n > 0)
    <2>1. Emptied(file) = file /\ n = 0
      BY <1>1, <1>3, Sizes DEF Emptied
    <2>2. CASE file.curSectorAvailBytes = 0
      BY <2>1, <2>2 DEF Sited
    <2>3. CASE file.curSectorAvailBytes # 0
      <3>1. file.secOffset = file.curSectorAvailBytes
        BY <2>1, <2>3, AvailableIs, SMTT(30) DEF FileDescs
      <3>2. file.curGran = EndOfFile => file.offset = Len(bytes)
        BY <2>3, <3>1 DEF Sited
      <3> QED
        BY <2>1, <3>2
    <2> QED
      BY <2>2, <2>3
  <1> QED
    BY <1>2, <1>3

\* Where a sector is fetched.
LEMMA FetchSited ==
    ASSUME disk \in [Drives -> DecbDisks], NEW file \in FileDescs,
           NEW e, IsFile(disk[file.drive], e), fatBuffer = disk[file.drive].fat,
           file.firstGran = e.firstGran, file.numBytesLastSector = e.numBytesLastSector,
           file.curGran # EndOfFile, file.curSectorAvailBytes = 0, Within(fatBuffer, file),
           Sited(fatBuffer, file, ContentOf(disk[file.drive], e))
    PROVE  Sited(fatBuffer, WithSector(file), ContentOf(disk[file.drive], e))
  <1> DEFINE d == disk[file.drive]
             T == d.fat
             bytes == ContentOf(d, e)
             new == WithSector(file)
             last == Sectors(T, e.firstGran)
             sector == Sector(d, PlaceToRead(file))
             avail == IF LastSector(T, file) THEN e.numBytesLastSector ELSE SectorBytes
  <1>1. d \in DecbDisks /\ T \in Fats /\ fatBuffer = T
    BY TablesAre DEF FileDescs
  <1>2. /\ new.offset = file.offset /\ new.secOffset = file.secOffset
        /\ new.firstGran = file.firstGran /\ new.curSector = sector
        /\ new.curSectorAvailBytes = avail
        /\ new.curGran = NextSector(T, file)[1] /\ new.curSec = NextSector(T, file)[2]
        /\ new \in FileDescs /\ Fits(new)
    BY <1>1, WithSectorIs DEF SameFile
  <1>3. PICK k \in Nat : SectorAt(T, file, k) /\ file.offset = k * SectorBytes + file.secOffset
    BY <1>1 DEF Sited
  <1>4. /\ LengthOf(d, e) = last * SectorBytes + e.numBytesLastSector
        /\ LengthOf(d, e) \in Nat /\ Len(bytes) = LengthOf(d, e)
    BY <1>1, LengthInSectors, ContentIs
  <1>5. /\ last \in Nat /\ e.numBytesLastSector \in 0..SectorBytes
        /\ k \in 0..last /\ file.secOffset \in Nat
        /\ SectorBytes \in Nat
    <2>1. last \in Nat /\ e.numBytesLastSector \in 0..SectorBytes
      BY <1>1, FileOfDisk
    <2>2. k \in 0..last
      BY <1>3 DEF SectorAt
    <2> QED
      BY <2>1, <2>2, Sizes DEF FileDescs
  <1>6. /\ LastSector(T, file) <=> k = last
        /\ k = last => new.curGran = EndOfFile
        /\ k # last => /\ k + 1 \in 0..last
                       /\ new.curGran = After(T, e.firstGran, (k + 1) \div GranSectors)
                       /\ new.curSec = ((k + 1) % GranSectors) + 1
    BY <1>1, <1>2, <1>3, NextSectorIs
  <1> DEFINE p == k * SectorBytes
             end == last * SectorBytes
  <1>7. p \in Nat /\ end \in Nat /\ (k # last => p + SectorBytes <= end)
        /\ (k + 1) * SectorBytes = p + SectorBytes
    <2>1. \A a, b \in Nat : a * b \in Nat
      BY Z3
    <2>2. \A a, b, c \in Nat : a <= b => a * c <= b * c
      BY Z3
    <2>3. (k + 1) * SectorBytes = p + SectorBytes
      BY <1>5, Z3
    <2>4. k # last => k + 1 <= last /\ k + 1 \in Nat
      BY <1>5
    <2>5. k # last => (k + 1) * SectorBytes <= last * SectorBytes
      BY <1>5, <2>2, <2>4
    <2> QED
      BY <1>5, <2>1, <2>3, <2>5
  <1>8. avail \in 0..SectorBytes /\ p + avail <= Len(bytes)
        /\ (k = last => p + avail = Len(bytes)) /\ (k # last => avail = SectorBytes)
    <2>1. CASE k = last
      BY <1>4, <1>5, <1>6, <2>1, <1>7
    <2>2. CASE k # last
      <3>1. avail = SectorBytes /\ p + SectorBytes <= end
        BY <1>6, <1>7, <2>2
      <3> HIDE DEF p, avail
      <3>2. Len(bytes) = end + e.numBytesLastSector
        BY <1>4
      <3>3. end \in Nat /\ p \in Nat
        BY <1>7
      <3> HIDE DEF end, bytes, last
      <3>4. p + avail <= Len(bytes)
        BY <1>5, <3>1, <3>2, <3>3
      <3> QED
        BY <1>5, <2>2, <3>1, <3>4, Sizes
    <2> QED
      BY <2>1, <2>2
  <1>9. ASSUME NEW i \in 1..avail PROVE sector[i] = bytes[p + i]
    <2>1. i \in 1..SectorBytes /\ p + i <= LengthOf(d, e)
      <3> HIDE DEF p, avail, bytes, last, d
      <3> QED
        BY <1>4, <1>5, <1>7, <1>8, SMTT(30)
    <2> QED
      BY <1>1, <1>3, <2>1, ByteIs
  <1>10. new.offset = p + new.secOffset
    BY <1>2, <1>3
  <1>11. file.offset <= Len(bytes)
    BY DEF Sited
  <1> HIDE DEF p, end, avail, bytes, sector, new, last
  <1>12. CASE avail = 0
    <2>1. k = last
      BY <1>8, <1>12, Sizes
    <2>2. new.curGran = EndOfFile
      BY <1>6, <2>1 DEF last
    <2>3. new.offset = Len(bytes)
      <3>1. Len(bytes) = p
        BY <1>7, <1>8, <1>12, <2>1
      <3>2. file.offset \in Nat /\ new.offset = file.offset
        BY <1>2 DEF FileDescs
      <3> QED
        BY <1>2, <1>5, <1>7, <1>10, <1>11, <3>1, <3>2
    <2> QED
      BY <1>2, <1>11, <1>12, <2>2, <2>3 DEF Sited, bytes, new, avail
  <1>13. CASE avail # 0
    <2>1. CASE k = last
      <3>1. new.curGran = EndOfFile /\ p + avail = Len(bytes)
        BY <1>6, <1>8, <2>1 DEF last
      <3>2. Sited(T, new, bytes)
        BY <1>2, <1>7, <1>8, <1>9, <1>10, <1>11, <1>13, <3>1 DEF Sited
      <3> QED
        BY <1>1, <3>2 DEF new, bytes
    <2>2. CASE k # last
      <3>1. SectorAt(T, new, k + 1) /\ k + 1 \in Nat
        BY <1>2, <1>6, <2>2 DEF SectorAt, last
      <3>2. new.curGran # EndOfFile
        <4>1. new.curGran \in Granules
          BY <1>1, <1>2, <3>1, NextSectorIs
        <4> QED
          BY <4>1 DEF Granules, MAX_NUM_GRANULES, EndOfFile
      <3>3. avail = SectorBytes /\ p + SectorBytes = (k + 1) * SectorBytes
        BY <1>7, <1>8, <2>2
      <3>4. Sited(T, new, bytes)
        BY <1>2, <1>7, <1>8, <1>9, <1>10, <1>11, <1>13, <3>1, <3>2, <3>3 DEF Sited
      <3> QED
        BY <1>1, <3>4 DEF new, bytes
    <2> QED
      BY <2>1, <2>2
  <1> QED
    BY <1>12, <1>13

\* Where a file is placed: at its start, or where seek() goes in it.
LEMMA StartSited ==
    ASSUME NEW d \in DecbDisks, NEW e, IsFile(d, e), NEW file \in FileDescs,
           file.firstGran = e.firstGran
    PROVE  Sited(d.fat, AtStart(file, d.fat), ContentOf(d, e)) /\ AtStart(file, d.fat).offset = 0
  <1> DEFINE T == d.fat
             new == AtStart(file, T)
             len == getGranuleLength(T, file.firstGran, file.numBytesLastSector)
             bytes == ContentOf(d, e)
  <1>1. T \in Fats
    BY TablesAre
  <1>2. new \in FileDescs /\ new.firstGran = e.firstGran
    BY <1>1, AtStartIs
  <1>3. new = [file EXCEPT !.curGran = file.firstGran, !.curSec = 1, !.offset = 0,
                           !.secOffset = 0, !.curGranLen = len, !.curSectorAvailBytes = 0]
    BY DEF AtStart
  <1> HIDE DEF new, len
  <1>4. /\ new.curGran = e.firstGran /\ new.curSec = 1 /\ new.offset = 0
        /\ new.secOffset = 0 /\ new.curSectorAvailBytes = 0
    BY <1>3 DEF FileDescs
  <1>5. SectorAt(T, new, 0)
    <2>1. 0 \in 0..Sectors(T, e.firstGran)
      <3>1. Sectors(T, e.firstGran) \in Nat
        BY FileOfDisk
      <3> QED
        BY <3>1
    <2>2. After(T, e.firstGran, 0) = e.firstGran /\ e.firstGran \in Granules
      <3>1. e.firstGran \in FatBytes /\ e.firstGran \in Granules
        BY EntriesAre DEF FatBytes
      <3> QED
        BY <1>1, <3>1, AfterFollows
    <2>3. 0 \div GranSectors = 0 /\ 0 % GranSectors = 0
      BY InGranules
    <2> QED
      BY <1>2, <1>4, <2>1, <2>2, <2>3 DEF SectorAt
  <1>6. new.curGran # EndOfFile
    BY <1>4, EntriesAre DEF Granules, MAX_NUM_GRANULES, EndOfFile
  <1>7. 0 \in Nat /\ new.offset = 0 * SectorBytes + new.secOffset
    BY <1>4, Sizes
  <1>8. new.offset <= Len(bytes)
    <2>1. Len(bytes) \in Nat
      BY LengthInSectors, ContentIs
    <2> HIDE DEF bytes
    <2> QED
      BY <1>4, <2>1
  <1> HIDE DEF bytes, T
  <1>9. Sited(T, new, bytes)
    BY <1>4, <1>5, <1>6, <1>7, <1>8, Zenon DEF Sited
  <1> QED
    BY <1>4, <1>9 DEF T, new, bytes

LEMMA SeekSited ==
    ASSUME NEW d \in DecbDisks, NEW e, IsFile(d, e), fatBuffer = d.fat,
           NEW file \in FileDescs, file.firstGran = e.firstGran,
           NEW x \in 0..LengthOf(d, e),
           After(d.fat, e.firstGran, x \div GRANULE_SIZE) \in Granules,
           ~Behind(AtPosition(file, x))
    PROVE  Sited(d.fat, AtPosition(file, x), ContentOf(d, e))
  <1> DEFINE T == d.fat
             new == AtPosition(file, x)
             bytes == ContentOf(d, e)
  <1>1. T \in Fats /\ fatBuffer \in Fats
    BY TablesAre
  <1>2. Len(bytes) = LengthOf(d, e) /\ LengthOf(d, e) \in Nat
    BY LengthInSectors, ContentIs
  <1>3. x \in Nat /\ x <= Len(bytes)
    <2> HIDE DEF bytes
    <2> QED
      BY <1>2
  <1>4. /\ new \in FileDescs /\ new.firstGran = e.firstGran /\ new.offset = x
        /\ new.curGran = After(T, e.firstGran, x \div GRANULE_SIZE)
        /\ new.curSec = (x % GRANULE_SIZE) \div SectorBytes + 1
        /\ new.secOffset = (x % GRANULE_SIZE) % SectorBytes
        /\ new.curSectorAvailBytes = 0
    BY <1>1, <1>3, AtPositionIs
  <1>5. new.curGran \in Granules /\ ~Behind(new)
    BY <1>4
  <1> HIDE DEF new
  <1>6. PICK k \in Nat : /\ SectorAt(T, new, k)
                         /\ x = k * SectorBytes + ((x % GRANULE_SIZE) % SectorBytes)
    BY <1>3, <1>4, <1>5, PositionIs
  <1>7. new.offset = k * SectorBytes + new.secOffset /\ SectorAt(T, new, k) /\ k \in Nat
    BY <1>4, <1>6, Zenon
  <1>8. new.curGran # EndOfFile
    BY <1>5 DEF Granules, MAX_NUM_GRANULES, EndOfFile
  <1>9. new.offset <= Len(bytes)
    BY <1>3, <1>4
  <1> HIDE DEF bytes, T
  <1>10. Sited(T, new, bytes)
    BY <1>4, <1>7, <1>8, <1>9, Zenon DEF Sited
  <1> QED
    BY <1>10 DEF T, new, bytes

-----------------------------------------------------------------------------
(* Files: every step keeps the promise.                                    *)

\* A call to read() counts when it returns.
Position(f) == IF pc = "read" /\ job.fd = f THEN job.from ELSE fd[f].offset

Running == pc \in {"program", "read"}

\* The step is one of the promise, for this file, and leaves it where it says.
Kept(f) ==
    Trusted(f)' =>
        /\ Files!Open(f) \/ Files!Read(f) \/ Files!Place(f) \/ Files!Measure(f) \/ Files!Rest(f)
        /\ Sited(fatBuffer, fd[f], content[f])'

LEMMA IsOpen ==
    ASSUME NEW f \in Fds, answer'[f].op = "open", Position(f)' = 0
    PROVE  Files!Open(f)
  BY DEF Files!Open, Position

LEMMA IsPlace ==
    ASSUME NEW f \in Fds, content'[f] = content[f],
           \/ answer'[f].op = "rewind" /\ Position(f)' = 0
           \/ /\ answer'[f].op = "seek"
              /\ Position(f)' = Files!Lower(answer'[f].at, Len(content[f]))
    PROVE  Files!Place(f)
  BY DEF Files!Place, Position

LEMMA IsMeasure ==
    ASSUME NEW f \in Fds, Trusted(f), content'[f] = content[f],
           answer'[f].op = "length", answer'[f].length = Len(content[f]),
           Position(f)' = Position(f)
    PROVE  Files!Measure(f)
  BY DEF Files!Measure, Position

LEMMA IsRest ==
    ASSUME NEW f \in Fds, Trusted(f), content'[f] = content[f],
           answer'[f] = answer[f] \/ answer'[f].op = "none",
           Position(f)' = Position(f)
    PROVE  Files!Rest(f)
  BY DEF Files!Rest, Position

LEMMA IsRead ==
    ASSUME NEW f \in Fds, Trusted(f), content'[f] = content[f],
           NEW n \in Nat, answer'[f].op = "read", answer'[f].asked \in Nat,
           Position(f) \in Nat, n <= answer'[f].asked,
           Position(f) + n <= Len(content[f]), Len(content[f]) \in Nat,
           answer'[f].bytes = SubSeq(content[f], Position(f) + 1, Position(f) + n),
           n < answer'[f].asked => Position(f) + n = Len(content[f]) \/ answer'[f].failed,
           Position(f)' = Position(f) + n
    PROVE  Files!Read(f)
  <1> DEFINE p == Position(f)
             len == Len(content[f])
             got == answer'[f]
  <1>1. p = [h \in Fds |-> IF pc = "read" /\ job.fd = h THEN job.from ELSE fd[h].offset][f]
        /\ Position(f)' = [h \in Fds |-> IF pc = "read" /\ job.fd = h
                                         THEN job.from ELSE fd[h].offset]'[f]
    BY DEF Position
  <1>2. [h \in Fds |-> Trusted(h)][f]
    OBVIOUS
  <1>3. n \in 0..Files!Lower(got.asked, len - p)
    BY DEF Files!Lower
  <1> HIDE DEF p, len
  <1> QED
    BY <1>1, <1>2, <1>3 DEF Files!Read, p, len

\* A file that is trusted, and the file on the disk it stands for.
Stands(f, e) ==
    /\ IsFile(disk[fd[f].drive], e)
    /\ disk[fd[f].drive] \in DecbDisks /\ fatBuffer = disk[fd[f].drive].fat
    /\ fatBuffer \in Fats /\ fd[f] \in FileDescs /\ Fits(fd[f]) /\ Within(fatBuffer, fd[f])
    /\ fd[f].firstGran = e.firstGran /\ fd[f].numBytesLastSector = e.numBytesLastSector
    /\ content[f] = ContentOf(disk[fd[f].drive], e)
    /\ fd[f].length = LengthOf(disk[fd[f].drive], e)
    /\ Len(content[f]) = fd[f].length /\ fd[f].length \in Nat

Bytes(c) == {c[i] : i \in 1..Len(c)}

LEMMA KnownFile ==
    ASSUME FilesInv, Running, NEW f \in Fds, Open(f), doubt[f] # "stale"
    PROVE  \E e : Stands(f, e) /\ content[f] \in Seq(Bytes(content[f]))
  <1> DEFINE d == disk[fd[f].drive]
  <1>1. /\ fd[f] \in FileDescs /\ Fits(fd[f]) /\ disk \in [Drives -> DecbDisks] /\ Opened(f)
    BY DEF FilesInv, FileTypes, Survives, Running
  <1>2. d \in DecbDisks /\ fatUpToDate
    BY <1>1 DEF FileDescs, Opened
  <1>3. fatBuffer = d.fat /\ Within(fatBuffer, fd[f])
    BY <1>1 DEF Opened, Knows
  <1>4. PICK e \in Entries : /\ IsFile(d, e) /\ fd[f].firstGran = e.firstGran
                             /\ fd[f].numBytesLastSector = e.numBytesLastSector
                             /\ content[f] = ContentOf(d, e)
    BY <1>1 DEF Opened, Knows
  <1>5. WalkEnds(fatBuffer, e.firstGran) /\ fatBuffer # Zeros /\ fatBuffer \in Fats
    BY <1>2, <1>3, <1>4, EntriesAre, LengthIs, TablesAre
  <1>6. fd[f].length = LengthOf(d, e)
    <2>1. fd[f].length = computeFileLength(fatBuffer, fd[f].firstGran, fd[f].numBytesLastSector)
      BY <1>1, <1>5 DEF Opened, Knows
    <2> QED
      BY <1>2, <1>3, <1>4, <2>1, LengthOfFile
  <1>7. Len(content[f]) = LengthOf(d, e) /\ LengthOf(d, e) \in Nat
    BY <1>2, <1>4, ContentIs, LengthInSectors
  <1>8. content[f] \in Seq(Bytes(content[f]))
    BY <1>2, <1>4, <1>7, ContentIs DEF Bytes
  <1>9. Stands(f, e)
    BY <1>1, <1>2, <1>3, <1>4, <1>5, <1>6, <1>7 DEF Stands
  <1> QED
    BY <1>8, <1>9

\* Nothing happens to a file.
LEMMA RestKept ==
    ASSUME ContractInv, Running, NEW f \in Fds,
           Trusted(f)' => Trusted(f) /\ fatBuffer' = fatBuffer,
           fd'[f] = fd[f], content'[f] = content[f],
           answer'[f] = answer[f] \/ answer'[f].op = "none",
           Position(f)' = Position(f)
    PROVE  Kept(f)
  <1> SUFFICES ASSUME Trusted(f)'
               PROVE  Files!Rest(f) /\ Sited(fatBuffer', fd'[f], content'[f])
    BY DEF Kept
  <1>1. Sited(fatBuffer, fd[f], content[f])
    BY DEF ContractInv, Delivering, Running
  <1> QED
    BY <1>1, IsRest

\* A call on one file is nothing to the others.
LEMMA OthersKept ==
    ASSUME ContractInv, Running, NEW f, fatBuffer' = fatBuffer,
           \A h \in Fds : h # f => /\ fd'[h] = fd[h] /\ content'[h] = content[h]
                                   /\ doubt'[h] = doubt[h] /\ answer'[h] = answer[h],
           pc = "read" => job.fd = f, pc' = "read" => job'.fd = f
    PROVE  \A h \in Fds : h # f => Kept(h)
  <1> SUFFICES ASSUME NEW h \in Fds, h # f PROVE Kept(h)
    OBVIOUS
  <1>1. Position(h)' = Position(h)
    BY DEF Position
  <1>2. Trusted(h)' => Trusted(h)
    BY DEF Trusted
  <1> QED
    BY <1>1, <1>2, RestKept

AllKept == \A f \in Fds : Kept(f)

\* A placed file is where its new descriptor says.
LEMMA KeptInitdisk == ASSUME ContractInv, initdisk(Zeros) PROVE AllKept
  <1>1. /\ pc = "program" /\ pc' = pc /\ fd' = fd /\ job' = job /\ content' = content
        /\ answer' = answer /\ fatBuffer' = Zeros
        /\ doubt' = [f \in Fds |-> IF Open(f) /\ Zeros # disk[fd[f].drive].fat
                                   THEN "stale" ELSE doubt[f]]
    BY DEF initdisk
  <1> SUFFICES ASSUME NEW f \in Fds PROVE Kept(f)
    BY DEF AllKept
  <1>2. Trusted(f)' => Trusted(f) /\ fatBuffer' = fatBuffer
    <2> SUFFICES ASSUME Trusted(f)' PROVE Trusted(f) /\ fatBuffer' = fatBuffer
      OBVIOUS
    <2>1. doubt'[f] = "none"
      BY DEF Trusted
    <2>2. doubt[f] = "none" /\ ~(Open(f) /\ Zeros # disk[fd[f].drive].fat)
      BY <1>1, <2>1
    <2>3. Open(f) /\ Running
      BY <1>1, <2>2 DEF Open, Running
    <2>4. fatBuffer = disk[fd[f].drive].fat
      <3>1. PICK e : Stands(f, e)
        BY <2>2, <2>3, KnownFile DEF ContractInv
      <3> QED
        BY <3>1 DEF Stands
    <2> QED
      BY <1>1, <2>2, <2>3, <2>4 DEF Trusted
  <1>3. Position(f)' = Position(f)
    BY <1>1 DEF Position
  <1> QED
    BY <1>1, <1>2, <1>3, RestKept DEF Running

\* No file is trusted any more.
LEMMA KeptDrop == ASSUME dropFAT PROVE AllKept
  BY DEF dropFAT, AllKept, Kept, Trusted

LEMMA KeptChangeDisk ==
    ASSUME ContractInv, NEW drive \in Drives, NEW d \in DecbDisks, ChangeDisk(drive, d)
    PROVE  AllKept
  <1>1. /\ Running /\ pc' = pc /\ fd' = fd /\ job' = job /\ content' = content
        /\ answer' = answer /\ fatBuffer' = fatBuffer
        /\ doubt' = [f \in Fds |-> IF Open(f) /\ fd[f].drive = drive THEN "stale" ELSE doubt[f]]
    BY DEF ChangeDisk, decb, Running
  <1> SUFFICES ASSUME NEW f \in Fds PROVE Kept(f)
    BY DEF AllKept
  <1>2. Trusted(f)' => Trusted(f)
    BY <1>1 DEF Trusted
  <1>3. Position(f)' = Position(f)
    BY <1>1 DEF Position
  <1> QED
    BY <1>1, <1>2, <1>3, RestKept

LEMMA KeptStay ==
    ASSUME ContractInv, Running,
           UNCHANGED <<fatBuffer, fd, content, doubt, answer, pc, job>>
    PROVE  AllKept
  <1> SUFFICES ASSUME NEW f \in Fds PROVE Kept(f)
    BY DEF AllKept
  <1>1. (Trusted(f)' => Trusted(f)) /\ Position(f)' = Position(f)
    BY DEF Trusted, Position
  <1> QED
    BY <1>1, RestKept

LEMMA KeptOpenfile ==
    ASSUME ContractInv, NEW f \in Fds, NEW filename \in Filenames, openfile(f, filename)
    PROVE  AllKept
  <1> DEFINE d == disk[curDriveNo]
             name == normalizeFilename(filename)
             entry == findDirEntry(d, name)
             table == Cached(curDriveNo)
             len == computeFileLength(table, entry.firstGran, entry.numBytesLastSector)
             opened == [fd[f] EXCEPT !.drive = curDriveNo, !.firstGran = entry.firstGran,
                                     !.numBytesLastSector = entry.numBytesLastSector,
                                     !.length = len]
             new == AtStart(opened, table)
  <1>1. /\ pc = "program" /\ Running /\ Named(d, name) # {}
        /\ fatBuffer' = table
        /\ doubt' = [doubt EXCEPT ![f] = Stale(d, table)]
        /\ \/ /\ pc' = "hung" /\ fd' = fd /\ content' = content /\ answer' = answer
              /\ ~WalkEnds(table, entry.firstGran)
           \/ /\ pc' = pc /\ fd' = [fd EXCEPT ![f] = new]
              /\ content' = [content EXCEPT ![f] = ContentOf(d, entry)]
              /\ answer' = [answer EXCEPT ![f] = [op |-> "open"]]
              /\ WalkEnds(table, entry.firstGran)
    BY DEF openfile, updateFAT, Running
  <1>2. /\ curDriveNo \in Drives /\ d \in DecbDisks
        /\ fd \in [Fds -> FileDescs] /\ doubt \in [Fds -> Doubts] /\ DOMAIN content = Fds
        /\ DOMAIN answer = Fds /\ \A h \in Fds : Opened(h)
    BY <1>1 DEF ContractInv, FilesInv, FileTypes, Survives, Delivering
  <1>3. IsFile(d, entry)
    <2>1. PICK p \in Named(d, name) : entry = EntryAt(d, p)
      <3> HIDE DEF d, name
      <3>1. PICK p \in Named(d, name) : FirstNamed(d, name) = EntryAt(d, p)
        BY <1>1, HasFirst
      <3> QED
        BY <3>1 DEF findDirEntry
    <2>2. p[1] \in 1..DirSectors /\ p[2] \in 1..DirEntries /\ entry.kind = "file"
          /\ entry = d.dir[p[1]][p[2]]
      BY <2>1 DEF Named, Slots, EntryAt
    <2> QED
      BY <2>2 DEF IsFile
  <1>4. ASSUME NEW h \in Fds, h # f PROVE Kept(h)
    <2>1. /\ fd'[h] = fd[h] /\ content'[h] = content[h] /\ answer'[h] = answer[h]
          /\ doubt'[h] = doubt[h]
      <3> HIDE DEF d, table, new, entry
      <3> QED
        BY <1>1, <1>2, <1>4
    <2>2. Trusted(h)' => Trusted(h) /\ fatBuffer' = fatBuffer
      <3> SUFFICES ASSUME Trusted(h)' PROVE Trusted(h) /\ fatBuffer' = fatBuffer
        OBVIOUS
      <3>1. doubt[h] = "none"
        BY <2>1 DEF Trusted
      <3>2. fatUpToDate
        BY <1>2, <3>1 DEF Opened, Open
      <3> QED
        BY <1>1, <3>1, <3>2 DEF Trusted, Cached
    <2>3. Position(h)' = Position(h)
      <3>1. pc # "read" /\ pc' # "read"
        BY <1>1
      <3> QED
        BY <2>1, <3>1 DEF Position
    <2> QED
      BY <1>1, <2>1, <2>2, <2>3, RestKept
  <1>5. Kept(f)
    <2> SUFFICES ASSUME Trusted(f)'
                 PROVE  Files!Open(f) /\ Sited(fatBuffer', fd'[f], content'[f])
      BY DEF Kept
    <2>1. table = d.fat
      <3>1. doubt'[f] = Stale(d, table)
        BY <1>1, <1>2
      <3> QED
        BY <3>1 DEF Stale, Trusted
    <2>2. /\ entry.firstGran \in Granules /\ entry.numBytesLastSector \in 0..SectorBytes
          /\ WalkEnds(d.fat, entry.firstGran)
      BY <1>2, <1>3, EntriesAre
    <2>3. /\ pc' = "program" /\ fd' = [fd EXCEPT ![f] = new]
          /\ content' = [content EXCEPT ![f] = ContentOf(d, entry)]
          /\ answer' = [answer EXCEPT ![f] = [op |-> "open"]]
      BY <1>1, <2>1, <2>2
    <2>4. len \in Nat
      BY <1>2, <2>1, <2>2, LengthIs, TablesAre
    <2> HIDE DEF len
    <2>5. opened \in FileDescs /\ opened.firstGran = entry.firstGran
      <3> HIDE DEF d, name, entry, table
      <3>1. /\ fd[f] \in FileDescs /\ curDriveNo \in Drives /\ len \in Nat
            /\ entry.firstGran \in Granules /\ entry.numBytesLastSector \in 0..SectorBytes
        BY <1>2, <2>2, <2>4
      <3>2. opened \in FileDescs
        BY <3>1 DEF FileDescs
      <3> QED
        BY <3>1, <3>2 DEF FileDescs
    <2> HIDE DEF opened
    <2>6. Sited(d.fat, new, ContentOf(d, entry)) /\ new.offset = 0
      <3> HIDE DEF entry, d
      <3> QED
        BY <1>2, <1>3, <2>1, <2>5, StartSited
    <2> HIDE DEF new
    <2>7. fd'[f] = new /\ content'[f] = ContentOf(d, entry) /\ answer'[f] = [op |-> "open"]
      BY <1>2, <2>3
    <2>8. answer'[f].op = "open" /\ Position(f)' = 0
      BY <2>3, <2>6, <2>7 DEF Position
    <2> QED
      BY <1>1, <2>1, <2>6, <2>7, <2>8, IsOpen
  <1> QED
    BY <1>4, <1>5 DEF AllKept

LEMMA KeptRewind ==
    ASSUME ContractInv, NEW f \in Fds, rewind(f)
    PROVE  AllKept
  <1> DEFINE new == AtStart(fd[f], fatBuffer)
  <1>1. /\ pc = "program" /\ Running /\ Open(f) /\ fd' = [fd EXCEPT ![f] = new]
        /\ doubt' = Placed(f) /\ pc' = pc /\ job' = job
        /\ answer' = [answer EXCEPT ![f] = [op |-> "rewind"]]
        /\ fatBuffer' = fatBuffer /\ content' = content
    BY DEF rewind, decb, Running
  <1>2. /\ fd \in [Fds -> FileDescs] /\ doubt \in [Fds -> Doubts] /\ DOMAIN answer = Fds
    BY DEF ContractInv, FilesInv, FileTypes, Delivering
  <1> HIDE DEF new
  <1>3. \A h \in Fds : h # f => Kept(h)
    <2>1. \A h \in Fds : h # f => /\ fd'[h] = fd[h] /\ content'[h] = content[h]
                                  /\ doubt'[h] = doubt[h] /\ answer'[h] = answer[h]
      BY <1>1, <1>2 DEF Placed
    <2> QED
      BY <1>1, <2>1, OthersKept
  <1>4. Kept(f)
    <2> SUFFICES ASSUME Trusted(f)'
                 PROVE  Files!Place(f) /\ Sited(fatBuffer', fd'[f], content'[f])
      BY DEF Kept
    <2>1. doubt[f] # "stale"
      BY <1>1, <1>2 DEF Trusted, Placed
    <2>2. PICK e : Stands(f, e)
      BY <1>1, <2>1, KnownFile DEF ContractInv
    <2>3. Sited(fatBuffer, new, content[f]) /\ new.offset = 0
      BY <2>2, StartSited DEF Stands, new
    <2>4. fd'[f] = new /\ answer'[f] = [op |-> "rewind"] /\ content'[f] = content[f]
      BY <1>1, <1>2
    <2>5. answer'[f].op = "rewind" /\ Position(f)' = 0
      BY <1>1, <2>3, <2>4 DEF Position
    <2> QED
      BY <1>1, <2>3, <2>4, <2>5, IsPlace
  <1> QED
    BY <1>3, <1>4 DEF AllKept

LEMMA KeptGetLength ==
    ASSUME ContractInv, NEW f \in Fds, getFileLength(f)
    PROVE  AllKept
  <1> DEFINE len == computeFileLength(fatBuffer, fd[f].firstGran, fd[f].numBytesLastSector)
  <1>1. /\ pc = "program" /\ Running /\ Open(f) /\ fd' = fd /\ job' = job
        /\ fatBuffer' = fatBuffer /\ content' = content /\ doubt' = doubt
        /\ \/ pc' = "hung" /\ answer' = answer
           \/ /\ WalkEnds(fatBuffer, fd[f].firstGran) /\ pc' = pc
              /\ answer' = [answer EXCEPT ![f] = [op |-> "length", length |-> len]]
    BY DEF getFileLength, decb, Running
  <1>2. DOMAIN answer = Fds
    BY DEF ContractInv, Delivering
  <1> HIDE DEF len
  <1>3. \A h \in Fds : h # f => Kept(h)
    <2>1. \A h \in Fds : h # f => /\ fd'[h] = fd[h] /\ content'[h] = content[h]
                                  /\ doubt'[h] = doubt[h] /\ answer'[h] = answer[h]
      BY <1>1, <1>2
    <2> QED
      BY <1>1, <2>1, OthersKept
  <1>4. Position(f)' = Position(f)
    BY <1>1 DEF Position
  <1>5. Kept(f)
    <2>1. CASE answer' = answer
      BY <1>1, <1>4, <2>1, RestKept DEF Trusted
    <2>2. CASE answer' = [answer EXCEPT ![f] = [op |-> "length", length |-> len]]
      <3> SUFFICES ASSUME Trusted(f)'
                   PROVE  Files!Measure(f) /\ Sited(fatBuffer', fd'[f], content'[f])
        BY DEF Kept
      <3>1. Trusted(f) /\ doubt[f] # "stale"
        BY <1>1 DEF Trusted
      <3>2. PICK e : Stands(f, e)
        BY <1>1, <3>1, KnownFile DEF ContractInv
      <3>3. len = Len(content[f])
        BY <3>2, LengthOfFile DEF Stands, len
      <3>4. answer'[f] = [op |-> "length", length |-> len]
        BY <1>2, <2>2
      <3>5. answer'[f].op = "length" /\ answer'[f].length = len
        BY <3>4
      <3>6. Files!Measure(f)
        BY <1>1, <1>4, <3>1, <3>3, <3>5, IsMeasure
      <3>7. Sited(fatBuffer, fd[f], content[f])
        BY <1>1, <3>1 DEF ContractInv, Delivering
      <3> QED
        BY <1>1, <3>6, <3>7
    <2> QED
      BY <1>1, <2>1, <2>2
  <1> QED
    BY <1>3, <1>5 DEF AllKept

LEMMA KeptSeek ==
    ASSUME ContractInv, NEW f \in Fds, NEW newPos \in SeekTo, seek(f, newPos)
    PROVE  AllKept
  <1> DEFINE to == Clamped(fd[f], newPos)
             gran == After(fatBuffer, fd[f].firstGran, to \div GRANULE_SIZE)
             new == AtPosition(fd[f], to)
             lost == IF doubt[f] # "stale" /\ Filled(fd[f]) /\ to = fd[f].length
                     THEN "behind" ELSE doubt[f]
             settled == IF doubt[f] = "stale" THEN doubt[f] ELSE
                      IF Behind(new) THEN "behind" ELSE "none"
  <1>1. /\ pc = "program" /\ Running /\ Open(f) /\ job' = job
        /\ fatBuffer' = fatBuffer /\ content' = content
        /\ IF gran \notin Granules
           THEN /\ pc' = "aborted" /\ fd' = fd /\ answer' = answer
                /\ doubt' = [doubt EXCEPT ![f] = lost]
           ELSE /\ pc' = pc /\ fd' = [fd EXCEPT ![f] = new]
                /\ answer' = [answer EXCEPT ![f] = [op |-> "seek", at |-> newPos]]
                /\ doubt' = [doubt EXCEPT ![f] = settled]
    BY DEF seek, decb, Running
  <1>2. /\ fd \in [Fds -> FileDescs] /\ doubt \in [Fds -> Doubts] /\ DOMAIN answer = Fds
    BY DEF ContractInv, FilesInv, FileTypes, Delivering
  <1>3. \A h \in Fds : h # f => Kept(h)
    <2> HIDE DEF new, lost, settled, gran
    <2>1. \A h \in Fds : h # f => /\ fd'[h] = fd[h] /\ content'[h] = content[h]
                                  /\ doubt'[h] = doubt[h] /\ answer'[h] = answer[h]
      BY <1>1, <1>2
    <2> QED
      BY <1>1, <2>1, OthersKept
  <1>4. Kept(f)
    <2> SUFFICES ASSUME Trusted(f)'
                 PROVE  Files!Place(f) /\ Sited(fatBuffer', fd'[f], content'[f])
      BY DEF Kept
    <2>1. gran \in Granules
      <3> SUFFICES ASSUME gran \notin Granules PROVE FALSE
        OBVIOUS
      <3>1. pc' = "aborted" /\ doubt' = [doubt EXCEPT ![f] = lost]
        BY <1>1
      <3>2. FilesInv /\ seek(f, newPos)
        BY DEF ContractInv
      <3>3. FilesInv'
        BY <3>2, FilesSeek
      <3>4. lost = "none"
        BY <1>2, <3>1 DEF Trusted
      <3>5. PICK e : Stands(f, e)
        BY <1>1, <3>2, <3>4, KnownFile
      <3>6. newPos \in Nat /\ fd[f].length \in Nat
        BY <3>5, DecbFileAssumption DEF Stands
      <3>7. to \in 0..fd[f].length
        BY <3>6 DEF Clamped
      <3>8. to \in 0..LengthOf(disk[fd[f].drive], e)
            /\ After(disk[fd[f].drive].fat, e.firstGran, to \div GRANULE_SIZE) \notin Granules
        BY <3>5, <3>7 DEF Stands
      <3> HIDE DEF to
      <3>9. to = LengthOf(disk[fd[f].drive], e) /\ to > 0 /\ to % GRANULE_SIZE = 0
        BY <3>5, <3>8, NoGranuleAtEnd DEF Stands
      <3>10. Filled(fd[f]) /\ to = fd[f].length
        BY <3>5, <3>9 DEF Stands, Filled
      <3> QED
        BY <3>4, <3>10
    <2>2. /\ pc' = "program" /\ fd'[f] = new /\ doubt'[f] = settled
          /\ answer'[f] = [op |-> "seek", at |-> newPos] /\ content'[f] = content[f]
      <3> HIDE DEF new, settled, gran
      <3> QED
        BY <1>1, <1>2, <2>1
    <2>3. doubt[f] # "stale" /\ ~Behind(new)
      BY <2>2 DEF Trusted
    <2>4. PICK e : Stands(f, e)
      BY <1>1, <2>3, KnownFile DEF ContractInv
    <2>5. newPos \in Nat /\ fd[f].length \in Nat
      BY <2>4, DecbFileAssumption DEF Stands
    <2>6. to \in 0..fd[f].length /\ to \in Nat
          /\ to = Files!Lower(newPos, fd[f].length)
      BY <2>5 DEF Clamped, Files!Lower
    <2> HIDE DEF to
    <2>7. new.offset = to
      BY <2>1, <2>4, <2>6, AtPositionIs DEF Stands
    <2>8. Sited(fatBuffer, new, content[f])
      BY <2>1, <2>3, <2>4, <2>6, SeekSited DEF Stands
    <2> HIDE DEF new
    <2>9. answer'[f].op = "seek" /\ answer'[f].at = newPos
      BY <2>2
    <2>10. Position(f)' = Files!Lower(newPos, Len(content[f]))
      BY <2>2, <2>4, <2>6, <2>7 DEF Position, Stands
    <2>11. Files!Place(f)
      BY <2>2, <2>9, <2>10, IsPlace
    <2> QED
      BY <1>1, <2>2, <2>8, <2>11
  <1> QED
    BY <1>3, <1>4 DEF AllKept

LEMMA KeptRead ==
    ASSUME ContractInv, NEW f \in Fds, NEW n \in ReadSizes, read(f, n)
    PROVE  AllKept /\ (Trusted(f)' => Gathered(fd[f], content[f])') /\ job'.fd = f
  <1>1. /\ pc = "program" /\ Running /\ Open(f) /\ pc' = "read" /\ fd' = fd
        /\ content' = content /\ doubt' = doubt /\ fatBuffer' = fatBuffer
        /\ job' = [fd |-> f, left |-> n, bytes |-> <<>>, from |-> fd[f].offset, asked |-> n]
        /\ answer' = [answer EXCEPT ![f] = NoAnswer]
    BY DEF read, decb, Running
  <1>2. DOMAIN answer = Fds /\ n \in Nat /\ fd[f].offset \in Nat
    BY DecbFileAssumption DEF ContractInv, Delivering, FilesInv, FileTypes, FileDescs
  <1>3. job'.fd = f /\ job'.from = fd[f].offset /\ job'.bytes = <<>>
        /\ job'.asked = n /\ job'.left = n
    BY <1>1
  <1>4. \A h \in Fds : h # f => Kept(h)
    <2>1. \A h \in Fds : h # f => /\ fd'[h] = fd[h] /\ content'[h] = content[h]
                                  /\ doubt'[h] = doubt[h] /\ answer'[h] = answer[h]
      BY <1>1, <1>2
    <2> QED
      BY <1>1, <1>3, <2>1, OthersKept
  <1>5. Kept(f)
    <2>1. answer'[f].op = "none"
      <3>1. answer'[f] = NoAnswer
        BY <1>1, <1>2
      <3> QED
        BY <3>1 DEF NoAnswer
    <2>2. Position(f)' = Position(f)
      BY <1>1, <1>3 DEF Position
    <2>3. Trusted(f)' => Trusted(f)
      BY <1>1 DEF Trusted
    <2> QED
      BY <1>1, <2>1, <2>2, <2>3, RestKept
  <1>6. ASSUME Trusted(f)' PROVE Gathered(fd[f], content[f])'
    <2> DEFINE o == fd[f].offset
    <2>1. doubt[f] # "stale"
      BY <1>1, <1>6 DEF Trusted
    <2>2. content[f] \in Seq(Bytes(content[f]))
      BY <1>1, <2>1, KnownFile DEF ContractInv
    <2>3. SubSeq(content[f], o + 1, o) = <<>>
      BY <1>2, <2>2
    <2>4. o \in 0..o /\ n = n + (o - o)
      BY <1>2
    <2> QED
      BY <1>1, <1>3, <2>3, <2>4 DEF Gathered
  <1> QED
    BY <1>3, <1>4, <1>5, <1>6 DEF AllKept

\* What read() has gathered, and what the sector buffer adds to it.
LEMMA GathersNext ==
    ASSUME ContractInv, pc = "read", NEW f \in Fds, job.fd = f, Trusted(f),
           NEW n \in 0..getCurrentlyAvailableBytes(fd[f])
    PROVE  LET all == job.bytes \o Delivered(fd[f], n)
           IN  /\ Gathered(fd[f], content[f])
               /\ Sited(fatBuffer, fd[f], content[f])
               /\ job.from \in Nat /\ job.left \in Nat /\ job.left # 0 /\ job.asked \in Nat
               /\ fd[f].offset \in Nat /\ job.from <= fd[f].offset /\ n \in Nat
               /\ fd[f].offset + n <= Len(content[f]) /\ Len(content[f]) \in Nat
               /\ all = SubSeq(content[f], job.from + 1, fd[f].offset + n)
               /\ \E e : Stands(f, e) /\ content[f] \in Seq(Bytes(content[f]))
  <1> DEFINE file == fd[f]
             c == content[f]
             o == file.offset
  <1>1. /\ Running /\ job \in Jobs /\ job.left # 0 /\ Open(f) /\ doubt[f] # "stale"
    BY DEF ContractInv, FilesInv, FileTypes, Running, Open, Jobs, Trusted
  <1>2. Gathered(file, c) /\ Sited(fatBuffer, file, c)
    BY <1>1 DEF ContractInv, Delivering
  <1>3. PICK e : Stands(f, e) /\ c \in Seq(Bytes(c))
    BY <1>1, KnownFile DEF ContractInv
  <1>4. file \in FileDescs /\ Fits(file)
    BY <1>3 DEF Stands
  <1>5. job.left \in Nat /\ job.asked \in Nat /\ job.from \in Nat /\ o \in Nat
    BY <1>1, <1>4 DEF Jobs, FileDescs
  <1>6. job.from <= o
    BY <1>2, <1>5 DEF Gathered
  <1>7. n \in Nat
    BY <1>4, AvailableIs, Sizes
  <1>8. o + n <= Len(c) /\ Delivered(file, n) = SubSeq(c, o + 1, o + n)
    BY <1>2, <1>3, <1>4, DeliveredAreNext
  <1>9. Len(c) \in Nat
    BY <1>3
  <1>10. job.bytes = SubSeq(c, job.from + 1, o)
    BY <1>2 DEF Gathered
  <1> DEFINE z == o + n
             from == job.from
  <1> HIDE DEF c, file, o, from
  <1>11. /\ from \in Nat /\ o \in Nat /\ from <= o
         /\ z \in Nat /\ o <= z /\ z <= Len(c)
    <2>1. from \in Nat /\ o \in Nat /\ from <= o
      BY <1>5, <1>6 DEF from
    <2>2. o + n <= Len(c)
      BY <1>8
    <2> QED
      BY <1>7, <1>9, <2>1, <2>2
  <1> HIDE DEF z
  <1>12. SubSeq(c, from + 1, o) \o SubSeq(c, o + 1, z) = SubSeq(c, from + 1, z)
    <2>1. c \in Seq(Bytes(c))
      BY <1>3
    <2> QED
      BY <1>11, <2>1, StretchesJoin
  <1>13. job.bytes \o Delivered(file, n) = SubSeq(c, job.from + 1, z)
    BY <1>8, <1>10, <1>12 DEF z, from
  <1> QED
    BY <1>1, <1>2, <1>3, <1>5, <1>6, <1>7, <1>8, <1>9, <1>13 DEF file, c, o, z

\* A read that returns.
LEMMA KeptReturn ==
    ASSUME ContractInv, NEW f \in Fds, job.fd = f,
           NEW n \in 0..getCurrentlyAvailableBytes(fd[f]), NEW new, NEW failed,
           pc = "read", Return(job.bytes \o Delivered(fd[f], n), failed),
           fd' = [fd EXCEPT ![f] = new], new.offset = fd[f].offset + n,
           UNCHANGED <<decb, content, doubt>>,
           n <= job.left,
           n < job.left => new.offset = Len(content[f]) \/ failed = TRUE \/ ~Trusted(f),
           Trusted(f) => Sited(fatBuffer, new, content[f])
    PROVE  AllKept
  <1> DEFINE c == content[f]
             o == fd[f].offset
             bytes == job.bytes \o Delivered(fd[f], n)
             got == [op |-> "read", asked |-> job.asked, bytes |-> bytes, failed |-> failed]
  <1>1. /\ Running /\ pc' = "program" /\ fatBuffer' = fatBuffer /\ content' = content
        /\ doubt' = doubt /\ answer' = [answer EXCEPT ![f] = got]
    BY DEF Return, decb, Running
  <1>2. /\ fd \in [Fds -> FileDescs] /\ DOMAIN answer = Fds
    BY DEF ContractInv, FilesInv, FileTypes, Delivering
  <1> HIDE DEF got
  <1>3. fd'[f] = new /\ answer'[f] = got
    BY <1>1, <1>2
  <1>4. \A h \in Fds : h # f => Kept(h)
    <2>1. \A h \in Fds : h # f => /\ fd'[h] = fd[h] /\ content'[h] = content[h]
                                  /\ doubt'[h] = doubt[h] /\ answer'[h] = answer[h]
      BY <1>1, <1>2
    <2> QED
      BY <1>1, <2>1, OthersKept
  <1>5. Kept(f)
    <2> SUFFICES ASSUME Trusted(f)'
                 PROVE  Files!Read(f) /\ Sited(fatBuffer', fd'[f], content'[f])
      BY DEF Kept
    <2>1. Trusted(f)
      BY <1>1 DEF Trusted
    <2>2. /\ Gathered(fd[f], c) /\ job.from \in Nat /\ job.left \in Nat /\ job.asked \in Nat
          /\ o \in Nat /\ job.from <= o /\ n \in Nat
          /\ o + n <= Len(c) /\ Len(c) \in Nat
          /\ bytes = SubSeq(c, job.from + 1, o + n)
      BY <2>1, GathersNext
    <2>3. job.asked = job.left + (o - job.from)
      BY <2>2 DEF Gathered
    <2> DEFINE all == (o - job.from) + n
    <2>4. /\ all \in Nat /\ job.from + all = o + n /\ all <= job.asked
          /\ all < job.asked => n < job.left
      <3> DEFINE from == job.from
                 left == job.left
                 asked == job.asked
      <3>1. /\ from \in Nat /\ left \in Nat /\ asked \in Nat /\ o \in Nat /\ n \in Nat
            /\ from <= o /\ asked = left + (o - from) /\ n <= left
        BY <2>2, <2>3
      <3> HIDE DEF from, left, asked, o
      <3>2. LET a == (o - from) + n
            IN  a \in Nat /\ from + a = o + n /\ a <= asked /\ (a < asked => n < left)
        BY <3>1
      <3> QED
        BY <3>2 DEF from, left, asked
    <2>5. all < job.asked => o + n = Len(c) \/ failed = TRUE
      BY <2>1, <2>4
    <2>6. Position(f) = job.from /\ Position(f)' = o + n
      BY <1>1, <1>3 DEF Position
    <2> HIDE DEF all, o, bytes
    <2>7. /\ Position(f) \in Nat /\ Position(f) + all <= Len(c)
          /\ bytes = SubSeq(c, Position(f) + 1, Position(f) + all)
          /\ all < job.asked => Position(f) + all = Len(c) \/ failed = TRUE
          /\ Position(f)' = Position(f) + all
      BY <2>2, <2>4, <2>5, <2>6
    <2>8. /\ answer'[f].op = "read" /\ answer'[f].asked = job.asked
          /\ answer'[f].bytes = bytes /\ answer'[f].failed = failed
      <3>1. /\ got.op = "read" /\ got.asked = job.asked
            /\ got.bytes = bytes /\ got.failed = failed
        BY DEF got, bytes
      <3> QED
        BY <1>3, <3>1
    <2>9. c' = c
      BY <1>1
    <2>10. Files!Read(f)
      <3>1. /\ answer'[f].asked \in Nat /\ all \in Nat /\ all <= answer'[f].asked
            /\ Len(c) \in Nat /\ content'[f] = content[f]
        BY <2>2, <2>4, <2>8, <2>9
      <3>2. all < answer'[f].asked => Position(f) + all = Len(c) \/ answer'[f].failed
        BY <2>7, <2>8
      <3>3. answer'[f].bytes = SubSeq(c, Position(f) + 1, Position(f) + all)
        BY <2>7, <2>8
      <3> QED
        BY <2>1, <2>7, <2>8, <3>1, <3>2, <3>3, IsRead
    <2> QED
      BY <1>1, <1>3, <2>1, <2>10
  <1> QED
    BY <1>4, <1>5 DEF AllKept

LEMMA KeptReadReturns ==
    ASSUME ContractInv, NEW f \in Fds, job.fd = f, ReadFills \/ ReadEnds \/ ReadFails
    PROVE  AllKept
  <1> DEFINE file == fd[f]
             avail == getCurrentlyAvailableBytes(file)
  <1>1. pc = "read"
    BY DEF ReadFills, ReadEnds, ReadFails, ReadGoesOn
  <1>2. /\ job \in Jobs /\ job.left # 0 /\ file \in FileDescs /\ Fits(file)
        /\ Open(f) /\ Opened(f)
    BY <1>1 DEF ContractInv, FilesInv, FileTypes, Survives, Jobs, Open
  <1>3. fatBuffer \in Fats /\ Within(fatBuffer, file)
    BY <1>2, TableIs DEF ContractInv, FilesInv, FileTypes, Opened
  <1>4. avail \in 0..SectorBytes /\ avail \in Nat /\ job.left \in Nat
    BY <1>2, AvailableIs, Sizes DEF Jobs
  <1>5. Trusted(f) => /\ Sited(fatBuffer, file, content[f])
                      /\ content[f] \in Seq(Bytes(content[f]))
    <2>1. Running
      BY <1>1 DEF Running
    <2> QED
      BY <1>1, <1>2, <2>1, KnownFile DEF ContractInv, Delivering, Trusted
  <1>6. CASE ReadFills
    <2> DEFINE new == advanceOffset(file, job.left)
               n == job.left
    <2>1. /\ n <= avail /\ Return(job.bytes \o Delivered(file, n), FALSE)
          /\ fd' = [fd EXCEPT ![f] = new] /\ UNCHANGED <<decb, content, doubt>>
      BY <1>6 DEF ReadFills
    <2>0. n \in 0..avail /\ n \in 1..avail
      <3> HIDE DEF avail
      <3> QED
        BY <1>2, <1>4, <2>1
    <2>2. new.offset = file.offset + n
      BY <1>2, <1>3, <1>4, OffsetAdvances
    <2>3. Trusted(f) => Sited(fatBuffer, new, content[f])
      BY <1>2, <1>3, <1>5, <2>0, AdvanceSited
    <2>4. n <= job.left /\ ~(n < job.left)
      BY <1>4
    <2> HIDE DEF new
    <2> QED
      BY <1>1, <2>0, <2>1, <2>2, <2>3, <2>4, KeptReturn
  <1>7. ASSUME NEW failed, ReadGoesOn, fd' = [fd EXCEPT ![f] = Emptied(file)],
               Return(Collected, failed), UNCHANGED <<decb, content, doubt>>,
               Emptied(file).curGran = EndOfFile \/ failed = TRUE
        PROVE  AllKept
    <2> DEFINE new == Emptied(file)
    <2>1. new.offset = file.offset + avail /\ new.curGran = file.curGran
      BY <1>2, <1>3, EmptiedIs
    <2>2. Trusted(f) => /\ Sited(fatBuffer, new, content[f])
                        /\ file.curGran = EndOfFile => new.offset = Len(content[f])
      BY <1>2, <1>3, <1>5, EmptiedSited
    <2>3. avail \in 0..avail /\ avail <= job.left
      BY <1>4, <1>7 DEF ReadGoesOn
    <2>4. Return(job.bytes \o Delivered(file, avail), failed)
      BY <1>7 DEF Collected
    <2>5. avail < job.left => new.offset = Len(content[f]) \/ failed = TRUE \/ ~Trusted(f)
      BY <1>7, <2>1, <2>2
    <2> HIDE DEF new, avail
    <2>6. fd' = [fd EXCEPT ![f] = new]
      BY <1>7 DEF new
    <2> QED
      BY <1>1, <1>7, <2>1, <2>2, <2>3, <2>4, <2>5, <2>6, KeptReturn DEF avail
  <1>8. CASE ReadEnds
    BY <1>7, <1>8 DEF ReadEnds
  <1>9. CASE ReadFails
    BY <1>7, <1>9 DEF ReadFails
  <1> QED
    BY <1>6, <1>8, <1>9

LEMMA KeptReadFetches ==
    ASSUME ContractInv, NEW f \in Fds, job.fd = f, ReadFetches
    PROVE  AllKept /\ (Trusted(f)' => Gathered(fd[f], content[f])') /\ job'.fd = f
  <1> DEFINE file == fd[f]
             avail == getCurrentlyAvailableBytes(file)
             emptied == Emptied(file)
             new == WithSector(emptied)
  <1>1. /\ pc = "read" /\ pc' = "read" /\ Running /\ avail \in 0..job.left - 1
        /\ emptied.curGran # EndOfFile /\ fd' = [fd EXCEPT ![f] = new]
        /\ job' = [job EXCEPT !.left = job.left - avail, !.bytes = Collected]
        /\ fatBuffer' = fatBuffer /\ content' = content /\ doubt' = doubt /\ answer' = answer
    BY DEF ReadFetches, ReadGoesOn, ghosts, decb, Running
  <1>2. /\ job \in Jobs /\ file \in FileDescs /\ Fits(file)
        /\ Open(f) /\ Opened(f) /\ disk \in [Drives -> DecbDisks] /\ fd \in [Fds -> FileDescs]
    BY <1>1 DEF ContractInv, FilesInv, FileTypes, Survives, Jobs, Open
  <1>3. fatBuffer \in Fats /\ Within(fatBuffer, file)
    BY <1>2, TableIs DEF ContractInv, FilesInv, FileTypes, Opened
  <1>4. job'.fd = f /\ job'.from = job.from /\ job'.asked = job.asked
        /\ job'.left = job.left - avail /\ job'.bytes = Collected
    BY <1>1, <1>2 DEF Jobs
  <1>5. /\ emptied \in FileDescs /\ Fits(emptied) /\ Within(fatBuffer, emptied)
        /\ SameFile(emptied, file) /\ emptied.curSectorAvailBytes = 0
        /\ emptied.offset = file.offset + avail
    BY <1>1, <1>2, <1>3, EmptiedIs
  <1> HIDE DEF emptied
  <1>6. new.offset = emptied.offset
    BY <1>1, <1>2, <1>3, <1>5, WithSectorIs
  <1>7. fd'[f] = new /\ (Trusted(f)' <=> Trusted(f)) /\ content'[f] = content[f]
    BY <1>1, <1>2 DEF Trusted
  <1> HIDE DEF new
  <1>8. \A h \in Fds : h # f => Kept(h)
    <2>1. \A h \in Fds : h # f => /\ fd'[h] = fd[h] /\ content'[h] = content[h]
                                  /\ doubt'[h] = doubt[h] /\ answer'[h] = answer[h]
      BY <1>1, <1>2
    <2> QED
      BY <1>1, <1>4, <2>1, OthersKept
  <1>9. ASSUME Trusted(f)
        PROVE  Files!Rest(f) /\ Sited(fatBuffer, new, content[f]) /\ Gathered(fd[f], content[f])'
    <2>1. avail \in 0..avail
      BY <1>2, AvailableIs
    <2>2. /\ Gathered(file, content[f]) /\ Sited(fatBuffer, file, content[f])
          /\ job.from \in Nat /\ job.left \in Nat /\ job.asked \in Nat
          /\ file.offset \in Nat /\ job.from <= file.offset /\ avail \in Nat
          /\ Collected = SubSeq(content[f], job.from + 1, file.offset + avail)
          /\ \E e : Stands(f, e) /\ content[f] \in Seq(Bytes(content[f]))
      BY <1>1, <1>9, <2>1, GathersNext DEF Collected
    <2>3. PICK e : Stands(f, e) /\ content[f] \in Seq(Bytes(content[f]))
      BY <2>2
    <2>4. Sited(fatBuffer, emptied, content[f])
      BY <1>2, <1>3, <2>2, <2>3, EmptiedSited DEF emptied
    <2>5. Sited(fatBuffer, new, content[f])
      <3>1. /\ emptied.drive = file.drive /\ emptied.firstGran = e.firstGran
            /\ emptied.numBytesLastSector = e.numBytesLastSector
        BY <1>5, <2>3 DEF SameFile, Stands
      <3> QED
        BY <1>1, <1>2, <1>5, <2>3, <2>4, <3>1, FetchSited DEF Stands, new
    <2>6. Position(f)' = Position(f)
      BY <1>1, <1>4 DEF Position
    <2>7. Files!Rest(f)
      BY <1>1, <1>2, <1>7, <1>9, <2>6, IsRest
    <2>8. Gathered(fd[f], content[f])'
      <3>1. job.asked = job.left + (file.offset - job.from)
        BY <2>2 DEF Gathered
      <3>2. new.offset = file.offset + avail
        BY <1>5, <1>6
      <3> DEFINE from == job.from
                 left == job.left
                 asked == job.asked
                 o == file.offset
      <3>5. /\ from \in Nat /\ left \in Nat /\ asked \in Nat /\ o \in Nat /\ avail \in Nat
            /\ from <= o /\ asked = left + (o - from)
        BY <2>2, <3>1
      <3> HIDE DEF from, left, asked, o, avail, file
      <3>6. from \in 0..(o + avail) /\ asked = (left - avail) + ((o + avail) - from)
        BY <3>5
      <3>3. /\ job.from \in 0..new.offset
            /\ job.asked = (job.left - avail) + (new.offset - job.from)
        BY <3>2, <3>6 DEF from, left, asked, o
      <3>4. fd'[f].offset = new.offset
        BY <1>7
      <3> QED
        BY <1>4, <1>7, <2>2, <3>2, <3>3, <3>4 DEF Gathered
    <2> QED
      BY <2>5, <2>7, <2>8
  <1>10. Kept(f)
    BY <1>1, <1>7, <1>9 DEF Kept
  <1>11. Trusted(f)' => Gathered(fd[f], content[f])'
    BY <1>7, <1>9
  <1> QED
    BY <1>4, <1>8, <1>10, <1>11 DEF AllKept

LEMMA ContractInit == Init => ContractInv /\ Files!Init
  <1> SUFFICES ASSUME Init PROVE ContractInv /\ Files!Init
    OBVIOUS
  <1>1. \A f \in Fds : ~Trusted(f)
    BY DEF Init, Trusted
  <1>2. Delivering
    BY <1>1 DEF Init, Delivering
  <1> QED
    BY <1>1, <1>2, FilesInit DEF ContractInv, Files!Init

\* What is kept of each file is kept of all of them.
LEMMA AllKeptIs ==
    ASSUME FilesInv', AllKept, DOMAIN answer' = Fds,
           pc' = "read" /\ Trusted(job.fd)' => Gathered(fd[job.fd], content[job.fd])'
    PROVE  ContractInv' /\ Files!Next
  <1>1. \A f \in Fds : Trusted(f)' => Sited(fatBuffer, fd[f], content[f])'
    BY DEF AllKept, Kept
  <1>2. Delivering'
    BY <1>1 DEF Delivering
  <1>3. Files!Next
    <2> SUFFICES ASSUME NEW f \in Fds, [h \in Fds |-> Trusted(h)]'[f]
                 PROVE  Files!Open(f) \/ Files!Read(f) \/ Files!Place(f)
                        \/ Files!Measure(f) \/ Files!Rest(f)
      BY DEF Files!Next
    <2>1. Trusted(f)'
      OBVIOUS
    <2> QED
      BY <2>1 DEF AllKept, Kept
  <1> QED
    BY <1>2, <1>3 DEF ContractInv

LEMMA ContractNext == ContractInv /\ [Next]_vars => ContractInv' /\ [Files!Next]_Files!vars
  <1> SUFFICES ASSUME ContractInv, [Next]_vars
               PROVE  ContractInv' /\ [Files!Next]_Files!vars
    OBVIOUS
  <1>1. FilesInv'
    BY FilesNext DEF ContractInv
  <1>2. DOMAIN answer = Fds
    BY DEF ContractInv, Delivering
  <1>3. CASE UNCHANGED vars
    <2>1. UNCHANGED <<fatBuffer, fd, content, doubt, answer, pc, job>>
      BY <1>3 DEF vars, decb, ghosts
    <2>2. Delivering'
      BY <2>1 DEF ContractInv, Delivering, Trusted, Gathered
    <2>3. UNCHANGED Files!vars
      BY <2>1 DEF Files!vars, Trusted
    <2> QED
      BY <1>1, <2>2, <2>3 DEF ContractInv
  <1>4. ASSUME AllKept, DOMAIN answer' = Fds, pc' # "read" PROVE Files!Next /\ ContractInv'
    BY <1>1, <1>4, AllKeptIs
  <1>5. ASSUME initdisk(Zeros) PROVE Files!Next /\ ContractInv'
    BY <1>2, <1>4, <1>5, KeptInitdisk DEF initdisk
  <1>15. ASSUME dropFAT PROVE Files!Next /\ ContractInv'
    <2>1. DOMAIN answer' = Fds /\ pc' # "read"
      BY <1>15 DEF dropFAT
    <2> QED
      BY <1>4, <1>15, <2>1, KeptDrop
  <1>6. ASSUME NEW no \in Drives, setDefaultDriveNo(no) PROVE Files!Next /\ ContractInv'
    <2>1. Running /\ pc' # "read" /\ UNCHANGED <<fatBuffer, fd, content, doubt, answer, pc, job>>
      BY <1>6 DEF setDefaultDriveNo, ghosts, Running
    <2> QED
      BY <1>2, <1>4, <2>1, KeptStay
  <1>7. ASSUME NEW f \in Fds, NEW filename \in Filenames, openfile(f, filename)
        PROVE  Files!Next /\ ContractInv'
    <2>1. DOMAIN answer' = Fds /\ pc' # "read"
      BY <1>2, <1>7 DEF openfile
    <2> QED
      BY <1>4, <1>7, <2>1, KeptOpenfile
  <1>8. ASSUME NEW f \in Fds, rewind(f) PROVE Files!Next /\ ContractInv'
    <2>1. DOMAIN answer' = Fds /\ pc' # "read"
      BY <1>2, <1>8 DEF rewind
    <2> QED
      BY <1>4, <1>8, <2>1, KeptRewind
  <1>9. ASSUME NEW f \in Fds, getFileLength(f) PROVE Files!Next /\ ContractInv'
    <2>1. DOMAIN answer' = Fds /\ pc' # "read"
      BY <1>2, <1>9 DEF getFileLength
    <2> QED
      BY <1>4, <1>9, <2>1, KeptGetLength
  <1>10. ASSUME NEW f \in Fds, NEW newPos \in SeekTo, seek(f, newPos)
         PROVE  Files!Next /\ ContractInv'
    <2>1. DOMAIN answer' = Fds /\ pc' # "read"
      BY <1>2, <1>10 DEF seek
    <2> QED
      BY <1>4, <1>10, <2>1, KeptSeek
  <1>11. ASSUME NEW f \in Fds, NEW n \in ReadSizes, read(f, n) PROVE Files!Next /\ ContractInv'
    <2>1. DOMAIN answer' = Fds
      BY <1>2, <1>11 DEF read
    <2>2. AllKept /\ job'.fd = f /\ (Trusted(f)' => Gathered(fd[f], content[f])')
      BY <1>11, KeptRead
    <2>3. Trusted(job.fd)' => Gathered(fd[job.fd], content[job.fd])'
      BY <2>2 DEF Trusted, Gathered
    <2> QED
      BY <1>1, <2>1, <2>2, <2>3, AllKeptIs
  <1>12. CASE ReadStep
    <2>1. pc = "read"
      BY <1>12 DEF ReadStep, ReadFills, ReadEnds, ReadFails, ReadFetches, ReadGoesOn
    <2>2. PICK f \in Fds : job.fd = f
      BY <2>1 DEF ContractInv, FilesInv, FileTypes, Jobs
    <2>3. CASE ReadFills \/ ReadEnds \/ ReadFails
      <3>1. DOMAIN answer' = Fds /\ pc' # "read"
        BY <1>2, <2>3 DEF ReadFills, ReadEnds, ReadFails, Return
      <3> QED
        BY <1>4, <2>2, <2>3, <3>1, KeptReadReturns
    <2>4. CASE ReadFetches
      <3>1. DOMAIN answer' = Fds
        BY <1>2, <2>4 DEF ReadFetches, ghosts
      <3>2. AllKept /\ job'.fd = f /\ (Trusted(f)' => Gathered(fd[f], content[f])')
        BY <2>2, <2>4, KeptReadFetches
      <3>3. Trusted(job.fd)' => Gathered(fd[job.fd], content[job.fd])'
        BY <3>2 DEF Trusted, Gathered
      <3> QED
        BY <1>1, <3>1, <3>2, <3>3, AllKeptIs
    <2> QED
      BY <1>12, <2>3, <2>4 DEF ReadStep
  <1>13. ASSUME NEW drive \in Drives, NEW d \in DecbDisks, ChangeDisk(drive, d)
         PROVE  Files!Next /\ ContractInv'
    <2>1. /\ DOMAIN answer' = Fds /\ pc' = pc /\ job' = job /\ fd' = fd /\ content' = content
          /\ doubt' = [f \in Fds |-> IF Open(f) /\ fd[f].drive = drive
                                     THEN "stale" ELSE doubt[f]]
      BY <1>2, <1>13 DEF ChangeDisk
    <2>2. pc' = "read" /\ Trusted(job.fd)' => Gathered(fd[job.fd], content[job.fd])'
      <3> SUFFICES ASSUME pc = "read", doubt'[job.fd] = "none"
                   PROVE  Gathered(fd[job.fd], content[job.fd])'
        BY <2>1 DEF Trusted
      <3>1. job.fd \in Fds
        BY DEF ContractInv, FilesInv, FileTypes, Jobs
      <3>2. Trusted(job.fd)
        BY <2>1, <3>1 DEF Trusted
      <3>3. Gathered(fd[job.fd], content[job.fd])
        BY <3>2 DEF ContractInv, Delivering
      <3> QED
        BY <2>1, <3>3 DEF Gathered
    <2> QED
      BY <1>1, <1>13, <2>1, <2>2, KeptChangeDisk, AllKeptIs
  <1>14. CASE Call
    BY <1>5, <1>6, <1>7, <1>8, <1>9, <1>10, <1>11, <1>14, <1>15 DEF Call
  <1> QED
    BY <1>3, <1>12, <1>13, <1>14 DEF Next

\* The library implements the promise of a file open for reading: reads deliver
\* its bytes in order from the position, short only at the end or where the disk
\* fails, and a failed read loses nothing; seek() and rewind() place it, and the
\* length is right, as long as the table in memory is that of its disk.
THEOREM KeepsThePromise == Spec => FileContract
  <1>1. Init => ContractInv /\ Files!Init
    BY ContractInit
  <1>2. ContractInv /\ [Next]_vars => ContractInv' /\ [Files!Next]_Files!vars
    BY ContractNext
  <1> QED
    BY <1>1, <1>2, PTL DEF Spec, FileContract, Files!Spec

-----------------------------------------------------------------------------
(* The library.                                                            *)

\* A program uses one of them, and the others stay as they are.
LEMMA OneIsUsed ==
    [LibraryNext]_library =>
        [Next]_vars /\ [HeapNext]_heapVars /\ [SortNext]_sortVars /\ [TokensNext]_tokenVars
  <1> SUFFICES ASSUME [LibraryNext]_library
               PROVE  /\ [Next]_vars /\ [HeapNext]_heapVars
                      /\ [SortNext]_sortVars /\ [TokensNext]_tokenVars
    OBVIOUS
  <1>1. CASE UsesFiles
    BY <1>1, Zenon DEF UsesFiles
  <1>2. CASE UsesHeap
    BY <1>2, Zenon DEF UsesHeap
  <1>3. CASE UsesSorting
    BY <1>3, Zenon DEF UsesSorting
  <1>4. CASE UsesTokens
    BY <1>4, Zenon DEF UsesTokens
  <1>5. CASE UNCHANGED library
    BY <1>5, Zenon DEF library
  <1> QED
    BY <1>1, <1>2, <1>3, <1>4, <1>5, Zenon DEF LibraryNext

\* What a program makes of the library is what it would make of each part of it
\* alone: what is proved of the files, of the heap, of qsort and bsearch and of
\* strtok holds of a program that uses the library.
THEOREM PartsOfTheLibrary == LibrarySpec => Spec /\ HeapSpec /\ SortSpec /\ TokensSpec
  <1>1. LibraryInit => Init /\ HeapInit /\ SortInit /\ TokensInit
    BY Zenon DEF LibraryInit
  <1> QED
    BY <1>1, OneIsUsed, PTL DEF LibrarySpec, Spec, HeapSpec, SortSpec, TokensSpec

\* What is in memory, in a descriptor and in the heap's variables are what their
\* types say, whatever is called and whatever disks are put in (disk.c,
\* os9-sbrk.c, os9-sbrkmax.c).
THEOREM LibraryTypeCorrect == LibrarySpec => []LibraryTypeOK
  <1>1. TypeOK /\ HeapTypeOK => LibraryTypeOK
    BY Zenon DEF LibraryTypeOK
  <1> QED
    BY <1>1, PartsOfTheLibrary, FilesTypeCorrect, HeapTypeCorrect, PTL
=============================================================================
