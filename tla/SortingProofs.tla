---------------------------- MODULE SortingProofs ----------------------------
(***************************************************************************)
(* qsort() and bsearch(), for arrays of any size and any integer keys.     *)
(*                                                                         *)
(* The frames are a chain of parts of the array: each sorts the part the   *)
(* one below waits for, and what it does there keeps the array parted at   *)
(* the pivots of all those below (WaitingKept).  A frame that is left has  *)
(* sorted its part (Popped), so that the array is sorted when the last is. *)
(* Of bsearch(): what it has put aside is below the key, or above it.      *)
(***************************************************************************)
EXTENDS Sorting, FiniteSetTheorems, SequenceTheorems, TLAPS

-----------------------------------------------------------------------------
(* Sorting: the invariant.                                                 *)

Items == [key : Int, tag : Nat]
FrameTypes == [l : Nat, h : Nat, at : {"enter", "partition", "left", "done"},
               i : Int, j : Nat, p : Nat]

Ordered(a, l, h) == \A x, y \in l..h : x < y => a[x].key <= a[y].key

\* The part of a frame that is being sorted in the frame above it.
PartLow(frame) == IF frame.at = "left" THEN frame.l ELSE frame.p + 1
PartHigh(frame) == IF frame.at = "left" THEN frame.p - 1 ELSE frame.h

\* Elements that are not above the last go to the front, up to i; those from
\* there to j are not below it.
Sifted(a, frame) ==
    /\ frame.i \in frame.l - 1..frame.j - 1 /\ frame.j \in frame.l..frame.h
    /\ \A x \in frame.l..frame.i : a[x].key <= a[frame.h].key
    /\ \A x \in frame.i + 1..frame.j - 1 : a[frame.h].key <= a[x].key

\* The pivot is in its place.
Parted(a, frame) ==
    /\ frame.p \in frame.l..frame.h
    /\ \A x \in frame.l..frame.p - 1 : a[x].key <= a[frame.p].key
    /\ \A x \in frame.p + 1..frame.h : a[frame.p].key <= a[x].key

FrameOK(a, N, frame) ==
    /\ frame \in FrameTypes
    /\ frame.h < N /\ frame.l <= frame.h + 1
    /\ frame.at = "enter" => frame.i = frame.l - 1 /\ frame.j = frame.l
    /\ frame.at # "enter" => frame.l < frame.h
    /\ frame.at = "partition" => Sifted(a, frame)
    /\ frame.at \in {"left", "done"} => Parted(a, frame)
    /\ frame.at = "done" => Ordered(a, frame.l, frame.p - 1)

Waits(frame, inner) ==
    /\ frame.at \in {"left", "done"}
    /\ PartLow(frame) <= inner.l /\ inner.h <= PartHigh(frame)

\* Each frame sorts the part of the one below that it waits for, and is at least
\* one element smaller.
StackOK(a, N, fs) ==
    /\ fs \in Seq(FrameTypes)
    /\ \A n \in 1..Len(fs) : FrameOK(a, N, fs[n])
    /\ \A n \in 1..Len(fs) : (fs[n].h - fs[n].l) + n <= N
    /\ \A m, n \in 1..Len(fs) : m < n => Waits(fs[m], fs[n])
    /\ \A n \in 1..Len(fs) - 1 : fs[n + 1].l = PartLow(fs[n]) /\ fs[n + 1].h = PartHigh(fs[n])
    /\ fs # <<>> => fs[1].l = 0 /\ fs[1].h = N - 1

\* The part the top frame waited for is sorted; without a frame, the array is.
TopOK(a, N, fs) ==
    /\ fs = <<>> => Ordered(a, 0, N - 1)
    /\ fs # <<>> =>
          /\ fs[Len(fs)].at = "left" => Ordered(a, fs[Len(fs)].l, fs[Len(fs)].p - 1)
          /\ fs[Len(fs)].at = "done" => Ordered(a, fs[Len(fs)].p + 1, fs[Len(fs)].h)

Searches == [state : {"no", "search", "found", "absent"}, key : Int, base : Nat, nmemb : Nat]

\* What is sought is in what is left to search, if it is in the array at all.
SearchOK(a, N, search) ==
    /\ search \in Searches
    /\ search.state = "search" =>
          /\ search.base + search.nmemb <= N
          /\ \A x \in 0..search.base - 1 : a[x].key < search.key
          /\ \A x \in search.base + search.nmemb..N - 1 : a[x].key > search.key
    /\ search.state = "found" => search.base < N /\ a[search.base].key = search.key
    /\ search.state = "absent" => \A x \in 0..N - 1 : a[x].key # search.key

Holds(a, g) == \A x \in DOMAIN g : \E y \in DOMAIN a : a[y] = g[x]

SortInv ==
    LET N == Elements(array)
    IN  /\ N \in Nat /\ array \in [0..N - 1 -> Items]
        /\ DOMAIN given = DOMAIN array /\ Holds(array, given)
        /\ StackOK(array, N, frames) /\ TopOK(array, N, frames)
        /\ SearchOK(array, N, found)
        /\ frames # <<>> => found.state = "no"

-----------------------------------------------------------------------------
(* Sorting: swaps.                                                         *)

LEMMA SwapIs ==
    ASSUME NEW N \in Nat, NEW a \in [0..N - 1 -> Items],
           NEW x \in 0..N - 1, NEW y \in 0..N - 1
    PROVE  LET b == qsort_swap(a, x, y)
           IN  /\ b \in [0..N - 1 -> Items] /\ b[x] = a[y] /\ b[y] = a[x]
               /\ \A z \in 0..N - 1 : z # x /\ z # y => b[z] = a[z]
               /\ \A g : Holds(a, g) => Holds(b, g)
  <1> DEFINE b == qsort_swap(a, x, y)
  <1>1. b = [[a EXCEPT ![x] = a[y]] EXCEPT ![y] = a[x]]
    BY DEF qsort_swap
  <1>2. /\ b \in [0..N - 1 -> Items] /\ b[x] = a[y] /\ b[y] = a[x]
        /\ \A z \in 0..N - 1 : z # x /\ z # y => b[z] = a[z]
    BY <1>1
  <1> HIDE DEF b
  <1>3. \A z \in 0..N - 1 : \E w \in 0..N - 1 : b[w] = a[z]
    BY <1>2
  <1>4. \A g : Holds(a, g) => Holds(b, g)
    <2> SUFFICES ASSUME NEW g, Holds(a, g), NEW z \in DOMAIN g
                 PROVE  \E w \in DOMAIN b : b[w] = g[z]
      BY DEF Holds
    <2>1. PICK w \in 0..N - 1 : a[w] = g[z]
      BY DEF Holds
    <2> QED
      BY <1>2, <1>3, <2>1
  <1> QED
    BY <1>2, <1>4 DEF b

\* Two arrays that differ by a swap of elements lo to hi, if at all.
Shuffled(a, b, N, lo, hi) ==
    /\ b \in [0..N - 1 -> Items]
    /\ \A z \in 0..N - 1 : z \notin lo..hi => b[z] = a[z]
    /\ \A z \in 0..N - 1 : z \in lo..hi => \E w \in lo..hi : w \in 0..N - 1 /\ b[z] = a[w]

LEMMA SwapMoves ==
    ASSUME NEW N \in Nat, NEW a \in [0..N - 1 -> Items],
           NEW x \in 0..N - 1, NEW y \in 0..N - 1
    PROVE  /\ qsort_swap(a, x, y)[x] = a[y] /\ qsort_swap(a, x, y)[y] = a[x]
           /\ \A z \in 0..N - 1 : z # x /\ z # y => qsort_swap(a, x, y)[z] = a[z]
  BY SwapIs

LEMMA SwapShuffles ==
    ASSUME NEW N \in Nat, NEW a \in [0..N - 1 -> Items], NEW lo \in Int, NEW hi \in Int,
           NEW x \in 0..N - 1, NEW y \in 0..N - 1, x \in lo..hi, y \in lo..hi
    PROVE  Shuffled(a, qsort_swap(a, x, y), N, lo, hi)
  <1> DEFINE b == qsort_swap(a, x, y)
  <1>1. /\ b \in [0..N - 1 -> Items] /\ b[x] = a[y] /\ b[y] = a[x]
        /\ \A z \in 0..N - 1 : z # x /\ z # y => b[z] = a[z]
    BY SwapIs
  <1> HIDE DEF b
  <1>2. Shuffled(a, b, N, lo, hi)
    BY <1>1 DEF Shuffled
  <1> QED
    BY <1>2 DEF b

LEMMA SameShuffles ==
    ASSUME NEW N \in Nat, NEW a \in [0..N - 1 -> Items], NEW lo \in Int, NEW hi \in Int
    PROVE  Shuffled(a, a, N, lo, hi)
  BY DEF Shuffled

\* A frame that waits is not disturbed by what is done in the part it waits for.
LEMMA WaitingKept ==
    ASSUME NEW N \in Nat, NEW a \in [0..N - 1 -> Items], NEW b, NEW lo \in Int, NEW hi \in Int,
           Shuffled(a, b, N, lo, hi), NEW frame, FrameOK(a, N, frame),
           frame.at \in {"left", "done"}, PartLow(frame) <= lo, hi <= PartHigh(frame)
    PROVE  FrameOK(b, N, frame)
  <1> DEFINE l == frame.l
             h == frame.h
             p == frame.p
  <1>1. /\ frame \in FrameTypes /\ l \in Nat /\ h \in Nat /\ p \in Nat
        /\ h < N /\ l < h /\ p \in l..h
    BY DEF FrameOK, FrameTypes, Parted
  <1>2. /\ \A x \in l..p - 1 : a[x].key <= a[p].key
        /\ \A x \in p + 1..h : a[p].key <= a[x].key
    BY DEF FrameOK, Parted
  <1>3. /\ \A z \in 0..N - 1 : z \notin lo..hi => b[z] = a[z]
        /\ \A z \in 0..N - 1 : z \in lo..hi => \E w \in lo..hi : w \in 0..N - 1 /\ b[z] = a[w]
    BY DEF Shuffled
  <1>4. CASE frame.at = "left"
    <2>1. l <= lo /\ hi <= p - 1
      BY <1>4 DEF PartLow, PartHigh
    <2>2. b[p] = a[p]
      BY <1>1, <1>3, <2>1
    <2>3. ASSUME NEW x \in l..p - 1 PROVE b[x].key <= b[p].key
      <3>1. x \in 0..N - 1
        BY <1>1
      <3>2. \E w \in l..p - 1 : b[x] = a[w]
        <4>1. CASE x \in lo..hi
          <5>1. PICK w \in lo..hi : b[x] = a[w]
            BY <1>3, <3>1, <4>1
          <5>2. w \in l..p - 1
            BY <1>1, <2>1
          <5> QED
            BY <5>1, <5>2
        <4>2. CASE x \notin lo..hi
          BY <1>3, <3>1, <4>2
        <4> QED
          BY <4>1, <4>2
      <3> QED
        BY <1>2, <2>2, <3>2
    <2>4. \A x \in p + 1..h : b[p].key <= b[x].key
      BY <1>1, <1>2, <1>3, <2>1, <2>2
    <2> QED
      BY <1>1, <1>4, <2>3, <2>4 DEF FrameOK, Parted
  <1>5. CASE frame.at = "done"
    <2>1. p + 1 <= lo /\ hi <= h
      BY <1>5 DEF PartLow, PartHigh
    <2>2. \A z \in l..p : z \in 0..N - 1 /\ b[z] = a[z]
      BY <1>1, <1>3, <2>1
    <2>3. ASSUME NEW x \in p + 1..h PROVE b[p].key <= b[x].key
      <3>1. x \in 0..N - 1
        BY <1>1
      <3>2. \E w \in p + 1..h : b[x] = a[w]
        <4>1. CASE x \in lo..hi
          <5>1. PICK w \in lo..hi : b[x] = a[w]
            BY <1>3, <3>1, <4>1
          <5>2. w \in p + 1..h
            BY <1>1, <2>1
          <5> QED
            BY <5>1, <5>2
        <4>2. CASE x \notin lo..hi
          BY <1>3, <3>1, <4>2
        <4> QED
          BY <4>1, <4>2
      <3> QED
        BY <1>1, <1>2, <2>2, <3>2
    <2>4. \A x \in l..p - 1 : b[x].key <= b[p].key
      BY <1>1, <1>2, <2>2, SMTT(30)
    <2>5. Ordered(b, l, p - 1)
      <3>1. Ordered(a, l, p - 1)
        BY <1>5 DEF FrameOK
      <3>2. \A z \in l..p - 1 : b[z] = a[z]
        BY <1>1, <2>2
      <3> QED
        BY <3>1, <3>2 DEF Ordered
    <2> QED
      BY <1>1, <1>5, <2>3, <2>4, <2>5 DEF FrameOK, Parted
  <1> QED
    BY <1>4, <1>5

-----------------------------------------------------------------------------
(* Sorting: the stack.                                                     *)

\* The top frame goes on, in its part of the array.
LEMMA Replaced ==
    ASSUME NEW N \in Nat, NEW a \in [0..N - 1 -> Items], NEW b, NEW fs, fs # <<>>,
           StackOK(a, N, fs), Shuffled(a, b, N, fs[Len(fs)].l, fs[Len(fs)].h),
           NEW new, FrameOK(b, N, new), new.l = fs[Len(fs)].l, new.h = fs[Len(fs)].h
    PROVE  LET gs == [fs EXCEPT ![Len(fs)] = new]
           IN  StackOK(b, N, gs) /\ Len(gs) = Len(fs) /\ gs[Len(gs)] = new /\ gs # <<>>
  <1> DEFINE gs == [fs EXCEPT ![Len(fs)] = new]
             k == Len(fs)
  <1>1. fs \in Seq(FrameTypes) /\ k \in Nat /\ k >= 1 /\ new \in FrameTypes
    BY DEF StackOK, FrameOK
  <1>2. /\ gs \in Seq(FrameTypes) /\ Len(gs) = k /\ gs[k] = new
        /\ \A n \in 1..k : n # k => gs[n] = fs[n]
    BY <1>1
  <1> HIDE DEF gs
  <1>3. /\ \A n \in 1..k : gs[n].l = fs[n].l /\ gs[n].h = fs[n].h
        /\ gs # <<>>
    BY <1>1, <1>2
  <1>4. ASSUME NEW n \in 1..k PROVE FrameOK(b, N, gs[n])
    <2>1. CASE n = k
      BY <1>2, <2>1
    <2>2. CASE n # k
      <3>1. k \in 1..k /\ n < k
        BY <1>1, <2>2
      <3>2. Waits(fs[n], fs[k]) /\ FrameOK(a, N, fs[n]) /\ fs[k] \in FrameTypes
        BY <1>1, <3>1 DEF StackOK
      <3>3. fs[k].l \in Int /\ fs[k].h \in Int
        BY <3>2 DEF FrameTypes
      <3>4. FrameOK(b, N, fs[n])
        BY <3>2, <3>3, WaitingKept DEF Waits
      <3> QED
        BY <1>2, <2>2, <3>4
    <2> QED
      BY <2>1, <2>2
  <1>5. \A n \in 1..k : (gs[n].h - gs[n].l) + n <= N
    BY <1>3 DEF StackOK
  <1>6. ASSUME NEW m \in 1..k, NEW n \in 1..k, m < n PROVE Waits(gs[m], gs[n])
    <2>1. Waits(fs[m], fs[n])
      BY <1>6 DEF StackOK
    <2>2. gs[m] = fs[m] /\ gs[n].l = fs[n].l /\ gs[n].h = fs[n].h
      BY <1>1, <1>2, <1>3, <1>6
    <2> QED
      BY <2>1, <2>2 DEF Waits
  <1>7. ASSUME NEW n \in 1..k - 1
        PROVE  gs[n + 1].l = PartLow(gs[n]) /\ gs[n + 1].h = PartHigh(gs[n])
    <2>1. n \in 1..k /\ n + 1 \in 1..k /\ n # k
      BY <1>1
    <2> QED
      BY <1>2, <1>3, <2>1 DEF StackOK
  <1>8. gs[1].l = 0 /\ gs[1].h = N - 1
    <2>1. 1 \in 1..k
      BY <1>1
    <2> QED
      BY <1>3, <2>1 DEF StackOK
  <1>9. StackOK(b, N, gs)
    BY <1>2, <1>4, <1>5, <1>6, <1>7, <1>8 DEF StackOK
  <1>10. Len(gs) = Len(fs) /\ gs[Len(gs)] = new /\ gs # <<>>
    BY <1>2, <1>3 DEF k
  <1> QED
    BY <1>9, <1>10, Zenon DEF gs

LEMMA PartFits ==
    ASSUME NEW N \in Nat, NEW a, NEW k \in Nat, NEW top, FrameOK(a, N, top),
           top.at \in {"left", "done"}, (top.h - top.l) + k <= N,
           NEW l \in Nat, NEW h \in Nat, l = PartLow(top), h = PartHigh(top)
    PROVE  /\ h < N /\ l <= h + 1 /\ (h - l) + (k + 1) <= N /\ top.l <= l /\ h <= top.h
           /\ top.l \in Nat /\ top.h \in Nat
  <1> DEFINE low == top.l
             high == top.h
             p == top.p
  <1>1. low \in Nat /\ high \in Nat /\ p \in low..high /\ high < N /\ low < high
        /\ (high - low) + k <= N
    BY DEF FrameOK, FrameTypes, Parted
  <1>2. \/ l = low /\ h = p - 1
        \/ l = p + 1 /\ h = high
    BY DEF PartLow, PartHigh
  <1> HIDE DEF low, high, p
  <1>3. h < N /\ l <= h + 1 /\ (h - l) + (k + 1) <= N /\ low <= l /\ h <= high
    BY <1>1, <1>2
  <1> QED
    BY <1>1, <1>3 DEF low, high

LEMMA WaitsForInner ==
    ASSUME NEW N \in Nat, NEW a, NEW frame, FrameOK(a, N, frame), NEW top, Waits(frame, top),
           top.l \in Nat, top.h \in Nat, NEW new, new.l \in Nat, new.h \in Nat,
           top.l <= new.l, new.h <= top.h
    PROVE  Waits(frame, new)
  <1> DEFINE low == PartLow(frame)
             high == PartHigh(frame)
  <1>1. low \in Int /\ high \in Int
    BY DEF FrameOK, FrameTypes, PartLow, PartHigh
  <1>2. frame.at \in {"left", "done"} /\ low <= top.l /\ top.h <= high
    BY DEF Waits
  <1> HIDE DEF low, high
  <1>3. low <= new.l /\ new.h <= high
    BY <1>1, <1>2
  <1> QED
    BY <1>2, <1>3 DEF Waits, low, high

\* A frame for the part the top frame waits for.
LEMMA Pushed ==
    ASSUME NEW N \in Nat, NEW a, NEW fs, fs # <<>>, StackOK(a, N, fs),
           NEW top, top = fs[Len(fs)], top.at \in {"left", "done"},
           NEW l \in Nat, NEW h \in Nat, l = PartLow(top), h = PartHigh(top)
    PROVE  /\ StackOK(a, N, Append(fs, Frame(l, h)))
           /\ TopOK(a, N, Append(fs, Frame(l, h)))
  <1> DEFINE new == Frame(l, h)
             gs == Append(fs, new)
             k == Len(fs)
  <1>1. fs \in Seq(FrameTypes) /\ k \in Nat /\ k >= 1
    BY DEF StackOK
  <1>2. new \in FrameTypes /\ new.l = l /\ new.h = h /\ new.at = "enter"
        /\ new.i = l - 1 /\ new.j = l
    BY DEF Frame, FrameTypes
  <1> HIDE DEF new
  <1>3. /\ gs \in Seq(FrameTypes) /\ Len(gs) = k + 1 /\ gs[k + 1] = new /\ gs # <<>>
        /\ \A n \in 1..k : gs[n] = fs[n]
    BY <1>1, <1>2
  <1> HIDE DEF gs
  <1>4. k \in 1..k /\ FrameOK(a, N, top) /\ (top.h - top.l) + k <= N
        /\ top \in FrameTypes
    BY <1>1 DEF StackOK, FrameOK
  <1>6. /\ h < N /\ l <= h + 1 /\ (h - l) + (k + 1) <= N /\ top.l <= l /\ h <= top.h
        /\ top.l \in Nat /\ top.h \in Nat
    BY <1>1, <1>4, PartFits
  <1>7. FrameOK(a, N, new)
    BY <1>2, <1>6 DEF FrameOK
  <1>8. ASSUME NEW n \in 1..k PROVE Waits(fs[n], new)
    <2>1. CASE n = k
      BY <1>2, <2>1 DEF Waits
    <2>2. CASE n # k
      <3>1. n < k
        BY <1>1, <2>2
      <3>2. Waits(fs[n], top) /\ FrameOK(a, N, fs[n])
        BY <1>4, <3>1 DEF StackOK
      <3> QED
        BY <1>2, <1>6, <3>2, WaitsForInner, ZenonT(30)
    <2> QED
      BY <2>1, <2>2
  <1>9. \A n \in 1..k + 1 : n = k + 1 \/ n \in 1..k
    BY <1>1
  <1>10. \A n \in 1..k + 1 : FrameOK(a, N, gs[n]) /\ (gs[n].h - gs[n].l) + n <= N
    <2> SUFFICES ASSUME NEW n \in 1..k + 1
                 PROVE  FrameOK(a, N, gs[n]) /\ (gs[n].h - gs[n].l) + n <= N
      OBVIOUS
    <2>1. CASE n = k + 1
      BY <1>2, <1>3, <1>6, <1>7, <2>1
    <2>2. CASE n \in 1..k
      BY <1>3, <2>2 DEF StackOK
    <2> QED
      BY <1>9, <2>1, <2>2
  <1>11. ASSUME NEW m \in 1..k + 1, NEW n \in 1..k + 1, m < n PROVE Waits(gs[m], gs[n])
    <2>1. m \in 1..k
      BY <1>1, <1>11
    <2>2. CASE n = k + 1
      BY <1>3, <1>8, <2>1, <2>2
    <2>3. CASE n \in 1..k
      BY <1>3, <1>11, <2>1, <2>3 DEF StackOK
    <2> QED
      BY <1>9, <2>2, <2>3
  <1>12. ASSUME NEW n \in 1..(k + 1) - 1
         PROVE  gs[n + 1].l = PartLow(gs[n]) /\ gs[n + 1].h = PartHigh(gs[n])
    <2>1. n \in 1..k
      BY <1>1
    <2>2. CASE n = k
      BY <1>2, <1>3, <2>1, <2>2
    <2>3. CASE n # k
      <3>1. n \in 1..k - 1 /\ n + 1 \in 1..k
        BY <1>1, <2>1, <2>3
      <3> QED
        BY <1>3, <2>1, <3>1 DEF StackOK
    <2> QED
      BY <2>2, <2>3
  <1>13. gs[1].l = 0 /\ gs[1].h = N - 1
    <2>1. 1 \in 1..k
      BY <1>1
    <2> QED
      BY <1>3, <2>1 DEF StackOK
  <1>14. StackOK(a, N, gs)
    BY <1>3, <1>10, <1>11, <1>12, <1>13 DEF StackOK
  <1>15. TopOK(a, N, gs)
    BY <1>2, <1>3 DEF TopOK
  <1> QED
    BY <1>14, <1>15 DEF gs, new

\* A frame that has sorted its part is left.
LEMMA Popped ==
    ASSUME NEW N \in Nat, NEW a, NEW fs, fs # <<>>, StackOK(a, N, fs),
           Ordered(a, fs[Len(fs)].l, fs[Len(fs)].h)
    PROVE  StackOK(a, N, Front(fs)) /\ TopOK(a, N, Front(fs))
  <1> DEFINE gs == Front(fs)
             k == Len(fs)
  <1>1. fs \in Seq(FrameTypes) /\ k \in Nat /\ k >= 1
    BY DEF StackOK
  <1> DEFINE g == k - 1
  <1>2. g \in Nat /\ k = g + 1
    BY <1>1
  <1>3. /\ gs \in Seq(FrameTypes) /\ Len(gs) = g
        /\ \A n \in 1..g : gs[n] = fs[n]
    <2>1. gs = SubSeq(fs, 1, g)
      BY DEF Front
    <2> HIDE DEF gs, g
    <2>2. \A n \in 1..g : n \in 1..k
      BY <1>2
    <2> QED
      BY <1>1, <1>2, <2>1, <2>2
  <1> HIDE DEF gs
  <1> HIDE DEF g
  <1>4. \A n \in 1..g : n \in 1..k
    BY <1>2
  <1>5. \A n \in 1..g - 1 : n \in 1..k - 1 /\ n \in 1..g /\ n + 1 \in 1..g
    BY <1>2
  <1>6. gs # <<>> => 1 \in 1..g /\ fs # <<>> /\ g \in 1..g /\ g \in 1..k - 1
    BY <1>2, <1>3
  <1>7. StackOK(a, N, gs)
    <2>1. \A n \in 1..g : FrameOK(a, N, gs[n]) /\ (gs[n].h - gs[n].l) + n <= N
      BY <1>3, <1>4 DEF StackOK
    <2>2. \A m, n \in 1..g : m < n => Waits(gs[m], gs[n])
      BY <1>3, <1>4 DEF StackOK
    <2>3. \A n \in 1..g - 1 : gs[n + 1].l = PartLow(gs[n]) /\ gs[n + 1].h = PartHigh(gs[n])
      BY <1>3, <1>5 DEF StackOK
    <2>4. gs # <<>> => gs[1].l = 0 /\ gs[1].h = N - 1
      BY <1>3, <1>6 DEF StackOK
    <2> QED
      BY <1>3, <2>1, <2>2, <2>3, <2>4 DEF StackOK
  <1>8. TopOK(a, N, gs)
    <2>1. CASE gs = <<>>
      <3>1. k = 1
        BY <1>2, <1>3, <2>1
      <3>2. fs[k].l = 0 /\ fs[k].h = N - 1
        BY <3>1 DEF StackOK
      <3> QED
        BY <2>1, <3>2 DEF TopOK
    <2>2. CASE gs # <<>>
      <3>1. gs[Len(gs)] = fs[g] /\ fs[k].l = PartLow(fs[g]) /\ fs[k].h = PartHigh(fs[g])
        BY <1>2, <1>3, <1>6, <2>2 DEF StackOK
      <3>2. fs[g].at = "left" => Ordered(a, fs[g].l, fs[g].p - 1)
        BY <3>1 DEF PartLow, PartHigh
      <3>3. fs[g].at = "done" => Ordered(a, fs[g].p + 1, fs[g].h)
        BY <3>1 DEF PartLow, PartHigh
      <3> QED
        BY <2>2, <3>1, <3>2, <3>3 DEF TopOK
    <2> QED
      BY <2>1, <2>2
  <1> QED
    BY <1>7, <1>8 DEF gs

-----------------------------------------------------------------------------
(* Sorting: the steps.                                                     *)

LEMMA NothingHeld ==
    /\ Elements(NoArray) = 0 /\ NoArray \in [0..0 - 1 -> Items]
    /\ Holds(NoArray, NoArray)
    /\ StackOK(NoArray, 0, <<>>) /\ TopOK(NoArray, 0, <<>>)
    /\ SearchOK(NoArray, 0, NoSearch)
  <1>1. DOMAIN NoArray = {} /\ 0..0 - 1 = {}
    BY DEF NoArray
  <1>2. Elements(NoArray) = 0
    BY <1>1, FS_EmptySet DEF Elements
  <1>3. NoArray \in [0..0 - 1 -> Items] /\ Holds(NoArray, NoArray)
    BY <1>1 DEF NoArray, Holds
  <1>4. StackOK(NoArray, 0, <<>>)
    <2>1. <<>> \in Seq(FrameTypes) /\ Len(<<>>) = 0 /\ 1..0 = {} /\ 1..0 - 1 = {}
      OBVIOUS
    <2> QED
      BY <2>1 DEF StackOK
  <1>5. TopOK(NoArray, 0, <<>>)
    BY <1>1 DEF TopOK, Ordered
  <1>6. SearchOK(NoArray, 0, NoSearch)
    BY DEF SearchOK, NoSearch, Searches
  <1> QED
    BY <1>1, <1>2, <1>3, <1>4, <1>5, <1>6

LEMMA SortInvAtFirst == SortInit => SortInv
  BY NothingHeld DEF SortInit, SortInv

\* What is known when qsort() is at work.
LEMMA AtWork ==
    ASSUME SortInv, frames # <<>>, NEW N, N = Elements(array)
    PROVE  /\ N \in Nat /\ array \in [0..N - 1 -> Items] /\ found.state = "no"
           /\ StackOK(array, N, frames) /\ TopOK(array, N, frames)
           /\ frames \in Seq(FrameTypes) /\ Len(frames) \in Nat /\ Len(frames) >= 1
           /\ FrameOK(array, N, Top) /\ Top \in FrameTypes
  <1>1. /\ N \in Nat /\ array \in [0..N - 1 -> Items] /\ found.state = "no"
        /\ StackOK(array, N, frames) /\ TopOK(array, N, frames)
    BY DEF SortInv
  <1>2. frames \in Seq(FrameTypes) /\ \A n \in 1..Len(frames) : FrameOK(array, N, frames[n])
    BY <1>1 DEF StackOK
  <1>3. Len(frames) \in Nat /\ Len(frames) >= 1
    BY <1>2
  <1>4. FrameOK(array, N, Top)
    BY <1>2, <1>3 DEF Top
  <1> QED
    BY <1>1, <1>2, <1>3, <1>4 DEF FrameOK

LEMMA WorkGoesOn ==
    ASSUME SortInv, frames # <<>>, NEW N, N = Elements(array),
           array' \in [0..N - 1 -> Items], Holds(array', given),
           UNCHANGED <<given, found>>,
           StackOK(array', N, frames'), TopOK(array', N, frames')
    PROVE  SortInv'
  <1>1. N \in Nat /\ array \in [0..N - 1 -> Items] /\ found.state = "no"
        /\ DOMAIN given = DOMAIN array /\ found \in Searches
    BY DEF SortInv, SearchOK
  <1>2. DOMAIN array' = DOMAIN array
    BY <1>1
  <1>3. Elements(array)' = N
    BY <1>2 DEF Elements
  <1>4. SearchOK(array, N, found)'
    <2>1. found' \in Searches /\ found'.state = "no"
      BY <1>1
    <2> QED
      BY <2>1 DEF SearchOK
  <1>5. DOMAIN given' = DOMAIN array' /\ Holds(array', given') /\ found'.state = "no"
    BY <1>1, <1>2
  <1> QED
    BY <1>1, <1>3, <1>4, <1>5 DEF SortInv

LEMMA KeysAre ==
    ASSUME NEW n \in Nat, NEW keys \in [1..n -> Keys]
    PROVE  Len(keys) = n
  <1>1. keys \in Seq(Keys)
    BY SeqDef
  <1> QED
    BY <1>1, LenProperties

LEMMA QsortKeeps ==
    ASSUME SortInv, NEW n \in 2..MaxElements, NEW keys \in [1..n -> Keys], qsort(keys)
    PROVE  SortInv'
  <1>1. n \in Nat /\ n >= 2
    BY SortingAssumption
  <1>2. Len(keys) = n
    BY <1>1, KeysAre
  <1>3. /\ array' = [i \in 0..n - 1 |-> [key |-> keys[i + 1], tag |-> i]]
        /\ given' = array' /\ frames' = <<Frame(0, n - 1)>> /\ found' = found
        /\ found.state = "no"
    BY <1>2 DEF qsort
  <1>4. array' \in [0..n - 1 -> Items]
    <2>1. \A i \in 0..n - 1 : keys[i + 1] \in Int /\ i \in Nat
      <3>1. \A i \in 0..n - 1 : i + 1 \in 1..n /\ i \in Nat
        BY <1>1
      <3>2. \A i \in 1..n : keys[i] \in Int
        BY SortingAssumption
      <3> QED
        BY <3>1, <3>2
    <2>2. \A i \in 0..n - 1 : [key |-> keys[i + 1], tag |-> i] \in Items
      BY <2>1 DEF Items
    <2> QED
      BY <1>3, <2>2
  <1>5. Elements(array)' = n
    <2>1. DOMAIN array' = 0..n - 1
      BY <1>3
    <2>2. Cardinality(0..n - 1) = n
      BY <1>1, FS_Interval
    <2> QED
      BY <2>1, <2>2 DEF Elements
  <1> DEFINE f == Frame(0, n - 1)
             a == array'
  <1>6. /\ f \in FrameTypes /\ f.l = 0 /\ f.h = n - 1 /\ f.at = "enter"
        /\ f.i = 0 - 1 /\ f.j = 0
    BY <1>1 DEF Frame, FrameTypes
  <1>7. FrameOK(a, n, f)
    BY <1>1, <1>6 DEF FrameOK
  <1>8. Len(frames') = 1 /\ frames'[1] = f /\ frames' # <<>> /\ frames' \in Seq(FrameTypes)
    BY <1>3, <1>6
  <1> HIDE DEF f, a
  <1>9. StackOK(a, n, frames')
    <2>1. \A m \in 1..1 : m = 1
      OBVIOUS
    <2>2. (f.h - f.l) + 1 <= n
      BY <1>1, <1>6
    <2> QED
      BY <1>6, <1>7, <1>8, <2>1, <2>2 DEF StackOK
  <1>10. TopOK(a, n, frames')
    BY <1>6, <1>8 DEF TopOK
  <1>11. SearchOK(array, n, found)'
    <2>1. found' \in Searches /\ found'.state = "no"
      BY <1>3 DEF SortInv, SearchOK
    <2> QED
      BY <2>1 DEF SearchOK
  <1>12. Holds(array', given') /\ DOMAIN given' = DOMAIN array' /\ found'.state = "no"
    BY <1>3 DEF Holds
  <1> QED
    BY <1>1, <1>4, <1>5, <1>9, <1>10, <1>11, <1>12 DEF SortInv, a

LEMMA LeaveKeeps == SortInv /\ Leave => SortInv'
  <1> SUFFICES ASSUME SortInv, Leave PROVE SortInv'
    OBVIOUS
  <1> DEFINE N == Elements(array)
  <1>1. frames # <<>> /\ frames' = Front(frames) /\ UNCHANGED <<array, given, found>>
    BY DEF Leave
  <1> HIDE DEF N
  <1>2. /\ N \in Nat /\ array \in [0..N - 1 -> Items]
        /\ StackOK(array, N, frames) /\ TopOK(array, N, frames)
        /\ FrameOK(array, N, Top) /\ Top \in FrameTypes
    BY <1>1, AtWork DEF N
  <1> DEFINE l == Top.l
             h == Top.h
             p == Top.p
  <1>3. l \in Nat /\ h \in Nat /\ p \in Nat
    BY <1>2 DEF FrameTypes
  <1>4. \/ Top.at = "enter" /\ l >= h
        \/ Top.at = "done"
    BY DEF Leave
  <1>5. Ordered(array, l, h)
    <2>1. CASE l >= h
      <3>1. \A x, y \in l..h : ~(x < y)
        BY <1>3, <2>1
      <3> QED
        BY <3>1 DEF Ordered
    <2>2. CASE Top.at = "done"
      <3>1. /\ Ordered(array, l, p - 1) /\ p \in l..h /\ h < N
            /\ \A x \in l..p - 1 : array[x].key <= array[p].key
            /\ \A x \in p + 1..h : array[p].key <= array[x].key
        BY <1>2, <2>2 DEF FrameOK, Parted
      <3>2. Ordered(array, p + 1, h)
        BY <1>1, <1>2, <2>2 DEF TopOK, Top
      <3>3. \A x \in l..h : array[x].key \in Int
        BY <1>2, <1>3, <3>1 DEF Items
      <3> HIDE DEF l, h, p
      <3>4. \A x \in l..h : x \in l..p - 1 \/ x = p \/ x \in p + 1..h
        BY <1>3
      <3>5. ASSUME NEW x \in l..h, NEW y \in l..h, x < y PROVE array[x].key <= array[y].key
        <4>1. CASE y \in l..p - 1
          <5>1. x \in l..p - 1
            BY <1>3, <3>1, <3>5, <4>1
          <5> QED
            BY <3>1, <3>5, <4>1, <5>1 DEF Ordered
        <4>2. CASE x \in p + 1..h
          <5>1. y \in p + 1..h
            BY <1>3, <3>1, <3>5, <4>2
          <5> QED
            BY <3>2, <3>5, <4>2, <5>1 DEF Ordered
        <4>3. CASE y \notin l..p - 1 /\ x \notin p + 1..h
          <5>1. (x = p \/ x \in l..p - 1) /\ (y = p \/ y \in p + 1..h)
            BY <3>4, <4>3
          <5>2. p \in l..h
            BY <3>1
          <5>3. array[x].key <= array[p].key /\ array[p].key <= array[y].key
            BY <3>1, <3>3, <5>1, <5>2
          <5> QED
            BY <3>3, <5>2, <5>3
        <4> QED
          BY <4>1, <4>2, <4>3
      <3> QED
        BY <3>5 DEF Ordered
    <2> QED
      BY <1>4, <2>1, <2>2
  <1>6. StackOK(array, N, Front(frames)) /\ TopOK(array, N, Front(frames))
    BY <1>1, <1>2, <1>5, Popped DEF Top
  <1>7. Holds(array, given)
    BY DEF SortInv
  <1> QED
    BY <1>1, <1>2, <1>6, <1>7, WorkGoesOn DEF N

\* The next element is sifted: to the front, or left where it is.
LEMMA SiftsOn ==
    ASSUME NEW N \in Nat, NEW a \in [0..N - 1 -> Items], NEW frame, frame \in FrameTypes,
           frame.h < N, Sifted(a, frame), frame.j < frame.h,
           NEW new, new.l = frame.l, new.h = frame.h, new.j = frame.j + 1
    PROVE  /\ new.i = frame.i + 1 /\ a[frame.j].key <= a[frame.h].key
                 => Sifted(qsort_swap(a, frame.i + 1, frame.j), new)
           /\ new.i = frame.i /\ a[frame.h].key <= a[frame.j].key => Sifted(a, new)
  <1> DEFINE l == frame.l
             h == frame.h
             i == frame.i
             j == frame.j
             b == qsort_swap(a, i + 1, j)
  <1>1. l \in Nat /\ h \in Nat /\ i \in Int /\ j \in Nat /\ h < N /\ j < h
    BY DEF FrameTypes
  <1>2. /\ i \in l - 1..j - 1 /\ j \in l..h
        /\ \A x \in l..i : a[x].key <= a[h].key
        /\ \A x \in i + 1..j - 1 : a[h].key <= a[x].key
    BY DEF Sifted
  <1> DEFINE k == i + 1
  <1> HIDE DEF l, h, i, j
  <1>6. l - 1 <= i /\ i + 1 <= j /\ l <= j /\ k = i + 1 /\ k \in Int
    BY <1>1, <1>2
  <1> HIDE DEF k
  <1>7. k \in 0..N - 1 /\ j \in 0..N - 1 /\ h \in 0..N - 1 /\ h # k /\ h # j
    BY <1>1, <1>6
  <1>3. i + 1 \in 0..N - 1 /\ j \in 0..N - 1 /\ h \in 0..N - 1 /\ h # i + 1 /\ h # j
    BY <1>1, <1>2
  <1>4. ASSUME new.i = i, a[h].key <= a[j].key PROVE Sifted(a, new)
    <2>1. i \in l - 1..(j + 1) - 1 /\ j + 1 \in l..h
      BY <1>1, <1>2
    <2>2. ASSUME NEW x \in i + 1..(j + 1) - 1 PROVE a[h].key <= a[x].key
      <3>1. x = j \/ x \in i + 1..j - 1
        BY <1>1
      <3> QED
        BY <1>2, <1>4, <3>1
    <2>3. new.l = l /\ new.h = h /\ new.i = i /\ new.j = j + 1
      BY <1>4 DEF l, h, j
    <2> QED
      BY <1>2, <2>1, <2>2, <2>3 DEF Sifted
  <1>5. ASSUME new.i = i + 1, a[j].key <= a[h].key PROVE Sifted(b, new)
    <2>0. b = qsort_swap(a, k, j)
      BY DEF k
    <2> HIDE DEF b
    <2>1. /\ b[k] = a[j] /\ b[j] = a[k]
          /\ \A z \in 0..N - 1 : z # k /\ z # j => b[z] = a[z]
      BY <1>7, <2>0, SwapIs
    <2>2. k \in l - 1..(j + 1) - 1 /\ j + 1 \in l..h
      BY <1>1, <1>6
    <2>3. b[h] = a[h]
      BY <1>7, <2>1
    <2>4. ASSUME NEW x \in l..k PROVE b[x].key <= b[h].key
      <3>1. CASE x = k
        BY <1>5, <2>1, <2>3, <3>1
      <3>2. CASE x # k
        <4>1. x \in l..i /\ x \in 0..N - 1 /\ x # j
          BY <1>1, <1>6, <3>2
        <4> QED
          BY <1>2, <2>1, <2>3, <3>2, <4>1
      <3> QED
        BY <3>1, <3>2
    <2>5. ASSUME NEW x \in k + 1..(j + 1) - 1 PROVE b[h].key <= b[x].key
      <3>1. CASE x = j
        <4>1. k \in i + 1..j - 1
          BY <1>1, <1>6, <3>1
        <4> QED
          BY <1>2, <2>1, <2>3, <3>1, <4>1
      <3>2. CASE x # j
        <4>1. x \in i + 1..j - 1 /\ x \in 0..N - 1 /\ x # k
          BY <1>1, <1>6, <3>2
        <4> QED
          BY <1>2, <2>1, <2>3, <3>2, <4>1
      <3> QED
        BY <3>1, <3>2
    <2>6. new.l = l /\ new.h = h /\ new.i = k /\ new.j = j + 1
      BY <1>5, <1>6 DEF l, h, j
    <2> QED
      BY <2>2, <2>4, <2>5, <2>6 DEF Sifted
  <1> QED
    BY <1>4, <1>5 DEF l, h, i, j, b

LEMMA NextFrame ==
    ASSUME NEW top \in FrameTypes, top.j + 1 \in Nat
    PROVE  LET next == [top EXCEPT !.at = "partition", !.j = @ + 1]
           IN  /\ next \in FrameTypes /\ next.l = top.l /\ next.h = top.h
               /\ next.j = top.j + 1 /\ next.i = top.i /\ next.at = "partition"
  BY DEF FrameTypes

LEMMA PartitionKeeps == SortInv /\ Partition => SortInv'
  <1> SUFFICES ASSUME SortInv, Partition PROVE SortInv'
    OBVIOUS
  <1> DEFINE N == Elements(array)
             goes == comparator(array[Top.j], array[Top.h]) <= 0
             next == [Top EXCEPT !.at = "partition", !.j = @ + 1]
             new == IF goes THEN [next EXCEPT !.i = @ + 1] ELSE next
             b == IF goes THEN qsort_swap(array, Top.i + 1, Top.j) ELSE array
  <1>1. /\ frames # <<>> /\ Top.at \in {"enter", "partition"} /\ Top.j < Top.h
        /\ array' = b /\ frames' = Caller(new) /\ UNCHANGED <<given, found>>
    BY DEF Partition
  <1> HIDE DEF N
  <1>2. /\ N \in Nat /\ array \in [0..N - 1 -> Items]
        /\ StackOK(array, N, frames) /\ TopOK(array, N, frames)
        /\ FrameOK(array, N, Top) /\ Top \in FrameTypes
        /\ frames \in Seq(FrameTypes) /\ Len(frames) \in Nat /\ Len(frames) >= 1
    BY <1>1, AtWork DEF N
  <1>3. /\ Top.l \in Nat /\ Top.h \in Nat /\ Top.i \in Int /\ Top.j \in Nat /\ Top.h < N
    BY <1>2 DEF FrameTypes, FrameOK
  <1>4. Sifted(array, Top)
    <2>1. CASE Top.at = "enter"
      <3>1. Top.i = Top.l - 1 /\ Top.j = Top.l
        BY <1>2, <2>1 DEF FrameOK
      <3>2. /\ Top.i \in Top.l - 1..Top.j - 1 /\ Top.j \in Top.l..Top.h
            /\ \A x \in Top.l..Top.i : FALSE
            /\ \A x \in Top.i + 1..Top.j - 1 : FALSE
        BY <1>1, <1>3, <3>1
      <3> QED
        BY <3>2 DEF Sifted
    <2>2. CASE Top.at = "partition"
      BY <1>2, <2>2 DEF FrameOK
    <2> QED
      BY <1>1, <2>1, <2>2
  <1>5. Top.i + 1 \in Top.l..Top.h /\ Top.j \in Top.l..Top.h
        /\ Top.i + 1 \in 0..N - 1 /\ Top.j \in 0..N - 1 /\ Top.h \in 0..N - 1
    <2>1. Top.i \in Top.l - 1..Top.j - 1 /\ Top.j \in Top.l..Top.h
      BY <1>4 DEF Sifted
    <2> DEFINE l == Top.l
               h == Top.h
               i == Top.i
               j == Top.j
    <2>2. l \in Nat /\ h \in Nat /\ i \in Int /\ j \in Nat /\ h < N
          /\ i \in l - 1..j - 1 /\ j \in l..h
      BY <1>3, <2>1
    <2> HIDE DEF l, h, i, j
    <2>3. /\ i + 1 \in l..h /\ j \in l..h
          /\ i + 1 \in 0..N - 1 /\ j \in 0..N - 1 /\ h \in 0..N - 1
      BY <1>2, <2>2
    <2> QED
      BY <2>3 DEF l, h, i, j
  <1>6. array[Top.j].key \in Int /\ array[Top.h].key \in Int
    BY <1>2, <1>5 DEF Items
  <1>7. /\ goes => array[Top.j].key <= array[Top.h].key
        /\ ~goes => array[Top.h].key <= array[Top.j].key
    BY <1>6 DEF comparator
  <1> HIDE DEF goes
  <1>8. /\ next \in FrameTypes /\ next.l = Top.l /\ next.h = Top.h /\ next.j = Top.j + 1
        /\ next.i = Top.i /\ next.at = "partition"
    <2>1. Top.j + 1 \in Nat
      BY <1>3
    <2> QED
      BY <1>2, <2>1, NextFrame, Zenon DEF next
  <1> HIDE DEF next
  <1>9. /\ new \in FrameTypes /\ new.l = Top.l /\ new.h = Top.h /\ new.j = Top.j + 1
        /\ new.i = (IF goes THEN Top.i + 1 ELSE Top.i) /\ new.at = "partition"
    <2>1. CASE goes
      <3>1. new = [next EXCEPT !.i = @ + 1]
        BY <2>1
      <3> HIDE DEF new
      <3> QED
        BY <1>3, <1>8, <2>1, <3>1 DEF FrameTypes
    <2>2. CASE ~goes
      BY <1>8, <2>2
    <2> QED
      BY <2>1, <2>2
  <1> HIDE DEF new
  <1>10. Sifted(b, new)
    <2>1. /\ new.i = Top.i + 1 /\ array[Top.j].key <= array[Top.h].key
                => Sifted(qsort_swap(array, Top.i + 1, Top.j), new)
          /\ new.i = Top.i /\ array[Top.h].key <= array[Top.j].key => Sifted(array, new)
      BY <1>1, <1>2, <1>3, <1>4, <1>9, SiftsOn
    <2> QED
      BY <1>7, <1>9, <2>1
  <1>11. /\ Shuffled(array, b, N, Top.l, Top.h) /\ b \in [0..N - 1 -> Items]
         /\ Holds(b, given)
    <2>1. Holds(array, given)
      BY DEF SortInv
    <2>2. CASE goes
      <3>1. Top.l \in Int /\ Top.h \in Int
        BY <1>3
      <3>2. b = qsort_swap(array, Top.i + 1, Top.j)
        BY <2>2
      <3>3. Shuffled(array, qsort_swap(array, Top.i + 1, Top.j), N, Top.l, Top.h)
        BY <1>2, <1>5, <3>1, SwapShuffles
      <3>4. Holds(qsort_swap(array, Top.i + 1, Top.j), given)
        BY <1>2, <1>5, <2>1, SwapIs
      <3> QED
        BY <3>2, <3>3, <3>4 DEF Shuffled
    <2>3. CASE ~goes
      <3>1. Top.l \in Int /\ Top.h \in Int
        BY <1>3
      <3>2. b = array
        BY <2>3
      <3> QED
        BY <1>2, <2>1, <3>1, <3>2, SameShuffles
    <2> QED
      BY <2>2, <2>3
  <1> HIDE DEF b
  <1>12. FrameOK(b, N, new)
    <2>1. Top.l <= Top.h + 1 /\ Top.l < Top.h
      BY <1>1, <1>3, <1>5
    <2> QED
      BY <1>3, <1>9, <1>10, <2>1 DEF FrameOK
  <1>13. /\ StackOK(b, N, frames')
         /\ frames' # <<>> /\ frames'[Len(frames')] = new
    <2>1. frames' = [frames EXCEPT ![Len(frames)] = new]
      BY <1>1 DEF Caller
    <2>2. Shuffled(array, b, N, frames[Len(frames)].l, frames[Len(frames)].h)
          /\ new.l = frames[Len(frames)].l /\ new.h = frames[Len(frames)].h
      BY <1>9, <1>11 DEF Top
    <2> DEFINE gs == [frames EXCEPT ![Len(frames)] = new]
    <2>3. StackOK(b, N, gs) /\ Len(gs) = Len(frames) /\ gs[Len(gs)] = new /\ gs # <<>>
      BY <1>1, <1>2, <1>12, <2>2, Replaced, SMTT(30)
    <2> HIDE DEF gs
    <2>4. frames' = gs
      BY <2>1 DEF gs
    <2> QED
      BY <2>3, <2>4, Zenon
  <1>14. TopOK(b, N, frames')
    BY <1>9, <1>13 DEF TopOK
  <1> QED
    BY <1>1, <1>11, <1>13, <1>14, WorkGoesOn DEF N

\* The pivot goes behind the elements that are not above it.
LEMMA PivotParts ==
    ASSUME NEW N \in Nat, NEW a \in [0..N - 1 -> Items], NEW frame, frame \in FrameTypes,
           frame.h < N, Sifted(a, frame), frame.j = frame.h,
           NEW new, new.l = frame.l, new.h = frame.h, new.p = frame.i + 1
    PROVE  Parted(qsort_swap(a, frame.i + 1, frame.h), new)
  <1> DEFINE l == frame.l
             h == frame.h
             i == frame.i
             k == i + 1
             b == qsort_swap(a, k, h)
  <1>1. l \in Nat /\ h \in Nat /\ i \in Int /\ h < N
    BY DEF FrameTypes
  <1>2. /\ i \in l - 1..h - 1
        /\ \A x \in l..i : a[x].key <= a[h].key
        /\ \A x \in i + 1..h - 1 : a[h].key <= a[x].key
    BY DEF Sifted
  <1>3. /\ new.l = l /\ new.h = h /\ new.p = k
    OBVIOUS
  <1> HIDE DEF l, h, i
  <1>4. l - 1 <= i /\ i <= h - 1 /\ k = i + 1 /\ k \in Int
    BY <1>1, <1>2
  <1>5. \A x \in k..h - 1 : a[h].key <= a[x].key
    BY <1>2
  <1> HIDE DEF k
  <1>6. k \in 0..N - 1 /\ h \in 0..N - 1 /\ k \in l..h /\ k <= h
    BY <1>1, <1>4
  <1>7. /\ b[k] = a[h] /\ b[h] = a[k]
        /\ \A z \in 0..N - 1 : z # k /\ z # h => b[z] = a[z]
    <2>1. k \in 0..N - 1 /\ h \in 0..N - 1
      BY <1>6
    <2> QED
      BY <2>1, SwapMoves, Zenon
  <1> HIDE DEF b
  <1>8. ASSUME NEW x \in l..k - 1 PROVE b[x].key <= b[k].key
    <2>1. x \in l..i /\ x \in 0..N - 1 /\ x # k /\ x # h
      BY <1>1, <1>4
    <2> QED
      BY <1>2, <1>7, <2>1
  <1>9. ASSUME NEW x \in k + 1..h PROVE b[k].key <= b[x].key
    <2>1. CASE x = h
      <3>1. k \in k..h - 1
        BY <1>1, <1>4, <2>1
      <3> QED
        BY <1>5, <1>7, <2>1, <3>1
    <2>2. CASE x # h
      <3>1. x \in k..h - 1 /\ x \in 0..N - 1 /\ x # k
        BY <1>1, <1>4, <2>2
      <3> QED
        BY <1>5, <1>7, <2>2, <3>1
    <2> QED
      BY <2>1, <2>2
  <1>10. Parted(b, new)
    BY <1>3, <1>6, <1>8, <1>9 DEF Parted
  <1> QED
    BY <1>10 DEF b, k, i, h

LEMMA LeftFrame ==
    ASSUME NEW top \in FrameTypes, NEW k \in Nat
    PROVE  LET new == [top EXCEPT !.p = k, !.at = "left"]
           IN  /\ new \in FrameTypes /\ new.l = top.l /\ new.h = top.h
               /\ new.p = k /\ new.at = "left"
  BY DEF FrameTypes

LEMMA SortLeftKeeps == SortInv /\ SortLeft => SortInv'
  <1> SUFFICES ASSUME SortInv, SortLeft PROVE SortInv'
    OBVIOUS
  <1> DEFINE N == Elements(array)
             k == Top.i + 1
             new == [Top EXCEPT !.p = k, !.at = "left"]
             b == qsort_swap(array, k, Top.h)
             gs == [frames EXCEPT ![Len(frames)] = new]
  <1>1. /\ frames # <<>> /\ Top.at = "partition" /\ Top.j = Top.h
        /\ array' = b /\ UNCHANGED <<given, found>>
        /\ frames' = IF k > 0 THEN Append(gs, Frame(Top.l, k - 1)) ELSE gs
    BY DEF SortLeft, Caller
  <1> HIDE DEF N, gs
  <1>2. /\ N \in Nat /\ array \in [0..N - 1 -> Items]
        /\ StackOK(array, N, frames) /\ TopOK(array, N, frames)
        /\ FrameOK(array, N, Top) /\ Top \in FrameTypes
        /\ frames \in Seq(FrameTypes) /\ Len(frames) \in Nat /\ Len(frames) >= 1
    BY <1>1, AtWork DEF N
  <1>3. /\ Top.l \in Nat /\ Top.h \in Nat /\ Top.i \in Int /\ Top.h < N
        /\ Sifted(array, Top) /\ Top.l < Top.h
    BY <1>1, <1>2 DEF FrameTypes, FrameOK
  <1>4. /\ k \in Nat /\ k \in Top.l..Top.h /\ k \in 0..N - 1 /\ Top.h \in 0..N - 1
        /\ Top.h \in Top.l..Top.h
    <2> DEFINE l == Top.l
               h == Top.h
               i == Top.i
    <2>1. l \in Nat /\ h \in Nat /\ i \in Int /\ h < N /\ l < h /\ i \in l - 1..h - 1
      BY <1>1, <1>3 DEF Sifted
    <2> HIDE DEF l, h, i
    <2>2. /\ i + 1 \in Nat /\ i + 1 \in l..h /\ i + 1 \in 0..N - 1 /\ h \in 0..N - 1
          /\ h \in l..h
      BY <1>2, <2>1
    <2> QED
      BY <2>2 DEF l, h, i
  <1> HIDE DEF k
  <1>6. /\ new \in FrameTypes /\ new.l = Top.l /\ new.h = Top.h /\ new.p = k
        /\ new.at = "left"
    BY <1>2, <1>4, LeftFrame, Zenon DEF new
  <1> HIDE DEF new
  <1>5. Parted(b, new)
    BY <1>1, <1>2, <1>3, <1>6, PivotParts DEF k
  <1>7. /\ Shuffled(array, b, N, Top.l, Top.h) /\ b \in [0..N - 1 -> Items]
        /\ Holds(b, given)
    <2>1. Holds(array, given)
      BY DEF SortInv
    <2>2. Top.l \in Int /\ Top.h \in Int
      BY <1>3
    <2>3. Shuffled(array, b, N, Top.l, Top.h)
      BY <1>2, <1>4, <2>2, SwapShuffles
    <2>4. Holds(b, given)
      BY <1>2, <1>4, <2>1, SwapIs
    <2> QED
      BY <2>3, <2>4 DEF Shuffled
  <1> HIDE DEF b
  <1>8. FrameOK(b, N, new)
    <2>1. Top.l <= Top.h + 1
      BY <1>3
    <2> QED
      BY <1>3, <1>5, <1>6, <2>1 DEF FrameOK
  <1>9. StackOK(b, N, gs) /\ Len(gs) = Len(frames) /\ gs[Len(gs)] = new /\ gs # <<>>
    <2>0. frames # <<>>
      BY <1>1
    <2>1. Shuffled(array, b, N, frames[Len(frames)].l, frames[Len(frames)].h)
          /\ new.l = frames[Len(frames)].l /\ new.h = frames[Len(frames)].h
      BY <1>6, <1>7 DEF Top
    <2> QED
      BY <1>2, <1>8, <2>0, <2>1, Replaced DEF gs
  <1>10. StackOK(b, N, frames') /\ TopOK(b, N, frames')
    <2>1. CASE k > 0
      <3> DEFINE hs == Append(gs, Frame(Top.l, k - 1))
      <3>1. Top.l = PartLow(new) /\ k - 1 = PartHigh(new) /\ k - 1 \in Nat
        BY <1>4, <1>6, <2>1 DEF PartLow, PartHigh
      <3>2. StackOK(b, N, hs) /\ TopOK(b, N, hs)
        BY <1>2, <1>3, <1>6, <1>9, <3>1, Pushed
      <3>3. frames' = hs
        BY <1>1, <2>1
      <3> HIDE DEF hs
      <3> QED
        BY <3>2, <3>3
    <2>2. CASE ~(k > 0)
      <3>1. frames' = gs
        BY <1>1, <2>2
      <3>2. k = 0
        BY <1>4, <2>2
      <3>3. \A x \in Top.l..k - 1 : FALSE
        BY <1>3, <3>2
      <3>4. Ordered(b, new.l, new.p - 1)
        BY <1>6, <3>3 DEF Ordered
      <3>5. TopOK(b, N, gs)
        BY <1>6, <1>9, <3>4 DEF TopOK
      <3> QED
        BY <1>9, <3>1, <3>5
    <2> QED
      BY <2>1, <2>2
  <1> QED
    BY <1>1, <1>7, <1>10, WorkGoesOn DEF N

LEMMA DoneFrame ==
    ASSUME NEW top \in FrameTypes
    PROVE  LET new == [top EXCEPT !.at = "done"]
           IN  /\ new \in FrameTypes /\ new.l = top.l /\ new.h = top.h
               /\ new.p = top.p /\ new.at = "done"
  BY DEF FrameTypes

LEMMA SortRightKeeps == SortInv /\ SortRight => SortInv'
  <1> SUFFICES ASSUME SortInv, SortRight PROVE SortInv'
    OBVIOUS
  <1> DEFINE N == Elements(array)
             new == [Top EXCEPT !.at = "done"]
             gs == [frames EXCEPT ![Len(frames)] = new]
             hs == Append(gs, Frame(Top.p + 1, Top.h))
  <1>1. /\ frames # <<>> /\ Top.at = "left" /\ frames' = hs
        /\ UNCHANGED <<array, given, found>>
    BY DEF SortRight, Caller
  <1> HIDE DEF N, gs
  <1>2. /\ N \in Nat /\ array \in [0..N - 1 -> Items]
        /\ StackOK(array, N, frames) /\ TopOK(array, N, frames)
        /\ FrameOK(array, N, Top) /\ Top \in FrameTypes
        /\ frames \in Seq(FrameTypes) /\ Len(frames) \in Nat /\ Len(frames) >= 1
    BY <1>1, AtWork DEF N
  <1>3. /\ Top.l \in Nat /\ Top.h \in Nat /\ Top.p \in Nat /\ Top.h < N
        /\ Top.l < Top.h /\ Parted(array, Top)
    BY <1>1, <1>2 DEF FrameTypes, FrameOK
  <1>4. /\ new \in FrameTypes /\ new.l = Top.l /\ new.h = Top.h /\ new.p = Top.p
        /\ new.at = "done"
    BY <1>2, DoneFrame
  <1> HIDE DEF new
  <1>5. Ordered(array, Top.l, Top.p - 1)
    BY <1>1, <1>2 DEF TopOK, Top
  <1>6. FrameOK(array, N, new)
    <2>1. Top.l <= Top.h + 1
      BY <1>3
    <2>2. Parted(array, new)
      BY <1>3, <1>4 DEF Parted
    <2>3. Ordered(array, new.l, new.p - 1)
      BY <1>4, <1>5
    <2> QED
      BY <1>3, <1>4, <2>1, <2>2, <2>3 DEF FrameOK
  <1>7. StackOK(array, N, gs) /\ Len(gs) = Len(frames) /\ gs[Len(gs)] = new /\ gs # <<>>
    <2>0. frames # <<>>
      BY <1>1
    <2>1. Top.l \in Int /\ Top.h \in Int
      BY <1>3
    <2>2. Shuffled(array, array, N, frames[Len(frames)].l, frames[Len(frames)].h)
          /\ new.l = frames[Len(frames)].l /\ new.h = frames[Len(frames)].h
      BY <1>2, <1>4, <2>1, SameShuffles DEF Top
    <2> QED
      BY <1>2, <1>6, <2>0, <2>2, Replaced DEF gs
  <1>8. StackOK(array, N, hs) /\ TopOK(array, N, hs)
    <2>1. Top.p + 1 = PartLow(new) /\ Top.h = PartHigh(new) /\ Top.p + 1 \in Nat
      BY <1>3, <1>4 DEF PartLow, PartHigh
    <2> QED
      BY <1>2, <1>3, <1>4, <1>7, <2>1, Pushed
  <1>9. Holds(array, given)
    BY DEF SortInv
  <1> HIDE DEF hs
  <1> QED
    BY <1>1, <1>2, <1>8, <1>9, WorkGoesOn DEF N

-----------------------------------------------------------------------------
(* Searching.                                                              *)

LEMMA BsearchKeeps == ASSUME SortInv, NEW key \in Keys, bsearch(key) PROVE SortInv'
  <1> DEFINE N == Elements(array)
  <1>1. /\ frames = <<>> /\ UNCHANGED <<array, given, frames>>
        /\ found' = [state |-> "search", key |-> key, base |-> 0, nmemb |-> N]
    BY DEF bsearch, Sorted
  <1>2. /\ N \in Nat /\ array \in [0..N - 1 -> Items]
        /\ DOMAIN given = DOMAIN array /\ Holds(array, given)
        /\ StackOK(array, N, frames) /\ TopOK(array, N, frames)
    BY DEF SortInv
  <1>3. N' = N
    BY <1>1
  <1> HIDE DEF N
  <1>4. SearchOK(array, N, found)'
    <2>1. /\ found'.state = "search" /\ found'.key \in Int /\ found'.base = 0
          /\ found'.nmemb = N
      BY <1>1, SortingAssumption
    <2>2. /\ found'.key \in Int /\ found'.base \in Nat /\ found'.nmemb \in Nat
          /\ found'.base + found'.nmemb <= N'
          /\ \A x \in 0..found'.base - 1 : FALSE
          /\ \A x \in found'.base + found'.nmemb..N' - 1 : FALSE
      BY <1>2, <1>3, <2>1
    <2>3. found' \in Searches
      BY <1>1, <1>2, SortingAssumption DEF Searches
    <2> QED
      BY <2>1, <2>2, <2>3 DEF SearchOK
  <1>5. /\ N' \in Nat /\ array' \in [0..N' - 1 -> Items]
        /\ DOMAIN given' = DOMAIN array' /\ Holds(array', given')
        /\ StackOK(array', N', frames') /\ TopOK(array', N', frames') /\ frames' = <<>>
    BY <1>1, <1>2, <1>3
  <1> QED
    BY <1>4, <1>5 DEF SortInv, N

LEMMA Halves ==
    ASSUME NEW n \in Nat, n > 0
    PROVE  /\ n \div 2 \in Nat /\ n \div 2 < n /\ (n - 1) \div 2 \in Nat
           /\ (n \div 2) + 1 + ((n - 1) \div 2) = n
  BY Z3

LEMMA FoundHere ==
    ASSUME NEW f \in Searches, NEW b \in Nat
    PROVE  LET e == [f EXCEPT !.state = "found", !.base = b]
           IN  e \in Searches /\ e.state = "found" /\ e.key = f.key /\ e.base = b
  BY DEF Searches

LEMMA FoundBelow ==
    ASSUME NEW f \in Searches, NEW n \in Nat
    PROVE  LET e == [f EXCEPT !.nmemb = n]
           IN  /\ e \in Searches /\ e.state = f.state /\ e.key = f.key /\ e.base = f.base
               /\ e.nmemb = n
  BY DEF Searches

\* Only bsearch() is at work: the array is what it was.
LEMMA SearchGoesOn ==
    ASSUME SortInv, found.state # "no", UNCHANGED <<array, given, frames>>,
           SearchOK(array, Elements(array), found)'
    PROVE  SortInv'
  <1> DEFINE N == Elements(array)
  <1>1. /\ N \in Nat /\ array \in [0..N - 1 -> Items]
        /\ DOMAIN given = DOMAIN array /\ Holds(array, given)
        /\ StackOK(array, N, frames) /\ TopOK(array, N, frames) /\ frames = <<>>
    BY DEF SortInv
  <1>2. N' = N
    OBVIOUS
  <1>3. /\ N' \in Nat /\ array' \in [0..N' - 1 -> Items]
        /\ DOMAIN given' = DOMAIN array' /\ Holds(array', given')
        /\ StackOK(array', N', frames') /\ TopOK(array', N', frames') /\ frames' = <<>>
        /\ SearchOK(array, N, found)'
    BY <1>1, <1>2
  <1> QED
    BY <1>3 DEF SortInv

\* Half of what is left is as good as all of it.
LEMMA CompareKeeps == SortInv /\ Compare => SortInv'
  <1> SUFFICES ASSUME SortInv, Compare PROVE SortInv'
    OBVIOUS
  <1> DEFINE N == Elements(array)
             key == found.key
             base == found.base
             nmemb == found.nmemb
             half == nmemb \div 2
             rest == (nmemb - 1) \div 2
             pivot == base + half
             result == key - array[pivot].key
  <1>1. /\ found.state = "search" /\ nmemb > 0 /\ UNCHANGED <<array, given, frames>>
        /\ found' = IF result = 0 THEN [found EXCEPT !.state = "found", !.base = pivot]
                    ELSE IF result > 0
                    THEN [found EXCEPT !.base = pivot + 1, !.nmemb = rest]
                    ELSE [found EXCEPT !.nmemb = half]
    BY DEF Compare
  <1> HIDE DEF result
  <1>2. /\ N \in Nat /\ array \in [0..N - 1 -> Items]
        /\ TopOK(array, N, frames) /\ SearchOK(array, N, found) /\ frames = <<>>
    BY <1>1 DEF SortInv
  <1>3. N' = N
    BY <1>1
  <1>4. Ordered(array, 0, N - 1)
    BY <1>2 DEF TopOK
  <1>5. /\ found \in Searches /\ key \in Int /\ base \in Nat /\ nmemb \in Nat
        /\ base + nmemb <= N
        /\ \A x \in 0..base - 1 : array[x].key < key
        /\ \A x \in base + nmemb..N - 1 : array[x].key > key
    BY <1>1, <1>2 DEF SearchOK, Searches
  <1> HIDE DEF N, key, base, nmemb
  <1>6. /\ half \in Nat /\ half < nmemb /\ rest \in Nat /\ half + 1 + rest = nmemb
    BY <1>1, <1>5, Halves
  <1> HIDE DEF half, rest
  <1>7. pivot \in Nat /\ pivot \in 0..N - 1 /\ pivot + 1 \in Nat
    BY <1>2, <1>5, <1>6
  <1>8. (pivot + 1) + rest = base + nmemb
    BY <1>5, <1>6
  <1> HIDE DEF pivot
  <1> DEFINE value == array[pivot].key
  <1>10. value \in Int /\ result = key - value /\ \A x \in 0..N - 1 : array[x].key \in Int
    BY <1>2, <1>7 DEF result, Items
  <1>11. \A x \in 0..N - 1 : (x < pivot => array[x].key <= value)
                             /\ (x > pivot => value <= array[x].key)
    BY <1>4, <1>7 DEF Ordered
  <1> HIDE DEF value
  <1>12. SearchOK(array, N, found)'
    <2>1. CASE result = 0
      <3>1. found' = [found EXCEPT !.state = "found", !.base = pivot]
        BY <1>1, <2>1
      <3>2. key = value /\ array[pivot].key = key
        BY <1>5, <1>10, <2>1 DEF value
      <3>3. found' \in Searches /\ found'.state = "found" /\ found'.base = pivot
            /\ found'.key = key
        BY <1>5, <1>7, <3>1, FoundHere, Zenon DEF key
      <3> QED
        BY <1>1, <1>2, <1>3, <1>7, <3>2, <3>3 DEF SearchOK
    <2>2. CASE result # 0 /\ result > 0
      <3>1. found' = [found EXCEPT !.base = pivot + 1, !.nmemb = rest]
        BY <1>1, <2>2
      <3>2. value < key
        BY <1>5, <1>10, <2>2
      <3>3. ASSUME NEW x \in 0..(pivot + 1) - 1 PROVE array[x].key < key
        <4>1. x \in 0..N - 1 /\ (x = pivot \/ x < pivot)
          BY <1>2, <1>7
        <4> QED
          BY <1>5, <1>10, <1>11, <3>2, <4>1 DEF value
      <3>4. \A x \in (pivot + 1) + rest..N - 1 : array[x].key > key
        BY <1>5, <1>8
      <3>5. found' \in Searches /\ found'.state = "search" /\ found'.base = pivot + 1
            /\ found'.key = key /\ found'.nmemb = rest
        <4>1. found \in Searches /\ pivot + 1 \in Nat /\ rest \in Nat
          BY <1>5, <1>6, <1>7
        <4>2. found' \in Searches /\ found'.state = found.state /\ found'.key = found.key
              /\ found'.base = pivot + 1 /\ found'.nmemb = rest
          BY <3>1, <4>1 DEF Searches
        <4> QED
          BY <1>1, <4>2 DEF key
      <3>6. (pivot + 1) + rest <= N
        BY <1>5, <1>8
      <3> QED
        BY <1>1, <1>3, <3>3, <3>4, <3>5, <3>6 DEF SearchOK
    <2>3. CASE result # 0 /\ ~(result > 0)
      <3>1. found' = [found EXCEPT !.nmemb = half]
        BY <1>1, <2>3
      <3>2. key < value
        BY <1>5, <1>10, <2>3
      <3>3. ASSUME NEW x \in base + half..N - 1 PROVE array[x].key > key
        <4>1. x \in 0..N - 1 /\ (x = pivot \/ x > pivot)
          BY <1>2, <1>5, <1>6, <1>7 DEF pivot
        <4> QED
          BY <1>5, <1>10, <1>11, <3>2, <4>1 DEF value
      <3>4. found' \in Searches /\ found'.state = "search" /\ found'.base = base
            /\ found'.key = key /\ found'.nmemb = half
        <4>1. LET e == [found EXCEPT !.nmemb = half]
              IN  /\ e \in Searches /\ e.state = found.state /\ e.key = found.key
                  /\ e.base = found.base /\ e.nmemb = half
          BY <1>5, <1>6, FoundBelow
        <4> QED
          BY <1>1, <3>1, <4>1 DEF key, base
      <3>5. base + half <= N
        BY <1>2, <1>5, <1>6
      <3> QED
        BY <1>1, <1>3, <1>5, <3>3, <3>4, <3>5 DEF SearchOK
    <2> QED
      BY <2>1, <2>2, <2>3
  <1> QED
    BY <1>1, <1>12, SearchGoesOn DEF N

LEMMA LessIsOther ==
    ASSUME NEW N \in Nat, NEW a \in [0..N - 1 -> Items], NEW x \in 0..N - 1, NEW key \in Int,
           a[x].key < key \/ a[x].key > key
    PROVE  a[x].key # key
  BY DEF Items

LEMMA GiveUpKeeps == SortInv /\ GiveUp => SortInv'
  <1> SUFFICES ASSUME SortInv, GiveUp PROVE SortInv'
    OBVIOUS
  <1> DEFINE N == Elements(array)
             key == found.key
             base == found.base
  <1>1. /\ found.state = "search" /\ found.nmemb = 0 /\ UNCHANGED <<array, given, frames>>
        /\ found' = [found EXCEPT !.state = "absent"]
    BY DEF GiveUp
  <1>2. N \in Nat /\ SearchOK(array, N, found) /\ array \in [0..N - 1 -> Items]
    BY DEF SortInv
  <1>3. N' = N
    BY <1>1
  <1>4. /\ found \in Searches /\ key \in Int /\ base \in Nat
        /\ \A x \in 0..base - 1 : array[x].key < key
        /\ \A x \in base + 0..N - 1 : array[x].key > key
    BY <1>1, <1>2 DEF SearchOK, Searches
  <1> HIDE DEF N, key, base
  <1>5. ASSUME NEW x \in 0..N - 1 PROVE array[x].key # key
    <2>1. x \in 0..base - 1 \/ x \in base + 0..N - 1
      BY <1>2, <1>4
    <2> QED
      BY <1>2, <1>4, <2>1, LessIsOther
  <1>6. found' \in Searches /\ found'.state = "absent" /\ found'.key = key
    BY <1>1, <1>4 DEF Searches, key
  <1>7. SearchOK(array, N, found)'
    BY <1>1, <1>3, <1>5, <1>6 DEF SearchOK
  <1> QED
    BY <1>1, <1>7, SearchGoesOn DEF N

LEMMA DropKeeps == SortInv /\ Drop => SortInv'
  <1> SUFFICES ASSUME SortInv, Drop PROVE SortInv'
    OBVIOUS
  <1>1. array' = NoArray /\ given' = NoArray /\ frames' = <<>> /\ found' = NoSearch
    BY DEF SortInv, Drop
  <1> QED
    BY <1>1, NothingHeld DEF SortInv

LEMMA SortNextKeeps == SortInv /\ [SortNext]_sortVars => SortInv'
  <1> SUFFICES ASSUME SortInv, [SortNext]_sortVars PROVE SortInv'
    OBVIOUS
  <1>1. ASSUME NEW n \in 2..MaxElements, NEW keys \in [1..n -> Keys], qsort(keys)
        PROVE  SortInv'
    BY <1>1, QsortKeeps
  <1>2. CASE Leave
    BY <1>2, LeaveKeeps
  <1>3. CASE Partition
    BY <1>3, PartitionKeeps
  <1>4. CASE SortLeft
    BY <1>4, SortLeftKeeps
  <1>5. CASE SortRight
    BY <1>5, SortRightKeeps
  <1>6. ASSUME NEW key \in Keys, bsearch(key) PROVE SortInv'
    BY <1>6, BsearchKeeps
  <1>7. CASE Compare
    BY <1>7, CompareKeeps
  <1>8. CASE GiveUp
    BY <1>8, GiveUpKeeps
  <1>9. CASE Drop
    BY <1>9, DropKeeps
  <1>10. CASE UNCHANGED sortVars
    BY <1>10 DEF SortInv, sortVars, Elements, SearchOK
  <1> QED
    BY <1>1, <1>2, <1>3, <1>4, <1>5, <1>6, <1>7, <1>8, <1>9, <1>10 DEF SortNext

\* The frames lie in the array, each smaller than the one it is called from, so
\* there are never more than elements and one.
LEMMA SortInvSuffices == SortInv => SortsAndFinds
  <1> SUFFICES ASSUME SortInv PROVE SortsAndFinds
    OBVIOUS
  <1> DEFINE N == Elements(array)
             k == Len(frames)
  <1>1. /\ N \in Nat /\ array \in [0..N - 1 -> Items] /\ DOMAIN array = 0..N - 1
        /\ DOMAIN given = DOMAIN array /\ Holds(array, given)
        /\ StackOK(array, N, frames) /\ TopOK(array, N, frames) /\ SearchOK(array, N, found)
    BY DEF SortInv
  <1> HIDE DEF N
  <1>2. \A i \in DOMAIN given : \E j \in DOMAIN array : array[j] = given[i]
    BY <1>1 DEF Holds
  <1>3. ASSUME Sorted
        PROVE  \A i, j \in DOMAIN array : i < j => array[i].key <= array[j].key
    BY <1>1, <1>3 DEF Sorted, TopOK, Ordered
  <1>4. frames \in Seq(FrameTypes) /\ k \in Nat /\ DOMAIN frames = 1..k
    BY <1>1 DEF StackOK
  <1>5. ASSUME NEW n \in 1..k
        PROVE  /\ frames[n].h \in 0..N - 1 /\ frames[n].l \in 0..N
               /\ frames[n].h \in Nat /\ frames[n].l \in Nat
               /\ frames[n].h - frames[n].l >= 0 - 1
    <2>1. FrameOK(array, N, frames[n])
      BY <1>1 DEF StackOK
    <2> DEFINE l == frames[n].l
               h == frames[n].h
    <2>2. l \in Nat /\ h \in Nat /\ h < N /\ l <= h + 1
      BY <2>1 DEF FrameOK, FrameTypes
    <2> HIDE DEF l, h
    <2>3. h \in 0..N - 1 /\ l \in 0..N /\ h - l >= 0 - 1
      BY <1>1, <2>2
    <2> QED
      BY <2>2, <2>3 DEF l, h
  <1>6. k <= N
    <2>1. CASE k = 0
      BY <1>1, <2>1
    <2>2. CASE k = 1
      <3>1. 1 \in 1..k
        BY <2>2
      <3>2. frames[1].h \in 0..N - 1
        BY <1>5, <3>1
      <3> QED
        BY <1>1, <2>2, <3>2
    <2>3. CASE k > 1
      <3> DEFINE m == k - 1
      <3>1. m \in 1..k /\ k \in 1..k /\ m < k
        BY <1>4, <2>3
      <3>2. /\ Waits(frames[m], frames[k]) /\ FrameOK(array, N, frames[m])
            /\ (frames[m].h - frames[m].l) + m <= N
        BY <1>1, <3>1 DEF StackOK
      <3> DEFINE l == frames[m].l
                 h == frames[m].h
      <3>3. l \in Nat /\ h \in Nat /\ l < h /\ (h - l) + m <= N
        BY <3>2 DEF Waits, FrameOK, FrameTypes
      <3>4. m = k - 1
        OBVIOUS
      <3> HIDE DEF l, h, m
      <3> QED
        BY <1>1, <1>4, <3>3, <3>4
    <2> QED
      BY <1>4, <2>1, <2>2, <2>3
  <1>7. /\ found.state = "found" => array[found.base].key = found.key
        /\ found.state = "absent" => \A i \in DOMAIN array : array[i].key # found.key
    BY <1>1 DEF SearchOK
  <1> QED
    BY <1>1, <1>2, <1>3, <1>4, <1>5, <1>6, <1>7 DEF SortsAndFinds, N, k

\* qsort() loses no element and leaves them in ascending order; its recursion
\* stays in the array and never takes more frames than there are elements; and
\* bsearch() finds an element of the key exactly when there is one (qsort.c,
\* bsearch.c), for arrays of any size and any integer keys.
THEOREM SortsAndSearches == SortSpec => []SortsAndFinds
  <1>1. SortInit => SortInv
    BY SortInvAtFirst
  <1>2. SortInv /\ [SortNext]_sortVars => SortInv'
    BY SortNextKeeps
  <1>3. SortInv => SortsAndFinds
    BY SortInvSuffices
  <1> QED
    BY <1>1, <1>2, <1>3, PTL DEF SortSpec
=============================================================================
