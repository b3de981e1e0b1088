------------------------------ MODULE Sorting -------------------------------
(***************************************************************************)
(* qsort() and bsearch() (stdlib/qsort.c, bsearch.c): the recursion of     *)
(* qsort on a stack of frames, a step for each comparison, each pivot put  *)
(* in its place and each return; then a search of the sorted array, a step *)
(* for each comparison.                                                    *)
(*                                                                         *)
(* An element is a key, which the comparator compares, and a tag, which    *)
(* tells it from others with the same key.                                 *)
(***************************************************************************)
EXTENDS Integers, Sequences, FiniteSets, SequencesExt

CONSTANTS
    Keys,          \* a set of integers
    MaxElements    \* bound: the elements of an array

ASSUME SortingAssumption == Keys \subseteq Int /\ MaxElements \in Nat

VARIABLES
    array,         \* an element at each index from 0, as in C
    given,         \* history: the array before
    frames,        \* the calls of qsort_work under way, the innermost last
    found          \* bsearch(): what is sought, and what is left to search

sortVars == <<array, given, frames, found>>

NoArray == [i \in {} |-> 0]
NoSearch == [state |-> "no", key |-> 0, base |-> 0, nmemb |-> 0]
Elements(a) == Cardinality(DOMAIN a)

SortInit ==
    /\ array = NoArray /\ given = NoArray
    /\ frames = <<>>
    /\ found = NoSearch

(***************************************************************************)
(* qsort.                                                                  *)
(***************************************************************************)
comparator(a, b) == a.key - b.key

qsort_swap(a, i, j) == [a EXCEPT ![i] = a[j], ![j] = a[i]]

\* A call of qsort_work() for the elements l to h, where it is, and the
\* variables of qsort_partition() and its result.
Frame(l, h) == [l |-> l, h |-> h, at |-> "enter", i |-> l - 1, j |-> l, p |-> 0]

qsort(keys) ==
    /\ frames = <<>> /\ found.state = "no"
    /\ Len(keys) > 1
    /\ array' = [i \in 0..Len(keys) - 1 |-> [key |-> keys[i + 1], tag |-> i]]
    /\ given' = array'
    /\ frames' = <<Frame(0, Len(keys) - 1)>>
    /\ UNCHANGED found

Top == frames[Len(frames)]
Caller(frame) == [frames EXCEPT ![Len(frames)] = frame]

\* Nothing to sort, or both parts are.
Leave ==
    /\ frames # <<>>
    /\ (Top.at = "enter" /\ Top.l >= Top.h) \/ Top.at = "done"
    /\ frames' = Front(frames)
    /\ UNCHANGED <<array, given, found>>

\* An element that is not above the pivot, which is the last, goes to the front.
Partition ==
    LET goes == comparator(array[Top.j], array[Top.h]) <= 0
        next == [Top EXCEPT !.at = "partition", !.j = @ + 1]
    IN  /\ frames # <<>>
        /\ Top.at \in {"enter", "partition"} /\ Top.j < Top.h
        /\ IF goes
           THEN /\ array' = qsort_swap(array, Top.i + 1, Top.j)
                /\ frames' = Caller([next EXCEPT !.i = @ + 1])
           ELSE /\ frames' = Caller(next)
                /\ UNCHANGED array
        /\ UNCHANGED <<given, found>>

\* The pivot goes behind them, and what is before it is sorted, if it can be.
SortLeft ==
    LET p == Top.i + 1
        waiting == Caller([Top EXCEPT !.p = p, !.at = "left"])
    IN  /\ frames # <<>>
        /\ Top.at = "partition" /\ Top.j = Top.h
        /\ array' = qsort_swap(array, p, Top.h)
        /\ frames' = IF p > 0 THEN Append(waiting, Frame(Top.l, p - 1)) ELSE waiting
        /\ UNCHANGED <<given, found>>

\* A mutant: the element after the pivot is taken to be in its place.
SortRight_Skips ==
    /\ frames # <<>>
    /\ Top.at = "left"
    /\ frames' = Append(Caller([Top EXCEPT !.at = "done"]), Frame(Top.p + 2, Top.h))
    /\ UNCHANGED <<array, given, found>>
SortRight ==
    /\ frames # <<>>
    /\ Top.at = "left"
    /\ frames' = Append(Caller([Top EXCEPT !.at = "done"]), Frame(Top.p + 1, Top.h))
    /\ UNCHANGED <<array, given, found>>

(***************************************************************************)
(* bsearch.                                                                *)
(***************************************************************************)
Sorted == frames = <<>> /\ array # NoArray

bsearch(key) ==
    /\ Sorted /\ found.state = "no"
    /\ found' = [state |-> "search", key |-> key, base |-> 0, nmemb |-> Elements(array)]
    /\ UNCHANGED <<array, given, frames>>

Compare ==
    LET pivot == found.base + found.nmemb \div 2
        result == found.key - array[pivot].key
    IN  /\ found.state = "search" /\ found.nmemb > 0
        /\ found' = IF result = 0 THEN [found EXCEPT !.state = "found", !.base = pivot]
                    ELSE IF result > 0
                    THEN [found EXCEPT !.base = pivot + 1, !.nmemb = (@ - 1) \div 2]
                    ELSE [found EXCEPT !.nmemb = @ \div 2]
        /\ UNCHANGED <<array, given, frames>>

GiveUp ==
    /\ found.state = "search" /\ found.nmemb = 0
    /\ found' = [found EXCEPT !.state = "absent"]
    /\ UNCHANGED <<array, given, frames>>

\* The program drops the array and takes another.
Drop ==
    /\ found.state \in {"found", "absent"}
    /\ array' = NoArray /\ given' = NoArray /\ found' = NoSearch
    /\ UNCHANGED frames

SortNext ==
    \/ \E n \in 2..MaxElements : \E keys \in [1..n -> Keys] : qsort(keys)
    \/ Leave \/ Partition \/ SortLeft \/ SortRight
    \/ \E key \in Keys : bsearch(key)
    \/ Compare \/ GiveUp \/ Drop

SortSpec == SortInit /\ [][SortNext]_sortVars

(***************************************************************************)
(* Properties.                                                             *)
(***************************************************************************)
\* When qsort() returns, the elements are those it was given, in ascending
\* order; meanwhile none is lost, every frame lies in the array, and there are
\* never more frames than elements and one: what it needs of the stack.
\* bsearch() finds an element of the key if and only if there is one.
SortsAndFinds ==
    /\ DOMAIN array = DOMAIN given
    /\ \A i \in DOMAIN given : \E j \in DOMAIN array : array[j] = given[i]
    /\ Sorted => \A i, j \in DOMAIN array : i < j => array[i].key <= array[j].key
    /\ Len(frames) <= Elements(array)
    /\ \A n \in DOMAIN frames : frames[n].h \in DOMAIN array /\ frames[n].l \in 0..Elements(array)
    /\ found.state = "found" => array[found.base].key = found.key
    /\ found.state = "absent" => \A i \in DOMAIN array : array[i].key # found.key
=============================================================================
