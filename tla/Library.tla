------------------------------- MODULE Library -------------------------------
(***************************************************************************)
(* A program and what it uses of the CMOC library: the files of a Disk     *)
(* BASIC disk, or the heap under OS-9, or qsort and bsearch, or strtok.    *)
(* These share no state: a behaviour uses one.                             *)
(***************************************************************************)
EXTENDS DecbFile, Heap, Sorting, Tokens

VARIABLE using     \* which of them

library == <<vars, heapVars, sortVars, tokenVars, using>>

LibraryInit ==
    /\ Init /\ HeapInit /\ SortInit /\ TokensInit
    /\ using \in {"files", "heap", "sorting", "tokens"}
    /\ using # "heap" => limit = FirstEnd

UsesFiles ==
    /\ using = "files"
    /\ Next
    /\ UNCHANGED <<heapVars, sortVars, tokenVars, using>>
UsesHeap ==
    /\ using = "heap"
    /\ HeapNext
    /\ UNCHANGED <<vars, sortVars, tokenVars, using>>
UsesSorting ==
    /\ using = "sorting"
    /\ SortNext
    /\ UNCHANGED <<vars, heapVars, tokenVars, using>>
UsesTokens ==
    /\ using = "tokens"
    /\ TokensNext
    /\ UNCHANGED <<vars, heapVars, sortVars, using>>

LibraryNext == UsesFiles \/ UsesHeap \/ UsesSorting \/ UsesTokens

\* The processor goes on with a call it has begun.
LibrarySpec ==
    /\ LibraryInit /\ [][LibraryNext]_library
    /\ WF_vars(ReadStep)
    /\ WF_heapVars(ScanStep)

(***************************************************************************)
(* Properties.                                                             *)
(***************************************************************************)
\* What is in memory and in a descriptor, and the end of the heap, are what
\* their types say, whatever is called.
LibraryTypeOK == TypeOK /\ HeapTypeOK

\* read() returns, even with the wrong table in memory; so does sbrkmax(),
\* unless it asked for an end beyond the address space (os9-sbrkmax.c:32-34).
CallsReturn == ReadReturns /\ SbrkmaxReturns
=============================================================================
