------------------------------- MODULE Tokens -------------------------------
(***************************************************************************)
(* strtok() (stdlib/strtok.c, strspn.c, strcspn.c): a string is cut in     *)
(* tokens where it lies in memory, a call at a time.  Where the next call  *)
(* goes on is static, and nothing ties it to the caller: one that begins   *)
(* with another string ends the scan of the first.                         *)
(*                                                                         *)
(* A string is its characters and a NUL; an address is an index in it.     *)
(***************************************************************************)
EXTENDS Integers, Sequences

CONSTANTS
    Chars,      \* characters of strings, NUL not among them
    Texts,      \* what a program cuts in tokens
    Delims      \* the sets of delimiters it gives

NUL == "NUL"

ASSUME TokensAssumption ==
    /\ NUL \notin Chars
    /\ Texts \subseteq Seq(Chars)
    /\ Delims \subseteq SUBSET Chars

VARIABLES
    text,            \* the string as it is in memory now
    currentString,   \* an index in it; 0 is NULL
    whole,           \* history: the string as it was whole
    tokens,          \* history: the tokens returned, and what delimited them
    sought,          \* history: the delimiters of the last call that searched
    over             \* history: the last call returned NULL

tokenVars == <<text, currentString, whole, tokens, sought, over>>

TokensInit ==
    /\ text = <<>> /\ currentString = 0
    /\ whole = <<>> /\ tokens = <<>> /\ sought = {} /\ over = FALSE

Lowest(S) == CHOOSE i \in S : \A j \in S : i <= j

\* Of the string at an index of t: how far it consists of, or does without,
\* certain characters.
strspn(t, s, accept) == Lowest({i \in s..Len(t) : t[i] \notin accept}) - s
strcspn(t, s, reject) == Lowest({i \in s..Len(t) : t[i] \in reject \cup {NUL}}) - s

\* A mutant: the next call begins where this one wrote a NUL.
Onward_Same(t, end) == IF t[end] = NUL THEN 0 ELSE end
\* Where the next call begins, after a token of t that ends before an index.
Onward(t, end) == IF t[end] = NUL THEN 0 ELSE end + 1

\* The body of strtok(), for the string at an index of t.
Token(t, from, delim, before) ==
    LET str == from + strspn(t, from, delim)
        end == str + strcspn(t, str, delim)
    IN  /\ sought' = delim
        /\ IF end = str
           THEN /\ text' = t /\ currentString' = 0
                /\ tokens' = before /\ over' = TRUE
           ELSE /\ text' = [t EXCEPT ![end] = NUL]
                /\ currentString' = Onward(t, end)
                /\ tokens' = Append(before, [from |-> str, to |-> end - 1, delim |-> delim])
                /\ over' = FALSE

\* strtok(s, delim).
strtok(s, delim) ==
    /\ whole' = Append(s, NUL)
    /\ Token(Append(s, NUL), 1, delim, <<>>)

\* strtok(NULL, delim): the scan goes on, or is over.
strtokNext(delim) ==
    /\ currentString # 0
    /\ Token(text, currentString, delim, tokens)
    /\ UNCHANGED whole
strtokNone ==
    /\ currentString = 0 /\ whole # <<>>
    /\ over' = TRUE
    /\ UNCHANGED <<text, currentString, whole, tokens, sought>>

TokensNext ==
    \/ \E s \in Texts, delim \in Delims : strtok(s, delim)
    \/ \E delim \in Delims : strtokNext(delim)
    \/ strtokNone

TokensSpec == TokensInit /\ [][TokensNext]_tokenVars

(***************************************************************************)
(* Properties.                                                             *)
(***************************************************************************)
\* Where the search for token n of a scan began.
Begins(scan, n) == IF n = 1 THEN 1 ELSE scan[n - 1].to + 2

\* A token of a string w is not empty, has none of its delimiters in it, and
\* cannot be made longer: only delimiters precede it, from where the last one was
\* cut off, and one, or the end, follows.
IsWord(w, scan, n) ==
    LET token == scan[n]
    IN  /\ Begins(scan, n) <= token.from
        /\ token.from <= token.to /\ token.to < Len(w)
        /\ \A i \in Begins(scan, n)..token.from - 1 : w[i] \in token.delim
        /\ \A i \in token.from..token.to : w[i] \notin token.delim \cup {NUL}
        /\ w[token.to + 1] \in token.delim \cup {NUL}

\* The words of a string w, and what is in memory then: each word is ended by a
\* NUL, and nothing but what was behind a word was changed.
AreWords(t, w, scan) ==
    /\ Len(t) = Len(w)
    /\ \A n \in DOMAIN scan : IsWord(w, scan, n) /\ t[scan[n].to + 1] = NUL
    /\ \A i \in DOMAIN w : t[i] = w[i] \/ \E n \in DOMAIN scan : i = scan[n].to + 1

\* The tokens of a scan are the words of the string, in order and without one
\* left out, also when the delimiters change between calls; and NULL is returned
\* only when no word is left (strtok.c:15-30).
TokensAreWords ==
    /\ AreWords(text, whole, tokens)
    /\ over => \A i \in Begins(tokens, Len(tokens) + 1)..Len(whole) - 1 : whole[i] \in sought
=============================================================================
