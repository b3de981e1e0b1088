---------------------------- MODULE MonitorProofs ----------------------------
(***************************************************************************)
(* The operator sees the line as it is stored (ScreenShowsLine), the       *)
(* arguments are its words (ArgumentsAreWords) and it is answered by the   *)
(* command its first word means (DispatchIsLookup), for whatever is typed, *)
(* with line ends of any kind, and for any size of the line's buffer: of   *)
(* the command loop alone, and of the whole monitor.                       *)
(*                                                                         *)
(* ScreenShowsLine compares sequences; the invariant says the same         *)
(* character by character, and that the cursor is not beyond the row, so   *)
(* that a character is written where it is compared.  Of what is done with *)
(* a line it needs no more than that its characters are printable.         *)
(*                                                                         *)
(* Then the monitor: every variable is what it should be (MonitorTypeOK),  *)
(* and the registers of a program survive its system calls and are         *)
(* reported right when it fails (RegistersSurvive).  That takes two        *)
(* things: that any number printNum writes in any radix is the number that *)
(* can be read from it, and an invariant, MonitorInv, that follows the     *)
(* registers and the stack from place to place.                            *)
(*                                                                         *)
(* Last, commands do what they are asked to (CommandsDoAsAsked).  AskedInv *)
(* remembers what dump and unassemble have shown between two of their      *)
(* rounds, and what was set when the command was called.                   *)
(***************************************************************************)
EXTENDS Monitor, SequenceTheorems, FiniteSetTheorems, WellFoundedInduction, TLAPS

Letter == SPACE..DEL - 1

LineTypes ==
    /\ typed \in Seq(Byte) /\ prevChar \in Byte
    /\ line \in Seq(Letter)
    /\ row \in Seq(Byte) /\ cursor \in Nat

\* The prompt and what it may come behind.
Prompts == {left \o prompt : left \in Leftovers \cup {<<>>}}

\* The row r with the cursor at n shows p and the line l.
ShowsBehind(p, r, n, l) ==
    /\ n = Len(p) + Len(l) /\ n <= Len(r)
    /\ \A i \in 1..Len(p) : r[i] = p[i]
    /\ \A i \in 1..Len(l) : r[i + Len(p)] = l[i]
    /\ \A i \in n + 1..Len(r) : r[i] = SPACE

\* ... a prompt and the line l.
Shows(r, n, l) == \E p \in Prompts : ShowsBehind(p, r, n, l)

LineInv == LineTypes /\ (at = "edit" => Shows(row, cursor, line))

LEMMA CursorInRow == ASSUME NEW r, NEW n, NEW l, Shows(r, n, l) PROVE n <= Len(r)
  BY DEF Shows, ShowsBehind

(***************************************************************************)
(* The terminal.                                                           *)
(***************************************************************************)
Written(r, n, c) == SubSeq(r, 1, n) \o <<c>> \o SubSeq(r, n + 2, Len(r))

LEMMA WrittenIs ==
    ASSUME NEW r \in Seq(Byte), NEW n \in 0..Len(r), NEW c \in Byte
    PROVE  /\ Written(r, n, c) \in Seq(Byte)
           /\ Len(Written(r, n, c)) = IF n = Len(r) THEN n + 1 ELSE Len(r)
           /\ Written(r, n, c)[n + 1] = c
           /\ \A i \in 1..Len(r) : i # n + 1 => Written(r, n, c)[i] = r[i]
  <1> DEFINE left == SubSeq(r, 1, n)
             right == SubSeq(r, n + 2, Len(r))
             mid == left \o <<c>>
  <1>1. Len(r) \in Nat /\ n \in Nat /\ n <= Len(r)
    OBVIOUS
  <1>2. \A i \in 1..Len(r) : r[i] \in Byte
    OBVIOUS
  <1>3. /\ left \in Seq(Byte) /\ Len(left) = n
        /\ \A i \in 1..n : left[i] = r[i]
    BY <1>1, <1>2, SubSeqProperties
  <1>4. /\ right \in Seq(Byte)
        /\ Len(right) = IF n + 2 <= Len(r) THEN Len(r) - n - 1 ELSE 0
        /\ \A i \in 1..Len(r) - n - 1 : right[i] = r[n + 1 + i]
    BY <1>1, <1>2, SubSeqProperties
  <1>5. <<c>> \in Seq(Byte) /\ Len(<<c>>) = 1 /\ <<c>>[1] = c
    OBVIOUS
  <1> HIDE DEF left, right
  <1>6. /\ mid \in Seq(Byte) /\ Len(mid) = n + 1 /\ mid[n + 1] = c
        /\ \A i \in 1..n : mid[i] = r[i]
    BY <1>1, <1>3, <1>5, ConcatProperties
  <1> HIDE DEF mid
  <1> DEFINE w == mid \o right
             k == Len(right)
  <1>7. k \in Nat /\ n + 1 \in Nat
    BY <1>1, <1>4
  <1>8. /\ w \in Seq(Byte) /\ Len(w) = Len(mid) + Len(right)
        /\ \A i \in 1..Len(mid) + Len(right) :
              w[i] = IF i <= Len(mid) THEN mid[i] ELSE right[i - Len(mid)]
    BY <1>4, <1>6, ConcatProperties
  <1>9. Written(r, n, c) = w
    BY DEF Written, left, right, mid
  <1> HIDE DEF w
  <1>10. /\ Len(w) = n + 1 + k
         /\ \A i \in 1..n + 1 + k :
               w[i] = IF i <= n + 1 THEN mid[i] ELSE right[i - (n + 1)]
    BY <1>6, <1>8
  <1> DEFINE size == Len(r)
  <1>11. /\ size \in Nat /\ n <= size
         /\ k = IF n + 2 <= size THEN size - n - 1 ELSE 0
         /\ \A i \in 1..size - n - 1 : right[i] = r[n + 1 + i]
    BY <1>1, <1>4
  <1> HIDE DEF k, size
  <1>12. Len(w) = IF n = size THEN n + 1 ELSE size
    BY <1>1, <1>10, <1>11
  <1>13. w[n + 1] = c
    <2>1. n + 1 \in 1..n + 1 + k
      BY <1>1, <1>7
    <2> QED
      BY <1>1, <1>6, <1>10, <2>1
  <1>14. ASSUME NEW i \in 1..size, i # n + 1
         PROVE  w[i] = r[i]
    <2>1. CASE i <= n
      <3>1. i \in 1..n + 1 + k /\ i \in 1..n /\ i <= n + 1
        BY <1>1, <1>7, <2>1
      <3> QED
        BY <1>6, <1>10, <3>1
    <2>2. CASE i > n + 1
      <3>1. i - (n + 1) \in 1..size - n - 1 /\ i \in 1..n + 1 + k /\ ~(i <= n + 1)
        BY <1>1, <1>7, <1>11, <2>2
      <3>2. w[i] = right[i - (n + 1)]
        BY <1>10, <3>1
      <3>3. right[i - (n + 1)] = r[n + 1 + (i - (n + 1))]
        BY <1>11, <3>1
      <3>4. n + 1 + (i - (n + 1)) = i
        BY <1>1
      <3> QED
        BY <3>2, <3>3, <3>4
    <2> QED
      <3>1. i <= n \/ i > n + 1
        BY <1>1, <1>11, <1>14
      <3> QED
        BY <2>1, <2>2, <3>1
  <1> QED
    BY <1>8, <1>9, <1>12, <1>13, <1>14 DEF size

LEMMA RoomIs == Room \in Nat \ {0}
  BY CommandLineAssumption DEF Room

LEMMA PromptIs == prompt \in Seq(Byte) /\ Len(prompt) = 2
  BY DEF prompt, Byte, SPACE

LEMMA BehindText ==
    ASSUME NEW left \in Seq(Byte)
    PROVE  left \o prompt \in Seq(Byte) /\ Len(left \o prompt) = Len(left) + 2
  <1>1. left \o prompt \in Seq(Byte) /\ Len(left \o prompt) = Len(left) + Len(prompt)
    BY PromptIs, ConcatProperties
  <1> QED
    BY <1>1, PromptIs

LEMMA PromptsAre ==
    ASSUME NEW p \in Prompts
    PROVE  p \in Seq(Byte) /\ Len(p) \in Nat /\ Len(p) >= 2
  <1>1. PICK left \in Leftovers \cup {<<>>} : p = left \o prompt
    BY DEF Prompts
  <1>2. left \in Seq(Byte)
    <2>1. Leftovers \subseteq Seq(Byte)
      BY CommandLineAssumption
    <2>2. <<>> \in Seq(Byte)
      OBVIOUS
    <2> QED
      BY <2>1, <2>2
  <1>3. left \o prompt \in Seq(Byte) /\ Len(left \o prompt) = Len(left) + 2
    BY <1>2, BehindText
  <1>4. Len(left) \in Nat
    BY <1>2
  <1> QED
    BY <1>1, <1>3, <1>4

LEMMA Codes ==
    CR # LF /\ CR # BS /\ CR # BELL /\ LF # BS /\ LF # BELL /\ BS # BELL
  BY DEF CR, LF, BS, BELL

LEMMA EmitLetter ==
    ASSUME NEW r, NEW n, NEW c \in Letter
    PROVE  Emit([row |-> r, cursor |-> n], c) =
             [row |-> Written(r, n, c), cursor |-> n + 1]
  <1> DEFINE s == [row |-> r, cursor |-> n]
  <1>1. s.row = r /\ s.cursor = n
    OBVIOUS
  <1>2. c # CR /\ c # LF /\ c # BS /\ c # BELL
    BY DEF Letter, SPACE, DEL, CR, LF, BS, BELL
  <1> HIDE DEF s
  <1>3. Emit(s, c) = [row |-> Written(s.row, s.cursor, c), cursor |-> s.cursor + 1]
    BY <1>2, Zenon DEF Emit, Written
  <1> QED
    BY <1>1, <1>3, Zenon DEF s

LEMMA EmitBS ==
    ASSUME NEW r, NEW n \in Nat \ {0}
    PROVE  Emit([row |-> r, cursor |-> n], BS) = [row |-> r, cursor |-> n - 1]
  <1>1. \A s : Emit(s, BS) =
               [s EXCEPT !.cursor = IF s.cursor = 0 THEN 0 ELSE s.cursor - 1]
    BY Codes, Zenon DEF Emit
  <1> QED
    BY <1>1

LEMMA EmitBell ==
    ASSUME NEW r, NEW n
    PROVE  Emit([row |-> r, cursor |-> n], BELL) = [row |-> r, cursor |-> n]
  BY Codes, Zenon DEF Emit

LEMMA EmitNL ==
    ASSUME NEW r, NEW n
    PROVE  Emit(Emit([row |-> r, cursor |-> n], CR), LF) =
             [row |-> <<>>, cursor |-> 0]
  <1>1. \A s : Emit(s, CR) = [s EXCEPT !.cursor = 0]
    BY Codes, Zenon DEF Emit
  <1>2. \A s : Emit(s, LF) = [s EXCEPT !.row = <<>>]
    BY Codes, Zenon DEF Emit
  <1>3. Emit([row |-> r, cursor |-> n], CR) = [row |-> r, cursor |-> 0]
    BY <1>1
  <1>4. Emit([row |-> r, cursor |-> 0], LF) = [row |-> <<>>, cursor |-> 0]
    BY <1>2
  <1> QED
    BY <1>3, <1>4, Zenon

(***************************************************************************)
(* Editing.                                                                *)
(***************************************************************************)
\* A character is shown behind the line, and stored there.
LEMMA LetterShown ==
    ASSUME NEW r \in Seq(Byte), NEW n \in Nat, NEW l \in Seq(Letter),
           NEW c \in Letter, Shows(r, n, l)
    PROVE  /\ Written(r, n, c) \in Seq(Byte)
           /\ Append(l, c) \in Seq(Letter)
           /\ Shows(Written(r, n, c), n + 1, Append(l, c))
  <1>0. PICK p \in Prompts : ShowsBehind(p, r, n, l)
    BY DEF Shows
  <1> DEFINE w == Written(r, n, c)
             m == Append(l, c)
             size == Len(r)
             k == Len(l)
             q == Len(p)
  <1>1. n \in 0..Len(r) /\ c \in Byte
    BY <1>0 DEF ShowsBehind, Letter, Byte, SPACE, DEL
  <1>2. /\ w \in Seq(Byte) /\ Len(w) = IF n = size THEN n + 1 ELSE size
        /\ w[n + 1] = c /\ \A i \in 1..size : i # n + 1 => w[i] = r[i]
    BY <1>1, WrittenIs
  <1>3. /\ m \in Seq(Letter) /\ Len(m) = k + 1 /\ m[k + 1] = c
        /\ \A i \in 1..k : m[i] = l[i]
    OBVIOUS
  <1>4. /\ n = q + k /\ n <= size
        /\ \A i \in 1..q : r[i] = p[i]
        /\ \A i \in 1..k : r[i + q] = l[i]
        /\ \A i \in n + 1..size : r[i] = SPACE
        /\ k \in Nat /\ size \in Nat /\ q \in Nat
    <2>1. q \in Nat
      BY PromptsAre
    <2> QED
      BY <1>0, <2>1 DEF ShowsBehind
  <1> HIDE DEF w, m, k, size, q
  <1>5. \A i \in 1..q : w[i] = p[i]
    <2> SUFFICES ASSUME NEW i \in 1..q PROVE w[i] = p[i]
      OBVIOUS
    <2>1. i \in 1..size /\ i # n + 1
      BY <1>4
    <2> QED
      BY <1>2, <1>4, <2>1
  <1>6. \A i \in 1..Len(m) : w[i + q] = m[i]
    <2> SUFFICES ASSUME NEW i \in 1..k + 1 PROVE w[i + q] = m[i]
      BY <1>3
    <2>1. CASE i = k + 1
      <3>1. i + q = n + 1
        BY <1>4, <2>1
      <3> QED
        BY <1>2, <1>3, <2>1, <3>1
    <2>2. CASE i # k + 1
      <3>1. i \in 1..k /\ i + q \in 1..size /\ i + q # n + 1
        BY <1>4, <2>2
      <3> QED
        BY <1>2, <1>3, <1>4, <3>1
    <2> QED
      BY <2>1, <2>2
  <1>7. \A i \in n + 2..Len(w) : w[i] = SPACE
    <2> SUFFICES ASSUME NEW i \in n + 2..Len(w) PROVE w[i] = SPACE
      OBVIOUS
    <2>1. i \in 1..size /\ i # n + 1 /\ i \in n + 1..size
      BY <1>2, <1>4
    <2> QED
      BY <1>2, <1>4, <2>1
  <1>8. n + 1 = q + Len(m) /\ n + 1 <= Len(w) /\ n + 1 + 1 = n + 2
    BY <1>2, <1>3, <1>4
  <1>9. Shows(w, n + 1, m)
    BY <1>5, <1>6, <1>7, <1>8 DEF Shows, ShowsBehind, q
  <1> QED
    BY <1>2, <1>3, <1>9 DEF w, m

\* A deletion rubs out the last character of the line, and takes it away.
LEMMA RubbedOut ==
    ASSUME NEW r \in Seq(Byte), NEW n \in Nat, NEW l \in Seq(Letter),
           l # <<>>, Shows(r, n, l)
    PROVE  /\ n - 1 \in Nat \ {0}
           /\ Written(r, n - 1, SPACE) \in Seq(Byte)
           /\ Front(l) \in Seq(Letter) /\ Len(Front(l)) = Len(l) - 1
           /\ Shows(Written(r, n - 1, SPACE), n - 1, Front(l))
  <1>0. PICK p \in Prompts : ShowsBehind(p, r, n, l)
    BY DEF Shows
  <1> DEFINE w == Written(r, n - 1, SPACE)
             m == Front(l)
             size == Len(r)
             k == Len(l)
             q == Len(p)
  <1>1. k \in Nat \ {0} /\ \A i \in 1..k : l[i] \in Letter
    BY EmptySeq
  <1>2. /\ n = q + k /\ n <= size
        /\ \A i \in 1..q : r[i] = p[i]
        /\ \A i \in 1..k : r[i + q] = l[i]
        /\ \A i \in n + 1..size : r[i] = SPACE
        /\ size \in Nat /\ q \in Nat /\ q >= 2
    BY <1>0, PromptsAre DEF ShowsBehind
  <1>3. SPACE \in Byte /\ n - 1 \in 0..Len(r) /\ n - 1 # size /\ n - 1 + 1 = n
    <2> HIDE DEF k, q
    <2>1. n - 1 \in 0..size /\ n - 1 # size
      BY <1>1, <1>2
    <2> QED
      BY <2>1 DEF SPACE, Byte
  <1>4. /\ w \in Seq(Byte)
        /\ Len(w) = IF n - 1 = Len(r) THEN n - 1 + 1 ELSE Len(r)
        /\ w[n - 1 + 1] = SPACE
        /\ \A i \in 1..Len(r) : i # n - 1 + 1 => w[i] = r[i]
    <2> DEFINE j == n - 1
               v == Written(r, j, SPACE)
    <2>1. SPACE \in Byte /\ j \in 0..Len(r)
      BY <1>3
    <2> HIDE DEF j
    <2>2. /\ v \in Seq(Byte) /\ Len(v) = IF j = Len(r) THEN j + 1 ELSE Len(r)
          /\ v[j + 1] = SPACE /\ \A i \in 1..Len(r) : i # j + 1 => v[i] = r[i]
      BY <2>1, WrittenIs
    <2> QED
      BY <2>2, Zenon DEF j
  <1>5. /\ Len(w) = size /\ w[n] = SPACE
        /\ \A i \in 1..size : i # n => w[i] = r[i]
    BY <1>3, <1>4
  <1>6. /\ m \in Seq(Letter) /\ Len(m) = k - 1
        /\ \A i \in 1..k - 1 : m[i] = l[i]
    <2>1. m = SubSeq(l, 1, k - 1)
      BY Zenon DEF Front
    <2> HIDE DEF m, k
    <2>2. 1 \in Int /\ k - 1 \in Int /\ \A i \in 1..k - 1 : l[i] \in Letter
      BY <1>1
    <2>3. /\ m \in Seq(Letter)
          /\ Len(m) = IF 1 <= k - 1 THEN k - 1 - 1 + 1 ELSE 0
          /\ \A i \in 1..k - 1 - 1 + 1 : m[i] = l[1 + i - 1]
      BY <2>1, <2>2, SubSeqProperties
    <2>4. k - 1 - 1 + 1 = k - 1 /\ \A i \in 1..k - 1 : 1 + i - 1 = i
      BY <1>1
    <2> QED
      BY <1>1, <2>3, <2>4
  <1> HIDE DEF w, m, k, size, q
  <1>7. \A i \in 1..q : w[i] = p[i]
    <2> SUFFICES ASSUME NEW i \in 1..q PROVE w[i] = p[i]
      OBVIOUS
    <2>1. i \in 1..size /\ i # n
      BY <1>1, <1>2
    <2> QED
      BY <1>2, <1>5, <2>1
  <1>8. \A i \in 1..Len(m) : w[i + q] = m[i]
    <2> SUFFICES ASSUME NEW i \in 1..k - 1 PROVE w[i + q] = m[i]
      BY <1>6
    <2>1. k \in Nat /\ q \in Nat /\ size \in Nat /\ n = q + k /\ n <= size
      BY <1>1, <1>2
    <2>2. i \in 1..k /\ i + q \in 1..size /\ i + q # n
      BY <2>1
    <2> QED
      BY <1>2, <1>5, <1>6, <2>2
  <1>9. \A i \in n - 1 + 1..Len(w) : w[i] = SPACE
    <2> SUFFICES ASSUME NEW i \in n..size PROVE w[i] = SPACE
      BY <1>3, <1>5
    <2>1. CASE i = n
      BY <1>5, <2>1
    <2>2. CASE i # n
      <3>1. i \in n + 1..size /\ i \in 1..size
        BY <1>2, <2>2
      <3> QED
        BY <1>2, <1>5, <2>2, <3>1
    <2> QED
      BY <2>1, <2>2
  <1>10. n - 1 = q + Len(m) /\ n - 1 <= Len(w) /\ n - 1 \in Nat \ {0}
    BY <1>1, <1>2, <1>5, <1>6
  <1>11. Shows(w, n - 1, m)
    BY <1>7, <1>8, <1>9, <1>10 DEF Shows, ShowsBehind, q
  <1> QED
    BY <1>4, <1>6, <1>10, <1>11 DEF w, m, k

LEMMA PromptShown ==
    ASSUME NEW left \in Leftovers \cup {<<>>}, NEW l, l = <<>>
    PROVE  /\ left \o prompt \in Seq(Byte) /\ Len(left \o prompt) \in Nat
           /\ l \in Seq(Letter)
           /\ Shows(left \o prompt, Len(left \o prompt), l)
  <1> DEFINE p == left \o prompt
  <1>1. p \in Prompts
    BY DEF Prompts
  <1> HIDE DEF p
  <1>2. p \in Seq(Byte) /\ Len(p) \in Nat
    BY <1>1, PromptsAre
  <1>3. l \in Seq(Letter) /\ Len(l) = 0
    OBVIOUS
  <1>4. ShowsBehind(p, p, Len(p), l)
    BY <1>2, <1>3 DEF ShowsBehind
  <1> QED
    BY <1>1, <1>2, <1>3, <1>4 DEF Shows, p

\* A row of its own.
LEMMA PromptAlone ==
    ASSUME NEW l, l = <<>>
    PROVE  /\ prompt \in Seq(Byte) /\ Len(prompt) = 2 /\ l \in Seq(Letter)
           /\ Shows(prompt, Len(prompt), l)
  <1>1. <<>> \o prompt = prompt
    BY PromptIs
  <1>2. <<>> \in Leftovers \cup {<<>>}
    OBVIOUS
  <1>3. l \in Seq(Letter) /\ Shows(<<>> \o prompt, Len(<<>> \o prompt), l)
    BY <1>2, PromptShown
  <1> QED
    BY <1>1, <1>3, PromptIs

(***************************************************************************)
(* Each action keeps LineInv.                                              *)
(***************************************************************************)
LEMMA TypedLeaves ==
    ASSUME NEW s \in Seq(Byte), s # <<>>
    PROVE  /\ Tail(s) \in Seq(Byte) /\ Canonical(Head(s)) \in Byte
           /\ LowerCase(Canonical(Head(s))) \in Nat
  <1>1. Head(s) \in Byte /\ Tail(s) \in Seq(Byte)
    BY HeadTailProperties
  <1>2. Canonical(Head(s)) \in Byte
    BY <1>1 DEF Canonical, Byte, CR
  <1>3. LowerCase(Canonical(Head(s))) \in Nat
    BY <1>2 DEF LowerCase, Byte
  <1> QED
    BY <1>1, <1>2, <1>3

LEMMA GetLCharLeaves ==
    ASSUME LineInv, GetLChar
    PROVE  /\ at = "edit" /\ Shows(row, cursor, line)
           /\ typed' \in Seq(Byte) /\ prevChar' \in Byte
           /\ Printable(Char) => Char \in Letter
           /\ Screen = [row |-> row, cursor |-> cursor]
  <1>1. at = "edit" /\ Shows(row, cursor, line) /\ typed \in Seq(Byte) /\ typed # <<>>
    BY DEF LineInv, LineTypes, GetLChar
  <1>2. typed' \in Seq(Byte) /\ prevChar' \in Byte /\ Char \in Nat
    BY <1>1, TypedLeaves DEF GetLChar, Char
  <1>3. Printable(Char) => Char \in Letter
    BY <1>2 DEF Printable, Letter, SPACE, DEL
  <1> QED
    BY <1>1, <1>2, <1>3 DEF Screen

LEMMA PrintableKeeps ==
    ASSUME LineInv, rclPrintable PROVE LineInv' /\ Shows(row, cursor, line)'
  <1>1. /\ Shows(row, cursor, line) /\ typed' \in Seq(Byte) /\ prevChar' \in Byte
        /\ Char \in Letter /\ Screen = [row |-> row, cursor |-> cursor]
    BY GetLCharLeaves DEF rclPrintable
  <1>2. row \in Seq(Byte) /\ cursor \in Nat /\ line \in Seq(Letter)
    BY DEF LineInv, LineTypes
  <1>3. Emit(Screen, Char) = [row |-> Written(row, cursor, Char), cursor |-> cursor + 1]
    BY <1>1, EmitLetter
  <1>4. row' = Written(row, cursor, Char) /\ cursor' = cursor + 1
    BY <1>3 DEF rclPrintable, Put
  <1>5. line' = Append(line, Char)
    BY DEF rclPrintable
  <1>6. /\ Written(row, cursor, Char) \in Seq(Byte) /\ Append(line, Char) \in Seq(Letter)
        /\ Shows(Written(row, cursor, Char), cursor + 1, Append(line, Char))
    BY <1>1, <1>2, LetterShown
  <1>7. row' \in Seq(Byte) /\ line' \in Seq(Letter) /\ Shows(row', cursor', line')
    BY <1>4, <1>5, <1>6, Zenon
  <1>8. cursor' \in Nat
    BY <1>2, <1>4
  <1> QED
    BY <1>1, <1>7, <1>8 DEF LineInv, LineTypes

LEMMA DeleteKeeps ==
    ASSUME LineInv, rclDelete PROVE LineInv' /\ Len(line') <= Len(line)
  <1>1. /\ Shows(row, cursor, line) /\ typed' \in Seq(Byte) /\ prevChar' \in Byte
        /\ Screen = [row |-> row, cursor |-> cursor]
    BY GetLCharLeaves DEF rclDelete
  <1>2. row \in Seq(Byte) /\ cursor \in Nat /\ line \in Seq(Letter)
    BY DEF LineInv, LineTypes
  <1>3. CASE line = <<>>
    <2>1. UNCHANGED <<line, row, cursor>>
      BY <1>3 DEF rclDelete
    <2> QED
      BY <1>1, <1>2, <2>1 DEF LineInv, LineTypes
  <1>4. CASE line # <<>>
    <2> DEFINE w == Written(row, cursor - 1, SPACE)
    <2>1. /\ cursor - 1 \in Nat \ {0} /\ w \in Seq(Byte) /\ Front(line) \in Seq(Letter)
          /\ Len(Front(line)) = Len(line) - 1
          /\ Shows(w, cursor - 1, Front(line))
      BY <1>1, <1>2, <1>4, RubbedOut
    <2>2. SPACE \in Letter
      BY DEF Letter, SPACE, DEL
    <2>3. cursor \in Nat \ {0} /\ cursor - 1 + 1 = cursor
      BY <1>2, <2>1
    <2>4. Emit(Screen, BS) = [row |-> row, cursor |-> cursor - 1]
      BY <1>1, <2>3, EmitBS
    <2>5. Emit([row |-> row, cursor |-> cursor - 1], SPACE) =
            [row |-> w, cursor |-> cursor - 1 + 1]
      BY <2>2, EmitLetter
    <2>6. Emit([row |-> w, cursor |-> cursor], BS) = [row |-> w, cursor |-> cursor - 1]
      BY <2>3, EmitBS
    <2>7. Emit(Emit(Emit(Screen, BS), SPACE), BS) = [row |-> w, cursor |-> cursor - 1]
      BY <2>3, <2>4, <2>5, <2>6, Zenon
    <2>8. row' = w /\ cursor' = cursor - 1 /\ line' = Front(line)
      BY <1>4, <2>7 DEF rclDelete, Put
    <2> HIDE DEF w
    <2>9. row' \in Seq(Byte) /\ line' \in Seq(Letter) /\ Shows(row', cursor', line')
      BY <2>1, <2>8, Zenon
    <2>10. cursor' \in Nat
      BY <2>1, <2>8
    <2>11. Len(line') <= Len(line)
      BY <1>2, <2>1, <2>8
    <2> QED
      BY <1>1, <2>9, <2>10, <2>11 DEF LineInv, LineTypes
  <1> QED
    BY <1>3, <1>4

LEMMA NonPrintableKeeps == ASSUME LineInv, rclNonPrintable PROVE LineInv'
  <1>1. /\ Shows(row, cursor, line) /\ typed' \in Seq(Byte) /\ prevChar' \in Byte
        /\ Screen = [row |-> row, cursor |-> cursor]
    BY GetLCharLeaves DEF rclNonPrintable
  <1>2. Emit(Screen, BELL) = [row |-> row, cursor |-> cursor]
    BY <1>1, EmitBell
  <1>3. UNCHANGED <<line, row, cursor>>
    BY <1>2 DEF rclNonPrintable, Put
  <1> QED
    BY <1>1, <1>3 DEF LineInv, LineTypes

LEMMA EOLKeeps == ASSUME LineInv, rclEOL PROVE LineInv' /\ cursor' = 0
  <1>1. /\ typed' \in Seq(Byte) /\ prevChar' \in Byte
        /\ Screen = [row |-> row, cursor |-> cursor]
    BY GetLCharLeaves DEF rclEOL
  <1>2. Emit(Emit(Screen, CR), LF) = [row |-> <<>>, cursor |-> 0]
    BY <1>1, EmitNL
  <1>3. row' = <<>> /\ cursor' = 0 /\ UNCHANGED line /\ at' = "dispatch"
    BY <1>2 DEF rclEOL, Put
  <1> QED
    BY <1>1, <1>3 DEF LineInv, LineTypes

LEMMA NewLineKeeps ==
    ASSUME LineInv, NEW left \in Leftovers \cup {<<>>}, NewLine(left) PROVE LineInv'
  <1>1. /\ line' = <<>> /\ row' = left \o prompt /\ cursor' = Len(left \o prompt)
        /\ UNCHANGED <<typed, prevChar>>
    BY DEF NewLine
  <1>2. /\ cursor' \in Nat /\ line' \in Seq(Letter) /\ row' \in Seq(Byte)
        /\ Shows(row', cursor', line')
    BY <1>1, PromptShown
  <1> QED
    BY <1>1, <1>2 DEF LineInv, LineTypes

LEMMA RestKeeps ==
    ASSUME LineInv, SwallowLF \/ Operator \/ UNCHANGED vars
    PROVE  LineInv'
  <1>1. UNCHANGED <<prevChar, at, line, row, cursor>>
    BY DEF SwallowLF, Operator, vars, lineVars
  <1>2. typed' \in Seq(Byte)
    <2>1. CASE SwallowLF
      BY <2>1, TypedLeaves DEF SwallowLF, LineInv, LineTypes
    <2>2. CASE Operator
      BY <2>2, CommandLineAssumption DEF Operator
    <2>3. CASE UNCHANGED vars
      BY <2>3 DEF vars, lineVars, LineInv, LineTypes
    <2> QED
      BY <2>1, <2>2, <2>3
  <1> QED
    BY <1>1, <1>2 DEF LineInv, LineTypes

LEMMA InitEstablishes == Init => LineInv
  <1> SUFFICES ASSUME Init PROVE LineInv
    OBVIOUS
  <1>1. /\ line = <<>> /\ row = prompt /\ cursor = Len(prompt)
        /\ typed = <<>> /\ prevChar = 0
    BY DEF Init
  <1>2. line \in Seq(Letter) /\ row \in Seq(Byte) /\ cursor = 2
        /\ Shows(row, cursor, line)
    BY <1>1, PromptAlone
  <1> QED
    BY <1>1, <1>2 DEF LineInv, LineTypes, Byte

\* The loop comes to the prompt with what the row had before it.
NewLined == \E left \in Leftovers \cup {<<>>} : NewLine(left)

LEMMA Prompted ==
    ASSUME BlankLine \/ RunCommand
    PROVE  NewLined
  BY Zenon DEF BlankLine, RunCommand, LeftBy, NewLined

LEMMA NextKeeps == LineInv /\ [Next]_vars => LineInv'
  <1> SUFFICES ASSUME LineInv, [Next]_vars PROVE LineInv'
    OBVIOUS
  <1>1. CASE BlankLine \/ RunCommand
    BY <1>1, Prompted, NewLineKeeps DEF NewLined
  <1> QED
    BY <1>1, PrintableKeeps, DeleteKeeps, NonPrintableKeeps, EOLKeeps, RestKeeps
    DEF Next, Firmware

(***************************************************************************)
(* The theorem.                                                            *)
(***************************************************************************)
LEMMA ShownIsScreen ==
    ASSUME NEW r \in Seq(Byte), NEW n \in Nat, NEW l \in Seq(Letter),
           NEW p \in Prompts, ShowsBehind(p, r, n, l)
    PROVE  /\ n = Len(p \o l)
           /\ SubSeq(r, 1, n) = p \o l
  <1> DEFINE left == SubSeq(r, 1, n)
             both == p \o l
             k == Len(l)
             q == Len(p)
  <1>2. p \in Seq(Byte) /\ q \in Nat /\ q >= 2
    BY PromptsAre
  <1>1. /\ n = q + k /\ n <= Len(r) /\ \A i \in 1..q : r[i] = p[i]
        /\ \A i \in 1..k : r[i + q] = l[i]
        /\ k \in Nat /\ Len(r) \in Nat
    BY DEF ShowsBehind
  <1>3. l \in Seq(Byte)
    <2>1. \A i \in 1..k : l[i] \in Byte
      <3>1. \A c \in Letter : c \in Byte
        BY DEF Letter, Byte, SPACE, DEL
      <3> QED
        BY <3>1
    <2> QED
      BY <2>1
  <1> HIDE DEF k
  <1>4. \A i \in 1..n : r[i] \in Byte
    BY <1>1
  <1>5. /\ left \in Seq(Byte) /\ Len(left) = n
        /\ \A i \in 1..n : left[i] = r[i]
    <2>1. /\ left \in Seq(Byte) /\ Len(left) = IF 1 <= n THEN n - 1 + 1 ELSE 0
          /\ \A i \in 1..n - 1 + 1 : left[i] = r[1 + i - 1]
      BY <1>4, SubSeqProperties
    <2> HIDE DEF left, q
    <2>2. n - 1 + 1 = n /\ 1 <= n /\ \A i \in 1..n : 1 + i - 1 = i
      BY <1>1, <1>2
    <2> QED
      BY <2>1, <2>2
  <1>6. /\ both \in Seq(Byte) /\ Len(both) = q + Len(l)
        /\ \A i \in 1..q + Len(l) : both[i] = IF i <= q THEN p[i] ELSE l[i - q]
    BY <1>2, <1>3, ConcatProperties
  <1>7. /\ Len(both) = n
        /\ \A i \in 1..n : both[i] = IF i <= q THEN p[i] ELSE l[i - q]
    BY <1>1, <1>6 DEF k
  <1> HIDE DEF left, both, q
  <1>8. ASSUME NEW i \in 1..n
        PROVE  left[i] = both[i]
    <2>1. CASE i <= q
      <3>1. i \in 1..q
        BY <1>2, <2>1
      <3> QED
        BY <1>1, <1>5, <1>7, <3>1
    <2>2. CASE ~(i <= q)
      <3>1. i - q \in 1..k /\ i - q + q = i
        BY <1>1, <1>2, <2>2
      <3>2. r[i] = l[i - q]
        BY <1>1, <3>1
      <3> QED
        BY <1>5, <1>7, <2>2, <3>2
    <2> QED
      BY <2>1, <2>2
  <1>9. left = both
    BY <1>5, <1>6, <1>7, <1>8, SeqEqual
  <1> QED
    BY <1>7, <1>9 DEF left, both

LEMMA LineIsShown == LineInv => ScreenShowsLine
  <1> SUFFICES ASSUME LineInv, at = "edit" PROVE ScreenShowsLine
    BY DEF ScreenShowsLine
  <1>1. /\ Shows(row, cursor, line) /\ row \in Seq(Byte) /\ cursor \in Nat
        /\ line \in Seq(Letter)
    BY DEF LineInv, LineTypes
  <1>2. PICK p \in Prompts : ShowsBehind(p, row, cursor, line)
    BY <1>1 DEF Shows
  <1>3. cursor = Len(p \o line) /\ SubSeq(row, 1, cursor) = p \o line
    BY <1>1, <1>2, ShownIsScreen
  <1>4. PICK left \in Leftovers \cup {<<>>} : p = left \o prompt
    BY <1>2 DEF Prompts
  <1>5. \A i \in cursor + 1..Len(row) : row[i] = SPACE
    BY <1>2 DEF ShowsBehind
  <1> QED
    BY <1>3, <1>4, <1>5, Zenon DEF ScreenShowsLine

\* What the operator sees after the prompt is what is stored, and the cursor is
\* behind it, whatever is typed and however long: a deletion takes away exactly what
\* it rubs out, and never the prompt (commands.asm:244-262).
THEOREM ScreenIsTheLine == Spec => []ScreenShowsLine
  BY LineIsShown, InitEstablishes, NextKeeps, PTL DEF Spec

-----------------------------------------------------------------------------
(* The arguments: makeArgs() finds the words of a line.                    *)

Less == {pair \in Nat \X Nat : pair[1] < pair[2]}

\* A set of natural numbers that is not empty has a least element.
LEMMA LeastOf ==
    ASSUME NEW S \in SUBSET Nat, S # {}
    PROVE  \E i \in S : \A j \in S : i <= j
  <1>1. IsWellFoundedOn(Less, Nat)
    BY NatLessThanWellFounded DEF OpToRel, Less
  <1>2. PICK i \in S : \A j \in S : ~(<<j, i>> \in Less)
    BY <1>1, WFMin
  <1>3. \A j \in S : ~(j < i)
    BY <1>2 DEF Less
  <1> QED
    BY <1>3

LinePlaces == Nat \ {0}
Scans == [starts : Seq(LinePlaces), inArg : BOOLEAN]
NoWord == [starts |-> <<>>, inArg |-> FALSE]

\* What makeArgs() knows at place i of the line.
ScannedTo(s, i, state) ==
    /\ state \in Scans
    /\ state.inArg <=> (i # 0 /\ s[i] \notin White)
    /\ InOrder(state.starts, {j \in WordStarts(s) : j <= i})

IsScan(f, s, n) ==
    /\ f = [i \in 0..n |-> f[i]] /\ f[0] = NoWord
    /\ \A i \in 1..n : f[i] = Scanned(s, i, f[i - 1])

LEMMA OrderedAppend ==
    ASSUME NEW places \in Seq(LinePlaces), NEW S, NEW i \in LinePlaces,
           InOrder(places, S), \A j \in S : j < i
    PROVE  InOrder(Append(places, i), S \cup {i})
  <1> DEFINE new == Append(places, i)
             n == Len(places)
  <1>1. /\ n \in Nat /\ new \in Seq(LinePlaces) /\ Len(new) = n + 1 /\ new[n + 1] = i
        /\ \A k \in 1..n : new[k] = places[k] /\ places[k] \in LinePlaces
        /\ DOMAIN places = 1..n /\ DOMAIN new = 1..n + 1
    OBVIOUS
  <1>2. /\ {places[k] : k \in 1..n} = S
        /\ \A k, m \in 1..n : k < m => places[k] < places[m]
    BY <1>1 DEF InOrder
  <1> HIDE DEF new, n
  <1>3. {new[k] : k \in 1..n + 1} = S \cup {i}
    <2>1. ASSUME NEW k \in 1..n + 1 PROVE new[k] \in S \cup {i}
      <3>1. CASE k = n + 1
        BY <1>1, <3>1
      <3>2. CASE k # n + 1
        <4>1. k \in 1..n
          BY <1>1, <3>2
        <4> QED
          BY <1>1, <1>2, <4>1
      <3> QED
        BY <3>1, <3>2
    <2>2. ASSUME NEW x \in S PROVE \E k \in 1..n + 1 : new[k] = x
      <3>1. PICK k \in 1..n : places[k] = x
        BY <1>2
      <3>2. k \in 1..n + 1 /\ new[k] = x
        BY <1>1, <3>1
      <3> QED
        BY <3>2
    <2>3. n + 1 \in 1..n + 1
      BY <1>1
    <2> QED
      BY <1>1, <2>1, <2>2, <2>3
  <1>4. ASSUME NEW k \in 1..n + 1, NEW m \in 1..n + 1, k < m
        PROVE  new[k] < new[m]
    <2>1. k \in 1..n
      BY <1>1, <1>4
    <2>2. CASE m = n + 1
      BY <1>1, <1>2, <2>1, <2>2
    <2>3. CASE m # n + 1
      <3>1. m \in 1..n
        BY <1>1, <2>3
      <3> QED
        BY <1>1, <1>2, <1>4, <2>1, <3>1
    <2> QED
      BY <2>2, <2>3
  <1> QED
    BY <1>1, <1>3, <1>4 DEF InOrder, new

LEMMA LettersAre ==
    ASSUME NEW s \in Seq(Letter), NEW i \in 1..Len(s)
    PROVE  s[i] \in Letter /\ (s[i] \in White \cup {CR} <=> s[i] \in White)
  <1>1. s[i] \in Letter
    OBVIOUS
  <1>2. \A c \in Letter : c # CR
    BY DEF Letter, SPACE, DEL, CR
  <1>3. s[i] # CR
    BY <1>1, <1>2
  <1> QED
    BY <1>1, <1>3

LEMMA ScansOn ==
    ASSUME NEW s \in Seq(Letter), NEW i \in 1..Len(s), NEW state,
           ScannedTo(s, i - 1, state)
    PROVE  ScannedTo(s, i, Scanned(s, i, state))
  <1> DEFINE until == {j \in WordStarts(s) : j <= i - 1}
             now == {j \in WordStarts(s) : j <= i}
  <1>1. i \in LinePlaces /\ DOMAIN s = 1..Len(s) /\ Len(s) \in Nat
    BY DEF LinePlaces
  <1>2. WordStarts(s) \subseteq 1..Len(s)
    BY <1>1 DEF WordStarts
  <1>3. now = IF i \in WordStarts(s) THEN until \cup {i} ELSE until
    BY <1>1, <1>2
  <1>4. i \in WordStarts(s) <=> (s[i] \notin White /\ (i = 1 \/ s[i - 1] \in White))
    BY <1>1 DEF WordStarts
  <1>5. /\ state \in Scans /\ (state.inArg <=> (i - 1 # 0 /\ s[i - 1] \notin White))
        /\ InOrder(state.starts, until)
    BY DEF ScannedTo
  <1>6. s[i] \in White \cup {CR} <=> s[i] \in White
    BY LettersAre
  <1>7. i # 0 /\ (i - 1 # 0 <=> i # 1)
    BY <1>1
  <1>8. \A j \in until : j < i
    BY <1>1, <1>2
  <1> HIDE DEF until, now
  <1>9. CASE state.inArg
    <2>1. Scanned(s, i, state) = [state EXCEPT !.inArg = s[i] \notin White \cup {CR}]
      BY <1>9 DEF Scanned
    <2> DEFINE new == [state EXCEPT !.inArg = s[i] \notin White \cup {CR}]
    <2>2. new.starts = state.starts /\ new.inArg = (s[i] \notin White \cup {CR}) /\ new \in Scans
      BY <1>5 DEF Scans
    <2> HIDE DEF new
    <2>3. now = until
      BY <1>3, <1>4, <1>5, <1>7, <1>9
    <2>4. ScannedTo(s, i, new)
      BY <1>5, <1>6, <1>7, <2>2, <2>3, Zenon DEF ScannedTo, now
    <2> QED
      BY <2>1, <2>4 DEF new
  <1>10. CASE ~state.inArg /\ s[i] \in White
    <2>1. Scanned(s, i, state) = state
      BY <1>10 DEF Scanned
    <2>2. now = until
      BY <1>3, <1>4, <1>10
    <2> QED
      BY <1>5, <1>10, <2>1, <2>2, Zenon DEF ScannedTo, now
  <1>11. CASE ~state.inArg /\ s[i] \notin White
    <2> DEFINE new == [starts |-> Append(state.starts, i), inArg |-> TRUE]
    <2>1. Scanned(s, i, state) = new
      BY <1>11 DEF Scanned
    <2>2. now = until \cup {i}
      BY <1>3, <1>4, <1>5, <1>7, <1>11
    <2>3. state.starts \in Seq(LinePlaces)
      BY <1>5 DEF Scans
    <2>4. InOrder(Append(state.starts, i), now)
      BY <1>1, <1>5, <1>8, <2>2, <2>3, OrderedAppend
    <2>5. new \in Scans /\ new.starts = Append(state.starts, i) /\ new.inArg = TRUE
      BY <1>1, <2>3 DEF Scans
    <2> HIDE DEF new
    <2>6. ScannedTo(s, i, new)
      BY <1>7, <1>11, <2>4, <2>5, Zenon DEF ScannedTo, now
    <2> QED
      BY <2>1, <2>6
  <1> QED
    BY <1>9, <1>10, <1>11

\* There is a pass over the line, and there is only one.
LEMMA HasScan ==
    ASSUME NEW s \in Seq(Letter), NEW n \in 0..Len(s)
    PROVE  \E f : IsScan(f, s, n) /\ \A i \in 0..n : ScannedTo(s, i, f[i])
  <1> DEFINE Scanning(f, k) == IsScan(f, s, k) /\ \A i \in 0..k : ScannedTo(s, i, f[i])
             none == {k \in 0..Len(s) : ~\E f : Scanning(f, k)}
  <1>0. Len(s) \in Nat
    OBVIOUS
  <1> SUFFICES ASSUME none # {} PROVE FALSE
    OBVIOUS
  <1>1. PICK k \in none : \A j \in none : k <= j
    <2>1. none \in SUBSET Nat
      BY <1>0
    <2> HIDE DEF none
    <2> QED
      BY <2>1, LeastOf
  <1>2. CASE k = 0
    <2> DEFINE f == [i \in 0..0 |-> NoWord]
    <2>1. f = [i \in 0..0 |-> f[i]] /\ f[0] = NoWord /\ 1..0 = {} /\ 0..0 = {0}
      OBVIOUS
    <2>2. NoWord \in Scans /\ NoWord.inArg = FALSE /\ NoWord.starts = <<>>
      BY DEF NoWord, Scans
    <2>3. {j \in WordStarts(s) : j <= 0} = {}
      BY DEF WordStarts
    <2>4. InOrder(<<>>, {})
      BY DEF InOrder
    <2>5. ScannedTo(s, 0, NoWord)
      BY <2>2, <2>3, <2>4, Zenon DEF ScannedTo
    <2> HIDE DEF f
    <2>6. Scanning(f, 0)
      BY <2>1, <2>5 DEF IsScan
    <2> QED
      BY <1>1, <1>2, <2>6
  <1>3. CASE k # 0
    <2>1. k \in 1..Len(s) /\ k - 1 \in 0..Len(s) /\ ~(k - 1 \in none) /\ k \in Nat
      BY <1>0, <1>1, <1>3
    <2>2. PICK f : Scanning(f, k - 1)
      BY <2>1
    <2> DEFINE last == Scanned(s, k, f[k - 1])
               h == [i \in 0..k |-> IF i = k THEN last ELSE f[i]]
    <2>3. /\ \A i \in 0..k : i # k => i \in 0..(k - 1)
          /\ \A i \in 1..k : i - 1 \in 0..(k - 1) /\ i \in 0..k /\ i - 1 # k /\ i - 1 \in 0..k
          /\ \A i \in 1..k : i # k => i \in 1..(k - 1)
          /\ k \in 0..k /\ 0 \in 0..k /\ k - 1 \in 0..(k - 1)
      BY <2>1
    <2>4. \A i \in 0..k : h[i] = IF i = k THEN last ELSE f[i]
      OBVIOUS
    <2>5. h = [i \in 0..k |-> h[i]]
      OBVIOUS
    <2>6. ScannedTo(s, k, last)
      BY <2>1, <2>2, <2>3, ScansOn
    <2> HIDE DEF h
    <2>7. h[0] = NoWord
      BY <1>3, <2>2, <2>3, <2>4 DEF IsScan
    <2>8. ASSUME NEW i \in 1..k PROVE h[i] = Scanned(s, i, h[i - 1])
      <3>1. h[i - 1] = f[i - 1]
        BY <2>3, <2>4
      <3>2. CASE i = k
        BY <2>3, <2>4, <3>1, <3>2
      <3>3. CASE i # k
        BY <2>2, <2>3, <2>4, <3>1, <3>3 DEF IsScan
      <3> QED
        BY <3>2, <3>3
    <2> HIDE DEF last
    <2>9. ASSUME NEW i \in 0..k PROVE ScannedTo(s, i, h[i])
      <3>1. CASE i = k
        BY <2>4, <2>6, <3>1
      <3>2. CASE i # k
        BY <2>2, <2>3, <2>4, <3>2
      <3> QED
        BY <3>1, <3>2
    <2>10. Scanning(h, k)
      BY <2>5, <2>7, <2>8, <2>9 DEF IsScan
    <2> QED
      BY <1>1, <2>10
  <1> QED
    BY <1>2, <1>3

LEMMA SameScan ==
    ASSUME NEW s, NEW n \in Nat, NEW f, NEW h, IsScan(f, s, n), IsScan(h, s, n)
    PROVE  f = h
  <1> DEFINE apart == {k \in 0..n : f[k] # h[k]}
  <1>1. CASE apart # {}
    <2>1. apart \in SUBSET Nat
      OBVIOUS
    <2>2. PICK k \in apart : \A j \in apart : k <= j
      BY <1>1, <2>1, LeastOf
    <2>3. k # 0
      BY <2>2 DEF IsScan
    <2>4. k \in 1..n /\ k - 1 \in 0..n /\ ~(k - 1 \in apart)
      BY <2>2, <2>3
    <2>5. f[k - 1] = h[k - 1]
      BY <2>4
    <2>6. f[k] = h[k]
      BY <2>4, <2>5 DEF IsScan
    <2> QED
      BY <2>2, <2>6
  <1>2. CASE apart = {}
    <2>1. \A k \in 0..n : f[k] = h[k]
      BY <1>2
    <2> QED
      BY <2>1, Zenon DEF IsScan
  <1> QED
    BY <1>1, <1>2

\* An enumeration of a set has as many places as the set has elements.
LEMMA OrderedCounts ==
    ASSUME NEW places \in Seq(LinePlaces), NEW S, InOrder(places, S)
    PROVE  IsFiniteSet(S) /\ Cardinality(S) = Len(places)
  <1>1. Len(places) \in Nat /\ DOMAIN places = 1..Len(places)
    OBVIOUS
  <1>2. \A i, j \in 1..Len(places) : places[i] = places[j] => i = j
    <2> SUFFICES ASSUME NEW i \in 1..Len(places), NEW j \in 1..Len(places), i # j
                 PROVE  places[i] # places[j]
      OBVIOUS
    <2>1. i < j \/ j < i
      OBVIOUS
    <2>2. places[i] < places[j] \/ places[j] < places[i]
      BY <1>1, <2>1 DEF InOrder
    <2>3. places[i] \in Nat /\ places[j] \in Nat
      BY <1>1 DEF LinePlaces
    <2> QED
      BY <2>2, <2>3
  <1>3. S = {places[i] : i \in 1..Len(places)}
    BY <1>1 DEF InOrder
  <1>4. places \in Bijection(1..Len(places), S)
    <2>1. places \in [1..Len(places) -> S]
      BY <1>1, <1>3
    <2>2. \A x \in S : \E i \in 1..Len(places) : places[i] = x
      BY <1>3
    <2> QED
      BY <1>2, <2>1, <2>2 DEF Bijection, Injection, Surjection, IsInjective
  <1>5. ExistsBijection(1..Len(places), S)
    BY <1>4 DEF ExistsBijection
  <1>6. IsFiniteSet(1..Len(places)) /\ Cardinality(1..Len(places)) = Len(places)
    <2>1. \A n \in Nat : IsFiniteSet(1..n) /\ Cardinality(1..n) = IF 1 > n THEN 0 ELSE n - 1 + 1
      BY FS_Interval
    <2>2. \A n \in Nat : (IF 1 > n THEN 0 ELSE n - 1 + 1) = n
      OBVIOUS
    <2> QED
      BY <1>1, <2>1, <2>2
  <1> QED
    BY <1>5, <1>6, FS_Bijection

\* makeArgs() finds where the words of a line start, in order.
LEMMA MakeArgsFinds ==
    ASSUME NEW s \in Seq(Letter)
    PROVE  /\ makeArgs(s) \in Seq(LinePlaces)
           /\ InOrder(makeArgs(s), WordStarts(s))
           /\ Len(makeArgs(s)) = Cardinality(WordStarts(s))
  <1> DEFINE n == Len(s)
             Pass(g) == [i \in 0..n |-> IF i = 0 THEN NoWord ELSE Scanned(s, i, g[i - 1])]
             c == CHOOSE g : g = Pass(g)
  <1>0. n \in Nat /\ n \in 0..n
    OBVIOUS
  <1>1. makeArgs(s) = c[n].starts
    BY Zenon DEF makeArgs, NoWord
  <1>2. PICK f : IsScan(f, s, n) /\ \A i \in 0..n : ScannedTo(s, i, f[i])
    BY <1>0, HasScan
  <1>3. \A i \in 0..n : i # 0 => i \in 1..n
    BY <1>0
  <1>4. \A i \in 1..n : i # 0 /\ i \in 0..n
    BY <1>0
  <1>5. f = Pass(f)
    <2>1. \A i \in 0..n : f[i] = IF i = 0 THEN NoWord ELSE Scanned(s, i, f[i - 1])
      BY <1>2, <1>3 DEF IsScan
    <2>2. f = [i \in 0..n |-> f[i]]
      BY <1>2 DEF IsScan
    <2> QED
      BY <2>1, <2>2, Zenon
  <1>6. c = Pass(c)
    BY <1>5, Zenon
  <1>7. IsScan(c, s, n)
    <2> HIDE DEF c
    <2>1. \A i \in 0..n : c[i] = IF i = 0 THEN NoWord ELSE Scanned(s, i, c[i - 1])
      BY <1>6, Zenon
    <2>2. c = [i \in 0..n |-> c[i]]
      BY <1>6, Zenon
    <2>3. c[0] = NoWord
      BY <1>0, <2>1
    <2>4. \A i \in 1..n : c[i] = Scanned(s, i, c[i - 1])
      BY <1>4, <2>1, Zenon
    <2> QED
      BY <2>2, <2>3, <2>4, Zenon DEF IsScan
  <1>8. ScannedTo(s, n, c[n])
    <2> HIDE DEF c
    <2>1. c = f
      BY <1>0, <1>2, <1>7, SameScan
    <2> QED
      BY <1>0, <1>2, <2>1
  <1> HIDE DEF c
  <1>9. {j \in WordStarts(s) : j <= n} = WordStarts(s)
    <2>1. \A j \in WordStarts(s) : j <= n
      BY <1>0 DEF WordStarts
    <2> QED
      BY <2>1
  <1>10. makeArgs(s) \in Seq(LinePlaces) /\ InOrder(makeArgs(s), WordStarts(s))
    BY <1>1, <1>8, <1>9 DEF ScannedTo, Scans
  <1> QED
    BY <1>10, OrderedCounts

(***************************************************************************)
(* The table.                                                              *)
(***************************************************************************)
Messages == {"blank", "unknown", "ambiguous", "too few", "too many"}

HandlerNames == {"binaryFn", "bootFn", "cpuFn", "decimalFn", "diskFn", "dumpFn", "goFn",
                 "hexadecimalFn", "loadFn", "radixFn", "registersFn", "unassembleFn",
                 "windowFn", "zobFn", "helpFn"}

CommandOK(c) ==
    /\ c.min = 0 /\ c.max \in 0..2
    /\ c.handler \notin Messages /\ c.handler \in HandlerNames
    /\ c.name \in Seq(Nat)

LEMMA CommandIs ==
    ASSUME NEW handler \in HandlerNames, NEW name \in Seq(Nat), NEW max \in 0..2
    PROVE  CommandOK(Command(handler, name, 0, max))
  <1>1. handler \notin Messages
    BY Zenon DEF HandlerNames, Messages
  <1> QED
    BY <1>1 DEF CommandOK, Command

LEMMA TableIs ==
    /\ DOMAIN cmd_table = 1..15
    /\ \A i \in 1..15 : CommandOK(cmd_table[i])
  <1>1. DOMAIN cmd_table = 1..15
    BY DEF cmd_table
  <1>2. CommandOK(cmd_table[1])
    <2> DEFINE name == <<98, 105, 110, 97, 114, 121>>
    <2>1. cmd_table[1] = Command("binaryFn", name, 0, 0)
      BY DEF cmd_table
    <2>2. "binaryFn" \in HandlerNames /\ name \in Seq(Nat) /\ 0 \in 0..2
      BY DEF HandlerNames
    <2> HIDE DEF name
    <2> QED
      BY <2>1, <2>2, CommandIs, Zenon
  <1>3. CommandOK(cmd_table[2])
    <2> DEFINE name == <<98, 111, 111, 116>>
    <2>1. cmd_table[2] = Command("bootFn", name, 0, 0)
      BY DEF cmd_table
    <2>2. "bootFn" \in HandlerNames /\ name \in Seq(Nat) /\ 0 \in 0..2
      BY DEF HandlerNames
    <2> HIDE DEF name
    <2> QED
      BY <2>1, <2>2, CommandIs, Zenon
  <1>4. CommandOK(cmd_table[3])
    <2> DEFINE name == <<99, 112, 117>>
    <2>1. cmd_table[3] = Command("cpuFn", name, 0, 0)
      BY DEF cmd_table
    <2>2. "cpuFn" \in HandlerNames /\ name \in Seq(Nat) /\ 0 \in 0..2
      BY DEF HandlerNames
    <2> HIDE DEF name
    <2> QED
      BY <2>1, <2>2, CommandIs, Zenon
  <1>5. CommandOK(cmd_table[4])
    <2> DEFINE name == <<100, 101, 99, 105, 109, 97, 108>>
    <2>1. cmd_table[4] = Command("decimalFn", name, 0, 0)
      BY DEF cmd_table
    <2>2. "decimalFn" \in HandlerNames /\ name \in Seq(Nat) /\ 0 \in 0..2
      BY DEF HandlerNames
    <2> HIDE DEF name
    <2> QED
      BY <2>1, <2>2, CommandIs, Zenon
  <1>6. CommandOK(cmd_table[5])
    <2> DEFINE name == <<100, 105, 115, 107>>
    <2>1. cmd_table[5] = Command("diskFn", name, 0, 0)
      BY DEF cmd_table
    <2>2. "diskFn" \in HandlerNames /\ name \in Seq(Nat) /\ 0 \in 0..2
      BY DEF HandlerNames
    <2> HIDE DEF name
    <2> QED
      BY <2>1, <2>2, CommandIs, Zenon
  <1>7. CommandOK(cmd_table[6])
    <2> DEFINE name == <<100, 117, 109, 112>>
    <2>1. cmd_table[6] = Command("dumpFn", name, 0, 2)
      BY DEF cmd_table
    <2>2. "dumpFn" \in HandlerNames /\ name \in Seq(Nat) /\ 2 \in 0..2
      BY DEF HandlerNames
    <2> HIDE DEF name
    <2> QED
      BY <2>1, <2>2, CommandIs, Zenon
  <1>8. CommandOK(cmd_table[7])
    <2> DEFINE name == <<103, 111>>
    <2>1. cmd_table[7] = Command("goFn", name, 0, 1)
      BY DEF cmd_table
    <2>2. "goFn" \in HandlerNames /\ name \in Seq(Nat) /\ 1 \in 0..2
      BY DEF HandlerNames
    <2> HIDE DEF name
    <2> QED
      BY <2>1, <2>2, CommandIs, Zenon
  <1>9. CommandOK(cmd_table[8])
    <2> DEFINE name == <<104, 101, 120, 97, 100, 101, 99, 105, 109, 97, 108>>
    <2>1. cmd_table[8] = Command("hexadecimalFn", name, 0, 0)
      BY DEF cmd_table
    <2>2. "hexadecimalFn" \in HandlerNames /\ name \in Seq(Nat) /\ 0 \in 0..2
      BY DEF HandlerNames
    <2> HIDE DEF name
    <2> QED
      BY <2>1, <2>2, CommandIs, Zenon
  <1>10. CommandOK(cmd_table[9])
    <2> DEFINE name == <<108, 111, 97, 100>>
    <2>1. cmd_table[9] = Command("loadFn", name, 0, 1)
      BY DEF cmd_table
    <2>2. "loadFn" \in HandlerNames /\ name \in Seq(Nat) /\ 1 \in 0..2
      BY DEF HandlerNames
    <2> HIDE DEF name
    <2> QED
      BY <2>1, <2>2, CommandIs, Zenon
  <1>11. CommandOK(cmd_table[10])
    <2> DEFINE name == <<114, 97, 100, 105, 120>>
    <2>1. cmd_table[10] = Command("radixFn", name, 0, 1)
      BY DEF cmd_table
    <2>2. "radixFn" \in HandlerNames /\ name \in Seq(Nat) /\ 1 \in 0..2
      BY DEF HandlerNames
    <2> HIDE DEF name
    <2> QED
      BY <2>1, <2>2, CommandIs, Zenon
  <1>12. CommandOK(cmd_table[11])
    <2> DEFINE name == <<114, 101, 103, 105, 115, 116, 101, 114, 115>>
    <2>1. cmd_table[11] = Command("registersFn", name, 0, 0)
      BY DEF cmd_table
    <2>2. "registersFn" \in HandlerNames /\ name \in Seq(Nat) /\ 0 \in 0..2
      BY DEF HandlerNames
    <2> HIDE DEF name
    <2> QED
      BY <2>1, <2>2, CommandIs, Zenon
  <1>13. CommandOK(cmd_table[12])
    <2> DEFINE name == <<117, 110, 97, 115, 115, 101, 109, 98, 108, 101>>
    <2>1. cmd_table[12] = Command("unassembleFn", name, 0, 1)
      BY DEF cmd_table
    <2>2. "unassembleFn" \in HandlerNames /\ name \in Seq(Nat) /\ 1 \in 0..2
      BY DEF HandlerNames
    <2> HIDE DEF name
    <2> QED
      BY <2>1, <2>2, CommandIs, Zenon
  <1>14. CommandOK(cmd_table[13])
    <2> DEFINE name == <<119, 105, 110, 100, 111, 119>>
    <2>1. cmd_table[13] = Command("windowFn", name, 0, 1)
      BY DEF cmd_table
    <2>2. "windowFn" \in HandlerNames /\ name \in Seq(Nat) /\ 1 \in 0..2
      BY DEF HandlerNames
    <2> HIDE DEF name
    <2> QED
      BY <2>1, <2>2, CommandIs, Zenon
  <1>15. CommandOK(cmd_table[14])
    <2> DEFINE name == <<122, 111, 98>>
    <2>1. cmd_table[14] = Command("zobFn", name, 0, 0)
      BY DEF cmd_table
    <2>2. "zobFn" \in HandlerNames /\ name \in Seq(Nat) /\ 0 \in 0..2
      BY DEF HandlerNames
    <2> HIDE DEF name
    <2> QED
      BY <2>1, <2>2, CommandIs, Zenon
  <1>16. CommandOK(cmd_table[15])
    <2> DEFINE name == <<104, 101, 108, 112>>
    <2>1. cmd_table[15] = Command("helpFn", name, 0, 0)
      BY DEF cmd_table
    <2>2. "helpFn" \in HandlerNames /\ name \in Seq(Nat) /\ 0 \in 0..2
      BY DEF HandlerNames
    <2> HIDE DEF name
    <2> QED
      BY <2>1, <2>2, CommandIs, Zenon
  <1> QED
    BY <1>1, <1>2, <1>3, <1>4, <1>5, <1>6, <1>7, <1>8, <1>9, <1>10, <1>11, <1>12, <1>13, <1>14, <1>15, <1>16

\* singleMatch() accepts the beginnings of a name.
LEMMA MatchIsBeginning ==
    ASSUME NEW word \in Seq(Nat), NEW name \in Seq(Nat)
    PROVE  singleMatch(word, name)
             <=> name = word \o SubSeq(name, Len(word) + 1, Len(name))
  <1> DEFINE m == Len(word)
             n == Len(name)
             rest == SubSeq(name, m + 1, n)
             both == word \o rest
  <1>1. /\ m \in Nat /\ n \in Nat /\ DOMAIN word = 1..m /\ DOMAIN name = 1..n
        /\ \A i \in 1..n : name[i] \in Nat
    OBVIOUS
  <1>2. /\ rest \in Seq(Nat) /\ Len(rest) = IF m + 1 <= n THEN n - (m + 1) + 1 ELSE 0
        /\ \A i \in 1..n - (m + 1) + 1 : rest[i] = name[m + 1 + i - 1]
    <2> HIDE DEF m, n
    <2>1. m + 1 \in 1..n + 1 \/ m + 1 > n
      BY <1>1
    <2>2. \A i \in m + 1..n : name[i] \in Nat
      BY <1>1
    <2> QED
      BY <1>1, <2>2, SubSeqProperties DEF n
  <1> HIDE DEF rest
  <1>3. /\ both \in Seq(Nat) /\ Len(both) = m + Len(rest)
        /\ \A i \in 1..m + Len(rest) : both[i] = IF i <= m THEN word[i] ELSE rest[i - m]
    BY <1>2, ConcatProperties
  <1> HIDE DEF both, m, n
  <1>4. ASSUME singleMatch(word, name) PROVE name = both
    <2>1. \A i \in 1..m : i \in 1..n /\ word[i] = name[i]
      BY <1>1, <1>4, Zenon DEF singleMatch
    <2>2. m <= n
      <3>1. CASE m = 0
        BY <1>1, <3>1
      <3>2. CASE m # 0
        BY <1>1, <2>1, <3>2
      <3> QED
        BY <3>1, <3>2
    <2>3. Len(both) = n
      BY <1>1, <1>2, <1>3, <2>2
    <2>4. ASSUME NEW i \in 1..n PROVE name[i] = both[i]
      <3>1. CASE i <= m
        <4>1. i \in 1..m + Len(rest) /\ i \in 1..m
          BY <1>1, <1>2, <2>2, <3>1
        <4> QED
          BY <1>3, <2>1, <3>1, <4>1
      <3>2. CASE i > m
        <4>1. /\ i \in 1..m + Len(rest) /\ i - m \in 1..n - (m + 1) + 1 /\ ~(i <= m)
              /\ m + 1 + (i - m) - 1 = i
          BY <1>1, <1>2, <2>2, <3>2
        <4> QED
          BY <1>2, <1>3, <4>1
      <3> QED
        BY <1>1, <3>1, <3>2
    <2> QED
      BY <1>3, <2>3, <2>4, SeqEqual DEF n
  <1>5. ASSUME name = both, NEW i \in DOMAIN word
        PROVE  i \in DOMAIN name /\ word[i] = name[i]
    <2>1. Len(rest) \in Nat
      BY <1>2
    <2>2. Len(name) = m + Len(rest)
      BY <1>3, <1>5
    <2>3. i \in 1..m /\ n = m + Len(rest)
      BY <1>1, <2>2 DEF n
    <2>4. i \in 1..n /\ i <= m /\ i \in 1..m + Len(rest)
      BY <1>1, <2>1, <2>3
    <2> QED
      BY <1>1, <1>3, <1>5, <2>4
  <1> QED
    BY <1>4, <1>5 DEF singleMatch, both, rest, m, n

LEMMA MinIs ==
    ASSUME NEW S \in SUBSET Nat, S # {}
    PROVE  Min(S) \in S /\ \A i \in S : Min(S) <= i
  <1>1. \E i \in S : \A j \in S : i <= j
    BY LeastOf
  <1> QED
    BY <1>1 DEF Min

LEMMA ArgIs ==
    ASSUME NEW s \in Seq(Letter), NEW i \in 1..Len(s)
    PROVE  ArgAt(s, i) \in Seq(Letter)
  <1> DEFINE ends == {j \in i..Len(s) : s[j] \in White \cup {CR}}
             n == IF ends = {} THEN Len(s) ELSE Min(ends) - 1
  <1>1. ArgAt(s, i) = SubSeq(s, i, n)
    BY Zenon DEF ArgAt
  <1>2. Len(s) \in Nat /\ \A j \in 1..Len(s) : s[j] \in Letter
    OBVIOUS
  <1>3. n \in Int /\ n <= Len(s)
    <2>1. CASE ends = {}
      BY <1>2, <2>1
    <2>2. CASE ends # {}
      <3>1. ends \in SUBSET Nat
        OBVIOUS
      <3> HIDE DEF ends
      <3>2. Min(ends) \in ends
        BY <2>2, <3>1, MinIs
      <3> USE DEF ends
      <3>3. Min(ends) \in i..Len(s)
        BY <3>2
      <3> HIDE DEF ends
      <3> QED
        BY <1>2, <2>2, <3>3
    <2> QED
      BY <2>1, <2>2
  <1> HIDE DEF n
  <1>4. \A j \in i..n : s[j] \in Letter
    BY <1>2, <1>3
  <1> QED
    BY <1>1, <1>3, <1>4, SubSeqProperties

(***************************************************************************)
(* The first word and the command it means.                                *)
(***************************************************************************)
LEMMA BlankIs ==
    ASSUME NEW s \in Seq(Letter)
    PROVE  isBlankLine(s) <=> WordStarts(s) = {}
  <1>1. Len(s) \in Nat /\ DOMAIN s = 1..Len(s)
    OBVIOUS
  <1>2. \A i \in 1..Len(s) : s[i] \in White \cup {CR} <=> s[i] \in White
    BY LettersAre
  <1>3. ASSUME isBlankLine(s) PROVE WordStarts(s) = {}
    BY <1>1, <1>2, <1>3 DEF isBlankLine, WordStarts
  <1>4. ASSUME ~isBlankLine(s) PROVE WordStarts(s) # {}
    <2> DEFINE black == {i \in 1..Len(s) : s[i] \notin White}
    <2>1. black # {}
      BY <1>1, <1>2, <1>4 DEF isBlankLine
    <2>2. black \in SUBSET Nat
      OBVIOUS
    <2>3. PICK i \in black : \A j \in black : i <= j
      BY <2>1, <2>2, LeastOf
    <2>4. i = 1 \/ (i - 1 \in 1..Len(s) /\ ~(i <= i - 1))
      BY <1>1, <2>3
    <2>5. i = 1 \/ s[i - 1] \in White
      BY <2>3, <2>4
    <2>6. i \in WordStarts(s)
      BY <1>1, <2>3, <2>5 DEF WordStarts
    <2> QED
      BY <2>6
  <1> QED
    BY <1>3, <1>4

LEMMA FirstIs ==
    ASSUME NEW s \in Seq(Letter), WordStarts(s) # {}
    PROVE  /\ makeArgs(s)[1] = Min(WordStarts(s))
           /\ Min(WordStarts(s)) \in 1..Len(s)
           /\ Len(makeArgs(s)) >= 1
  <1> DEFINE places == makeArgs(s)
             S == WordStarts(s)
             first == Min(S)
  <1>1. places \in Seq(LinePlaces) /\ InOrder(places, S)
    BY MakeArgsFinds
  <1>2. S \in SUBSET (1..Len(s)) /\ S \in SUBSET Nat
    BY DEF WordStarts
  <1> HIDE DEF places, S
  <1>3. first \in S /\ \A i \in S : first <= i
    BY <1>2, MinIs DEF S
  <1>4. Len(places) \in Nat /\ DOMAIN places = 1..Len(places)
    BY <1>1
  <1>5. PICK i \in 1..Len(places) : places[i] = first
    BY <1>1, <1>3, <1>4 DEF InOrder
  <1>6. 1 \in 1..Len(places) /\ Len(places) >= 1
    BY <1>4, <1>5
  <1>7. places[1] \in S
    BY <1>1, <1>4, <1>6 DEF InOrder
  <1>8. first <= places[1] /\ first \in Nat /\ places[1] \in Nat
    BY <1>2, <1>3, <1>7
  <1>9. 1 < i => places[1] < places[i]
    BY <1>1, <1>4, <1>5, <1>6 DEF InOrder
  <1>10. places[1] <= first
    <2>1. CASE i = 1
      BY <1>5, <1>8, <2>1
    <2>2. CASE i # 1
      <3>1. 1 < i
        BY <1>4, <1>5, <2>2
      <3> QED
        BY <1>5, <1>8, <1>9, <3>1
    <2> QED
      BY <2>1, <2>2
  <1>11. places[1] = first
    BY <1>8, <1>10
  <1> QED
    BY <1>2, <1>3, <1>6, <1>11 DEF places, S

\* matchCommand() finds the commands whose name the first word begins.
LEMMA MatchesAreMeant ==
    ASSUME NEW s \in Seq(Letter), WordStarts(s) # {}
    PROVE  /\ matches(ArgAt(s, makeArgs(s)[1])) = Meant(s)
           /\ Meant(s) \in SUBSET (1..15)
  <1> DEFINE word == ArgAt(s, Min(WordStarts(s)))
             Rest(i) == SubSeq(cmd_table[i].name, Len(word) + 1, Len(cmd_table[i].name))
  <1>1. word \in Seq(Letter)
    BY FirstIs, ArgIs
  <1>2. Letter \in SUBSET Nat
    BY DEF Letter, SPACE, DEL
  <1>3. word \in Seq(Nat)
    <2> HIDE DEF word
    <2> QED
      BY <1>1, <1>2, SeqMonotonic, Zenon
  <1>4. ArgAt(s, makeArgs(s)[1]) = word
    BY FirstIs
  <1>5. Meant(s) = {i \in DOMAIN cmd_table :
                       \E rest \in {Rest(i)} : cmd_table[i].name = word \o rest}
    BY Zenon DEF Meant
  <1> HIDE DEF word
  <1>6. ASSUME NEW i \in 1..15
        PROVE  singleMatch(word, cmd_table[i].name)
                 <=> \E rest \in {Rest(i)} : cmd_table[i].name = word \o rest
    <2>1. cmd_table[i].name \in Seq(Nat)
      BY TableIs DEF CommandOK
    <2>2. singleMatch(word, cmd_table[i].name) <=> cmd_table[i].name = word \o Rest(i)
      BY <1>3, <2>1, MatchIsBeginning
    <2> QED
      BY <2>2, Zenon
  <1> HIDE DEF Rest
  <1>7. matches(word) = Meant(s)
    BY <1>5, <1>6, TableIs, Zenon DEF matches
  <1> QED
    BY <1>4, <1>5, <1>7, TableIs

LEMMA ManyAreTwo ==
    ASSUME NEW S \in SUBSET (1..15)
    PROVE  Cardinality(S) > 1 <=> \E i, j \in S : i # j
  <1>1. IsFiniteSet(S) /\ Cardinality(S) \in Nat
    <2>1. IsFiniteSet(1..15)
      <3>1. 1 \in Int /\ 15 \in Int
        OBVIOUS
      <3> QED
        BY <3>1, FS_Interval, Zenon
    <2> QED
      BY <2>1, FS_Subset, FS_CardinalityType
  <1>2. ASSUME Cardinality(S) > 1 PROVE \E i, j \in S : i # j
    <2>1. CASE S = {}
      BY <1>2, <2>1, FS_EmptySet
    <2>2. CASE S # {}
      <3>1. PICK i : i \in S
        BY <2>2
      <3>2. S # {i}
        <4>1. Cardinality({i}) = 1
          BY FS_Singleton
        <4> QED
          BY <1>2, <4>1
      <3> QED
        BY <3>1, <3>2
    <2> QED
      BY <2>1, <2>2
  <1>3. ASSUME NEW i \in S, NEW j \in S, i # j PROVE Cardinality(S) > 1
    <2>1. IsFiniteSet({i}) /\ Cardinality({i}) = 1
      BY FS_Singleton
    <2>2. Cardinality({i} \cup {j}) = Cardinality({i}) + 1
      BY <1>3, <2>1, FS_AddElement
    <2>3. {i} \cup {j} \in SUBSET S
      OBVIOUS
    <2>4. Cardinality({i} \cup {j}) <= Cardinality(S)
      BY <1>1, <2>3, FS_Subset
    <2> QED
      BY <1>1, <2>1, <2>2, <2>4
  <1> QED
    BY <1>2, <1>3

\* What DispatchIsLookup says of a line that is not blank.
Looked(found, n) ==
    IF found = {} THEN "unknown"
    ELSE IF \E i, j \in found : i # j THEN "ambiguous"
    ELSE LET c == cmd_table[CHOOSE i \in found : TRUE]
         IN  IF n < c.min THEN "too few"
             ELSE IF n > c.max THEN "too many" ELSE c.handler

LEMMA VerdictIs ==
    ASSUME NEW S \in SUBSET (1..15), NEW n \in Nat
    PROVE  Verdict(S, n) = Looked(S, n - 1)
  <1> DEFINE many == Cardinality(S) > 1
             last == Max(S)
             one == CHOOSE i \in S : TRUE
             few(k) == n - 1 < cmd_table[k].min
             over(k) == n - 1 > cmd_table[k].max
             two == \E i, j \in S : i # j
  <1>1. Verdict(S, n) = IF S = {} THEN "unknown"
                        ELSE IF many THEN "ambiguous"
                        ELSE IF few(last) THEN "too few"
                        ELSE IF over(last) THEN "too many"
                        ELSE cmd_table[last].handler
    BY DEF Verdict
  <1>2. Looked(S, n - 1) = IF S = {} THEN "unknown"
                           ELSE IF two THEN "ambiguous"
                           ELSE IF few(one) THEN "too few"
                           ELSE IF over(one) THEN "too many"
                           ELSE cmd_table[one].handler
    BY DEF Looked
  <1>3. many <=> two
    BY ManyAreTwo
  <1>4. ASSUME S # {}, ~two PROVE last = one
    <2>1. PICK i \in 1..15 : i \in S
      BY <1>4
    <2>2. \A j \in S : j = i
      BY <1>4, <2>1
    <2>3. \A j \in S : i >= j
      BY <2>1, <2>2
    <2>4. last \in S
      BY <2>1, <2>3 DEF Max
    <2>5. one \in S
      BY <2>1
    <2> QED
      BY <2>2, <2>4, <2>5
  <1>5. ~many => (S = {}) \/ last = one
    BY <1>3, <1>4
  <1> HIDE DEF many, two, last, one, few, over
  <1>7. CASE S = {}
    BY <1>1, <1>2, <1>7, Zenon
  <1>8. CASE S # {} /\ two
    BY <1>1, <1>2, <1>3, <1>8, Zenon
  <1>9. CASE S # {} /\ ~two
    <2>1. last = one
      BY <1>5, <1>3, <1>9
    <2> DEFINE rest == IF few(one) THEN "too few"
                       ELSE IF over(one) THEN "too many"
                       ELSE cmd_table[one].handler
    <2>2. Verdict(S, n) = rest
      BY <1>1, <1>3, <1>9, <2>1, Zenon
    <2>3. Looked(S, n - 1) = rest
      BY <1>2, <1>9, Zenon
    <2> HIDE DEF rest
    <2> QED
      BY <2>2, <2>3, Zenon
  <1> QED
    BY <1>7, <1>8, <1>9, Zenon

\* A handler is called with three words at most.
LEMMA HandlersTakeThree ==
    ASSUME NEW S \in SUBSET (1..15), NEW n \in Nat, Verdict(S, n) \in handlers
    PROVE  n <= 3
  <1>1. Messages \cap handlers = {}
    BY TableIs DEF handlers, CommandOK
  <1>2. "unknown" \in Messages /\ "ambiguous" \in Messages /\ "too many" \in Messages
    BY DEF Messages
  <1>3. Looked(S, n - 1) \notin Messages
    BY <1>1, VerdictIs
  <1>4. S # {} /\ ~(\E i, j \in S : i # j)
    <2>1. CASE S = {}
      BY <1>2, <1>3, <2>1, Zenon DEF Looked
    <2>2. CASE S # {} /\ \E i, j \in S : i # j
      BY <1>2, <1>3, <2>2, Zenon DEF Looked
    <2> QED
      BY <2>1, <2>2
  <1>5. (CHOOSE i \in S : TRUE) \in 1..15
    BY <1>4
  <1> DEFINE k == CHOOSE i \in S : TRUE
             c == cmd_table[k]
  <1>6. Looked(S, n - 1) = IF n - 1 < c.min THEN "too few"
                           ELSE IF n - 1 > c.max THEN "too many" ELSE c.handler
    BY <1>4, Zenon DEF Looked
  <1> HIDE DEF k
  <1>7. CommandOK(c)
    BY <1>5, TableIs, Zenon DEF k
  <1> HIDE DEF c
  <1>8. c.min = 0 /\ c.max \in 0..2
    BY <1>7 DEF CommandOK
  <1>9. ~(n - 1 > c.max)
    <2> SUFFICES ASSUME n - 1 > c.max PROVE FALSE
      OBVIOUS
    <2> DEFINE few == n - 1 < c.min
               over == n - 1 > c.max
    <2>1. ~few
      BY <1>8
    <2>2. over
      OBVIOUS
    <2>3. Looked(S, n - 1) = IF few THEN "too few"
                             ELSE IF over THEN "too many" ELSE c.handler
      BY <1>6, Zenon
    <2> HIDE DEF few, over
    <2>4. Looked(S, n - 1) = "too many"
      BY <2>1, <2>2, <2>3, Zenon
    <2> QED
      BY <1>2, <1>3, <2>4, Zenon
  <1> QED
    BY <1>8, <1>9

(***************************************************************************)
(* What the loop does with a line.                                         *)
(***************************************************************************)

\* argv and spill are the places makeArgs() found, cut where argv is full.
LEMMA CutIs ==
    ASSUME NEW places \in Seq(LinePlaces)
    PROVE  LET m == Min({MaxArgs, Len(places)})
           IN  /\ SubSeq(places, 1, m) \o SubSeq(places, m + 1, Len(places)) = places
               /\ Len(places) <= MaxArgs =>
                     SubSeq(places, m + 1, Len(places)) = <<>>
               /\ SubSeq(places, 1, m) \in Seq(LinePlaces)
               /\ Len(SubSeq(places, 1, m)) <= MaxArgs
               /\ SubSeq(places, m + 1, Len(places)) \in Seq(LinePlaces)
  <1> DEFINE n == Len(places)
             m == Min({MaxArgs, n})
             left == SubSeq(places, 1, m)
             right == SubSeq(places, m + 1, n)
  <1>1. n \in Nat /\ \A i \in 1..n : places[i] \in LinePlaces
    OBVIOUS
  <1>2. MaxArgs \in Nat
    BY CommandLineAssumption
  <1> HIDE DEF n
  <1>3. m \in {MaxArgs, n} /\ m <= MaxArgs /\ m <= n
    <2>1. {MaxArgs, n} \in SUBSET Nat /\ {MaxArgs, n} # {}
      BY <1>1, <1>2
    <2> QED
      BY <2>1, MinIs
  <1> HIDE DEF m
  <1>4. m \in Nat
    BY <1>1, <1>2, <1>3
  <1>5. /\ left \in Seq(LinePlaces) /\ Len(left) = m
        /\ \A i \in 1..m : left[i] = places[i]
    <2>1. \A i \in 1..m : places[i] \in LinePlaces
      BY <1>1, <1>3, <1>4
    <2>2. 1 \in Int /\ m \in Int /\ m - 1 + 1 = m /\ (1 <= m \/ m = 0)
      BY <1>4
    <2>3. /\ left \in Seq(LinePlaces) /\ Len(left) = IF 1 <= m THEN m - 1 + 1 ELSE 0
          /\ \A i \in 1..m - 1 + 1 : left[i] = places[1 + i - 1]
      BY <2>1, <2>2, SubSeqProperties
    <2> QED
      BY <2>2, <2>3, <1>4
  <1>6. /\ right \in Seq(LinePlaces) /\ Len(right) = n - m
        /\ \A i \in 1..n - m : right[i] = places[m + i]
    <2>1. \A i \in m + 1..n : places[i] \in LinePlaces
      BY <1>1, <1>3, <1>4
    <2>2. m + 1 \in Int /\ n \in Int /\ n - (m + 1) + 1 = n - m /\ (m + 1 <= n \/ n - m = 0)
      BY <1>1, <1>3, <1>4
    <2>3. /\ right \in Seq(LinePlaces)
          /\ Len(right) = IF m + 1 <= n THEN n - (m + 1) + 1 ELSE 0
          /\ \A i \in 1..n - (m + 1) + 1 : right[i] = places[m + 1 + i - 1]
      BY <2>1, <2>2, SubSeqProperties
    <2>4. \A i \in 1..n - m : m + 1 + i - 1 = m + i
      BY <1>1, <1>4
    <2> QED
      BY <2>2, <2>3, <2>4, <1>1, <1>3, <1>4
  <1> HIDE DEF left, right
  <1> DEFINE both == left \o right
  <1>7. /\ both \in Seq(LinePlaces) /\ Len(both) = m + (n - m)
        /\ \A i \in 1..m + (n - m) : both[i] = IF i <= m THEN left[i] ELSE right[i - m]
    <2>1. /\ both \in Seq(LinePlaces) /\ Len(both) = Len(left) + Len(right)
          /\ \A i \in 1..Len(left) + Len(right) :
                both[i] = IF i <= Len(left) THEN left[i] ELSE right[i - Len(left)]
      BY <1>5, <1>6, ConcatProperties
    <2> HIDE DEF both
    <2> QED
      BY <1>5, <1>6, <2>1
  <1> HIDE DEF both
  <1>8. Len(both) = n /\ \A i \in 1..n : i \in 1..m + (n - m)
    BY <1>1, <1>4, <1>7
  <1>9. ASSUME NEW i \in 1..n PROVE both[i] = places[i]
    <2>1. CASE i <= m
      <3>1. i \in 1..m
        BY <1>1, <1>4, <2>1
      <3> QED
        BY <1>5, <1>7, <1>8, <2>1, <3>1
    <2>2. CASE ~(i <= m)
      <3>1. i - m \in 1..n - m /\ m + (i - m) = i
        BY <1>1, <1>4, <2>2
      <3> QED
        BY <1>6, <1>7, <1>8, <2>2, <3>1
    <2> QED
      BY <2>1, <2>2
  <1>10. both = places
    BY <1>7, <1>8, <1>9, SeqEqual DEF n
  <1>11. n <= MaxArgs => right = <<>>
    <2> SUFFICES ASSUME n <= MaxArgs PROVE right = <<>>
      OBVIOUS
    <2>1. m = n
      BY <1>1, <1>2, <1>3
    <2>2. Len(right) = 0
      BY <1>1, <1>6, <2>1
    <2> QED
      BY <1>6, <2>2, EmptySeq
  <1>12. /\ left \in Seq(LinePlaces) /\ Len(left) <= MaxArgs
         /\ right \in Seq(LinePlaces)
    BY <1>3, <1>5, <1>6
  <1> QED
    BY <1>10, <1>11, <1>12 DEF n, m, left, right, both

LEMMA RunsTheCommand ==
    ASSUME LineInv, RunCommand
    PROVE  /\ WordStarts(line) # {}
           /\ argc' = Cardinality(WordStarts(line))
           /\ InOrder(argv' \o spill', WordStarts(line))
           /\ outcome' \in handlers => spill' = <<>>
           /\ outcome' = Looked(Meant(line), Cardinality(WordStarts(line)) - 1)
           /\ argv' \in Seq(LinePlaces) /\ Len(argv') <= MaxArgs /\ spill' \in Seq(LinePlaces)
           /\ argc' = Len(argv' \o spill') /\ argc' \in Nat
  <1> DEFINE places == makeArgs(line)
             n == Len(places)
             found == matches(ArgAt(line, places[1]))
  <1>1. line \in Seq(Letter)
    BY DEF LineInv, LineTypes
  <1>2. WordStarts(line) # {}
    BY <1>1, BlankIs DEF RunCommand
  <1>3. /\ places \in Seq(LinePlaces) /\ InOrder(places, WordStarts(line))
        /\ n = Cardinality(WordStarts(line)) /\ n \in Nat
    BY <1>1, MakeArgsFinds
  <1>4. found = Meant(line) /\ found \in SUBSET (1..15)
    BY <1>1, <1>2, MatchesAreMeant
  <1>5. /\ argc' = n
        /\ argv' = SubSeq(places, 1, Min({MaxArgs, n}))
        /\ spill' = SubSeq(places, Min({MaxArgs, n}) + 1, n)
        /\ outcome' = Verdict(found, n)
    BY Zenon DEF RunCommand
  <1> HIDE DEF places, found
  <1>6. /\ argv' \o spill' = places
        /\ n <= MaxArgs => spill' = <<>>
        /\ argv' \in Seq(LinePlaces) /\ Len(argv') <= MaxArgs /\ spill' \in Seq(LinePlaces)
    BY <1>3, <1>5, CutIs
  <1>9. argc' = Len(argv' \o spill') /\ argc' \in Nat
    BY <1>3, <1>5, <1>6
  <1> HIDE DEF n
  <1>7. outcome' \in handlers => spill' = <<>>
    <2> SUFFICES ASSUME outcome' \in handlers PROVE spill' = <<>>
      OBVIOUS
    <2>1. n <= 3
      BY <1>3, <1>4, <1>5, HandlersTakeThree
    <2>2. n <= MaxArgs
      BY <1>3, <2>1, CommandLineAssumption
    <2> QED
      BY <1>6, <2>2
  <1>8. outcome' = Looked(Meant(line), n - 1)
    BY <1>3, <1>4, <1>5, VerdictIs
  <1> QED
    BY <1>2, <1>3, <1>5, <1>6, <1>7, <1>8, <1>9

\* After the end of a line there is nothing but the loop's own steps.
LEMMA DispatchesWhat ==
    ASSUME at = "dispatch", Next PROVE BlankLine \/ RunCommand
  BY DEF Next, Firmware, SwallowLF, rclPrintable, rclDelete, rclNonPrintable, rclEOL,
         GetLChar, Operator

LEMMA WordsAreTaken ==
    ASSUME LineInv, BlankLine \/ RunCommand, outcome' # "blank"
    PROVE  /\ argc' = Cardinality(WordStarts(line))
           /\ InOrder(argv' \o spill', WordStarts(line))
           /\ outcome' \in handlers => spill' = <<>>
  <1>1. RunCommand
    BY DEF BlankLine
  <1> QED
    BY <1>1, RunsTheCommand

(***************************************************************************)
(* The handler finds as many arguments as argc says, argv points at the    *)
(* words of the line, in their order, and no argument of a command that is *)
(* carried out is beyond argv.                                             *)
(***************************************************************************)
THEOREM ArgumentsAreTheWords == Spec => ArgumentsAreWords
  <1>1. ASSUME LineInv, [Next]_vars, at = "dispatch", outcome' # "blank", vars' # vars
        PROVE  /\ argc' = Cardinality(WordStarts(line))
               /\ InOrder(argv' \o spill', WordStarts(line))
               /\ outcome' \in handlers => spill' = <<>>
    <2>1. BlankLine \/ RunCommand
      BY <1>1, DispatchesWhat, Zenon
    <2> QED
      BY <1>1, <2>1, WordsAreTaken
  <1>2. LineInv /\ [Next]_vars =>
            [(at = "dispatch" /\ outcome' # "blank") =>
                /\ argc' = Cardinality(WordStarts(line))
                /\ InOrder(argv' \o spill', WordStarts(line))
                /\ outcome' \in handlers => spill' = <<>>]_vars
    BY <1>1, Zenon
  <1> QED
    BY <1>2, InitEstablishes, NextKeeps, PTL DEF Spec, ArgumentsAreWords

\* What DispatchIsLookup says of any line.
Answer(s) ==
    IF WordStarts(s) = {} THEN "blank"
    ELSE IF Meant(s) = {} THEN "unknown"
    ELSE IF \E i, j \in Meant(s) : i # j THEN "ambiguous"
    ELSE LET c == cmd_table[CHOOSE i \in Meant(s) : TRUE]
             n == Cardinality(WordStarts(s)) - 1
         IN  IF n < c.min THEN "too few"
             ELSE IF n > c.max THEN "too many" ELSE c.handler

LEMMA AnswerIs ==
    ASSUME NEW s, WordStarts(s) # {}
    PROVE  Answer(s) = Looked(Meant(s), Cardinality(WordStarts(s)) - 1)
  BY Zenon DEF Answer, Looked

LEMMA LineIsAnswered ==
    ASSUME LineInv, BlankLine \/ RunCommand PROVE outcome' = Answer(line)
  <1>1. CASE BlankLine
    <2>1. WordStarts(line) = {}
      BY <1>1, BlankIs DEF BlankLine, LineInv, LineTypes
    <2> QED
      BY <1>1, <2>1, Zenon DEF BlankLine, Answer
  <1>2. CASE RunCommand
    BY <1>2, RunsTheCommand, AnswerIs
  <1> QED
    BY <1>1, <1>2

(***************************************************************************)
(* A handler is called exactly for a line that begins with one command's   *)
(* name, or with enough of it, and has as many words as it takes.          *)
(***************************************************************************)
THEOREM CommandsAreLookedUp == Spec => DispatchIsLookup
  <1>1. ASSUME LineInv, [Next]_vars, at = "dispatch", vars' # vars
        PROVE  outcome' = Answer(line)
    <2>1. BlankLine \/ RunCommand
      BY <1>1, DispatchesWhat, Zenon
    <2> QED
      BY <1>1, <2>1, LineIsAnswered
  <1>2. LineInv /\ [Next]_vars => [at = "dispatch" => outcome' = Answer(line)]_vars
    BY <1>1, Zenon
  <1>3. DispatchIsLookup <=> [][at = "dispatch" => outcome' = Answer(line)]_vars
    BY DEF DispatchIsLookup, Answer
  <1> QED
    BY <1>2, <1>3, InitEstablishes, NextKeeps, PTL DEF Spec

-----------------------------------------------------------------------------
(* Recursive functions.                                                    *)

LEMMA UpTo ==
    ASSUME NEW n \in Nat, NEW P, 0 \in P, \A i \in 1..n : i - 1 \in P => i \in P
    PROVE  \A i \in 0..n : i \in P
  <1> DEFINE out == {i \in 0..n : i \notin P}
  <1>1. CASE out = {}
    BY <1>1
  <1>2. CASE out # {}
    <2>1. out \in SUBSET Nat
      OBVIOUS
    <2>2. PICK i \in out : \A j \in out : i <= j
      BY <1>2, <2>1, LeastOf
    <2>3. i \in 1..n /\ i - 1 \in 0..n /\ ~(i <= i - 1)
      BY <2>2
    <2>4. i - 1 \in P
      BY <2>2, <2>3
    <2> QED
      BY <2>2, <2>3, <2>4
  <1> QED
    BY <1>1, <1>2

Steps(n, S) == [1..n -> [S -> S]]
Defined(n, S, start, T) ==
    \E f \in [0..n -> S] : f[0] = start /\ \A i \in 1..n : f[i] = T[i][f[i - 1]]

\* A function is defined by what it is at 0 and how it goes on.
LEMMA Recursion ==
    ASSUME NEW n \in Nat, NEW S, NEW start \in S, NEW T \in Steps(n, S)
    PROVE  Defined(n, S, start, T)
  <1> DEFINE Runs(m, f) == /\ f \in [0..m -> S] /\ f[0] = start
                           /\ \A i \in 1..m : f[i] = T[i][f[i - 1]]
             P == {m \in 0..n : \E f : Runs(m, f)}
  <1>1. 0 \in P
    <2> DEFINE f == [i \in 0..0 |-> start]
    <2>1. Runs(0, f)
      OBVIOUS
    <2>2. 0 \in 0..n
      OBVIOUS
    <2> HIDE DEF f, Runs
    <2> QED
      BY <2>1, <2>2, Zenon
  <1>2. ASSUME NEW m \in 1..n, m - 1 \in P PROVE m \in P
    <2>1. PICK f : Runs(m - 1, f)
      BY <1>2
    <2>2. /\ m \in Nat /\ m \in 0..m /\ 0 \in 0..m /\ 0 # m /\ m - 1 \in 0..(m - 1)
          /\ \A i \in 0..m : i # m => i \in 0..(m - 1)
          /\ \A i \in 1..m : i - 1 \in 0..m /\ i \in 0..m /\ i - 1 # m
          /\ \A i \in 1..m : i # m => i \in 1..(m - 1)
          /\ 0 \in 0..(m - 1) /\ m \in 0..n
      OBVIOUS
    <2> DEFINE last == T[m][f[m - 1]]
               h == [i \in 0..m |-> IF i = m THEN last ELSE f[i]]
    <2>3. last \in S
      <3>1. f[m - 1] \in S
        BY <2>1, <2>2
      <3> QED
        BY <3>1 DEF Steps
    <2>4. h \in [0..m -> S]
      BY <2>1, <2>2, <2>3
    <2>5. \A i \in 0..m : h[i] = IF i = m THEN last ELSE f[i]
      OBVIOUS
    <2> HIDE DEF h
    <2>6. h[0] = start
      BY <2>1, <2>2, <2>5
    <2>7. ASSUME NEW i \in 1..m PROVE h[i] = T[i][h[i - 1]]
      <3>1. h[i - 1] = f[i - 1]
        BY <2>2, <2>5
      <3>2. CASE i = m
        BY <2>2, <2>5, <3>1, <3>2
      <3>3. CASE i # m
        BY <2>1, <2>2, <2>5, <3>1, <3>3
      <3> QED
        BY <3>2, <3>3
    <2>8. Runs(m, h)
      BY <2>4, <2>6, <2>7
    <2> QED
      BY <2>2, <2>8
  <1> HIDE DEF P
  <1>3. n \in P
    <2>1. \A i \in 0..n : i \in P
      BY <1>1, <1>2, UpTo
    <2> QED
      BY <2>1
  <1> USE DEF P
  <1> QED
    BY <1>3 DEF Defined

(***************************************************************************)
(* What a text says.                                                       *)
(***************************************************************************)
\* v is the value of the text's first digits, 0 to all of them.
Values(v, s, r) ==
    /\ v \in [0..Len(s) -> Int] /\ v[0] = 0
    /\ \A i \in 1..Len(s) : v[i] = r * v[i - 1] + DigitValue(s[i])

LEMMA DigitValueIs == ASSUME NEW c \in Int PROVE DigitValue(c) \in Int
  BY DEF DigitValue, Zero

LEMMA ValueIs ==
    ASSUME NEW s \in Seq(Int), NEW r \in Int
    PROVE  \E v : Values(v, s, r) /\ ValueIn(s, r) = v[Len(s)]
  <1> DEFINE n == Len(s)
             T == [i \in 1..n |-> [x \in Int |-> r * x + DigitValue(s[i])]]
             Pass(g) == [i \in 0..n |-> IF i = 0 THEN 0 ELSE r * g[i - 1] + DigitValue(s[i])]
             c == CHOOSE g : g = Pass(g)
  <1>1. n \in Nat /\ n \in 0..n /\ 0 \in 0..n /\ \A i \in 1..n : s[i] \in Int
    OBVIOUS
  <1>2. \A i \in 0..n : i # 0 => i \in 1..n /\ i - 1 \in 0..n
    BY <1>1
  <1>3. \A i \in 1..n : i # 0 /\ i \in 0..n /\ i - 1 \in 0..n
    BY <1>1
  <1>4. ValueIn(s, r) = c[n]
    BY Zenon DEF ValueIn
  <1>5. T \in Steps(n, Int)
    <2> SUFFICES ASSUME NEW i \in 1..n, NEW x \in Int PROVE r * x + DigitValue(s[i]) \in Int
      BY DEF Steps
    <2>1. DigitValue(s[i]) \in Int
      BY <1>1, DigitValueIs
    <2> QED
      BY <2>1
  <1>6. \A i \in 1..n, x \in Int : T[i][x] = r * x + DigitValue(s[i])
    OBVIOUS
  <1> HIDE DEF T, n
  <1>7. PICK f \in [0..n -> Int] : f[0] = 0 /\ \A i \in 1..n : f[i] = T[i][f[i - 1]]
    <2> DEFINE S == Int
               start == 0
    <2>1. start \in S /\ T \in Steps(n, S) /\ n \in Nat
      BY <1>1, <1>5
    <2> HIDE DEF S, start
    <2>2. Defined(n, S, start, T)
      BY <2>1, Recursion
    <2> QED
      BY <2>2, Zenon DEF S, start, Defined
  <1>8. \A i \in 1..n : f[i] = r * f[i - 1] + DigitValue(s[i])
    BY <1>3, <1>6, <1>7
  <1>9. f = Pass(f)
    BY <1>2, <1>7, <1>8, Zenon
  <1>10. c = Pass(c)
    BY <1>9, Zenon
  <1> HIDE DEF c
  <1>11. c[0] = 0 /\ \A i \in 1..n : c[i] = r * c[i - 1] + DigitValue(s[i])
    BY <1>1, <1>3, <1>10, Zenon
  <1>12. \A i \in 0..n : c[i] \in Int
    <2> DEFINE P == {i \in 0..n : c[i] \in Int}
    <2>1. 0 \in P
      BY <1>1, <1>11
    <2>2. ASSUME NEW i \in 1..n, i - 1 \in P PROVE i \in P
      <3>1. c[i - 1] \in Int /\ DigitValue(s[i]) \in Int
        BY <1>1, <2>2, DigitValueIs
      <3> QED
        BY <1>3, <1>11, <3>1
    <2> HIDE DEF P
    <2>3. \A i \in 0..n : i \in P
      BY <1>1, <2>1, <2>2, UpTo
    <2> QED
      BY <2>3 DEF P
  <1>13. c \in [0..n -> Int]
    BY <1>10, <1>12, Zenon
  <1> QED
    BY <1>4, <1>11, <1>13 DEF Values, n

LEMMA ValueAppends ==
    ASSUME NEW s \in Seq(Int), NEW c \in Int, NEW r \in Int
    PROVE  ValueIn(Append(s, c), r) = r * ValueIn(s, r) + DigitValue(c)
  <1> DEFINE n == Len(s)
             t == Append(s, c)
  <1>1. /\ n \in Nat /\ t \in Seq(Int) /\ Len(t) = n + 1 /\ t[n + 1] = c
        /\ \A i \in 1..n : t[i] = s[i]
    OBVIOUS
  <1>2. PICK v : Values(v, s, r) /\ ValueIn(s, r) = v[n]
    BY ValueIs
  <1> HIDE DEF t
  <1>3. PICK w : Values(w, t, r) /\ ValueIn(t, r) = w[Len(t)]
    BY <1>1, ValueIs
  <1> HIDE DEF n
  <1>4. /\ v[0] = 0 /\ \A i \in 1..n : v[i] = r * v[i - 1] + DigitValue(s[i])
        /\ w[0] = 0 /\ \A i \in 1..n + 1 : w[i] = r * w[i - 1] + DigitValue(t[i])
    BY <1>1, <1>2, <1>3 DEF Values, n
  <1>5. \A i \in 0..n : w[i] = v[i]
    <2> DEFINE P == {i \in 0..n : w[i] = v[i]}
    <2>1. 0 \in P
      BY <1>1, <1>4
    <2>2. ASSUME NEW i \in 1..n, i - 1 \in P PROVE i \in P
      <3>1. i \in 1..n + 1 /\ i \in 0..n
        BY <1>1
      <3>2. w[i - 1] = v[i - 1]
        BY <2>2
      <3> QED
        BY <1>1, <1>4, <3>1, <3>2
    <2> HIDE DEF P
    <2>3. \A i \in 0..n : i \in P
      BY <1>1, <2>1, <2>2, UpTo
    <2> QED
      BY <2>3 DEF P
  <1>6. n + 1 \in 1..n + 1 /\ n \in 0..n /\ n + 1 - 1 = n
    BY <1>1
  <1>7. w[n + 1] = r * w[n] + DigitValue(c)
    BY <1>1, <1>4, <1>6
  <1> QED
    BY <1>1, <1>2, <1>3, <1>5, <1>6, <1>7 DEF t

LEMMA ValueOfNone == ASSUME NEW r \in Int PROVE ValueIn(<<>>, r) = 0
  <1>1. <<>> \in Seq(Int) /\ Len(<<>>) = 0
    OBVIOUS
  <1> QED
    BY <1>1, ValueIs DEF Values

(***************************************************************************)
(* What is written.                                                        *)
(***************************************************************************)
LEMMA DigitCharIs ==
    ASSUME NEW d \in 0..15
    PROVE  /\ DigitChar(d) \in Int /\ DigitValue(DigitChar(d)) = d
           /\ DigitChar(d) = Zero <=> d = 0
           /\ d < 10 => DigitChar(d) \in Zero..Nine
  BY DEF DigitChar, DigitValue, IsDigit, Zero, Nine

\* s is the number v, of at most k digits and none of them in vain.
Wrote(s, v, r, k) ==
    /\ s \in Seq(Int) /\ Len(s) <= k /\ ValueIn(s, r) = v
    /\ s = <<>> <=> v = 0
    /\ s # <<>> => s[1] # Zero
    /\ \A i \in 1..Len(s) : DigitValue(s[i]) \in 0..r - 1

LEMMA AppendsDigit ==
    ASSUME NEW r \in {2, 16}, NEW v \in Nat, NEW k \in Nat, NEW s, Wrote(s, v \div r, r, k)
    PROVE  Wrote(AppendDigit(s, v % r), v, r, k + 1)
  <1> DEFINE d == v % r
             q == v \div r
             c == DigitChar(d)
             t == Append(s, c)
  <1>1. r \in Int /\ q \in Nat /\ d \in 0..r - 1 /\ v = r * q + d /\ d \in 0..15
    <2>1. CASE r = 2
      BY <2>1
    <2>2. CASE r = 16
      BY <2>2
    <2> QED
      BY <2>1, <2>2
  <1>2. /\ s \in Seq(Int) /\ Len(s) \in Nat /\ Len(s) <= k /\ ValueIn(s, r) = q
        /\ s = <<>> <=> q = 0
        /\ s # <<>> => s[1] # Zero
        /\ \A i \in 1..Len(s) : DigitValue(s[i]) \in 0..r - 1
    BY DEF Wrote
  <1>3. AppendDigit(s, d) = IF d = 0 /\ s = <<>> THEN s ELSE t
    BY DEF AppendDigit
  <1> HIDE DEF d, q
  <1>4. CASE d = 0 /\ s = <<>>
    <2>1. q = 0
      BY <1>2, <1>4
    <2>2. r * 0 = 0
      BY <1>1
    <2>3. v = 0
      BY <1>1, <1>4, <2>1, <2>2
    <2>4. ValueIn(s, r) = v /\ Len(s) <= k + 1
      BY <1>2, <2>1, <2>3
    <2> QED
      BY <1>2, <1>3, <1>4, <2>3, <2>4 DEF Wrote, d
  <1>5. CASE ~(d = 0 /\ s = <<>>)
    <2>1. c \in Int /\ DigitValue(c) = d /\ (c = Zero <=> d = 0)
      BY <1>1, DigitCharIs
    <2> HIDE DEF c
    <2>2. /\ t \in Seq(Int) /\ Len(t) = Len(s) + 1 /\ t[Len(s) + 1] = c /\ t # <<>>
          /\ \A i \in 1..Len(s) : t[i] = s[i]
      <3>1. s \in Seq(Int) /\ c \in Int
        BY <1>2, <2>1
      <3>2. /\ t \in Seq(Int) /\ Len(t) = Len(s) + 1 /\ t[Len(s) + 1] = c
            /\ \A i \in 1..Len(s) : t[i] = s[i]
        BY <3>1
      <3>3. Len(t) # 0 /\ Len(<<>>) = 0
        BY <1>2, <3>2
      <3> QED
        BY <3>2, <3>3, Zenon
    <2>3. ValueIn(t, r) = v
      BY <1>1, <1>2, <2>1, ValueAppends
    <2> HIDE DEF t
    <2>4. v # 0
      <3>1. CASE s = <<>>
        <4>1. q = 0 /\ d # 0
          BY <1>2, <1>5, <3>1
        <4>2. r * 0 = 0
          BY <1>1
        <4> QED
          BY <1>1, <4>1, <4>2
      <3>2. CASE s # <<>>
        <4>1. q >= 1
          BY <1>1, <1>2, <3>2
        <4>2. r = 2 \/ r = 16
          OBVIOUS
        <4> QED
          BY <1>1, <4>1, <4>2
      <3> QED
        BY <3>1, <3>2
    <2>5. t[1] # Zero
      <3>1. CASE s = <<>>
        <4>1. Len(s) + 1 = 1
          BY <3>1
        <4> QED
          BY <1>5, <2>1, <2>2, <3>1, <4>1
      <3>2. CASE s # <<>>
        <4>1. 1 \in 1..Len(s)
          BY <1>2, <3>2
        <4> QED
          BY <1>2, <2>2, <3>2, <4>1
      <3> QED
        BY <3>1, <3>2
    <2>6. ASSUME NEW i \in 1..Len(t) PROVE DigitValue(t[i]) \in 0..r - 1
      <3>1. CASE i = Len(s) + 1
        BY <1>1, <2>1, <2>2, <3>1
      <3>2. CASE i # Len(s) + 1
        <4>1. i \in 1..Len(s)
          BY <1>2, <2>2, <3>2
        <4> QED
          BY <1>2, <2>2, <4>1
      <3> QED
        BY <3>1, <3>2
    <2>7. Len(t) <= k + 1
      BY <1>2, <2>2
    <2>8. Wrote(t, v, r, k + 1)
      BY <2>2, <2>3, <2>4, <2>5, <2>6, <2>7 DEF Wrote
    <2> QED
      BY <1>3, <1>5, <2>8 DEF d
  <1> QED
    BY <1>4, <1>5

\* The numbers that DigitsOf() has left when it has divided.
Quotients(rest, n, r, len) ==
    /\ rest \in [0..len -> Nat] /\ rest[0] = n
    /\ \A k \in 1..len : rest[k] = rest[k - 1] \div r

LEMMA DigitsAre ==
    ASSUME NEW n \in Nat, NEW r \in {2, 16}, NEW len \in Nat
    PROVE  \E rest : /\ Quotients(rest, n, r, len)
                     /\ rest[len] = 0 => Wrote(DigitsOf(n, r, len), n, r, len)
  <1> DEFINE Cut(x) == x \div r
             Low(x) == x % r
             D == [i \in 1..len |-> [x \in Nat |-> Cut(x)]]
             Divided(g) == [k \in 0..len |-> IF k = 0 THEN n ELSE Cut(g[k - 1])]
             rest == CHOOSE g : g = Divided(g)
             T == [i \in 1..len |-> [s \in Seq(Int) |-> AppendDigit(s, Low(rest[len - i]))]]
             Pass(g) == [i \in 0..len |->
                            IF i = 0 THEN <<>> ELSE AppendDigit(g[i - 1], Low(rest[len - i]))]
             c == CHOOSE g : g = Pass(g)
  <1>1. len \in 0..len /\ 0 \in 0..len /\ len - len = 0 /\ len - 0 = len
    OBVIOUS
  <1>16. \A i \in 0..len : i # 0 => i \in 1..len /\ i - 1 \in 0..len
    OBVIOUS
  <1>17. \A i \in 1..len : i # 0 /\ i \in 0..len /\ i - 1 \in 0..len
    OBVIOUS
  <1>18. \A i \in 0..len : len - i \in 0..len
    OBVIOUS
  <1>19. \A i \in 1..len : /\ len - i + 1 \in 1..len /\ len - i + 1 - 1 = len - i
                           /\ len - (i - 1) = len - i + 1
    OBVIOUS
  <1>2. r \in Nat /\ r # 0 /\ r \in Int
    OBVIOUS
  <1>0. DigitsOf(n, r, len) = c[len]
    BY Zenon DEF DigitsOf
  <1>3. \A x \in Nat : Cut(x) \in Nat /\ Low(x) \in 0..15
    <2>1. CASE r = 2
      BY <2>1
    <2>2. CASE r = 16
      BY <2>2
    <2> QED
      BY <2>1, <2>2
  <1> HIDE DEF Cut, Low
  <1>4. Quotients(rest, n, r, len)
    <2>1. D \in Steps(len, Nat)
      BY <1>3 DEF Steps
    <2>2. \A i \in 1..len, x \in Nat : D[i][x] = Cut(x)
      OBVIOUS
    <2> HIDE DEF D
    <2>3. Defined(len, Nat, n, D)
      BY <2>1, Recursion
    <2>4. PICK f \in [0..len -> Nat] : f[0] = n /\ \A i \in 1..len : f[i] = D[i][f[i - 1]]
      BY <2>3, Zenon DEF Defined
    <2>5. \A i \in 1..len : f[i] = Cut(f[i - 1])
      <3> SUFFICES ASSUME NEW i \in 1..len PROVE f[i] = Cut(f[i - 1])
        OBVIOUS
      <3>1. f[i - 1] \in Nat
        BY <1>1, <2>4
      <3> QED
        BY <2>2, <2>4, <3>1
    <2>6. f = Divided(f)
      BY <1>16, <2>4, <2>5, Zenon
    <2>7. rest = Divided(rest)
      BY <2>6, Zenon
    <2> HIDE DEF rest
    <2>8. rest[0] = n /\ \A i \in 1..len : rest[i] = Cut(rest[i - 1])
      BY <1>1, <1>17, <2>7, Zenon
    <2>9. \A i \in 0..len : rest[i] \in Nat
      <3> DEFINE P == {i \in 0..len : rest[i] \in Nat}
      <3>1. 0 \in P
        BY <1>1, <2>8
      <3>2. ASSUME NEW i \in 1..len, i - 1 \in P PROVE i \in P
        <4>1. rest[i - 1] \in Nat
          BY <3>2
        <4> QED
          BY <1>17, <1>3, <2>8, <4>1
      <3> HIDE DEF P
      <3>3. \A i \in 0..len : i \in P
        BY <3>1, <3>2, UpTo
      <3> QED
        BY <3>3 DEF P
    <2>10. rest \in [0..len -> Nat]
      BY <2>7, <2>9, Zenon
    <2> QED
      BY <2>8, <2>10 DEF Quotients, Cut
  <1> HIDE DEF rest
  <1>5. \A k \in 0..len : rest[k] \in Nat
    BY <1>4 DEF Quotients
  <1>6. T \in Steps(len, Seq(Int))
    <2> SUFFICES ASSUME NEW i \in 1..len, NEW s \in Seq(Int)
                 PROVE  AppendDigit(s, Low(rest[len - i])) \in Seq(Int)
      BY DEF Steps
    <2>1. rest[len - i] \in Nat
      BY <1>1, <1>5
    <2>2. Low(rest[len - i]) \in 0..15
      BY <1>3, <2>1
    <2>3. DigitChar(Low(rest[len - i])) \in Int
      BY <2>2, DigitCharIs
    <2> QED
      BY <2>3 DEF AppendDigit
  <1>7. \A i \in 1..len, s \in Seq(Int) : T[i][s] = AppendDigit(s, Low(rest[len - i]))
    OBVIOUS
  <1> HIDE DEF T
  <1>8. Defined(len, Seq(Int), <<>>, T)
    <2> DEFINE S == Seq(Int)
               none == <<>>
    <2>1. none \in S /\ T \in Steps(len, S)
      BY <1>6
    <2> HIDE DEF S, none
    <2>2. Defined(len, S, none, T)
      BY <2>1, Recursion
    <2> QED
      BY <2>2 DEF S, none
  <1>9. PICK f \in [0..len -> Seq(Int)] :
            f[0] = <<>> /\ \A i \in 1..len : f[i] = T[i][f[i - 1]]
    BY <1>8, Zenon DEF Defined
  <1>10. \A i \in 1..len : f[i] = AppendDigit(f[i - 1], Low(rest[len - i]))
    <2> SUFFICES ASSUME NEW i \in 1..len
                 PROVE  f[i] = AppendDigit(f[i - 1], Low(rest[len - i]))
      OBVIOUS
    <2>1. f[i - 1] \in Seq(Int)
      BY <1>1, <1>9
    <2> QED
      BY <1>7, <1>9, <2>1
  <1>11. f = Pass(f)
    BY <1>16, <1>9, <1>10, Zenon
  <1>12. c = Pass(c)
    BY <1>11, Zenon
  <1> HIDE DEF c
  <1>13. c[0] = <<>> /\ \A i \in 1..len : c[i] = AppendDigit(c[i - 1], Low(rest[len - i]))
    BY <1>1, <1>17, <1>12, Zenon
  <1>14. ASSUME rest[len] = 0 PROVE Wrote(c[len], n, r, len)
    <2> DEFINE P == {i \in 0..len : Wrote(c[i], rest[len - i], r, i)}
    <2>1. 0 \in P
      <3>1. ValueIn(<<>>, r) = 0
        BY <1>2, ValueOfNone
      <3>2. Wrote(<<>>, 0, r, 0)
        BY <3>1 DEF Wrote
      <3>3. len - 0 = len
        OBVIOUS
      <3> QED
        BY <1>1, <1>13, <1>14, <3>2, <3>3
    <2>2. ASSUME NEW i \in 1..len, i - 1 \in P PROVE i \in P
      <3>1. Wrote(c[i - 1], rest[len - (i - 1)], r, i - 1)
        BY <2>2
      <3>2. rest[len - (i - 1)] = rest[len - i] \div r
        BY <1>1, <1>4 DEF Quotients
      <3>3. rest[len - i] \in Nat /\ i - 1 \in Nat /\ i - 1 + 1 = i
        BY <1>1, <1>5
      <3>4. Wrote(AppendDigit(c[i - 1], rest[len - i] % r), rest[len - i], r, i - 1 + 1)
        BY <3>1, <3>2, <3>3, AppendsDigit
      <3> QED
        BY <1>1, <1>13, <3>3, <3>4 DEF Low
    <2> HIDE DEF P
    <2>3. \A i \in 0..len : i \in P
      BY <2>1, <2>2, UpTo
    <2>4. len \in P
      BY <1>1, <2>3
    <2> USE DEF P
    <2>5. Wrote(c[len], rest[len - len], r, len)
      BY <2>4
    <2> QED
      BY <1>1, <1>4, <2>5 DEF Quotients
  <1> QED
    BY <1>0, <1>4, <1>14

LEMMA Halves == ASSUME NEW x \in Nat, NEW m \in Nat, x < 2 * m PROVE x \div 2 < m
  OBVIOUS

LEMMA NoneLeft ==
    ASSUME NEW n \in Word, NEW rest
    PROVE  /\ Quotients(rest, n, 16, 4) => rest[4] = 0
           /\ Quotients(rest, n, 2, 16) => rest[16] = 0
  <1>1. ASSUME Quotients(rest, n, 16, 4) PROVE rest[4] = 0
    <2>1. /\ rest[1] = n \div 16 /\ rest[2] = rest[1] \div 16
          /\ rest[3] = rest[2] \div 16 /\ rest[4] = rest[3] \div 16
      BY <1>1 DEF Quotients
    <2> DEFINE a == rest[1]
               b == rest[2]
               c == rest[3]
               d == rest[4]
    <2>2. a = n \div 16 /\ b = a \div 16 /\ c = b \div 16 /\ d = c \div 16
      BY <2>1
    <2> HIDE DEF a, b, c, d
    <2>3. a \in Nat /\ a < 4096
      BY <2>2 DEF Word
    <2>4. b \in Nat /\ b < 256
      BY <2>2, <2>3
    <2>5. c \in Nat /\ c < 16
      BY <2>2, <2>4
    <2>6. d = 0
      BY <2>2, <2>5
    <2> QED
      BY <2>6 DEF d
  <1>2. ASSUME Quotients(rest, n, 2, 16) PROVE rest[16] = 0
    <2>1. \A k \in 1..16 : rest[k] = rest[k - 1] \div 2 /\ rest[k] \in Nat
      BY <1>2 DEF Quotients
    <2>2. rest[0] = n /\ n \in Nat /\ n < 65536
      BY <1>2 DEF Quotients, Word
    <2>3. ASSUME NEW k \in 1..16, NEW m \in Nat, rest[k - 1] \in Nat, rest[k - 1] < 2 * m
          PROVE  rest[k] < m /\ rest[k] \in Nat
      BY <2>1, <2>3, Halves
    <2>4. rest[1] < 32768 /\ rest[1] \in Nat
      BY <2>2, <2>3
    <2>5. rest[2] < 16384 /\ rest[2] \in Nat
      BY <2>4, <2>3
    <2>6. rest[3] < 8192 /\ rest[3] \in Nat
      BY <2>5, <2>3
    <2>7. rest[4] < 4096 /\ rest[4] \in Nat
      BY <2>6, <2>3
    <2>8. rest[5] < 2048 /\ rest[5] \in Nat
      BY <2>7, <2>3
    <2>9. rest[6] < 1024 /\ rest[6] \in Nat
      BY <2>8, <2>3
    <2>10. rest[7] < 512 /\ rest[7] \in Nat
      BY <2>9, <2>3
    <2>11. rest[8] < 256 /\ rest[8] \in Nat
      BY <2>10, <2>3
    <2>12. rest[9] < 128 /\ rest[9] \in Nat
      BY <2>11, <2>3
    <2>13. rest[10] < 64 /\ rest[10] \in Nat
      BY <2>12, <2>3
    <2>14. rest[11] < 32 /\ rest[11] \in Nat
      BY <2>13, <2>3
    <2>15. rest[12] < 16 /\ rest[12] \in Nat
      BY <2>14, <2>3
    <2>16. rest[13] < 8 /\ rest[13] \in Nat
      BY <2>15, <2>3
    <2>17. rest[14] < 4 /\ rest[14] \in Nat
      BY <2>16, <2>3
    <2>18. rest[15] < 2 /\ rest[15] \in Nat
      BY <2>17, <2>3
    <2>19. rest[16] < 1 /\ rest[16] \in Nat
      BY <2>18, <2>3
    <2> QED
      BY <2>19
  <1> QED
    BY <1>1, <1>2

\* In the radices 2 and 16, any number but 0.
LEMMA DigitsSay ==
    ASSUME NEW n \in Word, n # 0, NEW r \in {2, 16},
           NEW len \in {4, 16}, r = 2 <=> len = 16
    PROVE  Says(DigitsOf(n, r, len), n, r)
  <1> DEFINE t == DigitsOf(n, r, len)
  <1>1. n \in Nat /\ len \in Nat /\ len <= 17
    BY DEF Word
  <1>2. Wrote(t, n, r, len)
    <2>1. PICK rest : /\ Quotients(rest, n, r, len)
                      /\ rest[len] = 0 => Wrote(t, n, r, len)
      BY <1>1, DigitsAre
    <2>2. CASE len = 4 /\ r = 16
      BY <2>1, <2>2, NoneLeft
    <2>3. CASE len = 16 /\ r = 2
      BY <2>1, <2>3, NoneLeft
    <2> QED
      BY <2>2, <2>3
  <1> HIDE DEF t
  <1>3. /\ t \in Seq(Int) /\ Len(t) <= 17 /\ ValueIn(t, r) = n /\ t # <<>> /\ t[1] # Zero
        /\ \A i \in 1..Len(t) : DigitValue(t[i]) \in 0..r - 1
    BY <1>1, <1>2 DEF Wrote
  <1>4. 1 <= Len(t) /\ DOMAIN t = 1..Len(t)
    BY <1>3
  <1>5. t # <<122>>
    <2>1. 1 \in 1..Len(t)
      BY <1>4
    <2>2. DigitValue(t[1]) \in 0..15
      <3>1. DigitValue(t[1]) \in 0..r - 1
        BY <1>3, <2>1, Zenon
      <3> QED
        BY <3>1
    <2>3. t[1] # 122
      BY <2>2 DEF DigitValue, IsDigit, Zero, Nine
    <2> QED
      BY <2>3
  <1>6. n = ValueIn(t, r) /\ \A i \in DOMAIN t : DigitValue(t[i]) \in 0..r - 1
    BY <1>3, <1>4
  <1>7. /\ 1 <= Len(t) /\ Len(t) <= 17
        /\ ~(r = 2 /\ t = <<122>>) /\ r \in {2, 16}
        /\ n = ValueIn(t, r)
        /\ t[1] # Zero \/ Len(t) = 1
        /\ \A i \in DOMAIN t : DigitValue(t[i]) \in 0..r - 1
    BY <1>3, <1>4, <1>5, <1>6, Zenon
  <1>8. Says(t, n, r)
    BY <1>7, SMT DEF Says
  <1> QED
    BY <1>8 DEF t

LEMMA BinaryAndHexSay ==
    ASSUME NEW n \in Word PROVE Says(binToBin(n), n, 2) /\ Says(binToHex(n), n, 16)
  <1>1. CASE n # 0
    BY <1>1, DigitsSay DEF binToBin, binToHex
  <1>2. CASE n = 0
    <2>1. Says(<<122>>, 0, 2)
      BY DEF Says
    <2>2. ValueIn(<<Zero>>, 16) = 0 /\ DigitValue(Zero) = 0
      <3>1. <<>> \in Seq(Int) /\ Zero \in Int /\ DigitValue(Zero) = 0
        BY DEF Zero, Nine, DigitValue, IsDigit
      <3>2. ValueIn(Append(<<>>, Zero), 16) = 16 * ValueIn(<<>>, 16) + DigitValue(Zero)
        <4> DEFINE none == <<>>
        <4>1. none \in Seq(Int) /\ 16 \in Int
          BY <3>1
        <4> HIDE DEF none
        <4>2. ValueIn(Append(none, Zero), 16) = 16 * ValueIn(none, 16) + DigitValue(Zero)
          BY <3>1, <4>1, ValueAppends
        <4> QED
          BY <4>2 DEF none
      <3>3. Append(<<>>, Zero) = <<Zero>>
        BY DEF Zero
      <3> QED
        BY <3>1, <3>2, <3>3, ValueOfNone
    <2>3. Says(<<Zero>>, 0, 16)
      BY <2>2 DEF Says
    <2> QED
      BY <1>2, <2>1, <2>3 DEF binToBin, binToHex
  <1> QED
    BY <1>1, <1>2

(***************************************************************************)
(* Decimal.                                                                *)
(***************************************************************************)
\* The largest number there is, without its sign.
Most == 32768

LEMMA TenthIs ==
    ASSUME NEW x \in Nat, x <= Most
    PROVE  TenthOf(x) \in Nat /\ 10 * TenthOf(x) <= x /\ x < 10 * TenthOf(x) + 10
  BY SMTT(60) DEF TenthOf, Most

Digits == Zero..Nine
Conversion == [left : Nat, text : Seq(Int)]

\* Whatever the number that is left is written as, this completes it to m.
Completes(ends, left, m) ==
    \A s \in Seq(Int) : ValueIn(s, 10) = left => ValueIn(s \o ends, 10) = m

\* After i rounds of m's conversion.
Converted(state, m, i) ==
    /\ state \in Conversion
    /\ Len(state.text) <= i /\ state.left <= Most
    /\ Completes(state.text, state.left, m)
    /\ i = 0 => state.left = m
    /\ i > 0 => Len(state.text) > 0 /\ state.text[1] \in Digits
    /\ i > 0 /\ state.left = 0 => state.text[1] # Zero \/ Len(state.text) = 1

LEMMA ConversionHas ==
    ASSUME NEW state \in Conversion
    PROVE  /\ state.left \in Nat /\ state.text \in Seq(Int)
           /\ Len(state.text) \in Nat
  BY DEF Conversion

LEMMA ConversionOf ==
    ASSUME NEW x \in Nat, NEW t \in Seq(Int)
    PROVE  /\ [left |-> x, text |-> t] \in Conversion
           /\ [left |-> x, text |-> t].left = x /\ [left |-> x, text |-> t].text = t
  BY DEF Conversion

LEMMA OneBetween ==
    ASSUME NEW a \in Seq(Int), NEW e \in Int, NEW b \in Seq(Int)
    PROVE  a \o (<<e>> \o b) = Append(a, e) \o b
  <1>1. <<e>> \in Seq(Int)
    OBVIOUS
  <1>2. Append(a, e) = a \o <<e>>
    BY AppendIsConcat
  <1>3. (a \o <<e>>) \o b = a \o (<<e>> \o b)
    BY <1>1, ConcatAssociative
  <1> QED
    BY <1>2, <1>3, Zenon

LEMMA PutBefore ==
    ASSUME NEW ends \in Seq(Int), NEW d \in 0..9, NEW q \in Nat, NEW m,
           Completes(ends, 10 * q + d, m)
    PROVE  Completes(<<DigitChar(d)>> \o ends, q, m)
  <1> DEFINE c == DigitChar(d)
  <1>1. c \in Int /\ DigitValue(c) = d
    <2>1. d \in 0..15
      OBVIOUS
    <2> QED
      BY <2>1, DigitCharIs
  <1> HIDE DEF c
  <1>2. ASSUME NEW s \in Seq(Int), ValueIn(s, 10) = q
        PROVE  ValueIn(s \o (<<c>> \o ends), 10) = m
    <2>1. Append(s, c) \in Seq(Int) /\ <<c>> \in Seq(Int)
      BY <1>1
    <2>2. ValueIn(Append(s, c), 10) = 10 * q + d
      BY <1>1, <1>2, ValueAppends
    <2>3. ValueIn(Append(s, c) \o ends, 10) = m
      BY <2>1, <2>2 DEF Completes
    <2>4. s \o (<<c>> \o ends) = Append(s, c) \o ends
      <3>1. c \in Int /\ s \in Seq(Int) /\ ends \in Seq(Int)
        BY <1>1
      <3> QED
        BY <3>1, OneBetween, Zenon
    <2> QED
      BY <2>3, <2>4
  <1> QED
    BY <1>2 DEF Completes, c

LEMMA DividesOnce ==
    ASSUME NEW state, NEW m \in Nat, NEW i \in Nat, Converted(state, m, i)
    PROVE  /\ i = 0 \/ state.left # 0 => Converted(Divide(state), m, i + 1)
           /\ 10 * Divide(state).left <= state.left
  <1> DEFINE x == state.left
             q == TenthOf(x)
             d == x - 10 * q
             c == DigitChar(d)
             t == <<c>> \o state.text
             next == [left |-> q, text |-> t]
  <1>1. /\ state \in Conversion /\ Len(state.text) <= i /\ x <= Most
        /\ Completes(state.text, x, m)
    BY Zenon DEF Converted
  <1>2. x \in Nat /\ state.text \in Seq(Int) /\ Len(state.text) \in Nat
    BY <1>1, ConversionHas, Zenon
  <1>3. Divide(state) = next
    BY DEF Divide
  <1> HIDE DEF x
  <1>4. q \in Nat /\ 10 * q <= x /\ x < 10 * q + 10
    BY <1>1, <1>2, TenthIs, Zenon
  <1> HIDE DEF q
  <1>5. d \in 0..9 /\ d \in 0..15 /\ x = 10 * q + d /\ q <= Most /\ q \in Int
    BY <1>1, <1>2, <1>4 DEF Most
  <1> HIDE DEF d
  <1>6. c \in Digits /\ c \in Int /\ (c = Zero <=> d = 0)
    BY <1>5, DigitCharIs DEF Digits
  <1>7. Completes(t, q, m)
    <2>1. Completes(state.text, 10 * q + d, m)
      BY <1>1, <1>5, Zenon
    <2> QED
      BY <1>2, <1>4, <1>5, <2>1, PutBefore, Zenon
  <1> HIDE DEF c
  <1>8. t \in Seq(Int) /\ Len(t) = Len(state.text) + 1 /\ t[1] = c /\ Len(t) \in Nat
    BY <1>2, <1>6
  <1> HIDE DEF t
  <1>9. next \in Conversion /\ next.left = q /\ next.text = t
    BY <1>4, <1>8, ConversionOf
  <1> HIDE DEF next
  <1>10. ASSUME i = 0 \/ x # 0 PROVE Converted(next, m, i + 1)
    <2>1. Len(t) <= i + 1 /\ Len(t) > 0 /\ i + 1 # 0
      BY <1>1, <1>2, <1>8
    <2>2. q = 0 => t[1] # Zero \/ Len(t) = 1
      <3>1. ASSUME q = 0, i = 0 PROVE Len(t) = 1
        BY <1>1, <1>2, <1>8, <3>1
      <3>2. ASSUME q = 0, x # 0 PROVE t[1] # Zero
        BY <1>5, <1>6, <1>8, <3>2
      <3> QED
        BY <1>10, <3>1, <3>2
    <2> QED
      BY <1>5, <1>6, <1>7, <1>8, <1>9, <2>1, <2>2, Zenon DEF Converted
  <1> QED
    BY <1>3, <1>4, <1>9, <1>10, Zenon DEF x

\* What binToDec goes through from m on.
Rounds(state, m) ==
    /\ state[0] = [left |-> m, text |-> <<>>]
    /\ \A i \in 1..5 :
         state[i] = IF i > 1 /\ state[i - 1].left = 0 THEN state[i - 1]
                    ELSE Divide(state[i - 1])

LEMMA Starts ==
    ASSUME NEW m \in Nat, m <= Most
    PROVE  Converted([left |-> m, text |-> <<>>], m, 0)
  <1> DEFINE none == <<>>
             start == [left |-> m, text |-> none]
  <1>1. none \in Seq(Int) /\ Len(none) = 0 /\ \A s \in Seq(Int) : s \o none = s
    OBVIOUS
  <1> HIDE DEF none
  <1>2. start \in Conversion /\ start.left = m /\ start.text = none
    BY <1>1, ConversionOf
  <1> HIDE DEF start
  <1>3. Completes(none, m, m)
    BY <1>1 DEF Completes
  <1>4. Len(none) <= 0 /\ ~(0 > 0)
    BY <1>1
  <1>5. Converted(start, m, 0)
    BY <1>2, <1>3, <1>4, Zenon DEF Converted
  <1> QED
    BY <1>5 DEF start, none

\* Five rounds are enough.
LEMMA RoundsEnd ==
    ASSUME NEW m \in Nat, m <= Most, NEW state, Rounds(state, m)
    PROVE  Converted(state[5], m, 5) /\ state[5].left = 0
  <1> DEFINE Over(i) == state[i].left
             Good(i) == Converted(state[i], m, i)
  <1>1. Good(0) /\ Over(0) = m
    <2>1. state[0] = [left |-> m, text |-> <<>>]
      BY DEF Rounds
    <2> QED
      BY <2>1, Starts
  <1>2. ASSUME NEW i \in 1..5, NEW k \in Nat, Good(i - 1), Over(i - 1) < 10 * k + 10
        PROVE  Good(i) /\ Over(i) < k + 1 /\ Over(i) \in Nat
    <2>1. /\ i - 1 \in Nat /\ i - 1 + 1 = i
          /\ i = 1 <=> i - 1 = 0
      OBVIOUS
    <2>2. state[i] = IF i > 1 /\ Over(i - 1) = 0 THEN state[i - 1] ELSE Divide(state[i - 1])
      BY DEF Rounds
    <2>3. Over(i - 1) \in Nat
      BY <1>2, ConversionHas DEF Converted
    <2>4. CASE i > 1 /\ Over(i - 1) = 0
      <3>1. state[i] = state[i - 1]
        BY <2>2, <2>4
      <3>2. Converted(state[i - 1], m, i)
        <4> DEFINE st == state[i - 1]
        <4>1. /\ st \in Conversion /\ Len(st.text) <= i - 1 /\ st.left <= Most
              /\ Completes(st.text, st.left, m)
              /\ Len(st.text) > 0 /\ st.text[1] \in Digits
              /\ st.left = 0 => st.text[1] # Zero \/ Len(st.text) = 1
          BY <1>2, <2>1, <2>4 DEF Converted
        <4>2. Len(st.text) \in Nat
          BY <4>1, ConversionHas
        <4>3. Len(st.text) <= i /\ i # 0
          BY <4>1, <4>2
        <4> HIDE DEF st
        <4>4. Converted(st, m, i)
          BY <4>1, <4>3, Zenon DEF Converted
        <4> QED
          BY <4>4 DEF st
      <3> QED
        BY <2>4, <3>1, <3>2
    <2>5. CASE ~(i > 1 /\ Over(i - 1) = 0)
      <3>1. state[i] = Divide(state[i - 1])
        BY <2>2, <2>5
      <3>2. i - 1 = 0 \/ Over(i - 1) # 0
        BY <2>1, <2>5
      <3>3. /\ Converted(Divide(state[i - 1]), m, i)
            /\ 10 * Divide(state[i - 1]).left <= Over(i - 1)
        BY <1>2, <2>1, <3>2, DividesOnce
      <3>4. Good(i) /\ 10 * Over(i) <= Over(i - 1)
        BY <3>1, <3>3
      <3>5. Over(i) \in Nat
        BY <3>4, ConversionHas DEF Converted
      <3> HIDE DEF Over, Good
      <3> QED
        BY <1>2, <2>3, <3>4, <3>5
    <2> QED
      BY <2>4, <2>5
  <1> HIDE DEF Over, Good
  <1>3. ASSUME NEW j \in 0..4, NEW l \in Nat,
               Good(j), Over(j) \in Nat, Over(j) < 10 * l
        PROVE  Good(j + 1) /\ Over(j + 1) \in Nat /\ Over(j + 1) < l
    <2>1. CASE l = 0
      BY <1>3, <2>1
    <2>2. CASE l # 0
      <3>1. j + 1 \in 1..5 /\ j + 1 - 1 = j /\ l - 1 \in Nat /\ l - 1 + 1 = l
            /\ Over(j) < 10 * (l - 1) + 10
        BY <1>3, <2>2
      <3> QED
        BY <1>2, <1>3, <3>1
    <2> QED
      BY <2>1, <2>2
  <1>4. /\ Good(1) /\ Over(1) \in Nat /\ Over(1) < 3277
    <2>1. 0 + 1 = 1 /\ 0 \in 0..4 /\ Over(0) \in Nat /\ Over(0) < 10 * 3277
      BY <1>1 DEF Most
    <2> QED
      BY <1>1, <1>3, <2>1
  <1>5. /\ Good(2) /\ Over(2) \in Nat /\ Over(2) < 328
    <2>1. 1 + 1 = 2 /\ 1 \in 0..4 /\ Over(1) < 10 * 328
      BY <1>4
    <2> QED
      BY <1>4, <1>3, <2>1
  <1>6. /\ Good(3) /\ Over(3) \in Nat /\ Over(3) < 33
    <2>1. 2 + 1 = 3 /\ 2 \in 0..4 /\ Over(2) < 10 * 33
      BY <1>5
    <2> QED
      BY <1>5, <1>3, <2>1
  <1>7. /\ Good(4) /\ Over(4) \in Nat /\ Over(4) < 4
    <2>1. 3 + 1 = 4 /\ 3 \in 0..4 /\ Over(3) < 10 * 4
      BY <1>6
    <2> QED
      BY <1>6, <1>3, <2>1
  <1>8. /\ Good(5) /\ Over(5) \in Nat /\ Over(5) < 1
    <2>1. 4 + 1 = 5 /\ 4 \in 0..4 /\ Over(4) < 10 * 1
      BY <1>7
    <2> QED
      BY <1>7, <1>3, <2>1
  <1>9. Good(5) /\ Over(5) = 0
    BY <1>8
  <1> QED
    BY <1>9 DEF Good, Over

LEMMA DividesAny == ASSUME NEW state \in Conversion PROVE Divide(state) \in Conversion
  <1> DEFINE x == state.left
             q == TenthOf(x)
             d == x - 10 * q
             c == DigitChar(d)
             t == <<c>> \o state.text
  <1>1. x \in Nat /\ state.text \in Seq(Int)
    BY ConversionHas
  <1> HIDE DEF x
  <1>2. q \in Nat
    BY <1>1 DEF TenthOf
  <1> HIDE DEF q
  <1>3. d \in Int
    BY <1>1, <1>2
  <1> HIDE DEF d
  <1>4. c \in Int
    BY <1>3 DEF DigitChar, Zero
  <1> HIDE DEF c
  <1>5. t \in Seq(Int)
    BY <1>1, <1>4
  <1> HIDE DEF t
  <1>6. [left |-> q, text |-> t] \in Conversion
    BY <1>2, <1>5, ConversionOf
  <1> QED
    BY <1>6, Zenon DEF Divide, x, q, d, c, t

\* A number without its sign.
Size(n) == IF n < 32768 THEN n ELSE 65536 - n
Negative(n) == ~(n < 32768)

LEMMA DecimalHas ==
    ASSUME NEW n \in Word
    PROVE  \E state : /\ Rounds(state, Size(n))
                      /\ binToDec(n) = IF Negative(n) THEN <<Minus>> \o state[5].text
                                       ELSE state[5].text
  <1> DEFINE m == Size(n)
             start == [left |-> m, text |-> <<>>]
             Goes(i, x) == IF i > 1 /\ x.left = 0 THEN x ELSE Divide(x)
             Pass(g) == [i \in 0..5 |-> IF i = 0 THEN start ELSE Goes(i, g[i - 1])]
             c == CHOOSE g : g = Pass(g)
             T == [i \in 1..5 |-> [x \in Conversion |-> Goes(i, x)]]
  <1>1. m \in Nat
    BY DEF Size, Word
  <1>2. start \in Conversion
    <2> HIDE DEF m
    <2>1. <<>> \in Seq(Int)
      OBVIOUS
    <2> QED
      BY <1>1, <2>1, ConversionOf
  <1>3. binToDec(n) = IF n < 32768 THEN c[5].text ELSE <<Minus>> \o c[5].text
    BY DEF binToDec, Size
  <1> HIDE DEF start, m
  <1>4. T \in Steps(5, Conversion)
    BY DividesAny DEF Steps
  <1>5. \A i \in 1..5, x \in Conversion : T[i][x] = Goes(i, x)
    OBVIOUS
  <1> HIDE DEF T, Goes
  <1>6. Defined(5, Conversion, start, T)
    BY <1>2, <1>4, Recursion
  <1>7. PICK f \in [0..5 -> Conversion] : f[0] = start /\ \A i \in 1..5 : f[i] = T[i][f[i - 1]]
    BY <1>6, Zenon DEF Defined
  <1>8. 0 \in 0..5 /\ \A i \in 0..5 : i # 0 => i \in 1..5 /\ i - 1 \in 0..5
    OBVIOUS
  <1>9. \A i \in 1..5 : i # 0 /\ i \in 0..5 /\ i - 1 \in 0..5
    OBVIOUS
  <1>10. \A i \in 1..5 : f[i] = Goes(i, f[i - 1])
    BY <1>5, <1>7, <1>9
  <1>11. f = Pass(f)
    BY <1>7, <1>8, <1>10, Zenon
  <1>12. c = Pass(c)
    BY <1>11, Zenon
  <1> HIDE DEF c
  <1>13. c[0] = start /\ \A i \in 1..5 : c[i] = Goes(i, c[i - 1])
    BY <1>8, <1>9, <1>12, Zenon
  <1>14. Rounds(c, m)
    BY <1>13, Zenon DEF Rounds, Goes, start
  <1>15. binToDec(n) = IF Negative(n) THEN <<Minus>> \o c[5].text ELSE c[5].text
    BY <1>3 DEF Negative
  <1> QED
    BY <1>14, <1>15, Zenon DEF m

LEMMA TailOfPut ==
    ASSUME NEW t \in Seq(Int), NEW e \in Int PROVE Tail(<<e>> \o t) = t
  <1> DEFINE u == <<e>> \o t
  <1>1. /\ u \in Seq(Int) /\ Len(u) = Len(t) + 1 /\ Len(t) \in Nat
        /\ \A i \in 1..Len(t) : u[i + 1] = t[i]
    OBVIOUS
  <1> HIDE DEF u
  <1>2. /\ Tail(u) \in Seq(Int) /\ Len(Tail(u)) = Len(t)
        /\ \A i \in 1..Len(t) : Tail(u)[i] = t[i]
    BY <1>1
  <1>3. Tail(u) = t
    BY <1>2, SeqEqual
  <1> QED
    BY <1>3 DEF u

LEMMA DecimalSays == ASSUME NEW n \in Word PROVE Says(binToDec(n), n, 10)
  <1> DEFINE m == Size(n)
  <1>1. /\ m \in Nat /\ m <= Most
        /\ Negative(n) => n = 65536 - m /\ n >= 32768 /\ m # 0
        /\ ~Negative(n) => n = m /\ n < 32768
    BY DEF Size, Negative, Most, Word
  <1>2. PICK state : /\ Rounds(state, m)
                     /\ binToDec(n) = IF Negative(n) THEN <<Minus>> \o state[5].text
                                      ELSE state[5].text
    BY DecimalHas, Zenon
  <1> HIDE DEF m
  <1> DEFINE last == state[5]
             t == last.text
  <1>3. Converted(last, m, 5) /\ last.left = 0
    <2>1. m \in Nat /\ m <= Most /\ Rounds(state, m)
      BY <1>1, <1>2
    <2> QED
      BY <2>1, RoundsEnd
  <1>4. last \in Conversion
    BY <1>3, Zenon DEF Converted
  <1>5. t \in Seq(Int) /\ Len(t) \in Nat
    BY <1>4, ConversionHas, Zenon
  <1>6. /\ Len(t) <= 5 /\ Len(t) > 0 /\ t[1] \in Digits
        /\ t[1] # Zero \/ Len(t) = 1
        /\ Completes(t, 0, m)
    <2>1. 5 > 0
      OBVIOUS
    <2> QED
      BY <1>3, <2>1, Zenon DEF Converted
  <1> HIDE DEF t
  <1>7. ValueIn(t, 10) = m
    <2> DEFINE none == <<>>
    <2>1. none \in Seq(Int) /\ none \o t = t /\ 10 \in Int
      BY <1>5
    <2>2. ValueIn(none, 10) = 0
      BY <2>1, ValueOfNone
    <2> HIDE DEF none
    <2> QED
      BY <1>6, <2>1, <2>2 DEF Completes
  <1>8. CASE ~Negative(n)
    <2>1. t[1] # Minus
      BY <1>6 DEF Digits, Minus, Zero, Nine
    <2>2. n = ValueIn(t, 10) /\ n < 32768 /\ 1 <= Len(t) /\ Len(t) <= 17
      BY <1>1, <1>5, <1>6, <1>7, <1>8
    <2>3. Says(t, n, 10)
      BY <1>6, <2>1, <2>2, SMT DEF Says
    <2> QED
      BY <1>2, <1>8, <2>3 DEF t
  <1>9. CASE Negative(n)
    <2> DEFINE u == <<Minus>> \o t
    <2>1. u \in Seq(Int) /\ Len(u) = Len(t) + 1 /\ u[1] = Minus /\ u[2] = t[1]
      BY <1>5, <1>6 DEF Minus
    <2>5. Tail(u) = t
      BY <1>5, TailOfPut DEF Minus
    <2>2. t[1] # Zero
      <3>1. ASSUME t[1] = Zero PROVE FALSE
        <4>1. Len(t) = 1
          BY <1>6, <3>1
        <4>2. t = Append(<<>>, Zero)
          BY <1>5, <3>1, <4>1 DEF Zero
        <4> DEFINE none == <<>>
        <4>3. none \in Seq(Int) /\ 10 \in Int /\ Zero \in Int /\ DigitValue(Zero) = 0
          BY DEF Zero, Nine, DigitValue, IsDigit
        <4>4. ValueIn(none, 10) = 0
          BY <4>3, ValueOfNone
        <4> HIDE DEF none
        <4>5. ValueIn(Append(none, Zero), 10) = 10 * ValueIn(none, 10) + DigitValue(Zero)
          BY <4>3, ValueAppends
        <4>6. m = 0
          BY <1>7, <4>2, <4>3, <4>4, <4>5 DEF none
        <4> QED
          BY <1>1, <1>9, <4>6
      <3> QED
        BY <3>1
    <2> HIDE DEF u
    <2>3. /\ n = 65536 - ValueIn(Tail(u), 10) /\ n >= 32768 /\ 1 <= Len(u) /\ Len(u) <= 17
          /\ u[2] # Zero
      <3>1. n = 65536 - m /\ n >= 32768
        BY <1>1, <1>9
      <3>2. Len(u) = Len(t) + 1 /\ Len(t) \in Nat /\ Len(t) <= 5 /\ u[2] # Zero
        BY <1>5, <1>6, <2>1, <2>2, Zenon
      <3>3. 1 <= Len(u) /\ Len(u) <= 17
        BY <3>2
      <3>4. ValueIn(Tail(u), 10) = m
        BY <1>7, <2>5, Zenon
      <3> QED
        BY <3>1, <3>2, <3>3, <3>4
    <2>4. Says(u, n, 10)
      BY <2>1, <2>3, SMT DEF Says
    <2> QED
      BY <1>2, <1>9, <2>4 DEF t, u
  <1> QED
    BY <1>8, <1>9

(***************************************************************************)
(* Any number that the monitor prints can be read back.                    *)
(***************************************************************************)
THEOREM PrintNumSays ==
    ASSUME NEW n \in Word, NEW r \in {2, 10, 16}
    PROVE  Says(printNum(n, r), n, r)
  <1>1. CASE r = 2
    BY <1>1, BinaryAndHexSay DEF printNum
  <1>2. CASE r = 16
    BY <1>2, BinaryAndHexSay DEF printNum
  <1>3. CASE r = 10
    BY <1>3, DecimalSays DEF printNum
  <1> QED
    BY <1>1, <1>2, <1>3

-----------------------------------------------------------------------------
(* Reading numbers.                                                        *)

Statuses == {"ok", "error", "lost"}
Read == [value : Word, status : Statuses]

LEMMA ReadHas ==
    ASSUME NEW r \in Read
    PROVE  /\ r.value \in Word /\ r.status \in Statuses
           /\ \A st \in Statuses : [r EXCEPT !.status = st] \in Read
           /\ \A v \in Word : [r EXCEPT !.value = v] \in Read
  BY DEF Read

LEMMA HexDigitIs ==
    ASSUME NEW c \in Int PROVE HexDigit(c) \in 0..15 \/ HexDigit(c) = BadDigit
  BY DEF HexDigit, LowerCase, IsUpper, IsDigit, Zero, Nine

LEMMA TakenIsRead == ASSUME NEW r \in Read, NEW c \in Int PROVE Taken(r, c) \in Read
  <1> DEFINE d == charToHex(c)
             v == r.value
  <1>1. d \in 0..15 \/ d = BadDigit
    BY HexDigitIs DEF charToHex
  <1> HIDE DEF d
  <1>2. v \in Word
    BY ReadHas
  <1> HIDE DEF v
  <1>3. /\ "lost" \in Statuses /\ "error" \in Statuses
    BY DEF Statuses
  <1>4. d # BadDigit /\ ~(v >= 4096) => 16 * v + d \in Word
    BY <1>1, <1>2 DEF Word
  <1> DEFINE big == v >= 4096
             sum == 16 * v + d
  <1>5. Taken(r, c) = IF r.status # "ok" THEN r
                      ELSE IF d = BadDigit THEN [r EXCEPT !.status = "error"]
                      ELSE IF big THEN [r EXCEPT !.status = "lost"]
                      ELSE [r EXCEPT !.value = sum]
    BY DEF Taken, d, v
  <1>6. d # BadDigit /\ ~big => sum \in Word
    BY <1>4
  <1> HIDE DEF big, sum
  <1> QED
    BY <1>3, <1>5, <1>6, ReadHas, Zenon

\* c is what strToHex has after each of the word's characters.
Reading(c, word) ==
    /\ c[0] = [value |-> 0, status |-> "ok"]
    /\ \A i \in 1..Len(word) : c[i] = Taken(c[i - 1], word[i])
    /\ \A i \in 0..Len(word) : c[i] \in Read

LEMMA StrToHexReads ==
    ASSUME NEW word \in Seq(Int)
    PROVE  \E c : Reading(c, word) /\ strToHex(word) = c[Len(word)]
  <1> DEFINE n == Len(word)
             zero == [value |-> 0, status |-> "ok"]
             T == [i \in 1..n |-> [x \in Read |-> Taken(x, word[i])]]
             Pass(g) == [i \in 0..n |-> IF i = 0 THEN zero ELSE Taken(g[i - 1], word[i])]
             c == CHOOSE g : g = Pass(g)
  <1>1. n \in Nat /\ n \in 0..n /\ 0 \in 0..n
    OBVIOUS
  <1>2. \A i \in 0..n : i # 0 => i \in 1..n /\ i - 1 \in 0..n
    BY <1>1
  <1>3. \A i \in 1..n : i # 0 /\ i \in 0..n /\ i - 1 \in 0..n
    BY <1>1
  <1>4. strToHex(word) = c[n]
    BY Zenon DEF strToHex
  <1>5. zero \in Read
    BY DEF Read, Statuses, Word
  <1>6. T \in Steps(n, Read)
    <2>1. ASSUME NEW i \in 1..n, NEW x \in Read PROVE Taken(x, word[i]) \in Read
      <3>1. word[i] \in Int
        OBVIOUS
      <3> QED
        BY <3>1, TakenIsRead
    <2> QED
      BY <2>1 DEF Steps
  <1>7. \A i \in 1..n, x \in Read : T[i][x] = Taken(x, word[i])
    OBVIOUS
  <1> HIDE DEF T, n, zero
  <1>8. Defined(n, Read, zero, T)
    BY <1>1, <1>5, <1>6, Recursion
  <1>9. PICK f \in [0..n -> Read] : f[0] = zero /\ \A i \in 1..n : f[i] = T[i][f[i - 1]]
    BY <1>8, Zenon DEF Defined
  <1>10. \A i \in 1..n : f[i] = Taken(f[i - 1], word[i])
    BY <1>3, <1>7, <1>9
  <1>11. f = Pass(f)
    BY <1>2, <1>9, <1>10, Zenon
  <1>12. c = Pass(c)
    BY <1>11, Zenon
  <1> HIDE DEF c
  <1>13. c[0] = zero /\ \A i \in 1..n : c[i] = Taken(c[i - 1], word[i])
    BY <1>1, <1>3, <1>12, Zenon
  <1>14. \A i \in 0..n : c[i] \in Read
    <2> DEFINE P == {i \in 0..n : c[i] \in Read}
    <2>1. 0 \in P
      BY <1>1, <1>5, <1>13
    <2>2. ASSUME NEW i \in 1..n, i - 1 \in P PROVE i \in P
      <3>1. word[i] \in Int
        BY DEF n
      <3>2. c[i - 1] \in Read /\ c[i] = Taken(c[i - 1], word[i]) /\ i \in 0..n
        BY <1>3, <1>13, <2>2
      <3> QED
        BY <3>1, <3>2, TakenIsRead
    <2> HIDE DEF P
    <2>3. \A i \in 0..n : i \in P
      BY <1>1, <2>1, <2>2, UpTo
    <2> QED
      BY <2>3 DEF P
  <1>15. Reading(c, word)
    BY <1>13, <1>14, Zenon DEF Reading, n, zero
  <1> QED
    BY <1>4, <1>15 DEF n

LEMMA StrToHexIs == ASSUME NEW word \in Seq(Int) PROVE strToHex(word) \in Read
  <1>1. PICK c : Reading(c, word) /\ strToHex(word) = c[Len(word)]
    BY StrToHexReads
  <1>2. Len(word) \in 0..Len(word)
    OBVIOUS
  <1> QED
    BY <1>1, <1>2, Zenon DEF Reading

-----------------------------------------------------------------------------
(* The monitor.                                                            *)

(***************************************************************************)
(* The invariant.  Registers go from the program to the frame of a system  *)
(* call, back to the program or to the report of an error, and from there  *)
(* to the screen: it says for every place the processor may be where they  *)
(* are, and what is on the stack, so that a frame is a frame when rti      *)
(* takes it for one.                                                       *)
(***************************************************************************)
RegisterValues == [A : Byte, B : Byte, X : Word, Y : Word, U : Word]
SavedValues == [A : Byte, B : Byte, X : Word, Y : Word, U : Word, S : Word]

Frames == [what : {"frame"}, regs : RegisterValues, to : {"function", "next", "appTerminated"}]
Entries == {Return("loop"), Return("dgDone"), Left("A"), Left("B"), Left("program")} \cup Frames

\* What is on the stack under a handler, and under what a program puts there.
Base == <<Return("loop")>>
Beneath(n) == IF n = 0 THEN Append(Base, Return("dgDone"))
              ELSE Append(Append(Base, Return("dgDone")), Left("program"))

Puts == {"sysPutChar", "sysPutStr", "sysPutNLStr", "sysPut2Hex", "sysPut4Hex", "sysPutNL",
         "sysPutSpace"}
Calls == Puts \cup {"sysGetChar", "sysTerminate"}
Running == Calls \cup {"program", "dgDone", "handle_swi", "rti", "appTerminated"}


LinePart ==
    /\ LineInv
    /\ prevChar # LF /\ at \in {"edit", "dispatch", "lost"}
    /\ cursor <= Len(row)
    /\ at # "lost" => Len(line) < Room

ArgPart ==
    /\ argc \in Nat
    /\ argv \in Seq(Nat \ {0}) /\ Len(argv) <= MaxArgs /\ spill \in Seq(Nat \ {0})
    /\ args \in Seq(Seq(Letter)) /\ Len(args) = argc

SettingsPart ==
    /\ memoryAddress \in Word /\ linesPerPage \in Byte /\ radix \in {2, 10, 16}
    /\ unassembleAddress \in Word

CountPart ==
    /\ round \in Byte /\ y \in Word
    /\ function \in Byte /\ calls \in 0..MaxCalls /\ pushes \in 0..1 /\ lines \in 0..MaxLines

\* The registers after a system call, with those before it.
Kept(r) ==
    \E c \in Received : r = IF function = 0 THEN [before EXCEPT !.A = StripParity(c)] ELSE before

\* A frame at a place where it is on top of the stack.
Framed(f) ==
    /\ f \in Frames /\ stack = Append(Beneath(pushes), f)
    /\ pc # "rti" => f.regs = before
    /\ pc \in Calls => f.to = "next"
    /\ pc = "sysGetChar" => function = 0
    /\ pc \in Puts \cup {"sysTerminate"} => function # 0
    /\ pc = "rti" => \/ f.to = "next" /\ Kept(f.regs)
                     \/ f.to = "appTerminated" /\ f.regs = before

StackPart ==
    /\ pc \in Places
    /\ stack \in Seq(Entries)
    /\ pc \in HandlerNames \cup {"ddProceed", "duNext", "dgDone"} => stack = Base
    /\ pc \in {"program", "appTerminated"} => stack = Beneath(pushes)
    /\ pc \in Calls \cup {"handle_swi", "rti"} => Framed(Frame)

\* The command that has brought the processor there.
CommandPart ==
    /\ pc \in HandlerNames \ {"registersFn"} => outcome = pc
    /\ pc = "registersFn" => outcome \in {"registersFn", "goFn"}
    /\ pc = "ddProceed" => outcome = "dumpFn"
    /\ pc = "duNext" => outcome = "unassembleFn"
    /\ pc \in Running => outcome = "goFn"

RegisterPart ==
    /\ regs \in RegisterValues /\ before \in RegisterValues
    /\ pc \in {"program", "dgDone"} => Kept(regs)
    /\ pc = "appTerminated" => regs = before
    /\ pc \notin Running => regs = before /\ function = NoFunction /\ pushes = 0

Reports == {Shown("code", 256 * failed.A + failed.B)}
           \cup {Shown(reg, failed[reg]) : reg \in {"A", "B", "X", "Y", "U", "S"}}

ReportPart ==
    /\ saved \in SavedValues /\ failed = saved
    /\ outcome \in {"registersFn", "goFn"} => shown \in Seq(Reports)

MonitorInv ==
    /\ LinePart /\ ArgPart /\ SettingsPart /\ CountPart
    /\ StackPart /\ CommandPart /\ RegisterPart /\ ReportPart

LEMMA EntriesAre ==
    /\ Return("loop") \in Entries /\ Return("dgDone") \in Entries
    /\ Left("A") \in Entries /\ Left("B") \in Entries /\ Left("program") \in Entries
    /\ Frames \subseteq Entries
  BY Zenon DEF Entries

\* Something on top of the stack.
LEMMA PushIs ==
    ASSUME NEW S, NEW s \in Seq(S), NEW e \in S, NEW g \in S
    PROVE  /\ Append(s, e) \in Seq(S) /\ Append(s, e) # <<>>
           /\ Last(Append(s, e)) = e /\ Front(Append(s, e)) = s
           /\ Append(s, e)[Len(Append(s, e))] = e
           /\ [Append(s, e) EXCEPT ![Len(Append(s, e))] = g] = Append(s, g)
  <1> DEFINE n == Len(s)
             t == Append(s, e)
             u == [t EXCEPT ![n + 1] = g]
             w == Append(s, g)
  <1>1. /\ n \in Nat /\ t \in Seq(S) /\ Len(t) = n + 1 /\ t[n + 1] = e
        /\ \A i \in 1..n : t[i] = s[i]
    OBVIOUS
  <1>2. /\ w \in Seq(S) /\ Len(w) = n + 1 /\ w[n + 1] = g
        /\ \A i \in 1..n : w[i] = s[i]
    OBVIOUS
  <1> HIDE DEF t, w, n
  <1>3. t # <<>>
    <2>1. Len(t) # 0 /\ Len(<<>>) = 0
      BY <1>1
    <2> QED
      BY <2>1, Zenon
  <1>4. Last(t) = e
    BY <1>1 DEF Last
  <1>5. Front(t) = s
    <2>1. n + 1 - 1 = n
      BY <1>1
    <2>2. Front(t) = SubSeq(t, 1, n)
      BY <1>1, <2>1 DEF Front
    <2>3. \A i \in 1..n : t[i] \in S
      BY <1>1
    <2>4. /\ SubSeq(t, 1, n) \in Seq(S) /\ Len(SubSeq(t, 1, n)) = n
          /\ \A i \in 1..n : SubSeq(t, 1, n)[i] = t[i]
      <3> DEFINE v == SubSeq(t, 1, n)
      <3>1. /\ v \in Seq(S) /\ Len(v) = IF 1 <= n THEN n - 1 + 1 ELSE 0
            /\ \A i \in 1..n - 1 + 1 : v[i] = t[1 + i - 1]
        BY <1>1, <2>3, SubSeqProperties
      <3> HIDE DEF v
      <3>2. n - 1 + 1 = n /\ (~(1 <= n) => n = 0) /\ \A i \in 1..n : 1 + i - 1 = i
        BY <1>1
      <3>3. Len(v) = n
        BY <3>1, <3>2
      <3> QED
        BY <3>1, <3>2, <3>3 DEF v
    <2> QED
      BY <1>1, <2>2, <2>4, SeqEqual DEF n
  <1>6. u = w
    <2>1. u \in Seq(S) /\ Len(u) = n + 1
      BY <1>1
    <2>2. ASSUME NEW i \in 1..n + 1 PROVE u[i] = w[i]
      <3>1. CASE i = n + 1
        BY <1>1, <1>2, <3>1
      <3>2. CASE i # n + 1
        <4>1. i \in 1..n
          BY <1>1, <3>2
        <4> QED
          BY <1>1, <1>2, <3>2, <4>1
      <3> QED
        BY <3>1, <3>2
    <2> HIDE DEF u
    <2> QED
      BY <1>2, <2>1, <2>2, SeqEqual
  <1> QED
    BY <1>1, <1>3, <1>4, <1>5, <1>6 DEF t, w

LEMMA StacksAre ==
    ASSUME NEW n \in 0..1
    PROVE  Base \in Seq(Entries) /\ Beneath(n) \in Seq(Entries)
  <1>1. Base \in Seq(Entries)
    BY EntriesAre DEF Base
  <1>2. Append(Base, Return("dgDone")) \in Seq(Entries)
    BY <1>1, EntriesAre, PushIs
  <1>3. Append(Append(Base, Return("dgDone")), Left("program")) \in Seq(Entries)
    BY <1>2, EntriesAre, PushIs
  <1> QED
    BY <1>1, <1>2, <1>3 DEF Beneath

LEMMA WhatIs ==
    /\ \A to : Return(to).what = "return" /\ Return(to).to = to
    /\ \A c : Left(c).what = "byte"
    /\ \A f \in Frames : /\ f.what = "frame" /\ f.regs \in RegisterValues
                         /\ f.to \in {"function", "next", "appTerminated"}
  BY DEF Return, Left, Frames

\* rts finds a return address, or it does not.
LEMMA Finds ==
    ASSUME NEW s \in Seq(Entries), NEW to, Return(to) \in Entries, Rts(Append(s, Return(to)))
    PROVE  pc' = to /\ stack' = s
  <1> DEFINE e == Return(to)
             t == Append(s, e)
  <1>1. t # <<>> /\ Last(t) = e /\ Front(t) = s
    BY PushIs
  <1>2. e.what = "return" /\ e.to = to
    BY WhatIs
  <1> HIDE DEF e, t
  <1>3. Rts(t)
    BY DEF e, t
  <1> QED
    BY <1>1, <1>2, <1>3, Zenon DEF Rts

LEMMA Misses ==
    ASSUME NEW s \in Seq(Entries), NEW c, Left(c) \in Entries, Rts(Append(s, Left(c)))
    PROVE  pc' = "lost" /\ stack' \in Seq(Entries)
  <1> DEFINE e == Left(c)
             t == Append(s, e)
  <1>1. t \in Seq(Entries) /\ Last(t) = e
    BY PushIs
  <1>2. e.what # "return"
    BY WhatIs
  <1> HIDE DEF e, t
  <1>3. Rts(t)
    BY DEF e, t
  <1> QED
    BY <1>1, <1>2, <1>3, Zenon DEF Rts

LEMMA ReturnsToLoop == ASSUME Rts(Base) PROVE pc' = "loop" /\ stack' = <<>>
  <1> DEFINE none == <<>>
  <1>1. Base = Append(none, Return("loop"))
    BY DEF Base
  <1>2. none \in Seq(Entries)
    OBVIOUS
  <1> HIDE DEF none
  <1>3. pc' = "loop" /\ stack' = none
    BY <1>1, <1>2, EntriesAre, Finds
  <1> QED
    BY <1>3 DEF none

\* strToHex's return, for a number that is none.
LEMMA ReturnsAfter ==
    ASSUME NEW n, RtsAfter(n), stack = Base
    PROVE  pc' \in {"loop", "lost"} /\ stack' \in Seq(Entries)
  <1>1. CASE n.status = "lost"
    <2>1. Rts(Append(Base, Left("B")))
      BY <1>1 DEF RtsAfter
    <2> QED
      BY <2>1, StacksAre, EntriesAre, Misses
  <1>2. CASE n.status # "lost"
    <2>1. Rts(Base)
      BY <1>2 DEF RtsAfter
    <2> QED
      BY <2>1, ReturnsToLoop
  <1> QED
    BY <1>1, <1>2

(***************************************************************************)
(* Names of places.                                                        *)
(***************************************************************************)
LEMMA HandlersAre == handlers = HandlerNames
  <1>1. handlers \subseteq HandlerNames
    BY TableIs DEF handlers, CommandOK
  <1>2. ASSUME NEW i \in 1..15, NEW h, cmd_table[i].handler = h PROVE h \in handlers
    BY <1>2, TableIs DEF handlers
  <1>3. /\ cmd_table[1].handler = "binaryFn" /\ cmd_table[2].handler = "bootFn"
        /\ cmd_table[3].handler = "cpuFn" /\ cmd_table[4].handler = "decimalFn"
        /\ cmd_table[5].handler = "diskFn" /\ cmd_table[6].handler = "dumpFn"
        /\ cmd_table[7].handler = "goFn" /\ cmd_table[8].handler = "hexadecimalFn"
        /\ cmd_table[9].handler = "loadFn" /\ cmd_table[10].handler = "radixFn"
        /\ cmd_table[11].handler = "registersFn" /\ cmd_table[12].handler = "unassembleFn"
        /\ cmd_table[13].handler = "windowFn" /\ cmd_table[14].handler = "zobFn"
        /\ cmd_table[15].handler = "helpFn"
    BY DEF cmd_table, Command
  <1>4. \A h \in HandlerNames : h \in handlers
    BY <1>2, <1>3 DEF HandlerNames
  <1> QED
    BY <1>1, <1>4

LEMMA TableOfCalls ==
    /\ SWIMax = 9
    /\ SWITable[1] = "sysGetChar" /\ SWITable[2] = "sysPutChar" /\ SWITable[3] = "sysPutStr"
    /\ SWITable[4] = "sysPutNLStr" /\ SWITable[5] = "sysPut2Hex" /\ SWITable[6] = "sysPut4Hex"
    /\ SWITable[7] = "sysPutNL" /\ SWITable[8] = "sysPutSpace" /\ SWITable[9] = "sysTerminate"
  BY DEF SWIMax, SWITable

LEMMA CallsAre ==
    /\ \A fn \in Nat : fn < SWIMax =>
         /\ SWITable[fn + 1] \in Calls
         /\ SWITable[fn + 1] = "sysGetChar" <=> fn = 0
    /\ {SWITable[n] : n \in 2..8} = Puts
    /\ {SWITable[n] : n \in 1..SWIMax} = Calls
  <1>1. ASSUME NEW n \in 1..9
        PROVE  n \in {1, 2, 3, 4, 5, 6, 7, 8, 9}
    OBVIOUS
  <1>2. ASSUME NEW n \in 1..9 PROVE SWITable[n] \in Calls
    BY <1>1, TableOfCalls DEF Calls, Puts
  <1>3. ASSUME NEW n \in 2..9 PROVE SWITable[n] # "sysGetChar"
    <2>1. n \in {2, 3, 4, 5, 6, 7, 8, 9}
      OBVIOUS
    <2> QED
      BY <2>1, TableOfCalls
  <1>4. ASSUME NEW n \in 2..8 PROVE SWITable[n] \in Puts
    <2>1. n \in {2, 3, 4, 5, 6, 7, 8}
      OBVIOUS
    <2> QED
      BY <2>1, TableOfCalls DEF Puts
  <1>5. \A p \in Puts : \E n \in 2..8 : SWITable[n] = p
    <2>1. 2 \in 2..8 /\ 3 \in 2..8 /\ 4 \in 2..8 /\ 5 \in 2..8 /\ 6 \in 2..8 /\ 7 \in 2..8
          /\ 8 \in 2..8
      OBVIOUS
    <2> QED
      BY <2>1, TableOfCalls, Zenon DEF Puts
  <1>6. \A p \in Calls : \E n \in 1..9 : SWITable[n] = p
    <2>1. 1 \in 1..9 /\ 9 \in 1..9 /\ \A n \in 2..8 : n \in 1..9
      OBVIOUS
    <2> QED
      BY <1>5, <2>1, TableOfCalls, Zenon DEF Calls
  <1>7. ASSUME NEW fn \in Nat, fn < 9
        PROVE  SWITable[fn + 1] \in Calls /\ (SWITable[fn + 1] = "sysGetChar" <=> fn = 0)
    <2>1. fn + 1 \in 1..9 /\ (fn # 0 => fn + 1 \in 2..9)
      BY <1>7
    <2>2. fn = 0 => SWITable[fn + 1] = "sysGetChar"
      BY TableOfCalls
    <2> QED
      BY <1>2, <1>3, <2>1, <2>2
  <1>8. {SWITable[n] : n \in 2..8} = Puts
    BY <1>4, <1>5, Zenon
  <1>9. {SWITable[n] : n \in 1..9} = Calls
    BY <1>2, <1>6, Zenon
  <1> QED
    BY <1>7, <1>8, <1>9, TableOfCalls

\* Places are told apart by their names.
LEMMA PlacesApart ==
    /\ HandlerNames \cap Running = {} /\ HandlerNames \cap Calls = {}
    /\ {"loop", "lost", "ddProceed", "duNext", "handle_reset"}
         \cap (HandlerNames \cup Running \cup Calls) = {}
    /\ Calls \subseteq Running /\ {"program", "dgDone", "handle_swi", "rti", "appTerminated"} \subseteq Running
    /\ Calls \cap {"program", "dgDone", "handle_swi", "rti", "appTerminated"} = {}
  BY Zenon DEF HandlerNames, Running, Calls, Puts

LEMMA PlacesAre ==
    Places = {"loop", "lost", "ddProceed", "duNext", "dgDone", "handle_reset", "program",
              "handle_swi", "rti", "appTerminated"} \cup HandlerNames \cup Calls
  BY HandlersAre, CallsAre, Zenon DEF Places

(***************************************************************************)
(* Registers and frames.                                                   *)
(***************************************************************************)
LEMMA RegistersAre ==
    /\ \A r \in RegisterValues : /\ r.A \in Byte /\ r.B \in Byte
                                 /\ r.X \in Word /\ r.Y \in Word /\ r.U \in Word
    /\ \A r \in RegisterValues, v \in Byte : [r EXCEPT !.A = v] \in RegisterValues
    /\ \A a \in Byte, b \in Byte, x \in Word, yy \in Word, u \in Word :
         [A |-> a, B |-> b, X |-> x, Y |-> yy, U |-> u] \in RegisterValues
  BY DEF RegisterValues

LEMMA SavedAre ==
    /\ \A r \in SavedValues : /\ r.A \in Byte /\ r.B \in Byte /\ r.X \in Word
                              /\ r.Y \in Word /\ r.U \in Word /\ r.S \in Word
    /\ \A a \in Byte, b \in Byte, x \in Word, yy \in Word, u \in Word, st \in Word :
         [A |-> a, B |-> b, X |-> x, Y |-> yy, U |-> u, S |-> st] \in SavedValues
  BY DEF SavedValues

LEMMA NumbersAre == 0 \in Byte /\ 0 \in Word /\ 16 \in Byte /\ 512 \in Word /\ 255 \in Byte
  BY DEF Byte, Word

LEMMA NothingIs == NoRegisters \in RegisterValues /\ NoneSaved \in SavedValues
  <1>1. NoRegisters \in RegisterValues
    BY RegistersAre, NumbersAre DEF NoRegisters
  <1>2. NoRegisters.A = 0 /\ NoRegisters.B = 0 /\ NoRegisters.X = 0 /\ NoRegisters.Y = 0
        /\ NoRegisters.U = 0
    BY DEF NoRegisters
  <1> QED
    BY <1>1, <1>2, SavedAre, NumbersAre DEF NoneSaved, WithStack

LEMMA WithStackIs ==
    ASSUME NEW r \in RegisterValues
    PROVE  WithStack(r, system_stack) \in SavedValues
  <1>1. r.A \in Byte /\ r.B \in Byte /\ r.X \in Word /\ r.Y \in Word /\ r.U \in Word
    BY RegistersAre, Zenon
  <1>2. system_stack \in Word
    BY NumbersAre DEF system_stack
  <1> QED
    BY <1>1, <1>2, SavedAre, Zenon DEF WithStack

LEMMA StripsParity == ASSUME NEW c \in Byte PROVE StripParity(c) \in Byte
  BY DEF StripParity, Byte, CR, LF

LEMMA FrameOf ==
    ASSUME NEW r \in RegisterValues, NEW to \in {"function", "next", "appTerminated"}
    PROVE  LET f == [what |-> "frame", regs |-> r, to |-> to]
           IN  f \in Frames /\ f.regs = r /\ f.to = to
  BY DEF Frames

LEMMA FrameTo ==
    ASSUME NEW f \in Frames, NEW to \in {"function", "next", "appTerminated"}
    PROVE  /\ [f EXCEPT !.to = to] \in Frames
           /\ [f EXCEPT !.to = to].regs = f.regs /\ [f EXCEPT !.to = to].to = to
  BY DEF Frames

LEMMA FrameWithA ==
    ASSUME NEW f \in Frames, NEW v \in Byte
    PROVE  /\ [f EXCEPT !.regs.A = v] \in Frames
           /\ [f EXCEPT !.regs.A = v].regs = [f.regs EXCEPT !.A = v]
           /\ [f EXCEPT !.regs.A = v].to = f.to
  <1> DEFINE r == [f.regs EXCEPT !.A = v]
  <1>1. f = [what |-> "frame", regs |-> f.regs, to |-> f.to]
    BY DEF Frames
  <1>2. f.regs \in RegisterValues /\ f.to \in {"function", "next", "appTerminated"}
    BY WhatIs
  <1>3. [f EXCEPT !.regs.A = v] = [f EXCEPT !.regs = r]
    BY DEF Frames
  <1>4. r \in RegisterValues
    BY <1>2, RegistersAre
  <1> HIDE DEF r
  <1>5. [f EXCEPT !.regs = r] \in Frames /\ [f EXCEPT !.regs = r].regs = r
        /\ [f EXCEPT !.regs = r].to = f.to
    BY <1>2, <1>4 DEF Frames
  <1> QED
    BY <1>3, <1>5 DEF r

\* A system call leaves at least something to be returned with.
LEMMA SomethingReceived ==
    /\ \E c \in Received : TRUE
    /\ \A c \in Received : StripParity(c) \in Byte
  <1>1. Received # {} /\ \A c \in Received : c \in Byte
    BY Zenon, MonitorAssumption
  <1> QED
    BY <1>1, StripsParity

(***************************************************************************)
(* What a step leaves alone.                                               *)
(***************************************************************************)
\* A step that reads a character, or may.
MayRead == \E c \in Received \cup {prevChar} : Getting(c)

LEMMA HandlingKeeps ==
    ASSUME LinePart, ArgPart, Handling \/ MayRead
    PROVE  /\ LinePart' /\ ArgPart'
           /\ outcome' = outcome /\ argc' = argc /\ args' = args /\ lines' = lines
  <1>1. /\ UNCHANGED <<typed, at, line, row, cursor>>
        /\ UNCHANGED <<argc, argv, spill>>
        /\ UNCHANGED <<outcome, args, lines>>
    BY DEF Handling, MayRead, Getting, lineVars, argVars
  <1>0. prevChar' \in Byte /\ prevChar' # LF
    <2>1. prevChar \in Byte /\ prevChar # LF /\ \A c \in Received : c \in Byte /\ c # LF
      BY MonitorAssumption DEF LinePart, LineInv, LineTypes
    <2> QED
      BY <2>1 DEF Handling, MayRead, Getting, lineVars
  <1>2. LineInv'
    <2>1. LineInv
      BY Zenon DEF LinePart
    <2> QED
      BY <1>0, <1>1, <2>1 DEF LineInv, LineTypes, Shows
  <1>3. LinePart'
    BY <1>0, <1>1, <1>2, Zenon DEF LinePart
  <1>4. ArgPart'
    BY <1>1, Zenon DEF ArgPart
  <1> QED
    BY <1>1, <1>3, <1>4, Zenon

LEMMA SettingsKeep == ASSUME SettingsPart, SettingsKept PROVE SettingsPart'
  BY DEF SettingsPart, SettingsKept, settings

LEMMA ReportKeeps ==
    ASSUME ReportPart, UNCHANGED <<saved, failed, shown, outcome>>
    PROVE  ReportPart'
  BY DEF ReportPart, Reports

\* A step of a handler that shows something else than registers.
LEMMA ReportIsNone ==
    ASSUME ReportPart, UNCHANGED <<saved, failed, outcome>>,
           outcome \notin {"registersFn", "goFn"}
    PROVE  ReportPart'
  BY DEF ReportPart

LEMMA ProgramKeeps ==
    ASSUME CountPart, UNCHANGED program, UNCHANGED lines, round' \in Byte, y' \in Word
    PROVE  CountPart'
  BY DEF CountPart, program

\* From a handler to where no program runs.
LEMMA QuietKeeps ==
    ASSUME StackPart, RegisterPart, pc \notin Running, UNCHANGED program,
           \/ pc' \in {"loop", "lost", "handle_reset"} /\ stack' \in Seq(Entries)
           \/ pc' \in {"ddProceed", "duNext"} /\ stack' = Base
    PROVE  StackPart' /\ RegisterPart'
  <1>1. /\ pc' \in {"loop", "lost", "handle_reset", "ddProceed", "duNext"}
        /\ stack' \in Seq(Entries)
        /\ pc' \in {"ddProceed", "duNext"} => stack' = Base
    <2>1. Base \in Seq(Entries)
      BY StacksAre
    <2> QED
      BY <2>1, Zenon
  <1>2. pc' \notin Running /\ pc' \notin Calls /\ pc' \notin HandlerNames /\ pc' \in Places
    BY <1>1, PlacesApart, PlacesAre, Zenon
  <1>3. /\ pc' \notin {"program", "dgDone", "handle_swi", "rti", "appTerminated"}
        /\ pc' \notin {"program", "dgDone"} /\ pc' \notin {"program", "appTerminated"}
        /\ pc' # "appTerminated" /\ pc' \notin {"handle_swi", "rti"} /\ pc' # "dgDone"
    BY <1>1, Zenon
  <1>4. StackPart'
    BY <1>1, <1>2, <1>3, Zenon DEF StackPart
  <1>5. UNCHANGED <<regs, before, function, pushes>>
    BY DEF program
  <1>6. regs = before /\ function = NoFunction /\ pushes = 0 /\ regs \in RegisterValues
    BY Zenon DEF RegisterPart
  <1>7. RegisterPart'
    BY <1>2, <1>3, <1>5, <1>6, Zenon DEF RegisterPart
  <1> QED
    BY <1>4, <1>7

LEMMA QuietCommand ==
    ASSUME \/ pc' \in {"loop", "lost", "handle_reset"}
           \/ pc' = "ddProceed" /\ outcome' = "dumpFn"
           \/ pc' = "duNext" /\ outcome' = "unassembleFn"
    PROVE  CommandPart'
  <1>1. pc' \in {"loop", "lost", "ddProceed", "duNext", "handle_reset"}
    BY Zenon
  <1>2. pc' \notin Running /\ pc' \notin HandlerNames
    BY <1>1, PlacesApart, Zenon
  <1>3. pc' # "registersFn"
    BY <1>1, Zenon
  <1>4. (pc' = "ddProceed" => outcome' = "dumpFn") /\ (pc' = "duNext" => outcome' = "unassembleFn")
    BY Zenon
  <1> QED
    BY <1>2, <1>3, <1>4, Zenon DEF CommandPart

\* A handler that returns, or gets lost.
LEMMA HandlerLeaves ==
    ASSUME MonitorInv, Handling \/ MayRead, UNCHANGED program,
           UNCHANGED <<saved, failed, shown>>,
           pc \in HandlerNames, pc' \in {"loop", "lost"}, stack' \in Seq(Entries),
           SettingsPart', round' \in Byte, y' \in Word
    PROVE  MonitorInv'
  <1>1. /\ LinePart /\ ArgPart /\ CountPart /\ StackPart /\ RegisterPart /\ ReportPart
    BY Zenon DEF MonitorInv
  <1>2. LinePart' /\ ArgPart' /\ outcome' = outcome /\ lines' = lines
    BY <1>1, HandlingKeeps
  <1>3. CountPart'
    BY <1>1, <1>2, ProgramKeeps
  <1>4. pc \notin Running
    BY PlacesApart, Zenon
  <1>5. StackPart' /\ RegisterPart'
    BY <1>1, <1>4, QuietKeeps, Zenon
  <1>6. CommandPart'
    BY QuietCommand, Zenon
  <1>7. ReportPart'
    BY <1>1, <1>2, ReportKeeps
  <1> QED
    BY <1>2, <1>3, <1>5, <1>6, <1>7, Zenon DEF MonitorInv

(***************************************************************************)
(* The handlers.                                                           *)
(***************************************************************************)
LEMMA AtHandler ==
    ASSUME MonitorInv, pc \in HandlerNames \cup {"ddProceed", "duNext"}
    PROVE  /\ stack = Base /\ pc \notin Running
           /\ pc \in HandlerNames \ {"registersFn"} => outcome = pc
  <1>1. stack = Base
    BY Zenon DEF MonitorInv, StackPart
  <1>2. pc \notin Running
    BY PlacesApart, Zenon
  <1>3. pc \in HandlerNames \ {"registersFn"} => outcome = pc
    BY Zenon DEF MonitorInv, CommandPart
  <1> QED
    BY <1>1, <1>2, <1>3

\* What most handlers leave alone.
LEMMA NothingIsDone ==
    /\ Nothing => UNCHANGED program /\ UNCHANGED <<saved, failed>>
    /\ UNCHANGED loops => UNCHANGED <<round, y, shown>>
    /\ MonitorInv => SettingsPart /\ CountPart /\ round \in Byte /\ y \in Word
  BY DEF Nothing, loops, MonitorInv, CountPart

LEMMA SetRadixKeeps == ASSUME MonitorInv, SetRadix PROVE MonitorInv'
  <1>1. pc \in DOMAIN radixOf /\ DOMAIN radixOf = {"binaryFn", "decimalFn", "hexadecimalFn"}
    BY DEF SetRadix, radixOf
  <1>2. pc \in HandlerNames
    BY <1>1, Zenon DEF HandlerNames
  <1>3. pc' = "loop" /\ stack' = <<>>
    BY <1>2, AtHandler, ReturnsToLoop DEF SetRadix
  <1>4. stack' \in Seq(Entries)
    BY <1>3
  <1>5. radix' \in {2, 10, 16}
    BY <1>1 DEF SetRadix, radixOf
  <1>6. /\ UNCHANGED <<memoryAddress, linesPerPage, unassembleAddress>> /\ UNCHANGED loops
        /\ Handling /\ Nothing
    BY DEF SetRadix
  <1>7. SettingsPart'
    BY <1>5, <1>6, NothingIsDone DEF SettingsPart
  <1>8. /\ UNCHANGED program /\ UNCHANGED <<saved, failed>> /\ UNCHANGED <<round, y, shown>>
        /\ round \in Byte /\ y \in Word
    BY <1>6, NothingIsDone
  <1>9. round' \in Byte /\ y' \in Word /\ UNCHANGED <<saved, failed, shown>>
    BY <1>8
  <1> QED
    BY <1>2, <1>3, <1>4, <1>6, <1>7, <1>8, <1>9, HandlerLeaves

LEMMA PrintsKeeps == ASSUME MonitorInv, Prints \/ DiskOrLoad PROVE MonitorInv'
  <1>1. pc \in {"bootFn", "helpFn", "radixFn", "diskFn", "loadFn"}
    BY Zenon DEF Prints, DiskOrLoad
  <1>2. pc \in HandlerNames
    BY <1>1, Zenon DEF HandlerNames
  <1>3. pc' = "loop" /\ stack' = <<>>
    BY <1>2, AtHandler, ReturnsToLoop DEF Prints, DiskOrLoad
  <1>4. stack' \in Seq(Entries)
    BY <1>3
  <1>5. UNCHANGED loops /\ (Handling \/ MayRead) /\ SettingsKept /\ Nothing
    BY DEF Prints, DiskOrLoad, MayRead
  <1>6. SettingsPart'
    BY <1>5, NothingIsDone, SettingsKeep
  <1>7. /\ UNCHANGED program /\ UNCHANGED <<saved, failed>> /\ UNCHANGED <<round, y, shown>>
        /\ round \in Byte /\ y \in Word
    BY <1>5, NothingIsDone
  <1>8. round' \in Byte /\ y' \in Word /\ UNCHANGED <<saved, failed, shown>>
    BY <1>7
  <1> QED
    BY <1>2, <1>3, <1>4, <1>5, <1>6, <1>7, <1>8, HandlerLeaves

LEMMA CpuKeeps == ASSUME MonitorInv, cpuFn PROVE MonitorInv'
  <1>1. pc \in HandlerNames
    BY Zenon DEF cpuFn, HandlerNames
  <1>2. pc' = "lost" /\ stack' \in Seq(Entries)
    <2>1. Rts(Base \o <<Left("B"), Left("A")>>)
      BY <1>1, AtHandler DEF cpuFn
    <2>2. Base \o <<Left("B"), Left("A")>> = Append(Append(Base, Left("B")), Left("A"))
      BY DEF Base
    <2>3. Append(Base, Left("B")) \in Seq(Entries)
      BY StacksAre, EntriesAre, PushIs
    <2> QED
      BY <2>1, <2>2, <2>3, EntriesAre, Misses
  <1>3. UNCHANGED loops /\ Handling /\ SettingsKept /\ Nothing
    BY DEF cpuFn
  <1>4. SettingsPart'
    BY <1>3, NothingIsDone, SettingsKeep
  <1>5. /\ UNCHANGED program /\ UNCHANGED <<saved, failed>> /\ UNCHANGED <<round, y, shown>>
        /\ round \in Byte /\ y \in Word
    BY <1>3, NothingIsDone
  <1>6. round' \in Byte /\ y' \in Word /\ UNCHANGED <<saved, failed, shown>>
    BY <1>5
  <1>7. pc' \in {"loop", "lost"}
    BY <1>2
  <1> QED
    BY <1>1, <1>2, <1>3, <1>4, <1>5, <1>6, <1>7, HandlerLeaves, Zenon

\* The number an argument stands for.
LEMMA ArgumentIs ==
    ASSUME MonitorInv, NEW n \in 1..argc
    PROVE  Arg(n) \in Read /\ Arg(n).value \in Word /\ Arg(n).value % 256 \in Byte
  <1>1. args \in Seq(Seq(Letter)) /\ Len(args) = argc /\ argc \in Nat
    BY Zenon DEF MonitorInv, ArgPart
  <1>2. args[n] \in Seq(Letter)
    BY <1>1
  <1>3. args[n] \in Seq(Int)
    <2> DEFINE w == args[n]
    <2>1. \A c \in Letter : c \in Int
      BY DEF Letter, SPACE, DEL
    <2>2. w \in Seq(Letter)
      BY <1>2
    <2> HIDE DEF w
    <2>3. \A i \in 1..Len(w) : w[i] \in Int
      BY <2>1, <2>2
    <2>4. w \in Seq(Int)
      BY <2>2, <2>3
    <2> QED
      BY <2>4 DEF w
  <1>4. Arg(n) \in Read
    BY <1>3, StrToHexIs DEF Arg
  <1>5. Arg(n).value \in Word
    BY <1>4, ReadHas
  <1> DEFINE v == Arg(n).value
  <1> HIDE DEF v
  <1>6. v \in Word => v % 256 \in Byte
    BY DEF Word, Byte
  <1> QED
    BY <1>4, <1>5, <1>6 DEF v

LEMMA WindowKeeps == ASSUME MonitorInv, windowFn PROVE MonitorInv'
  <1>1. pc \in HandlerNames /\ stack = Base
    <2>1. pc \in HandlerNames
      BY Zenon DEF windowFn, HandlerNames
    <2> QED
      BY <2>1, AtHandler
  <1>2. /\ UNCHANGED <<memoryAddress, radix, unassembleAddress>> /\ UNCHANGED loops
        /\ Handling /\ Nothing
    BY DEF windowFn, loops
  <1>3. pc' \in {"loop", "lost"} /\ stack' \in Seq(Entries) /\ linesPerPage' \in Byte
    <2>0. linesPerPage \in Byte
      BY NothingIsDone DEF SettingsPart
    <2>1. CASE Rts(stack) /\ linesPerPage' \in Byte
      <3>1. pc' = "loop" /\ stack' = <<>>
        BY <1>1, <2>1, ReturnsToLoop
      <3> QED
        BY <2>1, <3>1
    <2>2. CASE RtsAfter(Arg(2)) /\ linesPerPage' = linesPerPage
      BY <1>1, <2>0, <2>2, ReturnsAfter
    <2>3. argc = 2 => Arg(2).value % 256 \in Byte
      <3> SUFFICES ASSUME argc = 2 PROVE Arg(2).value % 256 \in Byte
        OBVIOUS
      <3>1. 2 \in 1..argc
        OBVIOUS
      <3> QED
        BY <3>1, ArgumentIs
    <2>4. \/ Rts(stack) /\ linesPerPage' = linesPerPage
          \/ argc = 2 /\ linesPerPage' = Arg(2).value % 256 /\ Rts(stack)
          \/ RtsAfter(Arg(2)) /\ linesPerPage' = linesPerPage
      BY Zenon DEF windowFn
    <2> QED
      BY <2>0, <2>1, <2>2, <2>3, <2>4
  <1>4. SettingsPart'
    BY <1>2, <1>3, NothingIsDone DEF SettingsPart
  <1>5. /\ UNCHANGED program /\ UNCHANGED <<saved, failed>> /\ UNCHANGED <<round, y, shown>>
        /\ round \in Byte /\ y \in Word
    BY <1>2, NothingIsDone
  <1>6. round' \in Byte /\ y' \in Word /\ UNCHANGED <<saved, failed, shown>>
    BY <1>5
  <1> QED
    BY <1>1, <1>2, <1>3, <1>4, <1>5, <1>6, HandlerLeaves, Zenon

\* A step of a handler, or of one of its rounds, when its parts are known.
LEMMA StepOfHandler ==
    ASSUME MonitorInv, Handling, UNCHANGED program, ReportPart',
           pc \in HandlerNames \cup {"ddProceed", "duNext"},
           \/ pc' \in {"loop", "lost", "handle_reset"} /\ stack' \in Seq(Entries)
           \/ pc' = "ddProceed" /\ outcome = "dumpFn" /\ stack' = Base
           \/ pc' = "duNext" /\ outcome = "unassembleFn" /\ stack' = Base,
           SettingsPart', round' \in Byte, y' \in Word
    PROVE  MonitorInv'
  <1>1. /\ LinePart /\ ArgPart /\ CountPart /\ StackPart /\ RegisterPart /\ ReportPart
    BY Zenon DEF MonitorInv
  <1>2. LinePart' /\ ArgPart' /\ outcome' = outcome /\ lines' = lines
    BY <1>1, HandlingKeeps
  <1>3. CountPart'
    BY <1>1, <1>2, ProgramKeeps
  <1>4. pc \notin Running
    BY PlacesApart, Zenon
  <1>5. \/ pc' \in {"loop", "lost", "handle_reset"} /\ stack' \in Seq(Entries)
        \/ pc' \in {"ddProceed", "duNext"} /\ stack' = Base
    BY Zenon
  <1>6. StackPart' /\ RegisterPart'
    BY <1>1, <1>4, <1>5, QuietKeeps, Zenon
  <1>7. \/ pc' \in {"loop", "lost", "handle_reset"}
        \/ pc' = "ddProceed" /\ outcome' = "dumpFn"
        \/ pc' = "duNext" /\ outcome' = "unassembleFn"
    BY <1>2, Zenon
  <1>8. CommandPart'
    BY <1>7, QuietCommand, Zenon
  <1> QED
    BY <1>2, <1>3, <1>6, <1>8, Zenon DEF MonitorInv

LEMMA DumpKeeps == ASSUME MonitorInv, dumpFn PROVE MonitorInv'
  <1>1. pc \in HandlerNames /\ stack = Base /\ outcome = "dumpFn"
    <2>1. pc = "dumpFn" /\ pc \in HandlerNames \ {"registersFn"}
      BY Zenon DEF dumpFn, HandlerNames
    <2> QED
      BY <2>1, AtHandler
  <1>2. /\ UNCHANGED <<radix, unassembleAddress, y, shown>> /\ Handling /\ Nothing
    BY DEF dumpFn
  <1>3. SettingsPart /\ round \in Byte /\ y \in Word
    BY NothingIsDone
  <1>4. memoryAddress \in Word /\ linesPerPage \in Byte
    BY <1>3, Zenon DEF SettingsPart
  <1>5. Page \in Byte
    <2>1. CountGiven => 3 \in 1..argc
      BY DEF CountGiven
    <2> QED
      BY <1>4, <2>1, ArgumentIs, Zenon DEF Page
  <1>6. AddressGiven => Arg(2).value \in Word
    <2>1. AddressGiven => 2 \in 1..argc
      BY DEF AddressGiven
    <2> QED
      BY <2>1, ArgumentIs, Zenon
  <1>7. /\ memoryAddress' \in Word /\ linesPerPage' \in Byte /\ round' \in Byte
        /\ \/ pc' \in {"loop", "lost"} /\ stack' \in Seq(Entries)
           \/ pc' = "ddProceed" /\ stack' = Base
    <2>1. CASE ddBadCount
      BY <1>1, <1>3, <1>4, <2>1, ReturnsAfter DEF ddBadCount
    <2>2. CASE ddBadAddress
      <3>1. pc' \in {"loop", "lost"} /\ stack' \in Seq(Entries)
        BY <1>1, <2>2, ReturnsAfter DEF ddBadAddress
      <3> QED
        BY <1>3, <1>4, <1>5, <2>2, <3>1, Zenon DEF ddBadAddress
    <2>3. CASE ddGo
      <3>1. memoryAddress' = IF AddressGiven THEN Arg(2).value ELSE memoryAddress
        BY <2>3, Zenon DEF ddGo
      <3>2. memoryAddress' \in Word
        BY <1>4, <1>6, <3>1, Zenon
      <3>3. linesPerPage' = Page /\ round' = Page /\ pc' = "ddProceed" /\ stack' = stack
        BY <2>3, Zenon DEF ddGo
      <3> QED
        BY <1>1, <1>5, <3>2, <3>3, Zenon
    <2> QED
      BY <2>1, <2>2, <2>3, Zenon DEF dumpFn
  <1>8. SettingsPart'
    BY <1>2, <1>3, <1>7 DEF SettingsPart
  <1>9. /\ UNCHANGED program /\ UNCHANGED <<saved, failed, shown>> /\ y' \in Word
    BY <1>2, <1>3, NothingIsDone
  <1>10. ReportPart'
    <2>1. ReportPart /\ LinePart /\ ArgPart
      BY Zenon DEF MonitorInv
    <2>2. outcome' = outcome
      BY <1>2, <2>1, HandlingKeeps
    <2> QED
      BY <1>9, <2>1, <2>2, ReportKeeps
  <1>11. \/ pc' \in {"loop", "lost", "handle_reset"} /\ stack' \in Seq(Entries)
         \/ pc' = "ddProceed" /\ outcome = "dumpFn" /\ stack' = Base
    BY <1>1, <1>7, Zenon
  <1> QED
    BY <1>1, <1>2, <1>7, <1>8, <1>9, <1>10, <1>11, StepOfHandler, Zenon

LEMMA RoundsGoDown ==
    ASSUME NEW place, EndOfRounds(place), stack = Base, round \in Byte
    PROVE  /\ round' \in Byte
           /\ \/ pc' = "loop" /\ stack' = <<>>
              \/ pc' = place /\ stack' = Base
  <1>1. round' \in Byte
    BY DEF EndOfRounds, Down, Byte
  <1>2. CASE Down(round) = 0
    <2>1. Rts(stack)
      BY <1>2 DEF EndOfRounds
    <2> QED
      BY <1>1, <2>1, ReturnsToLoop
  <1>3. CASE Down(round) # 0
    BY <1>1, <1>3 DEF EndOfRounds
  <1> QED
    BY <1>2, <1>3

LEMMA ProceedKeeps == ASSUME MonitorInv, ddProceed PROVE MonitorInv'
  <1>1. pc = "ddProceed" /\ stack = Base /\ outcome = "dumpFn"
    <2>1. pc = "ddProceed"
      BY DEF ddProceed
    <2>2. CommandPart
      BY Zenon DEF MonitorInv
    <2> QED
      BY <2>1, <2>2, AtHandler DEF CommandPart
  <1>2. UNCHANGED <<linesPerPage, radix, unassembleAddress, y>> /\ Handling /\ Nothing
    BY DEF ddProceed
  <1>3. SettingsPart /\ round \in Byte /\ y \in Word /\ memoryAddress \in Word
    BY NothingIsDone DEF SettingsPart
  <1>4. /\ round' \in Byte
        /\ \/ pc' = "loop" /\ stack' = <<>>
           \/ pc' = "ddProceed" /\ stack' = Base
    <2>1. EndOfRounds("ddProceed")
      BY DEF ddProceed
    <2> QED
      BY <1>1, <1>3, <2>1, RoundsGoDown
  <1>5. memoryAddress' \in Word
    <2>1. memoryAddress' = (memoryAddress + 16) % 65536
      BY DEF ddProceed
    <2> QED
      BY <1>3, <2>1 DEF Word
  <1>6. SettingsPart'
    BY <1>2, <1>3, <1>5 DEF SettingsPart
  <1>7. UNCHANGED program /\ UNCHANGED <<saved, failed>> /\ y' \in Word
    BY <1>2, <1>3, NothingIsDone
  <1>8. ReportPart'
    <2>1. ReportPart /\ LinePart /\ ArgPart
      BY Zenon DEF MonitorInv
    <2>2. outcome' = outcome
      BY <1>2, <2>1, HandlingKeeps
    <2>3. outcome \notin {"registersFn", "goFn"}
      BY <1>1
    <2> QED
      BY <1>7, <2>1, <2>2, <2>3, ReportIsNone
  <1>9. <<>> \in Seq(Entries)
    OBVIOUS
  <1>10. \/ pc' \in {"loop", "lost", "handle_reset"} /\ stack' \in Seq(Entries)
         \/ pc' = "ddProceed" /\ outcome = "dumpFn" /\ stack' = Base
    BY <1>1, <1>4, <1>9
  <1>11. pc \in HandlerNames \cup {"ddProceed", "duNext"}
    BY <1>1
  <1> QED
    BY <1>2, <1>4, <1>6, <1>7, <1>8, <1>10, <1>11, StepOfHandler, Zenon

LEMMA UnassembleKeeps == ASSUME MonitorInv, unassembleFn PROVE MonitorInv'
  <1>1. pc \in HandlerNames /\ stack = Base /\ outcome = "unassembleFn"
    <2>1. pc = "unassembleFn" /\ pc \in HandlerNames \ {"registersFn"}
      BY Zenon DEF unassembleFn, HandlerNames
    <2> QED
      BY <2>1, AtHandler
  <1>2. UNCHANGED <<memoryAddress, linesPerPage, radix, shown>> /\ Handling /\ Nothing
    BY DEF unassembleFn
  <1>3. /\ SettingsPart /\ round \in Byte /\ y \in Word
        /\ linesPerPage \in Byte /\ unassembleAddress \in Word
    BY NothingIsDone DEF SettingsPart
  <1>4. argc = 2 => Arg(2).value \in Word
    <2>1. argc = 2 => 2 \in 1..argc
      OBVIOUS
    <2> QED
      BY <2>1, ArgumentIs, Zenon
  <1>5. /\ unassembleAddress' \in Word /\ round' \in Byte /\ y' \in Word
        /\ \/ pc' \in {"loop", "lost"} /\ stack' \in Seq(Entries)
           \/ pc' = "duNext" /\ stack' = Base
    <2>1. CASE /\ unassembleAddress' = IF argc = 2 THEN Arg(2).value ELSE unassembleAddress
               /\ y' = unassembleAddress' /\ round' = linesPerPage
               /\ pc' = "duNext" /\ stack' = stack
      BY <1>1, <1>3, <1>4, <2>1, Zenon
    <2>2. CASE /\ UNCHANGED <<unassembleAddress, y, round>> /\ RtsAfter(Arg(2))
      <3>1. pc' \in {"loop", "lost"} /\ stack' \in Seq(Entries)
        BY <1>1, <2>2, ReturnsAfter
      <3> QED
        BY <1>3, <2>2, <3>1
    <2> QED
      BY <2>1, <2>2, Zenon DEF unassembleFn
  <1>6. SettingsPart'
    BY <1>2, <1>3, <1>5 DEF SettingsPart
  <1>7. UNCHANGED program /\ UNCHANGED <<saved, failed, shown>>
    BY <1>2, NothingIsDone
  <1>8. ReportPart'
    <2>1. ReportPart /\ LinePart /\ ArgPart
      BY Zenon DEF MonitorInv
    <2>2. outcome' = outcome
      BY <1>2, <2>1, HandlingKeeps
    <2> QED
      BY <1>7, <2>1, <2>2, ReportKeeps
  <1>9. \/ pc' \in {"loop", "lost", "handle_reset"} /\ stack' \in Seq(Entries)
        \/ pc' = "duNext" /\ outcome = "unassembleFn" /\ stack' = Base
    BY <1>1, <1>5, Zenon
  <1> QED
    BY <1>1, <1>2, <1>5, <1>6, <1>7, <1>8, <1>9, StepOfHandler, Zenon

LEMMA NextKeepsOn == ASSUME MonitorInv, duNext PROVE MonitorInv'
  <1>1. pc = "duNext" /\ stack = Base /\ outcome = "unassembleFn"
    <2>1. pc = "duNext"
      BY DEF duNext
    <2>2. CommandPart
      BY Zenon DEF MonitorInv
    <2> QED
      BY <2>1, <2>2, AtHandler DEF CommandPart
  <1>2. UNCHANGED <<memoryAddress, linesPerPage, radix>> /\ Handling /\ Nothing
    BY DEF duNext
  <1>3. SettingsPart /\ round \in Byte /\ y \in Word /\ unassembleAddress \in Word
    BY NothingIsDone DEF SettingsPart
  <1>4. /\ round' \in Byte
        /\ \/ pc' = "loop" /\ stack' = <<>>
           \/ pc' = "duNext" /\ stack' = Base
    <2>1. EndOfRounds("duNext")
      BY DEF duNext
    <2> QED
      BY <1>1, <1>3, <2>1, RoundsGoDown
  <1>5. y' \in Word
    <2>1. y' = (y + LengthAt(y)) % 65536
      BY DEF duNext
    <2>2. y \in Memory /\ y \in Nat
      <3>1. y \in Nat /\ y <= Topmost /\ Topmost \in Nat
        BY <1>3 DEF Word, Topmost
      <3> QED
        BY <3>1 DEF Memory
    <2>3. LengthAt(y) \in 1..5
      BY <2>2, MemoryAssumption
    <2> QED
      BY <2>1, <2>2, <2>3 DEF Word
  <1>6. unassembleAddress' \in Word
    <2>1. unassembleAddress' = IF pc' = "duNext" THEN unassembleAddress ELSE y'
      BY DEF duNext
    <2> QED
      BY <1>3, <1>5, <2>1, Zenon
  <1>7. SettingsPart'
    BY <1>2, <1>3, <1>6 DEF SettingsPart
  <1>8. UNCHANGED program /\ UNCHANGED <<saved, failed>>
    BY <1>2, NothingIsDone
  <1>9. ReportPart'
    <2>1. ReportPart /\ LinePart /\ ArgPart
      BY Zenon DEF MonitorInv
    <2>2. outcome' = outcome
      BY <1>2, <2>1, HandlingKeeps
    <2>3. outcome \notin {"registersFn", "goFn"}
      BY <1>1
    <2> QED
      BY <1>8, <2>1, <2>2, <2>3, ReportIsNone
  <1>10. <<>> \in Seq(Entries)
    OBVIOUS
  <1>11. \/ pc' \in {"loop", "lost", "handle_reset"} /\ stack' \in Seq(Entries)
         \/ pc' = "duNext" /\ outcome = "unassembleFn" /\ stack' = Base
    BY <1>1, <1>4, <1>10
  <1>12. pc \in HandlerNames \cup {"ddProceed", "duNext"}
    BY <1>1
  <1> QED
    BY <1>2, <1>4, <1>5, <1>7, <1>8, <1>9, <1>11, <1>12, StepOfHandler, Zenon

(***************************************************************************)
(* go, and the program.                                                    *)
(***************************************************************************)
LEMMA PartsAre ==
    ASSUME MonitorInv
    PROVE  /\ LinePart /\ ArgPart /\ SettingsPart /\ CountPart
           /\ StackPart /\ CommandPart /\ RegisterPart /\ ReportPart
  BY Zenon DEF MonitorInv

\* A program is at its beginning.
LEMMA ProgramBegins ==
    ASSUME RegisterPart, UNCHANGED program, pc \notin Running, pc' = "program",
           stack' = Append(Base, Return("dgDone")), outcome' = "goFn"
    PROVE  StackPart' /\ RegisterPart' /\ CommandPart'
  <1>1. UNCHANGED <<regs, before, function, pushes>>
    BY DEF program
  <1>2. regs = before /\ function = 255 /\ pushes = 0 /\ regs \in RegisterValues
    BY DEF RegisterPart, NoFunction
  <1>3. stack' = Beneath(pushes') /\ stack' \in Seq(Entries)
    <2>1. stack' = Beneath(0)
      BY DEF Beneath
    <2>2. Beneath(0) \in Seq(Entries)
      BY StacksAre
    <2> QED
      BY <1>1, <1>2, <2>1, <2>2
  <1>4. /\ pc' \in Places /\ pc' \in Running /\ pc' \notin HandlerNames /\ pc' \notin Calls
        /\ pc' \notin {"ddProceed", "duNext", "dgDone"} /\ pc' \notin {"handle_swi", "rti"}
        /\ pc' # "appTerminated" /\ pc' # "registersFn" /\ pc' # "ddProceed" /\ pc' # "duNext"
    BY PlacesApart, PlacesAre, Zenon
  <1>5. StackPart'
    BY <1>3, <1>4, Zenon DEF StackPart
  <1>6. Kept(regs)'
    <2>1. PICK c \in Received : TRUE
      BY SomethingReceived, Zenon
    <2>2. function' # 0
      BY <1>1, <1>2
    <2>3. regs' = before'
      BY <1>1, <1>2
    <2> QED
      BY <2>1, <2>2, <2>3, Zenon DEF Kept
  <1>7. RegisterPart'
    BY <1>1, <1>2, <1>4, <1>6, Zenon DEF RegisterPart
  <1>8. CommandPart'
    BY <1>4, Zenon DEF CommandPart
  <1> QED
    BY <1>5, <1>7, <1>8

LEMMA GoKeeps == ASSUME MonitorInv, goFn PROVE MonitorInv'
  <1>1. pc \in HandlerNames /\ stack = Base /\ outcome = "goFn" /\ pc \notin Running
    <2>1. pc = "goFn" /\ pc \in HandlerNames \ {"registersFn"}
      BY Zenon DEF goFn, HandlerNames
    <2> QED
      BY <2>1, AtHandler
  <1>2. UNCHANGED <<linesPerPage, radix, unassembleAddress>> /\ UNCHANGED loops /\ Handling /\ Nothing
    BY DEF goFn, loops
  <1>3. /\ SettingsPart /\ round \in Byte /\ y \in Word /\ memoryAddress \in Word
    BY NothingIsDone DEF SettingsPart
  <1>4. argc = 2 => Arg(2).value \in Word
    <2>1. argc = 2 => 2 \in 1..argc
      OBVIOUS
    <2> QED
      BY <2>1, ArgumentIs, Zenon
  <1>5. /\ memoryAddress' \in Word
        /\ \/ pc' \in {"loop", "lost", "handle_reset"} /\ stack' \in Seq(Entries)
           \/ pc' = "program" /\ stack' = Append(Base, Return("dgDone"))
    <2>1. CASE /\ memoryAddress' = IF argc = 2 THEN Arg(2).value ELSE memoryAddress
               /\ pc' = PlaceAt(memoryAddress')
               /\ stack' = Append(stack, Return("dgDone"))
      <3>1. memoryAddress' \in Word
        BY <1>3, <1>4, <2>1, Zenon
      <3>2. pc' \in {"program", "handle_reset", "lost"}
        BY <2>1, Zenon DEF PlaceAt
      <3>3. stack' = Append(Base, Return("dgDone"))
        BY <1>1, <2>1, Zenon
      <3>4. stack' \in Seq(Entries)
        BY <3>3, StacksAre, EntriesAre, PushIs
      <3> QED
        BY <3>1, <3>2, <3>3, <3>4, Zenon
    <2>2. CASE memoryAddress' = memoryAddress /\ RtsAfter(Arg(2))
      <3>1. pc' \in {"loop", "lost"} /\ stack' \in Seq(Entries)
        BY <1>1, <2>2, ReturnsAfter
      <3> QED
        BY <1>3, <2>2, <3>1
    <2> QED
      BY <2>1, <2>2, Zenon DEF goFn
  <1>6. SettingsPart'
    BY <1>2, <1>3, <1>5 DEF SettingsPart
  <1>7. UNCHANGED program /\ UNCHANGED <<saved, failed, shown>> /\ round' \in Byte /\ y' \in Word
    BY <1>2, <1>3, NothingIsDone
  <1>8. LinePart' /\ ArgPart' /\ outcome' = outcome /\ lines' = lines
    BY <1>2, PartsAre, HandlingKeeps
  <1>9. ReportPart'
    BY <1>7, <1>8, PartsAre, ReportKeeps
  <1>10. CASE pc' \in {"loop", "lost", "handle_reset"} /\ stack' \in Seq(Entries)
    <2>1. pc \in HandlerNames \cup {"ddProceed", "duNext"}
      BY <1>1, Zenon
    <2> QED
      BY <1>2, <1>6, <1>7, <1>9, <1>10, <2>1, StepOfHandler, Zenon
  <1>11. CASE pc' = "program" /\ stack' = Append(Base, Return("dgDone"))
    <2>1. StackPart' /\ RegisterPart' /\ CommandPart'
      BY <1>1, <1>7, <1>8, <1>11, PartsAre, ProgramBegins
    <2>2. CountPart'
      BY <1>7, <1>8, PartsAre, ProgramKeeps
    <2> QED
      BY <1>6, <1>8, <1>9, <2>1, <2>2, Zenon DEF MonitorInv
  <1> QED
    BY <1>5, <1>10, <1>11

\* The program is over: nothing of it is left.
LEMMA ProgramIsOver ==
    ASSUME CountPart, NoProgram, UNCHANGED lines, UNCHANGED <<round, y>>,
           \/ pc' = "loop" /\ stack' \in Seq(Entries)
           \/ pc' = "registersFn" /\ stack' = Base /\ outcome' = "goFn"
    PROVE  CountPart' /\ StackPart' /\ RegisterPart' /\ CommandPart'
  <1>1. /\ regs' = NoRegisters /\ before' = NoRegisters /\ function' = 255
        /\ calls' = 0 /\ pushes' = 0
    BY DEF NoProgram, NoFunction
  <1>2. CountPart'
    BY <1>1, MonitorAssumption, NumbersAre DEF CountPart
  <1>3. /\ pc' \in Places /\ pc' \notin Running /\ pc' \notin Calls
        /\ pc' \notin {"ddProceed", "duNext", "dgDone"} /\ pc' \notin {"handle_swi", "rti"}
        /\ pc' \notin {"program", "appTerminated"} /\ pc' \notin {"program", "dgDone"}
        /\ pc' # "appTerminated" /\ pc' # "ddProceed" /\ pc' # "duNext"
        /\ pc' \in HandlerNames => pc' = "registersFn"
    <2>1. "registersFn" \in HandlerNames
      BY Zenon DEF HandlerNames
    <2> QED
      BY <2>1, PlacesApart, PlacesAre, Zenon
  <1>4. stack' \in Seq(Entries) /\ (pc' = "registersFn" => stack' = Base)
    <2>1. Base \in Seq(Entries)
      BY StacksAre
    <2> QED
      BY <2>1, Zenon
  <1>5. StackPart'
    BY <1>3, <1>4, Zenon DEF StackPart
  <1>6. RegisterPart'
    BY <1>1, <1>3, NothingIs, Zenon DEF RegisterPart, NoFunction
  <1>7. pc' = "registersFn" => outcome' = "goFn"
    BY Zenon
  <1>8. CommandPart'
    BY <1>3, <1>7, Zenon DEF CommandPart
  <1> QED
    BY <1>2, <1>5, <1>6, <1>8

LEMMA GoDoneKeeps == ASSUME MonitorInv, dgDone PROVE MonitorInv'
  <1>1. /\ pc = "dgDone" /\ Rts(stack) /\ NoProgram /\ UNCHANGED loops
        /\ UNCHANGED <<saved, failed>> /\ Handling /\ SettingsKept
    BY DEF dgDone
  <1>2. stack = Base
    BY <1>1, PartsAre, Zenon DEF StackPart
  <1>3. pc' = "loop" /\ stack' = <<>>
    BY <1>1, <1>2, ReturnsToLoop
  <1>4. stack' \in Seq(Entries)
    BY <1>3
  <1>5. LinePart' /\ ArgPart' /\ outcome' = outcome /\ lines' = lines
    BY <1>1, PartsAre, HandlingKeeps
  <1>6. SettingsPart' /\ ReportPart' /\ UNCHANGED <<round, y>>
    BY <1>1, <1>5, PartsAre, SettingsKeep, NothingIsDone, ReportKeeps
  <1>7. CountPart' /\ StackPart' /\ RegisterPart' /\ CommandPart'
    BY <1>1, <1>3, <1>4, <1>5, <1>6, PartsAre, ProgramIsOver
  <1> QED
    BY <1>5, <1>6, <1>7, Zenon DEF MonitorInv

\* A step of a program that is not over.
LEMMA ProgramGoesOn ==
    ASSUME MonitorInv, Handling \/ MayRead, SettingsKept, UNCHANGED <<saved, failed>>,
           UNCHANGED loops, StackPart', RegisterPart', CommandPart',
           function' \in Byte, calls' \in 0..MaxCalls, pushes' \in 0..1
    PROVE  MonitorInv'
  <1>1. LinePart' /\ ArgPart' /\ outcome' = outcome /\ lines' = lines
    BY PartsAre, HandlingKeeps
  <1>2. SettingsPart' /\ ReportPart'
    BY <1>1, PartsAre, SettingsKeep, NothingIsDone, ReportKeeps
  <1>3. CountPart'
    BY <1>1, PartsAre, NothingIsDone DEF CountPart
  <1> QED
    BY <1>1, <1>2, <1>3, Zenon DEF MonitorInv

LEMMA CountsAre ==
    ASSUME MonitorInv
    PROVE  function \in Byte /\ calls \in 0..MaxCalls /\ pushes \in 0..1
  BY PartsAre DEF CountPart

LEMMA AtProgram ==
    ASSUME MonitorInv, pc = "program"
    PROVE  /\ stack = Beneath(pushes) /\ Kept(regs) /\ outcome = "goFn"
           /\ regs \in RegisterValues /\ before \in RegisterValues
  <1>1. StackPart /\ RegisterPart /\ CommandPart
    BY PartsAre
  <1>2. pc \in Running
    BY PlacesApart, Zenon
  <1> QED
    BY <1>1, <1>2, Zenon DEF StackPart, RegisterPart, CommandPart

\* What holds of a place with the program in its registers.
LEMMA ProgramAt ==
    ASSUME pc' \in {"program", "dgDone"}, outcome' = "goFn",
           regs' \in RegisterValues, before' \in RegisterValues, Kept(regs)',
           \/ pc' = "program" /\ stack' = Beneath(pushes') /\ pushes' \in 0..1
           \/ pc' = "dgDone" /\ stack' = Base
    PROVE  StackPart' /\ RegisterPart' /\ CommandPart'
  <1>1. /\ pc' \in Places /\ pc' \in Running /\ pc' \notin HandlerNames /\ pc' \notin Calls
        /\ pc' \notin {"ddProceed", "duNext"} /\ pc' \notin {"handle_swi", "rti"}
        /\ pc' # "appTerminated" /\ pc' # "registersFn" /\ pc' # "ddProceed" /\ pc' # "duNext"
    BY PlacesApart, PlacesAre, Zenon
  <1>2. stack' \in Seq(Entries)
    BY StacksAre
  <1>3. pc' \in {"program", "appTerminated"} => stack' = Beneath(pushes')
    BY Zenon
  <1>4. pc' \in HandlerNames \cup {"ddProceed", "duNext", "dgDone"} => stack' = Base
    BY <1>1, Zenon
  <1>5. StackPart'
    BY <1>1, <1>2, <1>3, <1>4, Zenon DEF StackPart
  <1>6. RegisterPart'
    BY <1>1, Zenon DEF RegisterPart
  <1>7. CommandPart'
    BY <1>1, Zenon DEF CommandPart
  <1> QED
    BY <1>5, <1>6, <1>7

LEMMA PushesKeeps == ASSUME MonitorInv, ProgramPushes PROVE MonitorInv'
  <1>1. /\ pc = "program" /\ pushes = 0 /\ stack' = Append(stack, Left("program"))
        /\ pushes' = 1 /\ UNCHANGED <<pc, regs, function, calls, before, saved, failed>>
        /\ UNCHANGED loops /\ Handling /\ SettingsKept
    BY DEF ProgramPushes, loops
  <1>2. /\ stack = Beneath(pushes) /\ Kept(regs) /\ outcome = "goFn"
        /\ regs \in RegisterValues /\ before \in RegisterValues
    BY <1>1, AtProgram
  <1>3. stack' = Beneath(pushes')
    <2>1. stack = Append(Base, Return("dgDone"))
      BY <1>1, <1>2 DEF Beneath
    <2> QED
      BY <1>1, <2>1 DEF Beneath
  <1>4. Kept(regs)'
    BY <1>1, <1>2, Zenon DEF Kept
  <1>5. outcome' = "goFn" /\ pc' = "program" /\ pushes' \in 0..1
    BY <1>1, <1>2, PartsAre, HandlingKeeps
  <1>6. StackPart' /\ RegisterPart' /\ CommandPart'
    BY <1>1, <1>2, <1>3, <1>4, <1>5, ProgramAt
  <1>7. function' \in Byte /\ calls' \in 0..MaxCalls
    BY <1>1, CountsAre
  <1> QED
    BY <1>1, <1>5, <1>6, <1>7, ProgramGoesOn

LEMMA ReturnsKeeps == ASSUME MonitorInv, ProgramReturns PROVE MonitorInv'
  <1>1. /\ pc = "program" /\ pushes = 0 /\ Rts(stack)
        /\ UNCHANGED loops /\ Handling /\ SettingsKept /\ Nothing
    BY DEF ProgramReturns
  <1>2. /\ stack = Beneath(pushes) /\ Kept(regs) /\ outcome = "goFn"
        /\ regs \in RegisterValues /\ before \in RegisterValues
    BY <1>1, AtProgram
  <1>3. pc' = "dgDone" /\ stack' = Base
    <2>1. stack = Append(Base, Return("dgDone"))
      BY <1>1, <1>2 DEF Beneath
    <2>2. Rts(Append(Base, Return("dgDone")))
      BY <1>1, <2>1
    <2> QED
      BY <2>2, StacksAre, EntriesAre, Finds
  <1>4. UNCHANGED <<regs, function, calls, pushes, before>> /\ UNCHANGED <<saved, failed>>
    BY <1>1 DEF Nothing, program
  <1>5. Kept(regs)'
    BY <1>2, <1>4, Zenon DEF Kept
  <1>6. outcome' = "goFn" /\ pc' \in {"program", "dgDone"}
    BY <1>1, <1>2, <1>3, PartsAre, HandlingKeeps
  <1>7. StackPart' /\ RegisterPart' /\ CommandPart'
    BY <1>2, <1>3, <1>4, <1>5, <1>6, ProgramAt
  <1>8. function' \in Byte /\ calls' \in 0..MaxCalls /\ pushes' \in 0..1
    BY <1>4, CountsAre
  <1> QED
    BY <1>1, <1>4, <1>7, <1>8, ProgramGoesOn

(***************************************************************************)
(* System calls.                                                           *)
(***************************************************************************)
\* A frame that has been put on the stack, or changed there.
LEMMA FramedAt ==
    ASSUME MonitorInv, pushes' = pushes, NEW f \in Frames,
           stack' = Append(Beneath(pushes), f),
           pc' \in Calls \cup {"handle_swi", "rti"}, outcome' = "goFn",
           regs' \in RegisterValues, before' \in RegisterValues,
           pc' # "rti" => f.regs = before',
           pc' \in Calls => f.to = "next",
           pc' = "sysGetChar" => function' = 0,
           pc' \in Puts \cup {"sysTerminate"} => function' # 0,
           pc' = "rti" => \/ f.to = "next" /\ Kept(f.regs)'
                          \/ f.to = "appTerminated" /\ f.regs = before'
    PROVE  StackPart' /\ RegisterPart' /\ CommandPart'
  <1>1. /\ pc' \in Places /\ pc' \in Running /\ pc' \notin HandlerNames
        /\ pc' \notin {"ddProceed", "duNext", "dgDone"} /\ pc' \notin {"program", "dgDone"}
        /\ pc' \notin {"program", "appTerminated"}
        /\ pc' # "appTerminated" /\ pc' # "registersFn" /\ pc' # "ddProceed" /\ pc' # "duNext"
    <2>1. CASE pc' \in Calls
      BY <2>1, PlacesApart, PlacesAre, Zenon DEF Calls, Puts, HandlerNames
    <2>2. CASE pc' \in {"handle_swi", "rti"}
      BY <2>2, PlacesApart, PlacesAre, Zenon DEF HandlerNames
    <2> QED
      BY <2>1, <2>2
  <1>2. stack' \in Seq(Entries) /\ Frame' = f
    <2>1. Beneath(pushes) \in Seq(Entries) /\ f \in Entries
      BY CountsAre, StacksAre, EntriesAre
    <2>2. Append(Beneath(pushes), f)[Len(Append(Beneath(pushes), f))] = f
      BY <2>1, PushIs
    <2>3. Append(Beneath(pushes), f) \in Seq(Entries)
      BY <2>1, PushIs
    <2> QED
      BY <2>2, <2>3 DEF Frame
  <1>3. Framed(Frame)'
    BY <1>2, Zenon DEF Framed
  <1>4. StackPart'
    BY <1>1, <1>2, <1>3, Zenon DEF StackPart
  <1>5. RegisterPart'
    BY <1>1, Zenon DEF RegisterPart
  <1>6. CommandPart'
    BY <1>1, Zenon DEF CommandPart
  <1> QED
    BY <1>4, <1>5, <1>6

\* A frame is on top, and changed or taken away there.
LEMMA AtFrame ==
    ASSUME MonitorInv, pc \in Calls \cup {"handle_swi", "rti"}
    PROVE  /\ Framed(Frame) /\ Frame \in Frames /\ outcome = "goFn"
           /\ regs \in RegisterValues /\ before \in RegisterValues
           /\ \A f \in Frames : FrameBecomes(f) => stack' = Append(Beneath(pushes), f)
           /\ Front(stack) = Beneath(pushes)
  <1>1. StackPart /\ RegisterPart /\ CommandPart
    BY PartsAre
  <1>2. pc \in Running
    BY PlacesApart, Zenon DEF Running
  <1>3. Framed(Frame)
    BY <1>1, Zenon DEF StackPart
  <1>4. Frame \in Frames /\ stack = Append(Beneath(pushes), Frame)
    BY <1>3, Zenon DEF Framed
  <1>5. Beneath(pushes) \in Seq(Entries)
    BY CountsAre, StacksAre
  <1>6. Frame \in Entries /\ \A f \in Frames : f \in Entries
    BY <1>4, EntriesAre
  <1> DEFINE b == Beneath(pushes)
             e == Frame
  <1>7. \A f \in Frames : [Append(b, e) EXCEPT ![Len(Append(b, e))] = f] = Append(b, f)
    <2> SUFFICES ASSUME NEW f \in Frames
                 PROVE  [Append(b, e) EXCEPT ![Len(Append(b, e))] = f] = Append(b, f)
      OBVIOUS
    <2>1. f \in Entries
      BY <1>6
    <2> HIDE DEF b, e
    <2> QED
      BY <1>5, <1>6, <2>1, PushIs DEF b, e
  <1>8. Front(Append(b, e)) = b
    BY <1>5, <1>6, PushIs
  <1> HIDE DEF e
  <1>9. stack = Append(b, e)
    BY <1>4 DEF e
  <1>10. \A f \in Frames : FrameBecomes(f) => stack' = Append(b, f)
    BY <1>7, <1>9, Zenon DEF FrameBecomes
  <1> QED
    BY <1>1, <1>2, <1>3, <1>4, <1>8, <1>9, <1>10, Zenon DEF RegisterPart, CommandPart

LEMMA SwiKeeps ==
    ASSUME MonitorInv, NEW fn \in 0..SWIMax \cup {128}, NEW r \in Registers, Swi(fn, r)
    PROVE  MonitorInv'
  <1>1. /\ pc = "program" /\ regs' = r /\ before' = r /\ function' = fn
        /\ calls' = IF calls < MaxCalls THEN calls + 1 ELSE calls
        /\ stack' = Append(stack, [what |-> "frame", regs |-> r, to |-> "function"])
        /\ pc' = "handle_swi" /\ pushes' = pushes
        /\ UNCHANGED <<saved, failed>> /\ UNCHANGED loops /\ Handling /\ SettingsKept
    BY DEF Swi, loops
  <1>2. stack = Beneath(pushes) /\ outcome = "goFn"
    BY <1>1, AtProgram
  <1>3. r \in RegisterValues
    <2>1. Registers \subseteq RegisterValues
      BY MonitorAssumption, SMT DEF RegisterValues
    <2> QED
      BY <2>1
  <1> DEFINE f == [what |-> "frame", regs |-> r, to |-> "function"]
  <1>4. f \in Frames /\ f.regs = r
    BY <1>3, FrameOf
  <1> HIDE DEF f
  <1>5. stack' = Append(Beneath(pushes), f)
    BY <1>1, <1>2 DEF f
  <1>6. outcome' = "goFn"
    BY <1>1, <1>2, PartsAre, HandlingKeeps
  <1>7. pc' \notin Calls /\ pc' # "rti" /\ pc' # "sysGetChar" /\ pc' \notin Puts \cup {"sysTerminate"}
    BY <1>1, PlacesApart, Zenon DEF Calls
  <1>8. pc' \in Calls \cup {"handle_swi", "rti"}
    BY <1>1, Zenon
  <1>9. StackPart' /\ RegisterPart' /\ CommandPart'
    BY <1>1, <1>3, <1>4, <1>5, <1>6, <1>7, <1>8, FramedAt
  <1>10. function' \in Byte
    BY <1>1, TableOfCalls DEF Byte
  <1>11. calls' \in 0..MaxCalls
    BY <1>1, CountsAre, MonitorAssumption
  <1> QED
    BY <1>1, <1>9, <1>10, <1>11, CountsAre, ProgramGoesOn

LEMMA CallIsMade == ASSUME MonitorInv, handle_swi PROVE MonitorInv'
  <1>1. /\ pc = "handle_swi" /\ FrameBecomes(Skipped(function, Frame))
        /\ pc' = IF function < SWIMax THEN SWITable[function + 1] ELSE "rti"
        /\ UNCHANGED loops /\ Handling /\ SettingsKept /\ Nothing
    BY DEF handle_swi
  <1>2. /\ Framed(Frame) /\ Frame \in Frames /\ outcome = "goFn"
        /\ regs \in RegisterValues /\ before \in RegisterValues
        /\ \A f \in Frames : FrameBecomes(f) => stack' = Append(Beneath(pushes), f)
    BY <1>1, AtFrame
  <1>3. Frame.regs = before
    BY <1>1, <1>2, Zenon DEF Framed
  <1>4. PICK f \in Frames : /\ f = Skipped(function, Frame)
                           /\ f.regs = before /\ f.to = "next"
    BY <1>2, <1>3, FrameTo DEF Skipped
  <1>5. stack' = Append(Beneath(pushes), f)
    BY <1>1, <1>2, <1>4
  <1>6. UNCHANGED <<regs, function, calls, pushes, before>> /\ UNCHANGED <<saved, failed>>
    BY <1>1 DEF Nothing, program
  <1>7. outcome' = "goFn"
    BY <1>1, <1>2, PartsAre, HandlingKeeps
  <1>8. function \in Nat /\ function \in Byte
    BY CountsAre DEF Byte
  <1>9. /\ pc' \in Calls \cup {"rti"}
        /\ pc' = "sysGetChar" => function = 0
        /\ pc' \in Puts \cup {"sysTerminate"} => function # 0
        /\ pc' = "rti" => function # 0
    <2>1. CASE function < SWIMax
      <3>1. pc' = SWITable[function + 1]
        BY <1>1, <2>1
      <3>2. pc' \in Calls /\ (pc' = "sysGetChar" <=> function = 0)
        BY <1>8, <2>1, <3>1, CallsAre
      <3>3. pc' # "rti" /\ "sysGetChar" \notin Puts \cup {"sysTerminate"}
        BY <3>2, PlacesApart, Zenon DEF Puts
      <3> QED
        BY <3>2, <3>3, Zenon
    <2>2. CASE ~(function < SWIMax)
      <3>1. pc' = "rti" /\ function # 0
        BY <1>1, <2>2, TableOfCalls
      <3>2. "rti" # "sysGetChar" /\ "rti" \notin Puts \cup {"sysTerminate"}
        BY Zenon DEF Puts
      <3> QED
        BY <3>1, <3>2, Zenon
    <2> QED
      BY <2>1, <2>2
  <1>10. pc' = "rti" => Kept(f.regs)'
    <2> SUFFICES ASSUME pc' = "rti" PROVE Kept(f.regs)'
      OBVIOUS
    <2>1. PICK c \in Received : TRUE
      BY SomethingReceived, Zenon
    <2> QED
      BY <1>4, <1>6, <1>9, <2>1, Zenon DEF Kept
  <1>11. regs' \in RegisterValues /\ before' \in RegisterValues /\ f.regs = before'
    BY <1>2, <1>4, <1>6
  <1>12. StackPart' /\ RegisterPart' /\ CommandPart'
    <2>1. pc' \in Calls \cup {"handle_swi", "rti"} /\ pushes' = pushes
      BY <1>6, <1>9, Zenon
    <2>2. pc' \in Puts \cup {"sysTerminate"} => function' # 0
      BY <1>6, <1>9
    <2>3. pc' = "sysGetChar" => function' = 0
      BY <1>6, <1>9
    <2> QED
      BY <1>4, <1>5, <1>7, <1>10, <1>11, <2>1, <2>2, <2>3, FramedAt
  <1>13. function' \in Byte /\ calls' \in 0..MaxCalls /\ pushes' \in 0..1
    BY <1>6, CountsAre
  <1> QED
    BY <1>1, <1>6, <1>12, <1>13, ProgramGoesOn

LEMMA ProgramEnds ==
    ASSUME pc' = "appTerminated", outcome' = "goFn", regs' = before',
           before' \in RegisterValues, pushes' \in 0..1, stack' = Beneath(pushes')
    PROVE  StackPart' /\ RegisterPart' /\ CommandPart'
  <1>1. /\ pc' \in Places /\ pc' \in Running /\ pc' \notin HandlerNames /\ pc' \notin Calls
        /\ pc' \notin {"ddProceed", "duNext", "dgDone"} /\ pc' \notin {"handle_swi", "rti"}
        /\ pc' \notin {"program", "dgDone"}
        /\ pc' # "registersFn" /\ pc' # "ddProceed" /\ pc' # "duNext"
    BY PlacesApart, PlacesAre, Zenon
  <1>2. stack' \in Seq(Entries)
    BY StacksAre
  <1>3. StackPart'
    BY <1>1, <1>2, Zenon DEF StackPart
  <1>4. RegisterPart'
    BY <1>1, Zenon DEF RegisterPart
  <1>5. CommandPart'
    BY <1>1, Zenon DEF CommandPart
  <1> QED
    BY <1>3, <1>4, <1>5

\* A system call is over when its frame is what rti needs.
LEMMA CallIsOver ==
    ASSUME MonitorInv, pc \in Calls, pc' = "rti", Handling \/ MayRead, SettingsKept,
           Nothing,
           UNCHANGED loops, NEW f \in Frames, stack' = Append(Beneath(pushes), f),
           \/ f.to = "next" /\ Kept(f.regs)
           \/ f.to = "appTerminated" /\ f.regs = before
    PROVE  MonitorInv'
  <1>1. outcome = "goFn" /\ regs \in RegisterValues /\ before \in RegisterValues
    BY AtFrame, Zenon
  <1>2. UNCHANGED <<regs, function, calls, pushes, before>> /\ UNCHANGED <<saved, failed>>
    BY DEF Nothing, program
  <1>3. outcome' = "goFn"
    BY <1>1, PartsAre, HandlingKeeps
  <1>4. pc' \notin Calls /\ pc' # "sysGetChar" /\ pc' \notin Puts \cup {"sysTerminate"}
    BY PlacesApart, Zenon DEF Calls
  <1>5. Kept(f.regs) => Kept(f.regs)'
    BY <1>2, Zenon DEF Kept
  <1>6. \/ f.to = "next" /\ Kept(f.regs)'
        \/ f.to = "appTerminated" /\ f.regs = before'
    BY <1>2, <1>5
  <1>7. StackPart' /\ RegisterPart' /\ CommandPart'
    <2>1. pc' \in Calls \cup {"handle_swi", "rti"} /\ pushes' = pushes
      BY <1>2, Zenon
    <2>2. regs' \in RegisterValues /\ before' \in RegisterValues
      BY <1>1, <1>2
    <2> QED
      BY <1>3, <1>4, <1>6, <2>1, <2>2, FramedAt
  <1>8. function' \in Byte /\ calls' \in 0..MaxCalls /\ pushes' \in 0..1
    BY <1>2, CountsAre
  <1> QED
    BY <1>2, <1>7, <1>8, ProgramGoesOn

LEMMA GetCharKeeps == ASSUME MonitorInv, sysGetChar PROVE MonitorInv'
  <1>1. /\ pc = "sysGetChar" /\ pc' = "rti" /\ UNCHANGED loops
        /\ (Handling \/ MayRead) /\ SettingsKept /\ Nothing
    BY DEF sysGetChar, MayRead
  <1>2. PICK c \in Received : FrameBecomes([Frame EXCEPT !.regs.A = StripParity(c)])
    BY Zenon DEF sysGetChar
  <1>3. pc \in Calls
    BY <1>1, Zenon DEF Calls
  <1>4. /\ Framed(Frame) /\ Frame \in Frames
        /\ \A f \in Frames : FrameBecomes(f) => stack' = Append(Beneath(pushes), f)
    BY <1>3, AtFrame
  <1>5. Frame.regs = before /\ Frame.to = "next" /\ function = 0
    BY <1>1, <1>3, <1>4, Zenon DEF Framed
  <1>6. PICK f \in Frames : /\ f = [Frame EXCEPT !.regs.A = StripParity(c)]
                            /\ f.regs = [before EXCEPT !.A = StripParity(c)]
                            /\ f.to = "next"
    <2> DEFINE g == [Frame EXCEPT !.regs.A = StripParity(c)]
    <2>1. StripParity(c) \in Byte
      BY SomethingReceived
    <2>2. g \in Frames /\ g.regs = [Frame.regs EXCEPT !.A = StripParity(c)] /\ g.to = Frame.to
      BY <1>4, <2>1, FrameWithA
    <2> HIDE DEF g
    <2>3. g \in Frames /\ g.regs = [before EXCEPT !.A = StripParity(c)] /\ g.to = "next"
      BY <1>5, <2>2, Zenon
    <2> QED
      BY <2>3, Zenon DEF g
  <1>7. stack' = Append(Beneath(pushes), f)
    BY <1>2, <1>4, <1>6, Zenon
  <1>8. Kept(f.regs)
    BY <1>5, <1>6, Zenon DEF Kept
  <1> QED
    BY <1>1, <1>3, <1>6, <1>7, <1>8, CallIsOver

LEMMA PutKeeps == ASSUME MonitorInv, sysPut PROVE MonitorInv'
  <1>1. /\ pc \in {SWITable[n] : n \in 2..8} /\ pc' = "rti" /\ stack' = stack
        /\ UNCHANGED loops /\ Handling /\ SettingsKept /\ Nothing
    BY DEF sysPut
  <1>2. pc \in Puts /\ pc \in Calls
    BY <1>1, CallsAre, Zenon DEF Calls
  <1>3. Framed(Frame) /\ Frame \in Frames
    BY <1>2, AtFrame
  <1>4. PICK f \in Frames : f = Frame
    BY <1>3
  <1>5. pc # "rti" /\ pc # "sysGetChar"
    BY <1>2, Zenon DEF Puts
  <1>6. /\ stack' = Append(Beneath(pushes), f)
        /\ f.regs = before /\ f.to = "next" /\ function # 0
    BY <1>1, <1>2, <1>3, <1>4, <1>5, Zenon DEF Framed
  <1>7. Kept(f.regs)
    BY <1>6, SomethingReceived, Zenon DEF Kept
  <1> QED
    BY <1>1, <1>2, <1>6, <1>7, CallIsOver

LEMMA TerminateKeeps == ASSUME MonitorInv, sysTerminate PROVE MonitorInv'
  <1>1. /\ pc = "sysTerminate" /\ FrameBecomes([Frame EXCEPT !.to = "appTerminated"])
        /\ pc' = "rti" /\ UNCHANGED loops /\ Handling /\ SettingsKept /\ Nothing
    BY DEF sysTerminate
  <1>2. pc \in Calls
    BY <1>1, Zenon DEF Calls
  <1>3. /\ Framed(Frame) /\ Frame \in Frames
        /\ \A f \in Frames : FrameBecomes(f) => stack' = Append(Beneath(pushes), f)
    BY <1>2, AtFrame
  <1>4. Frame.regs = before
    BY <1>1, <1>3, Zenon DEF Framed
  <1>5. PICK f \in Frames : /\ f = [Frame EXCEPT !.to = "appTerminated"]
                            /\ f.regs = before /\ f.to = "appTerminated"
    BY <1>3, <1>4, FrameTo
  <1>6. stack' = Append(Beneath(pushes), f)
    BY <1>1, <1>3, <1>5, Zenon
  <1> QED
    BY <1>1, <1>2, <1>5, <1>6, CallIsOver

\* rti finds a frame, with the registers the program is to have.
LEMMA RtiKeeps == ASSUME MonitorInv, rti PROVE MonitorInv'
  <1>1. /\ pc = "rti" /\ regs' = Frame.regs /\ stack' = Front(stack)
        /\ pc' = CASE Frame.to = "next" -> "program"
                   [] Frame.to = "appTerminated" -> "appTerminated"
                   [] OTHER -> "lost"
        /\ UNCHANGED <<function, calls, pushes, before>> /\ UNCHANGED loops
        /\ UNCHANGED <<saved, failed>> /\ Handling /\ SettingsKept
    BY DEF rti, loops
  <1>2. /\ Framed(Frame) /\ Frame \in Frames /\ outcome = "goFn"
        /\ before \in RegisterValues /\ Front(stack) = Beneath(pushes)
    BY <1>1, AtFrame
  <1>3. \/ Frame.to = "next" /\ Kept(Frame.regs)
        \/ Frame.to = "appTerminated" /\ Frame.regs = before
    BY <1>1, <1>2, Zenon DEF Framed
  <1>4. /\ stack' = Beneath(pushes') /\ regs' \in RegisterValues
        /\ before' = before /\ function' = function /\ before' \in RegisterValues
    BY <1>1, <1>2, WhatIs
  <1>5. outcome' = "goFn"
    BY <1>1, <1>2, PartsAre, HandlingKeeps
  <1>6. function' \in Byte /\ calls' \in 0..MaxCalls /\ pushes' \in 0..1
    BY <1>1, CountsAre
  <1>7. CASE Frame.to = "next" /\ Kept(Frame.regs)
    <2>1. pc' = "program"
      BY <1>1, <1>7
    <2>2. Kept(regs)'
      BY <1>1, <1>7, Zenon DEF Kept
    <2>3. StackPart' /\ RegisterPart' /\ CommandPart'
      BY <1>4, <1>5, <1>6, <2>1, <2>2, ProgramAt
    <2> QED
      BY <1>1, <1>6, <2>3, ProgramGoesOn
  <1>8. CASE Frame.to = "appTerminated" /\ Frame.regs = before
    <2>1. pc' = "appTerminated"
      BY <1>1, <1>8
    <2>2. regs' = before'
      BY <1>1, <1>4, <1>8
    <2>3. StackPart' /\ RegisterPart' /\ CommandPart'
      BY <1>4, <1>5, <1>6, <2>1, <2>2, ProgramEnds
    <2> QED
      BY <1>1, <1>6, <2>3, ProgramGoesOn
  <1> QED
    BY <1>3, <1>7, <1>8

(***************************************************************************)
(* The end of a program.                                                   *)
(***************************************************************************)
LEMMA AtEnd ==
    ASSUME MonitorInv, pc = "appTerminated"
    PROVE  outcome = "goFn" /\ regs = before /\ before \in RegisterValues
  <1>1. pc \in Running
    BY PlacesApart, Zenon
  <1> QED
    BY <1>1, PartsAre, Zenon DEF RegisterPart, CommandPart

LEMMA EndsWell == ASSUME MonitorInv, terminatedOK PROVE MonitorInv'
  <1>1. /\ pc = "appTerminated" /\ pc' = "loop" /\ stack' = <<>> /\ NoProgram
        /\ UNCHANGED loops /\ UNCHANGED <<saved, failed>> /\ Handling /\ SettingsKept
    BY DEF terminatedOK
  <1>2. stack' \in Seq(Entries)
    BY <1>1
  <1>3. LinePart' /\ ArgPart' /\ outcome' = outcome /\ lines' = lines
    BY <1>1, PartsAre, HandlingKeeps
  <1>4. SettingsPart' /\ ReportPart' /\ UNCHANGED <<round, y>>
    BY <1>1, <1>3, PartsAre, SettingsKeep, NothingIsDone, ReportKeeps
  <1>5. CountPart' /\ StackPart' /\ RegisterPart' /\ CommandPart'
    BY <1>1, <1>2, <1>3, <1>4, PartsAre, ProgramIsOver
  <1> QED
    BY <1>3, <1>4, <1>5, Zenon DEF MonitorInv

\* The code that is shown is made of A and B as they will be reported.
LEMMA CodeIs ==
    ASSUME NEW r \in RegisterValues
    PROVE  /\ WithStack(r, system_stack).A = r.A /\ WithStack(r, system_stack).B = r.B
           /\ 256 * r.A + r.B \in Word
  <1>1. r.A \in Byte /\ r.B \in Byte
    BY RegistersAre
  <1> DEFINE a == r.A
             b == r.B
  <1> HIDE DEF a, b
  <1>2. a \in Byte /\ b \in Byte
    BY <1>1 DEF a, b
  <1>3. 256 * a + b \in Word
    BY <1>2 DEF Byte, Word
  <1> QED
    BY <1>3 DEF a, b, WithStack

LEMMA EndsBadly == ASSUME MonitorInv, terminatedWithError PROVE MonitorInv'
  <1>1. /\ pc = "appTerminated"
        /\ shown' = <<Shown("code", 256 * regs.A + regs.B)>>
        /\ saved' = WithStack(regs, system_stack) /\ failed' = WithStack(before, system_stack)
        /\ pc' = "registersFn" /\ stack' = <<Return("loop")>>
        /\ NoProgram /\ UNCHANGED <<round, y>> /\ Handling /\ SettingsKept
    BY DEF terminatedWithError, Saved
  <1>2. outcome = "goFn" /\ regs = before /\ regs \in RegisterValues
    BY <1>1, AtEnd
  <1>3. LinePart' /\ ArgPart' /\ outcome' = outcome /\ lines' = lines
    BY <1>1, PartsAre, HandlingKeeps
  <1>4. SettingsPart'
    BY <1>1, PartsAre, SettingsKeep
  <1>5. CountPart' /\ StackPart' /\ RegisterPart' /\ CommandPart'
    <2>1. stack' = Base /\ outcome' = "goFn"
      BY <1>1, <1>2, <1>3 DEF Base
    <2> QED
      BY <1>1, <1>3, <2>1, PartsAre, ProgramIsOver
  <1>6. saved' \in SavedValues /\ failed' = saved'
    BY <1>1, <1>2, WithStackIs
  <1>7. shown' \in Seq(Reports')
    <2>1. 256 * failed'.A + failed'.B = 256 * regs.A + regs.B
      BY <1>1, <1>2, CodeIs
    <2>2. Shown("code", 256 * failed'.A + failed'.B) \in Reports'
      BY Zenon DEF Reports
    <2> DEFINE item == Shown("code", 256 * regs.A + regs.B)
    <2>3. item \in Reports'
      BY <2>1, <2>2
    <2>4. shown' = <<item>>
      BY <1>1
    <2> HIDE DEF item
    <2> QED
      BY <2>3, <2>4
  <1>8. ReportPart'
    BY <1>6, <1>7 DEF ReportPart
  <1> QED
    BY <1>3, <1>4, <1>5, <1>8, Zenon DEF MonitorInv

LEMMA RegistersKeep == ASSUME MonitorInv, registersFn PROVE MonitorInv'
  <1>1. /\ pc = "registersFn"
        /\ shown' = shown \o <<Shown("A", saved.A), Shown("B", saved.B), Shown("X", saved.X),
                               Shown("Y", saved.Y), Shown("U", saved.U), Shown("S", saved.S)>>
        /\ Rts(stack) /\ UNCHANGED <<round, y>> /\ Handling /\ SettingsKept /\ Nothing
    BY DEF registersFn
  <1>2. pc \in HandlerNames
    BY <1>1, Zenon DEF HandlerNames
  <1>3. stack = Base
    BY <1>2, AtHandler, Zenon
  <1>4. pc' = "loop" /\ stack' = <<>>
    BY <1>1, <1>3, ReturnsToLoop
  <1>5. stack' \in Seq(Entries)
    BY <1>4
  <1>6. LinePart' /\ ArgPart' /\ outcome' = outcome /\ lines' = lines
    BY <1>1, PartsAre, HandlingKeeps
  <1>7. outcome \in {"registersFn", "goFn"}
    BY <1>1, PartsAre DEF CommandPart
  <1>8. UNCHANGED program /\ UNCHANGED <<saved, failed>> /\ round' \in Byte /\ y' \in Word
    BY <1>1, NothingIsDone
  <1>9. saved \in SavedValues /\ failed = saved /\ shown \in Seq(Reports)
    BY <1>7, PartsAre, Zenon DEF ReportPart
  <1>10. shown' \in Seq(Reports)
    <2> DEFINE six == <<Shown("A", saved.A), Shown("B", saved.B), Shown("X", saved.X),
                        Shown("Y", saved.Y), Shown("U", saved.U), Shown("S", saved.S)>>
    <2>1. \A reg \in {"A", "B", "X", "Y", "U", "S"} : Shown(reg, failed[reg]) \in Reports
      BY Zenon DEF Reports
    <2>2. /\ failed["A"] = saved.A /\ failed["B"] = saved.B /\ failed["X"] = saved.X
          /\ failed["Y"] = saved.Y /\ failed["U"] = saved.U /\ failed["S"] = saved.S
      BY <1>9
    <2>3. /\ Shown("A", saved.A) \in Reports /\ Shown("B", saved.B) \in Reports
          /\ Shown("X", saved.X) \in Reports /\ Shown("Y", saved.Y) \in Reports
          /\ Shown("U", saved.U) \in Reports /\ Shown("S", saved.S) \in Reports
      BY <2>1, <2>2, Zenon
    <2>4. six \in Seq(Reports)
      BY <2>3
    <2>5. shown' = shown \o six
      BY <1>1
    <2> HIDE DEF six
    <2> QED
      BY <1>9, <2>4, <2>5
  <1>11. ReportPart'
    <2>1. Reports' = Reports
      BY <1>8 DEF Reports
    <2> QED
      BY <1>8, <1>9, <1>10, <2>1, Zenon DEF ReportPart
  <1>12. SettingsPart'
    BY <1>1, PartsAre, SettingsKeep
  <1>13. pc \in HandlerNames \cup {"ddProceed", "duNext"}
    BY <1>2, Zenon
  <1>14. \/ pc' \in {"loop", "lost", "handle_reset"} /\ stack' \in Seq(Entries)
    BY <1>4, <1>5
  <1> QED
    BY <1>1, <1>8, <1>11, <1>12, <1>13, <1>14, StepOfHandler, Zenon

(***************************************************************************)
(* The monitor starts, at first and again.                                 *)
(***************************************************************************)
Fresh ==
    /\ typed \in Seq(Byte) /\ lines \in 0..MaxLines
    /\ prevChar = 0 /\ at = "edit" /\ line = <<>> /\ row = prompt /\ cursor = Len(prompt)
    /\ argc = 0 /\ argv = <<>> /\ spill = <<>> /\ args = <<>> /\ outcome = "blank"
    /\ memoryAddress = handle_reset /\ linesPerPage = 16 /\ radix = 16
    /\ unassembleAddress = 0
    /\ saved = NoneSaved /\ failed = NoneSaved /\ round = 0 /\ y = 0 /\ shown = <<>>
    /\ pc = "loop" /\ stack = <<>>
    /\ regs = NoRegisters /\ before = NoRegisters
    /\ function = NoFunction /\ calls = 0 /\ pushes = 0

LEMMA FreshIs == Fresh => MonitorInv
  <1> SUFFICES ASSUME Fresh PROVE MonitorInv
    OBVIOUS
  <1>1. LinePart
    <2>1. line \in Seq(Letter) /\ row \in Seq(Byte) /\ cursor = 2 /\ Len(row) = 2
          /\ Shows(row, cursor, line)
      BY PromptAlone DEF Fresh
    <2>2. LineInv
      BY <2>1 DEF LineInv, LineTypes, Fresh, Byte
    <2>3. Len(line) = 0 /\ Len(line) < Room
      BY RoomIs DEF Fresh
    <2> QED
      BY <2>1, <2>2, <2>3 DEF LinePart, Fresh, LF
  <1>2. ArgPart
    <2>1. MaxArgs \in Nat
      BY CommandLineAssumption
    <2> DEFINE none == <<>>
    <2>2. none \in Seq(Nat \ {0}) /\ none \in Seq(Seq(Letter)) /\ Len(none) = 0
      OBVIOUS
    <2>3. argv = none /\ spill = none /\ args = none /\ argc = 0
      BY DEF Fresh
    <2> HIDE DEF none
    <2> QED
      BY <2>1, <2>2, <2>3 DEF ArgPart
  <1>3. SettingsPart
    BY NumbersAre, MonitorAssumption DEF SettingsPart, Fresh
  <1>4. CountPart
    BY NumbersAre, MonitorAssumption DEF CountPart, Fresh, NoFunction
  <1>5. StackPart /\ RegisterPart /\ CommandPart
    <2>1. pc = "loop" /\ stack \in Seq(Entries)
      BY DEF Fresh
    <2>2. pc \in Places /\ pc \notin Running /\ pc \notin HandlerNames /\ pc \notin Calls
      BY <2>1, PlacesApart, PlacesAre, Zenon
    <2>3. /\ pc \notin HandlerNames \cup {"ddProceed", "duNext", "dgDone"}
          /\ pc \notin {"program", "appTerminated"} /\ pc \notin {"program", "dgDone"}
          /\ pc \notin Calls \cup {"handle_swi", "rti"} /\ pc # "appTerminated"
          /\ pc # "registersFn" /\ pc # "ddProceed" /\ pc # "duNext"
      BY <2>1, <2>2, Zenon
    <2>4. StackPart
      BY <2>1, <2>2, <2>3, Zenon DEF StackPart
    <2>5. CommandPart
      BY <2>2, <2>3, Zenon DEF CommandPart
    <2>6. regs = NoRegisters /\ before = NoRegisters /\ function = NoFunction /\ pushes = 0
      BY DEF Fresh
    <2>7. RegisterPart
      BY <2>3, <2>6, NothingIs, Zenon DEF RegisterPart
    <2> QED
      BY <2>4, <2>5, <2>7
  <1>6. ReportPart
    <2>1. shown = <<>> /\ saved = NoneSaved /\ failed = NoneSaved
      BY DEF Fresh
    <2>2. shown \in Seq(Reports)
      BY <2>1
    <2> QED
      BY <2>1, <2>2, NothingIs DEF ReportPart
  <1> QED
    BY <1>1, <1>2, <1>3, <1>4, <1>5, <1>6 DEF MonitorInv

LEMMA MonitorStarts == MonitorInit => MonitorInv
  <1>1. MonitorInit => Fresh
    BY MonitorAssumption DEF MonitorInit, Init, Fresh
  <1> QED
    BY <1>1, FreshIs

LEMMA RestartKeeps == ASSUME MonitorInv, Restart PROVE MonitorInv'
  <1>1. Fresh'
    <2>1. typed \in Seq(Byte) /\ lines \in 0..MaxLines
      BY PartsAre DEF LinePart, LineInv, LineTypes, CountPart
    <2>2. typed' = typed /\ lines' = lines
      BY DEF Restart
    <2>3. /\ prevChar' = 0 /\ at' = "edit" /\ line' = <<>> /\ row' = prompt
          /\ cursor' = Len(prompt)
          /\ argc' = 0 /\ argv' = <<>> /\ spill' = <<>> /\ args' = <<>> /\ outcome' = "blank"
      BY Zenon DEF Restart, initBSS
    <2>4. /\ memoryAddress' = handle_reset /\ linesPerPage' = 16 /\ radix' = 16
          /\ unassembleAddress' = 0
          /\ saved' = NoneSaved /\ failed' = NoneSaved
      BY Zenon DEF Restart, initBSS, initVars
    <2>5. /\ round' = 0 /\ y' = 0 /\ shown' = <<>> /\ pc' = "loop" /\ stack' = <<>>
      BY Zenon DEF Restart
    <2>6. /\ regs' = NoRegisters /\ before' = NoRegisters
          /\ function' = NoFunction /\ calls' = 0 /\ pushes' = 0
      BY Zenon DEF Restart, NoProgram
    <2> QED
      BY <2>1, <2>2, <2>3, <2>4, <2>5, <2>6 DEF Fresh
  <1> QED
    BY <1>1, FreshIs, PTL

(***************************************************************************)
(* The loop.                                                               *)
(***************************************************************************)
\* A step of the loop that does not leave it.
LEMMA LoopGoesOn ==
    ASSUME MonitorInv, pc = "loop", pc' = "loop", UNCHANGED <<stack, program>>,
           UNCHANGED <<round, y>>, LinePart', ArgPart', SettingsPart', ReportPart',
           lines' \in 0..MaxLines
    PROVE  MonitorInv'
  <1>1. UNCHANGED <<regs, function, calls, pushes, before>> /\ stack' = stack
        /\ UNCHANGED program
    BY DEF program
  <1>2. CountPart'
    BY <1>1, PartsAre DEF CountPart
  <1>3. pc \notin Running /\ stack \in Seq(Entries)
    BY PartsAre, PlacesApart, Zenon DEF StackPart
  <1>4. \/ pc' \in {"loop", "lost", "handle_reset"} /\ stack' \in Seq(Entries)
        \/ pc' \in {"ddProceed", "duNext"} /\ stack' = Base
    BY <1>1, <1>3, Zenon
  <1>5. StackPart' /\ RegisterPart'
    BY <1>1, <1>3, <1>4, PartsAre, QuietKeeps, Zenon
  <1>6. CommandPart'
    BY QuietCommand, Zenon
  <1> QED
    BY <1>2, <1>5, <1>6, Zenon DEF MonitorInv

LEMMA TypeLineKeeps == ASSUME MonitorInv, TypeLine PROVE MonitorInv'
  <1>1. /\ pc = "loop" /\ lines < MaxLines /\ lines' = lines + 1
        /\ typed' \in MonitorLines /\ shown' = <<>>
        /\ UNCHANGED <<prevChar, at, line, row, cursor>> /\ UNCHANGED argVars
        /\ UNCHANGED <<outcome, pc, stack, args, saved, round, y, failed>>
        /\ UNCHANGED settings /\ UNCHANGED program
    BY DEF TypeLine
  <1>2. typed' \in Seq(Byte)
    BY <1>1, MonitorAssumption
  <1>3. LinePart'
    <2>1. LinePart
      BY PartsAre
    <2>2. LineInv'
      BY <1>1, <1>2, <2>1 DEF LinePart, LineInv, LineTypes, Shows
    <2> QED
      BY <1>1, <2>1, <2>2 DEF LinePart
  <1>4. ArgPart'
    BY <1>1, PartsAre DEF ArgPart, argVars
  <1>5. SettingsPart'
    BY <1>1, PartsAre DEF SettingsPart, settings
  <1>6. ReportPart'
    <2>1. shown' \in Seq(Reports')
      BY <1>1
    <2> QED
      BY <1>1, <2>1, PartsAre DEF ReportPart
  <1>7. lines' \in 0..MaxLines
    BY <1>1, PartsAre, MonitorAssumption DEF CountPart
  <1>8. pc' = "loop" /\ UNCHANGED <<stack, program>> /\ UNCHANGED <<round, y>>
    BY <1>1
  <1> QED
    BY <1>1, <1>3, <1>4, <1>5, <1>6, <1>7, <1>8, LoopGoesOn

\* readCommandLine never keeps a line feed to compare with.
LEMMA CharIsKept ==
    ASSUME LinePart, GetLChar PROVE prevChar' # LF /\ at = "edit" /\ line \in Seq(Letter)
  BY DEF LinePart, LineInv, LineTypes, GetLChar, Canonical, LF, CR

\* The line is right while it is edited, and the cursor in the row.
LEMMA EditKeepsLine ==
    ASSUME LinePart,
           SwallowLF \/ rclPrintable \/ rclDelete \/ rclNonPrintable \/ rclEOL \/ NewLined
    PROVE  LinePart'
  <1>1. /\ LineInv /\ prevChar # LF /\ cursor <= Len(row)
        /\ at \in {"edit", "dispatch", "lost"} /\ (at # "lost" => Len(line) < Room)
    BY DEF LinePart
  <1>2. ASSUME LineInv', at' = "edit" PROVE cursor' <= Len(row')
    BY <1>2, CursorInRow DEF LineInv
  <1>3. Room \in Nat \ {0}
    BY RoomIs
  <1>4. CASE SwallowLF
    <2>1. LineInv' /\ UNCHANGED <<prevChar, at, line, row, cursor>>
      BY <1>1, <1>4, RestKeeps DEF SwallowLF
    <2> QED
      BY <1>1, <2>1 DEF LinePart
  <1>5. CASE rclPrintable
    <2>1. LineInv' /\ Shows(row, cursor, line)'
      BY <1>1, <1>5, PrintableKeeps
    <2>2. /\ GetLChar /\ at' = IF Len(line') < Room THEN "edit" ELSE "lost"
      BY <1>5 DEF rclPrintable
    <2>3. cursor' <= Len(row')
      BY <2>1, CursorInRow
    <2>4. prevChar' # LF
      BY <2>2, CharIsKept
    <2> QED
      BY <2>1, <2>2, <2>3, <2>4, Zenon DEF LinePart
  <1>6. CASE rclDelete
    <2>1. LineInv' /\ Len(line') <= Len(line)
      BY <1>1, <1>6, DeleteKeeps
    <2>2. GetLChar /\ at' = at
      BY <1>6 DEF rclDelete
    <2>3. prevChar' # LF /\ at' = "edit"
      BY <2>2, CharIsKept
    <2>4. Len(line) < Room /\ line \in Seq(Letter) /\ line' \in Seq(Letter)
      BY <1>1, <2>1, <2>2, <2>3 DEF LineInv, LineTypes
    <2>5. Len(line') < Room
      BY <1>3, <2>1, <2>4
    <2> QED
      BY <1>2, <2>1, <2>3, <2>5 DEF LinePart
  <1>7. CASE rclNonPrintable
    <2>1. LineInv'
      BY <1>1, <1>7, NonPrintableKeeps
    <2>2. GetLChar /\ UNCHANGED <<at, line>>
      BY <1>7 DEF rclNonPrintable
    <2>3. prevChar' # LF /\ at' = "edit" /\ Len(line') < Room
      BY <1>1, <2>2, CharIsKept
    <2> QED
      BY <1>2, <2>1, <2>3 DEF LinePart
  <1>8. CASE rclEOL
    <2>1. LineInv' /\ cursor' = 0
      BY <1>1, <1>8, EOLKeeps
    <2>2. GetLChar /\ at' = "dispatch" /\ line' = line
      BY <1>8 DEF rclEOL
    <2>3. prevChar' # LF /\ Len(line') < Room
      BY <1>1, <2>2, CharIsKept
    <2>4. cursor' <= Len(row')
      BY <2>1 DEF LineInv, LineTypes
    <2> QED
      BY <2>1, <2>2, <2>3, <2>4 DEF LinePart
  <1>9. CASE NewLined
    <2>0. PICK left \in Leftovers \cup {<<>>} : NewLine(left)
      BY <1>9 DEF NewLined
    <2>1. LineInv'
      BY <1>1, <2>0, NewLineKeeps
    <2>2. line' = <<>> /\ at' = "edit" /\ prevChar' = prevChar
      BY <2>0 DEF NewLine
    <2>3. Len(line') < Room
      BY <1>3, <2>2
    <2> QED
      BY <1>1, <1>2, <2>1, <2>2, <2>3 DEF LinePart
  <1> QED
    BY <1>4, <1>5, <1>6, <1>7, <1>8, <1>9

LEMMA EditKeeps == ASSUME MonitorInv, Edit PROVE MonitorInv'
  <1>1. /\ pc = "loop" /\ UNCHANGED <<pc, stack, args, saved, lines, failed>>
        /\ UNCHANGED settings /\ UNCHANGED loops /\ UNCHANGED program
    BY DEF Edit, monitor
  <1>2. /\ SwallowLF \/ rclPrintable \/ rclDelete \/ rclNonPrintable \/ rclEOL \/ NewLined
        /\ UNCHANGED argVars
        /\ outcome' = outcome \/ outcome' = "blank"
    BY Prompted, Zenon DEF Edit, SwallowLF, rclPrintable, rclDelete, rclNonPrintable, rclEOL,
                          BlankLine
  <1>3. LinePart'
    BY <1>2, PartsAre, EditKeepsLine
  <1>4. ArgPart'
    BY <1>1, <1>2, PartsAre DEF ArgPart, argVars
  <1>5. SettingsPart'
    BY <1>1, PartsAre DEF SettingsPart, settings
  <1>6. UNCHANGED <<round, y, shown>>
    BY <1>1 DEF loops
  <1>7. ReportPart'
    <2>1. ReportPart /\ saved' = saved /\ failed' = failed /\ shown' = shown
      BY <1>1, <1>6, PartsAre
    <2>2. Reports' = Reports
      BY <2>1 DEF Reports
    <2>3. "blank" \notin {"registersFn", "goFn"}
      OBVIOUS
    <2> QED
      BY <1>2, <2>1, <2>2, <2>3, Zenon DEF ReportPart
  <1>8. lines' \in 0..MaxLines
    BY <1>1, PartsAre DEF CountPart
  <1>9. pc' = "loop" /\ UNCHANGED <<stack, program>> /\ UNCHANGED <<round, y>>
    BY <1>1, <1>6
  <1> QED
    BY <1>1, <1>3, <1>4, <1>5, <1>7, <1>8, <1>9, LoopGoesOn

(***************************************************************************)
(* A command.                                                              *)
(***************************************************************************)
LEMMA CutPlaces ==
    ASSUME NEW s \in Seq(Letter), NEW a \in Seq(LinePlaces), NEW b \in Seq(LinePlaces),
           InOrder(a \o b, WordStarts(s))
    PROVE  /\ \A i \in 1..Len(a \o b) : (a \o b)[i] \in 1..Len(s)
           /\ \A i \in 1..Len(b) : b[i] \in 1..Len(s)
           /\ Len(a \o b) \in Nat
  <1> DEFINE c == a \o b
  <1>1. /\ c \in Seq(LinePlaces) /\ Len(c) = Len(a) + Len(b) /\ Len(a) \in Nat /\ Len(b) \in Nat
        /\ \A i \in 1..Len(b) : c[Len(a) + i] = b[i]
    OBVIOUS
  <1> HIDE DEF c
  <1>2. DOMAIN c = 1..Len(c) /\ Len(c) \in Nat
    BY <1>1
  <1>3. \A i \in 1..Len(c) : c[i] \in WordStarts(s)
    BY <1>2, Zenon DEF InOrder, c
  <1>4. WordStarts(s) \subseteq 1..Len(s)
    BY DEF WordStarts
  <1>5. \A i \in 1..Len(c) : c[i] \in 1..Len(s)
    BY <1>3, <1>4
  <1>6. \A i \in 1..Len(b) : b[i] \in 1..Len(s)
    <2> SUFFICES ASSUME NEW i \in 1..Len(b) PROVE b[i] \in 1..Len(s)
      OBVIOUS
    <2>1. Len(a) + i \in 1..Len(c) /\ c[Len(a) + i] = b[i]
      BY <1>1
    <2> QED
      BY <1>5, <2>1
  <1> QED
    BY <1>2, <1>5, <1>6 DEF c

LEMMA SpiltIs ==
    ASSUME NEW b \in Seq(LinePlaces), NEW n \in 1..Len(b), NEW m \in Nat, m < Room,
           b[n] \in 1..m
    PROVE  Spilt(b, n) \in Word /\ Spilt(b, n) \div 256 \in Byte
  <1> DEFINE p == b[n]
  <1>1. p \in 1..m
    OBVIOUS
  <1> HIDE DEF p
  <1>2. lineAt \in Word /\ Room \in Nat
    BY MonitorAssumption, RoomIs
  <1>3. lineAt + Room <= 65536
    BY MemoryAssumption
  <1>4. lineAt + p - 1 \in Word
    BY <1>1, <1>2, <1>3 DEF Word
  <1>5. Spilt(b, n) \in Word
    BY <1>4 DEF Spilt, p
  <1>6. \A w \in Word : w \div 256 \in Byte
    BY DEF Word, Byte
  <1> QED
    BY <1>5, <1>6

\* The processor is at the beginning of the command's handler.
LEMMA HandlerBegins ==
    ASSUME RegisterPart, pc \notin Running, UNCHANGED program, pc' \in HandlerNames,
           outcome' = pc', stack' = Base
    PROVE  StackPart' /\ RegisterPart' /\ CommandPart'
  <1>1. UNCHANGED <<regs, before, function, pushes>>
    BY DEF program
  <1>2. /\ pc' \in Places /\ pc' \notin Running /\ pc' \notin Calls
        /\ pc' \notin {"program", "appTerminated"} /\ pc' \notin {"program", "dgDone"}
        /\ pc' \notin Calls \cup {"handle_swi", "rti"} /\ pc' # "appTerminated"
        /\ pc' # "ddProceed" /\ pc' # "duNext"
    BY PlacesApart, PlacesAre, Zenon
  <1>3. stack' \in Seq(Entries)
    <2>1. 0 \in 0..1
      OBVIOUS
    <2>2. Base \in Seq(Entries)
      BY <2>1, StacksAre
    <2> QED
      BY <2>2
  <1>4. StackPart'
    BY <1>2, <1>3, Zenon DEF StackPart
  <1>5. regs = before /\ function = NoFunction /\ pushes = 0 /\ regs \in RegisterValues
    BY Zenon DEF RegisterPart
  <1>6. RegisterPart'
    BY <1>1, <1>2, <1>5, Zenon DEF RegisterPart
  <1>7. CommandPart'
    BY <1>2, Zenon DEF CommandPart
  <1> QED
    BY <1>4, <1>6, <1>7

LEMMA DispatchKeeps == ASSUME MonitorInv, Dispatch PROVE MonitorInv'
  <1>1. /\ pc = "loop" /\ RunCommand /\ shown' = <<>>
        /\ args' = [n \in 1..argc' |-> ArgAt(line, (argv' \o spill')[n])]
        /\ UNCHANGED <<radix, unassembleAddress>>
        /\ UNCHANGED <<saved, round, y, lines, failed>> /\ UNCHANGED program
    BY DEF Dispatch
  <1>2. /\ LineInv /\ at = "dispatch" /\ line \in Seq(Letter) /\ Len(line) \in Nat
        /\ Len(line) < Room
    <2>1. LineInv /\ at = "dispatch" /\ (at # "lost" => Len(line) < Room)
      BY <1>1, PartsAre DEF LinePart, RunCommand
    <2> QED
      BY <2>1 DEF LineInv, LineTypes
  <1>3. /\ InOrder(argv' \o spill', WordStarts(line))
        /\ argv' \in Seq(LinePlaces) /\ Len(argv') <= MaxArgs /\ spill' \in Seq(LinePlaces)
        /\ argc' = Len(argv' \o spill') /\ argc' \in Nat
    BY <1>1, <1>2, RunsTheCommand
  <1> DEFINE places == argv' \o spill'
  <1>4. /\ \A i \in 1..argc' : places[i] \in 1..Len(line)
        /\ \A i \in 1..Len(spill') : spill'[i] \in 1..Len(line)
    BY <1>2, <1>3, CutPlaces
  <1> HIDE DEF places
  <1>5. LinePart'
    <2>1. NewLined
      BY <1>1, Prompted
    <2> QED
      BY <2>1, PartsAre, EditKeepsLine
  <1>6. ArgPart'
    <2>1. \A n \in 1..argc' : ArgAt(line, places[n]) \in Seq(Letter)
      BY <1>2, <1>4, ArgIs
    <2>2. args' = [n \in 1..argc' |-> ArgAt(line, places[n])]
      BY <1>1, Zenon DEF places
    <2>3. args' \in Seq(Seq(Letter)) /\ Len(args') = argc'
      BY <1>3, <2>1, <2>2
    <2> QED
      BY <1>3, <2>3 DEF ArgPart, LinePlaces
  <1>7. memoryAddress' \in Word /\ linesPerPage' \in Byte
    <2>1. /\ memoryAddress' = IF spill' # <<>> THEN Spilt(spill', 1) ELSE memoryAddress
          /\ linesPerPage' = IF Len(spill') > 1 THEN Spilt(spill', 2) \div 256
                             ELSE linesPerPage
      BY DEF Dispatch
    <2>2. memoryAddress \in Word /\ linesPerPage \in Byte
      BY PartsAre DEF SettingsPart
    <2>3. spill' # <<>> => 1 \in 1..Len(spill')
      BY <1>3, EmptySeq
    <2>4. Len(spill') > 1 => 2 \in 1..Len(spill')
      BY <1>3
    <2>5. ASSUME NEW n \in 1..Len(spill')
          PROVE  Spilt(spill', n) \in Word /\ Spilt(spill', n) \div 256 \in Byte
      BY <1>2, <1>3, <1>4, SpiltIs
    <2> QED
      BY <2>1, <2>2, <2>3, <2>4, <2>5
  <1>8. SettingsPart'
    BY <1>1, <1>7, PartsAre DEF SettingsPart
  <1>9. ReportPart'
    <2>1. shown' \in Seq(Reports')
      BY <1>1
    <2> QED
      BY <1>1, <2>1, PartsAre DEF ReportPart
  <1>10. CountPart'
    BY <1>1, PartsAre DEF CountPart, program
  <1>11. StackPart' /\ RegisterPart' /\ CommandPart'
    <2>1. StackPart /\ RegisterPart /\ pc \notin Running
      BY <1>1, PartsAre, PlacesApart, Zenon
    <2>2. CASE outcome' \in handlers
      <3>1. pc' = outcome' /\ stack' = Base /\ pc' \in HandlerNames
        BY <2>2, HandlersAre DEF Dispatch, Base
      <3> QED
        BY <1>1, <2>1, <3>1, HandlerBegins
    <2>3. CASE outcome' \notin handlers
      <3>1. pc' = "loop" /\ stack' = <<>>
        BY <2>3 DEF Dispatch
      <3>2. stack' \in Seq(Entries)
        BY <3>1
      <3>3. StackPart' /\ RegisterPart'
        BY <1>1, <2>1, <3>1, <3>2, QuietKeeps
      <3>4. CommandPart'
        BY <3>1, QuietCommand
      <3> QED
        BY <3>3, <3>4
    <2> QED
      BY <2>2, <2>3
  <1> QED
    BY <1>5, <1>6, <1>8, <1>9, <1>10, <1>11 DEF MonitorInv

(***************************************************************************)
(* Every step.                                                             *)
(***************************************************************************)
LEMMA StandsStill == ASSUME MonitorInv, UNCHANGED <<vars, monitor>> PROVE MonitorInv'
  <1>1. /\ UNCHANGED <<typed, prevChar, at, line, row, cursor>>
        /\ UNCHANGED <<argc, argv, spill>> /\ UNCHANGED <<outcome>>
        /\ UNCHANGED <<pc, stack, args, saved, lines, called, failed>>
        /\ UNCHANGED <<memoryAddress, linesPerPage, radix, unassembleAddress>>
        /\ UNCHANGED <<round, y, shown>>
        /\ UNCHANGED <<regs, function, calls, pushes, before>>
    BY DEF vars, monitor, lineVars, argVars, settings, loops, program
  <1>2. LinePart'
    <2>1. LineInv'
      BY <1>1, PartsAre DEF LinePart, LineInv, LineTypes, Shows
    <2> QED
      BY <1>1, <2>1, PartsAre DEF LinePart
  <1>3. ArgPart' /\ SettingsPart' /\ CountPart'
    BY <1>1, PartsAre DEF ArgPart, SettingsPart, CountPart
  <1>4. ReportPart'
    BY <1>1, PartsAre, ReportKeeps
  <1>5. StackPart'
    BY <1>1, PartsAre, Zenon DEF StackPart, Framed, Frame, Kept
  <1>6. CommandPart' /\ RegisterPart'
    BY <1>1, PartsAre, Zenon DEF CommandPart, RegisterPart, Kept
  <1> QED
    BY <1>2, <1>3, <1>4, <1>5, <1>6 DEF MonitorInv

LEMMA MonitorGoesOn == MonitorInv /\ [MonitorNext]_<<vars, monitor>> => MonitorInv'
  <1> SUFFICES ASSUME MonitorInv, [MonitorNext]_<<vars, monitor>> PROVE MonitorInv'
    OBVIOUS
  <1>1. CASE TypeLine
    BY <1>1, TypeLineKeeps
  <1>2. CASE Edit
    BY <1>2, EditKeeps
  <1>3. CASE Dispatch
    BY <1>3, DispatchKeeps
  <1>4. CASE Reset
    BY <1>4, RestartKeeps DEF Reset
  <1>5. CASE Program
    BY <1>5, SwiKeeps, PushesKeeps, ReturnsKeeps DEF Program
  <1>6. CASE Handlers
    <2>1. CASE RestartByGo
      BY <2>1, RestartKeeps DEF RestartByGo
    <2>2. CASE \/ SetRadix \/ Prints \/ cpuFn \/ windowFn \/ dumpFn \/ ddProceed
               \/ unassembleFn \/ duNext \/ goFn \/ dgDone
      BY <2>2, SetRadixKeeps, PrintsKeeps, CpuKeeps, WindowKeeps, DumpKeeps, ProceedKeeps,
         UnassembleKeeps, NextKeepsOn, GoKeeps, GoDoneKeeps
    <2>3. CASE handle_swi \/ sysGetChar \/ sysPut \/ sysTerminate \/ rti
      BY <2>3, CallIsMade, GetCharKeeps, PutKeeps, TerminateKeeps, RtiKeeps
    <2>4. CASE terminatedOK \/ terminatedWithError \/ registersFn
      BY <2>4, EndsWell, EndsBadly, RegistersKeep
    <2> QED
      BY <1>6, <2>1, <2>2, <2>3, <2>4, Zenon DEF Handlers
  <1>7. CASE UNCHANGED <<vars, monitor>>
    BY <1>7, StandsStill
  <1>8. CASE DiskOrLoad
    BY <1>8, PrintsKeeps
  <1> QED
    BY <1>1, <1>2, <1>3, <1>4, <1>5, <1>6, <1>7, <1>8, Zenon DEF MonitorNext

(***************************************************************************)
(* Every variable is what it should be, in whatever way commands, programs *)
(* and resets follow each other: an entry of the stack is one of the three *)
(* kinds, wherever the processor has got lost.                             *)
(***************************************************************************)
LEMMA TypesAreRight == MonitorInv => MonitorTypeOK
  <1> SUFFICES ASSUME MonitorInv PROVE MonitorTypeOK
    OBVIOUS
  <1>1. /\ LinePart /\ ArgPart /\ SettingsPart /\ CountPart
        /\ StackPart /\ CommandPart /\ RegisterPart /\ ReportPart
    BY PartsAre
  <1>2. TypeOK
    <2>1. /\ typed \in Seq(Byte) /\ prevChar \in Byte /\ prevChar # LF
          /\ line \in Seq(Letter) /\ row \in Seq(Byte) /\ cursor \in Nat /\ cursor <= Len(row)
          /\ at \in {"edit", "dispatch", "lost"}
      BY <1>1 DEF LinePart, LineInv, LineTypes
    <2>2. cursor \in 0..Len(row)
      BY <2>1
    <2>3. prevChar \in Byte \ {LF}
      BY <2>1, Zenon
    <2> QED
      BY <1>1, <2>1, <2>2, <2>3, Zenon DEF TypeOK, ArgPart, Letter
  <1>3. \A n \in DOMAIN stack : stack[n].what \in {"return", "byte", "frame"}
    <2>1. \A e \in Entries : e.what \in {"return", "byte", "frame"}
      BY WhatIs, Zenon DEF Entries
    <2>2. stack \in Seq(Entries)
      BY <1>1, Zenon DEF StackPart
    <2>3. \A n \in DOMAIN stack : stack[n] \in Entries
      BY <2>2
    <2> QED
      BY <2>1, <2>3, Zenon
  <1>4. pc \in Places /\ args \in Seq(Seq(SPACE..DEL - 1))
    BY <1>1, Zenon DEF StackPart, ArgPart, Letter
  <1>5. /\ regs \in [A : Byte, B : Byte, X : Word, Y : Word, U : Word]
        /\ saved \in [A : Byte, B : Byte, X : Word, Y : Word, U : Word, S : Word]
    BY <1>1, Zenon DEF RegisterPart, ReportPart, RegisterValues, SavedValues
  <1> QED
    BY <1>1, <1>2, <1>3, <1>4, <1>5, Zenon DEF MonitorTypeOK, SettingsPart, CountPart

THEOREM MonitorTypeCorrect == MonitorSpec => []MonitorTypeOK
  BY MonitorStarts, MonitorGoesOn, TypesAreRight, PTL DEF MonitorSpec

(***************************************************************************)
(* A program gets its registers back from every system call, and what is   *)
(* printed of one that failed are the registers it had, in any radix.      *)
(***************************************************************************)
LEMMA ReportsAre ==
    ASSUME MonitorInv, outcome \in {"registersFn", "goFn"}, NEW n \in DOMAIN shown
    PROVE  /\ shown[n].number = IF shown[n].reg = "code" THEN 256 * failed.A + failed.B
                                ELSE failed[shown[n].reg]
           /\ shown[n].number \in Word
  <1>1. failed \in SavedValues /\ shown \in Seq(Reports)
    BY PartsAre, Zenon DEF ReportPart
  <1>2. shown[n] \in Reports
    BY <1>1
  <1>3. \A reg, k : Shown(reg, k).reg = reg /\ Shown(reg, k).number = k
    BY DEF Shown
  <1>4. CASE shown[n] = Shown("code", 256 * failed.A + failed.B)
    <2> DEFINE code == 256 * failed.A + failed.B
    <2>1. shown[n].reg = "code" /\ shown[n].number = code
      BY <1>3, <1>4
    <2>2. code \in Word
      <3> DEFINE a == failed.A
                 b == failed.B
      <3>1. a \in Byte /\ b \in Byte
        BY <1>1, SavedAre
      <3> HIDE DEF a, b
      <3>2. 256 * a + b \in Word
        BY <3>1 DEF Byte, Word
      <3> QED
        BY <3>2 DEF a, b
    <2> HIDE DEF code
    <2>3. shown[n].number = IF shown[n].reg = "code" THEN code ELSE failed[shown[n].reg]
      BY <2>1, Zenon
    <2> QED
      BY <2>1, <2>2, <2>3 DEF code
  <1>5. CASE \E reg \in {"A", "B", "X", "Y", "U", "S"} : shown[n] = Shown(reg, failed[reg])
    <2>1. PICK reg \in {"A", "B", "X", "Y", "U", "S"} : shown[n] = Shown(reg, failed[reg])
      BY <1>5
    <2>2. shown[n].reg = reg /\ shown[n].number = failed[reg] /\ reg # "code"
      BY <1>3, <2>1
    <2>3. failed[reg] \in Word
      <3>1. \A b \in Byte : b \in Word
        BY DEF Byte, Word
      <3>2. /\ failed.A \in Word /\ failed.B \in Word /\ failed.X \in Word
            /\ failed.Y \in Word /\ failed.U \in Word /\ failed.S \in Word
        BY <1>1, <3>1, SavedAre
      <3> QED
        BY <3>2
    <2> DEFINE code == 256 * failed.A + failed.B
    <2> HIDE DEF code
    <2>4. shown[n].number = IF shown[n].reg = "code" THEN code ELSE failed[shown[n].reg]
      BY <2>2, Zenon
    <2> QED
      BY <2>2, <2>3, <2>4 DEF code
  <1> QED
    BY <1>2, <1>4, <1>5, Zenon DEF Reports

LEMMA RegistersAreRight == MonitorInv => RegistersSurvive
  <1> SUFFICES ASSUME MonitorInv PROVE RegistersSurvive
    OBVIOUS
  <1>1. pc = "program" =>
          \E c \in Received :
             regs = IF function = 0 THEN [before EXCEPT !.A = StripParity(c)] ELSE before
    BY AtProgram, Zenon DEF Kept
  <1>2. ASSUME NEW n \in DOMAIN shown, outcome \in {"registersFn", "goFn"}
        PROVE  Says(text(shown[n]),
                    IF shown[n].reg = "code" THEN 256 * failed.A + failed.B
                    ELSE failed[shown[n].reg], radix)
    <2> DEFINE k == shown[n].number
               code == 256 * failed.A + failed.B
               meant == IF shown[n].reg = "code" THEN code ELSE failed[shown[n].reg]
    <2>1. k = meant /\ k \in Word
      BY <1>2, ReportsAre
    <2>2. radix \in {2, 10, 16}
      BY PartsAre, Zenon DEF SettingsPart
    <2>3. text(shown[n]) = printNum(k, radix)
      BY Zenon DEF text
    <2> HIDE DEF k, meant, code
    <2>4. Says(printNum(k, radix), k, radix)
      BY <2>1, <2>2, PrintNumSays
    <2>5. Says(text(shown[n]), meant, radix)
      BY <2>1, <2>3, <2>4, Zenon
    <2> QED
      BY <2>5, Zenon DEF meant, code
  <1> QED
    BY <1>1, <1>2, Zenon DEF RegistersSurvive

THEOREM RegistersAreKept == MonitorSpec => []RegistersSurvive
  BY MonitorStarts, MonitorGoesOn, RegistersAreRight, PTL DEF MonitorSpec

(***************************************************************************)
(* What CommandLine says of its own steps holds of the whole monitor: no   *)
(* handler, program or reset comes between the end of a line and its       *)
(* dispatch, and none touches what the operator sees of a line.            *)
(***************************************************************************)
Elsewhere == pc # "loop" => at = "edit"

\* A handler and a program leave the line alone, or start it again.
LEMMA OthersLeaveTheLine ==
    ASSUME Handlers \/ DiskOrLoad \/ Program
    PROVE  pc # "loop" /\ (at' = at \/ at' = "edit")
  <1>1. ASSUME Handling \/ MayRead PROVE at' = at
    BY <1>1 DEF Handling, MayRead, Getting, lineVars
  <1>2. CASE Program
    <2>1. pc = "program" /\ Handling
      BY <1>2, Zenon DEF Program, Swi, ProgramPushes, ProgramReturns
    <2> QED
      BY <1>1, <2>1
  <1>3. CASE RestartByGo
    BY <1>3 DEF RestartByGo, Restart
  <1>4. CASE SetRadix \/ Prints \/ DiskOrLoad
    BY <1>1, <1>4 DEF SetRadix, Prints, DiskOrLoad, MayRead, radixOf
  <1>5. CASE \/ cpuFn \/ windowFn \/ dumpFn \/ ddProceed \/ unassembleFn \/ duNext
             \/ goFn \/ dgDone
    <2>1. cpuFn => pc = "cpuFn" /\ Handling
      BY DEF cpuFn
    <2>2. windowFn => pc = "windowFn" /\ Handling
      BY DEF windowFn
    <2>3. dumpFn => pc = "dumpFn" /\ Handling
      BY DEF dumpFn
    <2>4. ddProceed => pc = "ddProceed" /\ Handling
      BY DEF ddProceed
    <2>5. unassembleFn => pc = "unassembleFn" /\ Handling
      BY DEF unassembleFn
    <2>6. duNext => pc = "duNext" /\ Handling
      BY DEF duNext
    <2>7. goFn => pc = "goFn" /\ Handling
      BY DEF goFn
    <2>8. dgDone => pc = "dgDone" /\ Handling
      BY DEF dgDone
    <2>9. pc # "loop" /\ Handling
      BY <1>5, <2>1, <2>2, <2>3, <2>4, <2>5, <2>6, <2>7, <2>8
    <2> QED
      BY <1>1, <2>9
  <1>6. CASE handle_swi \/ sysGetChar \/ sysTerminate \/ rti
    BY <1>1, <1>6, Zenon DEF handle_swi, sysGetChar, sysTerminate, rti, MayRead
  <1>7. CASE sysPut
    <2>1. pc \in Puts
      BY <1>7, CallsAre, Zenon DEF sysPut
    <2> QED
      BY <1>1, <1>7, <2>1, Zenon DEF sysPut, Puts
  <1>8. CASE terminatedOK \/ terminatedWithError \/ registersFn
    BY <1>1, <1>8, Zenon DEF terminatedOK, terminatedWithError, registersFn
  <1> QED
    BY <1>2, <1>3, <1>4, <1>5, <1>6, <1>7, <1>8, Zenon DEF Handlers

LEMMA ElsewhereKept == Elsewhere /\ [MonitorNext]_<<vars, monitor>> => Elsewhere'
  <1> SUFFICES ASSUME Elsewhere, [MonitorNext]_<<vars, monitor>> PROVE Elsewhere'
    OBVIOUS
  <1>1. CASE Handlers \/ DiskOrLoad \/ Program
    BY <1>1, OthersLeaveTheLine DEF Elsewhere
  <1>2. CASE TypeLine \/ Edit
    BY <1>2 DEF TypeLine, Edit, monitor, Elsewhere
  <1>3. CASE Dispatch
    BY <1>3 DEF Dispatch, RunCommand, NewLine, Elsewhere
  <1>4. CASE Reset
    BY <1>4 DEF Reset, Restart, Elsewhere
  <1>5. CASE UNCHANGED <<vars, monitor>>
    BY <1>5 DEF vars, lineVars, monitor, Elsewhere
  <1> QED
    BY <1>1, <1>2, <1>3, <1>4, <1>5, Zenon DEF MonitorNext

\* After the end of a line the loop goes on.
LEMMA LoopDispatches ==
    ASSUME MonitorInv, Elsewhere, [MonitorNext]_<<vars, monitor>>, at = "dispatch",
           vars' # vars
    PROVE  LineInv /\ (BlankLine \/ RunCommand)
  <1>1. pc = "loop" /\ LineInv
    BY PartsAre DEF Elsewhere, LinePart
  <1>2. ~Handlers /\ ~DiskOrLoad /\ ~Program
    BY <1>1, OthersLeaveTheLine
  <1>3. ~TypeLine /\ ~Reset
    BY DEF TypeLine, Reset
  <1>4. ~(UNCHANGED <<vars, monitor>>)
    OBVIOUS
  <1>5. CASE Edit
    <2>1. ~SwallowLF /\ ~GetLChar
      BY DEF SwallowLF, GetLChar
    <2> QED
      BY <1>1, <1>5, <2>1, Zenon
         DEF Edit, rclPrintable, rclDelete, rclNonPrintable, rclEOL
  <1>6. CASE Dispatch
    BY <1>1, <1>6 DEF Dispatch
  <1> QED
    BY <1>2, <1>3, <1>4, <1>5, <1>6, Zenon DEF MonitorNext

THEOREM MonitorKeepsTheLoop ==
    MonitorSpec => []ScreenShowsLine /\ ArgumentsAreWords /\ DispatchIsLookup
  <1>1. MonitorInv /\ Elsewhere /\ [MonitorNext]_<<vars, monitor>> =>
            [(at = "dispatch" /\ outcome' # "blank") =>
                /\ argc' = Cardinality(WordStarts(line))
                /\ InOrder(argv' \o spill', WordStarts(line))
                /\ outcome' \in handlers => spill' = <<>>]_vars
    <2>1. ASSUME MonitorInv, Elsewhere, [MonitorNext]_<<vars, monitor>>, at = "dispatch",
                 outcome' # "blank", vars' # vars
          PROVE  /\ argc' = Cardinality(WordStarts(line))
                 /\ InOrder(argv' \o spill', WordStarts(line))
                 /\ outcome' \in handlers => spill' = <<>>
      BY <2>1, LoopDispatches, WordsAreTaken
    <2> QED
      BY <2>1, Zenon
  <1>2. MonitorInv /\ Elsewhere /\ [MonitorNext]_<<vars, monitor>> =>
            [at = "dispatch" => outcome' = Answer(line)]_vars
    <2>1. ASSUME MonitorInv, Elsewhere, [MonitorNext]_<<vars, monitor>>, at = "dispatch",
                 vars' # vars
          PROVE  outcome' = Answer(line)
      BY <2>1, LoopDispatches, LineIsAnswered
    <2> QED
      BY <2>1, Zenon
  <1>3. DispatchIsLookup <=> [][at = "dispatch" => outcome' = Answer(line)]_vars
    BY DEF DispatchIsLookup, Answer
  <1>4. MonitorInit => Elsewhere
    BY DEF MonitorInit, Elsewhere
  <1>5. MonitorInv => ScreenShowsLine
    BY PartsAre, LineIsShown DEF LinePart
  <1> QED
    BY <1>1, <1>2, <1>3, <1>4, <1>5, MonitorStarts, MonitorGoesOn, ElsewhereKept, PTL
       DEF MonitorSpec, ArgumentsAreWords

-----------------------------------------------------------------------------
(* What commands do.                                                       *)

(***************************************************************************)
(* What strToHex makes of a word is what the word says.                    *)
(***************************************************************************)
\* v is the value of the word's first digits, 0 to all of them.
HexValues(v, w) ==
    /\ v[0] = 0
    /\ \A i \in 1..Len(w) : v[i] = 16 * v[i - 1] + HexDigit(w[i])

LEMMA HexValueIs ==
    ASSUME NEW w \in Seq(Int)
    PROVE  \E v : HexValues(v, w) /\ HexValue(w) = v[Len(w)]
  <1> DEFINE n == Len(w)
             T == [i \in 1..n |-> [x \in Int |-> 16 * x + HexDigit(w[i])]]
             Pass(g) == [i \in 0..n |-> IF i = 0 THEN 0 ELSE 16 * g[i - 1] + HexDigit(w[i])]
             c == CHOOSE g : g = Pass(g)
  <1>1. n \in Nat /\ n \in 0..n /\ 0 \in 0..n /\ \A i \in 1..n : w[i] \in Int
    OBVIOUS
  <1>2. \A i \in 0..n : i # 0 => i \in 1..n /\ i - 1 \in 0..n
    BY <1>1
  <1>3. \A i \in 1..n : i # 0 /\ i \in 0..n /\ i - 1 \in 0..n
    BY <1>1
  <1>4. HexValue(w) = c[n]
    BY Zenon DEF HexValue
  <1>5. T \in Steps(n, Int)
    <2> SUFFICES ASSUME NEW i \in 1..n, NEW x \in Int PROVE 16 * x + HexDigit(w[i]) \in Int
      BY DEF Steps
    <2>1. HexDigit(w[i]) \in Int
      BY <1>1, HexDigitIs DEF BadDigit
    <2> QED
      BY <2>1
  <1>6. \A i \in 1..n, x \in Int : T[i][x] = 16 * x + HexDigit(w[i])
    OBVIOUS
  <1> HIDE DEF T, n
  <1>7. PICK f \in [0..n -> Int] : f[0] = 0 /\ \A i \in 1..n : f[i] = T[i][f[i - 1]]
    <2> DEFINE S == Int
               start == 0
    <2>1. start \in S /\ T \in Steps(n, S) /\ n \in Nat
      BY <1>1, <1>5
    <2> HIDE DEF S, start
    <2>2. Defined(n, S, start, T)
      BY <2>1, Recursion
    <2> QED
      BY <2>2, Zenon DEF S, start, Defined
  <1>8. \A i \in 1..n : f[i] = 16 * f[i - 1] + HexDigit(w[i])
    BY <1>3, <1>6, <1>7
  <1>9. f = Pass(f)
    BY <1>2, <1>7, <1>8, Zenon
  <1>10. c = Pass(c)
    BY <1>9, Zenon
  <1> HIDE DEF c
  <1>11. c[0] = 0 /\ \A i \in 1..n : c[i] = 16 * c[i - 1] + HexDigit(w[i])
    BY <1>1, <1>3, <1>10, Zenon
  <1> QED
    BY <1>4, <1>11 DEF HexValues, n

\* A character more.
LEMMA OneMoreDigit ==
    ASSUME NEW r \in Read, NEW c \in Int
    PROVE  /\ Taken(r, c).status = "ok" =>
                 /\ r.status = "ok" /\ HexDigit(c) # BadDigit
                 /\ Taken(r, c).value = 16 * r.value + HexDigit(c)
           /\ Taken(r, c).status = "error" => r.status = "error" \/ HexDigit(c) = BadDigit
  <1> DEFINE d == HexDigit(c)
             v == r.value
             big == v >= 4096
             sum == 16 * v + d
  <1>1. Taken(r, c) = IF r.status # "ok" THEN r
                      ELSE IF d = BadDigit THEN [r EXCEPT !.status = "error"]
                      ELSE IF big THEN [r EXCEPT !.status = "lost"]
                      ELSE [r EXCEPT !.value = sum]
    BY DEF Taken, charToHex
  <1> HIDE DEF d, v, big, sum
  <1>2. /\ [r EXCEPT !.status = "error"].status = "error"
        /\ [r EXCEPT !.status = "lost"].status = "lost"
        /\ [r EXCEPT !.value = sum].value = sum
        /\ [r EXCEPT !.value = sum].status = r.status
    BY DEF Read
  <1>3. /\ Taken(r, c).status = "ok" => r.status = "ok" /\ d # BadDigit /\ Taken(r, c).value = sum
        /\ Taken(r, c).status = "error" => r.status = "error" \/ d = BadDigit
    <2>1. CASE r.status # "ok"
      BY <1>1, <2>1
    <2>2. CASE r.status = "ok" /\ d = BadDigit
      <3>1. Taken(r, c) = [r EXCEPT !.status = "error"]
        BY <1>1, <2>2
      <3> QED
        BY <1>2, <2>2, <3>1
    <2>3. CASE r.status = "ok" /\ d # BadDigit /\ big
      <3>1. Taken(r, c) = [r EXCEPT !.status = "lost"]
        BY <1>1, <2>3
      <3> QED
        BY <1>2, <2>3, <3>1
    <2>4. CASE r.status = "ok" /\ d # BadDigit /\ ~big
      <3>1. Taken(r, c) = [r EXCEPT !.value = sum]
        BY <1>1, <2>4
      <3> QED
        BY <1>2, <2>4, <3>1
    <2> QED
      BY <2>1, <2>2, <2>3, <2>4
  <1> QED
    BY <1>3 DEF d, v, sum

LEMMA HexIsRead ==
    ASSUME NEW w \in Seq(Int)
    PROVE  /\ strToHex(w).status = "ok" => IsHex(w) /\ strToHex(w).value = HexValue(w)
           /\ strToHex(w).status = "error" => ~IsHex(w)
  <1> DEFINE n == Len(w)
  <1>1. n \in Nat /\ n \in 0..n /\ 0 \in 0..n /\ \A i \in 1..n : w[i] \in Int
    OBVIOUS
  <1>2. PICK c : Reading(c, w) /\ strToHex(w) = c[n]
    BY StrToHexReads
  <1>3. PICK v : HexValues(v, w) /\ HexValue(w) = v[n]
    BY HexValueIs
  <1> DEFINE Good(i) == \A j \in 1..i : HexDigit(w[j]) # BadDigit
             As(i) == /\ c[i].status = "ok" => Good(i) /\ c[i].value = v[i]
                      /\ c[i].status = "error" => ~Good(i)
             P == {i \in 0..n : As(i)}
  <1>4. 0 \in P
    <2>1. c[0].status = "ok" /\ c[0].value = 0 /\ v[0] = 0
      BY <1>2, <1>3 DEF Reading, HexValues
    <2>2. Good(0)
      OBVIOUS
    <2> QED
      BY <1>1, <2>1, <2>2
  <1>5. ASSUME NEW i \in 1..n, i - 1 \in P PROVE i \in P
    <2>1. i \in 0..n /\ i - 1 \in 0..n /\ 1..i = (1..(i - 1)) \cup {i}
      BY <1>1
    <2>2. c[i] = Taken(c[i - 1], w[i]) /\ c[i - 1] \in Read /\ w[i] \in Int
      BY <1>1, <1>2, <2>1 DEF Reading
    <2>3. v[i] = 16 * v[i - 1] + HexDigit(w[i])
      BY <1>3 DEF HexValues
    <2>4. As(i - 1)
      BY <1>5
    <2>5. Good(i) <=> Good(i - 1) /\ HexDigit(w[i]) # BadDigit
      BY <2>1, Zenon
    <2> DEFINE k == i - 1
    <2> HIDE DEF Good, k
    <2>6. /\ c[i].status = "ok" => /\ c[k].status = "ok" /\ HexDigit(w[i]) # BadDigit
                                   /\ c[i].value = 16 * c[k].value + HexDigit(w[i])
          /\ c[i].status = "error" => c[k].status = "error" \/ HexDigit(w[i]) = BadDigit
      <3>1. c[i] = Taken(c[k], w[i]) /\ c[k] \in Read /\ w[i] \in Int
        BY <2>2, Zenon DEF k
      <3> DEFINE r == c[k]
      <3>2. r \in Read
        BY <3>1
      <3> HIDE DEF r
      <3>3. /\ Taken(r, w[i]).status = "ok" =>
                 /\ r.status = "ok" /\ HexDigit(w[i]) # BadDigit
                 /\ Taken(r, w[i]).value = 16 * r.value + HexDigit(w[i])
            /\ Taken(r, w[i]).status = "error" => r.status = "error" \/ HexDigit(w[i]) = BadDigit
        BY <3>1, <3>2, OneMoreDigit, Zenon
      <3> QED
        BY <3>1, <3>3, Zenon DEF r
    <2>7. /\ c[k].status = "ok" => Good(k) /\ c[k].value = v[k]
          /\ c[k].status = "error" => ~Good(k)
      BY <2>4, Zenon DEF k
    <2>8. (Good(i) <=> Good(k) /\ HexDigit(w[i]) # BadDigit) /\ v[i] = 16 * v[k] + HexDigit(w[i])
      BY <2>3, <2>5, Zenon DEF k
    <2>9. As(i)
      BY <2>6, <2>7, <2>8, Zenon
    <2> QED
      BY <2>1, <2>9, Zenon
  <1> HIDE DEF P
  <1>6. n \in P
    <2>1. \A i \in 0..n : i \in P
      BY <1>1, <1>4, <1>5, UpTo
    <2> QED
      BY <1>1, <2>1
  <1>7. As(n)
    BY <1>6 DEF P
  <1>8. Good(n) <=> IsHex(w)
    BY DEF IsHex
  <1> QED
    BY <1>2, <1>3, <1>7, <1>8, Zenon

(***************************************************************************)
(* What a command has done so far of what it was asked to, in terms of the *)
(* settings when it was called and of what its arguments say.              *)
(***************************************************************************)
Settled(s) ==
    /\ s = <<s[1], s[2], s[3], s[4]>>
    /\ s[1] \in Word /\ s[2] \in Byte /\ s[4] \in Word

\* The words that handlers make sense of are all there are.
AskedPart ==
    /\ Settled(called)
    /\ outcome = "dumpFn" => argc <= 3
    /\ outcome \in {"windowFn", "goFn", "unassembleFn"} => argc <= 2
    /\ pc # "loop" => outcome # "blank"

CalledPart == pc \in HandlerNames /\ outcome = pc => settings = called /\ shown = <<>>

\* dump has shown n lines.
DumpPage == IF argc >= 3 THEN HexValue(args[3]) ELSE called[2]
DumpFrom == IF argc >= 2 THEN HexValue(args[2]) ELSE called[1]
NextLine(a) == (a + 16) % 65536
After(f, n) == (f + 16 * n) % 65536     \* the address behind n lines from f
RoundOf(p, n) == (p - n) % 256          \* B after n of p rounds
Dumped(n) ==
    /\ shown = Addresses(DumpFrom, n)
    /\ settings = <<After(DumpFrom, n), DumpPage, called[3], called[4]>>
    /\ round = RoundOf(PageOf(DumpPage), n)

DumpPart == pc = "ddProceed" =>
    /\ argc >= 3 => IsHex(args[3]) /\ HexValue(args[3]) < 256
    /\ argc >= 2 => IsHex(args[2])
    /\ DumpPage \in Byte /\ DumpFrom \in Word
    /\ \E n \in 0..255 : n < PageOf(DumpPage) /\ Dumped(n)

\* unassemble has shown some instructions, and Y is behind the last.
FirstShown == IF argc >= 2 THEN HexValue(args[2]) ELSE called[4]
OneBehindTheOther(s) ==
    /\ s # <<>> => s[1] = FirstShown
    /\ \A k \in 2..Len(s) : s[k] = Behind(s[k - 1])

UnassemblePart == pc = "duNext" =>
    /\ argc >= 2 => IsHex(args[2])
    /\ shown \in Seq(Word) /\ OneBehindTheOther(shown)
    /\ y = IF shown = <<>> THEN FirstShown ELSE Behind(Last(shown))
    /\ memoryAddress = called[1] /\ linesPerPage = called[2] /\ radix = called[3]
    /\ Len(shown) < PageOf(called[2])
    /\ round = RoundOf(PageOf(called[2]), Len(shown))

\* go has set the address, if it was given one.
GoPart == outcome = "goFn" /\ pc \notin {"goFn", "loop", "lost"} =>
    settings = IF argc >= 2 /\ IsHex(args[2])
               THEN <<HexValue(args[2]), called[2], called[3], called[4]>> ELSE called

AskedInv == AskedPart /\ CalledPart /\ DumpPart /\ UnassemblePart /\ GoPart

(***************************************************************************)
(* A command is called with as many words as it takes.                     *)
(***************************************************************************)
LEMMA OneArgument ==
    ASSUME NEW i \in 1..15, cmd_table[i].handler \in {"windowFn", "goFn", "unassembleFn"}
    PROVE  cmd_table[i].max = 1
  <1>1. /\ cmd_table[1].handler = "binaryFn" /\ cmd_table[2].handler = "bootFn"
        /\ cmd_table[3].handler = "cpuFn" /\ cmd_table[4].handler = "decimalFn"
        /\ cmd_table[5].handler = "diskFn" /\ cmd_table[6].handler = "dumpFn"
        /\ cmd_table[8].handler = "hexadecimalFn"
        /\ cmd_table[9].handler = "loadFn" /\ cmd_table[10].handler = "radixFn"
        /\ cmd_table[11].handler = "registersFn"
        /\ cmd_table[14].handler = "zobFn" /\ cmd_table[15].handler = "helpFn"
        /\ cmd_table[7].max = 1 /\ cmd_table[12].max = 1 /\ cmd_table[13].max = 1
    BY DEF cmd_table, Command
  <1>2. i \in {1, 2, 3, 4, 5, 6, 7, 8, 9, 10, 11, 12, 13, 14, 15}
    OBVIOUS
  <1>3. CASE i \in {7, 12, 13}
    BY <1>1, <1>3
  <1>4. CASE i \notin {7, 12, 13}
    <2>1. cmd_table[i].handler \notin {"windowFn", "goFn", "unassembleFn"}
      BY <1>1, <1>2, <1>4
    <2> QED
      BY <2>1
  <1> QED
    BY <1>3, <1>4

LEMMA LookedIs ==
    ASSUME NEW S \in SUBSET (1..15), NEW k \in Nat
    PROVE  \/ Looked(S, k) \in Messages
           \/ \E i \in 1..15 : Looked(S, k) = cmd_table[i].handler /\ ~(k > cmd_table[i].max)
  <1>1. /\ "unknown" \in Messages /\ "ambiguous" \in Messages /\ "too many" \in Messages
        /\ "too few" \in Messages
    BY DEF Messages
  <1>2. CASE S = {}
    BY <1>1, <1>2, Zenon DEF Looked
  <1>3. CASE \E i, j \in S : i # j
    <2>1. S # {}
      BY <1>3
    <2> QED
      BY <1>1, <1>3, <2>1, Zenon DEF Looked
  <1>4. CASE S # {} /\ ~(\E i, j \in S : i # j)
    <2> DEFINE i == CHOOSE j \in S : TRUE
               few == k < cmd_table[i].min
               over == k > cmd_table[i].max
    <2>1. i \in 1..15
      BY <1>4
    <2>2. Looked(S, k) = IF few THEN "too few" ELSE IF over THEN "too many"
                         ELSE cmd_table[i].handler
      BY <1>4, Zenon DEF Looked
    <2>3. ~over <=> ~(k > cmd_table[i].max)
      OBVIOUS
    <2> HIDE DEF few, over, i
    <2> QED
      BY <1>1, <2>1, <2>2, <2>3, Zenon
  <1> QED
    BY <1>2, <1>3, <1>4

LEMMA ArgumentsAreTaken ==
    ASSUME MonitorInv, RunCommand
    PROVE  /\ outcome' = "dumpFn" => argc' <= 3
           /\ outcome' \in {"windowFn", "goFn", "unassembleFn"} => argc' <= 2
           /\ outcome' # "blank"
  <1>1. LineInv
    BY PartsAre DEF LinePart
  <1> DEFINE k == Cardinality(WordStarts(line)) - 1
  <1>2. /\ outcome' = Looked(Meant(line), k) /\ argc' = Cardinality(WordStarts(line))
        /\ argc' \in Nat /\ WordStarts(line) # {}
    BY <1>1, RunsTheCommand
  <1>3. Meant(line) \in SUBSET (1..15)
    BY TableIs DEF Meant
  <1>4. k \in Nat /\ argc' = k + 1
    <2>1. argc' # 0
      <3> SUFFICES ASSUME argc' = 0 PROVE FALSE
        OBVIOUS
      <3>1. InOrder(argv' \o spill', WordStarts(line)) /\ argc' = Len(argv' \o spill')
            /\ argv' \in Seq(LinePlaces) /\ spill' \in Seq(LinePlaces)
        BY <1>1, RunsTheCommand
      <3>2. DOMAIN (argv' \o spill') = {}
        BY <3>1
      <3> QED
        BY <1>2, <3>1, <3>2, Zenon DEF InOrder
    <2> QED
      BY <1>2, <2>1
  <1> HIDE DEF k
  <1>5. CASE outcome' \in Messages
    <2>1. outcome' # "dumpFn" /\ outcome' \notin {"windowFn", "goFn", "unassembleFn"}
      BY <1>5, Zenon DEF Messages
    <2>2. outcome' # "blank"
      <3>1. Looked(Meant(line), k) # "blank"
        <4>1. \A i \in 1..15 : cmd_table[i].handler # "blank"
          BY TableIs, Zenon DEF CommandOK, Messages
        <4> DEFINE i == CHOOSE j \in Meant(line) : TRUE
                   two == \E a, b \in Meant(line) : a # b
                   few == k < cmd_table[i].min
                   over == k > cmd_table[i].max
        <4>2. Meant(line) # {} => i \in 1..15
          BY <1>3
        <4>3. Looked(Meant(line), k) =
                IF Meant(line) = {} THEN "unknown" ELSE IF two THEN "ambiguous"
                ELSE IF few THEN "too few" ELSE IF over THEN "too many"
                ELSE cmd_table[i].handler
          BY Zenon DEF Looked
        <4>4. Meant(line) # {} => cmd_table[i].handler # "blank"
          BY <4>1, <4>2, Zenon
        <4> HIDE DEF i, two, few, over
        <4> QED
          BY <4>3, <4>4, Zenon
      <3> QED
        BY <1>2, <3>1
    <2> QED
      BY <2>1, <2>2
  <1>6. CASE \E i \in 1..15 : outcome' = cmd_table[i].handler /\ ~(k > cmd_table[i].max)
    <2>1. PICK i \in 1..15 : outcome' = cmd_table[i].handler /\ ~(k > cmd_table[i].max)
      BY <1>6
    <2> DEFINE c == cmd_table[i]
    <2>2. CommandOK(c)
      BY TableIs
    <2> HIDE DEF c
    <2>3. c.max \in 0..2 /\ c.handler \notin Messages
      BY <2>2 DEF CommandOK
    <2>4. c.handler \in {"windowFn", "goFn", "unassembleFn"} => c.max = 1
      BY OneArgument, Zenon DEF c
    <2>5. outcome' = c.handler /\ ~(k > c.max)
      BY <2>1 DEF c
    <2>6. outcome' # "blank"
      BY <2>3, <2>5, Zenon DEF Messages
    <2> QED
      BY <1>4, <2>3, <2>4, <2>5, <2>6
  <1> QED
    BY <1>2, <1>3, <1>4, <1>5, <1>6, LookedIs

\* A line has more words than argv has room for when some are beyond it.
LEMMA SpiltOver ==
    ASSUME MonitorInv, RunCommand, spill' # <<>> PROVE argc' > MaxArgs
  <1> DEFINE places == makeArgs(line)
             n == Len(places)
  <1>1. line \in Seq(Letter)
    BY PartsAre DEF LinePart, LineInv, LineTypes
  <1>2. places \in Seq(LinePlaces) /\ n \in Nat
    BY <1>1, MakeArgsFinds
  <1>3. argc' = n /\ spill' = SubSeq(places, Min({MaxArgs, n}) + 1, n)
    BY Zenon DEF RunCommand
  <1> HIDE DEF places
  <1>4. ~(n <= MaxArgs)
    BY <1>2, <1>3, CutIs
  <1>5. MaxArgs \in Nat
    BY CommandLineAssumption
  <1> HIDE DEF n
  <1> QED
    BY <1>2, <1>3, <1>4, <1>5

(***************************************************************************)
(* Done, for each of the commands.                                         *)
(***************************************************************************)
LEMMA ChangedIs ==
    ASSUME NEW s, Settled(s), NEW x, NEW z
    PROVE  /\ [s EXCEPT ![1] = x] = <<x, s[2], s[3], s[4]>>
           /\ [s EXCEPT ![2] = x] = <<s[1], x, s[3], s[4]>>
           /\ [s EXCEPT ![3] = x] = <<s[1], s[2], x, s[4]>>
           /\ [s EXCEPT ![4] = x] = <<s[1], s[2], s[3], x>>
           /\ [s EXCEPT ![1] = x, ![2] = z] = <<x, z, s[3], s[4]>>
  <1> DEFINE a == s[1]
             b == s[2]
             c == s[3]
             d == s[4]
  <1>1. s = <<a, b, c, d>>
    BY DEF Settled
  <1> HIDE DEF a, b, c, d
  <1>2. /\ [<<a, b, c, d>> EXCEPT ![1] = x] = <<x, b, c, d>>
        /\ [<<a, b, c, d>> EXCEPT ![2] = x] = <<a, x, c, d>>
        /\ [<<a, b, c, d>> EXCEPT ![3] = x] = <<a, b, x, d>>
        /\ [<<a, b, c, d>> EXCEPT ![4] = x] = <<a, b, c, x>>
        /\ [<<a, b, c, d>> EXCEPT ![1] = x, ![2] = z] = <<x, z, c, d>>
    OBVIOUS
  <1> QED
    BY <1>1, <1>2 DEF a, b, c, d

LEMMA WindowDone ==
    ASSUME outcome = "windowFn", NEW was, NEW now,
           now = IF argc >= 2 /\ IsHex(args[2]) /\ HexValue(args[2]) < 256
                 THEN [was EXCEPT ![2] = HexValue(args[2])] ELSE was
    PROVE  Done(was, now)
  <1> DEFINE good == argc >= 2 /\ IsHex(args[2]) /\ HexValue(args[2]) < 256
             set == [was EXCEPT ![2] = HexValue(args[2])]
  <1>1. now = IF good THEN set ELSE was
    OBVIOUS
  <1>2. (IF good THEN now = set ELSE now = was) => Done(was, now)
    BY DEF Done, radixOf
  <1> HIDE DEF good, set
  <1> QED
    BY <1>1, <1>2

LEMMA GoDone ==
    ASSUME outcome = "goFn", NEW was, NEW now,
           now = IF argc >= 2 /\ IsHex(args[2])
                 THEN [was EXCEPT ![1] = HexValue(args[2])] ELSE was
    PROVE  Done(was, now)
  <1> DEFINE good == argc >= 2 /\ IsHex(args[2])
             set == [was EXCEPT ![1] = HexValue(args[2])]
  <1>1. now = IF good THEN set ELSE was
    OBVIOUS
  <1>2. (IF good THEN now = set ELSE now = was) => Done(was, now)
    BY DEF Done, radixOf
  <1> HIDE DEF good, set
  <1> QED
    BY <1>1, <1>2

LEMMA RadixDone ==
    ASSUME outcome \in DOMAIN radixOf, NEW was, NEW now,
           now = [was EXCEPT ![3] = radixOf[outcome]]
    PROVE  Done(was, now)
  BY DEF Done, radixOf

LEMMA OtherDone ==
    ASSUME outcome \notin {"windowFn", "dumpFn", "unassembleFn", "goFn"} \cup DOMAIN radixOf,
           NEW was
    PROVE  Done(was, was)
  BY DEF Done, radixOf

LEMMA BadCountDone ==
    ASSUME outcome = "dumpFn", argc >= 3, ~(IsHex(args[3]) /\ HexValue(args[3]) < 256),
           shown' = <<>>, NEW was
    PROVE  Done(was, was)
  BY DEF Done, radixOf

LEMMA UnassembleDone ==
    ASSUME outcome = "unassembleFn", NEW was, NEW now,
           IF argc >= 2 /\ ~IsHex(args[2]) THEN now = was /\ shown' = <<>>
           ELSE /\ Len(shown') = PageOf(was[2])
                /\ shown'[1] = IF argc >= 2 THEN HexValue(args[2]) ELSE was[4]
                /\ \A k \in 2..Len(shown') : shown'[k] = Behind(shown'[k - 1])
                /\ now = [was EXCEPT ![4] = Behind(Last(shown'))]
    PROVE  Done(was, now)
  BY DEF Done, radixOf

(***************************************************************************)
(* Steps of the handlers that have no rounds.                              *)
(***************************************************************************)
AsAsked ==
    /\ (pc # "loop" /\ pc' = "loop" /\ outcome' = outcome) => Done(called, settings')
    /\ (pc = "loop" /\ settings' # settings /\ outcome' # "blank") => argc' > MaxArgs

LEMMA HandlingLeaves ==
    ASSUME Handling \/ MayRead
    PROVE  outcome' = outcome /\ argc' = argc /\ args' = args /\ called' = called
  BY DEF Handling, MayRead, Getting, argVars

LEMMA AskedKeeps ==
    ASSUME AskedPart, pc # "loop", Handling \/ MayRead PROVE AskedPart'
  BY HandlingLeaves DEF AskedPart, Settled

\* A command that is over.
LEMMA CommandOver ==
    ASSUME AskedInv, Handling \/ MayRead, pc # "loop", pc' \in {"loop", "lost"},
           pc' = "loop" => Done(called, settings')
    PROVE  AskedInv' /\ AsAsked
  <1>1. AskedPart'
    BY AskedKeeps DEF AskedInv
  <1>2. pc' \notin HandlerNames /\ pc' # "ddProceed" /\ pc' # "duNext"
    BY PlacesApart, Zenon
  <1>3. CalledPart' /\ DumpPart' /\ UnassemblePart' /\ GoPart'
    BY <1>2, Zenon DEF CalledPart, DumpPart, UnassemblePart, GoPart
  <1>4. AsAsked
    BY Zenon DEF AsAsked
  <1> QED
    BY <1>1, <1>3, <1>4 DEF AskedInv

LEMMA AtCalled ==
    ASSUME MonitorInv, AskedInv, pc \in HandlerNames \ {"registersFn"}
    PROVE  /\ outcome = pc /\ stack = Base /\ pc # "loop"
           /\ settings = called /\ shown = <<>> /\ Settled(called)
           /\ called[1] = memoryAddress /\ called[2] = linesPerPage
           /\ called[3] = radix /\ called[4] = unassembleAddress
  <1>1. outcome = pc /\ stack = Base
    BY AtHandler
  <1>2. pc # "loop"
    BY PlacesApart, Zenon
  <1>3. settings = called /\ shown = <<>> /\ Settled(called)
    BY <1>1 DEF AskedInv, AskedPart, CalledPart
  <1> QED
    BY <1>1, <1>2, <1>3 DEF settings

\* An argument, as the handler reads it and as it says.
LEMMA AskedFor ==
    ASSUME MonitorInv, NEW n \in 1..argc
    PROVE  /\ Arg(n).status \in Statuses /\ Arg(n).value \in Word
           /\ Arg(n).status = "ok" => IsHex(args[n]) /\ Arg(n).value = HexValue(args[n])
           /\ Arg(n).status = "error" => ~IsHex(args[n])
  <1>1. args \in Seq(Seq(Letter)) /\ Len(args) = argc /\ argc \in Nat
    BY PartsAre DEF ArgPart
  <1> DEFINE w == args[n]
  <1>2. w \in Seq(Letter)
    BY <1>1
  <1> HIDE DEF w
  <1>3. w \in Seq(Int)
    <2>1. \A c \in Letter : c \in Int
      BY DEF Letter, SPACE, DEL
    <2>2. \A i \in 1..Len(w) : w[i] \in Int
      BY <1>2, <2>1
    <2> QED
      BY <1>2, <2>2
  <1>4. /\ strToHex(w).status = "ok" => IsHex(w) /\ strToHex(w).value = HexValue(w)
        /\ strToHex(w).status = "error" => ~IsHex(w)
    BY <1>3, HexIsRead
  <1>5. strToHex(w).status \in Statuses /\ strToHex(w).value \in Word
    BY <1>3, StrToHexIs, ReadHas
  <1> QED
    BY <1>4, <1>5 DEF Arg, w

LEMMA NotUnderstood ==
    ASSUME NEW n, RtsAfter(n), stack = Base, n.status \in Statuses, n.status # "ok"
    PROVE  /\ pc' \in {"loop", "lost"}
           /\ pc' = "loop" => n.status = "error"
  <1>1. CASE n.status = "lost"
    <2>1. Rts(Append(Base, Left("B")))
      BY <1>1 DEF RtsAfter
    <2>2. pc' = "lost"
      BY <2>1, StacksAre, EntriesAre, Misses
    <2> QED
      BY <2>2
  <1>2. CASE n.status # "lost"
    <2>1. Rts(Base)
      BY <1>2 DEF RtsAfter
    <2>2. pc' = "loop"
      BY <2>1, ReturnsToLoop
    <2> QED
      BY <1>2, <2>2 DEF Statuses
  <1> QED
    BY <1>1, <1>2

LEMMA RadixAsked ==
    ASSUME MonitorInv, AskedInv, SetRadix PROVE AskedInv' /\ AsAsked
  <1>1. pc \in DOMAIN radixOf /\ pc \in {"binaryFn", "decimalFn", "hexadecimalFn"}
    BY DEF SetRadix, radixOf
  <1>2. pc \in HandlerNames \ {"registersFn"}
    BY <1>1, Zenon DEF HandlerNames
  <1>3. /\ outcome = pc /\ stack = Base /\ pc # "loop" /\ settings = called /\ Settled(called)
        /\ called[1] = memoryAddress /\ called[2] = linesPerPage
        /\ called[3] = radix /\ called[4] = unassembleAddress
    BY <1>2, AtCalled
  <1>4. /\ radix' = radixOf[pc] /\ Rts(stack) /\ Handling
        /\ memoryAddress' = memoryAddress /\ linesPerPage' = linesPerPage
        /\ unassembleAddress' = unassembleAddress
    BY DEF SetRadix
  <1>5. settings' = [called EXCEPT ![3] = radixOf[outcome]]
    <2>1. [called EXCEPT ![3] = radixOf[outcome]] = <<called[1], called[2], radixOf[outcome], called[4]>>
      BY <1>3, ChangedIs
    <2> QED
      BY <1>3, <1>4, <2>1 DEF settings
  <1>6. Done(called, settings')
    BY <1>1, <1>3, <1>5, RadixDone
  <1>7. pc' = "loop"
    BY <1>3, <1>4, ReturnsToLoop
  <1> QED
    BY <1>3, <1>4, <1>6, <1>7, CommandOver

LEMMA PrintsAsked ==
    ASSUME MonitorInv, AskedInv, Prints \/ DiskOrLoad PROVE AskedInv' /\ AsAsked
  <1>1. pc \in {"bootFn", "helpFn", "radixFn", "diskFn", "loadFn"}
    BY Zenon DEF Prints, DiskOrLoad
  <1>2. pc \in HandlerNames \ {"registersFn"}
    BY <1>1, Zenon DEF HandlerNames
  <1>3. outcome = pc /\ stack = Base /\ pc # "loop" /\ settings = called
    BY <1>2, AtCalled
  <1>4. Rts(stack) /\ (Handling \/ MayRead) /\ settings' = settings
    BY DEF Prints, DiskOrLoad, MayRead, SettingsKept
  <1>5. Done(called, called)
    <2>1. outcome \notin {"windowFn", "dumpFn", "unassembleFn", "goFn"} \cup DOMAIN radixOf
      BY <1>1, <1>3 DEF radixOf
    <2> QED
      BY <2>1, OtherDone
  <1>6. pc' = "loop"
    BY <1>3, <1>4, ReturnsToLoop
  <1> QED
    BY <1>3, <1>4, <1>5, <1>6, CommandOver

LEMMA CpuAsked ==
    ASSUME MonitorInv, AskedInv, cpuFn PROVE AskedInv' /\ AsAsked
  <1>1. pc \in HandlerNames \ {"registersFn"} /\ Handling
    BY Zenon DEF cpuFn, HandlerNames
  <1>2. stack = Base /\ pc # "loop"
    BY <1>1, AtCalled
  <1>3. pc' = "lost"
    <2>1. Rts(Base \o <<Left("B"), Left("A")>>)
      BY <1>2 DEF cpuFn
    <2>2. Base \o <<Left("B"), Left("A")>> = Append(Append(Base, Left("B")), Left("A"))
      BY DEF Base
    <2>3. Append(Base, Left("B")) \in Seq(Entries)
      BY StacksAre, EntriesAre, PushIs
    <2> QED
      BY <2>1, <2>2, <2>3, EntriesAre, Misses
  <1> QED
    BY <1>1, <1>2, <1>3, CommandOver

LEMMA WindowAsked ==
    ASSUME MonitorInv, AskedInv, windowFn PROVE AskedInv' /\ AsAsked
  <1>1. pc \in HandlerNames \ {"registersFn"} /\ pc = "windowFn"
    BY Zenon DEF windowFn, HandlerNames
  <1>2. /\ outcome = "windowFn" /\ stack = Base /\ pc # "loop" /\ settings = called
        /\ Settled(called) /\ called[1] = memoryAddress /\ called[2] = linesPerPage
        /\ called[3] = radix /\ called[4] = unassembleAddress
    BY <1>1, AtCalled
  <1>3. argc <= 2 /\ argc \in Nat
    BY <1>2, PartsAre DEF AskedInv, AskedPart, ArgPart
  <1>4. /\ Handling /\ memoryAddress' = memoryAddress /\ radix' = radix
        /\ unassembleAddress' = unassembleAddress
    BY DEF windowFn
  <1>5. linesPerPage' = linesPerPage => settings' = called
    BY <1>2, <1>4 DEF settings
  <1> DEFINE good == argc >= 2 /\ IsHex(args[2]) /\ HexValue(args[2]) < 256
             set == [called EXCEPT ![2] = HexValue(args[2])]
             v == HexValue(args[2])
  <1>6. CASE argc # 2 /\ linesPerPage' = linesPerPage /\ Rts(stack)
    <2>1. pc' = "loop"
      BY <1>2, <1>6, ReturnsToLoop
    <2>2. settings' = IF good THEN set ELSE called
      BY <1>3, <1>5, <1>6
    <2>3. Done(called, settings')
      BY <1>2, <2>2, WindowDone
    <2> QED
      BY <1>2, <1>4, <2>1, <2>3, CommandOver
  <1>7. CASE argc = 2 /\ FitsByte(Arg(2)) /\ linesPerPage' = Arg(2).value % 256 /\ Rts(stack)
    <2>1. pc' = "loop"
      BY <1>2, <1>7, ReturnsToLoop
    <2>2. 2 \in 1..argc
      BY <1>7
    <2>3. /\ Arg(2).status = "ok" /\ Arg(2).value < 256 /\ Arg(2).value \in Word
          /\ IsHex(args[2]) /\ Arg(2).value = v
      BY <1>7, <2>2, AskedFor DEF FitsByte
    <2>4. linesPerPage' = v
      <3> DEFINE x == Arg(2).value
      <3>1. x < 256 /\ x \in Nat /\ x = v /\ linesPerPage' = x % 256
        BY <1>7, <2>3 DEF Word
      <3> HIDE DEF x, v
      <3> QED
        BY <3>1
    <2>5. settings' = set
      <3>1. set = <<called[1], v, called[3], called[4]>>
        BY <1>2, ChangedIs
      <3> QED
        BY <1>2, <1>4, <2>4, <3>1 DEF settings
    <2>6. good
      BY <1>7, <2>3
    <2>7. settings' = IF good THEN set ELSE called
      BY <2>5, <2>6
    <2>8. Done(called, settings')
      BY <1>2, <2>7, WindowDone
    <2> QED
      BY <1>2, <1>4, <2>1, <2>8, CommandOver
  <1>8. CASE argc = 2 /\ ~FitsByte(Arg(2)) /\ linesPerPage' = linesPerPage /\ RtsAfter(Arg(2))
    <2>1. 2 \in 1..argc
      BY <1>8
    <2>2. /\ Arg(2).status \in Statuses
          /\ Arg(2).status = "ok" => IsHex(args[2]) /\ Arg(2).value = v
          /\ Arg(2).status = "error" => ~IsHex(args[2])
      BY <2>1, AskedFor
    <2>3. pc' \in {"loop", "lost"} /\ (pc' = "loop" => Arg(2).status # "lost")
      <3>1. CASE Arg(2).status = "ok"
        <4>1. Rts(Base)
          BY <1>2, <1>8, <3>1 DEF RtsAfter
        <4> QED
          BY <3>1, <4>1, ReturnsToLoop
      <3>2. CASE Arg(2).status # "ok"
        BY <1>2, <1>8, <2>2, <3>2, NotUnderstood
      <3> QED
        BY <3>1, <3>2
    <2>4. pc' = "loop" => ~good
      <3>1. Arg(2).status = "ok" => ~(v < 256)
        BY <1>8, <2>2 DEF FitsByte
      <3>2. Arg(2).status \in {"ok", "error", "lost"}
        BY <2>2 DEF Statuses
      <3> QED
        BY <2>2, <2>3, <3>1, <3>2
    <2>5. pc' = "loop" => settings' = IF good THEN set ELSE called
      BY <1>5, <1>8, <2>4
    <2>6. pc' = "loop" => Done(called, settings')
      BY <1>2, <2>5, WindowDone
    <2> QED
      BY <1>2, <1>4, <2>3, <2>6, CommandOver
  <1> QED
    BY <1>6, <1>7, <1>8, Zenon DEF windowFn

(***************************************************************************)
(* go, the program, and the report of an error.                            *)
(***************************************************************************)
LEMMA GoesOn ==
    ASSUME MonitorInv', AskedInv, outcome = "goFn", pc \notin {"goFn", "loop", "lost"},
           Handling \/ MayRead, SettingsKept, pc' # "goFn"
    PROVE  AskedInv' /\ AsAsked
  <1>1. outcome' = outcome /\ argc' = argc /\ args' = args /\ called' = called
    BY HandlingLeaves
  <1>2. AskedPart'
    BY AskedKeeps DEF AskedInv
  <1>3. CommandPart'
    BY DEF MonitorInv
  <1>4. /\ ~(pc' \in HandlerNames /\ outcome' = pc') /\ pc' # "ddProceed" /\ pc' # "duNext"
    BY <1>1, <1>3 DEF CommandPart
  <1>5. CalledPart' /\ DumpPart' /\ UnassemblePart'
    BY <1>4, Zenon DEF CalledPart, DumpPart, UnassemblePart
  <1>6. settings = IF argc >= 2 /\ IsHex(args[2])
                   THEN <<HexValue(args[2]), called[2], called[3], called[4]>> ELSE called
    BY DEF AskedInv, GoPart
  <1>7. settings' = settings
    BY DEF SettingsKept
  <1>8. GoPart'
    BY <1>1, <1>6, <1>7 DEF GoPart
  <1>9. Done(called, settings')
    <2>1. Settled(called)
      BY DEF AskedInv, AskedPart
    <2>2. [called EXCEPT ![1] = HexValue(args[2])]
            = <<HexValue(args[2]), called[2], called[3], called[4]>>
      BY <2>1, ChangedIs
    <2>3. settings' = IF argc >= 2 /\ IsHex(args[2])
                      THEN [called EXCEPT ![1] = HexValue(args[2])] ELSE called
      BY <1>6, <1>7, <2>2, Zenon
    <2> QED
      BY <2>3, GoDone
  <1>10. AsAsked
    BY <1>9 DEF AsAsked
  <1> QED
    BY <1>2, <1>5, <1>8, <1>10 DEF AskedInv

LEMMA GoAsked ==
    ASSUME MonitorInv, MonitorInv', AskedInv, goFn PROVE AskedInv' /\ AsAsked
  <1>1. pc \in HandlerNames \ {"registersFn"} /\ pc = "goFn"
    BY Zenon DEF goFn, HandlerNames
  <1>2. /\ outcome = "goFn" /\ stack = Base /\ pc # "loop" /\ settings = called
        /\ Settled(called) /\ called[1] = memoryAddress /\ called[2] = linesPerPage
        /\ called[3] = radix /\ called[4] = unassembleAddress
    BY <1>1, AtCalled
  <1>3. argc <= 2 /\ argc \in Nat
    BY <1>2, PartsAre DEF AskedInv, AskedPart, ArgPart
  <1>4. /\ Handling /\ linesPerPage' = linesPerPage /\ radix' = radix
        /\ unassembleAddress' = unassembleAddress
    BY DEF goFn
  <1>5. outcome' = outcome /\ argc' = argc /\ args' = args /\ called' = called
    BY <1>4, HandlingLeaves
  <1>6. CASE /\ argc = 2 => Arg(2).status = "ok"
             /\ memoryAddress' = IF argc = 2 THEN Arg(2).value ELSE memoryAddress
             /\ pc' = PlaceAt(memoryAddress')
    <2>1. pc' \in {"program", "handle_reset", "lost"}
      BY <1>6, Zenon DEF PlaceAt
    <2>2. pc' \notin HandlerNames /\ pc' # "ddProceed" /\ pc' # "duNext" /\ pc' # "loop"
      BY <2>1, PlacesApart, Zenon
    <2>3. settings' = IF argc >= 2 /\ IsHex(args[2])
                      THEN <<HexValue(args[2]), called[2], called[3], called[4]>> ELSE called
      <3>1. CASE argc = 2
        <4>1. 2 \in 1..argc /\ argc >= 2
          BY <3>1
        <4>2. IsHex(args[2]) /\ Arg(2).value = HexValue(args[2])
          BY <1>6, <3>1, <4>1, AskedFor
        <4>3. memoryAddress' = HexValue(args[2])
          BY <1>6, <3>1, <4>2
        <4> QED
          BY <1>2, <1>4, <4>1, <4>2, <4>3 DEF settings
      <3>2. CASE argc # 2
        <4>1. ~(argc >= 2)
          BY <1>3, <3>2
        <4>2. memoryAddress' = memoryAddress
          BY <1>6, <3>2
        <4> QED
          BY <1>2, <1>4, <4>1, <4>2 DEF settings
      <3> QED
        BY <3>1, <3>2
    <2>4. AskedPart'
      BY <1>2, <1>4, AskedKeeps DEF AskedInv
    <2>5. CalledPart' /\ DumpPart' /\ UnassemblePart'
      BY <2>2, Zenon DEF CalledPart, DumpPart, UnassemblePart
    <2>6. GoPart'
      BY <1>5, <2>3, Zenon DEF GoPart
    <2>7. AsAsked
      BY <1>2, <2>2 DEF AsAsked
    <2> QED
      BY <2>4, <2>5, <2>6, <2>7 DEF AskedInv
  <1>7. CASE argc = 2 /\ Arg(2).status # "ok" /\ memoryAddress' = memoryAddress
             /\ RtsAfter(Arg(2))
    <2>1. 2 \in 1..argc
      BY <1>7
    <2>2. Arg(2).status \in Statuses /\ (Arg(2).status = "error" => ~IsHex(args[2]))
      BY <2>1, AskedFor
    <2>3. pc' \in {"loop", "lost"} /\ (pc' = "loop" => ~IsHex(args[2]))
      BY <1>2, <1>7, <2>2, NotUnderstood
    <2>4. settings' = called
      BY <1>2, <1>4, <1>7 DEF settings
    <2>5. pc' = "loop" =>
            settings' = IF argc >= 2 /\ IsHex(args[2])
                        THEN [called EXCEPT ![1] = HexValue(args[2])] ELSE called
      BY <2>3, <2>4
    <2>6. pc' = "loop" => Done(called, settings')
      BY <1>2, <2>5, GoDone
    <2> QED
      BY <1>2, <1>4, <2>3, <2>6, CommandOver
  <1> QED
    BY <1>6, <1>7, Zenon DEF goFn

LEMMA RunsOn ==
    ASSUME MonitorInv, MonitorInv', AskedInv, pc \in Running, Handling \/ MayRead,
           SettingsKept, pc' # "goFn"
    PROVE  AskedInv' /\ AsAsked
  <1>1. outcome = "goFn"
    BY PartsAre DEF CommandPart
  <1>2. pc \notin {"goFn", "loop", "lost"}
    BY PlacesApart, Zenon DEF HandlerNames
  <1> QED
    BY <1>1, <1>2, GoesOn

LEMMA ProgramAsked ==
    ASSUME MonitorInv, MonitorInv', AskedInv,
           ProgramPushes \/ ProgramReturns \/ (\E fn \in Nat, r \in Registers : Swi(fn, r))
           \/ dgDone
    PROVE  AskedInv' /\ AsAsked
  <1>1. "program" \in Running /\ "dgDone" \in Running
    BY Zenon DEF Running
  <1>2. CASE ProgramPushes
    <2>1. pc = "program" /\ pc' = pc /\ Handling /\ SettingsKept
      BY <1>2 DEF ProgramPushes
    <2> QED
      BY <1>1, <2>1, RunsOn
  <1>3. CASE ProgramReturns
    <2>1. pc = "program" /\ pushes = 0 /\ Rts(stack) /\ Handling /\ SettingsKept
      BY <1>3 DEF ProgramReturns
    <2>2. stack = Beneath(pushes)
      BY <2>1, AtProgram
    <2>3. pc' = "dgDone"
      <3>1. Rts(Append(Base, Return("dgDone")))
        BY <2>1, <2>2 DEF Beneath
      <3> QED
        BY <3>1, StacksAre, EntriesAre, Finds
    <2> QED
      BY <1>1, <2>1, <2>3, RunsOn
  <1>4. CASE \E fn \in Nat, r \in Registers : Swi(fn, r)
    <2>1. PICK fn \in Nat, r \in Registers : Swi(fn, r)
      BY <1>4
    <2>2. pc = "program" /\ pc' = "handle_swi" /\ Handling /\ SettingsKept
      BY <2>1 DEF Swi
    <2> QED
      BY <1>1, <2>2, RunsOn
  <1>5. CASE dgDone
    <2>1. pc = "dgDone" /\ Rts(stack) /\ Handling /\ SettingsKept
      BY <1>5 DEF dgDone
    <2>2. stack = Base
      BY <2>1, PartsAre DEF StackPart
    <2>3. pc' = "loop"
      BY <2>1, <2>2, ReturnsToLoop
    <2> QED
      BY <1>1, <2>1, <2>3, RunsOn
  <1> QED
    BY <1>2, <1>3, <1>4, <1>5

LEMMA CallAsked ==
    ASSUME MonitorInv, MonitorInv', AskedInv,
           handle_swi \/ sysGetChar \/ sysPut \/ sysTerminate \/ rti
    PROVE  AskedInv' /\ AsAsked
  <1>1. /\ (Handling \/ MayRead) /\ SettingsKept
        /\ pc \in {"handle_swi", "sysGetChar", "sysTerminate", "rti"} \cup Puts
    <2>1. {SWITable[n] : n \in 2..8} = Puts
      BY CallsAre
    <2> QED
      BY <2>1, Zenon DEF handle_swi, sysGetChar, sysPut, sysTerminate, rti, MayRead
  <1>2. pc \in Running
    BY <1>1, Zenon DEF Running, Calls
  <1>3. pc' # "goFn"
    <2>1. CASE sysGetChar \/ sysPut \/ sysTerminate
      <3>1. pc' = "rti"
        BY <2>1 DEF sysGetChar, sysPut, sysTerminate
      <3> QED
        BY <3>1
    <2>2. CASE rti
      <3>1. pc' = CASE Frame.to = "next" -> "program"
                    [] Frame.to = "appTerminated" -> "appTerminated"
                    [] OTHER -> "lost"
        BY <2>2 DEF rti
      <3>2. Frame.to \in {"next", "appTerminated"}
        <4>1. pc = "rti"
          BY <2>2 DEF rti
        <4>2. Framed(Frame)
          BY <4>1, AtFrame
        <4> QED
          BY <4>1, <4>2, Zenon DEF Framed
      <3>3. pc' \in {"program", "appTerminated"}
        BY <3>1, <3>2
      <3> QED
        BY <3>3
    <2>3. CASE handle_swi
      <3>1. pc' = IF function < SWIMax THEN SWITable[function + 1] ELSE "rti"
        BY <2>3 DEF handle_swi
      <3>2. function \in Nat
        BY PartsAre DEF CountPart, Byte
      <3>3. pc' \in Calls \cup {"rti"}
        BY <3>1, <3>2, CallsAre
      <3> QED
        BY <3>3, Zenon DEF Calls, Puts
    <2> QED
      BY <2>1, <2>2, <2>3
  <1> QED
    BY <1>1, <1>2, <1>3, RunsOn

LEMMA EndAsked ==
    ASSUME MonitorInv, MonitorInv', AskedInv, terminatedOK \/ terminatedWithError
    PROVE  AskedInv' /\ AsAsked
  <1>1. /\ pc = "appTerminated" /\ pc' \in {"loop", "registersFn"}
        /\ Handling /\ SettingsKept
    BY Zenon DEF terminatedOK, terminatedWithError
  <1>2. pc \in Running /\ pc' # "goFn"
    BY <1>1, Zenon DEF Running
  <1> QED
    BY <1>1, <1>2, RunsOn

LEMMA RegistersAsked ==
    ASSUME MonitorInv, MonitorInv', AskedInv, registersFn PROVE AskedInv' /\ AsAsked
  <1>1. pc = "registersFn" /\ Rts(stack) /\ Handling /\ SettingsKept
    BY DEF registersFn
  <1>2. pc \in HandlerNames
    BY <1>1, Zenon DEF HandlerNames
  <1>3. pc' = "loop"
    <2>1. stack = Base
      BY <1>2, AtHandler, Zenon
    <2> QED
      BY <1>1, <2>1, ReturnsToLoop
  <1>4. outcome \in {"registersFn", "goFn"}
    BY <1>1, PartsAre DEF CommandPart
  <1>5. CASE outcome = "goFn"
    BY <1>1, <1>3, <1>5, GoesOn
  <1>6. CASE outcome = "registersFn"
    <2>1. settings = called
      BY <1>1, <1>2, <1>6 DEF AskedInv, CalledPart
    <2>2. settings' = called
      BY <1>1, <2>1 DEF SettingsKept
    <2>3. outcome \notin {"windowFn", "dumpFn", "unassembleFn", "goFn"} \cup DOMAIN radixOf
      BY <1>6 DEF radixOf
    <2>4. Done(called, settings')
      BY <2>2, <2>3, OtherDone
    <2>5. pc # "loop"
      BY <1>1
    <2> QED
      BY <1>1, <1>3, <2>4, <2>5, CommandOver
  <1> QED
    BY <1>4, <1>5, <1>6

(***************************************************************************)
(* dump: its lines, one for each round.                                    *)
(***************************************************************************)
LEMMA DownIs == ASSUME NEW b \in 1..256 PROVE Down(b % 256) = b - 1
  <1>1. CASE b = 256
    BY <1>1 DEF Down
  <1>2. CASE b # 256
    <2>1. b % 256 = b
      BY <1>2
    <2>2. (b + 255) % 256 = b - 1
      BY <1>2
    <2> QED
      BY <2>1, <2>2 DEF Down
  <1> QED
    BY <1>1, <1>2

LEMMA RoundDown ==
    ASSUME NEW p \in 1..256, NEW n \in Nat, n < p
    PROVE  /\ Down(RoundOf(p, n)) = RoundOf(p, n + 1)
           /\ Down(RoundOf(p, n)) = 0 <=> n + 1 = p
  <1>1. PICK b \in 1..256 : b = p - n
    OBVIOUS
  <1>2. Down((p - n) % 256) = b - 1
    BY <1>1, DownIs
  <1>3. p - (n + 1) = b - 1
    BY <1>1
  <1>4. (b - 1) % 256 = b - 1
    OBVIOUS
  <1> QED
    BY <1>1, <1>2, <1>3, <1>4 DEF RoundOf

LEMMA PageOfIs ==
    ASSUME NEW p \in Byte
    PROVE  PageOf(p) \in 1..256 /\ RoundOf(PageOf(p), 0) = p
  <1>1. p \in Nat /\ p <= 255
    BY DEF Byte
  <1>2. CASE p = 0
    BY <1>2 DEF PageOf, RoundOf
  <1>3. CASE p # 0
    <2>1. PageOf(p) = p
      BY <1>3 DEF PageOf
    <2> QED
      BY <1>1, <1>3, <2>1 DEF RoundOf
  <1> QED
    BY <1>2, <1>3

\* The top of memory is left for the bottom.
LEMMA Sixteen ==
    ASSUME NEW f \in Nat, NEW n \in Nat
    PROVE  NextLine(After(f, n)) = After(f, n + 1)
  <1>1. PICK s \in Nat : s = f + 16 * n
    OBVIOUS
  <1>2. f + 16 * (n + 1) = s + 16
    BY <1>1
  <1>3. ((s % 65536) + 16) % 65536 = (s + 16) % 65536
    OBVIOUS
  <1> QED
    BY <1>1, <1>2, <1>3 DEF After, NextLine

LEMMA AddressesGrow ==
    ASSUME NEW f \in Nat, NEW n \in Nat
    PROVE  Append(Addresses(f, n), After(f, n)) = Addresses(f, n + 1)
  <1> DEFINE At(k) == (f + 16 * (k - 1)) % 65536
             a == Addresses(f, n)
             b == Addresses(f, n + 1)
  <1>1. \A k \in Nat : k # 0 => At(k) \in Nat
    OBVIOUS
  <1>2. At(n + 1) = After(f, n)
    BY DEF After
  <1>3. a = [k \in 1..n |-> At(k)] /\ b = [k \in 1..n + 1 |-> At(k)]
    BY DEF Addresses
  <1> HIDE DEF At, a, b
  <1>4. \A k \in 1..n + 1 : k \in Nat /\ k # 0
    OBVIOUS
  <1>5. /\ a \in Seq(Nat) /\ Len(a) = n /\ \A k \in 1..n : a[k] = At(k)
        /\ b \in Seq(Nat) /\ Len(b) = n + 1 /\ \A k \in 1..n + 1 : b[k] = At(k)
    BY <1>1, <1>3, <1>4
  <1> DEFINE c == Append(a, At(n + 1))
  <1>6. At(n + 1) \in Nat
    BY <1>1, <1>4
  <1>7. c \in Seq(Nat) /\ Len(c) = n + 1 /\ \A k \in 1..n + 1 : c[k] = At(k)
    BY <1>5, <1>6
  <1> HIDE DEF c
  <1>8. c = b
    BY <1>5, <1>7, SeqEqual
  <1> QED
    BY <1>2, <1>8 DEF a, b, c

\* The number of lines and the address, as dump reads them and as they say.
LEMMA DumpArguments ==
    ASSUME MonitorInv, AskedInv, outcome = "dumpFn", called[1] = memoryAddress,
           called[2] = linesPerPage
    PROVE  /\ argc \in Nat
           /\ CountGiven <=> argc >= 3
           /\ AddressGiven <=> argc >= 2
           /\ CountGiven => /\ Arg(3).status \in Statuses
                            /\ FitsByte(Arg(3)) => IsHex(args[3]) /\ HexValue(args[3]) < 256
                            /\ Arg(3).status = "ok" => Arg(3).value = HexValue(args[3])
                            /\ Arg(3).status = "error" => ~IsHex(args[3])
           /\ AddressGiven => /\ Arg(2).status \in Statuses
                              /\ Arg(2).status = "ok" => IsHex(args[2])
                              /\ Arg(2).status = "error" => ~IsHex(args[2])
           /\ (CountGiven => FitsByte(Arg(3))) => Page = DumpPage /\ DumpPage \in Byte
           /\ (AddressGiven => Arg(2).status = "ok") =>
                 /\ DumpFrom = IF AddressGiven THEN Arg(2).value ELSE memoryAddress
                 /\ DumpFrom \in Word
  <1>1. argc \in Nat /\ argc <= 3 /\ memoryAddress \in Word /\ linesPerPage \in Byte
    BY PartsAre DEF AskedInv, AskedPart, ArgPart, SettingsPart
  <1>2. (CountGiven <=> argc >= 3) /\ (AddressGiven <=> argc >= 2)
    BY <1>1 DEF CountGiven, AddressGiven
  <1>3. ASSUME CountGiven
        PROVE  /\ Arg(3).status \in Statuses /\ Arg(3).value \in Word
               /\ Arg(3).status = "ok" => IsHex(args[3]) /\ Arg(3).value = HexValue(args[3])
               /\ Arg(3).status = "error" => ~IsHex(args[3])
    <2>1. 3 \in 1..argc
      BY <1>3 DEF CountGiven
    <2> QED
      BY <2>1, AskedFor
  <1>4. ASSUME AddressGiven
        PROVE  /\ Arg(2).status \in Statuses /\ Arg(2).value \in Word
               /\ Arg(2).status = "ok" => IsHex(args[2]) /\ Arg(2).value = HexValue(args[2])
               /\ Arg(2).status = "error" => ~IsHex(args[2])
    <2>1. 2 \in 1..argc
      BY <1>4 DEF AddressGiven
    <2> QED
      BY <2>1, AskedFor
  <1>5. CountGiven /\ FitsByte(Arg(3)) => IsHex(args[3]) /\ HexValue(args[3]) < 256
    BY <1>3 DEF FitsByte
  <1>6. ASSUME CountGiven => FitsByte(Arg(3)) PROVE Page = DumpPage /\ DumpPage \in Byte
    <2>1. CASE CountGiven
      <3> DEFINE v == HexValue(args[3])
      <3>1. Arg(3).value = v /\ v \in Word /\ v < 256
        BY <1>3, <1>6, <2>1 DEF FitsByte
      <3>2. v \in Nat /\ v <= 255 /\ v % 256 = v
        <4> HIDE DEF v
        <4> QED
          BY <3>1 DEF Word
      <3>3. Page = v % 256 /\ DumpPage = v
        BY <1>2, <2>1, <3>1 DEF Page, DumpPage
      <3> HIDE DEF v
      <3> QED
        BY <3>2, <3>3 DEF Byte
    <2>2. CASE ~CountGiven
      BY <1>1, <1>2, <2>2, Zenon DEF Page, DumpPage
    <2> QED
      BY <2>1, <2>2
  <1>7. ASSUME AddressGiven => Arg(2).status = "ok"
        PROVE  /\ DumpFrom = IF AddressGiven THEN Arg(2).value ELSE memoryAddress
               /\ DumpFrom \in Word
    BY <1>1, <1>2, <1>4, <1>7, Zenon DEF DumpFrom
  <1> QED
    BY <1>1, <1>2, <1>3, <1>4, <1>5, <1>6, <1>7

LEMMA NoAddressDone ==
    ASSUME outcome = "dumpFn", argc >= 3 => IsHex(args[3]) /\ HexValue(args[3]) < 256,
           argc >= 2, ~IsHex(args[2]), shown' = <<>>,
           NEW now, now = [called EXCEPT ![2] = DumpPage]
    PROVE  Done(called, now)
  <1> DEFINE page == IF argc >= 3 THEN HexValue(args[3]) ELSE called[2]
             from == IF argc >= 2 THEN HexValue(args[2]) ELSE called[1]
             bad == argc >= 2 /\ ~IsHex(args[2])
             set == now = [called EXCEPT ![2] = page] /\ shown' = <<>>
             dumped == /\ shown' = Addresses(from, PageOf(page))
                       /\ now = [called EXCEPT ![1] = (from + 16 * PageOf(page)) % 65536,
                                               ![2] = page]
  <1>1. bad /\ set
    BY DEF DumpPage
  <1>2. (IF bad THEN set ELSE dumped) => Done(called, now)
    BY DEF Done, radixOf
  <1> HIDE DEF bad, set, dumped
  <1> QED
    BY <1>1, <1>2

LEMMA AllDumpedDone ==
    ASSUME outcome = "dumpFn", argc >= 3 => IsHex(args[3]) /\ HexValue(args[3]) < 256,
           argc >= 2 => IsHex(args[2]),
           shown' = Addresses(DumpFrom, PageOf(DumpPage)),
           NEW now,
           now = [called EXCEPT ![1] = After(DumpFrom, PageOf(DumpPage)), ![2] = DumpPage]
    PROVE  Done(called, now)
  <1> DEFINE page == IF argc >= 3 THEN HexValue(args[3]) ELSE called[2]
             from == IF argc >= 2 THEN HexValue(args[2]) ELSE called[1]
             bad == argc >= 2 /\ ~IsHex(args[2])
             set == now = [called EXCEPT ![2] = page] /\ shown' = <<>>
             dumped == /\ shown' = Addresses(from, PageOf(page))
                       /\ now = [called EXCEPT ![1] = After(from, PageOf(page)),
                                               ![2] = page]
  <1>1. page = DumpPage /\ from = DumpFrom /\ ~bad
    BY DEF DumpPage, DumpFrom
  <1>2. (IF bad THEN set ELSE dumped) => Done(called, now)
    BY DEF Done, radixOf, After
  <1> HIDE DEF page, from, bad
  <1>3. dumped
    BY <1>1
  <1> HIDE DEF set, dumped
  <1> QED
    BY <1>1, <1>2, <1>3

LEMMA DumpAsked ==
    ASSUME MonitorInv, AskedInv, dumpFn PROVE AskedInv' /\ AsAsked
  <1>1. pc \in HandlerNames \ {"registersFn"} /\ pc = "dumpFn"
    BY Zenon DEF dumpFn, HandlerNames
  <1>2. /\ outcome = "dumpFn" /\ stack = Base /\ pc # "loop" /\ settings = called
        /\ shown = <<>> /\ Settled(called)
        /\ called[1] = memoryAddress /\ called[2] = linesPerPage
        /\ called[3] = radix /\ called[4] = unassembleAddress
    BY <1>1, AtCalled
  <1>3. /\ Handling /\ radix' = radix /\ unassembleAddress' = unassembleAddress
        /\ shown' = <<>>
    BY <1>2 DEF dumpFn
  <1>4. outcome' = outcome /\ argc' = argc /\ args' = args /\ called' = called
    BY <1>3, HandlingLeaves
  <1>5. /\ CountGiven <=> argc >= 3
        /\ AddressGiven <=> argc >= 2
        /\ CountGiven => /\ Arg(3).status \in Statuses
                         /\ FitsByte(Arg(3)) => IsHex(args[3]) /\ HexValue(args[3]) < 256
                         /\ Arg(3).status = "ok" => Arg(3).value = HexValue(args[3])
                         /\ Arg(3).status = "error" => ~IsHex(args[3])
        /\ AddressGiven => /\ Arg(2).status \in Statuses
                           /\ Arg(2).status = "ok" => IsHex(args[2])
                           /\ Arg(2).status = "error" => ~IsHex(args[2])
        /\ (CountGiven => FitsByte(Arg(3))) => Page = DumpPage /\ DumpPage \in Byte
        /\ (AddressGiven => Arg(2).status = "ok") =>
              /\ DumpFrom = IF AddressGiven THEN Arg(2).value ELSE memoryAddress
              /\ DumpFrom \in Word
    BY <1>2, DumpArguments
  <1>6. CASE ddBadCount
    <2>1. /\ CountGiven /\ ~FitsByte(Arg(3)) /\ RtsAfter(Arg(3))
          /\ memoryAddress' = memoryAddress /\ linesPerPage' = linesPerPage
      BY <1>6 DEF ddBadCount
    <2>2. settings' = called
      BY <1>2, <1>3, <2>1 DEF settings
    <2>3. /\ pc' \in {"loop", "lost"}
          /\ pc' = "loop" => ~(IsHex(args[3]) /\ HexValue(args[3]) < 256)
      <3>1. CASE Arg(3).status = "ok"
        <4>1. Rts(Base)
          BY <1>2, <2>1, <3>1 DEF RtsAfter
        <4>2. ~(HexValue(args[3]) < 256)
          BY <1>5, <2>1, <3>1 DEF FitsByte
        <4> QED
          BY <4>1, <4>2, ReturnsToLoop
      <3>2. CASE Arg(3).status # "ok"
        BY <1>2, <1>5, <2>1, <3>2, NotUnderstood
      <3> QED
        BY <3>1, <3>2
    <2>4. pc' = "loop" => Done(called, settings')
      BY <1>2, <1>3, <1>5, <2>1, <2>2, <2>3, BadCountDone
    <2> QED
      BY <1>2, <1>3, <2>3, <2>4, CommandOver
  <1>7. CASE ddBadAddress
    <2>1. /\ CountGiven => FitsByte(Arg(3))
          /\ AddressGiven /\ Arg(2).status # "ok" /\ RtsAfter(Arg(2))
          /\ memoryAddress' = memoryAddress /\ linesPerPage' = Page
      BY <1>7 DEF ddBadAddress
    <2>2. pc' \in {"loop", "lost"} /\ (pc' = "loop" => ~IsHex(args[2]))
      BY <1>2, <1>5, <2>1, NotUnderstood
    <2>3. Page = DumpPage /\ (argc >= 3 => IsHex(args[3]) /\ HexValue(args[3]) < 256)
      BY <1>5, <2>1
    <2>4. settings' = [called EXCEPT ![2] = DumpPage]
      <3>1. [called EXCEPT ![2] = DumpPage] = <<called[1], DumpPage, called[3], called[4]>>
        BY <1>2, ChangedIs
      <3> QED
        BY <1>2, <1>3, <2>1, <2>3, <3>1 DEF settings
    <2>5. ASSUME pc' = "loop" PROVE Done(called, settings')
      <3>1. argc >= 2 /\ ~IsHex(args[2])
        BY <1>5, <2>1, <2>2, <2>5
      <3> QED
        BY <1>2, <1>3, <2>3, <2>4, <3>1, NoAddressDone
    <2> QED
      BY <1>2, <1>3, <2>2, <2>5, CommandOver
  <1>8. CASE ddGo
    <2>1. /\ CountGiven => FitsByte(Arg(3))
          /\ AddressGiven => Arg(2).status = "ok"
          /\ memoryAddress' = IF AddressGiven THEN Arg(2).value ELSE memoryAddress
          /\ linesPerPage' = Page /\ round' = Page /\ pc' = "ddProceed"
      BY <1>8, Zenon DEF ddGo
    <2>2. /\ Page = DumpPage /\ DumpPage \in Byte /\ memoryAddress' = DumpFrom
          /\ DumpFrom \in Word
          /\ argc >= 3 => IsHex(args[3]) /\ HexValue(args[3]) < 256
          /\ argc >= 2 => IsHex(args[2])
      BY <1>5, <2>1
    <2>3. DumpPage' = DumpPage /\ DumpFrom' = DumpFrom
      BY <1>4 DEF DumpPage, DumpFrom
    <2>4. Dumped(0)'
      <3>1. shown' = Addresses(DumpFrom, 0)
        <4>1. 1..0 = {}
          OBVIOUS
        <4>2. Addresses(DumpFrom, 0) = <<>>
          BY <4>1 DEF Addresses
        <4> QED
          BY <1>3, <4>2
      <3>2. After(DumpFrom, 0) = DumpFrom
        <4> DEFINE f == DumpFrom
        <4>1. f \in Nat /\ f <= 65535
          BY <2>2 DEF Word
        <4> HIDE DEF f
        <4>2. f + 16 * 0 = f /\ f % 65536 = f
          BY <4>1
        <4> QED
          BY <4>2 DEF f, After
      <3>3. settings' = <<DumpFrom, DumpPage, called[3], called[4]>>
        BY <1>2, <1>3, <2>1, <2>2 DEF settings
      <3>4. round' = RoundOf(PageOf(DumpPage), 0)
        BY <2>1, <2>2, PageOfIs
      <3> QED
        BY <1>4, <2>3, <3>1, <3>2, <3>3, <3>4 DEF Dumped
    <2>5. PageOf(DumpPage) \in 1..256 /\ 0 < PageOf(DumpPage)
      BY <2>2, PageOfIs
    <2>6. DumpPart'
      <3>1. 0 \in 0..255 /\ 0 < PageOf(DumpPage')
        BY <2>3, <2>5
      <3>2. /\ argc' >= 3 => IsHex(args'[3]) /\ HexValue(args'[3]) < 256
            /\ argc' >= 2 => IsHex(args'[2])
            /\ DumpPage' \in Byte /\ DumpFrom' \in Word
        BY <1>4, <2>2, <2>3
      <3> QED
        BY <2>4, <3>1, <3>2 DEF DumpPart
    <2>7. AskedPart'
      BY <1>2, <1>3, AskedKeeps DEF AskedInv
    <2>8. pc' \notin HandlerNames /\ pc' # "duNext" /\ pc' # "loop" /\ outcome' # "goFn"
      BY <1>2, <1>4, <2>1, PlacesApart, Zenon
    <2>9. CalledPart' /\ UnassemblePart' /\ GoPart' /\ AsAsked
      BY <1>2, <2>8, Zenon DEF CalledPart, UnassemblePart, GoPart, AsAsked
    <2> QED
      BY <2>6, <2>7, <2>9 DEF AskedInv
  <1> QED
    BY <1>6, <1>7, <1>8, Zenon DEF dumpFn

LEMMA ProceedAsked ==
    ASSUME MonitorInv, AskedInv, ddProceed PROVE AskedInv' /\ AsAsked
  <1>1. pc = "ddProceed" /\ pc # "loop" /\ outcome = "dumpFn" /\ stack = Base
    <2>1. pc = "ddProceed"
      BY DEF ddProceed
    <2>2. CommandPart
      BY PartsAre
    <2> QED
      BY <2>1, <2>2, AtHandler DEF CommandPart
  <1>2. /\ Handling /\ linesPerPage' = linesPerPage /\ radix' = radix
        /\ unassembleAddress' = unassembleAddress
        /\ shown' = Append(shown, memoryAddress)
        /\ memoryAddress' = NextLine(memoryAddress)
        /\ EndOfRounds("ddProceed")
    BY DEF ddProceed, NextLine
  <1>3. outcome' = outcome /\ argc' = argc /\ args' = args /\ called' = called
    BY <1>2, HandlingLeaves
  <1>4. /\ argc >= 3 => IsHex(args[3]) /\ HexValue(args[3]) < 256
        /\ argc >= 2 => IsHex(args[2])
        /\ DumpPage \in Byte /\ DumpFrom \in Word
        /\ \E n \in 0..255 : n < PageOf(DumpPage) /\ Dumped(n)
    BY <1>1 DEF AskedInv, DumpPart
  <1>5. PICK n \in 0..255 : n < PageOf(DumpPage) /\ Dumped(n)
    BY <1>4
  <1> DEFINE p == PageOf(DumpPage)
             f == DumpFrom
             page == DumpPage
             m == n + 1
  <1>6. p \in 1..256 /\ f \in Nat /\ n \in Nat /\ n < p
    BY <1>4, <1>5, PageOfIs DEF Word
  <1>7. /\ shown = Addresses(f, n) /\ memoryAddress = After(f, n) /\ linesPerPage = page
        /\ radix = called[3] /\ unassembleAddress = called[4] /\ round = RoundOf(p, n)
    BY <1>5 DEF Dumped, settings
  <1>8. PageOf(page) = p
    OBVIOUS
  <1> HIDE DEF p, f, page
  <1>9. /\ Append(Addresses(f, n), After(f, n)) = Addresses(f, m)
        /\ NextLine(After(f, n)) = After(f, m)
    BY <1>6, AddressesGrow, Sixteen
  <1>10. Down(RoundOf(p, n)) = RoundOf(p, m) /\ (Down(RoundOf(p, n)) = 0 <=> m = p)
    BY <1>6, RoundDown
  <1>15. m \in Nat /\ m <= p /\ p <= 256 /\ p \in Nat
    BY <1>6
  <1> HIDE DEF m
  <1>11. /\ shown' = Addresses(f, m) /\ memoryAddress' = After(f, m)
         /\ settings' = <<After(f, m), page, called[3], called[4]>>
    <2>1. shown' = Addresses(f, m)
      BY <1>2, <1>7, <1>9
    <2>2. memoryAddress' = After(f, m)
      BY <1>2, <1>7, <1>9
    <2> QED
      BY <1>2, <1>7, <2>1, <2>2 DEF settings
  <1>12. DumpPage' = page /\ DumpFrom' = f
    BY <1>3 DEF DumpPage, DumpFrom, page, f
  <1>13. CASE Down(RoundOf(p, n)) = 0
    <2>1. pc' = "loop"
      BY <1>1, <1>2, <1>7, <1>13, ReturnsToLoop DEF EndOfRounds
    <2>2. m = p
      BY <1>10, <1>13
    <2>3. Settled(called)
      BY DEF AskedInv, AskedPart
    <2>4. settings' = [called EXCEPT ![1] = After(f, p), ![2] = page]
      <3>1. [called EXCEPT ![1] = After(f, p), ![2] = page] = <<After(f, p), page, called[3], called[4]>>
        BY <2>3, ChangedIs, Zenon
      <3> QED
        BY <1>11, <2>2, <3>1
    <2>5. shown' = Addresses(f, p)
      BY <1>11, <2>2
    <2>6. Done(called, settings')
      BY <1>1, <1>4, <2>4, <2>5, AllDumpedDone, Zenon DEF f, page, p
    <2> QED
      BY <1>1, <1>2, <2>1, <2>6, CommandOver
  <1>14. CASE Down(RoundOf(p, n)) # 0
    <2>1. pc' = "ddProceed" /\ round' = RoundOf(p, m)
      BY <1>2, <1>7, <1>10, <1>14 DEF EndOfRounds
    <2>2. m < p /\ m \in 0..255
      <3>1. m # p
        BY <1>10, <1>14, Zenon
      <3> QED
        BY <1>15, <3>1
    <2>3. Dumped(m)'
      BY <1>3, <1>8, <1>11, <1>12, <2>1 DEF Dumped
    <2>4. DumpPart'
      <3>1. m < PageOf(DumpPage')
        BY <1>8, <1>12, <2>2
      <3>2. /\ argc' >= 3 => IsHex(args'[3]) /\ HexValue(args'[3]) < 256
            /\ argc' >= 2 => IsHex(args'[2])
            /\ DumpPage' \in Byte /\ DumpFrom' \in Word
        BY <1>3, <1>4, <1>12 DEF f, page
      <3> QED
        BY <2>2, <2>3, <3>1, <3>2 DEF DumpPart
    <2>5. AskedPart'
      BY <1>1, <1>2, AskedKeeps DEF AskedInv
    <2>6. pc' \notin HandlerNames /\ pc' # "duNext" /\ pc' # "loop" /\ outcome' # "goFn"
      BY <1>1, <1>3, <2>1, PlacesApart, Zenon
    <2>7. CalledPart' /\ UnassemblePart' /\ GoPart' /\ AsAsked
      BY <1>1, <2>6, Zenon DEF CalledPart, UnassemblePart, GoPart, AsAsked
    <2> QED
      BY <2>4, <2>5, <2>7 DEF AskedInv
  <1> QED
    BY <1>13, <1>14

(***************************************************************************)
(* unassemble: its instructions, one for each round.                       *)
(***************************************************************************)
LEMMA UnassembleAsked ==
    ASSUME MonitorInv, AskedInv, unassembleFn PROVE AskedInv' /\ AsAsked
  <1>1. pc \in HandlerNames \ {"registersFn"} /\ pc = "unassembleFn"
    BY Zenon DEF unassembleFn, HandlerNames
  <1>2. /\ outcome = "unassembleFn" /\ stack = Base /\ pc # "loop" /\ settings = called
        /\ shown = <<>> /\ Settled(called)
        /\ called[1] = memoryAddress /\ called[2] = linesPerPage
        /\ called[3] = radix /\ called[4] = unassembleAddress
    BY <1>1, AtCalled
  <1>3. argc <= 2 /\ argc \in Nat
    BY <1>2, PartsAre DEF AskedInv, AskedPart, ArgPart
  <1>4. /\ Handling /\ memoryAddress' = memoryAddress /\ linesPerPage' = linesPerPage
        /\ radix' = radix /\ shown' = <<>>
    BY <1>2 DEF unassembleFn
  <1>5. outcome' = outcome /\ argc' = argc /\ args' = args /\ called' = called
    BY <1>4, HandlingLeaves
  <1>6. argc = 2 => /\ Arg(2).status \in Statuses
                    /\ Arg(2).status = "ok" => IsHex(args[2]) /\ Arg(2).value = HexValue(args[2])
                    /\ Arg(2).status = "error" => ~IsHex(args[2])
    <2>1. argc = 2 => 2 \in 1..argc
      OBVIOUS
    <2> QED
      BY <2>1, AskedFor
  <1>7. CASE /\ argc = 2 => Arg(2).status = "ok"
             /\ unassembleAddress' = IF argc = 2 THEN Arg(2).value ELSE unassembleAddress
             /\ y' = unassembleAddress' /\ round' = linesPerPage /\ pc' = "duNext"
    <2>1. argc = 2 <=> argc >= 2
      BY <1>3
    <2>2. FirstShown' = FirstShown
      BY <1>5 DEF FirstShown
    <2>3. (argc >= 2 => IsHex(args[2])) /\ y' = FirstShown
      BY <1>2, <1>6, <1>7, <2>1 DEF FirstShown
    <2>4. linesPerPage \in Byte
      BY PartsAre DEF SettingsPart
    <2>5. /\ 0 < PageOf(called[2])
          /\ round' = RoundOf(PageOf(called[2]), 0)
      <3> DEFINE q == PageOf(called[2])
      <3>1. q \in 1..256 /\ RoundOf(q, 0) = called[2]
        BY <1>2, <2>4, PageOfIs
      <3> HIDE DEF q
      <3>2. 0 < q /\ round' = RoundOf(q, 0)
        BY <1>2, <1>7, <3>1
      <3> QED
        BY <3>2 DEF q
    <2>6. UnassemblePart'
      <3> DEFINE none == <<>>
      <3>1. none \in Seq(Word) /\ Len(none) = 0 /\ OneBehindTheOther(none)'
        BY DEF OneBehindTheOther
      <3>2. shown' = none
        BY <1>4
      <3>3. y' = IF shown' = <<>> THEN FirstShown' ELSE Behind(Last(shown'))
        BY <1>4, <2>2, <2>3
      <3>4. Len(shown') = 0 /\ OneBehindTheOther(shown)' /\ shown' \in Seq(Word)
        BY <3>1, <3>2 DEF OneBehindTheOther
      <3> HIDE DEF none
      <3>5. memoryAddress' = called'[1] /\ linesPerPage' = called'[2] /\ radix' = called'[3]
        BY <1>2, <1>4, <1>5
      <3>6. argc' >= 2 => IsHex(args'[2])
        BY <1>5, <2>3
      <3>7. /\ Len(shown') < PageOf(called'[2])
            /\ round' = RoundOf(PageOf(called'[2]), Len(shown'))
        BY <1>5, <2>5, <3>4
      <3> QED
        BY <3>3, <3>4, <3>5, <3>6, <3>7 DEF UnassemblePart
    <2>7. AskedPart'
      BY <1>2, <1>4, AskedKeeps DEF AskedInv
    <2>8. pc' \notin HandlerNames /\ pc' # "ddProceed" /\ pc' # "loop" /\ outcome' # "goFn"
      BY <1>2, <1>5, <1>7, PlacesApart, Zenon
    <2>9. CalledPart' /\ DumpPart' /\ GoPart' /\ AsAsked
      BY <1>2, <2>8, Zenon DEF CalledPart, DumpPart, GoPart, AsAsked
    <2> QED
      BY <2>6, <2>7, <2>9 DEF AskedInv
  <1>8. CASE /\ argc = 2 /\ Arg(2).status # "ok"
             /\ unassembleAddress' = unassembleAddress /\ RtsAfter(Arg(2))
    <2>1. pc' \in {"loop", "lost"} /\ (pc' = "loop" => ~IsHex(args[2]))
      BY <1>2, <1>6, <1>8, NotUnderstood
    <2>2. settings' = called
      BY <1>2, <1>4, <1>8 DEF settings
    <2>3. argc >= 2
      BY <1>8
    <2>4. pc' = "loop" => Done(called, settings')
      BY <1>2, <1>4, <2>1, <2>2, <2>3, UnassembleDone
    <2> QED
      BY <1>2, <1>4, <2>1, <2>4, CommandOver
  <1> QED
    BY <1>7, <1>8, Zenon DEF unassembleFn

\* An instruction more.
LEMMA OneMoreShown ==
    ASSUME NEW s \in Seq(Word), NEW z \in Word, OneBehindTheOther(s),
           z = IF s = <<>> THEN FirstShown ELSE Behind(Last(s))
    PROVE  /\ Append(s, z) \in Seq(Word) /\ Len(Append(s, z)) = Len(s) + 1
           /\ Append(s, z) # <<>> /\ Last(Append(s, z)) = z
           /\ OneBehindTheOther(Append(s, z)) /\ Append(s, z)[1] = FirstShown
  <1> DEFINE n == Len(s)
             t == Append(s, z)
  <1>1. /\ n \in Nat /\ t \in Seq(Word) /\ Len(t) = n + 1 /\ t[n + 1] = z
        /\ \A i \in 1..n : t[i] = s[i]
    OBVIOUS
  <1>2. t # <<>> /\ Last(t) = z
    BY PushIs
  <1>3. s = <<>> <=> n = 0
    BY EmptySeq
  <1>4. n # 0 => Last(s) = s[n]
    BY DEF Last
  <1> HIDE DEF n, t
  <1>5. t[1] = FirstShown
    <2>1. CASE n = 0
      BY <1>1, <1>3, <2>1
    <2>2. CASE n # 0
      <3>1. 1 \in 1..n
        BY <1>1, <2>2
      <3> QED
        BY <1>1, <1>3, <2>2, <3>1 DEF OneBehindTheOther
    <2> QED
      BY <2>1, <2>2
  <1>6. ASSUME NEW k \in 2..n + 1 PROVE t[k] = Behind(t[k - 1])
    <2>1. CASE k = n + 1
      <3>1. n # 0 /\ n \in 1..n /\ k - 1 = n
        BY <1>1, <2>1
      <3>2. t[k - 1] = s[n] /\ t[k] = z
        BY <1>1, <2>1, <3>1
      <3>3. z = Behind(s[n])
        BY <1>3, <1>4, <3>1
      <3> QED
        BY <3>2, <3>3
    <2>2. CASE k # n + 1
      <3>1. k \in 2..n /\ k \in 1..n /\ k - 1 \in 1..n
        BY <1>1, <2>2
      <3>2. s[k] = Behind(s[k - 1])
        BY <3>1 DEF OneBehindTheOther, n
      <3> QED
        BY <1>1, <3>1, <3>2
    <2> QED
      BY <2>1, <2>2
  <1>7. OneBehindTheOther(t)
    BY <1>1, <1>5, <1>6 DEF OneBehindTheOther
  <1> QED
    BY <1>1, <1>2, <1>5, <1>7 DEF n, t

LEMMA NextAsked ==
    ASSUME MonitorInv, MonitorInv', AskedInv, duNext PROVE AskedInv' /\ AsAsked
  <1>1. pc = "duNext" /\ pc # "loop" /\ outcome = "unassembleFn" /\ stack = Base
    <2>1. pc = "duNext"
      BY DEF duNext
    <2>2. CommandPart
      BY PartsAre
    <2> QED
      BY <2>1, <2>2, AtHandler DEF CommandPart
  <1>2. /\ Handling /\ memoryAddress' = memoryAddress /\ linesPerPage' = linesPerPage
        /\ radix' = radix /\ shown' = Append(shown, y) /\ y' = Behind(y)
        /\ EndOfRounds("duNext")
        /\ unassembleAddress' = IF pc' = "duNext" THEN unassembleAddress ELSE y'
    BY DEF duNext, Behind
  <1>3. outcome' = outcome /\ argc' = argc /\ args' = args /\ called' = called
    BY <1>2, HandlingLeaves
  <1> DEFINE p == PageOf(called[2])
             n == Len(shown)
             m == n + 1
  <1>4. /\ argc >= 2 => IsHex(args[2])
        /\ shown \in Seq(Word) /\ OneBehindTheOther(shown)
        /\ y = IF shown = <<>> THEN FirstShown ELSE Behind(Last(shown))
        /\ memoryAddress = called[1] /\ linesPerPage = called[2] /\ radix = called[3]
        /\ n < p /\ round = RoundOf(p, n)
    BY <1>1 DEF AskedInv, UnassemblePart
  <1>5. n \in Nat /\ y \in Word /\ linesPerPage \in Byte
    BY <1>4, PartsAre DEF CountPart, SettingsPart
  <1>6. p \in 1..256
    BY <1>4, <1>5, PageOfIs
  <1>7. /\ shown' \in Seq(Word) /\ Len(shown') = m /\ shown' # <<>> /\ Last(shown') = y
        /\ OneBehindTheOther(shown') /\ shown'[1] = FirstShown
    BY <1>2, <1>4, <1>5, OneMoreShown
  <1>8. Settled(called)
    BY DEF AskedInv, AskedPart
  <1> HIDE DEF p, n
  <1>9. Down(RoundOf(p, n)) = RoundOf(p, m) /\ (Down(RoundOf(p, n)) = 0 <=> m = p)
    BY <1>4, <1>5, <1>6, RoundDown
  <1>10. m \in Nat /\ m <= p /\ p \in Nat
    BY <1>4, <1>5, <1>6
  <1> HIDE DEF m
  <1>11. CASE Down(RoundOf(p, n)) = 0
    <2>1. pc' = "loop"
      BY <1>1, <1>2, <1>4, <1>11, ReturnsToLoop DEF EndOfRounds
    <2>2. m = p
      BY <1>9, <1>11
    <2>3. settings' = [called EXCEPT ![4] = Behind(Last(shown'))]
      <3>1. [called EXCEPT ![4] = Behind(Last(shown'))]
              = <<called[1], called[2], called[3], Behind(Last(shown'))>>
        BY <1>8, ChangedIs
      <3>2. unassembleAddress' = Behind(Last(shown'))
        BY <1>2, <1>7, <2>1
      <3> QED
        BY <1>2, <1>4, <3>1, <3>2 DEF settings
    <2>4. /\ Len(shown') = PageOf(called[2])
          /\ shown'[1] = IF argc >= 2 THEN HexValue(args[2]) ELSE called[4]
          /\ \A k \in 2..Len(shown') : shown'[k] = Behind(shown'[k - 1])
      BY <1>7, <2>2 DEF FirstShown, OneBehindTheOther, p
    <2>5. ~(argc >= 2 /\ ~IsHex(args[2]))
      BY <1>4
    <2>6. Done(called, settings')
      BY <1>1, <2>3, <2>4, <2>5, UnassembleDone, Zenon
    <2> QED
      BY <1>1, <1>2, <2>1, <2>6, CommandOver
  <1>12. CASE Down(RoundOf(p, n)) # 0
    <2>1. pc' = "duNext" /\ round' = RoundOf(p, m)
      BY <1>2, <1>4, <1>9, <1>12 DEF EndOfRounds
    <2>2. m < p
      <3>1. m # p
        BY <1>9, <1>12, Zenon
      <3> QED
        BY <1>10, <3>1
    <2>3. FirstShown' = FirstShown
      BY <1>3 DEF FirstShown
    <2>4. UnassemblePart'
      <3>1. OneBehindTheOther(shown)'
        BY <1>7, <2>3 DEF OneBehindTheOther
      <3>2. y' = IF shown' = <<>> THEN FirstShown' ELSE Behind(Last(shown'))
        BY <1>2, <1>7, Zenon
      <3>3. /\ memoryAddress' = called'[1] /\ linesPerPage' = called'[2] /\ radix' = called'[3]
            /\ argc' >= 2 => IsHex(args'[2])
        BY <1>2, <1>3, <1>4
      <3>4. /\ Len(shown') < PageOf(called'[2])
            /\ round' = RoundOf(PageOf(called'[2]), Len(shown'))
        BY <1>3, <1>7, <2>1, <2>2 DEF p
      <3> QED
        BY <1>7, <3>1, <3>2, <3>3, <3>4, Zenon DEF UnassemblePart
    <2>5. AskedPart'
      BY <1>1, <1>2, AskedKeeps DEF AskedInv
    <2>6. pc' \notin HandlerNames /\ pc' # "ddProceed" /\ pc' # "loop" /\ outcome' # "goFn"
      BY <1>1, <1>3, <2>1, PlacesApart, Zenon
    <2>7. CalledPart' /\ DumpPart' /\ GoPart' /\ AsAsked
      BY <1>1, <2>6, Zenon DEF CalledPart, DumpPart, GoPart, AsAsked
    <2> QED
      BY <2>4, <2>5, <2>7 DEF AskedInv
  <1> QED
    BY <1>11, <1>12

(***************************************************************************)
(* The loop, and the beginning.                                            *)
(***************************************************************************)
LEMMA SettingsSettle == ASSUME MonitorInv PROVE Settled(settings)
  <1>1. memoryAddress \in Word /\ linesPerPage \in Byte /\ unassembleAddress \in Word
    BY PartsAre DEF SettingsPart
  <1> DEFINE a == memoryAddress
             b == linesPerPage
             c == radix
             d == unassembleAddress
             s == <<a, b, c, d>>
  <1>2. s[1] = a /\ s[2] = b /\ s[3] = c /\ s[4] = d
    OBVIOUS
  <1>3. settings = s
    BY DEF settings
  <1> HIDE DEF s
  <1>4. Settled(s)
    BY <1>1, <1>2 DEF Settled, s
  <1> QED
    BY <1>3, <1>4

\* In the loop nothing is asked of a command.
LEMMA LoopAsks == ASSUME AskedPart, pc = "loop" PROVE AskedInv
  <1>1. pc \notin HandlerNames /\ pc # "ddProceed" /\ pc # "duNext"
    BY PlacesApart, Zenon
  <1> QED
    BY <1>1, Zenon DEF AskedInv, CalledPart, DumpPart, UnassemblePart, GoPart

LEMMA LoopAsked ==
    ASSUME MonitorInv, AskedInv, TypeLine \/ Edit PROVE AskedInv' /\ AsAsked
  <1>1. /\ pc = "loop" /\ pc' = "loop" /\ argc' = argc /\ called' = called
        /\ settings' = settings /\ (outcome' = outcome \/ outcome' = "blank")
    <2>1. CASE TypeLine
      BY <2>1 DEF TypeLine, argVars
    <2>2. CASE Edit
      <3>1. pc = "loop" /\ UNCHANGED monitor
        BY <2>2 DEF Edit
      <3>2. argc' = argc /\ (outcome' = outcome \/ outcome' = "blank")
        BY <2>2 DEF Edit, SwallowLF, rclPrintable, rclDelete, rclNonPrintable, rclEOL,
                    BlankLine, argVars
      <3> QED
        BY <3>1, <3>2 DEF monitor, settings
    <2> QED
      BY <2>1, <2>2
  <1>2. AskedPart'
    BY <1>1 DEF AskedInv, AskedPart, Settled
  <1>3. AskedInv'
    <2>1. (AskedPart /\ pc = "loop" => AskedInv)'
      BY LoopAsks, PTL
    <2> QED
      BY <1>1, <1>2, <2>1
  <1>4. AsAsked
    BY <1>1 DEF AsAsked
  <1> QED
    BY <1>3, <1>4

LEMMA DispatchAsked ==
    ASSUME MonitorInv, MonitorInv', AskedInv, Dispatch PROVE AskedInv' /\ AsAsked
  <1>1. /\ pc = "loop" /\ RunCommand /\ called' = settings' /\ shown' = <<>>
        /\ pc' = "loop" \/ pc' = outcome'
        /\ memoryAddress' = IF spill' # <<>> THEN Spilt(spill', 1) ELSE memoryAddress
        /\ linesPerPage' = IF Len(spill') > 1 THEN Spilt(spill', 2) \div 256 ELSE linesPerPage
        /\ radix' = radix /\ unassembleAddress' = unassembleAddress
    <2>1. pc' = "loop" \/ pc' = outcome'
      BY DEF Dispatch
    <2> QED
      BY <2>1, Zenon DEF Dispatch
  <1>2. /\ outcome' = "dumpFn" => argc' <= 3
        /\ outcome' \in {"windowFn", "goFn", "unassembleFn"} => argc' <= 2
        /\ outcome' # "blank"
    BY <1>1, ArgumentsAreTaken
  <1>3. Settled(called)'
    <2>1. Settled(settings)'
      <3>1. (MonitorInv => Settled(settings))'
        BY SettingsSettle, PTL
      <3> QED
        BY <3>1
    <2> QED
      BY <1>1, <2>1
  <1>4. AskedPart'
    BY <1>2, <1>3 DEF AskedPart
  <1>5. pc' # "ddProceed" /\ pc' # "duNext"
    <2>1. pc' = "loop" \/ pc' \in HandlerNames
      BY HandlersAre, Zenon DEF Dispatch
    <2> QED
      BY <2>1, PlacesApart, Zenon
  <1>6. CalledPart' /\ DumpPart' /\ UnassemblePart' /\ GoPart'
    BY <1>1, <1>5, Zenon DEF CalledPart, DumpPart, UnassemblePart, GoPart
  <1>7. ASSUME settings' # settings PROVE argc' > MaxArgs
    <2>1. spill' # <<>>
      <3> SUFFICES ASSUME spill' = <<>> PROVE FALSE
        OBVIOUS
      <3>1. ~(Len(spill') > 1)
        OBVIOUS
      <3>2. memoryAddress' = memoryAddress /\ linesPerPage' = linesPerPage
        BY <1>1, <3>1
      <3>3. settings' = settings
        BY <1>1, <3>2 DEF settings
      <3> QED
        BY <1>7, <3>3
    <2> QED
      BY <1>1, <2>1, SpiltOver
  <1>8. AsAsked
    BY <1>1, <1>7 DEF AsAsked
  <1> QED
    BY <1>4, <1>6, <1>8 DEF AskedInv

LEMMA RestartAsked ==
    ASSUME MonitorInv', AskedInv, Restart PROVE AskedInv' /\ AsAsked
  <1>1. pc' = "loop" /\ outcome' = "blank" /\ called' = settings'
    BY DEF Restart
  <1>2. Settled(called)'
    <2>1. (MonitorInv => Settled(settings))'
      BY SettingsSettle, PTL
    <2> QED
      BY <1>1, <2>1
  <1>3. AskedPart'
    BY <1>1, <1>2 DEF AskedPart
  <1>4. AskedInv'
    <2>1. (AskedPart /\ pc = "loop" => AskedInv)'
      BY LoopAsks, PTL
    <2> QED
      BY <1>1, <1>3, <2>1
  <1>5. AsAsked
    BY <1>1 DEF AsAsked, AskedInv, AskedPart
  <1> QED
    BY <1>4, <1>5

LEMMA NothingAsked ==
    ASSUME AskedInv, UNCHANGED <<vars, monitor>> PROVE AskedInv'
  <1>1. /\ UNCHANGED <<argc, outcome, args, called, pc, shown, round, y>>
        /\ UNCHANGED <<memoryAddress, linesPerPage, radix, unassembleAddress>>
    BY DEF vars, monitor, argVars, settings, loops
  <1>2. AskedPart' /\ CalledPart' /\ GoPart'
    BY <1>1 DEF AskedInv, AskedPart, CalledPart, GoPart, Settled, settings
  <1>3. DumpPage' = DumpPage /\ DumpFrom' = DumpFrom /\ FirstShown' = FirstShown
    BY <1>1 DEF DumpPage, DumpFrom, FirstShown
  <1>4. DumpPart'
    BY <1>1, <1>3, Zenon DEF AskedInv, DumpPart, Dumped, settings
  <1>5. UnassemblePart'
    BY <1>1, <1>3, Zenon DEF AskedInv, UnassemblePart, OneBehindTheOther
  <1> QED
    BY <1>2, <1>4, <1>5 DEF AskedInv

LEMMA AskedGoesOn ==
    ASSUME MonitorInv, MonitorInv', AskedInv, MonitorNext PROVE AskedInv' /\ AsAsked
  <1>1. CASE TypeLine \/ Edit
    BY <1>1, LoopAsked
  <1>2. CASE Dispatch
    BY <1>2, DispatchAsked
  <1>3. CASE Reset
    BY <1>3, RestartAsked DEF Reset
  <1>4. CASE Program
    <2>1. ProgramPushes \/ ProgramReturns \/ (\E fn \in Nat, r \in Registers : Swi(fn, r))
      <3>1. \A fn \in 0..SWIMax \cup {128} : fn \in Nat
        BY TableOfCalls
      <3> QED
        BY <1>4, <3>1, Zenon DEF Program
    <2> QED
      BY <2>1, ProgramAsked
  <1>5. CASE Handlers
    <2>1. CASE RestartByGo
      BY <2>1, RestartAsked DEF RestartByGo
    <2>2. CASE SetRadix \/ Prints \/ cpuFn \/ windowFn \/ dumpFn \/ ddProceed
      BY <2>2, RadixAsked, PrintsAsked, CpuAsked, WindowAsked, DumpAsked, ProceedAsked
    <2>3. CASE unassembleFn \/ duNext \/ goFn \/ dgDone
      BY <2>3, UnassembleAsked, NextAsked, GoAsked, ProgramAsked
    <2>4. CASE handle_swi \/ sysGetChar \/ sysPut \/ sysTerminate \/ rti
      BY <2>4, CallAsked
    <2>5. CASE terminatedOK \/ terminatedWithError \/ registersFn
      BY <2>5, EndAsked, RegistersAsked
    <2> QED
      BY <1>5, <2>1, <2>2, <2>3, <2>4, <2>5, Zenon DEF Handlers
  <1>6. CASE DiskOrLoad
    BY <1>6, PrintsAsked
  <1> QED
    BY <1>1, <1>2, <1>3, <1>4, <1>5, <1>6, Zenon DEF MonitorNext

LEMMA NothingIsAsked == MonitorInit => AskedInv
  <1> SUFFICES ASSUME MonitorInit PROVE AskedInv
    OBVIOUS
  <1>1. pc = "loop" /\ outcome = "blank" /\ called = settings
    BY DEF MonitorInit, Init
  <1>2. Settled(called)
    BY <1>1, MonitorStarts, SettingsSettle
  <1> QED
    BY <1>1, <1>2, LoopAsks DEF AskedPart

(***************************************************************************)
(* Whatever is typed, a command that returns has done what its arguments   *)
(* say in hexadecimal, with all of its rounds, and nothing else; a number  *)
(* it cannot read leaves the settings alone.                               *)
(***************************************************************************)
THEOREM CommandsAreDone == MonitorSpec => CommandsDoAsAsked
  <1>1. ASSUME MonitorInv, AskedInv, [MonitorNext]_<<vars, monitor>>, MonitorInv'
        PROVE  AskedInv' /\ [AsAsked]_<<vars, monitor>>
    BY <1>1, AskedGoesOn, NothingAsked
  <1>2. MonitorInv /\ AskedInv /\ [MonitorNext]_<<vars, monitor>> =>
            AskedInv' /\ [AsAsked]_<<vars, monitor>>
    BY <1>1, MonitorGoesOn
  <1>3. CommandsDoAsAsked <=> [][AsAsked]_<<vars, monitor>>
    BY DEF CommandsDoAsAsked, AsAsked
  <1> QED
    BY <1>2, <1>3, MonitorStarts, MonitorGoesOn, NothingIsAsked, PTL DEF MonitorSpec
=============================================================================
