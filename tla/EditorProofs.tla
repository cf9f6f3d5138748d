----------------------------- MODULE EditorProofs -----------------------------
(***************************************************************************)
(* The line editor and its history are right for every length of the line  *)
(* and of the history, every set of characters and every width of the      *)
(* screen.                                                                 *)
(***************************************************************************)
EXTENDS LineEditor, WellFoundedInduction, TLAPS

\* Leaves are for Zenon unless they name SMT, which those with arithmetic do.
USE ZenonT(40)

\* Text that fits a buffer with its terminator.
Texts == {t \in Seq(Char) : Len(t) \in Bytes}

\* The bytes before the end of the line are characters, and every slot of the ring
\* holds a terminated text.
LineIsText == \A i \in 0 .. line_len - 1 : current_line[i] \in Char
SlotsAreTexts ==
  \A i \in 0 .. HISTORY_SIZE - 1 : \E t \in Texts : history_buffer[i] = Buffer(t)

\* The ring holds the last HISTORY_SIZE commands, each in the slot of its number.
RingHoldsTheLast ==
  /\ log \in Seq(Texts) /\ Len(log) = history_count
  /\ \A j \in 0 .. history_count - 1 :
       j + HISTORY_SIZE >= history_count =>
         history_buffer[j % HISTORY_SIZE] = Buffer(log[j + 1])

EditorInv == TypeOK /\ LineIsText /\ SlotsAreTexts /\ RingHoldsTheLast

\* The line ends on the prompt's row.
LineFits == PromptLen + line_len <= Columns

\* The cells show the line, and blanks after it.
Drawn ==
  \A c \in Area :
    cells[c] = IF c < PromptLen + line_len THEN current_line[c - PromptLen] ELSE Blank
-------------------------------------------------------------------------------
(* Numbers and sequences *)

\* What is assumed of the constants.
LEMMA Widths ==
  /\ MAX_CMD_LEN \in Nat \ {0} /\ Bytes = 0 .. MAX_CMD_LEN - 1
  /\ Blank # NUL /\ NUL \notin Char
BY EditorAssumption, SMTT(30) DEF Bytes, Char

\* The bytes of a line, without an interval.
LEMMA InBytes == \A x : x \in Bytes <=> x \in Nat /\ x < MAX_CMD_LEN
BY Widths, SMTT(30)

\* A non-empty set of naturals has a least element.
LEMMA LeastExists ==
  ASSUME NEW S \in SUBSET Nat, S # {}
  PROVE  \E x \in S : \A y \in S : x <= y
<1> DEFINE Less == {ss \in Nat \X Nat : ss[1] < ss[2]}
<1>1. IsWellFoundedOn(Less, Nat)
  BY NatLessThanWellFounded DEF OpToRel
<1>2. ASSUME NEW x \in Nat, NEW y \in Nat PROVE <<y, x>> \in Less <=> y < x
  BY SMTT(30)
<1> HIDE DEF Less
<1>3. PICK x \in S : \A y \in S : ~(<<y, x>> \in Less)
  BY <1>1, WFMin
<1>4. \A y \in S : ~(y < x)
  BY <1>2, <1>3
<1> QED
  BY <1>4, SMTT(30)

\* A number is made of its quotient and its remainder.
LEMMA DivMod ==
  ASSUME NEW a \in Nat, NEW d \in Nat \ {0}
  PROVE  a \div d \in Nat /\ a % d \in 0 .. d - 1 /\ a = d * (a \div d) + (a % d)
BY SMTT(30)

\* A sequence is a function on the numbers up to its length.
LEMMA SeqIsFunction ==
  ASSUME NEW S, NEW s \in Seq(S)
  PROVE  /\ Len(s) \in Nat /\ s \in [1 .. Len(s) -> S] /\ DOMAIN s = 1 .. Len(s)
         /\ s = [k \in 1 .. Len(s) |-> s[k]] /\ \A k \in 1 .. Len(s) : s[k] \in S
BY SMTT(30)

\* A function on the numbers up to n is a sequence of length n.
LEMMA FunctionIsSeq ==
  ASSUME NEW S, NEW n \in Nat, NEW f \in [1 .. n -> S]
  PROVE  f \in Seq(S) /\ Len(f) = n
BY SMTT(30)

\* The empty sequence has length zero.
LEMMA EmptyIsSeq == ASSUME NEW S PROVE << >> \in Seq(S) /\ Len(<< >>) = 0
BY SMTT(30)

\* What Append returns.
LEMMA Appended ==
  ASSUME NEW S, NEW s \in Seq(S), NEW e \in S
  PROVE  /\ Append(s, e) \in Seq(S) /\ Len(Append(s, e)) = Len(s) + 1
         /\ \A k \in 1 .. Len(s) : Append(s, e)[k] = s[k]
         /\ Append(s, e)[Len(s) + 1] = e
BY SMTT(30)

\* What SubSeq returns.
LEMMA Cut ==
  ASSUME NEW S, NEW s \in Seq(S), NEW m \in 1 .. Len(s) + 1, NEW n \in m - 1 .. Len(s)
  PROVE  /\ SubSeq(s, m, n) \in Seq(S) /\ Len(SubSeq(s, m, n)) = n - m + 1
         /\ \A k \in 1 .. n - m + 1 : SubSeq(s, m, n)[k] = s[m + k - 1]
BY SMTT(30)

\* SubSeq as a function.
LEMMA CutIs ==
  ASSUME NEW S, NEW s \in Seq(S), NEW m \in 1 .. Len(s) + 1, NEW n \in m - 1 .. Len(s)
  PROVE  SubSeq(s, m, n) = [k \in 1 .. n - m + 1 |-> s[m + k - 1]]
BY SMTT(30)
-------------------------------------------------------------------------------
(* Buffers and texts *)

\* The first terminator is where strlen stops.
LEMMA StrlenIs ==
  ASSUME NEW s, NEW n \in Bytes, s[n] = NUL, \A i \in 0 .. n - 1 : s[i] # NUL
  PROVE  strlen(s) = n
<1>1. \A m \in Bytes : s[m] = NUL /\ (\A i \in 0 .. m - 1 : s[i] # NUL) => m = n
  BY Widths, SMTT(30)
<1> QED
  BY <1>1 DEF strlen

\* A buffer that was filled from a text reads back as that text.
LEMMA BufferReads ==
  ASSUME NEW t \in Texts
  PROVE  /\ Buffer(t) \in [Bytes -> Char \cup {NUL}]
         /\ Len(t) \in Bytes /\ Buffer(t)[Len(t)] = NUL
         /\ \A i \in 0 .. Len(t) - 1 : Buffer(t)[i] \in Char
         /\ strlen(Buffer(t)) = Len(t) /\ Front(Buffer(t), Len(t)) = t
<1>1. t \in Seq(Char) /\ Len(t) \in Bytes /\ Len(t) \in Nat
  BY Widths, SMTT(30) DEF Texts
<1>2. \A k \in 1 .. Len(t) : t[k] \in Char
  BY <1>1, SeqIsFunction
<1>3. ASSUME NEW i \in Bytes, i < Len(t) PROVE i + 1 \in 1 .. Len(t)
  BY <1>1, <1>3, Widths, SMTT(30)
<1>4. Buffer(t) \in [Bytes -> Char \cup {NUL}]
  BY <1>2, <1>3 DEF Buffer
<1>5. ASSUME NEW i \in 0 .. Len(t) - 1 PROVE i \in Bytes /\ i < Len(t)
  BY <1>1, Widths, SMTT(30)
<1>6. Buffer(t)[Len(t)] = NUL
  <2>1. ~(Len(t) < Len(t))
    BY <1>1, SMTT(30)
  <2> QED BY <1>1, <2>1 DEF Buffer
<1>7. \A i \in 0 .. Len(t) - 1 : Buffer(t)[i] = t[i + 1] /\ Buffer(t)[i] \in Char
  BY <1>2, <1>3, <1>5 DEF Buffer
<1>8. Front(Buffer(t), Len(t)) = t
  <2>1. ASSUME NEW k \in 1 .. Len(t) PROVE k - 1 \in 0 .. Len(t) - 1 /\ (k - 1) + 1 = k
    BY <1>1, SMTT(30)
  <2>2. \A k \in 1 .. Len(t) : Buffer(t)[k - 1] = t[k]
    BY <1>7, <2>1
  <2>3. t = [k \in 1 .. Len(t) |-> t[k]]
    BY <1>1, SeqIsFunction
  <2> QED BY <2>2, <2>3 DEF Front
<1>9. strlen(Buffer(t)) = Len(t)
  BY <1>1, <1>6, <1>7, StrlenIs, Widths
<1> QED
  BY <1>1, <1>4, <1>6, <1>7, <1>8, <1>9

\* The front of a buffer, when it is text.
LEMMA FrontIsText ==
  ASSUME NEW s, NEW n \in Bytes, \A i \in 0 .. n - 1 : s[i] \in Char
  PROVE  Front(s, n) \in Texts /\ Len(Front(s, n)) = n
<1>1. n \in Nat
  BY Widths, SMTT(30)
<1>2. ASSUME NEW k \in 1 .. n PROVE k - 1 \in 0 .. n - 1
  BY <1>1, SMTT(30)
<1>3. Front(s, n) \in [1 .. n -> Char]
  BY <1>2 DEF Front
<1>4. Front(s, n) \in Seq(Char) /\ Len(Front(s, n)) = n
  BY <1>1, <1>3, FunctionIsSeq
<1> QED
  BY <1>4 DEF Texts

\* n is the number of blanks that lead a text.
Leads(t, n) ==
  /\ n \in 0 .. Len(t) /\ \A i \in 1 .. n : t[i] = Blank
  /\ n < Len(t) => t[n + 1] # Blank

\* A text has leading blanks, none or more, and Trim takes them away.
LEMMA TrimCuts ==
  ASSUME NEW S, NEW t \in Seq(S)
  PROVE  \E n \in 0 .. Len(t) : Leads(t, n) /\ Trim(t) = SubSeq(t, n + 1, Len(t))
<1>0. Len(t) \in Nat
  BY SeqIsFunction
<1> DEFINE D == {m \in 0 .. Len(t) : m < Len(t) => t[m + 1] # Blank}
<1>1. D \in SUBSET Nat /\ D # {}
  <2>1. Len(t) \in 0 .. Len(t) /\ ~(Len(t) < Len(t)) /\ 0 .. Len(t) \subseteq Nat
    BY <1>0, SMTT(30)
  <2> QED BY <2>1
<1>2. PICK n \in D : \A m \in D : n <= m
  <2> HIDE DEF D
  <2> QED BY <1>1, LeastExists
<1>3. ASSUME NEW i \in 1 .. n PROVE t[i] = Blank
  <2>1. i - 1 \in 0 .. Len(t) /\ i - 1 < Len(t) /\ (i - 1) + 1 = i /\ ~(n <= i - 1)
    BY <1>0, SMTT(30)
  <2>2. i - 1 \notin D
    BY <1>2, <2>1
  <2> QED BY <2>1, <2>2
<1>4. Leads(t, n)
  BY <1>3 DEF Leads
<1>5. \A m \in 0 .. Len(t) :
        (\A i \in 1 .. m : t[i] = Blank) /\ (m < Len(t) => t[m + 1] # Blank) => m = n
  BY <1>0, <1>4, SMTT(30) DEF Leads
<1>6. n = CHOOSE m \in 0 .. Len(t) :
            /\ \A i \in 1 .. m : t[i] = Blank
            /\ m < Len(t) => t[m + 1] # Blank
  BY <1>4, <1>5 DEF Leads
<1> QED
  BY <1>4, <1>6 DEF Trim

\* The trimmed text is a text, and is empty only when there were blanks alone.
LEMMA TrimIsText ==
  ASSUME NEW t \in Texts
  PROVE  /\ Trim(t) \in Texts
         /\ Trim(t) = << >> => \A i \in 1 .. Len(t) : t[i] = Blank
<1>1. t \in Seq(Char) /\ Len(t) \in Bytes /\ Len(t) \in Nat /\ Len(t) <= MAX_CMD_LEN - 1
  BY Widths, SMTT(30) DEF Texts
<1>2. PICK n \in 0 .. Len(t) : Leads(t, n) /\ Trim(t) = SubSeq(t, n + 1, Len(t))
  BY <1>1, TrimCuts
<1>3. n \in Nat /\ n + 1 \in 1 .. Len(t) + 1 /\ Len(t) \in n + 1 - 1 .. Len(t)
  BY <1>1, SMTT(30)
<1>4. Trim(t) \in Seq(Char) /\ Len(Trim(t)) = Len(t) - n
  BY <1>1, <1>2, <1>3, Cut, SMTT(30)
<1>5. Len(t) - n \in Bytes
  BY <1>1, <1>3, Widths, SMTT(30)
<1>6. ASSUME Trim(t) = << >> PROVE n = Len(t)
  BY <1>1, <1>3, <1>4, <1>6, SMTT(30)
<1> QED
  BY <1>2, <1>4, <1>5, <1>6 DEF Texts, Leads
-------------------------------------------------------------------------------
(* The keys *)

\* The editor's integers, and its buffers.
LEMMA EditorTypes ==
  ASSUME EditorInv
  PROVE  /\ line_len \in Nat /\ line_len <= MAX_CMD_LEN - 1 /\ MAX_CMD_LEN \in Nat
         /\ line_len \in Bytes /\ cursor_pos \in Nat /\ cursor_pos <= line_len
         /\ HISTORY_SIZE \in Nat \ {0} /\ PromptLen \in Nat /\ Columns \in Nat
         /\ history_count \in Nat /\ history_index \in 0 .. history_count
         /\ current_line \in [Bytes -> Char \cup {NUL}]
         /\ cells \in [Area -> Char \cup {NUL}]
         /\ 0 .. line_len - 1 \subseteq Bytes
<1>1. line_len \in Bytes /\ cursor_pos \in 0 .. line_len
      /\ history_count \in 0 .. MaxCommands /\ history_index \in 0 .. history_count
      /\ current_line \in [Bytes -> Char \cup {NUL}] /\ cells \in [Area -> Char \cup {NUL}]
  BY DEF EditorInv, TypeOK
<1>2. line_len \in Nat /\ line_len <= MAX_CMD_LEN - 1 /\ MAX_CMD_LEN \in Nat
      /\ cursor_pos \in Nat /\ cursor_pos <= line_len /\ history_count \in Nat
      /\ 0 .. line_len - 1 \subseteq Bytes
  BY <1>1, Widths, SMTT(30)
<1> QED
  BY <1>1, <1>2, EditorAssumption

\* The numbers among them.
LEMMA EditorNumbers ==
  ASSUME EditorInv
  PROVE  /\ line_len \in Nat /\ line_len <= MAX_CMD_LEN - 1 /\ MAX_CMD_LEN \in Nat
         /\ cursor_pos \in Nat /\ cursor_pos <= line_len
         /\ HISTORY_SIZE \in Nat \ {0} /\ PromptLen \in Nat /\ Columns \in Nat
         /\ history_count \in Nat /\ history_index \in 0 .. history_count
BY EditorTypes

\* shell_redraw_line() reads bytes of the line only.
LEMMA RedrawTypes ==
  ASSUME EditorInv, Redraw, line_len' \in Bytes, current_line' \in [Bytes -> Char \cup {NUL}]
  PROVE  cells' \in [Area -> Char \cup {NUL}]
<1>1. ASSUME NEW c \in Area, c < PromptLen + line_len' PROVE c - PromptLen \in Bytes
  BY <1>1, EditorNumbers, InBytes, SMTT(30) DEF Area
<1>2. ASSUME NEW c \in Area, c < PromptLen + line_len'
      PROVE  current_line'[c - PromptLen] \in Char \cup {NUL}
  BY <1>1, <1>2
<1>3. Blank \in Char
  BY DEF Char
<1> QED
  BY <1>2, <1>3, EditorTypes DEF Redraw

\* A key that edits the line and leaves the history alone.
LEMMA EditKeeps ==
  ASSUME EditorInv, UNCHANGED history, Redraw, line_len' \in Bytes, cursor_pos' \in 0 .. line_len',
         history_index' \in 0 .. history_count,
         current_line' \in [Bytes -> Char \cup {NUL}],
         \A i \in 0 .. line_len' - 1 : current_line'[i] \in Char
  PROVE  EditorInv'
<1>1. UNCHANGED <<history_buffer, history_count, log>>
  BY DEF history
<1>2. TypeOK'
  BY <1>1, RedrawTypes DEF EditorInv, TypeOK
<1>3. SlotsAreTexts' /\ RingHoldsTheLast'
  BY <1>1 DEF EditorInv, SlotsAreTexts, RingHoldsTheLast
<1> QED
  BY <1>2, <1>3 DEF EditorInv, LineIsText

\* The arrows within the line.
LEMMA CursorKeeps == ASSUME EditorInv, ArrowLeft \/ ArrowRight PROVE EditorInv'
<1>1. UNCHANGED <<current_line, line_len, history, history_index>> /\ Redraw
  BY DEF ArrowLeft, ArrowRight
<1>2. cursor_pos' \in 0 .. line_len
  BY EditorNumbers, SMTT(30) DEF ArrowLeft, ArrowRight
<1> QED
  BY <1>1, <1>2, EditorTypes, EditKeeps DEF EditorInv, LineIsText

\* A C string that ends at byte n, recalled.
LEMMA RecallKeeps ==
  ASSUME EditorInv, NEW s \in [Bytes -> Char \cup {NUL}], NEW n \in Bytes, s[n] = NUL,
         \A i \in 0 .. n - 1 : s[i] \in Char,
         Recall(s), history_index' \in 0 .. history_count
  PROVE  EditorInv' /\ Line' = Front(s, n)
<1>1. strlen(s) = n
  BY StrlenIs, Widths
<1>2. current_line' = s /\ line_len' = n /\ cursor_pos' = n /\ UNCHANGED history /\ Redraw
  BY <1>1 DEF Recall
<1>3. n \in 0 .. n
  BY Widths, SMTT(30)
<1> QED
  BY <1>2, <1>3, EditKeeps DEF Line, Front

\* The slot of a number is one of the ring.
LEMMA SlotRange ==
  ASSUME NEW j \in Nat
  PROVE  j % HISTORY_SIZE \in 0 .. HISTORY_SIZE - 1
BY EditorAssumption, SMTT(30)

\* Command j is entry j + 1 of the log.
LEMMA CommandNumber ==
  ASSUME NEW j \in Nat, NEW n \in Nat, j < n
  PROVE  j \in 0 .. n - 1 /\ j + 1 \in 1 .. n
BY SMTT(30)

\* A slot of the ring, recalled.
LEMMA SlotRecalled ==
  ASSUME EditorInv, history_index' \in 0 .. history_count,
         Recall(history_buffer[history_index' % HISTORY_SIZE])
  PROVE  /\ EditorInv'
         /\ history_index' < history_count /\ history_index' + HISTORY_SIZE >= history_count
              => Line' = log[history_index' + 1]
<1>1. history_index' \in Nat /\ history_count \in Nat
  BY EditorNumbers, SMTT(30)
<1>2. PICK t \in Texts : history_buffer[history_index' % HISTORY_SIZE] = Buffer(t)
  BY <1>1, SlotRange DEF EditorInv, SlotsAreTexts
<1>3. EditorInv' /\ Line' = t
  BY <1>2, BufferReads, RecallKeeps
<1>4. ASSUME history_index' < history_count, history_index' + HISTORY_SIZE >= history_count
      PROVE  t = log[history_index' + 1]
  <2>1. history_index' \in 0 .. history_count - 1 /\ history_index' + 1 \in 1 .. history_count
    BY <1>1, <1>4, CommandNumber
  <2>2. log[history_index' + 1] \in Texts
    BY <2>1, SeqIsFunction DEF EditorInv, RingHoldsTheLast
  <2>3. Buffer(t) = Buffer(log[history_index' + 1])
    BY <1>2, <1>4, <2>1 DEF EditorInv, RingHoldsTheLast
  <2> QED
    BY <2>2, <2>3, BufferReads
<1> QED
  BY <1>3, <1>4

\* The arrows through the history: they keep the invariant, and what they land on, when
\* it is one of the last commands, is that command.
LEMMA HistoryKeeps ==
  ASSUME EditorInv, ArrowUp \/ ArrowDown
  PROVE  /\ EditorInv'
         /\ history_index' < history_count /\ history_index' + HISTORY_SIZE >= history_count
              => Line' = log[history_index' + 1]
<1>1. history_index' \in 0 .. history_count
  BY EditorNumbers, SMTT(30) DEF ArrowUp, ArrowDown
<1>2. CASE ArrowDown /\ history_index' = history_count
  <2> DEFINE s == [current_line EXCEPT ![0] = NUL]
  <2>1. Recall(s)
    BY <1>2 DEF ArrowDown
  <2>2. 0 \in Bytes /\ 0 .. 0 - 1 = {}
    BY Widths, SMTT(30)
  <2>3. s \in [Bytes -> Char \cup {NUL}] /\ s[0] = NUL
    BY <2>2, EditorTypes
  <2> HIDE DEF s
  <2>4. EditorInv'
    BY <1>1, <2>1, <2>2, <2>3, RecallKeeps
  <2>5. ~(history_index' < history_count)
    BY <1>2, EditorNumbers, SMTT(30)
  <2> QED BY <2>4, <2>5
<1>3. CASE ArrowUp \/ history_index' # history_count
  <2>1. Recall(history_buffer[history_index' % HISTORY_SIZE])
    BY <1>3 DEF ArrowUp, ArrowDown
  <2> QED BY <1>1, <2>1, SlotRecalled
<1> QED
  BY <1>2, <1>3

\* Backspace: the rest of the line moves one byte to the left.
LEMMA BackspaceKeeps == ASSUME EditorInv, Backspace PROVE EditorInv'
<1>0. /\ cursor_pos > 0 /\ line_len' = line_len - 1 /\ cursor_pos' = cursor_pos - 1
      /\ current_line' = [i \in Bytes |->
                            IF i = line_len - 1 THEN NUL
                            ELSE IF i \in cursor_pos - 1 .. line_len - 2
                                   THEN current_line[i + 1]
                                   ELSE current_line[i]]
      /\ UNCHANGED history /\ history_index' = history_index /\ Redraw
  BY DEF Backspace
<1>n. cursor_pos > 0 /\ line_len' = line_len - 1 /\ cursor_pos' = cursor_pos - 1
  BY <1>0
<1>1. line_len' \in Bytes /\ cursor_pos' \in 0 .. line_len'
  BY <1>n, EditorNumbers, InBytes, SMTT(30)
<1>2. ASSUME NEW i \in Bytes, i # line_len - 1, i \in cursor_pos - 1 .. line_len - 2
      PROVE  i + 1 \in Bytes /\ i + 1 \in 0 .. line_len - 1
  BY <1>n, <1>2, EditorNumbers, InBytes, SMTT(30)
<1>3. current_line' \in [Bytes -> Char \cup {NUL}]
  BY <1>0, <1>2, EditorTypes
<1>4. ASSUME NEW i \in 0 .. line_len' - 1
      PROVE  i \in Bytes /\ i # line_len - 1 /\ i \in 0 .. line_len - 1
  BY <1>n, EditorNumbers, InBytes, SMTT(30)
<1>5. \A i \in 0 .. line_len' - 1 : current_line'[i] \in Char
  BY <1>0, <1>2, <1>4 DEF EditorInv, LineIsText
<1> QED
  BY <1>0, <1>1, <1>3, <1>5, EditorTypes, EditKeeps

\* A character goes in at the cursor: the rest moves one byte to the right, and there
\* is room for it.
LEMMA InsertKeeps == ASSUME EditorInv, NEW ch \in Char, Insert(ch) PROVE EditorInv'
<1>0. /\ line_len < MAX_CMD_LEN - 1 /\ line_len' = line_len + 1 /\ cursor_pos' = cursor_pos + 1
      /\ current_line' = [i \in Bytes |->
                            IF i = cursor_pos THEN ch
                            ELSE IF i \in cursor_pos + 1 .. line_len
                                   THEN current_line[i - 1]
                                   ELSE current_line[i]]
      /\ UNCHANGED history /\ history_index' = history_index /\ Redraw
  BY DEF Insert, InsertBefore
<1>n. line_len < MAX_CMD_LEN - 1 /\ line_len' = line_len + 1 /\ cursor_pos' = cursor_pos + 1
  BY <1>0
<1>1. line_len' \in Bytes /\ cursor_pos' \in 0 .. line_len'
  BY <1>n, EditorNumbers, InBytes, SMTT(30)
<1>2. ASSUME NEW i \in Bytes, i \in cursor_pos + 1 .. line_len
      PROVE  i - 1 \in Bytes /\ i - 1 \in 0 .. line_len - 1
  BY <1>n, <1>2, EditorNumbers, InBytes, SMTT(30)
<1>3. current_line' \in [Bytes -> Char \cup {NUL}]
  BY <1>0, <1>2, EditorTypes
<1>4. ASSUME NEW i \in 0 .. line_len' - 1
      PROVE  /\ i \in Bytes
             /\ i # cursor_pos /\ i \notin cursor_pos + 1 .. line_len => i \in 0 .. line_len - 1
  BY <1>n, EditorNumbers, InBytes, SMTT(30)
<1>5. \A i \in 0 .. line_len' - 1 : current_line'[i] \in Char
  BY <1>0, <1>2, <1>4 DEF EditorInv, LineIsText
<1> QED
  BY <1>0, <1>1, <1>3, <1>5, EditorTypes, EditKeeps

\* Enter stores the terminator at the end of the line: what process_command() reads is
\* the line.
LEMMA EnterReads ==
  ASSUME EditorInv, NEW s, s = [current_line EXCEPT ![line_len] = NUL]
  PROVE  /\ s \in [Bytes -> Char \cup {NUL}] /\ \A i \in 0 .. line_len - 1 : s[i] = current_line[i]
         /\ Front(s, strlen(s)) = Line /\ Line \in Texts /\ Len(Line) = line_len
<1>1. ASSUME NEW i \in 0 .. line_len - 1 PROVE i \in Bytes /\ i # line_len
  BY EditorNumbers, InBytes, SMTT(30)
<1>2. s \in [Bytes -> Char \cup {NUL}] /\ s[line_len] = NUL
      /\ \A i \in 0 .. line_len - 1 : s[i] = current_line[i]
  BY <1>1, EditorTypes
<1>3. strlen(s) = line_len
  <2>1. \A i \in 0 .. line_len - 1 : s[i] # NUL
    BY <1>2, Widths DEF EditorInv, LineIsText
  <2> QED BY <1>2, <2>1, EditorTypes, StrlenIs
<1>4. ASSUME NEW k \in 1 .. line_len PROVE s[k - 1] = current_line[k - 1]
  <2>1. k - 1 \in 0 .. line_len - 1
    BY EditorNumbers, SMTT(30)
  <2> QED BY <1>2, <2>1
<1>5. Front(s, line_len) = Front(current_line, line_len)
  BY <1>4 DEF Front
<1>6. Line \in Texts /\ Len(Line) = line_len
  BY EditorTypes, FrontIsText DEF Line, EditorInv, LineIsText
<1> QED
  BY <1>2, <1>3, <1>5, <1>6 DEF Line

\* Enter on a line of blanks.
LEMMA EnterBlankKeeps ==
  ASSUME EditorInv, EnterBlank
  PROVE  EditorInv' /\ \A i \in 0 .. line_len - 1 : current_line'[i] = Blank
<1>1. PICK s : s = [current_line EXCEPT ![line_len] = NUL]
  OBVIOUS
<1>2. /\ Trim(Front(s, strlen(s))) = << >> /\ current_line' = s
      /\ UNCHANGED <<cursor_pos, line_len, history, history_index>> /\ FreshPrompt
  BY <1>1 DEF EnterBlank
<1>3. UNCHANGED <<history_buffer, history_count, log>>
  BY <1>2 DEF history
<1>4. cells' \in [Area -> Char \cup {NUL}]
  BY <1>2 DEF FreshPrompt, Char
<1>5. TypeOK'
  BY <1>1, <1>2, <1>3, <1>4, EnterReads DEF EditorInv, TypeOK
<1>6. SlotsAreTexts' /\ RingHoldsTheLast'
  BY <1>3 DEF EditorInv, SlotsAreTexts, RingHoldsTheLast
<1>7. LineIsText'
  BY <1>1, <1>2, EnterReads DEF EditorInv, LineIsText
<1>8. \A k \in 1 .. line_len : Line[k] = Blank
  BY <1>1, <1>2, EnterReads, TrimIsText
<1>9. ASSUME NEW i \in 0 .. line_len - 1 PROVE current_line[i] = Blank
  <2>1. i + 1 \in 1 .. line_len /\ (i + 1) - 1 = i
    BY EditorNumbers, SMTT(30)
  <2> QED BY <1>8, <2>1 DEF Line, Front
<1> QED
  BY <1>1, <1>2, <1>5, <1>6, <1>7, <1>9, EnterReads DEF EditorInv

\* Two numbers less than a ring apart have different slots.
LEMMA SlotsDiffer ==
  ASSUME NEW a \in Nat, NEW b \in Nat, a < b, b < a + HISTORY_SIZE
  PROVE  a % HISTORY_SIZE # b % HISTORY_SIZE
<1> DEFINE S == HISTORY_SIZE
           qa == a \div S
           qb == b \div S
<1>0. S \in Nat \ {0}
  BY EditorAssumption
<1> HIDE DEF S
<1>1. qa \in Nat /\ qb \in Nat /\ a = S * qa + (a % S) /\ b = S * qb + (b % S)
  BY <1>0, DivMod
<1> HIDE DEF qa, qb
<1>2. ASSUME a % S = b % S PROVE FALSE
  <2>1. b - a = S * qb - S * qa
    BY <1>0, <1>1, <1>2, SMTT(30)
  <2>2. S * qb - S * qa = S * (qb - qa)
    BY <1>0, <1>1, SMTT(30)
  <2>3. PICK d \in Int : d = qb - qa
    BY <1>1, SMTT(30)
  <2>4. b - a = S * d /\ 0 < b - a /\ b - a < S
    BY <1>0, <2>1, <2>2, <2>3, SMTT(30) DEF S
  <2>5. CASE d <= 0
    BY <1>0, <2>4, <2>5, SMTT(30)
  <2>6. CASE d >= 1
    BY <1>0, <2>4, <2>6, SMTT(30)
  <2> QED BY <2>3, <2>5, <2>6, SMTT(30)
<1> QED
  BY <1>2 DEF S

\* Enter on a command: it is saved in the slot of its number, which no other of the
\* last HISTORY_SIZE commands has.
LEMMA EnterCommandKeeps ==
  ASSUME EditorInv, EnterCommand
  PROVE  EditorInv' /\ history_index' = history_count' /\ history_count' = history_count + 1
<1>1. PICK s : s = [current_line EXCEPT ![line_len] = NUL]
  OBVIOUS
<1>2. PICK command : command = Trim(Line)
  OBVIOUS
<1>3. Trim(Front(s, strlen(s))) = command /\ command \in Texts
  BY <1>1, <1>2, EnterReads, TrimIsText
<1>4. PICK slot : slot = history_count % HISTORY_SIZE
  OBVIOUS
<1>5. /\ history_count < MaxCommands
      /\ history_buffer' = [history_buffer EXCEPT ![slot] = Buffer(command)]
      /\ history_count' = history_count + 1 /\ history_index' = history_count + 1
      /\ log' = Append(log, command) /\ current_line' = Buffer(<< >>)
      /\ line_len' = 0 /\ cursor_pos' = 0 /\ FreshPrompt
  BY <1>1, <1>2, <1>3, <1>4 DEF EnterCommand, Run
<1>6. slot \in 0 .. HISTORY_SIZE - 1
  BY <1>4, EditorTypes, SlotRange
<1>7. 0 \in Bytes /\ 0 \in 0 .. 0 /\ 0 .. 0 - 1 = {} /\ << >> \in Texts
  <2>1. << >> \in Seq(Char) /\ Len(<< >>) = 0
    BY EmptyIsSeq, SMTT(30)
  <2>2. 0 \in Bytes /\ 0 \in 0 .. 0 /\ 0 .. 0 - 1 = {}
    BY Widths, SMTT(30)
  <2> QED BY <2>1, <2>2 DEF Texts
<1>8. history_count' \in 0 .. MaxCommands /\ history_index' \in 0 .. history_count'
  BY <1>5, EditorNumbers, EditorAssumption, SMTT(30)
<1>9. cells' \in [Area -> Char \cup {NUL}]
  BY <1>5 DEF FreshPrompt, Char
<1>10. TypeOK'
  BY <1>3, <1>5, <1>6, <1>7, <1>8, <1>9, BufferReads DEF EditorInv, TypeOK
<1>11. LineIsText'
  BY <1>5, <1>7 DEF LineIsText
<1>12. history_buffer \in [0 .. HISTORY_SIZE - 1 -> [Bytes -> Char \cup {NUL}]]
  BY DEF EditorInv, TypeOK
<1>13. SlotsAreTexts'
  BY <1>3, <1>5, <1>6, <1>12 DEF EditorInv, SlotsAreTexts
<1>14. /\ log \in Seq(Texts) /\ Len(log) = history_count /\ log' \in Seq(Texts)
       /\ Len(log') = history_count' /\ log'[history_count + 1] = command
       /\ \A k \in 1 .. history_count : log'[k] = log[k]
  <2>1. log \in Seq(Texts) /\ Len(log) = history_count
    BY DEF EditorInv, RingHoldsTheLast
  <2>2. /\ log' \in Seq(Texts) /\ Len(log') = Len(log) + 1 /\ log'[Len(log) + 1] = command
        /\ \A k \in 1 .. Len(log) : log'[k] = log[k]
    BY <1>3, <1>5, <2>1, Appended, SMTT(30)
  <2> QED BY <1>5, <2>1, <2>2
<1>15. ASSUME NEW j \in 0 .. history_count' - 1, j + HISTORY_SIZE >= history_count'
       PROVE  history_buffer'[j % HISTORY_SIZE] = Buffer(log'[j + 1])
  <2>1. CASE j = history_count
    BY <1>4, <1>5, <1>6, <1>12, <1>14, <2>1
  <2>2. CASE j # history_count
    <3>1. /\ j \in 0 .. history_count - 1 /\ j + HISTORY_SIZE >= history_count /\ j \in Nat
          /\ j + 1 \in 1 .. history_count /\ j < history_count
          /\ history_count < j + HISTORY_SIZE
      <4>1. history_count' = history_count + 1
        BY <1>5
      <4> QED BY <1>15, <2>2, <4>1, EditorNumbers, SMTT(30)
    <3>2. j % HISTORY_SIZE # slot
      BY <1>4, <3>1, SlotsDiffer, EditorTypes
    <3>3. history_buffer'[j % HISTORY_SIZE] = history_buffer[j % HISTORY_SIZE]
      BY <1>5, <1>12, <3>1, <3>2, SlotRange
    <3> QED BY <1>14, <3>1, <3>3 DEF EditorInv, RingHoldsTheLast
  <2> QED BY <2>1, <2>2
<1>16. RingHoldsTheLast'
  BY <1>14, <1>15 DEF RingHoldsTheLast
<1> QED
  BY <1>5, <1>10, <1>11, <1>13, <1>16 DEF EditorInv

\* The empty line and the empty ring.
LEMMA EditorStarts == ASSUME Init PROVE EditorInv /\ Drawn
<1>1. /\ current_line = Buffer(<< >>) /\ cursor_pos = 0 /\ line_len = 0
      /\ history_buffer = [i \in 0 .. HISTORY_SIZE - 1 |-> Buffer(<< >>)]
      /\ history_count = 0 /\ history_index = 0
      /\ cells = [c \in Area |-> Blank] /\ log = << >>
  BY DEF Init
<1>2. /\ 0 \in Bytes /\ 0 \in 0 .. 0 /\ 0 .. 0 - 1 = {} /\ 0 \in 0 .. MaxCommands
      /\ << >> \in Seq(Texts)
  BY Widths, EditorAssumption, SMTT(30)
<1>3. << >> \in Texts /\ Len(<< >>) = 0
  BY <1>2, EmptyIsSeq, SMTT(30) DEF Texts
<1>4. Len(log) = 0
  BY <1>1, <1>3
<1>5. TypeOK
  BY <1>1, <1>2, <1>3, BufferReads DEF TypeOK, Char
<1>6. LineIsText /\ SlotsAreTexts /\ RingHoldsTheLast
  BY <1>1, <1>2, <1>3, <1>4 DEF LineIsText, SlotsAreTexts, RingHoldsTheLast
<1>7. Drawn
  <2>1. \A c \in Area : ~(c < PromptLen + 0)
    BY EditorAssumption, SMTT(30) DEF Area
  <2> QED BY <1>1, <2>1 DEF Drawn
<1> QED
  BY <1>5, <1>6, <1>7 DEF EditorInv

\* No key breaks the editor's invariant.
LEMMA EditorKeeps == ASSUME EditorInv, [Next]_vars PROVE EditorInv'
<1>1. CASE UNCHANGED vars
  BY <1>1 DEF vars, EditorInv, TypeOK, LineIsText, SlotsAreTexts, RingHoldsTheLast
<1> QED
  BY <1>1, CursorKeeps, HistoryKeeps, BackspaceKeeps, InsertKeeps, EnterBlankKeeps,
     EnterCommandKeeps DEF Next

\* Whatever keys are pressed in whatever order, the cursor stays within the line, the
\* line leaves room for its terminator and the history index never passes the count.
THEOREM EditorTypeCorrect == Spec => []TypeOK
<1>1. EditorInv => TypeOK
  BY DEF EditorInv
<1> QED
  BY <1>1, EditorStarts, EditorKeeps, PTL DEF Spec

\* An arrow key that lands on one of the last HISTORY_SIZE commands brings back exactly
\* what was typed.
THEOREM HistoryRecallsTheCommand == Spec => RecallsTheCommand
<1>1. ASSUME EditorInv, [Next]_vars
      PROVE  [history_index' # history_index /\ history_index' < history_count'
                /\ history_index' + HISTORY_SIZE >= history_count'
              => Line' = log[history_index' + 1]]_vars
  <2>1. CASE ArrowUp \/ ArrowDown
    <3>1. history_count' = history_count
      BY <2>1 DEF ArrowUp, ArrowDown, Recall, history
    <3> QED BY <1>1, <2>1, <3>1, HistoryKeeps
  <2>2. CASE EnterCommand
    <3>1. ~(history_index' < history_count')
      <4>1. history_index' = history_count' /\ history_count' = history_count + 1
        BY <1>1, <2>2, EnterCommandKeeps
      <4>2. history_count \in Nat
        BY <1>1, EditorTypes
      <4> QED BY <4>1, <4>2, SMTT(30)
    <3> QED BY <3>1
  <2>3. CASE history_index' = history_index
    BY <2>3
  <2>4. CASE UNCHANGED vars
    BY <2>4
  <2>5. ASSUME NEW ch \in Char, Insert(ch) PROVE history_index' = history_index
    BY <2>5 DEF Insert, InsertBefore
  <2>6. ArrowLeft \/ ArrowRight \/ Backspace \/ EnterBlank => history_index' = history_index
    BY DEF ArrowLeft, ArrowRight, Backspace, EnterBlank
  <2> QED BY <1>1, <2>1, <2>2, <2>3, <2>4, <2>5, <2>6 DEF Next
<1> QED
  BY <1>1, EditorStarts, EditorKeeps, PTL DEF Spec, RecallsTheCommand
-------------------------------------------------------------------------------
(* What the screen shows *)

\* shell_redraw_line() shows the line when neither the old nor the new one runs on
\* into the next row.
LEMMA RedrawDraws ==
  ASSUME EditorInv, Drawn, LineFits, LineFits', Redraw, line_len' \in Bytes
  PROVE  Drawn'
<1>1. cells' = [c \in Area |->
                  IF c < PromptLen + line_len' THEN current_line'[c - PromptLen]
                  ELSE IF c < Columns THEN Blank ELSE cells[c]]
  BY DEF Redraw
<1>2. ASSUME NEW c \in Area, ~(c < Columns) PROVE ~(c < PromptLen + line_len)
  BY <1>2, EditorNumbers, InBytes, SMTT(30) DEF Area, LineFits
<1>3. ASSUME NEW c \in Area, ~(c < PromptLen + line_len') PROVE cells'[c] = Blank
  BY <1>1, <1>2, <1>3 DEF Drawn
<1>4. \A c \in Area : c < PromptLen + line_len' => cells'[c] = current_line'[c - PromptLen]
  BY <1>1
<1> QED
  BY <1>3, <1>4 DEF Drawn

\* As long as the line fits the prompt's row, the screen shows it.
LEMMA ScreenKeeps ==
  ASSUME EditorInv, EditorInv', Drawn, LineFits, LineFits', [Next]_vars
  PROVE  Drawn'
<1>1. CASE UNCHANGED vars
  BY <1>1 DEF vars, Drawn
<1>2. CASE EnterBlank
  <2>1. FreshPrompt /\ line_len' = line_len
    BY <1>2 DEF EnterBlank
  <2>2. \A i \in 0 .. line_len - 1 : current_line'[i] = Blank
    BY <1>2, EnterBlankKeeps
  <2>3. ASSUME NEW c \in Area, c < PromptLen + line_len PROVE c - PromptLen \in 0 .. line_len - 1
    BY <2>3, EditorNumbers, SMTT(30) DEF Area
  <2> QED BY <2>1, <2>2, <2>3 DEF FreshPrompt, Drawn
<1>3. CASE EnterCommand
  <2>1. FreshPrompt /\ line_len' = 0
    BY <1>3 DEF EnterCommand, Run
  <2>2. \A c \in Area : ~(c < PromptLen + 0)
    BY EditorNumbers, SMTT(30) DEF Area
  <2> QED BY <2>1, <2>2 DEF FreshPrompt, Drawn
<1>4. CASE Redraw
  BY <1>4, RedrawDraws DEF EditorInv, TypeOK
<1>5. ArrowLeft \/ ArrowRight \/ ArrowUp \/ ArrowDown \/ Backspace => Redraw
  BY DEF ArrowLeft, ArrowRight, ArrowUp, ArrowDown, Backspace, Recall
<1>6. ASSUME NEW ch \in Char, Insert(ch) PROVE Redraw
  BY <1>6 DEF Insert, InsertBefore
<1> QED
  BY <1>1, <1>2, <1>3, <1>4, <1>5, <1>6 DEF Next

\* n is where a text ends, but for the blanks after it.
Ends(t, n) ==
  /\ n \in 0 .. Len(t) /\ \A i \in n + 1 .. Len(t) : t[i] = Blank
  /\ n > 0 => t[n] # Blank

\* Chop cuts a text where it ends.
LEMMA ChopAt ==
  ASSUME NEW S, NEW t \in Seq(S), NEW n, Ends(t, n)
  PROVE  Chop(t) = SubSeq(t, 1, n)
<1>0. Len(t) \in Nat
  BY SeqIsFunction
<1>1. n \in 0 .. Len(t) /\ (\A i \in n + 1 .. Len(t) : t[i] = Blank) /\ (n > 0 => t[n] # Blank)
  BY DEF Ends
<1>2. \A m \in 0 .. Len(t) :
        (\A i \in m + 1 .. Len(t) : t[i] = Blank) /\ (m > 0 => t[m] # Blank) => m = n
  BY <1>0, <1>1, SMTT(30)
<1>3. n = CHOOSE m \in 0 .. Len(t) :
            /\ \A i \in m + 1 .. Len(t) : t[i] = Blank
            /\ m > 0 => t[m] # Blank
  BY <1>1, <1>2
<1> QED
  BY <1>3 DEF Chop

\* A text ends somewhere.
LEMMA SomewhereEnds == ASSUME NEW S, NEW t \in Seq(S) PROVE \E n \in 0 .. Len(t) : Ends(t, n)
<1>0. Len(t) \in Nat
  BY SeqIsFunction
<1> DEFINE D == {m \in 0 .. Len(t) : \A i \in m + 1 .. Len(t) : t[i] = Blank}
<1>1. D \in SUBSET Nat /\ D # {}
  <2>1. Len(t) \in 0 .. Len(t) /\ Len(t) + 1 .. Len(t) = {} /\ 0 .. Len(t) \subseteq Nat
    BY <1>0, SMTT(30)
  <2> QED BY <2>1
<1>2. PICK n \in D : \A m \in D : n <= m
  <2> HIDE DEF D
  <2> QED BY <1>1, LeastExists
<1>3. ASSUME n > 0, t[n] = Blank PROVE FALSE
  <2>1. n - 1 \in 0 .. Len(t) /\ ~(n <= n - 1)
    BY <1>0, <1>3, SMTT(30)
  <2>2. ASSUME NEW i \in (n - 1) + 1 .. Len(t) PROVE i = n \/ i \in n + 1 .. Len(t)
    BY <1>0, SMTT(30)
  <2>3. n - 1 \in D
    BY <1>3, <2>1, <2>2
  <2> QED BY <1>2, <2>1, <2>3
<1> QED
  BY <1>3 DEF Ends

\* Blanks after a text do not matter to Chop.
LEMMA ChopPads ==
  ASSUME NEW S, NEW a \in Seq(S), NEW b \in Seq(S), Len(b) <= Len(a),
         \A k \in 1 .. Len(b) : a[k] = b[k],
         \A k \in Len(b) + 1 .. Len(a) : a[k] = Blank
  PROVE  Chop(a) = Chop(b)
<1>0. Len(a) \in Nat /\ Len(b) \in Nat
  BY SeqIsFunction
<1>1. PICK n \in 0 .. Len(b) : Ends(b, n)
  BY SomewhereEnds
<1>2. n \in Nat /\ n <= Len(b) /\ n <= Len(a) /\ (n > 0 => n \in 1 .. Len(b)) /\ n \in 0 .. Len(a)
  BY <1>0, SMTT(30)
<1>3. ASSUME NEW i \in n + 1 .. Len(a) PROVE a[i] = Blank
  <2>1. i \in Len(b) + 1 .. Len(a) \/ (i \in n + 1 .. Len(b) /\ i \in 1 .. Len(b))
    BY <1>0, <1>2, SMTT(30)
  <2> QED BY <1>1, <2>1 DEF Ends
<1>4. Ends(a, n)
  BY <1>1, <1>2, <1>3 DEF Ends
<1>5. Chop(a) = SubSeq(a, 1, n) /\ Chop(b) = SubSeq(b, 1, n)
  BY <1>1, <1>4, ChopAt
<1>6. /\ SubSeq(a, 1, n) = [k \in 1 .. n |-> a[k]]
      /\ SubSeq(b, 1, n) = [k \in 1 .. n |-> b[k]]
  BY <1>0, <1>2, CutIs, SMTT(30)
<1>7. \A k \in 1 .. n : k \in 1 .. Len(b)
  BY <1>0, <1>2, SMTT(30)
<1> QED
  BY <1>5, <1>6, <1>7

\* Blanks after a text do not matter to what is read of it.
LEMMA PaddedReads ==
  ASSUME NEW S, NEW a \in Seq(S), NEW b \in Seq(S), Len(b) <= Len(a),
         \A k \in 1 .. Len(b) : a[k] = b[k],
         \A k \in Len(b) + 1 .. Len(a) : a[k] = Blank
  PROVE  Chop(Trim(a)) = Chop(Trim(b))
<1>0. Len(a) \in Nat /\ Len(b) \in Nat
  BY SeqIsFunction
<1>1. PICK n \in 0 .. Len(a) : Leads(a, n) /\ Trim(a) = SubSeq(a, n + 1, Len(a))
  BY TrimCuts
<1>2. PICK m \in 0 .. Len(b) : Leads(b, m) /\ Trim(b) = SubSeq(b, m + 1, Len(b))
  BY TrimCuts
<1>3. /\ \A i \in 1 .. n : a[i] = Blank
      /\ n < Len(a) => a[n + 1] # Blank
      /\ \A i \in 1 .. m : b[i] = Blank
      /\ m < Len(b) => b[m + 1] # Blank
  BY <1>1, <1>2 DEF Leads
<1>4. CASE n >= Len(b)
  <2>1. ~(n < Len(a))
    <3>1. n < Len(a) => n + 1 \in Len(b) + 1 .. Len(a)
      BY <1>0, <1>4, SMTT(30)
    <3> QED BY <1>3, <3>1
  <2>2. ~(m < Len(b))
    <3>1. m < Len(b) => m + 1 \in 1 .. Len(b) /\ m + 1 \in 1 .. n
      BY <1>0, <1>4, SMTT(30)
    <3> QED BY <1>3, <3>1
  <2>3. n = Len(a) /\ m = Len(b)
    BY <1>0, <2>1, <2>2, SMTT(30)
  <2>4. SubSeq(a, Len(a) + 1, Len(a)) = << >> /\ SubSeq(b, Len(b) + 1, Len(b)) = << >>
    BY <1>0, Cut, EmptyIsSeq, SMTT(30)
  <2> QED BY <1>1, <1>2, <2>3, <2>4
<1>5. CASE ~(n >= Len(b))
  <2>1. n < Len(b) /\ n < Len(a) /\ n + 1 \in 1 .. Len(b) /\ n \in Nat /\ m \in Nat
    BY <1>0, <1>5, SMTT(30)
  <2>2. b[n + 1] # Blank
    BY <1>3, <2>1
  <2>3. ~(n < m)
    <3>1. n < m => n + 1 \in 1 .. m
      BY <2>1, SMTT(30)
    <3> QED BY <1>3, <2>2, <3>1
  <2>4. ~(m < n)
    <3>1. m < n => m + 1 \in 1 .. n /\ m < Len(b) /\ m + 1 \in 1 .. Len(b)
      BY <1>0, <2>1, SMTT(30)
    <3> QED BY <1>3, <3>1
  <2>5. m = n
    BY <2>1, <2>3, <2>4, SMTT(30)
  <2> DEFINE u == SubSeq(a, n + 1, Len(a))
             v == SubSeq(b, n + 1, Len(b))
  <2>6. /\ u \in Seq(S) /\ Len(u) = Len(a) - n /\ \A k \in 1 .. Len(a) - n : u[k] = a[n + k]
        /\ v \in Seq(S) /\ Len(v) = Len(b) - n /\ \A k \in 1 .. Len(b) - n : v[k] = b[n + k]
    <3>1. ASSUME NEW t \in Seq(S), Len(t) \in Nat, n < Len(t)
          PROVE  /\ SubSeq(t, n + 1, Len(t)) \in Seq(S)
                 /\ Len(SubSeq(t, n + 1, Len(t))) = Len(t) - n
                 /\ \A k \in 1 .. Len(t) - n : SubSeq(t, n + 1, Len(t))[k] = t[n + k]
      BY <2>1, <3>1, Cut, SMTT(30)
    <3> QED BY <1>0, <2>1, <3>1
  <2> HIDE DEF u, v
  <2>7. Len(v) <= Len(u)
    BY <1>0, <2>1, <2>6, SMTT(30)
  <2>8. ASSUME NEW k \in 1 .. Len(v) PROVE u[k] = v[k]
    <3>1. k \in 1 .. Len(b) - n /\ k \in 1 .. Len(a) - n /\ n + k \in 1 .. Len(b)
      BY <1>0, <2>1, <2>6, SMTT(30)
    <3> QED BY <2>6, <3>1
  <2>9. ASSUME NEW k \in Len(v) + 1 .. Len(u) PROVE u[k] = Blank
    <3>1. k \in 1 .. Len(a) - n /\ n + k \in Len(b) + 1 .. Len(a)
      BY <1>0, <2>1, <2>6, SMTT(30)
    <3> QED BY <2>6, <3>1
  <2>10. Chop(u) = Chop(v)
    BY <2>6, <2>7, <2>8, <2>9, ChopPads
  <2> QED BY <1>1, <1>2, <2>5, <2>10 DEF u, v
<1> QED
  BY <1>4, <1>5

\* A line that is drawn is the line that Enter would run.
LEMMA DrawnIsWhatRuns == ASSUME EditorInv, Drawn PROVE ShownIsWhatRuns
<1>0. PICK M : M = 2 * Columns - PromptLen
  OBVIOUS
<1>1. M \in Nat /\ line_len <= M /\ line_len \in Nat
  BY <1>0, EditorNumbers, EditorAssumption, SMTT(30)
<1> DEFINE S == Char \cup {NUL}
<1>2. ASSUME NEW k \in 1 .. M
      PROVE  PromptLen + k - 1 \in Area /\ (PromptLen + k - 1) - PromptLen = k - 1
             /\ (PromptLen + k - 1 < PromptLen + line_len <=> k <= line_len)
  BY <1>0, <1>1, EditorNumbers, EditorAssumption, SMTT(30) DEF Area
<1>3. Shown = [k \in 1 .. M |-> cells[PromptLen + k - 1]]
  BY <1>0 DEF Shown
<1>4. Shown \in [1 .. M -> S]
  BY <1>2, <1>3, EditorTypes
<1>5. Shown \in Seq(S) /\ Len(Shown) = M
  BY <1>1, <1>4, FunctionIsSeq
<1>6. Line \in Texts /\ Len(Line) = line_len
  BY EditorTypes, FrontIsText DEF Line, EditorInv, LineIsText
<1>7. Line \in Seq(S)
  <2>1. Line \in Seq(Char)
    BY <1>6 DEF Texts
  <2>2. Line \in [1 .. line_len -> Char]
    BY <1>6, <2>1, SeqIsFunction
  <2>3. Line \in [1 .. line_len -> S]
    BY <2>2
  <2> QED BY <1>1, <2>3, FunctionIsSeq
<1>8. ASSUME NEW k \in 1 .. line_len PROVE Shown[k] = Line[k]
  <2>1. k \in 1 .. M /\ k <= line_len
    BY <1>1, SMTT(30)
  <2>2. Line[k] = current_line[k - 1]
    BY DEF Line, Front
  <2> QED BY <1>2, <1>3, <2>1, <2>2 DEF Drawn
<1>9. ASSUME NEW k \in line_len + 1 .. M PROVE Shown[k] = Blank
  <2>1. k \in 1 .. M /\ ~(k <= line_len)
    BY <1>1, SMTT(30)
  <2> QED BY <1>2, <1>3, <2>1 DEF Drawn
<1> HIDE DEF S
<1> QED
  BY <1>1, <1>5, <1>6, <1>7, <1>8, <1>9, PaddedReads DEF ShownIsWhatRuns

\* As long as no line has run on into the row below the prompt, what stands after the
\* prompt is, up to blanks at either end, the line that Enter would run.
THEOREM ScreenShowsWhatRuns == Spec /\ []LineFits => []ShownIsWhatRuns
<1>1. Init => EditorInv /\ Drawn
  BY EditorStarts
<1>2. EditorInv /\ Drawn /\ LineFits /\ LineFits' /\ [Next]_vars => EditorInv' /\ Drawn'
  BY EditorKeeps, ScreenKeeps
<1>3. EditorInv /\ Drawn => ShownIsWhatRuns
  BY DrawnIsWhatRuns
<1> QED
  BY <1>1, <1>2, <1>3, PTL DEF Spec
=============================================================================
