----------------------------- MODULE ParserProofs -----------------------------
(***************************************************************************)
(* process_command()'s parser is right for every line, every length of the *)
(* line buffer, every set of characters and every limit on the arguments.  *)
(***************************************************************************)
EXTENDS CommandParser, FiniteSetTheorems, TLAPS

\* Leaves are for Zenon unless they name SMT, which those with arithmetic do.
USE ZenonT(40)


Char == Letter \cup {Blank}
N == Len(typed)

\* The typed line is one, and it leaves room for its terminator.
TypedOK == typed \in Seq(Char) /\ N \in 0 .. MAX_CMD_LEN - 1

\* From byte b on, the buffer is as Enter left it.
Untouched(b) ==
  /\ \A i \in b .. N - 1 : current_line[i] = typed[i + 1]
  /\ current_line[N] = NUL

\* The words that begin before byte b, and how many they are.
Before(b) == {i \in WordStarts : i <= b}
Count(b) == Cardinality(Before(b))

\* No word runs on over byte b.
Boundary(b) == b = 0 \/ typed[b] = Blank

\* The word that begins at byte i - 1 is terminated before byte b.
Whole(i, b) ==
  \E m \in i .. N :
    /\ m < b /\ current_line[m] = NUL /\ (m = N \/ typed[m + 1] = Blank)
    /\ \A k \in i .. m : typed[k] # Blank /\ current_line[k - 1] = typed[k]

\* Entry k of argv is the k-th word, whole.
Entry(k, b) ==
  \E i \in WordStarts : Count(i) = k /\ argv[k] = i - 1 /\ Whole(i, b)
Entries(b) == \A k \in 1 .. Len(argv) : Entry(k, b)

\* What each loop of the parser relies on.
Trimming ==
  /\ argv = << >> /\ Untouched(0)
  /\ \A i \in 1 .. start : typed[i] = Blank
Between ==
  /\ Untouched(word_start) /\ Boundary(word_start)
  /\ Len(argv) = Count(word_start) /\ Entries(word_start)
InWord ==
  /\ Between
  /\ word_start < N /\ typed[word_start + 1] # Blank /\ Len(argv) < MAX_ARGS
  /\ word_start <= word_end
  /\ \A k \in word_start + 1 .. word_end : typed[k] # Blank

Finished ==
  /\ Entries(N + 1)
  /\ Len(argv) = Count(N) \/ (Len(argv) = MAX_ARGS /\ MAX_ARGS <= Count(N))

ParserInv ==
  /\ TypeOK /\ TypedOK
  /\ pc = "trim" => Trimming
  /\ pc = "words" => Between /\ current_line[word_start] # Blank
  /\ pc = "word" => InWord
  /\ pc = "skip" => Between
  /\ pc = "done" => Finished
-------------------------------------------------------------------------------
(* Sequences *)

\* A sequence is a function on the numbers up to its length.
LEMMA SeqIsFunction ==
  ASSUME NEW S, NEW s \in Seq(S)
  PROVE  /\ Len(s) \in Nat /\ s \in [1 .. Len(s) -> S] /\ DOMAIN s = 1 .. Len(s)
         /\ s = [k \in 1 .. Len(s) |-> s[k]] /\ \A k \in 1 .. Len(s) : s[k] \in S
BY SMTT(30)

\* A function on the numbers up to n is a sequence of length n.
LEMMA FunctionIsSeq ==
  ASSUME NEW S, NEW n \in Nat, NEW f \in [1 .. n -> S]
  PROVE  f \in Seq(S) /\ Len(f) = n
BY SMTT(30)

\* What Append returns.
LEMMA Appended ==
  ASSUME NEW S, NEW s \in Seq(S), NEW e \in S
  PROVE  /\ Append(s, e) \in Seq(S) /\ Len(Append(s, e)) = Len(s) + 1
         /\ \A k \in 1 .. Len(s) : Append(s, e)[k] = s[k]
         /\ Append(s, e)[Len(s) + 1] = e
BY SMTT(30)

\* What SubSeq returns.
LEMMA Cut ==
  ASSUME NEW S, NEW s \in Seq(S), NEW m \in 1 .. Len(s) + 1, NEW n \in m - 1 .. Len(s)
  PROVE  SubSeq(s, m, n) = [k \in 1 .. n - m + 1 |-> s[m + k - 1]]
BY SMTT(30)
-------------------------------------------------------------------------------
(* Counting words *)

\* What is assumed of the constants.
LEMMA Widths ==
  /\ MAX_CMD_LEN \in Nat \ {0} /\ Bytes = 0 .. MAX_CMD_LEN - 1
  /\ MAX_ARGS \in Nat /\ Blank # NUL /\ NUL \notin Char
BY ParserAssumption, SMTT(30) DEF Bytes, Char

\* The bytes of a line, without an interval.
LEMMA InBytes == \A x : x \in Bytes <=> x \in Nat /\ x < MAX_CMD_LEN
BY Widths, SMTT(30)

\* The words of a line can be counted.
LEMMA WordsAreFinite ==
  ASSUME TypedOK
  PROVE  /\ N \in Nat /\ WordStarts \subseteq 1 .. N
         /\ IsFiniteSet(WordStarts) /\ Cardinality(WordStarts) \in Nat
<1>1. N \in Nat /\ WordStarts \subseteq 1 .. N
  BY Widths, SMTT(30) DEF TypedOK, WordStarts, N
<1>2. IsFiniteSet(1 .. N)
  BY <1>1, FS_Interval, SMTT(30)
<1> QED
  BY <1>1, <1>2, FS_Subset, FS_CardinalityType

\* The words before a byte, up to the end of the line, where they are all of them.
LEMMA CountRange ==
  ASSUME TypedOK, NEW b \in Nat
  PROVE  /\ IsFiniteSet(Before(b)) /\ Count(b) \in Nat
         /\ Count(b) <= Cardinality(WordStarts)
         /\ Count(N) = Cardinality(WordStarts)
<1>1. Before(b) \subseteq WordStarts
  BY DEF Before
<1>2. Before(N) = WordStarts
  BY WordsAreFinite, SMTT(30) DEF Before
<1> QED
  BY <1>1, <1>2, WordsAreFinite, FS_Subset, FS_CardinalityType DEF Count

\* A word that begins at byte b counts as one.
LEMMA CountWord ==
  ASSUME TypedOK, NEW b \in Nat, b + 1 \in WordStarts
  PROVE  Count(b + 1) = Count(b) + 1
<1>1. Before(b + 1) = Before(b) \cup {b + 1}
  BY WordsAreFinite, SMTT(30) DEF Before
<1>2. b + 1 \notin Before(b)
  BY SMTT(30) DEF Before
<1> QED
  BY <1>1, <1>2, CountRange, FS_AddElement DEF Count

\* Bytes at which no word begins do not count.
LEMMA CountNone ==
  ASSUME TypedOK, NEW a \in Nat, NEW b \in Nat, a <= b,
         \A i \in a + 1 .. b : i \notin WordStarts
  PROVE  Count(b) = Count(a)
<1>1. Before(b) = Before(a)
  BY WordsAreFinite, SMTT(30) DEF Before
<1> QED
  BY <1>1 DEF Count

\* A word begins where a letter follows a boundary, and nowhere else.
LEMMA WordBegins ==
  ASSUME TypedOK, NEW b \in Nat
  PROVE  /\ b < N /\ Boundary(b) /\ typed[b + 1] # Blank => b + 1 \in WordStarts
         /\ b + 1 \in WordStarts => typed[b + 1] # Blank /\ Boundary(b)
<1>1. b + 1 = 1 <=> b = 0
  BY SMTT(30)
<1>2. b + 1 - 1 = b
  BY SMTT(30)
<1>3. b + 1 \in 1 .. N <=> b < N
  BY WordsAreFinite, SMTT(30)
<1>4. b + 1 \in WordStarts <=>
        b + 1 \in 1 .. N /\ typed[b + 1] # Blank /\ (b + 1 = 1 \/ typed[b + 1 - 1] = Blank)
  BY SMTT(30) DEF WordStarts, N
<1> QED
  BY <1>1, <1>2, <1>3, <1>4 DEF Boundary
-------------------------------------------------------------------------------
(* What argv points at *)

\* The C string at the start of a whole word is the word.
LEMMA WholeReads ==
  ASSUME TypedOK, NEW i \in WordStarts, Whole(i, N + 1)
  PROVE  StringAt(i - 1) = WordAt(i)
<1>0. i \in 1 .. N /\ N \in Nat /\ N <= MAX_CMD_LEN - 1 /\ MAX_CMD_LEN \in Nat
  BY WordsAreFinite, Widths, SMTT(30) DEF TypedOK
<1>1. PICK m \in i .. N :
        /\ current_line[m] = NUL /\ (m = N \/ typed[m + 1] = Blank)
        /\ \A k \in i .. m : typed[k] # Blank /\ current_line[k - 1] = typed[k]
  BY DEF Whole
<1>2. \A k \in 1 .. N : typed[k] \in Char
  BY <1>0, SeqIsFunction DEF TypedOK, N
<1>3. \A k \in i .. m : current_line[k - 1] # NUL
  <2> SUFFICES ASSUME NEW k \in i .. m PROVE current_line[k - 1] # NUL
    OBVIOUS
  <2>1. k \in 1 .. N
    BY <1>0, SMTT(30)
  <2> QED BY <1>1, <1>2, <2>1, Widths
<1>4. \A b \in i - 1 .. m - 1 : current_line[b] # NUL
  <2> SUFFICES ASSUME NEW b \in i - 1 .. m - 1 PROVE current_line[b] # NUL
    OBVIOUS
  <2>1. b + 1 \in i .. m /\ (b + 1) - 1 = b
    BY <1>0, SMTT(30)
  <2> QED BY <1>3, <2>1
<1>5. m \in i - 1 .. MAX_CMD_LEN - 1
  BY <1>0, SMTT(30)
<1>6. \A n \in i - 1 .. MAX_CMD_LEN - 1 :
        current_line[n] = NUL /\ (\A j \in i - 1 .. n - 1 : current_line[j] # NUL) => n = m
  BY <1>0, <1>1, <1>4, SMTT(30)
<1>7. m = CHOOSE n \in i - 1 .. MAX_CMD_LEN - 1 :
            current_line[n] = NUL /\ \A j \in i - 1 .. n - 1 : current_line[j] # NUL
  BY <1>1, <1>4, <1>5, <1>6
<1>8. StringAt(i - 1) = [k \in 1 .. m - (i - 1) |-> current_line[i - 1 + k - 1]]
  BY <1>7 DEF StringAt
<1>9. \A j \in i .. N :
        (\A k \in i .. j : typed[k] # Blank) /\ (j < N => typed[j + 1] = Blank) => j = m
  BY <1>0, <1>1, SMTT(30)
<1>10. m = CHOOSE j \in i .. N :
             /\ \A k \in i .. j : typed[k] # Blank
             /\ j < N => typed[j + 1] = Blank
  <2>1. m < N => m # N
    BY <1>0, SMTT(30)
  <2> QED BY <1>1, <1>9, <2>1
<1>11. WordAt(i) = SubSeq(typed, i, m)
  BY <1>10 DEF WordAt, N
<1>12. SubSeq(typed, i, m) = [k \in 1 .. m - i + 1 |-> typed[i + k - 1]]
  BY <1>0, Cut, SMTT(30) DEF TypedOK, N
<1>13. \A k \in 1 .. m - i + 1 : current_line[i - 1 + k - 1] = typed[i + k - 1]
  <2> SUFFICES ASSUME NEW k \in 1 .. m - i + 1
               PROVE  current_line[i - 1 + k - 1] = typed[i + k - 1]
    OBVIOUS
  <2>1. i + k - 1 \in i .. m /\ (i + k - 1) - 1 = i - 1 + k - 1
    BY <1>0, SMTT(30)
  <2> QED BY <1>1, <2>1
<1>14. m - (i - 1) = m - i + 1
  BY <1>0, SMTT(30)
<1> QED
  BY <1>8, <1>11, <1>12, <1>13, <1>14
-------------------------------------------------------------------------------
(* The steps of the parser *)

\* The typed line never changes, and what is said of it alone does not either.
LEMMA SameLine ==
  ASSUME typed' = typed
  PROVE  /\ N' = N /\ (TypedOK' <=> TypedOK) /\ WordStarts' = WordStarts
         /\ \A b : Count(b)' = Count(b) /\ (Boundary(b)' <=> Boundary(b))
<1>1. N' = N /\ WordStarts' = WordStarts
  BY DEF N, WordStarts
<1> QED
  BY <1>1 DEF TypedOK, Count, Before, Boundary

\* A step that changes neither the buffer nor argv.
LEMMA SameText ==
  ASSUME UNCHANGED <<typed, current_line, argv>>, NEW b
  PROVE  (Untouched(b)' <=> Untouched(b)) /\ (Entries(b)' <=> Entries(b))
<1>1. (Untouched(b)' <=> Untouched(b))
  BY SameLine DEF Untouched
<1>2. \A i : (Whole(i, b)' <=> Whole(i, b))
  BY SameLine DEF Whole
<1>3. \A k : (Entry(k, b)' <=> Entry(k, b))
  BY <1>2, SameLine DEF Entry
<1> QED
  BY <1>1, <1>3 DEF Entries

\* The pointers and the bytes, as integers and characters.
LEMMA ParserTypes ==
  ASSUME ParserInv
  PROVE  /\ TypedOK /\ N \in Nat /\ N <= MAX_CMD_LEN - 1 /\ MAX_CMD_LEN \in Nat
         /\ start \in 0 .. N /\ word_start \in 0 .. N /\ word_end \in 0 .. N
         /\ argv \in Seq(Bytes) /\ Len(argv) \in Nat /\ Len(argv) <= MAX_ARGS
         /\ MAX_ARGS \in Nat
         /\ \A k \in 1 .. N : typed[k] \in Char /\ typed[k] # NUL
<1>1. TypedOK /\ N \in Nat /\ N <= MAX_CMD_LEN - 1 /\ MAX_CMD_LEN \in Nat
  BY Widths, SMTT(30) DEF ParserInv, TypedOK
<1>2. start \in 0 .. N /\ word_start \in 0 .. N /\ word_end \in 0 .. N
  BY DEF ParserInv, TypeOK, N
<1>3. argv \in Seq(Bytes) /\ Len(argv) <= MAX_ARGS
  BY Widths DEF ParserInv, TypeOK
<1>4. Len(argv) \in Nat
  BY <1>3, SeqIsFunction
<1>5. \A k \in 1 .. N : typed[k] \in Char
  BY <1>1, SeqIsFunction DEF TypedOK, N
<1> QED
  BY <1>1, <1>2, <1>3, <1>4, <1>5, Widths

\* The integers among them.
LEMMA ParserNumbers ==
  ASSUME ParserInv
  PROVE  /\ N \in Nat /\ N <= MAX_CMD_LEN - 1 /\ MAX_CMD_LEN \in Nat
         /\ start \in 0 .. N /\ word_start \in 0 .. N /\ word_end \in 0 .. N
BY ParserTypes

\* The number of arguments.
LEMMA ArgvNumbers ==
  ASSUME ParserInv
  PROVE  Len(argv) \in Nat /\ Len(argv) <= MAX_ARGS /\ MAX_ARGS \in Nat
BY ParserTypes


\* A step that moves pointers within the line keeps the types.
LEMMA PointersMove ==
  ASSUME ParserInv, UNCHANGED <<typed, current_line, argv>>,
         start' \in 0 .. N, word_start' \in 0 .. N, word_end' \in 0 .. N,
         pc' \in {"trim", "words", "word", "skip", "done"}
  PROVE  TypeOK' /\ TypedOK'
<1>1. N' = N /\ TypedOK'
  BY SameLine DEF ParserInv
<1> QED
  BY <1>1 DEF ParserInv, TypeOK, N

\* A byte of the text that is not yet cut is the character typed there.
LEMMA ByteIs ==
  ASSUME ParserInv, NEW a \in 0 .. N, Untouched(a), NEW b \in a .. N
  PROVE  /\ b < N => current_line[b] = typed[b + 1] /\ current_line[b] # NUL
         /\ b = N <=> current_line[b] = NUL
<1>1. b \in 0 .. N /\ (b < N => b \in a .. N - 1 /\ b + 1 \in 1 .. N) /\ (b < N \/ b = N)
      /\ (b < N => b # N)
  BY ParserNumbers, SMTT(30)
<1> QED
  BY <1>1, ParserTypes DEF Untouched

\* Entries that are whole before byte a are whole before any later byte.
LEMMA EntriesGrow ==
  ASSUME NEW a \in Nat, NEW b \in Nat, a <= b, N \in Nat, Entries(a)
  PROVE  Entries(b)
<1>1. \A i \in WordStarts : Whole(i, a) => Whole(i, b)
  <2> SUFFICES ASSUME NEW i \in WordStarts, Whole(i, a) PROVE Whole(i, b)
    OBVIOUS
  <2>1. PICK m \in i .. N :
          /\ m < a /\ current_line[m] = NUL /\ (m = N \/ typed[m + 1] = Blank)
          /\ \A k \in i .. m : typed[k] # Blank /\ current_line[k - 1] = typed[k]
    BY DEF Whole
  <2>2. i \in Nat
    BY SMTT(30) DEF WordStarts
  <2>3. m < b
    BY <2>1, <2>2, SMTT(30)
  <2> QED BY <2>1, <2>3 DEF Whole
<1> QED
  BY <1>1 DEF Entries, Entry

\* while (*start == ' ')
LEMMA TrimStartKeeps == ASSUME ParserInv, TrimStart PROVE ParserInv'
<1>0. /\ pc = "trim" /\ Trimming
      /\ UNCHANGED <<typed, current_line, word_end, argv>>
  BY DEF ParserInv, TrimStart
<1>1. N' = N /\ TypedOK /\ Untouched(0) /\ 0 \in 0 .. N /\ start \in 0 .. N
  BY <1>0, ParserTypes, SameLine, SMTT(30) DEF Trimming
<1>2. CASE current_line[start] = Blank
  <2>1. start' = start + 1 /\ word_start' = word_start /\ pc' = "trim"
    BY <1>0, <1>2 DEF TrimStart
  <2>2. start < N /\ typed[start + 1] = Blank
    <3>1. start # N
      BY <1>0, <1>2, Widths DEF Trimming, Untouched
    <3>2. start < N
      BY <1>1, <3>1, ParserNumbers, SMTT(30)
    <3> QED BY <1>1, <1>2, <3>2, ByteIs
  <2>3. start' \in 0 .. N
    BY <2>1, <2>2, ParserNumbers, SMTT(30)
  <2>4. TypeOK' /\ TypedOK'
    BY <1>0, <2>1, <2>3, ParserTypes, PointersMove
  <2>5. \A i \in 1 .. start' : typed[i] = Blank
    BY <1>0, <2>1, <2>2, ParserNumbers, SMTT(30) DEF Trimming
  <2>6. Trimming'
    BY <1>0, <1>1, <2>5, SameText DEF Trimming
  <2> QED
    BY <2>1, <2>4, <2>6 DEF ParserInv
<1>3. CASE current_line[start] # Blank
  <2>1. start' = start /\ word_start' = start /\ pc' = "words"
    BY <1>0, <1>3 DEF TrimStart
  <2>2. TypeOK' /\ TypedOK'
    BY <1>0, <2>1, ParserTypes, PointersMove
  <2>3. Untouched(start)
    BY <1>1, ParserNumbers, SMTT(30) DEF Untouched
  <2>4. Boundary(start)
    BY <1>0, <1>1, SMTT(30) DEF Trimming, Boundary
  <2>5. Count(start) = 0
    <3>1. \A i \in 0 + 1 .. start : i \notin WordStarts
      BY <1>0, <1>1, WordsAreFinite, SMTT(30) DEF Trimming, WordStarts
    <3>2. Before(0) = {}
      BY <1>1, WordsAreFinite, SMTT(30) DEF Before
    <3>3. 0 \in Nat /\ start \in Nat /\ 0 <= start
      BY <1>1, SMTT(30)
    <3>4. Count(start) = Count(0)
      BY <1>1, <3>1, <3>3, CountNone
    <3> QED BY <3>2, <3>4, FS_EmptySet DEF Count
  <2>6. Len(argv) = 0 /\ Entries(start)
    BY <1>0, SMTT(30) DEF Trimming, Entries
  <2>7. Between'
    BY <1>0, <2>1, <2>3, <2>4, <2>5, <2>6, SameLine, SameText DEF Between
  <2> QED
    BY <1>0, <1>3, <2>1, <2>2, <2>7 DEF ParserInv
<1> QED
  BY <1>2, <1>3
\* while (*word_start && argc < MAX_ARGS)
LEMMA MoreWordsKeeps ==
  ASSUME ParserInv, MoreWords
  PROVE  ParserInv'
<1>0. /\ pc = "words" /\ Between /\ current_line[word_start] # Blank
      /\ UNCHANGED <<typed, current_line, start, word_start, argv>>
  BY DEF ParserInv, MoreWords
<1>1. N' = N /\ TypedOK /\ Untouched(word_start) /\ word_start \in 0 .. N
  BY <1>0, ParserTypes, SameLine DEF Between
<1>2. word_start \in word_start .. N /\ word_start \in Nat /\ word_start <= N + 1
      /\ N + 1 \in Nat /\ N \in Nat
  BY <1>1, ParserNumbers, SMTT(30)
<1>3. CASE current_line[word_start] # NUL /\ Len(argv) < MAX_ARGS
  <2>1. word_end' = word_start /\ pc' = "word"
    BY <1>0, <1>3 DEF MoreWords
  <2>2. TypeOK' /\ TypedOK'
    BY <1>0, <2>1, ParserTypes, PointersMove
  <2>3. word_start < N /\ typed[word_start + 1] # Blank
    <3>1. word_start # N
      BY <1>1, <1>2, <1>3, ByteIs
    <3>2. word_start < N
      BY <1>1, <3>1, ParserNumbers, SMTT(30)
    <3> QED BY <1>0, <1>1, <1>2, <3>2, ByteIs
  <2>4. Between'
    BY <1>0, SameLine, SameText DEF Between
  <2>5. word_start <= word_start /\ word_start + 1 .. word_start = {}
    BY <1>1, ParserNumbers, SMTT(30)
  <2>6. InWord'
    BY <1>0, <1>1, <1>3, <2>1, <2>3, <2>4, <2>5 DEF InWord
  <2> QED
    BY <2>1, <2>2, <2>6 DEF ParserInv
<1>4. CASE ~(current_line[word_start] # NUL /\ Len(argv) < MAX_ARGS)
  <2>1. word_end' = word_end /\ pc' = "done"
    BY <1>0, <1>4 DEF MoreWords
  <2>2. TypeOK' /\ TypedOK'
    BY <1>0, <2>1, ParserTypes, PointersMove
  <2>3. Entries(N + 1)
    BY <1>0, <1>2, EntriesGrow DEF Between
  <2>4. Len(argv) = Count(N) \/ (Len(argv) = MAX_ARGS /\ MAX_ARGS <= Count(N))
    <3>1. CASE current_line[word_start] = NUL
      BY <1>0, <1>1, <1>2, <3>1, ByteIs DEF Between
    <3>2. CASE ~(Len(argv) < MAX_ARGS)
      <4>1. Len(argv) = MAX_ARGS
        BY <3>2, ArgvNumbers, SMTT(30)
      <4>2. Count(word_start) <= Count(N)
        BY <1>1, <1>2, CountRange
      <4> QED BY <1>0, <4>1, <4>2 DEF Between
    <3> QED BY <1>4, <3>1, <3>2
  <2>5. Finished'
    BY <1>0, <1>1, <2>3, <2>4, SameLine, SameText DEF Finished
  <2> QED
    BY <2>1, <2>2, <2>5 DEF ParserInv
<1> QED
  BY <1>3, <1>4

\* while (*word_end && *word_end != ' ')
LEMMA ScanWordKeeps == ASSUME ParserInv, ScanWord PROVE ParserInv'
<1>0. /\ pc = "word" /\ InWord /\ current_line[word_end] \notin {NUL, Blank}
      /\ word_end' = word_end + 1
      /\ UNCHANGED <<typed, current_line, start, word_start, argv, pc>>
  BY DEF ParserInv, ScanWord
<1>1. N' = N /\ TypedOK /\ Untouched(word_start) /\ word_start \in 0 .. N
      /\ word_end \in word_start .. N
  BY <1>0, ParserTypes, SameLine, SMTT(30) DEF InWord, Between
<1>2. word_end < N /\ typed[word_end + 1] # Blank
  <2>1. word_end # N
    BY <1>0, <1>1, ByteIs
  <2>2. word_end < N
    BY <1>1, <2>1, ParserNumbers, SMTT(30)
  <2> QED BY <1>0, <1>1, <2>2, ByteIs
<1>3. word_end' \in 0 .. N /\ word_start <= word_end'
  BY <1>0, <1>1, <1>2, ParserNumbers, SMTT(30)
<1>4. TypeOK' /\ TypedOK'
  BY <1>0, <1>3, ParserTypes, PointersMove DEF ParserInv, TypeOK
<1>5. \A k \in word_start + 1 .. word_end' : typed[k] # Blank
  <2> SUFFICES ASSUME NEW k \in word_start + 1 .. word_end' PROVE typed[k] # Blank
    OBVIOUS
  <2>1. k = word_end + 1 \/ k \in word_start + 1 .. word_end
    BY <1>0, <1>1, SMTT(30)
  <2> QED BY <1>0, <1>2, <2>1 DEF InWord
<1>6. Between'
  BY <1>0, SameLine, SameText DEF InWord, Between
<1>7. InWord'
  BY <1>0, <1>1, <1>3, <1>5, <1>6 DEF InWord
<1> QED
  BY <1>0, <1>4, <1>7 DEF ParserInv

\* while (*word_start == ' ')
LEMMA SkipBlanksKeeps == ASSUME ParserInv, SkipBlanks PROVE ParserInv'
<1>0. /\ pc = "skip" /\ Between
      /\ UNCHANGED <<typed, current_line, start, word_end, argv>>
  BY DEF ParserInv, SkipBlanks
<1>1. N' = N /\ TypedOK /\ Untouched(word_start) /\ word_start \in 0 .. N
  BY <1>0, ParserTypes, SameLine DEF Between
<1>2. word_start \in word_start .. N /\ word_start \in Nat /\ word_start + 1 \in Nat
      /\ word_start <= word_start + 1 /\ N \in Nat
  BY <1>1, ParserNumbers, SMTT(30)
<1>3. CASE current_line[word_start] = Blank
  <2>1. word_start' = word_start + 1 /\ pc' = "skip"
    BY <1>0, <1>3 DEF SkipBlanks
  <2>2. word_start < N /\ typed[word_start + 1] = Blank
    <3>1. word_start # N
      BY <1>1, <1>2, <1>3, ByteIs, Widths
    <3>2. word_start < N
      BY <1>1, <3>1, ParserNumbers, SMTT(30)
    <3> QED BY <1>1, <1>2, <1>3, <3>2, ByteIs
  <2>3. word_start' \in 0 .. N
    BY <1>1, <1>2, <2>1, <2>2, SMTT(30)
  <2>4. TypeOK' /\ TypedOK'
    BY <1>0, <2>1, <2>3, ParserTypes, PointersMove
  <2>5. Untouched(word_start + 1)
    BY <1>1, <1>2, SMTT(30) DEF Untouched
  <2>6. Boundary(word_start + 1)
    BY <2>2 DEF Boundary
  <2>7. Count(word_start + 1) = Count(word_start)
    <3>1. word_start + 1 \notin WordStarts
      BY <1>1, <1>2, <2>2, WordBegins
    <3>2. \A i \in word_start + 1 .. word_start + 1 : i \notin WordStarts
      BY <1>2, <3>1, SMTT(30)
    <3> QED BY <1>1, <1>2, <3>2, CountNone
  <2>8. Entries(word_start + 1)
    BY <1>0, <1>2, EntriesGrow DEF Between
  <2>9. Between'
    BY <1>0, <2>1, <2>5, <2>6, <2>7, <2>8, SameLine, SameText DEF Between
  <2> QED
    BY <2>1, <2>4, <2>9 DEF ParserInv
<1>4. CASE current_line[word_start] # Blank
  <2>1. word_start' = word_start /\ pc' = "words"
    BY <1>0, <1>4 DEF SkipBlanks
  <2>2. TypeOK' /\ TypedOK'
    BY <1>0, <2>1, ParserTypes, PointersMove
  <2>3. Between'
    BY <1>0, <2>1, SameLine, SameText DEF Between
  <2> QED
    BY <1>0, <1>4, <2>1, <2>2, <2>3 DEF ParserInv
<1> QED
  BY <1>3, <1>4
\* argv[argc++] = word_start, with a terminator at the end of the word: the new
\* entry is the next word, whole, and the earlier ones are still what they were.
LEMMA NewEntry ==
  ASSUME ParserInv, pc = "word", current_line[word_end] \in {NUL, Blank},
         typed' = typed, argv' = Append(argv, word_start),
         current_line'[word_end] = NUL,
         \A j \in 0 .. N : j # word_end => current_line'[j] = current_line[j],
         NEW b, b = word_end + 1
  PROVE  /\ Entries(b)' /\ Len(argv') = Count(b) /\ word_start < word_end
         /\ word_end = N \/ (word_end < N /\ typed[word_end + 1] = Blank)
<1>0. /\ InWord /\ Between /\ N' = N /\ TypedOK /\ Untouched(word_start)
      /\ word_start \in 0 .. N
  BY ParserTypes, SameLine DEF ParserInv, InWord, Between
<1>1. word_end \in word_start .. N /\ word_start \in word_start .. N
  BY <1>0, ParserNumbers, SMTT(30) DEF InWord
<1>2. word_start < word_end
  <2>1. current_line[word_start] \notin {NUL, Blank}
    BY <1>0, <1>1, ByteIs DEF InWord
  <2> QED BY <1>1, <2>1, SMTT(30)
<1>3. word_end = N \/ (word_end < N /\ typed[word_end + 1] = Blank)
  <2>1. word_end = N \/ word_end < N
    BY <1>1, ParserNumbers, SMTT(30)
  <2> QED BY <1>0, <1>1, <2>1, ByteIs
<1>4. word_start \in Nat /\ word_end \in Nat /\ word_start + 1 \in Nat /\ b \in Nat
      /\ word_start + 1 <= b /\ N \in Nat
  BY <1>0, <1>1, ParserNumbers, SMTT(30)
<1>5. word_start + 1 \in WordStarts
  BY <1>0, <1>4, WordBegins DEF InWord, Between
<1>6. Count(word_start + 1) = Len(argv) + 1
  BY <1>0, <1>4, <1>5, CountWord DEF Between
<1>7. Count(b) = Count(word_start + 1)
  <2>1. ASSUME NEW i \in word_start + 1 + 1 .. b PROVE i \notin WordStarts
    <3>1. i - 1 \in Nat /\ (i - 1) + 1 = i /\ i - 1 \in word_start + 1 .. word_end /\ i - 1 # 0
      BY <1>4, SMTT(30)
    <3>2. ~Boundary(i - 1)
      BY <1>0, <3>1 DEF InWord, Boundary
    <3> QED BY <1>0, <3>1, <3>2, WordBegins
  <2> QED BY <1>0, <1>4, <2>1, CountNone
<1>8. /\ Len(argv') = Len(argv) + 1 /\ argv'[Len(argv) + 1] = word_start
      /\ \A k \in 1 .. Len(argv) : argv'[k] = argv[k]
  <2>1. word_start \in Bytes
    BY <1>0, ParserNumbers, InBytes, SMTT(30)
  <2>2. argv \in Seq(Bytes)
    BY ParserTypes
  <2> QED BY <2>1, <2>2, Appended, SMTT(30)
<1>9. ASSUME NEW k \in 1 .. Len(argv) PROVE Entry(k, b)'
  <2>1. PICK i \in WordStarts :
          Count(i) = k /\ argv[k] = i - 1 /\ Whole(i, word_start)
    BY <1>0 DEF Between, Entries, Entry
  <2>2. PICK m \in i .. N :
          /\ m < word_start /\ current_line[m] = NUL /\ (m = N \/ typed[m + 1] = Blank)
          /\ \A j \in i .. m : typed[j] # Blank /\ current_line[j - 1] = typed[j]
    BY <2>1 DEF Whole
  <2>3. i \in 1 .. N /\ m < b /\ m \in 0 .. N /\ m # word_end
    <3>1. i \in 1 .. N /\ m < word_start
      BY <1>0, <2>2, WordsAreFinite
    <3> QED BY <1>1, <1>4, <3>1, SMTT(30)
  <2>4. ASSUME NEW j \in i .. m PROVE j - 1 \in 0 .. N /\ j - 1 # word_end
    <3>1. m < word_start
      BY <2>2
    <3> QED BY <1>1, <1>4, <2>3, <3>1, SMTT(30)
  <2>5. Whole(i, b)'
    BY <1>0, <2>2, <2>3, <2>4 DEF Whole
  <2> QED BY <1>8, <2>1, <2>5, SameLine DEF Entry
<1>10. ASSUME NEW k, k = Len(argv) + 1 PROVE Entry(k, b)'
  <2>1. PICK i : i = word_start + 1
    OBVIOUS
  <2>2. word_end \in i .. N /\ word_end < b /\ i - 1 = word_start
    BY <1>1, <1>2, <1>4, <2>1, SMTT(30)
  <2>3. ASSUME NEW j \in i .. word_end
        PROVE  typed[j] # Blank /\ current_line'[j - 1] = typed[j]
    <3>1. /\ j - 1 \in word_start .. N /\ j - 1 \in 0 .. N /\ j - 1 # word_end
          /\ j - 1 < N /\ (j - 1) + 1 = j
      BY <1>1, <1>4, <2>1, SMTT(30)
    <3>2. current_line[j - 1] = typed[j]
      BY <1>0, <3>1, ByteIs
    <3> QED BY <1>0, <2>1, <3>1, <3>2 DEF InWord
  <2>4. Whole(i, b)'
    BY <1>0, <1>3, <2>2, <2>3 DEF Whole
  <2> QED BY <1>5, <1>6, <1>8, <1>10, <2>1, <2>2, <2>4, SameLine DEF Entry
<1>11. Entries(b)'
  <2> SUFFICES ASSUME NEW k \in 1 .. Len(argv') PROVE Entry(k, b)'
    BY DEF Entries
  <2>1. k = Len(argv) + 1 \/ k \in 1 .. Len(argv)
    <3>1. Len(argv') = Len(argv) + 1
      BY <1>8
    <3> QED BY <3>1, ArgvNumbers, SMTT(30)
  <2> QED BY <1>9, <1>10, <2>1
<1> QED
  BY <1>2, <1>3, <1>6, <1>7, <1>8, <1>11

\* The types after a word has been entered.
LEMMA EnteredTypes ==
  ASSUME ParserInv, typed' = typed, Len(argv) < MAX_ARGS,
         argv' = Append(argv, word_start),
         current_line' \in [Bytes -> Letter \cup {Blank, NUL}],
         start' \in 0 .. N, word_start' \in 0 .. N, word_end' \in 0 .. N,
         pc' \in {"trim", "words", "word", "skip", "done"}
  PROVE  TypeOK' /\ TypedOK'
<1>1. N' = N /\ TypedOK'
  BY SameLine DEF ParserInv
<1>2. word_start \in Bytes
  BY ParserNumbers, InBytes, SMTT(30)
<1>3. argv' \in Seq(Bytes) /\ Len(argv') = Len(argv) + 1
  <2>1. argv \in Seq(Bytes)
    BY ParserTypes
  <2> QED BY <1>2, <2>1, Appended
<1>4. Len(argv') <= MAX_ARGS
  <2>1. Len(argv') = Len(argv) + 1
    BY <1>3
  <2> QED BY <2>1, ArgvNumbers, SMTT(30)
<1> QED
  BY <1>1, <1>3, <1>4, Widths DEF TypeOK, N

\* A blank ends the word
LEMMA EndWordKeeps ==
  ASSUME ParserInv, EndWord
  PROVE  ParserInv'
<1>0. /\ pc = "word" /\ current_line[word_end] = Blank
      /\ argv' = Append(argv, word_start)
      /\ current_line' = [current_line EXCEPT ![word_end] = NUL]
      /\ word_start' = word_end + 1 /\ pc' = "skip"
      /\ UNCHANGED <<typed, start, word_end>>
  BY DEF EndWord
<1>1. N' = N /\ TypedOK /\ InWord /\ Between
  BY <1>0, ParserTypes, SameLine DEF ParserInv, InWord
<1>2. current_line \in [Bytes -> Letter \cup {Blank, NUL}] /\ word_end \in Bytes
      /\ 0 .. N \subseteq Bytes
  <2>1. word_end \in Bytes /\ 0 .. N \subseteq Bytes
    BY ParserNumbers, InBytes, SMTT(30)
  <2> QED BY <2>1, Widths DEF ParserInv, TypeOK
<1>3. /\ current_line' \in [Bytes -> Letter \cup {Blank, NUL}] /\ current_line'[word_end] = NUL
      /\ \A j \in 0 .. N : j # word_end => current_line'[j] = current_line[j]
  BY <1>0, <1>2
<1>4. /\ Entries(word_end + 1)' /\ Len(argv') = Count(word_end + 1)
      /\ word_end = N \/ (word_end < N /\ typed[word_end + 1] = Blank)
      /\ word_start < word_end
  <2> DEFINE b == word_end + 1
  <2> HIDE DEF b
  <2>1. b = word_end + 1 /\ b' = b
    BY <1>0 DEF b
  <2>2. /\ Entries(b)' /\ Len(argv') = Count(b) /\ word_start < word_end
        /\ word_end = N \/ (word_end < N /\ typed[word_end + 1] = Blank)
    BY <1>0, <1>3, <2>1, NewEntry
  <2> QED BY <1>0, <2>1, <2>2
<1>5. word_end < N /\ typed[word_end + 1] = Blank
  <2>1. word_end \in word_start .. N /\ word_start \in 0 .. N
    <3>1. word_start < word_end
      BY <1>4
    <3> QED BY <3>1, ParserNumbers, SMTT(30)
  <2>2. word_end # N
    BY <1>0, <1>1, <2>1, ByteIs, Widths DEF Between
  <2> QED BY <1>4, <2>2
<1>6. word_start' \in 0 .. N
  BY <1>0, <1>5, ParserNumbers, SMTT(30)
<1>7. TypeOK' /\ TypedOK'
  BY <1>0, <1>1, <1>3, <1>6, ParserTypes, EnteredTypes DEF InWord
<1>8. Untouched(word_end + 1)'
  <2>1. ASSUME NEW j \in word_end + 1 .. N - 1
        PROVE  j \in word_start .. N - 1 /\ j \in 0 .. N /\ j # word_end
    <3>1. word_start < word_end
      BY <1>4
    <3> QED BY <3>1, ParserNumbers, SMTT(30)
  <2>2. N \in 0 .. N /\ N # word_end
    BY <1>5, ParserNumbers, SMTT(30)
  <2> QED BY <1>0, <1>1, <1>3, <2>1, <2>2 DEF Between, Untouched
<1>9. Between'
  BY <1>0, <1>4, <1>5, <1>8, SameLine DEF Between, Boundary
<1> QED
  BY <1>0, <1>7, <1>9 DEF ParserInv
\* The end of the line ends the word, and the scan.
LEMMA LastWordKeeps ==
  ASSUME ParserInv, LastWord
  PROVE  ParserInv'
<1>0. /\ pc = "word" /\ current_line[word_end] = NUL
      /\ argv' = Append(argv, word_start) /\ pc' = "done"
      /\ UNCHANGED <<typed, current_line, start, word_start, word_end>>
  BY DEF LastWord
<1>1. N' = N /\ TypedOK /\ InWord /\ Between
  BY <1>0, ParserTypes, SameLine DEF ParserInv, InWord
<1>2. TypeOK' /\ TypedOK'
  <2>1. current_line' \in [Bytes -> Letter \cup {Blank, NUL}]
    BY <1>0, Widths DEF ParserInv, TypeOK
  <2> QED
    BY <1>0, <1>1, <2>1, ParserTypes, EnteredTypes DEF InWord
<1>3. PICK b : b = word_end + 1
  OBVIOUS
<1>4. Entries(b)' /\ Len(argv') = Count(b) /\ word_start < word_end
  BY <1>0, <1>3, NewEntry
<1>5. word_end = N
  <2>1. word_end \in word_start .. N /\ word_start \in 0 .. N
    <3>1. word_start < word_end
      BY <1>4
    <3> QED BY <3>1, ParserNumbers, SMTT(30)
  <2> QED BY <1>0, <1>1, <2>1, ByteIs DEF Between
<1>6. Count(b) = Count(N)
  <2>1. N \in Nat /\ b \in Nat /\ N <= b /\ \A i \in N + 1 .. b : i \notin 1 .. N
    BY <1>3, <1>5, ParserNumbers, SMTT(30)
  <2> QED BY <1>1, <2>1, WordsAreFinite, CountNone
<1>7. Finished'
  BY <1>0, <1>1, <1>3, <1>4, <1>5, <1>6, SameLine DEF Finished
<1> QED
  BY <1>0, <1>2, <1>7 DEF ParserInv

\* A line that Enter has terminated.
LEMMA ParserStarts == ASSUME Init PROVE ParserInv
<1>1. PICK n \in 0 .. MAX_CMD_LEN - 1 : typed \in [1 .. n -> Char]
  BY SMTT(30) DEF Init, Char
<1>2. n \in Nat /\ n <= MAX_CMD_LEN - 1
  BY Widths, SMTT(30)
<1>3. typed \in Seq(Char) /\ N = n
  BY <1>1, <1>2, FunctionIsSeq DEF N
<1>4. TypedOK
  BY <1>1, <1>3 DEF TypedOK
<1>5. PICK old \in Letter \cup {Blank, NUL} :
        current_line = [i \in Bytes |-> IF i < N THEN typed[i + 1]
                                        ELSE IF i = N THEN NUL ELSE old]
  BY Widths DEF Init, N
<1>6. current_line \in [Bytes -> Letter \cup {Blank, NUL}]
  <2>1. ASSUME NEW i \in Bytes, i < N PROVE typed[i + 1] \in Letter \cup {Blank}
    <3>1. i + 1 \in 1 .. N
      BY <1>2, <1>3, <2>1, Widths, SMTT(30)
    <3> QED BY <1>3, <3>1, SeqIsFunction DEF N, Char
  <2> QED BY <1>5, <2>1
<1>7. Untouched(0)
  <2>1. ASSUME NEW i \in 0 .. N - 1 PROVE i \in Bytes /\ i < N
    BY <1>2, <1>3, Widths, SMTT(30)
  <2>2. N \in Bytes /\ ~(N < N)
    BY <1>2, <1>3, Widths, SMTT(30)
  <2> QED BY <1>5, <2>1, <2>2 DEF Untouched
<1>8. /\ start = 0 /\ word_start = 0 /\ word_end = 0 /\ argv = << >> /\ pc = "trim"
  BY DEF Init
<1>9. 0 \in 0 .. N /\ << >> \in Seq(Bytes) /\ Len(<< >>) <= MAX_ARGS
  BY <1>2, <1>3, Widths, SMTT(30)
<1>10. TypeOK
  BY <1>6, <1>8, <1>9, Widths DEF TypeOK, N
<1>11. Trimming
  <2>1. 1 .. 0 = {}
    BY SMTT(30)
  <2> QED BY <1>7, <1>8, <2>1 DEF Trimming
<1> QED
  BY <1>4, <1>8, <1>10, <1>11 DEF ParserInv

\* The parser keeps what its loops rely on.
LEMMA ParserKeeps ==
  ASSUME ParserInv, [Next]_vars
  PROVE  ParserInv'
<1>1. CASE UNCHANGED vars
  <2>1. UNCHANGED <<typed, current_line, start, word_start, word_end, argv, pc>>
    BY <1>1 DEF vars
  <2>2. TypeOK' /\ TypedOK'
    BY <2>1, ParserTypes, PointersMove DEF ParserInv, TypeOK
  <2>3. /\ Trimming' <=> Trimming
        /\ Between' <=> Between
        /\ Finished' <=> Finished
    BY <2>1, SameLine, SameText DEF Trimming, Between, Finished
  <2>4. InWord' <=> InWord
    BY <2>1, <2>3, SameLine DEF InWord
  <2> QED
    BY <2>1, <2>2, <2>3, <2>4 DEF ParserInv
<1> QED
  BY <1>1, TrimStartKeeps, MoreWordsKeeps, ScanWordKeeps, EndWordKeeps, LastWordKeeps,
     SkipBlanksKeeps DEF Next

\* What a finished scan has built is what the commands are promised.
LEMMA FinishedIsRight ==
  ASSUME ParserInv
  PROVE  ArgvIsTheWords
<1> SUFFICES ASSUME pc = "done"
             PROVE  /\ Len(argv) = IF Cardinality(WordStarts) <= MAX_ARGS
                                     THEN Cardinality(WordStarts) ELSE MAX_ARGS
                    /\ \A k \in 1 .. Len(argv) :
                         \E i \in WordStarts :
                           /\ Cardinality({j \in WordStarts : j <= i}) = k
                           /\ argv[k] = i - 1
                           /\ StringAt(argv[k]) = WordAt(i)
  BY DEF ArgvIsTheWords
<1>1. Finished /\ TypedOK /\ N \in Nat
  BY ParserTypes DEF ParserInv
<1>2. Len(argv) = IF Cardinality(WordStarts) <= MAX_ARGS
                    THEN Cardinality(WordStarts) ELSE MAX_ARGS
  <2>1. Count(N) = Cardinality(WordStarts) /\ Count(N) \in Nat
    BY <1>1, CountRange
  <2>2. Len(argv) \in Nat /\ Len(argv) <= MAX_ARGS
    BY ParserTypes
  <2>3. Len(argv) = Count(N) \/ (Len(argv) = MAX_ARGS /\ MAX_ARGS <= Count(N))
    BY <1>1 DEF Finished
  <2> QED BY <2>1, <2>2, <2>3, SMTT(30)
<1>3. ASSUME NEW k \in 1 .. Len(argv)
      PROVE  \E i \in WordStarts :
               /\ Cardinality({j \in WordStarts : j <= i}) = k
               /\ argv[k] = i - 1
               /\ StringAt(argv[k]) = WordAt(i)
  <2>1. PICK i \in WordStarts : Count(i) = k /\ argv[k] = i - 1 /\ Whole(i, N + 1)
    BY <1>1 DEF Finished, Entries, Entry
  <2>2. StringAt(i - 1) = WordAt(i)
    BY <1>1, <2>1, WholeReads
  <2> QED BY <2>1, <2>2 DEF Count, Before
<1> QED
  BY <1>2, <1>3

\* Every state of the parser is as its loops rely on it to be.
LEMMA ParserInvariance == Spec => []ParserInv
<1>1. Init => ParserInv
  BY ParserStarts
<1>2. ParserInv /\ [Next]_vars => ParserInv'
  BY ParserKeeps
<1> QED
  BY <1>1, <1>2, PTL DEF Spec

\* process_command()'s pointers never leave the line and its terminator, and argv
\* never has more than MAX_ARGS entries, whatever was typed.
THEOREM ParserStaysInTheLine == Spec => []TypeOK
<1>1. ParserInv => TypeOK
  BY DEF ParserInv
<1> QED
  BY <1>1, ParserInvariance, PTL

\* When the commands are looked at, argv holds the first MAX_ARGS words of the line
\* in their order, each one whole and terminated: cutting the line in place, while it
\* is being scanned, never spoils a word.
THEOREM ArgvHoldsTheWords == Spec => []ArgvIsTheWords
<1>1. ParserInv => ArgvIsTheWords
  BY FinishedIsRight
<1> QED
  BY <1>1, ParserInvariance, PTL
===============================================================================
