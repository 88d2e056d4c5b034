-------------------------- MODULE LineEditorProofs --------------------------
(***************************************************************************)
(* The prompt's in-place buffer and its array of past lines are an editor  *)
(* of sequences, for every size of buffer, history and screen.             *)
(***************************************************************************)
EXTENDS LineEditor, SequenceTheorems, WellFoundedInduction, TLAPS

(* Beside the types: what line_len covers has been typed, never a NUL, and *)
(* the history is an array.                                                *)
LineInv ==
  /\ TypeOK
  /\ \A i \in 0 .. line_len - 1 : buf[i] \in Char
  /\ shell_history = [i \in Entries |-> shell_history[i]]

-----------------------------------------------------------------------------
(* Arithmetic of the screen.                                               *)

(* The screen is a row more than the longest line needs.                   *)
LEMMA ScreenHolds ==
  /\ ScreenSize \in Nat
  /\ ScreenSize >= VGA_COLS + INPUT_MAX
<1>1. VGA_ROWS * VGA_COLS \in Nat
  BY LineEditorAssumption
<1>2. (VGA_ROWS - 1) * VGA_COLS = VGA_ROWS * VGA_COLS - VGA_COLS
  BY LineEditorAssumption
<1> QED BY <1>1, <1>2, LineEditorAssumption DEF ScreenSize

(* The remainder of a division is below the divisor.                       *)
LEMMA Division ==
  ASSUME NEW a \in Nat, NEW b \in Nat, b >= 1
  PROVE  a \div b \in Nat /\ a - (a \div b) * b \in 0 .. b - 1
OBVIOUS

(* The sizes as numbers, for the steps that need no more of them.          *)
LEMMA Sizes ==
  /\ INPUT_MAX \in Nat /\ INPUT_MAX >= 2 /\ HISTORY_MAX \in Nat /\ HISTORY_MAX >= 1
  /\ VGA_COLS \in Nat /\ VGA_COLS >= 1
BY LineEditorAssumption

(* As many rows scroll as bring a position past the end back to the last   *)
(* row.                                                                    *)
LEMMA ScrolledBack ==
  ASSUME NEW cell \in Nat
  PROVE  /\ ScrolledRows(cell) * VGA_COLS \in Nat
         /\ cell - ScrolledRows(cell) * VGA_COLS \in 0 .. ScreenSize - 1
<1> DEFINE over == cell - ScreenSize
<1>1. /\ ScreenSize \in Nat /\ ScreenSize >= VGA_COLS
      /\ VGA_COLS \in Nat /\ VGA_COLS >= 1
  BY ScreenHolds, Sizes
<1>2. CASE cell < ScreenSize
  BY <1>1, <1>2 DEF ScrolledRows
<1>3. CASE cell >= ScreenSize
  <2>1. over \in Nat
    BY <1>1, <1>3
  <2>2. over - (over \div VGA_COLS) * VGA_COLS \in 0 .. VGA_COLS - 1
        /\ over \div VGA_COLS \in Nat
    <3> HIDE DEF over
    <3> QED BY <1>1, <2>1, Division
  <2>3. (over \div VGA_COLS + 1) * VGA_COLS = (over \div VGA_COLS) * VGA_COLS + VGA_COLS
    BY <1>1, <2>2
  <2>4. ScrolledRows(cell) * VGA_COLS = (over \div VGA_COLS) * VGA_COLS + VGA_COLS
    BY <1>1, <1>3, <2>3 DEF ScrolledRows
  <2> QED BY <1>1, <2>1, <2>2, <2>4
<1> QED BY <1>1, <1>2, <1>3

-----------------------------------------------------------------------------
(* skip_spaces.                                                            *)

(* A set of natural numbers that is not empty has a least element.         *)
LEMMA LeastOf ==
  ASSUME NEW I \in SUBSET Nat, I # {}
  PROVE  \E x \in I : \A y \in I : x <= y
<1> DEFINE R == {ss \in Nat \X Nat : ss[1] < ss[2]}
<1>1. IsWellFoundedOn(R, Nat)
  BY NatLessThanWellFounded DEF OpToRel
<1>2. \E x \in I : \A y \in I : ~ (<<y, x>> \in R)
  <2> HIDE DEF R
  <2>1. ASSUME NEW T, T \subseteq Nat, T # {}
        PROVE  \E x \in T : \A y \in T : ~ (<<y, x>> \in R)
    BY <1>1, <2>1, WFMin, Zenon
  <2> QED BY <2>1
<1>3. \A x, y \in Nat : <<y, x>> \in R <=> y < x
  OBVIOUS
<1>4. PICK x \in I : \A y \in I : ~ (<<y, x>> \in R)
  BY <1>2
<1>5. ASSUME NEW y \in I PROVE x <= y
  <2>1. x \in Nat /\ y \in Nat
    OBVIOUS
  <2>2. ~(<<y, x>> \in R)
    BY <1>4
  <2> HIDE DEF R
  <2> QED BY <1>3, <2>1, <2>2
<1> QED BY <1>5

(* What is entered is the line from its first character that is no space.  *)
LEMMA WordsValue ==
  ASSUME NEW line, Len(line) \in Nat
  PROVE  \/ Words(line) = <<>> /\ \A i \in 1 .. Len(line) : line[i] = Space
         \/ \E i \in 1 .. Len(line) : /\ line[i] # Space
                                      /\ \A j \in 1 .. i - 1 : line[j] = Space
                                      /\ Words(line) = SubSeq(line, i, Len(line))
<1> DEFINE I == {i \in 1 .. Len(line) : line[i] # Space}
<1>1. Words(line) = IF I = {} THEN <<>>
                    ELSE IF Min(I) = 0 THEN <<>> ELSE SubSeq(line, Min(I), Len(line))
  BY Zenon DEF Words, SelectInSeq
<1>2. CASE I = {}
  BY <1>1, <1>2
<1>3. CASE I # {}
  <2>1. PICK x \in I : \A y \in I : x <= y
    <3>1. I \in SUBSET Nat
      OBVIOUS
    <3> HIDE DEF I
    <3> QED BY <1>3, <3>1, LeastOf
  <2>2. Min(I) \in I /\ \A y \in I : Min(I) <= y
    <3> HIDE DEF I
    <3> QED BY <2>1, Zenon DEF Min
  <2>3. Min(I) \in 1 .. Len(line) /\ line[Min(I)] # Space /\ Min(I) # 0
    BY <2>2
  <2>4. ASSUME NEW j \in 1 .. Min(I) - 1 PROVE line[j] = Space
    BY <2>2, <2>3
  <2>5. Words(line) = SubSeq(line, Min(I), Len(line))
    <3> HIDE DEF I
    <3> QED BY <1>1, <1>3, <2>3, Zenon
  <2> QED BY <2>3, <2>4, <2>5
<1> QED BY <1>2, <1>3

(* Without the blanks around it a line is a line, and not longer.          *)
LEMMA WordsType ==
  ASSUME NEW line \in Seq(Char)
  PROVE  Words(line) \in Seq(Char) /\ Len(Words(line)) <= Len(line)
<1>1. Len(line) \in Nat /\ \A i \in 1 .. Len(line) : line[i] \in Char
  OBVIOUS
<1>2. ASSUME NEW i \in 1 .. Len(line)
      PROVE  SubSeq(line, i, Len(line)) \in Seq(Char)
             /\ Len(SubSeq(line, i, Len(line))) <= Len(line)
  <2>1. \A j \in i .. Len(line) : line[j] \in Char
    BY <1>1
  <2> QED BY <1>1, <2>1, SubSeqProperties
<1>3. CASE Words(line) = <<>>
  BY <1>1, <1>3
<1>4. CASE \E i \in 1 .. Len(line) : Words(line) = SubSeq(line, i, Len(line))
  BY <1>2, <1>4
<1> QED BY <1>1, <1>3, <1>4, WordsValue

-----------------------------------------------------------------------------
(* Each key keeps the types and the characters.                            *)

(* The indices and the cursor as numbers.                                  *)
LEMMA Ranges ==
  ASSUME LineInv
  PROVE  /\ INPUT_MAX \in Nat /\ INPUT_MAX >= 2 /\ HISTORY_MAX \in Nat /\ HISTORY_MAX >= 1
         /\ line_len \in Nat /\ line_len <= INPUT_MAX - 1
         /\ cursor_pos \in Nat /\ cursor_pos <= line_len
         /\ history_count \in Nat /\ history_count <= HISTORY_MAX
         /\ history_idx \in Nat /\ history_idx <= history_count
         /\ buf \in [Indices -> Char \cup {NUL}]
         /\ cursor \in Nat /\ cursor < ScreenSize
         /\ ScreenSize \in Nat /\ VGA_COLS \in Nat /\ VGA_COLS >= 1
         /\ ScreenSize >= VGA_COLS + INPUT_MAX
<1>1. /\ line_len \in 0 .. INPUT_MAX - 1 /\ cursor_pos \in 0 .. line_len
      /\ history_count \in 0 .. HISTORY_MAX /\ history_idx \in 0 .. history_count
      /\ buf \in [Indices -> Char \cup {NUL}]
      /\ cursor \in 0 .. ScreenSize - 1
  BY DEF LineInv, TypeOK
<1>2. /\ line_len \in Nat /\ line_len <= INPUT_MAX - 1
      /\ cursor_pos \in Nat /\ cursor_pos <= line_len
      /\ history_count \in Nat /\ history_count <= HISTORY_MAX
      /\ history_idx \in Nat /\ history_idx <= history_count
  BY <1>1, Sizes
<1>3. cursor \in Nat /\ cursor < ScreenSize
  BY <1>1, ScreenHolds
<1> QED BY <1>1, <1>2, <1>3, Sizes, ScreenHolds

(* One position on, the cursor is still on the screen.                     *)
LEMMA CapStays ==
  ASSUME LineInv
  PROVE  CapAtLastRow(cursor + 1) \in 0 .. ScreenSize - 1
BY Ranges DEF CapAtLastRow

(* What is typed so far, as a sequence.                                    *)
LEMMA LineType ==
  ASSUME LineInv
  PROVE  /\ Line \in Seq(Char) /\ Len(Line) = line_len
         /\ \A k \in 1 .. line_len : Line[k] = buf[k - 1]
<1>1. line_len \in Nat /\ \A k \in 1 .. line_len : buf[k - 1] \in Char
  BY Ranges DEF LineInv
<1>2. Line \in [1 .. line_len -> Char]
  BY <1>1 DEF Line
<1> QED BY <1>1, <1>2 DEF Line

(* A key that leaves the history alone keeps its types.                    *)
LEMMA SameHistory ==
  ASSUME LineInv, history_idx' = history_idx, shell_history' = shell_history,
         history_count' = history_count,
         buf' \in [Indices -> Char \cup {NUL}], line_len' \in 0 .. INPUT_MAX - 1,
         cursor_pos' \in 0 .. line_len', cursor' \in 0 .. ScreenSize - 1,
         \A i \in 0 .. line_len' - 1 : buf'[i] \in Char
  PROVE  LineInv'
<1>1. /\ history_count' \in 0 .. HISTORY_MAX /\ history_idx' \in 0 .. history_count'
      /\ \A i \in Entries : shell_history'[i] \in Seq(Char)
                              /\ Len(shell_history'[i]) < INPUT_MAX
      /\ shell_history' = [i \in Entries |-> shell_history'[i]]
  BY DEF LineInv, TypeOK
<1>2. TypeOK'
  BY <1>1, Zenon DEF TypeOK, ScreenSize
<1> QED BY <1>1, <1>2 DEF LineInv

(* A character is inserted.                                                *)
LEMMA TypeCharPreserves ==
  ASSUME LineInv, NEW ch \in Char, TypeChar(ch)
  PROVE  LineInv'
<1>1. line_len < INPUT_MAX - 1
  BY DEF TypeChar, RoomForChar
<1>2. buf' = Inserted(ch) /\ line_len' = line_len + 1 /\ cursor_pos' = cursor_pos + 1
      /\ cursor' = CapAtLastRow(cursor + 1)
      /\ UNCHANGED <<history_idx, shell_history, history_count>>
  BY DEF TypeChar, historyVars
<1>3. buf' \in [Indices -> Char \cup {NUL}]
  BY <1>1, <1>2, Ranges, SMTT(30) DEF Inserted, Indices
<1>4. ASSUME NEW i \in 0 .. line_len PROVE buf'[i] \in Char
  <2>1. i \in Indices
    BY <1>1, Ranges DEF Indices
  <2>2. i < line_len => buf[i] \in Char
    BY Ranges DEF LineInv
  <2>3. i >= 1 => buf[i - 1] \in Char
    BY Ranges DEF LineInv
  <2> QED BY <1>2, <2>1, <2>2, <2>3, Ranges DEF Inserted
<1>5. line_len' \in 0 .. INPUT_MAX - 1 /\ cursor_pos' \in 0 .. line_len'
  BY <1>1, <1>2, Ranges
<1>6. \A i \in 0 .. line_len' - 1 : buf'[i] \in Char
  BY <1>2, <1>4, Ranges
<1> QED BY <1>2, <1>3, <1>5, <1>6, CapStays, SameHistory

(* A character is removed.                                                 *)
LEMMA BackspacePreserves ==
  ASSUME LineInv, Backspace
  PROVE  LineInv'
<1>1. cursor_pos > 0
  BY DEF Backspace
<1>2. buf' = Removed /\ line_len' = line_len - 1 /\ cursor_pos' = cursor_pos - 1
      /\ cursor' = (IF cursor > 0 THEN cursor - 1 ELSE 0)
      /\ UNCHANGED <<history_idx, shell_history, history_count>>
  BY DEF Backspace, historyVars
<1>3. \A i \in cursor_pos - 1 .. line_len - 2 : i + 1 \in Indices
  <2>1. /\ cursor_pos \in Nat /\ line_len \in Nat
        /\ INPUT_MAX \in Nat /\ line_len <= INPUT_MAX - 1
    BY Ranges
  <2> QED BY <1>1, <2>1 DEF Indices
<1>4. buf' \in [Indices -> Char \cup {NUL}]
  BY <1>2, <1>3, Ranges DEF Removed
<1>5. ASSUME NEW i \in 0 .. line_len - 2 PROVE buf'[i] \in Char
  <2>1. i \in Indices
    BY Ranges DEF Indices
  <2>2. buf[i] \in Char /\ buf[i + 1] \in Char
    BY Ranges DEF LineInv
  <2> QED BY <1>2, <2>1, <2>2, Ranges DEF Removed
<1>6. /\ line_len' \in 0 .. INPUT_MAX - 1 /\ cursor_pos' \in 0 .. line_len'
      /\ cursor' \in 0 .. ScreenSize - 1
  BY <1>1, <1>2, Ranges
<1>7. \A i \in 0 .. line_len' - 1 : buf'[i] \in Char
  BY <1>2, <1>5, Ranges
<1> QED BY <1>2, <1>4, <1>6, <1>7, SameHistory

(* The cursor moves by one.                                                *)
LEMMA ArrowPreserves ==
  ASSUME LineInv, LeftArrow \/ RightArrow
  PROVE  LineInv'
<1>1. UNCHANGED <<buf, line_len, history_idx, shell_history, history_count>>
  BY DEF LeftArrow, RightArrow, historyVars
<1>2. cursor_pos' \in 0 .. line_len' /\ cursor' \in 0 .. ScreenSize - 1
  <2>1. CASE LeftArrow
    BY <1>1, <2>1, Ranges DEF LeftArrow
  <2>2. CASE RightArrow
    BY <1>1, <2>2, Ranges, CapStays DEF RightArrow
  <2> QED BY <2>1, <2>2
<1>3. /\ buf' \in [Indices -> Char \cup {NUL}] /\ line_len' \in 0 .. INPUT_MAX - 1
      /\ \A i \in 0 .. line_len' - 1 : buf'[i] \in Char
  BY <1>1 DEF LineInv, TypeOK
<1> QED BY <1>1, <1>2, <1>3, SameHistory

(* The line that load_history puts into the buffer.                        *)
Recalled(idx) == IF idx = history_count THEN <<>> ELSE shell_history[idx]

(* What the up and down arrows recall fits in the buffer.                  *)
LEMMA RecalledType ==
  ASSUME LineInv, NEW idx \in 0 .. history_count
  PROVE  Recalled(idx) \in Seq(Char) /\ Len(Recalled(idx)) \in Nat
         /\ Len(Recalled(idx)) < INPUT_MAX
<1>1. CASE idx = history_count
  BY <1>1, Ranges DEF Recalled
<1>2. CASE idx # history_count
  <2>1. idx \in Entries
    BY <1>2, Ranges DEF Entries
  <2> QED BY <1>2, <2>1 DEF Recalled, LineInv, TypeOK
<1> QED BY <1>1, <1>2

(* A line is loaded from the history, over the one that was being typed.   *)
LEMMA LoadHistoryEffect ==
  ASSUME LineInv, NEW idx \in 0 .. history_count, LoadHistory(idx)
  PROVE  /\ history_idx' = idx /\ UNCHANGED <<shell_history, history_count>>
         /\ line_len' = Len(Recalled(idx)) /\ cursor_pos' = Len(Recalled(idx))
         /\ buf' \in [Indices -> Char \cup {NUL}]
         /\ \A i \in 0 .. Len(Recalled(idx)) - 1 : buf'[i] = Recalled(idx)[i + 1]
         /\ cursor' \in 0 .. ScreenSize - 1
<1> DEFINE line == Recalled(idx)
           home == IF cursor > cursor_pos THEN cursor - cursor_pos ELSE 0
<1>1. /\ history_idx' = idx /\ UNCHANGED <<shell_history, history_count>>
      /\ line_len' = Len(line) /\ cursor_pos' = Len(line)
  BY DEF LoadHistory, Recalled, historyVars
<1>2. buf' = IF idx = history_count THEN [buf EXCEPT ![0] = NUL]
             ELSE [i \in Indices |-> IF i < Len(line) THEN line[i + 1] ELSE NUL]
  BY DEF LoadHistory, Recalled
<1>3. cursor' = home + Len(line) - Scrolled(line, home)
  BY DEF LoadHistory, Recalled
<1>4. line \in Seq(Char) /\ Len(line) \in Nat /\ Len(line) < INPUT_MAX
  BY RecalledType
<1>5. home \in Nat
  BY Ranges
<1>6. PICK cell \in Nat : cell = home + Len(line)
  BY <1>4, <1>5
<1>7. cursor' \in 0 .. ScreenSize - 1
  <2> HIDE DEF home, line
  <2>1. Scrolled(line, home) = ScrolledRows(cell) * VGA_COLS
    BY <1>6 DEF Scrolled
  <2>2. cursor' = cell - ScrolledRows(cell) * VGA_COLS
    <3>1. PICK s \in Nat : s = Scrolled(line, home)
      BY <2>1, ScrolledBack
    <3>2. cursor' = cell - s
      BY <1>3, <1>4, <1>5, <1>6, <3>1
    <3> QED BY <2>1, <3>1, <3>2, Zenon
  <2> QED BY <2>2, ScrolledBack
<1>8. CASE idx = history_count
  <2>1. Len(line) = 0
    BY <1>8 DEF Recalled
  <2>2. buf' \in [Indices -> Char \cup {NUL}]
    BY <1>2, <1>8, Ranges
  <2> QED BY <1>1, <1>7, <2>1, <2>2
<1>9. CASE idx # history_count
  <2> HIDE DEF line
  <2>1. ASSUME NEW i \in Indices, i < Len(line) PROVE line[i + 1] \in Char
    <3>1. i + 1 \in 1 .. Len(line)
      BY <1>4, <2>1 DEF Indices
    <3> QED BY <1>4, <3>1
  <2>2. buf' \in [Indices -> Char \cup {NUL}]
    BY <1>2, <1>9, <2>1
  <2>3. ASSUME NEW i \in 0 .. Len(line) - 1 PROVE buf'[i] = line[i + 1]
    <3>1. i \in Indices
      <4>1. Len(line) \in Nat /\ Len(line) < INPUT_MAX /\ INPUT_MAX \in Nat
        BY <1>4, Sizes
      <4> QED BY <4>1 DEF Indices
    <3> QED BY <1>2, <1>9, <3>1
  <2> QED BY <1>1, <1>7, <2>2, <2>3 DEF line
<1> QED BY <1>8, <1>9

(* So the buffer holds that line alone.                                    *)
LEMMA LoadHistoryPreserves ==
  ASSUME LineInv, NEW idx \in 0 .. history_count, LoadHistory(idx)
  PROVE  LineInv'
<1> DEFINE line == Recalled(idx)
<1>1. line \in Seq(Char) /\ Len(line) \in Nat /\ Len(line) < INPUT_MAX
  BY RecalledType
<1>2. TypeOK'
  <2>1. line_len' = Len(line) /\ cursor_pos' = Len(line) /\ history_idx' = idx
    BY LoadHistoryEffect
  <2>2. UNCHANGED <<shell_history, history_count>>
    BY LoadHistoryEffect
  <2>3. buf' \in [Indices -> Char \cup {NUL}] /\ cursor' \in 0 .. ScreenSize - 1
    BY LoadHistoryEffect
  <2> HIDE DEF line
  <2>4. line_len' \in 0 .. INPUT_MAX - 1 /\ cursor_pos' \in 0 .. line_len'
    <3>1. PICK n \in Nat : n = Len(line) /\ n < INPUT_MAX
      BY <1>1
    <3>2. n \in 0 .. INPUT_MAX - 1 /\ n \in 0 .. n
      BY <3>1, Sizes
    <3> QED BY <2>1, <3>1, <3>2
  <2> QED BY <2>1, <2>2, <2>3, <2>4 DEF LineInv, TypeOK
<1>3. ASSUME NEW i \in 0 .. line_len' - 1 PROVE buf'[i] \in Char
  <2>1. i + 1 \in 1 .. Len(line) /\ i \in 0 .. Len(line) - 1
    BY <1>1, LoadHistoryEffect
  <2>2. buf'[i] = line[i + 1]
    BY <2>1, LoadHistoryEffect
  <2> HIDE DEF line
  <2> QED BY <1>1, <2>1, <2>2
<1> QED BY <1>2, <1>3, LoadHistoryEffect DEF LineInv

(* The history takes a line at its end and, when it is full, drops its     *)
(* first.                                                                  *)
LEMMA AddToHistoryPreserves ==
  ASSUME LineInv, NEW line \in Seq(Char), Len(line) < INPUT_MAX, AddToHistory(line)
  PROVE  /\ history_count' \in 0 .. HISTORY_MAX
         /\ shell_history' = [i \in Entries |-> shell_history'[i]]
         /\ \A i \in Entries : shell_history'[i] \in Seq(Char)
                                 /\ Len(shell_history'[i]) < INPUT_MAX
<1>1. /\ shell_history = [i \in Entries |-> shell_history[i]]
      /\ \A i \in Entries : shell_history[i] \in Seq(Char) /\ Len(shell_history[i]) < INPUT_MAX
  BY DEF LineInv, TypeOK
<1>2. CASE UNCHANGED historyVars
  BY <1>1, <1>2, Ranges DEF historyVars
<1>3. CASE history_count < HISTORY_MAX
           /\ shell_history' = [shell_history EXCEPT ![history_count] = line]
           /\ history_count' = history_count + 1
  <2>1. shell_history' = [i \in Entries |-> IF i = history_count THEN line ELSE shell_history[i]]
    BY <1>1, <1>3
  <2>2. history_count' \in 0 .. HISTORY_MAX
    BY <1>3, Ranges
  <2> QED BY <1>1, <2>1, <2>2
<1>4. CASE shell_history' = [MovedUp EXCEPT ![HISTORY_MAX - 1] = line]
           /\ UNCHANGED history_count
  <2>1. shell_history' = [i \in Entries |-> IF i = HISTORY_MAX - 1 THEN line
                                            ELSE IF i < HISTORY_MAX - 1 THEN shell_history[i + 1]
                                            ELSE shell_history[i]]
    BY <1>4 DEF MovedUp
  <2>2. \A i \in Entries : i < HISTORY_MAX - 1 => i + 1 \in Entries
    BY Sizes DEF Entries
  <2>3. history_count' \in 0 .. HISTORY_MAX
    BY <1>4, Ranges
  <2> QED BY <1>1, <2>1, <2>2, <2>3
<1> QED BY <1>2, <1>3, <1>4 DEF AddToHistory

(* The line goes to the history, and another is begun.                     *)
LEMMA EnterPreserves ==
  ASSUME LineInv, Enter
  PROVE  LineInv'
<1>1. Words(Line) \in Seq(Char) /\ Len(Words(Line)) \in Nat /\ Len(Words(Line)) < INPUT_MAX
  BY LineType, WordsType, Ranges
<1>2. AddToHistory(Words(Line)) /\ buf' = [buf EXCEPT ![0] = NUL]
      /\ line_len' = 0 /\ cursor_pos' = 0 /\ history_idx' = history_count'
      /\ cursor' \in PromptEnds
  BY DEF Enter, NewLine
<1>3. /\ history_count' \in 0 .. HISTORY_MAX
      /\ shell_history' = [i \in Entries |-> shell_history'[i]]
      /\ \A i \in Entries : shell_history'[i] \in Seq(Char)
                              /\ Len(shell_history'[i]) < INPUT_MAX
  BY <1>1, <1>2, AddToHistoryPreserves
<1>4. cursor' \in 0 .. ScreenSize - 1
  BY <1>2, Ranges DEF PromptEnds
<1>5. buf' \in [Indices -> Char \cup {NUL}]
  BY <1>2, Ranges
<1>6. TypeOK'
  <2>1. /\ line_len' \in 0 .. INPUT_MAX - 1 /\ cursor_pos' \in 0 .. line_len'
        /\ history_idx' \in 0 .. history_count'
    BY <1>2, <1>3, Sizes
  <2>2. cursor' \in 0 .. ScreenSize' - 1
    BY <1>4 DEF ScreenSize
  <2> QED BY <1>3, <1>5, <2>1, <2>2 DEF TypeOK
<1> QED BY <1>2, <1>3, <1>6 DEF LineInv

(* The prompt appears at a place of the screen, with nothing typed.        *)
LEMMA LineInitially == Init => LineInv
<1> SUFFICES ASSUME Init PROVE LineInv
  OBVIOUS
<1>1. cursor \in 0 .. ScreenSize - 1
  BY ScreenHolds, LineEditorAssumption DEF Init, PromptEnds
<1>2. shell_history = [i \in Entries |-> <<>>]
  BY DEF Init
<1>3. TypeOK
  BY <1>1, <1>2, LineEditorAssumption DEF Init, TypeOK
<1> QED BY <1>2, <1>3 DEF Init, LineInv

(* Every key keeps the invariant.                                          *)
LEMMA LineStep == LineInv /\ [Next]_editorVars => LineInv'
<1> SUFFICES ASSUME LineInv, [Next]_editorVars PROVE LineInv'
  OBVIOUS
<1>1. CASE UNCHANGED editorVars
  BY <1>1 DEF editorVars, lineVars, historyVars, screenVars, LineInv, TypeOK
<1>2. ASSUME UpArrow \/ DownArrow
      PROVE  \E idx \in 0 .. history_count : LoadHistory(idx)
  BY <1>2, Ranges DEF UpArrow, DownArrow
<1> QED BY <1>1, <1>2, TypeCharPreserves, BackspacePreserves, ArrowPreserves,
           LoadHistoryPreserves, EnterPreserves DEF Next

(* No index of shell_readline leaves its array and the cursor never leaves *)
(* the screen, whatever is typed, recalled and erased; the line holds what *)
(* was typed alone.                                                        *)
THEOREM LineInvariant == Spec => []LineInv
BY LineInitially, LineStep, PTL DEF Spec

(* The same, as the run checks it.                                         *)
THEOREM LineTypeCorrect == Spec => []TypeOK
<1>1. LineInv => TypeOK
  BY DEF LineInv
<1> QED BY <1>1, LineInvariant, PTL

-----------------------------------------------------------------------------
(* The buffer as the two sequences of CommandLine.                         *)

Before == SubSeq(Line, 1, cursor_pos)
After == SubSeq(Line, cursor_pos + 1, line_len)
Past == [i \in 1 .. history_count |-> shell_history[i - 1]]

(* What the sequences are, cell by cell.                                   *)
Shapes ==
  /\ Before \in Seq(Char) /\ Len(Before) = cursor_pos
  /\ \A k \in 1 .. cursor_pos : Before[k] = buf[k - 1]
  /\ After \in Seq(Char) /\ Len(After) = line_len - cursor_pos
  /\ \A k \in 1 .. line_len - cursor_pos : After[k] = buf[cursor_pos + k - 1]
  /\ Past \in Seq(Seq(Char)) /\ Len(Past) = history_count
  /\ \A k \in 1 .. history_count : Past[k] = shell_history[k - 1]

(* What the buffer and the history stand for, element by element.          *)
LEMMA BufferShapes == LineInv => Shapes
<1> SUFFICES ASSUME LineInv PROVE Shapes
  OBVIOUS
<1>1. line_len \in Nat /\ cursor_pos \in 0 .. line_len
  BY Ranges
<1>2. /\ Line \in Seq(Char) /\ Len(Line) = line_len
      /\ \A k \in 1 .. line_len : Line[k] = buf[k - 1]
  BY LineType
<1>3. \A k \in 1 .. line_len : Line[k] \in Char
  BY <1>1, <1>2
<1>4. /\ Before \in Seq(Char) /\ Len(Before) = cursor_pos
      /\ \A k \in 1 .. cursor_pos : Before[k] = buf[k - 1]
  <2>1. \A k \in 1 .. cursor_pos : Line[k] \in Char
    BY <1>1, <1>3
  <2>2. /\ Before \in Seq(Char)
        /\ Len(Before) = (IF 1 <= cursor_pos THEN cursor_pos - 1 + 1 ELSE 0)
        /\ \A k \in 1 .. cursor_pos - 1 + 1 : Before[k] = Line[1 + k - 1]
    BY <1>1, <2>1, SubSeqProperties DEF Before
  <2> QED BY <1>1, <1>2, <2>2
<1>5. /\ After \in Seq(Char) /\ Len(After) = line_len - cursor_pos
      /\ \A k \in 1 .. line_len - cursor_pos : After[k] = buf[cursor_pos + k - 1]
  <2>1. \A k \in cursor_pos + 1 .. line_len : Line[k] \in Char
    BY <1>1, <1>3
  <2>2. /\ After \in Seq(Char)
        /\ Len(After) = (IF cursor_pos + 1 <= line_len THEN line_len - (cursor_pos + 1) + 1 ELSE 0)
        /\ \A k \in 1 .. line_len - (cursor_pos + 1) + 1 : After[k] = Line[cursor_pos + 1 + k - 1]
    BY <1>1, <2>1, SubSeqProperties DEF After
  <2>3. ASSUME NEW k \in 1 .. line_len - cursor_pos PROVE After[k] = buf[cursor_pos + k - 1]
    <3>1. k \in 1 .. line_len - (cursor_pos + 1) + 1 /\ cursor_pos + k \in 1 .. line_len
          /\ cursor_pos + 1 + k - 1 = cursor_pos + k
      BY <1>1
    <3>2. After[k] = Line[cursor_pos + k]
      BY <2>2, <3>1
    <3>3. Line[cursor_pos + k] = buf[cursor_pos + k - 1]
      BY <1>1, <1>2, <3>1
    <3> QED BY <3>2, <3>3
  <2> QED BY <1>1, <2>2, <2>3
<1>6. Past \in Seq(Seq(Char)) /\ Len(Past) = history_count
      /\ \A k \in 1 .. history_count : Past[k] = shell_history[k - 1]
  <2>1. history_count \in Nat /\ \A k \in 1 .. history_count : k - 1 \in Entries
    BY Ranges DEF Entries
  <2>2. Past \in [1 .. history_count -> Seq(Char)]
    BY <2>1 DEF Past, LineInv, TypeOK
  <2> QED BY <2>1, <2>2 DEF Past
<1> QED BY <1>4, <1>5, <1>6 DEF Shapes

(* The same after a key.                                                   *)
LEMMA NextShapes == LineInv' => Shapes'
BY BufferShapes, PTL

(* A list after another, whose lengths add up to n.                        *)
LEMMA Catenated ==
  ASSUME NEW S, NEW s \in Seq(S), NEW t \in Seq(S), NEW m \in Nat, NEW n \in Nat,
         Len(s) = m, Len(t) = n - m, m <= n
  PROVE  /\ s \o t \in Seq(S) /\ Len(s \o t) = n
         /\ \A k \in 1 .. m : (s \o t)[k] = s[k]
         /\ \A k \in m + 1 .. n : (s \o t)[k] = t[k - m]
BY ConcatProperties

(* Before and after make up the line.                                      *)
LEMMA WholeLine ==
  ASSUME LineInv
  PROVE  Before \o After = Line
<1>1. Shapes
  BY BufferShapes
<1>2. line_len \in Nat /\ cursor_pos \in 0 .. line_len
  BY Ranges
<1>3. /\ Line \in Seq(Char) /\ Len(Line) = line_len
      /\ \A k \in 1 .. line_len : Line[k] = buf[k - 1]
  BY LineType
<1>4. /\ Before \o After \in Seq(Char) /\ Len(Before \o After) = line_len
      /\ \A k \in 1 .. cursor_pos : (Before \o After)[k] = Before[k]
      /\ \A k \in cursor_pos + 1 .. line_len : (Before \o After)[k] = After[k - cursor_pos]
  <2>1. /\ Before \in Seq(Char) /\ Len(Before) = cursor_pos
        /\ After \in Seq(Char) /\ Len(After) = line_len - cursor_pos
        /\ cursor_pos \in Nat /\ line_len \in Nat /\ cursor_pos <= line_len
    BY <1>1, <1>2 DEF Shapes
  <2> QED BY <2>1, Catenated
<1>5. ASSUME NEW k \in 1 .. line_len PROVE (Before \o After)[k] = Line[k]
  <2>1. CASE k \in 1 .. cursor_pos
    BY <1>1, <1>3, <1>4, <2>1 DEF Shapes
  <2>2. CASE k \in cursor_pos + 1 .. line_len
    <3>1. k - cursor_pos \in 1 .. line_len - cursor_pos
          /\ cursor_pos + (k - cursor_pos) - 1 = k - 1
      BY <1>2, <2>2
    <3>2. After[k - cursor_pos] = buf[k - 1]
      BY <1>1, <3>1 DEF Shapes
    <3> QED BY <1>3, <1>4, <2>2, <3>2
  <2>3. k \in 1 .. cursor_pos \/ k \in cursor_pos + 1 .. line_len
    BY <1>2
  <2> QED BY <2>1, <2>2, <2>3
<1> QED BY <1>3, <1>4, <1>5, SeqEqual

-----------------------------------------------------------------------------
(* Each key does what CommandLine says.                                    *)

(* A character put in the buffer at the cursor is one put in the sequence. *)
LEMMA TypeCharRefines ==
  ASSUME LineInv, LineInv', NEW ch \in Char, TypeChar(ch)
  PROVE  Abstract!Type(ch)
<1>1. Shapes /\ Shapes'
  BY BufferShapes, NextShapes
<1>2. /\ buf' = Inserted(ch) /\ line_len' = line_len + 1 /\ cursor_pos' = cursor_pos + 1
      /\ UNCHANGED <<history_idx, shell_history, history_count>>
      /\ line_len < INPUT_MAX - 1
  BY DEF TypeChar, RoomForChar, historyVars
<1>3. /\ line_len \in Nat /\ cursor_pos \in 0 .. line_len /\ INPUT_MAX \in Nat
  BY Ranges
<1>4. Before' = Append(Before, ch)
  <2>1. /\ Append(Before, ch) \in Seq(Char) /\ Len(Append(Before, ch)) = cursor_pos + 1
        /\ \A k \in 1 .. cursor_pos : Append(Before, ch)[k] = Before[k]
        /\ Append(Before, ch)[cursor_pos + 1] = ch
    BY <1>1, AppendProperties DEF Shapes
  <2>2. /\ Before' \in Seq(Char) /\ Len(Before') = cursor_pos + 1
        /\ \A k \in 1 .. cursor_pos + 1 : Before'[k] = buf'[k - 1]
    BY <1>1, <1>2 DEF Shapes
  <2>3. ASSUME NEW k \in 1 .. cursor_pos + 1 PROVE Before'[k] = Append(Before, ch)[k]
    <3>1. k - 1 \in Indices
      BY <1>2, <1>3 DEF Indices
    <3>2. buf'[k - 1] = IF k - 1 = cursor_pos THEN ch ELSE buf[k - 1]
      BY <1>2, <1>3, <3>1 DEF Inserted
    <3>3. CASE k = cursor_pos + 1
      BY <1>3, <2>1, <2>2, <3>2, <3>3
    <3>4. CASE k \in 1 .. cursor_pos
      BY <1>1, <1>3, <2>1, <2>2, <3>2, <3>4, SMTT(30) DEF Shapes
    <3>5. k = cursor_pos + 1 \/ k \in 1 .. cursor_pos
      BY <1>3
    <3> QED BY <3>3, <3>4, <3>5
  <2> QED BY <2>1, <2>2, <2>3, SeqEqual
<1>5. After' = After
  <2>1. /\ After' \in Seq(Char) /\ Len(After') = line_len - cursor_pos
        /\ \A k \in 1 .. line_len - cursor_pos : After'[k] = buf'[cursor_pos + 1 + k - 1]
    BY <1>1, <1>2, <1>3 DEF Shapes
  <2>2. ASSUME NEW k \in 1 .. line_len - cursor_pos PROVE After'[k] = After[k]
    <3>1. cursor_pos + k \in Indices /\ cursor_pos + k \in cursor_pos + 1 .. line_len
          /\ cursor_pos + 1 + k - 1 = cursor_pos + k
      BY <1>2, <1>3 DEF Indices
    <3>2. buf'[cursor_pos + k] = buf[cursor_pos + k - 1]
      BY <1>2, <1>3, <3>1 DEF Inserted
    <3> QED BY <1>1, <2>1, <3>1, <3>2 DEF Shapes
  <2> QED BY <1>1, <2>1, <2>2, SeqEqual DEF Shapes
<1>6. Past' = Past
  BY <1>2 DEF Past
<1>7. Len(Before) + Len(After) < INPUT_MAX - 1
  BY <1>1, <1>2, <1>3 DEF Shapes
<1> QED BY <1>2, <1>4, <1>5, <1>6, <1>7 DEF Abstract!Type, Before, After, Past

(* A list without its last element.                                        *)
LEMMA FrontValue ==
  ASSUME NEW S, NEW s \in Seq(S), Len(s) >= 1
  PROVE  /\ SubSeq(s, 1, Len(s) - 1) \in Seq(S) /\ Len(SubSeq(s, 1, Len(s) - 1)) = Len(s) - 1
         /\ \A k \in 1 .. Len(s) - 1 : SubSeq(s, 1, Len(s) - 1)[k] = s[k]
<1> DEFINE n == Len(s) - 1
           front == SubSeq(s, 1, n)
<1>1. n \in Nat /\ \A k \in 1 .. n : s[k] \in S
  OBVIOUS
<1>2. /\ front \in Seq(S) /\ Len(front) = n
      /\ \A k \in 1 .. n : front[k] = s[k]
  <2> HIDE DEF n
  <2>1. /\ front \in Seq(S)
        /\ Len(front) = (IF 1 <= n THEN n - 1 + 1 ELSE 0)
        /\ \A k \in 1 .. n - 1 + 1 : front[k] = s[1 + k - 1]
    BY <1>1, SubSeqProperties
  <2> QED BY <1>1, <2>1
<1> QED BY <1>2

(* Stepping back over a character leaves the characters before it.         *)
LEMMA BeforeShrinks ==
  ASSUME LineInv, LineInv', cursor_pos > 0, cursor_pos' = cursor_pos - 1,
         \A i \in 0 .. cursor_pos - 2 : buf'[i] = buf[i]
  PROVE  Before # <<>> /\ Before' = SubSeq(Before, 1, Len(Before) - 1)
<1>1. Shapes /\ Shapes'
  BY BufferShapes, NextShapes
<1>2. cursor_pos \in Nat
  BY Ranges
<1>3. Before \in Seq(Char) /\ Len(Before) = cursor_pos /\ Len(Before) >= 1
  BY <1>1, <1>2 DEF Shapes
<1> DEFINE front == SubSeq(Before, 1, Len(Before) - 1)
<1>4. /\ front \in Seq(Char) /\ Len(front) = cursor_pos - 1
      /\ \A k \in 1 .. cursor_pos - 1 : front[k] = Before[k]
  BY <1>3, FrontValue
<1>5. /\ Before' \in Seq(Char) /\ Len(Before') = cursor_pos - 1
      /\ \A k \in 1 .. cursor_pos - 1 : Before'[k] = buf'[k - 1]
  BY <1>1 DEF Shapes
<1>6. ASSUME NEW k \in 1 .. cursor_pos - 1 PROVE Before'[k] = front[k]
  <2>1. k - 1 \in 0 .. cursor_pos - 2 /\ k \in 1 .. cursor_pos
    BY <1>2
  <2>2. Before[k] = buf[k - 1]
    BY <1>1, <2>1 DEF Shapes
  <2> QED BY <1>4, <1>5, <2>1, <2>2
<1>7. Before' = front
  <2> HIDE DEF front
  <2> QED BY <1>4, <1>5, <1>6, SeqEqual
<1> QED BY <1>3, <1>7

(* One removed from the buffer is one removed from the sequence.           *)
LEMMA BackspaceRefines ==
  ASSUME LineInv, LineInv', Backspace
  PROVE  Abstract!Erase
<1>1. Shapes /\ Shapes'
  BY BufferShapes, NextShapes
<1>2. /\ buf' = Removed /\ line_len' = line_len - 1 /\ cursor_pos' = cursor_pos - 1
      /\ UNCHANGED <<history_idx, shell_history, history_count>> /\ cursor_pos > 0
  BY DEF Backspace, historyVars
<1>3. /\ line_len \in Nat /\ cursor_pos \in 1 .. line_len /\ INPUT_MAX \in Nat
      /\ line_len <= INPUT_MAX - 1
  BY <1>2, Ranges
<1>4. ASSUME NEW i \in 0 .. cursor_pos - 2 PROVE buf'[i] = buf[i]
  <2>1. i \in Indices
    BY <1>3 DEF Indices
  <2> QED BY <1>2, <1>3, <2>1 DEF Removed
<1>5. Before # <<>> /\ Before' = SubSeq(Before, 1, Len(Before) - 1)
  BY <1>2, <1>4, BeforeShrinks
<1>6. After' = After
  <2>1. /\ After' \in Seq(Char) /\ Len(After') = line_len - cursor_pos
        /\ \A k \in 1 .. line_len - cursor_pos : After'[k] = buf'[cursor_pos - 1 + k - 1]
    BY <1>1, <1>2, <1>3 DEF Shapes
  <2>2. ASSUME NEW k \in 1 .. line_len - cursor_pos PROVE After'[k] = After[k]
    <3>1. PICK i \in Indices : i = cursor_pos - 1 + k - 1
      BY <1>3 DEF Indices
    <3>2. i \in cursor_pos - 1 .. line_len - 2 /\ i + 1 = cursor_pos + k - 1
      BY <1>3, <3>1
    <3>3. buf'[i] = buf[i + 1]
      BY <1>2, <3>1, <3>2 DEF Removed
    <3> QED BY <1>1, <2>1, <3>1, <3>2, <3>3 DEF Shapes
  <2>3. After \in Seq(Char) /\ Len(After) = line_len - cursor_pos
    BY <1>1 DEF Shapes
  <2> QED BY <2>1, <2>2, <2>3, SeqEqual
<1>7. Past' = Past
  BY <1>2 DEF Past
<1> QED BY <1>2, <1>5, <1>6, <1>7 DEF Abstract!Erase, Abstract!Front, Before, After, Past

(* The cursor goes left in both.                                           *)
LEMMA LeftArrowRefines ==
  ASSUME LineInv, LineInv', LeftArrow
  PROVE  Abstract!Left
<1>1. Shapes /\ Shapes'
  BY BufferShapes, NextShapes
<1>2. /\ cursor_pos' = cursor_pos - 1 /\ cursor_pos > 0
      /\ UNCHANGED <<buf, line_len, history_idx, shell_history, history_count>>
  BY DEF LeftArrow, historyVars
<1>3. line_len \in Nat /\ cursor_pos \in 1 .. line_len
  BY <1>2, Ranges
<1>4. Before # <<>> /\ Before' = SubSeq(Before, 1, Len(Before) - 1)
  BY <1>2, BeforeShrinks
<1> DEFINE last == Before[Len(Before)]
<1>5. last = buf[cursor_pos - 1] /\ last \in Char
  <2>1. cursor_pos \in 1 .. cursor_pos /\ cursor_pos - 1 \in 0 .. line_len - 1
    BY <1>3
  <2> QED BY <1>1, <2>1 DEF Shapes, LineInv
<1>6. After' = <<last>> \o After
  <2>1. <<last>> \in Seq(Char) /\ Len(<<last>>) = 1 /\ <<last>>[1] = last
    BY <1>5
  <2>2. After \in Seq(Char) /\ Len(After) = line_len - cursor_pos
    BY <1>1 DEF Shapes
  <2> DEFINE n == line_len - cursor_pos + 1
  <2>3. n \in Nat /\ 1 <= n /\ Len(After) = n - 1
    BY <1>3, <2>2
  <2>4. /\ <<last>> \o After \in Seq(Char) /\ Len(<<last>> \o After) = n
        /\ \A k \in 1 .. 1 : (<<last>> \o After)[k] = <<last>>[k]
        /\ \A k \in 2 .. n : (<<last>> \o After)[k] = After[k - 1]
    <3> HIDE DEF n, last
    <3>1. /\ <<last>> \o After \in Seq(Char) /\ Len(<<last>> \o After) = n
          /\ \A k \in 1 .. 1 : (<<last>> \o After)[k] = <<last>>[k]
          /\ \A k \in 1 + 1 .. n : (<<last>> \o After)[k] = After[k - 1]
      BY <2>1, <2>2, <2>3, Catenated
    <3> QED BY <3>1
  <2>5. /\ After' \in Seq(Char) /\ Len(After') = n
        /\ \A k \in 1 .. n : After'[k] = buf[cursor_pos - 1 + k - 1]
    BY <1>1, <1>2, <1>3 DEF Shapes
  <2>6. ASSUME NEW k \in 1 .. n PROVE After'[k] = (<<last>> \o After)[k]
    <3>1. CASE k = 1
      BY <1>3, <1>5, <2>1, <2>4, <2>5, <3>1
    <3>2. CASE k \in 2 .. n
      <4>1. k - 1 \in 1 .. line_len - cursor_pos /\ cursor_pos - 1 + k - 1 = cursor_pos + (k - 1) - 1
        BY <1>3, <3>2
      <4>2. After[k - 1] = buf[cursor_pos + (k - 1) - 1]
        BY <1>1, <4>1 DEF Shapes
      <4>3. After'[k] = buf[cursor_pos - 1 + k - 1]
        BY <2>5
      <4> QED BY <2>4, <3>2, <4>1, <4>2, <4>3
    <3>3. k = 1 \/ k \in 2 .. n
      BY <2>3
    <3> QED BY <3>1, <3>2, <3>3
  <2> HIDE DEF n, last
  <2> QED BY <2>4, <2>5, <2>6, SeqEqual
<1>7. Past' = Past
  BY <1>2 DEF Past
<1> QED BY <1>2, <1>4, <1>6, <1>7
        DEF Abstract!Left, Abstract!Front, Abstract!Last, Before, After, Past

(* The cursor goes right in both.                                          *)
LEMMA RightArrowRefines ==
  ASSUME LineInv, LineInv', RightArrow
  PROVE  Abstract!Right
<1>1. Shapes /\ Shapes'
  BY BufferShapes, NextShapes
<1>2. /\ cursor_pos' = cursor_pos + 1 /\ cursor_pos < line_len
      /\ UNCHANGED <<buf, line_len, history_idx, shell_history, history_count>>
  BY DEF RightArrow, historyVars
<1>3. line_len \in Nat /\ cursor_pos \in Nat /\ cursor_pos + 1 <= line_len
  BY <1>2, Ranges
<1>4. After \in Seq(Char) /\ Len(After) = line_len - cursor_pos /\ After # <<>>
      /\ Head(After) = buf[cursor_pos] /\ Head(After) \in Char
  <2>1. After \in Seq(Char) /\ Len(After) = line_len - cursor_pos /\ Len(After) >= 1
    BY <1>1, <1>3 DEF Shapes
  <2>2. After[1] = buf[cursor_pos + 1 - 1]
    BY <1>1, <1>3 DEF Shapes
  <2>3. buf[cursor_pos] \in Char
    BY <1>3 DEF LineInv
  <2> QED BY <1>3, <2>1, <2>2, <2>3
<1>5. Before' = Append(Before, Head(After))
  <2> DEFINE h == Head(After)
  <2>1. /\ Append(Before, h) \in Seq(Char) /\ Len(Append(Before, h)) = cursor_pos + 1
        /\ \A k \in 1 .. cursor_pos : Append(Before, h)[k] = Before[k]
        /\ Append(Before, h)[cursor_pos + 1] = h
    <3> HIDE DEF h
    <3>1. h \in Char
      BY <1>4 DEF h
    <3> QED BY <1>1, <3>1, AppendProperties DEF Shapes
  <2>2. /\ Before' \in Seq(Char) /\ Len(Before') = cursor_pos + 1
        /\ \A k \in 1 .. cursor_pos + 1 : Before'[k] = buf[k - 1]
    BY <1>1, <1>2 DEF Shapes
  <2>3. ASSUME NEW k \in 1 .. cursor_pos + 1 PROVE Before'[k] = Append(Before, h)[k]
    <3>1. CASE k = cursor_pos + 1
      BY <1>3, <1>4, <2>1, <2>2, <3>1
    <3>2. CASE k \in 1 .. cursor_pos
      BY <1>1, <2>1, <2>2, <3>2 DEF Shapes
    <3>3. k = cursor_pos + 1 \/ k \in 1 .. cursor_pos
      BY <1>3
    <3> QED BY <3>1, <3>2, <3>3
  <2> HIDE DEF h
  <2>4. Before' = Append(Before, h)
    BY <2>1, <2>2, <2>3, SeqEqual
  <2> QED BY <2>4 DEF h
<1>6. After' = Tail(After)
  <2>1. /\ Tail(After) \in Seq(Char) /\ Len(Tail(After)) = line_len - cursor_pos - 1
        /\ \A k \in 1 .. line_len - cursor_pos - 1 : Tail(After)[k] = After[k + 1]
    BY <1>3, <1>4, HeadTailProperties
  <2>2. /\ After' \in Seq(Char) /\ Len(After') = line_len - cursor_pos - 1
        /\ \A k \in 1 .. line_len - cursor_pos - 1 : After'[k] = buf[cursor_pos + 1 + k - 1]
    BY <1>1, <1>2, <1>3 DEF Shapes
  <2>3. ASSUME NEW k \in 1 .. line_len - cursor_pos - 1 PROVE After'[k] = Tail(After)[k]
    <3>1. k + 1 \in 1 .. line_len - cursor_pos
          /\ cursor_pos + (k + 1) - 1 = cursor_pos + 1 + k - 1
      BY <1>3
    <3>2. After[k + 1] = buf[cursor_pos + (k + 1) - 1]
      BY <1>1, <3>1 DEF Shapes
    <3>3. After'[k] = buf[cursor_pos + 1 + k - 1]
      BY <2>2
    <3> QED BY <2>1, <3>1, <3>2, <3>3
  <2> QED BY <2>1, <2>2, <2>3, SeqEqual
<1>7. Past' = Past
  BY <1>2 DEF Past
<1> QED BY <1>2, <1>4, <1>5, <1>6, <1>7 DEF Abstract!Right, Before, After, Past

(* load_history shows a line of the past, or an empty new one.             *)
LEMMA BrowseRefines ==
  ASSUME LineInv, LineInv', NEW idx \in 0 .. history_count, LoadHistory(idx)
  PROVE  Abstract!Browse(idx + 1)
<1> DEFINE line == Recalled(idx)
<1>1. Shapes /\ Shapes'
  BY BufferShapes, NextShapes
<1>2. line \in Seq(Char) /\ Len(line) \in Nat
  BY RecalledType
<1>3. /\ history_idx' = idx /\ UNCHANGED <<shell_history, history_count>>
      /\ line_len' = Len(line) /\ cursor_pos' = Len(line)
      /\ \A i \in 0 .. Len(line) - 1 : buf'[i] = line[i + 1]
  BY LoadHistoryEffect
<1>4. Past' = Past
  BY <1>3 DEF Past
<1>5. history_count \in Nat /\ Len(Past) = history_count /\ DOMAIN Past = 1 .. history_count
  BY <1>1, Ranges DEF Past, Shapes
<1>6. line = IF idx + 1 \in DOMAIN Past THEN Past[idx + 1] ELSE <<>>
  <2>1. CASE idx = history_count
    BY <1>5, <2>1 DEF Recalled
  <2>2. CASE idx # history_count
    <3>1. idx + 1 \in 1 .. history_count /\ idx + 1 - 1 = idx
      BY <1>5, <2>2
    <3>2. Past[idx + 1] = shell_history[idx]
      BY <3>1 DEF Past
    <3> QED BY <1>5, <2>2, <3>1, <3>2 DEF Recalled
  <2> QED BY <2>1, <2>2
<1> HIDE DEF line
<1>7. Before' = line
  <2>1. /\ Before' \in Seq(Char) /\ Len(Before') = Len(line)
        /\ \A k \in 1 .. Len(line) : Before'[k] = buf'[k - 1]
    BY <1>1, <1>3 DEF Shapes
  <2>2. ASSUME NEW k \in 1 .. Len(line) PROVE Before'[k] = line[k]
    <3>1. k - 1 \in 0 .. Len(line) - 1 /\ k - 1 + 1 = k
      BY <1>2
    <3> QED BY <1>3, <2>1, <3>1
  <2> QED BY <1>2, <2>1, <2>2, SeqEqual
<1>8. After' = <<>>
  <2>1. After' \in Seq(Char) /\ Len(After') = 0
    BY <1>1, <1>2, <1>3 DEF Shapes
  <2> QED BY <2>1
<1>9. idx + 1 \in 1 .. Len(Past) + 1
  BY <1>5
<1>10. history_idx' + 1 = idx + 1
  BY <1>3
<1> QED BY <1>4, <1>6, <1>7, <1>8, <1>9, <1>10 DEF Abstract!Browse, Before, After, Past

-----------------------------------------------------------------------------
(* Entering the line.                                                      *)

(* Lists that begin alike have the same beginning.                         *)
LEMMA SamePrefix ==
  ASSUME NEW S, NEW s \in Seq(S), NEW t \in Seq(S), NEW m \in Nat,
         m <= Len(s), m <= Len(t), \A i \in 1 .. m : s[i] = t[i]
  PROVE  SubSeq(s, 1, m) = SubSeq(t, 1, m)
<1>1. /\ SubSeq(s, 1, m) \in Seq(S) /\ Len(SubSeq(s, 1, m)) = m
      /\ \A i \in 1 .. m : SubSeq(s, 1, m)[i] = s[i]
  OBVIOUS
<1>2. /\ SubSeq(t, 1, m) \in Seq(S) /\ Len(SubSeq(t, 1, m)) = m
      /\ \A i \in 1 .. m : SubSeq(t, 1, m)[i] = t[i]
  OBVIOUS
<1>3. \A i \in 1 .. m : SubSeq(s, 1, m)[i] = SubSeq(t, 1, m)[i]
  BY <1>1, <1>2
<1> QED BY <1>1, <1>2, <1>3, SeqEqual

(* What CommandLine trims is what skip_spaces skips.                       *)
LEMMA TrimmedIsWords ==
  ASSUME NEW line \in Seq(Char)
  PROVE  Abstract!Trimmed(line) = Words(line)
<1>1. /\ Len(line) \in Nat /\ \A i \in 1 .. Len(line) : line[i] \in Char
      /\ DOMAIN line = 1 .. Len(line)
  OBVIOUS
<1>2. CASE \A i \in DOMAIN line : line[i] = Space
  <2>1. Words(line) = <<>>
    BY <1>1, <1>2, WordsValue
  <2> QED BY <1>2, <2>1 DEF Abstract!Trimmed
<1>3. CASE ~\A i \in DOMAIN line : line[i] = Space
  <2> DEFINE n == Len(line)
             tails == {SubSeq(line, i, n) : i \in DOMAIN line}
             Good(rest) == Head(rest) # Space /\ Abstract!IsSuffix(rest, line)
                             /\ \A i \in 1 .. n - Len(rest) : line[i] = Space
  <2>1. ASSUME NEW i \in 1 .. n
        PROVE  /\ SubSeq(line, i, n) \in Seq(Char) /\ Len(SubSeq(line, i, n)) = n - i + 1
               /\ Head(SubSeq(line, i, n)) = line[i]
               /\ \A k \in 1 .. n - i + 1 : SubSeq(line, i, n)[k] = line[i + k - 1]
    <3>1. \A j \in i .. n : line[j] \in Char
      BY <1>1
    <3>2. /\ SubSeq(line, i, n) \in Seq(Char) /\ Len(SubSeq(line, i, n)) = n - i + 1
          /\ \A k \in 1 .. n - i + 1 : SubSeq(line, i, n)[k] = line[i + k - 1]
      BY <1>1, <3>1, SubSeqProperties
    <3>3. SubSeq(line, i, n)[1] = line[i]
      BY <1>1, <3>2
    <3> QED BY <1>1, <3>2, <3>3
  <2>2. PICK first \in 1 .. n : /\ line[first] # Space
                                /\ \A j \in 1 .. first - 1 : line[j] = Space
                                /\ Words(line) = SubSeq(line, first, n)
    BY <1>1, <1>3, WordsValue
  <2> DEFINE words == SubSeq(line, first, n)
  <2>3. Abstract!IsSuffix(words, line)
    <3> DEFINE m == n - first + 1
    <3>1. words \in Seq(Char) /\ Len(words) = m /\ m \in Nat /\ m <= n
          /\ \A k \in 1 .. m : words[k] = line[first + k - 1]
      BY <1>1, <2>1
    <3> HIDE DEF words
    <3>2. Abstract!Reverse(words) = [i \in 1 .. m |-> words[(m - i) + 1]]
      BY <3>1 DEF Abstract!Reverse
    <3>3. Abstract!Reverse(line) = [i \in 1 .. n |-> line[(n - i) + 1]]
      BY DEF Abstract!Reverse
    <3>4. Abstract!Reverse(words) \in Seq(Char) /\ Len(Abstract!Reverse(words)) = m
      <4>1. \A i \in 1 .. m : (m - i) + 1 \in 1 .. m
        BY <3>1
      <4>2. [i \in 1 .. m |-> words[(m - i) + 1]] \in [1 .. m -> Char]
        BY <3>1, <4>1
      <4> QED BY <3>1, <3>2, <4>2
    <3>5. Abstract!Reverse(line) \in Seq(Char) /\ Len(Abstract!Reverse(line)) = n
      <4>1. \A i \in 1 .. n : (n - i) + 1 \in 1 .. n
        BY <1>1
      <4>2. [i \in 1 .. n |-> line[(n - i) + 1]] \in [1 .. n -> Char]
        BY <1>1, <4>1
      <4> QED BY <1>1, <3>3, <4>2
    <3>6. ASSUME NEW i \in 1 .. m PROVE Abstract!Reverse(words)[i] = Abstract!Reverse(line)[i]
      <4>1. /\ i \in 1 .. n /\ (m - i) + 1 \in 1 .. m
            /\ first + ((m - i) + 1) - 1 = (n - i) + 1
        BY <1>1, <3>1
      <4> QED BY <3>1, <3>2, <3>3, <4>1
    <3>7. SubSeq(Abstract!Reverse(words), 1, m) = SubSeq(Abstract!Reverse(line), 1, m)
      BY <3>1, <3>4, <3>5, <3>6, SamePrefix
    <3> QED BY <1>1, <3>1, <3>4, <3>5, <3>7 DEF Abstract!IsSuffix, Abstract!IsPrefix
  <2>4. words \in tails /\ Good(words)
    BY <1>1, <2>1, <2>2, <2>3
  <2>5. ASSUME NEW rest \in tails, Good(rest) PROVE rest = words
    <3>1. PICK i \in 1 .. n : rest = SubSeq(line, i, n)
      BY <1>1
    <3>2. line[i] # Space /\ \A j \in 1 .. i - 1 : line[j] = Space
      <4>1. n - Len(rest) = i - 1
        BY <1>1, <2>1, <3>1
      <4> QED BY <2>1, <2>5, <3>1, <4>1
    <3>3. i = first
      BY <1>1, <2>2, <3>2
    <3> QED BY <3>1, <3>3
  <2>6. Abstract!Trimmed(line) = CHOOSE rest \in tails : Good(rest)
    BY <1>3 DEF Abstract!Trimmed
  <2> HIDE DEF tails, Good, words
  <2>7. Abstract!Trimmed(line) = words
    BY <2>4, <2>5, <2>6
  <2> QED BY <2>2, <2>7 DEF words
<1> QED BY <1>2, <1>3

(* The array takes a line as the bounded list of past lines does.          *)
LEMMA AddToHistoryRefines ==
  ASSUME LineInv, LineInv', NEW line \in Seq(Char), AddToHistory(line)
  PROVE  Past' = IF line = <<>> THEN Past
                 ELSE IF Len(Past) < HISTORY_MAX THEN Append(Past, line)
                 ELSE Append(Tail(Past), line)
<1>1. Shapes /\ Shapes'
  BY BufferShapes, NextShapes
<1>2. /\ HISTORY_MAX \in Nat /\ HISTORY_MAX >= 1
      /\ history_count \in Nat /\ history_count <= HISTORY_MAX
      /\ Past \in Seq(Seq(Char)) /\ Len(Past) = history_count
      /\ \A k \in 1 .. history_count : Past[k] = shell_history[k - 1]
  BY <1>1, Ranges DEF Shapes
<1>3. /\ Past' \in Seq(Seq(Char)) /\ Len(Past') = history_count'
      /\ \A k \in 1 .. history_count' : Past'[k] = shell_history'[k - 1]
  BY <1>1 DEF Shapes
<1>4. shell_history = [i \in Entries |-> shell_history[i]]
  BY DEF LineInv
<1>5. CASE line = <<>> /\ UNCHANGED historyVars
  BY <1>5 DEF historyVars, Past
<1>6. CASE /\ line # <<>> /\ history_count < HISTORY_MAX
           /\ shell_history' = [shell_history EXCEPT ![history_count] = line]
           /\ history_count' = history_count + 1
  <2> DEFINE list == Append(Past, line)
  <2>1. /\ list \in Seq(Seq(Char)) /\ Len(list) = history_count + 1
        /\ \A k \in 1 .. history_count : list[k] = Past[k]
        /\ list[history_count + 1] = line
    BY <1>2, AppendProperties
  <2> HIDE DEF list
  <2>2. \A i \in Entries : shell_history'[i] = IF i = history_count THEN line
                                               ELSE shell_history[i]
    BY <1>4, <1>6
  <2>3. ASSUME NEW k \in 1 .. history_count + 1 PROVE Past'[k] = list[k]
    <3>1. k - 1 \in Entries
      BY <1>2, <1>6 DEF Entries
    <3>2. Past'[k] = shell_history'[k - 1]
      BY <1>3, <1>6
    <3>3. CASE k = history_count + 1
      BY <1>2, <2>1, <2>2, <3>1, <3>2, <3>3
    <3>4. CASE k \in 1 .. history_count
      <4>1. k - 1 # history_count
        BY <1>2, <3>4
      <4> QED BY <1>2, <2>1, <2>2, <3>1, <3>2, <3>4, <4>1
    <3>5. k = history_count + 1 \/ k \in 1 .. history_count
      BY <1>2
    <3> QED BY <3>3, <3>4, <3>5
  <2>4. Past' = list
    BY <1>2, <1>3, <1>6, <2>1, <2>3, SeqEqual
  <2> QED BY <1>2, <1>6, <2>4 DEF list
<1>7. CASE /\ line # <<>> /\ history_count = HISTORY_MAX
           /\ shell_history' = [MovedUp EXCEPT ![HISTORY_MAX - 1] = line]
           /\ UNCHANGED history_count
  <2> DEFINE rest == Tail(Past)
             list == Append(rest, line)
  <2>1. /\ rest \in Seq(Seq(Char)) /\ Len(rest) = history_count - 1
        /\ \A k \in 1 .. history_count - 1 : rest[k] = Past[k + 1]
    BY <1>2, <1>7, HeadTailProperties
  <2> HIDE DEF rest
  <2>2. /\ list \in Seq(Seq(Char)) /\ Len(list) = history_count
        /\ \A k \in 1 .. history_count - 1 : list[k] = rest[k]
        /\ list[history_count] = line
    BY <1>2, <2>1, AppendProperties
  <2> HIDE DEF list
  <2>3. \A i \in Entries : shell_history'[i] = IF i = HISTORY_MAX - 1 THEN line
                                               ELSE IF i < HISTORY_MAX - 1 THEN shell_history[i + 1]
                                               ELSE shell_history[i]
    BY <1>7 DEF MovedUp
  <2>4. ASSUME NEW k \in 1 .. history_count PROVE Past'[k] = list[k]
    <3>1. k - 1 \in Entries
      BY <1>2 DEF Entries
    <3>2. Past'[k] = shell_history'[k - 1]
      BY <1>3, <1>7
    <3>3. CASE k = history_count
      BY <1>2, <1>7, <2>2, <2>3, <3>1, <3>2, <3>3
    <3>4. CASE k \in 1 .. history_count - 1
      <4>1. k + 1 \in 1 .. history_count /\ k + 1 - 1 = k - 1 + 1 /\ k - 1 < HISTORY_MAX - 1
            /\ k - 1 # HISTORY_MAX - 1
        BY <1>2, <1>7, <3>4
      <4>2. Past[k + 1] = shell_history[k - 1 + 1]
        BY <1>2, <4>1
      <4> QED BY <2>1, <2>2, <2>3, <3>1, <3>2, <3>4, <4>1, <4>2
    <3>5. k = history_count \/ k \in 1 .. history_count - 1
      BY <1>2
    <3> QED BY <3>3, <3>4, <3>5
  <2>5. Past' = list
    BY <1>2, <1>3, <1>7, <2>2, <2>4, SeqEqual
  <2> QED BY <1>2, <1>7, <2>5 DEF list, rest
<1> QED BY <1>5, <1>6, <1>7 DEF AddToHistory

(* Enter remembers the trimmed line and starts a new one.                  *)
LEMMA EnterRefines ==
  ASSUME LineInv, LineInv', Enter
  PROVE  Abstract!Enter
<1>1. /\ AddToHistory(Words(Line)) /\ line_len' = 0 /\ cursor_pos' = 0
      /\ history_idx' = history_count'
  BY DEF Enter, NewLine
<1>2. Words(Line) \in Seq(Char) /\ Line \in Seq(Char)
  BY LineType, WordsType
<1>3. Abstract!Trimmed(Before \o After) = Words(Line)
  BY <1>2, WholeLine, TrimmedIsWords
<1>4. Past' = IF Words(Line) = <<>> THEN Past
              ELSE IF Len(Past) < HISTORY_MAX THEN Append(Past, Words(Line))
              ELSE Append(Tail(Past), Words(Line))
  BY <1>1, <1>2, AddToHistoryRefines
<1>5. Before' = <<>> /\ After' = <<>> /\ history_idx' + 1 = Len(Past') + 1
  <2>1. /\ Before' \in Seq(Char) /\ Len(Before') = 0
        /\ After' \in Seq(Char) /\ Len(After') = 0 /\ Len(Past') = history_count'
    BY <1>1, NextShapes DEF Shapes
  <2> QED BY <1>1, <2>1
<1>6. Abstract!Remember(Abstract!Trimmed(Before \o After))
  BY <1>3, <1>4 DEF Abstract!Remember, Past
<1>7. Abstract!Remember(Abstract!Trimmed(SubSeq(Line, 1, cursor_pos)
                                           \o SubSeq(Line, cursor_pos + 1, line_len)))
  BY <1>6 DEF Before, After
<1>8. /\ (history_idx + 1)' = Len(Past') + 1
      /\ SubSeq(Line, 1, cursor_pos)' = <<>> /\ SubSeq(Line, cursor_pos + 1, line_len)' = <<>>
  BY <1>5 DEF Before, After
<1> QED BY <1>7, <1>8 DEF Abstract!Enter, Past

(* The empty prompt at boot is the empty line.                             *)
LEMMA LineInitRefines == Init => Abstract!Init
<1> SUFFICES ASSUME Init PROVE Abstract!Init
  OBVIOUS
<1>1. LineInv /\ Shapes
  BY LineInitially, BufferShapes
<1>2. cursor_pos = 0 /\ line_len = 0 /\ history_count = 0 /\ history_idx = 0
  BY DEF Init
<1>3. Before = <<>> /\ After = <<>> /\ Past = <<>> /\ history_idx + 1 = 1
  BY <1>1, <1>2 DEF Shapes
<1> QED BY <1>3 DEF Abstract!Init, Before, After, Past

(* Every key is a step of CommandLine, or none.                            *)
LEMMA LineStepRefines ==
  LineInv /\ LineInv' /\ [Next]_editorVars => [Abstract!Next]_(Abstract!vars)
<1> SUFFICES ASSUME LineInv, LineInv', [Next]_editorVars
             PROVE  [Abstract!Next]_(Abstract!vars)
  OBVIOUS
<1>1. CASE UNCHANGED editorVars
  BY <1>1 DEF editorVars, lineVars, historyVars, Abstract!vars, Line
<1>2. CASE \E ch \in Char : TypeChar(ch)
  BY <1>2, TypeCharRefines DEF Abstract!Next
<1>3. CASE Backspace
  BY <1>3, BackspaceRefines DEF Abstract!Next
<1>4. CASE LeftArrow
  BY <1>4, LeftArrowRefines DEF Abstract!Next
<1>5. CASE RightArrow
  BY <1>5, RightArrowRefines DEF Abstract!Next
<1>6. CASE UpArrow
  <2>1. history_idx - 1 \in 0 .. history_count /\ history_idx - 1 + 1 = (history_idx + 1) - 1
    BY <1>6, Ranges DEF UpArrow
  <2>2. Abstract!Browse(history_idx - 1 + 1)
    BY <1>6, <2>1, BrowseRefines DEF UpArrow
  <2>3. Abstract!Browse((history_idx + 1) - 1)
    BY <2>1, <2>2
  <2> QED BY <2>3 DEF Abstract!Next
<1>7. CASE DownArrow
  <2>1. history_idx + 1 \in 0 .. history_count
    BY <1>7, Ranges DEF DownArrow
  <2>2. Abstract!Browse(history_idx + 1 + 1)
    BY <1>7, <2>1, BrowseRefines DEF DownArrow
  <2> QED BY <2>2 DEF Abstract!Next
<1>8. CASE Enter
  BY <1>8, EnterRefines DEF Abstract!Next
<1> QED BY <1>1, <1>2, <1>3, <1>4, <1>5, <1>6, <1>7, <1>8 DEF Next

(* The prompt keeps its promise: the shifts in place, the recalled lines   *)
(* and the array of ten lines do what the editor of two sequences with a   *)
(* bounded past does, key by key.                                          *)
THEOREM LineImplementsCommandLine == Spec => ImplementsLine
BY LineInvariant, LineInitRefines, LineStepRefines, PTL DEF Spec, ImplementsLine, Abstract!Spec

-----------------------------------------------------------------------------
(* The screen.                                                             *)

(* What whole rows measure, in cells.                                      *)
WholeRows == {k * VGA_COLS : k \in Nat}

(* Where the line begins is a cell; the cursor is where the next key acts, *)
(* or whole rows below; the line ends above the screen's end.              *)
PlaceInv == /\ start \in Int
            /\ cursor - start - cursor_pos \in WholeRows
            /\ start + line_len < ScreenSize

ShownInv == LineInv /\ PlaceInv

(* Sums of rows are rows, and rows are at least one row or nothing.        *)
LEMMA WholeRowsSum ==
  /\ WholeRows \subseteq Nat /\ 0 \in WholeRows
  /\ \A a, b \in WholeRows : a + b \in WholeRows
  /\ \A a \in WholeRows : a > 0 => a - VGA_COLS \in WholeRows
<1>1. ASSUME NEW k \in Nat PROVE k * VGA_COLS \in Nat
  BY <1>1, Sizes
<1>2. 0 \in WholeRows
  <2>1. 0 * VGA_COLS = 0
    BY Sizes
  <2> QED BY <2>1 DEF WholeRows
<1>3. ASSUME NEW a \in WholeRows, NEW b \in WholeRows PROVE a + b \in WholeRows
  <2>1. PICK k \in Nat, l \in Nat : a = k * VGA_COLS /\ b = l * VGA_COLS
    BY DEF WholeRows
  <2>2. (k + l) * VGA_COLS = k * VGA_COLS + l * VGA_COLS /\ k + l \in Nat
    BY Sizes
  <2> QED BY <2>1, <2>2 DEF WholeRows
<1>4. ASSUME NEW a \in WholeRows, a > 0 PROVE a - VGA_COLS \in WholeRows
  <2>1. PICK k \in Nat : a = k * VGA_COLS
    BY DEF WholeRows
  <2>2. k # 0
    BY <1>4, <2>1, Sizes
  <2>3. (k - 1) * VGA_COLS = k * VGA_COLS - VGA_COLS /\ k - 1 \in Nat
    BY <2>2, Sizes
  <2> QED BY <2>1, <2>3 DEF WholeRows
<1> QED BY <1>1, <1>2, <1>3, <1>4 DEF WholeRows

(* The cells that scroll off the screen before a text ends at a cell.      *)
ScrolledCells(cell) == ScrolledRows(cell) * VGA_COLS

(* They are whole rows: none if the text ends above the screen's end, else *)
(* one at least, and it then ends on the screen.                           *)
LEMMA ScrollValue ==
  ASSUME NEW cell \in Nat
  PROVE  /\ ScrolledCells(cell) \in WholeRows /\ ScrolledCells(cell) \in Nat
         /\ cell < ScreenSize => ScrolledCells(cell) = 0
         /\ cell >= ScreenSize => ScrolledCells(cell) >= VGA_COLS
         /\ cell = ScreenSize => ScrolledCells(cell) = VGA_COLS
         /\ cell - ScrolledCells(cell) < ScreenSize
<1>1. ScreenSize \in Nat
  BY ScreenHolds
<1>2. ScrolledRows(cell) \in Nat /\ (cell >= ScreenSize => ScrolledRows(cell) >= 1)
  <2>1. CASE cell >= ScreenSize
    <3>1. cell - ScreenSize \in Nat
      BY <1>1, <2>1
    <3>2. (cell - ScreenSize) \div VGA_COLS \in Nat
      BY <3>1, Sizes, Division
    <3> QED BY <1>1, <2>1, <3>2 DEF ScrolledRows
  <2> QED BY <1>1, <2>1 DEF ScrolledRows
<1>3. cell < ScreenSize => ScrolledRows(cell) = 0
  BY DEF ScrolledRows
<1>4. cell = ScreenSize => ScrolledRows(cell) = 1
  <2>1. cell = ScreenSize => cell - ScreenSize = 0 /\ ~(cell < ScreenSize)
    BY <1>1
  <2>2. 0 \div VGA_COLS = 0
    BY Sizes
  <2> QED BY <2>1, <2>2 DEF ScrolledRows
<1>5. PICK r \in Nat : r = ScrolledRows(cell)
  BY <1>2
<1>6. /\ r * VGA_COLS \in Nat
      /\ r >= 1 => r * VGA_COLS >= VGA_COLS
      /\ 0 * VGA_COLS = 0 /\ 1 * VGA_COLS = VGA_COLS
  BY Sizes
<1>7. r * VGA_COLS \in WholeRows
  BY DEF WholeRows
<1>8. cell - r * VGA_COLS < ScreenSize
  BY <1>1, <1>5, <1>6, ScrolledBack
<1> QED BY <1>1, <1>2, <1>3, <1>4, <1>5, <1>6, <1>7, <1>8 DEF ScrolledCells

(* How long a part of the buffer is.                                       *)
LEMMA FromLength ==
  ASSUME NEW b, NEW n \in Nat, NEW i \in 0 .. n
  PROVE  Len(From(b, i, n)) = n - i /\ \A k \in 1 .. n - i : From(b, i, n)[k] = b[i + k - 1]
<1>1. n - i \in Nat
  OBVIOUS
<1> QED BY <1>1 DEF From

(* The line's characters are in the buffer.                                *)
LEMMA InBuffer ==
  ASSUME LineInv, NEW o \in Nat, o < line_len
  PROVE  o \in Indices
<1>1. line_len \in Nat /\ line_len <= INPUT_MAX - 1 /\ INPUT_MAX \in Nat
  BY Ranges
<1> QED BY <1>1 DEF Indices

(* What the invariant and what is shown say in numbers.                    *)
LEMMA Places ==
  ASSUME ShownInv
  PROVE  /\ LineInv /\ start \in Int /\ start + line_len < ScreenSize
         /\ cursor - start - cursor_pos \in WholeRows
         /\ cursor - start - cursor_pos \in Nat
BY WholeRowsSum DEF ShownInv, PlaceInv

(* A character that is typed shows, and the tail after it.                 *)
LEMMA TypeCharFollows ==
  ASSUME ShownInv, NEW ch \in Char, TypeChar(ch)
  PROVE  /\ PlaceInv'
         /\ ScreenShowsLine /\ ~(start' < start /\ cursor_pos < line_len) => ScreenShowsLine'
<1> DEFINE text == From(buf', cursor_pos, line_len + 1)
           cell == cursor + ((line_len + 1) - cursor_pos)
<1>1. /\ buf' = Inserted(ch) /\ line_len' = line_len + 1 /\ cursor_pos' = cursor_pos + 1
      /\ cursor' = CapAtLastRow(cursor + 1) /\ line_len < INPUT_MAX - 1
  BY DEF TypeChar, RoomForChar
<1>2. cells' = Shown(text, cursor - start) /\ start' = start - Scrolled(text, cursor)
  BY <1>1 DEF TypeChar, PutText
<1>3. LineInv
  BY Places
<1>4. /\ Len(text) = (line_len + 1) - cursor_pos
      /\ \A k \in 1 .. (line_len + 1) - cursor_pos : text[k] = buf'[cursor_pos + k - 1]
  <2>1. line_len + 1 \in Nat /\ cursor_pos \in 0 .. line_len + 1
    BY <1>3, Ranges
  <2>2. Len(text) = (line_len + 1) - cursor_pos
    BY <2>1, FromLength
  <2>3. \A k \in 1 .. (line_len + 1) - cursor_pos : text[k] = buf'[cursor_pos + k - 1]
    BY <2>1, FromLength
  <2> QED BY <2>2, <2>3
<1> HIDE DEF text
<1>5. cell \in Nat
  BY <1>3, Ranges
<1>6. PICK rows \in WholeRows : rows = ScrolledCells(cell) /\ rows \in Nat
  BY <1>5, ScrollValue
<1>7. start' = start - rows
  BY <1>2, <1>4, <1>6 DEF Scrolled, ScrolledCells
<1>8. /\ cell < ScreenSize => rows = 0
      /\ cell >= ScreenSize => rows >= VGA_COLS
      /\ cell = ScreenSize => rows = VGA_COLS
      /\ cell - rows < ScreenSize
  BY <1>5, <1>6, ScrollValue
<1>9. PlaceInv'
  <2>1. start' \in Int /\ start' + line_len' < ScreenSize
    BY <1>1, <1>3, <1>6, <1>7, <1>8, Places, Ranges
  <2>2. cursor' - start' - cursor_pos' \in WholeRows
    <3>1. CASE cursor + 1 < ScreenSize
      <4>1. cursor' - start' - cursor_pos' = (cursor - start - cursor_pos) + rows
        BY <1>1, <1>3, <1>6, <1>7, <3>1, Places, Ranges DEF CapAtLastRow
      <4> QED BY <4>1, <1>6, Places, WholeRowsSum
    <3>2. CASE cursor + 1 >= ScreenSize
      <4>1. cursor' - start' - cursor_pos' = (cursor - start - cursor_pos) + (rows - VGA_COLS)
        BY <1>1, <1>3, <1>6, <1>7, <3>2, Places, Ranges DEF CapAtLastRow
      <4>2. rows - VGA_COLS \in WholeRows
        BY <1>3, <1>6, <1>8, <3>2, Ranges, WholeRowsSum
      <4> QED BY <4>1, <4>2, Places, WholeRowsSum
    <3> QED BY <1>3, <3>1, <3>2, Ranges
  <2> QED BY <2>1, <2>2, ScreenHolds DEF PlaceInv, ScreenSize
<1>10. ASSUME ScreenShowsLine, ~(start' < start /\ cursor_pos < line_len)
       PROVE  ScreenShowsLine'
  <2>1. cursor - start = cursor_pos
        /\ \A o \in Offsets : cells[o] = IF o < line_len THEN buf[o] ELSE Space
    BY <1>10 DEF ScreenShowsLine
  <2>2. cursor' - start' = cursor_pos'
    <3>1. CASE cursor_pos < line_len
      <4>1. rows = 0
        BY <1>6, <1>7, <1>10, <3>1, Places
      <4>2. cell < ScreenSize
        BY <1>5, <1>8, <4>1, Sizes, ScreenHolds
      <4>3. cursor + 1 < ScreenSize
        BY <1>3, <3>1, <4>2, Ranges
      <4> QED BY <1>1, <1>3, <1>7, <2>1, <4>1, <4>3, Places, Ranges DEF CapAtLastRow
    <3>2. CASE cursor_pos = line_len
      <4>1. cell = cursor + 1
        BY <1>3, <3>2, Ranges
      <4> HIDE DEF cell
      <4> QED BY <1>1, <1>3, <1>6, <1>7, <1>8, <2>1, <4>1, Places, Ranges DEF CapAtLastRow
    <3> QED BY <1>3, <3>1, <3>2, Ranges
  <2>3. ASSUME NEW o \in Offsets
        PROVE  cells'[o] = IF o < line_len' THEN buf'[o] ELSE Space
    <3>1. o \in Nat
      BY Sizes DEF Offsets
    <3>2. PICK n \in Nat : n = Len(text) /\ n = (line_len + 1) - cursor_pos
      BY <1>3, <1>4, Ranges
    <3>3. CASE o < cursor_pos
      <4>1. cells'[o] = cells[o] /\ cells[o] = buf[o]
        <5>1. o - cursor_pos < 0 /\ o < line_len
          BY <1>3, <3>1, <3>3, Ranges
        <5>2. ~(o - cursor_pos \in 0 .. Len(text) - 1)
          BY <5>1
        <5> QED BY <1>2, <2>1, <5>1, <5>2 DEF Shown
      <4>2. o \in Indices /\ o < line_len'
        <5>1. o < line_len
          BY <1>3, <3>1, <3>3, Ranges
        <5>2. line_len' = line_len + 1
          BY <1>1
        <5>3. o < line_len'
          BY <1>3, <3>1, <5>1, <5>2, Ranges
        <5> QED BY <1>3, <3>1, <5>1, <5>3, InBuffer
      <4>3. buf'[o] = buf[o]
        BY <1>1, <1>3, <3>1, <3>3, <4>2, Ranges DEF Inserted
      <4> QED BY <4>1, <4>2, <4>3
    <3>4. CASE cursor_pos <= o /\ o < line_len'
      <4>1. o - cursor_pos \in 0 .. Len(text) - 1
            /\ o - cursor_pos + 1 \in 1 .. (line_len + 1) - cursor_pos
            /\ cursor_pos + (o - cursor_pos + 1) - 1 = o
        BY <1>1, <1>3, <3>1, <3>4, <3>2, Ranges
      <4>2. cells'[o] = text[o - cursor_pos + 1]
        BY <1>2, <2>1, <4>1 DEF Shown
      <4>3. text[o - cursor_pos + 1] = buf'[cursor_pos + (o - cursor_pos + 1) - 1]
        BY <1>4, <4>1
      <4> QED BY <3>4, <4>1, <4>2, <4>3
    <3>5. CASE o >= line_len'
      <4>1. ~(o - cursor_pos \in 0 .. Len(text) - 1) /\ ~(o < line_len) /\ ~(o < line_len')
        BY <1>1, <1>3, <3>1, <3>5, <3>2, Ranges
      <4>2. cells'[o] = cells[o]
        BY <1>2, <2>1, <4>1 DEF Shown
      <4> QED BY <2>1, <4>1, <4>2
    <3> QED BY <1>1, <1>3, <3>1, <3>3, <3>4, <3>5, Ranges
  <2> QED BY <2>2, <2>3, Zenon DEF ScreenShowsLine, Offsets
<1> QED BY <1>9, <1>10

(* A character is erased: the tail and a space after it are shown.         *)
LEMMA BackspaceFollows ==
  ASSUME ShownInv, OnScreen, Backspace
  PROVE  /\ PlaceInv'
         /\ ScreenShowsLine => ScreenShowsLine'
<1>1. LineInv
  BY Places
<1>2. cursor_pos > 0 /\ cursor > 0 /\ start >= 0
  <2>1. cursor_pos > 0 /\ start >= 0
    BY DEF Backspace, OnScreen
  <2> QED BY <1>1, <2>1, Places, Ranges
<1>3. PICK len \in Nat, pos \in Nat :
        len = line_len - 1 /\ pos = cursor_pos - 1 /\ pos <= len
  BY <1>1, <1>2, Ranges
<1> DEFINE tail == From(buf', pos, len)
           text == Append(tail, Space)
           cell == cursor + (line_len - cursor_pos)
<1>4. /\ buf' = Removed /\ line_len' = len /\ cursor_pos' = pos /\ cursor' = cursor - 1
      /\ cells' = Shown(text, (cursor - 1) - start)
      /\ start' = start - Scrolled(text, cursor - 1)
  <2>1. /\ buf' = Removed /\ line_len' = len /\ cursor_pos' = pos /\ cursor' = cursor - 1
        /\ PutText(Append(From(buf', cursor_pos', line_len'), Space), cursor - 1)
    BY <1>2, <1>3 DEF Backspace
  <2> QED BY <2>1 DEF PutText
<1>5. PICK n \in Nat : n = len - pos
  BY <1>3
<1>6. Len(tail) = n /\ \A k \in 1 .. n : tail[k] = buf'[pos + k - 1]
  <2>1. Len(tail) = len - pos /\ \A k \in 1 .. len - pos : tail[k] = buf'[pos + k - 1]
    <3>1. pos \in 0 .. len
      BY <1>3
    <3> QED BY <3>1, FromLength
  <2> QED BY <1>5, <2>1
<1>7. /\ Len(text) = n + 1 /\ text[n + 1] = Space
      /\ \A k \in 1 .. n : text[k] = tail[k]
  <2> DEFINE shown == {tail[k] : k \in 1 .. n} \cup {Space}
  <2>1. tail = [k \in 1 .. n |-> tail[k]]
    BY <1>5 DEF From
  <2>2. tail \in Seq(shown)
    <3> HIDE DEF tail
    <3> QED BY <2>1
  <2>3. Space \in shown
    OBVIOUS
  <2> HIDE DEF tail, shown
  <2>4. /\ Len(text) = Len(tail) + 1 /\ text[Len(tail) + 1] = Space
        /\ \A k \in 1 .. Len(tail) : text[k] = tail[k]
    BY <2>2, <2>3, AppendProperties
  <2> QED BY <1>6, <2>4
<1> HIDE DEF text, tail
<1>8. cell \in Nat
  BY <1>1, Ranges
<1>9. PICK rows \in WholeRows : rows = ScrolledCells(cell) /\ rows \in Nat
  BY <1>8, ScrollValue
<1>10. start' = start - rows
  <2>1. (cursor - 1) + (n + 1) = cell
    BY <1>1, <1>3, <1>5, Ranges
  <2>2. (cursor - 1) + Len(text) = cell
    BY <1>7, <2>1
  <2> QED BY <1>4, <1>9, <2>2 DEF Scrolled, ScrolledCells
<1>11. cell < ScreenSize => rows = 0
  BY <1>8, <1>9, ScrollValue
<1>12. PlaceInv'
  <2>1. start' \in Int /\ start' + line_len' < ScreenSize
    BY <1>1, <1>3, <1>4, <1>9, <1>10, Places, Ranges
  <2>2. cursor' - start' - cursor_pos' = (cursor - start - cursor_pos) + rows
    BY <1>1, <1>3, <1>4, <1>9, <1>10, Places, Ranges
  <2>3. cursor' - start' - cursor_pos' \in WholeRows
    BY <1>9, <2>2, Places, WholeRowsSum
  <2> QED BY <2>1, <2>3 DEF PlaceInv, ScreenSize
<1>13. ASSUME ScreenShowsLine PROVE ScreenShowsLine'
  <2>1. cursor - start = cursor_pos
        /\ \A o \in Offsets : cells[o] = IF o < line_len THEN buf[o] ELSE Space
    BY <1>13 DEF ScreenShowsLine
  <2>2. rows = 0
    <3>1. cell < ScreenSize
      BY <1>1, <2>1, Places, Ranges
    <3> QED BY <1>11, <3>1
  <2>3. cursor' - start' = cursor_pos' /\ (cursor - 1) - start = pos
    BY <1>1, <1>3, <1>4, <1>10, <2>1, <2>2, Places, Ranges
  <2>4. cells' = Shown(text, pos)
    BY <1>4, <2>3
  <2>5. ASSUME NEW o \in Offsets
        PROVE  cells'[o] = IF o < len THEN buf'[o] ELSE Space
    <3>1. o \in Nat
      BY Sizes DEF Offsets
    <3>2. CASE o < pos
      <4>1. o < len /\ o < line_len /\ o < cursor_pos - 1
        BY <1>1, <1>3, <3>1, <3>2, Ranges
      <4>2. o \in Indices
        BY <1>1, <3>1, <4>1, InBuffer
      <4>3. ~(o - pos \in 0 .. Len(text) - 1)
        <5>1. o - pos < 0
          BY <3>1, <3>2
        <5> QED BY <5>1
      <4>4. cells'[o] = cells[o] /\ cells[o] = buf[o]
        BY <2>1, <2>4, <4>1, <4>3 DEF Shown
      <4>5. ~(o \in cursor_pos - 1 .. line_len - 2) /\ o # line_len - 1
        BY <1>1, <3>1, <4>1, Ranges
      <4>6. buf'[o] = buf[o]
        BY <1>4, <4>2, <4>5 DEF Removed
      <4> QED BY <4>1, <4>4, <4>6
    <3>3. CASE pos <= o /\ o < len
      <4>1. /\ o - pos \in 0 .. (n + 1) - 1
            /\ o - pos + 1 \in 1 .. n
            /\ pos + (o - pos + 1) - 1 = o
        BY <1>5, <3>1, <3>3
      <4>2. cells'[o] = text[o - pos + 1]
        BY <1>7, <2>4, <4>1 DEF Shown
      <4>3. text[o - pos + 1] = tail[o - pos + 1]
        BY <1>7, <4>1
      <4>4. tail[o - pos + 1] = buf'[pos + (o - pos + 1) - 1]
        BY <1>6, <4>1
      <4> QED BY <3>3, <4>1, <4>2, <4>3, <4>4
    <3>4. CASE o = len
      <4>1. o - pos = n /\ n \in 0 .. (n + 1) - 1 /\ ~(o < len)
        BY <1>5, <3>1, <3>4
      <4>2. cells'[o] = text[n + 1]
        BY <1>7, <2>4, <4>1 DEF Shown
      <4> QED BY <1>7, <4>1, <4>2
    <3>5. CASE o > len
      <4>1. ~(o - pos \in 0 .. (n + 1) - 1) /\ ~(o < line_len) /\ ~(o < len)
        BY <1>1, <1>3, <1>5, <3>1, <3>5, Ranges
      <4>2. cells'[o] = cells[o]
        BY <1>7, <2>4, <4>1 DEF Shown
      <4> QED BY <2>1, <4>1, <4>2
    <3> QED BY <3>1, <3>2, <3>3, <3>4, <3>5
  <2>6. \A o \in Offsets : cells'[o] = IF o < line_len' THEN buf'[o] ELSE Space
    BY <1>4, <2>5, Zenon
  <2> QED BY <2>3, <2>6, Zenon DEF ScreenShowsLine, Offsets
<1> QED BY <1>12, <1>13

(* The cursor moves over the line, which stays.                            *)
LEMMA ArrowFollows ==
  ASSUME ShownInv, OnScreen, LeftArrow \/ RightArrow
  PROVE  PlaceInv' /\ (ScreenShowsLine => ScreenShowsLine')
<1>1. LineInv /\ start >= 0
  BY Places DEF OnScreen
<1>2. UNCHANGED <<buf, line_len, start, cells>>
  BY DEF LeftArrow, RightArrow
<1>3. ASSUME cursor' - cursor_pos' = cursor - cursor_pos, cursor' \in Int, cursor_pos' \in Int
      PROVE  PlaceInv' /\ (ScreenShowsLine => ScreenShowsLine')
  <2>1. cursor' - start' - cursor_pos' = cursor - start - cursor_pos
    BY <1>1, <1>2, <1>3, Places, Ranges
  <2>2. cursor - start = cursor_pos => cursor' - start' = cursor_pos'
    BY <1>1, <1>2, <1>3, Places, Ranges
  <2>3. PlaceInv'
    BY <1>2, <2>1, Places DEF PlaceInv, WholeRows, ScreenSize
  <2> QED BY <1>2, <2>2, <2>3 DEF ScreenShowsLine, Offsets
<1>4. CASE LeftArrow
  BY <1>1, <1>3, <1>4, Places, Ranges DEF LeftArrow
<1>5. CASE RightArrow /\ cursor + 1 < ScreenSize
  BY <1>1, <1>3, <1>5, Ranges DEF RightArrow, CapAtLastRow
<1>6. CASE RightArrow /\ cursor + 1 >= ScreenSize
  <2>1. /\ cursor_pos < line_len /\ cursor_pos' = cursor_pos + 1
        /\ cursor' = cursor + 1 - VGA_COLS
    BY <1>1, <1>6, Ranges DEF RightArrow, CapAtLastRow
  <2>2. cursor - start - cursor_pos > 0
    BY <1>1, <1>6, <2>1, Places, Ranges
  <2>3. (cursor - start - cursor_pos) - VGA_COLS \in WholeRows
    BY <2>2, Places, WholeRowsSum
  <2>4. cursor' - start' - cursor_pos' = (cursor - start - cursor_pos) - VGA_COLS
    BY <1>1, <1>2, <2>1, Places, Ranges
  <2>5. PlaceInv'
    BY <1>2, <2>3, <2>4, Places DEF PlaceInv, WholeRows, ScreenSize
  <2>6. ~ScreenShowsLine
    BY <1>1, <2>2, Places, Ranges DEF ScreenShowsLine
  <2> QED BY <2>5, <2>6
<1> QED BY <1>1, <1>4, <1>5, <1>6, Ranges

(* A recalled line is shown in place of the line that was typed.           *)
LEMMA LoadHistoryFollows ==
  ASSUME ShownInv, OnScreen, NEW idx \in 0 .. history_count, LoadHistory(idx)
  PROVE  PlaceInv' /\ (ScreenShowsLine => ScreenShowsLine')
<1> DEFINE line == Recalled(idx)
           home == IF cursor > cursor_pos THEN cursor - cursor_pos ELSE 0
<1>1. LineInv /\ start >= 0
  BY Places DEF OnScreen
<1>2. home = cursor - cursor_pos
  BY <1>1, Places, Ranges
<1>3. PICK n \in Nat : n = Len(line) /\ n < INPUT_MAX
  BY <1>1, RecalledType
<1>4. line_len' = n /\ cursor_pos' = n
  BY <1>1, <1>3, LoadHistoryEffect
<1>5. \A i \in 0 .. Len(line) - 1 : buf'[i] = line[i + 1]
  BY <1>1, LoadHistoryEffect
<1>6. /\ cells' = [o \in Offsets |->
                     IF o - (home - start) \in 0 .. Len(line) - 1 THEN line[o - (home - start) + 1]
                     ELSE IF o - (home - start) \in 0 .. line_len - 1 THEN Space
                     ELSE cells[o]]
      /\ start' = start - Scrolled(Line, home) - Scrolled(line, home)
      /\ cursor' = home + Len(line) - Scrolled(line, home)
  BY DEF LoadHistory, Recalled
<1> HIDE DEF line, home
<1>7. home + n \in Nat /\ home + line_len \in Nat
  BY <1>1, <1>2, Places, Ranges
<1>8. PICK rows \in WholeRows : rows = ScrolledCells(home + n) /\ rows \in Nat
  BY <1>7, ScrollValue
<1>9. PICK erased \in WholeRows : erased = ScrolledCells(home + line_len) /\ erased \in Nat
  BY <1>7, ScrollValue
<1>10. Scrolled(line, home) = rows /\ Scrolled(Line, home) = erased
  BY <1>1, <1>3, <1>8, <1>9, LineType DEF Scrolled, ScrolledCells
<1>11. start' = (start - erased) - rows /\ cursor' = (home + n) - rows
  <2>1. start' = start - erased - rows /\ cursor' = home + n - rows
    BY <1>3, <1>6, <1>10, Zenon
  <2>2. home \in Int
    BY <1>1, <1>2, Ranges
  <2> QED BY <1>8, <1>9, <2>1, <2>2, Places
<1>12. (home + n) - rows < ScreenSize /\ (home + line_len < ScreenSize => erased = 0)
  BY <1>7, <1>8, <1>9, ScrollValue
<1>13. PlaceInv'
  <2>1. start' \in Int /\ start' + line_len' < ScreenSize
    BY <1>1, <1>2, <1>4, <1>8, <1>9, <1>11, <1>12, Places, Ranges
  <2>2. cursor' - start' - cursor_pos' = (cursor - start - cursor_pos) + erased
    BY <1>1, <1>2, <1>4, <1>8, <1>9, <1>11, Places, Ranges
  <2>3. cursor' - start' - cursor_pos' \in WholeRows
    BY <1>9, <2>2, Places, WholeRowsSum
  <2> QED BY <2>1, <2>3 DEF PlaceInv, ScreenSize
<1>14. ASSUME ScreenShowsLine PROVE ScreenShowsLine'
  <2>1. cursor - start = cursor_pos
        /\ \A o \in Offsets : cells[o] = IF o < line_len THEN buf[o] ELSE Space
    BY <1>14 DEF ScreenShowsLine
  <2>2. home - start = 0 /\ erased = 0
    BY <1>1, <1>2, <1>12, <2>1, Places, Ranges
  <2>3. cursor' - start' = cursor_pos'
    BY <1>1, <1>2, <1>4, <1>8, <1>11, <2>1, <2>2, Places, Ranges
  <2>4. ASSUME NEW o \in Offsets
        PROVE  cells'[o] = IF o < line_len' THEN buf'[o] ELSE Space
    <3>1. o \in Nat /\ o - (home - start) = o
      BY <2>2, Sizes DEF Offsets
    <3>2. cells'[o] = IF o \in 0 .. n - 1 THEN line[o + 1]
                      ELSE IF o \in 0 .. line_len - 1 THEN Space ELSE cells[o]
      BY <1>3, <1>6, <3>1, Zenon
    <3>3. CASE o < n
      <4>1. o \in 0 .. n - 1
        BY <3>1, <3>3
      <4> QED BY <1>3, <1>4, <1>5, <3>2, <3>3, <4>1
    <3>4. CASE ~(o < n)
      <4>1. ~(o \in 0 .. n - 1)
        BY <3>1, <3>4
      <4>2. o < line_len => o \in 0 .. line_len - 1
        BY <1>1, <3>1, Ranges
      <4> QED BY <1>4, <2>1, <3>2, <3>4, <4>1, <4>2
    <3> QED BY <3>3, <3>4
  <2> QED BY <2>3, <2>4, Zenon DEF ScreenShowsLine, Offsets
<1> QED BY <1>13, <1>14

(* A new line shows nothing, from the prompt's end on.                     *)
LEMMA NewLineShown ==
  ASSUME line_len' = 0, cursor_pos' = 0, start' \in PromptEnds, cursor' = start', cells' = Blank
  PROVE  PlaceInv' /\ ScreenShowsLine'
<1>1. start' \in Nat /\ start' < ScreenSize
  <2>1. start' \in 0 .. VGA_COLS - 1 \/ start' \in ScreenSize - VGA_COLS .. ScreenSize - 1
    BY DEF PromptEnds
  <2> QED BY <2>1, ScreenHolds, Sizes
<1>2. cursor' - start' - cursor_pos' = 0 /\ cursor' - start' = cursor_pos'
  <2>1. PICK s \in Nat : s = start'
    BY <1>1
  <2>2. s - s - 0 = 0 /\ s - s = 0
    OBVIOUS
  <2> QED BY <2>1, <2>2, Zenon
<1>3. PlaceInv'
  BY <1>1, <1>2, ScreenHolds, WholeRowsSum DEF PlaceInv, ScreenSize, WholeRows
<1>4. \A o \in Offsets : ~(o < 0)
  BY Sizes DEF Offsets
<1> QED BY <1>2, <1>3, <1>4 DEF ScreenShowsLine, Blank, Offsets

(* The first prompt is such a one.                                         *)
LEMMA ShownInitially == Init => ShownInv
<1> SUFFICES ASSUME Init PROVE ShownInv
  OBVIOUS
<1>1. start \in Nat /\ start < ScreenSize
  <2>1. start \in 0 .. VGA_COLS - 1 \/ start \in ScreenSize - VGA_COLS .. ScreenSize - 1
    BY DEF Init, PromptEnds
  <2> QED BY <2>1, ScreenHolds, Sizes
<1>2. line_len = 0 /\ cursor - start - cursor_pos = 0
  BY <1>1 DEF Init
<1> QED BY <1>1, <1>2, ScreenHolds, WholeRowsSum, LineInitially DEF ShownInv, PlaceInv

(* What a key does to the screen.                                          *)
LEMMA KeyFollows ==
  ASSUME ShownInv, [Next]_editorVars
  PROVE  /\ ShownInv'
         /\ ScreenShowsLine /\ ~InsertionScrolls => ScreenShowsLine'
<1>1. LineInv'
  BY Places, LineStep
<1>2. CASE UNCHANGED editorVars
  <2>1. PlaceInv' /\ (ScreenShowsLine => ScreenShowsLine')
    BY <1>2 DEF ShownInv, PlaceInv, WholeRows, ScreenSize, ScreenShowsLine, Offsets,
                editorVars, lineVars, screenVars
  <2> QED BY <1>1, <2>1 DEF ShownInv
<1>3. CASE Enter
  <2>1. PlaceInv' /\ ScreenShowsLine'
    BY <1>3, NewLineShown DEF Enter, NewLine
  <2> QED BY <1>1, <2>1 DEF ShownInv
<1>4. ASSUME NEW ch \in Char, TypeChar(ch)
      PROVE  ShownInv' /\ (ScreenShowsLine /\ ~InsertionScrolls => ScreenShowsLine')
  <2>1. PlaceInv'
    BY <1>4, TypeCharFollows
  <2>2. ScreenShowsLine /\ ~(start' < start /\ cursor_pos < line_len)
          => ScreenShowsLine'
    BY <1>4, TypeCharFollows
  <2>3. start' < start /\ cursor_pos < line_len => InsertionScrolls
    BY <1>4 DEF InsertionScrolls
  <2> QED BY <1>1, <2>1, <2>2, <2>3 DEF ShownInv
<1>5. CASE OnScreen /\ Backspace
  BY <1>1, <1>5, BackspaceFollows DEF ShownInv
<1>6. CASE OnScreen /\ (LeftArrow \/ RightArrow)
  BY <1>1, <1>6, ArrowFollows DEF ShownInv
<1>7. CASE OnScreen /\ (UpArrow \/ DownArrow)
  <2>1. PICK idx \in 0 .. history_count : LoadHistory(idx)
    BY <1>7, Places, Ranges DEF UpArrow, DownArrow
  <2> QED BY <1>1, <1>7, <2>1, LoadHistoryFollows DEF ShownInv
<1> QED BY <1>2, <1>3, <1>4, <1>5, <1>6, <1>7 DEF Next

(* Whatever is typed, the line ends above the end of the screen and the    *)
(* cursor is at the character the next key acts on or whole rows below it. *)
THEOREM CursorKeepsItsColumn == Spec => []ShownInv
BY ShownInitially, KeyFollows, PTL DEF Spec

(* A key keeps the screen showing the line, over line ends and scrolls,    *)
(* but for a character typed before others whose tail scrolls the screen;  *)
(* a line recalled from the middle of another is no exception.             *)
THEOREM LineStaysShown == Spec => ScreenFollowsLine
<1>1. ShownInv /\ [Next]_editorVars =>
        [ScreenShowsLine /\ ~InsertionScrolls => ScreenShowsLine']_editorVars
  BY KeyFollows
<1> QED BY <1>1, CursorKeepsItsColumn, PTL DEF Spec, ScreenFollowsLine
=============================================================================
