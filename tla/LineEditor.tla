------------------------------ MODULE LineEditor ------------------------------
(***************************************************************************)
(* The shell's prompt: shell_readline with its in-place buffer, its own    *)
(* arithmetic on the screen cursor, and the history array of shell_run.    *)
(*                                                                         *)
(* Screen cells are numbered from the top left.  The cells from the first  *)
(* one of the line on are in cells, by their distance to it; a scroll      *)
(* moves the line and the printing position up together.                   *)
(***************************************************************************)
EXTENDS Integers, SequencesExt

CONSTANTS INPUT_MAX,             \* bytes of the line buffer (256)
          HISTORY_MAX,           \* lines of the history (10)
          VGA_ROWS, VGA_COLS,
          Char,                  \* the printable characters 32 .. 126
          Space,                 \* 32
          NUL                    \* 0

ASSUME LineEditorAssumption ==
  /\ INPUT_MAX \in Nat /\ INPUT_MAX >= 2
  /\ HISTORY_MAX \in Nat /\ HISTORY_MAX >= 1
  /\ VGA_ROWS \in Nat /\ VGA_COLS \in Nat /\ VGA_COLS >= 1
  /\ (VGA_ROWS - 1) * VGA_COLS >= INPUT_MAX
  /\ Space \in Char /\ NUL \notin Char

VARIABLES buf, line_len, cursor_pos,   \* shell_readline
          history_idx,
          shell_history, history_count,
          cursor,                      \* term_row * VGA_COLS + term_col
          start,                       \* the cell the line begins in
          cells                        \* what the line's cells show

lineVars == <<buf, line_len, cursor_pos>>
historyVars == <<shell_history, history_count>>
screenVars == <<cursor, start, cells>>
editorVars == <<lineVars, history_idx, historyVars, screenVars>>

Indices == 0 .. INPUT_MAX - 1
Entries == 0 .. HISTORY_MAX - 1
ScreenSize == VGA_ROWS * VGA_COLS
Offsets == 0 .. INPUT_MAX        \* bound: a line and a cell after it

Blank == [o \in Offsets |-> Space]

(* Bound: print_prompt leaves the cursor in the first or in the last row.  *)
(* Nothing stands after it.                                                *)
PromptEnds == 0 .. VGA_COLS - 1 \cup ScreenSize - VGA_COLS .. ScreenSize - 1

NewLine == /\ line_len' = 0 /\ cursor_pos' = 0
           /\ history_idx' = history_count'
           /\ start' \in PromptEnds
           /\ cursor' = start'
           /\ cells' = Blank

Init == /\ buf = [i \in Indices |-> NUL]
        /\ line_len = 0 /\ cursor_pos = 0 /\ history_idx = 0
        /\ shell_history = [i \in Entries |-> <<>>] /\ history_count = 0
        /\ start \in PromptEnds /\ cursor = start
        /\ cells = Blank

Line == [i \in 1 .. line_len |-> buf[i - 1]]

(* The characters of a buffer from index i on. *)
From(b, i, len) == [k \in 1 .. len - i |-> b[i + k - 1]]

-----------------------------------------------------------------------------
(* Faulty variants, against which the properties are tried: room for the   *)
(* character that needs the NUL's place, a cursor that does not follow the *)
(* scroll, a full history that overwrites its last line.                   *)
RoomWithoutNul == line_len < INPUT_MAX
Uncapped(cell) == cell
NotMovedUp == [i \in Entries |-> shell_history[i]]

-----------------------------------------------------------------------------
(* terminal_putchar, character by character: the screen scrolls a row each *)
(* time the position passes its last cell.                                 *)
ScrolledRows(cell) == IF cell < ScreenSize THEN 0
                      ELSE (cell - ScreenSize) \div VGA_COLS + 1

Shown(text, at) ==
  [o \in Offsets |-> IF o - at \in 0 .. Len(text) - 1 THEN text[o - at + 1]
                     ELSE cells[o]]

(* The cells by which a text printed from the cell from scrolls the screen. *)
Scrolled(text, from) == ScrolledRows(from + Len(text)) * VGA_COLS

PutText(text, from) == /\ cells' = Shown(text, from - start)
                       /\ start' = start - Scrolled(text, from)

(* "Simple cap for scroll": a cell past the last row is column 0 of it.    *)
CapAtLastRow(cell) == IF cell < ScreenSize THEN cell ELSE cell - VGA_COLS

-----------------------------------------------------------------------------
(* Keys *)

(* The characters from the cursor on move one place up. *)
Inserted(ch) ==
  [i \in Indices |-> IF i = cursor_pos THEN ch
                     ELSE IF i \in cursor_pos + 1 .. line_len THEN buf[i - 1]
                     ELSE IF i = line_len + 1 THEN NUL ELSE buf[i]]

RoomForChar == line_len < INPUT_MAX - 1

TypeChar(ch) == /\ RoomForChar
                /\ buf' = Inserted(ch)
                /\ line_len' = line_len + 1 /\ cursor_pos' = cursor_pos + 1
                /\ PutText(From(buf', cursor_pos, line_len'), cursor)
                /\ cursor' = CapAtLastRow(cursor + 1)
                /\ UNCHANGED <<history_idx, historyVars>>

Removed == [i \in Indices |-> IF i \in cursor_pos - 1 .. line_len - 2 THEN buf[i + 1]
                              ELSE IF i = line_len - 1 THEN NUL ELSE buf[i]]

(* The tail is printed again, a space over what was the last character,    *)
(* and the cursor put back.                                                *)
Backspace ==
  /\ cursor_pos > 0
  /\ buf' = Removed
  /\ line_len' = line_len - 1 /\ cursor_pos' = cursor_pos - 1
  /\ LET back == IF cursor > 0 THEN cursor - 1 ELSE 0
     IN  /\ PutText(Append(From(buf', cursor_pos', line_len'), Space), back)
         /\ cursor' = back
  /\ UNCHANGED <<history_idx, historyVars>>

LeftArrow == /\ cursor_pos > 0
             /\ cursor_pos' = cursor_pos - 1
             /\ cursor' = IF cursor > 0 THEN cursor - 1 ELSE 0
             /\ UNCHANGED <<buf, line_len, history_idx, historyVars, start, cells>>

(* terminal_setcursor refuses the row after the last, not column 0. *)
RightArrow == /\ cursor_pos < line_len
              /\ cursor_pos' = cursor_pos + 1
              /\ cursor' = CapAtLastRow(cursor + 1)
              /\ UNCHANGED <<buf, line_len, history_idx, historyVars, start, cells>>

(* load_history: back to the first cell, spaces over the line, then the    *)
(* line of the history, which strncpy pads with NULs.                      *)
LoadHistory(idx) ==
  LET line == IF idx = history_count THEN <<>> ELSE shell_history[idx]
      home == IF cursor > cursor_pos THEN cursor - cursor_pos ELSE 0
      at == home - start
  IN  /\ history_idx' = idx
      /\ buf' = IF idx = history_count THEN [buf EXCEPT ![0] = NUL]
                ELSE [i \in Indices |-> IF i < Len(line) THEN line[i + 1] ELSE NUL]
      /\ line_len' = Len(line) /\ cursor_pos' = Len(line)
      /\ cells' = [o \in Offsets |->
                     IF o - at \in 0 .. Len(line) - 1 THEN line[o - at + 1]
                     ELSE IF o - at \in 0 .. line_len - 1 THEN Space
                     ELSE cells[o]]
      /\ LET erased == Scrolled(Line, home) IN
           /\ start' = start - erased - Scrolled(line, home)
           /\ cursor' = home + Len(line) - Scrolled(line, home)
      /\ UNCHANGED historyVars

UpArrow == history_idx > 0 /\ LoadHistory(history_idx - 1)
DownArrow == history_idx < history_count /\ LoadHistory(history_idx + 1)

(* skip_spaces *)
Words(line) == LET first == SelectInSeq(line, LAMBDA ch : ch # Space)
               IN  IF first = 0 THEN <<>> ELSE SubSeq(line, first, Len(line))

MovedUp == [i \in Entries |-> IF i < HISTORY_MAX - 1 THEN shell_history[i + 1]
                              ELSE shell_history[i]]

(* A line that is not blank goes to the end of the history. *)
AddToHistory(line) ==
  \/ line = <<>> /\ UNCHANGED historyVars
  \/ /\ line # <<>> /\ history_count < HISTORY_MAX
     /\ shell_history' = [shell_history EXCEPT ![history_count] = line]
     /\ history_count' = history_count + 1
  \/ /\ line # <<>> /\ history_count = HISTORY_MAX
     /\ shell_history' = [MovedUp EXCEPT ![HISTORY_MAX - 1] = line]
     /\ UNCHANGED history_count

(* The command runs and the next call of shell_readline empties buf. *)
Enter == /\ AddToHistory(Words(Line))
         /\ buf' = [buf EXCEPT ![0] = NUL]
         /\ NewLine

(* Bound: a line that the screen no longer follows may scroll off its top; *)
(* from then on it is only entered.                                        *)
OnScreen == start >= 0

Next == \/ /\ OnScreen
           /\ \/ \E ch \in Char : TypeChar(ch)
              \/ Backspace \/ LeftArrow \/ RightArrow \/ UpArrow \/ DownArrow
        \/ Enter

Spec == Init /\ [][Next]_editorVars

-----------------------------------------------------------------------------
TypeOK ==
  /\ buf \in [Indices -> Char \cup {NUL}]
  /\ line_len \in 0 .. INPUT_MAX - 1 /\ cursor_pos \in 0 .. line_len
  /\ history_count \in 0 .. HISTORY_MAX /\ history_idx \in 0 .. history_count
  /\ \A i \in Entries : shell_history[i] \in Seq(Char) /\ Len(shell_history[i]) < INPUT_MAX
  /\ cursor \in 0 .. ScreenSize - 1

(* Every key does to the line and to the history what it does in an editor *)
(* of two sequences: the shifts in place lose and repeat nothing, a line   *)
(* recalled and edited leaves the history as it was, and the array holds   *)
(* the last HISTORY_MAX lines in the order they were entered.              *)
Abstract == INSTANCE CommandLine
  WITH MaxLen <- INPUT_MAX - 1, MaxPast <- HISTORY_MAX,
       before <- SubSeq(Line, 1, cursor_pos),
       after <- SubSeq(Line, cursor_pos + 1, line_len),
       past <- [i \in 1 .. history_count |-> shell_history[i - 1]],
       at <- history_idx + 1

ImplementsLine == Abstract!Spec

(* The screen shows the line and nothing after it, the cursor at the       *)
(* character the next key acts on.                                         *)
ScreenShowsLine ==
  /\ cursor - start = cursor_pos
  /\ \A o \in Offsets : cells[o] = IF o < line_len THEN buf[o] ELSE Space

(* A key keeps it so, over line ends and scrolls, except a character       *)
(* typed before others that makes their tail scroll the screen: the row    *)
(* saved before the tail was printed is then one too low.                  *)
InsertionScrolls == /\ cursor_pos < line_len
                    /\ \E ch \in Char : TypeChar(ch)
                    /\ start' < start

ScreenFollowsLine ==
  [][ScreenShowsLine /\ ~InsertionScrolls => ScreenShowsLine']_editorVars
=============================================================================
