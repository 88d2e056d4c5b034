------------------------------ MODULE Terminal ------------------------------
(***************************************************************************)
(* What the screen driver promises: a page of text with a cursor and the   *)
(* lines that have scrolled off it, each character taking effect at once.  *)
(* Screen, where output is interruptible and shares the video memory with  *)
(* the scrollback view, is compared with it.                               *)
(***************************************************************************)
EXTENDS Integers, Sequences

CONSTANTS VGA_ROWS, VGA_COLS,
          HISTORY_LINES     \* lines kept of those that scrolled off

Rows == 0 .. VGA_ROWS - 1
Cols == 0 .. VGA_COLS - 1

Blank == "blank"
Newline == "newline"
CarriageReturn == "return"
Backspace == "backspace"
Tab == "tab"

BlankLine == [i \in Cols |-> Blank]
BlankPage == [r \in Rows |-> BlankLine]

(* The page, the past lines (oldest first) and the cursor. *)
Fresh == [page |-> BlankPage, past |-> <<>>, row |-> 0, col |-> 0]

LastLines(lines) == IF Len(lines) > HISTORY_LINES THEN Tail(lines) ELSE lines

Shifted(page) == [r \in Rows |-> IF r = VGA_ROWS - 1 THEN BlankLine ELSE page[r + 1]]

(* The cursor goes to the start of the next line; the page scrolls if it   *)
(* has none.                                                               *)
LineFeed(t) ==
  IF t.row + 1 < VGA_ROWS
    THEN [t EXCEPT !.row = @ + 1, !.col = 0]
    ELSE [page |-> Shifted(t.page), past |-> LastLines(Append(t.past, t.page[0])),
          row |-> VGA_ROWS - 1, col |-> 0]

Put(t, ch) ==
  LET written == [t EXCEPT !.page[t.row][t.col] = ch]
  IN  IF t.col + 1 < VGA_COLS THEN [written EXCEPT !.col = @ + 1]
                              ELSE LineFeed(written)

(* One position back, to the end of the line above at the start of a line. *)
StepBack(t) ==
  IF t.col > 0 THEN [t EXCEPT !.col = @ - 1]
  ELSE IF t.row > 0 THEN [t EXCEPT !.row = @ - 1, !.col = VGA_COLS - 1]
  ELSE t

Erase(t) == LET back == StepBack(t) IN [back EXCEPT !.page[back.row][back.col] = Blank]

PutChar(t, ch) == CASE ch = Newline        -> LineFeed(t)
                    [] ch = CarriageReturn -> [t EXCEPT !.col = 0]
                    [] ch = Backspace      -> Erase(t)
                    [] OTHER               -> Put(t, ch)

(* The cursor is put at a place of the page; a coordinate off the page     *)
(* leaves the cursor's own.                                                *)
MoveTo(t, r, c) == [t EXCEPT !.row = IF r \in Rows THEN r ELSE @,
                             !.col = IF c \in Cols THEN c ELSE @]

Clear(t) == [t EXCEPT !.page = BlankPage, !.row = 0, !.col = 0]

(* The page seen when scrolled back by n lines. *)
Window(t, n) ==
  LET lines == t.past \o [i \in 1 .. VGA_ROWS |-> t.page[i - 1]]
  IN  [r \in Rows |-> lines[Len(t.past) - n + r + 1]]
=============================================================================
