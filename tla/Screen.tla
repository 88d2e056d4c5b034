------------------------------- MODULE Screen -------------------------------
(***************************************************************************)
(* The VGA text driver of screen.c.  terminal_putchar and terminal_clear   *)
(* run on the main thread with interrupts enabled, row by row where they   *)
(* loop over the video memory; terminal_scroll_up and terminal_scroll_down *)
(* run inside the keyboard's or the mouse's interrupt handler, at any      *)
(* point between those steps, on the same video memory and variables.      *)
(***************************************************************************)
EXTENDS Terminal

CONSTANTS TAB_STOP,       \* columns between tab stops (8)
          Printable,      \* characters printed
          ScrollLines,    \* how far one key or wheel step scrolls
          TabAnywhere,    \* whether a tab may be printed in the last stop
          CursorRows,     \* places terminal_setcursor is asked for
          CursorCols,
          MaxCalls,       \* bound: calls on the main thread
          MaxScrolls      \* bound: scroll interrupts

ASSUME ScreenAssumption ==
  /\ VGA_ROWS \in Nat /\ VGA_ROWS >= 1 /\ VGA_COLS \in Nat /\ VGA_COLS >= 1
  /\ HISTORY_LINES \in Nat /\ HISTORY_LINES >= 1
  /\ TAB_STOP \in Nat /\ TAB_STOP >= 1 /\ VGA_COLS % TAB_STOP = 0
  /\ ScrollLines \subseteq Nat \ {0}
  /\ TabAnywhere \in BOOLEAN
  /\ Printable \cap {Newline, CarriageReturn, Backspace, Tab} = {}
  /\ MaxCalls \in Nat /\ MaxScrolls \in Nat

VARIABLES vga_buf,        \* video memory, a function of rows and columns
          term_row, term_col,
          history_buf, history_head, history_count,
          view_scroll,    \* lines the view is scrolled back by
          live_snapshot,  \* the live page while the view is scrolled back
          pc,             \* the main thread's position, "idle" outside a call
          ch,             \* the character being printed
          line,           \* loop variable of the row loops
          tab,            \* the column a tab advances to, or NoTab
          text,           \* history: the Terminal after the same calls
          disturbed,      \* history: a scroll interrupted a call
          calls, scrolls

screen == <<vga_buf, history_buf, history_head, history_count>>
cursor == <<term_row, term_col>>
view == <<view_scroll, live_snapshot>>
ghosts == <<disturbed, calls, scrolls>>
vars == <<screen, cursor, view, pc, ch, line, tab, text, ghosts>>

NoTab == -1

Init == /\ vga_buf = BlankPage
        /\ term_row = 0 /\ term_col = 0
        /\ history_buf = [h \in 0 .. HISTORY_LINES - 1 |-> BlankLine]
        /\ history_head = 0 /\ history_count = 0
        /\ view_scroll = 0
        /\ live_snapshot = BlankPage
        /\ pc = "idle" /\ ch = Blank /\ line = 0 /\ tab = NoTab
        /\ text = Fresh
        /\ disturbed = FALSE /\ calls = 0 /\ scrolls = 0

-----------------------------------------------------------------------------
(* Faulty variants, against which the properties are tried: one line too   *)
(* old, no clamp, the snapshot taken again while scrolled back, a tab      *)
(* rounded up twice.                                                       *)
HistoryRowOffByOne(n, r) == (history_head - n + r + 1 + HISTORY_LINES) % HISTORY_LINES
Unclamped(n) == n
SnapshotAlways == vga_buf
NextTabRoundedUp == ((term_col + 2 * TAB_STOP - 1) \div TAB_STOP) * TAB_STOP

-----------------------------------------------------------------------------
(* Interrupts *)

HistoryRow(n, r) == (history_head - n + r + HISTORY_LINES) % HISTORY_LINES

(* redraw_scroll for a view scrolled back by n > 0 lines. *)
ScrolledView(n, snapshot) ==
  [r \in Rows |-> IF r < n THEN history_buf[HistoryRow(n, r)] ELSE snapshot[r - n]]

Clamp(n) == IF n > history_count THEN history_count ELSE n

Snapshot == IF view_scroll = 0 THEN vga_buf ELSE live_snapshot

terminal_scroll_up(n) ==
  LET scrolled == Clamp(view_scroll + n)
  IN  /\ live_snapshot' = Snapshot
      /\ view_scroll' = scrolled
      /\ vga_buf' = IF scrolled > 0 THEN ScrolledView(scrolled, live_snapshot')
                                    ELSE vga_buf

terminal_scroll_down(n) ==
  /\ view_scroll > 0
  /\ view_scroll' = IF view_scroll > n THEN view_scroll - n ELSE 0
  /\ vga_buf' = IF view_scroll' > 0 THEN ScrolledView(view_scroll', live_snapshot)
                                    ELSE live_snapshot
  /\ UNCHANGED live_snapshot

(* PgUp/PgDn, shift with an arrow, the wheel. *)
ScrollIrq == /\ scrolls < MaxScrolls
             /\ \E n \in ScrollLines : terminal_scroll_up(n) \/ terminal_scroll_down(n)
             /\ scrolls' = scrolls + 1
             /\ disturbed' = (disturbed \/ pc # "idle")
             /\ UNCHANGED <<history_buf, history_head, history_count, cursor,
                            pc, ch, line, tab, text, calls>>

-----------------------------------------------------------------------------
(* The main thread *)

NextTab == ((term_col + TAB_STOP) \div TAB_STOP) * TAB_STOP

Call == pc = "idle" /\ calls < MaxCalls /\ calls' = calls + 1

CallPutchar(char) ==
  /\ Call
  /\ char = Tab => TabAnywhere \/ term_col < VGA_COLS - TAB_STOP
  /\ ch' = char
  /\ pc' = "putchar"
  /\ UNCHANGED <<screen, cursor, view, line, tab, text, disturbed, scrolls>>

CallClear ==
  /\ Call
  /\ pc' = "clear"
  /\ UNCHANGED <<screen, cursor, view, ch, line, tab, text, disturbed, scrolls>>

(* terminal_setcursor moves the cursor only, whatever the view shows. *)
CallSetcursor(r, c) ==
  /\ Call
  /\ term_row' = IF r \in Rows THEN r ELSE term_row
  /\ term_col' = IF c \in Cols THEN c ELSE term_col
  /\ text' = MoveTo(text, r, c)
  /\ UNCHANGED <<screen, view, pc, ch, line, tab, disturbed, scrolls>>

(* Printing and clearing begin by bringing the live page back. *)
EndView ==
  /\ pc \in {"putchar", "clear"}
  /\ view_scroll > 0
  /\ view_scroll' = 0
  /\ line' = 0
  /\ pc' = IF pc = "putchar" THEN "redraw_print" ELSE "redraw_fill"
  /\ UNCHANGED <<screen, cursor, live_snapshot, ch, tab, text, ghosts>>

ViewIsLive ==
  /\ pc \in {"putchar", "clear"}
  /\ view_scroll = 0
  /\ line' = 0
  /\ pc' = IF pc = "putchar" THEN "print" ELSE "fill"
  /\ UNCHANGED <<screen, cursor, view, ch, tab, text, ghosts>>

(* redraw_scroll with view_scroll = 0, one row a step. *)
RedrawRow ==
  /\ pc \in {"redraw_print", "redraw_fill"}
  /\ vga_buf' = [vga_buf EXCEPT ![line] = live_snapshot[line]]
  /\ IF line + 1 < VGA_ROWS
       THEN line' = line + 1 /\ UNCHANGED pc
       ELSE line' = 0 /\ pc' = IF pc = "redraw_print" THEN "print" ELSE "fill"
  /\ UNCHANGED <<history_buf, history_head, history_count, cursor, view, ch,
                 tab, text, ghosts>>

(* The cursor arithmetic of a line's end: scroll() follows below the page. *)
NextRow == /\ term_col' = 0
           /\ term_row' = term_row + 1
           /\ pc' = IF term_row + 1 >= VGA_ROWS THEN "scroll" ELSE "return"

PrintNewline == /\ ch = Newline
                /\ NextRow
                /\ UNCHANGED <<vga_buf, tab>>

PrintReturn == /\ ch = CarriageReturn
               /\ term_col' = 0
               /\ pc' = "return"
               /\ UNCHANGED <<vga_buf, term_row, tab>>

PrintBackspace ==
  /\ ch = Backspace
  /\ IF term_col > 0 THEN term_col' = term_col - 1 /\ UNCHANGED term_row
     ELSE IF term_row > 0 THEN term_row' = term_row - 1 /\ term_col' = VGA_COLS - 1
     ELSE UNCHANGED cursor
  /\ vga_buf' = [vga_buf EXCEPT ![term_row'][term_col'] = Blank]
  /\ pc' = "return"
  /\ UNCHANGED tab

(* A tab prints spaces until the cursor has reached its stop. *)
PrintTab == /\ ch = Tab
            /\ tab' = NextTab
            /\ pc' = "return"
            /\ UNCHANGED <<vga_buf, cursor>>

PrintChar == /\ ch \in Printable \cup {Blank}
             /\ vga_buf' = [vga_buf EXCEPT ![term_row][term_col] = ch]
             /\ IF term_col + 1 >= VGA_COLS THEN NextRow
                ELSE term_col' = term_col + 1 /\ pc' = "return" /\ UNCHANGED term_row
             /\ UNCHANGED tab

PrintStep == /\ pc = "print"
             /\ PrintNewline \/ PrintReturn \/ PrintBackspace \/ PrintTab \/ PrintChar
             /\ UNCHANGED <<history_buf, history_head, history_count, view,
                            ch, line, text, ghosts>>

(* scroll(): save the top line, move every row up, clear the last. *)
SaveHistoryLine ==
  /\ pc = "scroll"
  /\ history_buf' = [history_buf EXCEPT ![history_head] = vga_buf[0]]
  /\ history_head' = (history_head + 1) % HISTORY_LINES
  /\ history_count' = IF history_count < HISTORY_LINES THEN history_count + 1
                                                       ELSE history_count
  /\ line' = 1
  /\ pc' = "move"
  /\ UNCHANGED <<vga_buf, cursor, view, ch, tab, text, ghosts>>

MoveRow ==
  /\ pc = "move"
  /\ IF line < VGA_ROWS
       THEN /\ vga_buf' = [vga_buf EXCEPT ![line - 1] = vga_buf[line]]
            /\ line' = line + 1
            /\ UNCHANGED <<pc, term_row>>
       ELSE /\ vga_buf' = [vga_buf EXCEPT ![VGA_ROWS - 1] = BlankLine]
            /\ term_row' = VGA_ROWS - 1
            /\ line' = 0
            /\ pc' = "return"
  /\ UNCHANGED <<history_buf, history_head, history_count, term_col, view,
                 ch, tab, text, ghosts>>

(* terminal_putchar returns, to the loop of the tab it was called from or  *)
(* to its caller.                                                          *)
Return ==
  /\ pc = "return"
  /\ text' = IF ch = Tab THEN text ELSE PutChar(text, ch)
  /\ IF term_col < tab
       THEN ch' = Blank /\ pc' = "putchar" /\ UNCHANGED tab
       ELSE pc' = "idle" /\ tab' = NoTab /\ UNCHANGED ch
  /\ UNCHANGED <<screen, cursor, view, line, ghosts>>

(* terminal_clear fills the page, one row a step. *)
FillRow ==
  /\ pc = "fill"
  /\ vga_buf' = [vga_buf EXCEPT ![line] = BlankLine]
  /\ IF line + 1 < VGA_ROWS
       THEN line' = line + 1 /\ UNCHANGED <<pc, cursor, text>>
       ELSE /\ line' = 0
            /\ term_row' = 0 /\ term_col' = 0
            /\ text' = Clear(text)
            /\ pc' = "idle"
  /\ UNCHANGED <<history_buf, history_head, history_count, view, ch, tab, ghosts>>

MainStep == \/ EndView \/ ViewIsLive \/ RedrawRow \/ PrintStep
            \/ SaveHistoryLine \/ MoveRow \/ Return \/ FillRow

Next == \/ \E char \in Printable \cup {Newline, CarriageReturn, Backspace, Tab} :
             CallPutchar(char)
        \/ CallClear
        \/ \E r \in CursorRows, c \in CursorCols : CallSetcursor(r, c)
        \/ MainStep
        \/ ScrollIrq

(* A call that has begun is executed; nobody has to press a key. *)
Spec == Init /\ [][Next]_vars /\ WF_vars(MainStep)

-----------------------------------------------------------------------------
Lines == [Cols -> Printable \cup {Blank}]

(* Rows, columns and history indices stay inside their arrays, whatever    *)
(* interrupts whatever; term_row is one too far only on the way to scroll. *)
TypeOK == /\ vga_buf \in [Rows -> Lines]
          /\ live_snapshot \in [Rows -> Lines]
          /\ history_buf \in [0 .. HISTORY_LINES - 1 -> Lines]
          /\ history_head \in 0 .. HISTORY_LINES - 1
          /\ history_count \in 0 .. HISTORY_LINES
          /\ view_scroll \in 0 .. history_count
          /\ term_row \in 0 .. (IF pc \in {"scroll", "move"} THEN VGA_ROWS
                                                           ELSE VGA_ROWS - 1)
          /\ term_col \in Cols
          /\ calls \in 0 .. MaxCalls /\ scrolls \in 0 .. MaxScrolls
          /\ disturbed \in BOOLEAN

(* The page that will be shown when the view is not scrolled back. *)
LivePage == IF view_scroll = 0 THEN vga_buf ELSE live_snapshot

Past == [k \in 1 .. history_count |->
           history_buf[(history_head - history_count + k - 1 + HISTORY_LINES)
                         % HISTORY_LINES]]

Between == pc = "idle"

(* Between calls the live page, the cursor and the history are those of a  *)
(* terminal that prints atomically: nothing printed is lost.               *)
ScreenShowsText ==
  Between => [page |-> LivePage, past |-> Past, row |-> term_row, col |-> term_col]
               = text

(* So it is as long as scroll interrupts come while the main thread is     *)
(* outside the driver, as when the shell waits for a key.                  *)
UndisturbedScreenShowsText == ~disturbed => ScreenShowsText

(* A scrolled-back view is a window, of the page's height, on the history  *)
(* followed by the page.                                                   *)
ViewIsWindow ==
  (Between /\ ~disturbed /\ view_scroll > 0) => vga_buf = Window(text, view_scroll)

(* Printing and clearing end, whatever the view is scrolled meanwhile. *)
CallsReturn == (pc # "idle") ~> (pc = "idle")

(* A tab stops at its tab stop (screen.c:196, "Advance to next 8-column    *)
(* tab stop").                                                             *)
TabEnds == (tab # NoTab) ~> (tab = NoTab)
=============================================================================
