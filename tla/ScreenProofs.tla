---------------------------- MODULE ScreenProofs ----------------------------
(***************************************************************************)
(* The screen driver, interrupted at any of its steps, for every size of   *)
(* the page and of the history.                                            *)
(***************************************************************************)
EXTENDS Screen, SequenceTheorems, TLAPS

(* What may be printed, and where the main thread may be.                  *)
Char == Printable \cup {Blank, Newline, CarriageReturn, Backspace, Tab}

Waiting == {"idle", "putchar", "clear"}
Working == {"redraw_print", "redraw_fill", "print", "fill", "scroll", "move", "return"}

(* The types, under scrolls at any step.                                   *)
ScreenTypes == TypeOK /\ line \in Nat /\ pc \in Waiting \cup Working /\ ch \in Char

(* The driver's variables as a Terminal, with the page given.              *)
ShownWith(page) == [page |-> page, past |-> Past, row |-> term_row, col |-> term_col]
Shown == ShownWith(LivePage)

(* The Terminal when the character being printed is done; a tab leaves it  *)
(* to the spaces that follow.                                              *)
After == IF ch = Tab THEN text ELSE PutChar(text, ch)

(* The view ends: the rows before line are the live page's.                *)
RedrawOK == /\ line \in Rows
            /\ ShownWith(live_snapshot) = text
            /\ \A r \in Rows : r < line => vga_buf[r] = live_snapshot[r]

(* The page is cleared: the rows before line are blank.                    *)
FillOK == /\ line \in Rows
          /\ \E page, row, col : text = [page |-> page, past |-> Past, row |-> row, col |-> col]
          /\ \A r \in Rows : r < line => vga_buf[r] = BlankLine

(* The cursor is below the page, the page is still to move.                *)
ScrollOK == /\ term_col = 0
            /\ After = [page |-> Shifted(vga_buf),
                        past |-> LastLines(Append(Past, vga_buf[0])),
                        row |-> VGA_ROWS - 1, col |-> 0]

(* The top line is saved; the rows before line have moved up.              *)
MoveOK == /\ term_col = 0 /\ line \in 1 .. VGA_ROWS
          /\ \E page \in [Rows -> Lines] :
               /\ After = [page |-> page, past |-> Past, row |-> VGA_ROWS - 1, col |-> 0]
               /\ page[VGA_ROWS - 1] = BlankLine
               /\ \A r \in Rows : r < line - 1 => page[r] = vga_buf[r]
               /\ \A r \in Rows : r >= line => page[r - 1] = vga_buf[r]

PhaseInv ==
  /\ pc \in Waiting \cup {"print"} => Shown = text
  /\ pc \in Working => view_scroll = 0
  /\ pc \in {"redraw_print", "redraw_fill"} => RedrawOK
  /\ pc = "fill" => FillOK
  /\ pc = "scroll" => ScrollOK
  /\ pc = "move" => MoveOK
  /\ pc = "return" => Shown = After
  /\ view_scroll > 0 => vga_buf = ScrolledView(view_scroll, live_snapshot)

(* Scrolls that come between calls leave every step of a call on its way   *)
(* to the Terminal's.                                                      *)
ScreenInv == ScreenTypes /\ (~disturbed => PhaseInv)

-----------------------------------------------------------------------------
(* Types.                                                                  *)

(* The constants as numbers.                                               *)
LEMMA Ranges ==
  /\ VGA_ROWS \in Nat /\ VGA_ROWS >= 1 /\ VGA_COLS \in Nat /\ VGA_COLS >= 1
  /\ HISTORY_LINES \in Nat /\ HISTORY_LINES >= 1
  /\ \A n \in ScrollLines : n \in Nat /\ n >= 1
  /\ MaxCalls \in Nat /\ MaxScrolls \in Nat
BY ScreenAssumption

(* A blank line is a line, a blank page a page.                            *)
LEMMA BlankTypes == BlankLine \in Lines /\ BlankPage \in [Rows -> Lines]
BY DEF BlankLine, BlankPage, Lines

(* An index less than two turns of the ring ahead.                         *)
LEMMA OneTurn ==
  ASSUME NEW i \in Nat, i < 2 * HISTORY_LINES
  PROVE  /\ i % HISTORY_LINES = IF i < HISTORY_LINES THEN i ELSE i - HISTORY_LINES
         /\ i % HISTORY_LINES \in 0 .. HISTORY_LINES - 1
<1>1. CASE i < HISTORY_LINES
  BY <1>1, Ranges
<1>2. CASE i >= HISTORY_LINES
  BY <1>2, Ranges
<1> QED BY <1>1, <1>2, Ranges

(* A line of the view that comes from the history is in its array.         *)
LEMMA HistoryRowType ==
  ASSUME ScreenTypes, NEW n \in 0 .. history_count, NEW r \in 0 .. n - 1
  PROVE  /\ HistoryRow(n, r) \in 0 .. HISTORY_LINES - 1
         /\ history_head - n + r + HISTORY_LINES \in 0 .. 2 * HISTORY_LINES - 1
<1> DEFINE i == history_head - n + r + HISTORY_LINES
<1>1. i \in Nat /\ i < 2 * HISTORY_LINES
  BY Ranges DEF ScreenTypes, TypeOK
<1>2. HistoryRow(n, r) = i % HISTORY_LINES
  BY DEF HistoryRow
<1> HIDE DEF i
<1>3. HistoryRow(n, r) \in 0 .. HISTORY_LINES - 1
  BY <1>1, <1>2, OneTurn
<1> QED BY <1>1, <1>3, Ranges DEF i

(* A scrolled-back view is a page.                                         *)
LEMMA ViewType ==
  ASSUME ScreenTypes, NEW n \in 0 .. history_count, NEW snapshot \in [Rows -> Lines]
  PROVE  ScrolledView(n, snapshot) \in [Rows -> Lines]
<1>1. ASSUME NEW r \in Rows, r < n PROVE history_buf[HistoryRow(n, r)] \in Lines
  <2>1. r \in 0 .. n - 1
    BY <1>1, Ranges DEF Rows, ScreenTypes, TypeOK
  <2> QED BY <2>1, HistoryRowType DEF ScreenTypes, TypeOK
<1>2. ASSUME NEW r \in Rows, ~(r < n) PROVE snapshot[r - n] \in Lines
  <2>1. r - n \in Rows
    BY <1>2, Ranges DEF Rows, ScreenTypes, TypeOK
  <2> QED BY <2>1
<1> QED BY <1>1, <1>2 DEF ScrolledView

(* What a scroll interrupt does, whenever it comes.                        *)
LEMMA ScrollEffect ==
  ASSUME ScreenTypes, ScrollIrq
  PROVE  /\ UNCHANGED <<history_buf, history_head, history_count, term_row, term_col,
                        pc, ch, line, tab, text, calls>>
         /\ disturbed' = (disturbed \/ pc # "idle") /\ scrolls < MaxScrolls
         /\ scrolls' = scrolls + 1
         /\ view_scroll' \in 0 .. history_count
         /\ live_snapshot' \in [Rows -> Lines] /\ vga_buf' \in [Rows -> Lines]
         /\ LivePage' = LivePage
         /\ view_scroll' > 0 => vga_buf' = ScrolledView(view_scroll', live_snapshot')
<1>1. /\ UNCHANGED <<history_buf, history_head, history_count, term_row, term_col,
                     pc, ch, line, tab, text, calls>>
      /\ disturbed' = (disturbed \/ pc # "idle") /\ scrolls < MaxScrolls
      /\ scrolls' = scrolls + 1
  BY DEF ScrollIrq, cursor
<1>2. PICK n \in ScrollLines : terminal_scroll_up(n) \/ terminal_scroll_down(n)
  BY DEF ScrollIrq
<1>3. /\ view_scroll \in 0 .. history_count /\ history_count \in Nat /\ n \in Nat /\ n >= 1
      /\ vga_buf \in [Rows -> Lines] /\ live_snapshot \in [Rows -> Lines]
  BY Ranges DEF ScreenTypes, TypeOK
<1>4. CASE terminal_scroll_up(n)
  <2>1. /\ live_snapshot' = Snapshot /\ view_scroll' = Clamp(view_scroll + n)
        /\ vga_buf' = IF view_scroll' > 0 THEN ScrolledView(view_scroll', live_snapshot')
                                          ELSE vga_buf
    BY <1>4 DEF terminal_scroll_up
  <2>2. view_scroll' \in 0 .. history_count /\ (view_scroll' = 0 => view_scroll = 0)
    BY <1>3, <2>1 DEF Clamp
  <2>3. live_snapshot' = LivePage /\ live_snapshot' \in [Rows -> Lines]
    BY <1>3, <2>1 DEF Snapshot, LivePage
  <2>4. vga_buf' \in [Rows -> Lines]
    BY <1>3, <2>1, <2>2, <2>3, ViewType
  <2>5. LivePage' = LivePage
    BY <2>1, <2>2, <2>3 DEF LivePage
  <2> QED BY <1>1, <2>1, <2>2, <2>3, <2>4, <2>5
<1>5. CASE terminal_scroll_down(n)
  <2>1. /\ view_scroll > 0 /\ live_snapshot' = live_snapshot
        /\ view_scroll' = (IF view_scroll > n THEN view_scroll - n ELSE 0)
        /\ vga_buf' = IF view_scroll' > 0 THEN ScrolledView(view_scroll', live_snapshot)
                                          ELSE live_snapshot
    BY <1>5 DEF terminal_scroll_down
  <2>2. view_scroll' \in 0 .. history_count
    BY <1>3, <2>1
  <2>3. vga_buf' \in [Rows -> Lines]
    BY <1>3, <2>1, <2>2, ViewType
  <2>4. LivePage' = LivePage
    BY <1>3, <2>1, <2>2 DEF LivePage
  <2> QED BY <1>1, <1>3, <2>1, <2>2, <2>3, <2>4
<1> QED BY <1>2, <1>4, <1>5

(* A call begins; the cursor may be put elsewhere.                         *)
LEMMA CallTypes ==
  ASSUME ScreenTypes,
         \/ \E char \in Printable \cup {Newline, CarriageReturn, Backspace, Tab} :
              CallPutchar(char)
         \/ CallClear
         \/ \E r \in CursorRows, c \in CursorCols : CallSetcursor(r, c)
  PROVE  ScreenTypes'
<1> USE DEF ScreenTypes, TypeOK, Call, screen, cursor, view, Waiting, Working
<1>1. CASE \E char \in Printable \cup {Newline, CarriageReturn, Backspace, Tab} :
             CallPutchar(char)
  BY <1>1, Ranges DEF CallPutchar, Char
<1>2. CASE CallClear
  BY <1>2, Ranges DEF CallClear
<1>3. CASE \E r \in CursorRows, c \in CursorCols : CallSetcursor(r, c)
  BY <1>3, Ranges DEF CallSetcursor, Rows, Cols
<1> QED BY <1>1, <1>2, <1>3

(* The view ends, or does not have to.                                     *)
LEMMA BeginTypes == ASSUME ScreenTypes, EndView \/ ViewIsLive PROVE ScreenTypes'
BY Ranges DEF ScreenTypes, TypeOK, EndView, ViewIsLive, screen, cursor, view, ghosts,
              Waiting, Working

(* A row of the live page comes back.                                      *)
LEMMA RedrawTypes == ASSUME ScreenTypes, RedrawRow PROVE ScreenTypes'
<1>1. vga_buf' \in [Rows -> Lines]
  <2>1. line \in Rows => live_snapshot[line] \in Lines
    BY DEF ScreenTypes, TypeOK
  <2> QED BY <2>1 DEF ScreenTypes, TypeOK, RedrawRow
<1>2. line' \in Nat /\ pc' \in {"redraw_print", "redraw_fill", "print", "fill"}
  BY DEF ScreenTypes, RedrawRow
<1>3. UNCHANGED <<history_buf, history_head, history_count, term_row, term_col, view_scroll,
                  live_snapshot, ch, calls, scrolls, disturbed>>
  BY DEF RedrawRow, cursor, view, ghosts
<1>4. pc \notin {"scroll", "move"}
  BY DEF RedrawRow
<1> QED BY <1>1, <1>2, <1>3, <1>4 DEF ScreenTypes, TypeOK, Waiting, Working

(* A character of a line of the page is replaced.                          *)
LEMMA Replaced ==
  ASSUME NEW page \in [Rows -> Lines], NEW r \in Nat, NEW c \in Nat,
         NEW char \in Printable \cup {Blank}
  PROVE  [page EXCEPT ![r][c] = char] \in [Rows -> Lines]
<1>1. ASSUME r \in Rows PROVE [page[r] EXCEPT ![c] = char] \in Lines
  BY <1>1 DEF Lines
<1> QED BY <1>1

(* A character is printed: only a line's end takes the cursor below the    *)
(* page.                                                                   *)
LEMMA PrintTypes == ASSUME ScreenTypes, PrintStep PROVE ScreenTypes'
<1>1. /\ UNCHANGED <<history_buf, history_head, history_count, view_scroll, live_snapshot,
                     ch, line, calls, scrolls, disturbed>>
      /\ pc = "print" /\ ch \in Char /\ term_row \in Rows /\ term_col \in Cols
      /\ vga_buf \in [Rows -> Lines]
  BY Ranges DEF PrintStep, view, ghosts, ScreenTypes, TypeOK, Rows
<1>2. /\ vga_buf' \in [Rows -> Lines] /\ term_col' \in Cols /\ pc' \in {"scroll", "return"}
      /\ term_row' \in 0 .. (IF pc' = "scroll" THEN VGA_ROWS ELSE VGA_ROWS - 1)
  <2>1. CASE PrintNewline
    BY <1>1, <2>1, Ranges DEF PrintNewline, NextRow, Rows, Cols
  <2>2. CASE PrintReturn
    BY <1>1, <2>2, Ranges DEF PrintReturn, Rows, Cols
  <2>3. CASE PrintBackspace
    <3>1. /\ term_row' \in 0 .. VGA_ROWS - 1 /\ term_col' \in Cols /\ pc' = "return"
          /\ vga_buf' = [vga_buf EXCEPT ![term_row'][term_col'] = Blank]
      BY <1>1, <2>3, Ranges DEF PrintBackspace, Rows, Cols, cursor
    <3>2. term_row' \in Nat /\ term_col' \in Nat
      BY <3>1, Ranges DEF Cols
    <3>3. vga_buf' \in [Rows -> Lines]
      BY <1>1, <3>1, <3>2, Replaced
    <3> QED BY <3>1, <3>3
  <2>4. CASE PrintTab
    BY <1>1, <2>4, Ranges DEF PrintTab, Rows, Cols, cursor
  <2>5. CASE PrintChar
    <3>1. /\ ch \in Printable \cup {Blank} /\ term_row \in Nat /\ term_col \in Nat
          /\ vga_buf' = [vga_buf EXCEPT ![term_row][term_col] = ch]
      BY <1>1, <2>5, Ranges DEF PrintChar, Rows, Cols
    <3>2. vga_buf' \in [Rows -> Lines]
      BY <1>1, <3>1, Replaced
    <3>3. /\ term_col' \in Cols /\ pc' \in {"scroll", "return"}
          /\ term_row' \in 0 .. (IF pc' = "scroll" THEN VGA_ROWS ELSE VGA_ROWS - 1)
      BY <1>1, <2>5, Ranges DEF PrintChar, NextRow, Rows, Cols
    <3> QED BY <3>2, <3>3
  <2> QED BY <2>1, <2>2, <2>3, <2>4, <2>5 DEF PrintStep
<1>3. pc' # "move"
  BY <1>2
<1> QED BY <1>1, <1>2, <1>3 DEF ScreenTypes, TypeOK, Waiting, Working

(* The next place of the ring.                                             *)
LEMMA NextPlace ==
  ASSUME NEW h \in 0 .. HISTORY_LINES - 1
  PROVE  /\ (h + 1) % HISTORY_LINES \in 0 .. HISTORY_LINES - 1
         /\ (h + 1) % HISTORY_LINES = IF h + 1 < HISTORY_LINES THEN h + 1 ELSE 0
<1> DEFINE i == h + 1
<1>1. i \in Nat /\ i < 2 * HISTORY_LINES /\ (i >= HISTORY_LINES => i - HISTORY_LINES = 0)
  BY Ranges
<1> HIDE DEF i
<1>2. /\ i % HISTORY_LINES = IF i < HISTORY_LINES THEN i ELSE i - HISTORY_LINES
      /\ i % HISTORY_LINES \in 0 .. HISTORY_LINES - 1
  BY <1>1, OneTurn
<1> QED BY <1>1, <1>2, Ranges DEF i

(* scroll() saves the top line at a place of the ring.                     *)
LEMMA SaveTypes == ASSUME ScreenTypes, SaveHistoryLine PROVE ScreenTypes'
<1>1. /\ UNCHANGED <<vga_buf, term_row, term_col, view_scroll, live_snapshot,
                     ch, calls, scrolls, disturbed>>
      /\ pc = "scroll" /\ pc' = "move" /\ line' = 1
      /\ history_buf' = [history_buf EXCEPT ![history_head] = vga_buf[0]]
      /\ history_head' = (history_head + 1) % HISTORY_LINES
      /\ history_count' = IF history_count < HISTORY_LINES THEN history_count + 1
                                                           ELSE history_count
  BY DEF SaveHistoryLine, cursor, view, ghosts
<1>2. history_head' \in 0 .. HISTORY_LINES - 1
  BY <1>1, NextPlace DEF ScreenTypes, TypeOK
<1>3. vga_buf[0] \in Lines
  BY Ranges DEF ScreenTypes, TypeOK, Rows
<1>4. history_buf' \in [0 .. HISTORY_LINES - 1 -> Lines]
  BY <1>1, <1>3 DEF ScreenTypes, TypeOK
<1>5. history_count' \in 0 .. HISTORY_LINES /\ view_scroll' \in 0 .. history_count'
  BY <1>1, Ranges DEF ScreenTypes, TypeOK
<1> QED BY <1>1, <1>2, <1>4, <1>5 DEF ScreenTypes, TypeOK, Waiting, Working

(* scroll() moves a row up, or ends.                                       *)
LEMMA MoveTypes == ASSUME ScreenTypes, MoveRow PROVE ScreenTypes'
<1>1. UNCHANGED <<history_buf, history_head, history_count, term_col, view_scroll,
                  live_snapshot, ch, calls, scrolls, disturbed>>
  BY DEF MoveRow, view, ghosts
<1>2. vga_buf' \in [Rows -> Lines]
  <2>1. line < VGA_ROWS => vga_buf[line] \in Lines
    BY Ranges DEF ScreenTypes, TypeOK, Rows
  <2> QED BY <2>1, BlankTypes DEF ScreenTypes, TypeOK, MoveRow
<1>3. CASE line < VGA_ROWS
  <2>1. pc' = pc /\ line' = line + 1 /\ term_row' = term_row
    BY <1>3 DEF MoveRow
  <2> QED BY <1>1, <1>2, <2>1 DEF ScreenTypes, TypeOK
<1>4. CASE ~(line < VGA_ROWS)
  <2>1. pc' = "return" /\ line' = 0 /\ term_row' = VGA_ROWS - 1
    BY <1>4 DEF MoveRow
  <2>2. term_row' \in 0 .. VGA_ROWS - 1
    BY <2>1, Ranges
  <2> QED BY <1>1, <1>2, <2>1, <2>2 DEF ScreenTypes, TypeOK, Waiting, Working
<1> QED BY <1>3, <1>4

(* terminal_putchar returns.                                               *)
LEMMA ReturnTypes == ASSUME ScreenTypes, Return PROVE ScreenTypes'
<1>1. /\ UNCHANGED <<vga_buf, history_buf, history_head, history_count, term_row, term_col,
                     view_scroll, live_snapshot, line, calls, scrolls, disturbed>>
      /\ pc = "return" /\ pc' \in {"putchar", "idle"} /\ ch' \in {ch, Blank}
  BY DEF Return, screen, cursor, view, ghosts
<1> QED BY <1>1 DEF ScreenTypes, TypeOK, Waiting, Working, Char

(* terminal_clear fills a row.                                             *)
LEMMA FillTypes == ASSUME ScreenTypes, FillRow PROVE ScreenTypes'
<1>1. /\ UNCHANGED <<history_buf, history_head, history_count, view_scroll,
                     live_snapshot, ch, calls, scrolls, disturbed>>
      /\ pc = "fill" /\ pc' \in {"fill", "idle"} /\ line' \in Nat
      /\ vga_buf' = [vga_buf EXCEPT ![line] = BlankLine]
  BY DEF FillRow, view, ghosts, ScreenTypes
<1>2. vga_buf' \in [Rows -> Lines]
  BY <1>1, BlankTypes DEF ScreenTypes, TypeOK
<1>3. term_row' \in 0 .. VGA_ROWS - 1 /\ term_col' \in Cols
  BY Ranges DEF FillRow, cursor, ScreenTypes, TypeOK, Cols
<1> QED BY <1>1, <1>2, <1>3 DEF ScreenTypes, TypeOK, Waiting, Working

(* A scroll interrupt, at any step.                                        *)
LEMMA ScrollTypes == ASSUME ScreenTypes, ScrollIrq PROVE ScreenTypes'
<1>1. /\ UNCHANGED <<history_buf, history_head, history_count, term_row, term_col,
                     pc, ch, line, calls>>
      /\ disturbed' = (disturbed \/ pc # "idle") /\ scrolls' = scrolls + 1
      /\ scrolls < MaxScrolls /\ view_scroll' \in 0 .. history_count
      /\ live_snapshot' \in [Rows -> Lines] /\ vga_buf' \in [Rows -> Lines]
  BY ScrollEffect
<1>2. scrolls' \in 0 .. MaxScrolls
  BY <1>1, Ranges DEF ScreenTypes, TypeOK
<1>3. disturbed' \in BOOLEAN
  BY <1>1
<1> QED BY <1>1, <1>2, <1>3 DEF ScreenTypes, TypeOK

(* The types hold after terminal_init.                                     *)
LEMMA TypesInitially == Init => ScreenTypes
<1> SUFFICES ASSUME Init PROVE ScreenTypes
  OBVIOUS
<1>1. /\ vga_buf \in [Rows -> Lines] /\ live_snapshot \in [Rows -> Lines]
      /\ history_buf \in [0 .. HISTORY_LINES - 1 -> Lines]
  BY BlankTypes DEF Init
<1>2. /\ history_head \in 0 .. HISTORY_LINES - 1 /\ history_count \in 0 .. HISTORY_LINES
      /\ view_scroll \in 0 .. history_count
      /\ term_row \in 0 .. VGA_ROWS - 1 /\ term_col \in Cols
      /\ calls \in 0 .. MaxCalls /\ scrolls \in 0 .. MaxScrolls
  BY Ranges DEF Init, Cols
<1>3. disturbed \in BOOLEAN /\ pc = "idle" /\ ch \in Char /\ line \in Nat
  BY DEF Init, Char
<1> QED BY <1>1, <1>2, <1>3 DEF ScreenTypes, TypeOK, Waiting

(* Every step keeps them.                                                  *)
LEMMA TypesStep == ScreenTypes /\ [Next]_vars => ScreenTypes'
<1> SUFFICES ASSUME ScreenTypes, [Next]_vars PROVE ScreenTypes'
  OBVIOUS
<1>1. CASE MainStep
  BY <1>1, BeginTypes, RedrawTypes, PrintTypes, SaveTypes, MoveTypes, ReturnTypes, FillTypes
     DEF MainStep
<1>2. CASE UNCHANGED vars
  BY <1>2 DEF vars, screen, cursor, view, ghosts, ScreenTypes, TypeOK
<1> QED BY <1>1, <1>2, CallTypes, ScrollTypes DEF Next

(* Whatever interrupts whatever, rows, columns and history indices stay    *)
(* inside their arrays: terminal_putchar, terminal_clear, scroll and the   *)
(* two scrollback functions never write outside video memory or history.   *)
THEOREM ScreenTypeCorrect == Spec => []TypeOK
<1>1. Spec => []ScreenTypes
  BY TypesInitially, TypesStep, PTL DEF Spec
<1> QED BY <1>1, PTL DEF ScreenTypes

-----------------------------------------------------------------------------
(* The phases of a call that no scroll disturbs.                           *)

(* What is shown does not depend on where the main thread is.              *)
LEMMA SameShown ==
  ASSUME UNCHANGED <<history_buf, history_head, history_count>>
  PROVE  /\ Past' = Past
         /\ UNCHANGED <<vga_buf, view>> => LivePage' = LivePage
         /\ UNCHANGED <<vga_buf, cursor, view>> => Shown' = Shown
         /\ UNCHANGED view =>
              ScrolledView(view_scroll, live_snapshot)' = ScrolledView(view_scroll, live_snapshot)
<1>1. Past' = Past
  BY DEF Past
<1>2. UNCHANGED <<vga_buf, view>> => LivePage' = LivePage
  BY DEF LivePage, view
<1>3. UNCHANGED <<vga_buf, cursor, view>> => Shown' = Shown
  BY <1>1, <1>2 DEF Shown, ShownWith, cursor
<1>4. UNCHANGED view =>
        ScrolledView(view_scroll, live_snapshot)' = ScrolledView(view_scroll, live_snapshot)
  BY DEF ScrolledView, HistoryRow, view
<1> QED BY <1>1, <1>2, <1>3, <1>4

(* A call begins; the cursor is put where the Terminal's is.               *)
LEMMA CallPhase ==
  ASSUME PhaseInv,
         \/ \E char \in Printable \cup {Newline, CarriageReturn, Backspace, Tab} :
              CallPutchar(char)
         \/ CallClear
         \/ \E r \in CursorRows, c \in CursorCols : CallSetcursor(r, c)
  PROVE  PhaseInv'
<1>1. /\ UNCHANGED <<screen, view>> /\ pc = "idle" /\ pc' \in Waiting
  BY DEF CallPutchar, CallClear, CallSetcursor, Call, Waiting
<1>2. /\ UNCHANGED <<vga_buf, history_buf, history_head, history_count>>
  BY <1>1 DEF screen
<1>3. view_scroll' > 0 => vga_buf' = ScrolledView(view_scroll, live_snapshot)'
  BY <1>1, <1>2, SameShown DEF PhaseInv, view
<1>4. Shown' = text'
  <2>1. Shown = text
    BY <1>1 DEF PhaseInv, Waiting
  <2>2. CASE UNCHANGED <<cursor, text>>
    BY <1>1, <1>2, <2>1, <2>2, SameShown
  <2>3. CASE \E r \in CursorRows, c \in CursorCols : CallSetcursor(r, c)
    <3>1. PICK r \in CursorRows, c \in CursorCols : CallSetcursor(r, c)
      BY <2>3
    <3>2. /\ term_row' = IF r \in Rows THEN r ELSE term_row
          /\ term_col' = IF c \in Cols THEN c ELSE term_col
          /\ text' = MoveTo(Shown, r, c)
      BY <2>1, <3>1 DEF CallSetcursor
    <3>3. LivePage' = LivePage /\ Past' = Past
      BY <1>1, <1>2, SameShown
    <3> QED BY <3>2, <3>3 DEF Shown, ShownWith, MoveTo
  <2> QED BY <2>2, <2>3 DEF CallPutchar, CallClear
<1>5. pc' \notin Working /\ pc' # "print"
  BY <1>1 DEF Waiting, Working
<1> QED BY <1>3, <1>4, <1>5 DEF PhaseInv, Working

(* The call finds the view live, or begins to bring the page back.         *)
LEMMA BeginPhase ==
  ASSUME ScreenTypes, PhaseInv, EndView \/ ViewIsLive PROVE PhaseInv'
<1>1. /\ UNCHANGED <<vga_buf, history_buf, history_head, history_count, term_row, term_col,
                     live_snapshot, text>>
      /\ pc \in Waiting /\ line' = 0 /\ view_scroll' = 0
  BY DEF EndView, ViewIsLive, screen, cursor, view, Waiting
<1>2. Shown = text /\ Past' = Past
  BY <1>1, SameShown DEF PhaseInv
<1>3. view_scroll' = 0 /\ line' \in Rows /\ (\A r \in Rows : ~(r < line'))
  BY <1>1, Ranges DEF Rows
<1>4. CASE EndView
  <2>1. view_scroll > 0 /\ pc' \in {"redraw_print", "redraw_fill"}
    BY <1>4 DEF EndView
  <2>2. LivePage = live_snapshot
    BY <2>1 DEF LivePage, ScreenTypes, TypeOK
  <2>3. ShownWith(live_snapshot)' = text'
    BY <1>1, <1>2, <2>2 DEF Shown, ShownWith
  <2>4. RedrawOK'
    BY <1>3, <2>3 DEF RedrawOK, Rows
  <2> QED BY <1>3, <2>1, <2>4 DEF PhaseInv, Waiting
<1>5. CASE ViewIsLive
  <2>1. UNCHANGED view /\ pc' \in {"print", "fill"}
    BY <1>5 DEF ViewIsLive
  <2>2. Shown' = text'
    BY <1>1, <1>2, <2>1, SameShown DEF cursor
  <2>3. FillOK'
    BY <1>3, <2>2 DEF FillOK, Shown, ShownWith, Rows
  <2> QED BY <1>3, <2>1, <2>2, <2>3 DEF PhaseInv, Waiting
<1> QED BY <1>4, <1>5

(* When every row is the live page's, the page is shown.                   *)
LEMMA SamePage ==
  ASSUME NEW page \in [Rows -> Lines], NEW other \in [Rows -> Lines],
         \A r \in Rows : page[r] = other[r]
  PROVE  page = other
OBVIOUS

(* redraw_scroll brings the live page back, row by row.                    *)
LEMMA RedrawPhase == ASSUME ScreenTypes, PhaseInv, RedrawRow PROVE PhaseInv'
<1>1. /\ UNCHANGED <<history_buf, history_head, history_count, term_row, term_col,
                     view_scroll, live_snapshot, text>>
      /\ pc \in {"redraw_print", "redraw_fill"} /\ view_scroll = 0 /\ RedrawOK
      /\ vga_buf' = [vga_buf EXCEPT ![line] = live_snapshot[line]]
  BY DEF RedrawRow, cursor, view, PhaseInv, Working
<1>2. /\ vga_buf \in [Rows -> Lines] /\ live_snapshot \in [Rows -> Lines] /\ line \in Rows
      /\ vga_buf' \in [Rows -> Lines]
  BY <1>1, RedrawTypes DEF ScreenTypes, TypeOK, RedrawOK
<1>3. \A r \in Rows : r <= line => vga_buf'[r] = live_snapshot[r]
  BY <1>1, <1>2 DEF RedrawOK, Rows
<1>4. ShownWith(live_snapshot)' = text'
  BY <1>1, SameShown DEF RedrawOK, ShownWith
<1>5. CASE line + 1 < VGA_ROWS
  <2>1. line' = line + 1 /\ pc' = pc
    BY <1>5 DEF RedrawRow
  <2>2. line' \in Rows /\ \A r \in Rows : r < line' => r <= line
    BY <1>2, <1>5, <2>1, Ranges DEF Rows
  <2>3. RedrawOK'
    BY <1>1, <1>3, <1>4, <2>2 DEF RedrawOK, Rows
  <2> QED BY <1>1, <2>1, <2>3 DEF PhaseInv, Waiting
<1>6. CASE ~(line + 1 < VGA_ROWS)
  <2>1. line' = 0 /\ pc' \in {"print", "fill"}
    BY <1>6 DEF RedrawRow
  <2>2. \A r \in Rows : r <= line
    BY <1>2, <1>6, Ranges DEF Rows
  <2>3. vga_buf' = live_snapshot'
    BY <1>1, <1>2, <1>3, <2>2, SamePage
  <2>4. Shown' = text'
    BY <1>1, <1>4, <2>3 DEF Shown, ShownWith, LivePage
  <2>5. line' \in Rows /\ \A r \in Rows : ~(r < line')
    BY <2>1, Ranges DEF Rows
  <2>6. FillOK'
    BY <2>4, <2>5 DEF FillOK, Shown, ShownWith, Rows
  <2> QED BY <1>1, <2>1, <2>4, <2>6 DEF PhaseInv, Waiting
<1> QED BY <1>5, <1>6

(* A character is printed: the cursor moves as the Terminal's does, or has *)
(* left the page, which is then to be scrolled.                            *)
LEMMA PrintEffect ==
  ASSUME ScreenTypes, PrintStep, view_scroll = 0, Shown = text
  PROVE  /\ pc' \in {"return", "scroll"}
         /\ pc' = "return" => Shown' = After'
         /\ pc' = "scroll" => ScrollOK'
<1>1. /\ UNCHANGED <<history_buf, history_head, history_count, view_scroll, ch, text>>
      /\ ch \in Char /\ term_row \in Rows /\ term_col \in Cols /\ pc = "print"
  BY Ranges DEF PrintStep, view, ScreenTypes, TypeOK, Rows
<1>2. /\ text = [page |-> vga_buf, past |-> Past, row |-> term_row, col |-> term_col]
      /\ Shown' = [page |-> vga_buf', past |-> Past, row |-> term_row', col |-> term_col']
      /\ After' = IF ch = Tab THEN text ELSE PutChar(text, ch)
      /\ Past' = Past
  BY <1>1, SameShown DEF Shown, ShownWith, LivePage, After
<1>3. term_row \in Nat /\ term_row < VGA_ROWS /\ term_col \in Nat /\ term_col < VGA_COLS
  BY <1>1, Ranges DEF Rows, Cols
<1>4. ASSUME NEW page, NextRow, page = vga_buf',
             After' = LineFeed([page |-> page, past |-> Past, row |-> term_row,
                                col |-> term_col])
      PROVE  /\ pc' \in {"return", "scroll"}
             /\ pc' = "return" => Shown' = After'
             /\ pc' = "scroll" => ScrollOK'
  <2>1. term_col' = 0 /\ term_row' = term_row + 1
    BY <1>4 DEF NextRow
  <2>2. CASE term_row + 1 < VGA_ROWS
    <3>1. pc' = "return"
      BY <1>3, <1>4, <2>2, Ranges DEF NextRow
    <3>2. After' = [page |-> page, past |-> Past, row |-> term_row + 1, col |-> 0]
      BY <1>4, <2>2 DEF LineFeed
    <3> QED BY <1>2, <1>4, <2>1, <3>1, <3>2
  <2>3. CASE ~(term_row + 1 < VGA_ROWS)
    <3>1. pc' = "scroll"
      BY <1>3, <1>4, <2>3, Ranges DEF NextRow
    <3>2. After' = [page |-> Shifted(page), past |-> LastLines(Append(Past, page[0])),
                    row |-> VGA_ROWS - 1, col |-> 0]
      BY <1>4, <2>3 DEF LineFeed
    <3>3. After' = [page |-> Shifted(vga_buf)', past |-> LastLines(Append(Past, vga_buf[0]))',
                    row |-> VGA_ROWS - 1, col |-> 0]
      BY <1>2, <1>4, <3>2 DEF Shifted, LastLines
    <3> QED BY <2>1, <3>1, <3>3 DEF ScrollOK
  <2> QED BY <2>2, <2>3
<1>5. CASE PrintNewline
  <2>1. NextRow /\ vga_buf' = vga_buf /\ After' = LineFeed(text)
    BY <1>2, <1>5 DEF PrintNewline, PutChar, Newline, CarriageReturn, Backspace, Tab
  <2> QED BY <1>2, <1>4, <2>1
<1>6. CASE PrintReturn
  <2>1. /\ term_col' = 0 /\ pc' = "return" /\ vga_buf' = vga_buf /\ term_row' = term_row
        /\ After' = [text EXCEPT !.col = 0]
    BY <1>2, <1>6 DEF PrintReturn, PutChar, Newline, CarriageReturn, Backspace, Tab
  <2> QED BY <1>2, <2>1
<1>7. CASE PrintBackspace
  <2>1. /\ pc' = "return" /\ After' = Erase(text)
        /\ vga_buf' = [vga_buf EXCEPT ![term_row'][term_col'] = Blank]
    BY <1>2, <1>7 DEF PrintBackspace, PutChar, Backspace, CarriageReturn, Newline, Tab
  <2>2. StepBack(text) = [page |-> vga_buf, past |-> Past, row |-> term_row',
                          col |-> term_col']
    BY <1>2, <1>7 DEF PrintBackspace, StepBack, cursor
  <2>3. Erase(text) = [page |-> vga_buf', past |-> Past, row |-> term_row', col |-> term_col']
    BY <2>1, <2>2 DEF Erase
  <2> QED BY <1>2, <2>1, <2>3
<1>8. CASE PrintTab
  BY <1>2, <1>8 DEF PrintTab, cursor
<1>9. CASE PrintChar
  <2>1. /\ ch \in Printable \cup {Blank}
        /\ vga_buf' = [vga_buf EXCEPT ![term_row][term_col] = ch]
    BY <1>9 DEF PrintChar
  <2>2. ch \notin {Newline, CarriageReturn, Backspace, Tab}
    BY <2>1, ScreenAssumption DEF Newline, CarriageReturn, Backspace, Tab, Blank
  <2>3. After' = Put(text, ch)
    BY <1>2, <2>2 DEF PutChar
  <2> DEFINE written == [page |-> vga_buf', past |-> Past, row |-> term_row, col |-> term_col]
  <2>4. After' = IF term_col + 1 < VGA_COLS THEN [written EXCEPT !.col = @ + 1]
                                            ELSE LineFeed(written)
    <3>1. [text EXCEPT !.page[text.row][text.col] = ch] = written
      BY <1>2, <2>1
    <3>2. text.col = term_col /\ written.col = term_col
      BY <1>2
    <3>3. After' = IF text.col + 1 < VGA_COLS
                     THEN [[text EXCEPT !.page[text.row][text.col] = ch] EXCEPT !.col = @ + 1]
                     ELSE LineFeed([text EXCEPT !.page[text.row][text.col] = ch])
      BY <2>3 DEF Put
    <3> HIDE DEF written
    <3> QED BY <3>1, <3>2, <3>3
  <2>5. CASE term_col + 1 < VGA_COLS
    <3>1. term_col' = term_col + 1 /\ pc' = "return" /\ term_row' = term_row
      BY <1>3, <1>9, <2>5, Ranges DEF PrintChar
    <3> QED BY <1>2, <2>4, <2>5, <3>1
  <2>6. CASE ~(term_col + 1 < VGA_COLS)
    <3>1. NextRow
      BY <1>3, <1>9, <2>6, Ranges DEF PrintChar
    <3> QED BY <1>4, <2>4, <2>6, <3>1
  <2> QED BY <2>5, <2>6
<1> QED BY <1>5, <1>6, <1>7, <1>8, <1>9 DEF PrintStep

-----------------------------------------------------------------------------
(* The history is a ring.                                                  *)

(* Where in the ring the k-th of c past lines is, the newest before h.     *)
LEMMA PastPlace ==
  ASSUME NEW h \in 0 .. HISTORY_LINES - 1, NEW c \in 0 .. HISTORY_LINES, NEW k \in 1 .. c + 1
  PROVE  (h - c + k - 1 + HISTORY_LINES) % HISTORY_LINES
           = IF h + k <= c THEN h - c + k - 1 + HISTORY_LINES ELSE h - c + k - 1
<1> DEFINE i == h - c + k - 1 + HISTORY_LINES
<1>1. /\ i \in Nat /\ i < 2 * HISTORY_LINES /\ (i < HISTORY_LINES <=> h + k <= c)
      /\ i - HISTORY_LINES = h - c + k - 1
  BY Ranges
<1> HIDE DEF i
<1>2. i % HISTORY_LINES = IF i < HISTORY_LINES THEN i ELSE i - HISTORY_LINES
  BY <1>1, OneTurn
<1>3. i % HISTORY_LINES = IF h + k <= c THEN i ELSE h - c + k - 1
  BY <1>1, <1>2
<1> QED BY <1>3 DEF i

(* A function on 1 .. n is a sequence of length n.                         *)
LEMMA ListOf ==
  ASSUME NEW S, NEW n \in Nat, NEW f \in [1 .. n -> S]
  PROVE  f \in Seq(S) /\ Len(f) = n
OBVIOUS

(* Functions that agree on their domain are the same.                      *)
LEMMA SameList ==
  ASSUME NEW S, NEW D, NEW f \in [D -> S], NEW g \in [D -> S], \A k \in D : f[k] = g[k]
  PROVE  f = g
OBVIOUS

(* A list with an element added, and without its first then.               *)
AddedTo(S, n, f, e) ==
  /\ Len(Append(f, e)) = n + 1
  /\ Append(f, e) \in [1 .. n + 1 -> S]
  /\ \A k \in 1 .. n + 1 : Append(f, e)[k] = IF k <= n THEN f[k] ELSE e
  /\ Tail(Append(f, e)) \in [1 .. n -> S]
  /\ \A k \in 1 .. n : Tail(Append(f, e))[k] = IF k < n THEN f[k + 1] ELSE e

(* So Append and Tail compute it.                                          *)
LEMMA Added ==
  ASSUME NEW S, NEW n \in Nat, NEW f \in [1 .. n -> S], NEW e \in S
  PROVE  AddedTo(S, n, f, e)
<1>1. f \in Seq(S) /\ Len(f) = n
  BY ListOf
<1> DEFINE longer == Append(f, e)
<1>2. longer \in Seq(S) /\ Len(longer) = n + 1 /\ longer # << >>
  BY <1>1, AppendProperties
<1>3. \A k \in 1 .. n + 1 : longer[k] = IF k <= n THEN f[k] ELSE e
  <2>1. (\A k \in 1 .. n : longer[k] = f[k]) /\ longer[n + 1] = e
    BY <1>1, AppendProperties
  <2>2. \A k \in 1 .. n + 1 : k \in 1 .. n \/ (k = n + 1 /\ ~(k <= n))
    OBVIOUS
  <2> HIDE DEF longer
  <2> QED BY <2>1, <2>2
<1> HIDE DEF longer
<1>4. /\ Tail(longer) \in Seq(S) /\ Len(Tail(longer)) = n
      /\ \A k \in 1 .. n : Tail(longer)[k] = longer[k + 1]
  BY <1>2, HeadTailProperties
<1>5. longer \in [1 .. n + 1 -> S] /\ Tail(longer) \in [1 .. n -> S]
  BY <1>2, <1>4, LenProperties
<1>6. \A k \in 1 .. n : Tail(longer)[k] = IF k < n THEN f[k + 1] ELSE e
  <2>1. ASSUME NEW k \in 1 .. n
        PROVE  k + 1 \in 1 .. n + 1 /\ (k + 1 <= n <=> k < n)
    OBVIOUS
  <2> QED BY <1>3, <1>4, <2>1
<1> QED BY <1>2, <1>3, <1>5, <1>6 DEF longer, AddedTo

(* The past lines one by one.                                              *)
PastIs ==
  /\ Past \in [1 .. history_count -> Lines] /\ history_count \in Nat
  /\ Past \in Seq(Lines) /\ Len(Past) = history_count
  /\ \A k \in 1 .. history_count :
       Past[k] = history_buf[IF history_head + k <= history_count
                   THEN history_head - history_count + k - 1 + HISTORY_LINES
                   ELSE history_head - history_count + k - 1]

(* The ring read from its oldest line to its newest.                       *)
LEMMA PastType == ScreenTypes => PastIs
<1> SUFFICES ASSUME ScreenTypes PROVE PastIs
  OBVIOUS
<1>1. ASSUME NEW k \in 1 .. history_count
      PROVE  /\ (history_head - history_count + k - 1 + HISTORY_LINES) % HISTORY_LINES
                  = IF history_head + k <= history_count
                      THEN history_head - history_count + k - 1 + HISTORY_LINES
                      ELSE history_head - history_count + k - 1
             /\ (IF history_head + k <= history_count
                   THEN history_head - history_count + k - 1 + HISTORY_LINES
                   ELSE history_head - history_count + k - 1) \in 0 .. HISTORY_LINES - 1
  <2>1. history_head \in 0 .. HISTORY_LINES - 1 /\ history_count \in 0 .. HISTORY_LINES
    BY DEF ScreenTypes, TypeOK
  <2> QED BY <2>1, PastPlace, Ranges
<1>2. ASSUME NEW k \in 1 .. history_count
      PROVE  /\ Past[k] = history_buf[IF history_head + k <= history_count
                            THEN history_head - history_count + k - 1 + HISTORY_LINES
                            ELSE history_head - history_count + k - 1]
             /\ Past[k] \in Lines
  BY <1>1 DEF Past, ScreenTypes, TypeOK
<1>3. Past \in [1 .. history_count -> Lines] /\ history_count \in Nat
  BY <1>2, Ranges DEF Past, ScreenTypes, TypeOK
<1>4. Past \in Seq(Lines) /\ Len(Past) = history_count
  BY <1>3, ListOf
<1> QED BY <1>2, <1>3, <1>4 DEF PastIs

(* scroll() saves the top line as the newest of the past ones, over the    *)
(* oldest when the history is full.                                        *)
LEMMA SavedLine ==
  ASSUME ScreenTypes, SaveHistoryLine
  PROVE  Past' = LastLines(Append(Past, vga_buf[0]))
<1> DEFINE h == history_head
           c == history_count
           top == vga_buf[0]
<1>1. /\ h \in 0 .. HISTORY_LINES - 1 /\ c \in 0 .. HISTORY_LINES /\ top \in Lines
      /\ history_buf \in [0 .. HISTORY_LINES - 1 -> Lines]
  BY Ranges DEF ScreenTypes, TypeOK, Rows
<1>2. /\ history_buf' = [history_buf EXCEPT ![h] = top]
      /\ h' = IF h + 1 < HISTORY_LINES THEN h + 1 ELSE 0
      /\ c' = IF c < HISTORY_LINES THEN c + 1 ELSE c
  BY <1>1, NextPlace DEF SaveHistoryLine
<1>3. /\ Past \in [1 .. c -> Lines] /\ c \in Nat
      /\ \A k \in 1 .. c : Past[k] = history_buf[IF h + k <= c THEN h - c + k - 1 + HISTORY_LINES
                                                              ELSE h - c + k - 1]
  BY PastType DEF PastIs
<1>4. /\ Past' \in [1 .. c' -> Lines]
      /\ \A k \in 1 .. c' :
           Past'[k] = history_buf'[IF h' + k <= c' THEN h' - c' + k - 1 + HISTORY_LINES
                                                   ELSE h' - c' + k - 1]
  <2>1. PastIs'
    BY SaveTypes, PastType, PTL
  <2> QED BY <2>1 DEF PastIs
<1> DEFINE longer == Append(Past, top)
<1>5. /\ Len(longer) = c + 1 /\ longer \in [1 .. c + 1 -> Lines]
      /\ \A k \in 1 .. c + 1 : longer[k] = IF k <= c THEN Past[k] ELSE top
      /\ Tail(longer) \in [1 .. c -> Lines]
      /\ \A k \in 1 .. c : Tail(longer)[k] = IF k < c THEN Past[k + 1] ELSE top
  <2>1. AddedTo(Lines, c, Past, top)
    BY <1>1, <1>3, Added
  <2> QED BY <2>1 DEF AddedTo
<1> HIDE DEF longer
<1>6. CASE c < HISTORY_LINES
  <2>1. c' = c + 1 /\ LastLines(longer) = longer
    BY <1>1, <1>2, <1>5, <1>6, Ranges DEF LastLines
  <2>2. ASSUME NEW k \in 1 .. c + 1 PROVE Past'[k] = longer[k]
    <3> DEFINE j == IF h' + k <= c' THEN h' - c' + k - 1 + HISTORY_LINES ELSE h' - c' + k - 1
    <3>1. Past'[k] = history_buf'[j]
      BY <1>4, <2>1
    <3>2. CASE k <= c
      <4> DEFINE i == IF h + k <= c THEN h - c + k - 1 + HISTORY_LINES ELSE h - c + k - 1
      <4>1. i = j /\ j \in 0 .. HISTORY_LINES - 1 /\ j # h
        BY <1>1, <1>2, <1>6, <2>1, <3>2, Ranges
      <4>2. longer[k] = history_buf[i]
        BY <1>3, <1>5, <3>2
      <4> HIDE DEF i, j
      <4> QED BY <1>1, <1>2, <3>1, <4>1, <4>2
    <3>3. CASE k = c + 1
      <4>1. j = h
        BY <1>1, <1>2, <1>6, <2>1, <3>3, Ranges
      <4>2. longer[k] = top
        BY <1>1, <1>5, <3>3
      <4> HIDE DEF j
      <4> QED BY <1>1, <1>2, <3>1, <4>1, <4>2
    <3>4. k <= c \/ k = c + 1
      BY <1>3
    <3> QED BY <3>2, <3>3, <3>4
  <2>3. Past' \in [1 .. c + 1 -> Lines]
    BY <1>4, <2>1
  <2>4. Past' = longer
    BY <1>5, <2>2, <2>3, SameList
  <2> QED BY <2>1, <2>4 DEF longer
<1>7. CASE c = HISTORY_LINES
  <2>1. c' = c /\ LastLines(longer) = Tail(longer)
    BY <1>1, <1>2, <1>5, <1>7, Ranges DEF LastLines
  <2>2. ASSUME NEW k \in 1 .. c PROVE Past'[k] = Tail(longer)[k]
    <3> DEFINE j == IF h' + k <= c' THEN h' - c' + k - 1 + HISTORY_LINES ELSE h' - c' + k - 1
    <3>1. Past'[k] = history_buf'[j]
      BY <1>4, <2>1
    <3>2. CASE k < c
      <4> DEFINE m == k + 1
      <4> DEFINE i == IF h + m <= c THEN h - c + m - 1 + HISTORY_LINES ELSE h - c + m - 1
      <4>1. i = j /\ j \in 0 .. HISTORY_LINES - 1 /\ j # h
        BY <1>1, <1>2, <1>7, <2>1, <3>2, Ranges
      <4>2. m \in 1 .. c /\ Tail(longer)[k] = Past[m]
        BY <1>3, <1>5, <3>2
      <4>3. Past[m] = history_buf[i]
        BY <1>3, <4>2
      <4> HIDE DEF i, j, m
      <4> QED BY <1>1, <1>2, <3>1, <4>1, <4>2, <4>3
    <3>3. CASE k = c
      <4>1. j = h
        BY <1>1, <1>2, <1>7, <2>1, <3>3, Ranges
      <4>2. Tail(longer)[k] = top
        BY <1>1, <1>5, <3>3
      <4> HIDE DEF j
      <4> QED BY <1>1, <1>2, <3>1, <4>1, <4>2
    <3>4. k < c \/ k = c
      BY <1>3
    <3> QED BY <3>2, <3>3, <3>4
  <2>3. Past' \in [1 .. c -> Lines]
    BY <1>4, <2>1
  <2> DEFINE kept == Tail(longer)
  <2>4. kept \in [1 .. c -> Lines] /\ \A k \in 1 .. c : Past'[k] = kept[k]
    BY <1>5, <2>2
  <2> HIDE DEF kept, c
  <2>5. Past' = kept
    <3>1. \A f, g \in [1 .. c -> Lines] : (\A k \in 1 .. c : f[k] = g[k]) => f = g
      BY SameList
    <3> QED BY <2>3, <2>4, <3>1
  <2> QED BY <2>1, <2>5 DEF kept, longer
<1> QED
  <2>1. c < HISTORY_LINES \/ c = HISTORY_LINES
    BY <1>1, Ranges
  <2> QED BY <1>6, <1>7, <2>1

-----------------------------------------------------------------------------
(* The page scrolls, the call returns, the page is cleared.                *)

(* The top line is in the history, and every row is still to move.         *)
LEMMA SavePhase == ASSUME ScreenTypes, PhaseInv, SaveHistoryLine PROVE PhaseInv'
<1>1. /\ UNCHANGED <<vga_buf, term_col, view_scroll, ch, text>>
      /\ pc = "scroll" /\ pc' = "move" /\ line' = 1 /\ view_scroll = 0 /\ ScrollOK
  BY DEF SaveHistoryLine, cursor, view, PhaseInv, Working
<1>2. After' = After /\ Past' = LastLines(Append(Past, vga_buf[0]))
  BY <1>1, SavedLine DEF After
<1> DEFINE page == Shifted(vga_buf)
<1>3. page \in [Rows -> Lines]
  BY BlankTypes, Ranges DEF ScreenTypes, TypeOK, Shifted, Rows
<1>4. /\ page[VGA_ROWS - 1] = BlankLine
      /\ \A r \in Rows : ~(r < 0)
      /\ \A r \in Rows : r >= 1 => page[r - 1] = vga_buf[r]
  <2>1. VGA_ROWS - 1 \in Rows /\ \A r \in Rows : ~(r < 0)
    BY Ranges DEF Rows
  <2>2. \A r \in Rows : r >= 1 => r - 1 \in Rows /\ r - 1 # VGA_ROWS - 1 /\ (r - 1) + 1 = r
    BY Ranges DEF Rows
  <2> QED BY <2>1, <2>2 DEF Shifted
<1>5. After' = [page |-> page, past |-> Past', row |-> VGA_ROWS - 1, col |-> 0]
  BY <1>1, <1>2 DEF ScrollOK
<1> HIDE DEF page
<1>6. MoveOK'
  <2>1. term_col' = 0 /\ line' \in 1 .. VGA_ROWS
    BY <1>1, Ranges DEF ScrollOK
  <2>2. \A r \in Rows : r < line' - 1 => page[r] = vga_buf'[r]
    BY <1>1, <1>4
  <2>3. \A r \in Rows : r >= line' => page[r - 1] = vga_buf'[r]
    BY <1>1, <1>4
  <2> QED BY <1>3, <1>4, <1>5, <2>1, <2>2, <2>3 DEF MoveOK, Rows, Lines, Cols
<1> QED BY <1>1, <1>6 DEF PhaseInv, Waiting

(* The rows move up one by one; then the page is the Terminal's.           *)
LEMMA MovePhase == ASSUME ScreenTypes, PhaseInv, MoveRow PROVE PhaseInv'
<1>1. /\ UNCHANGED <<history_buf, history_head, history_count, term_col, view_scroll, ch, text>>
      /\ pc = "move" /\ view_scroll = 0 /\ MoveOK
      /\ vga_buf \in [Rows -> Lines] /\ vga_buf' \in [Rows -> Lines]
  BY MoveTypes DEF MoveRow, view, PhaseInv, Working, ScreenTypes, TypeOK
<1>2. After' = After /\ Past' = Past /\ term_col' = 0 /\ line \in 1 .. VGA_ROWS
  BY <1>1, SameShown DEF After, MoveOK
<1>3. PICK page \in [Rows -> Lines] :
        /\ After = [page |-> page, past |-> Past, row |-> VGA_ROWS - 1, col |-> 0]
        /\ page[VGA_ROWS - 1] = BlankLine
        /\ \A r \in Rows : r < line - 1 => page[r] = vga_buf[r]
        /\ \A r \in Rows : r >= line => page[r - 1] = vga_buf[r]
  BY <1>1 DEF MoveOK
<1>4. CASE line < VGA_ROWS
  <2>1. /\ pc' = pc /\ line' = line + 1
        /\ vga_buf' = [vga_buf EXCEPT ![line - 1] = vga_buf[line]]
    BY <1>4 DEF MoveRow
  <2>2. ASSUME NEW r \in Rows, r < line' - 1 PROVE page[r] = vga_buf'[r]
    <3>1. page[line - 1] = vga_buf[line] /\ (r = line - 1 \/ r < line - 1)
      BY <1>2, <1>3, <1>4, <2>1, <2>2, Ranges DEF Rows
    <3> QED BY <1>1, <1>2, <1>3, <2>1, <3>1 DEF Rows
  <2>3. ASSUME NEW r \in Rows, r >= line' PROVE page[r - 1] = vga_buf'[r]
    BY <1>1, <1>2, <1>3, <2>1, <2>3 DEF Rows
  <2>4. line' \in 1 .. VGA_ROWS
    BY <1>2, <1>4, <2>1, Ranges
  <2>5. After' = [page |-> page, past |-> Past', row |-> VGA_ROWS - 1, col |-> 0]
    BY <1>2, <1>3
  <2>6. MoveOK'
    BY <1>2, <1>3, <2>2, <2>3, <2>4, <2>5 DEF MoveOK, Rows, Lines, Cols
  <2> QED BY <1>1, <2>1, <2>6 DEF PhaseInv, Waiting
<1>5. CASE ~(line < VGA_ROWS)
  <2>1. /\ pc' = "return" /\ line = VGA_ROWS /\ term_row' = VGA_ROWS - 1
        /\ vga_buf' = [vga_buf EXCEPT ![VGA_ROWS - 1] = BlankLine]
    BY <1>2, <1>5, Ranges DEF MoveRow
  <2>2. ASSUME NEW r \in Rows PROVE vga_buf'[r] = page[r]
    <3>1. r = VGA_ROWS - 1 \/ r < line - 1
      BY <2>1, Ranges DEF Rows
    <3> QED BY <1>1, <1>3, <2>1, <3>1 DEF Rows
  <2>3. vga_buf' = page
    BY <1>1, <2>2, SamePage
  <2>4. Shown' = After'
    BY <1>1, <1>2, <1>3, <2>1, <2>3 DEF Shown, ShownWith, LivePage
  <2> QED BY <1>1, <2>1, <2>4 DEF PhaseInv, Waiting
<1> QED BY <1>4, <1>5

(* A character is printed.                                                 *)
LEMMA PrintPhase == ASSUME ScreenTypes, PhaseInv, PrintStep PROVE PhaseInv'
<1>1. view_scroll = 0 /\ Shown = text /\ view_scroll' = 0
  BY DEF PrintStep, view, PhaseInv, Working
<1>2. /\ pc' \in {"return", "scroll"}
      /\ pc' = "return" => Shown' = After'
      /\ pc' = "scroll" => ScrollOK'
  BY <1>1, PrintEffect
<1> QED BY <1>1, <1>2 DEF PhaseInv, Waiting

(* What was printed counts when the call returns.                          *)
LEMMA ReturnPhase == ASSUME ScreenTypes, PhaseInv, Return PROVE PhaseInv'
<1>1. /\ UNCHANGED <<screen, cursor, view>> /\ view_scroll = 0
      /\ pc = "return" /\ pc' \in {"putchar", "idle"} /\ text' = After
  BY DEF Return, PhaseInv, Working, After
<1>2. Shown' = Shown /\ Shown = After
  BY <1>1, SameShown DEF PhaseInv, screen
<1> QED BY <1>1, <1>2 DEF PhaseInv, Working, view

(* The rows are blanked one by one; then the page is the Terminal's.       *)
LEMMA FillPhase == ASSUME ScreenTypes, PhaseInv, FillRow PROVE PhaseInv'
<1>1. /\ UNCHANGED <<history_buf, history_head, history_count, view_scroll>>
      /\ pc = "fill" /\ view_scroll = 0 /\ FillOK
      /\ vga_buf \in [Rows -> Lines] /\ vga_buf' \in [Rows -> Lines]
      /\ vga_buf' = [vga_buf EXCEPT ![line] = BlankLine]
  BY FillTypes DEF FillRow, view, PhaseInv, Working, ScreenTypes, TypeOK
<1>2. line \in Rows /\ \A r \in Rows : r <= line => vga_buf'[r] = BlankLine
  BY <1>1 DEF FillOK, Rows
<1>3. Past' = Past
  BY <1>1, SameShown
<1>4. PICK page, row, col : text = [page |-> page, past |-> Past, row |-> row, col |-> col]
  BY <1>1 DEF FillOK
<1>5. CASE line + 1 < VGA_ROWS
  <2>1. line' = line + 1 /\ pc' = pc /\ text' = text
    BY <1>5 DEF FillRow
  <2>2. line' \in Rows /\ \A r \in Rows : r < line' => r <= line
    BY <1>2, <1>5, <2>1, Ranges DEF Rows
  <2>3. FillOK'
    BY <1>2, <1>3, <1>4, <2>1, <2>2 DEF FillOK, Rows, BlankLine, Cols
  <2> QED BY <1>1, <2>1, <2>3 DEF PhaseInv, Waiting
<1>6. CASE ~(line + 1 < VGA_ROWS)
  <2>1. pc' = "idle" /\ term_row' = 0 /\ term_col' = 0 /\ text' = Clear(text)
    BY <1>6 DEF FillRow
  <2>2. \A r \in Rows : r <= line
    BY <1>2, <1>6, Ranges DEF Rows
  <2>3. \A r \in Rows : BlankPage[r] = BlankLine
    BY DEF BlankPage
  <2>4. vga_buf' = BlankPage
    <3>1. \A r \in Rows : vga_buf'[r] = BlankPage[r]
      BY <1>2, <2>2, <2>3
    <3> QED BY <1>1, <3>1, BlankTypes, SamePage
  <2>5. text' = [page |-> BlankPage, past |-> Past, row |-> 0, col |-> 0]
    BY <1>4, <2>1 DEF Clear
  <2>6. Shown' = text'
    BY <1>1, <1>3, <2>1, <2>4, <2>5 DEF Shown, ShownWith, LivePage
  <2> QED BY <1>1, <2>1, <2>6 DEF PhaseInv, Working
<1> QED BY <1>5, <1>6

(* A scroll between calls changes the view, not what the live page is.     *)
LEMMA ScrollPhase ==
  ASSUME ScreenTypes, PhaseInv, ScrollIrq, pc = "idle" PROVE PhaseInv'
<1>1. /\ UNCHANGED <<history_buf, history_head, history_count, term_row, term_col, pc, text>>
      /\ LivePage' = LivePage
      /\ view_scroll' > 0 => vga_buf' = ScrolledView(view_scroll', live_snapshot')
  BY ScrollEffect
<1>2. view_scroll' > 0 => vga_buf' = ScrolledView(view_scroll, live_snapshot)'
  BY <1>1 DEF ScrolledView, HistoryRow
<1>3. Shown' = Shown
  BY <1>1, SameShown DEF Shown, ShownWith
<1>4. Shown = text
  BY DEF PhaseInv, Waiting
<1> QED BY <1>1, <1>2, <1>3, <1>4 DEF PhaseInv, Working

(* The invariant holds at first.                                           *)
LEMMA ScreenInitially == Init => ScreenInv
<1> SUFFICES ASSUME Init PROVE ScreenInv
  OBVIOUS
<1>1. pc = "idle" /\ view_scroll = 0 /\ Past = <<>>
  BY DEF Init, Past
<1>2. Shown = text
  BY <1>1 DEF Init, Shown, ShownWith, LivePage, Fresh
<1> QED BY <1>1, <1>2, TypesInitially DEF ScreenInv, PhaseInv, Working

(* Every step keeps it.                                                    *)
LEMMA ScreenStep == ScreenInv /\ [Next]_vars => ScreenInv'
<1> SUFFICES ASSUME ScreenInv, [Next]_vars PROVE ScreenInv'
  OBVIOUS
<1>1. ScreenTypes /\ ScreenTypes'
  BY TypesStep DEF ScreenInv
<1>2. ASSUME ~disturbed' PROVE PhaseInv'
  <2>1. CASE ScrollIrq
    <3>1. ~disturbed /\ pc = "idle"
      BY <1>2, <2>1 DEF ScrollIrq
    <3> QED BY <1>1, <2>1, <3>1, ScrollPhase DEF ScreenInv
  <2>2. CASE ~ScrollIrq
    <3>1. disturbed' = disturbed
      BY <2>2 DEF Next, MainStep, CallPutchar, CallClear, CallSetcursor, EndView, ViewIsLive,
                  RedrawRow, PrintStep, SaveHistoryLine, MoveRow, Return, FillRow, ghosts, vars
    <3>2. PhaseInv
      BY <1>2, <3>1 DEF ScreenInv
    <3>3. CASE MainStep
      BY <1>1, <3>2, <3>3, BeginPhase, RedrawPhase, PrintPhase, SavePhase, MovePhase,
         ReturnPhase, FillPhase DEF MainStep
    <3>4. CASE UNCHANGED vars
      <4>1. UNCHANGED <<vga_buf, history_buf, history_head, history_count, cursor, view, pc,
                        ch, line, text>>
        BY <3>4 DEF vars, screen
      <4>2. Past' = Past /\ Shown' = Shown /\ After' = After
        BY <4>1, SameShown DEF After
      <4>3. /\ RedrawOK => RedrawOK'
            /\ FillOK => FillOK'
            /\ ScrollOK => ScrollOK'
            /\ MoveOK => MoveOK'
        BY <4>1, <4>2 DEF RedrawOK, FillOK, ScrollOK, MoveOK, ShownWith, cursor, view
      <4> QED BY <3>2, <4>1, <4>2, <4>3, SameShown DEF PhaseInv, view
    <3> QED BY <1>1, <2>2, <3>2, <3>3, <3>4, CallPhase DEF Next
  <2> QED BY <2>1, <2>2
<1> QED BY <1>1, <1>2 DEF ScreenInv

(* A list after another.                                                   *)
LEMMA Catenated ==
  ASSUME NEW S, NEW s \in Seq(S), NEW t \in Seq(S)
  PROVE  /\ \A k \in 1 .. Len(s) : (s \o t)[k] = s[k]
         /\ \A k \in 1 .. Len(t) : (s \o t)[Len(s) + k] = t[k]
OBVIOUS

(* What redraw_scroll builds is the window on the past lines and the page. *)
LEMMA ViewShowsWindow ==
  ASSUME ScreenTypes, NEW n \in 1 .. history_count, NEW row, NEW col,
         NEW page \in [Rows -> Lines]
  PROVE  ScrolledView(n, page) = Window([page |-> page, past |-> Past, row |-> row,
                                         col |-> col], n)
<1> DEFINE c == history_count
           below == [i \in 1 .. VGA_ROWS |-> page[i - 1]]
<1>1. /\ history_head \in 0 .. HISTORY_LINES - 1 /\ c \in 0 .. HISTORY_LINES
      /\ HISTORY_LINES \in Nat /\ VGA_ROWS \in Nat /\ VGA_ROWS >= 1
  BY Ranges DEF ScreenTypes, TypeOK
<1>2. Past \in Seq(Lines) /\ Len(Past) = c
  BY PastType DEF PastIs
<1>3. below \in Seq(Lines) /\ Len(below) = VGA_ROWS
  <2>1. below \in [1 .. VGA_ROWS -> Lines]
    BY <1>1 DEF Rows
  <2> HIDE DEF below
  <2> QED BY <1>1, <2>1, ListOf
<1>4. ASSUME NEW r \in Rows, r < n
      PROVE  (Past \o below)[c - n + r + 1] = history_buf[HistoryRow(n, r)]
  <2> DEFINE k == c - n + r + 1
  <2>1. /\ k \in 1 .. c
        /\ history_head - c + k - 1 + HISTORY_LINES = history_head - n + r + HISTORY_LINES
    BY <1>1, <1>4 DEF Rows
  <2>2. Past[k] = history_buf[(history_head - c + k - 1 + HISTORY_LINES) % HISTORY_LINES]
    BY <2>1 DEF Past
  <2>3. (Past \o below)[k] = Past[k]
    <3> HIDE DEF k, below
    <3> QED BY <1>2, <1>3, <2>1, Catenated
  <2> QED BY <2>1, <2>2, <2>3 DEF HistoryRow
<1>5. ASSUME NEW r \in Rows, ~(r < n)
      PROVE  (Past \o below)[c - n + r + 1] = page[r - n]
  <2> DEFINE k == r - n + 1
  <2>1. k \in 1 .. VGA_ROWS /\ c + k = c - n + r + 1
    BY <1>1, <1>5 DEF Rows
  <2>2. below[k] = page[k - 1] /\ k - 1 = r - n
    BY <1>1, <1>5, <2>1 DEF Rows
  <2>3. (Past \o below)[c + k] = below[k]
    <3> HIDE DEF k, below
    <3> QED BY <1>2, <1>3, <2>1, Catenated
  <2> QED BY <2>1, <2>2, <2>3
<1>6. Window([page |-> page, past |-> Past, row |-> row, col |-> col], n)
        = [r \in Rows |-> (Past \o below)[c - n + r + 1]]
  BY <1>2 DEF Window
<1> QED BY <1>4, <1>5, <1>6 DEF ScrolledView

(* Undisturbed printing, scrolling and clearing are on their way to what   *)
(* the Terminal does at once: the inductive invariant.                     *)
THEOREM ScreenInvariant == Spec => []ScreenInv
BY ScreenInitially, ScreenStep, PTL DEF Spec

(* Scrollback used between calls of the driver loses nothing: the live     *)
(* page, the cursor and the history ring are those of a terminal that      *)
(* prints atomically (terminal_putchar, terminal_clear, scroll()).         *)
THEOREM UndisturbedTextIsShown == Spec => []UndisturbedScreenShowsText
<1>1. ScreenInv => UndisturbedScreenShowsText
  BY DEF ScreenInv, PhaseInv, UndisturbedScreenShowsText, ScreenShowsText, Between, Shown,
         ShownWith, Waiting
<1> QED BY <1>1, ScreenInvariant, PTL

(* redraw_scroll: a scrolled-back view is a window of the page's height on *)
(* the history followed by the page.                                       *)
THEOREM ViewIsAWindow == Spec => []ViewIsWindow
<1>1. ScreenInv => ViewIsWindow
  <2> SUFFICES ASSUME ScreenInv, Between, ~disturbed, view_scroll > 0
               PROVE  vga_buf = Window(text, view_scroll)
    BY DEF ViewIsWindow
  <2>1. /\ ScreenTypes /\ live_snapshot \in [Rows -> Lines] /\ view_scroll \in 1 .. history_count
        /\ vga_buf = ScrolledView(view_scroll, live_snapshot)
    BY Ranges DEF ScreenInv, PhaseInv, ScreenTypes, TypeOK
  <2>2. text = [page |-> live_snapshot, past |-> Past, row |-> term_row, col |-> term_col]
    BY <2>1 DEF ScreenInv, PhaseInv, Waiting, Between, Shown, ShownWith, LivePage
  <2> QED BY <2>1, <2>2, ViewShowsWindow
<1> QED BY <1>1, ScreenInvariant, PTL
=============================================================================
