--------------------------- MODULE MiniEditProofs ---------------------------
(***************************************************************************)
(* The editor shows the end of what it will save, on a page of every size, *)
(* for every file that fits on the page.                                   *)
(***************************************************************************)
EXTENDS MiniEdit, SequenceTheorems, WellFoundedInduction, TLAPS

-----------------------------------------------------------------------------
(* Induction over the natural numbers, as a fact about sets.               *)
LEMMA SetInduction ==
  ASSUME NEW S \in SUBSET Nat, 0 \in S, \A n \in S : n + 1 \in S
  PROVE  S = Nat
<1> DEFINE R == {ss \in Nat \X Nat : ss[1] < ss[2]}
           Missing == Nat \ S
<1> SUFFICES ASSUME Missing # {} PROVE FALSE
  OBVIOUS
<1>1. IsWellFoundedOn(R, Nat)
  BY NatLessThanWellFounded DEF OpToRel
<1>2. \A x, y \in Nat : <<y, x>> \in R <=> y < x
  OBVIOUS
<1> HIDE DEF R
<1>3. PICK x \in Missing : \A y \in Missing : ~(<<y, x>> \in R)
  <2>1. ASSUME NEW T, T \subseteq Nat, T # {}
        PROVE  \E x \in T : \A y \in T : ~(<<y, x>> \in R)
    BY <1>1, <2>1, WFMin, Zenon
  <2> QED BY <2>1
<1>4. x - 1 \in Nat /\ x - 1 < x
  <2>1. x \in Nat /\ x # 0
    BY <1>3
  <2> QED BY <2>1
<1>5. x - 1 \in S
  <2>1. <<x - 1, x>> \in R
    BY <1>2, <1>4
  <2> QED BY <1>3, <1>4, <2>1
<1>6. (x - 1) + 1 \in S
  BY <1>5
<1> QED BY <1>3, <1>4, <1>6

-----------------------------------------------------------------------------
(* A string is written character by character.                             *)

(* The function WriteString recurs on, over the first N characters.        *)
WritesPrefixes(f, term, str, N) ==
  f = [n \in 0 .. N |-> IF n = 0 THEN term ELSE PutChar(f[n - 1], str[n])]

After(term, str) == CHOOSE f : WritesPrefixes(f, term, str, Len(str))

LEMMA PrefixesCanBeWritten ==
  ASSUME NEW term, NEW str, NEW N \in Nat
  PROVE  \E f : WritesPrefixes(f, term, str, N)
<1> DEFINE S == {n \in Nat : \E f : WritesPrefixes(f, term, str, n)}
<1>1. 0 \in S
  <2> DEFINE f == [n \in 0 .. 0 |-> term]
  <2>1. \A n \in 0 .. 0 : n = 0
    OBVIOUS
  <2>2. f = [n \in 0 .. 0 |-> IF n = 0 THEN term ELSE PutChar(f[n - 1], str[n])]
    BY <2>1
  <2> HIDE DEF f
  <2>3. WritesPrefixes(f, term, str, 0)
    BY <2>2 DEF WritesPrefixes
  <2> QED BY <2>3
<1>2. ASSUME NEW n \in S PROVE n + 1 \in S
  <2>1. PICK f : WritesPrefixes(f, term, str, n)
    OBVIOUS
  <2>2. f = [k \in 0 .. n |-> IF k = 0 THEN term ELSE PutChar(f[k - 1], str[k])]
    BY <2>1 DEF WritesPrefixes
  <2> DEFINE g == [k \in 0 .. n + 1 |-> IF k = n + 1 THEN PutChar(f[n], str[k]) ELSE f[k]]
             h == [k \in 0 .. n + 1 |-> IF k = 0 THEN term ELSE PutChar(g[k - 1], str[k])]
  <2>3. ASSUME NEW k \in 0 .. n + 1 PROVE g[k] = h[k]
    <3>1. CASE k = n + 1
      <4>1. g[k - 1] = f[n] /\ k # 0
        BY <3>1
      <4>2. g[k] = PutChar(f[n], str[k])
        BY <3>1
      <4> QED BY <4>1, <4>2
    <3>2. CASE k \in 1 .. n
      <4>1. g[k] = f[k] /\ g[k - 1] = f[k - 1] /\ k # 0 /\ k \in 0 .. n
        BY <3>2
      <4>2. f[k] = PutChar(f[k - 1], str[k])
        BY <2>2, <4>1
      <4> QED BY <4>1, <4>2
    <3>3. CASE k = 0
      <4>1. g[k] = f[0] /\ h[k] = term
        BY <3>3
      <4>2. f[0] = term
        BY <2>2
      <4> QED BY <4>1, <4>2
    <3> QED BY <3>1, <3>2, <3>3
  <2>4. g = h
    BY <2>3
  <2> HIDE DEF g
  <2>5. WritesPrefixes(g, term, str, n + 1)
    BY <2>4 DEF WritesPrefixes
  <2> QED BY <2>5
<1> HIDE DEF S
<1>3. S = Nat
  <2>1. S \in SUBSET Nat
    BY DEF S
  <2> QED BY <1>1, <1>2, <2>1, SetInduction
<1> QED BY <1>3 DEF S

LEMMA AfterEachCharacter ==
  ASSUME NEW term, NEW str, Len(str) \in Nat
  PROVE  /\ After(term, str)[0] = term
         /\ \A n \in 1 .. Len(str) :
              After(term, str)[n] = PutChar(After(term, str)[n - 1], str[n])
         /\ WriteString(term, str) = After(term, str)[Len(str)]
<1>1. WritesPrefixes(After(term, str), term, str, Len(str))
  BY PrefixesCanBeWritten DEF After
<1>2. WriteString(term, str) = After(term, str)[Len(str)]
  BY DEF WriteString, After, WritesPrefixes
<1> DEFINE f == After(term, str)
           N == Len(str)
<1>3. f = [n \in 0 .. N |-> IF n = 0 THEN term ELSE PutChar(f[n - 1], str[n])]
  BY <1>1 DEF WritesPrefixes
<1> HIDE DEF f, N
<1>4. f[0] = term
  BY <1>3 DEF N
<1>5. \A n \in 1 .. N : f[n] = PutChar(f[n - 1], str[n])
  BY <1>3 DEF N
<1> QED BY <1>2, <1>4, <1>5 DEF f, N

(* What holds of the terminal before and is kept by each character holds   *)
(* after the string: Q is where it holds after n of them.                  *)
LEMMA AlongTheString ==
  ASSUME NEW N \in Nat, NEW Q \in SUBSET Nat, 0 \in Q,
         \A n \in 1 .. N : n - 1 \in Q => n \in Q
  PROVE  \A n \in 0 .. N : n \in Q
<1> DEFINE S == Q \cup {n \in Nat : n > N}
<1>1. S \in SUBSET Nat /\ 0 \in S
  OBVIOUS
<1>2. ASSUME NEW n \in S PROVE n + 1 \in S
  <2>1. CASE n + 1 \in 1 .. N
    BY <2>1
  <2>2. CASE n + 1 > N
    BY <2>2
  <2> QED BY <1>1, <2>1, <2>2
<1> HIDE DEF S
<1>3. S = Nat
  BY <1>1, <1>2, SetInduction
<1> QED BY <1>3 DEF S

LEMMA WriteNothing ==
  ASSUME NEW term
  PROVE  WriteString(term, <<>>) = term
<1>1. Len(<<>>) = 0
  OBVIOUS
<1> QED BY <1>1, AfterEachCharacter

LEMMA WriteAppended ==
  ASSUME NEW term, NEW S, NEW str \in Seq(S), NEW ch \in S
  PROVE  WriteString(term, Append(str, ch)) = PutChar(WriteString(term, str), ch)
<1> DEFINE longer == Append(str, ch)
           f == After(term, str)
           g == After(term, longer)
<1>1. PICK N \in Nat : Len(str) = N
  OBVIOUS
<1>2. /\ Len(longer) = N + 1 /\ longer[N + 1] = ch
      /\ \A n \in 1 .. N : longer[n] = str[n]
  BY <1>1
<1>3. /\ f[0] = term /\ \A n \in 1 .. N : f[n] = PutChar(f[n - 1], str[n])
      /\ WriteString(term, str) = f[N]
  BY <1>1, AfterEachCharacter
<1> HIDE DEF longer, f
<1>4. /\ g[0] = term /\ \A n \in 1 .. N + 1 : g[n] = PutChar(g[n - 1], longer[n])
      /\ WriteString(term, longer) = g[N + 1]
  <2>1. Len(longer) \in Nat
    BY <1>2
  <2>2. /\ g[0] = term
        /\ \A n \in 1 .. Len(longer) : g[n] = PutChar(g[n - 1], longer[n])
        /\ WriteString(term, longer) = g[Len(longer)]
    BY <2>1, AfterEachCharacter
  <2> HIDE DEF g
  <2> QED BY <1>2, <2>2
<1> HIDE DEF g
<1> DEFINE Q == {n \in Nat : g[n] = f[n]}
<1>5. \A n \in 0 .. N : n \in Q
  <2>1. 0 \in Q
    BY <1>3, <1>4
  <2>2. ASSUME NEW n \in 1 .. N, n - 1 \in Q PROVE n \in Q
    <3>1. n \in 1 .. N + 1 /\ g[n - 1] = f[n - 1]
      BY <2>2
    <3> QED BY <1>2, <1>3, <1>4, <3>1
  <2> HIDE DEF Q
  <2>3. Q \in SUBSET Nat
    BY DEF Q
  <2> QED BY <2>1, <2>2, <2>3, AlongTheString
<1>6. g[N] = f[N]
  BY <1>5
<1>7. g[N + 1] = PutChar(g[(N + 1) - 1], longer[N + 1]) /\ (N + 1) - 1 = N
  BY <1>4
<1> QED BY <1>2, <1>3, <1>4, <1>6, <1>7 DEF longer

(* One character.                                                          *)
LEMMA WriteOne ==
  ASSUME NEW term, NEW ch
  PROVE  WriteString(term, <<ch>>) = PutChar(term, ch)
<1>1. PICK S : ch \in S
  <2>1. ch \in {ch}
    OBVIOUS
  <2> QED BY <2>1
<1>2. <<>> \in Seq(S) /\ <<ch>> = Append(<<>>, ch)
  OBVIOUS
<1>3. PICK str : str = <<>>
  OBVIOUS
<1>4. str \in Seq(S) /\ <<ch>> = Append(str, ch)
  BY <1>2, <1>3
<1>5. WriteString(term, Append(str, ch)) = PutChar(WriteString(term, str), ch)
  BY <1>1, <1>4, WriteAppended
<1> QED BY <1>3, <1>4, <1>5, WriteNothing

(* Two.                                                                    *)
LEMMA WriteTwo ==
  ASSUME NEW term, NEW c, NEW d
  PROVE  WriteString(term, <<c, d>>) = PutChar(PutChar(term, c), d)
<1>1. PICK S : c \in S /\ d \in S
  <2>1. c \in {c, d} /\ d \in {c, d}
    OBVIOUS
  <2> QED BY <2>1
<1>2. <<c>> \in Seq(S) /\ <<c, d>> = Append(<<c>>, d)
  BY <1>1
<1>3. PICK str : str = <<c>>
  OBVIOUS
<1>4. str \in Seq(S) /\ <<c, d>> = Append(str, d)
  BY <1>2, <1>3
<1>5. WriteString(term, Append(str, d)) = PutChar(WriteString(term, str), d)
  BY <1>1, <1>4, WriteAppended
<1>6. WriteString(term, str) = PutChar(term, c)
  BY <1>3, WriteOne
<1> QED BY <1>4, <1>5, <1>6

-----------------------------------------------------------------------------
(* What one character does to a terminal.                                  *)

(* The constants, apart from the product that relates them.                *)
LEMMA Sizes ==
  /\ VGA_COLS \in Nat /\ VGA_COLS >= 1
  /\ VGA_ROWS \in Nat /\ VGA_ROWS >= 2
<1>1. VGA_ROWS \in Nat \ {0} /\ VGA_COLS \in Nat \ {0}
  BY MiniEditAssumption DEF MiniEditAssumption
<1>2. 0 < VGA_COLS * (VGA_ROWS - 1)
  BY <1>1, MiniEditAssumption DEF MiniEditAssumption
<1>3. VGA_ROWS # 1
  <2>1. VGA_COLS * 0 = 0
    BY <1>1
  <2> QED BY <1>1, <1>2, <2>1
<1> QED BY <1>1, <1>3

(* The form of a page and of a terminal: whatever the characters, lines    *)
(* are rows of VGA_COLS cells, and the cursor is on the page.              *)
Line(l) == l = [c \in Cols |-> l[c]]

PageOK(page) == page = [r \in Rows |-> page[r]] /\ \A r \in Rows : Line(page[r])

TerminalOK(a) == /\ a = [page |-> a.page, past |-> a.past, row |-> a.row, col |-> a.col]
                 /\ PageOK(a.page)
                 /\ a.row \in Rows /\ a.col \in Cols

(* The k-th line above the cursor's.                                       *)
Up(a, k) == a.page[a.row - k]

(* Where the text ends there is nothing further on.                        *)
NothingAhead(a) == /\ \A c \in a.col .. VGA_COLS - 1 : a.page[a.row][c] = Blank
                   /\ \A r \in a.row + 1 .. VGA_ROWS - 1 : a.page[r] = BlankLine

LEMMA BlankLineForm == Line(BlankLine) /\ \A c \in Cols : BlankLine[c] = Blank
BY DEF Line, BlankLine

(* A line of which every cell is blank is the blank line.                  *)
LEMMA AllBlank ==
  ASSUME NEW l, Line(l), \A c \in Cols : l[c] = Blank
  PROVE  l = BlankLine
<1>1. l = [c \in Cols |-> l[c]]
  BY DEF Line
<1>2. [c \in Cols |-> l[c]] = [c \in Cols |-> Blank]
  OBVIOUS
<1> QED BY <1>1, <1>2 DEF BlankLine

(* Writing a cell.                                                         *)
Cell(a, ch) == [a EXCEPT !.page[a.row][a.col] = ch]

LEMMA CellIs ==
  ASSUME NEW a, TerminalOK(a), NEW ch
  PROVE  /\ TerminalOK(Cell(a, ch))
         /\ Cell(a, ch).row = a.row /\ Cell(a, ch).col = a.col
         /\ Cell(a, ch).page[a.row] = [a.page[a.row] EXCEPT ![a.col] = ch]
         /\ \A r \in Rows : r # a.row => Cell(a, ch).page[r] = a.page[r]
<1> DEFINE line == [a.page[a.row] EXCEPT ![a.col] = ch]
           page == [a.page EXCEPT ![a.row] = line]
<1>1. Cell(a, ch) = [a EXCEPT !.page = page]
  BY DEF Cell
<1>2. Line(line)
  BY DEF Line, TerminalOK, PageOK
<1> HIDE DEF line
<1>3. PageOK(page) /\ page[a.row] = line /\ \A r \in Rows : r # a.row => page[r] = a.page[r]
  BY <1>2 DEF TerminalOK, PageOK
<1> HIDE DEF page
<1>4. Cell(a, ch) = [page |-> page, past |-> a.past, row |-> a.row, col |-> a.col]
  BY <1>1 DEF TerminalOK
<1> QED BY <1>3, <1>4 DEF TerminalOK, line

(* The next line: a new one, under the ones that are still on the page.    *)
LEMMA LineFeedIs ==
  ASSUME NEW a, TerminalOK(a), NEW b, b = LineFeed(a)
  PROVE  /\ TerminalOK(b)
         /\ b.col = 0
         /\ b.row = IF a.row + 1 < VGA_ROWS THEN a.row + 1 ELSE a.row
         /\ a.row + 1 >= VGA_ROWS => Up(b, 0) = BlankLine
         /\ a.row + 1 < VGA_ROWS => b.page = a.page
         /\ \A k \in 1 .. b.row : k - 1 \in 0 .. a.row /\ Up(b, k) = Up(a, k - 1)
<1>1. CASE a.row + 1 < VGA_ROWS
  <2>1. b = [page |-> a.page, past |-> a.past, row |-> a.row + 1, col |-> 0]
    <3>1. b = [a EXCEPT !.row = a.row + 1, !.col = 0]
      BY <1>1 DEF LineFeed
    <3> QED BY <3>1 DEF TerminalOK
  <2>2. a.row \in Nat /\ a.row + 1 \in Rows /\ 0 \in Cols
    BY <1>1, Sizes DEF TerminalOK, Rows, Cols
  <2>3. \A k \in 1 .. a.row + 1 : k - 1 \in 0 .. a.row /\ (a.row + 1) - k = a.row - (k - 1)
    BY <2>2
  <2>4. TerminalOK(b)
    BY <2>1, <2>2 DEF TerminalOK
  <2>5. ASSUME NEW k \in 1 .. a.row + 1 PROVE Up(b, k) = Up(a, k - 1)
    BY <2>1, <2>3 DEF Up
  <2>6. ~(a.row + 1 >= VGA_ROWS)
    BY <1>1, <2>2, Sizes
  <2> QED BY <1>1, <2>1, <2>3, <2>4, <2>5, <2>6
<1>2. CASE a.row + 1 >= VGA_ROWS
  <2>1. b = [page |-> Shifted(a.page), past |-> LastLines(Append(a.past, a.page[0])),
             row |-> VGA_ROWS - 1, col |-> 0]
    BY <1>2, Sizes DEF LineFeed, TerminalOK, Rows
  <2>2. a.row = VGA_ROWS - 1 /\ 0 \in Cols /\ VGA_ROWS - 1 \in Rows /\ a.row \in Nat
    BY <1>2, Sizes DEF TerminalOK, Rows, Cols
  <2> DEFINE page == Shifted(a.page)
  <2>3. /\ page = [r \in Rows |-> page[r]]
        /\ page[VGA_ROWS - 1] = BlankLine
        /\ \A r \in 0 .. VGA_ROWS - 2 : page[r] = a.page[r + 1]
    <3>1. \A r \in Rows : page[r] = IF r = VGA_ROWS - 1 THEN BlankLine ELSE a.page[r + 1]
      BY DEF Shifted
    <3>2. page = [r \in Rows |-> page[r]]
      BY DEF Shifted
    <3> HIDE DEF page
    <3>3. \A r \in 0 .. VGA_ROWS - 2 : r \in Rows /\ r # VGA_ROWS - 1
      BY Sizes DEF Rows
    <3> QED BY <2>2, <3>1, <3>2, <3>3
  <2> HIDE DEF page
  <2>4. \A r \in Rows : Line(page[r])
    <3> TAKE r \in Rows
    <3>1. CASE r = VGA_ROWS - 1
      BY <2>3, <3>1, BlankLineForm
    <3>2. CASE r \in 0 .. VGA_ROWS - 2
      <4>1. r + 1 \in Rows
        BY <3>2, Sizes DEF Rows
      <4> QED BY <2>3, <3>2, <4>1 DEF TerminalOK, PageOK
    <3> QED BY <3>1, <3>2, Sizes DEF Rows
  <2>5. TerminalOK(b)
    BY <2>1, <2>2, <2>3, <2>4 DEF TerminalOK, PageOK, page
  <2>6. ASSUME NEW k \in 1 .. VGA_ROWS - 1
        PROVE  k - 1 \in 0 .. a.row /\ Up(b, k) = Up(a, k - 1)
    <3>1. /\ k - 1 \in 0 .. a.row
          /\ (VGA_ROWS - 1) - k \in 0 .. VGA_ROWS - 2
          /\ ((VGA_ROWS - 1) - k) + 1 = a.row - (k - 1)
      BY <2>2, Sizes
    <3> QED BY <2>1, <2>3, <3>1 DEF Up, page
  <2>7. Up(b, 0) = BlankLine
    <3>1. (VGA_ROWS - 1) - 0 = VGA_ROWS - 1
      BY Sizes
    <3> QED BY <2>1, <2>3, <3>1 DEF Up, page
  <2> QED BY <1>2, <2>1, <2>2, <2>5, <2>6, <2>7, Sizes
<1>3. a.row + 1 \in Nat
  BY DEF TerminalOK, Rows
<1> QED BY <1>1, <1>2, <1>3, Sizes

(* The lines above the cursor's are not touched by writing a cell.         *)
LEMMA CellUp ==
  ASSUME NEW a, TerminalOK(a), NEW ch, NEW b, b = Cell(a, ch)
  PROVE  /\ Up(b, 0) = [Up(a, 0) EXCEPT ![a.col] = ch]
         /\ \A k \in 1 .. a.row : Up(b, k) = Up(a, k)
<1>1. a.row \in 0 .. VGA_ROWS - 1 /\ VGA_ROWS \in Nat
  BY Sizes DEF TerminalOK, Rows
<1>2. a.row - 0 = a.row /\ \A k \in 1 .. a.row : a.row - k \in 0 .. VGA_ROWS - 1 /\ a.row - k # a.row
  BY <1>1
<1> QED BY <1>2, CellIs DEF Up, Rows

(* One position back.                                                      *)
LEMMA StepBackIs ==
  ASSUME NEW a, TerminalOK(a), NEW b, b = StepBack(a)
  PROVE  /\ TerminalOK(b) /\ b.page = a.page
         /\ a.col > 0 => b.row = a.row /\ b.col = a.col - 1
         /\ a.col = 0 /\ a.row > 0 => b.row = a.row - 1 /\ b.col = VGA_COLS - 1
         /\ a.col = 0 /\ a.row = 0 => b = a
<1>1. a.row \in 0 .. VGA_ROWS - 1 /\ a.col \in 0 .. VGA_COLS - 1
  BY DEF TerminalOK, Rows, Cols
<1>2. a = [page |-> a.page, past |-> a.past, row |-> a.row, col |-> a.col]
  BY DEF TerminalOK
<1>3. CASE a.col > 0
  <2>1. b = [page |-> a.page, past |-> a.past, row |-> a.row, col |-> a.col - 1]
    BY <1>2, <1>3 DEF StepBack
  <2>2. a.col - 1 \in Cols /\ a.col # 0
    BY <1>1, <1>3, Sizes DEF Cols
  <2> QED BY <1>3, <2>1, <2>2 DEF TerminalOK
<1>4. CASE a.col = 0 /\ a.row > 0
  <2>1. b = [page |-> a.page, past |-> a.past, row |-> a.row - 1, col |-> VGA_COLS - 1]
    <3>1. b = [a EXCEPT !.row = a.row - 1, !.col = VGA_COLS - 1]
      BY <1>4 DEF StepBack
    <3> QED BY <1>2, <3>1
  <2>2. a.row - 1 \in Rows /\ VGA_COLS - 1 \in Cols /\ a.row # 0
    BY <1>1, <1>4, Sizes DEF Rows, Cols
  <2> QED BY <1>4, <2>1, <2>2 DEF TerminalOK
<1>5. CASE a.col = 0 /\ a.row = 0
  <2>1. b = a
    BY <1>5 DEF StepBack
  <2> QED BY <1>5, <2>1
<1> QED BY <1>1, <1>3, <1>4, <1>5

(* Whatever is printed, the terminal keeps its form.                       *)
LEMMA PutCharForm ==
  ASSUME NEW a, TerminalOK(a), NEW ch
  PROVE  TerminalOK(PutChar(a, ch))
<1>1. TerminalOK(LineFeed(a))
  BY LineFeedIs
<1>2. TerminalOK([a EXCEPT !.col = 0])
  BY Sizes DEF TerminalOK, Cols
<1>3. TerminalOK(Erase(a))
  <2> DEFINE back == StepBack(a)
  <2>1. Erase(a) = Cell(back, Blank)
    BY DEF Erase, Cell
  <2>2. TerminalOK(back)
    BY StepBackIs
  <2> HIDE DEF back
  <2>3. TerminalOK(Cell(back, Blank))
    BY <2>2, CellIs
  <2> QED BY <2>1, <2>3
<1>4. TerminalOK(Put(a, ch))
  <2> DEFINE w == Cell(a, ch)
  <2>1. Put(a, ch) = IF a.col + 1 < VGA_COLS THEN [w EXCEPT !.col = @ + 1] ELSE LineFeed(w)
    BY DEF Put, Cell
  <2>2. TerminalOK(w) /\ w.col = a.col
    BY CellIs
  <2> HIDE DEF w
  <2>3. a.col + 1 < VGA_COLS => TerminalOK([w EXCEPT !.col = @ + 1])
    <3>1. a.col + 1 < VGA_COLS => a.col + 1 \in Cols
      BY Sizes DEF TerminalOK, Cols
    <3> QED BY <2>2, <3>1 DEF TerminalOK
  <2> QED BY <2>1, <2>2, <2>3, LineFeedIs
<1> QED BY <1>1, <1>2, <1>3, <1>4 DEF PutChar

LEMMA WriteStringForm ==
  ASSUME NEW a, TerminalOK(a), NEW str, Len(str) \in Nat
  PROVE  TerminalOK(WriteString(a, str))
<1> DEFINE f == After(a, str)
           Q == {n \in Nat : TerminalOK(f[n])}
<1>1. /\ f[0] = a
      /\ \A n \in 1 .. Len(str) : f[n] = PutChar(f[n - 1], str[n])
      /\ WriteString(a, str) = f[Len(str)]
  BY AfterEachCharacter
<1> HIDE DEF f
<1>2. 0 \in Q
  BY <1>1
<1>3. ASSUME NEW n \in 1 .. Len(str), n - 1 \in Q PROVE n \in Q
  BY <1>1, <1>3, PutCharForm
<1>4. Q \in SUBSET Nat
  OBVIOUS
<1> HIDE DEF Q
<1>5. \A n \in 0 .. Len(str) : n \in Q
  BY <1>2, <1>3, <1>4, AlongTheString
<1> QED BY <1>1, <1>5 DEF Q

-----------------------------------------------------------------------------
(* Two terminals that show the same up to the cursor, of which one may     *)
(* have scrolled off more than the other.                                  *)

SameText(a, b) == /\ a.col = b.col
                  /\ \A k \in 0 .. a.row : k <= b.row => Up(a, k) = Up(b, k)

Agree(a, b) == /\ TerminalOK(a) /\ NothingAhead(a)
               /\ TerminalOK(b) /\ NothingAhead(b)
               /\ SameText(a, b)

LEMMA AgreeShows ==
  ASSUME NEW a, NEW b, Agree(a, b)
  PROVE  ShowsTheSame(a, b)
BY DEF Agree, SameText, NothingAhead, ShowsTheSame, Up

(* A new line has nothing on it or below.                                  *)
LEMMA LineFeedClean ==
  ASSUME NEW a, TerminalOK(a), NEW b, b = LineFeed(a),
         \A r \in a.row + 1 .. VGA_ROWS - 1 : a.page[r] = BlankLine
  PROVE  NothingAhead(b) /\ Up(b, 0) = BlankLine
<1>1. /\ b.col = 0 /\ b.row \in 0 .. VGA_ROWS - 1
      /\ b.row = IF a.row + 1 < VGA_ROWS THEN a.row + 1 ELSE a.row
      /\ a.row + 1 >= VGA_ROWS => Up(b, 0) = BlankLine
      /\ a.row + 1 < VGA_ROWS => b.page = a.page
  BY LineFeedIs DEF TerminalOK, Rows
<1>2. a.row \in 0 .. VGA_ROWS - 1
  BY DEF TerminalOK, Rows
<1>3. b.row - 0 = b.row
  BY <1>1
<1>4. CASE a.row + 1 < VGA_ROWS
  <2>1. \A r \in a.row + 1 .. VGA_ROWS - 1 : b.page[r] = BlankLine
    BY <1>1, <1>4
  <2>2. b.row \in a.row + 1 .. VGA_ROWS - 1 /\ b.row = a.row + 1
    BY <1>1, <1>2, <1>4, Sizes
  <2>3. b.page[b.row] = BlankLine
    BY <2>1, <2>2
  <2>4. \A r \in b.row + 1 .. VGA_ROWS - 1 : r \in a.row + 1 .. VGA_ROWS - 1
    BY <1>2, <2>2, Sizes
  <2> QED BY <1>1, <1>3, <2>1, <2>3, <2>4, BlankLineForm, Sizes DEF NothingAhead, Up, Cols
<1>5. CASE a.row + 1 >= VGA_ROWS
  <2>1. b.row = VGA_ROWS - 1
    BY <1>1, <1>2, <1>5, Sizes
  <2>2. \A r \in b.row + 1 .. VGA_ROWS - 1 : FALSE
    BY <2>1, Sizes
  <2>3. b.page[b.row] = BlankLine
    BY <1>1, <1>3, <1>5 DEF Up
  <2> QED BY <1>1, <1>5, <2>2, <2>3, BlankLineForm, Sizes DEF NothingAhead, Cols
<1> QED BY <1>2, <1>4, <1>5, Sizes

LEMMA LineFeedAgrees ==
  ASSUME NEW a, NEW b, TerminalOK(a), TerminalOK(b),
         \A r \in a.row + 1 .. VGA_ROWS - 1 : a.page[r] = BlankLine,
         \A r \in b.row + 1 .. VGA_ROWS - 1 : b.page[r] = BlankLine,
         \A k \in 0 .. a.row : k <= b.row => Up(a, k) = Up(b, k)
  PROVE  Agree(LineFeed(a), LineFeed(b))
<1> DEFINE c == LineFeed(a)
           d == LineFeed(b)
<1>1. /\ TerminalOK(c) /\ c.col = 0
      /\ \A k \in 1 .. c.row : k - 1 \in 0 .. a.row /\ Up(c, k) = Up(a, k - 1)
  BY LineFeedIs
<1>2. /\ TerminalOK(d) /\ d.col = 0
      /\ \A k \in 1 .. d.row : k - 1 \in 0 .. b.row /\ Up(d, k) = Up(b, k - 1)
  BY LineFeedIs
<1>3. NothingAhead(c) /\ Up(c, 0) = BlankLine /\ NothingAhead(d) /\ Up(d, 0) = BlankLine
  BY LineFeedClean
<1> HIDE DEF c, d
<1>4. ASSUME NEW k \in 0 .. c.row, k <= d.row PROVE Up(c, k) = Up(d, k)
  <2>1. CASE k = 0
    BY <1>3, <2>1
  <2>2. CASE k # 0
    <3>1. c.row \in Nat /\ d.row \in Nat /\ a.row \in Nat /\ b.row \in Nat
      BY <1>1, <1>2 DEF TerminalOK, Rows
    <3>2. k \in 1 .. c.row /\ k \in 1 .. d.row
      BY <1>4, <2>2, <3>1
    <3>3. k - 1 \in 0 .. a.row /\ k - 1 \in 0 .. b.row
      BY <1>1, <1>2, <3>2
    <3>4. k - 1 <= b.row
      BY <3>1, <3>3
    <3> QED BY <1>1, <1>2, <3>2, <3>3, <3>4
  <2> QED BY <2>1, <2>2
<1>5. Agree(c, d)
  BY <1>1, <1>2, <1>3, <1>4 DEF Agree, SameText
<1> QED BY <1>5 DEF c, d

(* A character in the middle of a row.                                     *)
LEMMA PutShort ==
  ASSUME NEW a, TerminalOK(a), a.col + 1 < VGA_COLS, NEW ch, NEW b, b = Put(a, ch)
  PROVE  /\ TerminalOK(b) /\ b.row = a.row /\ b.col = a.col + 1
         /\ Up(b, 0) = [Up(a, 0) EXCEPT ![a.col] = ch]
         /\ \A k \in 1 .. a.row : Up(b, k) = Up(a, k)
         /\ \A r \in Rows : r # a.row => b.page[r] = a.page[r]
<1> DEFINE w == Cell(a, ch)
<1>1. b = [w EXCEPT !.col = @ + 1]
  <2>1. w = [a EXCEPT !.page[a.row][a.col] = ch]
    BY DEF Cell
  <2> HIDE DEF w
  <2> QED BY <2>1 DEF Put
<1>2. /\ TerminalOK(w) /\ w.row = a.row /\ w.col = a.col
      /\ \A r \in Rows : r # a.row => w.page[r] = a.page[r]
  BY CellIs
<1>3. /\ Up(w, 0) = [Up(a, 0) EXCEPT ![a.col] = ch]
      /\ \A k \in 1 .. a.row : Up(w, k) = Up(a, k)
  BY CellUp
<1> HIDE DEF w
<1>4. b = [page |-> w.page, past |-> w.past, row |-> a.row, col |-> a.col + 1]
  BY <1>1, <1>2 DEF TerminalOK
<1>5. a.col + 1 \in Cols
  BY Sizes DEF TerminalOK, Cols
<1> QED BY <1>2, <1>3, <1>4, <1>5 DEF TerminalOK, Up

(* A character at the end of a row.                                        *)
LEMMA PutLong ==
  ASSUME NEW a, TerminalOK(a), a.col + 1 >= VGA_COLS, NEW ch
  PROVE  Put(a, ch) = LineFeed(Cell(a, ch)) /\ a.col = VGA_COLS - 1
<1>1. a.col \in 0 .. VGA_COLS - 1
  BY DEF TerminalOK, Cols
<1>2. ~(a.col + 1 < VGA_COLS) /\ a.col = VGA_COLS - 1
  BY <1>1, Sizes
<1> DEFINE w == Cell(a, ch)
<1>3. w = [a EXCEPT !.page[a.row][a.col] = ch]
  BY DEF Cell
<1> HIDE DEF w
<1>4. Put(a, ch) = LineFeed(w)
  BY <1>2, <1>3 DEF Put
<1> QED BY <1>2, <1>4 DEF w

LEMMA ShortClean ==
  ASSUME NEW a, TerminalOK(a), NothingAhead(a), NEW ch, NEW b, TerminalOK(b),
         b.row = a.row, b.col = a.col + 1,
         Up(b, 0) = [Up(a, 0) EXCEPT ![a.col] = ch],
         \A r \in Rows : r # a.row => b.page[r] = a.page[r]
  PROVE  NothingAhead(b)
<1>1. a.row \in 0 .. VGA_ROWS - 1 /\ a.col \in 0 .. VGA_COLS - 1 /\ a.row - 0 = a.row
  BY DEF TerminalOK, Rows, Cols
<1>2. b.page[a.row] = [a.page[a.row] EXCEPT ![a.col] = ch]
  BY <1>1 DEF Up
<1>3. \A c \in a.col + 1 .. VGA_COLS - 1 : b.page[a.row][c] = Blank
  <2> TAKE c \in a.col + 1 .. VGA_COLS - 1
  <2>1. c \in Cols /\ c \in a.col .. VGA_COLS - 1 /\ c # a.col /\ a.row \in Rows
    BY <1>1, Sizes DEF Cols, Rows
  <2>2. Line(a.page[a.row])
    BY <2>1 DEF TerminalOK, PageOK
  <2>3. b.page[a.row][c] = a.page[a.row][c]
    BY <1>2, <2>1, <2>2 DEF Line
  <2> QED BY <2>1, <2>3 DEF NothingAhead
<1>4. \A r \in a.row + 1 .. VGA_ROWS - 1 : b.page[r] = BlankLine
  <2>1. \A r \in a.row + 1 .. VGA_ROWS - 1 : r \in Rows /\ r # a.row /\ a.page[r] = BlankLine
    BY <1>1, Sizes DEF NothingAhead, Rows
  <2> QED BY <2>1
<1> QED BY <1>3, <1>4 DEF NothingAhead

LEMMA PutAgrees ==
  ASSUME NEW a, NEW b, Agree(a, b), NEW ch
  PROVE  Agree(Put(a, ch), Put(b, ch))
<1>1. /\ TerminalOK(a) /\ NothingAhead(a) /\ TerminalOK(b) /\ NothingAhead(b)
      /\ a.col = b.col /\ a.col \in 0 .. VGA_COLS - 1
      /\ a.row \in 0 .. VGA_ROWS - 1 /\ b.row \in 0 .. VGA_ROWS - 1
      /\ \A k \in 0 .. a.row : k <= b.row => Up(a, k) = Up(b, k)
  BY DEF Agree, SameText, TerminalOK, Rows, Cols
<1>2. CASE a.col + 1 < VGA_COLS
  <2> DEFINE c == Put(a, ch)
             d == Put(b, ch)
  <2>1. /\ TerminalOK(c) /\ c.row = a.row /\ c.col = a.col + 1
        /\ Up(c, 0) = [Up(a, 0) EXCEPT ![a.col] = ch]
        /\ \A k \in 1 .. a.row : Up(c, k) = Up(a, k)
        /\ \A r \in Rows : r # a.row => c.page[r] = a.page[r]
    BY <1>1, <1>2, PutShort
  <2>2. /\ TerminalOK(d) /\ d.row = b.row /\ d.col = b.col + 1
        /\ Up(d, 0) = [Up(b, 0) EXCEPT ![b.col] = ch]
        /\ \A k \in 1 .. b.row : Up(d, k) = Up(b, k)
        /\ \A r \in Rows : r # b.row => d.page[r] = b.page[r]
    BY <1>1, <1>2, PutShort
  <2> HIDE DEF c, d
  <2>3. NothingAhead(c)
    BY <1>1, <1>2, <2>1, ShortClean
  <2>4. NothingAhead(d)
    BY <1>1, <1>2, <2>2, ShortClean
  <2>5. ASSUME NEW k \in 0 .. c.row, k <= d.row PROVE Up(c, k) = Up(d, k)
    <3>1. Up(a, k) = Up(b, k) /\ k \in 0 .. b.row
      BY <1>1, <2>1, <2>2, <2>5
    <3>2. CASE k = 0
      BY <1>1, <2>1, <2>2, <3>1, <3>2
    <3>3. CASE k \in 1 .. a.row
      BY <1>1, <2>1, <2>2, <3>1, <3>3
    <3> QED BY <1>1, <2>1, <3>2, <3>3
  <2>6. Agree(c, d)
    BY <1>1, <2>1, <2>2, <2>3, <2>4, <2>5 DEF Agree, SameText
  <2> QED BY <2>6 DEF c, d
<1>3. CASE a.col + 1 >= VGA_COLS
  <2> DEFINE c == Cell(a, ch)
             d == Cell(b, ch)
  <2>1. Put(a, ch) = LineFeed(c) /\ Put(b, ch) = LineFeed(d)
    BY <1>1, <1>3, PutLong
  <2>2. /\ TerminalOK(c) /\ c.row = a.row
        /\ \A r \in Rows : r # a.row => c.page[r] = a.page[r]
        /\ Up(c, 0) = [Up(a, 0) EXCEPT ![a.col] = ch]
        /\ \A k \in 1 .. a.row : Up(c, k) = Up(a, k)
    <3>1. /\ TerminalOK(c) /\ c.row = a.row
          /\ \A r \in Rows : r # a.row => c.page[r] = a.page[r]
      BY <1>1, CellIs
    <3>2. /\ Up(c, 0) = [Up(a, 0) EXCEPT ![a.col] = ch]
          /\ \A k \in 1 .. a.row : Up(c, k) = Up(a, k)
      BY <1>1, CellUp
    <3> QED BY <3>1, <3>2
  <2>3. /\ TerminalOK(d) /\ d.row = b.row
        /\ \A r \in Rows : r # b.row => d.page[r] = b.page[r]
        /\ Up(d, 0) = [Up(b, 0) EXCEPT ![b.col] = ch]
        /\ \A k \in 1 .. b.row : Up(d, k) = Up(b, k)
    <3>1. /\ TerminalOK(d) /\ d.row = b.row
          /\ \A r \in Rows : r # b.row => d.page[r] = b.page[r]
      BY <1>1, CellIs
    <3>2. /\ Up(d, 0) = [Up(b, 0) EXCEPT ![b.col] = ch]
          /\ \A k \in 1 .. b.row : Up(d, k) = Up(b, k)
      BY <1>1, CellUp
    <3> QED BY <3>1, <3>2
  <2> HIDE DEF c, d
  <2>4. ASSUME NEW k \in 0 .. c.row, k <= d.row PROVE Up(c, k) = Up(d, k)
    <3>1. Up(a, k) = Up(b, k) /\ k \in 0 .. b.row
      BY <1>1, <2>2, <2>3, <2>4
    <3>2. CASE k = 0
      BY <1>1, <2>2, <2>3, <3>1, <3>2
    <3>3. CASE k \in 1 .. a.row
      BY <1>1, <2>2, <2>3, <3>1, <3>3
    <3> QED BY <1>1, <2>2, <3>2, <3>3
  <2>5. \A r \in c.row + 1 .. VGA_ROWS - 1 : c.page[r] = BlankLine
    <3>1. \A r \in a.row + 1 .. VGA_ROWS - 1 : r \in Rows /\ r # a.row /\ a.page[r] = BlankLine
      BY <1>1, Sizes DEF NothingAhead, Rows
    <3> QED BY <2>2, <3>1
  <2>6. \A r \in d.row + 1 .. VGA_ROWS - 1 : d.page[r] = BlankLine
    <3>1. \A r \in b.row + 1 .. VGA_ROWS - 1 : r \in Rows /\ r # b.row /\ b.page[r] = BlankLine
      BY <1>1, Sizes DEF NothingAhead, Rows
    <3> QED BY <2>3, <3>1
  <2>7. Agree(LineFeed(c), LineFeed(d))
    BY <2>2, <2>3, <2>4, <2>5, <2>6, LineFeedAgrees
  <2> QED BY <2>1, <2>7
<1> QED BY <1>1, <1>2, <1>3, Sizes

(* Characters that are typed or printed as such, and newlines, move two    *)
(* terminals that agree alike.                                             *)
LEMMA CharacterAgrees ==
  ASSUME NEW a, NEW b, Agree(a, b), NEW ch, ch \notin Control \ {Newline}
  PROVE  Agree(PutChar(a, ch), PutChar(b, ch))
<1>1. CASE ch = Newline
  <2>1. Agree(LineFeed(a), LineFeed(b))
    <3>1. /\ TerminalOK(a) /\ \A r \in a.row + 1 .. VGA_ROWS - 1 : a.page[r] = BlankLine
          /\ TerminalOK(b) /\ \A r \in b.row + 1 .. VGA_ROWS - 1 : b.page[r] = BlankLine
          /\ \A k \in 0 .. a.row : k <= b.row => Up(a, k) = Up(b, k)
      BY DEF Agree, SameText, NothingAhead
    <3> QED BY <3>1, LineFeedAgrees
  <2>2. PutChar(a, ch) = LineFeed(a) /\ PutChar(b, ch) = LineFeed(b)
    BY <1>1 DEF PutChar, Newline, CarriageReturn, Backspace
  <2> QED BY <2>1, <2>2
<1>2. CASE ch # Newline
  <2>1. ch # CarriageReturn /\ ch # Backspace
    BY <1>2 DEF Control
  <2> QED BY <1>2, <2>1, PutAgrees DEF PutChar
<1> QED BY <1>1, <1>2

-----------------------------------------------------------------------------
(* A backspace takes back the character before it.                         *)

LEMMA EraseIs ==
  ASSUME NEW a, TerminalOK(a), a.col = 0 => a.row > 0, NEW b, b = Erase(a)
  PROVE  /\ TerminalOK(b)
         /\ \A r \in Rows : r # b.row => b.page[r] = a.page[r]
         /\ a.col > 0 => /\ b.row = a.row /\ b.col = a.col - 1
                         /\ Up(b, 0) = [Up(a, 0) EXCEPT ![b.col] = Blank]
                         /\ \A k \in 1 .. b.row : Up(b, k) = Up(a, k)
         /\ a.col = 0 => /\ b.row = a.row - 1 /\ b.col = VGA_COLS - 1
                         /\ Up(b, 0) = [Up(a, 1) EXCEPT ![b.col] = Blank]
                         /\ \A k \in 1 .. b.row : Up(b, k) = Up(a, k + 1)
<1> DEFINE back == StepBack(a)
<1>1. /\ TerminalOK(back) /\ back.page = a.page
      /\ a.col > 0 => back.row = a.row /\ back.col = a.col - 1
      /\ a.col = 0 => back.row = a.row - 1 /\ back.col = VGA_COLS - 1
  BY StepBackIs
<1>2. b = Cell(back, Blank)
  BY DEF Erase, Cell
<1> HIDE DEF back
<1>3. /\ TerminalOK(b) /\ b.row = back.row /\ b.col = back.col
      /\ \A r \in Rows : r # back.row => b.page[r] = back.page[r]
  <2> DEFINE w == Cell(back, Blank)
  <2>1. /\ TerminalOK(w) /\ w.row = back.row /\ w.col = back.col
        /\ \A r \in Rows : r # back.row => w.page[r] = back.page[r]
    <3>1. TerminalOK(back)
      BY <1>1
    <3> QED BY <3>1, CellIs
  <2> QED BY <1>2, <2>1
<1>4. /\ Up(b, 0) = [Up(back, 0) EXCEPT ![back.col] = Blank]
      /\ \A k \in 1 .. back.row : Up(b, k) = Up(back, k)
  BY <1>1, <1>2, CellUp
<1>5. a.row \in Nat
  BY DEF TerminalOK, Rows
<1>6. CASE a.col > 0
  <2>1. a.col # 0 /\ \A k : Up(back, k) = Up(a, k)
    BY <1>1, <1>6 DEF Up
  <2> QED BY <1>1, <1>3, <1>4, <1>6, <2>1
<1>7. CASE a.col = 0
  <2>1. /\ ~(a.col > 0)
        /\ (a.row - 1) - 0 = a.row - 1
        /\ \A k \in 1 .. a.row - 1 : (a.row - 1) - k = a.row - (k + 1)
    BY <1>5, <1>7
  <2>2. Up(back, 0) = Up(a, 1)
    BY <1>1, <1>7, <2>1 DEF Up
  <2>3. \A k \in 1 .. a.row - 1 : Up(back, k) = Up(a, k + 1)
    BY <1>1, <1>7, <2>1 DEF Up
  <2> QED BY <1>1, <1>3, <1>4, <1>7, <2>1, <2>2, <2>3
<1>8. a.col > 0 \/ a.col = 0
  BY DEF TerminalOK, Cols
<1> QED BY <1>6, <1>7, <1>8

LEMMA CellRestored ==
  ASSUME NEW l, Line(l), NEW c \in Cols, l[c] = Blank, NEW ch
  PROVE  [[l EXCEPT ![c] = ch] EXCEPT ![c] = Blank] = l
<1> DEFINE written == [l EXCEPT ![c] = ch]
           erased == [written EXCEPT ![c] = Blank]
<1>1. DOMAIN l = Cols /\ l = [x \in Cols |-> l[x]]
  BY DEF Line
<1>2. erased = [x \in Cols |-> erased[x]]
  BY <1>1
<1>3. \A x \in Cols : erased[x] = l[x]
  BY <1>1
<1> HIDE DEF erased
<1>4. erased = l
  BY <1>1, <1>2, <1>3
<1> QED BY <1>4 DEF erased

LEMMA EraseUndoes ==
  ASSUME NEW a, NEW b, TerminalOK(b), NothingAhead(b), NEW ch, Agree(a, Put(b, ch)),
         a.col = 0 => a.row > 0
  PROVE  Agree(Erase(a), b)
<1> DEFINE c == Erase(a)
           d == Put(b, ch)
<1>1. /\ TerminalOK(a) /\ NothingAhead(a) /\ TerminalOK(d)
      /\ a.col = d.col /\ d.row \in 0 .. VGA_ROWS - 1
      /\ a.row \in 0 .. VGA_ROWS - 1 /\ b.row \in 0 .. VGA_ROWS - 1
      /\ b.col \in 0 .. VGA_COLS - 1
      /\ \A k \in 0 .. a.row : k <= d.row => Up(a, k) = Up(d, k)
  BY DEF Agree, SameText, TerminalOK, Rows, Cols
<1>2. /\ TerminalOK(c)
      /\ \A r \in Rows : r # c.row => c.page[r] = a.page[r]
      /\ a.col > 0 => /\ c.row = a.row /\ c.col = a.col - 1
                      /\ Up(c, 0) = [Up(a, 0) EXCEPT ![c.col] = Blank]
                      /\ \A k \in 1 .. c.row : Up(c, k) = Up(a, k)
      /\ a.col = 0 => /\ c.row = a.row - 1 /\ c.col = VGA_COLS - 1
                      /\ Up(c, 0) = [Up(a, 1) EXCEPT ![c.col] = Blank]
                      /\ \A k \in 1 .. c.row : Up(c, k) = Up(a, k + 1)
  BY <1>1, EraseIs
<1>3. /\ Line(Up(b, 0)) /\ b.col \in Cols /\ b.row - 0 = b.row
      /\ \A x \in b.col .. VGA_COLS - 1 : Up(b, 0)[x] = Blank
  BY <1>1 DEF TerminalOK, PageOK, NothingAhead, Up
<1>4. Up(b, 0) = [[Up(b, 0) EXCEPT ![b.col] = ch] EXCEPT ![b.col] = Blank]
  <2>1. Up(b, 0)[b.col] = Blank
    BY <1>1, <1>3, Sizes
  <2> QED BY <1>3, <2>1, CellRestored
<1>5. CASE b.col + 1 < VGA_COLS
  <2>1. /\ d.row = b.row /\ d.col = b.col + 1
        /\ Up(d, 0) = [Up(b, 0) EXCEPT ![b.col] = ch]
        /\ \A k \in 1 .. b.row : Up(d, k) = Up(b, k)
    BY <1>5, PutShort
  <2> HIDE DEF c, d
  <2>2. a.col > 0 /\ c.row = a.row /\ c.col = b.col /\ a.row - 0 = a.row
    BY <1>1, <1>2, <2>1
  <2>3. Up(c, 0) = Up(b, 0)
    BY <1>1, <1>2, <1>4, <2>1, <2>2
  <2>4. ASSUME NEW k \in 0 .. c.row, k <= b.row PROVE Up(c, k) = Up(b, k)
    BY <1>1, <1>2, <2>1, <2>2, <2>3, <2>4
  <2>5. NothingAhead(c)
    <3>1. \A x \in c.col .. VGA_COLS - 1 : c.page[c.row][x] = Blank
      BY <1>3, <2>2, <2>3 DEF Up
    <3>2. \A r \in c.row + 1 .. VGA_ROWS - 1 : r \in Rows /\ r # c.row /\ a.page[r] = BlankLine
      BY <1>1, <2>2, Sizes DEF NothingAhead, Rows
    <3> QED BY <1>2, <3>1, <3>2 DEF NothingAhead
  <2>6. Agree(c, b)
    BY <1>2, <2>2, <2>4, <2>5 DEF Agree, SameText
  <2> QED BY <2>6 DEF c
<1>6. CASE b.col + 1 >= VGA_COLS
  <2> DEFINE w == Cell(b, ch)
  <2>1. d = LineFeed(w) /\ b.col = VGA_COLS - 1
    BY <1>6, PutLong
  <2>2. /\ TerminalOK(w) /\ w.row = b.row
    BY CellIs
  <2>3. /\ Up(w, 0) = [Up(b, 0) EXCEPT ![b.col] = ch]
        /\ \A k \in 1 .. b.row : Up(w, k) = Up(b, k)
    BY CellUp
  <2> HIDE DEF w
  <2>4. /\ d.col = 0
        /\ d.row = IF b.row + 1 < VGA_ROWS THEN b.row + 1 ELSE b.row
        /\ \A k \in 1 .. d.row : Up(d, k) = Up(w, k - 1)
    BY <2>1, <2>2, LineFeedIs
  <2> HIDE DEF c, d
  <2>5. a.col = 0 /\ a.row > 0 /\ c.row = a.row - 1 /\ c.col = b.col
    BY <1>1, <1>2, <2>1, <2>4
  <2>6. ASSUME NEW k \in 0 .. c.row, k <= b.row
        PROVE  k + 1 \in 1 .. d.row /\ Up(a, k + 1) = Up(w, k)
    <3>1. k + 1 \in 0 .. a.row /\ k + 1 \in 1 .. d.row /\ (k + 1) - 1 = k
      BY <1>1, <2>4, <2>5, <2>6, Sizes
    <3>2. Up(a, k + 1) = Up(d, k + 1)
      BY <1>1, <3>1
    <3>3. Up(d, k + 1) = Up(w, (k + 1) - 1)
      BY <2>4, <3>1
    <3> QED BY <3>1, <3>2, <3>3
  <2>7. Up(c, 0) = Up(b, 0)
    <3>1. 0 \in 0 .. c.row /\ 0 <= b.row /\ 0 + 1 = 1
      BY <1>1, <2>5
    <3>2. Up(a, 1) = Up(w, 0)
      BY <2>6, <3>1
    <3> QED BY <1>2, <1>4, <2>3, <2>5, <3>2
  <2>8. ASSUME NEW k \in 0 .. c.row, k <= b.row PROVE Up(c, k) = Up(b, k)
    <3>1. CASE k = 0
      BY <2>7, <3>1
    <3>2. CASE k \in 1 .. c.row
      <4>1. Up(a, k + 1) = Up(w, k)
        BY <2>6, <2>8
      <4>2. k \in 1 .. b.row
        BY <1>1, <2>8, <3>2
      <4> QED BY <1>2, <2>3, <2>5, <3>2, <4>1, <4>2
    <3> QED BY <3>1, <3>2
  <2>9. NothingAhead(c)
    <3>1. c.row \in 0 .. VGA_ROWS - 1 /\ c.row - 0 = c.row /\ a.row \in Rows
      BY <1>1, <2>5, Sizes DEF Rows
    <3>2. \A x \in c.col .. VGA_COLS - 1 : c.page[c.row][x] = Blank
      BY <1>3, <2>5, <2>7, <3>1 DEF Up
    <3>3. a.page[a.row] = BlankLine
      <4>1. \A x \in Cols : a.page[a.row][x] = Blank
        BY <1>1, <2>5 DEF NothingAhead, Cols
      <4> QED BY <1>1, <3>1, <4>1, AllBlank DEF TerminalOK, PageOK
    <3>4. ASSUME NEW r \in c.row + 1 .. VGA_ROWS - 1
          PROVE  r \in Rows /\ r # c.row /\ a.page[r] = BlankLine
      <4>1. r \in Rows /\ r # c.row /\ (r = a.row \/ r \in a.row + 1 .. VGA_ROWS - 1)
        BY <1>1, <2>5, Sizes DEF Rows
      <4> QED BY <1>1, <3>3, <4>1 DEF NothingAhead
    <3> QED BY <1>2, <3>2, <3>4 DEF NothingAhead
  <2>10. Agree(c, b)
    BY <1>2, <2>5, <2>8, <2>9 DEF Agree, SameText
  <2> QED BY <2>10 DEF c
<1> QED BY <1>1, <1>5, <1>6, Sizes

(* Where a character leaves the cursor.                                    *)
LEMMA PutRow ==
  ASSUME NEW a, TerminalOK(a), NEW ch, NEW b, b = Put(a, ch)
  PROVE  \/ b.col = a.col + 1 /\ b.row = a.row
         \/ /\ a.col = VGA_COLS - 1 /\ b.col = 0
            /\ b.row = IF a.row + 1 < VGA_ROWS THEN a.row + 1 ELSE a.row
<1>1. CASE a.col + 1 < VGA_COLS
  BY <1>1, PutShort
<1>2. CASE a.col + 1 >= VGA_COLS
  <2> DEFINE w == Cell(a, ch)
  <2>1. b = LineFeed(w) /\ a.col = VGA_COLS - 1
    BY <1>2, PutLong
  <2>2. TerminalOK(w) /\ w.row = a.row
    BY CellIs
  <2> HIDE DEF w
  <2> QED BY <2>1, <2>2, LineFeedIs
<1> QED BY <1>1, <1>2, Sizes DEF TerminalOK, Cols

(* The visual bell is printed and taken back, which may leave the page     *)
(* scrolled and the cursor on the row above the last.                      *)
LEMMA BellLeavesNoTrace ==
  ASSUME NEW a, NEW b, Agree(a, b), NEW ch
  PROVE  /\ Agree(Erase(Put(a, ch)), b)
         /\ Erase(Put(a, ch)).col = a.col
         /\ \/ Erase(Put(a, ch)).row = a.row
            \/ Erase(Put(a, ch)).row = VGA_ROWS - 2
<1> DEFINE p == Put(a, ch)
           c == Erase(p)
<1>1. /\ TerminalOK(a) /\ NothingAhead(a) /\ TerminalOK(b) /\ NothingAhead(b)
      /\ a.row \in 0 .. VGA_ROWS - 1 /\ a.col \in 0 .. VGA_COLS - 1
  BY DEF Agree, TerminalOK, Rows, Cols
<1>2. Agree(a, a)
  BY <1>1 DEF Agree, SameText
<1>3. Agree(p, p)
  BY <1>2, PutAgrees
<1>4. \/ p.col = a.col + 1 /\ p.row = a.row
      \/ /\ a.col = VGA_COLS - 1 /\ p.col = 0
         /\ p.row = IF a.row + 1 < VGA_ROWS THEN a.row + 1 ELSE a.row
  BY <1>1, PutRow
<1>5. p.col = 0 => p.row > 0
  <2> HIDE DEF p
  <2> QED BY <1>1, <1>4, Sizes
<1>6. Agree(c, a)
  BY <1>1, <1>3, <1>5, EraseUndoes
<1>7. TerminalOK(p)
  BY <1>3 DEF Agree
<1> HIDE DEF p
<1>8. /\ p.col > 0 => c.row = p.row
      /\ p.col = 0 => c.row = p.row - 1
  BY <1>5, <1>7, EraseIs
<1> HIDE DEF c
<1>9. c.row <= a.row /\ (c.row = a.row \/ c.row = VGA_ROWS - 2)
  BY <1>1, <1>4, <1>8, Sizes
<1>10. c.col = a.col
  BY <1>6 DEF Agree, SameText
<1>11. Agree(c, b)
  <2>1. ASSUME NEW k \in 0 .. c.row, k <= b.row PROVE Up(c, k) = Up(b, k)
    <3>1. c.row \in Nat
      BY <1>6 DEF Agree, TerminalOK, Rows
    <3>2. k \in 0 .. a.row /\ k <= a.row
      BY <1>1, <1>9, <3>1
    <3>3. Up(c, k) = Up(a, k)
      BY <1>6, <3>2 DEF Agree, SameText
    <3>4. Up(a, k) = Up(b, k)
      BY <2>1, <3>2 DEF Agree, SameText
    <3> QED BY <3>3, <3>4
  <2> QED BY <1>6, <1>10, <2>1 DEF Agree, SameText
<1> QED BY <1>9, <1>10, <1>11 DEF c, p

-----------------------------------------------------------------------------
(* How far down the cursor is: at least as many rows as the line it is on  *)
(* takes, so that there is a row above to step back to.  The first n       *)
(* characters of str have been written; the last m of them are on a line   *)
(* of their own, and fill q rows.                                          *)
RoomAbove(a, str, n) ==
  \E m \in 0 .. n : \E q \in Nat :
    /\ m = n \/ str[n - m] = Newline
    /\ m = q * VGA_COLS + a.col
    /\ q <= a.row

(* Multiplication, in the instances used.                                  *)
LEMMA OneRowMore ==
  ASSUME NEW q \in Int
  PROVE  (q + 1) * VGA_COLS = q * VGA_COLS + VGA_COLS /\ q * VGA_COLS \in Int
BY Sizes

(* A line of a file leaves at least a row of the page.                     *)
LEMMA LineFitsPage ==
  ASSUME NEW q \in Nat, NEW c \in Nat, q * VGA_COLS + c <= FS_MAX_FILESIZE
  PROVE  q < VGA_ROWS - 1
<1> SUFFICES ASSUME q >= VGA_ROWS - 1 PROVE FALSE
  BY Sizes
<1>1. PICK r \in Nat : r = VGA_ROWS - 1
  BY Sizes
<1>2. FS_MAX_FILESIZE \in Nat /\ FS_MAX_FILESIZE < VGA_COLS * r
  BY <1>1, MiniEditAssumption DEF MiniEditAssumption
<1>3. PICK d \in Nat : q = r + d
  <2>1. q - r \in Nat /\ q = r + (q - r)
    BY <1>1, Sizes
  <2> QED BY <2>1
<1>4. q * VGA_COLS = VGA_COLS * r + VGA_COLS * d /\ VGA_COLS * d \in Nat /\ VGA_COLS * r \in Nat
  BY <1>3, Sizes
<1> QED BY <1>2, <1>4

(* A new line takes no row yet; it begins at the first column.             *)
LEMMA NewLineRoom ==
  ASSUME NEW a, TerminalOK(a), a.col = 0, NEW str, NEW n \in Nat,
         n = 0 \/ str[n] = Newline
  PROVE  RoomAbove(a, str, n)
<1>1. 0 * VGA_COLS = 0 /\ a.row \in Nat /\ n - 0 = n
  BY Sizes DEF TerminalOK, Rows
<1> QED BY <1>1 DEF RoomAbove

(* A character that fills a row has another row below it.                  *)
LEMMA PutRoom ==
  ASSUME NEW a, TerminalOK(a), NEW str, NEW n \in Nat, n < FS_MAX_FILESIZE,
         RoomAbove(a, str, n), NEW ch, NEW b, b = Put(a, ch),
         NEW longer, \A i \in 1 .. n : longer[i] = str[i]
  PROVE  RoomAbove(b, longer, n + 1)
<1>1. PICK m \in 0 .. n, q \in Nat : /\ m = n \/ str[n - m] = Newline
                                     /\ m = q * VGA_COLS + a.col
                                     /\ q <= a.row
  BY DEF RoomAbove
<1>2. /\ a.row \in 0 .. VGA_ROWS - 1 /\ a.col \in 0 .. VGA_COLS - 1
      /\ FS_MAX_FILESIZE \in Nat
  BY MiniEditAssumption DEF TerminalOK, Rows, Cols, MiniEditAssumption
<1>3. m + 1 \in 0 .. n + 1 /\ (m + 1 = n + 1 \/ longer[(n + 1) - (m + 1)] = Newline)
  <2>1. (n + 1) - (m + 1) = n - m
    OBVIOUS
  <2>2. m = n \/ n - m \in 1 .. n
    OBVIOUS
  <2> QED BY <1>1, <2>1, <2>2
<1>4. PICK p \in Int : p = q * VGA_COLS /\ (q + 1) * VGA_COLS = p + VGA_COLS
  BY OneRowMore
<1>5. CASE b.col = a.col + 1 /\ b.row = a.row
  <2>1. m + 1 = q * VGA_COLS + b.col /\ q <= b.row
    BY <1>1, <1>2, <1>4, <1>5
  <2> QED BY <1>3, <2>1 DEF RoomAbove
<1>6. CASE /\ a.col = VGA_COLS - 1 /\ b.col = 0
           /\ b.row = IF a.row + 1 < VGA_ROWS THEN a.row + 1 ELSE a.row
  <2>1. m + 1 = (q + 1) * VGA_COLS + 0
    BY <1>1, <1>4, <1>6, Sizes
  <2>2. q + 1 < VGA_ROWS - 1
    <3>1. (q + 1) * VGA_COLS + 0 <= FS_MAX_FILESIZE
      BY <1>2, <2>1
    <3> QED BY <3>1, LineFitsPage
  <2>3. q + 1 \in Nat /\ q + 1 <= b.row
    BY <1>1, <1>2, <1>6, <2>2, Sizes
  <2> QED BY <1>3, <1>6, <2>1, <2>3 DEF RoomAbove
<1> QED BY <1>5, <1>6, PutRow

LEMMA CharacterRoom ==
  ASSUME NEW a, TerminalOK(a), NEW str, NEW n \in Nat, n < FS_MAX_FILESIZE,
         RoomAbove(a, str, n), NEW ch, ch \notin Control \ {Newline},
         NEW longer, \A i \in 1 .. n : longer[i] = str[i], longer[n + 1] = ch
  PROVE  RoomAbove(PutChar(a, ch), longer, n + 1)
<1>1. CASE ch = Newline
  <2> DEFINE b == LineFeed(a)
  <2>1. PutChar(a, ch) = b
    BY <1>1 DEF PutChar, Newline, CarriageReturn, Backspace
  <2>2. TerminalOK(b) /\ b.col = 0
    BY LineFeedIs
  <2> HIDE DEF b
  <2> QED BY <1>1, <2>1, <2>2, NewLineRoom
<1>2. CASE ch # Newline
  <2>1. ch # CarriageReturn /\ ch # Backspace
    BY <1>2 DEF Control
  <2>2. PutChar(a, ch) = Put(a, ch)
    BY <1>2, <2>1 DEF PutChar
  <2> QED BY <2>2, PutRoom
<1> QED BY <1>1, <1>2

(* After a character there is a row to step back to, and taking it back    *)
(* leaves room as before.                                                  *)
LEMMA EraseRoom ==
  ASSUME NEW a, TerminalOK(a), NEW str, NEW n \in Nat \ {0},
         RoomAbove(a, str, n), str[n] # Newline,
         NEW shorter, \A i \in 1 .. n - 1 : shorter[i] = str[i]
  PROVE  /\ a.col = 0 => a.row > 0
         /\ RoomAbove(Erase(a), shorter, n - 1)
<1>1. PICK m \in 0 .. n, q \in Nat : /\ m = n \/ str[n - m] = Newline
                                     /\ m = q * VGA_COLS + a.col
                                     /\ q <= a.row
  BY DEF RoomAbove
<1>2. a.row \in 0 .. VGA_ROWS - 1 /\ a.col \in 0 .. VGA_COLS - 1
  BY DEF TerminalOK, Rows, Cols
<1>3. m # 0
  <2>1. n - 0 = n /\ n # 0
    OBVIOUS
  <2> QED BY <1>1, <2>1
<1>4. PICK p \in Int : p = q * VGA_COLS
  BY OneRowMore
<1>5. a.col = 0 => q # 0
  <2>1. 0 * VGA_COLS = 0
    BY Sizes
  <2> QED BY <1>1, <1>3, <2>1
<1>6. a.col = 0 => a.row > 0
  BY <1>1, <1>2, <1>5
<1> DEFINE c == Erase(a)
<1>7. /\ a.col > 0 => c.row = a.row /\ c.col = a.col - 1
      /\ a.col = 0 => c.row = a.row - 1 /\ c.col = VGA_COLS - 1
  BY <1>6, EraseIs
<1> HIDE DEF c
<1>8. m - 1 \in 0 .. n - 1 /\ (m - 1 = n - 1 \/ shorter[(n - 1) - (m - 1)] = Newline)
  <2>1. (n - 1) - (m - 1) = n - m
    OBVIOUS
  <2>2. m = n \/ n - m \in 1 .. n - 1
    BY <1>3
  <2> QED BY <1>1, <1>3, <2>1, <2>2
<1>9. CASE a.col > 0
  <2>1. m - 1 = q * VGA_COLS + c.col /\ q <= c.row
    BY <1>1, <1>2, <1>4, <1>7, <1>9
  <2> QED BY <1>6, <1>8, <2>1 DEF RoomAbove, c
<1>10. CASE a.col = 0
  <2>1. PICK r \in Nat : q = r + 1
    <3>1. q - 1 \in Nat /\ q = (q - 1) + 1
      BY <1>5, <1>10
    <3> QED BY <3>1
  <2>2. PICK s \in Int : s = r * VGA_COLS /\ q * VGA_COLS = s + VGA_COLS
    BY <2>1, OneRowMore
  <2>3. m - 1 = s + c.col
    BY <1>1, <1>7, <1>10, <2>2, Sizes
  <2>4. m - 1 = r * VGA_COLS + c.col /\ r <= c.row
    BY <1>1, <1>2, <1>7, <1>10, <2>1, <2>2, <2>3
  <2> QED BY <1>6, <1>8, <2>4 DEF RoomAbove, c
<1> QED BY <1>2, <1>9, <1>10

(* The bell's trace on the cursor, a row less on a full page, leaves room. *)
LEMMA BellRoom ==
  ASSUME NEW a, TerminalOK(a), NEW str, NEW n \in 0 .. FS_MAX_FILESIZE,
         RoomAbove(a, str, n), NEW c, c.col = a.col,
         c.row = a.row \/ c.row = VGA_ROWS - 2
  PROVE  RoomAbove(c, str, n)
<1>1. PICK m \in 0 .. n, q \in Nat : /\ m = n \/ str[n - m] = Newline
                                     /\ m = q * VGA_COLS + a.col
                                     /\ q <= a.row
  BY DEF RoomAbove
<1>2. FS_MAX_FILESIZE \in Nat /\ a.col \in Nat
  BY MiniEditAssumption DEF MiniEditAssumption, TerminalOK, Cols
<1>3. q * VGA_COLS + a.col <= FS_MAX_FILESIZE
  <2>1. m <= FS_MAX_FILESIZE
    BY <1>2
  <2> QED BY <1>1, <2>1
<1>4. q < VGA_ROWS - 1
  BY <1>2, <1>3, LineFitsPage
<1>5. q <= c.row
  BY <1>1, <1>4, Sizes
<1> QED BY <1>1, <1>5 DEF RoomAbove

-----------------------------------------------------------------------------
(* The same, along strings.                                                *)

(* No character of the string moves the cursor back.                       *)
Forward(str) == \A i \in 1 .. Len(str) : str[i] \notin Control \ {Newline}

LEMMA StringAgrees ==
  ASSUME NEW a, NEW b, Agree(a, b), NEW str, Len(str) \in Nat, Forward(str)
  PROVE  Agree(WriteString(a, str), WriteString(b, str))
<1> DEFINE f == After(a, str)
           g == After(b, str)
           Q == {n \in Nat : Agree(f[n], g[n])}
<1>1. /\ f[0] = a
      /\ \A n \in 1 .. Len(str) : f[n] = PutChar(f[n - 1], str[n])
      /\ WriteString(a, str) = f[Len(str)]
  BY AfterEachCharacter
<1>2. /\ g[0] = b
      /\ \A n \in 1 .. Len(str) : g[n] = PutChar(g[n - 1], str[n])
      /\ WriteString(b, str) = g[Len(str)]
  BY AfterEachCharacter
<1> HIDE DEF f, g
<1>3. 0 \in Q
  BY <1>1, <1>2
<1>4. ASSUME NEW n \in 1 .. Len(str), n - 1 \in Q PROVE n \in Q
  <2>1. Agree(f[n - 1], g[n - 1]) /\ str[n] \notin Control \ {Newline}
    BY <1>4 DEF Forward
  <2>2. Agree(PutChar(f[n - 1], str[n]), PutChar(g[n - 1], str[n]))
    BY <2>1, CharacterAgrees
  <2> QED BY <1>1, <1>2, <2>2
<1>5. Q \in SUBSET Nat
  OBVIOUS
<1> HIDE DEF Q
<1>6. \A n \in 0 .. Len(str) : n \in Q
  BY <1>3, <1>4, <1>5, AlongTheString
<1> QED BY <1>1, <1>2, <1>6 DEF Q

LEMMA StringRoom ==
  ASSUME NEW a, TerminalOK(a), a.col = 0,
         NEW str, Len(str) \in 0 .. FS_MAX_FILESIZE, Forward(str)
  PROVE  RoomAbove(WriteString(a, str), str, Len(str))
<1> DEFINE f == After(a, str)
           Q == {n \in Nat : TerminalOK(f[n]) /\ RoomAbove(f[n], str, n)}
<1>1. PICK N \in Nat : N = Len(str) /\ N <= FS_MAX_FILESIZE /\ FS_MAX_FILESIZE \in Nat
  BY MiniEditAssumption DEF MiniEditAssumption
<1>2. /\ f[0] = a
      /\ \A n \in 1 .. N : f[n] = PutChar(f[n - 1], str[n])
      /\ WriteString(a, str) = f[N]
  BY <1>1, AfterEachCharacter
<1> HIDE DEF f
<1>3. 0 \in Q
  BY <1>2, NewLineRoom
<1>4. ASSUME NEW n \in 1 .. N, n - 1 \in Q PROVE n \in Q
  <2>1. PICK k \in Nat : k = n - 1 /\ n = k + 1 /\ k < FS_MAX_FILESIZE
    BY <1>1
  <2>2. TerminalOK(f[k]) /\ RoomAbove(f[k], str, k) /\ str[n] \notin Control \ {Newline}
    BY <1>1, <1>4, <2>1 DEF Forward
  <2>3. TerminalOK(PutChar(f[k], str[n])) /\ RoomAbove(PutChar(f[k], str[n]), str, k + 1)
    BY <2>1, <2>2, CharacterRoom, PutCharForm
  <2> QED BY <1>2, <2>1, <2>3
<1>5. Q \in SUBSET Nat
  OBVIOUS
<1> HIDE DEF Q
<1>6. \A n \in 0 .. N : n \in Q
  BY <1>3, <1>4, <1>5, AlongTheString
<1> QED BY <1>1, <1>2, <1>6 DEF Q

-----------------------------------------------------------------------------
(* The page a file is opened on.                                           *)

LEMMA FreshForm == TerminalOK(Fresh)
<1>1. 0 \in Rows /\ 0 \in Cols
  BY Sizes DEF Rows, Cols
<1> QED BY <1>1, BlankLineForm DEF Fresh, BlankPage, TerminalOK, PageOK

(* A cleared page is blank and its cursor at the top, whatever it held.    *)
LEMMA ClearIs ==
  ASSUME NEW a, TerminalOK(a)
  PROVE  /\ TerminalOK(Clear(a)) /\ NothingAhead(Clear(a))
         /\ Clear(a).page = BlankPage /\ Clear(a).row = 0 /\ Clear(a).col = 0
<1>1. Clear(a) = [page |-> BlankPage, past |-> a.past, row |-> 0, col |-> 0]
  <2> DEFINE c == Clear(a)
  <2>1. a = [page |-> a.page, past |-> a.past, row |-> a.row, col |-> a.col]
    BY DEF TerminalOK
  <2>2. c = [x \in {"page", "past", "row", "col"} |-> c[x]]
    BY <2>1 DEF Clear
  <2>3. c.page = BlankPage /\ c.past = a.past /\ c.row = 0 /\ c.col = 0
    BY <2>1 DEF Clear
  <2> HIDE DEF c
  <2>4. c = [page |-> BlankPage, past |-> a.past, row |-> 0, col |-> 0]
    BY <2>2, <2>3
  <2> QED BY <2>4 DEF c
<1>2. 0 \in Rows /\ 0 \in Cols
  BY Sizes DEF Rows, Cols
<1>3. TerminalOK(Clear(a))
  BY <1>1, <1>2, BlankLineForm DEF BlankPage, TerminalOK, PageOK
<1>4. /\ \A c \in 0 .. VGA_COLS - 1 : BlankPage[0][c] = Blank
      /\ \A r \in 0 + 1 .. VGA_ROWS - 1 : BlankPage[r] = BlankLine
  BY <1>2, BlankLineForm DEF BlankPage, Rows, Cols
<1> QED BY <1>1, <1>3, <1>4 DEF NothingAhead

LEMMA ClearAgrees ==
  ASSUME NEW a, TerminalOK(a)
  PROVE  Agree(Clear(a), Clear(Fresh))
<1>1. /\ TerminalOK(Clear(a)) /\ NothingAhead(Clear(a))
      /\ Clear(a).page = BlankPage /\ Clear(a).row = 0 /\ Clear(a).col = 0
  BY ClearIs
<1>2. /\ TerminalOK(Clear(Fresh)) /\ NothingAhead(Clear(Fresh))
      /\ Clear(Fresh).page = BlankPage /\ Clear(Fresh).row = 0 /\ Clear(Fresh).col = 0
  BY FreshForm, ClearIs
<1> QED BY <1>1, <1>2 DEF Agree, SameText, Up

(* The header and the divider, of which the last character is a newline.   *)
LEMMA PageTop ==
  ASSUME NEW head \in Header
  PROVE  \E S, top : /\ top \in Seq(S) /\ Newline \in S
                     /\ S \cap (Control \ {Newline}) = {}
                     /\ head \o <<Newline>> \o Divider = Append(top, Newline)
<1> DEFINE S == Range(head) \cup {Newline, Rule}
           dashes == [i \in 1 .. EDITOR_DIVIDER_WIDTH |-> Rule]
           title == head \o <<Newline>>
           top == title \o dashes
<1>1. head \in Seq(S) /\ Newline \in S /\ Rule \in S
  BY EditorCharacters, SeqMonotonic DEF EditorCharacters
<1>2. S \cap (Control \ {Newline}) = {}
  BY EditorCharacters DEF EditorCharacters
<1> HIDE DEF S
<1>3. dashes \in Seq(S) /\ <<Newline>> \in Seq(S) /\ title \in Seq(S)
  BY <1>1, Sizes DEF EDITOR_DIVIDER_WIDTH
<1> HIDE DEF dashes, title
<1>4. top \in Seq(S)
  BY <1>3
<1>5. title \o (dashes \o <<Newline>>) = top \o <<Newline>>
  BY <1>3, ConcatAssociative
<1> HIDE DEF top
<1>6. top \o <<Newline>> = Append(top, Newline)
  BY <1>1, <1>4
<1>7. head \o <<Newline>> \o Divider = Append(top, Newline)
  BY <1>5, <1>6 DEF Divider, dashes, title
<1> QED BY <1>1, <1>2, <1>4, <1>7

LEMMA PageAgrees ==
  ASSUME NEW a, TerminalOK(a), NEW head \in Header
  PROVE  /\ Agree(EditorPage(a, head), EditorPage(Fresh, head))
         /\ EditorPage(a, head).col = 0
<1>1. PICK S, top : /\ top \in Seq(S) /\ Newline \in S
                    /\ S \cap (Control \ {Newline}) = {}
                    /\ head \o <<Newline>> \o Divider = Append(top, Newline)
  BY PageTop
<1> DEFINE str == Append(top, Newline)
<1>2. str \in Seq(S)
  BY <1>1
<1>3. EditorPage(a, head) = WriteString(Clear(a), str)
  BY <1>1 DEF EditorPage
<1>4. EditorPage(Fresh, head) = WriteString(Clear(Fresh), str)
  BY <1>1 DEF EditorPage
<1>5. WriteString(Clear(a), str) = PutChar(WriteString(Clear(a), top), Newline)
  BY <1>1, WriteAppended
<1> HIDE DEF str
<1>6. Len(str) \in Nat /\ Forward(str)
  BY <1>1, <1>2 DEF Forward
<1>7. Agree(WriteString(Clear(a), str), WriteString(Clear(Fresh), str))
  BY <1>6, ClearAgrees, StringAgrees
<1>8. WriteString(Clear(a), str).col = 0
  <2> DEFINE w == WriteString(Clear(a), top)
  <2>1. TerminalOK(w)
    BY <1>1, ClearIs, WriteStringForm
  <2> HIDE DEF w
  <2>2. PutChar(w, Newline) = LineFeed(w)
    BY DEF PutChar, Newline, CarriageReturn, Backspace
  <2>3. LineFeed(w).col = 0
    BY <2>1, LineFeedIs
  <2> QED BY <1>5, <2>2, <2>3 DEF w
<1> QED BY <1>3, <1>4, <1>7, <1>8

-----------------------------------------------------------------------------
(* The invariant.                                                          *)

Buffers == {data \in Seq(Byte \cup {Newline}) : Len(data) <= FS_MAX_FILESIZE}

(* The terminal shows what a freshly opened one would, and has the rows    *)
(* that the last line of the buffer has filled.                            *)
Linked == Agree(t, Typeset) /\ RoomAbove(t, edit_buffer, Len(edit_buffer))

EditInv == /\ TerminalOK(t)
           /\ header \in Header
           /\ file \in Buffers \cup {NoFile}
           /\ edit_buffer \in Buffers
           /\ (mode = "editing" /\ ~astray) => Linked

LEMMA BufferIs ==
  ASSUME NEW data \in Buffers
  PROVE  /\ data \in Seq(Byte \cup {Newline}) /\ Len(data) \in 0 .. FS_MAX_FILESIZE
         /\ Forward(data)
<1>1. data \in Seq(Byte \cup {Newline}) /\ Len(data) \in Nat /\ Len(data) <= FS_MAX_FILESIZE
  BY DEF Buffers
<1>2. FS_MAX_FILESIZE \in Nat
  BY MiniEditAssumption DEF MiniEditAssumption
<1>3. \A c \in Byte \cup {Newline} : c \notin Control \ {Newline}
  BY EditorCharacters DEF EditorCharacters
<1>4. \A i \in 1 .. Len(data) : data[i] \in Byte \cup {Newline}
  BY <1>1, ElementOfSeq
<1> QED BY <1>1, <1>2, <1>3, <1>4 DEF Forward

LEMMA InitEdit == Init => EditInv
<1>1. <<>> \in Buffers
  BY MiniEditAssumption DEF Buffers, MiniEditAssumption
<1> QED BY <1>1, FreshForm DEF Init, EditInv

(* A file is opened on a cleared page.                                     *)
LEMMA OpenKeeps == EditInv /\ Open => EditInv'
<1> SUFFICES ASSUME EditInv, Open PROVE EditInv'
  OBVIOUS
<1> DEFINE data == Loaded
           a == EditorPage(t, header)
           b == EditorPage(Fresh, header)
<1>1. /\ edit_buffer' = data /\ file' = data /\ header' = header
      /\ t' = WriteString(a, data)
  BY DEF Open
<1>2. data \in Buffers
  <2>1. <<>> \in Buffers
    BY MiniEditAssumption DEF Buffers, MiniEditAssumption
  <2> QED BY <2>1 DEF Loaded, EditInv
<1>3. Agree(a, b) /\ a.col = 0
  BY PageAgrees DEF EditInv
<1> HIDE DEF a, data
<1>4. Len(data) \in 0 .. FS_MAX_FILESIZE /\ Len(data) \in Nat /\ Forward(data)
  BY <1>2, BufferIs
<1>5. Typeset' = WriteString(b, data)
  BY <1>1 DEF Typeset
<1> HIDE DEF b
<1>6. Agree(WriteString(a, data), WriteString(b, data))
  BY <1>3, <1>4, StringAgrees
<1>7. RoomAbove(WriteString(a, data), data, Len(data))
  BY <1>3, <1>4, StringRoom DEF Agree
<1>8. Linked'
  BY <1>1, <1>5, <1>6, <1>7 DEF Linked
<1>9. TerminalOK(t')
  BY <1>1, <1>6 DEF Agree
<1> QED BY <1>1, <1>2, <1>8, <1>9 DEF EditInv

(* Beyond the editor only the terminal's form is kept.                     *)
LEMMA ShellKeeps ==
  ASSUME EditInv, NEW str, Len(str) \in Nat, t' = WriteString(t, str), mode' = "shell",
         header' = header, file' \in Buffers \cup {NoFile}, edit_buffer' = edit_buffer
  PROVE  EditInv'
<1>1. TerminalOK(t')
  BY WriteStringForm DEF EditInv
<1> QED BY <1>1 DEF EditInv

LEMMA OpenFailsKeeps == EditInv /\ OpenFails => EditInv'
<1> SUFFICES ASSUME EditInv, OpenFails PROVE EditInv'
  OBVIOUS
<1>1. Len(Message) \in Nat
  BY EditorCharacters DEF EditorCharacters
<1>2. /\ t' = WriteString(t, Message) /\ mode' = "shell"
      /\ header' = header /\ file' = file /\ edit_buffer' = edit_buffer
  BY DEF OpenFails
<1> QED BY <1>1, <1>2, ShellKeeps DEF EditInv

LEMMA EscKeeps == EditInv /\ Esc => EditInv'
<1> SUFFICES ASSUME EditInv, Esc PROVE EditInv'
  OBVIOUS
<1> DEFINE str == <<Newline>> \o Divider \o Message
           S == Range(Message) \cup {Newline, Rule}
           dashes == [i \in 1 .. EDITOR_DIVIDER_WIDTH |-> Rule]
<1>1. Len(str) \in Nat
  <2>1. Message \in Seq(S) /\ <<Newline>> \in Seq(S)
    BY EditorCharacters, SeqMonotonic DEF EditorCharacters
  <2>2. dashes \in Seq(S)
    BY Sizes DEF EDITOR_DIVIDER_WIDTH
  <2>3. Divider \in Seq(S)
    BY <2>1, <2>2 DEF Divider
  <2> HIDE DEF S
  <2> QED BY <2>1, <2>3
<1>2. /\ t' = WriteString(t, str) /\ mode' = "shell"
      /\ header' = header /\ file' = edit_buffer /\ edit_buffer' = edit_buffer
  BY DEF Esc, Echo
<1> HIDE DEF str
<1> QED BY <1>1, <1>2, ShellKeeps DEF EditInv

(* A character or a newline typed with room for it.                        *)
LEMMA TypedKeeps ==
  ASSUME EditInv, Editing, HasRoom, NEW c \in Byte \cup {Newline},
         edit_buffer' = Append(edit_buffer, c), Echo(<<c>>), UNCHANGED astray
  PROVE  EditInv'
<1>1. /\ edit_buffer \in Seq(Byte \cup {Newline})
      /\ TerminalOK(t)
      /\ Len(edit_buffer) < FS_MAX_FILESIZE
      /\ header' = header /\ file' = file /\ mode' = mode /\ mode = "editing"
  BY BufferIs DEF EditInv, HasRoom, Editing
<1>2. PICK n \in Nat : n = Len(edit_buffer)
  BY <1>1
<1>3. /\ Append(edit_buffer, c) \in Seq(Byte \cup {Newline})
      /\ Len(Append(edit_buffer, c)) = n + 1
      /\ Append(edit_buffer, c)[n + 1] = c
      /\ \A i \in 1 .. n : Append(edit_buffer, c)[i] = edit_buffer[i]
  BY <1>1, <1>2, AppendProperties
<1>4. t' = PutChar(t, c)
  BY WriteOne DEF Echo
<1>5. TerminalOK(t')
  BY <1>1, <1>4, PutCharForm
<1>6. edit_buffer' \in Buffers
  <2>1. n + 1 <= FS_MAX_FILESIZE
    BY <1>1, <1>2, MiniEditAssumption DEF MiniEditAssumption
  <2> QED BY <1>3, <2>1 DEF Buffers
<1>7. ASSUME Linked PROVE Linked'
  <2>1. c \notin Control \ {Newline}
    BY EditorCharacters DEF EditorCharacters
  <2>2. Agree(PutChar(t, c), PutChar(Typeset, c))
    BY <1>7, <2>1, CharacterAgrees DEF Linked
  <2>3. Typeset' = PutChar(Typeset, c)
    <3> DEFINE page == EditorPage(Fresh, header)
    <3>1. Typeset' = WriteString(page, Append(edit_buffer, c))
      BY <1>1 DEF Typeset
    <3>2. Typeset = WriteString(page, edit_buffer)
      BY DEF Typeset
    <3> HIDE DEF page
    <3>3. WriteString(page, Append(edit_buffer, c)) = PutChar(WriteString(page, edit_buffer), c)
      BY <1>1, WriteAppended
    <3> QED BY <3>1, <3>2, <3>3
  <2>4. RoomAbove(PutChar(t, c), Append(edit_buffer, c), n + 1)
    BY <1>1, <1>2, <1>3, <1>7, <2>1, CharacterRoom DEF Linked
  <2> QED BY <1>3, <1>4, <2>2, <2>3, <2>4 DEF Linked
<1> QED BY <1>1, <1>5, <1>6, <1>7 DEF EditInv

(* A key refused rings.                                                    *)
LEMMA BellKeeps == EditInv /\ PrintableCharWhenFull => EditInv'
<1> SUFFICES ASSUME EditInv, PrintableCharWhenFull PROVE EditInv'
  OBVIOUS
<1>1. /\ TerminalOK(t) /\ edit_buffer' = edit_buffer /\ astray' = astray
      /\ header' = header /\ file' = file /\ mode' = mode
      /\ t' = WriteString(t, <<Bell, Backspace>>)
  BY DEF PrintableCharWhenFull, Editing, EditInv, Echo, VisualBell
<1>2. t' = PutChar(PutChar(t, Bell), Backspace)
  BY <1>1, WriteTwo
<1>3. TerminalOK(t')
  BY <1>1, <1>2, PutCharForm
<1>4. t' = Erase(Put(t, Bell))
  <2>1. Bell # Newline /\ Bell # CarriageReturn /\ Bell # Backspace
    BY EditorCharacters DEF EditorCharacters, Control
  <2>2. PutChar(t, Bell) = Put(t, Bell)
    BY <2>1 DEF PutChar
  <2>3. \A x : PutChar(x, Backspace) = Erase(x)
    BY DEF PutChar, Newline, CarriageReturn, Backspace
  <2> QED BY <1>2, <2>2, <2>3
<1>5. ASSUME Linked PROVE Linked'
  <2>1. Typeset' = Typeset
    BY <1>1 DEF Typeset
  <2>2. /\ Agree(t', Typeset)
        /\ t'.col = t.col
        /\ t'.row = t.row \/ t'.row = VGA_ROWS - 2
    BY <1>4, <1>5, BellLeavesNoTrace DEF Linked
  <2>3. Len(edit_buffer) \in 0 .. FS_MAX_FILESIZE
    BY BufferIs DEF EditInv
  <2>4. RoomAbove(t', edit_buffer, Len(edit_buffer))
    BY <1>1, <1>5, <2>2, <2>3, BellRoom DEF Linked
  <2> QED BY <1>1, <2>1, <2>2, <2>4 DEF Linked
<1> QED BY <1>1, <1>3, <1>5 DEF EditInv

(* A backspace takes back the last character; a newline taken back is the  *)
(* case the property leaves out.                                           *)
LEMMA BackspaceKeeps == EditInv /\ BackspaceKey => EditInv'
<1> SUFFICES ASSUME EditInv, BackspaceKey PROVE EditInv'
  OBVIOUS
<1>1. /\ TerminalOK(t) /\ edit_buffer \in Seq(Byte \cup {Newline}) /\ edit_buffer # <<>>
      /\ Len(edit_buffer) \in 0 .. FS_MAX_FILESIZE
      /\ edit_buffer' = Front(edit_buffer)
      /\ header' = header /\ file' = file /\ mode' = mode /\ mode = "editing"
      /\ astray' = (astray \/ Last(edit_buffer) = Newline)
      /\ t' = WriteString(t, <<Backspace>>)
  BY BufferIs DEF EditInv, BackspaceKey, Editing, Echo
<1>2. PICK n \in Nat \ {0} : n = Len(edit_buffer) /\ n <= FS_MAX_FILESIZE
  BY <1>1
<1> DEFINE front == SubSeq(edit_buffer, 1, n - 1)
           c == edit_buffer[n]
<1>3. /\ Front(edit_buffer) = front
      /\ Last(edit_buffer) = c
      /\ c \in Byte \cup {Newline}
  BY <1>1, <1>2 DEF Front, Last
<1>4. /\ front \in Seq(Byte \cup {Newline}) /\ Len(front) = n - 1
      /\ \A i \in 1 .. n - 1 : front[i] = edit_buffer[i]
  BY <1>1, <1>2, SubSeqProperties
<1>5. edit_buffer = Append(front, c)
  <2> DEFINE longer == Append(front, c)
  <2> HIDE DEF front, c
  <2>1. /\ longer \in Seq(Byte \cup {Newline}) /\ Len(longer) = n /\ longer[n] = c
        /\ \A i \in 1 .. n - 1 : longer[i] = front[i]
    <3>1. PICK k \in Nat : k = n - 1 /\ k + 1 = n /\ Len(front) = k
      BY <1>4
    <3> QED BY <1>3, <1>4, <3>1, AppendProperties
  <2> HIDE DEF longer
  <2>2. \A i \in 1 .. n : longer[i] = edit_buffer[i]
    BY <1>4, <2>1 DEF c
  <2>3. longer = edit_buffer
    BY <1>1, <1>2, <2>1, <2>2, SeqEqual
  <2> QED BY <2>3 DEF longer
<1> HIDE DEF front, c
<1>6. t' = Erase(t)
  BY <1>1, WriteOne DEF PutChar, Newline, CarriageReturn, Backspace
<1>7. TerminalOK(t')
  BY <1>1, WriteOne, PutCharForm
<1>8. edit_buffer' \in Buffers
  BY <1>1, <1>2, <1>3, <1>4, MiniEditAssumption DEF Buffers, MiniEditAssumption
<1>9. ASSUME Linked, c # Newline PROVE Linked'
  <2> DEFINE b == WriteString(EditorPage(Fresh, header), front)
  <2>1. Typeset' = b
    BY <1>1, <1>3 DEF Typeset
  <2>2. Typeset = PutChar(b, c)
    BY <1>3, <1>4, <1>5, WriteAppended DEF Typeset
  <2>3. Agree(b, b)
    <3>1. Forward(front) /\ Len(front) \in Nat
      BY <1>1, <1>3, <1>4, <1>8, BufferIs
    <3>2. TerminalOK(Fresh) /\ header \in Header
      BY FreshForm DEF EditInv
    <3> QED BY <3>1, <3>2, PageAgrees, StringAgrees
  <2> HIDE DEF b
  <2>4. PutChar(b, c) = Put(b, c)
    <3>1. c # CarriageReturn /\ c # Backspace
      BY <1>3, <1>9, EditorCharacters DEF EditorCharacters, Control
    <3> QED BY <1>9, <3>1 DEF PutChar
  <2>5. RoomAbove(t, edit_buffer, n)
    BY <1>2, <1>9 DEF Linked
  <2>6. (t.col = 0 => t.row > 0) /\ RoomAbove(Erase(t), front, n - 1)
    <3>1. edit_buffer[n] # Newline
      BY <1>9 DEF c
    <3> QED BY <1>1, <1>4, <2>5, <3>1, EraseRoom
  <2>7. Agree(Erase(t), b)
    <3>1. TerminalOK(b) /\ NothingAhead(b)
      BY <2>3 DEF Agree
    <3>2. Agree(t, Put(b, c))
      BY <1>9, <2>2, <2>4 DEF Linked
    <3> QED BY <2>6, <3>1, <3>2, EraseUndoes
  <2> QED BY <1>1, <1>3, <1>4, <1>6, <2>1, <2>6, <2>7 DEF Linked
<1> QED BY <1>1, <1>3, <1>7, <1>8, <1>9 DEF EditInv

LEMMA StepEdit == EditInv /\ [Next]_vars => EditInv'
<1> SUFFICES ASSUME EditInv, [Next]_vars PROVE EditInv'
  OBVIOUS
<1>1. CASE UNCHANGED vars
  BY <1>1 DEF vars, EditInv, Linked, Typeset
<1>2. ASSUME NEW c \in Byte, PrintableChar(c) PROVE EditInv'
  BY <1>2, TypedKeeps DEF PrintableChar
<1>3. CASE EnterKey
  BY <1>3, TypedKeeps DEF EnterKey
<1> QED BY <1>1, <1>2, <1>3, OpenKeeps, OpenFailsKeeps, BellKeeps, BackspaceKeeps, EscKeeps
        DEF Next

-----------------------------------------------------------------------------
(* The terminal shows what opening the buffer's text afresh would show.    *)
THEOREM EditInvariant == Spec => []EditInv
BY InitEdit, StepEdit, PTL DEF Spec

(* On a page of every size that a file without newlines fits, for every    *)
(* header, and over any number of wraps, scrolls, backspaces and refused   *)
(* keys, the user sees the end of what will be saved, with the cursor      *)
(* after it and what is above it undamaged, unless a newline was erased    *)
(* (src/kernel/editor.c, run_editor_input_loop).                           *)
THEOREM ScreenAlwaysShowsBuffer == Spec => []ScreenShowsBuffer
<1>1. EditInv => ScreenShowsBuffer
  BY AgreeShows DEF EditInv, Linked, ScreenShowsBuffer
<1> QED BY <1>1, EditInvariant, PTL

=============================================================================
