------------------------------ MODULE TextView ------------------------------
(***************************************************************************)
(* The commands of shell.c that show a file by lines: top, btm, cnt, hunt. *)
(* Each walks over the text once, looking for newlines.  A file's text is  *)
(* a sequence of characters; what a command prints is a sequence of        *)
(* [number, text].                                                         *)
(***************************************************************************)
EXTENDS Numbers

Newline == "\n"

Row(number, text) == [number |-> number, text |-> text]

-----------------------------------------------------------------------------
(* The walk: a line ends at a newline; at the end, what was begun there is *)
(* a line if it has any text.  What the command does not want of them is   *)
(* not printed.                                                            *)
Walk(text) ==
  LET ended(acc, end) == Append(acc.rows, Row(Len(acc.rows) + 1, SubSeq(text, acc.start, end)))
      step(acc, p) == IF text[p] = Newline THEN [start |-> p + 1, rows |-> ended(acc, p - 1)]
                                           ELSE acc
      done == FoldLeftDomain(step, [start |-> 1, rows |-> <<>>], text)
  IN  IF done.start <= Len(text) THEN ended(done, Len(text)) ELSE done.rows

cmd_top(text, count) == SelectSeq(Walk(text), LAMBDA row : row.number <= count)

NewlinesIn(text) == Cardinality({p \in DOMAIN text : text[p] = Newline})

(* A faulty variant: the line after the last newline is not counted. *)
LinesEnded(text) == NewlinesIn(text)

(* What btm and cnt count: a last line without a newline is one too. *)
LinesCounted(text) ==
  NewlinesIn(text) + (IF text # <<>> /\ Last(text) # Newline THEN 1 ELSE 0)

cmd_btm(text, count) ==
  LET start_line == Wrap(LinesCounted(text) - count + 1)
  IN  SelectSeq(Walk(text), LAMBDA row : row.number >= start_line)

mini_strstr(str, word) ==
  \E h \in DOMAIN str : IsPrefix(word, SubSeq(str, h, Len(str)))

cmd_hunt(text, word) == SelectSeq(Walk(text), LAMBDA row : mini_strstr(row.text, word))

WordsCounted(text) ==
  FoldLeft(LAMBDA acc, c : IF c \in {" ", Newline} THEN [acc EXCEPT !.in_word = FALSE]
                           ELSE [in_word |-> TRUE,
                                 words |-> acc.words + (IF acc.in_word THEN 0 ELSE 1)],
           [in_word |-> FALSE, words |-> 0], text).words

cmd_cnt(text) == << Row(LinesCounted(text), <<"Lines">>),
                    Row(WordsCounted(text), <<"Words">>),
                    Row(Len(text), <<"Bytes">>) >>

-----------------------------------------------------------------------------
(* The lines of a text, for reference: the k-th has k - 1 newlines before  *)
(* it; nothing after the last newline is no line.                          *)
LineNumber(text, p) == 1 + Cardinality({q \in 1 .. p - 1 : text[q] = Newline})
LineNumbers(text) == {LineNumber(text, p) : p \in DOMAIN text}
LineOf(text, k) ==
  LET places == {p \in DOMAIN text : LineNumber(text, p) = k /\ text[p] # Newline}
      order == SetToSortSeq(places, <)
  IN  [i \in DOMAIN order |-> text[order[i]]]

Lines(text) == [k \in 1 .. Cardinality(LineNumbers(text)) |-> Row(k, LineOf(text, k))]

(* Words begin where a character that is not blank follows none. *)
Words(text) ==
  Cardinality({p \in DOMAIN text : /\ text[p] \notin {" ", Newline}
                                   /\ p = 1 \/ text[p - 1] \in {" ", Newline}})
=============================================================================
