--------------------------- MODULE SmallCommands ---------------------------
(***************************************************************************)
(* The shell's commands that compute or remember something of their own:   *)
(* calc, the to-do list, and the commands that show a file by lines.  Each *)
(* is one step: nothing but the shell touches this state.  The arguments   *)
(* are short enough for the buffers they are copied to.                    *)
(***************************************************************************)
EXTENDS TextView

CONSTANTS TODO_MAX,    \* slots of the list
          TaskText,    \* what the user wants to remember
          Number,      \* strings of digits the user types
          Blank,       \* what may stand around an operator
          Text,        \* contents of files
          Word,        \* what hunt looks for
          Count,       \* the n of top and btm
          Ticks,       \* values of timer_ticks
          TIMER_FREQ,  \* ticks of a second
          NoTask       \* a slot never used

ASSUME TodoAssumption == TODO_MAX \in Nat \ {0}

Quote == "\""

(* What is to be remembered does not itself begin or end with a quotation  *)
(* mark: that one would be taken for the user's quotes.                    *)
ASSUME TaskAssumption ==
  \A text \in TaskText : /\ text \in Seq(Range(text))
                         /\ text # <<>> => Head(text) # Quote /\ Last(text) # Quote

ASSUME CalcAssumption ==
  /\ TIMER_FREQ \in Nat \ {0} /\ Ticks \in SUBSET Nat
  /\ Blank \in SUBSET Seq({" "})
  /\ Number \in SUBSET (Seq(Range(Figures)) \ {<<>>})

VARIABLES todos, todo_count, todo_next_id,
          asked,     \* the last command, as [op, left, right, n]
          shown,     \* what it printed
          halted,    \* an exception stopped the machine
          tasks      \* history: the tasks added since the last clear

todoVars == <<todos, todo_count, todo_next_id>>
vars == <<todoVars, asked, shown, halted, tasks>>

Slots == 0 .. TODO_MAX - 1

Init == /\ todos = [i \in Slots |-> NoTask]
        /\ todo_count = 0
        /\ todo_next_id = 1
        /\ asked = [op |-> "none", left |-> <<>>, right |-> <<>>, n |-> 0]
        /\ shown = <<>>
        /\ halted = FALSE
        /\ tasks = <<>>

Ask(op, left, right, n) == /\ ~halted
                           /\ asked' = [op |-> op, left |-> left, right |-> right, n |-> n]
Message(words) == << Row(0, <<words>>) >>

-----------------------------------------------------------------------------
(* The to-do list *)

(* The text with or without the quotes the usage message asks for. *)
TypedAs(text) == {text, <<Quote>> \o text, <<Quote>> \o text \o <<Quote>>}

Unquoted(arg) ==
  LET opened == IF arg # <<>> /\ Head(arg) = Quote THEN Tail(arg) ELSE arg
  IN  IF opened # <<>> /\ Last(opened) = Quote THEN Front(opened) ELSE opened

NewTask(text) == [id |-> todo_next_id, done |-> FALSE, text |-> text]

(* A faulty variant: a slot used before keeps its mark. *)
NewTaskInOldSlot(text) ==
  [id |-> todo_next_id, done |-> todos[todo_count] # NoTask /\ todos[todo_count].done,
   text |-> text]

TaskAdded(text) == NewTask(text)

TodoAdd(text, arg) ==
  /\ Ask("add", arg, <<>>, 0)
  /\ \/ /\ todo_count >= TODO_MAX
        /\ shown' = Message("Todo list is full!")
        /\ UNCHANGED <<todoVars, tasks>>
     \/ /\ todo_count < TODO_MAX
        /\ todos' = [todos EXCEPT ![todo_count] = TaskAdded(Unquoted(arg))]
        /\ todo_count' = todo_count + 1
        /\ todo_next_id' = todo_next_id + 1
        /\ shown' = Message("Task added.")
        /\ tasks' = Append(tasks, [text |-> text, done |-> FALSE])
  /\ UNCHANGED halted

TodoList ==
  /\ Ask("list", <<>>, <<>>, 0)
  /\ shown' = IF todo_count = 0 THEN Message("No tasks in your to-do list.")
              ELSE [i \in 1 .. todo_count |->
                      LET task == todos[i - 1]
                      IN  Row(task.id, <<IF task.done THEN "x" ELSE " ">> \o task.text)]
  /\ UNCHANGED <<todoVars, halted, tasks>>

(* The first slot in use with this id. *)
TodoDone(id) ==
  LET found == {i \in 0 .. todo_count - 1 : todos[i].id = id}
  IN  /\ Ask("done", <<>>, <<>>, id)
      /\ \/ /\ found = {}
            /\ shown' = Message("Task ID not found.")
            /\ UNCHANGED <<todos, tasks>>
         \/ /\ found # {}
            /\ todos' = [todos EXCEPT ![Min(found)].done = TRUE]
            /\ shown' = Message("Task marked as done.")
            /\ tasks' = [tasks EXCEPT ![id].done = TRUE]
      /\ UNCHANGED <<todo_count, todo_next_id, halted>>

(* The slots keep what they hold. *)
TodoClear == /\ Ask("clear", <<>>, <<>>, 0)
             /\ todo_count' = 0
             /\ todo_next_id' = 1
             /\ shown' = Message("Todo list cleared.")
             /\ tasks' = <<>>
             /\ UNCHANGED <<todos, halted>>

-----------------------------------------------------------------------------
(* calc *)

Operators == {"+", "-", "*", "/"}

Magnitude(n) == IF n < 0 THEN -n ELSE n

(* C divides towards zero. *)
Quotient(a, b) == LET q == Magnitude(a) \div Magnitude(b)
                  IN  IF (a < 0) = (b < 0) THEN q ELSE -q

(* The result without regard to the width of an int. *)
Exact(op, a, b) == CASE op = "+" -> a + b
                     [] op = "-" -> a - b
                     [] op = "*" -> a * b
                     [] op = "/" -> Quotient(a, b)

(* The text up to the first operator, and what follows it. *)
OperatorIn(arg) == SelectInSeq(arg, LAMBDA c : c \in Operators)
LeftOf(arg) == Before(arg, OperatorIn(arg))
RightOf(arg) == From(arg, OperatorIn(arg))

Operand(str) == atoi(skip_spaces(str))

cmd_calc(arg) ==
  LET rest == RightOf(arg)
      n1 == Operand(LeftOf(arg))
      n2 == Operand(Tail(rest))
      zero == Head(rest) = "/" /\ n2 = 0
      overflows == Head(rest) = "/" /\ n1 = INT_MIN /\ n2 = -1
  IN  \/ /\ rest = <<>>
         /\ shown' = Message("Error: Invalid expression.")
         /\ UNCHANGED halted
      \/ /\ rest # <<>> /\ zero
         /\ shown' = Message("Error: Division by zero.")
         /\ UNCHANGED halted
      \/ /\ rest # <<>> /\ overflows          \* the processor's exception 0
         /\ shown' = Message("System halted.")
         /\ halted' = TRUE
      \/ /\ rest # <<>> /\ ~zero /\ ~overflows
         /\ shown' = << Row(0, itoa(Wrap(Exact(Head(rest), n1, n2)))) >>
         /\ UNCHANGED halted

Signed(digits) == {digits, <<"-">> \o digits}

Calc(left, op, right, blank) ==
  /\ Ask(op, left, right, 0)
  /\ cmd_calc(left \o blank \o <<op>> \o blank \o right)
  /\ UNCHANGED <<todoVars, tasks>>

CalcNoOperator(arg) == /\ Ask("none", arg, <<>>, 0)
                       /\ cmd_calc(arg)
                       /\ UNCHANGED <<todoVars, tasks>>

-----------------------------------------------------------------------------
(* alive *)

timer_get_uptime_seconds(ticks) == ticks \div TIMER_FREQ

Padded(n) == printf_number(itoa(n), TRUE, FALSE, 2)

cmd_alive(secs) == Padded(secs \div 3600) \o <<":">>
                     \o Padded((secs % 3600) \div 60) \o <<":">>
                     \o Padded(secs % 60)

Alive(ticks) == /\ Ask("alive", <<>>, <<>>, ticks)
                /\ shown' = << Row(0, cmd_alive(timer_get_uptime_seconds(ticks))) >>
                /\ UNCHANGED <<todoVars, halted, tasks>>

-----------------------------------------------------------------------------
(* Files by lines *)

View(op, text, word, n, rows) == /\ Ask(op, text, word, n)
                                 /\ shown' = rows
                                 /\ UNCHANGED <<todoVars, halted, tasks>>

Top(text, n) == View("top", text, <<>>, n, cmd_top(text, n))
Btm(text, n) == View("btm", text, <<>>, n, cmd_btm(text, n))
Hunt(text, word) == View("hunt", text, word, 0, cmd_hunt(text, word))
Cnt(text) == View("cnt", text, <<>>, 0, cmd_cnt(text))

Next ==
  \/ \E text \in TaskText : \E arg \in TypedAs(text) : TodoAdd(text, arg)
  \/ TodoList
  \/ \E id \in 0 .. TODO_MAX + 1 : TodoDone(id)
  \/ TodoClear
  \/ \E a, b \in Number, op \in Operators, blank \in Blank :
       \E left \in Signed(a), right \in Signed(b) : Calc(left, op, right, blank)
  \/ \E a \in Number : CalcNoOperator(a)
  \/ \E ticks \in Ticks : Alive(ticks)
  \/ \E text \in Text : \/ \E n \in Count : Top(text, n) \/ Btm(text, n)
                        \/ \E word \in Word : Hunt(text, word)
                        \/ Cnt(text)

Spec == Init /\ [][Next]_vars

-----------------------------------------------------------------------------
(* The list has the form the code gives it; all text is in sequences. *)
Task == [id : 1 .. TODO_MAX, done : BOOLEAN, text : TaskText]

(* todo list shows the tasks added since the list was cleared, in order,   *)
(* numbered from 1, each with its text and marked if and only if it was    *)
(* marked since then, whatever the slots held before.                      *)
TodoListIsKept ==
  /\ todo_count = Len(tasks) /\ todo_next_id = todo_count + 1
  /\ todos \in [Slots -> Task \cup {NoTask}]
  /\ \A i \in 1 .. todo_count :
       todos[i - 1] = [id |-> i, done |-> tasks[i].done, text |-> tasks[i].text]

InRange(n) == n \in INT_MIN .. INT_MAX

(* The number a string of digits denotes, one sign before it. *)
Value(str) ==
  LET value[i \in 0 .. Len(str)] ==
        IF i = 0 THEN 0 ELSE value[i - 1] * 10 + DigitOf(str[i])
  IN  value[Len(str)]
ValueOf(str) == IF Head(str) = "-" THEN -Value(Tail(str)) ELSE Value(str)

(* The decimal notation of n, without leading zeros. *)
Denotes(str, n) ==
  LET digits == IF n < 0 THEN Tail(str) ELSE str
  IN  /\ n < 0 => Head(str) = "-"
      /\ digits # <<>> /\ \A i \in DOMAIN digits : IsDigit(digits[i])
      /\ Value(digits) = Magnitude(n)
      /\ digits[1] = "0" => n = 0 /\ Len(digits) = 1

(* calc a op b, with a not negative, shows what the operator makes of the  *)
(* numbers typed when they and the result are ints, the smallest included, *)
(* and refuses to divide by zero; then the machine is not stopped.         *)
CalcIsRight ==
  LET a == ValueOf(asked.left)
      b == ValueOf(asked.right)
  IN  (asked.op \in Operators /\ Head(asked.left) # "-" /\ InRange(a) /\ InRange(b)) =>
        /\ ~halted
        /\ IF asked.op = "/" /\ b = 0 THEN shown = Message("Error: Division by zero.")
           ELSE InRange(Exact(asked.op, a, b))
                  => Denotes(shown[1].text, Exact(asked.op, a, b))

(* alive shows the time since the last wrap of timer_ticks, as two figures *)
(* or more of hours, two of minutes and two of seconds; seconds and        *)
(* minutes are below sixty.                                                *)
AliveIsRight ==
  asked.op = "alive" =>
    LET text == shown[1].text
        end == Len(text)
        hours == Value(SubSeq(text, 1, end - 6))
        minutes == Value(SubSeq(text, end - 4, end - 3))
        seconds == Value(SubSeq(text, end - 1, end))
        secs == hours * 3600 + minutes * 60 + seconds
    IN  /\ end >= 8 /\ text[end - 5] = ":" /\ text[end - 2] = ":"
        /\ minutes < 60 /\ seconds < 60
        /\ secs * TIMER_FREQ <= asked.n /\ asked.n < (secs + 1) * TIMER_FREQ

NumbersAreShown == [][(CalcIsRight /\ AliveIsRight)']_vars

(* top shows the first n lines, btm the last n, hunt the lines that hold   *)
(* the word, each under its number in the file; cnt counts lines, words    *)
(* and bytes.  So it is for empty files, empty lines, a last line without  *)
(* a newline, and an n of zero, negative or beyond the file.               *)
ViewersAreRight ==
  LET text == asked.left
      all == Lines(text)
      shows(Wanted(_)) == shown = SelectSeq(all, Wanted)
  IN  /\ asked.op = "top" => shows(LAMBDA row : row.number <= asked.n)
      /\ asked.op = "btm" => shows(LAMBDA row : row.number > Len(all) - asked.n)
      /\ asked.op = "hunt" =>
           shows(LAMBDA row : \E i, j \in 0 .. Len(row.text) :
                                SubSeq(row.text, i + 1, j) = asked.right)
      /\ asked.op = "cnt" =>
           [i \in 1 .. 3 |-> shown[i].number] = <<Len(all), Words(text), Len(text)>>

ViewersShowLines == [][ViewersAreRight']_vars
=============================================================================
