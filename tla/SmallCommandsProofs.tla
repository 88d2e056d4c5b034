------------------------ MODULE SmallCommandsProofs ------------------------
(***************************************************************************)
(* The to-do list of the shell, for every number of slots, every text and  *)
(* whatever the slots were used for before the list was last cleared; and  *)
(* the numbers calc and alive show, for ints of every width and strings    *)
(* of every length.  Recursive functions are unfolded by induction over    *)
(* the numbers they are defined on, a set of numbers being a property.     *)
(***************************************************************************)
EXTENDS SmallCommands, SequenceTheorems, WellFoundedInduction, TLAPS

USE TodoAssumption DEF TodoAssumption

(* The tasks remembered by the history.                                    *)
Kept == [text : TaskText, done : BOOLEAN]

(* The slot shows the task in its place, under the next number.            *)
Holds(k) == /\ todos[k] \in Task
            /\ todos[k].id = k + 1
            /\ todos[k].done = tasks[k + 1].done
            /\ todos[k].text = tasks[k + 1].text

TodoInv == /\ todo_count \in 0 .. TODO_MAX
           /\ todo_next_id = todo_count + 1
           /\ tasks \in Seq(Kept) /\ Len(tasks) = todo_count
           /\ todos \in [Slots -> Task \cup {NoTask}]
           /\ \A k \in 0 .. todo_count - 1 : Holds(k)

(* A record is what its fields are; marking one changes no other field.    *)
LEMMA TaskFields ==
  ASSUME NEW r \in Task
  PROVE  r = [id |-> r.id, done |-> r.done, text |-> r.text]
BY DEF Task

LEMMA MarkedTask ==
  ASSUME NEW r \in Task
  PROVE  LET s == [r EXCEPT !.done = TRUE]
         IN  s \in Task /\ s.id = r.id /\ s.done = TRUE /\ s.text = r.text
BY DEF Task

LEMMA MarkedKept ==
  ASSUME NEW r \in Kept
  PROVE  LET s == [r EXCEPT !.done = TRUE]
         IN  s \in Kept /\ s.done = TRUE /\ s.text = r.text
BY DEF Kept

LEMMA TodoInvSuffices == TodoInv => TodoListIsKept
<1> SUFFICES ASSUME TodoInv PROVE TodoListIsKept
  OBVIOUS
<1>1. ASSUME NEW i \in 1 .. todo_count
      PROVE  todos[i - 1] = [id |-> i, done |-> tasks[i].done, text |-> tasks[i].text]
  <2>1. PICK k \in 0 .. todo_count - 1 : i = k + 1 /\ i - 1 = k
    BY DEF TodoInv
  <2>2. Holds(k) /\ todos[k] \in Task
    BY DEF TodoInv, Holds
  <2>3. todos[k] = [id |-> i, done |-> tasks[i].done, text |-> tasks[i].text]
    BY <2>1, <2>2, TaskFields, Zenon DEF Holds
  <2> QED BY <2>1, <2>3
<1> QED BY <1>1 DEF TodoInv, TodoListIsKept

-----------------------------------------------------------------------------
(* What was appended is last, and before it is what was there.             *)
LEMMA FrontLastOfAppended ==
  ASSUME NEW S, NEW s \in Seq(S), NEW e \in S
  PROVE  /\ Append(s, e) # <<>>
         /\ Last(Append(s, e)) = e
         /\ Front(Append(s, e)) = s
<1> DEFINE longer == Append(s, e)
<1>1. PICK n \in Nat : Len(s) = n
  OBVIOUS
<1>2. /\ longer \in Seq(S) /\ Len(longer) = n + 1 /\ longer[n + 1] = e
      /\ \A i \in 1 .. n : longer[i] = s[i]
  BY <1>1
<1> HIDE DEF longer
<1>3. Front(longer) = SubSeq(longer, 1, n)
  BY <1>2 DEF Front
<1>4. SubSeq(longer, 1, n) \in Seq(S) /\ Len(SubSeq(longer, 1, n)) = n
  BY <1>2, SubSeqProperties
<1>5. \A i \in 1 .. n : SubSeq(longer, 1, n)[i] = s[i]
  BY <1>2, SubSeqProperties
<1>6. SubSeq(longer, 1, n) = s
  BY <1>1, <1>4, <1>5, SeqEqual
<1>7. longer # <<>> /\ Last(longer) = e
  BY <1>2 DEF Last
<1> QED BY <1>3, <1>6, <1>7 DEF longer

-----------------------------------------------------------------------------
(* The quotes the user may type are taken off, and nothing else is.        *)
LEMMA UnquotedIsMeant ==
  ASSUME NEW text \in TaskText, NEW arg \in TypedAs(text)
  PROVE  Unquoted(arg) = text
<1> DEFINE S == Range(text) \cup {Quote}
           opening == <<Quote>> \o text
           closed == opening \o <<Quote>>
<1>1. text \in Seq(S) /\ Quote \in S
  BY TaskAssumption, SeqMonotonic DEF TaskAssumption
<1>2. text # <<>> => Head(text) # Quote /\ Last(text) # Quote
  BY TaskAssumption DEF TaskAssumption
<1> HIDE DEF S
<1>3. PICK n \in Nat : Len(text) = n
  BY <1>1
<1>4. /\ opening \in Seq(S) /\ Len(opening) = n + 1 /\ Head(opening) = Quote
      /\ opening # <<>>
      /\ \A i \in 1 .. n : opening[i + 1] = text[i]
  BY <1>1, <1>3
<1>5. Tail(opening) = text
  <2>1. Tail(opening) \in Seq(S) /\ Len(Tail(opening)) = n
    BY <1>4
  <2>2. \A i \in 1 .. n : Tail(opening)[i] = text[i]
    BY <1>4
  <2> HIDE DEF opening
  <2> QED BY <1>1, <1>3, <2>1, <2>2, SeqEqual
<1>6. closed = Append(opening, Quote)
  BY <1>1, <1>4
<1>7. closed = <<Quote>> \o (text \o <<Quote>>)
  BY <1>1
<1>8. Unquoted(text) = text
  BY <1>2 DEF Unquoted
<1>9. Unquoted(opening) = text
  BY <1>2, <1>4, <1>5 DEF Unquoted
<1>10. Unquoted(closed) = text
  <2>1. closed # <<>> /\ Head(closed) = Quote
    BY <1>1, <1>4, <1>6
  <2>2. Tail(closed) = Append(text, Quote)
    <3> DEFINE rest == Append(text, Quote)
    <3>1. rest \in Seq(S) /\ Len(rest) = n + 1
      BY <1>1, <1>3
    <3>2. closed \in Seq(S) /\ Len(closed) = n + 2
      BY <1>1, <1>4, <1>6
    <3>3. Tail(closed) \in Seq(S) /\ Len(Tail(closed)) = n + 1
      BY <2>1, <3>2
    <3>4. \A i \in 1 .. n + 1 : Tail(closed)[i] = closed[i + 1]
      BY <2>1, <3>2
    <3>5. \A i \in 1 .. n : closed[i + 1] = text[i]
      BY <1>4, <1>6
    <3>6. closed[n + 2] = Quote
      BY <1>4, <1>6
    <3>7. \A i \in 1 .. n : rest[i] = text[i]
      BY <1>1, <1>3
    <3>8. rest[n + 1] = Quote
      BY <1>1, <1>3
    <3> HIDE DEF rest, closed
    <3>9. \A i \in 1 .. n + 1 : Tail(closed)[i] = rest[i]
      <4> TAKE i \in 1 .. n + 1
      <4> DEFINE last == n + 1
                 tail == Tail(closed)
      <4>1. last \in Nat /\ last + 1 = n + 2 /\ (i = last \/ i \in 1 .. n)
        OBVIOUS
      <4>2. tail[i] = closed[i + 1] /\ rest[last] = Quote
        BY <3>4, <3>8
      <4> HIDE DEF last, tail
      <4>3. CASE i = last
        BY <3>6, <4>1, <4>2, <4>3 DEF tail
      <4>4. CASE i \in 1 .. n
        BY <3>5, <3>7, <4>2, <4>4 DEF tail
      <4> QED BY <4>1, <4>3, <4>4
    <3> QED BY <3>1, <3>3, <3>9, SeqEqual DEF rest
  <2>3. /\ Append(text, Quote) # <<>> /\ Last(Append(text, Quote)) = Quote
        /\ Front(Append(text, Quote)) = text
    BY <1>1, FrontLastOfAppended
  <2> HIDE DEF closed
  <2> QED BY <2>1, <2>2, <2>3 DEF Unquoted
<1> QED BY <1>7, <1>8, <1>9, <1>10 DEF TypedAs

-----------------------------------------------------------------------------
(* The list holds, slot by slot, the task with the slot's number.          *)
LEMMA InitTodo == Init => TodoInv
BY DEF Init, TodoInv

(* A task takes the first slot not in use, whatever that held.             *)
LEMMA AddKeepsTodo ==
  ASSUME TodoInv, NEW text \in TaskText, NEW arg \in TypedAs(text), TodoAdd(text, arg)
  PROVE  TodoInv'
<1>1. CASE UNCHANGED <<todoVars, tasks>>
  BY <1>1 DEF TodoInv, Holds, todoVars
<1>2. CASE /\ todo_count < TODO_MAX
           /\ todos' = [todos EXCEPT ![todo_count] = TaskAdded(Unquoted(arg))]
           /\ todo_count' = todo_count + 1
           /\ todo_next_id' = todo_next_id + 1
           /\ tasks' = Append(tasks, [text |-> text, done |-> FALSE])
  <2>1. PICK c \in Nat : c = todo_count /\ c < TODO_MAX
    BY <1>2 DEF TodoInv
  <2> DEFINE task == [id |-> c + 1, done |-> FALSE, text |-> text]
             kept == [text |-> text, done |-> FALSE]
  <2>2. /\ todos' = [todos EXCEPT ![c] = task]
        /\ todo_count' = c + 1 /\ todo_next_id' = c + 2
        /\ tasks' = Append(tasks, kept)
    <3>1. Unquoted(arg) = text
      BY UnquotedIsMeant
    <3>2. todo_next_id = c + 1
      BY <2>1 DEF TodoInv
    <3> QED BY <1>2, <2>1, <3>1, <3>2 DEF TaskAdded, NewTask
  <2>3. task \in Task /\ kept \in Kept
    BY <2>1 DEF Task, Kept
  <2> HIDE DEF task, kept
  <2>4. /\ todos' \in [Slots -> Task \cup {NoTask}]
        /\ todos'[c] = task
        /\ \A k \in 0 .. c - 1 : todos'[k] = todos[k]
    BY <2>1, <2>2, <2>3 DEF TodoInv, Slots
  <2>5. /\ tasks' \in Seq(Kept) /\ Len(tasks') = c + 1 /\ tasks'[c + 1] = kept
        /\ \A i \in 1 .. c : tasks'[i] = tasks[i]
    BY <2>1, <2>2, <2>3, AppendProperties DEF TodoInv
  <2>6. ASSUME NEW k \in 0 .. c PROVE Holds(k)'
    <3>1. CASE k = c
      <4>1. task.id = c + 1 /\ task.done = kept.done /\ task.text = kept.text
        BY DEF task, kept
      <4> QED BY <2>3, <2>4, <2>5, <3>1, <4>1, Zenon DEF Holds
    <3>2. CASE k \in 0 .. c - 1
      <4>1. k + 1 \in 1 .. c /\ Holds(k)
        BY <2>1, <3>2 DEF TodoInv
      <4> QED BY <2>4, <2>5, <3>2, <4>1 DEF Holds
    <3> QED BY <2>1, <3>1, <3>2
  <2> QED BY <2>1, <2>2, <2>4, <2>5, <2>6 DEF TodoInv
<1> QED BY <1>1, <1>2 DEF TodoAdd

(* Slots in use have their ids in order: the one found is the id's own.    *)
LEMMA DoneKeepsTodo ==
  ASSUME TodoInv, NEW id \in Nat, TodoDone(id)
  PROVE  TodoInv'
<1> DEFINE found == {i \in 0 .. todo_count - 1 : todos[i].id = id}
<1>1. CASE UNCHANGED <<todos, tasks>>
  BY <1>1 DEF TodoInv, Holds, TodoDone
<1>2. CASE ~UNCHANGED <<todos, tasks>>
  <2>1. /\ found # {}
        /\ todos' = [todos EXCEPT ![Min(found)].done = TRUE]
        /\ tasks' = [tasks EXCEPT ![id].done = TRUE]
        /\ UNCHANGED <<todo_count, todo_next_id>>
    BY <1>2 DEF TodoDone
  <2>2. \A i \in 0 .. todo_count - 1 : todos[i].id = i + 1
    BY DEF TodoInv, Holds
  <2>3. PICK k \in 0 .. todo_count - 1 : found = {k} /\ id = k + 1
    <3>1. PICK k \in 0 .. todo_count - 1 : todos[k].id = id
      BY <2>1
    <3>2. id = k + 1
      BY <2>2, <3>1
    <3>3. ASSUME NEW i \in 0 .. todo_count - 1, todos[i].id = id PROVE i = k
      <4>1. i + 1 = k + 1
        BY <2>2, <3>2, <3>3
      <4> QED BY <4>1 DEF TodoInv
    <3> QED BY <3>1, <3>2, <3>3
  <2> HIDE DEF found
  <2>4. Min(found) = k
    BY <2>3 DEF Min
  <2>5. k \in Slots /\ id \in 1 .. Len(tasks)
    BY <2>3 DEF TodoInv, Slots
  <2>6. Holds(k) /\ tasks[id] \in Kept
    BY <2>5, ElementOfSeq DEF TodoInv
  <2> DEFINE task == [todos[k] EXCEPT !.done = TRUE]
             kept == [tasks[id] EXCEPT !.done = TRUE]
  <2>8. todos' = [todos EXCEPT ![k] = task] /\ tasks' = [tasks EXCEPT ![id] = kept]
    BY <2>1, <2>4
  <2>9. /\ task \in Task /\ kept \in Kept
        /\ task.id = id /\ task.done = TRUE /\ task.text = tasks[id].text
        /\ kept.done = TRUE /\ kept.text = tasks[id].text
    BY <2>3, <2>6, MarkedTask, MarkedKept, Zenon DEF Holds
  <2> HIDE DEF task, kept
  <2>11. /\ todos' \in [Slots -> Task \cup {NoTask}]
         /\ todos'[k] = task
         /\ \A j \in Slots \ {k} : todos'[j] = todos[j]
    BY <2>5, <2>8, <2>9 DEF TodoInv
  <2>12. tasks' \in Seq(Kept) /\ Len(tasks') = todo_count
    BY <2>5, <2>8, <2>9, ExceptSeq DEF TodoInv
  <2>13. /\ tasks'[id] = kept
         /\ \A i \in 1 .. todo_count : i # id => tasks'[i] = tasks[i]
    BY <2>5, <2>8 DEF TodoInv
  <2>14. ASSUME NEW j \in 0 .. todo_count - 1 PROVE Holds(j)'
    <3>1. CASE j = k
      BY <2>3, <2>9, <2>11, <2>13, <3>1, Zenon DEF Holds
    <3>2. CASE j # k
      <4>1. /\ j \in Slots /\ j + 1 \in 1 .. todo_count /\ j + 1 # id
            /\ Holds(j)
        BY <2>3, <3>2 DEF TodoInv, Slots
      <4> QED BY <2>11, <2>13, <3>2, <4>1 DEF Holds
    <3> QED BY <3>1, <3>2
  <2> QED BY <2>1, <2>11, <2>12, <2>14 DEF TodoInv
<1> QED BY <1>1, <1>2

(* No other command touches the list; clear forgets it all.                *)
LEMMA StepKeepsTodo == TodoInv /\ [Next]_vars => TodoInv'
<1> SUFFICES ASSUME TodoInv, [Next]_vars PROVE TodoInv'
  OBVIOUS
<1>1. ASSUME UNCHANGED <<todoVars, tasks>> PROVE TodoInv'
  BY <1>1 DEF TodoInv, Holds, todoVars
<1>2. ASSUME NEW text \in TaskText, NEW arg \in TypedAs(text), TodoAdd(text, arg)
      PROVE  TodoInv'
  BY <1>2, AddKeepsTodo
<1>3. CASE TodoList
  BY <1>1, <1>3 DEF TodoList
<1>4. ASSUME NEW id \in 0 .. TODO_MAX + 1, TodoDone(id) PROVE TodoInv'
  BY <1>4, DoneKeepsTodo
<1>5. CASE TodoClear
  <2>1. /\ todo_count' = 0 /\ todo_next_id' = 1 /\ tasks' = <<>>
        /\ todos' = todos
    BY <1>5 DEF TodoClear
  <2> QED BY <2>1 DEF TodoInv
<1>6. ASSUME NEW left, NEW op, NEW right, NEW blank, Calc(left, op, right, blank)
      PROVE  TodoInv'
  BY <1>1, <1>6 DEF Calc
<1>7. ASSUME NEW arg, CalcNoOperator(arg) PROVE TodoInv'
  BY <1>1, <1>7 DEF CalcNoOperator
<1>8. ASSUME NEW ticks, Alive(ticks) PROVE TodoInv'
  BY <1>1, <1>8 DEF Alive
<1>9. ASSUME NEW text, \/ \E n \in Count : Top(text, n) \/ Btm(text, n)
                       \/ \E word \in Word : Hunt(text, word)
                       \/ Cnt(text)
      PROVE  TodoInv'
  BY <1>1, <1>9 DEF Top, Btm, Hunt, Cnt, View
<1>10. CASE UNCHANGED vars
  BY <1>1, <1>10 DEF vars
<1> QED BY <1>2, <1>3, <1>4, <1>5, <1>6, <1>7, <1>8, <1>9, <1>10 DEF Next

-----------------------------------------------------------------------------
(* Whatever was added, marked and cleared, todo list shows the tasks added *)
(* since the list was last cleared, in order, each under its number and    *)
(* with its own mark (src/kernel/shell.c, cmd_todo).                       *)
THEOREM TodoListAlwaysKept == Spec => []TodoListIsKept
BY InitTodo, StepKeepsTodo, TodoInvSuffices, PTL DEF Spec

-----------------------------------------------------------------------------
(***************************************************************************)
(* What calc and alive show: the conversions between ints and strings, for *)
(* ints of every width and strings of every length.                        *)
(***************************************************************************)

HIDE DEF TodoAssumption

(* Induction over the natural numbers, as a fact about sets.               *)
LEMMA LeastNumber ==
  ASSUME NEW T \in SUBSET Nat, T # {}
  PROVE  \E x \in T : \A y \in T : x <= y
<1> DEFINE R == {ss \in Nat \X Nat : ss[1] < ss[2]}
<1>1. IsWellFoundedOn(R, Nat)
  BY NatLessThanWellFounded DEF OpToRel
<1>2. \A x, y \in Nat : <<y, x>> \in R <=> y < x
  OBVIOUS
<1> HIDE DEF R
<1>3. PICK x \in T : \A y \in T : ~(<<y, x>> \in R)
  <2>1. ASSUME NEW U, U \subseteq Nat, U # {}
        PROVE  \E x \in U : \A y \in U : ~(<<y, x>> \in R)
    BY <1>1, <2>1, WFMin, Zenon
  <2> QED BY <2>1
<1>4. ASSUME NEW y \in T PROVE x <= y
  <2>1. x \in Nat /\ y \in Nat
    OBVIOUS
  <2>2. ~(y < x)
    BY <1>2, <1>3, <2>1
  <2> QED BY <2>1, <2>2
<1> QED BY <1>4

LEMMA SetInduction ==
  ASSUME NEW S \in SUBSET Nat, 0 \in S, \A n \in S : n + 1 \in S
  PROVE  S = Nat
<1> DEFINE Missing == Nat \ S
<1> SUFFICES ASSUME Missing # {} PROVE FALSE
  OBVIOUS
<1>1. PICK x \in Missing : \A y \in Missing : x <= y
  <2>1. Missing \in SUBSET Nat
    OBVIOUS
  <2> HIDE DEF Missing
  <2> QED BY <2>1, LeastNumber
<1>2. x - 1 \in Nat /\ ~(x <= x - 1)
  <2>1. x \in Nat /\ x # 0
    BY <1>1
  <2> QED BY <2>1
<1>3. x - 1 \in S
  BY <1>1, <1>2
<1>4. (x - 1) + 1 \in S
  BY <1>3
<1> QED BY <1>1, <1>2, <1>4

(* What holds at 0 and is kept from one number to the next holds up to N:  *)
(* Q is where it holds.                                                    *)
LEMMA UpTo ==
  ASSUME NEW N \in Nat, NEW Q \in SUBSET Nat, 0 \in Q,
         \A n \in Q : n < N => n + 1 \in Q
  PROVE  N \in Q
<1> DEFINE S == Q \cup {n \in Nat : n > N}
<1>1. S \in SUBSET Nat /\ 0 \in S
  OBVIOUS
<1>2. ASSUME NEW n \in S PROVE n + 1 \in S
  <2>1. CASE n \in Q /\ n < N
    BY <2>1
  <2>2. CASE ~(n < N)
    <3>1. n \in Nat /\ n + 1 > N
      BY <2>2
    <3> QED BY <3>1
  <2> QED BY <2>1, <2>2
<1> HIDE DEF S
<1>3. S = Nat
  BY <1>1, <1>2, SetInduction
<1>4. ~(N > N)
  OBVIOUS
<1> QED BY <1>3, <1>4 DEF S

-----------------------------------------------------------------------------
(* Ints.                                                                   *)

LEMMA SmallRemainder ==
  ASSUME NEW m \in Nat \ {0}, NEW k \in 0 .. m - 1
  PROVE  k % m = k
OBVIOUS

LEMMA NoRemainder ==
  ASSUME NEW m \in Nat \ {0}
  PROVE  m % m = 0
OBVIOUS

LEMMA IntBounds ==
  \E half \in Nat \ {0} : Modulus = half + half /\ INT_MAX = half - 1 /\ INT_MIN = -half
<1>1. PICK m \in Nat \ {0} : m = Modulus /\ m % 2 = 0
  BY WidthAssumption DEF WidthAssumption
<1>2. m = 2 * (m \div 2)
  BY <1>1
<1>3. PICK h \in Nat : h = m \div 2
  OBVIOUS
<1>4. h # 0 /\ m = h + h
  BY <1>2, <1>3
<1> QED BY <1>1, <1>3, <1>4 DEF INT_MAX, INT_MIN

LEMMA WrapInRange ==
  ASSUME NEW n \in INT_MIN .. INT_MAX
  PROVE  Wrap(n) = n
<1>1. PICK h \in Nat \ {0} : Modulus = h + h /\ INT_MAX = h - 1 /\ INT_MIN = -h
  BY IntBounds
<1>2. n \in Int /\ n + h \in 0 .. (h + h) - 1
  BY <1>1
<1>3. (n + h) % (h + h) = n + h
  <2>1. h + h \in Nat \ {0}
    OBVIOUS
  <2> QED BY <1>2, <2>1, SmallRemainder
<1>4. n - INT_MIN = n + h
  BY <1>1, <1>2
<1>5. Wrap(n) = (n + h) + -h
  BY <1>1, <1>3, <1>4 DEF Wrap
<1> QED BY <1>2, <1>5

(* One more than the largest int is the smallest.                          *)
LEMMA WrapOfHalf ==
  Wrap(-INT_MIN) = INT_MIN
<1>1. PICK h \in Nat \ {0} : Modulus = h + h /\ INT_MAX = h - 1 /\ INT_MIN = -h
  BY IntBounds
<1>2. -INT_MIN = h /\ -INT_MIN - INT_MIN = h + h
  BY <1>1
<1>3. (h + h) % (h + h) = 0
  <2>1. h + h \in Nat \ {0}
    OBVIOUS
  <2> QED BY <2>1, NoRemainder
<1> QED BY <1>1, <1>2, <1>3 DEF Wrap

(* The bits of a negative int's opposite, without a sign, are its size.    *)
LEMMA UnsignedOpposite ==
  ASSUME NEW n \in INT_MIN .. INT_MAX, n < 0
  PROVE  Unsigned(Wrap(-n)) = -n
<1>1. PICK h \in Nat \ {0} : Modulus = h + h /\ INT_MAX = h - 1 /\ INT_MIN = -h
  BY IntBounds
<1>2. h + h \in Nat \ {0}
  OBVIOUS
<1>3. CASE n = INT_MIN
  <2>1. Wrap(-n) = -h
    BY <1>1, <1>3, WrapOfHalf
  <2>2. (-h) % (h + h) = h
    OBVIOUS
  <2> QED BY <1>1, <1>3, <2>1, <2>2 DEF Unsigned
<1>4. CASE n # INT_MIN
  <2>1. n \in Int /\ -n \in INT_MIN .. INT_MAX /\ -n \in 0 .. (h + h) - 1
    BY <1>1, <1>4
  <2>2. Wrap(-n) = -n
    BY <2>1, WrapInRange
  <2>3. (-n) % (h + h) = -n
    BY <1>2, <2>1, SmallRemainder
  <2> QED BY <1>1, <2>2, <2>3 DEF Unsigned
<1> QED BY <1>3, <1>4

-----------------------------------------------------------------------------
(* Strings of digits.                                                      *)

Figure == Range(Figures)

LEMMA FiguresAre ==
  /\ Figures \in Seq(Figure) /\ Len(Figures) = 10
  /\ Figure = {"0", "1", "2", "3", "4", "5", "6", "7", "8", "9"}
  /\ \A c, d \in 0 .. 9 : Figures[c + 1] = Figures[d + 1] => c = d
  /\ \A c \in Figure : \E d \in 0 .. 9 : Figures[d + 1] = c
<1>1. DOMAIN Figures = 1 .. 10
  BY DEF Figures
<1>2. 1 .. 10 = {1, 2, 3, 4, 5, 6, 7, 8, 9, 10}
  OBVIOUS
<1>3. Figure = {"0", "1", "2", "3", "4", "5", "6", "7", "8", "9"}
  BY <1>1, <1>2 DEF Figure, Figures, Range
<1>4. Figures \in Seq(Figure) /\ Len(Figures) = 10
  BY <1>3 DEF Figures
<1>5. ASSUME NEW c \in 0 .. 9, NEW d \in 0 .. 9, Figures[c + 1] = Figures[d + 1]
      PROVE  c = d
  BY <1>5 DEF Figures
<1>6. ASSUME NEW c \in Figure PROVE \E d \in 0 .. 9 : Figures[d + 1] = c
  <2>1. PICK i \in 1 .. 10 : Figures[i] = c
    BY <1>1 DEF Figure, Range
  <2>2. i - 1 \in 0 .. 9 /\ (i - 1) + 1 = i
    OBVIOUS
  <2> QED BY <2>1, <2>2
<1> QED BY <1>3, <1>4, <1>5, <1>6

LEMMA DigitOfFigure ==
  ASSUME NEW d \in 0 .. 9
  PROVE  Figures[d + 1] \in Figure /\ DigitOf(Figures[d + 1]) = d
<1>1. Figures[d + 1] \in Figure
  <2>1. d + 1 \in 1 .. 10
    OBVIOUS
  <2>2. Figures \in Seq(Figure) /\ Len(Figures) = 10
    BY FiguresAre
  <2> QED BY <2>1, <2>2, ElementOfSeq
<1> QED BY <1>1, FiguresAre DEF DigitOf

LEMMA DigitRange ==
  ASSUME NEW c \in Figure
  PROVE  DigitOf(c) \in 0 .. 9 /\ Figures[DigitOf(c) + 1] = c
BY FiguresAre DEF DigitOf

LEMMA FiguresAreDigits ==
  ASSUME NEW c
  PROVE  IsDigit(c) <=> c \in Figure
<1>1. DOMAIN Figures = 1 .. 10 /\ Len(Figures) = 10
  BY DEF Figures
<1> QED BY <1>1 DEF IsDigit, Contains, Figure, Range

(* Integers may be defined by recursion up to N.                           *)
LEMMA RecursionExists ==
  ASSUME NEW N \in Nat, NEW step \in [(1 .. N) \X Int -> Int]
  PROVE  \E f \in [0 .. N -> Int] :
           f[0] = 0 /\ \A i \in 1 .. N : f[i] = step[<<i, f[i - 1]>>]
<1> DEFINE Q == {n \in Nat : n <= N => \E f \in [0 .. n -> Int] :
                   f[0] = 0 /\ \A i \in 1 .. n : f[i] = step[<<i, f[i - 1]>>]}
<1>1. 0 \in Q
  <2>1. PICK f : f = [i \in 0 .. 0 |-> 0]
    OBVIOUS
  <2>2. f \in [0 .. 0 -> Int] /\ f[0] = 0 /\ \A i \in 1 .. 0 : FALSE
    BY <2>1
  <2> QED BY <2>2
<1>2. ASSUME NEW n \in Q PROVE n + 1 \in Q
  <2>1. n \in Nat
    OBVIOUS
  <2>2. ASSUME n + 1 <= N
        PROVE  \E g \in [0 .. n + 1 -> Int] :
                 g[0] = 0 /\ \A i \in 1 .. n + 1 : g[i] = step[<<i, g[i - 1]>>]
    <3>1. PICK f \in [0 .. n -> Int] :
            f[0] = 0 /\ \A i \in 1 .. n : f[i] = step[<<i, f[i - 1]>>]
      BY <2>1, <2>2
    <3>2. PICK last : last = step[<<n + 1, f[n]>>]
      OBVIOUS
    <3>3. last \in Int
      <4>1. n + 1 \in 1 .. N /\ f[n] \in Int
        BY <2>1, <2>2
      <4> QED BY <3>2, <4>1
    <3>4. PICK g : g = [i \in 0 .. n + 1 |-> IF i = n + 1 THEN last ELSE f[i]]
      OBVIOUS
    <3>5. /\ g \in [0 .. n + 1 -> Int] /\ g[n + 1] = last
          /\ \A i \in 0 .. n : g[i] = f[i]
      BY <2>1, <3>3, <3>4
    <3>6. ASSUME NEW i \in 1 .. n + 1 PROVE g[i] = step[<<i, g[i - 1]>>]
      <4>1. CASE i \in 1 .. n
        <5>1. i \in 0 .. n /\ i - 1 \in 0 .. n
          BY <4>1
        <5> QED BY <3>1, <3>5, <4>1, <5>1
      <4>2. CASE i = n + 1
        <5>1. i - 1 = n /\ n \in 0 .. n
          BY <2>1, <4>2
        <5> QED BY <3>2, <3>5, <4>2, <5>1
      <4> QED BY <2>1, <4>1, <4>2
    <3>7. g[0] = 0
      BY <2>1, <3>1, <3>5
    <3> QED BY <3>5, <3>6, <3>7
  <2>3. n + 1 \in Nat
    BY <2>1
  <2> QED BY <2>2, <2>3
<1>3. Q \in SUBSET Nat
  OBVIOUS
<1>4. N \in Q
  <2> HIDE DEF Q
  <2> QED BY <1>1, <1>2, <1>3, SetInduction
<1> QED BY <1>4

(* What the digits denote, one after the other.                            *)
LEMMA ValueIs ==
  ASSUME NEW s \in Seq(Figure), NEW N \in Nat, N = Len(s)
  PROVE  \E f \in [0 .. N -> Nat] :
           /\ f[0] = 0 /\ \A i \in 1 .. N : f[i] = f[i - 1] * 10 + DigitOf(s[i])
           /\ Value(s) = f[N]
<1> DEFINE Rec(f) == f = [i \in 0 .. Len(s) |->
                            IF i = 0 THEN 0 ELSE f[i - 1] * 10 + DigitOf(s[i])]
<1>1. \A i \in 1 .. N : DigitOf(s[i]) \in 0 .. 9
  BY DigitRange
<1>2. PICK step : step = [p \in (1 .. N) \X Int |-> p[2] * 10 + DigitOf(s[p[1]])]
  OBVIOUS
<1>3. /\ step \in [(1 .. N) \X Int -> Int]
      /\ \A i \in 1 .. N, x \in Int : step[<<i, x>>] = x * 10 + DigitOf(s[i])
  <2>1. ASSUME NEW i \in 1 .. N, NEW x \in Int
        PROVE  step[<<i, x>>] = x * 10 + DigitOf(s[i]) /\ step[<<i, x>>] \in Int
    <3>1. x * 10 + DigitOf(s[i]) \in Int
      BY <1>1
    <3>2. step[<<i, x>>] = x * 10 + DigitOf(s[i])
      BY <1>2
    <3> QED BY <3>1, <3>2
  <2>2. \A p \in (1 .. N) \X Int : step[p] \in Int
    <3> TAKE p \in (1 .. N) \X Int
    <3>1. PICK i \in 1 .. N, x \in Int : p = <<i, x>>
      OBVIOUS
    <3> QED BY <2>1, <3>1
  <2>3. step = [p \in (1 .. N) \X Int |-> step[p]]
    BY <1>2
  <2> QED BY <2>1, <2>2, <2>3
<1>4. PICK f \in [0 .. N -> Int] :
        f[0] = 0 /\ \A i \in 1 .. N : f[i] = step[<<i, f[i - 1]>>]
  BY <1>3, RecursionExists
<1>5. \A i \in 1 .. N : f[i] = f[i - 1] * 10 + DigitOf(s[i])
  <2> TAKE i \in 1 .. N
  <2>1. f[i - 1] \in Int
    OBVIOUS
  <2> QED BY <1>3, <1>4, <2>1
<1>6. Rec(f)
  <2>1. \A i \in 0 .. N : i = 0 \/ i \in 1 .. N
    OBVIOUS
  <2>2. \A i \in 0 .. N : f[i] = IF i = 0 THEN 0 ELSE f[i - 1] * 10 + DigitOf(s[i])
    BY <1>4, <1>5, <2>1
  <2> QED BY <2>2
<1>7. PICK g : g = CHOOSE h : Rec(h)
  OBVIOUS
<1>8. Rec(g) /\ Value(s) = g[N]
  BY <1>6, <1>7 DEF Value
<1>9. ASSUME NEW i \in 0 .. N, g[i] = f[i], i < N PROVE g[i + 1] = f[i + 1]
  <2>1. i + 1 \in 1 .. N /\ (i + 1) - 1 = i
    BY <1>9
  <2>2. g[i + 1] = g[i] * 10 + DigitOf(s[i + 1])
    BY <1>8, <2>1
  <2> QED BY <1>5, <1>9, <2>1, <2>2
<1> DEFINE Q == {i \in 0 .. N : g[i] = f[i]}
<1>10. Q \in SUBSET Nat /\ 0 \in Q
  BY <1>4, <1>8
<1>11. \A i \in Q : i < N => i + 1 \in Q
  BY <1>9
<1>12. N \in Q
  <2> HIDE DEF Q
  <2> QED BY <1>10, <1>11, UpTo
<1> DEFINE P == {i \in 0 .. N : f[i] \in Nat}
<1>13. ASSUME NEW i \in P, i < N PROVE i + 1 \in P
  <2>1. i + 1 \in 1 .. N /\ (i + 1) - 1 = i /\ f[i] \in Nat
    BY <1>13
  <2>2. f[i + 1] = f[i] * 10 + DigitOf(s[i + 1])
    BY <1>5, <2>1
  <2>3. f[i] * 10 + DigitOf(s[i + 1]) \in Nat
    <3>1. PICK x \in Nat, d \in 0 .. 9 : x = f[i] /\ d = DigitOf(s[i + 1])
      BY <1>1, <2>1
    <3> QED BY <3>1
  <2> QED BY <2>1, <2>2, <2>3
<1>14. ASSUME NEW n \in 0 .. N PROVE f[n] \in Nat
  <2>1. P \in SUBSET Nat /\ 0 \in P /\ n \in Nat
    BY <1>4
  <2>2. \A i \in P : i < n => i + 1 \in P
    BY <1>13
  <2>3. n \in P
    <3> HIDE DEF P
    <3> QED BY <2>1, <2>2, UpTo
  <2> QED BY <2>3
<1>15. f \in [0 .. N -> Nat]
  BY <1>4, <1>14
<1> QED BY <1>4, <1>5, <1>8, <1>12, <1>15

LEMMA AccumulateIs ==
  ASSUME NEW s \in Seq(Figure), NEW N \in Nat, N = Len(s)
  PROVE  \E f \in [0 .. N -> Int] :
           /\ f[0] = 0 /\ \A i \in 1 .. N : f[i] = Wrap(f[i - 1] * 10 + DigitOf(s[i]))
           /\ Accumulate(s) = f[N]
<1> DEFINE Rec(f) == f = [i \in 0 .. Len(s) |->
                            IF i = 0 THEN 0 ELSE Wrap(f[i - 1] * 10 + DigitOf(s[i]))]
<1>1. \A i \in 1 .. N : DigitOf(s[i]) \in 0 .. 9
  BY DigitRange
<1>2. \A n \in Int : Wrap(n) \in Int
  <2>1. PICK h \in Nat \ {0} : Modulus = h + h /\ INT_MIN = -h
    BY IntBounds
  <2>2. \A n \in Int : (n - INT_MIN) % Modulus \in Int
    BY <2>1
  <2> QED BY <2>1, <2>2 DEF Wrap
<1>3. PICK step : step = [p \in (1 .. N) \X Int |-> Wrap(p[2] * 10 + DigitOf(s[p[1]]))]
  OBVIOUS
<1>4. /\ step \in [(1 .. N) \X Int -> Int]
      /\ \A i \in 1 .. N, x \in Int : step[<<i, x>>] = Wrap(x * 10 + DigitOf(s[i]))
  <2>1. ASSUME NEW i \in 1 .. N, NEW x \in Int
        PROVE  step[<<i, x>>] = Wrap(x * 10 + DigitOf(s[i])) /\ step[<<i, x>>] \in Int
    <3>1. x * 10 + DigitOf(s[i]) \in Int
      BY <1>1
    <3>2. step[<<i, x>>] = Wrap(x * 10 + DigitOf(s[i]))
      BY <1>3
    <3> QED BY <1>2, <3>1, <3>2
  <2>2. \A p \in (1 .. N) \X Int : step[p] \in Int
    <3> TAKE p \in (1 .. N) \X Int
    <3>1. PICK i \in 1 .. N, x \in Int : p = <<i, x>>
      OBVIOUS
    <3> QED BY <2>1, <3>1
  <2>3. step = [p \in (1 .. N) \X Int |-> step[p]]
    BY <1>3
  <2> QED BY <2>1, <2>2, <2>3
<1>5. PICK f \in [0 .. N -> Int] :
        f[0] = 0 /\ \A i \in 1 .. N : f[i] = step[<<i, f[i - 1]>>]
  BY <1>4, RecursionExists
<1>6. \A i \in 1 .. N : f[i] = Wrap(f[i - 1] * 10 + DigitOf(s[i]))
  <2> TAKE i \in 1 .. N
  <2>1. f[i - 1] \in Int
    OBVIOUS
  <2> QED BY <1>4, <1>5, <2>1
<1>7. Rec(f)
  <2>1. \A i \in 0 .. N : i = 0 \/ i \in 1 .. N
    OBVIOUS
  <2>2. \A i \in 0 .. N : f[i] = IF i = 0 THEN 0 ELSE Wrap(f[i - 1] * 10 + DigitOf(s[i]))
    BY <1>5, <1>6, <2>1
  <2> QED BY <2>2
<1>8. PICK g : g = CHOOSE h : Rec(h)
  OBVIOUS
<1>9. Rec(g) /\ Accumulate(s) = g[N]
  BY <1>7, <1>8 DEF Accumulate
<1>10. ASSUME NEW i \in 0 .. N, g[i] = f[i], i < N PROVE g[i + 1] = f[i + 1]
  <2>1. i + 1 \in 1 .. N /\ (i + 1) - 1 = i
    BY <1>10
  <2>2. g[i + 1] = Wrap(g[i] * 10 + DigitOf(s[i + 1]))
    BY <1>9, <2>1
  <2> QED BY <1>6, <1>10, <2>1, <2>2
<1> DEFINE Q == {i \in 0 .. N : g[i] = f[i]}
<1>11. Q \in SUBSET Nat /\ 0 \in Q
  BY <1>5, <1>9
<1>12. \A i \in Q : i < N => i + 1 \in Q
  BY <1>10
<1>13. N \in Q
  <2> HIDE DEF Q
  <2> QED BY <1>11, <1>12, UpTo
<1> QED BY <1>5, <1>6, <1>9, <1>13

LEMMA ValueOfEmpty == Value(<<>>) = 0
<1>1. PICK e \in Seq(Figure), N \in Nat : e = <<>> /\ N = Len(e) /\ N = 0
  <2>1. <<>> \in Seq(Figure) /\ Len(<<>>) = 0 /\ 0 \in Nat
    OBVIOUS
  <2> QED BY <2>1
<1>2. PICK f \in [0 .. N -> Nat] : f[0] = 0 /\ Value(e) = f[N]
  BY <1>1, ValueIs
<1> QED BY <1>1, <1>2

LEMMA ValueOfAppended ==
  ASSUME NEW s \in Seq(Figure), NEW c \in Figure
  PROVE  Value(Append(s, c)) = Value(s) * 10 + DigitOf(c)
<1>1. PICK N \in Nat : N = Len(s)
  OBVIOUS
<1>2. PICK t \in Seq(Figure) : t = Append(s, c)
  BY AppendProperties
<1>3. Len(t) = N + 1 /\ t[N + 1] = c /\ \A i \in 1 .. N : t[i] = s[i]
  BY <1>1, <1>2
<1>4. PICK f \in [0 .. N -> Nat] :
        /\ f[0] = 0 /\ \A i \in 1 .. N : f[i] = f[i - 1] * 10 + DigitOf(s[i])
        /\ Value(s) = f[N]
  BY <1>1, ValueIs
<1>5. PICK g \in [0 .. N + 1 -> Nat] :
        /\ g[0] = 0 /\ \A i \in 1 .. N + 1 : g[i] = g[i - 1] * 10 + DigitOf(t[i])
        /\ Value(t) = g[N + 1]
  <2>1. N + 1 \in Nat
    OBVIOUS
  <2> QED BY <1>3, <2>1, ValueIs
<1> DEFINE Q == {i \in 0 .. N : g[i] = f[i]}
<1>6. ASSUME NEW i \in Q, i < N PROVE i + 1 \in Q
  <2>1. i + 1 \in 1 .. N /\ i + 1 \in 1 .. N + 1 /\ (i + 1) - 1 = i /\ g[i] = f[i]
    BY <1>6
  <2>2. g[i + 1] = g[i] * 10 + DigitOf(t[i + 1])
    BY <1>5, <2>1
  <2>3. f[i + 1] = f[i] * 10 + DigitOf(s[i + 1])
    BY <1>4, <2>1
  <2> QED BY <1>3, <2>1, <2>2, <2>3
<1>7. Q \in SUBSET Nat /\ 0 \in Q
  BY <1>4, <1>5
<1>8. N \in Q
  <2> HIDE DEF Q
  <2> QED BY <1>6, <1>7, UpTo
<1>9. N + 1 \in 1 .. N + 1 /\ (N + 1) - 1 = N
  OBVIOUS
<1>10. g[N + 1] = g[N] * 10 + DigitOf(t[N + 1])
  BY <1>5, <1>9
<1> QED BY <1>2, <1>3, <1>4, <1>5, <1>8, <1>10

LEMMA ValueIsNatural ==
  ASSUME NEW s \in Seq(Figure)
  PROVE  Value(s) \in Nat
<1>1. PICK N \in Nat : N = Len(s)
  OBVIOUS
<1>2. PICK f \in [0 .. N -> Nat] : Value(s) = f[N]
  BY <1>1, ValueIs
<1> QED BY <1>2

(* Read digit by digit, a number is an int until it is none any more; one  *)
(* beyond the largest int is read as the smallest.                         *)
LEMMA AccumulateInRange ==
  ASSUME NEW s \in Seq(Figure), Value(s) <= -INT_MIN
  PROVE  Accumulate(s) = IF Value(s) = -INT_MIN THEN INT_MIN ELSE Value(s)
<1>1. PICK h \in Nat \ {0} : Modulus = h + h /\ INT_MAX = h - 1 /\ INT_MIN = -h
  BY IntBounds
<1>2. PICK N \in Nat : N = Len(s)
  OBVIOUS
<1>3. PICK f \in [0 .. N -> Nat] :
        /\ f[0] = 0 /\ \A i \in 1 .. N : f[i] = f[i - 1] * 10 + DigitOf(s[i])
        /\ Value(s) = f[N]
  BY <1>2, ValueIs
<1>4. PICK g \in [0 .. N -> Int] :
        /\ g[0] = 0 /\ \A i \in 1 .. N : g[i] = Wrap(g[i - 1] * 10 + DigitOf(s[i]))
        /\ Accumulate(s) = g[N]
  BY <1>2, AccumulateIs
<1>5. \A n \in Nat : n < h => Wrap(n) = n
  <2> TAKE n \in Nat
  <2> HAVE n < h
  <2>1. n \in INT_MIN .. INT_MAX
    BY <1>1
  <2> QED BY <2>1, WrapInRange
<1>6. Wrap(h) = -h
  <2>1. -INT_MIN = h
    BY <1>1
  <2> QED BY <1>1, <2>1, WrapOfHalf
<1> DEFINE Q == {i \in 0 .. N : f[i] <= h => g[i] = IF f[i] = h THEN -h ELSE f[i]}
<1>7. ASSUME NEW i \in Q, i < N PROVE i + 1 \in Q
  <2>1. i + 1 \in 1 .. N /\ i \in 0 .. N /\ (i + 1) - 1 = i
    BY <1>7
  <2>2. PICK x \in Nat, y \in Nat, d \in 0 .. 9 :
          x = f[i] /\ y = f[i + 1] /\ d = DigitOf(s[i + 1])
    <3>1. f[i] \in Nat /\ f[i + 1] \in Nat
      BY <2>1
    <3>2. DigitOf(s[i + 1]) \in 0 .. 9
      BY <1>2, <2>1, DigitRange
    <3> QED BY <3>1, <3>2
  <2>3. y = x * 10 + d
    BY <1>3, <2>1, <2>2
  <2>4. g[i + 1] = Wrap(g[i] * 10 + d)
    BY <1>4, <2>1, <2>2
  <2>5. x <= h => g[i] = IF x = h THEN -h ELSE x
    BY <2>2
  <2>6. ASSUME y <= h PROVE g[i + 1] = IF y = h THEN -h ELSE y
    <3>1. x < h
      BY <2>3, <2>6
    <3>2. g[i] = x
      BY <2>5, <3>1
    <3>3. g[i + 1] = Wrap(y)
      BY <2>3, <2>4, <3>2
    <3> QED BY <1>5, <1>6, <2>6, <3>3
  <2> QED BY <2>1, <2>2, <2>6
<1>8. Q \in SUBSET Nat /\ 0 \in Q
  BY <1>3, <1>4
<1>9. N \in Q
  <2> HIDE DEF Q
  <2> QED BY <1>7, <1>8, UpTo
<1>10. -INT_MIN = h
  BY <1>1
<1> QED BY <1>1, <1>3, <1>4, <1>9, <1>10

-----------------------------------------------------------------------------
(* Decimal notation.                                                       *)

LEMMA CourseOfValues ==
  ASSUME NEW Q \in SUBSET Nat, \A n \in Nat : (\A m \in 0 .. n - 1 : m \in Q) => n \in Q
  PROVE  Q = Nat
<1> DEFINE Missing == Nat \ Q
<1> SUFFICES ASSUME Missing # {} PROVE FALSE
  OBVIOUS
<1>1. PICK x \in Missing : \A y \in Missing : x <= y
  <2>1. Missing \in SUBSET Nat
    OBVIOUS
  <2> HIDE DEF Missing
  <2> QED BY <2>1, LeastNumber
<1>2. \A m \in 0 .. x - 1 : m \in Q
  <2> TAKE m \in 0 .. x - 1
  <2>1. x \in Nat /\ m \in Nat /\ ~(x <= m)
    BY <1>1
  <2> QED BY <1>1, <2>1
<1> QED BY <1>1, <1>2

LEMMA DivideByTen ==
  ASSUME NEW n \in Nat, n >= 10
  PROVE  /\ n \div 10 \in 1 .. n - 1 /\ n % 10 \in 0 .. 9
         /\ n = (n \div 10) * 10 + (n % 10)
<1>1. n % 10 \in 0 .. 9
  OBVIOUS
<1>2. n \div 10 \in Nat
  OBVIOUS
<1>3. n = 10 * (n \div 10) + (n % 10)
  OBVIOUS
<1>4. PICK q \in Nat, d \in 0 .. 9 : q = n \div 10 /\ d = n % 10 /\ n = 10 * q + d
  BY <1>1, <1>2, <1>3
<1>5. q \in 1 .. n - 1 /\ n = q * 10 + d
  BY <1>4
<1> QED BY <1>4, <1>5

UtoaStep(f, n) ==
  IF n < 10 THEN <<Figures[n + 1]>> ELSE Append(f[n \div 10], Figures[(n % 10) + 1])

LEMMA StepAsksSmaller ==
  ASSUME NEW n \in Nat, NEW f, NEW g, \A m \in 0 .. n - 1 : f[m] = g[m]
  PROVE  UtoaStep(f, n) = UtoaStep(g, n)
<1>1. CASE n < 10
  BY <1>1 DEF UtoaStep
<1>2. CASE ~(n < 10)
  <2>1. n \div 10 \in 0 .. n - 1
    BY <1>2, DivideByTen
  <2> QED BY <1>2, <2>1 DEF UtoaStep
<1> QED BY <1>1, <1>2

UtoaUpTo(f, k) == f = [n \in 0 .. k |-> UtoaStep(f, n)]

LEMMA UtoaUpToExists ==
  ASSUME NEW k \in Nat
  PROVE  \E f : UtoaUpTo(f, k)
<1> DEFINE Q == {n \in Nat : \E f : UtoaUpTo(f, n)}
<1>1. ASSUME NEW n \in Nat, NEW f, \A m \in 0 .. n - 1 : f[m] = UtoaStep(f, m)
      PROVE  \E g : UtoaUpTo(g, n)
  <2>1. PICK g : g = [m \in 0 .. n |-> IF m = n THEN UtoaStep(f, n) ELSE f[m]]
    OBVIOUS
  <2>2. /\ g = [m \in 0 .. n |-> g[m]]
        /\ g[n] = UtoaStep(f, n) /\ \A m \in 0 .. n - 1 : f[m] = g[m]
    BY <2>1
  <2>3. ASSUME NEW m \in 0 .. n PROVE g[m] = UtoaStep(g, m)
    <3>1. m \in Nat /\ \A j \in 0 .. m - 1 : j \in 0 .. n - 1
      OBVIOUS
    <3>2. \A j \in 0 .. m - 1 : f[j] = g[j]
      BY <2>2, <3>1
    <3>3. UtoaStep(f, m) = UtoaStep(g, m)
      BY <3>1, <3>2, StepAsksSmaller
    <3>4. m = n \/ m \in 0 .. n - 1
      OBVIOUS
    <3> QED BY <1>1, <2>2, <3>3, <3>4
  <2> QED BY <2>2, <2>3 DEF UtoaUpTo
<1>2. 0 \in Q
  <2>1. PICK f : f = [m \in {} |-> 0]
    OBVIOUS
  <2>2. \A m \in 0 .. 0 - 1 : f[m] = UtoaStep(f, m)
    OBVIOUS
  <2> QED BY <1>1, <2>2
<1>3. ASSUME NEW n \in Q PROVE n + 1 \in Q
  <2>1. PICK f : UtoaUpTo(f, n)
    OBVIOUS
  <2>2. n + 1 \in Nat /\ \A m \in 0 .. (n + 1) - 1 : m \in 0 .. n
    OBVIOUS
  <2>3. \A m \in 0 .. (n + 1) - 1 : f[m] = UtoaStep(f, m)
    BY <2>1, <2>2 DEF UtoaUpTo
  <2> QED BY <1>1, <2>2, <2>3
<1>4. Q \in SUBSET Nat
  OBVIOUS
<1>5. k \in Q
  <2> HIDE DEF Q
  <2> QED BY <1>2, <1>3, <1>4, SetInduction
<1> QED BY <1>5

LEMMA UtoaUpToAgree ==
  ASSUME NEW k \in Nat, NEW l \in Nat, NEW f, NEW g, UtoaUpTo(f, k), UtoaUpTo(g, l),
         NEW n \in Nat, n <= k, n <= l
  PROVE  f[n] = g[n]
<1> DEFINE Q == {m \in Nat : m <= k /\ m <= l => f[m] = g[m]}
<1>1. ASSUME NEW m \in Nat, \A j \in 0 .. m - 1 : j \in Q PROVE m \in Q
  <2>1. ASSUME m <= k, m <= l PROVE f[m] = g[m]
    <3>1. \A j \in 0 .. m - 1 : f[j] = g[j]
      BY <1>1, <2>1
    <3>2. UtoaStep(f, m) = UtoaStep(g, m)
      BY <3>1, StepAsksSmaller
    <3>3. m \in 0 .. k /\ m \in 0 .. l
      BY <2>1
    <3> QED BY <3>2, <3>3 DEF UtoaUpTo
  <2> QED BY <2>1
<1>2. Q \in SUBSET Nat
  OBVIOUS
<1>3. n \in Q
  <2> HIDE DEF Q
  <2> QED BY <1>1, <1>2, CourseOfValues
<1> QED BY <1>3

LEMMA UtoaUnfolds ==
  ASSUME NEW n \in Nat
  PROVE  utoa[n] = UtoaStep(utoa, n)
<1> DEFINE IsUtoa(f) == f = [m \in Nat |-> UtoaStep(f, m)]
<1>1. PICK p : p = [k \in Nat |-> CHOOSE f : UtoaUpTo(f, k)]
  OBVIOUS
<1>2. \A k \in Nat : UtoaUpTo(p[k], k)
  BY <1>1, UtoaUpToExists
<1>3. PICK g : g = [k \in Nat |-> p[k][k]]
  OBVIOUS
<1>4. ASSUME NEW k \in Nat PROVE g[k] = UtoaStep(g, k)
  <2>1. p[k][k] = UtoaStep(p[k], k)
    <3>1. UtoaUpTo(p[k], k) /\ k \in 0 .. k
      BY <1>2
    <3> QED BY <3>1 DEF UtoaUpTo
  <2>2. ASSUME NEW m \in 0 .. k - 1 PROVE p[k][m] = g[m]
    <3>1. m \in Nat /\ m <= k /\ m <= m
      OBVIOUS
    <3>2. p[k][m] = p[m][m]
      BY <1>2, <3>1, UtoaUpToAgree
    <3> QED BY <1>3, <3>1, <3>2
  <2>3. UtoaStep(p[k], k) = UtoaStep(g, k)
    BY <2>2, StepAsksSmaller
  <2> QED BY <1>3, <2>1, <2>3
<1>5. IsUtoa(g)
  <2>1. g = [m \in Nat |-> g[m]]
    BY <1>3
  <2> QED BY <1>4, <2>1
<1>6. utoa = CHOOSE f : IsUtoa(f)
  BY DEF utoa, UtoaStep
<1>7. IsUtoa(utoa)
  <2> HIDE DEF IsUtoa
  <2> QED BY <1>5, <1>6
<1> QED BY <1>7

(* s is the decimal notation of n.                                         *)
IsNumeral(s, n) == /\ s \in Seq(Figure) /\ Len(s) >= 1
                   /\ Value(s) = n
                   /\ s[1] = "0" => n = 0 /\ Len(s) = 1
                   /\ n < 10 <=> Len(s) = 1
                   /\ n < 100 => Len(s) <= 2

LEMMA UtoaIsNumeral ==
  ASSUME NEW n \in Nat
  PROVE  IsNumeral(utoa[n], n)
<1> DEFINE Q == {m \in Nat : IsNumeral(utoa[m], m)}
<1>1. ASSUME NEW m \in Nat, \A j \in 0 .. m - 1 : j \in Q PROVE IsNumeral(utoa[m], m)
  <2>1. CASE m < 10
    <3>1. PICK c \in Figure : c = Figures[m + 1] /\ DigitOf(c) = m
      BY <2>1, DigitOfFigure
    <3>2. PICK s \in Seq(Figure) : s = <<c>> /\ s = Append(<<>>, c) /\ Len(s) = 1 /\ s[1] = c
      <4>1. <<c>> \in Seq(Figure) /\ Len(<<c>>) = 1 /\ <<c>>[1] = c
        OBVIOUS
      <4>2. <<c>> = Append(<<>>, c)
        OBVIOUS
      <4> QED BY <4>1, <4>2
    <3>3. utoa[m] = s
      BY <2>1, <3>1, <3>2, UtoaUnfolds DEF UtoaStep
    <3>4. Value(s) = m
      <4>1. <<>> \in Seq(Figure)
        OBVIOUS
      <4>2. Value(s) = Value(<<>>) * 10 + DigitOf(c)
        BY <3>2, <4>1, ValueOfAppended
      <4> QED BY <3>1, <4>2, ValueOfEmpty
    <3>5. s[1] = "0" => m = 0
      <4>1. "0" = Figures[0 + 1]
        BY DEF Figures
      <4>2. 0 \in 0 .. 9 /\ m \in 0 .. 9
        BY <2>1
      <4>3. s[1] = "0" => Figures[m + 1] = Figures[0 + 1]
        BY <3>1, <3>2, <4>1
      <4> QED BY <4>2, <4>3, FiguresAre
    <3> QED BY <2>1, <3>2, <3>3, <3>4, <3>5 DEF IsNumeral
  <2>2. CASE ~(m < 10)
    <3>1. PICK q \in 1 .. m - 1, d \in 0 .. 9 :
            q = m \div 10 /\ d = m % 10 /\ m = q * 10 + d
      BY <2>2, DivideByTen
    <3>2. IsNumeral(utoa[q], q)
      BY <1>1, <3>1
    <3>3. PICK t \in Seq(Figure), k \in Nat :
            /\ t = utoa[q] /\ k = Len(t) /\ k >= 1 /\ Value(t) = q /\ t[1] # "0"
            /\ m < 100 => k = 1
      <4>1. utoa[q] \in Seq(Figure) /\ Len(utoa[q]) \in Nat
        BY <3>2 DEF IsNumeral
      <4>2. m < 100 => q < 10
        BY <3>1
      <4>3. utoa[q] \in Seq(Figure) /\ Len(utoa[q]) >= 1 /\ Value(utoa[q]) = q
        BY <3>2 DEF IsNumeral
      <4>4. utoa[q][1] # "0"
        BY <3>1, <3>2 DEF IsNumeral
      <4>5. m < 100 => Len(utoa[q]) = 1
        BY <3>2, <4>2 DEF IsNumeral
      <4>6. PICK k \in Nat : k = Len(utoa[q])
        BY <4>1
      <4> QED BY <4>3, <4>4, <4>5, <4>6
    <3>4. PICK c \in Figure : c = Figures[d + 1] /\ DigitOf(c) = d
      BY DigitOfFigure
    <3>5. PICK s \in Seq(Figure) : s = Append(t, c) /\ Len(s) = k + 1 /\ s[1] = t[1]
      <4>1. /\ Append(t, c) \in Seq(Figure) /\ Len(Append(t, c)) = k + 1
            /\ \A i \in 1 .. k : Append(t, c)[i] = t[i]
        BY <3>3, AppendProperties
      <4>2. 1 \in 1 .. k
        BY <3>3
      <4> QED BY <4>1, <4>2
    <3>6. utoa[m] = s
      BY <2>2, <3>1, <3>3, <3>4, <3>5, UtoaUnfolds DEF UtoaStep
    <3>7. Value(s) = m
      BY <3>1, <3>3, <3>4, <3>5, ValueOfAppended
    <3>8. Len(s) >= 1 /\ s[1] # "0" /\ Len(s) # 1 /\ (m < 100 => Len(s) <= 2)
      BY <3>3, <3>5
    <3>9. IsNumeral(s, m)
      BY <2>2, <3>7, <3>8 DEF IsNumeral
    <3> QED BY <3>6, <3>9
  <2> QED BY <2>1, <2>2
<1>2. Q \in SUBSET Nat
  OBVIOUS
<1>3. \A m \in Nat : (\A j \in 0 .. m - 1 : j \in Q) => m \in Q
  BY <1>1
<1>4. n \in Q
  <2> HIDE DEF Q
  <2> QED BY <1>2, <1>3, CourseOfValues
<1> QED BY <1>4

(* A sequence with an element put before it.                               *)
LEMMA HeadTailOfCons ==
  ASSUME NEW S, NEW s \in Seq(S), NEW c \in S
  PROVE  Head(<<c>> \o s) = c /\ Tail(<<c>> \o s) = s
<1>1. PICK n \in Nat : n = Len(s)
  OBVIOUS
<1>2. PICK t \in Seq(S) : t = <<c>> \o s
  <2>1. <<c>> \o s \in Seq(S)
    OBVIOUS
  <2> QED BY <2>1
<1>3. Len(t) = n + 1 /\ t[1] = c /\ \A i \in 1 .. n : t[i + 1] = s[i]
  BY <1>1, <1>2
<1>4. t # <<>> /\ Head(t) = c
  BY <1>3
<1>5. Tail(t) \in Seq(S) /\ Len(Tail(t)) = n /\ \A i \in 1 .. n : Tail(t)[i] = t[i + 1]
  BY <1>3, <1>4
<1>6. Tail(t) = s
  BY <1>1, <1>3, <1>5, SeqEqual
<1> QED BY <1>2, <1>4, <1>6

(* itoa writes every int, the smallest included, which has no opposite.    *)
LEMMA ItoaDenotes ==
  ASSUME NEW n \in INT_MIN .. INT_MAX
  PROVE  Denotes(itoa(n), n)
<1>1. n \in Int
  <2>1. INT_MIN \in Int /\ INT_MAX \in Int
    BY IntBounds
  <2> QED BY <2>1
<1>2. PICK m \in Nat : m = Magnitude(n)
  BY <1>1 DEF Magnitude
<1>3. PICK digits : digits = utoa[m]
  OBVIOUS
<1>4. IsNumeral(digits, m)
  BY <1>3, UtoaIsNumeral
<1>5. /\ digits \in Seq(Figure) /\ digits # <<>>
      /\ \A i \in DOMAIN digits : IsDigit(digits[i])
      /\ Value(digits) = m
      /\ digits[1] = "0" => m = 0 /\ Len(digits) = 1
  BY <1>4, FiguresAreDigits DEF IsNumeral
<1>6. m = 0 => n = 0
  BY <1>1, <1>2 DEF Magnitude
<1>7. CASE n < 0
  <2>1. m = -n /\ Unsigned(Wrap(-n)) = m
    BY <1>1, <1>2, <1>7, UnsignedOpposite DEF Magnitude
  <2>2. itoa(n) = <<"-">> \o digits
    BY <1>3, <1>7, <2>1 DEF itoa
  <2>3. PICK s : s = <<"-">> \o digits
    OBVIOUS
  <2>4. Head(s) = "-" /\ Tail(s) = digits
    <3>1. PICK C : C = Figure \cup {"-"}
      OBVIOUS
    <3>2. digits \in Seq(C) /\ "-" \in C
      BY <1>5, <3>1, SeqMonotonic
    <3> QED BY <2>3, <3>2, HeadTailOfCons
  <2> QED BY <1>2, <1>5, <1>6, <1>7, <2>2, <2>3, <2>4 DEF Denotes
<1>8. CASE ~(n < 0)
  <2>1. m = n
    BY <1>1, <1>2, <1>8 DEF Magnitude
  <2>2. itoa(n) = digits
    BY <1>3, <1>8, <2>1 DEF itoa
  <2> QED BY <1>2, <1>5, <1>6, <1>8, <2>2 DEF Denotes
<1> QED BY <1>7, <1>8

-----------------------------------------------------------------------------
(* alive.                                                                  *)

(* The part of t after its first k elements is u.                          *)
LEMMA PartIs ==
  ASSUME NEW S, NEW t \in Seq(S), NEW u \in Seq(S), NEW k \in Nat, NEW n \in Nat,
         n = Len(u), k + n <= Len(t), \A i \in 1 .. n : t[k + i] = u[i]
  PROVE  SubSeq(t, k + 1, k + n) = u
<1>1. PICK l \in Nat : l = Len(t)
  OBVIOUS
<1>2. \A i \in k + 1 .. k + n : i \in 1 .. l
  BY <1>1
<1>3. \A i \in k + 1 .. k + n : t[i] \in S
  BY <1>1, <1>2, ElementOfSeq
<1>4. k + 1 \in Int /\ k + n \in Int
  OBVIOUS
<1>5. SubSeq(t, k + 1, k + n) = [i \in 1 .. (k + n) - (k + 1) + 1 |-> t[i + (k + 1) - 1]]
  BY <1>4
<1>6. 1 .. (k + n) - (k + 1) + 1 = 1 .. n
  OBVIOUS
<1>7. \A i \in 1 .. n : t[i + (k + 1) - 1] = u[i]
  <2> TAKE i \in 1 .. n
  <2>1. i + (k + 1) - 1 = k + i
    OBVIOUS
  <2> QED BY <2>1
<1>8. u = [i \in 1 .. n |-> u[i]]
  OBVIOUS
<1> QED BY <1>5, <1>6, <1>7, <1>8

LEMMA PaddedIs ==
  ASSUME NEW n \in Nat
  PROVE  \E s \in Seq(Figure) : /\ s = Padded(n) /\ Value(s) = n
                                /\ Len(s) >= 2 /\ (n < 100 => Len(s) = 2)
<1>1. PICK d \in Seq(Figure), l \in Nat :
        /\ d = utoa[n] /\ l = Len(d) /\ l >= 1 /\ Value(d) = n
        /\ n < 10 => l = 1
        /\ n >= 10 => l >= 2
        /\ n < 100 => l <= 2
  <2>1. IsNumeral(utoa[n], n)
    BY UtoaIsNumeral
  <2>2. utoa[n] \in Seq(Figure)
    BY <2>1 DEF IsNumeral
  <2>3. PICK l \in Nat : l = Len(utoa[n])
    BY <2>2
  <2>4. Len(utoa[n]) >= 1 /\ Value(utoa[n]) = n
    BY <2>1 DEF IsNumeral
  <2>5. (n < 10 <=> Len(utoa[n]) = 1) /\ (n < 100 => Len(utoa[n]) <= 2)
    BY <2>1 DEF IsNumeral
  <2>6. n < 10 => l = 1
    BY <2>3, <2>5
  <2>7. n >= 10 => l >= 2
    <3>1. ASSUME l = 1 PROVE n < 10
      BY <2>3, <2>5, <3>1
    <3>2. l >= 1
      BY <2>3, <2>4
    <3> QED BY <3>1, <3>2
  <2> QED BY <2>2, <2>3, <2>4, <2>5, <2>6, <2>7
<1>2. itoa(n) = d
  BY <1>1 DEF itoa
<1>3. Padded(n) = (Fill("0", d, 2) \o d) \o <<>>
  BY <1>2 DEF Padded, printf_number
<1>4. CASE n < 10
  <2>1. Fill("0", d, 2) = <<"0">>
    <3>1. l = 1
      BY <1>1, <1>4
    <3>2. Fill("0", d, 2) = [i \in 1 .. 1 |-> "0"]
      BY <1>1, <3>1 DEF Fill
    <3> QED BY <3>2
  <2>2. PICK c \in Figure : d = <<c>> /\ d = Append(<<>>, c)
    <3>1. d[1] \in Figure
      BY <1>1, <1>4, ElementOfSeq
    <3>2. d = <<d[1]>>
      BY <1>1, <1>4
    <3>3. <<d[1]>> = Append(<<>>, d[1])
      OBVIOUS
    <3> QED BY <3>1, <3>2, <3>3
  <2>3. PICK z \in Figure : z = "0" /\ DigitOf(z) = 0
    <3>1. 0 \in 0 .. 9 /\ Figures[0 + 1] = "0"
      BY DEF Figures
    <3> QED BY <3>1, DigitOfFigure
  <2>4. PICK e \in Seq(Figure) : e = <<>>
    <3>1. <<>> \in Seq(Figure)
      OBVIOUS
    <3> QED BY <3>1
  <2>5. PICK p \in Seq(Figure) : p = <<z>> /\ p = Append(e, z)
    <3>1. <<z>> \in Seq(Figure)
      OBVIOUS
    <3>2. <<z>> = Append(<<>>, z)
      OBVIOUS
    <3> QED BY <2>4, <3>1, <3>2
  <2>6. Value(p) = 0
    <3>1. Value(p) = Value(e) * 10 + DigitOf(z)
      BY <2>5, ValueOfAppended
    <3>2. Value(e) = 0
      BY <2>4, ValueOfEmpty
    <3> QED BY <2>3, <3>1, <3>2
  <2>7. DigitOf(c) = n
    <3>1. Value(d) = Value(e) * 10 + DigitOf(c)
      BY <2>2, <2>4, ValueOfAppended
    <3>2. Value(e) = 0
      BY <2>4, ValueOfEmpty
    <3>3. DigitOf(c) \in 0 .. 9
      BY DigitRange
    <3> QED BY <1>1, <3>1, <3>2, <3>3
  <2>8. Value(Append(p, c)) = n
    <3>1. Value(Append(p, c)) = Value(p) * 10 + DigitOf(c)
      BY ValueOfAppended
    <3> QED BY <2>6, <2>7, <3>1
  <2>9. PICK s \in Seq(Figure) : s = Append(p, c) /\ Len(s) = 2
    <3>1. Append(p, c) \in Seq(Figure) /\ Len(Append(p, c)) = Len(p) + 1
      BY AppendProperties
    <3>2. Len(p) = 1
      BY <2>5
    <3>3. Len(Append(p, c)) = 2
      BY <3>1, <3>2
    <3> QED BY <3>1, <3>3
  <2>10. Padded(n) = s
    <3>1. Append(p, c) = (<<z>> \o <<c>>) \o <<>>
      BY <2>5
    <3> QED BY <1>3, <2>1, <2>2, <2>3, <2>9, <3>1
  <2>11. Value(s) = n /\ Len(s) >= 2 /\ (n < 100 => Len(s) = 2)
    BY <2>8, <2>9
  <2> QED BY <2>10, <2>11
<1>5. CASE ~(n < 10)
  <2>1. l >= 2 /\ 1 .. 2 - l = {}
    <3>1. l >= 2
      BY <1>1, <1>5
    <3> QED BY <3>1
  <2>2. Fill("0", d, 2) = <<>>
    <3>1. Fill("0", d, 2) = [i \in {} |-> "0"]
      BY <1>1, <2>1 DEF Fill
    <3> QED BY <3>1
  <2>3. (<<>> \o d) \o <<>> = d
    OBVIOUS
  <2>4. Padded(n) = d
    BY <1>3, <2>2, <2>3, Zenon
  <2>5. Len(d) >= 2 /\ (n < 100 => Len(d) = 2)
    <3>1. n < 100 => l <= 2
      BY <1>1
    <3>2. l = Len(d) /\ l >= 2
      BY <1>1, <2>1
    <3> QED BY <3>1, <3>2
  <2> QED BY <1>1, <2>4, <2>5
<1> QED BY <1>4, <1>5

(* n is the product of a number and f, and less than f more.               *)
LEMMA DivisionIs ==
  ASSUME NEW n \in Nat, NEW f \in Nat \ {0}
  PROVE  n \div f \in Nat /\ (n \div f) * f <= n /\ n < ((n \div f) + 1) * f
OBVIOUS

LEMMA TimeIs ==
  ASSUME NEW q \in Nat
  PROVE  /\ q \div 3600 \in Nat /\ (q % 3600) \div 60 \in 0 .. 59 /\ q % 60 \in 0 .. 59
         /\ ((q \div 3600) * 3600 + ((q % 3600) \div 60) * 60) + (q % 60) = q
<1> DEFINE h == q \div 3600
           r == q % 3600
           m == r \div 60
           s == r % 60
<1>1. h \in Nat /\ r \in 0 .. 3599 /\ q = 3600 * h + r
  OBVIOUS
<1>2. m \in 0 .. 59 /\ s \in 0 .. 59 /\ r = 60 * m + s
  <2> HIDE DEF r
  <2>1. m \in 0 .. 59
    BY <1>1
  <2>2. s \in 0 .. 59
    BY <1>1
  <2>3. r \in Nat
    BY <1>1
  <2>4. r = 60 * m + s
    BY <2>3
  <2> QED BY <2>1, <2>2, <2>4
<1>3. q % 60 = s
  <2> HIDE DEF h, r, m, s
  <2>1. q = 60 * (60 * h + m) + s
    BY <1>1, <1>2
  <2>2. \A t \in Nat : (60 * t + s) % 60 = s
    BY <1>2
  <2>3. 60 * h + m \in Nat
    BY <1>1, <1>2
  <2> QED BY <2>1, <2>2, <2>3
<1>4. (h * 3600 + m * 60) + s = q
  <2> HIDE DEF h, r, m, s
  <2> QED BY <1>1, <1>2
<1>5. h \in Nat /\ m \in 0 .. 59 /\ q % 60 \in 0 .. 59 /\ (h * 3600 + m * 60) + (q % 60) = q
  <2> HIDE DEF h, r, m, s
  <2> QED BY <1>1, <1>2, <1>3, <1>4
<1> QED BY <1>5

LEMMA ConcatIs ==
  ASSUME NEW S, NEW u \in Seq(S), NEW v \in Seq(S)
  PROVE  /\ u \o v \in Seq(S) /\ Len(u \o v) = Len(u) + Len(v)
         /\ \A i \in 1 .. Len(u) : (u \o v)[i] = u[i]
         /\ \A i \in 1 .. Len(v) : (u \o v)[Len(u) + i] = v[i]
OBVIOUS

(* Three numbers between colons, the first of h figures.                   *)
ClockText(t, h, x, y, z) ==
  /\ t = Padded(x) \o <<":">> \o Padded(y) \o <<":">> \o Padded(z)
  /\ Len(t) = h + 6 /\ h >= 2
  /\ t[h + 1] = ":" /\ t[h + 4] = ":"
  /\ Value(SubSeq(t, 1, h)) = x
  /\ Value(SubSeq(t, h + 2, h + 3)) = y
  /\ Value(SubSeq(t, h + 5, h + 6)) = z

LEMMA ClockReads ==
  ASSUME NEW x \in Nat, NEW y \in 0 .. 59, NEW z \in 0 .. 59
  PROVE  \E h \in Nat : \E t : ClockText(t, h, x, y, z)
<1>1. /\ y \in Nat /\ y < 100 /\ z \in Nat /\ z < 100
      /\ 1 \in Nat /\ 2 \in Nat
  OBVIOUS
<1>2. PICK H \in Seq(Figure) : H = Padded(x) /\ Value(H) = x /\ Len(H) >= 2
  BY PaddedIs
<1>3. PICK M \in Seq(Figure) : M = Padded(y) /\ Value(M) = y /\ Len(M) = 2
  BY <1>1, PaddedIs
<1>4. PICK S \in Seq(Figure) : S = Padded(z) /\ Value(S) = z /\ Len(S) = 2
  BY <1>1, PaddedIs
<1>5. PICK h \in Nat : h = Len(H) /\ h >= 2
  BY <1>2
<1>6. PICK C : C = Figure \cup {":"}
  OBVIOUS
<1>7. H \in Seq(C) /\ M \in Seq(C) /\ S \in Seq(C)
  BY <1>6, SeqMonotonic
<1>8. PICK c \in Seq(C) : c = <<":">> /\ Len(c) = 1 /\ c[1] = ":"
  <2>1. <<":">> \in Seq(C) /\ Len(<<":">>) = 1 /\ <<":">>[1] = ":"
    BY <1>6
  <2> QED BY <2>1
<1>9. PICK t1 \in Seq(C) :
        /\ t1 = H \o c /\ Len(t1) = h + 1
        /\ \A i \in 1 .. h : t1[i] = H[i]
        /\ t1[h + 1] = ":"
  <2>1. 1 \in 1 .. Len(c)
    BY <1>8
  <2>2. \A i \in 1 .. Len(c) : (H \o c)[Len(H) + i] = c[i]
    BY <1>7, ConcatIs
  <2>3. H \o c \in Seq(C) /\ Len(H \o c) = Len(H) + Len(c)
    BY <1>7, ConcatIs
  <2>4. \A i \in 1 .. Len(H) : (H \o c)[i] = H[i]
    BY <1>7, ConcatIs
  <2> QED BY <1>5, <1>8, <2>1, <2>2, <2>3, <2>4
<1>10. PICK t2 \in Seq(C) :
        /\ t2 = t1 \o M /\ Len(t2) = h + 3
        /\ \A i \in 1 .. h + 1 : t2[i] = t1[i]
        /\ \A i \in 1 .. 2 : t2[(h + 1) + i] = M[i]
  <2>1. \A i \in 1 .. Len(M) : (t1 \o M)[Len(t1) + i] = M[i]
    BY <1>7, ConcatIs
  <2>2. t1 \o M \in Seq(C) /\ Len(t1 \o M) = Len(t1) + Len(M)
    BY <1>7, ConcatIs
  <2>3. \A i \in 1 .. Len(t1) : (t1 \o M)[i] = t1[i]
    BY <1>7, ConcatIs
  <2>4. Len(t1 \o M) = h + 3
    BY <1>3, <1>9, <2>2
  <2>5. \A i \in 1 .. 2 : (t1 \o M)[(h + 1) + i] = M[i]
    BY <1>3, <1>9, <2>1
  <2>6. \A i \in 1 .. h + 1 : (t1 \o M)[i] = t1[i]
    BY <1>9, <2>3
  <2> QED BY <2>2, <2>4, <2>5, <2>6
<1>11. PICK t3 \in Seq(C) :
        /\ t3 = t2 \o c /\ Len(t3) = h + 4
        /\ \A i \in 1 .. h + 3 : t3[i] = t2[i]
        /\ t3[h + 4] = ":"
  <2>1. 1 \in 1 .. Len(c) /\ Len(t2) + 1 = h + 4
    BY <1>8, <1>10
  <2>2. \A i \in 1 .. Len(c) : (t2 \o c)[Len(t2) + i] = c[i]
    BY <1>7, ConcatIs
  <2>3. (t2 \o c)[h + 4] = ":"
    BY <1>8, <2>1, <2>2
  <2>4. t2 \o c \in Seq(C) /\ Len(t2 \o c) = Len(t2) + Len(c)
    BY <1>7, ConcatIs
  <2>5. Len(t2 \o c) = h + 4
    BY <1>8, <1>10, <2>4
  <2>6. \A i \in 1 .. Len(t2) : (t2 \o c)[i] = t2[i]
    BY <1>7, ConcatIs
  <2> QED BY <1>10, <2>3, <2>4, <2>5, <2>6
<1>12. PICK t \in Seq(C) :
        /\ t = t3 \o S /\ Len(t) = h + 6
        /\ \A i \in 1 .. h + 4 : t[i] = t3[i]
        /\ \A i \in 1 .. 2 : t[(h + 4) + i] = S[i]
  <2>1. \A i \in 1 .. Len(S) : (t3 \o S)[Len(t3) + i] = S[i]
    BY <1>7, ConcatIs
  <2>2. t3 \o S \in Seq(C) /\ Len(t3 \o S) = Len(t3) + Len(S)
    BY <1>7, ConcatIs
  <2>3. \A i \in 1 .. Len(t3) : (t3 \o S)[i] = t3[i]
    BY <1>7, ConcatIs
  <2>4. Len(t3 \o S) = h + 6
    BY <1>4, <1>11, <2>2
  <2>5. \A i \in 1 .. 2 : (t3 \o S)[(h + 4) + i] = S[i]
    BY <1>4, <1>11, <2>1
  <2>6. \A i \in 1 .. h + 4 : (t3 \o S)[i] = t3[i]
    BY <1>11, <2>3
  <2> QED BY <2>2, <2>4, <2>5, <2>6
<1>13. t = Padded(x) \o <<":">> \o Padded(y) \o <<":">> \o Padded(z)
  BY <1>2, <1>3, <1>4, <1>8, <1>9, <1>10, <1>11, <1>12
<1>14. h + 1 \in Nat /\ h + 4 \in Nat
  OBVIOUS
<1>15. Len(t) = h + 6
  BY <1>12
<1>16. \A i \in 1 .. h : t[i] = H[i]
  <2> TAKE i \in 1 .. h
  <2>1. i \in 1 .. h + 1 /\ i \in 1 .. h + 3 /\ i \in 1 .. h + 4
    OBVIOUS
  <2> QED BY <1>9, <1>10, <1>11, <1>12, <2>1
<1>17. t[h + 1] = ":"
  <2>1. h + 1 \in 1 .. h + 1 /\ h + 1 \in 1 .. h + 3 /\ h + 1 \in 1 .. h + 4
    OBVIOUS
  <2> QED BY <1>9, <1>10, <1>11, <1>12, <2>1
<1>18. \A i \in 1 .. 2 : t[(h + 1) + i] = M[i]
  <2> TAKE i \in 1 .. 2
  <2>1. (h + 1) + i \in 1 .. h + 3 /\ (h + 1) + i \in 1 .. h + 4
    OBVIOUS
  <2> QED BY <1>10, <1>11, <1>12, <2>1
<1>19. t[h + 4] = ":"
  <2>1. h + 4 \in 1 .. h + 4
    OBVIOUS
  <2> QED BY <1>11, <1>12, <2>1
<1>20. SubSeq(t, 1, h) = H
  <2>1. SubSeq(t, 0 + 1, 0 + h) = H
    <3>1. \A i \in 1 .. h : t[0 + i] = H[i]
      <4> TAKE i \in 1 .. h
      <4>1. 0 + i = i
        OBVIOUS
      <4> QED BY <1>16, <4>1
    <3>2. 0 \in Nat /\ 0 + h <= Len(t)
      BY <1>15
    <3> QED BY <1>5, <1>7, <3>1, <3>2, PartIs
  <2>2. 0 + 1 = 1 /\ 0 + h = h
    OBVIOUS
  <2> QED BY <2>1, <2>2
<1>21. SubSeq(t, h + 2, h + 3) = M
  <2>1. SubSeq(t, (h + 1) + 1, (h + 1) + 2) = M
    <3>1. (h + 1) + 2 <= Len(t)
      BY <1>15
    <3>2. M \in Seq(C) /\ h + 1 \in Nat /\ 2 \in Nat /\ 2 = Len(M)
      BY <1>1, <1>3, <1>7, <1>14
    <3> QED BY <1>18, <3>1, <3>2, PartIs
  <2>2. (h + 1) + 1 = h + 2 /\ (h + 1) + 2 = h + 3
    OBVIOUS
  <2> QED BY <2>1, <2>2
<1>22. SubSeq(t, h + 5, h + 6) = S
  <2>1. SubSeq(t, (h + 4) + 1, (h + 4) + 2) = S
    <3>1. (h + 4) + 2 <= Len(t)
      BY <1>15
    <3>2. S \in Seq(C) /\ h + 4 \in Nat /\ 2 \in Nat /\ 2 = Len(S)
      BY <1>1, <1>4, <1>7, <1>14
    <3>3. \A i \in 1 .. 2 : t[(h + 4) + i] = S[i]
      BY <1>12
    <3> QED BY <3>1, <3>2, <3>3, PartIs
  <2>2. (h + 4) + 1 = h + 5 /\ (h + 4) + 2 = h + 6
    OBVIOUS
  <2> QED BY <2>1, <2>2
<1>23. /\ Value(SubSeq(t, 1, h)) = x
       /\ Value(SubSeq(t, h + 2, h + 3)) = y
       /\ Value(SubSeq(t, h + 5, h + 6)) = z
  BY <1>2, <1>3, <1>4, <1>20, <1>21, <1>22
<1>24. ClockText(t, h, x, y, z)
  BY <1>5, <1>13, <1>15, <1>17, <1>19, <1>23, Zenon DEF ClockText
<1> QED BY <1>24, Zenon

LEMMA AliveShowsTheTime ==
  ASSUME NEW ticks \in Ticks, Alive(ticks)
  PROVE  AliveIsRight'
<1>1. ticks \in Nat /\ TIMER_FREQ \in Nat \ {0}
  BY CalcAssumption DEF CalcAssumption
<1>2. PICK q \in Nat : /\ q = timer_get_uptime_seconds(ticks)
                       /\ q * TIMER_FREQ <= ticks /\ ticks < (q + 1) * TIMER_FREQ
  BY <1>1, DivisionIs DEF timer_get_uptime_seconds
<1> DEFINE x == q \div 3600
           y == (q % 3600) \div 60
           z == q % 60
<1>3. x \in Nat /\ y \in 0 .. 59 /\ z \in 0 .. 59 /\ (x * 3600 + y * 60) + z = q
  <2>1. x \in Nat /\ y \in 0 .. 59 /\ z \in 0 .. 59
    BY TimeIs
  <2>2. (x * 3600 + y * 60) + z = q
    BY TimeIs
  <2> HIDE DEF x, y, z
  <2> QED BY <2>1, <2>2
<1>4. cmd_alive(q) = Padded(x) \o <<":">> \o Padded(y) \o <<":">> \o Padded(z)
  BY DEF cmd_alive
<1> HIDE DEF x, y, z
<1>5. PICK h \in Nat : \E t : ClockText(t, h, x, y, z)
  <2>1. x \in Nat /\ y \in 0 .. 59 /\ z \in 0 .. 59
    BY <1>3
  <2> QED BY <2>1, ClockReads
<1>6. PICK t : ClockText(t, h, x, y, z)
  BY <1>5
<1>7. /\ t = Padded(x) \o <<":">> \o Padded(y) \o <<":">> \o Padded(z)
      /\ Len(t) = h + 6 /\ h >= 2
      /\ t[h + 1] = ":" /\ t[h + 4] = ":"
      /\ Value(SubSeq(t, 1, h)) = x
      /\ Value(SubSeq(t, h + 2, h + 3)) = y
      /\ Value(SubSeq(t, h + 5, h + 6)) = z
  BY <1>6, Zenon DEF ClockText
<1>8. t = cmd_alive(q)
  BY <1>4, <1>7
<1>9. shown'[1].text = t /\ asked'.n = ticks
  <2>1. shown' = << Row(0, t) >>
    BY <1>2, <1>8 DEF Alive
  <2>2. Row(0, t).text = t
    BY DEF Row
  <2> QED BY <2>1, <2>2 DEF Alive, Ask
<1>10. PICK e : e = Len(t)
  OBVIOUS
<1>11. /\ e >= 8 /\ e - 6 = h /\ e - 5 = h + 1 /\ e - 4 = h + 2 /\ e - 3 = h + 3
       /\ e - 2 = h + 4 /\ e - 1 = h + 5 /\ e = h + 6
  BY <1>7, <1>10
<1>12. PICK hours, minutes, seconds :
        /\ hours = Value(SubSeq(t, 1, e - 6))
        /\ minutes = Value(SubSeq(t, e - 4, e - 3))
        /\ seconds = Value(SubSeq(t, e - 1, e))
  OBVIOUS
<1>13. hours = x /\ minutes = y /\ seconds = z
  BY <1>7, <1>11, <1>12
<1>14. hours * 3600 + minutes * 60 + seconds = q
  BY <1>3, <1>13
<1>15. minutes < 60 /\ seconds < 60
  BY <1>3, <1>13
<1>16. t[e - 5] = ":" /\ t[e - 2] = ":"
  BY <1>7, <1>11
<1>17. e >= 8
  BY <1>11
<1> DEFINE Shows(text) ==
             LET end == Len(text)
                 hrs == Value(SubSeq(text, 1, end - 6))
                 min == Value(SubSeq(text, end - 4, end - 3))
                 sec == Value(SubSeq(text, end - 1, end))
                 secs == hrs * 3600 + min * 60 + sec
             IN  /\ end >= 8 /\ text[end - 5] = ":" /\ text[end - 2] = ":"
                 /\ min < 60 /\ sec < 60
                 /\ secs * TIMER_FREQ <= ticks /\ ticks < (secs + 1) * TIMER_FREQ
<1>18. Shows(t)
  <2>1. Len(t) >= 8 /\ t[Len(t) - 5] = ":" /\ t[Len(t) - 2] = ":"
    BY <1>10, <1>16, <1>17, Zenon
  <2>2. /\ hours = Value(SubSeq(t, 1, Len(t) - 6))
        /\ minutes = Value(SubSeq(t, Len(t) - 4, Len(t) - 3))
        /\ seconds = Value(SubSeq(t, Len(t) - 1, Len(t)))
    BY <1>10, <1>12, Zenon
  <2> DEFINE secs == hours * 3600 + minutes * 60 + seconds
  <2>3. secs = q
    BY <1>14
  <2>4. secs * TIMER_FREQ <= ticks /\ ticks < (secs + 1) * TIMER_FREQ
    <3> HIDE DEF secs
    <3> QED BY <1>2, <2>3
  <2> QED BY <1>15, <2>1, <2>2, <2>3, <2>4
<1>19. Shows(shown'[1].text)
  <2> HIDE DEF Shows
  <2> QED BY <1>9, <1>18, Zenon
<1> QED BY <1>9, <1>19 DEF AliveIsRight

-----------------------------------------------------------------------------
(* calc.                                                                   *)

LEMMA LeastIs ==
  ASSUME NEW I \in SUBSET Nat, NEW k \in I, \A i \in I : k <= i
  PROVE  I # {} /\ Min(I) = k
<1>1. \A x \in I : (\A y \in I : x <= y) => x = k
  <2> SUFFICES ASSUME NEW x \in I, \A y \in I : x <= y PROVE x = k
    OBVIOUS
  <2>1. x <= k /\ k <= x /\ x \in Nat /\ k \in Nat
    OBVIOUS
  <2> QED BY <2>1
<1> QED BY <1>1 DEF Min

(* A text is split at its first operator.                                  *)
LEMMA SplitAtOperator ==
  ASSUME NEW C, NEW u \in Seq(C), NEW v \in Seq(C), NEW op \in C, op \in Operators,
         \A i \in 1 .. Len(u) : u[i] \notin Operators
  PROVE  LET t == (u \o <<op>>) \o v IN
           /\ LeftOf(t) = u
           /\ RightOf(t) # <<>> /\ Head(RightOf(t)) = op /\ Tail(RightOf(t)) = v
<1>1. PICK k \in Nat, n \in Nat : k = Len(u) /\ n = Len(v)
  OBVIOUS
<1>2. PICK c \in Seq(C) : c = <<op>> /\ Len(c) = 1 /\ c[1] = op
  <2>1. <<op>> \in Seq(C) /\ Len(<<op>>) = 1 /\ <<op>>[1] = op
    OBVIOUS
  <2> QED BY <2>1
<1>3. PICK r \in Seq(C) : r = c \o v /\ Len(r) = n + 1
  <2>1. c \o v \in Seq(C) /\ Len(c \o v) = Len(c) + Len(v)
    BY ConcatIs
  <2>2. Len(c \o v) = n + 1
    BY <1>1, <1>2, <2>1
  <2> QED BY <2>1, <2>2
<1>4. r # <<>> /\ Head(r) = op /\ Tail(r) = v
  <2>1. Head(r) = op /\ Tail(r) = v
    BY <1>2, <1>3, HeadTailOfCons
  <2>2. r # <<>>
    BY <1>3
  <2> QED BY <2>1, <2>2
<1>5. PICK t \in Seq(C) :
        /\ t = (u \o <<op>>) \o v
        /\ Len(t) = k + (n + 1)
        /\ \A i \in 1 .. k : t[i] = u[i]
        /\ \A i \in 1 .. n + 1 : t[k + i] = r[i]
  <2>1. (u \o c) \o v = u \o (c \o v)
    BY ConcatAssociative
  <2>2. u \o r \in Seq(C) /\ Len(u \o r) = Len(u) + Len(r)
    BY ConcatIs
  <2>3. \A i \in 1 .. Len(u) : (u \o r)[i] = u[i]
    BY ConcatIs
  <2>4. \A i \in 1 .. Len(r) : (u \o r)[Len(u) + i] = r[i]
    BY ConcatIs
  <2>5. Len(u \o r) = k + (n + 1)
    BY <1>1, <1>3, <2>2
  <2>6. \A i \in 1 .. k : (u \o r)[i] = u[i]
    BY <1>1, <2>3
  <2>7. \A i \in 1 .. n + 1 : (u \o r)[k + i] = r[i]
    BY <1>1, <1>3, <2>4
  <2>8. u \o r = (u \o <<op>>) \o v
    BY <1>2, <1>3, <2>1
  <2> QED BY <2>2, <2>5, <2>6, <2>7, <2>8
<1>6. OperatorIn(t) = k + 1
  <2> DEFINE I == {i \in 1 .. Len(t) : t[i] \in Operators}
  <2>1. k + 1 \in I
    <3>1. 1 \in 1 .. n + 1 /\ k + 1 \in 1 .. k + (n + 1)
      OBVIOUS
    <3>2. r[1] = op
      BY <1>3, <1>4
    <3>3. t[k + 1] = op
      BY <1>5, <3>1, <3>2
    <3> QED BY <1>5, <3>1, <3>3
  <2>2. ASSUME NEW i \in I PROVE k + 1 <= i
    <3>1. i \in Nat /\ i >= 1 /\ t[i] \in Operators
      OBVIOUS
    <3>2. ASSUME i <= k PROVE FALSE
      <4>1. i \in 1 .. k
        BY <3>1, <3>2
      <4>2. t[i] = u[i] /\ u[i] \notin Operators
        BY <1>1, <1>5, <4>1
      <4> QED BY <3>1, <4>2
    <3> QED BY <3>1, <3>2
  <2>3. I \in SUBSET Nat
    OBVIOUS
  <2>4. I # {} /\ Min(I) = k + 1
    <3> HIDE DEF I
    <3> QED BY <2>1, <2>2, <2>3, LeastIs
  <2> QED BY <2>4 DEF OperatorIn, SelectInSeq
<1>7. RightOf(t) = r
  <2>1. SubSeq(t, k + 1, k + (n + 1)) = r
    <3>1. n + 1 \in Nat /\ k + (n + 1) <= Len(t)
      BY <1>5
    <3> QED BY <1>3, <1>5, <3>1, PartIs
  <2>2. k + 1 # 0
    OBVIOUS
  <2> QED BY <1>5, <1>6, <2>1, <2>2 DEF RightOf, From
<1>8. LeftOf(t) = u
  <2>1. From(t, OperatorIn(t)) = r
    BY <1>7 DEF RightOf
  <2>2. Len(t) - Len(r) = k
    BY <1>3, <1>5
  <2>3. SubSeq(t, 0 + 1, 0 + k) = u
    <3>1. 0 \in Nat /\ 0 + k <= Len(t)
      BY <1>5
    <3>2. \A i \in 1 .. k : t[0 + i] = u[i]
      <4> TAKE i \in 1 .. k
      <4>1. 0 + i = i
        OBVIOUS
      <4> QED BY <1>5, <4>1
    <3> QED BY <1>1, <3>1, <3>2, PartIs
  <2>4. 0 + 1 = 1 /\ 0 + k = k
    OBVIOUS
  <2> QED BY <2>1, <2>2, <2>3, <2>4 DEF LeftOf, Before
<1> QED BY <1>4, <1>5, <1>7, <1>8

Space == " "

(* skip_spaces returns what comes after the blanks.                        *)
LEMMA SpacesSkipped ==
  ASSUME NEW C, NEW b \in Seq(C), NEW s \in Seq(C), Len(s) >= 1, s[1] # Space,
         \A i \in 1 .. Len(b) : b[i] = Space
  PROVE  skip_spaces(b \o s) = s
<1>1. PICK k \in Nat, n \in Nat : k = Len(b) /\ n = Len(s) /\ n >= 1
  OBVIOUS
<1>2. PICK t \in Seq(C) :
        /\ t = b \o s
        /\ Len(t) = k + n
        /\ \A i \in 1 .. k : t[i] = b[i]
        /\ \A i \in 1 .. n : t[k + i] = s[i]
  <2>1. b \o s \in Seq(C) /\ Len(b \o s) = Len(b) + Len(s)
    BY ConcatIs
  <2>2. \A i \in 1 .. Len(b) : (b \o s)[i] = b[i]
    BY ConcatIs
  <2>3. \A i \in 1 .. Len(s) : (b \o s)[Len(b) + i] = s[i]
    BY ConcatIs
  <2> QED BY <1>1, <2>1, <2>2, <2>3
<1> DEFINE I == {i \in 1 .. Len(t) : t[i] # Space}
<1>3. k + 1 \in I
  <2>1. 1 \in 1 .. n /\ k + 1 \in 1 .. k + n
    BY <1>1
  <2> QED BY <1>2, <2>1
<1>4. ASSUME NEW i \in I PROVE k + 1 <= i
  <2>1. i \in Nat /\ i >= 1 /\ t[i] # Space
    OBVIOUS
  <2>2. ASSUME i <= k PROVE FALSE
    <3>1. i \in 1 .. k
      BY <2>1, <2>2
    <3> QED BY <1>1, <1>2, <2>1, <3>1
  <2> QED BY <2>1, <2>2
<1>5. I \in SUBSET Nat
  OBVIOUS
<1>6. I # {} /\ Min(I) = k + 1
  <2> HIDE DEF I
  <2> QED BY <1>3, <1>4, <1>5, LeastIs
<1>7. SubSeq(t, k + 1, k + n) = s
  BY <1>1, <1>2, PartIs
<1>8. skip_spaces(t) = From(t, k + 1)
  <2>1. skip_spaces(t) = From(t, SelectInSeq(t, LAMBDA c : c # Space))
    BY Zenon DEF skip_spaces, Space
  <2>2. SelectInSeq(t, LAMBDA c : c # Space) = k + 1
    BY <1>6 DEF SelectInSeq
  <2> QED BY <2>1, <2>2
<1>9. k + 1 # 0
  OBVIOUS
<1> QED BY <1>2, <1>7, <1>8, <1>9 DEF From

(* The digits before the first character that is none.                     *)
Digits(str) == Before(str, SelectInSeq(str, LAMBDA c : ~IsDigit(c)))

LEMMA DigitsFound ==
  ASSUME NEW C, NEW d \in Seq(C), NEW b \in Seq(C),
         \A i \in 1 .. Len(d) : IsDigit(d[i]), \A i \in 1 .. Len(b) : ~IsDigit(b[i])
  PROVE  Digits(d \o b) = d
<1>1. PICK k \in Nat, n \in Nat : k = Len(d) /\ n = Len(b)
  OBVIOUS
<1>2. PICK t \in Seq(C) :
        /\ t = d \o b
        /\ Len(t) = k + n
        /\ \A i \in 1 .. k : t[i] = d[i]
        /\ \A i \in 1 .. n : t[k + i] = b[i]
  <2>1. d \o b \in Seq(C) /\ Len(d \o b) = Len(d) + Len(b)
    BY ConcatIs
  <2>2. \A i \in 1 .. Len(d) : (d \o b)[i] = d[i]
    BY ConcatIs
  <2>3. \A i \in 1 .. Len(b) : (d \o b)[Len(d) + i] = b[i]
    BY ConcatIs
  <2> QED BY <1>1, <2>1, <2>2, <2>3
<1> DEFINE I == {i \in 1 .. Len(t) : ~IsDigit(t[i])}
           place == SelectInSeq(t, LAMBDA c : ~IsDigit(c))
<1>3. place = IF I # {} THEN Min(I) ELSE 0
  BY DEF SelectInSeq
<1>4. ASSUME NEW i \in I PROVE k + 1 <= i
  <2>1. i \in Nat /\ i >= 1 /\ ~IsDigit(t[i])
    OBVIOUS
  <2>2. ASSUME i <= k PROVE FALSE
    <3>1. i \in 1 .. k
      BY <2>1, <2>2
    <3> QED BY <1>1, <1>2, <2>1, <3>1
  <2> QED BY <2>1, <2>2
<1>5. Len(From(t, place)) = n
  <2>1. CASE n = 0
    <3>1. I = {}
      <4>1. \A i \in I : i \in 1 .. k + n
        BY <1>2
      <4>2. ASSUME NEW i \in I PROVE FALSE
        <5>1. i \in 1 .. k + n /\ k + 1 <= i
          BY <1>4, <4>1
        <5> QED BY <2>1, <5>1
      <4> QED BY <4>2
    <3>2. place = 0
      BY <1>3, <3>1
    <3>3. From(t, place) = <<>>
      BY <3>2 DEF From
    <3> QED BY <2>1, <3>3
  <2>2. CASE n # 0
    <3>1. k + 1 \in I
      <4>1. 1 \in 1 .. n /\ k + 1 \in 1 .. k + n
        BY <2>2
      <4> QED BY <1>1, <1>2, <4>1
    <3>2. I \in SUBSET Nat
      OBVIOUS
    <3>3. I # {} /\ Min(I) = k + 1
      <4> HIDE DEF I
      <4> QED BY <1>4, <3>1, <3>2, LeastIs
    <3>4. place = k + 1 /\ k + 1 # 0
      BY <1>3, <3>3
    <3>5. From(t, place) = SubSeq(t, k + 1, k + n)
      <4> HIDE DEF place
      <4> QED BY <1>2, <3>4 DEF From
    <3>6. SubSeq(t, k + 1, k + n) = b
      BY <1>1, <1>2, PartIs
    <3> QED BY <1>1, <3>5, <3>6
  <2> QED BY <2>1, <2>2
<1>6. SubSeq(t, 0 + 1, 0 + k) = d
  <2>1. 0 \in Nat /\ 0 + k <= Len(t)
    BY <1>2
  <2>2. \A i \in 1 .. k : t[0 + i] = d[i]
    <3> TAKE i \in 1 .. k
    <3>1. 0 + i = i
      OBVIOUS
    <3> QED BY <1>2, <3>1
  <2> QED BY <1>1, <2>1, <2>2, PartIs
<1>7. Len(t) - n = k /\ 0 + 1 = 1 /\ 0 + k = k
  BY <1>2
<1>8. Digits(t) = SubSeq(t, 1, Len(t) - Len(From(t, place)))
  BY DEF Digits, Before
<1> HIDE DEF place
<1> QED BY <1>2, <1>5, <1>6, <1>7, <1>8

(* What may stand around an operator: blanks only.                         *)
LEMMA BlankIs ==
  ASSUME NEW blank \in Blank
  PROVE  blank \in Seq({Space}) /\ \A i \in 1 .. Len(blank) : blank[i] = Space
<1>1. blank \in Seq({Space})
  BY CalcAssumption, Zenon DEF CalcAssumption, Space
<1>2. ASSUME NEW i \in 1 .. Len(blank) PROVE blank[i] = Space
  <2>1. blank[i] \in {Space}
    BY <1>1, ElementOfSeq
  <2> QED BY <2>1
<1> QED BY <1>1, <1>2

LEMMA NumberIs ==
  ASSUME NEW a \in Number
  PROVE  a \in Seq(Figure) /\ Len(a) >= 1
<1>1. a \in Seq(Figure) /\ a # <<>>
  BY CalcAssumption, Zenon DEF CalcAssumption, Figure
<1>2. Len(a) >= 1
  BY <1>1
<1> QED BY <1>1, <1>2

(* Figures, signs, blanks and operators are told apart.                    *)
LEMMA CharactersDiffer ==
  /\ Space \notin Figure /\ Space \notin Operators /\ Space # "-" /\ Space # "+"
  /\ \A c \in Figure : c \notin Operators /\ c # "-" /\ c # "+"
<1>1. Figure = {"0", "1", "2", "3", "4", "5", "6", "7", "8", "9"}
  BY FiguresAre
<1>2. Space \notin Figure
  BY <1>1, Zenon DEF Space
<1>3. Space \notin Operators /\ Space # "-" /\ Space # "+"
  BY Zenon DEF Space, Operators
<1>4. \A c \in Figure : c \notin Operators /\ c # "-" /\ c # "+"
  BY <1>1 DEF Operators
<1> QED BY <1>2, <1>3, <1>4

(* atoi reads a string of digits, with blanks after it or none.            *)
LEMMA AtoiUnsigned ==
  ASSUME NEW d \in Seq(Figure), Len(d) >= 1, Value(d) <= INT_MAX,
         NEW b \in Seq({Space})
  PROVE  atoi(d \o b) = Value(d)
<1>1. PICK C : C = Figure \cup {Space}
  OBVIOUS
<1>2. d \in Seq(C) /\ b \in Seq(C)
  BY <1>1, SeqMonotonic
<1>3. PICK t \in Seq(C) : t = d \o b /\ t # <<>> /\ Head(t) \in Figure
  <2>1. d \o b \in Seq(C) /\ Len(d \o b) = Len(d) + Len(b)
    BY <1>2, ConcatIs
  <2>2. \A i \in 1 .. Len(d) : (d \o b)[i] = d[i]
    BY <1>2, ConcatIs
  <2>3. PICK k \in Nat, n \in Nat : k = Len(d) /\ n = Len(b) /\ k >= 1
    OBVIOUS
  <2>4. d[1] \in Figure
    BY ElementOfSeq
  <2>5. (d \o b)[1] = d[1]
    BY <2>2, <2>3
  <2>6. d \o b # <<>>
    BY <2>1, <2>3
  <2>7. Head(d \o b) = (d \o b)[1]
    BY <2>1, <2>6
  <2> QED BY <2>1, <2>4, <2>5, <2>6, <2>7
<1>4. Head(t) \notin {"-", "+"}
  BY <1>3, CharactersDiffer
<1>5. atoi(t) = Accumulate(Digits(t))
  BY <1>3, <1>4 DEF atoi, Digits
<1>6. Digits(t) = d
  <2>1. ASSUME NEW i \in 1 .. Len(d) PROVE IsDigit(d[i])
    BY ElementOfSeq, FiguresAreDigits
  <2>2. ASSUME NEW i \in 1 .. Len(b) PROVE ~IsDigit(b[i])
    <3>1. b[i] \in {Space}
      BY ElementOfSeq
    <3> QED BY <3>1, CharactersDiffer, FiguresAreDigits
  <2> QED BY <1>2, <1>3, <2>1, <2>2, DigitsFound
<1>7. Accumulate(d) = Value(d)
  <2>1. PICK h \in Nat \ {0} : INT_MAX = h - 1 /\ INT_MIN = -h
    BY IntBounds
  <2>2. PICK n \in Nat : n = Value(d)
    BY ValueIsNatural
  <2>3. n <= -INT_MIN /\ n # -INT_MIN
    BY <2>1, <2>2
  <2>4. Accumulate(d) = IF n = -INT_MIN THEN INT_MIN ELSE n
    BY <2>2, <2>3, AccumulateInRange
  <2> QED BY <2>2, <2>3, <2>4
<1> QED BY <1>3, <1>5, <1>6, <1>7

(* The largest magnitude is read as the smallest int, which is right when  *)
(* a minus stands before it.                                               *)
LEMMA AtoiNegative ==
  ASSUME NEW d \in Seq(Figure), Len(d) >= 1, -Value(d) >= INT_MIN
  PROVE  atoi(<<"-">> \o d) = -Value(d)
<1>1. PICK C : C = Figure \cup {"-"}
  OBVIOUS
<1>2. d \in Seq(C) /\ "-" \in C
  BY <1>1, SeqMonotonic
<1>3. PICK t : t = <<"-">> \o d
  OBVIOUS
<1>4. t # <<>> /\ Head(t) = "-" /\ Tail(t) = d
  <2>1. Head(t) = "-" /\ Tail(t) = d
    BY <1>2, <1>3, HeadTailOfCons
  <2>2. t # <<>>
    BY <1>2, <1>3
  <2> QED BY <2>1, <2>2
<1>5. atoi(t) = Wrap(-Accumulate(Digits(d)))
  BY <1>4 DEF atoi, Digits
<1>6. Digits(d) = d
  <2>1. ASSUME NEW i \in 1 .. Len(d) PROVE IsDigit(d[i])
    BY ElementOfSeq, FiguresAreDigits
  <2>2. PICK e \in Seq(Figure) : e = <<>> /\ Len(e) = 0
    <3>1. <<>> \in Seq(Figure) /\ Len(<<>>) = 0
      OBVIOUS
    <3> QED BY <3>1
  <2>3. \A i \in 1 .. Len(e) : ~IsDigit(e[i])
    BY <2>2
  <2>4. Digits(d \o e) = d
    BY <2>1, <2>3, DigitsFound
  <2>5. d \o e = d
    BY <2>2, ConcatEmptySeq
  <2> QED BY <2>4, <2>5
<1>7. PICK h \in Nat \ {0} : INT_MAX = h - 1 /\ INT_MIN = -h
  BY IntBounds
<1>8. PICK n \in Nat : n = Value(d)
  BY ValueIsNatural
<1>9. n <= -INT_MIN /\ n <= h /\ -INT_MIN = h
  BY <1>7, <1>8
<1>10. Accumulate(d) = IF n = h THEN -h ELSE n
  BY <1>7, <1>8, <1>9, AccumulateInRange
<1>11. CASE n = h
  <2>1. -Accumulate(d) = -INT_MIN
    BY <1>7, <1>10, <1>11
  <2>2. Wrap(-Accumulate(d)) = INT_MIN
    BY <2>1, WrapOfHalf
  <2> QED BY <1>3, <1>5, <1>6, <1>7, <1>8, <1>11, <2>2
<1>12. CASE n # h
  <2>1. -n \in INT_MIN .. INT_MAX
    BY <1>7, <1>9, <1>12
  <2>2. Wrap(-n) = -n
    BY <2>1, WrapInRange
  <2> QED BY <1>3, <1>5, <1>6, <1>8, <1>10, <1>12, <2>2
<1> QED BY <1>11, <1>12

(* The operand after the operator, with its blanks and its sign.           *)
LEMMA OperandAfter ==
  ASSUME NEW b \in Number, NEW right \in Signed(b), NEW blank \in Blank,
         InRange(ValueOf(right))
  PROVE  Operand(blank \o right) = ValueOf(right)
<1>1. b \in Seq(Figure) /\ Len(b) >= 1
  BY NumberIs
<1>2. blank \in Seq({Space}) /\ \A i \in 1 .. Len(blank) : blank[i] = Space
  BY BlankIs
<1>3. PICK C : C = Figure \cup {Space, "-"}
  OBVIOUS
<1>4. blank \in Seq(C) /\ b \in Seq(C) /\ "-" \in C
  BY <1>1, <1>2, <1>3, SeqMonotonic
<1>5. b[1] \in Figure
  BY <1>1, ElementOfSeq
<1>6. PICK h \in Nat \ {0} : INT_MAX = h - 1 /\ INT_MIN = -h
  BY IntBounds
<1>7. Value(b) \in Nat
  BY <1>1, ValueIsNatural
<1>8. CASE right = b
  <2>1. skip_spaces(blank \o right) = right
    <3>1. b[1] # Space
      BY <1>5, CharactersDiffer
    <3> QED BY <1>1, <1>2, <1>4, <1>8, <3>1, SpacesSkipped
  <2>2. ValueOf(right) = Value(b)
    <3>1. Head(b) = b[1]
      BY <1>1
    <3> QED BY <1>5, <1>8, <3>1, CharactersDiffer DEF ValueOf
  <2>3. Value(b) <= INT_MAX
    BY <1>6, <1>7, <2>2 DEF InRange
  <2>4. PICK e \in Seq({Space}) : e = <<>>
    <3>1. <<>> \in Seq({Space})
      OBVIOUS
    <3> QED BY <3>1
  <2>5. b \o e = b
    BY <1>1, <2>4, ConcatEmptySeq
  <2>6. atoi(b \o e) = Value(b)
    BY <1>1, <2>3, AtoiUnsigned
  <2> QED BY <1>8, <2>1, <2>2, <2>5, <2>6 DEF Operand
<1>9. CASE right = <<"-">> \o b
  <2>1. Head(right) = "-" /\ Tail(right) = b
    BY <1>4, <1>9, HeadTailOfCons
  <2>2. right \in Seq(C) /\ Len(right) >= 1 /\ right[1] = "-"
    <3>1. <<"-">> \in Seq(C) /\ Len(<<"-">>) = 1
      BY <1>4
    <3>2. right \in Seq(C) /\ Len(right) = Len(<<"-">>) + Len(b)
      BY <1>4, <1>9, <3>1, ConcatIs
    <3>3. Len(right) >= 1
      BY <1>1, <3>1, <3>2
    <3>4. Head(right) = right[1]
      BY <3>2, <3>3
    <3> QED BY <2>1, <3>2, <3>3, <3>4
  <2>3. skip_spaces(blank \o right) = right
    <3>1. right[1] # Space
      BY <2>2, CharactersDiffer
    <3> QED BY <1>2, <1>4, <2>2, <3>1, SpacesSkipped
  <2>4. ValueOf(right) = -Value(b)
    BY <2>1 DEF ValueOf
  <2>5. -Value(b) >= INT_MIN
    BY <1>6, <1>7, <2>4 DEF InRange
  <2>6. atoi(right) = -Value(b)
    BY <1>1, <1>9, <2>5, AtoiNegative
  <2> QED BY <2>3, <2>4, <2>6 DEF Operand
<1> QED BY <1>8, <1>9 DEF Signed

(* The operand before it, which has no sign.                               *)
LEMMA OperandBefore ==
  ASSUME NEW a \in Number, NEW blank \in Blank, InRange(ValueOf(a))
  PROVE  Operand(a \o blank) = ValueOf(a) /\ ValueOf(a) = Value(a)
<1>1. a \in Seq(Figure) /\ Len(a) >= 1
  BY NumberIs
<1>2. blank \in Seq({Space})
  BY BlankIs
<1>3. PICK C : C = Figure \cup {Space}
  OBVIOUS
<1>4. blank \in Seq(C) /\ a \in Seq(C)
  BY <1>1, <1>2, <1>3, SeqMonotonic
<1>5. a[1] \in Figure /\ Head(a) = a[1]
  BY <1>1, ElementOfSeq
<1>6. ValueOf(a) = Value(a)
  BY <1>5, CharactersDiffer DEF ValueOf
<1>7. Value(a) <= INT_MAX
  <2>1. PICK h \in Nat \ {0} : INT_MAX = h - 1 /\ INT_MIN = -h
    BY IntBounds
  <2> QED BY <1>6, <2>1 DEF InRange
<1>8. atoi(a \o blank) = Value(a)
  BY <1>1, <1>2, <1>7, AtoiUnsigned
<1>9. PICK t \in Seq(C) : t = a \o blank /\ Len(t) >= 1 /\ t[1] = a[1]
  <2>1. a \o blank \in Seq(C) /\ Len(a \o blank) = Len(a) + Len(blank)
    BY <1>4, ConcatIs
  <2>2. \A i \in 1 .. Len(a) : (a \o blank)[i] = a[i]
    BY <1>4, ConcatIs
  <2>3. PICK k \in Nat, n \in Nat : k = Len(a) /\ n = Len(blank) /\ k >= 1
    BY <1>1, <1>2
  <2>4. Len(a \o blank) >= 1 /\ 1 \in 1 .. Len(a)
    BY <2>1, <2>3
  <2> QED BY <2>1, <2>2, <2>4
<1>10. PICK e \in Seq(C) : e = <<>> /\ Len(e) = 0
  <2>1. <<>> \in Seq(C) /\ Len(<<>>) = 0
    OBVIOUS
  <2> QED BY <2>1
<1>11. skip_spaces(e \o t) = t
  <2>1. t[1] # Space
    BY <1>5, <1>9, CharactersDiffer
  <2>2. \A i \in 1 .. Len(e) : e[i] = Space
    BY <1>10
  <2> QED BY <1>9, <2>1, <2>2, SpacesSkipped
<1>12. e \o t = t
  BY <1>10, ConcatEmptySeq
<1> QED BY <1>6, <1>8, <1>9, <1>11, <1>12 DEF Operand

(* No operator stands in a number or in the blanks around it.              *)
LEMMA NoOperatorIn ==
  ASSUME NEW a \in Number, NEW blank \in Blank,
         NEW C, C = Figure \cup ({Space, "-"} \cup Operators)
  PROVE  /\ a \in Seq(C) /\ blank \in Seq(C) /\ a \o blank \in Seq(C)
         /\ \A i \in 1 .. Len(a \o blank) : (a \o blank)[i] \notin Operators
<1>1. a \in Seq(Figure) /\ blank \in Seq({Space})
  BY NumberIs, BlankIs
<1>2. PICK D : D = Figure \cup {Space}
  OBVIOUS
<1>3. a \in Seq(D) /\ blank \in Seq(D)
  BY <1>1, <1>2, SeqMonotonic
<1>4. a \o blank \in Seq(D)
  BY <1>3, ConcatIs
<1>5. ASSUME NEW i \in 1 .. Len(a \o blank) PROVE (a \o blank)[i] \notin Operators
  <2>1. (a \o blank)[i] \in D
    BY <1>4, ElementOfSeq
  <2> QED BY <1>2, <2>1, CharactersDiffer
<1>6. Figure \subseteq C /\ {Space} \subseteq C /\ D \subseteq C
  BY <1>2
<1>7. a \in Seq(C) /\ blank \in Seq(C) /\ a \o blank \in Seq(C)
  BY <1>1, <1>4, <1>6, SeqMonotonic
<1> QED BY <1>5, <1>7

(* v is s and t, which stand after r.                                      *)
Joins(r, s, t, v) == v = s \o t /\ (r \o s) \o t = r \o v

LEMMA Regrouped ==
  ASSUME NEW C, NEW r \in Seq(C), NEW s \in Seq(C), NEW t \in Seq(C)
  PROVE  \E v \in Seq(C) : Joins(r, s, t, v)
<1>1. (r \o s) \o t = r \o (s \o t)
  BY ConcatAssociative
<1>2. s \o t \in Seq(C)
  BY ConcatIs
<1> QED BY <1>1, <1>2, Zenon DEF Joins

(* What cmd_calc finds in the text typed.                                  *)
LEMMA CalcParses ==
  ASSUME NEW a \in Number, NEW b \in Number, NEW op \in Operators, NEW blank \in Blank,
         NEW right \in Signed(b), InRange(ValueOf(a)), InRange(ValueOf(right))
  PROVE  LET arg == a \o blank \o <<op>> \o blank \o right IN
           /\ RightOf(arg) # <<>> /\ Head(RightOf(arg)) = op
           /\ Operand(LeftOf(arg)) = ValueOf(a)
           /\ Operand(Tail(RightOf(arg))) = ValueOf(right)
<1>1. PICK C : C = Figure \cup ({Space, "-"} \cup Operators)
  OBVIOUS
<1>2. PICK u \in Seq(C) : u = a \o blank /\ \A i \in 1 .. Len(u) : u[i] \notin Operators
  BY <1>1, NoOperatorIn
<1>3. blank \in Seq(C) /\ b \in Seq(C) /\ "-" \in C /\ op \in C
  BY <1>1, NoOperatorIn
<1>4. right \in Seq(C)
  <2>1. <<"-">> \in Seq(C)
    BY <1>3
  <2>2. <<"-">> \o b \in Seq(C)
    BY <1>3, <2>1, ConcatIs
  <2> QED BY <1>3, <2>2 DEF Signed
<1>5. PICK w \in Seq(C) : w = u \o <<op>>
  <2>1. <<op>> \in Seq(C)
    BY <1>3
  <2> QED BY <2>1, ConcatIs
<1>6. PICK v \in Seq(C) : v = blank \o right /\ (w \o blank) \o right = w \o v
  <2>1. PICK v \in Seq(C) : Joins(w, blank, right, v)
    BY <1>3, <1>4, Regrouped
  <2> QED BY <2>1, Zenon DEF Joins
<1>7. PICK arg : arg = w \o v
  OBVIOUS
<1>8. arg = a \o blank \o <<op>> \o blank \o right
  BY <1>2, <1>5, <1>6, <1>7
<1>9. /\ LeftOf(arg) = u
      /\ RightOf(arg) # <<>> /\ Head(RightOf(arg)) = op /\ Tail(RightOf(arg)) = v
  <2>1. arg = (u \o <<op>>) \o v
    BY <1>5, <1>7
  <2>2. op \in C /\ \A i \in 1 .. Len(u) : u[i] \notin Operators
    BY <1>2, <1>3
  <2>3. LeftOf((u \o <<op>>) \o v) = u
    BY <2>2, SplitAtOperator
  <2>4. /\ RightOf((u \o <<op>>) \o v) # <<>>
        /\ Head(RightOf((u \o <<op>>) \o v)) = op
        /\ Tail(RightOf((u \o <<op>>) \o v)) = v
    BY <2>2, SplitAtOperator
  <2> QED BY <2>1, <2>3, <2>4
<1>10. Operand(u) = ValueOf(a)
  BY <1>2, OperandBefore
<1>11. Operand(v) = ValueOf(right)
  BY <1>6, OperandAfter
<1> QED BY <1>8, <1>9, <1>10, <1>11

LEMMA CalcShowsTheResult ==
  ASSUME NEW a \in Number, NEW b \in Number, NEW op \in Operators, NEW blank \in Blank,
         NEW left \in Signed(a), NEW right \in Signed(b), Calc(left, op, right, blank)
  PROVE  CalcIsRight'
<1>1. asked'.op = op /\ asked'.left = left /\ asked'.right = right /\ ~halted
  BY DEF Calc, Ask
<1> SUFFICES ASSUME Head(left) # "-", InRange(ValueOf(left)), InRange(ValueOf(right))
             PROVE  /\ ~halted'
                    /\ IF op = "/" /\ ValueOf(right) = 0
                       THEN shown' = Message("Error: Division by zero.")
                       ELSE InRange(Exact(op, ValueOf(left), ValueOf(right)))
                              => Denotes(shown'[1].text,
                                         Exact(op, ValueOf(left), ValueOf(right)))
  BY <1>1, Zenon DEF CalcIsRight
<1>2. left = a
  <2>1. PICK C : C = Figure \cup {"-"}
    OBVIOUS
  <2>2. a \in Seq(C) /\ "-" \in C
    BY <2>1, NumberIs, SeqMonotonic
  <2>3. Head(<<"-">> \o a) = "-"
    BY <2>2, HeadTailOfCons
  <2> QED BY <2>3 DEF Signed
<1>3. PICK arg : arg = left \o blank \o <<op>> \o blank \o right
  OBVIOUS
<1>4. cmd_calc(arg)
  BY <1>3 DEF Calc
<1>5. PICK rest, n1, n2 : /\ rest = RightOf(arg) /\ rest # <<>> /\ Head(rest) = op
                          /\ n1 = Operand(LeftOf(arg)) /\ n1 = ValueOf(left)
                          /\ n2 = Operand(Tail(rest)) /\ n2 = ValueOf(right)
  BY <1>2, <1>3, CalcParses
<1>6. n1 # INT_MIN
  <2>1. n1 \in Nat
    BY <1>2, <1>5, OperandBefore, NumberIs, ValueIsNatural
  <2> QED BY <2>1, IntBounds
<1>7. CASE op = "/" /\ n2 = 0
  <2>1. shown' = Message("Error: Division by zero.") /\ UNCHANGED halted
    BY <1>4, <1>5, <1>6, <1>7 DEF cmd_calc
  <2> QED BY <1>1, <1>5, <1>7, <2>1
<1>8. CASE ~(op = "/" /\ n2 = 0)
  <2>1. shown' = << Row(0, itoa(Wrap(Exact(op, n1, n2)))) >> /\ UNCHANGED halted
    BY <1>4, <1>5, <1>6, <1>8 DEF cmd_calc
  <2>2. shown'[1].text = itoa(Wrap(Exact(op, n1, n2)))
    BY <2>1 DEF Row
  <2>3. ASSUME InRange(Exact(op, n1, n2))
        PROVE  Denotes(shown'[1].text, Exact(op, n1, n2))
    <3>1. PICK n \in INT_MIN .. INT_MAX : n = Exact(op, n1, n2)
      BY <2>3 DEF InRange
    <3>2. Wrap(n) = n /\ Denotes(itoa(n), n)
      BY WrapInRange, ItoaDenotes
    <3> QED BY <2>2, <3>1, <3>2
  <2> QED BY <1>1, <1>5, <1>8, <2>1, <2>3
<1> QED BY <1>7, <1>8

(* calc shows the result of the operation, when the operands and the       *)
(* result are ints, and alive shows the time that has passed (cmd_calc,    *)
(* cmd_alive, atoi, itoa): for ints of any width, numbers, blanks and      *)
(* tick counts of any size.                                                *)
THEOREM NumbersAlwaysShown == Spec => NumbersAreShown
<1>1. ASSUME [Next]_vars PROVE [(CalcIsRight /\ AliveIsRight)']_vars
  <2>1. ASSUME asked'.op \notin Operators, asked'.op # "alive"
        PROVE  CalcIsRight' /\ AliveIsRight'
    BY <2>1 DEF CalcIsRight, AliveIsRight
  <2>2. ASSUME NEW text \in TaskText, NEW arg \in TypedAs(text), TodoAdd(text, arg)
        PROVE  (CalcIsRight /\ AliveIsRight)'
    <3>1. asked'.op = "add"
      BY <2>2 DEF TodoAdd, Ask
    <3> QED BY <2>1, <3>1 DEF Operators
  <2>3. CASE TodoList
    <3>1. asked'.op = "list"
      BY <2>3 DEF TodoList, Ask
    <3> QED BY <2>1, <3>1 DEF Operators
  <2>4. ASSUME NEW id \in 0 .. TODO_MAX + 1, TodoDone(id)
        PROVE  (CalcIsRight /\ AliveIsRight)'
    <3>1. asked'.op = "done"
      BY <2>4 DEF TodoDone, Ask
    <3> QED BY <2>1, <3>1 DEF Operators
  <2>5. CASE TodoClear
    <3>1. asked'.op = "clear"
      BY <2>5 DEF TodoClear, Ask
    <3> QED BY <2>1, <3>1 DEF Operators
  <2>6. ASSUME NEW a \in Number, NEW b \in Number, NEW op \in Operators,
               NEW blank \in Blank, NEW left \in Signed(a), NEW right \in Signed(b),
               Calc(left, op, right, blank)
        PROVE  (CalcIsRight /\ AliveIsRight)'
    <3>1. CalcIsRight'
      BY <2>6, CalcShowsTheResult
    <3>2. asked'.op # "alive"
      BY <2>6 DEF Calc, Ask, Operators
    <3> QED BY <3>1, <3>2 DEF AliveIsRight
  <2>7. ASSUME NEW a \in Number, CalcNoOperator(a)
        PROVE  (CalcIsRight /\ AliveIsRight)'
    <3>1. asked'.op = "none"
      BY <2>7 DEF CalcNoOperator, Ask
    <3> QED BY <2>1, <3>1 DEF Operators
  <2>8. ASSUME NEW ticks \in Ticks, Alive(ticks)
        PROVE  (CalcIsRight /\ AliveIsRight)'
    <3>1. AliveIsRight'
      BY <2>8, AliveShowsTheTime
    <3>2. asked'.op \notin Operators
      BY <2>8 DEF Alive, Ask, Operators
    <3> QED BY <3>1, <3>2 DEF CalcIsRight
  <2>9. ASSUME NEW text \in Text, \/ \E n \in Count : Top(text, n) \/ Btm(text, n)
                                  \/ \E word \in Word : Hunt(text, word)
                                  \/ Cnt(text)
        PROVE  (CalcIsRight /\ AliveIsRight)'
    <3>1. asked'.op \in {"top", "btm", "hunt", "cnt"}
      BY <2>9 DEF Top, Btm, Hunt, Cnt, View, Ask
    <3> QED BY <2>1, <3>1 DEF Operators
  <2>10. CASE UNCHANGED vars
    BY <2>10
  <2> QED BY <1>1, <2>2, <2>3, <2>4, <2>5, <2>6, <2>7, <2>8, <2>9, <2>10 DEF Next
<1> QED BY <1>1, PTL DEF Spec, NumbersAreShown
=============================================================================
