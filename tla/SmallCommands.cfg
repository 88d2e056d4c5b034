SPECIFICATION Spec
VIEW StateView
CONSTANTS
  Width = 16
  TODO_MAX = 2
  TIMER_FREQ = 4
  Ticks <- const_Ticks
  NoTask = NoTask
  TaskText <- const_TaskText
  Number <- const_Number
  Blank <- const_Blank
  Text <- const_Text
  Word <- const_Word
  Count <- const_Count
INVARIANTS
  TodoListIsKept
PROPERTIES
  NumbersAreShown
  ViewersShowLines
\* calc can stop the machine: see halted.
CHECK_DEADLOCK FALSE
