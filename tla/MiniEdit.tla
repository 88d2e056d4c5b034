------------------------------ MODULE MiniEdit ------------------------------
(***************************************************************************)
(* The editor of editor.c at its terminal: keys act on the end of          *)
(* edit_buffer and echo to the cursor, which is never set from the buffer. *)
(* One file is edited again and again; the terminal takes each character   *)
(* at once, interrupts being the business of Screen.                       *)
(***************************************************************************)
EXTENDS Terminal, SequencesExt

CONSTANTS FS_MAX_FILESIZE,
          Byte,              \* printable characters
          Rule, Bell,        \* the characters "-" and "!"
          Header,            \* header lines a file's name may give
          Message,           \* what an error or a save prints
          NoFile

(* All of a file without newlines fits on the page. *)
ASSUME MiniEditAssumption ==
  /\ VGA_ROWS \in Nat \ {0} /\ VGA_COLS \in Nat \ {0}
  /\ FS_MAX_FILESIZE \in Nat /\ FS_MAX_FILESIZE < VGA_COLS * (VGA_ROWS - 1)

(* Only what is typed or printed as such moves the cursor otherwise than   *)
(* by one.                                                                 *)
Control == {Newline, CarriageReturn, Backspace, Tab}

ASSUME EditorCharacters ==
  /\ (Byte \cup {Rule, Bell}) \cap Control = {}
  /\ \A head \in Header : head \in Seq(Range(head)) /\ Range(head) \cap Control = {}
  /\ Message \in Seq(Range(Message))

EDITOR_DIVIDER_WIDTH == VGA_COLS

VARIABLES t,         \* the terminal
          mode,      \* "shell" or "editing"
          file,      \* what the file system holds, or NoFile
          header,    \* the header line with the file's name
          edit_buffer,
          astray     \* history: the cursor has lost the text's end

vars == <<t, mode, file, header, edit_buffer, astray>>

Init == /\ t = Fresh
        /\ mode = "shell"
        /\ file = NoFile
        /\ header \in Header
        /\ edit_buffer = <<>>
        /\ astray = FALSE

-----------------------------------------------------------------------------
(* Output *)

WriteString(term, str) ==
  LET after[n \in 0 .. Len(str)] ==      \* the first n characters
        IF n = 0 THEN term ELSE PutChar(after[n - 1], str[n])
  IN  after[Len(str)]

Divider == [i \in 1 .. EDITOR_DIVIDER_WIDTH |-> Rule] \o <<Newline>>

(* The page an empty file is edited on. *)
EditorPage(term, head) == WriteString(Clear(term), head \o <<Newline>> \o Divider)

(* A faulty variant, against which the property is tried: the bell is not  *)
(* erased.                                                                 *)
BellStays == <<Bell>>

VisualBell == <<Bell, Backspace>>

-----------------------------------------------------------------------------
(* editor_open *)

Loaded == IF file = NoFile THEN <<>> ELSE file

Open ==
  /\ mode = "shell"
  /\ mode' = "editing"
  /\ edit_buffer' = Loaded
  /\ file' = Loaded
  /\ t' = WriteString(EditorPage(t, header), Loaded)
  /\ astray' = FALSE
  /\ UNCHANGED header

(* A new file that fs_create refuses. *)
OpenFails == /\ mode = "shell"
             /\ file = NoFile
             /\ t' = WriteString(t, Message)
             /\ UNCHANGED <<mode, file, header, edit_buffer, astray>>

-----------------------------------------------------------------------------
(* run_editor_input_loop *)

Echo(chars) == t' = WriteString(t, chars)

Editing == mode = "editing" /\ UNCHANGED <<mode, file, header>>

HasRoom == Len(edit_buffer) < FS_MAX_FILESIZE

PrintableChar(c) == /\ Editing
                    /\ HasRoom
                    /\ edit_buffer' = Append(edit_buffer, c)
                    /\ Echo(<<c>>)
                    /\ UNCHANGED astray

PrintableCharWhenFull == /\ Editing
                         /\ ~HasRoom
                         /\ Echo(VisualBell)
                         /\ UNCHANGED <<edit_buffer, astray>>

EnterKey == /\ Editing
            /\ HasRoom
            /\ edit_buffer' = Append(edit_buffer, Newline)
            /\ Echo(<<Newline>>)
            /\ UNCHANGED astray

(* The cursor steps back to the end of a row even where a newline ended    *)
(* the line earlier.                                                       *)
BackspaceKey == /\ Editing
                /\ edit_buffer # <<>>
                /\ edit_buffer' = Front(edit_buffer)
                /\ Echo(<<Backspace>>)
                /\ astray' = (astray \/ Last(edit_buffer) = Newline)

Esc == /\ mode = "editing"
       /\ mode' = "shell"
       /\ file' = edit_buffer
       /\ Echo(<<Newline>> \o Divider \o Message)
       /\ UNCHANGED <<header, edit_buffer, astray>>

Next == \/ Open
        \/ OpenFails
        \/ \E c \in Byte : PrintableChar(c)
        \/ PrintableCharWhenFull
        \/ EnterKey
        \/ BackspaceKey
        \/ Esc

Spec == Init /\ [][Next]_vars

-----------------------------------------------------------------------------
(* The page as it would be, had the file been opened with this text. *)
Typeset == WriteString(EditorPage(Fresh, header), edit_buffer)

(* Up to the row of the cursor the two pages show the same lines, as far   *)
(* up as neither has scrolled them off; below it there is nothing.         *)
ShowsTheSame(a, b) ==
  /\ a.col = b.col
  /\ \A k \in 0 .. a.row : k <= b.row => a.page[a.row - k] = b.page[b.row - k]
  /\ \A r \in a.row + 1 .. VGA_ROWS - 1 : a.page[r] = BlankLine

(* The user sees the end of what will be saved, with the cursor after it   *)
(* and the header and divider undamaged above it: whatever was typed,      *)
(* refused and erased, over row ends and scrolls of the page, as long as   *)
(* no newline was erased.                                                  *)
ScreenShowsBuffer ==
  (mode = "editing" /\ ~astray) => ShowsTheSame(t, Typeset)
=============================================================================
