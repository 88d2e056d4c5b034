----------------------------- MODULE ShellFiles -----------------------------
(***************************************************************************)
(* The file commands of shell.c and the editor of editor.c as clients of   *)
(* MiniFS.  A command that makes several calls of filesystem.c makes them  *)
(* one step each and looks at every return code where the code does.       *)
(*                                                                         *)
(* A path is the sequence of its components and whether it begins with a   *)
(* slash.  Arguments are short enough that no buffer truncates them.       *)
(***************************************************************************)
EXTENDS FileTable, SequencesExt

CONSTANTS Arg,             \* paths the user types
          WithExtension    \* components of the form name.ext

VARIABLES current_dir,
          pc,      \* the call the running command makes next, or "prompt"
          job      \* its local variables: command, paths, buffer

shellVars == <<fsVars, current_dir, pc, job>>

Slash == [abs |-> TRUE, parts |-> <<>>]
NoJob == [cmd |-> "none", src |-> Empty, dst |-> Empty, buf |-> <<>>]

(* resolve_path keeps an absolute path to the 63 characters that fs_create *)
(* accepts.                                                                *)
ASSUME PathsAssumption ==
  /\ Slash \in Name /\ Empty \in Name /\ Root.abs
  /\ \A n \in Name : n.abs => n \in ValidName

ShellInit == /\ FsInit
             /\ current_dir = Root
             /\ pc = "prompt"
             /\ job = NoJob

(* What keyboard_readline delivers: one byte less than a file holds. *)
Typed == {data \in Content : Len(data) < FS_MAX_FILESIZE}

-----------------------------------------------------------------------------
(* Faulty variants, against which the properties are tried: a relative     *)
(* path taken as it is, a failed creation taken for a success, a buffer    *)
(* one byte longer than a file.                                            *)
ResolveAsIs(a) == a
CreatedOrNot(code) == TRUE
EditorRoomForOneMore == Len(job.buf) <= FS_MAX_FILESIZE

-----------------------------------------------------------------------------
(* resolve_path; a path out of Name is out of the model's bound. *)
Resolve(a) == IF a.abs THEN a
              ELSE [abs |-> TRUE, parts |-> current_dir.parts \o a.parts]

(* fs_is_dir: the file system's root needs no entry. *)
IsDir(path) == path = Slash \/ \E i \in Slots : Finds(i, path) /\ fs_table[i].is_dir

(* mov keeps the last component of its source. *)
Into(dir, src) == [abs |-> dir.abs, parts |-> Append(dir.parts, Last(src.parts))]

AtPrompt == pc = "prompt"

Immediate == AtPrompt /\ UNCHANGED <<current_dir, pc, job>>

(* The running command returns: its locals are gone. *)
Finish == pc' = "prompt" /\ job' = NoJob

Continue(next, buf) == pc' = next /\ job' = [job EXCEPT !.buf = buf]

-----------------------------------------------------------------------------
(* Commands of one call *)

CmdNew(a) == /\ Immediate
             /\ a.parts # <<>> /\ Last(a.parts) \in WithExtension
             /\ Create(Resolve(a), FALSE)

CmdMkd(a) == Immediate /\ Create(Resolve(a), TRUE)

CmdWrite(a, text) == Immediate /\ fs_write(Resolve(a), text)

(* see, look, top, btm, notes view *)
CmdSee(a) == Immediate /\ fs_read(Resolve(a))

(* cnt and hunt pass on the file name as it was typed, as do the keys R    *)
(* and D of fm.                                                            *)
Counted(a) == a

CmdCnt(a) == Immediate /\ fs_read(Counted(a))

(* del and deld: neither asks what it deletes. *)
CmdDel(a) == Immediate /\ fs_delete(Resolve(a))

FmDelete(a) == Immediate /\ fs_delete(a)

(* goto: without an argument, with "..", with a path. *)
Parent == IF current_dir \in {Slash, Root} THEN current_dir
          ELSE [abs |-> TRUE, parts |-> Front(current_dir.parts)]

CmdGoto(dir) == /\ AtPrompt
                /\ IsDir(dir)
                /\ current_dir' = dir
                /\ UNCHANGED <<fsVars, pc, job>>

-----------------------------------------------------------------------------
(* Commands of several calls *)

Begin(cmd, src, dst, buf, first) ==
  /\ AtPrompt
  /\ job' = [cmd |-> cmd, src |-> src, dst |-> dst, buf |-> buf]
  /\ pc' = first
  /\ UNCHANGED <<fsVars, current_dir>>

CmdCpy(a, b) == Begin("cpy", Resolve(a), Resolve(b), <<>>, "read")
CmdRename(a, b) == Begin("rename", Resolve(a), Resolve(b), <<>>, "read")
CmdMov(a, b) == /\ a # Slash
                /\ IsDir(Resolve(b))
                /\ Into(Resolve(b), Resolve(a)) \in Name    \* bound
                /\ Begin("mov", Resolve(a), Into(Resolve(b), Resolve(a)), <<>>, "read")
CmdEdit(a) == Begin("edit", Resolve(a), Resolve(a), <<>>, "read")
CmdNotesNew(a, body) == Begin("notes", Empty, Resolve(a), body, "create")
FmCreate(a, text) == Begin("fm", Empty, a, text, "create")

Read == /\ pc = "read"
        /\ fs_read(job.src)
        /\ \/ /\ ret'.code >= 0
              /\ Continue(IF job.cmd = "edit" THEN "editing" ELSE "create", ret'.data)
           \/ ret'.code < 0 /\ job.cmd = "edit" /\ Continue("create", <<>>)
           \/ ret'.code < 0 /\ job.cmd # "edit" /\ Finish
        /\ UNCHANGED current_dir

(* notes new does not look at what fs_create returns. *)
Created(code) == code = 0 \/ job.cmd = "notes"

CreateFile == /\ pc = "create"
              /\ Create(job.dst, FALSE)
              /\ \/ /\ Created(ret'.code)
                    /\ Continue(IF job.cmd = "edit" THEN "editing" ELSE "write", job.buf)
                 \/ ~Created(ret'.code) /\ Finish
              /\ UNCHANGED current_dir

WriteFile == /\ pc = "write"
             /\ fs_write(job.dst, job.buf)
             /\ \/ job.cmd \in {"mov", "rename"} /\ Continue("delete", job.buf)
                \/ job.cmd \notin {"mov", "rename"} /\ Finish
             /\ UNCHANGED current_dir

DeleteSource == /\ pc = "delete"
                /\ fs_delete(job.src)
                /\ Finish
                /\ UNCHANGED current_dir

(* MiniEdit: keys act on the end of edit_buffer, ESC writes it. *)
RoomInBuffer == Len(job.buf) < FS_MAX_FILESIZE

EditorKey == /\ pc = "editing"
             /\ \/ /\ RoomInBuffer
                   /\ \E ch \in Byte : Continue("editing", Append(job.buf, ch))
                \/ /\ job.buf # <<>>
                   /\ Continue("editing", Front(job.buf))
             /\ UNCHANGED <<fsVars, current_dir>>

EditorEsc == /\ pc = "editing"
             /\ fs_write(job.dst, job.buf)
             /\ Finish
             /\ UNCHANGED current_dir

-----------------------------------------------------------------------------
(* Bound: the paths a command names are in Name. *)
Within(a) == a \in Name /\ Resolve(a) \in Name

Command(a) == \/ CmdNew(a) \/ CmdMkd(a) \/ CmdSee(a) \/ CmdCnt(a)
              \/ CmdDel(a) \/ FmDelete(a) \/ CmdEdit(a) \/ CmdGoto(Resolve(a))
              \/ \E text \in Typed : CmdWrite(a, text) \/ CmdNotesNew(a, text)
                                       \/ FmCreate(a, text)

CommandOfTwo(a, b) == CmdCpy(a, b) \/ CmdRename(a, b) \/ CmdMov(a, b)

ShellNext == \/ \E a \in Arg : Within(a) /\ Command(a)
             \/ \E a, b \in Arg : Within(a) /\ Within(b) /\ CommandOfTwo(a, b)
             \/ CmdGoto(Root) \/ CmdGoto(Parent)
             \/ Read \/ CreateFile \/ WriteFile \/ DeleteSource
             \/ EditorKey \/ EditorEsc

ShellSpec == ShellInit /\ [][ShellNext]_shellVars

-----------------------------------------------------------------------------
(* The table is well formed, the working directory is an absolute path,    *)
(* and the buffer of a command fits a file.                                *)
ShellTypeOK ==
  /\ FsTypeOK
  /\ current_dir \in Name /\ current_dir.abs
  /\ pc \in {"prompt", "read", "create", "write", "delete", "editing"}
  /\ job.cmd \in {"none", "cpy", "mov", "rename", "edit", "notes", "fm"}
  /\ job.src \in Name /\ job.dst \in Name
  /\ job.buf \in Seq(Byte) /\ Len(job.buf) <= FS_MAX_FILESIZE

HasFile(path) == path \in DOMAIN Stored /\ ~Stored[path].is_dir

(* mov and rename never lose a file: when they delete their source, all of *)
(* it is stored under another name.                                        *)
MoveKeepsContent ==
  pc = "delete" =>
    /\ HasFile(job.src) /\ HasFile(job.dst) /\ job.src # job.dst
    /\ Stored[job.dst] = Stored[job.src]

(* cpy, mov, rename and fm only ever fill a file they have just created:   *)
(* they overwrite nothing.                                                 *)
CopiesOverwriteNothing ==
  (pc = "write" /\ job.cmd # "notes")
    => HasFile(job.dst) /\ Stored[job.dst].data = <<>>

(* The step in which one of these commands writes its buffer and returns.  *)
SaveIsComplete(cmds) ==
  (pc \in {"write", "editing"} /\ job.cmd \in cmds /\ pc' # pc)
    => /\ job.dst \in DOMAIN Stored'
       /\ Stored'[job.dst] = [is_dir |-> FALSE, data |-> job.buf]

(* What a copy holds or the editor shows is what ends up in the file, to   *)
(* the last byte of a full one.  notes new, which does not look at what     *)
(* fs_create returns before it prints "Saved.", saves its note too, unless *)
(* the name is a directory's or it is new and the table is full.           *)
NoteIsRefused ==
  /\ job.cmd = "notes"
  /\ job.dst \in DOMAIN Stored => Stored[job.dst].is_dir
  /\ job.dst \in DOMAIN Stored \/ Cardinality(Used) = FS_MAX_FILES

SavesAreComplete ==
  [][(pc \in {"write", "editing"} /\ pc' # pc /\ ~NoteIsRefused) =>
        /\ job.dst \in DOMAIN Stored'
        /\ Stored'[job.dst] = [is_dir |-> FALSE, data |-> job.buf]]_shellVars
=============================================================================
