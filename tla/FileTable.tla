------------------------------ MODULE FileTable ------------------------------
(***************************************************************************)
(* MiniFS as filesystem.c implements it: an array of slots searched from   *)
(* the first, each with a fixed data buffer of which the first size bytes  *)
(* count.  Every operation runs on the main thread, in one step.           *)
(***************************************************************************)
EXTENDS Integers, Sequences, FiniteSets

CONSTANTS FS_MAX_FILES,      \* slots of fs_table (32)
          FS_MAX_FILESIZE,   \* bytes of a slot's buffer (256)
          Name,              \* every string a caller may pass
          ValidName,         \* those of 1 to FS_MAX_FILENAME - 1 characters
          Root, Empty,       \* the strings "/root" and ""
          Byte,              \* what a written byte may be
          Content            \* bound: the contents callers write

ASSUME FileTableAssumption ==
  /\ FS_MAX_FILES \in Nat /\ FS_MAX_FILES >= 1
  /\ FS_MAX_FILESIZE \in Nat
  /\ ValidName \subseteq Name
  /\ Root \in ValidName /\ Empty \notin ValidName
  /\ Content \subseteq Seq(Byte)

VARIABLES fs_table,
          ret          \* what the last call returned: a code, the bytes read

fsVars == <<fs_table, ret>>

Slots == 0 .. FS_MAX_FILES - 1
Offsets == 1 .. FS_MAX_FILESIZE

Zero == 0     \* the byte memset leaves behind

(* A slot after memset. *)
Cleared == [used |-> FALSE, name |-> Empty, size |-> 0, is_dir |-> FALSE,
            data |-> [i \in Offsets |-> Zero]]

-----------------------------------------------------------------------------
(* fs_find and fs_free_slot return the first slot of their kind. *)

Matches(i, name) == fs_table[i].used /\ fs_table[i].name = name

Finds(i, name) == /\ Matches(i, name)
                  /\ \A j \in 0 .. i - 1 : ~Matches(j, name)

NotFound(name) == \A i \in Slots : ~Matches(i, name)

FreeSlot(i) == /\ ~fs_table[i].used
               /\ \A j \in 0 .. i - 1 : fs_table[j].used

(* Faulty variants of definitions below, against which the properties are  *)
(* tried: no look-up before a name is taken, no truncation, a copy one     *)
(* byte short, a size that never shrinks.                                  *)
CanCreateTwice(name) == name \in ValidName
FitUnbounded(data) == Len(data)
CopiedShort(old, data) ==
  [k \in Offsets |-> IF k < Len(data) THEN data[k] ELSE old[k]]
SizeGrows(old, data) == IF old > Len(data) THEN old
                        ELSE IF Len(data) > FS_MAX_FILESIZE THEN FS_MAX_FILESIZE
                        ELSE Len(data)

NoFreeSlot == \A i \in Slots : fs_table[i].used

Returns(code, data) == ret' = [code |-> code, data |-> data]

Fail == Returns(-1, <<>>) /\ UNCHANGED fs_table

(* memset, then fs_create_dir(Root). *)
FsInit == /\ fs_table = [i \in Slots |->
                           IF i = 0 THEN [Cleared EXCEPT !.used = TRUE,
                                                         !.name = Root,
                                                         !.is_dir = TRUE]
                                    ELSE Cleared]
          /\ ret = [code |-> 0, data |-> <<>>]

CanCreate(name) == name \in ValidName /\ NotFound(name)

(* fs_create and fs_create_dir: the same but for is_dir.  The buffer keeps *)
(* whatever it held, only size is reset.                                   *)
Create(name, is_dir) ==
  \/ /\ CanCreate(name)
     /\ \E i \in Slots :
          /\ FreeSlot(i)
          /\ fs_table' = [fs_table EXCEPT ![i].name = name, ![i].size = 0,
                                          ![i].used = TRUE, ![i].is_dir = is_dir]
     /\ Returns(0, <<>>)
  \/ /\ ~CanCreate(name) \/ NoFreeSlot
     /\ Fail

(* How many bytes of data fs_write keeps. *)
Fit(data) == IF Len(data) > FS_MAX_FILESIZE THEN FS_MAX_FILESIZE ELSE Len(data)

Copied(old, data) ==
  [k \in Offsets |-> IF k <= Fit(data) THEN data[k] ELSE old[k]]

NewSize(old, data) == Fit(data)

fs_write(name, data) ==
  \/ \E i \in Slots :
       /\ Finds(i, name)
       /\ ~fs_table[i].is_dir
       /\ fs_table' = [fs_table EXCEPT ![i].data = Copied(@, data),
                                       ![i].size = NewSize(@, data)]
       /\ Returns(Fit(data), <<>>)
  \/ /\ NotFound(name) \/ \E i \in Slots : Finds(i, name) /\ fs_table[i].is_dir
     /\ Fail

(* What the callers' buffers, of FS_MAX_FILESIZE + 1 bytes, receive. *)
ContentOf(i) == [k \in 1 .. fs_table[i].size |-> fs_table[i].data[k]]

fs_read(name) ==
  \/ \E i \in Slots :
       /\ Finds(i, name)
       /\ ~fs_table[i].is_dir
       /\ Returns(fs_table[i].size, ContentOf(i))
       /\ UNCHANGED fs_table
  \/ /\ NotFound(name) \/ \E i \in Slots : Finds(i, name) /\ fs_table[i].is_dir
     /\ Fail

fs_delete(name) ==
  \/ \E i \in Slots :
       /\ Finds(i, name)
       /\ fs_table' = [fs_table EXCEPT ![i] = Cleared]
       /\ Returns(0, <<>>)
  \/ NotFound(name) /\ Fail

FsNext == \E name \in Name :
            \/ \E is_dir \in BOOLEAN : Create(name, is_dir)
            \/ \E data \in Content : fs_write(name, data)
            \/ fs_read(name)
            \/ fs_delete(name)

FsSpec == FsInit /\ [][FsNext]_fsVars

-----------------------------------------------------------------------------
Entry == [used : BOOLEAN, name : Name \cup {Empty}, size : 0 .. FS_MAX_FILESIZE,
          is_dir : BOOLEAN, data : [Offsets -> Byte \cup {Zero}]]

FsTypeOK == fs_table \in [Slots -> Entry]

(* No two slots hold the same name, so that a search that stops at the     *)
(* first match misses nothing: an entry once deleted is gone.              *)
UniqueNames == \A i, j \in Slots :
                 (fs_table[i].used /\ fs_table[j].used
                    /\ fs_table[i].name = fs_table[j].name) => i = j

(* Every entry can be found again by a name the interface accepts. *)
NamesAreValid == \A i \in Slots : fs_table[i].used => fs_table[i].name \in ValidName

(* The bytes of a file up to its size were written to it: no zero byte of  *)
(* memset and no byte of the slot's previous owner is ever read.           *)
OnlyWrittenBytes == \A i \in Slots : ContentOf(i) \in Seq(Byte)

FsInv == FsTypeOK /\ UniqueNames /\ NamesAreValid /\ OnlyWrittenBytes

-----------------------------------------------------------------------------
Used == {i \in Slots : fs_table[i].used}

SlotOf(name) == CHOOSE i \in Used : fs_table[i].name = name

Stored == [name \in {fs_table[i].name : i \in Used} |->
             [is_dir |-> fs_table[SlotOf(name)].is_dir,
              data   |-> ContentOf(SlotOf(name))]]

Abstract == INSTANCE FileStore
              WITH MaxEntries <- FS_MAX_FILES, MaxSize <- FS_MAX_FILESIZE,
                   store <- Stored

(* The table is a bounded map: operations touch the named entry alone, a   *)
(* new file is empty, a write replaces and truncates, every call succeeds  *)
(* or fails as the map says and returns what the map returns.              *)
ImplementsStore == Abstract!Spec
=============================================================================
