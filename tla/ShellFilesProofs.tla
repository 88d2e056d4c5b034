-------------------------- MODULE ShellFilesProofs --------------------------
(***************************************************************************)
(* The commands of the shell and the editor, as clients of MiniFS, lose,   *)
(* overwrite and truncate nothing, whatever the names, the contents and    *)
(* the size of the table.  First the table of slots is shown to be the     *)
(* bounded map of FileStore; then each call the commands make is taken for *)
(* what FileStore says of it, so that the slots are out of the argument.   *)
(* Last, what laf and dtree list is shown to be the tree in the table's    *)
(* names.                                                                  *)
(***************************************************************************)
EXTENDS Listings, SequenceTheorems, FiniteSetTheorems, WellFoundedInduction, TLAPS

-----------------------------------------------------------------------------
(***************************************************************************)
(* MiniFS keeps its table consistent whatever the names, the contents, the *)
(* number of slots and the size of their buffers.                          *)
(***************************************************************************)

USE FileTableAssumption DEF FileTableAssumption, Slots

(* The bytes up to the size are written ones, slot by slot: the form of    *)
(* OnlyWrittenBytes that the steps are followed in.                        *)
Written(i) == \A k \in 1 .. fs_table[i].size : fs_table[i].data[k] \in Byte

(* Only written bytes are in a file's size: a statement on each slot       *)
(* apart.                                                                  *)
LEMMA WrittenBytes ==
  ASSUME FsTypeOK
  PROVE  OnlyWrittenBytes <=> \A i \in Slots : Written(i)
<1>1. ASSUME NEW i \in Slots, Written(i) PROVE ContentOf(i) \in Seq(Byte)
  <2>1. fs_table[i].size \in Nat
    BY DEF FsTypeOK, Entry
  <2>2. ContentOf(i) \in [1 .. fs_table[i].size -> Byte]
    BY <1>1 DEF Written, ContentOf
  <2> QED BY <2>1, <2>2
<1>2. ASSUME NEW i \in Slots, ContentOf(i) \in Seq(Byte) PROVE Written(i)
  <2>1. fs_table[i].size \in Nat
    BY DEF FsTypeOK, Entry
  <2>2. PICK n \in Nat : ContentOf(i) \in [1 .. n -> Byte]
    BY <1>2
  <2>3. DOMAIN ContentOf(i) = 1 .. fs_table[i].size
    BY DEF ContentOf
  <2>4. ASSUME NEW k \in 1 .. fs_table[i].size PROVE fs_table[i].data[k] \in Byte
    <3>1. ContentOf(i)[k] = fs_table[i].data[k]
      BY DEF ContentOf
    <3>2. k \in 1 .. n
      BY <2>2, <2>3
    <3> QED BY <2>2, <3>1, <3>2
  <2> QED BY <2>4 DEF Written
<1> QED BY <1>1, <1>2 DEF OnlyWrittenBytes

(* What fs_write keeps of a content fits the buffer and the content.       *)
LEMMA FitBounds ==
  ASSUME NEW data \in Seq(Byte)
  PROVE  /\ data \in Seq(Byte)
         /\ Fit(data) \in 0 .. FS_MAX_FILESIZE
         /\ Fit(data) <= Len(data)
         /\ \A k \in 1 .. Fit(data) : data[k] \in Byte
<1>1. data \in Seq(Byte) /\ Len(data) \in Nat
  OBVIOUS
<1>2. Fit(data) \in 0 .. FS_MAX_FILESIZE /\ Fit(data) <= Len(data)
  BY <1>1 DEF Fit
<1>3. ASSUME NEW k \in 1 .. Fit(data) PROVE data[k] \in Byte
  <2>1. k \in 1 .. Len(data)
    BY <1>1, <1>2
  <2> QED BY <1>1, <2>1
<1> QED BY <1>1, <1>2, <1>3

(* The four parts of FsInv, with the bytes slot by slot.                   *)
SlotsOK == /\ FsTypeOK /\ UniqueNames /\ NamesAreValid
           /\ \A i \in Slots : Written(i)

(* The table's invariant, slot by slot.                                    *)
LEMMA InvIsSlotsOK == FsInv <=> SlotsOK
BY WrittenBytes DEF FsInv, SlotsOK

(* The assignments of fs_create, and those FsInit makes to the first slot, *)
(* keep an entry an entry.                                                 *)
LEMMA TakenSlot ==
  ASSUME NEW e \in Entry, NEW name \in Name, NEW is_dir \in BOOLEAN
  PROVE  [e EXCEPT !.name = name, !.size = 0, !.used = TRUE, !.is_dir = is_dir] \in Entry
<1>1. PICK e1 \in Entry : e1 = [e EXCEPT !.name = name]
  BY DEF Entry
<1>2. PICK e2 \in Entry : e2 = [e1 EXCEPT !.size = 0]
  <2>1. 0 \in 0 .. FS_MAX_FILESIZE
    OBVIOUS
  <2>2. [e1 EXCEPT !.size = 0] \in Entry
    BY <2>1 DEF Entry
  <2> QED BY <2>2
<1>3. PICK e3 \in Entry : e3 = [e2 EXCEPT !.used = TRUE]
  BY DEF Entry
<1>4. [e3 EXCEPT !.is_dir = is_dir] \in Entry
  BY DEF Entry
<1> QED BY <1>1, <1>2, <1>3, <1>4

(* The root directory that FsInit makes is an entry.                       *)
LEMMA EntryMadeRoot ==
  ASSUME NEW e \in Entry
  PROVE  [e EXCEPT !.used = TRUE, !.name = Root, !.is_dir = TRUE] \in Entry
<1>1. PICK e1 \in Entry : e1 = [e EXCEPT !.used = TRUE]
  BY DEF Entry
<1>2. PICK e2 \in Entry : e2 = [e1 EXCEPT !.name = Root]
  BY DEF Entry
<1>3. [e2 EXCEPT !.is_dir = TRUE] \in Entry
  BY DEF Entry
<1> QED BY <1>1, <1>2, <1>3

(* A new entry takes a free slot and a name no slot holds.                 *)
LEMMA CreatePreserves ==
  ASSUME SlotsOK, NEW name \in Name, NEW is_dir \in BOOLEAN, Create(name, is_dir)
  PROVE  SlotsOK'
<1>1. CASE UNCHANGED fs_table
  BY <1>1 DEF SlotsOK, FsTypeOK, UniqueNames, NamesAreValid, Written
<1>2. CASE /\ CanCreate(name)
           /\ \E i \in Slots :
                /\ FreeSlot(i)
                /\ fs_table' = [fs_table EXCEPT ![i].name = name, ![i].size = 0,
                                          ![i].used = TRUE, ![i].is_dir = is_dir]
  <2>1. PICK i \in Slots :
          /\ FreeSlot(i)
          /\ fs_table' = [fs_table EXCEPT ![i].name = name, ![i].size = 0,
                                          ![i].used = TRUE, ![i].is_dir = is_dir]
    BY <1>2
  <2>2. fs_table \in [Slots -> Entry]
    BY DEF SlotsOK, FsTypeOK
  <2>3. fs_table' = [fs_table EXCEPT ![i] =
           [fs_table[i] EXCEPT !.name = name, !.size = 0, !.used = TRUE,
                               !.is_dir = is_dir]]
    BY <2>1, <2>2 DEF Entry
  <2>4. [fs_table[i] EXCEPT !.name = name, !.size = 0, !.used = TRUE,
                            !.is_dir = is_dir] \in Entry
    BY <2>2, TakenSlot
  <2>5. FsTypeOK'
    BY <2>2, <2>3, <2>4 DEF FsTypeOK
  <2>6. /\ fs_table'[i].name = name /\ fs_table'[i].size = 0 /\ fs_table'[i].used
        /\ \A j \in Slots \ {i} : fs_table'[j] = fs_table[j]
    BY <2>2, <2>3 DEF Entry
  <2>7. name \in ValidName /\ \A j \in Slots : ~(fs_table[j].used /\ fs_table[j].name = name)
    BY <1>2 DEF CanCreate, NotFound, Matches
  <2>8. UniqueNames'
    BY <2>6, <2>7 DEF SlotsOK, UniqueNames
  <2>9. NamesAreValid'
    BY <2>6, <2>7 DEF SlotsOK, NamesAreValid
  <2>10. ASSUME NEW j \in Slots PROVE Written(j)'
    BY <2>6 DEF SlotsOK, Written
  <2> QED BY <2>5, <2>8, <2>9, <2>10 DEF SlotsOK
<1> QED BY <1>1, <1>2 DEF Create, Fail

(* A write changes the buffer and the size of the slot it found.           *)
LEMMA WritePreserves ==
  ASSUME SlotsOK, NEW name \in Name, NEW data \in Seq(Byte), fs_write(name, data)
  PROVE  SlotsOK'
<1>1. CASE UNCHANGED fs_table
  BY <1>1 DEF SlotsOK, FsTypeOK, UniqueNames, NamesAreValid, Written
<1>2. CASE \E i \in Slots :
             fs_table' = [fs_table EXCEPT ![i].data = Copied(@, data),
                                          ![i].size = NewSize(@, data)]
  <2>1. PICK i \in Slots :
          fs_table' = [fs_table EXCEPT ![i].data = Copied(@, data),
                                       ![i].size = NewSize(@, data)]
    BY <1>2
  <2>2. fs_table \in [Slots -> Entry]
    BY DEF SlotsOK, FsTypeOK
  <2> DEFINE new == [fs_table[i] EXCEPT !.data = Copied(fs_table[i].data, data),
                                        !.size = Fit(data)]
  <2>3. fs_table' = [fs_table EXCEPT ![i] = new]
    BY <2>1, <2>2 DEF Entry, NewSize
  <2>4. Copied(fs_table[i].data, data) \in [Offsets -> Byte \cup {Zero}]
    <3>1. fs_table[i].data \in [Offsets -> Byte \cup {Zero}]
      BY <2>2 DEF Entry
    <3>2. ASSUME NEW k \in Offsets, k <= Fit(data) PROVE data[k] \in Byte
      <4>1. k \in 1 .. Fit(data)
        BY <3>2, FitBounds DEF Offsets
      <4> QED BY <4>1, FitBounds
    <3> QED BY <3>1, <3>2 DEF Copied
  <2>5. new \in Entry
    BY <2>2, <2>4, FitBounds DEF Entry
  <2>6. FsTypeOK'
    BY <2>2, <2>3, <2>5 DEF FsTypeOK
  <2>7. \A j \in Slots : /\ fs_table'[j].used = fs_table[j].used
                         /\ fs_table'[j].name = fs_table[j].name
    BY <2>2, <2>3 DEF Entry
  <2>8. UniqueNames' /\ NamesAreValid'
    BY <2>7 DEF SlotsOK, UniqueNames, NamesAreValid
  <2>9. ASSUME NEW j \in Slots PROVE Written(j)'
    <3>1. CASE j = i
      <4>1. fs_table'[j] = new
        BY <2>2, <2>3, <3>1
      <4>2. /\ fs_table'[j].size = Fit(data)
            /\ fs_table'[j].data = Copied(fs_table[i].data, data)
        BY <2>2, <4>1 DEF Entry
      <4>3. ASSUME NEW k \in 1 .. Fit(data) PROVE fs_table'[j].data[k] \in Byte
        <5>1. k \in Offsets /\ k <= Fit(data)
          BY FitBounds DEF Offsets
        <5> QED BY <4>2, <5>1, FitBounds DEF Copied
      <4> QED BY <4>2, <4>3 DEF Written
    <3>2. CASE j # i
      <4>1. fs_table'[j] = fs_table[j]
        BY <2>2, <2>3, <3>2
      <4> QED BY <4>1 DEF SlotsOK, Written
    <3> QED BY <3>1, <3>2
  <2> QED BY <2>6, <2>8, <2>9 DEF SlotsOK
<1> QED BY <1>1, <1>2 DEF fs_write, Fail

(* A deletion clears a slot.                                               *)
LEMMA DeletePreserves ==
  ASSUME SlotsOK, NEW name \in Name, fs_delete(name)
  PROVE  SlotsOK'
<1>1. CASE UNCHANGED fs_table
  BY <1>1 DEF SlotsOK, FsTypeOK, UniqueNames, NamesAreValid, Written
<1>2. CASE \E i \in Slots : fs_table' = [fs_table EXCEPT ![i] = Cleared]
  <2>1. PICK i \in Slots : fs_table' = [fs_table EXCEPT ![i] = Cleared]
    BY <1>2
  <2>2. fs_table \in [Slots -> Entry] /\ Cleared \in Entry
    BY DEF SlotsOK, FsTypeOK, Cleared, Entry
  <2>3. ~fs_table'[i].used /\ fs_table'[i].size = 0
    BY <2>1, <2>2 DEF Cleared
  <2>4. \A j \in Slots \ {i} : fs_table'[j] = fs_table[j]
    BY <2>1, <2>2
  <2>5. FsTypeOK'
    BY <2>1, <2>2 DEF FsTypeOK
  <2>6. UniqueNames' /\ NamesAreValid'
    BY <2>3, <2>4 DEF SlotsOK, UniqueNames, NamesAreValid
  <2>7. ASSUME NEW j \in Slots PROVE Written(j)'
    BY <2>3, <2>4 DEF SlotsOK, Written
  <2> QED BY <2>5, <2>6, <2>7 DEF SlotsOK
<1> QED BY <1>1, <1>2 DEF fs_delete, Fail

(* FsInit leaves a table that is consistent.                               *)
LEMMA InitSlotsOK == FsInit => SlotsOK
<1> SUFFICES ASSUME FsInit PROVE SlotsOK
  OBVIOUS
<1>1. Cleared \in Entry /\ ~Cleared.used /\ Cleared.size = 0
  BY DEF Cleared, Entry
<1> DEFINE root == [Cleared EXCEPT !.used = TRUE, !.name = Root, !.is_dir = TRUE]
<1>2. root \in Entry /\ root.used /\ root.size = 0 /\ root.name = Root
  <2>1. Cleared \in Entry /\ Root \in Name
    BY <1>1
  <2>2. root.used /\ root.size = 0 /\ root.name = Root
    BY DEF Cleared
  <2> QED BY <2>1, <2>2, EntryMadeRoot
<1>3. 0 \in Slots /\ fs_table = [i \in Slots |-> IF i = 0 THEN root ELSE Cleared]
  BY DEF FsInit
<1>4. FsTypeOK
  BY <1>1, <1>2, <1>3 DEF FsTypeOK
<1>5. UniqueNames /\ NamesAreValid
  BY <1>1, <1>2, <1>3 DEF UniqueNames, NamesAreValid
<1>6. ASSUME NEW j \in Slots PROVE Written(j)
  BY <1>1, <1>2, <1>3 DEF Written
<1> QED BY <1>4, <1>5, <1>6 DEF SlotsOK

(* Every call of the interface keeps it so.                                *)
LEMMA StepSlotsOK == SlotsOK /\ [FsNext]_fsVars => SlotsOK'
<1> SUFFICES ASSUME SlotsOK, [FsNext]_fsVars PROVE SlotsOK'
  OBVIOUS
<1>1. CASE UNCHANGED fs_table
  BY <1>1 DEF SlotsOK, FsTypeOK, UniqueNames, NamesAreValid, Written
<1>2. ASSUME NEW name \in Name, fs_read(name) PROVE UNCHANGED fs_table
  BY <1>2 DEF fs_read, Fail
<1>3. CASE FsNext
  <2>1. PICK name \in Name :
           \/ \E is_dir \in BOOLEAN : Create(name, is_dir)
           \/ \E data \in Content : fs_write(name, data)
           \/ fs_read(name)
           \/ fs_delete(name)
    BY <1>3 DEF FsNext
  <2> QED BY <2>1, <1>1, <1>2, CreatePreserves, WritePreserves, DeletePreserves
<1> QED BY <1>1, <1>3 DEF fsVars

(* The table stays consistent through every sequence of fs_create,         *)
(* fs_create_dir, fs_write, fs_read and fs_delete: sizes fit the buffers,  *)
(* no name is stored twice, every stored name can be passed to fs_find     *)
(* again, and what a size covers was written by a caller.                  *)
THEOREM TableInvariant == FsSpec => []FsInv
<1>1. FsSpec => []SlotsOK
  BY InitSlotsOK, StepSlotsOK, PTL DEF FsSpec
<1>2. SlotsOK => FsInv
  BY InvIsSlotsOK
<1> QED BY <1>1, <1>2, PTL

(* No two slots ever hold the same name (fs_create's look-up before it     *)
(* takes a slot).                                                          *)
THEOREM NamesStayUnique == FsSpec => []UniqueNames
<1>1. FsInv => UniqueNames
  BY DEF FsInv
<1> QED BY <1>1, TableInvariant, PTL

(* Every stored name is one fs_create accepts, so an entry can be named    *)
(* again.                                                                  *)
THEOREM NamesStayValid == FsSpec => []NamesAreValid
<1>1. FsInv => NamesAreValid
  BY DEF FsInv
<1> QED BY <1>1, TableInvariant, PTL

(* No byte of memset, and none of a slot's previous owner, is within the   *)
(* size of a file.                                                         *)
THEOREM BytesAreWritten == FsSpec => []OnlyWrittenBytes
<1>1. FsInv => OnlyWrittenBytes
  BY DEF FsInv
<1> QED BY <1>1, TableInvariant, PTL

(* Every slot is well typed: a size never exceeds the buffer it counts.    *)
THEOREM TableTypeCorrect == FsSpec => []FsTypeOK
<1>1. FsInv => FsTypeOK
  BY DEF FsInv
<1> QED BY <1>1, TableInvariant, PTL

-----------------------------------------------------------------------------
(* The table as a map.                                                     *)

(* What Stored is, without CHOOSE: a function whose names are those of the *)
(* used slots and whose values are those slots' contents.                  *)
StoredShape ==
  /\ Stored = [n \in DOMAIN Stored |-> Stored[n]]
  /\ \A n : n \in DOMAIN Stored <=> \E i \in Slots : Matches(i, n)
  /\ \A i \in Slots : \A n : Matches(i, n) =>
       Stored[n] = [is_dir |-> fs_table[i].is_dir, data |-> ContentOf(i)]

(* In a consistent table a name leads to one slot: the map it stands for   *)
(* has the files of the used slots.                                        *)
LEMMA StoredIsTheTable == SlotsOK => StoredShape
<1> SUFFICES ASSUME SlotsOK PROVE StoredShape
  OBVIOUS
<1>1. DOMAIN Stored = {fs_table[i].name : i \in Used}
  BY DEF Stored
<1>2. ASSUME NEW n
      PROVE  n \in DOMAIN Stored <=> \E i \in Slots : Matches(i, n)
  BY <1>1 DEF Used, Matches
<1>3. ASSUME NEW i \in Slots, NEW n, Matches(i, n)
      PROVE  Stored[n] = [is_dir |-> fs_table[i].is_dir, data |-> ContentOf(i)]
  <2>1. i \in Used /\ fs_table[i].name = n
    BY <1>3 DEF Used, Matches
  <2>2. SlotOf(n) \in Used /\ fs_table[SlotOf(n)].name = n
    BY <2>1 DEF SlotOf
  <2>3. SlotOf(n) = i
    BY <2>1, <2>2 DEF SlotsOK, UniqueNames, Used
  <2>4. n \in {fs_table[j].name : j \in Used}
    BY <2>1
  <2> QED BY <2>3, <2>4 DEF Stored
<1>4. Stored = [n \in DOMAIN Stored |-> Stored[n]]
  BY DEF Stored
<1> QED BY <1>2, <1>3, <1>4 DEF StoredShape

(* A search that stops at the first match finds the only one.              *)
LEMMA MatchIsFound ==
  ASSUME SlotsOK, NEW i \in Slots, NEW n, Matches(i, n)
  PROVE  Finds(i, n) /\ \A j \in Slots : Matches(j, n) => j = i
<1>1. \A j \in Slots : Matches(j, n) => j = i
  BY DEF SlotsOK, UniqueNames, Matches
<1>2. \A j \in 0 .. i - 1 : j \in Slots /\ j # i
  OBVIOUS
<1> QED BY <1>1, <1>2 DEF Finds

(* The map is full when no slot is free: names and used slots correspond   *)
(* one to one.                                                             *)
LEMMA FullIsNoFreeSlot == SlotsOK => (Abstract!Full <=> NoFreeSlot)
<1> SUFFICES ASSUME SlotsOK PROVE Abstract!Full <=> NoFreeSlot
  OBVIOUS
<1> DEFINE names == DOMAIN Stored
           f == [i \in Used |-> fs_table[i].name]
<1>1. StoredShape
  BY StoredIsTheTable
<1>2. f \in [Used -> names]
  <2>1. ASSUME NEW i \in Used PROVE fs_table[i].name \in names
    BY <1>1 DEF StoredShape, Used, Matches
  <2> QED BY <2>1
<1>3. \A i, j \in Used : f[i] = f[j] => i = j
  BY DEF SlotsOK, UniqueNames, Used
<1>4. \A n \in names : \E i \in Used : f[i] = n
  BY <1>1 DEF StoredShape, Used, Matches
<1>5. ExistsBijection(Used, names)
  <2> HIDE DEF names, f
  <2>1. f \in Injection(Used, names) /\ f \in Surjection(Used, names)
    BY <1>2, <1>3, <1>4 DEF Injection, Surjection, IsInjective
  <2> QED BY <2>1 DEF ExistsBijection, Bijection
<1>6. IsFiniteSet(Slots) /\ Cardinality(Slots) = FS_MAX_FILES
  <2>1. 0 \in Int /\ FS_MAX_FILES - 1 \in Int
    OBVIOUS
  <2>2. IsFiniteSet(0 .. FS_MAX_FILES - 1)
        /\ Cardinality(0 .. FS_MAX_FILES - 1)
             = IF 0 > FS_MAX_FILES - 1 THEN 0 ELSE FS_MAX_FILES - 1 - 0 + 1
    BY <2>1, FS_Interval
  <2> QED BY <2>2
<1>7. Used \in SUBSET Slots
  BY DEF Used
<1>8. IsFiniteSet(Used) /\ (Cardinality(Slots) = Cardinality(Used) => Slots = Used)
  <2> HIDE DEF Slots
  <2> QED BY <1>6, <1>7, FS_Subset
<1>9. Cardinality(names) = Cardinality(Used)
  <2> HIDE DEF names
  <2> QED BY <1>5, <1>8, FS_Bijection
<1>10. Abstract!Full <=> Cardinality(Used) = FS_MAX_FILES
  <2>1. Abstract!Cardinality(names) = Cardinality(names)
    BY Zenon DEF Abstract!Cardinality, Cardinality
  <2> QED BY <1>9, <2>1 DEF Abstract!Full
<1>11. Used = Slots <=> NoFreeSlot
  BY DEF Used, NoFreeSlot
<1> QED BY <1>6, <1>8, <1>10, <1>11

-----------------------------------------------------------------------------
(* Every operation does to the map what FileStore says.                    *)

(* What fs_read hands over is a file's whole content.                      *)
LEMMA ContentLength ==
  ASSUME SlotsOK, NEW i \in Slots
  PROVE  Len(ContentOf(i)) = fs_table[i].size
<1>1. fs_table[i].size \in Nat
  BY DEF SlotsOK, FsTypeOK, Entry
<1> QED BY <1>1 DEF ContentOf

(* A failing call changes nothing and returns -1.                          *)
LEMMA FailIsStutterOfTheMap == Fail => Abstract!Fail
<1> SUFFICES ASSUME Fail PROVE Abstract!Fail
  OBVIOUS
<1>1. Stored' = Stored
  BY DEF Fail, Stored, Used, SlotOf, ContentOf
<1> QED BY <1>1 DEF Fail, Returns, Abstract!Fail, Abstract!Returns

(* fs_create is the map's Create, or fails as the map does.                *)
LEMMA CreateRefines ==
  ASSUME SlotsOK, SlotsOK', StoredShape, StoredShape',
         NEW name \in Name, NEW is_dir \in BOOLEAN, Create(name, is_dir)
  PROVE  Abstract!Create(name, is_dir) \/ Abstract!CreateFails(name)
<1>1. NotFound(name) <=> ~Abstract!Has(name)
  BY DEF StoredShape, NotFound, Abstract!Has
<1>2. CASE (~CanCreate(name) \/ NoFreeSlot) /\ Fail
  BY <1>1, <1>2, FullIsNoFreeSlot, FailIsStutterOfTheMap
     DEF CanCreate, Abstract!CreateFails
<1>3. ASSUME CanCreate(name), Returns(0, <<>>), NEW i \in Slots, FreeSlot(i),
             fs_table' = [fs_table EXCEPT ![i].name = name, ![i].size = 0,
                                          ![i].used = TRUE, ![i].is_dir = is_dir]
      PROVE  Abstract!Create(name, is_dir)
  <2>1. fs_table \in [Slots -> Entry]
    BY DEF SlotsOK, FsTypeOK
  <2>2. /\ fs_table'[i].name = name /\ fs_table'[i].size = 0 /\ fs_table'[i].used
        /\ fs_table'[i].is_dir = is_dir
        /\ \A j \in Slots \ {i} : fs_table'[j] = fs_table[j]
    BY <1>3, <2>1 DEF Entry
  <2>3. ~fs_table[i].used
    BY <1>3 DEF FreeSlot
  <2>4. ~Abstract!Full
    BY <2>3, FullIsNoFreeSlot DEF NoFreeSlot
  <2>5. \A j \in Slots : \A n : Matches(j, n)' <=> IF j = i THEN n = name ELSE Matches(j, n)
    BY <2>2, <2>3 DEF Matches
  <2>6. \A n : ~Matches(i, n)
    BY <2>3 DEF Matches
  <2>7. DOMAIN Stored' = DOMAIN Stored \cup {name}
    <3>1. ASSUME NEW n PROVE n \in DOMAIN Stored' <=> n \in DOMAIN Stored \/ n = name
      <4>1. n \in DOMAIN Stored' <=> \E j \in Slots : Matches(j, n)'
        BY DEF StoredShape
      <4>2. n \in DOMAIN Stored <=> \E j \in Slots : Matches(j, n)
        BY DEF StoredShape
      <4> QED BY <2>5, <2>6, <4>1, <4>2
    <3> QED BY <3>1
  <2>8. Stored'[name] = [is_dir |-> is_dir, data |-> <<>>]
    <3>1. Stored'[name] = [is_dir |-> fs_table'[i].is_dir, data |-> ContentOf(i)']
      BY <2>5 DEF StoredShape
    <3>2. ContentOf(i)' = <<>>
      BY <2>2 DEF ContentOf
    <3> QED BY <2>2, <3>1, <3>2
  <2>9. ASSUME NEW n \in DOMAIN Stored PROVE n # name /\ Stored'[n] = Stored[n]
    <3>1. PICK j \in Slots : Matches(j, n)
      BY DEF StoredShape
    <3>2. j # i /\ n # name
      BY <1>3, <2>6, <3>1 DEF CanCreate, NotFound, Matches
    <3>3. Matches(j, n)' /\ fs_table'[j] = fs_table[j]
      BY <2>2, <2>5, <3>1, <3>2
    <3>4. Stored'[n] = [is_dir |-> fs_table'[j].is_dir, data |-> ContentOf(j)']
      BY <3>3 DEF StoredShape
    <3>5. ContentOf(j)' = ContentOf(j)
      BY <3>3 DEF ContentOf
    <3>6. Stored[n] = [is_dir |-> fs_table[j].is_dir, data |-> ContentOf(j)]
      BY <3>1 DEF StoredShape
    <3> QED BY <3>2, <3>3, <3>4, <3>5, <3>6
  <2>10. Stored' = [m \in DOMAIN Stored \cup {name} |->
                      IF m = name THEN [is_dir |-> is_dir, data |-> <<>>] ELSE Stored[m]]
    <3>1. Stored' = [m \in DOMAIN Stored' |-> Stored'[m]]
      BY DEF StoredShape
    <3> QED BY <2>7, <2>8, <2>9, <3>1
  <2>11. name \in ValidName /\ ~Abstract!Has(name)
    BY <1>1, <1>3 DEF CanCreate
  <2> QED BY <1>3, <2>4, <2>10, <2>11 DEF Abstract!Create, Returns, Abstract!Returns
<1> QED BY <1>2, <1>3 DEF Create

(* What is kept of a content, as the table and as the map put it.          *)
LEMMA KeptIsWhatFits ==
  ASSUME NEW data \in Seq(Byte)
  PROVE  /\ Abstract!Kept(data) = [k \in 1 .. Fit(data) |-> data[k]]
         /\ Len(Abstract!Kept(data)) = Fit(data)
<1>1. data \in Seq(Byte) /\ Len(data) \in Nat /\ data = [k \in 1 .. Len(data) |-> data[k]]
  <2>1. data \in Seq(Byte)
    BY FitBounds
  <2> QED BY <2>1, LenProperties
<1>2. Fit(data) \in Nat
  BY FitBounds
<1>3. Abstract!Kept(data) = [k \in 1 .. Fit(data) |-> data[k]]
  <2>1. CASE Len(data) > FS_MAX_FILESIZE
    <3>1. SubSeq(data, 1, FS_MAX_FILESIZE) = [k \in 1 .. FS_MAX_FILESIZE |-> data[k]]
      BY <1>1
    <3> QED BY <2>1, <3>1 DEF Abstract!Kept, Fit
  <2>2. CASE ~(Len(data) > FS_MAX_FILESIZE)
    BY <1>1, <2>2 DEF Abstract!Kept, Fit
  <2> QED BY <2>1, <2>2
<1> QED BY <1>2, <1>3

(* fs_write is the map's Write, or fails as the map does.                  *)
LEMMA WriteRefines ==
  ASSUME SlotsOK, SlotsOK', StoredShape, StoredShape',
         NEW name \in Name, NEW data \in Seq(Byte), fs_write(name, data)
  PROVE  Abstract!Write(name, data) \/ Abstract!WriteFails(name)
<1>1. CASE NotFound(name) /\ Fail
  BY <1>1, FailIsStutterOfTheMap
     DEF StoredShape, NotFound, Abstract!Has, Abstract!IsFile, Abstract!WriteFails
<1>2. ASSUME NEW i \in Slots, Finds(i, name), fs_table[i].is_dir, Fail
      PROVE  Abstract!WriteFails(name)
  <2>1. Stored[name] = [is_dir |-> fs_table[i].is_dir, data |-> ContentOf(i)]
    BY <1>2 DEF StoredShape, Finds
  <2>2. Stored[name].is_dir
    BY <1>2, <2>1
  <2> QED BY <1>2, <2>2, FailIsStutterOfTheMap
          DEF Abstract!IsFile, Abstract!WriteFails
<1>3. ASSUME NEW i \in Slots, Finds(i, name), ~fs_table[i].is_dir,
             fs_table' = [fs_table EXCEPT ![i].data = Copied(@, data),
                                          ![i].size = NewSize(@, data)],
             Returns(Fit(data), <<>>)
      PROVE  Abstract!Write(name, data)
  <2>1. fs_table \in [Slots -> Entry]
    BY DEF SlotsOK, FsTypeOK
  <2>2. /\ fs_table'[i].size = Fit(data)
        /\ fs_table'[i].data = Copied(fs_table[i].data, data)
        /\ fs_table'[i].is_dir = fs_table[i].is_dir
        /\ \A j \in Slots \ {i} : fs_table'[j] = fs_table[j]
    BY <1>3, <2>1 DEF Entry, NewSize
  <2>3. \A j \in Slots : \A n : Matches(j, n)' <=> Matches(j, n)
    BY <1>3, <2>1 DEF Entry, Matches
  <2>4. Matches(i, name) /\ \A j \in Slots : Matches(j, name) => j = i
    BY <1>3, MatchIsFound DEF Finds
  <2>5. name \in DOMAIN Stored
        /\ Stored[name] = [is_dir |-> fs_table[i].is_dir, data |-> ContentOf(i)]
    BY <2>4 DEF StoredShape
  <2>6. DOMAIN Stored' = DOMAIN Stored
    <3>1. ASSUME NEW n PROVE n \in DOMAIN Stored' <=> n \in DOMAIN Stored
      <4>1. n \in DOMAIN Stored' <=> \E j \in Slots : Matches(j, n)'
        BY DEF StoredShape
      <4>2. n \in DOMAIN Stored <=> \E j \in Slots : Matches(j, n)
        BY DEF StoredShape
      <4> QED BY <2>3, <4>1, <4>2
    <3>2. Stored = [n \in DOMAIN Stored |-> Stored[n]]
          /\ Stored' = [n \in DOMAIN Stored' |-> Stored'[n]]
      BY DEF StoredShape
    <3> QED BY <3>1
  <2>7. ContentOf(i)' = Abstract!Kept(data)
    <3>1. ContentOf(i)' = [k \in 1 .. Fit(data) |-> Copied(fs_table[i].data, data)[k]]
      BY <2>2 DEF ContentOf
    <3>2. \A k \in 1 .. Fit(data) : Copied(fs_table[i].data, data)[k] = data[k]
      <4>1. \A k \in 1 .. Fit(data) : k \in Offsets /\ k <= Fit(data)
        BY FitBounds DEF Offsets
      <4> QED BY <4>1 DEF Copied
    <3> QED BY <3>1, <3>2, KeptIsWhatFits
  <2>8. Stored'[name] = [is_dir |-> fs_table[i].is_dir, data |-> Abstract!Kept(data)]
    <3>1. Stored'[name] = [is_dir |-> fs_table'[i].is_dir, data |-> ContentOf(i)']
      BY <2>3, <2>4 DEF StoredShape
    <3> QED BY <2>2, <2>7, <3>1
  <2>9. ASSUME NEW n \in DOMAIN Stored, n # name PROVE Stored'[n] = Stored[n]
    <3>1. PICK j \in Slots : Matches(j, n)
      BY DEF StoredShape
    <3>2. j # i
      BY <2>4, <2>9, <3>1 DEF Matches
    <3>3. Matches(j, n)' /\ fs_table'[j] = fs_table[j]
      BY <2>2, <2>3, <3>1, <3>2
    <3>4. Stored'[n] = [is_dir |-> fs_table'[j].is_dir, data |-> ContentOf(j)']
      BY <3>3 DEF StoredShape
    <3>5. ContentOf(j)' = ContentOf(j)
      BY <3>3 DEF ContentOf
    <3>6. Stored[n] = [is_dir |-> fs_table[j].is_dir, data |-> ContentOf(j)]
      BY <3>1 DEF StoredShape
    <3> QED BY <3>3, <3>4, <3>5, <3>6
  <2>10. Stored' = [Stored EXCEPT ![name].data = Abstract!Kept(data)]
    <3>1. Stored' = [m \in DOMAIN Stored |-> Stored'[m]]
          /\ Stored = [m \in DOMAIN Stored |-> Stored[m]]
      BY <2>6 DEF StoredShape
    <3>2. [Stored[name] EXCEPT !.data = Abstract!Kept(data)]
            = [is_dir |-> fs_table[i].is_dir, data |-> Abstract!Kept(data)]
      BY <2>5
    <3>3. Stored' = [Stored EXCEPT ![name] = Stored'[name]]
      BY <2>9, <3>1
    <3> QED BY <2>5, <2>8, <3>2, <3>3
  <2>11. Abstract!IsFile(name)
    BY <1>3, <2>5 DEF Abstract!IsFile, Abstract!Has
  <2> QED BY <1>3, <2>10, <2>11, KeptIsWhatFits
          DEF Abstract!Write, Returns, Abstract!Returns
<1> QED BY <1>1, <1>2, <1>3 DEF fs_write

(* fs_read is the map's Read, or fails as the map does.                    *)
LEMMA ReadRefines ==
  ASSUME SlotsOK, SlotsOK', StoredShape, StoredShape',
         NEW name \in Name, fs_read(name)
  PROVE  Abstract!Read(name) \/ Abstract!ReadFails(name)
<1>1. CASE NotFound(name) /\ Fail
  BY <1>1, FailIsStutterOfTheMap
     DEF StoredShape, NotFound, Abstract!Has, Abstract!IsFile, Abstract!ReadFails
<1>2. ASSUME NEW i \in Slots, Finds(i, name)
      PROVE  /\ name \in DOMAIN Stored
             /\ Stored[name] = [is_dir |-> fs_table[i].is_dir, data |-> ContentOf(i)]
             /\ Stored[name].is_dir = fs_table[i].is_dir
             /\ Stored[name].data = ContentOf(i)
  BY <1>2 DEF StoredShape, Finds
<1>3. ASSUME NEW i \in Slots, Finds(i, name), fs_table[i].is_dir, Fail
      PROVE  Abstract!ReadFails(name)
  BY <1>2, <1>3, FailIsStutterOfTheMap DEF Abstract!IsFile, Abstract!ReadFails
<1>4. ASSUME NEW i \in Slots, Finds(i, name), ~fs_table[i].is_dir,
             Returns(fs_table[i].size, ContentOf(i)), UNCHANGED fs_table
      PROVE  Abstract!Read(name)
  <2>1. Stored' = Stored
    BY <1>4 DEF Stored, Used, SlotOf, ContentOf
  <2>2. Abstract!IsFile(name)
    BY <1>2, <1>4 DEF Abstract!IsFile, Abstract!Has
  <2> QED BY <1>2, <1>4, <2>1, <2>2, ContentLength
          DEF Abstract!Read, Returns, Abstract!Returns
<1> QED BY <1>1, <1>3, <1>4 DEF fs_read

(* fs_delete is the map's Delete, or fails as the map does.                *)
LEMMA DeleteRefines ==
  ASSUME SlotsOK, SlotsOK', StoredShape, StoredShape',
         NEW name \in Name, fs_delete(name)
  PROVE  Abstract!Delete(name) \/ Abstract!DeleteFails(name)
<1>1. CASE NotFound(name) /\ Fail
  BY <1>1, FailIsStutterOfTheMap
     DEF StoredShape, NotFound, Abstract!Has, Abstract!DeleteFails
<1>2. ASSUME NEW i \in Slots, Finds(i, name), Returns(0, <<>>),
             fs_table' = [fs_table EXCEPT ![i] = Cleared]
      PROVE  Abstract!Delete(name)
  <2>1. fs_table \in [Slots -> Entry]
    BY DEF SlotsOK, FsTypeOK
  <2>2. /\ ~fs_table'[i].used
        /\ \A j \in Slots \ {i} : fs_table'[j] = fs_table[j]
    BY <1>2, <2>1 DEF Cleared
  <2>3. Matches(i, name) /\ \A j \in Slots : Matches(j, name) => j = i
    BY <1>2, MatchIsFound DEF Finds
  <2>4. \A j \in Slots : \A n : Matches(j, n)' <=> (Matches(j, n) /\ n # name)
    <3>1. ASSUME NEW j \in Slots, NEW n
          PROVE  Matches(j, n)' <=> (Matches(j, n) /\ n # name)
      <4>1. CASE j = i
        BY <2>2, <2>3, <4>1 DEF Matches
      <4>2. CASE j # i
        BY <2>2, <2>3, <4>2 DEF Matches
      <4> QED BY <4>1, <4>2
    <3> QED BY <3>1
  <2>5. DOMAIN Stored' = DOMAIN Stored \ {name}
    <3>1. ASSUME NEW n
          PROVE  n \in DOMAIN Stored' <=> (n \in DOMAIN Stored /\ n # name)
      <4>1. n \in DOMAIN Stored' <=> \E j \in Slots : Matches(j, n)'
        BY DEF StoredShape
      <4>2. n \in DOMAIN Stored <=> \E j \in Slots : Matches(j, n)
        BY DEF StoredShape
      <4> QED BY <2>4, <4>1, <4>2
    <3> QED BY <3>1
  <2>6. ASSUME NEW n \in DOMAIN Stored \ {name} PROVE Stored'[n] = Stored[n]
    <3>1. PICK j \in Slots : Matches(j, n)
      BY DEF StoredShape
    <3>2. Matches(j, n)' /\ j # i
      BY <2>3, <2>4, <3>1 DEF Matches
    <3>3. fs_table'[j] = fs_table[j]
      BY <2>2, <3>2
    <3>4. Stored'[n] = [is_dir |-> fs_table'[j].is_dir, data |-> ContentOf(j)']
      BY <3>2 DEF StoredShape
    <3>5. ContentOf(j)' = ContentOf(j)
      BY <3>3 DEF ContentOf
    <3>6. Stored[n] = [is_dir |-> fs_table[j].is_dir, data |-> ContentOf(j)]
      BY <3>1 DEF StoredShape
    <3> QED BY <3>3, <3>4, <3>5, <3>6
  <2>7. Stored' = [m \in DOMAIN Stored \ {name} |-> Stored[m]]
    <3>1. Stored' = [m \in DOMAIN Stored' |-> Stored'[m]]
      BY DEF StoredShape
    <3> QED BY <2>5, <2>6, <3>1
  <2>8. Abstract!Has(name)
    BY <2>3 DEF StoredShape, Abstract!Has
  <2> QED BY <1>2, <2>7, <2>8 DEF Abstract!Delete, Returns, Abstract!Returns
<1> QED BY <1>1, <1>2 DEF fs_delete

(* A call on the table is a call on the map.                               *)
LEMMA StepRefinesStore ==
  SlotsOK /\ SlotsOK' /\ [FsNext]_fsVars => [Abstract!Next]_Abstract!vars
<1>1. SlotsOK' => StoredShape'
  BY StoredIsTheTable, PTL
<1> SUFFICES ASSUME SlotsOK, SlotsOK', [FsNext]_fsVars
             PROVE  [Abstract!Next]_Abstract!vars
  OBVIOUS
<1>2. StoredShape /\ StoredShape'
  BY <1>1, StoredIsTheTable
<1>3. CASE UNCHANGED fsVars
  BY <1>3 DEF fsVars, Abstract!vars, Stored, Used, SlotOf, ContentOf
<1>4. CASE FsNext
  <2>1. PICK name \in Name :
           \/ \E is_dir \in BOOLEAN : Create(name, is_dir)
           \/ \E data \in Content : fs_write(name, data)
           \/ fs_read(name)
           \/ fs_delete(name)
    BY <1>4 DEF FsNext
  <2> QED BY <1>2, <2>1, CreateRefines, WriteRefines, ReadRefines, DeleteRefines
          DEF Abstract!Next
<1> QED BY <1>3, <1>4

(* The table FsInit leaves stands for a map with the root alone.           *)
LEMMA InitRefinesStore == FsInit => Abstract!Init
<1> SUFFICES ASSUME FsInit PROVE Abstract!Init
  OBVIOUS
<1>1. SlotsOK /\ StoredShape
  BY InitSlotsOK, StoredIsTheTable
<1>2. /\ 0 \in Slots /\ fs_table[0].used /\ fs_table[0].name = Root
      /\ fs_table[0].is_dir = TRUE /\ fs_table[0].size = 0
      /\ \A i \in Slots \ {0} : ~fs_table[i].used
  BY DEF FsInit, Cleared
<1>3. \A i \in Slots : \A n : Matches(i, n) <=> i = 0 /\ n = Root
  BY <1>2 DEF Matches
<1>4. DOMAIN Stored = {Root}
  <2>1. ASSUME NEW n PROVE n \in DOMAIN Stored <=> n = Root
    <3>1. n \in DOMAIN Stored <=> \E i \in Slots : Matches(i, n)
      BY <1>1 DEF StoredShape
    <3> QED BY <1>2, <1>3, <3>1
  <2> QED BY <2>1
<1>5. Stored[Root] = [is_dir |-> TRUE, data |-> <<>>]
  <2>1. Stored[Root] = [is_dir |-> fs_table[0].is_dir, data |-> ContentOf(0)]
    BY <1>1, <1>2, <1>3 DEF StoredShape
  <2>2. ContentOf(0) = <<>>
    BY <1>2 DEF ContentOf
  <2> QED BY <1>2, <2>1, <2>2
<1>6. Stored = [n \in {Root} |-> [is_dir |-> TRUE, data |-> <<>>]]
  BY <1>1, <1>4, <1>5 DEF StoredShape
<1> QED BY <1>6 DEF FsInit, Abstract!Init

(* The slots of filesystem.c implement the bounded map of FileStore: each  *)
(* call succeeds, fails and returns as the map does and touches the named  *)
(* entry alone, for every number of slots, size of buffer and set of names.*)
THEOREM TableImplementsStore == FsSpec => ImplementsStore
<1>1. FsSpec => []SlotsOK
  BY InitSlotsOK, StepSlotsOK, PTL DEF FsSpec
<1> QED BY <1>1, InitRefinesStore, StepRefinesStore, PTL
        DEF FsSpec, ImplementsStore, Abstract!Spec

-----------------------------------------------------------------------------
(***************************************************************************)
(* The commands and the editor as clients.                                 *)
(***************************************************************************)

HIDE DEF Slots

USE FileTableAssumption, PathsAssumption DEF FileTableAssumption, PathsAssumption

-----------------------------------------------------------------------------
(* What a call of filesystem.c does, to a client that sees the map alone.  *)

(* The table's consistency and the map it stands for.                      *)
TableOK == SlotsOK /\ StoredShape

(* A step of no call leaves the table and the map alone.                   *)
LEMMA NoCall ==
  ASSUME TableOK, UNCHANGED fs_table
  PROVE  TableOK' /\ Stored' = Stored
<1>1. Stored' = Stored
  BY DEF Stored, Used, SlotOf, ContentOf
<1>2. SlotsOK'
  BY DEF TableOK, SlotsOK, FsTypeOK, UniqueNames, NamesAreValid, Written
<1>3. StoredShape'
  BY <1>2, StoredIsTheTable, PTL
<1> QED BY <1>1, <1>2, <1>3 DEF TableOK

(* fs_create and fs_create_dir.                                            *)
LEMMA CreateCall ==
  ASSUME TableOK, NEW name \in Name, NEW is_dir \in BOOLEAN, Create(name, is_dir)
  PROVE  /\ TableOK'
         /\ Abstract!Create(name, is_dir) \/ Abstract!CreateFails(name)
<1>1. SlotsOK'
  BY CreatePreserves DEF TableOK
<1>2. SlotsOK' => StoredShape'
  BY StoredIsTheTable, PTL
<1> QED BY <1>1, <1>2, CreateRefines DEF TableOK

(* fs_write, of as many bytes as a buffer can hold.                        *)
LEMMA WriteCall ==
  ASSUME TableOK, NEW name \in Name, NEW data \in Seq(Byte), fs_write(name, data)
  PROVE  /\ TableOK'
         /\ Abstract!Write(name, data) \/ Abstract!WriteFails(name)
<1>1. SlotsOK'
  BY WritePreserves DEF TableOK
<1>2. SlotsOK' => StoredShape'
  BY StoredIsTheTable, PTL
<1> QED BY <1>1, <1>2, WriteRefines DEF TableOK

(* fs_read.                                                                *)
LEMMA ReadCall ==
  ASSUME TableOK, NEW name \in Name, fs_read(name)
  PROVE  /\ TableOK' /\ UNCHANGED fs_table
         /\ Abstract!Read(name) \/ Abstract!ReadFails(name)
<1>1. UNCHANGED fs_table
  BY DEF fs_read, Fail
<1>2. TableOK'
  BY <1>1, NoCall
<1> QED BY <1>1, <1>2, ReadRefines DEF TableOK

(* fs_delete.                                                              *)
LEMMA DeleteCall ==
  ASSUME TableOK, NEW name \in Name, fs_delete(name)
  PROVE  /\ TableOK'
         /\ Abstract!Delete(name) \/ Abstract!DeleteFails(name)
<1>1. SlotsOK'
  BY DeletePreserves DEF TableOK
<1>2. SlotsOK' => StoredShape'
  BY StoredIsTheTable, PTL
<1> QED BY <1>1, <1>2, DeleteRefines DEF TableOK

(* What the map holds: entries of valid names, whose contents fit.         *)
LEMMA StoredValues ==
  ASSUME TableOK, NEW n \in DOMAIN Stored
  PROVE  /\ n \in ValidName
         /\ Stored[n].is_dir \in BOOLEAN
         /\ Stored[n].data \in Seq(Byte) /\ Len(Stored[n].data) <= FS_MAX_FILESIZE
         /\ Stored[n] = [is_dir |-> Stored[n].is_dir, data |-> Stored[n].data]
<1>1. PICK i \in Slots : Matches(i, n)
  BY DEF TableOK, StoredShape
<1>2. Stored[n] = [is_dir |-> fs_table[i].is_dir, data |-> ContentOf(i)]
  BY <1>1 DEF TableOK, StoredShape
<1>3. fs_table[i].is_dir \in BOOLEAN /\ fs_table[i].size \in 0 .. FS_MAX_FILESIZE
  BY DEF TableOK, SlotsOK, FsTypeOK, Entry
<1>4. n \in ValidName
  BY <1>1 DEF TableOK, SlotsOK, NamesAreValid, Matches
<1>5. ContentOf(i) \in Seq(Byte)
  BY WrittenBytes DEF TableOK, SlotsOK, OnlyWrittenBytes
<1>6. Len(ContentOf(i)) = fs_table[i].size
  BY ContentLength DEF TableOK
<1> QED BY <1>2, <1>3, <1>4, <1>5, <1>6

(* The same of every entry at once, to be used of the next state.          *)
Entries == \A n \in DOMAIN Stored :
             /\ Stored[n].is_dir \in BOOLEAN
             /\ Stored[n] = [is_dir |-> Stored[n].is_dir, data |-> Stored[n].data]

(* A consistent table has an entry for each file of the map.               *)
LEMMA StoredEntries == TableOK => Entries
BY StoredValues DEF Entries

-----------------------------------------------------------------------------
(* What a command knows between two of its calls.                          *)

Copying == {"cpy", "mov", "rename"}

Holds(path, data) == HasFile(path) /\ Stored[path].data = data

ToRead == job.cmd \in Copying \cup {"edit"} /\ (job.cmd = "edit" => job.dst = job.src)

ToCreate ==
  /\ job.cmd \in Copying \cup {"edit", "notes", "fm"}
  /\ job.cmd \in Copying => Holds(job.src, job.buf)
  /\ job.cmd = "notes" => job.dst \in ValidName

ToWrite ==
  /\ job.cmd \in Copying \cup {"notes", "fm"}
  /\ job.cmd # "notes" => Holds(job.dst, <<>>)
  /\ job.cmd \in Copying => Holds(job.src, job.buf) /\ job.src # job.dst
  /\ job.cmd = "notes" => job.dst \in DOMAIN Stored \/ Abstract!Full

ToDelete ==
  /\ job.cmd \in {"mov", "rename"}
  /\ HasFile(job.src) /\ HasFile(job.dst) /\ job.src # job.dst
  /\ Stored[job.dst] = Stored[job.src]

Editing == job.cmd = "edit" /\ HasFile(job.dst)

(* The command's position tells what its earlier calls have established.   *)
JobIsUnderWay ==
  /\ pc = "read" => ToRead
  /\ pc = "create" => ToCreate
  /\ pc = "write" => ToWrite
  /\ pc = "delete" => ToDelete
  /\ pc = "editing" => Editing

(* The types of the shell's own variables.                                 *)
JobTypeOK ==
  /\ current_dir \in Name /\ current_dir.abs
  /\ pc \in {"prompt", "read", "create", "write", "delete", "editing"}
  /\ job \in [cmd : {"none", "cpy", "mov", "rename", "edit", "notes", "fm"},
              src : Name, dst : Name, buf : Seq(Byte)]
  /\ Len(job.buf) <= FS_MAX_FILESIZE

ShellInv == TableOK /\ JobTypeOK /\ JobIsUnderWay

(* The shell starts with the root alone and no command under way.          *)
LEMMA ShellInitially == ShellInit => ShellInv
<1> SUFFICES ASSUME ShellInit PROVE ShellInv
  OBVIOUS
<1>1. TableOK
  BY InitSlotsOK, StoredIsTheTable DEF ShellInit, TableOK
<1>2. JobTypeOK
  BY DEF ShellInit, JobTypeOK, NoJob
<1>3. JobIsUnderWay
  BY DEF ShellInit, JobIsUnderWay
<1> QED BY <1>1, <1>2, <1>3 DEF ShellInv

-----------------------------------------------------------------------------
(* Each action keeps the invariant.                                        *)

(* At the prompt there is no command whose knowledge a call could spoil.   *)
LEMMA AtPromptPreserves ==
  ASSUME ShellInv, Immediate, TableOK'
  PROVE  ShellInv'
<1>1. JobTypeOK'
  BY DEF ShellInv, JobTypeOK, Immediate
<1>2. JobIsUnderWay'
  BY DEF JobIsUnderWay, Immediate, AtPrompt
<1> QED BY <1>1, <1>2 DEF ShellInv

(* A command that is over leaves nothing to know.                          *)
LEMMA FinishPreserves ==
  ASSUME ShellInv, Finish, UNCHANGED current_dir, TableOK'
  PROVE  ShellInv'
<1>1. JobTypeOK'
  BY DEF ShellInv, JobTypeOK, Finish, NoJob
<1>2. JobIsUnderWay'
  BY DEF JobIsUnderWay, Finish
<1> QED BY <1>1, <1>2 DEF ShellInv

(* A command goes on to its next call with what it knows.                  *)
LEMMA ContinueTypes ==
  ASSUME JobTypeOK, UNCHANGED current_dir,
         NEW next \in {"create", "write", "delete", "editing"},
         NEW buf \in Seq(Byte), Len(buf) <= FS_MAX_FILESIZE, Continue(next, buf)
  PROVE  /\ JobTypeOK' /\ pc' = next
         /\ job'.cmd = job.cmd /\ job'.src = job.src /\ job'.dst = job.dst
         /\ job'.buf = buf
BY DEF JobTypeOK, Continue

(* The working directory is always one a path can be resolved against.     *)
LEMMA GotoPreserves ==
  ASSUME ShellInv, NEW dir, CmdGoto(dir), dir.abs
  PROVE  ShellInv'
<1>1. dir \in Name
  BY DEF CmdGoto, IsDir, Finds, Matches, ShellInv, TableOK, SlotsOK, NamesAreValid
<1>2. TableOK'
  BY NoCall DEF CmdGoto, fsVars, ShellInv
<1>3. JobTypeOK'
  BY <1>1 DEF ShellInv, JobTypeOK, CmdGoto
<1>4. JobIsUnderWay'
  BY DEF JobIsUnderWay, CmdGoto, AtPrompt
<1> QED BY <1>2, <1>3, <1>4 DEF ShellInv

(* The commands of several calls begin with what they were told.           *)
LEMMA BeginPreserves ==
  ASSUME ShellInv, NEW cmd \in {"cpy", "mov", "rename", "edit", "notes", "fm"},
         NEW src \in Name, NEW dst \in Name, NEW buf \in Seq(Byte),
         Len(buf) <= FS_MAX_FILESIZE, NEW first, Begin(cmd, src, dst, buf, first),
         \/ /\ first = "read" /\ cmd \in Copying \cup {"edit"}
            /\ cmd = "edit" => dst = src
         \/ /\ first = "create" /\ cmd \in {"notes", "fm"}
            /\ cmd = "notes" => dst \in ValidName
  PROVE  ShellInv'
<1>1. TableOK'
  BY NoCall DEF Begin, fsVars, ShellInv
<1>2. JobTypeOK'
  BY DEF ShellInv, JobTypeOK, Begin, Copying
<1>3. JobIsUnderWay'
  BY DEF JobIsUnderWay, Begin, ToRead, ToCreate, Copying
<1> QED BY <1>1, <1>2, <1>3 DEF ShellInv

(* What was read is what the source holds, and the source stays.           *)
LEMMA ReadPreserves ==
  ASSUME ShellInv, Read
  PROVE  ShellInv'
<1>1. job.src \in Name /\ fs_read(job.src) /\ UNCHANGED current_dir
  BY DEF ShellInv, JobTypeOK, Read
<1>2. /\ TableOK' /\ Stored' = Stored
      /\ Abstract!Read(job.src) \/ Abstract!ReadFails(job.src)
  BY <1>1, ReadCall, NoCall DEF ShellInv
<1>3. ToRead
  BY DEF ShellInv, JobIsUnderWay, Read
<1>4. CASE ret'.code >= 0 /\ Continue(IF job.cmd = "edit" THEN "editing" ELSE "create", ret'.data)
  <2> DEFINE next == IF job.cmd = "edit" THEN "editing" ELSE "create"
  <2>1. ~Abstract!ReadFails(job.src)
    BY <1>4 DEF Abstract!ReadFails, Abstract!Fail, Abstract!Returns
  <2>2. Abstract!Read(job.src)
    BY <1>2, <2>1
  <2>3. HasFile(job.src) /\ ret'.data = Stored[job.src].data
    BY <2>2 DEF Abstract!Read, Abstract!IsFile, Abstract!Has, Abstract!Returns, HasFile
  <2>4. ret'.data \in Seq(Byte) /\ Len(ret'.data) <= FS_MAX_FILESIZE
    BY <2>3, StoredValues DEF HasFile, ShellInv
  <2>5. /\ JobTypeOK' /\ pc' = next
        /\ job'.cmd = job.cmd /\ job'.src = job.src /\ job'.dst = job.dst
        /\ job'.buf = ret'.data
    BY <1>1, <1>4, <2>4, ContinueTypes DEF ShellInv
  <2>6. HasFile(job.src)' /\ Stored'[job'.src].data = job'.buf
    BY <1>2, <2>3, <2>5 DEF HasFile
  <2>7. JobIsUnderWay'
    <3>1. CASE job.cmd = "edit"
      BY <1>3, <2>5, <2>6, <3>1 DEF JobIsUnderWay, Editing, ToRead
    <3>2. CASE job.cmd # "edit"
      BY <1>3, <2>5, <2>6, <3>2 DEF JobIsUnderWay, ToCreate, ToRead, Holds, Copying
    <3> QED BY <3>1, <3>2
  <2> QED BY <1>2, <2>5, <2>7 DEF ShellInv
<1>5. CASE job.cmd = "edit" /\ Continue("create", <<>>)
  <2>1. <<>> \in Seq(Byte) /\ Len(<<>>) <= FS_MAX_FILESIZE
    OBVIOUS
  <2>2. /\ JobTypeOK' /\ pc' = "create" /\ job'.cmd = "edit"
    BY <1>1, <1>5, <2>1, ContinueTypes DEF ShellInv
  <2>3. JobIsUnderWay'
    BY <2>2 DEF JobIsUnderWay, ToCreate, Copying
  <2> QED BY <1>2, <2>2, <2>3 DEF ShellInv
<1>6. CASE Finish
  BY <1>1, <1>2, <1>6, FinishPreserves
<1> QED BY <1>4, <1>5, <1>6 DEF Read

(* A file that was just created is empty, and another one than the source. *)
LEMMA CreateFilePreserves ==
  ASSUME ShellInv, CreateFile
  PROVE  ShellInv'
<1>1. job.dst \in Name /\ Create(job.dst, FALSE) /\ UNCHANGED current_dir
  BY DEF ShellInv, JobTypeOK, CreateFile
<1>2. /\ TableOK'
      /\ Abstract!Create(job.dst, FALSE) \/ Abstract!CreateFails(job.dst)
  BY <1>1, CreateCall DEF ShellInv
<1>3. ToCreate
  BY DEF ShellInv, JobIsUnderWay, CreateFile
<1>4. CASE Created(ret'.code) /\ Continue(IF job.cmd = "edit" THEN "editing" ELSE "write", job.buf)
  <2> DEFINE next == IF job.cmd = "edit" THEN "editing" ELSE "write"
  <2>1. /\ JobTypeOK' /\ pc' = next
        /\ job'.cmd = job.cmd /\ job'.src = job.src /\ job'.dst = job.dst
        /\ job'.buf = job.buf
    BY <1>1, <1>4, ContinueTypes DEF ShellInv, JobTypeOK
  <2>2. CASE Abstract!Create(job.dst, FALSE)
    <3>1. /\ job.dst \notin DOMAIN Stored
          /\ DOMAIN Stored' = DOMAIN Stored \cup {job.dst}
          /\ Stored'[job.dst] = [is_dir |-> FALSE, data |-> <<>>]
          /\ \A m \in DOMAIN Stored : Stored'[m] = Stored[m]
      BY <2>2 DEF Abstract!Create, Abstract!Has
    <3>2. HasFile(job.dst)' /\ Stored'[job'.dst].data = <<>>
      BY <2>1, <3>1 DEF HasFile
    <3>3. job.cmd \in Copying => /\ HasFile(job.src)' /\ Stored'[job'.src].data = job'.buf
                                 /\ job'.src # job'.dst
      BY <1>3, <2>1, <3>1 DEF HasFile, ToCreate, Holds
    <3>4. JobIsUnderWay'
      <4>1. CASE job.cmd = "edit"
        BY <2>1, <3>2, <4>1 DEF JobIsUnderWay, Editing
      <4>2. CASE job.cmd # "edit"
        BY <1>3, <2>1, <3>1, <3>2, <3>3, <4>2
           DEF JobIsUnderWay, ToWrite, ToCreate, Holds, HasFile
      <4> QED BY <4>1, <4>2
    <3> QED BY <1>2, <2>1, <3>4 DEF ShellInv
  <2>3. CASE Abstract!CreateFails(job.dst)
    <3>1. ret'.code = -1 /\ Stored' = Stored
      BY <2>3 DEF Abstract!CreateFails, Abstract!Fail, Abstract!Returns
    <3>2. job.cmd = "notes"
      BY <1>4, <3>1 DEF Created
    <3>3. job.dst \in DOMAIN Stored \/ Abstract!Full
      BY <1>3, <2>3, <3>2 DEF Abstract!CreateFails, Abstract!Has, ToCreate
    <3>4. Abstract!Full' <=> Abstract!Full
      BY <3>1 DEF Abstract!Full
    <3>5. JobIsUnderWay'
      BY <2>1, <3>1, <3>2, <3>3, <3>4 DEF JobIsUnderWay, ToWrite, Copying
    <3> QED BY <1>2, <2>1, <3>5 DEF ShellInv
  <2> QED BY <1>2, <2>2, <2>3
<1>5. CASE Finish
  BY <1>1, <1>2, <1>5, FinishPreserves
<1> QED BY <1>4, <1>5 DEF CreateFile

(* A buffer fits a file, so a write that finds its file stores all of it.  *)
LEMMA WholeBufferWritten ==
  ASSUME TableOK, JobTypeOK, HasFile(job.dst),
         Abstract!Write(job.dst, job.buf) \/ Abstract!WriteFails(job.dst)
  PROVE  /\ DOMAIN Stored' = DOMAIN Stored
         /\ Stored'[job.dst].is_dir = Stored[job.dst].is_dir
         /\ Stored'[job.dst].data = job.buf
         /\ \A m \in DOMAIN Stored : m # job.dst => Stored'[m] = Stored[m]
<1>1. Abstract!Write(job.dst, job.buf)
  BY DEF Abstract!WriteFails, Abstract!IsFile, Abstract!Has, HasFile
<1>2. Abstract!Kept(job.buf) = job.buf
  BY DEF Abstract!Kept, JobTypeOK
<1>3. /\ Stored = [m \in DOMAIN Stored |-> Stored[m]]
      /\ Stored[job.dst] = [is_dir |-> Stored[job.dst].is_dir, data |-> Stored[job.dst].data]
  BY StoredValues DEF TableOK, StoredShape, HasFile
<1>4. Stored' = [Stored EXCEPT ![job.dst].data = job.buf]
  BY <1>1, <1>2 DEF Abstract!Write
<1> QED BY <1>3, <1>4 DEF HasFile

(* A command writes its buffer.                                            *)
LEMMA WriteFilePreserves ==
  ASSUME ShellInv, WriteFile
  PROVE  ShellInv'
<1>1. /\ job.dst \in Name /\ job.buf \in Seq(Byte) /\ fs_write(job.dst, job.buf)
      /\ UNCHANGED current_dir
  BY DEF ShellInv, JobTypeOK, WriteFile
<1>2. /\ TableOK'
      /\ Abstract!Write(job.dst, job.buf) \/ Abstract!WriteFails(job.dst)
  BY <1>1, WriteCall DEF ShellInv
<1>3. ToWrite
  BY DEF ShellInv, JobIsUnderWay, WriteFile
<1>4. CASE job.cmd \in {"mov", "rename"} /\ Continue("delete", job.buf)
  <2>1. /\ JobTypeOK' /\ pc' = "delete"
        /\ job'.cmd = job.cmd /\ job'.src = job.src /\ job'.dst = job.dst
    BY <1>1, <1>4, ContinueTypes DEF ShellInv, JobTypeOK
  <2>2. HasFile(job.dst) /\ HasFile(job.src) /\ job.src # job.dst
        /\ Stored[job.src].data = job.buf
    BY <1>3, <1>4 DEF ToWrite, Holds, Copying
  <2>3. /\ DOMAIN Stored' = DOMAIN Stored
        /\ Stored'[job.dst].is_dir = Stored[job.dst].is_dir
        /\ Stored'[job.dst].data = job.buf
        /\ Stored'[job.src] = Stored[job.src]
    BY <1>2, <2>2, WholeBufferWritten DEF ShellInv, HasFile
  <2>4. HasFile(job.src)' /\ HasFile(job.dst)'
    BY <2>1, <2>2, <2>3 DEF HasFile
  <2>5. Stored'[job.dst] = Stored'[job.src]
    <3>1. TableOK' => Entries'
      BY StoredEntries, PTL
    <3> QED BY <1>2, <2>2, <2>3, <3>1 DEF HasFile, Entries
  <2>6. JobIsUnderWay'
    BY <1>4, <2>1, <2>2, <2>4, <2>5 DEF JobIsUnderWay, ToDelete
  <2> QED BY <1>2, <2>1, <2>6 DEF ShellInv
<1>5. CASE Finish
  BY <1>1, <1>2, <1>5, FinishPreserves
<1> QED BY <1>4, <1>5 DEF WriteFile

(* mov and rename delete their source, and are done.                       *)
LEMMA DeleteSourcePreserves ==
  ASSUME ShellInv, DeleteSource
  PROVE  ShellInv'
<1>1. job.src \in Name /\ fs_delete(job.src) /\ Finish /\ UNCHANGED current_dir
  BY DEF ShellInv, JobTypeOK, DeleteSource
<1> QED BY <1>1, DeleteCall, FinishPreserves DEF ShellInv

(* A key changes the buffer by a byte at its end; the file is the same.    *)
LEMMA EditorKeyPreserves ==
  ASSUME ShellInv, EditorKey
  PROVE  ShellInv'
<1>1. UNCHANGED fs_table /\ UNCHANGED current_dir /\ TableOK /\ JobTypeOK
  BY DEF EditorKey, fsVars, ShellInv
<1>2. TableOK' /\ Stored' = Stored
  BY <1>1, NoCall
<1>3. PICK buf \in Seq(Byte) : Len(buf) <= FS_MAX_FILESIZE /\ Continue("editing", buf)
  <2>1. job.buf \in Seq(Byte) /\ Len(job.buf) \in Nat /\ Len(job.buf) <= FS_MAX_FILESIZE
    BY <1>1 DEF JobTypeOK
  <2>2. ASSUME RoomInBuffer, NEW ch \in Byte
        PROVE  Append(job.buf, ch) \in Seq(Byte) /\ Len(Append(job.buf, ch)) <= FS_MAX_FILESIZE
    BY <2>1, <2>2, AppendProperties DEF RoomInBuffer
  <2>3. ASSUME job.buf # <<>>
        PROVE  Front(job.buf) \in Seq(Byte) /\ Len(Front(job.buf)) <= FS_MAX_FILESIZE
    BY <2>1, <2>3, SubSeqProperties DEF Front
  <2> QED BY <2>2, <2>3 DEF EditorKey
<1>4. /\ JobTypeOK' /\ pc' = "editing" /\ job'.cmd = job.cmd /\ job'.dst = job.dst
  BY <1>1, <1>3, ContinueTypes
<1>5. Editing
  BY DEF ShellInv, JobIsUnderWay, EditorKey
<1>6. JobIsUnderWay'
  BY <1>2, <1>4, <1>5 DEF JobIsUnderWay, Editing, HasFile
<1> QED BY <1>2, <1>4, <1>6 DEF ShellInv

(* The editor saves, and is left.                                          *)
LEMMA EditorEscPreserves ==
  ASSUME ShellInv, EditorEsc
  PROVE  ShellInv'
<1>1. /\ job.dst \in Name /\ job.buf \in Seq(Byte) /\ fs_write(job.dst, job.buf)
      /\ Finish /\ UNCHANGED current_dir
  BY DEF ShellInv, JobTypeOK, EditorEsc
<1> QED BY <1>1, WriteCall, FinishPreserves DEF ShellInv

-----------------------------------------------------------------------------
(* The commands at the prompt.                                             *)

(* A resolved name that fits is absolute and valid.                        *)
LEMMA ResolvedIsAbsolute ==
  ASSUME NEW a, a \in Name, Resolve(a) \in Name
  PROVE  Resolve(a).abs /\ Resolve(a) \in ValidName
<1>1. Resolve(a).abs
  BY DEF Resolve
<1> QED BY <1>1

(* What is typed after write fits in a file.                               *)
LEMMA TypedFits ==
  ASSUME NEW text \in Typed
  PROVE  text \in Seq(Byte) /\ Len(text) <= FS_MAX_FILESIZE
BY DEF Typed

(* A command with one argument makes its first call.                       *)
LEMMA CommandPreserves ==
  ASSUME ShellInv, NEW a \in Arg, Within(a), Command(a)
  PROVE  ShellInv'
<1>1. /\ a \in Name /\ Resolve(a) \in Name /\ Resolve(a).abs /\ Resolve(a) \in ValidName
  BY ResolvedIsAbsolute DEF Within
<1>2. TableOK
  BY DEF ShellInv
<1>3. <<>> \in Seq(Byte) /\ Len(<<>>) <= FS_MAX_FILESIZE
  OBVIOUS
<1>4. CASE CmdNew(a) \/ CmdMkd(a)
  <2>1. PICK is_dir \in BOOLEAN : Immediate /\ Create(Resolve(a), is_dir)
    BY <1>4 DEF CmdNew, CmdMkd
  <2> QED BY <1>1, <1>2, <2>1, CreateCall, AtPromptPreserves
<1>5. CASE CmdSee(a) \/ CmdCnt(a)
  <2>1. PICK name \in Name : Immediate /\ fs_read(name)
    BY <1>1, <1>5 DEF CmdSee, CmdCnt, Counted
  <2> QED BY <1>2, <2>1, ReadCall, AtPromptPreserves
<1>6. CASE CmdDel(a) \/ FmDelete(a)
  <2>1. PICK name \in Name : Immediate /\ fs_delete(name)
    BY <1>1, <1>6 DEF CmdDel, FmDelete
  <2> QED BY <1>2, <2>1, DeleteCall, AtPromptPreserves
<1>7. CASE CmdEdit(a)
  BY <1>1, <1>3, <1>7, BeginPreserves DEF CmdEdit
<1>8. CASE CmdGoto(Resolve(a))
  BY <1>1, <1>8, GotoPreserves
<1>9. ASSUME NEW text \in Typed,
             CmdWrite(a, text) \/ CmdNotesNew(a, text) \/ FmCreate(a, text)
      PROVE  ShellInv'
  <2>1. text \in Seq(Byte) /\ Len(text) <= FS_MAX_FILESIZE
    BY TypedFits
  <2>2. CASE CmdWrite(a, text)
    BY <1>1, <1>2, <2>1, <2>2, WriteCall, AtPromptPreserves DEF CmdWrite
  <2>3. CASE CmdNotesNew(a, text)
    BY <1>1, <2>1, <2>3, BeginPreserves DEF CmdNotesNew
  <2>4. CASE FmCreate(a, text)
    BY <1>1, <2>1, <2>4, BeginPreserves DEF FmCreate
  <2> QED BY <1>9, <2>2, <2>3, <2>4
<1> QED BY <1>4, <1>5, <1>6, <1>7, <1>8, <1>9 DEF Command

(* A command with two arguments makes its first call.                      *)
LEMMA CommandOfTwoPreserves ==
  ASSUME ShellInv, NEW a \in Arg, NEW b \in Arg, Within(a), Within(b),
         CommandOfTwo(a, b)
  PROVE  ShellInv'
<1>1. Resolve(a) \in Name /\ Resolve(b) \in Name
  BY DEF Within
<1>2. <<>> \in Seq(Byte) /\ Len(<<>>) <= FS_MAX_FILESIZE
  OBVIOUS
<1>3. CASE CmdCpy(a, b)
  BY <1>1, <1>2, <1>3, BeginPreserves DEF CmdCpy, Copying
<1>4. CASE CmdRename(a, b)
  BY <1>1, <1>2, <1>4, BeginPreserves DEF CmdRename, Copying
<1>5. CASE CmdMov(a, b)
  BY <1>1, <1>2, <1>5, BeginPreserves DEF CmdMov, Copying
<1> QED BY <1>3, <1>4, <1>5 DEF CommandOfTwo

(* Every call of every command keeps the invariant.                        *)
LEMMA ShellStep == ShellInv /\ [ShellNext]_shellVars => ShellInv'
<1> SUFFICES ASSUME ShellInv, [ShellNext]_shellVars PROVE ShellInv'
  OBVIOUS
<1>1. CASE UNCHANGED shellVars
  <2>1. TableOK' /\ Stored' = Stored
    BY <1>1, NoCall DEF ShellInv, shellVars, fsVars
  <2>2. JobTypeOK'
    BY <1>1 DEF ShellInv, JobTypeOK, shellVars
  <2>3. JobIsUnderWay'
    BY <1>1, <2>1 DEF ShellInv, JobIsUnderWay, shellVars, ToRead, ToCreate, ToWrite,
                      ToDelete, Editing, Holds, HasFile, Abstract!Full
  <2> QED BY <2>1, <2>2, <2>3 DEF ShellInv
<1>2. CASE CmdGoto(Root)
  BY <1>2, GotoPreserves
<1>3. CASE CmdGoto(Parent)
  <2>1. Parent.abs
    BY DEF Parent, ShellInv, JobTypeOK
  <2> QED BY <1>3, <2>1, GotoPreserves
<1> QED BY <1>1, <1>2, <1>3, CommandPreserves, CommandOfTwoPreserves, ReadPreserves,
           CreateFilePreserves, WriteFilePreserves, DeleteSourcePreserves,
           EditorKeyPreserves, EditorEscPreserves DEF ShellNext

-----------------------------------------------------------------------------
(* Between any two calls the running command's knowledge of the file       *)
(* system is true.                                                         *)
THEOREM ShellInvariant == ShellSpec => []ShellInv
BY ShellInitially, ShellStep, PTL DEF ShellSpec

(* The file system's table stays consistent under the shell's commands:    *)
(* what the first part shows of callers who pass any name and content      *)
(* holds of these callers, whose contents are what they read and edited.   *)
THEOREM TableHoldsInShell == ShellSpec => []FsInv
<1>1. ShellInv => FsInv
  BY InvIsSlotsOK DEF ShellInv, TableOK
<1> QED BY <1>1, ShellInvariant, PTL

(* The working directory stays an absolute path and the buffer of a        *)
(* command, the editor's included, never outgrows a file.                  *)
THEOREM ShellTypeCorrect == ShellSpec => []ShellTypeOK
<1>1. ShellInv => ShellTypeOK
  BY DEF ShellInv, TableOK, SlotsOK, JobTypeOK, ShellTypeOK
<1> QED BY <1>1, ShellInvariant, PTL

(* mov and rename delete their source only when all of it is stored under  *)
(* another name (shell.c checks fs_create and then writes what it read).   *)
THEOREM MovesLoseNothing == ShellSpec => []MoveKeepsContent
<1>1. ShellInv => MoveKeepsContent
  BY DEF ShellInv, JobIsUnderWay, ToDelete, MoveKeepsContent
<1> QED BY <1>1, ShellInvariant, PTL

(* cpy, mov, rename and fm write only to a file that they have just made.  *)
THEOREM CopiesFillNewFiles == ShellSpec => []CopiesOverwriteNothing
<1>1. ShellInv => CopiesOverwriteNothing
  BY DEF ShellInv, JobIsUnderWay, ToWrite, Holds, CopiesOverwriteNothing
<1> QED BY <1>1, ShellInvariant, PTL

-----------------------------------------------------------------------------
(* A write to the file the command has made or opened stores the buffer.   *)
LEMMA BufferBecomesFile ==
  ASSUME ShellInv, HasFile(job.dst), fs_write(job.dst, job.buf)
  PROVE  job.dst \in DOMAIN Stored' /\ Stored'[job.dst] = [is_dir |-> FALSE, data |-> job.buf]
<1>1. TableOK /\ JobTypeOK /\ job.dst \in Name /\ job.buf \in Seq(Byte)
  BY DEF ShellInv, JobTypeOK
<1>2. TableOK' /\ (Abstract!Write(job.dst, job.buf) \/ Abstract!WriteFails(job.dst))
  BY <1>1, WriteCall
<1>3. /\ DOMAIN Stored' = DOMAIN Stored
      /\ Stored'[job.dst].is_dir = Stored[job.dst].is_dir
      /\ Stored'[job.dst].data = job.buf
  BY <1>1, <1>2, WholeBufferWritten
<1>4. TableOK => Entries
  BY StoredEntries
<1>5. TableOK' => Entries'
  BY StoredEntries, PTL
<1>6. /\ Stored[job.dst].is_dir = FALSE
      /\ Stored'[job.dst] = [is_dir |-> Stored'[job.dst].is_dir, data |-> Stored'[job.dst].data]
  BY <1>1, <1>2, <1>3, <1>4, <1>5 DEF Entries, HasFile
<1> QED BY <1>3, <1>6 DEF HasFile

(* notes new, too, has a file to write to unless its note is refused.      *)
LEMMA FileToWrite ==
  ASSUME ShellInv, pc \in {"write", "editing"}, ~NoteIsRefused
  PROVE  HasFile(job.dst)
<1>1. CASE pc = "editing"
  BY <1>1 DEF ShellInv, JobIsUnderWay, Editing
<1>2. CASE pc = "write" /\ job.cmd # "notes"
  BY <1>2 DEF ShellInv, JobIsUnderWay, ToWrite, Holds
<1>3. CASE pc = "write" /\ job.cmd = "notes"
  <2>1. job.dst \in DOMAIN Stored \/ Abstract!Full
    BY <1>3 DEF ShellInv, JobIsUnderWay, ToWrite
  <2>2. ASSUME Abstract!Full PROVE Cardinality(Used) = FS_MAX_FILES
    <3>1. SlotsOK
      BY DEF ShellInv, TableOK
    <3>2. Used = Slots
      BY <2>2, <3>1, FullIsNoFreeSlot DEF NoFreeSlot, Used
    <3>3. Cardinality(0 .. FS_MAX_FILES - 1) = FS_MAX_FILES
      <4>1. 0 \in Int /\ FS_MAX_FILES - 1 \in Int
        OBVIOUS
      <4> QED BY <4>1, FS_Interval
    <3> QED BY <3>2, <3>3 DEF Slots
  <2> QED BY <1>3, <2>1, <2>2 DEF NoteIsRefused, HasFile
<1> QED BY <1>1, <1>2, <1>3

(* What leaves the writing of a buffer is the call of fs_write with it.    *)
LEMMA SavingStep ==
  ASSUME ShellInv, ShellNext, pc \in {"write", "editing"}, pc' # pc
  PROVE  fs_write(job.dst, job.buf)
<1>1. WriteFile \/ EditorEsc \/ EditorKey
  BY DEF ShellNext, Command, CommandOfTwo, CmdNew, CmdMkd, CmdSee, CmdCnt, CmdDel,
         FmDelete, CmdEdit, CmdGoto, CmdWrite, CmdNotesNew, FmCreate, CmdCpy, CmdRename,
         CmdMov, Begin, Immediate, AtPrompt, Read, CreateFile, DeleteSource
<1>2. ~EditorKey
  BY DEF EditorKey, Continue
<1> QED BY <1>1, <1>2 DEF WriteFile, EditorEsc

(* The step in which a copy, a move, fm, the editor or notes new writes    *)
(* its buffer and goes on leaves exactly the buffer in the file: a full    *)
(* file is copied to its last byte, and what the editor shows is saved.    *)
THEOREM SavesKeepEveryByte == ShellSpec => SavesAreComplete
<1>1. ASSUME ShellInv, [ShellNext]_shellVars, pc \in {"write", "editing"}, pc' # pc,
             ~NoteIsRefused
      PROVE  /\ job.dst \in DOMAIN Stored'
             /\ Stored'[job.dst] = [is_dir |-> FALSE, data |-> job.buf]
  <2>1. ShellNext
    BY <1>1 DEF shellVars
  <2>2. HasFile(job.dst)
    BY <1>1, FileToWrite
  <2>3. fs_write(job.dst, job.buf)
    BY <1>1, <2>1, SavingStep
  <2> QED BY <1>1, <2>2, <2>3, BufferBecomesFile
<1>2. ShellInv /\ [ShellNext]_shellVars =>
        [(pc \in {"write", "editing"} /\ pc' # pc /\ ~NoteIsRefused) =>
            /\ job.dst \in DOMAIN Stored'
            /\ Stored'[job.dst] = [is_dir |-> FALSE, data |-> job.buf]]_shellVars
  BY <1>1
<1> QED BY <1>2, ShellInvariant, PTL DEF ShellSpec, SavesAreComplete
-----------------------------------------------------------------------------
(* What the commands leave in a file is never more than a file holds.      *)
Buffers == {data \in Seq(Byte) : Len(data) <= FS_MAX_FILESIZE}

(* The bounded map of FileStore as these callers use it.                   *)
Served == INSTANCE FileStore
            WITH MaxEntries <- FS_MAX_FILES, MaxSize <- FS_MAX_FILESIZE,
                 store <- Stored, Content <- Buffers

(* What a command does of a file system: a call, or none.                  *)
Call == \E n \in Name : \/ \E is_dir \in BOOLEAN : Create(n, is_dir)
                        \/ \E data \in Buffers : fs_write(n, data)
                        \/ fs_read(n) \/ fs_delete(n)

LEMMA CallOrNone ==
  ASSUME ShellInv, [ShellNext]_shellVars
  PROVE  Call \/ UNCHANGED fsVars
<1>1. CASE UNCHANGED shellVars
  BY <1>1 DEF shellVars
<1>2. ASSUME NEW a \in Arg, Within(a), Command(a) PROVE Call \/ UNCHANGED fsVars
  <2>1. a \in Name /\ Resolve(a) \in Name
    BY <1>2 DEF Within
  <2>2. CASE CmdNew(a) \/ CmdMkd(a)
    BY <2>1, <2>2 DEF CmdNew, CmdMkd, Call
  <2>3. CASE CmdSee(a) \/ CmdCnt(a)
    BY <2>1, <2>3 DEF CmdSee, CmdCnt, Counted, Call
  <2>4. CASE CmdDel(a) \/ FmDelete(a)
    BY <2>1, <2>4 DEF CmdDel, FmDelete, Call
  <2>5. CASE CmdEdit(a) \/ CmdGoto(Resolve(a))
    BY <2>5 DEF CmdEdit, CmdGoto, Begin
  <2>6. ASSUME NEW text \in Typed, CmdWrite(a, text) PROVE Call
    BY <2>1, <2>6, TypedFits DEF CmdWrite, Call, Buffers
  <2>7. ASSUME NEW text \in Typed, CmdNotesNew(a, text) \/ FmCreate(a, text)
        PROVE  UNCHANGED fsVars
    BY <2>7 DEF CmdNotesNew, FmCreate, Begin
  <2> QED BY <1>2, <2>2, <2>3, <2>4, <2>5, <2>6, <2>7 DEF Command
<1>3. ASSUME NEW a, NEW b, CommandOfTwo(a, b) PROVE UNCHANGED fsVars
  BY <1>3 DEF CommandOfTwo, CmdCpy, CmdRename, CmdMov, Begin
<1>4. ASSUME NEW dir, CmdGoto(dir) PROVE UNCHANGED fsVars
  BY <1>4 DEF CmdGoto
<1>5. job.src \in Name /\ job.dst \in Name /\ job.buf \in Buffers
  BY DEF ShellInv, JobTypeOK, Buffers
<1>6. CASE Read \/ CreateFile \/ WriteFile \/ DeleteSource \/ EditorEsc
  BY <1>5, <1>6 DEF Read, CreateFile, WriteFile, DeleteSource, EditorEsc, Call
<1>7. CASE EditorKey
  BY <1>7 DEF EditorKey
<1> QED BY <1>1, <1>2, <1>3, <1>4, <1>6, <1>7 DEF ShellNext

(* A call does to the map what FileStore says, a failed one nothing.       *)
LEMMA CallIsServed ==
  ASSUME TableOK, Call
  PROVE  Served!Next
<1>1. PICK n \in Name : \/ \E is_dir \in BOOLEAN : Create(n, is_dir)
                        \/ \E data \in Buffers : fs_write(n, data)
                        \/ fs_read(n) \/ fs_delete(n)
  BY DEF Call
<1>2. ASSUME NEW is_dir \in BOOLEAN, Create(n, is_dir) PROVE Served!Next
  <2>1. Abstract!Create(n, is_dir) \/ Abstract!CreateFails(n)
    BY <1>2, CreateCall
  <2>2. CASE Abstract!Create(n, is_dir)
    <3>1. Served!Create(n, is_dir)
      BY <2>2 DEF Abstract!Create, Abstract!Has, Abstract!Full, Abstract!Returns,
                  Abstract!Cardinality, Served!Create, Served!Has, Served!Full,
                  Served!Returns, Served!Cardinality
    <3> QED BY <3>1 DEF Served!Next
  <2>3. CASE Abstract!CreateFails(n)
    <3>1. Served!CreateFails(n)
      BY <2>3 DEF Abstract!CreateFails, Abstract!Has, Abstract!Full, Abstract!Fail,
                  Abstract!Returns, Abstract!Cardinality, Served!CreateFails,
                  Served!Has, Served!Full, Served!Fail, Served!Returns,
                  Served!Cardinality
    <3> QED BY <3>1 DEF Served!Next
  <2> QED BY <2>1, <2>2, <2>3
<1>3. ASSUME NEW data \in Buffers, fs_write(n, data) PROVE Served!Next
  <2>1. Abstract!Write(n, data) \/ Abstract!WriteFails(n)
    BY <1>3, WriteCall DEF Buffers
  <2>2. Served!Write(n, data) \/ Served!WriteFails(n)
    BY <2>1 DEF Abstract!Write, Abstract!WriteFails, Abstract!IsFile, Abstract!Has,
                Abstract!Kept, Abstract!Fail, Abstract!Returns, Served!Write,
                Served!WriteFails, Served!IsFile, Served!Has, Served!Kept,
                Served!Fail, Served!Returns
  <2> QED BY <2>2 DEF Served!Next
<1>4. ASSUME fs_read(n) PROVE Served!Next
  <2>1. Abstract!Read(n) \/ Abstract!ReadFails(n)
    BY <1>4, ReadCall
  <2>2. Served!Read(n) \/ Served!ReadFails(n)
    BY <2>1 DEF Abstract!Read, Abstract!ReadFails, Abstract!IsFile, Abstract!Has,
                Abstract!Fail, Abstract!Returns, Served!Read, Served!ReadFails,
                Served!IsFile, Served!Has, Served!Fail, Served!Returns
  <2> QED BY <2>2 DEF Served!Next
<1>5. ASSUME fs_delete(n) PROVE Served!Next
  <2>1. Abstract!Delete(n) \/ Abstract!DeleteFails(n)
    BY <1>5, DeleteCall
  <2>2. Served!Delete(n) \/ Served!DeleteFails(n)
    BY <2>1 DEF Abstract!Delete, Abstract!DeleteFails, Abstract!Has, Abstract!Fail,
                Abstract!Returns, Served!Delete, Served!DeleteFails, Served!Has,
                Served!Fail, Served!Returns
  <2> QED BY <2>2 DEF Served!Next
<1> QED BY <1>1, <1>2, <1>3, <1>4, <1>5

(* The shell, the editor and the table together are a user of the bounded  *)
(* map: between the calls of a command nothing happens to the files, and   *)
(* each call is one that FileStore allows, a buffer never longer than a    *)
(* file, a refused call changing nothing (shell.c, editor.c, filesystem.c).*)
THEOREM ShellUsesStore == ShellSpec => Served!Spec
<1>1. ShellInit => Served!Init
  <2>1. ShellInit => Abstract!Init
    BY InitRefinesStore DEF ShellInit
  <2> QED BY <2>1 DEF Abstract!Init, Served!Init
<1>2. ASSUME ShellInv, [ShellNext]_shellVars PROVE [Served!Next]_Served!vars
  <2>1. TableOK
    BY <1>2 DEF ShellInv
  <2>2. CASE Call
    BY <2>1, <2>2, CallIsServed
  <2>3. CASE UNCHANGED fsVars
    BY <2>1, <2>3, NoCall DEF fsVars, Served!vars
  <2> QED BY <1>2, <2>2, <2>3, CallOrNone
<1>3. ShellInv /\ [ShellNext]_shellVars => [Served!Next]_Served!vars
  BY <1>2
<1> QED BY <1>1, <1>3, ShellInvariant, PTL DEF ShellSpec, Served!Spec

-----------------------------------------------------------------------------
(***************************************************************************)
(* What laf and dtree select by prefixes of names is a tree, whatever the  *)
(* names in the table and however deep they lie.                           *)
(***************************************************************************)

HIDE DEF FileTableAssumption, PathsAssumption

(* Induction over the natural numbers, as a fact about sets.               *)
LEMMA LeastNumber ==
  ASSUME NEW T \in SUBSET Nat, T # {}
  PROVE  \E x \in T : \A y \in T : x <= y
<1> DEFINE R == {ss \in Nat \X Nat : ss[1] < ss[2]}
<1>1. IsWellFoundedOn(R, Nat)
  BY NatLessThanWellFounded DEF OpToRel
<1>2. \A x, y \in Nat : <<y, x>> \in R <=> y < x
  OBVIOUS
<1> HIDE DEF R
<1>3. PICK x \in T : \A y \in T : ~(<<y, x>> \in R)
  <2>1. ASSUME NEW U, U \subseteq Nat, U # {}
        PROVE  \E x \in U : \A y \in U : ~(<<y, x>> \in R)
    BY <1>1, <2>1, WFMin, Zenon
  <2> QED BY <2>1
<1>4. ASSUME NEW y \in T PROVE x <= y
  <2>1. x \in Nat /\ y \in Nat
    OBVIOUS
  <2>2. ~(y < x)
    BY <1>2, <1>3, <2>1
  <2> QED BY <2>1, <2>2
<1> QED BY <1>4

LEMMA SetInduction ==
  ASSUME NEW S \in SUBSET Nat, 0 \in S, \A n \in S : n + 1 \in S
  PROVE  S = Nat
<1> DEFINE Missing == Nat \ S
<1> SUFFICES ASSUME Missing # {} PROVE FALSE
  OBVIOUS
<1>1. PICK x \in Missing : \A y \in Missing : x <= y
  <2>1. Missing \in SUBSET Nat
    OBVIOUS
  <2> HIDE DEF Missing
  <2> QED BY <2>1, LeastNumber
<1>2. x - 1 \in Nat /\ ~(x <= x - 1)
  <2>1. x \in Nat /\ x # 0
    BY <1>1
  <2> QED BY <2>1
<1>3. x - 1 \in S
  BY <1>1, <1>2
<1>4. (x - 1) + 1 \in S
  BY <1>3
<1> QED BY <1>1, <1>2, <1>4

(* What holds at 0 and is kept from one number to the next holds up to N:  *)
(* Q is where it holds.                                                    *)
LEMMA UpTo ==
  ASSUME NEW N \in Nat, NEW Q \in SUBSET Nat, 0 \in Q,
         \A n \in Q : n < N => n + 1 \in Q
  PROVE  N \in Q
<1> DEFINE S == Q \cup {n \in Nat : n > N}
<1>1. S \in SUBSET Nat /\ 0 \in S
  OBVIOUS
<1>2. ASSUME NEW n \in S PROVE n + 1 \in S
  <2>1. CASE n \in Q /\ n < N
    BY <2>1
  <2>2. CASE ~(n < N)
    <3>1. n \in Nat /\ n + 1 > N
      BY <2>2
    <3> QED BY <3>1
  <2> QED BY <2>1, <2>2
<1> HIDE DEF S
<1>3. S = Nat
  BY <1>1, <1>2, SetInduction
<1>4. ~(N > N)
  OBVIOUS
<1> QED BY <1>3, <1>4 DEF S

-----------------------------------------------------------------------------
(* Sorting.                                                                *)

Rising(s, n, key) == \A i, j \in 1 .. n : i < j => key[s[i]] < key[s[j]]

(* A finite set can be put in the order of its keys: the element with the  *)
(* least key first.                                                        *)
LEMMA CanBeOrdered ==
  ASSUME NEW S, IsFiniteSet(S), NEW key, \A x \in S : key[x] \in Nat,
         \A x, y \in S : key[x] = key[y] => x = y
  PROVE  \E s \in [1 .. Cardinality(S) -> S] : Rising(s, Cardinality(S), key)
<1> DEFINE Q == {n \in Nat : \A T \in SUBSET S : Cardinality(T) = n =>
                               \E s \in [1 .. n -> T] : Rising(s, n, key)}
<1>1. 0 \in Q
  <2> SUFFICES ASSUME NEW T \in SUBSET S
               PROVE  \E s \in [1 .. 0 -> T] : Rising(s, 0, key)
    OBVIOUS
  <2>1. 1 .. 0 = {}
    OBVIOUS
  <2>2. PICK s : s = [i \in 1 .. 0 |-> CHOOSE x \in T : TRUE]
    OBVIOUS
  <2>3. s \in [1 .. 0 -> T]
    BY <2>1, <2>2
  <2>4. Rising(s, 0, key)
    BY <2>1 DEF Rising
  <2> QED BY <2>3, <2>4
<1>2. ASSUME NEW n \in Q PROVE n + 1 \in Q
  <2> SUFFICES ASSUME NEW T \in SUBSET S, Cardinality(T) = n + 1
               PROVE  \E s \in [1 .. n + 1 -> T] : Rising(s, n + 1, key)
    OBVIOUS
  <2>1. IsFiniteSet(T)
    BY FS_Subset
  <2>2. T # {}
    BY <2>1, FS_EmptySet
  <2>3. PICK x \in T : \A y \in T : key[x] <= key[y]
    <3> DEFINE K == {key[y] : y \in T}
    <3>1. K \in SUBSET Nat /\ K # {}
      BY <2>2
    <3>2. PICK k \in K : \A m \in K : k <= m
      <4> HIDE DEF K
      <4> QED BY <3>1, LeastNumber
    <3> QED BY <3>2
  <2>4. Cardinality(T \ {x}) = n
    <3>1. Cardinality(T \ {x}) = Cardinality(T) - 1
      BY <2>1, FS_RemoveElement
    <3> QED BY <3>1
  <2>5. PICK s \in [1 .. n -> T \ {x}] : Rising(s, n, key)
    <3>1. T \ {x} \in SUBSET S
      OBVIOUS
    <3> QED BY <2>4, <3>1
  <2>6. PICK g : g = [i \in 1 .. n + 1 |-> IF i = 1 THEN x ELSE s[i - 1]]
    OBVIOUS
  <2>7. \A i \in 1 .. n + 1 : i # 1 => i - 1 \in 1 .. n /\ g[i] = s[i - 1]
    BY <2>6
  <2>8. g[1] = x
    BY <2>6
  <2>9. g \in [1 .. n + 1 -> T]
    BY <2>6, <2>7
  <2>10. ASSUME NEW i \in 1 .. n + 1, NEW j \in 1 .. n + 1, i < j
         PROVE  key[g[i]] < key[g[j]]
    <3>1. j - 1 \in 1 .. n /\ g[j] = s[j - 1] /\ s[j - 1] \in T \ {x}
      BY <2>7, <2>10
    <3>2. CASE i = 1
      <4>1. key[x] <= key[g[j]] /\ key[x] # key[g[j]]
        BY <2>3, <3>1
      <4>2. key[x] \in Nat /\ key[g[j]] \in Nat
        BY <3>1
      <4> QED BY <2>8, <3>2, <4>1, <4>2
    <3>3. CASE i # 1
      <4>1. i - 1 \in 1 .. n /\ g[i] = s[i - 1] /\ i - 1 < j - 1
        BY <2>7, <2>10, <3>3
      <4> QED BY <2>5, <3>1, <4>1 DEF Rising
    <3> QED BY <3>2, <3>3
  <2> QED BY <2>9, <2>10 DEF Rising
<1>3. Cardinality(S) \in Nat /\ S \in SUBSET S
  BY FS_CardinalityType
<1>4. Q \in SUBSET Nat
  OBVIOUS
<1>5. Cardinality(S) \in Q
  <2> HIDE DEF Q
  <2>1. Q = Nat
    BY <1>1, <1>2, <1>4, SetInduction
  <2> QED BY <1>3, <2>1
<1> QED BY <1>3, <1>5

(* Ordered lists every element once.                                       *)
LEMMA OrderedElements ==
  ASSUME NEW S, IsFiniteSet(S), NEW key, \A x \in S : key[x] \in Nat,
         \A x, y \in S : key[x] = key[y] => x = y,
         NEW s, s = Ordered(S, key)
  PROVE  /\ s \in Seq(S) /\ Len(s) \in Nat /\ DOMAIN s = 1 .. Len(s)
         /\ \A i, j \in 1 .. Len(s) : s[i] = s[j] => i = j
         /\ \A x \in S : \E i \in 1 .. Len(s) : s[i] = x
<1>1. PICK c \in Nat : c = Cardinality(S)
  BY FS_CardinalityType
<1> DEFINE Sorted(t) == \A m, n \in DOMAIN t : m < n => key[t[m]] < key[t[n]]
<1>2. \E t \in [1 .. c -> S] : Sorted(t)
  <2>1. PICK t \in [1 .. c -> S] : Rising(t, c, key)
    BY <1>1, CanBeOrdered
  <2>2. DOMAIN t = 1 .. c
    OBVIOUS
  <2> QED BY <2>1, <2>2 DEF Rising
<1>3. s \in [1 .. c -> S] /\ Sorted(s)
  <2>1. s = CHOOSE t \in [1 .. c -> S] : Sorted(t)
    BY <1>1 DEF Ordered
  <2> HIDE DEF Sorted
  <2> QED BY <1>2, <2>1
<1>4. s \in Seq(S) /\ Len(s) = c /\ DOMAIN s = 1 .. c
  BY <1>3
<1>5. ASSUME NEW i \in 1 .. c, NEW j \in 1 .. c, s[i] = s[j] PROVE i = j
  <2>1. key[s[i]] \in Nat /\ key[s[j]] \in Nat /\ key[s[i]] = key[s[j]]
    BY <1>3, <1>5
  <2>2. ~(i < j) /\ ~(j < i)
    BY <1>3, <1>4, <2>1
  <2> QED BY <2>2
<1>6. s \in Injection(1 .. c, S)
  BY <1>3, <1>4, <1>5 DEF Injection, IsInjective
<1>7. s \in Surjection(1 .. c, S)
  <2>1. Cardinality(1 .. c) = c
    BY FS_Interval
  <2> QED BY <1>1, <1>6, <2>1, FS_Injection
<1>8. \A x \in S : \E i \in 1 .. c : s[i] = x
  BY <1>7 DEF Surjection
<1> QED BY <1>4, <1>5, <1>8

-----------------------------------------------------------------------------
(* Sequences of sequences.                                                 *)

(* The function FlattenSeq recurs on, over the first n of them.            *)
Flattens(f, ss, n) ==
  f = [i \in 1 .. n |-> IF i = 1 THEN ss[i] ELSE f[i - 1] \o ss[i]]

LEMMA FlattensExist ==
  ASSUME NEW ss, NEW n \in Nat
  PROVE  \E f : Flattens(f, ss, n)
<1> DEFINE S == {k \in Nat : \E f : Flattens(f, ss, k)}
<1>1. 0 \in S
  <2>1. PICK f : f = [i \in 1 .. 0 |-> ss[i]]
    OBVIOUS
  <2>2. \A i \in 1 .. 0 : FALSE
    OBVIOUS
  <2>3. Flattens(f, ss, 0)
    BY <2>1, <2>2 DEF Flattens
  <2> QED BY <2>3
<1>2. ASSUME NEW k \in S PROVE k + 1 \in S
  <2>1. PICK f : Flattens(f, ss, k)
    OBVIOUS
  <2>2. f = [i \in 1 .. k |-> IF i = 1 THEN ss[i] ELSE f[i - 1] \o ss[i]]
    BY <2>1 DEF Flattens
  <2>3. PICK g : g = [i \in 1 .. k + 1 |-> IF i <= k THEN f[i]
                        ELSE IF i = 1 THEN ss[i] ELSE f[i - 1] \o ss[i]]
    OBVIOUS
  <2> DEFINE h == [i \in 1 .. k + 1 |-> IF i = 1 THEN ss[i] ELSE g[i - 1] \o ss[i]]
  <2>4. ASSUME NEW i \in 1 .. k + 1 PROVE g[i] = h[i]
    <3>1. i # 1 => i - 1 \in 1 .. k /\ g[i - 1] = f[i - 1]
      BY <2>3
    <3>2. CASE i <= k
      <4>1. i \in 1 .. k /\ g[i] = f[i]
        BY <2>3, <3>2
      <4>2. f[i] = IF i = 1 THEN ss[i] ELSE f[i - 1] \o ss[i]
        BY <2>2, <4>1
      <4> QED BY <3>1, <4>1, <4>2
    <3>3. CASE ~(i <= k)
      <4>1. g[i] = IF i = 1 THEN ss[i] ELSE f[i - 1] \o ss[i]
        BY <2>3, <3>3
      <4> QED BY <3>1, <4>1
    <3> QED BY <3>2, <3>3
  <2>5. g = h
    BY <2>3, <2>4
  <2>6. Flattens(g, ss, k + 1)
    BY <2>5 DEF Flattens
  <2> QED BY <2>6
<1>3. S \in SUBSET Nat
  OBVIOUS
<1> HIDE DEF S
<1>4. S = Nat
  BY <1>1, <1>2, <1>3, SetInduction
<1> QED BY <1>4 DEF S

(* flat holds the elements of the first n sequences, in their order.       *)
Places(flat, ss, n) ==
  /\ \A k \in 1 .. n : \A m \in 1 .. Len(ss[k]) :
       \E p \in 1 .. Len(flat) : flat[p] = ss[k][m]
  /\ \A p \in 1 .. Len(flat) :
       \E k \in 1 .. n : \E m \in 1 .. Len(ss[k]) : flat[p] = ss[k][m]
  /\ \A p, q \in 1 .. Len(flat) : p < q =>
       \E k, l \in 1 .. n : \E m \in 1 .. Len(ss[k]), r \in 1 .. Len(ss[l]) :
         /\ flat[p] = ss[k][m] /\ flat[q] = ss[l][r]
         /\ k < l \/ (k = l /\ m < r)

LEMMA PlacesAppended ==
  ASSUME NEW X, NEW ss, NEW n \in Nat, NEW flat \in Seq(X), Places(flat, ss, n),
         ss[n + 1] \in Seq(X), NEW both, both = flat \o ss[n + 1]
  PROVE  both \in Seq(X) /\ Places(both, ss, n + 1)
<1>1. PICK a \in Nat : a = Len(flat)
  OBVIOUS
<1>2. PICK b \in Nat : b = Len(ss[n + 1])
  OBVIOUS
<1>3. both \in Seq(X) /\ Len(both) = a + b
  BY <1>1, <1>2
<1>4. \A p \in 1 .. a : both[p] = flat[p]
  BY <1>1, <1>2
<1>5. \A p \in 1 .. a + b : p > a => both[p] = ss[n + 1][p - a] /\ p - a \in 1 .. b
  BY <1>1, <1>2
<1>6. \A k \in 1 .. n + 1 : k \in 1 .. n \/ k = n + 1
  OBVIOUS
<1>7. /\ \A k \in 1 .. n : k \in 1 .. n + 1 /\ k < n + 1
      /\ n + 1 \in 1 .. n + 1
  OBVIOUS
<1>8. ASSUME NEW k \in 1 .. n + 1, NEW m \in 1 .. Len(ss[k])
      PROVE  \E p \in 1 .. Len(both) : both[p] = ss[k][m]
  <2>1. CASE k \in 1 .. n
    <3>1. PICK p \in 1 .. a : flat[p] = ss[k][m]
      BY <1>1, <2>1 DEF Places
    <3>2. p \in 1 .. a + b
      OBVIOUS
    <3> QED BY <1>3, <1>4, <3>1, <3>2
  <2>2. CASE k = n + 1
    <3>1. m \in 1 .. b
      BY <1>2, <2>2
    <3>2. a + m \in 1 .. a + b /\ a + m > a /\ (a + m) - a = m
      BY <3>1
    <3>3. both[a + m] = ss[n + 1][m]
      BY <1>5, <3>2
    <3> QED BY <1>3, <2>2, <3>2, <3>3
  <2> QED BY <1>6, <2>1, <2>2
<1>9. ASSUME NEW p \in 1 .. Len(both)
      PROVE  \E k \in 1 .. n + 1 : \E m \in 1 .. Len(ss[k]) : both[p] = ss[k][m]
  <2>1. CASE p \in 1 .. a
    <3>1. PICK k \in 1 .. n : \E m \in 1 .. Len(ss[k]) : flat[p] = ss[k][m]
      BY <1>1, <2>1 DEF Places
    <3> QED BY <1>4, <1>7, <2>1, <3>1
  <2>2. CASE p > a
    <3>1. both[p] = ss[n + 1][p - a] /\ p - a \in 1 .. b
      BY <1>3, <1>5, <2>2
    <3> QED BY <1>2, <1>7, <3>1
  <2>3. p \in 1 .. a \/ p > a
    BY <1>3
  <2> QED BY <2>1, <2>2, <2>3
<1>10. ASSUME NEW p \in 1 .. Len(both), NEW q \in 1 .. Len(both), p < q
       PROVE  \E k, l \in 1 .. n + 1 : \E m \in 1 .. Len(ss[k]), r \in 1 .. Len(ss[l]) :
                /\ both[p] = ss[k][m] /\ both[q] = ss[l][r]
                /\ k < l \/ (k = l /\ m < r)
  <2>1. CASE q \in 1 .. a
    <3>1. p \in 1 .. a
      BY <1>3, <1>10, <2>1
    <3>2. PICK k \in 1 .. n, l \in 1 .. n :
            \E m \in 1 .. Len(ss[k]), r \in 1 .. Len(ss[l]) :
              /\ flat[p] = ss[k][m] /\ flat[q] = ss[l][r]
              /\ k < l \/ (k = l /\ m < r)
      <4>1. p \in 1 .. Len(flat) /\ q \in 1 .. Len(flat)
        BY <1>1, <2>1, <3>1
      <4>2. \A u, v \in 1 .. Len(flat) : u < v =>
              \E k, l \in 1 .. n : \E m \in 1 .. Len(ss[k]), r \in 1 .. Len(ss[l]) :
                /\ flat[u] = ss[k][m] /\ flat[v] = ss[l][r]
                /\ k < l \/ (k = l /\ m < r)
        BY DEF Places
      <4> QED BY <1>10, <4>1, <4>2
    <3>3. both[p] = flat[p] /\ both[q] = flat[q]
      BY <1>4, <2>1, <3>1
    <3>4. k \in 1 .. n + 1 /\ l \in 1 .. n + 1
      BY <1>7
    <3> QED BY <3>2, <3>3, <3>4
  <2>2. CASE q > a /\ p \in 1 .. a
    <3>1. PICK k \in 1 .. n : \E m \in 1 .. Len(ss[k]) : flat[p] = ss[k][m]
      BY <1>1, <2>2 DEF Places
    <3>2. PICK m \in 1 .. Len(ss[k]) : both[p] = ss[k][m]
      BY <1>4, <2>2, <3>1
    <3>3. both[q] = ss[n + 1][q - a] /\ q - a \in 1 .. Len(ss[n + 1])
      BY <1>2, <1>3, <1>5, <2>2
    <3>4. k \in 1 .. n + 1 /\ n + 1 \in 1 .. n + 1 /\ k < n + 1
      BY <1>7
    <3> QED BY <3>2, <3>3, <3>4
  <2>3. CASE q > a /\ p > a
    <3>1. both[p] = ss[n + 1][p - a] /\ p - a \in 1 .. Len(ss[n + 1])
      BY <1>2, <1>3, <1>5, <2>3
    <3>2. both[q] = ss[n + 1][q - a] /\ q - a \in 1 .. Len(ss[n + 1])
      BY <1>2, <1>3, <1>5, <2>3
    <3>3. p - a < q - a
      BY <1>3, <1>10
    <3> QED BY <1>7, <3>1, <3>2, <3>3
  <2>4. q \in 1 .. a \/ (q > a /\ p \in 1 .. a) \/ (q > a /\ p > a)
    BY <1>3, <1>10
  <2> QED BY <2>1, <2>2, <2>3, <2>4
<1> QED BY <1>3, <1>8, <1>9, <1>10 DEF Places

LEMMA FlattenPlaces ==
  ASSUME NEW X, NEW n \in Nat, NEW ss, ss = [k \in 1 .. n |-> ss[k]],
         \A k \in 1 .. n : ss[k] \in Seq(X)
  PROVE  FlattenSeq(ss) \in Seq(X) /\ Places(FlattenSeq(ss), ss, n)
<1>1. ss \in Seq(Seq(X)) /\ Len(ss) = n
  <2>1. ss \in [1 .. n -> Seq(X)]
    OBVIOUS
  <2> QED BY <2>1
<1>2. CASE n = 0
  <2>1. FlattenSeq(ss) = ss /\ ss = <<>>
    BY <1>1, <1>2 DEF FlattenSeq
  <2>2. Places(<<>>, ss, 0)
    BY DEF Places
  <2>3. <<>> \in Seq(X)
    OBVIOUS
  <2>4. FlattenSeq(ss) = <<>>
    BY <2>1
  <2> QED BY <1>2, <2>2, <2>3, <2>4
<1>3. CASE n # 0
  <2> DEFINE f == CHOOSE g : Flattens(g, ss, n)
  <2>1. Flattens(f, ss, n)
    BY FlattensExist
  <2>2. FlattenSeq(ss) = f[n]
    BY <1>1, <1>3 DEF FlattenSeq, Flattens
  <2> HIDE DEF f
  <2>3. f = [i \in 1 .. n |-> IF i = 1 THEN ss[i] ELSE f[i - 1] \o ss[i]]
    BY <2>1 DEF Flattens
  <2> DEFINE Q == {k \in Nat : k = 0 \/ (f[k] \in Seq(X) /\ Places(f[k], ss, k))}
  <2>4. ASSUME NEW k \in Q, k < n PROVE k + 1 \in Q
    <3>1. k + 1 \in 1 .. n
      BY <2>4
    <3>2. ss[k + 1] \in Seq(X)
      BY <3>1
    <3>3. CASE k = 0
      <4>1. f[1] = ss[1]
        BY <2>3, <3>1, <3>3
      <4>2. ss[1] = <<>> \o ss[1] /\ ss[0 + 1] \in Seq(X)
        BY <3>2, <3>3
      <4>3. Places(<<>>, ss, 0) /\ <<>> \in Seq(X)
        BY DEF Places
      <4>4. PICK none \in Seq(X), z \in Nat : none = <<>> /\ z = 0
        BY <4>3
      <4>5. Places(none, ss, z) /\ ss[z + 1] \in Seq(X) /\ ss[1] = none \o ss[z + 1]
        BY <4>2, <4>3, <4>4
      <4>6. ss[1] \in Seq(X) /\ Places(ss[1], ss, z + 1)
        BY <4>5, PlacesAppended
      <4> QED BY <3>3, <4>1, <4>4, <4>6
    <3>4. CASE k # 0
      <4>1. f[k] \in Seq(X) /\ Places(f[k], ss, k)
        BY <3>4
      <4>2. f[k + 1] = f[k] \o ss[k + 1]
        <5>1. (k + 1) - 1 = k /\ k + 1 # 1
          BY <3>4
        <5> QED BY <2>3, <3>1, <5>1
      <4>3. f[k + 1] \in Seq(X) /\ Places(f[k + 1], ss, k + 1)
        BY <3>2, <4>1, <4>2, PlacesAppended
      <4> QED BY <4>3
    <3> QED BY <3>3, <3>4
  <2>5. 0 \in Q /\ Q \in SUBSET Nat
    OBVIOUS
  <2>6. n \in Q
    <3> HIDE DEF Q
    <3> QED BY <2>4, <2>5, UpTo
  <2> QED BY <1>3, <2>2, <2>6
<1> QED BY <1>2, <1>3

-----------------------------------------------------------------------------
(* Paths.                                                                  *)

(* s is a proper beginning of t: IsStrictPrefix, component by component.   *)
Begins(s, t) == Len(s) < Len(t) /\ \A k \in 1 .. Len(s) : s[k] = t[k]

LEMMA InitialPart ==
  ASSUME NEW C, NEW t \in Seq(C), NEW n \in 0 .. Len(t)
  PROVE  /\ SubSeq(t, 1, n) \in Seq(C) /\ Len(SubSeq(t, 1, n)) = n
         /\ \A k \in 1 .. n : SubSeq(t, 1, n)[k] = t[k]
OBVIOUS

LEMMA SameComponents ==
  ASSUME NEW C, NEW s \in Seq(C), NEW t \in Seq(C), Len(s) = Len(t),
         \A k \in 1 .. Len(s) : s[k] = t[k]
  PROVE  s = t
BY SeqEqual

LEMMA PrefixMeans ==
  ASSUME NEW C, NEW s \in Seq(C), NEW t \in Seq(C)
  PROVE  IsStrictPrefix(s, t) <=> Begins(s, t)
<1>1. PICK m \in Nat, n \in Nat : m = Len(s) /\ n = Len(t)
  OBVIOUS
<1>2. PICK whole \in Seq(C) :
        /\ whole = SubSeq(s, 1, m) /\ Len(whole) = m
        /\ \A k \in 1 .. m : whole[k] = s[k]
  <2>1. m \in 0 .. Len(s)
    BY <1>1
  <2>2. /\ SubSeq(s, 1, m) \in Seq(C) /\ Len(SubSeq(s, 1, m)) = m
        /\ \A k \in 1 .. m : SubSeq(s, 1, m)[k] = s[k]
    BY <2>1, InitialPart
  <2> QED BY <2>2
<1>3. ASSUME m <= n, SubSeq(s, 1, m) = SubSeq(t, 1, m), NEW k \in 1 .. m
      PROVE  s[k] = t[k]
  <2>1. m \in 0 .. Len(t)
    BY <1>1, <1>3
  <2>2. \A j \in 1 .. m : SubSeq(t, 1, m)[j] = t[j]
    BY <2>1, InitialPart
  <2> QED BY <1>2, <1>3, <2>2
<1>4. ASSUME m <= n, \A k \in 1 .. m : s[k] = t[k]
      PROVE  SubSeq(s, 1, m) = SubSeq(t, 1, m)
  <2>1. m \in 0 .. Len(t)
    BY <1>1, <1>4
  <2>2. PICK part \in Seq(C) : /\ part = SubSeq(t, 1, m) /\ Len(part) = m
                              /\ \A k \in 1 .. m : part[k] = t[k]
    <3>1. /\ SubSeq(t, 1, m) \in Seq(C) /\ Len(SubSeq(t, 1, m)) = m
          /\ \A k \in 1 .. m : SubSeq(t, 1, m)[k] = t[k]
      BY <2>1, InitialPart
    <3> QED BY <3>1
  <2>3. whole = part
    BY <1>2, <1>4, <2>2, SameComponents
  <2> QED BY <1>2, <2>2, <2>3
<1>5. ASSUME m = n, \A k \in 1 .. m : s[k] = t[k] PROVE s = t
  BY <1>1, <1>5, SameComponents
<1>6. IsPrefix(s, t) <=> m <= n /\ SubSeq(s, 1, m) = SubSeq(t, 1, m)
  BY <1>1 DEF IsPrefix
<1>7. ASSUME IsStrictPrefix(s, t) PROVE Begins(s, t)
  <2>1. m <= n /\ SubSeq(s, 1, m) = SubSeq(t, 1, m) /\ s # t
    BY <1>6, <1>7 DEF IsStrictPrefix
  <2>2. \A k \in 1 .. m : s[k] = t[k]
    BY <1>3, <2>1
  <2>3. m # n
    BY <1>5, <2>1, <2>2
  <2> QED BY <1>1, <2>1, <2>2, <2>3 DEF Begins
<1>8. ASSUME Begins(s, t) PROVE IsStrictPrefix(s, t)
  <2>1. m < n /\ \A k \in 1 .. m : s[k] = t[k]
    BY <1>1, <1>8 DEF Begins
  <2>2. m <= n /\ s # t
    BY <1>1, <2>1
  <2> QED BY <1>4, <1>6, <2>1, <2>2 DEF IsStrictPrefix
<1> QED BY <1>7, <1>8

Parts(i) == PathOf(i).parts

LEMMA PathForm ==
  ASSUME FsInv, NEW i \in Used
  PROVE  /\ i \in Slots /\ PathOf(i) \in Name
         /\ PathOf(i) = [abs |-> PathOf(i).abs, parts |-> Parts(i)]
         /\ PathOf(i).abs \in BOOLEAN
         /\ Parts(i) \in Seq(DOMAIN Rank) /\ Len(Parts(i)) \in Nat
<1>1. i \in Slots /\ PathOf(i) \in ValidName
  BY DEF FsInv, NamesAreValid, Used, PathOf
<1>2. PathOf(i) \in Name
  BY <1>1, FileTableAssumption DEF FileTableAssumption
<1> QED BY <1>1, <1>2, RankAssumption DEF RankAssumption, Parts

LEMMA SamePath ==
  ASSUME FsInv, NEW i \in Used, NEW j \in Used,
         PathOf(i).abs, PathOf(j).abs, Parts(i) = Parts(j)
  PROVE  i = j
<1>1. PathOf(i).abs = PathOf(j).abs
  BY PathForm
<1>2. PathOf(i) = PathOf(j)
  BY <1>1, PathForm
<1> QED BY <1>2 DEF FsInv, UniqueNames, Used, PathOf

(* The entry's directory is dir.                                           *)
ChildOf(dir, i) == /\ PathOf(i).abs
                   /\ Len(Parts(i)) = Len(dir.parts) + 1
                   /\ Begins(dir.parts, Parts(i))

LEMMA NameForm ==
  ASSUME NEW dir \in Name
  PROVE  /\ dir = [abs |-> dir.abs, parts |-> dir.parts] /\ dir.abs \in BOOLEAN
         /\ dir.parts \in Seq(DOMAIN Rank) /\ Len(dir.parts) \in Nat
<1>1. /\ dir = [abs |-> dir.abs, parts |-> dir.parts] /\ dir.abs \in BOOLEAN
      /\ dir.parts \in Seq(DOMAIN Rank)
  BY RankAssumption DEF RankAssumption
<1> QED BY <1>1

LEMMA ChildMeans ==
  ASSUME FsInv, NEW dir \in Name, NEW i \in Used
  PROVE  IsChild(dir, PathOf(i)) /\ PathOf(i) # Slash <=> ChildOf(dir, i)
<1>1. PICK s \in Seq(DOMAIN Rank) : s = dir.parts /\ Len(s) \in Nat
  BY NameForm
<1>2. PICK t \in Seq(DOMAIN Rank) : t = Parts(i) /\ Len(t) \in Nat
  BY PathForm
<1>3. IsChild(dir, PathOf(i)) <=> /\ PathOf(i).abs
                                  /\ dir = Slash \/ Begins(s, t)
                                  /\ Len(t) <= Len(s) + 1
  <2>1. IsStrictPrefix(s, t) <=> Begins(s, t)
    BY PrefixMeans
  <2> QED BY <1>1, <1>2, <2>1 DEF IsChild, Under, Parts
<1>4. ChildOf(dir, i) <=> PathOf(i).abs /\ Len(t) = Len(s) + 1 /\ Begins(s, t)
  BY <1>1, <1>2 DEF ChildOf
<1>5. PathOf(i).abs => (PathOf(i) # Slash <=> Len(t) # 0)
  <2> SUFFICES ASSUME PathOf(i).abs PROVE PathOf(i) # Slash <=> Len(t) # 0
    OBVIOUS
  <2>1. PathOf(i) = [abs |-> TRUE, parts |-> t]
    BY <1>2, PathForm
  <2>2. Len(t) = 0 <=> t = <<>>
    OBVIOUS
  <2>3. Slash.parts = <<>> /\ PathOf(i).parts = t
    BY <2>1 DEF Slash
  <2>4. t = <<>> => PathOf(i) = Slash
    BY <2>1 DEF Slash
  <2> QED BY <2>2, <2>3, <2>4
<1>6. CASE dir = Slash
  <2>1. Len(s) = 0 /\ (Len(t) = 1 => Begins(s, t))
    <3>1. s = <<>>
      BY <1>1, <1>6 DEF Slash
    <3>2. Len(s) = 0 /\ \A k \in 1 .. Len(s) : FALSE
      BY <3>1
    <3>3. Len(t) = 1 => Len(s) < Len(t)
      BY <3>2
    <3> QED BY <3>2, <3>3 DEF Begins
  <2>2. Len(t) <= Len(s) + 1 /\ Len(t) # 0 <=> Len(t) = Len(s) + 1
    <3>1. PICK a \in Nat, b \in Nat : a = Len(s) /\ b = Len(t) /\ a = 0
      BY <1>2, <2>1
    <3>2. b <= a + 1 /\ b # 0 <=> b = a + 1
      BY <3>1
    <3> QED BY <3>1, <3>2
  <2>3. Len(t) = Len(s) + 1 => Begins(s, t)
    BY <2>1
  <2> QED BY <1>3, <1>4, <1>5, <1>6, <2>2, <2>3
<1>7. CASE dir # Slash
  <2>1. Begins(s, t) => Len(s) < Len(t)
    BY DEF Begins
  <2>2. Begins(s, t) /\ Len(t) <= Len(s) + 1 <=> Begins(s, t) /\ Len(t) = Len(s) + 1
    BY <1>1, <1>2, <2>1
  <2>3. Len(t) = Len(s) + 1 => Len(t) # 0
    BY <1>1, <1>2
  <2> QED BY <1>3, <1>4, <1>5, <1>7, <2>2, <2>3
<1> QED BY <1>6, <1>7

LEMMA UsedIsFinite == IsFiniteSet(Used)
<1>1. IsFiniteSet(Slots)
  BY FS_Interval, FileTableAssumption DEF Slots, FileTableAssumption
<1>2. Used \in SUBSET Slots
  BY DEF Used
<1> QED BY <1>1, <1>2, FS_Subset

(* What a directory's listing goes through: its children, each once.       *)
LEMMA ChildrenListed ==
  ASSUME FsInv, NEW dir \in Name, NEW c, c = TreeChildren(dir)
  PROVE  /\ c \in Seq(Used) /\ Len(c) \in Nat /\ DOMAIN c = 1 .. Len(c)
         /\ \A k, l \in 1 .. Len(c) : c[k] = c[l] => k = l
         /\ \A k \in 1 .. Len(c) : c[k] \in Used /\ ChildOf(dir, c[k])
         /\ \A i \in Used : ChildOf(dir, i) => \E k \in 1 .. Len(c) : c[k] = i
<1>1. PICK S : S = {i \in Used : IsChild(dir, PathOf(i)) /\ PathOf(i) # Slash}
  OBVIOUS
<1>2. \A i : i \in S <=> i \in Used /\ ChildOf(dir, i)
  BY <1>1, ChildMeans
<1>3. PICK key : key = [i \in S |-> Rank[Last(PathOf(i).parts)]]
  OBVIOUS
<1>4. c = Ordered(S, key)
  BY <1>1, <1>3 DEF TreeChildren
<1>5. S \in SUBSET Used /\ IsFiniteSet(S)
  <2>1. S \in SUBSET Used
    BY <1>1
  <2> QED BY <2>1, UsedIsFinite, FS_Subset
<1>6. PICK n \in Nat : n = Len(dir.parts) + 1
  BY NameForm
<1>7. ASSUME NEW i \in S
      PROVE  /\ Parts(i) \in Seq(DOMAIN Rank) /\ Len(Parts(i)) = n
             /\ \A k \in 1 .. n - 1 : Parts(i)[k] = dir.parts[k]
             /\ PathOf(i).abs
             /\ Parts(i)[n] \in DOMAIN Rank /\ key[i] = Rank[Parts(i)[n]]
  <2>1. i \in Used /\ ChildOf(dir, i)
    BY <1>2
  <2>2. Parts(i) \in Seq(DOMAIN Rank)
    BY <2>1, PathForm
  <2>3. /\ Len(Parts(i)) = n /\ PathOf(i).abs
        /\ \A k \in 1 .. Len(dir.parts) : dir.parts[k] = Parts(i)[k]
    BY <1>6, <2>1 DEF ChildOf, Begins
  <2>4. n - 1 = Len(dir.parts) /\ n \in 1 .. n
    BY <1>6, NameForm
  <2>5. Parts(i)[n] \in DOMAIN Rank
    BY <2>2, <2>3, <2>4
  <2>6. key[i] = Rank[Parts(i)[n]]
    BY <1>3, <2>3 DEF Last, Parts
  <2> QED BY <2>2, <2>3, <2>4, <2>5, <2>6
<1>8. \A i \in S : key[i] \in Nat
  BY <1>7, RankAssumption DEF RankAssumption
<1>9. ASSUME NEW i \in S, NEW j \in S, key[i] = key[j] PROVE i = j
  <2>1. Parts(i)[n] = Parts(j)[n]
    <3>1. Rank[Parts(i)[n]] = Rank[Parts(j)[n]]
      BY <1>7, <1>9
    <3> QED BY <1>7, <3>1, RankAssumption DEF RankAssumption, IsInjective
  <2>2. \A k \in 1 .. n : Parts(i)[k] = Parts(j)[k]
    <3>1. \A k \in 1 .. n : k \in 1 .. n - 1 \/ k = n
      OBVIOUS
    <3> QED BY <1>7, <2>1, <3>1
  <2>3. Parts(i) = Parts(j)
    <3>1. PICK s \in Seq(DOMAIN Rank), t \in Seq(DOMAIN Rank) :
            s = Parts(i) /\ t = Parts(j) /\ Len(s) = n /\ Len(t) = n
      BY <1>7
    <3>2. s = t
      BY <2>2, <3>1, SameComponents
    <3> QED BY <3>1, <3>2
  <2> QED BY <1>2, <1>7, <2>3, SamePath
<1>10. /\ c \in Seq(S) /\ Len(c) \in Nat /\ DOMAIN c = 1 .. Len(c)
       /\ \A k, l \in 1 .. Len(c) : c[k] = c[l] => k = l
       /\ \A i \in S : \E k \in 1 .. Len(c) : c[k] = i
  BY <1>4, <1>5, <1>8, <1>9, OrderedElements
<1>11. \A k \in 1 .. Len(c) : c[k] \in S
  BY <1>10
<1>12. c \in Seq(Used)
  BY <1>5, <1>10
<1> QED BY <1>2, <1>10, <1>11, <1>12

-----------------------------------------------------------------------------
(* The recursion of fs_print_tree ends: every child's path is longer than  *)
(* its directory's, and the table bounds the length.                       *)

(* What one entry and one directory print, f telling what the directories  *)
(* below print.                                                            *)
Branch(f, i) == IF fs_table[i].is_dir THEN <<i>> \o f[PathOf(i)] ELSE <<i>>

TreeStep(f, dir) ==
  FlattenSeq([k \in DOMAIN TreeChildren(dir) |-> Branch(f, TreeChildren(dir)[k])])

LEMMA StepAsksChildren ==
  ASSUME FsInv, NEW dir \in Name, NEW f, NEW g,
         \A i \in Used : ChildOf(dir, i) => f[PathOf(i)] = g[PathOf(i)]
  PROVE  TreeStep(f, dir) = TreeStep(g, dir)
<1>1. PICK c : c = TreeChildren(dir)
  OBVIOUS
<1>2. DOMAIN c = 1 .. Len(c) /\ \A k \in 1 .. Len(c) : c[k] \in Used /\ ChildOf(dir, c[k])
  BY <1>1, ChildrenListed
<1>3. ASSUME NEW k \in DOMAIN c PROVE Branch(f, c[k]) = Branch(g, c[k])
  BY <1>2 DEF Branch
<1>4. [k \in DOMAIN c |-> Branch(f, c[k])] = [k \in DOMAIN c |-> Branch(g, c[k])]
  BY <1>3
<1> QED BY <1>1, <1>4 DEF TreeStep

LEMMA TableIsShallow ==
  ASSUME FsInv
  PROVE  \E D \in Nat : \A i \in Used : Len(Parts(i)) <= D
<1> DEFINE Q == {n \in Nat : \E D \in Nat : \A i \in Used : i < n => Len(Parts(i)) <= D}
<1>1. \A i \in Used : i \in 0 .. FS_MAX_FILES - 1 /\ Len(Parts(i)) \in Nat
  BY PathForm DEF Slots
<1>2. 0 \in Q
  BY <1>1
<1>3. ASSUME NEW n \in Q PROVE n + 1 \in Q
  <2>1. PICK D \in Nat : \A i \in Used : i < n => Len(Parts(i)) <= D
    OBVIOUS
  <2>2. CASE n \in Used
    <3>1. PICK l \in Nat : l = Len(Parts(n))
      BY <1>1, <2>2
    <3>2. PICK E \in Nat : E = D + l
      OBVIOUS
    <3>3. ASSUME NEW i \in Used, i < n + 1 PROVE Len(Parts(i)) <= E
      <4>1. i < n \/ i = n
        BY <1>1, <3>3
      <4> QED BY <1>1, <2>1, <3>1, <3>2, <4>1
    <3> QED BY <3>3
  <2>3. CASE n \notin Used
    <3>1. ASSUME NEW i \in Used, i < n + 1 PROVE i < n
      BY <1>1, <2>3, <3>1
    <3> QED BY <2>1, <3>1
  <2> QED BY <2>2, <2>3
<1>4. Q \in SUBSET Nat
  OBVIOUS
<1>5. FS_MAX_FILES \in Nat
  BY FileTableAssumption DEF FileTableAssumption
<1> HIDE DEF Q
<1>6. FS_MAX_FILES \in Q
  BY <1>2, <1>3, <1>4, <1>5, SetInduction
<1>7. PICK D \in Nat : \A i \in Used : i < FS_MAX_FILES => Len(Parts(i)) <= D
  BY <1>6 DEF Q
<1>8. \A i \in Used : i < FS_MAX_FILES
  BY <1>1, <1>5
<1> QED BY <1>7, <1>8

IsTree(f) == f = [dir \in Name |-> TreeStep(f, dir)]

LEMMA TreeExists ==
  ASSUME FsInv
  PROVE  \E f : IsTree(f)
<1>1. PICK D \in Nat : \A i \in Used : Len(Parts(i)) <= D
  BY TableIsShallow
<1>2. \A dir \in Name : Len(dir.parts) \in Nat
  BY NameForm
<1>3. \A i \in Used : PathOf(i) \in Name /\ Len(Parts(i)) \in Nat
  BY PathForm
<1> DEFINE Settled(f, n) == \A dir \in Name : Len(dir.parts) + n >= D =>
                              f[dir] = TreeStep(f, dir)
           Q == {n \in Nat : \E f : f = [dir \in Name |-> f[dir]] /\ Settled(f, n)}
(* One more level from the bottom.                                         *)
<1>4. ASSUME NEW f, NEW g, g = [dir \in Name |-> TreeStep(f, dir)],
             NEW dir \in Name,
             \A i \in Used : ChildOf(dir, i) => f[PathOf(i)] = TreeStep(f, PathOf(i))
      PROVE  g[dir] = TreeStep(g, dir)
  <2>1. \A i \in Used : g[PathOf(i)] = TreeStep(f, PathOf(i))
    BY <1>3, <1>4
  <2>2. TreeStep(f, dir) = TreeStep(g, dir)
    BY <1>4, <2>1, StepAsksChildren
  <2> QED BY <1>4, <2>2
<1>5. 0 \in Q
  <2>1. PICK f : f = [dir \in Name |-> <<>>]
    OBVIOUS
  <2>2. PICK g : g = [dir \in Name |-> TreeStep(f, dir)]
    OBVIOUS
  <2>3. ASSUME NEW dir \in Name, Len(dir.parts) + 0 >= D PROVE g[dir] = TreeStep(g, dir)
    <3>1. ASSUME NEW i \in Used, ChildOf(dir, i) PROVE FALSE
      <4>1. Len(Parts(i)) = Len(dir.parts) + 1 /\ Len(Parts(i)) <= D
        BY <1>1, <3>1 DEF ChildOf
      <4>2. Len(dir.parts) \in Nat
        BY <1>2
      <4> QED BY <2>3, <4>1, <4>2
    <3> QED BY <1>4, <2>2, <3>1
  <2> QED BY <2>2, <2>3
<1>6. ASSUME NEW n \in Q PROVE n + 1 \in Q
  <2>1. PICK f : Settled(f, n)
    OBVIOUS
  <2>2. PICK g : g = [dir \in Name |-> TreeStep(f, dir)]
    OBVIOUS
  <2>3. ASSUME NEW dir \in Name, Len(dir.parts) + (n + 1) >= D
        PROVE  g[dir] = TreeStep(g, dir)
    <3>1. ASSUME NEW i \in Used, ChildOf(dir, i)
          PROVE  f[PathOf(i)] = TreeStep(f, PathOf(i))
      <4>1. Len(PathOf(i).parts) = Len(dir.parts) + 1
        BY <3>1 DEF ChildOf, Parts
      <4>2. Len(PathOf(i).parts) + n >= D
        BY <1>2, <2>3, <4>1
      <4> QED BY <1>3, <2>1, <4>2
    <3>2. \A i \in Used : ChildOf(dir, i) => f[PathOf(i)] = TreeStep(f, PathOf(i))
      BY <3>1
    <3> HIDE DEF Settled, Q
    <3> QED BY <1>4, <2>2, <3>2
  <2>4. g = [dir \in Name |-> g[dir]]
    BY <2>2
  <2>5. Settled(g, n + 1)
    BY <2>3
  <2>6. n + 1 \in Nat
    OBVIOUS
  <2> HIDE DEF Settled
  <2> QED BY <2>4, <2>5, <2>6
<1>7. Q \in SUBSET Nat
  OBVIOUS
<1> HIDE DEF Q
<1>8. D \in Q
  BY <1>5, <1>6, <1>7, SetInduction
<1>9. PICK f : f = [dir \in Name |-> f[dir]] /\ Settled(f, D)
  BY <1>8 DEF Q
<1>10. ASSUME NEW dir \in Name PROVE f[dir] = TreeStep(f, dir)
  <2>1. Len(dir.parts) + D >= D
    BY <1>2
  <2> QED BY <1>9, <2>1
<1>11. f = [dir \in Name |-> TreeStep(f, dir)]
  BY <1>9, <1>10
<1> QED BY <1>11 DEF IsTree

LEMMA TreeUnfolds ==
  ASSUME FsInv, NEW dir \in Name
  PROVE  fs_print_tree[dir] = TreeStep(fs_print_tree, dir)
<1>1. fs_print_tree = CHOOSE f : IsTree(f)
  BY DEF fs_print_tree, IsTree, TreeStep, Branch
<1>2. IsTree(fs_print_tree)
  BY <1>1, TreeExists
<1>3. fs_print_tree = [d \in Name |-> TreeStep(fs_print_tree, d)]
  BY <1>2 DEF IsTree
<1> QED BY <1>3

-----------------------------------------------------------------------------
(* What it prints: the entries that directories lead to, in tree order.    *)

(* The entry lies below dir, and every directory in between exists.        *)
Reaches(dir, i) ==
  /\ PathOf(i).abs
  /\ Begins(dir.parts, Parts(i))
  /\ \A n \in Len(dir.parts) + 1 .. Len(Parts(i)) - 1 :
       \E j \in Used : /\ fs_table[j].is_dir /\ PathOf(j).abs
                       /\ Parts(j) = SubSeq(Parts(i), 1, n)

(* A list without repetition in which nothing precedes its directory.      *)
InTreeOrder(t) ==
  /\ t \in Seq(Used)
  /\ \A p, q \in 1 .. Len(t) : p < q => /\ t[p] # t[q]
                                        /\ ~Begins(Parts(t[q]), Parts(t[p]))

TreeShape(t, dir) ==
  /\ InTreeOrder(t)
  /\ \A p \in 1 .. Len(t) : Reaches(dir, t[p])
  /\ \A i \in Used : Reaches(dir, i) => \E p \in 1 .. Len(t) : t[p] = i

BelowOrSelf(c, i) == i = c \/ (fs_table[c].is_dir /\ Reaches(PathOf(c), i))

BranchShape(b, c) ==
  /\ InTreeOrder(b)
  /\ \A p \in 1 .. Len(b) : BelowOrSelf(c, b[p])
  /\ \A i \in Used : BelowOrSelf(c, i) => \E p \in 1 .. Len(b) : b[p] = i

(* An entry and what lies below it.                                        *)
LEMMA BranchIsShaped ==
  ASSUME FsInv, NEW f, NEW c \in Used,
         fs_table[c].is_dir => TreeShape(f[PathOf(c)], PathOf(c))
  PROVE  BranchShape(Branch(f, c), c)
<1>1. CASE ~fs_table[c].is_dir
  <2>1. PICK b : b = <<c>>
    OBVIOUS
  <2>2. Branch(f, c) = b
    BY <1>1, <2>1 DEF Branch
  <2>3. b \in Seq(Used) /\ Len(b) = 1 /\ b[1] = c
    BY <2>1
  <2>4. 1 .. Len(b) = {1}
    BY <2>3
  <2>5. InTreeOrder(b)
    BY <2>3, <2>4 DEF InTreeOrder
  <2>6. \A i : BelowOrSelf(c, i) <=> i = c
    BY <1>1 DEF BelowOrSelf
  <2> QED BY <2>2, <2>3, <2>4, <2>5, <2>6 DEF BranchShape
<1>2. CASE fs_table[c].is_dir
  <2>1. PICK t \in Seq(Used) : t = f[PathOf(c)] /\ TreeShape(t, PathOf(c))
    BY <1>2 DEF TreeShape, InTreeOrder
  <2>2. PICK n \in Nat : n = Len(t)
    OBVIOUS
  <2>3. PICK b \in Seq(Used) : b = <<c>> \o t
    <3>1. <<c>> \in Seq(Used)
      OBVIOUS
    <3>2. <<c>> \o t \in Seq(Used)
      BY <3>1
    <3> QED BY <3>2
  <2>4. Branch(f, c) = b
    BY <1>2, <2>1, <2>3 DEF Branch
  <2>5. /\ Len(b) = n + 1 /\ b[1] = c
        /\ \A p \in 1 .. n : b[p + 1] = t[p]
    BY <2>2, <2>3
  <2>6. \A p \in 1 .. n + 1 : p = 1 \/ (p - 1 \in 1 .. n /\ b[p] = t[p - 1])
    <3> TAKE p \in 1 .. n + 1
    <3>1. p = 1 \/ (p - 1 \in 1 .. n /\ (p - 1) + 1 = p)
      OBVIOUS
    <3> QED BY <2>5, <3>1
  <2>7. \A p \in 1 .. n : Reaches(PathOf(c), t[p]) /\ t[p] \in Used
    BY <2>1, <2>2 DEF TreeShape
  <2>8. \A p \in 1 .. n : Len(Parts(c)) < Len(Parts(t[p]))
    BY <2>7 DEF Reaches, Begins, Parts
  <2>9. Len(Parts(c)) \in Nat /\ \A p \in 1 .. n : Len(Parts(t[p])) \in Nat
    BY <2>7, PathForm
  <2>10. ASSUME NEW p \in 1 .. n + 1, NEW q \in 1 .. n + 1, p < q
         PROVE  b[p] # b[q] /\ ~Begins(Parts(b[q]), Parts(b[p]))
    <3>1. q - 1 \in 1 .. n /\ b[q] = t[q - 1]
      BY <2>6, <2>10
    <3>2. CASE p = 1
      <4>1. b[p] = c
        BY <2>5, <3>2
      <4>2. ~(Len(Parts(b[q])) < Len(Parts(c))) /\ Len(Parts(b[q])) # Len(Parts(c))
        BY <2>8, <2>9, <3>1
      <4> QED BY <4>1, <4>2 DEF Begins
    <3>3. CASE p # 1
      <4>1. p - 1 \in 1 .. n /\ b[p] = t[p - 1] /\ p - 1 < q - 1
        BY <2>6, <2>10, <3>3
      <4>2. \A x, y \in 1 .. n : x < y => /\ t[x] # t[y]
                                           /\ ~Begins(Parts(t[y]), Parts(t[x]))
        BY <2>1, <2>2 DEF TreeShape, InTreeOrder
      <4> QED BY <3>1, <4>1, <4>2
    <3> QED BY <3>2, <3>3
  <2>11. InTreeOrder(b)
    BY <2>5, <2>10 DEF InTreeOrder
  <2>12. \A p \in 1 .. n + 1 : BelowOrSelf(c, b[p])
    BY <1>2, <2>5, <2>6, <2>7 DEF BelowOrSelf
  <2>13. ASSUME NEW i \in Used, BelowOrSelf(c, i)
         PROVE  \E p \in 1 .. n + 1 : b[p] = i
    <3>1. CASE i = c
      <4>1. 1 \in 1 .. n + 1
        OBVIOUS
      <4> QED BY <2>5, <3>1, <4>1
    <3>2. CASE Reaches(PathOf(c), i)
      <4>1. PICK p \in 1 .. n : t[p] = i
        BY <2>1, <2>2, <3>2 DEF TreeShape
      <4>2. p + 1 \in 1 .. n + 1 /\ b[p + 1] = i
        BY <2>5, <4>1
      <4> QED BY <4>2
    <3> QED BY <2>13, <3>1, <3>2 DEF BelowOrSelf
  <2> QED BY <2>4, <2>5, <2>11, <2>12, <2>13 DEF BranchShape
<1> QED BY <1>1, <1>2

(* What lies at or below a child lies below the directory, and begins with *)
(* the child's path.                                                       *)
LEMMA ChildLeads ==
  ASSUME FsInv, NEW dir \in Name, NEW c \in Used, ChildOf(dir, c),
         NEW i \in Used, BelowOrSelf(c, i)
  PROVE  /\ Reaches(dir, i)
         /\ Len(Parts(i)) >= Len(dir.parts) + 1
         /\ \A k \in 1 .. Len(dir.parts) + 1 : Parts(i)[k] = Parts(c)[k]
<1>1. PICK n \in Nat : n = Len(dir.parts)
  BY NameForm
<1>2. /\ Parts(c) \in Seq(DOMAIN Rank) /\ Len(Parts(c)) = n + 1
      /\ PathOf(c).abs /\ \A k \in 1 .. n : dir.parts[k] = Parts(c)[k]
  BY <1>1, PathForm DEF ChildOf, Begins
<1>3. PICK m \in Nat : m = Len(Parts(i))
  BY PathForm
<1>4. CASE i = c
  <2>1. m = n + 1 /\ \A k \in n + 1 .. m - 1 : FALSE
    BY <1>2, <1>3, <1>4
  <2>2. Reaches(dir, i)
    BY <1>1, <1>3, <1>4, <2>1 DEF Reaches, ChildOf
  <2> QED BY <1>1, <1>3, <1>4, <2>1, <2>2
<1>5. CASE fs_table[c].is_dir /\ Reaches(PathOf(c), i)
  <2>1. /\ PathOf(i).abs /\ n + 1 < m
        /\ \A k \in 1 .. n + 1 : Parts(c)[k] = Parts(i)[k]
    BY <1>2, <1>3, <1>5 DEF Reaches, Begins, Parts
  <2>2. Begins(dir.parts, Parts(i))
    <3>1. n < m /\ \A k \in 1 .. n : k \in 1 .. n + 1
      BY <2>1
    <3> QED BY <1>1, <1>2, <1>3, <2>1, <3>1 DEF Begins
  <2>3. ASSUME NEW l \in n + 1 .. m - 1
        PROVE  \E j \in Used : /\ fs_table[j].is_dir /\ PathOf(j).abs
                               /\ Parts(j) = SubSeq(Parts(i), 1, l)
    <3>1. CASE l = n + 1
      <4>1. /\ SubSeq(Parts(i), 1, l) \in Seq(DOMAIN Rank)
            /\ Len(SubSeq(Parts(i), 1, l)) = l
            /\ \A k \in 1 .. l : SubSeq(Parts(i), 1, l)[k] = Parts(i)[k]
        <5>1. Parts(i) \in Seq(DOMAIN Rank) /\ l \in 0 .. Len(Parts(i))
          BY <1>3, PathForm
        <5> QED BY <5>1, InitialPart
      <4>2. Parts(c) = SubSeq(Parts(i), 1, l)
        <5>1. PICK s \in Seq(DOMAIN Rank) : s = SubSeq(Parts(i), 1, l)
          BY <4>1
        <5>2. Len(s) = Len(Parts(c)) /\ \A k \in 1 .. Len(s) : s[k] = Parts(c)[k]
          BY <1>2, <2>1, <3>1, <4>1, <5>1
        <5>3. s = Parts(c)
          BY <1>2, <5>2, SameComponents
        <5> QED BY <5>1, <5>3
      <4> QED BY <1>2, <1>5, <4>2
    <3>2. CASE l # n + 1
      <4>1. l \in Len(PathOf(c).parts) + 1 .. Len(Parts(i)) - 1
        BY <1>2, <1>3, <3>2 DEF Parts
      <4> QED BY <1>5, <4>1 DEF Reaches
    <3> QED BY <3>1, <3>2
  <2>4. Reaches(dir, i)
    BY <1>1, <1>3, <2>1, <2>2, <2>3 DEF Reaches
  <2>5. m >= n + 1
    BY <2>1
  <2> QED BY <1>1, <1>3, <2>1, <2>4, <2>5
<1> QED BY <1>4, <1>5 DEF BelowOrSelf

(* What lies below a directory lies at or below one of its children.       *)
LEMMA SomeChildLeads ==
  ASSUME FsInv, NEW dir \in Name, NEW i \in Used, Reaches(dir, i)
  PROVE  \E c \in Used : ChildOf(dir, c) /\ BelowOrSelf(c, i)
<1>1. PICK n \in Nat : n = Len(dir.parts)
  BY NameForm
<1>2. PICK m \in Nat : m = Len(Parts(i)) /\ Parts(i) \in Seq(DOMAIN Rank)
  BY PathForm
<1>3. n < m /\ PathOf(i).abs /\ \A k \in 1 .. n : dir.parts[k] = Parts(i)[k]
  BY <1>1, <1>2 DEF Reaches, Begins
<1>4. CASE m = n + 1
  <2>1. ChildOf(dir, i)
    BY <1>1, <1>2, <1>3, <1>4 DEF ChildOf, Reaches
  <2> QED BY <2>1 DEF BelowOrSelf
<1>5. CASE m # n + 1
  <2>1. n + 1 \in n + 1 .. m - 1
    BY <1>3, <1>5
  <2>2. PICK c \in Used : /\ fs_table[c].is_dir /\ PathOf(c).abs
                          /\ Parts(c) = SubSeq(Parts(i), 1, n + 1)
    BY <1>1, <1>2, <2>1 DEF Reaches
  <2>3. Len(Parts(c)) = n + 1 /\ \A k \in 1 .. n + 1 : Parts(c)[k] = Parts(i)[k]
    <3>1. n + 1 \in 0 .. Len(Parts(i))
      BY <1>2, <1>3
    <3> QED BY <1>2, <2>2, <3>1, InitialPart
  <2>4. ChildOf(dir, c)
    <3>1. \A k \in 1 .. n : k \in 1 .. n + 1
      OBVIOUS
    <3>2. n < n + 1
      OBVIOUS
    <3> QED BY <1>1, <1>3, <2>2, <2>3, <3>1, <3>2 DEF ChildOf, Begins
  <2>5. Begins(PathOf(c).parts, Parts(i))
    <3>1. n + 1 < m
      BY <1>3, <1>5
    <3> QED BY <1>2, <2>3, <3>1 DEF Begins, Parts
  <2>6. \A k \in Len(PathOf(c).parts) + 1 .. m - 1 : k \in n + 1 .. m - 1
    BY <2>3 DEF Parts
  <2>7. Reaches(PathOf(c), i)
    BY <1>1, <1>2, <1>3, <2>5, <2>6 DEF Reaches
  <2> QED BY <2>2, <2>4, <2>7 DEF BelowOrSelf
<1> QED BY <1>4, <1>5

LEMMA StepIsShaped ==
  ASSUME FsInv, NEW dir \in Name, NEW f,
         \A c \in Used : ChildOf(dir, c) => TreeShape(f[PathOf(c)], PathOf(c))
  PROVE  TreeShape(TreeStep(f, dir), dir)
<1>1. PICK c : c = TreeChildren(dir)
  OBVIOUS
<1>2. PICK n \in Nat : n = Len(c) /\ DOMAIN c = 1 .. n
  BY <1>1, ChildrenListed
<1>3. /\ \A k, l \in 1 .. n : c[k] = c[l] => k = l
      /\ \A k \in 1 .. n : c[k] \in Used /\ ChildOf(dir, c[k])
      /\ \A i \in Used : ChildOf(dir, i) => \E k \in 1 .. n : c[k] = i
  BY <1>1, <1>2, ChildrenListed
<1>4. PICK ss : ss = [k \in 1 .. n |-> Branch(f, c[k])]
  OBVIOUS
<1>5. \A k \in 1 .. n : BranchShape(ss[k], c[k])
  BY <1>3, <1>4, BranchIsShaped
<1>6. \A k \in 1 .. n : ss[k] \in Seq(Used)
  BY <1>5 DEF BranchShape, InTreeOrder
<1>7. PICK flat : flat = FlattenSeq(ss) /\ flat = TreeStep(f, dir)
  BY <1>1, <1>2, <1>4 DEF TreeStep
<1>8. flat \in Seq(Used) /\ Places(flat, ss, n)
  <2>1. ss = [k \in 1 .. n |-> ss[k]]
    BY <1>4
  <2> QED BY <1>6, <1>7, <2>1, FlattenPlaces
<1>9. PICK d \in Nat : d = Len(dir.parts)
  BY NameForm
(* What a branch prints begins with its child's path.                      *)
<1>10. ASSUME NEW k \in 1 .. n, NEW m \in 1 .. Len(ss[k])
       PROVE  /\ ss[k][m] \in Used /\ Reaches(dir, ss[k][m])
              /\ Len(Parts(ss[k][m])) \in Nat /\ Len(Parts(ss[k][m])) >= d + 1
              /\ \A x \in 1 .. d + 1 : Parts(ss[k][m])[x] = Parts(c[k])[x]
  <2>1. ss[k][m] \in Used
    BY <1>6
  <2>2. BelowOrSelf(c[k], ss[k][m])
    BY <1>5 DEF BranchShape
  <2>3. c[k] \in Used /\ ChildOf(dir, c[k])
    BY <1>3
  <2>4. /\ Reaches(dir, ss[k][m])
        /\ Len(Parts(ss[k][m])) >= Len(dir.parts) + 1
        /\ \A x \in 1 .. Len(dir.parts) + 1 : Parts(ss[k][m])[x] = Parts(c[k])[x]
    BY <2>1, <2>2, <2>3, ChildLeads
  <2> QED BY <1>9, <2>1, <2>4, PathForm
<1>11. ASSUME NEW k \in 1 .. n, NEW l \in 1 .. n,
              \A x \in 1 .. d + 1 : Parts(c[k])[x] = Parts(c[l])[x]
       PROVE  k = l
  <2>1. /\ c[k] \in Used /\ PathOf(c[k]).abs /\ Len(Parts(c[k])) = d + 1
        /\ c[l] \in Used /\ PathOf(c[l]).abs /\ Len(Parts(c[l])) = d + 1
    BY <1>3, <1>9 DEF ChildOf
  <2>2. PICK s \in Seq(DOMAIN Rank), t \in Seq(DOMAIN Rank) :
          s = Parts(c[k]) /\ t = Parts(c[l])
    BY <2>1, PathForm
  <2>3. s = t
    BY <1>11, <2>1, <2>2, SameComponents
  <2>4. c[k] = c[l]
    BY <2>1, <2>2, <2>3, SamePath
  <2> QED BY <1>3, <2>4
<1>12. ASSUME NEW p \in 1 .. Len(flat), NEW q \in 1 .. Len(flat), p < q
       PROVE  flat[p] # flat[q] /\ ~Begins(Parts(flat[q]), Parts(flat[p]))
  <2>1. PICK k \in 1 .. n, l \in 1 .. n :
          \E m \in 1 .. Len(ss[k]), r \in 1 .. Len(ss[l]) :
            /\ flat[p] = ss[k][m] /\ flat[q] = ss[l][r]
            /\ k < l \/ (k = l /\ m < r)
    <3>1. \A u, v \in 1 .. Len(flat) : u < v =>
            \E k, l \in 1 .. n : \E m \in 1 .. Len(ss[k]), r \in 1 .. Len(ss[l]) :
              /\ flat[u] = ss[k][m] /\ flat[v] = ss[l][r]
              /\ k < l \/ (k = l /\ m < r)
      BY <1>8 DEF Places
    <3> QED BY <1>12, <3>1
  <2>2. PICK m \in 1 .. Len(ss[k]), r \in 1 .. Len(ss[l]) :
          /\ flat[p] = ss[k][m] /\ flat[q] = ss[l][r]
          /\ k < l \/ (k = l /\ m < r)
    BY <2>1
  <2>3. CASE k = l /\ m < r
    <3>1. InTreeOrder(ss[k])
      BY <1>5 DEF BranchShape
    <3> QED BY <2>2, <2>3, <3>1 DEF InTreeOrder
  <2>4. CASE k < l
    <3>1. /\ Len(Parts(flat[q])) \in Nat /\ Len(Parts(flat[q])) >= d + 1
          /\ \A x \in 1 .. d + 1 : /\ Parts(flat[p])[x] = Parts(c[k])[x]
                                   /\ Parts(flat[q])[x] = Parts(c[l])[x]
      <4>1. \A x \in 1 .. d + 1 : Parts(ss[k][m])[x] = Parts(c[k])[x]
        BY <1>10
      <4>2. /\ Len(Parts(ss[l][r])) \in Nat /\ Len(Parts(ss[l][r])) >= d + 1
            /\ \A x \in 1 .. d + 1 : Parts(ss[l][r])[x] = Parts(c[l])[x]
        BY <1>10
      <4> QED BY <2>2, <4>1, <4>2
    <3>2. \A x \in 1 .. d + 1 : x \in 1 .. Len(Parts(flat[q]))
      BY <3>1
    <3>3. ASSUME flat[p] = flat[q] \/ Begins(Parts(flat[q]), Parts(flat[p]))
          PROVE  FALSE
      <4>1. \A x \in 1 .. d + 1 : Parts(flat[q])[x] = Parts(flat[p])[x]
        BY <3>2, <3>3 DEF Begins
      <4>2. \A x \in 1 .. d + 1 : Parts(c[k])[x] = Parts(c[l])[x]
        BY <3>1, <4>1
      <4>3. k = l
        BY <1>11, <4>2
      <4> QED BY <2>4, <4>3
    <3> QED BY <3>3
  <2> QED BY <2>2, <2>3, <2>4
<1>13. InTreeOrder(flat)
  BY <1>8, <1>12 DEF InTreeOrder
<1>14. ASSUME NEW p \in 1 .. Len(flat) PROVE Reaches(dir, flat[p])
  <2>1. PICK k \in 1 .. n : \E m \in 1 .. Len(ss[k]) : flat[p] = ss[k][m]
    BY <1>8 DEF Places
  <2>2. PICK m \in 1 .. Len(ss[k]) : flat[p] = ss[k][m]
    BY <2>1
  <2>3. Reaches(dir, ss[k][m])
    BY <1>10
  <2> QED BY <2>2, <2>3
<1>15. ASSUME NEW i \in Used, Reaches(dir, i)
       PROVE  \E p \in 1 .. Len(flat) : flat[p] = i
  <2>1. PICK e \in Used : ChildOf(dir, e) /\ BelowOrSelf(e, i)
    BY <1>15, SomeChildLeads
  <2>2. PICK k \in 1 .. n : c[k] = e
    BY <1>3, <2>1
  <2>3. PICK m \in 1 .. Len(ss[k]) : ss[k][m] = i
    BY <1>5, <2>1, <2>2 DEF BranchShape
  <2> QED BY <1>8, <2>3 DEF Places
<1> QED BY <1>7, <1>13, <1>14, <1>15 DEF TreeShape

LEMMA TreeIsShaped ==
  ASSUME FsInv, NEW dir \in Name
  PROVE  TreeShape(fs_print_tree[dir], dir)
<1>1. PICK D \in Nat : \A i \in Used : Len(Parts(i)) <= D
  BY TableIsShallow
<1>2. \A l, n \in Nat : l + (n + 1) >= D => (l + 1) + n >= D
  OBVIOUS
<1>3. \A d \in Name : Len(d.parts) \in Nat
  BY NameForm
<1>4. \A i \in Used : PathOf(i) \in Name /\ Len(Parts(i)) \in Nat
  BY PathForm
<1> DEFINE Shaped(d) == TreeShape(fs_print_tree[d], d)
           Q == {n \in Nat : \A d \in Name : Len(d.parts) + n >= D => Shaped(d)}
<1>5. ASSUME NEW d \in Name, \A c \in Used : ChildOf(d, c) => Shaped(PathOf(c))
      PROVE  Shaped(d)
  <2>1. TreeShape(TreeStep(fs_print_tree, d), d)
    BY <1>5, StepIsShaped
  <2> QED BY <2>1, TreeUnfolds
<1> HIDE DEF Shaped
<1>6. 0 \in Q
  <2>1. ASSUME NEW d \in Name, Len(d.parts) + 0 >= D PROVE Shaped(d)
    <3>1. ASSUME NEW i \in Used, ChildOf(d, i) PROVE FALSE
      <4>1. Len(Parts(i)) = Len(d.parts) + 1 /\ Len(Parts(i)) <= D
        BY <1>1, <3>1 DEF ChildOf
      <4>2. Len(d.parts) \in Nat
        BY <1>3
      <4> QED BY <2>1, <4>1, <4>2
    <3> QED BY <1>5, <3>1
  <2> QED BY <2>1
<1>7. ASSUME NEW n \in Q PROVE n + 1 \in Q
  <2>1. n \in Nat /\ \A d \in Name : Len(d.parts) + n >= D => Shaped(d)
    OBVIOUS
  <2>2. ASSUME NEW d \in Name, Len(d.parts) + (n + 1) >= D PROVE Shaped(d)
    <3>1. ASSUME NEW i \in Used, ChildOf(d, i) PROVE Shaped(PathOf(i))
      <4>1. PICK l \in Nat : l = Len(d.parts)
        BY <1>3
      <4>2. Len(PathOf(i).parts) = l + 1
        BY <3>1, <4>1 DEF ChildOf, Parts
      <4>3. l + (n + 1) >= D
        BY <2>2, <4>1
      <4>4. (l + 1) + n >= D
        BY <1>2, <2>1, <4>3
      <4>5. Len(PathOf(i).parts) + n >= D
        BY <4>2, <4>4
      <4> QED BY <1>4, <2>1, <4>5
    <3>2. \A i \in Used : ChildOf(d, i) => Shaped(PathOf(i))
      BY <3>1
    <3> HIDE DEF Q
    <3> QED BY <1>5, <3>2
  <2>3. n + 1 \in Nat
    BY <2>1
  <2> QED BY <2>2, <2>3
<1>8. Q \in SUBSET Nat
  OBVIOUS
<1>9. D \in Q
  <2> HIDE DEF Q
  <2> QED BY <1>6, <1>7, <1>8, SetInduction
<1>10. Shaped(dir)
  <2>1. Len(dir.parts) + D >= D
    BY <1>3
  <2> QED BY <1>9, <2>1
<1> QED BY <1>10 DEF Shaped

-----------------------------------------------------------------------------
(* The two listings show what the table holds.                             *)

(* No name is empty before "/": what it leads to is what is connected.     *)
LEMMA SlashReaches ==
  ASSUME FsInv, NEW i \in Used
  PROVE  Reaches(Slash, i) <=> Connected(i)
<1>1. PICK t \in Seq(DOMAIN Rank), m \in Nat : t = Parts(i) /\ m = Len(t)
  BY PathForm
<1>2. Len(Slash.parts) = 0
  BY DEF Slash
<1>3. t # <<>> <=> 0 < m
  BY <1>1
<1>4. Begins(Slash.parts, t) <=> t # <<>>
  <2>1. \A k \in 1 .. 0 : FALSE
    OBVIOUS
  <2> QED BY <1>1, <1>2, <1>3, <2>1 DEF Begins
<1>5. Len(Slash.parts) + 1 = 1
  BY <1>2
<1> QED BY <1>1, <1>4, <1>5 DEF Reaches, Connected, Parts

LEMMA TreeShowsConnected ==
  ASSUME FsInv, NEW tree, tree = fs_print_tree[Slash]
  PROVE  /\ IsInjective(tree)
         /\ ToSet(tree) = {i \in Used : Connected(i)}
         /\ \A k \in DOMAIN tree : \A m \in 1 .. k :
              ~IsStrictPrefix(PathOf(tree[k]).parts, PathOf(tree[m]).parts)
<1>1. TreeShape(tree, Slash)
  BY TreeIsShaped, PathsAssumption DEF PathsAssumption
<1>2. PICK n \in Nat : n = Len(tree) /\ DOMAIN tree = 1 .. n
  BY <1>1 DEF TreeShape, InTreeOrder
<1>3. \A k \in 1 .. n : tree[k] \in Used
  BY <1>1, <1>2 DEF TreeShape, InTreeOrder
<1>4. \A p, q \in 1 .. n : p < q => /\ tree[p] # tree[q]
                                    /\ ~Begins(Parts(tree[q]), Parts(tree[p]))
  BY <1>1, <1>2 DEF TreeShape, InTreeOrder
<1>5. IsInjective(tree)
  <2>1. ASSUME NEW a \in 1 .. n, NEW b \in 1 .. n, tree[a] = tree[b] PROVE a = b
    <3>1. a < b \/ b < a \/ a = b
      OBVIOUS
    <3> QED BY <1>4, <2>1, <3>1
  <2> QED BY <1>2, <2>1 DEF IsInjective
<1>6. ToSet(tree) = {i \in Used : Connected(i)}
  <2>1. \A k \in 1 .. n : Connected(tree[k])
    BY <1>1, <1>2, <1>3, SlashReaches DEF TreeShape
  <2>2. \A i \in Used : Connected(i) => \E k \in 1 .. n : tree[k] = i
    BY <1>1, <1>2, SlashReaches DEF TreeShape
  <2> QED BY <1>2, <1>3, <2>1, <2>2 DEF ToSet
<1>7. ASSUME NEW k \in 1 .. n, NEW m \in 1 .. k
      PROVE  ~IsStrictPrefix(PathOf(tree[k]).parts, PathOf(tree[m]).parts)
  <2>1. m \in 1 .. n
    OBVIOUS
  <2>2. PICK s \in Seq(DOMAIN Rank), t \in Seq(DOMAIN Rank) :
          /\ s = Parts(tree[k]) /\ Len(s) \in Nat
          /\ t = Parts(tree[m])
    BY <1>3, <2>1, PathForm
  <2>3. ~Begins(s, t)
    <3>1. CASE m = k
      BY <2>2, <3>1 DEF Begins
    <3>2. CASE m < k
      BY <1>4, <2>1, <2>2, <3>2
    <3> QED BY <3>1, <3>2
  <2> QED BY <2>2, <2>3, PrefixMeans DEF Parts
<1> QED BY <1>2, <1>5, <1>6, <1>7

(* Of a directory that is not "/", the entries whose name continues its    *)
(* own by one component.                                                   *)
LEMMA ListedMeans ==
  ASSUME FsInv, NEW dir \in Name, dir.abs, dir # Slash, NEW j \in Used
  PROVE  IsChild(dir, PathOf(j)) <=> /\ PathOf(j).abs /\ PathOf(j).parts # <<>>
                                     /\ Front(PathOf(j).parts) = dir.parts
<1>1. PICK s \in Seq(DOMAIN Rank), n \in Nat : s = dir.parts /\ n = Len(s)
  BY NameForm
<1>2. PICK t \in Seq(DOMAIN Rank), m \in Nat : t = PathOf(j).parts /\ m = Len(t)
  BY PathForm DEF Parts
<1>3. IsChild(dir, PathOf(j)) <=> PathOf(j).abs /\ Begins(s, t) /\ m <= n + 1
  <2>1. IsStrictPrefix(s, t) <=> Begins(s, t)
    BY PrefixMeans
  <2> QED BY <1>1, <1>2, <2>1 DEF IsChild, Under
<1>4. t # <<>> <=> 0 < m
  BY <1>2
<1>5. ASSUME Begins(s, t), m <= n + 1 PROVE t # <<>> /\ Front(t) = s
  <2>1. n < m /\ \A k \in 1 .. n : s[k] = t[k]
    BY <1>1, <1>2, <1>5 DEF Begins
  <2>2. m - 1 = n /\ n \in 0 .. m
    BY <1>5, <2>1
  <2>3. PICK f : f = SubSeq(t, 1, n)
    OBVIOUS
  <2>4. /\ f \in Seq(DOMAIN Rank) /\ Len(f) = n
        /\ \A k \in 1 .. n : f[k] = t[k]
    BY <1>2, <2>2, <2>3, InitialPart
  <2>5. f = s
    BY <1>1, <2>1, <2>4, SameComponents
  <2> QED BY <1>2, <1>4, <2>1, <2>2, <2>3, <2>5 DEF Front
<1>6. ASSUME t # <<>>, Front(t) = s PROVE Begins(s, t) /\ m <= n + 1
  <2>1. m - 1 \in 0 .. m
    BY <1>4, <1>6
  <2>2. s = SubSeq(t, 1, m - 1)
    BY <1>2, <1>6 DEF Front
  <2>3. n = m - 1 /\ \A k \in 1 .. m - 1 : s[k] = t[k]
    BY <1>1, <1>2, <2>1, <2>2, InitialPart
  <2>4. n < m /\ m <= n + 1
    BY <2>3
  <2> QED BY <1>1, <1>2, <2>3, <2>4 DEF Begins
<1> QED BY <1>1, <1>2, <1>3, <1>5, <1>6

LEMMA DirectoryIsListed ==
  ASSUME FsInv, NEW dir \in Name, dir.abs, dir # Slash
  PROVE  ToSet(fs_list_dir(dir)) =
           {j \in Used : /\ PathOf(j).abs /\ PathOf(j).parts # <<>>
                         /\ Front(PathOf(j).parts) = dir.parts}
<1>1. PICK S : S = {i \in Used : IsChild(dir, PathOf(i))}
  OBVIOUS
<1>2. PICK key : key = [i \in Slots |-> i]
  OBVIOUS
<1>3. PICK s : s = Ordered(S, key) /\ s = fs_list_dir(dir)
  BY <1>1, <1>2 DEF fs_list_dir
<1>4. S \in SUBSET Used /\ Used \in SUBSET Slots /\ Slots \in SUBSET Nat
  BY <1>1, FileTableAssumption DEF Used, Slots, FileTableAssumption
<1>5. \A x \in S : key[x] = x /\ key[x] \in Nat
  BY <1>2, <1>4
<1>6. IsFiniteSet(S)
  BY <1>4, UsedIsFinite, FS_Subset
<1>7. /\ s \in Seq(S) /\ DOMAIN s = 1 .. Len(s)
      /\ \A x \in S : \E i \in 1 .. Len(s) : s[i] = x
  <2>1. \A x, y \in S : key[x] = key[y] => x = y
    BY <1>5
  <2>2. \A x \in S : key[x] \in Nat
    BY <1>5
  <2>3. s = Ordered(S, key)
    BY <1>3
  <2>4. /\ s \in Seq(S) /\ Len(s) \in Nat /\ DOMAIN s = 1 .. Len(s)
        /\ \A i, j \in 1 .. Len(s) : s[i] = s[j] => i = j
        /\ \A x \in S : \E i \in 1 .. Len(s) : s[i] = x
    BY <1>6, <2>1, <2>2, <2>3, OrderedElements
  <2> QED BY <2>4
<1>8. ToSet(s) = S
  BY <1>7 DEF ToSet
<1> QED BY <1>1, <1>3, <1>8, ListedMeans

LEMMA TableIsListed ==
  ASSUME FsInv
  PROVE  ListingsShowTheTree
<1>1. PICK tree : tree = fs_print_tree[Slash]
  OBVIOUS
<1>2. ASSUME NEW i \in Used, fs_table[i].is_dir, PathOf(i).abs, PathOf(i) # Slash
      PROVE  ToSet(fs_list_dir(PathOf(i))) =
               {j \in Used : /\ PathOf(j).abs /\ PathOf(j).parts # <<>>
                             /\ Front(PathOf(j).parts) = PathOf(i).parts}
  BY <1>2, PathForm, DirectoryIsListed
<1> QED BY <1>1, <1>2, TreeShowsConnected DEF ListingsShowTheTree

(* After any sequence of commands, dtree of "/" prints every entry that    *)
(* directories lead to, once and after its directory, and laf shows of a   *)
(* directory what dtree shows of it.                                       *)
THEOREM ListingsAlwaysShowTheTree == ShellSpec => []ListingsShowTheTree
<1>1. FsInv => ListingsShowTheTree
  BY TableIsListed
<1> QED BY <1>1, TableHoldsInShell, PTL
=============================================================================
