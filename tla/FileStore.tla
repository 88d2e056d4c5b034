------------------------------ MODULE FileStore ------------------------------
(***************************************************************************)
(* What MiniFS promises its callers: a bounded map from names to files and *)
(* directories.  FileTable (the slots of filesystem.c) implements it.      *)
(***************************************************************************)
EXTENDS Integers, Sequences, FiniteSets

CONSTANTS Name,        \* every string a caller may pass
          ValidName,   \* those that are neither empty nor too long
          Root,        \* the directory that is there from the start
          Content,     \* what a caller may write
          MaxEntries,  \* how many entries fit
          MaxSize      \* how many bytes a file holds

VARIABLES store,       \* entries by name: [is_dir, data]
          ret          \* what the last call returned: a code, the bytes read

vars == <<store, ret>>

Returns(code, data) == ret' = [code |-> code, data |-> data]

Init == /\ store = [n \in {Root} |-> [is_dir |-> TRUE, data |-> <<>>]]
        /\ ret = [code |-> 0, data |-> <<>>]

Has(n) == n \in DOMAIN store
IsFile(n) == Has(n) /\ ~store[n].is_dir
Full == Cardinality(DOMAIN store) = MaxEntries

Fail == Returns(-1, <<>>) /\ UNCHANGED store

(* A new entry is empty, whatever its slot held before. *)
Create(n, is_dir) ==
  /\ n \in ValidName /\ ~Has(n) /\ ~Full
  /\ store' = [m \in DOMAIN store \cup {n} |->
                 IF m = n THEN [is_dir |-> is_dir, data |-> <<>>] ELSE store[m]]
  /\ Returns(0, <<>>)

CreateFails(n) == (n \notin ValidName \/ Has(n) \/ Full) /\ Fail

(* A write replaces the whole content and keeps what fits. *)
Kept(data) == IF Len(data) > MaxSize THEN SubSeq(data, 1, MaxSize) ELSE data

Write(n, data) == /\ IsFile(n)
                  /\ store' = [store EXCEPT ![n].data = Kept(data)]
                  /\ Returns(Len(Kept(data)), <<>>)

WriteFails(n) == ~IsFile(n) /\ Fail

Read(n) == /\ IsFile(n)
           /\ Returns(Len(store[n].data), store[n].data)
           /\ UNCHANGED store

ReadFails(n) == ~IsFile(n) /\ Fail

Delete(n) == /\ Has(n)
             /\ store' = [m \in DOMAIN store \ {n} |-> store[m]]
             /\ Returns(0, <<>>)

DeleteFails(n) == ~Has(n) /\ Fail

Next == \E n \in Name :
          \/ \E is_dir \in BOOLEAN : Create(n, is_dir)
          \/ CreateFails(n)
          \/ \E data \in Content : Write(n, data)
          \/ WriteFails(n)
          \/ Read(n) \/ ReadFails(n)
          \/ Delete(n) \/ DeleteFails(n)

Spec == Init /\ [][Next]_vars
=============================================================================
