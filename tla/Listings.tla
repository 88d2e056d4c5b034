------------------------------ MODULE Listings ------------------------------
(***************************************************************************)
(* What laf, fm and dtree print: fs_list_dir and fs_print_tree select      *)
(* entries by a prefix of their name, there being no tree of directories.  *)
(***************************************************************************)
EXTENDS ShellFiles

CONSTANT Rank     \* the order of components that strcmp gives

(* Different components differ to strcmp; a path is one of components.     *)
ASSUME RankAssumption ==
  /\ Rank \in [DOMAIN Rank -> Nat] /\ IsInjective(Rank)
  /\ \A n \in Name : /\ n = [abs |-> n.abs, parts |-> n.parts]
                      /\ n.abs \in BOOLEAN /\ n.parts \in Seq(DOMAIN Rank)

PathOf(i) == fs_table[i].name

(* The name begins with the directory's and a slash. *)
Under(dir, path) == path.abs /\ (dir = Slash \/ IsStrictPrefix(dir.parts, path.parts))

(* A faulty variant, against which the property is tried: names further    *)
(* down taken for children.                                                *)
IsDescendant(dir, path) == Under(dir, path)

(* What is left of the name has no slash; below "/" it may be empty.       *)
IsChild(dir, path) == Under(dir, path) /\ Len(path.parts) <= Len(dir.parts) + 1

(* The elements of S as a sequence in the order of their keys. *)
Ordered(S, key) == CHOOSE s \in [1 .. Cardinality(S) -> S] :
                     \A m, n \in DOMAIN s : m < n => key[s[m]] < key[s[n]]

(* The slots that fs_list_dir prints, in their order. *)
fs_list_dir(dir) == Ordered({i \in Used : IsChild(dir, PathOf(i))}, [i \in Slots |-> i])

(* The slots that fs_print_tree prints below a directory: children sorted  *)
(* by name, each directory followed by its own; an empty name is left out. *)
TreeChildren(dir) ==
  LET children == {i \in Used : IsChild(dir, PathOf(i)) /\ PathOf(i) # Slash}
  IN  Ordered(children, [i \in children |-> Rank[Last(PathOf(i).parts)]])

fs_print_tree[dir \in Name] ==
  LET printed(i) == IF fs_table[i].is_dir THEN <<i>> \o fs_print_tree[PathOf(i)]
                                          ELSE <<i>>
      children == TreeChildren(dir)
  IN  FlattenSeq([k \in DOMAIN children |-> printed(children[k])])

-----------------------------------------------------------------------------
(* All the directories above the entry exist. *)
Connected(i) == /\ PathOf(i).abs /\ PathOf(i).parts # <<>>
                /\ \A n \in 1 .. Len(PathOf(i).parts) - 1 :
                     \E j \in Used : /\ fs_table[j].is_dir
                                     /\ PathOf(j).abs
                                     /\ PathOf(j).parts = SubSeq(PathOf(i).parts, 1, n)

(* dtree of "/" prints every entry that its directories lead to, once and  *)
(* after its directory, whatever was made, moved and deleted in whatever   *)
(* order; what deld left without a directory is not shown, although it     *)
(* still has its slot.  And laf shows what dtree shows of a directory.     *)
ListingsShowTheTree ==
  LET tree == fs_print_tree[Slash]
  IN  /\ IsInjective(tree)
      /\ ToSet(tree) = {i \in Used : Connected(i)}
      /\ \A k \in DOMAIN tree : \A m \in 1 .. k :
           ~IsStrictPrefix(PathOf(tree[k]).parts, PathOf(tree[m]).parts)
      /\ \A i \in Used : fs_table[i].is_dir /\ PathOf(i).abs /\ PathOf(i) # Slash =>
           ToSet(fs_list_dir(PathOf(i))) =
             {j \in Used : PathOf(j).abs /\ PathOf(j).parts # <<>>
                             /\ Front(PathOf(j).parts) = PathOf(i).parts}
=============================================================================
