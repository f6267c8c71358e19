-------------------------------- MODULE Lists --------------------------------
(***************************************************************************)
(* The lists of src/list.h as sequences of the linked elements, head       *)
(* first.  An element is on at most one list (its link fields are one      *)
(* pair of pointers), so a list holds it at most once.                     *)
(***************************************************************************)
EXTENDS Integers, Sequences, Functions

\* A list of elements of S: nothing is linked twice.
List(S) == {l \in Seq(S) : IsInjective(l)}

\* perf_list_tail of a list that is not empty
ListTail(l) == l[Len(l)]

\* The elements in the order in which they are taken from the tail.
FromTail(l) == [i \in 1 .. Len(l) |-> l[Len(l) + 1 - i]]

\* perf_list_unlink
Unlink(l, e) ==
  LET i == CHOOSE i \in DOMAIN l : l[i] = e
  IN  SubSeq(l, 1, i - 1) \o SubSeq(l, i + 1, Len(l))

\* The list l after perf_list_unlink(*e->list, e), if l may or may not be *e->list.
Without(l, e) == IF e \in Range(l) THEN Unlink(l, e) ELSE l
=============================================================================
