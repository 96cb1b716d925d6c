------------------------------- MODULE RtList -------------------------------
(***************************************************************************)
(* The intrusive doubly linked list of the kernel (rtservice.h), seen as   *)
(* the sequence of the nodes met when one walks from the head by `next'.   *)
(* A node is in at most one list: a thread has one `tlist', so the same    *)
(* rt_list_remove(&thread->tlist) takes it out of a ready list or out of   *)
(* the wait list of an IPC object, whichever holds it.                     *)
(*                                                                         *)
(* The operators are written as functions over index ranges, without       *)
(* recursion, so that RtListLemmas can state what each of them does for    *)
(* lists of every length.                                                  *)
(***************************************************************************)
EXTENDS Naturals, Sequences

Occurs(q, e) == \E i \in 1 .. Len(q) : q[i] = e

NoDuplicates(q) == \A i, j \in 1 .. Len(q) : q[i] = q[j] => i = j

Position(q, e) == CHOOSE i \in 1 .. Len(q) : q[i] = e

(* rt_list_remove: unlinks the node; on a node that is linked to itself    *)
(* (in no list) it changes nothing.                                        *)
ListRemove(q, e) ==
  IF Occurs(q, e)
    THEN [i \in 1 .. Len(q) - 1 |->
            IF i < Position(q, e) THEN q[i] ELSE q[i + 1]]
    ELSE q

(* rt_list_insert_before(node at position p, e); p = Len(q) + 1 is the     *)
(* list head itself, before which lies the tail.                           *)
ListInsertBefore(q, p, e) ==
  [i \in 1 .. Len(q) + 1 |->
     IF i < p THEN q[i] ELSE IF i = p THEN e ELSE q[i - 1]]

(* rt_list_insert_before(list head, e): e becomes the last node.           *)
ListAddTail(q, e) == ListInsertBefore(q, Len(q) + 1, e)
=============================================================================
