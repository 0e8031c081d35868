------------------------------- MODULE XList -------------------------------
(***************************************************************************)
(* The part of xel's intrusive xList that the servers and the client use.  *)
(* A node (xListNode) is in at most one list; a list is the sequence of    *)
(* its nodes from head to tail.  xel is not part of the repository: what   *)
(* is stated here is what the code under src/cpp relies on.                *)
(***************************************************************************)
EXTENDS Integers, SequencesExt

(* GrabTail and AddTail: the node is unlinked from where it is and becomes
   the tail of l.  RemoveFirst is the unlinking, in whatever list it is. *)
GrabTail(l, x) == Append(RemoveFirst(l, x), x)

(* while (l.PopHead(stale)) ...: nodes leave from the head as long as the
   head is stale; the first node that is not keeps everything behind it. *)
FirstOutside(l, Stale) == SelectInSeq(l, LAMBDA x : x \notin Stale)

PopHeadWhile(l, Stale) ==
    IF FirstOutside(l, Stale) = 0
      THEN << >>
      ELSE SubSeq(l, FirstOutside(l, Stale), Len(l))

(* Every node of R is unlinked: what is left of the first n nodes of l, and of
   all of them. *)
Left(l, R) ==
    LET left[n \in 0..Len(l)] ==
          IF n = 0 THEN << >>
          ELSE IF l[n] \in R THEN left[n-1] ELSE Append(left[n-1], l[n])
    IN  left

Without(l, R) == Left(l, R)[Len(l)]

(* The nodes of l are in the order of their stamps, oldest at the head. *)
SortedBy(l, stamp) ==
    \A i, j \in DOMAIN l : i < j => stamp[l[i]] <= stamp[l[j]]

=============================================================================
