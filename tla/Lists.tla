------------------------------- MODULE Lists -------------------------------
(***************************************************************************)
(* The doubly linked lists (bs_dllist_t of libbase, which is not part of   *)
(* the repository) in which the toolkit keeps windows, workspaces and      *)
(* elements, as sequences: the head of the list is the first element.  An  *)
(* element is linked at most once, so the list never has duplicates.       *)
(***************************************************************************)
LOCAL INSTANCE Naturals
LOCAL INSTANCE Sequences

\* bs_dllist_contains: the elements linked into a list.
Members(s) == {s[i] : i \in DOMAIN s}

\* The position of a linked element.
Position(s, x) == CHOOSE i \in DOMAIN s : s[i] = x

\* bs_dllist_push_front and bs_dllist_push_back.
PushFront(s, x) == <<x>> \o s
PushBack(s, x) == Append(s, x)

\* bs_dllist_remove: unlinks x, and closes the gap that it leaves.
Remove(s, x) ==
    LET at == Position(s, x) IN
    [i \in 1..(Len(s) - 1) |-> IF i < at THEN s[i] ELSE s[i + 1]]

\* Unlinks x and links it again at the head.
MoveToFront(s, x) == PushFront(Remove(s, x), x)

\* No element is linked twice.
Unique(s) == \A i, j \in DOMAIN s : s[i] = s[j] => i = j

\* x is linked closer to the head than y.
Precedes(s, x, y) == \E i, j \in DOMAIN s : i < j /\ s[i] = x /\ s[j] = y

\* t links the elements of s that are in T, and in their order.
IsAmong(t, s, T) ==
    /\ Unique(t)
    /\ Members(t) = Members(s) \cap T
    /\ \A x, y \in Members(t) : Precedes(t, x, y) => Precedes(s, x, y)

\* Unlinks every element that is not in T: what is left of s.
Among(s, T) ==
    CHOOSE t \in UNION {[1..n -> Members(s) \cap T] : n \in 0..Len(s)} :
        IsAmong(t, s, T)
=============================================================================
