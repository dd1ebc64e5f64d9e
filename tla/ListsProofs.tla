----------------------------- MODULE ListsProofs -----------------------------
(***************************************************************************)
(* What the operations on lists return, preserve and bound, for lists of   *)
(* any elements and any length.  The proofs about the components cite      *)
(* these lemmas and never look into a list.  The last of them are about    *)
(* states that are reached step by step, as along a list.                  *)
(***************************************************************************)
EXTENDS Lists, Naturals, Sequences, WellFoundedInduction, TLAPS

\* Linking an element at either end (bs_dllist_push_front, push_back) gives a
\* list of the same kind with that element added.
LEMMA PushFrontMembers ==
    ASSUME NEW S, NEW s \in Seq(S), NEW x \in S
    PROVE  /\ PushFront(s, x) \in Seq(S)
           /\ Members(PushFront(s, x)) = Members(s) \cup {x}
           /\ Unique(s) /\ x \notin Members(s) => Unique(PushFront(s, x))
  <1> DEFINE t == PushFront(s, x)
  <1>1. /\ t \in Seq(S)
        /\ Len(t) = Len(s) + 1
        /\ t[1] = x
        /\ \A i \in 2..Len(t) : t[i] = s[i - 1]
    BY DEF PushFront
  <1>2. \A i \in 1..Len(s) : i + 1 \in 2..Len(t) /\ t[i + 1] = s[i]
    BY <1>1
  <1>3. Members(t) = Members(s) \cup {x}
    <2> HIDE DEF t
    <2>1. DOMAIN t = 1..Len(t) /\ DOMAIN s = 1..Len(s)
      BY <1>1
    <2>2. ASSUME NEW i \in DOMAIN t PROVE t[i] \in Members(s) \cup {x}
      <3>1. CASE i = 1
        BY <3>1, <1>1
      <3>2. CASE i # 1
        BY <3>2, <2>1, <1>1 DEF Members
      <3> QED BY <3>1, <3>2
    <2>3. \A i \in DOMAIN s : s[i] \in Members(t)
      BY <1>1, <1>2, <2>1 DEF Members
    <2>4. x \in Members(t)
      BY <1>1, <2>1 DEF Members
    <2> QED BY <2>2, <2>3, <2>4 DEF Members
  <1>4. ASSUME Unique(s), x \notin Members(s) PROVE Unique(t)
    <2> HIDE DEF t
    <2> SUFFICES ASSUME NEW i \in 1..Len(t), NEW j \in 1..Len(t), t[i] = t[j]
                 PROVE  i = j
      BY <1>1 DEF Unique
    <2>1. \A n \in 1..Len(s) : s[n] # x
      BY <1>4 DEF Members
    <2>2. CASE i = 1 \/ j = 1
      BY <2>1, <2>2, <1>1
    <2>3. CASE i # 1 /\ j # 1
      <3>1. s[i - 1] = s[j - 1] /\ i - 1 \in 1..Len(s) /\ j - 1 \in 1..Len(s)
        BY <2>3, <1>1
      <3> QED BY <3>1, <1>4 DEF Unique
    <2> QED BY <2>2, <2>3
  <1> QED BY <1>1, <1>3, <1>4

LEMMA PushBackMembers ==
    ASSUME NEW S, NEW s \in Seq(S), NEW x \in S
    PROVE  /\ PushBack(s, x) \in Seq(S)
           /\ Members(PushBack(s, x)) = Members(s) \cup {x}
           /\ Unique(s) /\ x \notin Members(s) => Unique(PushBack(s, x))
  <1> DEFINE t == PushBack(s, x)
  <1>1. /\ t \in Seq(S)
        /\ Len(t) = Len(s) + 1
        /\ t[Len(t)] = x
        /\ \A i \in 1..Len(s) : t[i] = s[i]
        /\ DOMAIN t = 1..Len(t) /\ DOMAIN s = 1..Len(s)
    BY DEF PushBack
  <1> HIDE DEF t
  <1>2. Members(t) = Members(s) \cup {x}
    <2>1. \A i \in DOMAIN t : t[i] \in Members(s) \cup {x}
      BY <1>1 DEF Members
    <2>2. \A i \in DOMAIN s : s[i] \in Members(t)
      BY <1>1 DEF Members
    <2>3. x \in Members(t)
      BY <1>1 DEF Members
    <2> QED BY <2>1, <2>2, <2>3 DEF Members
  <1>3. ASSUME Unique(s), x \notin Members(s) PROVE Unique(t)
    <2>1. \A n \in 1..Len(s) : s[n] # x
      BY <1>1, <1>3 DEF Members
    <2> QED BY <2>1, <1>1, <1>3 DEF Unique
  <1> QED BY <1>1, <1>2, <1>3 DEF t

\* Unlinking (bs_dllist_remove) keeps the kind of the list, whatever x is; it
\* takes a linked x out, and only x.
LEMMA RemoveType ==
    ASSUME NEW S, NEW s \in Seq(S), NEW x
    PROVE  Remove(s, x) \in Seq(S)
  <1>1. CASE s = <<>>
    <2>1. Remove(s, x) = <<>>
      BY <1>1 DEF Remove
    <2> QED BY <2>1
  <1>2. CASE s # <<>>
    <2>1. Len(s) - 1 \in Nat
      BY <1>2
    <2>2. \A i \in 1..(Len(s) - 1) : s[i] \in S /\ s[i + 1] \in S
      BY <1>2
    <2>3. Remove(s, x) \in [1..(Len(s) - 1) -> S]
      BY <2>1, <2>2 DEF Remove
    <2> QED BY <2>1, <2>3
  <1> QED BY <1>1, <1>2

LEMMA PositionIsThere ==
    ASSUME NEW s, NEW x \in Members(s)
    PROVE  Position(s, x) \in DOMAIN s /\ s[Position(s, x)] = x
  BY DEF Position, Members

LEMMA RemoveMembers ==
    ASSUME NEW S, NEW s \in Seq(S), NEW x \in Members(s), Unique(s)
    PROVE  /\ Members(Remove(s, x)) = Members(s) \ {x}
           /\ Unique(Remove(s, x))
  <1> DEFINE t == Remove(s, x)
             at == Position(s, x)
  <1>1. at \in 1..Len(s) /\ s[at] = x /\ DOMAIN s = 1..Len(s)
    BY PositionIsThere
  <1>2. /\ DOMAIN t = 1..(Len(s) - 1)
        /\ \A i \in DOMAIN t : t[i] = IF i < at THEN s[i] ELSE s[i + 1]
    BY DEF Remove
  <1> HIDE DEF t, at
  <1>3. \A i \in 1..Len(s) : s[i] = x => i = at
    BY <1>1 DEF Unique
  <1>4. \A i \in DOMAIN t : t[i] \in Members(s) \ {x}
    BY <1>1, <1>2, <1>3 DEF Members
  <1>5. ASSUME NEW i \in 1..Len(s), i # at PROVE s[i] \in Members(t)
    <2>1. CASE i < at
      <3>1. i \in DOMAIN t /\ t[i] = s[i]
        BY <2>1, <1>1, <1>2, <1>5
      <3> QED BY <3>1 DEF Members
    <2>2. CASE i > at
      <3>1. i - 1 \in DOMAIN t /\ t[i - 1] = s[i]
        BY <2>2, <1>1, <1>2, <1>5
      <3> QED BY <3>1 DEF Members
    <2> QED BY <2>1, <2>2, <1>1, <1>5
  <1>6. Members(t) = Members(s) \ {x}
    BY <1>1, <1>4, <1>5 DEF Members
  <1>7. Unique(t)
    <2> SUFFICES ASSUME NEW i \in DOMAIN t, NEW j \in DOMAIN t, t[i] = t[j]
                 PROVE  i = j
      BY DEF Unique
    <2> DEFINE p == IF i < at THEN i ELSE i + 1
               q == IF j < at THEN j ELSE j + 1
    <2>1. p \in DOMAIN s /\ q \in DOMAIN s /\ s[p] = s[q]
      BY <1>1, <1>2
    <2>2. p = q
      BY <2>1 DEF Unique
    <2> QED BY <2>2, <1>1, <1>2
  <1> QED BY <1>6, <1>7 DEF t

LEMMA MoveToFrontMembers ==
    ASSUME NEW S, NEW s \in Seq(S), NEW x \in Members(s), Unique(s)
    PROVE  /\ MoveToFront(s, x) \in Seq(S)
           /\ Members(MoveToFront(s, x)) = Members(s)
           /\ Unique(MoveToFront(s, x))
  <1>1. x \in S
    BY DEF Members
  <1>2. /\ Remove(s, x) \in Seq(S)
        /\ Members(Remove(s, x)) = Members(s) \ {x}
        /\ Unique(Remove(s, x))
    BY RemoveType, RemoveMembers
  <1> DEFINE t == Remove(s, x)
  <1> HIDE DEF t
  <1>3. /\ t \in Seq(S)
        /\ x \notin Members(t)
        /\ Unique(t)
        /\ Members(t) \cup {x} = Members(s)
    BY <1>2 DEF t
  <1>4. /\ PushFront(t, x) \in Seq(S)
        /\ Members(PushFront(t, x)) = Members(s)
        /\ Unique(PushFront(t, x))
    <2>1. /\ PushFront(t, x) \in Seq(S)
          /\ Members(PushFront(t, x)) = Members(t) \cup {x}
          /\ Unique(t) /\ x \notin Members(t) => Unique(PushFront(t, x))
      BY <1>1, <1>3, PushFrontMembers
    <2> QED BY <2>1, <1>3
  <1> QED BY <1>4 DEF MoveToFront, t

\* The ends of a list and the neighbours of an element are its members: cycling
\* through a list never leaves it.
LEMMA EndsAreMembers ==
    ASSUME NEW S, NEW s \in Seq(S), s # <<>>
    PROVE  {s[1], s[Len(s)], Head(s)} \subseteq Members(s)
  BY DEF Members

LEMMA NeighboursAreMembers ==
    ASSUME NEW S, NEW s \in Seq(S), NEW x \in Members(s)
    PROVE  /\ x # s[Len(s)] => s[Position(s, x) + 1] \in Members(s)
           /\ x # s[1] => s[Position(s, x) - 1] \in Members(s)
  <1>1. Position(s, x) \in 1..Len(s) /\ s[Position(s, x)] = x
    BY PositionIsThere
  <1> QED BY <1>1 DEF Members

LEMMA MembersType ==
    ASSUME NEW S, NEW s \in Seq(S)
    PROVE  Members(s) \subseteq S
  BY DEF Members

\* An element is at one position only, so the order in which a walk meets the
\* elements is the order of their positions.
LEMMA PositionIsUnique ==
    ASSUME NEW s, Unique(s), NEW i \in DOMAIN s
    PROVE  Position(s, s[i]) = i
  <1>1. s[i] \in Members(s)
    BY DEF Members
  <1>2. Position(s, s[i]) \in DOMAIN s /\ s[Position(s, s[i])] = s[i]
    BY <1>1, PositionIsThere
  <1> QED BY <1>2 DEF Unique

\* Linking another element last (bs_dllist_push_back) does not move the others.
LEMMA PushBackPosition ==
    ASSUME NEW S, NEW s \in Seq(S), NEW x \in S, Unique(s), x \notin Members(s),
           NEW y \in Members(s)
    PROVE  Position(PushBack(s, x), y) = Position(s, y)
  <1> DEFINE t == PushBack(s, x)
             i == Position(s, y)
  <1>1. i \in DOMAIN s /\ s[i] = y
    BY PositionIsThere
  <1>2. i \in DOMAIN t /\ t[i] = y
    BY <1>1 DEF PushBack
  <1>3. Unique(t)
    BY PushBackMembers
  <1> HIDE DEF t, i
  <1>4. Position(t, t[i]) = i
    BY <1>2, <1>3, PositionIsUnique
  <1> QED BY <1>2, <1>4 DEF t, i

\* Unlinking an element (bs_dllist_remove) moves those behind it by one.
LEMMA RemovePosition ==
    ASSUME NEW S, NEW s \in Seq(S), Unique(s), NEW x \in Members(s),
           NEW y \in Members(s), y # x
    PROVE  Position(Remove(s, x), y) =
               IF Position(s, y) < Position(s, x) THEN Position(s, y)
                                                  ELSE Position(s, y) - 1
  <1> DEFINE t == Remove(s, x)
             at == Position(s, x)
             i == Position(s, y)
             j == IF i < at THEN i ELSE i - 1
  <1>1. at \in 1..Len(s) /\ s[at] = x /\ i \in 1..Len(s) /\ s[i] = y
    BY PositionIsThere
  <1>2. /\ DOMAIN t = 1..(Len(s) - 1)
        /\ \A n \in DOMAIN t : t[n] = IF n < at THEN s[n] ELSE s[n + 1]
    BY DEF Remove
  <1>3. Unique(t)
    BY RemoveMembers
  <1> HIDE DEF t, at, i
  <1>4. i # at
    BY <1>1
  <1>5. j \in DOMAIN t /\ t[j] = y
    BY <1>1, <1>2, <1>4
  <1>6. Position(t, t[j]) = j
    BY <1>3, <1>5, PositionIsUnique
  <1> QED BY <1>5, <1>6 DEF t, at, i

-----------------------------------------------------------------------------
(* The order of a list.                                                    *)

\* Two elements in an order are both linked.
LEMMA PrecedesMembers ==
    ASSUME NEW s, NEW v, NEW w, Precedes(s, v, w)
    PROVE  v \in Members(s) /\ w \in Members(s)
  BY DEF Precedes, Members

\* The element linked at the head precedes all others, which keep their order.
LEMMA PushFrontOrder ==
    ASSUME NEW S, NEW s \in Seq(S), NEW x \in S, NEW v, NEW w
    PROVE  Precedes(PushFront(s, x), v, w)
               <=> (v = x /\ w \in Members(s)) \/ Precedes(s, v, w)
  <1> DEFINE t == PushFront(s, x)
  <1>1. /\ DOMAIN t = 1..(Len(s) + 1) /\ DOMAIN s = 1..Len(s) /\ Len(s) \in Nat
        /\ t[1] = x
        /\ \A i \in 2..(Len(s) + 1) : t[i] = s[i - 1]
    BY DEF PushFront
  <1> HIDE DEF t
  <1>2. ASSUME Precedes(t, v, w)
        PROVE  (v = x /\ w \in Members(s)) \/ Precedes(s, v, w)
    <2>1. PICK i \in 1..(Len(s) + 1), j \in 1..(Len(s) + 1) :
              i < j /\ t[i] = v /\ t[j] = w
      BY <1>1, <1>2 DEF Precedes
    <2>2. j - 1 \in DOMAIN s /\ s[j - 1] = w
      BY <1>1, <2>1
    <2>3. CASE i = 1
      BY <1>1, <2>1, <2>2, <2>3 DEF Members
    <2>4. CASE i # 1
      <3>1. i - 1 \in DOMAIN s /\ s[i - 1] = v /\ i - 1 < j - 1
        BY <1>1, <2>1, <2>4
      <3> QED BY <2>2, <3>1 DEF Precedes
    <2> QED BY <2>3, <2>4
  <1>3. ASSUME v = x, w \in Members(s) PROVE Precedes(t, v, w)
    <2>1. PICK j \in 1..Len(s) : s[j] = w
      BY <1>1, <1>3 DEF Members
    <2>2. 1 \in DOMAIN t /\ j + 1 \in DOMAIN t /\ 1 < j + 1 /\ t[j + 1] = w
      BY <1>1, <2>1
    <2> QED BY <1>1, <1>3, <2>2 DEF Precedes
  <1>4. ASSUME Precedes(s, v, w) PROVE Precedes(t, v, w)
    <2>1. PICK i \in 1..Len(s), j \in 1..Len(s) : i < j /\ s[i] = v /\ s[j] = w
      BY <1>1, <1>4 DEF Precedes
    <2>2. /\ i + 1 \in DOMAIN t /\ j + 1 \in DOMAIN t /\ i + 1 < j + 1
          /\ t[i + 1] = v /\ t[j + 1] = w
      BY <1>1, <2>1
    <2> QED BY <2>2 DEF Precedes
  <1> QED BY <1>2, <1>3, <1>4 DEF t

\* Unlinking an element does not change the order of the others.
LEMMA RemoveOrder ==
    ASSUME NEW S, NEW s \in Seq(S), NEW x \in Members(s), Unique(s), NEW v, NEW w
    PROVE  Precedes(Remove(s, x), v, w)
               <=> Precedes(s, v, w) /\ v # x /\ w # x
  <1> DEFINE t == Remove(s, x)
             at == Position(s, x)
  <1>1. at \in 1..Len(s) /\ s[at] = x /\ DOMAIN s = 1..Len(s) /\ Len(s) \in Nat
    BY PositionIsThere
  <1>2. /\ DOMAIN t = 1..(Len(s) - 1)
        /\ \A i \in DOMAIN t : t[i] = IF i < at THEN s[i] ELSE s[i + 1]
    BY DEF Remove
  <1> HIDE DEF t, at
  <1>3. \A i \in 1..Len(s) : s[i] = x => i = at
    BY <1>1 DEF Unique
  <1>4. ASSUME Precedes(t, v, w) PROVE Precedes(s, v, w) /\ v # x /\ w # x
    <2>1. PICK i \in DOMAIN t, j \in DOMAIN t : i < j /\ t[i] = v /\ t[j] = w
      BY <1>4 DEF Precedes
    <2> DEFINE p == IF i < at THEN i ELSE i + 1
               q == IF j < at THEN j ELSE j + 1
    <2>2. /\ p \in 1..Len(s) /\ q \in 1..Len(s) /\ p < q
          /\ s[p] = v /\ s[q] = w /\ p # at /\ q # at
      BY <1>1, <1>2, <2>1
    <2> HIDE DEF p, q
    <2> QED BY <1>1, <1>3, <2>2 DEF Precedes
  <1>5. ASSUME Precedes(s, v, w), v # x, w # x PROVE Precedes(t, v, w)
    <2>1. PICK i \in 1..Len(s), j \in 1..Len(s) : i < j /\ s[i] = v /\ s[j] = w
      BY <1>1, <1>5 DEF Precedes
    <2> DEFINE p == IF i < at THEN i ELSE i - 1
               q == IF j < at THEN j ELSE j - 1
    <2>2. i # at /\ j # at
      BY <1>1, <1>5, <2>1
    <2>3. p \in DOMAIN t /\ q \in DOMAIN t /\ p < q /\ t[p] = v /\ t[q] = w
      BY <1>1, <1>2, <2>1, <2>2
    <2> HIDE DEF p, q
    <2> QED BY <2>3 DEF Precedes
  <1> QED BY <1>4, <1>5 DEF t

\* The element moved to the head precedes all others, which keep their order.
LEMMA MoveToFrontOrder ==
    ASSUME NEW S, NEW s \in Seq(S), NEW x \in Members(s), Unique(s), NEW v, NEW w
    PROVE  Precedes(MoveToFront(s, x), v, w)
               <=> \/ v = x /\ w \in Members(s) \ {x}
                   \/ Precedes(s, v, w) /\ v # x /\ w # x
  <1> DEFINE t == Remove(s, x)
  <1>1. /\ x \in S
        /\ t \in Seq(S)
        /\ Members(t) = Members(s) \ {x}
        /\ Precedes(t, v, w) <=> Precedes(s, v, w) /\ v # x /\ w # x
    BY MembersType, RemoveType, RemoveMembers, RemoveOrder
  <1> HIDE DEF t
  <1>2. Precedes(PushFront(t, x), v, w)
            <=> (v = x /\ w \in Members(t)) \/ Precedes(t, v, w)
    BY <1>1, PushFrontOrder
  <1> QED BY <1>1, <1>2 DEF MoveToFront, t

\* The elements of o are linked in l in the same order.
SameOrder(l, o) ==
    \A v, w \in Members(o) : Precedes(l, v, w) <=> Precedes(o, v, w)

\* Two lists remain in the same order when the same is done to both, or when
\* what the second does not have changes in the first.
LEMMA SameOrderPushFront ==
    ASSUME NEW S, NEW l \in Seq(S), NEW o \in Seq(S), NEW x \in S,
           SameOrder(l, o), Members(o) \subseteq Members(l), x \notin Members(l)
    PROVE  SameOrder(PushFront(l, x), PushFront(o, x))
  <1>a. Members(PushFront(o, x)) = Members(o) \cup {x}
    BY PushFrontMembers
  <1> SUFFICES ASSUME NEW v \in Members(o) \cup {x}, NEW w \in Members(o) \cup {x}
               PROVE  Precedes(PushFront(l, x), v, w)
                          <=> Precedes(PushFront(o, x), v, w)
    BY <1>a DEF SameOrder
  <1>1. /\ Precedes(PushFront(l, x), v, w)
               <=> (v = x /\ w \in Members(l)) \/ Precedes(l, v, w)
        /\ Precedes(PushFront(o, x), v, w)
               <=> (v = x /\ w \in Members(o)) \/ Precedes(o, v, w)
    BY PushFrontOrder
  <1>2. CASE v # x /\ w # x
    BY <1>1, <1>2 DEF SameOrder
  <1>3. CASE v = x \/ w = x
    <2>1. ~Precedes(l, v, w) /\ ~Precedes(o, v, w)
      BY <1>3, PrecedesMembers
    <2> QED BY <1>1, <2>1
  <1> QED BY <1>2, <1>3

LEMMA SameOrderRemove ==
    ASSUME NEW S, NEW l \in Seq(S), NEW o \in Seq(S), NEW x,
           SameOrder(l, o), Unique(l), Unique(o)
    PROVE  /\ x \in Members(l) /\ x \notin Members(o) => SameOrder(Remove(l, x), o)
           /\ x \in Members(o) => SameOrder(l, Remove(o, x))
           /\ x \in Members(l) /\ x \in Members(o) =>
                  SameOrder(Remove(l, x), Remove(o, x))
  <1>1. ASSUME x \in Members(l)
        PROVE  \A v, w : Precedes(Remove(l, x), v, w)
                             <=> Precedes(l, v, w) /\ v # x /\ w # x
    BY <1>1, RemoveOrder
  <1>2. ASSUME x \in Members(o)
        PROVE  /\ Members(Remove(o, x)) = Members(o) \ {x}
               /\ \A v, w : Precedes(Remove(o, x), v, w)
                                <=> Precedes(o, v, w) /\ v # x /\ w # x
    BY <1>2, RemoveOrder, RemoveMembers
  <1> QED BY <1>1, <1>2 DEF SameOrder

LEMMA SameOrderMoveToFront ==
    ASSUME NEW S, NEW l \in Seq(S), NEW o \in Seq(S), NEW x \in Members(l),
           SameOrder(l, o), Unique(l), Unique(o), Members(o) \subseteq Members(l)
    PROVE  /\ x \in Members(o) => SameOrder(MoveToFront(l, x), MoveToFront(o, x))
           /\ x \notin Members(o) => SameOrder(MoveToFront(l, x), PushFront(o, x))
  <1>1. \A v, w : Precedes(MoveToFront(l, x), v, w)
                      <=> \/ v = x /\ w \in Members(l) \ {x}
                          \/ Precedes(l, v, w) /\ v # x /\ w # x
    BY MoveToFrontOrder
  <1>2. ASSUME x \in Members(o)
        PROVE  SameOrder(MoveToFront(l, x), MoveToFront(o, x))
    <2>1. /\ Members(MoveToFront(o, x)) = Members(o)
          /\ \A v, w : Precedes(MoveToFront(o, x), v, w)
                           <=> \/ v = x /\ w \in Members(o) \ {x}
                               \/ Precedes(o, v, w) /\ v # x /\ w # x
      BY <1>2, MoveToFrontOrder, MoveToFrontMembers
    <2> QED BY <1>1, <2>1 DEF SameOrder
  <1>3. ASSUME x \notin Members(o)
        PROVE  SameOrder(MoveToFront(l, x), PushFront(o, x))
    <2>1. x \in S
      BY MembersType
    <2>2. /\ Members(PushFront(o, x)) = Members(o) \cup {x}
          /\ \A v, w : Precedes(PushFront(o, x), v, w)
                           <=> (v = x /\ w \in Members(o)) \/ Precedes(o, v, w)
      BY <2>1, PushFrontOrder, PushFrontMembers
    <2>3. \A v : ~Precedes(o, v, x) /\ ~Precedes(o, x, v)
      BY <1>3, PrecedesMembers
    <2> QED BY <1>1, <1>3, <2>2, <2>3 DEF SameOrder
  <1> QED BY <1>2, <1>3

-----------------------------------------------------------------------------
(* A walk of a list: the first element that it finds, and what it leaves.  *)

LEMMA MinimalElement ==
    ASSUME NEW R, NEW at, at \subseteq Nat, at # {}, IsWellFoundedOn(R, Nat)
    PROVE  \E i \in at : \A j \in at : ~ (<<j, i>> \in R)
  BY WFMin, Zenon

LEMMA LeastOfOrdered ==
    ASSUME NEW R, NEW at, at \subseteq Nat, at # {}, IsWellFoundedOn(R, Nat),
           \A i, j \in Nat : i < j => <<i, j>> \in R
    PROVE  \E i \in at : \A j \in at : i <= j
  <1>1. PICK i \in at : \A j \in at : ~ (<<j, i>> \in R)
    BY MinimalElement, Zenon
  <1>2. ASSUME NEW j \in at PROVE i <= j
    <2>1. i \in Nat /\ j \in Nat
      OBVIOUS
    <2>2. ~ (j < i)
      BY <1>1, <2>1, Zenon
    <2> QED BY <2>1, <2>2
  <1> QED BY <1>2

\* Of several positions or lengths there is a least one.
LEMMA LeastElement ==
    ASSUME NEW at, at \subseteq Nat, at # {}
    PROVE  \E i \in at : \A j \in at : i <= j
  <1>1. \A i, j \in Nat : i < j => <<i, j>> \in OpToRel(<, Nat)
    BY DEF OpToRel
  <1> QED BY <1>1, LeastOfOrdered, NatLessThanWellFounded, Zenon

\* ... and a greatest one, when they are bounded.
LEMMA GreatestElement ==
    ASSUME NEW n \in Nat, NEW at, at \subseteq 0..n, at # {}
    PROVE  \E i \in at : \A j \in at : j <= i
  <1> DEFINE below == {n - i : i \in at}
  <1>1. below \subseteq Nat /\ below # {}
    <2>1. \A i \in at : i \in 0..n /\ n - i \in Nat
      OBVIOUS
    <2>2. PICK i \in at : TRUE
      OBVIOUS
    <2>3. n - i \in below
      OBVIOUS
    <2> QED BY <2>1, <2>3
  <1>2. PICK k \in below : \A j \in below : k <= j
    <2> HIDE DEF below
    <2> QED BY <1>1, LeastElement
  <1>3. PICK i \in at : k = n - i
    BY <1>2
  <1>4. ASSUME NEW j \in at PROVE j <= i
    <2>1. n - i <= n - j
      BY <1>2, <1>3
    <2>2. i \in 0..n /\ j \in 0..n
      OBVIOUS
    <2> QED BY <2>1, <2>2
  <1> QED BY <1>4

\* Two lists without a common element, one linked behind the other.
LEMMA ConcatMembers ==
    ASSUME NEW S, NEW s \in Seq(S), NEW t \in Seq(S)
    PROVE  /\ s \o t \in Seq(S)
           /\ Members(s \o t) = Members(s) \cup Members(t)
           /\ Unique(s) /\ Unique(t) /\ Members(s) \cap Members(t) = {}
                  => Unique(s \o t)
  <1> DEFINE u == s \o t
  <1>1. /\ u \in Seq(S)
        /\ DOMAIN u = 1..(Len(s) + Len(t))
        /\ DOMAIN s = 1..Len(s) /\ DOMAIN t = 1..Len(t)
        /\ Len(s) \in Nat /\ Len(t) \in Nat
        /\ \A i \in DOMAIN s : u[i] = s[i]
        /\ \A i \in DOMAIN t : u[Len(s) + i] = t[i]
    OBVIOUS
  <1> HIDE DEF u
  <1>2. ASSUME NEW i \in DOMAIN u
        PROVE  \/ i \in DOMAIN s /\ u[i] = s[i]
               \/ i - Len(s) \in DOMAIN t /\ u[i] = t[i - Len(s)]
    <2>1. CASE i <= Len(s)
      BY <1>1, <2>1
    <2>2. CASE i > Len(s)
      <3>1. i - Len(s) \in DOMAIN t /\ Len(s) + (i - Len(s)) = i
        BY <1>1, <2>2
      <3> QED BY <1>1, <3>1
    <2> QED BY <1>1, <2>1, <2>2
  <1>3. Members(u) \subseteq Members(s) \cup Members(t)
    BY <1>2 DEF Members
  <1>4. Members(s) \subseteq Members(u)
    <2>1. \A i \in DOMAIN s : i \in DOMAIN u
      BY <1>1
    <2> QED BY <1>1, <2>1 DEF Members
  <1>5. Members(t) \subseteq Members(u)
    <2>1. \A i \in DOMAIN t : Len(s) + i \in DOMAIN u
      BY <1>1
    <2> QED BY <1>1, <2>1 DEF Members
  <1>6. ASSUME Unique(s), Unique(t), Members(s) \cap Members(t) = {}
        PROVE  Unique(u)
    <2>1. SUFFICES ASSUME NEW i \in DOMAIN u, NEW j \in DOMAIN u, u[i] = u[j]
                   PROVE  i = j
      BY DEF Unique
    <2>2. \A k \in DOMAIN s, m \in DOMAIN t : s[k] # t[m]
      BY <1>6 DEF Members
    <2>3. CASE i \in DOMAIN s /\ j \in DOMAIN s /\ u[i] = s[i] /\ u[j] = s[j]
      BY <1>6, <2>1, <2>3 DEF Unique
    <2>4. CASE /\ i - Len(s) \in DOMAIN t /\ u[i] = t[i - Len(s)]
               /\ j - Len(s) \in DOMAIN t /\ u[j] = t[j - Len(s)]
      <3>1. i - Len(s) = j - Len(s)
        BY <1>6, <2>1, <2>4 DEF Unique
      <3> QED BY <1>1, <3>1
    <2> QED BY <1>2, <2>1, <2>2, <2>3, <2>4
  <1> QED BY <1>1, <1>3, <1>4, <1>5, <1>6 DEF u

\* What unlinking the head leaves, and how it is among the elements of T.
LEMMA AmongRest ==
    ASSUME NEW S, NEW s \in Seq(S), Unique(s), s # <<>>, NEW T,
           NEW t \in Seq(S), IsAmong(t, Remove(s, s[1]), T), Len(t) <= Len(s) - 1
    PROVE  \E u \in Seq(S) : IsAmong(u, s, T) /\ Len(u) <= Len(s)
  <1> DEFINE x == s[1]
             r == Remove(s, x)
             u == PushFront(t, x)
  <1>1. x \in Members(s) /\ x \in S
    BY DEF Members
  <1>2. Members(r) = Members(s) \ {x}
    BY <1>1, RemoveMembers
  <1>3. ASSUME NEW v, NEW w, Precedes(r, v, w) PROVE Precedes(s, v, w)
    BY <1>1, <1>3, RemoveOrder
  <1>4. /\ Unique(t)
        /\ Members(t) = Members(r) \cap T
        /\ \A v, w \in Members(t) : Precedes(t, v, w) => Precedes(r, v, w)
    BY DEF IsAmong
  <1> HIDE DEF r
  <1>5. CASE x \notin T
    <2>1. Members(t) = Members(s) \cap T
      BY <1>2, <1>4, <1>5
    <2>2. IsAmong(t, s, T)
      BY <1>3, <1>4, <2>1 DEF IsAmong
    <2> QED BY <2>2
  <1>6. CASE x \in T
    <2>1. /\ u \in Seq(S)
          /\ Members(u) = Members(t) \cup {x}
          /\ Unique(u)
      <3>1. x \notin Members(t)
        BY <1>2, <1>4
      <3>2. x \in S /\ Unique(t)
        BY <1>1, <1>4
      <3> HIDE DEF x
      <3> QED BY <3>1, <3>2, PushFrontMembers DEF u
    <2>2. Members(u) = Members(s) \cap T
      BY <1>1, <1>2, <1>4, <1>6, <2>1
    <2>3. ASSUME NEW w \in Members(s), w # x PROVE Precedes(s, x, w)
      <3>1. PICK i \in DOMAIN s : s[i] = w
        BY DEF Members
      <3>2. 1 \in DOMAIN s /\ i \in DOMAIN s /\ 1 < i
        BY <2>3, <3>1
      <3> QED BY <3>1, <3>2 DEF Precedes
    <2>4. ASSUME NEW v, NEW w, Precedes(u, v, w) PROVE Precedes(s, v, w)
      <3>1. (v = x /\ w \in Members(t)) \/ Precedes(t, v, w)
        BY <1>1, <2>4, PushFrontOrder
      <3>2. CASE v = x /\ w \in Members(t)
        BY <1>2, <1>4, <2>3, <3>2
      <3>3. CASE Precedes(t, v, w)
        BY <1>3, <1>4, <3>3, PrecedesMembers
      <3> QED BY <3>1, <3>2, <3>3
    <2>5. IsAmong(u, s, T)
      BY <2>1, <2>2, <2>4 DEF IsAmong
    <2>6. Len(u) = Len(t) + 1
      BY <1>1 DEF PushFront
    <2>7. Len(u) <= Len(s)
      BY <2>6
    <2> QED BY <2>1, <2>5, <2>7
  <1> QED BY <1>5, <1>6

\* Of every list there is such a rest: a shortest list without one would have
\* one, that of the list without its head.
LEMMA AmongExists ==
    ASSUME NEW S, NEW T
    PROVE  \A s \in Seq(S) : Unique(s) =>
               \E t \in Seq(S) : IsAmong(t, s, T) /\ Len(t) <= Len(s)
  <1> DEFINE Has(s) == \E t \in Seq(S) : IsAmong(t, s, T) /\ Len(t) <= Len(s)
             without == {n \in Nat :
                            \E s \in Seq(S) : Len(s) = n /\ Unique(s) /\ ~Has(s)}
  <1> SUFFICES ASSUME without # {} PROVE FALSE
    OBVIOUS
  <1>1. PICK n \in without : \A m \in without : n <= m
    <2>1. without \subseteq Nat
      OBVIOUS
    <2> HIDE DEF without
    <2> QED BY <2>1, LeastElement
  <1>2. PICK s \in Seq(S) : Len(s) = n /\ Unique(s) /\ ~Has(s)
    OBVIOUS
  <1>3. s # <<>>
    <2>1. ASSUME s = <<>> PROVE Has(s)
      <3>1. IsAmong(s, s, T) /\ Len(s) <= Len(s)
        BY <2>1 DEF IsAmong, Unique, Members
      <3> QED BY <3>1
    <2> QED BY <1>2, <2>1
  <1>4. /\ Remove(s, s[1]) \in Seq(S)
        /\ Unique(Remove(s, s[1]))
    BY <1>2, <1>3, EndsAreMembers, RemoveType, RemoveMembers
  <1>5. Len(Remove(s, s[1])) = n - 1 /\ n - 1 \in Nat
    BY <1>2, <1>3 DEF Remove
  <1>6. Has(Remove(s, s[1]))
    <2>1. n - 1 \notin without
      BY <1>1, <1>5
    <2> QED BY <1>4, <1>5, <2>1
  <1>7. Has(s)
    <2>1. PICK t \in Seq(S) : /\ IsAmong(t, Remove(s, s[1]), T)
                              /\ Len(t) <= Len(Remove(s, s[1]))
      BY <1>6
    <2>2. Len(t) <= Len(s) - 1
      BY <1>2, <1>5, <2>1
    <2> QED BY <1>2, <1>3, <2>1, <2>2, AmongRest
  <1> QED BY <1>2, <1>7

\* Unlinking the elements outside T leaves those of T, once each and in order.
LEMMA AmongMembers ==
    ASSUME NEW S, NEW s \in Seq(S), Unique(s), NEW T
    PROVE  /\ Among(s, T) \in Seq(S)
           /\ IsAmong(Among(s, T), s, T)
  <1> DEFINE candidates == UNION {[1..n -> Members(s) \cap T] : n \in 0..Len(s)}
  <1>1. PICK t \in Seq(S) : IsAmong(t, s, T) /\ Len(t) <= Len(s)
    BY AmongExists
  <1>2. t \in candidates
    <2>1. Members(t) = Members(s) \cap T
      BY <1>1 DEF IsAmong
    <2>2. t \in [1..Len(t) -> Members(s) \cap T]
      <3>1. \A i \in 1..Len(t) : t[i] \in Members(t)
        BY DEF Members
      <3> QED BY <2>1, <3>1
    <2>3. Len(t) \in 0..Len(s)
      BY <1>1
    <2> QED BY <2>2, <2>3
  <1>3. Among(s, T) \in candidates /\ IsAmong(Among(s, T), s, T)
    <2>1. \E u \in candidates : IsAmong(u, s, T)
      BY <1>1, <1>2
    <2>2. Among(s, T) = CHOOSE u \in candidates : IsAmong(u, s, T)
      BY DEF Among
    <2> HIDE DEF candidates
    <2> QED BY <2>1, <2>2
  <1>4. candidates \subseteq Seq(S)
    <2>1. Members(s) \cap T \subseteq S
      BY MembersType
    <2> QED BY <2>1
  <1> QED BY <1>3, <1>4
-----------------------------------------------------------------------------
(* What is done to a state n times, one after the other: the sequence of   *)
(* states is well defined, and what every step carries over holds of each. *)

\* What holds of 0 and is passed on holds up to n.
LEMMA Upwards ==
    ASSUME NEW n \in Nat, NEW at, 0 \in at, \A i \in 1..n : i - 1 \in at => i \in at
    PROVE  \A i \in 0..n : i \in at
  <1> DEFINE without == {i \in 0..n : i \notin at}
  <1>1. ASSUME without # {} PROVE FALSE
    <2>1. PICK k \in without : \A j \in without : k <= j
      <3>1. without \subseteq Nat
        OBVIOUS
      <3> HIDE DEF without
      <3> QED BY <1>1, <3>1, LeastElement
    <2>2. k \in 1..n /\ k - 1 \in 0..n /\ ~ (k <= k - 1)
      OBVIOUS
    <2>3. k - 1 \in at
      BY <2>1, <2>2
    <2> QED BY <2>2, <2>3
  <1> QED BY <1>1

\* Every step takes what S has after i - 1 steps to what it has after i.
Advances(n, S, start, step) ==
    /\ n \in Nat
    /\ start \in S[0]
    /\ \A i \in 1..n : \A s \in S[i - 1] : step[i][s] \in S[i]

Walks(f, n, S, start, step) ==
    /\ f = [i \in 0..n |-> f[i]]
    /\ f[0] = start
    /\ \A i \in 1..n : f[i - 1] \in S[i - 1] /\ f[i] = step[i][f[i - 1]]

\* If each step leads from one set of states into the next one, the states it leads to
\* are those of a function.
LEMMA Iteration ==
    ASSUME NEW n, NEW S, NEW start, NEW step, Advances(n, S, start, step)
    PROVE  \E f : Walks(f, n, S, start, step)
  <1> USE DEF Advances
  <1> DEFINE all == UNION {S[i] : i \in 0..n}
             Follows(f, k) == /\ f[0] = start
                              /\ \A i \in 1..k : f[i] = step[i][f[i - 1]]
                              /\ \A i \in 0..k : f[i] \in S[i]
             Exists(k) == \E f \in [0..k -> all] : Follows(f, k)
             at == {k \in 0..n : Exists(k)}
  <1>1. Exists(0)
    <2> DEFINE f == [i \in 0..0 |-> start]
    <2>1. f \in [0..0 -> all] /\ Follows(f, 0)
      OBVIOUS
    <2> QED BY <2>1
  <1>2. ASSUME NEW k \in 1..n, Exists(k - 1) PROVE Exists(k)
    <2>1. PICK f \in [0..(k - 1) -> all] : Follows(f, k - 1)
      BY <1>2
    <2> DEFINE last == step[k][f[k - 1]]
               g == [i \in 0..k |-> IF i = k THEN last ELSE f[i]]
    <2>2. last \in S[k] /\ last \in all
      <3>1. f[k - 1] \in S[k - 1] /\ k \in 0..n
        BY <2>1
      <3> QED BY <3>1
    <2>3. g \in [0..k -> all]
      BY <2>2
    <2>4. g[0] = start /\ g[k] = last /\ \A i \in 0..(k - 1) : g[i] = f[i]
      BY <2>1
    <2>5. ASSUME NEW i \in 1..k PROVE g[i] = step[i][g[i - 1]]
      <3>1. i - 1 \in 0..(k - 1) /\ (i # k => i \in 1..(k - 1) /\ i \in 0..(k - 1))
        OBVIOUS
      <3> HIDE DEF g
      <3> QED BY <2>1, <2>4, <3>1
    <2>6. ASSUME NEW i \in 0..k PROVE g[i] \in S[i]
      <3>1. i # k => i \in 0..(k - 1)
        OBVIOUS
      <3> HIDE DEF g
      <3> QED BY <2>1, <2>2, <2>4, <3>1
    <2> HIDE DEF g
    <2> QED BY <2>3, <2>4, <2>5, <2>6
  <1> HIDE DEF Exists
  <1>3. 0 \in at
    BY <1>1
  <1>4. \A k \in 1..n : k - 1 \in at => k \in at
    BY <1>2
  <1>5. \A k \in 0..n : k \in at
    <2> HIDE DEF at
    <2> QED BY <1>3, <1>4, Upwards
  <1>6. Exists(n)
    BY <1>5
  <1>7. PICK f \in [0..n -> all] : Follows(f, n)
    BY <1>6 DEF Exists
  <1>8. Walks(f, n, S, start, step)
    <2>1. f = [i \in 0..n |-> f[i]]
      BY <1>7
    <2>2. \A i \in 1..n : i - 1 \in 0..n
      OBVIOUS
    <2> QED BY <1>7, <2>1, <2>2 DEF Walks
  <1> QED BY <1>8

\* And any function that follows the steps stays in these sets.
LEMMA FoldInvariance ==
    ASSUME NEW n, NEW S, NEW start, NEW step, Advances(n, S, start, step), NEW f,
           f[0] = start,
           \A i \in 1..n : f[i - 1] \in S[i - 1] => f[i] = step[i][f[i - 1]]
    PROVE  \A i \in 0..n : f[i] \in S[i]
  <1> DEFINE at == {i \in 0..n : f[i] \in S[i]}
  <1>1. n \in Nat /\ 0 \in at
    BY DEF Advances
  <1>2. \A i \in 1..n : i - 1 \in at => i \in at
    BY <1>1 DEF Advances
  <1>3. \A i \in 0..n : i \in at
    <2> HIDE DEF at
    <2> QED BY <1>1, <1>2, Upwards
  <1> QED BY <1>3
=============================================================================
