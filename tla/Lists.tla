--------------------------------- MODULE Lists ---------------------------------
(***************************************************************************)
(* The linked list of src/list.cpp, with every operation: objects linked by *)
(* pointers, a pool of freed ones.  Three calls do not do what their name   *)
(* says: addAt() behind the last item leaves m_last behind, deleteAll()     *)
(* passes over an item and follows a null pointer, deleteAt() one place     *)
(* behind the end empties the list.  They are modelled as they are and      *)
(* noted in odd; after a walk at address 0 anything may happen and the      *)
(* model stops.                                                             *)
(***************************************************************************)
EXTENDS Integers, Sequences, SequencesExt

CONSTANTS
  Values,          \* values kept in the list; the null pointer is not one
  MaxObjects,      \* bound: list objects that exist at a time
  LIST_MAX_FREED   \* one more than the objects kept for reuse

ListsAssumption ==
  MaxObjects \in Nat \ {0} /\ LIST_MAX_FREED \in Nat \ {0} /\ 0 \notin Values

VARIABLES
  list,  \* m_first, m_last, m_size, the objects, the pool and the objects that exist
  odd    \* "odd" after a call that did not do what it says, "null" after a walk at address 0

vars == <<list, odd>>

Nil     == 0
Objects == 1..MaxObjects
Places  == 0..MaxObjects

-----------------------------------------------------------------------------
(* Walks and the pool                                                        *)

\* The object i steps behind o, or the last one on the way.
Walk(l, o, i) ==
  LET w[k \in 0..i] == IF k = 0 THEN o
                       ELSE IF l.next[w[k - 1]] = Nil THEN w[k - 1] ELSE l.next[w[k - 1]]
  IN  w[i]

\* Steps that such a walk takes, and the place it comes to.
Steps(l, i) ==
  CHOOSE c \in 0..i : /\ \A k \in 0..c - 1 : l.next[Walk(l, l.first, k)] # Nil
                      /\ c = i \/ l.next[Walk(l, l.first, c)] = Nil

\* begin(), next() and item(): what a walk from m_first meets, as long as no object twice.
Items(l) ==
  IF l.first = Nil THEN <<>>
  ELSE [k \in 1..Steps(l, MaxObjects) + 1 |-> l.ptr[Walk(l, l.first, k - 1)]]

At(l, i) == IF l.first = Nil \/ Steps(l, i) # i THEN Nil ELSE l.ptr[Walk(l, l.first, i)]

\* getFree(): the newest object of the pool, or a new one.
Fresh(l) == Objects \ l.live
CanGet(l) == l.freed # <<>> \/ Fresh(l) # {}
GetFree(l) == IF l.freed # <<>> THEN Last(l.freed) ELSE CHOOSE o \in Fresh(l) : TRUE

\* The list once it has taken that object for a value, with no next one.
Got(l, v) ==
  [l EXCEPT !.freed = IF @ = <<>> THEN @ ELSE Front(@), !.live = @ \cup {GetFree(l)},
            !.next[GetFree(l)] = Nil, !.ptr[GetFree(l)] = v]

\* free(): the pool keeps the object, or it is deleted.  It is not read again.
Freed(l, o) ==
  LET cleared == [l EXCEPT !.ptr[o] = Nil, !.next[o] = Nil] IN
  IF Len(l.freed) + 1 >= LIST_MAX_FREED THEN [cleared EXCEPT !.live = @ \ {o}]
  ELSE [cleared EXCEPT !.freed = Append(@, o)]

-----------------------------------------------------------------------------
(* The operations                                                            *)

addFirst(l, v) ==
  LET obj == GetFree(l)
      g == Got(l, v)
  IN  IF l.first # Nil THEN [g EXCEPT !.next[obj] = l.first, !.first = obj, !.size = @ + 1]
      ELSE [g EXCEPT !.last = obj, !.first = obj, !.size = @ + 1]

append(l, v) ==
  LET obj == GetFree(l) IN
  IF l.last = Nil THEN addFirst(l, v)
  ELSE [Got(l, v) EXCEPT !.next[l.last] = obj, !.last = obj, !.size = @ + 1]

rotateFirstLast(l) ==
  IF l.first = Nil \/ l.first = l.last THEN l
  ELSE [l EXCEPT !.first = l.next[l.first],
                 !.next = [o \in Objects |-> IF o = l.first THEN Nil
                                             ELSE IF o = l.last THEN l.first ELSE @[o]],
                 !.last = l.first]

takeFirst(l) ==
  IF l.first = Nil THEN l
  ELSE Freed([l EXCEPT !.first = l.next[l.first],
                       !.last = IF l.next[l.first] = Nil THEN Nil ELSE @,
                       !.size = @ - 1], l.first)

\* Mutant: the last object is not updated.
appendAfterStale(l, i, v) ==
  IF l.first = Nil THEN addFirst(l, v)
  ELSE LET obj == Walk(l, l.first, i) IN
       [Got(l, v) EXCEPT !.next = [@ EXCEPT ![GetFree(l)] = l.next[obj], ![obj] = GetFree(l)],
                         !.size = @ + 1]

appendAfter(l, i, v) ==
  IF l.first = Nil THEN addFirst(l, v)
  ELSE LET obj == Walk(l, l.first, i) IN
       [Got(l, v) EXCEPT !.next = [@ EXCEPT ![GetFree(l)] = l.next[obj], ![obj] = GetFree(l)],
                         !.last = IF l.next[obj] = Nil THEN GetFree(l) ELSE @,
                         !.size = @ + 1]

\* Behind the last object too, without a new m_last.
addAt(l, i, v) ==
  IF l.first = Nil \/ i = 0 THEN addFirst(l, v)
  ELSE LET obj == Walk(l, l.first, i - 1) IN
       [Got(l, v) EXCEPT !.next = [@ EXCEPT ![GetFree(l)] = l.next[obj], ![obj] = GetFree(l)],
                         !.size = @ + 1]

BehindLast(l, i) == l.first # Nil /\ i # 0 /\ l.next[Walk(l, l.first, i - 1)] = Nil

\* One round of deleteAll(): the list, prev and obj.
Unlinked(r) ==
  LET l == r.l
      linked == IF r.prev = Nil THEN [l EXCEPT !.first = l.next[r.obj]]
                ELSE [l EXCEPT !.next[r.prev] = l.next[r.obj]]
      ended == IF l.last = r.obj
               THEN [linked EXCEPT !.last = r.prev,
                                   !.next = [o \in Objects |-> IF o = r.prev THEN Nil ELSE @[o]]]
               ELSE linked
  IN  Freed([ended EXCEPT !.size = @ - 1], r.obj)

\* Behind a null prev, prev->next is what lies at address 0: null after the only object,
\* unknown before others (see FollowsNull).
Round(r, v) ==
  IF r.l.ptr[r.obj] # v THEN [r EXCEPT !.prev = r.obj, !.obj = r.l.next[r.obj]]
  ELSE LET l == Unlinked(r)
           obj == IF r.prev = Nil THEN Nil ELSE l.next[r.prev]
       IN  [l |-> l, prev |-> obj, obj |-> IF obj = Nil THEN Nil ELSE l.next[obj]]

deleteAll(l, v) ==
  LET r[k \in 0..MaxObjects] ==
        IF k = 0 THEN [l |-> l, prev |-> Nil, obj |-> l.first]
        ELSE IF r[k - 1].obj = Nil THEN r[k - 1] ELSE Round(r[k - 1], v)
  IN  r[MaxObjects].l

\* Two of the value in a row: the second one stays.
PassesOver(l, v) == \E k \in 1..MaxObjects - 1 : At(l, k) = v /\ At(l, k + 1) = v

\* The value is first in a longer list: the walk goes on at address 0.
FollowsNull(l, v) == At(l, 0) = v /\ At(l, 1) # Nil

\* The first object is not freed; one place behind the end everything goes.
deleteAt(l, i) ==
  IF l.first = Nil THEN l
  ELSE IF i = 0 THEN
    IF l.next[l.first] = Nil THEN [l EXCEPT !.first = Nil, !.last = Nil, !.size = 0]
    ELSE [l EXCEPT !.first = l.next[l.first], !.size = @ - 1]
  ELSE LET obj == Walk(l, l.first, i - 1)
           tmp == l.next[obj]
       IN  IF Steps(l, i - 1) # i - 1 THEN l
           ELSE IF tmp = Nil
           THEN Freed([l EXCEPT !.first = Nil, !.last = Nil, !.size = 0], obj)
           ELSE Freed([l EXCEPT !.next[obj] = l.next[tmp],
                                !.last = IF l.next[tmp] = Nil THEN obj
                                         ELSE IF @ = tmp THEN l.next[tmp] ELSE @,
                                !.size = @ - 1], tmp)

BehindEnd(l, i) == i > 0 /\ i = Len(Items(l))

-----------------------------------------------------------------------------

Init ==
  /\ list = [first |-> Nil, last |-> Nil, size |-> 0, next |-> [o \in Objects |-> Nil],
             ptr |-> [o \in Objects |-> Nil], freed |-> <<>>, live |-> {}]
  /\ odd = {}

Do(l) == list' = l /\ UNCHANGED odd

AddFirst(v)       == CanGet(list) /\ Do(addFirst(list, v))
Append_(v)        == CanGet(list) /\ Do(append(list, v))
AppendAfter(i, v) == CanGet(list) /\ Do(appendAfter(list, i, v))
RotateFirstLast   == Do(rotateFirstLast(list))
TakeFirst         == Do(takeFirst(list))

AddAt(i, v) ==
  /\ CanGet(list) /\ list' = addAt(list, i, v)
  /\ odd' = odd \cup (IF BehindLast(list, i) THEN {"odd"} ELSE {})

DeleteAll(v) ==
  /\ list' = deleteAll(list, v)
  /\ odd' = odd \cup (IF FollowsNull(list, v) THEN {"null"} ELSE {})
                 \cup (IF PassesOver(list, v) THEN {"odd"} ELSE {})

DeleteAt(i) ==
  /\ list' = deleteAt(list, i)
  /\ odd' = odd \cup (IF BehindEnd(list, i) THEN {"odd"} ELSE {})

\* deleteAll() has gone on at address 0.
Lost == "null" \in odd /\ UNCHANGED vars

Next ==
  \/ /\ "null" \notin odd
     /\ \/ \E v \in Values : AddFirst(v) \/ Append_(v) \/ DeleteAll(v)
        \/ \E v \in Values, i \in Places : AppendAfter(i, v) \/ AddAt(i, v)
        \/ RotateFirstLast \/ TakeFirst
        \/ \E i \in Places : DeleteAt(i)
  \/ Lost

Spec == Init /\ [][Next]_vars

-----------------------------------------------------------------------------
(* Properties                                                                *)

Pool == {list.freed[k] : k \in DOMAIN list.freed}
Linked == IF list.first = Nil THEN {}
          ELSE {Walk(list, list.first, k) : k \in 0..MaxObjects}

\* As long as no call was odd, m_size and m_last are those of the objects that a walk from
\* m_first meets.
Consistent ==
  odd = {} =>
    /\ list.size = Len(Items(list))
    /\ list.last = IF list.first = Nil THEN Nil ELSE Walk(list, list.first, MaxObjects)

\* Whatever else was called, odd or not, a walk from m_first ends and meets no object of the pool and none
\* that was deleted: a loop or a reused object would change the list behind its user's back.
WalksSafe ==
  "null" \notin odd =>
  /\ list.first = Nil \/ list.next[Walk(list, list.first, MaxObjects)] = Nil
  /\ Linked \subseteq list.live \ Pool

\* What each call makes of the values, in terms of the sequence alone.
Inserted(s, i, v) == InsertAt(s, IF i < Len(s) THEN i + 1 ELSE Len(s) + 1, v)
Without(s, v) ==
  LET kept[k \in 0..Len(s)] == IF k = 0 THEN <<>>
                               ELSE IF s[k] = v THEN kept[k - 1] ELSE Append(kept[k - 1], s[k])
  IN  kept[Len(s)]

\* As long as no call was odd, the next call changes the sequence of values the way its name
\* says, for every place and value and whatever the pool holds; the odd calls excepted.
IsSequence ==
  odd = {} =>
    LET s == Items(list) IN
    /\ s # <<>> => /\ Items(takeFirst(list)) = Tail(s)
                   /\ Items(rotateFirstLast(list)) = Append(Tail(s), Head(s))
    /\ \A i \in Places : i < Len(s) => Items(deleteAt(list, i)) = RemoveAt(s, i + 1)
    /\ \A i \in Places : i > Len(s) => Items(deleteAt(list, i)) = s
    /\ \A v \in Values :
         ~(PassesOver(list, v) \/ FollowsNull(list, v)) =>
           Items(deleteAll(list, v)) = Without(s, v)
    /\ CanGet(list) => \A v \in Values :
         /\ Items(addFirst(list, v)) = <<v>> \o s
         /\ Items(append(list, v)) = Append(s, v)
         /\ \A i \in Places : /\ Items(addAt(list, i, v)) = Inserted(s, i, v)
                             /\ Items(appendAfter(list, i, v)) = Inserted(s, i + 1, v)

\* The list is the sequence of its values: its pointers agree with each other, and every
\* call does to the values what its name says.
ListSound == Consistent /\ WalksSafe /\ IsSequence
================================================================================
