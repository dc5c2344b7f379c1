------------------------------ MODULE ItemLists ------------------------------
(***************************************************************************)
(* What an intrusive list promises: each list is a sequence of items, an   *)
(* item is in at most one list and at most once in it, and an item that is *)
(* moved keeps its place.                                                  *)
(***************************************************************************)
EXTENDS Naturals, Sequences

CONSTANTS Item, List

VARIABLES items,     \* items that exist
          lists,     \* lists that exist
          contents   \* the items of each list, first to last

vars == <<items, lists, contents>>

Init ==
    /\ items = {}
    /\ lists = {}
    /\ contents = [l \in List |-> <<>>]

\* Sequence w without item t, which is in it at most once.
Removed(w, t) ==
    IF \A i \in DOMAIN w : w[i] # t THEN w
    ELSE LET i == CHOOSE i \in DOMAIN w : w[i] = t
         IN  [j \in 1 .. (Len(w) - 1) |-> IF j < i THEN w[j] ELSE w[j + 1]]

\* All the lists without item t.
Without(t) == [l \in List |-> Removed(contents[l], t)]

NewItem(t) ==
    /\ t \notin items
    /\ items' = items \cup {t}
    /\ UNCHANGED <<lists, contents>>

\* Item t is constructed from item u and takes its place.
MoveItem(t, u) ==
    /\ t \notin items /\ u \in items
    /\ items' = items \cup {t}
    /\ contents' = [l \in List |->
                        [i \in DOMAIN contents[l] |->
                            IF contents[l][i] = u THEN t ELSE contents[l][i]]]
    /\ UNCHANGED lists

DestroyItem(t) ==
    /\ t \in items
    /\ items' = items \ {t}
    /\ contents' = Without(t)
    /\ UNCHANGED lists

Unlink(t) ==
    /\ t \in items
    /\ contents' = Without(t)
    /\ UNCHANGED <<items, lists>>

Insert(t, l) ==
    /\ t \in items /\ l \in lists
    /\ contents' \in {[Without(t) EXCEPT ![l] = <<t>> \o @],
                      [Without(t) EXCEPT ![l] = @ \o <<t>>]}
    /\ UNCHANGED <<items, lists>>

NewList(l) ==
    /\ l \notin lists
    /\ lists' = lists \cup {l}
    /\ UNCHANGED <<items, contents>>

\* List l, new or emptied, takes all that list k has.
TakeOver(l, k) ==
    /\ l # k /\ k \in lists /\ contents[l] = <<>>
    /\ lists' = lists \cup {l}
    /\ contents' = [contents EXCEPT ![l] = contents[k], ![k] = <<>>]
    /\ UNCHANGED items

DestroyList(l) ==
    /\ l \in lists /\ contents[l] = <<>>
    /\ lists' = lists \ {l}
    /\ UNCHANGED <<items, contents>>

Next ==
    \/ \E t \in Item : NewItem(t) \/ DestroyItem(t) \/ Unlink(t)
    \/ \E t, u \in Item : MoveItem(t, u)
    \/ \E t \in Item, l \in List : Insert(t, l)
    \/ \E l \in List : NewList(l) \/ DestroyList(l)
    \/ \E l, k \in List : TakeOver(l, k)

Spec == Init /\ [][Next]_vars
=============================================================================
