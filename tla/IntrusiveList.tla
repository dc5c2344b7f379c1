---------------------------- MODULE IntrusiveList ----------------------------
(***************************************************************************)
(* Doubly linked lists whose links are members of the items                *)
(* (src/util/util_intrusive_list.hpp).  A list owns two sentinel links,    *)
(* m_head and m_tail; an item owns one.  Items and lists are constructed,  *)
(* moved and destroyed in any order, as the user's objects are.            *)
(*                                                                         *)
(* The loop of clear() is one step per iteration; `call' is the operation  *)
(* whose clear() is running, and nothing else happens meanwhile.           *)
(* std::abort() ends the program: an operation that would abort is not     *)
(* enabled.  NeverAborts says which aborts are never met; popping from an  *)
(* empty list is not among them, it is the caller's to avoid.              *)
(***************************************************************************)
EXTENDS Naturals, FiniteSets, Sequences

CONSTANTS Item,   \* objects that have a Link member, by their address
          List,   \* IntrusiveList objects, by their address
          None    \* an absent Maybe<LinkRef>, and no operation

m_head(l) == <<"head", l>>

m_tail(l) == <<"tail", l>>

Link == Item \cup {m_head(l) : l \in List} \cup {m_tail(l) : l \in List}

\* The operations that begin with clear(), on a list and the one assigned to it.
Call == [op : {"clear", "assign", "destroy"}, list : List, other : List]

ASSUME ListAssumption ==
    /\ \A l \in List : m_head(l) \notin Item /\ m_tail(l) \notin Item
    /\ None \notin Link \cup Call
    /\ IsFiniteSet(Item)

VARIABLES links,   \* m_next, m_prev and m_owner of every link
          items,   \* items that are constructed
          lists,   \* lists that are constructed
          call     \* the operation whose clear() is running, or None

vars == <<links, items, lists, call>>

\* The map f with x mapped to v, if there is an x: Maybe::fmap.
With(f, x, v) == [y \in DOMAIN f |-> IF y = x THEN v ELSE f[y]]

\* Link::Link(), the sentinels of a list and the initial members of an item.
Init ==
    /\ links = [next |-> [x \in Link |-> None], prev |-> [x \in Link |-> None],
                owner |-> [x \in Link |-> None]]
    /\ items = {}
    /\ lists = {}
    /\ call = None

(***************************************************************************)
(* Link.                                                                   *)
(***************************************************************************)

in_list(t) == links.next[t] # None /\ links.prev[t] # None

\* Mutants of remove: the neighbour behind keeps its reference; the link keeps
\* its own.
RemoveOneSided(s, x) ==
    [next |-> With(With(s.next, s.prev[x], s.next[x]), x, None),
     prev |-> With(s.prev, x, None),
     owner |-> s.owner]

RemoveKeepsOwn(s, x) ==
    [next |-> With(s.next, s.prev[x], s.next[x]),
     prev |-> With(s.prev, s.next[x], s.prev[x]),
     owner |-> s.owner]

remove(s, x) ==
    [next |-> With(With(s.next, s.prev[x], s.next[x]), x, None),
     prev |-> With(With(s.prev, s.next[x], s.prev[x]), x, None),
     owner |-> s.owner]

place_after(s, x, t) ==
    LET r == remove(s, x)
        n == r.next[t]
    IN  [next |-> With(With(r.next, x, n), t, x),
         prev |-> With(With(r.prev, x, t), n, x),
         owner |-> r.owner]

\* Mutant of place_before: an item that is in a list is not removed from it.
PlaceBeforeUnremoved(s, x, t) ==
    LET p == s.prev[t]
    IN  [next |-> With(With(s.next, x, t), p, x),
         prev |-> With(With(s.prev, x, p), t, x),
         owner |-> s.owner]

place_before(s, x, t) ==
    LET r == remove(s, x)
        p == r.prev[t]
    IN  [next |-> With(With(r.next, x, t), p, x),
         prev |-> With(With(r.prev, x, p), t, x),
         owner |-> r.owner]

\* Mutant of Relink: the owner is moved with the link.
RelinkOwner(s, t, u) ==
    LET n == s.next[u]
        p == s.prev[u]
    IN  [next |-> With(With(With(s.next, t, n), p, t), u, None),
         prev |-> With(With(With(s.prev, t, p), n, t), u, None),
         owner |-> With(s.owner, t, s.owner[u])]

\* Link::Link(T&, Link&&): the link of t takes the place of the link of u.
Relink(s, t, u) ==
    LET n == s.next[u]
        p == s.prev[u]
    IN  [next |-> With(With(With(s.next, t, n), p, t), u, None),
         prev |-> With(With(With(s.prev, t, p), n, t), u, None),
         owner |-> With(s.owner, t, t)]

NewItem(t) ==
    /\ call = None /\ t \notin items
    /\ items' = items \cup {t}
    /\ links' = [next |-> With(links.next, t, None),
                 prev |-> With(links.prev, t, None),
                 owner |-> With(links.owner, t, t)]
    /\ UNCHANGED <<lists, call>>

MoveItem(t, u) ==
    /\ call = None /\ t \notin items /\ u \in items
    /\ items' = items \cup {t}
    /\ links' = Relink(links, t, u)
    /\ UNCHANGED <<lists, call>>

\* Mutant of DestroyItem: Link has no destructor of its own.
DestroyItemLinked(t) ==
    /\ call = None /\ t \in items
    /\ items' = items \ {t}
    /\ UNCHANGED <<links, lists, call>>

DestroyItem(t) ==
    /\ call = None /\ t \in items
    /\ items' = items \ {t}
    /\ links' = remove(links, t)
    /\ UNCHANGED <<lists, call>>

RemoveItem(t) ==
    /\ call = None /\ t \in items
    /\ links' = remove(links, t)
    /\ UNCHANGED <<items, lists, call>>

(***************************************************************************)
(* IntrusiveList.                                                          *)
(***************************************************************************)

\* empty(): m_head is followed by m_tail.
empty(l) == links.next[m_head(l)] = m_tail(l)

PushBack(l, t) ==
    /\ call = None /\ l \in lists /\ t \in items
    /\ links' = place_before(links, t, m_tail(l))
    /\ UNCHANGED <<items, lists, call>>

PushFront(l, t) ==
    /\ call = None /\ l \in lists /\ t \in items
    /\ links' = place_after(links, t, m_head(l))
    /\ UNCHANGED <<items, lists, call>>

PopFront(l) ==
    /\ l \in lists /\ ~empty(l)
    /\ \E x \in Link : x = links.next[m_head(l)] /\ links' = remove(links, x)
    /\ UNCHANGED <<items, lists, call>>

PopBack(l) ==
    /\ l \in lists /\ ~empty(l)
    /\ \E x \in Link : x = links.prev[m_tail(l)] /\ links' = remove(links, x)
    /\ UNCHANGED <<items, lists, call>>

\* Mutant of do_move: the other list still refers to its items.
DoMoveShares(s, l, k) ==
    LET first == s.next[m_head(k)]
        last  == s.prev[m_tail(k)]
    IN  [next |-> With(With(s.next, m_head(l), first), last, m_tail(l)),
         prev |-> With(With(s.prev, first, m_head(l)), m_tail(l), last),
         owner |-> s.owner]

\* do_move(): list l, whose own links are overwritten, takes the items of k.
do_move(s, l, k) ==
    LET first == s.next[m_head(k)]
        last  == s.prev[m_tail(k)]
        r == [next |-> With(With(With(s.next, m_head(l), first), last, m_tail(l)),
                              m_head(k), None),
              prev |-> With(With(With(s.prev, first, m_head(l)), m_tail(l), last),
                              m_tail(k), None),
              owner |-> s.owner]
    IN  place_after(r, m_tail(k), m_head(k))

NewList(l) ==
    /\ call = None /\ l \notin lists
    /\ lists' = lists \cup {l}
    /\ links' = place_after(links, m_tail(l), m_head(l))
    /\ UNCHANGED <<items, call>>

\* IntrusiveList(IntrusiveList&&).
MoveList(l, k) ==
    /\ call = None /\ l \notin lists /\ k \in lists
    /\ lists' = lists \cup {l}
    /\ links' = IF empty(k) THEN place_after(links, m_tail(l), m_head(l))
                ELSE do_move(links, l, k)
    /\ UNCHANGED <<items, call>>

\* clear(), operator=(IntrusiveList&&) and ~IntrusiveList() begin with the loop
\* of clear(); an assignment to itself returns at once.
BeginClear(c) ==
    /\ call = None /\ c.list \in lists /\ c.other \in lists
    /\ c.op = "assign" <=> c.other # c.list
    /\ call' = c
    /\ UNCHANGED <<links, items, lists>>

\* One iteration of the loop of clear().
ClearLoop == call # None /\ PopFront(call.list)

\* What follows clear(): nothing, do_move(), or the destructors of m_tail and
\* m_head.
EndClear ==
    /\ call # None /\ empty(call.list)
    /\ call' = None
    /\ \/ /\ call.op = "clear"
          /\ UNCHANGED <<links, lists>>
       \/ /\ call.op = "assign"
          /\ links' = IF empty(call.other) THEN links
                      ELSE do_move(links, call.list, call.other)
          /\ UNCHANGED lists
       \/ /\ call.op = "destroy"
          /\ lists' = lists \ {call.list}
          /\ links' = remove(remove(links, m_tail(call.list)), m_head(call.list))
    /\ UNCHANGED items

Next ==
    \/ \E t \in Item : NewItem(t) \/ DestroyItem(t) \/ RemoveItem(t)
    \/ \E t, u \in Item : MoveItem(t, u)
    \/ \E l \in List, t \in Item : PushBack(l, t) \/ PushFront(l, t)
    \/ \E l \in List : call = None /\ (PopFront(l) \/ PopBack(l))
    \/ \E l \in List : NewList(l)
    \/ \E l, k \in List : MoveList(l, k)
    \/ \E c \in Call : BeginClear(c)
    \/ ClearLoop
    \/ EndClear

Spec == Init /\ [][Next]_vars

\* The loop of clear() and what follows it run to their end.
FairSpec == Spec /\ WF_vars(ClearLoop \/ EndClear)

TypeOK ==
    /\ links \in [next : [Link -> Link \cup {None}],
                  prev : [Link -> Link \cup {None}],
                  owner : [Link -> Item \cup {None}]]
    /\ items \subseteq Item
    /\ lists \subseteq List
    /\ call \in Call \cup {None}
    /\ call # None => call.list \in lists /\ call.other \in lists

\* The sentinel links of the lists that exist and the links of the items that
\* exist.
LiveLink == items \cup {m_head(l) : l \in lists} \cup {m_tail(l) : l \in lists}

\* m_next and m_prev mirror each other: whatever order items and lists are
\* moved and destroyed in, each neighbour of a link refers back to it.
LinksMirror ==
    \A x, y \in Link : links.next[x] = y <=> links.prev[y] = x

\* No link refers to the link of an object that has been destroyed, and a
\* destroyed link refers to nothing: remove(), called by ~Link(), leaves no
\* dangling reference behind in either direction.
NoDangling ==
    \A x \in Link : \A y \in {links.next[x], links.prev[x]} :
        y # None => x \in LiveLink /\ y \in LiveLink

\* The aborts of empty() and get() are never met: m_head always has a
\* successor and m_tail a predecessor, also in a list that was moved from, and
\* the link of an item refers to that item, also after the item was moved.
NeverAborts ==
    /\ \A l \in lists : /\ links.next[m_head(l)] # None
                        /\ links.prev[m_tail(l)] # None
    /\ \A t \in items : links.owner[t] = t

-----------------------------------------------------------------------------
(* The lists as sequences of items, read off the links.                    *)

\* From m_head of l the references lead through the items of w to m_tail.
Chain(next, l, w) ==
    \A i \in 0 .. Len(w) :
        next[IF i = 0 THEN m_head(l) ELSE w[i]] =
            IF i = Len(w) THEN m_tail(l) ELSE w[i + 1]

Chains(next, l) ==
    {w \in UNION {[1 .. n -> Item] : n \in 0 .. Cardinality(Item)} : Chain(next, l, w)}

\* The items of list l; a list that does not exist has none.
Contents(next, l) ==
    IF Chains(next, l) = {} THEN <<>> ELSE CHOOSE w \in Chains(next, l) : TRUE

Lists == [l \in List |-> Contents(links.next, l)]

\* in_list() holds exactly of the items that some list has, although it looks
\* at the item's own link only.
InListExact ==
    \A t \in items :
        in_list(t) <=> \E l \in lists : \E i \in DOMAIN Lists[l] : Lists[l][i] = t

\* The links implement sequences of items: every operation has the effect on
\* the sequences that its name says, and none on the other lists.
Abstract == INSTANCE ItemLists WITH contents <- Lists

ImplementsLists == Abstract!Spec
=============================================================================
