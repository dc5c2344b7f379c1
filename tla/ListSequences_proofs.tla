------------------------ MODULE ListSequences_proofs ------------------------
(***************************************************************************)
(* Every operation does to the sequences of items what ItemLists says, for *)
(* any items and lists.                                                    *)
(***************************************************************************)
EXTENDS ListEdits_proofs

USE SMTT(100), ZenonT(100)

-----------------------------------------------------------------------------
(* Moving an item and destroying what is linked.                           *)

\* The references after Link(T&, Link&&): t is where u was, and u nowhere.
Swapped(n, m, t, u, p) ==
    \A y \in Link : m[y] = IF y = u THEN None ELSE IF y = p THEN t
                           ELSE IF y = t THEN n[u] ELSE n[y]

\* The sequences c with t for u.
Renamed(c, t, u) ==
    [l \in List |-> [i \in DOMAIN c[l] |-> IF c[l][i] = u THEN t ELSE c[l][i]]]

\* An item that is moved keeps its place in its list.
LEMMA RelinkHolds ==
    ASSUME NEW s, NEW live, Sound(s, live), NEW ls \in SUBSET List, NEW c,
           Holds(s.next, ls, c), NEW t \in Item, NEW u \in Item, t # u, s.next[t] = None,
           NEW m, Swapped(s.next, m, t, u, s.prev[u]),
           NEW d, d = Renamed(c, t, u)
    PROVE  Holds(m, ls, d)
<1>0. PICK n, p : n = s.next /\ p = s.prev[u]
  OBVIOUS
<1>1. Holds(n, ls, c) /\ c \in [List -> Seq(Item)] /\ n[t] = None /\ t \in Link /\ u \in Link
  BY <1>0, Distinct DEF Holds
<1>2. \A y \in Link : m[y] = IF y = u THEN None ELSE IF y = p THEN t
                             ELSE IF y = t THEN n[u] ELSE n[y]
  BY <1>0 DEF Swapped
<1>3. \A l \in List : \A i \in 1 .. Len(c[l]) : HeldAt(n, ls, c, l, i)
  BY <1>1, HeldFacts, ZenonT(100)
<1>4. \A l \in List : \A i \in 1 .. Len(c[l]) :
          c[l][i] # t /\ c[l][i] \in Item /\ c[l][i] \in Link /\ n[c[l][i]] # None
  <2> SUFFICES ASSUME NEW l \in List, NEW i \in 1 .. Len(c[l])
               PROVE  c[l][i] # t /\ c[l][i] \in Item /\ c[l][i] \in Link /\ n[c[l][i]] # None
    OBVIOUS
  <2>1. HeldAt(n, ls, c, l, i)
    BY <1>3
  <2> QED BY <1>1, <2>1, Distinct DEF HeldAt
<1>5. ASSUME NEW l \in List, \A i \in 1 .. Len(c[l]) : c[l][i] # u PROVE d[l] = c[l]
  <2>1. c[l] \in Seq(Item) /\ DOMAIN c[l] = 1 .. Len(c[l])
    BY <1>1
  <2>2. d[l] = [i \in 1 .. Len(c[l]) |-> c[l][i]]
    BY <1>5, <2>1 DEF Renamed
  <2> QED BY <2>1, <2>2
<1>6. CASE n[u] = None
  <2>1. p = None
    BY <1>0, <1>6 DEF Sound, Paired
  <2>2. \A y \in Link : m[y] = n[y]
    BY <1>1, <1>2, <1>6, <2>1, Distinct
  <2>3. \A l \in List : d[l] = c[l]
    BY <1>4, <1>5, <1>6
  <2>4. d = c
    BY <1>1, <2>3 DEF Renamed
  <2> QED BY <1>1, <2>2, <2>4, NoneChanges
<1>7. CASE n[u] # None
  <2>1. PICK l \in List : \E i \in 1 .. Len(c[l]) : c[l][i] = u
    BY <1>1, <1>7 DEF Holds
  <2>2. PICK i \in 1 .. Len(c[l]) : c[l][i] = u
    BY <2>1
  <2>3. PICK w, z : w = c[l] /\ z = d[l]
    OBVIOUS
  <2>4. /\ w \in Seq(Item) /\ Len(w) \in Nat /\ l \in ls /\ Linked(n, l, w)
        /\ i \in 1 .. Len(w) /\ w[i] = u
        /\ n[u] = IF i = Len(w) THEN m_tail(l) ELSE w[i + 1]
    <3>1. HeldAt(n, ls, c, l, i)
      BY <1>3
    <3> QED BY <2>2, <2>3, <3>1 DEF HeldAt
  <2>5. p = IF i = 1 THEN m_head(l) ELSE w[i - 1]
    <3>1. PrevAt(s, c, l, i)
      BY <2>2, HeldPrev, ZenonT(100)
    <3> QED BY <1>0, <2>2, <2>3, <3>1 DEF PrevAt
  <2>6. \A j, k \in 1 .. Len(w) : w[j] = w[k] => j = k
    BY <1>1, <2>3 DEF Holds
  <2>7. \A k \in List \ {l} : \A j \in 1 .. Len(c[k]), x \in 1 .. Len(w) : c[k][j] # w[x]
    BY <1>1, <2>3 DEF Holds
  <2>8. /\ z \in Seq(Item) /\ Len(z) = Len(w)
        /\ \A j \in 1 .. Len(w) : z[j] = IF j = i THEN t ELSE w[j]
    <3>1. z = [j \in 1 .. Len(w) |-> IF w[j] = u THEN t ELSE w[j]]
      BY <2>3, <2>4 DEF Renamed
    <3>2. z \in [1 .. Len(w) -> Item]
      BY <2>4, <3>1
    <3>3. z \in Seq(Item) /\ Len(z) = Len(w)
      BY <2>4, <3>2
    <3>4. \A j \in 1 .. Len(w) : w[j] = u <=> j = i
      BY <2>4, <2>6
    <3> QED BY <3>1, <3>3, <3>4
  <2>9. d = [c EXCEPT ![l] = z]
    <3>1. \A k \in List \ {l} : d[k] = c[k]
      BY <1>5, <2>4, <2>7
    <3> QED BY <1>1, <2>3, <3>1, ZenonT(100) DEF Renamed
  <2>10. /\ \A j \in 1 .. Len(w) : w[j] \in Link /\ w[j] \in Item /\ w[j] # t
         /\ \A k \in List : m_head(k) \in Link /\ m_head(k) \notin Item
         /\ \A k \in List : k # l => m_head(k) # m_head(l)
    BY <1>4, <2>3, Distinct
  <2>11. ASSUME NEW k \in ls \ {l}
         PROVE  /\ m[m_head(k)] = n[m_head(k)]
                /\ \A j \in 1 .. Len(c[k]) : m[c[k][j]] = n[c[k][j]]
    <3>1. m_head(k) # t /\ m_head(k) # u /\ m_head(k) # p /\ m_head(k) \in Link
      BY <2>4, <2>5, <2>10
    <3>2. ASSUME NEW j \in 1 .. Len(c[k]) PROVE m[c[k][j]] = n[c[k][j]]
      <4>1. c[k][j] \in Item /\ c[k][j] \in Link /\ c[k][j] # t
        BY <1>4
      <4>2. c[k][j] # u
        BY <2>4, <2>7
      <4>3. c[k][j] # p
        BY <2>4, <2>5, <2>7, <2>10, <4>1
      <4> QED BY <1>2, <4>1, <4>2, <4>3
    <3> QED BY <1>2, <3>1, <3>2
  <2>12. m[m_head(l)] = IF i = 1 THEN t ELSE n[m_head(l)]
    BY <1>2, <2>4, <2>5, <2>10
  <2>13. m[t] = n[u]
    BY <1>1, <1>2, <2>4, <2>5, <2>10
  <2>14. ASSUME NEW j \in 1 .. Len(w), j # i
         PROVE  m[w[j]] = IF j = i - 1 THEN t ELSE n[w[j]]
    <3>1. w[j] # u /\ w[j] # t /\ w[j] \in Link /\ w[j] # m_head(l)
      BY <2>4, <2>6, <2>10, <2>14
    <3>2. w[j] = p <=> j = i - 1
      BY <2>4, <2>5, <2>6, <2>14, <3>1
    <3> QED BY <1>2, <3>1, <3>2
  <2>15. Linked(m, l, z)
    <3>1. Len(z) > 0 /\ Len(z) # 0 /\ 1 \in 1 .. Len(w) /\ Len(w) \in 1 .. Len(w)
      BY <2>4, <2>8
    <3>2. m[m_head(l)] = z[1]
      BY <2>4, <2>8, <2>12, <3>1 DEF Linked
    <3>3. m[z[Len(z)]] = m_tail(l)
      <4>1. CASE i = Len(w)
        BY <2>4, <2>8, <2>13, <3>1, <4>1
      <4>2. CASE i # Len(w)
        <5>1. Len(w) # i - 1
          BY <2>4
        <5>2. m[w[Len(w)]] = n[w[Len(w)]] /\ z[Len(z)] = w[Len(w)]
          BY <2>8, <2>14, <3>1, <4>2, <5>1
        <5> QED BY <2>4, <2>8, <3>1, <5>2 DEF Linked
      <4> QED BY <4>1, <4>2
    <3>4. ASSUME NEW j \in 1 .. (Len(z) - 1) PROVE m[z[j]] = z[j + 1]
      <4>0. j \in 1 .. (Len(w) - 1) /\ j \in 1 .. Len(w) /\ j + 1 \in 1 .. Len(w)
        BY <2>4, <2>8
      <4>1. CASE j = i
        BY <2>4, <2>8, <2>13, <4>0, <4>1
      <4>2. CASE j = i - 1
        <5>1. j # i /\ j + 1 = i
          BY <2>4, <4>2
        <5> QED BY <2>8, <2>14, <4>0, <4>2, <5>1
      <4>3. CASE j # i /\ j # i - 1
        <5>1. j + 1 # i
          BY <2>4, <4>0, <4>3
        <5>2. m[w[j]] = n[w[j]] /\ n[w[j]] = w[j + 1]
          BY <2>4, <2>14, <4>0, <4>3 DEF Linked
        <5> QED BY <2>8, <4>0, <4>3, <5>1, <5>2
      <4> QED BY <4>1, <4>2, <4>3
    <3> QED BY <3>1, <3>2, <3>3, <3>4 DEF Linked
  <2>16. \A j, k \in 1 .. Len(z) : z[j] = z[k] => j = k
    BY <2>6, <2>8, <2>10
  <2>17. ASSUME NEW k \in List \ {l}, NEW j \in 1 .. Len(z), NEW x \in 1 .. Len(c[k])
         PROVE  z[j] # c[k][x]
    <3>1. c[k][x] # t
      BY <1>4
    <3>2. j \in 1 .. Len(w) /\ z[j] \in {t, w[j]}
      BY <2>8
    <3> QED BY <2>7, <3>1, <3>2
  <2>18. ASSUME NEW y \in Item, m[y] # None
         PROVE  \/ \E j \in 1 .. Len(z) : z[j] = y
                \/ \E k \in List \ {l} : \E j \in 1 .. Len(c[k]) : c[k][j] = y
    <3>1. y \in Link /\ y # u
      BY <1>2, <2>18, Distinct
    <3>2. CASE y = t
      BY <2>4, <2>8, <3>2
    <3>3. CASE y # t
      <4>1. n[y] # None
        <5>1. CASE y = p
          <6>1. i > 1 /\ y = w[i - 1] /\ i - 1 \in 1 .. Len(c[l])
            BY <2>3, <2>4, <2>5, <2>10, <5>1
          <6> QED BY <1>4, <2>3, <6>1
        <5>2. CASE y # p
          BY <1>2, <2>18, <3>1, <3>3, <5>2
        <5> QED BY <5>1, <5>2
      <4>2. PICK k \in List : \E j \in 1 .. Len(c[k]) : c[k][j] = y
        BY <1>1, <4>1 DEF Holds
      <4>3. PICK j \in 1 .. Len(c[k]) : c[k][j] = y
        BY <4>2
      <4>4. CASE k # l
        BY <4>3, <4>4
      <4>5. CASE k = l
        <5>1. j \in 1 .. Len(w) /\ w[j] = y /\ j # i
          BY <2>3, <2>4, <3>1, <4>3, <4>5
        <5>2. j \in 1 .. Len(z) /\ z[j] = y
          BY <2>8, <5>1
        <5> QED BY <5>2
      <4> QED BY <4>4, <4>5
    <3> QED BY <3>2, <3>3
  <2>19. Replaces(n, m, ls, c, l, z)
    BY <2>4, <2>8, <2>11, <2>15, <2>16, <2>17, <2>18 DEF Replaces
  <2>20. ls = ls \cup {l} /\ Holds(n, ls, c) /\ ls \in SUBSET List
    BY <1>1, <2>4
  <2> QED BY ONLY <2>9, <2>19, <2>20, OneChanges, ZenonT(100)
<1> QED BY <1>6, <1>7

\* The references after Link(T&, Link&&).
LEMMA RelinkSwaps ==
    ASSUME NEW s, NEW live, Sound(s, live), NEW t \in Item, NEW u \in Item
    PROVE  Swapped(s.next, Relink(s, t, u).next, t, u, s.prev[u])
<1>1. PICK f, n, p : f = s.next /\ n = s.next[u] /\ p = s.prev[u]
  OBVIOUS
<1>2. /\ f \in [Link -> Link \cup {None}] /\ n \in Link \cup {None}
      /\ t \in Link \cup {None} /\ None \in Link \cup {None}
  BY <1>1, Distinct DEF Sound, Typed
<1>3. Relink(s, t, u).next = With(With(With(f, t, n), p, t), u, None)
  BY <1>1 DEF Relink
<1>4. \A z \in Link : With(With(With(f, t, n), p, t), u, None)[z] =
          IF z = u THEN None ELSE IF z = p THEN t ELSE IF z = t THEN n ELSE f[z]
  BY ONLY <1>2, WithThrice, SMTT(100)
<1> QED BY <1>1, <1>3, <1>4 DEF Swapped

\* The references after do_move().
LEMMA MoveHands ==
    ASSUME NEW s, NEW live, Sound(s, live), NEW ls \in SUBSET List, Anchored(s, ls),
           NEW l \in List, NEW k \in ls, l # k, s.next[m_head(k)] # m_tail(k)
    PROVE  Handed(s.next, do_move(s, l, k).next, l, k, s.prev[m_tail(k)])
<1>1. k \in List /\ m_head(k) \in Link /\ m_tail(k) \in Link /\ None \notin Link /\ Typed(s)
  BY Distinct DEF Sound
<1>2. PICK f \in Link, g \in Link : f = s.next[m_head(k)] /\ g = s.prev[m_tail(k)]
  BY <1>1 DEF Anchored, Typed
<1>3. \A x, y \in Link : s.next[x] = y <=> s.prev[y] = x
  BY DEF Sound, Mirror
<1>4. s.next[m_tail(k)] = None
  BY <1>1 DEF Sound, Ends
<1>5. f # m_tail(k) /\ g # m_head(k) /\ g # m_tail(k) /\ s.next[g] = m_tail(k)
  BY <1>1, <1>2, <1>3, <1>4
<1>6. PICK q : q = do_move(s, l, k)
  OBVIOUS
<1>7. \A y \in Link : q.next[y] = IF y = m_head(k) THEN m_tail(k)
                                  ELSE IF y = g THEN m_tail(l)
                                  ELSE IF y = m_head(l) THEN f ELSE s.next[y]
  BY <1>1, <1>2, <1>4, <1>5, <1>6, MoveValue, SMTT(100)
<1>8. \A x \in Link : s.next[x] = m_tail(k) => x = g
  BY <1>1, <1>2, <1>3
<1> QED BY <1>2, <1>5, <1>6, <1>7, <1>8 DEF Handed

\* The references after ~IntrusiveList() of an empty list.
LEMMA DestroyLeaves ==
    ASSUME NEW s, NEW live, Sound(s, live), NEW l \in List, s.next[m_head(l)] = m_tail(l),
           NEW q, q = remove(remove(s, m_tail(l)), m_head(l))
    PROVE  \A y \in Link : y # m_head(l) => q.next[y] = s.next[y]
<1>1. PICK h, t : h = m_head(l) /\ t = m_tail(l) /\ h \in Link /\ t \in Link /\ h # t
  BY Distinct
<1>2. /\ s.next[t] = None /\ s.prev[h] = None /\ s.prev[t] = h /\ None \notin Link
      /\ s.next[h] = t /\ Typed(s)
  BY <1>1, Distinct DEF Sound, Ends, Mirror
<1>3. PICK r : r = remove(s, t) /\ q = remove(r, h)
  BY <1>1
<1>4. /\ Typed(r)
      /\ \A y \in Link : r.next[y] =
             IF y = t THEN None ELSE IF y = s.prev[t] THEN s.next[t] ELSE s.next[y]
      /\ \A y \in Link : r.prev[y] =
             IF y = t THEN None ELSE IF y = s.next[t] THEN s.prev[t] ELSE s.prev[y]
  <2>1. Typed(s) /\ t \in Link /\ r = remove(s, t)
    BY <1>1, <1>2, <1>3
  <2> QED BY ONLY <2>1, RemoveValue, SMTT(100)
<1>5. \A y \in Link : q.next[y] =
          IF y = h THEN None ELSE IF y = r.prev[h] THEN r.next[h] ELSE r.next[y]
  <2>1. Typed(r) /\ h \in Link /\ q = remove(r, h)
    BY <1>1, <1>3, <1>4
  <2> QED BY ONLY <2>1, RemoveValue, SMTT(100)
<1>6. r.prev[h] = None
  BY <1>1, <1>2, <1>4
<1> QED BY <1>1, <1>2, <1>4, <1>5, <1>6

-----------------------------------------------------------------------------
(* The lists implement ItemLists.                                          *)

\* After the step there are sequences that the lists hold, and the step is one of
\* ItemLists.
Simulated ==
    /\ \E d : Holds(links'.next, lists', d)
    /\ [Abstract!Next]_(Abstract!vars)

\* Every step keeps sequences that the lists hold and is a step of ItemLists on
\* them, or leaves them as they are.  That Lists is these sequences is ListsRead.
LEMMA ListsStep ==
    ASSUME LinkInv, LinkInv', [Next]_vars, NEW c, Holds(links.next, lists, c),
           Lists = c, \A d : Holds(links'.next, lists', d) => Lists' = d
    PROVE  Simulated
<1>i. /\ Sound(links, LiveLink) /\ Anchored(links, lists)
      /\ items \subseteq Item /\ lists \in SUBSET List
  BY DEF LinkInv, TypeOK
<1>i2. Sound(links', LiveLink') /\ lists' \in SUBSET List
  BY DEF LinkInv, TypeOK
<1>y. call # None => call.list \in lists /\ call.other \in lists
  BY DEF LinkInv, TypeOK
<1>l. /\ \A l \in List \ lists : m_head(l) \notin LiveLink
      /\ \A l \in List \ lists' : m_head(l) \notin LiveLink'
      /\ \A t \in Item : t \in LiveLink => t \in items
  BY <1>i, Distinct DEF LiveLink, LinkInv, TypeOK
<1>c. Lists = c /\ \A d : Holds(links'.next, lists', d) => Lists' = d
  OBVIOUS
<1>t. c \in [List -> Seq(Item)] /\ \A l \in List \ lists : c[l] = <<>>
  BY DEF Holds
\* A step that leaves the sequences alone.
<1>s. ASSUME Holds(links'.next, lists', c), items' = items, lists' = lists PROVE Simulated
  <2>1. Lists' = c
    BY <1>s, <1>c
  <2> QED BY <1>c, <1>s, <2>1 DEF Simulated, Abstract!vars
<1>1. ASSUME NEW t \in Item, NewItem(t) PROVE Simulated
  <2>1. /\ t \notin items /\ items' = items \cup {t} /\ lists' = lists
        /\ links'.next = With(links.next, t, None)
    BY <1>1 DEF NewItem
  <2>2. links.next[t] = None /\ links.next \in [Link -> Link \cup {None}]
    BY <1>i, <1>l, <2>1, Distinct DEF Sound, Within, Typed
  <2>3. With(links.next, t, None) = links.next
    BY <2>2 DEF With
  <2>4. Holds(links'.next, lists', c)
    BY <2>1, <2>3
  <2>5. Lists' = c
    BY <1>c, <2>4
  <2> QED BY <1>c, <2>1, <2>4, <2>5 DEF Simulated, Abstract!Next, Abstract!NewItem
\* An item is taken out of its list, if it is in one.
<1>2. ASSUME NEW t \in Item, links' = remove(links, t), lists' = lists, t \in items,
             items' \in {items, items \ {t}}
      PROVE  Simulated
  <2>1. PICK d : d = [l \in List |-> Abstract!Removed(c[l], t)]
    BY ZenonT(100)
  <2>2. Holds(remove(links, t).next, lists, d)
    BY <1>i, <2>1, RemoveHolds, ZenonT(100)
  <2>3. Holds(links'.next, lists', d)
    BY <1>2, <2>2
  <2>4. Lists' = d
    BY <1>c, <2>3
  <2>5. Lists' = Abstract!Without(t)
    BY <1>c, <2>1, <2>4 DEF Abstract!Without
  <2>6. Abstract!Unlink(t) \/ Abstract!DestroyItem(t)
    BY <1>2, <2>5 DEF Abstract!Unlink, Abstract!DestroyItem
  <2> QED BY <2>3, <2>6 DEF Simulated, Abstract!Next
<1>3. ASSUME NEW t \in Item, DestroyItem(t) \/ RemoveItem(t) PROVE Simulated
  BY <1>2, <1>3 DEF DestroyItem, RemoveItem
<1>4. ASSUME NEW t \in Item, NEW u \in Item, MoveItem(t, u) PROVE Simulated
  <2>1. /\ t \notin items /\ u \in items /\ items' = items \cup {t} /\ lists' = lists
        /\ links' = Relink(links, t, u)
    BY <1>4 DEF MoveItem
  <2>2. links.next[t] = None /\ t # u
    BY <1>i, <1>l, <2>1, Distinct, ZenonT(100) DEF Sound, Within
  <2>3. PICK d : d = Renamed(c, t, u)
    OBVIOUS
  <2>4. Swapped(links.next, links'.next, t, u, links.prev[u])
    BY <1>i, <2>1, RelinkSwaps
  <2>5. Holds(links'.next, lists, d)
    <3>1. /\ Sound(links, LiveLink) /\ lists \in SUBSET List /\ Holds(links.next, lists, c)
          /\ t \in Item /\ u \in Item
      BY <1>i
    <3> QED BY ONLY <2>2, <2>3, <2>4, <3>1, RelinkHolds, ZenonT(100)
  <2>6. Holds(links'.next, lists', d)
    BY <2>1, <2>5
  <2>7. Lists' = d
    BY <1>c, <2>6
  <2>8. Abstract!MoveItem(t, u)
    BY <1>c, <2>1, <2>3, <2>7 DEF Abstract!MoveItem, Renamed
  <2> QED BY <2>6, <2>8 DEF Simulated, Abstract!Next
<1>5. ASSUME NEW l \in List, NEW t \in Item, PushBack(l, t) \/ PushFront(l, t)
      PROVE  Simulated
  <2>1. /\ l \in lists /\ t \in items /\ items' = items /\ lists' = lists
        /\ links' \in {place_after(links, t, m_head(l)), place_before(links, t, m_tail(l))}
    BY <1>5 DEF PushBack, PushFront
  <2>2. PICK b : b = [k \in List |-> Abstract!Removed(c[k], t)]
    BY ZenonT(100)
  <2>3. /\ Holds(place_after(links, t, m_head(l)).next, lists, [b EXCEPT ![l] = <<t>> \o b[l]])
        /\ Holds(place_before(links, t, m_tail(l)).next, lists, [b EXCEPT ![l] = b[l] \o <<t>>])
    <3>1. /\ Sound(links, LiveLink) /\ lists \in SUBSET List /\ Anchored(links, lists)
          /\ Holds(links.next, lists, c) /\ l \in lists /\ t \in Item
      BY <1>i, <2>1
    <3> QED BY ONLY <2>2, <3>1, PushHolds, ZenonT(100)
  <2>4. PICK d \in {[b EXCEPT ![l] = <<t>> \o b[l]], [b EXCEPT ![l] = b[l] \o <<t>>]} :
            Holds(links'.next, lists', d)
    BY <2>1, <2>3
  <2>5. Lists' = d
    BY <1>c, <2>4
  <2>6. b = Abstract!Without(t)
    BY <1>c, <2>2 DEF Abstract!Without
  <2>7. Abstract!Insert(t, l)
    BY <2>1, <2>4, <2>5, <2>6 DEF Abstract!Insert
  <2> QED BY <2>4, <2>7 DEF Simulated, Abstract!Next
<1>6. ASSUME NEW l \in List, PopFront(l) \/ PopBack(l) PROVE Simulated
  <2>1. /\ l \in lists /\ links.next[m_head(l)] # m_tail(l) /\ UNCHANGED <<items, lists>>
        /\ \E x \in {links.next[m_head(l)], links.prev[m_tail(l)]} : links' = remove(links, x)
    BY <1>6 DEF PopFront, PopBack, empty
  <2>2. links.next[m_head(l)] # None /\ links.prev[m_tail(l)] # None
    BY <1>i, <2>1 DEF Anchored
  <2>3. links.next[m_head(l)] \in Item /\ links.prev[m_tail(l)] \in Item
    BY <1>i, <2>1, <2>2, EndsAreItems
  <2>4. links.next[m_head(l)] \in items /\ links.prev[m_tail(l)] \in items
    <3>1. links.next[m_head(l)] \in LiveLink /\ links.prev[m_tail(l)] \in LiveLink
      BY <1>i, <2>2, Distinct DEF Sound, Within
    <3> QED BY <1>l, <2>3, <3>1
  <2>5. PICK x \in Item : links' = remove(links, x) /\ x \in items
    BY <2>1, <2>3, <2>4
  <2> QED BY <1>2, <2>1, <2>5
\* A list is constructed.
<1>7. ASSUME NEW l \in List, l \notin lists, lists' = lists \cup {l}, items' = items,
             links' = place_after(links, m_tail(l), m_head(l))
      PROVE  Holds(links'.next, lists', c) /\ c[l] = <<>>
  <2>1. PICK h, t : h = m_head(l) /\ t = m_tail(l) /\ h \in Link /\ t \in Link /\ h # t
    BY Distinct
  <2>2. Typed(links) /\ links.next[h] = None /\ links.next[t] = None /\ links.prev[t] = None
    BY <1>i, <1>l, <1>7, <2>1, Distinct DEF Sound, Within, Ends, LiveLink
  <2>3. \A y \in Link : links'.next[y] = IF y = h THEN t ELSE links.next[y]
    <3>1. links' = place_after(links, t, h)
      BY <1>7, <2>1
    <3> QED BY ONLY <2>1, <2>2, <3>1, FreshValue, SMTT(100)
  <2>4. PICK n, m : n = links.next /\ m = links'.next
    OBVIOUS
  <2>5. c[l] = <<>> /\ lists' \ {l} = lists \ {l}
    BY <1>t, <1>7
  <2>6. m[m_head(l)] = m_tail(l) /\ \A y \in Link : y # m_head(l) => m[y] = n[y]
    BY <2>1, <2>3, <2>4
  <2>7. Holds(n, lists, c) /\ lists \in SUBSET List /\ lists' \in SUBSET List /\ l \in List
    BY <1>i, <1>i2, <2>4
  <2>8. Holds(m, lists', c)
    BY ONLY <2>5, <2>6, <2>7, SentinelHolds, ZenonT(100)
  <2> QED BY <2>4, <2>5, <2>8
<1>8. ASSUME NEW l \in List, NewList(l) PROVE Simulated
  <2>1. /\ l \notin lists /\ lists' = lists \cup {l} /\ items' = items
        /\ links' = place_after(links, m_tail(l), m_head(l))
    BY <1>8 DEF NewList
  <2>2. Holds(links'.next, lists', c)
    BY <1>7, <2>1, ZenonT(100)
  <2>3. Lists' = c
    BY <1>c, <2>2
  <2> QED BY <1>c, <2>1, <2>2, <2>3 DEF Simulated, Abstract!Next, Abstract!NewList
\* A list that is new or empty takes over the items of another.
<1>9. ASSUME NEW l \in List, NEW k \in lists, l # k, c[l] = <<>>, ~empty(k),
             links' = do_move(links, l, k), lists' = lists \cup {l}, items' = items
      PROVE  Simulated
  <2>1. PICK n, m : n = links.next /\ m = links'.next
    OBVIOUS
  <2>2. PICK d : d = [c EXCEPT ![l] = c[k], ![k] = <<>>]
    BY ZenonT(100)
  <2>3. Holds(n, lists, c) /\ lists \in SUBSET List /\ l \in List /\ k \in lists /\ l # k
    BY <1>i, <1>9, <2>1
  <2>4. links.next[m_head(k)] # m_tail(k)
    BY <1>9 DEF empty
  <2>5. c[l] = <<>> /\ c[k] # <<>> /\ lists' = lists \cup {l}
    <3>1. n[m_head(k)] # m_tail(k)
      BY <2>1, <2>4
    <3>2. n[m_head(k)] = m_tail(k) <=> c[k] = <<>>
      BY ONLY <2>3, EmptyHolds, ZenonT(100)
    <3> QED BY <1>9, <3>1, <3>2
  <2>6. Handed(n, m, l, k, links.prev[m_tail(k)])
    <3>1. Handed(links.next, do_move(links, l, k).next, l, k, links.prev[m_tail(k)])
      BY <1>i, <1>9, <2>4, MoveHands, ZenonT(100)
    <3> QED BY <1>9, <2>1, <3>1
  <2>7. Holds(m, lists', d)
    BY ONLY <2>2, <2>3, <2>5, <2>6, MoveHolds, ZenonT(100)
  <2>8. Holds(links'.next, lists', d)
    BY <2>1, <2>7
  <2>9. Lists' = d
    BY <1>c, <2>8
  <2>10. Abstract!TakeOver(l, k)
    BY <1>c, <1>9, <2>2, <2>9 DEF Abstract!TakeOver
  <2>11. k \in List
    BY <1>i
  <2> QED BY <2>8, <2>10, <2>11 DEF Simulated, Abstract!Next
<1>10. ASSUME NEW l \in List, NEW k \in List, MoveList(l, k) PROVE Simulated
  <2>1. l \notin lists /\ k \in lists /\ lists' = lists \cup {l} /\ items' = items /\ l # k
    BY <1>10 DEF MoveList
  <2>2. c[l] = <<>>
    BY <1>t, <2>1
  <2>3. CASE empty(k)
    <3>1. links' = place_after(links, m_tail(l), m_head(l))
      BY <1>10, <2>3 DEF MoveList
    <3>2. Holds(links'.next, lists', c)
      BY <1>7, <2>1, <3>1, ZenonT(100)
    <3>3. Lists' = c
      BY <1>c, <3>2
    <3>4. Abstract!NewList(l)
      BY <1>c, <2>1, <3>3 DEF Abstract!NewList
    <3> QED BY <3>2, <3>4 DEF Simulated, Abstract!Next
  <2>4. CASE ~empty(k)
    <3>1. links' = do_move(links, l, k)
      BY <1>10, <2>4 DEF MoveList
    <3> QED BY <1>9, <2>1, <2>2, <2>4, <3>1
  <2> QED BY <2>3, <2>4
<1>11. ASSUME NEW b \in Call, BeginClear(b) PROVE Simulated
  BY <1>s, <1>11 DEF BeginClear
<1>12. ASSUME ClearLoop PROVE Simulated
  <2>1. call.list \in List
    BY <1>12, <1>i, <1>y DEF ClearLoop
  <2> QED BY <1>6, <1>12, <2>1 DEF ClearLoop
<1>13. ASSUME EndClear PROVE Simulated
  <2>1. /\ call # None /\ empty(call.list) /\ items' = items
        /\ call.list \in lists /\ call.other \in lists
    BY <1>13, <1>y DEF EndClear
  <2>2. PICK l \in lists, k \in lists : l = call.list /\ k = call.other
    BY <2>1
  <2>3. l \in List /\ c[l] = <<>> /\ links.next[m_head(l)] = m_tail(l)
    <3>1. links.next[m_head(l)] = m_tail(l) <=> c[l] = <<>>
      <4>1. lists \in SUBSET List /\ Holds(links.next, lists, c) /\ l \in lists
        BY <1>i
      <4> QED BY ONLY <4>1, EmptyHolds, ZenonT(100)
    <3> QED BY <1>i, <2>1, <2>2, <3>1 DEF empty
  <2>4. CASE call.op = "destroy" /\ lists' = lists \ {l}
             /\ links' = remove(remove(links, m_tail(l)), m_head(l))
    <3>1. PICK n, m : n = links.next /\ m = links'.next
      OBVIOUS
    <3>2. \A y \in Link : y # m_head(l) => m[y] = n[y]
      BY <1>i, <2>3, <2>4, <3>1, DestroyLeaves
    <3>3. /\ Holds(n, lists, c) /\ lists \in SUBSET List /\ lists' \in SUBSET List
          /\ l \in List /\ c[l] = <<>> /\ lists' \ {l} = lists \ {l} /\ l \notin lists'
      BY <1>i, <1>i2, <2>3, <2>4, <3>1
    <3>4. Holds(m, lists', c)
      BY ONLY <3>2, <3>3, SentinelHolds, ZenonT(100)
    <3>5. Holds(links'.next, lists', c)
      BY <3>1, <3>4
    <3>6. Lists' = c
      BY <1>c, <3>5
    <3>7. Abstract!DestroyList(l)
      BY <1>c, <2>1, <2>3, <2>4, <3>6 DEF Abstract!DestroyList
    <3> QED BY <2>3, <3>5, <3>7 DEF Simulated, Abstract!Next
  <2>5. CASE lists' = lists /\ links' = links
    BY <1>s, <2>1, <2>5
  <2>6. CASE ~empty(k) /\ lists' = lists /\ links' = do_move(links, l, k)
    <3>1. l # k /\ lists' = lists \cup {l}
      BY <2>1, <2>2, <2>6
    <3> QED BY <1>9, <2>1, <2>3, <2>6, <3>1
  <2> QED BY <1>13, <2>2, <2>4, <2>5, <2>6 DEF EndClear
<1>14. CASE UNCHANGED vars
  BY <1>s, <1>14 DEF vars
<1> QED BY <1>1, <1>3, <1>4, <1>5, <1>6, <1>8, <1>10, <1>11, <1>12, <1>13, <1>14 DEF Next

-----------------------------------------------------------------------------
(* A list holds one sequence, and Lists reads it.                          *)

INSTANCE FiniteSetTheorems

\* A set of numbers that is not empty has a least one.
LEMMA LeastNumber ==
    ASSUME NEW T, T \subseteq Nat, T # {}
    PROVE  \E i \in T : \A j \in T : ~(j < i)
<1> DEFINE R == {p \in Nat \X Nat : p[1] < p[2]}
<1>1. IsWellFoundedOn(R, Nat)
  BY NatLessThanWellFounded DEF OpToRel
<1>2. PICK i \in T : \A j \in T : ~(<<j, i>> \in R)
  <2> HIDE DEF R
  <2> QED BY <1>1, WFMin, ZenonT(100)
<1> QED BY <1>2, ZenonT(100)

\* The two say the same of a sequence of items.
LEMMA ChainLinked ==
    ASSUME NEW n, NEW l, NEW w \in Seq(Item)
    PROVE  Chain(n, l, w) <=> Linked(n, l, w)
<1>1. Len(w) \in Nat
  OBVIOUS
<1>2. ASSUME Chain(n, l, w) PROVE Linked(n, l, w)
  <2>1. \A i \in 0 .. Len(w) :
            n[IF i = 0 THEN m_head(l) ELSE w[i]] =
                IF i = Len(w) THEN m_tail(l) ELSE w[i + 1]
    BY <1>2 DEF Chain
  <2>2. n[m_head(l)] = IF 0 = Len(w) THEN m_tail(l) ELSE w[1]
    BY <1>1, <2>1
  <2>3. Len(w) > 0 => n[w[Len(w)]] = m_tail(l)
    BY <1>1, <2>1
  <2>4. \A i \in 1 .. (Len(w) - 1) : n[w[i]] = w[i + 1]
    BY <1>1, <2>1
  <2> QED BY <1>1, <2>2, <2>3, <2>4 DEF Linked
<1>3. ASSUME Linked(n, l, w) PROVE Chain(n, l, w)
  <2> SUFFICES ASSUME NEW i \in 0 .. Len(w)
               PROVE  n[IF i = 0 THEN m_head(l) ELSE w[i]] =
                          IF i = Len(w) THEN m_tail(l) ELSE w[i + 1]
    BY DEF Chain
  <2> QED BY <1>1, <1>3 DEF Linked
<1> QED BY <1>2, <1>3

\* From m_head on there is only one way to go: the first difference of two
\* chains would be that of the successors of one link.
LEMMA OneChain ==
    ASSUME NEW n, NEW l \in List, NEW w \in Seq(Item), NEW v \in Seq(Item),
           Linked(n, l, w), Linked(n, l, v)
    PROVE  w = v
<1>1. Len(w) \in Nat /\ Len(v) \in Nat
  OBVIOUS
<1>2. /\ \A i \in 1 .. Len(w) : w[i] \in Item
      /\ \A i \in 1 .. Len(v) : v[i] \in Item
  OBVIOUS
<1>3. ASSUME NEW i \in Nat, 0 < i, i <= Len(w), i <= Len(v) PROVE w[i] = v[i]
  <2> DEFINE T == {j \in Nat : 0 < j /\ j <= Len(w) /\ j <= Len(v) /\ w[j] # v[j]}
  <2>1. SUFFICES ASSUME T # {} PROVE FALSE
    BY <1>3
  <2>2. PICK j \in T : \A k \in T : ~(k < j)
    <3>1. T \subseteq Nat
      OBVIOUS
    <3> HIDE DEF T
    <3> QED BY <2>1, <3>1, LeastNumber, ZenonT(100)
  <2>3. j \in Nat /\ 0 < j /\ j <= Len(w) /\ j <= Len(v) /\ w[j] # v[j]
    OBVIOUS
  <2>4. CASE j = 1
    BY <1>1, <2>3, <2>4 DEF Linked
  <2>5. CASE j > 1
    <3>1. /\ j - 1 \in Nat /\ 0 < j - 1 /\ j - 1 < j /\ (j - 1) + 1 = j
          /\ j - 1 \in 1 .. (Len(w) - 1) /\ j - 1 \in 1 .. (Len(v) - 1)
      BY <1>1, <2>3, <2>5
    <3>2. w[j - 1] = v[j - 1]
      BY <1>1, <2>2, <2>3, <3>1
    <3>3. n[w[j - 1]] = w[j] /\ n[v[j - 1]] = v[j]
      BY <3>1 DEF Linked
    <3> QED BY <2>3, <3>2, <3>3
  <2> QED BY <2>3, <2>4, <2>5
<1>4. m_tail(l) \notin Item
  BY Distinct
<1>5. ~(Len(w) < Len(v))
  <2> SUFFICES ASSUME Len(w) < Len(v) PROVE FALSE
    OBVIOUS
  <2>1. CASE Len(w) = 0
    BY <1>1, <1>2, <1>4, <2>1 DEF Linked
  <2>2. CASE Len(w) > 0
    <3>1. Len(w) \in 1 .. (Len(v) - 1) /\ Len(w) + 1 \in 1 .. Len(v)
      BY <1>1, <2>2
    <3>2. n[w[Len(w)]] = m_tail(l) /\ n[v[Len(w)]] = v[Len(w) + 1]
      BY <2>2, <3>1 DEF Linked
    <3>3. w[Len(w)] = v[Len(w)]
      BY <1>1, <1>3, <2>2
    <3> QED BY <1>2, <1>4, <3>1, <3>2, <3>3
  <2> QED BY <1>1, <2>1, <2>2
<1>6. ~(Len(v) < Len(w))
  <2> SUFFICES ASSUME Len(v) < Len(w) PROVE FALSE
    OBVIOUS
  <2>1. CASE Len(v) = 0
    BY <1>1, <1>2, <1>4, <2>1 DEF Linked
  <2>2. CASE Len(v) > 0
    <3>1. Len(v) \in 1 .. (Len(w) - 1) /\ Len(v) + 1 \in 1 .. Len(w)
      BY <1>1, <2>2
    <3>2. n[v[Len(v)]] = m_tail(l) /\ n[w[Len(v)]] = w[Len(v) + 1]
      BY <2>2, <3>1 DEF Linked
    <3>3. w[Len(v)] = v[Len(v)]
      BY <1>1, <1>3, <2>2
    <3> QED BY <1>2, <1>4, <3>1, <3>2, <3>3
  <2> QED BY <1>1, <2>1, <2>2
<1>7. Len(w) = Len(v)
  BY <1>1, <1>5, <1>6
<1>8. \A i \in 1 .. Len(w) : w[i] = v[i]
  BY <1>1, <1>3, <1>7
<1> QED BY <1>7, <1>8

\* A sequence without repetition is not longer than there are items.
LEMMA ShortEnough ==
    ASSUME NEW w \in Seq(Item), \A i, j \in 1 .. Len(w) : w[i] = w[j] => i = j
    PROVE  w \in UNION {[1 .. n -> Item] : n \in 0 .. Cardinality(Item)}
<1>1. /\ Len(w) \in Nat /\ w \in [1 .. Len(w) -> Item] /\ IsFiniteSet(Item)
  BY ListAssumption
<1>2. w \in Injection(1 .. Len(w), Item)
  BY <1>1 DEF Injection, IsInjective
<1>3. Cardinality(1 .. Len(w)) <= Cardinality(Item)
  BY <1>1, <1>2, FS_Injection, ZenonT(100)
<1>4. Cardinality(1 .. Len(w)) = Len(w)
  BY <1>1, FS_Interval
<1>5. Cardinality(Item) \in Nat
  BY <1>1, FS_CardinalityType
<1>6. Len(w) \in 0 .. Cardinality(Item)
  BY <1>1, <1>3, <1>4, <1>5
<1> QED BY <1>1, <1>6

\* Contents reads those sequences off the links.
LEMMA ContentsRead ==
    ASSUME NEW n, NEW ls \in SUBSET List, NEW c, Holds(n, ls, c),
           \A l \in List \ ls : n[m_head(l)] = None
    PROVE  [l \in List |-> Contents(n, l)] = c
<1>1. ASSUME NEW l \in List, NEW v \in Chains(n, l)
      PROVE  v \in Seq(Item) /\ Linked(n, l, v)
  <2>1. v \in UNION {[1 .. i -> Item] : i \in 0 .. Cardinality(Item)} /\ Chain(n, l, v)
    BY DEF Chains
  <2>2. PICK m \in 0 .. Cardinality(Item) : v \in [1 .. m -> Item]
    BY <2>1
  <2>3. m \in Nat
    BY ListAssumption, FS_CardinalityType
  <2>4. v \in Seq(Item)
    BY <2>2, <2>3
  <2> QED BY <2>1, <2>4, ChainLinked, ZenonT(100)
<1>2. ASSUME NEW l \in ls PROVE Contents(n, l) = c[l]
  <2>1. l \in List
    OBVIOUS
  <2>2. c[l] \in Seq(Item) /\ Linked(n, l, c[l])
    BY <2>1 DEF Holds
  <2>3. \A i, j \in 1 .. Len(c[l]) : c[l][i] = c[l][j] => i = j
    BY <2>1 DEF Holds
  <2>4. c[l] \in Chains(n, l)
    BY <2>2, <2>3, ShortEnough, ChainLinked, ZenonT(100) DEF Chains
  <2>5. ASSUME NEW v \in Chains(n, l) PROVE v = c[l]
    BY <1>1, <2>1, <2>2, OneChain, ZenonT(100)
  <2> QED BY <2>4, <2>5 DEF Contents
<1>3. ASSUME NEW l \in List \ ls PROVE Contents(n, l) = c[l]
  <2>1. ASSUME NEW v \in Chains(n, l) PROVE FALSE
    <3>1. v \in Seq(Item) /\ Linked(n, l, v)
      BY <1>1
    <3>2. Len(v) \in Nat /\ (Len(v) > 0 => v[1] \in Item)
      BY <3>1
    <3>3. m_tail(l) # None /\ None \notin Item /\ n[m_head(l)] = None
      BY Distinct
    <3> QED BY <3>1, <3>2, <3>3 DEF Linked
  <2>2. Contents(n, l) = <<>>
    BY <2>1 DEF Contents
  <2> QED BY <2>2 DEF Holds
<1>4. c \in [List -> Seq(Item)]
  BY DEF Holds
<1>5. \A l \in List : Contents(n, l) = c[l]
  BY <1>2, <1>3
<1> QED BY <1>4, <1>5

\* The sequences of a state that satisfies the invariant.
LEMMA ListsRead ==
    ASSUME NEW s, NEW ls \in SUBSET List, NEW live, Sound(s, live),
           \A l \in List \ ls : m_head(l) \notin live, NEW c, Holds(s.next, ls, c)
    PROVE  [l \in List |-> Contents(s.next, l)] = c
<1>1. \A l \in List \ ls : s.next[m_head(l)] = None
  BY Distinct DEF Sound, Within
<1>2. PICK n : n = s.next
  OBVIOUS
<1>3. Holds(n, ls, c) /\ \A l \in List \ ls : n[m_head(l)] = None
  BY <1>1, <1>2
<1>4. [l \in List |-> Contents(n, l)] = c
  BY <1>3, ContentsRead, ZenonT(100)
<1> QED BY <1>2, <1>4

\* There are sequences that the lists hold.
ListsInv == LinkInv /\ \E c : Holds(links.next, lists, c)

\* Without lists, every sequence is empty.
LEMMA ListsInvInit == Init => ListsInv /\ Abstract!Init
<1> SUFFICES ASSUME Init PROVE ListsInv /\ Abstract!Init
  OBVIOUS
<1>1. LinkInv
  BY LinkInvInit
<1>2. /\ items = {} /\ lists = {} /\ links.next = [x \in Link |-> None]
  BY DEF Init
<1>3. PICK c : c = [l \in List |-> <<>>]
  BY ZenonT(100)
<1>4. Holds(links.next, lists, c)
  <2>1. c \in [List -> Seq(Item)] /\ \A l \in List : c[l] = <<>> /\ Len(c[l]) = 0
    BY <1>3
  <2>2. \A t \in Item : links.next[t] = None
    BY <1>2, Distinct
  <2>3. \A l \in List : 1 .. Len(c[l]) = {}
    BY <2>1
  <2> QED BY <1>2, <2>1, <2>2, <2>3 DEF Holds
<1>5. \A l \in List \ lists : m_head(l) \notin LiveLink
  BY <1>2 DEF LiveLink
<1>6. Sound(links, LiveLink) /\ lists \in SUBSET List
  BY <1>1 DEF LinkInv, TypeOK
<1>7. Lists = c
  <2>1. [l \in List |-> Contents(links.next, l)] = c
    BY ONLY <1>4, <1>5, <1>6, ListsRead, ZenonT(100)
  <2> QED BY <2>1 DEF Lists
<1> QED BY <1>1, <1>2, <1>3, <1>4, <1>7 DEF ListsInv, Abstract!Init

\* The invariant is inductive, and a step on the links is one on the sequences.
LEMMA ListsInvStep ==
    ListsInv /\ [Next]_vars => ListsInv' /\ [Abstract!Next]_(Abstract!vars)
<1> SUFFICES ASSUME ListsInv, [Next]_vars
             PROVE  ListsInv' /\ [Abstract!Next]_(Abstract!vars)
  OBVIOUS
<1>1. LinkInv /\ LinkInv'
  BY LinkInvStep DEF ListsInv
<1>2. PICK c : Holds(links.next, lists, c)
  BY DEF ListsInv
<1>3. /\ Sound(links, LiveLink) /\ Sound(links', LiveLink')
      /\ lists \in SUBSET List /\ lists' \in SUBSET List
      /\ \A l \in List \ lists : m_head(l) \notin LiveLink
      /\ \A l \in List \ lists' : m_head(l) \notin LiveLink'
  BY <1>1, Distinct DEF LinkInv, TypeOK, LiveLink
<1>4. Lists = c
  <2>1. [l \in List |-> Contents(links.next, l)] = c
    BY ONLY <1>2, <1>3, ListsRead, ZenonT(100)
  <2> QED BY <2>1 DEF Lists
<1>5. ASSUME NEW d, Holds(links'.next, lists', d) PROVE Lists' = d
  <2>1. [l \in List |-> Contents(links'.next, l)] = d
    BY <1>3, <1>5, ListsRead, ZenonT(100)
  <2> QED BY <2>1 DEF Lists
<1>6. Simulated
  BY <1>1, <1>2, <1>4, <1>5, ListsStep
<1> QED BY <1>1, <1>6 DEF ListsInv, Simulated

\* The intrusive lists implement sequences of items: whatever is linked, moved
\* and destroyed, every operation has the effect on the sequences that its name
\* says, and none on the other lists.
THEOREM ListsAreSequences == Spec => ImplementsLists
<1>1. QED
  BY ListsInvInit, ListsInvStep, PTL DEF Spec, ImplementsLists, Abstract!Spec

\* in_list(), which looks at the item's own link only, holds exactly of the items
\* that some list has.
THEOREM ListInListExact == Spec => []InListExact
<1>1. ListsInv => InListExact
  <2> SUFFICES ASSUME ListsInv, NEW t \in items
               PROVE  in_list(t) <=> \E l \in lists : \E i \in DOMAIN Lists[l] : Lists[l][i] = t
    BY DEF InListExact
  <2>1. PICK c : Holds(links.next, lists, c)
    BY DEF ListsInv
  <2>2. /\ Sound(links, LiveLink) /\ lists \in SUBSET List /\ t \in Item
        /\ \A l \in List \ lists : m_head(l) \notin LiveLink
    BY Distinct DEF ListsInv, LinkInv, TypeOK, LiveLink
  <2>3. Lists = c
    BY <2>1, <2>2, ListsRead, ZenonT(100) DEF Lists
  <2>4. in_list(t) <=> links.next[t] # None
    BY <2>2 DEF in_list, Sound, Paired
  <2>5. \A l \in List : /\ c[l] \in Seq(Item)
                        /\ DOMAIN c[l] = 1 .. Len(c[l])
    BY <2>1 DEF Holds
  <2>6. ASSUME links.next[t] # None PROVE \E l \in lists : \E i \in DOMAIN c[l] : c[l][i] = t
    <3>1. PICK l \in List : \E i \in 1 .. Len(c[l]) : c[l][i] = t
      BY <2>1, <2>2, <2>6 DEF Holds
    <3>2. l \in lists
      BY <2>1, <3>1 DEF Holds
    <3> QED BY <2>5, <3>1, <3>2
  <2>7. ASSUME NEW l \in lists, NEW i \in DOMAIN c[l], c[l][i] = t
        PROVE  links.next[t] # None
    <3>1. l \in List
      BY <2>2
    <3>2. i \in 1 .. Len(c[l])
      BY <2>5, <3>1
    <3>3. HeldAt(links.next, lists, c, l, i)
      BY <2>1, <2>2, <3>1, <3>2, HeldFacts, ZenonT(100)
    <3> QED BY <2>7, <3>3 DEF HeldAt
  <2> QED BY <2>3, <2>4, <2>6, <2>7
<1>2. QED
  BY ListsInvInit, ListsInvStep, <1>1, PTL DEF Spec
=============================================================================
