------------------------ MODULE IntrusiveList_proofs ------------------------
(***************************************************************************)
(* The links of intrusive lists stay sound for any items and lists.        *)
(***************************************************************************)
EXTENDS IntrusiveList, Integers, TLAPS

USE SMTT(100), ZenonT(100)

\* The parts of the inductive invariant, of any value s of links, any set live
\* of links that exist and any set ls of lists that exist.
Typed(s) ==
    s \in [next : [Link -> Link \cup {None}], prev : [Link -> Link \cup {None}],
           owner : [Link -> Item \cup {None}]]

Mirror(s) == \A x, y \in Link : s.next[x] = y <=> s.prev[y] = x

\* Nothing comes before m_head or after m_tail.
Ends(s) == \A l \in List : s.prev[m_head(l)] = None /\ s.next[m_tail(l)] = None

\* An item has two neighbours or none.
Paired(s) == \A t \in Item : s.next[t] = None <=> s.prev[t] = None

Within(s, live) ==
    \A x \in Link : /\ s.next[x] # None => x \in live /\ s.next[x] \in live
                    /\ s.prev[x] # None => x \in live /\ s.prev[x] \in live

Anchored(s, ls) ==
    \A l \in ls : s.next[m_head(l)] # None /\ s.prev[m_tail(l)] # None

Owned(s, its) == \A t \in its : s.owner[t] = t

\* Links can be numbered so that numbers grow along m_next: there is no cycle.
Numbers(s, pos) ==
    /\ pos \in [Link -> Int]
    /\ \A x \in Link : s.next[x] # None => pos[x] < pos[s.next[x]]

Acyclic(s) == \E pos : Numbers(s, pos)

\* Each link has a home list, that of its neighbours: m_next never leads from
\* the m_head of one list to the m_tail of another.
Homes(s, home) ==
    /\ home \in [Link -> List \cup {None}]
    /\ \A l \in List : home[m_head(l)] = l /\ home[m_tail(l)] = l
    /\ \A x \in Link : s.next[x] # None => home[x] = home[s.next[x]]

Homed(s) == \E home : Homes(s, home)

Sound(s, live) ==
    /\ Typed(s) /\ Mirror(s) /\ Ends(s) /\ Paired(s) /\ Within(s, live)
    /\ Acyclic(s) /\ Homed(s)

LinkInv ==
    /\ TypeOK
    /\ Sound(links, LiveLink)
    /\ Anchored(links, lists)
    /\ Owned(links, items)

-----------------------------------------------------------------------------
\* What holds of m_next and m_prev holds however the owners are set.
LEMMA SameRings ==
    ASSUME NEW s, NEW r, s.next = r.next, s.prev = r.prev
    PROVE  /\ Mirror(s) => Mirror(r)
           /\ Ends(s) => Ends(r)
           /\ Paired(s) => Paired(r)
           /\ Acyclic(s) => Acyclic(r)
           /\ Homed(s) => Homed(r)
<1>1. (Mirror(s) => Mirror(r)) /\ (Ends(s) => Ends(r)) /\ (Paired(s) => Paired(r))
  BY DEF Mirror, Ends, Paired
<1>2. ASSUME NEW pos, Numbers(s, pos) PROVE Numbers(r, pos)
  BY <1>2, ZenonT(100) DEF Numbers
<1>3. ASSUME NEW home, Homes(s, home) PROVE Homes(r, home)
  BY <1>3, ZenonT(100) DEF Homes
<1>4. (Acyclic(s) => Acyclic(r)) /\ (Homed(s) => Homed(r))
  BY <1>2, <1>3, ZenonT(100) DEF Acyclic, Homed
<1> QED BY <1>1, <1>4

\* The links of the sentinels and of the items are all different.
LEMMA Distinct ==
    /\ \A l \in List : m_head(l) \in Link /\ m_tail(l) \in Link
    /\ \A l \in List : m_head(l) \notin Item /\ m_tail(l) \notin Item
    /\ \A l, k \in List : m_head(l) # m_tail(k)
    /\ \A l, k \in List : m_head(l) = m_head(k) => l = k
    /\ \A l, k \in List : m_tail(l) = m_tail(k) => l = k
    /\ Item \subseteq Link
    /\ None \notin Link
    /\ None \notin Call
<1>1. \A l, k \in List : m_head(l) # m_tail(k)
  BY DEF m_head, m_tail
<1>2. \A l, k \in List : m_head(l) = m_head(k) => l = k
  BY DEF m_head
<1>3. \A l, k \in List : m_tail(l) = m_tail(k) => l = k
  BY DEF m_tail
<1>4. QED
  BY <1>1, <1>2, <1>3, ListAssumption DEF Link

\* remove(): the neighbours of x become neighbours, x has none.
LEMMA RemoveValue ==
    ASSUME NEW s, Typed(s), NEW x \in Link
    PROVE  /\ Typed(remove(s, x))
           /\ \A y \in Link : remove(s, x).next[y] =
                  IF y = x THEN None ELSE IF y = s.prev[x] THEN s.next[x] ELSE s.next[y]
           /\ \A y \in Link : remove(s, x).prev[y] =
                  IF y = x THEN None ELSE IF y = s.next[x] THEN s.prev[x] ELSE s.prev[y]
           /\ remove(s, x).owner = s.owner
<1> DEFINE M == Link \cup {None}
           n1 == With(s.next, s.prev[x], s.next[x])
           n2 == With(n1, x, None)
           p1 == With(s.prev, s.next[x], s.prev[x])
           p2 == With(p1, x, None)
<1>0. /\ s.next \in [Link -> M] /\ s.prev \in [Link -> M]
      /\ s.owner \in [Link -> Item \cup {None}]
  BY DEF Typed
<1>1. /\ n1 \in [Link -> M]
      /\ \A y \in Link : n1[y] = IF y = s.prev[x] THEN s.next[x] ELSE s.next[y]
  <2>1. s.next[x] \in M
    BY <1>0
  <2>2. QED
    BY <1>0, <2>1 DEF With
<1>2. /\ n2 \in [Link -> M]
      /\ \A y \in Link : n2[y] = IF y = x THEN None ELSE n1[y]
  <2>1. None \in M
    OBVIOUS
  <2>2. QED
    BY <1>1, <2>1 DEF With
<1>3. /\ p1 \in [Link -> M]
      /\ \A y \in Link : p1[y] = IF y = s.next[x] THEN s.prev[x] ELSE s.prev[y]
  <2>1. s.prev[x] \in M
    BY <1>0
  <2>2. QED
    BY <1>0, <2>1 DEF With
<1>4. /\ p2 \in [Link -> M]
      /\ \A y \in Link : p2[y] = IF y = x THEN None ELSE p1[y]
  <2>1. None \in M
    OBVIOUS
  <2>2. QED
    BY <1>3, <2>1 DEF With
<1>5. remove(s, x) = [next |-> n2, prev |-> p2, owner |-> s.owner]
  BY DEF remove
<1> HIDE DEF n1, n2, p1, p2
<1>6. QED
  BY <1>0, <1>1, <1>2, <1>3, <1>4, <1>5 DEF Typed

\* What follows in a sound state from the values of the neighbours of a link.
LEMMA Neighbours ==
    ASSUME NEW s, NEW live, Sound(s, live), NEW x \in Link
    PROVE  /\ s.next[x] \in Link \cup {None} /\ s.prev[x] \in Link \cup {None}
           /\ s.next[x] # None => s.prev[s.next[x]] = x
           /\ s.prev[x] # None => s.next[s.prev[x]] = x
           /\ s.next[x] # x /\ s.prev[x] # x
           /\ s.next[x] # None => s.next[x] # s.prev[x]
<1>1. s.next[x] \in Link \cup {None} /\ s.prev[x] \in Link \cup {None}
  BY DEF Sound, Typed
<1>2. /\ s.next[x] # None => s.prev[s.next[x]] = x
      /\ s.prev[x] # None => s.next[s.prev[x]] = x
  BY <1>1 DEF Sound, Mirror
<1>3. PICK pos : Numbers(s, pos)
  BY DEF Sound, Acyclic
<1>4. \A y \in Link : s.next[y] # None => pos[y] < pos[s.next[y]]
  BY <1>3 DEF Numbers
<1>5. /\ pos[x] \in Int
      /\ s.next[x] # None => pos[s.next[x]] \in Int
      /\ s.prev[x] # None => pos[s.prev[x]] \in Int
  BY <1>1, <1>3 DEF Numbers
<1>7. x # None
  BY Distinct
<1>6. /\ s.next[x] # None => pos[x] < pos[s.next[x]]
      /\ s.prev[x] # None => pos[s.prev[x]] < pos[x]
  BY <1>1, <1>2, <1>4, <1>7
<1>8. s.next[x] # x
  <2>1. SUFFICES ASSUME s.next[x] = x PROVE FALSE
    OBVIOUS
  <2>2. pos[x] < pos[x]
    BY <1>6, <1>7, <2>1
  <2>3. QED
    BY <1>5, <2>2
<1>9. s.prev[x] # x
  <2>1. SUFFICES ASSUME s.prev[x] = x PROVE FALSE
    OBVIOUS
  <2>2. pos[x] < pos[x]
    BY <1>6, <1>7, <2>1
  <2>3. QED
    BY <1>5, <2>2
<1>10. s.next[x] # None => s.next[x] # s.prev[x]
  <2>1. SUFFICES ASSUME s.next[x] # None, s.next[x] = s.prev[x] PROVE FALSE
    OBVIOUS
  <2>2. DEFINE n == s.next[x]
  <2>3. pos[x] < pos[n] /\ pos[n] < pos[x] /\ pos[n] \in Int
    BY <1>5, <1>6, <2>1
  <2> HIDE DEF n
  <2>4. QED
    BY <1>5, <2>3
<1>11. QED
  BY <1>1, <1>2, <1>8, <1>9, <1>10

\* remove() on the link of an item keeps links sound, and the item may then be
\* destroyed.
LEMMA RemoveSound ==
    ASSUME NEW s, NEW live, Sound(s, live), NEW t \in Item
    PROVE  Sound(remove(s, t), live \ {t})
<1> DEFINE r == remove(s, t)
<1>t. t \in Link /\ None \notin Link
  BY Distinct
<1>v. /\ Typed(r)
      /\ \A y \in Link : r.next[y] =
             IF y = t THEN None ELSE IF y = s.prev[t] THEN s.next[t] ELSE s.next[y]
      /\ \A y \in Link : r.prev[y] =
             IF y = t THEN None ELSE IF y = s.next[t] THEN s.prev[t] ELSE s.prev[y]
  BY <1>t, RemoveValue DEF Sound
<1>n. /\ s.next[t] \in Link \cup {None} /\ s.prev[t] \in Link \cup {None}
      /\ s.next[t] # None => s.prev[s.next[t]] = t
      /\ s.prev[t] # None => s.next[s.prev[t]] = t
      /\ s.next[t] # t /\ s.prev[t] # t
      /\ s.next[t] # None => s.next[t] # s.prev[t]
  BY <1>t, Neighbours
<1>p. s.next[t] = None <=> s.prev[t] = None
  BY DEF Sound, Paired
<1> HIDE DEF r
<1>1. Mirror(r)
  <2>1. \A x, y \in Link : s.next[x] = y <=> s.prev[y] = x
    BY DEF Sound, Mirror
  <2>2. QED
    BY <1>t, <1>v, <1>n, <1>p, <2>1 DEF Mirror
<1>2. Ends(r)
  <2>1. \A l \in List : s.prev[m_head(l)] = None /\ s.next[m_tail(l)] = None
    BY DEF Sound, Ends
  <2>2. QED
    BY <1>t, <1>v, <1>n, <1>p, <2>1, Distinct DEF Ends
<1>3. Paired(r)
  <2>1. \A u \in Item : s.next[u] = None <=> s.prev[u] = None
    BY DEF Sound, Paired
  <2>2. QED
    BY <1>t, <1>v, <1>n, <1>p, <2>1, Distinct DEF Paired
<1>4. Within(r, live \ {t})
  <2>1. \A x \in Link : /\ s.next[x] # None => x \in live /\ s.next[x] \in live
                        /\ s.prev[x] # None => x \in live /\ s.prev[x] \in live
    BY DEF Sound, Within
  <2>2. \A x, y \in Link : s.next[x] = y <=> s.prev[y] = x
    BY DEF Sound, Mirror
  <2>3. QED
    BY <1>t, <1>v, <1>n, <1>p, <2>1, <2>2 DEF Within, Typed
<1>5. Acyclic(r)
  <2>1. PICK pos : Numbers(s, pos)
    BY DEF Sound, Acyclic
  <2>2. \A x \in Link : s.next[x] # None => pos[x] < pos[s.next[x]]
    BY <2>1 DEF Numbers
  <2>3. pos \in [Link -> Int]
    BY <2>1 DEF Numbers
  <2>4. ASSUME NEW x \in Link, r.next[x] # None
        PROVE  pos[x] < pos[r.next[x]]
    <3>1. CASE x = s.prev[t]
      <4>1. s.next[x] = t /\ r.next[x] = s.next[t] /\ s.next[t] \in Link
        BY <1>v, <1>n, <1>t, <2>4, <3>1
      <4>2. pos[x] < pos[t] /\ pos[t] < pos[s.next[t]]
        BY <4>1, <2>2, <1>t
      <4>3. pos[x] \in Int /\ pos[t] \in Int /\ pos[s.next[t]] \in Int
        BY <2>3, <4>1, <1>t
      <4>4. QED
        BY <4>1, <4>2, <4>3
    <3>2. CASE x # s.prev[t]
      BY <1>v, <2>2, <2>4, <3>2
    <3>3. QED
      BY <3>1, <3>2
  <2>5. Numbers(r, pos)
    BY <2>3, <2>4 DEF Numbers
  <2>6. QED
    BY <2>5 DEF Acyclic
<1>h. Homed(r)
  <2>1. PICK home : Homes(s, home)
    BY DEF Sound, Homed
  <2>2. \A x \in Link : s.next[x] # None => home[x] = home[s.next[x]]
    BY <2>1 DEF Homes
  <2>3. \A x \in Link : r.next[x] # None => home[x] = home[r.next[x]]
    BY <1>t, <1>v, <1>n, <2>2
  <2>4. Homes(r, home)
    BY <2>1, <2>3 DEF Homes
  <2>5. QED
    BY <2>4 DEF Homed
<1>6. QED
  BY <1>v, <1>1, <1>2, <1>3, <1>4, <1>5, <1>h DEF Sound, r

\* remove() on the link of an item leaves no list without first and last link.
LEMMA RemoveAnchored ==
    ASSUME NEW s, NEW live, Sound(s, live), NEW t \in Item, NEW ls \in SUBSET List,
           Anchored(s, ls)
    PROVE  Anchored(remove(s, t), ls)
<1>1. t \in Link /\ t # None /\ Typed(s)
  BY Distinct DEF Sound
<1>2. /\ \A y \in Link : remove(s, t).next[y] =
             IF y = t THEN None ELSE IF y = s.prev[t] THEN s.next[t] ELSE s.next[y]
      /\ \A y \in Link : remove(s, t).prev[y] =
             IF y = t THEN None ELSE IF y = s.next[t] THEN s.prev[t] ELSE s.prev[y]
  BY <1>1, RemoveValue
<1>3. s.next[t] = None <=> s.prev[t] = None
  BY DEF Sound, Paired
<1>4. \A l \in ls : /\ m_head(l) \in Link /\ m_head(l) # t /\ m_head(l) # None
                    /\ m_tail(l) \in Link /\ m_tail(l) # t /\ m_tail(l) # None
  BY Distinct
<1>5. QED
  BY <1>2, <1>3, <1>4 DEF Anchored

\* A link t without neighbours put between neighbours a and b, as place_after()
\* and place_before() do once they have removed it.
LEMMA InsertSound ==
    ASSUME NEW s, NEW live, Sound(s, live), NEW q, Typed(q),
           NEW a \in Link, NEW b \in Link, s.next[a] = b,
           NEW t \in Item, t \in live, s.next[t] = None,
           \A y \in Link : q.next[y] = IF y = a THEN t ELSE IF y = t THEN b ELSE s.next[y],
           \A y \in Link : q.prev[y] = IF y = b THEN t ELSE IF y = t THEN a ELSE s.prev[y]
    PROVE  /\ Sound(q, live)
           /\ \A ls \in SUBSET List : Anchored(s, ls) => Anchored(q, ls)
<1>t. t \in Link /\ None \notin Link
  BY Distinct
<1>n. /\ s.prev[b] = a /\ a # b /\ s.prev[t] = None /\ t # a /\ t # b
      /\ s.next[t] = None
  <2>1. s.prev[b] = a
    BY DEF Sound, Mirror
  <2>2. a # b
    BY Neighbours
  <2>3. s.prev[t] = None
    BY DEF Sound, Paired
  <2>4. QED
    BY <1>t, <2>1, <2>2, <2>3
<1>1. Mirror(q)
  <2>1. \A x, y \in Link : s.next[x] = y <=> s.prev[y] = x
    BY DEF Sound, Mirror
  <2>2. QED
    BY <1>t, <1>n, <2>1 DEF Mirror
<1>2. Ends(q)
  <2>1. \A l \in List : s.prev[m_head(l)] = None /\ s.next[m_tail(l)] = None
    BY DEF Sound, Ends
  <2>2. QED
    BY <1>t, <1>n, <2>1, Distinct DEF Ends
<1>3. Paired(q)
  <2>1. \A u \in Item : s.next[u] = None <=> s.prev[u] = None
    BY DEF Sound, Paired
  <2>2. QED
    BY <1>t, <1>n, <2>1, Distinct DEF Paired
<1>4. Within(q, live)
  <2>1. \A x \in Link : /\ s.next[x] # None => x \in live /\ s.next[x] \in live
                        /\ s.prev[x] # None => x \in live /\ s.prev[x] \in live
    BY DEF Sound, Within
  <2>2. a \in live /\ b \in live
    BY <1>t, <1>n, <2>1
  <2>3. QED
    BY <1>t, <1>n, <2>1, <2>2 DEF Within
<1>5. Acyclic(q)
  <2>1. PICK pos : Numbers(s, pos)
    BY DEF Sound, Acyclic
  <2>2. pos \in [Link -> Int]
    BY <2>1 DEF Numbers
  <2> DEFINE w == [x \in Link |-> IF x = t THEN 2 * pos[a] + 1 ELSE 2 * pos[x]]
  <2>3. w \in [Link -> Int]
    BY <2>2
  <2>4. /\ w[t] = 2 * pos[a] + 1
        /\ \A x \in Link : x # t => w[x] = 2 * pos[x]
    BY <1>t
  <2> HIDE DEF w
  <2>5. \A x \in Link : s.next[x] # None => pos[x] < pos[s.next[x]]
    BY <2>1 DEF Numbers
  <2>6. ASSUME NEW x \in Link, q.next[x] # None
        PROVE  w[x] < w[q.next[x]]
    <3>1. pos[a] \in Int /\ pos[b] \in Int /\ pos[x] \in Int
      BY <2>2
    <3>2. pos[a] < pos[b]
      BY <2>5, <1>t
    <3>3. CASE x = a
      <4>1. q.next[x] = t /\ w[x] = 2 * pos[a]
        BY <1>n, <2>4, <3>3
      <4>2. QED
        BY <4>1, <2>4, <3>1
    <3>4. CASE x = t
      <4>1. q.next[x] = b /\ w[b] = 2 * pos[b] /\ w[x] = 2 * pos[a] + 1
        BY <1>n, <2>4, <3>4
      <4>2. QED
        BY <4>1, <3>1, <3>2
    <3>5. CASE x # a /\ x # t
      <4>1. q.next[x] = s.next[x] /\ s.next[x] # None /\ s.next[x] \in Link
        BY <2>6, <3>5 DEF Sound, Typed
      <4>2. s.next[x] # t
        BY <4>1, <1>n, <1>t DEF Sound, Mirror
      <4>3. PICK z \in Link : z = s.next[x]
        BY <4>1
      <4>4. w[x] = 2 * pos[x] /\ w[z] = 2 * pos[z] /\ pos[z] \in Int /\ pos[x] < pos[z]
        BY <2>2, <2>4, <2>5, <3>5, <4>1, <4>2, <4>3
      <4>5. w[x] < w[z]
        BY <3>1, <4>4
      <4>6. QED
        BY <4>1, <4>3, <4>5
    <3>6. QED
      BY <3>3, <3>4, <3>5
  <2>7. Numbers(q, w)
    BY <2>3, <2>6 DEF Numbers
  <2>8. QED
    BY <2>7 DEF Acyclic
<1>h. Homed(q)
  <2>1. PICK home : Homes(s, home)
    BY DEF Sound, Homed
  <2>2. /\ home \in [Link -> List \cup {None}]
        /\ \A l \in List : home[m_head(l)] = l /\ home[m_tail(l)] = l
        /\ \A x \in Link : s.next[x] # None => home[x] = home[s.next[x]]
    BY <2>1 DEF Homes
  <2> DEFINE w == [x \in Link |-> IF x = t THEN home[a] ELSE home[x]]
  <2>3. w \in [Link -> List \cup {None}] /\ w[t] = home[a] /\ \A x \in Link : x # t => w[x] = home[x]
    BY <2>2, <1>t
  <2> HIDE DEF w
  <2>4. \A l \in List : w[m_head(l)] = l /\ w[m_tail(l)] = l
    BY <2>2, <2>3, Distinct
  <2>5. home[a] = home[b]
    BY <2>2, <1>t
  <2>6. \A x \in Link : s.next[x] # t
    BY <1>n, <1>t DEF Sound, Mirror
  <2>7. \A x \in Link : s.next[x] \in Link \cup {None}
    BY DEF Sound, Typed
  <2>8. \A x \in Link : q.next[x] # None => w[x] = w[q.next[x]]
    BY <1>t, <1>n, <2>2, <2>3, <2>5, <2>6, <2>7
  <2>9. Homes(q, w)
    BY <2>3, <2>4, <2>8 DEF Homes
  <2>10. QED
    BY <2>9 DEF Homed
<1>6. ASSUME NEW ls \in SUBSET List, Anchored(s, ls) PROVE Anchored(q, ls)
  <2>1. \A l \in ls : m_head(l) \in Link /\ m_tail(l) \in Link
    BY Distinct
  <2>2. QED
    BY <1>t, <1>n, <1>6, <2>1 DEF Anchored
<1>7. QED
  BY <1>1, <1>2, <1>3, <1>4, <1>5, <1>6, <1>h DEF Sound

\* push_front() and push_back(): place_after(m_head), place_before(m_tail).
LEMMA PushSound ==
    ASSUME NEW s, NEW live, Sound(s, live), NEW ls \in SUBSET List, Anchored(s, ls),
           NEW l \in ls, NEW t \in Item, t \in live,
           NEW q \in {place_after(s, t, m_head(l)), place_before(s, t, m_tail(l))}
    PROVE  Sound(q, live) /\ Anchored(q, ls) /\ q.owner = s.owner
<1> DEFINE r == remove(s, t)
           M == Link \cup {None}
<1>t. t \in Link /\ None \notin Link /\ m_head(l) \in Link /\ m_tail(l) \in Link
  BY Distinct
<1>r. /\ Typed(r) /\ r.owner = s.owner /\ r.next[t] = None /\ r.prev[t] = None
  BY <1>t, RemoveValue DEF Sound
<1>s. Sound(r, live)
  <2>1. Sound(r, live \ {t})
    BY RemoveSound
  <2>2. QED
    BY <2>1 DEF Sound, Within
<1>a. Anchored(r, ls)
  BY RemoveAnchored
<1>y. /\ r.next \in [Link -> M] /\ r.prev \in [Link -> M]
      /\ r.owner \in [Link -> Item \cup {None}]
  BY <1>r DEF Typed
<1>m. \A x, y \in Link : r.next[x] = y <=> r.prev[y] = x
  BY <1>s DEF Sound, Mirror
<1>0. place_after(s, t, m_head(l)) =
        [next |-> With(With(r.next, t, r.next[m_head(l)]), m_head(l), t),
         prev |-> With(With(r.prev, t, m_head(l)), r.next[m_head(l)], t),
         owner |-> r.owner]
  BY DEF place_after
<1>00. place_before(s, t, m_tail(l)) =
        [next |-> With(With(r.next, t, m_tail(l)), r.prev[m_tail(l)], t),
         prev |-> With(With(r.prev, t, r.prev[m_tail(l)]), m_tail(l), t),
         owner |-> r.owner]
  BY DEF place_before
<1> HIDE DEF r
<1>1. PICK a \in Link, b \in Link :
          /\ r.next[a] = b
          /\ q = [next |-> With(With(r.next, t, b), a, t),
                  prev |-> With(With(r.prev, t, a), b, t), owner |-> r.owner]
  <2>1. CASE q = place_after(s, t, m_head(l))
    <3>1. r.next[m_head(l)] \in Link
      BY <1>y, <1>t, <1>a DEF Anchored
    <3>2. QED
      BY <1>0, <1>t, <2>1, <3>1
  <2>2. CASE q = place_before(s, t, m_tail(l))
    <3>1. r.prev[m_tail(l)] \in Link
      BY <1>y, <1>t, <1>a DEF Anchored
    <3>2. r.next[r.prev[m_tail(l)]] = m_tail(l)
      BY <1>m, <1>t, <3>1
    <3>3. QED
      BY <1>00, <1>t, <2>2, <3>1, <3>2
  <2>3. QED
    BY <2>1, <2>2
<1>2. /\ q.next \in [Link -> M] /\ q.prev \in [Link -> M]
      /\ \A y \in Link : q.next[y] = IF y = a THEN t ELSE IF y = t THEN b ELSE r.next[y]
      /\ \A y \in Link : q.prev[y] = IF y = b THEN t ELSE IF y = t THEN a ELSE r.prev[y]
  BY <1>1, <1>y, <1>t, ZenonT(100) DEF With
<1>3. Typed(q) /\ q.owner = s.owner
  BY <1>1, <1>2, <1>y, <1>r DEF Typed
<1>4. QED
  BY <1>1, <1>2, <1>3, <1>s, <1>a, <1>r, InsertSound

\* Two, and three, assignments to members of links.
LEMMA WithTwice ==
    ASSUME NEW f \in [Link -> Link \cup {None}],
           NEW x, NEW v \in Link \cup {None}, NEW y, NEW w \in Link \cup {None}
    PROVE  /\ With(With(f, x, v), y, w) \in [Link -> Link \cup {None}]
           /\ \A z \in Link : With(With(f, x, v), y, w)[z] =
                                  IF z = y THEN w ELSE IF z = x THEN v ELSE f[z]
BY DEF With

\* Three stores, the last one winning where they meet.
LEMMA WithThrice ==
    ASSUME NEW f \in [Link -> Link \cup {None}], NEW x, NEW v \in Link \cup {None},
           NEW y, NEW w \in Link \cup {None}, NEW c, NEW d \in Link \cup {None}
    PROVE  /\ With(With(With(f, x, v), y, w), c, d) \in [Link -> Link \cup {None}]
           /\ \A z \in Link : With(With(With(f, x, v), y, w), c, d)[z] =
                  IF z = c THEN d ELSE IF z = y THEN w ELSE IF z = x THEN v ELSE f[z]
BY DEF With

\* m_tail placed after m_head, neither of which refers to anything.
LEMMA FreshValue ==
    ASSUME NEW s, Typed(s), NEW h \in Link, NEW t \in Link, h # t,
           s.next[h] = None, s.next[t] = None, s.prev[t] = None,
           NEW q, q = place_after(s, t, h)
    PROVE  /\ Typed(q) /\ q.owner = s.owner
           /\ \A y \in Link : q.next[y] = IF y = h THEN t ELSE s.next[y]
           /\ \A y \in Link : q.prev[y] = IF y = t THEN h ELSE s.prev[y]
<1> DEFINE M == Link \cup {None}
           r == remove(s, t)
<1>t. None \notin Link
  BY Distinct
<1>0. q = [next |-> With(With(r.next, t, r.next[h]), h, t),
           prev |-> With(With(r.prev, t, h), r.next[h], t), owner |-> r.owner]
  BY DEF place_after
<1>r. /\ Typed(r) /\ r.owner = s.owner
      /\ \A y \in Link : r.next[y] = s.next[y] /\ r.prev[y] = s.prev[y]
  <2>1. /\ Typed(r) /\ r.owner = s.owner
        /\ \A y \in Link : r.next[y] =
               IF y = t THEN None ELSE IF y = s.prev[t] THEN s.next[t] ELSE s.next[y]
        /\ \A y \in Link : r.prev[y] =
               IF y = t THEN None ELSE IF y = s.next[t] THEN s.prev[t] ELSE s.prev[y]
    <3>1. Typed(s) /\ t \in Link
      OBVIOUS
    <3>2. QED
      BY ONLY <3>1, RemoveValue, SMTT(100)
  <2>2. QED
    BY <2>1, <1>t
<1> HIDE DEF r
<1>y. /\ r.next \in [Link -> M] /\ r.prev \in [Link -> M]
      /\ r.owner \in [Link -> Item \cup {None}]
  BY <1>r DEF Typed
<1>1. r.next[h] = None
  BY <1>r
<1>2. /\ q.next \in [Link -> M]
      /\ \A y \in Link : q.next[y] = IF y = h THEN t ELSE IF y = t THEN None ELSE r.next[y]
  <2>1. q.next = With(With(r.next, t, None), h, t)
    BY <1>0, <1>1
  <2>2. QED
    BY <2>1, <1>y, <1>t, WithTwice
<1>3. /\ q.prev \in [Link -> M]
      /\ \A y \in Link : q.prev[y] = IF y = t THEN h ELSE r.prev[y]
  <2>1. q.prev = With(With(r.prev, t, h), None, t)
    BY <1>0, <1>1
  <2>2. QED
    BY <2>1, <1>y, <1>t, WithTwice
<1>4. q.owner = s.owner /\ Typed(q)
  BY <1>0, <1>2, <1>3, <1>y, <1>r DEF Typed
<1>5. QED
  BY <1>2, <1>3, <1>4, <1>r, <1>t

\* A list that is constructed empty.
LEMMA FreshSound ==
    ASSUME NEW s, NEW live, Sound(s, live), NEW ls \in SUBSET List, Anchored(s, ls),
           NEW l \in List, s.next[m_head(l)] = None, s.prev[m_tail(l)] = None,
           NEW q, q = place_after(s, m_tail(l), m_head(l))
    PROVE  /\ Sound(q, live \cup {m_head(l), m_tail(l)})
           /\ Anchored(q, ls \cup {l})
           /\ q.owner = s.owner
<1> DEFINE h == m_head(l)
           t == m_tail(l)
<1>t. /\ t \in Link /\ h \in Link /\ t # h /\ None \notin Link
      /\ t \notin Item /\ h \notin Item
  BY Distinct
<1>e. s.next[t] = None /\ s.prev[h] = None
  BY DEF Sound, Ends
<1>w. s.next[h] = None /\ s.prev[t] = None /\ q = place_after(s, t, h)
  OBVIOUS
<1> HIDE DEF h, t
<1>v. /\ Typed(q) /\ q.owner = s.owner
      /\ \A y \in Link : q.next[y] = IF y = h THEN t ELSE s.next[y]
      /\ \A y \in Link : q.prev[y] = IF y = t THEN h ELSE s.prev[y]
  <2>1. Typed(s)
    BY DEF Sound
  <2>2. QED
    BY <1>t, <1>e, <1>w, <2>1, FreshValue
<1>1. Typed(q) /\ q.owner = s.owner
  BY <1>v
<1>2. Mirror(q)
  <2>1. \A x, y \in Link : s.next[x] = y <=> s.prev[y] = x
    BY DEF Sound, Mirror
  <2>2. QED
    BY <1>t, <1>v, <1>w, <2>1 DEF Mirror
<1>3. Ends(q)
  <2>1. \A k \in List : s.prev[m_head(k)] = None /\ s.next[m_tail(k)] = None
    BY DEF Sound, Ends
  <2>2. \A k \in List : /\ m_head(k) # t /\ m_tail(k) # h
                        /\ m_head(k) \in Link /\ m_tail(k) \in Link
    BY Distinct DEF h, t
  <2>3. QED
    BY <1>v, <2>1, <2>2 DEF Ends
<1>4. Paired(q)
  <2>1. \A u \in Item : s.next[u] = None <=> s.prev[u] = None
    BY DEF Sound, Paired
  <2>2. QED
    BY <1>t, <1>v, <2>1, Distinct DEF Paired
<1>5. Within(q, live \cup {h, t})
  <2>1. \A x \in Link : /\ s.next[x] # None => x \in live /\ s.next[x] \in live
                        /\ s.prev[x] # None => x \in live /\ s.prev[x] \in live
    BY DEF Sound, Within
  <2>2. QED
    BY <1>v, <2>1 DEF Within
<1>6. Acyclic(q)
  <2>1. PICK pos : Numbers(s, pos)
    BY DEF Sound, Acyclic
  <2>2. pos \in [Link -> Int]
    BY <2>1 DEF Numbers
  <2> DEFINE w == [x \in Link |-> IF x = h THEN pos[t] - 1 ELSE pos[x]]
  <2>3. w \in [Link -> Int]
    BY <2>2, <1>t
  <2>4. w[h] = pos[t] - 1 /\ \A x \in Link : x # h => w[x] = pos[x]
    BY <1>t
  <2> HIDE DEF w
  <2>5. \A x \in Link : s.next[x] # None => pos[x] < pos[s.next[x]]
    BY <2>1 DEF Numbers
  <2>6. ASSUME NEW x \in Link, q.next[x] # None
        PROVE  w[x] < w[q.next[x]]
    <3>1. CASE x = h
      <4>1. q.next[x] = t /\ w[t] = pos[t] /\ pos[t] \in Int /\ w[x] = pos[t] - 1
        BY <1>t, <1>v, <2>2, <2>4, <3>1
      <4>2. QED
        BY <4>1
    <3>2. CASE x # h
      <4>1. q.next[x] = s.next[x] /\ s.next[x] \in Link
        BY <2>6, <3>2, <1>v DEF Sound, Typed
      <4>2. s.next[x] # h
        BY <4>1, <1>e, <1>t DEF Sound, Mirror, h
      <4>3. QED
        BY <2>4, <2>5, <3>2, <4>1, <4>2, <1>t
    <3>3. QED
      BY <3>1, <3>2
  <2>7. Numbers(q, w)
    BY <2>3, <2>6 DEF Numbers
  <2>8. QED
    BY <2>7 DEF Acyclic
<1>h. Homed(q)
  <2>1. PICK home : Homes(s, home)
    BY DEF Sound, Homed
  <2>2. home[h] = l /\ home[t] = l
    BY <2>1 DEF Homes, h, t
  <2>3. \A x \in Link : s.next[x] # None => home[x] = home[s.next[x]]
    BY <2>1 DEF Homes
  <2>4. \A x \in Link : q.next[x] # None => home[x] = home[q.next[x]]
    BY <1>t, <1>v, <2>2, <2>3
  <2>5. Homes(q, home)
    BY <2>1, <2>4 DEF Homes
  <2>6. QED
    BY <2>5 DEF Homed
<1>7. Anchored(q, ls \cup {l})
  <2>1. \A k \in ls : m_head(k) \in Link /\ m_tail(k) \in Link
    BY Distinct
  <2>2. \A k \in ls : q.next[m_head(k)] # None /\ q.prev[m_tail(k)] # None
    BY <1>t, <1>v, <2>1 DEF Anchored
  <2>3. q.next[h] # None /\ q.prev[t] # None
    BY <1>t, <1>v
  <2>4. QED
    BY <2>2, <2>3 DEF Anchored, h, t
<1>8. QED
  BY <1>1, <1>2, <1>3, <1>4, <1>5, <1>6, <1>7, <1>h DEF Sound, h, t

\* The values do_move() leaves.
LEMMA MoveValue ==
    ASSUME NEW s, Typed(s), NEW l \in List, NEW k \in List, l # k,
           NEW f \in Link, f = s.next[m_head(k)], NEW g \in Link, g = s.prev[m_tail(k)],
           f # m_tail(k), g # m_head(k), g # m_tail(k), s.next[m_tail(k)] = None,
           NEW q, q = do_move(s, l, k)
    PROVE  /\ Typed(q) /\ q.owner = s.owner
           /\ \A y \in Link : q.next[y] = IF y = m_head(k) THEN m_tail(k)
                                          ELSE IF y = g THEN m_tail(l)
                                          ELSE IF y = m_head(l) THEN f ELSE s.next[y]
           /\ \A y \in Link : q.prev[y] = IF y = m_tail(k) THEN m_head(k)
                                          ELSE IF y = m_tail(l) THEN g
                                          ELSE IF y = f THEN m_head(l) ELSE s.prev[y]
<1> DEFINE a == m_head(l)
           z == m_tail(l)
           h == m_head(k)
           t == m_tail(k)
           rn == With(With(With(s.next, a, f), g, z), h, None)
           rp == With(With(With(s.prev, f, a), z, g), t, None)
           r == [next |-> rn, prev |-> rp, owner |-> s.owner]
<1>t. /\ a \in Link /\ z \in Link /\ h \in Link /\ t \in Link /\ None \notin Link
      /\ a # h /\ a # t /\ z # h /\ z # t /\ h # t
  BY Distinct
<1>y. /\ s.next \in [Link -> Link \cup {None}] /\ s.prev \in [Link -> Link \cup {None}]
      /\ s.owner \in [Link -> Item \cup {None}]
  BY DEF Typed
<1>q. q = place_after(r, t, h)
  BY DEF do_move
<1>e. s.next[t] = None /\ f # t /\ g # h /\ g # t
  OBVIOUS
<1> HIDE DEF a, z, h, t
<1>1. /\ rn \in [Link -> Link \cup {None}]
      /\ \A y \in Link : rn[y] = IF y = h THEN None ELSE IF y = g THEN z
                                 ELSE IF y = a THEN f ELSE s.next[y]
  BY <1>t, <1>y, WithThrice
<1>2. /\ rp \in [Link -> Link \cup {None}]
      /\ \A y \in Link : rp[y] = IF y = t THEN None ELSE IF y = z THEN g
                                 ELSE IF y = f THEN a ELSE s.prev[y]
  BY <1>t, <1>y, WithThrice
<1> HIDE DEF rn, rp
<1>3. Typed(r) /\ r.next = rn /\ r.prev = rp /\ r.owner = s.owner
  BY <1>1, <1>2, <1>y DEF Typed
<1>4. r.next[h] = None /\ r.next[t] = None /\ r.prev[t] = None
  BY <1>1, <1>2, <1>3, <1>t, <1>e
<1> HIDE DEF r
<1>5. /\ Typed(q) /\ q.owner = r.owner
      /\ \A y \in Link : q.next[y] = IF y = h THEN t ELSE r.next[y]
      /\ \A y \in Link : q.prev[y] = IF y = t THEN h ELSE r.prev[y]
  BY <1>3, <1>4, <1>t, <1>q, FreshValue
<1>6. \A y \in Link : q.next[y] = IF y = h THEN t ELSE IF y = g THEN z
                                  ELSE IF y = a THEN f ELSE s.next[y]
  BY <1>1, <1>3, <1>5
<1>7. \A y \in Link : q.prev[y] = IF y = t THEN h ELSE IF y = z THEN g
                                  ELSE IF y = f THEN a ELSE s.prev[y]
  BY <1>2, <1>3, <1>5
<1>8. QED
  BY <1>3, <1>5, <1>6, <1>7 DEF a, z, h, t

\* do_move(): list l, new or empty, takes over the items of list k.
LEMMA MoveSound ==
    ASSUME NEW s, NEW live, Sound(s, live), NEW ls \in SUBSET List, Anchored(s, ls),
           NEW l \in List, NEW k \in ls, l # k,
           s.next[m_head(k)] # m_tail(k),
           s.next[m_head(l)] \in {None, m_tail(l)}, s.prev[m_tail(l)] \in {None, m_head(l)},
           NEW q, q = do_move(s, l, k)
    PROVE  /\ Sound(q, live \cup {m_head(l), m_tail(l)})
           /\ Anchored(q, ls \cup {l})
           /\ q.owner = s.owner
<1> DEFINE a == m_head(l)
           z == m_tail(l)
           h == m_head(k)
           t == m_tail(k)
<1>t. /\ a \in Link /\ z \in Link /\ h \in Link /\ t \in Link /\ None \notin Link
      /\ a # h /\ a # t /\ z # h /\ z # t /\ h # t /\ a # z
      /\ a \notin Item /\ z \notin Item /\ h \notin Item /\ t \notin Item
  BY Distinct
<1>e. /\ s.next[t] = None /\ s.next[z] = None /\ s.prev[a] = None /\ s.prev[h] = None
  BY DEF Sound, Ends
<1>m. \A x, y \in Link : s.next[x] = y <=> s.prev[y] = x
  BY DEF Sound, Mirror
<1>f. s.next[h] \in Link /\ s.prev[t] \in Link
  <2>1. s.next[h] # None /\ s.prev[t] # None
    BY DEF Anchored
  <2>2. s.next \in [Link -> Link \cup {None}] /\ s.prev \in [Link -> Link \cup {None}]
    BY DEF Sound, Typed
  <2>3. QED
    BY <2>1, <2>2, <1>t
<1>c. /\ s.next[h] # t
      /\ s.next[a] \in {None, z} /\ s.prev[z] \in {None, a}
  OBVIOUS
<1>v. PICK f \in Link, g \in Link :
      /\ f = s.next[h] /\ g = s.prev[t]
      /\ Typed(q) /\ q.owner = s.owner
      /\ \A y \in Link : q.next[y] = IF y = h THEN t ELSE IF y = g THEN z
                                     ELSE IF y = a THEN f ELSE s.next[y]
      /\ \A y \in Link : q.prev[y] = IF y = t THEN h ELSE IF y = z THEN g
                                     ELSE IF y = f THEN a ELSE s.prev[y]
  <2>1. PICK f \in Link, g \in Link : f = s.next[h] /\ g = s.prev[t]
    BY <1>f
  <2>2. f # t /\ g # h /\ g # t
    BY <1>m, <1>t, <1>e, <1>c, <2>1
  <2>3. Typed(s) /\ k \in List
    BY DEF Sound
  <2>4. /\ Typed(q) /\ q.owner = s.owner
        /\ \A y \in Link : q.next[y] = IF y = h THEN t ELSE IF y = g THEN z
                                       ELSE IF y = a THEN f ELSE s.next[y]
        /\ \A y \in Link : q.prev[y] = IF y = t THEN h ELSE IF y = z THEN g
                                       ELSE IF y = f THEN a ELSE s.prev[y]
    BY <2>1, <2>2, <2>3, <1>e, MoveValue, SMTT(100)
  <2>5. QED
    BY <2>1, <2>4
<1> HIDE DEF a, z, h, t
<1>n. /\ s.next[g] = t /\ s.prev[f] = h
      /\ f # t /\ f # z /\ f # a /\ f # h
      /\ g # h /\ g # a /\ g # t /\ g # z
  BY <1>m, <1>t, <1>e, <1>c, <1>v, SMTT(100)
<1>1. Mirror(q)
  BY <1>m, <1>t, <1>e, <1>c, <1>v, <1>n DEF Mirror
<1>2. Ends(q)
  <2>1. \A j \in List : s.prev[m_head(j)] = None /\ s.next[m_tail(j)] = None
    BY DEF Sound, Ends
  <2>2. \A j \in List : /\ m_head(j) # t /\ m_tail(j) # h /\ m_head(j) # z /\ m_tail(j) # a
                        /\ m_head(j) \in Link /\ m_tail(j) \in Link
    BY Distinct DEF h, t, a, z
  <2>3. \A j \in List : m_head(j) # f /\ m_tail(j) # g
    BY <2>1, <1>n, <1>t
  <2>4. QED
    BY <1>v, <2>1, <2>2, <2>3 DEF Ends
<1>3. Paired(q)
  <2>1. \A u \in Item : s.next[u] = None <=> s.prev[u] = None
    BY DEF Sound, Paired
  <2>2. QED
    BY <1>t, <1>v, <1>n, <2>1, Distinct, SMTT(100) DEF Paired
<1>4. Within(q, live \cup {a, z})
  <2>1. \A x \in Link : /\ s.next[x] # None => x \in live /\ s.next[x] \in live
                        /\ s.prev[x] # None => x \in live /\ s.prev[x] \in live
    BY DEF Sound, Within
  <2>2. h \in live /\ t \in live /\ f \in live /\ g \in live
    BY <1>t, <1>v, <1>n, <2>1
  <2>3. QED
    BY <1>v, <2>1, <2>2 DEF Within
<1>5. Acyclic(q)
  <2>1. PICK pos : Numbers(s, pos)
    BY DEF Sound, Acyclic
  <2>2. pos \in [Link -> Int]
    BY <2>1 DEF Numbers
  <2> DEFINE w == [x \in Link |-> IF x = h THEN pos[t] - 1 ELSE IF x = a THEN pos[h]
                                  ELSE IF x = z THEN pos[t] ELSE pos[x]]
  <2>3. w \in [Link -> Int]
    BY <2>2, <1>t
  <2>4. /\ w[h] = pos[t] - 1 /\ w[a] = pos[h] /\ w[z] = pos[t]
        /\ \A x \in Link : x # h /\ x # a /\ x # z => w[x] = pos[x]
    BY <1>t
  <2> HIDE DEF w
  <2>5. \A x \in Link : s.next[x] # None => pos[x] < pos[s.next[x]]
    BY <2>1 DEF Numbers
  <2>6. ASSUME NEW x \in Link, q.next[x] # None
        PROVE  w[x] < w[q.next[x]]
    <3>1. CASE x = h
      <4>1. q.next[x] = t /\ w[t] = pos[t] /\ pos[t] \in Int /\ w[x] = pos[t] - 1
        BY <1>t, <1>v, <2>2, <2>4, <3>1
      <4>2. QED
        BY <4>1
    <3>2. CASE x = g
      <4>1. q.next[x] = z /\ w[z] = pos[t] /\ w[x] = pos[g] /\ pos[g] < pos[t]
        BY <1>t, <1>v, <1>n, <2>4, <2>5, <3>2, SMTT(100)
      <4>2. QED
        BY <4>1
    <3>3. CASE x = a
      <4>1. q.next[x] = f /\ w[f] = pos[f] /\ w[x] = pos[h] /\ pos[h] < pos[f]
        BY <1>t, <1>v, <1>n, <2>4, <2>5, <3>3
      <4>2. QED
        BY <4>1
    <3>4. CASE x # h /\ x # g /\ x # a
      <4>1. q.next[x] = s.next[x] /\ s.next[x] \in Link
        BY <2>6, <3>4, <1>v DEF Sound, Typed
      <4>2. s.next[x] # h /\ s.next[x] # a /\ s.next[x] # z /\ x # z
        BY <4>1, <1>e, <1>t, <1>m, <1>c, <3>4
      <4>3. QED
        BY <2>4, <2>5, <3>4, <4>1, <4>2, <1>t
    <3>5. QED
      BY <3>1, <3>2, <3>3, <3>4
  <2>7. Numbers(q, w)
    BY <2>3, <2>6 DEF Numbers
  <2>8. QED
    BY <2>7 DEF Acyclic
<1>h. Homed(q)
  <2>1. PICK home : Homes(s, home)
    BY DEF Sound, Homed
  <2>2. /\ home \in [Link -> List \cup {None}]
        /\ \A j \in List : home[m_head(j)] = j /\ home[m_tail(j)] = j
        /\ \A x \in Link : s.next[x] # None => home[x] = home[s.next[x]]
    BY <2>1 DEF Homes
  <2>3. home[a] = l /\ home[z] = l /\ home[h] = k /\ home[t] = k
    BY <2>2 DEF a, z, h, t
  <2> DEFINE w == [x \in Link |-> IF x \in Item /\ home[x] = k THEN l ELSE home[x]]
  <2>4. w \in [Link -> List \cup {None}]
    BY <2>2
  <2>5. \A x \in Link : w[x] = IF x \in Item /\ home[x] = k THEN l ELSE home[x]
    OBVIOUS
  <2> HIDE DEF w
  <2>6. \A j \in List : w[m_head(j)] = j /\ w[m_tail(j)] = j
    BY <2>2, <2>5, Distinct
  <2>7. f \in Item /\ g \in Item
    <3>1. home[f] = k /\ home[g] = k
      BY <1>t, <1>v, <1>n, <2>2, <2>3, SMTT(100)
    <3>2. \A j \in List : f # m_head(j) /\ g # m_tail(j)
      <4>1. \A j \in List : s.prev[m_head(j)] = None /\ s.next[m_tail(j)] = None
        BY DEF Sound, Ends
      <4>2. QED
        BY <4>1, <1>n, <1>t
    <3>3. \A j \in List : f # m_tail(j) /\ g # m_head(j)
      BY <2>2, <3>1, <1>n DEF h, t
    <3>4. QED
      BY <3>2, <3>3 DEF Link
  <2>8. ASSUME NEW x \in Link, q.next[x] # None
        PROVE  w[x] = w[q.next[x]]
    <3>1. CASE x = h
      BY <1>t, <1>v, <2>3, <2>5, <3>1, SMTT(100)
    <3>2. CASE x = g
      BY <1>t, <1>v, <1>n, <2>2, <2>3, <2>5, <2>7, <3>2, SMTT(100)
    <3>3. CASE x = a
      BY <1>t, <1>v, <1>n, <2>2, <2>3, <2>5, <2>7, <3>3, SMTT(100)
    <3>4. CASE x # h /\ x # g /\ x # a
      <4>1. q.next[x] = s.next[x] /\ s.next[x] \in Link
        BY <2>8, <3>4, <1>v DEF Sound, Typed
      <4>2. PICK y \in Link : y = s.next[x]
        BY <4>1
      <4>3. home[x] = home[y] /\ y # t
        BY <4>1, <4>2, <2>2, <1>m, <1>t, <1>n, <1>v, <3>4
      <4>4. home[x] = k => x \in Item /\ y \in Item
        <5>1. ASSUME home[x] = k, x \notin Item PROVE FALSE
          <6>1. PICK j \in List : x = m_head(j) \/ x = m_tail(j)
            BY <5>1 DEF Link
          <6>2. j = k
            BY <2>2, <5>1, <6>1
          <6>3. QED
            BY <6>1, <6>2, <3>4, <4>1, <1>e, <1>t DEF h, t
        <5>2. ASSUME home[x] = k, y \notin Item PROVE FALSE
          <6>1. PICK j \in List : y = m_head(j) \/ y = m_tail(j)
            BY <5>2 DEF Link
          <6>2. j = k
            BY <2>2, <5>2, <6>1, <4>3
          <6>3. y = h
            BY <6>1, <6>2, <4>3 DEF h, t
          <6>4. QED
            BY <6>3, <4>2, <1>m, <1>e, <1>t
        <5>3. QED
          BY <5>1, <5>2
      <4>5. w[x] = w[y]
        BY <2>5, <4>3, <4>4
      <4>6. QED
        BY <4>1, <4>2, <4>5
    <3>5. QED
      BY <3>1, <3>2, <3>3, <3>4
  <2>9. Homes(q, w)
    BY <2>4, <2>6, <2>8 DEF Homes
  <2>10. QED
    BY <2>9 DEF Homed
<1>6. Anchored(q, ls \cup {l})
  <2>1. \A j \in ls : m_head(j) \in Link /\ m_tail(j) \in Link
    BY Distinct
  <2>2. \A j \in ls : q.next[m_head(j)] # None /\ q.prev[m_tail(j)] # None
    BY <1>t, <1>v, <2>1, SMTT(100) DEF Anchored
  <2>3. q.next[a] # None /\ q.prev[z] # None
    BY <1>t, <1>v, <1>n, SMTT(100)
  <2>4. QED
    BY <2>2, <2>3 DEF Anchored, a, z
<1>7. QED
  BY <1>v, <1>1, <1>2, <1>3, <1>4, <1>5, <1>6, <1>h DEF Sound, a, z

\* Link(T&, Link&&): the link of a new item t takes the place of that of u.
LEMMA RelinkSound ==
    ASSUME NEW s, NEW live, Sound(s, live), NEW ls \in SUBSET List, Anchored(s, ls),
           NEW t \in Item, NEW u \in Item, t # u, s.next[t] = None,
           NEW q, q = Relink(s, t, u)
    PROVE  /\ Sound(q, live \cup {t})
           /\ Anchored(q, ls)
           /\ q.owner = With(s.owner, t, t)
<1> DEFINE n == s.next[u]
           p == s.prev[u]
<1>t. t \in Link /\ u \in Link /\ None \notin Link
  BY Distinct
<1>y. /\ s.next \in [Link -> Link \cup {None}] /\ s.prev \in [Link -> Link \cup {None}]
      /\ s.owner \in [Link -> Item \cup {None}]
  BY DEF Sound, Typed
<1>m. \A x, y \in Link : s.next[x] = y <=> s.prev[y] = x
  BY DEF Sound, Mirror
<1>d. \A v \in Item : s.next[v] = None <=> s.prev[v] = None
  BY DEF Sound, Paired
<1>n. /\ n \in Link \cup {None} /\ p \in Link \cup {None}
      /\ n # None => s.prev[n] = u
      /\ p # None => s.next[p] = u
      /\ n # u /\ p # u
      /\ n # None => n # p
  BY <1>t, Neighbours
<1>e. /\ n = s.next[u] /\ p = s.prev[u] /\ s.next[t] = None /\ s.prev[t] = None
      /\ n = None <=> p = None
  BY <1>d
<1>0. q = [next |-> With(With(With(s.next, t, n), p, t), u, None),
           prev |-> With(With(With(s.prev, t, p), n, t), u, None),
           owner |-> With(s.owner, t, t)]
  BY DEF Relink
<1> HIDE DEF n, p
<1>x. n # t /\ p # t
  BY <1>n, <1>e, <1>t
<1>1. /\ q.next \in [Link -> Link \cup {None}]
      /\ \A y \in Link : q.next[y] = IF y = u THEN None ELSE IF y = p THEN t
                                     ELSE IF y = t THEN n ELSE s.next[y]
  <2>1. q.next = With(With(With(s.next, t, n), p, t), u, None)
    BY <1>0
  <2>2. QED
    BY <2>1, <1>t, <1>y, <1>n, WithThrice, SMTT(100)
<1>2. /\ q.prev \in [Link -> Link \cup {None}]
      /\ \A y \in Link : q.prev[y] = IF y = u THEN None ELSE IF y = n THEN t
                                     ELSE IF y = t THEN p ELSE s.prev[y]
  <2>1. q.prev = With(With(With(s.prev, t, p), n, t), u, None)
    BY <1>0, SMTT(100)
  <2>2. QED
    BY <2>1, <1>t, <1>y, <1>n, WithThrice, SMTT(100)
<1>3. Typed(q) /\ q.owner = With(s.owner, t, t)
  <2>1. With(s.owner, t, t) \in [Link -> Item \cup {None}]
    BY <1>y DEF With
  <2>2. QED
    BY <1>0, <1>1, <1>2, <2>1, SMTT(100) DEF Typed
<1>4. Mirror(q)
  <2>1. SUFFICES ASSUME NEW x \in Link, NEW y \in Link
                 PROVE  q.next[x] = y <=> q.prev[y] = x
    BY DEF Mirror
  <2>2. CASE n = None
    <3>1. p = None /\ s.next[u] = None /\ s.prev[u] = None
      BY <1>e, <2>2
    <3>2. q.next[x] = s.next[x]
      BY <1>t, <1>e, <1>1, <2>2, <3>1
    <3>3. q.prev[y] = s.prev[y]
      BY <1>t, <1>e, <1>2, <2>2, <3>1
    <3>4. QED
      BY <1>m, <3>2, <3>3
  <2>3. CASE n # None
    BY <1>m, <1>t, <1>n, <1>e, <1>x, <1>1, <1>2, <2>3, SMTT(100)
  <2>4. QED
    BY <2>2, <2>3
<1>5. Ends(q)
  <2>1. \A j \in List : s.prev[m_head(j)] = None /\ s.next[m_tail(j)] = None
    BY DEF Sound, Ends
  <2>2. QED
    BY <1>t, <1>n, <1>e, <1>1, <1>2, <2>1, Distinct, SMTT(100) DEF Ends
<1>6. Paired(q)
  BY <1>t, <1>d, <1>n, <1>e, <1>x, <1>1, <1>2, Distinct, SMTT(100) DEF Paired
<1>7. Within(q, live \cup {t})
  <2>1. \A x \in Link : /\ s.next[x] # None => x \in live /\ s.next[x] \in live
                        /\ s.prev[x] # None => x \in live /\ s.prev[x] \in live
    BY DEF Sound, Within
  <2>2. QED
    BY <1>t, <1>n, <1>e, <1>1, <1>2, <2>1, SMTT(100) DEF Within
<1>8. Acyclic(q)
  <2>1. PICK pos : Numbers(s, pos)
    BY DEF Sound, Acyclic
  <2>2. pos \in [Link -> Int]
    BY <2>1 DEF Numbers
  <2> DEFINE w == [x \in Link |-> IF x = t THEN pos[u] ELSE pos[x]]
  <2>3. w \in [Link -> Int] /\ w[t] = pos[u] /\ \A x \in Link : x # t => w[x] = pos[x]
    BY <2>2, <1>t
  <2> HIDE DEF w
  <2>5. \A x \in Link : s.next[x] # None => pos[x] < pos[s.next[x]]
    BY <2>1 DEF Numbers
  <2>6. ASSUME NEW x \in Link, q.next[x] # None
        PROVE  w[x] < w[q.next[x]]
    <3>1. CASE x = p
      BY <1>t, <1>n, <1>x, <1>1, <2>3, <2>5, <3>1
    <3>2. CASE x = t
      <4>1. q.next[x] = n /\ n \in Link
        BY <1>n, <1>x, <1>1, <1>t, <2>6, <3>2
      <4>2. pos[u] < pos[n]
        BY <2>5, <1>t, <1>e, <4>1
      <4>3. QED
        BY <4>1, <4>2, <1>x, <2>3, <3>2
    <3>3. CASE x # p /\ x # t
      <4>1. q.next[x] = s.next[x] /\ s.next[x] \in Link
        BY <1>1, <1>y, <2>6, <3>3
      <4>2. s.next[x] # t
        BY <4>1, <1>m, <1>e, <1>t
      <4>3. QED
        BY <4>1, <4>2, <2>3, <2>5, <3>3, <1>t
    <3>4. QED
      BY <3>1, <3>2, <3>3
  <2>7. Numbers(q, w)
    BY <2>3, <2>6 DEF Numbers
  <2>8. QED
    BY <2>7 DEF Acyclic
<1>h. Homed(q)
  <2>1. PICK home : Homes(s, home)
    BY DEF Sound, Homed
  <2>2. /\ home \in [Link -> List \cup {None}]
        /\ \A l \in List : home[m_head(l)] = l /\ home[m_tail(l)] = l
        /\ \A x \in Link : s.next[x] # None => home[x] = home[s.next[x]]
    BY <2>1 DEF Homes
  <2> DEFINE w == [x \in Link |-> IF x = t THEN home[u] ELSE home[x]]
  <2>3. w \in [Link -> List \cup {None}] /\ w[t] = home[u] /\ \A x \in Link : x # t => w[x] = home[x]
    BY <2>2, <1>t
  <2> HIDE DEF w
  <2>4. \A l \in List : w[m_head(l)] = l /\ w[m_tail(l)] = l
    BY <2>2, <2>3, Distinct
  <2>5. ASSUME NEW x \in Link, q.next[x] # None
        PROVE  w[x] = w[q.next[x]]
    <3>1. CASE x = p
      BY <1>t, <1>n, <1>x, <1>1, <2>2, <2>3, <3>1
    <3>2. CASE x = t
      BY <1>t, <1>n, <1>x, <1>e, <1>1, <2>2, <2>3, <2>5, <3>2, SMTT(100)
    <3>3. CASE x # p /\ x # t
      <4>1. q.next[x] = s.next[x] /\ s.next[x] \in Link
        BY <1>1, <1>y, <2>5, <3>3
      <4>2. s.next[x] # t
        BY <4>1, <1>m, <1>e, <1>t
      <4>3. QED
        BY <4>1, <4>2, <2>2, <2>3, <3>3, <1>t
    <3>4. QED
      BY <3>1, <3>2, <3>3
  <2>6. Homes(q, w)
    BY <2>3, <2>4, <2>5 DEF Homes
  <2>7. QED
    BY <2>6 DEF Homed
<1>9. Anchored(q, ls)
  <2>1. \A j \in ls : /\ m_head(j) \in Link /\ m_tail(j) \in Link
                      /\ m_head(j) # u /\ m_tail(j) # u /\ m_head(j) # t /\ m_tail(j) # t
    BY Distinct
  <2>2. QED
    BY <1>t, <1>1, <1>2, <2>1 DEF Anchored
<1>10. QED
  BY <1>3, <1>4, <1>5, <1>6, <1>7, <1>8, <1>9, <1>h DEF Sound

\* ~IntrusiveList() once the list is empty: m_tail and then m_head are removed.
LEMMA DestroySound ==
    ASSUME NEW s, NEW live, Sound(s, live), NEW ls \in SUBSET List, Anchored(s, ls),
           NEW l \in List, s.next[m_head(l)] = m_tail(l),
           NEW q, q = remove(remove(s, m_tail(l)), m_head(l))
    PROVE  /\ Sound(q, live \ {m_head(l), m_tail(l)})
           /\ Anchored(q, ls \ {l})
           /\ q.owner = s.owner
<1> DEFINE h == m_head(l)
           t == m_tail(l)
           r == remove(s, t)
<1>t. /\ t \in Link /\ h \in Link /\ t # h /\ None \notin Link
      /\ t \notin Item /\ h \notin Item
  BY Distinct
<1>e. s.next[t] = None /\ s.prev[h] = None
  BY DEF Sound, Ends
<1>m. \A x, y \in Link : s.next[x] = y <=> s.prev[y] = x
  BY DEF Sound, Mirror
<1>w. s.next[h] = t /\ s.prev[t] = h /\ q = remove(r, h)
  BY <1>t, <1>m
<1>s. Typed(s)
  BY DEF Sound
<1> HIDE DEF h, t
<1>r. /\ Typed(r) /\ r.owner = s.owner
      /\ \A y \in Link : r.next[y] =
             IF y = t THEN None ELSE IF y = s.prev[t] THEN s.next[t] ELSE s.next[y]
      /\ \A y \in Link : r.prev[y] =
             IF y = t THEN None ELSE IF y = s.next[t] THEN s.prev[t] ELSE s.prev[y]
  BY <1>t, <1>s, RemoveValue, SMTT(100)
<1> HIDE DEF r
<1>q. /\ Typed(q) /\ q.owner = r.owner
      /\ \A y \in Link : q.next[y] =
             IF y = h THEN None ELSE IF y = r.prev[h] THEN r.next[h] ELSE r.next[y]
      /\ \A y \in Link : q.prev[y] =
             IF y = h THEN None ELSE IF y = r.next[h] THEN r.prev[h] ELSE r.prev[y]
  <2>1. Typed(r) /\ h \in Link
    BY <1>t, <1>r
  <2>2. q = remove(r, h)
    BY <1>w
  <2>3. QED
    BY ONLY <2>1, <2>2, RemoveValue, SMTT(100)
<1>v. /\ \A y \in Link : q.next[y] = IF y = h THEN None ELSE s.next[y]
      /\ \A y \in Link : q.prev[y] = IF y = t THEN None ELSE s.prev[y]
  <2>1. r.next[h] = None /\ r.prev[h] = None
    BY <1>t, <1>r, <1>e, <1>w
  <2>2. QED
    BY <1>t, <1>r, <1>e, <1>w, <1>q, <2>1, SMTT(100)
<1>1. Mirror(q)
  BY <1>m, <1>t, <1>w, <1>v DEF Mirror
<1>2. Ends(q)
  <2>1. \A k \in List : s.prev[m_head(k)] = None /\ s.next[m_tail(k)] = None
    BY DEF Sound, Ends
  <2>2. QED
    BY <1>v, <2>1, Distinct DEF Ends
<1>3. Paired(q)
  <2>1. \A u \in Item : s.next[u] = None <=> s.prev[u] = None
    BY DEF Sound, Paired
  <2>2. QED
    BY <1>t, <1>v, <2>1, Distinct DEF Paired
<1>4. Within(q, live \ {h, t})
  <2>1. \A x \in Link : /\ s.next[x] # None => x \in live /\ s.next[x] \in live
                        /\ s.prev[x] # None => x \in live /\ s.prev[x] \in live
    BY DEF Sound, Within
  <2>2. \A x \in Link : s.next[x] \in Link \cup {None} /\ s.prev[x] \in Link \cup {None}
    BY <1>s DEF Typed
  <2>3. QED
    BY <1>m, <1>t, <1>e, <1>w, <1>v, <2>1, <2>2, SMTT(100) DEF Within
<1>5. Acyclic(q)
  <2>1. PICK pos : Numbers(s, pos)
    BY DEF Sound, Acyclic
  <2>2. Numbers(q, pos)
    BY <1>v, <2>1 DEF Numbers
  <2>3. QED
    BY <2>2 DEF Acyclic
<1>h. Homed(q)
  <2>1. PICK home : Homes(s, home)
    BY DEF Sound, Homed
  <2>2. Homes(q, home)
    BY <1>v, <2>1 DEF Homes
  <2>3. QED
    BY <2>2 DEF Homed
<1>6. Anchored(q, ls \ {l})
  <2>1. \A k \in ls \ {l} : /\ m_head(k) \in Link /\ m_tail(k) \in Link
                            /\ m_head(k) # h /\ m_tail(k) # t
    BY Distinct DEF h, t
  <2>2. QED
    BY <1>v, <2>1 DEF Anchored
<1>7. QED
  BY <1>r, <1>q, <1>1, <1>2, <1>3, <1>4, <1>5, <1>6, <1>h DEF Sound, h, t

\* The first and the last link of a list that is not empty belong to items.
LEMMA EndsAreItems ==
    ASSUME NEW s, NEW live, Sound(s, live), NEW l \in List, s.next[m_head(l)] # m_tail(l),
           s.next[m_head(l)] # None, s.prev[m_tail(l)] # None
    PROVE  s.next[m_head(l)] \in Item /\ s.prev[m_tail(l)] \in Item
<1>1. PICK home : Homes(s, home)
  BY DEF Sound, Homed
<1>2. PICK f \in Link, g \in Link : f = s.next[m_head(l)] /\ g = s.prev[m_tail(l)]
  BY Distinct DEF Sound, Typed
<1>m. /\ \A x, y \in Link : s.next[x] = y <=> s.prev[y] = x
      /\ m_head(l) \in Link /\ m_tail(l) \in Link /\ None \notin Link
  BY Distinct DEF Sound, Mirror
<1>3. s.prev[f] = m_head(l) /\ s.next[g] = m_tail(l) /\ f # m_tail(l) /\ g # m_head(l)
  BY <1>2, <1>m
<1>4. home[f] = l /\ home[g] = l
  BY <1>1, <1>2, <1>3, <1>m DEF Homes
<1>5. \A j \in List : f # m_head(j) /\ g # m_tail(j)
  <2>1. \A j \in List : s.prev[m_head(j)] = None /\ s.next[m_tail(j)] = None
    BY DEF Sound, Ends
  <2>2. QED
    BY <2>1, <1>3, <1>m
<1>6. \A j \in List : f # m_tail(j) /\ g # m_head(j)
  BY <1>1, <1>3, <1>4 DEF Homes
<1>7. QED
  BY <1>2, <1>5, <1>6 DEF Link

-----------------------------------------------------------------------------
\* Every operation on items and lists keeps the invariant.
LEMMA LinkInvStep == LinkInv /\ [Next]_vars => LinkInv'
<1> SUFFICES ASSUME LinkInv, [Next]_vars PROVE LinkInv'
  OBVIOUS
<1>i. /\ TypeOK /\ Sound(links, LiveLink) /\ Anchored(links, lists) /\ Owned(links, items)
      /\ items \subseteq Item /\ lists \subseteq List
  BY DEF LinkInv, TypeOK
<1>y. /\ call \in Call \cup {None}
      /\ call # None => call.list \in lists /\ call.other \in lists
  BY <1>i DEF TypeOK
<1>o. links.owner \in [Link -> Item \cup {None}]
  BY <1>i DEF Sound, Typed
<1>d. \A x \in Link : x \notin LiveLink => links.next[x] = None /\ links.prev[x] = None
  BY <1>i DEF Sound, Within
<1>l. /\ \A t \in Item : t \in LiveLink <=> t \in items
      /\ \A l \in List : m_head(l) \in LiveLink <=> l \in lists
      /\ \A l \in List : m_tail(l) \in LiveLink <=> l \in lists
  BY <1>i, Distinct DEF LiveLink
\* The invariant is established once its parts are, for some set of links
\* among those that exist after the step.
<1>q. ASSUME Sound(links', LiveLink'), Anchored(links', lists'), Owned(links', items'),
             items' \subseteq Item, lists' \subseteq List,
             call' \in Call \cup {None},
             call' # None => call'.list \in lists' /\ call'.other \in lists'
      PROVE  LinkInv'
  <2>1. links' \in [next : [Link -> Link \cup {None}], prev : [Link -> Link \cup {None}],
                    owner : [Link -> Item \cup {None}]]
    BY <1>q DEF Sound, Typed
  <2>2. QED
    BY <1>q, <2>1 DEF LinkInv, TypeOK
<1>1. ASSUME NEW t \in Item, NewItem(t) PROVE LinkInv'
  <2>1. /\ t \notin items /\ items' = items \cup {t} /\ lists' = lists /\ call' = call
        /\ links' = [next |-> With(links.next, t, None), prev |-> With(links.prev, t, None),
                     owner |-> With(links.owner, t, t)]
    BY <1>1 DEF NewItem
  <2>2. links.next[t] = None /\ links.prev[t] = None /\ t \in Link
    BY <1>d, <1>l, <2>1, Distinct
  <2>3. links'.next = links.next /\ links'.prev = links.prev
    <3>1. /\ links.next \in [Link -> Link \cup {None}]
          /\ links.prev \in [Link -> Link \cup {None}]
      BY <1>i DEF Sound, Typed
    <3>2. With(links.next, t, None) = links.next /\ With(links.prev, t, None) = links.prev
      BY <2>2, <3>1 DEF With
    <3>3. QED
      BY <2>1, <3>2
  <2>4. /\ links'.owner \in [Link -> Item \cup {None}]
        /\ \A u \in Link : links'.owner[u] = IF u = t THEN t ELSE links.owner[u]
    <3>1. links'.owner = With(links.owner, t, t)
      BY <2>1
    <3>2. QED
      BY <1>o, <3>1 DEF With
  <2>5. LiveLink' = LiveLink \cup {t}
    BY <2>1 DEF LiveLink
  <2>6. Typed(links')
    BY <2>1, <2>3, <2>4, <1>i DEF Sound, Typed
  <2>7. Sound(links', LiveLink')
    <3>1. Mirror(links') /\ Ends(links') /\ Paired(links')
      BY <1>i, <2>3, SameRings DEF Sound
    <3>2. Within(links', LiveLink')
      BY <1>i, <2>3, <2>5 DEF Sound, Within
    <3>3. Acyclic(links') /\ Homed(links')
      BY <1>i, <2>3, SameRings DEF Sound
    <3>4. QED
      BY <2>6, <3>1, <3>2, <3>3 DEF Sound
  <2>8. Anchored(links', lists')
    BY <1>i, <2>1, <2>3 DEF Anchored
  <2>9. Owned(links', items')
    BY <1>i, <2>1, <2>4, Distinct DEF Owned
  <2>10. QED
    BY <1>i, <1>y, <1>q, <2>1, <2>7, <2>8, <2>9
<1>2. ASSUME NEW t \in Item, DestroyItem(t) PROVE LinkInv'
  <2>1. /\ items' = items \ {t} /\ lists' = lists /\ call' = call
        /\ links' = remove(links, t)
    BY <1>2 DEF DestroyItem
  <2>2. LiveLink' = LiveLink \ {t}
    BY <1>i, <2>1, Distinct DEF LiveLink
  <2>3. Sound(links', LiveLink')
    BY <1>i, <2>1, <2>2, RemoveSound, ZenonT(100)
  <2>4. Anchored(links', lists')
    BY <1>i, <2>1, RemoveAnchored, ZenonT(100)
  <2>5. links'.owner = links.owner
    BY <1>i, <2>1, RemoveValue, Distinct DEF Sound
  <2>6. Owned(links', items')
    BY <1>i, <2>1, <2>5 DEF Owned
  <2>7. QED
    BY <1>i, <1>y, <1>q, <2>1, <2>3, <2>4, <2>6
\* Item removed from the list it is in: remove(), pop_front(), pop_back().
<1>3. ASSUME NEW t \in Item, links' = remove(links, t), UNCHANGED <<items, lists, call>>
      PROVE  LinkInv'
  <2>1. LiveLink' = LiveLink
    BY <1>3 DEF LiveLink
  <2>2. Sound(links', LiveLink')
    <3>1. Sound(links', LiveLink \ {t})
      BY <1>i, <1>3, RemoveSound, ZenonT(100)
    <3>2. QED
      BY <2>1, <3>1 DEF Sound, Within
  <2>3. Anchored(links', lists')
    BY <1>i, <1>3, RemoveAnchored, ZenonT(100)
  <2>4. links'.owner = links.owner
    BY <1>i, <1>3, RemoveValue, Distinct DEF Sound
  <2>5. Owned(links', items')
    BY <1>i, <1>3, <2>4 DEF Owned
  <2>6. QED
    BY <1>i, <1>y, <1>q, <1>3, <2>2, <2>3, <2>5
<1>4. ASSUME NEW t \in Item, RemoveItem(t) PROVE LinkInv'
  BY <1>3, <1>4 DEF RemoveItem
<1>5. ASSUME NEW t \in Item, NEW u \in Item, MoveItem(t, u) PROVE LinkInv'
  <2>1. /\ t \notin items /\ u \in items /\ items' = items \cup {t} /\ lists' = lists
        /\ call' = call /\ links' = Relink(links, t, u)
    BY <1>5 DEF MoveItem
  <2>2. links.next[t] = None /\ t # u
    BY <1>d, <1>l, <2>1, Distinct
  <2>3. LiveLink' = LiveLink \cup {t}
    BY <2>1 DEF LiveLink
  <2>4. /\ Sound(links', LiveLink \cup {t}) /\ Anchored(links', lists)
        /\ links'.owner = With(links.owner, t, t)
    BY <1>i, <2>1, <2>2, RelinkSound
  <2>5. \A v \in Link : links'.owner[v] = IF v = t THEN t ELSE links.owner[v]
    BY <1>o, <2>4 DEF With
  <2>6. Owned(links', items')
    BY <1>i, <2>1, <2>5, Distinct DEF Owned
  <2>7. QED
    BY <1>i, <1>y, <1>q, <2>1, <2>3, <2>4, <2>6
<1>6. ASSUME NEW l \in List, NEW t \in Item, PushBack(l, t) \/ PushFront(l, t)
      PROVE  LinkInv'
  <2>1. /\ l \in lists /\ t \in items /\ UNCHANGED <<items, lists, call>>
        /\ links' \in {place_after(links, t, m_head(l)), place_before(links, t, m_tail(l))}
    BY <1>6 DEF PushBack, PushFront
  <2>2. LiveLink' = LiveLink
    BY <2>1 DEF LiveLink
  <2>3. t \in LiveLink
    BY <1>l, <2>1
  <2>4. Sound(links', LiveLink) /\ Anchored(links', lists) /\ links'.owner = links.owner
    BY <1>i, <2>1, <2>3, PushSound
  <2>5. Owned(links', items')
    BY <1>i, <2>1, <2>4 DEF Owned
  <2>6. QED
    BY <1>i, <1>y, <1>q, <2>1, <2>2, <2>4, <2>5
<1>7. ASSUME NEW l \in List, PopFront(l) \/ PopBack(l) PROVE LinkInv'
  <2>1. /\ l \in lists /\ links.next[m_head(l)] # m_tail(l) /\ UNCHANGED <<items, lists, call>>
        /\ \E x \in {links.next[m_head(l)], links.prev[m_tail(l)]} : links' = remove(links, x)
    BY <1>7 DEF PopFront, PopBack, empty
  <2>2. links.next[m_head(l)] # None /\ links.prev[m_tail(l)] # None
    BY <1>i, <2>1 DEF Anchored
  <2>3. links.next[m_head(l)] \in Item /\ links.prev[m_tail(l)] \in Item
    BY <1>i, <2>1, <2>2, EndsAreItems
  <2>4. PICK x \in Item : links' = remove(links, x)
    BY <2>1, <2>3
  <2>5. QED
    BY <1>3, <2>1, <2>4
<1>8. ASSUME NEW l \in List, l \notin lists, lists' = lists \cup {l},
             links' = place_after(links, m_tail(l), m_head(l)), UNCHANGED <<items, call>>
      PROVE  LinkInv'
  <2>1. links.next[m_head(l)] = None /\ links.prev[m_tail(l)] = None
    BY <1>d, <1>l, <1>8, Distinct
  <2>2. LiveLink' = LiveLink \cup {m_head(l), m_tail(l)}
    BY <1>8 DEF LiveLink
  <2>3. /\ Sound(links', LiveLink \cup {m_head(l), m_tail(l)})
        /\ Anchored(links', lists \cup {l}) /\ links'.owner = links.owner
    BY <1>i, <1>8, <2>1, FreshSound
  <2>4. Owned(links', items')
    BY <1>i, <1>8, <2>3 DEF Owned
  <2>5. QED
    BY <1>i, <1>y, <1>q, <1>8, <2>2, <2>3, <2>4
\* A list that is new or empty takes over the items of another.
<1>9. ASSUME NEW l \in List, NEW k \in lists, l # k, ~empty(k), l \notin lists \/ empty(l),
             links' = do_move(links, l, k), lists' = lists \cup {l}, items' = items,
             call' \in {call, None}
      PROVE  LinkInv'
  <2>1. /\ links.next[m_head(l)] \in {None, m_tail(l)}
        /\ links.prev[m_tail(l)] \in {None, m_head(l)}
    <3>1. CASE l \notin lists
      BY <1>d, <1>l, <3>1, Distinct
    <3>2. CASE empty(l)
      <4>1. links.next[m_head(l)] = m_tail(l)
        BY <3>2 DEF empty
      <4>2. links.prev[m_tail(l)] = m_head(l)
        BY <1>i, <4>1, Distinct DEF Sound, Mirror
      <4>3. QED
        BY <4>1, <4>2
    <3>3. QED
      BY <1>9, <3>1, <3>2
  <2>2. links.next[m_head(k)] # m_tail(k)
    BY <1>9 DEF empty
  <2>3. LiveLink' = LiveLink \cup {m_head(l), m_tail(l)}
    BY <1>9 DEF LiveLink
  <2>4. /\ Sound(links', LiveLink \cup {m_head(l), m_tail(l)})
        /\ Anchored(links', lists \cup {l}) /\ links'.owner = links.owner
    BY <1>i, <1>9, <2>1, <2>2, MoveSound, SMTT(100)
  <2>5. Owned(links', items')
    BY <1>i, <1>9, <2>4 DEF Owned
  <2>6. QED
    BY <1>i, <1>y, <1>q, <1>9, <2>3, <2>4, <2>5
<1>10. ASSUME NEW l \in List, NewList(l) PROVE LinkInv'
  BY <1>8, <1>10 DEF NewList
<1>11. ASSUME NEW l \in List, NEW k \in List, MoveList(l, k) PROVE LinkInv'
  <2>1. CASE empty(k)
    BY <1>8, <1>11, <2>1 DEF MoveList
  <2>2. CASE ~empty(k)
    BY <1>9, <1>11, <2>2 DEF MoveList
  <2>3. QED
    BY <2>1, <2>2
\* Steps that leave the links alone.
<1>12. ASSUME UNCHANGED <<links, items, lists>>, call' \in Call \cup {None},
              call' # None => call'.list \in lists /\ call'.other \in lists
       PROVE  LinkInv'
  <2>1. LiveLink' = LiveLink
    BY <1>12 DEF LiveLink
  <2>2. QED
    BY <1>i, <1>q, <1>12, <2>1
<1>13. ASSUME NEW c \in Call, BeginClear(c) PROVE LinkInv'
  BY <1>12, <1>13 DEF BeginClear
<1>14. ASSUME ClearLoop PROVE LinkInv'
  <2>1. call.list \in List
    BY <1>14, <1>i, <1>y DEF ClearLoop
  <2>2. QED
    BY <1>7, <1>14, <2>1 DEF ClearLoop
<1>15. ASSUME EndClear PROVE LinkInv'
  <2>1. /\ call # None /\ empty(call.list) /\ call' = None /\ items' = items
        /\ call.list \in lists /\ call.other \in lists
    BY <1>15, <1>y DEF EndClear
  <2>2. PICK l \in lists, k \in lists : l = call.list /\ k = call.other
    BY <2>1
  <2>3. CASE call.op = "destroy" /\ lists' = lists \ {l}
             /\ links' = remove(remove(links, m_tail(l)), m_head(l))
    <3>1. links.next[m_head(l)] = m_tail(l) /\ l \in List
      BY <1>i, <2>1, <2>2 DEF empty
    <3>2. LiveLink' = LiveLink \ {m_head(l), m_tail(l)}
      BY <1>i, <2>1, <2>3, Distinct DEF LiveLink
    <3>3. /\ Sound(links', LiveLink \ {m_head(l), m_tail(l)})
          /\ Anchored(links', lists \ {l}) /\ links'.owner = links.owner
      BY <1>i, <2>3, <3>1, DestroySound, ZenonT(100)
    <3>4. Owned(links', items')
      BY <1>i, <2>1, <3>3 DEF Owned
    <3>5. QED
      BY <1>i, <1>q, <2>1, <2>3, <3>2, <3>3, <3>4
  <2>4. CASE lists' = lists /\ links' = links
    BY <1>12, <2>1, <2>4
  <2>5. CASE ~empty(k) /\ lists' = lists /\ links' = do_move(links, l, k)
    <3>1. l # k /\ l \in List /\ lists' = lists \cup {l} /\ empty(l)
      BY <1>i, <2>1, <2>2, <2>5
    <3>2. QED
      BY <1>9, <2>1, <2>5, <3>1
  <2>6. QED
    BY <1>15, <2>2, <2>3, <2>4, <2>5 DEF EndClear
<1>16. CASE UNCHANGED vars
  BY <1>12, <1>16, <1>y DEF vars
<1>17. QED
  BY <1>1, <1>2, <1>4, <1>5, <1>6, <1>7, <1>10, <1>11, <1>13, <1>14, <1>15, <1>16
     DEF Next

\* The invariant holds before any list or node exists.
LEMMA LinkInvInit == Init => LinkInv
<1> SUFFICES ASSUME Init PROVE LinkInv
  OBVIOUS
<1>1. /\ links.next = [x \in Link |-> None] /\ links.prev = [x \in Link |-> None]
      /\ links.owner = [x \in Link |-> None]
      /\ links = [next |-> [x \in Link |-> None], prev |-> [x \in Link |-> None],
                  owner |-> [x \in Link |-> None]]
      /\ items = {} /\ lists = {} /\ call = None
  BY DEF Init
<1>2. Typed(links)
  BY <1>1 DEF Typed
<1>3. Mirror(links) /\ Ends(links) /\ Paired(links) /\ Within(links, LiveLink)
  BY <1>1, Distinct DEF Mirror, Ends, Paired, Within
<1>4. Acyclic(links)
  <2>1. Numbers(links, [x \in Link |-> 0])
    BY <1>1 DEF Numbers
  <2>2. QED
    BY <2>1 DEF Acyclic
<1>5. Homed(links)
  <2> DEFINE At(x, l) == l \in List /\ (x = m_head(l) \/ x = m_tail(l))
             home == [x \in Link |-> IF \E l : At(x, l) THEN CHOOSE l : At(x, l) ELSE None]
  <2>1. ASSUME NEW x \in Link PROVE home[x] \in List \cup {None}
    <3>1. CASE \E l : At(x, l)
      <4>1. At(x, home[x])
        BY <3>1, ZenonT(100)
      <4>2. QED
        BY <4>1
    <3>2. CASE ~\E l : At(x, l)
      BY <3>2, ZenonT(100)
    <3>3. QED
      BY <3>1, <3>2
  <2>2. ASSUME NEW l \in List PROVE home[m_head(l)] = l /\ home[m_tail(l)] = l
    <3>1. m_head(l) \in Link /\ m_tail(l) \in Link
      BY Distinct
    <3>2. At(m_head(l), l) /\ At(m_tail(l), l)
      OBVIOUS
    <3>3. At(m_head(l), home[m_head(l)]) /\ At(m_tail(l), home[m_tail(l)])
      BY <3>1, <3>2, ZenonT(100)
    <3>4. QED
      BY <3>3, Distinct
  <2>3. home \in [Link -> List \cup {None}]
    BY <2>1
  <2> HIDE DEF home
  <2>4. Homes(links, home)
    BY <1>1, <2>2, <2>3 DEF Homes
  <2>5. QED
    BY <2>4 DEF Homed
<1>6. TypeOK /\ Anchored(links, lists) /\ Owned(links, items)
  BY <1>1, <1>2 DEF TypeOK, Typed, Anchored, Owned
<1>7. QED
  BY <1>2, <1>3, <1>4, <1>5, <1>6 DEF LinkInv, Sound

\* The members of links and lists keep their types, and clear() runs only on a
\* list that exists, for any items and lists.
THEOREM ListTypeCorrect == Spec => []TypeOK
<1>1. LinkInv => TypeOK
  BY DEF LinkInv
<1>2. QED
  BY LinkInvInit, LinkInvStep, <1>1, PTL DEF Spec

\* Whatever is linked, moved and destroyed, in whatever order, each neighbour
\* of a link refers back to it.
THEOREM ListLinksMirror == Spec => []LinksMirror
<1>1. LinkInv => LinksMirror
  BY DEF LinkInv, Sound, Mirror, LinksMirror
<1>2. QED
  BY LinkInvInit, LinkInvStep, <1>1, PTL DEF Spec

\* No link refers to the link of an item or a list that has been destroyed.
THEOREM ListNoDangling == Spec => []NoDangling
<1>1. LinkInv => NoDangling
  BY DEF LinkInv, Sound, Within, NoDangling
<1>2. QED
  BY LinkInvInit, LinkInvStep, <1>1, PTL DEF Spec

\* empty() and get() never call std::abort(); pop_front() and pop_back() do so
\* on an empty list, where the specification does not call them.
THEOREM ListNeverAborts == Spec => []NeverAborts
<1>1. LinkInv => NeverAborts
  BY DEF LinkInv, Anchored, Owned, NeverAborts
<1>2. QED
  BY LinkInvInit, LinkInvStep, <1>1, PTL DEF Spec

\* Following m_next never returns to a link, nor goes from one list into
\* another: the loop of clear() meets no item twice and none of another list.
THEOREM ListAcyclic == Spec => [](Acyclic(links) /\ Homed(links))
<1>1. LinkInv => Acyclic(links) /\ Homed(links)
  BY DEF LinkInv, Sound
<1>2. QED
  BY LinkInvInit, LinkInvStep, <1>1, PTL DEF Spec
=============================================================================
