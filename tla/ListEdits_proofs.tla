-------------------------- MODULE ListEdits_proofs --------------------------
(***************************************************************************)
(* What the links of a list link is a sequence of items.  What the         *)
(* operations that link and unlink items do to it, for any items and       *)
(* lists.                                                                  *)
(***************************************************************************)
EXTENDS IntrusiveList_proofs

USE SMTT(100), ZenonT(100)

-----------------------------------------------------------------------------
(* The lists as sequences.                                                 *)

\* Chain without the node in front of the first item and the one after the last.
Linked(n, l, w) ==
    /\ Len(w) = 0 => n[m_head(l)] = m_tail(l)
    /\ Len(w) > 0 => n[m_head(l)] = w[1] /\ n[w[Len(w)]] = m_tail(l)
    /\ \A i \in 1 .. (Len(w) - 1) : n[w[i]] = w[i + 1]

\* The lists ls hold the items c says, no item is in two places, and every item
\* that is linked is in one.
Holds(n, ls, c) ==
    /\ c \in [List -> Seq(Item)]
    /\ \A l \in ls : Linked(n, l, c[l])
    /\ \A l \in List \ ls : c[l] = <<>>
    /\ \A l, k \in List : \A i \in 1 .. Len(c[l]), j \in 1 .. Len(c[k]) :
           c[l][i] = c[k][j] => l = k /\ i = j
    /\ \A t \in Item : n[t] # None => \E l \in List : \E i \in 1 .. Len(c[l]) : c[l][i] = t

-----------------------------------------------------------------------------
(* What each operation on the links does to the sequences.                 *)

\* The items of a list have a successor, and it is where the sequence says.
HeldAt(n, ls, c, l, i) ==
    /\ c[l] \in Seq(Item) /\ Len(c[l]) \in Nat /\ c[l][i] \in Item
    /\ l \in ls /\ Linked(n, l, c[l])
    /\ n[c[l][i]] = IF i = Len(c[l]) THEN m_tail(l) ELSE c[l][i + 1]
    /\ n[c[l][i]] # None /\ n[c[l][i]] \in Link
    /\ i = 1 => n[m_head(l)] = c[l][i]
    /\ i > 1 => i - 1 \in 1 .. Len(c[l]) /\ n[c[l][i - 1]] = c[l][i]

\* What Holds says of one place of one list.
LEMMA HeldFacts ==
    ASSUME NEW n, NEW ls \in SUBSET List, NEW c, Holds(n, ls, c),
           NEW l \in List, NEW i \in 1 .. Len(c[l])
    PROVE  HeldAt(n, ls, c, l, i)
<1>1. c[l] \in Seq(Item) /\ Len(c[l]) \in Nat /\ c[l][i] \in Item
  BY DEF Holds
<1>2. l \in ls
  BY DEF Holds
<1>3. Linked(n, l, c[l])
  BY <1>2 DEF Holds
<1>4. n[c[l][i]] = IF i = Len(c[l]) THEN m_tail(l) ELSE c[l][i + 1]
  BY <1>1, <1>3 DEF Linked
<1>5. i # Len(c[l]) => c[l][i + 1] \in Item
  BY <1>1
<1>6. n[c[l][i]] # None /\ n[c[l][i]] \in Link
  BY <1>4, <1>5, Distinct
<1>7. i = 1 => n[m_head(l)] = c[l][i]
  BY <1>1, <1>3 DEF Linked
<1>8. i > 1 => i - 1 \in 1 .. Len(c[l]) /\ n[c[l][i - 1]] = c[l][i]
  <2> SUFFICES ASSUME i > 1 PROVE i - 1 \in 1 .. Len(c[l]) /\ n[c[l][i - 1]] = c[l][i]
    OBVIOUS
  <2>1. i - 1 \in 1 .. (Len(c[l]) - 1) /\ (i - 1) + 1 = i /\ i - 1 \in 1 .. Len(c[l])
    BY <1>1
  <2> QED BY <1>3, <2>1 DEF Linked
<1> QED BY <1>1, <1>2, <1>3, <1>4, <1>6, <1>7, <1>8 DEF HeldAt

\* A list whose links an operation leaves alone keeps its sequence.
LEMMA LinkedSame ==
    ASSUME NEW n, NEW m, NEW l \in List, NEW w \in Seq(Item), Linked(n, l, w),
           m[m_head(l)] = n[m_head(l)], \A i \in 1 .. Len(w) : m[w[i]] = n[w[i]]
    PROVE  Linked(m, l, w)
<1>1. Len(w) \in Nat
  OBVIOUS
<1> QED BY <1>1 DEF Linked

\* z is w without its element i.
Dropped(w, i, z) ==
    /\ z \in Seq(Item)
    /\ Len(z) = Len(w) - 1
    /\ \A j \in 1 .. (Len(w) - 1) : z[j] = IF j < i THEN w[j] ELSE w[j + 1]

\* Removing an item that is nowhere in a sequence, or only at i.
LEMMA RemovedFacts ==
    ASSUME NEW w \in Seq(Item), NEW t \in Item
    PROVE  /\ (\A i \in 1 .. Len(w) : w[i] # t) => Abstract!Removed(w, t) = w
           /\ \A i \in 1 .. Len(w) :
                 w[i] = t /\ (\A j \in 1 .. Len(w) : w[j] = t => j = i) =>
                    Dropped(w, i, Abstract!Removed(w, t))
<1>1. Len(w) \in Nat /\ DOMAIN w = 1 .. Len(w) /\ w \in [1 .. Len(w) -> Item]
  OBVIOUS
<1>2. (\A i \in 1 .. Len(w) : w[i] # t) => Abstract!Removed(w, t) = w
  BY <1>1, ZenonT(100) DEF Abstract!Removed
<1>3. ASSUME NEW m \in 1 .. Len(w), w[m] = t, \A j \in 1 .. Len(w) : w[j] = t => j = m
      PROVE  Dropped(w, m, Abstract!Removed(w, t))
  <2>1. /\ ~ \A i \in DOMAIN w : w[i] # t
        /\ (CHOOSE i \in DOMAIN w : w[i] = t) = m
    BY <1>1, <1>3
  <2>2. PICK z : z = [j \in 1 .. (Len(w) - 1) |-> IF j < m THEN w[j] ELSE w[j + 1]]
    BY ZenonT(100)
  <2>3. Abstract!Removed(w, t) = z
    BY <2>1, <2>2, ZenonT(100) DEF Abstract!Removed
  <2>4. \A j \in 1 .. (Len(w) - 1) : (IF j < m THEN w[j] ELSE w[j + 1]) \in Item
    BY <1>1
  <2>5. Len(w) - 1 \in Nat
    BY <1>1
  <2>6. z \in [1 .. (Len(w) - 1) -> Item]
    BY <2>2, <2>4
  <2>7. z \in Seq(Item) /\ Len(z) = Len(w) - 1
    BY <2>5, <2>6
  <2> QED BY <2>2, <2>3, <2>7 DEF Dropped
<1> QED BY <1>2, <1>3

\* List l, of ls or new, has the items z now, and the other lists of ls and their
\* items are as they were.
Replaces(n, m, ls, c, l, z) ==
    /\ l \in List /\ z \in Seq(Item) /\ Linked(m, l, z)
    /\ \A k \in ls \ {l} : /\ m[m_head(k)] = n[m_head(k)]
                           /\ \A j \in 1 .. Len(c[k]) : m[c[k][j]] = n[c[k][j]]
    /\ \A i, j \in 1 .. Len(z) : z[i] = z[j] => i = j
    /\ \A k \in List \ {l} : \A i \in 1 .. Len(z), j \in 1 .. Len(c[k]) : z[i] # c[k][j]
    /\ \A t \in Item : m[t] # None =>
           \/ \E i \in 1 .. Len(z) : z[i] = t
           \/ \E k \in List \ {l} : \E j \in 1 .. Len(c[k]) : c[k][j] = t

\* An operation on one list.
LEMMA OneChanges ==
    ASSUME NEW n, NEW m, NEW ls \in SUBSET List, NEW c, Holds(n, ls, c),
           NEW l, NEW z, Replaces(n, m, ls, c, l, z), NEW ks, ks = ls \cup {l},
           NEW d, d = [c EXCEPT ![l] = z]
    PROVE  Holds(m, ks, d)
<1>0. c \in [List -> Seq(Item)] /\ l \in List /\ z \in Seq(Item) /\ Linked(m, l, z)
  BY DEF Holds, Replaces
<1>1. d \in [List -> Seq(Item)] /\ d[l] = z /\ \A k \in List \ {l} : d[k] = c[k]
  BY <1>0
<1>2. ASSUME NEW k \in ks PROVE Linked(m, k, d[k])
  <2>1. CASE k = l
    BY <1>0, <1>1, <2>1
  <2>2. CASE k # l
    <3>1. k \in ls /\ k \in List
      BY <2>2
    <3>2. c[k] \in Seq(Item) /\ Linked(n, k, c[k]) /\ d[k] = c[k]
      BY <1>0, <1>1, <2>2, <3>1 DEF Holds
    <3>3. m[m_head(k)] = n[m_head(k)] /\ \A j \in 1 .. Len(c[k]) : m[c[k][j]] = n[c[k][j]]
      BY <2>2, <3>1 DEF Replaces
    <3>4. Linked(m, k, c[k])
      BY <3>1, <3>2, <3>3, LinkedSame
    <3> QED BY <3>2, <3>4
  <2> QED BY <2>1, <2>2
<1>3. \A k \in List \ ks : d[k] = <<>>
  BY <1>1 DEF Holds
<1>4. ASSUME NEW h \in List, NEW k \in List, NEW i \in 1 .. Len(d[h]), NEW j \in 1 .. Len(d[k]),
             d[h][i] = d[k][j]
      PROVE  h = k /\ i = j
  <2>0. /\ \A x, y \in 1 .. Len(z) : z[x] = z[y] => x = y
        /\ \A g \in List \ {l} : \A x \in 1 .. Len(z), y \in 1 .. Len(c[g]) : z[x] # c[g][y]
    BY DEF Replaces
  <2>1. CASE h # l /\ k # l
    <3>1. d[h] = c[h] /\ d[k] = c[k]
      BY <1>1, <2>1
    <3> QED BY <1>4, <3>1 DEF Holds
  <2>2. CASE h = l /\ k = l
    BY <1>1, <1>4, <2>0, <2>2
  <2>3. CASE h = l /\ k # l
    BY <1>1, <1>4, <2>0, <2>3
  <2>4. CASE h # l /\ k = l
    BY <1>1, <1>4, <2>0, <2>4
  <2> QED BY <2>1, <2>2, <2>3, <2>4
<1>5. ASSUME NEW t \in Item, m[t] # None
      PROVE  \E k \in List : \E i \in 1 .. Len(d[k]) : d[k][i] = t
  <2>1. CASE \E i \in 1 .. Len(z) : z[i] = t
    BY <1>0, <1>1, <2>1
  <2>2. CASE \E k \in List \ {l} : \E j \in 1 .. Len(c[k]) : c[k][j] = t
    BY <1>1, <2>2
  <2> QED BY <1>5, <2>1, <2>2 DEF Replaces
<1> QED BY <1>1, <1>2, <1>3, <1>4, <1>5 DEF Holds

\* An operation that changes no reference changes no list.
LEMMA NoneChanges ==
    ASSUME NEW n, NEW m, NEW ls \in SUBSET List, NEW c, Holds(n, ls, c),
           \A y \in Link : m[y] = n[y]
    PROVE  Holds(m, ls, c)
<1>1. ASSUME NEW k \in ls PROVE Linked(m, k, c[k])
  <2>1. c[k] \in Seq(Item) /\ Linked(n, k, c[k]) /\ m_head(k) \in Link
    BY Distinct DEF Holds
  <2>2. \A j \in 1 .. Len(c[k]) : c[k][j] \in Link
    BY <2>1, Distinct
  <2> QED BY <2>1, <2>2, LinkedSame
<1>2. \A t \in Item : m[t] = n[t]
  BY Distinct
<1> QED BY <1>1, <1>2 DEF Holds

\* The link before an item of a list.
PrevAt(s, c, l, i) == s.prev[c[l][i]] = IF i = 1 THEN m_head(l) ELSE c[l][i - 1]

\* m_prev of a held item is the item before it, or m_head.
LEMMA HeldPrev ==
    ASSUME NEW s, NEW live, Sound(s, live), NEW ls \in SUBSET List, NEW c,
           Holds(s.next, ls, c), NEW l \in List, NEW i \in 1 .. Len(c[l])
    PROVE  PrevAt(s, c, l, i)
<1>1. PICK n : n = s.next
  OBVIOUS
<1>0. Holds(n, ls, c)
  BY <1>1
<1>2. /\ c[l][i] \in Item /\ Len(c[l]) \in Nat
      /\ i = 1 => n[m_head(l)] = c[l][i]
      /\ i > 1 => i - 1 \in 1 .. Len(c[l]) /\ n[c[l][i - 1]] = c[l][i]
  <2>1. HeldAt(n, ls, c, l, i)
    BY <1>0, HeldFacts, ZenonT(100)
  <2> QED BY <2>1 DEF HeldAt
<1>3. i > 1 => c[l][i - 1] \in Link
  <2>1. c[l] \in Seq(Item) /\ Item \subseteq Link
    BY <1>0, Distinct DEF Holds
  <2> QED BY <1>2, <2>1
<1>4. m_head(l) \in Link /\ c[l][i] \in Link
  BY <1>2, Distinct
<1>5. \A x, y \in Link : n[x] = y => s.prev[y] = x
  BY <1>1 DEF Sound, Mirror
<1> QED BY <1>2, <1>3, <1>4, <1>5 DEF PrevAt

\* remove() takes an item out of the list that has it, if one does.
LEMMA RemoveHolds ==
    ASSUME NEW s, NEW live, Sound(s, live), NEW ls \in SUBSET List, NEW c,
           Holds(s.next, ls, c), NEW t \in Item,
           NEW d, d = [l \in List |-> Abstract!Removed(c[l], t)]
    PROVE  Holds(remove(s, t).next, ls, d)
<1>0. PICK n, m : n = s.next /\ m = remove(s, t).next
  OBVIOUS
<1>1. Holds(n, ls, c) /\ c \in [List -> Seq(Item)]
  BY <1>0 DEF Holds
<1>2. \A y \in Link : m[y] = IF y = t THEN None ELSE IF y = s.prev[t] THEN n[t] ELSE n[y]
  BY <1>0, RemoveValue, Distinct DEF Sound
<1>3. \A l \in List : \A i \in 1 .. Len(c[l]) : HeldAt(n, ls, c, l, i)
  BY <1>1, HeldFacts, ZenonT(100)
<1>4. \A l \in List : (\A i \in 1 .. Len(c[l]) : c[l][i] # t) => Abstract!Removed(c[l], t) = c[l]
  BY <1>1, RemovedFacts
<1>5. CASE n[t] = None
  <2>1. s.prev[t] = None
    BY <1>0, <1>5 DEF Sound, Paired
  <2>2. \A y \in Link : m[y] = n[y]
    BY <1>2, <1>5, <2>1, Distinct
  <2>3. \A l \in List : \A i \in 1 .. Len(c[l]) : c[l][i] # t
    BY <1>3, <1>5 DEF HeldAt
  <2>4. d = c
    BY <1>1, <1>4, <2>3
  <2>5. Holds(m, ls, c)
    BY <1>1, <2>2, NoneChanges
  <2> QED BY <1>0, <2>4, <2>5
<1>6. CASE n[t] # None
  <2>1. PICK l \in List : \E i \in 1 .. Len(c[l]) : c[l][i] = t
    BY <1>1, <1>6 DEF Holds
  <2>2. PICK i \in 1 .. Len(c[l]) : c[l][i] = t
    BY <2>1
  <2>3. PICK w, z, p : w = c[l] /\ z = Abstract!Removed(w, t) /\ p = s.prev[t]
    OBVIOUS
  <2>4. /\ w \in Seq(Item) /\ Len(w) \in Nat /\ l \in ls /\ Linked(n, l, w)
        /\ i \in 1 .. Len(w) /\ w[i] = t
        /\ n[t] = IF i = Len(w) THEN m_tail(l) ELSE w[i + 1]
    <3>1. HeldAt(n, ls, c, l, i)
      BY <1>3
    <3> QED BY <2>2, <2>3, <3>1 DEF HeldAt
  <2>5. p = IF i = 1 THEN m_head(l) ELSE w[i - 1]
    <3>1. PrevAt(s, c, l, i)
      BY <2>2, HeldPrev, ZenonT(100)
    <3> QED BY <2>2, <2>3, <3>1 DEF PrevAt
  <2>6. \A j, k \in 1 .. Len(w) : w[j] = w[k] => j = k
    BY <1>1, <2>3 DEF Holds
  <2>7. \A k \in List \ {l} : \A j \in 1 .. Len(c[k]), x \in 1 .. Len(w) : c[k][j] # w[x]
    BY <1>1, <2>3 DEF Holds
  <2>8. /\ z \in Seq(Item) /\ Len(z) = Len(w) - 1
        /\ \A j \in 1 .. (Len(w) - 1) : z[j] = IF j < i THEN w[j] ELSE w[j + 1]
    <3>1. \A j \in 1 .. Len(w) : w[j] = t => j = i
      BY <2>4, <2>6
    <3>2. Dropped(w, i, z)
      BY <2>3, <2>4, <3>1, RemovedFacts, ZenonT(100)
    <3> QED BY <3>2 DEF Dropped
  <2>9. d = [c EXCEPT ![l] = z]
    <3>1. \A k \in List \ {l} : Abstract!Removed(c[k], t) = c[k]
      BY <1>4, <2>4, <2>7
    <3> QED BY <1>1, <2>3, <3>1, ZenonT(100)
  <2>10. /\ \A j \in 1 .. Len(w) : w[j] \in Link /\ w[j] \in Item
         /\ \A k \in List : m_head(k) \in Link /\ m_head(k) \notin Item
         /\ \A k \in List : k # l => m_head(k) # m_head(l)
    BY <2>4, Distinct
  <2>11. ASSUME NEW k \in ls \ {l}
         PROVE  /\ m[m_head(k)] = n[m_head(k)]
                /\ \A j \in 1 .. Len(c[k]) : m[c[k][j]] = n[c[k][j]]
    <3>1. m_head(k) # t /\ m_head(k) # p /\ m_head(k) \in Link
      BY <2>4, <2>5, <2>10
    <3>2. ASSUME NEW j \in 1 .. Len(c[k]) PROVE m[c[k][j]] = n[c[k][j]]
      <4>1. c[k][j] \in Item /\ c[k][j] \in Link
        BY <1>1, Distinct
      <4>2. c[k][j] # t
        BY <2>4, <2>7
      <4>3. c[k][j] # p
        BY <2>4, <2>5, <2>7, <2>10, <4>1
      <4> QED BY <1>2, <2>3, <4>1, <4>2, <4>3
    <3> QED BY <1>2, <2>3, <3>1, <3>2
  <2>12. m[m_head(l)] = IF i = 1 THEN n[t] ELSE n[m_head(l)]
    BY <1>2, <2>3, <2>4, <2>5, <2>10
  <2>13. ASSUME NEW j \in 1 .. Len(w), j # i
         PROVE  m[w[j]] = IF j = i - 1 THEN n[t] ELSE n[w[j]]
    <3>1. w[j] # t /\ w[j] \in Link /\ w[j] # m_head(l)
      BY <2>4, <2>6, <2>10, <2>13
    <3>2. w[j] = p <=> j = i - 1
      BY <2>4, <2>5, <2>6, <2>13, <3>1
    <3> QED BY <1>2, <2>3, <3>1, <3>2
  <2>14. Linked(m, l, z)
    <3>1. Len(z) = 0 => m[m_head(l)] = m_tail(l)
      <4> SUFFICES ASSUME Len(z) = 0 PROVE m[m_head(l)] = m_tail(l)
        OBVIOUS
      <4>0. Len(w) \in Nat /\ i \in 1 .. Len(w) /\ Len(w) - 1 = 0
        <5>1. Len(z) = Len(w) - 1
          BY <2>8
        <5> QED BY <2>4, <5>1, ZenonT(100)
      <4>1. i = 1 /\ i = Len(w)
        <5>1. PICK q \in Nat : q = Len(w)
          BY <4>0
        <5>2. i \in 1 .. q /\ q - 1 = 0
          BY <4>0, <5>1
        <5>3. q = 1
          BY <5>2
        <5>4. i = 1
          BY <5>2, <5>3
        <5> QED BY <5>1, <5>3, <5>4
      <4> QED BY <2>4, <2>12, <4>1
    <3>2. Len(z) > 0 => m[m_head(l)] = z[1]
      BY <2>4, <2>8, <2>12 DEF Linked
    <3>3. Len(z) > 0 => m[z[Len(z)]] = m_tail(l)
      <4> SUFFICES ASSUME Len(z) > 0 PROVE m[z[Len(z)]] = m_tail(l)
        OBVIOUS
      <4>1. CASE i = Len(w)
        <5>1. z[Len(z)] = w[i - 1] /\ i - 1 \in 1 .. Len(w) /\ i - 1 # i
          BY <2>4, <2>8, <4>1
        <5>2. m[w[i - 1]] = n[t]
          BY <2>13, <5>1
        <5> QED BY <2>4, <4>1, <5>1, <5>2
      <4>2. CASE i # Len(w)
        <5>1. /\ z[Len(z)] = w[Len(w)] /\ Len(w) \in 1 .. Len(w) /\ Len(w) # i
              /\ Len(w) # i - 1
          BY <2>4, <2>8, <4>2
        <5>2. m[w[Len(w)]] = n[w[Len(w)]]
          BY <2>13, <5>1
        <5> QED BY <2>4, <2>8, <5>1, <5>2 DEF Linked
      <4> QED BY <4>1, <4>2
    <3>4. ASSUME NEW j \in 1 .. (Len(z) - 1) PROVE m[z[j]] = z[j + 1]
      <4>0. /\ z[j] = IF j < i THEN w[j] ELSE w[j + 1]
            /\ z[j + 1] = IF j + 1 < i THEN w[j + 1] ELSE w[j + 2]
        BY <2>4, <2>8
      <4>1. CASE j < i - 1
        <5>1. j \in 1 .. (Len(w) - 1) /\ j \in 1 .. Len(w) /\ j # i /\ j # i - 1
          BY <2>4, <2>8, <4>1
        <5>2. m[w[j]] = n[w[j]] /\ n[w[j]] = w[j + 1]
          BY <2>4, <2>13, <5>1 DEF Linked
        <5> QED BY <2>4, <4>0, <4>1, <5>2
      <4>2. CASE j = i - 1
        <5>1. j \in 1 .. Len(w) /\ j # i /\ i # Len(w) /\ i + 1 = j + 2
          BY <2>4, <2>8, <4>2
        <5>2. m[w[j]] = n[t] /\ n[t] = w[i + 1]
          BY <2>4, <2>13, <4>2, <5>1
        <5> QED BY <2>4, <4>0, <4>2, <5>1, <5>2
      <4>3. CASE j >= i
        <5>1. /\ j + 1 \in 1 .. (Len(w) - 1) /\ j + 1 \in 1 .. Len(w) /\ j + 1 # i
              /\ j + 1 # i - 1 /\ (j + 1) + 1 = j + 2
          BY <2>4, <2>8, <4>3
        <5>2. m[w[j + 1]] = n[w[j + 1]] /\ n[w[j + 1]] = w[j + 2]
          BY <2>4, <2>13, <5>1 DEF Linked
        <5> QED BY <2>4, <4>0, <4>3, <5>2
      <4> QED BY <2>4, <4>1, <4>2, <4>3
    <3> QED BY <3>1, <3>2, <3>3, <3>4 DEF Linked
  <2>15. \A j, k \in 1 .. Len(z) : z[j] = z[k] => j = k
    <3> SUFFICES ASSUME NEW j \in 1 .. Len(z), NEW k \in 1 .. Len(z), z[j] = z[k]
                 PROVE  j = k
      OBVIOUS
    <3>1. PICK a \in 1 .. Len(w) : a = IF j < i THEN j ELSE j + 1
      BY <2>4, <2>8
    <3>2. PICK b \in 1 .. Len(w) : b = IF k < i THEN k ELSE k + 1
      BY <2>4, <2>8
    <3>3. z[j] = w[a] /\ z[k] = w[b]
      BY <2>4, <2>8, <3>1, <3>2
    <3>4. a = b
      BY <2>6, <3>3, ZenonT(100)
    <3> QED BY <3>1, <3>2, <3>4
  <2>16. ASSUME NEW k \in List \ {l}, NEW j \in 1 .. Len(z), NEW x \in 1 .. Len(c[k])
         PROVE  z[j] # c[k][x]
    <3>1. PICK a \in 1 .. Len(w) : a = IF j < i THEN j ELSE j + 1
      BY <2>4, <2>8
    <3>2. z[j] = w[a]
      BY <2>4, <2>8, <3>1
    <3> QED BY <2>7, <3>2
  <2>17. ASSUME NEW y \in Item, m[y] # None
         PROVE  \/ \E j \in 1 .. Len(z) : z[j] = y
                \/ \E k \in List \ {l} : \E j \in 1 .. Len(c[k]) : c[k][j] = y
    <3>1. y # t /\ n[y] # None
      <4>1. y \in Link
        BY Distinct
      <4>2. y # t
        BY <1>2, <2>17, <4>1
      <4>3. CASE y = p
        <5>1. i > 1 /\ y = w[i - 1] /\ i - 1 \in 1 .. Len(c[l])
          BY <2>3, <2>4, <2>5, <2>10, <4>3
        <5>2. HeldAt(n, ls, c, l, i - 1)
          BY <1>3, <5>1
        <5> QED BY <2>3, <4>2, <5>1, <5>2 DEF HeldAt
      <4>4. CASE y # p
        BY <1>2, <2>3, <2>17, <4>1, <4>2, <4>4
      <4> QED BY <4>3, <4>4
    <3>2. PICK k \in List : \E j \in 1 .. Len(c[k]) : c[k][j] = y
      BY <1>1, <3>1 DEF Holds
    <3>3. PICK j \in 1 .. Len(c[k]) : c[k][j] = y
      BY <3>2
    <3>4. CASE k # l
      BY <3>3, <3>4
    <3>5. CASE k = l
      <4>1. j \in 1 .. Len(w) /\ w[j] = y /\ j # i
        BY <2>3, <2>4, <3>1, <3>3, <3>5
      <4>2. PICK a \in 1 .. Len(z) : a = IF j < i THEN j ELSE j - 1
        BY <2>4, <2>8, <4>1
      <4>3. z[a] = w[j]
        BY <2>4, <2>8, <4>1, <4>2
      <4> QED BY <4>1, <4>3
    <3> QED BY <3>4, <3>5
  <2>18. Replaces(n, m, ls, c, l, z)
    BY <2>4, <2>8, <2>11, <2>14, <2>15, <2>16, <2>17 DEF Replaces
  <2>19. ls = ls \cup {l}
    BY <2>4
  <2>20. Holds(m, ls, d)
    BY <1>1, <2>9, <2>18, <2>19, OneChanges, ZenonT(100)
  <2> QED BY <1>0, <2>20
<1> QED BY <1>5, <1>6

\* List l had the items w and has the items z, which are those and t; of the links
\* only that of t and that of a, of the list, are changed.
Inserts(n, m, l, w, z, t, a) ==
    /\ n[t] = None /\ z \in Seq(Item) /\ Linked(m, l, z)
    /\ \A i \in 1 .. Len(z) : z[i] = t \/ \E j \in 1 .. Len(w) : z[i] = w[j]
    /\ \A j \in 1 .. Len(w) : \E i \in 1 .. Len(z) : z[i] = w[j]
    /\ \E i \in 1 .. Len(z) : z[i] = t
    /\ \A i, j \in 1 .. Len(z) : z[i] = z[j] => i = j
    /\ a = m_head(l) \/ \E j \in 1 .. Len(w) : w[j] = a
    /\ \A y \in Link : y # a /\ y # t => m[y] = n[y]

\* An item that was in no list becomes one of list l.
LEMMA InsertHolds ==
    ASSUME NEW n, NEW m, NEW ls \in SUBSET List, NEW c, Holds(n, ls, c),
           NEW l \in ls, NEW t \in Item, NEW w, w = c[l], NEW z, NEW a,
           Inserts(n, m, l, w, z, t, a), NEW d, d = [c EXCEPT ![l] = z]
    PROVE  Holds(m, ls, d)
<1>0. /\ n[t] = None /\ z \in Seq(Item) /\ Linked(m, l, z)
      /\ \A i \in 1 .. Len(z) : z[i] = t \/ \E j \in 1 .. Len(w) : z[i] = w[j]
      /\ \A j \in 1 .. Len(w) : \E i \in 1 .. Len(z) : z[i] = w[j]
      /\ \E i \in 1 .. Len(z) : z[i] = t
      /\ \A i, j \in 1 .. Len(z) : z[i] = z[j] => i = j
      /\ a = m_head(l) \/ \E j \in 1 .. Len(w) : w[j] = a
      /\ \A y \in Link : y # a /\ y # t => m[y] = n[y]
  BY DEF Inserts
<1>1. c \in [List -> Seq(Item)] /\ l \in List /\ ls = ls \cup {l}
  BY DEF Holds
<1>2. \A k \in List : \A i \in 1 .. Len(c[k]) : c[k][i] # t
  <2> SUFFICES ASSUME NEW k \in List, NEW i \in 1 .. Len(c[k]) PROVE c[k][i] # t
    OBVIOUS
  <2>1. HeldAt(n, ls, c, k, i)
    BY HeldFacts, ZenonT(100)
  <2> QED BY <1>0, <2>1 DEF HeldAt
<1>3. \A k \in List \ {l} : \A j \in 1 .. Len(c[k]), x \in 1 .. Len(w) : c[k][j] # w[x]
  BY <1>1 DEF Holds
<1>4. \A k \in List \ {l} : \A j \in 1 .. Len(c[k]) : c[k][j] # a
  <2> SUFFICES ASSUME NEW k \in List \ {l}, NEW j \in 1 .. Len(c[k]) PROVE c[k][j] # a
    OBVIOUS
  <2>1. c[k][j] # m_head(l)
    BY <1>1, Distinct
  <2> QED BY <1>0, <1>3, <2>1
<1>5. ASSUME NEW k \in ls \ {l}
      PROVE  /\ m[m_head(k)] = n[m_head(k)]
             /\ \A j \in 1 .. Len(c[k]) : m[c[k][j]] = n[c[k][j]]
  <2>1. m_head(k) \in Link /\ m_head(k) # t /\ m_head(k) # m_head(l)
    BY <1>1, Distinct
  <2>2. \A x \in 1 .. Len(w) : w[x] # m_head(k)
    BY <1>1, Distinct
  <2>3. \A j \in 1 .. Len(c[k]) : c[k][j] \in Link
    BY <1>1, Distinct
  <2> QED BY <1>0, <1>2, <1>4, <2>1, <2>2, <2>3
<1>6. ASSUME NEW k \in List \ {l}, NEW i \in 1 .. Len(z), NEW j \in 1 .. Len(c[k])
      PROVE  z[i] # c[k][j]
  BY <1>0, <1>2, <1>3
<1>7. ASSUME NEW y \in Item, m[y] # None
      PROVE  \/ \E i \in 1 .. Len(z) : z[i] = y
             \/ \E k \in List \ {l} : \E j \in 1 .. Len(c[k]) : c[k][j] = y
  <2>1. y \in Link /\ y # m_head(l)
    BY <1>1, Distinct
  <2>2. CASE y = t
    BY <1>0, <2>2
  <2>3. CASE y = a
    BY <1>0, <2>1, <2>3
  <2>4. CASE y # t /\ y # a
    <3>1. n[y] # None
      BY <1>0, <1>7, <2>1, <2>4
    <3>2. PICK k \in List : \E j \in 1 .. Len(c[k]) : c[k][j] = y
      BY <3>1 DEF Holds
    <3> QED BY <1>0, <3>2
  <2> QED BY <2>2, <2>3, <2>4
<1>8. Replaces(n, m, ls, c, l, z)
  BY <1>0, <1>1, <1>5, <1>6, <1>7, ZenonT(100) DEF Replaces
<1> QED BY <1>1, <1>8, OneChanges, ZenonT(100)

\* place_after(m_head) of an item in no list.
LEMMA FrontHolds ==
    ASSUME NEW n, NEW m, NEW ls \in SUBSET List, NEW c, Holds(n, ls, c),
           NEW l \in ls, NEW t \in Item, n[t] = None,
           \A y \in Link : m[y] = IF y = m_head(l) THEN t
                                  ELSE IF y = t THEN n[m_head(l)] ELSE n[y],
           NEW d, d = [c EXCEPT ![l] = <<t>> \o c[l]]
    PROVE  Holds(m, ls, d)
<1>1. PICK w, z : w = c[l] /\ z = <<t>> \o w
  BY ZenonT(100)
<1>2. c \in [List -> Seq(Item)] /\ w \in Seq(Item) /\ Len(w) \in Nat /\ Linked(n, l, w)
  BY <1>1 DEF Holds
<1>3. /\ z \in Seq(Item) /\ Len(z) = Len(w) + 1 /\ z[1] = t
      /\ \A j \in 2 .. (Len(w) + 1) : z[j] = w[j - 1]
  BY <1>1, <1>2
<1>4. \A j \in 1 .. Len(w) : w[j] # t /\ w[j] \in Item /\ w[j] \in Link
  <2> SUFFICES ASSUME NEW j \in 1 .. Len(w) PROVE w[j] # t /\ w[j] \in Item /\ w[j] \in Link
    OBVIOUS
  <2>1. HeldAt(n, ls, c, l, j)
    BY <1>1, HeldFacts, ZenonT(100)
  <2> QED BY <1>1, <2>1, Distinct DEF HeldAt
<1>5. /\ m_head(l) \in Link /\ m_head(l) # t /\ t \in Link
      /\ \A j \in 1 .. Len(w) : w[j] # m_head(l)
  BY <1>4, Distinct
<1>6. /\ m[m_head(l)] = t /\ m[t] = n[m_head(l)]
      /\ \A j \in 1 .. Len(w) : m[w[j]] = n[w[j]]
  BY <1>4, <1>5
<1>7. Linked(m, l, z)
  <2>1. Len(z) > 0 /\ Len(z) # 0 /\ m[m_head(l)] = z[1]
    BY <1>2, <1>3, <1>6
  <2>2. m[z[Len(z)]] = m_tail(l)
    <3>1. CASE Len(w) = 0
      BY <1>2, <1>3, <1>6, <3>1 DEF Linked
    <3>2. CASE Len(w) # 0
      <4>1. z[Len(z)] = w[Len(w)] /\ Len(w) \in 1 .. Len(w)
        BY <1>2, <1>3, <3>2
      <4> QED BY <1>2, <1>6, <3>2, <4>1 DEF Linked
    <3> QED BY <3>1, <3>2
  <2>3. ASSUME NEW j \in 1 .. (Len(z) - 1) PROVE m[z[j]] = z[j + 1]
    <3>1. j \in 1 .. Len(w) /\ z[j + 1] = w[j]
      BY <1>2, <1>3
    <3>2. CASE j = 1
      BY <1>2, <1>3, <1>6, <3>1, <3>2 DEF Linked
    <3>3. CASE j # 1
      <4>1. j - 1 \in 1 .. (Len(w) - 1) /\ j - 1 \in 1 .. Len(w) /\ (j - 1) + 1 = j
        BY <1>2, <3>1, <3>3
      <4>2. z[j] = w[j - 1]
        BY <1>2, <1>3, <3>1, <3>3
      <4>3. n[w[j - 1]] = w[j]
        BY <1>2, <4>1 DEF Linked
      <4> QED BY <1>6, <3>1, <4>1, <4>2, <4>3
    <3> QED BY <3>2, <3>3
  <2> QED BY <2>1, <2>2, <2>3 DEF Linked
<1>8. \A i, j \in 1 .. Len(w) : w[i] = w[j] => i = j
  BY <1>1 DEF Holds
<1>9. ASSUME NEW i \in 1 .. Len(z) PROVE z[i] = t \/ \E j \in 1 .. Len(w) : z[i] = w[j]
  <2>1. i = 1 \/ (i \in 2 .. (Len(w) + 1) /\ i - 1 \in 1 .. Len(w))
    BY <1>2, <1>3
  <2> QED BY <1>3, <2>1
<1>10. ASSUME NEW j \in 1 .. Len(w) PROVE \E i \in 1 .. Len(z) : z[i] = w[j]
  <2>0. /\ j + 1 \in 1 .. Len(z) /\ j + 1 \in 2 .. (Len(w) + 1)
        /\ (j + 1) - 1 = j
    BY <1>2, <1>3
  <2>1. j + 1 \in 1 .. Len(z) /\ z[j + 1] = w[j]
    BY <1>3, <2>0
  <2> QED BY <2>1
<1>11. 1 \in 1 .. Len(z) /\ z[1] = t
  BY <1>2, <1>3
<1>12. ASSUME NEW i \in 1 .. Len(z), NEW j \in 1 .. Len(z), z[i] = z[j] PROVE i = j
  <2>1. CASE i = 1 \/ j = 1
    <3>1. \A x \in 2 .. (Len(w) + 1) : z[x] # t
      <4> SUFFICES ASSUME NEW x \in 2 .. (Len(w) + 1) PROVE z[x] # t
        OBVIOUS
      <4>1. x - 1 \in 1 .. Len(w)
        BY <1>2
      <4> QED BY <1>3, <1>4, <4>1
    <3>2. \A x \in 1 .. Len(z) : x = 1 \/ x \in 2 .. (Len(w) + 1)
      BY <1>2, <1>3
    <3> QED BY <1>3, <1>12, <2>1, <3>1, <3>2
  <2>2. CASE i # 1 /\ j # 1
    <3>1. i - 1 \in 1 .. Len(w) /\ j - 1 \in 1 .. Len(w) /\ z[i] = w[i - 1] /\ z[j] = w[j - 1]
      BY <1>2, <1>3, <2>2
    <3>2. i - 1 = j - 1
      BY <1>8, <1>12, <3>1, ZenonT(100)
    <3> QED BY <1>2, <1>3, <3>2
  <2> QED BY <2>1, <2>2
<1>13. \A y \in Link : y # m_head(l) /\ y # t => m[y] = n[y]
  OBVIOUS
<1>14. d = [c EXCEPT ![l] = z]
  BY <1>1
<1>15. Inserts(n, m, l, w, z, t, m_head(l))
  BY <1>3, <1>7, <1>9, <1>10, <1>11, <1>12, <1>13, ZenonT(100) DEF Inserts
<1>16. Holds(n, ls, c) /\ ls \in SUBSET List /\ l \in ls /\ t \in Item /\ w = c[l]
  BY <1>1
<1> QED BY ONLY <1>14, <1>15, <1>16, InsertHolds, ZenonT(100)

\* Link t between m_tail of list l and a, the link that was before it.
PutLast(n, m, l, t, a) ==
    /\ a \in Link /\ \A x \in Link : n[x] = m_tail(l) => x = a
    /\ \A y \in Link : m[y] = IF y = a THEN t ELSE IF y = t THEN m_tail(l) ELSE n[y]

\* place_before(m_tail) of an item in no list.
LEMMA BackHolds ==
    ASSUME NEW n, NEW m, NEW ls \in SUBSET List, NEW c, Holds(n, ls, c),
           NEW l \in ls, NEW t \in Item, n[t] = None,
           NEW a, PutLast(n, m, l, t, a), NEW d, d = [c EXCEPT ![l] = c[l] \o <<t>>]
    PROVE  Holds(m, ls, d)
<1>0. /\ a \in Link /\ \A x \in Link : n[x] = m_tail(l) => x = a
      /\ \A y \in Link : m[y] = IF y = a THEN t ELSE IF y = t THEN m_tail(l) ELSE n[y]
  BY DEF PutLast
<1>1. PICK w, z : w = c[l] /\ z = w \o <<t>>
  BY ZenonT(100)
<1>2. c \in [List -> Seq(Item)] /\ w \in Seq(Item) /\ Len(w) \in Nat /\ Linked(n, l, w)
  BY <1>1 DEF Holds
<1>3. /\ z \in Seq(Item) /\ Len(z) = Len(w) + 1 /\ z[Len(w) + 1] = t
      /\ \A j \in 1 .. Len(w) : z[j] = w[j]
  BY <1>1, <1>2
<1>4. \A j \in 1 .. Len(w) : w[j] # t /\ w[j] \in Item /\ w[j] \in Link
  <2> SUFFICES ASSUME NEW j \in 1 .. Len(w) PROVE w[j] # t /\ w[j] \in Item /\ w[j] \in Link
    OBVIOUS
  <2>1. HeldAt(n, ls, c, l, j)
    BY <1>1, HeldFacts, ZenonT(100)
  <2> QED BY <1>1, <2>1, Distinct DEF HeldAt
<1>5. /\ m_head(l) \in Link /\ m_head(l) # t /\ t \in Link
      /\ \A j \in 1 .. Len(w) : w[j] # m_head(l)
  BY <1>4, Distinct
<1>6. \A i, j \in 1 .. Len(w) : w[i] = w[j] => i = j
  BY <1>1 DEF Holds
<1>7. a = IF Len(w) = 0 THEN m_head(l) ELSE w[Len(w)]
  <2>1. CASE Len(w) = 0
    BY <1>0, <1>2, <1>5, <2>1 DEF Linked
  <2>2. CASE Len(w) # 0
    <3>1. Len(w) \in 1 .. Len(w) /\ Len(w) > 0
      BY <1>2, <2>2
    <3>2. w[Len(w)] \in Link /\ n[w[Len(w)]] = m_tail(l)
      BY <1>2, <1>4, <3>1 DEF Linked
    <3> QED BY <1>0, <2>2, <3>2
  <2> QED BY <2>1, <2>2
<1>8. m[t] = m_tail(l) /\ m[a] = t
  <2>1. a # t
    BY <1>2, <1>4, <1>5, <1>7
  <2> QED BY <1>0, <1>5, <2>1
<1>9. Linked(m, l, z)
  <2>1. Len(z) > 0 /\ Len(z) # 0 /\ m[z[Len(z)]] = m_tail(l)
    BY <1>2, <1>3, <1>8
  <2>2. m[m_head(l)] = z[1]
    <3>1. CASE Len(w) = 0
      BY <1>3, <1>7, <1>8, <3>1
    <3>2. CASE Len(w) # 0
      <4>1. 1 \in 1 .. Len(w) /\ Len(w) \in 1 .. Len(w) /\ Len(w) > 0
        BY <1>2, <3>2
      <4>2. m_head(l) # a
        BY <1>5, <1>7, <3>2, <4>1
      <4>3. m[m_head(l)] = n[m_head(l)]
        BY <1>0, <1>5, <4>2
      <4> QED BY <1>2, <1>3, <4>1, <4>3 DEF Linked
    <3> QED BY <3>1, <3>2
  <2>3. ASSUME NEW j \in 1 .. (Len(z) - 1) PROVE m[z[j]] = z[j + 1]
    <3>1. j \in 1 .. Len(w) /\ z[j] = w[j]
      BY <1>2, <1>3
    <3>2. CASE j = Len(w)
      BY <1>2, <1>3, <1>7, <1>8, <3>1, <3>2
    <3>3. CASE j # Len(w)
      <4>1. j \in 1 .. (Len(w) - 1) /\ Len(w) \in 1 .. Len(w) /\ j + 1 \in 1 .. Len(w)
        BY <1>2, <3>1, <3>3
      <4>2. w[j] # a
        BY <1>2, <1>6, <1>7, <3>1, <3>3, <4>1
      <4>3. m[w[j]] = n[w[j]] /\ n[w[j]] = w[j + 1]
        BY <1>0, <1>2, <1>4, <3>1, <4>1, <4>2 DEF Linked
      <4> QED BY <1>3, <3>1, <4>1, <4>3
    <3> QED BY <3>2, <3>3
  <2> QED BY <2>1, <2>2, <2>3 DEF Linked
<1>10. ASSUME NEW i \in 1 .. Len(z) PROVE z[i] = t \/ \E j \in 1 .. Len(w) : z[i] = w[j]
  <2>1. i = Len(w) + 1 \/ i \in 1 .. Len(w)
    BY <1>2, <1>3
  <2> QED BY <1>3, <2>1
<1>11. ASSUME NEW j \in 1 .. Len(w) PROVE \E i \in 1 .. Len(z) : z[i] = w[j]
  <2>1. j \in 1 .. Len(z) /\ z[j] = w[j]
    BY <1>2, <1>3
  <2> QED BY <2>1
<1>12. Len(w) + 1 \in 1 .. Len(z) /\ z[Len(w) + 1] = t
  BY <1>2, <1>3
<1>13. ASSUME NEW i \in 1 .. Len(z), NEW j \in 1 .. Len(z), z[i] = z[j] PROVE i = j
  <2>1. \A x \in 1 .. Len(z) : x = Len(w) + 1 \/ x \in 1 .. Len(w)
    BY <1>2, <1>3
  <2>2. \A x \in 1 .. Len(w) : z[x] # t
    BY <1>3, <1>4
  <2>3. CASE i = Len(w) + 1 \/ j = Len(w) + 1
    BY <1>3, <1>13, <2>1, <2>2, <2>3
  <2>4. CASE i # Len(w) + 1 /\ j # Len(w) + 1
    BY <1>3, <1>6, <1>13, <2>1, <2>4
  <2> QED BY <2>3, <2>4
<1>14. \A y \in Link : y # a /\ y # t => m[y] = n[y]
  BY <1>0
<1>15. d = [c EXCEPT ![l] = z]
  BY <1>1
<1>16. a = m_head(l) \/ \E j \in 1 .. Len(w) : w[j] = a
  BY <1>2, <1>7
<1>17. Inserts(n, m, l, w, z, t, a)
  BY <1>3, <1>9, <1>10, <1>11, <1>12, <1>13, <1>14, <1>16 DEF Inserts
<1>18. Holds(n, ls, c) /\ ls \in SUBSET List /\ l \in ls /\ t \in Item /\ w = c[l]
  BY <1>1
<1> QED BY ONLY <1>15, <1>17, <1>18, InsertHolds, ZenonT(100)

\* push_front() and push_back() move the item to the front or the back of the
\* list, from wherever it was.
LEMMA PushHolds ==
    ASSUME NEW s, NEW live, Sound(s, live), NEW ls \in SUBSET List, Anchored(s, ls),
           NEW c, Holds(s.next, ls, c), NEW l \in ls, NEW t \in Item,
           NEW b, b = [k \in List |-> Abstract!Removed(c[k], t)]
    PROVE  /\ Holds(place_after(s, t, m_head(l)).next, ls, [b EXCEPT ![l] = <<t>> \o b[l]])
           /\ Holds(place_before(s, t, m_tail(l)).next, ls, [b EXCEPT ![l] = b[l] \o <<t>>])
<1> DEFINE r == remove(s, t)
           M == Link \cup {None}
<1>t. t \in Link /\ None \notin Link /\ m_head(l) \in Link /\ m_tail(l) \in Link
  BY Distinct
<1>r. Typed(r) /\ r.next[t] = None
  BY <1>t, RemoveValue DEF Sound
<1>s. Sound(r, live \ {t})
  BY RemoveSound
<1>a. Anchored(r, ls)
  BY RemoveAnchored
<1>y. r.next \in [Link -> M] /\ r.prev \in [Link -> M]
  BY <1>r DEF Typed
<1>m. \A x, y \in Link : r.next[x] = y <=> r.prev[y] = x
  BY <1>s DEF Sound, Mirror
<1>b. Holds(r.next, ls, b)
  BY RemoveHolds, ZenonT(100)
<1>0. place_after(s, t, m_head(l)).next = With(With(r.next, t, r.next[m_head(l)]), m_head(l), t)
  BY DEF place_after
<1>00. place_before(s, t, m_tail(l)).next = With(With(r.next, t, m_tail(l)), r.prev[m_tail(l)], t)
  BY DEF place_before
<1> HIDE DEF r
<1>n. PICK n : n = r.next /\ n \in [Link -> M] /\ Holds(n, ls, b) /\ n[t] = None
  BY <1>r, <1>y, <1>b
<1>1. PICK m : /\ m = place_after(s, t, m_head(l)).next
               /\ \A y \in Link : m[y] = IF y = m_head(l) THEN t
                                         ELSE IF y = t THEN n[m_head(l)] ELSE n[y]
  <2>1. With(With(n, t, n[m_head(l)]), m_head(l), t) = place_after(s, t, m_head(l)).next
    BY <1>0, <1>n
  <2>2. n[m_head(l)] \in M /\ t \in M
    BY <1>n, <1>t
  <2>3. \A y \in Link : With(With(n, t, n[m_head(l)]), m_head(l), t)[y] =
            IF y = m_head(l) THEN t ELSE IF y = t THEN n[m_head(l)] ELSE n[y]
    BY <1>n, <2>2, WithTwice
  <2> QED BY <2>1, <2>3
<1>2. PICK z, a : /\ z = place_before(s, t, m_tail(l)).next
                  /\ a \in Link /\ a = r.prev[m_tail(l)]
                  /\ \A y \in Link : z[y] = IF y = a THEN t
                                            ELSE IF y = t THEN m_tail(l) ELSE n[y]
  <2>1. PICK a \in Link : a = r.prev[m_tail(l)]
    BY <1>y, <1>t, <1>a DEF Anchored
  <2>2. With(With(n, t, m_tail(l)), a, t) = place_before(s, t, m_tail(l)).next
    BY <1>00, <1>n, <2>1
  <2>3. m_tail(l) \in M /\ t \in M
    BY <1>t
  <2>4. \A y \in Link : With(With(n, t, m_tail(l)), a, t)[y] =
            IF y = a THEN t ELSE IF y = t THEN m_tail(l) ELSE n[y]
    BY <1>n, <2>3, WithTwice
  <2> QED BY <2>1, <2>2, <2>4
<1>3. \A x \in Link : n[x] = m_tail(l) => x = r.prev[m_tail(l)]
  BY <1>m, <1>n, <1>t
<1>h. Holds(n, ls, b) /\ n[t] = None /\ ls \in SUBSET List /\ l \in ls /\ t \in Item
  BY <1>n
<1>4. Holds(place_after(s, t, m_head(l)).next, ls, [b EXCEPT ![l] = <<t>> \o b[l]])
  <2>1. PICK q, d : /\ q = place_after(s, t, m_head(l)).next
                    /\ d = [b EXCEPT ![l] = <<t>> \o b[l]]
    BY ZenonT(100)
  <2>2. \A y \in Link : q[y] = IF y = m_head(l) THEN t
                               ELSE IF y = t THEN n[m_head(l)] ELSE n[y]
    BY <1>1, <2>1
  <2>3. d = [b EXCEPT ![l] = <<t>> \o b[l]]
    BY <2>1
  <2>4. Holds(q, ls, d)
    BY ONLY <1>h, <2>2, <2>3, FrontHolds, ZenonT(100)
  <2> QED BY <2>1, <2>4
<1>5. Holds(place_before(s, t, m_tail(l)).next, ls, [b EXCEPT ![l] = b[l] \o <<t>>])
  <2>1. PICK q, d : /\ q = place_before(s, t, m_tail(l)).next
                    /\ d = [b EXCEPT ![l] = b[l] \o <<t>>]
    BY ZenonT(100)
  <2>2. PutLast(n, q, l, t, a)
    BY <1>2, <1>3, <2>1 DEF PutLast
  <2>3. d = [b EXCEPT ![l] = b[l] \o <<t>>]
    BY <2>1
  <2>4. Holds(q, ls, d)
    BY ONLY <1>h, <2>2, <2>3, BackHolds, ZenonT(100)
  <2> QED BY <2>1, <2>4
<1> QED BY <1>4, <1>5

\* m_head followed by m_tail is the chain of no item.
LEMMA EmptyLinked ==
    ASSUME NEW n, NEW l, n[m_head(l)] = m_tail(l)
    PROVE  Linked(n, l, <<>>)
BY DEF Linked

\* A list whose m_head is followed by its m_tail has no item.
LEMMA EmptyHolds ==
    ASSUME NEW n, NEW ls \in SUBSET List, NEW c, Holds(n, ls, c), NEW l \in ls
    PROVE  n[m_head(l)] = m_tail(l) <=> c[l] = <<>>
<1>1. PICK w : w = c[l]
  OBVIOUS
<1>2. w \in Seq(Item) /\ Len(w) \in Nat /\ Linked(n, l, w) /\ l \in List
  BY <1>1 DEF Holds
<1>3. Len(w) > 0 => n[m_head(l)] # m_tail(l)
  <2> SUFFICES ASSUME Len(w) > 0 PROVE n[m_head(l)] # m_tail(l)
    OBVIOUS
  <2>1. w[1] \in Item /\ n[m_head(l)] = w[1]
    BY <1>2 DEF Linked
  <2> QED BY <1>2, <2>1, Distinct
<1>4. Len(w) = 0 => n[m_head(l)] = m_tail(l)
  BY <1>2 DEF Linked
<1>5. w = <<>> <=> Len(w) = 0
  BY <1>2
<1> QED BY <1>1, <1>2, <1>3, <1>4, <1>5

\* A list without items is constructed or destroyed.
LEMMA SentinelHolds ==
    ASSUME NEW n, NEW m, NEW ls \in SUBSET List, NEW c, Holds(n, ls, c), NEW l \in List,
           c[l] = <<>>, NEW ks \in SUBSET List, ks \ {l} = ls \ {l},
           l \in ks => m[m_head(l)] = m_tail(l),
           \A y \in Link : y # m_head(l) => m[y] = n[y]
    PROVE  Holds(m, ks, c)
<1>1. c \in [List -> Seq(Item)]
  BY DEF Holds
<1>2. ASSUME NEW k \in ks PROVE Linked(m, k, c[k])
  <2>1. CASE k = l
    <3>1. m[m_head(k)] = m_tail(k)
      BY <2>1
    <3> QED BY <2>1, <3>1, EmptyLinked
  <2>2. CASE k # l
    <3>1. k \in ls /\ k \in List
      BY <2>2
    <3>2. c[k] \in Seq(Item) /\ Linked(n, k, c[k])
      BY <1>1, <3>1 DEF Holds
    <3>3. m_head(k) \in Link /\ m_head(k) # m_head(l)
      BY <2>2, <3>1, Distinct
    <3>4. \A j \in 1 .. Len(c[k]) : c[k][j] \in Link /\ c[k][j] # m_head(l)
      BY <3>2, Distinct
    <3>5. m[m_head(k)] = n[m_head(k)] /\ \A j \in 1 .. Len(c[k]) : m[c[k][j]] = n[c[k][j]]
      BY <3>3, <3>4
    <3> QED BY <3>1, <3>2, <3>5, LinkedSame
  <2> QED BY <2>1, <2>2
<1>3. \A k \in List \ ks : c[k] = <<>>
  BY DEF Holds
<1>4. \A t \in Item : m[t] = n[t]
  BY Distinct
<1> QED BY <1>1, <1>2, <1>3, <1>4 DEF Holds

\* The references after do_move(): list l has the items of list k, the last of
\* which is g.
Handed(n, m, l, k, g) ==
    /\ g \in Link /\ n[g] = m_tail(k) /\ \A x \in Link : n[x] = m_tail(k) => x = g
    /\ \A y \in Link : m[y] = IF y = m_head(k) THEN m_tail(k)
                              ELSE IF y = g THEN m_tail(l)
                              ELSE IF y = m_head(l) THEN n[m_head(k)] ELSE n[y]

\* do_move(): an empty or new list takes over the items of another.
LEMMA MoveHolds ==
    ASSUME NEW n, NEW m, NEW ls \in SUBSET List, NEW c, Holds(n, ls, c),
           NEW l \in List, NEW k \in ls, l # k, c[l] = <<>>, c[k] # <<>>,
           NEW g, Handed(n, m, l, k, g),
           NEW ks, ks = ls \cup {l}, NEW d, d = [c EXCEPT ![l] = c[k], ![k] = <<>>]
    PROVE  Holds(m, ks, d)
<1>0. /\ g \in Link /\ n[g] = m_tail(k) /\ \A x \in Link : n[x] = m_tail(k) => x = g
      /\ \A y \in Link : m[y] = IF y = m_head(k) THEN m_tail(k)
                                ELSE IF y = g THEN m_tail(l)
                                ELSE IF y = m_head(l) THEN n[m_head(k)] ELSE n[y]
  BY DEF Handed
<1>1. PICK w : w = c[k]
  OBVIOUS
<1>2. /\ c \in [List -> Seq(Item)] /\ w \in Seq(Item) /\ Len(w) \in Nat
      /\ Linked(n, k, w) /\ k \in List
  BY <1>1 DEF Holds
<1>3. Len(w) > 0 /\ Len(w) \in 1 .. Len(w) /\ 1 \in 1 .. Len(w)
  <2>1. Len(w) # 0
    BY <1>1, <1>2
  <2> QED BY <1>2, <2>1
<1>4. d \in [List -> Seq(Item)] /\ d[l] = w /\ d[k] = <<>> /\ \A h \in List \ {l, k} : d[h] = c[h]
  <2>1. <<>> \in Seq(Item)
    OBVIOUS
  <2> QED BY <1>1, <1>2, <2>1
<1>5. \A h \in List : m_head(h) \in Link /\ m_head(h) \notin Item
  BY Distinct
<1>6. \A h \in List : \A j \in 1 .. Len(c[h]) : c[h][j] \in Item /\ c[h][j] \in Link
  BY <1>2, Distinct
<1>7. g = w[Len(w)] /\ g \in Item
  BY <1>0, <1>1, <1>2, <1>3, <1>6 DEF Linked
<1>8. \A i, j \in 1 .. Len(w) : w[i] = w[j] => i = j
  BY <1>1, <1>2 DEF Holds
<1>9. \A h \in List \ {k} : \A j \in 1 .. Len(c[h]) : c[h][j] # g
  <2> SUFFICES ASSUME NEW h \in List \ {k}, NEW j \in 1 .. Len(c[h]) PROVE c[h][j] # g
    OBVIOUS
  <2>1. \A x \in 1 .. Len(c[k]) : c[h][j] # c[k][x]
    BY <1>2 DEF Holds
  <2> QED BY <1>1, <1>3, <1>7, <2>1
<1>10. Linked(m, l, w)
  <2>1. m_head(l) # m_head(k) /\ m_head(l) # g
    BY <1>2, <1>5, <1>7, Distinct
  <2>2. m[m_head(l)] = w[1]
    BY <1>0, <1>2, <1>3, <1>5, <2>1 DEF Linked
  <2>3. m[w[Len(w)]] = m_tail(l)
    BY <1>0, <1>2, <1>5, <1>7
  <2>4. ASSUME NEW j \in 1 .. (Len(w) - 1) PROVE m[w[j]] = w[j + 1]
    <3>1. j \in 1 .. Len(w) /\ j # Len(w)
      BY <1>2
    <3>2. w[j] \in Item /\ w[j] \in Link /\ w[j] # g
      BY <1>1, <1>2, <1>3, <1>6, <1>7, <1>8, <3>1
    <3>3. m[w[j]] = n[w[j]]
      BY <1>0, <1>2, <1>5, <3>2
    <3> QED BY <1>2, <3>3 DEF Linked
  <2> QED BY <1>2, <1>3, <2>2, <2>3, <2>4 DEF Linked
<1>11. ASSUME NEW h \in ks PROVE Linked(m, h, d[h])
  <2>1. CASE h = l
    BY <1>4, <1>10, <2>1
  <2>2. CASE h = k
    <3>1. m[m_head(h)] = m_tail(h)
      BY <1>0, <1>2, <1>5, <2>2
    <3> QED BY <1>4, <2>2, <3>1, EmptyLinked
  <2>3. CASE h # l /\ h # k
    <3>1. h \in ls /\ h \in List /\ d[h] = c[h]
      BY <1>4, <2>3
    <3>2. c[h] \in Seq(Item) /\ Linked(n, h, c[h])
      BY <1>2, <3>1 DEF Holds
    <3>3. m_head(h) # m_head(l) /\ m_head(h) # m_head(k) /\ m_head(h) # g
      BY <1>2, <1>5, <1>7, <2>3, <3>1, Distinct
    <3>4. m[m_head(h)] = n[m_head(h)]
      BY <1>0, <1>5, <3>1, <3>3
    <3>5. ASSUME NEW j \in 1 .. Len(c[h]) PROVE m[c[h][j]] = n[c[h][j]]
      <4>1. c[h][j] # g /\ c[h][j] \in Item /\ c[h][j] \in Link
        BY <1>6, <1>9, <2>3, <3>1
      <4>2. PICK y : y = c[h][j]
        OBVIOUS
      <4>3. y \in Link /\ y # g /\ y # m_head(k) /\ y # m_head(l)
        BY <1>2, <1>5, <4>1, <4>2
      <4>4. m[y] = n[y]
        BY <1>0, <4>3
      <4> QED BY <4>2, <4>4
    <3> QED BY <3>1, <3>2, <3>4, <3>5, LinkedSame
  <2> QED BY <2>1, <2>2, <2>3
<1>12. \A h \in List \ ks : d[h] = <<>>
  <2>1. \A h \in List \ ks : h \in List \ ls /\ h # l /\ h # k
    OBVIOUS
  <2> QED BY <1>4, <2>1 DEF Holds
<1>13. ASSUME NEW x \in List, NEW y \in List, NEW i \in 1 .. Len(d[x]), NEW j \in 1 .. Len(d[y]),
              d[x][i] = d[y][j]
       PROVE  x = y /\ i = j
  <2>1. x # k /\ y # k
    BY <1>4
  <2>2. PICK a \in List : a = IF x = l THEN k ELSE x
    BY <1>2
  <2>3. PICK b \in List : b = IF y = l THEN k ELSE y
    BY <1>2
  <2>4. d[x] = c[a] /\ d[y] = c[b]
    BY <1>1, <1>4, <2>1, <2>2, <2>3
  <2>5. a = b /\ i = j
    BY <1>13, <2>4 DEF Holds
  <2> QED BY <2>1, <2>2, <2>3, <2>5
<1>14. ASSUME NEW y \in Item, m[y] # None
       PROVE  \E h \in List : \E i \in 1 .. Len(d[h]) : d[h][i] = y
  <2>1. y \in Link /\ y # m_head(k) /\ y # m_head(l) /\ m_tail(k) # None
    BY <1>2, <1>5, Distinct
  <2>2. n[y] # None
    BY <1>0, <1>14, <2>1
  <2>3. PICK h \in List : \E i \in 1 .. Len(c[h]) : c[h][i] = y
    BY <2>2 DEF Holds
  <2>4. PICK i \in 1 .. Len(c[h]) : c[h][i] = y
    BY <2>3
  <2>5. h # l
    BY <2>4
  <2>6. CASE h = k
    BY <1>1, <1>4, <2>4, <2>6
  <2>7. CASE h # k
    BY <1>4, <2>4, <2>5, <2>7
  <2> QED BY <2>6, <2>7, ZenonT(100)
<1> QED BY <1>4, <1>11, <1>12, <1>13, <1>14, ZenonT(100) DEF Holds

=============================================================================
