-------------------------- MODULE CJsonTree_proofs --------------------------
(***************************************************************************)
(* Proofs about the item lists of cJSON.c.  ListsWhole is not inductive:   *)
(* an item is only added without harm if nothing follows it and no list    *)
(* holds it, a block can only be handed out again if it was left clear,    *)
(* and cJSON_Delete only takes what it should if no list leads into        *)
(* another.  Good, below, is what the calls preserve together.             *)
(***************************************************************************)
EXTENDS CJsonTree, FiniteSetTheorems, WellFoundedInduction, TLAPS

(* The invariant, about a heap h, allocated blocks l, held items hd and    *)
(* promised lists ls, so that it can be said of the heap between two steps *)
(* of one call.                                                            *)

Pointers == [Nodes -> Nodes \cup {NULL}]

Heaps ==
    [next : Pointers, prev : Pointers, child : Pointers,
     name : [Nodes -> Names \cup {NULL}], kind : [Nodes -> Kinds \cup {NULL}],
     ref : [Nodes -> BOOLEAN]]

Distinct(s) == \A k, m \in 1 .. Len(s) : s[k] = s[m] => k = m

\* The owners have the lists they are promised, the others have none.
Wholes(h, l, ls) ==
    /\ \A a \in l : ~ h.ref[a] => Whole(h, a, ls[a])
    /\ \A a \in Nodes : (a \notin l \/ h.ref[a]) => ls[a] = <<>>

\* No item has two places, and what has one is allocated and not held.
Once(ls) ==
    \A a, b \in Nodes : \A k \in 1 .. Len(ls[a]), m \in 1 .. Len(ls[b]) :
        ls[a][k] = ls[b][m] => a = b /\ k = m

Placed(l, hd, ls) ==
    /\ l \subseteq Nodes
    /\ hd \subseteq l
    /\ \A a \in Nodes : \A k \in 1 .. Len(ls[a]) : ls[a][k] \in l /\ ls[a][k] \notin hd

InSome(ls, n) == \E a \in Nodes : \E k \in 1 .. Len(ls[a]) : ls[a][k] = n

\* An item outside every list leads nowhere, a free block holds nothing, and
\* no allocated one is out of reach.
Ends(h, ls) == \A n \in Nodes : ~ InSome(ls, n) => h.next[n] = NULL

Bare(h, l) == \A n \in Nodes : n \notin l => h.child[n] = NULL /\ ~ h.ref[n]

Kept(h, l, hd, ls) == \A n \in l : n \in hd \/ h.ref[n] \/ InSome(ls, n)

Good(h, l, hd, ls) ==
    /\ h \in Heaps
    /\ ls \in [Nodes -> Seq(Nodes)]
    /\ Wholes(h, l, ls)
    /\ Once(ls)
    /\ Placed(l, hd, ls)
    /\ Ends(h, ls)
    /\ Bare(h, l)
    /\ Kept(h, l, hd, ls)

-----------------------------------------------------------------------------
(* Sequences.                                                              *)

\* Membership by position.
LEMMA InToSet ==
    ASSUME NEW s \in Seq(Nodes)
    PROVE  \A n : n \in ToSet(s) <=> \E k \in 1 .. Len(s) : s[k] = n
BY DEF ToSet

\* One item more at the end.
LEMMA AppendList ==
    ASSUME NEW s \in Seq(Nodes), Distinct(s), NEW i \in Nodes, i \notin ToSet(s)
    PROVE  /\ Append(s, i) \in Seq(Nodes)
           /\ Distinct(Append(s, i))
           /\ ToSet(Append(s, i)) = ToSet(s) \cup {i}
<1> DEFINE t == Append(s, i)
<1>1. t \in Seq(Nodes) /\ Len(t) = Len(s) + 1 /\ t[Len(s) + 1] = i
      /\ (\A k \in 1 .. Len(s) : t[k] = s[k]) /\ Len(s) \in Nat
  OBVIOUS
<1>2. \A k \in 1 .. Len(s) : s[k] # i
  BY InToSet
<1> HIDE DEF t
<1>3. Distinct(t)
  BY <1>1, <1>2 DEF Distinct
<1>4. \A n : n \in ToSet(t) <=> n \in ToSet(s) \cup {i}
  <2>1. \A n : n \in ToSet(t) <=> \E k \in 1 .. Len(t) : t[k] = n
    BY <1>1, InToSet
  <2>2. \A n : n \in ToSet(s) <=> \E k \in 1 .. Len(s) : s[k] = n
    BY InToSet
  <2> QED BY <1>1, <2>1, <2>2
<1> QED BY <1>1, <1>3, <1>4 DEF t

\* One item less.
LEMMA RemoveList ==
    ASSUME NEW s \in Seq(Nodes), Distinct(s), NEW p \in 1 .. Len(s)
    PROVE  /\ RemoveAt(s, p) \in Seq(Nodes)
           /\ Len(RemoveAt(s, p)) = Len(s) - 1
           /\ \A k \in 1 .. Len(s) - 1 :
                 RemoveAt(s, p)[k] = IF k < p THEN s[k] ELSE s[k + 1]
           /\ Distinct(RemoveAt(s, p))
           /\ ToSet(RemoveAt(s, p)) = ToSet(s) \ {s[p]}
<1> DEFINE t == RemoveAt(s, p)
           u == SubSeq(s, 1, p - 1)
           v == SubSeq(s, p + 1, Len(s))
<1>a. Len(s) \in Nat /\ Len(s) > 0 /\ p \in Nat /\ p > 0 /\ p <= Len(s)
  OBVIOUS
<1>b. u \in Seq(Nodes) /\ Len(u) = p - 1 /\ \A k \in 1 .. p - 1 : u[k] = s[k]
  BY <1>a
<1>c. v \in Seq(Nodes) /\ Len(v) = Len(s) - p /\ \A k \in 1 .. Len(s) - p : v[k] = s[p + k]
  BY <1>a
<1>d. t = u \o v
  BY DEF RemoveAt
<1> HIDE DEF t, u, v
<1>1. t \in Seq(Nodes) /\ Len(t) = Len(s) - 1 /\ Len(s) \in Nat /\ Len(s) > 0
  <2>1. t \in Seq(Nodes) /\ Len(t) = Len(u) + Len(v)
    BY <1>b, <1>c, <1>d
  <2> QED BY <1>a, <1>b, <1>c, <2>1
<1>2. \A k \in 1 .. Len(s) - 1 : t[k] = IF k < p THEN s[k] ELSE s[k + 1]
  <2> SUFFICES ASSUME NEW k \in 1 .. Len(s) - 1
               PROVE  t[k] = IF k < p THEN s[k] ELSE s[k + 1]
    OBVIOUS
  <2>1. CASE k < p
    BY <1>a, <1>b, <1>c, <1>d, <2>1
  <2>2. CASE k >= p
    <3>1. k - (p - 1) \in 1 .. Len(s) - p /\ p + (k - (p - 1)) = k + 1 /\ k > Len(u)
      BY <1>a, <1>b, <2>2
    <3>2. t[k] = v[k - (p - 1)]
      BY <1>a, <1>b, <1>c, <1>d, <3>1
    <3>3. v[k - (p - 1)] = s[k + 1]
      BY <1>c, <3>1
    <3> QED BY <1>a, <2>2, <3>2, <3>3
  <2> QED BY <1>a, <2>1, <2>2
<1>3. Distinct(t)
  BY <1>1, <1>2 DEF Distinct
<1>4. \A n : n \in ToSet(t) <=> n \in ToSet(s) \ {s[p]}
  <2>1. \A n : n \in ToSet(t) <=> \E k \in 1 .. Len(t) : t[k] = n
    BY <1>1, InToSet
  <2>2. \A n : n \in ToSet(s) <=> \E k \in 1 .. Len(s) : s[k] = n
    BY InToSet
  <2>3. ASSUME NEW n, n \in ToSet(t) PROVE n \in ToSet(s) \ {s[p]}
    <3>1. PICK k \in 1 .. Len(t) : t[k] = n
      BY <2>1, <2>3
    <3> QED BY <1>1, <1>2, <2>2, <3>1 DEF Distinct
  <2>4. ASSUME NEW n, n \in ToSet(s) \ {s[p]} PROVE n \in ToSet(t)
    <3>1. PICK k \in 1 .. Len(s) : s[k] = n /\ k # p
      BY <2>2, <2>4
    <3>2. CASE k < p
      <4>1. k \in 1 .. Len(t) /\ t[k] = n
        BY <1>1, <1>2, <3>1, <3>2
      <4> QED BY <2>1, <4>1
    <3>3. CASE k > p
      <4>1. k - 1 \in 1 .. Len(t) /\ t[k - 1] = n
        BY <1>1, <1>2, <3>1, <3>3
      <4> QED BY <2>1, <4>1
    <3> QED BY <1>1, <3>1, <3>2, <3>3
  <2> QED BY <2>3, <2>4
<1> QED BY <1>1, <1>2, <1>3, <1>4 DEF t

\* One item more in front of another.
LEMMA InsertList ==
    ASSUME NEW s \in Seq(Nodes), Distinct(s), NEW p \in 1 .. Len(s),
           NEW i \in Nodes, i \notin ToSet(s)
    PROVE  /\ InsertAt(s, p, i) \in Seq(Nodes)
           /\ Len(InsertAt(s, p, i)) = Len(s) + 1
           /\ \A k \in 1 .. Len(s) + 1 :
                 InsertAt(s, p, i)[k] = IF k < p THEN s[k] ELSE IF k = p THEN i ELSE s[k - 1]
           /\ Distinct(InsertAt(s, p, i))
           /\ ToSet(InsertAt(s, p, i)) = ToSet(s) \cup {i}
<1> DEFINE t == InsertAt(s, p, i)
<1>1. t \in Seq(Nodes) /\ Len(t) = Len(s) + 1 /\ Len(s) \in Nat /\ Len(s) > 0
  BY DEF InsertAt
<1>2. \A k \in 1 .. Len(s) + 1 : t[k] = IF k < p THEN s[k] ELSE IF k = p THEN i ELSE s[k - 1]
  BY DEF InsertAt
<1>3. \A k \in 1 .. Len(s) : s[k] # i
  BY InToSet
<1> HIDE DEF t
<1>w. \A x \in 1 .. Len(s) + 1 :
        /\ x < p => t[x] = s[x] /\ x \in 1 .. Len(s)
        /\ x = p => t[x] = i
        /\ x > p => t[x] = s[x - 1] /\ x - 1 \in 1 .. Len(s)
  BY <1>1, <1>2
<1>4. Distinct(t)
  <2>1. ASSUME NEW x \in 1 .. Len(s) + 1, NEW y \in 1 .. Len(s) + 1, x < y
        PROVE  t[x] # t[y]
    <3>1. CASE x < p /\ y < p
      BY <1>w, <2>1, <3>1 DEF Distinct
    <3>2. CASE x < p /\ y = p
      BY <1>w, <1>3, <3>2
    <3>3. CASE x < p /\ y > p
      <4>1. x # y - 1
        BY <3>3
      <4> QED BY <1>w, <3>3, <4>1 DEF Distinct
    <3>4. CASE x = p /\ y > p
      BY <1>w, <1>3, <3>4
    <3>5. CASE x > p /\ y > p
      <4>1. x - 1 # y - 1
        BY <2>1
      <4> QED BY <1>w, <3>5, <4>1 DEF Distinct
    <3> QED BY <2>1, <3>1, <3>2, <3>3, <3>4, <3>5
  <2> SUFFICES ASSUME NEW k \in 1 .. Len(s) + 1, NEW m \in 1 .. Len(s) + 1, t[k] = t[m], k # m
               PROVE  FALSE
    BY <1>1 DEF Distinct
  <2>2. k < m \/ m < k
    OBVIOUS
  <2> QED BY <2>1, <2>2
<1>5. \A n : n \in ToSet(t) <=> n \in ToSet(s) \cup {i}
  <2>1. \A n : n \in ToSet(t) <=> \E k \in 1 .. Len(t) : t[k] = n
    BY <1>1, InToSet
  <2>2. \A n : n \in ToSet(s) <=> \E k \in 1 .. Len(s) : s[k] = n
    BY InToSet
  <2>3. ASSUME NEW n, n \in ToSet(t) PROVE n \in ToSet(s) \cup {i}
    <3>1. PICK k \in 1 .. Len(t) : t[k] = n
      BY <2>1, <2>3
    <3>2. n = i \/ (k < p /\ n = s[k]) \/ (k > p /\ n = s[k - 1])
      BY <1>1, <1>2, <3>1
    <3>3. k < p => k \in 1 .. Len(s)
      BY <1>1
    <3>4. k > p => k - 1 \in 1 .. Len(s)
      BY <1>1
    <3> QED BY <2>2, <3>2, <3>3, <3>4
  <2>4. ASSUME NEW n, n \in ToSet(s) PROVE n \in ToSet(t)
    <3>1. PICK k \in 1 .. Len(s) : s[k] = n
      BY <2>2, <2>4
    <3>2. CASE k < p
      <4>1. k \in 1 .. Len(t) /\ t[k] = n
        BY <1>1, <1>2, <3>1, <3>2
      <4> QED BY <2>1, <4>1
    <3>3. CASE k >= p
      <4>1. k + 1 \in 1 .. Len(t) /\ t[k + 1] = n
        BY <1>1, <1>2, <3>1, <3>3
      <4> QED BY <2>1, <4>1
    <3> QED BY <1>1, <3>1, <3>2, <3>3
  <2>5. i \in ToSet(t)
    <3>1. p \in 1 .. Len(t) /\ t[p] = i
      BY <1>1, <1>2
    <3> QED BY <2>1, <3>1
  <2> QED BY <2>3, <2>4, <2>5
<1> QED BY <1>1, <1>2, <1>4, <1>5 DEF t

\* One item in the place of another.
LEMMA ReplaceList ==
    ASSUME NEW s \in Seq(Nodes), Distinct(s), NEW p \in 1 .. Len(s),
           NEW i \in Nodes, i \notin ToSet(s)
    PROVE  /\ ReplaceAt(s, p, i) \in Seq(Nodes)
           /\ Len(ReplaceAt(s, p, i)) = Len(s)
           /\ \A k \in 1 .. Len(s) : ReplaceAt(s, p, i)[k] = IF k = p THEN i ELSE s[k]
           /\ Distinct(ReplaceAt(s, p, i))
           /\ ToSet(ReplaceAt(s, p, i)) = (ToSet(s) \ {s[p]}) \cup {i}
<1> DEFINE t == ReplaceAt(s, p, i)
<1>1. t \in Seq(Nodes) /\ Len(t) = Len(s) /\ Len(s) \in Nat /\ Len(s) > 0
  BY DEF ReplaceAt
<1>2. \A k \in 1 .. Len(s) : t[k] = IF k = p THEN i ELSE s[k]
  BY DEF ReplaceAt
<1>3. \A k \in 1 .. Len(s) : s[k] # i
  BY InToSet
<1> HIDE DEF t
<1>4. Distinct(t)
  BY <1>1, <1>2, <1>3 DEF Distinct
<1>5. \A n : n \in ToSet(t) <=> n \in (ToSet(s) \ {s[p]}) \cup {i}
  <2>1. \A n : n \in ToSet(t) <=> \E k \in 1 .. Len(t) : t[k] = n
    BY <1>1, InToSet
  <2>2. \A n : n \in ToSet(s) <=> \E k \in 1 .. Len(s) : s[k] = n
    BY InToSet
  <2>3. ASSUME NEW n, n \in ToSet(t) PROVE n \in (ToSet(s) \ {s[p]}) \cup {i}
    <3>1. PICK k \in 1 .. Len(t) : t[k] = n
      BY <2>1, <2>3
    <3> QED BY <1>1, <1>2, <2>2, <3>1 DEF Distinct
  <2>4. ASSUME NEW n, n \in (ToSet(s) \ {s[p]}) \cup {i} PROVE n \in ToSet(t)
    <3>1. CASE n = i
      <4>1. p \in 1 .. Len(t) /\ t[p] = i
        BY <1>1, <1>2
      <4> QED BY <2>1, <3>1, <4>1
    <3>2. CASE n \in ToSet(s) \ {s[p]}
      <4>1. PICK k \in 1 .. Len(s) : s[k] = n /\ k # p
        BY <2>2, <3>2
      <4>2. k \in 1 .. Len(t) /\ t[k] = n
        BY <1>1, <1>2, <4>1
      <4> QED BY <2>1, <4>2
    <3> QED BY <2>4, <3>1, <3>2
  <2> QED BY <2>3, <2>4
<1> QED BY <1>1, <1>2, <1>4, <1>5 DEF t

-----------------------------------------------------------------------------
(* What the calls do to Good.                                              *)

\* The heap g is h with the children s of a made t, and nothing else changed;
\* what is no child of a any more leads nowhere.
Relinked(h, g, a, s, t) ==
    /\ g \in Heaps
    /\ g.ref = h.ref
    /\ \A n \in Nodes : n # a => g.child[n] = h.child[n]
    /\ \A n \in Nodes : n \notin ToSet(s) /\ n \notin ToSet(t) =>
          g.next[n] = h.next[n] /\ g.prev[n] = h.prev[n]
    /\ \A n \in Nodes : n \in ToSet(s) /\ n \notin ToSet(t) => g.next[n] = NULL
    /\ Whole(g, a, t)

\* A list whose items and whose owner are as they were is still whole.
LEMMA WholeSame ==
    ASSUME NEW h, NEW g, NEW a, NEW s \in Seq(Nodes), Whole(h, a, s),
           g.child[a] = h.child[a],
           \A k \in 1 .. Len(s) : g.next[s[k]] = h.next[s[k]] /\ g.prev[s[k]] = h.prev[s[k]]
    PROVE  Whole(g, a, s)
BY DEF Whole

\* One list changed: items go from the program's hands into it and back.
LEMMA GoodStep ==
    ASSUME NEW h, NEW l, NEW hd, NEW ls, Good(h, l, hd, ls),
           NEW a \in l, ~ h.ref[a], NEW g, NEW t \in Seq(Nodes), Distinct(t),
           \A n \in ToSet(t) : n \in ToSet(ls[a]) \/ n \in hd,
           Relinked(h, g, a, ls[a], t)
    PROVE  Good(g, l, (hd \cup ToSet(ls[a])) \ ToSet(t), [ls EXCEPT ![a] = t])
<1> DEFINE s == ls[a]
           hd2 == (hd \cup ToSet(s)) \ ToSet(t)
           ls2 == [ls EXCEPT ![a] = t]
<1>1. a \in Nodes /\ s \in Seq(Nodes) /\ ls \in [Nodes -> Seq(Nodes)]
  BY DEF Good, Placed
<1>2. ls2 \in [Nodes -> Seq(Nodes)] /\ ls2[a] = t /\ \A b \in Nodes : b # a => ls2[b] = ls[b]
  BY <1>1
<1>3. \A n : n \in ToSet(s) <=> \E k \in 1 .. Len(s) : s[k] = n
  BY <1>1, InToSet
<1>4. \A n : n \in ToSet(t) <=> \E k \in 1 .. Len(t) : t[k] = n
  BY InToSet
<1>5. ASSUME NEW n, n \in ToSet(s) \/ n \in ToSet(t) PROVE n \in l
  <2>1. hd \subseteq l
    BY DEF Good, Placed
  <2>2. ASSUME n \in ToSet(s) PROVE n \in l
    <3>1. PICK k \in 1 .. Len(s) : s[k] = n
      BY <1>3, <2>2
    <3> QED BY <1>1, <3>1 DEF Good, Placed
  <2> QED BY <1>5, <2>1, <2>2
\* The items of s and t are in no other list.
<1>6. ASSUME NEW b \in Nodes, b # a, NEW k \in 1 .. Len(ls[b])
      PROVE  ls[b][k] \notin ToSet(s) /\ ls[b][k] \notin ToSet(t) /\ ls[b][k] \notin hd
             /\ ls[b][k] \in Nodes
  <2>1. ls[b][k] \notin hd /\ ls[b][k] \in Nodes
    BY <1>1 DEF Good, Placed
  <2>2. ls[b][k] \notin ToSet(s)
    <3>1. \A m \in 1 .. Len(s) : s[m] # ls[b][k]
      BY <1>1, <1>6 DEF Good, Once
    <3> QED BY <1>3, <3>1
  <2> QED BY <2>1, <2>2
\* Being in some list, before and after.
<1>7. ASSUME NEW n \in Nodes
      PROVE  /\ InSome(ls2, n) => InSome(ls, n) \/ n \in ToSet(t)
             /\ InSome(ls, n) => InSome(ls2, n) \/ n \in ToSet(s)
             /\ n \in ToSet(t) => InSome(ls2, n)
             /\ n \in ToSet(s) => InSome(ls, n)
  <2>1. n \in ToSet(t) => InSome(ls2, n)
    BY <1>1, <1>2, <1>4 DEF InSome
  <2>2. n \in ToSet(s) => InSome(ls, n)
    BY <1>1, <1>3 DEF InSome
  <2>3. ASSUME InSome(ls2, n), n \notin ToSet(t) PROVE InSome(ls, n)
    <3>1. PICK b \in Nodes : \E k \in 1 .. Len(ls2[b]) : ls2[b][k] = n
      BY <2>3 DEF InSome
    <3>2. b # a
      BY <1>2, <1>4, <2>3, <3>1
    <3> QED BY <1>2, <3>1, <3>2 DEF InSome
  <2>4. ASSUME InSome(ls, n), n \notin ToSet(s) PROVE InSome(ls2, n)
    <3>1. PICK b \in Nodes : \E k \in 1 .. Len(ls[b]) : ls[b][k] = n
      BY <2>4 DEF InSome
    <3>2. b # a
      BY <1>3, <2>4, <3>1
    <3> QED BY <1>2, <3>1, <3>2 DEF InSome
  <2> QED BY <2>1, <2>2, <2>3, <2>4
<1> HIDE DEF s, ls2
<1>8. ls[a] = s
  BY DEF s
<1>9. g \in Heaps /\ g.ref = h.ref
  BY DEF Relinked
<1>10. Wholes(g, l, ls2)
  <2>1. ASSUME NEW b \in l, ~ g.ref[b] PROVE Whole(g, b, ls2[b])
    <3>1. CASE b = a
      BY <1>2, <3>1 DEF Relinked
    <3>2. CASE b # a
      <4>1. b \in Nodes /\ ls2[b] = ls[b] /\ ls[b] \in Seq(Nodes)
        BY <1>1, <1>2, <3>2 DEF Good, Placed
      <4>2. Whole(h, b, ls[b])
        BY <1>9, <2>1 DEF Good, Wholes
      <4>3. g.child[b] = h.child[b]
        BY <3>2, <4>1 DEF Relinked
      <4>4. \A k \in 1 .. Len(ls[b]) :
                g.next[ls[b][k]] = h.next[ls[b][k]] /\ g.prev[ls[b][k]] = h.prev[ls[b][k]]
        BY <1>6, <1>8, <3>2, <4>1 DEF Relinked
      <4> QED BY <4>1, <4>2, <4>3, <4>4, WholeSame
    <3> QED BY <3>1, <3>2
  <2>2. ASSUME NEW b \in Nodes, b \notin l \/ g.ref[b] PROVE ls2[b] = <<>>
    BY <1>2, <1>9, <2>2 DEF Good, Wholes
  <2> QED BY <2>1, <2>2 DEF Wholes
<1>11. Once(ls2)
  <2> SUFFICES ASSUME NEW b \in Nodes, NEW c \in Nodes,
                      NEW k \in 1 .. Len(ls2[b]), NEW m \in 1 .. Len(ls2[c]),
                      ls2[b][k] = ls2[c][m]
               PROVE  b = c /\ k = m
    BY DEF Once
  <2>1. CASE b = a /\ c = a
    BY <1>2, <2>1 DEF Distinct
  <2>2. CASE b = a /\ c # a
    <3>1. ls[c][m] \in ToSet(t) /\ m \in 1 .. Len(ls[c])
      BY <1>2, <1>4, <2>2
    <3> QED BY <1>6, <2>2, <3>1
  <2>3. CASE b # a /\ c = a
    <3>1. ls[b][k] \in ToSet(t) /\ k \in 1 .. Len(ls[b])
      BY <1>2, <1>4, <2>3
    <3> QED BY <1>6, <2>3, <3>1
  <2>4. CASE b # a /\ c # a
    BY <1>2, <2>4 DEF Good, Once
  <2> QED BY <2>1, <2>2, <2>3, <2>4
<1>12. Placed(l, hd2, ls2)
  <2>1. l \subseteq Nodes /\ hd2 \subseteq l
    BY <1>5 DEF Good, Placed
  <2>2. ASSUME NEW b \in Nodes, NEW k \in 1 .. Len(ls2[b])
        PROVE  ls2[b][k] \in l /\ ls2[b][k] \notin hd2
    <3>1. CASE b = a
      <4>1. ls2[b][k] \in ToSet(t)
        BY <1>2, <1>4, <3>1
      <4> QED BY <1>5, <4>1
    <3>2. CASE b # a
      <4>1. k \in 1 .. Len(ls[b]) /\ ls2[b][k] = ls[b][k]
        BY <1>2, <3>2
      <4>2. ls[b][k] \in l
        BY <4>1 DEF Good, Placed
      <4> QED BY <1>6, <3>2, <4>1, <4>2
    <3> QED BY <3>1, <3>2
  <2> QED BY <2>1, <2>2 DEF Placed
<1>13. Ends(g, ls2)
  <2> SUFFICES ASSUME NEW n \in Nodes, ~ InSome(ls2, n) PROVE g.next[n] = NULL
    BY DEF Ends
  <2>1. n \notin ToSet(t)
    BY <1>7
  <2>2. CASE n \in ToSet(s)
    BY <1>8, <2>1, <2>2 DEF Relinked
  <2>3. CASE n \notin ToSet(s)
    <3>1. h.next[n] = NULL
      BY <1>7, <2>3 DEF Good, Ends
    <3>2. g.next[n] = h.next[n]
      BY <1>8, <2>1, <2>3 DEF Relinked
    <3> QED BY <3>1, <3>2
  <2> QED BY <2>2, <2>3
<1>14. Bare(g, l)
  BY <1>9 DEF Good, Bare, Relinked
<1>15. Kept(g, l, hd2, ls2)
  <2> SUFFICES ASSUME NEW n \in l PROVE n \in hd2 \/ g.ref[n] \/ InSome(ls2, n)
    BY DEF Kept
  <2>1. n \in Nodes
    BY DEF Good, Placed
  <2>2. n \in hd \/ h.ref[n] \/ InSome(ls, n)
    BY DEF Good, Kept
  <2> QED BY <1>7, <1>9, <2>1, <2>2
<1>16. Good(g, l, hd2, ls2)
  BY <1>2, <1>9, <1>10, <1>11, <1>12, <1>13, <1>14, <1>15 DEF Good
<1> QED BY <1>16 DEF s, ls2

\* A block is allocated and gets a list of its own, or is a reference.
LEMMA GoodMake ==
    ASSUME NEW h, NEW l, NEW hd, NEW ls, Good(h, l, hd, ls),
           NEW r \in Nodes, r \notin l, NEW g \in Heaps, NEW hd2,
           g.next = h.next, g.prev = h.prev,
           \A n \in Nodes : n # r => g.child[n] = h.child[n] /\ g.ref[n] = h.ref[n],
           g.ref[r] \/ g.child[r] = NULL,
           hd2 = hd \cup {r} \/ (hd2 = hd /\ g.ref[r])
    PROVE  Good(g, l \cup {r}, hd2, ls)
<1>1. ls \in [Nodes -> Seq(Nodes)] /\ l \subseteq Nodes /\ hd \subseteq l
  BY DEF Good, Placed
<1>2. ls[r] = <<>>
  BY DEF Good, Wholes
<1>3. Wholes(g, l \cup {r}, ls)
  <2>1. ASSUME NEW b \in l \cup {r}, ~ g.ref[b] PROVE Whole(g, b, ls[b])
    <3>1. CASE b = r
      <4>1. g.child[r] = NULL
        BY <2>1, <3>1
      <4> QED BY <1>2, <3>1, <4>1 DEF Whole
    <3>2. CASE b # r
      <4>1. b \in l /\ b \in Nodes /\ ls[b] \in Seq(Nodes) /\ ~ h.ref[b]
        BY <1>1, <2>1, <3>2
      <4>2. Whole(h, b, ls[b])
        BY <4>1 DEF Good, Wholes
      <4> QED BY <3>2, <4>1, <4>2, WholeSame
    <3> QED BY <3>1, <3>2
  <2>2. ASSUME NEW b \in Nodes, b \notin l \cup {r} \/ g.ref[b] PROVE ls[b] = <<>>
    <3>1. CASE b = r
      BY <1>2, <3>1
    <3>2. CASE b # r
      BY <2>2, <3>2 DEF Good, Wholes
    <3> QED BY <3>1, <3>2
  <2> QED BY <2>1, <2>2 DEF Wholes
<1>4. Placed(l \cup {r}, hd2, ls)
  BY <1>1 DEF Good, Placed
<1>5. Ends(g, ls)
  BY DEF Good, Ends
<1>6. Bare(g, l \cup {r})
  BY DEF Good, Bare
<1>7. Kept(g, l \cup {r}, hd2, ls)
  BY <1>1 DEF Good, Kept
<1> QED BY <1>1, <1>3, <1>4, <1>5, <1>6, <1>7 DEF Good

\* Names and kinds are no part of it.
LEMMA GoodSame ==
    ASSUME NEW h, NEW l, NEW hd, NEW ls, Good(h, l, hd, ls), NEW g \in Heaps,
           g.next = h.next, g.prev = h.prev, g.child = h.child, g.ref = h.ref
    PROVE  Good(g, l, hd, ls)
BY DEF Good, Wholes, Whole, Ends, Bare, Kept

-----------------------------------------------------------------------------
(* cJSON_Delete.                                                           *)

\* A nonempty set of numbers has a smallest member.
LEMMA SmallestNumber ==
    ASSUME NEW S \in SUBSET Nat, S # {}
    PROVE  \E x \in S : \A y \in S : x <= y
<1> DEFINE Less == {p \in Nat \X Nat : p[1] < p[2]}
<1>1. IsWellFoundedOn(Less, Nat)
  BY NatLessThanWellFounded DEF OpToRel
<1>2. PICK x \in S : \A y \in S : <<y, x>> \notin Less
  <2> HIDE DEF Less
  <2> QED BY <1>1, WFMin
<1>3. ASSUME NEW y \in S PROVE x <= y
  <2>1. <<y, x>> \in Less <=> y < x
    OBVIOUS
  <2> QED BY <1>2, <2>1
<1> QED BY <1>3

\* A set of numbers that holds the first and with each the next one holds all.
LEMMA AllNumbers ==
    ASSUME NEW S, 0 \in S, \A n \in Nat : n \in S => n + 1 \in S
    PROVE  Nat \subseteq S
<1> SUFFICES ASSUME Nat \ S # {} PROVE FALSE
  OBVIOUS
<1>1. PICK m \in Nat \ S : \A n \in Nat \ S : m <= n
  BY SmallestNumber
<1>2. m - 1 \in Nat /\ (m - 1) + 1 = m
  BY <1>1
<1>3. m - 1 \in S
  BY <1>1, <1>2
<1> QED BY <1>1, <1>2, <1>3

\* What Closed says of one block.
LEMMA ClosedIs ==
    ASSUME NEW h \in Heaps, NEW S \in SUBSET Nodes
    PROVE  Closed(h, S) <=>
             \A n \in S : /\ h.next[n] \in S \/ h.next[n] = NULL
                          /\ h.ref[n] \/ h.child[n] \in S \/ h.child[n] = NULL
BY DEF Closed, Heaps

\* Doomed is the smallest closed set that holds the item.
LEMMA DoomedIs ==
    ASSUME NEW h \in Heaps, NEW i \in Nodes
    PROVE  /\ i \in Doomed(h, i)
           /\ Doomed(h, i) \subseteq Nodes
           /\ Closed(h, Doomed(h, i))
           /\ \A S \in SUBSET Nodes : i \in S /\ Closed(h, S) => Doomed(h, i) \subseteq S
<1> DEFINE D == Doomed(h, i)
<1>1. i \in D /\ D \subseteq Nodes
  BY DEF Doomed
<1>2. \A S \in SUBSET Nodes : i \in S /\ Closed(h, S) => D \subseteq S
  BY DEF Doomed
<1>3. \A n \in Nodes : (\A S \in SUBSET Nodes : i \in S /\ Closed(h, S) => n \in S) => n \in D
  BY DEF Doomed
<1> HIDE DEF D
<1>4. ASSUME NEW n \in D
      PROVE  /\ h.next[n] \in D \/ h.next[n] = NULL
             /\ h.ref[n] \/ h.child[n] \in D \/ h.child[n] = NULL
  <2>1. n \in Nodes /\ h.next[n] \in Nodes \cup {NULL} /\ h.child[n] \in Nodes \cup {NULL}
    BY <1>1 DEF Heaps, Pointers
  <2>2. ASSUME NEW S \in SUBSET Nodes, i \in S, Closed(h, S)
        PROVE  /\ h.next[n] \in S \/ h.next[n] = NULL
               /\ h.ref[n] \/ h.child[n] \in S \/ h.child[n] = NULL
    <3>1. n \in S
      BY <1>2, <2>2
    <3> QED BY <2>2, <3>1, ClosedIs
  <2> QED BY <1>3, <2>1, <2>2
<1>5. Closed(h, D)
  BY <1>1, <1>4, ClosedIs
<1> QED BY <1>1, <1>2, <1>5 DEF D

\* Next leads to an item of the same list, child to one of the owner's list.
LEMMA LeadsOn ==
    ASSUME NEW h, NEW l, NEW hd, NEW ls, Good(h, l, hd, ls), NEW n \in Nodes
    PROVE  /\ h.next[n] = NULL
              \/ \E b \in Nodes : \E k \in 1 .. Len(ls[b]) :
                    /\ ls[b][k] = n /\ k + 1 \in 1 .. Len(ls[b])
                    /\ h.next[n] = ls[b][k + 1]
           /\ \/ h.ref[n] \/ h.child[n] = NULL
              \/ 1 \in 1 .. Len(ls[n]) /\ h.child[n] = ls[n][1]
<1>1. h.next[n] = NULL
      \/ \E b \in Nodes : \E k \in 1 .. Len(ls[b]) :
            /\ ls[b][k] = n /\ k + 1 \in 1 .. Len(ls[b])
            /\ h.next[n] = ls[b][k + 1]
  <2>1. CASE ~ InSome(ls, n)
    BY <2>1 DEF Good, Ends
  <2>2. CASE InSome(ls, n)
    <3>1. PICK b \in Nodes : \E k \in 1 .. Len(ls[b]) : ls[b][k] = n
      BY <2>2 DEF InSome
    <3>2. PICK k \in 1 .. Len(ls[b]) : ls[b][k] = n
      BY <3>1
    <3>3. ls[b] \in Seq(Nodes) /\ ls[b] # <<>>
      BY <3>2 DEF Good
    <3>4. Whole(h, b, ls[b])
      BY <3>3 DEF Good, Wholes
    <3>5. h.next[n] = IF k = Len(ls[b]) THEN NULL ELSE ls[b][k + 1]
      BY <3>2, <3>4 DEF Whole
    <3>6. k # Len(ls[b]) => k + 1 \in 1 .. Len(ls[b])
      BY <3>3
    <3> QED BY <3>2, <3>5, <3>6
  <2> QED BY <2>1, <2>2
<1>2. \/ h.ref[n] \/ h.child[n] = NULL
      \/ 1 \in 1 .. Len(ls[n]) /\ h.child[n] = ls[n][1]
  <2>1. CASE n \notin l
    BY <2>1 DEF Good, Bare
  <2>2. CASE n \in l /\ ~ h.ref[n]
    <3>1. Whole(h, n, ls[n]) /\ ls[n] \in Seq(Nodes)
      BY <2>2 DEF Good, Wholes
    <3>2. ls[n] # <<>> => 1 \in 1 .. Len(ls[n])
      BY <3>1
    <3> QED BY <3>1, <3>2 DEF Whole
  <2> QED BY <2>1, <2>2
<1> QED BY <1>1, <1>2

\* What is deleted with a held item: whole lists or nothing of a list, and
\* nothing else that is held.
LEMMA DoomedWhole ==
    ASSUME NEW h, NEW l, NEW hd, NEW ls, Good(h, l, hd, ls), NEW i \in hd
    PROVE  /\ \A b \in Nodes : b \notin Doomed(h, i) =>
                \A k \in 1 .. Len(ls[b]) : ls[b][k] \notin Doomed(h, i)
           /\ \A b \in Doomed(h, i) : \A k \in 1 .. Len(ls[b]) : ls[b][k] \in Doomed(h, i)
           /\ \A n \in Doomed(h, i) : n \in hd => n = i
<1> DEFINE D == Doomed(h, i)
<1>1. h \in Heaps /\ ls \in [Nodes -> Seq(Nodes)] /\ i \in Nodes
  BY DEF Good, Placed
<1>2. /\ i \in D /\ D \subseteq Nodes /\ Closed(h, D)
      /\ \A S \in SUBSET Nodes : i \in S /\ Closed(h, S) => D \subseteq S
  BY <1>1, DoomedIs
<1>3. \A n \in D : /\ h.next[n] \in D \/ h.next[n] = NULL
                   /\ h.ref[n] \/ h.child[n] \in D \/ h.child[n] = NULL
  BY <1>1, <1>2, ClosedIs
<1> HIDE DEF D
<1>4. ASSUME NEW b \in Nodes, b \notin D, NEW k \in 1 .. Len(ls[b]) PROVE ls[b][k] \notin D
  <2> DEFINE S == {n \in D : \A m \in 1 .. Len(ls[b]) : ls[b][m] # n}
  <2>1. S \in SUBSET Nodes /\ i \in S
    BY <1>2 DEF Good, Placed
  <2>2. ASSUME NEW n \in S
        PROVE  /\ h.next[n] \in S \/ h.next[n] = NULL
               /\ h.ref[n] \/ h.child[n] \in S \/ h.child[n] = NULL
    <3>1. n \in Nodes /\ n \in D /\ \A m \in 1 .. Len(ls[b]) : ls[b][m] # n
      BY <1>2
    <3> HIDE DEF S
    <3>2. ASSUME h.next[n] # NULL PROVE h.next[n] \in S
      <4>1. h.next[n] \in D
        BY <1>3, <3>1, <3>2
      <4>2. PICK c \in Nodes : \E m \in 1 .. Len(ls[c]) :
                ls[c][m] = n /\ m + 1 \in 1 .. Len(ls[c]) /\ h.next[n] = ls[c][m + 1]
        BY <3>1, <3>2, LeadsOn
      <4>3. c # b
        BY <3>1, <4>2
      <4>4. \A m \in 1 .. Len(ls[b]) : ls[b][m] # h.next[n]
        BY <4>2, <4>3 DEF Good, Once
      <4> QED BY <4>1, <4>4 DEF S
    <3>3. ASSUME ~ h.ref[n], h.child[n] # NULL PROVE h.child[n] \in S
      <4>1. h.child[n] \in D
        BY <1>3, <3>1, <3>3
      <4>2. 1 \in 1 .. Len(ls[n]) /\ h.child[n] = ls[n][1]
        BY <3>1, <3>3, LeadsOn
      <4>3. n # b
        BY <1>4, <3>1
      <4>4. \A m \in 1 .. Len(ls[b]) : ls[b][m] # h.child[n]
        BY <3>1, <4>2, <4>3 DEF Good, Once
      <4> QED BY <4>1, <4>4 DEF S
    <3> QED BY <3>2, <3>3
  <2>3. Closed(h, S)
    BY <1>1, <2>1, <2>2, ClosedIs
  <2>4. D \subseteq S
    BY <1>2, <2>1, <2>3
  <2> QED BY <2>4
<1>5. ASSUME NEW b \in D, NEW k \in 1 .. Len(ls[b]) PROVE ls[b][k] \in D
  <2>1. b \in Nodes /\ ls[b] \in Seq(Nodes) /\ ls[b] # <<>>
    BY <1>1, <1>2, <1>5
  <2>2. Whole(h, b, ls[b]) /\ ~ h.ref[b]
    BY <2>1 DEF Good, Wholes
  <2> DEFINE N == {m \in Nat : m + 1 \in 1 .. Len(ls[b]) => ls[b][m + 1] \in D}
  <2>3. \A m \in 1 .. Len(ls[b]) : ls[b][m] \in Nodes /\ ls[b][m] # NULL
    BY <2>1, TreeAssumption
  <2>4. 0 \in N
    <3>1. 1 \in 1 .. Len(ls[b]) /\ h.child[b] = ls[b][1]
      BY <2>1, <2>2 DEF Whole
    <3>2. ls[b][1] \in D
      BY <1>3, <1>5, <2>2, <2>3, <3>1
    <3> QED BY <3>2
  <2>5. ASSUME NEW m \in Nat, m \in N PROVE m + 1 \in N
    <3> SUFFICES ASSUME (m + 1) + 1 \in 1 .. Len(ls[b]) PROVE ls[b][(m + 1) + 1] \in D
      OBVIOUS
    <3>1. m + 1 \in 1 .. Len(ls[b]) /\ m + 1 # Len(ls[b])
      BY <2>1
    <3>2. ls[b][m + 1] \in D
      BY <2>5, <3>1
    <3>3. h.next[ls[b][m + 1]] = ls[b][(m + 1) + 1]
      BY <2>2, <3>1 DEF Whole
    <3> QED BY <1>3, <2>3, <3>2, <3>3
  <2>6. Nat \subseteq N
    <3> HIDE DEF N
    <3> QED BY <2>4, <2>5, AllNumbers
  <2>7. k - 1 \in N /\ (k - 1) + 1 = k
    BY <2>1, <2>6
  <2> QED BY <2>7
<1>6. ASSUME NEW j \in D, j \in hd PROVE j = i
  <2> SUFFICES ASSUME j # i PROVE FALSE
    OBVIOUS
  <2> DEFINE S == D \ {j}
  <2>1. S \in SUBSET Nodes /\ i \in S
    BY <1>2
  <2>2. \A b \in Nodes : \A m \in 1 .. Len(ls[b]) : ls[b][m] # j
    BY <1>6 DEF Good, Placed
  <2>3. ASSUME NEW n \in S
        PROVE  /\ h.next[n] \in S \/ h.next[n] = NULL
               /\ h.ref[n] \/ h.child[n] \in S \/ h.child[n] = NULL
    <3>1. n \in D /\ n \in Nodes
      BY <1>2
    <3>2. h.next[n] # j
      BY <2>2, <3>1, LeadsOn, <1>6, <1>2, TreeAssumption
    <3>3. h.ref[n] \/ h.child[n] # j
      BY <2>2, <3>1, LeadsOn, <1>6, <1>2, TreeAssumption
    <3> QED BY <1>3, <3>1, <3>2, <3>3
  <2>4. Closed(h, S)
    <3> HIDE DEF S
    <3> QED BY <1>1, <2>1, <2>3, ClosedIs
  <2> QED BY <1>2, <2>1, <2>4
<1> QED BY <1>4, <1>5, <1>6 DEF D

\* What is left after an item has been deleted.
LEMMA GoodFreed ==
    ASSUME NEW h, NEW l, NEW hd, NEW ls, Good(h, l, hd, ls), NEW i \in hd
    PROVE  Good(Freed(h, Doomed(h, i)), l \ Doomed(h, i), hd \ {i},
                Wipe(ls, Doomed(h, i), <<>>))
<1> DEFINE D == Doomed(h, i)
           g == Freed(h, D)
           l2 == l \ D
           hd2 == hd \ {i}
           ls2 == Wipe(ls, D, <<>>)
<1>1. h \in Heaps /\ ls \in [Nodes -> Seq(Nodes)] /\ i \in Nodes
  BY DEF Good, Placed
<1>2. i \in D /\ D \subseteq Nodes
  BY <1>1, DoomedIs
<1>3. /\ \A b \in Nodes : b \notin D => \A k \in 1 .. Len(ls[b]) : ls[b][k] \notin D
      /\ \A b \in D : \A k \in 1 .. Len(ls[b]) : ls[b][k] \in D
      /\ \A n \in D : n \in hd => n = i
  BY DoomedWhole
<1> HIDE DEF D
<1>4. /\ g \in Heaps
      /\ \A n \in Nodes : n \notin D =>
            /\ g.next[n] = h.next[n] /\ g.prev[n] = h.prev[n]
            /\ g.child[n] = h.child[n] /\ g.ref[n] = h.ref[n]
      /\ \A n \in D : g.next[n] = NULL /\ g.child[n] = NULL /\ ~ g.ref[n]
  <2>1. g \in Heaps
    BY <1>1 DEF Heaps, Pointers, Freed, Wipe
  <2> QED BY <1>2, <2>1 DEF Freed, Wipe
<1>5. /\ ls2 \in [Nodes -> Seq(Nodes)]
      /\ \A b \in D : ls2[b] = <<>>
      /\ \A b \in Nodes : b \notin D => ls2[b] = ls[b]
  BY <1>1, <1>2 DEF Wipe
<1> HIDE DEF g, ls2
<1>6. \A n \in Nodes : InSome(ls, n) /\ n \notin D => InSome(ls2, n)
  <2> SUFFICES ASSUME NEW n \in Nodes, InSome(ls, n), n \notin D PROVE InSome(ls2, n)
    OBVIOUS
  <2>1. PICK b \in Nodes : \E k \in 1 .. Len(ls[b]) : ls[b][k] = n
    BY DEF InSome
  <2>2. b \notin D
    BY <1>3, <2>1
  <2> QED BY <1>5, <2>1, <2>2 DEF InSome
<1>7. Wholes(g, l2, ls2)
  <2>1. ASSUME NEW b \in l2, ~ g.ref[b] PROVE Whole(g, b, ls2[b])
    <3>1. b \in Nodes /\ b \notin D /\ b \in l /\ ls[b] \in Seq(Nodes) /\ ls2[b] = ls[b]
      BY <1>1, <1>5 DEF Good, Placed
    <3>2. Whole(h, b, ls[b])
      BY <1>4, <2>1, <3>1 DEF Good, Wholes
    <3>3. \A k \in 1 .. Len(ls[b]) : ls[b][k] \in Nodes /\ ls[b][k] \notin D
      BY <1>3, <3>1
    <3>4. g.child[b] = h.child[b]
      BY <1>4, <3>1
    <3>5. \A k \in 1 .. Len(ls[b]) :
              g.next[ls[b][k]] = h.next[ls[b][k]] /\ g.prev[ls[b][k]] = h.prev[ls[b][k]]
      BY <1>4, <3>3
    <3> QED BY <3>1, <3>2, <3>4, <3>5, WholeSame
  <2>2. ASSUME NEW b \in Nodes, b \notin l2 \/ g.ref[b] PROVE ls2[b] = <<>>
    <3>1. CASE b \in D
      BY <1>5, <3>1
    <3>2. CASE b \notin D
      <4>1. b \notin l \/ h.ref[b]
        BY <1>4, <2>2, <3>2
      <4> QED BY <1>5, <3>2, <4>1 DEF Good, Wholes
    <3> QED BY <3>1, <3>2
  <2> QED BY <2>1, <2>2 DEF Wholes
<1>8. \A b \in Nodes : \A k \in 1 .. Len(ls2[b]) :
          b \notin D /\ k \in 1 .. Len(ls[b]) /\ ls2[b][k] = ls[b][k]
  <2> SUFFICES ASSUME NEW b \in Nodes, NEW k \in 1 .. Len(ls2[b])
               PROVE  b \notin D /\ k \in 1 .. Len(ls[b]) /\ ls2[b][k] = ls[b][k]
    OBVIOUS
  <2>1. b \notin D
    <3> SUFFICES ASSUME b \in D PROVE FALSE
      OBVIOUS
    <3>1. ls2[b] = <<>>
      BY <1>5
    <3> QED BY <3>1
  <2> QED BY <1>5, <2>1
<1>9. Once(ls2)
  <2> SUFFICES ASSUME NEW b \in Nodes, NEW c \in Nodes,
                      NEW k \in 1 .. Len(ls2[b]), NEW m \in 1 .. Len(ls2[c]),
                      ls2[b][k] = ls2[c][m]
               PROVE  b = c /\ k = m
    BY DEF Once
  <2> QED BY <1>8 DEF Good, Once
<1>10. Placed(l2, hd2, ls2)
  <2>1. l2 \subseteq Nodes /\ hd2 \subseteq l2
    BY <1>3 DEF Good, Placed
  <2>2. ASSUME NEW b \in Nodes, NEW k \in 1 .. Len(ls2[b])
        PROVE  ls2[b][k] \in l2 /\ ls2[b][k] \notin hd2
    <3>1. b \notin D /\ k \in 1 .. Len(ls[b]) /\ ls2[b][k] = ls[b][k]
      BY <1>8
    <3>2. ls[b][k] \in l /\ ls[b][k] \notin hd
      BY <3>1 DEF Good, Placed
    <3>3. ls[b][k] \notin D
      BY <1>3, <3>1
    <3> QED BY <3>1, <3>2, <3>3
  <2> QED BY <2>1, <2>2 DEF Placed
<1>11. Ends(g, ls2)
  <2> SUFFICES ASSUME NEW n \in Nodes, ~ InSome(ls2, n) PROVE g.next[n] = NULL
    BY DEF Ends
  <2>1. CASE n \in D
    BY <1>4, <2>1
  <2>2. CASE n \notin D
    BY <1>4, <1>6, <2>2 DEF Good, Ends
  <2> QED BY <2>1, <2>2
<1>12. Bare(g, l2)
  <2> SUFFICES ASSUME NEW n \in Nodes, n \notin l2 PROVE g.child[n] = NULL /\ ~ g.ref[n]
    BY DEF Bare
  <2>1. CASE n \in D
    BY <1>4, <2>1
  <2>2. CASE n \notin D
    BY <1>4, <2>2 DEF Good, Bare
  <2> QED BY <2>1, <2>2
<1>13. Kept(g, l2, hd2, ls2)
  <2> SUFFICES ASSUME NEW n \in l2 PROVE n \in hd2 \/ g.ref[n] \/ InSome(ls2, n)
    BY DEF Kept
  <2>1. n \in Nodes /\ n \notin D /\ n \in l
    BY DEF Good, Placed
  <2>2. n \in hd \/ h.ref[n] \/ InSome(ls, n)
    BY <2>1 DEF Good, Kept
  <2> QED BY <1>2, <1>4, <1>6, <2>1, <2>2
<1>14. Good(g, l2, hd2, ls2)
  <2> HIDE DEF l2, hd2
  <2> QED BY <1>4, <1>5, <1>7, <1>9, <1>10, <1>11, <1>12, <1>13 DEF Good
<1> QED BY <1>14 DEF g, ls2, D

-----------------------------------------------------------------------------
(* The surgery of each call.                                               *)

\* What Good says of an owner and its list, and of an item to be put there.
LEMMA OwnerHas ==
    ASSUME NEW h, NEW l, NEW hd, NEW ls, Good(h, l, hd, ls), NEW a \in l, ~ h.ref[a]
    PROVE  /\ h \in Heaps /\ a \in Nodes /\ ls \in [Nodes -> Seq(Nodes)]
           /\ ls[a] \in Seq(Nodes) /\ Distinct(ls[a]) /\ Whole(h, a, ls[a])
           /\ \A n \in ToSet(ls[a]) : n \in Nodes /\ n \notin hd
<1>1. h \in Heaps /\ a \in Nodes /\ ls \in [Nodes -> Seq(Nodes)] /\ ls[a] \in Seq(Nodes)
  BY DEF Good, Placed
<1>2. Distinct(ls[a])
  BY <1>1 DEF Good, Once, Distinct
<1>3. Whole(h, a, ls[a])
  BY DEF Good, Wholes
<1>4. \A n \in ToSet(ls[a]) : n \in Nodes /\ n \notin hd
  <2> SUFFICES ASSUME NEW n \in ToSet(ls[a]) PROVE n \in Nodes /\ n \notin hd
    OBVIOUS
  <2>1. PICK k \in 1 .. Len(ls[a]) : ls[a][k] = n
    BY <1>1, InToSet
  <2> QED BY <1>1, <2>1 DEF Good, Placed
<1> QED BY <1>1, <1>2, <1>3, <1>4

LEMMA LooseIs ==
    ASSUME NEW h, NEW l, NEW hd, NEW ls, Good(h, l, hd, ls), NEW i \in hd
    PROVE  i \in Nodes /\ i \in l /\ h.next[i] = NULL
           /\ \A a \in Nodes : i \notin ToSet(ls[a])
<1>1. i \in Nodes /\ i \in l /\ ls \in [Nodes -> Seq(Nodes)]
  BY DEF Good, Placed
<1>2. ~ InSome(ls, i)
  BY DEF Good, Placed, InSome
<1>3. h.next[i] = NULL
  BY <1>1, <1>2 DEF Good, Ends
<1>4. \A a \in Nodes : i \notin ToSet(ls[a])
  <2> SUFFICES ASSUME NEW a \in Nodes, i \in ToSet(ls[a]) PROVE FALSE
    OBVIOUS
  <2>1. \E k \in 1 .. Len(ls[a]) : ls[a][k] = i
    BY <1>1, InToSet
  <2> QED BY <1>2, <2>1 DEF InSome
<1> QED BY <1>1, <1>3, <1>4

LEMMA AddRelinks ==
    ASSUME NEW h \in Heaps, NEW a \in Nodes, NEW s \in Seq(Nodes), Distinct(s), Whole(h, a, s),
           NEW i \in Nodes, i # a, i \notin ToSet(s), h.next[i] = NULL
    PROVE  Relinked(h, add_item_to_array(h, a, i), a, s, Append(s, i))
<1> DEFINE g == add_item_to_array(h, a, i)
           t == Append(s, i)
           L == Len(s)
<1>1. t \in Seq(Nodes) /\ Len(t) = L + 1 /\ t[L + 1] = i /\ L \in Nat
      /\ \A k \in 1 .. L : t[k] = s[k]
  OBVIOUS
<1>2. ToSet(t) = ToSet(s) \cup {i}
  BY AppendList
<1>3. \A n : n \in ToSet(s) <=> \E k \in 1 .. L : s[k] = n
  BY InToSet
<1>4. /\ h.next \in [Nodes -> Nodes \cup {NULL}] /\ h.prev \in [Nodes -> Nodes \cup {NULL}]
      /\ h.child \in [Nodes -> Nodes \cup {NULL}]
  BY DEF Heaps, Pointers
<1>5. NULL \notin Nodes
  BY TreeAssumption
<1>6. CASE s = <<>>
  <2>1. g = [h EXCEPT !.child[a] = i, !.prev[i] = i, !.next[i] = NULL]
    BY <1>6 DEF add_item_to_array, Whole
  <2>2. g \in Heaps /\ g.ref = h.ref /\ g.child = [h.child EXCEPT ![a] = i]
        /\ g.prev = [h.prev EXCEPT ![i] = i] /\ g.next = [h.next EXCEPT ![i] = NULL]
    <3> HIDE DEF g
    <3> QED BY <2>1 DEF Heaps, Pointers
  <2>3. L = 0
    BY <1>6
  <2> HIDE DEF g, t, L
  <2>4. Whole(g, a, t)
    <3>1. t # <<>> /\ Len(t) = 1 /\ t[1] = i
      BY <1>1, <2>3
    <3> QED BY <1>4, <2>2, <3>1 DEF Whole
  <2> QED BY <1>2, <1>4, <2>2, <2>4, <1>3, <2>3 DEF Relinked, g, t
<1>7. CASE s # <<>>
  <2> DEFINE last == s[L]
  <2>1. L > 0 /\ 1 \in 1 .. L /\ L \in 1 .. L
    BY <1>7
  <2>2. h.child[a] = s[1] /\ h.prev[s[1]] = last /\ last \in Nodes /\ s[1] \in Nodes
    BY <1>7, <2>1 DEF Whole
  <2>3. g = [h EXCEPT !.next[last] = i,
                      !.prev = [@ EXCEPT ![i] = last, ![s[1]] = i]]
    BY <1>5, <2>2 DEF add_item_to_array
  <2>4. g \in Heaps /\ g.ref = h.ref /\ g.child = h.child
        /\ g.next = [h.next EXCEPT ![last] = i]
        /\ g.prev = [h.prev EXCEPT ![i] = last, ![s[1]] = i]
    <3> HIDE DEF last, g
    <3> QED BY <2>2, <2>3 DEF Heaps, Pointers
  <2>5. \A k \in 1 .. L : s[k] # i /\ s[k] \in Nodes
    BY <1>3
  <2>6. \A k \in 1 .. L : (s[k] = last <=> k = L) /\ (s[k] = s[1] <=> k = 1)
    BY <2>1 DEF Distinct
  <2>7. \A k \in 1 .. L : /\ h.next[s[k]] = IF k = L THEN NULL ELSE s[k + 1]
                          /\ h.prev[s[k]] = IF k = 1 THEN last ELSE s[k - 1]
    BY DEF Whole
  <2> HIDE DEF g, t, L, last
  <2>8. last # i /\ s[1] # i
    BY <2>1, <2>5 DEF last
  <2>9. ASSUME NEW k \in 1 .. L
        PROVE  /\ g.next[t[k]] = t[k + 1]
               /\ g.prev[t[k]] = IF k = 1 THEN t[L + 1] ELSE t[k - 1]
    <3>1. s[k] \in Nodes /\ s[k] # i /\ t[k] = s[k]
      BY <1>1, <2>5
    <3>2. CASE k = L
      <4>1. g.next[s[k]] = i
        BY <1>4, <2>4, <2>6, <3>1, <3>2
      <4> QED BY <1>1, <1>4, <2>4, <2>6, <2>7, <2>8, <3>1, <3>2, <4>1
    <3>3. CASE k # L
      <4>1. k + 1 \in 1 .. L
        BY <1>1, <3>3
      <4> QED BY <1>1, <1>4, <2>4, <2>6, <2>7, <2>8, <3>1, <3>3, <4>1
    <3> QED BY <3>2, <3>3
  <2>10. g.next[i] = NULL /\ g.prev[i] = last
    BY <1>4, <2>2, <2>4, <2>8
  <2>11. Whole(g, a, t)
    <3>1. t # <<>> /\ t[1] = s[1] /\ t[L] = last
      BY <1>1, <2>1 DEF last
    <3>2. \A k \in 1 .. Len(t) :
            /\ g.next[t[k]] = IF k = Len(t) THEN NULL ELSE t[k + 1]
            /\ g.prev[t[k]] = IF k = 1 THEN t[Len(t)] ELSE t[k - 1]
      <4> SUFFICES ASSUME NEW k \in 1 .. L + 1
                   PROVE  /\ g.next[t[k]] = IF k = L + 1 THEN NULL ELSE t[k + 1]
                          /\ g.prev[t[k]] = IF k = 1 THEN t[L + 1] ELSE t[k - 1]
        BY <1>1
      <4>1. CASE k = L + 1
        <5>1. k # 1 /\ k - 1 = L
          BY <1>1, <2>1, <4>1
        <5> QED BY <1>1, <2>10, <3>1, <4>1, <5>1
      <4>2. CASE k # L + 1
        <5>1. k \in 1 .. L
          BY <1>1, <4>2
        <5> QED BY <2>9, <4>2, <5>1
      <4> QED BY <4>1, <4>2
    <3> QED BY <2>2, <2>4, <3>1, <3>2 DEF Whole
  <2>12. \A n \in Nodes : n \notin ToSet(s) /\ n \notin ToSet(t) =>
             g.next[n] = h.next[n] /\ g.prev[n] = h.prev[n]
    <3> SUFFICES ASSUME NEW n \in Nodes, n \notin ToSet(s), n \notin ToSet(t)
                 PROVE  g.next[n] = h.next[n] /\ g.prev[n] = h.prev[n]
      OBVIOUS
    <3>1. n # i /\ n # last /\ n # s[1]
      BY <1>2, <1>3, <2>1 DEF last
    <3> QED BY <1>4, <2>4, <3>1
  <2> QED BY <1>2, <2>4, <2>11, <2>12 DEF Relinked, g, t
<1> QED BY <1>6, <1>7

\* Adding a held item to a list.
LEMMA GoodAdd ==
    ASSUME NEW h, NEW l, NEW hd, NEW ls, Good(h, l, hd, ls), NEW a \in l, ~ h.ref[a],
           NEW i \in hd, i # a
    PROVE  Good(add_item_to_array(h, a, i), l, hd \ {i}, [ls EXCEPT ![a] = Append(@, i)])
<1> DEFINE s == ls[a]
           t == Append(s, i)
<1>1. /\ h \in Heaps /\ a \in Nodes /\ ls \in [Nodes -> Seq(Nodes)]
      /\ s \in Seq(Nodes) /\ Distinct(s) /\ Whole(h, a, s)
      /\ \A n \in ToSet(s) : n \in Nodes /\ n \notin hd
  BY OwnerHas
<1>2. i \in Nodes /\ h.next[i] = NULL /\ i \notin ToSet(s)
  BY <1>1, LooseIs
<1>3. Relinked(h, add_item_to_array(h, a, i), a, s, t)
  <2> HIDE DEF s
  <2> QED BY <1>1, <1>2, AddRelinks
<1>4. t \in Seq(Nodes) /\ Distinct(t) /\ ToSet(t) = ToSet(s) \cup {i}
  <2> HIDE DEF s
  <2> QED BY <1>1, <1>2, AppendList
<1> HIDE DEF t
<1>5. Good(add_item_to_array(h, a, i), l, (hd \cup ToSet(s)) \ ToSet(t), [ls EXCEPT ![a] = t])
  BY <1>3, <1>4, GoodStep
<1>6. (hd \cup ToSet(s)) \ ToSet(t) = hd \ {i}
  BY <1>1, <1>4
<1> QED BY <1>5, <1>6 DEF t

LEMMA DetachRelinks ==
    ASSUME NEW h \in Heaps, NEW a \in Nodes, NEW s \in Seq(Nodes), Distinct(s), Whole(h, a, s),
           NEW p \in 1 .. Len(s)
    PROVE  Relinked(h, cJSON_DetachItemViaPointer(h, a, s[p]), a, s, RemoveAt(s, p))
<1> DEFINE L == Len(s)
           i == s[p]
           g == cJSON_DetachItemViaPointer(h, a, i)
           t == RemoveAt(s, p)
           before == IF p = 1 THEN s[L] ELSE s[p - 1]
           after == IF p = L THEN NULL ELSE s[p + 1]
<1>1. /\ t \in Seq(Nodes) /\ Len(t) = L - 1
      /\ \A k \in 1 .. L - 1 : t[k] = IF k < p THEN s[k] ELSE s[k + 1]
      /\ ToSet(t) = ToSet(s) \ {i}
  BY RemoveList
<1>2. /\ L \in Nat /\ L > 0 /\ p \in Int /\ 1 <= p /\ p <= L
      /\ \A k \in 1 .. L : s[k] \in Nodes /\ s[k] # NULL
      /\ p # 1 => p - 1 \in 1 .. L
      /\ p # L => p + 1 \in 1 .. L
  BY TreeAssumption
<1>3. \A n : n \in ToSet(s) <=> \E k \in 1 .. L : s[k] = n
  BY InToSet
<1>4. /\ h.next \in [Nodes -> Nodes \cup {NULL}] /\ h.prev \in [Nodes -> Nodes \cup {NULL}]
      /\ h.child \in [Nodes -> Nodes \cup {NULL}]
  BY DEF Heaps, Pointers
<1>5. \A k, m \in 1 .. L : s[k] = s[m] => k = m
  BY DEF Distinct
<1>6. \A k \in 1 .. L : /\ h.next[s[k]] = IF k = L THEN NULL ELSE s[k + 1]
                        /\ h.prev[s[k]] = IF k = 1 THEN s[L] ELSE s[k - 1]
  BY DEF Whole
<1>7. h.child[a] = s[1] /\ h.prev[i] = before /\ h.next[i] = after
  <2>1. s # <<>>
    BY <1>2
  <2> QED BY <1>6, <2>1 DEF Whole
<1>8. (i = s[1] <=> p = 1) /\ (after = NULL <=> p = L)
      /\ before \in Nodes /\ after \in Nodes \cup {NULL} /\ i \in Nodes /\ s[1] \in Nodes
  BY <1>2, <1>5
<1> DEFINE n1 == IF p # 1 THEN [h.next EXCEPT ![before] = after] ELSE h.next
           p1 == IF p # L THEN [h.prev EXCEPT ![after] = before] ELSE h.prev
           p2 == IF p # 1 /\ p = L THEN [p1 EXCEPT ![s[1]] = before] ELSE p1
<1>9. g = [h EXCEPT !.child[a] = IF p = 1 THEN after ELSE @,
                    !.next = [n1 EXCEPT ![i] = NULL],
                    !.prev = [p2 EXCEPT ![i] = NULL]]
  <2> HIDE DEF i, before, after
  <2> QED BY <1>7, <1>8 DEF cJSON_DetachItemViaPointer
<1>10. n1 \in Pointers /\ p1 \in Pointers /\ p2 \in Pointers
  <2> HIDE DEF before, after, i
  <2> QED BY <1>4, <1>8 DEF Pointers
<1> HIDE DEF g, n1, p1, p2, before, after, i
<1>11. /\ g \in Heaps /\ g.ref = h.ref
       /\ g.child = [h.child EXCEPT ![a] = IF p = 1 THEN after ELSE @]
       /\ g.next = [n1 EXCEPT ![i] = NULL] /\ g.prev = [p2 EXCEPT ![i] = NULL]
  BY <1>8, <1>9, <1>10 DEF Heaps, Pointers
\* Block by block.
<1>12. \A n \in Nodes : g.next[n] = IF n = i THEN NULL
                                    ELSE IF p # 1 /\ n = before THEN after ELSE h.next[n]
  BY <1>4, <1>8, <1>10, <1>11 DEF n1, Pointers
<1>13. \A n \in Nodes : g.prev[n] = IF n = i THEN NULL
                                    ELSE IF p # 1 /\ p = L /\ n = s[1] THEN before
                                    ELSE IF p # L /\ n = after THEN before ELSE h.prev[n]
  BY <1>4, <1>8, <1>10, <1>11 DEF p1, p2, Pointers
\* Element by element.
<1>14. ASSUME NEW k \in 1 .. L, k # p
       PROVE  g.next[s[k]] = IF k = p - 1 THEN after ELSE IF k = L THEN NULL ELSE s[k + 1]
  <2>1. s[k] \in Nodes /\ s[k] # i
    BY <1>2, <1>5, <1>14 DEF i
  <2>2. p # 1 /\ s[k] = before <=> k = p - 1
    BY <1>2, <1>5, <1>14 DEF before
  <2> QED BY <1>6, <1>12, <2>1, <2>2
<1>15. ASSUME NEW k \in 1 .. L, k # p
       PROVE  g.prev[s[k]] = IF p # 1 /\ p = L /\ k = 1 THEN before
                             ELSE IF k = p + 1 THEN before
                             ELSE IF k = 1 THEN s[L] ELSE s[k - 1]
  <2>1. s[k] \in Nodes /\ s[k] # i
    BY <1>2, <1>5, <1>15 DEF i
  <2>2. p # L /\ s[k] = after <=> k = p + 1
    BY <1>2, <1>5, <1>15 DEF after
  <2>3. s[k] = s[1] <=> k = 1
    BY <1>2, <1>5
  <2> QED BY <1>6, <1>13, <2>1, <2>2, <2>3
<1> HIDE DEF t, L
<1>16. ASSUME NEW j \in 1 .. L - 1
       PROVE  g.next[t[j]] = IF j = L - 1 THEN NULL ELSE t[j + 1]
  <2>1. j \in Int /\ 1 <= j /\ j <= L - 1 /\ j + 1 \in 1 .. L /\ j \in 1 .. L
        /\ (j # L - 1 => j + 1 \in 1 .. L - 1)
    BY <1>2
  <2>2. CASE j < p - 1
    <3>1. t[j] = s[j] /\ t[j + 1] = s[j + 1] /\ j # p /\ j # p - 1 /\ j # L /\ j # L - 1
      BY <1>1, <1>2, <2>1, <2>2
    <3> QED BY <1>14, <2>1, <3>1
  <2>3. CASE j = p - 1
    <3>1. t[j] = s[j] /\ j # p
      BY <1>1, <1>2, <2>1, <2>3
    <3>2. g.next[t[j]] = after
      BY <1>14, <2>1, <2>3, <3>1
    <3>3. j # L - 1 => p # L /\ t[j + 1] = s[p + 1]
      BY <1>1, <1>2, <2>1, <2>3
    <3>4. j = L - 1 => p = L
      BY <1>2, <2>3
    <3> QED BY <3>2, <3>3, <3>4 DEF after
  <2>4. CASE j >= p
    <3>1. t[j] = s[j + 1] /\ j + 1 # p /\ j + 1 # p - 1 /\ (j = L - 1 <=> j + 1 = L)
      BY <1>1, <1>2, <2>1, <2>4
    <3>2. g.next[t[j]] = IF j + 1 = L THEN NULL ELSE s[(j + 1) + 1]
      BY <1>14, <2>1, <3>1
    <3>3. j # L - 1 => t[j + 1] = s[(j + 1) + 1]
      BY <1>1, <1>2, <2>1, <2>4
    <3> QED BY <3>1, <3>2, <3>3
  <2> QED BY <1>2, <2>1, <2>2, <2>3, <2>4
<1>17. ASSUME NEW j \in 1 .. L - 1
       PROVE  g.prev[t[j]] = IF j = 1 THEN t[L - 1] ELSE t[j - 1]
  <2>1. j \in Int /\ 1 <= j /\ j <= L - 1 /\ j + 1 \in 1 .. L /\ j \in 1 .. L
        /\ L - 1 \in 1 .. L - 1 /\ (j # 1 => j - 1 \in 1 .. L - 1)
    BY <1>2
  <2>2. CASE j = 1 /\ p = 1
    <3>1. t[j] = s[2] /\ 2 \in 1 .. L /\ t[L - 1] = s[L] /\ p # L
      BY <1>1, <1>2, <2>1, <2>2
    <3> QED BY <1>15, <2>2, <3>1 DEF before
  <2>3. CASE j = 1 /\ p # 1 /\ p = L
    <3>1. t[j] = s[1] /\ t[L - 1] = s[p - 1] /\ 1 \in 1 .. L
      BY <1>1, <1>2, <2>1, <2>3
    <3> QED BY <1>15, <2>3, <3>1 DEF before
  <2>4. CASE j = 1 /\ p # 1 /\ p # L
    <3>1. t[j] = s[1] /\ t[L - 1] = s[L] /\ 1 \in 1 .. L /\ 1 # p + 1
      BY <1>1, <1>2, <2>1, <2>4
    <3> QED BY <1>15, <2>4, <3>1
  <2>5. CASE j # 1 /\ j < p
    <3>1. t[j] = s[j] /\ t[j - 1] = s[j - 1] /\ j # p /\ j # p + 1
      BY <1>1, <1>2, <2>1, <2>5
    <3> QED BY <1>15, <2>1, <2>5, <3>1
  <2>6. CASE j # 1 /\ j = p
    <3>1. t[j] = s[p + 1] /\ t[j - 1] = s[p - 1] /\ p + 1 \in 1 .. L /\ p + 1 # p /\ p # L
          /\ p # 1
      BY <1>1, <1>2, <2>1, <2>6
    <3> QED BY <1>15, <2>6, <3>1 DEF before
  <2>7. CASE j # 1 /\ j > p
    <3>1. t[j] = s[j + 1] /\ t[j - 1] = s[j] /\ j + 1 # p /\ j + 1 # p + 1 /\ j + 1 # 1
          /\ (j + 1) - 1 = j
      BY <1>1, <1>2, <2>1, <2>7
    <3> QED BY <1>15, <2>1, <2>7, <3>1
  <2> QED BY <1>2, <2>1, <2>2, <2>3, <2>4, <2>5, <2>6, <2>7
<1>18. g.child[a] = IF t = <<>> THEN NULL ELSE t[1]
  <2>1. g.child[a] = IF p = 1 THEN after ELSE s[1]
    BY <1>4, <1>7, <1>11
  <2>2. t = <<>> <=> L = 1
    BY <1>1, <1>2
  <2>3. CASE L = 1
    BY <1>2, <2>1, <2>2, <2>3 DEF after
  <2>4. CASE L # 1
    <3>1. 1 \in 1 .. L - 1
      BY <1>2, <2>4
    <3>2. t[1] = IF 1 < p THEN s[1] ELSE s[1 + 1]
      BY <1>1, <3>1
    <3> QED BY <1>2, <2>1, <2>2, <2>4, <3>2 DEF after
  <2> QED BY <2>3, <2>4
<1>19. Whole(g, a, t)
  BY <1>1, <1>16, <1>17, <1>18 DEF Whole
<1>20. \A n \in Nodes : n \notin ToSet(s) =>
           g.next[n] = h.next[n] /\ g.prev[n] = h.prev[n]
  <2> SUFFICES ASSUME NEW n \in Nodes, n \notin ToSet(s)
               PROVE  g.next[n] = h.next[n] /\ g.prev[n] = h.prev[n]
    OBVIOUS
  <2>1. \A k \in 1 .. L : s[k] # n
    BY <1>3
  <2>2. n # i /\ n # s[1]
    BY <1>2, <2>1 DEF i
  <2>3. p # 1 => n # before
    BY <1>2, <2>1 DEF before
  <2>4. p # L => n # after
    BY <1>2, <2>1 DEF after
  <2> QED BY <1>12, <1>13, <2>2, <2>3, <2>4
<1>21. \A n \in Nodes : n \in ToSet(s) /\ n \notin ToSet(t) => g.next[n] = NULL
  BY <1>1, <1>12
<1>22. \A n \in Nodes : n # a => g.child[n] = h.child[n]
  BY <1>4, <1>11
<1>23. Relinked(h, g, a, s, t)
  BY <1>11, <1>19, <1>20, <1>21, <1>22 DEF Relinked
<1> QED BY <1>23 DEF g, t, i

LEMMA InsertRelinks ==
    ASSUME NEW h \in Heaps, NEW a \in Nodes, NEW s \in Seq(Nodes), Distinct(s), Whole(h, a, s),
           NEW p \in 1 .. Len(s), NEW i \in Nodes, i \notin ToSet(s)
    PROVE  Relinked(h, cJSON_InsertItemInArray(h, a, s[p], i), a, s, InsertAt(s, p, i))
<1> DEFINE L == Len(s)
           at == s[p]
           g == cJSON_InsertItemInArray(h, a, at, i)
           t == InsertAt(s, p, i)
           before == IF p = 1 THEN s[L] ELSE s[p - 1]
<1>1. /\ t \in Seq(Nodes) /\ Len(t) = L + 1
      /\ \A k \in 1 .. L + 1 : t[k] = IF k < p THEN s[k] ELSE IF k = p THEN i ELSE s[k - 1]
      /\ ToSet(t) = ToSet(s) \cup {i}
  BY InsertList
<1>2. /\ L \in Nat /\ L > 0 /\ p \in Int /\ 1 <= p /\ p <= L
      /\ \A k \in 1 .. L : s[k] \in Nodes /\ s[k] # NULL
      /\ p # 1 => p - 1 \in 1 .. L
  BY TreeAssumption
<1>3. \A n : n \in ToSet(s) <=> \E k \in 1 .. L : s[k] = n
  BY InToSet
<1>4. /\ h.next \in [Nodes -> Nodes \cup {NULL}] /\ h.prev \in [Nodes -> Nodes \cup {NULL}]
      /\ h.child \in [Nodes -> Nodes \cup {NULL}]
  BY DEF Heaps, Pointers
<1>5. \A k, m \in 1 .. L : s[k] = s[m] => k = m
  BY DEF Distinct
<1>6. \A k \in 1 .. L : /\ h.next[s[k]] = IF k = L THEN NULL ELSE s[k + 1]
                        /\ h.prev[s[k]] = IF k = 1 THEN s[L] ELSE s[k - 1]
  BY DEF Whole
<1>7. h.child[a] = s[1] /\ h.prev[at] = before /\ at # NULL
  <2>1. s # <<>>
    BY <1>2
  <2> QED BY <1>2, <1>6, <2>1 DEF Whole
<1>8. (at = s[1] <=> p = 1) /\ before \in Nodes /\ at \in Nodes /\ s[1] \in Nodes
      /\ at # i /\ before # i
  BY <1>2, <1>3, <1>5
<1> DEFINE n1 == [h.next EXCEPT ![i] = at]
           n2 == IF p = 1 THEN n1 ELSE [n1 EXCEPT ![before] = i]
<1>9. g = [h EXCEPT !.child[a] = IF p = 1 THEN i ELSE @,
                    !.next = n2,
                    !.prev = [@ EXCEPT ![i] = before, ![at] = i]]
  <2> HIDE DEF at, before
  <2> QED BY <1>7, <1>8 DEF cJSON_InsertItemInArray
<1>10. n1 \in Pointers /\ n2 \in Pointers
  <2> HIDE DEF before, at
  <2> QED BY <1>4, <1>8 DEF Pointers
<1> HIDE DEF g, n1, n2, before, at
<1>11. /\ g \in Heaps /\ g.ref = h.ref
       /\ g.child = [h.child EXCEPT ![a] = IF p = 1 THEN i ELSE @]
       /\ g.next = n2 /\ g.prev = [h.prev EXCEPT ![i] = before, ![at] = i]
  BY <1>8, <1>9, <1>10 DEF Heaps, Pointers
\* Block by block.
<1>12. \A n \in Nodes : g.next[n] = IF n = i THEN at
                                    ELSE IF p # 1 /\ n = before THEN i ELSE h.next[n]
  BY <1>4, <1>8, <1>10, <1>11 DEF n1, n2, Pointers
<1>13. \A n \in Nodes : g.prev[n] = IF n = i THEN before
                                    ELSE IF n = at THEN i ELSE h.prev[n]
  BY <1>4, <1>8, <1>11
\* Element by element.
<1>14. ASSUME NEW k \in 1 .. L
       PROVE  g.next[s[k]] = IF k = p - 1 THEN i ELSE IF k = L THEN NULL ELSE s[k + 1]
  <2>1. s[k] \in Nodes /\ s[k] # i
    BY <1>2, <1>3
  <2>2. p # 1 /\ s[k] = before <=> k = p - 1
    BY <1>2, <1>5 DEF before
  <2> QED BY <1>6, <1>12, <2>1, <2>2
<1>15. ASSUME NEW k \in 1 .. L
       PROVE  g.prev[s[k]] = IF k = p THEN i ELSE IF k = 1 THEN s[L] ELSE s[k - 1]
  <2>1. s[k] \in Nodes /\ s[k] # i
    BY <1>2, <1>3
  <2>2. s[k] = at <=> k = p
    BY <1>2, <1>5 DEF at
  <2> QED BY <1>6, <1>13, <2>1, <2>2
<1>16. g.next[i] = s[p] /\ g.prev[i] = before
  BY <1>12, <1>13 DEF at
<1> HIDE DEF t, L
<1>17. ASSUME NEW j \in 1 .. L + 1
       PROVE  g.next[t[j]] = IF j = L + 1 THEN NULL ELSE t[j + 1]
  <2>1. j \in Int /\ 1 <= j /\ j <= L + 1 /\ (j # L + 1 => j + 1 \in 1 .. L + 1)
    BY <1>2
  <2>2. CASE j < p - 1
    <3>1. t[j] = s[j] /\ t[j + 1] = s[j + 1] /\ j # p - 1 /\ j # L /\ j # L + 1 /\ j \in 1 .. L
      BY <1>1, <1>2, <2>1, <2>2
    <3> QED BY <1>14, <3>1
  <2>3. CASE j = p - 1
    <3>1. t[j] = s[j] /\ t[j + 1] = i /\ j \in 1 .. L /\ j # L + 1
      BY <1>1, <1>2, <2>1, <2>3
    <3> QED BY <1>14, <2>3, <3>1
  <2>4. CASE j = p
    <3>1. t[j] = i /\ t[j + 1] = s[p] /\ j # L + 1
      BY <1>1, <1>2, <2>1, <2>4
    <3> QED BY <1>16, <3>1
  <2>5. CASE j > p
    <3>1. t[j] = s[j - 1] /\ j - 1 \in 1 .. L /\ j - 1 # p - 1 /\ (j - 1 = L <=> j = L + 1)
          /\ (j - 1) + 1 = j
      BY <1>1, <1>2, <2>1, <2>5
    <3>2. j # L + 1 => t[j + 1] = s[j]
      <4> SUFFICES ASSUME j # L + 1 PROVE t[j + 1] = s[j]
        OBVIOUS
      <4>1. j + 1 \in 1 .. L + 1 /\ j + 1 > p /\ (j + 1) - 1 = j
        BY <2>1, <2>5
      <4> QED BY <1>1, <1>2, <4>1
    <3>3. g.next[t[j]] = IF j - 1 = L THEN NULL ELSE s[(j - 1) + 1]
      BY <1>14, <3>1
    <3> QED BY <3>1, <3>2, <3>3
  <2> QED BY <1>2, <2>1, <2>2, <2>3, <2>4, <2>5
<1>18. ASSUME NEW j \in 1 .. L + 1
       PROVE  g.prev[t[j]] = IF j = 1 THEN t[L + 1] ELSE t[j - 1]
  <2>1. j \in Int /\ 1 <= j /\ j <= L + 1 /\ (j # 1 => j - 1 \in 1 .. L + 1)
        /\ t[L + 1] = s[L]
    BY <1>1, <1>2
  <2>2. CASE j < p
    <3>1. t[j] = s[j] /\ j \in 1 .. L /\ (j # 1 => t[j - 1] = s[j - 1]) /\ j # p
      BY <1>1, <1>2, <2>1, <2>2
    <3> QED BY <1>15, <2>1, <3>1
  <2>3. CASE j = p
    <3>1. t[j] = i /\ (j # 1 => t[j - 1] = s[j - 1])
      BY <1>1, <1>2, <2>1, <2>3
    <3> QED BY <1>16, <2>1, <2>3, <3>1 DEF before
  <2>4. CASE j = p + 1
    <3>1. t[j] = s[p] /\ t[j - 1] = i /\ j # 1 /\ p \in 1 .. L
      BY <1>1, <1>2, <2>1, <2>4
    <3> QED BY <1>15, <3>1
  <2>5. CASE j > p + 1
    <3>1. t[j] = s[j - 1] /\ j - 1 \in 1 .. L /\ j - 1 # p /\ j - 1 # 1 /\ j # 1
      BY <1>1, <1>2, <2>1, <2>5
    <3>2. t[j - 1] = s[(j - 1) - 1]
      <4>1. j - 1 \in 1 .. L + 1 /\ j - 1 > p
        BY <1>2, <2>1, <2>5
      <4> QED BY <1>1, <1>2, <4>1
    <3> QED BY <1>15, <3>1, <3>2
  <2> QED BY <1>2, <2>1, <2>2, <2>3, <2>4, <2>5
<1>19. g.child[a] = IF t = <<>> THEN NULL ELSE t[1]
  <2>1. g.child[a] = IF p = 1 THEN i ELSE s[1]
    BY <1>4, <1>7, <1>11
  <2>2. t # <<>> /\ 1 \in 1 .. L + 1
    BY <1>1, <1>2
  <2>3. t[1] = IF 1 < p THEN s[1] ELSE IF 1 = p THEN i ELSE s[1 - 1]
    BY <1>1, <2>2
  <2> QED BY <1>2, <2>1, <2>2, <2>3
<1>20. Whole(g, a, t)
  BY <1>1, <1>17, <1>18, <1>19 DEF Whole
<1>21. \A n \in Nodes : n \notin ToSet(s) /\ n \notin ToSet(t) =>
           g.next[n] = h.next[n] /\ g.prev[n] = h.prev[n]
  <2> SUFFICES ASSUME NEW n \in Nodes, n \notin ToSet(s), n \notin ToSet(t)
               PROVE  g.next[n] = h.next[n] /\ g.prev[n] = h.prev[n]
    OBVIOUS
  <2>1. \A k \in 1 .. L : s[k] # n
    BY <1>3
  <2>2. n # i /\ n # at
    BY <1>1, <1>2, <2>1 DEF at
  <2>3. p # 1 => n # before
    BY <1>2, <2>1 DEF before
  <2> QED BY <1>12, <1>13, <2>2, <2>3
<1>22. \A n \in Nodes : n # a => g.child[n] = h.child[n]
  BY <1>4, <1>11
<1>23. Relinked(h, g, a, s, t)
  BY <1>1, <1>11, <1>20, <1>21, <1>22 DEF Relinked
<1> QED BY <1>23 DEF g, t, at

LEMMA ExchangeRelinks ==
    ASSUME NEW h \in Heaps, NEW a \in Nodes, NEW s \in Seq(Nodes), Distinct(s), Whole(h, a, s),
           NEW p \in 1 .. Len(s), NEW r \in Nodes, r \notin ToSet(s)
    PROVE  Relinked(h, Exchange(h, a, s[p], r), a, s, ReplaceAt(s, p, r))
<1> DEFINE L == Len(s)
           i == s[p]
           g == Exchange(h, a, i, r)
           t == ReplaceAt(s, p, r)
           before == IF p = 1 THEN s[L] ELSE s[p - 1]
           after == IF p = L THEN NULL ELSE s[p + 1]
<1>1. /\ t \in Seq(Nodes) /\ Len(t) = L
      /\ \A k \in 1 .. L : t[k] = IF k = p THEN r ELSE s[k]
      /\ ToSet(t) = (ToSet(s) \ {i}) \cup {r}
  BY ReplaceList
<1>2. /\ L \in Nat /\ L > 0 /\ p \in Int /\ 1 <= p /\ p <= L
      /\ \A k \in 1 .. L : s[k] \in Nodes /\ s[k] # NULL
      /\ p # 1 => p - 1 \in 1 .. L
      /\ p # L => p + 1 \in 1 .. L
  BY TreeAssumption
<1>3. \A n : n \in ToSet(s) <=> \E k \in 1 .. L : s[k] = n
  BY InToSet
<1>4. /\ h.next \in [Nodes -> Nodes \cup {NULL}] /\ h.prev \in [Nodes -> Nodes \cup {NULL}]
      /\ h.child \in [Nodes -> Nodes \cup {NULL}]
  BY DEF Heaps, Pointers
<1>5. \A k, m \in 1 .. L : s[k] = s[m] => k = m
  BY DEF Distinct
<1>6. \A k \in 1 .. L : /\ h.next[s[k]] = IF k = L THEN NULL ELSE s[k + 1]
                        /\ h.prev[s[k]] = IF k = 1 THEN s[L] ELSE s[k - 1]
  BY DEF Whole
<1>7. h.child[a] = s[1] /\ h.prev[i] = before /\ h.next[i] = after
  <2>1. s # <<>>
    BY <1>2
  <2> QED BY <1>6, <2>1 DEF Whole
<1>8. /\ i = s[1] <=> p = 1
      /\ after = NULL <=> p = L
      /\ before = s[1] <=> p = 2 \/ L = 1
      /\ before \in Nodes /\ before # NULL /\ after \in Nodes \cup {NULL}
      /\ i \in Nodes /\ s[1] \in Nodes /\ r # i /\ r # before /\ r # after /\ r # s[1]
      /\ p = 1 => after # s[1]
      /\ p # 1 => before # i
      /\ after # i /\ i # NULL
  <2>1. \A k \in 1 .. L : r # s[k]
    BY <1>3
  <2>2. r # NULL /\ 1 \in 1 .. L /\ L \in 1 .. L
    BY <1>2, TreeAssumption
  <2>3. /\ i = s[1] <=> p = 1
        /\ i \in Nodes /\ s[1] \in Nodes /\ r # i /\ r # s[1] /\ i # NULL
    BY <1>2, <1>5, <2>1, <2>2
  <2>4. CASE p = 1
    BY <1>2, <1>5, <2>1, <2>2, <2>3, <2>4
  <2>5. CASE p # 1
    <3>1. before = s[p - 1] /\ p - 1 \in 1 .. L /\ p - 1 # p /\ (p - 1 = 1 <=> p = 2) /\ L # 1
      BY <1>2, <2>5
    <3>2. before = s[1] <=> p = 2
      BY <1>5, <2>2, <3>1
    <3>3. before \in Nodes /\ before # NULL /\ r # before /\ before # i
      BY <1>2, <1>5, <2>1, <3>1
    <3>4. /\ after = NULL <=> p = L
          /\ after \in Nodes \cup {NULL} /\ r # after /\ after # i
      BY <1>2, <1>5, <2>1, <2>2, <2>3
    <3> QED BY <2>3, <2>5, <3>1, <3>2, <3>3, <3>4
  <2> QED BY <2>4, <2>5
<1> DEFINE p1 == [h.prev EXCEPT ![r] = before]
           p2 == IF p # L THEN [p1 EXCEPT ![after] = r] ELSE p1
           p3 == IF p = 1 THEN IF L = 1 THEN [p2 EXCEPT ![r] = r] ELSE p2
                 ELSE IF p = L THEN [p2 EXCEPT ![s[1]] = r] ELSE p2
           n1 == [h.next EXCEPT ![r] = after]
           n2 == IF p # 1 THEN [n1 EXCEPT ![before] = r] ELSE n1
<1> HIDE DEF i, before, after
<1>9. p1 \in Pointers /\ p2 \in Pointers /\ p3 \in Pointers /\ n1 \in Pointers /\ n2 \in Pointers
  BY <1>4, <1>8 DEF Pointers
<1>10. p = 1 => (p2[s[1]] = s[1] <=> L = 1)
  <2> SUFFICES ASSUME p = 1 PROVE p2[s[1]] = before
    BY <1>2, <1>8
  <2>1. p1[s[1]] = before
    BY <1>4, <1>7, <1>8
  <2>2. p # L => s[1] # after
    BY <1>8
  <2> QED BY <1>8, <1>9, <2>1, <2>2 DEF Pointers
<1>11. g = [h EXCEPT !.child[a] = IF p = 1 THEN r ELSE @,
                     !.next = [n2 EXCEPT ![i] = NULL],
                     !.prev = [p3 EXCEPT ![i] = NULL]]
  <2>1. p # 1 /\ before # NULL <=> p # 1
    BY <1>8
  <2> DEFINE q2 == IF after # NULL THEN [p1 EXCEPT ![after] = r] ELSE p1
             q3 == IF p = 1 THEN IF q2[s[1]] = s[1] THEN [q2 EXCEPT ![r] = r] ELSE q2
                   ELSE IF after = NULL THEN [q2 EXCEPT ![s[1]] = r] ELSE q2
  <2>2. q2 = p2
    BY <1>8
  <2>3. q3 = p3
    <3> HIDE DEF q2, p2
    <3> QED BY <1>8, <1>10, <2>2
  <2>4. g = [h EXCEPT !.child[a] = IF p = 1 THEN r ELSE @,
                      !.next = [n2 EXCEPT ![i] = NULL],
                      !.prev = [q3 EXCEPT ![i] = NULL]]
    BY <1>7, <1>8, <2>1 DEF Exchange
  <2> HIDE DEF q3, p3, n2, g
  <2> QED BY <2>3, <2>4
<1> HIDE DEF g, n1, n2, p1, p2, p3
<1>12. /\ g \in Heaps /\ g.ref = h.ref
       /\ g.child = [h.child EXCEPT ![a] = IF p = 1 THEN r ELSE @]
       /\ g.next = [n2 EXCEPT ![i] = NULL] /\ g.prev = [p3 EXCEPT ![i] = NULL]
  BY <1>8, <1>9, <1>11 DEF Heaps, Pointers
\* Block by block.
<1>13. \A n \in Nodes : g.next[n] = IF n = i THEN NULL
                                    ELSE IF p # 1 /\ n = before THEN r
                                    ELSE IF n = r THEN after ELSE h.next[n]
  BY <1>4, <1>8, <1>9, <1>12 DEF n1, n2, Pointers
<1>14. \A n \in Nodes : n # i /\ n # r =>
           g.prev[n] = IF p # 1 /\ p = L /\ n = s[1] THEN r
                       ELSE IF p # L /\ n = after THEN r ELSE h.prev[n]
  <2> SUFFICES ASSUME NEW n \in Nodes, n # i, n # r
               PROVE  g.prev[n] = IF p # 1 /\ p = L /\ n = s[1] THEN r
                                  ELSE IF p # L /\ n = after THEN r ELSE h.prev[n]
    OBVIOUS
  <2>1. g.prev[n] = p3[n]
    BY <1>9, <1>12 DEF Pointers
  <2>2. p3[n] = IF p # 1 /\ p = L /\ n = s[1] THEN r ELSE p2[n]
    BY <1>8, <1>9 DEF p3, Pointers
  <2>3. p2[n] = IF p # L /\ n = after THEN r ELSE p1[n]
    BY <1>8, <1>9 DEF p2, Pointers
  <2>4. p1[n] = h.prev[n]
    BY <1>4 DEF p1
  <2> QED BY <2>1, <2>2, <2>3, <2>4
<1>15. g.prev[r] = IF L = 1 THEN r ELSE before
  <2>1. g.prev[r] = p3[r]
    BY <1>8, <1>9, <1>12 DEF Pointers
  <2>2. p1[r] = before
    BY <1>4 DEF p1
  <2>3. p2[r] = before
    BY <1>8, <1>9, <2>2 DEF p2, Pointers
  <2>4. L = 1 => p = 1
    BY <1>2
  <2> QED BY <1>8, <1>9, <2>1, <2>3, <2>4 DEF p3, Pointers
\* Element by element.
<1>16. ASSUME NEW k \in 1 .. L, k # p
       PROVE  g.next[s[k]] = IF k = p - 1 THEN r ELSE IF k = L THEN NULL ELSE s[k + 1]
  <2>1. s[k] \in Nodes /\ s[k] # i /\ s[k] # r
    BY <1>2, <1>3, <1>5, <1>16 DEF i
  <2>2. p # 1 /\ s[k] = before <=> k = p - 1
    BY <1>2, <1>5, <1>16 DEF before
  <2> QED BY <1>6, <1>13, <2>1, <2>2
<1>17. ASSUME NEW k \in 1 .. L, k # p
       PROVE  g.prev[s[k]] = IF p # 1 /\ p = L /\ k = 1 THEN r
                             ELSE IF k = p + 1 THEN r
                             ELSE IF k = 1 THEN s[L] ELSE s[k - 1]
  <2>1. s[k] \in Nodes /\ s[k] # i /\ s[k] # r
    BY <1>2, <1>3, <1>5, <1>17 DEF i
  <2>2. p # L /\ s[k] = after <=> k = p + 1
    BY <1>2, <1>5, <1>17 DEF after
  <2>3. s[k] = s[1] <=> k = 1
    BY <1>2, <1>5
  <2> QED BY <1>6, <1>14, <2>1, <2>2, <2>3
<1>18. g.next[r] = after
  BY <1>8, <1>13
<1> HIDE DEF t, L
<1>19. ASSUME NEW j \in 1 .. L
       PROVE  g.next[t[j]] = IF j = L THEN NULL ELSE t[j + 1]
  <2>1. j \in Int /\ 1 <= j /\ j <= L /\ (j # L => j + 1 \in 1 .. L)
    BY <1>2
  <2>2. CASE j = p
    <3>1. t[j] = r /\ (j # L => t[j + 1] = s[p + 1])
      BY <1>1, <1>2, <2>1, <2>2
    <3> QED BY <1>18, <2>2, <3>1 DEF after
  <2>3. CASE j = p - 1
    <3>1. t[j] = s[j] /\ t[j + 1] = r /\ j # p /\ j # L
      BY <1>1, <1>2, <2>1, <2>3
    <3> QED BY <1>16, <2>3, <3>1
  <2>4. CASE j # p /\ j # p - 1
    <3>1. t[j] = s[j] /\ (j # L => t[j + 1] = s[j + 1])
      BY <1>1, <1>2, <2>1, <2>4
    <3> QED BY <1>16, <2>4, <3>1
  <2> QED BY <2>2, <2>3, <2>4
<1>20. ASSUME NEW j \in 1 .. L
       PROVE  g.prev[t[j]] = IF j = 1 THEN t[L] ELSE t[j - 1]
  <2>1. j \in Int /\ 1 <= j /\ j <= L /\ (j # 1 => j - 1 \in 1 .. L) /\ L \in 1 .. L
        /\ 1 \in 1 .. L
    BY <1>2
  <2>2. CASE j = p
    <3>1. t[j] = r /\ (j # 1 => t[j - 1] = s[p - 1]) /\ (p = L => t[L] = r)
          /\ (p # L => t[L] = s[L])
      BY <1>1, <1>2, <2>1, <2>2
    <3>2. L = 1 => p = L /\ j = 1
      BY <1>2, <2>2
    <3>3. L # 1 /\ j = 1 => p # L
      BY <2>2
    <3> QED BY <1>15, <2>2, <3>1, <3>2, <3>3 DEF before
  <2>3. CASE j # p /\ j = 1
    <3>1. t[j] = s[1] /\ p # 1 /\ (p = L => t[L] = r) /\ (p # L => t[L] = s[L]) /\ 1 # p + 1
      BY <1>1, <1>2, <2>1, <2>3
    <3> QED BY <1>17, <2>1, <2>3, <3>1
  <2>4. CASE j # p /\ j # 1 /\ j = p + 1
    <3>1. t[j] = s[j] /\ t[j - 1] = r
      BY <1>1, <1>2, <2>1, <2>4
    <3> QED BY <1>17, <2>4, <3>1
  <2>5. CASE j # p /\ j # 1 /\ j # p + 1
    <3>1. t[j] = s[j] /\ t[j - 1] = s[j - 1]
      BY <1>1, <1>2, <2>1, <2>5
    <3> QED BY <1>17, <2>5, <3>1
  <2> QED BY <2>2, <2>3, <2>4, <2>5
<1>21. g.child[a] = IF t = <<>> THEN NULL ELSE t[1]
  <2>1. g.child[a] = IF p = 1 THEN r ELSE s[1]
    BY <1>4, <1>7, <1>12
  <2>2. t # <<>> /\ 1 \in 1 .. L
    BY <1>1, <1>2
  <2>3. t[1] = IF 1 = p THEN r ELSE s[1]
    BY <1>1, <2>2
  <2> QED BY <2>1, <2>2, <2>3
<1>22. Whole(g, a, t)
  BY <1>1, <1>19, <1>20, <1>21 DEF Whole
<1>23. \A n \in Nodes : n \notin ToSet(s) /\ n \notin ToSet(t) =>
           g.next[n] = h.next[n] /\ g.prev[n] = h.prev[n]
  <2> SUFFICES ASSUME NEW n \in Nodes, n \notin ToSet(s), n \notin ToSet(t)
               PROVE  g.next[n] = h.next[n] /\ g.prev[n] = h.prev[n]
    OBVIOUS
  <2>1. \A k \in 1 .. L : s[k] # n
    BY <1>3
  <2>2. n # i /\ n # r /\ n # s[1]
    BY <1>1, <1>2, <2>1 DEF i
  <2>3. p # 1 => n # before
    BY <1>2, <2>1 DEF before
  <2>4. p # L => n # after
    BY <1>2, <2>1 DEF after
  <2> QED BY <1>13, <1>14, <2>2, <2>3, <2>4
<1>24. \A n \in Nodes : n \in ToSet(s) /\ n \notin ToSet(t) => g.next[n] = NULL
  BY <1>1, <1>13
<1>25. \A n \in Nodes : n # a => g.child[n] = h.child[n]
  BY <1>4, <1>12
<1>26. Relinked(h, g, a, s, t)
  BY <1>12, <1>22, <1>23, <1>24, <1>25 DEF Relinked
<1> QED BY <1>26 DEF g, t, i

\* Detaching an item: it is in the program's hands.
LEMMA GoodDetach ==
    ASSUME NEW h, NEW l, NEW hd, NEW ls, Good(h, l, hd, ls), NEW a \in l, ~ h.ref[a],
           NEW p \in 1 .. Len(ls[a])
    PROVE  Good(cJSON_DetachItemViaPointer(h, a, ls[a][p]), l, hd \cup {ls[a][p]},
                [ls EXCEPT ![a] = RemoveAt(@, p)])
<1> DEFINE s == ls[a]
           t == RemoveAt(s, p)
<1>1. /\ h \in Heaps /\ a \in Nodes /\ ls \in [Nodes -> Seq(Nodes)]
      /\ s \in Seq(Nodes) /\ Distinct(s) /\ Whole(h, a, s)
      /\ \A n \in ToSet(s) : n \in Nodes /\ n \notin hd
  BY OwnerHas
<1>2. Relinked(h, cJSON_DetachItemViaPointer(h, a, s[p]), a, s, t)
  <2> HIDE DEF s
  <2> QED BY <1>1, DetachRelinks DEF s
<1>3. t \in Seq(Nodes) /\ Distinct(t) /\ ToSet(t) = ToSet(s) \ {s[p]} /\ s[p] \in ToSet(s)
  <2>1. p \in 1 .. Len(s)
    OBVIOUS
  <2> HIDE DEF s
  <2> QED BY <1>1, <2>1, RemoveList, InToSet
<1> HIDE DEF t
<1>4. Good(cJSON_DetachItemViaPointer(h, a, s[p]), l, (hd \cup ToSet(s)) \ ToSet(t),
           [ls EXCEPT ![a] = t])
  BY <1>2, <1>3, GoodStep
<1>5. (hd \cup ToSet(s)) \ ToSet(t) = hd \cup {s[p]}
  BY <1>1, <1>3
<1> QED BY <1>4, <1>5 DEF t

\* Inserting a held item in front of another.
LEMMA GoodInsert ==
    ASSUME NEW h, NEW l, NEW hd, NEW ls, Good(h, l, hd, ls), NEW a \in l, ~ h.ref[a],
           NEW p \in 1 .. Len(ls[a]), NEW i \in hd
    PROVE  Good(cJSON_InsertItemInArray(h, a, ls[a][p], i), l, hd \ {i},
                [ls EXCEPT ![a] = InsertAt(@, p, i)])
<1> DEFINE s == ls[a]
           t == InsertAt(s, p, i)
<1>1. /\ h \in Heaps /\ a \in Nodes /\ ls \in [Nodes -> Seq(Nodes)]
      /\ s \in Seq(Nodes) /\ Distinct(s) /\ Whole(h, a, s)
      /\ \A n \in ToSet(s) : n \in Nodes /\ n \notin hd
  BY OwnerHas
<1>2. i \in Nodes /\ i \notin ToSet(s) /\ p \in 1 .. Len(s)
  BY <1>1, LooseIs
<1>3. Relinked(h, cJSON_InsertItemInArray(h, a, s[p], i), a, s, t)
  <2> HIDE DEF s
  <2> QED BY <1>1, <1>2, InsertRelinks
<1>4. t \in Seq(Nodes) /\ Distinct(t) /\ ToSet(t) = ToSet(s) \cup {i}
  <2> HIDE DEF s
  <2> QED BY <1>1, <1>2, InsertList
<1> HIDE DEF t
<1>5. Good(cJSON_InsertItemInArray(h, a, s[p], i), l, (hd \cup ToSet(s)) \ ToSet(t),
           [ls EXCEPT ![a] = t])
  BY <1>3, <1>4, GoodStep
<1>6. (hd \cup ToSet(s)) \ ToSet(t) = hd \ {i}
  BY <1>1, <1>4
<1> QED BY <1>5, <1>6 DEF t

\* Exchanging an item for a held one.
LEMMA GoodExchange ==
    ASSUME NEW h, NEW l, NEW hd, NEW ls, Good(h, l, hd, ls), NEW a \in l, ~ h.ref[a],
           NEW p \in 1 .. Len(ls[a]), NEW r \in hd
    PROVE  Good(Exchange(h, a, ls[a][p], r), l, (hd \ {r}) \cup {ls[a][p]},
                [ls EXCEPT ![a] = ReplaceAt(@, p, r)])
<1> DEFINE s == ls[a]
           t == ReplaceAt(s, p, r)
<1>1. /\ h \in Heaps /\ a \in Nodes /\ ls \in [Nodes -> Seq(Nodes)]
      /\ s \in Seq(Nodes) /\ Distinct(s) /\ Whole(h, a, s)
      /\ \A n \in ToSet(s) : n \in Nodes /\ n \notin hd
  BY OwnerHas
<1>2. r \in Nodes /\ r \notin ToSet(s) /\ p \in 1 .. Len(s)
  BY <1>1, LooseIs
<1>3. Relinked(h, Exchange(h, a, s[p], r), a, s, t)
  <2> HIDE DEF s
  <2> QED BY <1>1, <1>2, ExchangeRelinks
<1>4. t \in Seq(Nodes) /\ Distinct(t) /\ ToSet(t) = (ToSet(s) \ {s[p]}) \cup {r}
      /\ s[p] \in ToSet(s)
  <2> HIDE DEF s
  <2>1. s[p] \in ToSet(s)
    BY <1>1, <1>2, InToSet
  <2>2. t \in Seq(Nodes) /\ Distinct(t) /\ ToSet(t) = (ToSet(s) \ {s[p]}) \cup {r}
    BY <1>1, <1>2, ReplaceList
  <2> QED BY <2>1, <2>2
<1> HIDE DEF t
<1>5. Good(Exchange(h, a, s[p], r), l, (hd \cup ToSet(s)) \ ToSet(t), [ls EXCEPT ![a] = t])
  BY <1>3, <1>4, GoodStep
<1>6. (hd \cup ToSet(s)) \ ToSet(t) = (hd \ {r}) \cup {s[p]}
  BY <1>1, <1>2, <1>4
<1> QED BY <1>5, <1>6 DEF t

\* Blocks that are allocated and left as they are.
LEMMA GoodTake ==
    ASSUME NEW h, NEW l, NEW hd, NEW ls, Good(h, l, hd, ls),
           NEW B \in SUBSET Nodes, \A n \in B : n \notin l
    PROVE  Good(h, l \cup B, hd \cup B, ls)
<1>1. ls \in [Nodes -> Seq(Nodes)] /\ l \subseteq Nodes /\ hd \subseteq l
  BY DEF Good, Placed
<1>2. Wholes(h, l \cup B, ls)
  <2>1. ASSUME NEW b \in B PROVE Whole(h, b, ls[b])
    <3>1. ls[b] = <<>> /\ h.child[b] = NULL
      BY DEF Good, Wholes, Bare
    <3> QED BY <3>1 DEF Whole
  <2> QED BY <2>1 DEF Good, Wholes
<1>3. Placed(l \cup B, hd \cup B, ls)
  BY <1>1 DEF Good, Placed
<1>4. Bare(h, l \cup B)
  BY DEF Good, Bare
<1>5. Kept(h, l \cup B, hd \cup B, ls)
  BY DEF Good, Kept
<1> QED BY <1>2, <1>3, <1>4, <1>5 DEF Good

-----------------------------------------------------------------------------
(* Reading.                                                                *)

Walks(f, h, a, index) ==
    f = [k \in 0 .. index |->
            IF k = 0 THEN h.child[a]
            ELSE IF f[k - 1] = NULL THEN NULL ELSE h.next[f[k - 1]]]

LEMMA ItemWalk ==
    ASSUME NEW h, NEW a, NEW index \in Int
    PROVE  get_array_item(h, a, index) =
               IF index < 0 THEN NULL ELSE (CHOOSE f : Walks(f, h, a, index))[index]
BY DEF get_array_item, Walks

\* The walk of get_array_item ends at the item of that number, or at NULL.
LEMMA ItemIs ==
    ASSUME NEW h, NEW a, NEW s \in Seq(Nodes), Whole(h, a, s), NEW index \in Int
    PROVE  get_array_item(h, a, index) =
               IF 0 <= index /\ index < Len(s) THEN s[index + 1] ELSE NULL
<1>1. CASE index < 0
  <2>1. get_array_item(h, a, index) = NULL
    BY <1>1, ItemWalk
  <2>2. ~ (0 <= index)
    BY <1>1
  <2> QED BY <2>1, <2>2
<1>2. CASE index >= 0
  <2> DEFINE It(k) == IF k < Len(s) THEN s[k + 1] ELSE NULL
             w == [k \in 0 .. index |-> It(k)]
             v == [k \in 0 .. index |->
                      IF k = 0 THEN h.child[a]
                      ELSE IF w[k - 1] = NULL THEN NULL ELSE h.next[w[k - 1]]]
  <2>1. Len(s) \in Nat /\ \A k \in 1 .. Len(s) : s[k] \in Nodes /\ s[k] # NULL
    BY TreeAssumption
  <2>2. h.child[a] = It(0)
    <3>1. s = <<>> <=> Len(s) = 0
      OBVIOUS
    <3> QED BY <2>1, <3>1 DEF Whole
  <2>3. ASSUME NEW k \in Nat, k # 0
        PROVE  It(k) = IF It(k - 1) = NULL THEN NULL ELSE h.next[It(k - 1)]
    <3>1. CASE k - 1 < Len(s)
      <4>1. k \in 1 .. Len(s) /\ (k - 1) + 1 = k
        BY <2>1, <2>3, <3>1
      <4>2. It(k - 1) = s[k] /\ s[k] # NULL
        BY <2>1, <3>1, <4>1
      <4>3. h.next[s[k]] = IF k = Len(s) THEN NULL ELSE s[k + 1]
        BY <4>1 DEF Whole
      <4> QED BY <2>1, <4>1, <4>2, <4>3
    <3>2. CASE k - 1 >= Len(s)
      BY <2>1, <2>3, <3>2
    <3> QED BY <2>1, <2>3, <3>1, <3>2
  <2> HIDE DEF It
  <2>4. Walks(w, h, a, index)
    <3>1. ASSUME NEW k \in 0 .. index PROVE w[k] = v[k]
      <4>1. CASE k = 0
        BY <2>2, <4>1
      <4>2. CASE k # 0
        <5>1. k \in Nat /\ k - 1 \in 0 .. index
          BY <4>2
        <5>2. w[k - 1] = It(k - 1)
          BY <5>1
        <5> QED BY <2>3, <4>2, <5>1, <5>2
      <4> QED BY <4>1, <4>2
    <3>2. w = v
      BY <3>1
    <3> QED BY <3>2 DEF Walks
  <2> DEFINE f == CHOOSE g : Walks(g, h, a, index)
  <2>5. Walks(f, h, a, index)
    <3> HIDE DEF w
    <3> QED BY <2>4
  <2> HIDE DEF f, w
  <2> DEFINE Same == {k \in Nat : k <= index => f[k] = It(k)}
  <2>6. 0 \in Same
    <3>1. 0 \in 0 .. index
      BY <1>2
    <3>2. f[0] = h.child[a]
      BY <2>5, <3>1 DEF Walks
    <3> QED BY <2>2, <3>2
  <2>7. ASSUME NEW k \in Nat, k \in Same PROVE k + 1 \in Same
    <3> SUFFICES ASSUME k + 1 <= index PROVE f[k + 1] = It(k + 1)
      OBVIOUS
    <3>1. k + 1 \in 0 .. index /\ k + 1 # 0 /\ (k + 1) - 1 = k /\ k <= index
      OBVIOUS
    <3>2. f[k + 1] = IF f[k] = NULL THEN NULL ELSE h.next[f[k]]
      BY <2>5, <3>1 DEF Walks
    <3>3. f[k] = It(k)
      BY <2>7, <3>1
    <3>4. It(k + 1) = IF It(k) = NULL THEN NULL ELSE h.next[It(k)]
      BY <2>3, <3>1
    <3> QED BY <3>2, <3>3, <3>4
  <2>8. Nat \subseteq Same
    <3> HIDE DEF Same
    <3> QED BY <2>6, <2>7, AllNumbers
  <2>9. f[index] = It(index)
    BY <1>2, <2>8
  <2>10. get_array_item(h, a, index) = f[index]
    BY <1>2, ItemWalk DEF f
  <2> QED BY <1>2, <2>9, <2>10 DEF It
<1> QED BY <1>1, <1>2

\* What a search by index finds is an item of the list.
LEMMA ItemListed ==
    ASSUME NEW h, NEW a, NEW s \in Seq(Nodes), Whole(h, a, s), NEW index \in Int,
           get_array_item(h, a, index) # NULL
    PROVE  \E k \in 1 .. Len(s) : get_array_item(h, a, index) = s[k]
<1>1. 0 <= index /\ index < Len(s) /\ get_array_item(h, a, index) = s[index + 1]
  BY ItemIs
<1>2. index + 1 \in 1 .. Len(s)
  BY <1>1
<1> QED BY <1>1, <1>2

\* So is what a search by name finds.
LEMMA ObjectListed ==
    ASSUME NEW h, NEW a, NEW s \in Seq(Nodes), Whole(h, a, s), NEW name, NEW case,
           get_object_item(h, a, name, case) # NULL
    PROVE  \E k \in 1 .. Len(s) : get_object_item(h, a, name, case) = s[k]
<1> DEFINE Item(k) == get_array_item(h, a, k)
           hits == {k \in 0 .. Cardinality(Nodes) :
                       Item(k) # NULL /\ SameName(h, Item(k), name, case)}
           m == CHOOSE k \in hits : \A j \in hits : k <= j
<1>1. hits # {} /\ get_object_item(h, a, name, case) = Item(m)
  BY DEF get_object_item
<1>2. Cardinality(Nodes) \in Nat
  BY TreeAssumption, FS_CardinalityType
<1>3. hits \in SUBSET Nat
  BY <1>2
<1>4. m \in hits
  <2> HIDE DEF hits
  <2>1. \E k \in hits : \A j \in hits : k <= j
    BY <1>1, <1>3, SmallestNumber
  <2> QED BY <2>1
<1>5. m \in Int /\ Item(m) # NULL
  BY <1>2, <1>4
<1> HIDE DEF m
<1> QED BY <1>1, <1>5, ItemListed

-----------------------------------------------------------------------------
(* The invariant and the calls.                                            *)

TreeInv == Good(heap, live, held, list)

\* The item of the list of p at position k has that position.
LEMMA PositionIs ==
    ASSUME TreeInv, NEW p \in Nodes, NEW k \in 1 .. Len(list[p])
    PROVE  Position(p, list[p][k]) = k
<1>1. list[p] \in Seq(Nodes) /\ \A m \in 1 .. Len(list[p]) : list[p][m] = list[p][k] => m = k
  BY DEF TreeInv, Good, Once
<1>2. DOMAIN list[p] = 1 .. Len(list[p])
  BY <1>1
<1> QED BY <1>1, <1>2 DEF Position

\* A name or a kind changed.
LEMMA NamedGood ==
    ASSUME NEW l, NEW hd, NEW ls, NEW h, Good(h, l, hd, ls),
           NEW i, NEW name \in Names \cup {NULL}
    PROVE  /\ Good(Named(h, i, name), l, hd, ls)
           /\ Named(h, i, name).ref = h.ref
           /\ Named(h, i, name).next = h.next
           /\ Named(h, i, name).prev = h.prev
           /\ Named(h, i, name).child = h.child
<1> DEFINE g == Named(h, i, name)
<1>1. g \in Heaps /\ g.next = h.next /\ g.prev = h.prev /\ g.child = h.child /\ g.ref = h.ref
  <2>1. h \in Heaps
    BY DEF Good
  <2> QED BY <2>1 DEF Heaps, Named
<1> HIDE DEF g
<1>2. Good(g, l, hd, ls)
  BY <1>1, GoodSame
<1> QED BY <1>1, <1>2 DEF g

LEMMA CreateItemGood ==
    ASSUME TreeInv, NEW i \in Nodes, NEW kind \in Kinds, CreateItem(i, kind)
    PROVE  TreeInv'
<1> DEFINE g == New(heap, i, kind)
<1>1. heap \in Heaps /\ i \notin live /\ heap.child[i] = NULL
  BY DEF TreeInv, Good, Bare, CreateItem, Free
<1>2. g \in Heaps /\ g.next = heap.next /\ g.prev = heap.prev /\ g.child = heap.child
      /\ g.ref = heap.ref
  BY <1>1 DEF Heaps, New
<1> HIDE DEF g
<1>3. Good(g, live \cup {i}, held \cup {i}, list)
  BY <1>1, <1>2, GoodMake DEF TreeInv
<1> QED BY <1>3 DEF CreateItem, TreeInv, g

LEMMA AddItemToArrayGood ==
    ASSUME TreeInv, NEW a \in Nodes, NEW i \in Nodes, AddItemToArray(a, i)
    PROVE  TreeInv'
<1>1. CASE a = i
  <2>1. heap' = heap /\ list' = list /\ held' = held /\ live' = live
    BY <1>1 DEF AddItemToArray, add_item_to_array, Appended
  <2> QED BY <2>1 DEF TreeInv
<1>2. CASE a # i
  <2>1. a \in live /\ ~ heap.ref[a] /\ i \in held
    BY <1>2 DEF AddItemToArray, Target, Loose
  <2>2. Good(add_item_to_array(heap, a, i), live, held \ {i}, [list EXCEPT ![a] = Append(@, i)])
    BY <1>2, <2>1, GoodAdd DEF TreeInv
  <2> QED BY <1>2, <2>2 DEF AddItemToArray, Appended, TreeInv
<1> QED BY <1>1, <1>2

LEMMA AddItemToObjectGood ==
    ASSUME TreeInv, NEW o \in Nodes, NEW name \in Names, NEW i \in Nodes, NEW oom \in BOOLEAN,
           AddItemToObject(o, name, i, oom)
    PROVE  TreeInv'
<1>1. CASE oom \/ o = i
  <2>1. heap' = heap /\ list' = list /\ held' = held /\ live' = live
    BY <1>1 DEF AddItemToObject
  <2> QED BY <2>1 DEF TreeInv
<1>2. CASE ~ (oom \/ o = i)
  <2> DEFINE g == Named(heap, i, name)
  <2>1. o \in live /\ ~ heap.ref[o] /\ i \in held /\ i # o
    BY <1>2 DEF AddItemToObject, Target, Loose
  <2>2. Good(g, live, held, list) /\ g.ref = heap.ref
    BY NamedGood DEF TreeInv
  <2> HIDE DEF g
  <2>3. Good(add_item_to_array(g, o, i), live, held \ {i}, [list EXCEPT ![o] = Append(@, i)])
    BY <2>1, <2>2, GoodAdd
  <2> QED BY <1>2, <2>3 DEF AddItemToObject, Appended, TreeInv, g
<1> QED BY <1>1, <1>2

\* A new block put into a list at once was never in the program's hands.
LEMMA GoodAddNew ==
    ASSUME TreeInv, NEW a \in live, ~ heap.ref[a], NEW r \in Nodes, r \notin live,
           NEW g \in Heaps, g.next = heap.next, g.prev = heap.prev,
           \A n \in Nodes : n # r => g.child[n] = heap.child[n] /\ g.ref[n] = heap.ref[n],
           g.ref[r] \/ g.child[r] = NULL
    PROVE  Good(add_item_to_array(g, a, r), live \cup {r}, held,
                [list EXCEPT ![a] = Append(@, r)])
<1>1. a \in Nodes /\ held \subseteq live /\ a # r
  BY DEF TreeInv, Good, Placed
<1>2. Good(g, live \cup {r}, held \cup {r}, list)
  BY GoodMake DEF TreeInv
<1>3. a \in live \cup {r} /\ ~ g.ref[a] /\ r \in held \cup {r}
  BY <1>1
<1>4. Good(add_item_to_array(g, a, r), live \cup {r}, (held \cup {r}) \ {r},
           [list EXCEPT ![a] = Append(@, r)])
  BY <1>1, <1>2, <1>3, GoodAdd
<1>5. (held \cup {r}) \ {r} = held
  BY <1>1
<1> QED BY <1>4, <1>5

LEMMA AddNewItemToObjectGood ==
    ASSUME TreeInv, NEW o \in Nodes, NEW name \in Names, NEW i \in Nodes, NEW kind \in Kinds,
           NEW oom \in BOOLEAN, AddNewItemToObject(o, name, i, kind, oom)
    PROVE  TreeInv'
<1>1. CASE oom
  BY <1>1 DEF AddNewItemToObject, TreeInv
<1>2. CASE ~ oom
  <2> DEFINE g == Named(New(heap, i, kind), i, name)
  <2>1. o \in live /\ ~ heap.ref[o] /\ i \notin live /\ i # o
    BY DEF AddNewItemToObject, Target, Free
  <2>2. heap \in Heaps /\ heap.child[i] = NULL
    BY <2>1 DEF TreeInv, Good, Bare
  <2>3. g \in Heaps /\ g.next = heap.next /\ g.prev = heap.prev /\ g.child = heap.child
        /\ g.ref = heap.ref
    BY <2>2 DEF Heaps, New, Named
  <2> HIDE DEF g
  <2>4. Good(add_item_to_array(g, o, i), live \cup {i}, held, [list EXCEPT ![o] = Append(@, i)])
    BY <2>1, <2>2, <2>3, GoodAddNew
  <2>5. /\ heap' = add_item_to_array(g, o, i) /\ live' = live \cup {i} /\ held' = held
        /\ list' = [list EXCEPT ![o] = Append(@, i)]
    BY <1>2, <2>1 DEF AddNewItemToObject, Appended, g
  <2> QED BY <2>4, <2>5 DEF TreeInv
<1> QED BY <1>1, <1>2

\* A reference is a block of its own, whose next and prev are not touched.
LEMMA ReferenceIs ==
    ASSUME NEW h \in Heaps, NEW i \in Nodes, NEW r \in Nodes
    PROVE  LET g == create_reference(h, i, r)
           IN  /\ g \in Heaps /\ g.next = h.next /\ g.prev = h.prev /\ g.ref[r]
               /\ \A n \in Nodes : n # r => g.child[n] = h.child[n] /\ g.ref[n] = h.ref[n]
<1> DEFINE g == create_reference(h, i, r)
<1>1. h.child[i] \in Nodes \cup {NULL} /\ h.kind[i] \in Kinds \cup {NULL}
  BY DEF Heaps, Pointers
<1>2. g \in Heaps /\ g.next = h.next /\ g.prev = h.prev
      /\ g.child = [h.child EXCEPT ![r] = h.child[i]] /\ g.ref = [h.ref EXCEPT ![r] = TRUE]
  BY <1>1 DEF Heaps, Pointers, create_reference
<1> HIDE DEF g
<1>3. h.child \in [Nodes -> Nodes \cup {NULL}] /\ h.ref \in [Nodes -> BOOLEAN]
  BY DEF Heaps, Pointers
<1>4. g.ref[r] /\ \A n \in Nodes : n # r => g.child[n] = h.child[n] /\ g.ref[n] = h.ref[n]
  BY <1>2, <1>3
<1> QED BY <1>2, <1>4 DEF g

LEMMA AddItemReferenceToArrayGood ==
    ASSUME TreeInv, NEW a \in Nodes, NEW i \in Nodes, NEW r \in Nodes,
           AddItemReferenceToArray(a, i, r)
    PROVE  TreeInv'
<1> DEFINE g == create_reference(heap, i, r)
<1>1. a \in live /\ ~ heap.ref[a] /\ r \notin live /\ r # a
  BY DEF AddItemReferenceToArray, Target, Free
<1>2. heap \in Heaps
  BY DEF TreeInv, Good
<1>3. /\ g \in Heaps /\ g.next = heap.next /\ g.prev = heap.prev /\ g.ref[r]
      /\ \A n \in Nodes : n # r => g.child[n] = heap.child[n] /\ g.ref[n] = heap.ref[n]
  BY <1>2, ReferenceIs
<1> HIDE DEF g
<1>4. Good(add_item_to_array(g, a, r), live \cup {r}, held, [list EXCEPT ![a] = Append(@, r)])
  BY <1>1, <1>3, GoodAddNew
<1>5. /\ heap' = add_item_to_array(g, a, r) /\ live' = live \cup {r} /\ held' = held
      /\ list' = [list EXCEPT ![a] = Append(@, r)]
  BY <1>1 DEF AddItemReferenceToArray, Appended, g
<1> QED BY <1>4, <1>5 DEF TreeInv

LEMMA AddItemReferenceToObjectGood ==
    ASSUME TreeInv, NEW o \in Nodes, NEW name \in Names, NEW i \in Nodes, NEW r \in Nodes,
           NEW oom \in BOOLEAN, AddItemReferenceToObject(o, name, i, r, oom)
    PROVE  TreeInv'
<1> DEFINE g == create_reference(heap, i, r)
<1>1. o \in live /\ ~ heap.ref[o] /\ r \notin live /\ r # o
  BY DEF AddItemReferenceToObject, Target, Free
<1>2. heap \in Heaps
  BY DEF TreeInv, Good
<1>3. /\ g \in Heaps /\ g.next = heap.next /\ g.prev = heap.prev /\ g.ref[r]
      /\ \A n \in Nodes : n # r => g.child[n] = heap.child[n] /\ g.ref[n] = heap.ref[n]
  BY <1>2, ReferenceIs
<1>4. CASE oom
  <2> HIDE DEF g
  <2>1. Good(g, live \cup {r}, held, list)
    BY <1>1, <1>3, GoodMake DEF TreeInv
  <2>2. heap' = g /\ live' = live \cup {r} /\ held' = held /\ list' = list
    BY <1>4 DEF AddItemReferenceToObject, g
  <2> QED BY <2>1, <2>2 DEF TreeInv
<1>5. CASE ~ oom
  <2> DEFINE f == Named(g, r, name)
  <2>1. /\ f \in Heaps /\ f.next = heap.next /\ f.prev = heap.prev /\ f.child = g.child
        /\ f.ref = g.ref
    <3> HIDE DEF g
    <3> QED BY <1>3 DEF Heaps, Named
  <2> HIDE DEF f, g
  <2>2. Good(add_item_to_array(f, o, r), live \cup {r}, held, [list EXCEPT ![o] = Append(@, r)])
    BY <1>1, <1>3, <2>1, GoodAddNew
  <2>3. /\ heap' = add_item_to_array(f, o, r) /\ live' = live \cup {r} /\ held' = held
        /\ list' = [list EXCEPT ![o] = Append(@, r)]
    BY <1>1, <1>5 DEF AddItemReferenceToObject, Appended, f, g
  <2> QED BY <2>2, <2>3 DEF TreeInv
<1> QED BY <1>4, <1>5

LEMMA CreateReferenceGood ==
    ASSUME TreeInv, NEW c \in Nodes, NEW r \in Nodes, NEW kind \in Kinds,
           CreateReference(c, r, kind)
    PROVE  TreeInv'
<1> DEFINE g == [New(heap, r, kind) EXCEPT !.child[r] = c, !.ref[r] = TRUE]
<1>1. heap \in Heaps /\ r \notin live
  BY DEF TreeInv, Good, CreateReference, Free
<1>2. g \in Heaps /\ g.next = heap.next /\ g.prev = heap.prev
      /\ g.child = [heap.child EXCEPT ![r] = c] /\ g.ref = [heap.ref EXCEPT ![r] = TRUE]
  BY <1>1 DEF Heaps, Pointers, New
<1> HIDE DEF g
<1>3. heap.child \in [Nodes -> Nodes \cup {NULL}] /\ heap.ref \in [Nodes -> BOOLEAN]
  BY <1>1 DEF Heaps, Pointers
<1>4. g.ref[r] /\ \A n \in Nodes : n # r => g.child[n] = heap.child[n] /\ g.ref[n] = heap.ref[n]
  BY <1>2, <1>3
<1>5. Good(g, live \cup {r}, held \cup {r}, list)
  BY <1>1, <1>2, <1>4, GoodMake DEF TreeInv
<1> QED BY <1>5 DEF CreateReference, TreeInv, g

LEMMA DetachGood ==
    ASSUME TreeInv, NEW p \in Nodes, Target(p), NEW k \in 1 .. Len(list[p]),
           Detach(p, list[p][k])
    PROVE  TreeInv'
<1>1. Position(p, list[p][k]) = k
  BY PositionIs
<1>2. Good(cJSON_DetachItemViaPointer(heap, p, list[p][k]), live, held \cup {list[p][k]},
           [list EXCEPT ![p] = RemoveAt(@, k)])
  BY GoodDetach DEF Target, TreeInv
<1> QED BY <1>1, <1>2 DEF Detach, Delisted, TreeInv

LEMMA DetachAndDeleteGood ==
    ASSUME TreeInv, NEW p \in Nodes, Target(p), NEW k \in 1 .. Len(list[p]),
           DetachAndDelete(p, list[p][k])
    PROVE  TreeInv'
<1> DEFINE i == list[p][k]
           g == cJSON_DetachItemViaPointer(heap, p, i)
           D == Doomed(g, i)
           ls2 == [list EXCEPT ![p] = RemoveAt(@, k)]
<1>1. Delisted(p, i) = ls2
  BY PositionIs DEF Delisted
<1>2. Good(g, live, held \cup {i}, ls2)
  BY GoodDetach DEF Target, TreeInv
<1>3. i \notin held
  BY DEF TreeInv, Good, Placed
<1>4. heap' = Freed(g, D) /\ live' = live \ D /\ list' = Wipe(ls2, D, <<>>) /\ held' = held
  BY <1>1 DEF DetachAndDelete, Delete
<1> HIDE DEF g, i, ls2
<1>5. Good(Freed(g, D), live \ D, (held \cup {i}) \ {i}, Wipe(ls2, D, <<>>))
  BY <1>2, GoodFreed
<1>6. (held \cup {i}) \ {i} = held
  BY <1>3
<1> QED BY <1>4, <1>5, <1>6 DEF TreeInv

\* The item that a call finds in the list of p.
LEMMA Found ==
    ASSUME TreeInv, NEW p \in Nodes, Target(p)
    PROVE  /\ list[p] \in Seq(Nodes)
           /\ Whole(heap, p, list[p])
           /\ \A w \in Int : get_array_item(heap, p, w) # NULL =>
                  \E k \in 1 .. Len(list[p]) : get_array_item(heap, p, w) = list[p][k]
           /\ \A name, case : get_object_item(heap, p, name, case) # NULL =>
                  \E k \in 1 .. Len(list[p]) :
                      get_object_item(heap, p, name, case) = list[p][k]
<1>1. list[p] \in Seq(Nodes) /\ Whole(heap, p, list[p])
  BY DEF TreeInv, Good, Wholes, Target
<1> QED BY <1>1, ItemListed, ObjectListed

LEMMA FromArrayGood ==
    ASSUME TreeInv, NEW p \in Nodes, NEW w \in Int, NEW del \in BOOLEAN, FromArray(p, w, del)
    PROVE  TreeInv'
<1> DEFINE i == get_array_item(heap, p, w)
<1>1. Target(p)
  BY DEF FromArray
<1>2. CASE i = NULL
  <2>1. UNCHANGED treeVars
    BY <1>2 DEF FromArray
  <2> QED BY <2>1 DEF treeVars, TreeInv
<1>3. CASE i # NULL
  <2>1. PICK k \in 1 .. Len(list[p]) : i = list[p][k]
    BY <1>1, <1>3, Found
  <2>2. CASE del
    <3>1. DetachAndDelete(p, i)
      BY <1>3, <2>2 DEF FromArray
    <3> HIDE DEF i
    <3> QED BY <1>1, <2>1, <3>1, DetachAndDeleteGood
  <2>3. CASE ~ del
    <3>1. Detach(p, i)
      BY <1>3, <2>3 DEF FromArray
    <3> HIDE DEF i
    <3> QED BY <1>1, <2>1, <3>1, DetachGood
  <2> QED BY <2>2, <2>3
<1> QED BY <1>2, <1>3

LEMMA FromObjectGood ==
    ASSUME TreeInv, NEW p \in Nodes, NEW name \in Names, NEW case \in BOOLEAN,
           NEW del \in BOOLEAN, FromObject(p, name, case, del)
    PROVE  TreeInv'
<1> DEFINE i == get_object_item(heap, p, name, case)
<1>1. Target(p)
  BY DEF FromObject
<1>2. CASE i = NULL
  <2>1. UNCHANGED treeVars
    BY <1>2 DEF FromObject
  <2> QED BY <2>1 DEF treeVars, TreeInv
<1>3. CASE i # NULL
  <2>1. PICK k \in 1 .. Len(list[p]) : i = list[p][k]
    BY <1>1, <1>3, Found
  <2>2. CASE del
    <3>1. DetachAndDelete(p, i)
      BY <1>3, <2>2 DEF FromObject
    <3> HIDE DEF i
    <3> QED BY <1>1, <2>1, <3>1, DetachAndDeleteGood
  <2>3. CASE ~ del
    <3>1. Detach(p, i)
      BY <1>3, <2>3 DEF FromObject
    <3> HIDE DEF i
    <3> QED BY <1>1, <2>1, <3>1, DetachGood
  <2> QED BY <2>2, <2>3
<1> QED BY <1>2, <1>3

LEMMA InsertItemInArrayGood ==
    ASSUME TreeInv, NEW a \in Nodes, NEW w \in Int, NEW i \in Nodes, InsertItemInArray(a, w, i)
    PROVE  TreeInv'
<1> DEFINE at == get_array_item(heap, a, w)
<1>1. Target(a) /\ a \in live /\ ~ heap.ref[a] /\ i \in held /\ i # a
  BY DEF InsertItemInArray, Target, Loose
<1>2. CASE w < 0
  <2>1. heap' = heap /\ list' = list /\ held' = held /\ live' = live
    BY <1>2 DEF InsertItemInArray
  <2> QED BY <2>1 DEF TreeInv
<1>3. CASE ~ (w < 0)
  <2>1. CASE at = NULL
    <3>1. Good(add_item_to_array(heap, a, i), live, held \ {i}, [list EXCEPT ![a] = Append(@, i)])
      BY <1>1, GoodAdd DEF TreeInv
    <3>2. /\ heap' = add_item_to_array(heap, a, i) /\ held' = held \ {i} /\ live' = live
          /\ list' = [list EXCEPT ![a] = Append(@, i)]
      BY <1>1, <1>3, <2>1 DEF InsertItemInArray, cJSON_InsertItemInArray, Appended
    <3> QED BY <3>1, <3>2 DEF TreeInv
  <2>2. CASE at # NULL
    <3>1. PICK k \in 1 .. Len(list[a]) : at = list[a][k]
      BY <1>1, <2>2, Found
    <3>2. Position(a, at) = k
      BY <3>1, PositionIs
    <3>3. /\ heap' = cJSON_InsertItemInArray(heap, a, at, i) /\ held' = held \ {i}
          /\ list' = [list EXCEPT ![a] = InsertAt(@, k, i)] /\ live' = live
      BY <1>3, <2>2, <3>2 DEF InsertItemInArray
    <3>4. Good(cJSON_InsertItemInArray(heap, a, list[a][k], i), live, held \ {i},
               [list EXCEPT ![a] = InsertAt(@, k, i)])
      BY <1>1, GoodInsert DEF TreeInv
    <3> QED BY <3>1, <3>3, <3>4 DEF TreeInv
  <2> QED BY <2>1, <2>2
<1> QED BY <1>2, <1>3

\* The exchange, in a heap where the replacement may have got its name.
LEMMA ReplaceGood ==
    ASSUME TreeInv, NEW p \in Nodes, Target(p), NEW k \in 1 .. Len(list[p]), NEW r \in held,
           NEW h, Good(h, live, held, list), h.ref = heap.ref,
           Replace(h, p, list[p][k], r)
    PROVE  TreeInv'
<1> DEFINE i == list[p][k]
           g == Exchange(h, p, i, r)
           D == Doomed(g, i)
           ls2 == [list EXCEPT ![p] = ReplaceAt(@, k, r)]
<1>1. Position(p, i) = k
  BY PositionIs
<1>2. Good(g, live, (held \ {r}) \cup {i}, ls2)
  BY GoodExchange DEF Target
<1>3. i \notin held
  BY DEF TreeInv, Good, Placed
<1>4. heap' = Freed(g, D) /\ live' = live \ D /\ list' = Wipe(ls2, D, <<>>)
      /\ held' = held \ {r}
  BY <1>1 DEF Replace, Delete
<1> HIDE DEF g, i, ls2
<1>5. Good(Freed(g, D), live \ D, ((held \ {r}) \cup {i}) \ {i}, Wipe(ls2, D, <<>>))
  BY <1>2, GoodFreed
<1>6. ((held \ {r}) \cup {i}) \ {i} = held \ {r}
  BY <1>3
<1> QED BY <1>4, <1>5, <1>6 DEF TreeInv

LEMMA ReplaceItemInArrayGood ==
    ASSUME TreeInv, NEW p \in Nodes, NEW w \in Int, NEW r \in Nodes, ReplaceItemInArray(p, w, r)
    PROVE  TreeInv'
<1> DEFINE i == get_array_item(heap, p, w)
<1>1. Target(p) /\ r \in held
  BY DEF ReplaceItemInArray, Loose
<1>2. CASE i = NULL
  <2>1. UNCHANGED treeVars
    BY <1>2 DEF ReplaceItemInArray
  <2> QED BY <2>1 DEF treeVars, TreeInv
<1>3. CASE i # NULL
  <2>1. PICK k \in 1 .. Len(list[p]) : i = list[p][k]
    BY <1>1, <1>3, Found
  <2>2. Replace(heap, p, list[p][k], r)
    BY <1>3, <2>1 DEF ReplaceItemInArray
  <2>3. Good(heap, live, held, list)
    BY DEF TreeInv
  <2> QED BY <1>1, <2>2, <2>3, ReplaceGood
<1> QED BY <1>2, <1>3

LEMMA ReplaceItemInObjectGood ==
    ASSUME TreeInv, NEW p \in Nodes, NEW name \in Names, NEW case \in BOOLEAN, NEW r \in Nodes,
           NEW oom \in BOOLEAN, ReplaceItemInObject(p, name, case, r, oom)
    PROVE  TreeInv'
<1> DEFINE i == get_object_item(heap, p, name, case)
           h == Named(heap, r, IF oom THEN NULL ELSE name)
<1>1. Target(p) /\ r \in held
  BY DEF ReplaceItemInObject, Loose
<1>2. Good(h, live, held, list) /\ h.ref = heap.ref
  <2>1. (IF oom THEN NULL ELSE name) \in Names \cup {NULL}
    OBVIOUS
  <2> QED BY <2>1, NamedGood DEF TreeInv
<1>3. CASE oom \/ i = NULL
  <2>1. heap' = h /\ live' = live /\ held' = held /\ list' = list
    BY <1>3 DEF ReplaceItemInObject
  <2> QED BY <1>2, <2>1 DEF TreeInv
<1>4. CASE ~ (oom \/ i = NULL)
  <2>1. PICK k \in 1 .. Len(list[p]) : i = list[p][k]
    BY <1>1, <1>4, Found
  <2>2. Replace(h, p, list[p][k], r)
    BY <1>4, <2>1 DEF ReplaceItemInObject
  <2> HIDE DEF h
  <2> QED BY <1>1, <1>2, <2>2, ReplaceGood
<1> QED BY <1>3, <1>4

LEMMA DeleteItemGood ==
    ASSUME TreeInv, NEW i \in Nodes, DeleteItem(i)
    PROVE  TreeInv'
<1> DEFINE D == Doomed(heap, i)
<1>1. i \in held /\ heap' = Freed(heap, D) /\ live' = live \ D /\ held' = held \ D
      /\ list' = Wipe(list, D, <<>>)
  BY DEF DeleteItem, Delete
<1>2. Good(Freed(heap, D), live \ D, held \ {i}, Wipe(list, D, <<>>))
  BY <1>1, GoodFreed DEF TreeInv
<1>3. i \in D
  <2>1. heap \in Heaps
    BY DEF TreeInv, Good
  <2> QED BY <2>1, DoomedIs
<1>4. \A n \in D : n \in held => n = i
  BY <1>1, DoomedWhole DEF TreeInv
<1> HIDE DEF D
<1>5. held \ D = held \ {i}
  BY <1>3, <1>4
<1> QED BY <1>1, <1>2, <1>5 DEF TreeInv

\* The neighbours of a position.
LEMMA Neighbours ==
    ASSUME NEW L \in Nat, NEW k \in 1 .. L
    PROVE  /\ k # L => k \in 1 .. L - 1 /\ k + 1 \in 1 .. L
           /\ k # 1 => k \in 2 .. L /\ k - 1 \in 1 .. L
OBVIOUS

\* The chain that CreateArray makes of free blocks, its ends tied together.
Tied(g, s) == IF s = <<>> THEN g ELSE [g EXCEPT !.prev[s[1]] = Last(s)]

LEMMA ChainRelinks ==
    ASSUME NEW h \in Heaps, NEW a \in Nodes, NEW s \in Seq(Nodes), Distinct(s), a \notin ToSet(s),
           \A n \in ToSet(s) : h.next[n] = NULL, NEW kind \in Kinds, NEW each \in Kinds
    PROVE  /\ Chained(h, a, s, kind, each) \in Heaps
           /\ Relinked(h, Tied(Chained(h, a, s, kind, each), s), a, <<>>, s)
<1> DEFINE c == Chained(h, a, s, kind, each)
           g == Tied(c, s)
           L == Len(s)
           At(m) == CHOOSE k \in DOMAIN s : s[k] = m
           Later == {s[k] : k \in 2 .. L}
           Earlier == {s[k] : k \in 1 .. L - 1}
           n1 == [m \in Nodes |-> IF m \in Earlier THEN s[At(m) + 1] ELSE h.next[m]]
           p1 == [m \in Nodes |-> IF m \in Later THEN s[At(m) - 1] ELSE h.prev[m]]
           kinds == [m \in Nodes |-> IF m \in ToSet(s) THEN each
                                     ELSE IF m = a THEN kind ELSE h.kind[m]]
           first == IF s = <<>> THEN NULL ELSE s[1]
<1>1. L \in Nat /\ DOMAIN s = 1 .. L /\ (\A k \in 1 .. L : s[k] \in Nodes)
      /\ (s = <<>> <=> L = 0)
  OBVIOUS
<1>2. \A n : n \in ToSet(s) <=> \E k \in 1 .. L : s[k] = n
  BY InToSet
<1>3. \A k, m \in 1 .. L : s[k] = s[m] => k = m
  BY DEF Distinct
<1>4. \A k \in 1 .. L : At(s[k]) = k
  BY <1>1, <1>3
<1>5. /\ \A k \in 1 .. L : s[k] \in Earlier <=> k # L
      /\ \A k \in 1 .. L : s[k] \in Later <=> k # 1
      /\ \A n : n \in Earlier \/ n \in Later => n \in ToSet(s)
  <2>1. ASSUME NEW k \in 1 .. L PROVE s[k] \in Earlier <=> k # L
    <3>1. k # L => k \in 1 .. L - 1
      <4> HIDE DEF L
      <4> QED BY <1>1, Neighbours
    <3>2. k = L => \A m \in 1 .. L - 1 : s[m] # s[k]
      BY <1>1, <1>3
    <3> QED BY <3>1, <3>2
  <2>2. ASSUME NEW k \in 1 .. L PROVE s[k] \in Later <=> k # 1
    <3>1. k # 1 => k \in 2 .. L
      <4> HIDE DEF L
      <4> QED BY <1>1, Neighbours
    <3>2. k = 1 => \A m \in 2 .. L : s[m] # s[k]
      BY <1>1, <1>3
    <3> QED BY <3>1, <3>2
  <2>3. \A n : n \in Earlier \/ n \in Later => n \in ToSet(s)
    BY <1>1, <1>2
  <2> QED BY <2>1, <2>2, <2>3
<1>6. c = [h EXCEPT !.child[a] = first, !.kind = kinds, !.next = n1, !.prev = p1]
  BY DEF Chained
<1>7. /\ h.next \in [Nodes -> Nodes \cup {NULL}] /\ h.prev \in [Nodes -> Nodes \cup {NULL}]
      /\ h.child \in [Nodes -> Nodes \cup {NULL}] /\ h.kind \in [Nodes -> Kinds \cup {NULL}]
  BY DEF Heaps, Pointers
<1> HIDE DEF At, Later, Earlier
<1>8. ASSUME NEW m \in Nodes PROVE n1[m] \in Nodes \cup {NULL} /\ p1[m] \in Nodes \cup {NULL}
  <2>1. CASE m \in ToSet(s)
    <3>1. PICK k \in 1 .. L : s[k] = m
      BY <1>2, <2>1
    <3>2. k # L => k + 1 \in 1 .. L
      <4> HIDE DEF L
      <4> QED BY <1>1, Neighbours
    <3>3. k # 1 => k - 1 \in 1 .. L
      <4> HIDE DEF L
      <4> QED BY <1>1, Neighbours
    <3>4. n1[m] = IF k # L THEN s[k + 1] ELSE h.next[m]
      BY <1>4, <1>5, <3>1
    <3>5. p1[m] = IF k # 1 THEN s[k - 1] ELSE h.prev[m]
      BY <1>4, <1>5, <3>1
    <3> HIDE DEF n1, p1
    <3> QED BY <1>1, <1>7, <3>2, <3>3, <3>4, <3>5
  <2>2. CASE m \notin ToSet(s)
    BY <1>5, <1>7, <2>2
  <2> QED BY <2>1, <2>2
<1>9. n1 \in Pointers /\ p1 \in Pointers /\ kinds \in [Nodes -> Kinds \cup {NULL}]
      /\ first \in Nodes \cup {NULL}
  <2>1. n1 \in Pointers /\ p1 \in Pointers
    BY <1>8 DEF Pointers
  <2>2. kinds \in [Nodes -> Kinds \cup {NULL}]
    BY <1>7
  <2>3. first \in Nodes \cup {NULL}
    BY <1>1
  <2> QED BY <2>1, <2>2, <2>3
\* The pointers of the elements, before the ends are tied.
<1>10. \A k \in 1 .. L : /\ n1[s[k]] = IF k = L THEN NULL ELSE s[k + 1]
                         /\ k # 1 => p1[s[k]] = s[k - 1]
  BY <1>1, <1>2, <1>4, <1>5
<1>11. \A n \in Nodes : n \notin ToSet(s) => n1[n] = h.next[n] /\ p1[n] = h.prev[n]
  BY <1>5
<1> HIDE DEF n1, p1, kinds, first, c
<1>12. /\ c \in Heaps /\ c.ref = h.ref /\ c.next = n1 /\ c.prev = p1
       /\ c.child = [h.child EXCEPT ![a] = first]
  BY <1>6, <1>9 DEF Heaps, Pointers
<1>13. /\ g \in Heaps /\ g.ref = h.ref /\ g.next = n1 /\ g.child = c.child
       /\ g.prev = IF s = <<>> THEN p1 ELSE [p1 EXCEPT ![s[1]] = s[L]]
  <2>1. CASE s = <<>>
    BY <1>12, <2>1 DEF Tied
  <2>2. CASE s # <<>>
    <3>1. s[1] \in Nodes /\ s[L] \in Nodes
      BY <1>1, <2>2
    <3> QED BY <1>9, <1>12, <2>2, <3>1 DEF Tied, Last, Heaps, Pointers
  <2> QED BY <2>1, <2>2
<1> HIDE DEF g, L
<1>14. ASSUME NEW k \in 1 .. L
       PROVE  /\ g.next[s[k]] = IF k = L THEN NULL ELSE s[k + 1]
              /\ g.prev[s[k]] = IF k = 1 THEN s[L] ELSE s[k - 1]
  <2>1. s # <<>> /\ s[k] \in Nodes /\ 1 \in 1 .. L /\ s[1] \in Nodes
    BY <1>1
  <2>2. s[k] = s[1] <=> k = 1
    BY <1>3, <2>1
  <2>3. g.prev = [p1 EXCEPT ![s[1]] = s[L]]
    BY <1>13, <2>1
  <2>4. g.prev[s[k]] = IF k = 1 THEN s[L] ELSE p1[s[k]]
    BY <1>9, <2>1, <2>2, <2>3 DEF Pointers
  <2> QED BY <1>10, <1>13, <2>4
<1>15. g.child[a] = first
  BY <1>7, <1>12, <1>13
<1>16. Whole(g, a, s)
  BY <1>14, <1>15 DEF Whole, first, L
<1>17. \A n \in Nodes : n # a => g.child[n] = h.child[n]
  BY <1>7, <1>12, <1>13
<1>18. \A n \in Nodes : n \notin ToSet(s) => g.next[n] = h.next[n] /\ g.prev[n] = h.prev[n]
  <2> SUFFICES ASSUME NEW n \in Nodes, n \notin ToSet(s)
               PROVE  g.next[n] = h.next[n] /\ g.prev[n] = h.prev[n]
    OBVIOUS
  <2>1. s # <<>> => n # s[1]
    BY <1>1, <1>2
  <2> QED BY <1>9, <1>11, <1>13, <2>1 DEF Pointers
<1>19. \A n : n \notin ToSet(<<>>)
  BY DEF ToSet
<1>20. Relinked(h, g, a, <<>>, s)
  BY <1>13, <1>16, <1>17, <1>18, <1>19 DEF Relinked
<1> QED BY <1>12, <1>20 DEF g, c

\* The array and its elements, when all of them could be had.
LEMMA GoodArray ==
    ASSUME TreeInv, NEW a \in Nodes, a \notin live, NEW s \in Seq(Nodes), Distinct(s),
           a \notin ToSet(s), \A n \in ToSet(s) : n \notin live,
           NEW kind \in Kinds, NEW each \in Kinds
    PROVE  /\ Chained(heap, a, s, kind, each) \in Heaps
           /\ Good(Tied(Chained(heap, a, s, kind, each), s), live \cup {a} \cup ToSet(s),
                   held \cup {a}, [list EXCEPT ![a] = s])
<1> DEFINE g == Tied(Chained(heap, a, s, kind, each), s)
           B == {a} \cup ToSet(s)
<1>1. heap \in Heaps /\ list \in [Nodes -> Seq(Nodes)] /\ held \subseteq live
      /\ list[a] = <<>> /\ ~ heap.ref[a]
  BY DEF TreeInv, Good, Wholes, Placed, Bare
<1>2. \A n \in ToSet(s) : n \in Nodes
  BY InToSet
<1>3. \A n \in ToSet(s) : heap.next[n] = NULL
  <2> SUFFICES ASSUME NEW n \in ToSet(s) PROVE heap.next[n] = NULL
    OBVIOUS
  <2>1. n \in Nodes /\ ~ InSome(list, n)
    BY <1>2 DEF TreeInv, Good, Placed, InSome
  <2> QED BY <2>1 DEF TreeInv, Good, Ends
<1>4. Chained(heap, a, s, kind, each) \in Heaps /\ Relinked(heap, g, a, list[a], s)
  BY <1>1, <1>3, ChainRelinks
<1> HIDE DEF g
<1>5. B \in SUBSET Nodes /\ \A n \in B : n \notin live
  BY <1>2
<1>6. Good(heap, live \cup B, held \cup B, list)
  <2> HIDE DEF B
  <2> QED BY <1>5, GoodTake DEF TreeInv
<1>7. Good(g, live \cup B, ((held \cup B) \cup ToSet(list[a])) \ ToSet(s), [list EXCEPT ![a] = s])
  <2>1. a \in live \cup B /\ \A n \in ToSet(s) : n \in held \cup B
    OBVIOUS
  <2> HIDE DEF B
  <2> QED BY <1>1, <1>4, <1>6, <2>1, GoodStep
<1>8. ToSet(list[a]) = {}
  BY <1>1 DEF ToSet
<1>9. ((held \cup B) \cup ToSet(list[a])) \ ToSet(s) = held \cup {a}
  BY <1>1, <1>8
<1>10. live \cup B = live \cup {a} \cup ToSet(s)
  OBVIOUS
<1> QED BY <1>4, <1>7, <1>9, <1>10 DEF g

\* Tying the ends changes neither what is deleted nor what is left.
LEMMA TiedSame ==
    ASSUME NEW c \in Heaps, NEW s \in Seq(Nodes), NEW i \in Nodes,
           s # <<>> => s[1] \in Doomed(Tied(c, s), i)
    PROVE  /\ Doomed(c, i) = Doomed(Tied(c, s), i)
           /\ Freed(c, Doomed(c, i)) = Freed(Tied(c, s), Doomed(c, i))
<1> DEFINE g == Tied(c, s)
           D == Doomed(c, i)
<1>1. /\ g.next = c.next /\ g.child = c.child /\ g.ref = c.ref /\ g.name = c.name
      /\ g.kind = c.kind
      /\ g.prev = IF s = <<>> THEN c.prev ELSE [c.prev EXCEPT ![s[1]] = Last(s)]
  BY DEF Tied, Heaps, Pointers
<1> HIDE DEF g
<1>2. \A S : Closed(c, S) <=> Closed(g, S)
  BY <1>1 DEF Closed
<1>3. D = Doomed(g, i)
  BY <1>2 DEF Doomed
<1>4. Wipe(c.prev, D, NULL) = Wipe(g.prev, D, NULL)
  <2>1. CASE s = <<>>
    BY <1>1, <2>1
  <2>2. CASE s # <<>>
    <3>1. s[1] \in D
      BY <1>3, <2>2 DEF g
    <3>2. c.prev \in [Nodes -> Nodes \cup {NULL}] /\ g.prev = [c.prev EXCEPT ![s[1]] = Last(s)]
      BY <1>1, <2>2 DEF Heaps, Pointers
    <3>3. \A n \in Nodes : n \notin D => g.prev[n] = c.prev[n]
      BY <3>1, <3>2
    <3> HIDE DEF D
    <3> QED BY <3>3 DEF Wipe
  <2> QED BY <2>1, <2>2
<1>5. Freed(c, D) = Freed(g, D)
  <2> HIDE DEF D
  <2> QED BY <1>1, <1>4 DEF Freed
<1> QED BY <1>3, <1>5 DEF g

\* The array and its elements, given back when the last could not be had.
LEMMA GoodUndone ==
    ASSUME TreeInv, NEW a \in Nodes, a \notin live, NEW s \in Seq(Nodes), Distinct(s),
           a \notin ToSet(s), \A n \in ToSet(s) : n \notin live,
           NEW kind \in Kinds, NEW each \in Kinds
    PROVE  LET c == Chained(heap, a, s, kind, each)
           IN  Good(Freed(c, Doomed(c, a)), (live \cup {a} \cup ToSet(s)) \ Doomed(c, a),
                    held, list)
<1> DEFINE c == Chained(heap, a, s, kind, each)
           g == Tied(c, s)
           l2 == live \cup {a} \cup ToSet(s)
           ls2 == [list EXCEPT ![a] = s]
           D == Doomed(g, a)
           B == {a} \cup ToSet(s)
<1>1. Good(g, l2, held \cup {a}, ls2)
  BY GoodArray
<1>2. list \in [Nodes -> Seq(Nodes)] /\ held \subseteq live
  BY DEF TreeInv, Good, Placed
<1>3. ls2[a] = s /\ \A b \in Nodes : b # a => ls2[b] = list[b]
  BY <1>2
<1>4. \A b \in B : b \in Nodes /\ b \notin live /\ list[b] = <<>>
  <2>1. \A b \in B : b \in Nodes /\ b \notin live
    BY InToSet
  <2> QED BY <2>1 DEF TreeInv, Good, Wholes
<1>5. c \in Heaps
  BY GoodArray
<1> HIDE DEF g, c, ls2, l2
<1>6. g \in Heaps /\ a \in D /\ \A S \in SUBSET Nodes : a \in S /\ Closed(g, S) => D \subseteq S
  <2>1. g \in Heaps
    BY <1>1 DEF Good
  <2> QED BY <2>1, DoomedIs
\* Nothing but the new blocks goes.
<1>7. D \subseteq B
  <2>1. B \in SUBSET Nodes /\ a \in B
    BY <1>4
  <2>2. ASSUME NEW n \in B
        PROVE  /\ g.next[n] \in B \/ g.next[n] = NULL
               /\ g.ref[n] \/ g.child[n] \in B \/ g.child[n] = NULL
    <3>1. n \in Nodes
      BY <2>1
    <3>2. ASSUME g.next[n] # NULL PROVE g.next[n] \in B
      <4>1. PICK b \in Nodes : \E k \in 1 .. Len(ls2[b]) :
                ls2[b][k] = n /\ k + 1 \in 1 .. Len(ls2[b]) /\ g.next[n] = ls2[b][k + 1]
        BY <1>1, <3>1, <3>2, LeadsOn
      <4>2. b = a
        <5> SUFFICES ASSUME b # a PROVE FALSE
          OBVIOUS
        <5>1. PICK k \in 1 .. Len(list[b]) : list[b][k] = n
          BY <1>3, <4>1
        <5>2. n \in live
          BY <5>1 DEF TreeInv, Good, Placed
        <5> QED BY <1>4, <5>2
      <4>3. \E k \in 1 .. Len(s) : g.next[n] = s[k]
        BY <1>3, <4>1, <4>2
      <4> QED BY <4>3, InToSet
    <3>3. ASSUME ~ g.ref[n], g.child[n] # NULL PROVE g.child[n] \in B
      <4>1. 1 \in 1 .. Len(ls2[n]) /\ g.child[n] = ls2[n][1]
        BY <1>1, <3>1, <3>3, LeadsOn
      <4>2. n = a
        <5> SUFFICES ASSUME n # a PROVE FALSE
          OBVIOUS
        <5>1. ls2[n] = <<>>
          BY <1>3, <1>4, <3>1
        <5> QED BY <4>1, <5>1
      <4>3. \E k \in 1 .. Len(s) : g.child[n] = s[k]
        BY <1>3, <4>1, <4>2
      <4> QED BY <4>3, InToSet
    <3> QED BY <3>2, <3>3
  <2>3. Closed(g, B)
    <3> HIDE DEF B
    <3> QED BY <1>6, <2>1, <2>2, ClosedIs
  <2> HIDE DEF B, D
  <2> QED BY <1>6, <2>1, <2>3
\* The elements go with the array.
<1>8. s # <<>> => s[1] \in D
  <2> SUFFICES ASSUME s # <<>> PROVE s[1] \in D
    OBVIOUS
  <2>1. 1 \in 1 .. Len(ls2[a]) /\ ls2[a][1] = s[1]
    BY <1>3
  <2>2. \A b \in D : \A k \in 1 .. Len(ls2[b]) : ls2[b][k] \in D
    <3>1. a \in held \cup {a}
      OBVIOUS
    <3> QED BY <1>1, <3>1, DoomedWhole
  <2> HIDE DEF D
  <2> QED BY <1>6, <2>1, <2>2
<1>9. Doomed(c, a) = D /\ Freed(c, D) = Freed(g, D)
  BY <1>5, <1>8, TiedSame DEF g
<1>10. Good(Freed(g, D), l2 \ D, (held \cup {a}) \ {a}, Wipe(ls2, D, <<>>))
  <2>1. a \in held \cup {a}
    OBVIOUS
  <2> QED BY <1>1, <2>1, GoodFreed
<1>11. (held \cup {a}) \ {a} = held
  BY <1>2
<1>12. Wipe(ls2, D, <<>>) = list
  <2>1. ASSUME NEW b \in Nodes
        PROVE  (IF b \in D THEN <<>> ELSE ls2[b]) = list[b]
    <3>1. CASE b \in D
      BY <1>4, <1>7, <3>1
    <3>2. CASE b \notin D
      <4>1. b # a
        BY <1>6, <3>2
      <4> QED BY <1>3, <3>2, <4>1
    <3> QED BY <3>1, <3>2
  <2> HIDE DEF D
  <2> QED BY <1>2, <2>1 DEF Wipe
<1> QED BY <1>9, <1>10, <1>11, <1>12 DEF c, l2

LEMMA CreateArrayGood ==
    ASSUME TreeInv, NEW a \in Nodes, NEW n \in Nat, NEW s \in [1 .. n -> Nodes],
           NEW kind \in Kinds, NEW each \in Kinds, NEW oom \in BOOLEAN,
           CreateArray(a, s, kind, each, oom)
    PROVE  TreeInv'
<1>1. s \in Seq(Nodes) /\ Len(s) = n
  OBVIOUS
<1>2. /\ a \notin live /\ a \notin ToSet(s) /\ \A m \in ToSet(s) : m \notin live
      /\ Distinct(s)
  BY <1>1 DEF CreateArray, Free, IsInjective, Distinct
<1>3. CASE oom
  <2> DEFINE f == Front(s)
             c == Chained(heap, a, f, kind, each)
  <2>1. s # <<>>
    BY <1>3 DEF CreateArray
  <2>2. f \in Seq(Nodes) /\ Len(f) = n - 1 /\ \A k \in 1 .. n - 1 : f[k] = s[k]
    BY <1>1, <2>1 DEF Front
  <2> HIDE DEF f
  <2>3. Distinct(f)
    BY <1>1, <1>2, <2>2 DEF Distinct
  <2>4. \A m \in ToSet(f) : m \in ToSet(s)
    <3> SUFFICES ASSUME NEW m \in ToSet(f) PROVE m \in ToSet(s)
      OBVIOUS
    <3>1. PICK k \in 1 .. Len(f) : f[k] = m
      BY <2>2, InToSet
    <3>2. k \in 1 .. Len(s) /\ s[k] = m
      BY <1>1, <2>2, <3>1
    <3> QED BY <1>1, <3>2, InToSet
  <2>5. Good(Freed(c, Doomed(c, a)), (live \cup {a} \cup ToSet(f)) \ Doomed(c, a), held, list)
    BY <1>2, <2>2, <2>3, <2>4, GoodUndone
  <2>6. /\ heap' = Freed(c, Doomed(c, a))
        /\ live' = (live \cup {a} \cup ToSet(f)) \ Doomed(c, a)
        /\ held' = held /\ list' = list
    BY <1>3 DEF CreateArray, f
  <2> QED BY <2>5, <2>6 DEF TreeInv
<1>4. CASE ~ oom
  <2> DEFINE g == Tied(Chained(heap, a, s, kind, each), s)
  <2>1. Good(g, live \cup {a} \cup ToSet(s), held \cup {a}, [list EXCEPT ![a] = s])
    BY <1>1, <1>2, GoodArray
  <2>2. /\ heap' = g /\ live' = live \cup {a} \cup ToSet(s) /\ held' = held \cup {a}
        /\ list' = [list EXCEPT ![a] = s]
    BY <1>4 DEF CreateArray, Tied
  <2> QED BY <2>1, <2>2 DEF TreeInv
<1> QED BY <1>3, <1>4

LEMMA TreeInit == ASSUME Init PROVE TreeInv
<1>1. heap \in Heaps /\ list \in [Nodes -> Seq(Nodes)] /\ live = {} /\ held = {}
      /\ \A n \in Nodes : list[n] = <<>> /\ heap.next[n] = NULL /\ heap.child[n] = NULL
                          /\ ~ heap.ref[n]
  BY DEF Init, Cleared, Heaps, Pointers
<1>2. Once(list)
  BY <1>1 DEF Once
<1>3. Placed(live, held, list)
  BY <1>1 DEF Placed
<1>4. Wholes(heap, live, list) /\ Ends(heap, list) /\ Bare(heap, live)
      /\ Kept(heap, live, held, list)
  BY <1>1 DEF Wholes, Ends, Bare, Kept
<1> QED BY <1>1, <1>2, <1>3, <1>4 DEF TreeInv, Good

LEMMA TreeNext == ASSUME TreeInv, [Next]_treeVars PROVE TreeInv'
<1>1. Indices \subseteq Int /\ Lengths \subseteq Nat
  BY TreeAssumption DEF Indices, Lengths
<1>2. CASE UNCHANGED treeVars
  BY <1>2 DEF treeVars, TreeInv
<1>3. ASSUME NEW a \in Nodes, NEW i \in Nodes, AddItemToArray(a, i) PROVE TreeInv'
  BY <1>3, AddItemToArrayGood
<1>4. ASSUME NEW a \in Nodes, NEW i \in Nodes, NEW w \in Indices, InsertItemInArray(a, w, i)
      PROVE  TreeInv'
  BY <1>1, <1>4, InsertItemInArrayGood
<1>5. ASSUME NEW a \in Nodes, NEW i \in Nodes, NEW w \in Indices, ReplaceItemInArray(a, w, i)
      PROVE  TreeInv'
  BY <1>1, <1>5, ReplaceItemInArrayGood
<1>6. ASSUME NEW a \in Nodes, NEW i \in Nodes, NEW r \in Nodes, AddItemReferenceToArray(a, i, r)
      PROVE  TreeInv'
  BY <1>6, AddItemReferenceToArrayGood
<1>7. ASSUME NEW a \in Nodes, NEW i \in Nodes, NEW name \in Names, NEW oom \in BOOLEAN,
             AddItemToObject(a, name, i, oom)
      PROVE  TreeInv'
  BY <1>7, AddItemToObjectGood
<1>8. ASSUME NEW a \in Nodes, NEW i \in Nodes, NEW name \in Names, NEW oom \in BOOLEAN,
             NEW kind \in Kinds, AddNewItemToObject(a, name, i, kind, oom)
      PROVE  TreeInv'
  BY <1>8, AddNewItemToObjectGood
<1>9. ASSUME NEW a \in Nodes, NEW i \in Nodes, NEW name \in Names, NEW oom \in BOOLEAN,
             NEW r \in Nodes, AddItemReferenceToObject(a, name, i, r, oom)
      PROVE  TreeInv'
  BY <1>9, AddItemReferenceToObjectGood
<1>10. ASSUME NEW a \in Nodes, NEW i \in Nodes, NEW name \in Names, NEW oom \in BOOLEAN,
              NEW case \in BOOLEAN, ReplaceItemInObject(a, name, case, i, oom)
       PROVE  TreeInv'
  BY <1>10, ReplaceItemInObjectGood
<1>11. ASSUME NEW a \in Nodes, NEW del \in BOOLEAN, NEW w \in Indices, FromArray(a, w, del)
       PROVE  TreeInv'
  BY <1>1, <1>11, FromArrayGood
<1>12. ASSUME NEW a \in Nodes, NEW del \in BOOLEAN, NEW name \in Names, NEW case \in BOOLEAN,
              FromObject(a, name, case, del)
       PROVE  TreeInv'
  BY <1>12, FromObjectGood
<1>13. ASSUME NEW i \in Nodes, DeleteItem(i) PROVE TreeInv'
  BY <1>13, DeleteItemGood
<1>14. ASSUME NEW i \in Nodes, NEW kind \in Kinds, CreateItem(i, kind) PROVE TreeInv'
  BY <1>14, CreateItemGood
<1>15. ASSUME NEW i \in Nodes, NEW kind \in Kinds, NEW c \in Nodes, CreateReference(c, i, kind)
       PROVE  TreeInv'
  BY <1>15, CreateReferenceGood
<1>16. ASSUME NEW i \in Nodes, NEW kind \in Kinds, NEW n \in Lengths, NEW each \in Kinds,
              NEW oom \in BOOLEAN, NEW s \in [1 .. n -> Nodes],
              CreateArray(i, s, kind, each, oom)
       PROVE  TreeInv'
  BY <1>1, <1>16, CreateArrayGood
<1> QED BY <1>2, <1>3, <1>4, <1>5, <1>6, <1>7, <1>8, <1>9, <1>10, <1>11, <1>12, <1>13,
           <1>14, <1>15, <1>16 DEF Next

THEOREM TreeIsGood == Spec => []TreeInv
<1>1. Init => TreeInv
  BY TreeInit
<1>2. TreeInv /\ [Next]_treeVars => TreeInv'
  BY TreeNext
<1> QED BY <1>1, <1>2, PTL DEF Spec

-----------------------------------------------------------------------------
(* What a program that uses the library may rely on.                       *)

\* The pointers of every item and of its children are those of the list that
\* the calls so far promise, the short cut from the first to the last and the
\* way back included: add, insert, detach, replace, delete and create leave
\* no list torn, and none lost its end (suffix_object and the rest of
\* cJSON.c's pointer surgery).
THEOREM ListsAreWhole == Spec => []ListsWhole
<1>1. TreeInv => ListsWhole
  BY DEF TreeInv, Good, Wholes, ListsWhole, Owners
<1> QED BY <1>1, TreeIsGood, PTL

\* Every allocated item has one place, in one list once or in the program's
\* hands, and what has a place is allocated: cJSON_Delete frees each block
\* once, uses none it has freed, takes nothing along that lies elsewhere, and
\* leaves nothing behind that nobody can reach, but for references: the one
\* that cJSON_AddItemReferenceToObject has made and cannot name is lost.
THEOREM ItemsAreOnce == Spec => []EveryItemOnce
<1>1. ASSUME TreeInv PROVE EveryItemOnce
  <2>1. list \in [Nodes -> Seq(Nodes)] /\ live \subseteq Nodes /\ held \subseteq live
    BY <1>1 DEF TreeInv, Good, Placed
  <2>2. \A n : n \in Listed <=> InSome(list, n)
    <3>1. \A a \in Nodes : \A n : n \in ToSet(list[a]) <=> \E k \in 1 .. Len(list[a]) : list[a][k] = n
      BY <2>1, InToSet
    <3>2. \A n : n \in Listed <=> \E a \in Nodes : n \in ToSet(list[a])
      BY DEF Listed
    <3> QED BY <3>1, <3>2 DEF InSome
  <2>3. NoItemTwice
    <3>1. \A a \in Nodes : DOMAIN list[a] = 1 .. Len(list[a])
      BY <2>1
    <3>2. ASSUME NEW a \in Nodes, NEW b \in Nodes,
                 NEW k \in DOMAIN list[a], NEW m \in DOMAIN list[b], list[a][k] = list[b][m]
          PROVE  a = b /\ k = m
      <4>1. k \in 1 .. Len(list[a]) /\ m \in 1 .. Len(list[b])
        BY <3>1
      <4> QED BY <1>1, <3>2, <4>1 DEF TreeInv, Good, Once
    <3>3. Listed \cup held \subseteq live
      BY <1>1, <2>1, <2>2 DEF TreeInv, Good, Placed, InSome
    <3> QED BY <3>2, <3>3 DEF NoItemTwice
  <2>4. LooseEndsHere
    <3>1. \A n \in live \ Listed : heap.next[n] = NULL
      BY <1>1, <2>1, <2>2 DEF TreeInv, Good, Ends
    <3>2. \A a \in Nodes \ Owners : list[a] = <<>>
      BY <1>1 DEF TreeInv, Good, Wholes, Owners
    <3>3. held \cap Listed = {}
      BY <1>1, <2>2 DEF TreeInv, Good, Placed, InSome
    <3> QED BY <3>1, <3>2, <3>3 DEF LooseEndsHere
  <2>5. NothingLost
    BY <1>1, <2>2 DEF TreeInv, Good, Kept, NothingLost
  <2> QED BY <2>3, <2>4, <2>5 DEF EveryItemOnce
<1> QED BY <1>1, TreeIsGood, PTL

\* There are no more items in a list than there are blocks.
LEMMA LengthBound ==
    ASSUME NEW s \in Seq(Nodes), Distinct(s)
    PROVE  Cardinality(Nodes) \in Nat /\ Len(s) <= Cardinality(Nodes)
<1>1. IsFiniteSet(Nodes) /\ Cardinality(Nodes) \in Nat
  BY TreeAssumption, FS_CardinalityType
<1>2. Len(s) \in Nat /\ s \in [1 .. Len(s) -> Nodes]
  OBVIOUS
<1>3. IsFiniteSet(1 .. Len(s)) /\ Cardinality(1 .. Len(s)) = Len(s)
  <2>1. IsFiniteSet(1 .. Len(s))
        /\ Cardinality(1 .. Len(s)) = IF 1 > Len(s) THEN 0 ELSE Len(s) - 1 + 1
    BY <1>2, FS_Interval
  <2> QED BY <1>2, <2>1
<1>4. ASSUME Cardinality(Nodes) < Len(s) PROVE FALSE
  <2>1. \E x, y \in 1 .. Len(s) : x # y /\ s[x] = s[y]
    BY <1>1, <1>2, <1>3, <1>4, FS_PigeonHole
  <2> QED BY <2>1 DEF Distinct
<1> QED BY <1>1, <1>2, <1>4

\* The walk that counts stops at the end of the list.
LEMMA SizeIs ==
    ASSUME NEW h, NEW a, NEW s \in Seq(Nodes), Distinct(s), Whole(h, a, s)
    PROVE  cJSON_GetArraySize(h, a) = Len(s)
<1> DEFINE N == Cardinality(Nodes)
           L == Len(s)
           Stops(k) == /\ get_array_item(h, a, k) = NULL
                       /\ k > 0 => get_array_item(h, a, k - 1) # NULL
<1>1. L \in Nat /\ N \in Nat /\ L <= N
  BY LengthBound
<1>2. \A k \in Int : get_array_item(h, a, k) = NULL <=> ~ (0 <= k /\ k < L)
  <2> SUFFICES ASSUME NEW k \in Int
               PROVE  get_array_item(h, a, k) = NULL <=> ~ (0 <= k /\ k < L)
    OBVIOUS
  <2>1. get_array_item(h, a, k) = IF 0 <= k /\ k < L THEN s[k + 1] ELSE NULL
    BY ItemIs
  <2>2. 0 <= k /\ k < L => s[k + 1] # NULL
    BY TreeAssumption
  <2> QED BY <2>1, <2>2
<1>3. \A k \in 0 .. N : Stops(k) <=> k = L
  <2> SUFFICES ASSUME NEW k \in 0 .. N PROVE Stops(k) <=> k = L
    OBVIOUS
  <2>1. k \in Int /\ k - 1 \in Int
    BY <1>1
  <2>2. get_array_item(h, a, k) = NULL <=> ~ (0 <= k /\ k < L)
    BY <1>2, <2>1
  <2>3. get_array_item(h, a, k - 1) = NULL <=> ~ (0 <= k - 1 /\ k - 1 < L)
    BY <1>2, <2>1
  <2> HIDE DEF L, N
  <2> QED BY <1>1, <2>1, <2>2, <2>3
<1>4. cJSON_GetArraySize(h, a) = CHOOSE k \in 0 .. N : Stops(k)
  BY DEF cJSON_GetArraySize
<1>5. L \in 0 .. N
  BY <1>1
<1> HIDE DEF L, N, Stops
<1>6. (CHOOSE k \in 0 .. N : Stops(k)) = L
  BY <1>3, <1>5
<1> QED BY <1>4, <1>6 DEF L

\* What a search by name finds, where it is not stopped by an item without one.
LEMMA SearchIs ==
    ASSUME NEW h, NEW a, NEW s \in Seq(Nodes), Distinct(s), Whole(h, a, s),
           NEW name \in Names, NEW case \in BOOLEAN,
           case => \A i \in ToSet(s) : h.name[i] # NULL
    PROVE  LET found == get_object_item(h, a, name, case)
               wanted == {i \in ToSet(s) : h.name[i] # NULL /\ SameName(h, i, name, case)}
           IN  IF wanted = {} THEN found = NULL ELSE found \in wanted
<1> DEFINE N == Cardinality(Nodes)
           L == Len(s)
           Item(k) == get_array_item(h, a, k)
           hits == {k \in 0 .. N : Item(k) # NULL /\ SameName(h, Item(k), name, case)}
           m == CHOOSE k \in hits : \A j \in hits : k <= j
           found == get_object_item(h, a, name, case)
           wanted == {i \in ToSet(s) : h.name[i] # NULL /\ SameName(h, i, name, case)}
           Right == IF wanted = {} THEN found = NULL ELSE found \in wanted
<1> SUFFICES Right
  OBVIOUS
<1>1. L \in Nat /\ N \in Nat /\ L <= N
  BY LengthBound
<1>2. found = IF hits = {} THEN NULL ELSE IF h.name[Item(m)] = NULL THEN NULL ELSE Item(m)
  BY DEF get_object_item
<1>3. \A n : n \in ToSet(s) <=> \E k \in 1 .. L : s[k] = n
  BY InToSet
<1>4. \A k \in 1 .. L : Item(k - 1) = s[k] /\ k - 1 \in 0 .. N /\ s[k] # NULL
  <2> SUFFICES ASSUME NEW k \in 1 .. L
               PROVE  Item(k - 1) = s[k] /\ k - 1 \in 0 .. N /\ s[k] # NULL
    OBVIOUS
  <2>1. k - 1 \in Int /\ 0 <= k - 1 /\ k - 1 < L /\ (k - 1) + 1 = k
    BY <1>1
  <2>2. Item(k - 1) = s[k]
    BY <2>1, ItemIs
  <2>3. k - 1 \in 0 .. N
    BY <1>1
  <2>4. s[k] # NULL
    BY TreeAssumption
  <2> QED BY <2>2, <2>3, <2>4
<1>5. CASE hits = {}
  <2>1. wanted = {}
    <3> SUFFICES ASSUME NEW i \in wanted PROVE FALSE
      OBVIOUS
    <3>1. PICK k \in 1 .. L : s[k] = i
      BY <1>3
    <3>2. k - 1 \in hits
      BY <1>4, <3>1
    <3> QED BY <1>5, <3>2
  <2> HIDE DEF hits, m, Item
  <2> QED BY <1>2, <1>5, <2>1
<1>6. CASE hits # {}
  <2>1. m \in hits
    <3>1. hits \in SUBSET Nat
      BY <1>1
    <3> HIDE DEF hits
    <3>2. \E k \in hits : \A j \in hits : k <= j
      BY <1>6, <3>1, SmallestNumber
    <3> QED BY <3>2
  <2>2. m \in Int /\ Item(m) # NULL /\ SameName(h, Item(m), name, case)
    BY <1>1, <2>1
  <2> HIDE DEF m
  <2>3. Item(m) \in ToSet(s)
    <3>1. \E k \in 1 .. L : Item(m) = s[k]
      BY <2>2, ItemListed
    <3> QED BY <1>3, <3>1
  <2>4. h.name[Item(m)] # NULL
    <3>1. CASE case
      BY <2>3, <3>1
    <3>2. CASE ~ case
      BY <2>2, <3>2 DEF SameName
    <3> QED BY <3>1, <3>2
  <2>5. Item(m) \in wanted
    BY <2>2, <2>3, <2>4
  <2>6. found = Item(m)
    <3> HIDE DEF hits, Item, found
    <3> QED BY <1>2, <1>6, <2>4
  <2> HIDE DEF Item, found, wanted
  <2> QED BY <2>5, <2>6
<1> QED BY <1>5, <1>6

\* What a program reads by index, by length and by name is the promised list:
\* get_array_item, cJSON_GetArraySize and get_object_item walk the pointers
\* and agree with what the calls so far were told to build.
THEOREM ReadsAreRight == Spec => []ReadsAgree
<1>1. ASSUME TreeInv, NEW a \in Owners
      PROVE  /\ list[a] \in Seq(Nodes) /\ Distinct(list[a]) /\ Whole(heap, a, list[a])
  BY <1>1, OwnerHas DEF TreeInv, Owners
<1>2. ASSUME TreeInv, NEW a \in Owners
      PROVE  cJSON_GetArraySize(heap, a) = Len(list[a])
  BY <1>1, <1>2, SizeIs
<1>3. ASSUME TreeInv, NEW a \in Owners, NEW k \in DOMAIN list[a]
      PROVE  get_array_item(heap, a, k - 1) = list[a][k]
  <2>1. list[a] \in Seq(Nodes) /\ Whole(heap, a, list[a])
    BY <1>1, <1>3
  <2>2. k - 1 \in Int /\ 0 <= k - 1 /\ k - 1 < Len(list[a]) /\ (k - 1) + 1 = k
    BY <2>1
  <2> QED BY <2>1, <2>2, ItemIs
<1>4. ASSUME TreeInv, NEW a \in Owners, NEW name \in Names, NEW case \in BOOLEAN
      PROVE  LET items == ToSet(list[a])
                 found == get_object_item(heap, a, name, case)
                 wanted == {i \in items :
                               heap.name[i] # NULL /\ SameName(heap, i, name, case)}
             IN  \/ case /\ \E i \in items : heap.name[i] = NULL
                 \/ IF wanted = {} THEN found = NULL ELSE found \in wanted
  BY <1>1, <1>4, SearchIs
<1>5. TreeInv => ReadsAgree
  BY <1>2, <1>3, <1>4 DEF ReadsAgree
<1> QED BY <1>5, TreeIsGood, PTL
=============================================================================
