----------------------------- MODULE CJsonCopy -----------------------------
(***************************************************************************)
(* cJSON_Duplicate and cJSON_Compare, on the heap of CJsonTree.  A program *)
(* builds items, copies one of them, with memory for a limited number of   *)
(* allocations, and compares items.  The recursive operators are evaluated *)
(* by TLC only; nothing is proved in this module.  Values and strings are  *)
(* part of what an item is, its kind; its name is copied on its own.       *)
(***************************************************************************)
EXTENDS CJsonTree

CONSTANTS
    Array, Object,  \* the kinds that cJSON_Compare looks into
    MaxItems,       \* bound: items the program creates
    MaxLive,        \* bound: items with the references it adds
    MaxAllocations  \* bound: allocations that succeed during one copy

VARIABLES
    from, copy      \* the copy made, and of which item when its children are copied too

copyVars == <<treeVars, from, copy>>

(***************************************************************************)
(* A copy in progress: the heap, the blocks in use, the allocations left   *)
(* and the item made last, NULL when that failed.                          *)
(***************************************************************************)
Made(h, used, left, item) == [h |-> h, used |-> used, left |-> left, item |-> item]

\* Fault: only the copy itself is freed, not the children it has already.
Failed_KeepsChildren(st, new) ==
    Made(Freed(st.h, {new}), st.used \ {new}, st.left, NULL)

Failed(st, new) ==
    Made(Freed(st.h, Doomed(st.h, new)), st.used \ Doomed(st.h, new), st.left, NULL)

\* Which block the allocator picks makes no difference.
Unused(used) == CHOOSE n \in Nodes : n \notin used

CopiedItem(h, new, i) == New(h, new, h.kind[i])

\* Fault: the name is not copied.
CopyFields_NoName(st, i) ==
    LET new == Unused(st.used)
    IN  IF st.left = 0 \/ st.used = Nodes THEN [st EXCEPT !.item = NULL]
        ELSE Made(CopiedItem(st.h, new, i), st.used \cup {new}, st.left - 1, new)

\* The block and, when the item has one, its name: one allocation each.
CopyFields(st, i) ==
    LET new == Unused(st.used)
        copied == CopiedItem(st.h, new, i)
        block == Made(copied, st.used \cup {new}, st.left - 1, new)
    IN  IF st.left = 0 \/ st.used = Nodes THEN [st EXCEPT !.item = NULL]
        ELSE IF st.h.name[i] = NULL THEN block
        ELSE IF block.left = 0 THEN Failed(block, new)
        ELSE [block EXCEPT !.h = Named(copied, new, st.h.name[i]), !.left = @ - 1]

\* Fault: the new child is linked behind the original instead of the copy.
Linked_ToOriginal(h, new, item, next, child) ==
    IF next = NULL THEN [h EXCEPT !.child[new] = item]
    ELSE [h EXCEPT !.next[child] = item, !.prev[item] = next]

Suffixed(st, new, last) ==
    LET first == st.h.child[new]
    IN  [st EXCEPT !.item = new,
                   !.h = IF first = NULL THEN @ ELSE [@ EXCEPT !.prev[first] = last]]

\* The copy item of child becomes the first of new or follows next.
Linked(h, new, item, next, child) ==
    IF next = NULL THEN [h EXCEPT !.child[new] = item]
    ELSE [h EXCEPT !.next[next] = item, !.prev[item] = next]

RECURSIVE cJSON_Duplicate(_, _, _), CopyChildren(_, _, _, _)

cJSON_Duplicate(st, i, recurse) ==
    LET made == CopyFields(st, i)
    IN  IF made.item = NULL \/ ~ recurse THEN made
        ELSE CopyChildren(made, made.item, st.h.child[i], NULL)

\* The rest of the children, child first, behind the copy called next.
CopyChildren(st, new, child, next) ==
    LET made == cJSON_Duplicate(st, child, TRUE)
        linked == Linked(made.h, new, made.item, next, child)
    IN  IF child = NULL THEN Suffixed(st, new, next)
        ELSE IF made.item = NULL THEN Failed(made, new)
        ELSE CopyChildren([made EXCEPT !.h = linked], new, st.h.next[child], made.item)

RECURSIVE cJSON_Compare(_, _, _, _), CompareElements(_, _, _, _), Elements(_, _)

Elements(h, first) == IF first = NULL THEN <<>> ELSE <<first>> \o Elements(h, h.next[first])

\* Two arrays, from the elements x and y on.
CompareElements(h, x, y, case) ==
    IF x = NULL \/ y = NULL THEN x = y
    ELSE cJSON_Compare(h, x, y, case) /\ CompareElements(h, h.next[x], h.next[y], case)

\* Every element of an object has an equal in the other, both ways.
cJSON_Compare(h, a, b, case) ==
    LET Within(x, y) ==
            \A e \in ToSet(Elements(h, h.child[x])) :
                LET f == IF h.name[e] = NULL THEN NULL
                         ELSE get_object_item(h, y, h.name[e], case)
                IN  f # NULL /\ cJSON_Compare(h, e, f, case)
    IN  /\ h.kind[a] = h.kind[b]
        /\ \/ a = b
           \/ h.kind[a] = Array /\ CompareElements(h, h.child[a], h.child[b], case)
           \/ h.kind[a] = Object /\ Within(a, b) /\ Within(b, a)
           \/ h.kind[a] \notin {Array, Object}
-----------------------------------------------------------------------------
\* Everything below an item, references included.
RECURSIVE Reached(_, _)
Reached(h, S) ==
    LET more == S \cup (UNION {{h.next[n], h.child[n]} : n \in S} \ {NULL})
    IN  IF more = S THEN S ELSE Reached(h, more)

Below(h, i) == Reached(h, {h.child[i]} \ {NULL})

\* The children that a copy of the children of i should have.
CopiedLists(h) ==
    [n \in Nodes |-> IF h.ref[n] THEN <<>> ELSE Elements(h, h.child[n])]

Duplicate(i, recurse, memory) ==
    LET st == cJSON_Duplicate(Made(heap, live, memory, NULL), i, recurse)
    IN  /\ i \in live
        /\ heap' = st.h /\ live' = st.used
        /\ held' = IF st.item = NULL THEN held ELSE held \cup {st.item}
        /\ list' = CopiedLists(st.h)
        /\ copy' = st.item
        /\ from' = IF recurse /\ st.item # NULL THEN i ELSE NULL

CopyInit == Init /\ from = NULL /\ copy = NULL

\* A program that has built one tree copies an item of it and changes nothing
\* more.  A list that holds a reference to itself is left out: every walk of it
\* is endless.
CopyNext ==
    /\ copy = NULL
    /\ \/ /\ \/ \E kind \in Kinds :
                  Cardinality(live) < MaxItems /\ CreateItem(Unused(live), kind)
             \/ \E a, i \in Nodes :
                  /\ heap.kind[a] = Array
                  /\ AddItemToArray(a, i) \/ AddItemReferenceToArray(a, i, Unused(live))
             \/ \E o, i \in Nodes, name \in Names :
                  heap.kind[o] = Object /\ AddItemToObject(o, name, i, FALSE)
          /\ Cardinality(live') <= MaxLive
          /\ \A n \in Nodes : n \notin Below(heap', n)
          /\ UNCHANGED <<from, copy>>
       \/ Cardinality(held) = 1 /\ \E i \in Nodes, recurse \in BOOLEAN, memory \in 0 .. MaxAllocations :
              Duplicate(i, recurse, memory)

CopySpec == CopyInit /\ [][CopyNext]_copyVars
-----------------------------------------------------------------------------
\* A copy is made of new items: no item that existed has changed, whether the
\* copy succeeded or failed half way.
OriginalUntouched ==
    [][copy' # copy \/ (held' = held /\ live' = live) =>
        \A n \in live : /\ n \in live'
                        /\ \A f \in DOMAIN heap : heap'[f][n] = heap[f][n]]_copyVars

\* The copy of an item is free of references, also where the item has some.
CopyOwnsAll ==
    from # NULL => \A n \in {copy} \cup Below(heap, copy) : ~ heap.ref[n]

NamesDiffer(h, i) ==
    \A o \in {i} \cup Below(h, i) :
        \A a, b \in ToSet(Elements(h, h.child[o])) :
            (h.kind[o] = Object /\ h.name[a] # NULL /\ h.name[b] # NULL
                /\ Lower[h.name[a]] = Lower[h.name[b]]) => a = b

\* A copy compares equal to its original, and the other way round, when no
\* object in it has two items of one name.
CopyCompares ==
    from # NULL /\ NamesDiffer(heap, from) =>
        \A case \in BOOLEAN : /\ cJSON_Compare(heap, from, copy, case)
                              /\ cJSON_Compare(heap, copy, from, case)

\* The order of the arguments does not matter, although one object may have
\* only some of the items of the other.
CompareSymmetric ==
    \A a, b \in held, case \in BOOLEAN :
        cJSON_Compare(heap, a, b, case) => cJSON_Compare(heap, b, a, case)

\* Copying leaves every list whole and every item in one place, although the
\* children are chained before they are suffixed and a copy may fail anywhere.
CopyLeavesWhole == ListsWhole /\ EveryItemOnce

\* cJSON_Duplicate makes an item of its own that cJSON_Compare cannot tell
\* from the original, from whichever side it looks.
CopyRight == CopyOwnsAll /\ CopyCompares /\ CompareSymmetric
=============================================================================
