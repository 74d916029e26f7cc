----------------------------- MODULE CJsonTree -----------------------------
(***************************************************************************)
(* The item lists of cJSON.c.  The children of an item are a linked list:  *)
(* child points to the first, next leads to the following one, prev leads  *)
(* back, and prev of the FIRST leads to the last, so that an item can be   *)
(* appended without a walk.  Nothing in the structure says which items are *)
(* in a list: that the lists stay whole is up to the calls and their order.*)
(*                                                                         *)
(* The operators on a heap are the functions of the library; the actions   *)
(* are calls a program may make of it: an item that is added is one the    *)
(* program holds (it created or detached it), it is not put below itself,  *)
(* and a list is not changed through a reference.  list is what the calls  *)
(* promise: the children of each item, in order.  An allocation may fail.  *)
(***************************************************************************)
EXTENDS Integers, Sequences, FiniteSets, SequencesExt

CONSTANTS
    Nodes,          \* the blocks the allocator hands out for items
    NULL,
    Kinds,          \* what an item is: the type field without its flags
    Names,          \* names of the items of an object
    MaxIndex,       \* bound: the largest index passed
    MaxMade,        \* bound: the longest array made in one call
    Lower           \* the name in lower case

ASSUME TreeAssumption ==
    /\ IsFiniteSet(Nodes)
    /\ NULL \notin Nodes \cup Names \cup Kinds
    /\ Lower \in [Names -> Names]
    /\ MaxIndex \in Nat /\ MaxMade \in Nat

VARIABLES
    heap,   \* the fields of every block
    live,   \* the blocks that are allocated
    held,   \* the items outside every list that the program has a pointer to
    list    \* the children each item is promised to have

treeVars == <<heap, live, held, list>>

\* Fault: the walk counts the first element as number one.
get_array_item_OffByOne(h, a, index) ==
    LET nth[k \in 0 .. index] ==
            IF k <= 1 THEN h.child[a]
            ELSE IF nth[k - 1] = NULL THEN NULL ELSE h.next[nth[k - 1]]
    IN  IF index < 0 THEN NULL ELSE nth[index]

(***************************************************************************)
(* Walks.  get_array_item follows next, index times or until it ends.      *)
(***************************************************************************)
get_array_item(h, a, index) ==
    LET nth[k \in 0 .. index] ==
            IF k = 0 THEN h.child[a]
            ELSE IF nth[k - 1] = NULL THEN NULL ELSE h.next[nth[k - 1]]
    IN  IF index < 0 THEN NULL ELSE nth[index]

\* The number of elements, for a list that ends.
cJSON_GetArraySize(h, a) ==
    CHOOSE k \in 0 .. Cardinality(Nodes) :
        /\ get_array_item(h, a, k) = NULL
        /\ k > 0 => get_array_item(h, a, k - 1) # NULL

\* The search that takes case into account ends at an item without a name,
\* the other one passes it.
SameName(h, i, name, case) ==
    IF case THEN h.name[i] \in {name, NULL}
    ELSE h.name[i] # NULL /\ Lower[h.name[i]] = Lower[name]

get_object_item(h, o, name, case) ==
    LET Item(k) == get_array_item(h, o, k)
        hits == {k \in 0 .. Cardinality(Nodes) :
                    Item(k) # NULL /\ SameName(h, Item(k), name, case)}
        found == Item(CHOOSE k \in hits : \A j \in hits : k <= j)
    IN  IF hits = {} THEN NULL
        ELSE IF h.name[found] = NULL THEN NULL ELSE found
-----------------------------------------------------------------------------
\* Fault: the first element is not told of the new last one.
add_item_to_array_NoSuffix(h, a, i) ==
    LET first == h.child[a]
    IN  IF a = i THEN h
        ELSE IF first = NULL
        THEN [h EXCEPT !.child[a] = i, !.prev[i] = i, !.next[i] = NULL]
        ELSE [h EXCEPT !.next[h.prev[first]] = i, !.prev[i] = h.prev[first]]

(***************************************************************************)
(* Pointer surgery.                                                        *)
(***************************************************************************)
add_item_to_array(h, a, i) ==
    LET first == h.child[a]
    IN  IF a = i THEN h
        ELSE IF first = NULL
        THEN [h EXCEPT !.child[a] = i, !.prev[i] = i, !.next[i] = NULL]
        ELSE IF h.prev[first] = NULL THEN h
        ELSE [h EXCEPT !.next[h.prev[first]] = i,
                       !.prev = [@ EXCEPT ![i] = h.prev[first], ![first] = i]]

cJSON_DetachItemViaPointer(h, p, i) ==
    LET first == h.child[p]
        before == h.prev[i]
        after == h.next[i]
        n1 == IF i # first THEN [h.next EXCEPT ![before] = after] ELSE h.next
        p1 == IF after # NULL THEN [h.prev EXCEPT ![after] = before] ELSE h.prev
        p2 == IF i # first /\ after = NULL
              THEN [p1 EXCEPT ![first] = before] ELSE p1
    IN  [h EXCEPT !.child[p] = IF i = first THEN after ELSE @,
                  !.next = [n1 EXCEPT ![i] = NULL],
                  !.prev = [p2 EXCEPT ![i] = NULL]]

\* In front of the item at; without one, at the end.
cJSON_InsertItemInArray(h, a, at, i) ==
    IF at = NULL THEN add_item_to_array(h, a, i)
    ELSE LET before == h.prev[at]
             n1 == [h.next EXCEPT ![i] = at]
         IN  [h EXCEPT
                !.child[a] = IF at = @ THEN i ELSE @,
                !.next = IF at = h.child[a] THEN n1 ELSE [n1 EXCEPT ![before] = i],
                !.prev = [@ EXCEPT ![i] = before, ![at] = i]]

\* The exchange of cJSON_ReplaceItemViaPointer; the item is deleted after it.
Exchange(h, p, i, r) ==
    LET first == h.child[p]
        before == h.prev[i]
        after == h.next[i]
        p1 == [h.prev EXCEPT ![r] = before]
        p2 == IF after # NULL THEN [p1 EXCEPT ![after] = r] ELSE p1
        p3 == IF i = first
              THEN IF p2[first] = first THEN [p2 EXCEPT ![r] = r] ELSE p2
              ELSE IF after = NULL THEN [p2 EXCEPT ![first] = r] ELSE p2
        n1 == [h.next EXCEPT ![r] = after]
        n2 == IF i # first /\ before # NULL THEN [n1 EXCEPT ![before] = r] ELSE n1
    IN  [h EXCEPT !.child[p] = IF i = first THEN r ELSE @,
                  !.next = [n2 EXCEPT ![i] = NULL],
                  !.prev = [p3 EXCEPT ![i] = NULL]]

Named(h, i, name) == [h EXCEPT !.name[i] = name]

(***************************************************************************)
(* cJSON_Delete frees the item, everything after it in its list, and all   *)
(* that is below, but not below a reference.  What a freed block holds is  *)
(* not modelled: it reads as a new one, which the allocation clears.       *)
(***************************************************************************)
Closed(h, S) ==
    \A n \in S : {h.next[n], IF h.ref[n] THEN NULL ELSE h.child[n]} \subseteq S \cup {NULL}

Doomed(h, i) ==
    LET whole == {S \in SUBSET Nodes : i \in S /\ Closed(h, S)}
    IN  {n \in Nodes : \A S \in whole : n \in S}

Wipe(f, S, v) == [n \in Nodes |-> IF n \in S THEN v ELSE f[n]]

Freed(h, S) ==
    [next |-> Wipe(h.next, S, NULL), prev |-> Wipe(h.prev, S, NULL),
     child |-> Wipe(h.child, S, NULL), name |-> Wipe(h.name, S, NULL),
     kind |-> Wipe(h.kind, S, NULL), ref |-> Wipe(h.ref, S, FALSE)]

Delete(h, i) ==
    /\ heap' = Freed(h, Doomed(h, i))
    /\ live' = live \ Doomed(h, i)

\* A copy of the item's fields that stands alone and does not own its children.
create_reference(h, i, r) ==
    [h EXCEPT !.child[r] = h.child[i], !.kind[r] = h.kind[i], !.ref[r] = TRUE]
-----------------------------------------------------------------------------
(***************************************************************************)
(* The calls.                                                              *)
(***************************************************************************)
Free(i) == i \in Nodes \ live

\* A list the program may change, and an item it may put there.
Target(a) == a \in live /\ ~ heap.ref[a]
Loose(a, i) == i \in held /\ (i = a \/ a \notin Doomed(heap, i))

\* The promised list of a with item i appended; nothing is added to itself.
Appended(a, i) == IF a = i THEN list ELSE [list EXCEPT ![a] = Append(@, i)]

New(h, i, kind) == [h EXCEPT !.kind[i] = kind]

CreateItem(i, kind) ==
    /\ Free(i)
    /\ heap' = New(heap, i, kind)
    /\ live' = live \cup {i}
    /\ held' = held \cup {i}
    /\ UNCHANGED list

AddItemToArray(a, i) ==
    /\ Target(a) /\ Loose(a, i)
    /\ heap' = add_item_to_array(heap, a, i)
    /\ list' = Appended(a, i)
    /\ held' = IF a = i THEN held ELSE held \ {i}
    /\ UNCHANGED live

\* add_item_to_object: no memory for the name, and nothing happens.
AddItemToObject(o, name, i, oom) ==
    /\ Target(o) /\ Loose(o, i)
    /\ IF oom \/ o = i THEN UNCHANGED <<heap, list, held>>
       ELSE /\ heap' = add_item_to_array(Named(heap, i, name), o, i)
            /\ list' = Appended(o, i)
            /\ held' = held \ {i}
    /\ UNCHANGED live

\* Fault: the item that could not be added is not deleted.
AddNewItemToObject_Leaks(o, name, i, kind, oom) ==
    /\ Target(o) /\ Free(i)
    /\ IF oom THEN heap' = New(heap, i, kind) /\ UNCHANGED list
       ELSE /\ heap' = add_item_to_array(Named(New(heap, i, kind), i, name), o, i)
            /\ list' = Appended(o, i)
    /\ live' = live \cup {i}
    /\ UNCHANGED held

\* cJSON_AddNullToObject and its like: a new item that is deleted again when
\* it cannot be added.
AddNewItemToObject(o, name, i, kind, oom) ==
    /\ Target(o) /\ Free(i)
    /\ IF oom THEN UNCHANGED <<heap, list, live>>
       ELSE /\ heap' = add_item_to_array(Named(New(heap, i, kind), i, name), o, i)
            /\ list' = Appended(o, i)
            /\ live' = live \cup {i}
    /\ UNCHANGED held

AddItemReferenceToArray(a, i, r) ==
    /\ Target(a) /\ i \in live /\ Free(r)
    /\ heap' = add_item_to_array(create_reference(heap, i, r), a, r)
    /\ list' = Appended(a, r)
    /\ live' = live \cup {r}
    /\ UNCHANGED held

\* Without memory for the name the reference is left behind, held by nobody.
AddItemReferenceToObject(o, name, i, r, oom) ==
    /\ Target(o) /\ i \in live /\ Free(r)
    /\ LET referred == create_reference(heap, i, r)
       IN  IF oom THEN heap' = referred /\ UNCHANGED list
           ELSE /\ heap' = add_item_to_array(Named(referred, r, name), o, r)
                /\ list' = Appended(o, r)
    /\ live' = live \cup {r}
    /\ UNCHANGED held

\* cJSON_CreateArrayReference and cJSON_CreateObjectReference.
CreateReference(c, r, kind) ==
    /\ c \in live /\ Free(r)
    /\ heap' = [New(heap, r, kind) EXCEPT !.child[r] = c, !.ref[r] = TRUE]
    /\ live' = live \cup {r}
    /\ held' = held \cup {r}
    /\ UNCHANGED list

Position(p, i) == CHOOSE k \in DOMAIN list[p] : list[p][k] = i

Delisted(p, i) == [list EXCEPT ![p] = RemoveAt(@, Position(p, i))]

\* cJSON_DetachItemFromArray, ...FromObject and ...ViaPointer on an element.
Detach(p, i) ==
    /\ heap' = cJSON_DetachItemViaPointer(heap, p, i)
    /\ list' = Delisted(p, i)
    /\ held' = held \cup {i}
    /\ UNCHANGED live

\* cJSON_DeleteItemFromArray, cJSON_DeleteItemFromObject.
DetachAndDelete(p, i) ==
    LET detached == cJSON_DetachItemViaPointer(heap, p, i)
    IN  /\ Delete(detached, i)
        /\ list' = Wipe(Delisted(p, i), Doomed(detached, i), <<>>)
        /\ UNCHANGED held

FromArray(p, which, del) ==
    LET i == get_array_item(heap, p, which)
    IN  /\ Target(p)
        /\ CASE i = NULL -> UNCHANGED treeVars
             [] i # NULL /\ del -> DetachAndDelete(p, i)
             [] OTHER -> Detach(p, i)

FromObject(p, name, case, del) ==
    LET i == get_object_item(heap, p, name, case)
    IN  /\ Target(p)
        /\ CASE i = NULL -> UNCHANGED treeVars
             [] i # NULL /\ del -> DetachAndDelete(p, i)
             [] OTHER -> Detach(p, i)

InsertItemInArray(a, which, i) ==
    LET at == get_array_item(heap, a, which)
    IN  /\ Target(a) /\ Loose(a, i) /\ a # i
        /\ IF which < 0 THEN UNCHANGED <<heap, list, held>>
           ELSE /\ heap' = cJSON_InsertItemInArray(heap, a, at, i)
                /\ list' = IF at = NULL THEN Appended(a, i)
                           ELSE [list EXCEPT ![a] = InsertAt(@, Position(a, at), i)]
                /\ held' = held \ {i}
        /\ UNCHANGED live

\* In the heap h, where r already has its name.
Replace(h, p, i, r) ==
    LET exchanged == Exchange(h, p, i, r)
    IN  /\ Delete(exchanged, i)
        /\ list' = Wipe([list EXCEPT ![p] = ReplaceAt(@, Position(p, i), r)],
                        Doomed(exchanged, i), <<>>)
        /\ held' = held \ {r}

ReplaceItemInArray(p, which, r) ==
    LET i == get_array_item(heap, p, which)
    IN  /\ Target(p) /\ Loose(p, r) /\ p # r
        /\ IF i = NULL THEN UNCHANGED treeVars ELSE Replace(heap, p, i, r)

\* The replacement gets its name first, and keeps it when nothing is replaced;
\* without memory for the name it is left without one.
ReplaceItemInObject(p, name, case, r, oom) ==
    LET i == get_object_item(heap, p, name, case)
        renamed == Named(heap, r, IF oom THEN NULL ELSE name)
    IN  /\ Target(p) /\ Loose(p, r) /\ p # r
        /\ IF oom \/ i = NULL THEN heap' = renamed /\ UNCHANGED <<live, held, list>>
           ELSE Replace(renamed, p, i, r)

DeleteItem(i) ==
    /\ i \in held
    /\ Delete(heap, i)
    /\ held' = held \ Doomed(heap, i)
    /\ list' = Wipe(list, Doomed(heap, i), <<>>)

\* cJSON_CreateIntArray and its like chain the elements s as they are made.
Chained(h, a, s, kind, each) ==
    LET At(m) == CHOOSE k \in DOMAIN s : s[k] = m
        Later == {s[k] : k \in 2 .. Len(s)}
        Earlier == {s[k] : k \in 1 .. Len(s) - 1}
    IN  [h EXCEPT
            !.child[a] = IF s = <<>> THEN NULL ELSE s[1],
            !.kind = [m \in Nodes |-> IF m \in ToSet(s) THEN each
                                      ELSE IF m = a THEN kind ELSE h.kind[m]],
            !.next = [m \in Nodes |-> IF m \in Earlier THEN s[At(m) + 1] ELSE h.next[m]],
            !.prev = [m \in Nodes |-> IF m \in Later THEN s[At(m) - 1] ELSE h.prev[m]]]

\* When the last element cannot be had, the array goes with all the others.
CreateArray(a, s, kind, each, oom) ==
    /\ Free(a) /\ a \notin ToSet(s)
    /\ IsInjective(s) /\ \A n \in ToSet(s) : Free(n)
    /\ IF oom
       THEN LET made == Chained(heap, a, Front(s), kind, each)
            IN  /\ s # <<>>
                /\ heap' = Freed(made, Doomed(made, a))
                /\ live' = (live \cup {a} \cup ToSet(Front(s))) \ Doomed(made, a)
                /\ UNCHANGED <<held, list>>
       ELSE LET made == Chained(heap, a, s, kind, each)
            IN  /\ heap' = IF s = <<>> THEN made ELSE [made EXCEPT !.prev[s[1]] = Last(s)]
                /\ live' = live \cup {a} \cup ToSet(s)
                /\ held' = held \cup {a}
                /\ list' = [list EXCEPT ![a] = s]
-----------------------------------------------------------------------------
Cleared == [n \in Nodes |-> NULL]

Init ==
    /\ heap = [next |-> Cleared, prev |-> Cleared, child |-> Cleared,
               name |-> Cleared, kind |-> Cleared, ref |-> [n \in Nodes |-> FALSE]]
    /\ live = {} /\ held = {}
    /\ list = [n \in Nodes |-> <<>>]

Lengths == 0 .. MaxMade
Indices == -1 .. MaxIndex

Next ==
    \/ \E a, i \in Nodes :
        \/ AddItemToArray(a, i)
        \/ \E w \in Indices : InsertItemInArray(a, w, i) \/ ReplaceItemInArray(a, w, i)
        \/ \E r \in Nodes : AddItemReferenceToArray(a, i, r)
        \/ \E name \in Names, oom \in BOOLEAN :
            \/ AddItemToObject(a, name, i, oom)
            \/ \E kind \in Kinds : AddNewItemToObject(a, name, i, kind, oom)
            \/ \E r \in Nodes : AddItemReferenceToObject(a, name, i, r, oom)
            \/ \E case \in BOOLEAN : ReplaceItemInObject(a, name, case, i, oom)
    \/ \E a \in Nodes, del \in BOOLEAN :
        \/ \E w \in Indices : FromArray(a, w, del)
        \/ \E name \in Names, case \in BOOLEAN : FromObject(a, name, case, del)
    \/ \E i \in Nodes : DeleteItem(i)
    \/ \E i \in Nodes, kind \in Kinds :
        \/ CreateItem(i, kind)
        \/ \E c \in Nodes : CreateReference(c, i, kind)
        \/ \E n \in Lengths, each \in Kinds, oom \in BOOLEAN :
            \E s \in [1 .. n -> Nodes] : CreateArray(i, s, kind, each, oom)

Spec == Init /\ [][Next]_treeVars
-----------------------------------------------------------------------------
Owners == {a \in live : ~ heap.ref[a]}
Listed == UNION {ToSet(list[a]) : a \in Nodes}

\* The pointers of an item and of its children are exactly those of the list
\* that the calls so far promise, the way back and the short cut from the
\* first to the last included (suffix_object, cJSON_DetachItemViaPointer).
Whole(h, a, s) ==
    /\ h.child[a] = IF s = <<>> THEN NULL ELSE s[1]
    /\ \A k \in 1 .. Len(s) :
        /\ h.next[s[k]] = IF k = Len(s) THEN NULL ELSE s[k + 1]
        /\ h.prev[s[k]] = IF k = 1 THEN s[Len(s)] ELSE s[k - 1]

ListsWhole == \A a \in Owners : Whole(heap, a, list[a])

\* No item is in two lists or twice in one, so none is freed twice, and the
\* lists hold allocated blocks only, so none is used after it is freed.
NoItemTwice ==
    /\ \A a, b \in Nodes : \A k \in DOMAIN list[a], m \in DOMAIN list[b] :
        list[a][k] = list[b][m] => a = b /\ k = m
    /\ Listed \cup held \subseteq live

\* cJSON_Delete follows next from the item it is given: an item outside every
\* list leads nowhere, so deleting it, or what was detached or replaced,
\* takes nothing else along.  Blocks that are free hold nothing.
LooseEndsHere ==
    /\ \A n \in live \ Listed : heap.next[n] = NULL
    /\ \A a \in Nodes \ Owners : list[a] = <<>>
    /\ held \cap Listed = {}

\* Every allocated item can be reached by the program: it holds it or it is
\* in a list.  What a failed AddItemReferenceToObject leaves is a reference.
NothingLost == \A n \in live : n \in held \cup Listed \/ heap.ref[n]

\* What a program reads by index, by length and by name is the promised list;
\* by exact name only where every item has one, since that search ends at the
\* first without.
ReadsAgree ==
    \A a \in Owners :
        /\ cJSON_GetArraySize(heap, a) = Len(list[a])
        /\ \A k \in DOMAIN list[a] : get_array_item(heap, a, k - 1) = list[a][k]
        /\ \A name \in Names, case \in BOOLEAN :
            LET items == ToSet(list[a])
                found == get_object_item(heap, a, name, case)
                wanted == {i \in items : heap.name[i] # NULL /\ SameName(heap, i, name, case)}
            IN  \/ case /\ \E i \in items : heap.name[i] = NULL
                \/ IF wanted = {} THEN found = NULL ELSE found \in wanted

\* Every allocated item has one place: in one list once, or loose and held by
\* the program, so that cJSON_Delete frees each block once.  None is left that
\* has no place but a reference, which cJSON_AddItemReferenceToObject leaves
\* when it cannot copy the name.
EveryItemOnce == NoItemTwice /\ LooseEndsHere /\ NothingLost
=============================================================================
