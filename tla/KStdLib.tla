-------------------------------- MODULE KStdLib --------------------------------
(***************************************************************************)
(* The containers of the kernel, src/src/kstdlib: a Vector and a HashTable *)
(* of ints with the LinkedLists of its buckets, in memory they share and   *)
(* that nobody clears.                                                     *)
(*                                                                         *)
(* Memory is an array of words at addresses; NULL is 0 and page p begins   *)
(* at p * PageWords.  Every new takes whole pages, the lowest that are     *)
(* free, one by one.  Only the Vector deletes; what Hash returns and the   *)
(* nodes that Insert replaces are lost.                                    *)
(***************************************************************************)
EXTENDS LowestPages, Sequences, FiniteSetsExt

CONSTANTS
  PageWords,    \* words of a page
  NPages,       \* bound: pages there are
  Capacity,     \* of the table
  Keys, Values, \* what is put into the table
  Items,        \* what is pushed
  MaxItems,     \* bound: items in the vector
  DirtyPages    \* the pages that may hold something at the start

Pages == 1 .. NPages

ASSUME StdLibAssumption ==
  /\ PageWords \in Nat /\ PageWords >= 2 /\ NPages \in Nat
  /\ Capacity \in 1 .. PageWords
  /\ Keys \subseteq Nat /\ Values \subseteq Int /\ Items \subseteq Int
  /\ MaxItems \in Nat /\ DirtyPages \subseteq Pages

NULL == 0
Junk == -1

VARIABLES
  mem,     \* the words of memory
  free,    \* the pages that are free
  vec,     \* the Vector: length, capacity and store
  store,   \* the HashTable's store
  stale,   \* history: its buckets that were not NULL when it was made
  status,  \* running, or wild once a wild pointer was followed
  stack,   \* history: what was pushed and not popped
  map      \* history: what was inserted

vars == <<mem, free, vec, store, stale, status, stack, map>>

Address == PageWords .. (PageWords * (NPages + 1) - 1)
Running == status = "running"

-----------------------------------------------------------------------------
(* Memory *)

\* operator new of that many words: where they begin, and whether the pages
\* follow one another, as the caller takes for granted.
PagesFor(words) == (words + PageWords - 1) \div PageWords

Allocate(fr, words) ==
  LET taken == Lowest(fr, PagesFor(words))
  IN [ptr |-> Min(taken) * PageWords,
      free |-> fr \ taken,
      whole |-> Max(taken) - Min(taken) + 1 = PagesFor(words)]

\* operator delete gives back the first page of a block.
Free(fr, ptr) == fr \union {ptr \div PageWords}

\* m with the words of s from ptr on.
Write(m, ptr, s) ==
  [a \in DOMAIN m |-> IF a - ptr + 1 \in DOMAIN s THEN s[a - ptr + 1] ELSE m[a]]

Read(ptr, words) == [k \in 1 .. words |-> mem[ptr + k - 1]]

\* RAM holds whatever was left in it.
Init ==
  /\ \E dirty \in SUBSET DirtyPages :
       mem = [a \in Address |-> IF a \div PageWords \in dirty THEN Junk ELSE 0]
  /\ free = Pages
  /\ vec = [length |-> 0, capacity |-> 0, store |-> NULL]
  /\ store = NULL /\ stale = {}
  /\ status = "running"
  /\ stack = << >> /\ map = [k \in {} |-> 0]

-----------------------------------------------------------------------------
(* Vector *)

NewVector ==
  /\ Running /\ vec.store = NULL /\ HasRoom(free, PagesFor(2))
  /\ LET new == Allocate(free, 2) IN
     /\ vec' = [length |-> 0, capacity |-> 2, store |-> new.ptr]
     /\ free' = new.free
  /\ UNCHANGED <<mem, store, stale, status, stack, map>>

\* There is space for one more in the store.
PushInPlace(x) ==
  /\ vec.length # vec.capacity
  /\ mem' = Write(mem, vec.store + vec.length, <<x>>)
  /\ vec' = [vec EXCEPT !.length = @ + 1]
  /\ UNCHANGED <<free, status>>

\* Mutant: the last item is not copied.
ExpandAndPushShort(x) ==
  LET new == Allocate(free, 2 * vec.capacity) IN
  /\ vec.length = vec.capacity
  /\ HasRoom(free, PagesFor(2 * vec.capacity))
  /\ mem' = Write(Write(mem, new.ptr + vec.length, <<x>>),
                  new.ptr, Read(vec.store, vec.length - 1))
  /\ vec' = [length |-> vec.length + 1, capacity |-> 2 * vec.capacity,
             store |-> new.ptr]
  /\ free' = Free(new.free, vec.store)
  /\ status' = IF new.whole THEN status ELSE "wild"

\* expandStore, and then the push.  Pages that do not follow one another leave
\* the vector writing over whatever lies behind its first one.
ExpandAndPush(x) ==
  LET new == Allocate(free, 2 * vec.capacity) IN
  /\ vec.length = vec.capacity
  /\ HasRoom(free, PagesFor(2 * vec.capacity))
  /\ mem' = Write(mem, new.ptr, Append(Read(vec.store, vec.length), x))
  /\ vec' = [length |-> vec.length + 1, capacity |-> 2 * vec.capacity,
             store |-> new.ptr]
  /\ free' = Free(new.free, vec.store)
  /\ status' = IF new.whole THEN status ELSE "wild"

Push(x) ==
  /\ Running /\ vec.store # NULL /\ Len(stack) < MaxItems
  /\ PushInPlace(x) \/ ExpandAndPush(x)
  /\ stack' = Append(stack, x)
  /\ UNCHANGED <<store, stale, map>>

\* An empty vector returns 0 and stays as it is.
Pop ==
  /\ Running /\ vec.store # NULL /\ vec.length # 0
  /\ vec' = [vec EXCEPT !.length = @ - 1]
  /\ stack' = SubSeq(stack, 1, Len(stack) - 1)
  /\ UNCHANGED <<mem, free, store, stale, status, map>>

-----------------------------------------------------------------------------
(* HashTable *)

\* SimpleHasher::Hash of an int: the loop's index is a count of bits and its
\* bound one of bytes, so only the lowest byte of the key is looked at.
Hash(key) == (key % 256) % Capacity

\* The hasher is never given back: what is in it does not matter.
NewTable ==
  /\ Running /\ store = NULL /\ HasRoom(free, 2)
  /\ LET new == Allocate(Allocate(free, 2).free, Capacity) IN
     /\ store' = new.ptr
     /\ free' = new.free
     /\ stale' = {h \in 0 .. Capacity - 1 : mem[new.ptr + h] # NULL}
  /\ UNCHANGED <<mem, vec, status, stack, map>>

\* The addresses of the LinkedLists of a bucket; each has a node and a next,
\* and a node a key and a value.  There are no more lists than pages.
Bucket(hash) ==
  LET at[n \in 0 .. NPages] ==
        IF n = 0 THEN mem[store + hash]
        ELSE IF at[n - 1] = NULL THEN NULL ELSE mem[at[n - 1] + 1]
  IN [n \in 1 .. Min({n \in DOMAIN at : at[n] = NULL}) |-> at[n - 1]]

KeyOf(list) == mem[mem[list]]
Holding(key) ==
  {n \in DOMAIN Bucket(Hash(key)) : KeyOf(Bucket(Hash(key))[n]) = key}

\* The value the walk of Get returns.
Lookup(key) ==
  IF Holding(key) = {} THEN 0
  ELSE mem[mem[Bucket(Hash(key))[Min(Holding(key))]] + 1]

\* A bucket that is not NULL and never was filled is followed to nowhere.
GoWild(key) ==
  /\ Hash(key) \in stale
  /\ status' = "wild"
  /\ UNCHANGED <<mem, free, map>>

\* The key is in the table: its list gets the new node.
Replace(key, val) ==
  LET node == Allocate(Allocate(free, 2).free, 2)
      list == Bucket(Hash(key))[Min(Holding(key))] IN
  /\ Hash(key) \notin stale
  /\ Holding(key) # {}
  /\ mem' = Write(Write(mem, node.ptr, <<key, val>>), list, <<node.ptr>>)
  /\ free' = node.free
  /\ status' = status

\* Mutant: the new list goes where the bucket's first one was.
AddFirst(key, val) ==
  LET node == Allocate(Allocate(free, 2).free, 2)
      list == Allocate(node.free, 2)
      filled == Write(Write(mem, node.ptr, <<key, val>>),
                      list.ptr, <<node.ptr, NULL>>) IN
  /\ Hash(key) \notin stale
  /\ Holding(key) = {}
  /\ mem' = Write(filled, store + Hash(key), <<list.ptr>>)
  /\ free' = list.free
  /\ status' = status

\* The key is not: a new list in the bucket, or behind the last one.
Add(key, val) ==
  LET node == Allocate(Allocate(free, 2).free, 2)
      list == Allocate(node.free, 2)
      bucket == Bucket(Hash(key))
      link == IF bucket = << >> THEN store + Hash(key) ELSE bucket[Len(bucket)] + 1
      filled == Write(Write(mem, node.ptr, <<key, val>>),
                      list.ptr, <<node.ptr, NULL>>) IN
  /\ Hash(key) \notin stale
  /\ Holding(key) = {}
  /\ mem' = Write(filled, link, <<list.ptr>>)
  /\ free' = list.free
  /\ status' = status

\* The hash, the node and perhaps a list are allocated.
Insert(key, val) ==
  /\ Running /\ store # NULL /\ HasRoom(free, 3)
  /\ \/ GoWild(key)
     \/ /\ Replace(key, val) \/ Add(key, val)
        /\ map' = [k \in DOMAIN map \union {key} |-> IF k = key THEN val ELSE map[k]]
  /\ UNCHANGED <<vec, store, stale, stack>>

\* Get takes a page for the hash.
Get(key) ==
  /\ Running /\ store # NULL /\ HasRoom(free, 1)
  /\ free' = Allocate(free, 2).free
  /\ status' = IF Hash(key) \in stale THEN "wild" ELSE status
  /\ UNCHANGED <<mem, vec, store, stale, stack, map>>

Next ==
  \/ NewVector \/ Pop
  \/ \E x \in Items : Push(x)
  \/ NewTable
  \/ \E k \in Keys, v \in Values : Insert(k, v)
  \/ \E k \in Keys : Get(k)

Spec == Init /\ [][Next]_vars

-----------------------------------------------------------------------------
(* Properties *)

\* Until a wild pointer is followed the vector holds what was pushed and not
\* popped, in order, however often its store was moved and whatever the table
\* wrote into memory the vector gave back.
VectorIsStack ==
  Running /\ vec.store # NULL => Read(vec.store, vec.length) = stack

\* Until then a bucket that was NULL at first gives each of its keys the value
\* inserted last, and 0 to the others: keys of one hash are kept apart, and the
\* vector's items never get into the lists.
TableIsMap ==
  Running /\ store # NULL =>
    \A k \in Keys :
      Hash(k) \notin stale =>
        Lookup(k) = IF k \in DOMAIN map THEN map[k] ELSE 0
=============================================================================
