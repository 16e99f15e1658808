------------------------------- MODULE FreeBuffers ------------------------------
(***************************************************************************)
(* The memory of SIPLib's tables (mvi_malloc.c).  Large buffers are cut    *)
(* into items of whole units, a mask says which units are taken, and each  *)
(* buffer with room is on the list of its longest free run.  An owner (an  *)
(* entry of a table) has a chain of items that it fills from the start:    *)
(* tek is how far.  Addresses are offsets in a buffer; what is copied to   *)
(* them is left out.  Each call runs under the one mutex, but the items of *)
(* a chain are freed one by one.                                           *)
(***************************************************************************)
EXTENDS Integers, Sequences, FiniteSets

CONSTANTS
  Owners,    \* who has a chain of items
  Lengths,   \* what is asked for
  COUNT_ITEM,     \* units of a buffer
  MIN_SIZE_ITEM,  \* bytes of a unit
  Header,    \* sizeof(item_buffer_t)
  Word,      \* what malloc_void aligns to, and the spare that is asked for
  BufChunk,     \* MAX_NEW_FREE_BUFFER
  MaxChunks,   \* chunks until MAX_BYTES_MALLOC
  MaxItems   \* bound on the items of a chain

ASSUME BufAssumption ==
  /\ Lengths \subseteq Nat \ {0}
  /\ {COUNT_ITEM, MIN_SIZE_ITEM, Header, Word, BufChunk, MaxChunks, MaxItems} \subseteq Nat \ {0}

VARIABLES
  mask,     \* the units of each buffer that are taken
  next,     \* links of the lists; 0 is NULL
  prev,
  heads,    \* free_buffers.pfree, from 1: list k has the buffers with k units in a row
  counts,   \* free_buffers.count
  chunks,     \* bytes_malloc, in chunks
  chain,    \* the items of each owner
  freeing,  \* the owners whose chain is being freed
  refused   \* the units the last call could not get, or 0

bufVars == <<mask, next, prev, heads, counts, chunks, chain, freeing, refused>>

Buffers == 1 .. MaxChunks * BufChunk
Units == 0 .. COUNT_ITEM - 1
Lists == 1 .. COUNT_ITEM

\* The maximal runs of free units: where they start, and how long they are.
Runs(m) ==
  {r \in Units \X Lists :
     /\ r[1] + r[2] <= COUNT_ITEM
     /\ \A u \in r[1] .. r[1] + r[2] - 1 : u \notin m
     /\ r[1] = 0 \/ r[1] - 1 \in m
     /\ r[1] + r[2] = COUNT_ITEM \/ r[1] + r[2] \in m}

\* check_bits: the length of the longest run, 0 if there is none.
Longest(m) ==
  LET lengths == {0} \cup {r[2] : r \in Runs(m)}
  IN  CHOOSE n \in lengths : \A k \in lengths : k <= n

\* find_bits: the shortest run that is long enough, and the first of those.
FindBits(m, n) ==
  LET fit == {r \in Runs(m) : r[2] >= n}
  IN  (CHOOSE r \in fit : \A q \in fit : r[2] < q[2] \/ (r[2] = q[2] /\ r[1] <= q[1]))[1]

-----------------------------------------------------------------------------
(* The lists, as a record of their links, heads and counts. *)

TheLists == [next |-> next, prev |-> prev, heads |-> heads, counts |-> counts]

NewLists(ls) == next' = ls.next /\ prev' = ls.prev /\ heads' = ls.heads /\ counts' = ls.counts

\* The head of list k is taken off it.
Popped(ls, k) ==
  LET b == ls.heads[k]
      c == ls.next[b]
  IN  [ls EXCEPT !.heads[k] = c, !.counts[k] = @ - 1,
                 !.prev = [x \in Buffers |-> IF x = c THEN 0 ELSE @[x]]]

\* Buffer b becomes the head of the list of its longest run, if it has one.
Pushed(ls, b, m) ==
  LET k == Longest(m)
      alone == [ls EXCEPT !.next[b] = 0, !.prev[b] = 0]
  IN  IF k = 0 THEN alone
      ELSE [alone EXCEPT !.next[b] = ls.heads[k], !.heads[k] = b, !.counts[k] = @ + 1,
                         !.prev = [x \in Buffers |-> IF x = ls.heads[k] THEN b ELSE @[x]]]

\* Bug: the buffer before is not linked to the one after.
UnlinkedHalf(ls, b) ==
  LET k == Longest(mask[b])
  IN  IF k = 0 THEN ls
      ELSE [ls EXCEPT !.prev = [x \in Buffers |-> IF x = ls.next[b] THEN ls.prev[b] ELSE @[x]],
                      !.heads[k] = IF @ = b THEN ls.next[b] ELSE @,
                      !.counts[k] = @ - 1]

\* Buffer b is taken off the list it is on, wherever it is in it.
Unlinked(ls, b) ==
  LET k == Longest(mask[b])
  IN  IF k = 0 THEN ls
      ELSE [ls EXCEPT !.prev = [x \in Buffers |-> IF x = ls.next[b] THEN ls.prev[b] ELSE @[x]],
                      !.next = [x \in Buffers |-> IF x = ls.prev[b] THEN ls.next[b] ELSE @[x]],
                      !.heads[k] = IF @ = b THEN ls.next[b] ELSE @,
                      !.counts[k] = @ - 1]

\* free_buffers_add: a chunk of buffers, all free, linked in their order.
FirstOf(k) == (k - 1) * BufChunk + 1

WithChunk(ls, k) ==
  [ls EXCEPT
     !.next = [x \in Buffers |-> IF x \in FirstOf(k) .. FirstOf(k + 1) - 2 THEN x + 1 ELSE @[x]],
     !.prev = [x \in Buffers |-> IF x \in FirstOf(k) + 1 .. FirstOf(k + 1) - 1 THEN x - 1 ELSE @[x]],
     !.heads[COUNT_ITEM] = FirstOf(k),
     !.counts[COUNT_ITEM] = BufChunk]

BufInit ==
  /\ mask = [b \in Buffers |-> {}]
  /\ LET none == [b \in Buffers |-> 0]
         empty == [k \in Lists |-> 0]
         ls == WithChunk([next |-> none, prev |-> none, heads |-> empty, counts |-> empty], 1)
     IN  next = ls.next /\ prev = ls.prev /\ heads = ls.heads /\ counts = ls.counts
  /\ chunks = 1
  /\ chain = [o \in Owners |-> <<>>]
  /\ freeing = {}
  /\ refused = 0

-----------------------------------------------------------------------------
\* Units of an item for len bytes.
UnitsFor(len) == (len + Header + Word) \div MIN_SIZE_ITEM + 1

\* malloc_void starts at a word.
Aligned(tek, void) == IF void /\ tek % Word # 0 THEN tek + Word - (tek % Word) ELSE tek

\* What malloc_void and malloc_char ask of free_buffers_find.  (malloc_char_exp,
\* which may ask for more, is not called by anyone.)
Asked(len, void) == IF void THEN len + Word ELSE len

\* The items of o's chain with room for what is asked.
WithRoom(o, asked) == {i \in DOMAIN chain[o] : asked < chain[o][i].size - chain[o][i].tek}

\* malloc_char and malloc_void, when an item of the chain has room.
MallocThere(o, len, void) ==
  /\ o \notin freeing
  /\ WithRoom(o, Asked(len, void)) # {}
  /\ LET room == WithRoom(o, Asked(len, void))
         i == CHOOSE i \in room : \A j \in room : i <= j
     IN  chain' = [chain EXCEPT ![o][i].tek = Aligned(@, void) + len]
  /\ refused' = 0
  /\ UNCHANGED <<mask, next, prev, heads, counts, chunks, freeing>>

\* Bug: the list of the buffers that are free as a whole is not looked at.
ListsWithShort(ls, n) == {k \in n .. COUNT_ITEM - 1 : ls.heads[k] # 0}

\* The lists free_buffers_get would take a buffer from.
ListsWith(ls, n) == {k \in n .. COUNT_ITEM : ls.heads[k] # 0}

\* When none has, free_buffers_get takes a new one from the buffers; if it must,
\* it makes a chunk of them, up to the limit.
MallocNew(o, len, void) ==
  LET asked == Asked(len, void)
      n == UnitsFor(asked)
      grow == ListsWith(TheLists, n) = {} /\ heads[COUNT_ITEM] = 0 /\ chunks < MaxChunks
      ls == IF grow THEN WithChunk(TheLists, chunks + 1) ELSE TheLists
      k == CHOOSE k \in ListsWith(ls, n) : \A j \in ListsWith(ls, n) : k <= j
      b == ls.heads[k]
      pos == FindBits(mask[b], n)
      item == [buf |-> b, pos |-> pos, tek |-> Aligned(0, void) + len,
               size |-> n * MIN_SIZE_ITEM - Header]
  IN  /\ o \notin freeing /\ Len(chain[o]) < MaxItems
      /\ WithRoom(o, asked) = {}
      /\ n <= COUNT_ITEM /\ ListsWith(ls, n) # {}
      /\ mask' = [mask EXCEPT ![b] = @ \cup pos .. pos + n - 1]
      /\ NewLists(Pushed(Popped(ls, k), b, mask'[b]))
      /\ chunks' = IF grow THEN chunks + 1 ELSE chunks
      /\ chain' = [chain EXCEPT ![o] = Append(@, item)]
      /\ refused' = 0
      /\ UNCHANGED freeing

\* It fails when no list has a buffer and no chunk can be made.
MallocRefused(o, len, void) ==
  LET n == UnitsFor(Asked(len, void))
  IN  /\ o \notin freeing
      /\ WithRoom(o, Asked(len, void)) = {}
      /\ n <= COUNT_ITEM /\ ListsWith(TheLists, n) = {} /\ (heads[COUNT_ITEM] # 0 \/ chunks >= MaxChunks)
      /\ refused' = n
      /\ UNCHANGED <<mask, next, prev, heads, counts, chunks, chain, freeing>>

\* free_buffers_free of a chain: the items after the first go before it.
FreeChain(o) ==
  /\ o \notin freeing /\ chain[o] # <<>>
  /\ freeing' = freeing \cup {o}
  /\ refused' = 0
  /\ UNCHANGED <<mask, next, prev, heads, counts, chunks, chain>>

\* The units an item gives back.
UnitsBack(item) == (item.size + Header) \div MIN_SIZE_ITEM

FreeItem(o) ==
  /\ o \in freeing
  /\ LET item == chain[o][Len(chain[o])]
         b == item.buf
         n == UnitsBack(item)
     IN  /\ mask' = [mask EXCEPT ![b] = @ \ (item.pos .. item.pos + n - 1)]
         /\ NewLists(Pushed(Unlinked(TheLists, b), b, mask'[b]))
  /\ chain' = [chain EXCEPT ![o] = SubSeq(@, 1, Len(@) - 1)]
  /\ freeing' = IF Len(chain[o]) = 1 THEN freeing \ {o} ELSE freeing
  /\ refused' = 0
  /\ UNCHANGED chunks

BufNext ==
  \E o \in Owners :
    \/ \E len \in Lengths, void \in BOOLEAN :
         MallocThere(o, len, void) \/ MallocNew(o, len, void) \/ MallocRefused(o, len, void)
    \/ FreeChain(o) \/ FreeItem(o)

BufSpec == BufInit /\ [][BufNext]_bufVars

-----------------------------------------------------------------------------
(* Properties. *)

Items == UNION {{<<o, i>> : i \in DOMAIN chain[o]} : o \in Owners}
ItemAt(x) == chain[x[1]][x[2]]
UnitsOf(it) == it.pos .. it.pos + (it.size + Header) \div MIN_SIZE_ITEM - 1

\* No byte has two owners, none is lost, and none is written outside its item:
\* items do not overlap, the masks say what they take, and tek stays in them.
ItemsApart ==
  /\ \A x, y \in Items : x # y /\ ItemAt(x).buf = ItemAt(y).buf
                           => UnitsOf(ItemAt(x)) \cap UnitsOf(ItemAt(y)) = {}
  /\ \A b \in Buffers :
       mask[b] = UNION {UnitsOf(ItemAt(x)) : x \in {y \in Items : ItemAt(y).buf = b}}
  /\ \A x \in Items : ItemAt(x).tek <= ItemAt(x).size

OnList(k) ==
  LET at[i \in Buffers] ==
        IF i = 1 THEN heads[k] ELSE LET b == at[i - 1] IN IF b = 0 THEN 0 ELSE next[b]
  IN  {at[i] : i \in Buffers} \ {0}

\* A buffer is on the list of its longest run and on no other, linked both ways,
\* also when one in the middle was freed into; the counts are the lengths.
ListsAgree ==
  /\ \A k \in Lists : /\ OnList(k) = {b \in 1 .. chunks * BufChunk : Longest(mask[b]) = k}
                      /\ counts[k] = Cardinality(OnList(k))
                      /\ \A b \in OnList(k) :
                           /\ next[b] # 0 => prev[next[b]] = b
                           /\ prev[b] = 0 <=> heads[k] = b

\* Both: items, masks and lists of the pool agree.
PoolSound == ItemsApart /\ ListsAgree

\* A call fails only when no buffer has the room and all that may be made are.
RefusedWhenFull ==
  refused # 0 => chunks = MaxChunks /\ \A b \in Buffers : Longest(mask[b]) < refused
=============================================================================
