------------------------------- MODULE BinaryTree -------------------------------
(***************************************************************************)
(* The hash tables of SIPLib (mvi_hash_table.c) over counted binary trees  *)
(* (mvi_binary_tree.c), and the pool of nodes the tables share.            *)
(*                                                                         *)
(* A table is one slot of an array of roots, where the hashes that fall    *)
(* into the slot make a tree; entries of one hash make a chain.  An        *)
(* operation runs under the mutex of its table, here in the steps of its   *)
(* loops; the pool has a mutex of its own, so operations of two tables     *)
(* meet there.  The free list is a set: which free node is handed out is   *)
(* of no interest, and a node that the list has lost may be made again,    *)
(* since nothing leads to it.  malloc never fails, and other tables do not take all   *)
(* of a new chunk of nodes before the table that made it has its own:      *)
(* binary_tree_get would fail, after the new node has been counted.        *)
(***************************************************************************)
EXTENDS Integers, FiniteSets

CONSTANTS
  Tables,    \* pht_registry and pht_active_session
  ByEntry,   \* those whose deletefunc looks for the entry in the chain of its hash
  Collide,   \* keys of the others have equal hashes too
  HashesOf,  \* hashes of the keys of each table
  Chunk,     \* MAX_NEW_BINARY_TREE
  MaxNodes   \* bound on the nodes in use

ASSUME TreeAssumption ==
  /\ ByEntry \subseteq Tables /\ Collide \in BOOLEAN
  /\ Chunk \in Nat \ {0} /\ MaxNodes \in Nat
  /\ HashesOf \in [Tables -> SUBSET Nat]

VARIABLES
  node,   \* the fields of each node, and those read of NULL, which is 0
  root,   \* *pproot of each table
  pfree,  \* the free list
  op,     \* what the thread in a table is doing
  held    \* the nodes whose obj is an entry of the table

treeVars == <<node, root, pfree, op, held>>

Nodes == 1 .. MaxNodes + Chunk
Links == {"a", "l", "e"}
Cleared == [p |-> 0, a |-> 0, e |-> 0, l |-> 0, count |-> 0, hash |-> 0]
Idle == [do |-> "idle"]

TreeInit ==
  /\ node = [n \in Nodes \cup {0} |-> Cleared]
  /\ root = [t \in Tables |-> 0]
  /\ pfree = 1 .. Chunk
  /\ op = [t \in Tables |-> Idle]
  /\ held = [t \in Tables |-> {}]

\* f with a field of node n set, unless n is NULL.
Set(f, n, field, v) == IF n = 0 THEN f ELSE [f EXCEPT ![n][field] = v]

\* What a node counts: itself and all below it.
Size(f, n) == 1 + f[f[n].e].count + f[f[n].a].count + f[f[n].l].count

\* f where q's link to x leads to y.
Relinked(f, q, x, y) ==
  IF q = 0 THEN f
  ELSE [f EXCEPT ![q] = [fld \in DOMAIN @ |-> IF fld \in Links /\ @[fld] = x THEN y ELSE @[fld]]]

\* Bug: the child that changes sides is lost.
RotatedChildless(f, x, d) ==
  LET o == IF d = "a" THEN "l" ELSE "a"
      y == f[x][d]
      g == Relinked([f EXCEPT ![x][d] = 0, ![x].p = y, ![y][o] = x, ![y].p = f[x].p],
                    f[x].p, x, y)
      h == [g EXCEPT ![x].count = Size(g, x)]
  IN  [h EXCEPT ![y].count = Size(h, y)]

\* binary_tree_rotation: the child on side d comes up in place of x.
Rotated(f, x, d) ==
  LET o == IF d = "a" THEN "l" ELSE "a"
      y == f[x][d]
      c == f[y][o]
      g == Relinked([Set(f, c, "p", x) EXCEPT ![x][d] = c, ![x].p = y,
                                             ![y][o] = x, ![y].p = f[x].p],
                    f[x].p, x, y)
      h == [g EXCEPT ![x].count = Size(g, x)]
  IN  [h EXCEPT ![y].count = Size(h, y)]

\* binary_tree_check_balance: the side that has to come up, if any.
Heavy(f, x) ==
  LET b == f[f[x].a].count - f[f[x].l].count
  IN  IF b > 1 THEN {"a"} ELSE IF b < -1 THEN {"l"} ELSE {}

-----------------------------------------------------------------------------
(* binary_tree_insert. *)

InsertBegin(t, h) ==
  /\ op[t] = Idle
  /\ t \notin ByEntry /\ ~ Collide => \A n \in held[t] : node[n].hash # h
  /\ Cardinality(UNION {held[u] : u \in Tables})
       + Cardinality({u \in Tables : op[u] # Idle}) < MaxNodes
  /\ op' = [op EXCEPT ![t] = IF root[t] = 0 THEN [do |-> "get", at |-> 0, h |-> h]
                                            ELSE [do |-> "down", at |-> root[t], h |-> h]]
  /\ UNCHANGED <<node, root, pfree, held>>

\* The side of n on which hash h is, or "e".
SideOf(n, h) == IF h = node[n].hash THEN "e" ELSE IF h > node[n].hash THEN "a" ELSE "l"

\* One round of binary_tree_check_find: the subtree is balanced, the node on
\* top of it counts the new one, and the search goes on below.
Descend(t) ==
  /\ op[t].do = "down"
  /\ LET x == op[t].at
         h == op[t].h
         heavy == Heavy(node, x)
         d == CHOOSE d \in heavy : TRUE
         f == IF heavy = {} THEN node ELSE Rotated(node, x, d)
         top == IF heavy = {} THEN x ELSE node[x][d]
         side == SideOf(top, h)
     IN  /\ node' = [f EXCEPT ![top].count = @ + 1]
         /\ root' = IF f[top].p = 0 THEN [root EXCEPT ![t] = top] ELSE root
         /\ op' = [op EXCEPT ![t] =
                     IF side = "e" \/ f[top][side] = 0
                       THEN [do |-> "get", at |-> top, h |-> h]
                       ELSE [do |-> "down", at |-> f[top][side], h |-> h]]
  /\ UNCHANGED <<pfree, held>>

\* The new node n below `at`, where the chain of equal hashes moves below it.
WithNew(f, n, at, h) ==
  LET side == SideOf(at, h)
      g == [f EXCEPT ![n] = [Cleared EXCEPT !.hash = h, !.p = at, !.count = 1]]
  IN  IF at = 0 THEN g
      ELSE [Set(g, f[at][side], "p", n) EXCEPT ![at][side] = n, ![n][side] = f[at][side],
                                               ![n].count = 1 + f[f[at][side]].count]

\* A table gets its first or second try at the free list.
Getting(t) ==
  /\ op[t].do \in {"get", "get again"}
  /\ \E n \in pfree : pfree # {n} \/ \A u \in Tables \ {t} : op[u].do # "get again"

\* Bug: the node stays in the free list.
GetKeeps(t) ==
  /\ Getting(t)
  /\ LET n == CHOOSE n \in pfree : \A m \in pfree : n <= m
     IN  /\ node' = WithNew(node, n, op[t].at, op[t].h)
         /\ root' = IF op[t].at = 0 THEN [root EXCEPT ![t] = n] ELSE root
         /\ \/ held' = [held EXCEPT ![t] = @ \cup {n}] /\ op' = [op EXCEPT ![t] = Idle]
            \/ held' = held /\ op' = [op EXCEPT ![t] = [do |-> "delete", at |-> n]]
  /\ UNCHANGED <<pfree>>

\* binary_tree_get, and the node is attached; insertfunc then makes it an
\* entry or refuses, and hash_table_insert deletes it again.
Get(t) ==
  /\ Getting(t)
  /\ LET n == CHOOSE n \in pfree : \A m \in pfree : n <= m
     IN  /\ pfree' = pfree \ {n}
         /\ node' = WithNew(node, n, op[t].at, op[t].h)
         /\ root' = IF op[t].at = 0 THEN [root EXCEPT ![t] = n] ELSE root
         /\ \/ held' = [held EXCEPT ![t] = @ \cup {n}] /\ op' = [op EXCEPT ![t] = Idle]
            \/ held' = held /\ op' = [op EXCEPT ![t] = [do |-> "delete", at |-> n]]

\* The free list is empty: binary_tree_get leaves the mutex, binary_tree_add
\* looks at the list ...
GetNone(t) ==
  /\ op[t].do = "get" /\ pfree = {}
  /\ op' = [op EXCEPT ![t].do = "add"]
  /\ UNCHANGED <<node, root, pfree, held>>

\* ... and then takes the mutex: what the list has by then is lost.
AddNodes(t) ==
  /\ op[t].do = "add" /\ pfree = {}
  /\ op' = [op EXCEPT ![t].do = "fill"]
  /\ UNCHANGED <<node, root, pfree, held>>

AddNone(t) ==
  /\ op[t].do = "add" /\ pfree # {}
  /\ op' = [op EXCEPT ![t].do = "get again"]
  /\ UNCHANGED <<node, root, pfree, held>>

\* The nodes of a table, with one that is being deleted.
InUse(t) ==
  held[t] \cup CASE op[t].do = "delete" -> {op[t].at} [] op[t].do = "up" -> {op[t].n}
                  [] OTHER -> {}

Fill(t) ==
  /\ op[t].do = "fill"
  /\ LET others == Nodes \ UNION {InUse(u) : u \in Tables}
     IN  pfree' = {n \in others : Cardinality({m \in others : m < n}) < Chunk}
  /\ op' = [op EXCEPT ![t].do = "get again"]
  /\ UNCHANGED <<node, root, held>>

-----------------------------------------------------------------------------
(* Search and delete. *)

\* binary_tree_search: from the root down, at most through every node.
Search(t, h) ==
  LET at[k \in Nodes \cup {0}] ==
        IF k = 0 THEN root[t]
        ELSE LET x == at[k - 1]
             IN  IF x = 0 \/ SideOf(x, h) = "e" THEN x ELSE node[x][SideOf(x, h)]
  IN  at[MaxNodes + Chunk]

\* The chain a search leads to, where searchfunc and deletefunc look for a key.
Found(t, h) ==
  LET top == Search(t, h)
      at[k \in Nodes \cup {0}] == IF k = 0 THEN top ELSE node[at[k - 1]].e
  IN  {at[k] : k \in Nodes \cup {0}} \ {0}

\* hash_table_delete of an entry: hd_active_session looks for it in the chain,
\* hd_registry takes the head.
DeleteBegin(t, n) ==
  /\ op[t] = Idle /\ n \in held[t]
  /\ LET m == IF t \in ByEntry THEN n ELSE Search(t, node[n].hash)
     IN  IF m \in Found(t, node[n].hash)
           THEN /\ op' = [op EXCEPT ![t] = [do |-> "delete", at |-> m]]
                /\ held' = [held EXCEPT ![t] = @ \ {n}]
           ELSE UNCHANGED <<op, held>>
  /\ UNCHANGED <<node, root, pfree>>

\* binary_tree_delete of a node with a chain: the next of the chain takes its
\* place.
DeleteChained(t) ==
  /\ op[t].do = "delete"
  /\ LET n == op[t].at
         e == node[n].e
         q == node[n].p
         g == Set(Set(node, node[n].l, "p", e), node[n].a, "p", e)
         f == [g EXCEPT ![e].l = node[n].l, ![e].a = node[n].a, ![e].p = q,
                        ![e].count = node[n].count - 1]
     IN  /\ e # 0
         /\ node' = Relinked(f, q, n, e)
         /\ root' = IF q = 0 THEN [root EXCEPT ![t] = e] ELSE root
         /\ op' = [op EXCEPT ![t] = [do |-> "up", at |-> q, n |-> n]]
  /\ UNCHANGED <<pfree, held>>

\* The last of a chain.
DeleteLast(t) ==
  /\ op[t].do = "delete"
  /\ LET n == op[t].at
         q == node[n].p
     IN  /\ node[n].e = 0 /\ q # 0 /\ node[q].e = n
         /\ node' = [node EXCEPT ![q].e = 0]
         /\ op' = [op EXCEPT ![t] = [do |-> "up", at |-> q, n |-> n]]
  /\ UNCHANGED <<root, pfree, held>>

\* A node of its own: while it has two children the larger one comes up.
DeleteRotate(t) ==
  /\ op[t].do = "delete"
  /\ LET n == op[t].at
     IN  /\ node[n].e = 0 /\ (node[n].p = 0 \/ node[node[n].p].e # n)
         /\ node[n].l # 0 /\ node[n].a # 0
         /\ node' = Rotated(node, n,
              IF node[node[n].l].count > node[node[n].a].count THEN "l" ELSE "a")
  /\ UNCHANGED <<root, pfree, op, held>>

\* Then its only child, if any, takes its place.
DeleteUnlink(t) ==
  /\ op[t].do = "delete"
  /\ LET n == op[t].at
         q == node[n].p
         c == IF node[n].a # 0 THEN node[n].a ELSE node[n].l
     IN  /\ node[n].e = 0 /\ (q = 0 \/ node[q].e # n)
         /\ node[n].l = 0 \/ node[n].a = 0
         /\ node' = Relinked(Set(node, c, "p", q), q, n, c)
         /\ root' = IF q = 0 THEN [root EXCEPT ![t] = c] ELSE root
         /\ op' = [op EXCEPT ![t] = [do |-> "up", at |-> q, n |-> n]]
  /\ UNCHANGED <<pfree, held>>

\* All above count one less.
CountUp(t) ==
  /\ op[t].do = "up" /\ op[t].at # 0
  /\ LET q == op[t].at
     IN  /\ node' = [node EXCEPT ![q].count = @ - 1]
         /\ root' = IF node[q].p = 0 THEN [root EXCEPT ![t] = q] ELSE root
         /\ op' = [op EXCEPT ![t].at = node[q].p]
  /\ UNCHANGED <<pfree, held>>

\* binary_tree_free, and the table is left.
FreeNode(t) ==
  /\ op[t].do = "up" /\ op[t].at = 0
  /\ node' = [node EXCEPT ![op[t].n] = Cleared]
  /\ pfree' = pfree \cup {op[t].n}
  /\ op' = [op EXCEPT ![t] = Idle]
  /\ UNCHANGED <<root, held>>

TreeNext ==
  \E t \in Tables :
    \/ \E h \in HashesOf[t] : InsertBegin(t, h)
    \/ Descend(t) \/ Get(t) \/ GetNone(t) \/ AddNodes(t) \/ AddNone(t) \/ Fill(t)
    \/ \E n \in Nodes : DeleteBegin(t, n)
    \/ DeleteChained(t) \/ DeleteLast(t) \/ DeleteRotate(t) \/ DeleteUnlink(t)
    \/ CountUp(t) \/ FreeNode(t)

TreeSpec == TreeInit /\ [][TreeNext]_treeVars

-----------------------------------------------------------------------------
(* Properties. *)

\* A search in a table finds the entries of the hash, all of them and no
\* others, however rotations have moved them and deletions closed the gaps.
EntriesFound ==
  \A t \in Tables : op[t] = Idle =>
    \A h \in HashesOf[t] : Found(t, h) \cap {n \in Nodes : node[n].hash = h}
                        = {n \in held[t] : node[n].hash = h}

\* The counts the balance goes by are the sizes of the subtrees, and a node is
\* the parent of what it links to.
CountsExact ==
  \A t \in Tables : op[t] = Idle =>
    \A n \in held[t] :
      /\ node[n].count = Size(node, n)
      /\ \A d \in Links : node[n][d] # 0 => node[node[n][d]].p = n
      /\ node[n].p = 0 <=> n = root[t]

\* Both: the trees are trees, and have the entries of the tables.
TreesSound == EntriesFound /\ CountsExact

\* No node is in two tables, or in a table and free, although the free list is
\* looked at without its mutex; a node that is handed out has no links.
NodesApart ==
  /\ \A t \in Tables : InUse(t) \cap pfree = {}
  /\ \A t, u \in Tables : t # u => InUse(t) \cap InUse(u) = {}
  /\ \A n \in pfree : node[n] = Cleared
=============================================================================
