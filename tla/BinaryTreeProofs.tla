--------------------------- MODULE BinaryTreeProofs ---------------------------
(***************************************************************************)
(* The hash tables of mvi_binary_tree.c, for any tables, hashes, chunks    *)
(* and bounds: their trees are such that a search finds its way in them,   *)
(* and no two tables share a node.  The proof goes by what is below each   *)
(* node, a function D: the nodes from n down are D[n], and one below       *)
(* another has fewer.  For every change of mvi_binary_tree.c there is a    *)
(* predicate with the fields that it leaves (Has...), a lemma that the     *)
(* assignments of the model have this effect, and lemmas that there are    *)
(* trees again (Shape), with a new D, and exact counts (Counted).          *)
(***************************************************************************)
EXTENDS BinaryTree, FiniteSetTheorems, WellFoundedInduction, TLAPS

\* A set of numbers has a least one.
LEMMA Earliest ==
  ASSUME NEW S \in SUBSET Nat, S # {}
  PROVE  \E k \in S : \A j \in S : k <= j
<1>1. IsWellFoundedOn({ss \in Nat \X Nat : ss[1] < ss[2]}, Nat)
  BY NatLessThanWellFounded DEF OpToRel
<1>2. PICK x \in S : \A y \in S : ~ (<<y, x>> \in {ss \in Nat \X Nat : ss[1] < ss[2]})
  BY <1>1, WFMin
<1>3. ASSUME NEW y \in S PROVE x <= y
  <2>1. <<y, x>> \in Nat \X Nat /\ <<y, x>>[1] = y /\ <<y, x>>[2] = x
    OBVIOUS
  <2>2. ~ (y < x)
    BY <1>2, <2>1
  <2> QED  BY <2>2
<1> QED BY <1>2, <1>3

\* The fields of a node, and the nodes with NULL.
Null == Nodes \cup {0}
NodeRec == [p : Null, a : Null, e : Null, l : Null, count : Int, hash : Int]
Graph == [Null -> NodeRec]

LEMMA NodesAre == 0 \notin Nodes /\ Nodes \subseteq Nat
  BY TreeAssumption DEF Nodes

LEMMA LinksAre ==
  /\ "a" \in Links /\ "l" \in Links /\ "e" \in Links
  /\ \A d \in Links : d = "a" \/ d = "l" \/ d = "e"
  /\ \A f \in Graph : \A n \in Null : \A d \in Links : f[n][d] \in Null
  BY DEF Links, Graph, NodeRec

\* g is f but for a link or the parent of node n, or but for its count.
PutLink(f, g, n, d, v) == g = [f EXCEPT ![n][d] = v]
PutCount(f, g, n, v) == g = [f EXCEPT ![n].count = v]

\* What g has then.
HasLink(f, g, n, d, v) ==
  /\ g \in Graph
  /\ \A z \in Null : \A k \in Links : g[z][k] = IF z = n /\ k = d THEN v ELSE f[z][k]
  /\ \A z \in Null : /\ g[z].p = IF z = n /\ d = "p" THEN v ELSE f[z].p
                     /\ g[z].count = f[z].count
                     /\ g[z].hash = f[z].hash
  /\ \A z \in Null \ {n} : g[z] = f[z]

HasCount(f, g, n, v) ==
  /\ g \in Graph
  /\ \A z \in Null : \A k \in Links : g[z][k] = f[z][k]
  /\ \A z \in Null : /\ g[z].p = f[z].p
                     /\ g[z].count = IF z = n THEN v ELSE f[z].count
                     /\ g[z].hash = f[z].hash
  /\ \A z \in Null \ {n} : g[z] = f[z]

\* One link, or the parent, of one node is set.
LEMMA LinkPut ==
  ASSUME NEW f \in Graph, NEW g, NEW n \in Null, NEW d \in Links \cup {"p"}, NEW v \in Null,
         PutLink(f, g, n, d, v)
  PROVE  HasLink(f, g, n, d, v)
  BY DEF Graph, NodeRec, Links, PutLink, HasLink

\* The count of one node is set.
LEMMA CountPut ==
  ASSUME NEW f \in Graph, NEW g, NEW n \in Null, NEW v \in Int, PutCount(f, g, n, v)
  PROVE  HasCount(f, g, n, v)
  BY DEF Graph, NodeRec, Links, PutCount, HasCount

\* The link of q to x leads to y.
HasRelinked(f, g, q, x, y) ==
  /\ g \in Graph
  /\ \A z \in Null : \A k \in Links :
       g[z][k] = IF z = q /\ q # 0 /\ f[z][k] = x THEN y ELSE f[z][k]
  /\ \A z \in Null : g[z].p = f[z].p /\ g[z].count = f[z].count /\ g[z].hash = f[z].hash
  /\ \A z \in Null : z # q \/ q = 0 => g[z] = f[z]

\* A node's parent is set, unless it is NULL.
HasParent(f, g, c, x) ==
  /\ g \in Graph
  /\ \A z \in Null : \A k \in Links : g[z][k] = f[z][k]
  /\ \A z \in Null : /\ g[z].p = IF z = c /\ c # 0 THEN x ELSE f[z].p
                     /\ g[z].count = f[z].count /\ g[z].hash = f[z].hash
  /\ \A z \in Null : z # c \/ c = 0 => g[z] = f[z]

\* Set(f, c, "p", x) does it.
LEMMA SetParent ==
  ASSUME NEW f \in Graph, NEW c \in Null, NEW x \in Null
  PROVE  HasParent(f, Set(f, c, "p", x), c, x)
<1>1. CASE c = 0
  BY <1>1 DEF Set, HasParent
<1>2. CASE c # 0
  <2>1. PutLink(f, Set(f, c, "p", x), c, "p", x)
    BY <1>2 DEF Set, PutLink
  <2>2. HasLink(f, Set(f, c, "p", x), c, "p", x)
    BY <2>1, LinkPut
  <2>3. \A k \in Links : k # "p"
    BY DEF Links
  <2> QED  BY <1>2, <2>2, <2>3 DEF HasLink, HasParent
<1> QED  BY <1>1, <1>2

\* The link of q that leads to x leads to y then.
LEMMA RelinkedIs ==
  ASSUME NEW f \in Graph, NEW q \in Null, NEW x \in Null, NEW y \in Null
  PROVE  HasRelinked(f, Relinked(f, q, x, y), q, x, y)
<1>1. CASE q = 0
  BY <1>1 DEF Relinked, HasRelinked
<1>2. CASE q # 0
  <2> DEFINE r == [fld \in DOMAIN f[q] |-> IF fld \in Links /\ f[q][fld] = x THEN y ELSE f[q][fld]]
  <2>1. f[q] \in NodeRec
    BY DEF Graph
  <2>2. /\ r \in NodeRec /\ r.p = f[q].p /\ r.count = f[q].count /\ r.hash = f[q].hash
        /\ \A k \in Links : r[k] = IF f[q][k] = x THEN y ELSE f[q][k]
    BY <2>1 DEF NodeRec, Links
  <2>3. Relinked(f, q, x, y) = [f EXCEPT ![q] = r]
    BY <1>2 DEF Relinked
  <2> HIDE DEF r
  <2> QED  BY <1>2, <2>2, <2>3 DEF Graph, HasRelinked
<1> QED  BY <1>1, <1>2

\* What a node and those below it count.
LEMMA SizeInt ==
  ASSUME NEW f \in Graph, NEW n \in Null
  PROVE  Size(f, n) \in Int /\ Size(f, n) = 1 + f[f[n].e].count + f[f[n].a].count + f[f[n].l].count
  BY DEF Size, Graph, NodeRec

\* A node counts the same as long as its children do.
LEMMA SizeSame ==
  ASSUME NEW f \in Graph, NEW g \in Graph, NEW n \in Null,
         \A d \in Links : g[g[n][d]].count = f[f[n][d]].count
  PROVE  Size(g, n) = Size(f, n)
<1>1. /\ g[g[n].e].count = f[f[n].e].count
      /\ g[g[n].a].count = f[f[n].a].count
      /\ g[g[n].l].count = f[f[n].l].count
  BY LinksAre
<1> QED  BY <1>1 DEF Size

-----------------------------------------------------------------------------
\* The nodes below n on side d.
Under(f, D, n, d) == IF f[n][d] = 0 THEN {} ELSE D[f[n][d]]

\* A node of hash h may be on side d of node n.
Sided(f, n, d, h) ==
  /\ d = "a" => h > f[n].hash
  /\ d = "l" => h < f[n].hash
  /\ d = "e" => h = f[n].hash

\* The links of the nodes of T lead to nodes of T, whose parents they come
\* from; a chain has no sides.
Joined(f, T) ==
  /\ T \subseteq Nodes
  /\ \A n \in T : \A d \in Links : f[n][d] \in T \cup {0} /\ (f[n][d] # 0 => f[f[n][d]].p = n)
  /\ \A n \in T : f[n].p \in T \cup {0} /\ (f[n].p # 0 => \E d \in Links : f[f[n].p][d] = n)
  /\ \A n \in T : \A c, d \in Links : f[n][c] = f[n][d] /\ f[n][c] # 0 => c = d
  /\ \A n \in T : f[n].e # 0 => f[f[n].e].a = 0 /\ f[f[n].e].l = 0

\* D[n] has the nodes from n down, on the sides that their hashes tell.
Below(f, T, D) ==
  /\ D \in [T -> SUBSET T]
  /\ \A n \in T : \A m : m \in D[n] <=> m = n \/ \E d \in Links : m \in Under(f, D, n, d)
  /\ \A n \in T : \A d \in Links : n \notin Under(f, D, n, d)
  /\ \A n \in T : \A d \in Links : \A m \in Under(f, D, n, d) : Sided(f, n, d, f[m].hash)

\* The nodes of T make trees.
Shape(f, T, D) == Joined(f, T) /\ Below(f, T, D)

\* r is the only top of the nodes of T.
Top(f, T, D, r) ==
  IF T = {} THEN r = 0
  ELSE r \in T /\ f[r].p = 0 /\ D[r] = T /\ \A n \in T : f[n].p = 0 => n = r

\* A node of hash h belongs below `at`.
Path(f, T, D, at, h) ==
  \A z \in T : \A d \in Links : at \in Under(f, D, z, d) => d # "e" /\ Sided(f, z, d, h)

\* x is not the next of a chain.
Plain(f, x) == f[x].p = 0 \/ f[f[x].p].e # x

\* What is under a node is of T, and under all that have the node under them.
LEMMA UnderIs ==
  ASSUME NEW f \in Graph, NEW T, NEW D, Shape(f, T, D)
  PROVE  /\ \A n \in T : \A d \in Links : Under(f, D, n, d) \subseteq D[n] /\ Under(f, D, n, d) \subseteq T
         /\ \A n \in T : n \in D[n] /\ D[n] \subseteq T
         /\ \A n \in T : \A d \in Links : f[n][d] # 0 => f[n][d] \in T /\ Under(f, D, n, d) = D[f[n][d]]
                                                          /\ f[n][d] \in Under(f, D, n, d)
         /\ \A n \in T : \A d \in Links : \A x \in T : f[n][d] = x => n = f[x].p
         /\ 0 \notin T
<1>1. 0 \notin T
  BY NodesAre DEF Shape, Joined, Below
<1>2. \A n \in T : n \in D[n] /\ D[n] \subseteq T
  BY DEF Shape, Joined, Below
<1>3. \A n \in T : \A d \in Links : Under(f, D, n, d) \subseteq D[n]
  BY DEF Shape, Joined, Below
<1>4. \A n \in T : \A d \in Links : f[n][d] # 0 => f[n][d] \in T /\ Under(f, D, n, d) = D[f[n][d]]
                                                    /\ f[n][d] \in Under(f, D, n, d)
  BY <1>2 DEF Shape, Joined, Below, Under
<1>5. \A n \in T : \A d \in Links : \A x \in T : f[n][d] = x => n = f[x].p
  BY <1>1 DEF Shape, Joined, Below
<1> QED  BY <1>1, <1>2, <1>3, <1>4, <1>5

\* The nodes below a node are fewer.
LEMMA BelowFewer ==
  ASSUME NEW f \in Graph, NEW T, NEW D, Shape(f, T, D)
  PROVE  /\ \A n \in T : IsFiniteSet(D[n]) /\ Cardinality(D[n]) \in Nat
         /\ \A n \in T : Cardinality(D[n]) <= MaxNodes + Chunk
         /\ \A n \in T : \A d \in Links : f[n][d] # 0 => Cardinality(D[f[n][d]]) < Cardinality(D[n])
<1>1. IsFiniteSet(Nodes) /\ Cardinality(Nodes) = MaxNodes + Chunk /\ MaxNodes + Chunk \in Nat
  BY FS_Interval, TreeAssumption DEF Nodes
<1>2. ASSUME NEW n \in T
      PROVE  IsFiniteSet(D[n]) /\ Cardinality(D[n]) \in Nat /\ Cardinality(D[n]) <= MaxNodes + Chunk
  <2>1. D[n] \in SUBSET Nodes
    BY DEF Shape, Joined, Below
  <2> QED  BY <1>1, <2>1, FS_Subset, FS_CardinalityType
<1>3. ASSUME NEW n \in T, NEW d \in Links, f[n][d] # 0
      PROVE  Cardinality(D[f[n][d]]) < Cardinality(D[n])
  <2> DEFINE m == f[n][d]
  <2>1. m \in T /\ D[m] \subseteq D[n] /\ n \in D[n] /\ n \notin D[m]
    BY <1>3, UnderIs DEF Shape, Below
  <2> HIDE DEF m
  <2>2. D[m] \in SUBSET D[n] /\ D[m] # D[n] /\ IsFiniteSet(D[n])
    BY <2>1, <1>2
  <2>3. Cardinality(D[m]) <= Cardinality(D[n]) /\ Cardinality(D[m]) # Cardinality(D[n])
    BY <2>2, FS_Subset
  <2>4. Cardinality(D[m]) < Cardinality(D[n])
    BY <1>2, <2>1, <2>3
  <2> QED  BY <2>4 DEF m
<1> QED  BY <1>2, <1>3

\* The parent of a node below another is not above that one.
LEMMA ParentBelow ==
  ASSUME NEW f \in Graph, NEW T, NEW D, Shape(f, T, D)
  PROVE  \A z \in T : \A v \in D[z] : v # z => f[v].p \in D[z]
<1> DEFINE Bad == {z \in T : \E v \in D[z] : v # z /\ f[v].p \notin D[z]}
           sizes == {Cardinality(D[z]) : z \in Bad}
<1>1. SUFFICES ASSUME Bad # {} PROVE FALSE
  OBVIOUS
<1>2. PICK k \in sizes : \A j \in sizes : k <= j
  <2>1. sizes \in SUBSET Nat /\ sizes # {}
    BY <1>1, BelowFewer
  <2> HIDE DEF sizes
  <2> QED  BY <2>1, Earliest
<1>3. PICK z \in Bad : \A y \in Bad : Cardinality(D[z]) <= Cardinality(D[y])
  BY <1>2
<1>4. PICK v \in D[z] : v # z /\ f[v].p \notin D[z]
  BY <1>3
<1>5. PICK d \in Links : v \in Under(f, D, z, d)
  BY <1>3, <1>4 DEF Shape, Below
<1> DEFINE y == f[z][d]
<1>6. y # 0 /\ y \in T /\ v \in D[y] /\ D[y] \subseteq D[z] /\ z \in D[z] /\ f[y].p = z
  <2>1. y # 0
    BY <1>5 DEF Under
  <2>2. f[y].p = z
    BY <2>1 DEF Shape, Joined
  <2> QED  BY <1>5, <2>1, <2>2, UnderIs
<1>7. y \in Bad
  BY <1>4, <1>6
<1>8. Cardinality(D[y]) < Cardinality(D[z]) /\ Cardinality(D[z]) <= Cardinality(D[y])
       /\ Cardinality(D[y]) \in Nat /\ Cardinality(D[z]) \in Nat
  BY <1>3, <1>6, <1>7, BelowFewer
<1> QED  BY <1>8

\* x, its child y on side d, the child c of y on the other side, and the parent
\* q of x, which are different nodes, before a rotation.
Turning(f, T, D, x, y, c, q, d, o) ==
  /\ d \in {"a", "l"} /\ o \in {"a", "l"} /\ o # d
  /\ x \in T /\ y \in T /\ y = f[x][d] /\ c = f[y][o] /\ q = f[x].p
  /\ y # x /\ c # x /\ c # y /\ f[y].p = x /\ (c # 0 => c \in T /\ f[c].p = y)
  /\ q # x /\ q # y /\ (q # 0 => q \in T /\ q # c /\ f[q].e # x)
  /\ \A k \in Links : f[x][k] # x /\ f[y][k] # y /\ (f[x][k] = y => k = d) /\ (f[y][k] = c /\ c # 0 => k = o)
  /\ \A z \in T : \A k \in Links : f[z][k] = x => z = q

\* What the nodes around a rotation are to each other, as x is not the next of a chain.
LEMMA Around ==
  ASSUME NEW f \in Graph, NEW T, NEW D, Shape(f, T, D), NEW x \in T, Plain(f, x),
         NEW d \in {"a", "l"}, NEW o \in {"a", "l"}, o # d, f[x][d] # 0,
         NEW y, y = f[x][d], NEW c, c = f[y][o], NEW q, q = f[x].p
  PROVE  Turning(f, T, D, x, y, c, q, d, o)
<1>1. d \in Links /\ o \in Links
  BY DEF Links
<1>2. y \in T /\ y \in Under(f, D, x, d) /\ Under(f, D, x, d) = D[y] /\ f[y].p = x
  <2>1. y \in T /\ y \in Under(f, D, x, d) /\ Under(f, D, x, d) = D[y]
    BY <1>1, UnderIs
  <2>2. f[y].p = x
    BY <1>1 DEF Shape, Joined
  <2> QED  BY <2>1, <2>2
<1>3. D[y] \subseteq D[x] /\ x \notin D[y] /\ y \in D[y] /\ y # x
  BY <1>1, <1>2, UnderIs DEF Shape, Below
<1>4. c # 0 => c \in T /\ c \in Under(f, D, y, o) /\ Under(f, D, y, o) \subseteq D[y] /\ y \notin Under(f, D, y, o)
  BY <1>1, <1>2, UnderIs DEF Shape, Below
<1>5. c # x /\ c # y /\ (c # 0 => f[c].p = y)
  BY <1>1, <1>2, <1>3, <1>4, UnderIs DEF Shape, Joined
<1>6. ASSUME q # 0 PROVE q \in T /\ q # x /\ q # y /\ q # c /\ f[q].e # x
  <2>1. q \in T
    BY <1>6 DEF Shape, Joined
  <2>2. PICK k \in Links : f[q][k] = x
    BY <1>6 DEF Shape, Joined
  <2>3. D[x] \subseteq Under(f, D, q, k) /\ q \notin Under(f, D, q, k)
    <3>1. f[q][k] # 0
      BY <2>2, UnderIs
    <3>2. Under(f, D, q, k) = D[x]
      BY <2>1, <2>2, <3>1, UnderIs
    <3> QED  BY <2>1, <3>2 DEF Shape, Below
  <2>4. x \in D[x] /\ y \in D[x] /\ (c # 0 => c \in D[x])
    BY <1>3, <1>4, UnderIs
  <2> QED  BY <1>6, <2>1, <2>3, <2>4 DEF Plain
<1>7. \A k \in Links : f[x][k] # x /\ f[y][k] # y /\ (f[x][k] = y => k = d) /\ (f[y][k] = c /\ c # 0 => k = o)
  <2>1. \A z \in T : \A k \in Links : f[z][k] # z
    BY UnderIs DEF Shape, Below
  <2>2. y # 0
    OBVIOUS
  <2> QED  BY <1>1, <1>2, <2>1, <2>2 DEF Shape, Joined
<1>8. \A z \in T : \A k \in Links : f[z][k] = x => z = q
  BY UnderIs
<1>9. q # x /\ q # y
  BY <1>2, <1>6, UnderIs
<1> QED  BY <1>2, <1>3, <1>4, <1>5, <1>6, <1>7, <1>8, <1>9 DEF Turning

\* What binary_tree_rotation does with x, its child y, the child c of y that
\* changes sides, and the parent q of x.
HasRotated(f, g, x, y, c, q, d, o) ==
  /\ g \in Graph
  /\ \A z \in Null : \A k \in Links :
       g[z][k] = IF z = x /\ k = d THEN c ELSE IF z = y /\ k = o THEN x
                 ELSE IF z = q /\ q # 0 /\ f[z][k] = x THEN y ELSE f[z][k]
  /\ \A z \in Null : g[z].p = IF z = x THEN y ELSE IF z = y THEN q
                              ELSE IF z = c /\ c # 0 THEN x ELSE f[z].p
  /\ \A z \in Null : g[z].hash = f[z].hash
  /\ \A z \in Null : z # x /\ z # y => g[z].count = f[z].count
  /\ g[x].count = Size(g, x) /\ g[y].count = Size(g, y)
  /\ \A z \in Null : z # x /\ z # y /\ (z = c => c = 0) /\ (z = q => q = 0) => g[z] = f[z]

\* The assignments of binary_tree_rotation, one after the other.
LEMMA RotatedIs ==
  ASSUME NEW f \in Graph, NEW x \in Nodes, NEW d \in {"a", "l"}, NEW o \in {"a", "l"}, o # d,
         NEW y \in Nodes, y = f[x][d], NEW c \in Null, c = f[y][o], NEW q \in Null, q = f[x].p,
         x # y, c # x, c # y, q # x, q # y, q # 0 => q # c,
         \A k \in Links : f[x][k] # x /\ f[y][k] # y /\ (f[x][k] = y => k = d),
         NEW g, g = Rotated(f, x, d)
  PROVE  HasRotated(f, g, x, y, c, q, d, o)
<1> DEFINE F1 == Set(f, c, "p", x)
           F2 == [F1 EXCEPT ![x][d] = c]
           F3 == [F2 EXCEPT ![x].p = y]
           F4 == [F3 EXCEPT ![y][o] = x]
           F5 == [F4 EXCEPT ![y].p = q]
           G == Relinked(F5, q, x, y)
           H == [G EXCEPT ![x].count = Size(G, x)]
<1>0. /\ x \in Null /\ y \in Null /\ x # 0 /\ y # 0
      /\ d \in Links /\ o \in Links /\ d # "p" /\ o # "p" /\ "p" \notin Links
  BY NodesAre DEF Null, Links
<1>1. /\ F1 \in Graph
      /\ \A z \in Null : \A k \in Links : F1[z][k] = f[z][k]
      /\ \A z \in Null : /\ F1[z].p = IF z = c /\ c # 0 THEN x ELSE f[z].p
                         /\ F1[z].count = f[z].count /\ F1[z].hash = f[z].hash
      /\ \A z \in Null : z # c \/ c = 0 => F1[z] = f[z]
  <2>1. HasParent(f, F1, c, x)
    BY <1>0, SetParent
  <2> QED  BY <2>1, Zenon DEF HasParent
<1> HIDE DEF F1
<1>2. /\ F2 \in Graph
      /\ \A z \in Null : \A k \in Links : F2[z][k] = IF z = x /\ k = d THEN c ELSE F1[z][k]
      /\ \A z \in Null : F2[z].p = F1[z].p /\ F2[z].count = F1[z].count /\ F2[z].hash = F1[z].hash
      /\ \A z \in Null \ {x} : F2[z] = F1[z]
  <2>1. PutLink(F1, F2, x, d, c)
    BY DEF PutLink
  <2> HIDE DEF F2
  <2>2. HasLink(F1, F2, x, d, c)
    BY <1>0, <1>1, <2>1, LinkPut
  <2> QED  BY <1>0, <2>2 DEF HasLink
<1> HIDE DEF F2
<1>3. /\ F3 \in Graph
      /\ \A z \in Null : \A k \in Links : F3[z][k] = F2[z][k]
      /\ \A z \in Null : /\ F3[z].p = IF z = x THEN y ELSE F2[z].p
                         /\ F3[z].count = F2[z].count /\ F3[z].hash = F2[z].hash
      /\ \A z \in Null \ {x} : F3[z] = F2[z]
  <2>1. PutLink(F2, F3, x, "p", y)
    BY DEF PutLink
  <2> HIDE DEF F3
  <2>2. HasLink(F2, F3, x, "p", y)
    BY <1>0, <1>2, <2>1, LinkPut
  <2> QED  BY <1>0, <2>2 DEF HasLink
<1> HIDE DEF F3
<1>4. /\ F4 \in Graph
      /\ \A z \in Null : \A k \in Links : F4[z][k] = IF z = y /\ k = o THEN x ELSE F3[z][k]
      /\ \A z \in Null : F4[z].p = F3[z].p /\ F4[z].count = F3[z].count /\ F4[z].hash = F3[z].hash
      /\ \A z \in Null \ {y} : F4[z] = F3[z]
  <2>1. PutLink(F3, F4, y, o, x)
    BY DEF PutLink
  <2> HIDE DEF F4
  <2>2. HasLink(F3, F4, y, o, x)
    BY <1>0, <1>3, <2>1, LinkPut
  <2> QED  BY <1>0, <2>2 DEF HasLink
<1> HIDE DEF F4
<1>5. /\ F5 \in Graph
      /\ \A z \in Null : \A k \in Links : F5[z][k] = F4[z][k]
      /\ \A z \in Null : /\ F5[z].p = IF z = y THEN q ELSE F4[z].p
                         /\ F5[z].count = F4[z].count /\ F5[z].hash = F4[z].hash
      /\ \A z \in Null \ {y} : F5[z] = F4[z]
  <2>1. PutLink(F4, F5, y, "p", q)
    BY DEF PutLink
  <2> HIDE DEF F5
  <2>2. HasLink(F4, F5, y, "p", q)
    BY <1>0, <1>4, <2>1, LinkPut
  <2> QED  BY <1>0, <2>2 DEF HasLink
<1>6. [F1 EXCEPT ![x][d] = c, ![x].p = y, ![y][o] = x, ![y].p = q] = F5
  BY DEF F2, F3, F4
<1> HIDE DEF F5
<1>7. /\ G \in Graph
      /\ \A z \in Null : \A k \in Links :
           G[z][k] = IF z = q /\ q # 0 /\ F5[z][k] = x THEN y ELSE F5[z][k]
      /\ \A z \in Null : G[z].p = F5[z].p /\ G[z].count = F5[z].count /\ G[z].hash = F5[z].hash
      /\ \A z \in Null : z # q \/ q = 0 => G[z] = F5[z]
  <2>1. HasRelinked(F5, G, q, x, y)
    BY <1>0, <1>5, RelinkedIs
  <2> QED  BY <1>0, <2>1 DEF HasRelinked
<1> HIDE DEF G
<1>8. Size(G, x) \in Int
  BY <1>0, <1>7, SizeInt
<1>9. /\ H \in Graph
      /\ \A z \in Null : \A k \in Links : H[z][k] = G[z][k]
      /\ \A z \in Null : /\ H[z].p = G[z].p /\ H[z].hash = G[z].hash
                         /\ H[z].count = IF z = x THEN Size(G, x) ELSE G[z].count
      /\ \A z \in Null \ {x} : H[z] = G[z]
  <2>1. PutCount(G, H, x, Size(G, x))
    BY DEF PutCount
  <2> HIDE DEF H
  <2>2. HasCount(G, H, x, Size(G, x))
    BY <1>0, <1>7, <1>8, <2>1, CountPut
  <2> QED  BY <1>0, <2>2 DEF HasCount
<1> HIDE DEF H
<1>10. Size(H, y) \in Int
  BY <1>0, <1>9, SizeInt
<1>11. g = [H EXCEPT ![y].count = Size(H, y)]
  <2>1. o = IF d = "a" THEN "l" ELSE "a"
    OBVIOUS
  <2> QED  BY <2>1, <1>6, Zenon DEF Rotated, G, H, F1
<1>12. /\ g \in Graph
       /\ \A z \in Null : \A k \in Links : g[z][k] = H[z][k]
       /\ \A z \in Null : /\ g[z].p = H[z].p /\ g[z].hash = H[z].hash
                          /\ g[z].count = IF z = y THEN Size(H, y) ELSE H[z].count
       /\ \A z \in Null \ {y} : g[z] = H[z]
  <2>1. PutCount(H, g, y, Size(H, y))
    BY <1>11 DEF PutCount
  <2>2. HasCount(H, g, y, Size(H, y))
    BY <1>0, <1>9, <1>10, <2>1, CountPut
  <2> QED  BY <1>0, <2>2 DEF HasCount
<1>13. /\ \A z \in Null : \A k \in Links : F5[z][k] = IF z = x /\ k = d THEN c ELSE IF z = y /\ k = o THEN x ELSE f[z][k]
       /\ \A z \in Null : F5[z].p = IF z = x THEN y ELSE IF z = y THEN q
                                     ELSE IF z = c /\ c # 0 THEN x ELSE f[z].p
       /\ \A z \in Null : F5[z].count = f[z].count /\ F5[z].hash = f[z].hash
       /\ \A z \in Null : z # x /\ z # y /\ (z = c => c = 0) => F5[z] = f[z]
  BY <1>0, <1>1, <1>2, <1>3, <1>4, <1>5
<1>14. /\ \A z \in Null : \A k \in Links :
              g[z][k] = IF z = x /\ k = d THEN c ELSE IF z = y /\ k = o THEN x
                        ELSE IF z = q /\ q # 0 /\ f[z][k] = x THEN y ELSE f[z][k]
       /\ \A z \in Null : \A k \in Links : g[z][k] = G[z][k]
  BY <1>0, <1>7, <1>9, <1>12, <1>13
<1>15. /\ \A z \in Null : g[z].p = IF z = x THEN y ELSE IF z = y THEN q
                                     ELSE IF z = c /\ c # 0 THEN x ELSE f[z].p
       /\ \A z \in Null : g[z].hash = f[z].hash
       /\ \A z \in Null : z # x /\ z # y => g[z].count = f[z].count
  BY <1>0, <1>7, <1>9, <1>12, <1>13
<1>16. g[x].count = Size(G, x) /\ g[y].count = Size(H, y)
  BY <1>0, <1>9, <1>12
<1>17. Size(G, x) = Size(g, x)
  <2>1. ASSUME NEW k \in Links
        PROVE  g[x][k] = G[x][k] /\ G[x][k] \in Null /\ G[x][k] # x /\ G[x][k] # y
    <3>1. g[x][k] = G[x][k] /\ G[x][k] \in Null
      BY <1>0, <1>7, <1>14, LinksAre
    <3>2. g[x][k] = IF k = d THEN c ELSE f[x][k]
      BY <1>0, <1>14
    <3>3. f[x][k] # x /\ (f[x][k] = y => k = d)
      OBVIOUS
    <3> QED  BY <3>1, <3>2, <3>3
  <2>2. ASSUME NEW k \in Links PROVE g[g[x][k]].count = G[G[x][k]].count
    <3>1. G[x][k] \in Null /\ G[x][k] # x /\ G[x][k] # y /\ g[x][k] = G[x][k]
      BY <2>1
    <3>2. H[G[x][k]] = G[G[x][k]]
      BY <3>1, <1>9
    <3>3. g[G[x][k]] = H[G[x][k]]
      BY <3>1, <1>12
    <3> QED  BY <3>1, <3>2, <3>3
  <2> QED  BY <2>2, <1>7, <1>12, <1>0, SizeSame
<1>18. Size(H, y) = Size(g, y)
  <2>1. \A k \in Links : g[y][k] = H[y][k] /\ H[y][k] \in Null /\ H[y][k] # y
    BY <1>0, <1>9, <1>14, LinksAre
  <2>2. \A k \in Links : g[g[y][k]].count = H[H[y][k]].count
    BY <2>1, <1>12, <1>0
  <2> QED  BY <2>2, <1>9, <1>12, <1>0, SizeSame, SMTT(30)
<1>19. \A z \in Null : z # x /\ z # y /\ (z = c => c = 0) /\ (z = q => q = 0) => g[z] = f[z]
  BY <1>7, <1>9, <1>12, <1>13
<1> QED  BY <1>12, <1>14, <1>15, <1>16, <1>17, <1>18, <1>19 DEF HasRotated

\* The links after a rotation.
LEMMA RotatedLinked ==
  ASSUME NEW f \in Graph, NEW g \in Graph, NEW T, NEW D, Shape(f, T, D), NEW x, NEW y, NEW c, NEW q, NEW d, NEW o,
         Turning(f, T, D, x, y, c, q, d, o), HasRotated(f, g, x, y, c, q, d, o)
  PROVE  Joined(g, T)
<1>0. /\ T \subseteq Null /\ T \subseteq Nodes /\ 0 \notin T /\ x # 0 /\ y # 0
      /\ d \in Links /\ o \in Links /\ \A k \in Links : k # "p"
      /\ x \in T /\ y \in T /\ x # y /\ q # x /\ q # y /\ c # x /\ c # y
  BY NodesAre DEF Shape, Joined, Null, Links, Turning
<1>1. \A z \in T : \A k \in Links :
        g[z][k] = IF z = x /\ k = d THEN c ELSE IF z = y /\ k = o THEN x
                  ELSE IF f[z][k] = x THEN y ELSE f[z][k]
  BY <1>0 DEF HasRotated, Turning
<1>2. \A z \in T : g[z].p = IF z = x THEN y ELSE IF z = y THEN q
                            ELSE IF z = c THEN x ELSE f[z].p
  BY <1>0 DEF HasRotated
<1>3. /\ \A z \in T : \A k \in Links : f[z][k] \in T \cup {0} /\ (f[z][k] # 0 => f[f[z][k]].p = z)
      /\ \A z \in T : f[z].p \in T \cup {0} /\ (f[z].p # 0 => \E k \in Links : f[f[z].p][k] = z)
  BY DEF Shape, Joined
<1>4. /\ y = f[x][d] /\ c = f[y][o] /\ q = f[x].p
      /\ f[y].p = x /\ (c # 0 => c \in T /\ f[c].p = y)
      /\ (q # 0 => q \in T /\ q # c /\ f[q].e # x)
      /\ \A k \in Links : f[x][k] # x /\ f[y][k] # y /\ (f[x][k] = y => k = d) /\ (f[y][k] = c /\ c # 0 => k = o)
      /\ \A z \in T : \A k \in Links : f[z][k] = x => z = q
  BY DEF Turning
<1>5. ASSUME NEW z \in T, NEW k \in Links
      PROVE  g[z][k] \in T \cup {0} /\ (g[z][k] # 0 => g[g[z][k]].p = z)
  BY <1>0, <1>1, <1>2, <1>3, <1>4
<1>6. ASSUME NEW z \in T
      PROVE  g[z].p \in T \cup {0} /\ (g[z].p # 0 => \E k \in Links : g[g[z].p][k] = z)
  BY <1>0, <1>1, <1>2, <1>3, <1>4, SMTT(30)
<1>7. ASSUME NEW z \in T, NEW j \in Links, NEW k \in Links, g[z][j] = g[z][k], g[z][j] # 0
      PROVE  j = k
  <2>1. f[z][j] = f[z][k] /\ f[z][j] # 0 => j = k
    BY DEF Shape, Joined
  <2> QED  BY <1>0, <1>1, <1>3, <1>4, <1>7, <2>1
<1>8. ASSUME NEW z \in T, g[z].e # 0
      PROVE  g[g[z].e].a = 0 /\ g[g[z].e].l = 0
  <2>1. "e" \in Links /\ "a" \in Links /\ "l" \in Links /\ d \in {"a", "l"} /\ o \in {"a", "l"}
    BY LinksAre DEF Turning
  <2>2. g[z]["e"] = f[z]["e"] /\ f[z]["e"] \in T
    BY <1>0, <1>1, <1>3, <1>4, <1>8, <2>1
  <2> DEFINE v == f[z]["e"]
  <2>3. f[v]["a"] = 0 /\ f[v]["l"] = 0
    BY <1>8, <2>2 DEF Shape, Joined
  <2>4. v # x /\ v # y /\ v \in T
    BY <1>0, <1>3, <1>4, <2>1, <2>2, <2>3
  <2> HIDE DEF v
  <2>5. g[v]["a"] = 0 /\ g[v]["l"] = 0
    BY <1>0, <1>1, <2>1, <2>2, <2>3, <2>4
  <2> QED  BY <2>2, <2>5 DEF v
<1> QED  BY <1>0, <1>5, <1>6, <1>7, <1>8 DEF Joined

\* The nodes from each node down, after a rotation.
Turned(f, T, D, x, y, c, d) ==
  [z \in T |-> IF z = y THEN D[x]
               ELSE IF z = x THEN {x} \cup (IF c = 0 THEN {} ELSE D[c])
                                     \cup UNION {Under(f, D, x, k) : k \in Links \ {d}}
               ELSE D[z]]

\* What is under each node after a rotation.
LEMMA TurnedUnder ==
  ASSUME NEW f \in Graph, NEW g \in Graph, NEW T, NEW D, Shape(f, T, D), NEW x, NEW y, NEW c, NEW q, NEW d, NEW o,
         Turning(f, T, D, x, y, c, q, d, o), HasRotated(f, g, x, y, c, q, d, o),
         NEW E, E = Turned(f, T, D, x, y, c, d)
  PROVE  /\ \A z \in T \ {x, y} : \A k \in Links : Under(g, E, z, k) = Under(f, D, z, k)
         /\ \A z \in T \ {x, y} : E[z] = D[z]
         /\ E[y] = D[x] /\ Under(g, E, y, o) = E[x]
         /\ E[x] = {x} \cup (IF c = 0 THEN {} ELSE D[c]) \cup UNION {Under(f, D, x, k) : k \in Links \ {d}}
         /\ Under(g, E, x, d) = IF c = 0 THEN {} ELSE D[c]
         /\ \A k \in Links \ {d} : Under(g, E, x, k) = Under(f, D, x, k)
         /\ \A k \in Links \ {o} : Under(g, E, y, k) = Under(f, D, y, k)
<1>0. /\ T \subseteq Null /\ T \subseteq Nodes /\ 0 \notin T /\ x # 0 /\ y # 0
      /\ d \in Links /\ o \in Links
      /\ x \in T /\ y \in T /\ x # y /\ q # x /\ q # y /\ c # x /\ c # y
  BY NodesAre DEF Shape, Joined, Null, Links, Turning
<1>1. \A z \in T : \A k \in Links :
        g[z][k] = IF z = x /\ k = d THEN c ELSE IF z = y /\ k = o THEN x
                  ELSE IF f[z][k] = x THEN y ELSE f[z][k]
  BY <1>0 DEF HasRotated, Turning
<1>3. \A z \in T : \A k \in Links : f[z][k] \in T \cup {0} /\ (f[z][k] # 0 => f[f[z][k]].p = z)
  BY DEF Shape, Joined
<1>4. /\ y = f[x][d] /\ c = f[y][o] /\ q = f[x].p
      /\ f[y].p = x /\ (c # 0 => c \in T /\ f[c].p = y)
      /\ \A k \in Links : f[x][k] # x /\ f[y][k] # y /\ (f[x][k] = y => k = d) /\ (f[y][k] = c /\ c # 0 => k = o)
      /\ \A z \in T : \A k \in Links : f[z][k] = x => z = q
  BY DEF Turning
<1>5. /\ \A z \in T \ {x, y} : E[z] = D[z]
      /\ E[y] = D[x]
      /\ E[x] = {x} \cup (IF c = 0 THEN {} ELSE D[c]) \cup UNION {Under(f, D, x, k) : k \in Links \ {d}}
  BY <1>0 DEF Turned
<1>6. ASSUME NEW z \in T \ {x, y}, NEW k \in Links PROVE Under(g, E, z, k) = Under(f, D, z, k)
  <2>1. CASE f[z][k] = x
    BY <2>1, <1>0, <1>1, <1>5 DEF Under
  <2>2. CASE f[z][k] # x
    <3>1. g[z][k] = f[z][k] /\ f[z][k] \in T \cup {0} /\ f[z][k] # x /\ f[z][k] # y
      BY <2>2, <1>0, <1>1, <1>3, <1>4
    <3>2. f[z][k] # 0 => E[f[z][k]] = D[f[z][k]]
      BY <3>1, <1>5
    <3> QED  BY <3>1, <3>2 DEF Under
  <2> QED  BY <2>1, <2>2
<1>7. Under(g, E, y, o) = E[x]
  BY <1>0, <1>1 DEF Under
<1>8. Under(g, E, x, d) = IF c = 0 THEN {} ELSE D[c]
  <2>1. g[x][d] = c
    BY <1>0, <1>1
  <2>2. c # 0 => E[c] = D[c]
    BY <1>0, <1>4, <1>5, Zenon
  <2> QED  BY <2>1, <2>2 DEF Under
<1>9. ASSUME NEW k \in Links \ {d} PROVE Under(g, E, x, k) = Under(f, D, x, k)
  <2>1. g[x][k] = f[x][k] /\ f[x][k] \in T \cup {0} /\ f[x][k] # x /\ f[x][k] # y
    BY <1>0, <1>1, <1>3, <1>4
  <2> QED  BY <2>1, <1>5 DEF Under
<1>10. ASSUME NEW k \in Links \ {o} PROVE Under(g, E, y, k) = Under(f, D, y, k)
  <2>1. g[y][k] = f[y][k] /\ f[y][k] \in T \cup {0} /\ f[y][k] # x /\ f[y][k] # y
    BY <1>0, <1>1, <1>3, <1>4
  <2> QED  BY <2>1, <1>5 DEF Under
<1> QED  BY <1>5, <1>6, <1>7, <1>8, <1>9, <1>10

\* After a rotation hashes are still on the sides they belong to.
LEMMA RotatedBelow ==
  ASSUME NEW f \in Graph, NEW g \in Graph, NEW T, NEW D, Shape(f, T, D), NEW x, NEW y, NEW c, NEW q, NEW d, NEW o,
         Turning(f, T, D, x, y, c, q, d, o), HasRotated(f, g, x, y, c, q, d, o),
         NEW E, E = Turned(f, T, D, x, y, c, d)
  PROVE  Below(g, T, E)
<1>0. /\ T \subseteq Null /\ T \subseteq Nodes /\ 0 \notin T /\ x # 0 /\ y # 0
      /\ d \in Links /\ o \in Links /\ d # o /\ d \in {"a", "l"} /\ o \in {"a", "l"}
      /\ x \in T /\ y \in T /\ x # y /\ q # x /\ q # y /\ c # x /\ c # y
  BY NodesAre DEF Shape, Joined, Null, Links, Turning
<1>1. /\ \A z \in T \ {x, y} : \A k \in Links : Under(g, E, z, k) = Under(f, D, z, k)
      /\ \A z \in T \ {x, y} : E[z] = D[z]
  BY TurnedUnder
<1>2. /\ E[y] = D[x] /\ Under(g, E, y, o) = E[x]
      /\ E[x] = {x} \cup (IF c = 0 THEN {} ELSE D[c]) \cup UNION {Under(f, D, x, k) : k \in Links \ {d}}
      /\ Under(g, E, x, d) = IF c = 0 THEN {} ELSE D[c]
      /\ \A k \in Links \ {d} : Under(g, E, x, k) = Under(f, D, x, k)
      /\ \A k \in Links \ {o} : Under(g, E, y, k) = Under(f, D, y, k)
  BY TurnedUnder
<1>3. /\ \A n \in T : \A m : m \in D[n] <=> m = n \/ \E k \in Links : m \in Under(f, D, n, k)
      /\ \A n \in T : \A k \in Links : n \notin Under(f, D, n, k)
      /\ \A n \in T : \A k \in Links : \A m \in Under(f, D, n, k) : Sided(f, n, k, f[m].hash)
      /\ \A n \in T : D[n] \subseteq T
  BY DEF Shape, Below
<1>4. Under(f, D, x, d) = D[y] /\ y \in D[y] /\ Under(f, D, y, o) = IF c = 0 THEN {} ELSE D[c]
  BY <1>0, <1>3 DEF Under, Turning
<1>5. \A n \in T : \A k \in Links : Under(f, D, n, k) \subseteq T
  BY UnderIs
<1>6. /\ \A n \in T : f[n].hash \in Int /\ g[n].hash = f[n].hash
  BY <1>0 DEF Graph, NodeRec, HasRotated
<1>7. \A m : m \in E[x] <=> m = x \/ m \in Under(f, D, y, o) \/ \E k \in Links \ {d} : m \in Under(f, D, x, k)
  BY <1>2, <1>4
<1>8. E \in [T -> SUBSET T]
  <2>1. E[x] \subseteq T
    BY <1>0, <1>5, <1>7
  <2>2. \A z \in T : E[z] \subseteq T
    BY <1>0, <1>1, <1>2, <1>3, <2>1
  <2> QED  BY <2>2 DEF Turned
<1>9. ASSUME NEW m PROVE m \in E[x] <=> m = x \/ \E k \in Links : m \in Under(g, E, x, k)
  BY <1>0, <1>2, <1>4, <1>7
<1>10. ASSUME NEW m PROVE m \in E[y] <=> m = y \/ \E k \in Links : m \in Under(g, E, y, k)
  <2>1. m \in D[x] <=> m = x \/ m \in D[y] \/ \E k \in Links \ {d} : m \in Under(f, D, x, k)
    BY <1>0, <1>3, <1>4
  <2>2. m \in D[y] <=> m = y \/ m \in Under(f, D, y, o) \/ \E k \in Links \ {o} : m \in Under(f, D, y, k)
    BY <1>0, <1>3, <1>4
  <2>3. (\E k \in Links : m \in Under(g, E, y, k)) <=> m \in E[x] \/ \E k \in Links \ {o} : m \in Under(f, D, y, k)
    BY <1>0, <1>2
  <2> QED  BY <1>2, <1>7, <2>1, <2>2, <2>3
<1>11. /\ \A k \in Links \ {d} : y \notin Under(f, D, x, k)
       /\ y \notin E[x]
  <2>1. ASSUME NEW k \in Links \ {d}, y \in Under(f, D, x, k) PROVE FALSE
    <3>1. Sided(f, x, k, f[y].hash) /\ Sided(f, x, d, f[y].hash)
      BY <1>0, <1>3, <1>4, <2>1
    <3>2. f[x].hash \in Int /\ f[y].hash \in Int
      BY <1>0, <1>6
    <3> QED  BY <1>0, <2>1, <3>1, <3>2 DEF Sided, Links
  <2> QED  BY <1>0, <1>3, <1>7, <2>1
<1>12. \A k \in Links : x \notin Under(g, E, x, k)
  BY <1>0, <1>2, <1>3, <1>4, UnderIs
<1>13. \A k \in Links : y \notin Under(g, E, y, k)
  BY <1>0, <1>2, <1>3, <1>11
<1>14. ASSUME NEW k \in Links, NEW m \in Under(g, E, x, k) PROVE Sided(g, x, k, g[m].hash)
  <2>1. m \in Under(f, D, x, k)
    BY <1>0, <1>2, <1>4, UnderIs
  <2>2. Sided(f, x, k, f[m].hash) /\ m \in T
    BY <1>0, <1>3, <1>5, <2>1
  <2> QED  BY <1>0, <1>6, <2>2 DEF Sided
<1>15. ASSUME NEW m \in E[x] PROVE Sided(f, y, o, f[m].hash) /\ m \in T
  <2>1. Sided(f, x, d, f[y].hash) /\ f[x].hash \in Int /\ f[y].hash \in Int /\ m \in T /\ f[m].hash \in Int
    BY <1>0, <1>3, <1>4, <1>6, <1>8
  <2>2. CASE m = x
    BY <1>0, <2>1, <2>2 DEF Sided
  <2>3. CASE m \in Under(f, D, y, o)
    BY <1>0, <1>3, <2>1, <2>3
  <2>4. ASSUME NEW k \in Links \ {d}, m \in Under(f, D, x, k) PROVE Sided(f, y, o, f[m].hash)
    <3>1. Sided(f, x, k, f[m].hash) /\ (k = o \/ k = "e")
      BY <1>0, <1>3, <2>4 DEF Links
    <3> QED  BY <1>0, <2>1, <3>1 DEF Sided
  <2> QED  BY <1>7, <2>1, <2>2, <2>3, <2>4
<1>16. ASSUME NEW k \in Links, NEW m \in Under(g, E, y, k) PROVE Sided(g, y, k, g[m].hash)
  <2>1. CASE k = o
    BY <1>0, <1>2, <1>6, <1>15, <2>1 DEF Sided
  <2>2. CASE k # o
    <3>1. Sided(f, y, k, f[m].hash) /\ m \in T
      BY <1>0, <1>2, <1>3, <1>5, <2>2
    <3> QED  BY <1>0, <1>6, <3>1 DEF Sided
  <2> QED  BY <2>1, <2>2
<1>17. ASSUME NEW z \in T, NEW k \in Links, NEW m \in Under(g, E, z, k) PROVE Sided(g, z, k, g[m].hash)
  <2>1. CASE z \notin {x, y}
    <3>1. Sided(f, z, k, f[m].hash) /\ m \in T
      BY <1>1, <1>3, <1>5, <2>1
    <3> QED  BY <1>6, <3>1 DEF Sided
  <2> QED  BY <1>14, <1>16, <2>1
<1>18. \A z \in T : \A m : m \in E[z] <=> m = z \/ \E k \in Links : m \in Under(g, E, z, k)
  <2>1. ASSUME NEW z \in T, z # x, z # y, NEW m PROVE m \in E[z] <=> m = z \/ \E k \in Links : m \in Under(g, E, z, k)
    BY <1>1, <1>3, <2>1
  <2> QED  BY <1>9, <1>10, <2>1
<1>19. \A z \in T : \A k \in Links : z \notin Under(g, E, z, k)
  BY <1>1, <1>3, <1>12, <1>13
<1> QED  BY <1>8, <1>17, <1>18, <1>19 DEF Below

\* A rotation keeps the shape; the child is in the place of the node.
LEMMA RotatedShape ==
  ASSUME NEW f \in Graph, NEW g \in Graph, NEW T, NEW D, Shape(f, T, D), NEW x, NEW y, NEW c, NEW q, NEW d, NEW o,
         Turning(f, T, D, x, y, c, q, d, o), HasRotated(f, g, x, y, c, q, d, o)
  PROVE  \E E : /\ Shape(g, T, E)
                /\ \A r : Top(f, T, D, r) => Top(g, T, E, IF r = x THEN y ELSE r)
                /\ \A h : Path(f, T, D, x, h) => Path(g, T, E, y, h)
<1> DEFINE E == Turned(f, T, D, x, y, c, d)
<1>1. Shape(g, T, E)
  BY RotatedLinked, RotatedBelow DEF Shape
<1>2. /\ \A z \in T \ {x, y} : \A k \in Links : Under(g, E, z, k) = Under(f, D, z, k)
      /\ \A z \in T \ {x, y} : E[z] = D[z]
      /\ E[y] = D[x]
  BY TurnedUnder
<1> HIDE DEF E
<1>3. /\ T \subseteq Null /\ T # {} /\ 0 \notin T /\ x # 0 /\ y # 0
      /\ x \in T /\ y \in T /\ x # y /\ q = f[x].p /\ f[y].p = x /\ (c # 0 => f[c].p = y)
  BY NodesAre DEF Shape, Joined, Null, Turning
<1>4. \A z \in T : g[z].p = IF z = x THEN y ELSE IF z = y THEN q
                            ELSE IF z = c THEN x ELSE f[z].p
  BY <1>3 DEF HasRotated
<1>5. ASSUME NEW r, Top(f, T, D, r) PROVE Top(g, T, E, IF r = x THEN y ELSE r)
  <2>1. r \in T /\ f[r].p = 0 /\ D[r] = T /\ \A n \in T : f[n].p = 0 => n = r
    BY <1>3, <1>5 DEF Top
  <2>2. CASE r = x
    BY <1>2, <1>3, <1>4, <2>1, <2>2 DEF Top
  <2>3. CASE r # x
    BY <1>2, <1>3, <1>4, <2>1, <2>3 DEF Top
  <2> QED  BY <2>2, <2>3
<1>6. ASSUME NEW h, Path(f, T, D, x, h) PROVE Path(g, T, E, y, h)
  <2>1. ASSUME NEW z \in T, NEW k \in Links, y \in Under(g, E, z, k)
        PROVE  k # "e" /\ Sided(g, z, k, h)
    <3>1. z # y
      BY <1>1, <2>1 DEF Shape, Below
    <3>2. z # x
      <4>1. ASSUME z = x PROVE FALSE
        <5>1. E[x] \subseteq T /\ y \in E[x]
          BY <1>1, <2>1, <4>1, UnderIs
        <5>2. Under(g, E, y, o) = E[x] /\ o \in Links
          BY TurnedUnder, SMTT(30) DEF E, Turning, Links
        <5> QED  BY <1>1, <1>3, <5>1, <5>2 DEF Shape, Below
      <4> QED  BY <4>1
    <3>3. y \in Under(f, D, z, k)
      BY <1>2, <2>1, <3>1, <3>2
    <3>4. x \in Under(f, D, z, k)
      <4> DEFINE w == f[z][k]
      <4>1. w \in T /\ y \in D[w] /\ Under(f, D, z, k) = D[w] /\ f[w].p = z
        <5>1. w # 0
          BY <3>3 DEF Under
        <5>2. f[w].p = z
          BY <5>1 DEF Shape, Joined
        <5> QED  BY <3>3, <5>1, <5>2, UnderIs
      <4> HIDE DEF w
      <4>2. y # w
        BY <1>3, <3>2, <4>1
      <4> QED  BY <1>3, <4>1, <4>2, ParentBelow
    <3>5. k # "e" /\ Sided(f, z, k, h)
      BY <1>6, <3>4 DEF Path
    <3>6. g[z].hash = f[z].hash
      BY <1>3 DEF HasRotated
    <3> QED  BY <3>5, <3>6 DEF Sided
  <2> QED  BY <2>1 DEF Path
<1> QED  BY <1>1, <1>5, <1>6

\* Each node counts itself and all below it, those of X one more.
Counted(f, T, X) ==
  /\ f[0].count = 0
  /\ \A n \in T : f[n].count \in Nat \ {0} /\ f[n].count = Size(f, n) + IF n \in X THEN 1 ELSE 0

\* A rotation counts x and y anew, and y counts what x did.
LEMMA RotatedCounts ==
  ASSUME NEW f \in Graph, NEW g \in Graph, NEW T, NEW D, Shape(f, T, D), NEW x, NEW y, NEW c, NEW q, NEW d, NEW o,
         Turning(f, T, D, x, y, c, q, d, o), HasRotated(f, g, x, y, c, q, d, o),
         NEW X, Counted(f, T, X), x \notin X, y \notin X
  PROVE  Counted(g, T, X) /\ g[y].count = f[x].count
<1>0. /\ T \subseteq Null /\ T \subseteq Nodes /\ 0 \notin T /\ 0 \in Null /\ x # 0 /\ y # 0
      /\ x \in T /\ y \in T /\ x # y /\ c # x /\ c # y /\ q # x /\ q # y
      /\ "e" \in Links /\ "a" \in Links /\ "l" \in Links
      /\ (d = "a" /\ o = "l") \/ (d = "l" /\ o = "a")
  BY NodesAre DEF Shape, Joined, Null, Turning, Links
<1>1. \A z \in T : \A k \in Links :
        g[z][k] = IF z = x /\ k = d THEN c ELSE IF z = y /\ k = o THEN x
                  ELSE IF f[z][k] = x THEN y ELSE f[z][k]
  BY <1>0 DEF HasRotated, Turning
<1>2. \A z \in T : \A k \in Links : f[z][k] \in T \cup {0} /\ (f[z][k] # 0 => f[f[z][k]].p = z)
  BY DEF Shape, Joined
<1>3. /\ y = f[x][d] /\ c = f[y][o] /\ f[y].p = x /\ q = f[x].p
      /\ (c # 0 => c \in T)
      /\ \A k \in Links : f[x][k] # x /\ f[y][k] # y /\ (f[x][k] = y => k = d) /\ (f[y][k] = c /\ c # 0 => k = o)
      /\ \A z \in T : \A k \in Links : f[z][k] = x => z = q
  BY DEF Turning
<1>4. /\ \A z \in T \cup {0} : z # x /\ z # y => g[z].count = f[z].count
      /\ g[x].count = Size(g, x) /\ g[y].count = Size(g, y)
  BY <1>0 DEF HasRotated
<1>5. /\ \A z \in T : f[z].count \in Nat \ {0} /\ f[z].count = Size(f, z) + IF z \in X THEN 1 ELSE 0
      /\ f[0].count = 0 /\ f[x].count = Size(f, x) /\ f[y].count = Size(f, y)
      /\ f[x].count \in Nat \ {0} /\ f[y].count \in Nat \ {0}
  <2>1. /\ \A z \in T : f[z].count \in Nat \ {0} /\ f[z].count = Size(f, z) + IF z \in X THEN 1 ELSE 0
        /\ f[0].count = 0
    BY DEF Counted
  <2>2. f[x].count = Size(f, x) + 0 /\ f[y].count = Size(f, y) + 0
    BY <1>0, <2>1
  <2>3. Size(f, x) \in Int /\ Size(f, y) \in Int
    BY <1>0, SizeInt
  <2>4. f[x].count \in Nat \ {0} /\ f[y].count \in Nat \ {0}
    BY <1>0, <2>1
  <2> QED  BY <2>1, <2>2, <2>3, <2>4
<1>6. \A z \in T : /\ Size(f, z) = 1 + f[f[z].e].count + f[f[z].a].count + f[f[z].l].count
                   /\ Size(g, z) = 1 + g[g[z].e].count + g[g[z].a].count + g[g[z].l].count
  BY <1>0, SizeInt
<1>6a. /\ f[x].count = 1 + f[f[x].e].count + f[f[x].a].count + f[f[x].l].count
       /\ f[y].count = 1 + f[f[y].e].count + f[f[y].a].count + f[f[y].l].count
       /\ g[x].count = 1 + g[g[x].e].count + g[g[x].a].count + g[g[x].l].count
       /\ g[y].count = 1 + g[g[y].e].count + g[g[y].a].count + g[g[y].l].count
  BY <1>0, <1>4, <1>5, <1>6
<1>7. \A z \in T : \A k \in Links : f[f[z][k]].count \in Nat
  BY <1>2, <1>5
<1>8. /\ \A k \in Links : k # d => g[g[x][k]].count = f[f[x][k]].count
      /\ g[g[x][d]].count = f[c].count
      /\ \A k \in Links : k # o => g[g[y][k]].count = f[f[y][k]].count
      /\ g[y][o] = x /\ f[c].count \in Nat
  <2>1. \A k \in Links : k # d => g[x][k] = f[x][k] /\ f[x][k] \in T \cup {0} /\ f[x][k] # x /\ f[x][k] # y
    BY <1>0, <1>1, <1>2, <1>3
  <2>2. \A k \in Links : k # o => g[y][k] = f[y][k] /\ f[y][k] \in T \cup {0} /\ f[y][k] # x /\ f[y][k] # y
    BY <1>0, <1>1, <1>2, <1>3
  <2>3. g[x][d] = c /\ g[y][o] = x /\ c \in T \cup {0}
    BY <1>0, <1>1, <1>3
  <2> QED  BY <1>0, <1>4, <1>5, <2>1, <2>2, <2>3
<1>9. g[x].count = f[x].count - f[y].count + f[c].count /\ g[y].count = f[x].count /\ g[x].count \in Nat \ {0}
  <2>1. CASE d = "a" /\ o = "l"
    <3>1. /\ g[g[x].e].count = f[f[x].e].count /\ g[g[x].l].count = f[f[x].l].count
          /\ g[g[x].a].count = f[c].count /\ f[x].a = y
          /\ g[g[y].e].count = f[f[y].e].count /\ g[g[y].a].count = f[f[y].a].count
          /\ g[y].l = x /\ f[y].l = c
      BY <2>1, <1>0, <1>3, <1>8, Zenon
    <3>2. /\ f[f[x].e].count \in Nat /\ f[f[x].l].count \in Nat /\ f[c].count \in Nat
          /\ f[f[y].e].count \in Nat /\ f[f[y].a].count \in Nat
      BY <1>0, <1>7, <1>8
    <3>3. /\ f[x].count = 1 + f[f[x].e].count + f[y].count + f[f[x].l].count
          /\ f[y].count = 1 + f[f[y].e].count + f[f[y].a].count + f[c].count
      BY <1>6a, <3>1, <3>2
    <3>4. /\ g[x].count = 1 + f[f[x].e].count + f[c].count + f[f[x].l].count
          /\ g[y].count = 1 + f[f[y].e].count + f[f[y].a].count + g[x].count
      BY <1>6a, <3>1, <3>2
    <3>5. f[y].count # 0 /\ f[y].count >= f[c].count
      BY <3>2, <3>3
    <3> QED  BY <3>2, <3>3, <3>4, <3>5
  <2>2. CASE d = "l" /\ o = "a"
    <3>1. /\ g[g[x].e].count = f[f[x].e].count /\ g[g[x].a].count = f[f[x].a].count
          /\ g[g[x].l].count = f[c].count /\ f[x].l = y
          /\ g[g[y].e].count = f[f[y].e].count /\ g[g[y].l].count = f[f[y].l].count
          /\ g[y].a = x /\ f[y].a = c
      BY <2>2, <1>0, <1>3, <1>8, Zenon
    <3>2. /\ f[f[x].e].count \in Nat /\ f[f[x].a].count \in Nat /\ f[c].count \in Nat
          /\ f[f[y].e].count \in Nat /\ f[f[y].l].count \in Nat
      BY <1>0, <1>7, <1>8
    <3>3. /\ f[x].count = 1 + f[f[x].e].count + f[y].count + f[f[x].a].count
          /\ f[y].count = 1 + f[f[y].e].count + f[f[y].l].count + f[c].count
      BY <1>6a, <3>1, <3>2
    <3>4. /\ g[x].count = 1 + f[f[x].e].count + f[c].count + f[f[x].a].count
          /\ g[y].count = 1 + f[f[y].e].count + f[f[y].l].count + g[x].count
      BY <1>6a, <3>1, <3>2
    <3>5. f[y].count # 0 /\ f[y].count >= f[c].count
      BY <3>2, <3>3
    <3> QED  BY <3>2, <3>3, <3>4, <3>5, SMTT(30)
  <2> QED  BY <1>0, <2>1, <2>2
<1>10. ASSUME NEW z \in T, z # x, z # y
       PROVE  g[z].count = f[z].count /\ Size(g, z) = Size(f, z)
  <2>1. ASSUME NEW k \in Links PROVE g[g[z][k]].count = f[f[z][k]].count
    <3>1. CASE f[z][k] = x
      BY <1>0, <1>1, <1>9, <1>10, <3>1
    <3>2. CASE f[z][k] # x
      <4>1. g[z][k] = f[z][k] /\ f[z][k] # y /\ f[z][k] \in T \cup {0}
        BY <1>0, <1>1, <1>2, <1>3, <1>10, <3>2
      <4> QED  BY <1>4, <3>2, <4>1
    <3> QED  BY <3>1, <3>2
  <2> QED  BY <1>0, <1>4, <1>10, <2>1, SizeSame
<1>11. ASSUME NEW z \in T
       PROVE  g[z].count \in Nat \ {0} /\ g[z].count = Size(g, z) + IF z \in X THEN 1 ELSE 0
  <2>1. CASE z = x \/ z = y
    <3>1. Size(g, z) \in Int
      BY <1>0, SizeInt
    <3>2. z \notin X /\ g[z].count = Size(g, z)
      BY <1>4, <2>1
    <3>3. g[z].count \in Nat \ {0}
      BY <1>5, <1>9, <2>1
    <3> QED  BY <3>1, <3>2, <3>3
  <2>2. CASE z # x /\ z # y
    BY <1>5, <1>10, <2>2
  <2> QED  BY <2>1, <2>2
<1>12. g[0].count = 0
  BY <1>0, <1>4, <1>5
<1> QED  BY <1>9, <1>11, <1>12 DEF Counted

\* Once v counts one more, its parent does no longer; and once v counts one
\* less, its parent counts one too many.
LEMMA CountedMore ==
  ASSUME NEW f \in Graph, NEW g, NEW T, NEW D, Shape(f, T, D), NEW v \in T,
         Counted(f, T, {f[v].p}), PutCount(f, g, v, f[v].count + 1)
  PROVE  Counted(g, T, {v}) /\ g \in Graph
<1>0. T \subseteq Null /\ 0 \notin T /\ 0 \in Null /\ v # 0 /\ v \in Null
  BY NodesAre DEF Shape, Joined, Null
<1>1. f[v].count + 1 \in Int
  BY DEF Counted
<1>2. HasCount(f, g, v, f[v].count + 1)
  BY <1>0, <1>1, CountPut
<1>3. /\ g \in Graph /\ \A z \in T : \A k \in Links : g[z][k] = f[z][k]
      /\ \A z \in T \cup {0} : g[z].count = IF z = v THEN f[v].count + 1 ELSE f[z].count
  BY <1>0, <1>2 DEF HasCount
<1>4. /\ \A n \in T : \A k \in Links : f[n][k] \in T \cup {0} /\ (f[n][k] = v => n = f[v].p)
      /\ f[v].p # v
      /\ \A n \in T : \A j, k \in Links : f[n][j] = f[n][k] /\ f[n][j] # 0 => j = k
      /\ f[v].p # 0 => f[v].p \in T /\ \E k \in Links : f[f[v].p][k] = v
  <2>1. f[v].p # v
    BY <1>0, UnderIs DEF Shape, Joined, Below
  <2> QED  BY <2>1, <1>0 DEF Shape, Joined
<1>5. /\ \A z \in T : f[z].count \in Nat \ {0} /\ f[z].count = Size(f, z) + IF z \in {f[v].p} THEN 1 ELSE 0
      /\ f[0].count = 0
  BY DEF Counted
<1>6. ASSUME NEW z \in T, z # f[v].p PROVE Size(g, z) = Size(f, z)
  <2>1. \A k \in Links : g[g[z][k]].count = f[f[z][k]].count
    BY <1>0, <1>3, <1>4, <1>6
  <2> QED  BY <1>0, <1>3, <2>1, SizeSame
<1>7. ASSUME NEW z \in T, z = f[v].p PROVE Size(g, z) = Size(f, z) + 1
  <2>1. PICK k \in Links : f[z][k] = v /\ \A j \in Links : j # k => f[z][j] # v
    BY <1>0, <1>4, <1>7
  <2>2. \A j \in Links : g[g[z][j]].count = IF j = k THEN f[f[z][j]].count + 1 ELSE f[f[z][j]].count
    BY <1>0, <1>3, <1>4, <2>1
  <2>3. /\ "e" \in Links /\ "a" \in Links /\ "l" \in Links /\ (k = "e" \/ k = "a" \/ k = "l")
        /\ \A j \in Links : f[f[z][j]].count \in Int
    BY LinksAre, <1>4, <1>5
  <2>4. /\ g[g[z].e].count = IF k = "e" THEN f[f[z].e].count + 1 ELSE f[f[z].e].count
        /\ g[g[z].a].count = IF k = "a" THEN f[f[z].a].count + 1 ELSE f[f[z].a].count
        /\ g[g[z].l].count = IF k = "l" THEN f[f[z].l].count + 1 ELSE f[f[z].l].count
        /\ f[f[z].e].count \in Int /\ f[f[z].a].count \in Int /\ f[f[z].l].count \in Int
    BY <2>2, <2>3
  <2> QED  BY <1>0, <1>3, <2>3, <2>4 DEF Size
<1>8. \A z \in T : Size(f, z) \in Int
  BY <1>0, SizeInt
<1>9. ASSUME NEW z \in T
      PROVE  g[z].count \in Nat \ {0} /\ g[z].count = Size(g, z) + IF z \in {v} THEN 1 ELSE 0
  BY <1>3, <1>4, <1>5, <1>6, <1>7, <1>8
<1> QED  BY <1>0, <1>3, <1>5, <1>9 DEF Counted

\* The way up: a node counts one less, and its parent is the one that counts too much.
LEMMA CountedLess ==
  ASSUME NEW f \in Graph, NEW g, NEW T, NEW D, Shape(f, T, D), NEW v \in T,
         Counted(f, T, {v}), PutCount(f, g, v, f[v].count - 1)
  PROVE  Counted(g, T, {f[v].p}) /\ g \in Graph
<1>0. T \subseteq Null /\ 0 \notin T /\ 0 \in Null /\ v # 0 /\ v \in Null
  BY NodesAre DEF Shape, Joined, Null
<1>1. f[v].count - 1 \in Int
  BY DEF Counted
<1>2. HasCount(f, g, v, f[v].count - 1)
  BY <1>0, <1>1, CountPut
<1>3. /\ g \in Graph /\ \A z \in T : \A k \in Links : g[z][k] = f[z][k]
      /\ \A z \in T \cup {0} : g[z].count = IF z = v THEN f[v].count - 1 ELSE f[z].count
  BY <1>0, <1>2 DEF HasCount
<1>4. /\ \A n \in T : \A k \in Links : f[n][k] \in T \cup {0} /\ (f[n][k] = v => n = f[v].p)
      /\ f[v].p # v
      /\ \A n \in T : \A j, k \in Links : f[n][j] = f[n][k] /\ f[n][j] # 0 => j = k
      /\ f[v].p # 0 => f[v].p \in T /\ \E k \in Links : f[f[v].p][k] = v
  <2>1. f[v].p # v
    BY <1>0, UnderIs DEF Shape, Joined, Below
  <2> QED  BY <2>1, <1>0 DEF Shape, Joined
<1>5. /\ \A z \in T : f[z].count \in Nat \ {0} /\ f[z].count = Size(f, z) + IF z \in {v} THEN 1 ELSE 0
      /\ f[0].count = 0
  BY DEF Counted
<1>6. ASSUME NEW z \in T, z # f[v].p PROVE Size(g, z) = Size(f, z)
  <2>1. \A k \in Links : g[g[z][k]].count = f[f[z][k]].count
    BY <1>0, <1>3, <1>4, <1>6
  <2> QED  BY <1>0, <1>3, <2>1, SizeSame
<1>7. ASSUME NEW z \in T, z = f[v].p PROVE Size(g, z) = Size(f, z) - 1
  <2>1. PICK k \in Links : f[z][k] = v /\ \A j \in Links : j # k => f[z][j] # v
    BY <1>0, <1>4, <1>7
  <2>2. \A j \in Links : g[g[z][j]].count = IF j = k THEN f[f[z][j]].count - 1 ELSE f[f[z][j]].count
    BY <1>0, <1>3, <1>4, <2>1
  <2>3. /\ "e" \in Links /\ "a" \in Links /\ "l" \in Links /\ (k = "e" \/ k = "a" \/ k = "l")
        /\ \A j \in Links : f[f[z][j]].count \in Int
    BY LinksAre, <1>4, <1>5
  <2>4. /\ g[g[z].e].count = IF k = "e" THEN f[f[z].e].count - 1 ELSE f[f[z].e].count
        /\ g[g[z].a].count = IF k = "a" THEN f[f[z].a].count - 1 ELSE f[f[z].a].count
        /\ g[g[z].l].count = IF k = "l" THEN f[f[z].l].count - 1 ELSE f[f[z].l].count
        /\ f[f[z].e].count \in Int /\ f[f[z].a].count \in Int /\ f[f[z].l].count \in Int
    BY <2>2, <2>3
  <2> QED  BY <1>0, <1>3, <2>3, <2>4 DEF Size
<1>8. /\ \A z \in T : Size(f, z) \in Int
      /\ Size(f, v) >= 1
  <2>1. f[f[v].e].count \in Nat /\ f[f[v].a].count \in Nat /\ f[f[v].l].count \in Nat
    BY LinksAre, <1>4, <1>5
  <2> QED  BY <1>0, <2>1, SizeInt
<1>9. ASSUME NEW z \in T
      PROVE  g[z].count \in Nat \ {0} /\ g[z].count = Size(g, z) + IF z \in {f[v].p} THEN 1 ELSE 0
  BY <1>3, <1>4, <1>5, <1>6, <1>7, <1>8
<1> QED  BY <1>0, <1>3, <1>5, <1>9 DEF Counted

\* n has gone: what led to it leads to c, its only child or NULL.
HasGone(f, g, n, c, q) ==
  /\ g \in Graph
  /\ \A z \in Null : \A k \in Links : g[z][k] = IF z = q /\ q # 0 /\ f[z][k] = n THEN c ELSE f[z][k]
  /\ \A z \in Null : g[z].p = IF z = c /\ c # 0 THEN q ELSE f[z].p
  /\ \A z \in Null : g[z].hash = f[z].hash /\ g[z].count = f[z].count
  /\ \A z \in Null : (z = c => c = 0) /\ (z = q => q = 0) => g[z] = f[z]

\* n has one child at most, c on side j, and none if it is in a chain below q.
Going(f, T, n, q, j, c) ==
  /\ n \in T /\ q = f[n].p /\ j \in Links /\ c = f[n][j]
  /\ \A k \in Links : f[n][k] # 0 => k = j
  /\ q # 0 /\ f[q].e = n => c = 0

\* The nodes from each node down, without n.
Without(T, D, n) == [z \in T \ {n} |-> D[z] \ {n}]

\* When n is gone, its parent and its only child are linked.
LEMMA GoneLinked ==
  ASSUME NEW f \in Graph, NEW g \in Graph, NEW T, NEW D, Shape(f, T, D), NEW n, NEW q, NEW j, NEW c,
         Going(f, T, n, q, j, c), HasGone(f, g, n, c, q)
  PROVE  /\ Joined(g, T \ {n})
         /\ q # n /\ c # n /\ (c # 0 => c \in T /\ f[c].p = n) /\ (q # 0 => q \in T)
<1>0. /\ T \subseteq Null /\ T \subseteq Nodes /\ 0 \notin T /\ n # 0 /\ n \in T
      /\ "e" \in Links /\ "a" \in Links /\ "l" \in Links
      /\ q = f[n].p /\ j \in Links /\ c = f[n][j] /\ (q # 0 /\ f[q].e = n => c = 0)
      /\ \A k \in Links : f[n][k] # 0 => k = j
  BY NodesAre DEF Shape, Joined, Null, Links, Going
<1>1. /\ \A z \in T : \A k \in Links : f[z][k] \in T \cup {0} /\ (f[z][k] # 0 => f[f[z][k]].p = z) /\ f[z][k] # z
      /\ \A z \in T : f[z].p \in T \cup {0} /\ (f[z].p # 0 => \E k \in Links : f[f[z].p][k] = z)
      /\ \A z \in T : \A i, k \in Links : f[z][i] = f[z][k] /\ f[z][i] # 0 => i = k
  BY UnderIs DEF Shape, Joined, Below
<1>2. /\ q # n /\ c # n /\ (c # 0 => c \in T /\ f[c].p = n) /\ (q # 0 => q \in T)
      /\ c \in T \cup {0} /\ q \in T \cup {0}
  BY <1>0, <1>1
<1>3. /\ \A z \in T : \A k \in Links : g[z][k] = IF f[z][k] = n THEN c ELSE f[z][k]
      /\ \A z \in T : g[z].p = IF z = c THEN q ELSE f[z].p
      /\ \A z \in T : \A k \in Links : f[z][k] = n => z = q
      /\ \A z \in T : f[z].p = n => z = c
  <2>1. \A z \in T : \A k \in Links : f[z][k] = n => z = q
    BY <1>0, <1>1
  <2>2. \A z \in T : f[z].p = n => z = c
    BY <1>0, <1>1
  <2> QED  BY <1>0, <2>1, <2>2 DEF HasGone
<1>4. ASSUME NEW z \in T \ {n}, NEW k \in Links
      PROVE  g[z][k] \in (T \ {n}) \cup {0} /\ (g[z][k] # 0 => g[g[z][k]].p = z)
  BY <1>0, <1>1, <1>2, <1>3
<1>5. ASSUME NEW z \in T \ {n}
      PROVE  g[z].p \in (T \ {n}) \cup {0} /\ (g[z].p # 0 => \E k \in Links : g[g[z].p][k] = z)
  BY <1>0, <1>1, <1>2, <1>3, SMTT(30)
<1>6. ASSUME NEW z \in T \ {n}, NEW i \in Links, NEW k \in Links, g[z][i] = g[z][k], g[z][i] # 0
      PROVE  i = k
  <2>1. /\ \A m \in Links : f[z][m] = c /\ c # 0 => z = n
        /\ f[z][i] = f[z][k] /\ f[z][i] # 0 => i = k
    BY <1>1, <1>2
  <2>2. /\ g[z][i] = IF f[z][i] = n THEN c ELSE f[z][i]
        /\ g[z][k] = IF f[z][k] = n THEN c ELSE f[z][k]
    BY <1>3
  <2> QED  BY <1>0, <1>6, <2>1, <2>2
<1>7. ASSUME NEW z \in T \ {n}, g[z].e # 0
      PROVE  g[g[z].e].a = 0 /\ g[g[z].e].l = 0
  <2>1. g[z]["e"] = f[z]["e"] /\ f[z]["e"] \in T
    BY <1>0, <1>1, <1>3, <1>7
  <2>2. f[f[z]["e"]]["a"] = 0 /\ f[f[z]["e"]]["l"] = 0
    BY <1>7, <2>1 DEF Shape, Joined
  <2>3. g[f[z]["e"]]["a"] = 0 /\ g[f[z]["e"]]["l"] = 0
    BY <1>0, <1>3, <2>1, <2>2
  <2> QED  BY <2>1, <2>3
<1> QED  BY <1>0, <1>2, <1>4, <1>5, <1>6, <1>7 DEF Joined

\* What is left is a tree, with the child on top when n was.
LEMMA GoneShape ==
  ASSUME NEW f \in Graph, NEW g \in Graph, NEW T, NEW D, Shape(f, T, D), NEW n, NEW q, NEW j, NEW c,
         Going(f, T, n, q, j, c), HasGone(f, g, n, c, q)
  PROVE  \E E : /\ Shape(g, T \ {n}, E)
                /\ \A r : Top(f, T, D, r) => Top(g, T \ {n}, E, IF r = n THEN c ELSE r)
<1> DEFINE E == Without(T, D, n)
<1>0. /\ T \subseteq Null /\ 0 \notin T /\ n # 0 /\ n \in T
      /\ q # n /\ c # n /\ (c # 0 => c \in T /\ f[c].p = n) /\ (q # 0 => q \in T)
      /\ Joined(g, T \ {n}) /\ q = f[n].p /\ j \in Links /\ c = f[n][j]
      /\ \A k \in Links : f[n][k] # 0 => k = j
  <2>1. /\ Joined(g, T \ {n})
        /\ q # n /\ c # n /\ (c # 0 => c \in T /\ f[c].p = n) /\ (q # 0 => q \in T)
    BY GoneLinked
  <2> QED  BY <2>1, NodesAre DEF Shape, Joined, Null, Going
<1>1. \A z \in T : \A k \in Links : f[z][k] \in T \cup {0} /\ (f[z][k] # 0 => f[f[z][k]].p = z)
  BY DEF Shape, Joined
<1>2. \A z \in T : \A k \in Links : g[z][k] = IF f[z][k] = n THEN c ELSE f[z][k]
  BY <1>0, <1>1 DEF HasGone
<1>3. /\ \A z \in T : \A m : m \in D[z] <=> m = z \/ \E k \in Links : m \in Under(f, D, z, k)
      /\ \A z \in T : \A k \in Links : z \notin Under(f, D, z, k)
      /\ \A z \in T : \A k \in Links : \A m \in Under(f, D, z, k) : Sided(f, z, k, f[m].hash)
      /\ \A z \in T : D[z] \subseteq T
  BY DEF Shape, Below
<1>4. \A z \in T \ {n} : E[z] = D[z] \ {n}
  BY DEF Without
<1>5. D[n] = {n} \cup (IF c = 0 THEN {} ELSE D[c]) /\ (c # 0 => n \notin D[c])
  BY <1>0, <1>3 DEF Under
<1>6. E \in [T \ {n} -> SUBSET (T \ {n})]
  BY <1>3 DEF Without
<1> HIDE DEF E
<1>7. ASSUME NEW z \in T \ {n}, NEW k \in Links PROVE Under(g, E, z, k) = Under(f, D, z, k) \ {n}
  <2>1. CASE f[z][k] = n
    <3>1. g[z][k] = c /\ Under(f, D, z, k) = D[n] /\ (c # 0 => E[c] = D[c] \ {n})
      BY <1>0, <1>2, <1>4, <2>1 DEF Under
    <3> QED  BY <1>5, <3>1 DEF Under
  <2>2. CASE f[z][k] # n
    <3>1. g[z][k] = f[z][k] /\ (f[z][k] # 0 => E[f[z][k]] = D[f[z][k]] \ {n})
      BY <1>1, <1>2, <1>4, <2>2
    <3> QED  BY <3>1 DEF Under
  <2> QED  BY <2>1, <2>2
<1>8. ASSUME NEW z \in T \ {n}, NEW k \in Links, NEW m \in Under(g, E, z, k) PROVE Sided(g, z, k, g[m].hash)
  <2>1. Sided(f, z, k, f[m].hash) /\ m \in T
    BY <1>3, <1>7, UnderIs
  <2> QED  BY <1>0, <2>1 DEF Sided, HasGone
<1>9. \A z \in T \ {n} : \A m : m \in E[z] <=> m = z \/ \E k \in Links : m \in Under(g, E, z, k)
  BY <1>3, <1>4, <1>7
<1>10. \A z \in T \ {n} : \A k \in Links : z \notin Under(g, E, z, k)
  BY <1>3, <1>7
<1>11. Shape(g, T \ {n}, E)
  BY <1>0, <1>6, <1>8, <1>9, <1>10 DEF Shape, Below
<1>12. ASSUME NEW r, Top(f, T, D, r) PROVE Top(g, T \ {n}, E, IF r = n THEN c ELSE r)
  <2>1. r \in T /\ f[r].p = 0 /\ D[r] = T /\ \A z \in T : f[z].p = 0 => z = r
    BY <1>0, <1>12 DEF Top
  <2>2. \A z \in T : g[z].p = IF z = c THEN q ELSE f[z].p
    BY <1>0 DEF HasGone
  <2>3. CASE r = n
    <3>1. CASE c = 0
      <4>1. T \ {n} = {}
        BY <1>5, <2>1, <2>3, <3>1
      <4> QED  BY <2>3, <3>1, <4>1 DEF Top
    <3>2. CASE c # 0
      <4>1. c \in T \ {n} /\ g[c].p = 0 /\ E[c] = T \ {n}
        BY <1>0, <1>4, <1>5, <2>1, <2>2, <2>3, <3>2
      <4> QED  BY <2>1, <2>2, <2>3, <4>1 DEF Top
    <3> QED  BY <3>1, <3>2
  <2>4. CASE r # n
    <3>1. r # c
      BY <1>0, <2>1, <2>4
    <3>2. q # 0
      BY <1>0, <2>1, <2>4
    <3>3. r \in T \ {n} /\ g[r].p = 0 /\ E[r] = T \ {n}
      BY <1>4, <2>1, <2>2, <2>4, <3>1
    <3> QED  BY <2>1, <2>2, <2>4, <3>1, <3>2, <3>3 DEF Top
  <2> QED  BY <2>3, <2>4
<1> QED  BY <1>11, <1>12

\* Then the parent of n is the one that counts too much.
LEMMA GoneCounts ==
  ASSUME NEW f \in Graph, NEW g \in Graph, NEW T, NEW D, Shape(f, T, D), NEW n, NEW q, NEW j, NEW c,
         Going(f, T, n, q, j, c), HasGone(f, g, n, c, q), NEW X, Counted(f, T, X), X \cap T = {}
  PROVE  Counted(g, T \ {n}, {q})
<1>0. /\ T \subseteq Null /\ 0 \notin T /\ n # 0 /\ n \in T /\ 0 \in Null
      /\ q # n /\ c # n /\ (c # 0 => c \in T /\ f[c].p = n) /\ (q # 0 => q \in T)
      /\ q = f[n].p /\ j \in Links /\ c = f[n][j] /\ \A k \in Links : f[n][k] # 0 => k = j
  <2>1. /\ Joined(g, T \ {n})
        /\ q # n /\ c # n /\ (c # 0 => c \in T /\ f[c].p = n) /\ (q # 0 => q \in T)
    BY GoneLinked
  <2> QED  BY <2>1, NodesAre DEF Shape, Joined, Null, Going
<1>1. /\ \A z \in T : \A k \in Links : f[z][k] \in T \cup {0} /\ (f[z][k] # 0 => f[f[z][k]].p = z)
      /\ \A z \in T : \A i, k \in Links : f[z][i] = f[z][k] /\ f[z][i] # 0 => i = k
      /\ q # 0 => \E k \in Links : f[q][k] = n
  BY <1>0 DEF Shape, Joined
<1>2. /\ \A z \in T : \A k \in Links : g[z][k] = IF f[z][k] = n THEN c ELSE f[z][k]
      /\ \A z \in T \cup {0} : g[z].count = f[z].count
      /\ \A z \in T : \A k \in Links : f[z][k] = n => z = q
  BY <1>0, <1>1 DEF HasGone
<1>3. /\ \A z \in T : f[z].count \in Nat \ {0} /\ Size(f, z) \in Int /\ f[z].count = Size(f, z)
      /\ f[0].count = 0
  <2>1. \A z \in T : f[z].count \in Nat \ {0} /\ f[z].count = Size(f, z) + IF z \in X THEN 1 ELSE 0
    BY DEF Counted
  <2>2. \A z \in T : Size(f, z) \in Int /\ z \notin X
    BY <1>0, SizeInt
  <2> QED  BY <2>1, <2>2 DEF Counted
<1>4. \A z \in T : \A k \in Links : f[f[z][k]].count \in Nat
  BY <1>1, <1>3
<1>5. f[n].count = 1 + f[c].count /\ f[c].count \in Nat
  <2>1. f[n].count = 1 + f[f[n].e].count + f[f[n].a].count + f[f[n].l].count
    BY <1>0, <1>3, SizeInt
  <2>2. /\ j = "e" \/ j = "a" \/ j = "l"
        /\ "e" \in Links /\ "a" \in Links /\ "l" \in Links
    BY <1>0 DEF Links
  <2>3. f[c].count \in Nat /\ f[0].count = 0
    BY <1>0, <1>3, <1>4
  <2>4. CASE j = "e"
    <3>1. f[n].e = c /\ f[n].a = 0 /\ f[n].l = 0
      BY <1>0, <2>2, <2>4
    <3> QED  BY <2>1, <2>3, <3>1
  <2>5. CASE j = "a"
    <3>1. f[n].a = c /\ f[n].e = 0 /\ f[n].l = 0
      BY <1>0, <2>2, <2>5
    <3> QED  BY <2>1, <2>3, <3>1
  <2>6. CASE j = "l"
    <3>1. f[n].l = c /\ f[n].e = 0 /\ f[n].a = 0
      BY <1>0, <2>2, <2>6
    <3> QED  BY <2>1, <2>3, <3>1
  <2> QED  BY <2>2, <2>4, <2>5, <2>6
<1>6. ASSUME NEW z \in T \ {n}, z # q PROVE Size(g, z) = Size(f, z)
  <2>1. \A k \in Links : g[g[z][k]].count = f[f[z][k]].count
    BY <1>1, <1>2, <1>6
  <2> QED  BY <1>0, <2>1, SizeSame
<1>7. ASSUME NEW z \in T \ {n}, z = q PROVE Size(g, z) = Size(f, z) - 1
  <2>1. PICK k \in Links : f[z][k] = n /\ \A i \in Links : i # k => f[z][i] # n
    BY <1>0, <1>1, <1>7
  <2>2. \A i \in Links : g[g[z][i]].count = IF i = k THEN f[f[z][i]].count - 1 ELSE f[f[z][i]].count
    <3>1. g[z][k] = c /\ f[f[z][k]].count = f[n].count /\ g[c].count = f[c].count
      BY <1>0, <1>2, <2>1
    <3>2. \A i \in Links : i # k => g[z][i] = f[z][i] /\ g[g[z][i]].count = f[f[z][i]].count
      BY <1>1, <1>2, <2>1
    <3> QED  BY <1>5, <3>1, <3>2
  <2>3. /\ "e" \in Links /\ "a" \in Links /\ "l" \in Links /\ (k = "e" \/ k = "a" \/ k = "l")
        /\ \A i \in Links : f[f[z][i]].count \in Int
    BY LinksAre, <1>4
  <2>4. /\ g[g[z].e].count = IF k = "e" THEN f[f[z].e].count - 1 ELSE f[f[z].e].count
        /\ g[g[z].a].count = IF k = "a" THEN f[f[z].a].count - 1 ELSE f[f[z].a].count
        /\ g[g[z].l].count = IF k = "l" THEN f[f[z].l].count - 1 ELSE f[f[z].l].count
        /\ f[f[z].e].count \in Int /\ f[f[z].a].count \in Int /\ f[f[z].l].count \in Int
    BY <2>2, <2>3
  <2> QED  BY <2>3, <2>4 DEF Size
<1>8. ASSUME NEW z \in T \ {n}
      PROVE  g[z].count \in Nat \ {0} /\ g[z].count = Size(g, z) + IF z \in {q} THEN 1 ELSE 0
  BY <1>2, <1>3, <1>6, <1>7
<1>9. g[0].count = 0
  BY <1>2, <1>3
<1> QED  BY <1>8, <1>9 DEF Counted

\* The next of n's chain, e, is in the place of n.
HasNext(f, g, n, e, q) ==
  /\ g \in Graph
  /\ \A z \in Null : \A k \in Links :
       g[z][k] = IF z = e THEN (IF k = "e" THEN f[z][k] ELSE f[n][k])
                 ELSE IF z = q /\ q # 0 /\ f[z][k] = n THEN e ELSE f[z][k]
  /\ \A z \in Null : g[z].p = IF z = e THEN q ELSE IF z # 0 /\ (z = f[n].l \/ z = f[n].a) THEN e ELSE f[z].p
  /\ \A z \in Null : g[z].hash = f[z].hash /\ g[z].count = IF z = e THEN f[n].count - 1 ELSE f[z].count
  /\ \A z \in Null : z # e /\ (z # 0 => z # q /\ z # f[n].l /\ z # f[n].a) => g[z] = f[z]

\* n has a parent q, if any, and e is the next of its chain.
Chaining(f, T, n, q, e) == n \in T /\ q = f[n].p /\ e = f[n].e /\ e # 0

\* What is below the nodes when e is in the place of n.
Heading(T, D, n, e) == [z \in T \ {n} |-> (IF z = e THEN D[n] ELSE D[z]) \ {n}]

\* What is there before.
LEMMA ChainingIs ==
  ASSUME NEW f \in Graph, NEW T, NEW D, Shape(f, T, D), NEW n, NEW q, NEW e, Chaining(f, T, n, q, e)
  PROVE  /\ T \subseteq Null /\ T \subseteq Nodes /\ 0 \notin T /\ n # 0 /\ n \in T /\ 0 \in Null
         /\ "e" \in Links /\ "a" \in Links /\ "l" \in Links /\ \A k \in Links : k = "e" \/ k = "a" \/ k = "l"
         /\ q = f[n].p /\ e = f[n]["e"] /\ e # 0 /\ q \in T \cup {0} /\ e \in T /\ f[e].p = n
         /\ e # n /\ q # n /\ q # e
         /\ \A k \in Links : k # "e" => f[e][k] = 0
         /\ \A z \in T : \A k \in Links : f[z][k] \in T \cup {0} /\ (f[z][k] # 0 => f[f[z][k]].p = z) /\ f[z][k] # z
         /\ \A z \in T : f[z].p \in T \cup {0} /\ (f[z].p # 0 => \E k \in Links : f[f[z].p][k] = z)
         /\ \A z \in T : \A i, k \in Links : f[z][i] = f[z][k] /\ f[z][i] # 0 => i = k
<1>1. /\ T \subseteq Null /\ T \subseteq Nodes /\ 0 \notin T /\ n # 0 /\ n \in T /\ 0 \in Null
      /\ "e" \in Links /\ "a" \in Links /\ "l" \in Links /\ \A k \in Links : k = "e" \/ k = "a" \/ k = "l"
  BY NodesAre DEF Shape, Joined, Null, Links, Chaining
<1>2. q = f[n].p /\ e = f[n]["e"] /\ e # 0
  BY DEF Chaining
<1>3. /\ \A z \in T : \A k \in Links : f[z][k] \in T \cup {0} /\ (f[z][k] # 0 => f[f[z][k]].p = z) /\ f[z][k] # z
      /\ \A z \in T : f[z].p \in T \cup {0} /\ (f[z].p # 0 => \E k \in Links : f[f[z].p][k] = z)
      /\ \A z \in T : \A i, k \in Links : f[z][i] = f[z][k] /\ f[z][i] # 0 => i = k
  BY UnderIs DEF Shape, Joined, Below
<1>4. q \in T \cup {0} /\ e \in T /\ f[e].p = n /\ e # n /\ q # n
  BY <1>1, <1>2, <1>3
<1>5. f[e]["a"] = 0 /\ f[e]["l"] = 0
  BY <1>1, <1>2 DEF Shape, Joined
<1>6. q # e
  <2>1. ASSUME q = e PROVE FALSE
    <3>0. f[n].p = e /\ f[n].p # 0
      BY <1>2, <2>1
    <3>1. \E k \in Links : f[e][k] = n
      BY <1>1, <1>3, <3>0
    <3>2. f[e]["e"] = n /\ f[n]["e"] = e
      BY <1>1, <1>2, <1>5, <3>1
    <3>3. e \in Under(f, D, n, "e") /\ n \in Under(f, D, e, "e")
      BY <1>1, <1>4, <3>2, UnderIs
    <3>4. Under(f, D, n, "e") = D[e]
      BY <1>1, <1>2, UnderIs
    <3>5. n \in D[e]
      BY <1>1, <1>4, <3>3, UnderIs
    <3> QED  BY <1>1, <3>4, <3>5 DEF Shape, Below
  <2> QED  BY <2>1
<1>7. \A k \in Links : k # "e" => f[e][k] = 0
  BY <1>1, <1>5
<1> QED  BY <1>1, <1>2, <1>3, <1>4, <1>6, <1>7

\* The next of the chain takes over the links of n.
LEMMA NextLinked ==
  ASSUME NEW f \in Graph, NEW g \in Graph, NEW T, NEW D, Shape(f, T, D), NEW n, NEW q, NEW e,
         Chaining(f, T, n, q, e), HasNext(f, g, n, e, q)
  PROVE  Joined(g, T \ {n})
<1>0. /\ T \subseteq Null /\ T \subseteq Nodes /\ 0 \notin T /\ n # 0 /\ n \in T
      /\ "e" \in Links /\ "a" \in Links /\ "l" \in Links /\ \A k \in Links : k = "e" \/ k = "a" \/ k = "l"
  BY ChainingIs
<1>1. /\ q = f[n].p /\ e = f[n]["e"] /\ e # 0 /\ q \in T \cup {0} /\ e \in T /\ f[e].p = n
      /\ e # n /\ q # n /\ q # e
      /\ \A k \in Links : k # "e" => f[e][k] = 0
  BY ChainingIs
<1>2. /\ \A z \in T : \A k \in Links : f[z][k] \in T \cup {0} /\ (f[z][k] # 0 => f[f[z][k]].p = z) /\ f[z][k] # z
      /\ \A z \in T : f[z].p \in T \cup {0} /\ (f[z].p # 0 => \E k \in Links : f[f[z].p][k] = z)
      /\ \A z \in T : \A i, k \in Links : f[z][i] = f[z][k] /\ f[z][i] # 0 => i = k
  BY ChainingIs
<1>3. /\ \A z \in T : z # e => \A k \in Links : g[z][k] = IF f[z][k] = n THEN e ELSE f[z][k]
      /\ g[e]["e"] = f[e]["e"] /\ \A k \in Links : k # "e" => g[e][k] = f[n][k]
      /\ \A z \in T : z # e => \A k \in Links : f[z][k] = n => z = q
  <2>1. \A z \in T : \A k \in Links : f[z][k] = n => z = q
    BY <1>0, <1>1, <1>2
  <2> QED  BY <1>0, <1>1, <2>1 DEF HasNext
<1>4. /\ \A z \in T : g[z].p = IF z = e THEN q ELSE IF f[z].p = n THEN e ELSE f[z].p
  <2>1. \A z \in T : z # e => (f[z].p = n <=> z = f[n]["l"] \/ z = f[n]["a"])
    BY <1>0, <1>1, <1>2
  <2> QED  BY <1>0, <2>1 DEF HasNext
<1>5. ASSUME NEW z \in T \ {n}, NEW k \in Links
      PROVE  g[z][k] \in (T \ {n}) \cup {0} /\ (g[z][k] # 0 => g[g[z][k]].p = z)
  <2>1. CASE z = e /\ k = "e"
    BY <1>0, <1>1, <1>2, <1>3, <1>4, <2>1
  <2>2. CASE z = e /\ k # "e"
    <3>1. f[n][k] # e
      BY <1>0, <1>1, <1>2, <2>2
    <3> QED  BY <1>0, <1>1, <1>2, <1>3, <1>4, <2>2, <3>1
  <2>3. CASE z # e
    BY <1>0, <1>1, <1>2, <1>3, <1>4, <2>3
  <2> QED  BY <2>1, <2>2, <2>3
<1>6. ASSUME NEW z \in T \ {n}
      PROVE  g[z].p \in (T \ {n}) \cup {0} /\ (g[z].p # 0 => \E k \in Links : g[g[z].p][k] = z)
  <2>1. CASE z = e
    BY <1>0, <1>1, <1>2, <1>3, <1>4, <2>1
  <2>2. CASE z # e /\ f[z].p = n
    <3>1. PICK k \in Links : f[n][k] = z
      BY <1>0, <1>2, <2>2
    <3>2. k # "e" /\ g[e][k] = z /\ g[z].p = e
      BY <1>1, <1>3, <1>4, <2>2, <3>1
    <3> QED  BY <1>1, <3>2
  <2>3. CASE z # e /\ f[z].p # n
    <3>1. g[z].p = f[z].p /\ f[z].p \in (T \ {n}) \cup {0}
      BY <1>2, <1>4, <2>3
    <3>2. ASSUME f[z].p # 0 PROVE \E k \in Links : g[f[z].p][k] = z
      <4>1. PICK k \in Links : f[f[z].p][k] = z
        BY <1>2, <3>2
      <4>2. CASE f[z].p = e
        BY <1>0, <1>1, <1>3, <4>1, <4>2
      <4>3. CASE f[z].p # e
        BY <1>3, <3>1, <3>2, <4>1, <4>3
      <4> QED  BY <4>2, <4>3
    <3> QED  BY <3>1, <3>2
  <2> QED  BY <2>1, <2>2, <2>3
<1>7. ASSUME NEW z \in T \ {n}, NEW i \in Links, NEW k \in Links, g[z][i] = g[z][k], g[z][i] # 0
      PROVE  i = k
  <2>1. CASE z = e
    <3>1. \A m \in Links : f[n][m] = f[e]["e"] => f[n][m] = 0
      BY <1>0, <1>1, <1>2
    <3>2. f[n][i] = f[n][k] /\ f[n][i] # 0 => i = k
      BY <1>0, <1>2
    <3> QED  BY <1>3, <1>7, <2>1, <3>1, <3>2
  <2>2. CASE z # e
    <3>1. /\ \A m \in Links : f[z][m] # e
          /\ f[z][i] = f[z][k] /\ f[z][i] # 0 => i = k
      BY <1>1, <1>2
    <3>2. /\ g[z][i] = IF f[z][i] = n THEN e ELSE f[z][i]
          /\ g[z][k] = IF f[z][k] = n THEN e ELSE f[z][k]
      BY <1>3, <2>2
    <3> QED  BY <1>0, <1>7, <3>1, <3>2
  <2> QED  BY <2>1, <2>2
<1>8. ASSUME NEW z \in T \ {n}, g[z].e # 0
      PROVE  g[g[z].e].a = 0 /\ g[g[z].e].l = 0
  <2>0. \A w \in T : f[w]["e"] # 0 => f[f[w]["e"]]["a"] = 0 /\ f[f[w]["e"]]["l"] = 0
    BY DEF Shape, Joined
  <2>1. CASE f[z]["e"] = n /\ z # e
    <3>1. g[z]["e"] = e
      BY <1>0, <1>3, <2>1
    <3>2. f[n]["a"] = 0 /\ f[n]["l"] = 0
      BY <1>0, <2>0, <2>1
    <3>3. g[e]["a"] = 0 /\ g[e]["l"] = 0
      BY <1>0, <1>3, <3>2
    <3> QED  BY <3>1, <3>3
  <2>2. CASE f[z]["e"] # n \/ z = e
    <3> DEFINE v == f[z]["e"]
    <3>1. g[z]["e"] = v /\ v \in T /\ v # e
      BY <1>0, <1>1, <1>2, <1>3, <1>8, <2>2
    <3>2. f[v]["a"] = 0 /\ f[v]["l"] = 0
      BY <1>0, <2>0, <3>1
    <3> HIDE DEF v
    <3>3. g[v]["a"] = 0 /\ g[v]["l"] = 0
      BY <1>0, <1>3, <3>1, <3>2
    <3> QED  BY <3>1, <3>3
  <2> QED  BY <2>1, <2>2
<1> QED  BY <1>0, <1>5, <1>6, <1>7, <1>8 DEF Joined

\* What is left is a tree, with the next of the chain on top when n was.
LEMMA NextShape ==
  ASSUME NEW f \in Graph, NEW g \in Graph, NEW T, NEW D, Shape(f, T, D), NEW n, NEW q, NEW e,
         Chaining(f, T, n, q, e), HasNext(f, g, n, e, q)
  PROVE  \E E : /\ Shape(g, T \ {n}, E)
                /\ \A r : Top(f, T, D, r) => Top(g, T \ {n}, E, IF r = n THEN e ELSE r)
<1> DEFINE E == Heading(T, D, n, e)
<1>0. /\ T \subseteq Null /\ 0 \notin T /\ n # 0 /\ n \in T
      /\ "e" \in Links /\ "a" \in Links /\ "l" \in Links /\ \A k \in Links : k = "e" \/ k = "a" \/ k = "l"
  BY ChainingIs
<1>1. /\ q = f[n].p /\ e = f[n]["e"] /\ e # 0 /\ q \in T \cup {0} /\ e \in T /\ f[e].p = n
      /\ e # n /\ q # n /\ q # e
      /\ \A k \in Links : k # "e" => f[e][k] = 0
  BY ChainingIs
<1>2. /\ \A z \in T : \A k \in Links : f[z][k] \in T \cup {0} /\ (f[z][k] # 0 => f[f[z][k]].p = z) /\ f[z][k] # z
      /\ \A z \in T : \A i, k \in Links : f[z][i] = f[z][k] /\ f[z][i] # 0 => i = k
  BY ChainingIs
<1>3. /\ \A z \in T : z # e => \A k \in Links : g[z][k] = IF f[z][k] = n THEN e ELSE f[z][k]
      /\ g[e]["e"] = f[e]["e"] /\ \A k \in Links : k # "e" => g[e][k] = f[n][k]
  <2>1. \A z \in T : \A k \in Links : f[z][k] = n => z = q
    BY <1>0, <1>1, <1>2
  <2> QED  BY <1>0, <1>1, <2>1 DEF HasNext
<1>4. /\ \A z \in T : \A m : m \in D[z] <=> m = z \/ \E k \in Links : m \in Under(f, D, z, k)
      /\ \A z \in T : \A k \in Links : z \notin Under(f, D, z, k)
      /\ \A z \in T : \A k \in Links : \A m \in Under(f, D, z, k) : Sided(f, z, k, f[m].hash)
      /\ \A z \in T : D[z] \subseteq T
  BY DEF Shape, Below
<1>5. /\ \A z \in T \ {n} : z # e => E[z] = D[z] \ {n}
      /\ E[e] = D[n] \ {n}
  BY <1>1 DEF Heading
<1>6. E \in [T \ {n} -> SUBSET (T \ {n})]
  BY <1>0, <1>4 DEF Heading
<1> HIDE DEF E
<1>7. ASSUME NEW z \in T \ {n}, z # e, NEW k \in Links PROVE Under(g, E, z, k) = Under(f, D, z, k) \ {n}
  <2>1. CASE f[z][k] = n
    BY <1>0, <1>1, <1>3, <1>5, <1>7, <2>1 DEF Under
  <2>2. CASE f[z][k] # n
    <3>1. g[z][k] = f[z][k] /\ f[z][k] # e /\ (f[z][k] # 0 => E[f[z][k]] = D[f[z][k]] \ {n})
      BY <1>1, <1>2, <1>3, <1>5, <1>7, <2>2
    <3> QED  BY <3>1 DEF Under
  <2> QED  BY <2>1, <2>2
<1>8. Under(g, E, e, "e") = Under(f, D, e, "e") \ {n} /\ f[e]["e"] # n
  <2>1. f[e]["e"] # n
    BY <1>0, <1>1, <1>2
  <2>2. f[e]["e"] # e /\ f[e]["e"] \in T \cup {0}
    BY <1>0, <1>1, <1>2
  <2>3. f[e]["e"] # 0 => E[f[e]["e"]] = D[f[e]["e"]] \ {n}
    BY <1>5, <2>1, <2>2
  <2> QED  BY <1>3, <2>1, <2>3 DEF Under
<1>9. ASSUME NEW k \in Links, k # "e" PROVE Under(g, E, e, k) = Under(f, D, n, k) \ {n}
  <2>1. f[n][k] # e /\ f[n][k] # n /\ f[n][k] \in T \cup {0} /\ g[e][k] = f[n][k]
    BY <1>0, <1>1, <1>2, <1>3, <1>9
  <2>2. f[n][k] # 0 => E[f[n][k]] = D[f[n][k]] \ {n}
    BY <1>5, <2>1
  <2> QED  BY <2>1, <2>2 DEF Under
<1>10. /\ Under(f, D, n, "e") = D[e] /\ e \in Under(f, D, n, "e")
       /\ \A m : m \in D[e] <=> m = e \/ m \in Under(f, D, e, "e")
       /\ f[n].hash \in Int /\ f[e].hash = f[n].hash
  <2>1. Under(f, D, n, "e") = D[e] /\ e \in Under(f, D, n, "e")
    BY <1>0, <1>1, UnderIs
  <2>2. \A k \in Links : k # "e" => Under(f, D, e, k) = {}
    BY <1>1 DEF Under
  <2>3. f[n].hash \in Int
    BY <1>0 DEF Graph, NodeRec
  <2>4. Sided(f, n, "e", f[e].hash)
    BY <1>0, <1>4, <2>1
  <2> QED  BY <1>0, <1>1, <1>4, <2>1, <2>2, <2>3, <2>4 DEF Sided
<1>11. ASSUME NEW m PROVE m \in E[e] <=> m = e \/ \E k \in Links : m \in Under(g, E, e, k)
  <2>1. m \in D[n] <=> m = n \/ m = e \/ m \in Under(f, D, e, "e") \/ \E k \in Links \ {"e"} : m \in Under(f, D, n, k)
    BY <1>0, <1>4, <1>10
  <2>2. (\E k \in Links : m \in Under(g, E, e, k))
        <=> m \in Under(f, D, e, "e") \ {n} \/ \E k \in Links \ {"e"} : m \in Under(f, D, n, k) \ {n}
    BY <1>0, <1>8, <1>9
  <2> QED  BY <1>1, <1>5, <2>1, <2>2
<1>12. ASSUME NEW k \in Links PROVE e \notin Under(g, E, e, k)
  <2>1. CASE k = "e"
    BY <1>0, <1>1, <1>4, <1>8, <2>1
  <2>2. CASE k # "e"
    <3>1. ASSUME e \in Under(f, D, n, k) PROVE FALSE
      <4>1. Sided(f, n, k, f[e].hash)
        BY <1>0, <1>4, <3>1
      <4> QED  BY <1>0, <1>10, <2>2, <4>1 DEF Sided
    <3> QED  BY <1>9, <2>2, <3>1
  <2> QED  BY <2>1, <2>2
<1>13. \A z \in T : g[z].hash = f[z].hash
  BY <1>0 DEF HasNext
<1>14. ASSUME NEW z \in T \ {n}, NEW k \in Links, NEW m \in Under(g, E, z, k) PROVE Sided(g, z, k, g[m].hash)
  <2>1. CASE z # e \/ k = "e"
    <3>1. m \in Under(f, D, z, k)
      BY <1>7, <1>8, <2>1
    <3>2. Sided(f, z, k, f[m].hash) /\ m \in T
      BY <1>4, <3>1, UnderIs
    <3> QED  BY <1>13, <3>2 DEF Sided
  <2>2. CASE z = e /\ k # "e"
    <3>1. Sided(f, n, k, f[m].hash) /\ m \in T
      BY <1>0, <1>4, <1>9, <2>2, UnderIs
    <3> QED  BY <1>1, <1>10, <1>13, <2>2, <3>1 DEF Sided
  <2> QED  BY <2>1, <2>2
<1>15. \A z \in T \ {n} : \A m : m \in E[z] <=> m = z \/ \E k \in Links : m \in Under(g, E, z, k)
  <2>1. ASSUME NEW z \in T \ {n}, z # e, NEW m PROVE m \in E[z] <=> m = z \/ \E k \in Links : m \in Under(g, E, z, k)
    BY <1>4, <1>5, <1>7, <2>1
  <2> QED  BY <1>11, <2>1
<1>16. \A z \in T \ {n} : \A k \in Links : z \notin Under(g, E, z, k)
  BY <1>4, <1>7, <1>12
<1>17. Shape(g, T \ {n}, E)
  BY <1>6, <1>14, <1>15, <1>16, NextLinked DEF Shape, Below
<1>18. ASSUME NEW r, Top(f, T, D, r) PROVE Top(g, T \ {n}, E, IF r = n THEN e ELSE r)
  <2>1. r \in T /\ f[r].p = 0 /\ D[r] = T /\ \A z \in T : f[z].p = 0 => z = r
    BY <1>0, <1>18 DEF Top
  <2>2. \A z \in T : g[z].p = IF z = e THEN q ELSE IF z = f[n].l \/ z = f[n].a THEN e ELSE f[z].p
    BY <1>0 DEF HasNext
  <2>3. \A z \in T : g[z].p = 0 => (z = e /\ q = 0) \/ f[z].p = 0
    BY <1>1, <2>2
  <2>4. e \in T \ {n}
    BY <1>1
  <2>5. CASE r = n
    <3>1. g[e].p = 0 /\ E[e] = T \ {n}
      BY <1>1, <1>5, <2>1, <2>2, <2>5
    <3> QED  BY <2>1, <2>3, <2>4, <2>5, <3>1 DEF Top
  <2>6. CASE r # n
    <3>1. q # 0 /\ r # e
      BY <1>0, <1>1, <2>1, <2>6
    <3>2. f[n]["l"] # r /\ f[n]["a"] # r
      BY <1>0, <1>2, <2>1
    <3>3. r \in T \ {n} /\ g[r].p = 0 /\ E[r] = T \ {n}
      BY <1>5, <2>1, <2>2, <2>6, <3>1, <3>2
    <3> QED  BY <2>1, <2>3, <2>6, <3>1, <3>3 DEF Top
  <2> QED  BY <2>5, <2>6
<1> QED  BY <1>17, <1>18

\* The next of the chain counts what is below it.
LEMMA NextCounts ==
  ASSUME NEW f \in Graph, NEW g \in Graph, NEW T, NEW D, Shape(f, T, D), NEW n, NEW q, NEW e,
         Chaining(f, T, n, q, e), HasNext(f, g, n, e, q), NEW X, Counted(f, T, X), X \cap T = {}
  PROVE  Counted(g, T \ {n}, {q})
<1>0. /\ T \subseteq Null /\ 0 \notin T /\ n # 0 /\ n \in T /\ 0 \in Null
      /\ "e" \in Links /\ "a" \in Links /\ "l" \in Links /\ \A k \in Links : k = "e" \/ k = "a" \/ k = "l"
  BY ChainingIs
<1>1. /\ q = f[n].p /\ e = f[n]["e"] /\ e # 0 /\ q \in T \cup {0} /\ e \in T /\ f[e].p = n
      /\ e # n /\ q # n /\ q # e
      /\ \A k \in Links : k # "e" => f[e][k] = 0
  BY ChainingIs
<1>2. /\ \A z \in T : \A k \in Links : f[z][k] \in T \cup {0} /\ (f[z][k] # 0 => f[f[z][k]].p = z) /\ f[z][k] # z
      /\ \A z \in T : f[z].p # 0 => \E k \in Links : f[f[z].p][k] = z
      /\ \A z \in T : \A i, k \in Links : f[z][i] = f[z][k] /\ f[z][i] # 0 => i = k
  BY ChainingIs
<1>3. /\ \A z \in T : z # e => \A k \in Links : g[z][k] = IF f[z][k] = n THEN e ELSE f[z][k]
      /\ g[e]["e"] = f[e]["e"] /\ \A k \in Links : k # "e" => g[e][k] = f[n][k]
      /\ \A z \in T : \A k \in Links : f[z][k] = n => z = q
      /\ \A z \in T \cup {0} : g[z].count = IF z = e THEN f[n].count - 1 ELSE f[z].count
  <2>1. \A z \in T : \A k \in Links : f[z][k] = n => z = q
    BY <1>0, <1>1, <1>2
  <2> QED  BY <1>0, <1>1, <2>1 DEF HasNext
<1>4. /\ \A z \in T : f[z].count \in Nat \ {0} /\ Size(f, z) \in Int /\ f[z].count = Size(f, z)
      /\ f[0].count = 0
  <2>1. \A z \in T : f[z].count \in Nat \ {0} /\ f[z].count = Size(f, z) + IF z \in X THEN 1 ELSE 0
    BY DEF Counted
  <2>2. \A z \in T : Size(f, z) \in Int /\ z \notin X
    BY <1>0, SizeInt
  <2> QED  BY <2>1, <2>2 DEF Counted
<1>5. \A z \in T : \A k \in Links : f[f[z][k]].count \in Nat
  BY <1>2, <1>4
<1>6. g[e].count = Size(g, e) /\ g[e].count \in Nat \ {0}
  <2>1. /\ f[n].count = 1 + f[e].count + f[f[n].a].count + f[f[n].l].count
        /\ f[e].count = 1 + f[f[e].e].count + f[f[e].a].count + f[f[e].l].count
    BY <1>0, <1>1, <1>4, SizeInt
  <2>2. f[e].a = 0 /\ f[e].l = 0
    BY <1>0, <1>1
  <2>3. /\ g[g[e].e].count = f[f[e].e].count
        /\ g[g[e].a].count = f[f[n].a].count
        /\ g[g[e].l].count = f[f[n].l].count
    <3>1. /\ f[e]["e"] # e /\ f[n]["a"] # e /\ f[n]["l"] # e
          /\ f[e]["e"] \in T \cup {0} /\ f[n]["a"] \in T \cup {0} /\ f[n]["l"] \in T \cup {0}
          /\ g[e]["e"] = f[e]["e"] /\ g[e]["a"] = f[n]["a"] /\ g[e]["l"] = f[n]["l"]
      BY <1>0, <1>1, <1>2, <1>3
    <3> QED  BY <1>3, <3>1
  <2>4. /\ f[f[e].e].count \in Nat /\ f[f[n].a].count \in Nat /\ f[f[n].l].count \in Nat
        /\ f[0].count = 0 /\ f[e].count \in Nat /\ f[n].count \in Nat /\ g[e].count = f[n].count - 1
    BY <1>0, <1>1, <1>3, <1>4, <1>5
  <2>5. Size(g, e) = 1 + g[g[e].e].count + g[g[e].a].count + g[g[e].l].count
    BY DEF Size
  <2>6. f[e].count = 1 + f[f[e].e].count
    BY <2>1, <2>2, <2>4
  <2> QED  BY <2>1, <2>3, <2>4, <2>5, <2>6
<1>7. ASSUME NEW z \in T \ {n}, z # q, z # e PROVE Size(g, z) = Size(f, z)
  <2>1. \A k \in Links : g[g[z][k]].count = f[f[z][k]].count
    BY <1>1, <1>2, <1>3, <1>7
  <2> QED  BY <1>0, <2>1, SizeSame
<1>8. ASSUME NEW z \in T \ {n}, z = q PROVE Size(g, z) = Size(f, z) - 1
  <2>1. PICK k \in Links : f[z][k] = n /\ \A i \in Links : i # k => f[z][i] # n
    BY <1>0, <1>1, <1>2, <1>8
  <2>2. \A i \in Links : g[g[z][i]].count = IF i = k THEN f[f[z][i]].count - 1 ELSE f[f[z][i]].count
    <3>1. g[z][k] = e /\ f[f[z][k]].count = f[n].count /\ g[e].count = f[n].count - 1
      BY <1>0, <1>1, <1>3, <1>8, <2>1
    <3>2. \A i \in Links : i # k => g[z][i] = f[z][i] /\ g[g[z][i]].count = f[f[z][i]].count
      BY <1>1, <1>2, <1>3, <1>8, <2>1
    <3> QED  BY <3>1, <3>2
  <2>3. /\ k = "e" \/ k = "a" \/ k = "l"
        /\ \A i \in Links : f[f[z][i]].count \in Int
    BY <1>0, <1>5
  <2>4. /\ g[g[z].e].count = IF k = "e" THEN f[f[z].e].count - 1 ELSE f[f[z].e].count
        /\ g[g[z].a].count = IF k = "a" THEN f[f[z].a].count - 1 ELSE f[f[z].a].count
        /\ g[g[z].l].count = IF k = "l" THEN f[f[z].l].count - 1 ELSE f[f[z].l].count
        /\ f[f[z].e].count \in Int /\ f[f[z].a].count \in Int /\ f[f[z].l].count \in Int
    BY <1>0, <2>2, <2>3
  <2> QED  BY <2>3, <2>4 DEF Size
<1>9. ASSUME NEW z \in T \ {n}
      PROVE  g[z].count \in Nat \ {0} /\ g[z].count = Size(g, z) + IF z \in {q} THEN 1 ELSE 0
  BY <1>1, <1>3, <1>4, <1>6, <1>7, <1>8
<1>10. g[0].count = 0
  BY <1>0, <1>1, <1>3, <1>4
<1> QED  BY <1>9, <1>10 DEF Counted

\* The new node n with hash h is on side s of `at`, and what was there below it.
HasNew(f, g, n, at, c, s, h) ==
  /\ g \in Graph
  /\ \A z \in Null : \A k \in Links :
       g[z][k] = IF z = n THEN (IF k = s THEN c ELSE 0)
                 ELSE IF z = at /\ at # 0 /\ k = s THEN n ELSE f[z][k]
  /\ \A z \in Null : g[z].p = IF z = n THEN at ELSE IF z = c /\ c # 0 THEN n ELSE f[z].p
  /\ \A z \in Null : g[z].hash = IF z = n THEN h ELSE f[z].hash
  /\ \A z \in Null : g[z].count = IF z = n THEN 1 + f[c].count ELSE f[z].count
  /\ \A z \in Null : z # n /\ (z = c => c = 0) /\ (z = at => at = 0) => g[z] = f[z]

\* The fields of a new node.
Fresh(R, h, at) == R = [Cleared EXCEPT !.hash = h, !.p = at, !.count = 1]

\* A node as binary_tree_get hands it out.
LEMMA FreshIs ==
  ASSUME NEW h \in Nat, NEW at \in Null, NEW R, Fresh(R, h, at)
  PROVE  R \in NodeRec /\ R.p = at /\ R.count = 1 /\ R.hash = h /\ \A k \in Links : R[k] = 0
<1> DEFINE A == [Cleared EXCEPT !.hash = h]
           B == [A EXCEPT !.p = at]
           C == [B EXCEPT !.count = 1]
<1>1. A \in NodeRec /\ A.hash = h /\ A.e = 0 /\ A.a = 0 /\ A.l = 0
  BY DEF Cleared, NodeRec, Null
<1> HIDE DEF A
<1>2. B \in NodeRec /\ B.hash = h /\ B.e = 0 /\ B.a = 0 /\ B.l = 0 /\ B.p = at
  BY <1>1 DEF NodeRec
<1> HIDE DEF B
<1>3. C \in NodeRec /\ C.hash = h /\ C.e = 0 /\ C.a = 0 /\ C.l = 0 /\ C.p = at /\ C.count = 1
  BY <1>2 DEF NodeRec
<1>4. R = C
  BY DEF A, B, Fresh
<1> QED  BY <1>3, <1>4, LinksAre

\* WithNew does it.
LEMMA WithNewIs ==
  ASSUME NEW f \in Graph, NEW n \in Nodes, NEW at \in Null, NEW h \in Nat, NEW s \in Links, s = SideOf(at, h),
         NEW c \in Null, c = IF at = 0 THEN 0 ELSE f[at][s], c # n, at # n, c = at => c = 0, f[0].count = 0
  PROVE  HasNew(f, WithNew(f, n, at, h), n, at, c, s, h)
<1> DEFINE R == [Cleared EXCEPT !.hash = h, !.p = at, !.count = 1]
           F0 == [f EXCEPT ![n] = R]
           F1 == Set(F0, c, "p", n)
           F2 == [F1 EXCEPT ![at][s] = n]
           F3 == [F2 EXCEPT ![n][s] = c]
           F4 == [F3 EXCEPT ![n].count = 1 + f[c].count]
<1>0. n \in Null /\ n # 0 /\ 0 \in Null /\ (\A k \in Links : k # "p") /\ f[c].count \in Int
  BY NodesAre DEF Null, Links, Graph, NodeRec
<1>1. /\ F0 \in Graph
      /\ \A z \in Null : \A k \in Links : F0[z][k] = IF z = n THEN 0 ELSE f[z][k]
      /\ \A z \in Null : /\ F0[z].p = IF z = n THEN at ELSE f[z].p
                         /\ F0[z].count = IF z = n THEN 1 ELSE f[z].count
                         /\ F0[z].hash = IF z = n THEN h ELSE f[z].hash
      /\ \A z \in Null \ {n} : F0[z] = f[z]
  <2>2. R \in NodeRec /\ R.p = at /\ R.count = 1 /\ R.hash = h /\ \A k \in Links : R[k] = 0
    <3>1. Fresh(R, h, at)
      BY DEF Fresh
    <3> HIDE DEF R
    <3> QED  BY <3>1, FreshIs
  <2> HIDE DEF R
  <2>3. /\ F0 \in Graph /\ F0[n] = R
        /\ \A z \in Null \ {n} : F0[z] = f[z]
    BY <1>0, <2>2 DEF Graph
  <2> HIDE DEF F0
  <2> QED  BY <2>2, <2>3
<1> HIDE DEF F0
<1>2. /\ F1 \in Graph
      /\ \A z \in Null : \A k \in Links : F1[z][k] = F0[z][k]
      /\ \A z \in Null : /\ F1[z].p = IF z = c /\ c # 0 THEN n ELSE F0[z].p
                         /\ F1[z].count = F0[z].count /\ F1[z].hash = F0[z].hash
      /\ \A z \in Null : z # c \/ c = 0 => F1[z] = F0[z]
  <2>1. HasParent(F0, F1, c, n)
    BY <1>0, <1>1, SetParent
  <2> QED  BY <2>1 DEF HasParent
<1> HIDE DEF F1
<1>3. CASE at = 0
  <2>1. WithNew(f, n, at, h) = F0
    BY <1>3 DEF WithNew, F0, R
  <2> QED  BY <1>0, <1>1, <1>3, <2>1 DEF HasNew
<1>4. CASE at # 0
  <2>1. /\ F2 \in Graph
        /\ \A z \in Null : \A k \in Links : F2[z][k] = IF z = at /\ k = s THEN n ELSE F1[z][k]
        /\ \A z \in Null : F2[z].p = F1[z].p /\ F2[z].count = F1[z].count /\ F2[z].hash = F1[z].hash
        /\ \A z \in Null \ {at} : F2[z] = F1[z]
    <3>1. PutLink(F1, F2, at, s, n)
      BY DEF PutLink
    <3> HIDE DEF F2
    <3>2. HasLink(F1, F2, at, s, n)
      BY <1>0, <1>2, <3>1, LinkPut
    <3> QED  BY <1>0, <3>2 DEF HasLink
  <2> HIDE DEF F2
  <2>2. /\ F3 \in Graph
        /\ \A z \in Null : \A k \in Links : F3[z][k] = IF z = n /\ k = s THEN c ELSE F2[z][k]
        /\ \A z \in Null : F3[z].p = F2[z].p /\ F3[z].count = F2[z].count /\ F3[z].hash = F2[z].hash
        /\ \A z \in Null \ {n} : F3[z] = F2[z]
    <3>1. PutLink(F2, F3, n, s, c)
      BY DEF PutLink
    <3> HIDE DEF F3
    <3>2. HasLink(F2, F3, n, s, c)
      BY <1>0, <2>1, <3>1, LinkPut
    <3> QED  BY <1>0, <3>2 DEF HasLink
  <2> HIDE DEF F3
  <2>3. /\ F4 \in Graph
        /\ \A z \in Null : \A k \in Links : F4[z][k] = F3[z][k]
        /\ \A z \in Null : /\ F4[z].p = F3[z].p /\ F4[z].hash = F3[z].hash
                           /\ F4[z].count = IF z = n THEN 1 + f[c].count ELSE F3[z].count
        /\ \A z \in Null \ {n} : F4[z] = F3[z]
    <3>1. PutCount(F3, F4, n, 1 + f[c].count)
      BY DEF PutCount
    <3> HIDE DEF F4
    <3>2. 1 + f[c].count \in Int
      BY <1>0
    <3>3. HasCount(F3, F4, n, 1 + f[c].count)
      BY <1>0, <2>2, <3>1, <3>2, CountPut
    <3> QED  BY <1>0, <3>3 DEF HasCount
  <2>4. WithNew(f, n, at, h) = F4
    BY <1>4 DEF WithNew, F0, F1, F2, F3, R
  <2> HIDE DEF F4
  <2> QED  BY <1>0, <1>1, <1>2, <1>4, <2>1, <2>2, <2>3, <2>4 DEF HasNew
<1> QED  BY <1>3, <1>4

\* The place of n among the nodes of T.
Placing(f, T, D, n, at, c, s, h) ==
  /\ n \in Nodes \ T /\ s \in Links /\ h \in Int
  /\ T = {} => at = 0 /\ c = 0
  /\ T # {} => /\ at \in T /\ c = f[at][s] /\ Path(f, T, D, at, h) /\ Sided(f, at, s, h)
               /\ s # "e" => c = 0

\* What is below the nodes with the new node n.
Grown(f, T, D, n, at, s) ==
  [z \in T \cup {n} |-> IF z = n THEN {n} \cup (IF at = 0 THEN {} ELSE Under(f, D, at, s))
                        ELSE IF at \in D[z] THEN D[z] \cup {n} ELSE D[z]]

\* What the nodes around the place of a new one are to each other.
LEMMA PlacingIs ==
  ASSUME NEW f \in Graph, NEW T, NEW D, Shape(f, T, D), NEW n, NEW at, NEW c, NEW s, NEW h,
         Placing(f, T, D, n, at, c, s, h)
  PROVE  /\ T \subseteq Null /\ T \cup {n} \subseteq Nodes /\ 0 \notin T /\ n # 0 /\ n \in Null /\ n \notin T /\ 0 \in Null
         /\ "e" \in Links /\ "a" \in Links /\ "l" \in Links /\ s \in Links
         /\ at \in T \cup {0} /\ c \in T \cup {0} /\ (at = 0 <=> T = {}) /\ (at = 0 => c = 0) /\ c # n /\ at # n
         /\ at # 0 => c = f[at][s] /\ c # at
         /\ c # 0 => f[c].p = at /\ s = "e"
         /\ \A z \in T : \A k \in Links : f[z][k] \in T \cup {0} /\ (f[z][k] # 0 => f[f[z][k]].p = z)
         /\ \A z \in T : f[z].p \in T \cup {0} /\ (f[z].p # 0 => \E k \in Links : f[f[z].p][k] = z)
         /\ \A z \in T : \A i, k \in Links : f[z][i] = f[z][k] /\ f[z][i] # 0 => i = k
         /\ \A z \in T : f[z]["e"] = at => at = 0
<1>1. /\ T \subseteq Null /\ T \cup {n} \subseteq Nodes /\ 0 \notin T /\ n # 0 /\ n \in Null /\ n \notin T /\ 0 \in Null
      /\ "e" \in Links /\ "a" \in Links /\ "l" \in Links /\ s \in Links
  BY NodesAre DEF Shape, Joined, Null, Links, Placing
<1>2. /\ \A z \in T : \A k \in Links : f[z][k] \in T \cup {0} /\ (f[z][k] # 0 => f[f[z][k]].p = z) /\ f[z][k] # z
      /\ \A z \in T : f[z].p \in T \cup {0} /\ (f[z].p # 0 => \E k \in Links : f[f[z].p][k] = z)
      /\ \A z \in T : \A i, k \in Links : f[z][i] = f[z][k] /\ f[z][i] # 0 => i = k
  BY UnderIs DEF Shape, Joined, Below
<1>3. /\ T = {} => at = 0 /\ c = 0
      /\ T # {} => at \in T /\ c = f[at][s] /\ (s # "e" => c = 0)
  BY DEF Placing
<1>4. \A z \in T : f[z]["e"] = at => at = 0
  <2>1. ASSUME NEW z \in T, f[z]["e"] = at, at # 0 PROVE FALSE
    <3>1. at \in Under(f, D, z, "e")
      BY <1>1, <2>1, UnderIs
    <3> QED  BY <1>1, <1>3, <2>1, <3>1 DEF Placing, Path
  <2> QED  BY <2>1
<1> QED  BY <1>1, <1>2, <1>3, <1>4

\* The new node and those around it are linked.
LEMMA NewLinked ==
  ASSUME NEW f \in Graph, NEW g \in Graph, NEW T, NEW D, Shape(f, T, D), NEW n, NEW at, NEW c, NEW s, NEW h,
         Placing(f, T, D, n, at, c, s, h), HasNew(f, g, n, at, c, s, h)
  PROVE  Joined(g, T \cup {n})
<1>1. /\ T \subseteq Null /\ T \cup {n} \subseteq Nodes /\ 0 \notin T /\ n # 0 /\ n \in Null /\ n \notin T
      /\ "e" \in Links /\ "a" \in Links /\ "l" \in Links /\ s \in Links
      /\ at \in T \cup {0} /\ c \in T \cup {0} /\ (at = 0 <=> T = {}) /\ (at = 0 => c = 0) /\ c # n /\ at # n
      /\ at # 0 => c = f[at][s] /\ c # at
      /\ c # 0 => f[c].p = at /\ s = "e"
  BY PlacingIs
<1>2. /\ \A z \in T : \A k \in Links : f[z][k] \in T \cup {0} /\ (f[z][k] # 0 => f[f[z][k]].p = z)
      /\ \A z \in T : f[z].p \in T \cup {0} /\ (f[z].p # 0 => \E k \in Links : f[f[z].p][k] = z)
      /\ \A z \in T : \A i, k \in Links : f[z][i] = f[z][k] /\ f[z][i] # 0 => i = k
      /\ \A z \in T : f[z]["e"] = at => at = 0
  BY PlacingIs
<1>3. /\ \A z \in T : \A k \in Links : g[z][k] = IF z = at /\ k = s THEN n ELSE f[z][k]
      /\ \A z \in T : g[z].p = IF z = c THEN n ELSE f[z].p
      /\ \A k \in Links : g[n][k] = IF k = s THEN c ELSE 0
      /\ g[n].p = at
  BY <1>1 DEF HasNew
<1>4. ASSUME NEW z \in T \cup {n}, NEW k \in Links
      PROVE  g[z][k] \in T \cup {n} \cup {0} /\ (g[z][k] # 0 => g[g[z][k]].p = z)
  <2>1. CASE z = n
    BY <1>1, <1>3, <2>1
  <2>2. CASE z = at /\ k = s /\ z # n
    BY <1>1, <1>3, <2>2
  <2>3. CASE z # n /\ ~ (z = at /\ k = s)
    <3>1. g[z][k] = f[z][k] /\ z \in T
      BY <1>3, <2>3
    <3>2. f[z][k] # 0 => f[z][k] # c
      BY <1>1, <1>2, <2>3
    <3> QED  BY <1>2, <1>3, <3>1, <3>2
  <2> QED  BY <2>1, <2>2, <2>3
<1>5. ASSUME NEW z \in T \cup {n}
      PROVE  g[z].p \in T \cup {n} \cup {0} /\ (g[z].p # 0 => \E k \in Links : g[g[z].p][k] = z)
  <2>1. CASE z = n
    BY <1>1, <1>3, <2>1
  <2>2. CASE z = c /\ z # n
    BY <1>1, <1>3, <2>2
  <2>3. CASE z # n /\ z # c
    <3>1. g[z].p = f[z].p /\ z \in T /\ f[z].p \in T \cup {0}
      BY <1>2, <1>3, <2>3
    <3>2. ASSUME f[z].p # 0 PROVE \E k \in Links : g[f[z].p][k] = z
      <4>1. PICK k \in Links : f[f[z].p][k] = z
        BY <1>2, <3>1, <3>2
      <4>2. ~ (f[z].p = at /\ k = s)
        BY <1>1, <2>3, <4>1
      <4> QED  BY <1>3, <3>1, <3>2, <4>1, <4>2
    <3> QED  BY <3>1, <3>2
  <2> QED  BY <2>1, <2>2, <2>3
<1>6. ASSUME NEW z \in T \cup {n}, NEW i \in Links, NEW k \in Links, g[z][i] = g[z][k], g[z][i] # 0
      PROVE  i = k
  <2>1. CASE z = n
    BY <1>3, <1>6, <2>1
  <2>2. CASE z # n
    BY <1>1, <1>2, <1>3, <1>6, <2>2
  <2> QED  BY <2>1, <2>2
<1>7. ASSUME NEW z \in T \cup {n}, g[z].e # 0
      PROVE  g[g[z].e].a = 0 /\ g[g[z].e].l = 0
  <2>0. \A w \in T : f[w]["e"] # 0 => f[f[w]["e"]]["a"] = 0 /\ f[f[w]["e"]]["l"] = 0
    BY DEF Shape, Joined
  <2>1. CASE z = n
    <3>1. g[z]["e"] = c /\ c # 0 /\ s = "e" /\ c \in T /\ at \in T /\ c # at
      BY <1>1, <1>3, <1>7, <2>1
    <3>2. f[c]["a"] = 0 /\ f[c]["l"] = 0
      BY <1>1, <2>0, <3>1
    <3>3. g[c]["a"] = 0 /\ g[c]["l"] = 0
      BY <1>1, <1>3, <3>1, <3>2
    <3> QED  BY <3>1, <3>3
  <2>2. CASE z = at /\ s = "e" /\ z # n
    <3>1. g[z]["e"] = n
      BY <1>1, <1>3, <2>2
    <3>2. g[n]["a"] = 0 /\ g[n]["l"] = 0
      BY <1>1, <1>3, <2>2
    <3> QED  BY <3>1, <3>2
  <2>3. CASE z # n /\ ~ (z = at /\ s = "e")
    <3> DEFINE v == f[z]["e"]
    <3>1. g[z]["e"] = v /\ v \in T /\ v # at
      BY <1>1, <1>2, <1>3, <1>7, <2>3
    <3>2. f[v]["a"] = 0 /\ f[v]["l"] = 0
      BY <2>0, <2>3, <3>1, <1>1
    <3> HIDE DEF v
    <3>3. g[v]["a"] = 0 /\ g[v]["l"] = 0
      BY <1>1, <1>3, <3>1, <3>2
    <3> QED  BY <3>1, <3>3
  <2> QED  BY <2>1, <2>2, <2>3
<1> QED  BY <1>1, <1>4, <1>5, <1>6, <1>7 DEF Joined

\* With the new node there is a tree again, with it on top when there was none.
LEMMA NewShape ==
  ASSUME NEW f \in Graph, NEW g \in Graph, NEW T, NEW D, Shape(f, T, D), NEW n, NEW at, NEW c, NEW s, NEW h,
         Placing(f, T, D, n, at, c, s, h), HasNew(f, g, n, at, c, s, h)
  PROVE  \E E : /\ Shape(g, T \cup {n}, E)
                /\ \A r : Top(f, T, D, r) => Top(g, T \cup {n}, E, IF at = 0 THEN n ELSE r)
<1> DEFINE E == Grown(f, T, D, n, at, s)
           U == T \cup {n}
<1>1. /\ T \subseteq Null /\ T \cup {n} \subseteq Nodes /\ 0 \notin T /\ n # 0 /\ n \in Null /\ n \notin T
      /\ "e" \in Links /\ "a" \in Links /\ "l" \in Links /\ s \in Links
      /\ at \in T \cup {0} /\ c \in T \cup {0} /\ (at = 0 <=> T = {}) /\ (at = 0 => c = 0) /\ c # n /\ at # n
      /\ at # 0 => c = f[at][s] /\ c # at
      /\ c # 0 => f[c].p = at /\ s = "e"
  BY PlacingIs
<1>2. \A z \in T : \A k \in Links : f[z][k] \in T \cup {0}
  BY PlacingIs
<1>3. /\ \A z \in T : \A k \in Links : g[z][k] = IF z = at /\ k = s THEN n ELSE f[z][k]
      /\ \A z \in T : g[z].p = IF z = c THEN n ELSE f[z].p
      /\ \A k \in Links : g[n][k] = IF k = s THEN c ELSE 0
      /\ g[n].p = at /\ g[n].hash = h
      /\ \A z \in T : g[z].hash = f[z].hash
  BY <1>1 DEF HasNew
<1>4. /\ \A z \in T : \A m : m \in D[z] <=> m = z \/ \E k \in Links : m \in Under(f, D, z, k)
      /\ \A z \in T : \A k \in Links : z \notin Under(f, D, z, k)
      /\ \A z \in T : \A k \in Links : \A m \in Under(f, D, z, k) : Sided(f, z, k, f[m].hash)
      /\ \A z \in T : D[z] \subseteq T
  BY DEF Shape, Below
<1>5. /\ \A z \in T : E[z] = IF at \in D[z] THEN D[z] \cup {n} ELSE D[z]
      /\ E[n] = {n} \cup (IF at = 0 THEN {} ELSE Under(f, D, at, s))
  BY <1>1 DEF Grown
<1>6. E \in [U -> SUBSET U]
  <2>1. at # 0 => Under(f, D, at, s) \subseteq T
    BY <1>1, UnderIs
  <2> QED  BY <1>1, <1>4, <2>1 DEF Grown
<1> HIDE DEF E
<1>7. /\ at # 0 => Under(f, D, at, s) = IF c = 0 THEN {} ELSE D[c]
      /\ c # 0 => at \notin D[c]
  BY <1>1, <1>4 DEF Under
<1>8. ASSUME NEW z \in T, NEW k \in Links
      PROVE  Under(g, E, z, k) = IF (z = at /\ k = s) \/ at \in Under(f, D, z, k)
                                 THEN Under(f, D, z, k) \cup {n} ELSE Under(f, D, z, k)
  <2>1. CASE z = at /\ k = s
    <3>1. g[z][k] = n /\ at # 0
      BY <1>1, <1>3, <2>1
    <3> QED  BY <1>1, <1>5, <2>1, <3>1 DEF Under
  <2>2. CASE ~ (z = at /\ k = s)
    <3>1. g[z][k] = f[z][k] /\ f[z][k] \in T \cup {0}
      BY <1>2, <1>3, <2>2
    <3> QED  BY <1>5, <2>2, <3>1 DEF Under
  <2> QED  BY <2>1, <2>2
<1>9. ASSUME NEW k \in Links
      PROVE  Under(g, E, n, k) = IF k = s /\ at # 0 THEN Under(f, D, at, s) ELSE {}
  <2>1. c # 0 => E[c] = D[c]
    BY <1>1, <1>5, <1>7
  <2> QED  BY <1>1, <1>3, <1>7, <2>1 DEF Under
<1>10. ASSUME NEW z \in U, NEW m PROVE m \in E[z] <=> m = z \/ \E k \in Links : m \in Under(g, E, z, k)
  <2>1. CASE z = n
    BY <1>1, <1>5, <1>9, <2>1
  <2>2. CASE z \in T /\ m = n
    <3>1. \A k \in Links : n \notin Under(f, D, z, k)
      BY <1>1, <2>2, UnderIs
    <3>2. n \notin D[z]
      BY <1>1, <1>4, <2>2
    <3>3. at \in D[z] <=> at = z \/ \E k \in Links : at \in Under(f, D, z, k)
      BY <1>4, <2>2
    <3> QED  BY <1>1, <1>5, <1>8, <2>2, <3>1, <3>2, <3>3
  <2>3. CASE z \in T /\ m # n
    <3>1. m \in E[z] <=> m \in D[z]
      BY <1>5, <2>3
    <3>2. \A k \in Links : m \in Under(g, E, z, k) <=> m \in Under(f, D, z, k)
      BY <1>8, <2>3
    <3> QED  BY <1>4, <2>3, <3>1, <3>2
  <2> QED  BY <2>1, <2>2, <2>3
<1>11. ASSUME NEW z \in U, NEW k \in Links PROVE z \notin Under(g, E, z, k)
  <2>1. CASE z = n
    <3>1. at # 0 => n \notin Under(f, D, at, s)
      BY <1>1, UnderIs
    <3> QED  BY <1>9, <2>1, <3>1
  <2>2. CASE z # n
    BY <1>4, <1>8, <2>2
  <2> QED  BY <2>1, <2>2
<1>12. ASSUME NEW z \in U, NEW k \in Links, NEW m \in Under(g, E, z, k) PROVE Sided(g, z, k, g[m].hash)
  <2>1. CASE z = n
    <3>1. at # 0 /\ k = s /\ m \in Under(f, D, at, s)
      BY <1>9, <2>1
    <3>2. s = "e" /\ m \in T /\ at \in T
      <4>1. c # 0
        BY <1>7, <3>1
      <4> QED  BY <1>1, <3>1, <4>1, UnderIs
    <3>3. Sided(f, at, "e", f[m].hash) /\ Sided(f, at, "e", h)
      BY <1>1, <1>4, <3>1, <3>2 DEF Placing
    <3> QED  BY <1>3, <2>1, <3>1, <3>2, <3>3 DEF Sided
  <2>2. CASE z # n /\ m = n
    <3>1. n \notin Under(f, D, z, k)
      BY <1>1, <2>2, UnderIs
    <3>2. (z = at /\ k = s) \/ at \in Under(f, D, z, k)
      BY <1>8, <2>2, <3>1
    <3>3. Sided(f, z, k, h)
      BY <1>1, <2>2, <3>2 DEF Placing, Path
    <3> QED  BY <1>3, <2>2, <3>3 DEF Sided
  <2>3. CASE z # n /\ m # n
    <3>1. m \in Under(f, D, z, k)
      BY <1>8, <2>3
    <3>2. Sided(f, z, k, f[m].hash) /\ m \in T
      BY <1>4, <2>3, <3>1, UnderIs
    <3> QED  BY <1>3, <2>3, <3>2 DEF Sided
  <2> QED  BY <2>1, <2>2, <2>3
<1>13. Shape(g, U, E)
  BY <1>6, <1>10, <1>11, <1>12, NewLinked DEF Shape, Below
<1>14. ASSUME NEW r, Top(f, T, D, r) PROVE Top(g, U, E, IF at = 0 THEN n ELSE r)
  <2>1. CASE at = 0
    <3>1. T = {} /\ U = {n} /\ U # {} /\ E[n] = {n} /\ g[n].p = 0
      BY <1>1, <1>3, <1>5, <2>1
    <3> QED  BY <2>1, <3>1 DEF Top
  <2>2. CASE at # 0
    <3>1. r \in T /\ f[r].p = 0 /\ D[r] = T /\ \A z \in T : f[z].p = 0 => z = r
      BY <1>1, <1>14, <2>2 DEF Top
    <3>2. r # c /\ at \in T
      BY <1>1, <2>2, <3>1
    <3>3. r \in U /\ g[r].p = 0 /\ E[r] = U
      BY <1>3, <1>5, <3>1, <3>2
    <3>4. \A z \in U : g[z].p = 0 => z = r
      BY <1>1, <1>3, <2>2, <3>1
    <3> QED  BY <2>2, <3>3, <3>4 DEF Top
  <2> QED  BY <2>1, <2>2
<1> QED  BY <1>13, <1>14

\* All that were counted before their new node came count right.
LEMMA NewCounts ==
  ASSUME NEW f \in Graph, NEW g \in Graph, NEW T, NEW D, Shape(f, T, D), NEW n, NEW at, NEW c, NEW s, NEW h,
         Placing(f, T, D, n, at, c, s, h), HasNew(f, g, n, at, c, s, h), Counted(f, T, {at})
  PROVE  Counted(g, T \cup {n}, {})
<1>1. /\ T \subseteq Null /\ 0 \notin T /\ n # 0 /\ n \in Null /\ n \notin T /\ 0 \in Null
      /\ "e" \in Links /\ "a" \in Links /\ "l" \in Links /\ s \in Links
      /\ at \in T \cup {0} /\ c \in T \cup {0} /\ (at = 0 <=> T = {}) /\ (at = 0 => c = 0) /\ c # n /\ at # n
      /\ at # 0 => c = f[at][s] /\ c # at
  BY PlacingIs
<1>2. /\ \A z \in T : \A k \in Links : f[z][k] \in T \cup {0}
      /\ \A z \in T : \A i, k \in Links : f[z][i] = f[z][k] /\ f[z][i] # 0 => i = k
  BY PlacingIs
<1>3. /\ \A z \in T : \A k \in Links : g[z][k] = IF z = at /\ k = s THEN n ELSE f[z][k]
      /\ \A k \in Links : g[n][k] = IF k = s THEN c ELSE 0
      /\ \A z \in T \cup {0} : g[z].count = f[z].count
      /\ g[n].count = 1 + f[c].count
  BY <1>1 DEF HasNew
<1>4. /\ \A z \in T : f[z].count \in Nat \ {0} /\ f[z].count = Size(f, z) + IF z \in {at} THEN 1 ELSE 0
      /\ f[0].count = 0 /\ \A z \in T : Size(f, z) \in Int
  BY <1>1, SizeInt DEF Counted
<1>5. f[c].count \in Nat /\ g[c].count = f[c].count /\ g[0].count = 0 /\ \A z \in T : \A k \in Links : f[f[z][k]].count \in Nat
  BY <1>1, <1>2, <1>3, <1>4
<1>6. Size(g, n) = 1 + f[c].count
  <2>1. /\ s = "e" \/ s = "a" \/ s = "l"
        /\ g[n].e = (IF "e" = s THEN c ELSE 0) /\ g[n].a = (IF "a" = s THEN c ELSE 0) /\ g[n].l = (IF "l" = s THEN c ELSE 0)
    BY <1>1, <1>3, LinksAre
  <2>2. Size(g, n) = 1 + g[g[n].e].count + g[g[n].a].count + g[g[n].l].count
    BY DEF Size
  <2> QED  BY <1>5, <2>1, <2>2
<1>7. ASSUME NEW z \in T, z # at PROVE Size(g, z) = Size(f, z)
  <2>1. \A k \in Links : g[g[z][k]].count = f[f[z][k]].count
    BY <1>2, <1>3, <1>7
  <2> QED  BY <1>1, <2>1, SizeSame
<1>8. ASSUME at \in T PROVE Size(g, at) = Size(f, at) + 1
  <2>1. \A i \in Links : g[g[at][i]].count = IF i = s THEN f[f[at][i]].count + 1 ELSE f[f[at][i]].count
    <3>1. g[g[at][s]].count = 1 + f[f[at][s]].count
      BY <1>1, <1>3, <1>8
    <3>2. \A i \in Links : i # s => g[at][i] = f[at][i] /\ g[g[at][i]].count = f[f[at][i]].count
      BY <1>2, <1>3, <1>8
    <3> QED  BY <1>1, <1>5, <1>8, <3>1, <3>2
  <2>2. /\ s = "e" \/ s = "a" \/ s = "l"
        /\ \A i \in Links : f[f[at][i]].count \in Int
    BY <1>1, <1>5, <1>8, LinksAre
  <2>3. /\ g[g[at].e].count = IF s = "e" THEN f[f[at].e].count + 1 ELSE f[f[at].e].count
        /\ g[g[at].a].count = IF s = "a" THEN f[f[at].a].count + 1 ELSE f[f[at].a].count
        /\ g[g[at].l].count = IF s = "l" THEN f[f[at].l].count + 1 ELSE f[f[at].l].count
        /\ f[f[at].e].count \in Int /\ f[f[at].a].count \in Int /\ f[f[at].l].count \in Int
    BY <1>1, <2>1, <2>2
  <2> QED  BY <2>2, <2>3 DEF Size
<1>9. ASSUME NEW z \in T \cup {n}
      PROVE  g[z].count \in Nat \ {0} /\ g[z].count = Size(g, z)
  <2>1. CASE z = n
    BY <1>3, <1>5, <1>6, <2>1
  <2>2. CASE z = at /\ z # n
    BY <1>3, <1>4, <1>8, <2>2
  <2>3. CASE z # at /\ z # n
    <3>1. f[z].count = Size(f, z)
      BY <1>4, <2>3
    <3> QED  BY <1>3, <1>4, <1>7, <2>3, <3>1
  <2> QED  BY <2>1, <2>2, <2>3
<1>10. \A z \in T \cup {n} : Size(g, z) \in Int
  BY <1>1, SizeInt
<1> QED  BY <1>5, <1>9, <1>10 DEF Counted

\* The nodes that steps lead to one after the other.
Walk(at, r, st, K) == at[0] = r /\ \A k \in 1 .. K : at[k] = st[at[k - 1]]

\* There is a walk of any length.
LEMMA WalkExists ==
  ASSUME NEW S, NEW r \in S, NEW st \in [S -> S], NEW K \in Nat
  PROVE  \E at \in [0 .. K -> S] : Walk(at, r, st, K)
<1> DEFINE Bad == {k \in Nat : ~ \E at \in [0 .. k -> S] : Walk(at, r, st, k)}
<1>1. SUFFICES ASSUME Bad # {} PROVE FALSE
  OBVIOUS
<1>2. PICK k \in Bad : \A j \in Bad : k <= j
  <2>1. Bad \in SUBSET Nat /\ Bad # {}
    BY <1>1
  <2> HIDE DEF Bad
  <2> QED  BY <2>1, Earliest
<1>3. CASE k = 0
  <2>1. [i \in 0 .. 0 |-> r] \in [0 .. 0 -> S] /\ Walk([i \in 0 .. 0 |-> r], r, st, 0)
    BY DEF Walk
  <2> QED  BY <1>2, <1>3, <2>1
<1>4. CASE k # 0
  <2>1. k - 1 \in Nat /\ k - 1 \notin Bad
    BY <1>2, <1>4
  <2>2. PICK g \in [0 .. k - 1 -> S] : Walk(g, r, st, k - 1)
    BY <2>1
  <2> DEFINE w == [i \in 0 .. k |-> IF i = k THEN st[g[k - 1]] ELSE g[i]]
  <2>3. w \in [0 .. k -> S]
    BY <2>1
  <2>4. Walk(w, r, st, k)
    <3>1. w[0] = r
      BY <1>2, <1>4, <2>2 DEF Walk
    <3>2. ASSUME NEW i \in 1 .. k PROVE w[i] = st[w[i - 1]]
      <4>1. i - 1 \in 0 .. k - 1 /\ i - 1 # k
        BY <1>2
      <4>2. w[i - 1] = g[i - 1]
        BY <4>1, <1>2
      <4>3. CASE i = k
        BY <4>2, <4>3, <1>2
      <4>4. CASE i # k
        BY <4>2, <4>4, <1>2, <2>2 DEF Walk
      <4> QED  BY <4>3, <4>4
    <3> QED  BY <3>1, <3>2 DEF Walk
  <2> QED  BY <1>2, <2>3, <2>4
<1> QED  BY <1>3, <1>4

\* A function that takes the steps is a walk.
Stepping(at, r, st, S, K) ==
  /\ at = [k \in 0 .. K |-> at[k]] /\ at[0] = r
  /\ \A k \in 1 .. K : at[k - 1] \in S => at[k] = st[at[k - 1]]

\* The function that Search and Found define is the walk.
LEMMA WalkIs ==
  ASSUME NEW S, NEW r \in S, NEW st \in [S -> S], NEW K \in Nat, NEW at,
         Stepping(at, r, st, S, K)
  PROVE  at \in [0 .. K -> S] /\ Walk(at, r, st, K)
<1>0. at[0] = r /\ \A k \in 1 .. K : at[k - 1] \in S => at[k] = st[at[k - 1]]
  BY DEF Stepping
<1> DEFINE Bad == {k \in 0 .. K : at[k] \notin S}
<1>1. Bad = {}
  <2>1. SUFFICES ASSUME Bad # {} PROVE FALSE
    OBVIOUS
  <2>2. PICK k \in Bad : \A j \in Bad : k <= j
    <3>1. Bad \in SUBSET Nat
      OBVIOUS
    <3> HIDE DEF Bad
    <3> QED  BY <2>1, <3>1, Earliest
  <2>3. k # 0
    BY <1>0, <2>2
  <2>4. k - 1 \in 0 .. K /\ k - 1 \notin Bad /\ k \in 1 .. K
    BY <2>2, <2>3
  <2> QED  BY <1>0, <2>2, <2>4
<1>2. \A k \in 0 .. K : at[k] \in S
  BY <1>1
<1>3. at \in [0 .. K -> S]
  BY <1>2 DEF Stepping
<1>4. \A k \in 1 .. K : k - 1 \in 0 .. K
  OBVIOUS
<1> QED  BY <1>0, <1>2, <1>3, <1>4 DEF Walk

-----------------------------------------------------------------------------
\* The step of a search, and the step along a chain.
Toward(h) == [x \in Null |-> IF x = 0 \/ SideOf(x, h) = "e" THEN x ELSE node[x][SideOf(x, h)]]
\* The walk along a chain.
Along == [x \in Null |-> node[x].e]

\* Nodes and NULL are an interval, which Search counts its steps by.
LEMMA NullIs == Null = 0 .. MaxNodes + Chunk /\ MaxNodes + Chunk \in Nat
  BY TreeAssumption DEF Null, Nodes

\* SideOf tells the side of a hash.
LEMMA SideIs ==
  ASSUME NEW x, NEW h \in Int, node[x].hash \in Int
  PROVE  SideOf(x, h) \in Links /\ Sided(node, x, SideOf(x, h), h) /\ (SideOf(x, h) = "e" <=> node[x].hash = h)
  BY DEF SideOf, Links, Sided

\* Search is the end of a walk from the root towards the hash.
LEMMA SearchIs ==
  ASSUME NEW t, NEW h \in Int, node \in Graph, root[t] \in Null
  PROVE  \E at \in [0 .. MaxNodes + Chunk -> Null] :
           /\ Walk(at, root[t], Toward(h), MaxNodes + Chunk)
           /\ Search(t, h) = at[MaxNodes + Chunk]
<1> DEFINE K == MaxNodes + Chunk
           Eq(w) == w = [k \in Nodes \cup {0} |-> IF k = 0 THEN root[t]
                          ELSE LET x == w[k - 1]
                               IN  IF x = 0 \/ SideOf(x, h) = "e" THEN x ELSE node[x][SideOf(x, h)]]
           at == CHOOSE w : Eq(w)
<1>1. /\ Toward(h) \in [Null -> Null]
      /\ \A x \in Null : Toward(h)[x] = IF x = 0 \/ SideOf(x, h) = "e" THEN x ELSE node[x][SideOf(x, h)]
  <2>1. \A x \in Null : SideOf(x, h) \in Links
    BY DEF SideOf, Links
  <2> QED  BY <2>1, LinksAre DEF Toward
<1>2. K \in Nat /\ Null = 0 .. K /\ Nodes \cup {0} = 0 .. K
  BY NullIs DEF Null
<1>3. PICK w \in [0 .. K -> Null] : Walk(w, root[t], Toward(h), K)
  BY <1>1, <1>2, WalkExists
<1>4. Eq(w)
  <2>1. ASSUME NEW k \in 0 .. K
        PROVE  w[k] = IF k = 0 THEN root[t]
                      ELSE LET x == w[k - 1]
                           IN  IF x = 0 \/ SideOf(x, h) = "e" THEN x ELSE node[x][SideOf(x, h)]
    <3>1. CASE k = 0
      BY <1>3, <3>1 DEF Walk
    <3>2. CASE k # 0
      <4>1. k \in 1 .. K /\ k - 1 \in 0 .. K
        BY <1>2, <3>2
      <4>2. w[k] = Toward(h)[w[k - 1]] /\ w[k - 1] \in Null
        BY <1>3, <4>1 DEF Walk
      <4> QED  BY <1>1, <3>2, <4>2
    <3> QED  BY <3>1, <3>2
  <2> HIDE DEF K
  <2> QED  BY <1>2, <1>3, <2>1
<1>5. Eq(at)
  <2> HIDE DEF Eq
  <2> QED  BY <1>4
<1> HIDE DEF at
<1>6. at = [k \in 0 .. K |-> at[k]] /\ at[0] = root[t]
  BY <1>2, <1>5
<1>7. ASSUME NEW k \in 1 .. K, at[k - 1] \in Null PROVE at[k] = Toward(h)[at[k - 1]]
  <2>1. k \in Nodes \cup {0} /\ k # 0
    BY <1>2, SMTT(30)
  <2>2. at[k] = IF at[k - 1] = 0 \/ SideOf(at[k - 1], h) = "e" THEN at[k - 1] ELSE node[at[k - 1]][SideOf(at[k - 1], h)]
    BY <1>5, <2>1
  <2> QED  BY <1>1, <1>7, <2>2
<1>8. at \in [0 .. K -> Null] /\ Walk(at, root[t], Toward(h), K)
  <2> HIDE DEF K, Eq
  <2>1. Stepping(at, root[t], Toward(h), Null, K)
    BY <1>6, <1>7 DEF Stepping
  <2> QED  BY <1>1, <1>2, <2>1, WalkIs
<1>9. Search(t, h) = at[K]
  BY DEF Search, at
<1> QED  BY <1>8, <1>9

\* Found has the nodes of a walk along the chain.
LEMMA FoundIs ==
  ASSUME NEW t, NEW h \in Int, node \in Graph, Search(t, h) \in Null
  PROVE  \E at \in [0 .. MaxNodes + Chunk -> Null] :
           /\ Walk(at, Search(t, h), Along, MaxNodes + Chunk)
           /\ Found(t, h) = {at[k] : k \in 0 .. MaxNodes + Chunk} \ {0}
<1> DEFINE K == MaxNodes + Chunk
           Eq(w) == w = [k \in Nodes \cup {0} |-> IF k = 0 THEN Search(t, h) ELSE node[w[k - 1]].e]
           at == CHOOSE w : Eq(w)
<1>1. /\ Along \in [Null -> Null]
      /\ \A x \in Null : Along[x] = node[x].e
  BY DEF Along, Graph, NodeRec
<1>2. K \in Nat /\ Null = 0 .. K /\ Nodes \cup {0} = 0 .. K
  BY NullIs DEF Null
<1>3. PICK w \in [0 .. K -> Null] : Walk(w, Search(t, h), Along, K)
  BY <1>1, <1>2, WalkExists
<1>4. Eq(w)
  <2>1. ASSUME NEW k \in 0 .. K
        PROVE  w[k] = IF k = 0 THEN Search(t, h) ELSE node[w[k - 1]].e
    <3>1. CASE k = 0
      BY <1>3, <3>1 DEF Walk
    <3>2. CASE k # 0
      <4>1. k \in 1 .. K /\ k - 1 \in 0 .. K
        BY <1>2, <3>2
      <4>2. w[k] = Along[w[k - 1]] /\ w[k - 1] \in Null
        BY <1>3, <4>1 DEF Walk
      <4> QED  BY <1>1, <3>2, <4>2
    <3> QED  BY <3>1, <3>2
  <2> HIDE DEF K
  <2> QED  BY <1>2, <1>3, <2>1
<1>5. Eq(at)
  <2> HIDE DEF Eq
  <2> QED  BY <1>4
<1> HIDE DEF at
<1>6. at = [k \in 0 .. K |-> at[k]] /\ at[0] = Search(t, h)
  BY <1>2, <1>5
<1>7. ASSUME NEW k \in 1 .. K, at[k - 1] \in Null PROVE at[k] = Along[at[k - 1]]
  <2>1. k \in Nodes \cup {0} /\ k # 0
    BY <1>2
  <2>2. at[k] = node[at[k - 1]].e
    BY <1>5, <2>1
  <2> QED  BY <1>1, <1>7, <2>2
<1>8. at \in [0 .. K -> Null] /\ Walk(at, Search(t, h), Along, K)
  <2> HIDE DEF K, Eq
  <2>1. Stepping(at, Search(t, h), Along, Null, K)
    BY <1>6, <1>7 DEF Stepping
  <2> QED  BY <1>1, <1>2, <2>1, WalkIs
<1>9. Found(t, h) = {at[k] : k \in Nodes \cup {0}} \ {0}
  BY DEF Found, at
<1>10. {at[k] : k \in Nodes \cup {0}} = {at[k] : k \in 0 .. K}
  BY <1>2
<1> QED  BY <1>8, <1>9, <1>10

-----------------------------------------------------------------------------
\* A search in a tree finds the nodes of a hash.
LEMMA SearchFinds ==
  ASSUME NEW t, NEW T, NEW D, NEW h \in Int, node \in Graph, node[0].e = 0, Shape(node, T, D),
         Top(node, T, D, root[t])
  PROVE  /\ Found(t, h) \subseteq T
         /\ \A n \in T : node[n].hash = h => /\ n \in Found(t, h) /\ Search(t, h) \in Found(t, h)
                                             /\ node[Search(t, h)].hash = h
<1> DEFINE K == MaxNodes + Chunk
<1>1. K \in Nat /\ T \subseteq Null /\ 0 \in Null /\ 0 \notin T /\ root[t] \in T \cup {0} /\ root[t] \in Null
  BY NodesAre, NullIs DEF Shape, Joined, Null, Top
<1>2. PICK at \in [0 .. K -> Null] : Walk(at, root[t], Toward(h), K) /\ Search(t, h) = at[K]
  BY <1>1, SearchIs
<1>3. Search(t, h) \in Null
  BY <1>1, <1>2
<1>4. PICK ch \in [0 .. K -> Null] : /\ Walk(ch, Search(t, h), Along, K)
                                     /\ Found(t, h) = {ch[k] : k \in 0 .. K} \ {0}
  BY <1>3, FoundIs
<1>5. \A x \in Null : /\ Along[x] = node[x].e
                      /\ Toward(h)[x] = IF x = 0 \/ SideOf(x, h) = "e" THEN x ELSE node[x][SideOf(x, h)]
                      /\ SideOf(x, h) \in Links /\ Sided(node, x, SideOf(x, h), h)
                      /\ (SideOf(x, h) = "e" <=> node[x].hash = h) /\ node[x].hash \in Int
  <2>1. \A x \in Null : node[x].hash \in Int
    BY DEF Graph, NodeRec
  <2> QED  BY <2>1, SideIs DEF Along, Toward
<1>6. \A x \in T : \A d \in Links : node[x][d] \in T \cup {0}
  BY DEF Shape, Joined
<1> HIDE DEF K
<1>7. \A k \in 0 .. K : at[k] \in T \cup {0}
  <2> DEFINE Bad == {k \in 0 .. K : at[k] \notin T \cup {0}}
  <2>1. SUFFICES ASSUME Bad # {} PROVE FALSE
    OBVIOUS
  <2>2. PICK k \in Bad : \A j \in Bad : k <= j
    <3>1. Bad \in SUBSET Nat
      OBVIOUS
    <3> HIDE DEF Bad
    <3> QED  BY <2>1, <3>1, Earliest
  <2>3. k # 0
    BY <1>1, <1>2, <2>2 DEF Walk
  <2>4. k - 1 \in 0 .. K /\ k - 1 \notin Bad /\ k \in 1 .. K
    BY <1>1, <2>2, <2>3
  <2>5. at[k] = Toward(h)[at[k - 1]] /\ at[k - 1] \in T \cup {0} /\ at[k - 1] \in Null
    BY <1>2, <2>4 DEF Walk
  <2> QED  BY <1>5, <1>6, <2>2, <2>5
<1>8. \A k \in 0 .. K : ch[k] \in T \cup {0}
  <2> DEFINE Bad == {k \in 0 .. K : ch[k] \notin T \cup {0}}
  <2>1. SUFFICES ASSUME Bad # {} PROVE FALSE
    OBVIOUS
  <2>2. PICK k \in Bad : \A j \in Bad : k <= j
    <3>1. Bad \in SUBSET Nat
      OBVIOUS
    <3> HIDE DEF Bad
    <3> QED  BY <2>1, <3>1, Earliest
  <2>3. k # 0
    <3>1. ch[0] = at[K] /\ at[K] \in T \cup {0}
      BY <1>1, <1>2, <1>4, <1>7 DEF Walk
    <3> QED  BY <2>2, <3>1
  <2>4. k - 1 \in 0 .. K /\ k - 1 \notin Bad /\ k \in 1 .. K
    BY <1>1, <2>2, <2>3
  <2>5. ch[k] = Along[ch[k - 1]] /\ ch[k - 1] \in T \cup {0} /\ ch[k - 1] \in Null
    BY <1>4, <2>4 DEF Walk
  <2>6. node[ch[k - 1]].e \in T \cup {0}
    BY <1>6, <2>5, LinksAre
  <2> QED  BY <1>5, <2>2, <2>5, <2>6
<1>9. Found(t, h) \subseteq T
  BY <1>4, <1>8
<1>10. ASSUME NEW n \in T, node[n].hash = h
       PROVE  n \in Found(t, h) /\ Search(t, h) \in Found(t, h) /\ node[Search(t, h)].hash = h
  <2> DEFINE On(x, k) == /\ x \in T /\ n \in D[x]
                         /\ node[x].hash = h \/ Cardinality(D[x]) + k <= K
             Past(x, k) == /\ x \in T /\ n \in D[x] /\ n # x /\ node[x].hash = h
                           /\ Cardinality(D[x]) + k <= K
  <2>1. /\ \A x \in T : Cardinality(D[x]) \in Nat /\ IsFiniteSet(D[x]) /\ Cardinality(D[x]) <= K
        /\ \A x \in T : \A d \in Links : node[x][d] # 0 => Cardinality(D[node[x][d]]) < Cardinality(D[x])
    BY BelowFewer DEF K
  <2>2. \A x \in T : n \in D[x] => Cardinality(D[x]) # 0
    BY <2>1, FS_EmptySet
  <2>3. \A x \in T : n \in D[x] => n = x \/ \E d \in Links : n \in Under(node, D, x, d)
    BY DEF Shape, Below
  <2>4. \A x \in T : \A d \in Links : n \in Under(node, D, x, d) =>
           /\ Sided(node, x, d, h) /\ node[x][d] \in T /\ node[x][d] # 0 /\ n \in D[node[x][d]]
    <3>1. ASSUME NEW x \in T, NEW d \in Links, n \in Under(node, D, x, d)
          PROVE  Sided(node, x, d, h) /\ node[x][d] \in T /\ node[x][d] # 0 /\ n \in D[node[x][d]]
      <4>1. node[x][d] # 0
        BY <3>1 DEF Under
      <4>2. Sided(node, x, d, node[n].hash)
        BY <3>1 DEF Shape, Below
      <4> QED  BY <1>10, <3>1, <4>1, <4>2, UnderIs
    <3> QED  BY <3>1
  <2>5. \A k \in 0 .. K : On(at[k], k)
    <3> DEFINE Bad == {k \in 0 .. K : ~ On(at[k], k)}
    <3>1. SUFFICES ASSUME Bad # {} PROVE FALSE
      OBVIOUS
    <3>2. PICK k \in Bad : \A j \in Bad : k <= j
      <4>1. Bad \in SUBSET Nat
        OBVIOUS
      <4> HIDE DEF Bad
      <4> QED  BY <3>1, <4>1, Earliest
    <3>3. k # 0
      <4>1. at[0] \in T /\ D[at[0]] = T
        BY <1>2, <1>10 DEF Walk, Top
      <4>2. On(at[0], 0)
        BY <2>1, <4>1, <1>1
      <4> QED  BY <3>2, <4>2
    <3>4. k - 1 \in 0 .. K /\ k - 1 \notin Bad /\ k \in 1 .. K
      BY <1>1, <3>2, <3>3
    <3> DEFINE x == at[k - 1]
    <3>5. at[k] = Toward(h)[x] /\ On(x, k - 1)
      BY <1>2, <3>4 DEF Walk
    <3>6. ~ On(at[k], k) /\ k \in Int
      BY <3>2
    <3> HIDE DEF x, Bad
    <3>7. CASE node[x].hash = h
      <4>1. at[k] = x
        BY <1>1, <1>5, <3>5, <3>7
      <4> QED  BY <3>5, <3>6, <3>7, <4>1
    <3>8. CASE node[x].hash # h
      <4>1. n # x
        BY <1>10, <3>8
      <4>2. PICK d \in Links : n \in Under(node, D, x, d)
        BY <2>3, <3>5, <4>1
      <4>3. Sided(node, x, d, h) /\ node[x][d] \in T /\ node[x][d] # 0 /\ n \in D[node[x][d]]
        BY <2>4, <3>5, <4>2
      <4>4. /\ x \in Null /\ x # 0 /\ SideOf(x, h) \in Links /\ SideOf(x, h) # "e"
            /\ Sided(node, x, SideOf(x, h), h) /\ node[x].hash \in Int
        BY <1>1, <1>5, <3>5, <3>8
      <4>5. d = SideOf(x, h)
        BY <3>8, <4>3, <4>4 DEF Sided, Links
      <4>6. at[k] = node[x][d]
        BY <1>5, <3>5, <4>4, <4>5
      <4>7. Cardinality(D[x]) + (k - 1) <= K
        BY <3>5, <3>8
      <4>8. Cardinality(D[node[x][d]]) < Cardinality(D[x]) /\ Cardinality(D[x]) \in Nat /\ Cardinality(D[node[x][d]]) \in Nat
        BY <2>1, <3>5, <4>3
      <4>9. Cardinality(D[node[x][d]]) + k <= K
        BY <1>1, <3>6, <4>7, <4>8
      <4> QED  BY <3>6, <4>3, <4>6, <4>9
    <3> QED  BY <3>7, <3>8
  <2> DEFINE top == Search(t, h)
  <2>6. top \in T /\ n \in D[top] /\ node[top].hash = h /\ Cardinality(D[top]) <= K
    <3>1. On(at[K], K)
      BY <1>1, <2>5
    <3>2. at[K] \in T /\ n \in D[at[K]] /\ (node[at[K]].hash = h \/ Cardinality(D[at[K]]) + K <= K)
      BY <3>1
    <3>3. Cardinality(D[at[K]]) \in Nat /\ Cardinality(D[at[K]]) # 0
      BY <2>1, <2>2, <3>2
    <3> QED  BY <1>1, <1>2, <2>1, <3>2, <3>3
  <2>7. ch[0] = top /\ \A k \in 1 .. K : ch[k] = node[ch[k - 1]].e
    <3>1. \A k \in 1 .. K : k - 1 \in 0 .. K
      BY <1>1
    <3> QED  BY <1>4, <1>5, <3>1 DEF Walk
  <2>8. top \in Found(t, h)
    BY <1>1, <1>4, <2>6, <2>7
  <2> HIDE DEF top
  <2>9. ASSUME n \notin Found(t, h) PROVE FALSE
    <3>1. \A k \in 0 .. K : ch[k] # n
      BY <1>1, <1>4, <2>9
    <3>2. \A k \in 0 .. K : Past(ch[k], k)
      <4> DEFINE Bad == {k \in 0 .. K : ~ Past(ch[k], k)}
      <4>1. SUFFICES ASSUME Bad # {} PROVE FALSE
        OBVIOUS
      <4>2. PICK k \in Bad : \A j \in Bad : k <= j
        <5>1. Bad \in SUBSET Nat
          OBVIOUS
        <5> HIDE DEF Bad
        <5> QED  BY <4>1, <5>1, Earliest
      <4>3. k # 0
        <5>1. ch[0] # n
          BY <1>1, <3>1
        <5>2. Past(ch[0], 0)
          BY <2>1, <2>6, <2>7, <5>1
        <5> QED  BY <4>2, <5>2
      <4>4. k - 1 \in 0 .. K /\ k - 1 \notin Bad /\ k \in 1 .. K
        BY <1>1, <4>2, <4>3
      <4> DEFINE x == ch[k - 1]
      <4>5. ch[k] = node[x]["e"] /\ Past(x, k - 1) /\ ch[k] # n
        BY <2>7, <3>1, <4>4, <4>2
      <4>6. ~ Past(ch[k], k) /\ k \in Int
        BY <4>2
      <4> HIDE DEF x, Bad
      <4>7. PICK d \in Links : n \in Under(node, D, x, d)
        BY <2>3, <4>5
      <4>8. Sided(node, x, d, h) /\ node[x][d] \in T /\ node[x][d] # 0 /\ n \in D[node[x][d]]
        BY <2>4, <4>5, <4>7
      <4>9. d = "e"
        BY <4>5, <4>8 DEF Sided, Links
      <4>10. node[node[x][d]].hash = h
        <5>1. Sided(node, x, "e", node[node[x][d]].hash)
          <6>1. node[x][d] \in Under(node, D, x, d)
            BY <4>5, <4>8, UnderIs
          <6> QED  BY <4>5, <4>9, <6>1 DEF Shape, Below
        <5> QED  BY <4>5, <5>1 DEF Sided
      <4>11. Cardinality(D[node[x][d]]) < Cardinality(D[x]) /\ Cardinality(D[x]) \in Nat /\ Cardinality(D[node[x][d]]) \in Nat
        BY <2>1, <4>5, <4>8
      <4>12. Cardinality(D[node[x][d]]) + k <= K
        BY <1>1, <4>5, <4>6, <4>11
      <4> QED  BY <4>5, <4>6, <4>8, <4>9, <4>10, <4>12
    <3>3. Past(ch[K], K)
      BY <1>1, <3>2
    <3>4. Cardinality(D[ch[K]]) \in Nat /\ Cardinality(D[ch[K]]) # 0
      BY <2>1, <2>2, <3>3
    <3> QED  BY <1>1, <3>3, <3>4
  <2> QED  BY <2>6, <2>8, <2>9 DEF top
<1> QED  BY <1>9, <1>10

\* A node taken out, in the words of the model.
LEMMA GoneIs ==
  ASSUME NEW f \in Graph, NEW n \in Null, NEW c \in Null, NEW q \in Null
  PROVE  HasGone(f, Relinked(Set(f, c, "p", q), q, n, c), n, c, q)
<1> DEFINE g == Set(f, c, "p", q)
<1>1. HasParent(f, g, c, q)
  BY SetParent
<1> HIDE DEF g
<1>2. g \in Graph
  BY <1>1 DEF HasParent
<1>3. HasRelinked(g, Relinked(g, q, n, c), q, n, c)
  BY <1>2, RelinkedIs
<1>4. HasGone(f, Relinked(g, q, n, c), n, c, q)
  BY <1>1, <1>3 DEF HasParent, HasRelinked, HasGone
<1> QED  BY <1>4 DEF g

\* The assignments of binary_tree_delete for a node with a chain, one after the other.
LEMMA NextIs ==
  ASSUME NEW f \in Graph, NEW n \in Null, NEW e \in Null, NEW q \in Null, e # 0, n # e, q # e,
         f[n].l # e, f[n].a # e, f[n].count - 1 \in Int,
         NEW g, g = Relinked([Set(Set(f, f[n].l, "p", e), f[n].a, "p", e)
                                EXCEPT ![e].l = f[n].l, ![e].a = f[n].a, ![e].p = q, ![e].count = f[n].count - 1],
                             q, n, e)
  PROVE  HasNext(f, g, n, e, q)
<1> DEFINE L == f[n].l
           A == f[n].a
           C == f[n].count - 1
           G1 == Set(f, L, "p", e)
           G2 == Set(G1, A, "p", e)
           G3 == [G2 EXCEPT ![e].l = L]
           G4 == [G3 EXCEPT ![e].a = A]
           G5 == [G4 EXCEPT ![e].p = q]
           G6 == [G5 EXCEPT ![e].count = C]
<1>0. /\ L \in Null /\ A \in Null /\ L # e /\ A # e /\ C \in Int
      /\ "e" \in Links /\ "a" \in Links /\ "l" \in Links /\ \A k \in Links : k # "p" /\ (k = "e" \/ k = "a" \/ k = "l")
      /\ f[n]["l"] = L /\ f[n]["a"] = A
  BY LinksAre DEF Links
<1>1. HasParent(f, G1, L, e)
  BY <1>0, SetParent
<1> HIDE DEF G1
<1>2. G1 \in Graph
  BY <1>1 DEF HasParent
<1>3. HasParent(G1, G2, A, e)
  BY <1>0, <1>2, SetParent
<1> HIDE DEF G2
<1>4. G2 \in Graph
  BY <1>3 DEF HasParent
<1>5. HasLink(G2, G3, e, "l", L)
  <2>1. PutLink(G2, G3, e, "l", L)
    BY DEF PutLink
  <2> HIDE DEF G3
  <2> QED  BY <1>0, <1>4, <2>1, LinkPut
<1> HIDE DEF G3
<1>6. G3 \in Graph
  BY <1>5 DEF HasLink
<1>7. HasLink(G3, G4, e, "a", A)
  <2>1. PutLink(G3, G4, e, "a", A)
    BY DEF PutLink
  <2> HIDE DEF G4
  <2> QED  BY <1>0, <1>6, <2>1, LinkPut
<1> HIDE DEF G4
<1>8. G4 \in Graph
  BY <1>7 DEF HasLink
<1>9. HasLink(G4, G5, e, "p", q)
  <2>1. PutLink(G4, G5, e, "p", q)
    BY DEF PutLink
  <2> HIDE DEF G5
  <2> QED  BY <1>0, <1>8, <2>1, LinkPut
<1> HIDE DEF G5
<1>10. G5 \in Graph
  BY <1>9 DEF HasLink
<1>11. HasCount(G5, G6, e, C)
  <2>1. PutCount(G5, G6, e, C)
    BY DEF PutCount
  <2> HIDE DEF G6
  <2> QED  BY <1>0, <1>10, <2>1, CountPut
<1>12. [G2 EXCEPT ![e].l = L, ![e].a = A, ![e].p = q, ![e].count = C] = G6
  BY DEF G3, G4, G5
<1>13. g = Relinked(G6, q, n, e)
  BY <1>12 DEF G1, G2
<1> HIDE DEF G6, C
<1>14. G6 \in Graph
  BY <1>11 DEF HasCount
<1>15. HasRelinked(G6, g, q, n, e)
  BY <1>13, <1>14, RelinkedIs
<1>16. /\ \A z \in Null : \A k \in Links : G2[z][k] = f[z][k]
       /\ \A z \in Null : /\ G2[z].p = IF z # 0 /\ (z = L \/ z = A) THEN e ELSE f[z].p
                          /\ G2[z].hash = f[z].hash /\ G2[z].count = f[z].count
       /\ \A z \in Null : (z # 0 => z # L /\ z # A) => G2[z] = f[z]
  BY <1>1, <1>3, SMTT(30) DEF HasParent
<1>17. /\ \A z \in Null : \A k \in Links : G6[z][k] = IF z = e /\ k # "e" THEN f[n][k] ELSE G2[z][k]
       /\ \A z \in Null : /\ G6[z].p = IF z = e THEN q ELSE G2[z].p
                          /\ G6[z].hash = G2[z].hash /\ G6[z].count = IF z = e THEN C ELSE G2[z].count
       /\ \A z \in Null : z # e => G6[z] = G2[z]
  BY <1>0, <1>5, <1>7, <1>9, <1>11 DEF HasLink, HasCount
<1>18. /\ g \in Graph
       /\ \A z \in Null : \A k \in Links : g[z][k] = IF z = q /\ q # 0 /\ G6[z][k] = n THEN e ELSE G6[z][k]
       /\ \A z \in Null : g[z].p = G6[z].p /\ g[z].count = G6[z].count /\ g[z].hash = G6[z].hash
       /\ \A z \in Null : z # q \/ q = 0 => g[z] = G6[z]
  BY <1>15, Zenon DEF HasRelinked
<1> HIDE DEF L, A
<1>19. ASSUME NEW z \in Null
       PROVE  /\ \A k \in Links :
                   g[z][k] = IF z = e THEN (IF k = "e" THEN f[z][k] ELSE f[n][k])
                             ELSE IF z = q /\ q # 0 /\ f[z][k] = n THEN e ELSE f[z][k]
              /\ g[z].p = IF z = e THEN q ELSE IF z # 0 /\ (z = L \/ z = A) THEN e ELSE f[z].p
              /\ g[z].hash = f[z].hash /\ g[z].count = IF z = e THEN C ELSE f[z].count
              /\ z # e /\ (z # 0 => z # q /\ z # L /\ z # A) => g[z] = f[z]
  <2>1. ASSUME NEW k \in Links
        PROVE  g[z][k] = IF z = e THEN (IF k = "e" THEN f[z][k] ELSE f[n][k])
                         ELSE IF z = q /\ q # 0 /\ f[z][k] = n THEN e ELSE f[z][k]
    <3>1. g[z][k] = IF z = q /\ q # 0 /\ G6[z][k] = n THEN e ELSE G6[z][k]
      BY <1>18, Zenon
    <3>2. G6[z][k] = IF z = e /\ k # "e" THEN f[n][k] ELSE G2[z][k]
      BY <1>17
    <3>3. G2[z][k] = f[z][k]
      BY <1>16
    <3>4. CASE z = e
      BY <3>1, <3>2, <3>3, <3>4, ZenonT(40)
    <3>5. CASE z # e
      BY <3>1, <3>2, <3>3, <3>5
    <3> QED  BY <3>4, <3>5, Zenon
  <2>2. g[z].p = G6[z].p /\ g[z].count = G6[z].count /\ g[z].hash = G6[z].hash
    BY <1>18, Zenon
  <2>3. /\ G6[z].p = IF z = e THEN q ELSE G2[z].p
        /\ G6[z].hash = G2[z].hash /\ G6[z].count = IF z = e THEN C ELSE G2[z].count
    BY <1>17
  <2>4. /\ G2[z].p = IF z # 0 /\ (z = L \/ z = A) THEN e ELSE f[z].p
        /\ G2[z].hash = f[z].hash /\ G2[z].count = f[z].count
    BY <1>16
  <2>5. z # e /\ (z # 0 => z # q /\ z # L /\ z # A) => g[z] = f[z]
    <3>1. z # q \/ q = 0 => g[z] = G6[z]
      BY <1>18, Zenon
    <3>2. z # e => G6[z] = G2[z]
      BY <1>17
    <3>3. (z # 0 => z # L /\ z # A) => G2[z] = f[z]
      BY <1>16
    <3> QED  BY <3>1, <3>2, <3>3
  <2>6. g[z].p = IF z = e THEN q ELSE IF z # 0 /\ (z = L \/ z = A) THEN e ELSE f[z].p
    BY <2>2, <2>3, <2>4, Zenon
  <2>7. g[z].hash = f[z].hash /\ g[z].count = IF z = e THEN C ELSE f[z].count
    BY <2>2, <2>3, <2>4, Zenon
  <2> QED  BY <2>1, <2>5, <2>6, <2>7, Zenon
<1> QED  BY <1>18, <1>19, Zenon DEF HasNext, L, A, C

-----------------------------------------------------------------------------
\* f and g have the same trees of the nodes of T.
Alike(f, g, T) ==
  \A z \in T : (\A k \in Links : g[z][k] = f[z][k]) /\ g[z].p = f[z].p /\ g[z].hash = f[z].hash

\* Trees are made of links, parents and hashes alone.
LEMMA AlikeShape ==
  ASSUME NEW f, NEW g, NEW T, NEW D, Shape(f, T, D), Alike(f, g, T)
  PROVE  /\ Shape(g, T, D)
         /\ \A r : Top(f, T, D, r) => Top(g, T, D, r)
         /\ \A x, h : Path(f, T, D, x, h) => Path(g, T, D, x, h)
<1>0. /\ \A z \in T : \A k \in Links : g[z][k] = f[z][k]
      /\ \A z \in T : g[z].p = f[z].p /\ g[z].hash = f[z].hash
      /\ "e" \in Links /\ "a" \in Links /\ "l" \in Links
  BY LinksAre DEF Alike
<1>1. \A z \in T : \A k \in Links : Under(g, D, z, k) = Under(f, D, z, k)
  BY <1>0 DEF Under
<1>2. /\ \A z \in T : \A k \in Links : f[z][k] \in T \cup {0} /\ (f[z][k] # 0 => f[f[z][k]].p = z)
      /\ \A z \in T : f[z].p \in T \cup {0} /\ (f[z].p # 0 => \E k \in Links : f[f[z].p][k] = z)
      /\ \A z \in T : \A i, k \in Links : f[z][i] = f[z][k] /\ f[z][i] # 0 => i = k
      /\ \A z \in T : f[z]["e"] # 0 => f[f[z]["e"]]["a"] = 0 /\ f[f[z]["e"]]["l"] = 0
      /\ T \subseteq Nodes /\ 0 \notin T
  BY NodesAre DEF Shape, Joined
<1>3. Joined(g, T)
  <2>1. \A z \in T : \A k \in Links : g[z][k] \in T \cup {0} /\ (g[z][k] # 0 => g[g[z][k]].p = z)
    BY <1>0, <1>2
  <2>2. \A z \in T : g[z].p \in T \cup {0} /\ (g[z].p # 0 => \E k \in Links : g[g[z].p][k] = z)
    BY <1>0, <1>2
  <2>3. \A z \in T : \A i, k \in Links : g[z][i] = g[z][k] /\ g[z][i] # 0 => i = k
    BY <1>0, <1>2
  <2>4. \A z \in T : g[z]["e"] # 0 => g[g[z]["e"]]["a"] = 0 /\ g[g[z]["e"]]["l"] = 0
    BY <1>0, <1>2
  <2> QED  BY <1>2, <2>1, <2>2, <2>3, <2>4 DEF Joined
<1>4. /\ D \in [T -> SUBSET T]
      /\ \A n \in T : \A m : m \in D[n] <=> m = n \/ \E d \in Links : m \in Under(f, D, n, d)
      /\ \A n \in T : \A d \in Links : n \notin Under(f, D, n, d)
      /\ \A n \in T : \A d \in Links : \A m \in Under(f, D, n, d) : m \in T /\ Sided(f, n, d, f[m].hash)
  BY DEF Shape, Below, Under, Joined
<1>5. Below(g, T, D)
  <2>1. ASSUME NEW n \in T, NEW d \in Links, NEW m \in Under(g, D, n, d) PROVE Sided(g, n, d, g[m].hash)
    <3>1. Sided(f, n, d, f[m].hash) /\ m \in T
      BY <1>1, <1>4
    <3> QED  BY <1>0, <3>1 DEF Sided
  <2>2. \A n \in T : \A m : m \in D[n] <=> m = n \/ \E d \in Links : m \in Under(g, D, n, d)
    BY <1>1, <1>4
  <2>3. \A n \in T : \A d \in Links : n \notin Under(g, D, n, d)
    BY <1>1, <1>4
  <2> QED  BY <1>4, <2>1, <2>2, <2>3 DEF Below
<1>6. ASSUME NEW r, Top(f, T, D, r) PROVE Top(g, T, D, r)
  BY <1>0, <1>6 DEF Top
<1>7. ASSUME NEW x, NEW h, Path(f, T, D, x, h) PROVE Path(g, T, D, x, h)
  <2>1. ASSUME NEW z \in T, NEW d \in Links, x \in Under(g, D, z, d) PROVE d # "e" /\ Sided(g, z, d, h)
    <3>1. d # "e" /\ Sided(f, z, d, h)
      BY <1>1, <1>7, <2>1 DEF Path
    <3> QED  BY <1>0, <3>1 DEF Sided
  <2> QED  BY <2>1 DEF Path
<1> QED  BY <1>3, <1>5, <1>6, <1>7 DEF Shape

\* Counts are right as long as no node changes.
LEMMA CountedSame ==
  ASSUME NEW f \in Graph, NEW g \in Graph, NEW T, NEW D, Shape(f, T, D), NEW X, NEW Y, Counted(f, T, X),
         \A z \in T \cup {0} : g[z] = f[z], X \cap T = Y \cap T
  PROVE  Counted(g, T, Y)
<1>1. \A z \in T : \A k \in Links : f[z][k] \in T \cup {0}
  BY DEF Shape, Joined
<1>2. T \subseteq Null
  BY DEF Shape, Joined, Null
<1>3. ASSUME NEW z \in T PROVE Size(g, z) = Size(f, z)
  <2>1. \A k \in Links : g[g[z][k]].count = f[f[z][k]].count
    BY <1>1
  <2> QED  BY <1>2, <2>1, SizeSame
<1>4. \A z \in T : z \in X <=> z \in Y
  OBVIOUS
<1> QED  BY <1>3, <1>4 DEF Counted

-----------------------------------------------------------------------------
\* The way of an insertion.
LEMMA PathRoot ==
  ASSUME NEW f \in Graph, NEW T, NEW D, Shape(f, T, D), NEW r \in T, Top(f, T, D, r), NEW h
  PROVE  Path(f, T, D, r, h)
<1>1. ASSUME NEW z \in T, NEW d \in Links, r \in Under(f, D, z, d) PROVE FALSE
  <2> DEFINE w == f[z][d]
  <2>1. w # 0
    BY <1>1 DEF Under
  <2>2. w \in T /\ r \in D[w] /\ D[w] \subseteq T /\ f[w].p = z /\ 0 \notin T
    <3>1. f[w].p = z
      BY <2>1 DEF Shape, Joined
    <3> QED  BY <1>1, <2>1, <3>1, UnderIs
  <2> HIDE DEF w
  <2>3. f[r].p = 0
    BY DEF Top
  <2>4. r # w
    BY <2>2, <2>3
  <2> QED  BY <2>2, <2>3, <2>4, ParentBelow
<1> QED  BY <1>1 DEF Path

\* The way of an insertion goes on to the child on the side of the hash.
LEMMA PathDown ==
  ASSUME NEW f \in Graph, NEW T, NEW D, Shape(f, T, D), NEW at \in T, NEW h \in Int, Path(f, T, D, at, h),
         NEW s \in Links, s # "e", Sided(f, at, s, h), f[at][s] # 0
  PROVE  f[at][s] \in T /\ f[f[at][s]].p = at /\ Path(f, T, D, f[at][s], h)
<1> DEFINE v == f[at][s]
<1>1. v \in T /\ v \in Under(f, D, at, s) /\ f[v].p = at /\ T \subseteq Null
  <2>1. f[v].p = at /\ T \subseteq Null
    BY DEF Shape, Joined, Null
  <2> QED  BY <2>1, UnderIs
<1>2. \A z \in T : f[z].hash \in Int
  BY <1>1 DEF Graph, NodeRec
<1>3. \A z \in T : \A k \in Links : \A m \in Under(f, D, z, k) : Sided(f, z, k, f[m].hash)
  BY DEF Shape, Below
<1> HIDE DEF v
<1>4. ASSUME NEW z \in T, NEW d \in Links, v \in Under(f, D, z, d) PROVE d # "e" /\ Sided(f, z, d, h)
  <2>1. CASE z = at
    <3>1. Sided(f, at, d, f[v].hash) /\ Sided(f, at, s, f[v].hash) /\ f[at].hash \in Int /\ f[v].hash \in Int
      BY <1>1, <1>2, <1>3, <1>4, <2>1
    <3>2. d = s
      BY <3>1 DEF Sided, Links
    <3> QED  BY <2>1, <3>2
  <2>2. CASE z # at
    <3> DEFINE w == f[z][d]
    <3>1. w # 0
      BY <1>4 DEF Under
    <3>2. w \in T /\ v \in D[w] /\ f[w].p = z /\ Under(f, D, z, d) = D[w]
      <4>1. f[w].p = z
        BY <3>1 DEF Shape, Joined
      <4> QED  BY <1>4, <3>1, <4>1, UnderIs
    <3> HIDE DEF w
    <3>3. v # w
      BY <1>1, <2>2, <3>2
    <3>4. at \in D[w]
      BY <1>1, <3>2, <3>3, ParentBelow
    <3> QED  BY <3>2, <3>4 DEF Path
  <2> QED  BY <2>1, <2>2
<1>5. Path(f, T, D, v, h)
  BY <1>4 DEF Path
<1> QED  BY <1>1, <1>5 DEF v

\* It never goes along a chain.
LEMMA PathPlain ==
  ASSUME NEW f \in Graph, NEW T, NEW D, Shape(f, T, D), NEW at \in T, NEW h, Path(f, T, D, at, h)
  PROVE  Plain(f, at)
<1>1. ASSUME f[at].p # 0, f[f[at].p].e = at PROVE FALSE
  <2>1. f[at].p \in T /\ "e" \in Links /\ at # 0
    BY <1>1, NodesAre DEF Shape, Joined, Links
  <2>2. at \in Under(f, D, f[at].p, "e")
    BY <1>1, <2>1, UnderIs
  <2> QED  BY <2>1, <2>2 DEF Path
<1> QED  BY <1>1 DEF Plain

-----------------------------------------------------------------------------
\* Nothing but the nodes of T has changed.
Stays(f, g, T) == \A z \in Null \ T : g[z] = f[z]

\* binary_tree_rotation of a tree.
LEMMA RotationKeeps ==
  ASSUME NEW f \in Graph, NEW T, NEW D, Shape(f, T, D), NEW x \in T, Plain(f, x),
         NEW d \in {"a", "l"}, f[x][d] # 0, NEW X, Counted(f, T, X), x \notin X, f[x][d] \notin X,
         NEW g, g = Rotated(f, x, d)
  PROVE  /\ g \in Graph /\ Stays(f, g, T) /\ Counted(g, T, X)
         /\ \A z \in Null : g[z].hash = f[z].hash
         /\ f[x][d] \in T /\ g[f[x][d]].p = f[x].p
         /\ \E E : /\ Shape(g, T, E)
                   /\ \A r : Top(f, T, D, r) => Top(g, T, E, IF r = x THEN f[x][d] ELSE r)
                   /\ \A h : Path(f, T, D, x, h) => Path(g, T, E, f[x][d], h)
<1> DEFINE o == IF d = "a" THEN "l" ELSE "a"
           y == f[x][d]
           c == f[y][o]
           q == f[x].p
<1>0. o \in {"a", "l"} /\ o # d
  OBVIOUS
<1> HIDE DEF o
<1>1. Turning(f, T, D, x, y, c, q, d, o)
  BY <1>0, Around
<1>2. /\ T \subseteq Nodes /\ T \subseteq Null /\ x \in Nodes /\ y \in Nodes /\ c \in Null /\ q \in Null /\ y \in T
  <2>1. T \subseteq Nodes /\ T \subseteq Null
    BY DEF Shape, Joined, Null
  <2>2. y \in T
    BY <1>1 DEF Turning
  <2>3. f[y] \in NodeRec /\ f[x] \in NodeRec /\ o \in Links
    BY <1>0, <2>1, <2>2 DEF Graph, Links
  <2> QED  BY <2>1, <2>2, <2>3 DEF NodeRec, Links
<1>3. HasRotated(f, g, x, y, c, q, d, o)
  <2>1. /\ x # y /\ c # x /\ c # y /\ q # x /\ q # y /\ (q # 0 => q # c)
        /\ \A k \in Links : f[x][k] # x /\ f[y][k] # y /\ (f[x][k] = y => k = d)
    BY <1>1 DEF Turning
  <2> HIDE DEF y, c, q
  <2>2. y = f[x][d] /\ c = f[y][o] /\ q = f[x].p
    BY DEF y, c, q
  <2> QED  BY <1>0, <1>2, <2>1, <2>2, RotatedIs
<1>4. g \in Graph
  BY <1>3 DEF HasRotated
<1>5. Counted(g, T, X)
  BY <1>1, <1>3, <1>4, RotatedCounts
<1>6. /\ \A z \in Null : g[z].hash = f[z].hash
      /\ g[y].p = q
  BY <1>1, <1>2, <1>3 DEF HasRotated, Turning
<1>7. Stays(f, g, T)
  <2>1. (c # 0 => c \in T) /\ (q # 0 => q \in T) /\ x \in T /\ y \in T
    BY <1>1 DEF Turning
  <2> QED  BY <1>3, <2>1 DEF HasRotated, Stays
<1>8. \E E : /\ Shape(g, T, E)
             /\ \A r : Top(f, T, D, r) => Top(g, T, E, IF r = x THEN y ELSE r)
             /\ \A h : Path(f, T, D, x, h) => Path(g, T, E, y, h)
  BY <1>1, <1>3, <1>4, RotatedShape
<1> QED  BY <1>2, <1>4, <1>5, <1>6, <1>7, <1>8

\* What a table does when it looks for a node, and in an insertion.
Seeking == {"get", "add", "fill", "get again"}

\* What a table may be doing.
OpType ==
  {Idle} \cup [do : {"down"} \cup Seeking, at : Null, h : Nat]
    \cup [do : {"delete"}, at : Nodes] \cup [do : {"up"}, at : Null, n : Nodes]

\* The nodes of the trees of a table, and all that it uses.
TreeOf(hd, o) == hd \cup {x \in Nodes : o.do = "delete" /\ x = o.at}
UseOf(hd, o) == hd \cup {x \in Nodes : (o.do = "delete" /\ x = o.at) \/ (o.do = "up" /\ x = o.n)}

\* The nodes whose counts are one more than what is below them.
Over(f, o) ==
  {x \in Null : \/ o.do = "down" /\ x = f[o.at].p
                \/ o.do \in Seeking \cup {"up"} /\ x = o.at}

\* There is room for a node of hash h at its side of `at`.
Ended(f, at, h) == \A s \in Links : Sided(f, at, s, h) /\ s # "e" => f[at][s] = 0

\* The root is the top of the tree, but while a node is deleted, and an insertion
\* is on its way to the right place.
Placed(f, T, D, o, r) ==
  /\ o.do \notin {"delete", "up"} => Top(f, T, D, r)
  /\ o.do = "down" => o.at \in T /\ Path(f, T, D, o.at, o.h)
  /\ o.do \in Seeking => IF T = {} THEN o.at = 0
                                   ELSE o.at \in T /\ Path(f, T, D, o.at, o.h) /\ Ended(f, o.at, o.h)
  /\ o.do \in {"delete", "up"} => \E s : Top(f, T, D, s)
  /\ o.do = "up" => o.at \in T \cup {0} /\ (o.at = 0 => Top(f, T, D, r))

\* A table has a tree.
TableOK(f, T, o, r) == \E D : Shape(f, T, D) /\ Counted(f, T, Over(f, o)) /\ Placed(f, T, D, o, r)

\* A node that is deleted is no entry any more.
Apart(hd, o) == (o.do = "delete" => o.at \notin hd) /\ (o.do = "up" => o.n \notin hd)

\* A table that does not delete by the entry has one entry of a hash.
Unique(f, hd, o) ==
  /\ \A m, n \in hd : f[m].hash = f[n].hash => m = n
  /\ o.do \in {"down"} \cup Seeking => \A n \in hd : f[n].hash # o.h

\* The invariant: types, the tables, and who has which node.
TreeTyped ==
  /\ node \in Graph /\ node[0] = Cleared
  /\ root \in [Tables -> Null] /\ pfree \subseteq Nodes
  /\ held \in [Tables -> SUBSET Nodes] /\ op \in [Tables -> OpType]

TablesOK ==
  \A t \in Tables : /\ TableOK(node, TreeOf(held[t], op[t]), op[t], root[t])
                    /\ Apart(held[t], op[t])
                    /\ t \notin ByEntry => Unique(node, held[t], op[t])

NodesOK ==
  /\ \A t \in Tables : UseOf(held[t], op[t]) \cap pfree = {}
  /\ \A t, u \in Tables : t # u => UseOf(held[t], op[t]) \cap UseOf(held[u], op[u]) = {}
  /\ \A n \in Nodes : (\A t \in Tables : n \notin UseOf(held[t], op[t])) => node[n] = Cleared

TreeInv == TreeTyped /\ TablesOK /\ NodesOK

-----------------------------------------------------------------------------
\* What each kind of operation has.
LEMMA OpIs ==
  ASSUME NEW o \in OpType
  PROVE  /\ o.do \in {"idle", "down", "delete", "up"} \cup Seeking
         /\ o.do = "idle" <=> o = Idle
         /\ o.do \in {"down"} \cup Seeking => o.at \in Null /\ o.h \in Nat
         /\ o.do = "delete" => o.at \in Nodes
         /\ o.do = "up" => o.at \in Null /\ o.n \in Nodes
         /\ o.do \in {"down"} \cup Seeking => o \in [do : {"down"} \cup Seeking, at : Null, h : Nat]
         /\ o.do = "up" => o \in [do : {"up"}, at : Null, n : Nodes]
<1>1. CASE o = Idle
  <2>1. o.do = "idle"
    BY <1>1 DEF Idle
  <2> QED  BY <1>1, <2>1 DEF Seeking
<1>2. CASE o \in [do : {"down"} \cup Seeking, at : Null, h : Nat]
  <2>1. o.do \in {"down"} \cup Seeking /\ o.at \in Null /\ o.h \in Nat
    BY <1>2
  <2>2. Idle.do = "idle" /\ "idle" \notin {"down"} \cup Seeking
    BY DEF Idle, Seeking
  <2>3. o # Idle
    BY <2>1, <2>2
  <2> QED  BY <1>2, <2>1, <2>2, <2>3, Zenon DEF Seeking
<1>3. CASE o \in [do : {"delete"}, at : Nodes]
  <2>1. o.do = "delete" /\ o.at \in Nodes
    BY <1>3
  <2>2. o # Idle
    BY <2>1 DEF Idle
  <2> QED  BY <2>1, <2>2 DEF Seeking
<1>4. CASE o \in [do : {"up"}, at : Null, n : Nodes]
  <2>1. o.do = "up" /\ o.at \in Null /\ o.n \in Nodes
    BY <1>4
  <2>2. o # Idle
    BY <2>1 DEF Idle
  <2> QED  BY <1>4, <2>1, <2>2 DEF Seeking
<1> QED  BY <1>1, <1>2, <1>3, <1>4 DEF OpType

\* The operations that steps begin ...
LEMMA OpMade ==
  /\ Idle \in OpType /\ Idle.do = "idle"
  /\ \A d \in {"down"} \cup Seeking, at \in Null, h \in Nat :
       LET o == [do |-> d, at |-> at, h |-> h]
       IN  o \in OpType /\ o.do = d /\ o.at = at /\ o.h = h
  /\ \A at \in Nodes :
       LET o == [do |-> "delete", at |-> at]
       IN  o \in OpType /\ o.do = "delete" /\ o.at = at
  /\ \A at \in Null, n \in Nodes :
       LET o == [do |-> "up", at |-> at, n |-> n]
       IN  o \in OpType /\ o.do = "up" /\ o.at = at /\ o.n = n
<1>1. Idle \in OpType /\ Idle.do = "idle"
  BY DEF OpType, Idle
<1>2. ASSUME NEW d \in {"down"} \cup Seeking, NEW at \in Null, NEW h \in Nat
      PROVE  LET o == [do |-> d, at |-> at, h |-> h]
             IN  o \in OpType /\ o.do = d /\ o.at = at /\ o.h = h
  BY DEF OpType
<1>3. ASSUME NEW at \in Nodes
      PROVE  LET o == [do |-> "delete", at |-> at]
             IN  o \in OpType /\ o.do = "delete" /\ o.at = at
  BY DEF OpType
<1>4. ASSUME NEW at \in Null, NEW n \in Nodes
      PROVE  LET o == [do |-> "up", at |-> at, n |-> n]
             IN  o \in OpType /\ o.do = "up" /\ o.at = at /\ o.n = n
  BY DEF OpType
<1> QED  BY <1>1, <1>2, <1>3, <1>4

\* ... and those that they go on with.
LEMMA OpChanged ==
  ASSUME NEW o \in OpType
  PROVE  /\ \A d \in Seeking : o.do \in Seeking =>
              /\ [o EXCEPT !.do = d] \in OpType /\ [o EXCEPT !.do = d].do = d
              /\ [o EXCEPT !.do = d].at = o.at /\ [o EXCEPT !.do = d].h = o.h
         /\ \A at \in Null : o.do = "up" =>
              /\ [o EXCEPT !.at = at] \in OpType /\ [o EXCEPT !.at = at].do = "up"
              /\ [o EXCEPT !.at = at].at = at /\ [o EXCEPT !.at = at].n = o.n
<1>1. ASSUME NEW d \in Seeking, o.do \in Seeking
      PROVE  /\ [o EXCEPT !.do = d] \in OpType /\ [o EXCEPT !.do = d].do = d
             /\ [o EXCEPT !.do = d].at = o.at /\ [o EXCEPT !.do = d].h = o.h
  <2>1. o \in [do : {"down"} \cup Seeking, at : Null, h : Nat]
    BY <1>1, OpIs
  <2>2. [o EXCEPT !.do = d] \in [do : {"down"} \cup Seeking, at : Null, h : Nat]
    BY <2>1
  <2> QED  BY <2>1, <2>2 DEF OpType
<1>2. ASSUME NEW at \in Null, o.do = "up"
      PROVE  /\ [o EXCEPT !.at = at] \in OpType /\ [o EXCEPT !.at = at].do = "up"
             /\ [o EXCEPT !.at = at].at = at /\ [o EXCEPT !.at = at].n = o.n
  <2>1. o \in [do : {"up"}, at : Null, n : Nodes]
    BY <1>2, OpIs
  <2>2. [o EXCEPT !.at = at] \in [do : {"up"}, at : Null, n : Nodes]
    BY <2>1
  <2> QED  BY <1>2, <2>1, <2>2 DEF OpType
<1> QED  BY <1>1, <1>2

\* The nodes that InUse has.
LEMMA UseIs ==
  ASSUME NEW t \in Tables, op[t] \in OpType, held[t] \subseteq Nodes
  PROVE  /\ InUse(t) = UseOf(held[t], op[t])
         /\ TreeOf(held[t], op[t]) \subseteq UseOf(held[t], op[t])
         /\ UseOf(held[t], op[t]) \subseteq Nodes
<1>1. op[t].do = "delete" => op[t].at \in Nodes
  BY OpIs
<1>2. op[t].do = "up" => op[t].n \in Nodes
  BY OpIs
<1>3. op[t].do = "delete" => InUse(t) = held[t] \cup {op[t].at}
  BY DEF InUse
<1>4. op[t].do = "up" => InUse(t) = held[t] \cup {op[t].n}
  BY DEF InUse
<1>5. op[t].do # "up" /\ op[t].do # "delete" => InUse(t) = held[t]
  BY DEF InUse
<1> QED  BY <1>1, <1>2, <1>3, <1>4, <1>5 DEF UseOf, TreeOf

\* A table is as it was when its nodes are.
LEMMA TableStays ==
  ASSUME NEW f \in Graph, NEW g \in Graph, NEW T, NEW o \in OpType, NEW r, TableOK(f, T, o, r),
         \A z \in T \cup {0} : g[z] = f[z]
  PROVE  TableOK(g, T, o, r)
<1>1. PICK D : Shape(f, T, D) /\ Counted(f, T, Over(f, o)) /\ Placed(f, T, D, o, r)
  BY DEF TableOK
<1>2. Alike(f, g, T)
  BY DEF Alike
<1>3. Shape(g, T, D)
  BY <1>1, <1>2, AlikeShape
<1>4. \A s : Top(f, T, D, s) => Top(g, T, D, s)
  BY <1>1, <1>2, AlikeShape
<1>5. \A x, h : Path(f, T, D, x, h) => Path(g, T, D, x, h)
  BY <1>1, <1>2, AlikeShape
<1>6. \A x \in T : \A h : Ended(f, x, h) => Ended(g, x, h)
  BY DEF Ended, Sided
<1>7. Placed(g, T, D, o, r)
  BY <1>1, <1>4, <1>5, <1>6 DEF Placed
<1>8. Over(f, o) = Over(g, o)
  <2>1. o.do = "down" => f[o.at] = g[o.at]
    BY <1>1 DEF Placed
  <2> QED  BY <2>1 DEF Over
<1>9. Counted(g, T, Over(g, o))
  BY <1>1, <1>8, CountedSame
<1> QED  BY <1>3, <1>7, <1>9 DEF TableOK

-----------------------------------------------------------------------------
\* A step of table t leaves the other tables alone, takes nodes from the free
\* list and gives back cleared ones.
Alone(t) ==
  /\ root' \in [Tables -> Null] /\ held' \in [Tables -> SUBSET Nodes] /\ op' \in [Tables -> OpType]
  /\ \A u \in Tables \ {t} : root'[u] = root[u] /\ held'[u] = held[u] /\ op'[u] = op[u]

\* Its own nodes are those it had and some of the free list; what it leaves is cleared.
Mine(t) ==
  /\ node' \in Graph /\ pfree' \subseteq Nodes
  /\ \A z \in Null : z \notin UseOf(held[t], op[t]) \cup pfree => node'[z] = node[z]
  /\ UseOf(held'[t], op'[t]) \subseteq UseOf(held[t], op[t]) \cup pfree
  /\ UseOf(held'[t], op'[t]) \cap pfree' = {}
  /\ \A u \in Tables \ {t} : UseOf(held[u], op[u]) \cap pfree' = {}
  /\ \A z \in UseOf(held[t], op[t]) \cup pfree : z \notin UseOf(held'[t], op'[t]) => node'[z] = Cleared

\* It has a tree again.
Right(t) ==
  /\ TableOK(node', TreeOf(held'[t], op'[t]), op'[t], root'[t])
  /\ Apart(held'[t], op'[t])
  /\ t \notin ByEntry => Unique(node', held'[t], op'[t])

\* It is enough to look at the table that the step is in.
LEMMA StepKeeps ==
  ASSUME TreeInv, NEW t \in Tables, Alone(t), Mine(t), Right(t)
  PROVE  TreeInv'
<1>0. /\ node \in Graph /\ node[0] = Cleared /\ pfree \subseteq Nodes
      /\ \A u \in Tables : op[u] \in OpType /\ held[u] \subseteq Nodes
      /\ 0 \notin Nodes /\ 0 \in Null /\ Nodes \subseteq Null
  BY NodesAre DEF TreeInv, TreeTyped, Null
<1>1. ASSUME NEW u \in Tables
      PROVE  TreeOf(held[u], op[u]) \subseteq UseOf(held[u], op[u]) /\ UseOf(held[u], op[u]) \subseteq Nodes
  BY <1>0, UseIs
<1>2. ASSUME NEW u \in Tables \ {t}, NEW z \in UseOf(held[u], op[u]) PROVE node'[z] = node[z]
  <2>1. z \notin UseOf(held[t], op[t]) /\ z \notin pfree /\ z \in Null
    BY <1>0, <1>1 DEF TreeInv, NodesOK
  <2> QED  BY <2>1 DEF Mine
<1>3. node'[0] = node[0]
  BY <1>0, <1>1 DEF Mine
<1>4. TreeTyped'
  BY <1>0, <1>3 DEF Alone, Mine, TreeTyped
<1>5. TablesOK'
  <2>1. ASSUME NEW u \in Tables \ {t}
        PROVE  /\ TableOK(node', TreeOf(held'[u], op'[u]), op'[u], root'[u])
               /\ Apart(held'[u], op'[u])
               /\ u \notin ByEntry => Unique(node', held'[u], op'[u])
    <3>1. root'[u] = root[u] /\ held'[u] = held[u] /\ op'[u] = op[u]
      BY DEF Alone
    <3>2. /\ TableOK(node, TreeOf(held[u], op[u]), op[u], root[u])
          /\ Apart(held[u], op[u])
          /\ u \notin ByEntry => Unique(node, held[u], op[u])
      BY DEF TreeInv, TablesOK
    <3>3. \A z \in TreeOf(held[u], op[u]) \cup {0} : node'[z] = node[z]
      BY <1>1, <1>2, <1>3
    <3>4. TableOK(node', TreeOf(held[u], op[u]), op[u], root[u])
      <4>1. node' \in Graph /\ op[u] \in OpType
        BY <1>0 DEF Mine
      <4> QED  BY <1>0, <3>2, <3>3, <4>1, TableStays
    <3>5. \A z \in held[u] : node'[z] = node[z]
      BY <1>2 DEF UseOf
    <3>6. u \notin ByEntry => Unique(node', held[u], op[u])
      BY <3>2, <3>5 DEF Unique
    <3> QED  BY <3>1, <3>2, <3>4, <3>6
  <2> QED  BY <2>1 DEF Right, TablesOK
<1>6. NodesOK'
  <2>1. ASSUME NEW u \in Tables \ {t} PROVE UseOf(held'[u], op'[u]) = UseOf(held[u], op[u])
    BY DEF Alone
  <2>2. ASSUME NEW u \in Tables PROVE UseOf(held'[u], op'[u]) \cap pfree' = {}
    BY <2>1 DEF Mine
  <2>3. ASSUME NEW u \in Tables \ {t} PROVE UseOf(held'[t], op'[t]) \cap UseOf(held'[u], op'[u]) = {}
    BY <2>1 DEF Mine, TreeInv, NodesOK
  <2>4. ASSUME NEW u \in Tables, NEW v \in Tables, u # v
        PROVE  UseOf(held'[u], op'[u]) \cap UseOf(held'[v], op'[v]) = {}
    <3>1. CASE u = t
      BY <2>3, <2>4, <3>1
    <3>2. CASE v = t
      BY <2>3, <2>4, <3>2
    <3>3. CASE u # t /\ v # t
      BY <2>1, <2>4, <3>3 DEF TreeInv, NodesOK
    <3> QED  BY <3>1, <3>2, <3>3
  <2>5. ASSUME NEW n \in Nodes, \A u \in Tables : n \notin UseOf(held'[u], op'[u])
        PROVE  node'[n] = Cleared
    <3>1. CASE n \in UseOf(held[t], op[t]) \cup pfree
      BY <2>5, <3>1 DEF Mine
    <3>2. CASE n \notin UseOf(held[t], op[t]) \cup pfree
      <4>1. node'[n] = node[n]
        BY <1>0, <3>2 DEF Mine
      <4>2. \A u \in Tables : n \notin UseOf(held[u], op[u])
        BY <2>1, <2>5, <3>2
      <4>3. node[n] = Cleared
        BY <4>2 DEF TreeInv, NodesOK
      <4> QED  BY <4>1, <4>3
    <3> QED  BY <3>1, <3>2
  <2> QED  BY <2>2, <2>4, <2>5 DEF NodesOK
<1> QED  BY <1>4, <1>5, <1>6 DEF TreeInv

\* The set of nodes of a table, its own name to be short.
TreeNow(t) == TreeOf(held[t], op[t])

\* What the invariant says of table t.
LEMMA TableNow ==
  ASSUME TreeInv, NEW t \in Tables
  PROVE  /\ node \in Graph /\ node[0] = Cleared /\ node[0].count = 0 /\ node[0].e = 0
         /\ root \in [Tables -> Null] /\ held \in [Tables -> SUBSET Nodes] /\ op \in [Tables -> OpType]
         /\ root[t] \in Null /\ held[t] \subseteq Nodes /\ op[t] \in OpType /\ pfree \subseteq Nodes
         /\ TableOK(node, TreeNow(t), op[t], root[t]) /\ Apart(held[t], op[t])
         /\ t \notin ByEntry => Unique(node, held[t], op[t])
         /\ TreeNow(t) \subseteq UseOf(held[t], op[t]) /\ UseOf(held[t], op[t]) \subseteq Nodes
         /\ \A u \in Tables : UseOf(held[u], op[u]) \cap pfree = {}
         /\ \A z \in pfree : node[z] = Cleared
<1>1. /\ node \in Graph /\ node[0] = Cleared
      /\ root \in [Tables -> Null] /\ held \in [Tables -> SUBSET Nodes] /\ op \in [Tables -> OpType]
      /\ root[t] \in Null /\ held[t] \subseteq Nodes /\ op[t] \in OpType /\ pfree \subseteq Nodes
  BY DEF TreeInv, TreeTyped
<1>2. node[0].count = 0 /\ node[0].e = 0
  BY <1>1 DEF Cleared
<1>3. /\ TableOK(node, TreeNow(t), op[t], root[t]) /\ Apart(held[t], op[t])
      /\ t \notin ByEntry => Unique(node, held[t], op[t])
  BY DEF TreeInv, TablesOK, TreeNow
<1>4. TreeNow(t) \subseteq UseOf(held[t], op[t]) /\ UseOf(held[t], op[t]) \subseteq Nodes
  BY <1>1, UseIs DEF TreeNow
<1>5. \A u \in Tables : UseOf(held[u], op[u]) \cap pfree = {}
  BY DEF TreeInv, NodesOK
<1>6. \A z \in pfree : node[z] = Cleared
  BY <1>1, <1>5 DEF TreeInv, NodesOK
<1> QED  BY <1>1, <1>2, <1>3, <1>4, <1>5, <1>6

\* Table t does something else, with the same nodes.
LEMMA OpKeeps ==
  ASSUME TreeInv, NEW t \in Tables, NEW o \in OpType, op' = [op EXCEPT ![t] = o],
         node' = node, root' = root, held' = held,
         UseOf(held[t], o) = UseOf(held[t], op[t]),
         TableOK(node, TreeOf(held[t], o), o, root[t]), Apart(held[t], o),
         t \notin ByEntry => Unique(node, held[t], o),
         pfree' \subseteq Nodes, \A u \in Tables : UseOf(held[u], op[u]) \cap pfree' = {}
  PROVE  TreeInv'
<1>1. op' \in [Tables -> OpType] /\ op'[t] = o /\ \A u \in Tables \ {t} : op'[u] = op[u]
  BY TableNow
<1>2. Alone(t)
  BY <1>1, TableNow DEF Alone
<1>3. Mine(t)
  <2>1. UseOf(held'[t], op'[t]) = UseOf(held[t], op[t])
    BY <1>1
  <2>2. \A z \in UseOf(held[t], op[t]) \cup pfree : z \notin UseOf(held'[t], op'[t]) => node'[z] = Cleared
    BY <2>1, TableNow
  <2>3. node' \in Graph
    BY TableNow
  <2> QED  BY <2>1, <2>2, <2>3 DEF Mine
<1>4. Right(t)
  BY <1>1 DEF Right
<1> QED  BY <1>2, <1>3, <1>4, StepKeeps

\* A table without a root has no nodes.
LEMMA NoTree == 
  ASSUME NEW f \in Graph, f[0].count = 0, NEW r, NEW T0, NEW D, Shape(f, T0, D), Top(f, T0, D, r)
  PROVE  r = 0 <=> T0 = {}
  BY NodesAre DEF Top, Shape, Joined

\* An insertion begins at the root.
LEMMA InsertBeginKeeps ==
  ASSUME Collide => ByEntry = Tables, TreeInv, NEW t \in Tables, NEW h \in HashesOf[t], InsertBegin(t, h)
  PROVE  TreeInv'
<1> DEFINE o == IF root[t] = 0 THEN [do |-> "get", at |-> 0, h |-> h]
                               ELSE [do |-> "down", at |-> root[t], h |-> h]
<1>0. /\ op[t] = Idle /\ op' = [op EXCEPT ![t] = o]
      /\ node' = node /\ root' = root /\ held' = held /\ pfree' = pfree
      /\ t \notin ByEntry => \A n \in held[t] : node[n].hash # h
  BY DEF InsertBegin
<1>1. /\ op[t].do = "idle" /\ h \in Nat /\ 0 \in Null /\ root[t] \in Null
      /\ "idle" \notin {"delete", "up"} /\ "get" \notin {"delete", "up"} /\ "down" \notin {"delete", "up"}
      /\ "get" \in Seeking /\ "down" \notin Seeking /\ "get" # "down"
  BY <1>0, OpMade, TableNow, TreeAssumption, Zenon DEF Null, Seeking
<1>2. /\ o \in OpType /\ o.h = h /\ o.at = root[t]
      /\ o.do = IF root[t] = 0 THEN "get" ELSE "down"
  BY <1>1, OpMade
<1> HIDE DEF o
<1>3. UseOf(held[t], o) = held[t] /\ UseOf(held[t], op[t]) = held[t] /\ TreeNow(t) = held[t] /\ TreeOf(held[t], o) = held[t]
  BY <1>1, <1>2 DEF UseOf, TreeOf, TreeNow
<1>4. PICK D : Shape(node, held[t], D) /\ Counted(node, held[t], Over(node, op[t])) /\ Placed(node, held[t], D, op[t], root[t])
  BY <1>3, TableNow DEF TableOK
<1>5. Top(node, held[t], D, root[t])
  BY <1>1, <1>4 DEF Placed
<1>6. root[t] = 0 <=> held[t] = {}
  BY <1>4, <1>5, NoTree, TableNow
<1>7. Placed(node, held[t], D, o, root[t])
  <2>1. CASE root[t] = 0
    BY <1>1, <1>2, <1>5, <1>6, <2>1 DEF Placed
  <2>2. CASE root[t] # 0
    <3>1. root[t] \in held[t]
      BY <1>5, <1>6, <2>2 DEF Top
    <3>2. Path(node, held[t], D, root[t], h)
      BY <1>4, <1>5, <3>1, PathRoot, TableNow
    <3> QED  BY <1>1, <1>2, <1>5, <2>2, <3>1, <3>2 DEF Placed
  <2> QED  BY <2>1, <2>2
<1>8. Counted(node, held[t], Over(node, o))
  <2>1. Over(node, op[t]) \cap held[t] = {}
    BY <1>1 DEF Over, Seeking
  <2>2. CASE root[t] = 0
    BY <1>6, <1>4, <2>2 DEF Counted
  <2>3. CASE root[t] # 0
    <3>1. node[root[t]].p = 0
      BY <1>5, <1>6, <2>3 DEF Top
    <3>2. Over(node, o) \subseteq {0}
      BY <1>1, <1>2, <2>3, <3>1 DEF Over
    <3>3. 0 \notin held[t]
      BY NodesAre, TableNow
    <3>4. Over(node, op[t]) \cap held[t] = Over(node, o) \cap held[t]
      BY <2>1, <3>2, <3>3
    <3> QED  BY <1>4, <3>4, CountedSame, TableNow
  <2> QED  BY <2>2, <2>3
<1>9. TableOK(node, held[t], o, root[t])
  BY <1>4, <1>7, <1>8 DEF TableOK
<1>10. Apart(held[t], o)
  BY <1>1, <1>2 DEF Apart
<1>11. t \notin ByEntry => Unique(node, held[t], o)
  BY <1>0, <1>2, TableNow DEF Unique
<1>12. pfree' \subseteq Nodes /\ \A u \in Tables : UseOf(held[u], op[u]) \cap pfree' = {}
  BY <1>0, TableNow
<1> QED  BY <1>0, <1>2, <1>3, <1>9, <1>10, <1>11, <1>12, OpKeeps

-----------------------------------------------------------------------------
\* Between two looks at the free list.
LEMMA SeekKeeps ==
  ASSUME TreeInv, NEW t \in Tables, op[t].do \in Seeking, NEW d \in Seeking, op' = [op EXCEPT ![t].do = d],
         node' = node, root' = root, held' = held,
         pfree' \subseteq Nodes, \A u \in Tables : UseOf(held[u], op[u]) \cap pfree' = {}
  PROVE  TreeInv'
<1> DEFINE o == [op[t] EXCEPT !.do = d]
<1>1. o \in OpType /\ o.do = d /\ o.at = op[t].at /\ o.h = op[t].h
  BY OpChanged, TableNow
<1>2. op' = [op EXCEPT ![t] = o]
  BY TableNow
<1> HIDE DEF o
<1>3. "delete" \notin Seeking /\ "up" \notin Seeking /\ "down" \notin Seeking
  BY Zenon DEF Seeking
<1>4. UseOf(held[t], o) = UseOf(held[t], op[t]) /\ TreeOf(held[t], o) = TreeNow(t)
  BY <1>1, <1>3 DEF UseOf, TreeOf, TreeNow
<1>5. PICK D : Shape(node, TreeNow(t), D) /\ Counted(node, TreeNow(t), Over(node, op[t])) /\ Placed(node, TreeNow(t), D, op[t], root[t])
  BY TableNow DEF TableOK
<1>6. Over(node, o) = Over(node, op[t])
  BY <1>1, <1>3 DEF Over
<1>7. Placed(node, TreeNow(t), D, o, root[t])
  BY <1>1, <1>3, <1>5 DEF Placed
<1>8. TableOK(node, TreeNow(t), o, root[t])
  BY <1>5, <1>6, <1>7 DEF TableOK
<1>9. Apart(held[t], o) /\ (t \notin ByEntry => Unique(node, held[t], o))
  BY <1>1, <1>3, TableNow DEF Apart, Unique
<1> QED  BY <1>1, <1>2, <1>4, <1>8, <1>9, OpKeeps

\* The looks at the list that leave it as it is.
LEMMA GetNoneKeeps ==
  ASSUME TreeInv, NEW t \in Tables, GetNone(t) \/ AddNodes(t) \/ AddNone(t)
  PROVE  TreeInv'
<1>1. op[t].do \in Seeking /\ \E d \in Seeking : op' = [op EXCEPT ![t].do = d]
  BY Zenon DEF GetNone, AddNodes, AddNone, Seeking
<1>2. node' = node /\ root' = root /\ held' = held /\ pfree' = pfree
  BY Zenon DEF GetNone, AddNodes, AddNone
<1>3. pfree' \subseteq Nodes /\ \A u \in Tables : UseOf(held[u], op[u]) \cap pfree' = {}
  BY <1>2, TableNow
<1> QED  BY <1>1, <1>2, <1>3, SeekKeeps

\* binary_tree_add takes nodes that no table uses, also those that the list has lost.
LEMMA FillKeeps ==
  ASSUME TreeInv, NEW t \in Tables, Fill(t)
  PROVE  TreeInv'
<1>1. op[t].do \in Seeking /\ "get again" \in Seeking /\ op' = [op EXCEPT ![t].do = "get again"]
  BY Zenon DEF Fill, Seeking
<1>2. node' = node /\ root' = root /\ held' = held /\ pfree' \subseteq Nodes \ UNION {InUse(u) : u \in Tables}
  BY Zenon DEF Fill
<1>3. \A u \in Tables : InUse(u) = UseOf(held[u], op[u])
  BY UseIs DEF TreeInv, TreeTyped
<1>4. pfree' \subseteq Nodes /\ \A u \in Tables : UseOf(held[u], op[u]) \cap pfree' = {}
  BY <1>2, <1>3
<1> QED  BY <1>1, <1>2, <1>4, SeekKeeps, Zenon

\* The node that is found for an entry is the node of that entry.
LEMMA DeleteBeginKeeps ==
  ASSUME TreeInv, NEW t \in Tables, NEW n \in Nodes, DeleteBegin(t, n)
  PROVE  TreeInv'
<1> DEFINE m == IF t \in ByEntry THEN n ELSE Search(t, node[n].hash)
           o == [do |-> "delete", at |-> m]
<1>0. /\ op[t] = Idle /\ n \in held[t]
      /\ node' = node /\ root' = root /\ pfree' = pfree
      /\ IF m \in Found(t, node[n].hash) THEN op' = [op EXCEPT ![t] = o] /\ held' = [held EXCEPT ![t] = @ \ {n}]
                                         ELSE op' = op /\ held' = held
  BY DEF DeleteBegin
<1> HIDE DEF m
<1>1. CASE m \notin Found(t, node[n].hash)
  <2>1. UNCHANGED <<node, root, pfree, op, held>>
    BY <1>0, <1>1
  <2> QED  BY <2>1 DEF TreeInv, TreeTyped, TablesOK, NodesOK
<1>2. CASE m \in Found(t, node[n].hash)
  <2>1. /\ op[t].do = "idle" /\ "idle" \notin {"delete", "up"} /\ "idle" \notin Seeking \cup {"down"} /\ n \in Null
        /\ "delete" \notin Seeking \cup {"down", "up"}
    BY <1>0, OpMade, Zenon DEF Null, Seeking
  <2>2. UseOf(held[t], op[t]) = held[t] /\ TreeNow(t) = held[t]
    BY <2>1 DEF UseOf, TreeOf, TreeNow
  <2>3. PICK D : Shape(node, held[t], D) /\ Counted(node, held[t], Over(node, op[t])) /\ Placed(node, held[t], D, op[t], root[t])
    BY <2>2, TableNow DEF TableOK
  <2>4. Top(node, held[t], D, root[t])
    BY <2>1, <2>3 DEF Placed
  <2>5. node[n].hash \in Int
    BY <2>1, TableNow DEF Graph, NodeRec
  <2>6. m = n
    <3>1. CASE t \in ByEntry
      BY <3>1 DEF m
    <3>2. CASE t \notin ByEntry
      <4>1. m = Search(t, node[n].hash)
        BY <3>2 DEF m
      <4>2. Found(t, node[n].hash) \subseteq held[t] /\ node[Search(t, node[n].hash)].hash = node[n].hash
        BY <1>0, <2>3, <2>4, <2>5, TableNow, SearchFinds
      <4>3. m \in held[t] /\ node[m].hash = node[n].hash
        BY <1>2, <4>1, <4>2
      <4>4. Unique(node, held[t], op[t])
        BY <3>2, TableNow
      <4> QED  BY <1>0, <4>3, <4>4 DEF Unique
    <3> QED  BY <3>1, <3>2
  <2>7. o \in OpType /\ o.do = "delete" /\ o.at = n
    BY <2>6, OpMade
  <2> HIDE DEF o
  <2>8. op' = [op EXCEPT ![t] = o] /\ held' = [held EXCEPT ![t] = @ \ {n}]
    BY <1>0, <1>2
  <2>9. /\ op' \in [Tables -> OpType] /\ held' \in [Tables -> SUBSET Nodes]
        /\ op'[t] = o /\ held'[t] = held[t] \ {n}
        /\ \A u \in Tables \ {t} : op'[u] = op[u] /\ held'[u] = held[u]
    BY <2>7, <2>8, TableNow
  <2>10. Alone(t)
    BY <1>0, <2>9, TableNow DEF Alone
  <2>11. UseOf(held'[t], op'[t]) = held[t] /\ TreeOf(held'[t], op'[t]) = held[t]
    BY <1>0, <2>7, <2>9 DEF UseOf, TreeOf
  <2>12. Mine(t)
    BY <1>0, <2>2, <2>11, TableNow DEF Mine
  <2>13. Right(t)
    <3>1. Placed(node, held[t], D, o, root[t])
      BY <2>1, <2>4, <2>7 DEF Placed
    <3>2. Over(node, o) = {} /\ Over(node, op[t]) = {}
      BY <2>1, <2>7 DEF Over
    <3>3. TableOK(node, held[t], o, root[t])
      BY <2>3, <3>1, <3>2 DEF TableOK
    <3>4. Apart(held'[t], o)
      BY <2>7, <2>9 DEF Apart
    <3>5. t \notin ByEntry => Unique(node, held'[t], o)
      BY <2>1, <2>7, <2>9, TableNow DEF Unique
    <3> QED  BY <1>0, <2>9, <2>11, <3>3, <3>4, <3>5 DEF Right
  <2> QED  BY <2>10, <2>12, <2>13, StepKeeps
<1> QED  BY <1>1, <1>2

-----------------------------------------------------------------------------
\* While a node is deleted its table has trees with exact counts.
LEMMA DeletingIs ==
  ASSUME TreeInv, NEW t \in Tables, op[t].do = "delete"
  PROVE  \E D : /\ Shape(node, TreeNow(t), D) /\ Counted(node, TreeNow(t), {})
                /\ \E s : Top(node, TreeNow(t), D, s)
<1>1. PICK D : Shape(node, TreeNow(t), D) /\ Counted(node, TreeNow(t), Over(node, op[t])) /\ Placed(node, TreeNow(t), D, op[t], root[t])
  BY TableNow DEF TableOK
<1>2. Over(node, op[t]) = {}
  BY DEF Over, Seeking
<1> QED  BY <1>1, <1>2 DEF Placed

\* The node that is deleted is no entry any more, and still in the tree.
LEMMA DeletingNodes ==
  ASSUME TreeInv, NEW t \in Tables, op[t].do = "delete", NEW n, n = op[t].at
  PROVE  /\ TreeNow(t) = held[t] \cup {n} /\ n \notin held[t] /\ n \in TreeNow(t) /\ n \in Nodes /\ n \in Null
         /\ UseOf(held[t], op[t]) = TreeNow(t) /\ TreeNow(t) \subseteq Nodes /\ TreeNow(t) \subseteq Null /\ 0 \notin TreeNow(t)
<1>1. n \in Nodes
  BY OpIs, TableNow
<1>2. n \notin held[t]
  BY TableNow DEF Apart
<1>3. TreeNow(t) = held[t] \cup {n} /\ UseOf(held[t], op[t]) = held[t] \cup {n}
  BY <1>1 DEF TreeNow, TreeOf, UseOf
<1> QED  BY <1>1, <1>2, <1>3, TableNow, NodesAre DEF Null

\* The node n leaves the tree, and c has its place below q.
TakenOut(t, n, q, c) ==
  /\ op' = [op EXCEPT ![t] = [do |-> "up", at |-> q, n |-> n]]
  /\ root' = IF q = 0 THEN [root EXCEPT ![t] = c] ELSE root
  /\ held' = held /\ pfree' = pfree

\* No node is its own parent.
LEMMA NoSelf ==
  ASSUME NEW f \in Graph, NEW S, NEW D, Shape(f, S, D)
  PROVE  \A z \in S : f[z].p # z
<1>1. ASSUME NEW z \in S, f[z].p = z PROVE FALSE
  <2>1. z # 0
    BY UnderIs
  <2>2. PICK d \in Links : f[z][d] = z
    BY <1>1, <2>1 DEF Shape, Joined
  <2>3. z \in Under(f, D, z, d) /\ z \notin Under(f, D, z, d)
    BY <2>1, <2>2, UnderIs DEF Shape, Below
  <2> QED  BY <2>3
<1> QED  BY <1>1

\* A node has been taken out of its tree.
LEMMA UnlinkedKeeps ==
  ASSUME TreeInv, NEW t \in Tables, op[t].do = "delete", NEW n, n = op[t].at, NEW q, q = node[n].p,
         NEW c \in Null, TakenOut(t, n, q, c), NEW g, node' = g, g \in Graph,
         NEW D, Shape(node, TreeNow(t), D), NEW s, Top(node, TreeNow(t), D, s),
         NEW E, Shape(g, TreeNow(t) \ {n}, E), Top(g, TreeNow(t) \ {n}, E, IF s = n THEN c ELSE s),
         Counted(g, TreeNow(t) \ {n}, {q}), Stays(node, g, TreeNow(t)),
         \A z \in Null : g[z].hash = node[z].hash
  PROVE  TreeInv'
<1> DEFINE o == [do |-> "up", at |-> q, n |-> n]
<1>1. /\ TreeNow(t) = held[t] \cup {n} /\ n \notin held[t] /\ n \in TreeNow(t) /\ n \in Nodes /\ n \in Null
      /\ UseOf(held[t], op[t]) = TreeNow(t) /\ TreeNow(t) \subseteq Nodes /\ TreeNow(t) \subseteq Null /\ 0 \notin TreeNow(t)
  BY DeletingNodes
<1>2. q \in TreeNow(t) \cup {0} /\ q \in Null /\ q # n
  <2>1. q \in TreeNow(t) \cup {0}
    BY <1>1 DEF Shape, Joined
  <2>2. q # n
    BY <1>1, NoSelf, TableNow
  <2> QED  BY <1>1, <2>1, <2>2 DEF Null
<1>3. o \in OpType /\ o.do = "up" /\ o.at = q /\ o.n = n
  BY <1>1, <1>2, OpMade
<1>4. op' = [op EXCEPT ![t] = o]
  BY DEF TakenOut
<1> HIDE DEF o
<1>5. /\ op' \in [Tables -> OpType] /\ held' = held /\ pfree' = pfree
      /\ op'[t] = o /\ held'[t] = held[t] /\ root' \in [Tables -> Null]
      /\ root'[t] = IF q = 0 THEN c ELSE root[t]
      /\ \A u \in Tables \ {t} : op'[u] = op[u] /\ held'[u] = held[u] /\ root'[u] = root[u]
  BY <1>3, <1>4, TableNow DEF TakenOut
<1>6. Alone(t)
  BY <1>5, TableNow DEF Alone
<1>7. "up" \notin Seeking /\ TreeOf(held[t], o) = TreeNow(t) \ {n} /\ UseOf(held[t], o) = TreeNow(t) /\ held[t] = TreeNow(t) \ {n}
  BY <1>1, <1>3, SMTT(30) DEF TreeOf, UseOf, Seeking
<1>8. Mine(t)
  <2>1. \A z \in pfree : node[z] = Cleared /\ z \in Null /\ z \notin TreeNow(t)
    BY <1>1, TableNow DEF Null
  <2>2. \A z \in Null : z \notin TreeNow(t) => node'[z] = node[z]
    BY DEF Stays
  <2> QED  BY <1>1, <1>5, <1>7, <2>1, <2>2, TableNow DEF Mine
<1>9. Right(t)
  <2>1. Over(g, o) = {q}
    BY <1>2, <1>3, <1>7 DEF Over
  <2>2. q = 0 => s = n
    BY <1>1 DEF Top
  <2>3. Placed(g, TreeNow(t) \ {n}, E, o, root'[t])
    <3>1. o.at \in (TreeNow(t) \ {n}) \cup {0}
      BY <1>2, <1>3
    <3>2. o.at = 0 => Top(g, TreeNow(t) \ {n}, E, root'[t])
      BY <1>3, <1>5, <2>2
    <3> QED  BY <1>3, <1>7, <3>1, <3>2 DEF Placed
  <2>4. TableOK(g, TreeNow(t) \ {n}, o, root'[t])
    BY <2>1, <2>3 DEF TableOK
  <2>5. Apart(held[t], o)
    BY <1>1, <1>3 DEF Apart
  <2>6. t \notin ByEntry => Unique(g, held[t], o)
    BY <1>1, <1>3, <1>7, TableNow DEF Unique
  <2> QED  BY <1>5, <1>7, <2>4, <2>5, <2>6 DEF Right
<1> QED  BY <1>6, <1>8, <1>9, StepKeeps

\* The next of the chain takes the place of the node.
LEMMA DeleteChainedKeeps ==
  ASSUME TreeInv, NEW t \in Tables, DeleteChained(t)
  PROVE  TreeInv'
<1> DEFINE n == op[t].at
           e == node[n].e
           q == node[n].p
           g == node'
<1>1. op[t].do = "delete" /\ e # 0 /\ TakenOut(t, n, q, e)
  BY Zenon DEF DeleteChained, TakenOut
<1>2. /\ n \in TreeNow(t) /\ TreeNow(t) \subseteq Null /\ TreeNow(t) \subseteq Nodes /\ n \in Null
  BY <1>1, DeletingNodes
<1>3. PICK D : /\ Shape(node, TreeNow(t), D) /\ Counted(node, TreeNow(t), {})
               /\ \E s : Top(node, TreeNow(t), D, s)
  BY <1>1, DeletingIs
<1>4. Chaining(node, TreeNow(t), n, q, e)
  BY <1>1, <1>2 DEF Chaining
<1>5. e \in Null /\ q \in Null /\ n # e /\ q # e /\ node[n].l # e /\ node[n].a # e /\ node[n].count - 1 \in Int
  <2>1. /\ e = node[n]["e"] /\ q \in TreeNow(t) \cup {0} /\ e \in TreeNow(t) /\ e # n /\ q # e
        /\ "e" \in Links /\ "a" \in Links /\ "l" \in Links
        /\ \A z \in TreeNow(t) : \A i, k \in Links : node[z][i] = node[z][k] /\ node[z][i] # 0 => i = k
    BY <1>3, <1>4, ChainingIs, TableNow
  <2>2. node[n]["l"] # e /\ node[n]["a"] # e
    BY <1>1, <1>2, <2>1
  <2>3. node[n].count - 1 \in Int
    BY <1>2, TableNow DEF Graph, NodeRec
  <2> QED  BY <1>2, <2>1, <2>2, <2>3 DEF Null
<1>6. HasNext(node, g, n, e, q)
  <2>1. g = Relinked([Set(Set(node, node[n].l, "p", e), node[n].a, "p", e)
                     EXCEPT ![e].l = node[n].l, ![e].a = node[n].a, ![e].p = q, ![e].count = node[n].count - 1],
                     q, n, e)
    BY Zenon DEF DeleteChained
  <2> HIDE DEF n, e, q, g
  <2> QED  BY <1>1, <1>2, <1>5, <2>1, NextIs, TableNow, Zenon
<1>7. g \in Graph /\ (\A z \in Null : g[z].hash = node[z].hash)
  BY <1>6 DEF HasNext
<1>8. Stays(node, g, TreeNow(t))
  <2>1. /\ q \in TreeNow(t) \cup {0} /\ e \in TreeNow(t)
        /\ node[n]["l"] \in TreeNow(t) \cup {0} /\ node[n]["a"] \in TreeNow(t) \cup {0}
    BY <1>2, <1>3, <1>4, ChainingIs, TableNow
  <2> QED  BY <1>6, <2>1 DEF HasNext, Stays
<1> HIDE DEF n, e, q, g
<1>9. PICK E : /\ Shape(g, TreeNow(t) \ {n}, E)
               /\ \A r : Top(node, TreeNow(t), D, r) => Top(g, TreeNow(t) \ {n}, E, IF r = n THEN e ELSE r)
  <2>1. node \in Graph /\ g \in Graph /\ Shape(node, TreeNow(t), D)
    BY <1>3, <1>7, TableNow
  <2> QED  BY <1>4, <1>6, <2>1, NextShape
<1>10. Counted(g, TreeNow(t) \ {n}, {q})
  BY <1>3, <1>4, <1>6, <1>7, NextCounts, TableNow
<1>11. PICK s : Top(node, TreeNow(t), D, s)
  BY <1>3
<1>12. Top(g, TreeNow(t) \ {n}, E, IF s = n THEN e ELSE s)
  BY <1>9, <1>11
<1>13. n = op[t].at /\ q = node[n].p /\ node' = g
  BY DEF n, q, g
<1> QED  BY <1>1, <1>3, <1>5, <1>7, <1>8, <1>9, <1>10, <1>11, <1>12, <1>13, UnlinkedKeeps

\* The node n of the trees of S is taken out, and c has its place below q.
Removed(f, g, S, D, n, q, c) ==
  /\ g \in Graph /\ (\A z \in Null : g[z].hash = f[z].hash)
  /\ Stays(f, g, S) /\ Counted(g, S \ {n}, {q})
  /\ \E E : /\ Shape(g, S \ {n}, E)
            /\ \A r : Top(f, S, D, r) => Top(g, S \ {n}, E, IF r = n THEN c ELSE r)

\* What binary_tree_delete does to a tree when the node has one child at most.
LEMMA GoneAll ==
  ASSUME NEW f \in Graph, NEW g, NEW S, NEW D, Shape(f, S, D), NEW n, NEW q, NEW j, NEW c,
         Going(f, S, n, q, j, c), HasGone(f, g, n, c, q), Counted(f, S, {})
  PROVE  Removed(f, g, S, D, n, q, c)
<1>1. g \in Graph /\ (\A z \in Null : g[z].hash = f[z].hash)
  BY DEF HasGone
<1>2. Stays(f, g, S)
  <2>1. (c # 0 => c \in S) /\ (q # 0 => q \in S)
    BY <1>1, GoneLinked
  <2> QED  BY <2>1 DEF HasGone, Stays
<1>3. Counted(g, S \ {n}, {q})
  <2>1. {} \cap S = {}
    OBVIOUS
  <2> QED  BY <1>1, <2>1, GoneCounts
<1>4. \E E : /\ Shape(g, S \ {n}, E)
            /\ \A r : Top(f, S, D, r) => Top(g, S \ {n}, E, IF r = n THEN c ELSE r)
  BY <1>1, GoneShape
<1> QED  BY <1>1, <1>2, <1>3, <1>4 DEF Removed

\* What goes when the node has one child at most.
LEMMA GoneKeeps ==
  ASSUME TreeInv, NEW t \in Tables, op[t].do = "delete", NEW n, n = op[t].at, NEW q, q = node[n].p,
         NEW c \in Null, TakenOut(t, n, q, c), NEW g, node' = g, NEW j,
         Going(node, TreeNow(t), n, q, j, c), HasGone(node, g, n, c, q)
  PROVE  TreeInv'
<1>1. PICK D : /\ Shape(node, TreeNow(t), D) /\ Counted(node, TreeNow(t), {})
               /\ \E s : Top(node, TreeNow(t), D, s)
  BY DeletingIs
<1>2. Removed(node, g, TreeNow(t), D, n, q, c)
  <2>1. node \in Graph /\ Shape(node, TreeNow(t), D) /\ Counted(node, TreeNow(t), {})
    BY <1>1, TableNow
  <2> QED  BY <2>1, GoneAll
<1>3. Shape(node, TreeNow(t), D)
  BY <1>1
<1>4. PICK E : /\ Shape(g, TreeNow(t) \ {n}, E)
               /\ \A r : Top(node, TreeNow(t), D, r) => Top(g, TreeNow(t) \ {n}, E, IF r = n THEN c ELSE r)
  BY <1>2 DEF Removed
<1>5. /\ g \in Graph /\ (\A z \in Null : g[z].hash = node[z].hash)
      /\ Stays(node, g, TreeNow(t)) /\ Counted(g, TreeNow(t) \ {n}, {q})
  BY <1>2 DEF Removed
<1>7. PICK s : Top(node, TreeNow(t), D, s)
  BY <1>1
<1>8. Top(g, TreeNow(t) \ {n}, E, IF s = n THEN c ELSE s)
  BY <1>4, <1>7
<1> QED  BY <1>3, <1>4, <1>5, <1>7, <1>8, UnlinkedKeeps

\* The last of a chain goes.
LEMMA DeleteLastKeeps ==
  ASSUME TreeInv, NEW t \in Tables, DeleteLast(t)
  PROVE  TreeInv'
<1> DEFINE n == op[t].at
           q == node[n].p
           g == node'
<1>1. /\ op[t].do = "delete" /\ node[n].e = 0 /\ q # 0 /\ node[q].e = n /\ TakenOut(t, n, q, 0)
      /\ PutLink(node, g, q, "e", 0)
  BY Zenon DEF DeleteLast, TakenOut, PutLink
<1>2. n \in TreeNow(t) /\ TreeNow(t) \subseteq Null /\ TreeNow(t) \subseteq Nodes /\ n \in Null /\ 0 \notin TreeNow(t)
  BY <1>1, DeletingNodes
<1>3. PICK D : Shape(node, TreeNow(t), D)
  BY <1>1, DeletingIs
<1>4. node \in Graph /\ "e" \in Links /\ "a" \in Links /\ "l" \in Links /\ 0 \in Null
  BY TableNow, LinksAre DEF Null
<1>5. q \in TreeNow(t) /\ q \in Null
  BY <1>1, <1>2, <1>3 DEF Shape, Joined
<1>6. HasLink(node, g, q, "e", 0)
  <2> HIDE DEF q, g
  <2> QED  BY <1>1, <1>4, <1>5, LinkPut
<1>7. HasGone(node, g, n, 0, q)
  <2>1. \A k \in Links : node[q][k] = n => k = "e"
    BY <1>1, <1>2, <1>3, <1>4, <1>5 DEF Shape, Joined
  <2>2. node[q]["e"] = n /\ "e" # "p"
    BY <1>1
  <2> HIDE DEF n, q, g
  <2>3. /\ g \in Graph
        /\ \A z \in Null : \A k \in Links : g[z][k] = IF z = q /\ k = "e" THEN 0 ELSE node[z][k]
        /\ \A z \in Null : g[z].p = node[z].p /\ g[z].count = node[z].count /\ g[z].hash = node[z].hash
        /\ \A z \in Null \ {q} : g[z] = node[z]
    BY <1>6, <2>2 DEF HasLink
  <2>4. \A z \in Null : \A k \in Links : g[z][k] = IF z = q /\ q # 0 /\ node[z][k] = n THEN 0 ELSE node[z][k]
    BY <1>1, <2>1, <2>2, <2>3
  <2> QED  BY <1>1, <2>3, <2>4 DEF HasGone
<1>8. Going(node, TreeNow(t), n, q, "e", 0)
  <2>1. node[n].a = 0 /\ node[n].l = 0
    <3>1. node[q].e # 0
      BY <1>1, <1>2
    <3> QED  BY <1>1, <1>3, <1>5, <3>1 DEF Shape, Joined
  <2>2. \A k \in Links : node[n][k] # 0 => k = "e"
    BY <2>1, LinksAre
  <2>3. 0 = node[n]["e"]
    BY <1>1
  <2> QED  BY <1>2, <1>4, <2>2, <2>3 DEF Going
<1>9. n = op[t].at /\ q = node[n].p /\ node' = g
  OBVIOUS
<1> HIDE DEF n, q, g
<1> QED  BY <1>1, <1>4, <1>7, <1>8, <1>9, GoneKeeps

\* The only child, if any, takes the place of the node.
LEMMA DeleteUnlinkKeeps ==
  ASSUME TreeInv, NEW t \in Tables, DeleteUnlink(t)
  PROVE  TreeInv'
<1> DEFINE n == op[t].at
           q == node[n].p
           c == IF node[n].a # 0 THEN node[n].a ELSE node[n].l
           j == IF node[n].a # 0 THEN "a" ELSE "l"
           g == node'
<1>1. /\ op[t].do = "delete" /\ node[n].e = 0 /\ (q = 0 \/ node[q].e # n) /\ TakenOut(t, n, q, c)
      /\ node[n].l = 0 \/ node[n].a = 0
      /\ g = Relinked(Set(node, c, "p", q), q, n, c)
  BY SMTT(30) DEF DeleteUnlink, TakenOut
<1>2. n \in TreeNow(t) /\ TreeNow(t) \subseteq Null /\ TreeNow(t) \subseteq Nodes /\ n \in Null /\ 0 \notin TreeNow(t)
  BY <1>1, DeletingNodes
<1>3. node \in Graph /\ "a" \in Links /\ "l" \in Links /\ 0 \in Null
  BY TableNow, LinksAre DEF Null
<1>4. q \in Null /\ c \in Null
  BY <1>2, <1>3 DEF Graph, NodeRec
<1>5. HasGone(node, g, n, c, q)
  <2> HIDE DEF n, q, c, g
  <2> QED  BY <1>1, <1>2, <1>3, <1>4, GoneIs
<1>6. Going(node, TreeNow(t), n, q, j, c)
  <2>1. \A k \in Links : node[n][k] # 0 => k = j
    BY <1>1, LinksAre
  <2>2. c = node[n][j] /\ j \in Links
    BY <1>3
  <2> QED  BY <1>1, <1>2, <2>1, <2>2, Zenon DEF Going
<1>7. n = op[t].at /\ q = node[n].p /\ node' = g
  OBVIOUS
<1> HIDE DEF n, q, c, j, g
<1> QED  BY <1>1, <1>4, <1>5, <1>6, <1>7, GoneKeeps, SMTT(30)

-----------------------------------------------------------------------------
\* A step that changes the trees of a table, and no nodes of it.
LEMMA TreeKeeps ==
  ASSUME TreeInv, NEW t \in Tables, NEW g \in Graph, node' = g, NEW o \in OpType,
         op' = [op EXCEPT ![t] = o], held' = held, pfree' = pfree,
         root' \in [Tables -> Null], \A u \in Tables \ {t} : root'[u] = root[u],
         TreeOf(held[t], o) = TreeNow(t), UseOf(held[t], o) = UseOf(held[t], op[t]),
         TableOK(g, TreeNow(t), o, root'[t]), Apart(held[t], o),
         o.do \in {"down"} \cup Seeking => op[t].do \in {"down"} \cup Seeking /\ o.h = op[t].h,
         Stays(node, g, TreeNow(t)), \A z \in Null : g[z].hash = node[z].hash
  PROVE  TreeInv'
<1>1. op' \in [Tables -> OpType] /\ op'[t] = o /\ \A u \in Tables \ {t} : op'[u] = op[u]
  BY TableNow
<1>2. Alone(t)
  BY <1>1, TableNow DEF Alone
<1>3. Mine(t)
  <2>1. UseOf(held'[t], op'[t]) = UseOf(held[t], op[t])
    BY <1>1
  <2>2. \A z \in UseOf(held[t], op[t]) \cup pfree : z \notin UseOf(held'[t], op'[t]) => node'[z] = Cleared
    <3>1. ASSUME NEW z \in pfree, z \notin UseOf(held[t], op[t]) PROVE g[z] = Cleared
      <4>1. z \in Null /\ z \notin TreeNow(t) /\ node[z] = Cleared
        BY <3>1, TableNow DEF Null
      <4> QED  BY <4>1 DEF Stays
    <3> QED  BY <2>1, <3>1
  <2>3. \A z \in Null : z \notin UseOf(held[t], op[t]) \cup pfree => node'[z] = node[z]
    BY TableNow DEF Stays
  <2> QED  BY <2>1, <2>2, <2>3, TableNow DEF Mine
<1>4. Right(t)
  <2>1. \A z \in held[t] : g[z].hash = node[z].hash
    BY TableNow DEF Null
  <2>2. t \notin ByEntry => Unique(g, held[t], o)
    BY <2>1, TableNow DEF Unique
  <2> QED  BY <1>1, <2>2 DEF Right
<1> QED  BY <1>2, <1>3, <1>4, StepKeeps

\* A node with two children goes down.
LEMMA DeleteRotateKeeps ==
  ASSUME TreeInv, NEW t \in Tables, DeleteRotate(t)
  PROVE  TreeInv'
<1> DEFINE n == op[t].at
           d == IF node[node[n].l].count > node[node[n].a].count THEN "l" ELSE "a"
           g == node'
<1>1. /\ op[t].do = "delete" /\ Plain(node, n) /\ node[n][d] # 0 /\ g = Rotated(node, n, d)
      /\ root' = root /\ pfree' = pfree /\ op' = op /\ held' = held
  BY Zenon DEF DeleteRotate, Plain
<1>2. n \in TreeNow(t) /\ d \in {"a", "l"} /\ n = op[t].at
  BY <1>1, DeletingNodes, Zenon
<1>3. PICK D : /\ Shape(node, TreeNow(t), D) /\ Counted(node, TreeNow(t), {})
               /\ \E s : Top(node, TreeNow(t), D, s)
  BY <1>1, DeletingIs, Zenon
<1> HIDE DEF n, d
<1>4. /\ g \in Graph /\ Stays(node, g, TreeNow(t)) /\ Counted(g, TreeNow(t), {})
      /\ \A z \in Null : g[z].hash = node[z].hash
      /\ \E E : /\ Shape(g, TreeNow(t), E)
                /\ \A r : Top(node, TreeNow(t), D, r) => Top(g, TreeNow(t), E, IF r = n THEN node[n][d] ELSE r)
  <2>1. node \in Graph /\ n \notin {} /\ node[n][d] \notin {} /\ Shape(node, TreeNow(t), D) /\ Counted(node, TreeNow(t), {})
    BY <1>3, TableNow
  <2> HIDE DEF g
  <2> QED  BY <1>1, <1>2, <2>1, RotationKeeps
<1> HIDE DEF g
<1>5. PICK E : /\ Shape(g, TreeNow(t), E)
               /\ \A r : Top(node, TreeNow(t), D, r) => Top(g, TreeNow(t), E, IF r = n THEN node[n][d] ELSE r)
  BY <1>4
<1>6. \E s : Top(g, TreeNow(t), E, s)
  BY <1>3, <1>5
<1>7. Over(g, op[t]) = {} /\ "delete" \notin Seeking \cup {"up", "down"}
  BY <1>1 DEF Over, Seeking
<1>8. Placed(g, TreeNow(t), E, op[t], root'[t])
  BY <1>1, <1>6, <1>7 DEF Placed
<1>9. TableOK(g, TreeNow(t), op[t], root'[t])
  BY <1>4, <1>5, <1>7, <1>8 DEF TableOK
<1>10. op' = [op EXCEPT ![t] = op[t]] /\ TreeOf(held[t], op[t]) = TreeNow(t) /\ node' = g
  BY <1>1, TableNow DEF TreeNow, g
<1> QED  BY <1>1, <1>4, <1>7, <1>9, <1>10, TableNow, TreeKeeps, Zenon

-----------------------------------------------------------------------------
\* After that one node counts too much.
LEMMA UpNow ==
  ASSUME TreeInv, NEW t \in Tables, op[t].do = "up"
  PROVE  /\ TreeNow(t) = held[t] /\ UseOf(held[t], op[t]) = held[t] \cup {op[t].n} /\ op[t].n \in Nodes
         /\ op[t].n \notin held[t] /\ op[t].at \in Null
         /\ \E D : /\ Shape(node, held[t], D) /\ Counted(node, held[t], {op[t].at})
                   /\ Placed(node, held[t], D, op[t], root[t])
<1>1. op[t].n \in Nodes /\ op[t].at \in Null /\ op[t].n \notin held[t]
  BY OpIs, TableNow DEF Apart
<1>2. TreeNow(t) = held[t] /\ UseOf(held[t], op[t]) = held[t] \cup {op[t].n}
  BY <1>1 DEF TreeNow, TreeOf, UseOf
<1>3. PICK D : Shape(node, TreeNow(t), D) /\ Counted(node, TreeNow(t), Over(node, op[t])) /\ Placed(node, TreeNow(t), D, op[t], root[t])
  BY TableNow DEF TableOK
<1>4. Over(node, op[t]) = {op[t].at}
  BY <1>1 DEF Over, Seeking
<1> QED  BY <1>1, <1>2, <1>3, <1>4

\* It counts less, and its parent is next; the one without a parent is the root.
LEMMA CountUpKeeps ==
  ASSUME TreeInv, NEW t \in Tables, CountUp(t)
  PROVE  TreeInv'
<1> DEFINE q == op[t].at
           p == node[q].p
           o == [op[t] EXCEPT !.at = p]
           g == node'
<1>1. /\ op[t].do = "up" /\ q # 0 /\ PutCount(node, g, q, node[q].count - 1)
      /\ root' = IF p = 0 THEN [root EXCEPT ![t] = q] ELSE root
      /\ op' = [op EXCEPT ![t].at = p] /\ pfree' = pfree /\ held' = held
  BY DEF CountUp, PutCount
<1>2. /\ TreeNow(t) = held[t] /\ UseOf(held[t], op[t]) = held[t] \cup {op[t].n} /\ op[t].n \in Nodes
      /\ op[t].n \notin held[t] /\ q \in Null
  BY <1>1, UpNow
<1>3. PICK D : /\ Shape(node, held[t], D) /\ Counted(node, held[t], {q})
               /\ Placed(node, held[t], D, op[t], root[t])
  BY <1>1, UpNow
<1>4. "up" \notin Seeking \cup {"down"}
  BY DEF Seeking
<1>5. q \in held[t] /\ p \in held[t] \cup {0} /\ p \in Null /\ held[t] \subseteq Null
  BY <1>1, <1>2, <1>3 DEF Placed, Shape, Joined, Null
<1>6. Counted(g, held[t], {p}) /\ g \in Graph
  <2> HIDE DEF q, g
  <2> QED  BY <1>1, <1>3, <1>5, TableNow, CountedLess
<1>7. HasCount(node, g, q, node[q].count - 1)
  <2>1. node[q].count - 1 \in Int /\ node \in Graph
    BY <1>5, TableNow DEF Graph, NodeRec
  <2> HIDE DEF q, g
  <2> QED  BY <1>1, <1>2, <2>1, CountPut
<1>8. Alike(node, g, held[t]) /\ Stays(node, g, held[t]) /\ (\A z \in Null : g[z].hash = node[z].hash)
  BY <1>5, <1>7 DEF HasCount, Alike, Stays
<1>9. /\ o \in OpType /\ o.do = "up" /\ o.at = p /\ o.n = op[t].n /\ op' = [op EXCEPT ![t] = o]
      /\ op[t] \in OpType
  BY <1>1, <1>5, OpChanged, TableNow
<1> HIDE DEF o, g, q
<1>10. Shape(g, held[t], D) /\ \A r : Top(node, held[t], D, r) => Top(g, held[t], D, r)
  BY <1>3, <1>8, AlikeShape
<1>11. PICK s : Top(node, held[t], D, s)
  BY <1>1, <1>3 DEF Placed
<1>12. p = 0 => s = q
  BY <1>5, <1>11 DEF Top
<1>13. root' \in [Tables -> Null] /\ (\A u \in Tables \ {t} : root'[u] = root[u]) /\ (p = 0 => root'[t] = q)
  BY <1>1, <1>2, TableNow
<1> HIDE DEF p
<1>14. Placed(g, held[t], D, o, root'[t])
  BY <1>4, <1>5, <1>9, <1>10, <1>11, <1>12, <1>13 DEF Placed
<1>15. Over(g, o) = {p}
  BY <1>4, <1>5, <1>9 DEF Over
<1>16. TableOK(g, TreeNow(t), o, root'[t])
  BY <1>2, <1>6, <1>10, <1>14, <1>15 DEF TableOK
<1>17. TreeOf(held[t], o) = TreeNow(t) /\ UseOf(held[t], o) = UseOf(held[t], op[t])
  BY <1>1, <1>2, <1>9 DEF TreeOf, UseOf
<1>18. Apart(held[t], o) /\ node' = g
  BY <1>2, <1>9 DEF Apart, g
<1>19. /\ ~ (o.do \in {"down"} \cup Seeking) /\ held' = held /\ pfree' = pfree /\ Stays(node, g, TreeNow(t))
       /\ \A z \in Null : g[z].hash = node[z].hash
  BY <1>1, <1>2, <1>4, <1>8, <1>9
<1> QED  BY <1>6, <1>9, <1>13, <1>16, <1>17, <1>18, <1>19, TreeKeeps

\* The node is cleared and free again.
LEMMA FreeNodeKeeps ==
  ASSUME TreeInv, NEW t \in Tables, FreeNode(t)
  PROVE  TreeInv'
<1> DEFINE n == op[t].n
           g == node'
<1>1. /\ op[t].do = "up" /\ op[t].at = 0 /\ g = [node EXCEPT ![n] = Cleared]
      /\ pfree' = pfree \cup {n} /\ op' = [op EXCEPT ![t] = Idle] /\ root' = root /\ held' = held
  BY DEF FreeNode
<1>2. /\ TreeNow(t) = held[t] /\ UseOf(held[t], op[t]) = held[t] \cup {n} /\ n \in Nodes /\ n \notin held[t]
      /\ 0 \in Null /\ n # 0 /\ held[t] \subseteq Null /\ n \in Null
  BY <1>1, UpNow, NodesAre, TableNow DEF Null
<1>3. PICK D : /\ Shape(node, held[t], D) /\ Counted(node, held[t], {0})
               /\ Placed(node, held[t], D, op[t], root[t])
  BY <1>1, UpNow
<1>4. Cleared \in NodeRec
  BY DEF Cleared, NodeRec, Null
<1>5. g \in Graph /\ g[n] = Cleared /\ \A z \in Null \ {n} : g[z] = node[z]
  BY <1>1, <1>2, <1>4, TableNow DEF Graph
<1> HIDE DEF g
<1>6. Idle \in OpType /\ Idle.do = "idle" /\ "idle" \notin Seeking \cup {"down", "delete", "up"}
  BY OpMade, Zenon DEF Seeking
<1>7. TableOK(node, held[t], Idle, root[t])
  <2>1. Placed(node, held[t], D, Idle, root[t])
    BY <1>1, <1>3, <1>6 DEF Placed
  <2>2. Over(node, Idle) = {}
    BY <1>6 DEF Over
  <2>3. 0 \notin held[t]
    BY NodesAre, TableNow
  <2>4. Counted(node, held[t], {})
    <3>1. {0} \cap held[t] = {} \cap held[t] /\ node \in Graph
      BY <2>3, TableNow
    <3> QED  BY <1>3, <3>1, CountedSame
  <2> QED  BY <1>3, <2>1, <2>2, <2>4 DEF TableOK
<1>8. TableOK(g, held[t], Idle, root[t])
  <2>1. \A z \in held[t] \cup {0} : g[z] = node[z]
    BY <1>2, <1>5
  <2> QED  BY <1>5, <1>6, <1>7, <2>1, TableNow, TableStays
<1>9. /\ op' \in [Tables -> OpType] /\ op'[t] = Idle /\ \A u \in Tables \ {t} : op'[u] = op[u]
  BY <1>1, <1>6, TableNow
<1>10. Alone(t)
  BY <1>1, <1>9, TableNow DEF Alone
<1>11. UseOf(held[t], Idle) = held[t] /\ TreeOf(held[t], Idle) = held[t]
  BY <1>6 DEF UseOf, TreeOf
<1>12. Mine(t)
  <2>1. node' = g /\ pfree' \subseteq Nodes
    BY <1>1, <1>2, TableNow DEF g
  <2>2. \A z \in Null : z \notin UseOf(held[t], op[t]) \cup pfree => node'[z] = node[z]
    BY <1>2, <1>5, <2>1
  <2>3. UseOf(held'[t], op'[t]) = held[t]
    BY <1>1, <1>9, <1>11
  <2>4. held[t] \cap pfree' = {}
    BY <1>1, <1>2, TableNow
  <2>5. \A u \in Tables \ {t} : UseOf(held[u], op[u]) \cap pfree' = {}
    <3>1. \A u \in Tables \ {t} : n \notin UseOf(held[u], op[u])
      BY <1>2 DEF TreeInv, NodesOK
    <3> QED  BY <1>1, <3>1, TableNow
  <2>6. \A z \in UseOf(held[t], op[t]) \cup pfree : z \notin held[t] => node'[z] = Cleared
    <3>1. ASSUME NEW z \in pfree PROVE g[z] = Cleared
      BY <1>5, TableNow DEF Null
    <3> QED  BY <1>2, <1>5, <2>1, <3>1
  <2> QED  BY <1>2, <1>5, <2>1, <2>2, <2>3, <2>4, <2>5, <2>6 DEF Mine
<1>13. Right(t)
  <2>1. Apart(held[t], Idle)
    BY <1>6 DEF Apart
  <2>2. \A z \in held[t] : g[z].hash = node[z].hash
    BY <1>2, <1>5
  <2>3. t \notin ByEntry => Unique(g, held[t], Idle)
    BY <1>6, <2>2, TableNow DEF Unique
  <2>4. node' = g
    BY DEF g
  <2> QED  BY <1>1, <1>8, <1>9, <1>11, <2>1, <2>3, <2>4 DEF Right
<1> QED  BY <1>10, <1>12, <1>13, StepKeeps

\* The side that comes up has a node.
LEMMA HeavyIs ==
  ASSUME NEW f \in Graph, NEW S, NEW D, Shape(f, S, D), NEW X, Counted(f, S, X), NEW x \in S,
         NEW d \in Heavy(f, x)
  PROVE  d \in {"a", "l"} /\ f[x][d] # 0
<1>1. "a" \in Links /\ "l" \in Links /\ f[x]["a"] \in S \cup {0} /\ f[x]["l"] \in S \cup {0}
  BY LinksAre DEF Shape, Joined
<1>2. f[f[x].a].count \in Nat /\ f[f[x].l].count \in Nat /\ f[0].count = 0
  BY <1>1 DEF Counted
<1>3. \/ d = "a" /\ f[f[x].a].count - f[f[x].l].count > 1
      \/ d = "l" /\ f[f[x].a].count - f[f[x].l].count < -1
  BY DEF Heavy
<1>4. CASE d = "a"
  <2>1. f[f[x].a].count > 0
    BY <1>2, <1>3, <1>4
  <2> QED  BY <1>2, <1>4, <2>1
<1>5. CASE d = "l"
  <2>1. f[f[x].l].count > 0
    BY <1>2, <1>3, <1>5
  <2> QED  BY <1>2, <1>5, <2>1
<1> QED  BY <1>3, <1>4, <1>5

\* One round of binary_tree_check_find: `top` is where x was, and a node of
\* hash h belongs below it.
Balanced(f, g, S, x, top) ==
  IF Heavy(f, x) = {} THEN g = f /\ top = x
  ELSE \E d \in Heavy(f, x) : g = Rotated(f, x, d) /\ top = f[x][d]

\* After the round there are the same trees, and `top` is on the way.
Onward(f, g, S, r, top, h) ==
  /\ g \in Graph /\ Stays(f, g, S) /\ (\A z \in Null : g[z].hash = f[z].hash)
  /\ top \in S /\ Counted(g, S, {g[top].p})
  /\ \E E : /\ Shape(g, S, E) /\ Path(g, S, E, top, h)
            /\ Top(g, S, E, IF g[top].p = 0 THEN top ELSE r)

\* The round leads on below the node that is on top now.
LEMMA BalancedIs ==
  ASSUME NEW f \in Graph, NEW S, NEW D, Shape(f, S, D), NEW x \in S, NEW h, Path(f, S, D, x, h),
         Counted(f, S, {f[x].p}), NEW r, Top(f, S, D, r), NEW g, NEW top, Balanced(f, g, S, x, top)
  PROVE  Onward(f, g, S, r, top, h)
<1>1. CASE Heavy(f, x) = {}
  <2>1. g = f /\ top = x
    BY <1>1 DEF Balanced
  <2>2. Top(f, S, D, IF f[x].p = 0 THEN x ELSE r)
    BY DEF Top
  <2>3. Stays(f, f, S)
    BY DEF Stays
  <2>4. Onward(f, f, S, r, x, h)
    BY <2>2, <2>3 DEF Onward
  <2> QED  BY <2>1, <2>4
<1>2. CASE Heavy(f, x) # {}
  <2>1. PICK d \in Heavy(f, x) : g = Rotated(f, x, d) /\ top = f[x][d]
    BY <1>2 DEF Balanced
  <2>2. d \in {"a", "l"} /\ f[x][d] # 0
    BY HeavyIs
  <2>3. Plain(f, x)
    BY PathPlain
  <2> DEFINE X == {f[x].p}
  <2>4. x \notin X /\ f[x][d] \notin X
    <3>1. f[x].p # x
      BY NoSelf
    <3>2. ASSUME f[x][d] = f[x].p PROVE FALSE
      <4> DEFINE o == IF d = "a" THEN "l" ELSE "a"
      <4>1. o \in {"a", "l"} /\ o # d
        OBVIOUS
      <4> HIDE DEF o
      <4>2. Turning(f, S, D, x, f[x][d], f[f[x][d]][o], f[x].p, d, o)
        BY <2>2, <2>3, <4>1, Around
      <4> QED  BY <3>2, <4>2 DEF Turning
    <3> QED  BY <3>1, <3>2
  <2>5. Counted(f, S, X)
    OBVIOUS
  <2> HIDE DEF X
  <2>6. /\ g \in Graph /\ Stays(f, g, S) /\ Counted(g, S, X)
        /\ \A z \in Null : g[z].hash = f[z].hash
        /\ f[x][d] \in S /\ g[f[x][d]].p = f[x].p
        /\ \E E : /\ Shape(g, S, E)
                  /\ \A s : Top(f, S, D, s) => Top(g, S, E, IF s = x THEN f[x][d] ELSE s)
                  /\ \A i : Path(f, S, D, x, i) => Path(g, S, E, f[x][d], i)
    BY <2>1, <2>2, <2>3, <2>4, <2>5, RotationKeeps
  <2>7. PICK E : /\ Shape(g, S, E)
                 /\ \A s : Top(f, S, D, s) => Top(g, S, E, IF s = x THEN f[x][d] ELSE s)
                 /\ \A i : Path(f, S, D, x, i) => Path(g, S, E, f[x][d], i)
    BY <2>6
  <2>8. Path(g, S, E, top, h) /\ Top(g, S, E, IF r = x THEN top ELSE r)
    BY <2>1, <2>7
  <2>9. Top(g, S, E, IF g[top].p = 0 THEN top ELSE r)
    <3>1. CASE g[top].p = 0
      BY <2>1, <2>6, <2>8, <3>1 DEF Top
    <3>2. CASE g[top].p # 0
      <4>1. r # x
        BY <2>1, <2>6, <3>2 DEF Top
      <4> QED  BY <2>8, <3>2, <4>1
    <3> QED  BY <3>1, <3>2
  <2>10. Counted(g, S, {g[top].p})
    BY <2>1, <2>6 DEF X
  <2>11. \E E1 : /\ Shape(g, S, E1) /\ Path(g, S, E1, top, h)
                 /\ Top(g, S, E1, IF g[top].p = 0 THEN top ELSE r)
    BY <2>7, <2>8, <2>9
  <2> QED  BY <2>1, <2>6, <2>10, <2>11 DEF Onward
<1> QED  BY <1>1, <1>2

\* A hash is on one side of a node.
LEMMA SidedOnce ==
  ASSUME NEW f \in Graph, NEW x \in Null, NEW h \in Int, NEW s \in Links, NEW d \in Links,
         Sided(f, x, s, h), Sided(f, x, d, h)
  PROVE  s = d
<1>1. f[x].hash \in Int
  BY DEF Graph, NodeRec
<1> QED  BY <1>1 DEF Sided, Links

\* A round of the search for the place of a new node.
LEMMA DescendKeeps ==
  ASSUME TreeInv, NEW t \in Tables, Descend(t)
  PROVE  TreeInv'
<1> DEFINE x == op[t].at
           h == op[t].h
           S == held[t]
           heavy == Heavy(node, x)
           d == CHOOSE d \in heavy : TRUE
           f == IF heavy = {} THEN node ELSE Rotated(node, x, d)
           top == IF heavy = {} THEN x ELSE node[x][d]
           side == SideOf(top, h)
           g == node'
           o == IF side = "e" \/ f[top][side] = 0 THEN [do |-> "get", at |-> top, h |-> h]
                                                  ELSE [do |-> "down", at |-> f[top][side], h |-> h]
<1>1. /\ op[t].do = "down" /\ g = [f EXCEPT ![top].count = @ + 1]
      /\ root' = IF f[top].p = 0 THEN [root EXCEPT ![t] = top] ELSE root
      /\ op' = [op EXCEPT ![t] = o]
      /\ pfree' = pfree /\ held' = held
  BY Zenon DEF Descend
<1>2. Balanced(node, f, S, x, top)
  BY DEF Balanced
<1> HIDE DEF f, top, heavy, d
<1>3. /\ "down" \notin Seeking \cup {"delete", "up"} /\ "get" \in Seeking
      /\ "delete" \notin Seeking /\ "up" \notin Seeking /\ "get" # "down"
  BY DEF Seeking
<1>4. x \in Null /\ h \in Nat
  BY <1>1, OpIs, TableNow
<1>5. TreeNow(t) = S /\ UseOf(held[t], op[t]) = S /\ S \subseteq Nodes /\ S \subseteq Null
  BY <1>1, TableNow DEF TreeNow, TreeOf, UseOf, Null
<1>6. PICK D : Shape(node, S, D) /\ Counted(node, S, Over(node, op[t])) /\ Placed(node, S, D, op[t], root[t])
  BY <1>5, TableNow DEF TableOK
<1>7. x \in S /\ Path(node, S, D, x, h) /\ Top(node, S, D, root[t])
  BY <1>1, <1>3, <1>6 DEF Placed
<1>8. Counted(node, S, {node[x].p})
  <2>1. node[x].p \in Null
    BY <1>4, TableNow DEF Graph, NodeRec
  <2>2. Over(node, op[t]) = {node[x].p}
    BY <1>1, <1>3, <2>1 DEF Over
  <2> QED  BY <1>6, <2>2
<1> HIDE DEF o, side, g, S, x, h
<1>9. Onward(node, f, S, root[t], top, h)
  BY <1>2, <1>6, <1>7, <1>8, BalancedIs, TableNow
<1>10. /\ f \in Graph /\ Stays(node, f, S) /\ (\A z \in Null : f[z].hash = node[z].hash)
       /\ top \in S /\ Counted(f, S, {f[top].p})
  BY <1>9 DEF Onward
<1>11. PICK E : /\ Shape(f, S, E) /\ Path(f, S, E, top, h)
                /\ Top(f, S, E, IF f[top].p = 0 THEN top ELSE root[t])
  BY <1>9 DEF Onward
<1>12. PutCount(f, g, top, f[top].count + 1)
  BY <1>1, <1>5, <1>10 DEF PutCount, Graph
<1>13. Counted(g, S, {top}) /\ g \in Graph
  BY <1>10, <1>11, <1>12, CountedMore
<1>14. HasCount(f, g, top, f[top].count + 1)
  <2>1. f[top].count + 1 \in Int /\ top \in Null
    BY <1>5, <1>10 DEF Graph, NodeRec
  <2> QED  BY <1>10, <1>12, <2>1, CountPut
<1>15. Alike(f, g, S) /\ Stays(node, g, S) /\ (\A z \in Null : g[z].hash = node[z].hash)
  BY <1>5, <1>10, <1>14 DEF HasCount, Alike, Stays
<1>16. Shape(g, S, E) /\ Path(g, S, E, top, h) /\ Top(g, S, E, IF f[top].p = 0 THEN top ELSE root[t])
  BY <1>11, <1>15, AlikeShape
<1>17. root' \in [Tables -> Null] /\ (\A u \in Tables \ {t} : root'[u] = root[u])
       /\ Top(g, S, E, root'[t])
  <2>1. root'[t] = IF f[top].p = 0 THEN top ELSE root[t]
    BY <1>1, TableNow
  <2>2. Top(g, S, E, root'[t])
    BY <1>16, <2>1
  <2> QED  BY <1>1, <1>5, <1>10, <2>2, TableNow
<1>18. side \in Links /\ Sided(g, top, side, h) /\ h \in Int /\ top \in Null
  <2>1. node[top].hash \in Int /\ top \in Null
    BY <1>5, <1>10, TableNow DEF Graph, NodeRec
  <2>2. side \in Links /\ Sided(node, top, side, h)
    BY <1>4, <2>1, SideIs DEF side
  <2>3. g[top].hash = node[top].hash
    BY <1>15, <2>1
  <2> QED  BY <1>4, <2>1, <2>2, <2>3 DEF Sided
<1>19. g[top][side] = f[top][side]
  BY <1>10, <1>15, <1>18 DEF Alike
<1>20. /\ o \in OpType /\ TableOK(g, S, o, root'[t]) /\ o.h = h
       /\ o.do \in {"down"} \cup Seeking
  <2>1. CASE side = "e" \/ f[top][side] = 0
    <3>1. o \in OpType /\ o.do = "get" /\ o.at = top /\ o.h = h
      <4>1. o = [do |-> "get", at |-> top, h |-> h]
        BY <2>1 DEF o
      <4> QED  BY <1>3, <1>4, <1>18, <4>1, OpMade
    <3>2. Ended(g, top, h)
      <4>1. ASSUME NEW s \in Links, Sided(g, top, s, h), s # "e" PROVE g[top][s] = 0
        <5>1. s = side
          BY <1>13, <1>18, <4>1, SidedOnce
        <5> QED  BY <1>19, <2>1, <4>1, <5>1
      <4> QED  BY <4>1 DEF Ended
    <3>3. Placed(g, S, E, o, root'[t])
      BY <1>3, <1>10, <1>16, <1>17, <3>1, <3>2 DEF Placed
    <3>4. Over(g, o) = {top}
      BY <1>3, <1>18, <3>1 DEF Over
    <3> QED  BY <1>3, <1>13, <1>16, <3>1, <3>3, <3>4 DEF TableOK
  <2>2. CASE side # "e" /\ f[top][side] # 0
    <3> DEFINE v == f[top][side]
    <3>1. v \in S /\ g[v].p = top /\ Path(g, S, E, v, h)
      <4>1. g[top][side] \in S /\ g[g[top][side]].p = top /\ Path(g, S, E, g[top][side], h)
        BY <1>10, <1>13, <1>16, <1>18, <1>19, <2>2, PathDown
      <4> QED  BY <1>19, <4>1
    <3>2. o = [do |-> "down", at |-> v, h |-> h]
      BY <2>2 DEF o
    <3> HIDE DEF v
    <3>3. o \in OpType /\ o.do = "down" /\ o.at = v /\ o.h = h
      BY <1>3, <1>4, <1>5, <3>1, <3>2, OpMade
    <3>4. Placed(g, S, E, o, root'[t])
      BY <1>3, <1>17, <3>1, <3>3 DEF Placed
    <3>5. Over(g, o) = {top}
      BY <1>3, <1>18, <3>1, <3>3 DEF Over
    <3> QED  BY <1>13, <1>16, <3>3, <3>4, <3>5 DEF TableOK
  <2> QED  BY <2>1, <2>2
<1>21. TreeOf(held[t], o) = TreeNow(t) /\ UseOf(held[t], o) = UseOf(held[t], op[t]) /\ Apart(held[t], o)
  BY <1>3, <1>5, <1>20 DEF TreeOf, UseOf, Apart, S
<1>22. TableOK(g, TreeNow(t), o, root'[t]) /\ Stays(node, g, TreeNow(t)) /\ node' = g
  BY <1>5, <1>15, <1>20 DEF g
<1>23. op[t].do \in {"down"} \cup Seeking /\ o.h = op[t].h
  BY <1>1, <1>20 DEF h
<1> QED  BY <1>1, <1>13, <1>15, <1>17, <1>20, <1>21, <1>22, <1>23, TreeKeeps, Zenon

\* The new node in the words of the model.
GotNode(t, n, o) ==
  /\ pfree' = pfree \ {n}
  /\ node' = WithNew(node, n, op[t].at, op[t].h)
  /\ root' = IF op[t].at = 0 THEN [root EXCEPT ![t] = n] ELSE root
  /\ op' = [op EXCEPT ![t] = o]
  /\ \/ held' = [held EXCEPT ![t] = @ \cup {n}] /\ o = Idle
     \/ held' = held /\ o = [do |-> "delete", at |-> n]

\* The node that is handed out is the least of the list; any will do.
LEMMA GetIs ==
  ASSUME TreeInv, NEW t \in Tables, Get(t)
  PROVE  op[t].do \in Seeking /\ \E n \in pfree : \E o : GotNode(t, n, o)
<1>1. op[t].do \in Seeking /\ pfree # {}
  BY Zenon DEF Get, Getting, Seeking
<1>2. \E n \in pfree : \A m \in pfree : n <= m
  <2>1. pfree \in SUBSET Nat
    BY NodesAre, TableNow
  <2> QED  BY <1>1, <2>1, Earliest
<1> DEFINE n == CHOOSE n \in pfree : \A m \in pfree : n <= m
<1>3. n \in pfree
  BY <1>2
<1>4. \E o : GotNode(t, n, o)
  <2>1. /\ pfree' = pfree \ {n}
        /\ node' = WithNew(node, n, op[t].at, op[t].h)
        /\ root' = IF op[t].at = 0 THEN [root EXCEPT ![t] = n] ELSE root
        /\ \/ held' = [held EXCEPT ![t] = @ \cup {n}] /\ op' = [op EXCEPT ![t] = Idle]
           \/ held' = held /\ op' = [op EXCEPT ![t] = [do |-> "delete", at |-> n]]
    BY DEF Get
  <2> HIDE DEF n
  <2> QED  BY <2>1 DEF GotNode
<1> QED  BY <1>1, <1>3, <1>4

\* It has its place, as an entry or for insertfunc to refuse.
LEMMA GotKeeps ==
  ASSUME TreeInv, NEW t \in Tables, op[t].do \in Seeking, NEW n \in pfree, NEW o, GotNode(t, n, o)
  PROVE  TreeInv'
<1> DEFINE S == held[t]
           at == op[t].at
           h == op[t].h
           s == SideOf(at, h)
           c == IF at = 0 THEN 0 ELSE node[at][s]
           g == node'
<1>1. /\ "delete" \notin Seeking \cup {"up", "down"} /\ "up" \notin Seeking /\ "down" \notin Seeking
      /\ "idle" \notin Seeking \cup {"up", "delete", "down"}
  BY Zenon DEF Seeking
<1>2. at \in Null /\ h \in Nat /\ h \in Int
  BY OpIs, TableNow
<1>3. TreeNow(t) = S /\ UseOf(held[t], op[t]) = S /\ S \subseteq Nodes /\ S \subseteq Null
  BY <1>1, TableNow DEF TreeNow, TreeOf, UseOf, Null
<1>4. n \in Nodes /\ n \notin S /\ n \in Null /\ n # 0 /\ \A u \in Tables : n \notin UseOf(held[u], op[u])
  BY <1>3, TableNow, NodesAre DEF Null
<1>5. PICK D : Shape(node, S, D) /\ Counted(node, S, Over(node, op[t])) /\ Placed(node, S, D, op[t], root[t])
  BY <1>3, TableNow DEF TableOK
<1>6. /\ Top(node, S, D, root[t])
      /\ IF S = {} THEN at = 0 ELSE at \in S /\ Path(node, S, D, at, h) /\ Ended(node, at, h)
  BY <1>1, <1>5 DEF Placed
<1>7. Counted(node, S, {at})
  <2>1. Over(node, op[t]) = {at}
    BY <1>1, <1>2 DEF Over
  <2> QED  BY <1>5, <2>1
<1>8. s \in Links /\ Sided(node, at, s, h)
  <2>1. node[at].hash \in Int
    BY <1>2, TableNow DEF Graph, NodeRec
  <2> QED  BY <1>2, <2>1, SideIs
<1> HIDE DEF s
<1>9. Placing(node, S, D, n, at, c, s, h)
  <2>1. 0 \notin S
    BY <1>3, NodesAre
  <2>2. S # {} => (s # "e" => c = 0)
    BY <1>6, <1>8, <2>1 DEF Ended
  <2>3. S # {} => c = node[at][s] /\ at \in S /\ Path(node, S, D, at, h)
    BY <1>6, <2>1
  <2>4. S = {} => at = 0 /\ c = 0
    BY <1>6
  <2> QED  BY <1>2, <1>4, <1>8, <2>2, <2>3, <2>4 DEF Placing
<1> HIDE DEF S, at, h, c, g
<1>10. /\ at \in S \cup {0} /\ c \in S \cup {0} /\ (at = 0 <=> S = {}) /\ (at = 0 => c = 0) /\ c # n /\ at # n
       /\ at # 0 => c = node[at][s] /\ c # at
  BY <1>5, <1>9, PlacingIs, TableNow
<1>11. HasNew(node, g, n, at, c, s, h)
  <2>1. g = WithNew(node, n, at, h)
    BY DEF GotNode, g, at, h
  <2>2. /\ s = SideOf(at, h) /\ c \in Null /\ c = IF at = 0 THEN 0 ELSE node[at][s]
        /\ c # n /\ at # n /\ (c = at => c = 0) /\ node[0].count = 0 /\ node \in Graph
    BY <1>3, <1>10, TableNow DEF s, c, Null
  <2> QED  BY <1>2, <1>4, <1>8, <2>1, <2>2, WithNewIs
<1>12. g \in Graph
  BY <1>11 DEF HasNew
<1>13. PICK E : /\ Shape(g, S \cup {n}, E)
                /\ \A r : Top(node, S, D, r) => Top(g, S \cup {n}, E, IF at = 0 THEN n ELSE r)
  <2>1. node \in Graph
    BY TableNow
  <2> QED  BY <1>5, <1>9, <1>11, <1>12, <2>1, NewShape
<1>14. Counted(g, S \cup {n}, {})
  <2>1. node \in Graph
    BY TableNow
  <2> QED  BY <1>5, <1>7, <1>9, <1>11, <1>12, <2>1, NewCounts
<1>15. Top(g, S \cup {n}, E, root'[t])
  <2>1. root'[t] = IF at = 0 THEN n ELSE root[t]
    BY TableNow DEF GotNode, at
  <2> QED  BY <1>6, <1>13, <2>1
<1>16. root' \in [Tables -> Null] /\ \A u \in Tables \ {t} : root'[u] = root[u]
  BY <1>4, TableNow DEF GotNode
<1>17. \/ held'[t] = S \cup {n} /\ o = Idle
       \/ held'[t] = S /\ o = [do |-> "delete", at |-> n]
  BY TableNow DEF GotNode, S
<1>18. /\ o \in OpType
       /\ \/ o.do = "idle" /\ held'[t] = S \cup {n}
          \/ o.do = "delete" /\ o.at = n /\ held'[t] = S
  <2>1. CASE held'[t] = S \cup {n} /\ o = Idle
    BY <2>1, OpMade
  <2>2. CASE held'[t] = S /\ o = [do |-> "delete", at |-> n]
    <3>1. o \in OpType /\ o.do = "delete" /\ o.at = n
      BY <1>4, <2>2, OpMade
    <3> QED  BY <2>2, <3>1
  <2> QED  BY <1>17, <2>1, <2>2
<1>19. /\ op' \in [Tables -> OpType] /\ op'[t] = o /\ held' \in [Tables -> SUBSET Nodes]
       /\ \A u \in Tables \ {t} : op'[u] = op[u] /\ held'[u] = held[u]
  BY <1>4, <1>18, TableNow DEF GotNode
<1>20. Alone(t)
  BY <1>16, <1>19 DEF Alone
<1>21. TreeOf(held'[t], o) = S \cup {n} /\ UseOf(held'[t], o) = S \cup {n}
  BY <1>1, <1>4, <1>18 DEF TreeOf, UseOf
<1>22. Mine(t)
  <2>1. node' = g /\ pfree' = pfree \ {n}
    BY DEF g, GotNode
  <2>2. \A z \in Null : z \notin S \cup {n} => g[z] = node[z]
    BY <1>10, <1>11 DEF HasNew
  <2>3. \A z \in pfree : z \notin S \cup {n} => g[z] = Cleared
    BY <2>2, TableNow DEF Null
  <2>4. UseOf(held'[t], op'[t]) = S \cup {n} /\ UseOf(held[t], op[t]) = S
    BY <1>3, <1>19, <1>21
  <2>5. \A u \in Tables : UseOf(held[u], op[u]) \cap pfree' = {}
    BY <2>1, TableNow
  <2>6. S \cap pfree' = {} /\ n \notin pfree' /\ pfree' \subseteq Nodes
    BY <2>1, <2>4, <2>5, TableNow
  <2>7. \A z \in UseOf(held[t], op[t]) \cup pfree : z \notin UseOf(held'[t], op'[t]) => node'[z] = Cleared
    BY <2>1, <2>3, <2>4
  <2>8. \A z \in Null : z \notin UseOf(held[t], op[t]) \cup pfree => node'[z] = node[z]
    BY <2>1, <2>2, <2>4
  <2> QED  BY <1>12, <2>1, <2>4, <2>5, <2>6, <2>7, <2>8 DEF Mine
<1>23. Right(t)
  <2>1. Over(g, o) = {}
    BY <1>1, <1>18 DEF Over
  <2>2. Placed(g, S \cup {n}, E, o, root'[t])
    BY <1>1, <1>15, <1>18 DEF Placed
  <2>3. TableOK(g, S \cup {n}, o, root'[t])
    BY <1>13, <1>14, <2>1, <2>2 DEF TableOK
  <2>4. Apart(held'[t], o)
    BY <1>1, <1>4, <1>18 DEF Apart
  <2>5. ASSUME t \notin ByEntry PROVE Unique(g, held'[t], o)
    <3>1. Unique(node, S, op[t])
      BY <2>5, TableNow DEF S
    <3>2. \A z \in S : g[z].hash = node[z].hash /\ node[z].hash # h
      BY <1>3, <1>4, <1>11, <3>1 DEF HasNew, Unique, h
    <3>3. g[n].hash = h
      BY <1>4, <1>11 DEF HasNew
    <3>4. \A y, z \in S : g[y].hash = g[z].hash => y = z
      BY <3>1, <3>2 DEF Unique
    <3>5. \A y, z \in S \cup {n} : g[y].hash = g[z].hash => y = z
      BY <3>2, <3>3, <3>4
    <3> QED  BY <1>1, <1>18, <3>5 DEF Unique
  <2>6. node' = g
    BY DEF g
  <2> QED  BY <1>19, <1>21, <2>3, <2>4, <2>5, <2>6 DEF Right
<1> QED  BY <1>20, <1>22, <1>23, StepKeeps

\* binary_tree_get and what follows.
LEMMA GetNodeKeeps ==
  ASSUME TreeInv, NEW t \in Tables, Get(t)
  PROVE  TreeInv'
<1>1. op[t].do \in Seeking /\ \E n \in pfree : \E o : GotNode(t, n, o)
  BY GetIs
<1> QED  BY <1>1, GotKeeps

-----------------------------------------------------------------------------
\* There are no trees at first.
LEMMA TreeStarts == TreeInit => TreeInv
<1> SUFFICES ASSUME TreeInit PROVE TreeInv
  OBVIOUS
<1>1. /\ node = [n \in Null |-> Cleared] /\ root = [t \in Tables |-> 0] /\ pfree = 1 .. Chunk
      /\ op = [t \in Tables |-> Idle] /\ held = [t \in Tables |-> {}]
  BY DEF TreeInit, Null
<1>2. Cleared \in NodeRec /\ Cleared.count = 0 /\ 0 \in Null
  BY DEF Cleared, NodeRec, Null
<1>3. pfree \subseteq Nodes
  BY <1>1, TreeAssumption DEF Nodes
<1>4. TreeTyped
  BY <1>1, <1>2, <1>3, OpMade DEF TreeTyped, Graph
<1>5. "idle" \notin Seeking \cup {"up", "delete", "down"} /\ Idle.do = "idle"
  BY OpMade, Zenon DEF Seeking
<1>6. ASSUME NEW t \in Tables
      PROVE  UseOf(held[t], op[t]) = {} /\ TreeOf(held[t], op[t]) = {} /\ held[t] = {} /\ op[t] = Idle /\ root[t] = 0
  BY <1>1, <1>5 DEF UseOf, TreeOf
<1>7. TableOK(node, {}, Idle, 0)
  <2> DEFINE D == [z \in {} |-> {}]
  <2>1. Shape(node, {}, D)
    BY DEF Shape, Joined, Below
  <2>2. Counted(node, {}, Over(node, Idle))
    BY <1>1, <1>2 DEF Counted
  <2>3. Placed(node, {}, D, Idle, 0)
    BY <1>5 DEF Placed, Top
  <2> QED  BY <2>1, <2>2, <2>3 DEF TableOK
<1>8. TablesOK
  BY <1>5, <1>6, <1>7 DEF TablesOK, Apart, Unique
<1>9. NodesOK
  BY <1>1, <1>6, <1>2 DEF NodesOK, Null
<1> QED  BY <1>4, <1>8, <1>9 DEF TreeInv

\* The invariant, as long as no two keys of a table that deletes the head of a chain
\* have equal hashes.
LEMMA TreeAlways == ASSUME Collide => ByEntry = Tables PROVE TreeSpec => []TreeInv
<1>1. TreeInit => TreeInv
  BY TreeStarts
<1>2. TreeInv /\ [TreeNext]_treeVars => TreeInv'
  <2> SUFFICES ASSUME TreeInv, [TreeNext]_treeVars PROVE TreeInv'
    OBVIOUS
  <2>1. CASE UNCHANGED treeVars
    BY <2>1 DEF treeVars, TreeInv, TreeTyped, TablesOK, NodesOK
  <2>2. ASSUME NEW t \in Tables, NEW h \in HashesOf[t], InsertBegin(t, h) PROVE TreeInv'
    BY <2>2, InsertBeginKeeps
  <2>3. ASSUME NEW t \in Tables, Descend(t) PROVE TreeInv'
    BY <2>3, DescendKeeps
  <2>4. ASSUME NEW t \in Tables, Get(t) PROVE TreeInv'
    BY <2>4, GetNodeKeeps
  <2>5. ASSUME NEW t \in Tables, GetNone(t) \/ AddNodes(t) \/ AddNone(t) PROVE TreeInv'
    BY <2>5, GetNoneKeeps
  <2>6. ASSUME NEW t \in Tables, Fill(t) PROVE TreeInv'
    BY <2>6, FillKeeps
  <2>7. ASSUME NEW t \in Tables, NEW n \in Nodes, DeleteBegin(t, n) PROVE TreeInv'
    BY <2>7, DeleteBeginKeeps
  <2>8. ASSUME NEW t \in Tables, DeleteChained(t) PROVE TreeInv'
    BY <2>8, DeleteChainedKeeps
  <2>9. ASSUME NEW t \in Tables, DeleteLast(t) PROVE TreeInv'
    BY <2>9, DeleteLastKeeps
  <2>10. ASSUME NEW t \in Tables, DeleteRotate(t) PROVE TreeInv'
    BY <2>10, DeleteRotateKeeps
  <2>11. ASSUME NEW t \in Tables, DeleteUnlink(t) PROVE TreeInv'
    BY <2>11, DeleteUnlinkKeeps
  <2>12. ASSUME NEW t \in Tables, CountUp(t) PROVE TreeInv'
    BY <2>12, CountUpKeeps
  <2>13. ASSUME NEW t \in Tables, FreeNode(t) PROVE TreeInv'
    BY <2>13, FreeNodeKeeps
  <2>14. CASE TreeNext
    BY <2>2, <2>3, <2>4, <2>5, <2>6, <2>7, <2>8, <2>9, <2>10, <2>11, <2>12, <2>13, <2>14 DEF TreeNext
  <2> QED  BY <2>1, <2>14
<1> QED  BY <1>1, <1>2, PTL DEF TreeSpec

\* It has the nodes apart ...
LEMMA ApartIfInv == TreeInv => NodesApart
<1> SUFFICES ASSUME TreeInv PROVE NodesApart
  OBVIOUS
<1>1. \A u \in Tables : InUse(u) = UseOf(held[u], op[u])
  BY UseIs DEF TreeInv, TreeTyped
<1>2. \A n \in pfree : node[n] = Cleared
  BY DEF TreeInv, TreeTyped, NodesOK
<1> QED  BY <1>1, <1>2 DEF TreeInv, NodesOK, NodesApart

\* ... and, between operations, the trees as TreesSound wants them.
LEMMA SoundIfTree == TreeInv => TreesSound
<1> SUFFICES ASSUME TreeInv PROVE TreesSound
  OBVIOUS
<1>1. ASSUME NEW t \in Tables, op[t] = Idle
      PROVE  /\ held[t] \subseteq Nodes
             /\ \E D : /\ Shape(node, held[t], D) /\ Counted(node, held[t], {})
                       /\ Top(node, held[t], D, root[t])
  <2>1. "idle" \notin Seeking \cup {"up", "delete", "down"} /\ op[t].do = "idle"
    BY <1>1, OpMade, Zenon DEF Seeking
  <2>2. TreeNow(t) = held[t] /\ Over(node, op[t]) = {}
    BY <2>1 DEF TreeNow, TreeOf, Over
  <2>3. PICK D : Shape(node, TreeNow(t), D) /\ Counted(node, TreeNow(t), Over(node, op[t])) /\ Placed(node, TreeNow(t), D, op[t], root[t])
    BY TableNow DEF TableOK
  <2>4. Top(node, TreeNow(t), D, root[t])
    BY <2>1, <2>3 DEF Placed
  <2> QED  BY <2>2, <2>3, <2>4, TableNow
<1>2. EntriesFound
  <2>1. ASSUME NEW t \in Tables, op[t] = Idle, NEW h \in HashesOf[t]
        PROVE  Found(t, h) \cap {n \in Nodes : node[n].hash = h} = {n \in held[t] : node[n].hash = h}
    <3>1. PICK D : Shape(node, held[t], D) /\ Top(node, held[t], D, root[t])
      BY <1>1, <2>1
    <3>2. h \in Int
      BY TreeAssumption
    <3>3. Found(t, h) \subseteq held[t] /\ \A n \in held[t] : node[n].hash = h => n \in Found(t, h)
      BY <3>1, <3>2, SearchFinds, TableNow
    <3> QED  BY <1>1, <2>1, <3>3
  <2> QED  BY <2>1 DEF EntriesFound
<1>3. CountsExact
  <2>1. ASSUME NEW t \in Tables, op[t] = Idle, NEW n \in held[t]
        PROVE  /\ node[n].count = Size(node, n)
               /\ \A d \in Links : node[n][d] # 0 => node[node[n][d]].p = n
               /\ node[n].p = 0 <=> n = root[t]
    <3>1. PICK D : Shape(node, held[t], D) /\ Counted(node, held[t], {}) /\ Top(node, held[t], D, root[t])
      BY <1>1, <2>1
    <3>2. node[n].count = Size(node, n)
      <4>1. n \in Null
        BY TableNow DEF Null
      <4>2. Size(node, n) \in Int
        BY <4>1, SizeInt, TableNow
      <4> QED  BY <3>1, <4>2 DEF Counted
    <3>3. \A d \in Links : node[n][d] # 0 => node[node[n][d]].p = n
      BY <3>1 DEF Shape, Joined
    <3>4. node[n].p = 0 <=> n = root[t]
      BY <3>1 DEF Top
    <3> QED  BY <3>2, <3>3, <3>4
  <2> QED  BY <2>1 DEF CountsExact
<1> QED  BY <1>2, <1>3 DEF TreesSound

\* No node is ever in two tables, or in a table and free, and free nodes have no
\* links (NodesApart): although binary_tree_add looks at the free list without
\* its mutex, for any tables, hashes, chunks and bounds.  Where keys of equal
\* hash share a chain, every table has to delete by the entry.
THEOREM NodesAlwaysApart == ASSUME Collide => ByEntry = Tables PROVE TreeSpec => []NodesApart
<1>1. TreeSpec => []TreeInv
  BY TreeAlways
<1> QED  BY <1>1, ApartIfInv, PTL

\* A search finds the entries of its hash, and counts are the sizes of the
\* subtrees (TreesSound), for trees of any size: however binary_tree_rotation
\* has moved nodes and binary_tree_delete has closed gaps.
THEOREM TreesAlwaysSound == ASSUME Collide => ByEntry = Tables PROVE TreeSpec => []TreesSound
<1>1. TreeSpec => []TreeInv
  BY TreeAlways
<1> QED  BY <1>1, SoundIfTree, PTL
=============================================================================
