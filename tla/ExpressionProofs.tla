-------------------------- MODULE ExpressionProofs --------------------------
(***************************************************************************)
(* Proofs about the expression parser: for any streams of tokens, what it  *)
(* builds is a tree, though every frame of the stack stores through a      *)
(* pointer to a field of a node, and nodes swap what they hold.            *)
(*                                                                         *)
(* That a store makes no node have two parents depends on where the frames *)
(* store, and not on the order of the tokens.  The invariant Shape has     *)
(* b[j], the number of nodes there were when frame j was pushed: the nodes *)
(* after b[j] are reached from the ones before through the field that the  *)
(* frame stores to, and through no other.  dead is a set of nodes that     *)
(* were overwritten while they held a node that is still used.             *)
(*                                                                         *)
(* That the tree of an operation reads as its tokens do is proved with an  *)
(* interval of tokens for each node, which the stores extend and the       *)
(* rotations cut.                                                          *)
(*                                                                         *)
(* That a call counts its arguments is proved with two predicates: a call  *)
(* that returned has them all, among nodes nothing else links to or stores *)
(* to (CallClosed); a call under way has them but the last, at which its   *)
(* frame stores (CallOpen).  A separator is read only when the argument    *)
(* before it has stored something (AwaitedOK).                             *)
(***************************************************************************)
EXTENDS Expression, SequenceTheorems, FiniteSetTheorems, WellFoundedInduction,
        TLAPS

\* A frame f that was pushed when v nodes were in the heap h stores to one of
\* them, and what it stored is newer.
PlaceOK(v, h, f) ==
  /\ v \in DOMAIN h
  /\ f.emplace.node \in 1 .. v
  /\ f.node \in 1 .. v
  /\ f.previous = Null \/ f.previous \in v + 1 .. Len(h)
\* A frame g above f stores where f does, or in a node that was allocated since
\* f was pushed.
ApartOK(v, f, w, g) ==
  /\ v <= w /\ f.previous <= w
  /\ g.emplace = f.emplace \/ g.emplace.node > v
BasesOK(b, h, c) ==
  /\ b \in Seq(Nat) /\ Len(b) = Len(c)
  /\ \A j \in DOMAIN c : PlaceOK(b[j], h, c[j])
  /\ \A j, k \in DOMAIN c : j < k => ApartOK(b[j], c[j], b[k], c[k])

\* What the caller f of the frame g does when g returns.
CallerOK(h, v, f, w, g) ==
  /\ g.by \in {"unary", "binary"} =>
       g.emplace = Field(g.node, "right") /\ w = g.node
  /\ g.by = "binary" =>
       /\ h[g.node].type \in BinaryOperator
       /\ h[g.node]["right"] = Null \/ h[g.node]["right"] > w
       /\ f.previous = g.node
  /\ g.by # "parenthesis" => g.node > v
  /\ g.by = "argument" => /\ g.emplace.node > v
                          /\ \A x \in DOMAIN h, l \in Link : h[x][l] # g.node
KindsOK(b, h, c) ==
  /\ \A j \in DOMAIN c : c[j].by = "owner" <=> j = 1
  /\ c # <<>> => c[1].emplace = Field(Owner, "right")
  /\ \A j \in DOMAIN c \ {1} : CallerOK(h, b[j - 1], c[j - 1], b[j], c[j])

\* Links lead to nodes, and into the nodes of a frame only from where it stores.
LinkOK(v, f, x, l, y) ==
  y > 0 => /\ x <= v /\ v < y => Field(x, l) = f.emplace
           /\ v < x => v < y
LinksOK(b, h, c) ==
  \A x \in DOMAIN h, l \in Link :
    /\ h[x][l] \in Int /\ h[x][l] <= Len(h) /\ h[x][l] # Owner
    /\ \A j \in DOMAIN c : LinkOK(b[j], c[j], x, l, h[x][l])

\* Among the nodes that are not dead a node is linked once, and what a frame
\* will take for a left operand is linked by the field it stores to, or by a
\* node that is.
TakenOK(dead, v, h, f) ==
  /\ f.emplace.node \notin dead
  /\ f.node \notin dead
  /\ f.previous \notin dead
  /\ f.previous # Null =>
       \A x \in DOMAIN h \ dead, l \in Link :
         h[x][l] = f.previous =>
           \/ Field(x, l) = f.emplace
           \/ /\ h[f.previous].type \notin BinaryOperator
              /\ x > v
              /\ \A z \in DOMAIN h \ dead, k \in Link :
                   h[z][k] = x => Field(z, k) = f.emplace
AliveOK(dead, b, h, c) ==
  /\ dead \subseteq DOMAIN h \ {Owner}
  /\ \A x \in DOMAIN h \ dead, l \in Link : h[x][l] \notin dead
  /\ \A x, z \in DOMAIN h \ dead, l, k \in Link :
       h[x][l] = h[z][k] /\ h[x][l] > 0 => x = z /\ l = k
  /\ \A j \in DOMAIN c : TakenOK(dead, b[j], h, c[j])

Shape(b, dead, h, c) ==
  BasesOK(b, h, c) /\ KindsOK(b, h, c) /\ LinksOK(b, h, c) /\ AliveOK(dead, b, h, c)

\* An operator is the one of its token.
LabelsOK == \A n \in DOMAIN ast :
  ast[n].type \in BinaryOperator => ast[n].token \in DOMAIN stream /\ stream[ast[n].token] = ast[n].type

IInv ==
  /\ TypeOK /\ LabelsOK /\ ast # <<>>
  /\ status = "parsing" => stack # <<>>
  /\ \E b \in Seq(Nat), dead \in SUBSET DOMAIN ast : Shape(b, dead, ast, stack)

----------------------------------------------------------------------------
(* Nodes and stores *)

LEMMA FieldsOfANode ==
  ASSUME NEW n \in Node
  PROVE  /\ n["left"] = n.left /\ n["right"] = n.right /\ n["sibling"] = n.sibling
         /\ \A f \in Link : n[f] \in Pointer
BY DEF Node, Link

LEMMA StoreInNode ==
  ASSUME NEW n \in Node, NEW f \in Link, NEW v \in Pointer
  PROVE  LET m == [n EXCEPT ![f] = v]
         IN  /\ m \in Node
             /\ \A g \in Link : m[g] = IF g = f THEN v ELSE n[g]
             /\ m.type = n.type /\ m.token = n.token
             /\ m.nb_arguments = n.nb_arguments
BY DEF Node, Link

LEMMA StoreFacts ==
  ASSUME NEW h \in Seq(Node), NEW ref, ref.node \in DOMAIN h, ref.field \in Link,
         NEW v \in Pointer
  PROVE  LET g == Store(h, ref, v)
         IN  /\ g \in Seq(Node) /\ Len(g) = Len(h)
             /\ \A x \in DOMAIN h, f \in Link :
                  g[x][f] = IF x = ref.node /\ f = ref.field THEN v ELSE h[x][f]
             /\ \A x \in DOMAIN h : /\ g[x].type = h[x].type
                                    /\ g[x].token = h[x].token
                                    /\ g[x].nb_arguments = h[x].nb_arguments
BY StoreInNode DEF Store

\* The fields of a node that is appended, and of the ones before it.
LEMMA AppendFacts ==
  ASSUME NEW h \in Seq(Node), NEW n \in Node
  PROVE  /\ Append(h, n) \in Seq(Node) /\ Len(Append(h, n)) = Len(h) + 1
         /\ DOMAIN Append(h, n) = DOMAIN h \cup {Len(h) + 1}
         /\ \A x \in DOMAIN h : Append(h, n)[x] = h[x]
         /\ Append(h, n)[Len(h) + 1] = n
OBVIOUS

BinaryNode(type, token, v) == [NewNode(type, token) EXCEPT !.left = v]
CallNode(token) == [NewNode("call", token) EXCEPT !.right = Uninitialized]
NodeType == Token \cup {"owner", "call", "negative", "address_of"}
LEMMA NewNodeFacts ==
  ASSUME NEW type \in NodeType, NEW token \in Nat
  PROVE  /\ NewNode(type, token) \in Node
         /\ \A f \in Link : NewNode(type, token)[f] = Null
         /\ NewNode(type, token).type = type /\ NewNode(type, token).token = token
         /\ NewNode(type, token).nb_arguments = 0
BY DEF NewNode, Node, NodeType, Pointer, Link, Null, Uninitialized
LEMMA BinaryNodeFacts ==
  ASSUME NEW type \in NodeType, NEW token \in Nat, NEW v \in Nat
  PROVE  /\ BinaryNode(type, token, v) \in Node
         /\ \A f \in Link :
              BinaryNode(type, token, v)[f] = IF f = "left" THEN v ELSE Null
         /\ BinaryNode(type, token, v).type = type
         /\ BinaryNode(type, token, v).token = token
         /\ BinaryNode(type, token, v).nb_arguments = 0
BY DEF BinaryNode, NewNode, Node, NodeType, Pointer, Link, Null, Uninitialized
LEMMA CallNodeFacts ==
  ASSUME NEW token \in Nat
  PROVE  /\ CallNode(token) \in Node
         /\ \A f \in Link :
              CallNode(token)[f] = IF f = "right" THEN Uninitialized ELSE Null
         /\ CallNode(token).type = "call" /\ CallNode(token).token = token
         /\ CallNode(token).nb_arguments = 0
BY DEF CallNode, NewNode, Node, NodeType, Pointer, Link, Null, Uninitialized

\* What Rotated does to the fields.  The siblings stay.
LEMMA RotatedFacts ==
  ASSUME NEW h \in Seq(Node), NEW n \in DOMAIN h, NEW r \in DOMAIN h, n # r
  PROVE  LET g == Rotated(h, n, r)
         IN  /\ g \in Seq(Node) /\ Len(g) = Len(h)
             /\ \A x \in DOMAIN h \ {n, r} : g[x] = h[x]
             /\ \A x \in DOMAIN h : g[x]["sibling"] = h[x]["sibling"]
             /\ \A x \in DOMAIN h : g[x].nb_arguments = h[x].nb_arguments
             /\ g[n]["left"] = r /\ g[n]["right"] = h[r]["right"]
             /\ g[r]["left"] = h[n]["left"] /\ g[r]["right"] = h[r]["left"]
             /\ g[n].type = h[r].type /\ g[n].token = h[r].token
             /\ g[r].type = h[n].type /\ g[r].token = h[n].token
<1>1. h[n] \in Node /\ h[r] \in Node
  OBVIOUS
<1> DEFINE N == [h[n] EXCEPT !.type = h[r].type, !.token = h[r].token,
                             !.left = r, !.right = h[r].right]
           R == [h[r] EXCEPT !.type = h[n].type, !.token = h[n].token,
                             !.left = h[n].left, !.right = h[r].left]
           g == [h EXCEPT ![n] = N, ![r] = R]
<1>2. N \in Node /\ R \in Node
  <2>1. \A a, c \in Node : \A v, w \in Pointer :
          [a EXCEPT !.type = c.type, !.token = c.token, !.left = v, !.right = w]
            \in Node
    BY DEF Node
  <2>2. /\ r \in Pointer /\ h[r].right \in Pointer
        /\ h[n].left \in Pointer /\ h[r].left \in Pointer
    BY <1>1 DEF Node, Pointer
  <2> QED BY <1>1, <2>1, <2>2
<1>3. /\ N["left"] = r /\ N["right"] = h[r]["right"]
      /\ N["sibling"] = h[n]["sibling"] /\ N.nb_arguments = h[n].nb_arguments
      /\ N.type = h[r].type /\ N.token = h[r].token
  <2>1. /\ N.left = r /\ N.right = h[r].right
        /\ N.sibling = h[n].sibling /\ N.nb_arguments = h[n].nb_arguments
        /\ N.type = h[r].type /\ N.token = h[r].token
    BY <1>1 DEF Node
  <2> HIDE DEF N
  <2> QED BY <1>1, <1>2, <2>1, FieldsOfANode
<1>4. /\ R["left"] = h[n]["left"] /\ R["right"] = h[r]["left"]
      /\ R["sibling"] = h[r]["sibling"] /\ R.nb_arguments = h[r].nb_arguments
      /\ R.type = h[n].type /\ R.token = h[n].token
  <2>1. /\ R.left = h[n].left /\ R.right = h[r].left
        /\ R.sibling = h[r].sibling /\ R.nb_arguments = h[r].nb_arguments
        /\ R.type = h[n].type /\ R.token = h[n].token
    BY <1>1 DEF Node
  <2> HIDE DEF R
  <2> QED BY <1>1, <1>2, <2>1, FieldsOfANode
<1>5. Rotated(h, n, r) = g
  <2> DEFINE a == [h EXCEPT ![n].type = h[r].type, ![n].token = h[r].token,
                            ![n].left = r, ![n].right = h[r].right]
  <2>1. a = [h EXCEPT ![n] = N]
    OBVIOUS
  <2>2. Rotated(h, n, r) =
          [a EXCEPT ![r].type = h[n].type, ![r].token = h[n].token,
                    ![r].left = h[n].left, ![r].right = h[r].left]
    BY DEF Rotated
  <2>3. a \in Seq(Node) /\ DOMAIN a = DOMAIN h /\ a[r] = h[r]
    <3> HIDE DEF N, a
    <3> QED BY <1>2, <2>1
  <2>4. Rotated(h, n, r) =
          [a EXCEPT ![r] = [a[r] EXCEPT !.type = h[n].type, !.token = h[n].token,
                                        !.left = h[n].left, !.right = h[r].left]]
    <3> HIDE DEF a
    <3> QED BY <2>2, <2>3
  <2> HIDE DEF a
  <2> QED BY <2>1, <2>3, <2>4
<1>6. /\ g \in Seq(Node) /\ Len(g) = Len(h) /\ g[n] = N /\ g[r] = R
      /\ \A x \in DOMAIN h \ {n, r} : g[x] = h[x]
  BY <1>2
<1> HIDE DEF N, R, g
<1> QED BY <1>3, <1>4, <1>5, <1>6, Z3

----------------------------------------------------------------------------
(* What the parser does to the heap and to the stack, and Shape *)

Reference == [node : Nat, field : Link]
LEMMA FieldFacts ==
  ASSUME NEW ref \in Reference, NEW x \in Nat, NEW f \in Link
  PROVE  /\ Field(x, f) \in Reference
         /\ Field(x, f) = ref <=> x = ref.node /\ f = ref.field
         /\ Field(x, f).node = x /\ Field(x, f).field = f
BY DEF Field, Reference

\* The frames of two stacks that do the same.
Alike(f, g) ==
  f.emplace = g.emplace /\ f.node = g.node /\ f.by = g.by /\ f.previous = g.previous

\* The last call returns.
LEMMA ShapePopped ==
  ASSUME NEW b, NEW dead, NEW h, NEW c, NEW d, Shape(b, dead, h, c),
         Len(c) \in Nat, DOMAIN c = 1 .. Len(c), Len(c) > 1, Len(h) \in Nat,
         Len(d) = Len(c) - 1, DOMAIN d = 1 .. Len(d),
         \A j \in DOMAIN d : Alike(d[j], c[j])
  PROVE  Shape(Front(b), dead, h, d)
<1> USE DEF Alike
<1> DEFINE e == Front(b)
<1>1. /\ e \in Seq(Nat) /\ Len(e) = Len(d)
      /\ \A j \in DOMAIN d : e[j] = b[j] /\ j \in DOMAIN c
  BY DEF Shape, BasesOK, Front
<1> HIDE DEF e
<1>2. BasesOK(e, h, d)
  BY <1>1 DEF Shape, BasesOK, PlaceOK, ApartOK
<1>3. KindsOK(e, h, d)
  <2>1. /\ d # <<>> /\ c # <<>> /\ 1 \in DOMAIN d
        /\ \A j \in DOMAIN d \ {1} : j - 1 \in DOMAIN d
    OBVIOUS
  <2>2. /\ \A j \in DOMAIN d : d[j].by = "owner" <=> j = 1
        /\ d[1].emplace = Field(Owner, "right")
    BY <1>1, <2>1 DEF Shape, KindsOK
  <2>3. ASSUME NEW j \in DOMAIN d \ {1}
        PROVE  CallerOK(h, e[j - 1], d[j - 1], e[j], d[j])
    <3>1. CallerOK(h, b[j - 1], c[j - 1], b[j], c[j])
      BY <1>1 DEF Shape, KindsOK
    <3>2. /\ e[j - 1] = b[j - 1] /\ e[j] = b[j]
          /\ Alike(d[j - 1], c[j - 1]) /\ Alike(d[j], c[j])
      BY <1>1, <2>1
    <3> QED BY <3>1, <3>2 DEF CallerOK
  <2> QED BY <2>1, <2>2, <2>3 DEF KindsOK
<1>4. LinksOK(e, h, d)
  BY <1>1 DEF Shape, LinksOK, LinkOK
<1>5. AliveOK(dead, e, h, d)
  BY <1>1, SMTT(30) DEF Shape, AliveOK, TakenOK
<1> QED BY <1>2, <1>3, <1>4, <1>5 DEF Shape, e

\* A call begins, that stores where the last one does or in a newer node.
LEMMA ShapePushed ==
  ASSUME NEW b, NEW dead, NEW h, NEW c, NEW d, NEW f, Shape(b, dead, h, c),
         Len(c) \in Nat, DOMAIN c = 1 .. Len(c), Len(c) > 0,
         Len(h) \in Nat, DOMAIN h = 1 .. Len(h),
         Len(d) = Len(c) + 1, DOMAIN d = 1 .. Len(d), d[Len(d)] = f,
         \A j \in DOMAIN c : Alike(d[j], c[j]),
         f.previous = Null, f.by # "owner",
         f.emplace.node \in DOMAIN h \ dead, f.node \in DOMAIN h \ dead,
         f.emplace = c[Len(c)].emplace \/ f.emplace.node > b[Len(c)],
         CallerOK(h, b[Len(c)], c[Len(c)], Len(h), f)
  PROVE  Shape(Append(b, Len(h)), dead, h, d)
<1> USE DEF Alike
<1> DEFINE m == Len(c)
           e == Append(b, Len(h))
<1>1. /\ m \in DOMAIN c /\ m \in Nat /\ b \in Seq(Nat) /\ Len(b) = m
      /\ DOMAIN d = DOMAIN c \cup {m + 1} /\ Len(d) = m + 1
  BY DEF Shape, BasesOK
<1>2. /\ e \in Seq(Nat) /\ Len(e) = Len(d) /\ e[m + 1] = Len(h)
      /\ \A j \in DOMAIN c : e[j] = b[j] /\ b[j] \in DOMAIN h
  BY <1>1 DEF Shape, BasesOK, PlaceOK
<1>3. d[m + 1] = f
  BY <1>1
<1> HIDE DEF e, m
<1>4. BasesOK(e, h, d)
  <2>1. ASSUME NEW j \in DOMAIN d
        PROVE  PlaceOK(e[j], h, d[j])
    <3>1. CASE j \in DOMAIN c
      BY <1>2, <3>1 DEF Shape, BasesOK, PlaceOK
    <3>2. CASE j = m + 1
      BY <1>2, <1>3, <3>2 DEF m, PlaceOK
    <3> QED BY <1>1, <3>1, <3>2
  <2>2. ASSUME NEW j \in DOMAIN d, NEW k \in DOMAIN d, j < k
        PROVE  ApartOK(e[j], d[j], e[k], d[k])
    <3>0. j \in DOMAIN c
      BY <1>1, <2>2 DEF m
    <3>1. CASE k \in DOMAIN c
      BY <1>2, <2>2, <3>0, <3>1 DEF Shape, BasesOK, ApartOK
    <3>2. CASE k = m + 1
      <4>0. /\ e[k] = Len(h) /\ e[j] = b[j] /\ b[j] \in DOMAIN h
            /\ d[j].previous = c[j].previous
            /\ c[j].previous = Null \/ c[j].previous \in b[j] + 1 .. Len(h)
        BY <1>2, <3>0, <3>2 DEF Shape, BasesOK, PlaceOK
      <4>1. e[j] <= e[k] /\ d[j].previous <= e[k]
        BY <4>0 DEF Null
      <4>2. b[j] <= b[m] /\ (c[m].emplace = c[j].emplace \/ c[m].emplace.node > b[j])
        <5>1. CASE j = m
          BY <1>2, <3>0, <5>1, SMTT(30)
        <5>2. CASE j # m
          BY <1>1, <3>0, <5>2 DEF Shape, BasesOK, ApartOK, m
        <5> QED BY <5>1, <5>2
      <4>3. d[k] = f /\ d[j].emplace = c[j].emplace /\ e[j] = b[j]
        BY <1>2, <1>3, <3>0, <3>2
      <4>4. CASE f.emplace = c[m].emplace
        BY <4>1, <4>2, <4>3, <4>4 DEF ApartOK
      <4>5. CASE f.emplace.node > b[m]
        BY <1>1, <1>2, <3>0, <4>1, <4>2, <4>3, <4>5 DEF ApartOK
      <4> QED BY <4>4, <4>5 DEF m
    <3> QED BY <1>1, <3>1, <3>2
  <2> QED BY <1>2, <2>1, <2>2 DEF BasesOK
<1>5. KindsOK(e, h, d)
  <2>1. \A j \in DOMAIN d : d[j].by = "owner" <=> j = 1
    BY <1>1, <1>3 DEF Shape, KindsOK, m
  <2>2. d[1].emplace = Field(Owner, "right")
    <3>1. c # <<>> /\ 1 \in DOMAIN c
      BY DEF m
    <3> QED BY <3>1 DEF Shape, KindsOK
  <2>3. ASSUME NEW j \in DOMAIN d \ {1}
        PROVE  CallerOK(h, e[j - 1], d[j - 1], e[j], d[j])
    <3>1. CASE j \in DOMAIN c
      <4>1. j - 1 \in DOMAIN c
        BY <3>1
      <4>2. CallerOK(h, b[j - 1], c[j - 1], b[j], c[j])
        BY <3>1 DEF Shape, KindsOK
      <4>3. /\ e[j - 1] = b[j - 1] /\ e[j] = b[j]
            /\ Alike(d[j - 1], c[j - 1]) /\ Alike(d[j], c[j])
        BY <1>2, <3>1, <4>1
      <4> QED BY <4>2, <4>3 DEF CallerOK
    <3>2. CASE j = m + 1
      <4>1. j - 1 = m /\ m \in DOMAIN c
        BY <1>1, <3>2
      <4>2. e[m] = b[m] /\ Alike(d[m], c[m]) /\ e[j] = Len(h) /\ d[j] = f
        BY <1>2, <1>3, <3>2, <4>1
      <4>3. CallerOK(h, b[m], c[m], Len(h), f)
        BY DEF m
      <4> QED BY <4>1, <4>2, <4>3 DEF CallerOK
    <3> QED BY <1>1, <3>1, <3>2
  <2> QED BY <2>1, <2>2, <2>3 DEF KindsOK
<1>6. LinksOK(e, h, d)
  <2> SUFFICES ASSUME NEW x \in DOMAIN h, NEW l \in Link
               PROVE  /\ h[x][l] \in Int /\ h[x][l] <= Len(h) /\ h[x][l] # Owner
                      /\ \A j \in DOMAIN d : LinkOK(e[j], d[j], x, l, h[x][l])
    BY DEF LinksOK
  <2>1. /\ h[x][l] <= Len(h) /\ h[x][l] # Owner /\ h[x][l] \in Int
        /\ x \in 1 .. Len(h)
    BY DEF Shape, LinksOK
  <2>2. ASSUME NEW j \in DOMAIN c
        PROVE  LinkOK(e[j], d[j], x, l, h[x][l])
    BY <1>2, <2>2 DEF Shape, LinksOK, LinkOK
  <2>3. LinkOK(e[m + 1], d[m + 1], x, l, h[x][l])
    BY <1>2, <2>1 DEF LinkOK
  <2> QED BY <1>1, <2>1, <2>2, <2>3
<1>7. AliveOK(dead, e, h, d)
  <2>1. ASSUME NEW j \in DOMAIN c
        PROVE  TakenOK(dead, e[j], h, d[j])
    <3>1. TakenOK(dead, b[j], h, c[j])
      BY DEF Shape, AliveOK
    <3>2. e[j] = b[j] /\ Alike(d[j], c[j])
      BY <1>2
    <3> QED BY <3>1, <3>2 DEF TakenOK
  <2>2. TakenOK(dead, e[m + 1], h, d[m + 1])
    <3>1. Null \notin dead
      BY DEF Shape, AliveOK, Null
    <3> QED BY <1>3, <3>1 DEF TakenOK
  <2> QED BY <1>1, <2>1, <2>2 DEF Shape, AliveOK
<1> QED BY <1>4, <1>5, <1>6, <1>7 DEF Shape, e

\* A node is allocated, stored to ref if this is a field of h, and has
\* taken, if any node, on its left.
Grown(h, g, ref, taken) ==
  /\ Len(g) = Len(h) + 1 /\ DOMAIN g = DOMAIN h \cup {Len(g)}
  /\ \A x \in DOMAIN h, l \in Link :
       g[x][l] = IF Field(x, l) = ref THEN Len(g) ELSE h[x][l]
  /\ \A x \in DOMAIN h : g[x].type = h[x].type
  /\ \A l \in Link : /\ g[Len(g)][l] \in Int
                     /\ g[Len(g)][l] > 0 => l = "left" /\ g[Len(g)][l] = taken

\* The last frame may take the new node for its previous child.
Advanced(c, d, new) ==
  /\ Len(d) = Len(c) /\ DOMAIN d = DOMAIN c
  /\ \A j \in DOMAIN c :
       /\ d[j].emplace = c[j].emplace /\ d[j].node = c[j].node /\ d[j].by = c[j].by
       /\ d[j].previous = c[j].previous
            \/ (j = Len(c) /\ d[j].previous = new)

LEMMA GrownKeeps ==
  ASSUME NEW b, NEW dead, NEW h, NEW c, NEW g, NEW d, NEW ref \in Reference,
         NEW taken, Shape(b, dead, h, c),
         Len(c) \in Nat, DOMAIN c = 1 .. Len(c), Len(c) > 0,
         Len(h) \in Nat, DOMAIN h = 1 .. Len(h),
         Grown(h, g, ref, taken), Advanced(c, d, Len(g)),
         ref = c[Len(c)].emplace \/ ref.node > b[Len(c)],
         taken = c[Len(c)].previous
  PROVE  BasesOK(b, g, d) /\ KindsOK(b, g, d) /\ LinksOK(b, g, d)
<1> DEFINE m == Len(c)
           new == Len(g)
<1>1. /\ m \in DOMAIN c /\ m \in Nat /\ b \in Seq(Nat) /\ Len(b) = m
      /\ new = Len(h) + 1 /\ DOMAIN g = 1 .. new /\ new \notin DOMAIN h
      /\ Len(d) = m /\ DOMAIN d = DOMAIN c
  BY DEF Shape, BasesOK, Grown, Advanced
<1>2. \A j \in DOMAIN c : /\ b[j] \in DOMAIN h /\ c[j].node \in 1 .. b[j]
                          /\ b[j] <= b[m]
  <2>1. \A j \in DOMAIN c : j < m => b[j] <= b[m]
    BY <1>1 DEF Shape, BasesOK, ApartOK
  <2>2. \A j \in DOMAIN c : b[j] \in DOMAIN h /\ c[j].node \in 1 .. b[j]
    BY <1>1 DEF Shape, BasesOK, PlaceOK
  <2> QED BY <1>1, <2>1, <2>2
<1>3. taken = Null \/ (taken \in DOMAIN h /\ taken > b[m])
  BY <1>1, <1>2 DEF Shape, BasesOK, PlaceOK
<1>4. BasesOK(b, g, d)
  <2>1. ASSUME NEW j \in DOMAIN c PROVE PlaceOK(b[j], g, d[j])
    <3>1. PlaceOK(b[j], h, c[j])
      BY DEF Shape, BasesOK
    <3>2. /\ d[j].emplace = c[j].emplace /\ d[j].node = c[j].node
          /\ d[j].previous = c[j].previous \/ d[j].previous = new
      BY DEF Advanced
    <3> QED BY <1>1, <1>2, <3>1, <3>2 DEF PlaceOK
  <2>2. ASSUME NEW j \in DOMAIN c, NEW k \in DOMAIN c, j < k
        PROVE ApartOK(b[j], d[j], b[k], d[k])
    <3>1. ApartOK(b[j], c[j], b[k], c[k])
      BY <2>2 DEF Shape, BasesOK
    <3>2. /\ d[j].emplace = c[j].emplace /\ d[k].emplace = c[k].emplace
          /\ d[j].previous = c[j].previous
      BY <2>2 DEF Advanced
    <3> QED BY <3>1, <3>2 DEF ApartOK
  <2> QED BY <1>1, <2>1, <2>2 DEF BasesOK
<1>5. KindsOK(b, g, d)
  <2>0. c # <<>> /\ 1 \in DOMAIN c
    OBVIOUS
  <2>1. /\ \A j \in DOMAIN d : d[j].by = "owner" <=> j = 1
        /\ d[1].emplace = Field(Owner, "right")
    <3>1. /\ \A j \in DOMAIN c : c[j].by = "owner" <=> j = 1
          /\ c[1].emplace = Field(Owner, "right")
      BY <2>0 DEF Shape, KindsOK
    <3> QED BY <2>0, <3>1 DEF Advanced
  <2>2. ASSUME NEW j \in DOMAIN c \ {1}
        PROVE  CallerOK(g, b[j - 1], d[j - 1], b[j], d[j])
    <3>1. CallerOK(h, b[j - 1], c[j - 1], b[j], c[j])
      BY DEF Shape, KindsOK
    <3>2. /\ d[j].emplace = c[j].emplace /\ d[j].node = c[j].node
          /\ d[j].by = c[j].by /\ j - 1 \in DOMAIN c
          /\ d[j - 1].previous = c[j - 1].previous
      BY DEF Advanced
    <3>3. c[j].node \in DOMAIN h /\ c[j].node \in Nat /\ c[j].node <= b[j]
      BY <1>1, <1>2
    <3>4. /\ g[c[j].node].type = h[c[j].node].type
          /\ \/ g[c[j].node]["right"] = h[c[j].node]["right"]
             \/ g[c[j].node]["right"] > b[j]
      <4>1. "right" \in Link
        BY DEF Link
      <4>2. /\ g[c[j].node].type = h[c[j].node].type
            /\ \/ g[c[j].node]["right"] = h[c[j].node]["right"]
               \/ g[c[j].node]["right"] = new
        BY <3>3, <4>1 DEF Grown
      <4> QED BY <1>1, <1>2, <4>2
    <3>5. ASSUME NEW x \in DOMAIN g, NEW l \in Link,
                 \A z \in DOMAIN h, k \in Link : h[z][k] # c[j].node
          PROVE  g[x][l] # c[j].node
      <4>1. CASE x \in DOMAIN h
        BY <1>1, <3>3, <3>5, <4>1 DEF Grown
      <4>2. CASE x = new
        <5>1. g[new][l] <= 0 \/ g[new][l] = taken
          BY DEF Grown
        <5>2. taken = Null \/ (taken \in Nat /\ taken > b[m] /\ b[m] \in Nat)
          BY <1>1, <1>2, <1>3
        <5>3. c[j].node > 0 /\ c[j].node <= b[m]
          BY <1>1, <1>2, <3>3
        <5>4. g[new][l] \in Int
          BY DEF Grown
        <5> QED BY <3>3, <4>2, <5>1, <5>2, <5>3, <5>4 DEF Null
      <4> QED BY <1>1, <4>1, <4>2
    <3> QED BY <3>1, <3>2, <3>4, <3>5 DEF CallerOK
  <2> QED BY <1>1, <2>1, <2>2 DEF KindsOK
<1>6. LinksOK(b, g, d)
  <2> SUFFICES ASSUME NEW x \in DOMAIN g, NEW l \in Link
               PROVE  /\ g[x][l] \in Int /\ g[x][l] <= new /\ g[x][l] # Owner
                      /\ \A j \in DOMAIN c : LinkOK(b[j], d[j], x, l, g[x][l])
    BY <1>1 DEF LinksOK
  <2>1. \A j \in DOMAIN c : b[j] \in Nat /\ b[j] > 0 /\ b[j] <= b[m] /\ b[j] < new
    BY <1>1, <1>2
  <2>2. CASE x \in DOMAIN h /\ Field(x, l) # ref
    <3>1. g[x][l] = h[x][l]
      BY <2>2 DEF Grown
    <3>2. /\ h[x][l] \in Int /\ h[x][l] <= Len(h) /\ h[x][l] # Owner
          /\ \A j \in DOMAIN c : LinkOK(b[j], c[j], x, l, h[x][l])
      BY <2>2 DEF Shape, LinksOK
    <3>3. \A j \in DOMAIN c : d[j].emplace = c[j].emplace
      BY DEF Advanced
    <3>4. ASSUME NEW j \in DOMAIN c PROVE LinkOK(b[j], d[j], x, l, g[x][l])
      BY <3>1, <3>2, <3>3 DEF LinkOK
    <3>5. h[x][l] <= new
      BY <1>1, <3>2
    <3> QED BY <3>1, <3>2, <3>4, <3>5
  <2>3. CASE x \in DOMAIN h /\ Field(x, l) = ref
    <3>1. g[x][l] = new
      BY <2>3 DEF Grown
    <3>2. x = ref.node /\ x \in Nat
      BY <1>1, <2>3, FieldFacts
    <3>3. ASSUME NEW j \in DOMAIN c PROVE LinkOK(b[j], d[j], x, l, new)
      <4>1. d[j].emplace = c[j].emplace
        BY DEF Advanced
      <4>2. x <= b[j] => ref = c[m].emplace /\ (c[m].emplace = c[j].emplace)
        <5>1. x <= b[j] => ref = c[m].emplace
          BY <1>1, <2>1, <3>2
        <5>2. j # m => ApartOK(b[j], c[j], b[m], c[m])
          BY <1>1 DEF Shape, BasesOK
        <5> QED BY <2>1, <3>2, <5>1, <5>2 DEF ApartOK
      <4> QED BY <2>1, <2>3, <4>1, <4>2 DEF LinkOK
    <3>4. new \in Int /\ new <= new /\ new # Owner
      BY <1>1, <1>2 DEF Owner
    <3> QED BY <3>1, <3>3, <3>4
  <2>4. CASE x = new
    <3>1. /\ g[x][l] \in Int
          /\ g[x][l] <= 0 \/ (g[x][l] \in DOMAIN h /\ g[x][l] > b[m])
      <4>1. g[new][l] \in Int /\ (g[new][l] > 0 => g[new][l] = taken)
        BY DEF Grown
      <4> QED BY <1>3, <2>4, <4>1 DEF Null
    <3>2. ~ (\E j \in DOMAIN c : x <= b[j])
      BY <1>1, <2>1, <2>4
    <3>3. ASSUME NEW j \in DOMAIN c PROVE LinkOK(b[j], d[j], x, l, g[x][l])
      BY <1>1, <2>1, <2>4, <3>1, <3>2 DEF LinkOK
    <3> QED BY <1>1, <1>2, <2>1, <3>1, <3>3 DEF Owner
  <2> QED BY <1>1, <2>2, <2>3, <2>4
<1> QED BY <1>4, <1>5, <1>6

\* The left operands of the other frames are linked as they were.
LEMMA GrownTaken ==
  ASSUME NEW b, NEW dead, NEW h, NEW c, NEW g, NEW d, NEW ref \in Reference,
         NEW taken, Shape(b, dead, h, c),
         Len(c) \in Nat, DOMAIN c = 1 .. Len(c), Len(c) > 0,
         Len(h) \in Nat, DOMAIN h = 1 .. Len(h),
         Grown(h, g, ref, taken), Advanced(c, d, Len(g)),
         ref = c[Len(c)].emplace \/ ref.node > b[Len(c)],
         taken = c[Len(c)].previous,
         NEW more, dead \subseteq more, more \subseteq DOMAIN h,
         \A x \in more : x \in dead \/ x > b[Len(c)],
         NEW j \in DOMAIN c, j < Len(c)
  PROVE  TakenOK(more, b[j], g, d[j])
<1> DEFINE m == Len(c)
           new == Len(g)
           v == c[j].previous
<1>1. /\ m \in DOMAIN c /\ new = Len(h) + 1 /\ DOMAIN g = DOMAIN h \cup {new}
      /\ d[j].emplace = c[j].emplace /\ d[j].node = c[j].node /\ d[j].previous = v
  BY DEF Grown, Advanced
<1>2. /\ PlaceOK(b[j], h, c[j]) /\ PlaceOK(b[m], h, c[m])
      /\ ApartOK(b[j], c[j], b[m], c[m])
      /\ b[j] \in Nat /\ b[m] \in Nat /\ b[m] < new
  BY <1>1 DEF Shape, BasesOK, PlaceOK
<1>3. TakenOK(dead, b[j], h, c[j])
  BY DEF Shape, AliveOK
<1>4. c[j].emplace.node \notin more /\ c[j].node \notin more
  BY <1>2, <1>3 DEF PlaceOK, ApartOK, TakenOK
<1>5. v \notin more
  BY <1>2, <1>3 DEF PlaceOK, ApartOK, TakenOK, Null
<1>6. ASSUME v # Null, NEW x \in DOMAIN g \ more, NEW l \in Link, g[x][l] = v
      PROVE  \/ Field(x, l) = c[j].emplace
             \/ /\ g[v].type \notin BinaryOperator
                /\ x > b[j]
                /\ \A z \in DOMAIN g \ more, k \in Link :
                     g[z][k] = x => Field(z, k) = c[j].emplace
  <2>1. v \in DOMAIN h /\ v <= b[m] /\ v > b[j] /\ v > 0
    BY <1>2, <1>6 DEF PlaceOK, ApartOK
  <2>2. taken = Null \/ taken > b[m]
    BY <1>2 DEF PlaceOK
  <2>3. ASSUME NEW z \in DOMAIN g, NEW k \in Link, NEW y \in DOMAIN h,
               g[z][k] = y, y <= b[m]
        PROVE  z \in DOMAIN h /\ h[z][k] = y
    <3>1. z # new
      BY <1>2, <2>2, <2>3 DEF Grown, Null
    <3>2. z \in DOMAIN h
      BY <1>1, <3>1
    <3> QED BY <1>1, <2>3, <3>2 DEF Grown
  <2>4. x \in DOMAIN h \ dead /\ h[x][l] = v
    BY <1>6, <2>1, <2>3
  <2>5. \/ Field(x, l) = c[j].emplace
        \/ /\ h[v].type \notin BinaryOperator
           /\ x > b[j]
           /\ \A z \in DOMAIN h \ dead, k \in Link :
                h[z][k] = x => Field(z, k) = c[j].emplace
    BY <1>3, <1>6, <2>4 DEF TakenOK
  <2>6. x <= b[m]
    <3>1. LinkOK(b[m], c[m], x, l, v)
      BY <1>1, <2>4 DEF Shape, LinksOK
    <3> QED BY <1>2, <2>1, <2>4, <3>1 DEF LinkOK
  <2>7. g[v].type = h[v].type
    BY <2>1 DEF Grown
  <2>8. \A z \in DOMAIN g \ more, k \in Link :
          g[z][k] = x => z \in DOMAIN h \ dead /\ h[z][k] = x
    BY <2>3, <2>4, <2>6
  <2> QED BY <2>5, <2>7, <2>8
<1> QED BY <1>1, <1>4, <1>5, <1>6 DEF TakenOK

\* A node that is stored nowhere, as the one of a function call.
\* The new node is not linked.
Loose(g, ref) == ref.node = Len(g) /\ \A l \in Link : g[Len(g)][l] <= 0
LEMMA ShapeAllocated ==
  ASSUME NEW b, NEW dead, NEW h, NEW c, NEW g, NEW ref \in Reference,
         Shape(b, dead, h, c),
         Len(c) \in Nat, DOMAIN c = 1 .. Len(c), Len(c) > 0,
         Len(h) \in Nat, DOMAIN h = 1 .. Len(h),
         Grown(h, g, ref, c[Len(c)].previous), Loose(g, ref)
  PROVE  Shape(b, dead, g, c) /\ \A x \in DOMAIN g, l \in Link : g[x][l] # Len(g)
<1> DEFINE m == Len(c)
           new == Len(g)
<1>0. ref.node = new /\ \A l \in Link : g[new][l] <= 0
  BY DEF Loose
<1>1. /\ m \in DOMAIN c /\ new = Len(h) + 1 /\ DOMAIN g = DOMAIN h \cup {new}
      /\ new \in Nat /\ new \notin DOMAIN h
  BY DEF Grown
<1>2. b[m] \in DOMAIN h
  BY <1>1 DEF Shape, BasesOK, PlaceOK
<1>3. Advanced(c, c, new)
  BY DEF Advanced
<1>4. ref.node > b[m]
  BY <1>0, <1>1, <1>2
<1>5. BasesOK(b, g, c) /\ KindsOK(b, g, c) /\ LinksOK(b, g, c)
  BY <1>3, <1>4, GrownKeeps
<1>6. /\ \A x \in DOMAIN h, l \in Link : g[x][l] = h[x][l]
      /\ \A l \in Link : g[new][l] <= 0 /\ g[new][l] \in Int
  <2>1. \A x \in DOMAIN h, l \in Link : Field(x, l) # ref
    BY <1>0, <1>1, FieldFacts
  <2> QED BY <1>0, <2>1 DEF Grown
<1>7. \A x \in DOMAIN h, l \in Link : h[x][l] \in Int /\ h[x][l] < new
  BY <1>1 DEF Shape, LinksOK
<1>8. AliveOK(dead, b, g, c)
  <2>1. dead \subseteq DOMAIN g \ {Owner} /\ new \notin dead
    BY <1>1 DEF Shape, AliveOK
  <2>2. \A x \in DOMAIN g \ dead, l \in Link : g[x][l] \notin dead
    <3>1. \A y \in dead : y > 0
      BY DEF Shape, AliveOK
    <3> QED BY <1>1, <1>6, <3>1 DEF Shape, AliveOK
  <2>3. \A x, z \in DOMAIN g \ dead, l, k \in Link :
          g[x][l] = g[z][k] /\ g[x][l] > 0 => x = z /\ l = k
    BY <1>1, <1>6 DEF Shape, AliveOK
  <2>4. TakenOK(dead, b[m], g, c[m])
    <3>1. TakenOK(dead, b[m], h, c[m]) /\ PlaceOK(b[m], h, c[m])
      BY <1>1 DEF Shape, AliveOK, BasesOK
    <3> DEFINE v == c[m].previous
    <3>2. ASSUME v # Null
          PROVE  /\ v \in DOMAIN h /\ g[v].type = h[v].type /\ v > 0
      <4>1. v \in DOMAIN h
        BY <1>2, <3>1, <3>2 DEF PlaceOK
      <4> QED BY <4>1 DEF Grown
    <3>3. \A z \in DOMAIN g \ dead, k \in Link : g[z][k] > 0 =>
            z \in DOMAIN h \ dead /\ h[z][k] = g[z][k]
      BY <1>1, <1>6
    <3>4. \A z \in DOMAIN h : z > 0
      OBVIOUS
    <3> HIDE DEF m, new
    <3>5. ASSUME v # Null, NEW x \in DOMAIN g \ dead, NEW l \in Link, g[x][l] = v
          PROVE  \/ Field(x, l) = c[m].emplace
                 \/ /\ g[v].type \notin BinaryOperator
                    /\ x > b[m]
                    /\ \A z \in DOMAIN g \ dead, k \in Link :
                         g[z][k] = x => Field(z, k) = c[m].emplace
      <4>1. x \in DOMAIN h \ dead /\ h[x][l] = v
        BY <3>2, <3>3, <3>5
      <4>2. \A z \in DOMAIN g \ dead, k \in Link :
              g[z][k] = x => z \in DOMAIN h \ dead /\ h[z][k] = x
        BY <3>3, <3>4, <4>1
      <4> QED BY <3>1, <3>2, <3>5, <4>1, <4>2 DEF TakenOK
    <3> QED BY <3>1, <3>5 DEF TakenOK
  <2>5. ASSUME NEW j \in DOMAIN c PROVE TakenOK(dead, b[j], g, c[j])
    <3>1. CASE j < m
      <4>1. dead \subseteq DOMAIN h
        BY DEF Shape, AliveOK
      <4> QED BY <1>3, <1>4, <3>1, <4>1, GrownTaken
    <3>2. CASE j = m
      BY <2>4, <3>2
    <3> QED BY <3>1, <3>2
  <2> QED BY <2>1, <2>2, <2>3, <2>5 DEF AliveOK
<1>9. \A x \in DOMAIN g, l \in Link : g[x][l] # new
  BY <1>1, <1>6, <1>7
<1> QED BY <1>5, <1>8, <1>9 DEF Shape

\* A node that is stored where the last frame stores, with nothing on its left
\* or with the frame's previous child.  What linked that child is overwritten,
\* or was linked by what is overwritten, and is dead.
LEMMA ShapeEmplaced ==
  ASSUME NEW b, NEW dead, NEW h, NEW c, NEW g, NEW d,
         Shape(b, dead, h, c),
         Len(c) \in Nat, DOMAIN c = 1 .. Len(c), Len(c) > 0,
         Len(h) \in Nat, DOMAIN h = 1 .. Len(h),
         c[Len(c)].emplace \in Reference,
         Grown(h, g, c[Len(c)].emplace, c[Len(c)].previous),
         Advanced(c, d, Len(g)), d[Len(c)].previous = Len(g)
  PROVE  \E more \in SUBSET DOMAIN g : Shape(b, more, g, d)
<1> DEFINE m == Len(c)
           new == Len(g)
           ref == c[Len(c)].emplace
           v == c[Len(c)].previous
           Kills(x) == \E l \in Link : /\ v > 0 /\ g[new]["left"] = v
                                       /\ h[x][l] = v /\ Field(x, l) # ref
           killed == {x \in DOMAIN h \ dead : Kills(x)}
           more == dead \cup killed
<1>1. /\ m \in DOMAIN c /\ m \in Nat /\ new = Len(h) + 1
      /\ DOMAIN g = DOMAIN h \cup {new} /\ new \in Nat /\ new \notin DOMAIN h
      /\ DOMAIN d = DOMAIN c /\ Len(d) = m
  BY DEF Grown, Advanced
<1>2. /\ PlaceOK(b[m], h, c[m]) /\ TakenOK(dead, b[m], h, c[m])
      /\ b[m] \in DOMAIN h /\ b[m] \in Nat /\ b[m] > 0
  BY <1>1 DEF Shape, BasesOK, AliveOK, PlaceOK
<1>3. dead \subseteq DOMAIN h /\ Owner \notin dead /\ \A x \in DOMAIN h : x \in Nat /\ x > 0
  BY DEF Shape, AliveOK
<1>4. v = Null \/ (v \in DOMAIN h /\ v > b[m] /\ v > 0)
  BY <1>2 DEF PlaceOK
<1>5. BasesOK(b, g, d) /\ KindsOK(b, g, d) /\ LinksOK(b, g, d)
  BY <1>1, GrownKeeps
<1>6. \A x \in DOMAIN h, l \in Link :
        g[x][l] = IF Field(x, l) = ref THEN new ELSE h[x][l]
  BY DEF Grown
<1>7. \A l \in Link : /\ g[new][l] \in Int
                      /\ g[new][l] > 0 => l = "left" /\ g[new][l] = v
  BY DEF Grown
<1>8. \A x \in DOMAIN h, l \in Link : h[x][l] \in Int /\ h[x][l] < new
  BY <1>1 DEF Shape, LinksOK
<1>9. ASSUME NEW x \in killed
      PROVE  /\ x > b[m] /\ x # v /\ x \in DOMAIN h
             /\ \A z \in DOMAIN h \ dead, k \in Link : h[z][k] = x => Field(z, k) = ref
  <2>1. PICK l \in Link : v > 0 /\ h[x][l] = v /\ Field(x, l) # ref
    OBVIOUS
  <2>2. v # Null /\ x \in DOMAIN h \ dead
    BY <2>1 DEF Null
  <2>3. /\ x > b[m]
        /\ \A z \in DOMAIN h \ dead, k \in Link : h[z][k] = x => Field(z, k) = ref
    BY <1>2, <2>1, <2>2 DEF TakenOK
  <2>4. x # v
    BY <2>1, <2>2, <2>3
  <2> QED BY <2>2, <2>3, <2>4
<1> HIDE DEF killed, m, new, ref, v
<1>10. /\ more \subseteq DOMAIN h /\ dead \subseteq more /\ Owner \notin more
       /\ \A x \in more : x \in dead \/ x > b[m]
  BY <1>2, <1>3, <1>9 DEF killed, Owner
<1>11. AliveOK(more, b, g, d)
  <2>1. more \subseteq DOMAIN g \ {Owner}
    BY <1>1, <1>10
  <2>2. ASSUME NEW x \in DOMAIN g \ more, NEW l \in Link
        PROVE  g[x][l] \notin more
    <3>1. CASE x \in DOMAIN h /\ Field(x, l) = ref
      BY <1>1, <1>6, <1>10, <3>1
    <3>2. CASE x \in DOMAIN h /\ Field(x, l) # ref
      <4>1. g[x][l] = h[x][l] /\ x \in DOMAIN h \ dead
        BY <1>6, <1>10, <3>2
      <4>2. h[x][l] \notin dead
        BY <4>1 DEF Shape, AliveOK
      <4>3. h[x][l] \notin killed
        BY <1>9, <3>2, <4>1
      <4> QED BY <4>1, <4>2, <4>3
    <3>3. CASE x = new
      <4>1. g[x][l] \notin DOMAIN h \/ g[x][l] = v
        BY <1>3, <1>7, <3>3
      <4>2. v \notin more
        BY <1>2, <1>9 DEF TakenOK, m, v
      <4> QED BY <1>10, <4>1, <4>2
    <3> QED BY <1>1, <3>1, <3>2, <3>3
  <2>3. ASSUME NEW x \in DOMAIN g \ more, NEW z \in DOMAIN g \ more,
               NEW l \in Link, NEW k \in Link, g[x][l] = g[z][k], g[x][l] > 0
        PROVE  x = z /\ l = k
    <3>1. \A y \in DOMAIN h \ more : y \in DOMAIN h \ dead
      BY <1>10
    <3>2. CASE x = new /\ z = new
      BY <1>7, <2>3, <3>2
    <3>3. CASE x \in DOMAIN h /\ z \in DOMAIN h
      <4>1. CASE Field(x, l) = ref /\ Field(z, k) = ref
        BY <1>3, <3>3, <4>1, FieldFacts DEF ref
      <4>2. CASE Field(x, l) # ref /\ Field(z, k) # ref
        <5>1. h[x][l] = h[z][k] /\ h[x][l] > 0
          BY <1>6, <2>3, <3>3, <4>2
        <5>2. x \in DOMAIN h \ dead /\ z \in DOMAIN h \ dead
          BY <3>1, <3>3
        <5> QED BY <5>1, <5>2 DEF Shape, AliveOK
      <4>3. CASE Field(x, l) = ref /\ Field(z, k) # ref
        <5>1. g[x][l] = new /\ g[z][k] = h[z][k] /\ h[z][k] < new
          BY <1>6, <1>8, <3>3, <4>3
        <5>2. h[z][k] \in Int /\ h[z][k] = new
          BY <1>8, <2>3, <3>3, <5>1
        <5> QED BY <1>1, <5>1, <5>2
      <4>4. CASE Field(x, l) # ref /\ Field(z, k) = ref
        <5>1. g[z][k] = new /\ g[x][l] = h[x][l] /\ h[x][l] < new
          BY <1>6, <1>8, <3>3, <4>4
        <5> QED BY <1>1, <1>8, <2>3, <3>3, <5>1
      <4> QED BY <4>1, <4>2, <4>3, <4>4
    <3>4. ASSUME NEW y \in DOMAIN h \ more, NEW i \in Link, NEW j \in Link,
                 g[y][i] = g[new][j], g[new][j] > 0
          PROVE  FALSE
      <4>1. j = "left" /\ g[new]["left"] = v /\ v > 0 /\ v \in DOMAIN h /\ g[y][i] = v
        BY <1>4, <1>7, <3>4 DEF Null
      <4>2. Field(y, i) # ref /\ h[y][i] = v
        BY <1>1, <1>6, <4>1
      <4>3. y \in killed
        BY <3>1, <4>1, <4>2 DEF killed
      <4> QED BY <4>3
    <3>5. x \in DOMAIN h \/ x = new
      BY <1>1
    <3>6. z \in DOMAIN h \/ z = new
      BY <1>1
    <3> QED BY <2>3, <3>2, <3>3, <3>4, <3>5, <3>6
  <2>4. TakenOK(more, b[m], g, d[m])
    <3>1. /\ d[m].emplace = ref /\ d[m].node = c[m].node /\ d[m].previous = new
      BY <1>1 DEF Advanced, m, new, ref
    <3>2. ref.node \notin more /\ c[m].node \notin more /\ new \notin more
      BY <1>1, <1>2, <1>10 DEF TakenOK, PlaceOK, ref, m
    <3>3. ASSUME NEW x \in DOMAIN g, NEW l \in Link, g[x][l] = new
          PROVE  Field(x, l) = ref
      <4>1. CASE x = new
        BY <1>1, <1>4, <1>7, <3>3, <4>1 DEF Null
      <4>2. CASE x \in DOMAIN h
        BY <1>1, <1>6, <1>8, <3>3, <4>2
      <4> QED BY <1>1, <4>1, <4>2
    <3> QED BY <3>1, <3>2, <3>3 DEF TakenOK
  <2>5. ASSUME NEW j \in DOMAIN c PROVE TakenOK(more, b[j], g, d[j])
    <3>1. CASE j < m
      BY <1>10, <3>1, GrownTaken DEF m, ref, v, new
    <3>2. CASE j = m
      BY <2>4, <3>2
    <3> QED BY <3>1, <3>2 DEF m
  <2> QED BY <1>1, <2>1, <2>2, <2>3, <2>5 DEF AliveOK
<1>12. Shape(b, more, g, d)
  BY <1>5, <1>11 DEF Shape
<1>13. more \in SUBSET DOMAIN g
  BY <1>1, <1>10
<1> HIDE DEF more
<1> QED BY <1>12, <1>13

\* An identifier that is stored on the right of the previous child.
LEMMA ShapeRight ==
  ASSUME NEW b, NEW dead, NEW h, NEW c, NEW g, NEW d, NEW ref \in Reference,
         Shape(b, dead, h, c),
         Len(c) \in Nat, DOMAIN c = 1 .. Len(c), Len(c) > 0,
         Len(h) \in Nat, DOMAIN h = 1 .. Len(h),
         Grown(h, g, ref, c[Len(c)].previous),
         ref.node = c[Len(c)].previous, ref.node # Null,
         h[ref.node].type \in BinaryOperator,
         \A l \in Link : g[Len(g)][l] <= 0,
         g[Len(g)].type \notin BinaryOperator,
         Advanced(c, d, Len(g)), d[Len(c)].previous = Len(g)
  PROVE  Shape(b, dead, g, d)
<1> DEFINE m == Len(c)
           new == Len(g)
           p == ref.node
<1>1. /\ m \in DOMAIN c /\ m \in Nat /\ new = Len(h) + 1
      /\ DOMAIN g = DOMAIN h \cup {new} /\ new \in Nat /\ new \notin DOMAIN h
      /\ DOMAIN d = DOMAIN c /\ Len(d) = m
  BY DEF Grown, Advanced
<1>2. /\ PlaceOK(b[m], h, c[m]) /\ TakenOK(dead, b[m], h, c[m])
      /\ b[m] \in DOMAIN h /\ b[m] \in Nat /\ b[m] > 0
  BY <1>1 DEF Shape, BasesOK, AliveOK, PlaceOK
<1>3. dead \subseteq DOMAIN h /\ Owner \notin dead /\ \A x \in DOMAIN h : x \in Nat /\ x > 0
  BY DEF Shape, AliveOK
<1>4. p \in DOMAIN h /\ p > b[m] /\ p \notin dead /\ p = c[m].previous
  BY <1>2 DEF PlaceOK, TakenOK
<1>5. BasesOK(b, g, d) /\ KindsOK(b, g, d) /\ LinksOK(b, g, d)
  BY <1>4, GrownKeeps
<1>6. \A x \in DOMAIN h, l \in Link :
        g[x][l] = IF Field(x, l) = ref THEN new ELSE h[x][l]
  BY DEF Grown
<1>7. \A l \in Link : g[new][l] \in Int /\ g[new][l] <= 0
  BY DEF Grown
<1>8. \A x \in DOMAIN h, l \in Link : h[x][l] \in Int /\ h[x][l] < new
  BY <1>1 DEF Shape, LinksOK
<1> HIDE DEF m, new, p
<1>9. AliveOK(dead, b, g, d)
  <2>1. dead \subseteq DOMAIN g \ {Owner}
    BY <1>1, <1>3
  <2>2. ASSUME NEW x \in DOMAIN g \ dead, NEW l \in Link
        PROVE  g[x][l] \notin dead
    <3>1. CASE x \in DOMAIN h
      <4>1. h[x][l] \notin dead
        BY <2>2, <3>1 DEF Shape, AliveOK
      <4>2. new \notin dead
        BY <1>1, <1>3
      <4>3. g[x][l] = new \/ g[x][l] = h[x][l]
        BY <1>6, <3>1
      <4> QED BY <4>1, <4>2, <4>3, Zenon
    <3>2. CASE x = new
      BY <1>3, <1>7, <3>2
    <3> QED BY <1>1, <3>1, <3>2
  <2>3. ASSUME NEW x \in DOMAIN g \ dead, NEW z \in DOMAIN g \ dead,
               NEW l \in Link, NEW k \in Link, g[x][l] = g[z][k], g[x][l] > 0
        PROVE  x = z /\ l = k
    <3>1. x \in DOMAIN h \ dead /\ z \in DOMAIN h \ dead
      BY <1>1, <1>7, <2>3
    <3>2. CASE Field(x, l) = ref /\ Field(z, k) = ref
      BY <1>3, <3>1, <3>2, FieldFacts
    <3>3. CASE Field(x, l) # ref /\ Field(z, k) # ref
      BY <1>6, <2>3, <3>1, <3>3 DEF Shape, AliveOK
    <3>4. CASE Field(x, l) = ref /\ Field(z, k) # ref
      <4>1. g[x][l] = new /\ g[z][k] = h[z][k] /\ h[z][k] < new
        BY <1>6, <1>8, <3>1, <3>4
      <4>2. h[z][k] \in Int /\ h[z][k] = new
        BY <1>8, <2>3, <3>1, <4>1
      <4> QED BY <1>1, <4>1, <4>2
    <3>5. CASE Field(x, l) # ref /\ Field(z, k) = ref
      <4>1. g[z][k] = new /\ g[x][l] = h[x][l] /\ h[x][l] < new
        BY <1>6, <1>8, <3>1, <3>5
      <4> QED BY <1>1, <1>8, <2>3, <3>1, <4>1
    <3> QED BY <3>2, <3>3, <3>4, <3>5
  <2>4. TakenOK(dead, b[m], g, d[m])
    <3>1. /\ d[m].emplace = c[m].emplace /\ d[m].node = c[m].node /\ d[m].previous = new
      BY <1>1 DEF Advanced, m, new
    <3>2. c[m].emplace.node \notin dead /\ c[m].node \notin dead /\ new \notin dead
      BY <1>1, <1>2, <1>3 DEF TakenOK
    <3>3. ASSUME NEW x \in DOMAIN g \ dead, NEW l \in Link, g[x][l] = new
          PROVE  /\ g[new].type \notin BinaryOperator
                 /\ x > b[m]
                 /\ \A z \in DOMAIN g \ dead, k \in Link :
                      g[z][k] = x => Field(z, k) = c[m].emplace
      <4>1. x \in DOMAIN h /\ x \in Nat
        BY <1>1, <1>3, <1>7, <3>3
      <4>2. x = p
        <5>1. Field(x, l) = ref
          BY <1>6, <1>8, <3>3, <4>1
        <5> QED BY <4>1, <5>1, FieldFacts DEF p
      <4>3. ASSUME NEW z \in DOMAIN g \ dead, NEW k \in Link, g[z][k] = x
            PROVE  Field(z, k) = c[m].emplace
        <5>1. z \in DOMAIN h /\ h[z][k] = p
          BY <1>1, <1>3, <1>4, <1>6, <1>7, <4>2, <4>3
        <5>2. p # Null /\ h[p].type \in BinaryOperator
          BY DEF p
        <5>3. z \in DOMAIN h \ dead
          BY <4>3, <5>1
        <5> QED BY <1>2, <1>4, <5>1, <5>2, <5>3 DEF TakenOK
      <4>4. g[new].type \notin BinaryOperator
        BY DEF new
      <4> QED BY <1>4, <4>2, <4>3, <4>4
    <3> QED BY <3>1, <3>2, <3>3 DEF TakenOK
  <2>5. ASSUME NEW j \in DOMAIN c PROVE TakenOK(dead, b[j], g, d[j])
    <3>1. CASE j < m
      BY <1>3, <1>4, <3>1, GrownTaken DEF m, new, p
    <3>2. CASE j = m
      BY <2>4, <3>2
    <3> QED BY <3>1, <3>2 DEF m
  <2> QED BY <1>1, <2>1, <2>2, <2>3, <2>5 DEF AliveOK
<1> QED BY <1>5, <1>9 DEF Shape

\* A node that nothing links is stored where the last frame stores, as a call
\* that has its last argument.
Attached(h, g, ref, n) ==
  /\ Len(g) = Len(h) /\ DOMAIN g = DOMAIN h
  /\ \A x \in DOMAIN h, l \in Link :
       /\ g[x][l] = IF Field(x, l) = ref THEN n ELSE h[x][l]
       /\ h[x][l] # n
  /\ \A x \in DOMAIN h : g[x].type = h[x].type
LEMMA ShapeAttached ==
  ASSUME NEW b, NEW dead, NEW h, NEW c, NEW g, NEW n,
         Shape(b, dead, h, c),
         Len(c) \in Nat, DOMAIN c = 1 .. Len(c), Len(c) > 0,
         Len(h) \in Nat, DOMAIN h = 1 .. Len(h),
         c[Len(c)].emplace \in Reference,
         Attached(h, g, c[Len(c)].emplace, n),
         n \in DOMAIN h \ dead, n > b[Len(c)]
  PROVE  Shape(b, dead, g, c)
<1> DEFINE m == Len(c)
           ref == c[Len(c)].emplace
<1>0. /\ Len(g) = Len(h) /\ DOMAIN g = DOMAIN h
      /\ \A x \in DOMAIN h, l \in Link :
           g[x][l] = IF Field(x, l) = c[Len(c)].emplace THEN n ELSE h[x][l]
      /\ \A x \in DOMAIN h : g[x].type = h[x].type
      /\ \A x \in DOMAIN h, l \in Link : h[x][l] # n
  BY DEF Attached
<1> USE <1>0
<1>1. /\ m \in DOMAIN c /\ m \in Nat /\ b \in Seq(Nat) /\ Len(b) = m
      /\ n \in Nat /\ n > 0
  BY DEF Shape, BasesOK
<1>2. \A j \in DOMAIN c : /\ b[j] \in DOMAIN h /\ b[j] \in Nat /\ b[j] > 0
                          /\ c[j].node \in 1 .. b[j]
                          /\ c[j].emplace.node \in 1 .. b[j]
                          /\ b[j] <= b[m]
  <2>1. \A j \in DOMAIN c : j < m => b[j] <= b[m]
    BY <1>1 DEF Shape, BasesOK, ApartOK
  <2>2. \A j \in DOMAIN c : /\ b[j] \in DOMAIN h /\ c[j].node \in 1 .. b[j]
                            /\ c[j].emplace.node \in 1 .. b[j]
    BY <1>1 DEF Shape, BasesOK, PlaceOK
  <2> QED BY <1>1, <2>1, <2>2
<1>3. \A x \in DOMAIN h, l \in Link :
        g[x][l] = IF Field(x, l) = ref THEN n ELSE h[x][l]
  OBVIOUS
<1>4. BasesOK(b, g, c)
  BY DEF Shape, BasesOK, PlaceOK
<1>5. KindsOK(b, g, c)
  <2>1. /\ \A j \in DOMAIN c : c[j].by = "owner" <=> j = 1
        /\ c # <<>> => c[1].emplace = Field(Owner, "right")
    BY DEF Shape, KindsOK
  <2>2. ASSUME NEW j \in DOMAIN c \ {1}
        PROVE  CallerOK(g, b[j - 1], c[j - 1], b[j], c[j])
    <3>1. CallerOK(h, b[j - 1], c[j - 1], b[j], c[j])
      BY DEF Shape, KindsOK
    <3>2. c[j].node \in DOMAIN h /\ c[j].node # n /\ n > b[j] /\ "right" \in Link
      BY <1>1, <1>2 DEF Link
    <3>3. /\ g[c[j].node].type = h[c[j].node].type
          /\ \/ g[c[j].node]["right"] = h[c[j].node]["right"]
             \/ g[c[j].node]["right"] > b[j]
      BY <1>3, <3>2
    <3>4. (\A x \in DOMAIN h, l \in Link : h[x][l] # c[j].node)
            => \A x \in DOMAIN g, l \in Link : g[x][l] # c[j].node
      BY <1>3, <3>2
    <3> QED BY <3>1, <3>3, <3>4 DEF CallerOK
  <2> QED BY <2>1, <2>2 DEF KindsOK
<1>6. LinksOK(b, g, c)
  <2> SUFFICES ASSUME NEW x \in DOMAIN h, NEW l \in Link
               PROVE  /\ g[x][l] \in Int /\ g[x][l] <= Len(h) /\ g[x][l] # Owner
                      /\ \A j \in DOMAIN c : LinkOK(b[j], c[j], x, l, g[x][l])
    BY DEF LinksOK
  <2>1. CASE Field(x, l) # ref
    <3>1. g[x][l] = h[x][l]
      BY <1>3, <2>1
    <3> QED BY <3>1 DEF Shape, LinksOK
  <2>2. CASE Field(x, l) = ref
    <3>1. g[x][l] = n /\ x = ref.node /\ x \in Nat
      BY <1>3, <2>2, FieldFacts
    <3>2. ASSUME NEW j \in DOMAIN c PROVE LinkOK(b[j], c[j], x, l, n)
      <4>1. j # m => ApartOK(b[j], c[j], b[m], c[m])
        BY <1>1 DEF Shape, BasesOK
      <4> QED BY <1>1, <1>2, <2>2, <3>1, <4>1 DEF LinkOK, ApartOK
    <3>3. n \in Int /\ n <= Len(h) /\ n # Owner
      BY <1>1, <1>2 DEF Owner
    <3> QED BY <3>1, <3>2, <3>3
  <2> QED BY <2>1, <2>2
<1>7. AliveOK(dead, b, g, c)
  <2>1. /\ dead \subseteq DOMAIN g \ {Owner}
        /\ \A x \in DOMAIN g \ dead, l \in Link : g[x][l] \notin dead
    BY <1>3 DEF Shape, AliveOK
  <2>2. ASSUME NEW x \in DOMAIN g \ dead, NEW z \in DOMAIN g \ dead,
               NEW l \in Link, NEW k \in Link, g[x][l] = g[z][k], g[x][l] > 0
        PROVE  x = z /\ l = k
    <3>1. x \in Nat /\ z \in Nat /\ x \in DOMAIN h /\ z \in DOMAIN h
      OBVIOUS
    <3>2. Field(x, l) = ref <=> Field(z, k) = ref
      BY <1>3, <2>2, <3>1
    <3>3. CASE Field(x, l) = ref
      BY <3>1, <3>2, <3>3, FieldFacts
    <3>4. CASE Field(x, l) # ref
      <4>1. h[x][l] = h[z][k] /\ h[x][l] > 0
        BY <1>3, <2>2, <3>1, <3>2, <3>4
      <4> QED BY <4>1 DEF Shape, AliveOK
    <3> QED BY <3>3, <3>4
  <2>3. ASSUME NEW j \in DOMAIN c PROVE TakenOK(dead, b[j], g, c[j])
    <3> DEFINE v == c[j].previous
    <3>1. TakenOK(dead, b[j], h, c[j]) /\ PlaceOK(b[j], h, c[j])
      BY DEF Shape, AliveOK, BasesOK
    <3>2. j # m => v <= b[m]
      BY <1>1 DEF Shape, BasesOK, ApartOK
    <3>3. ASSUME v # Null, NEW x \in DOMAIN g \ dead, NEW l \in Link, g[x][l] = v
          PROVE  \/ Field(x, l) = c[j].emplace
                 \/ /\ g[v].type \notin BinaryOperator
                    /\ x > b[j]
                    /\ \A z \in DOMAIN g \ dead, k \in Link :
                         g[z][k] = x => Field(z, k) = c[j].emplace
      <4>1. v \in DOMAIN h /\ v > 0 /\ x \in DOMAIN h
        BY <1>2, <3>1, <3>3 DEF PlaceOK
      <4>2. CASE Field(x, l) = ref
        <5>1. v = n
          BY <1>3, <3>3, <4>1, <4>2
        <5>2. j = m
          BY <1>1, <1>2, <3>2, <5>1
        <5> QED BY <4>2, <5>2
      <4>3. CASE Field(x, l) # ref
        <5>1. h[x][l] = v
          BY <1>3, <3>3, <4>1, <4>3
        <5>2. \/ Field(x, l) = c[j].emplace
              \/ /\ h[v].type \notin BinaryOperator
                 /\ x > b[j]
                 /\ \A z \in DOMAIN h \ dead, k \in Link :
                      h[z][k] = x => Field(z, k) = c[j].emplace
          BY <3>1, <3>3, <5>1 DEF TakenOK
        <5>3. ASSUME NEW z \in DOMAIN g \ dead, NEW k \in Link, g[z][k] = x
              PROVE  h[z][k] = x \/ Field(z, k) = c[j].emplace
          <6>1. CASE Field(z, k) = ref
            <7>1. x = n
              BY <1>3, <5>3, <6>1
            <7>2. LinkOK(b[m], c[m], x, l, v)
              BY <1>1, <4>1, <5>1 DEF Shape, LinksOK
            <7>3. j = m
              BY <1>1, <1>2, <3>2, <4>1, <7>1, <7>2 DEF LinkOK
            <7> QED BY <6>1, <7>3
          <6>2. CASE Field(z, k) # ref
            BY <1>3, <5>3, <6>2
          <6> QED BY <6>1, <6>2
        <5>4. g[v].type = h[v].type
          BY <4>1
        <5> QED BY <5>2, <5>3, <5>4
      <4> QED BY <4>2, <4>3
    <3> QED BY <3>1, <3>3 DEF TakenOK
  <2> QED BY <2>1, <2>2, <2>3 DEF AliveOK
<1> QED BY <1>4, <1>5, <1>6, <1>7 DEF Shape

\* The previous child of the last frame swaps with the operator on its right:
\* the four fields hold what they held, in another order.
Swapped(h, g, n, r) ==
  /\ Len(g) = Len(h) /\ DOMAIN g = DOMAIN h
  /\ \A x \in DOMAIN h \ {n, r} : g[x] = h[x]
  /\ \A x \in DOMAIN h : g[x]["sibling"] = h[x]["sibling"]
  /\ h[n]["right"] = r
  /\ g[n]["left"] = r /\ g[n]["right"] = h[r]["right"]
  /\ g[r]["left"] = h[n]["left"] /\ g[r]["right"] = h[r]["left"]
  /\ g[n].type = h[r].type /\ g[r].type = h[n].type
LEMMA ShapeRotated ==
  ASSUME NEW b, NEW dead, NEW h, NEW c, NEW g, NEW n, NEW r,
         Shape(b, dead, h, c),
         Len(c) \in Nat, DOMAIN c = 1 .. Len(c), Len(c) > 0,
         Len(h) \in Nat, DOMAIN h = 1 .. Len(h),
         c[Len(c)].previous = n, n # Null, r \in DOMAIN h, n # r,
         Swapped(h, g, n, r),
         h[n].type \in BinaryOperator, h[r].type \in BinaryOperator
  PROVE  Shape(b, dead, g, c)
<1> DEFINE m == Len(c)
<1>1. /\ m \in DOMAIN c /\ m \in Nat /\ b \in Seq(Nat) /\ Len(b) = m
      /\ Link = {"left", "right", "sibling"}
  BY DEF Shape, BasesOK, Link
<1>2. \A j \in DOMAIN c : /\ b[j] \in DOMAIN h /\ b[j] \in Nat /\ b[j] > 0
                          /\ c[j].node \in 1 .. b[j]
                          /\ c[j].emplace.node \in 1 .. b[j]
                          /\ b[j] <= b[m]
  <2>1. \A j \in DOMAIN c : j < m => b[j] <= b[m]
    BY <1>1 DEF Shape, BasesOK, ApartOK
  <2>2. \A j \in DOMAIN c : /\ b[j] \in DOMAIN h /\ c[j].node \in 1 .. b[j]
                            /\ c[j].emplace.node \in 1 .. b[j]
    BY <1>1 DEF Shape, BasesOK, PlaceOK
  <2> QED BY <1>1, <2>1, <2>2
<1>3. n \in DOMAIN h \ dead /\ n > b[m] /\ n > 0
  BY <1>1, <1>2 DEF Shape, BasesOK, PlaceOK, AliveOK, TakenOK
<1>4. r \notin dead /\ r > b[m] /\ r > 0
  <2>0. "right" \in Link /\ h[n]["right"] = r
    BY <1>1 DEF Swapped
  <2>1. LinkOK(b[m], c[m], n, "right", r)
    BY <1>1, <1>3, <2>0 DEF Shape, LinksOK
  <2>2. r \notin dead
    BY <1>1, <1>3, <2>0 DEF Shape, AliveOK
  <2> QED BY <1>2, <1>3, <2>1, <2>2 DEF LinkOK
<1>5. /\ \A x \in DOMAIN h \ {n, r}, l \in Link : g[x][l] = h[x][l]
      /\ \A x \in {n, r}, l \in Link : \E z \in {n, r}, k \in Link : g[x][l] = h[z][k]
  <2>0. \A x \in DOMAIN h \ {n, r}, l \in Link : g[x][l] = h[x][l]
    BY DEF Swapped
  <2>1. \A x \in {n, r} : g[x]["sibling"] = h[x]["sibling"]
    BY <1>3 DEF Swapped
  <2>2. ASSUME NEW l \in Link
        PROVE  /\ \E z \in {n, r}, k \in Link : g[n][l] = h[z][k]
               /\ \E z \in {n, r}, k \in Link : g[r][l] = h[z][k]
    <3>1. CASE l = "left"
      BY <1>1, <3>1 DEF Swapped
    <3>2. CASE l = "right"
      BY <1>1, <3>2 DEF Swapped
    <3>3. CASE l = "sibling"
      BY <1>1, <2>1, <3>3
    <3> QED BY <1>1, <3>1, <3>2, <3>3
  <2> QED BY <2>0, <2>2
<1>6. /\ \A x \in DOMAIN h \ {n, r} : g[x] = h[x]
      /\ DOMAIN g = DOMAIN h /\ Len(g) = Len(h)
      /\ g[n].type \in BinaryOperator /\ g[r].type \in BinaryOperator
  BY DEF Swapped
<1>7. ASSUME NEW x \in {n, r}, NEW l \in Link, g[x][l] > 0
      PROVE  g[x][l] > b[m]
  <2>1. PICK z \in {n, r}, k \in Link : g[x][l] = h[z][k]
    BY <1>5
  <2>2. LinkOK(b[m], c[m], z, k, h[z][k])
    BY <1>1, <1>3 DEF Shape, LinksOK
  <2> QED BY <1>2, <1>3, <1>4, <1>7, <2>1, <2>2 DEF LinkOK
<1>8. BasesOK(b, g, c)
  BY <1>6 DEF Shape, BasesOK, PlaceOK
<1>9. \A x \in DOMAIN h, l \in Link : \E z \in DOMAIN h, k \in Link : g[x][l] = h[z][k]
  BY <1>3, <1>5
<1>10. KindsOK(b, g, c)
  <2>1. /\ \A j \in DOMAIN c : c[j].by = "owner" <=> j = 1
        /\ c # <<>> => c[1].emplace = Field(Owner, "right")
    BY DEF Shape, KindsOK
  <2>2. ASSUME NEW j \in DOMAIN c \ {1}
        PROVE  CallerOK(g, b[j - 1], c[j - 1], b[j], c[j])
    <3>1. CallerOK(h, b[j - 1], c[j - 1], b[j], c[j])
      BY DEF Shape, KindsOK
    <3>2. c[j].node \in DOMAIN h \ {n, r}
      BY <1>2, <1>3, <1>4
    <3>3. g[c[j].node] = h[c[j].node]
      BY <1>6, <3>2
    <3> QED BY <1>6, <1>9, <3>1, <3>3 DEF CallerOK
  <2> QED BY <2>1, <2>2 DEF KindsOK
<1>11. LinksOK(b, g, c)
  <2> SUFFICES ASSUME NEW x \in DOMAIN h, NEW l \in Link
               PROVE  /\ g[x][l] \in Int /\ g[x][l] <= Len(h) /\ g[x][l] # Owner
                      /\ \A j \in DOMAIN c : LinkOK(b[j], c[j], x, l, g[x][l])
    BY <1>6 DEF LinksOK
  <2>1. CASE x \notin {n, r}
    BY <1>5, <2>1 DEF Shape, LinksOK
  <2>2. CASE x \in {n, r}
    <3>1. /\ g[x][l] \in Int /\ g[x][l] <= Len(h) /\ g[x][l] # Owner
      <4>1. PICK z \in DOMAIN h, k \in Link : g[x][l] = h[z][k]
        BY <1>9
      <4>2. h[z][k] \in Int /\ h[z][k] <= Len(h) /\ h[z][k] # Owner
        BY DEF Shape, LinksOK
      <4> QED BY <4>1, <4>2
    <3>2. \A j \in DOMAIN c : LinkOK(b[j], c[j], x, l, g[x][l])
      BY <1>2, <1>3, <1>4, <1>7, <2>2, <3>1 DEF LinkOK
    <3> QED BY <3>1, <3>2
  <2> QED BY <2>1, <2>2
<1>12. AliveOK(dead, b, g, c)
  <2>1. /\ dead \subseteq DOMAIN g \ {Owner}
        /\ \A x \in DOMAIN g \ dead, l \in Link : g[x][l] \notin dead
    <3>1. \A x \in DOMAIN h \ dead, l \in Link : h[x][l] \notin dead
      BY DEF Shape, AliveOK
    <3> QED BY <1>3, <1>4, <1>5, <1>6, <3>1 DEF Shape, AliveOK
  <2>2. ASSUME NEW x \in DOMAIN g \ dead, NEW z \in DOMAIN g \ dead,
               NEW l \in Link, NEW k \in Link, g[x][l] = g[z][k], g[x][l] > 0
        PROVE  x = z /\ l = k
    <3>1. \A y, w \in DOMAIN h \ dead, i, j \in Link :
            h[y][i] = h[w][j] /\ h[y][i] > 0 => y = w /\ i = j
      BY DEF Shape, AliveOK
    <3>2. CASE x \notin {n, r} /\ z \notin {n, r}
      BY <1>5, <1>6, <2>2, <3>1, <3>2
    <3>3. ASSUME NEW y \in DOMAIN h \ dead, NEW w \in {n, r}, NEW i \in Link, NEW j \in Link,
                 y \notin {n, r}, g[y][i] = g[w][j], g[y][i] > 0
          PROVE  FALSE
      <4>1. PICK u \in {n, r}, e \in Link : g[w][j] = h[u][e]
        BY <1>5
      <4>2. h[y][i] = h[u][e] /\ h[y][i] > 0 /\ u \in DOMAIN h \ dead
        BY <1>3, <1>4, <1>5, <3>3, <4>1
      <4> QED BY <3>1, <3>3, <4>2
    <3>4. CASE x \in {n, r} /\ z \in {n, r}
      <4> DEFINE From(y) == IF y = n THEN [left |-> <<n, "right">>, right |-> <<r, "right">>,
                                           sibling |-> <<n, "sibling">>]
                            ELSE [left |-> <<n, "left">>, right |-> <<r, "left">>,
                                  sibling |-> <<r, "sibling">>]
      <4>1. ASSUME NEW y \in {n, r}, NEW i \in Link
            PROVE  /\ From(y)[i] = <<From(y)[i][1], From(y)[i][2]>>
                   /\ From(y)[i][1] \in DOMAIN h \ dead /\ From(y)[i][2] \in Link
                   /\ g[y][i] = h[From(y)[i][1]][From(y)[i][2]]
        <5>1. g[n]["sibling"] = h[n]["sibling"] /\ g[r]["sibling"] = h[r]["sibling"]
          BY <1>3 DEF Swapped
        <5>2. i = "left" \/ i = "right" \/ i = "sibling"
          BY <1>1
        <5>3. CASE i = "left"
          BY <1>1, <1>3, <1>4, <5>3 DEF Swapped
        <5>4. CASE i = "right"
          BY <1>1, <1>3, <1>4, <5>4 DEF Swapped
        <5>5. CASE i = "sibling"
          BY <1>1, <1>3, <1>4, <5>1, <5>5
        <5> QED BY <5>2, <5>3, <5>4, <5>5
      <4>2. /\ From(x)[l][1] = From(z)[k][1] /\ From(x)[l][2] = From(z)[k][2]
        <5> HIDE DEF From
        <5>1. PICK y, i : y = From(x)[l][1] /\ i = From(x)[l][2]
          OBVIOUS
        <5>2. PICK w, j : w = From(z)[k][1] /\ j = From(z)[k][2]
          OBVIOUS
        <5>3. y \in DOMAIN h \ dead /\ i \in Link /\ g[x][l] = h[y][i]
          BY <3>4, <4>1, <5>1
        <5>4. w \in DOMAIN h \ dead /\ j \in Link /\ g[z][k] = h[w][j]
          BY <3>4, <4>1, <5>2
        <5>5. h[y][i] = h[w][j] /\ h[y][i] > 0
          BY <2>2, <5>3, <5>4
        <5>6. y = w /\ i = j
          BY <3>1, <5>3, <5>4, <5>5, Zenon, SMTT(30)
        <5> QED BY <5>1, <5>2, <5>6
      <4>3. l \in {"left", "right", "sibling"} /\ k \in {"left", "right", "sibling"}
        BY <1>1
      <4> QED BY <3>4, <4>2, <4>3
    <3> QED BY <1>6, <2>2, <3>2, <3>3, <3>4
  <2>3. ASSUME NEW j \in DOMAIN c PROVE TakenOK(dead, b[j], g, c[j])
    <3> DEFINE v == c[j].previous
    <3>1. TakenOK(dead, b[j], h, c[j]) /\ PlaceOK(b[j], h, c[j])
      BY DEF Shape, AliveOK, BasesOK
    <3>2. j # m => v <= b[m]
      BY <1>1 DEF Shape, BasesOK, ApartOK
    <3>3. ASSUME v # Null, NEW x \in DOMAIN g \ dead, NEW l \in Link, g[x][l] = v
          PROVE  \/ Field(x, l) = c[j].emplace
                 \/ /\ g[v].type \notin BinaryOperator
                    /\ x > b[j]
                    /\ \A z \in DOMAIN g \ dead, k \in Link :
                         g[z][k] = x => Field(z, k) = c[j].emplace
      <4>1. v \in DOMAIN h /\ v > 0 /\ x \in DOMAIN h
        BY <1>2, <1>6, <3>1, <3>3 DEF PlaceOK
      <4>2. \A z \in DOMAIN h \ dead, k \in Link : h[z][k] = v =>
              \/ Field(z, k) = c[j].emplace
              \/ /\ h[v].type \notin BinaryOperator
                 /\ z > b[j]
                 /\ \A y \in DOMAIN h \ dead, i \in Link :
                      h[y][i] = z => Field(y, i) = c[j].emplace
        BY <3>1, <3>3 DEF TakenOK
      <4>3. ASSUME NEW z \in {n, r}, NEW k \in Link PROVE Field(z, k) # c[j].emplace
        <5>1. Field(z, k).node = z
          BY DEF Field
        <5> QED BY <1>2, <1>3, <1>4, <5>1
      <4>4. x \notin {n, r}
        <5>1. SUFFICES ASSUME x \in {n, r} PROVE FALSE
          OBVIOUS
        <5>2. j = m /\ v = n
          BY <1>2, <1>7, <3>2, <3>3, <4>1, <5>1
        <5>3. PICK z \in {n, r}, k \in Link : g[x][l] = h[z][k]
          BY <1>5, <5>1
        <5>4. z \in DOMAIN h \ dead /\ h[z][k] = v /\ h[v].type \in BinaryOperator
          BY <1>3, <1>4, <3>3, <5>2, <5>3
        <5> QED BY <4>2, <4>3, <5>4
      <4>5. h[x][l] = v
        BY <1>5, <1>6, <3>3, <4>1, <4>4
      <4>6. g[v].type = h[v].type \/ (v \in {n, r} /\ h[v].type \in BinaryOperator)
        BY <1>6, <4>1
      <4>7. ASSUME NEW z \in DOMAIN g \ dead, NEW k \in Link, g[z][k] = x,
                   \A y \in DOMAIN h \ dead, i \in Link :
                      h[y][i] = x => Field(y, i) = c[j].emplace
            PROVE  Field(z, k) = c[j].emplace
        <5>1. CASE z \in {n, r}
          <6>1. PICK y \in {n, r}, i \in Link : g[z][k] = h[y][i]
            BY <1>5, <5>1
          <6>2. y \in DOMAIN h \ dead /\ h[y][i] = x
            BY <1>3, <1>4, <4>7, <6>1
          <6> QED BY <4>3, <4>7, <6>2
        <5>2. CASE z \notin {n, r}
          BY <1>5, <1>6, <4>7, <5>2
        <5> QED BY <5>1, <5>2
      <4> QED BY <1>6, <3>3, <4>1, <4>2, <4>5, <4>6, <4>7
    <3> QED BY <3>1, <3>3 DEF TakenOK
  <2> QED BY <2>1, <2>2, <2>3 DEF AliveOK
<1> QED BY <1>8, <1>10, <1>11, <1>12 DEF Shape

----------------------------------------------------------------------------
(* The steps *)

LEMMA RotatedIsSwapped ==
  ASSUME NEW h \in Seq(Node), NEW n \in DOMAIN h, NEW r \in DOMAIN h, n # r,
         r = h[n]["right"]
  PROVE  Swapped(h, Rotated(h, n, r), n, r)
BY RotatedFacts DEF Swapped, Link

\* A node is appended, and linked from ref.
Linked(h, node, ref) == Store(Append(h, node), ref, Len(h) + 1)
OnLeft(node, taken) == \A l \in Link : node[l] > 0 => l = "left" /\ node[l] = taken
LEMMA GrownByStore ==
  ASSUME NEW h \in Seq(Node), NEW node \in Node, NEW ref \in Reference,
         ref.node \in DOMAIN h, NEW taken, OnLeft(node, taken)
  PROVE  /\ Linked(h, node, ref) \in Seq(Node)
         /\ Grown(h, Linked(h, node, ref), ref, taken)
         /\ \A l \in Link : Linked(h, node, ref)[Len(h) + 1][l] = node[l]
         /\ Linked(h, node, ref)[Len(h) + 1].type = node.type
         /\ Linked(h, node, ref)[Len(h) + 1].token = node.token
         /\ \A x \in DOMAIN h : /\ Linked(h, node, ref)[x].type = h[x].type
                                /\ Linked(h, node, ref)[x].token = h[x].token
<1> DEFINE a == Append(h, node)
           new == Len(h) + 1
           g == Store(a, ref, new)
<1>1. /\ a \in Seq(Node) /\ Len(a) = new /\ DOMAIN a = DOMAIN h \cup {new}
      /\ \A x \in DOMAIN h : a[x] = h[x]
      /\ a[new] = node /\ new \in Pointer /\ new \notin DOMAIN h /\ new \in Int
  BY DEF Pointer
<1> HIDE DEF a, new
<1>2. /\ g \in Seq(Node) /\ Len(g) = new
      /\ \A x \in DOMAIN a, f \in Link :
           g[x][f] = IF x = ref.node /\ f = ref.field THEN new ELSE a[x][f]
      /\ \A x \in DOMAIN a : g[x].type = a[x].type /\ g[x].token = a[x].token
  <2>1. ref.node \in DOMAIN a /\ ref.field \in Link
    BY <1>1 DEF Reference
  <2> QED BY <1>1, <2>1, StoreFacts, SMTT(30)
<1> HIDE DEF g
<1>3. DOMAIN g = DOMAIN h \cup {new}
  <2>0. \A s \in Seq(Node) : DOMAIN s = 1 .. Len(s)
    OBVIOUS
  <2>1. DOMAIN g = 1 .. Len(g) /\ DOMAIN a = 1 .. Len(a)
    BY <1>1, <1>2, <2>0, Zenon
  <2> QED BY <1>1, <1>2, <2>1
<1>4. \A l \in Link : g[new][l] = node[l] /\ node[l] \in Int
  <2>1. new # ref.node /\ new \in DOMAIN a
    BY <1>1
  <2>2. \A l \in Link : node[l] \in Int
    BY FieldsOfANode DEF Pointer, Uninitialized
  <2> QED BY <1>1, <1>2, <2>1, <2>2
<1>5. \A x \in DOMAIN h, l \in Link :
        g[x][l] = IF Field(x, l) = ref THEN Len(g) ELSE h[x][l]
  BY <1>1, <1>2, FieldFacts
<1>6. Grown(h, g, ref, taken)
  <2>1. Len(g) = Len(h) + 1
    BY <1>2 DEF new
  <2>2. \A l \in Link : g[new][l] > 0 => l = "left" /\ g[new][l] = taken
    BY <1>4 DEF OnLeft
  <2>3. \A x \in DOMAIN h : g[x].type = h[x].type
    BY <1>1, <1>2
  <2> QED BY <1>2, <1>3, <1>4, <1>5, <2>1, <2>2, <2>3 DEF Grown
<1>7. Linked(h, node, ref) = g
  BY DEF g, a, new, Linked
<1>8. new = Len(h) + 1
  BY DEF new
<1>9. new \in DOMAIN a
  BY <1>1
<1> QED BY <1>1, <1>2, <1>4, <1>6, <1>7, <1>8, <1>9

\* What every step starts from.
LEMMA Now ==
  ASSUME IInv, status = "parsing"
  PROVE  /\ Len(stack) \in Nat /\ Len(stack) > 0 /\ DOMAIN stack = 1 .. Len(stack)
         /\ Top = stack[Len(stack)] /\ Top \in Frame
         /\ Len(ast) \in Nat /\ DOMAIN ast = 1 .. Len(ast) /\ Len(ast) > 0
         /\ Front(stack) \in Seq(Frame) /\ Len(Front(stack)) = Len(stack) - 1
         /\ DOMAIN Front(stack) = 1 .. Len(stack) - 1
         /\ \A j \in 1 .. Len(stack) - 1 : Front(stack)[j] = stack[j]
         /\ Top.emplace \in Reference /\ Top.emplace.field \in Link
         /\ Fresh = Len(ast) + 1
<1>1. stack \in Seq(Frame) /\ stack # <<>> /\ ast \in Seq(Node) /\ ast # <<>>
  BY DEF IInv, TypeOK
<1>2. Top = stack[Len(stack)] /\ Top \in Frame
  BY <1>1 DEF Top, Last
<1>3. Top.emplace \in Reference /\ Top.emplace.field \in Link
  BY <1>2 DEF Frame, Reference, Link
<1>4. /\ Front(stack) \in Seq(Frame) /\ Len(Front(stack)) = Len(stack) - 1
      /\ DOMAIN Front(stack) = 1 .. Len(stack) - 1
      /\ \A j \in 1 .. Len(stack) - 1 : Front(stack)[j] = stack[j]
  <2> DEFINE m == Len(stack)
  <2>1. m \in Nat \ {0} /\ \A j \in 1 .. m : stack[j] \in Frame
    BY <1>1
  <2>2. Front(stack) = [j \in 1 .. m - 1 |-> stack[j]]
    BY <1>1 DEF Front
  <2> HIDE DEF m
  <2>3. Front(stack) \in Seq(Frame) /\ Len(Front(stack)) = m - 1
    BY <2>1, <2>2
  <2> QED BY <2>2, <2>3 DEF m
<1>5. /\ Len(stack) \in Nat /\ Len(stack) > 0 /\ DOMAIN stack = 1 .. Len(stack)
      /\ Len(ast) \in Nat /\ Len(ast) > 0 /\ DOMAIN ast = 1 .. Len(ast)
  BY <1>1
<1> QED BY <1>2, <1>3, <1>4, <1>5 DEF Fresh

LEMMA CurrentFacts ==
  ASSUME TypeOK
  PROVE  /\ Current \in Token
         /\ Current # "eof" => pos \in DOMAIN stream /\ stream[pos] = Current
         /\ Following = "(" => pos + 2 \in 1 .. Len(stream) + 1
<1>1. stream \in Seq(Token) /\ Len(stream) \in Nat /\ pos \in 1 .. Len(stream) + 1
      /\ DOMAIN stream = 1 .. Len(stream)
  BY DEF TypeOK
<1>2. "eof" \in Token /\ "eof" # "("
  BY DEF Token
<1>3. pos <= Len(stream) => pos \in DOMAIN stream /\ stream[pos] \in Token
  BY <1>1
<1> QED BY <1>1, <1>2, <1>3 DEF Current, Following

CallDelims == Delimiters \cup {{","}, {",", ")"}}
LEMMA DelimsFacts ==
  ASSUME NEW f \in Frame
  PROVE  /\ "eof" \notin f.delims
         /\ f.delims \in CallDelims
         /\ f.delims \ {")"} \in CallDelims
<1>1. f.delims \in {{";"}, {"]"}, {","}, {",", ")"}}
  BY DelimitersAssumption DEF Frame
<1>0. /\ "eof" \notin {";"} /\ "eof" \notin {"]"}
      /\ "eof" \notin {","} /\ "eof" \notin {",", ")"}
  OBVIOUS
<1>2. "eof" \notin f.delims
  <2>1. \/ f.delims = {";"} \/ f.delims = {"]"}
        \/ f.delims = {","} \/ f.delims = {",", ")"}
    BY <1>1
  <2> QED BY <1>0, <2>1, Zenon
<1>3. {";"} \ {")"} = {";"} /\ {"]"} \ {")"} = {"]"} /\ {","} \ {")"} = {","}
      /\ {",", ")"} \ {")"} = {","}
  OBVIOUS
<1>4. f.delims \ {")"} = f.delims \/ f.delims \ {")"} = {","}
  BY <1>1, <1>3
<1>5. f.delims \in CallDelims /\ {","} \in CallDelims
  BY DEF Frame, CallDelims
<1> QED BY <1>2, <1>4, <1>5

WithPrevious(c, v) == [c EXCEPT ![Len(c)].previous = v]
LEMMA PreviousStored ==
  ASSUME NEW c \in Seq(Frame), Len(c) > 0, NEW v \in Nat
  PROVE  /\ WithPrevious(c, v) \in Seq(Frame)
         /\ Len(WithPrevious(c, v)) = Len(c) /\ DOMAIN WithPrevious(c, v) = DOMAIN c
         /\ Advanced(c, WithPrevious(c, v), v)
         /\ WithPrevious(c, v)[Len(c)].previous = v
<1> DEFINE m == Len(c)
           f == [c[m] EXCEPT !.previous = v]
           d == [c EXCEPT ![m] = f]
<1>1. m \in DOMAIN c /\ c[m] \in Frame
  OBVIOUS
<1>2. /\ f \in Frame /\ f.previous = v /\ f.emplace = c[m].emplace
      /\ f.node = c[m].node /\ f.by = c[m].by /\ f.delims = c[m].delims
  BY <1>1 DEF Frame
<1> HIDE DEF f
<1>3. /\ d \in Seq(Frame) /\ Len(d) = m /\ DOMAIN d = DOMAIN c /\ d[m] = f
      /\ \A j \in DOMAIN c : j # m => d[j] = c[j]
  BY <1>1, <1>2
<1>4. Advanced(c, d, v)
  <2> HIDE DEF d
  <2> QED BY <1>2, <1>3 DEF Advanced
<1>5. WithPrevious(c, v) = d
  BY <1>1 DEF f, WithPrevious
<1> HIDE DEF d
<1> QED BY <1>2, <1>3, <1>4, <1>5

LEMMA LabelsGrown ==
  ASSUME LabelsOK, TypeOK, stream' = stream,
         Len(ast') = Len(ast) + 1, DOMAIN ast' = DOMAIN ast \cup {Len(ast')},
         \A x \in DOMAIN ast : ast'[x].type = ast[x].type /\ ast'[x].token = ast[x].token,
         ast'[Len(ast')].type \in BinaryOperator =>
           /\ ast'[Len(ast')].token \in DOMAIN stream
           /\ stream[ast'[Len(ast')].token] = ast'[Len(ast')].type
  PROVE  LabelsOK'
BY DEF LabelsOK

LEMMA PosAdvanced ==
  ASSUME TypeOK, Current # "eof", pos' = pos + 1, stream' = stream
  PROVE  (pos \in 1 .. Len(stream) + 1)'
BY CurrentFacts DEF TypeOK

\* An operand goes where the expression does, and an operator that is already
\* there on its left.
LEMMA EmplaceStep ==
  ASSUME IInv, status = "parsing", Current # "eof", Emplace(Current, Top.emplace)
  PROVE  IInv'
<1> DEFINE m == Len(stack)
           node == NewNode(Current, pos)
<1>1. /\ m \in Nat /\ m > 0 /\ DOMAIN stack = 1 .. m /\ Top = stack[m] /\ Top \in Frame
      /\ Len(ast) \in Nat /\ DOMAIN ast = 1 .. Len(ast) /\ Fresh = Len(ast) + 1
      /\ Top.emplace \in Reference
  BY Now
<1>2. TypeOK /\ LabelsOK /\ stack \in Seq(Frame) /\ ast \in Seq(Node) /\ pos \in Nat
  BY DEF IInv, TypeOK
<1>3. PICK b \in Seq(Nat), dead \in SUBSET DOMAIN ast : Shape(b, dead, ast, stack)
  BY DEF IInv
<1>4. Top.emplace.node \in DOMAIN ast
  BY <1>1, <1>3 DEF Shape, BasesOK, PlaceOK
<1>5. /\ node \in Node /\ \A l \in Link : node[l] = Null
      /\ node.type = Current /\ node.token = pos
  BY <1>2, CurrentFacts, NewNodeFacts DEF NodeType
<1>6. /\ ast' = Linked(ast, node, Top.emplace)
      /\ stack' = WithPrevious(stack, Fresh)
      /\ pos' = pos + 1 /\ stream' = stream /\ status' = status
  BY <1>1 DEF Emplace, Linked, WithPrevious, Fresh
<1> HIDE DEF node
<1>7. /\ ast' \in Seq(Node) /\ Grown(ast, ast', Top.emplace, Top.previous)
      /\ ast'[Len(ast')].type = Current /\ ast'[Len(ast')].token = pos
      /\ \A x \in DOMAIN ast : ast'[x].type = ast[x].type /\ ast'[x].token = ast[x].token
  <2>1. OnLeft(node, Top.previous)
    BY <1>5 DEF Null, OnLeft
  <2>2. /\ ast' \in Seq(Node) /\ Grown(ast, ast', Top.emplace, Top.previous)
        /\ ast'[Len(ast) + 1].type = Current /\ ast'[Len(ast) + 1].token = pos
        /\ \A x \in DOMAIN ast : ast'[x].type = ast[x].type /\ ast'[x].token = ast[x].token
    <3> DEFINE g == Linked(ast, node, Top.emplace)
    <3>1. /\ g \in Seq(Node) /\ Grown(ast, g, Top.emplace, Top.previous)
          /\ g[Len(ast) + 1].type = node.type /\ g[Len(ast) + 1].token = node.token
          /\ \A x \in DOMAIN ast : g[x].type = ast[x].type /\ g[x].token = ast[x].token
      BY <1>1, <1>2, <1>4, <1>5, <2>1, GrownByStore, Z3T(30)
    <3> QED BY <1>5, <1>6, <3>1
  <2>3. Len(ast') = Len(ast) + 1
    BY <2>2 DEF Grown
  <2> QED BY <2>2, <2>3
<1>8. /\ Len(ast') = Fresh /\ Fresh \in Nat /\ DOMAIN ast' = DOMAIN ast \cup {Len(ast')}
  BY <1>1, <1>7 DEF Grown
<1>9. /\ stack' \in Seq(Frame) /\ Len(stack') = m
      /\ Advanced(stack, stack', Len(ast')) /\ stack'[m].previous = Len(ast')
  BY <1>1, <1>2, <1>6, <1>8, PreviousStored
<1>10. \E more \in SUBSET DOMAIN ast' : Shape(b, more, ast', stack')
  BY <1>1, <1>3, <1>7, <1>9, ShapeEmplaced
<1>11. LabelsOK'
  BY <1>2, <1>1, <1>6, <1>7, <1>8, CurrentFacts, LabelsGrown
<1>12. TypeOK'
  BY <1>2, <1>6, <1>7, <1>9, PosAdvanced DEF TypeOK
<1> QED BY <1>1, <1>6, <1>8, <1>9, <1>10, <1>11, <1>12 DEF IInv

LEMMA EmplaceRightStep ==
  ASSUME IInv, status = "parsing", Current = "identifier",
         IsBinaryOperator(ast, Top.previous),
         Emplace("identifier", Field(Top.previous, "right"))
  PROVE  IInv'
<1> DEFINE m == Len(stack)
           node == NewNode("identifier", pos)
           ref == Field(Top.previous, "right")
<1>1. /\ m \in Nat /\ m > 0 /\ DOMAIN stack = 1 .. m /\ Top = stack[m] /\ Top \in Frame
      /\ Len(ast) \in Nat /\ DOMAIN ast = 1 .. Len(ast) /\ Fresh = Len(ast) + 1
  BY Now
<1>2. TypeOK /\ LabelsOK /\ stack \in Seq(Frame) /\ ast \in Seq(Node) /\ pos \in Nat
  BY DEF IInv, TypeOK
<1>3. PICK b \in Seq(Nat), dead \in SUBSET DOMAIN ast : Shape(b, dead, ast, stack)
  BY DEF IInv
<1>4. /\ ref \in Reference /\ ref.node = Top.previous /\ ref.node # Null
      /\ ref.node \in DOMAIN ast /\ ast[ref.node].type \in BinaryOperator
  <2>1. Top.previous \in Nat /\ "right" \in Link
    BY <1>1 DEF Frame, Link
  <2>2. PlaceOK(b[m], ast, Top)
    BY <1>1, <1>3 DEF Shape, BasesOK
  <2>3. Top.previous # Null /\ ast[Top.previous].type \in BinaryOperator
    BY DEF IsBinaryOperator
  <2>4. Top.previous \in DOMAIN ast
    BY <1>1, <2>1, <2>2, <2>3 DEF PlaceOK
  <2>5. ref \in Reference /\ ref.node = Top.previous
    BY <2>1, FieldFacts DEF Reference, Field
  <2> QED BY <2>3, <2>4, <2>5
<1>5. /\ node \in Node /\ \A l \in Link : node[l] = Null
      /\ node.type = "identifier" /\ node.token = pos
  <2>1. "identifier" \in NodeType
    BY DEF Token, NodeType
  <2> QED BY <1>2, <2>1, NewNodeFacts
<1>6. /\ ast' = Linked(ast, node, ref)
      /\ stack' = WithPrevious(stack, Fresh)
      /\ pos' = pos + 1 /\ stream' = stream /\ status' = status
  BY <1>1 DEF Emplace, Linked, WithPrevious, Fresh
<1> HIDE DEF node, ref
<1>7. /\ ast' \in Seq(Node) /\ Grown(ast, ast', ref, Top.previous)
      /\ \A l \in Link : ast'[Len(ast')][l] <= 0
      /\ ast'[Len(ast')].type = "identifier" /\ ast'[Len(ast')].token = pos
      /\ \A x \in DOMAIN ast : ast'[x].type = ast[x].type /\ ast'[x].token = ast[x].token
  <2>1. OnLeft(node, Top.previous)
    BY <1>5 DEF Null, OnLeft
  <2>2. /\ ast' \in Seq(Node) /\ Grown(ast, ast', ref, Top.previous)
        /\ ast'[Len(ast) + 1].type = "identifier" /\ ast'[Len(ast) + 1].token = pos
        /\ \A l \in Link : ast'[Len(ast) + 1][l] = node[l]
        /\ \A x \in DOMAIN ast : ast'[x].type = ast[x].type /\ ast'[x].token = ast[x].token
    <3> DEFINE g == Linked(ast, node, ref)
    <3>1. /\ g \in Seq(Node) /\ Grown(ast, g, ref, Top.previous)
          /\ g[Len(ast) + 1].type = node.type /\ g[Len(ast) + 1].token = node.token
          /\ \A l \in Link : g[Len(ast) + 1][l] = node[l]
          /\ \A x \in DOMAIN ast : g[x].type = ast[x].type /\ g[x].token = ast[x].token
      BY <1>1, <1>2, <1>4, <1>5, <2>1, GrownByStore
    <3> QED BY <1>5, <1>6, <3>1
  <2>3. Len(ast') = Len(ast) + 1
    BY <2>2 DEF Grown
  <2> QED BY <1>5, <2>2, <2>3 DEF Null
<1>8. /\ Len(ast') = Fresh /\ Fresh \in Nat /\ DOMAIN ast' = DOMAIN ast \cup {Len(ast')}
      /\ ast'[Len(ast')].type \notin BinaryOperator
  BY <1>1, <1>7 DEF Grown, BinaryOperator
<1>9. /\ stack' \in Seq(Frame) /\ Len(stack') = m
      /\ Advanced(stack, stack', Len(ast')) /\ stack'[m].previous = Len(ast')
  BY <1>1, <1>2, <1>6, <1>8, PreviousStored
<1>10. Shape(b, dead, ast', stack')
  BY <1>1, <1>3, <1>4, <1>7, <1>8, <1>9, ShapeRight
<1>11. LabelsOK'
  <2>1. Len(ast') = Len(ast) + 1
    BY <1>1, <1>8
  <2> QED BY <1>2, <1>6, <1>7, <1>8, <2>1, LabelsGrown
<1>12. TypeOK'
  BY <1>2, <1>6, <1>7, <1>9, PosAdvanced DEF TypeOK
<1>13. dead \in SUBSET DOMAIN ast'
  BY <1>8
<1> QED BY <1>1, <1>3, <1>6, <1>8, <1>9, <1>10, <1>11, <1>12, <1>13 DEF IInv

\* A call begins.
CallBy == {"owner", "parenthesis", "unary", "binary", "argument"}
LEMMA CallFacts ==
  ASSUME NEW ref \in Reference, NEW delims \in CallDelims,
         NEW by \in CallBy, NEW node \in Nat
  PROVE  /\ Call(ref, delims, by, node) \in Frame
         /\ Call(ref, delims, by, node).emplace = ref
         /\ Call(ref, delims, by, node).previous = Null
         /\ Call(ref, delims, by, node).by = by
         /\ Call(ref, delims, by, node).node = node
BY DEF Call, Frame, CallBy, CallDelims, Reference, Link, Null

LEMMA FrameAppended ==
  ASSUME NEW c \in Seq(Frame), NEW f \in Frame
  PROVE  /\ Append(c, f) \in Seq(Frame) /\ Len(Append(c, f)) = Len(c) + 1
         /\ DOMAIN Append(c, f) = 1 .. Len(c) + 1
         /\ Append(c, f)[Len(c) + 1] = f
         /\ \A j \in DOMAIN c : Alike(Append(c, f)[j], c[j])
BY DEF Alike

LEMMA TopShape ==
  ASSUME IInv, status = "parsing", NEW b, NEW dead, Shape(b, dead, ast, stack)
  PROVE  /\ Top.emplace.node \in DOMAIN ast \ dead /\ Top.node \in DOMAIN ast \ dead
         /\ Len(b) = Len(stack) /\ b \in Seq(Nat) /\ b[Len(stack)] \in DOMAIN ast
         /\ Top.emplace.node <= b[Len(stack)] /\ Top.node <= b[Len(stack)]
<1> DEFINE m == Len(stack)
<1>1. m \in DOMAIN stack /\ Top = stack[m] /\ Len(ast) \in Nat /\ DOMAIN ast = 1 .. Len(ast)
  BY Now
<1>2. PlaceOK(b[m], ast, Top) /\ TakenOK(dead, b[m], ast, Top)
  BY <1>1 DEF Shape, BasesOK, AliveOK
<1>3. Len(b) = m /\ b \in Seq(Nat)
  BY DEF Shape, BasesOK
<1> QED BY <1>1, <1>2, <1>3 DEF PlaceOK, TakenOK

LEMMA OpenParenthesisStep ==
  ASSUME IInv, ReadOpenParenthesis
  PROVE  IInv'
<1> DEFINE m == Len(stack)
           f == Call(Top.emplace, Top.delims \ {")"}, "parenthesis", Top.node)
<1>0. status = "parsing" /\ Current # "eof"
  BY DEF ReadOpenParenthesis, Reading
<1>1. /\ m \in Nat /\ m > 0 /\ DOMAIN stack = 1 .. m /\ Top = stack[m] /\ Top \in Frame
      /\ Len(ast) \in Nat /\ DOMAIN ast = 1 .. Len(ast) /\ Top.emplace \in Reference
  BY <1>0, Now
<1>2. TypeOK /\ LabelsOK /\ stack \in Seq(Frame) /\ ast \in Seq(Node) /\ ast # <<>>
  BY DEF IInv, TypeOK
<1>3. PICK b \in Seq(Nat), dead \in SUBSET DOMAIN ast : Shape(b, dead, ast, stack)
  BY DEF IInv
<1>4. /\ f \in Frame /\ f.emplace = Top.emplace /\ f.previous = Null
      /\ f.by = "parenthesis" /\ f.node = Top.node
  <2>1. Top.delims \ {")"} \in CallDelims
    BY <1>1, DelimsFacts
  <2>2. Top.node \in Nat /\ "parenthesis" \in CallBy /\ Top.emplace \in Reference
    BY <1>1 DEF Frame, CallBy
  <2> QED BY <2>1, <2>2, CallFacts
<1>5. /\ stack' = Append(stack, f) /\ pos' = pos + 1
      /\ stream' = stream /\ ast' = ast /\ status' = status
  BY DEF ReadOpenParenthesis
<1> HIDE DEF f
<1>6. /\ stack' \in Seq(Frame) /\ Len(stack') = m + 1 /\ DOMAIN stack' = 1 .. Len(stack')
      /\ stack'[Len(stack')] = f /\ \A j \in DOMAIN stack : Alike(stack'[j], stack[j])
  BY <1>2, <1>4, <1>5, FrameAppended
<1>7. Shape(Append(b, Len(ast)), dead, ast, stack')
  <2>1. CallerOK(ast, b[m], stack[m], Len(ast), f)
    BY <1>4 DEF CallerOK
  <2>2. f.emplace.node \in DOMAIN ast \ dead /\ f.node \in DOMAIN ast \ dead
    BY <1>0, <1>3, <1>4, TopShape
  <2> QED BY <1>1, <1>3, <1>4, <1>6, <2>1, <2>2, ShapePushed
<1>8. TypeOK'
  BY <1>0, <1>2, <1>5, <1>6, PosAdvanced DEF TypeOK
<1>9. LabelsOK'
  BY <1>2, <1>5 DEF LabelsOK
<1>10. \E e \in Seq(Nat), d \in SUBSET DOMAIN ast' : Shape(e, d, ast', stack')
  <2>1. Append(b, Len(ast)) \in Seq(Nat)
    BY <1>1
  <2> QED BY <1>5, <1>7, <2>1
<1>11. ast' # <<>> /\ stack' # <<>>
  BY <1>1, <1>2, <1>5, <1>6
<1> QED BY <1>8, <1>9, <1>10, <1>11 DEF IInv

LEMMA FunctionCallStep ==
  ASSUME IInv, ReadFunctionCall
  PROVE  IInv'
<1> DEFINE m == Len(stack)
           node == CallNode(pos)
           f == Call(Field(Fresh, "right"), {",", ")"}, "argument", Fresh)
<1>0. status = "parsing" /\ Current # "eof" /\ Following = "("
  BY DEF ReadFunctionCall, Reading
<1>1. /\ m \in Nat /\ m > 0 /\ DOMAIN stack = 1 .. m /\ Top = stack[m] /\ Top \in Frame
      /\ Len(ast) \in Nat /\ DOMAIN ast = 1 .. Len(ast) /\ Fresh = Len(ast) + 1
      /\ Fresh \in Nat
  BY <1>0, Now
<1>2. TypeOK /\ LabelsOK /\ stack \in Seq(Frame) /\ ast \in Seq(Node) /\ ast # <<>> /\ pos \in Nat
  BY DEF IInv, TypeOK
<1>3. PICK b \in Seq(Nat), dead \in SUBSET DOMAIN ast : Shape(b, dead, ast, stack)
  BY DEF IInv
<1>4. /\ f \in Frame /\ f.emplace = Field(Fresh, "right") /\ f.previous = Null
      /\ f.by = "argument" /\ f.node = Fresh
      /\ f.emplace.node = Fresh /\ f.emplace \in Reference
  <2>1. Field(Fresh, "right") \in Reference /\ Field(Fresh, "right").node = Fresh
    BY <1>1 DEF Field, Reference, Link
  <2> DEFINE delims == {",", ")"}
  <2>2. "argument" \in CallBy /\ delims \in CallDelims /\ Fresh \in Nat
    BY <1>1 DEF CallBy, CallDelims
  <2> HIDE DEF delims
  <2>3. f = Call(Field(Fresh, "right"), delims, "argument", Fresh)
    BY DEF delims
  <2> HIDE DEF f
  <2> QED BY <2>1, <2>2, <2>3, CallFacts
<1>5. /\ stack' = Append(stack, f) /\ pos' = pos + 2 /\ ast' = Append(ast, node)
      /\ stream' = stream /\ status' = status
  BY DEF ReadFunctionCall, CallNode
<1>6. /\ node \in Node /\ node.type = "call" /\ \A l \in Link : node[l] \in Int /\ node[l] <= 0
  BY <1>2, CallNodeFacts DEF Null, Uninitialized
<1> HIDE DEF f, node
<1>7. /\ stack' \in Seq(Frame) /\ Len(stack') = m + 1 /\ DOMAIN stack' = 1 .. Len(stack')
      /\ stack'[Len(stack')] = f /\ \A j \in DOMAIN stack : Alike(stack'[j], stack[j])
  BY <1>2, <1>4, <1>5, FrameAppended
<1>8. /\ ast' \in Seq(Node) /\ Len(ast') = Fresh /\ DOMAIN ast' = 1 .. Len(ast')
      /\ DOMAIN ast' = DOMAIN ast \cup {Len(ast')} /\ ast'[Len(ast')] = node
      /\ \A x \in DOMAIN ast : ast'[x] = ast[x]
  BY <1>1, <1>2, <1>5, <1>6, AppendFacts
<1>9. Grown(ast, ast', Field(Fresh, "right"), Top.previous)
  <2>1. \A x \in DOMAIN ast, l \in Link : Field(x, l) # Field(Fresh, "right")
    BY <1>1 DEF Field
  <2>2. \A l \in Link : ast'[Len(ast')][l] \in Int /\ ~(ast'[Len(ast')][l] > 0)
    BY <1>6, <1>8
  <2> QED BY <1>1, <1>8, <2>1, <2>2 DEF Grown
<1>10. Shape(b, dead, ast', stack) /\ \A x \in DOMAIN ast', l \in Link : ast'[x][l] # Fresh
  <2> DEFINE ref == Field(Fresh, "right")
  <2>1. Loose(ast', ref) /\ ref \in Reference
    BY <1>4, <1>6, <1>8 DEF Loose
  <2>2. Grown(ast, ast', ref, stack[Len(stack)].previous)
    BY <1>1, <1>9
  <2> HIDE DEF ref
  <2>3. /\ Len(stack) \in Nat /\ DOMAIN stack = 1 .. Len(stack) /\ Len(stack) > 0
        /\ Len(ast) \in Nat /\ DOMAIN ast = 1 .. Len(ast)
    BY <1>1
  <2>4. /\ Shape(b, dead, ast', stack)
        /\ \A x \in DOMAIN ast', l \in Link : ast'[x][l] # Len(ast')
    BY <1>3, <2>1, <2>2, <2>3, ShapeAllocated
  <2> QED BY <1>8, <2>4
<1>11. Shape(Append(b, Len(ast')), dead, ast', stack')
  <2>1. b[m] \in DOMAIN ast /\ b[m] < Fresh /\ Fresh \in DOMAIN ast' \ dead
    BY <1>0, <1>1, <1>3, <1>8, TopShape
  <2>2. CallerOK(ast', b[m], stack[m], Len(ast'), f)
    BY <1>1, <1>4, <1>8, <1>10, <2>1 DEF CallerOK
  <2> QED BY <1>1, <1>4, <1>7, <1>8, <1>10, <2>1, <2>2, ShapePushed
<1>12. LabelsOK'
  <2>1. ast'[Len(ast')].type \notin BinaryOperator
    BY <1>6, <1>8 DEF BinaryOperator
  <2>2. /\ Len(ast') = Len(ast) + 1 /\ \A x \in DOMAIN ast :
             ast'[x].type = ast[x].type /\ ast'[x].token = ast[x].token
    BY <1>1, <1>8
  <2> QED BY <1>2, <1>5, <1>8, <2>1, <2>2, LabelsGrown
<1>13. TypeOK'
  BY <1>0, <1>2, <1>5, <1>7, <1>8, CurrentFacts DEF TypeOK
<1>14. \E e \in Seq(Nat), d \in SUBSET DOMAIN ast' : Shape(e, d, ast', stack')
  <2>1. Append(b, Len(ast')) \in Seq(Nat) /\ dead \in SUBSET DOMAIN ast'
    BY <1>1, <1>8
  <2> QED BY <1>11, <2>1
<1>15. ast' # <<>> /\ stack' # <<>>
  BY <1>1, <1>7, <1>8
<1> QED BY <1>12, <1>13, <1>14, <1>15 DEF IInv

\* An operator is stored where the expression goes, with what was there on its
\* left, and what follows goes on its right.
OperationOf(node, by) ==
  /\ OnLeft(node, Top.previous) /\ node["right"] = Null
  /\ node.type \in BinaryOperator =>
       node.token \in DOMAIN stream /\ stream[node.token] = node.type
  /\ by = "binary" => node.type \in BinaryOperator
LEMMA OperationStep ==
  ASSUME IInv, status = "parsing", Current # "eof",
         NEW node \in Node, NEW by \in {"unary", "binary"},
         OperationOf(node, by), Operation(node, by)
  PROVE  IInv'
<1> DEFINE m == Len(stack)
           d == WithPrevious(stack, Fresh)
           f == Call(Field(Fresh, "right"), Top.delims, by, Fresh)
<1>1. /\ m \in Nat /\ m > 0 /\ DOMAIN stack = 1 .. m /\ Top = stack[m] /\ Top \in Frame
      /\ Len(ast) \in Nat /\ DOMAIN ast = 1 .. Len(ast) /\ Fresh = Len(ast) + 1
      /\ Fresh \in Nat /\ Top.emplace \in Reference
  BY Now
<1>2. TypeOK /\ LabelsOK /\ stack \in Seq(Frame) /\ ast \in Seq(Node) /\ ast # <<>> /\ pos \in Nat
  BY DEF IInv, TypeOK
<1>3. PICK b \in Seq(Nat), dead \in SUBSET DOMAIN ast : Shape(b, dead, ast, stack)
  BY DEF IInv
<1>4. /\ f \in Frame /\ f.emplace = Field(Fresh, "right") /\ f.previous = Null
      /\ f.by = by /\ f.node = Fresh
      /\ f.emplace.node = Fresh /\ f.emplace \in Reference
  <2>1. Field(Fresh, "right") \in Reference /\ Field(Fresh, "right").node = Fresh
    BY <1>1 DEF Field, Reference, Link
  <2>2. by \in CallBy /\ Top.delims \in CallDelims /\ Fresh \in Nat
    BY <1>1, DelimsFacts DEF CallBy
  <2> QED BY <2>1, <2>2, CallFacts
<1>5. /\ stack' = Append(d, f) /\ pos' = pos + 1 /\ ast' = Linked(ast, node, Top.emplace)
      /\ stream' = stream /\ status' = status
  BY <1>1 DEF Operation, WithPrevious, Linked
<1> HIDE DEF f, d
<1>6. /\ ast' \in Seq(Node) /\ Grown(ast, ast', Top.emplace, Top.previous)
      /\ Len(ast') = Fresh
      /\ ast'[Fresh].type = node.type /\ ast'[Fresh].token = node.token
      /\ ast'[Fresh]["right"] = Null
      /\ \A x \in DOMAIN ast : ast'[x].type = ast[x].type /\ ast'[x].token = ast[x].token
  <2> DEFINE g == Linked(ast, node, Top.emplace)
  <2>0. OnLeft(node, Top.previous) /\ node["right"] = Null /\ "right" \in Link
    BY DEF OperationOf, Link
  <2>1. Top.emplace.node \in DOMAIN ast
    BY <1>3, TopShape
  <2>2. /\ g \in Seq(Node) /\ Grown(ast, g, Top.emplace, Top.previous)
        /\ g[Len(ast) + 1].type = node.type /\ g[Len(ast) + 1].token = node.token
        /\ \A l \in Link : g[Len(ast) + 1][l] = node[l]
        /\ \A x \in DOMAIN ast : g[x].type = ast[x].type /\ g[x].token = ast[x].token
    <3>1. ast \in Seq(Node) /\ Top.emplace \in Reference
      BY <1>1, <1>2
    <3> QED BY <2>0, <2>1, <3>1, GrownByStore
  <2>3. Len(g) = Len(ast) + 1
    BY <2>2 DEF Grown
  <2> HIDE DEF g
  <2>4. ast' = g
    BY <1>5 DEF g
  <2> QED BY <1>1, <2>0, <2>2, <2>3, <2>4
<1>7. DOMAIN ast' = DOMAIN ast \cup {Len(ast')} /\ DOMAIN ast' = 1 .. Len(ast')
  BY <1>6 DEF Grown
<1>8. /\ d \in Seq(Frame) /\ Len(d) = m /\ DOMAIN d = 1 .. Len(d)
      /\ Advanced(stack, d, Len(ast')) /\ d[m].previous = Fresh
  BY <1>1, <1>2, <1>6, PreviousStored DEF d
<1>9. PICK more \in SUBSET DOMAIN ast' : Shape(b, more, ast', d)
  <2>1. /\ Len(stack) \in Nat /\ DOMAIN stack = 1 .. Len(stack) /\ Len(stack) > 0
        /\ Len(ast) \in Nat /\ DOMAIN ast = 1 .. Len(ast)
        /\ stack[Len(stack)].emplace \in Reference
        /\ Grown(ast, ast', stack[Len(stack)].emplace, stack[Len(stack)].previous)
        /\ d[Len(stack)].previous = Len(ast')
    BY <1>1, <1>6, <1>8
  <2> QED BY <1>3, <1>8, <2>1, ShapeEmplaced
<1>10. /\ stack' \in Seq(Frame) /\ Len(stack') = m + 1 /\ DOMAIN stack' = 1 .. Len(stack')
       /\ stack'[Len(stack')] = f /\ \A j \in DOMAIN d : Alike(stack'[j], d[j])
  BY <1>4, <1>5, <1>8, FrameAppended
<1>11. Shape(Append(b, Len(ast')), more, ast', stack')
  <2>1. b[m] \in DOMAIN ast /\ b[m] < Fresh /\ m \in DOMAIN d /\ Fresh \in DOMAIN ast'
    BY <1>1, <1>3, <1>6, <1>7, <1>8, TopShape
  <2>2. Fresh \notin more
    BY <1>8, <1>9, <2>1 DEF Shape, AliveOK, TakenOK
  <2>3. CallerOK(ast', b[m], d[m], Len(ast'), f)
    <3>1. by = "binary" => ast'[Fresh].type \in BinaryOperator
      BY <1>6 DEF OperationOf
    <3> QED BY <1>4, <1>6, <1>8, <2>1, <3>1 DEF CallerOK
  <2>4. /\ Len(d) \in Nat /\ DOMAIN d = 1 .. Len(d) /\ Len(d) > 0
        /\ Len(ast') \in Nat /\ DOMAIN ast' = 1 .. Len(ast')
        /\ Len(stack') = Len(d) + 1 /\ DOMAIN stack' = 1 .. Len(stack')
        /\ stack'[Len(stack')] = f /\ \A j \in DOMAIN d : Alike(stack'[j], d[j])
    BY <1>1, <1>6, <1>7, <1>8, <1>10
  <2>5. /\ f.previous = Null /\ f.by # "owner"
        /\ f.emplace.node \in DOMAIN ast' \ more /\ f.node \in DOMAIN ast' \ more
        /\ f.emplace.node > b[Len(d)]
        /\ CallerOK(ast', b[Len(d)], d[Len(d)], Len(ast'), f)
    BY <1>1, <1>4, <1>8, <2>1, <2>2, <2>3
  <2> QED BY <1>9, <2>4, <2>5, ShapePushed
<1>12. LabelsOK'
  <2>1. /\ Len(ast') = Len(ast) + 1
        /\ ast'[Len(ast')].type = node.type /\ ast'[Len(ast')].token = node.token
    BY <1>1, <1>6
  <2> QED BY <1>2, <1>5, <1>6, <1>7, <2>1, LabelsGrown DEF OperationOf
<1>13. TypeOK'
  BY <1>2, <1>5, <1>6, <1>10, PosAdvanced DEF TypeOK
<1>14. \E e \in Seq(Nat), a \in SUBSET DOMAIN ast' : Shape(e, a, ast', stack')
  <2>1. Append(b, Len(ast')) \in Seq(Nat)
    BY <1>1, <1>6
  <2> QED BY <1>11, <2>1
<1>15. ast' # <<>> /\ stack' # <<>>
  BY <1>1, <1>6, <1>10
<1> QED BY <1>12, <1>13, <1>14, <1>15 DEF IInv

LEMMA BinaryOperatorStep ==
  ASSUME IInv, ReadBinaryOperator
  PROVE  IInv'
<1> DEFINE node == BinaryNode(Current, pos, Top.previous)
<1>1. /\ status = "parsing" /\ Current \in BinaryOperator /\ Current # "eof"
      /\ Top.previous # Null
  BY DEF ReadBinaryOperator, Binary, Reading, BinaryOperator
<1>2. TypeOK /\ pos \in Nat /\ Top.previous \in Nat
  <2>1. Top \in Frame
    BY <1>1, Now
  <2>2. Top.previous \in Nat
    BY <2>1 DEF Frame
  <2>3. TypeOK
    BY DEF IInv
  <2> QED BY <2>2, <2>3 DEF TypeOK
<1>3. /\ Current \in NodeType /\ pos \in DOMAIN stream /\ stream[pos] = Current
  BY <1>1, <1>2, CurrentFacts DEF NodeType
<1>4. /\ node \in Node /\ node.type = Current /\ node.token = pos
      /\ \A l \in Link : node[l] = IF l = "left" THEN Top.previous ELSE Null
  BY <1>2, <1>3, BinaryNodeFacts
<1>5. Operation(node, "binary")
  BY DEF ReadBinaryOperator, BinaryNode
<1> HIDE DEF node
<1>6. OperationOf(node, "binary")
  BY <1>1, <1>3, <1>4 DEF OperationOf, OnLeft, Link, Null
<1> QED BY <1>1, <1>4, <1>5, <1>6, OperationStep

LEMMA UnaryOperatorStep ==
  ASSUME IInv, ReadUnaryOperator
  PROVE  IInv'
<1> DEFINE type == IF Current = "-" THEN "negative" ELSE "address_of"
           node == NewNode(type, pos)
<1>1. status = "parsing" /\ Current # "eof"
  BY DEF ReadUnaryOperator, Unary, Reading
<1>2. pos \in Nat
  BY DEF IInv, TypeOK
<1>3. type \in NodeType /\ type \notin BinaryOperator
  BY DEF NodeType, BinaryOperator
<1>5. Operation(node, "unary")
  BY DEF ReadUnaryOperator
<1> HIDE DEF type
<1>4. /\ node \in Node /\ node.type = type /\ \A l \in Link : node[l] = Null
  BY <1>2, <1>3, NewNodeFacts
<1> HIDE DEF node
<1>6. OperationOf(node, "unary")
  BY <1>3, <1>4 DEF OperationOf, OnLeft, Link, Null
<1> QED BY <1>1, <1>4, <1>5, <1>6, OperationStep

LEMMA ReturnToOwnerStep ==
  ASSUME IInv, status = "parsing", ReturnToOwner, stream' = stream,
         pos' \in 1 .. Len(stream) + 1
  PROVE  IInv'
<1>1. TypeOK /\ LabelsOK /\ ast # <<>>
  BY DEF IInv
<1>2. PICK b \in Seq(Nat), dead \in SUBSET DOMAIN ast : Shape(b, dead, ast, stack)
  BY DEF IInv
<1>3. status' = "done" /\ stack' = <<>> /\ ast' = ast
  BY DEF ReturnToOwner
<1>4. Shape(<<>>, dead, ast', stack')
  <2>1. stack' = <<>> /\ DOMAIN stack' = {} /\ Len(stack') = 0
        /\ <<>> \in Seq(Nat) /\ ast' = ast
    BY <1>3
  <2>2. BasesOK(<<>>, ast, stack')
    BY <2>1 DEF BasesOK
  <2>3. KindsOK(<<>>, ast, stack')
    BY <2>1 DEF KindsOK
  <2>4. LinksOK(<<>>, ast, stack')
    BY <1>2, <2>1 DEF LinksOK, Shape
  <2>5. AliveOK(dead, <<>>, ast, stack')
    BY <1>2, <2>1 DEF AliveOK, Shape
  <2> QED BY <2>1, <2>2, <2>3, <2>4, <2>5 DEF Shape
<1>5. TypeOK'
  BY <1>1, <1>3 DEF TypeOK
<1>6. LabelsOK'
  BY <1>1, <1>3 DEF LabelsOK
<1>7. \E e \in Seq(Nat), d \in SUBSET DOMAIN ast' : Shape(e, d, ast', stack')
  <2>1. <<>> \in Seq(Nat) /\ dead \in SUBSET DOMAIN ast'
    BY <1>3
  <2> QED BY <1>4, <2>1, Zenon
<1> QED BY <1>1, <1>3, <1>5, <1>6, <1>7 DEF IInv

\* The frame under one that returns.
LEMMA Under ==
  ASSUME IInv, status = "parsing", Top.by # "owner",
         NEW b, NEW dead, Shape(b, dead, ast, stack)
  PROVE  /\ Len(stack) > 1
         /\ CallerOK(ast, b[Len(stack) - 1], stack[Len(stack) - 1],
                     b[Len(stack)], stack[Len(stack)])
<1> DEFINE m == Len(stack)
<1>1. m \in Nat /\ m > 0 /\ DOMAIN stack = 1 .. m /\ Top = stack[m]
  BY Now
<1>2. m # 1
  BY <1>1 DEF Shape, KindsOK
<1>3. m \in DOMAIN stack \ {1} /\ m > 1
  BY <1>1, <1>2
<1>4. \A j \in DOMAIN stack \ {1} :
         CallerOK(ast, b[j - 1], stack[j - 1], b[j], stack[j])
  BY DEF Shape, KindsOK
<1> QED BY <1>3, <1>4

LEMMA ReturnToParenthesisStep ==
  ASSUME IInv, status = "parsing", Top.by = "parenthesis", ReturnToParenthesis,
         stream' = stream, pos' \in 1 .. Len(stream) + 1
  PROVE  IInv'
<1> DEFINE m == Len(stack)
           c == Front(stack)
           f == [c[m - 1] EXCEPT !.scoped = TRUE]
<1>1. /\ m \in Nat /\ m > 0 /\ DOMAIN stack = 1 .. m
      /\ Len(ast) \in Nat /\ DOMAIN ast = 1 .. Len(ast)
      /\ c \in Seq(Frame) /\ Len(c) = m - 1 /\ DOMAIN c = 1 .. m - 1
      /\ \A j \in 1 .. m - 1 : c[j] = stack[j]
  BY Now, Zenon
<1>2. TypeOK /\ LabelsOK /\ ast # <<>>
  BY DEF IInv
<1>3. PICK b \in Seq(Nat), dead \in SUBSET DOMAIN ast : Shape(b, dead, ast, stack)
  BY DEF IInv
<1>4. m > 1
  BY <1>3, Under
<1>5. ast' = ast /\ status' = status /\ stack' = [c EXCEPT ![m - 1].scoped = TRUE]
  BY DEF ReturnToParenthesis
<1> HIDE DEF c
<1>6. c[m - 1] \in Frame /\ m - 1 \in DOMAIN c
  BY <1>1, <1>4
<1>7. f \in Frame /\ Alike(f, c[m - 1])
  BY <1>6 DEF Frame, Alike
<1>8. stack' = [c EXCEPT ![m - 1] = f]
  BY <1>5
<1> HIDE DEF f
<1>9. /\ stack' \in Seq(Frame) /\ Len(stack') = m - 1 /\ DOMAIN stack' = 1 .. m - 1
      /\ \A j \in DOMAIN stack' : Alike(stack'[j], c[j])
  <2>1. /\ stack' \in Seq(Frame) /\ Len(stack') = m - 1 /\ DOMAIN stack' = 1 .. m - 1
        /\ stack'[m - 1] = f /\ \A j \in DOMAIN c : j # m - 1 => stack'[j] = c[j]
    <3>1. \A s \in Seq(Frame), i \in Nat, g \in Frame : i \in DOMAIN s =>
            LET t == [s EXCEPT ![i] = g]
            IN  /\ t \in Seq(Frame) /\ Len(t) = Len(s) /\ DOMAIN t = DOMAIN s
                /\ t[i] = g /\ \A j \in DOMAIN s : j # i => t[j] = s[j]
      OBVIOUS
    <3>2. c \in Seq(Frame) /\ m - 1 \in Nat /\ m - 1 \in DOMAIN c /\ f \in Frame
      BY <1>1, <1>6, <1>7
    <3> DEFINE t == [c EXCEPT ![m - 1] = f]
    <3>3. /\ t \in Seq(Frame) /\ Len(t) = Len(c) /\ DOMAIN t = DOMAIN c
          /\ t[m - 1] = f /\ \A j \in DOMAIN c : j # m - 1 => t[j] = c[j]
      BY <3>1, <3>2
    <3>4. stack' = t
      BY <1>8
    <3> HIDE DEF t
    <3> QED BY <1>1, <3>3, <3>4, Zenon
  <2> QED BY <1>1, <1>7, <2>1, Zenon DEF Alike
<1>10. Shape(Front(b), dead, ast, stack')
  <2>1. \A j \in DOMAIN stack' : Alike(stack'[j], stack[j])
    BY <1>1, <1>9
  <2>2. Len(stack') = Len(stack) - 1 /\ DOMAIN stack' = 1 .. Len(stack')
    BY <1>9
  <2> QED BY <1>1, <1>3, <1>4, <2>1, <2>2, ShapePopped
<1>11. \E e \in Seq(Nat), d \in SUBSET DOMAIN ast' : Shape(e, d, ast', stack')
  <2>1. Front(b) \in Seq(Nat)
    BY <1>10 DEF Shape, BasesOK
  <2> QED BY <1>5, <1>10, <2>1
<1>12. TypeOK'
  BY <1>2, <1>5, <1>9 DEF TypeOK
<1>13. LabelsOK'
  BY <1>2, <1>5 DEF LabelsOK
<1>14. ast' # <<>> /\ stack' # <<>>
  BY <1>2, <1>1, <1>4, <1>5, <1>9
<1> QED BY <1>11, <1>12, <1>13, <1>14, Zenon DEF IInv

LEMMA FrontPopped ==
  ASSUME IInv, status = "parsing", Top.by # "owner",
         NEW b, NEW dead, Shape(b, dead, ast, stack)
  PROVE  Shape(Front(b), dead, ast, Front(stack))
<1> DEFINE c == Front(stack)
<1>1. /\ Len(stack) \in Nat /\ DOMAIN stack = 1 .. Len(stack) /\ Len(ast) \in Nat
      /\ Len(c) = Len(stack) - 1 /\ DOMAIN c = 1 .. Len(stack) - 1
      /\ \A j \in 1 .. Len(stack) - 1 : c[j] = stack[j]
  BY Now, Zenon
<1>2. Len(stack) > 1
  BY Under
<1> HIDE DEF c
<1>3. DOMAIN c = 1 .. Len(c) /\ \A j \in DOMAIN c : Alike(c[j], stack[j])
  BY <1>1 DEF Alike
<1>4. Shape(Front(b), dead, ast, c)
  BY <1>1, <1>2, <1>3, ShapePopped
<1> QED BY <1>4, Zenon DEF c

LEMMA ReturnToUnaryStep ==
  ASSUME IInv, status = "parsing", Top.by # "owner",
         stack' = Front(stack), ast' = ast, status' = status,
         stream' = stream, pos' \in 1 .. Len(stream) + 1
  PROVE  IInv'
<1>1. TypeOK /\ LabelsOK /\ ast # <<>>
  BY DEF IInv
<1>2. PICK b \in Seq(Nat), dead \in SUBSET DOMAIN ast : Shape(b, dead, ast, stack)
  BY DEF IInv
<1>3. Len(stack) > 1 /\ Shape(Front(b), dead, ast, Front(stack))
  BY <1>2, Under, FrontPopped, Zenon
<1>4. /\ Front(stack) \in Seq(Frame) /\ Len(Front(stack)) = Len(stack) - 1
      /\ Len(stack) \in Nat
  BY Now, Zenon
<1>5. stack' \in Seq(Frame) /\ stack' # <<>>
  BY <1>3, <1>4
<1>6. \E e \in Seq(Nat), d \in SUBSET DOMAIN ast' : Shape(e, d, ast', stack')
  <2>1. Front(b) \in Seq(Nat)
    BY <1>3 DEF Shape, BasesOK
  <2> QED BY <1>3, <2>1
<1>7. TypeOK'
  BY <1>1, <1>5 DEF TypeOK
<1>8. LabelsOK'
  BY <1>1 DEF LabelsOK
<1> QED BY <1>1, <1>5, <1>6, <1>7, <1>8 DEF IInv

LEMMA ReturnToBinaryStep ==
  ASSUME IInv, status = "parsing", Top.by = "binary", ReturnToBinary,
         stream' = stream, pos' \in 1 .. Len(stream) + 1
  PROVE  IInv'
<1> DEFINE n == Top.node
           r == ast[n].right
           m == Len(stack)
<1>1. \/ ast' = ast
      \/ IsBinaryOperator(ast, r) /\ ast' = Rotated(ast, n, r)
  BY DEF ReturnToBinary, FixOperationsOrder
<1>2. stack' = Front(stack) /\ status' = status
  BY DEF ReturnToBinary
<1>3. CASE ast' = ast
  BY <1>2, <1>3, ReturnToUnaryStep
<1>4. CASE IsBinaryOperator(ast, r) /\ ast' = Rotated(ast, n, r)
  <2>1. /\ m \in Nat /\ m > 0 /\ DOMAIN stack = 1 .. m
        /\ Top = stack[m] /\ Len(ast) \in Nat /\ DOMAIN ast = 1 .. Len(ast)
        /\ Front(stack) \in Seq(Frame) /\ Len(Front(stack)) = m - 1
        /\ DOMAIN Front(stack) = 1 .. m - 1
        /\ \A j \in 1 .. m - 1 : Front(stack)[j] = stack[j]
    BY Now, Zenon
  <2>2. TypeOK /\ LabelsOK /\ ast \in Seq(Node) /\ stream \in Seq(Token)
    BY DEF IInv, TypeOK
  <2>3. PICK b \in Seq(Nat), dead \in SUBSET DOMAIN ast : Shape(b, dead, ast, stack)
    BY DEF IInv
  <2>4. m > 1 /\ CallerOK(ast, b[m - 1], stack[m - 1], b[m], stack[m])
    BY <2>3, Under
  <2>5. Shape(Front(b), dead, ast, Front(stack))
    BY <2>3, FrontPopped
  <2>6. n \in DOMAIN ast
    BY <2>3, TopShape
  <2>7. r = ast[n]["right"] /\ r # Null /\ ast[r].type \in BinaryOperator
    BY <1>4, <2>2, <2>6, FieldsOfANode DEF IsBinaryOperator
  <2>8. /\ b[m] = n /\ ast[n].type \in BinaryOperator
        /\ ast[n]["right"] = Null \/ ast[n]["right"] > b[m]
        /\ stack[m - 1].previous = n
    BY <2>1, <2>4 DEF CallerOK
  <2>9. r \in DOMAIN ast /\ n # r /\ n # Null
    <3>1. "right" \in Link
      BY DEF Link
    <3>2. r \in Int /\ r <= Len(ast)
      BY <2>3, <2>6, <2>7, <3>1 DEF Shape, LinksOK
    <3> QED BY <2>1, <2>6, <2>7, <2>8, <3>2 DEF Null
  <2> HIDE DEF n, r
  <2>10. Swapped(ast, ast', n, r)
    BY <1>4, <2>2, <2>6, <2>7, <2>9, RotatedIsSwapped
  <2>11. Shape(Front(b), dead, ast', Front(stack))
    <3> DEFINE c == Front(stack)
    <3>1. Len(c) \in Nat /\ Len(c) > 0 /\ DOMAIN c = 1 .. Len(c) /\ c[Len(c)].previous = n
      BY <2>1, <2>4, <2>8
    <3>2. Len(ast) \in Nat /\ DOMAIN ast = 1 .. Len(ast)
      BY <2>1
    <3> HIDE DEF c
    <3>3. Shape(Front(b), dead, ast, c)
      BY <2>5 DEF c
    <3>4. Shape(Front(b), dead, ast', c)
      BY <2>7, <2>8, <2>9, <2>10, <3>1, <3>2, <3>3, ShapeRotated
    <3> QED BY <3>4 DEF c
  <2>12. /\ ast' \in Seq(Node) /\ Len(ast') = Len(ast) /\ DOMAIN ast' = DOMAIN ast
         /\ \A x \in DOMAIN ast \ {n, r} : ast'[x] = ast[x]
         /\ ast'[n].type = ast[r].type /\ ast'[n].token = ast[r].token
         /\ ast'[r].type = ast[n].type /\ ast'[r].token = ast[n].token
    <3> DEFINE g == Rotated(ast, n, r)
    <3>1. /\ g \in Seq(Node) /\ Len(g) = Len(ast)
          /\ \A x \in DOMAIN ast \ {n, r} : g[x] = ast[x]
          /\ g[n].type = ast[r].type /\ g[n].token = ast[r].token
          /\ g[r].type = ast[n].type /\ g[r].token = ast[n].token
      BY <2>2, <2>6, <2>9, RotatedFacts
    <3>2. DOMAIN ast' = DOMAIN ast
      BY <2>10 DEF Swapped
    <3> QED BY <1>4, <3>1, <3>2
  <2>13. stack' \in Seq(Frame) /\ stack' # <<>>
    BY <1>2, <2>1, <2>4
  <2>14. TypeOK'
    BY <1>2, <2>2, <2>12, <2>13 DEF TypeOK
  <2>15. LabelsOK'
    <3> SUFFICES ASSUME NEW x \in DOMAIN ast, ast'[x].type \in BinaryOperator
                 PROVE  /\ ast'[x].token \in DOMAIN stream
                        /\ stream[ast'[x].token] = ast'[x].type
      BY <2>12 DEF LabelsOK
    <3>1. \A z \in DOMAIN ast : ast[z].type \in BinaryOperator =>
             ast[z].token \in DOMAIN stream /\ stream[ast[z].token] = ast[z].type
      BY <2>2 DEF LabelsOK
    <3>2. CASE x \notin {n, r}
      BY <2>12, <3>1, <3>2
    <3>3. CASE x = n
      BY <2>7, <2>9, <2>12, <3>1, <3>3
    <3>4. CASE x = r
      BY <2>6, <2>8, <2>12, <3>1, <3>4
    <3> QED BY <3>2, <3>3, <3>4
  <2>16. \E e \in Seq(Nat), d \in SUBSET DOMAIN ast' : Shape(e, d, ast', stack')
    <3>1. Front(b) \in Seq(Nat) /\ dead \in SUBSET DOMAIN ast'
      BY <2>11, <2>12 DEF Shape, BasesOK
    <3> QED BY <1>2, <2>11, <3>1
  <2>17. ast' # <<>>
    BY <2>6, <2>12
  <2> QED BY <2>13, <2>14, <2>15, <2>16, <2>17, Zenon DEF IInv
<1> QED BY <1>1, <1>3, <1>4

\* The loop ends with the call that runs it.
LEMMA ReturnStep ==
  ASSUME IInv, status = "parsing", Return, stream' = stream,
         pos' \in 1 .. Len(stream) + 1
  PROVE  IInv'
<1>1. CASE Top.by = "owner" /\ ReturnToOwner
  BY <1>1, ReturnToOwnerStep
<1>2. CASE Top.by = "parenthesis" /\ ReturnToParenthesis
  BY <1>2, ReturnToParenthesisStep
<1>3. CASE Top.by = "unary" /\ ReturnToUnary
  BY <1>3, ReturnToUnaryStep DEF ReturnToUnary
<1>4. CASE Top.by = "binary" /\ ReturnToBinary
  BY <1>4, ReturnToBinaryStep
<1> QED BY <1>1, <1>2, <1>3, <1>4 DEF Return

\* Two heaps with the same links.
SameLinks(h, g) ==
  /\ Len(g) = Len(h) /\ DOMAIN g = DOMAIN h
  /\ \A x \in DOMAIN h, l \in Link : g[x][l] = h[x][l]
  /\ \A x \in DOMAIN h : g[x].type = h[x].type /\ g[x].token = h[x].token
LEMMA ShapeSameLinks ==
  ASSUME NEW b, NEW dead, NEW h, NEW c, NEW g, Shape(b, dead, h, c), SameLinks(h, g),
         Len(h) \in Nat, DOMAIN h = 1 .. Len(h), DOMAIN c = 1 .. Len(c)
  PROVE  Shape(b, dead, g, c)
<1>1. /\ Len(g) = Len(h) /\ DOMAIN g = DOMAIN h /\ "right" \in Link
      /\ \A x \in DOMAIN h, l \in Link : g[x][l] = h[x][l]
      /\ \A x \in DOMAIN h : g[x].type = h[x].type
  BY DEF SameLinks, Link
<1>2. BasesOK(b, g, c)
  BY <1>1 DEF Shape, BasesOK, PlaceOK
<1>3. KindsOK(b, g, c)
  <2>1. ASSUME NEW j \in DOMAIN c \ {1}
        PROVE  CallerOK(g, b[j - 1], c[j - 1], b[j], c[j])
    <3>1. CallerOK(h, b[j - 1], c[j - 1], b[j], c[j])
      BY DEF Shape, KindsOK
    <3>2. c[j].node \in DOMAIN h
      BY DEF Shape, BasesOK, PlaceOK
    <3> QED BY <1>1, <3>1, <3>2 DEF CallerOK
  <2> QED BY <2>1 DEF Shape, KindsOK
<1>4. LinksOK(b, g, c)
  BY <1>1 DEF Shape, LinksOK
<1>5. AliveOK(dead, b, g, c)
  <2>1. dead \subseteq DOMAIN h
    BY DEF Shape, AliveOK
  <2>2. /\ dead \subseteq DOMAIN g \ {Owner}
        /\ \A x \in DOMAIN g \ dead, l \in Link : g[x][l] \notin dead
        /\ \A x, z \in DOMAIN g \ dead, l, k \in Link :
             g[x][l] = g[z][k] /\ g[x][l] > 0 => x = z /\ l = k
    BY <1>1 DEF Shape, AliveOK
  <2>3. ASSUME NEW j \in DOMAIN c PROVE TakenOK(dead, b[j], g, c[j])
    <3>1. TakenOK(dead, b[j], h, c[j]) /\ PlaceOK(b[j], h, c[j])
      BY DEF Shape, AliveOK, BasesOK
    <3>2. c[j].previous # Null => c[j].previous \in DOMAIN h
      BY <3>1 DEF PlaceOK
    <3> QED BY <1>1, <3>1, <3>2 DEF TakenOK
  <2> QED BY <2>2, <2>3 DEF AliveOK
<1> QED BY <1>2, <1>3, <1>4, <1>5 DEF Shape

LEMMA CountedFacts ==
  ASSUME ast \in Seq(Node), Top.node \in DOMAIN ast
  PROVE  /\ Counted \in Seq(Node) /\ SameLinks(ast, Counted)
         /\ \A x \in DOMAIN ast : Counted[x].nb_arguments =
              IF x = Top.node THEN ast[x].nb_arguments + 1 ELSE ast[x].nb_arguments
<1> DEFINE n == Top.node
           v == [ast[n] EXCEPT !.nb_arguments = @ + 1]
<1>1. ast[n] \in Node
  OBVIOUS
<1>2. /\ v \in Node /\ v.type = ast[n].type /\ v.token = ast[n].token
      /\ v.left = ast[n].left /\ v.right = ast[n].right /\ v.sibling = ast[n].sibling
      /\ v.nb_arguments = ast[n].nb_arguments + 1
  BY <1>1, SMTT(30) DEF Node
<1>3. Counted = [ast EXCEPT ![n] = v]
  BY DEF Counted
<1> HIDE DEF v, n
<1>4. \A l \in Link : v[l] = ast[n][l]
  BY <1>1, <1>2, FieldsOfANode DEF Link
<1>5. /\ Counted \in Seq(Node) /\ Len(Counted) = Len(ast) /\ DOMAIN Counted = DOMAIN ast
      /\ Counted[n] = v /\ \A x \in DOMAIN ast : x # n => Counted[x] = ast[x]
  BY <1>2, <1>3 DEF n
<1>6. SameLinks(ast, Counted)
  <2>1. /\ \A x \in DOMAIN ast, l \in Link : Counted[x][l] = ast[x][l]
        /\ \A x \in DOMAIN ast : /\ Counted[x].type = ast[x].type
                                 /\ Counted[x].token = ast[x].token
    BY <1>2, <1>4, <1>5
  <2> QED BY <1>5, <2>1 DEF SameLinks
<1>7. \A x \in DOMAIN ast : Counted[x].nb_arguments =
         IF x = n THEN ast[x].nb_arguments + 1 ELSE ast[x].nb_arguments
  BY <1>2, <1>5
<1> QED BY <1>5, <1>6, <1>7 DEF n

LEMMA LastArgumentStep ==
  ASSUME IInv, status = "parsing", Top.by = "argument", LastArgument,
         stream' = stream, pos' \in 1 .. Len(stream) + 1
  PROVE  IInv'
<1> DEFINE m == Len(stack)
           c == Front(stack)
           n == Top.node
           h == Counted
<1>1. /\ m \in Nat /\ m > 0 /\ DOMAIN stack = 1 .. m
      /\ Top = stack[m] /\ Len(ast) \in Nat /\ DOMAIN ast = 1 .. Len(ast)
      /\ c \in Seq(Frame) /\ Len(c) = m - 1 /\ DOMAIN c = 1 .. m - 1
      /\ \A j \in 1 .. m - 1 : c[j] = stack[j]
  BY Now, Zenon
<1>2. TypeOK /\ LabelsOK /\ ast \in Seq(Node)
  BY DEF IInv, TypeOK
<1>3. PICK b \in Seq(Nat), dead \in SUBSET DOMAIN ast : Shape(b, dead, ast, stack)
  BY DEF IInv
<1>4. m > 1 /\ CallerOK(ast, b[m - 1], stack[m - 1], b[m], stack[m])
  BY <1>3, Under
<1>5. n \in DOMAIN ast \ dead /\ Len(b) = m /\ b \in Seq(Nat)
  BY <1>3, TopShape
<1>6. h \in Seq(Node) /\ SameLinks(ast, h)
  BY <1>2, <1>5, CountedFacts
<1>7. n > b[m - 1] /\ \A x \in DOMAIN ast, l \in Link : ast[x][l] # n
  BY <1>1, <1>4 DEF CallerOK
<1>8. stack' = c /\ ast' = Store(h, Last(c).emplace, n) /\ status' = status
  BY DEF LastArgument
<1>9. c[m - 1] \in Frame /\ Last(c) = c[m - 1] /\ c # <<>>
  BY <1>1, <1>4 DEF Last
<1>10. Shape(Front(b), dead, ast, c)
  BY <1>3, FrontPopped
<1> HIDE DEF h, c, n
<1>11. DOMAIN c = 1 .. Len(c) /\ Len(c) \in Nat /\ Len(c) > 0
  BY <1>1, <1>4
<1>12. /\ Shape(Front(b), dead, h, c) /\ Len(h) = Len(ast) /\ DOMAIN h = DOMAIN ast
       /\ \A x \in DOMAIN h, l \in Link : h[x][l] # n
  BY <1>1, <1>6, <1>7, <1>10, <1>11, ShapeSameLinks DEF SameLinks
<1>13. Front(b)[m - 1] = b[m - 1] /\ Front(b) \in Seq(Nat)
  <2>1. Front(b) = [j \in 1 .. m - 1 |-> b[j]]
    BY <1>5 DEF Front
  <2>2. Front(b) \in Seq(Nat)
    BY <1>10 DEF Shape, BasesOK
  <2> QED BY <1>1, <1>4, <2>1, <2>2
<1> DEFINE ref == c[Len(c)].emplace
<1>14. ref \in Reference /\ ref.node \in DOMAIN h /\ ref.field \in Link
  <2>1. ref \in Reference /\ ref.field \in Link
    BY <1>1, <1>9 DEF Frame, Reference, Link
  <2>2. PlaceOK(Front(b)[Len(c)], h, c[Len(c)])
    BY <1>11, <1>12 DEF Shape, BasesOK
  <2>3. DOMAIN h = 1 .. Len(h) /\ Len(h) \in Nat
    BY <1>1, <1>12
  <2> QED BY <2>1, <2>2, <2>3 DEF PlaceOK
<1>15. n \in Pointer /\ n \in DOMAIN h \ dead
  BY <1>1, <1>5, <1>12 DEF Pointer
<1>16. ast' = Store(h, ref, n)
  BY <1>1, <1>8, <1>9
<1> HIDE DEF ref
<1>17. /\ ast' \in Seq(Node) /\ Len(ast') = Len(h)
       /\ \A x \in DOMAIN h, f \in Link :
            ast'[x][f] = IF x = ref.node /\ f = ref.field THEN n ELSE h[x][f]
       /\ \A x \in DOMAIN h : ast'[x].type = h[x].type /\ ast'[x].token = h[x].token
  BY <1>6, <1>14, <1>15, <1>16, StoreFacts
<1>18. DOMAIN ast' = DOMAIN h
  <2>1. \A s \in Seq(Node) : DOMAIN s = 1 .. Len(s)
    OBVIOUS
  <2> QED BY <1>6, <1>17, <2>1
<1>19. Shape(Front(b), dead, ast', c)
  <2>1. \A x \in DOMAIN h, l \in Link :
           ast'[x][l] = IF Field(x, l) = ref THEN n ELSE h[x][l]
    <3>1. \A x \in DOMAIN h : x \in Nat
      BY <1>1, <1>12
    <3> QED BY <1>14, <1>17, <3>1, FieldFacts
  <2>2. Len(h) \in Nat /\ DOMAIN h = 1 .. Len(h) /\ n > Front(b)[Len(c)]
    BY <1>1, <1>7, <1>12, <1>13
  <2>3. Attached(h, ast', ref, n)
    BY <1>12, <1>17, <1>18, <2>1 DEF Attached
  <2>4. Shape(Front(b), dead, h, c)
    BY <1>12
  <2> QED BY <1>11, <1>14, <1>15, <2>2, <2>3, <2>4, ShapeAttached DEF ref
<1>20. \E e \in Seq(Nat), d \in SUBSET DOMAIN ast' : Shape(e, d, ast', stack')
  BY <1>8, <1>12, <1>13, <1>18, <1>19
<1>21. TypeOK'
  BY <1>1, <1>2, <1>8, <1>17 DEF TypeOK
<1>22. LabelsOK'
  BY <1>2, <1>6, <1>12, <1>17, <1>18 DEF LabelsOK, SameLinks
<1>23. ast' # <<>> /\ stack' # <<>>
  BY <1>5, <1>8, <1>9, <1>12, <1>18
<1> QED BY <1>20, <1>21, <1>22, <1>23 DEF IInv

LEMMA NextArgumentStep ==
  ASSUME IInv, status = "parsing", Top.by = "argument", NextArgument,
         stream' = stream, pos' \in 1 .. Len(stream) + 1
  PROVE  IInv'
<1> DEFINE m == Len(stack)
           c == Front(stack)
           n == Top.node
           y == Argument
           f == Call(Field(y, "sibling"), Top.delims, "argument", n)
<1>1. /\ m \in Nat /\ m > 0 /\ DOMAIN stack = 1 .. m
      /\ Top = stack[m] /\ Top \in Frame /\ Top.emplace.field \in Link
      /\ Len(ast) \in Nat /\ DOMAIN ast = 1 .. Len(ast)
      /\ c \in Seq(Frame) /\ Len(c) = m - 1 /\ DOMAIN c = 1 .. m - 1
      /\ \A j \in 1 .. m - 1 : c[j] = stack[j]
  BY Now, Zenon
<1>2. TypeOK /\ LabelsOK /\ ast \in Seq(Node) /\ stack \in Seq(Frame) /\ stack # <<>>
  BY DEF IInv, TypeOK
<1>3. PICK b \in Seq(Nat), dead \in SUBSET DOMAIN ast : Shape(b, dead, ast, stack)
  BY DEF IInv
<1>4. m > 1 /\ CallerOK(ast, b[m - 1], stack[m - 1], b[m], stack[m])
  BY <1>3, Under
<1>5. n \in DOMAIN ast \ dead /\ Len(b) = m /\ b \in Seq(Nat)
      /\ Top.emplace.node \in DOMAIN ast \ dead
  BY <1>3, TopShape
<1>6. ast' \in Seq(Node) /\ SameLinks(ast, ast')
  BY <1>2, <1>5, CountedFacts DEF NextArgument
<1>7. Len(ast') = Len(ast) /\ DOMAIN ast' = DOMAIN ast
  BY <1>6 DEF SameLinks
<1>8. LabelsOK'
  BY <1>2, <1>6 DEF LabelsOK, SameLinks
<1>9. ast' # <<>>
  BY <1>5, <1>7
<1>10. CASE y \in {Null, Uninitialized}
  <2>1. status' = "undefined" /\ stack' = stack
    BY <1>10 DEF NextArgument
  <2>2. TypeOK'
    BY <1>2, <1>6, <2>1 DEF TypeOK
  <2>3. Shape(b, dead, ast', stack')
    BY <1>1, <1>3, <1>6, <2>1, ShapeSameLinks
  <2>4. \E e \in Seq(Nat), d \in SUBSET DOMAIN ast' : Shape(e, d, ast', stack')
    BY <1>7, <2>3
  <2> QED BY <1>8, <1>9, <2>1, <2>2, <2>4 DEF IInv
<1>11. CASE y \notin {Null, Uninitialized}
  <2>1. status' = status /\ stack' = Append(c, f)
    BY <1>11 DEF NextArgument
  <2>2. /\ y \in DOMAIN ast \ dead /\ y > b[m - 1]
    <3> DEFINE x == Top.emplace.node
               l == Top.emplace.field
    <3>0. y = ast[x][l]
      BY DEF Argument, At
    <3>1. ast[x] \in Node /\ x \in DOMAIN ast \ dead /\ l \in Link
      BY <1>1, <1>2, <1>5
    <3>2. y \in Nat /\ y # 0
      BY <1>11, <3>0, <3>1, FieldsOfANode DEF Pointer, Null
    <3>3. x > b[m - 1]
      BY <1>1, <1>4 DEF CallerOK
    <3> HIDE DEF x, l, y
    <3>4. y <= Len(ast) /\ y \notin dead
      BY <1>3, <3>0, <3>1 DEF Shape, LinksOK, AliveOK
    <3>5. m - 1 \in DOMAIN stack
      BY <1>1, <1>4
    <3>6. LinkOK(b[m - 1], stack[m - 1], x, l, ast[x][l])
      BY <1>3, <3>1, <3>5 DEF Shape, LinksOK
    <3>7. b[m - 1] < y
      BY <3>0, <3>2, <3>3, <3>6 DEF LinkOK
    <3>8. b[m - 1] \in Nat
      BY <1>1, <1>5, <3>5
    <3> QED BY <1>1, <3>2, <3>4, <3>7, <3>8
  <2>3. /\ f \in Frame /\ f.emplace = Field(y, "sibling") /\ f.previous = Null
        /\ f.by = "argument" /\ f.node = n /\ f.emplace.node = y
    <3>1. y \in Nat
      BY <1>1, <2>2
    <3>2. Field(y, "sibling") \in Reference /\ Field(y, "sibling").node = y
      BY <3>1 DEF Field, Reference, Link
    <3>3. Top.delims \in CallDelims
      BY <1>1, DelimsFacts
    <3>4. "argument" \in CallBy /\ n \in Nat
      BY <1>1, <1>5, Z3 DEF CallBy
    <3> QED BY <3>2, <3>3, <3>4, CallFacts
  <2> HIDE DEF f, c
  <2>4. /\ stack' \in Seq(Frame) /\ Len(stack') = Len(c) + 1
        /\ DOMAIN stack' = 1 .. Len(stack') /\ stack'[Len(stack')] = f
        /\ \A j \in DOMAIN c : Alike(stack'[j], c[j])
    <3>1. c \in Seq(Frame) /\ f \in Frame
      BY <1>1, <2>3
    <3> QED BY <2>1, <3>1, FrameAppended, Zenon
  <2>5. Shape(Front(b), dead, ast, c)
    BY <1>3, FrontPopped DEF c
  <2>6. DOMAIN c = 1 .. Len(c) /\ Len(c) \in Nat /\ Len(c) > 0
    BY <1>1, <1>4
  <2>7. Front(b)[Len(c)] = b[m - 1] /\ Front(b) \in Seq(Nat) /\ c[Len(c)] = stack[m - 1]
    <3>1. Front(b) = [j \in 1 .. m - 1 |-> b[j]]
      BY <1>5 DEF Front
    <3>2. Front(b) \in Seq(Nat)
      BY <2>5 DEF Shape, BasesOK
    <3>3. Len(c) = m - 1 /\ m - 1 \in 1 .. m - 1 /\ c[m - 1] = stack[m - 1]
      <4>1. m > 1
        BY <1>4
      <4> HIDE DEF m
      <4> QED BY <1>1, <4>1
    <3>4. Front(b)[m - 1] = b[m - 1]
      <4> HIDE DEF m
      <4> QED BY <3>1, <3>3
    <3> QED BY <3>2, <3>3, <3>4, Zenon
  <2>8. CallerOK(ast, Front(b)[Len(c)], c[Len(c)], Len(ast), f)
    <3>1. n > b[m - 1] /\ \A x \in DOMAIN ast, l \in Link : ast[x][l] # n
      BY <1>1, <1>4 DEF CallerOK
    <3> HIDE DEF n, y
    <3> QED BY <2>2, <2>3, <2>7, <3>1 DEF CallerOK
  <2>9. Shape(Append(Front(b), Len(ast)), dead, ast, stack')
    <3>1. f.emplace.node > Front(b)[Len(c)]
      BY <2>2, <2>3, <2>7
    <3>2. f.emplace.node \in DOMAIN ast \ dead /\ f.node \in DOMAIN ast \ dead
      BY <1>5, <2>2, <2>3
    <3>3. f.previous = Null /\ f.by # "owner"
      BY <2>3
    <3>4. Len(ast) \in Nat /\ DOMAIN ast = 1 .. Len(ast)
      BY <1>1
    <3> QED BY <2>4, <2>5, <2>6, <2>8, <3>1, <3>2, <3>3, <3>4, ShapePushed
  <2>10. Shape(Append(Front(b), Len(ast)), dead, ast', stack')
    BY <1>1, <1>6, <2>4, <2>9, ShapeSameLinks
  <2>11. \E e \in Seq(Nat), d \in SUBSET DOMAIN ast' : Shape(e, d, ast', stack')
    <3>1. Append(Front(b), Len(ast)) \in Seq(Nat)
      BY <1>1, <2>7
    <3> QED BY <1>7, <2>10, <3>1
  <2>12. TypeOK'
    BY <1>2, <1>6, <2>1, <2>4 DEF TypeOK
  <2>13. stack' # <<>>
    BY <2>4, <2>6
  <2> QED BY <1>8, <1>9, <2>11, <2>12, <2>13 DEF IInv
<1> QED BY <1>10, <1>11

\* A step that only ends the parse.
LEMMA EndedStep ==
  ASSUME IInv, UNCHANGED <<stream, pos, ast, stack>>,
         status' \in {"error", "asserted", "looping", status}
  PROVE  IInv'
<1>1. TypeOK /\ LabelsOK
  BY DEF IInv
<1>2. TypeOK'
  BY <1>1 DEF TypeOK
<1>3. LabelsOK'
  BY <1>1 DEF LabelsOK
<1>4. \E b \in Seq(Nat), dead \in SUBSET DOMAIN ast' : Shape(b, dead, ast', stack')
  BY DEF IInv
<1>5. ast' # <<>> /\ (status' = "parsing" => stack' # <<>>)
  BY DEF IInv
<1> QED BY <1>2, <1>3, <1>4, <1>5 DEF IInv

----------------------------------------------------------------------------
(* The theorems *)

LEMMA InitIInv == Init => IInv
<1> SUFFICES ASSUME Init PROVE IInv
  OBVIOUS
<1> DEFINE n == NewNode("owner", 0)
<1>1. /\ n \in Node /\ n.type = "owner" /\ \A l \in Link : n[l] = Null
  <2>1. "owner" \in NodeType /\ 0 \in Nat
    BY DEF NodeType
  <2> QED BY <2>1, NewNodeFacts
<1>2. PICK d \in Delimiters :
         stack = <<Call(Field(Owner, "right"), d, "owner", Owner)>>
  BY DEF Init
<1> DEFINE f == Call(Field(Owner, "right"), d, "owner", Owner)
<1>3. /\ f \in Frame /\ f.emplace = Field(Owner, "right") /\ f.previous = Null
      /\ f.by = "owner" /\ f.node = Owner /\ f.emplace.node = Owner
  <2>1. Field(Owner, "right") \in Reference /\ Field(Owner, "right").node = Owner
    BY DEF Field, Reference, Link, Owner
  <2>2. d \in CallDelims /\ "owner" \in CallBy /\ Owner \in Nat
    BY DEF CallDelims, CallBy, Owner
  <2> QED BY <2>1, <2>2, CallFacts
<1>4. ast = <<n>> /\ pos = 1 /\ stream \in Streams /\ status = "parsing"
  BY DEF Init
<1> HIDE DEF n, f
<1>5. /\ ast \in Seq(Node) /\ Len(ast) = 1 /\ DOMAIN ast = {1} /\ ast[1] = n
  BY <1>1, <1>4
<1>6. /\ stack \in Seq(Frame) /\ Len(stack) = 1 /\ DOMAIN stack = {1} /\ stack[1] = f
  BY <1>2, <1>3 DEF f
<1>7. stream \in Seq(Token)
  BY <1>4, StreamsAssumption
<1>8. TypeOK
  BY <1>4, <1>5, <1>6, <1>7 DEF TypeOK
<1>9. LabelsOK
  BY <1>1, <1>5 DEF LabelsOK, BinaryOperator
<1>10. Shape(<<1>>, {}, ast, stack)
  <2>0. <<1>> \in Seq(Nat) /\ Len(<<1>>) = 1 /\ <<1>>[1] = 1
    OBVIOUS
  <2>1. BasesOK(<<1>>, ast, stack)
    BY <1>3, <1>5, <1>6, <2>0 DEF BasesOK, PlaceOK, Owner
  <2>2. KindsOK(<<1>>, ast, stack)
    BY <1>3, <1>6 DEF KindsOK
  <2>3. \A x \in DOMAIN ast, l \in Link : ast[x][l] = Null
    BY <1>1, <1>5
  <2>4. LinksOK(<<1>>, ast, stack)
    BY <1>5, <1>6, <2>3 DEF LinksOK, LinkOK, Null, Owner
  <2>5. AliveOK({}, <<1>>, ast, stack)
    BY <1>3, <1>5, <1>6, <2>3 DEF AliveOK, TakenOK, Null
  <2> QED BY <2>1, <2>2, <2>4, <2>5 DEF Shape
<1>11. \E b \in Seq(Nat), dead \in SUBSET DOMAIN ast : Shape(b, dead, ast, stack)
  <2>1. <<1>> \in Seq(Nat) /\ {} \in SUBSET DOMAIN ast
    OBVIOUS
  <2> QED BY <1>10, <2>1, Zenon
<1>12. ast # <<>> /\ stack # <<>>
  <2>1. DOMAIN <<>> = {} /\ 1 \in DOMAIN ast /\ 1 \in DOMAIN stack
    BY <1>5, <1>6
  <2> QED BY <2>1, Zenon
<1> QED BY <1>8, <1>9, <1>11, <1>12 DEF IInv

LEMMA NextIInv == IInv /\ [Next]_vars => IInv'
<1> SUFFICES ASSUME IInv, [Next]_vars PROVE IInv'
  OBVIOUS
<1>0. TypeOK
  BY DEF IInv
<1>1. CASE ReadDelimiter
  <2>1. pos \in 1 .. Len(stream) + 1
    BY <1>0 DEF TypeOK
  <2> QED BY <1>1, <2>1, ReturnStep DEF ReadDelimiter
<1>2. CASE ReadCloseParenthesis
  <2>1. status = "parsing" /\ Current # "eof" /\ Return /\ pos' = pos + 1 /\ stream' = stream
    BY <1>2 DEF ReadCloseParenthesis, Reading
  <2>2. pos' \in 1 .. Len(stream) + 1
    BY <1>0, <2>1, PosAdvanced
  <2> QED BY <2>1, <2>2, ReturnStep
<1>3. CASE ReadEndOfArgument
  <2>1. /\ status = "parsing" /\ Top.by = "argument" /\ pos' = pos + 1 /\ stream' = stream
        /\ Current \in Top.delims /\ (LastArgument \/ NextArgument)
    BY <1>3 DEF ReadEndOfArgument
  <2>2. Current # "eof"
    <3>1. Top \in Frame
      BY <2>1, Now
    <3> QED BY <2>1, <3>1, DelimsFacts
  <2>3. pos' \in 1 .. Len(stream) + 1
    BY <1>0, <2>1, <2>2, PosAdvanced
  <2> QED BY <2>1, <2>3, LastArgumentStep, NextArgumentStep
<1>4. CASE ReachEndOfFile
  BY <1>4, EndedStep DEF ReachEndOfFile
<1>5. CASE ReadUnexpected
  BY <1>5, EndedStep DEF ReadUnexpected
<1>6. CASE ReadOperand
  BY <1>6, EmplaceStep DEF ReadOperand, Reading
<1>7. CASE ReadIdentifier
  <2>1. status = "parsing" /\ Current = "identifier"
    BY <1>7 DEF ReadIdentifier, Reading
  <2>2. \/ IsBinaryOperator(ast, Top.previous)
             /\ Emplace("identifier", Field(Top.previous, "right"))
        \/ Emplace("identifier", Top.emplace)
    BY <1>7 DEF ReadIdentifier
  <2> QED BY <2>1, <2>2, EmplaceStep, EmplaceRightStep
<1>8. CASE ReadFunctionCall
  BY <1>8, FunctionCallStep
<1>9. CASE ReadOpenParenthesis
  BY <1>9, OpenParenthesisStep
<1>10. CASE ReadBinaryOperator
  BY <1>10, BinaryOperatorStep
<1>11. CASE ReadUnaryOperator
  BY <1>11, UnaryOperatorStep
<1>12. CASE OperatorAsserts
  BY <1>12, EndedStep DEF OperatorAsserts
<1>13. CASE UNCHANGED vars
  BY <1>13, EndedStep DEF vars
<1> QED BY <1>1, <1>2, <1>3, <1>4, <1>5, <1>6, <1>7, <1>8, <1>9, <1>10, <1>11,
           <1>12, <1>13 DEF Next

\* Every frame stores where the tree stays a tree.
THEOREM Invariance == Spec => []IInv
<1>1. Init => IInv
  BY InitIInv
<1>2. IInv /\ [Next]_vars => IInv'
  BY NextIInv
<1> QED BY <1>1, <1>2, PTL DEF Spec

\* The variables hold values of their C++ types: no token is read past the end
\* of the stream, and what is linked was allocated.
THEOREM TypeCorrect == Spec => []TypeOK
<1>1. IInv => TypeOK
  BY DEF IInv
<1> QED BY <1>1, Invariance, PTL

----------------------------------------------------------------------------
(* The levels of the tree *)

LEMMA LessIsWellFounded ==
  \A m, n \in Nat : n < m => <<n, m>> \in OpToRel(<, Nat)
BY DEF OpToRel

LEMMA LeastNumber ==
  ASSUME NEW S, S \subseteq Nat, S # {}
  PROVE  \E m \in S : \A n \in S : m <= n
<1>1. PICK m \in S : \A n \in S : ~ (<<n, m>> \in OpToRel(<, Nat))
  BY NatLessThanWellFounded, WFMin
<1>2. \A n \in S : ~ (n < m)
  BY <1>1, LessIsWellFounded, Zenon
<1> QED BY <1>2

\* What Below is defined with, down to level n.
NextLevel(nodes) == UNION {Children(x) : x \in nodes}
AreLevels(n, levels) ==
  levels = [k \in 0 .. n |-> IF k = 0 THEN {Owner} ELSE NextLevel(levels[k - 1])]

LEMMA LevelsExist ==
  ASSUME NEW n \in Nat
  PROVE  \E levels : AreLevels(n, levels)
<1> DEFINE P(m) == \E levels : AreLevels(m, levels)
           S == {m \in 0 .. n : ~ P(m)}
<1>1. SUFFICES ASSUME S # {} PROVE FALSE
  OBVIOUS
<1>2. S \subseteq Nat
  OBVIOUS
<1>3. PICK m \in S : \A k \in S : m <= k
  <2> HIDE DEF S
  <2> QED BY <1>1, <1>2, LeastNumber
<1>4. m # 0
  <2> DEFINE t == [i \in 0 .. 0 |-> {Owner}]
  <2>1. AreLevels(0, t)
    BY DEF AreLevels
  <2>2. P(0)
    BY <2>1
  <2> QED BY <1>3, <2>2
<1>5. PICK levels : AreLevels(m - 1, levels)
  BY <1>3, <1>4
<1> DEFINE t == [i \in 0 .. m |-> IF i = m THEN NextLevel(levels[m - 1]) ELSE levels[i]]
<1>6. m \in Nat \ {0}
  BY <1>3, <1>4
<1>7. \A i \in 0 .. m - 1 : levels[i] = IF i = 0 THEN {Owner} ELSE NextLevel(levels[i - 1])
  BY <1>5 DEF AreLevels
<1>8. ASSUME NEW i \in 0 .. m
      PROVE  t[i] = IF i = 0 THEN {Owner} ELSE NextLevel(t[i - 1])
  <2>1. CASE i = m
    <3>1. t[m - 1] = levels[m - 1] /\ t[i] = NextLevel(levels[m - 1])
      BY <1>6, <2>1
    <3> QED BY <1>6, <2>1, <3>1
  <2>2. CASE i # m
    <3>1. i \in 0 .. m - 1 /\ t[i] = levels[i] /\ (i # 0 => t[i - 1] = levels[i - 1])
      BY <1>6, <2>2
    <3> QED BY <1>7, <3>1
  <2> QED BY <2>1, <2>2
<1>9. AreLevels(m, t)
  BY <1>8 DEF AreLevels
<1>10. P(m)
  <2> HIDE DEF t
  <2> QED BY <1>9
<1> QED BY <1>3, <1>10

LEMMA BelowRecurrence ==
  ASSUME Len(ast) \in Nat, NEW k \in 0 .. Len(ast)
  PROVE  Below[k] = IF k = 0 THEN {Owner} ELSE NextLevel(Below[k - 1])
<1> DEFINE c == CHOOSE levels : AreLevels(Len(ast), levels)
<1>1. AreLevels(Len(ast), c)
  BY LevelsExist, Zenon
<1>2. Below = c
  BY DEF Below, AreLevels, NextLevel
<1> HIDE DEF c
<1>3. AreLevels(Len(ast), Below)
  BY <1>1, <1>2
<1> QED BY <1>3 DEF AreLevels

LEMMA LevelsAreAlive ==
  ASSUME IInv, NEW b, NEW dead, Shape(b, dead, ast, stack),
         NEW k \in 0 .. Len(ast), NEW x \in Below[k]
  PROVE  x \in DOMAIN ast \ dead
<1> DEFINE S == {i \in 0 .. Len(ast) : ~ (Below[i] \subseteq DOMAIN ast \ dead)}
<1>0. ast \in Seq(Node) /\ ast # <<>> /\ Len(ast) \in Nat /\ DOMAIN ast = 1 .. Len(ast)
  BY DEF IInv, TypeOK
<1>1. SUFFICES ASSUME S # {} PROVE FALSE
  BY <1>0
<1>2. S \subseteq Nat
  OBVIOUS
<1>3. PICK i \in S : \A j \in S : i <= j
  <2> HIDE DEF S
  <2> QED BY <1>1, <1>2, LeastNumber
<1>4. CASE i = 0
  <2>1. Below[i] = {Owner}
    BY <1>0, <1>3, <1>4, BelowRecurrence
  <2>2. Owner \in DOMAIN ast \ dead
    BY <1>0 DEF Shape, AliveOK, Owner
  <2> QED BY <1>3, <2>1, <2>2
<1>5. CASE i # 0
  <2>1. Below[i] = NextLevel(Below[i - 1]) /\ i - 1 \in 0 .. Len(ast)
    BY <1>0, <1>3, <1>5, BelowRecurrence
  <2>2. Below[i - 1] \subseteq DOMAIN ast \ dead
    BY <1>0, <1>3, <1>5, <2>1
  <2>3. ASSUME NEW y \in Below[i] PROVE y \in DOMAIN ast \ dead
    <3>1. PICK z \in Below[i - 1], f \in Link : y = ast[z][f] /\ y > 0
      BY <2>1 DEF NextLevel, Children
    <3>2. z \in DOMAIN ast \ dead
      BY <2>2
    <3>3. /\ ast[z][f] \in Int /\ ast[z][f] <= Len(ast)
          /\ ast[z][f] \notin dead
      BY <3>2 DEF Shape, LinksOK, AliveOK
    <3> QED BY <1>0, <3>1, <3>3
  <2> QED BY <1>3, <2>3
<1> QED BY <1>4, <1>5

LEMMA LevelsAreDisjoint ==
  ASSUME IInv, NEW b, NEW dead, Shape(b, dead, ast, stack),
         NEW i \in 0 .. Len(ast), NEW j \in 0 .. Len(ast), i < j,
         NEW x \in Below[i]
  PROVE  x \notin Below[j]
<1> DEFINE Meet(k) == \E l \in 0 .. Len(ast) : k < l /\ Below[k] \cap Below[l] # {}
           S == {k \in 0 .. Len(ast) : Meet(k)}
<1>0. ast \in Seq(Node) /\ ast # <<>> /\ Len(ast) \in Nat /\ DOMAIN ast = 1 .. Len(ast)
  BY DEF IInv, TypeOK
<1>1. SUFFICES ASSUME S # {} PROVE FALSE
  BY <1>0
<1>2. S \subseteq Nat
  OBVIOUS
<1>3. PICK k \in S : \A l \in S : k <= l
  <2> HIDE DEF S
  <2> QED BY <1>1, <1>2, LeastNumber
<1>4. PICK l \in 0 .. Len(ast), y \in Below[k] : k < l /\ y \in Below[l]
  BY <1>3
<1>5. k \in 0 .. Len(ast) /\ l # 0 /\ l - 1 \in 0 .. Len(ast)
  BY <1>0, <1>3, <1>4
<1>6. Below[l] = NextLevel(Below[l - 1])
  BY <1>0, <1>5, BelowRecurrence
<1>7. PICK z \in Below[l - 1], f \in Link : y = ast[z][f] /\ y > 0
  BY <1>4, <1>6 DEF NextLevel, Children
<1>8. z \in DOMAIN ast \ dead
  BY <1>5, LevelsAreAlive
<1>9. CASE k = 0
  <2>1. y = Owner
    BY <1>0, <1>4, <1>5, <1>9, BelowRecurrence
  <2>2. ast[z][f] # Owner
    BY <1>8 DEF Shape, LinksOK
  <2> QED BY <1>7, <2>1, <2>2
<1>10. CASE k # 0
  <2>1. Below[k] = NextLevel(Below[k - 1]) /\ k - 1 \in 0 .. Len(ast)
    BY <1>0, <1>5, <1>10, BelowRecurrence
  <2>2. PICK w \in Below[k - 1], g \in Link : y = ast[w][g]
    BY <1>4, <2>1 DEF NextLevel, Children
  <2>3. w \in DOMAIN ast \ dead
    BY <2>1, LevelsAreAlive
  <2>4. ast[z][f] = ast[w][g] /\ ast[z][f] > 0
    BY <1>7, <2>2
  <2>5. \A u, v \in DOMAIN ast \ dead, p, q \in Link :
           ast[u][p] = ast[v][q] /\ ast[u][p] > 0 => u = v /\ p = q
    BY DEF Shape, AliveOK
  <2>6. z = w
    BY <1>8, <2>3, <2>4, <2>5, Zenon
  <2>7. k - 1 < l - 1
    BY <1>4, <1>5, <2>1
  <2>8. Meet(k - 1)
    BY <1>5, <1>7, <2>2, <2>6, <2>7
  <2>9. k - 1 \in S
    BY <2>1, <2>8
  <2> QED BY <1>3, <1>5, <2>1, <2>9
<1> QED BY <1>9, <1>10

\* A level under a level that is empty is empty.
LEMMA LevelsAreFilled ==
  ASSUME Len(ast) \in Nat, Below[Len(ast)] # {}, NEW k \in 0 .. Len(ast)
  PROVE  Below[k] # {}
<1> DEFINE N == Len(ast)
           S == {i \in 0 .. N : Below[N - i] = {}}
<1>1. SUFFICES ASSUME S # {} PROVE FALSE
  <2>1. N - k \in 0 .. N /\ N - (N - k) = k
    OBVIOUS
  <2>2. Below[k] = {} => N - k \in S
    BY <2>1
  <2> QED BY <1>1, <2>2
<1>2. S \subseteq Nat
  OBVIOUS
<1>3. PICK i \in S : \A j \in S : i <= j
  <2> HIDE DEF S
  <2> QED BY <1>1, <1>2, LeastNumber
<1>4. i \in 1 .. N
  <2>1. i \in 0 .. N /\ (i = 0 => N - i = N)
    OBVIOUS
  <2> QED BY <1>3, <2>1
<1>5. i - 1 \in 0 .. N /\ i - 1 \notin S
  BY <1>3, <1>4
<1>6. N - (i - 1) = (N - i) + 1 /\ (N - i) + 1 \in 0 .. N /\ ((N - i) + 1) - 1 = N - i
  BY <1>4
<1>7. Below[(N - i) + 1] = NextLevel(Below[N - i])
  BY <1>4, <1>6, BelowRecurrence
<1>8. Below[N - i] = {}
  BY <1>3
<1>9. NextLevel({}) = {}
  BY DEF NextLevel
<1> QED BY <1>5, <1>6, <1>7, <1>8, <1>9

\* The tree has no cycle, no node of it is linked twice, and its operators are
\* the ones of their tokens, whatever the tokens and wherever the parser is.
\* Levels are disjoint, and there are as many as nodes when the last is filled.
THEOREM AlwaysATree == Spec => []AstIsATree
<1>1. ASSUME IInv PROVE AstIsATree
  <2> DEFINE N == Len(ast)
  <2>1. ast \in Seq(Node) /\ N \in Nat /\ DOMAIN ast = 1 .. N /\ ast # <<>>
    BY <1>1 DEF IInv, TypeOK
  <2>2. PICK b \in Seq(Nat), dead \in SUBSET DOMAIN ast : Shape(b, dead, ast, stack)
    BY <1>1 DEF IInv
  <2>3. Below[N] = {}
    <3> SUFFICES ASSUME Below[N] # {} PROVE FALSE
      OBVIOUS
    <3> DEFINE p == [k \in 0 .. N |-> CHOOSE x : x \in Below[k]]
    <3>1. ASSUME NEW k \in 0 .. N PROVE p[k] \in Below[k] /\ p[k] \in 1 .. N
      <4>1. Below[k] # {}
        BY <2>1, LevelsAreFilled
      <4>2. p[k] \in Below[k]
        BY <4>1
      <4> HIDE DEF p
      <4>3. p[k] \in DOMAIN ast
        BY <1>1, <2>2, <4>2, LevelsAreAlive
      <4> QED BY <2>1, <4>2, <4>3
    <3>2. p \in [0 .. N -> 1 .. N]
      BY <3>1
    <3>3. /\ IsFiniteSet(0 .. N) /\ Cardinality(0 .. N) = N + 1
          /\ IsFiniteSet(1 .. N) /\ Cardinality(1 .. N) = N
      BY <2>1, FS_Interval
    <3> HIDE DEF p
    <3>4. PICK i, j \in 0 .. N : i # j /\ p[i] = p[j]
      <4>1. Cardinality(1 .. N) < Cardinality(0 .. N)
        BY <2>1, <3>3
      <4> QED BY <3>2, <3>3, <4>1, FS_PigeonHole
    <3>5. p[i] \in Below[i] /\ p[j] \in Below[j] /\ p[i] \in Below[j] /\ p[j] \in Below[i]
      BY <3>1, <3>4
    <3>6. CASE i < j
      BY <1>1, <2>2, <3>5, <3>6, LevelsAreDisjoint
    <3>7. CASE j < i
      BY <1>1, <2>2, <3>5, <3>7, LevelsAreDisjoint
    <3> QED BY <3>4, <3>6, <3>7
  <2> DEFINE reached == UNION {Below[k] : k \in 0 .. N - 1}
  <2>4. ASSUME NEW x \in reached PROVE x \in DOMAIN ast \ dead
    <3>1. PICK k \in 0 .. N - 1 : x \in Below[k]
      OBVIOUS
    <3>2. k \in 0 .. N
      BY <2>1
    <3> QED BY <1>1, <2>2, <3>1, <3>2, LevelsAreAlive
  <2>5. ASSUME NEW x \in reached
        PROVE  /\ \A z \in reached : \A f, g \in Link :
                    ast[x][f] = ast[z][g] /\ ast[x][f] > 0 => x = z /\ f = g
               /\ ast[x].type \in BinaryOperator => stream[ast[x].token] = ast[x].type
    <3> HIDE DEF reached
    <3>1. \A z \in reached : \A f, g \in Link :
             ast[x][f] = ast[z][g] /\ ast[x][f] > 0 => x = z /\ f = g
      BY <2>2, <2>4, <2>5 DEF Shape, AliveOK
    <3>2. ast[x].type \in BinaryOperator => stream[ast[x].token] = ast[x].type
      BY <1>1, <2>4, <2>5 DEF IInv, LabelsOK
    <3> QED BY <3>1, <3>2
  <2> QED BY <2>3, <2>5 DEF AstIsATree
<1> QED BY <1>1, Invariance, PTL

----------------------------------------------------------------------------
(* What operations read as *)

\* What is under the node x are the tokens from lo[x] to hi[x], in the order
\* of the source, its own between the ones on its left and on its right.
SpanOK(h, lo, hi, x) ==
  /\ lo[x] <= h[x].token /\ h[x].token <= hi[x]
  /\ IF h[x].left = Null THEN lo[x] = h[x].token
     ELSE h[x].left \in DOMAIN h /\ lo[h[x].left] = lo[x] /\ hi[h[x].left] = h[x].token - 1
  /\ IF h[x].right = Null THEN hi[x] = h[x].token
     ELSE h[x].right \in DOMAIN h /\ hi[h[x].right] = hi[x] /\ lo[h[x].right] = h[x].token + 1
Spans(h, lo, hi) ==
  /\ lo \in [DOMAIN h -> Int] /\ hi \in [DOMAIN h -> Int]
  /\ \A x \in DOMAIN h : SpanOK(h, lo, hi, x)
  /\ \A x, y \in DOMAIN h : h[x].token = h[y].token => x = y
  /\ Owner \in DOMAIN h /\ h[Owner].token = 0 /\ h[Owner].left = Null

\* A node that has the token p is linked on the right of n, with what was there
\* on its left.
Extended(h, g, n, q, p) ==
  /\ Len(g) = p + 1 /\ DOMAIN g = DOMAIN h \cup {p + 1}
  /\ g[p + 1].left = q /\ g[p + 1].right = Null /\ g[p + 1].token = p
  /\ \A x \in DOMAIN h : /\ g[x].left = h[x].left /\ g[x].token = h[x].token
                         /\ g[x].right = IF x = n THEN p + 1 ELSE h[x].right

\* While tokens are read, the node x has the token x - 1, and what was stored
\* last on the right of n, if anything, is an operand.
Read(h, hi, n, q, p) ==
  /\ Len(h) = p /\ DOMAIN h = 1 .. p /\ \A x \in DOMAIN h : h[x].token = x - 1
  /\ n \in DOMAIN h /\ hi[n] = p - 1 /\ h[n].right = q
  /\ q # Null => q \in DOMAIN h /\ h[q].left = Null /\ h[q].right = Null

LEMMA SpansExtended ==
  ASSUME NEW h, NEW g, NEW lo, NEW hi, NEW n, NEW q, NEW p \in Nat,
         Spans(h, lo, hi), Read(h, hi, n, q, p), Extended(h, g, n, q, p)
  PROVE  \E lo2, hi2 : /\ Spans(g, lo2, hi2) /\ hi2[p + 1] = p
                       /\ \A x \in DOMAIN h : hi[x] = p - 1 /\ x # q => hi2[x] = p
<1> DEFINE new == p + 1
           lo2 == [x \in DOMAIN g |-> IF x = new THEN IF q = Null THEN p ELSE lo[q]
                                      ELSE lo[x]]
           hi2 == [x \in DOMAIN g |-> IF x = new \/ (hi[x] = p - 1 /\ x # q)
                                        THEN p ELSE hi[x]]
<1>1. /\ DOMAIN g = DOMAIN h \cup {new} /\ new \notin DOMAIN h /\ new \in Nat
      /\ n \in DOMAIN h /\ hi[n] = p - 1 /\ h[n].right = q /\ p > 0
      /\ \A x \in DOMAIN h : x \in Nat /\ x <= p /\ h[x].token = x - 1
      /\ g[new].left = q /\ g[new].right = Null /\ g[new].token = p
      /\ \A x \in DOMAIN h : /\ g[x].left = h[x].left /\ g[x].token = h[x].token
                             /\ g[x].right = IF x = n THEN new ELSE h[x].right
      /\ q # Null => q \in DOMAIN h /\ h[q].left = Null /\ h[q].right = Null
  BY DEF Read, Extended
<1>2. /\ lo \in [DOMAIN h -> Int] /\ hi \in [DOMAIN h -> Int]
      /\ \A x \in DOMAIN h : SpanOK(h, lo, hi, x)
      /\ Owner \in DOMAIN h /\ h[Owner].token = 0 /\ h[Owner].left = Null
  BY DEF Spans
<1>3. lo2 \in [DOMAIN g -> Int] /\ hi2 \in [DOMAIN g -> Int]
  BY <1>1, <1>2
<1>4. q # Null => lo[q] = p - 1 /\ hi[q] = p - 1 /\ q = p /\ n = p - 1
  <2>1. ASSUME q # Null PROVE lo[q] = p - 1 /\ hi[q] = p - 1 /\ q = p /\ n = p - 1
    <3>1. SpanOK(h, lo, hi, q) /\ SpanOK(h, lo, hi, n)
      BY <1>1, <1>2, <2>1
    <3> QED BY <1>1, <2>1, <3>1 DEF SpanOK
  <2> QED BY <2>1
<1>5. q = Null => n = p
  <2>1. SpanOK(h, lo, hi, n)
    BY <1>1, <1>2
  <2> QED BY <1>1, <2>1 DEF SpanOK
<1>6. /\ \A x \in DOMAIN h : /\ lo2[x] = lo[x]
                             /\ hi2[x] = IF hi[x] = p - 1 /\ x # q THEN p ELSE hi[x]
      /\ lo2[new] = (IF q = Null THEN p ELSE lo[q]) /\ hi2[new] = p
  BY <1>1
<1> HIDE DEF lo2, hi2, new
<1>7. SpanOK(g, lo2, hi2, new)
  <2>1. lo2[new] <= p
    BY <1>1, <1>4, <1>6
  <2>2. q # Null => q \in DOMAIN g /\ lo2[q] = lo2[new] /\ hi2[q] = p - 1
    BY <1>1, <1>4, <1>6
  <2> QED BY <1>1, <1>6, <2>1, <2>2 DEF SpanOK
<1>8. ASSUME NEW x \in DOMAIN h
      PROVE  SpanOK(g, lo2, hi2, x)
  <2>1. SpanOK(h, lo, hi, x) /\ lo[x] \in Int /\ hi[x] \in Int
    BY <1>2
  <2>2. lo2[x] <= h[x].token /\ h[x].token <= hi2[x]
    BY <1>1, <1>6, <2>1 DEF SpanOK
  <2>3. IF g[x].left = Null THEN lo2[x] = g[x].token
        ELSE /\ g[x].left \in DOMAIN g /\ lo2[g[x].left] = lo2[x]
             /\ hi2[g[x].left] = g[x].token - 1
    <3>1. CASE h[x].left = Null
      BY <1>1, <1>6, <2>1, <3>1 DEF SpanOK
    <3>2. CASE h[x].left # Null
      <4> DEFINE y == h[x].left
      <4>1. y \in DOMAIN h /\ lo[y] = lo[x] /\ hi[y] = h[x].token - 1
        BY <2>1, <3>2 DEF SpanOK
      <4>2. hi2[y] = hi[y]
        BY <1>1, <1>6, <4>1
      <4> QED BY <1>1, <1>6, <3>2, <4>1, <4>2
    <3> QED BY <3>1, <3>2
  <2>4. IF g[x].right = Null THEN hi2[x] = g[x].token
        ELSE /\ g[x].right \in DOMAIN g /\ hi2[g[x].right] = hi2[x]
             /\ lo2[g[x].right] = g[x].token + 1
    <3>1. CASE x = n
      <4>1. g[x].right = new /\ new # Null
        BY <1>1, <3>1 DEF Null, new
      <4>2. hi2[x] = p
        <5>1. n # Null
          BY <1>1 DEF Null, Read
        <5>2. n # q
          BY <1>1, <1>4, <5>1
        <5> QED BY <1>1, <1>6, <3>1, <5>2
      <4>3. lo2[new] = g[x].token + 1
        BY <1>1, <1>4, <1>5, <1>6, <3>1
      <4> QED BY <1>1, <1>6, <4>1, <4>2, <4>3
    <3>2. CASE x # n /\ h[x].right = Null
      <4>1. hi[x] = h[x].token /\ hi2[x] = hi[x]
        BY <1>1, <1>4, <1>5, <1>6, <2>1, <3>2 DEF SpanOK
      <4> QED BY <1>1, <3>2, <4>1
    <3>3. CASE x # n /\ h[x].right # Null
      <4> DEFINE z == h[x].right
      <4>1. z \in DOMAIN h /\ hi[z] = hi[x] /\ lo[z] = h[x].token + 1
        BY <2>1, <3>3 DEF SpanOK
      <4>2. z # q /\ x # q
        <5>1. h[x].token = x - 1 /\ x \in Nat
          BY <1>1
        <5>2. z = q => lo[q] = x /\ q # Null
          BY <3>3, <4>1, <5>1
        <5>3. z # q
          BY <1>1, <1>4, <3>3, <5>2
        <5>0. x # Null
          BY <1>1 DEF Null, Read
        <5>4. x = q => h[x].right = Null
          BY <1>1, <5>0
        <5> QED BY <3>3, <5>3, <5>4
      <4>3. hi2[z] = hi2[x] /\ lo2[z] = lo[z]
        BY <1>6, <4>1, <4>2
      <4> QED BY <1>1, <3>3, <4>1, <4>3
    <3> QED BY <3>1, <3>2, <3>3
  <2> QED BY <1>1, <2>2, <2>3, <2>4 DEF SpanOK
<1>9. \A x, y \in DOMAIN g : g[x].token = g[y].token => x = y
  BY <1>1
<1>10. Spans(g, lo2, hi2)
  BY <1>1, <1>2, <1>3, <1>7, <1>8, <1>9 DEF Spans
<1>11. hi2[p + 1] = p /\ \A x \in DOMAIN h : hi[x] = p - 1 /\ x # q => hi2[x] = p
  BY <1>6 DEF new
<1> QED BY <1>10, <1>11

\* n and the operator r on its right swap, and r goes on its left.
Turned(h, g, n, r) ==
  /\ Len(g) = Len(h) /\ DOMAIN g = DOMAIN h
  /\ \A x \in DOMAIN h \ {n, r} : g[x] = h[x]
  /\ g[n].token = h[r].token /\ g[n].left = r /\ g[n].right = h[r].right
  /\ g[r].token = h[n].token /\ g[r].left = h[n].left /\ g[r].right = h[r].left

Turnable(h, hi, n, r, p) ==
  /\ n \in DOMAIN h \ {Owner} /\ h[n].right = r /\ r # Null /\ hi[n] = p - 1
  /\ \A x \in DOMAIN h : h[x].token <= p - 1 /\ h[x].token \in Nat
LEMMA SpansTurned ==
  ASSUME NEW h, NEW g, NEW lo, NEW hi, NEW n, NEW r, NEW p \in Nat,
         Spans(h, lo, hi), Turnable(h, hi, n, r, p), Turned(h, g, n, r)
  PROVE  \E lo2, hi2 : /\ Spans(g, lo2, hi2)
                       /\ \A x \in DOMAIN h : x # r => hi2[x] = hi[x]
<1> USE DEF Turnable
<1> DEFINE lo2 == [lo EXCEPT ![r] = lo[n]]
           hi2 == [hi EXCEPT ![r] = h[r].token - 1]
<1>1. /\ lo \in [DOMAIN h -> Int] /\ hi \in [DOMAIN h -> Int]
      /\ \A x \in DOMAIN h : SpanOK(h, lo, hi, x)
      /\ Owner \in DOMAIN h /\ h[Owner].token = 0 /\ h[Owner].left = Null
      /\ \A x, y \in DOMAIN h : h[x].token = h[y].token => x = y
  BY DEF Spans
<1>2. /\ r \in DOMAIN h /\ hi[r] = hi[n] /\ lo[r] = h[n].token + 1
      /\ lo[n] <= h[n].token /\ h[n].token <= hi[n]
      /\ lo[r] <= h[r].token /\ h[r].token <= hi[r]
  BY <1>1 DEF SpanOK
<1>3. r # n /\ r # Owner
  BY <1>1, <1>2
<1>4. /\ lo2 \in [DOMAIN h -> Int] /\ hi2 \in [DOMAIN h -> Int]
      /\ lo2[r] = lo[n] /\ hi2[r] = h[r].token - 1
      /\ \A x \in DOMAIN h : x # r => lo2[x] = lo[x] /\ hi2[x] = hi[x]
  BY <1>1, <1>2
<1>5. /\ DOMAIN g = DOMAIN h
      /\ \A x \in DOMAIN h \ {n, r} : g[x] = h[x]
      /\ g[n].token = h[r].token /\ g[n].left = r /\ g[n].right = h[r].right
      /\ g[r].token = h[n].token /\ g[r].left = h[n].left /\ g[r].right = h[r].left
  BY DEF Turned
<1> HIDE DEF lo2, hi2
<1>6. SpanOK(g, lo2, hi2, n)
  <2>1. lo2[n] <= g[n].token /\ g[n].token <= hi2[n]
    BY <1>1, <1>2, <1>3, <1>4, <1>5
  <2>2. lo2[r] = lo2[n] /\ hi2[r] = g[n].token - 1
    BY <1>3, <1>4, <1>5
  <2>3. CASE h[r].right = Null
    BY <1>1, <1>2, <1>3, <1>4, <1>5, <2>1, <2>2, <2>3 DEF SpanOK
  <2>4. CASE h[r].right # Null
    <3> DEFINE z == h[r].right
    <3>1. z \in DOMAIN h /\ hi[z] = hi[r] /\ lo[z] = h[r].token + 1
      BY <1>1, <1>2, <2>4 DEF SpanOK
    <3>2. z # r
      BY <1>1, <1>2, <3>1
    <3>3. hi2[z] = hi2[n] /\ lo2[z] = g[n].token + 1
      BY <1>2, <1>3, <1>4, <1>5, <3>1, <3>2
    <3> QED BY <1>2, <1>5, <2>1, <2>2, <2>4, <3>1, <3>3 DEF SpanOK
  <2> QED BY <2>3, <2>4
<1>7. SpanOK(g, lo2, hi2, r)
  <2>1. lo2[r] <= g[r].token /\ g[r].token <= hi2[r]
    BY <1>1, <1>2, <1>3, <1>4, <1>5
  <2>2. IF g[r].left = Null THEN lo2[r] = g[r].token
        ELSE /\ g[r].left \in DOMAIN g /\ lo2[g[r].left] = lo2[r]
             /\ hi2[g[r].left] = g[r].token - 1
    <3>1. CASE h[n].left = Null
      BY <1>1, <1>4, <1>5, <3>1 DEF SpanOK
    <3>2. CASE h[n].left # Null
      <4> DEFINE y == h[n].left
      <4>1. y \in DOMAIN h /\ lo[y] = lo[n] /\ hi[y] = h[n].token - 1
        BY <1>1, <3>2 DEF SpanOK
      <4>2. y # r
        BY <1>1, <1>2, <4>1
      <4> QED BY <1>4, <1>5, <3>2, <4>1, <4>2
    <3> QED BY <3>1, <3>2
  <2>3. IF g[r].right = Null THEN hi2[r] = g[r].token
        ELSE /\ g[r].right \in DOMAIN g /\ hi2[g[r].right] = hi2[r]
             /\ lo2[g[r].right] = g[r].token + 1
    <3>1. CASE h[r].left = Null
      BY <1>1, <1>2, <1>4, <1>5, <3>1, SMTT(30) DEF SpanOK
    <3>2. CASE h[r].left # Null
      <4> DEFINE y == h[r].left
      <4>1. y \in DOMAIN h /\ lo[y] = lo[r] /\ hi[y] = h[r].token - 1
        BY <1>1, <1>2, <3>2 DEF SpanOK
      <4>2. y # r
        BY <1>1, <1>2, <4>1
      <4> QED BY <1>2, <1>4, <1>5, <3>2, <4>1, <4>2
    <3> QED BY <3>1, <3>2
  <2> QED BY <2>1, <2>2, <2>3 DEF SpanOK
<1>8. ASSUME NEW x \in DOMAIN h \ {n, r}
      PROVE  SpanOK(g, lo2, hi2, x)
  <2>1. SpanOK(h, lo, hi, x) /\ g[x] = h[x] /\ lo2[x] = lo[x] /\ hi2[x] = hi[x]
    BY <1>1, <1>4, <1>5
  <2>2. h[x].left # r
    <3> SUFFICES ASSUME h[x].left = r PROVE FALSE
      OBVIOUS
    <3>1. hi[r] = h[x].token - 1 /\ h[x].token <= p - 1
      BY <2>1 DEF SpanOK
    <3> QED BY <1>1, <1>2, <3>1
  <2>3. h[x].right # r
    <3> SUFFICES ASSUME h[x].right = r PROVE FALSE
      OBVIOUS
    <3>1. lo[r] = h[x].token + 1 /\ h[x].token \in Nat /\ h[n].token \in Nat
      BY <2>1 DEF SpanOK
    <3>2. h[x].token = h[n].token
      BY <1>2, <3>1
    <3> QED BY <1>1, <3>2
  <2> QED BY <1>4, <1>5, <2>1, <2>2, <2>3 DEF SpanOK
<1>9. ASSUME NEW x \in DOMAIN g, NEW y \in DOMAIN g, g[x].token = g[y].token
      PROVE  x = y
  <2>1. x \in DOMAIN h /\ y \in DOMAIN h
    BY <1>5
  <2>2. CASE x \notin {n, r} /\ y \notin {n, r}
    BY <1>1, <1>5, <1>9, <2>1, <2>2
  <2>3. CASE x = n
    BY <1>1, <1>2, <1>3, <1>5, <1>9, <2>1, <2>3
  <2>4. CASE x = r
    BY <1>1, <1>2, <1>3, <1>5, <1>9, <2>1, <2>4
  <2>5. CASE y = n
    BY <1>1, <1>2, <1>3, <1>5, <1>9, <2>1, <2>5
  <2>6. CASE y = r
    BY <1>1, <1>2, <1>3, <1>5, <1>9, <2>1, <2>6
  <2> QED BY <2>2, <2>3, <2>4, <2>5, <2>6
<1>10. Spans(g, lo2, hi2)
  <2>1. g[Owner].token = 0 /\ g[Owner].left = Null
    BY <1>1, <1>3, <1>5
  <2> QED BY <1>1, <1>4, <1>5, <1>6, <1>7, <1>8, <1>9, <2>1 DEF Spans
<1> QED BY <1>4, <1>10

\* What Yield is made of.
LEMMA ConcatFacts ==
  ASSUME NEW a \in Seq(Nat), NEW b \in Seq(Nat), NEW m, m = Len(a), NEW n, n = Len(b),
         NEW c, c = a \o b
  PROVE  /\ c \in Seq(Nat) /\ Len(c) = m + n
         /\ \A i \in 1 .. m + n : c[i] = IF i <= m THEN a[i] ELSE b[i - m]
BY ConcatProperties

Tokens(a, b) == [k \in 1 .. b - a + 1 |-> a + k - 1]
LEMMA TokensJoined ==
  ASSUME NEW a \in Nat, NEW b \in Nat, NEW t \in Nat, a <= t, t <= b
  PROVE  Tokens(a, t - 1) \o <<t>> \o Tokens(t + 1, b) = Tokens(a, b)
<1> DEFINE u == Tokens(a, t - 1)
           v == Tokens(t + 1, b)
           w == Tokens(a, b)
           x == <<t>>
           i == u \o x
           s == i \o v
<1>1. /\ u \in Seq(Nat) /\ Len(u) = t - a /\ \A k \in 1 .. t - a : u[k] = a + k - 1
      /\ v \in Seq(Nat) /\ Len(v) = b - t /\ \A k \in 1 .. b - t : v[k] = t + k
      /\ w \in Seq(Nat) /\ Len(w) = b - a + 1
      /\ \A k \in 1 .. b - a + 1 : w[k] = a + k - 1
  BY DEF Tokens
<1>2. x \in Seq(Nat) /\ Len(x) = 1 /\ x[1] = t
  OBVIOUS
<1> HIDE DEF u, v, w, x
<1>3. /\ i \in Seq(Nat) /\ Len(i) = t - a + 1
      /\ \A k \in 1 .. t - a + 1 : i[k] = IF k <= t - a THEN u[k] ELSE x[k - (t - a)]
  <2> DEFINE m == t - a
             n == 1
  <2>1. i = u \o x
    OBVIOUS
  <2>2. u \in Seq(Nat) /\ x \in Seq(Nat) /\ m = Len(u) /\ n = Len(x)
    BY <1>1, <1>2
  <2> HIDE DEF i, m, n
  <2>3. /\ i \in Seq(Nat) /\ Len(i) = m + n
        /\ \A k \in 1 .. m + n : i[k] = IF k <= m THEN u[k] ELSE x[k - m]
    BY <2>1, <2>2, ConcatFacts
  <2> QED BY <2>3 DEF m, n
<1> HIDE DEF i
<1>4. /\ s \in Seq(Nat) /\ Len(s) = b - a + 1
      /\ \A k \in 1 .. b - a + 1 :
           s[k] = IF k <= t - a + 1 THEN i[k] ELSE v[k - (t - a + 1)]
  <2> DEFINE m == t - a + 1
             n == b - t
  <2>1. m + n = b - a + 1
    OBVIOUS
  <2>2. s = i \o v
    OBVIOUS
  <2>3. v \in Seq(Nat) /\ i \in Seq(Nat) /\ m = Len(i) /\ n = Len(v)
    BY <1>1, <1>3
  <2> HIDE DEF s, m, n
  <2>4. /\ s \in Seq(Nat) /\ Len(s) = m + n
        /\ \A k \in 1 .. m + n : s[k] = IF k <= m THEN i[k] ELSE v[k - m]
    BY <2>2, <2>3, ConcatFacts
  <2> QED BY <2>1, <2>4 DEF m
<1> HIDE DEF s
<1>5. ASSUME NEW k \in 1 .. Len(s) PROVE s[k] = w[k]
  <2>0. k \in 1 .. b - a + 1 /\ w[k] = a + k - 1
    BY <1>1, <1>4
  <2>1. CASE k <= t - a
    BY <1>1, <1>3, <1>4, <2>0, <2>1
  <2>2. CASE k = t - a + 1
    <3>1. s[k] = i[k] /\ i[k] = x[k - (t - a)] /\ k - (t - a) = 1
      <4>1. k \in 1 .. t - a + 1 /\ ~ (k <= t - a) /\ k <= t - a + 1 /\ k - (t - a) = 1
        BY <2>0, <2>2
      <4> QED BY <1>3, <1>4, <2>0, <4>1
    <3> QED BY <1>2, <2>0, <2>2, <3>1
  <2>3. CASE k > t - a + 1
    <3>1. s[k] = v[k - (t - a + 1)] /\ k - (t - a + 1) \in 1 .. b - t
      BY <1>4, <2>0, <2>3, SMTT(30)
    <3> QED BY <1>1, <2>0, <3>1
  <2> QED BY <2>0, <2>1, <2>2, <2>3
<1>6. s = w
  BY <1>1, <1>4, <1>5, SeqEqual
<1> QED BY <1>6 DEF s, i, u, v, w, x

LEMMA NoTokens ==
  ASSUME NEW a \in Nat
  PROVE  Tokens(a, a - 1) = <<>>
<1> DEFINE u == Tokens(a, a - 1)
<1>1. u \in Seq(Nat) /\ Len(u) = 0
  BY DEF Tokens
<1> HIDE DEF u
<1>2. u = <<>>
  BY <1>1, EmptySeq
<1> QED BY <1>2 DEF u

\* What Yield is defined with, down to a depth.
Layer(under, depth) ==
  [n \in 0 .. Len(ast) |->
     IF n = Null \/ depth = 0 THEN <<>>
     ELSE under[ast[n].left] \o <<ast[n].token>> \o under[ast[n].right]]
AreLayers(n, layers) == layers = [depth \in 0 .. n |-> Layer(layers[depth - 1], depth)]

LEMMA LayersExist ==
  ASSUME NEW n \in Nat
  PROVE  \E layers : AreLayers(n, layers)
<1> DEFINE P(m) == \E layers : AreLayers(m, layers)
           S == {m \in 0 .. n : ~ P(m)}
<1>1. SUFFICES ASSUME S # {} PROVE FALSE
  OBVIOUS
<1>2. S \subseteq Nat
  OBVIOUS
<1>3. PICK m \in S : \A k \in S : m <= k
  <2> HIDE DEF S
  <2> QED BY <1>1, <1>2, LeastNumber
<1>0. \A under, other : Layer(under, 0) = Layer(other, 0)
  BY DEF Layer
<1>4. m # 0
  <2> DEFINE t == [i \in 0 .. 0 |-> Layer(<<>>, 0)]
  <2>1. \A i \in 0 .. 0 : t[i] = Layer(t[i - 1], i)
    <3>1. t[0] = Layer(<<>>, 0)
      OBVIOUS
    <3>2. Layer(<<>>, 0) = Layer(t[0 - 1], 0)
      BY <1>0
    <3> QED BY <3>1, <3>2
  <2>2. t = [i \in 0 .. 0 |-> Layer(t[i - 1], i)]
    BY <2>1
  <2>3. AreLayers(0, t)
    BY <2>2 DEF AreLayers
  <2>4. P(0)
    <3> HIDE DEF t
    <3> QED BY <2>3
  <2> QED BY <1>3, <2>4
<1>5. PICK layers : AreLayers(m - 1, layers)
  BY <1>3, <1>4
<1> DEFINE t == [i \in 0 .. m |-> IF i = m THEN Layer(layers[m - 1], m) ELSE layers[i]]
<1>6. m \in Nat \ {0}
  BY <1>3, <1>4
<1>7. \A i \in 0 .. m - 1 : layers[i] = Layer(layers[i - 1], i)
  BY <1>5 DEF AreLayers
<1>8. ASSUME NEW i \in 0 .. m
      PROVE  t[i] = Layer(t[i - 1], i)
  <2>1. CASE i = m
    <3>1. t[m - 1] = layers[m - 1] /\ t[i] = Layer(layers[m - 1], m)
      BY <1>6, <2>1
    <3> QED BY <2>1, <3>1
  <2>2. CASE i # m /\ i # 0
    <3>1. i \in 0 .. m - 1 /\ t[i] = layers[i] /\ t[i - 1] = layers[i - 1]
      BY <1>6, <2>2
    <3> QED BY <1>7, <3>1
  <2>3. CASE i = 0
    <3>1. 0 \in 0 .. m - 1 /\ t[0] = layers[0]
      BY <1>6
    <3>2. layers[0] = Layer(layers[0 - 1], 0)
      BY <1>7, <3>1
    <3> HIDE DEF t
    <3>3. Layer(layers[0 - 1], 0) = Layer(t[0 - 1], 0)
      BY <1>0
    <3> QED BY <2>3, <3>1, <3>2, <3>3
  <2> QED BY <2>1, <2>2, <2>3
<1>9. AreLayers(m, t)
  BY <1>8 DEF AreLayers
<1>10. P(m)
  <2> HIDE DEF t
  <2> QED BY <1>9
<1> QED BY <1>3, <1>10

LEMMA YieldRecurrence ==
  ASSUME Len(ast) \in Nat, NEW depth \in 0 .. Len(ast)
  PROVE  Yield[depth] = Layer(Yield[depth - 1], depth)
<1> DEFINE c == CHOOSE layers : AreLayers(Len(ast), layers)
<1>1. AreLayers(Len(ast), c)
  BY LayersExist, Zenon
<1>2. Yield = c
  BY DEF Yield, AreLayers, Layer
<1> HIDE DEF c
<1>3. AreLayers(Len(ast), Yield)
  BY <1>1, <1>2
<1> QED BY <1>3 DEF AreLayers

LEMMA InASpan ==
  ASSUME NEW a \in Nat, NEW t \in Nat, NEW e \in Int, NEW k \in Nat,
         a <= t, t <= e, e - a < k
  PROVE  /\ e \in Nat /\ k > 0 /\ k - 1 \in Nat /\ t + 1 \in Nat
         /\ t - 1 - a < k - 1 /\ e - (t + 1) < k - 1
OBVIOUS

\* A subtree of d tokens is read at the depth d.
LEMMA SpansAreYielded ==
  ASSUME Len(ast) \in Nat, DOMAIN ast = 1 .. Len(ast), NEW lo, NEW hi, Spans(ast, lo, hi),
         \A y \in DOMAIN ast : ast[y].token \in Nat,
         NEW x \in DOMAIN ast, lo[x] \in Nat, hi[x] - lo[x] < Len(ast)
  PROVE  Yield[Len(ast)][x] = Tokens(lo[x], hi[x])
<1> DEFINE N == Len(ast)
           Good(d) == \A y \in DOMAIN ast : lo[y] \in Nat /\ hi[y] - lo[y] < d =>
                        Yield[d][y] = Tokens(lo[y], hi[y])
           S == {d \in 0 .. N : ~ Good(d)}
<1>1. /\ lo \in [1 .. N -> Int] /\ hi \in [1 .. N -> Int]
      /\ \A y \in 1 .. N : SpanOK(ast, lo, hi, y)
  BY DEF Spans
<1>2. S = {}
  <2> SUFFICES ASSUME S # {} PROVE FALSE
    OBVIOUS
  <2>1. S \subseteq Nat
    OBVIOUS
  <2>2. PICK d \in S : \A k \in S : d <= k
    <3> HIDE DEF S
    <3> QED BY <2>1, LeastNumber
  <2>3. PICK y \in 1 .. N : /\ lo[y] \in Nat /\ hi[y] - lo[y] < d
                            /\ Yield[d][y] # Tokens(lo[y], hi[y])
    BY <2>2
  <2>4. SpanOK(ast, lo, hi, y) /\ hi[y] \in Int /\ d \in 0 .. N /\ ast[y].token \in Nat
    BY <1>1, <2>2, <2>3
  <2>5. /\ lo[y] <= ast[y].token /\ ast[y].token <= hi[y] /\ hi[y] \in Nat
        /\ d > 0 /\ d - 1 \in 0 .. N /\ d - 1 \in Nat /\ y # Null
    <3>1. lo[y] <= ast[y].token /\ ast[y].token <= hi[y]
      BY <2>4 DEF SpanOK
    <3>2. /\ lo[y] \in Nat /\ ast[y].token \in Nat /\ hi[y] \in Int /\ d \in Nat
          /\ d <= N /\ hi[y] - lo[y] < d /\ y \in 1 .. N
      BY <2>3, <2>4
    <3>3. hi[y] \in Nat /\ d > 0 /\ d - 1 \in Nat
      BY <3>1, <3>2, InASpan
    <3>4. d - 1 \in 0 .. N
      BY <3>2, <3>3
    <3>5. y # Null
      BY <3>2 DEF Null
    <3> QED BY <3>1, <3>3, <3>4, <3>5
  <2>6. Good(d - 1)
    <3>1. d - 1 \notin S
      <4>1. ASSUME d - 1 \in S PROVE FALSE
        <5>1. d <= d - 1
          BY <2>2, <4>1
        <5> QED BY <2>5, <5>1
      <4> QED BY <4>1
    <3> HIDE DEF Good
    <3> QED BY <2>5, <3>1
  <2>7. Yield[d] = Layer(Yield[d - 1], d)
    BY <2>4, YieldRecurrence, Zenon
  <2>8. Yield[d][y] = Yield[d - 1][ast[y].left] \o <<ast[y].token>>
                        \o Yield[d - 1][ast[y].right]
    <3>1. y \in 0 .. N /\ ~ (y = Null \/ d = 0)
      BY <2>5, Z3
    <3> QED BY <2>7, <3>1, Zenon DEF Layer
  <2>9. Yield[d - 1][Null] = <<>>
    <3>1. Yield[d - 1] = Layer(Yield[d - 1 - 1], d - 1)
      BY <2>5, YieldRecurrence
    <3>2. Null \in 0 .. N
      BY DEF Null
    <3> QED BY <3>1, <3>2 DEF Layer
  <2>13. /\ lo[y] \in Nat /\ ast[y].token - 1 - lo[y] < d - 1
         /\ ast[y].token + 1 \in Nat /\ hi[y] - (ast[y].token + 1) < d - 1
    <3>1. /\ lo[y] \in Nat /\ ast[y].token \in Nat /\ hi[y] \in Int /\ d \in Nat
          /\ hi[y] - lo[y] < d /\ lo[y] <= ast[y].token /\ ast[y].token <= hi[y]
      BY <2>3, <2>4, <2>5
    <3>2. /\ ast[y].token + 1 \in Nat /\ ast[y].token - 1 - lo[y] < d - 1
          /\ hi[y] - (ast[y].token + 1) < d - 1
      BY <3>1, InASpan
    <3> QED BY <3>1, <3>2
  <2>10. Yield[d - 1][ast[y].left] = Tokens(lo[y], ast[y].token - 1)
    <3>1. CASE ast[y].left = Null
      BY <2>3, <2>4, <2>9, <3>1, NoTokens DEF SpanOK
    <3>2. CASE ast[y].left # Null
      <4> DEFINE z == ast[y].left
      <4>1. z \in 1 .. N /\ lo[z] = lo[y] /\ hi[z] = ast[y].token - 1
        BY <2>4, <3>2 DEF SpanOK
      <4>2. lo[z] \in Nat /\ hi[z] - lo[z] < d - 1
        BY <2>13, <4>1
      <4> QED BY <2>6, <4>1, <4>2
    <3> QED BY <3>1, <3>2
  <2>11. Yield[d - 1][ast[y].right] = Tokens(ast[y].token + 1, hi[y])
    <3>1. CASE ast[y].right = Null
      <4>1. hi[y] = ast[y].token /\ ast[y].token = ast[y].token + 1 - 1
            /\ ast[y].token + 1 \in Nat
        BY <2>4, <3>1 DEF SpanOK
      <4> DEFINE s == ast[y].token + 1
      <4>3. s \in Nat /\ s - 1 = ast[y].token
        BY <4>1
      <4>2. Tokens(s, ast[y].token) = <<>>
        <5> HIDE DEF s
        <5>1. Tokens(s, s - 1) = <<>>
          BY <4>3, NoTokens
        <5> QED BY <4>3, <5>1
      <4> QED BY <2>9, <3>1, <4>1, <4>2
    <3>2. CASE ast[y].right # Null
      <4> DEFINE z == ast[y].right
      <4>1. z \in 1 .. N /\ lo[z] = ast[y].token + 1 /\ hi[z] = hi[y]
        BY <2>4, <3>2 DEF SpanOK
      <4>2. lo[z] \in Nat /\ hi[z] - lo[z] < d - 1
        BY <2>13, <4>1
      <4> QED BY <2>6, <4>1, <4>2
    <3> QED BY <3>1, <3>2
  <2>12. Yield[d][y] = Tokens(lo[y], hi[y])
    <3>1. Tokens(lo[y], ast[y].token - 1) \o <<ast[y].token>>
            \o Tokens(ast[y].token + 1, hi[y]) = Tokens(lo[y], hi[y])
      <4>1. lo[y] \in Nat /\ ast[y].token \in Nat /\ hi[y] \in Nat
        BY <2>3, <2>4, <2>5
      <4> QED BY <2>5, <4>1, TokensJoined
    <3> QED BY <2>8, <2>10, <2>11, <3>1
  <2> QED BY <2>3, <2>12
<1>3. Good(N)
  BY <1>2
<1> QED BY <1>3

\* Every frame goes on with what is on the right of a node: of one that ends at
\* the last token that was read.
WaitsOK(h, hi, f, p) ==
  LET n == f.emplace.node
  IN  /\ f.by \in {"owner", "unary", "binary"} /\ f.emplace.field = "right"
      /\ f.by = "owner" <=> n = Owner
      /\ f.by = "binary" => f.node = n
      /\ n \in DOMAIN h /\ hi[n] = p - 1 /\ h[n].right = f.previous
      /\ f.previous = Null \/ f.previous > n
OnSpine(h, hi, c, p) ==
  /\ \A j \in DOMAIN c : WaitsOK(h, hi, c[j], p)
  /\ \A j, k \in DOMAIN c :
       j < k => c[j].emplace.node < c[k].emplace.node /\ c[j].previous # Null

\* The last frame stores a node that has the token p.
Stored(h, g, lo, hi, c, d, p) ==
  /\ Len(c) \in Nat /\ Len(c) > 0 /\ DOMAIN c = 1 .. Len(c)
  /\ Spans(h, lo, hi) /\ OnSpine(h, hi, c, p)
  /\ Read(h, hi, c[Len(c)].emplace.node, c[Len(c)].previous, p)
  /\ Extended(h, g, c[Len(c)].emplace.node, c[Len(c)].previous, p)
  /\ Advanced(c, d, p + 1) /\ d[Len(c)].previous = p + 1
SpineAt(g, d, p) ==
  \E lo, hi : Spans(g, lo, hi) /\ OnSpine(g, hi, d, p) /\ hi[p] = p - 1
LEMMA SpineExtended ==
  ASSUME NEW h, NEW g, NEW lo, NEW hi, NEW c, NEW d, NEW p \in Nat,
         Stored(h, g, lo, hi, c, d, p)
  PROVE  SpineAt(g, d, p + 1)
<1> USE DEF Stored
<1> DEFINE m == Len(c)
           n == c[m].emplace.node
           q == c[m].previous
<1>1. PICK lo2, hi2 : /\ Spans(g, lo2, hi2) /\ hi2[p + 1] = p
                      /\ \A x \in DOMAIN h : hi[x] = p - 1 /\ x # q => hi2[x] = p
  BY SpansExtended
<1>2. /\ DOMAIN h = 1 .. p /\ h[n].right = q
      /\ q # Null => q \in DOMAIN h /\ h[q].right = Null
      /\ DOMAIN g = DOMAIN h \cup {p + 1}
      /\ \A x \in DOMAIN h : g[x].right = IF x = n THEN p + 1 ELSE h[x].right
  BY Zenon DEF Read, Extended
<1>3. /\ DOMAIN d = 1 .. m /\ m \in 1 .. m /\ d[m].previous = p + 1
      /\ \A j \in 1 .. m : /\ d[j].emplace = c[j].emplace /\ d[j].node = c[j].node
                           /\ d[j].by = c[j].by
                           /\ j # m => d[j].previous = c[j].previous
  <2>1. DOMAIN d = 1 .. m /\ m \in 1 .. m /\ d[m].previous = p + 1
    BY Z3 DEF Advanced
  <2>2. ASSUME NEW j \in 1 .. m
        PROVE  /\ d[j].emplace = c[j].emplace /\ d[j].node = c[j].node
               /\ d[j].by = c[j].by
               /\ j # m => d[j].previous = c[j].previous
    BY Zenon DEF Advanced
  <2> QED BY <2>1, <2>2, Zenon
<1>0. m \in Nat
  OBVIOUS
<1>4. /\ \A j \in 1 .. m : WaitsOK(h, hi, c[j], p)
      /\ \A j, k \in 1 .. m :
           j < k => c[j].emplace.node < c[k].emplace.node /\ c[j].previous # Null
  BY DEF OnSpine
<1> HIDE DEF m, n, q
<1>5. ASSUME NEW j \in 1 .. m PROVE WaitsOK(g, hi2, d[j], p + 1)
  <2> DEFINE x == c[j].emplace.node
  <2>1. WaitsOK(h, hi, c[j], p)
    BY <1>4
  <2>2. x \in DOMAIN h /\ hi[x] = p - 1 /\ h[x].right = c[j].previous /\ x # Null /\ x \in Nat
    <3>1. x \in DOMAIN h /\ hi[x] = p - 1 /\ h[x].right = c[j].previous
      BY <2>1 DEF WaitsOK
    <3> HIDE DEF x
    <3> QED BY <1>2, <3>1 DEF Null
  <2>3. x # q
    <3>1. CASE j = m
      BY <1>2, <2>2, <3>1 DEF q
    <3>2. CASE j # m
      <4>1. c[j].previous # Null
        BY <1>3, <1>4, <3>2
      <4> QED BY <1>2, <2>2, <4>1
    <3> QED BY <3>1, <3>2
  <2>4. hi2[x] = p
    BY <1>1, <2>2, <2>3
  <2>5. g[x].right = d[j].previous /\ (d[j].previous = Null \/ d[j].previous > x)
    <3>1. CASE j = m
      BY <1>2, <1>3, <2>2, <3>1 DEF n
    <3>2. CASE j # m
      <4>1. x # n
        <5>1. j < m
          BY <1>0, <3>2
        <5>2. x < n
          BY <1>3, <1>4, <5>1 DEF n
        <5>3. n \in DOMAIN h
          BY <1>3, <1>4 DEF WaitsOK, n
        <5> QED BY <1>2, <2>2, <5>2, <5>3
      <4>2. c[j].previous = Null \/ c[j].previous > x
        BY <2>1 DEF WaitsOK
      <4> QED BY <1>2, <1>3, <2>2, <3>2, <4>1, <4>2
    <3> QED BY <3>1, <3>2
  <2>6. /\ d[j].by \in {"owner", "unary", "binary"} /\ d[j].emplace.field = "right"
        /\ d[j].by = "owner" <=> x = Owner
        /\ d[j].by = "binary" => d[j].node = x
        /\ d[j].emplace.node = x
    BY <1>3, <2>1 DEF WaitsOK
  <2>7. x \in DOMAIN g /\ hi2[x] = p + 1 - 1
    BY <1>2, <2>2, <2>4
  <2> HIDE DEF x
  <2> QED BY <2>5, <2>6, <2>7 DEF WaitsOK
<1>6. ASSUME NEW j \in 1 .. m, NEW k \in 1 .. m, j < k
      PROVE  d[j].emplace.node < d[k].emplace.node /\ d[j].previous # Null
  <2>1. j # m
    BY <1>0, <1>6
  <2> QED BY <1>3, <1>4, <1>6, <2>1
<1>7. OnSpine(g, hi2, d, p + 1)
  BY <1>3, <1>5, <1>6 DEF OnSpine
<1>8. hi2[p + 1] = p + 1 - 1
  BY <1>1
<1> QED BY <1>1, <1>7, <1>8 DEF SpineAt

\* A call begins that stores in the node that has the last token.
Pushed(h, hi, c, d, p) ==
  /\ Len(c) \in Nat /\ Len(c) > 0 /\ DOMAIN c = 1 .. Len(c) /\ DOMAIN d = 1 .. Len(c) + 1
  /\ \A j \in DOMAIN c : Alike(d[j], c[j])
  /\ c[Len(c)].previous = p
  /\ \A j \in DOMAIN c : c[j].emplace.node < p
  /\ WaitsOK(h, hi, d[Len(c) + 1], p) /\ d[Len(c) + 1].emplace.node = p
LEMMA SpinePushed ==
  ASSUME NEW h, NEW hi, NEW c, NEW d, NEW p \in Nat \ {0},
         OnSpine(h, hi, c, p), Pushed(h, hi, c, d, p)
  PROVE  OnSpine(h, hi, d, p)
<1> USE DEF Pushed, Null
<1> DEFINE m == Len(c)
<1>1. DOMAIN d = DOMAIN c \cup {m + 1} /\ m \in DOMAIN c
  OBVIOUS
<1>2. /\ \A j \in DOMAIN c : WaitsOK(h, hi, c[j], p)
      /\ \A j, k \in DOMAIN c :
           j < k => c[j].emplace.node < c[k].emplace.node /\ c[j].previous # Null
  BY DEF OnSpine
<1>3. \A j \in DOMAIN c : WaitsOK(h, hi, d[j], p)
  BY <1>2 DEF WaitsOK, Alike
<1>4. ASSUME NEW j \in DOMAIN d, NEW k \in DOMAIN d, j < k
      PROVE  d[j].emplace.node < d[k].emplace.node /\ d[j].previous # Null
  <2>1. j \in DOMAIN c /\ d[j].emplace = c[j].emplace /\ d[j].previous = c[j].previous
    <3>1. j \in DOMAIN c
      BY <1>4
    <3> QED BY <3>1 DEF Alike
  <2>2. CASE k \in DOMAIN c
    <3>1. d[k].emplace = c[k].emplace
      BY <2>2 DEF Alike
    <3> QED BY <1>2, <1>4, <2>1, <2>2, <3>1
  <2>3. CASE k = m + 1
    <3>1. c[j].previous # Null
      <4>1. CASE j = m
        BY <4>1
      <4>2. CASE j # m
        <5>1. j < m
          BY <2>1, <4>2
        <5> QED BY <1>1, <1>2, <2>1, <5>1
      <4> QED BY <4>1, <4>2
    <3> QED BY <2>1, <2>3, <3>1
  <2> QED BY <1>1, <2>2, <2>3
<1> QED BY <1>1, <1>3, <1>4 DEF OnSpine

\* What is read of an operation when the parser is at pos, and when it ends.
ReadSoFar ==
  /\ \E lo, hi : Spans(ast, lo, hi) /\ OnSpine(ast, hi, stack, pos)
  /\ Len(ast) = pos
  /\ \A x \in DOMAIN ast : ast[x].token <= pos - 1
  /\ Top.previous # Null <=> AfterOperand(pos)
  /\ pos <= Size =>
       /\ \A x \in DOMAIN ast : ast[x].token = x - 1
       /\ Top.previous # Null =>
            ast[Top.previous].left = Null /\ ast[Top.previous].right = Null
ReadInOrder ==
  /\ status = "parsing" /\ pos <= Size + 1 => ReadSoFar
  /\ Parsed => /\ \E lo, hi : Spans(ast, lo, hi) /\ hi[Owner] = Size
               /\ Len(ast) = Size + 1

\* The tokens of an operation are neither delimiters nor parentheses.
OperationToken == BinaryOperator \cup Operand \cup {"-", "section"}
LEMMA OperationTokens ==
  \A t \in OperationToken :
    /\ t # "eof" /\ t \notin {")"} /\ t \notin {"("}
    /\ t \notin {";"} /\ t \notin {"]"} /\ t \notin {","} /\ t \notin {",", ")"}
BY Zenon DEF OperationToken, BinaryOperator, Operand

LEMMA OperandsAndOperators ==
  ASSUME NEW t
  PROVE  /\ t \in Operand => t \notin BinaryOperator /\ t \notin {"-", "section"}
         /\ t \in {"-", "section"} => t \notin Operand
         /\ t \in BinaryOperator => t # "section"
BY DEF Operand, BinaryOperator

LEMMA AtAToken ==
  ASSUME IInv, IsOperation, status = "parsing", pos <= Size
  PROVE  /\ Current = stream[pos] /\ Current \in OperationToken
         /\ AfterOperand(pos) => Current \in BinaryOperator
         /\ ~ AfterOperand(pos) => Current \in Operand \cup {"-", "section"}
         /\ Current \notin Top.delims /\ ~ Reading({")"}) /\ ~ Reading({"("})
         /\ Current # "eof"
         /\ AfterOperand(pos + 1) <=> Current \in Operand
         /\ Size \in Nat /\ Len(stream) = Size + 1 /\ pos \in 1 .. Size
<1>1. stream \in Seq(Token) /\ pos \in 1 .. Len(stream) + 1 /\ Len(stream) \in Nat
  BY DEF IInv, TypeOK
<1>2. Size = Len(stream) - 1 /\ Size > 0
  BY DEF Size, IsOperation
<1>3. pos \in 1 .. Size /\ pos <= Len(stream) /\ Size \in Nat /\ Len(stream) = Size + 1
  BY <1>1, <1>2
<1>4. Current = stream[pos]
  BY <1>3 DEF Current
<1>5. Current \in IF AfterOperand(pos) THEN BinaryOperator ELSE Operand \cup {"-", "section"}
  BY <1>3, <1>4 DEF IsOperation
<1>6. Current \in OperationToken
  BY <1>5 DEF OperationToken
<1>7. Current \notin Top.delims
  <2>1. Top.delims \in {{";"}, {"]"}, {","}, {",", ")"}}
    <3>1. Top \in Frame
      BY Now
    <3> QED BY <3>1, DelimitersAssumption DEF Frame
  <2>2. \/ Top.delims = {";"} \/ Top.delims = {"]"}
        \/ Top.delims = {","} \/ Top.delims = {",", ")"}
    BY <2>1
  <2> QED BY <1>6, <2>2, OperationTokens, Zenon
<1>8. ~ Reading({")"}) /\ ~ Reading({"("}) /\ Current # "eof"
  BY <1>6, OperationTokens, Zenon DEF Reading
<1>9. AfterOperand(pos + 1) <=> Current \in Operand
  BY <1>3, <1>4 DEF AfterOperand
<1> QED BY <1>3, <1>4, <1>5, <1>6, <1>7, <1>8, <1>9

\* A node for the current token goes where the expression does.
ForToken(node) ==
  /\ node \in Node /\ node["left"] = Top.previous /\ node["right"] = Null
  /\ node.token = pos /\ OnLeft(node, Top.previous)
LEMMA HeapRead ==
  ASSUME IInv, ReadSoFar, status = "parsing", pos <= Size, NEW node, ForToken(node),
         NEW g, g = Linked(ast, node, Top.emplace),
         NEW d, d = WithPrevious(stack, Fresh)
  PROVE  /\ SpineAt(g, d, pos + 1)
         /\ Len(g) = pos + 1 /\ DOMAIN g = 1 .. pos + 1
         /\ \A x \in DOMAIN g : g[x].token = x - 1
         /\ g[pos + 1].left = Top.previous /\ g[pos + 1].right = Null
         /\ \A j \in DOMAIN d : d[j].emplace.node < pos + 1
<1> DEFINE m == Len(stack)
           n == Top.emplace.node
           q == Top.previous
<1>1. /\ m \in Nat /\ m > 0 /\ DOMAIN stack = 1 .. m /\ Top = stack[m] /\ Top \in Frame
      /\ DOMAIN ast = 1 .. Len(ast) /\ Top.emplace \in Reference /\ Fresh = Len(ast) + 1
  BY Now
<1>2. ast \in Seq(Node) /\ stack \in Seq(Frame) /\ pos \in Nat /\ pos > 0
  BY DEF IInv, TypeOK
<1>3. PICK lo, hi : Spans(ast, lo, hi) /\ OnSpine(ast, hi, stack, pos)
  BY DEF ReadSoFar
<1>4. /\ Len(ast) = pos /\ \A x \in DOMAIN ast : ast[x].token = x - 1
      /\ q # Null => ast[q].left = Null /\ ast[q].right = Null
  BY DEF ReadSoFar
<1>5. /\ n \in DOMAIN ast /\ hi[n] = pos - 1 /\ ast[n].right = q
      /\ Top.emplace.field = "right"
  BY <1>1, <1>3 DEF OnSpine, WaitsOK
<1>6. q # Null => q \in DOMAIN ast
  <2>1. SpanOK(ast, lo, hi, n)
    BY <1>3, <1>5 DEF Spans
  <2> QED BY <1>5, <2>1 DEF SpanOK
<1>7. Read(ast, hi, n, q, pos)
  BY <1>1, <1>4, <1>5, <1>6 DEF Read
<1>8. /\ g \in Seq(Node) /\ Grown(ast, g, Top.emplace, q)
      /\ \A l \in Link : g[Len(ast) + 1][l] = node[l]
      /\ g[Len(ast) + 1].token = node.token
      /\ \A x \in DOMAIN ast : g[x].token = ast[x].token
  <2>1. node \in Node /\ OnLeft(node, q)
    BY DEF ForToken
  <2> HIDE DEF q
  <2> QED BY <1>1, <1>2, <1>5, <2>1, GrownByStore, SMTT(30)
<1>9. Len(g) = pos + 1 /\ DOMAIN g = 1 .. pos + 1 /\ DOMAIN g = DOMAIN ast \cup {pos + 1}
  <2>1. Len(g) = Len(ast) + 1 /\ DOMAIN g = DOMAIN ast \cup {Len(g)}
    BY <1>8 DEF Grown
  <2>2. DOMAIN g = 1 .. Len(g)
    BY <1>8
  <2> QED BY <1>4, <2>1, <2>2
<1>10. "left" \in Link /\ "right" \in Link /\ "left" # "right"
  BY DEF Link
<1>11. ASSUME NEW x \in DOMAIN ast
       PROVE  g[x].left = ast[x].left /\ g[x].right = IF x = n THEN pos + 1 ELSE ast[x].right
  <2>1. ast[x] \in Node /\ g[x] \in Node
    BY <1>2, <1>8, <1>9
  <2>2. /\ g[x].left = g[x]["left"] /\ ast[x].left = ast[x]["left"]
        /\ g[x].right = g[x]["right"] /\ ast[x].right = ast[x]["right"]
    BY <2>1, FieldsOfANode
  <2>3. \A l \in Link :
          g[x][l] = IF Field(x, l) = Top.emplace THEN Len(g) ELSE ast[x][l]
    BY <1>8 DEF Grown
  <2>4. x \in Nat
    BY <1>1
  <2>5. /\ Field(x, "left") # Top.emplace
        /\ Field(x, "right") = Top.emplace <=> x = n
    BY <1>1, <1>5, <1>10, <2>4, FieldFacts
  <2> QED BY <1>9, <1>10, <2>2, <2>3, <2>5
<1>12. g[pos + 1].left = q /\ g[pos + 1].right = Null /\ g[pos + 1].token = pos
  <2>1. g[pos + 1] \in Node
    BY <1>8, <1>9
  <2>2. g[pos + 1].left = g[pos + 1]["left"] /\ g[pos + 1].right = g[pos + 1]["right"]
    BY <2>1, FieldsOfANode
  <2> QED BY <1>4, <1>8, <1>10, <2>2 DEF ForToken
<1>13. Extended(ast, g, n, q, pos)
  BY <1>8, <1>9, <1>11, <1>12 DEF Extended
<1>14. /\ Len(d) = m /\ DOMAIN d = DOMAIN stack /\ Advanced(stack, d, pos + 1)
       /\ d[m].previous = pos + 1
  <2>1. Fresh \in Nat /\ Fresh = pos + 1
    BY <1>1, <1>2, <1>4
  <2> QED BY <1>1, <1>2, <2>1, PreviousStored
<1>15. SpineAt(g, d, pos + 1)
  <2> DEFINE c == stack
  <2>1. /\ Len(c) \in Nat /\ Len(c) > 0 /\ DOMAIN c = 1 .. Len(c) /\ pos \in Nat
        /\ Spans(ast, lo, hi) /\ OnSpine(ast, hi, c, pos)
        /\ Advanced(c, d, pos + 1) /\ d[Len(c)].previous = pos + 1
    BY <1>1, <1>2, <1>3, <1>14
  <2>2. n = c[Len(c)].emplace.node /\ q = c[Len(c)].previous
    BY <1>1
  <2>3. /\ Read(ast, hi, c[Len(c)].emplace.node, c[Len(c)].previous, pos)
        /\ Extended(ast, g, c[Len(c)].emplace.node, c[Len(c)].previous, pos)
    BY <1>7, <1>13, <2>2
  <2>4. Stored(ast, g, lo, hi, c, d, pos)
    BY <2>1, <2>3 DEF Stored
  <2> HIDE DEF c
  <2> QED BY <2>1, <2>4, SpineExtended
<1>16. \A x \in DOMAIN g : g[x].token = x - 1
  BY <1>2, <1>4, <1>8, <1>9, <1>12
<1>17. ASSUME NEW j \in DOMAIN d PROVE d[j].emplace.node < pos + 1
  <2>1. j \in DOMAIN stack /\ d[j].emplace = stack[j].emplace
    BY <1>14, <1>17 DEF Advanced
  <2>2. stack[j].emplace.node \in DOMAIN ast
    BY <1>3, <2>1 DEF OnSpine, WaitsOK
  <2> QED BY <1>1, <1>4, <2>1, <2>2
<1> QED BY <1>9, <1>12, <1>15, <1>16, <1>17

LEMMA OperandRead ==
  ASSUME IInv, IsOperation, ReadSoFar, status = "parsing", pos <= Size,
         Current \in Operand, Emplace(Current, Top.emplace)
  PROVE  ReadSoFar'
<1> DEFINE node == NewNode(Current, pos)
           m == Len(stack)
<1>1. /\ m \in Nat /\ m > 0 /\ stack \in Seq(Frame) /\ pos \in Nat /\ pos > 0
      /\ Fresh = pos + 1
  <2>1. stack \in Seq(Frame) /\ pos \in Nat /\ pos > 0
    BY DEF IInv, TypeOK
  <2> QED BY <2>1, Now DEF ReadSoFar
<1>2. Top.previous = Null /\ AfterOperand(pos + 1)
  BY AtAToken, OperandsAndOperators DEF ReadSoFar
<1>3. ForToken(node)
  <2>1. Current \in NodeType
    <3>1. Current \in Token
      BY CurrentFacts DEF IInv
    <3> QED BY <3>1 DEF NodeType
  <2>2. node \in Node /\ node.token = pos /\ \A l \in Link : node[l] = Null
    BY <1>1, <2>1, NewNodeFacts
  <2> HIDE DEF node
  <2> QED BY <1>2, <2>2 DEF ForToken, OnLeft, Link, Null
<1>4. /\ ast' = Linked(ast, node, Top.emplace) /\ stack' = WithPrevious(stack, Fresh)
      /\ pos' = pos + 1 /\ stream' = stream /\ status' = status
  BY DEF Emplace, Linked, WithPrevious, Fresh
<1> HIDE DEF node
<1>5. /\ SpineAt(ast', stack', pos + 1) /\ Len(ast') = pos + 1 /\ DOMAIN ast' = 1 .. pos + 1
      /\ \A x \in DOMAIN ast' : ast'[x].token = x - 1
      /\ ast'[pos + 1].left = Null /\ ast'[pos + 1].right = Null
  BY <1>2, <1>3, <1>4, HeapRead
<1>6. Top'.previous = pos + 1
  <2>1. stack' \in Seq(Frame) /\ Len(stack') = m /\ stack'[m].previous = pos + 1
    BY <1>1, <1>4, PreviousStored
  <2>2. Top' = stack'[m]
    BY <1>1, <2>1 DEF Top, Last
  <2> QED BY <2>1, <2>2
<1>7. pos + 1 # Null
  BY <1>1 DEF Null
<1>8. \E lo, hi : Spans(ast', lo, hi) /\ OnSpine(ast', hi, stack', pos')
  BY <1>4, <1>5 DEF SpineAt
<1>9. \A x \in DOMAIN ast' : ast'[x].token <= pos' - 1
  BY <1>1, <1>4, <1>5
<1>10. AfterOperand(pos)' /\ Top'.previous # Null
  <2>1. AfterOperand(pos)' <=> AfterOperand(pos + 1)
    BY <1>4 DEF AfterOperand
  <2> QED BY <1>2, <1>6, <1>7, <2>1
<1> QED BY <1>4, <1>5, <1>6, <1>8, <1>9, <1>10 DEF ReadSoFar

LEMMA OperatorRead ==
  ASSUME IInv, IsOperation, ReadSoFar, status = "parsing", pos <= Size,
         Current \notin Operand, NEW node, ForToken(node), NEW by \in {"unary", "binary"},
         Operation(node, by)
  PROVE  ReadSoFar'
<1> DEFINE m == Len(stack)
           d == WithPrevious(stack, Fresh)
           f == Call(Field(Fresh, "right"), Top.delims, by, Fresh)
<1>1. /\ m \in Nat /\ m > 0 /\ stack \in Seq(Frame) /\ pos \in Nat /\ pos > 0
      /\ Fresh = pos + 1 /\ Fresh \in Nat /\ Top \in Frame
  <2>1. stack \in Seq(Frame) /\ pos \in Nat /\ pos > 0
    BY DEF IInv, TypeOK
  <2> QED BY <2>1, Now DEF ReadSoFar
<1>2. ~ AfterOperand(pos + 1)
  BY AtAToken
<1>3. /\ f \in Frame /\ f.emplace = Field(Fresh, "right") /\ f.previous = Null
      /\ f.by = by /\ f.node = Fresh
      /\ f.emplace.node = Fresh /\ f.emplace.field = "right"
  <2>1. Field(Fresh, "right") \in Reference /\ Field(Fresh, "right").node = Fresh
        /\ Field(Fresh, "right").field = "right"
    BY <1>1 DEF Field, Reference, Link
  <2>2. by \in CallBy /\ Top.delims \in CallDelims /\ Fresh \in Nat
    BY <1>1, DelimsFacts DEF CallBy
  <2> QED BY <2>1, <2>2, CallFacts
<1>4. /\ stack' = Append(d, f) /\ pos' = pos + 1 /\ ast' = Linked(ast, node, Top.emplace)
      /\ stream' = stream /\ status' = status
  BY DEF Operation, WithPrevious, Linked, Fresh
<1>5. d = WithPrevious(stack, Fresh)
  OBVIOUS
<1> HIDE DEF f, d
<1>6. /\ SpineAt(ast', d, pos + 1) /\ Len(ast') = pos + 1 /\ DOMAIN ast' = 1 .. pos + 1
      /\ \A x \in DOMAIN ast' : ast'[x].token = x - 1
      /\ ast'[pos + 1].right = Null
      /\ \A j \in DOMAIN d : d[j].emplace.node < pos + 1
  BY <1>4, <1>5, HeapRead
<1>7. /\ d \in Seq(Frame) /\ Len(d) = m /\ DOMAIN d = 1 .. m /\ d[m].previous = pos + 1
  BY <1>1, <1>5, PreviousStored
<1>8. /\ stack' \in Seq(Frame) /\ Len(stack') = m + 1 /\ DOMAIN stack' = 1 .. m + 1
      /\ stack'[m + 1] = f /\ \A j \in DOMAIN d : Alike(stack'[j], d[j])
  BY <1>3, <1>4, <1>7, FrameAppended
<1>9. Top' = f
  BY <1>1, <1>8 DEF Top, Last
<1>10. PICK lo, hi : /\ Spans(ast', lo, hi) /\ OnSpine(ast', hi, d, pos + 1)
                     /\ hi[pos + 1] = (pos + 1) - 1
  <2>1. SpineAt(ast', d, pos + 1)
    BY <1>6
  <2> QED BY <2>1, Zenon DEF SpineAt
<1>11. WaitsOK(ast', hi, f, pos + 1)
  <2>1. pos + 1 # Owner /\ pos + 1 \in DOMAIN ast'
    BY <1>1, <1>6 DEF Owner
  <2> QED BY <1>1, <1>3, <1>6, <1>10, <2>1 DEF WaitsOK
<1>12. OnSpine(ast', hi, stack', pos + 1)
  <2>1. Pushed(ast', hi, d, stack', pos + 1)
    BY <1>1, <1>3, <1>6, <1>7, <1>8, <1>11 DEF Pushed
  <2>2. pos + 1 \in Nat \ {0}
    BY <1>1
  <2> QED BY <1>10, <2>1, <2>2, SpinePushed
<1>13. \E a, e : Spans(ast', a, e) /\ OnSpine(ast', e, stack', pos')
  BY <1>4, <1>10, <1>12
<1>14. \A x \in DOMAIN ast' : ast'[x].token <= pos' - 1
  BY <1>1, <1>4, <1>6
<1>15. ~ AfterOperand(pos)' /\ Top'.previous = Null
  <2>1. AfterOperand(pos)' <=> AfterOperand(pos + 1)
    BY <1>4 DEF AfterOperand
  <2> QED BY <1>2, <1>3, <1>9, <2>1
<1> QED BY <1>4, <1>6, <1>13, <1>14, <1>15 DEF ReadSoFar

\* A call returns at the delimiter.
LEMMA SpinePopped ==
  ASSUME NEW h, NEW g, NEW hi, NEW hi2, NEW c, NEW d, NEW p,
         DOMAIN d \subseteq DOMAIN c, \A j \in DOMAIN d : d[j] = c[j],
         OnSpine(h, hi, c, p), DOMAIN g = DOMAIN h,
         \A j \in DOMAIN d : LET n == c[j].emplace.node
                             IN  hi2[n] = hi[n] /\ g[n].right = h[n].right
  PROVE  OnSpine(g, hi2, d, p)
<1>1. ASSUME NEW j \in DOMAIN d PROVE WaitsOK(g, hi2, d[j], p)
  <2>1. WaitsOK(h, hi, c[j], p) /\ d[j] = c[j]
    BY DEF OnSpine
  <2> QED BY <2>1 DEF WaitsOK
<1>2. \A j, k \in DOMAIN d :
        j < k => d[j].emplace.node < d[k].emplace.node /\ d[j].previous # Null
  BY DEF OnSpine
<1> QED BY <1>1, <1>2 DEF OnSpine

\* What is left of the stack when a call returns and another one goes on.
LEMMA LeftToRead ==
  ASSUME IInv, IsOperation, ReadSoFar, status = "parsing", pos = Size + 1,
         Top.by # "owner", stack' = Front(stack), pos' = pos, stream' = stream,
         Len(ast') = Len(ast), \A x \in DOMAIN ast' : ast'[x].token <= pos - 1,
         \E lo, hi : Spans(ast', lo, hi) /\ OnSpine(ast', hi, stack', pos)
  PROVE  ReadSoFar'
<1> DEFINE m == Len(stack)
<1>1. /\ m \in Nat /\ DOMAIN stack = 1 .. m /\ stack' \in Seq(Frame)
      /\ Len(stack') = m - 1 /\ \A j \in 1 .. m - 1 : stack'[j] = stack[j]
  BY Now, Zenon
<1>2. m > 1
  <2>1. PICK b \in Seq(Nat), dead \in SUBSET DOMAIN ast : Shape(b, dead, ast, stack)
    BY DEF IInv
  <2> QED BY <2>1, Under
<1>3. Top' = stack[m - 1]
  <2>1. Top' = stack'[m - 1]
    BY <1>1, <1>2 DEF Top, Last
  <2> QED BY <1>1, <1>2, <2>1
<1>4. Top'.previous # Null
  <2>1. PICK lo, hi : OnSpine(ast, hi, stack, pos)
    BY DEF ReadSoFar
  <2>2. m - 1 \in DOMAIN stack /\ m \in DOMAIN stack /\ m - 1 < m
    BY <1>1, <1>2
  <2> QED BY <1>3, <2>1, <2>2 DEF OnSpine
<1>5. AfterOperand(pos)'
  <2>1. Size > 0 /\ stream[Size] \in Operand /\ Size \in Nat
    BY DEF IsOperation, Size, IInv, TypeOK
  <2> QED BY <2>1 DEF AfterOperand
<1>6. ~ (pos' <= Size')
  <2>1. Size' = Size /\ Size \in Nat
    BY DEF IsOperation, Size, IInv, TypeOK
  <2> QED BY <2>1
<1>7. Len(ast') = pos' /\ \A x \in DOMAIN ast' : ast'[x].token <= pos' - 1
  BY DEF ReadSoFar
<1> QED BY <1>4, <1>5, <1>6, <1>7, Zenon DEF ReadSoFar

LEMMA ReturnRead ==
  ASSUME IInv, IsOperation, ReadSoFar, status = "parsing", pos = Size + 1,
         Top.by # "owner", stack' = Front(stack), ast' = ast, pos' = pos, stream' = stream
  PROVE  ReadSoFar'
<1>1. PICK lo, hi : Spans(ast, lo, hi) /\ OnSpine(ast, hi, stack, pos)
  BY DEF ReadSoFar
<1>2. /\ DOMAIN Front(stack) \subseteq DOMAIN stack
      /\ \A j \in DOMAIN Front(stack) : Front(stack)[j] = stack[j]
  BY Now
<1>3. OnSpine(ast, hi, Front(stack), pos)
  BY <1>1, <1>2, SpinePopped
<1>4. \E a, e : Spans(ast', a, e) /\ OnSpine(ast', e, stack', pos)
  BY <1>1, <1>3
<1>5. Len(ast') = Len(ast) /\ \A x \in DOMAIN ast' : ast'[x].token <= pos - 1
  BY DEF ReadSoFar
<1> QED BY <1>4, <1>5, LeftToRead

\* An operator and the one on its right swap.
LEMMA RotationRead ==
  ASSUME IInv, IsOperation, ReadSoFar, status = "parsing", pos = Size + 1,
         Top.by = "binary", stack' = Front(stack), pos' = pos, stream' = stream,
         NEW r, r = ast[Top.node].right, IsBinaryOperator(ast, r),
         ast' = Rotated(ast, Top.node, r)
  PROVE  ReadSoFar'
<1> DEFINE m == Len(stack)
           n == Top.node
<1>1. /\ m \in Nat /\ m > 0 /\ DOMAIN stack = 1 .. m /\ Top = stack[m]
      /\ DOMAIN Front(stack) = 1 .. m - 1 /\ \A j \in 1 .. m - 1 : Front(stack)[j] = stack[j]
      /\ DOMAIN ast = 1 .. Len(ast)
  BY Now
<1>2. ast \in Seq(Node) /\ pos \in Nat
  BY DEF IInv, TypeOK
<1>3. PICK lo, hi : Spans(ast, lo, hi) /\ OnSpine(ast, hi, stack, pos)
  BY DEF ReadSoFar
<1>4. \A j \in 1 .. m : WaitsOK(ast, hi, stack[j], pos)
  BY <1>1, <1>3 DEF OnSpine
<1>5. /\ n \in DOMAIN ast /\ n # Owner /\ hi[n] = pos - 1 /\ r = ast[n].right
      /\ Top.emplace.node = n
      /\ r # Null /\ r > n
  <2>1. WaitsOK(ast, hi, Top, pos)
    BY <1>1, <1>4
  <2>2. /\ Top.emplace.node = n /\ n \in DOMAIN ast /\ hi[n] = pos - 1
        /\ ast[n].right = Top.previous /\ n # Owner
        /\ Top.previous = Null \/ Top.previous > n
    BY <2>1 DEF WaitsOK
  <2> QED BY <2>2 DEF IsBinaryOperator
<1> HIDE DEF n
<1>6. r \in DOMAIN ast
  <2>1. SpanOK(ast, lo, hi, n)
    BY <1>3, <1>5 DEF Spans
  <2> QED BY <1>5, <2>1 DEF SpanOK
<1>7. n # r
  BY <1>1, <1>5, <1>6
<1> DEFINE g == Rotated(ast, n, r)
<1>8. /\ g \in Seq(Node) /\ Len(g) = Len(ast)
      /\ \A x \in DOMAIN ast \ {n, r} : g[x] = ast[x]
      /\ g[n]["left"] = r /\ g[n]["right"] = ast[r]["right"]
      /\ g[r]["left"] = ast[n]["left"] /\ g[r]["right"] = ast[r]["left"]
      /\ g[n].token = ast[r].token /\ g[r].token = ast[n].token
  BY <1>2, <1>5, <1>6, <1>7, RotatedFacts
<1>9. ast' = g
  BY DEF n
<1> HIDE DEF g
<1>10. DOMAIN g = DOMAIN ast
  <2>1. \A s \in Seq(Node) : DOMAIN s = 1 .. Len(s)
    OBVIOUS
  <2>2. g \in Seq(Node) /\ Len(g) = Len(ast)
    BY <1>8
  <2> QED BY <1>2, <2>1, <2>2
<1>11. Turned(ast, g, n, r)
  <2>1. ast[n] \in Node /\ ast[r] \in Node /\ g[n] \in Node /\ g[r] \in Node
    BY <1>2, <1>5, <1>6, <1>8, <1>10
  <2>2. /\ g[n].left = g[n]["left"] /\ g[n].right = g[n]["right"]
        /\ g[r].left = g[r]["left"] /\ g[r].right = g[r]["right"]
        /\ ast[n].left = ast[n]["left"] /\ ast[r].left = ast[r]["left"]
        /\ ast[r].right = ast[r]["right"]
    BY <2>1, FieldsOfANode
  <2> QED BY <1>8, <1>10, <2>2 DEF Turned
<1>12. \A x \in DOMAIN ast : ast[x].token <= pos - 1 /\ ast[x].token \in Nat
  <2>1. \A x \in DOMAIN ast : ast[x] \in Node
    BY <1>2
  <2> QED BY <2>1 DEF ReadSoFar, Node
<1>13. PICK lo2, hi2 : Spans(g, lo2, hi2) /\ \A x \in DOMAIN ast : x # r => hi2[x] = hi[x]
  <2>1. Turnable(ast, hi, n, r, pos)
    BY <1>5, <1>12 DEF Turnable
  <2> QED BY <1>2, <1>3, <1>11, <2>1, SpansTurned
<1>14. ASSUME NEW j \in 1 .. m - 1
       PROVE  LET x == stack[j].emplace.node
              IN  hi2[x] = hi[x] /\ g[x].right = ast[x].right
  <2> DEFINE x == stack[j].emplace.node
  <2>1. j \in 1 .. m /\ m \in 1 .. m /\ j < m
    BY <1>1
  <2>2. x \in DOMAIN ast
    BY <1>4, <2>1 DEF WaitsOK
  <2>3. x < n
    BY <1>1, <1>3, <1>5, <2>1 DEF OnSpine
  <2> HIDE DEF x
  <2>4. x # n /\ x # r
    BY <1>1, <1>5, <1>6, <2>2, <2>3
  <2>5. hi2[x] = hi[x] /\ g[x].right = ast[x].right
    BY <1>8, <1>13, <2>2, <2>4
  <2> QED BY <2>5 DEF x
<1>15. OnSpine(g, hi2, Front(stack), pos)
  <2> DEFINE c == stack
             d == Front(stack)
  <2>1. DOMAIN d \subseteq DOMAIN c /\ \A j \in DOMAIN d : d[j] = c[j]
    BY <1>1
  <2>2. \A j \in DOMAIN d : LET x == c[j].emplace.node
                            IN  hi2[x] = hi[x] /\ g[x].right = ast[x].right
    BY <1>1, <1>14
  <2>3. OnSpine(ast, hi, c, pos)
    BY <1>3
  <2> HIDE DEF c, d
  <2>4. OnSpine(g, hi2, d, pos)
    BY <1>10, <2>1, <2>2, <2>3, SpinePopped
  <2> QED BY <2>4 DEF d
<1>16. \E a, e : Spans(ast', a, e) /\ OnSpine(ast', e, stack', pos)
  BY <1>9, <1>13, <1>15
<1>17. Len(ast') = Len(ast) /\ \A x \in DOMAIN ast' : ast'[x].token <= pos - 1
  <2>1. ASSUME NEW x \in DOMAIN ast PROVE g[x].token <= pos - 1
    <3>1. CASE x = n
      BY <1>6, <1>8, <1>12, <3>1
    <3>2. CASE x = r
      BY <1>5, <1>8, <1>12, <3>2
    <3>3. CASE x \notin {n, r}
      BY <1>8, <1>12, <3>3
    <3> QED BY <3>1, <3>2, <3>3
  <2> QED BY <1>8, <1>9, <1>10, <2>1
<1> QED BY <1>16, <1>17, LeftToRead

\* The rest is lost when the last token is not the delimiter.
LEMMA BeyondRead ==
  ASSUME TypeOK, status' # "done", stream' = stream, pos' \in Int,
         status' # "parsing" \/ pos' > Size + 1
  PROVE  ReadInOrder'
<1>1. Size' = Size
  BY DEF Size
<1>3. Size \in Int
  BY DEF Size, TypeOK
<1>4. ~ Parsed'
  BY DEF Parsed
<1>5. status' # "parsing" \/ ~ (pos' <= Size' + 1)
  BY <1>1, <1>3
<1> QED BY <1>4, <1>5 DEF ReadInOrder

LEMMA EndRead ==
  ASSUME IInv, IsOperation, ReadSoFar, status = "parsing", pos = Size + 1,
         Return, pos' \in {pos, pos + 1}, stream' = stream
  PROVE  ReadInOrder'
<1>1. PICK lo, hi : Spans(ast, lo, hi) /\ OnSpine(ast, hi, stack, pos)
  BY DEF ReadSoFar
<1>2. WaitsOK(ast, hi, Top, pos)
  <2>1. Len(stack) \in DOMAIN stack /\ Top = stack[Len(stack)]
    BY Now
  <2> QED BY <1>1, <2>1 DEF OnSpine
<1>3. TypeOK /\ Size \in Int /\ pos \in Nat
  BY DEF IInv, TypeOK, Size
<1>4. CASE Top.by = "owner" /\ ReturnToOwner
  <2>1. status' = "done" /\ ast' = ast
    BY <1>4 DEF ReturnToOwner
  <2>2. hi[Owner] = pos - 1
    BY <1>2, <1>4 DEF WaitsOK
  <2>3. Size' = Size /\ pos - 1 = Size /\ Len(ast) = Size + 1
    BY <1>3 DEF Size, ReadSoFar
  <2>4. \E a, e : Spans(ast', a, e) /\ e[Owner] = Size'
    BY <1>1, <2>1, <2>2, <2>3
  <2>5. Len(ast') = Size' + 1 /\ status' # "parsing"
    BY <2>1, <2>3
  <2> QED BY <2>4, <2>5 DEF ReadInOrder
<1>5. CASE Top.by # "owner"
  <2>1. \/ Top.by = "unary" /\ ReturnToUnary
        \/ Top.by = "binary" /\ ReturnToBinary
    BY <1>2, <1>5 DEF WaitsOK, Return
  <2>2. stack' = Front(stack) /\ status' = status
    BY <2>1 DEF ReturnToUnary, ReturnToBinary
  <2>3. CASE pos' = pos + 1
    <3>1. pos' > Size + 1
      BY <1>3, <2>3
    <3> QED BY <1>3, <2>2, <3>1, BeyondRead
  <2>4. CASE pos' = pos
    <3>1. ReadSoFar'
      <4>1. CASE ast' = ast
        BY <1>5, <2>2, <2>4, <4>1, ReturnRead
      <4>2. CASE ast' # ast
        <5> DEFINE r == ast[Top.node].right
        <5>1. Top.by = "binary" /\ ast' = FixOperationsOrder(ast, Top.node)
          BY <2>1, <4>2 DEF ReturnToUnary, ReturnToBinary
        <5>2. IsBinaryOperator(ast, r) /\ ast' = Rotated(ast, Top.node, r)
          BY <4>2, <5>1 DEF FixOperationsOrder
        <5>3. r = ast[Top.node].right
          OBVIOUS
        <5> HIDE DEF r
        <5> QED BY <2>2, <2>4, <5>1, <5>2, <5>3, RotationRead
      <4> QED BY <4>1, <4>2
    <3>2. ~ Parsed'
      BY <2>2 DEF Parsed
    <3> QED BY <3>1, <3>2 DEF ReadInOrder
  <2> QED BY <2>3, <2>4
<1> QED BY <1>4, <1>5 DEF Return

\* A token of the operation is read, or the rest is lost.
LEMMA GrowthRead ==
  ASSUME IInv, status = "parsing", status' = status, stream' = stream,
         pos' = pos + 1, pos <= Size => ReadSoFar'
  PROVE  ReadInOrder'
<1>1. TypeOK /\ Size \in Int /\ pos \in Nat
  BY DEF IInv, TypeOK, Size
<1>2. CASE pos <= Size
  <2>1. ~ Parsed'
    BY DEF Parsed
  <2> QED BY <1>2, <2>1 DEF ReadInOrder
<1>3. CASE pos > Size
  BY <1>1, <1>3, BeyondRead
<1> QED BY <1>1, <1>2, <1>3

LEMMA NextRead ==
  ASSUME IInv, IsOperation, ReadInOrder, [Next]_vars
  PROVE  ReadInOrder'
<1>0. /\ TypeOK /\ stream \in Seq(Token) /\ Len(stream) \in Nat /\ pos \in 1 .. Len(stream) + 1
      /\ Size = Len(stream) - 1 /\ Size \in Nat /\ Size > 0
  BY DEF IInv, TypeOK, Size, IsOperation
<1>1. CASE status # "parsing" \/ UNCHANGED vars
  <2>1. UNCHANGED vars
    BY <1>1 DEF Next, ReadDelimiter, ReadCloseParenthesis, ReadEndOfArgument,
         ReachEndOfFile, ReadUnexpected, ReadOperand, ReadIdentifier,
         ReadFunctionCall, ReadOpenParenthesis, ReadBinaryOperator, Binary,
         ReadUnaryOperator, Unary, OperatorAsserts, Reading
  <2> QED BY <2>1 DEF vars, ReadInOrder, ReadSoFar, Parsed, Size, Top, AfterOperand
<1>2. CASE status = "parsing" /\ Next
  <2>1. pos <= Size + 1 => ReadSoFar
    BY <1>2 DEF ReadInOrder
  <2>2. pos <= Size =>
          /\ Current \notin Top.delims /\ ~ Reading({")"}) /\ ~ Reading({"("})
          /\ AfterOperand(pos) => Current \in BinaryOperator
          /\ ~ AfterOperand(pos) => Current \in Operand \cup {"-", "section"}
          /\ Top.previous # Null <=> AfterOperand(pos)
    <3>1. pos <= Size => ReadSoFar
      BY <1>0, <2>1
    <3> QED BY <1>2, <3>1, AtAToken DEF ReadSoFar
  <2>3. pos > Size + 1 => Current = "eof" /\ Current \notin Top.delims
    <3>1. Top \in Frame
      BY <1>2, Now
    <3>2. pos > Size + 1 => Current = "eof"
      BY <1>0 DEF Current
    <3> QED BY <3>1, <3>2, DelimsFacts
  <2>4. CASE ReadDelimiter
    <3>1. pos = Size + 1
      BY <1>0, <2>2, <2>3, <2>4 DEF ReadDelimiter
    <3> QED BY <1>0, <1>2, <2>1, <2>4, <3>1, EndRead DEF ReadDelimiter
  <2>5. CASE ReadCloseParenthesis
    <3>1. Current # "eof" /\ Reading({")"})
      BY <2>5 DEF ReadCloseParenthesis, Reading
    <3>2. pos = Size + 1
      BY <1>0, <2>2, <2>3, <3>1
    <3> QED BY <1>0, <1>2, <2>1, <2>5, <3>2, EndRead DEF ReadCloseParenthesis
  <2>6. CASE ReadEndOfArgument
    <3>1. pos = Size + 1 /\ Top.by = "argument"
      BY <1>0, <2>2, <2>3, <2>6 DEF ReadEndOfArgument
    <3>2. PICK lo, hi : OnSpine(ast, hi, stack, pos)
      BY <1>0, <2>1, <3>1 DEF ReadSoFar
    <3>3. Len(stack) \in DOMAIN stack /\ Top = stack[Len(stack)]
      BY <1>2, Now
    <3> QED BY <3>1, <3>2, <3>3 DEF OnSpine, WaitsOK
  <2>7. CASE ReachEndOfFile
    BY <1>0, <2>7, BeyondRead DEF ReachEndOfFile
  <2>8. CASE ReadUnexpected
    <3>1. status' = "looping" /\ stream' = stream /\ pos' = pos
      BY <2>8, Zenon DEF ReadUnexpected
    <3> QED BY <1>0, <3>1, BeyondRead
  <2>9. CASE OperatorAsserts
    BY <1>0, <2>9, BeyondRead DEF OperatorAsserts
  <2>10. CASE ReadOperand
    <3>1. Emplace(Current, Top.emplace) /\ Current \in {"literal", "basic_type"}
      BY <2>10 DEF ReadOperand, Reading
    <3>2. Current \in Operand
      BY <3>1 DEF Operand
    <3>3. pos <= Size => ReadSoFar'
      BY <1>0, <1>2, <2>1, <3>1, <3>2, OperandRead
    <3> QED BY <1>2, <3>1, <3>3, GrowthRead DEF Emplace
  <2>11. CASE ReadIdentifier
    <3>1. Current = "identifier" /\ Current \in Operand
      BY <2>11 DEF ReadIdentifier, Reading, Operand
    <3>2. PICK ref : Emplace("identifier", ref) /\ (~ IsBinaryOperator(ast, Top.previous) => ref = Top.emplace)
      BY <2>11 DEF ReadIdentifier
    <3>3. ASSUME pos <= Size PROVE ReadSoFar'
      <4>1. Top.previous = Null
        BY <2>2, <3>1, <3>3, OperandsAndOperators
      <4>2. Emplace(Current, Top.emplace)
        BY <3>1, <3>2, <4>1 DEF IsBinaryOperator
      <4> QED BY <1>0, <1>2, <2>1, <3>1, <3>3, <4>2, OperandRead
    <3> QED BY <1>2, <3>2, <3>3, GrowthRead DEF Emplace
  <2>12. CASE ReadFunctionCall
    <3>1. /\ Current = "identifier" /\ Following = "(" /\ pos' = pos + 2
          /\ stream' = stream /\ status' = status
      BY <2>12 DEF ReadFunctionCall, Reading
    <3>2. ~ (pos < Size)
      <4> SUFFICES ASSUME pos < Size PROVE FALSE
        OBVIOUS
      <4>1. Current = stream[pos] /\ Current \in Operand
        BY <1>0, <3>1 DEF Current, Operand
      <4>2. AfterOperand(pos + 1)
        BY <1>0, <4>1 DEF AfterOperand
      <4>3. pos + 1 \in 1 .. Size
        BY <1>0
      <4>4. stream[pos + 1] \in BinaryOperator
        BY <4>2, <4>3 DEF IsOperation
      <4>5. stream[pos + 1] = "("
        BY <1>0, <3>1 DEF Following
      <4>6. "(" \in BinaryOperator
        BY <4>4, <4>5, Zenon
      <4> QED BY <4>6, OperationTokens, Zenon DEF OperationToken
    <3>3. pos' > Size + 1
      BY <1>0, <3>1, <3>2
    <3> QED BY <1>0, <1>2, <3>1, <3>3, BeyondRead
  <2>13. CASE ReadOpenParenthesis
    <3>1. Reading({"("}) /\ pos' = pos + 1 /\ stream' = stream /\ status' = status
      BY <2>13 DEF ReadOpenParenthesis
    <3>2. pos' > Size + 1
      BY <1>0, <2>2, <3>1
    <3> QED BY <1>0, <1>2, <3>1, <3>2, BeyondRead
  <2>14. CASE ReadBinaryOperator
    <3> DEFINE node == BinaryNode(Current, pos, Top.previous)
    <3>1. Operation(node, "binary") /\ Top.previous # Null /\ Current \in BinaryOperator
      BY <2>14 DEF ReadBinaryOperator, Binary, Reading, BinaryOperator, BinaryNode
    <3>2. ForToken(node)
      <4>1. Top.previous \in Nat /\ Current \in NodeType /\ pos \in Nat
        <5>1. Top \in Frame
          BY <1>2, Now
        <5>2. Top.previous \in Nat
          BY <5>1 DEF Frame
        <5>3. Current \in NodeType
          <6>1. Current \in Token
            BY <1>0, CurrentFacts
          <6> QED BY <6>1 DEF NodeType
        <5> QED BY <1>0, <5>2, <5>3
      <4>2. /\ node \in Node /\ node.token = pos
            /\ \A l \in Link : node[l] = IF l = "left" THEN Top.previous ELSE Null
        BY <4>1, BinaryNodeFacts
      <4> HIDE DEF node
      <4> QED BY <4>2 DEF ForToken, OnLeft, Link, Null
    <3> HIDE DEF node
    <3>3. pos <= Size => ReadSoFar'
      <4>1. Current \notin Operand
        BY <3>1, OperandsAndOperators
      <4> QED BY <1>0, <1>2, <2>1, <3>1, <3>2, <4>1, OperatorRead
    <3> QED BY <1>2, <3>1, <3>3, GrowthRead DEF Operation
  <2>15. CASE ReadUnaryOperator
    <3> DEFINE type == IF Current = "-" THEN "negative" ELSE "address_of"
               node == NewNode(type, pos)
    <3>1. Operation(node, "unary") /\ Top.previous = Null /\ Current \in {"-", "section"}
      BY <2>15 DEF ReadUnaryOperator, Unary, Reading
    <3>2. ForToken(node)
      <4>1. type \in NodeType /\ pos \in Nat
        BY <1>0 DEF NodeType
      <4> HIDE DEF type
      <4>2. node \in Node /\ node.token = pos /\ \A l \in Link : node[l] = Null
        BY <4>1, NewNodeFacts
      <4> HIDE DEF node
      <4> QED BY <3>1, <4>2 DEF ForToken, OnLeft, Link, Null
    <3> HIDE DEF node, type
    <3>3. pos <= Size => ReadSoFar'
      <4>1. Current \notin Operand
        BY <3>1, OperandsAndOperators
      <4> QED BY <1>0, <1>2, <2>1, <3>1, <3>2, <4>1, OperatorRead
    <3> QED BY <1>2, <3>1, <3>3, GrowthRead DEF Operation
  <2> QED BY <1>2, <2>4, <2>5, <2>6, <2>7, <2>8, <2>9, <2>10, <2>11, <2>12, <2>13,
             <2>14, <2>15 DEF Next
<1> QED BY <1>1, <1>2

LEMMA InitRead ==
  ASSUME Init, IInv, IsOperation
  PROVE  ReadInOrder
<1> DEFINE n == NewNode("owner", 0)
<1>1. /\ n \in Node /\ n.token = 0 /\ n.left = Null /\ n.right = Null
  BY DEF NewNode, Node, NodeType, Pointer, Null, Uninitialized
<1>2. PICK e \in Delimiters :
         stack = <<Call(Field(Owner, "right"), e, "owner", Owner)>>
  BY DEF Init
<1> DEFINE f == Call(Field(Owner, "right"), e, "owner", Owner)
<1>3. /\ f.emplace.node = Owner /\ f.emplace.field = "right" /\ f.previous = Null
      /\ f.by = "owner"
  BY DEF Call, Field
<1>4. ast = <<n>> /\ pos = 1 /\ status = "parsing"
  BY DEF Init
<1>5. stack = <<f>>
  BY <1>2
<1> HIDE DEF n, f
<1>6. /\ Len(ast) = 1 /\ DOMAIN ast = {1} /\ ast[1] = n
      /\ Len(stack) = 1 /\ DOMAIN stack = {1} /\ stack[1] = f
  BY <1>4, <1>5
<1>7. Top = f
  BY <1>6 DEF Top, Last
<1> DEFINE z == [x \in {1} |-> 0]
<1>8. Spans(ast, z, z)
  BY <1>1, <1>6 DEF Spans, SpanOK, Owner
<1>9. OnSpine(ast, z, stack, 1)
  BY <1>1, <1>3, <1>6 DEF OnSpine, WaitsOK, Owner
<1>10. ~ AfterOperand(1)
  BY DEF AfterOperand
<1> HIDE DEF z
<1>11. \E lo, hi : Spans(ast, lo, hi) /\ OnSpine(ast, hi, stack, pos)
  BY <1>4, <1>8, <1>9
<1>12. ReadSoFar
  BY <1>1, <1>3, <1>4, <1>6, <1>7, <1>10, <1>11 DEF ReadSoFar
<1> QED BY <1>4, <1>12 DEF ReadInOrder, Parsed

LEMMA DoneInOrder ==
  ASSUME IInv, IsOperation, ReadInOrder, Parsed
  PROVE  Yield[Len(ast)][Root] = [k \in 1 .. Size |-> k]
<1>1. /\ ast \in Seq(Node) /\ Len(ast) \in Nat /\ DOMAIN ast = 1 .. Len(ast)
      /\ \A y \in DOMAIN ast : ast[y] \in Node
      /\ Size \in Nat /\ Size > 0
  BY DEF IInv, TypeOK, Size, IsOperation
<1>2. \A y \in DOMAIN ast : ast[y].token \in Nat
  BY <1>1 DEF Node
<1>3. PICK lo, hi : Spans(ast, lo, hi) /\ hi[Owner] = Size
  BY DEF ReadInOrder
<1>4. Len(ast) = Size + 1
  BY DEF ReadInOrder
<1>5. /\ lo \in [DOMAIN ast -> Int] /\ hi \in [DOMAIN ast -> Int]
      /\ SpanOK(ast, lo, hi, Owner) /\ ast[Owner].token = 0
  BY <1>3 DEF Spans
<1>6. /\ Root \in DOMAIN ast /\ hi[Root] = Size /\ lo[Root] = 1
  BY <1>1, <1>3, <1>5 DEF SpanOK, Root
<1>7. Yield[Len(ast)][Root] = Tokens(1, Size)
  <2> DEFINE x == Root
  <2>1. x \in DOMAIN ast /\ lo[x] \in Nat /\ hi[x] - lo[x] < Len(ast)
        /\ lo[x] = 1 /\ hi[x] = Size
    BY <1>1, <1>4, <1>6
  <2> HIDE DEF x
  <2>2. Yield[Len(ast)][x] = Tokens(lo[x], hi[x])
    BY <1>1, <1>2, <1>3, <2>1, SpansAreYielded
  <2> QED BY <2>1, <2>2 DEF x
<1>8. Tokens(1, Size) = [k \in 1 .. Size |-> k]
  BY <1>1 DEF Tokens
<1> QED BY <1>7, <1>8

\* The tree of an operation reads from left to right as its tokens do, however
\* many operators there are and whatever the rotations made of them.
THEOREM TreeReadsAsSource == Spec => []YieldPreserved
<1> DEFINE Inv == IInv /\ (IsOperation => ReadInOrder)
<1>1. Init => Inv
  BY InitIInv, InitRead
<1>2. Inv /\ [Next]_vars => Inv'
  <2> SUFFICES ASSUME Inv, [Next]_vars PROVE Inv'
    OBVIOUS
  <2>1. IInv'
    BY NextIInv
  <2>2. ASSUME IsOperation' PROVE ReadInOrder'
    <3>1. stream' = stream
      <4>1. CASE Next
        BY <4>1, Zenon DEF Next, ReadDelimiter, ReadCloseParenthesis, ReadEndOfArgument,
           ReachEndOfFile, ReadUnexpected, ReadOperand, ReadIdentifier, Emplace,
           ReadFunctionCall, ReadOpenParenthesis, ReadBinaryOperator, Operation,
           ReadUnaryOperator, OperatorAsserts
      <4>2. CASE UNCHANGED vars
        BY <4>2 DEF vars
      <4> QED BY <4>1, <4>2
    <3>2. IsOperation
      BY <2>2, <3>1 DEF IsOperation, Size, AfterOperand
    <3> QED BY <3>2, NextRead
  <2> QED BY <2>1, <2>2
<1>3. Inv => YieldPreserved
  BY DoneInOrder DEF YieldPreserved
<1> QED BY <1>1, <1>2, <1>3, PTL DEF Spec
----------------------------------------------------------------------------
(* Calls that returned *)

\* The arguments of a call n, among the nodes up to b, each linked by the one
\* before it.
Arguments(h, n, b, a) ==
  LET m == h[n].nb_arguments
  IN  /\ a \in [1 .. m -> n + 1 .. b]
      /\ m > 0 => h[n]["right"] = a[1]
      /\ \A i \in 1 .. m - 1 : h[a[i]]["sibling"] = a[i + 1]
      /\ \A i, j \in 1 .. m : i < j => h[a[i]].token < h[a[j]].token

\* A call n that returned when there were e nodes: those since n are its own.
\* No frame stores to them, and nothing else links to them.
FrameOutside(f, n, e) ==
  /\ f.node \notin n .. e /\ f.previous \notin n .. e
  /\ f.emplace.node \notin n + 1 .. e
  /\ f.emplace.node = n => f.emplace.field = "sibling"
ApartFrom(h, n, e) ==
  \A x \in DOMAIN h, l \in Link :
    h[x][l] \in n + 1 .. e => x \in n .. e /\ (x = n => l # "sibling")
CallClosed(e, h, c, n) ==
  /\ n \in DOMAIN h /\ n <= e /\ e \in Nat /\ e <= Len(h) /\ h[n].type = "call"
  /\ h[n].nb_arguments > 0
  /\ \E a : Arguments(h, n, e, a) /\ h[a[h[n].nb_arguments]]["sibling"] = Null
  /\ ApartFrom(h, n, e)
  /\ \A j \in DOMAIN c : FrameOutside(c[j], n, e)

LEMMA HeapFacts ==
  ASSUME NEW h \in Seq(Node)
  PROVE  /\ Len(h) \in Nat /\ DOMAIN h = 1 .. Len(h)
         /\ \A x \in DOMAIN h : h[x].token \in Nat /\ h[x].nb_arguments \in Nat
         /\ \A x \in DOMAIN h, l \in Link : h[x][l] \in Int
<1>1. \A x \in DOMAIN h : h[x] \in Node
  OBVIOUS
<1>2. \A x \in DOMAIN h : h[x].token \in Nat /\ h[x].nb_arguments \in Nat
  BY <1>1 DEF Node
<1>3. \A x \in DOMAIN h, l \in Link : h[x][l] \in Int
  BY <1>1, FieldsOfANode DEF Pointer, Uninitialized
<1> QED BY <1>2, <1>3

\* What keeps the arguments of a call.
LEMMA ArgumentsKept ==
  ASSUME NEW h \in Seq(Node), NEW g, NEW n \in DOMAIN h, NEW b, NEW a,
         b \in Nat, b <= Len(h), Arguments(h, n, b, a),
         \A x \in n .. b : g[x].token = h[x].token,
         g[n].nb_arguments = h[n].nb_arguments,
         h[n].nb_arguments > 0 => g[n]["right"] = h[n]["right"],
         \A i \in 1 .. h[n].nb_arguments - 1 : g[a[i]]["sibling"] = h[a[i]]["sibling"]
  PROVE  Arguments(g, n, b, a)
<1> DEFINE m == h[n].nb_arguments
<1>1. Len(h) \in Nat /\ DOMAIN h = 1 .. Len(h) /\ m \in Nat /\ n \in Nat
  BY HeapFacts
<1>2. /\ a \in [1 .. m -> n + 1 .. b]
      /\ m > 0 => h[n]["right"] = a[1]
      /\ \A i \in 1 .. m - 1 : h[a[i]]["sibling"] = a[i + 1]
      /\ \A i, j \in 1 .. m : i < j => h[a[i]].token < h[a[j]].token
  BY DEF Arguments
<1>3. g[n].nb_arguments = m
  OBVIOUS
<1> HIDE DEF m
<1>4. \A i \in 1 .. m : a[i] \in n .. b
  BY <1>1, <1>2
<1>5. \A i, j \in 1 .. m : i < j => g[a[i]].token < g[a[j]].token
  BY <1>2, <1>4
<1>6. \A i \in 1 .. m - 1 : g[a[i]]["sibling"] = a[i + 1]
  BY <1>2 DEF m
<1>7. m > 0 => g[n]["right"] = a[1]
  BY <1>2 DEF m
<1> QED BY <1>2, <1>3, <1>5, <1>6, <1>7 DEF Arguments

\* A call that returned stays as it is when nothing is stored to its nodes, and no
\* link to them elsewhere.
LEMMA ClosedKept ==
  ASSUME NEW h \in Seq(Node), NEW g \in Seq(Node), NEW c, NEW d, NEW n, NEW e,
         CallClosed(e, h, c, n), Len(h) <= Len(g),
         \A x \in n .. e : g[x].token = h[x].token,
         g[n].type = h[n].type, g[n].nb_arguments = h[n].nb_arguments,
         \A x \in n .. e, l \in Link : (x = n /\ l = "sibling") \/ g[x][l] = h[x][l],
         ApartFrom(g, n, e),
         \A j \in DOMAIN d : FrameOutside(d[j], n, e)
  PROVE  CallClosed(e, g, d, n)
<1> DEFINE m == h[n].nb_arguments
<1>1. /\ Len(h) \in Nat /\ DOMAIN h = 1 .. Len(h) /\ n \in DOMAIN h
      /\ Len(g) \in Nat /\ DOMAIN g = 1 .. Len(g)
      /\ n <= e /\ e \in Nat /\ e <= Len(h) /\ m > 0 /\ m \in Nat /\ n \in Nat
  BY HeapFacts DEF CallClosed
<1>2. PICK a : Arguments(h, n, e, a) /\ h[a[m]]["sibling"] = Null
  BY DEF CallClosed
<1>3. a \in [1 .. m -> n + 1 .. e]
  BY <1>2 DEF Arguments
<1> HIDE DEF m
<1>4. \A i \in 1 .. m : g[a[i]]["sibling"] = h[a[i]]["sibling"]
  BY <1>1, <1>3 DEF Link
<1>5. g[n]["right"] = h[n]["right"]
  BY <1>1 DEF Link
<1>6. Arguments(g, n, e, a)
  <2>1. /\ \A i \in 1 .. m - 1 : g[a[i]]["sibling"] = h[a[i]]["sibling"]
        /\ m > 0 => g[n]["right"] = h[n]["right"]
    BY <1>1, <1>4, <1>5
  <2>2. /\ \A i \in 1 .. h[n].nb_arguments - 1 : g[a[i]]["sibling"] = h[a[i]]["sibling"]
        /\ h[n].nb_arguments > 0 => g[n]["right"] = h[n]["right"]
    BY <2>1 DEF m
  <2> QED BY <1>1, <1>2, <2>2, ArgumentsKept
<1>7. g[a[m]]["sibling"] = Null
  BY <1>1, <1>2, <1>4
<1>8. g[n].nb_arguments = m /\ h[n].type = "call"
  BY DEF m, CallClosed
<1>9. n \in DOMAIN g /\ e <= Len(g)
  BY <1>1
<1> QED BY <1>1, <1>6, <1>7, <1>8, <1>9 DEF CallClosed

\* What a step that allocates does, besides Grown.
KeepsData(h, g) ==
  \A x \in DOMAIN h : /\ g[x].type = h[x].type /\ g[x].token = h[x].token
                      /\ g[x].nb_arguments = h[x].nb_arguments
StoresFor(f, g, ref) ==
  \/ ref.node = Len(g)
  \/ ref = f.emplace
  \/ f.previous # Null /\ ref = Field(f.previous, "right")

LEMMA ClosedGrown ==
  ASSUME NEW h \in Seq(Node), NEW g \in Seq(Node), NEW c \in Seq(Frame), NEW d,
         NEW n, NEW e, NEW ref \in Reference, Len(c) > 0, CallClosed(e, h, c, n),
         Grown(h, g, ref, c[Len(c)].previous), KeepsData(h, g),
         StoresFor(c[Len(c)], g, ref), Advanced(c, d, Len(g))
  PROVE  CallClosed(e, g, d, n)
<1> DEFINE f == c[Len(c)]
           new == Len(g)
<1>1. /\ Len(h) \in Nat /\ DOMAIN h = 1 .. Len(h) /\ new \in Nat /\ new = Len(h) + 1
      /\ DOMAIN g = 1 .. new /\ f \in Frame /\ n \in DOMAIN h /\ e \in Nat /\ e <= Len(h)
      /\ n <= e
  BY HeapFacts DEF CallClosed, Grown
<1>2. FrameOutside(f, n, e)
  BY DEF CallClosed
<1>3. ref.node \in n .. e => ref.node = n /\ ref.field = "sibling"
  BY <1>1, <1>2 DEF StoresFor, FrameOutside, Field
<1>4. \A x \in DOMAIN h, l \in Link : g[x][l] = IF Field(x, l) = ref THEN new ELSE h[x][l]
  BY DEF Grown
<1>5. \A x \in n .. e, l \in Link : (x = n /\ l = "sibling") \/ g[x][l] = h[x][l]
  <2> SUFFICES ASSUME NEW x \in n .. e, NEW l \in Link, ~ (x = n /\ l = "sibling")
               PROVE  g[x][l] = h[x][l]
    OBVIOUS
  <2>1. x \in DOMAIN h /\ x \in Nat
    BY <1>1
  <2>2. Field(x, l) # ref
    BY <1>3, <2>1, FieldFacts
  <2> QED BY <1>4, <2>1, <2>2
<1>6. ApartFrom(g, n, e)
  <2> SUFFICES ASSUME NEW x \in DOMAIN g, NEW l \in Link, g[x][l] \in n + 1 .. e
               PROVE  x \in n .. e /\ (x = n => l # "sibling")
    BY DEF ApartFrom
  <2>1. CASE x \in DOMAIN h
    <3>1. g[x][l] = h[x][l]
      BY <1>1, <1>4, <2>1
    <3> QED BY <2>1, <3>1 DEF CallClosed, ApartFrom
  <2>2. CASE x = new
    <3>1. g[x][l] = f.previous
      BY <1>1, <2>2 DEF Grown
    <3> QED BY <1>1, <1>2, <3>1 DEF FrameOutside
  <2> QED BY <1>1, <2>1, <2>2
<1>7. \A j \in DOMAIN d : FrameOutside(d[j], n, e)
  <2> SUFFICES ASSUME NEW j \in DOMAIN d PROVE FrameOutside(d[j], n, e)
    OBVIOUS
  <2>1. /\ j \in DOMAIN c /\ d[j].emplace = c[j].emplace /\ d[j].node = c[j].node
        /\ d[j].previous = c[j].previous \/ d[j].previous = new
    BY DEF Advanced
  <2>2. FrameOutside(c[j], n, e)
    BY <2>1 DEF CallClosed
  <2> QED BY <1>1, <2>1, <2>2 DEF FrameOutside
<1>8. \A x \in n .. e : x \in DOMAIN h
  BY <1>1
<1>9. /\ \A x \in n .. e : g[x].token = h[x].token
      /\ g[n].type = h[n].type /\ g[n].nb_arguments = h[n].nb_arguments
  BY <1>1, <1>8 DEF KeepsData
<1>10. Len(h) <= Len(g)
  BY <1>1
<1> QED BY <1>5, <1>6, <1>7, <1>9, <1>10, ClosedKept

LEMMA ClosedFrames ==
  ASSUME NEW h \in Seq(Node), NEW c, NEW d, NEW n, NEW e, CallClosed(e, h, c, n),
         \A j \in DOMAIN d : FrameOutside(d[j], n, e)
  PROVE  CallClosed(e, h, d, n)
BY DEF CallClosed

LEMMA ClosedSwapped ==
  ASSUME NEW h \in Seq(Node), NEW g \in Seq(Node), NEW c \in Seq(Frame),
         NEW n, NEW e, CallClosed(e, h, c, n), Len(c) > 0,
         NEW q \in DOMAIN h, NEW r \in DOMAIN h, q # r, q = c[Len(c)].previous,
         Swapped(h, g, q, r), h[r].type \in BinaryOperator
  PROVE  CallClosed(e, g, c, n)
<1>1. /\ Len(h) \in Nat /\ DOMAIN h = 1 .. Len(h) /\ Len(g) = Len(h) /\ DOMAIN g = DOMAIN h
      /\ n \in DOMAIN h /\ e \in Nat /\ e <= Len(h) /\ n <= e /\ h[n].type = "call"
      /\ ApartFrom(h, n, e)
  BY HeapFacts DEF CallClosed, Swapped
<1>2. q \notin n .. e
  <2>1. FrameOutside(c[Len(c)], n, e)
    BY DEF CallClosed
  <2> QED BY <2>1 DEF FrameOutside
<1>3. r \notin n .. e
  <2>1. r # n
    BY <1>1 DEF BinaryOperator
  <2>2. h[q]["right"] = r /\ "right" \in Link
    BY DEF Swapped, Link
  <2>3. r \notin n + 1 .. e
    BY <1>1, <1>2, <2>2 DEF ApartFrom
  <2> QED BY <1>1, <2>1, <2>3
<1>4. \A x \in n .. e : g[x] = h[x]
  <2>1. \A x \in n .. e : x \in DOMAIN h \ {q, r}
    BY <1>1, <1>2, <1>3
  <2> QED BY <2>1 DEF Swapped
<1>5. ApartFrom(g, n, e)
  <2> SUFFICES ASSUME NEW x \in DOMAIN g, NEW l \in Link, g[x][l] \in n + 1 .. e
               PROVE  x \in n .. e /\ (x = n => l # "sibling")
    BY DEF ApartFrom
  <2>0. \A z \in {q, r}, k \in Link : h[z][k] \notin n + 1 .. e
    BY <1>1, <1>2, <1>3 DEF ApartFrom
  <2>1. CASE x \notin {q, r}
    BY <1>1, <2>1 DEF Swapped, ApartFrom
  <2>2. CASE x \in {q, r}
    <3>1. /\ g[q]["left"] = r /\ g[q]["right"] = h[r]["right"]
          /\ g[r]["left"] = h[q]["left"] /\ g[r]["right"] = h[r]["left"]
          /\ g[q]["sibling"] = h[q]["sibling"] /\ g[r]["sibling"] = h[r]["sibling"]
      BY DEF Swapped
    <3>2. l = "left" \/ l = "right" \/ l = "sibling"
      BY DEF Link
    <3>3. r \notin n + 1 .. e
      BY <1>1, <1>3
    <3>4. g[x][l] \notin n + 1 .. e
      BY <2>0, <2>2, <3>1, <3>2, <3>3 DEF Link
    <3> QED BY <3>4
  <2> QED BY <2>1, <2>2
<1>6. \A j \in DOMAIN c : FrameOutside(c[j], n, e)
  BY DEF CallClosed
<1>7. n \in n .. e /\ Len(h) <= Len(g)
  BY <1>1
<1> QED BY <1>4, <1>5, <1>6, <1>7, ClosedKept

\* The arguments of a call are counted.
Counting(h, g, q) ==
  SameLinks(h, g) /\ \A x \in DOMAIN h \ {q} : g[x].nb_arguments = h[x].nb_arguments
LEMMA ClosedCounted ==
  ASSUME NEW h \in Seq(Node), NEW g \in Seq(Node), NEW c, NEW n, NEW e, NEW q,
         CallClosed(e, h, c, n), Counting(h, g, q), q # n
  PROVE  CallClosed(e, g, c, n)
<1>1. /\ Len(h) \in Nat /\ DOMAIN h = 1 .. Len(h) /\ Len(g) = Len(h) /\ DOMAIN g = DOMAIN h
      /\ n \in DOMAIN h /\ e \in Nat /\ e <= Len(h) /\ n <= e /\ ApartFrom(h, n, e)
      /\ \A x \in DOMAIN h, l \in Link : g[x][l] = h[x][l]
      /\ \A x \in DOMAIN h : g[x].type = h[x].type /\ g[x].token = h[x].token
      /\ g[n].nb_arguments = h[n].nb_arguments
  BY HeapFacts DEF CallClosed, Counting, SameLinks
<1>2. \A x \in n .. e : x \in DOMAIN h
  BY <1>1
<1>3. ApartFrom(g, n, e)
  BY <1>1 DEF ApartFrom
<1>4. \A j \in DOMAIN c : FrameOutside(c[j], n, e)
  BY DEF CallClosed
<1>5. /\ \A x \in n .. e : g[x].token = h[x].token
      /\ g[n].type = h[n].type
      /\ \A x \in n .. e, l \in Link : (x = n /\ l = "sibling") \/ g[x][l] = h[x][l]
      /\ Len(h) <= Len(g)
  BY <1>1, <1>2
<1> QED BY <1>1, <1>3, <1>4, <1>5, ClosedKept

\* A call that has its last argument is stored where the last frame stores.
LEMMA ClosedAttached ==
  ASSUME NEW h \in Seq(Node), NEW g \in Seq(Node), NEW c \in Seq(Frame), NEW n, NEW e,
         NEW ref \in Reference, NEW v, Len(c) > 0, CallClosed(e, h, c, n),
         Attached(h, g, ref, v), KeepsData(h, g),
         ref = c[Len(c)].emplace, v \notin n + 1 .. e
  PROVE  CallClosed(e, g, c, n)
<1>1. /\ Len(h) \in Nat /\ DOMAIN h = 1 .. Len(h) /\ Len(g) = Len(h) /\ DOMAIN g = DOMAIN h
      /\ n \in DOMAIN h /\ e \in Nat /\ e <= Len(h) /\ n <= e /\ ApartFrom(h, n, e)
      /\ \A x \in DOMAIN h, l \in Link : g[x][l] = IF Field(x, l) = ref THEN v ELSE h[x][l]
  BY HeapFacts DEF CallClosed, Attached
<1>2. ref.node \in n .. e => ref.node = n /\ ref.field = "sibling"
  <2>1. FrameOutside(c[Len(c)], n, e)
    BY DEF CallClosed
  <2> QED BY <1>1, <2>1 DEF FrameOutside
<1>3. \A x \in n .. e : x \in DOMAIN h /\ x \in Nat
  BY <1>1
<1>4. \A x \in n .. e, l \in Link : (x = n /\ l = "sibling") \/ g[x][l] = h[x][l]
  <2> SUFFICES ASSUME NEW x \in n .. e, NEW l \in Link, ~ (x = n /\ l = "sibling")
               PROVE  g[x][l] = h[x][l]
    OBVIOUS
  <2>1. Field(x, l) # ref
    BY <1>2, <1>3, FieldFacts
  <2> QED BY <1>1, <1>3, <2>1
<1>5. ApartFrom(g, n, e)
  BY <1>1 DEF ApartFrom
<1>6. /\ \A x \in n .. e : g[x].token = h[x].token
      /\ g[n].type = h[n].type /\ g[n].nb_arguments = h[n].nb_arguments
      /\ Len(h) <= Len(g)
  BY <1>1, <1>3 DEF KeepsData
<1>7. \A j \in DOMAIN c : FrameOutside(c[j], n, e)
  BY DEF CallClosed
<1> QED BY <1>4, <1>5, <1>6, <1>7, ClosedKept

\* A call n under way, in its frame k, the last argument of which began when there
\* were b nodes.
Arg(f) == f.by = "argument"
Held(h, f) == h[f.emplace.node][f.emplace.field]
OpenNode(b, h, n) ==
  /\ n \in DOMAIN h /\ b \in Nat /\ n <= b /\ b <= Len(h)
  /\ h[n].type = "call" /\ h[n]["sibling"] = Null
  /\ \A x \in 1 .. n - 1, l \in Link : h[x][l] < n
  /\ \A x \in b + 1 .. Len(h), l \in {"left", "right"} : h[x][l] <= 0 \/ h[x][l] > b
\* The frames below store to older nodes, those above to where this one does or
\* to newer nodes.
FrameUnder(f, n) == f.node < n /\ f.previous < n /\ f.emplace.node < n
FrameOver(b, f, g) ==
  /\ f.previous = Null \/ f.previous > b
  /\ f.emplace = g.emplace \/ f.emplace.node > b
OpenFrames(b, c, k) ==
  /\ \A j \in 1 .. k - 1 : FrameUnder(c[j], c[k].node)
  /\ \A j \in k .. Len(c) : FrameOver(b, c[j], c[k])
  /\ \A j \in k + 1 .. Len(c) :
       /\ c[j].node > b \/ c[j].by = "parenthesis"
       /\ c[j].emplace.field = "sibling" =>
            \/ c[j].emplace = c[k].emplace
            \/ \E i \in k + 1 .. j : Arg(c[i]) /\ c[j].emplace.node > c[i].node
\* The arguments that were read, and the one under way comes after them.
OpenArguments(b, h, f) ==
  LET n == f.node
      m == h[n].nb_arguments
  IN  /\ \E a :
           /\ Arguments(h, n, b, a)
           /\ f.emplace = IF m = 0 THEN Field(n, "right") ELSE Field(a[m], "sibling")
           /\ \A i \in 1 .. m, x \in b + 1 .. Len(h) : h[a[i]].token < h[x].token
      /\ Held(h, f) <= 0 \/ Held(h, f) > b
\* What has a sibling is an argument of another call.
AroundClosed(h, c, x) == \E n, e : CallClosed(e, h, c, n) /\ n < x /\ x <= e
OpenSiblings(b, h, c, k) ==
  \A x \in b + 1 .. Len(h) : h[x]["sibling"] # Null =>
    \/ \E i \in k + 1 .. Len(c) : Arg(c[i]) /\ x > c[i].node
    \/ AroundClosed(h, c, x)
\* As long as the argument is empty, it is only in parentheses.
Within(c, k, j) == j \in k .. Len(c) /\ \A i \in k + 1 .. j : ~ Arg(c[i])
OpenEmpty(h, c, k) ==
  Held(h, c[k]) <= 0 =>
    \A j \in DOMAIN c : Within(c, k, j) =>
      c[j].emplace = c[k].emplace /\ c[j].previous = Null

CallOpen(b, h, c, k) ==
  /\ OpenNode(b, h, c[k].node) /\ OpenFrames(b, c, k) /\ OpenArguments(b, h, c[k])
  /\ OpenSiblings(b, h, c, k) /\ OpenEmpty(h, c, k)

LEMMA OpenFacts ==
  ASSUME NEW h \in Seq(Node), NEW c \in Seq(Frame), NEW k \in DOMAIN c, NEW b,
         CallOpen(b, h, c, k)
  PROVE  /\ Len(h) \in Nat /\ DOMAIN h = 1 .. Len(h) /\ Len(c) \in Nat
         /\ DOMAIN c = 1 .. Len(c) /\ Len(c) > 0 /\ Len(c) \in k .. Len(c)
         /\ c[k].node \in DOMAIN h /\ c[k].node \in Nat /\ b \in Nat /\ c[k].node <= b
         /\ b <= Len(h) /\ h[c[k].node].nb_arguments \in Nat
         /\ h[c[k].node].type = "call"
         /\ \A j \in k .. Len(c) : FrameOver(b, c[j], c[k])
         /\ \A j \in DOMAIN c : /\ c[j] \in Frame /\ c[j].emplace \in Reference
                                /\ c[j].emplace.node \in Nat /\ c[j].node \in Nat
                                /\ c[j].emplace.field \in Link /\ c[j].previous \in Nat
<1>1. /\ Len(h) \in Nat /\ DOMAIN h = 1 .. Len(h)
      /\ \A x \in DOMAIN h : h[x].nb_arguments \in Nat
  BY HeapFacts
<1>2. OpenNode(b, h, c[k].node) /\ OpenFrames(b, c, k)
  BY DEF CallOpen
<1>3. \A j \in DOMAIN c : /\ c[j] \in Frame /\ c[j].emplace \in Reference
                          /\ c[j].emplace.node \in Nat /\ c[j].node \in Nat
                          /\ c[j].emplace.field \in Link /\ c[j].previous \in Nat
  <2>1. \A f \in Frame : /\ f.emplace \in Reference /\ f.node \in Nat /\ f.previous \in Nat
                         /\ f.emplace.node \in Nat /\ f.emplace.field \in Link
    BY DEF Frame, Reference, Link
  <2>2. \A j \in DOMAIN c : c[j] \in Frame
    OBVIOUS
  <2> QED BY <2>1, <2>2, Zenon
<1>4. Len(c) \in Nat /\ DOMAIN c = 1 .. Len(c) /\ Len(c) > 0 /\ Len(c) \in k .. Len(c)
  OBVIOUS
<1> QED BY <1>1, <1>2, <1>3, <1>4 DEF OpenNode, OpenFrames

\* Where an argument goes is a field of its call, or of the argument before it.
LEMMA OpenPlace ==
  ASSUME NEW h \in Seq(Node), NEW c \in Seq(Frame), NEW k \in DOMAIN c, NEW b,
         CallOpen(b, h, c, k)
  PROVE  /\ c[k].emplace.node \in c[k].node .. b
         /\ c[k].emplace # Field(c[k].node, "sibling")
         /\ c[k].emplace = Field(c[k].node, "right") \/ c[k].emplace.field = "sibling"
<1> DEFINE n == c[k].node  m == h[n].nb_arguments
<1>1. n \in Nat /\ m \in Nat /\ b \in Nat /\ n <= b
  BY OpenFacts
<1>2. PICK a : /\ Arguments(h, n, b, a)
               /\ c[k].emplace = IF m = 0 THEN Field(n, "right") ELSE Field(a[m], "sibling")
  BY DEF CallOpen, OpenArguments
<1>3. a \in [1 .. m -> n + 1 .. b]
  BY <1>2 DEF Arguments
<1> HIDE DEF n, m
<1>4. CASE m = 0
  <2>1. Field(n, "right") # Field(n, "sibling") /\ Field(n, "right").node = n
    BY <1>1, FieldFacts DEF Field
  <2> QED BY <1>1, <1>2, <1>4, <2>1 DEF n
<1>5. CASE m # 0
  <2>1. a[m] \in n + 1 .. b
    BY <1>1, <1>3, <1>5
  <2>2. /\ Field(a[m], "sibling").node = a[m] /\ Field(a[m], "sibling").field = "sibling"
        /\ Field(n, "sibling").node = n
    BY DEF Field
  <2>3. c[k].emplace = Field(a[m], "sibling")
    BY <1>2, <1>5
  <2> QED BY <1>1, <2>1, <2>2, <2>3 DEF n
<1> QED BY <1>4, <1>5

\* A node is allocated while a call is under way.
LEMMA OpenGrownNode ==
  ASSUME NEW h \in Seq(Node), NEW g \in Seq(Node), NEW c \in Seq(Frame),
         NEW k \in DOMAIN c, NEW b, NEW ref \in Reference, CallOpen(b, h, c, k),
         Grown(h, g, ref, c[Len(c)].previous), KeepsData(h, g),
         StoresFor(c[Len(c)], g, ref)
  PROVE  /\ OpenNode(b, g, c[k].node)
         /\ ref = c[k].emplace \/ ref.node > b
         /\ Len(g) = Len(h) + 1 /\ DOMAIN g = 1 .. Len(g)
<1> DEFINE n == c[k].node  f == c[Len(c)]  new == Len(g)
<1>1. /\ Len(h) \in Nat /\ DOMAIN h = 1 .. Len(h) /\ n \in DOMAIN h /\ b \in Nat
      /\ n <= b /\ b <= Len(h) /\ n \in Nat /\ FrameOver(b, f, c[k])
  BY OpenFacts
<1>2. /\ new = Len(h) + 1 /\ DOMAIN g = 1 .. new /\ new \in Nat
      /\ \A x \in DOMAIN h, l \in Link : g[x][l] = IF Field(x, l) = ref THEN new ELSE h[x][l]
      /\ \A l \in Link : g[new][l] \in Int
                         /\ (g[new][l] > 0 => g[new][l] = f.previous)
  BY <1>1, HeapFacts DEF Grown
<1>3. OpenNode(b, h, n)
  BY DEF CallOpen
<1>4. ref = c[k].emplace \/ ref.node > b
  BY <1>1, <1>2 DEF StoresFor, FrameOver, Field
<1>5. /\ c[k].emplace.node \in n .. b /\ c[k].emplace # Field(n, "sibling")
  BY OpenPlace
<1>6. ref.node >= n /\ ref # Field(n, "sibling")
  <2>1. Field(n, "sibling").node = n /\ ref.node \in Nat
    BY DEF Field, Reference
  <2>2. CASE ref = c[k].emplace
    BY <1>1, <1>5, <2>2
  <2>3. CASE ref.node > b
    BY <1>1, <2>1, <2>3
  <2> HIDE DEF n
  <2> QED BY <1>4, <2>2, <2>3
<1> HIDE DEF n, f, new
<1>7. \A x \in 1 .. n - 1, l \in Link : g[x][l] < n
  <2> SUFFICES ASSUME NEW x \in 1 .. n - 1, NEW l \in Link PROVE g[x][l] < n
    OBVIOUS
  <2>1. x \in DOMAIN h /\ x \in Nat
    BY <1>1
  <2>2. Field(x, l) # ref
    BY <1>1, <1>6, <2>1, FieldFacts
  <2> QED BY <1>2, <1>3, <2>1, <2>2 DEF OpenNode
<1>8. \A x \in b + 1 .. new, l \in {"left", "right"} : g[x][l] <= 0 \/ g[x][l] > b
  <2> SUFFICES ASSUME NEW x \in b + 1 .. new, NEW l \in {"left", "right"}
               PROVE  g[x][l] <= 0 \/ g[x][l] > b
    OBVIOUS
  <2>0. l \in Link
    BY DEF Link
  <2>1. CASE x = new
    BY <1>1, <1>2, <2>0, <2>1 DEF FrameOver, Null
  <2>2. CASE x # new
    <3>1. x \in DOMAIN h /\ x \in b + 1 .. Len(h)
      BY <1>1, <1>2, <2>2
    <3> QED BY <1>1, <1>2, <1>3, <2>0, <3>1 DEF OpenNode
  <2> QED BY <2>1, <2>2
<1>9. g[n]["sibling"] = Null
  <2>1. Field(n, "sibling") # ref /\ "sibling" \in Link
    BY <1>6 DEF Link
  <2> QED BY <1>1, <1>2, <1>3, <2>1 DEF OpenNode
<1>10. g[n].type = "call" /\ n \in DOMAIN g /\ b <= new
  BY <1>1, <1>2, <1>3 DEF KeepsData, OpenNode
<1>11. OpenNode(b, g, n)
  BY <1>1, <1>7, <1>8, <1>9, <1>10 DEF OpenNode, new
<1> QED BY <1>2, <1>4, <1>11 DEF n, new

\* The arguments that were read stay, when nothing is stored but in the field of the
\* next one and in newer nodes, of which the tokens come after theirs.
LEMMA OpenArgumentsKept ==
  ASSUME NEW h \in Seq(Node), NEW g \in Seq(Node), NEW c \in Seq(Frame),
         NEW k \in DOMAIN c, NEW b, CallOpen(b, h, c, k), NEW f,
         f.node = c[k].node, f.emplace = c[k].emplace, Len(h) <= Len(g),
         \A x \in c[k].node .. b : g[x].token = h[x].token
                                /\ g[x].nb_arguments = h[x].nb_arguments,
         \A x \in c[k].node .. b, l \in Link :
           Field(x, l) = c[k].emplace \/ g[x][l] = h[x][l],
         Held(g, f) <= 0 \/ Held(g, f) > b,
         \A i \in c[k].node .. b, x \in b + 1 .. Len(g) :
           (\A z \in b + 1 .. Len(h) : h[i].token < h[z].token)
             => g[i].token < g[x].token
  PROVE  OpenArguments(b, g, f)
<1> DEFINE n == c[k].node  m == h[n].nb_arguments
<1>1. /\ n \in DOMAIN h /\ n \in Nat /\ m \in Nat /\ b \in Nat /\ n <= b /\ b <= Len(h)
      /\ Len(h) \in Nat
  BY OpenFacts
<1>2. PICK a : /\ Arguments(h, n, b, a)
               /\ c[k].emplace = IF m = 0 THEN Field(n, "right") ELSE Field(a[m], "sibling")
               /\ \A i \in 1 .. m, x \in b + 1 .. Len(h) : h[a[i]].token < h[x].token
  BY Zenon DEF CallOpen, OpenArguments
<1>3. /\ a \in [1 .. m -> n + 1 .. b]
      /\ \A i, j \in 1 .. m : i < j => h[a[i]].token < h[a[j]].token
      /\ \A x \in DOMAIN h : h[x].token \in Nat
  BY <1>2, HeapFacts DEF Arguments
<1>4. n \in n .. b /\ g[n].nb_arguments = m
  BY <1>1
<1>5. /\ \A x \in n .. b : g[x].token = h[x].token
      /\ \A x \in n .. b, l \in Link : Field(x, l) = c[k].emplace \/ g[x][l] = h[x][l]
  OBVIOUS
<1>6. \A i \in n .. b, x \in b + 1 .. Len(g) :
         (\A z \in b + 1 .. Len(h) : h[i].token < h[z].token) => g[i].token < g[x].token
  OBVIOUS
<1> HIDE DEF n, m
<1>7. m > 0 => g[n]["right"] = h[n]["right"]
  <2> SUFFICES ASSUME m > 0 PROVE g[n]["right"] = h[n]["right"]
    OBVIOUS
  <2>1. c[k].emplace # Field(n, "right")
    BY <1>2 DEF Field
  <2> QED BY <1>4, <1>5, <2>1 DEF Link
<1>8. \A i \in 1 .. m - 1 : g[a[i]]["sibling"] = h[a[i]]["sibling"]
  <2> SUFFICES ASSUME NEW i \in 1 .. m - 1 PROVE g[a[i]]["sibling"] = h[a[i]]["sibling"]
    OBVIOUS
  <2>1. /\ i \in 1 .. m /\ m \in 1 .. m /\ i < m
        /\ a[i] \in n + 1 .. b /\ a[m] \in n + 1 .. b
    BY <1>1, <1>3
  <2>2. a[i] # a[m]
    <3>1. h[a[i]].token < h[a[m]].token /\ h[a[i]].token \in Nat
      BY <1>1, <1>3, <2>1, Z3
    <3> QED BY <3>1
  <2>3. Field(a[i], "sibling") # c[k].emplace
    BY <1>2, <2>1, <2>2 DEF Field
  <2>4. a[i] \in n .. b /\ "sibling" \in Link
    BY <1>1, <2>1 DEF Link
  <2> QED BY <1>5, <2>3, <2>4
<1>9. Arguments(g, n, b, a)
  <2>1. /\ \A i \in 1 .. h[n].nb_arguments - 1 : g[a[i]]["sibling"] = h[a[i]]["sibling"]
        /\ h[n].nb_arguments > 0 => g[n]["right"] = h[n]["right"]
        /\ g[n].nb_arguments = h[n].nb_arguments
    BY <1>4, <1>7, <1>8 DEF m
  <2> QED BY <1>1, <1>2, <1>5, <2>1, ArgumentsKept
<1>10. \A i \in 1 .. m, x \in b + 1 .. Len(g) : g[a[i]].token < g[x].token
  <2> SUFFICES ASSUME NEW i \in 1 .. m, NEW x \in b + 1 .. Len(g)
               PROVE  g[a[i]].token < g[x].token
    OBVIOUS
  <2>1. a[i] \in n .. b
    BY <1>1, <1>3
  <2> QED BY <1>2, <1>6, <2>1
<1>11. f.node = n
  BY DEF n
<1> QED BY <1>2, <1>4, <1>9, <1>10, <1>11 DEF OpenArguments

LEMMA OpenGrown ==
  ASSUME NEW h \in Seq(Node), NEW g \in Seq(Node), NEW c \in Seq(Frame), NEW d,
         NEW k \in DOMAIN c, NEW b, NEW ref \in Reference, CallOpen(b, h, c, k),
         Grown(h, g, ref, c[Len(c)].previous), KeepsData(h, g),
         StoresFor(c[Len(c)], g, ref), Advanced(c, d, Len(g)),
         g[Len(g)]["sibling"] = Null,
         \A x \in DOMAIN h : h[x].token < g[Len(g)].token,
         ref.node = Len(g) => d = c
  PROVE  CallOpen(b, g, d, k)
<1> DEFINE n == c[k].node  f == c[Len(c)]  new == Len(g)
<1>1. /\ Len(h) \in Nat /\ DOMAIN h = 1 .. Len(h) /\ n \in DOMAIN h /\ b \in Nat
      /\ n <= b /\ b <= Len(h) /\ n \in Nat /\ FrameOver(b, f, c[k])
      /\ Len(c) \in Nat /\ DOMAIN c = 1 .. Len(c) /\ Len(c) \in k .. Len(c) /\ k \in Nat
  BY OpenFacts
<1>2. /\ OpenNode(b, g, n) /\ (ref = c[k].emplace \/ ref.node > b)
      /\ new = Len(h) + 1 /\ DOMAIN g = 1 .. new
  BY OpenGrownNode
<1>3. /\ \A x \in DOMAIN h, l \in Link : g[x][l] = IF Field(x, l) = ref THEN new ELSE h[x][l]
      /\ \A x \in DOMAIN h : /\ g[x].type = h[x].type /\ g[x].token = h[x].token
                             /\ g[x].nb_arguments = h[x].nb_arguments
  BY DEF Grown, KeepsData
<1>4. /\ Len(d) = Len(c) /\ DOMAIN d = DOMAIN c
      /\ \A j \in DOMAIN c :
           /\ d[j].emplace = c[j].emplace /\ d[j].node = c[j].node /\ d[j].by = c[j].by
           /\ d[j].previous = c[j].previous \/ (j = Len(c) /\ d[j].previous = new)
  BY DEF Advanced
<1>5. /\ c[k].emplace.node \in n .. b /\ c[k].emplace.field \in Link
      /\ c[k].emplace \in Reference
  BY OpenPlace, OpenFacts
<1>6. OpenFrames(b, c, k) /\ OpenSiblings(b, h, c, k) /\ OpenEmpty(h, c, k)
  BY DEF CallOpen
<1>7. \A x \in n .. b : x \in DOMAIN h /\ x \in Nat
  BY <1>1
<1>0. n = c[k].node /\ f = c[Len(c)] /\ new = Len(g)
  OBVIOUS
<1> HIDE DEF n, f, new
<1>8. OpenFrames(b, d, k)
  <2>1. \A j \in 1 .. k - 1 : FrameUnder(d[j], d[k].node)
    <3> SUFFICES ASSUME NEW j \in 1 .. k - 1 PROVE FrameUnder(d[j], d[k].node)
      OBVIOUS
    <3>1. j \in DOMAIN c /\ j # Len(c) /\ FrameUnder(c[j], c[k].node)
      BY <1>1, <1>6 DEF OpenFrames
    <3> QED BY <1>4, <3>1 DEF FrameUnder
  <2>2. \A j \in k .. Len(d) : FrameOver(b, d[j], d[k])
    <3> SUFFICES ASSUME NEW j \in k .. Len(d) PROVE FrameOver(b, d[j], d[k])
      OBVIOUS
    <3>1. j \in DOMAIN c /\ FrameOver(b, c[j], c[k]) /\ new > b
      BY <1>1, <1>2, <1>4, <1>6 DEF OpenFrames
    <3> QED BY <1>4, <3>1 DEF FrameOver
  <2>3. ASSUME NEW j \in k + 1 .. Len(d)
        PROVE  /\ d[j].node > b \/ d[j].by = "parenthesis"
               /\ d[j].emplace.field = "sibling" =>
                    \/ d[j].emplace = d[k].emplace
                    \/ \E i \in k + 1 .. j : Arg(d[i]) /\ d[j].emplace.node > d[i].node
    <3>1. j \in DOMAIN c /\ \A i \in k + 1 .. j : i \in DOMAIN c
      BY <1>1, <1>4
    <3>2. /\ c[j].node > b \/ c[j].by = "parenthesis"
          /\ c[j].emplace.field = "sibling" =>
               \/ c[j].emplace = c[k].emplace
               \/ \E i \in k + 1 .. j : Arg(c[i]) /\ c[j].emplace.node > c[i].node
      BY <1>4, <1>6 DEF OpenFrames
    <3> QED BY <1>4, <3>1, <3>2 DEF Arg
  <2> QED BY <2>1, <2>2, <2>3 DEF OpenFrames
<1>9. IF ref = c[k].emplace THEN Held(g, d[k]) = new ELSE Held(g, d[k]) = Held(h, c[k])
  <2>1. /\ Held(g, d[k]) = g[c[k].emplace.node][c[k].emplace.field]
        /\ Held(h, c[k]) = h[c[k].emplace.node][c[k].emplace.field]
        /\ c[k].emplace.node \in DOMAIN h /\ c[k].emplace.node \in Nat
    BY <1>4, <1>5, <1>7 DEF Held
  <2>2. Field(c[k].emplace.node, c[k].emplace.field) = c[k].emplace
    BY <1>5, <2>1, FieldFacts
  <2> QED BY <1>3, <1>5, <2>1, <2>2
<1>10. OpenArguments(b, g, d[k])
  <2>1. Held(g, d[k]) <= 0 \/ Held(g, d[k]) > b
    <3>1. Held(h, c[k]) <= 0 \/ Held(h, c[k]) > b
      BY DEF CallOpen, OpenArguments
    <3> QED BY <1>1, <1>2, <1>9, <3>1
  <2>2. \A x \in n .. b, l \in Link : Field(x, l) = c[k].emplace \/ g[x][l] = h[x][l]
    <3> SUFFICES ASSUME NEW x \in n .. b, NEW l \in Link, Field(x, l) # c[k].emplace
                 PROVE  g[x][l] = h[x][l]
      OBVIOUS
    <3>1. Field(x, l) # ref
      <4>1. x <= b /\ b \in Nat
        BY <1>1
      <4> QED BY <1>2, <4>1 DEF Field
    <3> QED BY <1>3, <1>7, <3>1
  <2>3. \A i \in n .. b, x \in b + 1 .. Len(g) :
           (\A z \in b + 1 .. Len(h) : h[i].token < h[z].token) => g[i].token < g[x].token
    <3> SUFFICES ASSUME NEW i \in n .. b, NEW x \in b + 1 .. Len(g),
                        \A z \in b + 1 .. Len(h) : h[i].token < h[z].token
                 PROVE  g[i].token < g[x].token
      OBVIOUS
    <3>1. i \in DOMAIN h /\ (x = new \/ x \in b + 1 .. Len(h))
      BY <1>0, <1>1, <1>2, <1>7
    <3>2. x \in b + 1 .. Len(h) => x \in DOMAIN h
      BY <1>1
    <3> QED BY <1>0, <1>3, <3>1, <3>2
  <2>4. \A x \in n .. b : g[x].token = h[x].token /\ g[x].nb_arguments = h[x].nb_arguments
    BY <1>3, <1>7
  <2>5. d[k].node = c[k].node /\ d[k].emplace = c[k].emplace /\ Len(h) <= Len(g)
    BY <1>0, <1>1, <1>2, <1>4
  <2> QED BY <1>0, <2>1, <2>2, <2>3, <2>4, <2>5, OpenArgumentsKept
<1>11. OpenSiblings(b, g, d, k)
  <2> SUFFICES ASSUME NEW x \in b + 1 .. Len(g), g[x]["sibling"] # Null
               PROVE  \/ \E i \in k + 1 .. Len(d) : Arg(d[i]) /\ x > d[i].node
                      \/ AroundClosed(g, d, x)
    BY DEF OpenSiblings
  <2>1. x \in b + 1 .. Len(h) /\ x \in DOMAIN h /\ x \in Nat /\ x > b
    <3>1. x # new
      BY <1>0
    <3> QED BY <1>0, <1>1, <1>2, <3>1
  <2>2. CASE Field(x, "sibling") = ref
    <3>1. ref.node = x /\ ref.field = "sibling" /\ ref.node # Len(g)
      BY <1>0, <1>1, <1>2, <2>1, <2>2 DEF Field
    <3>2. ref = f.emplace
      BY <1>0, <3>1 DEF StoresFor, Field
    <3>3. ref # c[k].emplace
      BY <1>1, <1>5, <2>1, <3>1
    <3>4. Len(c) \in k + 1 .. Len(c)
      <4>1. Len(c) # k
        BY <1>0, <3>2, <3>3
      <4> QED BY <1>1, <4>1
    <3>5. PICK i \in k + 1 .. Len(c) : Arg(c[i]) /\ f.emplace.node > c[i].node
      BY <1>0, <1>6, <3>1, <3>2, <3>3, <3>4 DEF OpenFrames
    <3>6. i \in DOMAIN c
      BY <1>1
    <3> QED BY <1>4, <3>1, <3>2, <3>5, <3>6 DEF Arg
  <2>3. CASE Field(x, "sibling") # ref
    <3>1. h[x]["sibling"] # Null
      BY <1>3, <2>1, <2>3 DEF Link
    <3>2. CASE \E i \in k + 1 .. Len(c) : Arg(c[i]) /\ x > c[i].node
      <4>1. \A i \in k + 1 .. Len(c) : i \in DOMAIN c
        BY <1>1
      <4> QED BY <1>4, <3>2, <4>1 DEF Arg
    <3>3. CASE AroundClosed(h, c, x)
      <4>1. PICK q, e : CallClosed(e, h, c, q) /\ q < x /\ x <= e
        BY <3>3 DEF AroundClosed
      <4>2. Len(c) > 0
        BY <1>1
      <4>3. CallClosed(e, g, d, q)
        BY <4>1, <4>2, ClosedGrown
      <4> QED BY <4>1, <4>3 DEF AroundClosed
    <3> QED BY <1>6, <2>1, <3>1, <3>2, <3>3 DEF OpenSiblings
  <2> QED BY <2>2, <2>3
<1>12. OpenEmpty(g, d, k)
  <2> SUFFICES ASSUME Held(g, d[k]) <= 0, NEW j \in DOMAIN d, Within(d, k, j)
               PROVE  d[j].emplace = d[k].emplace /\ d[j].previous = Null
    BY DEF OpenEmpty
  <2>1. ref # c[k].emplace /\ Held(h, c[k]) <= 0
    <3>1. ref # c[k].emplace
      BY <1>1, <1>2, <1>9
    <3> QED BY <1>9, <3>1
  <2>2. \A i \in DOMAIN c : Within(d, k, i) => Within(c, k, i)
    <3>1. \A i \in DOMAIN c : \A z \in k + 1 .. i : z \in DOMAIN c
      BY <1>1
    <3> QED BY <1>4, <3>1 DEF Within, Arg
  <2>3. \A i \in DOMAIN c : Within(c, k, i) => c[i].emplace = c[k].emplace /\ c[i].previous = Null
    BY <1>6, <2>1 DEF OpenEmpty
  <2>4. j \in DOMAIN c /\ Within(c, k, j)
    BY <1>4, <2>2
  <2>5. d[j].previous = Null
    <3>1. CASE j # Len(c)
      BY <1>4, <2>3, <2>4, <3>1
    <3>2. CASE j = Len(c)
      <4>1. f.emplace = c[k].emplace /\ f.previous = Null
        BY <1>0, <2>3, <2>4, <3>2
      <4>2. ref.node = Len(g)
        BY <1>0, <2>1, <4>1 DEF StoresFor
      <4> QED BY <2>3, <2>4, <4>2
    <3> QED BY <3>1, <3>2
  <2> QED BY <1>4, <2>3, <2>4, <2>5
<1> QED BY <1>0, <1>2, <1>4, <1>8, <1>10, <1>11, <1>12 DEF CallOpen

\* The last frame calls another one, that is not an argument or is the first one.
PushedOver(h, c, f) ==
  /\ f.previous = Null
  /\ f.emplace = c[Len(c)].emplace \/ f.emplace.field = "right"
  /\ f.by # "argument" =>
       f.emplace = c[Len(c)].emplace \/ Held(h, c[Len(c)]) > 0
SiblingsStay(h, c, d) ==
  \A x \in DOMAIN h :
    h[x]["sibling"] # Null /\ AroundClosed(h, c, x) => AroundClosed(h, d, x)
LEMMA OpenPushed ==
  ASSUME NEW h \in Seq(Node), NEW c \in Seq(Frame), NEW f \in Frame, NEW d,
         NEW k \in DOMAIN c, NEW b, CallOpen(b, h, c, k), PushedOver(h, c, f),
         f.emplace = c[Len(c)].emplace \/ f.emplace.node > b,
         f.node > b \/ f.by = "parenthesis",
         Len(d) = Len(c) + 1, DOMAIN d = 1 .. Len(d), d[Len(d)] = f,
         \A j \in DOMAIN c : Alike(d[j], c[j]),
         SiblingsStay(h, c, d)
  PROVE  CallOpen(b, h, d, k)
<1> USE DEF Alike
<1>1. /\ Len(c) \in Nat /\ DOMAIN c = 1 .. Len(c) /\ Len(c) \in k .. Len(c) /\ k \in Nat
      /\ b \in Nat /\ k \in 1 .. Len(c) /\ k <= Len(c)
  BY OpenFacts
<1>2. OpenFrames(b, c, k) /\ OpenSiblings(b, h, c, k) /\ OpenEmpty(h, c, k)
  BY DEF CallOpen
<1>3. OpenFrames(b, d, k)
  <2>1. \A j \in 1 .. k - 1 : FrameUnder(d[j], d[k].node)
    <3>1. \A j \in 1 .. k - 1 : j \in DOMAIN c
      BY <1>1
    <3> QED BY <1>2, <3>1 DEF OpenFrames, FrameUnder
  <2>2. \A j \in k .. Len(c) : FrameOver(b, d[j], d[k])
    <3>1. \A j \in k .. Len(c) : j \in DOMAIN c
      BY <1>1
    <3> QED BY <1>2, <3>1 DEF OpenFrames, FrameOver
  <2>3. FrameOver(b, f, d[k])
    <3>1. FrameOver(b, c[Len(c)], c[k])
      BY <1>1, <1>2 DEF OpenFrames
    <3> QED BY <3>1 DEF FrameOver, PushedOver
  <2>4. \A j \in k .. Len(d) : FrameOver(b, d[j], d[k])
    BY <1>1, <2>2, <2>3
  <2>5. ASSUME NEW j \in k + 1 .. Len(d)
        PROVE  /\ d[j].node > b \/ d[j].by = "parenthesis"
               /\ d[j].emplace.field = "sibling" =>
                    \/ d[j].emplace = d[k].emplace
                    \/ \E i \in k + 1 .. j : Arg(d[i]) /\ d[j].emplace.node > d[i].node
    <3>1. CASE j \in k + 1 .. Len(c)
      <4>1. j \in DOMAIN c /\ \A i \in k + 1 .. j : i \in DOMAIN c
        BY <1>1, <3>1
      <4>2. /\ c[j].node > b \/ c[j].by = "parenthesis"
            /\ c[j].emplace.field = "sibling" =>
                 \/ c[j].emplace = c[k].emplace
                 \/ \E i \in k + 1 .. j : Arg(c[i]) /\ c[j].emplace.node > c[i].node
        BY <1>2, <3>1 DEF OpenFrames
      <4> QED BY <4>1, <4>2 DEF Arg
    <3>2. CASE j = Len(d)
      <4>1. CASE f.emplace.field = "right"
        BY <3>2, <4>1
      <4>2. CASE f.emplace = c[Len(c)].emplace /\ f.emplace.field = "sibling"
        <5>1. CASE Len(c) = k
          BY <3>2, <4>2, <5>1
        <5>2. CASE Len(c) # k
          <6>1. Len(c) \in k + 1 .. Len(c)
            BY <1>1, <5>2
          <6>2. \/ f.emplace = c[k].emplace
                \/ \E i \in k + 1 .. Len(c) : Arg(c[i]) /\ f.emplace.node > c[i].node
            BY <1>2, <4>2, <6>1 DEF OpenFrames
          <6>3. \A i \in k + 1 .. Len(c) : i \in DOMAIN c /\ i \in k + 1 .. j
            BY <1>1, <3>2
          <6> QED BY <3>2, <6>2, <6>3 DEF Arg
        <5> QED BY <5>1, <5>2
      <4>3. CASE f.emplace.field # "sibling"
        BY <3>2, <4>3
      <4> QED BY <4>1, <4>2, <4>3 DEF PushedOver
    <3> QED BY <1>1, <3>1, <3>2
  <2> QED BY <2>1, <2>4, <2>5 DEF OpenFrames
<1>4. OpenSiblings(b, h, d, k)
  <2>1. \A i \in k + 1 .. Len(c) : i \in DOMAIN c /\ i \in k + 1 .. Len(d)
    BY <1>1
  <2>2. b + 1 .. Len(h) \subseteq DOMAIN h
    BY <1>1, HeapFacts
  <2>3. ASSUME NEW x \in b + 1 .. Len(h), h[x]["sibling"] # Null
        PROVE  \/ \E i \in k + 1 .. Len(d) : Arg(d[i]) /\ x > d[i].node
               \/ AroundClosed(h, d, x)
    BY <1>2, <2>1, <2>2, <2>3 DEF OpenSiblings, Arg, SiblingsStay
  <2> QED BY <2>3 DEF OpenSiblings
<1>5. OpenEmpty(h, d, k)
  <2> SUFFICES ASSUME Held(h, d[k]) <= 0, NEW j \in DOMAIN d, Within(d, k, j)
               PROVE  d[j].emplace = d[k].emplace /\ d[j].previous = Null
    BY DEF OpenEmpty
  <2>1. Held(h, c[k]) <= 0
    BY <1>1 DEF Held
  <2>2. \A i \in DOMAIN c : Within(c, k, i) => c[i].emplace = c[k].emplace /\ c[i].previous = Null
    BY <1>2, <2>1 DEF OpenEmpty
  <2>3. CASE j \in DOMAIN c
    <3>1. Within(c, k, j)
      <4>1. j \in k .. Len(c) /\ \A i \in k + 1 .. j : i \in DOMAIN c
        BY <1>1, <2>3 DEF Within
      <4> QED BY <4>1 DEF Within, Arg
    <3> QED BY <2>2, <2>3, <3>1
  <2>4. CASE j = Len(d)
    <3>1. Len(c) \in DOMAIN c /\ Within(c, k, Len(c)) /\ f.by # "argument"
      <4>1. \A i \in k + 1 .. Len(c) : i \in DOMAIN c /\ i \in k + 1 .. j
        BY <1>1, <2>4
      <4>2. Len(d) \in k + 1 .. j
        BY <1>1, <2>4
      <4> QED BY <1>1, <4>1, <4>2, SMTT(30) DEF Within, Arg
    <3>2. c[Len(c)].emplace = c[k].emplace
      BY <2>2, <3>1
    <3>3. Held(h, c[Len(c)]) = Held(h, c[k])
      BY <3>2 DEF Held
    <3>4. f.emplace = c[Len(c)].emplace
      <4>1. ~ (Held(h, c[k]) > 0)
        <5>1. Held(h, c[k]) \in Int
          BY OpenFacts, OpenPlace, HeapFacts DEF Held
        <5> QED BY <2>1, <5>1
      <4> QED BY <3>1, <3>3, <4>1 DEF PushedOver
    <3> QED BY <2>4, <3>2, <3>4 DEF PushedOver
  <2> QED BY <1>1, <2>3, <2>4
<1>6. /\ d[k].node = c[k].node /\ d[k].emplace = c[k].emplace
  BY <1>1
<1>7. OpenArguments(b, h, d[k])
  BY <1>6, Zenon DEF CallOpen, OpenArguments, Held
<1> QED BY <1>3, <1>4, <1>5, <1>6, <1>7 DEF CallOpen

\* The last frame, that reads no argument, returns.
LEMMA OpenPopped ==
  ASSUME NEW h \in Seq(Node), NEW c \in Seq(Frame), NEW d,
         NEW k \in DOMAIN c, NEW b, CallOpen(b, h, c, k), k # Len(c), ~ Arg(c[Len(c)]),
         Len(d) = Len(c) - 1, DOMAIN d = 1 .. Len(d), \A j \in DOMAIN d : Alike(d[j], c[j]),
         \A n, e : CallClosed(e, h, c, n) => CallClosed(e, h, d, n)
  PROVE  CallOpen(b, h, d, k)
<1> USE DEF Alike
<1>1. /\ Len(c) \in Nat /\ DOMAIN c = 1 .. Len(c) /\ k \in 1 .. Len(c) - 1 /\ k \in Nat
      /\ k \in DOMAIN d
  BY OpenFacts
<1>2. OpenFrames(b, c, k) /\ OpenSiblings(b, h, c, k) /\ OpenEmpty(h, c, k)
  BY DEF CallOpen
<1>3. \A j \in DOMAIN d : j \in DOMAIN c /\ \A i \in k + 1 .. j : i \in DOMAIN d /\ i \in DOMAIN c
  BY <1>1
<1>4. OpenFrames(b, d, k)
  <2>1. /\ \A j \in 1 .. k - 1 : j \in DOMAIN d
        /\ \A j \in k .. Len(d) : j \in DOMAIN d /\ j \in k .. Len(c)
        /\ \A j \in k + 1 .. Len(d) : j \in DOMAIN d /\ j \in k + 1 .. Len(c)
    BY <1>1
  <2>2. /\ \A j \in 1 .. k - 1 : FrameUnder(d[j], d[k].node)
        /\ \A j \in k .. Len(d) : FrameOver(b, d[j], d[k])
    BY <1>1, <1>2, <2>1 DEF OpenFrames, FrameUnder, FrameOver
  <2>3. ASSUME NEW j \in k + 1 .. Len(d)
        PROVE  /\ d[j].node > b \/ d[j].by = "parenthesis"
               /\ d[j].emplace.field = "sibling" =>
                    \/ d[j].emplace = d[k].emplace
                    \/ \E i \in k + 1 .. j : Arg(d[i]) /\ d[j].emplace.node > d[i].node
    <3>1. /\ c[j].node > b \/ c[j].by = "parenthesis"
          /\ c[j].emplace.field = "sibling" =>
               \/ c[j].emplace = c[k].emplace
               \/ \E i \in k + 1 .. j : Arg(c[i]) /\ c[j].emplace.node > c[i].node
      BY <1>2, <2>1 DEF OpenFrames
    <3> QED BY <1>1, <1>3, <2>1, <3>1 DEF Arg
  <2> QED BY <2>2, <2>3 DEF OpenFrames
<1>5. OpenSiblings(b, h, d, k)
  <2>1. \A i \in k + 1 .. Len(c) : Arg(c[i]) => i \in k + 1 .. Len(d) /\ Arg(d[i])
    <3> SUFFICES ASSUME NEW i \in k + 1 .. Len(c), Arg(c[i])
                 PROVE  i \in k + 1 .. Len(d) /\ Arg(d[i])
      OBVIOUS
    <3>1. i # Len(c)
      OBVIOUS
    <3>2. i \in k + 1 .. Len(d) /\ i \in DOMAIN d
      BY <1>1, <3>1
    <3> QED BY <3>2 DEF Arg
  <2>2. \A x : AroundClosed(h, c, x) => AroundClosed(h, d, x)
    BY DEF AroundClosed
  <2>3. \A i \in k + 1 .. Len(d) : d[i].node = c[i].node
    BY <1>1
  <2> QED BY <1>2, <2>1, <2>2, <2>3 DEF OpenSiblings
<1>6. OpenEmpty(h, d, k)
  <2>1. Held(h, d[k]) = Held(h, c[k])
    BY <1>1 DEF Held
  <2>2. \A j \in DOMAIN d : Within(d, k, j) => Within(c, k, j)
    <3>1. \A j \in DOMAIN d : j \in k .. Len(d) => j \in k .. Len(c)
      BY <1>1
    <3> QED BY <1>3, <3>1 DEF Within, Arg
  <2>3. \A j \in DOMAIN d : Held(h, c[k]) <= 0 /\ Within(c, k, j) =>
           c[j].emplace = c[k].emplace /\ c[j].previous = Null
    BY <1>2, <1>3 DEF OpenEmpty
  <2> QED BY <1>1, <2>1, <2>2, <2>3 DEF OpenEmpty
<1>7. /\ d[k].node = c[k].node /\ d[k].emplace = c[k].emplace
  BY <1>1, Zenon
<1>8. OpenArguments(b, h, d[k])
  BY <1>7, Zenon DEF CallOpen, OpenArguments, Held
<1> QED BY <1>4, <1>5, <1>6, <1>7, <1>8 DEF CallOpen

\* The previous child of the last frame and its right side swap what they hold.
LEMMA OpenSwapped ==
  ASSUME NEW h \in Seq(Node), NEW g \in Seq(Node), NEW c \in Seq(Frame),
         NEW k \in DOMAIN c, NEW b, CallOpen(b, h, c, k),
         NEW q \in DOMAIN h, NEW r \in DOMAIN h, q # r, q = c[Len(c)].previous,
         Swapped(h, g, q, r), g[q].token = h[r].token, g[r].token = h[q].token,
         \A x \in DOMAIN h : g[x].nb_arguments = h[x].nb_arguments,
         \A n, e : CallClosed(e, h, c, n) => CallClosed(e, g, c, n)
  PROVE  CallOpen(b, g, c, k)
<1> DEFINE n == c[k].node
<1>1. /\ Len(h) \in Nat /\ DOMAIN h = 1 .. Len(h) /\ n \in DOMAIN h /\ b \in Nat
      /\ n <= b /\ b <= Len(h) /\ n \in Nat /\ FrameOver(b, c[Len(c)], c[k])
      /\ Len(c) \in Nat /\ DOMAIN c = 1 .. Len(c) /\ Len(c) \in k .. Len(c) /\ k \in Nat
      /\ Len(g) = Len(h) /\ DOMAIN g = DOMAIN h
  BY OpenFacts DEF Swapped
<1>2. OpenNode(b, h, n) /\ OpenFrames(b, c, k) /\ OpenSiblings(b, h, c, k) /\ OpenEmpty(h, c, k)
  BY DEF CallOpen
<1>0. n = c[k].node
  OBVIOUS
<1>3. q > b /\ q \in b + 1 .. Len(h)
  <2>1. q # Null
    BY <1>1 DEF Null
  <2> QED BY <1>1, <2>1 DEF FrameOver
<1>4. r > b /\ r \in b + 1 .. Len(h)
  <2>1. h[q]["right"] = r
    BY DEF Swapped
  <2> QED BY <1>1, <1>2, <1>3, <2>1 DEF OpenNode
<1>5. \A x \in 1 .. b : g[x] = h[x]
  <2>1. \A x \in 1 .. b : x \in DOMAIN h \ {q, r}
    BY <1>1, <1>3, <1>4
  <2> QED BY <2>1 DEF Swapped
<1>6. \A x \in DOMAIN h : g[x]["sibling"] = h[x]["sibling"]
  BY DEF Swapped
<1> HIDE DEF n
<1>7. OpenNode(b, g, n)
  <2>1. \A x \in 1 .. n - 1, l \in Link : g[x][l] < n
    <3>1. \A x \in 1 .. n - 1 : x \in 1 .. b
      BY <1>1
    <3> QED BY <1>2, <1>5, <3>1 DEF OpenNode
  <2>2. \A x \in b + 1 .. Len(g), l \in {"left", "right"} : g[x][l] <= 0 \/ g[x][l] > b
    <3> SUFFICES ASSUME NEW x \in b + 1 .. Len(g), NEW l \in {"left", "right"}
                 PROVE  g[x][l] <= 0 \/ g[x][l] > b
      OBVIOUS
    <3>1. \A z \in b + 1 .. Len(h), p \in {"left", "right"} : h[z][p] <= 0 \/ h[z][p] > b
      BY <1>2 DEF OpenNode
    <3>2. CASE x \notin {q, r}
      <4>1. x \in DOMAIN h \ {q, r}
        BY <1>1, <3>2
      <4>2. g[x] = h[x]
        BY <4>1 DEF Swapped
      <4> QED BY <1>1, <3>1, <4>2
    <3>3. CASE x \in {q, r}
      <4>1. /\ g[q]["left"] = r /\ g[q]["right"] = h[r]["right"]
            /\ g[r]["left"] = h[q]["left"] /\ g[r]["right"] = h[r]["left"]
        BY DEF Swapped
      <4> QED BY <1>3, <1>4, <3>1, <3>3, <4>1
    <3> QED BY <3>2, <3>3
  <2>3. n \in 1 .. b
    BY <1>1
  <2> QED BY <1>1, <1>2, <1>5, <2>1, <2>2, <2>3 DEF OpenNode
<1>8. c[k].emplace.node \in n .. b /\ c[k].emplace.node \in 1 .. b
  BY <1>0, <1>1, OpenPlace
<1>9. Held(g, c[k]) = Held(h, c[k])
  BY <1>5, <1>8 DEF Held
<1>10. OpenArguments(b, g, c[k])
  <2>1. \A x \in n .. b : x \in 1 .. b
    BY <1>1
  <2>2. /\ \A x \in n .. b : g[x].token = h[x].token /\ g[x].nb_arguments = h[x].nb_arguments
        /\ \A x \in n .. b, l \in Link : Field(x, l) = c[k].emplace \/ g[x][l] = h[x][l]
    BY <1>5, <2>1
  <2>3. Held(g, c[k]) <= 0 \/ Held(g, c[k]) > b
    BY <1>9 DEF CallOpen, OpenArguments
  <2>4. \A i \in n .. b, x \in b + 1 .. Len(g) :
           (\A z \in b + 1 .. Len(h) : h[i].token < h[z].token) => g[i].token < g[x].token
    <3> SUFFICES ASSUME NEW i \in n .. b, NEW x \in b + 1 .. Len(g),
                        \A z \in b + 1 .. Len(h) : h[i].token < h[z].token
                 PROVE  g[i].token < g[x].token
      OBVIOUS
    <3>1. g[i].token = h[i].token
      BY <2>2
    <3>2. CASE x \in {q, r}
      BY <1>3, <1>4, <3>1, <3>2
    <3>3. CASE x \notin {q, r}
      <4>1. x \in DOMAIN h \ {q, r} /\ x \in b + 1 .. Len(h)
        BY <1>1, <3>3
      <4>2. g[x] = h[x]
        BY <4>1 DEF Swapped
      <4> QED BY <3>1, <4>1, <4>2
    <3> QED BY <3>2, <3>3
  <2>5. Len(h) <= Len(g)
    BY <1>1
  <2> QED BY <1>0, <2>2, <2>3, <2>4, <2>5, OpenArgumentsKept
<1>11. OpenSiblings(b, g, c, k)
  <2>1. \A x : AroundClosed(h, c, x) => AroundClosed(g, c, x)
    BY DEF AroundClosed
  <2>2. \A x \in b + 1 .. Len(g) : x \in b + 1 .. Len(h) /\ x \in DOMAIN h
    BY <1>1
  <2> QED BY <1>2, <1>6, <2>1, <2>2 DEF OpenSiblings
<1>12. OpenEmpty(g, c, k)
  BY <1>2, <1>9 DEF OpenEmpty
<1> QED BY <1>0, <1>2, <1>7, <1>10, <1>11, <1>12 DEF CallOpen

\* Another call counts an argument.
LEMMA OpenCounted ==
  ASSUME NEW h \in Seq(Node), NEW g \in Seq(Node), NEW c \in Seq(Frame),
         NEW k \in DOMAIN c, NEW b, CallOpen(b, h, c, k), NEW q, Counting(h, g, q),
         q \notin c[k].node .. b,
         \A n, e : CallClosed(e, h, c, n) => CallClosed(e, g, c, n)
  PROVE  CallOpen(b, g, c, k)
<1> DEFINE n == c[k].node
<1>1. /\ Len(h) \in Nat /\ DOMAIN h = 1 .. Len(h) /\ n \in DOMAIN h /\ b \in Nat
      /\ n <= b /\ b <= Len(h) /\ n \in Nat /\ c[k].emplace.field \in Link
  BY OpenFacts
<1>2. /\ Len(g) = Len(h) /\ DOMAIN g = DOMAIN h
      /\ \A x \in DOMAIN h, l \in Link : g[x][l] = h[x][l]
      /\ \A x \in DOMAIN h : g[x].type = h[x].type /\ g[x].token = h[x].token
      /\ \A x \in DOMAIN h \ {q} : g[x].nb_arguments = h[x].nb_arguments
  BY DEF Counting, SameLinks
<1>3. c[k].emplace.node \in n .. b
  BY OpenPlace
<1>0. n = c[k].node
  OBVIOUS
<1>4. OpenNode(b, h, n) /\ OpenFrames(b, c, k) /\ OpenSiblings(b, h, c, k) /\ OpenEmpty(h, c, k)
  BY DEF CallOpen
<1> HIDE DEF n
<1>5. \A x \in n .. b : x \in DOMAIN h /\ x # q
  BY <1>0, <1>1
<1>6. \A x \in b + 1 .. Len(g) : x \in DOMAIN h /\ x \in b + 1 .. Len(h)
  BY <1>1, <1>2
<1>7. OpenNode(b, g, n)
  <2>1. \A x \in 1 .. n - 1 : x \in DOMAIN h
    BY <1>1
  <2>2. "left" \in Link /\ "right" \in Link /\ "sibling" \in Link
    BY DEF Link
  <2>3. \A x \in 1 .. n - 1, l \in Link : g[x][l] < n
    BY <1>2, <1>4, <2>1 DEF OpenNode
  <2>4. \A x \in b + 1 .. Len(g), l \in {"left", "right"} : g[x][l] <= 0 \/ g[x][l] > b
    <3> SUFFICES ASSUME NEW x \in b + 1 .. Len(g), NEW l \in {"left", "right"}
                 PROVE  g[x][l] <= 0 \/ g[x][l] > b
      OBVIOUS
    <3>1. g[x][l] = h[x][l] /\ x \in b + 1 .. Len(h)
      BY <1>2, <1>6, <2>2
    <3> QED BY <1>4, <3>1 DEF OpenNode
  <2> QED BY <1>1, <1>2, <1>4, <2>2, <2>3, <2>4 DEF OpenNode
<1>8. Held(g, c[k]) = Held(h, c[k])
  BY <1>1, <1>2, <1>3, <1>5 DEF Held
<1>9. OpenArguments(b, g, c[k])
  <2>1. /\ \A x \in n .. b : g[x].token = h[x].token /\ g[x].nb_arguments = h[x].nb_arguments
        /\ \A x \in n .. b, l \in Link : Field(x, l) = c[k].emplace \/ g[x][l] = h[x][l]
    BY <1>2, <1>5
  <2>2. Held(g, c[k]) <= 0 \/ Held(g, c[k]) > b
    BY <1>8 DEF CallOpen, OpenArguments
  <2>3. \A i \in n .. b, x \in b + 1 .. Len(g) :
           (\A z \in b + 1 .. Len(h) : h[i].token < h[z].token) => g[i].token < g[x].token
    BY <1>2, <1>5, <1>6
  <2>4. Len(h) <= Len(g)
    BY <1>1, <1>2
  <2> QED BY <1>0, <2>1, <2>2, <2>3, <2>4, OpenArgumentsKept
<1>10. OpenSiblings(b, g, c, k)
  <2>1. \A x : AroundClosed(h, c, x) => AroundClosed(g, c, x)
    BY DEF AroundClosed
  <2> QED BY <1>2, <1>4, <1>6, <2>1 DEF OpenSiblings, Link
<1>11. OpenEmpty(g, c, k)
  BY <1>4, <1>8 DEF OpenEmpty
<1> QED BY <1>0, <1>4, <1>7, <1>9, <1>10, <1>11 DEF CallOpen

\* The call of the last frame has its last argument: it is stored where the frame
\* below stores.
LEMMA OpenAttached ==
  ASSUME NEW h \in Seq(Node), NEW g \in Seq(Node), NEW c \in Seq(Frame), NEW d,
         NEW k \in DOMAIN c, NEW b, CallOpen(b, h, c, k), k # Len(c),
         Len(d) = Len(c) - 1, DOMAIN d = 1 .. Len(d), \A j \in DOMAIN d : Alike(d[j], c[j]),
         NEW q \in Nat, q = c[Len(c)].node, Arg(c[Len(c)]),
         Attached(h, g, c[Len(c) - 1].emplace, q), KeepsData(h, g),
         CallClosed(Len(g), g, d, q),
         \A n, e : CallClosed(e, h, c, n) => CallClosed(e, g, d, n)
  PROVE  CallOpen(b, g, d, k)
<1> USE DEF Alike
<1> DEFINE n == c[k].node  ref == c[Len(c) - 1].emplace  K == Len(c)
<1>1. /\ Len(h) \in Nat /\ DOMAIN h = 1 .. Len(h) /\ n \in DOMAIN h /\ b \in Nat
      /\ n <= b /\ b <= Len(h) /\ n \in Nat /\ K \in Nat /\ DOMAIN c = 1 .. K
      /\ k \in 1 .. K - 1 /\ k \in Nat /\ k \in DOMAIN d /\ K - 1 \in DOMAIN d
      /\ K - 1 \in DOMAIN c /\ K - 1 \in k .. K /\ K \in k + 1 .. K
      /\ Len(g) = Len(h) /\ DOMAIN g = DOMAIN h /\ Len(d) = K - 1 /\ DOMAIN d = 1 .. K - 1
  <2>1. /\ Len(h) \in Nat /\ DOMAIN h = 1 .. Len(h) /\ n \in DOMAIN h /\ b \in Nat
        /\ n <= b /\ b <= Len(h) /\ n \in Nat /\ K \in Nat /\ DOMAIN c = 1 .. K
        /\ k \in 1 .. K /\ k # K
    BY OpenFacts
  <2>2. Len(d) = K - 1 /\ DOMAIN d = 1 .. Len(d) /\ Len(g) = Len(h) /\ DOMAIN g = DOMAIN h
    BY DEF Attached
  <2> HIDE DEF K, n
  <2> QED BY <2>1, <2>2
<1>2. OpenNode(b, h, n) /\ OpenFrames(b, c, k) /\ OpenSiblings(b, h, c, k) /\ OpenEmpty(h, c, k)
  BY DEF CallOpen
<1>3. /\ \A x \in DOMAIN h, l \in Link : g[x][l] = IF Field(x, l) = ref THEN q ELSE h[x][l]
      /\ \A x \in DOMAIN h : /\ g[x].type = h[x].type /\ g[x].token = h[x].token
                             /\ g[x].nb_arguments = h[x].nb_arguments
  BY DEF Attached, KeepsData
<1>4. /\ c[k].emplace.node \in n .. b /\ c[k].emplace # Field(n, "sibling")
      /\ c[k].emplace.field \in Link /\ c[k].emplace \in Reference
      /\ ref \in Reference /\ ref.node \in Nat
  BY <1>1, OpenPlace, OpenFacts
<1>5. q > b
  <2>1. c[K].node > b \/ c[K].by = "parenthesis"
    BY <1>1, <1>2 DEF OpenFrames
  <2> QED BY <2>1 DEF Arg
<1>6. ref = c[k].emplace \/ ref.node > b
  BY <1>1, <1>2 DEF OpenFrames, FrameOver
<1>7. ref.node >= n /\ ref # Field(n, "sibling")
  <2>1. Field(n, "sibling").node = n
    BY DEF Field
  <2>2. CASE ref = c[k].emplace
    BY <1>1, <1>4, <2>2
  <2>3. CASE ref.node > b
    BY <1>1, <1>4, <2>1, <2>3, SMTT(30)
  <2> HIDE DEF n, ref
  <2> QED BY <1>6, <2>2, <2>3
<1>8. \A x \in n .. b : x \in DOMAIN h /\ x \in Nat
  BY <1>1
<1>9. \A x \in b + 1 .. Len(g) : x \in b + 1 .. Len(h) /\ x \in DOMAIN h /\ x \in Nat
  BY <1>1
<1>0. n = c[k].node /\ ref = c[K - 1].emplace /\ K = Len(c) /\ d[k].node = n
      /\ d[k].emplace = c[k].emplace /\ d[k].by = c[k].by
  BY <1>1
<1>10. \A j \in DOMAIN d : j \in DOMAIN c /\ \A i \in k + 1 .. j : i \in DOMAIN d /\ i \in DOMAIN c
  BY <1>1
<1>00. /\ \A j \in DOMAIN d : Alike(d[j], c[j])
       /\ Arg(c[K]) /\ q = c[K].node
       /\ CallClosed(Len(g), g, d, q)
       /\ \A z, e : CallClosed(e, h, c, z) => CallClosed(e, g, d, z)
  OBVIOUS
<1> HIDE DEF n, ref, K
<1>11. OpenNode(b, g, n)
  <2>1. \A x \in 1 .. n - 1, l \in Link : g[x][l] < n
    <3> SUFFICES ASSUME NEW x \in 1 .. n - 1, NEW l \in Link PROVE g[x][l] < n
      OBVIOUS
    <3>1. x \in DOMAIN h /\ x \in Nat /\ Field(x, l) # ref
      BY <1>1, <1>7 DEF Field
    <3> QED BY <1>2, <1>3, <3>1 DEF OpenNode
  <2>2. \A x \in b + 1 .. Len(g), l \in {"left", "right"} : g[x][l] <= 0 \/ g[x][l] > b
    <3> SUFFICES ASSUME NEW x \in b + 1 .. Len(g), NEW l \in {"left", "right"}
                 PROVE  g[x][l] <= 0 \/ g[x][l] > b
      OBVIOUS
    <3>1. l \in Link /\ x \in DOMAIN h /\ x \in b + 1 .. Len(h)
      BY <1>9 DEF Link
    <3> QED BY <1>2, <1>3, <1>5, <3>1 DEF OpenNode
  <2>3. g[n]["sibling"] = Null
    BY <1>1, <1>2, <1>3, <1>7 DEF OpenNode, Link
  <2>4. g[n].type = "call"
    BY <1>1, <1>2, <1>3 DEF OpenNode
  <2> QED BY <1>1, <2>1, <2>2, <2>3, <2>4 DEF OpenNode
<1>12. OpenFrames(b, d, k)
  <2>1. /\ \A j \in 1 .. k - 1 : j \in DOMAIN d
        /\ \A j \in k .. Len(d) : j \in DOMAIN d /\ j \in k .. K
        /\ \A j \in k + 1 .. Len(d) : j \in DOMAIN d /\ j \in k + 1 .. K
    BY <1>1, Z3
  <2>2. /\ \A j \in 1 .. k - 1 : FrameUnder(d[j], d[k].node)
        /\ \A j \in k .. Len(d) : FrameOver(b, d[j], d[k])
    BY <1>0, <1>00, <1>1, <1>2, <2>1 DEF OpenFrames, FrameUnder, FrameOver
  <2>3. ASSUME NEW j \in k + 1 .. Len(d)
        PROVE  /\ d[j].node > b \/ d[j].by = "parenthesis"
               /\ d[j].emplace.field = "sibling" =>
                    \/ d[j].emplace = d[k].emplace
                    \/ \E i \in k + 1 .. j : Arg(d[i]) /\ d[j].emplace.node > d[i].node
    <3>1. /\ c[j].node > b \/ c[j].by = "parenthesis"
          /\ c[j].emplace.field = "sibling" =>
               \/ c[j].emplace = c[k].emplace
               \/ \E i \in k + 1 .. j : Arg(c[i]) /\ c[j].emplace.node > c[i].node
      BY <1>0, <1>2, <2>1 DEF OpenFrames
    <3> QED BY <1>0, <1>00, <1>1, <1>10, <2>1, <3>1 DEF Arg
  <2> QED BY <2>2, <2>3 DEF OpenFrames
<1>13. IF ref = c[k].emplace THEN Held(g, d[k]) = q ELSE Held(g, d[k]) = Held(h, c[k])
  <2>1. /\ Held(g, d[k]) = g[c[k].emplace.node][c[k].emplace.field]
        /\ Held(h, c[k]) = h[c[k].emplace.node][c[k].emplace.field]
        /\ c[k].emplace.node \in DOMAIN h /\ c[k].emplace.node \in Nat
    BY <1>0, <1>4, <1>8 DEF Held
  <2>2. Field(c[k].emplace.node, c[k].emplace.field) = c[k].emplace
    BY <1>4, <2>1, FieldFacts
  <2> QED BY <1>3, <1>4, <2>1, <2>2
<1>14. OpenArguments(b, g, d[k])
  <2>1. Held(g, d[k]) <= 0 \/ Held(g, d[k]) > b
    <3>1. Held(h, c[k]) <= 0 \/ Held(h, c[k]) > b
      BY DEF CallOpen, OpenArguments
    <3> QED BY <1>5, <1>13, <3>1
  <2>2. \A x \in n .. b, l \in Link : Field(x, l) = c[k].emplace \/ g[x][l] = h[x][l]
    <3> SUFFICES ASSUME NEW x \in n .. b, NEW l \in Link, Field(x, l) # c[k].emplace
                 PROVE  g[x][l] = h[x][l]
      OBVIOUS
    <3>1. Field(x, l) # ref
      <4>1. x <= b /\ b \in Nat
        BY <1>1
      <4> QED BY <1>6, <4>1 DEF Field
    <3> QED BY <1>3, <1>8, <3>1
  <2>3. \A i \in n .. b, x \in b + 1 .. Len(g) :
           (\A z \in b + 1 .. Len(h) : h[i].token < h[z].token) => g[i].token < g[x].token
    BY <1>3, <1>8, <1>9
  <2>4. \A x \in n .. b : g[x].token = h[x].token /\ g[x].nb_arguments = h[x].nb_arguments
    BY <1>3, <1>8
  <2>5. d[k].node = c[k].node /\ d[k].emplace = c[k].emplace /\ Len(h) <= Len(g)
    BY <1>0, <1>1
  <2>6. /\ \A x \in c[k].node .. b : g[x].token = h[x].token
                                  /\ g[x].nb_arguments = h[x].nb_arguments
        /\ \A x \in c[k].node .. b, l \in Link :
             Field(x, l) = c[k].emplace \/ g[x][l] = h[x][l]
        /\ \A i \in c[k].node .. b, x \in b + 1 .. Len(g) :
             (\A z \in b + 1 .. Len(h) : h[i].token < h[z].token) => g[i].token < g[x].token
    BY <1>0, <2>2, <2>3, <2>4
  <2> QED BY <2>1, <2>5, <2>6, OpenArgumentsKept
<1>15. OpenSiblings(b, g, d, k)
  <2> SUFFICES ASSUME NEW x \in b + 1 .. Len(g), g[x]["sibling"] # Null
               PROVE  \/ \E i \in k + 1 .. Len(d) : Arg(d[i]) /\ x > d[i].node
                      \/ AroundClosed(g, d, x)
    BY DEF OpenSiblings
  <2>0. \A i \in k + 1 .. K - 1 : /\ i \in k + 1 .. Len(d) /\ (Arg(d[i]) <=> Arg(c[i]))
                                  /\ d[i].node = c[i].node
    <3>1. \A i \in k + 1 .. K - 1 : i \in k + 1 .. Len(d) /\ i \in DOMAIN d
      BY <1>1
    <3> QED BY <1>00, <3>1 DEF Arg
  <2>1. x \in b + 1 .. Len(h) /\ x \in DOMAIN h /\ x \in Nat /\ x > b /\ x <= Len(g)
    BY <1>1, <1>9
  <2>2. CASE Field(x, "sibling") = ref
    <3>1. ref.node = x /\ ref.field = "sibling"
      BY <2>2 DEF Field
    <3>2. ref # c[k].emplace
      BY <1>1, <1>4, <2>1, <3>1
    <3>3. K - 1 \in k + 1 .. K
      <4>1. K - 1 # k
        BY <1>0, <3>2
      <4> QED BY <1>1, <4>1
    <3>4. PICK i \in k + 1 .. K - 1 : Arg(c[i]) /\ ref.node > c[i].node
      BY <1>0, <1>2, <3>1, <3>2, <3>3 DEF OpenFrames
    <3> QED BY <2>0, <3>1, <3>4
  <2>3. CASE Field(x, "sibling") # ref
    <3>1. h[x]["sibling"] # Null
      BY <1>3, <2>1, <2>3 DEF Link
    <3>2. ASSUME NEW i \in k + 1 .. K, Arg(c[i]), x > c[i].node
          PROVE  \/ \E z \in k + 1 .. Len(d) : Arg(d[z]) /\ x > d[z].node
                 \/ AroundClosed(g, d, x)
      <4>1. CASE i = K
        BY <1>00, <2>1, <3>2, <4>1 DEF AroundClosed
      <4>2. CASE i # K
        <5>1. i \in k + 1 .. K - 1
          BY <1>1, <4>2
        <5> QED BY <2>0, <3>2, <5>1
      <4> QED BY <4>1, <4>2
    <3>3. CASE AroundClosed(h, c, x)
      BY <1>00, <3>3 DEF AroundClosed
    <3> QED BY <1>0, <1>2, <2>1, <3>1, <3>2, <3>3 DEF OpenSiblings
  <2> QED BY <2>2, <2>3
<1>16. OpenEmpty(g, d, k)
  <2> SUFFICES ASSUME Held(g, d[k]) <= 0, NEW j \in DOMAIN d, Within(d, k, j)
               PROVE  d[j].emplace = d[k].emplace /\ d[j].previous = Null
    BY DEF OpenEmpty
  <2>1. Held(h, c[k]) <= 0
    BY <1>1, <1>5, <1>13
  <2>2. Within(c, k, j)
    <3>1. j \in k .. Len(c)
      BY <1>0, <1>1 DEF Within
    <3> QED BY <1>00, <1>10, <3>1 DEF Within, Arg
  <2>3. c[j].emplace = c[k].emplace /\ c[j].previous = Null
    BY <1>2, <1>10, <2>1, <2>2 DEF OpenEmpty
  <2> QED BY <1>0, <1>00, <2>3
<1> QED BY <1>0, <1>11, <1>12, <1>14, <1>15, <1>16 DEF CallOpen

\* The call of the last frame reads another argument, while another is under way.
Replaced(c, d, y) ==
  /\ Len(d) = Len(c) /\ DOMAIN d = 1 .. Len(d)
  /\ \A j \in DOMAIN d : j # Len(d) => Alike(d[j], c[j])
  /\ d[Len(d)].node = c[Len(c)].node /\ d[Len(d)].by = "argument"
  /\ d[Len(d)].previous = Null /\ d[Len(d)].emplace = Field(y, "sibling")
LEMMA OpenReplaced ==
  ASSUME NEW h \in Seq(Node), NEW c \in Seq(Frame), NEW d,
         NEW k \in DOMAIN c, NEW b, CallOpen(b, h, c, k), k # Len(c),
         Arg(c[Len(c)]), NEW y \in Nat, y > c[Len(c)].node, Replaced(c, d, y),
         \A n, e : CallClosed(e, h, c, n) => CallClosed(e, h, d, n)
  PROVE  CallOpen(b, h, d, k)
<1> USE DEF Alike
<1> DEFINE K == Len(c)
<1>1. /\ K \in Nat /\ DOMAIN c = 1 .. K /\ k \in 1 .. K - 1 /\ k \in Nat /\ K \in k + 1 .. K
      /\ Len(d) = K /\ DOMAIN d = 1 .. K /\ b \in Nat /\ c[K].node \in Nat
  BY OpenFacts DEF Replaced
<1>2. OpenFrames(b, c, k) /\ OpenSiblings(b, h, c, k) /\ OpenEmpty(h, c, k)
  BY DEF CallOpen
<1>3. /\ \A j \in 1 .. K - 1 : Alike(d[j], c[j])
      /\ d[K].node = c[K].node /\ Arg(d[K]) /\ Arg(c[K]) /\ d[K].previous = Null
      /\ d[K].emplace.node = y /\ y > c[K].node
  <2>1. d[K].node = c[K].node /\ Arg(d[K]) /\ d[K].previous = Null /\ d[K].emplace.node = y
    BY <1>1 DEF Replaced, Arg, Field
  <2>2. \A j \in 1 .. K - 1 : Alike(d[j], c[j])
    <3> HIDE DEF K
    <3>1. \A j \in 1 .. K - 1 : j \in DOMAIN d /\ j # Len(d)
      BY <1>1
    <3> QED BY <3>1 DEF Replaced
  <2> QED BY <2>1, <2>2
<1>4. \A j \in 1 .. K : (Arg(d[j]) <=> Arg(c[j])) /\ d[j].node = c[j].node
  <2> SUFFICES ASSUME NEW j \in 1 .. K
               PROVE  (Arg(d[j]) <=> Arg(c[j])) /\ d[j].node = c[j].node
    OBVIOUS
  <2> HIDE DEF K
  <2>1. j = K \/ j \in 1 .. K - 1
    BY <1>1
  <2> QED BY <1>3, <2>1 DEF Arg
<1>0. K = Len(c)
  OBVIOUS
<1> HIDE DEF K
<1>5. c[K].node > b
  BY <1>0, <1>1, <1>2, <1>3 DEF OpenFrames, Arg
<1>6. \A j \in 1 .. K : j = K \/ j \in 1 .. K - 1
  BY <1>1
<1>7. OpenFrames(b, d, k)
  <2>1. \A j \in 1 .. k - 1 : FrameUnder(d[j], d[k].node)
    <3>1. \A j \in 1 .. k - 1 : j \in 1 .. K - 1
      BY <1>1
    <3> QED BY <1>1, <1>2, <1>3, <3>1 DEF OpenFrames, FrameUnder
  <2>2. \A j \in k .. Len(d) : FrameOver(b, d[j], d[k])
    <3> SUFFICES ASSUME NEW j \in k .. K PROVE FrameOver(b, d[j], d[k])
      BY <1>1
    <3>1. CASE j = K
      BY <1>1, <1>3, <1>5, <3>1 DEF FrameOver
    <3>2. CASE j # K
      <4>1. j \in 1 .. K - 1
        BY <1>1, <3>2
      <4> QED BY <1>0, <1>1, <1>2, <1>3, <4>1 DEF OpenFrames, FrameOver
    <3> QED BY <3>1, <3>2
  <2>3. ASSUME NEW j \in k + 1 .. Len(d)
        PROVE  /\ d[j].node > b \/ d[j].by = "parenthesis"
               /\ d[j].emplace.field = "sibling" =>
                    \/ d[j].emplace = d[k].emplace
                    \/ \E i \in k + 1 .. j : Arg(d[i]) /\ d[j].emplace.node > d[i].node
    <3>1. CASE j = K
      <4>1. K \in k + 1 .. j
        BY <1>1, <3>1
      <4> QED BY <1>3, <1>5, <3>1, <4>1
    <3>2. CASE j # K
      <4>1. j \in 1 .. K - 1 /\ j \in k + 1 .. K /\ \A i \in k + 1 .. j : i \in 1 .. K
        BY <1>1, <3>2
      <4>2. /\ c[j].node > b \/ c[j].by = "parenthesis"
            /\ c[j].emplace.field = "sibling" =>
                 \/ c[j].emplace = c[k].emplace
                 \/ \E i \in k + 1 .. j : Arg(c[i]) /\ c[j].emplace.node > c[i].node
        BY <1>0, <1>2, <4>1 DEF OpenFrames
      <4> QED BY <1>1, <1>3, <1>4, <4>1, <4>2
    <3> QED BY <3>1, <3>2
  <2> QED BY <2>1, <2>2, <2>3 DEF OpenFrames
<1>8. OpenSiblings(b, h, d, k)
  <2>1. \A x : AroundClosed(h, c, x) => AroundClosed(h, d, x)
    BY DEF AroundClosed
  <2>2. \A i \in k + 1 .. Len(c) : i \in k + 1 .. Len(d) /\ i \in 1 .. K
    BY <1>0, <1>1
  <2> QED BY <1>2, <1>4, <2>1, <2>2 DEF OpenSiblings
<1>9. OpenEmpty(h, d, k)
  <2> SUFFICES ASSUME Held(h, d[k]) <= 0, NEW j \in DOMAIN d, Within(d, k, j)
               PROVE  d[j].emplace = d[k].emplace /\ d[j].previous = Null
    BY DEF OpenEmpty
  <2>1. Held(h, c[k]) <= 0
    BY <1>1, <1>3 DEF Held
  <2>2. j # K
    <3>1. j = K => K \in k + 1 .. j
      BY <1>1
    <3> QED BY <1>3, <3>1 DEF Within
  <2>3. Within(c, k, j) /\ j \in DOMAIN c /\ j \in 1 .. K - 1
    <3>1. j \in k .. Len(c) /\ j \in 1 .. K - 1 /\ \A i \in k + 1 .. j : i \in 1 .. K
      BY <1>0, <1>1, <2>2 DEF Within
    <3> QED BY <1>1, <1>4, <3>1 DEF Within
  <2>4. c[j].emplace = c[k].emplace /\ c[j].previous = Null
    BY <1>2, <2>1, <2>3 DEF OpenEmpty
  <2> QED BY <1>1, <1>3, <2>3, <2>4
<1>10. d[k].node = c[k].node /\ d[k].emplace = c[k].emplace
  BY <1>1, <1>3, Zenon
<1>11. OpenArguments(b, h, d[k])
  BY <1>10, Zenon DEF CallOpen, OpenArguments, Held
<1> QED BY <1>7, <1>8, <1>9, <1>10, <1>11 DEF CallOpen

\* What an argument holds has no sibling yet.
LEMMA LastHasNoSibling ==
  ASSUME NEW h \in Seq(Node), NEW c \in Seq(Frame), NEW k \in DOMAIN c, NEW b,
         CallOpen(b, h, c, k), k = Len(c), NEW y \in DOMAIN h, y = Held(h, c[k])
  PROVE  y > b /\ y \in b + 1 .. Len(h) /\ h[y]["sibling"] = Null
<1> DEFINE n == c[k].node
<1>1. /\ Len(h) \in Nat /\ DOMAIN h = 1 .. Len(h) /\ n \in DOMAIN h /\ b \in Nat
      /\ n <= b /\ b <= Len(h) /\ n \in Nat /\ Len(c) \in Nat
      /\ c[k].emplace.field \in Link
  BY OpenFacts
<1>2. y \in b + 1 .. Len(h) /\ y > b /\ y \in Nat
  <2>1. Held(h, c[k]) <= 0 \/ Held(h, c[k]) > b
    BY DEF CallOpen, OpenArguments
  <2> QED BY <1>1, <2>1
<1>3. c[k].emplace.node \in n .. b
  BY OpenPlace
<1>4. ~ AroundClosed(h, c, y)
  <2> SUFFICES ASSUME NEW q, NEW e, CallClosed(e, h, c, q), q < y, y <= e
               PROVE  FALSE
    BY DEF AroundClosed
  <2>1. FrameOutside(c[k], q, e) /\ ApartFrom(h, q, e) /\ q \in DOMAIN h /\ e \in Nat
    BY DEF CallClosed
  <2>2. y \in q + 1 .. e
    BY <1>1, <1>2, <2>1
  <2>3. c[k].emplace.node \in DOMAIN h
    BY <1>1, <1>3
  <2>4. /\ c[k].emplace.node \in q .. e
        /\ c[k].emplace.node = q => c[k].emplace.field # "sibling"
    BY <1>1, <2>1, <2>2, <2>3 DEF ApartFrom, Held
  <2>5. c[k].emplace.node \in q + 1 .. e \/ c[k].emplace.node = q
    BY <1>1, <2>1, <2>4
  <2> QED BY <2>1, <2>4, <2>5 DEF FrameOutside
<1>5. ~ \E i \in k + 1 .. Len(c) : Arg(c[i]) /\ y > c[i].node
  BY <1>1
<1> QED BY <1>2, <1>4, <1>5 DEF CallOpen, OpenSiblings

\* The arguments of the last frame's call, with the one that was read.
CountedAt(h, g, n) ==
  /\ Len(g) = Len(h)
  /\ \A x \in n .. Len(h) : g[x].token = h[x].token /\ \A l \in Link : g[x][l] = h[x][l]
  /\ g[n].nb_arguments = h[n].nb_arguments + 1
LEMMA OneMoreArgument ==
  ASSUME NEW h \in Seq(Node), NEW g \in Seq(Node), NEW c \in Seq(Frame),
         NEW k \in DOMAIN c, NEW b, CallOpen(b, h, c, k), k = Len(c),
         NEW y \in DOMAIN h, y = Held(h, c[k]), CountedAt(h, g, c[k].node)
  PROVE  \E a : /\ Arguments(g, c[k].node, Len(g), a)
                /\ a[g[c[k].node].nb_arguments] = y
<1> DEFINE n == c[k].node  m == h[n].nb_arguments
<1>1. /\ Len(h) \in Nat /\ DOMAIN h = 1 .. Len(h) /\ n \in DOMAIN h /\ b \in Nat
      /\ n <= b /\ b <= Len(h) /\ n \in Nat /\ m \in Nat
  BY OpenFacts
<1>2. PICK a : /\ Arguments(h, n, b, a)
               /\ c[k].emplace = IF m = 0 THEN Field(n, "right") ELSE Field(a[m], "sibling")
               /\ \A i \in 1 .. m, x \in b + 1 .. Len(h) : h[a[i]].token < h[x].token
  BY Zenon DEF CallOpen, OpenArguments
<1>3. /\ a \in [1 .. m -> n + 1 .. b]
      /\ m > 0 => h[n]["right"] = a[1]
      /\ \A i \in 1 .. m - 1 : h[a[i]]["sibling"] = a[i + 1]
      /\ \A i, j \in 1 .. m : i < j => h[a[i]].token < h[a[j]].token
  BY <1>2 DEF Arguments
<1>4. y > b /\ y \in b + 1 .. Len(h) /\ y \in n .. Len(h) /\ y \in n + 1 .. Len(h)
  <2>1. y > b /\ y \in b + 1 .. Len(h)
    BY LastHasNoSibling
  <2> QED BY <1>1, <2>1
<1>5. /\ \A x \in n .. Len(h) : g[x].token = h[x].token
      /\ \A x \in n .. Len(h), l \in Link : g[x][l] = h[x][l]
      /\ g[n].nb_arguments = m + 1 /\ Len(g) = Len(h)
  BY DEF CountedAt
<1>6. y = h[c[k].emplace.node][c[k].emplace.field]
  BY DEF Held
<1>0. n = c[k].node
  OBVIOUS
<1> HIDE DEF n, m
<1> DEFINE a2 == [i \in 1 .. m + 1 |-> IF i = m + 1 THEN y ELSE a[i]]
<1>7. /\ a2 \in [1 .. m + 1 -> n + 1 .. Len(h)]
      /\ a2[m + 1] = y /\ \A i \in 1 .. m : a2[i] = a[i]
  <2>1. \A i \in 1 .. m : i \in 1 .. m + 1 /\ i # m + 1
    BY <1>1
  <2>2. m + 1 \in 1 .. m + 1 /\ \A i \in 1 .. m + 1 : i = m + 1 \/ i \in 1 .. m
    BY <1>1
  <2>3. \A v \in n + 1 .. b : v \in n + 1 .. Len(h)
    BY <1>1
  <2>4. a2[m + 1] = y /\ \A i \in 1 .. m : a2[i] = a[i]
    BY <2>1, <2>2
  <2>5. \A i \in 1 .. m + 1 : a2[i] \in n + 1 .. Len(h)
    BY <1>3, <1>4, <2>2, <2>3, <2>4
  <2>6. a2 = [i \in 1 .. m + 1 |-> a2[i]]
    OBVIOUS
  <2> HIDE DEF a2
  <2>7. a2 \in [1 .. m + 1 -> n + 1 .. Len(h)]
    BY <2>5, <2>6
  <2> QED BY <2>4, <2>7
<1> HIDE DEF a2
<1>8. \A i \in 1 .. m : a2[i] \in n .. Len(h) /\ a[i] \in n .. b
  <2>1. \A i \in 1 .. m : i \in 1 .. m + 1
    BY <1>1
  <2>2. (\A v \in n + 1 .. Len(h) : v \in n .. Len(h)) /\ \A v \in n + 1 .. b : v \in n .. b
    BY <1>1
  <2> QED BY <1>3, <1>7, <2>1, <2>2
<1>9. g[n]["right"] = a2[1]
  <2>1. g[n]["right"] = h[n]["right"]
    BY <1>1, <1>5 DEF Link
  <2>2. CASE m = 0
    <3>1. h[n]["right"] = y
      BY <1>2, <1>6, <2>2 DEF Field
    <3> QED BY <1>7, <2>1, <2>2, <3>1
  <2>3. CASE m # 0
    <3>1. 1 \in 1 .. m /\ m > 0
      BY <1>1, <2>3
    <3> QED BY <1>3, <1>7, <2>1, <3>1
  <2> QED BY <2>2, <2>3
<1>10. \A i \in 1 .. m : g[a2[i]]["sibling"] = a2[i + 1]
  <2> SUFFICES ASSUME NEW i \in 1 .. m PROVE g[a2[i]]["sibling"] = a2[i + 1]
    OBVIOUS
  <2>1. g[a2[i]]["sibling"] = h[a[i]]["sibling"]
    BY <1>5, <1>7, <1>8 DEF Link
  <2>2. CASE i = m
    <3>1. c[k].emplace = Field(a[m], "sibling")
      BY <1>1, <1>2, <2>2
    <3>2. h[a[m]]["sibling"] = y
      BY <1>6, <3>1 DEF Field
    <3> QED BY <1>7, <2>1, <2>2, <3>2
  <2>3. CASE i # m
    <3>1. i \in 1 .. m - 1 /\ i + 1 \in 1 .. m
      BY <1>1, <2>3
    <3> QED BY <1>3, <1>7, <2>1, <3>1
  <2> QED BY <2>2, <2>3
<1>11. \A i, j \in 1 .. m + 1 : i < j => g[a2[i]].token < g[a2[j]].token
  <2> SUFFICES ASSUME NEW i \in 1 .. m + 1, NEW j \in 1 .. m + 1, i < j
               PROVE  g[a2[i]].token < g[a2[j]].token
    OBVIOUS
  <2>1. i \in 1 .. m /\ (j = m + 1 \/ j \in 1 .. m)
    BY <1>1
  <2>2. g[a2[i]].token = h[a[i]].token
    BY <1>5, <1>7, <1>8, <2>1
  <2>3. CASE j = m + 1
    <3>1. g[a2[j]].token = h[y].token /\ h[a[i]].token < h[y].token
      BY <1>2, <1>4, <1>5, <1>7, <2>1, <2>3
    <3> QED BY <2>2, <3>1
  <2>4. CASE j \in 1 .. m
    <3>1. g[a2[j]].token = h[a[j]].token /\ h[a[i]].token < h[a[j]].token
      BY <1>3, <1>5, <1>7, <1>8, <2>1, <2>4
    <3> QED BY <2>2, <3>1
  <2> QED BY <2>1, <2>3, <2>4
<1>12. Arguments(g, n, Len(g), a2)
  <2>1. \A i \in 1 .. (m + 1) - 1 : g[a2[i]]["sibling"] = a2[i + 1]
    BY <1>1, <1>10
  <2> QED BY <1>1, <1>5, <1>7, <1>9, <1>11, <2>1 DEF Arguments
<1> QED BY <1>0, <1>5, <1>7, <1>12

\* The next argument of the last frame's call begins.
LEMMA OpenNext ==
  ASSUME NEW h \in Seq(Node), NEW g \in Seq(Node), NEW c \in Seq(Frame), NEW d,
         NEW k \in DOMAIN c, NEW b, CallOpen(b, h, c, k), k = Len(c),
         NEW y \in DOMAIN h, y = Held(h, c[k]), SameLinks(h, g),
         g[c[k].node].nb_arguments = h[c[k].node].nb_arguments + 1,
         Replaced(c, d, y)
  PROVE  CallOpen(Len(g), g, d, k)
<1> DEFINE n == c[k].node
<1>1. /\ Len(h) \in Nat /\ DOMAIN h = 1 .. Len(h) /\ n \in DOMAIN h /\ b \in Nat
      /\ n <= b /\ b <= Len(h) /\ n \in Nat /\ k \in Nat /\ DOMAIN c = 1 .. k
  BY OpenFacts
<1>2. /\ Len(g) = Len(h) /\ DOMAIN g = DOMAIN h
      /\ \A x \in DOMAIN h, l \in Link : g[x][l] = h[x][l]
      /\ \A x \in DOMAIN h : g[x].type = h[x].type /\ g[x].token = h[x].token
  BY DEF SameLinks
<1>3. OpenNode(b, h, n) /\ OpenFrames(b, c, k)
  BY DEF CallOpen
<1>4. y \in DOMAIN h /\ h[y]["sibling"] = Null
  BY LastHasNoSibling
<1>5. /\ Len(d) = k /\ DOMAIN d = 1 .. k /\ \A j \in 1 .. k - 1 : Alike(d[j], c[j])
      /\ d[k].node = n /\ Arg(d[k]) /\ d[k].previous = Null
      /\ d[k].emplace = Field(y, "sibling")
  <2>1. /\ Len(d) = k /\ DOMAIN d = 1 .. k /\ d[k].node = n /\ Arg(d[k])
        /\ d[k].previous = Null /\ d[k].emplace = Field(y, "sibling")
        /\ \A j \in DOMAIN d : j # k => Alike(d[j], c[j])
    BY DEF Replaced, Arg
  <2>2. \A j \in 1 .. k - 1 : j \in 1 .. k /\ j # k
    BY <1>1
  <2> QED BY <2>1, <2>2
<1>0. n = c[k].node
  OBVIOUS
<1> HIDE DEF n
<1>6. OpenNode(Len(g), g, n)
  <2>1. \A x \in 1 .. n - 1, l \in Link : g[x][l] < n
    <3>1. \A x \in 1 .. n - 1 : x \in DOMAIN h
      BY <1>1
    <3> QED BY <1>2, <1>3, <3>1 DEF OpenNode
  <2>2. g[n].type = "call" /\ g[n]["sibling"] = Null
    BY <1>1, <1>2, <1>3 DEF OpenNode, Link
  <2>3. \A x \in Len(g) + 1 .. Len(g) : FALSE
    BY <1>1, <1>2
  <2>4. n <= Len(g) /\ Len(g) <= Len(g) /\ Len(g) \in Nat
    BY <1>1, <1>2
  <2> QED BY <1>1, <1>2, <2>1, <2>2, <2>3, <2>4 DEF OpenNode
<1>7. OpenFrames(Len(g), d, k)
  <2>1. \A j \in 1 .. k - 1 : FrameUnder(d[j], d[k].node)
    BY <1>0, <1>3, <1>5 DEF OpenFrames, FrameUnder, Alike
  <2>2. \A j \in k .. Len(d) : j = k
    BY <1>1, <1>5
  <2>3. \A j \in k + 1 .. Len(d) : FALSE
    BY <1>1, <1>5
  <2>4. FrameOver(Len(g), d[k], d[k])
    BY <1>5 DEF FrameOver
  <2> QED BY <2>1, <2>2, <2>3, <2>4 DEF OpenFrames
<1>8. OpenArguments(Len(g), g, d[k])
  <2>1. \A x \in n .. Len(h) : x \in DOMAIN h
    BY <1>1
  <2>2. PICK a : Arguments(g, n, Len(g), a) /\ a[g[n].nb_arguments] = y
    <3>1. g[n].nb_arguments = h[n].nb_arguments + 1
      BY <1>0
    <3>2. CountedAt(h, g, c[k].node)
      BY <1>0, <1>2, <2>1, <3>1 DEF CountedAt
    <3>3. \E a : /\ Arguments(g, c[k].node, Len(g), a)
                 /\ a[g[c[k].node].nb_arguments] = y
      BY <3>2, OneMoreArgument, SMTT(30)
    <3> QED BY <1>0, <3>3
  <2>3. g[n].nb_arguments # 0
    <3>1. h[n].nb_arguments \in Nat
      BY <1>0, OpenFacts
    <3> QED BY <1>0, <3>1
  <2>4. Held(g, d[k]) = Null
    <3>1. d[k].emplace.node = y /\ d[k].emplace.field = "sibling"
      BY <1>5 DEF Field
    <3>2. g[y]["sibling"] = h[y]["sibling"]
      BY <1>2, <1>4 DEF Link
    <3> QED BY <1>4, <3>1, <3>2, Zenon DEF Held
  <2>5. \A i \in 1 .. g[n].nb_arguments, x \in Len(g) + 1 .. Len(g) : FALSE
    BY <1>1, <1>2
  <2> QED BY <1>5, <2>2, <2>3, <2>4, <2>5 DEF OpenArguments, Null
<1>9. OpenSiblings(Len(g), g, d, k)
  BY <1>1, <1>2 DEF OpenSiblings
<1>10. OpenEmpty(g, d, k)
  BY <1>1, <1>5 DEF OpenEmpty, Within
<1> QED BY <1>5, <1>6, <1>7, <1>8, <1>9, <1>10 DEF CallOpen

\* The call of the last frame has its last argument.
LEMMA CloseLast ==
  ASSUME NEW h \in Seq(Node), NEW g \in Seq(Node), NEW c \in Seq(Frame), NEW d,
         NEW k \in DOMAIN c, NEW b, CallOpen(b, h, c, k), k = Len(c), k > 1,
         NEW y \in DOMAIN h, y = Held(h, c[k]), NEW q, q = c[k].node,
         Attached(h, g, c[k - 1].emplace, q),
         \A x \in DOMAIN h : g[x].type = h[x].type /\ g[x].token = h[x].token,
         g[q].nb_arguments = h[q].nb_arguments + 1,
         Len(d) = Len(c) - 1, DOMAIN d = 1 .. Len(d), \A j \in DOMAIN d : Alike(d[j], c[j])
  PROVE  CallClosed(Len(g), g, d, q)
<1>1. /\ Len(h) \in Nat /\ DOMAIN h = 1 .. Len(h) /\ q \in DOMAIN h /\ b \in Nat
      /\ q <= b /\ b <= Len(h) /\ q \in Nat /\ k \in Nat /\ DOMAIN c = 1 .. k
      /\ h[q].nb_arguments \in Nat
  BY OpenFacts
<1>2. Len(d) = k - 1 /\ DOMAIN d = 1 .. k - 1 /\ k - 1 \in 1 .. k - 1 /\ k - 1 \in DOMAIN c
  BY <1>1
<1>3. OpenNode(b, h, q) /\ \A j \in 1 .. k - 1 : FrameUnder(c[j], q)
  BY DEF CallOpen, OpenFrames
<1> DEFINE ref == c[k - 1].emplace
<1>4. ref \in Reference /\ ref.node \in Nat /\ ref.node < q
  BY <1>2, <1>3, OpenFacts DEF FrameUnder
<1>5. /\ Len(g) = Len(h) /\ DOMAIN g = DOMAIN h
      /\ \A x \in DOMAIN h, l \in Link : g[x][l] = IF Field(x, l) = ref THEN q ELSE h[x][l]
  BY DEF Attached
<1> HIDE DEF ref
<1>6. \A x \in q .. Len(h) : /\ x \in DOMAIN h /\ x \in Nat
                             /\ \A l \in Link : g[x][l] = h[x][l]
  <2> SUFFICES ASSUME NEW x \in q .. Len(h)
               PROVE  x \in DOMAIN h /\ x \in Nat /\ \A l \in Link : g[x][l] = h[x][l]
    OBVIOUS
  <2>1. x \in DOMAIN h /\ x \in Nat /\ x # ref.node
    BY <1>1, <1>4
  <2> QED BY <1>5, <2>1 DEF Field
<1>7. PICK a : Arguments(g, q, Len(g), a) /\ a[g[q].nb_arguments] = y
  <2>1. CountedAt(h, g, q)
    BY <1>5, <1>6 DEF CountedAt
  <2>2. CountedAt(h, g, c[k].node)
    BY <2>1
  <2>3. \E a : /\ Arguments(g, c[k].node, Len(g), a)
               /\ a[g[c[k].node].nb_arguments] = y
    BY <2>2, OneMoreArgument
  <2> QED BY <2>3
<1>8. g[y]["sibling"] = Null
  <2>1. y \in b + 1 .. Len(h) /\ h[y]["sibling"] = Null
    BY LastHasNoSibling
  <2>2. y \in q .. Len(h)
    BY <1>1, <2>1
  <2> QED BY <1>6, <2>1, <2>2 DEF Link
<1>9. ApartFrom(g, q, Len(g))
  <2> SUFFICES ASSUME NEW x \in DOMAIN g, NEW l \in Link, g[x][l] \in q + 1 .. Len(g)
               PROVE  x \in q .. Len(g) /\ (x = q => l # "sibling")
    BY DEF ApartFrom
  <2>1. x \in DOMAIN h /\ x \in Nat /\ x >= 1
    BY <1>1, <1>5
  <2>2. CASE x < q
    <3>0. x \in 1 .. q - 1
      BY <1>1, <2>1, <2>2
    <3>1. h[x][l] < q
      BY <1>3, <3>0 DEF OpenNode
    <3>5. g[x][l] = q \/ g[x][l] = h[x][l]
      BY <1>5, <2>1
    <3>2. g[x][l] <= q
      BY <1>1, <3>1, <3>5
    <3>3. g[x][l] > q
      BY <1>1
    <3>4. g[x][l] \in Int
      BY HeapFacts
    <3> QED BY <1>1, <3>2, <3>3, <3>4
  <2>3. CASE ~ (x < q)
    <3>1. x \in q .. Len(g)
      BY <1>1, <1>5, <2>1, <2>3
    <3>2. x = q => l # "sibling"
      BY <1>1, <1>3, <1>5, <1>6, <3>1 DEF OpenNode, Null
    <3> QED BY <3>1, <3>2
  <2> QED BY <2>2, <2>3
<1>10. \A j \in DOMAIN d : FrameOutside(d[j], q, Len(g))
  <2> SUFFICES ASSUME NEW j \in DOMAIN d PROVE FrameOutside(d[j], q, Len(g))
    OBVIOUS
  <2>1. FrameUnder(c[j], q) /\ Alike(d[j], c[j])
    BY <1>2, <1>3
  <2>2. c[j].emplace.node < q
    BY <2>1 DEF FrameUnder
  <2>3. j \in DOMAIN c
    BY <1>1, <1>2
  <2>4. c[j].emplace.node \in Nat /\ c[j].node \in Nat /\ c[j].previous \in Nat
    BY <2>3, OpenFacts
  <2>5. /\ d[j].node = c[j].node /\ d[j].previous = c[j].previous
        /\ d[j].emplace = c[j].emplace
    BY <2>1 DEF Alike
  <2>6. c[j].node < q /\ c[j].previous < q
    BY <2>1 DEF FrameUnder
  <2>7. \A v \in Nat : v < q => v # q /\ v \notin q .. Len(g) /\ v \notin q + 1 .. Len(g)
    BY <1>1, <1>5
  <2> QED BY <2>2, <2>4, <2>5, <2>6, <2>7 DEF FrameOutside
<1>11. g[q].type = "call" /\ g[q].nb_arguments > 0
  BY <1>1, <1>3 DEF OpenNode
<1>12. q \in DOMAIN g /\ q <= Len(g) /\ Len(g) \in Nat
  BY <1>1, <1>5
<1> QED BY <1>7, <1>8, <1>9, <1>10, <1>11, <1>12 DEF CallClosed

\* A call begins.
LEMMA OpenStart ==
  ASSUME NEW h \in Seq(Node), h # <<>>, NEW c \in Seq(Frame), c # <<>>,
         NEW n, n = Len(h), h[n].type = "call", h[n].nb_arguments = 0,
         h[n]["sibling"] = Null, h[n]["right"] <= 0,
         \A x \in DOMAIN h, l \in Link : h[x][l] # n,
         \A x \in DOMAIN h, l \in Link : h[x][l] <= n,
         \A j \in 1 .. Len(c) - 1 : FrameUnder(c[j], n),
         c[Len(c)].node = n, c[Len(c)].emplace = Field(n, "right"),
         c[Len(c)].previous = Null
  PROVE  CallOpen(n, h, c, Len(c))
<1> DEFINE k == Len(c)  f == c[k]
<1>10. Len(h) \in Nat /\ Len(h) # 0 /\ DOMAIN h = 1 .. Len(h)
  OBVIOUS
<1>11. Len(c) \in Nat /\ Len(c) # 0 /\ DOMAIN c = 1 .. Len(c)
  OBVIOUS
<1>1. /\ n \in Nat /\ n > 0 /\ DOMAIN h = 1 .. n /\ n \in DOMAIN h /\ k \in Nat /\ k > 0
      /\ DOMAIN c = 1 .. k /\ Len(h) = n
      /\ \A x \in DOMAIN h, l \in Link : h[x][l] \in Int
  BY <1>10, <1>11, HeapFacts
<1>2. /\ f.node = n /\ f.emplace = Field(n, "right") /\ f.previous = Null
      /\ f.emplace.node = n /\ f.emplace.field = "right"
      /\ \A j \in 1 .. k - 1 : FrameUnder(c[j], n)
  BY DEF Field
<1>0. k = Len(c) /\ f = c[k]
  OBVIOUS
<1> HIDE DEF k, f
<1>3. \A x \in n + 1 .. n : FALSE
  BY <1>1
<1>4. OpenNode(n, h, n)
  <2>1. \A x \in 1 .. n - 1, l \in Link : h[x][l] < n
    <3> SUFFICES ASSUME NEW x \in 1 .. n - 1, NEW l \in Link PROVE h[x][l] < n
      OBVIOUS
    <3>1. x \in DOMAIN h
      BY <1>1
    <3>2. h[x][l] \in Int /\ h[x][l] # n /\ h[x][l] <= n
      BY <1>1, <3>1
    <3> QED BY <1>1, <3>2
  <2>2. n <= n
    BY <1>1
  <2> QED BY <1>1, <1>3, <2>1, <2>2 DEF OpenNode
<1>5. OpenFrames(n, c, k)
  <2>1. \A j \in k .. Len(c) : j = k
    BY <1>0, <1>1
  <2>2. \A j \in k + 1 .. Len(c) : FALSE
    BY <1>0, <1>1
  <2> QED BY <1>0, <1>2, <2>1, <2>2 DEF OpenFrames, FrameOver
<1>6. OpenArguments(n, h, f)
  <2> DEFINE a == [i \in 1 .. 0 |-> 0]
  <2>1. a \in [1 .. 0 -> n + 1 .. n]
    OBVIOUS
  <2> HIDE DEF a
  <2>2. Arguments(h, n, n, a)
    BY <2>1 DEF Arguments
  <2>3. Held(h, f) <= 0
    BY <1>2 DEF Held
  <2> QED BY <1>1, <1>2, <1>3, <2>2, <2>3 DEF OpenArguments
<1>7. OpenSiblings(n, h, c, k)
  BY <1>1, <1>3 DEF OpenSiblings
<1>8. OpenEmpty(h, c, k)
  BY <1>0, <1>1, <1>2 DEF OpenEmpty, Within
<1> QED BY <1>0, <1>2, <1>4, <1>5, <1>6, <1>7, <1>8 DEF CallOpen

----------------------------------------------------------------------------
(* Every call is under way or has returned *)

UnderWay(c, n) == \E k \in DOMAIN c : Arg(c[k]) /\ c[k].node = n
CallsOK(v, h, c) ==
  /\ \A k \in DOMAIN c : Arg(c[k]) => \E b : b <= v /\ CallOpen(b, h, c, k)
  /\ \A n \in 1 .. v : h[n].type = "call" =>
       UnderWay(c, n) \/ \E e : e <= v /\ CallClosed(e, h, c, n)

\* A node is allocated.
Grows(h, g, c, d, ref) ==
  /\ Grown(h, g, ref, c[Len(c)].previous) /\ KeepsData(h, g)
  /\ StoresFor(c[Len(c)], g, ref) /\ Advanced(c, d, Len(g))
  /\ g[Len(g)]["sibling"] = Null
  /\ \A x \in DOMAIN h : h[x].token < g[Len(g)].token
  /\ ref.node = Len(g) => d = c
LEMMA CallsGrown ==
  ASSUME NEW h \in Seq(Node), NEW g \in Seq(Node), NEW c \in Seq(Frame), NEW d,
         NEW ref \in Reference, Len(c) > 0, CallsOK(Len(h), h, c), Grows(h, g, c, d, ref)
  PROVE  CallsOK(Len(h), g, d)
<1>1. /\ DOMAIN d = DOMAIN c /\ DOMAIN h = 1 .. Len(h)
      /\ \A k \in DOMAIN c : d[k].node = c[k].node /\ d[k].by = c[k].by
  BY DEF Grows, Advanced
<1>2. ASSUME NEW k \in DOMAIN d, Arg(d[k])
      PROVE  \E b : b <= Len(h) /\ CallOpen(b, g, d, k)
  <2>1. PICK b : b <= Len(h) /\ CallOpen(b, h, c, k)
    BY <1>1, <1>2 DEF CallsOK, Arg
  <2>2. k \in DOMAIN c
    BY <1>1
  <2>3. CallOpen(b, g, d, k)
    BY <2>1, <2>2, OpenGrown DEF Grows
  <2> QED BY <2>1, <2>3
<1>3. ASSUME NEW n \in 1 .. Len(h), g[n].type = "call"
      PROVE  UnderWay(d, n) \/ \E e : e <= Len(h) /\ CallClosed(e, g, d, n)
  <2>1. h[n].type = "call"
    BY <1>1, <1>3 DEF Grows, Grown
  <2>2. CASE UnderWay(c, n)
    BY <1>1, <2>2 DEF UnderWay, Arg
  <2>3. ASSUME NEW e, e <= Len(h), CallClosed(e, h, c, n)
        PROVE  CallClosed(e, g, d, n)
    BY <2>3, ClosedGrown DEF Grows
  <2> QED BY <2>1, <2>2, <2>3 DEF CallsOK
<1> QED BY <1>2, <1>3 DEF CallsOK

\* The last frame calls another one, that reads no argument.
PushedOnto(c, d, f) ==
  /\ Len(d) = Len(c) + 1 /\ DOMAIN d = 1 .. Len(d) /\ d[Len(d)] = f
  /\ \A j \in DOMAIN c : Alike(d[j], c[j])
Beside(f, g) ==
  \/ f.emplace = g.emplace /\ f.node = g.node
  \/ f.emplace.node = g.previous /\ f.node = g.previous
LEMMA UnderWayPushed ==
  ASSUME NEW c \in Seq(Frame), NEW d, NEW f, PushedOnto(c, d, f), NEW n, UnderWay(c, n)
  PROVE  UnderWay(d, n)
<1>1. DOMAIN c \subseteq DOMAIN d
  BY DEF PushedOnto
<1> QED BY <1>1 DEF UnderWay, PushedOnto, Alike, Arg
LEMMA OutsidePushed ==
  ASSUME NEW c \in Seq(Frame), NEW d, NEW f, PushedOnto(c, d, f), NEW n, NEW e,
         \A j \in DOMAIN c : FrameOutside(c[j], n, e), FrameOutside(f, n, e)
  PROVE  \A j \in DOMAIN d : FrameOutside(d[j], n, e)
<1>1. \A j \in DOMAIN d : j \in DOMAIN c \/ d[j] = f
  BY DEF PushedOnto
<1> QED BY <1>1 DEF PushedOnto, Alike, FrameOutside
LEMMA CallsPushed ==
  ASSUME NEW h \in Seq(Node), NEW c \in Seq(Frame), NEW f \in Frame, NEW d,
         NEW v \in Nat, CallsOK(v, h, c), Len(c) > 0, ~ Arg(f), PushedOver(h, c, f),
         PushedOnto(c, d, f), Beside(f, c[Len(c)]),
         f.emplace = c[Len(c)].emplace \/ f.emplace.node > v,
         f.node > v \/ f.by = "parenthesis"
  PROVE  CallsOK(v, h, d)
<1>1. /\ Len(c) \in Nat /\ DOMAIN c = 1 .. Len(c) /\ Len(c) \in DOMAIN c
      /\ Len(d) = Len(c) + 1 /\ DOMAIN d = 1 .. Len(d)
      /\ f.node \in Nat /\ f.emplace.node \in Nat /\ f.previous = Null
  <2>1. f.node \in Nat /\ f.emplace.node \in Nat
    BY DEF Frame
  <2> QED BY <2>1 DEF PushedOnto, PushedOver
<1>2. ASSUME NEW n, NEW e, CallClosed(e, h, c, n)
      PROVE  CallClosed(e, h, d, n)
  <2>1. \A j \in DOMAIN c : FrameOutside(c[j], n, e)
    BY <1>2 DEF CallClosed
  <2>2. Null \notin n .. e
    BY <1>2, HeapFacts DEF CallClosed, Null
  <2>3. \A z : z \notin n .. e => z \notin n + 1 .. e
    BY <1>2, HeapFacts DEF CallClosed
  <2>4. n \in n .. e
    BY <1>2, HeapFacts DEF CallClosed
  <2>5. FrameOutside(c[Len(c)], n, e)
    BY <1>1, <2>1
  <2>6. FrameOutside(f, n, e)
    BY <1>1, <2>2, <2>3, <2>4, <2>5 DEF FrameOutside, Beside
  <2> QED BY <1>2, <2>1, <2>6, OutsidePushed, ClosedFrames
<1>3. SiblingsStay(h, c, d)
  BY <1>2 DEF SiblingsStay, AroundClosed
<1>4. ASSUME NEW k \in DOMAIN d, Arg(d[k])
      PROVE  \E b : b <= v /\ CallOpen(b, h, d, k)
  <2>1. k \in DOMAIN c
    BY <1>1, <1>4 DEF PushedOnto
  <2>2. Arg(c[k])
    BY <1>4, <2>1 DEF PushedOnto, Alike, Arg
  <2>3. PICK b : b <= v /\ CallOpen(b, h, c, k)
    BY <2>1, <2>2 DEF CallsOK
  <2>4. b \in Nat
    BY <2>1, <2>3, OpenFacts
  <2>5. /\ f.emplace = c[Len(c)].emplace \/ f.emplace.node > b
        /\ f.node > b \/ f.by = "parenthesis"
    BY <1>1, <2>3, <2>4
  <2> QED BY <1>3, <2>1, <2>3, <2>5, OpenPushed DEF PushedOnto
<1>5. \A n \in 1 .. v : h[n].type = "call" =>
        UnderWay(d, n) \/ \E e : e <= v /\ CallClosed(e, h, d, n)
  BY <1>2, UnderWayPushed DEF CallsOK
<1> QED BY <1>4, <1>5 DEF CallsOK

\* A call begins: nothing links it yet.
Begins(h, n) ==
  /\ n = Len(h) /\ h[n].type = "call" /\ h[n].nb_arguments = 0
  /\ \A l \in Link : h[n][l] <= 0
  /\ h[n]["sibling"] = Null
  /\ \A x \in DOMAIN h, l \in Link : h[x][l] # n /\ h[x][l] <= n
LEMMA ClosedBefore ==
  ASSUME NEW h \in Seq(Node), NEW c, NEW z \in Nat, NEW e, NEW n, Begins(h, z),
         CallClosed(e, h, c, n)
  PROVE  \E i : i < z /\ i <= e /\ CallClosed(i, h, c, n) /\ (i < e => i = z - 1)
<1>1. /\ Len(h) \in Nat /\ DOMAIN h = 1 .. Len(h) /\ n \in DOMAIN h /\ e \in Nat
      /\ n <= e /\ e <= z /\ z = Len(h) /\ z \in Nat
  BY HeapFacts DEF CallClosed, Begins
<1>2. n # z /\ n <= z - 1
  BY <1>1 DEF CallClosed, Begins
<1>3. CASE e # z
  <2>0. e \in Nat /\ z \in Nat /\ e <= z
    BY <1>1
  <2>1. e < z /\ e <= e /\ ~ (e < e)
    BY <1>3, <2>0
  <2> QED BY <2>1
<1>4. CASE e = z
  <2> DEFINE m == h[n].nb_arguments
  <2>1. m \in Nat /\ m > 0
    BY <1>1, HeapFacts DEF CallClosed
  <2>2. PICK a : Arguments(h, n, z, a) /\ h[a[m]]["sibling"] = Null
    BY <1>4 DEF CallClosed
  <2>3. /\ a \in [1 .. m -> n + 1 .. z]
        /\ m > 0 => h[n]["right"] = a[1]
        /\ \A i \in 1 .. m - 1 : h[a[i]]["sibling"] = a[i + 1]
        /\ \A i, j \in 1 .. m : i < j => h[a[i]].token < h[a[j]].token
    BY <2>2 DEF Arguments
  <2>4. \A x \in DOMAIN h, l \in Link : h[x][l] # z
    BY DEF Begins
  <2> HIDE DEF m
  <2>5. ASSUME NEW i \in 1 .. m PROVE a[i] \in n + 1 .. z - 1
    <3>1. a[i] # z
      <4>1. CASE i = 1
        BY <1>1, <2>1, <2>3, <2>4, <4>1 DEF Link
      <4>2. CASE i # 1
        <5>1. i - 1 \in 1 .. m - 1 /\ i - 1 \in 1 .. m /\ (i - 1) + 1 = i
          BY <2>1, <4>2
        <5>2. a[i - 1] \in n + 1 .. z
          BY <2>3, <5>1
        <5>3. a[i - 1] \in DOMAIN h
          BY <1>1, <5>2
        <5> QED BY <2>3, <2>4, <5>1, <5>3 DEF Link
      <4> QED BY <4>1, <4>2
    <3>2. a[i] \in n + 1 .. z
      BY <2>3
    <3> QED BY <1>1, <3>1, <3>2
  <2>6. a \in [1 .. m -> n + 1 .. z - 1]
    BY <2>3, <2>5
  <2>7. Arguments(h, n, z - 1, a)
    BY <2>3, <2>6 DEF Arguments, m
  <2>8. ApartFrom(h, n, z - 1)
    <3> SUFFICES ASSUME NEW x \in DOMAIN h, NEW l \in Link, h[x][l] \in n + 1 .. z - 1
                 PROVE  x \in n .. z - 1 /\ (x = n => l # "sibling")
      BY DEF ApartFrom
    <3>1. h[x][l] \in n + 1 .. z
      BY <1>1
    <3>2. x \in n .. z /\ (x = n => l # "sibling")
      BY <1>4, <3>1 DEF CallClosed, ApartFrom
    <3>3. x # z
      BY <1>1 DEF Begins
    <3> QED BY <1>1, <3>2, <3>3
  <2>9. \A j \in DOMAIN c : FrameOutside(c[j], n, z - 1)
    <3>1. \A w : w \notin n .. z => w \notin n .. z - 1
      BY <1>1
    <3>2. \A w : w \notin n + 1 .. z => w \notin n + 1 .. z - 1
      BY <1>1
    <3> QED BY <1>4, <3>1, <3>2 DEF CallClosed, FrameOutside
  <2>10. z - 1 < z /\ z - 1 <= e /\ z - 1 \in Nat /\ z - 1 <= Len(h)
    BY <1>1, <1>2, <1>4
  <2>11. CallClosed(z - 1, h, c, n)
    BY <1>1, <1>2, <2>2, <2>7, <2>8, <2>9, <2>10 DEF CallClosed, m
  <2> QED BY <2>10, <2>11
<1> QED BY <1>3, <1>4
LEMMA CallsStarted ==
  ASSUME NEW h \in Seq(Node), NEW c \in Seq(Frame), NEW f \in Frame, NEW d \in Seq(Frame),
         NEW v \in Nat, NEW z \in Nat, z = v + 1, CallsOK(v, h, c), Len(c) > 0,
         Begins(h, z), PushedOnto(c, d, f), \A j \in DOMAIN c : FrameUnder(c[j], z),
         Arg(f), f.node = z, f.emplace = Field(z, "right"), f.previous = Null
  PROVE  CallsOK(z, h, d)
<1>1. /\ Len(c) \in Nat /\ DOMAIN c = 1 .. Len(c) /\ Len(c) \in DOMAIN c
      /\ Len(d) = Len(c) + 1 /\ DOMAIN d = 1 .. Len(d) /\ d[Len(d)] = f
      /\ Len(d) \in DOMAIN d /\ f.emplace.node = z
      /\ f.emplace.field = "right"
  BY DEF PushedOnto, Field
<1>2. ASSUME NEW n, NEW e, CallClosed(e, h, c, n)
      PROVE  \E i : i <= v /\ CallClosed(i, h, d, n) /\ (i < e => i = z - 1) /\ i <= e
  <2>1. PICK i : i < z /\ i <= e /\ CallClosed(i, h, c, n) /\ (i < e => i = z - 1)
    BY <1>2, ClosedBefore
  <2>2. i \in Nat /\ n \in Nat /\ i <= v /\ n <= i
    <3>1. i \in Nat /\ n \in Nat /\ n <= i
      BY <2>1, HeapFacts DEF CallClosed
    <3> QED BY <2>1, <3>1
  <2>3. \A j \in DOMAIN c : FrameOutside(c[j], n, i)
    BY <2>1 DEF CallClosed
  <2>4. z \notin n .. i /\ z \notin n + 1 .. i /\ Null \notin n .. i /\ z # n
    <3>1. n # 0
      BY <2>1, HeapFacts DEF CallClosed
    <3> QED BY <2>1, <2>2, <3>1 DEF Null
  <2>5. FrameOutside(f, n, i)
    BY <1>1, <2>4 DEF FrameOutside
  <2>6. CallClosed(i, h, d, n)
    BY <2>1, <2>3, <2>5, OutsidePushed, ClosedFrames
  <2> QED BY <2>1, <2>2, <2>6
<1>3. SiblingsStay(h, c, d)
  <2> SUFFICES ASSUME NEW x \in DOMAIN h, h[x]["sibling"] # Null, NEW n, NEW e,
                      CallClosed(e, h, c, n), n < x, x <= e
               PROVE  AroundClosed(h, d, x)
    BY DEF SiblingsStay, AroundClosed
  <2>1. PICK i : i <= v /\ CallClosed(i, h, d, n) /\ (i < e => i = z - 1) /\ i <= e
    BY <1>2
  <2>2. x # z /\ x \in 1 .. z
    BY HeapFacts DEF Begins
  <2>3. i \in Nat /\ e \in Nat
    BY <2>1 DEF CallClosed
  <2>4. x <= i
    BY <2>1, <2>2, <2>3
  <2> QED BY <2>1, <2>4 DEF AroundClosed
<1>4. ASSUME NEW k \in DOMAIN d, Arg(d[k])
      PROVE  \E b : b <= z /\ CallOpen(b, h, d, k)
  <2>1. CASE k \in DOMAIN c
    <3>1. Arg(c[k])
      BY <1>4, <2>1 DEF PushedOnto, Alike, Arg
    <3>2. PICK b : b <= v /\ CallOpen(b, h, c, k)
      BY <2>1, <3>1 DEF CallsOK
    <3>3. b \in Nat
      BY <2>1, <3>2, OpenFacts
    <3>4. z > b /\ b <= z
      BY <3>2, <3>3
    <3>5. PushedOver(h, c, f)
      BY <1>1 DEF PushedOver, Arg
    <3>6. CallOpen(b, h, d, k)
      BY <1>1, <1>3, <2>1, <3>2, <3>4, <3>5, OpenPushed DEF PushedOnto
    <3> QED BY <3>4, <3>6
  <2>2. CASE k = Len(d)
    <3>1. /\ h # <<>> /\ d # <<>> /\ z = Len(h) /\ h[z].type = "call"
          /\ h[z].nb_arguments = 0 /\ h[z]["sibling"] = Null /\ h[z]["right"] <= 0
      BY <1>1, HeapFacts DEF Begins, Link
    <3>2. /\ \A x \in DOMAIN h, l \in Link : h[x][l] # z
          /\ \A x \in DOMAIN h, l \in Link : h[x][l] <= z
      BY DEF Begins
    <3>3. \A j \in 1 .. Len(d) - 1 : FrameUnder(d[j], z)
      <4>1. \A j \in 1 .. Len(d) - 1 : j \in DOMAIN c
        BY <1>1
      <4> QED BY <4>1 DEF PushedOnto, Alike, FrameUnder
    <3>4. CallOpen(z, h, d, Len(d))
      BY <1>1, <3>1, <3>2, <3>3, OpenStart
    <3> QED BY <2>2, <3>4
  <2> QED BY <1>1, <2>1, <2>2
<1>5. ASSUME NEW n \in 1 .. z, h[n].type = "call"
      PROVE  UnderWay(d, n) \/ \E e : e <= z /\ CallClosed(e, h, d, n)
  <2>1. CASE n = z
    BY <1>1, <2>1 DEF UnderWay
  <2>2. CASE n # z
    <3>1. n \in 1 .. v
      BY <2>2
    <3>2. CASE UnderWay(c, n)
      BY <3>2, UnderWayPushed
    <3>3. ASSUME NEW e, CallClosed(e, h, c, n)
          PROVE  \E i : i <= z /\ CallClosed(i, h, d, n)
      <4>1. PICK i : i <= v /\ CallClosed(i, h, d, n)
        BY <1>2, <3>3
      <4>2. i \in Nat
        BY <4>1 DEF CallClosed
      <4>3. i <= z
        BY <4>1, <4>2
      <4> QED BY <4>1, <4>3
    <3> QED BY <1>5, <3>1, <3>2, <3>3 DEF CallsOK
  <2> QED BY <2>1, <2>2
<1> QED BY <1>4, <1>5 DEF CallsOK

\* The last frame, that reads no argument, returns.
PoppedFrom(c, d) ==
  Len(d) = Len(c) - 1 /\ DOMAIN d = 1 .. Len(d) /\ \A j \in DOMAIN d : Alike(d[j], c[j])
LEMMA OutsidePopped ==
  ASSUME NEW h \in Seq(Node), NEW c \in Seq(Frame), NEW d, PoppedFrom(c, d), NEW n, NEW e,
         CallClosed(e, h, c, n)
  PROVE  CallClosed(e, h, d, n)
<1>1. DOMAIN d \subseteq DOMAIN c
  BY DEF PoppedFrom
<1>2. \A j \in DOMAIN c : FrameOutside(c[j], n, e)
  BY DEF CallClosed
<1>3. \A j \in DOMAIN d : FrameOutside(d[j], n, e)
  BY <1>1, <1>2 DEF PoppedFrom, Alike, FrameOutside
<1> QED BY <1>3, ClosedFrames
LEMMA CallsPopped ==
  ASSUME NEW h \in Seq(Node), NEW c \in Seq(Frame), NEW d, NEW v, CallsOK(v, h, c),
         ~ Arg(c[Len(c)]), PoppedFrom(c, d)
  PROVE  CallsOK(v, h, d)
<1>1. /\ Len(c) \in Nat /\ DOMAIN c = 1 .. Len(c)
      /\ \A k \in DOMAIN d : k \in DOMAIN c /\ k # Len(c)
  BY DEF PoppedFrom
<1>2. ASSUME NEW n, UnderWay(c, n) PROVE UnderWay(d, n)
  <2>1. PICK k \in DOMAIN c : Arg(c[k]) /\ c[k].node = n
    BY <1>2 DEF UnderWay
  <2>2. k # Len(c)
    BY <2>1
  <2>3. k \in DOMAIN d
    BY <1>1, <2>1, <2>2 DEF PoppedFrom
  <2> QED BY <2>1, <2>3 DEF UnderWay, PoppedFrom, Alike, Arg
<1>3. \A n, e : CallClosed(e, h, c, n) => CallClosed(e, h, d, n)
  BY OutsidePopped
<1>4. ASSUME NEW k \in DOMAIN d, Arg(d[k])
      PROVE  \E b : b <= v /\ CallOpen(b, h, d, k)
  <2>1. k \in DOMAIN c /\ k # Len(c)
    BY <1>1
  <2>2. Arg(c[k])
    BY <1>4 DEF PoppedFrom, Alike, Arg
  <2>3. PICK b : b <= v /\ CallOpen(b, h, c, k)
    BY <2>1, <2>2 DEF CallsOK
  <2>4. CallOpen(b, h, d, k)
    BY <1>3, <2>1, <2>3, OpenPopped DEF PoppedFrom
  <2> QED BY <2>3, <2>4
<1> QED BY <1>2, <1>3, <1>4 DEF CallsOK

\* The operators on the right of the last frame swap.
LEMMA CallsSwapped ==
  ASSUME NEW h \in Seq(Node), NEW g \in Seq(Node), NEW c \in Seq(Frame), NEW v,
         CallsOK(v, h, c), Len(c) > 0,
         NEW q \in DOMAIN h, NEW r \in DOMAIN h, q # r, q = c[Len(c)].previous,
         Swapped(h, g, q, r), g[q].token = h[r].token, g[r].token = h[q].token,
         \A x \in DOMAIN h : g[x].nb_arguments = h[x].nb_arguments,
         h[q].type \in BinaryOperator, h[r].type \in BinaryOperator, v \in Nat, v <= Len(h)
  PROVE  CallsOK(v, g, c)
<1>1. \A n, e : CallClosed(e, h, c, n) => CallClosed(e, g, c, n)
  BY ClosedSwapped
<1>2. ASSUME NEW k \in DOMAIN c, Arg(c[k])
      PROVE  \E b : b <= v /\ CallOpen(b, g, c, k)
  <2>1. PICK b : b <= v /\ CallOpen(b, h, c, k)
    BY <1>2 DEF CallsOK
  <2>2. CallOpen(b, g, c, k)
    BY <1>1, <2>1, OpenSwapped
  <2> QED BY <2>1, <2>2
<1>3. ASSUME NEW n \in 1 .. v, g[n].type = "call" PROVE h[n].type = "call"
  <2>1. n \in DOMAIN h
    BY HeapFacts
  <2>2. "call" \notin BinaryOperator
    BY DEF BinaryOperator
  <2>3. n # q /\ n # r
    BY <1>3, <2>2 DEF Swapped
  <2> QED BY <1>3, <2>1, <2>3 DEF Swapped
<1> QED BY <1>1, <1>2, <1>3 DEF CallsOK
\* The call of the last frame has its last argument.
LEMMA ApartLast ==
  ASSUME NEW h \in Seq(Node), NEW c, NEW k \in DOMAIN c, NEW n, NEW e,
         CallClosed(e, h, c, n), c[k].node \in Nat
  PROVE  c[k].node # n /\ c[k].node \notin n + 1 .. e
<1>1. c[k].node \notin n .. e /\ n \in Nat /\ e \in Nat /\ n <= e
  BY HeapFacts DEF CallClosed, FrameOutside
<1> QED BY <1>1
LEMMA CallsLast ==
  ASSUME NEW h \in Seq(Node), NEW p \in Seq(Node), NEW g \in Seq(Node),
         NEW c \in Seq(Frame), NEW d \in Seq(Frame), CallsOK(Len(h), h, c),
         Len(c) > 1, Arg(c[Len(c)]), PoppedFrom(c, d),
         NEW q, q = c[Len(c)].node, NEW y \in DOMAIN h, y = Held(h, c[Len(c)]),
         Counting(h, p, q), p[q].nb_arguments = h[q].nb_arguments + 1,
         Attached(p, g, d[Len(d)].emplace, q), KeepsData(p, g)
  PROVE  CallsOK(Len(g), g, d)
<1> DEFINE K == Len(c)  ref == d[Len(d)].emplace
<1>1. /\ K \in Nat /\ DOMAIN c = 1 .. K /\ K \in DOMAIN c /\ K > 1 /\ K - 1 \in DOMAIN d
      /\ Len(d) = K - 1 /\ \A k \in DOMAIN d : k \in DOMAIN c /\ k # K
      /\ q \in Nat /\ ref = c[K - 1].emplace /\ Len(d) > 0
  <2>1. Len(c) \in DOMAIN c /\ K \in Nat /\ DOMAIN c = 1 .. K /\ K > 1 /\ c[Len(c)] \in Frame
    OBVIOUS
  <2>2. q \in Nat
    BY <2>1 DEF Frame
  <2> HIDE DEF K
  <2>3. Len(d) = K - 1 /\ DOMAIN d = 1 .. K - 1
    BY DEF PoppedFrom, K
  <2>4. Len(d) > 0 /\ K - 1 \in DOMAIN d /\ \A k \in DOMAIN d : k \in DOMAIN c /\ k # K
    BY <2>1, <2>3
  <2>5. ref = c[K - 1].emplace
    BY <2>3, <2>4 DEF PoppedFrom, Alike
  <2> QED BY <2>1, <2>2, <2>3, <2>4, <2>5 DEF K
<1>2. d[Len(d)] \in Frame /\ ref \in Reference
  <2>1. d[Len(d)] \in Frame
    BY <1>1 DEF PoppedFrom
  <2> QED BY <2>1 DEF Frame, Reference, Link
<1>3. PICK b : b <= Len(h) /\ CallOpen(b, h, c, K)
  BY <1>1 DEF CallsOK
<1>4. SameLinks(h, p) /\ Len(p) = Len(h) /\ DOMAIN p = DOMAIN h /\ Len(g) = Len(p)
      /\ DOMAIN g = DOMAIN p
  BY DEF Counting, SameLinks, Attached
<1>5. ASSUME NEW n, NEW e, CallClosed(e, h, c, n) PROVE CallClosed(e, p, c, n)
  <2>1. q # n
    BY <1>1, <1>5, ApartLast
  <2> QED BY <1>5, <2>1, ClosedCounted
<1>6. ASSUME NEW n, NEW e, CallClosed(e, p, c, n) PROVE CallClosed(e, g, d, n)
  <2>1. q \notin n + 1 .. e
    BY <1>1, <1>6, ApartLast
  <2>2. CallClosed(e, p, d, n)
    BY <1>6, OutsidePopped
  <2> QED BY <1>1, <1>2, <2>1, <2>2, ClosedAttached
<1>7. CallClosed(Len(g), g, d, q)
  <2>1. Attached(h, g, c[K - 1].emplace, q)
    BY <1>1, <1>4 DEF Attached, SameLinks
  <2>2. \A x \in DOMAIN h : g[x].type = h[x].type /\ g[x].token = h[x].token
    BY <1>4 DEF SameLinks, KeepsData
  <2>3. q \in DOMAIN h
    BY <1>1, <1>3, OpenFacts
  <2>4. g[q].nb_arguments = h[q].nb_arguments + 1
    BY <1>4, <2>3 DEF KeepsData
  <2> QED BY <1>1, <1>3, <2>1, <2>2, <2>4, CloseLast DEF PoppedFrom
<1>8. ASSUME NEW k \in DOMAIN d, Arg(d[k])
      PROVE  \E i : i <= Len(g) /\ CallOpen(i, g, d, k)
  <2>1. k \in DOMAIN c /\ k # K /\ Arg(c[k])
    BY <1>1, <1>8 DEF PoppedFrom, Alike, Arg
  <2>2. PICK i : i <= Len(h) /\ CallOpen(i, h, c, k)
    BY <2>1 DEF CallsOK
  <2>3. q \notin c[k].node .. i
    <3>1. K \in k + 1 .. K
      BY <1>1, <2>1
    <3>2. q > i
      BY <2>2, <3>1 DEF CallOpen, OpenFrames, Arg
    <3>3. i \in Nat
      BY <2>1, <2>2, OpenFacts
    <3> QED BY <1>1, <3>2, <3>3
  <2>4. CallOpen(i, p, c, k)
    BY <1>5, <2>1, <2>2, <2>3, OpenCounted
  <2>5. CallOpen(i, g, d, k)
    BY <1>1, <1>6, <1>7, <2>1, <2>4, OpenAttached DEF PoppedFrom
  <2> QED BY <1>4, <2>2, <2>5
<1>9. ASSUME NEW n \in 1 .. Len(g), g[n].type = "call"
      PROVE  UnderWay(d, n) \/ \E e : e <= Len(g) /\ CallClosed(e, g, d, n)
  <2>1. n \in DOMAIN h /\ n \in 1 .. Len(h) /\ h[n].type = "call"
    BY <1>4, <1>9, HeapFacts DEF KeepsData, SameLinks
  <2>2. CASE UnderWay(c, n)
    <3>1. PICK k \in DOMAIN c : Arg(c[k]) /\ c[k].node = n
      BY <2>2 DEF UnderWay
    <3>2. CASE k = K
      <4>1. CallClosed(Len(g), g, d, n) /\ Len(g) <= Len(g)
        BY <1>4, <1>7, <3>1, <3>2, HeapFacts
      <4> QED BY <4>1
    <3>3. CASE k # K
      <4>1. k \in DOMAIN d
        BY <1>1, <3>1, <3>3 DEF PoppedFrom
      <4> QED BY <3>1, <4>1 DEF UnderWay, PoppedFrom, Alike, Arg
    <3> QED BY <3>2, <3>3
  <2>3. ASSUME NEW e, e <= Len(h), CallClosed(e, h, c, n)
        PROVE  e <= Len(g) /\ CallClosed(e, g, d, n)
    BY <1>4, <1>5, <1>6, <2>3
  <2> QED BY <2>1, <2>2, <2>3 DEF CallsOK
<1> QED BY <1>8, <1>9 DEF CallsOK

\* The call of the last frame has one more argument to read.
LEMMA CallsNext ==
  ASSUME NEW h \in Seq(Node), NEW g \in Seq(Node), NEW c \in Seq(Frame), NEW d \in Seq(Frame),
         CallsOK(Len(h), h, c), Len(c) > 0, Arg(c[Len(c)]),
         NEW q, q = c[Len(c)].node, NEW y \in DOMAIN h, y = Held(h, c[Len(c)]),
         Counting(h, g, q), g[q].nb_arguments = h[q].nb_arguments + 1, Replaced(c, d, y)
  PROVE  CallsOK(Len(g), g, d)
<1> DEFINE K == Len(c)
<1>1. /\ K \in Nat /\ DOMAIN c = 1 .. K /\ K \in DOMAIN c /\ DOMAIN d = DOMAIN c
      /\ Len(d) = K /\ q \in Nat /\ c[K].emplace.node \in Nat /\ c[K].emplace.field \in Link
  <2>0. Len(c) \in DOMAIN c /\ c[Len(c)] \in Frame
    OBVIOUS
  <2>1. q \in Nat /\ c[Len(c)].emplace.node \in Nat /\ c[Len(c)].emplace.field \in Link
    BY <2>0 DEF Frame, Link
  <2> QED BY <2>1 DEF Replaced
<1>2. PICK b : b <= Len(h) /\ CallOpen(b, h, c, K)
  BY <1>1 DEF CallsOK
<1>3. SameLinks(h, g) /\ Len(g) = Len(h) /\ DOMAIN g = DOMAIN h
  BY DEF Counting, SameLinks
<1>4. /\ \A j \in DOMAIN d : j # K => Alike(d[j], c[j])
      /\ d[K].node = q /\ Arg(d[K]) /\ d[K].previous = Null /\ d[K].emplace = Field(y, "sibling")
  BY <1>1 DEF Replaced, Arg
<1>5. ASSUME NEW n, NEW e, CallClosed(e, h, c, n)
      PROVE  CallClosed(e, g, c, n) /\ CallClosed(e, g, d, n)
  <2>1. q # n
    BY <1>1, <1>5, ApartLast
  <2>2. CallClosed(e, g, c, n)
    BY <1>5, <2>1, ClosedCounted
  <2>7. n \in DOMAIN h /\ e \in Nat /\ n <= e /\ ApartFrom(h, n, e) /\ FrameOutside(c[K], n, e)
    BY <1>1, <1>5 DEF CallClosed
  <2>8. n \in Nat /\ n # 0
    BY <2>7, HeapFacts
  <2>3. /\ FrameOutside(c[K], n, e) /\ ApartFrom(h, n, e) /\ n \in DOMAIN h /\ n \in Nat
        /\ e \in Nat /\ n <= e /\ n # 0
    BY <2>7, <2>8
  <2>4. y \notin n + 1 .. e
    <3> SUFFICES ASSUME y \in n + 1 .. e PROVE FALSE
      OBVIOUS
    <3>0. c[K].emplace.node \in DOMAIN h
      BY <1>1, <1>2, OpenFacts, OpenPlace, SMTT(30)
    <3>1. /\ c[K].emplace.node \in n .. e
          /\ c[K].emplace.node = n => c[K].emplace.field # "sibling"
      BY <1>1, <2>3, <3>0 DEF ApartFrom, Held
    <3>2. c[K].emplace.node \in n + 1 .. e \/ c[K].emplace.node = n
      BY <2>3, <3>1
    <3> QED BY <2>3, <3>1, <3>2 DEF FrameOutside
  <2>5. FrameOutside(d[K], n, e)
    <3>1. d[K].emplace.node = y /\ d[K].emplace.field = "sibling"
      BY <1>4 DEF Field
    <3>2. Null \notin n .. e
      BY <2>3 DEF Null
    <3>3. q \notin n .. e
      BY <2>3 DEF FrameOutside
    <3> QED BY <1>4, <2>4, <3>1, <3>2, <3>3 DEF FrameOutside
  <2>6. \A j \in DOMAIN d : FrameOutside(d[j], n, e)
    <3>1. \A j \in DOMAIN c : FrameOutside(c[j], n, e)
      BY <1>5 DEF CallClosed
    <3> QED BY <1>1, <1>4, <2>5, <3>1 DEF Alike, FrameOutside
  <2> QED BY <2>2, <2>6, ClosedFrames
<1>6. ASSUME NEW n, NEW e, CallClosed(e, g, c, n) PROVE CallClosed(e, h, c, n)
  <2>1. q # n
    BY <1>1, <1>6, ApartLast
  <2>2. Counting(g, h, q)
    BY <1>3 DEF Counting, SameLinks
  <2> QED BY <1>6, <2>1, <2>2, ClosedCounted
<1>7. ASSUME NEW k \in DOMAIN d, Arg(d[k])
      PROVE  \E i : i <= Len(g) /\ CallOpen(i, g, d, k)
  <2>1. CASE k = K
    <3>1. CallOpen(Len(g), g, d, K)
      BY <1>1, <1>2, <1>3, OpenNext
    <3>2. Len(g) <= Len(g)
      BY HeapFacts
    <3> QED BY <2>1, <3>1, <3>2
  <2>2. CASE k # K
    <3>1. k \in DOMAIN c /\ Arg(c[k])
      BY <1>1, <1>4, <1>7, <2>2 DEF Alike, Arg
    <3>2. PICK i : i <= Len(h) /\ CallOpen(i, h, c, k)
      BY <3>1 DEF CallsOK
    <3>3. q \notin c[k].node .. i
      <4>1. K \in k + 1 .. K
        BY <1>1, <2>2, <3>1
      <4>2. q > i
        BY <3>2, <4>1 DEF CallOpen, OpenFrames, Arg
      <4>3. i \in Nat
        BY <3>1, <3>2, OpenFacts
      <4> QED BY <1>1, <4>2, <4>3
    <3>4. CallOpen(i, g, c, k)
      BY <1>5, <3>1, <3>2, <3>3, OpenCounted
    <3>5. y \in Nat /\ y > q
      <4>1. y > b
        BY <1>1, <1>2, LastHasNoSibling
      <4>3. c[K].node <= b /\ b \in Nat
        BY <1>1, <1>2, OpenFacts
      <4>2. q <= b /\ b \in Nat /\ y \in Nat
        BY <4>3, HeapFacts
      <4> QED BY <1>1, <4>1, <4>2
    <3>6. CallOpen(i, g, d, k)
      BY <1>5, <1>6, <2>2, <3>1, <3>4, <3>5, OpenReplaced
    <3> QED BY <1>3, <3>2, <3>6
  <2> QED BY <2>1, <2>2
<1>8. ASSUME NEW n \in 1 .. Len(g), g[n].type = "call"
      PROVE  UnderWay(d, n) \/ \E e : e <= Len(g) /\ CallClosed(e, g, d, n)
  <2>1. n \in DOMAIN h /\ n \in 1 .. Len(h) /\ h[n].type = "call"
    BY <1>3, <1>8, HeapFacts DEF SameLinks
  <2>2. ASSUME UnderWay(c, n) PROVE UnderWay(d, n)
    BY <1>1, <1>4, <2>2 DEF UnderWay, Alike, Arg
  <2> QED BY <1>3, <1>5, <2>1, <2>2 DEF CallsOK
<1> QED BY <1>7, <1>8 DEF CallsOK
----------------------------------------------------------------------------
(* The calls of the parser *)

\* An argument of which nothing was stored has only just begun.
Prompted(s, p) == p > 1 /\ s[p - 1] \in {"(", ","}
Innermost(c, k) == k \in DOMAIN c /\ Arg(c[k]) /\ \A j \in k + 1 .. Len(c) : ~ Arg(c[j])
AwaitedOK(s, h, c, p) ==
  \A k \in DOMAIN c : Innermost(c, k) /\ Held(h, c[k]) <= 0 => Prompted(s, p)
TokensOK(h, p) == \A x \in DOMAIN h : h[x].token < p
ArgumentsInv ==
  ~ EmptyArgument =>
    /\ CallsOK(Len(ast), ast, stack)
    /\ TokensOK(ast, pos)
    /\ AwaitedOK(stream, ast, stack, pos)

AtSeparator == Current \in {",", ")"}
LEMMA NotEmpty ==
  ASSUME TypeOK, ~ EmptyArgument, AtSeparator, Prompted(stream, pos)
  PROVE  FALSE
<1>0. Current # "eof"
  <2>1. "," # "eof" /\ ")" # "eof"
    OBVIOUS
  <2> QED BY <2>1, Zenon DEF AtSeparator
<1>1. /\ stream \in Seq(Token) /\ pos \in 1 .. Len(stream) + 1 /\ Len(stream) \in Nat
      /\ pos \in DOMAIN stream /\ stream[pos] = Current
      /\ DOMAIN stream = 1 .. Len(stream)
  <2>1. pos \in DOMAIN stream /\ stream[pos] = Current
    BY <1>0, CurrentFacts, Zenon
  <2>2. stream \in Seq(Token) /\ pos \in 1 .. Len(stream) + 1
    BY DEF TypeOK
  <2>3. Len(stream) \in Nat /\ DOMAIN stream = 1 .. Len(stream)
    BY <2>2
  <2> QED BY <2>1, <2>2, <2>3, Zenon
<1>2. pos > 1 /\ stream[pos - 1] \in {"(", ","}
  BY Zenon DEF Prompted
<1>3. pos - 1 \in 1 .. Size /\ (pos - 1) + 1 = pos
  <2>1. pos > 1
    BY <1>2, Zenon
  <2>2. pos \in 1 .. Len(stream) /\ Len(stream) \in Nat
    BY <1>1, Zenon
  <2> DEFINE K == Len(stream)
  <2>3. pos \in 1 .. K /\ K \in Nat /\ Size = K - 1
    BY <2>2 DEF Size
  <2> HIDE DEF K
  <2> QED BY <2>1, <2>3
<1> DEFINE k == pos - 1
<1>4. k \in 1 .. Size /\ k + 1 = pos /\ stream[k] \in {"(", ","}
  BY <1>2, <1>3, Zenon
<1> HIDE DEF k
<1>5. stream[k] \in {"(", ","} /\ stream[k + 1] \in {",", ")"}
  BY <1>1, <1>4, Zenon DEF AtSeparator
<1> QED BY <1>4, <1>5, Zenon DEF EmptyArgument

\* What a call that is being read holds is a node.
LEMMA HeldIsInt ==
  ASSUME NEW h \in Seq(Node), NEW c \in Seq(Frame), NEW k \in DOMAIN c, NEW b,
         CallOpen(b, h, c, k)
  PROVE  Held(h, c[k]) \in Int
<1>1. c[k].emplace.node \in DOMAIN h /\ c[k].emplace.field \in Link
  BY OpenFacts, OpenPlace
<1> QED BY <1>1, HeapFacts DEF Held
LEMMA ArgumentRead ==
  ASSUME IInv, ArgumentsInv, ~ EmptyArgument, status = "parsing", Top.by = "argument",
         AtSeparator
  PROVE  Argument \in DOMAIN ast /\ Argument = Held(ast, stack[Len(stack)])
<1> DEFINE m == Len(stack)  y == Held(ast, stack[m])
<1>1. /\ m \in Nat /\ m > 0 /\ DOMAIN stack = 1 .. m /\ Top = stack[m] /\ m \in DOMAIN stack
      /\ Len(ast) \in Nat /\ DOMAIN ast = 1 .. Len(ast) /\ Top.emplace.field \in Link
  <2>1. /\ Len(stack) \in Nat /\ Len(stack) > 0 /\ DOMAIN stack = 1 .. Len(stack)
        /\ Top = stack[Len(stack)] /\ Len(ast) \in Nat /\ DOMAIN ast = 1 .. Len(ast)
        /\ Top.emplace.field \in Link
    BY Now
  <2>2. m \in DOMAIN stack
    BY <2>1
  <2> QED BY <2>1, <2>2
<1>2. TypeOK /\ ast \in Seq(Node) /\ stack \in Seq(Frame)
  BY DEF IInv, TypeOK
<1>3. PICK s \in Seq(Nat), dead \in SUBSET DOMAIN ast : Shape(s, dead, ast, stack)
  BY DEF IInv
<1>4. Top.emplace.node \in DOMAIN ast
  BY <1>3, TopShape
<1>5. Argument = y
  BY <1>1 DEF Argument, At, Held
<1>6. y \in Int /\ y <= Len(ast)
  BY <1>1, <1>3, <1>4 DEF Shape, LinksOK, Held
<1>7. Innermost(stack, m)
  <2>1. \A j \in m + 1 .. Len(stack) : FALSE
    BY <1>1
  <2> QED BY <1>1, <2>1 DEF Innermost, Arg
<1>8. ~ (y <= 0)
  BY <1>1, <1>2, <1>7, NotEmpty DEF ArgumentsInv, AwaitedOK
<1> HIDE DEF y
<1>9. y \in DOMAIN ast
  BY <1>1, <1>6, <1>8
<1> QED BY <1>5, <1>9 DEF y

\* What is allocated goes where the argument does, if nothing is there.
LEMMA GrownHeld ==
  ASSUME NEW h \in Seq(Node), NEW g \in Seq(Node), NEW c \in Seq(Frame), NEW d,
         NEW ref \in Reference, Len(c) > 0, CallsOK(Len(h), h, c), Grows(h, g, c, d, ref),
         ref.node # Len(g), NEW k, Innermost(c, k)
  PROVE  ~ (Held(g, c[k]) <= 0)
<1>1. k \in DOMAIN c /\ Arg(c[k]) /\ \A j \in k + 1 .. Len(c) : ~ Arg(c[j])
  BY DEF Innermost
<1>2. PICK b : b <= Len(h) /\ CallOpen(b, h, c, k)
  BY <1>1 DEF CallsOK
<1>3. /\ c[k].emplace.node \in DOMAIN h /\ c[k].emplace.field \in Link
      /\ c[k].emplace \in Reference /\ Len(c) \in DOMAIN c /\ Len(c) \in k .. Len(c)
      /\ Len(h) \in Nat
  BY <1>1, <1>2, OpenFacts, OpenPlace
<1>4. Held(h, c[k]) \in Int
  BY <1>1, <1>2, HeldIsInt
<1>5. Held(g, c[k]) = IF c[k].emplace = ref THEN Len(g) ELSE Held(h, c[k])
  <2>1. Field(c[k].emplace.node, c[k].emplace.field) = c[k].emplace
    BY <1>3 DEF Field, Reference
  <2> QED BY <1>3, <2>1 DEF Grows, Grown, Held
<1>6. Len(g) = Len(h) + 1
  BY DEF Grows, Grown
<1>7. CASE Held(h, c[k]) <= 0
  <2>1. Within(c, k, Len(c))
    BY <1>1, <1>3 DEF Within
  <2>2. c[Len(c)].emplace = c[k].emplace /\ c[Len(c)].previous = Null
    BY <1>2, <1>3, <1>7, <2>1 DEF CallOpen, OpenEmpty
  <2>3. ref = c[k].emplace
    BY <2>2 DEF Grows, StoresFor
  <2> QED BY <1>3, <1>5, <1>6, <2>3
<1> QED BY <1>3, <1>4, <1>5, <1>6, <1>7

\* A frame that returns, and operators that swap, leave what an argument holds.
LEMMA SwappedHeld ==
  ASSUME NEW h \in Seq(Node), NEW g \in Seq(Node), NEW c \in Seq(Frame), NEW v,
         CallsOK(v, h, c), Len(c) > 0,
         NEW q \in DOMAIN h, NEW r \in DOMAIN h, q # r, q = c[Len(c)].previous,
         Swapped(h, g, q, r), NEW k \in DOMAIN c, Arg(c[k])
  PROVE  Held(g, c[k]) = Held(h, c[k])
<1>1. PICK b : b <= v /\ CallOpen(b, h, c, k)
  BY DEF CallsOK
<1>2. /\ c[k].emplace.node \in c[k].node .. b /\ b \in Nat /\ Len(c) \in k .. Len(c)
      /\ c[k].node \in Nat /\ DOMAIN h = 1 .. Len(h) /\ Len(h) \in Nat
      /\ c[k].emplace.node \in DOMAIN h /\ q \in Nat /\ q # 0
  BY <1>1, OpenFacts, OpenPlace
<1>3. q > b
  BY <1>1, <1>2 DEF CallOpen, OpenFrames, FrameOver, Null
<1>4. r > b
  <2>1. h[q]["right"] = r /\ r > 0
    BY <1>2 DEF Swapped
  <2>2. q \in b + 1 .. Len(h)
    BY <1>2, <1>3
  <2> QED BY <1>1, <1>2, <2>1, <2>2 DEF CallOpen, OpenNode
<1>5. c[k].emplace.node # q /\ c[k].emplace.node # r
  BY <1>2, <1>3, <1>4
<1> QED BY <1>2, <1>5 DEF Swapped, Held
----------------------------------------------------------------------------
(* The steps keep the calls *)

LEMMA LinkedKeeps ==
  ASSUME NEW h \in Seq(Node), NEW node \in Node, NEW ref \in Reference,
         ref.node \in DOMAIN h
  PROVE  \A x \in DOMAIN h :
           Linked(h, node, ref)[x].nb_arguments = h[x].nb_arguments
<1> DEFINE a == Append(h, node)
           new == Len(h) + 1
<1>1. /\ a \in Seq(Node) /\ DOMAIN h \subseteq DOMAIN a
      /\ \A x \in DOMAIN h : a[x] = h[x]
      /\ new \in Pointer
  BY DEF Pointer
<1>2. ref.node \in DOMAIN a /\ ref.field \in Link
  BY <1>1 DEF Reference
<1>3. Linked(h, node, ref) = Store(a, ref, new)
  BY DEF Linked
<1> HIDE DEF a, new
<1>4. \A x \in DOMAIN a : Store(a, ref, new)[x].nb_arguments = a[x].nb_arguments
  BY <1>1, <1>2, StoreFacts
<1> QED BY <1>1, <1>3, <1>4

\* A node for the current token is allocated.
LEMMA StepGrows ==
  ASSUME IInv, status = "parsing", TokensOK(ast, pos),
         NEW node \in Node, NEW ref \in Reference, ref.node \in DOMAIN ast,
         OnLeft(node, Top.previous), node.token = pos, node["sibling"] = Null,
         ref = Top.emplace \/ (Top.previous # Null /\ ref = Field(Top.previous, "right")),
         NEW g, g = Linked(ast, node, ref), NEW d, d = WithPrevious(stack, Fresh)
  PROVE  /\ g \in Seq(Node) /\ Grows(ast, g, stack, d, ref) /\ Len(g) = Fresh
         /\ ref.node # Len(g) /\ TokensOK(g, pos + 1) /\ g[Fresh].type = node.type
         /\ DOMAIN g = 1 .. Fresh
         /\ d \in Seq(Frame) /\ Len(d) = Len(stack) /\ DOMAIN d = DOMAIN stack
         /\ d[Len(stack)].previous = Fresh /\ d[Len(stack)].emplace = Top.emplace
<1>1. /\ Len(stack) \in Nat /\ Len(stack) > 0 /\ DOMAIN stack = 1 .. Len(stack)
      /\ Top = stack[Len(stack)] /\ Len(ast) \in Nat /\ DOMAIN ast = 1 .. Len(ast)
      /\ Fresh = Len(ast) + 1
  BY Now
<1>2. ast \in Seq(Node) /\ stack \in Seq(Frame) /\ pos \in Nat
  BY DEF IInv, TypeOK
<1>3. /\ g \in Seq(Node) /\ Grown(ast, g, ref, Top.previous)
      /\ \A l \in Link : g[Len(ast) + 1][l] = node[l]
      /\ g[Len(ast) + 1].type = node.type /\ g[Len(ast) + 1].token = pos
      /\ \A x \in DOMAIN ast : g[x].type = ast[x].type /\ g[x].token = ast[x].token
  BY <1>2, GrownByStore
<1>4. \A x \in DOMAIN ast : g[x].nb_arguments = ast[x].nb_arguments
  BY <1>2, LinkedKeeps
<1>5. Len(g) = Fresh /\ DOMAIN g = 1 .. Fresh /\ DOMAIN g = DOMAIN ast \cup {Fresh}
  BY <1>1, <1>3 DEF Grown
<1>6. KeepsData(ast, g)
  BY <1>3, <1>4 DEF KeepsData
<1>7. StoresFor(stack[Len(stack)], g, ref)
  BY <1>1 DEF StoresFor
<1>8. /\ d \in Seq(Frame) /\ Len(d) = Len(stack) /\ DOMAIN d = DOMAIN stack
      /\ Advanced(stack, d, Len(g)) /\ d[Len(stack)].previous = Fresh
  BY <1>1, <1>2, <1>5, PreviousStored
<1>9. d[Len(stack)].emplace = Top.emplace
  BY <1>1, <1>8 DEF Advanced
<1>10. ref.node # Len(g)
  BY <1>1, <1>5
<1>11. g[Len(g)]["sibling"] = Null /\ g[Len(g)].token = pos
  BY <1>1, <1>3, <1>5 DEF Link
<1>12. \A x \in DOMAIN ast : ast[x].token < g[Len(g)].token
  BY <1>11 DEF TokensOK
<1>13. Grows(ast, g, stack, d, ref)
  BY <1>1, <1>3, <1>6, <1>7, <1>8, <1>10, <1>11, <1>12 DEF Grows
<1>14. TokensOK(g, pos + 1)
  <2> SUFFICES ASSUME NEW x \in DOMAIN g PROVE g[x].token < pos + 1
    BY DEF TokensOK
  <2>1. CASE x = Fresh
    BY <1>2, <1>5, <1>11, <2>1
  <2>2. CASE x # Fresh
    <3>1. x \in DOMAIN ast /\ ast[x].token \in Nat
      BY <1>2, <1>5, <2>2, HeapFacts
    <3> QED BY <1>2, <1>3, <3>1 DEF TokensOK
  <2> QED BY <2>1, <2>2
<1>15. g[Fresh].type = node.type
  BY <1>1, <1>3
<1> QED BY <1>3, <1>5, <1>8, <1>9, <1>10, <1>13, <1>14, <1>15

\* What a node that makes no call leaves to do.
LEMMA CallsMore ==
  ASSUME NEW v \in Nat, NEW h, NEW c, CallsOK(v, h, c), h[v + 1].type # "call"
  PROVE  CallsOK(v + 1, h, c)
<1>1. ASSUME NEW k \in DOMAIN c, Arg(c[k])
      PROVE  \E b : b <= v + 1 /\ CallOpen(b, h, c, k)
  <2>1. PICK b : b <= v /\ CallOpen(b, h, c, k)
    BY <1>1 DEF CallsOK
  <2>2. b \in Nat
    BY <2>1 DEF CallOpen, OpenNode
  <2>3. b <= v + 1
    BY <2>1, <2>2
  <2> QED BY <2>1, <2>3
<1>2. ASSUME NEW n \in 1 .. v + 1, h[n].type = "call"
      PROVE  UnderWay(c, n) \/ \E e : e <= v + 1 /\ CallClosed(e, h, c, n)
  <2>1. n \in 1 .. v
    BY <1>2
  <2>2. ASSUME NEW e, e <= v, CallClosed(e, h, c, n) PROVE e <= v + 1
    <3>1. e \in Nat
      BY <2>2 DEF CallClosed
    <3> QED BY <2>2, <3>1
  <2> QED BY <1>2, <2>1, <2>2 DEF CallsOK
<1> QED BY <1>1, <1>2 DEF CallsOK

LEMMA AdvancedInnermost ==
  ASSUME NEW c \in Seq(Frame), NEW d, NEW v, Advanced(c, d, v), NEW k, Innermost(d, k)
  PROVE  Innermost(c, k) /\ \A h : Held(h, d[k]) = Held(h, c[k])
<1>1. /\ DOMAIN c = 1 .. Len(c) /\ Len(c) \in Nat /\ Len(d) = Len(c) /\ DOMAIN d = DOMAIN c
      /\ \A j \in DOMAIN c : d[j].by = c[j].by /\ d[j].emplace = c[j].emplace
  BY DEF Advanced
<1>2. k \in DOMAIN c /\ \A j \in k + 1 .. Len(c) : j \in DOMAIN c
  BY <1>1 DEF Innermost
<1> QED BY <1>1, <1>2 DEF Innermost, Arg, Held

LEMMA AdvancedHeld ==
  ASSUME NEW h \in Seq(Node), NEW g \in Seq(Node), NEW c \in Seq(Frame), NEW d,
         NEW ref \in Reference, Len(c) > 0, CallsOK(Len(h), h, c), Grows(h, g, c, d, ref),
         ref.node # Len(g), NEW k, Innermost(d, k)
  PROVE  ~ (Held(g, d[k]) <= 0)
<1>1. Innermost(c, k) /\ Held(g, d[k]) = Held(g, c[k])
  BY AdvancedInnermost, SMTT(30) DEF Grows
<1>2. ~ (Held(g, c[k]) <= 0)
  BY <1>1, GrownHeld
<1> QED BY <1>1, <1>2

LEMMA OperandKeeps ==
  ASSUME IInv, ArgumentsInv, status = "parsing", NEW type \in NodeType, type # "call",
         NEW ref \in Reference, ref.node \in DOMAIN ast, Emplace(type, ref),
         ref = Top.emplace \/ (Top.previous # Null /\ ref = Field(Top.previous, "right"))
  PROVE  ArgumentsInv'
<1> DEFINE node == NewNode(type, pos)
<1>1. /\ Len(stack) \in Nat /\ Len(stack) > 0 /\ DOMAIN stack = 1 .. Len(stack)
      /\ Len(ast) \in Nat /\ Fresh = Len(ast) + 1
  BY Now
<1>2. ast \in Seq(Node) /\ stack \in Seq(Frame) /\ pos \in Nat
  BY DEF IInv, TypeOK
<1>3. /\ ast' = Linked(ast, node, ref) /\ stack' = WithPrevious(stack, Fresh)
      /\ pos' = pos + 1 /\ stream' = stream
  BY <1>1 DEF Emplace, Linked, WithPrevious, Fresh
<1>4. /\ node \in Node /\ \A l \in Link : node[l] = Null
      /\ node.type = type /\ node.token = pos
  BY <1>2, NewNodeFacts
<1> HIDE DEF node
<1>5. OnLeft(node, Top.previous) /\ node["sibling"] = Null
  BY <1>4 DEF OnLeft, Null, Link
<1> SUFFICES ASSUME ~ EmptyArgument'
             PROVE  /\ CallsOK(Len(ast'), ast', stack') /\ TokensOK(ast', pos')
                    /\ AwaitedOK(stream', ast', stack', pos')
  BY DEF ArgumentsInv
<1>6. ~ EmptyArgument
  BY <1>3 DEF EmptyArgument, Size
<1>7. CallsOK(Len(ast), ast, stack) /\ TokensOK(ast, pos)
  BY <1>6 DEF ArgumentsInv
<1>8. /\ ast' \in Seq(Node) /\ Grows(ast, ast', stack, stack', ref) /\ Len(ast') = Fresh
      /\ ref.node # Len(ast') /\ TokensOK(ast', pos + 1) /\ ast'[Fresh].type = type
      /\ DOMAIN stack' = DOMAIN stack
  BY <1>3, <1>4, <1>5, <1>7, StepGrows
<1>9. CallsOK(Len(ast), ast', stack')
  BY <1>1, <1>2, <1>7, <1>8, CallsGrown
<1>10. CallsOK(Len(ast'), ast', stack')
  BY <1>1, <1>8, <1>9, CallsMore
<1>11. AwaitedOK(stream', ast', stack', pos')
  BY <1>1, <1>2, <1>7, <1>8, AdvancedHeld DEF AwaitedOK
<1> QED BY <1>3, <1>8, <1>10, <1>11

LEMMA PushedInnermost ==
  ASSUME NEW c \in Seq(Frame), NEW d, NEW f, PushedOnto(c, d, f), ~ Arg(f),
         NEW k, Innermost(d, k)
  PROVE  Innermost(c, k) /\ \A h : Held(h, d[k]) = Held(h, c[k])
<1>1. /\ DOMAIN c = 1 .. Len(c) /\ Len(c) \in Nat
      /\ \A j \in DOMAIN c : d[j].by = c[j].by /\ d[j].emplace = c[j].emplace
  BY DEF PushedOnto, Alike
<1>2. k \in DOMAIN d /\ k # Len(d) /\ Arg(d[k]) /\ \A j \in k + 1 .. Len(d) : ~ Arg(d[j])
  BY DEF PushedOnto, Innermost
<1>3. k \in DOMAIN c /\ \A j \in k + 1 .. Len(c) : j \in DOMAIN c /\ j \in k + 1 .. Len(d)
  BY <1>1, <1>2 DEF PushedOnto
<1> QED BY <1>1, <1>2, <1>3 DEF Innermost, Arg, Held

LEMMA OperatorKeeps ==
  ASSUME IInv, ArgumentsInv, status = "parsing",
         NEW node \in Node, NEW by \in {"unary", "binary"}, OnLeft(node, Top.previous),
         node.token = pos, node["sibling"] = Null, node.type # "call", Operation(node, by)
  PROVE  ArgumentsInv'
<1> DEFINE d == WithPrevious(stack, Fresh)
           f == Call(Field(Fresh, "right"), Top.delims, by, Fresh)
           ref == Top.emplace
<1>1. /\ Len(stack) \in Nat /\ Len(stack) > 0 /\ DOMAIN stack = 1 .. Len(stack)
      /\ Len(ast) \in Nat /\ Fresh = Len(ast) + 1 /\ Fresh \in Nat
      /\ Top \in Frame /\ ref \in Reference
  BY Now
<1>2. ast \in Seq(Node) /\ stack \in Seq(Frame) /\ pos \in Nat
  BY DEF IInv, TypeOK
<1>3. ref.node \in DOMAIN ast
  <2>1. PICK b \in Seq(Nat), dead \in SUBSET DOMAIN ast : Shape(b, dead, ast, stack)
    BY DEF IInv
  <2> QED BY <2>1, TopShape
<1>4. /\ f \in Frame /\ f.emplace = Field(Fresh, "right") /\ f.previous = Null
      /\ f.by = by /\ f.node = Fresh
      /\ f.emplace.node = Fresh /\ f.emplace.field = "right"
  <2>1. Field(Fresh, "right") \in Reference /\ Field(Fresh, "right").node = Fresh
        /\ Field(Fresh, "right").field = "right"
    BY <1>1 DEF Field, Reference, Link
  <2>2. by \in CallBy /\ Top.delims \in CallDelims /\ Fresh \in Nat
    BY <1>1, DelimsFacts DEF CallBy
  <2> QED BY <2>1, <2>2, CallFacts
<1>5. /\ stack' = Append(d, f) /\ pos' = pos + 1 /\ ast' = Linked(ast, node, ref)
      /\ stream' = stream
  BY <1>1 DEF Operation, WithPrevious, Linked
<1> HIDE DEF f
<1> SUFFICES ASSUME ~ EmptyArgument'
             PROVE  /\ CallsOK(Len(ast'), ast', stack') /\ TokensOK(ast', pos')
                    /\ AwaitedOK(stream', ast', stack', pos')
  BY DEF ArgumentsInv
<1>6. ~ EmptyArgument
  BY <1>5 DEF EmptyArgument, Size
<1>7. CallsOK(Len(ast), ast, stack) /\ TokensOK(ast, pos)
  BY <1>6 DEF ArgumentsInv
<1>8. /\ ast' \in Seq(Node) /\ Grows(ast, ast', stack, d, ref) /\ Len(ast') = Fresh
      /\ ref.node # Len(ast') /\ TokensOK(ast', pos + 1) /\ ast'[Fresh].type = node.type
      /\ d \in Seq(Frame) /\ Len(d) = Len(stack) /\ d[Len(stack)].previous = Fresh
      /\ d[Len(stack)].emplace = ref
  BY <1>2, <1>3, <1>5, <1>7, <1>1, StepGrows
<1> HIDE DEF d, ref
<1>9. CallsOK(Len(ast), ast', d)
  BY <1>1, <1>2, <1>7, <1>8, CallsGrown
<1>10. PushedOnto(d, stack', f)
  BY <1>4, <1>5, <1>8, FrameAppended DEF PushedOnto
<1>11. ~ Arg(f)
  BY <1>4 DEF Arg
<1>12. PushedOver(ast', d, f)
  <2>1. Held(ast', d[Len(d)]) = Fresh
    <3>1. Field(ref.node, ref.field) = ref /\ ref.field \in Link
      BY <1>1 DEF Field, Reference
    <3> QED BY <1>3, <1>8, <3>1 DEF Grows, Grown, Held
  <2> QED BY <1>1, <1>4, <2>1 DEF PushedOver
<1>13. Beside(f, d[Len(d)])
  BY <1>4, <1>8 DEF Beside
<1>14. CallsOK(Len(ast), ast', stack')
  <2>1. f.emplace.node > Len(ast) /\ f.node > Len(ast) /\ Len(d) > 0
    BY <1>1, <1>4, <1>8
  <2> QED BY <1>1, <1>4, <1>8, <1>9, <1>10, <1>11, <1>12, <1>13, <2>1, CallsPushed
<1>15. CallsOK(Len(ast'), ast', stack')
  BY <1>1, <1>8, <1>14, CallsMore
<1>16. AwaitedOK(stream', ast', stack', pos')
  <2> SUFFICES ASSUME NEW k, Innermost(stack', k)
               PROVE  ~ (Held(ast', stack'[k]) <= 0)
    BY DEF AwaitedOK
  <2>1. Innermost(d, k) /\ Held(ast', stack'[k]) = Held(ast', d[k])
    BY <1>8, <1>10, <1>11, PushedInnermost
  <2>2. ~ (Held(ast', d[k]) <= 0)
    BY <1>1, <1>2, <1>7, <1>8, <2>1, AdvancedHeld
  <2> QED BY <2>1, <2>2
<1> QED BY <1>5, <1>8, <1>15, <1>16

\* The last frame calls another one to read a parenthesis.
LEMMA ParenthesisKeeps ==
  ASSUME IInv, ArgumentsInv, ReadOpenParenthesis
  PROVE  ArgumentsInv'
<1> DEFINE delims == Top.delims \ {")"}
           f == Call(Top.emplace, delims, "parenthesis", Top.node)
<1>0. status = "parsing" /\ Current = "("
  BY Zenon DEF ReadOpenParenthesis, Reading
<1>00. Current # "eof"
  <2>1. "(" # "eof"
    OBVIOUS
  <2> QED BY <1>0, <2>1, Zenon
<1>1. /\ Len(stack) \in Nat /\ Len(stack) > 0 /\ DOMAIN stack = 1 .. Len(stack)
      /\ Len(ast) \in Nat /\ Top = stack[Len(stack)] /\ Top \in Frame
      /\ Top.emplace \in Reference
  BY <1>0, Now, Zenon
<1>2. TypeOK /\ ast \in Seq(Node) /\ stack \in Seq(Frame) /\ pos \in Nat
  <2>1. TypeOK
    BY Zenon DEF IInv
  <2> QED BY <2>1 DEF TypeOK
<1>4. /\ f \in Frame /\ f.emplace = Top.emplace /\ f.previous = Null
      /\ f.by = "parenthesis" /\ f.node = Top.node
  <2>1. delims \in CallDelims
    BY <1>1, DelimsFacts, Zenon
  <2>2. Top.node \in Nat /\ "parenthesis" \in CallBy
    <3> HIDE DEF delims
    <3> QED BY <1>1 DEF Frame, CallBy
  <2> HIDE DEF delims
  <2> QED BY <1>1, <2>1, <2>2, CallFacts
<1>5. /\ stack' = Append(stack, f) /\ pos' = pos + 1
      /\ stream' = stream /\ ast' = ast
  BY Zenon DEF ReadOpenParenthesis
<1> HIDE DEF delims, f
<1> SUFFICES ASSUME ~ EmptyArgument'
             PROVE  /\ CallsOK(Len(ast'), ast', stack') /\ TokensOK(ast', pos')
                    /\ AwaitedOK(stream', ast', stack', pos')
  BY Zenon DEF ArgumentsInv
<1>6. ~ EmptyArgument
  BY <1>5, Zenon DEF EmptyArgument, Size
<1>7. CallsOK(Len(ast), ast, stack) /\ TokensOK(ast, pos)
  BY <1>6, Zenon DEF ArgumentsInv
<1>8. PushedOnto(stack, stack', f)
  BY <1>1, <1>2, <1>4, <1>5, FrameAppended DEF PushedOnto
<1>9. ~ Arg(f) /\ PushedOver(ast, stack, f) /\ Beside(f, stack[Len(stack)])
  BY <1>1, <1>4 DEF Arg, PushedOver, Beside
<1>10. CallsOK(Len(ast), ast, stack')
  BY <1>1, <1>2, <1>4, <1>7, <1>8, <1>9, CallsPushed
<1>11. TokensOK(ast', pos')
  <2> SUFFICES ASSUME NEW x \in DOMAIN ast PROVE ast[x].token < pos + 1
    BY <1>5 DEF TokensOK
  <2>1. ast[x].token \in Nat /\ ast[x].token < pos
    BY <1>2, <1>7, HeapFacts DEF TokensOK
  <2> QED BY <1>2, <2>1
<1>12. Prompted(stream, pos + 1)
  <2>1. pos + 1 > 1 /\ (pos + 1) - 1 = pos
    <3>1. pos # 0
      BY <1>2 DEF TypeOK
    <3> QED BY <1>2, <3>1
  <2>2. stream[pos] = "("
    BY <1>0, <1>00, <1>2, CurrentFacts, Zenon
  <2> QED BY <2>1, <2>2, Zenon DEF Prompted
<1> QED BY <1>5, <1>10, <1>11, <1>12 DEF AwaitedOK
\* A call begins.
LEMMA FunctionCallKeeps ==
  ASSUME IInv, ArgumentsInv, ReadFunctionCall
  PROVE  ArgumentsInv'
<1> DEFINE node == CallNode(pos)
           delims == {",", ")"}
           ref == Field(Fresh, "right")
           f == Call(ref, delims, "argument", Fresh)
<1>0. status = "parsing" /\ Following = "("
  BY Zenon DEF ReadFunctionCall, Reading
<1>1. /\ Len(stack) \in Nat /\ Len(stack) > 0 /\ DOMAIN stack = 1 .. Len(stack)
      /\ Len(ast) \in Nat /\ DOMAIN ast = 1 .. Len(ast) /\ Fresh = Len(ast) + 1
      /\ Fresh \in Nat
  <2>1. /\ Len(stack) \in Nat /\ Len(stack) > 0 /\ DOMAIN stack = 1 .. Len(stack)
        /\ Len(ast) \in Nat /\ DOMAIN ast = 1 .. Len(ast) /\ Fresh = Len(ast) + 1
    BY <1>0, Now, Zenon
  <2> QED BY <2>1
<1>2. TypeOK /\ ast \in Seq(Node) /\ stack \in Seq(Frame) /\ pos \in Nat
  <2>1. TypeOK
    BY Zenon DEF IInv
  <2> QED BY <2>1 DEF TypeOK
<1>3. PICK b \in Seq(Nat), dead \in SUBSET DOMAIN ast : Shape(b, dead, ast, stack)
  BY Zenon DEF IInv
<1>4. /\ f \in Frame /\ f.emplace = ref /\ f.previous = Null
      /\ f.by = "argument" /\ f.node = Fresh /\ ref \in Reference /\ ref.node = Fresh
  <2>1. ref \in Reference /\ ref.node = Fresh
    BY <1>1 DEF Field, Reference, Link
  <2>2. "argument" \in CallBy /\ delims \in CallDelims
    BY Zenon DEF CallBy, CallDelims
  <2> HIDE DEF delims, ref
  <2> QED BY <1>1, <2>1, <2>2, CallFacts
<1>5. /\ stack' = Append(stack, f) /\ pos' = pos + 2 /\ ast' = Append(ast, node)
      /\ stream' = stream
  BY Zenon DEF ReadFunctionCall, CallNode
<1>6. /\ node \in Node /\ node.type = "call" /\ node.token = pos /\ node.nb_arguments = 0
      /\ \A l \in Link : node[l] \in Int /\ node[l] <= 0
      /\ node["sibling"] = Null
  BY <1>2, CallNodeFacts DEF Null, Uninitialized, Link
<1> HIDE DEF f, node, delims
<1> SUFFICES ASSUME ~ EmptyArgument'
             PROVE  /\ CallsOK(Len(ast'), ast', stack') /\ TokensOK(ast', pos')
                    /\ AwaitedOK(stream', ast', stack', pos')
  BY Zenon DEF ArgumentsInv
<1>7. ~ EmptyArgument
  BY <1>5, Zenon DEF EmptyArgument, Size
<1>8. CallsOK(Len(ast), ast, stack) /\ TokensOK(ast, pos)
  BY <1>7, Zenon DEF ArgumentsInv
<1>9. /\ ast' \in Seq(Node) /\ Len(ast') = Fresh /\ DOMAIN ast' = 1 .. Fresh
      /\ DOMAIN ast' = DOMAIN ast \cup {Fresh} /\ ast'[Fresh] = node
      /\ \A x \in DOMAIN ast : ast'[x] = ast[x]
  BY <1>1, <1>2, <1>5, <1>6, AppendFacts
<1>10. Grown(ast, ast', ref, stack[Len(stack)].previous)
  <2>1. \A x \in DOMAIN ast, l \in Link : Field(x, l) # ref
    BY <1>1 DEF Field
  <2>2. \A l \in Link : ast'[Len(ast')][l] \in Int /\ ~(ast'[Len(ast')][l] > 0)
    BY <1>6, <1>9
  <2> QED BY <1>1, <1>9, <2>1, <2>2 DEF Grown
<1> HIDE DEF ref
<1>11. Shape(b, dead, ast', stack) /\ \A x \in DOMAIN ast', l \in Link : ast'[x][l] # Fresh
  <2>1. Loose(ast', ref)
    BY <1>4, <1>6, <1>9 DEF Loose
  <2>2. /\ Shape(b, dead, ast', stack)
        /\ \A x \in DOMAIN ast', l \in Link : ast'[x][l] # Len(ast')
    BY <1>1, <1>3, <1>4, <1>10, <2>1, ShapeAllocated
  <2> QED BY <1>9, <2>2
<1>12. Grows(ast, ast', stack, stack, ref)
  <2>1. KeepsData(ast, ast')
    BY <1>9 DEF KeepsData
  <2>2. StoresFor(stack[Len(stack)], ast', ref)
    BY <1>4, <1>9 DEF StoresFor
  <2>3. Advanced(stack, stack, Len(ast'))
    BY DEF Advanced
  <2>4. ast'[Len(ast')]["sibling"] = Null /\ ast'[Len(ast')].token = pos
    BY <1>6, <1>9
  <2>5. \A x \in DOMAIN ast : ast[x].token < ast'[Len(ast')].token
    BY <1>8, <2>4 DEF TokensOK
  <2> QED BY <1>10, <2>1, <2>2, <2>3, <2>4, <2>5 DEF Grows
<1>13. CallsOK(Len(ast), ast', stack)
  BY <1>1, <1>2, <1>4, <1>8, <1>9, <1>12, CallsGrown
<1>14. Begins(ast', Fresh)
  <2>1. \A x \in DOMAIN ast', l \in Link : ast'[x][l] <= Fresh
    BY <1>9, <1>11 DEF Shape, LinksOK
  <2> QED BY <1>6, <1>9, <1>11, <2>1 DEF Begins
<1>15. PushedOnto(stack, stack', f) /\ stack' \in Seq(Frame)
  BY <1>1, <1>2, <1>4, <1>5, FrameAppended DEF PushedOnto
<1>16. \A j \in DOMAIN stack : FrameUnder(stack[j], Fresh)
  <2> SUFFICES ASSUME NEW j \in DOMAIN stack PROVE FrameUnder(stack[j], Fresh)
    OBVIOUS
  <2>1. PlaceOK(b[j], ast, stack[j])
    BY <1>3 DEF Shape, BasesOK
  <2>2. stack[j].emplace.node \in 1 .. b[j] /\ stack[j].node \in 1 .. b[j] /\ b[j] \in 1 .. Len(ast)
    BY <1>1, <2>1 DEF PlaceOK
  <2>3. stack[j].previous = 0 \/ stack[j].previous \in b[j] + 1 .. Len(ast)
    BY <2>1 DEF PlaceOK, Null
  <2>4. stack[j].previous < Fresh
    BY <1>1, <2>2, <2>3
  <2> QED BY <1>1, <2>2, <2>4 DEF FrameUnder
<1>17. CallsOK(Fresh, ast', stack')
  BY <1>1, <1>2, <1>4, <1>9, <1>13, <1>14, <1>15, <1>16, CallsStarted DEF ref, Arg
<1>18. TokensOK(ast', pos')
  <2> SUFFICES ASSUME NEW x \in DOMAIN ast' PROVE ast'[x].token < pos + 2
    BY <1>5 DEF TokensOK
  <2>1. CASE x = Fresh
    BY <1>2, <1>6, <1>9, <2>1
  <2>2. CASE x # Fresh
    <3>1. x \in DOMAIN ast
      BY <1>9, <2>2
    <3>2. ast[x].token \in Nat /\ ast[x].token < pos /\ ast'[x] = ast[x]
      BY <1>2, <1>8, <1>9, <3>1, HeapFacts DEF TokensOK
    <3> QED BY <1>2, <3>2
  <2> QED BY <2>1, <2>2
<1>19. Prompted(stream, pos + 2)
  <2>1. pos + 2 > 1 /\ (pos + 2) - 1 = pos + 1
    BY <1>2
  <2>2. stream[pos + 1] = "("
    <3>1. "eof" # "("
      BY Zenon
    <3> QED BY <1>0, <3>1, Zenon DEF Following
  <2> QED BY <2>1, <2>2, Zenon DEF Prompted
<1> QED BY <1>5, <1>9, <1>17, <1>18, <1>19 DEF AwaitedOK

\* A frame that reads no argument returns.
LEMMA PoppedInnermost ==
  ASSUME NEW c \in Seq(Frame), NEW d, PoppedFrom(c, d), ~ Arg(c[Len(c)]),
         NEW k, Innermost(d, k)
  PROVE  Innermost(c, k) /\ \A h : Held(h, d[k]) = Held(h, c[k])
<1>1. /\ DOMAIN c = 1 .. Len(c) /\ Len(c) \in Nat /\ Len(d) = Len(c) - 1
      /\ DOMAIN d = 1 .. Len(d)
      /\ \A j \in DOMAIN d : d[j].by = c[j].by /\ d[j].emplace = c[j].emplace
  BY DEF PoppedFrom, Alike
<1>2. k \in DOMAIN d /\ Arg(d[k]) /\ \A j \in k + 1 .. Len(d) : ~ Arg(d[j])
  BY DEF Innermost
<1>3. k \in DOMAIN c /\ \A j \in k + 1 .. Len(c) : j = Len(c) \/ (j \in DOMAIN d /\ j \in k + 1 .. Len(d))
  <2> DEFINE K == Len(c)
  <2>1. K \in Nat /\ Len(d) = K - 1 /\ DOMAIN c = 1 .. K /\ DOMAIN d = 1 .. K - 1
        /\ k \in DOMAIN d
    BY <1>1, <1>2
  <2> HIDE DEF K
  <2>2. k \in 1 .. K - 1 /\ k \in 1 .. K
    BY <2>1
  <2>3. \A j \in k + 1 .. K : j = K \/ (j \in 1 .. K - 1 /\ j \in k + 1 .. K - 1)
    BY <2>1, <2>2
  <2> QED BY <2>1, <2>2, <2>3 DEF K
<1> QED BY <1>1, <1>2, <1>3, Zenon DEF Innermost, Arg, Held

LEMMA AwaitedPopped ==
  ASSUME IInv, ~ EmptyArgument, AwaitedOK(stream, ast, stack, pos), stack # <<>>,
         ~ Arg(stack[Len(stack)]), NEW d, PoppedFrom(stack, d), NEW g, NEW p,
         p = pos \/ AtSeparator,
         \A k \in DOMAIN d : Arg(stack[k]) => Held(g, stack[k]) = Held(ast, stack[k])
  PROVE  AwaitedOK(stream, g, d, p)
<1>0. TypeOK /\ stack \in Seq(Frame)
  BY DEF IInv, TypeOK
<1> SUFFICES ASSUME NEW k \in DOMAIN d, Innermost(d, k), Held(g, d[k]) <= 0
             PROVE  Prompted(stream, p)
  BY DEF AwaitedOK
<1>1. Innermost(stack, k) /\ Held(g, d[k]) = Held(g, stack[k])
  BY <1>0, PoppedInnermost
<1>2. Arg(stack[k]) /\ k \in DOMAIN stack
  BY <1>1 DEF Innermost
<1>3. Held(ast, stack[k]) <= 0
  BY <1>1, <1>2
<1>4. Prompted(stream, pos)
  BY <1>1, <1>2, <1>3 DEF AwaitedOK
<1> QED BY <1>0, <1>4, NotEmpty

LEMMA ReturnKeeps ==
  ASSUME IInv, ArgumentsInv, status = "parsing", Return, stream' = stream,
         pos' = pos \/ (pos' = pos + 1 /\ AtSeparator)
  PROVE  ArgumentsInv'
<1> DEFINE m == Len(stack)  q == Top.node  r == ast[q].right
<1>1. /\ m \in Nat /\ m > 0 /\ DOMAIN stack = 1 .. m /\ m \in DOMAIN stack
      /\ Top = stack[m] /\ Top \in Frame /\ Len(ast) \in Nat /\ DOMAIN ast = 1 .. Len(ast)
      /\ Front(stack) \in Seq(Frame) /\ Len(Front(stack)) = m - 1
      /\ DOMAIN Front(stack) = 1 .. m - 1
      /\ \A j \in 1 .. m - 1 : Front(stack)[j] = stack[j]
  <2>1. /\ m \in Nat /\ m > 0 /\ DOMAIN stack = 1 .. m
        /\ Top = stack[m] /\ Top \in Frame /\ Len(ast) \in Nat /\ DOMAIN ast = 1 .. Len(ast)
        /\ Front(stack) \in Seq(Frame) /\ Len(Front(stack)) = m - 1
        /\ DOMAIN Front(stack) = 1 .. m - 1
        /\ \A j \in 1 .. m - 1 : Front(stack)[j] = stack[j]
    BY Now, Zenon
  <2>2. m \in DOMAIN stack
    BY <2>1
  <2> QED BY <2>1, <2>2, Zenon
<1>2. TypeOK /\ ast \in Seq(Node) /\ stack \in Seq(Frame) /\ pos \in Nat
  BY DEF IInv, TypeOK
<1>3. PICK b \in Seq(Nat), dead \in SUBSET DOMAIN ast : Shape(b, dead, ast, stack)
  BY DEF IInv
<1> SUFFICES ASSUME ~ EmptyArgument'
             PROVE  /\ CallsOK(Len(ast'), ast', stack') /\ TokensOK(ast', pos')
                    /\ AwaitedOK(stream', ast', stack', pos')
  BY DEF ArgumentsInv
<1>4. ~ EmptyArgument
  BY DEF EmptyArgument, Size
<1>5. /\ CallsOK(Len(ast), ast, stack) /\ TokensOK(ast, pos)
      /\ AwaitedOK(stream, ast, stack, pos)
  BY <1>4 DEF ArgumentsInv
<1>6. ~ Arg(stack[Len(stack)])
  BY <1>1 DEF Return, Arg
<1>7. ASSUME NEW d, PoppedFrom(stack, d)
      PROVE  CallsOK(Len(ast), ast, d) /\ AwaitedOK(stream, ast, d, pos')
  <2>1. CallsOK(Len(ast), ast, d)
    BY <1>2, <1>5, <1>6, <1>7, CallsPopped
  <2>2. stack # <<>> /\ (pos' = pos \/ AtSeparator)
    BY <1>1
  <2>3. \A k \in DOMAIN d : Arg(stack[k]) => Held(ast, stack[k]) = Held(ast, stack[k])
    OBVIOUS
  <2>4. AwaitedOK(stream, ast, d, pos')
    BY <1>4, <1>5, <1>6, <1>7, <2>2, <2>3, AwaitedPopped
  <2> QED BY <2>1, <2>4
<1>8. ASSUME NEW g \in Seq(Node), DOMAIN g = DOMAIN ast,
             \A x \in DOMAIN g : g[x].token < pos
      PROVE  TokensOK(g, pos')
  <2> SUFFICES ASSUME NEW x \in DOMAIN g PROVE g[x].token < pos'
    BY DEF TokensOK
  <2>1. g[x].token \in Nat /\ g[x].token < pos
    BY <1>8, HeapFacts
  <2> QED BY <1>2, <2>1
<1>9. TokensOK(ast, pos')
  BY <1>2, <1>5, <1>8 DEF TokensOK
<1>10. CASE Top.by = "owner" /\ ReturnToOwner
  <2>1. stack' = <<>> /\ ast' = ast
    BY <1>10 DEF ReturnToOwner
  <2>2. m = 1
    BY <1>1, <1>3, <1>10 DEF Shape, KindsOK
  <2>3. PoppedFrom(stack, stack')
    BY <2>1, <2>2 DEF PoppedFrom
  <2> QED BY <1>7, <1>9, <2>1, <2>3
<1>11. PoppedFrom(stack, Front(stack))
  BY <1>1 DEF PoppedFrom, Alike
<1>12. CASE Top.by = "parenthesis" /\ ReturnToParenthesis
  <2>1. stack' = [Front(stack) EXCEPT ![m - 1].scoped = TRUE] /\ ast' = ast
    BY <1>12 DEF ReturnToParenthesis
  <2>2. PoppedFrom(stack, stack')
    <3> DEFINE c == Front(stack)
    <3>1. c \in Seq(Frame) /\ Len(c) = m - 1 /\ DOMAIN c = 1 .. m - 1
          /\ \A j \in 1 .. m - 1 : c[j] = stack[j]
      BY <1>1
    <3> HIDE DEF c, m
    <3>2. stack' = [c EXCEPT ![m - 1] = [c[m - 1] EXCEPT !.scoped = TRUE]]
      BY <2>1 DEF c
    <3>3. Len(stack') = m - 1 /\ DOMAIN stack' = 1 .. m - 1
      BY <1>1, <3>1, <3>2
    <3>5. \A f \in Frame : Alike([f EXCEPT !.scoped = TRUE], f)
      BY DEF Alike, Frame
    <3>4. \A j \in 1 .. m - 1 : Alike(stack'[j], c[j])
      <4> SUFFICES ASSUME NEW j \in 1 .. m - 1 PROVE Alike(stack'[j], c[j])
        OBVIOUS
      <4>1. c[j] \in Frame /\ Alike(c[j], c[j])
        BY <3>1 DEF Alike
      <4>2. stack'[j] = IF j = m - 1 THEN [c[m - 1] EXCEPT !.scoped = TRUE] ELSE c[j]
        BY <3>1, <3>2
      <4> QED BY <3>5, <4>1, <4>2
    <3> QED BY <3>1, <3>3, <3>4 DEF PoppedFrom, Alike, m
  <2> QED BY <1>7, <1>9, <2>1, <2>2
<1>13. CASE stack' = Front(stack) /\ ast' = ast
  BY <1>7, <1>9, <1>11, <1>13
<1>14. CASE Top.by = "unary" /\ ReturnToUnary
  BY <1>13, <1>14 DEF ReturnToUnary
<1>15. CASE Top.by = "binary" /\ ReturnToBinary
  <2>1. stack' = Front(stack)
    BY <1>15 DEF ReturnToBinary
  <2>2. \/ ast' = ast
        \/ IsBinaryOperator(ast, r) /\ ast' = Rotated(ast, q, r)
    BY <1>15 DEF ReturnToBinary, FixOperationsOrder
  <2>3. CASE IsBinaryOperator(ast, r) /\ ast' = Rotated(ast, q, r)
    <3>1. m > 1 /\ CallerOK(ast, b[m - 1], stack[m - 1], b[m], stack[m])
      BY <1>3, <1>15, Under
    <3>2. q \in DOMAIN ast
      BY <1>3, TopShape
    <3>3. r = ast[q]["right"] /\ r # Null /\ ast[r].type \in BinaryOperator
      BY <1>2, <2>3, <3>2, FieldsOfANode DEF IsBinaryOperator
    <3>4. /\ b[m] = q /\ ast[q].type \in BinaryOperator
          /\ ast[q]["right"] = Null \/ ast[q]["right"] > b[m]
          /\ stack[m - 1].previous = q
      BY <1>1, <1>15, <3>1 DEF CallerOK
    <3>5. r \in DOMAIN ast /\ q # r
      <4>1. r \in Int /\ r <= Len(ast)
        BY <1>3, <3>2, <3>3 DEF Shape, LinksOK, Link
      <4> QED BY <1>1, <3>2, <3>3, <3>4, <4>1 DEF Null
    <3> DEFINE c == Front(stack)
    <3>6. /\ c \in Seq(Frame) /\ Len(c) > 0 /\ q = c[Len(c)].previous
          /\ DOMAIN c = 1 .. m - 1 /\ \A j \in DOMAIN c : c[j] = stack[j]
      BY <1>1, <3>1, <3>4
    <3> HIDE DEF q, r
    <3>7. Swapped(ast, ast', q, r)
      BY <1>2, <2>3, <3>2, <3>3, <3>5, RotatedIsSwapped
    <3>8. /\ ast' \in Seq(Node) /\ Len(ast') = Len(ast) /\ DOMAIN ast' = DOMAIN ast
          /\ ast'[q].token = ast[r].token /\ ast'[r].token = ast[q].token
          /\ \A x \in DOMAIN ast \ {q, r} : ast'[x] = ast[x]
          /\ \A x \in DOMAIN ast : ast'[x].nb_arguments = ast[x].nb_arguments
      <4> DEFINE g == Rotated(ast, q, r)
      <4>1. /\ g \in Seq(Node)
            /\ \A x \in DOMAIN ast : g[x].nb_arguments = ast[x].nb_arguments
            /\ \A x \in DOMAIN ast \ {q, r} : g[x] = ast[x]
            /\ g[q].token = ast[r].token /\ g[r].token = ast[q].token
        BY <1>2, <3>2, <3>5, RotatedFacts
      <4> QED BY <2>3, <3>7, <4>1 DEF Swapped
    <3>9. PoppedFrom(stack, c)
      BY <1>11
    <3> HIDE DEF c
    <3>10. CallsOK(Len(ast), ast, c)
      BY <1>7, <3>9
    <3>11. CallsOK(Len(ast'), ast', c)
      <4>1. Len(ast) \in Nat /\ Len(ast) <= Len(ast)
        BY <1>1
      <4>2. CallsOK(Len(ast), ast', c)
        BY <1>2, <3>2, <3>3, <3>4, <3>5, <3>6, <3>7, <3>8, <3>10, <4>1, CallsSwapped
      <4> QED BY <3>8, <4>2
    <3>12. AwaitedOK(stream, ast', c, pos')
      <4>1. \A k \in DOMAIN c : Arg(stack[k]) => Held(ast', stack[k]) = Held(ast, stack[k])
        <5> SUFFICES ASSUME NEW k \in DOMAIN c, Arg(c[k])
                     PROVE  Held(ast', c[k]) = Held(ast, c[k])
          BY <3>6
        <5>1. q \in DOMAIN ast /\ r \in DOMAIN ast /\ q # r
          BY <3>2, <3>5
        <5>2. Len(c) > 0 /\ q = c[Len(c)].previous /\ c \in Seq(Frame)
          BY <3>6
        <5>3. ast \in Seq(Node) /\ ast' \in Seq(Node)
          BY <1>2, <3>8
        <5> QED BY <3>7, <3>10, <5>1, <5>2, <5>3, SwappedHeld
      <4> QED BY <1>1, <1>4, <1>5, <1>6, <3>9, <4>1, AwaitedPopped
    <3>13. TokensOK(ast', pos')
      <4>1. \A x \in DOMAIN ast' : ast'[x].token < pos
        <5> SUFFICES ASSUME NEW x \in DOMAIN ast' PROVE ast'[x].token < pos
          OBVIOUS
        <5>1. CASE x \notin {q, r}
          BY <1>5, <3>8, <5>1 DEF TokensOK
        <5>2. CASE x = q
          BY <1>5, <3>5, <3>8, <5>2 DEF TokensOK
        <5>3. CASE x = r
          BY <1>5, <3>2, <3>8, <5>3 DEF TokensOK
        <5> QED BY <5>1, <5>2, <5>3
      <4> QED BY <1>8, <3>8, <4>1
    <3> QED BY <2>1, <3>11, <3>12, <3>13 DEF c
  <2> QED BY <1>13, <2>1, <2>2, <2>3
<1> QED BY <1>10, <1>12, <1>14, <1>15 DEF Return
\* The tokens of the nodes stay those before the current one.
LEMMA TokensStay ==
  ASSUME NEW h \in Seq(Node), NEW g, DOMAIN g = DOMAIN h,
         \A x \in DOMAIN h : g[x].token = h[x].token, NEW p \in Nat, TokensOK(h, p)
  PROVE  TokensOK(g, p + 1)
<1> SUFFICES ASSUME NEW x \in DOMAIN h PROVE g[x].token < p + 1
  BY DEF TokensOK
<1>1. h[x].token \in Nat /\ h[x].token < p /\ g[x].token = h[x].token
  BY HeapFacts DEF TokensOK
<1> QED BY <1>1

\* An argument of a call is counted, and was linked.
LEMMA CountedNow ==
  ASSUME IInv, status = "parsing"
  PROVE  /\ Counted \in Seq(Node) /\ SameLinks(ast, Counted)
         /\ Counting(ast, Counted, Top.node) /\ Top.node \in DOMAIN ast
         /\ Counted[Top.node].nb_arguments = ast[Top.node].nb_arguments + 1
<1>1. ast \in Seq(Node)
  BY DEF IInv, TypeOK
<1>2. Top.node \in DOMAIN ast
  <2>1. PICK b \in Seq(Nat), dead \in SUBSET DOMAIN ast : Shape(b, dead, ast, stack)
    BY DEF IInv
  <2> QED BY <2>1, TopShape
<1>3. /\ Counted \in Seq(Node) /\ SameLinks(ast, Counted)
      /\ \A x \in DOMAIN ast : Counted[x].nb_arguments =
           IF x = Top.node THEN ast[x].nb_arguments + 1 ELSE ast[x].nb_arguments
  BY <1>1, <1>2, CountedFacts
<1> QED BY <1>2, <1>3 DEF Counting

LEMMA LastArgumentKeeps ==
  ASSUME IInv, ArgumentsInv, status = "parsing", Top.by = "argument", AtSeparator,
         LastArgument, stream' = stream, pos' = pos + 1
  PROVE  ArgumentsInv'
<1> DEFINE m == Len(stack)
           d == Front(stack)
           q == Top.node
           h == Counted
           ref == d[Len(d)].emplace
<1>1. /\ m \in Nat /\ m > 0 /\ DOMAIN stack = 1 .. m
      /\ Top = stack[m] /\ Top \in Frame /\ Len(ast) \in Nat /\ DOMAIN ast = 1 .. Len(ast)
      /\ d \in Seq(Frame) /\ Len(d) = m - 1 /\ DOMAIN d = 1 .. m - 1
      /\ \A j \in 1 .. m - 1 : d[j] = stack[j]
  BY Now, Zenon
<1>2. TypeOK /\ ast \in Seq(Node) /\ stack \in Seq(Frame) /\ pos \in Nat
  BY DEF IInv, TypeOK
<1>3. PICK b \in Seq(Nat), dead \in SUBSET DOMAIN ast : Shape(b, dead, ast, stack)
  BY DEF IInv
<1> SUFFICES ASSUME ~ EmptyArgument'
             PROVE  /\ CallsOK(Len(ast'), ast', stack') /\ TokensOK(ast', pos')
                    /\ AwaitedOK(stream', ast', stack', pos')
  BY DEF ArgumentsInv
<1>4. ~ EmptyArgument
  BY DEF EmptyArgument, Size
<1>5. /\ CallsOK(Len(ast), ast, stack) /\ TokensOK(ast, pos)
      /\ AwaitedOK(stream, ast, stack, pos)
  BY <1>4 DEF ArgumentsInv
<1>6. m > 1 /\ \A x \in DOMAIN ast, l \in Link : ast[x][l] # q
  <2>1. m > 1 /\ CallerOK(ast, b[m - 1], stack[m - 1], b[m], stack[m])
    BY <1>3, Under
  <2> QED BY <1>1, <2>1 DEF CallerOK
<1>7. stack' = d /\ ast' = Store(h, Last(d).emplace, q)
  BY Zenon DEF LastArgument
<1>8. PICK y \in DOMAIN ast : y = Held(ast, stack[m])
  BY <1>4, ArgumentRead
<1>9. /\ h \in Seq(Node) /\ SameLinks(ast, h) /\ Counting(ast, h, q) /\ q \in DOMAIN ast
      /\ h[q].nb_arguments = ast[q].nb_arguments + 1
  BY CountedNow
<1>10. /\ d # <<>> /\ Len(d) \in DOMAIN d /\ d[Len(d)] \in Frame /\ Last(d) = d[Len(d)]
       /\ d[Len(d)] = stack[m - 1]
  BY <1>1, <1>6 DEF Last
<1>11. PoppedFrom(stack, d) /\ Arg(stack[m]) /\ q = stack[m].node
  BY <1>1 DEF PoppedFrom, Alike, Arg
<1>12. ref \in Reference /\ ref.node \in DOMAIN h /\ ref.field \in Link
  <2>1. ref \in Reference /\ ref.field \in Link
    BY <1>10 DEF Frame, Reference, Link
  <2>2. m - 1 \in DOMAIN stack
    BY <1>1, <1>6
  <2>3. PlaceOK(b[m - 1], ast, d[Len(d)])
    BY <1>3, <1>10, <2>2 DEF Shape, BasesOK
  <2>4. ref.node \in DOMAIN ast
    BY <1>1, <2>3, SMTT(30) DEF PlaceOK
  <2> QED BY <1>9, <2>1, <2>4 DEF SameLinks
<1>13. ast' = Store(h, ref, q) /\ q \in Pointer
  BY <1>1, <1>7, <1>9, <1>10 DEF Pointer
<1> HIDE DEF h, d, q, ref
<1>14. /\ ast' \in Seq(Node) /\ Len(ast') = Len(h)
       /\ \A x \in DOMAIN h, f \in Link :
            ast'[x][f] = IF x = ref.node /\ f = ref.field THEN q ELSE h[x][f]
       /\ \A x \in DOMAIN h : /\ ast'[x].type = h[x].type /\ ast'[x].token = h[x].token
                              /\ ast'[x].nb_arguments = h[x].nb_arguments
  BY <1>9, <1>12, <1>13, StoreFacts
<1>15. DOMAIN ast' = DOMAIN h /\ DOMAIN h = DOMAIN ast /\ Len(h) = Len(ast)
  <2>1. DOMAIN ast' = 1 .. Len(ast') /\ DOMAIN h = 1 .. Len(h)
    BY <1>9, <1>14
  <2> QED BY <1>9, <1>14, <2>1 DEF SameLinks
<1>16. Attached(h, ast', ref, q)
  <2>1. \A x \in DOMAIN h, l \in Link :
           ast'[x][l] = IF Field(x, l) = ref THEN q ELSE h[x][l]
    <3>1. \A x \in DOMAIN h : x \in Nat
      BY <1>1, <1>15
    <3> QED BY <1>12, <1>14, <3>1, FieldFacts
  <2>2. \A x \in DOMAIN h, l \in Link : h[x][l] # q
    BY <1>6, <1>9, <1>15 DEF SameLinks, q
  <2> QED BY <1>14, <1>15, <2>1, <2>2 DEF Attached
<1>17. KeepsData(h, ast')
  BY <1>14 DEF KeepsData
<1>18. CallsOK(Len(ast'), ast', d)
  <2>1. d \in Seq(Frame) /\ Len(stack) > 1 /\ Arg(stack[Len(stack)])
        /\ q = stack[Len(stack)].node /\ y = Held(ast, stack[Len(stack)])
        /\ Attached(h, ast', d[Len(d)].emplace, q)
    BY <1>1, <1>6, <1>8, <1>11, <1>16 DEF ref
  <2> HIDE DEF m
  <2> QED BY <1>2, <1>5, <1>9, <1>11, <1>14, <1>17, <2>1, CallsLast
<1>19. TokensOK(ast', pos')
  <2>1. \A x \in DOMAIN ast : ast'[x].token = ast[x].token
    BY <1>9, <1>14, <1>15 DEF SameLinks
  <2> QED BY <1>2, <1>5, <1>15, <2>1, TokensStay
<1>20. ASSUME NEW k, Innermost(d, k) PROVE ~ (Held(ast', d[k]) <= 0)
  <2>1. k \in 1 .. m - 1 /\ k \in DOMAIN stack /\ d[k] = stack[k] /\ Arg(stack[k])
        /\ k \in DOMAIN d
    BY <1>1, <1>20, SMTT(30) DEF Innermost, d
  <2>2. PICK i : CallOpen(i, ast, stack, k)
    BY <1>5, <2>1 DEF CallsOK
  <2>3. stack[k].emplace \in Reference /\ stack[k].emplace.node \in DOMAIN ast
        /\ stack[k].emplace.field \in Link
    BY <1>2, <2>1, <2>2, OpenFacts, OpenPlace
  <2>4. Held(ast', d[k]) = IF stack[k].emplace = ref THEN q ELSE Held(ast, stack[k])
    <3>1. Field(stack[k].emplace.node, stack[k].emplace.field) = stack[k].emplace
      BY <2>3 DEF Field, Reference
    <3>2. h[stack[k].emplace.node][stack[k].emplace.field] = Held(ast, stack[k])
      BY <1>9, <2>3 DEF SameLinks, Held
    <3> QED BY <1>15, <1>16, <2>1, <2>3, <3>1, <3>2 DEF Attached, Held
  <2>5. Held(ast, stack[k]) \in Int
    BY <1>2, <2>1, <2>2, HeldIsInt
  <2>6. CASE Held(ast, stack[k]) <= 0
    <3>1. m - 1 \in DOMAIN stack /\ m - 1 \in k .. m
      BY <1>1, <1>6, <2>1
    <3>2. \A j \in k + 1 .. m - 1 : ~ Arg(stack[j])
      <4>1. \A j \in k + 1 .. m - 1 : j \in k + 1 .. Len(d) /\ j \in 1 .. m - 1
        BY <1>1, <2>1 DEF d
      <4>2. \A j \in 1 .. m - 1 : d[j] = stack[j]
        BY <1>1 DEF d
      <4> QED BY <1>20, <4>1, <4>2 DEF Innermost
    <3>3. Within(stack, k, m - 1)
      BY <3>1, <3>2 DEF Within
    <3>4. stack[m - 1].emplace = stack[k].emplace
      BY <2>2, <2>6, <3>1, <3>3 DEF CallOpen, OpenEmpty
    <3>5. ref = stack[k].emplace
      BY <1>10, <3>4 DEF ref, d
    <3>6. q \in Nat /\ q # 0
      BY <1>1, <1>9
    <3> QED BY <2>4, <3>5, <3>6
  <2>7. CASE ~ (Held(ast, stack[k]) <= 0)
    <3>1. q \in Nat /\ q # 0
      BY <1>1, <1>9
    <3> QED BY <2>4, <2>7, <3>1
  <2> QED BY <2>6, <2>7
<1>21. AwaitedOK(stream', ast', d, pos')
  BY <1>20 DEF AwaitedOK
<1> QED BY <1>7, <1>18, <1>19, <1>21, Zenon

LEMMA NextArgumentKeeps ==
  ASSUME IInv, ArgumentsInv, status = "parsing", Top.by = "argument", AtSeparator,
         NextArgument, stream' = stream, pos' = pos + 1
  PROVE  ArgumentsInv'
<1> DEFINE m == Len(stack)
           q == Top.node
           y == Argument
           f == Call(Field(y, "sibling"), Top.delims, "argument", q)
<1>1. /\ m \in Nat /\ m > 0 /\ DOMAIN stack = 1 .. m
      /\ Top = stack[m] /\ Top \in Frame /\ Len(ast) \in Nat /\ DOMAIN ast = 1 .. Len(ast)
      /\ Front(stack) \in Seq(Frame) /\ Len(Front(stack)) = m - 1
      /\ DOMAIN Front(stack) = 1 .. m - 1
      /\ \A j \in 1 .. m - 1 : Front(stack)[j] = stack[j]
  BY Now, Zenon
<1>2. TypeOK /\ ast \in Seq(Node) /\ stack \in Seq(Frame) /\ pos \in Nat
  BY DEF IInv, TypeOK
<1> SUFFICES ASSUME ~ EmptyArgument'
             PROVE  /\ CallsOK(Len(ast'), ast', stack') /\ TokensOK(ast', pos')
                    /\ AwaitedOK(stream', ast', stack', pos')
  BY DEF ArgumentsInv
<1>3. ~ EmptyArgument
  BY DEF EmptyArgument, Size
<1>4. /\ CallsOK(Len(ast), ast, stack) /\ TokensOK(ast, pos)
  BY <1>3 DEF ArgumentsInv
<1>5. y \in DOMAIN ast /\ y = Held(ast, stack[m])
  BY <1>3, ArgumentRead
<1>6. y \notin {Null, Uninitialized} /\ y \in Nat
  BY <1>1, <1>5 DEF Null, Uninitialized
<1>7. stack' = Append(Front(stack), f) /\ ast' = Counted
  BY <1>6, Zenon DEF NextArgument, Counted
<1>8. /\ ast' \in Seq(Node) /\ SameLinks(ast, ast') /\ Counting(ast, ast', q)
      /\ q \in DOMAIN ast /\ ast'[q].nb_arguments = ast[q].nb_arguments + 1
  BY <1>7, CountedNow, Zenon
<1>9. /\ f \in Frame /\ f.emplace = Field(y, "sibling") /\ f.previous = Null
      /\ f.by = "argument" /\ f.node = q
  <2>1. Field(y, "sibling") \in Reference
    BY <1>6, FieldFacts DEF Reference, Link, Field
  <2>2. Top.delims \in CallDelims
    BY <1>1, DelimsFacts, Zenon
  <2>3. "argument" \in CallBy /\ q \in Nat
    <3>1. Top.node \in Nat
      BY <1>1, Zenon DEF Frame
    <3> QED BY <3>1, Zenon DEF CallBy
  <2> DEFINE ref == Field(y, "sibling")
  <2>4. ref \in Reference
    BY <2>1
  <2> HIDE DEF y, q, ref
  <2>5. f = Call(ref, Top.delims, "argument", q)
    BY DEF ref
  <2> HIDE DEF f
  <2> QED BY <2>2, <2>3, <2>4, <2>5, CallFacts DEF ref
<1>10. Arg(stack[m]) /\ q = stack[m].node
  BY <1>1, Zenon DEF Arg
<1> HIDE DEF f, y
<1>11. Replaced(stack, stack', y) /\ stack' \in Seq(Frame)
  <2> DEFINE c == Front(stack)
  <2>1. /\ c \in Seq(Frame) /\ Len(c) = m - 1 /\ DOMAIN c = 1 .. m - 1
        /\ \A j \in 1 .. m - 1 : c[j] = stack[j]
    BY <1>1, Zenon
  <2> HIDE DEF c
  <2>2. /\ stack' \in Seq(Frame) /\ Len(stack') = Len(c) + 1 /\ DOMAIN stack' = 1 .. Len(c) + 1
        /\ stack'[Len(c) + 1] = f /\ \A j \in DOMAIN c : Alike(stack'[j], c[j])
    <3>1. stack' = Append(c, f)
      BY <1>7, Zenon DEF c
    <3> QED BY <1>9, <2>1, <3>1, FrameAppended, Zenon
  <2>3. Len(c) + 1 = m /\ DOMAIN c = 1 .. m - 1 /\ \A j \in 1 .. m : j = m \/ j \in 1 .. m - 1
    <3> HIDE DEF m
    <3> QED BY <1>1, <2>1
  <2>4. Len(stack') = m /\ DOMAIN stack' = 1 .. m /\ stack'[m] = f
        /\ \A j \in 1 .. m : j # m => Alike(stack'[j], stack[j])
    BY <2>1, <2>2, <2>3, Zenon
  <2>5. stack'[Len(stack')].node = stack[Len(stack)].node
    BY <1>9, <1>10, <2>4, Zenon
  <2> QED BY <1>9, <2>2, <2>4, <2>5, Zenon DEF Replaced
<1>12. CallsOK(Len(ast'), ast', stack')
  <2>1. /\ Len(stack) > 0 /\ Arg(stack[Len(stack)]) /\ q = stack[Len(stack)].node
        /\ y = Held(ast, stack[Len(stack)]) /\ y \in DOMAIN ast
    BY <1>1, <1>5, <1>10, Zenon DEF y
  <2> HIDE DEF m, q
  <2> QED BY <1>2, <1>4, <1>8, <1>11, <2>1, CallsNext, Zenon
<1>13. TokensOK(ast', pos')
  <2>1. DOMAIN ast' = DOMAIN ast /\ \A x \in DOMAIN ast : ast'[x].token = ast[x].token
    BY <1>8, Zenon DEF SameLinks
  <2> QED BY <1>2, <1>4, <2>1, TokensStay, Zenon
<1>14. Prompted(stream, pos + 1)
  <2>1. pos \in Nat /\ pos # 0
    BY <1>2 DEF TypeOK
  <2>2. pos + 1 > 1 /\ (pos + 1) - 1 = pos
    BY <2>1
  <2>3. "," # "eof"
    OBVIOUS
  <2>4. stream[pos] = ","
    BY <1>2, <2>3, CurrentFacts, Zenon DEF NextArgument
  <2> QED BY <2>2, <2>4, Zenon DEF Prompted
<1> QED BY <1>12, <1>13, <1>14, Zenon DEF AwaitedOK
LEMMA EndedKeeps ==
  ASSUME ArgumentsInv, UNCHANGED <<stream, pos, ast, stack>>
  PROVE  ArgumentsInv'
<1> SUFFICES ASSUME ~ EmptyArgument'
             PROVE  /\ CallsOK(Len(ast'), ast', stack') /\ TokensOK(ast', pos')
                    /\ AwaitedOK(stream', ast', stack', pos')
  BY DEF ArgumentsInv
<1>1. ~ EmptyArgument
  BY DEF EmptyArgument, Size
<1> QED BY <1>1 DEF ArgumentsInv

LEMMA InitArguments == Init => ArgumentsInv
<1> SUFFICES ASSUME Init PROVE ArgumentsInv
  OBVIOUS
<1> DEFINE n == NewNode("owner", 0)
<1>1. PICK d \in Delimiters :
         stack = <<Call(Field(Owner, "right"), d, "owner", Owner)>>
  BY DEF Init
<1> DEFINE f == Call(Field(Owner, "right"), d, "owner", Owner)
<1>2. f.by = "owner" /\ stack = <<f>>
  BY <1>1 DEF Call
<1>3. ast = <<n>> /\ pos = 1 /\ n.type = "owner" /\ n.token = 0
  BY DEF Init, NewNode
<1> HIDE DEF n, f
<1>4. DOMAIN stack = {1} /\ stack[1] = f
  BY <1>2
<1>5. DOMAIN ast = {1} /\ ast[1] = n /\ Len(ast) = 1
  BY <1>3
<1>6. \A k \in DOMAIN stack : ~ Arg(stack[k])
  BY <1>2, <1>4 DEF Arg
<1>7. CallsOK(Len(ast), ast, stack)
  <2>1. \A x \in 1 .. Len(ast) : ast[x].type # "call"
    BY <1>3, <1>5
  <2> QED BY <1>6, <2>1 DEF CallsOK
<1>8. TokensOK(ast, pos)
  BY <1>3, <1>5 DEF TokensOK
<1>9. AwaitedOK(stream, ast, stack, pos)
  BY <1>6 DEF AwaitedOK, Innermost
<1> QED BY <1>7, <1>8, <1>9 DEF ArgumentsInv

LEMMA EmplaceNode ==
  ASSUME IInv, status = "parsing"
  PROVE  /\ Top.emplace.node \in DOMAIN ast
         /\ Top.previous # Null => Top.previous \in DOMAIN ast /\ Top.previous \in Nat
<1>1. PICK b \in Seq(Nat), dead \in SUBSET DOMAIN ast : Shape(b, dead, ast, stack)
  BY DEF IInv
<1>2. /\ Len(stack) \in DOMAIN stack /\ Top = stack[Len(stack)]
      /\ Len(ast) \in Nat /\ DOMAIN ast = 1 .. Len(ast)
  BY Now
<1>3. PlaceOK(b[Len(stack)], ast, Top)
  BY <1>1, <1>2 DEF Shape, BasesOK
<1>4. b[Len(stack)] \in 1 .. Len(ast)
  BY <1>2, <1>3 DEF PlaceOK
<1> QED BY <1>2, <1>3, <1>4 DEF PlaceOK

LEMMA NextArguments == IInv /\ ArgumentsInv /\ [Next]_vars => ArgumentsInv'
<1> SUFFICES ASSUME IInv, ArgumentsInv, [Next]_vars PROVE ArgumentsInv'
  OBVIOUS
<1>0. TypeOK
  BY DEF IInv
<1>1. CASE ReadDelimiter
  BY <1>1, ReturnKeeps DEF ReadDelimiter
<1>2. CASE ReadCloseParenthesis
  <2>1. status = "parsing" /\ AtSeparator /\ Return /\ pos' = pos + 1 /\ stream' = stream
    BY <1>2, Zenon DEF ReadCloseParenthesis, Reading, AtSeparator
  <2> QED BY <2>1, ReturnKeeps
<1>3. CASE ReadEndOfArgument
  <2>1. /\ status = "parsing" /\ Top.by = "argument" /\ pos' = pos + 1 /\ stream' = stream
        /\ (LastArgument \/ NextArgument)
    BY <1>3, Zenon DEF ReadEndOfArgument
  <2>2. AtSeparator
    BY <2>1, Zenon DEF LastArgument, NextArgument, AtSeparator
  <2> QED BY <2>1, <2>2, LastArgumentKeeps, NextArgumentKeeps
<1>4. CASE ReachEndOfFile
  BY <1>4, EndedKeeps DEF ReachEndOfFile
<1>5. CASE ReadUnexpected
  <2>1. UNCHANGED <<stream, pos, ast, stack>>
    BY <1>5, Zenon DEF ReadUnexpected
  <2> QED BY <2>1, EndedKeeps
<1>6. CASE ReadOperand
  <2>1. /\ status = "parsing" /\ Current \in {"literal", "basic_type"}
        /\ Emplace(Current, Top.emplace)
    BY <1>6 DEF ReadOperand, Reading
  <2>2. Current \in NodeType /\ Current # "call"
    BY <2>1 DEF NodeType, Token
  <2>3. Top.emplace \in Reference
    BY <2>1, Now
  <2> QED BY <2>1, <2>2, <2>3, EmplaceNode, OperandKeeps
<1>7. CASE ReadIdentifier
  <2> DEFINE ref == IF IsBinaryOperator(ast, Top.previous)
                    THEN Field(Top.previous, "right") ELSE Top.emplace
  <2>1. status = "parsing" /\ Emplace("identifier", ref)
    BY <1>7, Zenon DEF ReadIdentifier, Reading
  <2>2. "identifier" \in NodeType /\ "identifier" # "call"
    BY Zenon DEF NodeType, Token
  <2>3. /\ ref \in Reference /\ ref.node \in DOMAIN ast
        /\ ref = Top.emplace \/ (Top.previous # Null /\ ref = Field(Top.previous, "right"))
    <3>1. Top.emplace \in Reference /\ Top.emplace.node \in DOMAIN ast
      BY <2>1, Now, EmplaceNode
    <3>2. ASSUME Top.previous # Null
          PROVE  /\ Field(Top.previous, "right") \in Reference
                 /\ Field(Top.previous, "right").node \in DOMAIN ast
      BY <2>1, <3>2, EmplaceNode DEF Field, Reference, Link
    <3> QED BY <3>1, <3>2 DEF IsBinaryOperator
  <2> HIDE DEF ref
  <2> QED BY <2>1, <2>2, <2>3, OperandKeeps
<1>8. CASE ReadFunctionCall
  BY <1>8, FunctionCallKeeps
<1>9. CASE ReadOpenParenthesis
  BY <1>9, ParenthesisKeeps
<1>10. CASE ReadBinaryOperator
  <2> DEFINE node == BinaryNode(Current, pos, Top.previous)
  <2>1. /\ status = "parsing" /\ Current \in BinaryOperator /\ Current # "eof"
        /\ Top.previous # Null /\ Operation(node, "binary")
    BY <1>10 DEF ReadBinaryOperator, Binary, Reading, BinaryOperator, BinaryNode
  <2>2. pos \in Nat /\ Top.previous \in Nat
    BY <1>0, <2>1, EmplaceNode DEF TypeOK
  <2>3. Current \in NodeType
    BY <1>0, CurrentFacts DEF NodeType
  <2>4. /\ node \in Node /\ node.type = Current /\ node.token = pos
        /\ \A l \in Link : node[l] = IF l = "left" THEN Top.previous ELSE Null
    BY <2>2, <2>3, BinaryNodeFacts
  <2> HIDE DEF node
  <2>5. /\ OnLeft(node, Top.previous) /\ node["sibling"] = Null
    BY <2>4 DEF OnLeft, Link, Null
  <2>6. node.type # "call"
    BY <2>1, <2>4 DEF BinaryOperator
  <2> QED BY <2>1, <2>4, <2>5, <2>6, OperatorKeeps
<1>11. CASE ReadUnaryOperator
  <2> DEFINE type == IF Current = "-" THEN "negative" ELSE "address_of"
             node == NewNode(type, pos)
  <2>1. status = "parsing" /\ Operation(node, "unary")
    BY <1>11 DEF ReadUnaryOperator, Unary, Reading
  <2>2. pos \in Nat
    BY <1>0 DEF TypeOK
  <2>3. type \in NodeType /\ type # "call"
    BY DEF NodeType
  <2> HIDE DEF type
  <2>4. /\ node \in Node /\ node.type = type /\ node.token = pos /\ \A l \in Link : node[l] = Null
    BY <2>2, <2>3, NewNodeFacts
  <2> HIDE DEF node
  <2>5. /\ OnLeft(node, Top.previous) /\ node["sibling"] = Null
    BY <2>4 DEF OnLeft, Link, Null
  <2> QED BY <2>1, <2>3, <2>4, <2>5, OperatorKeeps
<1>12. CASE OperatorAsserts
  BY <1>12, EndedKeeps DEF OperatorAsserts
<1>13. CASE UNCHANGED vars
  BY <1>13, EndedKeeps DEF vars
<1> QED BY <1>1, <1>2, <1>3, <1>4, <1>5, <1>6, <1>7, <1>8, <1>9, <1>10, <1>11,
           <1>12, <1>13, Zenon DEF Next

\* A call that has returned counts its arguments.
LEMMA ClosedIsLinked ==
  ASSUME ast \in Seq(Node), NEW n, NEW e, CallClosed(e, ast, stack, n)
  PROVE  \E arguments \in [1 .. ast[n].nb_arguments -> DOMAIN ast] :
           ArgumentsLinked(n, arguments)
<1> DEFINE m == ast[n].nb_arguments
<1>1. /\ n \in DOMAIN ast /\ m \in Nat /\ m > 0 /\ n \in Nat /\ e \in Nat /\ e <= Len(ast)
      /\ DOMAIN ast = 1 .. Len(ast) /\ Len(ast) \in Nat /\ n > 0
  <2>1. n \in DOMAIN ast /\ m > 0 /\ e \in Nat /\ e <= Len(ast)
    BY DEF CallClosed
  <2> QED BY <2>1, HeapFacts
<1>2. PICK a : Arguments(ast, n, e, a) /\ ast[a[m]]["sibling"] = Null
  BY DEF CallClosed
<1>3. /\ a \in [1 .. m -> n + 1 .. e] /\ ast[n]["right"] = a[1]
      /\ \A i \in 1 .. m - 1 : ast[a[i]]["sibling"] = a[i + 1]
      /\ \A i, j \in 1 .. m : i < j => ast[a[i]].token < ast[a[j]].token
  BY <1>1, <1>2 DEF Arguments
<1> HIDE DEF m
<1>4. \A v \in n + 1 .. e : v \in DOMAIN ast
  BY <1>1
<1>5. a \in [1 .. m -> DOMAIN ast] /\ DOMAIN a = 1 .. m
  BY <1>3, <1>4
<1>6. \A x \in DOMAIN ast : ast[x]["right"] = ast[x].right /\ ast[x]["sibling"] = ast[x].sibling
  BY FieldsOfANode
<1> DEFINE next(i) == IF i = 0 THEN ast[n].right ELSE ast[a[i]].sibling
<1>7. \A i \in DOMAIN a : a[i] = next(i - 1)
  <2> SUFFICES ASSUME NEW i \in 1 .. m PROVE a[i] = next(i - 1)
    BY <1>5
  <2>1. CASE i = 1
    BY <1>1, <1>3, <1>6, <2>1
  <2>2. CASE i # 1
    <3>1. i - 1 \in 1 .. m - 1 /\ i - 1 \in 1 .. m /\ i - 1 # 0 /\ (i - 1) + 1 = i
      BY <1>1, <2>2
    <3> QED BY <1>3, <1>5, <1>6, <3>1
  <2> QED BY <2>1, <2>2
<1>8. next(m) = Null
  <2>1. m \in 1 .. m /\ m # 0
    BY <1>1
  <2> QED BY <1>2, <1>5, <1>6, <2>1
<1> HIDE DEF next
<1>9. \A i, j \in DOMAIN a : i < j => ast[a[i]].token < ast[a[j]].token
  BY <1>3, <1>5
<1>10. ArgumentsLinked(n, a)
  BY <1>7, <1>8, <1>9 DEF ArgumentsLinked, next, m
<1> QED BY <1>5, <1>10 DEF m

\* A call that has returned has linked as many arguments as it counts, in the order
\* of their tokens, whatever the expressions and calls they are made of.
THEOREM ArgumentsAlwaysCounted == Spec => []ArgumentsCounted
<1>1. Init => IInv /\ ArgumentsInv
  BY InitIInv, InitArguments
<1>2. IInv /\ ArgumentsInv /\ [Next]_vars => (IInv /\ ArgumentsInv)'
  BY NextIInv, NextArguments
<1>3. IInv /\ ArgumentsInv => ArgumentsCounted
  <2> SUFFICES ASSUME IInv, ArgumentsInv, ~ EmptyArgument, NEW n \in DOMAIN ast,
                      ast[n].type = "call", \A k \in DOMAIN stack : stack[k].node # n
               PROVE  \E arguments \in [1 .. ast[n].nb_arguments -> DOMAIN ast] :
                        ArgumentsLinked(n, arguments)
    BY DEF ArgumentsCounted
  <2>1. ast \in Seq(Node) /\ n \in 1 .. Len(ast)
    BY DEF IInv, TypeOK
  <2>2. PICK e : CallClosed(e, ast, stack, n)
    BY <2>1 DEF ArgumentsInv, CallsOK, UnderWay
  <2> QED BY <2>1, <2>2, ClosedIsLinked
<1> QED BY <1>1, <1>2, <1>3, PTL DEF Spec
=============================================================================
