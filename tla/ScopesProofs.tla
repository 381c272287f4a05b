---------------------------- MODULE ScopesProofs ----------------------------
(***************************************************************************)
(* Proofs about the declaration parser: for any set of names and sources   *)
(* of any length, the symbol tables are a tree, scopes nest in it, no      *)
(* declaration is replaced, and each table has the symbols of its scope.   *)
(***************************************************************************)
EXTENDS Scopes, SequenceTheorems, WellFoundedInduction, TLAPS

\* What the stack c needs for its frames to return where they should, when all
\* are the tables, nodes the nodes, and cur the current table: the root scope
\* is at its bottom, frames work in nested tables, and an anonymous type is
\* below a function that waits for the end of a type.
FrameOK(f, all, nodes) == f.node \in DOMAIN nodes /\ f.table \in DOMAIN all
CallerOK(caller, f, all, nodes) ==
  /\ caller.table = IF f.proc \in InBody THEN all[f.table].parent ELSE f.table
  /\ f.proc \in {"struct", "union"} /\ nodes[f.node].name = NONE
       => caller.proc \in InType
CallsOK(c, all, nodes, cur) ==
  /\ c \in Seq(Frame) /\ c # <<>>
  /\ c[1].proc = "scope" /\ c[1].table = 1 /\ c[Len(c)].table = cur
  /\ \A i \in 1 .. Len(c) : FrameOK(c[i], all, nodes)
  /\ \A i \in 1 .. Len(c) - 1 : CallerOK(c[i], c[i + 1], all, nodes)

\* TablesAreATree, of any sequence of tables.
IsTree(all) ==
  \A t \in DOMAIN all :
    /\ all[t].parent < t
    /\ all[t].parent = Null <=> t = 1
    /\ all[t].first_child = LastOf({c \in DOMAIN all : all[c].parent = t})
    /\ t # 1 => all[t].sibling =
         LastOf({c \in DOMAIN all : c < t /\ all[c].parent = all[t].parent})

TablesOK(all) == all \in Seq(Table) /\ all # <<>> /\ IsTree(all)

IInv ==
  /\ nb_tokens \in 1 .. MaxTokens /\ tokens \in 0 .. nb_tokens
  /\ ast \in Seq(Node) /\ Len(ast) <= tokens + 1
  /\ TablesOK(tables) /\ Len(tables) <= tokens + 1
  /\ status \in {"parsing", "unwinding", "done", "error", "asserted",
                 "looping", "undefined"}
  /\ current \in DOMAIN tables
  /\ IF calls = <<>> THEN current = 1 /\ status = "done"
     ELSE CallsOK(calls, tables, ast, current)

\* What a step may do to the tables and to the nodes: add some, and bind names
\* that were not bound.
Grows(a, b) ==
  /\ Len(a) <= Len(b)
  /\ \A t \in DOMAIN a :
       /\ b[t].parent = a[t].parent
       /\ \A name \in Name :
            /\ a[t].user_types[name] # Null =>
                 b[t].user_types[name] = a[t].user_types[name]
            /\ a[t].functions[name] # Null =>
                 b[t].functions[name] = a[t].functions[name]
            /\ a[t].variables[name] # Null =>
                 b[t].variables[name] = a[t].variables[name]
NodesGrow(a, b) ==
  /\ Len(a) <= Len(b)
  /\ \A n \in DOMAIN a : b[n].name = a[n].name

-----------------------------------------------------------------------------
(* Sequences *)

LEMMA FrontProperties ==
  ASSUME NEW S, NEW s \in Seq(S), s # <<>>
  PROVE  /\ Len(s) \in Nat \ {0}
         /\ Front(s) \in Seq(S)
         /\ Len(Front(s)) = Len(s) - 1
         /\ \A i \in 1 .. Len(s) - 1 : Front(s)[i] = s[i]
         /\ Last(s) = s[Len(s)] /\ Last(s) \in S
<1>1. Len(s) \in Nat \ {0} /\ s[Len(s)] \in S
  BY EmptySeq, LenProperties, ElementOfSeq
<1>2. \A i \in 1 .. Len(s) - 1 : s[i] \in S
  BY <1>1, ElementOfSeq
<1>3. 1 \in Int /\ Len(s) - 1 \in Int
  BY <1>1
<1>4. /\ Front(s) \in Seq(S)
      /\ Len(Front(s)) = IF 1 <= Len(s) - 1 THEN Len(s) - 1 - 1 + 1 ELSE 0
      /\ \A i \in 1 .. Len(s) - 1 - 1 + 1 : Front(s)[i] = s[1 + i - 1]
  BY <1>2, <1>3, SubSeqProperties DEF Front
<1>5. \A i \in 1 .. Len(s) - 1 : Front(s)[i] = s[i]
  <2> TAKE i \in 1 .. Len(s) - 1
  <2>1. i \in 1 .. Len(s) - 1 - 1 + 1 /\ 1 + i - 1 = i
    BY <1>1
  <2> QED BY <1>4, <2>1
<1>6. Len(Front(s)) = Len(s) - 1
  <2> DEFINE n == Len(s)  m == Len(Front(s))
  <2>1. n \in Nat \ {0} /\ m = IF 1 <= n - 1 THEN n - 1 - 1 + 1 ELSE 0
    BY <1>1, <1>4
  <2> HIDE DEF n, m
  <2>2. m = n - 1
    BY <2>1
  <2> QED BY <2>2 DEF n, m
<1>7. Last(s) = s[Len(s)]
  BY DEF Last
<1> QED BY <1>1, <1>4, <1>5, <1>6, <1>7

-----------------------------------------------------------------------------
(* The stack *)

LEMMA CallsProperties ==
  ASSUME NEW c, NEW all, NEW nodes, NEW cur, CallsOK(c, all, nodes, cur)
  PROVE  /\ c \in Seq(Frame) /\ c # <<>> /\ Len(c) \in Nat \ {0}
         /\ Last(c) = c[Len(c)] /\ Last(c) \in Frame /\ Last(c).table = cur
         /\ FrameOK(Last(c), all, nodes)
         /\ cur \in DOMAIN all
         /\ Last(c).proc # "scope" => Len(c) > 1
<1>1. c \in Seq(Frame) /\ c # <<>>
  BY DEF CallsOK
<1>2. Len(c) \in Nat \ {0} /\ Last(c) = c[Len(c)] /\ Last(c) \in Frame
  BY <1>1, FrontProperties
<1>3. FrameOK(Last(c), all, nodes) /\ Last(c).table = cur
  BY <1>2 DEF CallsOK
<1>4. cur \in DOMAIN all
  BY <1>3 DEF FrameOK
<1>5. Last(c).proc # "scope" => Len(c) > 1
  BY <1>2 DEF CallsOK
<1> QED BY <1>1, <1>2, <1>3, <1>4, <1>5

\* Allocations do not disturb it.
LEMMA CallsGrow ==
  ASSUME NEW c, NEW all \in Seq(Table), NEW all2 \in Seq(Table), NEW nodes \in Seq(Node),
         NEW nodes2 \in Seq(Node), NEW cur,
         CallsOK(c, all, nodes, cur), Grows(all, all2), NodesGrow(nodes, nodes2)
  PROVE  CallsOK(c, all2, nodes2, cur)
<1>1. /\ DOMAIN all = 1 .. Len(all) /\ DOMAIN all2 = 1 .. Len(all2)
      /\ DOMAIN nodes = 1 .. Len(nodes) /\ DOMAIN nodes2 = 1 .. Len(nodes2)
      /\ Len(all) \in Nat /\ Len(all2) \in Nat
      /\ Len(nodes) \in Nat /\ Len(nodes2) \in Nat
  BY LenProperties
<1>2. DOMAIN all \subseteq DOMAIN all2 /\ DOMAIN nodes \subseteq DOMAIN nodes2
  BY <1>1 DEF Grows, NodesGrow
<1>3. Len(c) \in Nat \ {0}
  BY CallsProperties
<1>4. \A f : FrameOK(f, all, nodes) =>
        /\ FrameOK(f, all2, nodes2)
        /\ \A g : CallerOK(g, f, all, nodes) => CallerOK(g, f, all2, nodes2)
  BY <1>2 DEF FrameOK, CallerOK, Grows, NodesGrow
<1>5. \A i \in 1 .. Len(c) - 1 : i + 1 \in 1 .. Len(c)
  BY <1>3
<1> QED BY <1>4, <1>5 DEF CallsOK

\* A function is called.
LEMMA CallsPush ==
  ASSUME NEW c, NEW all, NEW nodes, NEW cur,
         CallsOK(c, all, nodes, cur),
         NEW f \in Frame, FrameOK(f, all, nodes), CallerOK(Last(c), f, all, nodes)
  PROVE  CallsOK(Append(c, f), all, nodes, f.table)
<1> DEFINE d == Append(c, f)
<1>1. c \in Seq(Frame) /\ Len(c) \in Nat \ {0} /\ Last(c) = c[Len(c)]
  BY CallsProperties
<1>2. /\ d \in Seq(Frame) /\ d # <<>> /\ Len(d) = Len(c) + 1
      /\ d[Len(c) + 1] = f
      /\ \A i \in 1 .. Len(c) : d[i] = c[i]
  BY <1>1, AppendProperties
<1> HIDE DEF d
<1>3. d[1] = c[1] /\ d[Len(d)] = f
  BY <1>1, <1>2
<1>4. \A i \in 1 .. Len(d) : FrameOK(d[i], all, nodes)
  BY <1>1, <1>2 DEF CallsOK
<1>5. \A i \in 1 .. Len(d) - 1 : CallerOK(d[i], d[i + 1], all, nodes)
  BY <1>1, <1>2 DEF CallsOK
<1>6. CallsOK(d, all, nodes, f.table)
  BY <1>2, <1>3, <1>4, <1>5 DEF CallsOK
<1> QED BY <1>6 DEF d

\* One that declares no scope works in its caller's table.
LEMMA CallsPushPlain ==
  ASSUME NEW c, NEW all, NEW nodes, NEW cur, CallsOK(c, all, nodes, cur),
         NEW proc, proc \notin InBody, NEW n \in DOMAIN nodes,
         CallIn(proc, n, cur) \in Frame
  PROVE  CallsOK(Append(c, CallIn(proc, n, cur)), all, nodes, cur)
<1> DEFINE f == CallIn(proc, n, cur)
<1>1. f.proc = proc /\ f.node = n /\ f.table = cur
  BY DEF CallIn
<1>2. cur \in DOMAIN all /\ Last(c).table = cur
  BY CallsProperties
<1>3. FrameOK(f, all, nodes) /\ CallerOK(Last(c), f, all, nodes)
  BY <1>1, <1>2 DEF FrameOK, CallerOK, InBody
<1> HIDE DEF f
<1> QED BY <1>1, <1>3, CallsPush DEF f

\* A scope is opened in a table whose parent is the current one.
LEMMA CallsPushBody ==
  ASSUME NEW c, NEW all, NEW nodes, NEW cur, CallsOK(c, all, nodes, cur),
         NEW proc \in InBody, NEW n \in DOMAIN nodes, NEW t \in DOMAIN all,
         CallIn(proc, n, t) \in Frame, all[t].parent = cur,
         proc # "scope" /\ nodes[n].name = NONE => Last(c).proc \in InType
  PROVE  CallsOK(Append(c, CallIn(proc, n, t)), all, nodes, t)
<1> DEFINE f == CallIn(proc, n, t)
<1>1. f.proc = proc /\ f.node = n /\ f.table = t
  BY DEF CallIn
<1>2. Last(c).table = cur
  BY CallsProperties
<1>3. FrameOK(f, all, nodes) /\ CallerOK(Last(c), f, all, nodes)
  BY <1>1, <1>2 DEF FrameOK, CallerOK, InBody
<1> HIDE DEF f
<1> QED BY <1>1, <1>3, CallsPush DEF f

\* A function returns: to the table it was called in, or to the parent of the
\* one it opened.
LEMMA CallsPop ==
  ASSUME NEW c, NEW all, NEW nodes, NEW cur, CallsOK(c, all, nodes, cur), Len(c) > 1
  PROVE  LET back == IF Last(c).proc \in InBody THEN all[cur].parent ELSE cur
         IN  CallsOK(Front(c), all, nodes, back) /\ back \in DOMAIN all
<1> DEFINE d == Front(c)
           back == IF Last(c).proc \in InBody THEN all[cur].parent ELSE cur
<1>1. c \in Seq(Frame) /\ c # <<>> /\ Last(c).table = cur
  BY CallsProperties
<1>2. /\ Len(c) \in Nat \ {0} /\ d \in Seq(Frame)
      /\ Len(d) = Len(c) - 1 /\ Last(c) = c[Len(c)]
      /\ \A i \in 1 .. Len(c) - 1 : d[i] = c[i]
  BY <1>1, FrontProperties
<1> HIDE DEF d
<1>3. CallerOK(c[Len(c) - 1], Last(c), all, nodes) /\ FrameOK(c[Len(c) - 1], all, nodes)
  BY <1>2 DEF CallsOK
<1>4. c[Len(c) - 1].table = back /\ back \in DOMAIN all
  BY <1>1, <1>3 DEF CallerOK, FrameOK
<1> HIDE DEF back
<1>5. d # <<>> /\ d[1] = c[1] /\ d[Len(d)].table = back
  BY <1>2, <1>4, EmptySeq
<1>6. \A i \in 1 .. Len(d) : FrameOK(d[i], all, nodes)
  BY <1>2 DEF CallsOK
<1>7. \A i \in 1 .. Len(d) - 1 : CallerOK(d[i], d[i + 1], all, nodes)
  BY <1>2 DEF CallsOK
<1>8. CallsOK(d, all, nodes, back)
  BY <1>2, <1>5, <1>6, <1>7 DEF CallsOK
<1> QED BY <1>4, <1>8 DEF d, back

\* A function goes on to its next phase.
LEMMA CallsBecome ==
  ASSUME NEW c, NEW all, NEW nodes, NEW cur,
         CallsOK(c, all, nodes, cur), Last(c).proc \notin InBody,
         NEW proc, proc \notin InBody, [Last(c) EXCEPT !.proc = proc] \in Frame
  PROVE  CallsOK([c EXCEPT ![Len(c)].proc = proc], all, nodes, cur)
<1> DEFINE d == [c EXCEPT ![Len(c)].proc = proc]  f == [Last(c) EXCEPT !.proc = proc]
<1>1. /\ c \in Seq(Frame) /\ Len(c) \in Nat \ {0} /\ Last(c) = c[Len(c)]
      /\ Last(c) \in Frame /\ FrameOK(Last(c), all, nodes) /\ Last(c).table = cur
      /\ Len(c) > 1
  BY CallsProperties DEF InBody
<1>2. d = [c EXCEPT ![Len(c)] = f]
  BY <1>1
<1>3. /\ d \in Seq(Frame) /\ Len(d) = Len(c) /\ d[Len(c)] = f
      /\ \A i \in 1 .. Len(c) - 1 : d[i] = c[i]
  BY <1>1, <1>2, ExceptSeq
<1>4. f.proc = proc /\ f.node = Last(c).node /\ f.table = Last(c).table
  BY <1>1 DEF Frame
<1>5. FrameOK(f, all, nodes)
  BY <1>1, <1>4 DEF FrameOK
<1>6. CallerOK(c[Len(c) - 1], f, all, nodes)
  <2>1. CallerOK(c[Len(c) - 1], Last(c), all, nodes)
    <3> HIDE DEF d, f
    <3>1. Len(c) - 1 \in 1 .. Len(c) - 1 /\ Len(c) - 1 + 1 = Len(c)
      BY <1>1
    <3>2. CallerOK(c[Len(c) - 1], c[Len(c) - 1 + 1], all, nodes)
      BY <3>1 DEF CallsOK
    <3> QED BY <1>1, <3>1, <3>2
  <2> QED BY <2>1, <1>4 DEF CallerOK, InBody
<1> HIDE DEF d, f
<1>7. d # <<>> /\ d[1] = c[1] /\ d[Len(d)].table = cur
  BY <1>1, <1>3, <1>4, EmptySeq
<1>8. \A i \in 1 .. Len(d) : FrameOK(d[i], all, nodes)
  BY <1>1, <1>3, <1>5 DEF CallsOK
<1>9. \A i \in 1 .. Len(d) - 1 : CallerOK(d[i], d[i + 1], all, nodes)
  <2> TAKE i \in 1 .. Len(d) - 1
  <2>1. i \in 1 .. Len(c) - 1 /\ d[i] = c[i] /\ CallerOK(c[i], c[i + 1], all, nodes)
    BY <1>3 DEF CallsOK
  <2>2. CASE i = Len(c) - 1
    <3>1. i + 1 = Len(c) /\ d[i + 1] = f
      BY <1>1, <1>3, <2>2
    <3> QED BY <1>6, <2>1, <2>2, <3>1
  <2>3. CASE i # Len(c) - 1
    <3>1. i + 1 \in 1 .. Len(c) - 1
      BY <1>1, <2>1, <2>3
    <3> QED BY <1>3, <2>1, <3>1
  <2> QED BY <2>2, <2>3
<1>10. CallsOK(d, all, nodes, cur)
  BY <1>3, <1>7, <1>8, <1>9 DEF CallsOK
<1> QED BY <1>10 DEF d

-----------------------------------------------------------------------------
(* The nodes *)

LEMMA NewNodeType ==
  ASSUME current \in Nat,
         NEW kind \in {"scope", "variable", "parameter", "function", "alias",
                       "struct", "union", "type", "type_modifier",
                       "expression", "call", "modifier"},
         NEW name \in Name \cup {NONE}
  PROVE  /\ NewNode(kind, name) \in Node /\ NewNode(kind, name).name = name
         /\ \A t \in Nat :
              LET n == [NewNode(kind, name) EXCEPT !.table = t]
              IN  n \in Node /\ n.name = name
<1>1. NewNode(kind, name) \in Node /\ NewNode(kind, name).name = name
  BY DEF NewNode, Node, Null
<1>2. ASSUME NEW t \in Nat
      PROVE  LET n == [NewNode(kind, name) EXCEPT !.table = t]
             IN  n \in Node /\ n.name = name
  BY DEF NewNode, Node, Null
<1> QED BY <1>1, <1>2

\* One node is allocated.
LEMMA AllocateOne ==
  ASSUME NEW s \in Seq(Node), NEW a \in Node
  PROVE  LET r == Append(s, a)
         IN  /\ r \in Seq(Node) /\ Len(r) = Len(s) + 1 /\ NodesGrow(s, r)
             /\ Len(s) + 1 \in DOMAIN r /\ r[Len(s) + 1] = a
<1> DEFINE r == Append(s, a)
<1>1. /\ r \in Seq(Node) /\ Len(r) = Len(s) + 1
      /\ \A i \in 1 .. Len(s) : r[i] = s[i]
      /\ r[Len(s) + 1] = a
  BY AppendProperties
<1> HIDE DEF r
<1>2. Len(s) \in Nat /\ DOMAIN s = 1 .. Len(s) /\ DOMAIN r = 1 .. Len(s) + 1
  BY <1>1, LenProperties
<1>3. NodesGrow(s, r) /\ Len(s) + 1 \in DOMAIN r
  BY <1>1, <1>2 DEF NodesGrow
<1> QED BY <1>1, <1>3 DEF r

\* Two nodes are allocated.
LEMMA AllocateTwo ==
  ASSUME NEW s \in Seq(Node), NEW a \in Node, NEW b \in Node
  PROVE  LET r == s \o <<a, b>>
         IN  r \in Seq(Node) /\ Len(r) = Len(s) + 2 /\ NodesGrow(s, r)
<1> DEFINE p == <<a, b>>  r == s \o p
<1>1. p \in Seq(Node) /\ Len(p) = 2
  OBVIOUS
<1> HIDE DEF p
<1>2. /\ r \in Seq(Node) /\ Len(r) = Len(s) + Len(p)
      /\ \A i \in 1 .. Len(s) + Len(p) :
           r[i] = IF i <= Len(s) THEN s[i] ELSE p[i - Len(s)]
  BY <1>1, ConcatProperties
<1> HIDE DEF r
<1>3. Len(s) \in Nat /\ DOMAIN s = 1 .. Len(s)
  BY LenProperties
<1>4. \A i \in 1 .. Len(s) : r[i] = s[i]
  BY <1>1, <1>2, <1>3
<1>5. NodesGrow(s, r)
  BY <1>1, <1>2, <1>3, <1>4 DEF NodesGrow
<1> QED BY <1>1, <1>2, <1>5 DEF r, p

\* The type of a node is set.
LEMMA TypeSet ==
  ASSUME ast \in Seq(Node), NEW n \in DOMAIN ast, NEW m \in Nat
  PROVE  /\ [ast EXCEPT ![n].type = m] \in Seq(Node)
         /\ Len([ast EXCEPT ![n].type = m]) = Len(ast)
         /\ NodesGrow(ast, [ast EXCEPT ![n].type = m])
<1> DEFINE a == [ast[n] EXCEPT !.type = m]  r == [ast EXCEPT ![n].type = m]
<1>1. Len(ast) \in Nat /\ DOMAIN ast = 1 .. Len(ast) /\ ast[n] \in Node
  BY LenProperties, ElementOfSeq
<1>2. a \in Node /\ a.name = ast[n].name
  BY <1>1 DEF Node
<1>3. r = [ast EXCEPT ![n] = a]
  OBVIOUS
<1> HIDE DEF a
<1>4. /\ r \in Seq(Node) /\ Len(r) = Len(ast)
      /\ \A i \in 1 .. Len(ast) : r[i] = IF i = n THEN a ELSE ast[i]
  BY <1>1, <1>2, <1>3, ExceptSeq
<1> HIDE DEF r
<1>5. NodesGrow(ast, r)
  BY <1>1, <1>2, <1>4 DEF NodesGrow
<1> QED BY <1>4, <1>5 DEF r

LEMMA FirstOfTypeSet ==
  ASSUME ast \in Seq(Node), NEW n \in DOMAIN ast, NEW m \in Nat
  PROVE  /\ FirstOfType(n, m) \in Seq(Node) /\ Len(FirstOfType(n, m)) = Len(ast)
         /\ NodesGrow(ast, FirstOfType(n, m))
<1> DEFINE k == IF ast[n].type = Null THEN m ELSE ast[n].type
<1>1. k \in Nat
  <2>1. n \in 1 .. Len(ast)
    BY LenProperties
  <2>2. ast[n] \in Node
    BY <2>1, ElementOfSeq
  <2> QED BY <2>2 DEF Node
<1>2. FirstOfType(n, m) = [ast EXCEPT ![n].type = k]
  BY DEF FirstOfType
<1> HIDE DEF k
<1>3. /\ [ast EXCEPT ![n].type = k] \in Seq(Node)
      /\ Len([ast EXCEPT ![n].type = k]) = Len(ast)
      /\ NodesGrow(ast, [ast EXCEPT ![n].type = k])
  BY <1>1, TypeSet
<1> QED BY <1>2, <1>3

LEMMA NodesGrowTransitive ==
  ASSUME NEW a \in Seq(Node), NEW b \in Seq(Node), NEW c \in Seq(Node),
         NodesGrow(a, b), NodesGrow(b, c)
  PROVE  NodesGrow(a, c)
<1>1. /\ Len(a) \in Nat /\ Len(b) \in Nat /\ Len(c) \in Nat
      /\ DOMAIN a = 1 .. Len(a) /\ DOMAIN b = 1 .. Len(b)
  BY LenProperties
<1> QED BY <1>1 DEF NodesGrow

LEMMA NodesGrowReflexive ==
  ASSUME NEW a \in Seq(Node) PROVE NodesGrow(a, a)
<1>1. Len(a) \in Nat
  BY LenProperties
<1> QED BY <1>1 DEF NodesGrow

-----------------------------------------------------------------------------
(* The tables *)

LEMMA LastOfIsMaximum ==
  ASSUME NEW S, S \subseteq Nat, NEW m \in S, \A u \in S : u <= m
  PROVE  LastOf(S) = m
<1>1. S # {}
  OBVIOUS
<1>2. \A t \in S : (\A u \in S : u <= t) => t = m
  OBVIOUS
<1>3. LastOf(S) \in S /\ \A u \in S : u <= LastOf(S)
  BY <1>1 DEF LastOf
<1> QED BY <1>2, <1>3

LEMMA TableFields ==
  ASSUME NEW all, TablesOK(all)
  PROVE  /\ all \in Seq(Table) /\ Len(all) \in Nat \ {0} /\ DOMAIN all = 1 .. Len(all)
         /\ \A t \in DOMAIN all :
              all[t] \in Table /\ all[t].parent \in Nat /\ all[t].first_child \in Nat
              /\ all[t].sibling \in Nat /\ all[t].parent < t
<1>1. all \in Seq(Table) /\ Len(all) \in Nat \ {0} /\ DOMAIN all = 1 .. Len(all)
  BY LenProperties, EmptySeq DEF TablesOK
<1>2. ASSUME NEW t \in DOMAIN all
      PROVE  all[t] \in Table /\ all[t].parent \in Nat /\ all[t].first_child \in Nat
             /\ all[t].sibling \in Nat /\ all[t].parent < t
  <2>1. all[t] \in Table
    BY <1>1, ElementOfSeq
  <2>2. all[t].parent < t
    BY DEF TablesOK, IsTree
  <2> QED BY <2>1, <2>2 DEF Table
<1> QED BY <1>1, <1>2

\* Declarations do not change the tree.
SameShape(a, b) ==
  /\ DOMAIN a = DOMAIN b
  /\ \A t \in DOMAIN a :
       /\ a[t].parent = b[t].parent
       /\ a[t].first_child = b[t].first_child
       /\ a[t].sibling = b[t].sibling

LEMMA SameShapeSameTree ==
  ASSUME NEW a, NEW b \in Seq(Table), TablesOK(a), SameShape(a, b)
  PROVE  TablesOK(b) /\ Len(b) = Len(a)
<1>1. Len(b) \in Nat /\ DOMAIN b = 1 .. Len(b) /\ Len(a) \in Nat \ {0}
      /\ DOMAIN a = 1 .. Len(a)
  BY TableFields, LenProperties
<1>2. Len(b) = Len(a)
  BY <1>1 DEF SameShape
<1>3. b # <<>>
  BY <1>1, <1>2
<1>4. ASSUME NEW t \in DOMAIN a
      PROVE  /\ {c \in DOMAIN a : a[c].parent = t} = {c \in DOMAIN b : b[c].parent = t}
             /\ {c \in DOMAIN a : c < t /\ a[c].parent = a[t].parent}
                  = {c \in DOMAIN b : c < t /\ b[c].parent = b[t].parent}
  BY DEF SameShape
<1>5. IsTree(b)
  <2> SUFFICES ASSUME NEW t \in DOMAIN a
               PROVE  /\ b[t].parent < t
                      /\ b[t].parent = Null <=> t = 1
                      /\ b[t].first_child = LastOf({c \in DOMAIN b : b[c].parent = t})
                      /\ t # 1 => b[t].sibling =
                           LastOf({c \in DOMAIN b : c < t /\ b[c].parent = b[t].parent})
    BY DEF IsTree, SameShape
  <2>1. /\ a[t].parent < t
        /\ a[t].parent = Null <=> t = 1
        /\ a[t].first_child = LastOf({c \in DOMAIN a : a[c].parent = t})
        /\ t # 1 => a[t].sibling =
             LastOf({c \in DOMAIN a : c < t /\ a[c].parent = a[t].parent})
    BY DEF TablesOK, IsTree
  <2>2. a[t].parent = b[t].parent /\ a[t].first_child = b[t].first_child
        /\ a[t].sibling = b[t].sibling
    BY DEF SameShape
  <2> QED BY <1>4, <2>1, <2>2
<1> QED BY <1>2, <1>3, <1>5 DEF TablesOK

LEMMA BoundKeeps ==
  ASSUME NEW map \in [Name -> Nat], NEW name, NEW node \in Nat
  PROVE  /\ Bound(map, name, node) \in [Name -> Nat]
         /\ \A n \in Name : map[n] # Null => Bound(map, name, node)[n] = map[n]
BY DEF Bound

LEMMA TableReplaced ==
  ASSUME NEW all, TablesOK(all), NEW t \in DOMAIN all, NEW new \in Table,
         new.parent = all[t].parent, new.first_child = all[t].first_child,
         new.sibling = all[t].sibling,
         \A name \in Name :
           /\ all[t].user_types[name] # Null => new.user_types[name] = all[t].user_types[name]
           /\ all[t].functions[name] # Null => new.functions[name] = all[t].functions[name]
           /\ all[t].variables[name] # Null => new.variables[name] = all[t].variables[name]
  PROVE  LET r == [all EXCEPT ![t] = new]
         IN  TablesOK(r) /\ Len(r) = Len(all) /\ Grows(all, r)
<1> DEFINE r == [all EXCEPT ![t] = new]
<1>1. all \in Seq(Table) /\ Len(all) \in Nat \ {0} /\ DOMAIN all = 1 .. Len(all)
  BY TableFields
<1>2. /\ r \in Seq(Table) /\ Len(r) = Len(all)
      /\ \A i \in 1 .. Len(all) : r[i] = IF i = t THEN new ELSE all[i]
  BY <1>1, ExceptSeq
<1> HIDE DEF r
<1>3. DOMAIN r = DOMAIN all
  BY <1>1, <1>2, LenProperties
<1>4. SameShape(all, r)
  BY <1>1, <1>2, <1>3 DEF SameShape
<1>5. Grows(all, r)
  BY <1>1, <1>2 DEF Grows
<1> QED BY <1>2, <1>4, <1>5, SameShapeSameTree DEF r

\* hash_table_insert, on each of the three hash tables.
LEMMA InsertKeeps ==
  ASSUME NEW all, TablesOK(all), NEW t \in DOMAIN all, NEW name, NEW node \in Nat
  PROVE  \A r \in {InsertVariable(all, t, name, node), InsertUserType(all, t, name, node),
                   InsertFunction(all, t, name, node)} :
           TablesOK(r) /\ Len(r) = Len(all) /\ Grows(all, r)
<1>1. all[t] \in Table
  BY TableFields
<1>2. /\ all[t].variables \in [Name -> Nat] /\ all[t].user_types \in [Name -> Nat]
      /\ all[t].functions \in [Name -> Nat]
  BY <1>1 DEF Table
<1>3. LET r == InsertVariable(all, t, name, node)
      IN  TablesOK(r) /\ Len(r) = Len(all) /\ Grows(all, r)
  <2> DEFINE map == Bound(all[t].variables, name, node)
             new == [all[t] EXCEPT !.variables = map]
  <2>1. map \in [Name -> Nat] /\ \A n \in Name : all[t].variables[n] # Null => map[n] = all[t].variables[n]
    BY <1>2, BoundKeeps
  <2>2. InsertVariable(all, t, name, node) = [all EXCEPT ![t] = new]
    BY DEF InsertVariable
  <2> HIDE DEF map
  <2>3. /\ new \in Table /\ new.parent = all[t].parent
        /\ new.first_child = all[t].first_child /\ new.sibling = all[t].sibling
        /\ new.user_types = all[t].user_types /\ new.functions = all[t].functions
        /\ new.variables = map
    BY <1>1, <2>1 DEF Table
  <2> HIDE DEF new
  <2>4. \A n \in Name :
          /\ all[t].user_types[n] # Null => new.user_types[n] = all[t].user_types[n]
          /\ all[t].functions[n] # Null => new.functions[n] = all[t].functions[n]
          /\ all[t].variables[n] # Null => new.variables[n] = all[t].variables[n]
    BY <2>1, <2>3
  <2>5. LET r == [all EXCEPT ![t] = new]
        IN  TablesOK(r) /\ Len(r) = Len(all) /\ Grows(all, r)
    BY <2>3, <2>4, TableReplaced
  <2> QED BY <2>2, <2>5
<1>4. LET r == InsertUserType(all, t, name, node)
      IN  TablesOK(r) /\ Len(r) = Len(all) /\ Grows(all, r)
  <2> DEFINE map == Bound(all[t].user_types, name, node)
             new == [all[t] EXCEPT !.user_types = map]
  <2>1. map \in [Name -> Nat] /\ \A n \in Name : all[t].user_types[n] # Null => map[n] = all[t].user_types[n]
    BY <1>2, BoundKeeps
  <2>2. InsertUserType(all, t, name, node) = [all EXCEPT ![t] = new]
    BY DEF InsertUserType
  <2> HIDE DEF map
  <2>3. /\ new \in Table /\ new.parent = all[t].parent
        /\ new.first_child = all[t].first_child /\ new.sibling = all[t].sibling
        /\ new.user_types = map /\ new.functions = all[t].functions
        /\ new.variables = all[t].variables
    BY <1>1, <2>1 DEF Table
  <2> HIDE DEF new
  <2>4. \A n \in Name :
          /\ all[t].user_types[n] # Null => new.user_types[n] = all[t].user_types[n]
          /\ all[t].functions[n] # Null => new.functions[n] = all[t].functions[n]
          /\ all[t].variables[n] # Null => new.variables[n] = all[t].variables[n]
    BY <2>1, <2>3
  <2>5. LET r == [all EXCEPT ![t] = new]
        IN  TablesOK(r) /\ Len(r) = Len(all) /\ Grows(all, r)
    BY <2>3, <2>4, TableReplaced
  <2> QED BY <2>2, <2>5
<1>5. LET r == InsertFunction(all, t, name, node)
      IN  TablesOK(r) /\ Len(r) = Len(all) /\ Grows(all, r)
  <2> DEFINE map == Bound(all[t].functions, name, node)
             new == [all[t] EXCEPT !.functions = map]
  <2>1. map \in [Name -> Nat] /\ \A n \in Name : all[t].functions[n] # Null => map[n] = all[t].functions[n]
    BY <1>2, BoundKeeps
  <2>2. InsertFunction(all, t, name, node) = [all EXCEPT ![t] = new]
    BY DEF InsertFunction
  <2> HIDE DEF map
  <2>3. /\ new \in Table /\ new.parent = all[t].parent
        /\ new.first_child = all[t].first_child /\ new.sibling = all[t].sibling
        /\ new.user_types = all[t].user_types /\ new.functions = map
        /\ new.variables = all[t].variables
    BY <1>1, <2>1 DEF Table
  <2> HIDE DEF new
  <2>4. \A n \in Name :
          /\ all[t].user_types[n] # Null => new.user_types[n] = all[t].user_types[n]
          /\ all[t].functions[n] # Null => new.functions[n] = all[t].functions[n]
          /\ all[t].variables[n] # Null => new.variables[n] = all[t].variables[n]
    BY <2>1, <2>3
  <2>5. LET r == [all EXCEPT ![t] = new]
        IN  TablesOK(r) /\ Len(r) = Len(all) /\ Grows(all, r)
    BY <2>3, <2>4, TableReplaced
  <2> QED BY <2>2, <2>5
<1> QED BY <1>3, <1>4, <1>5

\* push_new_symbol_table.
LEMMA PushedKeeps ==
  ASSUME NEW all, TablesOK(all), current \in DOMAIN all,
         NEW type \in {"module", "function", "struct", "union", "scope"}, NEW name \in Nat
  PROVE  LET r == Pushed(all, type, name)
         IN  /\ TablesOK(r) /\ Len(r) = Len(all) + 1 /\ Grows(all, r)
             /\ r[Len(r)].parent = current
<1> DEFINE N == Len(all)
           old == [all[current] EXCEPT !.first_child = N + 1]
           new == NewTable(type, name, current, all[current].first_child)
           m == [all EXCEPT ![current] = old]
           r == Append(m, new)
<1>1. /\ all \in Seq(Table) /\ N \in Nat \ {0} /\ DOMAIN all = 1 .. N
      /\ \A t \in 1 .. N :
           all[t] \in Table /\ all[t].parent \in Nat /\ all[t].first_child \in Nat
           /\ all[t].sibling \in Nat /\ all[t].parent < t
  BY TableFields
<1>2. Pushed(all, type, name) = r
  BY DEF Pushed
<1>3. /\ old \in Table /\ old.parent = all[current].parent /\ old.first_child = N + 1
      /\ old.sibling = all[current].sibling /\ old.user_types = all[current].user_types
      /\ old.functions = all[current].functions /\ old.variables = all[current].variables
  <2>1. all[current] \in Table /\ N + 1 \in Nat
    BY <1>1
  <2> HIDE DEF N
  <2> QED BY <2>1 DEF Table
<1>4. /\ new \in Table /\ new.parent = current /\ new.first_child = Null
      /\ new.sibling = all[current].first_child
  <2>1. NoSymbol \in [Name -> Nat] /\ Null \in Nat
    BY DEF NoSymbol, Null
  <2> QED BY <1>1, <2>1 DEF NewTable, Table
<1> HIDE DEF old, new
<1>5. /\ m \in Seq(Table) /\ Len(m) = N
      /\ \A i \in 1 .. N : m[i] = IF i = current THEN old ELSE all[i]
  BY <1>1, <1>3, ExceptSeq
<1> HIDE DEF m
<1>6. /\ r \in Seq(Table) /\ r # <<>> /\ Len(r) = N + 1
      /\ \A i \in 1 .. N : r[i] = IF i = current THEN old ELSE all[i]
      /\ r[N + 1] = new
  BY <1>4, <1>5, AppendProperties
<1>7. DOMAIN r = 1 .. N + 1
  BY <1>6, LenProperties
<1> HIDE DEF r
<1>8. /\ \A i \in 1 .. N : r[i].parent = all[i].parent /\ r[i].sibling = all[i].sibling
      /\ \A i \in 1 .. N :
           r[i].first_child = IF i = current THEN N + 1 ELSE all[i].first_child
      /\ r[N + 1].parent = current /\ r[N + 1].first_child = Null
      /\ r[N + 1].sibling = all[current].first_child
  BY <1>3, <1>4, <1>6
<1>9. Grows(all, r)
  BY <1>1, <1>3, <1>6, <1>8 DEF Grows
<1>10. \A t \in 1 .. N :
         /\ all[t].parent = Null <=> t = 1
         /\ all[t].first_child = LastOf({c \in 1 .. N : all[c].parent = t})
         /\ t # 1 => all[t].sibling =
              LastOf({c \in 1 .. N : c < t /\ all[c].parent = all[t].parent})
  BY <1>1 DEF TablesOK, IsTree
<1>11. /\ \A i \in 1 .. N + 1 : i # N + 1 => i \in 1 .. N
       /\ current \in 1 .. N /\ 1 \in 1 .. N /\ 1 # N + 1 /\ N + 1 \in 1 .. N + 1
       /\ \A i \in 1 .. N : i \in 1 .. N + 1 /\ i # N + 1
  BY <1>1
<1>12. ASSUME NEW t \in 1 .. N
       PROVE  /\ r[t].parent < t
              /\ r[t].parent = Null <=> t = 1
              /\ t # 1 => r[t].sibling =
                   LastOf({c \in 1 .. N + 1 : c < t /\ r[c].parent = r[t].parent})
  <2>1. {c \in 1 .. N + 1 : c < t /\ r[c].parent = r[t].parent}
          = {c \in 1 .. N : c < t /\ all[c].parent = all[t].parent}
    <3>1. \A c \in 1 .. N + 1 : c < t => c \in 1 .. N
      BY <1>1
    <3> QED BY <1>8, <1>11, <3>1
  <2> QED BY <1>1, <1>8, <1>10, <2>1, ZenonT(40)
<1>13. ASSUME NEW t \in 1 .. N
       PROVE  r[t].first_child = LastOf({c \in 1 .. N + 1 : r[c].parent = t})
  <2>1. CASE t = current
    <3> DEFINE S == {c \in 1 .. N + 1 : r[c].parent = t}
    <3>1. S \subseteq Nat /\ N + 1 \in S /\ \A u \in S : u <= N + 1
      BY <1>1, <1>8, <1>11, <2>1
    <3> HIDE DEF S
    <3>2. LastOf(S) = N + 1
      BY <3>1, LastOfIsMaximum
    <3> QED BY <1>8, <2>1, <3>2 DEF S
  <2>2. CASE t # current
    <3>1. {c \in 1 .. N + 1 : r[c].parent = t} = {c \in 1 .. N : all[c].parent = t}
      BY <1>8, <1>11, <2>2
    <3> QED BY <1>8, <1>10, <2>2, <3>1
  <2> QED BY <2>1, <2>2
<1>14. r[N + 1].first_child = LastOf({c \in 1 .. N + 1 : r[c].parent = N + 1})
  <2>1. \A c \in 1 .. N : all[c].parent # N + 1
    BY <1>1
  <2>2. current # N + 1
    BY <1>11
  <2>3. {c \in 1 .. N + 1 : r[c].parent = N + 1} = {}
    BY <1>8, <1>11, <2>1, <2>2
  <2>4. LastOf({}) = Null
    BY DEF LastOf
  <2> QED BY <1>8, <2>3, <2>4
<1>15. r[N + 1].sibling =
         LastOf({c \in 1 .. N + 1 : c < N + 1 /\ r[c].parent = r[N + 1].parent})
  <2>1. \A c \in 1 .. N + 1 : c < N + 1 <=> c \in 1 .. N
    BY <1>1
  <2>2. {c \in 1 .. N + 1 : c < N + 1 /\ r[c].parent = r[N + 1].parent}
          = {c \in 1 .. N : all[c].parent = current}
    BY <1>8, <1>11, <2>1
  <2> QED BY <1>8, <1>10, <1>11, <2>2, ZenonT(40)
<1>16. r[N + 1].parent < N + 1 /\ r[N + 1].parent # Null
  BY <1>1, <1>8, <1>11 DEF Null
<1>17. IsTree(r)
  <2> SUFFICES ASSUME NEW t \in 1 .. N + 1
               PROVE  /\ r[t].parent < t
                      /\ r[t].parent = Null <=> t = 1
                      /\ r[t].first_child = LastOf({c \in 1 .. N + 1 : r[c].parent = t})
                      /\ t # 1 => r[t].sibling =
                           LastOf({c \in 1 .. N + 1 : c < t /\ r[c].parent = r[t].parent})
    BY <1>7 DEF IsTree
  <2>1. CASE t = N + 1
    BY <1>11, <1>14, <1>15, <1>16, <2>1
  <2>2. CASE t # N + 1
    BY <1>11, <1>12, <1>13, <2>2
  <2> QED BY <2>1, <2>2
<1>18. TablesOK(r)
  BY <1>6, <1>17 DEF TablesOK
<1> QED BY <1>2, <1>6, <1>8, <1>9, <1>18

LEMMA GrowsTransitive ==
  ASSUME NEW a, NEW b, NEW c, TablesOK(a), TablesOK(b), TablesOK(c), Grows(a, b), Grows(b, c)
  PROVE  Grows(a, c)
<1>1. /\ Len(a) \in Nat /\ Len(b) \in Nat /\ Len(c) \in Nat
      /\ DOMAIN a = 1 .. Len(a) /\ DOMAIN b = 1 .. Len(b)
  BY TableFields
<1>2. \A t \in DOMAIN a : t \in DOMAIN b
  BY <1>1 DEF Grows
<1>3. Len(a) <= Len(c)
  BY <1>1 DEF Grows
<1>4. ASSUME NEW t \in DOMAIN a
      PROVE  /\ c[t].parent = a[t].parent
             /\ \A name \in Name :
                  /\ a[t].user_types[name] # Null =>
                       c[t].user_types[name] = a[t].user_types[name]
                  /\ a[t].functions[name] # Null =>
                       c[t].functions[name] = a[t].functions[name]
                  /\ a[t].variables[name] # Null =>
                       c[t].variables[name] = a[t].variables[name]
  <2>1. t \in DOMAIN b
    BY <1>2
  <2>2. c[t].parent = a[t].parent
    BY <2>1 DEF Grows
  <2>3. ASSUME NEW name \in Name
        PROVE  /\ a[t].user_types[name] # Null =>
                    c[t].user_types[name] = a[t].user_types[name]
               /\ a[t].functions[name] # Null =>
                    c[t].functions[name] = a[t].functions[name]
               /\ a[t].variables[name] # Null =>
                    c[t].variables[name] = a[t].variables[name]
    <3>1. /\ a[t].user_types[name] # Null =>
               b[t].user_types[name] = a[t].user_types[name]
          /\ a[t].functions[name] # Null =>
               b[t].functions[name] = a[t].functions[name]
          /\ a[t].variables[name] # Null =>
               b[t].variables[name] = a[t].variables[name]
      BY DEF Grows
    <3>2. /\ b[t].user_types[name] # Null =>
               c[t].user_types[name] = b[t].user_types[name]
          /\ b[t].functions[name] # Null =>
               c[t].functions[name] = b[t].functions[name]
          /\ b[t].variables[name] # Null =>
               c[t].variables[name] = b[t].variables[name]
      BY <2>1 DEF Grows
    <3> QED BY <3>1, <3>2
  <2> QED BY <2>2, <2>3
<1> QED BY <1>3, <1>4 DEF Grows

LEMMA GrowsReflexive ==
  ASSUME NEW a, TablesOK(a) PROVE Grows(a, a)
<1>1. Len(a) \in Nat
  BY TableFields
<1> QED BY <1>1 DEF Grows

LEMMA LessIsWellFounded ==
  \A m, n \in Nat : n < m => <<n, m>> \in OpToRel(<, Nat)
BY DEF OpToRel

LEMMA MinimumExists ==
  ASSUME NEW S, S \subseteq Nat, S # {}
  PROVE  \E m \in S : \A n \in S : m <= n
<1> DEFINE R == OpToRel(<, Nat)
<1>1. PICK m \in S : \A n \in S : <<n, m>> \notin R
  BY NatLessThanWellFounded, WFMin
<1>2. \A n \in S : ~ (n < m)
  BY <1>1, LessIsWellFounded, Zenon
<1>3. \A n \in S : m <= n
  BY <1>2
<1> QED BY <1>3

LEMMA FirstNamedType ==
  ASSUME NEW nodes, nodes \subseteq Nat, NEW name
  PROVE  FirstNamed(nodes, name) \in Nat
<1> DEFINE same == {n \in nodes : ast[n].name = name}
<1>1. CASE same = {}
  BY <1>1 DEF FirstNamed, Null
<1>2. CASE same # {}
  <2>1. \E n \in same : \A m \in same : n <= m
    BY <1>2, MinimumExists
  <2>2. FirstNamed(nodes, name) = CHOOSE n \in same : \A m \in same : n <= m
    BY <1>2 DEF FirstNamed
  <2> QED BY <2>1, <2>2
<1> QED BY <1>1, <1>2

\* A function's table, with its parameters.
LEMMA WithParametersKeeps ==
  ASSUME TablesOK(tables), current \in DOMAIN tables, ast \in Seq(Node),
         NEW f \in DOMAIN ast
  PROVE  LET r == WithParameters(f)
         IN  /\ TablesOK(r) /\ Len(r) = Len(tables) + 1 /\ Grows(tables, r)
             /\ r[Len(r)].parent = current
<1> DEFINE i == InsertFunction(tables, current, ast[f].name, f)
           p == Pushed(i, "function", f)
           V == [n \in Name |-> FirstNamed(ParametersOf(f), n)]
           new == [p[Len(p)] EXCEPT !.variables = V]
           r == [p EXCEPT ![Len(p)] = new]
<1>1. f \in Nat /\ DOMAIN ast \subseteq Nat
  BY LenProperties
<1>2. WithParameters(f) = r
  BY DEF WithParameters
<1>3. V \in [Name -> Nat]
  <2>1. ParametersOf(f) \subseteq Nat
    BY <1>1 DEF ParametersOf
  <2> QED BY <2>1, FirstNamedType
<1> HIDE DEF V
<1>4. TablesOK(i) /\ Len(i) = Len(tables) /\ Grows(tables, i)
  BY <1>1, InsertKeeps
<1> HIDE DEF i
<1>5. current \in DOMAIN i
  BY <1>4, TableFields
<1>6. TablesOK(p) /\ Len(p) = Len(i) + 1 /\ Grows(i, p) /\ p[Len(p)].parent = current
  BY <1>1, <1>4, <1>5, PushedKeeps
<1> HIDE DEF p
<1>7. /\ p \in Seq(Table) /\ Len(p) \in Nat \ {0} /\ DOMAIN p = 1 .. Len(p)
      /\ p[Len(p)] \in Table
      /\ Len(tables) \in Nat \ {0} /\ DOMAIN tables = 1 .. Len(tables)
  BY <1>6, TableFields
<1>8. /\ new \in Table /\ new.parent = p[Len(p)].parent
      /\ new.first_child = p[Len(p)].first_child /\ new.sibling = p[Len(p)].sibling
  BY <1>3, <1>7 DEF Table
<1> HIDE DEF new
<1>9. /\ r \in Seq(Table) /\ Len(r) = Len(p)
      /\ \A t \in 1 .. Len(p) : r[t] = IF t = Len(p) THEN new ELSE p[t]
  BY <1>7, <1>8, ExceptSeq
<1> HIDE DEF r
<1>10. DOMAIN r = 1 .. Len(p)
  BY <1>9, LenProperties
<1>11. SameShape(p, r)
  BY <1>7, <1>8, <1>9, <1>10 DEF SameShape
<1>12. TablesOK(r)
  BY <1>6, <1>9, <1>11, SameShapeSameTree
<1>13. Grows(tables, r)
  <2>1. Grows(tables, p)
    BY <1>4, <1>6, GrowsTransitive
  <2>2. Len(p) = Len(tables) + 1
    BY <1>4, <1>6
  <2>3. \A t \in DOMAIN tables : r[t] = p[t]
    BY <1>7, <1>9, <2>2
  <2>4. Len(tables) <= Len(r)
    BY <1>7, <1>9, <2>2
  <2> QED BY <2>1, <2>3, <2>4 DEF Grows
<1>14. r[Len(r)].parent = current
  BY <1>6, <1>7, <1>8, <1>9
<1> QED BY <1>2, <1>4, <1>6, <1>9, <1>12, <1>13, <1>14

-----------------------------------------------------------------------------
(* The state *)

LEMMA StateFacts ==
  ASSUME IInv, status # "done"
  PROVE  /\ CallsOK(calls, tables, ast, current) /\ TablesOK(tables)
         /\ calls \in Seq(Frame) /\ calls # <<>> /\ Len(calls) \in Nat \ {0}
         /\ Top = calls[Len(calls)] /\ Top \in Frame /\ Top.table = current
         /\ Top.node \in DOMAIN ast /\ Top.node \in Nat
         /\ Top.proc # "scope" => Len(calls) > 1
         /\ ast \in Seq(Node) /\ Len(ast) \in Nat /\ Fresh = Len(ast) + 1
         /\ ast[Top.node].name \in Name \cup {NONE}
         /\ Len(tables) \in Nat \ {0} /\ tokens \in Nat
         /\ current \in DOMAIN tables /\ current \in Nat
         /\ Len(ast) <= tokens + 1 /\ Len(tables) <= tokens + 1
<1>1. /\ calls # <<>> /\ CallsOK(calls, tables, ast, current) /\ TablesOK(tables)
      /\ ast \in Seq(Node) /\ Len(ast) <= tokens + 1 /\ Len(tables) <= tokens + 1
      /\ current \in DOMAIN tables /\ tokens \in Nat
  BY TokensAssumption DEF IInv
<1>2. /\ calls \in Seq(Frame) /\ Len(calls) \in Nat \ {0}
      /\ Top = calls[Len(calls)] /\ Top \in Frame /\ Top.table = current
      /\ FrameOK(Top, tables, ast)
      /\ Top.proc # "scope" => Len(calls) > 1
  BY <1>1, CallsProperties DEF Top
<1>3. /\ Len(ast) \in Nat /\ DOMAIN ast = 1 .. Len(ast)
      /\ Len(tables) \in Nat \ {0} /\ DOMAIN tables = 1 .. Len(tables)
  BY <1>1, LenProperties, TableFields
<1>4. Top.node \in 1 .. Len(ast)
  BY <1>2, <1>3 DEF FrameOK
<1>5. ast[Top.node] \in Node
  BY <1>1, <1>4, ElementOfSeq
<1>6. ast[Top.node].name \in Name \cup {NONE}
  BY <1>5 DEF Node
<1>7. Top.node \in Nat /\ current \in Nat /\ Fresh = Len(ast) + 1
  BY <1>1, <1>3, <1>4 DEF Fresh
<1> QED BY <1>1, <1>2, <1>3, <1>4, <1>6, <1>7

\* The file is what it was, and is not read past its end.
FileStays == nb_tokens' = nb_tokens /\ tokens' \in 0 .. nb_tokens /\ tokens <= tokens'

LEMMA FileKeeps ==
  ASSUME IInv, Next
  PROVE  FileStays
<1>1. nb_tokens \in Nat /\ tokens \in 0 .. nb_tokens
  BY TokensAssumption DEF IInv
<1>2. ASSUME NEW n \in 0 .. 5, Read(n) PROVE FileStays
  BY <1>1, <1>2 DEF Read, FileStays
<1>3. CASE EndOfFile \/ Failure
  BY <1>1, <1>3 DEF EndOfFile, Failure, ReportError, NotImplemented, NoBranch,
     EndOfFileInDeclaration, TablesMoved, FileStays
<1>4. CASE Statement \/ CloseBrace
  <2>1. CASE CloseBrace \/ NestedScope \/ StrayIdentifier
    <3>1. Read(1)
      BY <2>1 DEF CloseBrace, NestedScope, StrayIdentifier
    <3> QED BY <1>2, <3>1
  <2>2. CASE parse_function_call
    <3>1. Read(3) \/ Read(4) \/ Read(5)
      BY <2>2 DEF parse_function_call, ReadLast
    <3> QED BY <1>2, <3>1
  <2>3. ASSUME NEW name \in Name,
               \/ parse_alias(name) \/ parse_function(name) \/ parse_variable(name)
               \/ \E proc \in {"struct", "union"} : parse_struct(name, proc)
        PROVE  FileStays
    <3>1. Read(2) \/ Read(3) \/ Read(4)
      BY <2>3 DEF parse_alias, parse_function, parse_variable, parse_struct
    <3> QED BY <1>2, <3>1
  <2> QED BY <1>4, <2>1, <2>2, <2>3 DEF Statement, Member
<1>5. CASE Type \/ Variable
  <2>1. \E n \in 0 .. 5 : Read(n)
    BY <1>5 DEF Type, TypeModifier, EndOfType, AnonymousType, Variable, EndOfVariable,
                InitializedVariable, EndOfParameter
  <2> QED BY <1>2, <2>1
<1>6. CASE Function
  <2>1. \E n \in 0 .. 5 : Read(n)
    BY <1>6 DEF Function, Parameter, EndOfParameters, BeginModifiers, Modifier,
                EndOfDeclaration, OpenBody
  <2> QED BY <1>2, <2>1
<1> QED BY <1>3, <1>4, <1>5, <1>6 DEF Next

\* What a step has to establish for the invariant.
LEMMA IInvFromCalls ==
  ASSUME IInv, FileStays, ast' \in Seq(Node), Len(ast') <= tokens' + 1,
         TablesOK(tables'), Len(tables') <= tokens' + 1,
         status' \in {"parsing", "unwinding", "error", "looping"},
         CallsOK(calls', tables', ast', current')
  PROVE  IInv'
<1>1. current' \in DOMAIN tables' /\ calls' # <<>>
  BY CallsProperties
<1> QED BY <1>1 DEF IInv, FileStays

\* A scope is entered, from the stack c.
LEMMA ScopeEntered ==
  ASSUME TablesOK(tables), ast \in Seq(Node),
         NEW c, CallsOK(c, tables, ast, current),
         NEW nodes \in Seq(Node), NodesGrow(ast, nodes),
         NEW all, TablesOK(all), Grows(tables, all), all[Len(all)].parent = current,
         NEW proc \in InBody, NEW n \in DOMAIN nodes,
         proc # "scope" /\ nodes[n].name = NONE => Last(c).proc \in InType
  PROVE  CallsOK(Append(c, CallIn(proc, n, Len(all))), all, nodes, Len(all))
<1>1. tables \in Seq(Table) /\ all \in Seq(Table)
  BY DEF TablesOK
<1>2. CallsOK(c, all, nodes, current)
  BY <1>1, CallsGrow
<1>3. Len(all) \in DOMAIN all /\ Len(all) \in Nat
  BY TableFields
<1>4. n \in Nat
  BY LenProperties
<1>5. CallIn(proc, n, Len(all)) \in Frame
  BY <1>3, <1>4 DEF CallIn, Frame, InBody
<1> DEFINE t == Len(all)
<1>6. t \in DOMAIN all /\ CallIn(proc, n, t) \in Frame /\ all[t].parent = current
  BY <1>3, <1>5
<1>7. CallsOK(Append(c, CallIn(proc, n, t)), all, nodes, t)
  <2> HIDE DEF t
  <2> QED BY <1>2, <1>6, CallsPushBody
<1> QED BY <1>7

\* A function that declares no scope is called, on a new node.
LEMMA PlainCall ==
  ASSUME IInv, status # "done",
         NEW kind \in {"variable", "parameter", "function"}, NEW name \in Name,
         NEW proc \in {"variable", "parameter", "parameters"}
  PROVE  LET r == Append(ast, NewNode(kind, name))
         IN  /\ r \in Seq(Node) /\ Len(r) = Len(ast) + 1
             /\ CallsOK(Append(calls, Call(proc, Fresh)), tables, r, current)
<1> DEFINE r == Append(ast, NewNode(kind, name))
<1>1. /\ CallsOK(calls, tables, ast, current) /\ TablesOK(tables) /\ ast \in Seq(Node)
      /\ Fresh = Len(ast) + 1 /\ Len(ast) \in Nat /\ current \in Nat
  BY StateFacts
<1>2. NewNode(kind, name) \in Node
  BY <1>1, NewNodeType
<1>3. r \in Seq(Node) /\ Len(r) = Len(ast) + 1 /\ NodesGrow(ast, r) /\ Fresh \in DOMAIN r
  BY <1>1, <1>2, AllocateOne
<1> HIDE DEF r
<1>4. tables \in Seq(Table) /\ Grows(tables, tables)
  BY <1>1, GrowsReflexive DEF TablesOK
<1>5. CallsOK(calls, tables, r, current)
  BY <1>1, <1>3, <1>4, CallsGrow
<1>6. CallIn(proc, Fresh, current) \in Frame /\ proc \notin InBody
  BY <1>1 DEF CallIn, Frame, InBody, InType
<1>7. CallsOK(Append(calls, CallIn(proc, Fresh, current)), tables, r, current)
  BY <1>3, <1>5, <1>6, CallsPushPlain
<1> QED BY <1>3, <1>7 DEF Call, r

\* A function that declared no scope returns.
LEMMA PlainReturn ==
  ASSUME IInv, status # "done", Top.proc \notin InBody,
         NEW nodes \in Seq(Node), NodesGrow(ast, nodes),
         NEW all, TablesOK(all), Grows(tables, all)
  PROVE  CallsOK(Front(calls), all, nodes, current)
<1>1. /\ CallsOK(calls, tables, ast, current) /\ TablesOK(tables) /\ ast \in Seq(Node)
      /\ Len(calls) > 1
  BY StateFacts DEF InBody
<1>2. CallsOK(Front(calls), tables, ast, current)
  BY <1>1, CallsPop DEF Top
<1>3. tables \in Seq(Table) /\ all \in Seq(Table)
  BY <1>1 DEF TablesOK
<1> QED BY <1>1, <1>2, <1>3, CallsGrow

\* A function goes on to its next phase.
LEMMA PhaseEnded ==
  ASSUME IInv, status # "done", Top.proc \notin InBody,
         NEW nodes \in Seq(Node), NodesGrow(ast, nodes),
         NEW proc \in {"typed_variable", "typed_parameter", "signature",
                       "return_type", "modifiers"}
  PROVE  CallsOK(Become(proc), tables, nodes, current)
<1>1. /\ CallsOK(calls, tables, ast, current) /\ TablesOK(tables) /\ ast \in Seq(Node)
      /\ Top \in Frame
  BY StateFacts
<1>2. tables \in Seq(Table) /\ Grows(tables, tables)
  BY <1>1, GrowsReflexive DEF TablesOK
<1>3. CallsOK(calls, tables, nodes, current)
  BY <1>1, <1>2, CallsGrow
<1>4. [Top EXCEPT !.proc = proc] \in Frame /\ proc \notin InBody
  BY <1>1 DEF Frame, InBody, InType
<1> QED BY <1>3, <1>4, CallsBecome DEF Top, Become

-----------------------------------------------------------------------------
(* The steps *)

LEMMA InitEstablishes == Init => IInv
<1> SUFFICES ASSUME Init PROVE IInv
  OBVIOUS
<1> DEFINE n == [kind |-> "scope", name |-> NONE, table |-> 1, type |-> Null]
           t == NewTable("module", Null, Null, Null)
           f == CallIn("scope", 1, 1)
<1>1. n \in Node
  BY DEF Node, Null
<1>2. /\ t \in Table /\ t.parent = Null /\ t.first_child = Null
  <2>1. NoSymbol \in [Name -> Nat] /\ Null \in Nat
    BY DEF NoSymbol, Null
  <2> QED BY <2>1 DEF NewTable, Table
<1>3. f \in Frame /\ f.proc = "scope" /\ f.node = 1 /\ f.table = 1
  BY DEF CallIn, Frame, InBody
<1> HIDE DEF n, t, f
<1>4. /\ tokens = 0 /\ ast = <<n>> /\ tables = <<t>> /\ current = 1 /\ calls = <<f>>
      /\ status = "parsing"
  BY DEF Init, n, t, f
<1>5. tables \in Seq(Table) /\ tables # <<>> /\ DOMAIN tables = {1} /\ tables[1] = t
  BY <1>2, <1>4
<1>6. IsTree(tables)
  <2>1. {c \in DOMAIN tables : tables[c].parent = 1} = {}
    BY <1>2, <1>5 DEF Null
  <2>2. LastOf({}) = Null
    BY DEF LastOf
  <2>3. tables[1].first_child = LastOf({c \in DOMAIN tables : tables[c].parent = 1})
    BY <1>2, <1>5, <2>1, <2>2
  <2>4. tables[1].parent < 1 /\ tables[1].parent = Null
    BY <1>2, <1>5 DEF Null
  <2> SUFFICES ASSUME NEW u \in {1}
               PROVE  /\ tables[u].parent < u
                      /\ tables[u].parent = Null <=> u = 1
                      /\ tables[u].first_child = LastOf({c \in DOMAIN tables : tables[c].parent = u})
                      /\ u # 1 => tables[u].sibling =
                           LastOf({c \in DOMAIN tables : c < u /\ tables[c].parent = tables[u].parent})
    BY <1>5 DEF IsTree
  <2> QED BY <2>3, <2>4
<1>7. ast \in Seq(Node) /\ DOMAIN ast = {1} /\ Len(ast) = 1 /\ Len(tables) = 1
  BY <1>1, <1>4
<1>8. CallsOK(calls, tables, ast, current)
  <2>1. calls \in Seq(Frame) /\ Len(calls) = 1 /\ calls[1] = f /\ calls # <<>>
    BY <1>3, <1>4
  <2>2. FrameOK(f, tables, ast)
    BY <1>3, <1>5, <1>7 DEF FrameOK
  <2> QED BY <1>3, <1>4, <2>1, <2>2 DEF CallsOK
<1>9. TablesOK(tables)
  BY <1>5, <1>6 DEF TablesOK
<1>10. nb_tokens \in 1 .. MaxTokens /\ tokens \in 0 .. nb_tokens
  BY TokensAssumption DEF Init
<1> QED BY <1>4, <1>5, <1>7, <1>8, <1>9, <1>10 DEF IInv

LEMMA StatementKeeps == IInv /\ Statement => IInv' /\ Grows(tables, tables')
<1> SUFFICES ASSUME IInv, Statement PROVE IInv' /\ Grows(tables, tables')
  OBVIOUS
<1>0. FileStays
  BY FileKeeps DEF Next
<1>1. status = "parsing"
  BY DEF Statement, Member, parse_alias, parse_struct, parse_function, parse_variable,
     parse_function_call, NestedScope, StrayIdentifier, In
<1>2. /\ CallsOK(calls, tables, ast, current) /\ TablesOK(tables)
      /\ ast \in Seq(Node) /\ Len(ast) \in Nat /\ Fresh = Len(ast) + 1
      /\ Len(tables) \in Nat \ {0} /\ tokens \in Nat
      /\ current \in DOMAIN tables /\ current \in Nat
      /\ Len(ast) <= tokens + 1 /\ Len(tables) <= tokens + 1
  BY <1>1, StateFacts
<1>3. tables \in Seq(Table) /\ Grows(tables, tables) /\ NodesGrow(ast, ast)
  BY <1>2, GrowsReflexive, NodesGrowReflexive DEF TablesOK
<1>4. ASSUME NEW name \in Name, parse_alias(name)
      PROVE  IInv' /\ Grows(tables, tables')
  <2>1. NewNode("alias", name) \in Node /\ NewNode("expression", NONE) \in Node
    BY <1>2, NewNodeType
  <2>2. ast' \in Seq(Node) /\ Len(ast') = Len(ast) + 2 /\ NodesGrow(ast, ast')
    BY <1>2, <1>4, <2>1, AllocateTwo DEF parse_alias
  <2>3. TablesOK(tables') /\ Len(tables') = Len(tables) /\ Grows(tables, tables')
    BY <1>2, <1>4, InsertKeeps DEF parse_alias
  <2>4. CallsOK(calls', tables', ast', current')
    <3>1. tables' \in Seq(Table)
      BY <2>3 DEF TablesOK
    <3>2. CallsOK(calls, tables', ast', current)
      BY <1>2, <1>3, <2>2, <2>3, <3>1, CallsGrow
    <3> QED BY <1>4, <3>2 DEF parse_alias
  <2>5. tokens' = tokens + 4 /\ status' = status
    BY <1>4 DEF parse_alias, Read
  <2> QED BY <1>1, <1>2, <2>2, <2>3, <2>4, <2>5, <1>0, IInvFromCalls
<1>5. ASSUME NEW name \in Name, NEW proc \in {"struct", "union"}, parse_struct(name, proc)
      PROVE  IInv' /\ Grows(tables, tables')
  <2>1. NewNode(proc, name) \in Node /\ NewNode(proc, name).name = name
    BY <1>2, NewNodeType
  <2>2. /\ ast' \in Seq(Node) /\ Len(ast') = Len(ast) + 1 /\ NodesGrow(ast, ast')
        /\ Fresh \in DOMAIN ast' /\ ast'[Fresh].name # NONE
    BY <1>2, <1>5, <2>1, AllocateOne, NameAssumption DEF parse_struct, Allocate
  <2>3. /\ TablesOK(tables') /\ Len(tables') = Len(tables) + 1
        /\ Grows(tables, tables') /\ tables'[Len(tables')].parent = current
    BY <1>2, <1>5, PushedKeeps DEF parse_struct
  <2>4. CallsOK(Append(calls, CallIn(proc, Fresh, Len(tables'))), tables', ast', Len(tables'))
    BY <1>2, <2>2, <2>3, ScopeEntered DEF InBody
  <2>5. CallsOK(calls', tables', ast', current')
    BY <1>5, <2>4 DEF parse_struct
  <2>6. tokens' = tokens + 4 /\ status' = status
    BY <1>5 DEF parse_struct, Read
  <2> QED BY <1>1, <1>2, <2>2, <2>3, <2>5, <2>6, <1>0, IInvFromCalls
<1>6. ASSUME NEW name \in Name, parse_function(name)
      PROVE  IInv' /\ Grows(tables, tables')
  <2>1. /\ ast' \in Seq(Node) /\ Len(ast') = Len(ast) + 1 /\ tables' = tables
        /\ CallsOK(calls', tables', ast', current')
    BY <1>1, <1>6, PlainCall DEF parse_function, Allocate
  <2>2. tokens' = tokens + 3 /\ status' = status
    BY <1>6 DEF parse_function, Read
  <2> QED BY <1>1, <1>2, <1>3, <2>1, <2>2, <1>0, IInvFromCalls
<1>7. ASSUME NEW name \in Name, parse_variable(name)
      PROVE  IInv' /\ Grows(tables, tables')
  <2>1. /\ ast' \in Seq(Node) /\ Len(ast') = Len(ast) + 1 /\ tables' = tables
        /\ CallsOK(calls', tables', ast', current')
    BY <1>1, <1>7, PlainCall DEF parse_variable, Allocate
  <2>2. tokens' = tokens + 2 /\ status' = status
    BY <1>7 DEF parse_variable, Read
  <2> QED BY <1>1, <1>2, <1>3, <2>1, <2>2, <1>0, IInvFromCalls
<1>8. ASSUME parse_function_call PROVE IInv' /\ Grows(tables, tables')
  <2>1. NewNode("call", NONE) \in Node /\ NewNode("expression", NONE) \in Node
    BY <1>2, NewNodeType
  <2>2. ast' \in Seq(Node) /\ NodesGrow(ast, ast')
        /\ Len(ast') <= tokens' + 1 /\ tokens' \in Nat /\ tokens <= tokens'
    <3>1. CASE (Read(4) \/ Read(3)) /\ Allocate("call", NONE)
      <4>1. ast' \in Seq(Node) /\ Len(ast') = Len(ast) + 1 /\ NodesGrow(ast, ast')
        BY <1>2, <2>1, <3>1, AllocateOne DEF Allocate
      <4> QED BY <1>2, <3>1, <4>1 DEF Read
    <3>2. CASE /\ Read(5) \/ Read(4)
               /\ ast' = ast \o <<NewNode("call", NONE), NewNode("expression", NONE)>>
      <4>1. ast' \in Seq(Node) /\ Len(ast') = Len(ast) + 2 /\ NodesGrow(ast, ast')
        BY <1>2, <2>1, <3>2, AllocateTwo
      <4> QED BY <1>2, <3>2, <4>1 DEF Read
    <3> QED BY <1>8, <3>1, <3>2 DEF parse_function_call, ReadLast
  <2>3. tables' = tables /\ current' = current /\ calls' = calls /\ status' = status
    BY <1>8 DEF parse_function_call
  <2>4. CallsOK(calls', tables', ast', current')
    BY <1>2, <1>3, <2>2, <2>3, CallsGrow
  <2>5. Len(tables') <= tokens' + 1
    BY <1>2, <2>2, <2>3
  <2> QED BY <1>1, <1>2, <1>3, <2>2, <2>3, <2>4, <2>5, <1>0, IInvFromCalls
<1>9. ASSUME NestedScope PROVE IInv' /\ Grows(tables, tables')
  <2>1. /\ TablesOK(tables') /\ Len(tables') = Len(tables) + 1
        /\ Grows(tables, tables') /\ tables'[Len(tables')].parent = current
    BY <1>2, <1>9, PushedKeeps DEF NestedScope, Null
  <2>2. current' = Len(tables') /\ current' \in Nat
    BY <1>2, <1>9, <2>1 DEF NestedScope
  <2>3. [NewNode("scope", NONE) EXCEPT !.table = current'] \in Node
    BY <1>2, <2>2, NewNodeType
  <2>4. /\ ast' \in Seq(Node) /\ Len(ast') = Len(ast) + 1 /\ NodesGrow(ast, ast')
        /\ Fresh \in DOMAIN ast'
    BY <1>2, <1>9, <2>3, AllocateOne DEF NestedScope
  <2>5. CallsOK(Append(calls, CallIn("scope", Fresh, Len(tables'))), tables', ast', Len(tables'))
    BY <1>2, <2>1, <2>4, ScopeEntered DEF InBody
  <2>6. CallsOK(calls', tables', ast', current')
    BY <1>9, <2>2, <2>5 DEF NestedScope
  <2>7. tokens' = tokens + 1 /\ status' = status
    BY <1>9 DEF NestedScope, Read
  <2> QED BY <1>1, <1>2, <2>1, <2>4, <2>6, <2>7, <1>0, IInvFromCalls
<1>10. ASSUME StrayIdentifier PROVE IInv' /\ Grows(tables, tables')
  <2>1. /\ tables' = tables /\ current' = current /\ calls' = calls /\ status' = status
        /\ ast' = ast /\ tokens' = tokens + 1
    BY <1>10 DEF StrayIdentifier, Read
  <2> QED BY <1>1, <1>2, <1>3, <2>1, <1>0, IInvFromCalls
<1> QED BY <1>4, <1>5, <1>6, <1>7, <1>8, <1>9, <1>10 DEF Statement, Member

\* CloseBrace and EndOfFile.
LEMMA LeaveKeeps ==
  ASSUME IInv, status # "done", Top.proc \in InBody, Leave
  PROVE  /\ TablesOK(tables') /\ Len(tables') = Len(tables) /\ Grows(tables, tables')
         /\ Len(calls) > 1 => CallsOK(calls', tables', ast, current')
         /\ Len(calls) = 1 => calls' = <<>> /\ current' = 1
<1>1. /\ CallsOK(calls, tables, ast, current) /\ TablesOK(tables) /\ ast \in Seq(Node)
      /\ calls \in Seq(Frame) /\ calls # <<>> /\ Len(calls) \in Nat \ {0}
      /\ Top = calls[Len(calls)] /\ Top = Last(calls) /\ Top.node \in Nat
      /\ Top.proc # "scope" => Len(calls) > 1
  BY StateFacts DEF Top
<1>2. tables \in Seq(Table) /\ Grows(tables, tables) /\ NodesGrow(ast, ast)
  BY <1>1, GrowsReflexive, NodesGrowReflexive DEF TablesOK
<1>9. /\ Len(calls) \in Nat \ {0}
      /\ Len(calls) > 1 <=> Len(calls) # 1
  <2> DEFINE n == Len(calls)
  <2>1. n \in Nat \ {0}
    BY <1>1
  <2> HIDE DEF n
  <2>2. n > 1 <=> n # 1
    BY <2>1
  <2> QED BY <2>1, <2>2 DEF n
<1> DEFINE back == tables[current].parent
<1>3. Len(calls) > 1 => CallsOK(Front(calls), tables, ast, back) /\ back \in DOMAIN tables
  BY <1>1, CallsPop
<1> HIDE DEF back
<1>4. CASE LeaveScope
  <2>1. /\ current' = IF Len(calls) = 1 THEN current ELSE back
        /\ calls' = Front(calls) /\ tables' = tables
    BY <1>4 DEF LeaveScope, back
  <2>2. CASE Len(calls) > 1
    BY <1>1, <1>2, <1>3, <1>9, <2>1, <2>2
  <2>3. CASE Len(calls) = 1
    <3>1. current = 1
      BY <1>1, <2>3 DEF CallsOK
    <3>2. calls' = <<>>
      BY <1>1, <2>1, <2>3, FrontProperties, EmptySeq
    <3> QED BY <1>1, <1>2, <1>9, <2>1, <2>3, <3>1, <3>2
  <2> QED BY <1>9, <2>2, <2>3
<1>5. CASE LeaveNamedType
  <2>1. Len(calls) > 1
    BY <1>1, <1>5 DEF LeaveNamedType
  <2>2. /\ current' = back /\ calls' = Front(calls)
        /\ tables' = InsertUserType(tables, back, ast[Top.node].name, Top.node)
    BY <1>5 DEF LeaveNamedType, back
  <2>3. TablesOK(tables') /\ Len(tables') = Len(tables) /\ Grows(tables, tables')
    BY <1>1, <1>3, <2>1, <2>2, InsertKeeps
  <2>4. tables' \in Seq(Table)
    BY <2>3 DEF TablesOK
  <2>5. CallsOK(calls', tables', ast, current')
    BY <1>1, <1>2, <1>3, <2>1, <2>2, <2>3, <2>4, CallsGrow
  <2> QED BY <1>9, <2>1, <2>3, <2>5
<1>6. CASE LeaveAnonymousType
  <2> DEFINE c == Front(calls)  k == Len(calls) - 1  proc == AfterType(c[k].proc)
  <2>1. Top.proc \in {"struct", "union"} /\ ast[Top.node].name = NONE /\ Len(calls) > 1
    BY <1>1, <1>6 DEF LeaveAnonymousType
  <2>2. /\ current' = back /\ calls' = [c EXCEPT ![k].proc = proc] /\ tables' = tables
    BY <1>6 DEF LeaveAnonymousType, back
  <2>3. /\ c \in Seq(Frame) /\ Len(c) = k /\ c[k] = calls[k] /\ k \in 1 .. Len(calls) - 1
        /\ k + 1 = Len(calls) /\ c # <<>> /\ Last(c) = c[k] /\ c[k] \in Frame
    <3>1. /\ c \in Seq(Frame) /\ Len(c) = k
          /\ \A i \in 1 .. Len(calls) - 1 : c[i] = calls[i]
      BY <1>1, FrontProperties
    <3>2. k \in 1 .. Len(calls) - 1 /\ k + 1 = Len(calls) /\ k # 0
      BY <1>9, <2>1
    <3> HIDE DEF c, k
    <3>3. c # <<>>
      BY <3>1, <3>2, EmptySeq
    <3>4. Last(c) = c[k] /\ Last(c) \in Frame
      BY <3>1, <3>3, FrontProperties
    <3> QED BY <3>1, <3>2, <3>3, <3>4
  <2>4. c[k].proc \in InType
    <3> HIDE DEF c, k
    <3>1. CallerOK(calls[k], calls[k + 1], tables, ast)
      BY <1>1, <2>3 DEF CallsOK
    <3> QED BY <1>1, <2>1, <2>3, <3>1 DEF CallerOK
  <2>5. c[k].proc \notin InBody /\ proc \in {"typed_variable", "typed_parameter", "signature"}
    BY <2>4 DEF AfterType, InType, InBody
  <2> HIDE DEF c, k, proc
  <2>6. [Last(c) EXCEPT !.proc = proc] \in Frame /\ proc \notin InBody
    BY <2>3, <2>5 DEF Frame, InBody
  <2>7. CallsOK(c, tables, ast, back)
    BY <1>3, <2>1 DEF c
  <2>8. CallsOK([c EXCEPT ![Len(c)].proc = proc], tables, ast, back)
    BY <2>3, <2>5, <2>6, <2>7, CallsBecome
  <2>9. CallsOK(calls', tables', ast, current')
    BY <2>2, <2>3, <2>8
  <2> QED BY <1>1, <1>2, <1>9, <2>1, <2>2, <2>9
<1> QED BY <1>4, <1>5, <1>6 DEF Leave

LEMMA CloseBraceKeeps == IInv /\ CloseBrace => IInv' /\ Grows(tables, tables')
<1> SUFFICES ASSUME IInv, CloseBrace PROVE IInv' /\ Grows(tables, tables')
  OBVIOUS
<1>0. FileStays
  BY FileKeeps DEF Next
<1>1. /\ status = "parsing" /\ Top.proc \in InBody /\ Len(calls) > 1 /\ Leave
      /\ tokens' = tokens + 1 /\ ast' = ast /\ status' = status
  BY DEF CloseBrace, In, Read
<1>2. /\ TablesOK(tables') /\ Len(tables') = Len(tables) /\ Grows(tables, tables')
      /\ CallsOK(calls', tables', ast, current')
  BY <1>1, LeaveKeeps
<1>3. /\ ast \in Seq(Node) /\ Len(ast) \in Nat /\ Len(tables) \in Nat /\ tokens \in Nat
      /\ Len(ast) <= tokens + 1 /\ Len(tables) <= tokens + 1
  BY <1>1, StateFacts
<1> QED BY <1>1, <1>2, <1>3, <1>0, IInvFromCalls

LEMMA EndOfFileKeeps == IInv /\ EndOfFile => IInv' /\ Grows(tables, tables')
<1> SUFFICES ASSUME IInv, EndOfFile PROVE IInv' /\ Grows(tables, tables')
  OBVIOUS
<1>0. FileStays
  BY FileKeeps DEF Next
<1>1. /\ status # "done" /\ Top.proc \in InBody /\ Leave
      /\ status' = IF Len(calls) = 1 THEN "done" ELSE "unwinding"
      /\ tokens' = tokens /\ ast' = ast
  BY DEF EndOfFile
<1>2. /\ TablesOK(tables') /\ Len(tables') = Len(tables) /\ Grows(tables, tables')
      /\ Len(calls) > 1 => CallsOK(calls', tables', ast, current')
      /\ Len(calls) = 1 => calls' = <<>> /\ current' = 1
  BY <1>1, LeaveKeeps
<1>3. /\ ast \in Seq(Node) /\ Len(ast) \in Nat /\ Len(tables) \in Nat \ {0} /\ tokens \in Nat
      /\ Len(ast) <= tokens + 1 /\ Len(tables) <= tokens + 1 /\ Len(calls) \in Nat \ {0}
  BY <1>1, StateFacts DEF IInv
<1>6. Len(calls) > 1 <=> Len(calls) # 1
  <2> DEFINE n == Len(calls)
  <2>1. n \in Nat \ {0}
    BY <1>3
  <2> HIDE DEF n
  <2>2. n > 1 <=> n # 1
    BY <2>1
  <2> QED BY <2>2 DEF n
<1>7. Len(ast') <= tokens' + 1 /\ Len(tables') <= tokens' + 1
  BY <1>1, <1>2, <1>3
<1>4. CASE Len(calls) > 1
  BY <1>1, <1>2, <1>3, <1>4, <1>6, <1>7, <1>0, IInvFromCalls
<1>5. CASE Len(calls) = 1
  <2>1. 1 \in DOMAIN tables'
    BY <1>2, <1>3, TableFields
  <2> QED BY <1>0, <1>1, <1>2, <1>3, <1>5, <1>7, <2>1 DEF IInv, FileStays
<1> QED BY <1>4, <1>5, <1>6

LEMMA FailureKeeps == IInv /\ Failure => IInv' /\ Grows(tables, tables')
<1> SUFFICES ASSUME IInv, Failure PROVE IInv' /\ Grows(tables, tables')
  OBVIOUS
<1>0. FileStays
  BY FileKeeps DEF Next
<1>1. /\ status # "done" /\ status' \in {"error", "asserted", "looping", "undefined"}
      /\ UNCHANGED <<nb_tokens, tokens, ast, tables, current, calls>>
  BY DEF Failure, ReportError, NotImplemented, NoBranch, EndOfFileInDeclaration,
         TablesMoved, In
<1>2. TablesOK(tables)
  BY DEF IInv
<1>3. Grows(tables, tables')
  BY <1>1, <1>2, GrowsReflexive
<1> QED BY <1>1, <1>3 DEF IInv

LEMMA TypeKeeps == IInv /\ Type => IInv' /\ Grows(tables, tables')
<1> SUFFICES ASSUME IInv, Type PROVE IInv' /\ Grows(tables, tables')
  OBVIOUS
<1>0. FileStays
  BY FileKeeps DEF Next
<1>1. status = "parsing" /\ Top.proc \in InType
  BY DEF Type, TypeModifier, EndOfType, AnonymousType, In
<1>2. /\ CallsOK(calls, tables, ast, current) /\ TablesOK(tables)
      /\ ast \in Seq(Node) /\ Len(ast) \in Nat /\ Fresh = Len(ast) + 1 /\ Fresh \in Nat
      /\ Len(tables) \in Nat \ {0} /\ tokens \in Nat /\ Top.node \in DOMAIN ast
      /\ current \in DOMAIN tables /\ current \in Nat
      /\ Len(ast) <= tokens + 1 /\ Len(tables) <= tokens + 1
  BY <1>1, StateFacts
<1>3. tables \in Seq(Table) /\ Grows(tables, tables) /\ NodesGrow(ast, ast)
  BY <1>2, GrowsReflexive, NodesGrowReflexive DEF TablesOK
<1> DEFINE typed == FirstOfType(Top.node, Fresh)
<1>4. typed \in Seq(Node) /\ Len(typed) = Len(ast) /\ NodesGrow(ast, typed)
  BY <1>2, FirstOfTypeSet
<1> HIDE DEF typed
<1>5. ASSUME TypeModifier PROVE IInv' /\ Grows(tables, tables')
  <2>1. /\ NewNode("type_modifier", NONE) \in Node /\ NewNode("expression", NONE) \in Node
    BY <1>2, NewNodeType
  <2>2. /\ ast' \in Seq(Node) /\ NodesGrow(ast, ast') /\ Len(ast') <= tokens' + 1
        /\ tokens' \in Nat /\ tokens <= tokens'
    <3>1. CASE /\ Read(1) \/ Read(2)
               /\ ast' = Append(typed, NewNode("type_modifier", NONE))
      <4>1. ast' \in Seq(Node) /\ Len(ast') = Len(typed) + 1 /\ NodesGrow(typed, ast')
        BY <1>4, <2>1, <3>1, AllocateOne
      <4>2. NodesGrow(ast, ast')
        BY <1>2, <1>4, <4>1, NodesGrowTransitive
      <4> QED BY <1>2, <1>4, <3>1, <4>1, <4>2 DEF Read
    <3>2. CASE /\ Read(3)
               /\ ast' = typed \o <<NewNode("type_modifier", NONE),
                                    NewNode("expression", NONE)>>
      <4>1. ast' \in Seq(Node) /\ Len(ast') = Len(typed) + 2 /\ NodesGrow(typed, ast')
        BY <1>4, <2>1, <3>2, AllocateTwo
      <4>2. NodesGrow(ast, ast')
        BY <1>2, <1>4, <4>1, NodesGrowTransitive
      <4> QED BY <1>2, <1>4, <3>2, <4>1, <4>2 DEF Read
    <3> QED BY <1>5, <3>1, <3>2 DEF TypeModifier, typed
  <2>3. tables' = tables /\ current' = current /\ calls' = calls /\ status' = status
    BY <1>5 DEF TypeModifier
  <2>4. CallsOK(calls', tables', ast', current')
    BY <1>2, <1>3, <2>2, <2>3, CallsGrow
  <2>5. Len(tables') <= tokens' + 1
    BY <1>2, <2>2, <2>3
  <2> QED BY <1>1, <1>2, <1>3, <2>2, <2>3, <2>4, <2>5, <1>0, IInvFromCalls
<1>6. ASSUME EndOfType PROVE IInv' /\ Grows(tables, tables')
  <2>1. PICK name \in Name \cup {NONE} : ast' = Append(typed, NewNode("type", name))
    BY <1>6 DEF EndOfType, typed
  <2>2. NewNode("type", name) \in Node
    BY <1>2, NewNodeType
  <2>3. ast' \in Seq(Node) /\ Len(ast') = Len(typed) + 1 /\ NodesGrow(typed, ast')
    BY <1>4, <2>1, <2>2, AllocateOne
  <2>4. NodesGrow(ast, ast')
    BY <1>2, <1>4, <2>3, NodesGrowTransitive
  <2> DEFINE proc == AfterType(Top.proc)
  <2>5. proc \in {"typed_variable", "typed_parameter", "signature"} /\ Top.proc \notin InBody
    BY <1>1 DEF AfterType, InType, InBody
  <2> HIDE DEF proc
  <2>6. CallsOK(Become(proc), tables, ast', current)
    BY <1>1, <2>3, <2>4, <2>5, PhaseEnded
  <2>7. /\ tables' = tables /\ current' = current /\ calls' = Become(proc)
        /\ status' = status /\ tokens' = tokens + 1
    BY <1>6 DEF EndOfType, Read, proc
  <2>8. CallsOK(calls', tables', ast', current')
    BY <2>6, <2>7
  <2> QED BY <1>1, <1>2, <1>3, <1>4, <2>3, <2>7, <2>8, <1>0, IInvFromCalls
<1>7. ASSUME NEW proc \in {"struct", "union"}, AnonymousType(proc)
      PROVE  IInv' /\ Grows(tables, tables')
  <2> DEFINE set == [ast EXCEPT ![Top.node].type = Fresh]
  <2>1. set \in Seq(Node) /\ Len(set) = Len(ast) /\ NodesGrow(ast, set)
    BY <1>2, TypeSet
  <2>2. NewNode(proc, NONE) \in Node
    BY <1>2, NewNodeType
  <2>3. ast' = Append(set, NewNode(proc, NONE))
    BY <1>7 DEF AnonymousType
  <2> HIDE DEF set
  <2>4. /\ ast' \in Seq(Node) /\ Len(ast') = Len(set) + 1 /\ NodesGrow(set, ast')
        /\ Len(set) + 1 \in DOMAIN ast'
    BY <2>1, <2>2, <2>3, AllocateOne
  <2>5. NodesGrow(ast, ast') /\ Fresh \in DOMAIN ast'
    BY <1>2, <2>1, <2>4, NodesGrowTransitive
  <2>6. /\ TablesOK(tables') /\ Len(tables') = Len(tables) + 1
        /\ Grows(tables, tables') /\ tables'[Len(tables')].parent = current
    BY <1>2, <1>7, PushedKeeps DEF AnonymousType, Null
  <2>7. Last(calls).proc \in InType /\ proc \in InBody
    BY <1>1 DEF Top, InBody
  <2>8. CallsOK(Append(calls, CallIn(proc, Fresh, Len(tables'))), tables', ast', Len(tables'))
    BY <1>2, <2>4, <2>5, <2>6, <2>7, ScopeEntered
  <2>9. CallsOK(calls', tables', ast', current')
    BY <1>7, <2>8 DEF AnonymousType
  <2>10. tokens' = tokens + 2 /\ status' = status
    BY <1>7 DEF AnonymousType, Read
  <2> QED BY <1>1, <1>2, <2>1, <2>4, <2>6, <2>9, <2>10, <1>0, IInvFromCalls
<1> QED BY <1>5, <1>6, <1>7 DEF Type

LEMMA VariableKeeps == IInv /\ Variable => IInv' /\ Grows(tables, tables')
<1> SUFFICES ASSUME IInv, Variable PROVE IInv' /\ Grows(tables, tables')
  OBVIOUS
<1>0. FileStays
  BY FileKeeps DEF Next
<1>1. status = "parsing" /\ Top.proc \in {"typed_variable", "typed_parameter"}
  BY DEF Variable, EndOfVariable, InitializedVariable, EndOfParameter, In
<1>2. /\ TablesOK(tables) /\ ast \in Seq(Node) /\ Len(ast) \in Nat
      /\ Len(tables) \in Nat \ {0} /\ tokens \in Nat /\ Top.node \in Nat
      /\ current \in DOMAIN tables /\ current \in Nat
      /\ Len(ast) <= tokens + 1 /\ Len(tables) <= tokens + 1
  BY <1>1, StateFacts DEF IInv
<1>3. Grows(tables, tables) /\ NodesGrow(ast, ast) /\ Top.proc \notin InBody
  BY <1>1, <1>2, GrowsReflexive, NodesGrowReflexive DEF InBody
<1>4. /\ NewNode("expression", NONE) \in Node
      /\ Allocate("expression", NONE) =>
           ast' \in Seq(Node) /\ Len(ast') = Len(ast) + 1 /\ NodesGrow(ast, ast')
  <2>1. NewNode("expression", NONE) \in Node
    BY <1>2, NewNodeType
  <2> QED BY <1>2, <2>1, AllocateOne DEF Allocate
<1> DEFINE declared == InsertVariable(tables, current, ast[Top.node].name, Top.node)
<1>5. TablesOK(declared) /\ Len(declared) = Len(tables) /\ Grows(tables, declared)
  BY <1>2, InsertKeeps
<1> HIDE DEF declared
<1>6. ASSUME EndOfVariable PROVE IInv' /\ Grows(tables, tables')
  <2>1. /\ tables' = declared /\ calls' = Front(calls)
        /\ ast' = ast /\ current' = current /\ status' = status
    BY <1>6 DEF EndOfVariable, declared
  <2>2. CallsOK(calls', tables', ast', current')
    BY <1>1, <1>2, <1>3, <1>5, <2>1, PlainReturn
  <2>3. tokens' \in Nat /\ tokens <= tokens'
    BY <1>2, <1>6 DEF EndOfVariable, Read
  <2>4. Len(ast') <= tokens' + 1 /\ Len(tables') <= tokens' + 1
    BY <1>2, <1>5, <2>1, <2>3
  <2> QED BY <1>1, <1>2, <1>5, <2>1, <2>2, <2>3, <2>4, <1>0, IInvFromCalls
<1>7. ASSUME InitializedVariable PROVE IInv' /\ Grows(tables, tables')
  <2>1. /\ tables' = declared /\ calls' = Front(calls) /\ current' = current
        /\ status' \in {"parsing", "looping", "error"}
        /\ ast' \in Seq(Node) /\ Len(ast') = Len(ast) + 1 /\ NodesGrow(ast, ast')
    BY <1>1, <1>4, <1>7 DEF InitializedVariable, declared
  <2>2. CallsOK(calls', tables', ast', current')
    BY <1>1, <1>3, <1>5, <2>1, PlainReturn
  <2>3. tokens' \in Nat /\ tokens + 2 <= tokens'
    BY <1>2, <1>7 DEF InitializedVariable, Read
  <2>4. Len(ast') <= tokens' + 1 /\ Len(tables') <= tokens' + 1
    BY <1>2, <1>5, <2>1, <2>3
  <2> QED BY <1>5, <2>1, <2>2, <2>3, <2>4, <1>0, IInvFromCalls
<1>8. ASSUME EndOfParameter PROVE IInv' /\ Grows(tables, tables')
  <2>1. /\ calls' = Front(calls) /\ tables' = tables /\ current' = current /\ status' = status
    BY <1>8 DEF EndOfParameter
  <2>2. /\ ast' \in Seq(Node) /\ NodesGrow(ast, ast') /\ Len(ast') <= tokens' + 1
        /\ tokens' \in Nat /\ tokens <= tokens'
    <3>1. CASE (Read(0) \/ Read(1)) /\ ast' = ast
      BY <1>2, <1>3, <3>1 DEF Read
    <3>2. CASE (Read(2) \/ Read(3)) /\ Allocate("expression", NONE)
      BY <1>2, <1>4, <3>2 DEF Read
    <3> QED BY <1>8, <3>1, <3>2 DEF EndOfParameter
  <2>3. CallsOK(calls', tables', ast', current')
    BY <1>1, <1>2, <1>3, <2>1, <2>2, PlainReturn
  <2>4. Len(tables') <= tokens' + 1
    BY <1>2, <2>1, <2>2
  <2> QED BY <1>1, <1>2, <1>3, <2>1, <2>2, <2>3, <2>4, <1>0, IInvFromCalls
<1> QED BY <1>6, <1>7, <1>8 DEF Variable

LEMMA FunctionKeeps == IInv /\ Function => IInv' /\ Grows(tables, tables')
<1> SUFFICES ASSUME IInv, Function PROVE IInv' /\ Grows(tables, tables')
  OBVIOUS
<1>0. FileStays
  BY FileKeeps DEF Next
<1>1. status = "parsing" /\ Top.proc \in {"parameters", "signature", "modifiers"}
  BY DEF Function, Parameter, EndOfParameters, BeginModifiers, Modifier, EndOfDeclaration,
     OpenBody, In
<1>2. /\ CallsOK(calls, tables, ast, current) /\ TablesOK(tables)
      /\ ast \in Seq(Node) /\ Len(ast) \in Nat /\ Fresh = Len(ast) + 1
      /\ Len(tables) \in Nat \ {0} /\ tokens \in Nat
      /\ Top.node \in DOMAIN ast /\ Top.node \in Nat
      /\ current \in DOMAIN tables /\ current \in Nat
      /\ Len(ast) <= tokens + 1 /\ Len(tables) <= tokens + 1
  BY <1>1, StateFacts
<1>3. Grows(tables, tables) /\ NodesGrow(ast, ast) /\ Top.proc \notin InBody
  BY <1>1, <1>2, GrowsReflexive, NodesGrowReflexive DEF InBody
<1>4. ASSUME NEW name \in Name, Parameter(name) PROVE IInv' /\ Grows(tables, tables')
  <2>1. /\ ast' \in Seq(Node) /\ Len(ast') = Len(ast) + 1 /\ tables' = tables
        /\ CallsOK(calls', tables', ast', current')
    BY <1>1, <1>4, PlainCall DEF Parameter, Allocate
  <2>2. tokens' = tokens + 2 /\ status' = status
    BY <1>4 DEF Parameter, Read
  <2> QED BY <1>1, <1>2, <1>3, <2>1, <2>2, <1>0, IInvFromCalls
<1>5. ASSUME EndOfParameters PROVE IInv' /\ Grows(tables, tables')
  <2>1. PICK proc \in {"signature", "return_type"} : calls' = Become(proc)
    BY <1>5 DEF EndOfParameters
  <2>2. CallsOK(Become(proc), tables, ast, current)
    BY <1>1, <1>2, <1>3, PhaseEnded
  <2>3. /\ tables' = tables /\ ast' = ast /\ current' = current /\ status' = status
        /\ tokens' \in {tokens + 1, tokens + 2}
    BY <1>5 DEF EndOfParameters, Read
  <2>4. CallsOK(calls', tables', ast', current')
    BY <2>1, <2>2, <2>3
  <2> QED BY <1>1, <1>2, <1>3, <2>3, <2>4, <1>0, IInvFromCalls
<1>6. ASSUME BeginModifiers PROVE IInv' /\ Grows(tables, tables')
  <2>1. CallsOK(Become("modifiers"), tables, ast, current)
    BY <1>1, <1>2, <1>3, PhaseEnded
  <2>2. /\ tables' = tables /\ ast' = ast /\ current' = current /\ status' = status
        /\ calls' = Become("modifiers") /\ tokens' = tokens + 1
    BY <1>6 DEF BeginModifiers, Read
  <2>3. CallsOK(calls', tables', ast', current')
    BY <2>1, <2>2
  <2> QED BY <1>1, <1>2, <1>3, <2>2, <2>3, <1>0, IInvFromCalls
<1>9. ASSUME Modifier PROVE IInv' /\ Grows(tables, tables')
  <2>1. /\ NewNode("modifier", NONE) \in Node /\ NewNode("expression", NONE) \in Node
    BY <1>2, NewNodeType
  <2>2. /\ ast' \in Seq(Node) /\ NodesGrow(ast, ast') /\ Len(ast') <= tokens' + 1
        /\ tokens' \in Nat /\ tokens <= tokens'
    <3>1. CASE (Read(1) \/ Read(2) \/ Read(3)) /\ Allocate("modifier", NONE)
      <4>1. ast' \in Seq(Node) /\ Len(ast') = Len(ast) + 1 /\ NodesGrow(ast, ast')
        BY <1>2, <2>1, <3>1, AllocateOne DEF Allocate
      <4> QED BY <1>2, <3>1, <4>1 DEF Read
    <3>2. CASE /\ Read(4)
               /\ ast' = ast \o <<NewNode("modifier", NONE), NewNode("expression", NONE)>>
      <4>1. ast' \in Seq(Node) /\ Len(ast') = Len(ast) + 2 /\ NodesGrow(ast, ast')
        BY <1>2, <2>1, <3>2, AllocateTwo
      <4> QED BY <1>2, <3>2, <4>1 DEF Read
    <3> QED BY <1>9, <3>1, <3>2 DEF Modifier
  <2>3. tables' = tables /\ current' = current /\ status' = status /\ calls' = calls
    BY <1>9 DEF Modifier
  <2>4. tables \in Seq(Table)
    BY <1>2 DEF TablesOK
  <2>5. CallsOK(calls', tables', ast', current')
    BY <1>2, <1>3, <2>2, <2>3, <2>4, CallsGrow
  <2>6. Len(tables') <= tokens' + 1
    BY <1>2, <2>2, <2>3
  <2> QED BY <1>1, <1>2, <1>3, <2>2, <2>3, <2>5, <2>6, <1>0, IInvFromCalls
<1>7. ASSUME EndOfDeclaration PROVE IInv' /\ Grows(tables, tables')
  <2>1. TablesOK(tables') /\ Len(tables') = Len(tables) /\ Grows(tables, tables')
    BY <1>2, <1>7, InsertKeeps DEF EndOfDeclaration
  <2>2. /\ calls' = Front(calls) /\ ast' = ast /\ current' = current /\ status' = status
        /\ tokens' = tokens + 1
    BY <1>7 DEF EndOfDeclaration, Read
  <2>3. CallsOK(calls', tables', ast', current')
    BY <1>1, <1>2, <1>3, <2>1, <2>2, PlainReturn
  <2> QED BY <1>1, <1>2, <2>1, <2>2, <2>3, <1>0, IInvFromCalls
<1>8. ASSUME OpenBody PROVE IInv' /\ Grows(tables, tables')
  <2>1. /\ TablesOK(tables') /\ Len(tables') = Len(tables) + 1
        /\ Grows(tables, tables') /\ tables'[Len(tables')].parent = current
    BY <1>2, <1>8, WithParametersKeeps DEF OpenBody
  <2>2. current' = Len(tables') /\ current' \in Nat
    BY <1>2, <1>8, <2>1 DEF OpenBody
  <2>3. [NewNode("scope", NONE) EXCEPT !.table = current'] \in Node
    BY <1>2, <2>2, NewNodeType
  <2>4. /\ ast' \in Seq(Node) /\ Len(ast') = Len(ast) + 1 /\ NodesGrow(ast, ast')
        /\ Fresh \in DOMAIN ast'
    BY <1>2, <1>8, <2>3, AllocateOne DEF OpenBody
  <2>5. CallsOK(Front(calls), tables, ast, current)
    BY <1>1, <1>2, <1>3, PlainReturn
  <2>6. CallsOK(Append(Front(calls), CallIn("scope", Fresh, Len(tables'))),
                tables', ast', Len(tables'))
    BY <1>2, <2>1, <2>4, <2>5, ScopeEntered DEF InBody
  <2>7. CallsOK(calls', tables', ast', current')
    BY <1>8, <2>2, <2>6 DEF OpenBody
  <2>8. tokens' = tokens + 1 /\ status' = status
    BY <1>8 DEF OpenBody, Read
  <2> QED BY <1>1, <1>2, <2>1, <2>4, <2>7, <2>8, <1>0, IInvFromCalls
<1> QED BY <1>4, <1>5, <1>6, <1>7, <1>8, <1>9 DEF Function

LEMMA StepKeeps == IInv /\ [Next]_vars => IInv' /\ Grows(tables, tables')
<1> SUFFICES ASSUME IInv, [Next]_vars PROVE IInv' /\ Grows(tables, tables')
  OBVIOUS
<1>1. CASE UNCHANGED vars
  <2>1. Grows(tables, tables)
    BY GrowsReflexive DEF IInv
  <2> QED BY <1>1, <2>1 DEF vars, IInv
<1> QED BY <1>1, StatementKeeps, CloseBraceKeeps, EndOfFileKeeps, TypeKeeps,
           VariableKeeps, FunctionKeeps, FailureKeeps DEF Next

-----------------------------------------------------------------------------
(* The theorems *)

\* The inductive invariant holds of every parse.
THEOREM Invariance == Spec => []IInv
<1>1. IInv /\ [Next]_vars => IInv'
  BY StepKeeps
<1> QED BY <1>1, InitEstablishes, PTL DEF Spec

\* The parser's variables keep their types, and every pointer of the stack
\* points to an allocated node and to an allocated table.
THEOREM TypeCorrect == Spec => []TypeOK
<1>1. IInv => TypeOK
  <2> SUFFICES ASSUME IInv PROVE TypeOK
    OBVIOUS
  <2>1. CASE calls = <<>>
    BY <2>1 DEF IInv, TablesOK, TypeOK
  <2>2. CASE calls # <<>>
    <3>1. CallsOK(calls, tables, ast, current)
      BY <2>2 DEF IInv
    <3>2. calls \in Seq(Frame) /\ DOMAIN calls = 1 .. Len(calls)
      BY <3>1, LenProperties DEF CallsOK
    <3>3. \A i \in DOMAIN calls :
            calls[i].node \in DOMAIN ast /\ calls[i].table \in DOMAIN tables
      BY <3>1, <3>2 DEF CallsOK, FrameOK
    <3> QED BY <3>2, <3>3 DEF IInv, TablesOK, TypeOK
  <2> QED BY <2>1, <2>2
<1> QED BY <1>1, Invariance, PTL

\* Whatever the declarations and however they end, each function of the parser
\* goes on in the symbol table it began in, inside the one of its caller.
THEOREM ScopesAlwaysNest == Spec => []ScopesNest
<1>1. IInv => ScopesNest
  <2> SUFFICES ASSUME IInv PROVE ScopesNest
    OBVIOUS
  <2>1. CASE calls = <<>>
    <3>1. Len(calls) = 0
      BY <2>1
    <3> QED BY <2>1, <3>1 DEF IInv, ScopesNest
  <2>2. CASE calls # <<>>
    <3>1. CallsOK(calls, tables, ast, current)
      BY <2>2 DEF IInv
    <3>2. Len(calls) \in Nat \ {0} /\ Top.table = current
      BY <3>1, CallsProperties DEF Top
    <3>3. ASSUME NEW i \in 2 .. Len(calls)
          PROVE  calls[i - 1].table = IF calls[i].proc \in InBody
                                        THEN tables[calls[i].table].parent
                                        ELSE calls[i].table
      <4>1. i - 1 \in 1 .. Len(calls) - 1 /\ i - 1 + 1 = i
        BY <3>2
      <4>2. CallerOK(calls[i - 1], calls[i - 1 + 1], tables, ast)
        BY <3>1, <4>1 DEF CallsOK
      <4> QED BY <4>1, <4>2 DEF CallerOK
    <3>4. calls[1].table = 1
      BY <3>1 DEF CallsOK
    <3> QED BY <2>2, <3>2, <3>3, <3>4 DEF ScopesNest
  <2> QED BY <2>1, <2>2
<1> QED BY <1>1, Invariance, PTL

\* Parents, first children and siblings make a tree rooted in the module's
\* table, in which the search of a name ends.
THEOREM TablesAlwaysATree == Spec => []TablesAreATree
<1>1. IInv => TablesAreATree
  <2> SUFFICES ASSUME IInv, NEW t \in DOMAIN tables
               PROVE  /\ tables[t].parent < t
                      /\ tables[t].parent = Null <=> t = 1
                      /\ tables[t].first_child = LastOf(ChildrenBefore(t, Len(tables) + 1))
                      /\ t # 1 => tables[t].sibling
                                    = LastOf(ChildrenBefore(tables[t].parent, t))
    BY DEF TablesAreATree
  <2>1. TablesOK(tables) /\ DOMAIN tables = 1 .. Len(tables) /\ Len(tables) \in Nat
    BY TableFields DEF IInv
  <2>2. ChildrenBefore(t, Len(tables) + 1) = {c \in DOMAIN tables : tables[c].parent = t}
    BY <2>1 DEF ChildrenBefore
  <2>3. ChildrenBefore(tables[t].parent, t)
          = {c \in DOMAIN tables : c < t /\ tables[c].parent = tables[t].parent}
    BY DEF ChildrenBefore
  <2> QED BY <2>1, <2>2, <2>3 DEF TablesOK, IsTree
<1> QED BY <1>1, Invariance, PTL

\* No step replaces or drops the declaration of a name.
THEOREM DeclarationsAlwaysStay == Spec => DeclarationsStay
<1> DEFINE Stay ==
      \A t \in DOMAIN tables, name \in Name :
        /\ tables[t].user_types[name] # Null =>
             tables'[t].user_types[name] = tables[t].user_types[name]
        /\ tables[t].functions[name] # Null =>
             tables'[t].functions[name] = tables[t].functions[name]
        /\ tables[t].variables[name] # Null =>
             tables'[t].variables[name] = tables[t].variables[name]
<1>1. IInv /\ [Next]_vars => [Stay]_vars
  <2>1. Grows(tables, tables') => Stay
    BY DEF Grows
  <2> QED BY <2>1, StepKeeps
<1> QED BY <1>1, Invariance, PTL DEF Spec, DeclarationsStay

----------------------------------------------------------------------------
(***************************************************************************)
(* What the parser declares: each symbol table has exactly the             *)
(* declarations that were written in its scope and are complete, and the   *)
(* first of each name.                                                     *)
(*                                                                         *)
(* A declaration is inserted when it ends, and not when its node is        *)
(* allocated, so that the order of the insertions could differ from the    *)
(* one of the nodes, that "first" is about.  The invariant XInv says why   *)
(* it does not: while a declaration is under way no other one begins in    *)
(* its table, and no function begins while the parameters of one are read. *)
(***************************************************************************)

UserTypes == {"alias", "struct", "union"}
Declarations == UserTypes \cup {"function", "variable"}
Declares(node) == node.kind \in Declarations /\ node.name # NONE

FunctionPhases == {"parameters", "return_type", "signature", "modifiers"}
KindOf(proc) ==
  IF proc \in InBody THEN proc
  ELSE IF proc \in {"variable", "typed_variable"} THEN "variable"
  ELSE IF proc \in {"parameter", "typed_parameter"} THEN "parameter"
  ELSE "function"

\* The node of a frame is what the frame reads, and hangs from the table around.
Fits(f, all, nodes) ==
  /\ nodes[f.node].kind = KindOf(f.proc)
  /\ nodes[f.node].table = IF f.proc \in {"struct", "union"}
                             THEN all[f.table].parent ELSE f.table
\* A frame, and one above it in the stack.
Below(f, g) ==
  /\ f.node < g.node
  /\ f.table <= g.table
  /\ g.proc \in InBody => f.table < g.table
  /\ g.proc \in {"scope"} \cup FunctionPhases => f.proc = "scope"
\* A frame, and a node that was allocated while it was on the stack.
Since(f, node, nodes) ==
  /\ f.proc # "scope" /\ Declares(node) => node.table # nodes[f.node].table
  /\ f.proc \in FunctionPhases => node.kind # "function"

FramesOK(c, all, nodes) ==
  /\ \A i \in 1 .. Len(c) : Fits(c[i], all, nodes)
  /\ \A i, j \in 1 .. Len(c) : i < j => Below(c[i], c[j])
  /\ \A i \in 1 .. Len(c), m \in DOMAIN nodes :
       m > c[i].node => Since(c[i], nodes[m], nodes)

\* SymbolsExact, of any stack, tables and nodes.
CompleteIn(c, n) == \A i \in 1 .. Len(c) : c[i].node # n
Declared(c, nodes, t, kinds, name) ==
  {n \in DOMAIN nodes : /\ nodes[n].kind \in kinds /\ nodes[n].table = t
                        /\ nodes[n].name = name /\ CompleteIn(c, n)}
FunctionBefore(nodes, n) == LastOf({f \in 1 .. n : nodes[f].kind = "function"})
Parameters(all, nodes, t, name) ==
  {n \in DOMAIN nodes : /\ nodes[n].kind = "parameter" /\ nodes[n].name = name
                        /\ all[t].type = "function"
                        /\ all[t].name = FunctionBefore(nodes, n)}
Least(S) == IF S = {} THEN Null ELSE CHOOSE n \in S : \A m \in S : n <= m
ExactAt(c, all, nodes, t) ==
  \A name \in Name :
    /\ all[t].user_types[name] = Least(Declared(c, nodes, t, UserTypes, name))
    /\ all[t].functions[name] = Least(Declared(c, nodes, t, {"function"}, name))
    /\ all[t].variables[name] = Least(Declared(c, nodes, t, {"variable"}, name)
                                        \cup Parameters(all, nodes, t, name))

\* The table of a function has the parameters of one that is complete, before
\* what is in its body.
FunctionTableOK(c, all, nodes, t) ==
  /\ all[t].name \in DOMAIN nodes /\ CompleteIn(c, all[t].name)
  /\ \A m, n \in DOMAIN nodes :
       /\ nodes[m].kind = "parameter" /\ FunctionBefore(nodes, m) = all[t].name
       /\ nodes[n].table = t
       => m < n
FunctionTablesOK(c, all, nodes) ==
  \A t \in DOMAIN all :
    all[t].type = "function" => FunctionTableOK(c, all, nodes, t)

SymbolsOK(c, all, nodes) ==
  /\ FramesOK(c, all, nodes)
  /\ \A n \in DOMAIN nodes : nodes[n].table \in DOMAIN all
  /\ FunctionTablesOK(c, all, nodes)
  /\ \A t \in DOMAIN all : ExactAt(c, all, nodes, t)

XInv == SymbolsOK(calls, tables, ast)

\* What a step may do to the nodes, and what it allocates besides declarations.
Kept(a, b) ==
  /\ Len(a) <= Len(b)
  /\ \A n \in DOMAIN a : /\ b[n].kind = a[n].kind /\ b[n].name = a[n].name
                         /\ b[n].table = a[n].table
Silent(node) == ~ Declares(node) /\ node.kind \notin {"function", "parameter"}

\* The step that makes the nodes, the stack and the tables a, c and all from
\* now on b, d and all2 completes the declaration v, or none when v is null:
\* that one is complete and no other one is, and it goes into its table.
Completes(c, a, d, b, v) ==
  /\ \A n \in DOMAIN b :
       Declares(b[n]) => (CompleteIn(d, n) <=> n = v \/ (n \in DOMAIN a /\ CompleteIn(c, n)))
  /\ \A n \in DOMAIN a : CompleteIn(c, n) => CompleteIn(d, n)
Entered(map, map2, v, b, t, kinds) ==
  map2 = IF v # Null /\ Declares(b[v]) /\ b[v].kind \in kinds /\ b[v].table = t
           THEN Bound(map, b[v].name, v) ELSE map
TableAfter(all, all2, b, v, t) ==
  /\ all2[t].type = all[t].type /\ all2[t].name = all[t].name
  /\ Entered(all[t].user_types, all2[t].user_types, v, b, t, UserTypes)
  /\ Entered(all[t].functions, all2[t].functions, v, b, t, {"function"})
  /\ Entered(all[t].variables, all2[t].variables, v, b, t, {"variable"})
\* Its node is the last one of its table.
Newest(b, v) ==
  v # Null /\ Declares(b[v]) =>
    \A n \in DOMAIN b : Declares(b[n]) /\ b[n].table = b[v].table => n <= v
\* A new parameter is one of a function that is still on the stack.
ParametersPending(c, a, b) ==
  \A m \in DOMAIN b : m \notin DOMAIN a /\ b[m].kind = "parameter" =>
    ~ CompleteIn(c, FunctionBefore(b, m))

-----------------------------------------------------------------------------
(* The first declaration of a name *)

LEMMA SeqFacts ==
  ASSUME NEW S, NEW s \in Seq(S)
  PROVE  Len(s) \in Nat /\ DOMAIN s = 1 .. Len(s) /\ DOMAIN s \subseteq Nat
BY LenProperties

LEMMA LeastIsMinimum ==
  ASSUME NEW S, S \subseteq Nat, NEW m \in S, \A n \in S : m <= n
  PROVE  Least(S) = m
<1>1. \A k \in S : (\A n \in S : k <= n) => k = m
  OBVIOUS
<1>2. Least(S) \in S /\ \A n \in S : Least(S) <= n
  BY DEF Least
<1> QED BY <1>1, <1>2

\* A later declaration is the first one only when there was none.
LEMMA LeastAdded ==
  ASSUME NEW S, S \subseteq Nat \ {0}, NEW v \in Nat \ {0}, \A n \in S : n <= v
  PROVE  Least(S \cup {v}) = IF Least(S) = Null THEN v ELSE Least(S)
<1>1. CASE S = {}
  <2>1. S \cup {v} = {v} /\ {v} \subseteq Nat /\ v <= v
    BY <1>1
  <2>2. Least({v}) = v
    BY <2>1, LeastIsMinimum
  <2> QED BY <1>1, <2>1, <2>2 DEF Least
<1>2. CASE S # {}
  <2>1. PICK m \in S : \A n \in S : m <= n
    BY <1>2, MinimumExists
  <2>2. Least(S) = m /\ m # Null
    BY <2>1, LeastIsMinimum DEF Null
  <2>3. m <= v
    OBVIOUS
  <2>4. Least(S \cup {v}) = m
    BY <2>1, <2>3, LeastIsMinimum
  <2> QED BY <2>2, <2>4
<1> QED BY <1>1, <1>2

LEMMA MaximumExists ==
  ASSUME NEW n \in Nat, NEW S, S \subseteq 1 .. n, S # {}
  PROVE  \E m \in S : \A k \in S : k <= m
<1> DEFINE T == {n - k : k \in S}
<1>1. T \subseteq Nat /\ T # {}
  <2>1. \A k \in S : k \in 1 .. n
    OBVIOUS
  <2>2. \A k \in S : n - k \in Nat
    BY <2>1
  <2> QED BY <2>2
<1>2. \E u \in T : \A w \in T : u <= w
  <2> HIDE DEF T
  <2> QED BY <1>1, MinimumExists
<1>3. PICK m \in S : \A w \in T : n - m <= w
  BY <1>2
<1>4. ASSUME NEW k \in S PROVE k <= m
  <2>1. n - m <= n - k
    BY <1>3
  <2>2. k \in Nat /\ m \in Nat
    OBVIOUS
  <2> QED BY <2>1, <2>2
<1> QED BY <1>4

\* The last function before a node is among the nodes up to it.
LEMMA FunctionBeforeKept ==
  ASSUME NEW a \in Seq(Node), NEW b \in Seq(Node), Kept(a, b), NEW n \in DOMAIN a
  PROVE  FunctionBefore(b, n) = FunctionBefore(a, n)
<1>1. \A f \in 1 .. n : f \in DOMAIN a
  BY SeqFacts
<1>2. {f \in 1 .. n : b[f].kind = "function"} = {f \in 1 .. n : a[f].kind = "function"}
  BY <1>1 DEF Kept
<1> QED BY <1>2 DEF FunctionBefore

LEMMA FunctionBeforeIs ==
  ASSUME NEW b, NEW n \in Nat, NEW f \in 1 .. n, b[f].kind = "function",
         \A m \in 1 .. n : m > f => b[m].kind # "function"
  PROVE  FunctionBefore(b, n) = f
<1> DEFINE S == {m \in 1 .. n : b[m].kind = "function"}
<1>1. S \subseteq Nat /\ f \in S /\ \A m \in S : m <= f
  OBVIOUS
<1>2. LastOf(S) = f
  BY <1>1, LastOfIsMaximum
<1> QED BY <1>2 DEF FunctionBefore

-----------------------------------------------------------------------------
(* What a table has, after a step *)

LEMMA DeclaredAfter ==
  ASSUME NEW a \in Seq(Node), NEW b \in Seq(Node), Kept(a, b), NEW c, NEW d,
         NEW v, v = Null \/ v \in DOMAIN b, Completes(c, a, d, b, v),
         NEW t, NEW kinds, kinds \subseteq Declarations, NEW name \in Name
  PROVE  Declared(d, b, t, kinds, name)
           = Declared(c, a, t, kinds, name)
               \cup IF v # Null /\ b[v].kind \in kinds /\ b[v].table = t /\ b[v].name = name
                      THEN {v} ELSE {}
<1>1. DOMAIN a \subseteq DOMAIN b /\ Null \notin DOMAIN b
  BY SeqFacts DEF Kept, Null
<1>2. ASSUME NEW n \in DOMAIN b, b[n].kind \in kinds, b[n].name = name
      PROVE  CompleteIn(d, n) <=> n = v \/ (n \in DOMAIN a /\ CompleteIn(c, n))
  BY <1>2, NameAssumption DEF Completes, Declares
<1>3. \A n \in DOMAIN a : b[n].kind = a[n].kind /\ b[n].table = a[n].table /\ b[n].name = a[n].name
  BY DEF Kept
<1> QED BY <1>1, <1>2, <1>3, Zenon DEF Declared

LEMMA ParametersAfter ==
  ASSUME NEW a \in Seq(Node), NEW b \in Seq(Node), Kept(a, b), NEW c,
         ParametersPending(c, a, b), NEW all, NEW all2, NEW t \in DOMAIN all,
         FunctionTablesOK(c, all, a),
         all2[t].type = all[t].type, all2[t].name = all[t].name, NEW name
  PROVE  Parameters(all2, b, t, name) = Parameters(all, a, t, name)
<1>1. DOMAIN a \subseteq DOMAIN b
  BY SeqFacts DEF Kept
<1>2. \A n \in DOMAIN a : /\ b[n].kind = a[n].kind /\ b[n].name = a[n].name
                          /\ FunctionBefore(b, n) = FunctionBefore(a, n)
  BY FunctionBeforeKept DEF Kept
<1>3. ASSUME NEW n \in DOMAIN b, b[n].kind = "parameter", all[t].type = "function",
             all[t].name = FunctionBefore(b, n)
      PROVE  n \in DOMAIN a
  BY <1>3 DEF ParametersPending, FunctionTablesOK, FunctionTableOK
<1> QED BY <1>1, <1>2, <1>3 DEF Parameters

\* A table that was exact still is.
LEMMA ExactAfter ==
  ASSUME NEW a \in Seq(Node), NEW b \in Seq(Node), Kept(a, b), NEW c, NEW d,
         NEW all \in Seq(Table), NEW all2, NEW t \in DOMAIN all,
         NEW v, v = Null \/ v \in DOMAIN b, Completes(c, a, d, b, v),
         TableAfter(all, all2, b, v, t), Newest(b, v), ParametersPending(c, a, b),
         FunctionTablesOK(c, all, a), ExactAt(c, all, a, t)
  PROVE  ExactAt(d, all2, b, t)
<1> SUFFICES ASSUME NEW name \in Name
             PROVE  /\ all2[t].user_types[name] = Least(Declared(d, b, t, UserTypes, name))
                    /\ all2[t].functions[name] = Least(Declared(d, b, t, {"function"}, name))
                    /\ all2[t].variables[name] = Least(Declared(d, b, t, {"variable"}, name)
                                                        \cup Parameters(all2, b, t, name))
  BY DEF ExactAt
<1> DEFINE X(kinds) == IF v # Null /\ b[v].kind \in kinds /\ b[v].table = t /\ b[v].name = name
                         THEN {v} ELSE {}
           old(kinds) == Declared(c, a, t, kinds, name)
           P == Parameters(all, a, t, name)
<1>1. /\ DOMAIN a = 1 .. Len(a) /\ Len(a) \in Nat /\ DOMAIN b = 1 .. Len(b) /\ Len(b) \in Nat
      /\ DOMAIN a \subseteq Nat \ {0} /\ DOMAIN a \subseteq DOMAIN b /\ v \in Nat
  BY SeqFacts DEF Kept, Null
<1>2. /\ all[t].user_types \in [Name -> Nat] /\ all[t].functions \in [Name -> Nat]
      /\ all[t].variables \in [Name -> Nat]
  <2>1. all[t] \in Table
    BY SeqFacts, ElementOfSeq
  <2> QED BY <2>1 DEF Table
<1>3. /\ all[t].user_types[name] = Least(old(UserTypes))
      /\ all[t].functions[name] = Least(old({"function"}))
      /\ all[t].variables[name] = Least(old({"variable"}) \cup P)
  BY DEF ExactAt
<1>4. ASSUME NEW kinds, kinds \subseteq Declarations
      PROVE  /\ Declared(d, b, t, kinds, name) = old(kinds) \cup X(kinds)
             /\ old(kinds) \subseteq Nat \ {0}
             /\ v # Null /\ Declares(b[v]) /\ b[v].table = t => \A n \in old(kinds) : n <= v
  <2>1. Declared(d, b, t, kinds, name) = old(kinds) \cup X(kinds)
    BY <1>4, DeclaredAfter
  <2>2. \A n \in old(kinds) :
          /\ n \in DOMAIN a /\ a[n].kind \in kinds /\ a[n].name = name /\ a[n].table = t
          /\ n \in DOMAIN b /\ b[n].kind \in kinds /\ b[n].name = name /\ b[n].table = t
    BY <1>1 DEF Declared, Kept
  <2>3. \A n \in old(kinds) : Declares(b[n])
    BY <1>4, <2>2, NameAssumption DEF Declares
  <2> HIDE DEF old, X
  <2> QED BY <1>1, <2>1, <2>2, <2>3 DEF Newest
<1>5. Parameters(all2, b, t, name) = P
  <2>1. all2[t].type = all[t].type /\ all2[t].name = all[t].name
    BY DEF TableAfter
  <2> QED BY <2>1, ParametersAfter
<1>6. /\ P \subseteq Nat \ {0}
      /\ v # Null /\ Declares(b[v]) /\ b[v].table = t => \A n \in P : n <= v
  <2>1. P \subseteq DOMAIN a
    BY DEF Parameters
  <2>2. ASSUME v # Null, b[v].table = t, NEW n \in P
        PROVE  n <= v
    <3>1. /\ n \in DOMAIN a /\ a[n].kind = "parameter" /\ all[t].type = "function"
          /\ FunctionBefore(a, n) = all[t].name
      BY DEF Parameters
    <3>2. CASE v \in DOMAIN a
      <4>1. a[v].table = t
        BY <2>2, <3>2 DEF Kept
      <4>2. n < v
        BY <3>1, <3>2, <4>1 DEF FunctionTablesOK, FunctionTableOK
      <4> QED BY <1>1, <3>1, <4>2
    <3>3. CASE v \notin DOMAIN a
      BY <1>1, <2>2, <3>1, <3>3
    <3> QED BY <3>2, <3>3
  <2> HIDE DEF P
  <2> QED BY <1>1, <2>1, <2>2
<1>7. UserTypes \subseteq Declarations /\ {"function"} \subseteq Declarations
      /\ {"variable"} \subseteq Declarations
  BY DEF UserTypes, Declarations
<1>8. ASSUME NEW map \in [Name -> Nat], NEW map2, NEW kinds, kinds \subseteq Declarations,
             Entered(map, map2, v, b, t, kinds), NEW S, S \subseteq Nat \ {0},
             v # Null /\ Declares(b[v]) /\ b[v].table = t => \A n \in S : n <= v,
             map[name] = Least(S)
      PROVE  map2[name] = Least(S \cup X(kinds))
  <2>1. CASE v # Null /\ b[v].kind \in kinds /\ b[v].table = t /\ b[v].name = name
    <3>1. Declares(b[v])
      BY <1>8, <2>1, NameAssumption DEF Declares
    <3>2. map2[name] = IF map[name] = Null THEN v ELSE map[name]
      BY <1>8, <2>1, <3>1 DEF Entered, Bound
    <3>3. v \in Nat \ {0} /\ (\A n \in S : n <= v) /\ X(kinds) = {v}
      BY <1>1, <1>8, <2>1, <3>1 DEF Null
    <3> HIDE DEF X
    <3> QED BY <1>8, <3>2, <3>3, LeastAdded
  <2>2. CASE ~ (v # Null /\ b[v].kind \in kinds /\ b[v].table = t /\ b[v].name = name)
    <3>1. map2[name] = map[name] /\ X(kinds) = {}
      BY <1>8, <2>2 DEF Entered, Bound
    <3> HIDE DEF X
    <3> QED BY <1>8, <3>1
  <2> QED BY <2>1, <2>2
<1> HIDE DEF old, P, X
<1>9. all2[t].user_types[name] = Least(Declared(d, b, t, UserTypes, name))
  <2>1. Entered(all[t].user_types, all2[t].user_types, v, b, t, UserTypes)
    BY DEF TableAfter
  <2>2. all2[t].user_types[name] = Least(old(UserTypes) \cup X(UserTypes))
    <3> DEFINE map == all[t].user_types  map2 == all2[t].user_types
               S == old(UserTypes)
    <3>1. /\ map \in [Name -> Nat] /\ S \subseteq Nat \ {0}
          /\ v # Null /\ Declares(b[v]) /\ b[v].table = t => \A n \in S : n <= v
          /\ map[name] = Least(S) /\ Entered(map, map2, v, b, t, UserTypes)
      BY <1>2, <1>3, <1>4, <1>7, <2>1
    <3> HIDE DEF map, map2, S
    <3>2. map2[name] = Least(S \cup X(UserTypes))
      BY <1>7, <1>8, <3>1
    <3> QED BY <3>2 DEF map2, S
  <2> QED BY <1>4, <1>7, <2>2
<1>10. all2[t].functions[name] = Least(Declared(d, b, t, {"function"}, name))
  <2>1. Entered(all[t].functions, all2[t].functions, v, b, t, {"function"})
    BY DEF TableAfter
  <2>2. all2[t].functions[name] = Least(old({"function"}) \cup X({"function"}))
    <3> DEFINE map == all[t].functions  map2 == all2[t].functions
               S == old({"function"})
    <3>1. /\ map \in [Name -> Nat] /\ S \subseteq Nat \ {0}
          /\ v # Null /\ Declares(b[v]) /\ b[v].table = t => \A n \in S : n <= v
          /\ map[name] = Least(S) /\ Entered(map, map2, v, b, t, {"function"})
      BY <1>2, <1>3, <1>4, <1>7, <2>1
    <3> HIDE DEF map, map2, S
    <3>2. map2[name] = Least(S \cup X({"function"}))
      BY <1>7, <1>8, <3>1
    <3> QED BY <3>2 DEF map2, S
  <2> QED BY <1>4, <1>7, <2>2
<1>11. all2[t].variables[name] = Least(Declared(d, b, t, {"variable"}, name)
                                        \cup Parameters(all2, b, t, name))
  <2> DEFINE S == old({"variable"}) \cup P
  <2>1. Entered(all[t].variables, all2[t].variables, v, b, t, {"variable"})
    BY DEF TableAfter
  <2>2. S \subseteq Nat \ {0}
    BY <1>4, <1>6, <1>7
  <2>3. v # Null /\ Declares(b[v]) /\ b[v].table = t => \A n \in S : n <= v
    BY <1>4, <1>6, <1>7
  <2>4. all[t].variables[name] = Least(S)
    BY <1>3
  <2>5. Declared(d, b, t, {"variable"}, name) \cup Parameters(all2, b, t, name)
          = S \cup X({"variable"})
    BY <1>4, <1>5, <1>7
  <2> HIDE DEF S
  <2>6. all2[t].variables[name] = Least(S \cup X({"variable"}))
    <3> DEFINE map == all[t].variables  map2 == all2[t].variables
    <3>1. /\ map \in [Name -> Nat] /\ map[name] = Least(S)
          /\ Entered(map, map2, v, b, t, {"variable"})
      BY <1>2, <2>1, <2>4
    <3> HIDE DEF map, map2
    <3>2. map2[name] = Least(S \cup X({"variable"}))
      BY <1>7, <1>8, <2>2, <2>3, <3>1
    <3> QED BY <3>2 DEF map2
  <2> QED BY <2>5, <2>6
<1> QED BY <1>9, <1>10, <1>11

\* So is one that was just opened, and has nothing yet.
LEMMA NewTableExact ==
  ASSUME NEW d, NEW all2, NEW b, NEW t,
         all2[t].type # "function", all2[t].variables = NoSymbol,
         all2[t].user_types = NoSymbol, all2[t].functions = NoSymbol,
         \A n \in DOMAIN b : Declares(b[n]) => b[n].table # t
  PROVE  ExactAt(d, all2, b, t)
<1> SUFFICES ASSUME NEW name \in Name
             PROVE  /\ all2[t].user_types[name] = Least(Declared(d, b, t, UserTypes, name))
                    /\ all2[t].functions[name] = Least(Declared(d, b, t, {"function"}, name))
                    /\ all2[t].variables[name] = Least(Declared(d, b, t, {"variable"}, name)
                                                        \cup Parameters(all2, b, t, name))
  BY DEF ExactAt
<1>1. \A kinds : kinds \subseteq Declarations => Declared(d, b, t, kinds, name) = {}
  BY NameAssumption DEF Declared, Declares
<1>2. UserTypes \subseteq Declarations /\ {"function"} \subseteq Declarations
      /\ {"variable"} \subseteq Declarations
  BY DEF UserTypes, Declarations
<1>3. Parameters(all2, b, t, name) = {}
  BY DEF Parameters
<1>4. Least({}) = Null /\ NoSymbol[name] = Null
  BY DEF Least, NoSymbol
<1> QED BY <1>1, <1>2, <1>3, <1>4

\* What a step has to establish.
LEMMA SymbolsAfter ==
  ASSUME NEW a \in Seq(Node), NEW b \in Seq(Node), Kept(a, b), NEW c, NEW d,
         NEW all \in Seq(Table), NEW all2 \in Seq(Table), Len(all) <= Len(all2),
         SymbolsOK(c, all, a), NEW v, v = Null \/ v \in DOMAIN b,
         Completes(c, a, d, b, v), Newest(b, v), ParametersPending(c, a, b),
         \A t \in DOMAIN all : TableAfter(all, all2, b, v, t),
         FramesOK(d, all2, b),
         \A n \in DOMAIN b : n \notin DOMAIN a => b[n].table \in DOMAIN all2,
         \A t \in DOMAIN all2 : t \notin DOMAIN all =>
           /\ ExactAt(d, all2, b, t)
           /\ all2[t].type = "function" => FunctionTableOK(d, all2, b, t)
  PROVE  SymbolsOK(d, all2, b)
<1>1. /\ DOMAIN a = 1 .. Len(a) /\ Len(a) \in Nat /\ DOMAIN b = 1 .. Len(b) /\ Len(b) \in Nat
      /\ DOMAIN a \subseteq DOMAIN b
  BY SeqFacts DEF Kept
<1>2. /\ DOMAIN all = 1 .. Len(all) /\ DOMAIN all2 = 1 .. Len(all2)
      /\ Len(all) \in Nat /\ Len(all2) \in Nat /\ DOMAIN all \subseteq DOMAIN all2
  BY SeqFacts
<1>3. FunctionTablesOK(c, all, a) /\ \A t \in DOMAIN all : ExactAt(c, all, a, t)
  BY DEF SymbolsOK
<1>4. ASSUME NEW t \in DOMAIN all
      PROVE  ExactAt(d, all2, b, t)
  BY <1>3, ExactAfter
<1>5. \A n \in DOMAIN b : b[n].table \in DOMAIN all2
  BY <1>2 DEF SymbolsOK, Kept
<1>6. ASSUME NEW t \in DOMAIN all, all2[t].type = "function"
      PROVE  FunctionTableOK(d, all2, b, t)
  <2>1. all[t].type = "function" /\ all2[t].name = all[t].name
    BY <1>6 DEF TableAfter
  <2>2. FunctionTableOK(c, all, a, t)
    BY <1>3, <2>1 DEF FunctionTablesOK
  <2>3. all2[t].name \in DOMAIN b /\ CompleteIn(d, all2[t].name)
    BY <1>1, <2>1, <2>2 DEF FunctionTableOK, Completes
  <2>4. ASSUME NEW m \in DOMAIN b, NEW n \in DOMAIN b, b[m].kind = "parameter",
               FunctionBefore(b, m) = all2[t].name, b[n].table = t
        PROVE  m < n
    <3>1. m \in DOMAIN a
      BY <2>1, <2>2, <2>4 DEF ParametersPending, FunctionTableOK
    <3>2. a[m].kind = "parameter" /\ FunctionBefore(a, m) = all[t].name
      <4>1. FunctionBefore(a, m) = FunctionBefore(b, m)
        BY <3>1, FunctionBeforeKept
      <4> QED BY <2>1, <2>4, <3>1, <4>1 DEF Kept
    <3>3. CASE n \in DOMAIN a
      <4>1. a[n].table = t
        BY <2>4, <3>3 DEF Kept
      <4> QED BY <2>2, <3>1, <3>2, <3>3, <4>1 DEF FunctionTableOK
    <3>4. CASE n \notin DOMAIN a
      BY <1>1, <3>1, <3>4
    <3> QED BY <3>3, <3>4
  <2> QED BY <2>3, <2>4 DEF FunctionTableOK
<1>7. FunctionTablesOK(d, all2, b)
  BY <1>6 DEF FunctionTablesOK
<1> QED BY <1>4, <1>5, <1>7 DEF SymbolsOK

-----------------------------------------------------------------------------
(* The stack *)

\* Allocations: a new declaration is not in the table of one that is under way.
LEMMA FramesGrow ==
  ASSUME NEW a \in Seq(Node), NEW b \in Seq(Node), Kept(a, b),
         NEW all \in Seq(Table), NEW all2 \in Seq(Table), Grows(all, all2),
         NEW c, FramesOK(c, all, a),
         \A i \in 1 .. Len(c) : FrameOK(c[i], all, a),
         \A i \in 1 .. Len(c), m \in DOMAIN b :
           m \notin DOMAIN a => Since(c[i], b[m], b)
  PROVE  FramesOK(c, all2, b)
<1>1. \A i \in 1 .. Len(c) : /\ c[i].node \in DOMAIN a /\ c[i].table \in DOMAIN all
                             /\ all2[c[i].table].parent = all[c[i].table].parent
  BY DEF FrameOK, Grows
<1>2. \A i \in 1 .. Len(c) : Fits(c[i], all2, b)
  BY <1>1 DEF FramesOK, Fits, Kept
<1>3. ASSUME NEW i \in 1 .. Len(c), NEW m \in DOMAIN b, m > c[i].node
      PROVE  Since(c[i], b[m], b)
  <2>1. CASE m \in DOMAIN a
    <3>1. Since(c[i], a[m], a)
      BY <1>3, <2>1 DEF FramesOK
    <3>2. b[m].kind = a[m].kind /\ b[m].name = a[m].name /\ b[m].table = a[m].table
          /\ b[c[i].node].table = a[c[i].node].table
      BY <1>1, <2>1 DEF Kept
    <3> QED BY <3>1, <3>2 DEF Since, Declares
  <2> QED BY <2>1
<1> QED BY <1>2, <1>3 DEF FramesOK

\* A function is called, on the last node.
LEMMA FramesPush ==
  ASSUME NEW b \in Seq(Node), NEW all, NEW c \in Seq(Frame), FramesOK(c, all, b),
         NEW f \in Frame, f.node = Len(b), Fits(f, all, b),
         \A i \in 1 .. Len(c) :
           /\ c[i].node < f.node /\ c[i].table <= f.table
           /\ f.proc \in InBody => c[i].table < f.table
           /\ f.proc \in {"scope"} \cup FunctionPhases => c[i].proc = "scope"
  PROVE  FramesOK(Append(c, f), all, b)
<1> DEFINE d == Append(c, f)
<1>1. /\ Len(c) \in Nat /\ Len(d) = Len(c) + 1 /\ d[Len(c) + 1] = f
      /\ \A i \in 1 .. Len(c) : d[i] = c[i]
  BY AppendProperties
<1> HIDE DEF d
<1>2. \A i \in 1 .. Len(d) : i # Len(c) + 1 => i \in 1 .. Len(c)
  BY <1>1
<1>3. \A i \in 1 .. Len(d) : Fits(d[i], all, b)
  BY <1>1, <1>2 DEF FramesOK
<1>4. ASSUME NEW i \in 1 .. Len(d), NEW j \in 1 .. Len(d), i < j
      PROVE  Below(d[i], d[j])
  <2>1. i \in 1 .. Len(c)
    BY <1>1, <1>4
  <2>2. CASE j = Len(c) + 1
    BY <1>1, <2>1, <2>2 DEF Below
  <2>3. CASE j # Len(c) + 1
    BY <1>1, <1>2, <1>4, <2>1, <2>3 DEF FramesOK
  <2> QED BY <2>2, <2>3
<1>5. ASSUME NEW i \in 1 .. Len(d), NEW m \in DOMAIN b, m > d[i].node
      PROVE  Since(d[i], b[m], b)
  <2>1. m <= Len(b) /\ m \in Nat /\ Len(b) \in Nat
    BY SeqFacts
  <2>2. i # Len(c) + 1
    BY <1>1, <1>5, <2>1
  <2> QED BY <1>1, <1>2, <1>5, <2>2 DEF FramesOK
<1>6. FramesOK(d, all, b)
  BY <1>3, <1>4, <1>5 DEF FramesOK
<1> QED BY <1>6 DEF d

\* A function returns.
LEMMA FramesPop ==
  ASSUME NEW b, NEW all, NEW c \in Seq(Frame), c # <<>>, FramesOK(c, all, b)
  PROVE  FramesOK(Front(c), all, b)
<1> DEFINE d == Front(c)
<1>1. /\ Len(c) \in Nat \ {0} /\ Len(d) = Len(c) - 1
      /\ \A i \in 1 .. Len(c) - 1 : d[i] = c[i]
  BY FrontProperties
<1> HIDE DEF d
<1>2. \A i \in 1 .. Len(d) : i \in 1 .. Len(c) /\ d[i] = c[i]
  BY <1>1
<1>3. FramesOK(d, all, b)
  BY <1>2 DEF FramesOK
<1> QED BY <1>3 DEF d

\* A function goes on to its next phase.
LEMMA FramesBecome ==
  ASSUME NEW b, NEW all, NEW c \in Seq(Frame), c # <<>>, FramesOK(c, all, b),
         NEW proc, [Last(c) EXCEPT !.proc = proc] \in Frame,
         proc \notin InBody, Last(c).proc \notin InBody,
         KindOf(proc) = KindOf(Last(c).proc),
         proc \in FunctionPhases <=> Last(c).proc \in FunctionPhases
  PROVE  FramesOK([c EXCEPT ![Len(c)].proc = proc], all, b)
<1> DEFINE f == [Last(c) EXCEPT !.proc = proc]  d == [c EXCEPT ![Len(c)].proc = proc]
<1>1. Len(c) \in Nat \ {0} /\ Last(c) = c[Len(c)] /\ Last(c) \in Frame
  BY FrontProperties
<1>2. d = [c EXCEPT ![Len(c)] = f]
  BY <1>1
<1>3. /\ Len(d) = Len(c) /\ d[Len(c)] = f
      /\ \A i \in 1 .. Len(c) - 1 : d[i] = c[i]
  BY <1>1, <1>2, ExceptSeq
<1>4. f.proc = proc /\ f.node = Last(c).node /\ f.table = Last(c).table
  BY <1>1 DEF Frame
<1> HIDE DEF d, f
<1>5. \A i \in 1 .. Len(d) :
        /\ d[i].node = c[i].node /\ d[i].table = c[i].table
        /\ KindOf(d[i].proc) = KindOf(c[i].proc)
        /\ \A p \in InBody : d[i].proc = p <=> c[i].proc = p
        /\ d[i].proc \in FunctionPhases <=> c[i].proc \in FunctionPhases
  <2> TAKE i \in 1 .. Len(d)
  <2>1. CASE i = Len(c)
    BY <1>1, <1>3, <1>4, <2>1
  <2>2. CASE i # Len(c)
    <3>1. d[i] = c[i]
      BY <1>1, <1>3, <2>2
    <3> QED BY <3>1
  <2> QED BY <2>1, <2>2
<1>6. \A i \in 1 .. Len(d) : Fits(d[i], all, b)
  BY <1>3, <1>5 DEF FramesOK, Fits, InBody
<1>7. \A i, j \in 1 .. Len(d) : i < j => Below(d[i], d[j])
  BY <1>3, <1>5 DEF FramesOK, Below, InBody
<1>8. \A i \in 1 .. Len(d), m \in DOMAIN b : m > d[i].node => Since(d[i], b[m], b)
  BY <1>3, <1>5 DEF FramesOK, Since, InBody
<1>9. FramesOK(d, all, b)
  BY <1>6, <1>7, <1>8 DEF FramesOK
<1> QED BY <1>9 DEF d

-----------------------------------------------------------------------------
(* What is complete, after a step *)

\* The stack d is the stack c, without the node v if it is one.
Frees(c, d, a, v) ==
  \A n \in DOMAIN a : CompleteIn(d, n) <=> n = v \/ CompleteIn(c, n)

LEMMA FreesNothing ==
  ASSUME NEW a \in Seq(Node), NEW c PROVE Frees(c, c, a, Null)
<1>1. Null \notin DOMAIN a
  BY SeqFacts DEF Null
<1> QED BY <1>1 DEF Frees

LEMMA FreesTop ==
  ASSUME NEW a, NEW all, NEW c \in Seq(Frame), c # <<>>, FramesOK(c, all, a)
  PROVE  Frees(c, Front(c), a, Last(c).node)
<1> DEFINE d == Front(c)
<1>1. /\ Len(c) \in Nat \ {0} /\ Len(d) = Len(c) - 1 /\ Last(c) = c[Len(c)]
      /\ \A i \in 1 .. Len(c) - 1 : d[i] = c[i]
  BY FrontProperties
<1>2. \A i \in 1 .. Len(c) : c[i] \in Frame /\ c[i].node \in Nat
  <2>1. \A i \in 1 .. Len(c) : c[i] \in Frame
    BY ElementOfSeq
  <2> QED BY <2>1 DEF Frame
<1> HIDE DEF d
<1>3. \A i \in 1 .. Len(c) - 1 : c[i].node # c[Len(c)].node
  BY <1>1, <1>2 DEF FramesOK, Below
<1>4. ASSUME NEW n \in DOMAIN a
      PROVE  CompleteIn(d, n) <=> n = Last(c).node \/ CompleteIn(c, n)
  <2>1. CompleteIn(d, n) <=> \A i \in 1 .. Len(c) - 1 : c[i].node # n
    BY <1>1 DEF CompleteIn
  <2>2. CompleteIn(c, n) <=> (\A i \in 1 .. Len(c) - 1 : c[i].node # n) /\ c[Len(c)].node # n
    <3>1. \A i \in 1 .. Len(c) : i = Len(c) \/ i \in 1 .. Len(c) - 1
      BY <1>1
    <3>2. Len(c) \in 1 .. Len(c) /\ \A i \in 1 .. Len(c) - 1 : i \in 1 .. Len(c)
      BY <1>1
    <3> QED BY <3>1, <3>2 DEF CompleteIn
  <2> QED BY <1>1, <1>3, <2>1, <2>2
<1>5. Frees(c, d, a, Last(c).node)
  BY <1>4 DEF Frees
<1> QED BY <1>5 DEF d

\* The same nodes are on the stack in the next phase of its last function.
LEMMA CompleteInPhase ==
  ASSUME NEW c \in Seq(Frame), c # <<>>, NEW proc,
         [Last(c) EXCEPT !.proc = proc] \in Frame, NEW n
  PROVE  CompleteIn([c EXCEPT ![Len(c)].proc = proc], n) <=> CompleteIn(c, n)
<1> DEFINE f == [Last(c) EXCEPT !.proc = proc]  d == [c EXCEPT ![Len(c)].proc = proc]
<1>1. Len(c) \in Nat \ {0} /\ Last(c) = c[Len(c)] /\ Last(c) \in Frame
  BY FrontProperties
<1>2. d = [c EXCEPT ![Len(c)] = f]
  BY <1>1
<1>3. /\ Len(d) = Len(c) /\ d[Len(c)] = f
      /\ \A i \in 1 .. Len(c) - 1 : d[i] = c[i]
  BY <1>1, <1>2, ExceptSeq
<1>4. f.node = Last(c).node
  BY <1>1 DEF Frame
<1> HIDE DEF d, f
<1>5. \A i \in 1 .. Len(c) : d[i].node = c[i].node
  <2> TAKE i \in 1 .. Len(c)
  <2>1. CASE i = Len(c)
    BY <1>1, <1>3, <1>4, <2>1
  <2>2. CASE i # Len(c)
    <3>1. i \in 1 .. Len(c) - 1
      BY <1>1, <2>2
    <3> QED BY <1>3, <3>1
  <2> QED BY <2>1, <2>2
<1>6. CompleteIn(d, n) <=> CompleteIn(c, n)
  BY <1>3, <1>5 DEF CompleteIn
<1> QED BY <1>6 DEF d

\* No declaration is allocated.
LEMMA CompletesPlain ==
  ASSUME NEW a \in Seq(Node), NEW b \in Seq(Node), Kept(a, b), NEW c, NEW d, NEW v,
         v = Null \/ v \in DOMAIN a, Frees(c, d, a, v),
         \A n \in DOMAIN b : n \notin DOMAIN a => ~ Declares(b[n])
  PROVE  Completes(c, a, d, b, v)
BY DEF Completes, Frees

\* One is, which is complete at once.
LEMMA CompletesNew ==
  ASSUME NEW a \in Seq(Node), NEW b \in Seq(Node), Kept(a, b), NEW c,
         \A i \in 1 .. Len(c) : c[i].node \in DOMAIN a,
         NEW v \in DOMAIN b, v \notin DOMAIN a,
         \A n \in DOMAIN b : n \notin DOMAIN a /\ n # v => ~ Declares(b[n])
  PROVE  Completes(c, a, c, b, v)
BY DEF Completes, CompleteIn

\* One is, and the function that reads it is called.
LEMMA CompletesPush ==
  ASSUME NEW a \in Seq(Node), NEW b \in Seq(Node), Kept(a, b), NEW c,
         NEW d \in Seq(Frame), NEW v, v = Null \/ v \in DOMAIN a, Frees(c, d, a, v),
         NEW f \in Frame, f.node \notin DOMAIN a, f.node # Null,
         \A n \in DOMAIN b : n \notin DOMAIN a /\ n # f.node => ~ Declares(b[n])
  PROVE  Completes(c, a, Append(d, f), b, v)
<1> DEFINE e == Append(d, f)
<1>1. /\ Len(d) \in Nat /\ Len(e) = Len(d) + 1 /\ e[Len(d) + 1] = f
      /\ \A i \in 1 .. Len(d) : e[i] = d[i]
  BY AppendProperties
<1> HIDE DEF e
<1>2. ASSUME NEW n
      PROVE  CompleteIn(e, n) <=> CompleteIn(d, n) /\ f.node # n
  <2>1. \A i \in 1 .. Len(e) : i = Len(d) + 1 \/ i \in 1 .. Len(d)
    BY <1>1
  <2>2. Len(d) + 1 \in 1 .. Len(e) /\ \A i \in 1 .. Len(d) : i \in 1 .. Len(e)
    BY <1>1
  <2> QED BY <1>1, <2>1, <2>2 DEF CompleteIn
<1>3. Completes(c, a, e, b, v)
  BY <1>2 DEF Completes, Frees
<1> QED BY <1>3 DEF e

-----------------------------------------------------------------------------
(* The tables, after a step *)

LEMMA TableAfterNothing ==
  ASSUME NEW all, NEW b, NEW v, v = Null \/ ~ Declares(b[v]), NEW t
  PROVE  TableAfter(all, all, b, v, t)
BY DEF TableAfter, Entered

\* hash_table_insert does nothing of a name that is none.
LEMMA BoundNone ==
  ASSUME NEW map \in [Name -> Nat], NEW node
  PROVE  Bound(map, NONE, node) = map
BY NameAssumption DEF Bound

LEMMA TableMaps ==
  ASSUME NEW all \in Seq(Table), NEW t \in DOMAIN all
  PROVE  /\ all[t] \in Table
         /\ all[t].user_types \in [Name -> Nat] /\ all[t].functions \in [Name -> Nat]
         /\ all[t].variables \in [Name -> Nat]
<1>1. all[t] \in Table
  BY SeqFacts, ElementOfSeq
<1> QED BY <1>1 DEF Table

LEMMA TableAfterInsertion ==
  ASSUME NEW all \in Seq(Table), NEW t \in DOMAIN all, NEW u \in DOMAIN all, NEW b,
         NEW v \in Nat \ {0}, b[v].table = u, Declares(b[v]) <=> b[v].name # NONE,
         NEW r,
         \/ b[v].kind \in UserTypes /\ r = InsertUserType(all, u, b[v].name, v)
         \/ b[v].kind = "function" /\ r = InsertFunction(all, u, b[v].name, v)
         \/ b[v].kind = "variable" /\ r = InsertVariable(all, u, b[v].name, v)
  PROVE  TableAfter(all, r, b, v, t)
<1> DEFINE name == b[v].name
<1>1. /\ all[t] \in Table
      /\ all[t].user_types \in [Name -> Nat] /\ all[t].functions \in [Name -> Nat]
      /\ all[t].variables \in [Name -> Nat]
  BY TableMaps
<1>2. \A map \in [Name -> Nat] : Bound(map, NONE, v) = map
  BY BoundNone
<1>3. CASE b[v].kind \in UserTypes /\ r = InsertUserType(all, u, name, v)
  <2>1. r[t] = IF t = u THEN [all[t] EXCEPT !.user_types = Bound(@, name, v)] ELSE all[t]
    BY <1>3 DEF InsertUserType
  <2>2. /\ r[t].type = all[t].type /\ r[t].name = all[t].name
        /\ r[t].user_types = IF t = u THEN Bound(all[t].user_types, name, v)
                             ELSE all[t].user_types
        /\ r[t].functions = all[t].functions /\ r[t].variables = all[t].variables
    BY <1>1, <2>1 DEF Table
  <2>3. b[v].kind \notin {"function"} /\ b[v].kind \notin {"variable"}
    BY <1>3 DEF UserTypes
  <2> QED BY <1>1, <1>2, <1>3, <2>2, <2>3 DEF TableAfter, Entered, Null
<1>4. CASE b[v].kind = "function" /\ r = InsertFunction(all, u, name, v)
  <2>1. r[t] = IF t = u THEN [all[t] EXCEPT !.functions = Bound(@, name, v)] ELSE all[t]
    BY <1>4 DEF InsertFunction
  <2>2. /\ r[t].type = all[t].type /\ r[t].name = all[t].name
        /\ r[t].functions = IF t = u THEN Bound(all[t].functions, name, v)
                            ELSE all[t].functions
        /\ r[t].user_types = all[t].user_types /\ r[t].variables = all[t].variables
    BY <1>1, <2>1 DEF Table
  <2>3. b[v].kind \notin UserTypes /\ b[v].kind \notin {"variable"}
    BY <1>4 DEF UserTypes
  <2> QED BY <1>1, <1>2, <1>4, <2>2, <2>3 DEF TableAfter, Entered, Null
<1>5. CASE b[v].kind = "variable" /\ r = InsertVariable(all, u, name, v)
  <2>1. r[t] = IF t = u THEN [all[t] EXCEPT !.variables = Bound(@, name, v)] ELSE all[t]
    BY <1>5 DEF InsertVariable
  <2>2. /\ r[t].type = all[t].type /\ r[t].name = all[t].name
        /\ r[t].variables = IF t = u THEN Bound(all[t].variables, name, v)
                            ELSE all[t].variables
        /\ r[t].user_types = all[t].user_types /\ r[t].functions = all[t].functions
    BY <1>1, <2>1 DEF Table
  <2>3. b[v].kind \notin UserTypes /\ b[v].kind \notin {"function"}
    BY <1>5 DEF UserTypes
  <2> QED BY <1>1, <1>2, <1>5, <2>2, <2>3 DEF TableAfter, Entered, Null
<1> QED BY <1>3, <1>4, <1>5

\* A new table has nothing, and the others what they had.
SameMaps(x, y) ==
  /\ y.type = x.type /\ y.name = x.name /\ y.user_types = x.user_types
  /\ y.functions = x.functions /\ y.variables = x.variables
IsPushed(all, r, type, name) ==
  /\ Len(r) = Len(all) + 1
  /\ \A t \in DOMAIN all : SameMaps(all[t], r[t])
  /\ r[Len(r)].type = type /\ r[Len(r)].name = name
  /\ r[Len(r)].user_types = NoSymbol /\ r[Len(r)].functions = NoSymbol
  /\ r[Len(r)].variables = NoSymbol

LEMMA TableAfterPush ==
  ASSUME NEW all, TablesOK(all), current \in DOMAIN all,
         NEW type \in {"module", "function", "struct", "union", "scope"}, NEW name \in Nat,
         NEW r, r = Pushed(all, type, name)
  PROVE  IsPushed(all, r, type, name)
<1> DEFINE N == Len(all)
           old == [all[current] EXCEPT !.first_child = N + 1]
           new == NewTable(type, name, current, all[current].first_child)
           m == [all EXCEPT ![current] = old]
<1>1. /\ all \in Seq(Table) /\ N \in Nat \ {0} /\ DOMAIN all = 1 .. N
      /\ all[current] \in Table /\ all[current].first_child \in Nat /\ current \in Nat
  BY TableFields
<1>2. r = Append(m, new)
  BY DEF Pushed
<1>3. /\ old \in Table /\ old.type = all[current].type /\ old.name = all[current].name
      /\ old.user_types = all[current].user_types
      /\ old.functions = all[current].functions /\ old.variables = all[current].variables
  <2>1. all[current] \in Table /\ N + 1 \in Nat
    BY <1>1
  <2> HIDE DEF N
  <2> QED BY <2>1 DEF Table
<1>4. /\ new \in Table /\ new.type = type /\ new.name = name
      /\ new.user_types = NoSymbol /\ new.functions = NoSymbol /\ new.variables = NoSymbol
  <2>1. NoSymbol \in [Name -> Nat] /\ Null \in Nat
    BY DEF NoSymbol, Null
  <2> QED BY <1>1, <2>1 DEF NewTable, Table
<1> HIDE DEF old, new
<1>5. /\ m \in Seq(Table) /\ Len(m) = N
      /\ \A i \in 1 .. N : m[i] = IF i = current THEN old ELSE all[i]
  BY <1>1, <1>3, ExceptSeq
<1> HIDE DEF m
<1>6. /\ Len(r) = N + 1
      /\ \A i \in 1 .. N : r[i] = IF i = current THEN old ELSE all[i]
      /\ r[N + 1] = new
  BY <1>2, <1>4, <1>5, AppendProperties
<1>7. /\ r[Len(r)].type = type /\ r[Len(r)].name = name
      /\ r[Len(r)].user_types = NoSymbol /\ r[Len(r)].functions = NoSymbol
      /\ r[Len(r)].variables = NoSymbol
  BY <1>4, <1>6
<1>8. \A t \in DOMAIN all : SameMaps(all[t], r[t])
  BY <1>1, <1>3, <1>6 DEF SameMaps
<1> QED BY <1>6, <1>7, <1>8 DEF IsPushed

LEMMA TableAfterBody ==
  ASSUME TablesOK(tables), current \in DOMAIN tables, ast \in Seq(Node),
         NEW f \in DOMAIN ast, ast[f].kind = "function", ast[f].table = current,
         NEW b \in Seq(Node), Kept(ast, b)
  PROVE  LET r == WithParameters(f)
         IN  /\ Len(r) = Len(tables) + 1
             /\ \A t \in DOMAIN tables : TableAfter(tables, r, b, f, t)
             /\ r[Len(r)].type = "function" /\ r[Len(r)].name = f
             /\ r[Len(r)].user_types = NoSymbol /\ r[Len(r)].functions = NoSymbol
             /\ \A name \in Name :
                  r[Len(r)].variables[name]
                    = Least({n \in ParametersOf(f) : ast[n].name = name})
<1> DEFINE i == InsertFunction(tables, current, ast[f].name, f)
           p == Pushed(i, "function", f)
           V == [n \in Name |-> FirstNamed(ParametersOf(f), n)]
           new == [p[Len(p)] EXCEPT !.variables = V]
           r == [p EXCEPT ![Len(p)] = new]
<1>1. f \in Nat \ {0} /\ f \in Nat /\ tables \in Seq(Table)
  BY SeqFacts DEF TablesOK
<1>2. WithParameters(f) = r
  BY DEF WithParameters
<1>3. \A name \in Name : V[name] = Least({n \in ParametersOf(f) : ast[n].name = name})
  BY DEF FirstNamed, Least
<1> HIDE DEF V
<1>4. TablesOK(i) /\ Len(i) = Len(tables)
  BY <1>1, InsertKeeps
<1>5. \A t \in DOMAIN tables : TableAfter(tables, i, b, f, t)
  <2>1. /\ b[f].kind = "function" /\ b[f].table = current /\ b[f].name = ast[f].name
        /\ Declares(b[f]) <=> b[f].name # NONE
    BY DEF Kept, Declares, Declarations
  <2>2. i = InsertFunction(tables, current, b[f].name, f)
    BY <2>1
  <2> HIDE DEF i
  <2> QED BY <1>1, <2>1, <2>2, TableAfterInsertion
<1> HIDE DEF i
<1>6. current \in DOMAIN i /\ DOMAIN i = 1 .. Len(i) /\ DOMAIN tables = 1 .. Len(tables)
      /\ Len(i) \in Nat
  BY <1>4, TableFields
<1>7. TablesOK(p) /\ Len(p) = Len(i) + 1 /\ Grows(i, p) /\ p[Len(p)].parent = current
  BY <1>1, <1>4, <1>6, PushedKeeps
<1>8. IsPushed(i, p, "function", f)
  <2>1. p = Pushed(i, "function", f)
    OBVIOUS
  <2> HIDE DEF p
  <2> QED BY <1>1, <1>4, <1>6, <2>1, TableAfterPush
<1> HIDE DEF p
<1>9. p \in Seq(Table) /\ Len(p) \in Nat \ {0} /\ DOMAIN p = 1 .. Len(p) /\ p[Len(p)] \in Table
  BY <1>7, TableFields
<1>10. /\ new.type = "function" /\ new.name = f /\ new.variables = V
       /\ new.user_types = NoSymbol /\ new.functions = NoSymbol
  BY <1>8, <1>9 DEF IsPushed, Table
<1>11. DOMAIN r = DOMAIN p /\ r[Len(p)] = new /\ \A t \in DOMAIN i : r[t] = p[t]
  <2>1. Len(p) = Len(i) + 1
    BY <1>8 DEF IsPushed
  <2>2. \A t \in DOMAIN i : t \in DOMAIN p /\ t # Len(p)
    BY <1>6, <1>9, <2>1
  <2> HIDE DEF new
  <2> QED BY <1>9, <2>2
<1>12. Len(r) = Len(p)
  <2> DEFINE N == Len(p)
  <2>1. p \in Seq(Table) /\ N \in 1 .. Len(p)
    BY <1>9
  <2>2. r = [p EXCEPT ![N] = new] /\ new \in Table
    <3>1. V \in [Name -> Nat]
      <4>1. ParametersOf(f) \subseteq Nat
        BY SeqFacts DEF ParametersOf
      <4> QED BY <4>1, FirstNamedType DEF V
    <3> QED BY <1>9, <3>1 DEF Table
  <2> HIDE DEF N, r, new
  <2> QED BY <2>1, <2>2, ExceptSeq
<1> HIDE DEF new, r
<1>13. \A t \in DOMAIN tables : TableAfter(tables, r, b, f, t)
  BY <1>4, <1>5, <1>6, <1>8, <1>11 DEF IsPushed, SameMaps, TableAfter
<1>14. Len(p) = Len(tables) + 1
  BY <1>4, <1>8 DEF IsPushed
<1> QED BY <1>2, <1>3, <1>10, <1>11, <1>12, <1>13, <1>14

\* The table of a function whose scope was just opened has its parameters.
LEMMA BodyExact ==
  ASSUME ast \in Seq(Node), NEW f \in DOMAIN ast, ast[f].kind = "function",
         \A n \in DOMAIN ast : n > f => ast[n].kind # "function",
         NEW b \in Seq(Node), Kept(ast, b),
         \A n \in DOMAIN b : n \notin DOMAIN ast => b[n].kind = "scope",
         NEW t, \A n \in DOMAIN ast : ast[n].table # t,
         NEW d, CompleteIn(d, f), NEW all2,
         all2[t].type = "function", all2[t].name = f,
         all2[t].user_types = NoSymbol, all2[t].functions = NoSymbol,
         \A name \in Name :
           all2[t].variables[name] = Least({n \in ParametersOf(f) : ast[n].name = name})
  PROVE  ExactAt(d, all2, b, t) /\ FunctionTableOK(d, all2, b, t)
<1>1. /\ DOMAIN ast = 1 .. Len(ast) /\ Len(ast) \in Nat /\ DOMAIN b = 1 .. Len(b)
      /\ Len(b) \in Nat /\ DOMAIN ast \subseteq DOMAIN b
  BY SeqFacts DEF Kept
<1>2. ASSUME NEW n \in DOMAIN ast, ast[n].kind = "parameter"
      PROVE  FunctionBefore(b, n) = f <=> n > f
  <2>1. FunctionBefore(b, n) = FunctionBefore(ast, n) /\ n \in Nat /\ f \in Nat \ {0}
    BY <1>1, FunctionBeforeKept
  <2>2. ASSUME n > f PROVE FunctionBefore(ast, n) = f
    <3>1. f \in 1 .. n /\ \A m \in 1 .. n : m > f => ast[m].kind # "function"
      BY <1>1, <2>1, <2>2
    <3> QED BY <2>1, <3>1, FunctionBeforeIs
  <2>3. ASSUME ~ (n > f) PROVE FunctionBefore(ast, n) # f
    <3> DEFINE S == {m \in 1 .. n : ast[m].kind = "function"}
    <3>1. f \notin S
      BY <1>1, <1>2, <2>1, <2>3
    <3>2. CASE S = {}
      BY <2>1, <3>2 DEF FunctionBefore, LastOf, Null
    <3>3. CASE S # {}
      <4>1. PICK m \in S : \A k \in S : k <= m
        <5>1. S \subseteq 1 .. n
          OBVIOUS
        <5> HIDE DEF S
        <5> QED BY <2>1, <3>3, <5>1, MaximumExists
      <4>2. S \subseteq Nat
        BY <2>1
      <4>3. LastOf(S) = m
        <5> HIDE DEF S
        <5> QED BY <4>1, <4>2, LastOfIsMaximum
      <4> QED BY <3>1, <4>1, <4>3 DEF FunctionBefore
    <3> QED BY <3>2, <3>3
  <2> QED BY <2>1, <2>2, <2>3
<1>3. ASSUME NEW n \in DOMAIN b, b[n].kind # "scope"
      PROVE  n \in DOMAIN ast /\ b[n].kind = ast[n].kind /\ b[n].name = ast[n].name
             /\ b[n].table # t
  BY <1>3 DEF Kept
<1>4. ASSUME NEW name
      PROVE  Parameters(all2, b, t, name) = {n \in ParametersOf(f) : ast[n].name = name}
  <2>1. ASSUME NEW n \in Parameters(all2, b, t, name)
        PROVE  n \in ParametersOf(f) /\ ast[n].name = name
    BY <1>2, <1>3, <2>1 DEF Parameters, ParametersOf
  <2>2. ASSUME NEW n \in ParametersOf(f), ast[n].name = name
        PROVE  n \in Parameters(all2, b, t, name)
    BY <1>1, <1>2, <2>2 DEF Parameters, ParametersOf, Kept
  <2> QED BY <2>1, <2>2
<1>5. ExactAt(d, all2, b, t)
  <2> SUFFICES ASSUME NEW name \in Name
               PROVE  /\ all2[t].user_types[name] = Least(Declared(d, b, t, UserTypes, name))
                      /\ all2[t].functions[name] = Least(Declared(d, b, t, {"function"}, name))
                      /\ all2[t].variables[name]
                           = Least(Declared(d, b, t, {"variable"}, name)
                                     \cup Parameters(all2, b, t, name))
    BY DEF ExactAt
  <2>1. /\ Declared(d, b, t, UserTypes, name) = {}
        /\ Declared(d, b, t, {"function"}, name) = {}
        /\ Declared(d, b, t, {"variable"}, name) = {}
    BY <1>3 DEF Declared, UserTypes
  <2>2. Least({}) = Null /\ NoSymbol[name] = Null
    BY DEF Least, NoSymbol
  <2> QED BY <1>4, <2>1, <2>2
<1>6. FunctionTableOK(d, all2, b, t)
  <2>1. ASSUME NEW m \in DOMAIN b, NEW n \in DOMAIN b, b[m].kind = "parameter",
               b[n].table = t
        PROVE  m < n
    <3>1. m \in DOMAIN ast
      BY <1>3, <2>1
    <3>2. n \notin DOMAIN ast
      BY <2>1 DEF Kept
    <3> QED BY <1>1, <3>1, <3>2
  <2> QED BY <1>1, <2>1 DEF FunctionTableOK
<1> QED BY <1>5, <1>6

-----------------------------------------------------------------------------
(* The state *)

LEMMA TopFacts ==
  ASSUME IInv, XInv, status # "done"
  PROVE  /\ tables \in Seq(Table) /\ ast \in Seq(Node)
         /\ calls \in Seq(Frame) /\ calls # <<>> /\ Len(calls) \in Nat \ {0}
         /\ Top = Last(calls) /\ Top = calls[Len(calls)] /\ Top \in Frame
         /\ Top.node \in DOMAIN ast /\ Top.node \in Nat \ {0}
         /\ current \in DOMAIN tables /\ current \in Nat
         /\ FramesOK(calls, tables, ast)
         /\ \A i \in 1 .. Len(calls) :
              /\ FrameOK(calls[i], tables, ast)
              /\ calls[i].node \in DOMAIN ast /\ calls[i].table <= current
         /\ ast[Top.node].kind = KindOf(Top.proc)
         /\ ast[Top.node].table = IF Top.proc \in {"struct", "union"}
                                    THEN tables[current].parent ELSE current
         /\ \A n \in DOMAIN ast : n > Top.node => Since(Top, ast[n], ast)
<1>1. /\ CallsOK(calls, tables, ast, current) /\ TablesOK(tables) /\ ast \in Seq(Node)
      /\ calls \in Seq(Frame) /\ calls # <<>> /\ Len(calls) \in Nat \ {0}
      /\ Top = calls[Len(calls)] /\ Top \in Frame /\ Top.node \in DOMAIN ast
      /\ current \in DOMAIN tables /\ current \in Nat /\ Top.table = current
  BY StateFacts
<1>2. tables \in Seq(Table) /\ Top.node \in Nat \ {0}
  BY <1>1, SeqFacts DEF TablesOK
<1>3. FramesOK(calls, tables, ast) /\ Top = Last(calls)
  BY DEF XInv, SymbolsOK, Top
<1>4. \A i \in 1 .. Len(calls) : FrameOK(calls[i], tables, ast)
  BY <1>1 DEF CallsOK
<1>5. \A i \in 1 .. Len(calls) : calls[i].table <= current
  <2> TAKE i \in 1 .. Len(calls)
  <2>1. CASE i = Len(calls)
    BY <1>1, <2>1
  <2>2. CASE i # Len(calls)
    <3>1. i < Len(calls) /\ Len(calls) \in 1 .. Len(calls)
      BY <1>1, <2>2
    <3>2. Below(calls[i], calls[Len(calls)])
      BY <1>3, <3>1 DEF FramesOK
    <3> QED BY <1>1, <3>2 DEF Below
  <2> QED BY <2>1, <2>2
<1>6. Fits(Top, tables, ast) /\ \A n \in DOMAIN ast : n > Top.node => Since(Top, ast[n], ast)
  <2> DEFINE k == Len(calls)
  <2>1. k \in 1 .. Len(calls) /\ Top = calls[k]
    BY <1>1
  <2> HIDE DEF k
  <2> QED BY <1>3, <2>1 DEF FramesOK
<1> QED BY <1>1, <1>2, <1>3, <1>4, <1>5, <1>6 DEF Fits, FrameOK

\* In a body, what is under way was begun in the tables around.
LEMMA BodyFacts ==
  ASSUME IInv, XInv, status # "done", Top.proc \in InBody
  PROVE  /\ \A i \in 1 .. Len(calls) :
              calls[i].proc # "scope" => ast[calls[i].node].table # current
         /\ Top.proc = "scope" => \A i \in 1 .. Len(calls) : calls[i].proc = "scope"
<1>1. /\ calls \in Seq(Frame) /\ Len(calls) \in Nat \ {0} /\ Top = calls[Len(calls)]
      /\ FramesOK(calls, tables, ast) /\ current \in Nat
      /\ \A i \in 1 .. Len(calls) : FrameOK(calls[i], tables, ast)
  BY TopFacts
<1>2. /\ \A u \in DOMAIN tables : tables[u].parent \in Nat /\ tables[u].parent < u /\ u \in Nat
      /\ Top.table = current /\ current \in DOMAIN tables
  <2>1. TablesOK(tables) /\ Top.table = current /\ current \in DOMAIN tables
    BY StateFacts
  <2>2. DOMAIN tables \subseteq Nat
    BY <2>1, SeqFacts DEF TablesOK
  <2> QED BY <2>1, <2>2, TableFields
<1>3. ASSUME NEW i \in 1 .. Len(calls), calls[i].proc # "scope"
      PROVE  ast[calls[i].node].table # current
  <2>1. /\ calls[i].table \in DOMAIN tables
        /\ ast[calls[i].node].table = IF calls[i].proc \in {"struct", "union"}
                                        THEN tables[calls[i].table].parent
                                        ELSE calls[i].table
    BY <1>1 DEF FramesOK, Fits, FrameOK
  <2>2. CASE i = Len(calls)
    BY <1>1, <1>2, <1>3, <2>1, <2>2 DEF InBody
  <2>3. CASE i # Len(calls)
    <3>1. calls[i].table < current
      BY <1>1, <1>2, <2>3 DEF FramesOK, Below
    <3> QED BY <1>2, <2>1, <3>1
  <2> QED BY <2>2, <2>3
<1>4. ASSUME Top.proc = "scope", NEW i \in 1 .. Len(calls) PROVE calls[i].proc = "scope"
  <2>1. CASE i = Len(calls)
    BY <1>1, <1>4, <2>1
  <2>2. CASE i # Len(calls)
    BY <1>1, <1>4, <2>2 DEF FramesOK, Below
  <2> QED BY <2>1, <2>2
<1> QED BY <1>3, <1>4

\* Only nodes that declare nothing are allocated.
Silently(b) ==
  /\ Kept(ast, b)
  /\ \A n \in DOMAIN b : n \notin DOMAIN ast => Silent(b[n]) /\ b[n].table \in DOMAIN tables

LEMMA SilentFacts ==
  ASSUME NEW b \in Seq(Node), Silently(b), NEW c
  PROVE  /\ Kept(ast, b) /\ ParametersPending(c, ast, b)
         /\ \A n \in DOMAIN b : n \notin DOMAIN ast => ~ Declares(b[n])
         /\ \A f \in Frame, n \in DOMAIN b : n \notin DOMAIN ast => Since(f, b[n], b)
BY DEF Silently, Silent, ParametersPending, Since

LEMMA SilentStep ==
  ASSUME IInv, XInv, status # "done", NEW b \in Seq(Node), Silently(b)
  PROVE  SymbolsOK(calls, tables, b)
<1>1. /\ tables \in Seq(Table) /\ ast \in Seq(Node) /\ calls \in Seq(Frame)
      /\ FramesOK(calls, tables, ast) /\ TablesOK(tables)
      /\ \A i \in 1 .. Len(calls) : FrameOK(calls[i], tables, ast)
  BY TopFacts, StateFacts
<1>2. /\ Kept(ast, b) /\ ParametersPending(calls, ast, b)
      /\ \A n \in DOMAIN b : n \notin DOMAIN ast => ~ Declares(b[n])
      /\ \A f \in Frame, n \in DOMAIN b : n \notin DOMAIN ast => Since(f, b[n], b)
  BY SilentFacts
<1>3. FramesOK(calls, tables, b)
  <2>1. Grows(tables, tables)
    BY <1>1, GrowsReflexive
  <2>2. \A i \in 1 .. Len(calls) : calls[i] \in Frame
    BY <1>1, ElementOfSeq
  <2> QED BY <1>1, <1>2, <2>1, <2>2, FramesGrow
<1>4. Completes(calls, ast, calls, b, Null) /\ Newest(b, Null)
  BY <1>1, <1>2, FreesNothing, CompletesPlain DEF Newest
<1>5. \A t \in DOMAIN tables : TableAfter(tables, tables, b, Null, t)
  BY TableAfterNothing
<1>6. SymbolsOK(calls, tables, ast) /\ Len(tables) <= Len(tables)
  BY <1>1, SeqFacts DEF XInv
<1>7. \A n \in DOMAIN b : n \notin DOMAIN ast => b[n].table \in DOMAIN tables
  BY DEF Silently
<1> QED BY <1>1, <1>2, <1>3, <1>4, <1>5, <1>6, <1>7, SymbolsAfter

\* A function goes on to its next phase.
LEMMA PhaseStep ==
  ASSUME NEW c \in Seq(Frame), c # <<>>, NEW all, NEW b, SymbolsOK(c, all, b),
         NEW proc, [Last(c) EXCEPT !.proc = proc] \in Frame,
         proc \notin InBody, Last(c).proc \notin InBody,
         KindOf(proc) = KindOf(Last(c).proc),
         proc \in FunctionPhases <=> Last(c).proc \in FunctionPhases
  PROVE  SymbolsOK([c EXCEPT ![Len(c)].proc = proc], all, b)
<1> DEFINE d == [c EXCEPT ![Len(c)].proc = proc]
<1>1. FramesOK(d, all, b)
  BY FramesBecome DEF SymbolsOK
<1>2. \A n : CompleteIn(d, n) <=> CompleteIn(c, n)
  BY CompleteInPhase
<1> HIDE DEF d
<1>3. FunctionTablesOK(d, all, b)
  BY <1>2 DEF SymbolsOK, FunctionTablesOK, FunctionTableOK
<1>4. \A t, kinds, name : Declared(d, b, t, kinds, name) = Declared(c, b, t, kinds, name)
  BY <1>2 DEF Declared
<1>5. \A t \in DOMAIN all : ExactAt(d, all, b, t)
  BY <1>4 DEF SymbolsOK, ExactAt
<1>6. SymbolsOK(d, all, b)
  BY <1>1, <1>3, <1>5 DEF SymbolsOK
<1> QED BY <1>6 DEF d

\* A function returns, and what it read is complete.
LEMMA ReturnStep ==
  ASSUME IInv, XInv, status # "done", NEW b \in Seq(Node), Silently(b),
         NEW all2, TablesOK(all2), Len(all2) = Len(tables), Grows(tables, all2),
         \A t \in DOMAIN tables : TableAfter(tables, all2, b, Top.node, t)
  PROVE  SymbolsOK(Front(calls), all2, b)
<1>1. /\ tables \in Seq(Table) /\ ast \in Seq(Node) /\ calls \in Seq(Frame) /\ calls # <<>>
      /\ FramesOK(calls, tables, ast) /\ all2 \in Seq(Table)
      /\ \A i \in 1 .. Len(calls) : FrameOK(calls[i], tables, ast)
      /\ Top = Last(calls) /\ Top.node \in DOMAIN ast
  BY TopFacts DEF TablesOK
<1>2. /\ Kept(ast, b) /\ ParametersPending(calls, ast, b)
      /\ \A n \in DOMAIN b : n \notin DOMAIN ast => ~ Declares(b[n])
      /\ \A f \in Frame, n \in DOMAIN b : n \notin DOMAIN ast => Since(f, b[n], b)
  BY SilentFacts
<1>3. FramesOK(Front(calls), all2, b)
  <2>1. \A i \in 1 .. Len(calls) : calls[i] \in Frame
    BY <1>1, ElementOfSeq
  <2>2. FramesOK(calls, all2, b)
    BY <1>1, <1>2, <2>1, FramesGrow
  <2> QED BY <1>1, <2>2, FramesPop
<1>4. Completes(calls, ast, Front(calls), b, Top.node)
  BY <1>1, <1>2, FreesTop, CompletesPlain
<1>5. Newest(b, Top.node) /\ Top.node \in DOMAIN b
  <2>1. /\ ast[Top.node].kind = KindOf(Top.proc) /\ Top.node \in Nat
        /\ \A n \in DOMAIN ast : n > Top.node => Since(Top, ast[n], ast)
    BY TopFacts
  <2>2. DOMAIN ast \subseteq Nat /\ DOMAIN ast \subseteq DOMAIN b
    BY <1>1, <1>2, SeqFacts DEF Kept
  <2>3. ASSUME Declares(b[Top.node]), NEW n \in DOMAIN b, Declares(b[n]),
               b[n].table = b[Top.node].table
        PROVE  n <= Top.node
    <3>1. Top.proc # "scope"
      BY <1>1, <1>2, <2>1, <2>3 DEF Declares, Declarations, UserTypes, Kept, KindOf,
         InBody
    <3>2. n \in DOMAIN ast /\ Declares(ast[n]) /\ ast[n].table = ast[Top.node].table
      BY <1>1, <1>2, <2>3 DEF Declares, Kept
    <3> QED BY <2>1, <2>2, <3>1, <3>2 DEF Since
  <2> QED BY <1>1, <2>2, <2>3 DEF Newest
<1>6. DOMAIN all2 = DOMAIN tables /\ Len(tables) <= Len(all2)
  BY <1>1, SeqFacts
<1>7. \A n \in DOMAIN b : n \notin DOMAIN ast => b[n].table \in DOMAIN all2
  BY <1>6 DEF Silently
<1>8. SymbolsOK(calls, tables, ast)
  BY DEF XInv
<1> QED BY <1>1, <1>2, <1>3, <1>4, <1>5, <1>6, <1>7, <1>8, SymbolsAfter

\* One node, and two.
OneMore(s, r, x) ==
  /\ r \in Seq(Node) /\ Kept(s, r) /\ Len(r) = Len(s) + 1
  /\ Len(s) + 1 \in DOMAIN r /\ Len(s) + 1 \notin DOMAIN s /\ Len(s) + 1 \in Nat \ {0}
  /\ r[Len(s) + 1] = x
  /\ \A n \in DOMAIN r : n \notin DOMAIN s => n = Len(s) + 1
TwoMore(s, r, x, y) ==
  /\ r \in Seq(Node) /\ Kept(s, r)
  /\ Len(s) + 1 \in DOMAIN r /\ Len(s) + 1 \notin DOMAIN s /\ Len(s) + 1 \in Nat \ {0}
  /\ r[Len(s) + 1] = x
  /\ \A n \in DOMAIN r : n \notin DOMAIN s => n = Len(s) + 1 \/ r[n] = y

LEMMA OneNode ==
  ASSUME NEW s \in Seq(Node), NEW x \in Node, NEW r, r = Append(s, x)
  PROVE  OneMore(s, r, x)
<1>1. /\ r \in Seq(Node) /\ Len(r) = Len(s) + 1 /\ r[Len(s) + 1] = x
      /\ \A i \in 1 .. Len(s) : r[i] = s[i]
  BY AppendProperties
<1>2. Len(s) \in Nat /\ DOMAIN s = 1 .. Len(s) /\ DOMAIN r = 1 .. Len(s) + 1
  BY <1>1, SeqFacts
<1>3. Kept(s, r)
  BY <1>1, <1>2 DEF Kept
<1> QED BY <1>1, <1>2, <1>3 DEF OneMore

LEMMA TwoNodes ==
  ASSUME NEW s \in Seq(Node), NEW x \in Node, NEW y \in Node, NEW r, r = s \o <<x, y>>
  PROVE  TwoMore(s, r, x, y)
<1> DEFINE p == <<x, y>>
<1>1. p \in Seq(Node) /\ Len(p) = 2 /\ p[1] = x /\ p[2] = y /\ r = s \o p
  OBVIOUS
<1> HIDE DEF p
<1>2. /\ r \in Seq(Node) /\ Len(r) = Len(s) + 2
      /\ \A i \in 1 .. Len(s) + 2 : r[i] = IF i <= Len(s) THEN s[i] ELSE p[i - Len(s)]
  BY <1>1, ConcatProperties
<1>3. Len(s) \in Nat /\ DOMAIN s = 1 .. Len(s) /\ DOMAIN r = 1 .. Len(s) + 2
  BY <1>2, SeqFacts
<1>4. \A i \in 1 .. Len(s) : r[i] = s[i]
  BY <1>2, <1>3
<1>5. Kept(s, r)
  BY <1>2, <1>3, <1>4 DEF Kept
<1>6. r[Len(s) + 1] = x
  <2> DEFINE k == Len(s) + 1
  <2>1. k \in 1 .. Len(s) + 2 /\ ~ (k <= Len(s)) /\ k - Len(s) = 1
    BY <1>3
  <2> HIDE DEF k
  <2>2. r[k] = x
    BY <1>1, <1>2, <2>1
  <2> QED BY <2>2 DEF k
<1>7. \A n \in DOMAIN r : n \notin DOMAIN s => n = Len(s) + 1 \/ r[n] = y
  <2> SUFFICES ASSUME NEW n \in DOMAIN r, n \notin DOMAIN s, n # Len(s) + 1
               PROVE  r[n] = y
    OBVIOUS
  <2>1. n \in 1 .. Len(s) + 2 /\ ~ (n <= Len(s)) /\ n - Len(s) = 2
    BY <1>3
  <2> QED BY <1>1, <1>2, <2>1
<1>8. Len(s) + 1 \in DOMAIN r /\ Len(s) + 1 \notin DOMAIN s /\ Len(s) + 1 \in Nat \ {0}
  BY <1>3
<1> QED BY <1>2, <1>5, <1>6, <1>7, <1>8 DEF TwoMore

LEMMA NewNodeFields ==
  ASSUME NEW kind, NEW name
  PROVE  LET x == NewNode(kind, name)
         IN  x.kind = kind /\ x.name = name /\ x.table = current
BY DEF NewNode

\* A parameter is one of the function whose parameters are read.
LEMMA ParameterIsPending ==
  ASSUME IInv, XInv, status # "done", Top.proc = "parameters",
         NEW b \in Seq(Node), Kept(ast, b), NEW m \in DOMAIN b, m = Len(ast) + 1,
         b[m].kind = "parameter"
  PROVE  ~ CompleteIn(calls, FunctionBefore(b, m))
<1>1. /\ Top = calls[Len(calls)] /\ Len(calls) \in Nat \ {0}
      /\ Top.node \in DOMAIN ast /\ ast \in Seq(Node) /\ ast[Top.node].kind = "function"
      /\ \A n \in DOMAIN ast : n > Top.node => ast[n].kind # "function"
  <2>1. /\ Top = calls[Len(calls)] /\ Len(calls) \in Nat \ {0}
        /\ Top.node \in DOMAIN ast /\ ast \in Seq(Node)
        /\ ast[Top.node].kind = KindOf(Top.proc)
        /\ \A n \in DOMAIN ast : n > Top.node => Since(Top, ast[n], ast)
    BY TopFacts
  <2> QED BY <2>1 DEF KindOf, InBody, Since, FunctionPhases
<1>2. DOMAIN ast = 1 .. Len(ast) /\ Len(ast) \in Nat
  BY <1>1, SeqFacts
<1>3. m \in Nat /\ Top.node \in 1 .. m /\ b[Top.node].kind = "function"
  BY <1>1, <1>2 DEF Kept
<1>4. ASSUME NEW n \in 1 .. m, n > Top.node PROVE b[n].kind # "function"
  <2>1. CASE n = m
    BY <2>1
  <2>2. CASE n # m
    <3>1. n \in DOMAIN ast
      BY <1>2, <2>2
    <3> QED BY <1>1, <1>4, <3>1 DEF Kept
  <2> QED BY <2>1, <2>2
<1>5. FunctionBefore(b, m) = Top.node
  BY <1>3, <1>4, FunctionBeforeIs
<1>6. Len(calls) \in 1 .. Len(calls)
  BY <1>1
<1> QED BY <1>1, <1>5, <1>6 DEF CompleteIn

\* A function that declares no scope is called, on a new node.
LEMMA CallStep ==
  ASSUME IInv, XInv, status # "done", NEW kind, NEW proc, NEW name \in Name,
         \/ kind = "variable" /\ proc = "variable" /\ Top.proc \in InBody
         \/ kind = "function" /\ proc = "parameters" /\ Top.proc = "scope"
         \/ kind = "parameter" /\ proc = "parameter" /\ Top.proc = "parameters",
         NEW b, b = Append(ast, NewNode(kind, name))
  PROVE  SymbolsOK(Append(calls, Call(proc, Fresh)), tables, b)
<1> DEFINE f == Call(proc, Fresh)  x == NewNode(kind, name)
<1>1. /\ tables \in Seq(Table) /\ ast \in Seq(Node) /\ calls \in Seq(Frame)
      /\ FramesOK(calls, tables, ast) /\ TablesOK(tables) /\ current \in Nat
      /\ \A i \in 1 .. Len(calls) :
           FrameOK(calls[i], tables, ast) /\ calls[i].node \in DOMAIN ast
           /\ calls[i].table <= current
      /\ current \in DOMAIN tables
  BY TopFacts, StateFacts
<1>2. x \in Node /\ x.kind = kind /\ x.name = name /\ x.table = current /\ name # NONE
  BY <1>1, NewNodeType, NewNodeFields, NameAssumption
<1> HIDE DEF x
<1>3. /\ b \in Seq(Node) /\ Kept(ast, b) /\ Len(b) = Fresh /\ Fresh \in DOMAIN b
      /\ Fresh \notin DOMAIN ast /\ Fresh \in Nat \ {0} /\ b[Fresh] = x
      /\ \A n \in DOMAIN b : n \notin DOMAIN ast => n = Fresh
  <2>1. b = Append(ast, x)
    BY DEF x
  <2>2. OneMore(ast, b, x)
    BY <1>1, <1>2, <2>1, OneNode
  <2> QED BY <2>2 DEF OneMore, Fresh
<1>4. f \in Frame /\ f.proc = proc /\ f.node = Fresh /\ f.table = current
  BY <1>1, <1>3 DEF Call, CallIn, Frame, InType
<1> HIDE DEF f
<1>5. \A i \in 1 .. Len(calls) : Since(calls[i], x, b)
  <2> TAKE i \in 1 .. Len(calls)
  <2>1. CASE kind = "parameter"
    BY <1>2, <2>1 DEF Since, Declares, Declarations, UserTypes
  <2>2. CASE kind = "variable" /\ Top.proc \in InBody
    <3>1. calls[i].proc # "scope" => b[calls[i].node].table # current
      BY <1>1, <1>3, <2>2, BodyFacts DEF Kept
    <3> QED BY <1>2, <2>2, <3>1 DEF Since
  <2>3. CASE kind = "function" /\ Top.proc = "scope"
    <3>1. calls[i].proc = "scope"
      BY <2>3, BodyFacts DEF InBody
    <3> QED BY <3>1 DEF Since, FunctionPhases
  <2> QED BY <2>1, <2>2, <2>3
<1>6. FramesOK(calls, tables, b)
  <2>1. Grows(tables, tables)
    BY <1>1, GrowsReflexive
  <2>2. \A i \in 1 .. Len(calls), m \in DOMAIN b :
          m \notin DOMAIN ast => Since(calls[i], b[m], b)
    BY <1>3, <1>5
  <2> QED BY <1>1, <1>3, <2>1, <2>2, FramesGrow
<1>7. FramesOK(Append(calls, f), tables, b)
  <2>1. Fits(f, tables, b)
    <3>1. KindOf(proc) = kind /\ proc \notin {"struct", "union"}
      BY DEF KindOf, InBody
    <3> QED BY <1>2, <1>3, <1>4, <3>1 DEF Fits
  <2>2. \A i \in 1 .. Len(calls) : calls[i].node < f.node
    BY <1>1, <1>3, <1>4, SeqFacts DEF Fresh
  <2>3. ASSUME proc \in {"scope"} \cup FunctionPhases, NEW i \in 1 .. Len(calls)
        PROVE  calls[i].proc = "scope"
    <3>1. Top.proc = "scope"
      BY <2>3 DEF FunctionPhases
    <3> QED BY <3>1, BodyFacts DEF InBody
  <2>4. proc \notin InBody
    BY DEF InBody
  <2>5. \A i \in 1 .. Len(calls) :
          /\ calls[i].node < f.node /\ calls[i].table <= f.table
          /\ f.proc \in InBody => calls[i].table < f.table
          /\ f.proc \in {"scope"} \cup FunctionPhases => calls[i].proc = "scope"
    BY <1>1, <1>4, <2>2, <2>3, <2>4
  <2>6. f.node = Len(b)
    BY <1>3, <1>4
  <2> QED BY <1>1, <1>3, <1>4, <1>6, <2>1, <2>5, <2>6, FramesPush
<1>8. Completes(calls, ast, Append(calls, f), b, Null) /\ Newest(b, Null)
  <2>1. Frees(calls, calls, ast, Null)
    BY <1>1, FreesNothing
  <2>2. f.node # Null
    BY <1>3, <1>4 DEF Null
  <2> QED BY <1>1, <1>3, <1>4, <2>1, <2>2, CompletesPush DEF Newest
<1>9. ParametersPending(calls, ast, b)
  <2> SUFFICES ASSUME kind = "parameter" PROVE ~ CompleteIn(calls, FunctionBefore(b, Fresh))
    BY <1>2, <1>3 DEF ParametersPending
  <2>1. Fresh = Len(ast) + 1 /\ b[Fresh].kind = "parameter" /\ Top.proc = "parameters"
    BY <1>2, <1>3 DEF Fresh
  <2> QED BY <1>3, <2>1, ParameterIsPending
<1>10. \A t \in DOMAIN tables : TableAfter(tables, tables, b, Null, t)
  BY TableAfterNothing
<1>11. /\ SymbolsOK(calls, tables, ast) /\ Len(tables) <= Len(tables)
       /\ \A n \in DOMAIN b : n \notin DOMAIN ast => b[n].table \in DOMAIN tables
  BY <1>1, <1>2, <1>3, SeqFacts DEF XInv
<1>12. SymbolsOK(Append(calls, f), tables, b)
  BY <1>1, <1>3, <1>7, <1>8, <1>9, <1>10, <1>11, SymbolsAfter
<1> QED BY <1>12 DEF f

\* A scope is entered, from the stack c.
LEMMA EnterStep ==
  ASSUME IInv, XInv, status # "done", NEW v, v = Null \/ v \in DOMAIN ast,
         NEW c \in Seq(Frame), Frees(calls, c, ast, v), FramesOK(c, tables, ast),
         \A i \in 1 .. Len(c) : FrameOK(c[i], tables, ast) /\ c[i].table <= current,
         NEW proc \in InBody, proc = "scope" => \A i \in 1 .. Len(c) : c[i].proc = "scope",
         NEW all2, TablesOK(all2), Len(all2) = Len(tables) + 1, Grows(tables, all2),
         all2[Len(all2)].parent = current,
         NEW x \in Node, x.kind = proc,
         x.table = IF proc = "scope" THEN Len(all2) ELSE current,
         Declares(x) => c = calls /\ Top.proc \in InBody,
         NEW b, OneMore(ast, b, x), NEW f, f = CallIn(proc, Fresh, Len(all2)),
         \A t \in DOMAIN tables : TableAfter(tables, all2, b, v, t), Newest(b, v),
         ExactAt(Append(c, f), all2, b, Len(all2)),
         all2[Len(all2)].type = "function"
           => FunctionTableOK(Append(c, f), all2, b, Len(all2))
  PROVE  SymbolsOK(Append(c, f), all2, b)
<1>1. /\ tables \in Seq(Table) /\ ast \in Seq(Node) /\ current \in Nat
      /\ current \in DOMAIN tables /\ TablesOK(tables)
  BY TopFacts, StateFacts
<1>2. /\ all2 \in Seq(Table) /\ Len(tables) \in Nat \ {0} /\ Len(all2) \in Nat \ {0}
      /\ DOMAIN tables = 1 .. Len(tables) /\ DOMAIN all2 = 1 .. Len(all2)
      /\ current < Len(all2) /\ Len(all2) \in DOMAIN all2
      /\ \A t \in DOMAIN all2 : t \notin DOMAIN tables => t = Len(all2)
  <2>1. all2 \in Seq(Table) /\ Len(tables) \in Nat \ {0} /\ Len(all2) \in Nat \ {0}
        /\ DOMAIN tables = 1 .. Len(tables) /\ DOMAIN all2 = 1 .. Len(all2)
    BY <1>1, TableFields
  <2>2. current \in 1 .. Len(tables) /\ Len(all2) = Len(tables) + 1
    BY <1>1, <2>1
  <2>3. current < Len(all2) /\ Len(all2) \in DOMAIN all2
    BY <2>1, <2>2
  <2>4. \A t \in DOMAIN all2 : t \notin DOMAIN tables => t = Len(all2)
    BY <2>1, <2>2
  <2> QED BY <2>1, <2>3, <2>4
<1>3. /\ b \in Seq(Node) /\ Kept(ast, b) /\ Len(b) = Fresh /\ Fresh \in DOMAIN b
      /\ Fresh \notin DOMAIN ast /\ Fresh \in Nat \ {0} /\ b[Fresh] = x
      /\ \A n \in DOMAIN b : n \notin DOMAIN ast => n = Fresh
  BY DEF OneMore, Fresh
<1>4. f \in Frame /\ f.proc = proc /\ f.node = Fresh /\ f.table = Len(all2)
  BY <1>2, <1>3 DEF CallIn, Frame
<1>5. \A i \in 1 .. Len(c) : Since(c[i], x, b)
  <2> TAKE i \in 1 .. Len(c)
  <2>1. x.kind # "function"
    BY DEF InBody
  <2>2. CASE Declares(x)
    <3>1. x.table = current /\ c = calls /\ Top.proc \in InBody
      BY <2>2 DEF Declares, Declarations, UserTypes
    <3>2. calls[i].proc # "scope" => ast[calls[i].node].table # current
      BY <3>1, BodyFacts
    <3>3. b[calls[i].node].table = ast[calls[i].node].table
      BY <1>3, <3>1 DEF FrameOK, Kept
    <3> QED BY <2>1, <3>1, <3>2, <3>3 DEF Since
  <2>3. CASE ~ Declares(x)
    BY <2>1, <2>3 DEF Since
  <2> QED BY <2>2, <2>3
<1>6. FramesOK(c, all2, b)
  <2>1. \A i \in 1 .. Len(c), m \in DOMAIN b :
          m \notin DOMAIN ast => Since(c[i], b[m], b)
    BY <1>3, <1>5
  <2> QED BY <1>1, <1>2, <1>3, <2>1, FramesGrow
<1>7. FramesOK(Append(c, f), all2, b)
  <2>1. Fits(f, all2, b)
    <3>1. KindOf(proc) = proc
      BY DEF KindOf
    <3>2. proc = "scope" <=> proc \notin {"struct", "union"}
      BY DEF InBody
    <3> QED BY <1>3, <1>4, <3>1, <3>2 DEF Fits
  <2>2. \A i \in 1 .. Len(c) :
          /\ c[i].node \in DOMAIN ast /\ c[i].table \in DOMAIN tables
          /\ c[i].table <= current
    BY DEF FrameOK
  <2>3. proc \notin FunctionPhases
    BY DEF InBody, FunctionPhases
  <2>4. DOMAIN ast = 1 .. Len(ast) /\ Len(ast) \in Nat
    BY <1>1, SeqFacts
  <2>5. ASSUME NEW i \in 1 .. Len(c)
        PROVE  /\ c[i].node < f.node /\ c[i].table <= f.table
               /\ f.proc \in InBody => c[i].table < f.table
               /\ f.proc \in {"scope"} \cup FunctionPhases => c[i].proc = "scope"
    <3>1. c[i].node < f.node
      BY <1>4, <2>2, <2>4 DEF Fresh
    <3>2. c[i].table < f.table /\ c[i].table <= f.table
      BY <1>1, <1>2, <1>4, <2>2
    <3> QED BY <1>4, <2>3, <3>1, <3>2
  <2>6. f.node = Len(b)
    BY <1>3, <1>4
  <2> QED BY <1>3, <1>4, <1>6, <2>1, <2>5, <2>6, FramesPush
<1>8. Completes(calls, ast, Append(c, f), b, v)
  <2>1. f.node # Null
    BY <1>3, <1>4 DEF Null
  <2> QED BY <1>1, <1>3, <1>4, <2>1, CompletesPush
<1>9. ParametersPending(calls, ast, b)
  BY <1>3 DEF ParametersPending, InBody
<1>10. /\ SymbolsOK(calls, tables, ast) /\ Len(tables) <= Len(all2)
       /\ \A n \in DOMAIN b : n \notin DOMAIN ast => b[n].table \in DOMAIN all2
  BY <1>1, <1>2, <1>3 DEF XInv
<1>11. v = Null \/ v \in DOMAIN b
  BY <1>1, <1>3, SeqFacts DEF Kept
<1>12. \A t \in DOMAIN all2 : t \notin DOMAIN tables =>
         /\ ExactAt(Append(c, f), all2, b, t)
         /\ all2[t].type = "function" => FunctionTableOK(Append(c, f), all2, b, t)
  BY <1>2
<1> DEFINE d == Append(c, f)
<1>13. SymbolsOK(d, all2, b)
  <2>1. /\ FramesOK(d, all2, b) /\ Completes(calls, ast, d, b, v)
        /\ \A t \in DOMAIN all2 : t \notin DOMAIN tables =>
             /\ ExactAt(d, all2, b, t)
             /\ all2[t].type = "function" => FunctionTableOK(d, all2, b, t)
    BY <1>7, <1>8, <1>12
  <2> HIDE DEF d
  <2> QED BY <1>1, <1>2, <1>3, <1>9, <1>10, <1>11, <2>1, SymbolsAfter
<1> QED BY <1>13

\* The scope of a struct, of a union or of a block.
LEMMA OpenStep ==
  ASSUME IInv, XInv, status # "done",
         NEW proc \in InBody, proc = "scope" => Top.proc = "scope",
         NEW name \in Nat, NEW all2, all2 = Pushed(tables, proc, name),
         NEW x \in Node, x.kind = proc,
         x.table = IF proc = "scope" THEN Len(all2) ELSE current,
         Declares(x) => Top.proc \in InBody,
         NEW b, OneMore(ast, b, x)
  PROVE  SymbolsOK(Append(calls, CallIn(proc, Fresh, Len(all2))), all2, b)
<1> DEFINE f == CallIn(proc, Fresh, Len(all2))
<1>1. /\ tables \in Seq(Table) /\ ast \in Seq(Node) /\ calls \in Seq(Frame)
      /\ FramesOK(calls, tables, ast) /\ TablesOK(tables) /\ current \in DOMAIN tables
      /\ \A i \in 1 .. Len(calls) :
           FrameOK(calls[i], tables, ast) /\ calls[i].table <= current
  BY TopFacts, StateFacts
<1>2. proc \in {"module", "function", "struct", "union", "scope"} /\ proc # "function"
  BY DEF InBody
<1>3. /\ TablesOK(all2) /\ Len(all2) = Len(tables) + 1 /\ Grows(tables, all2)
      /\ all2[Len(all2)].parent = current
  BY <1>1, <1>2, PushedKeeps
<1>4. IsPushed(tables, all2, proc, name)
  BY <1>1, <1>2, TableAfterPush
<1>5. \A t \in DOMAIN tables : TableAfter(tables, all2, b, Null, t)
  BY <1>4 DEF IsPushed, SameMaps, TableAfter, Entered
<1>6. /\ Kept(ast, b) /\ b[Fresh] = x /\ \A n \in DOMAIN b : n \notin DOMAIN ast => n = Fresh
  BY DEF OneMore, Fresh
<1>7. ASSUME NEW n \in DOMAIN b, Declares(b[n]) PROVE b[n].table # Len(all2)
  <2>1. /\ \A u \in DOMAIN tables : u < Len(all2) /\ u \in Nat
        /\ Len(all2) \in Nat
    BY <1>1, <1>3, TableFields
  <2>2. CASE n \in DOMAIN ast
    <3>1. b[n].table = ast[n].table /\ ast[n].table \in DOMAIN tables
      BY <1>6, <2>2 DEF Kept, XInv, SymbolsOK
    <3> QED BY <2>1, <3>1
  <2>3. CASE n \notin DOMAIN ast
    <3>1. b[n] = x
      BY <1>6, <2>3
    <3>2. x.table = current
      BY <1>7, <3>1 DEF Declares, Declarations, UserTypes
    <3> QED BY <1>1, <2>1, <3>1, <3>2
  <2> QED BY <2>2, <2>3
<1>8. ExactAt(Append(calls, f), all2, b, Len(all2)) /\ all2[Len(all2)].type # "function"
  <2>1. /\ all2[Len(all2)].type # "function" /\ all2[Len(all2)].variables = NoSymbol
        /\ all2[Len(all2)].user_types = NoSymbol /\ all2[Len(all2)].functions = NoSymbol
    BY <1>2, <1>4 DEF IsPushed
  <2> DEFINE t == Len(all2)  d == Append(calls, f)
  <2>2. /\ all2[t].type # "function" /\ all2[t].variables = NoSymbol
        /\ all2[t].user_types = NoSymbol /\ all2[t].functions = NoSymbol
        /\ \A n \in DOMAIN b : Declares(b[n]) => b[n].table # t
    BY <1>7, <2>1
  <2> HIDE DEF t, d
  <2>3. ExactAt(d, all2, b, t)
    BY <2>2, NewTableExact
  <2> QED BY <2>1, <2>3 DEF t, d
<1>9. /\ Frees(calls, calls, ast, Null) /\ Newest(b, Null)
      /\ proc = "scope" => \A i \in 1 .. Len(calls) : calls[i].proc = "scope"
  BY <1>1, FreesNothing, BodyFacts DEF Newest, InBody
<1> DEFINE v == Null
<1>10. /\ v = Null \/ v \in DOMAIN ast
       /\ Frees(calls, calls, ast, v) /\ Newest(b, v)
       /\ \A t \in DOMAIN tables : TableAfter(tables, all2, b, v, t)
       /\ f = CallIn(proc, Fresh, Len(all2))
  BY <1>5, <1>9
<1> HIDE DEF v, f
<1>11. SymbolsOK(Append(calls, f), all2, b)
  BY <1>1, <1>3, <1>8, <1>9, <1>10, EnterStep
<1> QED BY <1>11 DEF f

\* An alias is read, and is complete at once.
LEMMA AliasStep ==
  ASSUME IInv, XInv, status # "done", Top.proc \in InBody, NEW name \in Name,
         NEW b, b = ast \o <<NewNode("alias", name), NewNode("expression", NONE)>>,
         NEW all2, all2 = InsertUserType(tables, current, name, Fresh)
  PROVE  SymbolsOK(calls, all2, b)
<1> DEFINE x == NewNode("alias", name)  y == NewNode("expression", NONE)
<1>1. /\ tables \in Seq(Table) /\ ast \in Seq(Node) /\ calls \in Seq(Frame)
      /\ FramesOK(calls, tables, ast) /\ TablesOK(tables) /\ current \in DOMAIN tables
      /\ current \in Nat
      /\ \A i \in 1 .. Len(calls) :
           FrameOK(calls[i], tables, ast) /\ calls[i].node \in DOMAIN ast
  BY TopFacts, StateFacts
<1>2. /\ x \in Node /\ x.kind = "alias" /\ x.name = name /\ x.table = current
      /\ y \in Node /\ y.kind = "expression" /\ y.table = current /\ name # NONE
  BY <1>1, NewNodeType, NewNodeFields, NameAssumption
<1> HIDE DEF x, y
<1>3. /\ b \in Seq(Node) /\ Kept(ast, b) /\ Fresh \in DOMAIN b
      /\ Fresh \notin DOMAIN ast /\ Fresh \in Nat \ {0} /\ b[Fresh] = x
      /\ \A n \in DOMAIN b : n \notin DOMAIN ast => n = Fresh \/ b[n] = y
  <2>1. b = ast \o <<x, y>>
    BY DEF x, y
  <2>2. TwoMore(ast, b, x, y)
    BY <1>1, <1>2, <2>1, TwoNodes
  <2> QED BY <2>2 DEF TwoMore, Fresh
<1>4. TablesOK(all2) /\ Len(all2) = Len(tables) /\ Grows(tables, all2)
  BY <1>1, <1>3, InsertKeeps
<1>5. all2 \in Seq(Table) /\ DOMAIN all2 = DOMAIN tables /\ Len(tables) <= Len(all2)
  <2>1. all2 \in Seq(Table)
    BY <1>4 DEF TablesOK
  <2> QED BY <1>1, <1>4, <2>1, SeqFacts
<1>6. ~ Declares(y) /\ Declares(x) /\ x.kind \in UserTypes
  BY <1>2 DEF Declares, Declarations, UserTypes
<1>7. \A i \in 1 .. Len(calls), m \in DOMAIN b :
        m \notin DOMAIN ast => Since(calls[i], b[m], b)
  <2> SUFFICES ASSUME NEW i \in 1 .. Len(calls), NEW m \in DOMAIN b, m \notin DOMAIN ast
               PROVE  Since(calls[i], b[m], b)
    OBVIOUS
  <2>1. CASE m = Fresh
    <3>1. calls[i].proc # "scope" => b[calls[i].node].table # current
      BY <1>1, <1>3, BodyFacts, SMTT(30) DEF Kept
    <3> QED BY <1>2, <1>3, <2>1, <3>1 DEF Since
  <2>2. CASE b[m] = y
    BY <1>2, <1>6, <2>2 DEF Since
  <2> QED BY <1>3, <2>1, <2>2
<1>8. FramesOK(calls, all2, b)
  BY <1>1, <1>3, <1>4, <1>5, <1>7, FramesGrow
<1>9. Completes(calls, ast, calls, b, Fresh)
  BY <1>1, <1>3, <1>6, CompletesNew
<1>10. Newest(b, Fresh)
  <2>1. /\ DOMAIN ast = 1 .. Len(ast) /\ Len(ast) \in Nat
    BY <1>1, SeqFacts
  <2>2. ASSUME NEW n \in DOMAIN b, Declares(b[n]) PROVE n <= Fresh
    <3>1. CASE n \in DOMAIN ast
      BY <2>1, <3>1 DEF Fresh
    <3>2. CASE n \notin DOMAIN ast
      BY <1>3, <1>6, <2>2, <3>2
    <3> QED BY <3>1, <3>2
  <2> QED BY <2>2 DEF Newest
<1>11. ParametersPending(calls, ast, b)
  BY <1>2, <1>3 DEF ParametersPending
<1>12. \A t \in DOMAIN tables : TableAfter(tables, all2, b, Fresh, t)
  <2>1. /\ all2 = InsertUserType(tables, current, b[Fresh].name, Fresh)
        /\ b[Fresh].kind \in UserTypes /\ b[Fresh].table = current
        /\ Declares(b[Fresh]) <=> b[Fresh].name # NONE
    BY <1>2, <1>3, <1>6
  <2> QED BY <1>1, <1>3, <2>1, TableAfterInsertion
<1>13. SymbolsOK(calls, tables, ast)
  BY DEF XInv
<1>14. \A n \in DOMAIN b : n \notin DOMAIN ast => b[n].table \in DOMAIN all2
  BY <1>1, <1>2, <1>3, <1>5
<1> QED BY <1>1, <1>3, <1>5, <1>8, <1>9, <1>10, <1>11, <1>12, <1>13, <1>14, SymbolsAfter

\* The declaration of a function ends with its scope.
LEMMA BodyStep ==
  ASSUME IInv, XInv, status # "done", Top.proc \in {"signature", "modifiers"},
         NEW all2, all2 = WithParameters(Top.node),
         NEW x, x = [NewNode("scope", NONE) EXCEPT !.table = Len(all2)],
         NEW b, b = Append(ast, x)
  PROVE  SymbolsOK(Append(Front(calls), CallIn("scope", Fresh, Len(all2))), all2, b)
<1> DEFINE v == Top.node  c == Front(calls)  f == CallIn("scope", Fresh, Len(all2))
           d == Append(c, f)  t == Len(all2)
<1>1. /\ tables \in Seq(Table) /\ ast \in Seq(Node) /\ calls \in Seq(Frame) /\ calls # <<>>
      /\ Len(calls) \in Nat \ {0} /\ Top = calls[Len(calls)] /\ Top = Last(calls)
      /\ FramesOK(calls, tables, ast) /\ TablesOK(tables) /\ current \in DOMAIN tables
      /\ current \in Nat /\ v \in DOMAIN ast /\ v \in Nat \ {0}
      /\ \A i \in 1 .. Len(calls) :
           FrameOK(calls[i], tables, ast) /\ calls[i].table <= current
  BY TopFacts, StateFacts
<1>2. /\ ast[v].kind = "function" /\ ast[v].table = current
      /\ \A n \in DOMAIN ast : n > v => ast[n].kind # "function" /\ Since(Top, ast[n], ast)
  <2>1. /\ ast[v].kind = KindOf(Top.proc)
        /\ ast[v].table = IF Top.proc \in {"struct", "union"}
                            THEN tables[current].parent ELSE current
        /\ \A n \in DOMAIN ast : n > v => Since(Top, ast[n], ast)
    BY TopFacts
  <2> QED BY <2>1 DEF KindOf, InBody, Since, FunctionPhases
<1>3. /\ TablesOK(all2) /\ Len(all2) = Len(tables) + 1 /\ Grows(tables, all2)
      /\ all2[Len(all2)].parent = current
  BY <1>1, WithParametersKeeps
<1>4. Len(all2) \in Nat \ {0} /\ \A u \in DOMAIN tables : u # Len(all2)
  <2>1. DOMAIN tables = 1 .. Len(tables) /\ Len(tables) \in Nat
    BY <1>1, SeqFacts
  <2> QED BY <1>3, <2>1
<1>5. x \in Node /\ x.kind = "scope" /\ x.table = Len(all2) /\ x.name = NONE
  <2>1. NewNode("scope", NONE) \in Node /\ x \in Node
    BY <1>1, <1>4, NewNodeType
  <2> QED BY <2>1 DEF NewNode
<1>6. /\ b \in Seq(Node) /\ Kept(ast, b) /\ b[Fresh] = x
      /\ \A n \in DOMAIN b : n \notin DOMAIN ast => n = Fresh
      /\ OneMore(ast, b, x)
  <2>1. OneMore(ast, b, x)
    BY <1>1, <1>5, OneNode
  <2> QED BY <2>1 DEF OneMore, Fresh
<1>7. /\ \A u \in DOMAIN tables : TableAfter(tables, all2, b, v, u)
      /\ all2[Len(all2)].type = "function" /\ all2[Len(all2)].name = v
      /\ all2[Len(all2)].user_types = NoSymbol /\ all2[Len(all2)].functions = NoSymbol
      /\ \A name \in Name :
           all2[Len(all2)].variables[name]
             = Least({n \in ParametersOf(v) : ast[n].name = name})
  <2> HIDE DEF v
  <2> QED BY <1>1, <1>2, <1>6, TableAfterBody DEF v
<1>8. /\ c \in Seq(Frame) /\ Len(c) = Len(calls) - 1
      /\ \A i \in 1 .. Len(calls) - 1 : c[i] = calls[i]
  BY <1>1, FrontProperties
<1>9. Frees(calls, c, ast, v) /\ FramesOK(c, tables, ast)
  BY <1>1, FreesTop, FramesPop
<1> HIDE DEF c, f, v
<1>10. \A i \in 1 .. Len(c) : /\ FrameOK(c[i], tables, ast) /\ c[i].table <= current
                              /\ c[i].proc = "scope"
  <2> TAKE i \in 1 .. Len(c)
  <2>1. /\ i \in 1 .. Len(calls) /\ c[i] = calls[i] /\ i < Len(calls)
        /\ Len(calls) \in 1 .. Len(calls)
    BY <1>1, <1>8
  <2>2. Below(calls[i], calls[Len(calls)])
    BY <1>1, <2>1 DEF FramesOK
  <2> QED BY <1>1, <2>1, <2>2 DEF Below, FunctionPhases
<1>11. /\ d \in Seq(Frame) /\ Len(d) = Len(c) + 1 /\ d[Len(c) + 1] = f /\ f.node = Fresh
       /\ \A i \in 1 .. Len(c) : d[i] = c[i]
  <2>1. f \in Frame /\ f.node = Fresh
    BY <1>1, <1>4, SeqFacts DEF f, CallIn, Frame, InBody, Fresh
  <2> QED BY <1>8, <2>1, AppendProperties
<1>12. CompleteIn(d, v)
  <2>1. CompleteIn(c, v)
    BY <1>1, <1>9 DEF Frees, v
  <2>2. Fresh # v
    BY <1>1, SeqFacts DEF Fresh, v
  <2>3. Len(c) \in Nat /\ \A i \in 1 .. Len(d) : i = Len(c) + 1 \/ i \in 1 .. Len(c)
    BY <1>1, <1>8, <1>11
  <2> HIDE DEF d
  <2> QED BY <1>11, <2>1, <2>2, <2>3 DEF CompleteIn
<1> HIDE DEF d
<1>13. ExactAt(d, all2, b, Len(all2)) /\ FunctionTableOK(d, all2, b, Len(all2))
  <2>1. /\ all2[t].type = "function" /\ all2[t].name = v
        /\ all2[t].user_types = NoSymbol /\ all2[t].functions = NoSymbol
        /\ \A name \in Name :
             all2[t].variables[name] = Least({n \in ParametersOf(v) : ast[n].name = name})
    BY <1>7
  <2>2. \A n \in DOMAIN ast : ast[n].table # t
    BY <1>4 DEF XInv, SymbolsOK
  <2>3. \A n \in DOMAIN b : n \notin DOMAIN ast => b[n].kind = "scope"
    BY <1>5, <1>6
  <2>4. v \in DOMAIN ast
    BY <1>1 DEF v
  <2>5. /\ ast \in Seq(Node) /\ ast[v].kind = "function"
        /\ \A n \in DOMAIN ast : n > v => ast[n].kind # "function"
    BY <1>1, <1>2
  <2>6. b \in Seq(Node) /\ Kept(ast, b)
    BY <1>6
  <2> HIDE DEF t
  <2>7. ExactAt(d, all2, b, t) /\ FunctionTableOK(d, all2, b, t)
    BY <1>12, <2>1, <2>2, <2>3, <2>4, <2>5, <2>6, BodyExact
  <2> QED BY <2>7 DEF t
<1>14. Newest(b, v)
  <2>1. Top.proc # "scope" /\ Top.node = v
    BY DEF v
  <2>2. ASSUME NEW n \in DOMAIN b, Declares(b[n]), b[n].table = b[v].table
        PROVE  n <= v
    <3>1. n \in DOMAIN ast
      BY <1>5, <1>6, <2>2 DEF Declares, Declarations, UserTypes
    <3>2. v \in DOMAIN ast /\ v \in Nat /\ n \in Nat
      BY <1>1, <3>1, SeqFacts DEF v
    <3>3. Declares(ast[n]) /\ ast[n].table = ast[v].table
      BY <1>6, <2>2, <3>1, <3>2 DEF Kept, Declares
    <3>4. ~ (n > v)
      BY <1>2, <2>1, <3>1, <3>3 DEF Since
    <3> QED BY <3>2, <3>4
  <2> QED BY <2>2 DEF Newest
<1>15. /\ v \in DOMAIN ast /\ "scope" \in InBody /\ ~ Declares(x)
       /\ f = CallIn("scope", Fresh, Len(all2))
  BY <1>1, <1>5 DEF f, v, InBody, Declares, Declarations, UserTypes
<1>16. SymbolsOK(Append(c, f), all2, b)
  <2> DEFINE proc == "scope"
  <2>1. /\ proc \in InBody /\ x.kind = proc /\ f = CallIn(proc, Fresh, Len(all2))
        /\ x.table = IF proc = "scope" THEN Len(all2) ELSE current
        /\ proc = "scope" => \A i \in 1 .. Len(c) : c[i].proc = "scope"
        /\ \A i \in 1 .. Len(c) : FrameOK(c[i], tables, ast) /\ c[i].table <= current
        /\ Declares(x) => c = calls /\ Top.proc \in InBody
        /\ ExactAt(Append(c, f), all2, b, Len(all2))
        /\ all2[Len(all2)].type = "function"
             => FunctionTableOK(Append(c, f), all2, b, Len(all2))
    BY <1>5, <1>10, <1>13, <1>15 DEF d
  <2> HIDE DEF proc
  <2>2. OneMore(ast, b, x)
    BY <1>6
  <2> QED BY <1>3, <1>5, <1>7, <1>8, <1>9, <1>14, <1>15, <2>1, <2>2, EnterStep, ZenonT(40)
<1> QED BY <1>16 DEF c, f

-----------------------------------------------------------------------------
(* The actions *)

\* The new nodes of an action that declares nothing: s are the nodes, of which
\* a type may have been set.
LEMMA SilentNodes ==
  ASSUME IInv, XInv, status # "done", NEW s \in Seq(Node), Kept(ast, s), Len(s) = Len(ast),
         NEW kind \in {"type_modifier", "expression", "call", "modifier", "type"},
         NEW name \in Name \cup {NONE}, NEW x, x = NewNode(kind, name),
         NEW y, y = NewNode("expression", NONE)
  PROVE  \A b \in {Append(s, x), s \o <<x, y>>} : b \in Seq(Node) /\ Silently(b)
<1>1. current \in DOMAIN tables /\ current \in Nat /\ ast \in Seq(Node)
  BY TopFacts
<1>2. /\ x \in Node /\ x.kind = kind /\ x.table = current
      /\ y \in Node /\ y.kind = "expression" /\ y.table = current
  BY <1>1, NewNodeType, NewNodeFields
<1>3. Silent(x) /\ Silent(y)
  BY <1>2 DEF Silent, Declares, Declarations, UserTypes
<1>4. DOMAIN s = DOMAIN ast
  BY <1>1, SeqFacts
<1>5. ASSUME NEW b, OneMore(s, b, x) \/ TwoMore(s, b, x, y)
      PROVE  b \in Seq(Node) /\ Silently(b)
  <2>1. /\ b \in Seq(Node) /\ Kept(s, b)
        /\ \A n \in DOMAIN b : n \notin DOMAIN s => b[n] = x \/ b[n] = y
    BY <1>5 DEF OneMore, TwoMore
  <2>2. Len(ast) <= Len(b)
    BY <2>1 DEF Kept
  <2>3. Kept(ast, b)
    BY <1>4, <2>1, <2>2 DEF Kept
  <2> QED BY <1>1, <1>2, <1>3, <1>4, <2>1, <2>3 DEF Silently
<1>6. \A b : b = Append(s, x) => OneMore(s, b, x)
  BY <1>2, OneNode
<1>7. \A b : b = s \o <<x, y>> => TwoMore(s, b, x, y)
  BY <1>2, TwoNodes
<1> QED BY <1>5, <1>6, <1>7

LEMMA KeptReflexive ==
  ASSUME NEW s \in Seq(Node) PROVE Kept(s, s)
<1>1. Len(s) \in Nat
  BY SeqFacts
<1> QED BY <1>1 DEF Kept

LEMMA TypeSetKept ==
  ASSUME NEW s \in Seq(Node), NEW n \in DOMAIN s, NEW m, NEW r, r = [s EXCEPT ![n].type = m],
         r \in Seq(Node), Len(r) = Len(s)
  PROVE  Kept(s, r)
<1>1. Len(s) \in Nat /\ \A k \in DOMAIN s : s[k] \in Node
  BY SeqFacts, ElementOfSeq
<1>2. \A k \in DOMAIN s : r[k] = IF k = n THEN [s[k] EXCEPT !.type = m] ELSE s[k]
  OBVIOUS
<1>3. \A k \in DOMAIN s :
        r[k].kind = s[k].kind /\ r[k].name = s[k].name /\ r[k].table = s[k].table
  BY <1>1, <1>2 DEF Node
<1> QED BY <1>1, <1>3 DEF Kept

LEMMA FirstOfTypeKept ==
  ASSUME ast \in Seq(Node), NEW n \in DOMAIN ast, NEW m \in Nat
  PROVE  /\ FirstOfType(n, m) \in Seq(Node) /\ Len(FirstOfType(n, m)) = Len(ast)
         /\ Kept(ast, FirstOfType(n, m))
<1> DEFINE k == IF ast[n].type = Null THEN m ELSE ast[n].type  r == [ast EXCEPT ![n].type = k]
<1>1. FirstOfType(n, m) \in Seq(Node) /\ Len(FirstOfType(n, m)) = Len(ast)
  BY FirstOfTypeSet
<1>2. FirstOfType(n, m) = r
  BY DEF FirstOfType
<1>3. r \in Seq(Node) /\ Len(r) = Len(ast)
  BY <1>1, <1>2
<1> HIDE DEF k
<1>4. Kept(ast, r)
  <2> DEFINE q == r
  <2>1. q = [ast EXCEPT ![n].type = k] /\ q \in Seq(Node) /\ Len(q) = Len(ast)
    BY <1>3
  <2> HIDE DEF q
  <2>2. Kept(ast, q)
    BY <2>1, TypeSetKept
  <2> QED BY <2>2 DEF q
<1> QED BY <1>1, <1>2, <1>4

\* Actions that change neither the tables nor the stack, but for its phase.
LEMMA SilentActions ==
  ASSUME IInv, XInv,
         parse_function_call \/ StrayIdentifier \/ TypeModifier \/ EndOfType
         \/ EndOfParameters \/ BeginModifiers \/ Modifier \/ Failure
  PROVE  XInv'
<1>1. status # "done" /\ tables' = tables
  BY DEF parse_function_call, StrayIdentifier, TypeModifier, EndOfType, EndOfParameters,
     BeginModifiers, Modifier, Failure, ReportError, NotImplemented, NoBranch,
     EndOfFileInDeclaration, TablesMoved, In
<1>2. /\ ast \in Seq(Node) /\ Top.node \in DOMAIN ast /\ Fresh \in Nat /\ Kept(ast, ast)
      /\ calls \in Seq(Frame) /\ calls # <<>> /\ Top = Last(calls) /\ Top \in Frame
  BY <1>1, TopFacts, StateFacts, KeptReflexive
<1> DEFINE s == FirstOfType(Top.node, Fresh)
<1>3. s \in Seq(Node) /\ Len(s) = Len(ast) /\ Kept(ast, s)
  BY <1>2, FirstOfTypeKept
<1> HIDE DEF s
<1>4. /\ SymbolsOK(calls, tables, ast)
      /\ \A b \in Seq(Node) : Silently(b) => SymbolsOK(calls, tables, b)
  BY <1>1, SilentStep DEF XInv
<1>5. ASSUME NEW proc \in {"signature", "return_type", "modifiers",
                           "typed_variable", "typed_parameter"},
             Top.proc \notin InBody, KindOf(proc) = KindOf(Top.proc),
             proc \in FunctionPhases <=> Top.proc \in FunctionPhases,
             NEW b, SymbolsOK(calls, tables, b)
      PROVE  SymbolsOK(Become(proc), tables, b)
  <2>1. [Top EXCEPT !.proc = proc] \in Frame /\ proc \notin InBody
    BY <1>2 DEF Frame, InType, InBody
  <2>2. SymbolsOK([calls EXCEPT ![Len(calls)].proc = proc], tables, b)
    BY <1>2, <1>5, <2>1, PhaseStep
  <2> QED BY <2>2 DEF Become
<1>6. CASE parse_function_call
  <2>1. ast' \in Seq(Node) /\ Silently(ast') /\ calls' = calls
    BY <1>1, <1>2, <1>6, SilentNodes DEF parse_function_call, Allocate
  <2> QED BY <1>1, <1>4, <2>1 DEF XInv
<1>7. CASE StrayIdentifier \/ Failure
  <2>1. ast' = ast /\ calls' = calls
    BY <1>7 DEF StrayIdentifier, Failure, ReportError, NotImplemented, NoBranch,
       EndOfFileInDeclaration, TablesMoved
  <2> QED BY <1>1, <1>4, <2>1 DEF XInv
<1>8. CASE Modifier
  <2>1. ast' \in Seq(Node) /\ Silently(ast') /\ calls' = calls
    BY <1>1, <1>2, <1>8, SilentNodes DEF Modifier, Allocate
  <2> QED BY <1>1, <1>4, <2>1 DEF XInv
<1>9. CASE TypeModifier
  <2>1. ast' \in Seq(Node) /\ Silently(ast') /\ calls' = calls
    BY <1>1, <1>3, <1>9, SilentNodes DEF TypeModifier, s
  <2> QED BY <1>1, <1>4, <2>1 DEF XInv
<1>10. CASE EndOfType
  <2>1. ast' \in Seq(Node) /\ Silently(ast')
    BY <1>1, <1>3, <1>10, SilentNodes DEF EndOfType, s
  <2>2. SymbolsOK(calls, tables, ast')
    BY <1>4, <2>1
  <2> DEFINE proc == AfterType(Top.proc)
  <2>3. Top.proc \in InType /\ calls' = Become(proc)
    BY <1>10 DEF EndOfType, In
  <2>4. /\ proc \in {"signature", "return_type", "modifiers", "typed_variable", "typed_parameter"}
        /\ Top.proc \notin InBody /\ KindOf(proc) = KindOf(Top.proc)
        /\ proc \in FunctionPhases <=> Top.proc \in FunctionPhases
    BY <2>3 DEF AfterType, InType, InBody, KindOf, FunctionPhases
  <2> HIDE DEF proc
  <2>5. SymbolsOK(Become(proc), tables, ast')
    BY <1>5, <2>2, <2>4
  <2> QED BY <1>1, <2>3, <2>5 DEF XInv
<1>11. CASE EndOfParameters \/ BeginModifiers
  <2>1. PICK proc \in {"signature", "return_type", "modifiers"} :
          /\ ast' = ast /\ calls' = Become(proc)
          /\ Top.proc \in {"parameters", "signature"}
    BY <1>11 DEF EndOfParameters, BeginModifiers, In
  <2>2. /\ Top.proc \notin InBody /\ KindOf(proc) = KindOf(Top.proc)
        /\ proc \in FunctionPhases <=> Top.proc \in FunctionPhases
    BY <2>1 DEF InBody, KindOf, FunctionPhases
  <2>3. SymbolsOK(Become(proc), tables, ast)
    BY <1>4, <1>5, <2>1, <2>2
  <2> QED BY <1>1, <2>1, <2>3 DEF XInv
<1> QED BY <1>6, <1>7, <1>8, <1>9, <1>10, <1>11

\* Actions that open a scope or begin a declaration.
LEMMA OpeningActions ==
  ASSUME IInv, XInv,
         \/ NestedScope \/ OpenBody
         \/ \E name \in Name : \/ parse_alias(name) \/ parse_function(name)
                               \/ parse_variable(name) \/ Parameter(name)
                               \/ \E proc \in {"struct", "union"} : parse_struct(name, proc)
         \/ \E proc \in {"struct", "union"} : AnonymousType(proc)
  PROVE  XInv'
<1>1. status # "done"
  BY DEF NestedScope, OpenBody, parse_alias, parse_function, parse_variable, Parameter,
     parse_struct, AnonymousType, In
<1>2. /\ ast \in Seq(Node) /\ Top.node \in DOMAIN ast /\ current \in DOMAIN tables
      /\ current \in Nat /\ TablesOK(tables) /\ Fresh \in Nat /\ Len(tables) \in Nat
  BY <1>1, TopFacts, StateFacts
<1>4. \A type \in {"struct", "union", "scope"}, n \in Nat :
        Len(Pushed(tables, type, n)) = Len(tables) + 1
  <2> TAKE type \in {"struct", "union", "scope"}, n \in Nat
  <2>1. type \in {"module", "function", "struct", "union", "scope"}
    OBVIOUS
  <2>2. TablesOK(Pushed(tables, type, n)) /\ Len(Pushed(tables, type, n)) = Len(tables) + 1
    BY <1>2, <2>1, PushedKeeps
  <2> QED BY <2>2
<1>5. ASSUME NestedScope PROVE XInv'
  <2>1. /\ Top.proc = "scope" /\ tables' = Pushed(tables, "scope", Null)
        /\ current' = Len(tables') /\ calls' = Append(calls, CallIn("scope", Fresh, Len(tables')))
        /\ ast' = Append(ast, [NewNode("scope", NONE) EXCEPT !.table = current'])
    BY <1>5 DEF NestedScope, In
  <2> DEFINE x == [NewNode("scope", NONE) EXCEPT !.table = current']
  <2>2. current' = Len(tables') /\ current' \in Nat
    BY <1>2, <1>4, <2>1 DEF Null
  <2>3. x \in Node /\ x.kind = "scope" /\ x.table = Len(tables') /\ ~ Declares(x)
    <3>1. NewNode("scope", NONE) \in Node /\ x \in Node
      BY <1>2, <2>2, NewNodeType
    <3>2. x.kind = "scope" /\ x.table = Len(tables')
      BY <2>2, <3>1 DEF NewNode
    <3> QED BY <3>1, <3>2 DEF Declares, Declarations, UserTypes
  <2>4. ast' = Append(ast, x)
    BY <2>1
  <2> HIDE DEF x
  <2>5. OneMore(ast, ast', x)
    BY <1>2, <2>3, <2>4, OneNode
  <2> DEFINE proc == "scope"
  <2>6. /\ proc \in InBody /\ (proc = "scope" => Top.proc = "scope") /\ Null \in Nat
        /\ tables' = Pushed(tables, proc, Null) /\ x.kind = proc
        /\ x.table = IF proc = "scope" THEN Len(tables') ELSE current
        /\ Declares(x) => Top.proc \in InBody
        /\ calls' = Append(calls, CallIn(proc, Fresh, Len(tables')))
    BY <2>1, <2>3 DEF InBody, Null
  <2> HIDE DEF proc
  <2>7. SymbolsOK(Append(calls, CallIn(proc, Fresh, Len(tables'))), tables', ast')
    BY <1>1, <2>3, <2>5, <2>6, OpenStep
  <2> QED BY <2>6, <2>7 DEF XInv
<1>6. ASSUME NEW name \in Name \cup {NONE}, NEW proc \in {"struct", "union"}, NEW n \in Nat,
             tables' = Pushed(tables, proc, n),
             OneMore(ast, ast', NewNode(proc, name)), name # NONE => Top.proc \in InBody,
             calls' = Append(calls, CallIn(proc, Fresh, Len(tables')))
      PROVE  XInv'
  <2> DEFINE x == NewNode(proc, name)
  <2>1. /\ x \in Node /\ x.kind = proc /\ x.name = name /\ x.table = current
        /\ OneMore(ast, ast', x)
    BY <1>2, <1>6, NewNodeType, NewNodeFields
  <2> HIDE DEF x
  <2>2. /\ proc \in InBody /\ (proc = "scope" => Top.proc = "scope")
        /\ x.table = IF proc = "scope" THEN Len(tables') ELSE current
        /\ Declares(x) => Top.proc \in InBody
    BY <1>6, <2>1 DEF InBody, Declares
  <2>3. SymbolsOK(Append(calls, CallIn(proc, Fresh, Len(tables'))), tables', ast')
    BY <1>1, <1>6, <2>1, <2>2, OpenStep
  <2> QED BY <1>6, <2>3 DEF XInv
<1>7. ASSUME NEW name \in Name, NEW proc \in {"struct", "union"}, parse_struct(name, proc)
      PROVE  XInv'
  <2>1. /\ Top.proc \in InBody /\ ast' = Append(ast, NewNode(proc, name))
        /\ tables' = Pushed(tables, proc, Fresh)
        /\ calls' = Append(calls, CallIn(proc, Fresh, Len(tables')))
    BY <1>7 DEF parse_struct, Allocate, In
  <2>2. NewNode(proc, name) \in Node
    BY <1>2, NewNodeType
  <2>3. OneMore(ast, ast', NewNode(proc, name))
    BY <1>2, <2>1, <2>2, OneNode
  <2> QED BY <1>2, <1>6, <2>1, <2>3
<1>8. ASSUME NEW proc \in {"struct", "union"}, AnonymousType(proc) PROVE XInv'
  <2> DEFINE s == [ast EXCEPT ![Top.node].type = Fresh]  x == NewNode(proc, NONE)
  <2>1. /\ ast' = Append(s, x) /\ tables' = Pushed(tables, proc, Null)
        /\ calls' = Append(calls, CallIn(proc, Fresh, Len(tables')))
    BY <1>8 DEF AnonymousType
  <2>2. s \in Seq(Node) /\ Len(s) = Len(ast) /\ x \in Node
    BY <1>2, TypeSet, NewNodeType
  <2>3. Kept(ast, s)
    <3> DEFINE q == s
    <3>1. q = [ast EXCEPT ![Top.node].type = Fresh] /\ q \in Seq(Node) /\ Len(q) = Len(ast)
      BY <2>2
    <3> HIDE DEF q
    <3>2. Kept(ast, q)
      BY <1>2, <3>1, TypeSetKept
    <3> QED BY <3>2 DEF q
  <2> HIDE DEF s, x
  <2>4. OneMore(s, ast', x)
    BY <2>1, <2>2, OneNode
  <2>5. OneMore(ast, ast', x)
    <3>1. DOMAIN s = DOMAIN ast /\ Len(ast) \in Nat
      BY <1>2, <2>2, SeqFacts
    <3>2. Kept(ast, ast')
      BY <2>2, <2>3, <2>4, <3>1 DEF OneMore, Kept
    <3> QED BY <2>2, <2>4, <3>1, <3>2 DEF OneMore
  <2> QED BY <1>6, <2>1, <2>5 DEF x, Null
<1>9. ASSUME NEW name \in Name, parse_alias(name) PROVE XInv'
  <2>1. /\ Top.proc \in InBody /\ calls' = calls
        /\ ast' = ast \o <<NewNode("alias", name), NewNode("expression", NONE)>>
        /\ tables' = InsertUserType(tables, current, name, Fresh)
    BY <1>9 DEF parse_alias, In
  <2>2. SymbolsOK(calls, tables', ast')
    BY <1>1, <2>1, AliasStep
  <2> QED BY <2>1, <2>2 DEF XInv
<1>10. ASSUME NEW name \in Name, parse_function(name) \/ parse_variable(name) \/ Parameter(name)
       PROVE  XInv'
  <2>1. PICK kind \in {"function", "variable", "parameter"},
             proc \in {"parameters", "variable", "parameter"} :
          /\ \/ kind = "variable" /\ proc = "variable" /\ Top.proc \in InBody
             \/ kind = "function" /\ proc = "parameters" /\ Top.proc = "scope"
             \/ kind = "parameter" /\ proc = "parameter" /\ Top.proc = "parameters"
          /\ ast' = Append(ast, NewNode(kind, name)) /\ tables' = tables
          /\ calls' = Append(calls, Call(proc, Fresh))
    BY <1>10 DEF parse_function, parse_variable, Parameter, Allocate, In
  <2>2. SymbolsOK(Append(calls, Call(proc, Fresh)), tables, ast')
    BY <1>1, <2>1, CallStep
  <2> QED BY <2>1, <2>2 DEF XInv
<1>11. ASSUME OpenBody PROVE XInv'
  <2>1. /\ Top.proc \in {"signature", "modifiers"} /\ tables' = WithParameters(Top.node)
        /\ current' = Len(tables')
        /\ ast' = Append(ast, [NewNode("scope", NONE) EXCEPT !.table = Len(tables')])
        /\ calls' = Append(Front(calls), CallIn("scope", Fresh, Len(tables')))
    BY <1>11 DEF OpenBody, In
  <2>2. SymbolsOK(Append(Front(calls), CallIn("scope", Fresh, Len(tables'))), tables', ast')
    BY <1>1, <2>1, BodyStep
  <2> QED BY <2>1, <2>2 DEF XInv
<1> QED BY <1>5, <1>7, <1>8, <1>9, <1>10, <1>11

\* The declaration on top of the stack is complete: it is inserted in its table.
LEMMA InsertStep ==
  ASSUME IInv, XInv, status # "done", NEW b \in Seq(Node), Silently(b),
         NEW u, u = ast[Top.node].table, NEW name, name = ast[Top.node].name, NEW r,
         \/ Top.proc \in {"struct", "union"} /\ r = InsertUserType(tables, u, name, Top.node)
         \/ Top.proc \in {"signature", "modifiers"}
              /\ r = InsertFunction(tables, u, name, Top.node)
         \/ Top.proc = "typed_variable" /\ r = InsertVariable(tables, u, name, Top.node)
  PROVE  SymbolsOK(Front(calls), r, b)
<1> DEFINE v == Top.node
<1>1. /\ TablesOK(tables) /\ tables \in Seq(Table) /\ v \in Nat \ {0} /\ v \in DOMAIN ast
      /\ ast[v].kind = KindOf(Top.proc) /\ u \in DOMAIN tables
  BY TopFacts, StateFacts DEF XInv, SymbolsOK
<1>2. b[v].table = u /\ b[v].name = name /\ b[v].kind = KindOf(Top.proc)
  BY <1>1 DEF Silently, Kept
<1>3. Declares(b[v]) <=> b[v].name # NONE
  BY <1>2 DEF Declares, Declarations, UserTypes, KindOf, InBody
<1>4. \/ b[v].kind \in UserTypes /\ r = InsertUserType(tables, u, b[v].name, v)
      \/ b[v].kind = "function" /\ r = InsertFunction(tables, u, b[v].name, v)
      \/ b[v].kind = "variable" /\ r = InsertVariable(tables, u, b[v].name, v)
  BY <1>2 DEF KindOf, UserTypes, InBody
<1>5. TablesOK(r) /\ Len(r) = Len(tables) /\ Grows(tables, r)
  BY <1>1, <1>2, <1>4, InsertKeeps
<1> HIDE DEF v
<1>6. \A t \in DOMAIN tables : TableAfter(tables, r, b, v, t)
  BY <1>1, <1>2, <1>3, <1>4, TableAfterInsertion
<1>7. \A t \in DOMAIN tables : TableAfter(tables, r, b, Top.node, t)
  BY <1>6 DEF v
<1> QED BY <1>5, <1>7, ReturnStep

\* What is on top declares nothing.
LEMMA PlainReturnStep ==
  ASSUME IInv, XInv, status # "done", NEW b \in Seq(Node), Silently(b),
         ~ Declares(ast[Top.node])
  PROVE  SymbolsOK(Front(calls), tables, b)
<1>1. TablesOK(tables) /\ Grows(tables, tables) /\ Top.node \in DOMAIN ast
  BY StateFacts, GrowsReflexive
<1>2. ~ Declares(b[Top.node])
  BY <1>1 DEF Silently, Kept, Declares
<1>3. \A t \in DOMAIN tables : TableAfter(tables, tables, b, Top.node, t)
  BY <1>2, TableAfterNothing
<1> QED BY <1>1, <1>3, ReturnStep

\* Actions that end a scope or a declaration.
LEMMA LeavingActions ==
  ASSUME IInv, XInv, status # "done", Top.proc \in InBody, Leave, ast' = ast
  PROVE  XInv'
<1>1. /\ ast \in Seq(Node) /\ Silently(ast) /\ Top.node \in DOMAIN ast
      /\ calls \in Seq(Frame) /\ calls # <<>> /\ CallsOK(calls, tables, ast, current)
      /\ ast[Top.node].kind = KindOf(Top.proc)
      /\ ast[Top.node].table = IF Top.proc \in {"struct", "union"}
                                 THEN tables[current].parent ELSE current
      /\ Top = calls[Len(calls)] /\ Len(calls) \in Nat \ {0}
      /\ Top.proc # "scope" => Len(calls) > 1
  BY TopFacts, StateFacts, KeptReflexive DEF Silently
<1>2. CASE LeaveScope
  <2>1. ~ Declares(ast[Top.node]) /\ tables' = tables /\ calls' = Front(calls)
    BY <1>1, <1>2 DEF LeaveScope, KindOf, InBody, Declares, Declarations, UserTypes
  <2> QED BY <1>1, <2>1, PlainReturnStep DEF XInv
<1>3. CASE LeaveNamedType
  <2>1. /\ Top.proc \in {"struct", "union"} /\ calls' = Front(calls)
        /\ tables' = InsertUserType(tables, ast[Top.node].table, ast[Top.node].name, Top.node)
    BY <1>1, <1>3 DEF LeaveNamedType
  <2>2. SymbolsOK(Front(calls), tables', ast)
    BY <1>1, <2>1, InsertStep
  <2> QED BY <2>1, <2>2 DEF XInv
<1>4. CASE LeaveAnonymousType
  <2> DEFINE c == Front(calls)  k == Len(calls) - 1  proc == AfterType(c[k].proc)
  <2>1. Top.proc \in {"struct", "union"} /\ ast[Top.node].name = NONE /\ Len(calls) > 1
    BY <1>1, <1>4 DEF LeaveAnonymousType
  <2>2. calls' = [c EXCEPT ![k].proc = proc] /\ tables' = tables
    BY <1>4 DEF LeaveAnonymousType
  <2>3. /\ c \in Seq(Frame) /\ Len(c) = k /\ c[k] = calls[k] /\ k \in 1 .. Len(calls) - 1
        /\ k + 1 = Len(calls) /\ c # <<>> /\ Last(c) = c[k] /\ c[k] \in Frame
    <3>1. /\ c \in Seq(Frame) /\ Len(c) = k
          /\ \A i \in 1 .. Len(calls) - 1 : c[i] = calls[i]
      BY <1>1, FrontProperties
    <3>2. k \in 1 .. Len(calls) - 1 /\ k + 1 = Len(calls) /\ k # 0
      BY <1>1, <2>1
    <3> HIDE DEF c, k
    <3>3. c # <<>>
      BY <3>1, <3>2, EmptySeq
    <3>4. Last(c) = c[k] /\ Last(c) \in Frame
      BY <3>1, <3>3, FrontProperties
    <3> QED BY <3>1, <3>2, <3>3, <3>4
  <2>4. c[k].proc \in InType
    <3> HIDE DEF c, k
    <3>1. CallerOK(calls[k], calls[k + 1], tables, ast)
      BY <1>1, <2>3 DEF CallsOK
    <3> QED BY <1>1, <2>1, <2>3, <3>1 DEF CallerOK
  <2>5. /\ c[k].proc \notin InBody /\ proc \notin InBody
        /\ proc \in {"typed_variable", "typed_parameter", "signature"}
        /\ KindOf(proc) = KindOf(c[k].proc)
        /\ proc \in FunctionPhases <=> c[k].proc \in FunctionPhases
    <3> HIDE DEF c, k
    <3> QED BY <2>4 DEF AfterType, InType, InBody, KindOf, FunctionPhases
  <2>6. SymbolsOK(c, tables, ast)
    <3>1. ~ Declares(ast[Top.node])
      BY <2>1 DEF Declares
    <3> QED BY <1>1, <3>1, PlainReturnStep
  <2> HIDE DEF c, k, proc
  <2>7. [Last(c) EXCEPT !.proc = proc] \in Frame
    BY <2>3, <2>5 DEF Frame, InBody
  <2>8. SymbolsOK([c EXCEPT ![Len(c)].proc = proc], tables, ast)
    BY <2>3, <2>5, <2>6, <2>7, PhaseStep
  <2> QED BY <2>2, <2>3, <2>8 DEF XInv
<1> QED BY <1>2, <1>3, <1>4 DEF Leave

LEMMA ReturnActions ==
  ASSUME IInv, XInv,
         CloseBrace \/ EndOfFile \/ EndOfVariable \/ InitializedVariable
         \/ EndOfParameter \/ EndOfDeclaration
  PROVE  XInv'
<1>1. status # "done"
  BY DEF CloseBrace, EndOfFile, EndOfVariable, InitializedVariable, EndOfParameter,
     EndOfDeclaration, In
<1>2. /\ ast \in Seq(Node) /\ Silently(ast) /\ Len(ast) \in Nat
      /\ ast[Top.node].kind = KindOf(Top.proc)
      /\ Top.proc \notin {"struct", "union"} => ast[Top.node].table = current
  BY <1>1, TopFacts, StateFacts, KeptReflexive DEF Silently
<1>3. \A b : b = Append(ast, NewNode("expression", NONE)) => b \in Seq(Node) /\ Silently(b)
  BY <1>1, <1>2, KeptReflexive, SilentNodes
<1>4. CASE CloseBrace \/ EndOfFile
  <2>1. Top.proc \in InBody /\ Leave /\ ast' = ast
    BY <1>4 DEF CloseBrace, EndOfFile, In
  <2> QED BY <1>1, <2>1, LeavingActions
<1>5. CASE EndOfVariable \/ InitializedVariable
  <2>1. /\ Top.proc = "typed_variable" /\ calls' = Front(calls)
        /\ tables' = InsertVariable(tables, current, ast[Top.node].name, Top.node)
        /\ ast' = ast \/ ast' = Append(ast, NewNode("expression", NONE))
    BY <1>5 DEF EndOfVariable, InitializedVariable, In, Allocate
  <2>2. ast' \in Seq(Node) /\ Silently(ast') /\ ast[Top.node].table = current
    BY <1>2, <1>3, <2>1
  <2>3. SymbolsOK(Front(calls), tables', ast')
    BY <1>1, <2>1, <2>2, InsertStep
  <2> QED BY <2>1, <2>3 DEF XInv
<1>6. CASE EndOfParameter
  <2>1. /\ Top.proc = "typed_parameter" /\ calls' = Front(calls) /\ tables' = tables
        /\ ast' = ast \/ ast' = Append(ast, NewNode("expression", NONE))
    BY <1>6 DEF EndOfParameter, In, Allocate
  <2>2. ast' \in Seq(Node) /\ Silently(ast')
    BY <1>2, <1>3, <2>1
  <2>3. ~ Declares(ast[Top.node])
    BY <1>2, <2>1 DEF KindOf, InBody, Declares, Declarations, UserTypes
  <2>4. SymbolsOK(Front(calls), tables, ast')
    BY <1>1, <2>2, <2>3, PlainReturnStep
  <2> QED BY <2>1, <2>4 DEF XInv
<1>7. CASE EndOfDeclaration
  <2>1. /\ Top.proc \in {"signature", "modifiers"} /\ calls' = Front(calls) /\ ast' = ast
        /\ tables' = InsertFunction(tables, current, ast[Top.node].name, Top.node)
        /\ ast[Top.node].table = current
    BY <1>2, <1>7 DEF EndOfDeclaration, In
  <2>2. SymbolsOK(Front(calls), tables', ast)
    BY <1>1, <1>2, <2>1, InsertStep
  <2> QED BY <2>1, <2>2 DEF XInv
<1> QED BY <1>4, <1>5, <1>6, <1>7

-----------------------------------------------------------------------------
(* The theorem *)

LEMMA InitExact == Init => XInv
<1> SUFFICES ASSUME Init PROVE XInv
  OBVIOUS
<1> DEFINE t1 == NewTable("module", Null, Null, Null)
           n1 == [kind |-> "scope", name |-> NONE, table |-> 1, type |-> Null]
           f1 == CallIn("scope", 1, 1)
<1>1. ast = <<n1>> /\ tables = <<t1>> /\ calls = <<f1>>
  BY DEF Init
<1>2. /\ DOMAIN ast = {1} /\ DOMAIN tables = {1} /\ Len(calls) = 1
      /\ ast[1] = n1 /\ tables[1] = t1 /\ calls[1] = f1
  BY <1>1
<1>3. /\ n1.kind = "scope" /\ n1.table = 1 /\ ~ Declares(n1)
      /\ f1.proc = "scope" /\ f1.node = 1 /\ f1.table = 1
      /\ t1.type # "function" /\ t1.variables = NoSymbol
      /\ t1.user_types = NoSymbol /\ t1.functions = NoSymbol
  BY DEF NewTable, CallIn, Declares, Declarations, UserTypes
<1> HIDE DEF t1, n1, f1
<1>4. FramesOK(calls, tables, ast)
  BY <1>2, <1>3 DEF FramesOK, Fits, KindOf, InBody
<1>5. \A t \in DOMAIN tables : ExactAt(calls, tables, ast, t)
  BY <1>2, <1>3, NewTableExact
<1> QED BY <1>2, <1>3, <1>4, <1>5 DEF XInv, SymbolsOK, FunctionTablesOK

LEMMA StepExact == IInv /\ XInv /\ [Next]_vars => XInv'
<1> SUFFICES ASSUME IInv, XInv, [Next]_vars PROVE XInv'
  OBVIOUS
<1>1. CASE UNCHANGED vars
  BY <1>1 DEF vars, XInv
<1>2. CASE Next
  BY <1>2, SilentActions, OpeningActions, ReturnActions DEF Next, Statement, Member,
     Type, Variable, Function
<1> QED BY <1>1, <1>2

\* The invariant is SymbolsExact, and what makes it last.
LEMMA ExactEverywhere ==
  ASSUME IInv, XInv PROVE SymbolsExact
<1>1. calls \in Seq(Frame)
  <2>1. CASE calls = <<>>
    BY <2>1
  <2>2. CASE calls # <<>>
    BY <2>2, CallsProperties DEF IInv
  <2> QED BY <2>1, <2>2
<1>2. \A n : Complete(n) <=> CompleteIn(calls, n)
  BY <1>1, SeqFacts DEF Complete, CompleteIn
<1>3. \A t, kinds, name : {n \in DeclaredIn(t, kinds) : ast[n].name = name}
                           = Declared(calls, ast, t, kinds, name)
  BY <1>2 DEF DeclaredIn, Declared
<1>4. \A t, name : {n \in ParametersIn(t) : ast[n].name = name}
                    = Parameters(tables, ast, t, name)
  BY DEF ParametersIn, Parameters, LastFunction, FunctionBefore
<1>5. \A S, name : FirstNamed(S, name) = Least({n \in S : ast[n].name = name})
  BY DEF FirstNamed, Least
<1>6. \A t, name : {n \in DeclaredIn(t, {"variable"}) \cup ParametersIn(t) : ast[n].name = name}
                    = Declared(calls, ast, t, {"variable"}, name)
                        \cup Parameters(tables, ast, t, name)
  BY <1>3, <1>4
<1>7. \A t \in DOMAIN tables : ExactAt(calls, tables, ast, t)
  BY DEF XInv, SymbolsOK
<1> SUFFICES ASSUME NEW t \in DOMAIN tables, NEW name \in Name
             PROVE  /\ tables[t].user_types[name]
                         = FirstNamed(DeclaredIn(t, {"alias", "struct", "union"}), name)
                    /\ tables[t].functions[name]
                         = FirstNamed(DeclaredIn(t, {"function"}), name)
                    /\ tables[t].variables[name]
                         = FirstNamed(DeclaredIn(t, {"variable"}) \cup ParametersIn(t), name)
  BY DEF SymbolsExact
<1>8. ExactAt(calls, tables, ast, t)
  BY <1>7
<1>9. FirstNamed(DeclaredIn(t, {"variable"}) \cup ParametersIn(t), name)
        = Least(Declared(calls, ast, t, {"variable"}, name)
                  \cup Parameters(tables, ast, t, name))
  BY <1>5, <1>6
<1>10. \A kinds : FirstNamed(DeclaredIn(t, kinds), name)
                    = Least(Declared(calls, ast, t, kinds, name))
  BY <1>3, <1>5
<1>11. UserTypes = {"alias", "struct", "union"}
  BY DEF UserTypes
<1> QED BY <1>8, <1>9, <1>10, <1>11 DEF ExactAt

\* For any set of names and sources of any length, at every step of the parse,
\* each table has the declarations that are written in its scope and complete,
\* and no other, with the first one of each name; a function's table has its
\* parameters too.
THEOREM SymbolsAlwaysExact == Spec => []SymbolsExact
<1>1. Init => IInv /\ XInv
  BY InitEstablishes, InitExact
<1>2. (IInv /\ XInv) /\ [Next]_vars => (IInv /\ XInv)'
  BY StepKeeps, StepExact
<1>3. IInv /\ XInv => SymbolsExact
  BY ExactEverywhere
<1> QED BY <1>1, <1>2, <1>3, PTL DEF Spec

-----------------------------------------------------------------------------
(***************************************************************************)
(* The reserve of tables.  A table takes a token of its own, the module's  *)
(* apart, so that one more table than tokens have been read is only        *)
(* reached when every token read so far was a brace that opened a scope.   *)
(***************************************************************************)

AllBraces(all, c, cur, s) ==
  /\ \A t \in 2 .. Len(all) : all[t].type = "scope" /\ all[t].parent = t - 1
  /\ \A i \in 1 .. Len(c) : c[i].proc = "scope"
  /\ s = "parsing" => cur = Len(all)
BracesInv == Len(tables) = tokens + 1 => AllBraces(tables, calls, current, status)

\* A step that leaves a token, or a declaration that is not a scope.
Lags == Len(tables') < tokens' + 1

LEMMA LagsBehind ==
  ASSUME IInv, BracesInv, status # "done", Top.proc # "scope"
  PROVE  Len(tables) < tokens + 1
<1>1. /\ Len(tables) \in Nat /\ tokens \in Nat /\ Len(tables) <= tokens + 1
      /\ Len(calls) \in Nat \ {0} /\ Top = calls[Len(calls)]
  BY StateFacts
<1>2. Len(tables) # tokens + 1
  <2>1. Len(calls) \in 1 .. Len(calls)
    BY <1>1
  <2>2. ~ AllBraces(tables, calls, current, status)
    BY <1>1, <2>1 DEF AllBraces
  <2> QED BY <2>2 DEF BracesInv
<1> QED BY <1>1, <1>2

LEMMA StatementsLag ==
  ASSUME IInv, BracesInv, Statement \/ CloseBrace, ~ NestedScope
  PROVE  Lags
<1>1. status = "parsing"
  BY DEF Statement, Member, parse_alias, parse_struct, parse_function, parse_variable,
     parse_function_call, StrayIdentifier, CloseBrace, In
<1>2. /\ TablesOK(tables) /\ current \in DOMAIN tables /\ Fresh \in Nat
      /\ Len(tables) \in Nat /\ tokens \in Nat /\ Len(tables) <= tokens + 1
  BY <1>1, StateFacts
<1>3. ASSUME NEW name \in Name, parse_alias(name) PROVE Lags
  <2>1. Len(tables') = Len(tables) /\ tokens' = tokens + 4
    BY <1>2, <1>3, InsertKeeps DEF parse_alias, Read
  <2> QED BY <1>2, <2>1 DEF Lags
<1>4. ASSUME NEW name \in Name, NEW proc \in {"struct", "union"}, parse_struct(name, proc)
      PROVE  Lags
  <2>1. Len(tables') = Len(tables) + 1 /\ tokens' = tokens + 4
    BY <1>2, <1>4, PushedKeeps DEF parse_struct, Read
  <2> QED BY <1>2, <2>1 DEF Lags
<1>5. ASSUME tables' = tables, NEW n \in 1 .. 5, Read(n) PROVE Lags
  BY <1>2, <1>5 DEF Lags, Read
<1>6. CASE CloseBrace
  <2>1. Len(tables') = Len(tables) /\ tokens' = tokens + 1
    BY <1>1, <1>6, LeaveKeeps DEF CloseBrace, In, Read
  <2> QED BY <1>2, <2>1 DEF Lags
<1>7. CASE parse_function_call \/ StrayIdentifier
           \/ \E name \in Name : parse_variable(name) \/ parse_function(name)
  <2>1. tables' = tables /\ \E n \in 1 .. 5 : Read(n)
    BY <1>7 DEF parse_function_call, StrayIdentifier, parse_variable, parse_function, ReadLast
  <2> QED BY <1>5, <2>1
<1> QED BY <1>3, <1>4, <1>6, <1>7 DEF Statement, Member

LEMMA DeclarationsLag ==
  ASSUME IInv, BracesInv, Type \/ Variable \/ Function
  PROVE  Lags
<1>1. /\ status = "parsing"
      /\ Top.proc \in InType \cup {"typed_variable", "typed_parameter", "parameters",
                                   "signature", "modifiers"}
  BY DEF Type, TypeModifier, EndOfType, AnonymousType, Variable, EndOfVariable,
     InitializedVariable, EndOfParameter, Function, Parameter, EndOfParameters,
     BeginModifiers, Modifier, EndOfDeclaration, OpenBody, In
<1>2. /\ TablesOK(tables) /\ current \in DOMAIN tables /\ ast \in Seq(Node)
      /\ Top.node \in DOMAIN ast /\ Top.node \in Nat /\ Fresh \in Nat
      /\ Len(tables) \in Nat /\ tokens \in Nat
  BY <1>1, StateFacts
<1>3. Len(tables) < tokens + 1
  BY <1>1, LagsBehind DEF InType
<1>4. ASSUME Len(tables') = Len(tables), NEW n \in 0 .. 4, Read(n) PROVE Lags
  BY <1>2, <1>3, <1>4 DEF Lags, Read
<1>5. ASSUME Len(tables') = Len(tables) + 1, NEW n \in 1 .. 2, Read(n) PROVE Lags
  BY <1>2, <1>3, <1>5 DEF Lags, Read
<1>6. ASSUME NEW proc \in {"struct", "union"}, AnonymousType(proc) PROVE Lags
  <2>1. Len(tables') = Len(tables) + 1 /\ Read(2)
    BY <1>2, <1>6, PushedKeeps DEF AnonymousType, Null
  <2> QED BY <1>5, <2>1
<1>7. CASE TypeModifier \/ EndOfType
  <2>1. tables' = tables /\ \E n \in 0 .. 4 : Read(n)
    BY <1>7 DEF TypeModifier, EndOfType
  <2> QED BY <1>4, <2>1
<1>8. CASE Variable
  <2>1. \E n \in 0 .. 4 : Read(n)
    BY <1>8 DEF Variable, EndOfVariable, InitializedVariable, EndOfParameter
  <2>2. Len(tables') = Len(tables)
    BY <1>2, <1>8, InsertKeeps
       DEF Variable, EndOfVariable, InitializedVariable, EndOfParameter
  <2> QED BY <1>4, <2>1, <2>2
<1>9. CASE OpenBody
  <2>1. Len(tables') = Len(tables) + 1 /\ Read(1)
    BY <1>2, <1>9, WithParametersKeeps DEF OpenBody
  <2> QED BY <1>5, <2>1
<1>10. CASE EndOfDeclaration
  <2>1. Len(tables') = Len(tables) /\ Read(1)
    BY <1>2, <1>10, InsertKeeps DEF EndOfDeclaration
  <2> QED BY <1>4, <2>1
<1>11. CASE EndOfParameters \/ BeginModifiers \/ Modifier \/ \E name \in Name : Parameter(name)
  <2>1. tables' = tables /\ \E n \in 0 .. 4 : Read(n)
    BY <1>11 DEF EndOfParameters, BeginModifiers, Modifier, Parameter
  <2> QED BY <1>4, <2>1
<1> QED BY <1>6, <1>7, <1>8, <1>9, <1>10, <1>11 DEF Type, Function

LEMMA BracesKeep == IInv /\ BracesInv /\ [Next]_vars => BracesInv'
<1> SUFFICES ASSUME IInv, BracesInv, [Next]_vars, Len(tables') = tokens' + 1
             PROVE  AllBraces(tables', calls', current', status')
  BY DEF BracesInv
<1>1. CASE UNCHANGED vars
  BY <1>1 DEF vars, BracesInv
<1>2. ~ Lags
  <2>1. IInv'
    BY StepKeeps
  <2>2. tokens' \in Nat
    BY <2>1, TokensAssumption DEF IInv
  <2>3. ASSUME NEW n \in Nat PROVE ~ n + 1 < n + 1
    OBVIOUS
  <2> QED BY <2>2, <2>3 DEF Lags
<1>3. CASE Failure
  <2>1. /\ UNCHANGED <<nb_tokens, tokens, ast, tables, current, calls>>
        /\ status' # "parsing"
    BY <1>3 DEF Failure, ReportError, NotImplemented, NoBranch, EndOfFileInDeclaration,
                TablesMoved
  <2> QED BY <2>1 DEF BracesInv, AllBraces
<1>4. CASE EndOfFile
  <2>1. status # "done" /\ Leave /\ Top.proc \in InBody /\ tokens' = tokens /\ status' # "parsing"
    BY <1>4 DEF EndOfFile
  <2>2. /\ Len(tables') = Len(tables) /\ calls \in Seq(Frame) /\ calls # <<>>
        /\ Top = calls[Len(calls)] /\ Len(calls) \in Nat \ {0}
        /\ Len(tables) \in Nat /\ tokens \in Nat
    BY <2>1, LeaveKeeps, StateFacts
  <2>3. AllBraces(tables, calls, current, status)
    BY <2>1, <2>2 DEF BracesInv
  <2>4. Top.proc = "scope"
    <3>1. Len(calls) \in 1 .. Len(calls)
      BY <2>2
    <3> QED BY <2>2, <2>3, <3>1 DEF AllBraces
  <2>5. tables' = tables /\ calls' = Front(calls)
    BY <2>1, <2>4 DEF Leave, LeaveScope, LeaveNamedType, LeaveAnonymousType
  <2>6. Len(calls') = Len(calls) - 1 /\ \A i \in 1 .. Len(calls) - 1 : calls'[i] = calls[i]
    BY <2>2, <2>5, FrontProperties
  <2>7. \A i \in 1 .. Len(calls') : calls'[i].proc = "scope"
    <3>1. ASSUME NEW i \in 1 .. Len(calls') PROVE i \in 1 .. Len(calls) - 1 /\ i \in 1 .. Len(calls)
      BY <2>2, <2>6
    <3> QED BY <2>3, <2>6, <3>1 DEF AllBraces
  <2> QED BY <2>1, <2>3, <2>5, <2>7 DEF AllBraces
<1>5. CASE NestedScope
  <2>1. /\ status = "parsing" /\ Read(1) /\ tables' = Pushed(tables, "scope", Null)
        /\ current' = Len(tables')
        /\ calls' = Append(calls, CallIn("scope", Fresh, current'))
    BY <1>5 DEF NestedScope, In
  <2>2. /\ TablesOK(tables) /\ current \in DOMAIN tables /\ Len(tables) \in Nat \ {0}
        /\ tokens \in Nat /\ calls \in Seq(Frame) /\ Len(calls) \in Nat \ {0} /\ Fresh \in Nat
        /\ DOMAIN tables = 1 .. Len(tables)
    BY <2>1, StateFacts, TableFields
  <2>3. /\ Len(tables') = Len(tables) + 1 /\ Grows(tables, tables')
        /\ tables'[Len(tables')].parent = current
    BY <2>1, <2>2, PushedKeeps DEF Null
  <2>4. IsPushed(tables, tables', "scope", Null)
    BY <2>1, <2>2, TableAfterPush DEF Null
  <2>5. tokens' = tokens + 1
    BY <2>1 DEF Read
  <2>6. AllBraces(tables, calls, current, status)
    <3>1. Len(tables) + 1 = tokens + 1 + 1
      BY <2>3, <2>5
    <3>2. ASSUME NEW n \in Nat, NEW k \in Nat, n + 1 = k + 1 + 1 PROVE n = k + 1
      BY <3>2
    <3>3. Len(tables) = tokens + 1
      BY <2>2, <3>1, <3>2
    <3> QED BY <3>3 DEF BracesInv
  <2>7. \A t \in 2 .. Len(tables') : tables'[t].type = "scope" /\ tables'[t].parent = t - 1
    <3> SUFFICES ASSUME NEW t \in 2 .. Len(tables')
                 PROVE  tables'[t].type = "scope" /\ tables'[t].parent = t - 1
      OBVIOUS
    <3>1. CASE t = Len(tables')
      <4>1. tables'[t].type = "scope"
        BY <2>4, <3>1 DEF IsPushed
      <4>2. tables'[t].parent = Len(tables)
        BY <2>1, <2>3, <2>6, <3>1 DEF AllBraces
      <4>3. Len(tables) = t - 1
        BY <2>2, <2>3, <3>1
      <4> QED BY <4>1, <4>2, <4>3
    <3>2. CASE t # Len(tables')
      <4>1. t \in 2 .. Len(tables) /\ t \in DOMAIN tables
        BY <2>2, <2>3, <3>2
      <4>2. tables'[t].type = tables[t].type
        BY <2>4, <4>1 DEF IsPushed, SameMaps
      <4>3. tables'[t].parent = tables[t].parent
        BY <2>3, <4>1 DEF Grows
      <4> QED BY <2>6, <4>1, <4>2, <4>3 DEF AllBraces
    <3> QED BY <3>1, <3>2
  <2>8. \A i \in 1 .. Len(calls') : calls'[i].proc = "scope"
    <3> DEFINE f == CallIn("scope", Fresh, current')
    <3>1. f \in Frame /\ f.proc = "scope"
      BY <2>1, <2>2, <2>3 DEF CallIn, Frame, InBody
    <3> HIDE DEF f
    <3>2. /\ Len(calls') = Len(calls) + 1 /\ calls'[Len(calls) + 1] = f
          /\ \A i \in 1 .. Len(calls) : calls'[i] = calls[i]
      BY <2>1, <2>2, <3>1, AppendProperties DEF f
    <3>3. ASSUME NEW i \in 1 .. Len(calls') PROVE i = Len(calls) + 1 \/ i \in 1 .. Len(calls)
      BY <2>2, <3>2
    <3> QED BY <2>6, <3>1, <3>2, <3>3 DEF AllBraces
  <2> QED BY <2>1, <2>7, <2>8 DEF AllBraces
<1> QED BY <1>1, <1>2, <1>3, <1>4, <1>5, StatementsLag, DeclarationsLag DEF Next

\* The buffer of tables, that is sized from the number of tokens, is outgrown by
\* one table at most, by a file of nothing but the braces that open its scopes,
\* when the last of them is read.
THEOREM OnlyBracesAlwaysOutgrow == Spec => []OnlyBracesOutgrow
<1>1. Init => BracesInv
  <2> SUFFICES ASSUME Init PROVE AllBraces(tables, calls, current, status)
    BY DEF BracesInv
  <2>1. Len(tables) = 1 /\ Len(calls) = 1 /\ calls[1].proc = "scope" /\ current = 1
    BY DEF Init, CallIn
  <2> QED BY <2>1 DEF AllBraces
<1>2. IInv /\ BracesInv => OnlyBracesOutgrow
  <2> SUFFICES ASSUME IInv, BracesInv, Len(tables) > nb_tokens
               PROVE  /\ Len(tables) = nb_tokens + 1 /\ tokens = nb_tokens
                      /\ \A t \in 2 .. Len(tables) :
                           tables[t].type = "scope" /\ tables[t].parent = t - 1
    BY DEF OnlyBracesOutgrow
  <2>1. /\ nb_tokens \in Nat /\ tokens \in 0 .. nb_tokens /\ Len(tables) \in Nat
        /\ Len(tables) <= tokens + 1
    BY TokensAssumption, TableFields DEF IInv
  <2>2. Len(tables) = nb_tokens + 1 /\ tokens = nb_tokens
    BY <2>1
  <2> QED BY <2>2 DEF BracesInv, AllBraces
<1> QED BY <1>1, <1>2, BracesKeep, Invariance, PTL DEF Spec
=============================================================================
