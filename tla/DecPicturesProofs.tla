------------------------- MODULE DecPicturesProofs -------------------------
(***************************************************************************)
(* Proofs about DecPictures, for any number of nodes, frame numbers and     *)
(* indices and any stream: that the linked lists of ih264d_dpb_mgr.c keep   *)
(* in step with the marking the stream asks for.                            *)
(***************************************************************************)
EXTENDS DecPictures, FiniteSetTheorems, WellFoundedInduction, TLAPS

-----------------------------------------------------------------------------
(* Least and greatest numbers. *)

\* A set of naturals that is not empty has a least element.
LEMMA LeastExists ==
  ASSUME NEW Z, Z \subseteq Nat, Z # {}
  PROVE  \E i \in Z : \A j \in Z : i <= j
<1>1. \E i \in Z : \A j \in Z : ~ (<<j, i>> \in OpToRel(<, Nat))
  BY NatLessThanWellFounded, WFMin
<1>2. PICK i \in Z : \A j \in Z : ~ (<<j, i>> \in OpToRel(<, Nat))
  BY <1>1
<1>3. ASSUME NEW j \in Z PROVE i <= j
  <2>1. i \in Nat /\ j \in Nat
    OBVIOUS
  <2>2. j < i => <<j, i>> \in OpToRel(<, Nat)
    BY <2>1 DEF OpToRel
  <2>3. ~ (j < i)
    BY <1>2, <2>2
  <2> QED BY <2>1, <2>3
<1> QED BY <1>2, <1>3

-----------------------------------------------------------------------------
(* Following links. *)

\* The nodes f goes through, from the first to the k-th.
IsAt(f, head, link, k) ==
  f = [i \in 1..k |-> IF i = 1 THEN head
                      ELSE IF f[i - 1] = D!Nil THEN D!Nil ELSE link[f[i - 1]]]

\* Where nodes are linked one to the next, the k-th from the head is the k-th of them.
LEMMA NodeAtIs ==
  ASSUME NEW head, NEW link, NEW n \in Nat, NEW s \in [1..n -> D!Nodes],
         n > 0 => s[1] = head,
         \A i \in 1..n-1 : link[s[i]] = s[i + 1],
         NEW k \in 1..n
  PROVE  D!NodeAt(head, link, k) = s[k]
<1> DEFINE f == [i \in 1..k |-> s[i]]
           a == CHOOSE g : IsAt(g, head, link, k)
<1>1. IsAt(f, head, link, k)
  <2>1. ASSUME NEW i \in 1..k
        PROVE  f[i] = IF i = 1 THEN head
                      ELSE IF f[i - 1] = D!Nil THEN D!Nil ELSE link[f[i - 1]]
    <3>1. CASE i = 1
      BY <3>1
    <3>2. CASE i # 1
      <4>1. i - 1 \in 1..k /\ i - 1 \in 1..n-1 /\ i - 1 \in 1..n /\ (i - 1) + 1 = i
        BY <3>2
      <4>2. f[i] = s[i] /\ f[i - 1] = s[i - 1] /\ s[i - 1] \in D!Nodes
        BY <4>1
      <4>3. s[i - 1] # D!Nil
        BY <4>2 DEF D!Nodes, D!Nil
      <4>4. link[s[i - 1]] = s[i]
        BY <4>1
      <4> HIDE DEF f
      <4> QED BY <3>2, <4>2, <4>3, <4>4
    <3> QED BY <3>1, <3>2
  <2>2. f = [i \in 1..k |-> f[i]]
    OBVIOUS
  <2>3. f = [i \in 1..k |-> IF i = 1 THEN head
                      ELSE IF f[i - 1] = D!Nil THEN D!Nil ELSE link[f[i - 1]]]
    <3> HIDE DEF f
    <3> QED BY <2>1, <2>2
  <2> QED BY <2>3 DEF IsAt
<1>2. D!NodeAt(head, link, k) = a[k]
  BY DEF D!NodeAt, IsAt
<1> HIDE DEF a, f
<1>3. IsAt(a, head, link, k)
  BY <1>1 DEF a
<1>4. \A i \in 1..k : a[i] = IF i = 1 THEN head
                             ELSE IF a[i - 1] = D!Nil THEN D!Nil ELSE link[a[i - 1]]
  <2> DEFINE h(i) == IF i = 1 THEN head
                     ELSE IF a[i - 1] = D!Nil THEN D!Nil ELSE link[a[i - 1]]
  <2>1. a = [i \in 1..k |-> h(i)]
    BY <1>3 DEF IsAt
  <2> HIDE DEF h
  <2>2. \A i \in 1..k : a[i] = h(i)
    BY <2>1
  <2> QED BY <2>2 DEF h
<1> DEFINE W == {i \in 1..k : a[i] # s[i]}
<1>5. SUFFICES ASSUME W # {} PROVE FALSE
  BY <1>2
<1>6. PICK i \in W : \A j \in W : i <= j
  <2> W \subseteq Nat
    OBVIOUS
  <2> HIDE DEF W
  <2> QED BY <1>5, LeastExists
<1>7. i \in 1..k /\ a[i] # s[i]
  OBVIOUS
<1>8. i # 1
  BY <1>4, <1>7
<1>9. i - 1 \in 1..k /\ i - 1 \notin W
  <2>1. i - 1 \in 1..k /\ ~ (i <= i - 1)
    BY <1>7, <1>8
  <2> HIDE DEF W
  <2> QED BY <2>1, <1>6
<1>10. a[i - 1] = s[i - 1]
  <2>1. \A j \in 1..k : j \notin W => a[j] = s[j]
    OBVIOUS
  <2> HIDE DEF W
  <2> QED BY <1>9, <2>1
<1>11. i - 1 \in 1..n-1 /\ (i - 1) + 1 = i /\ i - 1 \in 1..n
  BY <1>7, <1>8
<1>12. s[i - 1] \in D!Nodes /\ link[s[i - 1]] = s[i]
  BY <1>11
<1>13. s[i - 1] # D!Nil
  BY <1>12 DEF D!Nodes, D!Nil
<1> QED BY <1>4, <1>7, <1>8, <1>10, <1>12, <1>13

\* Each definition of the least element is one.
LEMMA MinFacts ==
  ASSUME NEW Z, Z \subseteq Nat, Z # {}
  PROVE  D!Min(Z) \in Z /\ \A j \in Z : D!Min(Z) <= j
BY LeastExists DEF D!Min

-----------------------------------------------------------------------------
(* The reference lists. *)

NodeStates ==
  [use : {"no", "short", "long"}, buf : Nat \cup {NoBuf}, num : Int, lt : Nat,
   ps : 0..NumNodes, pl : 0..NumNodes]
ListStates ==
  [node : [D!Nodes -> NodeStates], st : 0..NumNodes, lt : 0..NumNodes,
   nst : Nat, nlt : Nat, max : Nat]

\* The nodes in use, and what they are used for.
ShortUse(l, n) == l.node[n].use = "short"
LongUse(l, n) == l.node[n].use = "long"
InUse(l) == {n \in D!Nodes : l.node[n].use # "no"}

\* The short-term list goes through the nodes s, which are those in use for it.
ShortChain(l, s) ==
  /\ s \in [1..l.nst -> D!Nodes]
  /\ \A i, j \in 1..l.nst : s[i] = s[j] => i = j
  /\ l.nst > 0 => s[1] = l.st
  /\ \A i \in 1..l.nst-1 : l.node[s[i]].ps = s[i + 1]
  /\ \A n \in D!Nodes : ShortUse(l, n) <=> \E i \in 1..l.nst : s[i] = n

\* The long-term list goes through the nodes t, by ascending index.
LongChain(l, t) ==
  /\ t \in [1..l.nlt -> D!Nodes]
  /\ \A i, j \in 1..l.nlt : i < j => l.node[t[i]].lt < l.node[t[j]].lt
  /\ l.nlt > 0 => t[1] = l.lt
  /\ \A i \in 1..l.nlt-1 : l.node[t[i]].pl = t[i + 1]
  /\ \A n \in D!Nodes : LongUse(l, n) <=> \E i \in 1..l.nlt : t[i] = n

Lists(l, s, t) == l \in ListStates /\ ShortChain(l, s) /\ LongChain(l, t)

\* The short-term list ends with a null pointer, and f falls along it.
Falling(l, s, f) ==
  /\ \A i, j \in 1..l.nst : i < j => f[s[i]] > f[s[j]]
  /\ IF l.nst = 0 THEN l.st = D!Nil ELSE l.node[s[l.nst]].ps = D!Nil

\* The lists are linked; when ord is true, in the order of f.
Linked(l, f, ord) == \E s, t : Lists(l, s, t) /\ (ord => Falling(l, s, f))

\* A sequence with another first element, without its k-th, and without its last.
Before(n, s, len) == [i \in 1..len+1 |-> IF i = 1 THEN n ELSE s[i - 1]]
Skip(s, k, len) == [i \in 1..len-1 |-> IF i < k THEN s[i] ELSE s[i + 1]]

\* The nodes are numbers, and neither 0 nor NoBuf is one.
LEMMA NodesFacts ==
  /\ NumNodes \in Nat /\ NumNodes > 0 /\ D!Nodes = 1..NumNodes /\ D!Nil = 0
  /\ D!Nil \notin D!Nodes /\ D!Nodes \subseteq 0..NumNodes /\ D!NoIdx \in Nat
  /\ NoBuf \notin Nat /\ MaxIdx \in Nat
BY DecPicturesAssumption DEF D!Nodes, D!Nil, D!NoIdx

\* The k-th nodes of the lists are those the chains have there.
LEMMA ShortAtIs ==
  ASSUME NEW l, NEW s, l \in ListStates, ShortChain(l, s), NEW k \in 1..l.nst
  PROVE  D!ShortAt(l, k) = s[k]
<1> DEFINE link == [n \in D!Nodes |-> l.node[n].ps]
<1>1. /\ l.nst \in Nat /\ s \in [1..l.nst -> D!Nodes] /\ (l.nst > 0 => s[1] = l.st)
      /\ \A i \in 1..l.nst-1 : l.node[s[i]].ps = s[i + 1]
  BY DEF ListStates, ShortChain
<1>2. \A i \in 1..l.nst-1 : s[i] \in D!Nodes
  BY <1>1
<1>3. \A i \in 1..l.nst-1 : link[s[i]] = s[i + 1]
  BY <1>1, <1>2
<1>4. D!ShortAt(l, k) = D!NodeAt(l.st, link, k)
  BY DEF D!ShortAt
<1> HIDE DEF link
<1> QED BY <1>1, <1>3, <1>4, NodeAtIs

\* The same for the long-term list.
LEMMA LongAtIs ==
  ASSUME NEW l, NEW t, l \in ListStates, LongChain(l, t), NEW k \in 1..l.nlt
  PROVE  D!LongAt(l, k) = t[k]
<1> DEFINE link == [n \in D!Nodes |-> l.node[n].pl]
<1>1. /\ l.nlt \in Nat /\ t \in [1..l.nlt -> D!Nodes] /\ (l.nlt > 0 => t[1] = l.lt)
      /\ \A i \in 1..l.nlt-1 : l.node[t[i]].pl = t[i + 1]
  BY DEF ListStates, LongChain
<1>2. \A i \in 1..l.nlt-1 : t[i] \in D!Nodes
  BY <1>1
<1>3. \A i \in 1..l.nlt-1 : link[t[i]] = t[i + 1]
  BY <1>1, <1>2
<1>4. D!LongAt(l, k) = D!NodeAt(l.lt, link, k)
  BY DEF D!LongAt
<1> HIDE DEF link
<1> QED BY <1>1, <1>3, <1>4, NodeAtIs

\* The chains depend on the counts, the heads, the uses and the links in use.
LEMMA ShortSame ==
  ASSUME NEW l, NEW m, NEW s, ShortChain(l, s), l.nst \in Nat, m.nst = l.nst, m.st = l.st,
         \A n \in D!Nodes : /\ ShortUse(m, n) <=> ShortUse(l, n)
                            /\ ShortUse(l, n) => m.node[n].ps = l.node[n].ps
  PROVE  ShortChain(m, s)
<1>1. \A i \in 1..l.nst-1 : i \in 1..l.nst
  OBVIOUS
<1>2. \A i \in 1..l.nst-1 : s[i] \in D!Nodes /\ ShortUse(l, s[i])
  BY <1>1 DEF ShortChain
<1> QED BY <1>2 DEF ShortChain

\* And the same for the long-term list.
LEMMA LongSame ==
  ASSUME NEW l, NEW m, NEW t, LongChain(l, t), l.nlt \in Nat, m.nlt = l.nlt, m.lt = l.lt,
         \A n \in D!Nodes : /\ LongUse(m, n) <=> LongUse(l, n)
                            /\ LongUse(l, n) => /\ m.node[n].pl = l.node[n].pl
                                                /\ m.node[n].lt = l.node[n].lt
  PROVE  LongChain(m, t)
<1>1. \A i \in 1..l.nlt-1 : i \in 1..l.nlt
  OBVIOUS
<1>2. \A i \in 1..l.nlt : t[i] \in D!Nodes /\ LongUse(l, t[i])
  BY DEF LongChain
<1> QED BY <1>1, <1>2 DEF LongChain

\* And so does the order.
LEMMA FallingSame ==
  ASSUME NEW l, NEW m, NEW s, NEW f, NEW g, ShortChain(l, s), l.nst \in Nat,
         m.nst = l.nst, m.st = l.st,
         \A n \in D!Nodes : ShortUse(l, n) => m.node[n].ps = l.node[n].ps /\ g[n] = f[n],
         Falling(l, s, f)
  PROVE  Falling(m, s, g)
<1>1. \A i \in 1..l.nst : s[i] \in D!Nodes /\ ShortUse(l, s[i])
  BY DEF ShortChain
<1>2. l.nst # 0 => l.nst \in 1..l.nst
  OBVIOUS
<1> QED BY <1>1, <1>2 DEF Falling

\* The node taken for a picture, and the lists with it in front.
Taken(l, n, b, num) ==
  [l EXCEPT !.node[n] = [@ EXCEPT !.use = "short", !.buf = b, !.num = num,
                                  !.lt = D!NoIdx, !.ps = l.st],
            !.st = n, !.nst = @ + 1]

\* An insertion takes the first unused node and puts it in front.
LEMMA TakenFacts ==
  ASSUME NEW l, NEW s, NEW t, Lists(l, s, t), NEW b \in Nat, NEW num \in Int,
         NEW n \in D!Nodes, l.node[n].use = "no"
  PROVE  LET m == Taken(l, n, b, num)
             u == Before(n, s, l.nst) IN
         /\ Lists(m, u, t)
         /\ m.node[n].use = "short" /\ m.node[n].buf = b /\ m.node[n].num = num
         /\ \A x \in D!Nodes : x # n => m.node[x] = l.node[x]
         /\ m.max = l.max /\ m.nst = l.nst + 1 /\ m.nlt = l.nlt
         /\ \A f, g : /\ Falling(l, s, f)
                      /\ \A x \in D!Nodes : ShortUse(l, x) => g[x] = f[x] /\ f[x] < g[n]
                      => Falling(m, u, g)
<1> DEFINE m == Taken(l, n, b, num)
           u == Before(n, s, l.nst)
           e == [l.node[n] EXCEPT !.use = "short", !.buf = b, !.num = num,
                                  !.lt = D!NoIdx, !.ps = l.st]
<1>4. l \in ListStates /\ l.nst \in Nat /\ l.nlt \in Nat /\ l.st \in 0..NumNodes
  BY DEF Lists, ListStates
<1>a. l.node \in [D!Nodes -> NodeStates] /\ l.node[n] \in NodeStates /\ n \in 0..NumNodes
  BY <1>4, NodesFacts DEF ListStates
<1>b. m = [l EXCEPT !.node = [l.node EXCEPT ![n] = e], !.st = n, !.nst = l.nst + 1]
  BY <1>4 DEF ListStates, Taken
<1>c. /\ e \in NodeStates /\ e.use = "short" /\ e.buf = b /\ e.num = num /\ e.ps = l.st
  BY <1>a, <1>4, NodesFacts DEF NodeStates
<1> HIDE DEF e
<1>5. /\ m.nst = l.nst + 1 /\ m.st = n /\ m.lt = l.lt /\ m.nlt = l.nlt /\ m.max = l.max
      /\ m.node[n] = e
      /\ \A x \in D!Nodes : x # n => m.node[x] = l.node[x]
  BY <1>4, <1>a, <1>b DEF ListStates
<1>6. m \in ListStates
  <2>1. [l.node EXCEPT ![n] = e] \in [D!Nodes -> NodeStates]
    BY <1>a, <1>c
  <2>2. l.nst + 1 \in Nat
    BY <1>4
  <2> QED BY <1>a, <1>b, <1>4, <2>1, <2>2 DEF ListStates
<1> HIDE DEF m
<1>7. LongChain(m, t)
  <2>1. \A x \in D!Nodes : /\ LongUse(m, x) <=> LongUse(l, x)
                           /\ LongUse(l, x) => /\ m.node[x].pl = l.node[x].pl
                                               /\ m.node[x].lt = l.node[x].lt
    BY <1>5, <1>c DEF LongUse
  <2> QED BY <1>4, <1>5, <2>1, LongSame DEF Lists
<1>8. s \in [1..l.nst -> D!Nodes] /\ (\A i \in 1..l.nst : s[i] # n /\ ShortUse(l, s[i]))
  BY DEF Lists, ShortChain, ShortUse
<1>9. u \in [1..l.nst+1 -> D!Nodes] /\ u[1] = n /\ \A i \in 1..l.nst : u[i + 1] = s[i]
  <2>1. \A i \in 1..l.nst+1 : i # 1 => i - 1 \in 1..l.nst
    BY <1>4
  <2>2. \A i \in 1..l.nst : i + 1 \in 1..l.nst+1 /\ i + 1 # 1 /\ (i + 1) - 1 = i
    BY <1>4
  <2> QED BY <1>4, <1>8, <2>1, <2>2 DEF Before
<1>10. \A i \in 1..l.nst+1 : i = 1 \/ \E j \in 1..l.nst : i = j + 1 /\ u[i] = s[j]
  <2> SUFFICES ASSUME NEW i \in 1..l.nst+1, i # 1
               PROVE  \E j \in 1..l.nst : i = j + 1 /\ u[i] = s[j]
    OBVIOUS
  <2>1. i - 1 \in 1..l.nst /\ i = (i - 1) + 1
    BY <1>4
  <2> QED BY <2>1, <1>9
<1> HIDE DEF u
<1>11. ShortChain(m, u)
  <2>1. u \in [1..m.nst -> D!Nodes] /\ u[1] = m.st
    BY <1>5, <1>9
  <2>2. \A i, j \in 1..m.nst : u[i] = u[j] => i = j
    BY <1>4, <1>5, <1>8, <1>9, <1>10 DEF Lists, ShortChain
  <2>3. ASSUME NEW i \in 1..m.nst-1 PROVE m.node[u[i]].ps = u[i + 1]
    <3>1. i \in 1..l.nst /\ u[i + 1] = s[i]
      BY <1>4, <1>5, <1>9
    <3>2. CASE i = 1
      <4>1. u[i] = n /\ m.node[u[i]].ps = l.st
        BY <3>2, <1>5, <1>9, <1>c
      <4>2. s[1] = l.st
        <5>1. l.nst > 0
          BY <3>1, <1>4
        <5> QED BY <5>1 DEF Lists, ShortChain
      <4> QED BY <3>1, <3>2, <4>1, <4>2
    <3>3. CASE i # 1
      <4>1. i - 1 \in 1..l.nst-1 /\ i - 1 \in 1..l.nst /\ (i - 1) + 1 = i
        BY <3>1, <3>3, <1>4
      <4>2. u[i] = s[i - 1] /\ l.node[s[i - 1]].ps = s[i]
        BY <4>1, <1>9 DEF Lists, ShortChain
      <4> QED BY <3>1, <4>1, <4>2, <1>5, <1>8
    <3> QED BY <3>2, <3>3
  <2>4. ASSUME NEW x \in D!Nodes PROVE ShortUse(m, x) <=> \E i \in 1..m.nst : u[i] = x
    <3>1. CASE x = n
      <4>1. 1 \in 1..m.nst
        BY <1>4, <1>5
      <4> QED BY <3>1, <4>1, <1>5, <1>c, <1>9 DEF ShortUse
    <3>2. CASE x # n
      <4>1. ShortUse(m, x) <=> \E i \in 1..l.nst : s[i] = x
        BY <3>2, <1>5 DEF Lists, ShortChain, ShortUse
      <4>2. (\E i \in 1..l.nst : s[i] = x) => \E i \in 1..m.nst : u[i] = x
        <5>1. \A i \in 1..l.nst : i + 1 \in 1..m.nst
          BY <1>4, <1>5
        <5> QED BY <5>1, <1>9
      <4>3. (\E i \in 1..m.nst : u[i] = x) => \E i \in 1..l.nst : s[i] = x
        BY <3>2, <1>5, <1>9, <1>10
      <4> QED BY <4>1, <4>2, <4>3
    <3> QED BY <3>1, <3>2
  <2> QED BY <2>1, <2>2, <2>3, <2>4 DEF ShortChain
<1>12. ASSUME NEW f, NEW g, Falling(l, s, f),
              \A x \in D!Nodes : ShortUse(l, x) => g[x] = f[x] /\ f[x] < g[n]
       PROVE  Falling(m, u, g)
  <2>1. ASSUME NEW i \in 1..m.nst, NEW j \in 1..m.nst, i < j
        PROVE  g[u[i]] > g[u[j]]
    <3>1. PICK j2 \in 1..l.nst : j = j2 + 1 /\ u[j] = s[j2]
      <4>1. j # 1 /\ j \in 1..l.nst+1
        BY <2>1, <1>4, <1>5
      <4> QED BY <4>1, <1>10
    <3>2. s[j2] \in D!Nodes /\ g[u[j]] = f[s[j2]] /\ f[s[j2]] < g[n]
      BY <3>1, <1>8, <1>12
    <3>4. CASE i = 1
      BY <3>2, <3>4, <1>9
    <3>5. CASE i # 1
      <4>1. PICK i2 \in 1..l.nst : i = i2 + 1 /\ u[i] = s[i2]
        BY <3>5, <1>5, <1>10
      <4>2. g[u[i]] = f[s[i2]] /\ i2 < j2
        BY <4>1, <3>1, <2>1, <1>4, <1>8, <1>12
      <4> QED BY <3>2, <4>2, <1>12 DEF Falling
    <3> QED BY <3>4, <3>5
  <2>2. m.nst # 0 /\ m.node[u[m.nst]].ps = D!Nil
    <3>1. CASE l.nst = 0
      BY <3>1, <1>5, <1>c, <1>9, <1>12 DEF Falling
    <3>2. CASE l.nst # 0
      <4>1. l.nst \in 1..l.nst
        BY <1>4, <3>2
      <4>2. u[m.nst] = s[l.nst] /\ s[l.nst] # n /\ s[l.nst] \in D!Nodes
        BY <4>1, <1>5, <1>8, <1>9
      <4> QED BY <1>4, <1>5, <3>2, <4>2, <1>12 DEF Falling
    <3> QED BY <3>1, <3>2
  <2> QED BY <2>1, <2>2 DEF Falling
<1>14. Lists(m, u, t)
  BY <1>6, <1>7, <1>11 DEF Lists
<1>15. m.node[n].use = "short" /\ m.node[n].buf = b /\ m.node[n].num = num
  BY <1>5, <1>c
<1> QED BY <1>5, <1>12, <1>14, <1>15 DEF m, u

\* What is said of a node, apart from its links.
Same(l, m, x) ==
  /\ m.node[x].use = l.node[x].use /\ m.node[x].buf = l.node[x].buf
  /\ m.node[x].num = l.node[x].num /\ m.node[x].lt = l.node[x].lt

\* The k-th node leaves the short-term list, and keeps its picture.
LEMMA UnlinkFacts ==
  ASSUME NEW l, NEW s, NEW t, Lists(l, s, t), NEW k \in 1..l.nst
  PROVE  LET m == D!Unlink(l, k)
             u == Skip(s, k, l.nst) IN
         /\ Lists(m, u, t)
         /\ m.node[s[k]].use = "no" /\ m.node[s[k]].buf = l.node[s[k]].buf
         /\ \A x \in D!Nodes : x # s[k] => Same(l, m, x)
         /\ m.max = l.max /\ m.nst = l.nst - 1 /\ m.nlt = l.nlt
         /\ \A f : Falling(l, s, f) => Falling(m, u, f)
<1> DEFINE m == D!Unlink(l, k)
           u == Skip(s, k, l.nst)
           n == s[k]
           p == s[k - 1]
           e == [l.node[n] EXCEPT !.use = "no"]
           d == [l.node[p] EXCEPT !.ps = l.node[n].ps]
           a == [l.node EXCEPT ![n] = e]
<1>1. l \in ListStates /\ l.nst \in Nat /\ l.nlt \in Nat /\ l.st \in 0..NumNodes
  BY DEF Lists, ListStates
<1>2. ShortChain(l, s) /\ LongChain(l, t)
  BY DEF Lists
<1>3. /\ s \in [1..l.nst -> D!Nodes] /\ n \in D!Nodes
      /\ (\A i \in 1..l.nst : s[i] = n => i = k)
      /\ (\A i \in 1..l.nst : ShortUse(l, s[i]) /\ s[i] \in D!Nodes)
  BY <1>2 DEF ShortChain
<1>4. D!ShortAt(l, k) = n /\ (k # 1 => D!ShortAt(l, k - 1) = p)
  <2>1. k # 1 => k - 1 \in 1..l.nst
    BY <1>1
  <2> QED BY <1>1, <1>2, <2>1, ShortAtIs
<1>5. k # 1 => p \in D!Nodes /\ p # n /\ k - 1 \in 1..l.nst /\ k - 1 \in 1..l.nst-1
  BY <1>1, <1>3
<1>6. l.node \in [D!Nodes -> NodeStates] /\ l.node[n] \in NodeStates
  BY <1>1, <1>3 DEF ListStates
<1>7. e \in NodeStates /\ e.use = "no" /\ e.buf = l.node[n].buf
  BY <1>6 DEF NodeStates
<1>8. k # 1 => /\ d \in NodeStates /\ d.ps = l.node[n].ps
               /\ d.use = l.node[p].use /\ d.buf = l.node[p].buf /\ d.num = l.node[p].num
               /\ d.lt = l.node[p].lt /\ d.pl = l.node[p].pl
  <2> SUFFICES ASSUME k # 1 
               PROVE  /\ d \in NodeStates /\ d.ps = l.node[n].ps
               /\ d.use = l.node[p].use /\ d.buf = l.node[p].buf /\ d.num = l.node[p].num
               /\ d.lt = l.node[p].lt /\ d.pl = l.node[p].pl
    OBVIOUS
  <2>1. l.node[p] \in NodeStates
    BY <1>5, <1>6
  <2> QED BY <1>6, <2>1 DEF NodeStates
<1>9. k = 1 => m = [l EXCEPT !.node = a, !.nst = l.nst - 1, !.st = l.node[n].ps]
  BY <1>1, <1>4, <1>6 DEF ListStates, D!Unlink
<1>10. k # 1 => m = [l EXCEPT !.node = [a EXCEPT ![p] = d], !.nst = l.nst - 1]
  <2> SUFFICES ASSUME k # 1 
               PROVE  m = [l EXCEPT !.node = [a EXCEPT ![p] = d], !.nst = l.nst - 1]
    OBVIOUS
  <2>1. m = [[l EXCEPT !.node = a, !.nst = l.nst - 1] EXCEPT !.node[p].ps = l.node[n].ps]
    BY <1>1, <1>4, <1>6 DEF ListStates, D!Unlink
  <2>2. a[p] = l.node[p]
    BY <1>5, <1>6
  <2> HIDE DEF e, n, p
  <2> QED BY <2>1, <2>2, <1>1, <1>5, <1>6 DEF ListStates
<1> HIDE DEF e, d, m
<1>11. /\ m.nst = l.nst - 1 /\ m.lt = l.lt /\ m.nlt = l.nlt /\ m.max = l.max
       /\ m.node[n] = e
       /\ \A x \in D!Nodes : x # n /\ ~(k # 1 /\ x = p) => m.node[x] = l.node[x]
       /\ k # 1 => m.node[p] = d /\ m.st = l.st
       /\ k = 1 => m.st = l.node[n].ps
  <2>1. CASE k = 1
    <3>1. /\ m.nst = l.nst - 1 /\ m.lt = l.lt /\ m.nlt = l.nlt /\ m.max = l.max
          /\ m.st = l.node[n].ps /\ m.node = a
      BY <2>1, <1>1, <1>9 DEF ListStates
    <3>2. a[n] = e /\ \A x \in D!Nodes : x # n => a[x] = l.node[x]
      BY <1>3, <1>6
    <3> HIDE DEF a, n, p
    <3> QED BY <2>1, <3>1, <3>2
  <2>2. CASE k # 1
    BY <2>2, <1>1, <1>3, <1>5, <1>6, <1>10 DEF ListStates
  <2> QED BY <2>1, <2>2
<1>12. m \in ListStates
  <2>1. a \in [D!Nodes -> NodeStates] /\ l.nst - 1 \in Nat /\ l.node[n].ps \in 0..NumNodes
    <3>1. a \in [D!Nodes -> NodeStates]
      BY <1>6, <1>7
    <3>2. l.nst - 1 \in Nat
      BY <1>1
    <3>3. l.node[n].ps \in 0..NumNodes
      BY <1>6 DEF NodeStates
    <3> QED BY <3>1, <3>2, <3>3
  <2> HIDE DEF a, n, p
  <2>2. CASE k = 1
    BY <2>1, <2>2, <1>1, <1>9 DEF ListStates
  <2>3. CASE k # 1
    <3>1. [a EXCEPT ![p] = d] \in [D!Nodes -> NodeStates]
      BY <2>1, <2>3, <1>5, <1>8
    <3> QED BY <3>1, <2>1, <2>3, <1>1, <1>10 DEF ListStates
  <2> QED BY <2>2, <2>3
<1>13. \A x \in D!Nodes : x # n => Same(l, m, x) /\ m.node[x].pl = l.node[x].pl
  BY <1>5, <1>8, <1>11 DEF Same
<1>14. LongChain(m, t)
  <2>1. \A x \in D!Nodes : /\ LongUse(m, x) <=> LongUse(l, x)
                           /\ LongUse(l, x) => /\ m.node[x].pl = l.node[x].pl
                                               /\ m.node[x].lt = l.node[x].lt
    BY <1>3, <1>7, <1>11, <1>13 DEF LongUse, ShortUse, Same
  <2> QED BY <1>1, <1>2, <1>11, <2>1, LongSame
<1>15. /\ u \in [1..l.nst-1 -> D!Nodes]
       /\ \A i \in 1..l.nst-1 : /\ i < k => u[i] = s[i] /\ i \in 1..l.nst
                                /\ i >= k => u[i] = s[i + 1] /\ i + 1 \in 1..l.nst
  BY <1>1, <1>3 DEF Skip
<1> HIDE DEF u, n, p
<1>16. \A i \in 1..l.nst-1 : u[i] # n /\ u[i] \in D!Nodes /\ ShortUse(l, u[i])
  BY <1>1, <1>3, <1>15
<1>17. ShortChain(m, u)
  <2>1. \A i, j \in 1..l.nst-1 : u[i] = u[j] => i = j
    <3> SUFFICES ASSUME NEW i \in 1..l.nst-1, NEW j \in 1..l.nst-1, u[i] = u[j] PROVE i = j
      OBVIOUS
    <3>1. \A x, y \in 1..l.nst : s[x] = s[y] => x = y
      BY <1>2 DEF ShortChain
    <3> QED BY <1>1, <1>15, <3>1
  <2>2. m.nst > 0 => u[1] = m.st
    <3> SUFFICES ASSUME m.nst > 0 PROVE u[1] = m.st
      OBVIOUS
    <3>1. 1 \in 1..l.nst-1
      BY <1>1, <1>11
    <3>2. CASE k = 1
      <4>1. u[1] = s[2] /\ l.node[s[1]].ps = s[2]
        BY <3>1, <3>2, <1>2, <1>15 DEF ShortChain
      <4> QED BY <4>1, <3>2, <1>11 DEF n
    <3>3. CASE k # 1
      BY <3>1, <3>3, <1>1, <1>2, <1>11, <1>15 DEF ShortChain
    <3> QED BY <3>2, <3>3
  <2>3. ASSUME NEW i \in 1..m.nst-1 PROVE m.node[u[i]].ps = u[i + 1]
    <3>1. /\ i \in 1..l.nst-1 /\ i + 1 \in 1..l.nst-1 /\ i + 1 \in 1..l.nst
          /\ (i + 1) + 1 = i + 2
      BY <1>1, <1>11
    <3>2. \A j \in 1..l.nst-1 : l.node[s[j]].ps = s[j + 1]
      BY <1>2 DEF ShortChain
    <3>3. CASE i + 1 < k
      <4>1. i < k /\ k # 1 /\ i # k - 1 /\ i \in 1..l.nst /\ k - 1 \in 1..l.nst
        BY <3>1, <3>3, <1>1
      <4>2. u[i] = s[i] /\ u[i + 1] = s[i + 1] 
        BY <4>1, <3>1, <3>3, <1>15
      <4>3. s[i] # n /\ s[i] # p /\ s[i] \in D!Nodes
        BY <4>1, <1>2, <1>3 DEF ShortChain, p
      <4>4. m.node[s[i]] = l.node[s[i]]
        BY <4>3, <1>11
      <4> QED BY <4>2, <4>4, <3>1, <3>2
    <3>4. CASE i + 1 = k
      <4>1. k # 1 /\ i = k - 1 /\ i < k /\ k \in 1..l.nst-1
        BY <3>1, <3>4
      <4>2. u[i] = p /\ u[i + 1] = s[k + 1]
        BY <4>1, <3>1, <3>4, <1>15 DEF p
      <4>3. m.node[p].ps = l.node[n].ps /\ l.node[n].ps = s[k + 1]
        BY <4>1, <3>2, <1>8, <1>11 DEF n
      <4> QED BY <4>2, <4>3
    <3>5. CASE i + 1 > k
      <4>1. i >= k /\ i + 1 >= k /\ i + 1 # k
        BY <3>1, <3>5
      <4>2. u[i] = s[i + 1] /\ u[i + 1] = s[(i + 1) + 1]
        BY <4>1, <3>1, <1>15
      <4>3. s[i + 1] # n /\ s[i + 1] \in D!Nodes
        BY <4>1, <3>1, <1>3
      <4>4. k # 1 => s[i + 1] # p
        BY <4>1, <3>1, <1>2, <1>5 DEF ShortChain, p
      <4>5. m.node[s[i + 1]] = l.node[s[i + 1]]
        BY <4>3, <4>4, <1>11
      <4> QED BY <4>2, <4>5, <3>1, <3>2
    <3> QED BY <3>1, <3>3, <3>4, <3>5
  <2>4. ASSUME NEW x \in D!Nodes PROVE ShortUse(m, x) <=> \E i \in 1..l.nst-1 : u[i] = x
    <3>1. CASE x = n
      BY <3>1, <1>7, <1>11, <1>16 DEF ShortUse
    <3>2. CASE x # n
      <4>1. ShortUse(m, x) <=> \E i \in 1..l.nst : s[i] = x
        BY <3>2, <1>2, <1>13 DEF ShortChain, ShortUse, Same
      <4>2. (\E i \in 1..l.nst : s[i] = x) => \E i \in 1..l.nst-1 : u[i] = x
        <5> SUFFICES ASSUME NEW i \in 1..l.nst, s[i] = x
                     PROVE  \E j \in 1..l.nst-1 : u[j] = x
          OBVIOUS
        <5>1. i # k
          BY <3>2 DEF n
        <5>2. CASE i < k
          <6>1. i \in 1..l.nst-1
            BY <5>2, <1>1
          <6> QED BY <6>1, <5>2, <1>15
        <5>3. CASE i > k
          <6>1. i - 1 \in 1..l.nst-1 /\ i - 1 >= k /\ (i - 1) + 1 = i
            BY <5>3, <1>1
          <6> QED BY <6>1, <1>15
        <5> QED BY <5>1, <5>2, <5>3
      <4>3. (\E i \in 1..l.nst-1 : u[i] = x) => ShortUse(m, x)
        BY <1>13, <1>16 DEF ShortUse, Same
      <4> QED BY <4>1, <4>2, <4>3
    <3> QED BY <3>1, <3>2
  <2> QED BY <2>1, <2>2, <2>3, <2>4, <1>11, <1>15 DEF ShortChain
<1>18. ASSUME NEW f, Falling(l, s, f) PROVE Falling(m, u, f)
  <2>1. \A i, j \in 1..l.nst : i < j => f[s[i]] > f[s[j]]
    BY <1>18 DEF Falling
  <2>2. ASSUME NEW i \in 1..l.nst-1, NEW j \in 1..l.nst-1, i < j PROVE f[u[i]] > f[u[j]]
    <3>1. PICK x \in 1..l.nst : u[i] = s[x] /\ ((x = i /\ i < k) \/ (x = i + 1 /\ i >= k))
      BY <1>1, <1>15
    <3>2. PICK y \in 1..l.nst : u[j] = s[y] /\ ((y = j /\ j < k) \/ (y = j + 1 /\ j >= k))
      BY <1>1, <1>15
    <3>3. x < y
      BY <3>1, <3>2, <2>2, <1>1
    <3> QED BY <3>1, <3>2, <3>3, <2>1
  <2>3. l.nst # 0 /\ l.nst \in 1..l.nst /\ l.node[s[l.nst]].ps = D!Nil
    BY <1>1, <1>18 DEF Falling
  <2>4. CASE m.nst = 0
    <3>1. l.nst = 1 /\ k = 1
      BY <2>4, <1>1, <1>11
    <3> QED BY <3>1, <2>3, <2>4, <1>11 DEF Falling, n
  <2>5. CASE m.nst # 0
    <3>1. l.nst - 1 \in 1..l.nst-1 /\ l.nst - 1 \in 1..l.nst /\ (l.nst - 1) + 1 = l.nst
      BY <2>5, <1>1, <1>11
    <3>2. CASE k = l.nst
      <4>1. k # 1 /\ u[l.nst - 1] = p
        BY <3>1, <3>2, <1>1, <1>15 DEF p
      <4>2. m.node[p].ps = D!Nil
        BY <4>1, <3>2, <2>3, <1>8, <1>11 DEF n
      <4> QED BY <4>1, <4>2, <2>2, <2>5, <1>11 DEF Falling
    <3>3. CASE k # l.nst
      <4>1. u[l.nst - 1] = s[l.nst]
        <5>1. l.nst - 1 >= k
          BY <3>3, <1>1
        <5> QED BY <5>1, <3>1, <1>15
      <4>2. s[l.nst] # n /\ s[l.nst] \in D!Nodes
        BY <2>3, <3>3, <1>3
      <4>3. k # 1 => s[l.nst] # p
        BY <2>3, <3>3, <1>1, <1>2, <1>5 DEF ShortChain, p
      <4>4. m.node[s[l.nst]] = l.node[s[l.nst]]
        BY <4>2, <4>3, <1>11
      <4> QED BY <4>1, <4>4, <2>2, <2>3, <2>5, <1>11 DEF Falling
    <3> QED BY <3>2, <3>3
  <2> QED BY <2>4, <2>5
<1>19. m.node[n].use = "no" /\ m.node[n].buf = l.node[n].buf
  BY <1>7, <1>11
<1>20. Lists(m, u, t)
  BY <1>12, <1>14, <1>17 DEF Lists
<1> QED BY <1>11, <1>13, <1>18, <1>19, <1>20 DEF m, u, n

\* A set of numbers up to a bound has a greatest element, which Max gives.
LEMMA MaxFacts ==
  ASSUME NEW n \in Nat, NEW Z, Z \subseteq 0..n, Z # {}
  PROVE  D!Max(Z) \in Z /\ \A j \in Z : j <= D!Max(Z)
<1> DEFINE U == {n - i : i \in Z}
<1>1. U \subseteq Nat /\ U # {}
  <2>1. \A i \in Z : n - i \in Nat
    BY SMT
  <2> QED BY <2>1
<1>2. PICK u \in U : \A v \in U : u <= v
  <2> HIDE DEF U
  <2> QED BY <1>1, LeastExists
<1>3. PICK i \in Z : u = n - i
  OBVIOUS
<1>4. ASSUME NEW j \in Z PROVE j <= i
  <2>1. n - j \in U
    OBVIOUS
  <2>2. u <= n - j
    <3> HIDE DEF U
    <3> QED BY <2>1, <1>2
  <2>3. i \in 0..n /\ j \in 0..n
    OBVIOUS
  <2> QED BY <2>2, <2>3, <1>3
<1> QED BY <1>4 DEF D!Max

\* The first place where P holds, one past the end when there is none.
LEMMA FirstFacts ==
  ASSUME NEW n \in Nat, NEW Z, Z \subseteq 1..n
  PROVE  LET k == D!Min(Z \cup {n + 1}) IN
         /\ k \in 1..n + 1
         /\ k <= n <=> Z # {}
         /\ k <= n => k \in Z
         /\ \A j \in Z : k <= j
<1> DEFINE k == D!Min(Z \cup {n + 1})
<1>1. k \in Z \cup {n + 1} /\ \A j \in Z \cup {n + 1} : k <= j
  <2>1. Z \cup {n + 1} \subseteq Nat /\ Z \cup {n + 1} # {}
    OBVIOUS
  <2> QED BY <2>1, MinFacts
<1> HIDE DEF k
<1>2. k \in 1..n + 1
  BY <1>1
<1>3. k <= n => k \in Z
  BY <1>1
<1>4. Z # {} => k <= n
  <2> SUFFICES ASSUME NEW j \in Z PROVE k <= n
    OBVIOUS
  <2>1. k <= j /\ j \in 1..n
    BY <1>1
  <2> QED BY <2>1, <1>2
<1> QED BY <1>1, <1>2, <1>3, <1>4 DEF k

\* The bookkeeping every operation leaves alone, and the links of the short-term list.
ShortFrame(l, m) ==
  /\ m.max = l.max /\ m.nst = l.nst /\ m.st = l.st
  /\ \A x \in D!Nodes : m.node[x].ps = l.node[x].ps

\* With it the short-term list stays as it is.
LEMMA ShortFrameFacts ==
  ASSUME NEW l, NEW m, NEW s, l \in ListStates, ShortChain(l, s), ShortFrame(l, m),
         \A x \in D!Nodes : ShortUse(m, x) <=> ShortUse(l, x)
  PROVE  ShortChain(m, s) /\ \A f : Falling(l, s, f) => Falling(m, s, f)
<1>1. l.nst \in Nat
  BY DEF ListStates
<1>2. ShortChain(m, s)
  BY <1>1, ShortSame DEF ShortFrame
<1>3. ASSUME NEW f, Falling(l, s, f) PROVE Falling(m, s, f)
  <2>1. \A n \in D!Nodes : ShortUse(l, n) => m.node[n].ps = l.node[n].ps /\ f[n] = f[n]
    BY DEF ShortFrame
  <2> QED BY <1>1, <1>3, <2>1, FallingSame DEF ShortFrame
<1> QED BY <1>2, <1>3

\* The nodes of the long-term list with an index.
WithIdx(l, idx) == {x \in D!Nodes : LongUse(l, x) /\ l.node[x].lt = idx}

\* The long-term list gives up the node with an index, if there is one.
LEMMA DeleteLongFacts ==
  ASSUME NEW l, NEW s, NEW t, Lists(l, s, t), NEW idx \in Nat
  PROVE  LET r == D!DeleteLong(l, idx) IN
         /\ \E u : Lists(r.l, s, u)
         /\ \A f : Falling(l, s, f) => Falling(r.l, s, f)
         /\ \A x \in D!Nodes : x \notin WithIdx(l, idx) => Same(l, r.l, x)
         /\ \A x \in WithIdx(l, idx) : r.l.node[x].use = "no"
         /\ r.rel = {l.node[x].buf : x \in WithIdx(l, idx)} /\ r.ok = TRUE
         /\ r.l.max = l.max /\ r.l.nst = l.nst
<1> DEFINE Z == {k \in 1..l.nlt : l.node[D!LongAt(l, k)].lt = idx}
           k == D!Min(Z \cup {l.nlt + 1})
           n == t[k]
           p == t[k - 1]
           e == [l.node[n] EXCEPT !.use = "no", !.lt = D!NoIdx, !.pl = D!Nil]
           d == [l.node[p] EXCEPT !.pl = l.node[n].pl]
           b == [l.node EXCEPT ![p] = d]
           r == D!DeleteLong(l, idx)
           m == r.l
           u == Skip(t, k, l.nlt)
<1>1. /\ l \in ListStates /\ l.nst \in Nat /\ l.nlt \in Nat /\ l.st \in 0..NumNodes
      /\ l.node \in [D!Nodes -> NodeStates]
  BY DEF Lists, ListStates
<1>2. ShortChain(l, s) /\ LongChain(l, t)
  BY DEF Lists
<1>3. \A i \in 1..l.nlt : D!LongAt(l, i) = t[i] /\ t[i] \in D!Nodes /\ LongUse(l, t[i])
  BY <1>1, <1>2, LongAtIs DEF LongChain
<1>4. \A i, j \in 1..l.nlt : l.node[t[i]].lt = l.node[t[j]].lt => i = j
  <2>1. \A i \in 1..l.nlt : l.node[t[i]].lt \in Nat
    BY <1>1, <1>3 DEF NodeStates
  <2> QED BY <1>1, <1>2, <2>1 DEF LongChain
<1>5. /\ k \in 1..l.nlt + 1 /\ (k <= l.nlt <=> Z # {}) /\ (k <= l.nlt => k \in Z)
  <2>1. Z \subseteq 1..l.nlt
    OBVIOUS
  <2> HIDE DEF Z
  <2> QED BY <1>1, <2>1, FirstFacts
<1>6. r = IF k > l.nlt THEN D!Done(l, {})
          ELSE D!Done([(IF k = 1 THEN [l EXCEPT !.lt = l.node[D!LongAt(l, k)].pl]
                        ELSE [l EXCEPT !.node[D!LongAt(l, k - 1)].pl = l.node[D!LongAt(l, k)].pl])
                         EXCEPT !.node[D!LongAt(l, k)] =
                                  [@ EXCEPT !.use = "no", !.lt = D!NoIdx, !.pl = D!Nil],
                                !.nlt = @ - 1], {l.node[D!LongAt(l, k)].buf})
  BY DEF D!DeleteLong
<1> HIDE DEF k, r
<1>7. CASE k > l.nlt
  <2>1. r = D!Done(l, {})
    BY <1>6, <1>7
  <2>2. WithIdx(l, idx) = {}
    <3>1. Z = {}
      BY <1>1, <1>5, <1>7
    <3>2. \A i \in 1..l.nlt : l.node[t[i]].lt # idx
      BY <3>1, <1>3
    <3> QED BY <3>2, <1>2 DEF WithIdx, LongChain
  <2>3. r.l = l /\ r.rel = {} /\ r.ok = TRUE
    BY <2>1 DEF D!Done
  <2>4. {l.node[x].buf : x \in WithIdx(l, idx)} = {}
    BY <2>2
  <2> QED BY <2>2, <2>3, <2>4 DEF Same, r
<1>8. CASE k <= l.nlt
  <2>1. k \in 1..l.nlt /\ n \in D!Nodes /\ LongUse(l, n) /\ l.node[n].lt = idx
        /\ D!LongAt(l, k) = n
    BY <1>1, <1>3, <1>5, <1>8
  <2>2. k # 1 => /\ k - 1 \in 1..l.nlt /\ k - 1 \in 1..l.nlt-1 /\ p \in D!Nodes /\ p # n
                 /\ D!LongAt(l, k - 1) = p /\ LongUse(l, p)
    <3>1. k # 1 => k - 1 \in 1..l.nlt /\ k - 1 \in 1..l.nlt-1 /\ k - 1 # k
      BY <2>1, <1>1
    <3> QED BY <3>1, <2>1, <1>3, <1>4
  <2>3. l.node[n] \in NodeStates /\ (k # 1 => l.node[p] \in NodeStates)
    BY <1>1, <2>1, <2>2
  <2>4. /\ e \in NodeStates /\ e.use = "no" /\ e.ps = l.node[n].ps
    <3>1. D!NoIdx \in Nat /\ D!Nil \in 0..NumNodes
      BY NodesFacts
    <3> QED BY <2>3, <3>1 DEF NodeStates
  <2>5. k # 1 => /\ d \in NodeStates /\ d.pl = l.node[n].pl /\ d.ps = l.node[p].ps
                 /\ d.use = l.node[p].use /\ d.buf = l.node[p].buf /\ d.num = l.node[p].num
                 /\ d.lt = l.node[p].lt
    <3> SUFFICES ASSUME k # 1
                 PROVE  /\ d \in NodeStates /\ d.pl = l.node[n].pl /\ d.ps = l.node[p].ps
                 /\ d.use = l.node[p].use /\ d.buf = l.node[p].buf /\ d.num = l.node[p].num
                 /\ d.lt = l.node[p].lt
      OBVIOUS
    <3> QED BY <2>3 DEF NodeStates
  <2>6. ~ (k > l.nlt)
    BY <1>1, <1>5, <1>8
  <2>7. k = 1 => r = D!Done([l EXCEPT !.lt = l.node[n].pl, !.node = [l.node EXCEPT ![n] = e],
                                      !.nlt = l.nlt - 1], {l.node[n].buf})
    <3> SUFFICES ASSUME k = 1
                 PROVE  r = D!Done([l EXCEPT !.lt = l.node[n].pl,
                                             !.node = [l.node EXCEPT ![n] = e],
                                             !.nlt = l.nlt - 1], {l.node[n].buf})
      OBVIOUS
    <3>1. r = D!Done([[l EXCEPT !.lt = l.node[n].pl]
                         EXCEPT !.node[n] = [@ EXCEPT !.use = "no", !.lt = D!NoIdx, !.pl = D!Nil],
                                !.nlt = @ - 1], {l.node[n].buf})
      BY <1>6, <2>1, <2>6
    <3> HIDE DEF n
    <3> QED BY <3>1, <1>1 DEF ListStates
  <2>8. k # 1 => r = D!Done([l EXCEPT !.node = [b EXCEPT ![n] = e], !.nlt = l.nlt - 1],
                            {l.node[n].buf})
    <3> SUFFICES ASSUME k # 1
                 PROVE  r = D!Done([l EXCEPT !.node = [b EXCEPT ![n] = e], !.nlt = l.nlt - 1],
                                   {l.node[n].buf})
      OBVIOUS
    <3>1. r = D!Done([[l EXCEPT !.node[p].pl = l.node[n].pl]
                         EXCEPT !.node[n] = [@ EXCEPT !.use = "no", !.lt = D!NoIdx, !.pl = D!Nil],
                                !.nlt = @ - 1], {l.node[n].buf})
      BY <1>6, <2>1, <2>2, <2>6
    <3>2. b[n] = l.node[n]
      BY <1>1, <2>1, <2>2
    <3>3. [l EXCEPT !.node[p].pl = l.node[n].pl] = [l EXCEPT !.node = b]
      BY <1>1 DEF ListStates
    <3>4. [[l EXCEPT !.node = b]
              EXCEPT !.node[n] = [@ EXCEPT !.use = "no", !.lt = D!NoIdx, !.pl = D!Nil],
                     !.nlt = @ - 1]
          = [l EXCEPT !.node = [b EXCEPT ![n] = e], !.nlt = l.nlt - 1]
      <4> HIDE DEF b, n
      <4> QED BY <1>1, <3>2 DEF ListStates
    <3> QED BY <3>1, <3>3, <3>4
  <2> HIDE DEF e, d, n, p
  <2>9. /\ m.nst = l.nst /\ m.st = l.st /\ m.nlt = l.nlt - 1 /\ m.max = l.max
        /\ m.node[n] = e /\ r.rel = {l.node[n].buf} /\ r.ok = TRUE
        /\ \A x \in D!Nodes : x # n /\ ~(k # 1 /\ x = p) => m.node[x] = l.node[x]
        /\ k # 1 => m.node[p] = d /\ m.lt = l.lt
        /\ k = 1 => m.lt = l.node[n].pl
    <3>1. CASE k = 1
      <4>1. /\ m = [l EXCEPT !.lt = l.node[n].pl, !.node = [l.node EXCEPT ![n] = e],
                             !.nlt = l.nlt - 1]
            /\ r.rel = {l.node[n].buf} /\ r.ok = TRUE
        BY <3>1, <2>7 DEF D!Done
      <4>2. /\ m.nst = l.nst /\ m.st = l.st /\ m.nlt = l.nlt - 1 /\ m.max = l.max
            /\ m.lt = l.node[n].pl /\ m.node = [l.node EXCEPT ![n] = e]
        BY <4>1, <1>1 DEF ListStates
      <4> HIDE DEF m
      <4> QED BY <4>1, <4>2, <3>1, <2>1, <1>1
    <3>2. CASE k # 1
      <4>1. /\ m = [l EXCEPT !.node = [b EXCEPT ![n] = e], !.nlt = l.nlt - 1]
            /\ r.rel = {l.node[n].buf} /\ r.ok = TRUE
        BY <3>2, <2>8 DEF D!Done
      <4>2. /\ m.nst = l.nst /\ m.st = l.st /\ m.nlt = l.nlt - 1 /\ m.max = l.max
            /\ m.lt = l.lt /\ m.node = [b EXCEPT ![n] = e]
        BY <4>1, <1>1 DEF ListStates
      <4>3. b[p] = d /\ (\A x \in D!Nodes : x # p => b[x] = l.node[x])
            /\ b \in [D!Nodes -> NodeStates]
        BY <1>1, <2>2, <2>5, <3>2
      <4> HIDE DEF m, b
      <4> QED BY <4>1, <4>2, <4>3, <3>2, <2>1, <2>2, <1>1
    <3> QED BY <3>1, <3>2
  <2>10. m \in ListStates
    <3>1. l.nlt - 1 \in Nat /\ l.node[n].pl \in 0..NumNodes
      BY <1>1, <2>1, <2>3 DEF NodeStates
    <3>2. CASE k = 1
      <4>1. m = [l EXCEPT !.lt = l.node[n].pl, !.node = [l.node EXCEPT ![n] = e],
                             !.nlt = l.nlt - 1]
        BY <3>2, <2>7 DEF D!Done
      <4>2. [l.node EXCEPT ![n] = e] \in [D!Nodes -> NodeStates]
        BY <1>1, <2>4
      <4> HIDE DEF m
      <4> QED BY <4>1, <4>2, <3>1, <1>1 DEF ListStates
    <3>3. CASE k # 1
      <4>1. m = [l EXCEPT !.node = [b EXCEPT ![n] = e], !.nlt = l.nlt - 1]
        BY <3>3, <2>8 DEF D!Done
      <4>2. b \in [D!Nodes -> NodeStates]
        BY <1>1, <2>5, <3>3
      <4>3. [b EXCEPT ![n] = e] \in [D!Nodes -> NodeStates]
        <5> HIDE DEF b
        <5> QED BY <4>2, <2>4
      <4> HIDE DEF m, b
      <4> QED BY <4>1, <4>3, <3>1, <1>1 DEF ListStates
    <3> QED BY <3>2, <3>3
  <2> HIDE DEF m, b
  <2>11. WithIdx(l, idx) = {n}
    <3>1. \A i \in 1..l.nlt : l.node[t[i]].lt = idx => t[i] = n
      BY <2>1, <1>4 DEF n
    <3> QED BY <3>1, <2>1, <1>2 DEF WithIdx, LongChain
  <2>12. \A x \in D!Nodes : x # n => Same(l, m, x)
    BY <2>2, <2>5, <2>9 DEF Same
  <2>13. ShortFrame(l, m)
    BY <2>1, <2>2, <2>4, <2>5, <2>9 DEF ShortFrame
  <2>14. ShortChain(m, s) /\ \A f : Falling(l, s, f) => Falling(m, s, f)
    <3>1. \A x \in D!Nodes : ShortUse(m, x) <=> ShortUse(l, x)
      BY <2>1, <2>4, <2>9, <2>12 DEF Same, ShortUse, LongUse
    <3> QED BY <3>1, <1>1, <1>2, <2>13, ShortFrameFacts
  <2>15. /\ u \in [1..l.nlt-1 -> D!Nodes]
         /\ \A i \in 1..l.nlt-1 : /\ i < k => u[i] = t[i] /\ i \in 1..l.nlt
                                  /\ i >= k => u[i] = t[i + 1] /\ i + 1 \in 1..l.nlt
    BY <1>1, <1>3, <2>1 DEF Skip
  <2> HIDE DEF u
  <2>16. \A i \in 1..l.nlt-1 :
            \E x \in 1..l.nlt : /\ (x = i /\ i < k) \/ (x = i + 1 /\ i >= k)
                                /\ u[i] = t[x] /\ u[i] # n /\ u[i] \in D!Nodes /\ LongUse(l, u[i])
                                /\ m.node[u[i]].lt = l.node[t[x]].lt
    <3> SUFFICES ASSUME NEW i \in 1..l.nlt-1
                 PROVE  \E x \in 1..l.nlt :
                                /\ (x = i /\ i < k) \/ (x = i + 1 /\ i >= k)
                                /\ u[i] = t[x] /\ u[i] # n /\ u[i] \in D!Nodes /\ LongUse(l, u[i])
                                /\ m.node[u[i]].lt = l.node[t[x]].lt
      OBVIOUS
    <3>1. PICK x \in 1..l.nlt : /\ (x = i /\ i < k) \/ (x = i + 1 /\ i >= k)
                                /\ u[i] = t[x]
      BY <1>1, <2>1, <2>15
    <3>2. x # k
      BY <3>1, <2>1
    <3>3. u[i] # n
      BY <3>1, <3>2, <2>1, <1>4 DEF n
    <3> QED BY <3>1, <3>3, <1>3, <2>12 DEF Same
  <2>17. LongChain(m, u)
    <3>1. ASSUME NEW i \in 1..l.nlt-1, NEW j \in 1..l.nlt-1, i < j
          PROVE  m.node[u[i]].lt < m.node[u[j]].lt
      <4>1. PICK x \in 1..l.nlt : /\ (x = i /\ i < k) \/ (x = i + 1 /\ i >= k)
                                  /\ m.node[u[i]].lt = l.node[t[x]].lt
        BY <2>16
      <4>2. PICK y \in 1..l.nlt : /\ (y = j /\ j < k) \/ (y = j + 1 /\ j >= k)
                                  /\ m.node[u[j]].lt = l.node[t[y]].lt
        BY <2>16
      <4>3. x < y
        BY <3>1, <4>1, <4>2, <2>1
      <4> QED BY <4>1, <4>2, <4>3, <1>2 DEF LongChain
    <3>2. m.nlt > 0 => u[1] = m.lt
      <4> SUFFICES ASSUME m.nlt > 0 PROVE u[1] = m.lt
        OBVIOUS
      <4>1. 1 \in 1..l.nlt-1
        BY <1>1, <2>9
      <4>2. CASE k = 1
        <5>1. u[1] = t[2] /\ l.node[t[1]].pl = t[2]
          BY <4>1, <4>2, <1>2, <2>15 DEF LongChain
        <5> QED BY <5>1, <4>2, <2>9 DEF n
      <4>3. CASE k # 1
        BY <4>1, <4>3, <1>1, <1>2, <2>1, <2>9, <2>15 DEF LongChain
      <4> QED BY <4>2, <4>3
    <3>3. ASSUME NEW i \in 1..m.nlt-1 PROVE m.node[u[i]].pl = u[i + 1]
      <4>1. /\ i \in 1..l.nlt-1 /\ i + 1 \in 1..l.nlt-1 /\ i + 1 \in 1..l.nlt
            /\ (i + 1) + 1 = i + 2
        BY <1>1, <2>9
      <4>2. \A j \in 1..l.nlt-1 : l.node[t[j]].pl = t[j + 1]
        BY <1>2 DEF LongChain
      <4>3. CASE i + 1 < k
        <5>1. i < k /\ k # 1 /\ i # k - 1 /\ i # k /\ i \in 1..l.nlt
          BY <4>1, <4>3, <2>1, <1>1
        <5>2. u[i] = t[i] /\ u[i + 1] = t[i + 1]
          BY <5>1, <4>1, <4>3, <2>15
        <5>3. t[i] # n /\ t[i] # p /\ t[i] \in D!Nodes
          BY <5>1, <1>3, <1>4, <2>1, <2>2 DEF p, n
        <5>4. m.node[t[i]] = l.node[t[i]]
          BY <5>3, <2>9
        <5> QED BY <5>2, <5>4, <4>1, <4>2
      <4>4. CASE i + 1 = k
        <5>1. k # 1 /\ i = k - 1 /\ i < k /\ k \in 1..l.nlt-1
          BY <4>1, <4>4
        <5>2. u[i] = p /\ u[i + 1] = t[k + 1]
          BY <5>1, <4>1, <4>4, <2>15 DEF p
        <5>3. m.node[p].pl = l.node[n].pl /\ l.node[n].pl = t[k + 1]
          BY <5>1, <4>2, <2>5, <2>9 DEF n
        <5> QED BY <5>2, <5>3
      <4>5. CASE i + 1 > k
        <5>1. i >= k /\ i + 1 >= k /\ i + 1 # k /\ i + 1 # k - 1
          BY <4>1, <4>5, <2>1
        <5>2. u[i] = t[i + 1] /\ u[i + 1] = t[(i + 1) + 1]
          BY <5>1, <4>1, <2>15
        <5>3. t[i + 1] # n /\ t[i + 1] \in D!Nodes
          BY <5>1, <4>1, <2>1, <1>3, <1>4 DEF n
        <5>4. k # 1 => t[i + 1] # p
          BY <5>1, <4>1, <1>4, <2>2 DEF p
        <5>5. m.node[t[i + 1]] = l.node[t[i + 1]]
          BY <5>3, <5>4, <2>9
        <5> QED BY <5>2, <5>5, <4>1, <4>2
      <4> QED BY <4>1, <2>1, <4>3, <4>4, <4>5
    <3>4. ASSUME NEW x \in D!Nodes PROVE LongUse(m, x) <=> \E i \in 1..l.nlt-1 : u[i] = x
      <4>1. CASE x = n
        BY <4>1, <2>4, <2>9, <2>16 DEF LongUse
      <4>2. CASE x # n
        <5>1. LongUse(m, x) <=> \E i \in 1..l.nlt : t[i] = x
          BY <4>2, <1>2, <2>12 DEF LongChain, LongUse, Same
        <5>2. (\E i \in 1..l.nlt : t[i] = x) => \E i \in 1..l.nlt-1 : u[i] = x
          <6> SUFFICES ASSUME NEW i \in 1..l.nlt, t[i] = x
                       PROVE  \E j \in 1..l.nlt-1 : u[j] = x
            OBVIOUS
          <6>1. i # k
            BY <4>2 DEF n
          <6>2. CASE i < k
            <7>1. i \in 1..l.nlt-1
              BY <6>2, <2>1, <1>1
            <7> QED BY <7>1, <6>2, <2>15
          <6>3. CASE i > k
            <7>1. i - 1 \in 1..l.nlt-1 /\ i - 1 >= k /\ (i - 1) + 1 = i
              BY <6>3, <2>1, <1>1
            <7> QED BY <7>1, <2>15
          <6> QED BY <6>1, <6>2, <6>3, <2>1
        <5>3. (\E i \in 1..l.nlt-1 : u[i] = x) => LongUse(m, x)
          <6> SUFFICES ASSUME NEW i \in 1..l.nlt-1, u[i] = x PROVE LongUse(m, x)
            OBVIOUS
          <6>1. LongUse(l, x)
            BY <2>16
          <6> QED BY <6>1, <4>2, <2>12 DEF LongUse, Same
        <5> QED BY <5>1, <5>2, <5>3
      <4> QED BY <4>1, <4>2
    <3> QED BY <3>1, <3>2, <3>3, <3>4, <2>9, <2>15 DEF LongChain
  <2>18. Lists(m, s, u)
    BY <2>10, <2>14, <2>17 DEF Lists
  <2>19. \A x \in D!Nodes : x \notin WithIdx(l, idx) => Same(l, m, x)
    BY <2>11, <2>12
  <2>20. (\A x \in WithIdx(l, idx) : m.node[x].use = "no")
         /\ {l.node[x].buf : x \in WithIdx(l, idx)} = {l.node[n].buf}
    BY <2>4, <2>9, <2>11
  <2> QED BY <2>9, <2>14, <2>18, <2>19, <2>20 DEF m, r
<1>9. k > l.nlt \/ k <= l.nlt
  BY <1>1, <1>5
<1> QED BY <1>7, <1>8, <1>9

\* A sequence with another element behind its first q.
Insert(n, t, q, len) == [i \in 1..len+1 |-> IF i <= q THEN t[i] ELSE IF i = q + 1 THEN n ELSE t[i - 1]]

\* The k-th node that is walked to is the k-th of the chain, wherever it is named.
LEMMA LongNodes ==
  ASSUME NEW l, NEW t, l \in ListStates, LongChain(l, t), NEW i \in 1..l.nlt
  PROVE  D!LongAt(l, i) = t[i] /\ t[i] \in D!Nodes /\ LongUse(l, t[i])
<1>1. D!LongAt(l, i) = t[i]
  BY LongAtIs
<1>2. t[i] \in D!Nodes
  BY DEF LongChain
<1> QED BY <1>1, <1>2 DEF LongChain

\* How many nodes of the long-term list have indices up to idx: they come first.
LEMMA SmallerFacts ==
  ASSUME NEW l, NEW t, l \in ListStates, LongChain(l, t), NEW idx \in Nat,
         \A x \in D!Nodes : LongUse(l, x) => l.node[x].lt # idx
  PROVE  LET smaller == {k \in 1..l.nlt : \A j \in 1..k : l.node[D!LongAt(l, j)].lt <= idx}
             q == IF smaller = {} THEN 0 ELSE D!Max(smaller) IN
         /\ q \in 0..l.nlt
         /\ \A j \in 1..l.nlt : IF j <= q THEN l.node[t[j]].lt < idx ELSE l.node[t[j]].lt > idx
<1> DEFINE smaller == {k \in 1..l.nlt : \A j \in 1..k : l.node[D!LongAt(l, j)].lt <= idx}
           q == IF smaller = {} THEN 0 ELSE D!Max(smaller)
           Lt(j) == l.node[t[j]].lt
<1>1. l.nlt \in Nat /\ l.node \in [D!Nodes -> NodeStates]
  BY DEF ListStates
<1>2. \A j \in 1..l.nlt : /\ D!LongAt(l, j) = t[j] /\ t[j] \in D!Nodes /\ LongUse(l, t[j])
                          /\ Lt(j) \in Nat /\ Lt(j) # idx
  <2>1. \A j \in 1..l.nlt : D!LongAt(l, j) = t[j] /\ t[j] \in D!Nodes /\ LongUse(l, t[j])
    BY LongNodes
  <2> QED BY <2>1, <1>1 DEF NodeStates
<1>3. \A i, j \in 1..l.nlt : i < j => Lt(i) < Lt(j)
  BY DEF LongChain
<1>4. smaller = {k \in 1..l.nlt : \A j \in 1..k : Lt(j) <= idx}
  <2>1. \A k \in 1..l.nlt : \A j \in 1..k : j \in 1..l.nlt
    BY <1>1
  <2> QED BY <2>1, <1>2
<1>5. /\ q \in 0..l.nlt
      /\ q # 0 => q \in smaller
      /\ \A k \in smaller : k <= q
  <2>1. smaller \subseteq 0..l.nlt
    BY <1>1
  <2> HIDE DEF smaller
  <2>2. CASE smaller = {}
    BY <2>2, <1>1
  <2>3. CASE smaller # {}
    BY <2>1, <2>3, <1>1, MaxFacts
  <2> QED BY <2>2, <2>3
<1> HIDE DEF q, smaller
<1>6. ASSUME NEW j \in 1..l.nlt PROVE IF j <= q THEN Lt(j) < idx ELSE Lt(j) > idx
  <2>1. CASE j <= q
    <3>1. q \in smaller /\ j \in 1..q
      BY <2>1, <1>1, <1>5
    <3>2. Lt(j) <= idx
      BY <3>1, <1>4
    <3> QED BY <3>2, <2>1, <1>2
  <2>2. CASE ~(j <= q)
    <3>1. j \notin smaller
      BY <2>2, <1>5
    <3>2. PICK i \in 1..j : ~(Lt(i) <= idx)
      BY <3>1, <1>4
    <3>3. i \in 1..l.nlt /\ (i = j \/ i < j)
      BY <3>2, <1>1
    <3>4. Lt(i) > idx /\ Lt(i) \in Nat /\ Lt(j) \in Nat
      BY <3>2, <3>3, <1>2
    <3>5. i = j \/ Lt(i) < Lt(j)
      BY <3>3, <1>3
    <3>6. Lt(j) > idx
      <4> HIDE DEF Lt
      <4> QED BY <3>4, <3>5
    <3> QED BY <3>6, <2>2
  <2> QED BY <2>1, <2>2
<1> QED BY <1>5, <1>6 DEF q, smaller

\* A node that is not in use takes its place by its index in the long-term list.
LEMMA InsertLongFacts ==
  ASSUME NEW l, NEW s, NEW t, Lists(l, s, t), NEW n \in D!Nodes, l.node[n].use = "no",
         NEW idx \in Nat, WithIdx(l, idx) = {}
  PROVE  LET m == D!InsertLong(l, n, idx) IN
         /\ \E u : Lists(m, s, u)
         /\ \A f : Falling(l, s, f) => Falling(m, s, f)
         /\ \A x \in D!Nodes : x # n => Same(l, m, x)
         /\ m.node[n].use = "long" /\ m.node[n].lt = idx /\ m.node[n].buf = l.node[n].buf
         /\ m.max = l.max
<1> DEFINE smaller == {k \in 1..l.nlt : \A j \in 1..k : l.node[D!LongAt(l, j)].lt <= idx}
           q == IF smaller = {} THEN 0 ELSE D!Max(smaller)
           p == t[q]
           Link == IF q = 0 THEN IF l.nlt = 0 THEN D!Nil ELSE l.lt ELSE l.node[p].pl
           e == [l.node[n] EXCEPT !.lt = idx, !.use = "long", !.pl = Link]
           d == [l.node[p] EXCEPT !.pl = n]
           b == [l.node EXCEPT ![n] = e]
           m == D!InsertLong(l, n, idx)
           u == Insert(n, t, q, l.nlt)
           Lt(j) == l.node[t[j]].lt
<1>1. /\ l \in ListStates /\ l.nst \in Nat /\ l.nlt \in Nat /\ l.lt \in 0..NumNodes
      /\ l.node \in [D!Nodes -> NodeStates]
  BY DEF Lists, ListStates
<1>2. ShortChain(l, s) /\ LongChain(l, t)
  BY DEF Lists
<1>3. \A i \in 1..l.nlt : D!LongAt(l, i) = t[i] /\ t[i] \in D!Nodes /\ LongUse(l, t[i]) /\ t[i] # n
  BY <1>1, <1>2, LongNodes DEF LongUse
<1>4. \A i, j \in 1..l.nlt : i < j => Lt(i) < Lt(j)
  BY <1>2 DEF LongChain
<1>5. /\ q \in 0..l.nlt
      /\ \A j \in 1..l.nlt : IF j <= q THEN Lt(j) < idx ELSE Lt(j) > idx
  <2>1. \A x \in D!Nodes : LongUse(l, x) => l.node[x].lt # idx
    BY DEF WithIdx
  <2> QED BY <2>1, <1>1, <1>2, SmallerFacts
<1>6. /\ l.nlt = 0 => q = 0
      /\ smaller = {} => q = 0
      /\ smaller # {} => q = D!Max(smaller) /\ q # 0
  <2>1. smaller # {} => q \in smaller
    <3>1. smaller \subseteq 0..l.nlt
      BY <1>1
    <3> HIDE DEF smaller
    <3> QED BY <3>1, <1>1, MaxFacts
  <2> QED BY <2>1, <1>5
<1>7. q # 0 => q \in 1..l.nlt /\ p \in D!Nodes /\ p # n /\ D!LongAt(l, q) = p /\ LongUse(l, p)
  BY <1>1, <1>3, <1>5
<1>8. m = CASE l.nlt = 0 -> [[l EXCEPT !.node[n].lt = idx, !.node[n].use = "long", !.nlt = @ + 1]
                               EXCEPT !.lt = n, !.node[n].pl = D!Nil]
            [] l.nlt > 0 /\ smaller = {} ->
                 [[l EXCEPT !.node[n].lt = idx, !.node[n].use = "long", !.nlt = @ + 1]
                               EXCEPT !.lt = n, !.node[n].pl = l.lt]
            [] OTHER ->
                 [[l EXCEPT !.node[n].lt = idx, !.node[n].use = "long", !.nlt = @ + 1]
                    EXCEPT !.node[n].pl = l.node[D!LongAt(l, D!Max(smaller))].pl,
                           !.node[D!LongAt(l, D!Max(smaller))].pl = n]
  BY DEF D!InsertLong
<1> HIDE DEF smaller
<1>9. q = 0 => m = [l EXCEPT !.node = b, !.nlt = l.nlt + 1, !.lt = n]
  <2> SUFFICES ASSUME q = 0 PROVE m = [l EXCEPT !.node = b, !.nlt = l.nlt + 1, !.lt = n]
    OBVIOUS
  <2>1. smaller = {}
    BY <1>6
  <2>2. m = [[l EXCEPT !.node[n].lt = idx, !.node[n].use = "long", !.nlt = @ + 1]
                               EXCEPT !.lt = n, !.node[n].pl = Link]
    <3> HIDE DEF m, q
    <3>1. CASE l.nlt = 0
      <4>1. Link = D!Nil
        BY <3>1
      <4> HIDE DEF Link
      <4> QED BY <4>1, <3>1, <1>8
    <3>2. CASE l.nlt > 0
      <4>1. Link = l.lt /\ l.nlt # 0
        BY <3>2, <1>1
      <4> HIDE DEF Link
      <4> QED BY <4>1, <3>2, <2>1, <1>8
    <3> QED BY <3>1, <3>2, <1>1
  <2> HIDE DEF m, Link
  <2> QED BY <2>2, <1>1 DEF ListStates, NodeStates
<1>10. q # 0 => m = [l EXCEPT !.node = [b EXCEPT ![p] = d], !.nlt = l.nlt + 1]
  <2> SUFFICES ASSUME q # 0
               PROVE  m = [l EXCEPT !.node = [b EXCEPT ![p] = d], !.nlt = l.nlt + 1]
    OBVIOUS
  <2>1. smaller # {} /\ D!LongAt(l, D!Max(smaller)) = p /\ l.nlt > 0
    BY <1>1, <1>6, <1>7
  <2>2. m = [[l EXCEPT !.node[n].lt = idx, !.node[n].use = "long", !.nlt = @ + 1]
               EXCEPT !.node[n].pl = l.node[p].pl, !.node[p].pl = n]
    <3> HIDE DEF m, q, p
    <3> QED BY <1>8, <2>1, <1>1
  <2>3. Link = l.node[p].pl /\ b[p] = l.node[p]
    BY <1>1, <1>7
  <2>4. [[l EXCEPT !.node[n].lt = idx, !.node[n].use = "long", !.nlt = @ + 1]
               EXCEPT !.node[n].pl = Link] = [l EXCEPT !.node = b, !.nlt = l.nlt + 1]
    <3> HIDE DEF Link
    <3> QED BY <1>1 DEF ListStates, NodeStates
  <2>5. m = [[l EXCEPT !.node = b, !.nlt = l.nlt + 1] EXCEPT !.node[p].pl = n]
    <3>1. m = [[[l EXCEPT !.node[n].lt = idx, !.node[n].use = "long", !.nlt = @ + 1]
               EXCEPT !.node[n].pl = Link] EXCEPT !.node[p].pl = n]
      <4> HIDE DEF m, Link, p
      <4> QED BY <2>2, <2>3
    <3> QED BY <3>1, <2>4
  <2> HIDE DEF m, b, p
  <2> QED BY <2>3, <2>5, <1>1 DEF ListStates
<1> HIDE DEF m, q
<1>11. Link \in 0..NumNodes
  <2>1. q # 0 => l.node[p] \in NodeStates
    BY <1>1, <1>7
  <2>2. q # 0 => l.node[p].pl \in 0..NumNodes
    BY <2>1 DEF NodeStates
  <2>3. D!Nil \in 0..NumNodes
    BY NodesFacts
  <2> QED BY <1>1, <2>2, <2>3
<1>12. /\ e \in NodeStates /\ e.use = "long" /\ e.lt = idx /\ e.buf = l.node[n].buf
       /\ e.ps = l.node[n].ps /\ e.pl = Link
  <2>1. l.node[n] \in NodeStates
    BY <1>1
  <2> HIDE DEF Link
  <2> QED BY <2>1, <1>11 DEF NodeStates
<1>13. q # 0 => /\ d \in NodeStates /\ d.pl = n /\ d.ps = l.node[p].ps
                /\ d.use = l.node[p].use /\ d.buf = l.node[p].buf /\ d.num = l.node[p].num
                /\ d.lt = l.node[p].lt
  <2> SUFFICES ASSUME q # 0
               PROVE  /\ d \in NodeStates /\ d.pl = n /\ d.ps = l.node[p].ps
                      /\ d.use = l.node[p].use /\ d.buf = l.node[p].buf
                      /\ d.num = l.node[p].num /\ d.lt = l.node[p].lt
    OBVIOUS
  <2>1. l.node[p] \in NodeStates /\ n \in 0..NumNodes
    BY <1>1, <1>7, NodesFacts
  <2> HIDE DEF p
  <2> QED BY <2>1 DEF NodeStates
<1> HIDE DEF e, d, Link
<1>14. b \in [D!Nodes -> NodeStates] /\ b[n] = e /\ \A x \in D!Nodes : x # n => b[x] = l.node[x]
  BY <1>1, <1>12
<1> HIDE DEF b, p
<1>15. /\ m.nst = l.nst /\ m.st = l.st /\ m.nlt = l.nlt + 1 /\ m.max = l.max
       /\ m.node[n] = e
       /\ \A x \in D!Nodes : x # n /\ ~(q # 0 /\ x = p) => m.node[x] = l.node[x]
       /\ q # 0 => m.node[p] = d /\ m.lt = l.lt
       /\ q = 0 => m.lt = n
  <2>1. CASE q = 0
    <3>1. /\ m.nst = l.nst /\ m.st = l.st /\ m.nlt = l.nlt + 1 /\ m.max = l.max
          /\ m.lt = n /\ m.node = b
      BY <2>1, <1>1, <1>9 DEF ListStates
    <3> QED BY <2>1, <3>1, <1>14
  <2>2. CASE q # 0
    <3>1. /\ m.nst = l.nst /\ m.st = l.st /\ m.nlt = l.nlt + 1 /\ m.max = l.max
          /\ m.lt = l.lt /\ m.node = [b EXCEPT ![p] = d]
      BY <2>2, <1>1, <1>10 DEF ListStates
    <3> QED BY <2>2, <3>1, <1>7, <1>14
  <2> QED BY <2>1, <2>2
<1>16. m \in ListStates
  <2>1. l.nlt + 1 \in Nat /\ n \in 0..NumNodes
    BY <1>1, NodesFacts
  <2>2. CASE q = 0
    BY <2>1, <2>2, <1>1, <1>9, <1>14 DEF ListStates
  <2>3. CASE q # 0
    <3>1. [b EXCEPT ![p] = d] \in [D!Nodes -> NodeStates]
      BY <2>3, <1>13, <1>14
    <3> QED BY <2>1, <2>3, <3>1, <1>1, <1>10 DEF ListStates
  <2> QED BY <2>2, <2>3
<1>17. \A x \in D!Nodes : x # n => Same(l, m, x)
  BY <1>7, <1>13, <1>15 DEF Same
<1>18. ShortChain(m, s) /\ \A f : Falling(l, s, f) => Falling(m, s, f)
  <2>1. ShortFrame(l, m)
    BY <1>7, <1>12, <1>13, <1>15 DEF ShortFrame
  <2>2. \A x \in D!Nodes : ShortUse(m, x) <=> ShortUse(l, x)
    BY <1>12, <1>15, <1>17 DEF Same, ShortUse
  <2> QED BY <2>1, <2>2, <1>1, <1>2, ShortFrameFacts
<1>19. /\ u \in [1..l.nlt+1 -> D!Nodes]
       /\ \A i \in 1..l.nlt+1 : /\ i <= q => u[i] = t[i] /\ i \in 1..l.nlt
                                /\ i = q + 1 => u[i] = n
                                /\ i > q + 1 => u[i] = t[i - 1] /\ i - 1 \in 1..l.nlt
  <2>1. q \in 0..l.nlt /\ t \in [1..l.nlt -> D!Nodes]
    BY <1>2, <1>5 DEF LongChain
  <2>2. \A i \in 1..l.nlt+1 : /\ i <= q => i \in 1..l.nlt
                              /\ i > q + 1 => i - 1 \in 1..l.nlt /\ ~(i <= q) /\ i # q + 1
                              /\ i = q + 1 => ~(i <= q)
                              /\ i <= q \/ i = q + 1 \/ i > q + 1
    BY <2>1, <1>1
  <2>3. \A i \in 1..l.nlt+1 : u[i] = IF i <= q THEN t[i] ELSE IF i = q + 1 THEN n ELSE t[i - 1]
    BY DEF Insert
  <2>4. \A i \in 1..l.nlt+1 : u[i] \in D!Nodes
    BY <2>1, <2>2, <2>3
  <2>5. u = [i \in 1..l.nlt+1 |-> u[i]]
    BY DEF Insert
  <2> HIDE DEF u
  <2>6. u \in [1..l.nlt+1 -> D!Nodes]
    BY <2>4, <2>5
  <2> QED BY <2>2, <2>3, <2>6
<1> HIDE DEF u
<1>20. \A i \in 1..l.nlt : m.node[t[i]].lt = Lt(i) /\ LongUse(m, t[i])
  BY <1>3, <1>17 DEF Same, LongUse
<1>21. \A i \in 1..l.nlt : Lt(i) \in Nat
  <2>1. \A i \in 1..l.nlt : l.node[t[i]] \in NodeStates
    BY <1>1, <1>3
  <2> QED BY <2>1 DEF NodeStates
<1> HIDE DEF Lt
<1>22. \A i, j \in 1..l.nlt+1 : i < j => m.node[u[i]].lt < m.node[u[j]].lt
  <2> SUFFICES ASSUME NEW i \in 1..l.nlt+1, NEW j \in 1..l.nlt+1, i < j
               PROVE  m.node[u[i]].lt < m.node[u[j]].lt
    OBVIOUS
  <2>0. m.node[n].lt = idx
    BY <1>12, <1>15
  <2>1. CASE j <= q
    <3>1. i <= q
      BY <2>1, <1>5, <1>1
    <3> QED BY <2>1, <3>1, <1>4, <1>19, <1>20
  <2>2. CASE j = q + 1
    <3>1. i <= q
      BY <2>2, <1>5, <1>1
    <3> QED BY <2>2, <2>0, <3>1, <1>5, <1>19, <1>20
  <2>3. CASE j > q + 1
    <3>1. j - 1 \in 1..l.nlt /\ m.node[u[j]].lt = Lt(j - 1) /\ ~(j - 1 <= q)
      BY <2>3, <1>1, <1>5, <1>19, <1>20
    <3>2. Lt(j - 1) > idx /\ Lt(j - 1) \in Nat
      BY <3>1, <1>5, <1>21
    <3>3. CASE i <= q
      <4>1. m.node[u[i]].lt = Lt(i) /\ Lt(i) < idx /\ Lt(i) \in Nat
        BY <3>3, <1>5, <1>19, <1>20, <1>21
      <4> QED BY <4>1, <3>1, <3>2
    <3>4. CASE i = q + 1
      BY <2>0, <3>1, <3>2, <3>4, <1>19
    <3>5. CASE i > q + 1
      <4>1. i - 1 \in 1..l.nlt /\ m.node[u[i]].lt = Lt(i - 1) /\ i - 1 < j - 1
        BY <3>5, <1>1, <1>19, <1>20
      <4> QED BY <4>1, <3>1, <1>4
    <3> QED BY <3>3, <3>4, <3>5, <1>5, <1>1
  <2> QED BY <2>1, <2>2, <2>3, <1>5, <1>1
<1>23. u[1] = m.lt
  <2>1. 1 \in 1..l.nlt+1
    BY <1>1
  <2>2. CASE q = 0
    BY <2>1, <2>2, <1>15, <1>19
  <2>3. CASE q # 0
    <3>1. 1 <= q /\ l.nlt > 0
      BY <2>3, <1>1, <1>5
    <3> QED BY <2>1, <2>3, <3>1, <1>2, <1>15, <1>19 DEF LongChain
  <2> QED BY <2>2, <2>3
<1>24. ASSUME NEW i \in 1..l.nlt PROVE m.node[u[i]].pl = u[i + 1]
  <2>0. \A j \in 1..l.nlt-1 : l.node[t[j]].pl = t[j + 1]
    BY <1>2 DEF LongChain
  <2>1. i \in 1..l.nlt+1 /\ i + 1 \in 1..l.nlt+1 /\ (i + 1) - 1 = i
    BY <1>1
  <2>2. CASE i < q
    <3>1. i <= q /\ i + 1 <= q /\ q # 0 /\ i \in 1..l.nlt-1 /\ i # q
      BY <2>2, <1>1, <1>5
    <3>2. u[i] = t[i] /\ u[i + 1] = t[i + 1]
      BY <3>1, <2>1, <1>19
    <3>3. t[i] # p
      <4>1. Lt(i) < Lt(q)
        BY <2>2, <1>4, <1>7, <3>1
      <4>2. Lt(i) # Lt(q)
        BY <4>1, <1>21, <1>7, <3>1
      <4> QED BY <4>2 DEF Lt, p
    <3>4. m.node[t[i]] = l.node[t[i]]
      BY <3>3, <1>3, <1>15
    <3> QED BY <3>1, <3>2, <3>4, <2>0
  <2>3. CASE i = q
    <3>1. i <= q /\ i + 1 = q + 1 /\ q # 0
      BY <2>3, <1>5
    <3>2. u[i] = p /\ u[i + 1] = n
      BY <2>3, <3>1, <2>1, <1>19 DEF p
    <3> QED BY <3>1, <3>2, <1>13, <1>15
  <2>4. CASE i = q + 1
    <3>1. u[i] = n /\ u[i + 1] = t[i] /\ l.nlt # 0
      <4>1. i + 1 > q + 1
        BY <2>4, <1>5
      <4> QED BY <4>1, <2>1, <2>4, <1>1, <1>19
    <3>2. m.node[n].pl = Link
      BY <1>12, <1>15
    <3>3. CASE q = 0
      <4>1. t[1] = l.lt /\ i = 1
        BY <2>4, <3>1, <3>3, <1>1, <1>2 DEF LongChain
      <4> QED BY <3>1, <3>2, <3>3, <4>1 DEF Link
    <3>4. CASE q # 0
      <4>1. q \in 1..l.nlt-1
        BY <2>4, <3>4, <1>1, <1>5
      <4>2. l.node[p].pl = t[q + 1]
        BY <4>1, <2>0 DEF p
      <4> QED BY <3>1, <3>2, <3>4, <4>2, <2>4 DEF Link
    <3> QED BY <3>3, <3>4
  <2>5. CASE i > q + 1
    <3>1. i + 1 > q + 1 /\ i - 1 \in 1..l.nlt-1 /\ (i - 1) + 1 = i /\ i - 1 \in 1..l.nlt
          /\ q # i - 1 /\ (q < i - 1)
      BY <2>5, <1>1, <1>5
    <3>2. u[i] = t[i - 1] /\ u[i + 1] = t[i]
      BY <3>1, <2>1, <2>5, <1>19
    <3>3. q # 0 => t[i - 1] # p
      <4> SUFFICES ASSUME q # 0 PROVE t[i - 1] # p
        OBVIOUS
      <4>1. Lt(q) < Lt(i - 1) /\ Lt(q) \in Nat /\ Lt(i - 1) \in Nat
        BY <3>1, <1>4, <1>7, <1>21
      <4>2. Lt(i - 1) # Lt(q)
        BY <4>1
      <4> QED BY <4>2 DEF Lt, p
    <3>4. m.node[t[i - 1]] = l.node[t[i - 1]]
      BY <3>1, <3>3, <1>3, <1>15
    <3> QED BY <3>1, <3>2, <3>4, <2>0
  <2> QED BY <2>2, <2>3, <2>4, <2>5, <1>5, <1>1
<1>25. ASSUME NEW x \in D!Nodes PROVE LongUse(m, x) <=> \E i \in 1..l.nlt+1 : u[i] = x
  <2>1. CASE x = n
    <3>1. q + 1 \in 1..l.nlt+1
      BY <1>1, <1>5
    <3> QED BY <2>1, <3>1, <1>12, <1>15, <1>19 DEF LongUse
  <2>2. CASE x # n
    <3>1. LongUse(m, x) <=> \E i \in 1..l.nlt : t[i] = x
      BY <2>2, <1>2, <1>17 DEF LongChain, LongUse, Same
    <3>2. (\E i \in 1..l.nlt : t[i] = x) => \E i \in 1..l.nlt+1 : u[i] = x
      <4> SUFFICES ASSUME NEW i \in 1..l.nlt, t[i] = x PROVE \E j \in 1..l.nlt+1 : u[j] = x
        OBVIOUS
      <4>1. CASE i <= q
        <5>1. i \in 1..l.nlt+1
          BY <1>1
        <5> QED BY <5>1, <4>1, <1>19
      <4>2. CASE ~(i <= q)
        <5>1. i + 1 \in 1..l.nlt+1 /\ i + 1 > q + 1 /\ (i + 1) - 1 = i
          BY <4>2, <1>1, <1>5
        <5> QED BY <5>1, <1>19
      <4> QED BY <4>1, <4>2
    <3>3. (\E i \in 1..l.nlt+1 : u[i] = x) => \E i \in 1..l.nlt : t[i] = x
      <4> SUFFICES ASSUME NEW i \in 1..l.nlt+1, u[i] = x PROVE \E j \in 1..l.nlt : t[j] = x
        OBVIOUS
      <4>1. i <= q \/ i > q + 1
        BY <2>2, <1>1, <1>5, <1>19
      <4> QED BY <4>1, <1>19
    <3> QED BY <3>1, <3>2, <3>3
  <2> QED BY <2>1, <2>2
<1>26. LongChain(m, u)
  <2>1. m.nlt = l.nlt + 1 /\ m.nlt - 1 = l.nlt
    BY <1>1, <1>15
  <2> QED BY <2>1, <1>19, <1>22, <1>23, <1>24, <1>25 DEF LongChain
<1>27. Lists(m, s, u)
  BY <1>16, <1>18, <1>26 DEF Lists
<1>28. m.node[n].use = "long" /\ m.node[n].lt = idx /\ m.node[n].buf = l.node[n].buf
  BY <1>12, <1>15
<1> QED BY <1>15, <1>17, <1>18, <1>27, <1>28 DEF m

\* The nodes of the long-term list that SET_MAX_LT_INDEX cuts off.
CutOff(l, plus1) ==
  IF plus1 > l.max THEN {} ELSE {x \in D!Nodes : LongUse(l, x) /\ l.node[x].lt >= plus1}

\* Command 4 drops the pictures whose index is too large.
LEMMA SetMaxLongFacts ==
  ASSUME NEW l, NEW s, NEW t, Lists(l, s, t), NEW plus1 \in Nat
  PROVE  LET r == D!SetMaxLong(l, plus1) IN
         /\ \E u : Lists(r.l, s, u)
         /\ \A f : Falling(l, s, f) => Falling(r.l, s, f)
         /\ \A x \in D!Nodes : x \notin CutOff(l, plus1) => Same(l, r.l, x)
         /\ \A x \in CutOff(l, plus1) : r.l.node[x].use = "no"
         /\ r.rel = {l.node[x].buf : x \in CutOff(l, plus1)} /\ r.ok = TRUE
         /\ r.l.max = IF plus1 = 0 THEN D!NoLong ELSE plus1 - 1
<1> DEFINE Big(k) == k = l.nlt \/ l.node[D!LongAt(l, k + 1)].lt >= plus1
           K == {k \in 0..l.nlt : Big(k)}
           keep == D!Min(K)
           cut == {D!LongAt(l, k) : k \in keep + 1..l.nlt}
           max == IF plus1 = 0 THEN D!NoLong ELSE plus1 - 1
           m0 == [l EXCEPT !.max = max]
           p == D!LongAt(l, keep)
           new == [n \in D!Nodes |-> IF n \in cut
                                     THEN [l.node[n] EXCEPT !.use = "no", !.buf = NoBuf,
                                                            !.lt = D!NoIdx, !.pl = D!Nil]
                                     ELSE IF keep > 0 /\ n = p
                                          THEN [l.node[n] EXCEPT !.pl = D!Nil]
                                          ELSE l.node[n]]
           r == D!SetMaxLong(l, plus1)
           m == r.l
           u == [i \in 1..keep |-> t[i]]
<1>1. /\ l \in ListStates /\ l.nst \in Nat /\ l.nlt \in Nat /\ l.lt \in 0..NumNodes
      /\ l.node \in [D!Nodes -> NodeStates]
  BY DEF Lists, ListStates
<1>2. ShortChain(l, s) /\ LongChain(l, t)
  BY DEF Lists
<1>3. max \in Nat
  BY DEF D!NoLong
<1>4. r = IF plus1 > l.max \/ l.nlt = 0 THEN D!Done(m0, {})
          ELSE D!Done([m0 EXCEPT !.lt = IF keep = 0 THEN D!Nil ELSE @, !.nlt = keep,
                         !.node = [n \in D!Nodes |->
                                   IF n \in cut
                                   THEN [@[n] EXCEPT !.use = "no", !.buf = NoBuf,
                                                     !.lt = D!NoIdx, !.pl = D!Nil]
                                   ELSE IF keep > 0 /\ n = p
                                        THEN [@[n] EXCEPT !.pl = D!Nil]
                                        ELSE @[n]]],
               {l.node[n].buf : n \in cut})
  BY DEF D!SetMaxLong
<1>5. m0 \in ListStates /\ m0.max = max /\ m0.node = l.node /\ m0.nst = l.nst /\ m0.nlt = l.nlt
      /\ m0.st = l.st /\ m0.lt = l.lt
  <2> HIDE DEF max
  <2> QED BY <1>1, <1>3 DEF ListStates
<1> HIDE DEF r, K, max
<1>6. CASE plus1 > l.max \/ l.nlt = 0
  <2>1. r = D!Done(m0, {})
    <3> HIDE DEF m0, keep, cut, p
    <3> QED BY <1>4, <1>6
  <2>2. CutOff(l, plus1) = {}
    BY <1>2, <1>6 DEF CutOff, LongChain
  <2>3. m = m0 /\ r.rel = {} /\ r.ok = TRUE
    BY <2>1 DEF D!Done
  <2> HIDE DEF m, m0
  <2>4. ShortChain(m, s) /\ LongChain(m, t)
    BY <1>2, <1>5, <2>3 DEF ShortChain, LongChain, ShortUse, LongUse
  <2>5. \A f : Falling(l, s, f) => Falling(m, s, f)
    BY <1>5, <2>3 DEF Falling
  <2>6. {l.node[x].buf : x \in CutOff(l, plus1)} = {}
    BY <2>2
  <2>7. \A x \in D!Nodes : Same(l, m, x)
    BY <1>5, <2>3 DEF Same
  <2>8. Lists(m, s, t)
    BY <1>5, <2>3, <2>4 DEF Lists
  <2> QED BY <1>5, <2>2, <2>3, <2>5, <2>6, <2>7, <2>8 DEF m, r, max
<1>7. CASE ~(plus1 > l.max \/ l.nlt = 0)
  <2>1. r = D!Done([l EXCEPT !.max = max, !.lt = IF keep = 0 THEN D!Nil ELSE l.lt, !.nlt = keep,
                             !.node = new], {l.node[n].buf : n \in cut})
    <3>1. r = D!Done([m0 EXCEPT !.lt = IF keep = 0 THEN D!Nil ELSE m0.lt, !.nlt = keep,
                         !.node = [n \in D!Nodes |->
                                   IF n \in cut
                                   THEN [m0.node[n] EXCEPT !.use = "no", !.buf = NoBuf,
                                                     !.lt = D!NoIdx, !.pl = D!Nil]
                                   ELSE IF keep > 0 /\ n = p
                                        THEN [m0.node[n] EXCEPT !.pl = D!Nil]
                                        ELSE m0.node[n]]],
               {l.node[n].buf : n \in cut})
      <4> HIDE DEF m0, keep, cut, p
      <4> QED BY <1>4, <1>7
    <3>2. r = D!Done([m0 EXCEPT !.lt = IF keep = 0 THEN D!Nil ELSE l.lt, !.nlt = keep,
                         !.node = new], {l.node[n].buf : n \in cut})
      <4> HIDE DEF m0, keep, cut, p
      <4> QED BY <3>1, <1>5
    <3> HIDE DEF new, keep, cut, p
    <3> QED BY <3>2, <1>1 DEF ListStates
  <2>2. keep \in 0..l.nlt /\ Big(keep) /\ \A k \in 0..l.nlt : Big(k) => keep <= k
    <3> HIDE DEF Big
    <3>1. l.nlt \in K
      BY <1>1 DEF K, Big
    <3>2. K \subseteq Nat /\ K # {}
      BY <3>1, <1>1 DEF K
    <3>3. keep \in K /\ \A k \in K : keep <= k
      BY <3>2, MinFacts
    <3> HIDE DEF keep
    <3> QED BY <3>3 DEF K
  <2> HIDE DEF keep
  <2>3. \A i \in 1..l.nlt : D!LongAt(l, i) = t[i] /\ t[i] \in D!Nodes /\ LongUse(l, t[i])
    BY <1>1, <1>2, LongNodes
  <2>4. \A i, j \in 1..l.nlt : i < j => l.node[t[i]].lt < l.node[t[j]].lt
    BY <1>2 DEF LongChain
  <2>5. \A i \in 1..l.nlt : l.node[t[i]].lt \in Nat
    <3>1. \A i \in 1..l.nlt : l.node[t[i]] \in NodeStates
      BY <1>1, <2>3
    <3> QED BY <3>1 DEF NodeStates
  <2>6. ASSUME NEW i \in 1..l.nlt PROVE i > keep <=> l.node[t[i]].lt >= plus1
    <3>1. CASE i > keep
      <4>1. keep + 1 \in 1..l.nlt /\ keep # l.nlt
        BY <3>1, <1>1, <2>2
      <4>2. l.node[t[keep + 1]].lt >= plus1 /\ l.node[t[keep + 1]].lt \in Nat
        BY <4>1, <2>2, <2>3, <2>5
      <4>3. i = keep + 1 \/ keep + 1 < i
        BY <3>1, <2>2, <1>1
      <4> QED BY <3>1, <4>1, <4>2, <4>3, <2>4, <2>5
    <3>2. CASE ~(i > keep)
      <4>1. i - 1 \in 0..l.nlt /\ ~(keep <= i - 1) /\ (i - 1) + 1 = i
        BY <3>2, <1>1, <2>2
      <4>2. ~ Big(i - 1)
        BY <4>1, <2>2
      <4> QED BY <3>2, <4>1, <4>2, <2>3, <2>5
    <3> QED BY <3>1, <3>2
  <2>7. cut = {t[i] : i \in keep + 1..l.nlt}
    <3>1. \A i \in keep + 1..l.nlt : i \in 1..l.nlt
      BY <2>2, <1>1
    <3> QED BY <3>1, <2>3
  <2>8. cut = CutOff(l, plus1)
    <3>1. ASSUME NEW x \in cut PROVE x \in CutOff(l, plus1)
      <4>1. PICK i \in keep + 1..l.nlt : x = t[i]
        BY <2>7
      <4>2. i \in 1..l.nlt /\ i > keep
        BY <2>2, <1>1
      <4> QED BY <4>1, <4>2, <2>3, <2>6, <1>7 DEF CutOff
    <3>2. ASSUME NEW x \in CutOff(l, plus1) PROVE x \in cut
      <4>1. x \in D!Nodes /\ LongUse(l, x) /\ l.node[x].lt >= plus1
        BY <1>7 DEF CutOff
      <4>2. PICK i \in 1..l.nlt : t[i] = x
        BY <4>1, <1>2 DEF LongChain
      <4>3. i \in keep + 1..l.nlt
        BY <4>1, <4>2, <2>2, <2>6, <1>1
      <4> QED BY <4>2, <4>3, <2>7
    <3> HIDE DEF cut
    <3> QED BY <3>1, <3>2
  <2> HIDE DEF cut
  <2>9. keep > 0 => keep \in 1..l.nlt /\ p = t[keep]
    BY <2>2, <2>3, <1>1
  <2> HIDE DEF p
  <2>10. /\ m = [l EXCEPT !.max = max, !.lt = IF keep = 0 THEN D!Nil ELSE l.lt, !.nlt = keep,
                             !.node = new]
         /\ r.rel = {l.node[n].buf : n \in cut} /\ r.ok = TRUE
    <3> HIDE DEF new
    <3> QED BY <2>1 DEF D!Done
  <2>11. /\ m.max = max /\ m.nst = l.nst /\ m.st = l.st /\ m.nlt = keep /\ m.node = new
         /\ m.lt = IF keep = 0 THEN D!Nil ELSE l.lt
    <3> HIDE DEF new, m
    <3> QED BY <2>10, <1>1 DEF ListStates
  <2>12. ASSUME NEW x \in D!Nodes
         PROVE  /\ new[x] \in NodeStates
                /\ new[x].ps = l.node[x].ps
                /\ x \in cut => new[x].use = "no"
                /\ x \notin cut => /\ new[x].use = l.node[x].use /\ new[x].buf = l.node[x].buf
                                   /\ new[x].num = l.node[x].num /\ new[x].lt = l.node[x].lt
                /\ x \notin cut /\ ~(keep > 0 /\ x = p) => new[x].pl = l.node[x].pl
    <3>1. l.node[x] \in NodeStates /\ D!Nil \in 0..NumNodes /\ D!NoIdx \in Nat
      BY <1>1, NodesFacts
    <3>2. CASE x \in cut
      <4>1. new[x] = [l.node[x] EXCEPT !.use = "no", !.buf = NoBuf, !.lt = D!NoIdx, !.pl = D!Nil]
        BY <3>2
      <4> HIDE DEF new
      <4> QED BY <3>1, <3>2, <4>1 DEF NodeStates
    <3>3. CASE x \notin cut /\ keep > 0 /\ x = p
      <4>1. new[x] = [l.node[x] EXCEPT !.pl = D!Nil]
        BY <3>3
      <4> HIDE DEF new
      <4> QED BY <3>1, <3>3, <4>1 DEF NodeStates
    <3>4. CASE x \notin cut /\ ~(keep > 0 /\ x = p)
      <4>1. new[x] = l.node[x]
        BY <3>4
      <4> HIDE DEF new
      <4> QED BY <3>1, <3>4, <4>1
    <3> QED BY <3>2, <3>3, <3>4
  <2>13. new = [x \in D!Nodes |-> new[x]]
    OBVIOUS
  <2> HIDE DEF new, m
  <2>14. m \in ListStates
    <3>1. new \in [D!Nodes -> NodeStates]
      BY <2>12, <2>13
    <3>2. keep \in Nat /\ (IF keep = 0 THEN D!Nil ELSE l.lt) \in 0..NumNodes
      BY <2>2, <1>1, NodesFacts
    <3> QED BY <3>1, <3>2, <2>10, <1>1, <1>3 DEF ListStates
  <2>15. \A x \in D!Nodes : x \notin cut => Same(l, m, x)
    BY <2>11, <2>12 DEF Same
  <2>16. \A x \in cut : x \in D!Nodes /\ LongUse(l, x) /\ m.node[x].use = "no"
    BY <2>8, <2>11, <2>12, <1>7 DEF CutOff
  <2>17. ShortChain(m, s) /\ \A f : Falling(l, s, f) => Falling(m, s, f)
    <3>1. \A x \in D!Nodes : /\ ShortUse(m, x) <=> ShortUse(l, x)
                             /\ m.node[x].ps = l.node[x].ps
      BY <2>11, <2>12, <2>15, <2>16 DEF Same, ShortUse, LongUse
    <3>2. ShortChain(m, s)
      BY <3>1, <1>1, <1>2, <2>11, ShortSame
    <3>3. ASSUME NEW f, Falling(l, s, f) PROVE Falling(m, s, f)
      <4>1. \A n \in D!Nodes : ShortUse(l, n) => m.node[n].ps = l.node[n].ps /\ f[n] = f[n]
        BY <3>1
      <4> QED BY <4>1, <3>3, <1>1, <1>2, <2>11, FallingSame
    <3> QED BY <3>2, <3>3
  <2>18. \A i \in 1..keep : /\ i \in 1..l.nlt /\ u[i] = t[i] /\ t[i] \in D!Nodes /\ t[i] \notin cut
    <3> SUFFICES ASSUME NEW i \in 1..keep
                 PROVE  i \in 1..l.nlt /\ u[i] = t[i] /\ t[i] \in D!Nodes /\ t[i] \notin cut
      OBVIOUS
    <3>1. i \in 1..l.nlt /\ ~(i > keep)
      BY <2>2, <1>1
    <3>2. t[i] \notin cut
      BY <3>1, <2>6, <2>8 DEF CutOff
    <3> QED BY <3>1, <3>2, <2>3
  <2>19. u \in [1..keep -> D!Nodes]
    BY <2>18
  <2> HIDE DEF u
  <2>20. LongChain(m, u)
    <3>1. \A i, j \in 1..keep : i < j => m.node[u[i]].lt < m.node[u[j]].lt
      BY <2>4, <2>15, <2>18 DEF Same
    <3>2. keep > 0 => u[1] = m.lt
      <4> SUFFICES ASSUME keep > 0 PROVE u[1] = m.lt
        OBVIOUS
      <4>1. 1 \in 1..keep /\ l.nlt > 0
        BY <2>2, <1>1
      <4> QED BY <4>1, <1>2, <2>11, <2>18 DEF LongChain
    <3>3. ASSUME NEW i \in 1..keep-1 PROVE m.node[u[i]].pl = u[i + 1]
      <4>1. /\ i \in 1..keep /\ i + 1 \in 1..keep /\ i \in 1..l.nlt-1 /\ i < keep
            /\ i \in 1..l.nlt /\ keep \in 1..l.nlt
        BY <2>2, <1>1
      <4>2. t[i] # p
        BY <4>1, <2>4, <2>5, <2>9
      <4>3. m.node[t[i]].pl = l.node[t[i]].pl
        BY <4>1, <4>2, <2>11, <2>12, <2>18
      <4> QED BY <4>1, <4>3, <1>2, <2>18 DEF LongChain
    <3>4. ASSUME NEW x \in D!Nodes PROVE LongUse(m, x) <=> \E i \in 1..keep : u[i] = x
      <4>1. ASSUME LongUse(m, x) PROVE \E i \in 1..keep : u[i] = x
        <5>1. x \notin cut /\ LongUse(l, x)
          BY <4>1, <2>15, <2>16 DEF LongUse, Same
        <5>2. PICK i \in 1..l.nlt : t[i] = x
          BY <5>1, <1>2 DEF LongChain
        <5>3. i \in 1..keep
          BY <5>1, <5>2, <2>2, <2>7, <1>1
        <5> QED BY <5>2, <5>3, <2>18
      <4>2. ASSUME NEW i \in 1..keep, u[i] = x PROVE LongUse(m, x)
        BY <4>2, <2>3, <2>15, <2>18 DEF LongUse, Same
      <4> QED BY <4>1, <4>2
    <3> QED BY <3>1, <3>2, <3>3, <3>4, <2>11, <2>19 DEF LongChain
  <2>21. Lists(m, s, u)
    BY <2>14, <2>17, <2>20 DEF Lists
  <2> QED BY <2>8, <2>10, <2>11, <2>15, <2>16, <2>17, <2>21 DEF m, r, max
<1> QED BY <1>6, <1>7

\* The same for the short-term list.
LEMMA ShortNodes ==
  ASSUME NEW l, NEW s, l \in ListStates, ShortChain(l, s), NEW i \in 1..l.nst
  PROVE  D!ShortAt(l, i) = s[i] /\ s[i] \in D!Nodes /\ ShortUse(l, s[i])
<1>1. D!ShortAt(l, i) = s[i]
  BY ShortAtIs
<1>2. s[i] \in D!Nodes
  BY DEF ShortChain
<1> QED BY <1>1, <1>2 DEF ShortChain

\* Lists whose chains and links are those of others are lists as well.
LEMMA SameLists ==
  ASSUME NEW l, NEW s, NEW t, Lists(l, s, t), NEW m, m \in ListStates,
         m.nst = l.nst, m.st = l.st, m.nlt = l.nlt, m.lt = l.lt,
         \A x \in D!Nodes :
            /\ m.node[x].use = l.node[x].use
            /\ ShortUse(l, x) => m.node[x].ps = l.node[x].ps
            /\ LongUse(l, x) => m.node[x].pl = l.node[x].pl /\ m.node[x].lt = l.node[x].lt
  PROVE  /\ Lists(m, s, t)
         /\ \A f, g : /\ Falling(l, s, f)
                      /\ \A x \in D!Nodes : ShortUse(l, x) => g[x] = f[x]
                      => Falling(m, s, g)
<1>1. l.nst \in Nat /\ l.nlt \in Nat /\ ShortChain(l, s) /\ LongChain(l, t)
  BY DEF Lists, ListStates
<1>2. ShortChain(m, s)
  <2>1. \A n \in D!Nodes : /\ ShortUse(m, n) <=> ShortUse(l, n)
                           /\ ShortUse(l, n) => m.node[n].ps = l.node[n].ps
    BY DEF ShortUse
  <2> QED BY <1>1, <2>1, ShortSame
<1>3. LongChain(m, t)
  <2>1. \A n \in D!Nodes : /\ LongUse(m, n) <=> LongUse(l, n)
                           /\ LongUse(l, n) => /\ m.node[n].pl = l.node[n].pl
                                               /\ m.node[n].lt = l.node[n].lt
    BY DEF LongUse
  <2> QED BY <1>1, <2>1, LongSame
<1>4. ASSUME NEW f, NEW g, Falling(l, s, f),
             \A x \in D!Nodes : ShortUse(l, x) => g[x] = f[x]
      PROVE  Falling(m, s, g)
  <2>1. \A n \in D!Nodes : ShortUse(l, n) => m.node[n].ps = l.node[n].ps /\ g[n] = f[n]
    BY <1>4
  <2> QED BY <1>1, <1>4, <2>1, FallingSame
<1> QED BY <1>2, <1>3, <1>4 DEF Lists

\* Find gives the place of a number, if it is there.
LEMMA FindFacts ==
  ASSUME NEW l, NEW s, l \in ListStates, ShortChain(l, s), NEW num
  PROVE  LET k == D!Find(l, num) IN
         /\ k <= l.nst <=> \E x \in D!Nodes : ShortUse(l, x) /\ l.node[x].num = num
         /\ k <= l.nst \/ k > l.nst
         /\ k <= l.nst => k \in 1..l.nst /\ l.node[s[k]].num = num
<1> DEFINE Z == {i \in 1..l.nst : l.node[D!ShortAt(l, i)].num = num}
           k == D!Find(l, num)
<1>1. k = D!Min(Z \cup {l.nst + 1}) /\ l.nst \in Nat
  BY DEF D!Find, ListStates
<1>2. Z \subseteq 1..l.nst
  OBVIOUS
<1>3. k \in 1..l.nst + 1 /\ (k <= l.nst <=> Z # {}) /\ (k <= l.nst => k \in Z)
  <2> HIDE DEF Z
  <2> QED BY <1>1, <1>2, FirstFacts
<1>4. Z = {i \in 1..l.nst : l.node[s[i]].num = num}
  BY ShortNodes
<1>5. Z # {} <=> \E x \in D!Nodes : ShortUse(l, x) /\ l.node[x].num = num
  BY <1>4 DEF ShortChain
<1> HIDE DEF k, Z
<1> QED BY <1>1, <1>3, <1>4, <1>5 DEF k

\* Command 1 and the number it names.
LEMMA DeleteShortFacts ==
  ASSUME NEW l, NEW f, NEW ord, Linked(l, f, ord), NEW num
  PROVE  LET r == D!DeleteShort(l, num) IN
         /\ Linked(r.l, f, ord) /\ r.l.max = l.max
         /\ IF \E x \in D!Nodes : ShortUse(l, x) /\ l.node[x].num = num
            THEN /\ r.ok = TRUE
                 /\ \E n \in D!Nodes :
                       /\ ShortUse(l, n) /\ l.node[n].num = num
                       /\ r.l.node[n].use = "no" /\ r.rel = {l.node[n].buf}
                       /\ \A x \in D!Nodes : x # n => Same(l, r.l, x)
            ELSE r = D!Fail(l)
<1>1. PICK s, t : Lists(l, s, t) /\ (ord => Falling(l, s, f))
  BY DEF Linked
<1> DEFINE k == D!Find(l, num)
           n == s[k]
           m == D!Unlink(l, k)
           e == [m.node[n] EXCEPT !.ps = D!Nil]
           r == D!DeleteShort(l, num)
           u == Skip(s, k, l.nst)
<1>2. l \in ListStates /\ ShortChain(l, s)
  BY <1>1 DEF Lists
<1>3. /\ k <= l.nst <=> \E x \in D!Nodes : ShortUse(l, x) /\ l.node[x].num = num
      /\ k <= l.nst \/ k > l.nst
      /\ k <= l.nst => k \in 1..l.nst /\ l.node[s[k]].num = num
  BY <1>2, FindFacts
<1>4. r = IF k > l.nst THEN D!Fail(l)
          ELSE D!Done([m EXCEPT !.node[D!ShortAt(l, k)].ps = D!Nil], {l.node[D!ShortAt(l, k)].buf})
  BY DEF D!DeleteShort
<1>5. l.nst \in Nat
  BY <1>2 DEF ListStates
<1> HIDE DEF k, r
<1>6. CASE k > l.nst
  <2>1. r = D!Fail(l)
    BY <1>4, <1>6
  <2>2. r.l = l
    BY <2>1 DEF D!Fail
  <2>3. ~ (k <= l.nst)
    BY <1>3, <1>5, <1>6
  <2> QED BY <2>1, <2>2, <2>3, <1>3 DEF r
<1>7. CASE k <= l.nst
  <2>1. /\ k \in 1..l.nst /\ D!ShortAt(l, k) = n /\ n \in D!Nodes /\ ShortUse(l, n)
        /\ l.node[n].num = num /\ ~ (k > l.nst)
    BY <1>2, <1>3, <1>5, <1>7, ShortNodes
  <2>2. /\ Lists(m, u, t)
        /\ m.node[n].use = "no"
        /\ \A x \in D!Nodes : x # n => Same(l, m, x)
        /\ m.max = l.max
        /\ \A g : Falling(l, s, g) => Falling(m, u, g)
    <3> HIDE DEF u, n, m
    <3> QED BY <1>1, <2>1, UnlinkFacts DEF u, n, m
  <2> HIDE DEF m, u, n
  <2>3. m \in ListStates /\ m.node \in [D!Nodes -> NodeStates]
    BY <2>2 DEF Lists, ListStates
  <2>4. /\ r.l = [m EXCEPT !.node = [m.node EXCEPT ![n] = e]]
        /\ r.rel = {l.node[n].buf} /\ r.ok = TRUE
    <3>1. r = D!Done([m EXCEPT !.node[n].ps = D!Nil], {l.node[n].buf})
      BY <1>4, <2>1
    <3> QED BY <3>1, <2>3 DEF D!Done, ListStates
  <2>5. e \in NodeStates /\ e.use = "no"
    <3>1. m.node[n] \in NodeStates /\ D!Nil \in 0..NumNodes
      BY <2>1, <2>3, NodesFacts
    <3> QED BY <3>1, <2>2 DEF NodeStates
  <2> HIDE DEF e
  <2>6. /\ r.l \in ListStates
        /\ r.l.nst = m.nst /\ r.l.st = m.st /\ r.l.nlt = m.nlt /\ r.l.lt = m.lt /\ r.l.max = m.max
        /\ r.l.node[n] = e
        /\ \A x \in D!Nodes : x # n => r.l.node[x] = m.node[x]
    <3>1. [m.node EXCEPT ![n] = e] \in [D!Nodes -> NodeStates]
      BY <2>3, <2>5
    <3>2. r.l \in ListStates
      BY <2>3, <2>4, <3>1 DEF ListStates
    <3> QED BY <2>1, <2>3, <2>4, <3>2 DEF ListStates
  <2>7. Lists(r.l, u, t) /\ \A g : Falling(m, u, g) => Falling(r.l, u, g)
    <3>1. \A x \in D!Nodes :
            /\ r.l.node[x].use = m.node[x].use
            /\ ShortUse(m, x) => r.l.node[x].ps = m.node[x].ps
            /\ LongUse(m, x) => r.l.node[x].pl = m.node[x].pl /\ r.l.node[x].lt = m.node[x].lt
      BY <2>2, <2>5, <2>6 DEF ShortUse, LongUse
    <3>2. /\ Lists(r.l, u, t)
          /\ \A h, g : /\ Falling(m, u, h)
                       /\ \A x \in D!Nodes : ShortUse(m, x) => g[x] = h[x]
                       => Falling(r.l, u, g)
      BY <3>1, <2>2, <2>6, SameLists
    <3>3. ASSUME NEW g, Falling(m, u, g) PROVE Falling(r.l, u, g)
      <4>1. \A x \in D!Nodes : ShortUse(m, x) => g[x] = g[x]
        OBVIOUS
      <4> QED BY <3>2, <3>3, <4>1
    <3> QED BY <3>2, <3>3
  <2>8. Linked(r.l, f, ord)
    BY <1>1, <2>2, <2>7 DEF Linked
  <2>9. r.l.node[n].use = "no" /\ \A x \in D!Nodes : x # n => Same(l, r.l, x)
    BY <2>2, <2>5, <2>6 DEF Same
  <2> QED BY <1>3, <1>7, <2>1, <2>2, <2>4, <2>6, <2>8, <2>9 DEF r
<1> QED BY <1>3, <1>6, <1>7

\* Command 3: the picture with a number takes an index, from the one that has it.
LEMMA MakeLongFacts ==
  ASSUME NEW l, NEW f, NEW ord, Linked(l, f, ord), NEW num, NEW idx \in Nat
  PROVE  LET r == D!MakeLong(l, num, idx) IN
         /\ Linked(r.l, f, ord) /\ r.l.max = l.max
         /\ IF \E x \in D!Nodes : ShortUse(l, x) /\ l.node[x].num = num
            THEN /\ r.ok = TRUE /\ r.rel = {l.node[x].buf : x \in WithIdx(l, idx)}
                 /\ \A x \in WithIdx(l, idx) : r.l.node[x].use = "no"
                 /\ \E n \in D!Nodes :
                       /\ ShortUse(l, n) /\ l.node[n].num = num
                       /\ r.l.node[n].use = "long" /\ r.l.node[n].lt = idx
                       /\ r.l.node[n].buf = l.node[n].buf
                       /\ \A x \in D!Nodes : x # n /\ x \notin WithIdx(l, idx) => Same(l, r.l, x)
            ELSE r = D!Fail(l)
<1>1. PICK s, t : Lists(l, s, t) /\ (ord => Falling(l, s, f))
  BY DEF Linked
<1> DEFINE k == D!Find(l, num)
           n == s[k]
           m == D!Unlink(l, k)
           d == D!DeleteLong(m, idx)
           i == D!InsertLong(d.l, n, idx)
           r == D!MakeLong(l, num, idx)
           u == Skip(s, k, l.nst)
<1>2. l \in ListStates /\ ShortChain(l, s)
  BY <1>1 DEF Lists
<1>3. /\ k <= l.nst <=> \E x \in D!Nodes : ShortUse(l, x) /\ l.node[x].num = num
      /\ k <= l.nst \/ k > l.nst
      /\ k <= l.nst => k \in 1..l.nst /\ l.node[s[k]].num = num
  BY <1>2, FindFacts
<1>4. r = IF k > l.nst THEN D!Fail(l)
          ELSE D!Done(D!InsertLong(d.l, D!ShortAt(l, k), idx), d.rel)
  BY DEF D!MakeLong
<1>5. l.nst \in Nat
  BY <1>2 DEF ListStates
<1> HIDE DEF k, r
<1>6. CASE k > l.nst
  <2>1. r = D!Fail(l)
    BY <1>4, <1>6
  <2>2. r.l = l
    BY <2>1 DEF D!Fail
  <2>3. ~ (k <= l.nst)
    BY <1>3, <1>5, <1>6
  <2> QED BY <1>1, <2>1, <2>2, <2>3, <1>3 DEF r
<1>7. CASE k <= l.nst
  <2>1. /\ k \in 1..l.nst /\ D!ShortAt(l, k) = n /\ n \in D!Nodes /\ ShortUse(l, n)
        /\ l.node[n].num = num /\ ~ (k > l.nst)
    BY <1>2, <1>3, <1>5, <1>7, ShortNodes
  <2>2. /\ Lists(m, u, t)
        /\ m.node[n].use = "no" /\ m.node[n].buf = l.node[n].buf
        /\ \A x \in D!Nodes : x # n => Same(l, m, x)
        /\ m.max = l.max
        /\ \A g : Falling(l, s, g) => Falling(m, u, g)
    <3> HIDE DEF u, n, m
    <3> QED BY <1>1, <2>1, UnlinkFacts DEF u, n, m
  <2> HIDE DEF m, u, n
  <2>3. WithIdx(m, idx) = WithIdx(l, idx) /\ n \notin WithIdx(l, idx)
        /\ \A x \in WithIdx(l, idx) : m.node[x].buf = l.node[x].buf
    BY <2>1, <2>2 DEF WithIdx, LongUse, ShortUse, Same
  <2>4. PICK v :
        /\ Lists(d.l, u, v)
        /\ \A g : Falling(m, u, g) => Falling(d.l, u, g)
        /\ \A x \in D!Nodes : x \notin WithIdx(m, idx) => Same(m, d.l, x)
        /\ \A x \in WithIdx(m, idx) : d.l.node[x].use = "no"
        /\ d.rel = {m.node[x].buf : x \in WithIdx(m, idx)} /\ d.ok = TRUE
        /\ d.l.max = m.max
    <3> HIDE DEF d
    <3> QED BY <2>2, DeleteLongFacts DEF d
  <2>5. r.l = i /\ r.rel = d.rel /\ r.ok = TRUE
    <3> HIDE DEF d
    <3>1. r = D!Done(i, d.rel)
      BY <1>4, <2>1
    <3> QED BY <3>1 DEF D!Done
  <2> HIDE DEF d
  <2>6. d.l.node[n].use = "no" /\ d.l.node[n].buf = l.node[n].buf
    BY <2>1, <2>2, <2>3, <2>4 DEF Same
  <2>7. WithIdx(d.l, idx) = {}
    BY <2>4 DEF WithIdx, Same, LongUse
  <2>8. PICK w :
        /\ Lists(i, u, w)
        /\ \A g : Falling(d.l, u, g) => Falling(i, u, g)
        /\ \A x \in D!Nodes : x # n => Same(d.l, i, x)
        /\ i.node[n].use = "long" /\ i.node[n].lt = idx /\ i.node[n].buf = d.l.node[n].buf
        /\ i.max = d.l.max
    <3> HIDE DEF i
    <3> QED BY <2>1, <2>4, <2>6, <2>7, InsertLongFacts DEF i
  <2> HIDE DEF i
  <2>9. Linked(i, f, ord)
    BY <1>1, <2>2, <2>4, <2>8 DEF Linked
  <2>10. \A x \in D!Nodes : x # n /\ x \notin WithIdx(l, idx) => Same(l, i, x)
    BY <2>2, <2>3, <2>4, <2>8 DEF Same
  <2>11. \A x \in WithIdx(l, idx) : i.node[x].use = "no"
    <3>1. \A x \in WithIdx(l, idx) : x \in D!Nodes /\ x # n
      BY <2>3 DEF WithIdx
    <3> QED BY <3>1, <2>3, <2>4, <2>8 DEF Same
  <2>12. d.rel = {l.node[x].buf : x \in WithIdx(l, idx)}
    BY <2>3, <2>4
  <2>13. i.max = l.max
    BY <2>2, <2>4, <2>8
  <2> QED BY <1>3, <1>7, <2>1, <2>5, <2>6, <2>8, <2>9, <2>10, <2>11, <2>12, <2>13 DEF r
<1> QED BY <1>3, <1>6, <1>7

\* Sliding: the node at the end of the short-term list leaves.
LEMMA DropLastFacts ==
  ASSUME NEW l, NEW f, NEW ord, Linked(l, f, ord), l.nst > 0
  PROVE  LET r == D!DropLast(l) IN
         /\ Linked(r.l, f, ord) /\ r.l.max = l.max /\ r.ok = TRUE
         /\ \E n \in D!Nodes :
               /\ ShortUse(l, n) /\ r.l.node[n].use = "no" /\ r.rel = {l.node[n].buf}
               /\ \A x \in D!Nodes : x # n => Same(l, r.l, x)
               /\ ord => \A x \in D!Nodes : ShortUse(l, x) /\ x # n => f[x] > f[n]
<1>1. PICK s, t : Lists(l, s, t) /\ (ord => Falling(l, s, f))
  BY DEF Linked
<1> DEFINE k == l.nst
           n == s[k]
           p == s[k - 1]
           e == [l.node[n] EXCEPT !.use = "no", !.buf = NoBuf, !.ps = D!Nil]
           d == [l.node[p] EXCEPT !.ps = D!Nil]
           b == [l.node EXCEPT ![n] = e]
           r == D!DropLast(l)
           m == r.l
           u == [i \in 1..k-1 |-> s[i]]
<1>2. /\ l \in ListStates /\ l.nst \in Nat /\ l.nlt \in Nat
      /\ l.node \in [D!Nodes -> NodeStates] /\ l.st \in 0..NumNodes
  BY <1>1 DEF Lists, ListStates
<1>3. ShortChain(l, s) /\ LongChain(l, t)
  BY <1>1 DEF Lists
<1>4. \A i \in 1..l.nst : D!ShortAt(l, i) = s[i] /\ s[i] \in D!Nodes /\ ShortUse(l, s[i])
  BY <1>2, <1>3, ShortNodes
<1>5. \A i, j \in 1..l.nst : s[i] = s[j] => i = j
  BY <1>3 DEF ShortChain
<1>6. l.nst \in 1..l.nst /\ n \in D!Nodes /\ ShortUse(l, n) /\ D!ShortAt(l, l.nst) = n
  BY <1>2, <1>4
<1>7. l.nst # 1 => /\ k - 1 \in 1..l.nst /\ k - 1 # k /\ p \in D!Nodes /\ p # n
                   /\ D!ShortAt(l, l.nst - 1) = p
  <2>1. l.nst # 1 => k - 1 \in 1..l.nst /\ k - 1 # k
    BY <1>2
  <2> QED BY <2>1, <1>4, <1>5, <1>6
<1>8. D!Nil \in 0..NumNodes
  BY NodesFacts
<1>9. e \in NodeStates /\ e.use = "no" /\ e.pl = l.node[n].pl /\ e.lt = l.node[n].lt
  <2>1. l.node[n] \in NodeStates
    BY <1>2, <1>6
  <2> QED BY <2>1, <1>8 DEF NodeStates
<1>10. l.nst # 1 => /\ d \in NodeStates /\ d.ps = D!Nil /\ d.pl = l.node[p].pl
                    /\ d.use = l.node[p].use /\ d.buf = l.node[p].buf /\ d.num = l.node[p].num
                    /\ d.lt = l.node[p].lt
  <2> SUFFICES ASSUME l.nst # 1
               PROVE  /\ d \in NodeStates /\ d.ps = D!Nil /\ d.pl = l.node[p].pl
                      /\ d.use = l.node[p].use /\ d.buf = l.node[p].buf
                      /\ d.num = l.node[p].num /\ d.lt = l.node[p].lt
    OBVIOUS
  <2>1. l.node[p] \in NodeStates
    BY <1>2, <1>7
  <2> QED BY <2>1, <1>8 DEF NodeStates
<1>11. b \in [D!Nodes -> NodeStates] /\ b[n] = e /\ \A x \in D!Nodes : x # n => b[x] = l.node[x]
  BY <1>2, <1>6, <1>9
<1>12. r.rel = {l.node[n].buf} /\ r.ok = TRUE
       /\ m = IF l.nst = 1
              THEN [[l EXCEPT !.node[n] = e, !.nst = @ - 1] EXCEPT !.st = D!Nil]
              ELSE [[l EXCEPT !.node[n] = e, !.nst = @ - 1] EXCEPT !.node[D!ShortAt(l, l.nst - 1)].ps = D!Nil]
  <2>1. r = D!Done(IF l.nst = 1
              THEN [[l EXCEPT !.node[n] = [@ EXCEPT !.use = "no", !.buf = NoBuf, !.ps = D!Nil],
                              !.nst = @ - 1] EXCEPT !.st = D!Nil]
              ELSE [[l EXCEPT !.node[n] = [@ EXCEPT !.use = "no", !.buf = NoBuf, !.ps = D!Nil],
                              !.nst = @ - 1] EXCEPT !.node[D!ShortAt(l, l.nst - 1)].ps = D!Nil],
                   {l.node[n].buf})
    <3> HIDE DEF n
    <3> QED BY <1>6 DEF D!DropLast
  <2> HIDE DEF n, r
  <2> QED BY <2>1 DEF D!Done
<1> HIDE DEF r, e, d
<1>13. l.nst = 1 => m = [l EXCEPT !.node = b, !.nst = l.nst - 1, !.st = D!Nil]
  <2> HIDE DEF n
  <2> QED BY <1>2, <1>12 DEF ListStates
<1>14. l.nst # 1 => m = [l EXCEPT !.node = [b EXCEPT ![p] = d], !.nst = l.nst - 1]
  <2> SUFFICES ASSUME l.nst # 1
               PROVE  m = [l EXCEPT !.node = [b EXCEPT ![p] = d], !.nst = l.nst - 1]
    OBVIOUS
  <2>1. m = [[l EXCEPT !.node = b, !.nst = l.nst - 1] EXCEPT !.node[p].ps = D!Nil]
    <3> HIDE DEF n, p
    <3> QED BY <1>2, <1>7, <1>12 DEF ListStates
  <2>2. b[p] = l.node[p]
    BY <1>7, <1>11
  <2> HIDE DEF m, b, p, n
  <2> QED BY <2>1, <2>2, <1>2 DEF ListStates, d
<1> HIDE DEF m, b
<1>15. /\ m.nst = l.nst - 1 /\ m.lt = l.lt /\ m.nlt = l.nlt /\ m.max = l.max
       /\ m.node[n] = e
       /\ \A x \in D!Nodes : x # n /\ ~(l.nst # 1 /\ x = p) => m.node[x] = l.node[x]
       /\ l.nst # 1 => m.node[p] = d /\ m.st = l.st
       /\ l.nst = 1 => m.st = D!Nil
  <2> HIDE DEF n, p
  <2>1. CASE l.nst = 1
    <3>1. /\ m.nst = l.nst - 1 /\ m.lt = l.lt /\ m.nlt = l.nlt /\ m.max = l.max
          /\ m.st = D!Nil /\ m.node = b
      BY <2>1, <1>2, <1>13 DEF ListStates
    <3> QED BY <2>1, <3>1, <1>11
  <2>2. CASE l.nst # 1
    <3>1. /\ m.nst = l.nst - 1 /\ m.lt = l.lt /\ m.nlt = l.nlt /\ m.max = l.max
          /\ m.st = l.st /\ m.node = [b EXCEPT ![p] = d]
      BY <2>2, <1>2, <1>14 DEF ListStates
    <3> QED BY <2>2, <3>1, <1>7, <1>11
  <2> QED BY <2>1, <2>2
<1>16. m \in ListStates
  <2>1. l.nst - 1 \in Nat
    BY <1>2
  <2> HIDE DEF n, p
  <2>2. CASE l.nst = 1
    BY <2>1, <2>2, <1>2, <1>8, <1>11, <1>13 DEF ListStates
  <2>3. CASE l.nst # 1
    <3>1. [b EXCEPT ![p] = d] \in [D!Nodes -> NodeStates]
      BY <2>3, <1>10, <1>11
    <3> QED BY <2>1, <2>3, <3>1, <1>2, <1>14 DEF ListStates
  <2> QED BY <2>2, <2>3
<1>17. \A x \in D!Nodes : x # n => Same(l, m, x) /\ m.node[x].pl = l.node[x].pl
  BY <1>7, <1>10, <1>15 DEF Same
<1>18. LongChain(m, t)
  <2>1. \A x \in D!Nodes : /\ LongUse(m, x) <=> LongUse(l, x)
                           /\ LongUse(l, x) => /\ m.node[x].pl = l.node[x].pl
                                               /\ m.node[x].lt = l.node[x].lt
    BY <1>6, <1>9, <1>15, <1>17 DEF LongUse, ShortUse, Same
  <2> QED BY <1>2, <1>3, <1>15, <2>1, LongSame
<1>19. u \in [1..k-1 -> D!Nodes] /\ \A i \in 1..k-1 : u[i] = s[i] /\ i \in 1..k /\ i # k /\ s[i] # n
  <2>1. \A i \in 1..k-1 : i \in 1..k /\ i # k
    BY <1>2
  <2> QED BY <2>1, <1>4, <1>5, <1>6
<1> HIDE DEF u
<1>20. ShortChain(m, u)
  <2>1. \A i, j \in 1..k-1 : u[i] = u[j] => i = j
    BY <1>5, <1>19
  <2>2. k - 1 > 0 => u[1] = m.st
    <3> SUFFICES ASSUME k - 1 > 0 PROVE u[1] = m.st
      OBVIOUS
    <3>1. 1 \in 1..k-1 /\ l.nst # 1
      BY <1>2
    <3> QED BY <3>1, <1>3, <1>15, <1>19 DEF ShortChain
  <2>3. ASSUME NEW i \in 1..(k-1)-1 PROVE m.node[u[i]].ps = u[i + 1]
    <3>1. i \in 1..k-1 /\ i + 1 \in 1..k-1 /\ i \in 1..k /\ i # k - 1 /\ l.nst # 1
      BY <1>2
    <3>2. s[i] # p /\ s[i] # n /\ s[i] \in D!Nodes
      BY <3>1, <1>4, <1>5, <1>7, <1>19
    <3>3. m.node[s[i]] = l.node[s[i]]
      BY <3>2, <1>15
    <3> QED BY <3>1, <3>3, <1>3, <1>19 DEF ShortChain
  <2>4. ASSUME NEW x \in D!Nodes PROVE ShortUse(m, x) <=> \E i \in 1..k-1 : u[i] = x
    <3>1. CASE x = n
      BY <3>1, <1>9, <1>15, <1>19 DEF ShortUse
    <3>2. CASE x # n
      <4>1. ShortUse(m, x) <=> \E i \in 1..l.nst : s[i] = x
        BY <3>2, <1>3, <1>17 DEF ShortChain, ShortUse, Same
      <4>2. ASSUME NEW i \in 1..l.nst, s[i] = x PROVE \E j \in 1..k-1 : u[j] = x
        <5>1. i # k
          BY <4>2, <3>2
        <5>2. i \in 1..k-1
          BY <5>1, <1>2
        <5> QED BY <4>2, <5>2, <1>19
      <4> QED BY <4>1, <4>2, <1>19
    <3> QED BY <3>1, <3>2
  <2> QED BY <2>1, <2>2, <2>3, <2>4, <1>15, <1>19 DEF ShortChain
<1>21. ASSUME Falling(l, s, f) PROVE Falling(m, u, f)
  <2>1. \A i, j \in 1..k-1 : i < j => f[u[i]] > f[u[j]]
    BY <1>19, <1>21 DEF Falling
  <2>2. CASE l.nst = 1
    BY <2>1, <2>2, <1>15 DEF Falling
  <2>3. CASE l.nst # 1
    <3>1. k - 1 \in 1..k-1 /\ k - 1 # 0
      BY <2>3, <1>2
    <3>2. u[k - 1] = p /\ m.node[p].ps = D!Nil
      BY <2>3, <3>1, <1>10, <1>15, <1>19
    <3> QED BY <2>1, <3>1, <3>2, <1>15 DEF Falling
  <2> QED BY <2>2, <2>3
<1>22. ASSUME Falling(l, s, f), NEW x \in D!Nodes, ShortUse(l, x), x # n PROVE f[x] > f[n]
  <2>1. PICK i \in 1..l.nst : s[i] = x
    BY <1>3, <1>22 DEF ShortChain
  <2>2. i < k
    BY <2>1, <1>2, <1>22
  <2> QED BY <2>1, <2>2, <1>6, <1>22 DEF Falling
<1>23. Linked(m, f, ord)
  <2>1. Lists(m, u, t)
    BY <1>16, <1>18, <1>20 DEF Lists
  <2> QED BY <2>1, <1>1, <1>21 DEF Linked
<1>24. m.node[n].use = "no"
  BY <1>9, <1>15
<1> QED BY <1>1, <1>6, <1>12, <1>15, <1>17, <1>22, <1>23, <1>24 DEF m, r

\* Every node is given up.
LEMMA ResetRefsFacts ==
  ASSUME NEW l, l \in ListStates
  PROVE  LET r == D!ResetRefs(l) IN
         /\ \A f, ord : Linked(r.l, f, ord)
         /\ \A x \in D!Nodes : r.l.node[x].use = "no"
         /\ r.rel = {l.node[x].buf : x \in InUse(l)} /\ r.ok = TRUE /\ r.l.max = l.max
<1> DEFINE r == D!ResetRefs(l)
           new == [n \in D!Nodes |-> IF l.node[n].use = "no" THEN l.node[n] ELSE D!EmptyNode]
           m == [l EXCEPT !.node = new, !.st = D!Nil, !.lt = D!Nil, !.nst = 0, !.nlt = 0]
           s == [i \in 1..0 |-> i]
<1>1. r = D!Done(m, {l.node[n].buf : n \in {n \in D!Nodes : l.node[n].use # "no"}})
  BY DEF D!ResetRefs
<1>2. D!EmptyNode \in NodeStates /\ D!EmptyNode.use = "no"
  BY NodesFacts DEF D!EmptyNode, NodeStates
<1>3. new \in [D!Nodes -> NodeStates] /\ \A x \in D!Nodes : new[x].use = "no"
  <2>1. l.node \in [D!Nodes -> NodeStates]
    BY DEF ListStates
  <2> QED BY <2>1, <1>2
<1> HIDE DEF new
<1>4. /\ m \in ListStates /\ m.node = new /\ m.st = D!Nil /\ m.nst = 0 /\ m.nlt = 0
      /\ m.max = l.max
  <2>1. D!Nil \in 0..NumNodes
    BY NodesFacts
  <2> QED BY <2>1, <1>3 DEF ListStates
<1>5. r.l = m /\ r.rel = {l.node[n].buf : n \in {n \in D!Nodes : l.node[n].use # "no"}}
      /\ r.ok = TRUE
  <2> HIDE DEF m
  <2> QED BY <1>1 DEF D!Done
<1> HIDE DEF m, r
<1>6. Lists(m, s, s)
  <2>1. ShortChain(m, s)
    BY <1>3, <1>4 DEF ShortChain, ShortUse
  <2>2. LongChain(m, s)
    BY <1>3, <1>4 DEF LongChain, LongUse
  <2> QED BY <2>1, <2>2, <1>4 DEF Lists
<1>7. \A f : Falling(m, s, f)
  BY <1>4 DEF Falling
<1>8. \A f, ord : Linked(m, f, ord)
  BY <1>6, <1>7 DEF Linked
<1> QED BY <1>3, <1>4, <1>5, <1>8 DEF r, InUse

\* The current picture's number was there before: its node is given up when it
\* is the only one.
LEMMA DropRepeatedFacts ==
  ASSUME NEW l, NEW f, Linked(l, f, FALSE), l.nst > 0
  PROVE  LET r == D!DropRepeated(l) IN
         /\ Linked(r.l, f, FALSE) /\ r.ok = TRUE
         /\ \A x \in D!Nodes : r.l.node[x].use # "no" => Same(l, r.l, x)
<1>1. PICK s, t : Lists(l, s, t)
  BY DEF Linked
<1> DEFINE n == l.st
           e == [l.node[n] EXCEPT !.use = "no", !.buf = NoBuf]
           r == D!DropRepeated(l)
           m == [l EXCEPT !.node = [l.node EXCEPT ![n] = e], !.nst = 0]
           u == [i \in 1..0 |-> i]
<1>2. l \in ListStates /\ l.nst \in Nat /\ l.nlt \in Nat /\ l.node \in [D!Nodes -> NodeStates]
  BY <1>1 DEF Lists, ListStates
<1>3. ShortChain(l, s) /\ LongChain(l, t)
  BY <1>1 DEF Lists
<1>4. CASE l.nst > 1
  <2>1. r.l = l /\ r.ok = TRUE
    BY <1>4 DEF D!DropRepeated, D!Done
  <2> QED BY <2>1 DEF Same, r
<1>5. CASE ~(l.nst > 1)
  <2>1. l.nst = 1 /\ 1 \in 1..l.nst
    BY <1>2, <1>5
  <2>2. n = s[1] /\ n \in D!Nodes /\ ShortUse(l, n)
    BY <2>1, <1>2, <1>3, ShortNodes DEF ShortChain
  <2>3. r.l = m /\ r.ok = TRUE
    <3>1. r = D!Done([l EXCEPT !.node[n].use = "no", !.node[n].buf = NoBuf, !.nst = 0],
                     {l.node[n].buf})
      BY <1>5 DEF D!DropRepeated
    <3>2. [l EXCEPT !.node[n].use = "no", !.node[n].buf = NoBuf, !.nst = 0] = m
      <4> HIDE DEF n
      <4> QED BY <1>2, <2>2 DEF ListStates, NodeStates
    <3> HIDE DEF m, n
    <3> QED BY <3>1, <3>2 DEF D!Done
  <2> HIDE DEF n, r
  <2>4. e \in NodeStates /\ e.use = "no"
    <3>1. l.node[n] \in NodeStates
      BY <1>2, <2>2
    <3> QED BY <3>1 DEF NodeStates
  <2> HIDE DEF e
  <2>5. /\ m \in ListStates /\ m.nst = 0 /\ m.nlt = l.nlt /\ m.lt = l.lt
        /\ m.node[n] = e /\ \A x \in D!Nodes : x # n => m.node[x] = l.node[x]
    <3>1. [l.node EXCEPT ![n] = e] \in [D!Nodes -> NodeStates]
      BY <1>2, <2>4
    <3> QED BY <3>1, <1>2, <2>2 DEF ListStates
  <2> HIDE DEF m
  <2>6. LongChain(m, t)
    <3>1. \A x \in D!Nodes : /\ LongUse(m, x) <=> LongUse(l, x)
                             /\ LongUse(l, x) => /\ m.node[x].pl = l.node[x].pl
                                                 /\ m.node[x].lt = l.node[x].lt
      BY <2>2, <2>4, <2>5 DEF LongUse, ShortUse
    <3> QED BY <3>1, <1>2, <1>3, <2>5, LongSame
  <2>7. ShortChain(m, u)
    <3>1. \A x \in D!Nodes : ~ ShortUse(m, x)
      <4> SUFFICES ASSUME NEW x \in D!Nodes, x # n PROVE ~ ShortUse(m, x)
        BY <2>4, <2>5 DEF ShortUse
      <4>1. \A i \in 1..l.nst : s[i] # x
        <5>1. \A i \in 1..l.nst : i = 1
          BY <2>1
        <5> QED BY <5>1, <2>2
      <4> QED BY <4>1, <1>3, <2>5 DEF ShortChain, ShortUse
    <3> QED BY <3>1, <2>5 DEF ShortChain
  <2>8. Linked(m, f, FALSE)
    BY <2>5, <2>6, <2>7 DEF Linked, Lists
  <2>9. \A x \in D!Nodes : m.node[x].use # "no" => Same(l, m, x)
    BY <2>4, <2>5 DEF Same
  <2> QED BY <2>3, <2>8, <2>9 DEF r
<1> QED BY <1>4, <1>5

\* An insertion succeeds when there is an unused node, and the buffer is not listed.
LEMMA InsertShortFacts ==
  ASSUME NEW l, NEW f, NEW ord, Linked(l, f, ord), NEW b \in Nat, NEW num \in Int
  PROVE  LET r == D!InsertShort(l, b, num) IN
         IF r.ok
         THEN \E n \in D!Nodes :
                /\ l.node[n].use = "no" /\ r = D!Done(Taken(l, n, b, num), {})
                /\ r.l.node[n].use = "short" /\ r.l.node[n].buf = b /\ r.l.node[n].num = num
                /\ \A x \in D!Nodes : x # n => r.l.node[x] = l.node[x]
                /\ r.l.max = l.max /\ r.l.nst = l.nst + 1 /\ r.l.nlt = l.nlt
                /\ Linked(r.l, f, FALSE)
                /\ \A g : (ord => \A x \in D!Nodes : ShortUse(l, x) => g[x] = f[x] /\ f[x] < g[n])
                          => Linked(r.l, g, ord)
         ELSE /\ r = D!Fail(l)
              /\ InUse(l) = D!Nodes \/ \E x \in InUse(l) : l.node[x].buf = b
<1> DEFINE unused == {n \in D!Nodes : l.node[n].use = "no"}
           n == D!Min(unused)
           r == D!InsertShort(l, b, num)
           m == Taken(l, n, b, num)
<1>1. r = IF unused = {} \/ \E x \in D!Nodes : x < n /\ l.node[x].buf = b
          THEN D!Fail(l) ELSE D!Done(m, {})
  BY DEF D!InsertShort, Taken
<1>2. unused # {} => n \in unused /\ \A x \in unused : n <= x
  <2>1. unused \subseteq Nat
    BY NodesFacts
  <2> HIDE DEF unused
  <2> QED BY <2>1, MinFacts
<1> HIDE DEF n, r
<1>3. CASE unused = {} \/ \E x \in D!Nodes : x < n /\ l.node[x].buf = b
  <2>1. r = D!Fail(l) /\ r.ok = FALSE
    BY <1>1, <1>3 DEF D!Fail
  <2>2. InUse(l) = D!Nodes \/ \E x \in InUse(l) : l.node[x].buf = b
    <3>1. CASE unused = {}
      BY <3>1 DEF InUse
    <3>2. CASE unused # {}
      <4>1. PICK x \in D!Nodes : x < n /\ l.node[x].buf = b
        BY <1>3, <3>2
      <4>2. n \in D!Nodes /\ n \in Nat /\ x \in Nat
        BY <1>2, <3>2, NodesFacts
      <4>3. x \notin unused
        <5>1. ~ (n <= x)
          BY <4>1, <4>2
        <5> HIDE DEF unused
        <5> QED BY <5>1, <1>2, <3>2
      <4> QED BY <4>1, <4>3 DEF InUse
    <3> QED BY <3>1, <3>2
  <2> QED BY <2>1, <2>2 DEF r
<1>4. CASE ~(unused = {} \/ \E x \in D!Nodes : x < n /\ l.node[x].buf = b)
  <2>1. r = D!Done(m, {}) /\ r.l = m /\ r.ok = TRUE
    BY <1>1, <1>4 DEF D!Done
  <2>2. n \in D!Nodes /\ l.node[n].use = "no"
    BY <1>2, <1>4
  <2>3. PICK s, t : Lists(l, s, t) /\ (ord => Falling(l, s, f))
    BY DEF Linked
  <2> DEFINE u == Before(n, s, l.nst)
  <2>4. /\ Lists(m, u, t)
        /\ m.node[n].use = "short" /\ m.node[n].buf = b /\ m.node[n].num = num
        /\ \A x \in D!Nodes : x # n => m.node[x] = l.node[x]
        /\ m.max = l.max /\ m.nst = l.nst + 1 /\ m.nlt = l.nlt
        /\ \A h, g : /\ Falling(l, s, h)
                     /\ \A x \in D!Nodes : ShortUse(l, x) => g[x] = h[x] /\ h[x] < g[n]
                     => Falling(m, u, g)
    <3> HIDE DEF m, u
    <3> QED BY <2>2, <2>3, TakenFacts DEF m, u
  <2> HIDE DEF m, u
  <2>5. ASSUME NEW g, ord => \A x \in D!Nodes : ShortUse(l, x) => g[x] = f[x] /\ f[x] < g[n]
        PROVE  Linked(m, g, ord)
    <3>1. ord => Falling(m, u, g)
      BY <2>3, <2>4, <2>5
    <3> QED BY <3>1, <2>4 DEF Linked
  <2>6. Linked(m, f, FALSE)
    BY <2>4 DEF Linked
  <2>7. r = D!Done(Taken(l, n, b, num), {})
    BY <2>1 DEF m
  <2> QED BY <2>1, <2>2, <2>4, <2>5, <2>6, <2>7 DEF r
<1> QED BY <1>3, <1>4

-----------------------------------------------------------------------------
(* How many nodes there are. *)

\* A set has n elements when a sequence of n lists each of them once.
LEMMA CountIs ==
  ASSUME NEW n \in Nat, NEW Z, NEW s \in [1..n -> Z],
         \A i, j \in 1..n : s[i] = s[j] => i = j,
         \A x \in Z : \E i \in 1..n : s[i] = x
  PROVE  IsFiniteSet(Z) /\ Cardinality(Z) = n
<1>1. DOMAIN s = 1..n
  OBVIOUS
<1>2. s \in Injection(1..n, Z)
  BY <1>1 DEF Injection, IsInjective
<1>3. s \in Surjection(1..n, Z)
  BY DEF Surjection
<1>4. ExistsBijection(1..n, Z)
  BY <1>2, <1>3 DEF Bijection, ExistsBijection
<1>5. IsFiniteSet(Z)
  BY <1>4, FS_NatBijection
<1> QED BY <1>4, <1>5, FS_CountingElements

ShortSet(l) == {x \in D!Nodes : ShortUse(l, x)}
LongSet(l) == {x \in D!Nodes : LongUse(l, x)}

\* The counts count the nodes in use.
LEMMA CountFacts ==
  ASSUME NEW l, NEW f, NEW ord, Linked(l, f, ord)
  PROVE  /\ l \in ListStates /\ l.nst \in Nat /\ l.nlt \in Nat
         /\ IsFiniteSet(ShortSet(l)) /\ Cardinality(ShortSet(l)) = l.nst
         /\ IsFiniteSet(LongSet(l)) /\ Cardinality(LongSet(l)) = l.nlt
         /\ Cardinality(InUse(l)) = l.nst + l.nlt
         /\ l.nst + l.nlt < NumNodes => InUse(l) # D!Nodes
<1>1. PICK s, t : Lists(l, s, t)
  BY DEF Linked
<1>2. /\ l \in ListStates /\ l.nst \in Nat /\ l.nlt \in Nat
      /\ l.node \in [D!Nodes -> NodeStates]
  BY <1>1 DEF Lists, ListStates
<1>3. ShortChain(l, s) /\ LongChain(l, t)
  BY <1>1 DEF Lists
<1>4. IsFiniteSet(ShortSet(l)) /\ Cardinality(ShortSet(l)) = l.nst
  <2>1. s \in [1..l.nst -> ShortSet(l)]
    BY <1>3 DEF ShortChain, ShortSet
  <2>2. \A i, j \in 1..l.nst : s[i] = s[j] => i = j
    BY <1>3 DEF ShortChain
  <2>3. \A x \in ShortSet(l) : \E i \in 1..l.nst : s[i] = x
    BY <1>3 DEF ShortChain, ShortSet
  <2> QED BY <1>2, <2>1, <2>2, <2>3, CountIs
<1>5. IsFiniteSet(LongSet(l)) /\ Cardinality(LongSet(l)) = l.nlt
  <2>1. t \in [1..l.nlt -> LongSet(l)]
    BY <1>3 DEF LongChain, LongSet
  <2>2. \A i, j \in 1..l.nlt : t[i] = t[j] => i = j
    <3>1. \A i \in 1..l.nlt : l.node[t[i]] \in NodeStates
      BY <1>2, <1>3 DEF LongChain
    <3>2. \A i \in 1..l.nlt : l.node[t[i]].lt \in Nat
      BY <3>1 DEF NodeStates
    <3>3. \A i, j \in 1..l.nlt : i < j => l.node[t[i]].lt < l.node[t[j]].lt
      BY <1>3 DEF LongChain
    <3> SUFFICES ASSUME NEW i \in 1..l.nlt, NEW j \in 1..l.nlt, t[i] = t[j], i # j PROVE FALSE
      OBVIOUS
    <3>4. i < j \/ j < i
      OBVIOUS
    <3>5. l.node[t[i]].lt = l.node[t[j]].lt
      OBVIOUS
    <3> QED BY <3>2, <3>3, <3>4, <3>5
  <2>3. \A x \in LongSet(l) : \E i \in 1..l.nlt : t[i] = x
    BY <1>3 DEF LongChain, LongSet
  <2> QED BY <1>2, <2>1, <2>2, <2>3, CountIs
<1>6. Cardinality(InUse(l)) = l.nst + l.nlt
  <2>1. InUse(l) = ShortSet(l) \cup LongSet(l)
    <3>1. \A x \in D!Nodes : l.node[x].use \in {"no", "short", "long"}
      BY <1>2 DEF NodeStates
    <3> QED BY <3>1 DEF InUse, ShortSet, LongSet, ShortUse, LongUse
  <2>2. ShortSet(l) \cap LongSet(l) = {}
    BY DEF ShortSet, LongSet, ShortUse, LongUse
  <2>3. Cardinality({}) = 0
    BY FS_EmptySet
  <2>4. Cardinality(ShortSet(l) \cup LongSet(l))
          = Cardinality(ShortSet(l)) + Cardinality(LongSet(l)) - Cardinality(ShortSet(l) \cap LongSet(l))
    BY <1>4, <1>5, FS_Union
  <2>5. Cardinality(ShortSet(l) \cap LongSet(l)) = 0
    BY <2>2, <2>3
  <2>6. Cardinality(ShortSet(l) \cup LongSet(l)) = l.nst + l.nlt - 0
    BY <1>4, <1>5, <2>4, <2>5
  <2>7. l.nst + l.nlt - 0 = l.nst + l.nlt
    BY <1>2
  <2> QED BY <2>1, <2>6, <2>7
<1>7. Cardinality(D!Nodes) = NumNodes
  <2>1. NumNodes \in Int /\ 1 \in Int /\ ~ (1 > NumNodes) /\ D!Nodes = 1..NumNodes
    BY NodesFacts
  <2>2. Cardinality(1..NumNodes) = NumNodes - 1 + 1
    BY <2>1, FS_Interval
  <2> QED BY <2>1, <2>2
<1>8. l.nst + l.nlt < NumNodes => InUse(l) # D!Nodes
  BY <1>2, <1>6, <1>7, NodesFacts
<1> QED BY <1>2, <1>4, <1>5, <1>6, <1>8

-----------------------------------------------------------------------------
(* The commands of a picture. *)

\* A set that has 0 and, with each number, the next one up to n has n.
LEMMA UpTo ==
  ASSUME NEW n \in Nat, NEW A, 0 \in A, \A i \in 1..n : i - 1 \in A => i \in A
  PROVE  n \in A
<1> DEFINE Bad == {i \in 0..n : i \notin A}
<1>1. SUFFICES ASSUME Bad # {} PROVE FALSE
  BY SMT
<1>2. PICK i \in Bad : \A j \in Bad : i <= j
  <2>1. Bad \subseteq Nat
    OBVIOUS
  <2> HIDE DEF Bad
  <2> QED BY <1>1, <2>1, LeastExists
<1>3. i \in 1..n /\ i \notin A /\ i - 1 \in 0..n /\ ~ (i <= i - 1)
  <2>1. i \in 0..n /\ i \notin A
    OBVIOUS
  <2> QED BY <2>1
<1>4. i - 1 \in A
  BY <1>2, <1>3
<1> QED BY <1>3, <1>4

\* The function that D!Commands defines, up to n.
ListsAfter(a, l, cmds, cur0, b, n) ==
  a = [i \in 0..n |-> IF i = 0 THEN [l |-> l, rel |-> {}, ok |-> TRUE, cur |-> cur0]
                      ELSE D!Obey(a[i - 1], cmds[i], b)]

\* The lists obey one command after the other, through the states a.
ObeysEach(a, l, cmds, cur0, b) ==
  /\ a[0] = [l |-> l, rel |-> {}, ok |-> TRUE, cur |-> cur0]
  /\ \A i \in 1..Len(cmds) : a[i] = D!Obey(a[i - 1], cmds[i], b)
  /\ D!Commands(l, cmds, cur0, b) = a[Len(cmds)]

\* Every sequence of commands is obeyed that way.
LEMMA ListsAfterEach ==
  ASSUME NEW l, NEW cmds, Len(cmds) \in Nat, NEW cur0, NEW b
  PROVE  \E a : ObeysEach(a, l, cmds, cur0, b)
<1> DEFINE N == Len(cmds)
           A == {n \in 0..N : \E a : ListsAfter(a, l, cmds, cur0, b, n)}
           X == CHOOSE a : ListsAfter(a, l, cmds, cur0, b, N)
<1>1. N \in Nat
  OBVIOUS
<1> HIDE DEF N
<1>2. 0 \in A
  <2> DEFINE a == [i \in 0..0 |-> [l |-> l, rel |-> {}, ok |-> TRUE, cur |-> cur0]]
  <2>1. a = [i \in 0..0 |-> IF i = 0 THEN [l |-> l, rel |-> {}, ok |-> TRUE, cur |-> cur0] ELSE D!Obey(a[i - 1], cmds[i], b)]
    OBVIOUS
  <2>2. ListsAfter(a, l, cmds, cur0, b, 0)
    BY <2>1 DEF ListsAfter
  <2> HIDE DEF a
  <2> QED BY <1>1, <2>2
<1>3. ASSUME NEW n \in 1..N, n - 1 \in A PROVE n \in A
  <2>1. PICK h : ListsAfter(h, l, cmds, cur0, b, n - 1)
    BY <1>3
  <2> DEFINE hstep(i) == IF i = 0 THEN [l |-> l, rel |-> {}, ok |-> TRUE, cur |-> cur0] ELSE D!Obey(h[i - 1], cmds[i], b)
  <2>2. \A i \in 0..n-1 : h[i] = hstep(i)
    <3>1. h = [i \in 0..n-1 |-> hstep(i)]
      BY <2>1 DEF ListsAfter
    <3> HIDE DEF hstep
    <3> QED BY <3>1
  <2> DEFINE a == [i \in 0..n |-> IF i = n THEN hstep(n) ELSE h[i]]
             astep(i) == IF i = 0 THEN [l |-> l, rel |-> {}, ok |-> TRUE, cur |-> cur0] ELSE D!Obey(a[i - 1], cmds[i], b)
  <2>3. a[n] = hstep(n) /\ \A i \in 0..n-1 : a[i] = h[i]
    <3> HIDE DEF hstep
    <3> QED BY <1>1, <1>3
  <2>4. a = [i \in 0..n |-> a[i]]
    OBVIOUS
  <2> HIDE DEF a
  <2>5. ASSUME NEW i \in 0..n PROVE a[i] = astep(i)
    <3>1. i # 0 => i - 1 \in 0..n-1
      BY <1>1, <1>3
    <3>2. a[i] = hstep(i)
      <4>1. i = n \/ i \in 0..n-1
        BY <1>1, <1>3
      <4> HIDE DEF hstep
      <4> QED BY <4>1, <2>2, <2>3
    <3>3. i # 0 => a[i - 1] = h[i - 1]
      BY <3>1, <2>3
    <3> QED BY <3>2, <3>3
  <2>6. a = [i \in 0..n |-> astep(i)]
    <3> HIDE DEF astep
    <3> QED BY <2>4, <2>5
  <2>7. ListsAfter(a, l, cmds, cur0, b, n)
    BY <2>6 DEF ListsAfter
  <2> QED BY <2>7, <1>1, <1>3
<1>4. N \in A
  <2> HIDE DEF A
  <2> QED BY <1>1, <1>2, <1>3, UpTo
<1>5. \E a : ListsAfter(a, l, cmds, cur0, b, N)
  BY <1>4
<1>6. ListsAfter(X, l, cmds, cur0, b, N)
  BY <1>5
<1>7. D!Commands(l, cmds, cur0, b) = X[N]
  BY DEF D!Commands, ListsAfter, N
<1> HIDE DEF X
<1> DEFINE xstep(i) == IF i = 0 THEN [l |-> l, rel |-> {}, ok |-> TRUE, cur |-> cur0] ELSE D!Obey(X[i - 1], cmds[i], b)
<1>8. \A i \in 0..N : X[i] = xstep(i)
  <2>1. X = [i \in 0..N |-> xstep(i)]
    BY <1>6 DEF ListsAfter
  <2> HIDE DEF xstep
  <2> QED BY <2>1
<1>9. 0 \in 0..N /\ \A i \in 1..N : i \in 0..N /\ i # 0
  BY <1>1
<1>10. X[0] = [l |-> l, rel |-> {}, ok |-> TRUE, cur |-> cur0] /\ \A i \in 1..N : X[i] = D!Obey(X[i - 1], cmds[i], b)
  BY <1>8, <1>9
<1>11. ObeysEach(X, l, cmds, cur0, b)
  BY <1>7, <1>10 DEF N, ObeysEach
<1> QED BY <1>11

\* The function that S!Commands defines, up to n.
MarkingAfter(a, mk, cmds, cur0, pc, n) ==
  a = [i \in 0..n |-> IF i = 0 THEN mk
                      ELSE S!Apply(a[i - 1], cmds[i], cur0, pc)]

\* And so does the marking of the stream.
MarksEach(a, mk, cmds, cur0, pc) ==
  /\ a[0] = mk
  /\ \A i \in 1..Len(cmds) : a[i] = S!Apply(a[i - 1], cmds[i], cur0, pc)
  /\ S!Commands(mk, cmds, cur0, pc) = a[Len(cmds)]

\* Every sequence of commands changes the marking that way.
LEMMA MarkingAfterEach ==
  ASSUME NEW mk, NEW cmds, Len(cmds) \in Nat, NEW cur0, NEW pc
  PROVE  \E a : MarksEach(a, mk, cmds, cur0, pc)
<1> DEFINE N == Len(cmds)
           A == {n \in 0..N : \E a : MarkingAfter(a, mk, cmds, cur0, pc, n)}
           X == CHOOSE a : MarkingAfter(a, mk, cmds, cur0, pc, N)
<1>1. N \in Nat
  OBVIOUS
<1> HIDE DEF N
<1>2. 0 \in A
  <2> DEFINE a == [i \in 0..0 |-> mk]
  <2>1. a = [i \in 0..0 |-> IF i = 0 THEN mk ELSE S!Apply(a[i - 1], cmds[i], cur0, pc)]
    OBVIOUS
  <2>2. MarkingAfter(a, mk, cmds, cur0, pc, 0)
    BY <2>1 DEF MarkingAfter
  <2> HIDE DEF a
  <2> QED BY <1>1, <2>2
<1>3. ASSUME NEW n \in 1..N, n - 1 \in A PROVE n \in A
  <2>1. PICK h : MarkingAfter(h, mk, cmds, cur0, pc, n - 1)
    BY <1>3
  <2> DEFINE hstep(i) == IF i = 0 THEN mk ELSE S!Apply(h[i - 1], cmds[i], cur0, pc)
  <2>2. \A i \in 0..n-1 : h[i] = hstep(i)
    <3>1. h = [i \in 0..n-1 |-> hstep(i)]
      BY <2>1 DEF MarkingAfter
    <3> HIDE DEF hstep
    <3> QED BY <3>1
  <2> DEFINE a == [i \in 0..n |-> IF i = n THEN hstep(n) ELSE h[i]]
             astep(i) == IF i = 0 THEN mk ELSE S!Apply(a[i - 1], cmds[i], cur0, pc)
  <2>3. a[n] = hstep(n) /\ \A i \in 0..n-1 : a[i] = h[i]
    <3> HIDE DEF hstep
    <3> QED BY <1>1, <1>3
  <2>4. a = [i \in 0..n |-> a[i]]
    OBVIOUS
  <2> HIDE DEF a
  <2>5. ASSUME NEW i \in 0..n PROVE a[i] = astep(i)
    <3>1. i # 0 => i - 1 \in 0..n-1
      BY <1>1, <1>3
    <3>2. a[i] = hstep(i)
      <4>1. i = n \/ i \in 0..n-1
        BY <1>1, <1>3
      <4> HIDE DEF hstep
      <4> QED BY <4>1, <2>2, <2>3
    <3>3. i # 0 => a[i - 1] = h[i - 1]
      BY <3>1, <2>3
    <3> QED BY <3>2, <3>3
  <2>6. a = [i \in 0..n |-> astep(i)]
    <3> HIDE DEF astep
    <3> QED BY <2>4, <2>5
  <2>7. MarkingAfter(a, mk, cmds, cur0, pc, n)
    BY <2>6 DEF MarkingAfter
  <2> QED BY <2>7, <1>1, <1>3
<1>4. N \in A
  <2> HIDE DEF A
  <2> QED BY <1>1, <1>2, <1>3, UpTo
<1>5. \E a : MarkingAfter(a, mk, cmds, cur0, pc, N)
  BY <1>4
<1>6. MarkingAfter(X, mk, cmds, cur0, pc, N)
  BY <1>5
<1>7. S!Commands(mk, cmds, cur0, pc) = X[N]
  BY DEF S!Commands, MarkingAfter, N
<1> HIDE DEF X
<1> DEFINE xstep(i) == IF i = 0 THEN mk ELSE S!Apply(X[i - 1], cmds[i], cur0, pc)
<1>8. \A i \in 0..N : X[i] = xstep(i)
  <2>1. X = [i \in 0..N |-> xstep(i)]
    BY <1>6 DEF MarkingAfter
  <2> HIDE DEF xstep
  <2> QED BY <2>1
<1>9. 0 \in 0..N /\ \A i \in 1..N : i \in 0..N /\ i # 0
  BY <1>1
<1>10. X[0] = mk /\ \A i \in 1..N : X[i] = S!Apply(X[i - 1], cmds[i], cur0, pc)
  BY <1>8, <1>9
<1>11. MarksEach(X, mk, cmds, cur0, pc)
  BY <1>7, <1>10 DEF N, MarksEach
<1> QED BY <1>11

-----------------------------------------------------------------------------
(* Any stream: the operations keep lists that can be walked. *)

Chained(l) == \E s, t : Lists(l, s, t)

\* The pictures of m are those of l and b.
Comes(l, m, b) ==
  \A x \in D!Nodes : m.node[x].use # "no" =>
     \/ l.node[x].use # "no" /\ m.node[x].buf = l.node[x].buf
     \/ m.node[x].buf = b

\* Lists in some order are chained.
LEMMA ChainedLinked ==
  ASSUME NEW l, NEW f
  PROVE  /\ Chained(l) <=> Linked(l, f, FALSE)
         /\ \A ord : Linked(l, f, ord) => Chained(l)
BY DEF Chained, Linked

\* One step after the other.
LEMMA ComesTwice ==
  ASSUME NEW l, NEW m, NEW n, NEW b, Comes(l, m, b), Comes(m, n, b)
  PROVE  Comes(l, n, b)
BY DEF Comes

\* ih264d_insert_st_node adds only its own picture.
LEMMA InsertComes ==
  ASSUME NEW l, Chained(l), NEW b \in Nat, NEW num \in Int
  PROVE  Chained(D!InsertShort(l, b, num).l) /\ Comes(l, D!InsertShort(l, b, num).l, b)
<1> DEFINE r == D!InsertShort(l, b, num)
<1>1. Linked(l, 0, FALSE)
  BY ChainedLinked
<1>2. IF r.ok
      THEN \E n \in D!Nodes :
                /\ r.l.node[n].buf = b
                /\ \A x \in D!Nodes : x # n => r.l.node[x] = l.node[x]
                /\ Linked(r.l, 0, FALSE)
      ELSE r = D!Fail(l)
  <2>1. IF r.ok
        THEN \E n \in D!Nodes :
                /\ l.node[n].use = "no" /\ r = D!Done(Taken(l, n, b, num), {})
                /\ r.l.node[n].use = "short" /\ r.l.node[n].buf = b /\ r.l.node[n].num = num
                /\ \A x \in D!Nodes : x # n => r.l.node[x] = l.node[x]
                /\ r.l.max = l.max /\ r.l.nst = l.nst + 1 /\ r.l.nlt = l.nlt
                /\ Linked(r.l, 0, FALSE)
                /\ \A g : (FALSE => \A x \in D!Nodes : ShortUse(l, x) => g[x] = 0[x] /\ 0[x] < g[n])
                          => Linked(r.l, g, FALSE)
        ELSE /\ r = D!Fail(l)
             /\ InUse(l) = D!Nodes \/ \E x \in InUse(l) : l.node[x].buf = b
    BY <1>1, InsertShortFacts
  <2> HIDE DEF r
  <2> QED BY <2>1
<1> HIDE DEF r
<1>3. CASE r.ok
  BY <1>2, <1>3, ChainedLinked DEF Comes, r
<1>4. CASE ~ r.ok
  <2>1. r.l = l
    BY <1>2, <1>4 DEF D!Fail
  <2> QED BY <2>1 DEF Comes, r
<1> QED BY <1>3, <1>4

\* Commands 3 and 6 add no picture.
LEMMA MakeLongComes ==
  ASSUME NEW l, Chained(l), NEW b, NEW num, NEW idx \in Nat
  PROVE  Chained(D!MakeLong(l, num, idx).l) /\ Comes(l, D!MakeLong(l, num, idx).l, b)
<1> DEFINE r == D!MakeLong(l, num, idx)
           Named == \E x \in D!Nodes : ShortUse(l, x) /\ l.node[x].num = num
<1>1. Linked(l, 0, FALSE)
  BY ChainedLinked
<1>2. /\ Linked(r.l, 0, FALSE)
      /\ IF Named
            THEN /\ \A x \in WithIdx(l, idx) : r.l.node[x].use = "no"
                 /\ \E n \in D!Nodes :
                       /\ ShortUse(l, n)
                       /\ r.l.node[n].buf = l.node[n].buf
                       /\ \A x \in D!Nodes : x # n /\ x \notin WithIdx(l, idx) => Same(l, r.l, x)
            ELSE r = D!Fail(l)
  <2>1. /\ Linked(r.l, 0, FALSE) /\ r.l.max = l.max
        /\ IF Named
           THEN /\ r.ok = TRUE /\ r.rel = {l.node[x].buf : x \in WithIdx(l, idx)}
                /\ \A x \in WithIdx(l, idx) : r.l.node[x].use = "no"
                /\ \E n \in D!Nodes :
                      /\ ShortUse(l, n) /\ l.node[n].num = num
                      /\ r.l.node[n].use = "long" /\ r.l.node[n].lt = idx
                      /\ r.l.node[n].buf = l.node[n].buf
                      /\ \A x \in D!Nodes : x # n /\ x \notin WithIdx(l, idx) => Same(l, r.l, x)
           ELSE r = D!Fail(l)
    BY <1>1, MakeLongFacts
  <2> HIDE DEF r, Named
  <2> QED BY <2>1
<1> HIDE DEF r, Named
<1>3. CASE Named
  BY <1>2, <1>3, ChainedLinked DEF Comes, Same, ShortUse, r
<1>4. CASE ~ Named
  <2>1. r.l = l
    BY <1>2, <1>4 DEF D!Fail
  <2> QED BY <2>1 DEF Comes, r
<1> QED BY <1>3, <1>4

\* ih264d_reset_ref_bufs adds no picture.
LEMMA ResetComes ==
  ASSUME NEW l, Chained(l), NEW b
  PROVE  Chained(D!ResetRefs(l).l) /\ Comes(l, D!ResetRefs(l).l, b)
<1> DEFINE r == D!ResetRefs(l)
<1>1. (\A f, ord : Linked(r.l, f, ord)) /\ \A x \in D!Nodes : r.l.node[x].use = "no"
  <2> HIDE DEF r
  <2> QED BY ResetRefsFacts DEF r, Chained, Lists
<1> HIDE DEF r
<1>2. Linked(r.l, 0, FALSE)
  BY <1>1
<1> QED BY <1>1, <1>2, ChainedLinked DEF Comes, r

\* Command 4 adds no picture.
LEMMA SetMaxLongComes ==
  ASSUME NEW l, Chained(l), NEW b, NEW plus1 \in Nat
  PROVE  Chained(D!SetMaxLong(l, plus1).l) /\ Comes(l, D!SetMaxLong(l, plus1).l, b)
<1> DEFINE r == D!SetMaxLong(l, plus1)
<1>1. PICK s, t : Lists(l, s, t)
  BY DEF Chained
<1>2. /\ \E u : Lists(r.l, s, u)
      /\ \A f : Falling(l, s, f) => Falling(r.l, s, f)
      /\ \A x \in D!Nodes : x \notin CutOff(l, plus1) => Same(l, r.l, x)
      /\ \A x \in CutOff(l, plus1) : r.l.node[x].use = "no"
      /\ r.rel = {l.node[x].buf : x \in CutOff(l, plus1)} /\ r.ok = TRUE
      /\ r.l.max = IF plus1 = 0 THEN D!NoLong ELSE plus1 - 1
  BY <1>1, SetMaxLongFacts
<1> HIDE DEF r
<1>3. Chained(r.l) /\ Comes(l, r.l, b)
  BY <1>2 DEF Comes, Same, Chained
<1> QED BY <1>3 DEF r

\* A command adds no picture but, command 6, that of the buffer being decoded.
LEMMA CommandComes ==
  ASSUME NEW l, Chained(l), NEW c \in S!AnyCommand, NEW cur0 \in Int, NEW b \in Nat
  PROVE  Chained(D!Command(l, c, cur0, b).l) /\ Comes(l, D!Command(l, c, cur0, b).l, b)
<1> DEFINE r == D!Command(l, c, cur0, b)
<1>1. c.op \in 1..6 /\ c.num \in Int /\ c.idx \in Nat
  BY DEF S!AnyCommand
<1>2. PICK s, t : Lists(l, s, t)
  BY DEF Chained
<1>3. Linked(l, 0, FALSE)
  BY ChainedLinked
<1>4. SUFFICES ASSUME r.l # l PROVE Chained(r.l) /\ Comes(l, r.l, b)
  BY DEF Comes
<1>5. D!Fail(l).l = l /\ D!Done(l, {}).l = l
  BY DEF D!Fail, D!Done
<1>6. CASE c.op = 1
  <2> DEFINE d == D!DeleteShort(l, c.num)
  <2>1. r = d
    <3> HIDE DEF d
    <3>1. r = IF l.nst > 0 THEN d ELSE D!Done(l, {})
      BY <1>6 DEF D!Command, d
    <3> HIDE DEF r
    <3> QED BY <3>1, <1>4, <1>5
  <2>2. /\ Linked(d.l, 0, FALSE)
        /\ d = D!Fail(l) \/ \E n \in D!Nodes : /\ d.l.node[n].use = "no"
                                              /\ \A x \in D!Nodes : x # n => Same(l, d.l, x)
    <3> HIDE DEF d
    <3> QED BY <1>3, DeleteShortFacts DEF d
  <2> HIDE DEF r, d
  <2>3. d # D!Fail(l)
    BY <2>1, <1>4, <1>5
  <2> QED BY <2>1, <2>2, <2>3, ChainedLinked DEF Comes, Same
<1>7. CASE c.op = 2
  <2> DEFINE d == D!DeleteLong(l, c.idx)
  <2>1. r = d
    <3> HIDE DEF d
    <3>1. r = IF l.nlt > 0 /\ ~D!HasLong(l, c.idx) THEN D!Fail(l) ELSE d
      BY <1>7 DEF D!Command, d
    <3> HIDE DEF r
    <3> QED BY <3>1, <1>4, <1>5
  <2>2. /\ \E u : Lists(d.l, s, u)
        /\ \A x \in D!Nodes : x \notin WithIdx(l, c.idx) => Same(l, d.l, x)
        /\ \A x \in WithIdx(l, c.idx) : d.l.node[x].use = "no"
    <3> HIDE DEF d
    <3> QED BY <1>1, <1>2, DeleteLongFacts DEF d
  <2> HIDE DEF r, d
  <2> QED BY <2>1, <2>2 DEF Comes, Same, Chained
<1>8. CASE c.op = 3
  <2>1. r = D!MakeLong(l, c.num, c.idx)
    <3>1. r = IF ~(l.max # D!NoLong /\ c.idx <= l.max) THEN D!Fail(l)
              ELSE IF l.nst > 0 THEN D!MakeLong(l, c.num, c.idx) ELSE D!Done(l, {})
      BY <1>8 DEF D!Command
    <3> HIDE DEF r
    <3> QED BY <3>1, <1>4, <1>5
  <2> QED BY <2>1, <1>1, MakeLongComes
<1>9. CASE c.op = 4
  <2>1. r = D!SetMaxLong(l, c.idx)
    BY <1>9 DEF D!Command
  <2> QED BY <2>1, <1>1, SetMaxLongComes
<1>10. CASE c.op = 5
  <2>1. r = D!ResetRefs(l)
    BY <1>10 DEF D!Command
  <2> QED BY <2>1, ResetComes
<1>11. CASE c.op = 6
  <2> DEFINE i == D!InsertShort(l, b, cur0)
             d == D!MakeLong(i.l, cur0, c.idx)
  <2>1. r = d
    <3>1. r = IF ~(l.max # D!NoLong /\ c.idx <= l.max) \/ ~i.ok THEN D!Fail(l) ELSE d
      BY <1>11 DEF D!Command
    <3> HIDE DEF r, d, i
    <3> QED BY <3>1, <1>4, <1>5
  <2>2. Chained(i.l) /\ Comes(l, i.l, b)
    BY InsertComes
  <2>3. Chained(d.l) /\ Comes(i.l, d.l, b)
    <3> HIDE DEF i
    <3> QED BY <2>2, <1>1, MakeLongComes
  <2> HIDE DEF r, d, i
  <2> QED BY <2>1, <2>2, <2>3, ComesTwice
<1> HIDE DEF r
<1> QED BY <1>1, <1>6, <1>7, <1>8, <1>9, <1>10, <1>11

\* Neither do several commands.
LEMMA CommandsComes ==
  ASSUME NEW l, Chained(l), NEW cmds \in Seq(S!AnyCommand), NEW cur0 \in Int, NEW b \in Nat
  PROVE  LET r == D!Commands(l, cmds, cur0, b) IN
         Chained(r.l) /\ Comes(l, r.l, b) /\ r.cur \in Int
<1>1. Len(cmds) \in Nat /\ \A i \in 1..Len(cmds) : cmds[i] \in S!AnyCommand
  OBVIOUS
<1>2. PICK a : ObeysEach(a, l, cmds, cur0, b)
  BY <1>1, ListsAfterEach
<1>6. /\ a[0] = [l |-> l, rel |-> {}, ok |-> TRUE, cur |-> cur0]
      /\ \A i \in 1..Len(cmds) : a[i] = D!Obey(a[i - 1], cmds[i], b)
      /\ D!Commands(l, cmds, cur0, b) = a[Len(cmds)]
  BY <1>2 DEF ObeysEach
<1> DEFINE A == {i \in 0..Len(cmds) : Chained(a[i].l) /\ Comes(l, a[i].l, b) /\ a[i].cur \in Int}
<1>3. 0 \in A
  BY <1>1, <1>6 DEF Comes
<1>4. ASSUME NEW i \in 1..Len(cmds), i - 1 \in A PROVE i \in A
  <2>1. Chained(a[i - 1].l) /\ Comes(l, a[i - 1].l, b) /\ a[i - 1].cur \in Int
    BY <1>4
  <2> DEFINE e == a[i - 1]
             c == cmds[i]
             r == D!Command(e.l, c, e.cur, b)
  <2>2. c \in S!AnyCommand /\ a[i] = D!Obey(e, c, b)
    BY <1>1, <1>6
  <2> HIDE DEF e, c
  <2>3. Chained(r.l) /\ Comes(e.l, r.l, b)
    BY <2>1, <2>2, CommandComes DEF e
  <2>4. a[i].l = e.l \/ a[i].l = r.l
    <3> HIDE DEF r
    <3> QED BY <2>2 DEF D!Obey, r
  <2>5. a[i].cur \in Int
    <3> HIDE DEF r
    <3> QED BY <2>1, <2>2 DEF D!Obey, r, e
  <2> HIDE DEF r
  <2>6. Chained(a[i].l) /\ Comes(l, a[i].l, b)
    BY <2>1, <2>3, <2>4, ComesTwice DEF e
  <2>7. i \in 0..Len(cmds)
    BY <1>1
  <2> QED BY <2>5, <2>6, <2>7
<1>5. Len(cmds) \in A
  <2> HIDE DEF A
  <2> QED BY <1>1, <1>3, <1>4, UpTo
<1> QED BY <1>6, <1>5

\* Neither does the window.
LEMMA SlidingComes ==
  ASSUME NEW l, Chained(l), NEW cur0, NEW size, NEW b
  PROVE  LET r == D!SlidingWindow(l, cur0, size) IN
         Chained(r.l) /\ Comes(l, r.l, b)
<1> DEFINE r == D!SlidingWindow(l, cur0, size)
<1>1. SUFFICES ASSUME r.l # l PROVE Chained(r.l) /\ Comes(l, r.l, b)
  BY DEF Comes
<1>2. D!Fail(l).l = l /\ D!Done(l, {}).l = l
  BY DEF D!Fail, D!Done
<1>3. l.nst \in Nat
  BY DEF Chained, Lists, ListStates
<1>4. Linked(l, 0, FALSE)
  BY ChainedLinked
<1>5. /\ l.nst > 0
      /\ r = D!DropRepeated(l) \/ r = D!DropLast(l)
  <2>1. r = CASE l.nst + l.nlt # size -> D!Done(l, {})
              [] l.nst + l.nlt = size /\ l.nst = 0 -> D!Fail(l)
              [] l.nst + l.nlt = size /\ l.nst > 0 ->
                   IF l.nst > 1 /\ D!PrevShort(l, D!ShortAt(l, l.nst)) # D!Nil THEN D!Fail(l)
                   ELSE IF D!Repeated(l, cur0) THEN D!DropRepeated(l)
                   ELSE D!DropLast(l)
    BY DEF D!SlidingWindow
  <2> HIDE DEF r
  <2>2. l.nst + l.nlt = size /\ l.nst # 0
    BY <2>1, <1>1, <1>2
  <2>3. l.nst > 0
    BY <2>2, <1>3
  <2> QED BY <2>1, <2>2, <2>3, <1>1, <1>2
<1>6. CASE r = D!DropRepeated(l)
  <2>1. Linked(r.l, 0, FALSE) /\ \A x \in D!Nodes : r.l.node[x].use # "no" => Same(l, r.l, x)
    <3> HIDE DEF r
    <3> QED BY <1>4, <1>5, <1>6, DropRepeatedFacts
  <2> HIDE DEF r
  <2> QED BY <2>1, ChainedLinked DEF Comes, Same
<1>7. CASE r = D!DropLast(l)
  <2>1. /\ Linked(r.l, 0, FALSE)
        /\ \E n \in D!Nodes : /\ r.l.node[n].use = "no"
                              /\ \A x \in D!Nodes : x # n => Same(l, r.l, x)
    <3> HIDE DEF r
    <3> QED BY <1>4, <1>5, <1>7, DropLastFacts
  <2> HIDE DEF r
  <2> QED BY <2>1, ChainedLinked DEF Comes, Same
<1> QED BY <1>5, <1>6, <1>7

\* ih264d_do_mmco_buffer keeps the lists chained, whatever the commands.
LEMMA MmcoComes ==
  ASSUME NEW l, Chained(l), NEW adaptive, NEW cmds \in Seq(S!AnyCommand), NEW cur0 \in Int,
         NEW b \in Nat, NEW size
  PROVE  LET r == D!DoMmcoBuffer(l, adaptive, cmds, cur0, b, size) IN
         Chained(r.l) /\ Comes(l, r.l, b)
<1> DEFINE s == D!SlidingWindow(l, cur0, size)
           a == IF adaptive THEN D!Commands(l, cmds, cur0, b)
                ELSE [l |-> s.l, rel |-> s.rel, ok |-> s.ok, cur |-> cur0]
           i == D!InsertShort(a.l, b, a.cur)
           r == D!DoMmcoBuffer(l, adaptive, cmds, cur0, b, size)
<1>1. Chained(a.l) /\ Comes(l, a.l, b) /\ a.cur \in Int
  <2>1. CASE adaptive
    <3>1. a = D!Commands(l, cmds, cur0, b)
      BY <2>1
    <3> HIDE DEF a
    <3> QED BY <3>1, CommandsComes
  <2>2. CASE ~ adaptive
    <3>1. a.l = s.l /\ a.cur = cur0
      BY <2>2
    <3> HIDE DEF a
    <3> QED BY <3>1, SlidingComes
  <2> QED BY <2>1, <2>2
<1>2. r.l = a.l \/ r.l = i.l
  <2> HIDE DEF i, a
  <2>1. r = IF a.ok /\ ~(\E j \in DOMAIN cmds : cmds[j].op = 6) THEN [i EXCEPT !.rel = a.rel]
            ELSE [l |-> a.l, rel |-> a.rel, ok |-> a.ok]
    BY DEF D!DoMmcoBuffer, D!ListCurrent, i, a
  <2>2. DOMAIN i = {"l", "rel", "ok"}
    BY DEF i, D!InsertShort, D!Fail, D!Done
  <2>3. [i EXCEPT !.rel = a.rel].l = i.l
    BY <2>2
  <2> HIDE DEF r
  <2> QED BY <2>1, <2>3
<1> HIDE DEF a
<1>3. Chained(i.l) /\ Comes(a.l, i.l, b)
  BY <1>1, InsertComes
<1> HIDE DEF r, i
<1> QED BY <1>1, <1>2, <1>3, ComesTwice DEF r

-----------------------------------------------------------------------------
(* The marking of the stream. *)

IsMarking(m) ==
  /\ m = [short |-> m.short, long |-> m.long, max |-> m.max]
  /\ m.short \subseteq [pic : Int, fn : 0..MaxFrameNum-1] /\ IsFiniteSet(m.short)
  /\ \A e, f \in m.short : e.fn = f.fn => e = f
  /\ m.max \in -1..MaxIdx /\ DOMAIN m.long \subseteq 0..m.max

FrameNums == 0..MaxFrameNum-1

\* Frame numbers are the remainders by MaxFrameNum.
LEMMA NumFacts ==
  /\ MaxFrameNum \in Nat /\ MaxFrameNum > 0 /\ FrameNums \subseteq Nat /\ 0 \in FrameNums
  /\ \A n \in Nat : n % MaxFrameNum \in FrameNums
BY DecPicturesAssumption DEF FrameNums

\* Different frame numbers stay different when they wrap.
LEMMA WrapFacts ==
  ASSUME NEW f \in FrameNums, NEW g \in FrameNums, NEW cur0 \in FrameNums
  PROVE  /\ S!Wrap(f, cur0) \in Int
         /\ S!Wrap(f, cur0) = S!Wrap(g, cur0) => f = g
         /\ S!Wrap(f, cur0) <= cur0
         /\ f # cur0 => S!Wrap(f, cur0) < cur0
BY NumFacts DEF S!Wrap, FrameNums

\* The size of a marking, where the module CodedStream counts.
LEMMA SizeIs ==
  ASSUME NEW m
  PROVE  S!Size(m) = Cardinality(m.short) + Cardinality(DOMAIN m.long)
<1>1. \A X : S!Cardinality(X) = Cardinality(X)
  BY DEF S!Cardinality, Cardinality
<1> QED BY <1>1 DEF S!Size

\* The marking of a stream that has sent nothing is one.
LEMMA NothingMarks == IsMarking(S!Nothing) /\ S!Size(S!Nothing) = 0
<1>1. S!Nothing.short = {} /\ S!Nothing.long = <<>> /\ S!Nothing.max = -1
  BY DEF S!Nothing
<1>2. DOMAIN S!Nothing.long = {}
  BY <1>1
<1>3. IsFiniteSet({}) /\ Cardinality({}) = 0
  BY FS_EmptySet
<1>4. -1 \in -1..MaxIdx
  BY NodesFacts
<1>5. S!Nothing = [short |-> S!Nothing.short, long |-> S!Nothing.long, max |-> S!Nothing.max]
  BY DEF S!Nothing
<1>6. S!Size(S!Nothing) = 0
  <2>1. S!Size(S!Nothing) = Cardinality(S!Nothing.short) + Cardinality(DOMAIN S!Nothing.long)
    BY SizeIs
  <2>2. Cardinality(S!Nothing.short) = 0 /\ Cardinality(DOMAIN S!Nothing.long) = 0
    BY <1>1, <1>2, <1>3
  <2> QED BY <2>1, <2>2
<1>7. {} \subseteq 0..-1
  OBVIOUS
<1> QED BY <1>1, <1>2, <1>3, <1>4, <1>5, <1>6, <1>7 DEF IsMarking

\* What is left of a marking, or has one long-term picture more, is one.
LEMMA LessMarks ==
  ASSUME NEW m, IsMarking(m), NEW s, s \subseteq m.short, NEW f, NEW x \in -1..MaxIdx,
         DOMAIN f \subseteq 0..x
  PROVE  IsMarking([short |-> s, long |-> f, max |-> x])
BY FS_Subset DEF IsMarking

\* A function changed or extended at i.
LEMMA WithFacts ==
  ASSUME NEW f, NEW i, NEW v
  PROVE  /\ DOMAIN S!With(f, i, v) = DOMAIN f \cup {i}
         /\ S!With(f, i, v)[i] = v
         /\ \A j \in DOMAIN f : j # i => S!With(f, i, v)[j] = f[j]
BY DEF S!With

\* A function without the arguments in X.
LEMMA WithoutFacts ==
  ASSUME NEW f, NEW X
  PROVE  /\ DOMAIN S!Without(f, X) = DOMAIN f \ X
         /\ \A j \in DOMAIN f \ X : S!Without(f, X)[j] = f[j]
BY DEF S!Without

\* What the next command can be.
LEMMA NextFacts ==
  ASSUME NEW m, IsMarking(m), NEW cur0 \in FrameNums, NEW c \in S!NextCommands(m, cur0)
  PROVE  /\ c \in S!AnyCommand
         /\ c.op \in {1, 3} => \E e \in m.short : c.num = S!Wrap(e.fn, cur0)
         /\ c.op = 2 => c.idx \in DOMAIN m.long
         /\ c.op \in {3, 6} => c.idx \in 0..m.max
         /\ c.op = 4 => c.idx \in 0..MaxIdx + 1
<1> DEFINE nums == {S!Wrap(e.fn, cur0) : e \in m.short}
<1>1. /\ nums \subseteq Int /\ DOMAIN m.long \subseteq Nat /\ 0..m.max \subseteq Nat
      /\ 0..MaxIdx + 1 \subseteq Nat
  <2>1. \A e \in m.short : e.fn \in FrameNums
    BY DEF IsMarking, FrameNums
  <2>2. \A e \in m.short : S!Wrap(e.fn, cur0) \in Int
    BY <2>1, WrapFacts
  <2> QED BY <2>2, NodesFacts DEF IsMarking
<1>2. \/ c \in [op : {1}, num : nums, idx : {0}]
      \/ c \in [op : {2}, num : {0}, idx : DOMAIN m.long]
      \/ c \in [op : {3}, num : nums, idx : 0..m.max]
      \/ c \in [op : {4}, num : {0}, idx : 0..MaxIdx + 1]
      \/ c \in [op : {5}, num : {0}, idx : {0}]
      \/ c \in [op : {6}, num : {0}, idx : 0..m.max]
  BY DEF S!NextCommands
<1>3. \A n \in nums : \E e \in m.short : n = S!Wrap(e.fn, cur0)
  OBVIOUS
<1> HIDE DEF nums
<1>4. c \in S!AnyCommand
  <2>1. /\ {1} \subseteq 1..6 /\ {2} \subseteq 1..6 /\ {3} \subseteq 1..6 /\ {4} \subseteq 1..6
        /\ {5} \subseteq 1..6 /\ {6} \subseteq 1..6 /\ {0} \subseteq Int /\ {0} \subseteq Nat
    OBVIOUS
  <2> QED BY <1>1, <1>2, <2>1, Zenon DEF S!AnyCommand
<1> QED BY <1>2, <1>3, <1>4

\* A command leads from a marking to a marking.
LEMMA ApplyMarks ==
  ASSUME NEW m, IsMarking(m), NEW cur0 \in FrameNums, NEW c \in S!NextCommands(m, cur0), NEW pc
  PROVE  /\ IsMarking(S!Apply(m, c, cur0, pc)) /\ S!Apply(m, c, cur0, pc).short \subseteq m.short
         /\ c.op = 5 => S!Apply(m, c, cur0, pc) = S!Nothing
<1> DEFINE r == S!Apply(m, c, cur0, pc)
           Mk == [short |-> m.short, long |-> m.long, max |-> m.max]
<1>1. m = Mk /\ m.max \in -1..MaxIdx /\ DOMAIN m.long \subseteq 0..m.max
  BY DEF IsMarking
<1>2. /\ c.op \in 1..6 /\ c.idx \in Nat
      /\ c.op = 2 => c.idx \in DOMAIN m.long
      /\ c.op \in {3, 6} => c.idx \in 0..m.max
      /\ c.op = 4 => c.idx \in 0..MaxIdx + 1
  BY NextFacts DEF S!AnyCommand
<1> DEFINE Is(s, f, x) == r = [short |-> s, long |-> f, max |-> x]
<1>3. SUFFICES ASSUME c.op # 5
      PROVE  \E s, f, x : Is(s, f, x) /\ s \subseteq m.short /\ x \in -1..MaxIdx /\ DOMAIN f \subseteq 0..x
  <2>1. CASE c.op = 5
    <3>1. r = S!Nothing
      BY <2>1 DEF S!Apply
    <3>2. S!Nothing.short = {}
      BY DEF S!Nothing
    <3> HIDE DEF r
    <3>3. IsMarking(r) /\ r.short \subseteq m.short
      BY <3>1, <3>2, NothingMarks
    <3> QED BY <3>1, <3>3 DEF r
  <2>2. CASE c.op # 5
    <3>1. PICK s, f, x : Is(s, f, x) /\ s \subseteq m.short /\ x \in -1..MaxIdx /\ DOMAIN f \subseteq 0..x
      BY <2>2
    <3> HIDE DEF r
    <3>2. IsMarking(r)
      BY <3>1, LessMarks
    <3>3. r.short \subseteq m.short
      BY <3>1
    <3> QED BY <2>2, <3>2, <3>3 DEF r
  <2> QED BY <2>1, <2>2
<1>4. CASE c.op = 1
  <2> DEFINE s == {e \in m.short : S!Wrap(e.fn, cur0) # c.num}
  <2>1. r = [m EXCEPT !.short = s]
    BY <1>4 DEF S!Apply
  <2>2. s \subseteq m.short
    OBVIOUS
  <2> HIDE DEF s, r
  <2>3. Is(s, m.long, m.max)
    BY <2>1, <1>1
  <2> QED BY <2>2, <2>3, <1>1
<1>5. CASE c.op = 2
  <2> DEFINE f == S!Without(m.long, {c.idx})
  <2>1. r = [m EXCEPT !.long = f]
    BY <1>5 DEF S!Apply
  <2>4. DOMAIN f = DOMAIN m.long \ {c.idx}
    BY WithoutFacts
  <2>2. DOMAIN f \subseteq 0..m.max
    <3> HIDE DEF f
    <3> QED BY <1>1, <2>4
  <2> HIDE DEF f, r
  <2>3. Is(m.short, f, m.max)
    BY <2>1, <1>1
  <2> QED BY <2>2, <2>3, <1>1
<1>6. CASE c.op = 3
  <2> DEFINE e == CHOOSE e \in m.short : S!Wrap(e.fn, cur0) = c.num
             s == m.short \ {e}
             f == S!With(m.long, c.idx, e.pic)
  <2>1. r = [m EXCEPT !.short = s, !.long = f]
    BY <1>6 DEF S!Apply
  <2>5. DOMAIN f = DOMAIN m.long \cup {c.idx}
    BY DEF S!With
  <2>2. DOMAIN f \subseteq 0..m.max
    <3> HIDE DEF f
    <3> QED BY <1>1, <1>2, <1>6, <2>5
  <2>4. s \subseteq m.short
    OBVIOUS
  <2> HIDE DEF s, f, r
  <2>3. Is(s, f, m.max)
    BY <2>1, <1>1
  <2> QED BY <2>2, <2>3, <2>4, <1>1
<1>7. CASE c.op = 4
  <2> DEFINE X == {i \in DOMAIN m.long : i >= c.idx}
             f == S!Without(m.long, X)
             x == c.idx - 1
  <2>1. r = [m EXCEPT !.long = f, !.max = x]
    BY <1>7 DEF S!Apply
  <2>2. DOMAIN f \subseteq 0..x
    <3>1. DOMAIN f = DOMAIN m.long \ X
      BY WithoutFacts
    <3> HIDE DEF f
    <3> QED BY <3>1, <1>1, <1>2
  <2>4. x \in -1..MaxIdx
    BY <1>2, <1>7, NodesFacts
  <2> HIDE DEF X, f, r, x
  <2>3. Is(m.short, f, x)
    BY <2>1, <1>1
  <2> QED BY <2>2, <2>3, <2>4, <1>1
<1>8. CASE c.op = 6
  <2> DEFINE f == S!With(m.long, c.idx, pc)
  <2>1. r = [m EXCEPT !.long = f]
    BY <1>8 DEF S!Apply
  <2>5. DOMAIN f = DOMAIN m.long \cup {c.idx}
    BY DEF S!With
  <2>2. DOMAIN f \subseteq 0..m.max
    <3> HIDE DEF f
    <3> QED BY <1>1, <1>2, <1>8, <2>5
  <2> HIDE DEF f, r
  <2>3. Is(m.short, f, m.max)
    BY <2>1, <1>1
  <2> QED BY <2>2, <2>3, <1>1
<1>9. c.op \in {1, 2, 3, 4, 6}
  BY <1>2, <1>3
<1> HIDE DEF r, Is
<1> QED BY <1>4, <1>5, <1>6, <1>7, <1>8, <1>9

\* The pictures that slide out, the marking of a picture, and an IDR picture's.
LEMMA SlideMarks ==
  ASSUME NEW m, IsMarking(m), NEW cur0, NEW size
  PROVE  IsMarking(S!Slide(m, cur0, size)) /\ S!Slide(m, cur0, size).short \subseteq m.short
<1> DEFINE low == S!Min({S!Wrap(e.fn, cur0) : e \in m.short})
           s == {e \in m.short : S!Wrap(e.fn, cur0) # low}
           r == S!Slide(m, cur0, size)
<1>1. r = m \/ r = [m EXCEPT !.short = s]
  <2>1. r = IF S!Size(m) < size \/ m.short = {} THEN m ELSE [m EXCEPT !.short = s]
    BY DEF S!Slide
  <2> HIDE DEF r, s
  <2> QED BY <2>1
<1>2. s \subseteq m.short
  OBVIOUS
<1>3. /\ m = [short |-> m.short, long |-> m.long, max |-> m.max]
      /\ m.max \in -1..MaxIdx /\ DOMAIN m.long \subseteq 0..m.max
  BY DEF IsMarking
<1> HIDE DEF s
<1>4. [m EXCEPT !.short = s] = [short |-> s, long |-> m.long, max |-> m.max]
  BY <1>3
<1>5. IsMarking([short |-> s, long |-> m.long, max |-> m.max])
  BY <1>2, <1>3, LessMarks
<1> HIDE DEF r
<1>6. CASE r = m
  BY <1>6 DEF r
<1>7. CASE r = [m EXCEPT !.short = s]
  <2>1. IsMarking(r)
    BY <1>4, <1>5, <1>7
  <2>2. r.short = s
    BY <1>4, <1>7
  <2> QED BY <2>1, <2>2, <1>2 DEF r
<1> QED BY <1>1, <1>6, <1>7

\* A marking stays one when a picture with a new frame number is added.
LEMMA AddMarks ==
  ASSUME NEW m, IsMarking(m), NEW pc \in Int, NEW fn \in FrameNums, fn \notin {e.fn : e \in m.short}
  PROVE  IsMarking([m EXCEPT !.short = @ \cup {[pic |-> pc, fn |-> fn]}])
<1> DEFINE e == [pic |-> pc, fn |-> fn]
           s == m.short \cup {e}
<1>1. /\ m = [short |-> m.short, long |-> m.long, max |-> m.max]
      /\ m.max \in -1..MaxIdx /\ DOMAIN m.long \subseteq 0..m.max
      /\ m.short \subseteq [pic : Int, fn : 0..MaxFrameNum-1] /\ IsFiniteSet(m.short)
      /\ \A f, g \in m.short : f.fn = g.fn => f = g
  BY DEF IsMarking
<1>2. e \in [pic : Int, fn : 0..MaxFrameNum-1] /\ e.fn = fn
  BY DEF FrameNums
<1> HIDE DEF e
<1>3. IsFiniteSet(s)
  BY <1>1, FS_AddElement
<1>4. s \subseteq [pic : Int, fn : 0..MaxFrameNum-1]
  BY <1>1, <1>2
<1>5. \A f, g \in s : f.fn = g.fn => f = g
  BY <1>1, <1>2
<1> HIDE DEF s
<1>6. [m EXCEPT !.short = s] = [short |-> s, long |-> m.long, max |-> m.max]
  BY <1>1
<1>7. IsMarking([short |-> s, long |-> m.long, max |-> m.max])
  BY <1>1, <1>3, <1>4, <1>5 DEF IsMarking
<1> QED BY <1>6, <1>7 DEF s, e

\* An IDR picture leaves a marking.
LEMMA MarkIdrMarks ==
  ASSUME NEW pc \in Int, NEW isLong
  PROVE  IsMarking(S!MarkIdr(pc, isLong)) /\ S!Size(S!MarkIdr(pc, isLong)) = 1
<1> DEFINE r == S!MarkIdr(pc, isLong)
           f == S!With(<<>>, 0, pc)
           e == [pic |-> pc, fn |-> 0]
<1>1. DOMAIN f = {0}
  BY DEF S!With
<1>2. IsFiniteSet({}) /\ Cardinality({}) = 0 /\ \A x : Cardinality({x}) = 1
  BY FS_EmptySet, FS_Singleton
<1>3. CASE isLong
  <2>1. r = [short |-> {}, long |-> f, max |-> 0]
    BY <1>3 DEF S!MarkIdr
  <2> HIDE DEF r, f
  <2>2. r.short = {} /\ r.long = f /\ r.max = 0
    BY <2>1
  <2>3. IsMarking(r)
    BY <2>1, <2>2, <1>1, <1>2, NodesFacts DEF IsMarking
  <2>4. S!Size(r) = 1
    <3>1. S!Size(r) = Cardinality(r.short) + Cardinality(DOMAIN r.long)
      BY SizeIs
    <3>2. Cardinality(r.short) = 0 /\ Cardinality(DOMAIN r.long) = 1
      BY <2>2, <1>1, <1>2
    <3> QED BY <3>1, <3>2
  <2> QED BY <2>3, <2>4 DEF r
<1>4. CASE ~ isLong
  <2>1. r = [S!Nothing EXCEPT !.short = {e}]
    BY <1>4 DEF S!MarkIdr
  <2>2. S!Nothing = [short |-> {}, long |-> <<>>, max |-> -1]
    BY DEF S!Nothing
  <2>3. r = [short |-> {e}, long |-> <<>>, max |-> -1]
    <3> HIDE DEF r, e
    <3> QED BY <2>1, <2>2
  <2>4. [S!Nothing EXCEPT !.short = @ \cup {[pic |-> pc, fn |-> 0]}] = r
    <3>1. S!Nothing.short \cup {e} = {e}
      BY <2>2
    <3>2. [S!Nothing EXCEPT !.short = @ \cup {e}] = [S!Nothing EXCEPT !.short = {e}]
      <4> HIDE DEF e
      <4> QED BY <3>1
    <3> QED BY <2>1, <3>2
  <2>5. 0 \notin {x.fn : x \in S!Nothing.short}
    <3>1. S!Nothing.short = {}
      BY DEF S!Nothing
    <3> QED BY <3>1
  <2>6. IsMarking([S!Nothing EXCEPT !.short = @ \cup {[pic |-> pc, fn |-> 0]}])
    BY <2>5, NothingMarks, NumFacts, AddMarks
  <2>7. r.short = {e} /\ r.long = <<>>
    <3> HIDE DEF r, e
    <3> QED BY <2>3
  <2>8. S!Size(r) = 1
    <3>1. S!Size(r) = Cardinality(r.short) + Cardinality(DOMAIN r.long)
      BY SizeIs
    <3>2. DOMAIN r.long = {}
      BY <2>7
    <3>3. Cardinality(r.short) = 1 /\ Cardinality(DOMAIN r.long) = 0
      BY <2>7, <1>2, <3>2
    <3> QED BY <3>1, <3>3
  <2>9. IsMarking(r)
    <3> HIDE DEF r
    <3> QED BY <2>4, <2>6
  <2> QED BY <2>8, <2>9
<1> QED BY <1>3, <1>4

-----------------------------------------------------------------------------
(* The lists of commands. *)

\* The lists of commands a stream may send: each is allowed after those before
\* it, 5 is alone and 6 is the last.
Legal(q, m, cur0) ==
  /\ q \in Seq(S!AnyCommand)
  /\ \A i \in 1..Len(q) : /\ q[i].op = 5 => Len(q) = 1
                          /\ q[i].op = 6 => i = Len(q)
  /\ \A pc : \E g : /\ MarksEach(g, m, q, cur0, pc)
                    /\ \A i \in 0..Len(q) : IsMarking(g[i]) /\ g[i].short \subseteq m.short
                    /\ \A i \in 1..Len(q) : q[i] \in S!NextCommands(g[i - 1], cur0)

\* No command is legal.
LEMMA LegalNone ==
  ASSUME NEW m, IsMarking(m), NEW cur0
  PROVE  Legal(<<>>, m, cur0)
<1>1. Len(<<>>) = 0 /\ <<>> \in Seq(S!AnyCommand) /\ 1..0 = {} /\ 0..0 = {0}
  OBVIOUS
<1>2. ASSUME NEW pc
      PROVE  \E g : /\ MarksEach(g, m, <<>>, cur0, pc)
                    /\ \A i \in 0..Len(<<>>) : IsMarking(g[i]) /\ g[i].short \subseteq m.short
                    /\ \A i \in 1..Len(<<>>) : <<>>[i] \in S!NextCommands(g[i - 1], cur0)
  <2>1. PICK g : MarksEach(g, m, <<>>, cur0, pc)
    BY <1>1, MarkingAfterEach
  <2>2. g[0] = m
    BY <2>1 DEF MarksEach
  <2>3. \A i \in 0..Len(<<>>) : i = 0
    BY <1>1
  <2>4. \A i \in 0..Len(<<>>) : IsMarking(g[i]) /\ g[i].short \subseteq m.short
    BY <2>2, <2>3
  <2>5. \A i \in 1..Len(<<>>) : FALSE
    BY <1>1
  <2> QED BY <2>1, <2>4, <2>5
<1>3. \A i \in 1..Len(<<>>) : FALSE
  BY <1>1
<1> QED BY <1>1, <1>2, <1>3 DEF Legal

\* Lists of commands that begin with the same commands lead through the same
\* markings, for every picture as long as none makes the picture long-term.
SameStart(q, r, n, p1, p2) ==
  /\ q \in Seq(S!AnyCommand) /\ r \in Seq(S!AnyCommand)
  /\ n \in Nat /\ n <= Len(q) /\ n <= Len(r)
  /\ \A i \in 1..n : r[i] = q[i] /\ (q[i].op # 6 \/ p1 = p2)

\* The markings are the same as long as the commands are.
LEMMA SameMarks ==
  ASSUME NEW m, NEW q, NEW r, NEW cur0, NEW p1, NEW p2, NEW g, NEW h,
         MarksEach(g, m, q, cur0, p1), MarksEach(h, m, r, cur0, p2),
         NEW n, SameStart(q, r, n, p1, p2)
  PROVE  \A i \in 0..n : h[i] = g[i]
<1> DEFINE A == {i \in 0..n : h[i] = g[i]}
<1>5. /\ q \in Seq(S!AnyCommand) /\ r \in Seq(S!AnyCommand)
      /\ n \in Nat /\ n <= Len(q) /\ n <= Len(r)
      /\ \A i \in 1..n : r[i] = q[i] /\ (q[i].op # 6 \/ p1 = p2)
  BY DEF SameStart
<1>1. n \in Nat /\ \A i \in 1..n : i \in 1..Len(q) /\ i \in 1..Len(r) /\ i \in 0..n
  BY <1>5
<1>2. 0 \in A
  BY <1>1 DEF MarksEach
<1>3. ASSUME NEW k \in Nat, k <= n PROVE k \in A
  <2>1. ASSUME NEW i \in 1..k, i - 1 \in A PROVE i \in A
    <3>1. i \in 1..n /\ i \in 1..Len(q) /\ i \in 1..Len(r) /\ i \in 0..n
      BY <1>1, <1>3
    <3>2. g[i] = S!Apply(g[i - 1], q[i], cur0, p1) /\ h[i] = S!Apply(h[i - 1], r[i], cur0, p2)
      BY <3>1 DEF MarksEach
    <3>3. h[i - 1] = g[i - 1]
      BY <2>1
    <3>6. q[i] \in S!AnyCommand
      BY <1>5, <3>1
    <3>4. q[i].op \in 1..6
      BY <3>6 DEF S!AnyCommand
    <3>5. \A x : S!Apply(x, q[i], cur0, p1) = S!Apply(x, q[i], cur0, p2)
      <4>1. CASE p1 = p2
        BY <4>1
      <4>2. CASE q[i].op # 6
        BY <4>2, <3>4 DEF S!Apply
      <4> QED BY <1>5, <3>1, <4>1, <4>2
    <3> QED BY <1>5, <3>1, <3>2, <3>3, <3>5
  <2> HIDE DEF A
  <2> QED BY <2>1, <1>2, UpTo
<1>4. \A k \in 0..n : k \in Nat /\ k <= n
  BY <1>5
<1> QED BY <1>3, <1>4

\* A legal list with one more command that is allowed.
LEMMA LegalAppend ==
  ASSUME NEW m, IsMarking(m), NEW cur0 \in FrameNums, NEW q, Legal(q, m, cur0), NEW pc,
         NEW c \in S!NextCommands(S!Commands(m, q, cur0, pc), cur0),
         ~ S!MarksLong(q), c.op = 5 => q = <<>>, S!Resets(q) => c.op \notin {1, 3, 4}
  PROVE  Legal(Append(q, c), m, cur0)
<1> DEFINE n == Len(q)
           r == Append(q, c)
<1>1. /\ q \in Seq(S!AnyCommand) /\ n \in Nat
      /\ \A i \in 1..n : /\ q[i].op = 5 => n = 1
                         /\ q[i].op # 6
  BY DEF Legal, S!MarksLong
<1>2. PICK g : /\ MarksEach(g, m, q, cur0, pc)
               /\ \A i \in 0..n : IsMarking(g[i]) /\ g[i].short \subseteq m.short
               /\ \A i \in 1..n : q[i] \in S!NextCommands(g[i - 1], cur0)
  BY DEF Legal
<1>3. c \in S!NextCommands(g[n], cur0) /\ IsMarking(g[n]) /\ g[n].short \subseteq m.short
  BY <1>1, <1>2 DEF MarksEach
<1>4. c \in S!AnyCommand
  BY <1>3, NextFacts
<1>5. /\ r \in Seq(S!AnyCommand) /\ Len(r) = n + 1 /\ r[n + 1] = c
      /\ \A i \in 1..n : r[i] = q[i]
  BY <1>1, <1>4
<1>6. \A i \in 1..n : q[i].op # 5
  <2> SUFFICES ASSUME NEW i \in 1..n, q[i].op = 5 PROVE FALSE
    OBVIOUS
  <2>1. n = 1 /\ i = 1
    BY <1>1
  <2>2. q[1].op = 5 /\ 1 \in 1..n /\ 0 \in 0..n /\ 1 \in 1..Len(q)
    BY <2>1
  <2>3. g[1] = S!Apply(g[1 - 1], q[1], cur0, pc) /\ IsMarking(g[1 - 1])
        /\ q[1] \in S!NextCommands(g[1 - 1], cur0)
    BY <1>2, <2>2 DEF MarksEach
  <2>4. g[n] = S!Nothing
    BY <2>1, <2>2, <2>3, ApplyMarks
  <2>5. S!Resets(q)
    BY <2>2, <1>1 DEF S!Resets
  <2>6. c.op \in {2, 6}
    <3>1. q # <<>>
      BY <2>1
    <3>2. c.op \in 1..6
      BY <1>4 DEF S!AnyCommand
    <3> QED BY <2>5, <3>1, <3>2
  <2>7. c.op = 2 => c.idx \in DOMAIN S!Nothing.long
    BY <1>3, <2>4, NextFacts
  <2>8. c.op \in {3, 6} => c.idx \in 0..S!Nothing.max
    BY <1>3, <2>4, NextFacts
  <2>9. S!Nothing.long = <<>> /\ S!Nothing.max = -1
    BY DEF S!Nothing
  <2>10. DOMAIN S!Nothing.long = {} /\ 0..S!Nothing.max = {}
    BY <2>9
  <2> QED BY <2>6, <2>7, <2>8, <2>10
<1> HIDE DEF r
<1>7. \A i \in 1..Len(r) : i = n + 1 \/ i \in 1..n
  BY <1>1, <1>5
<1>8. \A i \in 1..Len(r) : /\ r[i].op = 5 => Len(r) = 1
                           /\ r[i].op = 6 => i = Len(r)
  <2>1. q = <<>> => n = 0
    OBVIOUS
  <2> HIDE DEF n
  <2> QED BY <1>1, <1>5, <1>6, <1>7, <2>1
<1>9. ASSUME NEW p2
      PROVE  \E h : /\ MarksEach(h, m, r, cur0, p2)
                    /\ \A i \in 0..Len(r) : IsMarking(h[i]) /\ h[i].short \subseteq m.short
                    /\ \A i \in 1..Len(r) : r[i] \in S!NextCommands(h[i - 1], cur0)
  <2>1. PICK h : MarksEach(h, m, r, cur0, p2)
    <3>1. Len(r) \in Nat
      BY <1>1, <1>5
    <3> QED BY <3>1, MarkingAfterEach
  <2>2. \A i \in 0..n : h[i] = g[i]
    <3>1. SameStart(q, r, n, pc, p2)
      BY <1>1, <1>5 DEF SameStart
    <3>2. MarksEach(g, m, q, cur0, pc)
      BY <1>2
    <3> HIDE DEF n
    <3> QED BY <2>1, <3>1, <3>2, SameMarks
  <2>3. h[n + 1] = S!Apply(g[n], c, cur0, p2)
    <3>1. n + 1 \in 1..Len(r) /\ (n + 1) - 1 = n /\ n \in 0..n
      BY <1>1, <1>5
    <3>2. h[n + 1] = S!Apply(h[(n + 1) - 1], r[n + 1], cur0, p2)
      BY <2>1, <3>1 DEF MarksEach
    <3> QED BY <2>2, <3>1, <3>2, <1>5
  <2>4. IsMarking(h[n + 1]) /\ h[n + 1].short \subseteq m.short
    BY <2>3, <1>3, ApplyMarks
  <2>5. \A i \in 0..Len(r) : i = n + 1 \/ i \in 0..n
    BY <1>1, <1>5
  <2>6. \A i \in 0..Len(r) : IsMarking(h[i]) /\ h[i].short \subseteq m.short
    BY <2>2, <2>4, <2>5, <1>2
  <2>7. \A i \in 1..Len(r) : r[i] \in S!NextCommands(h[i - 1], cur0)
    <3>1. \A i \in 1..n : i - 1 \in 0..n
      BY <1>1
    <3>2. (n + 1) - 1 = n /\ n \in 0..n
      BY <1>1
    <3>3. h[(n + 1) - 1] = g[n]
      BY <3>2, <2>2
    <3>4. ASSUME NEW i \in 1..Len(r) PROVE r[i] \in S!NextCommands(h[i - 1], cur0)
      <4>1. CASE i = n + 1
        BY <4>1, <3>3, <1>3, <1>5
      <4>2. CASE i \in 1..n
        BY <4>2, <3>1, <2>2, <1>2, <1>5
      <4> QED BY <4>1, <4>2, <1>7
    <3> QED BY <3>4
  <2> QED BY <2>1, <2>6, <2>7
<1>10. Legal(r, m, cur0)
  BY <1>5, <1>8, <1>9 DEF Legal
<1> QED BY <1>10 DEF r

\* S!CommandLists gives legal lists.
Extended(S0, m, cur0, pc) ==
  S0 \cup {Append(p[1], p[2]) :
            p \in {q \in UNION {{s} \X S!NextCommands(S!Commands(m, s, cur0, pc), cur0) : s \in S0} :
                     /\ ~S!MarksLong(q[1])
                     /\ q[2].op = 5 => q[1] = <<>>
                     /\ S!Resets(q[1]) => q[2].op \notin {1, 3, 4}}}
ListsUpTo(f, m, cur0, pc, n) ==
  f = [k \in 0..n |-> IF k = 0 THEN {<<>>} ELSE Extended(f[k - 1], m, cur0, pc)]

\* Each round extends legal sequences to legal ones.
LEMMA ExtendedLegal ==
  ASSUME NEW m, IsMarking(m), NEW cur0 \in FrameNums, NEW pc, NEW S0,
         \A q \in S0 : Legal(q, m, cur0)
  PROVE  \A q \in Extended(S0, m, cur0, pc) : Legal(q, m, cur0)
<1> SUFFICES ASSUME NEW q \in Extended(S0, m, cur0, pc), q \notin S0 PROVE Legal(q, m, cur0)
  OBVIOUS
<1>1. PICK p \in UNION {{s} \X S!NextCommands(S!Commands(m, s, cur0, pc), cur0) : s \in S0} :
        /\ q = Append(p[1], p[2])
        /\ ~S!MarksLong(p[1])
        /\ p[2].op = 5 => p[1] = <<>>
        /\ S!Resets(p[1]) => p[2].op \notin {1, 3, 4}
  BY Zenon DEF Extended
<1>2. PICK s \in S0 : p \in {s} \X S!NextCommands(S!Commands(m, s, cur0, pc), cur0)
  OBVIOUS
<1>3. p[1] = s /\ p[2] \in S!NextCommands(S!Commands(m, s, cur0, pc), cur0)
  BY <1>2
<1>4. Legal(s, m, cur0)
  OBVIOUS
<1> QED BY <1>1, <1>3, <1>4, LegalAppend

\* So every sequence of commands the stream chooses from is legal.
LEMMA CommandListsLegal ==
  ASSUME NEW m, IsMarking(m), NEW cur0 \in FrameNums, NEW pc, NEW N \in Nat
  PROVE  \A q \in S!CommandLists(m, cur0, pc, N) : Legal(q, m, cur0)
<1> DEFINE A == {n \in 0..N : \E f : ListsUpTo(f, m, cur0, pc, n)}
           X == CHOOSE f : ListsUpTo(f, m, cur0, pc, N)
<1>2. 0 \in A
  <2> DEFINE f == [k \in 0..0 |-> {<<>>}]
  <2>1. f = [k \in 0..0 |-> IF k = 0 THEN {<<>>} ELSE Extended(f[k - 1], m, cur0, pc)]
    OBVIOUS
  <2>2. ListsUpTo(f, m, cur0, pc, 0)
    BY <2>1 DEF ListsUpTo
  <2> HIDE DEF f
  <2> QED BY <2>2
<1>3. ASSUME NEW n \in 1..N, n - 1 \in A PROVE n \in A
  <2>1. PICK h : ListsUpTo(h, m, cur0, pc, n - 1)
    BY <1>3
  <2> DEFINE hstep(i) == IF i = 0 THEN {<<>>} ELSE Extended(h[i - 1], m, cur0, pc)
  <2>2. \A i \in 0..n-1 : h[i] = hstep(i)
    <3>1. h = [i \in 0..n-1 |-> hstep(i)]
      BY <2>1 DEF ListsUpTo
    <3> HIDE DEF hstep
    <3> QED BY <3>1
  <2> DEFINE a == [i \in 0..n |-> IF i = n THEN hstep(n) ELSE h[i]]
             astep(i) == IF i = 0 THEN {<<>>} ELSE Extended(a[i - 1], m, cur0, pc)
  <2>3. a[n] = hstep(n) /\ \A i \in 0..n-1 : a[i] = h[i]
    <3> HIDE DEF hstep
    <3> QED BY <1>3
  <2>4. a = [i \in 0..n |-> a[i]]
    OBVIOUS
  <2> HIDE DEF a
  <2>5. ASSUME NEW i \in 0..n PROVE a[i] = astep(i)
    <3>1. i # 0 => i - 1 \in 0..n-1
      BY <1>3
    <3>2. a[i] = hstep(i)
      <4>1. i = n \/ i \in 0..n-1
        BY <1>3
      <4> HIDE DEF hstep
      <4> QED BY <4>1, <2>2, <2>3
    <3>3. i # 0 => a[i - 1] = h[i - 1]
      BY <3>1, <2>3
    <3> QED BY <3>2, <3>3
  <2>6. a = [i \in 0..n |-> astep(i)]
    <3> HIDE DEF astep
    <3> QED BY <2>4, <2>5
  <2>7. ListsUpTo(a, m, cur0, pc, n)
    BY <2>6 DEF ListsUpTo
  <2> QED BY <2>7, <1>3
<1>4. N \in A
  <2> HIDE DEF A
  <2> QED BY <1>2, <1>3, UpTo
<1>5. \E f : ListsUpTo(f, m, cur0, pc, N)
  BY <1>4
<1>6. ListsUpTo(X, m, cur0, pc, N)
  BY <1>5
<1>7. S!CommandLists(m, cur0, pc, N) = X[N]
  BY DEF S!CommandLists, ListsUpTo, Extended
<1> HIDE DEF X
<1> DEFINE xstep(i) == IF i = 0 THEN {<<>>} ELSE Extended(X[i - 1], m, cur0, pc)
           B == {i \in 0..N : \A q \in X[i] : Legal(q, m, cur0)}
<1>8. \A i \in 0..N : X[i] = xstep(i)
  <2>1. X = [i \in 0..N |-> xstep(i)]
    BY <1>6 DEF ListsUpTo
  <2> HIDE DEF xstep
  <2> QED BY <2>1
<1>9. 0 \in B
  <2>1. 0 \in 0..N /\ X[0] = {<<>>}
    BY <1>8
  <2> QED BY <2>1, LegalNone
<1>10. ASSUME NEW i \in 1..N, i - 1 \in B PROVE i \in B
  <2>1. i \in 0..N /\ i # 0
    OBVIOUS
  <2>2. X[i] = Extended(X[i - 1], m, cur0, pc)
    BY <2>1, <1>8
  <2>3. \A q \in X[i - 1] : Legal(q, m, cur0)
    BY <1>10
  <2> QED BY <2>1, <2>2, <2>3, ExtendedLegal
<1>11. N \in B
  <2> HIDE DEF B
  <2> QED BY <1>9, <1>10, UpTo
<1> QED BY <1>7, <1>11

-----------------------------------------------------------------------------
(* The pictures of the stream. *)

\* A picture that is not an IDR picture may ask for this marking.
Marks(m, fn, cmds, adaptive) ==
  /\ fn \in FrameNums /\ fn \notin {e.fn : e \in m.short}
  /\ Legal(cmds, m, fn) /\ adaptive \in BOOLEAN /\ adaptive = (cmds # <<>>)

\* What a picture's commands, or the window, leave of the marking; the frame
\* number the picture is remembered by is new.
Kept(m, fn, cmds, adaptive, pc, size) ==
  IF adaptive THEN S!Commands(m, cmds, fn, pc) ELSE S!Slide(m, fn, size)

\* That is a marking without a picture of the new frame number.
LEMMA BeforeMarks ==
  ASSUME NEW m, IsMarking(m), NEW fn, NEW cmds, NEW adaptive, Marks(m, fn, cmds, adaptive),
         NEW pc, NEW size
  PROVE  /\ IsMarking(Kept(m, fn, cmds, adaptive, pc, size)) /\ S!MarkedNum(cmds, fn) \in FrameNums
         /\ S!MarkedNum(cmds, fn) \notin {e.fn : e \in Kept(m, fn, cmds, adaptive, pc, size).short}
<1> DEFINE a == IF adaptive THEN S!Commands(m, cmds, fn, pc) ELSE S!Slide(m, fn, size)
           n == Len(cmds)
<1>0. /\ fn \in FrameNums /\ fn \notin {e.fn : e \in m.short}
      /\ Legal(cmds, m, fn) /\ adaptive \in BOOLEAN /\ adaptive = (cmds # <<>>)
  BY DEF Marks
<1>1. PICK g : /\ MarksEach(g, m, cmds, fn, pc)
               /\ \A i \in 0..n : IsMarking(g[i]) /\ g[i].short \subseteq m.short
               /\ \A i \in 1..n : cmds[i] \in S!NextCommands(g[i - 1], fn)
  BY <1>0 DEF Legal
<1>2. /\ cmds \in Seq(S!AnyCommand) /\ n \in Nat
      /\ \A i \in 1..n : cmds[i].op = 5 => n = 1
  BY <1>0 DEF Legal
<1>3. IsMarking(a) /\ a.short \subseteq m.short
  <2>1. CASE adaptive
    <3>1. a = g[n] /\ n \in 0..n
      BY <2>1, <1>1, <1>2 DEF MarksEach
    <3> HIDE DEF a
    <3> QED BY <3>1, <1>1
  <2>2. CASE ~ adaptive
    <3>1. a = S!Slide(m, fn, size)
      BY <2>2
    <3> HIDE DEF a
    <3> QED BY <3>1, SlideMarks
  <2> QED BY <1>0, <2>1, <2>2
<1>6. a = Kept(m, fn, cmds, adaptive, pc, size)
  BY DEF Kept
<1>4. CASE S!Resets(cmds)
  <2>1. n = 1 /\ cmds[1].op = 5 /\ 1 \in 1..n /\ 0 \in 0..n
    <3>1. PICK i \in 1..n : cmds[i].op = 5
      BY <1>2, <1>4 DEF S!Resets
    <3>2. n = 1
      BY <1>2, <3>1
    <3> QED BY <3>1, <3>2
  <2>2. g[1] = S!Nothing
    <3>1. g[1] = S!Apply(g[1 - 1], cmds[1], fn, pc) /\ IsMarking(g[1 - 1])
          /\ cmds[1] \in S!NextCommands(g[1 - 1], fn)
      BY <1>1, <2>1 DEF MarksEach
    <3> QED BY <1>0, <2>1, <3>1, ApplyMarks
  <2>3. adaptive
    <3>1. cmds # <<>>
      BY <2>1
    <3> QED BY <1>0, <3>1
  <2>4. a = S!Nothing
    <3>1. a = S!Commands(m, cmds, fn, pc)
      BY <2>3
    <3>2. S!Commands(m, cmds, fn, pc) = g[n]
      BY <1>1 DEF MarksEach
    <3> HIDE DEF a, n
    <3> QED BY <3>1, <3>2, <2>1, <2>2
  <2>5. S!Nothing.short = {}
    BY DEF S!Nothing
  <2>6. S!MarkedNum(cmds, fn) = 0
    BY <1>4 DEF S!MarkedNum
  <2> HIDE DEF a
  <2> QED BY <1>3, <1>6, <2>4, <2>5, <2>6, NumFacts
<1>5. CASE ~ S!Resets(cmds)
  <2>1. S!MarkedNum(cmds, fn) = fn
    BY <1>5 DEF S!MarkedNum
  <2> HIDE DEF a
  <2> QED BY <1>0, <1>3, <1>6, <2>1
<1> QED BY <1>4, <1>5

\* The marking after a reference picture is one.
LEMMA MarkMarks ==
  ASSUME NEW m, IsMarking(m), NEW fn, NEW cmds, NEW adaptive, Marks(m, fn, cmds, adaptive),
         NEW pc \in Int, NEW size
  PROVE  IsMarking(S!Mark(m, adaptive, cmds, fn, pc, size))
<1> DEFINE a == Kept(m, fn, cmds, adaptive, pc, size)
           e == [a EXCEPT !.short = @ \cup {[pic |-> pc, fn |-> S!MarkedNum(cmds, fn)]}]
<1>1. /\ IsMarking(a) /\ S!MarkedNum(cmds, fn) \in FrameNums
      /\ S!MarkedNum(cmds, fn) \notin {x.fn : x \in a.short}
  BY BeforeMarks
<1>2. IsMarking(e)
  <2> HIDE DEF a
  <2> QED BY <1>1, AddMarks
<1>3. S!Mark(m, adaptive, cmds, fn, pc, size) = IF S!MarksLong(cmds) THEN a ELSE e
  BY DEF S!Mark, Kept
<1> HIDE DEF a, e
<1> QED BY <1>1, <1>2, <1>3

\* The size of the marking is the same for every picture.
LEMMA MarkSize ==
  ASSUME NEW m, IsMarking(m), NEW fn, NEW cmds, NEW adaptive, Marks(m, fn, cmds, adaptive),
         NEW p1 \in Int, NEW p2 \in Int, NEW size
  PROVE  S!Size(S!Mark(m, adaptive, cmds, fn, p1, size)) = S!Size(S!Mark(m, adaptive, cmds, fn, p2, size))
<1> DEFINE a(pc) == Kept(m, fn, cmds, adaptive, pc, size)
           e(pc) == [pic |-> pc, fn |-> S!MarkedNum(cmds, fn)]
           r(pc) == S!Mark(m, adaptive, cmds, fn, pc, size)
           n == Len(cmds)
<1>0. /\ fn \in FrameNums /\ fn \notin {x.fn : x \in m.short}
      /\ Legal(cmds, m, fn) /\ adaptive \in BOOLEAN /\ adaptive = (cmds # <<>>)
  BY DEF Marks
<1>1. ASSUME NEW pc \in Int
      PROVE  /\ IsMarking(a(pc)) /\ e(pc) \notin a(pc).short /\ IsFiniteSet(a(pc).short)
             /\ r(pc).short = IF S!MarksLong(cmds) THEN a(pc).short ELSE a(pc).short \cup {e(pc)}
             /\ r(pc).long = a(pc).long
  <2>1. /\ IsMarking(a(pc))
        /\ S!MarkedNum(cmds, fn) \notin {x.fn : x \in a(pc).short}
    BY BeforeMarks
  <2>2. r(pc) = IF S!MarksLong(cmds) THEN a(pc) ELSE [a(pc) EXCEPT !.short = @ \cup {e(pc)}]
    BY DEF S!Mark, Kept
  <2>3. e(pc).fn = S!MarkedNum(cmds, fn)
    OBVIOUS
  <2> HIDE DEF a, e, r
  <2>4. a(pc) = [short |-> a(pc).short, long |-> a(pc).long, max |-> a(pc).max]
        /\ IsFiniteSet(a(pc).short)
    BY <2>1 DEF IsMarking
  <2>5. [a(pc) EXCEPT !.short = @ \cup {e(pc)}].short = a(pc).short \cup {e(pc)}
        /\ [a(pc) EXCEPT !.short = @ \cup {e(pc)}].long = a(pc).long
    BY <2>4
  <2>6. e(pc) \notin a(pc).short
    BY <2>1, <2>3
  <2> QED BY <2>1, <2>2, <2>4, <2>5, <2>6
<1>2. a(p1).short = a(p2).short /\ DOMAIN a(p1).long = DOMAIN a(p2).long
  <2>1. CASE ~ adaptive
    BY <2>1 DEF Kept
  <2>2. CASE adaptive
    <3>1. PICK g : /\ MarksEach(g, m, cmds, fn, p1)
                   /\ \A i \in 0..n : IsMarking(g[i]) /\ g[i].short \subseteq m.short
                   /\ \A i \in 1..n : cmds[i] \in S!NextCommands(g[i - 1], fn)
      BY <1>0 DEF Legal
    <3>2. PICK h : MarksEach(h, m, cmds, fn, p2)
      BY <1>0 DEF Legal
    <3>3. /\ cmds \in Seq(S!AnyCommand) /\ n \in Nat
          /\ \A i \in 1..n : cmds[i].op = 6 => i = n
      BY <1>0 DEF Legal
    <3>4. a(p1) = g[n] /\ a(p2) = h[n]
      BY <2>2, <3>1, <3>2 DEF MarksEach, Kept
    <3>5. n > 0
      <4>1. cmds # <<>>
        BY <1>0, <2>2
      <4> QED BY <4>1, <3>3
    <3>6. h[n - 1] = g[n - 1]
      <4> DEFINE k == n - 1
      <4>1. k \in Nat /\ k <= Len(cmds) /\ k \in 0..k
        BY <3>3, <3>5
      <4>2. \A i \in 1..k : cmds[i].op # 6
        <5>1. \A i \in 1..k : i \in 1..n /\ i # n
          BY <3>3, <3>5
        <5> QED BY <5>1, <3>3
      <4>7. cmds \in Seq(S!AnyCommand)
        BY <3>3
      <4>6. SameStart(cmds, cmds, k, p1, p2)
        BY <4>1, <4>2, <4>7 DEF SameStart
      <4>3. MarksEach(g, m, cmds, fn, p1)
        BY <3>1
      <4> HIDE DEF k
      <4>4. \A i \in 0..k : h[i] = g[i]
        BY <3>2, <4>3, <4>6, SameMarks
      <4>5. h[k] = g[k]
        BY <4>1, <4>4
      <4> QED BY <4>5 DEF k
    <3>7. /\ n \in 1..n /\ g[n] = S!Apply(g[n - 1], cmds[n], fn, p1)
          /\ h[n] = S!Apply(g[n - 1], cmds[n], fn, p2)
      BY <3>1, <3>2, <3>3, <3>5, <3>6 DEF MarksEach
    <3>8. cmds[n].op \in 1..6 /\ IsMarking(g[n - 1])
      <4>1. cmds[n] \in S!AnyCommand
        BY <3>3, <3>7
      <4>2. n - 1 \in 0..n
        BY <3>3, <3>5
      <4>3. cmds[n].op \in 1..6
        BY <4>1 DEF S!AnyCommand
      <4> QED BY <4>2, <4>3, <3>1
    <3> DEFINE x == g[n - 1]
               c == cmds[n]
    <3>9. x = [short |-> x.short, long |-> x.long, max |-> x.max] /\ c.op \in 1..6
      BY <3>8 DEF IsMarking
    <3>10. g[n] = S!Apply(x, c, fn, p1) /\ h[n] = S!Apply(x, c, fn, p2)
      BY <3>7
    <3> HIDE DEF x, c
    <3>11. CASE c.op # 6
      <4>1. S!Apply(x, c, fn, p1) = S!Apply(x, c, fn, p2)
        BY <3>9, <3>11 DEF S!Apply
      <4> HIDE DEF a, n
      <4> QED BY <4>1, <3>4, <3>10
    <3>12. CASE c.op = 6
      <4> DEFINE f(pc) == S!With(x.long, c.idx, pc)
      <4>1. \A pc : S!Apply(x, c, fn, pc) = [x EXCEPT !.long = f(pc)]
        BY <3>12 DEF S!Apply
      <4>2. \A pc : DOMAIN f(pc) = DOMAIN x.long \cup {c.idx}
        BY DEF S!With
      <4> HIDE DEF f
      <4>3. \A pc : /\ [x EXCEPT !.long = f(pc)].short = x.short
                    /\ [x EXCEPT !.long = f(pc)].long = f(pc)
        BY <3>9
      <4>5. \A pc : /\ S!Apply(x, c, fn, pc).short = x.short
                    /\ S!Apply(x, c, fn, pc).long = f(pc)
        BY <4>1, <4>3
      <4> HIDE DEF a, n
      <4>6. a(p1) = S!Apply(x, c, fn, p1) /\ a(p2) = S!Apply(x, c, fn, p2)
        BY <3>4, <3>10
      <4>4. a(p1).short = x.short /\ a(p2).short = x.short /\ a(p1).long = f(p1) /\ a(p2).long = f(p2)
        BY <4>5, <4>6
      <4> QED BY <4>2, <4>4
    <3> QED BY <3>11, <3>12
  <2> QED BY <1>0, <2>1, <2>2
<1> HIDE DEF a, r, e
<1>3. Cardinality(r(p1).short) = Cardinality(r(p2).short)
  <2>1. CASE S!MarksLong(cmds)
    BY <2>1, <1>1, <1>2
  <2>2. CASE ~ S!MarksLong(cmds)
    <3>1. Cardinality(r(p1).short) = Cardinality(a(p1).short) + 1
      BY <2>2, <1>1, FS_AddElement
    <3>2. Cardinality(r(p2).short) = Cardinality(a(p2).short) + 1
      BY <2>2, <1>1, FS_AddElement
    <3> QED BY <3>1, <3>2, <1>2
  <2> QED BY <2>1, <2>2
<1>4. DOMAIN r(p1).long = DOMAIN r(p2).long
  BY <1>1, <1>2
<1>5. S!Size(r(p1)) = S!Size(r(p2))
  <2>1. \A pc : S!Size(r(pc)) = Cardinality(r(pc).short) + Cardinality(DOMAIN r(pc).long)
    BY SizeIs
  <2> QED BY <2>1, <1>3, <1>4
<1> QED BY <1>5 DEF r

\* What a stream that has numRef reference frames has sent.
StreamOK(s, c) ==
  /\ s = [mk |-> s.mk, prev |-> s.prev, period |-> s.period, sent |-> s.sent, last |-> s.last,
          reset |-> s.reset, fresh |-> s.fresh]
  /\ IsMarking(s.mk) /\ S!Size(s.mk) <= c.numRef
  /\ s.prev \in FrameNums /\ s.period \in Nat
  /\ \E n \in Nat : s.sent \subseteq 0..n
  /\ ~ s.fresh => s.sent # {}
  /\ s.reset \in BOOLEAN /\ s.fresh \in BOOLEAN

\* What a picture it may send next says.
NextOf(s, p, c) ==
  /\ p \in S!AnyPicture /\ p.fn \in FrameNums /\ p.poc \in Nat
  /\ p.idr => p.ref /\ p.fn = 0 /\ p.cmds = <<>>
  /\ ~ p.ref => p.cmds = <<>>
  /\ ~ p.idr => /\ p.fn = (s.prev + 1) % MaxFrameNum /\ ~ s.fresh
                /\ IF p.ref
                   THEN /\ Marks(s.mk, p.fn, p.cmds, p.adaptive)
                        /\ S!Size(S!Mark(s.mk, p.adaptive, p.cmds, p.fn, p.key, c.numRef)) <= c.numRef
                   ELSE ~ (c.quiet /\ s.reset)

\* What is assumed of a configuration.
LEMMA ConfigFacts ==
  ASSUME NEW c \in Configs
  PROVE  /\ c.numRef \in Nat /\ c.numRef > 0 /\ c.numRef < NumNodes
         /\ c.cmds \in Nat /\ c.reorder \in Nat /\ c.dpbSize \in Nat
         /\ c.quiet \in BOOLEAN /\ c.idrNext \in BOOLEAN /\ c.length \in Nat
BY ConfigsAssumption, DecPicturesAssumption

\* The state of the stream before its first picture is sound.
LEMMA OpeningOK ==
  ASSUME NEW c \in Configs
  PROVE  StreamOK(S!Opening, c)
<1>1. S!Opening = [mk |-> S!Nothing, prev |-> 0, period |-> 0, sent |-> {}, last |-> 0,
                   reset |-> FALSE, fresh |-> TRUE]
  BY DEF S!Opening
<1>2. S!Size(S!Nothing) <= c.numRef
  BY NothingMarks, ConfigFacts
<1>3. {} \subseteq 0..0 /\ 0 \in Nat
  OBVIOUS
<1> QED BY <1>1, <1>2, <1>3, NothingMarks, NumFacts DEF StreamOK

\* The frame number and the key of the next picture.
LEMMA NumberFacts ==
  ASSUME NEW s, NEW c, StreamOK(s, c)
  PROVE  /\ (s.prev + 1) % MaxFrameNum \in FrameNums
         /\ S!Key(s.period + 1, 0) \in Int /\ \A poc \in Int : S!Key(s.period, poc) \in Int
<1>1. s.prev \in FrameNums /\ s.period \in Nat
  BY DEF StreamOK
<1>2. s.prev \in Nat
  BY <1>1, NumFacts
<1>3. s.prev + 1 \in Nat
  BY <1>2
<1>4. S!Key(s.period + 1, 0) \in Int /\ \A poc \in Int : S!Key(s.period, poc) \in Int
  BY <1>1, DecPicturesAssumption DEF S!Key
<1> QED BY <1>3, <1>4, NumFacts

\* A picture has the type of one.
LEMMA PictureType ==
  ASSUME NEW p,
         p = [idr |-> p.idr, ref |-> p.ref, isLong |-> p.isLong, adaptive |-> p.adaptive,
              cmds |-> p.cmds, fn |-> p.fn, poc |-> p.poc, key |-> p.key],
         p.idr \in BOOLEAN, p.ref \in BOOLEAN, p.isLong \in BOOLEAN, p.adaptive \in BOOLEAN,
         p.cmds \in Seq(S!AnyCommand), p.fn \in Nat, p.poc \in Int, p.key \in Int
  PROVE  p \in S!AnyPicture
BY DEF S!AnyPicture

\* The order counts of a period are numbers.
LEMMA PocFacts ==
  ASSUME NEW s, NEW c \in Configs, StreamOK(s, c), ~ s.fresh
  PROVE  S!NextPocs(s, c) \subseteq Nat /\ S!Max(s.sent) + 1 \in Nat
<1>1. PICK n \in Nat : s.sent \subseteq 0..n
  BY DEF StreamOK
<1>2. s.sent # {}
  BY DEF StreamOK
<1>3. D!Max(s.sent) \in s.sent
  BY <1>1, <1>2, MaxFacts
<1>4. S!Max(s.sent) = D!Max(s.sent)
  BY DEF S!Max, D!Max
<1>5. S!Max(s.sent) \in Nat
  BY <1>1, <1>3, <1>4
<1>6. 1..S!Max(s.sent) + 1 + c.reorder \subseteq Nat
  BY <1>5, ConfigFacts
<1>7. S!NextPocs(s, c) \subseteq 1..S!Max(s.sent) + 1 + c.reorder
  BY DEF S!NextPocs
<1> QED BY <1>5, <1>6, <1>7

\* The fields of a picture that does not reset.
PlainKey(s, p) == p.key = IF p.idr THEN S!Key(s.period + 1, 0) ELSE S!Key(s.period, p.poc)

\* A picture without commands is a picture.
LEMMA PlainType ==
  ASSUME NEW s, NEW c, StreamOK(s, c), NEW p, PlainKey(s, p),
         p = [idr |-> p.idr, ref |-> p.ref, isLong |-> p.isLong, adaptive |-> p.adaptive,
              cmds |-> p.cmds, fn |-> p.fn, poc |-> p.poc, key |-> p.key],
         p.idr \in BOOLEAN, p.ref \in BOOLEAN, p.isLong \in BOOLEAN, p.adaptive \in BOOLEAN,
         p.cmds = <<>>, p.fn \in FrameNums, p.poc \in Nat
  PROVE  p \in S!AnyPicture
<1>1. p.cmds \in Seq(S!AnyCommand) /\ p.fn \in Nat /\ p.poc \in Int
  BY NumFacts
<1>2. p.key \in Int
  BY NumberFacts DEF PlainKey
<1> QED BY <1>1, <1>2, PictureType

\* No command is no command 5 and no command 6.
LEMMA NoResets == ~ S!Resets(<<>>) /\ ~ S!MarksLong(<<>>)
BY DEF S!Resets, S!MarksLong

\* An IDR picture the stream may send.
LEMMA IdrFacts ==
  ASSUME NEW s, NEW c \in Configs, StreamOK(s, c), NEW p \in S!IdrPictures(s, c)
  PROVE  NextOf(s, p, c) /\ p.idr
<1>1. PICK isLong \in {FALSE, c.cmds > 0} : p = S!Coded(s, TRUE, TRUE, isLong, FALSE, <<>>, 0)
  BY DEF S!IdrPictures
<1>2. isLong \in BOOLEAN
  <2>1. (c.cmds > 0) \in BOOLEAN
    OBVIOUS
  <2> QED BY <2>1
<1>3. /\ p.idr = TRUE /\ p.ref = TRUE /\ p.isLong = isLong /\ p.adaptive = FALSE /\ p.cmds = <<>>
      /\ p.fn = 0 /\ p.poc = 0 /\ p.key = S!Key(s.period + 1, 0)
      /\ p = [idr |-> p.idr, ref |-> p.ref, isLong |-> p.isLong, adaptive |-> p.adaptive,
              cmds |-> p.cmds, fn |-> p.fn, poc |-> p.poc, key |-> p.key]
  BY <1>1 DEF S!Coded
<1>4. PlainKey(s, p) /\ p.fn \in FrameNums /\ p.poc \in Nat
  BY <1>3, NumFacts DEF PlainKey
<1>5. p.idr \in BOOLEAN /\ p.ref \in BOOLEAN /\ p.isLong \in BOOLEAN /\ p.adaptive \in BOOLEAN
  BY <1>2, <1>3
<1>6. p \in S!AnyPicture
  BY <1>3, <1>4, <1>5, PlainType
<1> QED BY <1>3, <1>4, <1>6 DEF NextOf

\* A picture that is not a reference.
LEMMA OtherFacts ==
  ASSUME NEW s, NEW c \in Configs, StreamOK(s, c), ~ s.fresh, NEW p \in S!OtherPictures(s, c)
  PROVE  NextOf(s, p, c) /\ ~ p.idr /\ ~ p.ref
<1>1. ~ (c.quiet /\ s.reset)
  BY DEF S!OtherPictures
<1>2. PICK poc \in S!NextPocs(s, c) : p = S!Coded(s, FALSE, FALSE, FALSE, FALSE, <<>>, poc)
  BY DEF S!OtherPictures
<1>3. poc \in Nat
  BY PocFacts
<1>4. /\ p.idr = FALSE /\ p.ref = FALSE /\ p.isLong = FALSE /\ p.adaptive = FALSE /\ p.cmds = <<>>
      /\ p.fn = (s.prev + 1) % MaxFrameNum /\ p.poc = poc /\ p.key = S!Key(s.period, poc)
      /\ p = [idr |-> p.idr, ref |-> p.ref, isLong |-> p.isLong, adaptive |-> p.adaptive,
              cmds |-> p.cmds, fn |-> p.fn, poc |-> p.poc, key |-> p.key]
  BY <1>2, NoResets DEF S!Coded
<1>5. PlainKey(s, p) /\ p.fn \in FrameNums /\ p.poc \in Nat
  BY <1>3, <1>4, NumberFacts DEF PlainKey
<1>6. p.idr \in BOOLEAN /\ p.ref \in BOOLEAN /\ p.isLong \in BOOLEAN /\ p.adaptive \in BOOLEAN
  BY <1>4
<1>7. p \in S!AnyPicture
  BY <1>4, <1>5, <1>6, PlainType
<1> QED BY <1>1, <1>4, <1>5, <1>7 DEF NextOf

\* A reference picture, with its commands.
LEMMA RefFacts ==
  ASSUME NEW s, NEW c \in Configs, StreamOK(s, c), ~ s.fresh, NEW p \in S!RefPictures(s, c)
  PROVE  NextOf(s, p, c) /\ ~ p.idr /\ p.ref
<1> DEFINE q(cmds, poc) == S!Coded(s, FALSE, TRUE, FALSE, cmds # <<>>, cmds, poc)
           fn == q(<<>>, 0).fn
           lists0 == S!CommandLists(s.mk, fn, S!Key(s.period, PocSpan - 1), c.cmds)
           pocs(cmds) == IF S!Resets(cmds) THEN {S!Max(s.sent) + 1} ELSE S!NextPocs(s, c)
           mark(cmds, pc) == S!Mark(s.mk, cmds # <<>>, cmds, fn, pc, c.numRef)
           fits(cmds) == S!Size(mark(cmds, -1)) <= c.numRef
<1>1. S!RefPictures(s, c) = IF fn \in {e.fn : e \in s.mk.short} THEN {}
                            ELSE UNION {{q(cmds, poc) : poc \in pocs(cmds)} :
                                          cmds \in {l \in lists0 : fits(l)}}
  BY DEF S!RefPictures
<1>2. fn = (s.prev + 1) % MaxFrameNum /\ fn \in FrameNums
  <2>1. fn = (s.prev + 1) % MaxFrameNum
    BY DEF S!Coded
  <2> HIDE DEF fn
  <2> QED BY <2>1, NumberFacts
<1> HIDE DEF q, fn, lists0, pocs, fits, mark
<1>3. fn \notin {e.fn : e \in s.mk.short}
  BY <1>1
<1>4. PICK cmds \in lists0 : \E poc \in pocs(cmds) : fits(cmds) /\ p = q(cmds, poc)
  BY <1>1, <1>3
<1>5. PICK poc \in pocs(cmds) : fits(cmds) /\ p = q(cmds, poc)
  BY <1>4
<1>6. IsMarking(s.mk) /\ c.cmds \in Nat
  BY ConfigFacts DEF StreamOK
<1>7. Legal(cmds, s.mk, fn)
  BY <1>2, <1>6, CommandListsLegal DEF lists0
<1>8. poc \in Nat
  BY PocFacts DEF pocs
<1>9. cmds \in Seq(S!AnyCommand)
  BY <1>7 DEF Legal
<1>10. /\ p.idr = FALSE /\ p.ref = TRUE /\ p.isLong = FALSE /\ p.adaptive = (cmds # <<>>) /\ p.cmds = cmds
       /\ p.fn = (s.prev + 1) % MaxFrameNum /\ p.poc = poc
       /\ p.key = IF S!Resets(cmds) THEN S!Key(s.period + 1, 0) ELSE S!Key(s.period, poc)
       /\ p = [idr |-> p.idr, ref |-> p.ref, isLong |-> p.isLong, adaptive |-> p.adaptive,
               cmds |-> p.cmds, fn |-> p.fn, poc |-> p.poc, key |-> p.key]
  BY <1>5 DEF S!Coded, q
<1>11. p.key \in Int /\ -1 \in Int /\ p.fn = fn
  BY <1>2, <1>8, <1>10, NumberFacts
<1>12. p \in S!AnyPicture
  <2>1. p.idr \in BOOLEAN /\ p.ref \in BOOLEAN /\ p.isLong \in BOOLEAN /\ p.adaptive \in BOOLEAN
    BY <1>10
  <2>2. p.fn \in Nat /\ p.poc \in Int /\ p.cmds \in Seq(S!AnyCommand)
    BY <1>2, <1>8, <1>9, <1>10, <1>11, NumFacts
  <2> QED BY <1>10, <1>11, <2>1, <2>2, PictureType
<1>14. Marks(s.mk, p.fn, p.cmds, p.adaptive)
  <2>1. (cmds # <<>>) \in BOOLEAN
    OBVIOUS
  <2> QED BY <2>1, <1>2, <1>3, <1>7, <1>10, <1>11 DEF Marks
<1>13. S!Size(S!Mark(s.mk, p.adaptive, p.cmds, p.fn, p.key, c.numRef)) <= c.numRef
  <2>2. S!Size(S!Mark(s.mk, p.adaptive, p.cmds, p.fn, -1, c.numRef))
          = S!Size(S!Mark(s.mk, p.adaptive, p.cmds, p.fn, p.key, c.numRef))
    BY <1>6, <1>11, <1>14, MarkSize
  <2>3. S!Mark(s.mk, p.adaptive, p.cmds, p.fn, -1, c.numRef) = mark(cmds, -1)
    BY <1>10, <1>11 DEF mark
  <2> QED BY <2>2, <2>3, <1>5 DEF fits
<1>15. p.poc \in Nat /\ p.fn \in FrameNums
  BY <1>2, <1>8, <1>10, <1>11
<1> QED BY <1>10, <1>12, <1>13, <1>14, <1>15 DEF NextOf

\* Every picture the stream may send next is as NextOf says.
LEMMA PictureFacts ==
  ASSUME NEW s, NEW c \in Configs, StreamOK(s, c), NEW p \in S!Pictures(s, c)
  PROVE  NextOf(s, p, c)
<1>1. p \in S!IdrPictures(s, c) \/ (~ s.fresh /\ p \in S!RefPictures(s, c) \cup S!OtherPictures(s, c))
  BY DEF S!Pictures
<1> QED BY <1>1, IdrFacts, RefFacts, OtherFacts

\* The stream goes on to be one.
LEMMA AdvanceOK ==
  ASSUME NEW s, NEW c \in Configs, StreamOK(s, c), NEW p, NextOf(s, p, c)
  PROVE  StreamOK(S!Advance(s, p, c), c)
<1> DEFINE restart == p.idr \/ S!Resets(p.cmds)
           mk == IF p.idr THEN S!MarkIdr(p.key, p.isLong)
                 ELSE IF p.ref THEN S!Mark(s.mk, p.adaptive, p.cmds, p.fn, p.key, c.numRef)
                 ELSE s.mk
           prev == IF p.ref THEN S!MarkedNum(p.cmds, p.fn) ELSE s.prev
           period == IF restart THEN s.period + 1 ELSE s.period
           sent == IF restart THEN {0} ELSE s.sent \cup {p.poc}
           a == S!Advance(s, p, c)
<1>1. /\ a.mk = mk /\ a.prev = prev /\ a.period = period /\ a.sent = sent
      /\ a.reset = S!Resets(p.cmds) /\ a.fresh = FALSE
      /\ a = [mk |-> a.mk, prev |-> a.prev, period |-> a.period, sent |-> a.sent, last |-> a.last,
              reset |-> a.reset, fresh |-> a.fresh]
  BY DEF S!Advance
<1>2. /\ p \in S!AnyPicture /\ p.fn \in FrameNums /\ p.key \in Int /\ p.poc \in Nat
      /\ p.adaptive \in BOOLEAN
  BY DEF NextOf, S!AnyPicture
<1>3. IsMarking(mk) /\ S!Size(mk) <= c.numRef
  <2>1. CASE p.idr
    <3>1. IsMarking(S!MarkIdr(p.key, p.isLong)) /\ S!Size(S!MarkIdr(p.key, p.isLong)) = 1
      BY <1>2, MarkIdrMarks
    <3> QED BY <2>1, <3>1, ConfigFacts
  <2>2. CASE ~ p.idr /\ p.ref
    <3>1. /\ Marks(s.mk, p.fn, p.cmds, p.adaptive) /\ IsMarking(s.mk)
          /\ S!Size(S!Mark(s.mk, p.adaptive, p.cmds, p.fn, p.key, c.numRef)) <= c.numRef
      BY <2>2 DEF NextOf, StreamOK
    <3>2. IsMarking(S!Mark(s.mk, p.adaptive, p.cmds, p.fn, p.key, c.numRef))
      BY <1>2, <3>1, MarkMarks
    <3> QED BY <2>2, <3>1, <3>2
  <2>3. CASE ~ p.idr /\ ~ p.ref
    BY <2>3 DEF StreamOK
  <2> QED BY <2>1, <2>2, <2>3
<1>4. prev \in FrameNums
  BY <1>2, NumFacts DEF S!MarkedNum, StreamOK
<1>5. period \in Nat
  BY DEF StreamOK
<1>6. sent # {} /\ \E n \in Nat : sent \subseteq 0..n
  <2>1. CASE restart
    <3>1. sent = {0} /\ {0} \subseteq 0..0 /\ 0 \in Nat
      BY <2>1
    <3> QED BY <3>1
  <2>2. CASE ~ restart
    <3>1. sent = s.sent \cup {p.poc}
      BY <2>2
    <3>2. PICK n \in Nat : s.sent \subseteq 0..n
      BY DEF StreamOK
    <3> HIDE DEF sent
    <3>4. CASE p.poc <= n
      BY <1>2, <3>1, <3>2, <3>4
    <3>5. CASE p.poc > n
      <4>1. sent \subseteq 0..p.poc /\ p.poc \in Nat
        BY <1>2, <3>1, <3>2, <3>5
      <4> QED BY <3>1, <4>1
    <3> QED BY <1>2, <3>2, <3>4, <3>5
  <2> QED BY <2>1, <2>2
<1>7. S!Resets(p.cmds) \in BOOLEAN
  BY DEF S!Resets
<1> HIDE DEF a, mk, prev, period, sent
<1>8. StreamOK(a, c)
  BY <1>1, <1>3, <1>4, <1>5, <1>6, <1>7 DEF StreamOK
<1> QED BY <1>8 DEF a

-----------------------------------------------------------------------------
(* The operations between and after the commands. *)

\* ih264d_assign_pic_num: the short-term nodes get new numbers.
Renumbered(l, r, f, ord, cur0, fn) ==
  /\ Linked(r, f, ord) /\ r.max = l.max /\ r.nst = l.nst /\ r.nlt = l.nlt
  /\ \A x \in D!Nodes : /\ r.node[x].use = l.node[x].use /\ r.node[x].buf = l.node[x].buf
                        /\ r.node[x].lt = l.node[x].lt
                        /\ ShortUse(l, x) => r.node[x].num = S!Wrap(fn[l.node[x].buf], cur0)

\* ih264d_get_dpb_pic_num renumbers the short-term nodes and nothing else.
LEMMA AssignFacts ==
  ASSUME NEW l, NEW f, NEW ord, Linked(l, f, ord), NEW cur0 \in FrameNums, NEW fn,
         \A x \in D!Nodes : ShortUse(l, x) => fn[l.node[x].buf] \in FrameNums
  PROVE  Renumbered(l, D!AssignPicNum(l, cur0, fn, MaxFrameNum), f, ord, cur0, fn)
<1> DEFINE r == D!AssignPicNum(l, cur0, fn, MaxFrameNum)
<1>1. PICK s, t : Lists(l, s, t) /\ (ord => Falling(l, s, f))
  BY DEF Linked
<1>2. /\ l \in ListStates /\ l.nst \in Nat /\ l.nlt \in Nat /\ ShortChain(l, s) /\ LongChain(l, t)
      /\ l.node \in [D!Nodes -> NodeStates]
  BY <1>1 DEF Lists, ListStates
<1> DEFINE listed == {D!ShortAt(l, k) : k \in 1 .. l.nst}
           num(n) == IF fn[l.node[n].buf] > cur0 THEN fn[l.node[n].buf] - MaxFrameNum
                     ELSE fn[l.node[n].buf]
           e(n) == [l.node[n] EXCEPT !.num = num(n)]
           new == [n \in D!Nodes |-> IF n \in listed THEN e(n) ELSE l.node[n]]
<1>3. r = [l EXCEPT !.node = new]
  BY DEF D!AssignPicNum
<1>4. \A n \in D!Nodes : n \in listed <=> ShortUse(l, n)
  <2>1. \A k \in 1..l.nst : D!ShortAt(l, k) = s[k]
    BY <1>2, ShortAtIs
  <2> QED BY <2>1, <1>2 DEF ShortChain
<1>5. ASSUME NEW n \in D!Nodes, n \in listed
      PROVE  /\ e(n) \in NodeStates /\ e(n).num = S!Wrap(fn[l.node[n].buf], cur0)
             /\ e(n).use = l.node[n].use /\ e(n).buf = l.node[n].buf /\ e(n).lt = l.node[n].lt
             /\ e(n).ps = l.node[n].ps /\ e(n).pl = l.node[n].pl
  <2>1. l.node[n] \in NodeStates
    BY <1>2
  <2>2. fn[l.node[n].buf] \in FrameNums
    BY <1>4, <1>5
  <2>3. num(n) = S!Wrap(fn[l.node[n].buf], cur0) /\ num(n) \in Int
    BY <2>2, NumFacts, WrapFacts DEF S!Wrap
  <2> HIDE DEF num
  <2> QED BY <2>1, <2>3 DEF NodeStates
<1> HIDE DEF listed, e
<1>6. new \in [D!Nodes -> NodeStates]
  BY <1>2, <1>5
<1>7. \A n \in D!Nodes : new[n] = IF n \in listed THEN e(n) ELSE l.node[n]
  OBVIOUS
<1> HIDE DEF new, r
<1>8. r \in ListStates /\ r.node = new /\ r.nst = l.nst /\ r.nlt = l.nlt /\ r.st = l.st /\ r.lt = l.lt /\ r.max = l.max
  BY <1>2, <1>3, <1>6 DEF ListStates
<1>9. \A x \in D!Nodes : /\ r.node[x].use = l.node[x].use /\ r.node[x].buf = l.node[x].buf
                         /\ r.node[x].lt = l.node[x].lt /\ r.node[x].ps = l.node[x].ps
                         /\ r.node[x].pl = l.node[x].pl
                         /\ ShortUse(l, x) => r.node[x].num = S!Wrap(fn[l.node[x].buf], cur0)
  BY <1>4, <1>5, <1>7, <1>8
<1>10. ShortChain(r, s)
  BY <1>2, <1>8, <1>9, ShortSame DEF ShortUse
<1>11. LongChain(r, t)
  BY <1>2, <1>8, <1>9, LongSame DEF LongUse
<1>12. ord => Falling(r, s, f)
  <2> SUFFICES ASSUME ord PROVE Falling(r, s, f)
    OBVIOUS
  <2>1. Falling(l, s, f)
    BY <1>1
  <2> QED BY <1>2, <1>8, <1>9, <2>1, FallingSame
<1>13. Linked(r, f, ord)
  BY <1>8, <1>10, <1>11, <1>12 DEF Linked, Lists
<1>14. Renumbered(l, r, f, ord, cur0, fn)
  BY <1>8, <1>9, <1>13 DEF Renumbered
<1> QED BY <1>14 DEF r

\* The largest index does not matter to the links.
WithMax(l, x) == [l EXCEPT !.max = x]

\* The order does not depend on the largest index.
LEMMA MaxSame ==
  ASSUME NEW l, NEW f, NEW ord, Linked(l, f, ord), NEW x \in Nat
  PROVE  /\ Linked(WithMax(l, x), f, ord) /\ WithMax(l, x).node = l.node /\ WithMax(l, x).max = x
         /\ WithMax(l, x).nst = l.nst /\ WithMax(l, x).nlt = l.nlt
<1> DEFINE r == WithMax(l, x)
<1>1. PICK s, t : Lists(l, s, t) /\ (ord => Falling(l, s, f))
  BY DEF Linked
<1>2. /\ l \in ListStates /\ l.nst \in Nat /\ l.nlt \in Nat /\ ShortChain(l, s) /\ LongChain(l, t)
  BY <1>1 DEF Lists, ListStates
<1>3. r \in ListStates /\ r.node = l.node /\ r.nst = l.nst /\ r.nlt = l.nlt /\ r.st = l.st /\ r.lt = l.lt /\ r.max = x
  BY <1>2 DEF ListStates, WithMax
<1> HIDE DEF r
<1>7. \A n \in D!Nodes : /\ ShortUse(r, n) <=> ShortUse(l, n)
                         /\ ShortUse(l, n) => r.node[n].ps = l.node[n].ps
  BY <1>3 DEF ShortUse
<1>8. \A n \in D!Nodes : /\ LongUse(r, n) <=> LongUse(l, n)
                         /\ LongUse(l, n) => /\ r.node[n].pl = l.node[n].pl
                                             /\ r.node[n].lt = l.node[n].lt
  BY <1>3 DEF LongUse
<1>4. ShortChain(r, s)
  BY <1>2, <1>3, <1>7, ShortSame
<1>5. LongChain(r, t)
  BY <1>2, <1>3, <1>8, LongSame
<1>6. ord => Falling(r, s, f)
  <2> SUFFICES ASSUME ord PROVE Falling(r, s, f)
    OBVIOUS
  <2>1. Falling(l, s, f)
    BY <1>1
  <2> QED BY <1>2, <1>3, <2>1, FallingSame
<1>9. Linked(r, f, ord)
  BY <1>3, <1>4, <1>5, <1>6 DEF Linked, Lists
<1> QED BY <1>3, <1>9 DEF r

\* ih264d_do_mmco_buffer for an IDR picture adds only that picture.
LEMMA MarkIdrComes ==
  ASSUME NEW l, Chained(l), NEW b \in Nat, NEW isLong
  PROVE  Chained(D!MarkIdr(l, b, isLong).l) /\ Comes(l, D!MarkIdr(l, b, isLong).l, b)
<1> DEFINE r == D!ResetRefs(l)
           s == D!InsertShort(r.l, b, 0)
           i == D!InsertShort(l, b, 0)
           m == D!MakeLong(i.l, 0, 0)
           d == D!MarkIdr(l, b, isLong)
           s1 == WithMax(s.l, D!NoLong)
           i1 == WithMax(i.l, 0)
           m1 == WithMax(m.l, 0)
<1>1. Chained(r.l) /\ Comes(l, r.l, b)
  <2> HIDE DEF r
  <2> QED BY ResetComes DEF r
<1>2. Chained(s.l) /\ Comes(l, s.l, b)
  <2>1. Chained(s.l) /\ Comes(r.l, s.l, b)
    <3> HIDE DEF r
    <3> QED BY <1>1, InsertComes
  <2> HIDE DEF r, s
  <2> QED BY <1>1, <2>1, ComesTwice
<1>3. Chained(i.l) /\ Comes(l, i.l, b)
  BY InsertComes
<1>4. Chained(m.l) /\ Comes(l, m.l, b)
  <2>1. Chained(m.l) /\ Comes(i.l, m.l, b)
    <3> HIDE DEF i
    <3> QED BY <1>3, MakeLongComes
  <2> HIDE DEF i, m
  <2> QED BY <1>3, <2>1, ComesTwice
<1>5. d.l \in {s1, i1, m1}
  <2> HIDE DEF r, s, i, m
  <2>1. d = IF isLong THEN IF i.ok /\ m.ok THEN [m EXCEPT !.l.max = 0] ELSE D!Done(i1, {})
            ELSE [s EXCEPT !.l.max = D!NoLong, !.rel = r.rel]
    BY DEF D!MarkIdr, WithMax, r, s, i, m
  <2>2. DOMAIN m = {"l", "rel", "ok"}
    BY DEF m, D!MakeLong, D!Fail, D!Done
  <2>3. DOMAIN s = {"l", "rel", "ok"}
    BY DEF s, D!InsertShort, D!Fail, D!Done
  <2>4. D!Done(i1, {}).l = i1
    BY DEF D!Done
  <2>5. [m EXCEPT !.l.max = 0].l = m1
    BY <2>2 DEF WithMax
  <2>6. [s EXCEPT !.l.max = D!NoLong, !.rel = r.rel].l = s1
    BY <2>3 DEF WithMax
  <2> HIDE DEF d, s1, i1, m1
  <2> QED BY <2>1, <2>4, <2>5, <2>6
<1> HIDE DEF r, s, i, m
<1>6. ASSUME NEW k, Chained(k) /\ Comes(l, k, b), NEW x \in Nat
      PROVE  Chained(WithMax(k, x)) /\ Comes(l, WithMax(k, x), b)
  <2>1. Linked(k, 0, FALSE)
    BY <1>6, ChainedLinked
  <2>2. Linked(WithMax(k, x), 0, FALSE) /\ WithMax(k, x).node = k.node
    BY <2>1, MaxSame
  <2> QED BY <1>6, <2>2, ChainedLinked DEF Comes
<1>7. D!NoLong \in Nat /\ 0 \in Nat
  BY DEF D!NoLong
<1>8. /\ Chained(s1) /\ Comes(l, s1, b) /\ Chained(i1) /\ Comes(l, i1, b)
      /\ Chained(m1) /\ Comes(l, m1, b)
  BY <1>2, <1>3, <1>4, <1>6, <1>7
<1> HIDE DEF d, s1, i1, m1
<1>9. Chained(d.l) /\ Comes(l, d.l, b)
  BY <1>5, <1>8
<1> QED BY <1>9 DEF d

-----------------------------------------------------------------------------
(* The lists can be walked, whatever the stream. *)

\* The lists are linked and hold picture buffers.
WalkInv ==
  /\ conf \in {Setup(c) : c \in Configs}
  /\ StreamOK(stream, conf.c)
  /\ frameNum \in [conf.pics -> FrameNums]
  /\ Chained(lists) /\ \A x \in InUse(lists) : lists.node[x].buf \in conf.pics
  /\ cur # None => cur \in [p : S!AnyPicture, buf : conf.pics] /\ cur.p.fn \in FrameNums

\* The configuration and the buffers it leads to.
LEMMA SetupFacts ==
  ASSUME conf \in {Setup(c) : c \in Configs}
  PROVE  conf.c \in Configs /\ conf.pics \subseteq Nat
<1>1. PICK c \in Configs : conf = Setup(c)
  OBVIOUS
<1>2. conf.c = c /\ conf.pics = 0..NumPics(c) - 1
  BY <1>1 DEF Setup
<1> QED BY <1>2

\* It holds at the beginning.
LEMMA WalkInit == Init => WalkInv
<1> SUFFICES ASSUME Init PROVE WalkInv
  OBVIOUS
<1>1. /\ conf \in {Setup(c) : c \in Configs} /\ stream = S!Opening
      /\ frameNum = [b \in conf.pics |-> 0] /\ lists = D!Empty /\ cur = None
  BY DEF Init
<1>2. conf.c \in Configs
  BY <1>1, SetupFacts
<1>3. StreamOK(stream, conf.c)
  BY <1>1, <1>2, OpeningOK
<1>4. frameNum \in [conf.pics -> FrameNums]
  BY <1>1, NumFacts
<1> DEFINE u == [i \in 1..0 |-> i]
           new == [n \in D!Nodes |-> D!EmptyNode]
<1>5. D!EmptyNode \in NodeStates /\ D!EmptyNode.use = "no"
  BY NodesFacts DEF D!EmptyNode, NodeStates
<1>6. /\ D!Empty.node = new /\ D!Empty.nst = 0 /\ D!Empty.nlt = 0
      /\ \A n \in D!Nodes : D!Empty.node[n].use = "no"
  BY <1>5 DEF D!Empty
<1>7. D!Empty \in ListStates
  <2>1. new \in [D!Nodes -> NodeStates]
    BY <1>5
  <2>2. D!NoLong \in Nat /\ D!Nil \in 0..NumNodes
    BY NodesFacts DEF D!NoLong
  <2>3. D!Empty = [node |-> new, st |-> D!Nil, lt |-> D!Nil, nst |-> 0, nlt |-> 0, max |-> D!NoLong]
    BY DEF D!Empty
  <2> HIDE DEF new
  <2> QED BY <2>1, <2>2, <2>3 DEF ListStates
<1>8. u \in [1..0 -> D!Nodes] /\ 1..0 = {}
  OBVIOUS
<1> HIDE DEF u, new
<1>9. ShortChain(D!Empty, u) /\ LongChain(D!Empty, u)
  <2>1. \A i \in 1..0-1 : FALSE
    OBVIOUS
  <2> QED BY <2>1, <1>6, <1>8 DEF ShortChain, LongChain, ShortUse, LongUse
<1>10. Chained(lists)
  BY <1>1, <1>7, <1>9 DEF Chained, Lists
<1>11. InUse(lists) = {}
  BY <1>1, <1>6 DEF InUse
<1> QED BY <1>1, <1>3, <1>4, <1>10, <1>11 DEF WalkInv

\* Steps of the pictures and of the application that leave the lists alone.
LEMMA WalkRest ==
  ASSUME WalkInv, UNCHANGED <<conf, frameNum, lists>>,
         cur' = cur \/ cur' = None, StreamOK(stream', conf.c)
  PROVE  WalkInv'
<1>1. CASE cur' = cur
  BY <1>1 DEF WalkInv
<1>2. CASE cur' = None
  BY <1>2 DEF WalkInv
<1> QED BY <1>1, <1>2

\* A call that begins keeps it.
LEMMA WalkStart ==
  ASSUME WalkInv, NEW p \in Coming, StartPicture(p)
  PROVE  WalkInv'
<1> DEFINE b == P!NextFree(PicsFor(p))
<1>1. /\ conf.c \in Configs /\ conf.pics \subseteq Nat /\ conf' = conf
      /\ stream' = S!Advance(stream, p, conf.c)
      /\ frameNum' = [frameNum EXCEPT ![b] = p.fn]
      /\ lists' = D!AssignPicNum(lists, p.fn, frameNum', MaxFrameNum)
      /\ cur' = [p |-> p, buf |-> b]
  BY SetupFacts DEF WalkInv, StartPicture, Parsed, config
<1>2. StreamOK(stream, conf.c) /\ frameNum \in [conf.pics -> FrameNums]
  BY DEF WalkInv
<1>3. p \in S!Pictures(stream, conf.c)
  BY DEF Coming
<1>4. NextOf(stream, p, conf.c)
  BY <1>1, <1>2, <1>3, PictureFacts
<1>5. p \in S!AnyPicture /\ p.fn \in FrameNums
  BY <1>4 DEF NextOf
<1>6. b \in conf.pics
  <2> DEFINE F == P!FreeBufs(PicsFor(p))
  <2>1. F # {} /\ F \subseteq conf.pics
    BY DEF StartPicture, HasPic, P!HasFree, P!FreeBufs
  <2>2. F \subseteq Nat
    BY <1>1, <2>1
  <2>3. b = D!Min(F)
    BY DEF P!NextFree, P!Min, D!Min
  <2> HIDE DEF F, b
  <2> QED BY <2>1, <2>2, <2>3, MinFacts
<1> HIDE DEF b
<1>7. frameNum' \in [conf.pics -> FrameNums]
  BY <1>1, <1>2, <1>5
<1>8. Chained(lists) /\ \A x \in InUse(lists) : lists.node[x].buf \in conf.pics
  BY DEF WalkInv
<1>9. \A x \in D!Nodes : ShortUse(lists, x) => frameNum'[lists.node[x].buf] \in FrameNums
  BY <1>7, <1>8 DEF InUse, ShortUse
<1>10. Linked(lists, 0, FALSE)
  BY <1>8, ChainedLinked
<1>11. /\ Linked(lists', 0, FALSE)
       /\ \A x \in D!Nodes : lists'.node[x].use = lists.node[x].use /\ lists'.node[x].buf = lists.node[x].buf
  <2>1. Renumbered(lists, D!AssignPicNum(lists, p.fn, frameNum', MaxFrameNum), 0, FALSE, p.fn, frameNum')
    BY <1>5, <1>9, <1>10, AssignFacts
  <2> QED BY <1>1, <2>1 DEF Renumbered
<1>12. Chained(lists')
  BY <1>11, ChainedLinked
<1>13. \A x \in InUse(lists') : lists'.node[x].buf \in conf.pics
  BY <1>8, <1>11 DEF InUse
<1>14. StreamOK(stream', conf.c)
  BY <1>1, <1>2, <1>4, AdvanceOK
<1>15. cur' \in [p : S!AnyPicture, buf : conf.pics] /\ cur'.p.fn \in FrameNums
  BY <1>1, <1>5, <1>6
<1>16. (Chained(lists))' /\ (StreamOK(stream, conf.c))'
  BY <1>1, <1>12, <1>14
<1> QED BY <1>1, <1>7, <1>13, <1>15, <1>16 DEF WalkInv

\* A call that ends keeps it.
LEMMA WalkEnd ==
  ASSUME WalkInv, EndPicture
  PROVE  WalkInv'
<1> DEFINE p == cur.p
           cleared == Cleared(p)
           marked == Marking(p, cleared.l)
           b == cur.buf
<1>1. /\ conf' = conf /\ stream' = stream /\ cur # None /\ cur' = None
      /\ lists' = marked.l
      /\ frameNum' = [frameNum EXCEPT ![b] = IF p.ref THEN S!MarkedNum(p.cmds, p.fn) ELSE @]
  BY DEF EndPicture, config
<1>2. /\ p \in S!AnyPicture /\ b \in conf.pics /\ p.fn \in FrameNums
      /\ Chained(lists) /\ frameNum \in [conf.pics -> FrameNums] /\ conf.c \in Configs
      /\ conf.pics \subseteq Nat
      /\ \A x \in InUse(lists) : lists.node[x].buf \in conf.pics
  BY <1>1, SetupFacts DEF WalkInv
<1>3. p.cmds \in Seq(S!AnyCommand) /\ b \in Nat /\ p.fn \in Int
  BY <1>2, NumFacts DEF S!AnyPicture
<1> HIDE DEF p, b
<1>4. frameNum' \in [conf.pics -> FrameNums]
  BY <1>1, <1>2, NumFacts DEF S!MarkedNum
<1>5. Chained(cleared.l) /\ Comes(lists, cleared.l, b)
  <2>1. CASE Restarts(p)
    <3>1. cleared = D!ResetRefs(lists)
      BY <2>1 DEF Cleared
    <3> QED BY <3>1, <1>2, ResetComes
  <2>2. CASE ~ Restarts(p)
    <3>1. cleared.l = lists
      BY <2>2 DEF Cleared, D!Done
    <3> QED BY <3>1, <1>2 DEF Comes
  <2> QED BY <2>1, <2>2
<1> HIDE DEF cleared
<1>6. Chained(marked.l) /\ Comes(cleared.l, marked.l, b)
  <2>1. CASE p.idr
    <3>1. marked = D!MarkIdr(cleared.l, b, p.isLong)
      BY <2>1 DEF Marking, b
    <3> QED BY <3>1, <1>3, <1>5, MarkIdrComes
  <2>2. CASE ~ p.idr /\ p.ref /\ ~ Erring(p)
    <3>1. marked = D!DoMmcoBuffer(cleared.l, p.adaptive, p.cmds, p.fn, b, conf.c.numRef)
      BY <2>2 DEF Marking, b
    <3> HIDE DEF marked
    <3> QED BY <3>1, <1>3, <1>5, MmcoComes
  <2>3. CASE ~ p.idr /\ ~ (p.ref /\ ~ Erring(p))
    <3>1. marked.l = cleared.l
      BY <2>3 DEF Marking, D!Done
    <3> QED BY <3>1, <1>5 DEF Comes
  <2> QED BY <2>1, <2>2, <2>3
<1> HIDE DEF marked
<1>7. Comes(lists, marked.l, b)
  BY <1>5, <1>6, ComesTwice
<1>8. \A x \in InUse(lists') : lists'.node[x].buf \in conf.pics
  BY <1>1, <1>2, <1>7 DEF Comes, InUse
<1>9. (Chained(lists))' /\ (StreamOK(stream, conf.c))'
  BY <1>1, <1>6 DEF WalkInv
<1> QED BY <1>1, <1>4, <1>8, <1>9 DEF WalkInv

\* A stream whose field fresh is replaced has the same other fields.
LEMMA FreshRecord ==
  ASSUME NEW s, NEW m, NEW p, NEW d, NEW t, NEW u, NEW r, NEW f, NEW v,
         s = [mk |-> m, prev |-> p, period |-> d, sent |-> t, last |-> u, reset |-> r, fresh |-> f]
  PROVE  [s EXCEPT !.fresh = v]
           = [mk |-> m, prev |-> p, period |-> d, sent |-> t, last |-> u, reset |-> r, fresh |-> v]
OBVIOUS

\* Every step keeps it.
LEMMA WalkNext ==
  ASSUME WalkInv, [Next]_vars
  PROVE  WalkInv'
<1>1. conf.c \in Configs /\ StreamOK(stream, conf.c)
  BY SetupFacts DEF WalkInv
<1>2. ASSUME NEW p \in Coming, Refuse(p) \/ Lose(p) PROVE WalkInv'
  <2>1. /\ stream' = S!Advance(stream, p, conf.c)
        /\ UNCHANGED <<conf, frameNum, lists, cur>>
    BY <1>2 DEF Refuse, Lose, Parsed, config, bufs, refs
  <2>2. NextOf(stream, p, conf.c)
    BY <1>1, PictureFacts DEF Coming
  <2>3. StreamOK(stream', conf.c)
    BY <1>1, <2>1, <2>2, AdvanceOK
  <2> QED BY <2>1, <2>3, WalkRest
<1>3. CASE CallFails \/ FlushCall \/ (\E b \in conf.pics : AppRelease(b)) \/ UNCHANGED vars
  <2>1. UNCHANGED <<conf, frameNum, lists, cur, stream>>
    BY <1>3 DEF CallFails, FlushCall, AppRelease, vars, config, refs, order, ghosts
  <2> QED BY <1>1, <2>1, WalkRest
<1>4. CASE FlushStart
  <2>1. /\ UNCHANGED <<conf, frameNum, lists, cur>>
        /\ stream' = IF conf.c.idrNext THEN [stream EXCEPT !.fresh = TRUE] ELSE stream
    BY <1>4 DEF FlushStart, refs
  <2>2. StreamOK(stream', conf.c)
    <3> DEFINE a == [stream EXCEPT !.fresh = TRUE]
    <3>3. stream = [mk |-> stream.mk, prev |-> stream.prev, period |-> stream.period,
                    sent |-> stream.sent, last |-> stream.last, reset |-> stream.reset,
                    fresh |-> stream.fresh]
      BY <1>1 DEF StreamOK
    <3>4. a = [mk |-> stream.mk, prev |-> stream.prev, period |-> stream.period,
               sent |-> stream.sent, last |-> stream.last, reset |-> stream.reset, fresh |-> TRUE]
      <4>1. \A v : [stream EXCEPT !.fresh = v]
                    = [mk |-> stream.mk, prev |-> stream.prev, period |-> stream.period,
                       sent |-> stream.sent, last |-> stream.last, reset |-> stream.reset, fresh |-> v]
        BY <3>3, FreshRecord
      <4> QED BY <4>1, Zenon
    <3> HIDE DEF a
    <3>1. /\ a.mk = stream.mk /\ a.prev = stream.prev /\ a.period = stream.period
          /\ a.sent = stream.sent /\ a.reset = stream.reset /\ a.fresh = TRUE
          /\ a = [mk |-> a.mk, prev |-> a.prev, period |-> a.period, sent |-> a.sent, last |-> a.last,
                  reset |-> a.reset, fresh |-> a.fresh]
      BY <3>4
    <3>2. StreamOK(a, conf.c)
      BY <1>1, <3>1 DEF StreamOK
    <3> QED BY <1>1, <2>1, <3>2 DEF a
  <2> QED BY <2>1, <2>2, WalkRest
<1> QED BY <1>2, <1>3, <1>4, WalkStart, WalkEnd DEF Next

\* What WalkInv says of the lists.
LEMMA WalkImplies == WalkInv => Walkable
<1> SUFFICES ASSUME WalkInv PROVE Walkable
  OBVIOUS
<1>1. PICK s, t : Lists(lists, s, t)
  BY DEF WalkInv, Chained
<1>2. /\ lists \in ListStates /\ lists.nst \in Nat /\ lists.nlt \in Nat /\ lists.node \in [D!Nodes -> NodeStates]
      /\ ShortChain(lists, s) /\ LongChain(lists, t)
  BY <1>1 DEF Lists, ListStates
<1>3. Linked(lists, 0, FALSE)
  BY ChainedLinked DEF WalkInv
<1>4. Cardinality(ShortSet(lists)) = lists.nst /\ Cardinality(LongSet(lists)) = lists.nlt
  BY <1>3, CountFacts
<1>5. Shorts = ShortSet(lists)
  <2>1. \A k \in 1..lists.nst : D!ShortAt(lists, k) = s[k]
    BY <1>2, ShortAtIs
  <2> QED BY <2>1, <1>2 DEF ShortChain, ShortSet, Shorts
<1>6. Longs = LongSet(lists)
  <2>1. \A k \in 1..lists.nlt : D!LongAt(lists, k) = t[k]
    BY <1>2, LongAtIs
  <2> QED BY <2>1, <1>2 DEF LongChain, LongSet, Longs
<1>7. D!Nil \notin Shorts \cup Longs
  BY <1>5, <1>6, NodesFacts DEF ShortSet, LongSet
<1>8. NoBuf \notin Listed
  <2>1. \A n \in Shorts \cup Longs : n \in InUse(lists)
    BY <1>5, <1>6 DEF ShortSet, LongSet, ShortUse, LongUse, InUse
  <2>2. conf.pics \subseteq Nat
    BY SetupFacts DEF WalkInv
  <2>3. \A n \in Shorts \cup Longs : lists.node[n].buf \in Nat
    BY <2>1, <2>2 DEF WalkInv
  <2> QED BY <2>3, NodesFacts DEF Listed
<1>9. /\ {n \in D!Nodes : lists.node[n].use = "short"} = ShortSet(lists)
      /\ {n \in D!Nodes : lists.node[n].use = "long"} = LongSet(lists)
  BY DEF ShortSet, LongSet, ShortUse, LongUse
<1> QED BY <1>4, <1>5, <1>6, <1>7, <1>8, <1>9 DEF Walkable

\* The lists can be walked after every step, of streams that lose pictures too,
\* whatever the sizes (the links that ih264d_dpb_mgr.c follows by its counts).
THEOREM Walks == Spec => []Walkable
<1>1. Init => WalkInv
  BY WalkInit
<1>2. WalkInv /\ [Next]_vars => WalkInv'
  BY WalkNext
<1> QED BY <1>1, <1>2, WalkImplies, PTL DEF Spec

-----------------------------------------------------------------------------
(* The lists and the marking of the stream. *)

\* The picture in a node, in buffer terms: h tells which picture a buffer holds
\* and fn its frame number.
PicOf(l, x, h, fn) == [pic |-> h[l.node[x].buf], fn |-> fn[l.node[x].buf]]

\* The short-term nodes are the short-term pictures of the marking.
AgreeShort(l, mk, h, fn) ==
  /\ \A x \in D!Nodes : ShortUse(l, x) => PicOf(l, x, h, fn) \in mk.short
  /\ \A e \in mk.short : \E x \in D!Nodes : ShortUse(l, x) /\ PicOf(l, x, h, fn) = e
  /\ \A x, y \in D!Nodes :
       ShortUse(l, x) /\ ShortUse(l, y) /\ fn[l.node[x].buf] = fn[l.node[y].buf] => x = y

\* The long-term nodes are its long-term pictures.
AgreeLong(l, mk, h) ==
  /\ \A x \in D!Nodes : LongUse(l, x) => /\ l.node[x].lt \in DOMAIN mk.long
                                         /\ mk.long[l.node[x].lt] = h[l.node[x].buf]
  /\ \A i \in DOMAIN mk.long : \E x \in D!Nodes : LongUse(l, x) /\ l.node[x].lt = i

\* No buffer is listed twice, and the lists say what the marking says.
OnePlace(l) == \A x, y \in InUse(l) : l.node[x].buf = l.node[y].buf => x = y
Agree(l, mk, h, fn) ==
  /\ AgreeShort(l, mk, h, fn) /\ AgreeLong(l, mk, h) /\ OnePlace(l)
  /\ mk.max >= 0 => l.max = mk.max

\* The short-term nodes have their picture numbers, and are in their order.
Nums(l) == [x \in D!Nodes |-> l.node[x].num]
Numbered(l, fn, cur0) ==
  \A x \in D!Nodes : ShortUse(l, x) => /\ fn[l.node[x].buf] \in FrameNums
                                       /\ l.node[x].num = S!Wrap(fn[l.node[x].buf], cur0)
Mid(l, mk, h, fn, cur0) ==
  Agree(l, mk, h, fn) /\ Numbered(l, fn, cur0) /\ Linked(l, Nums(l), TRUE)

\* From l to m buffers only leave the lists, those in rel.
Bufs(l) == {l.node[x].buf : x \in InUse(l)}
Gives(l, m, rel) ==
  /\ \A x \in InUse(m) : x \in InUse(l) /\ m.node[x].buf = l.node[x].buf
  /\ rel = {l.node[x].buf : x \in InUse(l) \ InUse(m)}

\* The order along the short-term list may be given by another function that
\* is the same for its nodes.
LEMMA Relink ==
  ASSUME NEW l, NEW f, NEW g, Linked(l, f, TRUE),
         \A x \in D!Nodes : ShortUse(l, x) => g[x] = f[x]
  PROVE  Linked(l, g, TRUE)
<1>1. PICK s, t : Lists(l, s, t) /\ Falling(l, s, f)
  BY DEF Linked
<1>2. ShortChain(l, s) /\ l.nst \in Nat
  BY <1>1 DEF Lists, ListStates
<1>3. Falling(l, s, g)
  BY <1>1, <1>2, FallingSame
<1> QED BY <1>1, <1>3 DEF Linked

\* What is left of the short-term list keeps its numbers and its order.
LEMMA RestNumbered ==
  ASSUME NEW l, NEW m, NEW fn, NEW cur0, Numbered(l, fn, cur0), Linked(m, Nums(l), TRUE),
         \A x \in D!Nodes : ShortUse(m, x) => Same(l, m, x)
  PROVE  Numbered(m, fn, cur0) /\ Linked(m, Nums(m), TRUE)
<1>1. \A x \in D!Nodes : ShortUse(m, x) => ShortUse(l, x)
  BY DEF Same, ShortUse
<1>2. \A x \in D!Nodes : ShortUse(m, x) => Nums(m)[x] = Nums(l)[x]
  BY DEF Same, Nums
<1>3. Linked(m, Nums(m), TRUE)
  BY <1>2, Relink
<1>4. Numbered(m, fn, cur0)
  BY <1>1 DEF Numbered, Same
<1> QED BY <1>3, <1>4

\* A short-term node and its picture leave.
LEMMA DropShortAgrees ==
  ASSUME NEW l, NEW m, NEW mk, NEW k, NEW h, NEW fn, Agree(l, mk, h, fn),
         NEW n \in D!Nodes, ShortUse(l, n), m.node[n].use = "no",
         \A x \in D!Nodes : x # n => Same(l, m, x), m.max = l.max,
         k.short = mk.short \ {PicOf(l, n, h, fn)}, k.long = mk.long, k.max = mk.max
  PROVE  Agree(m, k, h, fn)
<1>1. \A x \in D!Nodes : /\ ShortUse(m, x) <=> ShortUse(l, x) /\ x # n
                         /\ LongUse(m, x) <=> LongUse(l, x)
                         /\ x # n => Same(l, m, x)
                         /\ x # n => PicOf(m, x, h, fn) = PicOf(l, x, h, fn)
  BY DEF Same, ShortUse, LongUse, PicOf
<1>2. AgreeShort(l, mk, h, fn) /\ AgreeLong(l, mk, h) /\ OnePlace(l)
  BY DEF Agree
<1>3. \A x \in D!Nodes : ShortUse(l, x) /\ x # n => PicOf(l, x, h, fn) # PicOf(l, n, h, fn)
  BY <1>2 DEF AgreeShort, PicOf
<1>4. AgreeShort(m, k, h, fn)
  <2>1. \A x \in D!Nodes : ShortUse(m, x) => PicOf(m, x, h, fn) \in k.short
    BY <1>1, <1>2, <1>3 DEF AgreeShort
  <2>2. \A e \in k.short : \E x \in D!Nodes : ShortUse(m, x) /\ PicOf(m, x, h, fn) = e
    <3> SUFFICES ASSUME NEW e \in k.short PROVE \E x \in D!Nodes : ShortUse(m, x) /\ PicOf(m, x, h, fn) = e
      OBVIOUS
    <3>1. e \in mk.short /\ e # PicOf(l, n, h, fn)
      OBVIOUS
    <3>2. PICK x \in D!Nodes : ShortUse(l, x) /\ PicOf(l, x, h, fn) = e
      BY <3>1, <1>2 DEF AgreeShort
    <3> QED BY <3>1, <3>2, <1>1
  <2>3. \A x, y \in D!Nodes :
          ShortUse(m, x) /\ ShortUse(m, y) /\ fn[m.node[x].buf] = fn[m.node[y].buf] => x = y
    BY <1>1, <1>2 DEF AgreeShort, Same
  <2> QED BY <2>1, <2>2, <2>3 DEF AgreeShort
<1>5. \A x \in D!Nodes : LongUse(l, x) => x # n
  BY DEF LongUse, ShortUse
<1>6. AgreeLong(m, k, h)
  BY <1>1, <1>2, <1>5 DEF AgreeLong, Same
<1>7. OnePlace(m)
  BY <1>1, <1>2 DEF OnePlace, InUse, Same
<1> QED BY <1>4, <1>6, <1>7 DEF Agree

\* The long-term nodes with an index in X, and their pictures, leave.
LEMMA DropLongAgrees ==
  ASSUME NEW l, NEW m, NEW mk, NEW k, NEW h, NEW fn, Agree(l, mk, h, fn), NEW K, NEW X,
         K = {x \in D!Nodes : LongUse(l, x) /\ l.node[x].lt \in X},
         \A x \in K : m.node[x].use = "no",
         \A x \in D!Nodes : x \notin K => Same(l, m, x), k.max >= 0 => m.max = k.max,
         k.short = mk.short, DOMAIN k.long = DOMAIN mk.long \ X,
         \A i \in DOMAIN k.long : k.long[i] = mk.long[i]
  PROVE  Agree(m, k, h, fn)
<1>1. \A x \in D!Nodes : /\ ShortUse(m, x) <=> ShortUse(l, x)
                         /\ LongUse(m, x) <=> LongUse(l, x) /\ x \notin K
                         /\ x \notin K => Same(l, m, x)
                         /\ ShortUse(l, x) => x \notin K /\ PicOf(m, x, h, fn) = PicOf(l, x, h, fn)
  BY DEF Same, ShortUse, LongUse, PicOf
<1>2. AgreeShort(l, mk, h, fn) /\ AgreeLong(l, mk, h) /\ OnePlace(l)
  BY DEF Agree
<1>4. AgreeShort(m, k, h, fn)
  BY <1>1, <1>2 DEF AgreeShort, Same
<1>5. \A x \in D!Nodes : LongUse(l, x) /\ x \notin K => l.node[x].lt \notin X
  OBVIOUS
<1>6. AgreeLong(m, k, h)
  <2>1. \A x \in D!Nodes : LongUse(m, x) => /\ m.node[x].lt \in DOMAIN k.long
                                            /\ k.long[m.node[x].lt] = h[m.node[x].buf]
    BY <1>1, <1>2, <1>5 DEF AgreeLong, Same
  <2>2. ASSUME NEW i \in DOMAIN k.long PROVE \E x \in D!Nodes : LongUse(m, x) /\ m.node[x].lt = i
    <3>1. i \in DOMAIN mk.long /\ i \notin X
      OBVIOUS
    <3>2. PICK x \in D!Nodes : LongUse(l, x) /\ l.node[x].lt = i
      BY <3>1, <1>2 DEF AgreeLong
    <3> QED BY <3>1, <3>2, <1>1 DEF Same
  <2> QED BY <2>1, <2>2 DEF AgreeLong
<1>7. OnePlace(m)
  <2>1. \A x \in InUse(m) : x \notin K /\ Same(l, m, x) /\ x \in InUse(l)
    BY DEF InUse, Same
  <2> QED BY <2>1, <1>2 DEF OnePlace, Same
<1> QED BY <1>4, <1>6, <1>7 DEF Agree

\* A short-term node takes an index, and with it its picture, from those that have it.
LEMMA MoveAgrees ==
  ASSUME NEW l, NEW m, NEW mk, NEW k, NEW h, NEW fn, Agree(l, mk, h, fn), NEW idx,
         NEW n \in D!Nodes, ShortUse(l, n), m.node[n].use = "long", m.node[n].lt = idx,
         m.node[n].buf = l.node[n].buf, \A x \in WithIdx(l, idx) : m.node[x].use = "no",
         \A x \in D!Nodes : x # n /\ x \notin WithIdx(l, idx) => Same(l, m, x), m.max = l.max,
         k.short = mk.short \ {PicOf(l, n, h, fn)}, DOMAIN k.long = DOMAIN mk.long \cup {idx},
         k.long[idx] = h[l.node[n].buf], \A i \in DOMAIN mk.long : i # idx => k.long[i] = mk.long[i],
         k.max = mk.max
  PROVE  Agree(m, k, h, fn)
<1> DEFINE K == WithIdx(l, idx)
<1>0. \A x \in D!Nodes : x \in K <=> LongUse(l, x) /\ l.node[x].lt = idx
  BY DEF WithIdx
<1>8. \A x \in K : x \in D!Nodes /\ m.node[x].use = "no"
  BY DEF WithIdx
<1>9. n \notin K
  BY <1>0 DEF LongUse, ShortUse
<1>10. \A x \in D!Nodes : x # n /\ x \notin K => Same(l, m, x)
  OBVIOUS
<1> HIDE DEF K
<1>1. \A x \in D!Nodes : /\ ShortUse(m, x) <=> ShortUse(l, x) /\ x # n
                         /\ LongUse(m, x) <=> (LongUse(l, x) /\ x \notin K) \/ x = n
                         /\ ShortUse(m, x) => Same(l, m, x) /\ PicOf(m, x, h, fn) = PicOf(l, x, h, fn)
                         /\ ShortUse(l, x) /\ x # n => ShortUse(m, x)
                         /\ LongUse(l, x) /\ x \notin K => x # n /\ Same(l, m, x)
                         /\ LongUse(m, x) /\ x # n => x \notin K /\ LongUse(l, x) /\ Same(l, m, x)
  BY <1>0, <1>8, <1>9, <1>10 DEF Same, ShortUse, LongUse, PicOf
<1>2. AgreeShort(l, mk, h, fn) /\ AgreeLong(l, mk, h) /\ OnePlace(l)
  BY DEF Agree
<1>3. \A x \in D!Nodes : ShortUse(l, x) /\ x # n => PicOf(l, x, h, fn) # PicOf(l, n, h, fn)
  BY <1>2 DEF AgreeShort, PicOf
<1>4. AgreeShort(m, k, h, fn)
  <2>1. \A x \in D!Nodes : ShortUse(m, x) => PicOf(m, x, h, fn) \in k.short
    BY <1>1, <1>2, <1>3 DEF AgreeShort
  <2>2. ASSUME NEW e \in k.short PROVE \E x \in D!Nodes : ShortUse(m, x) /\ PicOf(m, x, h, fn) = e
    <3>1. e \in mk.short /\ e # PicOf(l, n, h, fn)
      OBVIOUS
    <3>2. PICK x \in D!Nodes : ShortUse(l, x) /\ PicOf(l, x, h, fn) = e
      BY <3>1, <1>2 DEF AgreeShort
    <3> QED BY <3>1, <3>2, <1>1
  <2>3. \A x, y \in D!Nodes :
          ShortUse(m, x) /\ ShortUse(m, y) /\ fn[m.node[x].buf] = fn[m.node[y].buf] => x = y
    BY <1>1, <1>2 DEF AgreeShort, Same
  <2> QED BY <2>1, <2>2, <2>3 DEF AgreeShort
<1>6. AgreeLong(m, k, h)
  <2>1. ASSUME NEW x \in D!Nodes, LongUse(m, x)
        PROVE  m.node[x].lt \in DOMAIN k.long /\ k.long[m.node[x].lt] = h[m.node[x].buf]
    <3>1. CASE x = n
      BY <3>1
    <3>2. CASE x # n
      <4>1. LongUse(l, x) /\ l.node[x].lt # idx /\ Same(l, m, x)
        BY <3>2, <2>1, <1>0, <1>1
      <4> QED BY <4>1, <1>2 DEF AgreeLong, Same
    <3> QED BY <3>1, <3>2
  <2>2. ASSUME NEW i \in DOMAIN k.long PROVE \E x \in D!Nodes : LongUse(m, x) /\ m.node[x].lt = i
    <3>1. CASE i = idx
      BY <3>1, <1>1
    <3>2. CASE i # idx
      <4>1. i \in DOMAIN mk.long
        BY <3>2
      <4>2. PICK x \in D!Nodes : LongUse(l, x) /\ l.node[x].lt = i
        BY <4>1, <1>2 DEF AgreeLong
      <4> QED BY <3>2, <4>2, <1>0, <1>1 DEF Same
    <3> QED BY <3>1, <3>2
  <2> QED BY <2>1, <2>2 DEF AgreeLong
<1>7. OnePlace(m)
  <2>1. \A x \in InUse(m) : x \in InUse(l) /\ m.node[x].buf = l.node[x].buf
    BY <1>8, <1>10 DEF InUse, Same, ShortUse
  <2> QED BY <2>1, <1>2 DEF OnePlace
<1> QED BY <1>4, <1>6, <1>7 DEF Agree

\* A buffer that is not listed gets a node, and its picture an index.
LEMMA AddLongAgrees ==
  ASSUME NEW l, NEW m, NEW mk, NEW k, NEW h, NEW fn, Agree(l, mk, h, fn), NEW idx, NEW b,
         NEW n \in D!Nodes, l.node[n].use = "no", m.node[n].use = "long", m.node[n].lt = idx,
         m.node[n].buf = b, \A x \in InUse(l) : l.node[x].buf # b,
         \A x \in WithIdx(l, idx) : m.node[x].use = "no",
         \A x \in D!Nodes : x # n /\ x \notin WithIdx(l, idx) => Same(l, m, x),
         k.max >= 0 => m.max = k.max,
         k.short = mk.short, DOMAIN k.long = DOMAIN mk.long \cup {idx},
         k.long[idx] = h[b], \A i \in DOMAIN mk.long : i # idx => k.long[i] = mk.long[i]
  PROVE  Agree(m, k, h, fn)
<1> DEFINE K == WithIdx(l, idx)
<1>0. \A x \in D!Nodes : x \in K <=> LongUse(l, x) /\ l.node[x].lt = idx
  BY DEF WithIdx
<1>8. \A x \in K : x \in D!Nodes /\ m.node[x].use = "no"
  BY DEF WithIdx
<1>10. \A x \in D!Nodes : x # n /\ x \notin K => Same(l, m, x)
  OBVIOUS
<1> HIDE DEF K
<1>1. \A x \in D!Nodes : /\ ShortUse(m, x) <=> ShortUse(l, x)
                         /\ ShortUse(l, x) => Same(l, m, x) /\ PicOf(m, x, h, fn) = PicOf(l, x, h, fn)
                         /\ LongUse(l, x) /\ x \notin K => LongUse(m, x) /\ x # n /\ Same(l, m, x)
                         /\ LongUse(m, x) /\ x # n => x \notin K /\ LongUse(l, x) /\ Same(l, m, x)
  BY <1>0, <1>8, <1>10 DEF Same, ShortUse, LongUse, PicOf
<1>2. AgreeShort(l, mk, h, fn) /\ AgreeLong(l, mk, h) /\ OnePlace(l)
  BY DEF Agree
<1>4. AgreeShort(m, k, h, fn)
  BY <1>1, <1>2 DEF AgreeShort, Same
<1>6. AgreeLong(m, k, h)
  <2>1. ASSUME NEW x \in D!Nodes, LongUse(m, x)
        PROVE  m.node[x].lt \in DOMAIN k.long /\ k.long[m.node[x].lt] = h[m.node[x].buf]
    <3>1. CASE x = n
      BY <3>1
    <3>2. CASE x # n
      <4>1. LongUse(l, x) /\ l.node[x].lt # idx /\ Same(l, m, x)
        BY <3>2, <2>1, <1>0, <1>1
      <4> QED BY <4>1, <1>2 DEF AgreeLong, Same
    <3> QED BY <3>1, <3>2
  <2>2. ASSUME NEW i \in DOMAIN k.long PROVE \E x \in D!Nodes : LongUse(m, x) /\ m.node[x].lt = i
    <3>1. CASE i = idx
      BY <3>1 DEF LongUse
    <3>2. CASE i # idx
      <4>1. i \in DOMAIN mk.long
        BY <3>2
      <4>2. PICK x \in D!Nodes : LongUse(l, x) /\ l.node[x].lt = i
        BY <4>1, <1>2 DEF AgreeLong
      <4> QED BY <3>2, <4>2, <1>0, <1>1 DEF Same
    <3> QED BY <3>1, <3>2
  <2> QED BY <2>1, <2>2 DEF AgreeLong
<1>7. OnePlace(m)
  <2>1. \A x \in InUse(m) : x # n => x \in InUse(l) /\ m.node[x].buf = l.node[x].buf
    BY <1>8, <1>10 DEF InUse, Same
  <2> QED BY <2>1, <1>2 DEF OnePlace
<1> QED BY <1>4, <1>6, <1>7 DEF Agree

\* A buffer that is not listed gets a node, for a picture with a new frame number.
LEMMA AddShortAgrees ==
  ASSUME NEW l, NEW m, NEW mk, NEW k, NEW h, NEW fn, NEW gn, Agree(l, mk, h, fn), NEW b,
         NEW n \in D!Nodes, l.node[n].use = "no", m.node[n].use = "short",
         m.node[n].buf = b, \A x \in InUse(l) : l.node[x].buf # b /\ gn[l.node[x].buf] = fn[l.node[x].buf],
         \A x \in D!Nodes : x # n => Same(l, m, x),
         k.max >= 0 => m.max = k.max, k.long = mk.long,
         gn[b] \notin {e.fn : e \in mk.short},
         k.short = mk.short \cup {[pic |-> h[b], fn |-> gn[b]]}
  PROVE  Agree(m, k, h, gn)
<1>1. \A x \in D!Nodes : /\ ShortUse(m, x) <=> ShortUse(l, x) \/ x = n
                         /\ ShortUse(l, x) => x # n /\ Same(l, m, x) /\ PicOf(m, x, h, gn) = PicOf(l, x, h, fn)
                         /\ LongUse(m, x) <=> LongUse(l, x)
                         /\ LongUse(l, x) => Same(l, m, x)
  BY DEF Same, ShortUse, LongUse, PicOf, InUse
<1>2. AgreeShort(l, mk, h, fn) /\ AgreeLong(l, mk, h) /\ OnePlace(l)
  BY DEF Agree
<1>3. PicOf(m, n, h, gn) = [pic |-> h[b], fn |-> gn[b]]
  BY DEF PicOf
<1>5. \A x \in D!Nodes : ShortUse(l, x) => gn[m.node[x].buf] # gn[b]
  <2> SUFFICES ASSUME NEW x \in D!Nodes, ShortUse(l, x) PROVE gn[m.node[x].buf] # gn[b]
    OBVIOUS
  <2>1. PicOf(l, x, h, fn) \in mk.short /\ PicOf(l, x, h, fn).fn = fn[l.node[x].buf]
    BY <1>2 DEF AgreeShort, PicOf
  <2>2. gn[m.node[x].buf] = fn[l.node[x].buf]
    BY <1>1 DEF Same, InUse, ShortUse
  <2>3. fn[l.node[x].buf] \in {e.fn : e \in mk.short}
    BY <2>1
  <2> QED BY <2>2, <2>3
<1>4. AgreeShort(m, k, h, gn)
  <2>1. \A x \in D!Nodes : ShortUse(m, x) => PicOf(m, x, h, gn) \in k.short
    BY <1>1, <1>2, <1>3 DEF AgreeShort
  <2>2. ASSUME NEW e \in k.short PROVE \E x \in D!Nodes : ShortUse(m, x) /\ PicOf(m, x, h, gn) = e
    <3>1. CASE e \in mk.short
      <4>1. PICK x \in D!Nodes : ShortUse(l, x) /\ PicOf(l, x, h, fn) = e
        BY <3>1, <1>2 DEF AgreeShort
      <4> QED BY <4>1, <1>1
    <3>2. CASE e \notin mk.short
      <4>1. e = PicOf(m, n, h, gn)
        BY <3>2, <1>3
      <4> QED BY <4>1, <1>1
    <3> QED BY <3>1, <3>2
  <2>3. ASSUME NEW x \in D!Nodes, NEW y \in D!Nodes, ShortUse(m, x), ShortUse(m, y),
               gn[m.node[x].buf] = gn[m.node[y].buf]
        PROVE  x = y
    <3>1. ShortUse(l, x) /\ ShortUse(l, y) => x = y
      <4>1. \A z \in D!Nodes : ShortUse(l, z) => gn[m.node[z].buf] = fn[l.node[z].buf]
        BY <1>1 DEF Same, InUse, ShortUse
      <4> QED BY <4>1, <2>3, <1>2 DEF AgreeShort
    <3>2. gn[m.node[n].buf] = gn[b]
      OBVIOUS
    <3> QED BY <3>1, <3>2, <2>3, <1>1, <1>5
  <2> QED BY <2>1, <2>2, <2>3 DEF AgreeShort
<1>6. AgreeLong(m, k, h)
  BY <1>1, <1>2 DEF AgreeLong, Same
<1>7. OnePlace(m)
  <2>1. \A x \in InUse(m) : x # n => x \in InUse(l) /\ m.node[x].buf = l.node[x].buf
    BY DEF InUse, Same
  <2> QED BY <2>1, <1>2 DEF OnePlace
<1> QED BY <1>4, <1>6, <1>7 DEF Agree

-----------------------------------------------------------------------------
(* The commands keep the lists in step with the marking. *)

\* Where lists have a node in use, their count says so.
LEMMA NodeCounts ==
  ASSUME NEW l, NEW f, NEW ord, Linked(l, f, ord), NEW x \in D!Nodes
  PROVE  /\ ShortUse(l, x) => l.nst > 0
         /\ LongUse(l, x) => l.nlt > 0 /\ D!HasLong(l, l.node[x].lt)
<1>1. PICK s, t : Lists(l, s, t)
  BY DEF Linked
<1>2. l.nst \in Nat /\ l.nlt \in Nat /\ ShortChain(l, s) /\ LongChain(l, t) /\ l \in ListStates
  BY <1>1 DEF Lists, ListStates
<1>3. ShortUse(l, x) => \E i \in 1..l.nst : s[i] = x
  BY <1>2 DEF ShortChain
<1>4. ASSUME LongUse(l, x) PROVE l.nlt > 0 /\ D!HasLong(l, l.node[x].lt)
  <2>1. PICK i \in 1..l.nlt : t[i] = x
    BY <1>2, <1>4 DEF LongChain
  <2>2. D!LongAt(l, i) = x
    BY <2>1, <1>2, LongAtIs
  <2> QED BY <2>1, <2>2, <1>2 DEF D!HasLong
<1> QED BY <1>2, <1>3, <1>4

\* The node of a picture has its number, and a node with it has the picture.
LEMMA NumberedNode ==
  ASSUME NEW l, NEW mk, NEW h, NEW fn, NEW cur0 \in FrameNums, IsMarking(mk),
         AgreeShort(l, mk, h, fn), Numbered(l, fn, cur0), NEW e \in mk.short
  PROVE  /\ \E x \in D!Nodes : ShortUse(l, x) /\ l.node[x].num = S!Wrap(e.fn, cur0)
         /\ \A x \in D!Nodes : ShortUse(l, x) /\ l.node[x].num = S!Wrap(e.fn, cur0)
                               => PicOf(l, x, h, fn) = e
<1>1. \A x \in D!Nodes : ShortUse(l, x) =>
         /\ PicOf(l, x, h, fn) \in mk.short /\ PicOf(l, x, h, fn).fn \in FrameNums
         /\ l.node[x].num = S!Wrap(PicOf(l, x, h, fn).fn, cur0)
  BY DEF AgreeShort, Numbered, PicOf
<1>2. \E x \in D!Nodes : ShortUse(l, x) /\ PicOf(l, x, h, fn) = e
  BY DEF AgreeShort
<1>3. e.fn \in FrameNums
  BY DEF IsMarking, FrameNums
<1>4. ASSUME NEW x \in D!Nodes, ShortUse(l, x), l.node[x].num = S!Wrap(e.fn, cur0)
      PROVE  PicOf(l, x, h, fn) = e
  <2> DEFINE g == PicOf(l, x, h, fn)
  <2>1. g \in mk.short /\ g.fn \in FrameNums /\ S!Wrap(g.fn, cur0) = S!Wrap(e.fn, cur0)
    BY <1>1, <1>4
  <2> HIDE DEF g
  <2>2. g.fn = e.fn
    BY <2>1, <1>3, WrapFacts
  <2>3. g = e
    BY <2>1, <2>2 DEF IsMarking
  <2> QED BY <2>3 DEF g
<1> QED BY <1>1, <1>2, <1>4

\* What a command of the lists does where the stream's marking becomes k.
Obeyed(l, r, k, h, fn, cur0) ==
  r.ok = TRUE /\ Mid(r.l, k, h, fn, cur0) /\ Gives(l, r.l, r.rel)

\* The lists drop the short-term picture the marking drops.
LEMMA DeleteShortObeyed ==
  ASSUME NEW l, NEW mk, NEW h, NEW fn, NEW cur0 \in FrameNums, IsMarking(mk),
         Mid(l, mk, h, fn, cur0), NEW e \in mk.short, NEW k,
         k.short = {g \in mk.short : S!Wrap(g.fn, cur0) # S!Wrap(e.fn, cur0)},
         k.long = mk.long, k.max = mk.max
  PROVE  Obeyed(l, D!DeleteShort(l, S!Wrap(e.fn, cur0)), k, h, fn, cur0)
<1> DEFINE r == D!DeleteShort(l, S!Wrap(e.fn, cur0))
<1>1. Agree(l, mk, h, fn) /\ Numbered(l, fn, cur0) /\ Linked(l, Nums(l), TRUE)
  BY DEF Mid
<1>2. AgreeShort(l, mk, h, fn)
  BY <1>1 DEF Agree
<1>3. \E x \in D!Nodes : ShortUse(l, x) /\ l.node[x].num = S!Wrap(e.fn, cur0)
  BY <1>1, <1>2, NumberedNode
<1>4. /\ Linked(r.l, Nums(l), TRUE) /\ r.l.max = l.max /\ r.ok = TRUE
      /\ \E n \in D!Nodes :
            /\ ShortUse(l, n) /\ l.node[n].num = S!Wrap(e.fn, cur0)
            /\ r.l.node[n].use = "no" /\ r.rel = {l.node[n].buf}
            /\ \A x \in D!Nodes : x # n => Same(l, r.l, x)
  BY <1>1, <1>3, DeleteShortFacts
<1> HIDE DEF r
<1>5. PICK n \in D!Nodes :
            /\ ShortUse(l, n) /\ l.node[n].num = S!Wrap(e.fn, cur0)
            /\ r.l.node[n].use = "no" /\ r.rel = {l.node[n].buf}
            /\ \A x \in D!Nodes : x # n => Same(l, r.l, x)
  BY <1>4
<1>6. PicOf(l, n, h, fn) = e
  BY <1>1, <1>2, <1>5, NumberedNode
<1>7. k.short = mk.short \ {PicOf(l, n, h, fn)}
  <2>1. \A g \in mk.short : S!Wrap(g.fn, cur0) = S!Wrap(e.fn, cur0) => g = e
    <3> SUFFICES ASSUME NEW g \in mk.short, S!Wrap(g.fn, cur0) = S!Wrap(e.fn, cur0) PROVE g = e
      OBVIOUS
    <3>1. g.fn \in FrameNums /\ e.fn \in FrameNums
      BY DEF IsMarking, FrameNums
    <3>2. g.fn = e.fn
      BY <3>1, WrapFacts
    <3> QED BY <3>2 DEF IsMarking
  <2> QED BY <2>1, <1>6
<1>8. Agree(r.l, k, h, fn)
  BY <1>1, <1>4, <1>5, <1>7, DropShortAgrees
<1>9. \A x \in D!Nodes : ShortUse(r.l, x) => Same(l, r.l, x)
  BY <1>5 DEF ShortUse
<1>10. Numbered(r.l, fn, cur0) /\ Linked(r.l, Nums(r.l), TRUE)
  BY <1>1, <1>4, <1>9, RestNumbered
<1>11. Gives(l, r.l, r.rel)
  BY <1>5 DEF Gives, InUse, Same, ShortUse
<1> QED BY <1>4, <1>8, <1>10, <1>11 DEF Obeyed, Mid, r

\* The lists lose the nodes K, those with an index in X, and so does the marking.
Drops(l, r, f, K, X, mk, k) ==
  /\ r.ok = TRUE /\ Linked(r.l, f, TRUE)
  /\ K = {x \in D!Nodes : LongUse(l, x) /\ l.node[x].lt \in X}
  /\ \A x \in K : r.l.node[x].use = "no"
  /\ \A x \in D!Nodes : x \notin K => Same(l, r.l, x)
  /\ r.rel = {l.node[x].buf : x \in K}
  /\ k.max >= 0 => r.l.max = k.max
  /\ k.short = mk.short /\ DOMAIN k.long = DOMAIN mk.long \ X
  /\ \A i \in DOMAIN k.long : k.long[i] = mk.long[i]

\* The lists drop the long-term pictures the marking drops.
LEMMA DropLongObeyed ==
  ASSUME NEW l, NEW mk, NEW h, NEW fn, NEW cur0, Mid(l, mk, h, fn, cur0),
         NEW r, NEW K, NEW X, NEW k, Drops(l, r, Nums(l), K, X, mk, k)
  PROVE  Obeyed(l, r, k, h, fn, cur0)
<1>0. /\ r.ok = TRUE /\ Linked(r.l, Nums(l), TRUE)
      /\ K = {x \in D!Nodes : LongUse(l, x) /\ l.node[x].lt \in X}
      /\ \A x \in K : r.l.node[x].use = "no"
      /\ \A x \in D!Nodes : x \notin K => Same(l, r.l, x)
      /\ r.rel = {l.node[x].buf : x \in K}
      /\ k.max >= 0 => r.l.max = k.max
      /\ k.short = mk.short /\ DOMAIN k.long = DOMAIN mk.long \ X
      /\ \A i \in DOMAIN k.long : k.long[i] = mk.long[i]
  BY DEF Drops
<1>1. Agree(l, mk, h, fn) /\ Numbered(l, fn, cur0)
  BY DEF Mid
<1>2. Agree(r.l, k, h, fn)
  BY <1>0, <1>1, DropLongAgrees
<1>3. \A x \in D!Nodes : ShortUse(r.l, x) => Same(l, r.l, x)
  BY <1>0 DEF ShortUse
<1>4. Numbered(r.l, fn, cur0) /\ Linked(r.l, Nums(r.l), TRUE)
  BY <1>0, <1>1, <1>3, RestNumbered
<1>5. Gives(l, r.l, r.rel)
  <2>1. \A x \in D!Nodes : x \in InUse(l) /\ x \notin InUse(r.l) <=> x \in K
    BY <1>0 DEF InUse, Same, LongUse
  <2>2. \A x \in InUse(r.l) : x \in InUse(l) /\ r.l.node[x].buf = l.node[x].buf
    BY <1>0 DEF InUse, Same
  <2>3. InUse(l) \ InUse(r.l) = K
    BY <1>0, <2>1 DEF InUse
  <2> QED BY <1>0, <2>2, <2>3 DEF Gives
<1> QED BY <1>0, <1>2, <1>4, <1>5 DEF Obeyed, Mid

\* Command 3 where a node has the number it names.
MakesLong(l, r, f, num, idx) ==
  /\ Linked(r.l, f, TRUE) /\ r.l.max = l.max /\ r.ok = TRUE
  /\ r.rel = {l.node[x].buf : x \in WithIdx(l, idx)}
  /\ \A x \in WithIdx(l, idx) : r.l.node[x].use = "no"
  /\ \E n \in D!Nodes :
        /\ ShortUse(l, n) /\ l.node[n].num = num
        /\ r.l.node[n].use = "long" /\ r.l.node[n].lt = idx
        /\ r.l.node[n].buf = l.node[n].buf
        /\ \A x \in D!Nodes : x # n /\ x \notin WithIdx(l, idx) => Same(l, r.l, x)

\* A number that is named is found.
LEMMA MakeLongNamed ==
  ASSUME NEW l, NEW f, Linked(l, f, TRUE), NEW num, NEW idx \in Nat,
         \E x \in D!Nodes : ShortUse(l, x) /\ l.node[x].num = num,
         NEW r, r = D!MakeLong(l, num, idx)
  PROVE  MakesLong(l, r, f, num, idx)
<1> DEFINE d == D!MakeLong(l, num, idx)
           Q == \E x \in D!Nodes : ShortUse(l, x) /\ l.node[x].num = num
           R == /\ d.ok = TRUE /\ d.rel = {l.node[x].buf : x \in WithIdx(l, idx)}
                /\ \A x \in WithIdx(l, idx) : d.l.node[x].use = "no"
                /\ \E n \in D!Nodes :
                      /\ ShortUse(l, n) /\ l.node[n].num = num
                      /\ d.l.node[n].use = "long" /\ d.l.node[n].lt = idx
                      /\ d.l.node[n].buf = l.node[n].buf
                      /\ \A x \in D!Nodes : x # n /\ x \notin WithIdx(l, idx) => Same(l, d.l, x)
<1>1. Linked(d.l, f, TRUE) /\ d.l.max = l.max /\ IF Q THEN R ELSE d = D!Fail(l)
  BY MakeLongFacts
<1>2. Q
  OBVIOUS
<1>3. r = d
  OBVIOUS
<1>4. R
  <2> HIDE DEF Q, R
  <2> QED BY <1>1, <1>2
<1> HIDE DEF Q, d
<1> QED BY <1>1, <1>3, <1>4 DEF MakesLong

\* A short-term picture becomes long-term in both.
LEMMA MakeLongObeyed ==
  ASSUME NEW l, NEW mk, NEW h, NEW fn, NEW cur0 \in FrameNums, IsMarking(mk),
         Mid(l, mk, h, fn, cur0), NEW e \in mk.short, NEW idx \in Nat, NEW k,
         k.short = mk.short \ {e}, k.long = S!With(mk.long, idx, e.pic), k.max = mk.max
  PROVE  Obeyed(l, D!MakeLong(l, S!Wrap(e.fn, cur0), idx), k, h, fn, cur0)
<1> DEFINE r == D!MakeLong(l, S!Wrap(e.fn, cur0), idx)
           K == WithIdx(l, idx)
<1>1. Agree(l, mk, h, fn) /\ Numbered(l, fn, cur0) /\ Linked(l, Nums(l), TRUE)
  BY DEF Mid
<1>2. AgreeShort(l, mk, h, fn)
  BY <1>1 DEF Agree
<1>3. \E x \in D!Nodes : ShortUse(l, x) /\ l.node[x].num = S!Wrap(e.fn, cur0)
  BY <1>1, <1>2, NumberedNode
<1>4. /\ Linked(r.l, Nums(l), TRUE) /\ r.l.max = l.max /\ r.ok = TRUE
      /\ r.rel = {l.node[x].buf : x \in K}
      /\ \A x \in K : r.l.node[x].use = "no"
      /\ \E n \in D!Nodes :
           /\ ShortUse(l, n) /\ l.node[n].num = S!Wrap(e.fn, cur0)
           /\ r.l.node[n].use = "long" /\ r.l.node[n].lt = idx
           /\ r.l.node[n].buf = l.node[n].buf
           /\ \A x \in D!Nodes : x # n /\ x \notin K => Same(l, r.l, x)
  <2>1. MakesLong(l, r, Nums(l), S!Wrap(e.fn, cur0), idx)
    BY <1>1, <1>3, MakeLongNamed
  <2> HIDE DEF r
  <2> QED BY <2>1 DEF MakesLong
<1>0. \A x \in K : x \in D!Nodes /\ LongUse(l, x)
  BY DEF WithIdx
<1> HIDE DEF r
<1>5. PICK n \in D!Nodes :
           /\ ShortUse(l, n) /\ l.node[n].num = S!Wrap(e.fn, cur0)
           /\ r.l.node[n].use = "long" /\ r.l.node[n].lt = idx
           /\ r.l.node[n].buf = l.node[n].buf
           /\ \A x \in D!Nodes : x # n /\ x \notin K => Same(l, r.l, x)
  BY <1>4
<1>6. PicOf(l, n, h, fn) = e
  BY <1>1, <1>2, <1>5, NumberedNode
<1>7. e.pic = h[l.node[n].buf]
  BY <1>6 DEF PicOf
<1>8. /\ DOMAIN k.long = DOMAIN mk.long \cup {idx} /\ k.long[idx] = e.pic
      /\ \A i \in DOMAIN mk.long : i # idx => k.long[i] = mk.long[i]
  BY DEF S!With
<1>9. Agree(r.l, k, h, fn)
  BY <1>1, <1>4, <1>5, <1>6, <1>7, <1>8, MoveAgrees
<1> HIDE DEF K
<1>10. \A x \in D!Nodes : ShortUse(r.l, x) => Same(l, r.l, x)
  BY <1>4, <1>5 DEF ShortUse
<1>11. Numbered(r.l, fn, cur0) /\ Linked(r.l, Nums(r.l), TRUE)
  BY <1>1, <1>4, <1>10, RestNumbered
<1>12. Gives(l, r.l, r.rel)
  <2>1. \A x \in D!Nodes : x \in InUse(l) /\ x \notin InUse(r.l) <=> x \in K
    BY <1>0, <1>4, <1>5 DEF InUse, Same, LongUse, ShortUse
  <2>2. \A x \in InUse(r.l) : x \in InUse(l) /\ r.l.node[x].buf = l.node[x].buf
    BY <1>4, <1>5 DEF InUse, Same, ShortUse
  <2>3. InUse(l) \ InUse(r.l) = K
    BY <2>1, <1>0 DEF InUse
  <2> QED BY <2>2, <2>3, <1>4 DEF Gives
<1> QED BY <1>4, <1>9, <1>11, <1>12 DEF Obeyed, Mid, r

\* SET_MAX_LT_INDEX, for linked lists.
LEMMA SetMaxLongLinked ==
  ASSUME NEW l, NEW f, Linked(l, f, TRUE), NEW plus1 \in Nat, NEW r, r = D!SetMaxLong(l, plus1)
  PROVE  /\ \A x \in D!Nodes : x \notin CutOff(l, plus1) => Same(l, r.l, x)
         /\ \A x \in CutOff(l, plus1) : r.l.node[x].use = "no"
         /\ r.rel = {l.node[x].buf : x \in CutOff(l, plus1)} /\ r.ok = TRUE
         /\ r.l.max = (IF plus1 = 0 THEN D!NoLong ELSE plus1 - 1) /\ Linked(r.l, f, TRUE)
<1> DEFINE d == D!SetMaxLong(l, plus1)
<1>1. PICK s, t : Lists(l, s, t) /\ Falling(l, s, f)
  BY DEF Linked
<1>2. /\ \E u : Lists(d.l, s, u)
      /\ \A g : Falling(l, s, g) => Falling(d.l, s, g)
      /\ \A x \in D!Nodes : x \notin CutOff(l, plus1) => Same(l, d.l, x)
      /\ \A x \in CutOff(l, plus1) : d.l.node[x].use = "no"
      /\ d.rel = {l.node[x].buf : x \in CutOff(l, plus1)} /\ d.ok = TRUE
      /\ d.l.max = IF plus1 = 0 THEN D!NoLong ELSE plus1 - 1
  BY <1>1, SetMaxLongFacts
<1> HIDE DEF d
<1>3. Linked(d.l, f, TRUE)
  BY <1>1, <1>2 DEF Linked
<1>4. r = d
  BY DEF d
<1> QED BY <1>2, <1>3, <1>4

\* A command that is neither 5 nor 6.
LEMMA CommandObeyed ==
  ASSUME NEW l, NEW mk, NEW h, NEW fn, NEW cur0 \in FrameNums, IsMarking(mk),
         Mid(l, mk, h, fn, cur0), NEW c \in S!NextCommands(mk, cur0), c.op \in 1..4,
         NEW b, NEW pc
  PROVE  Obeyed(l, D!Command(l, c, cur0, b), S!Apply(mk, c, cur0, pc), h, fn, cur0)
<1> DEFINE r == D!Command(l, c, cur0, b)
           k == S!Apply(mk, c, cur0, pc)
<1>1. Agree(l, mk, h, fn) /\ Numbered(l, fn, cur0) /\ Linked(l, Nums(l), TRUE)
  BY DEF Mid
<1>2. AgreeShort(l, mk, h, fn) /\ AgreeLong(l, mk, h) /\ (mk.max >= 0 => l.max = mk.max)
  BY <1>1 DEF Agree
<1>3. /\ c \in S!AnyCommand
      /\ c.op \in {1, 3} => \E e \in mk.short : c.num = S!Wrap(e.fn, cur0)
      /\ c.op = 2 => c.idx \in DOMAIN mk.long
      /\ c.op = 3 => c.idx \in 0..mk.max
      /\ c.op = 4 => c.idx \in 0..MaxIdx + 1
  BY NextFacts
<1>4. c.idx \in Nat /\ c.num \in Int
  BY <1>3 DEF S!AnyCommand
<1>5. /\ mk.max \in -1..MaxIdx /\ DOMAIN mk.long \subseteq 0..mk.max /\ MaxIdx < D!NoLong
      /\ MaxIdx \in Nat
      /\ mk = [short |-> mk.short, long |-> mk.long, max |-> mk.max]
  BY ConfigsAssumption, NodesFacts DEF IsMarking
<1>6. ASSUME NEW e \in mk.short PROVE l.nst > 0
  <2>1. PICK x \in D!Nodes : ShortUse(l, x)
    BY <1>2 DEF AgreeShort
  <2> QED BY <2>1, <1>1, NodeCounts
<1>7. CASE c.op = 1
  <2>1. PICK e \in mk.short : c.num = S!Wrap(e.fn, cur0)
    BY <1>3, <1>7
  <2>2. r = D!DeleteShort(l, c.num)
    BY <1>6, <1>7 DEF D!Command
  <2>3. k = [mk EXCEPT !.short = {s \in @ : S!Wrap(s.fn, cur0) # c.num}]
    BY <1>7 DEF S!Apply
  <2> HIDE DEF r, k
  <2>4. k.short = {g \in mk.short : S!Wrap(g.fn, cur0) # c.num} /\ k.long = mk.long /\ k.max = mk.max
    BY <2>3, <1>5
  <2>5. Obeyed(l, r, k, h, fn, cur0)
    BY <2>1, <2>2, <2>4, DeleteShortObeyed
  <2> QED BY <2>5 DEF r, k
<1>8. CASE c.op = 2
  <2>0. PICK w \in D!Nodes : LongUse(l, w) /\ l.node[w].lt = c.idx
    BY <1>2, <1>3, <1>8 DEF AgreeLong
  <2>1. D!HasLong(l, c.idx)
    BY <2>0, <1>1, NodeCounts
  <2>2. r = D!DeleteLong(l, c.idx)
    BY <2>1, <1>8 DEF D!Command
  <2>3. k = [mk EXCEPT !.long = S!Without(@, {c.idx})]
    BY <1>8 DEF S!Apply
  <2>4. /\ \A x \in D!Nodes : x \notin WithIdx(l, c.idx) => Same(l, r.l, x)
        /\ \A x \in WithIdx(l, c.idx) : r.l.node[x].use = "no"
        /\ r.rel = {l.node[x].buf : x \in WithIdx(l, c.idx)} /\ r.ok = TRUE
        /\ r.l.max = l.max /\ Linked(r.l, Nums(l), TRUE)
    <3> DEFINE d == D!DeleteLong(l, c.idx)
    <3>1. PICK s, t : Lists(l, s, t) /\ Falling(l, s, Nums(l))
      BY <1>1 DEF Linked
    <3>2. /\ \E u : Lists(d.l, s, u)
          /\ \A f : Falling(l, s, f) => Falling(d.l, s, f)
          /\ \A x \in D!Nodes : x \notin WithIdx(l, c.idx) => Same(l, d.l, x)
          /\ \A x \in WithIdx(l, c.idx) : d.l.node[x].use = "no"
          /\ d.rel = {l.node[x].buf : x \in WithIdx(l, c.idx)} /\ d.ok = TRUE
          /\ d.l.max = l.max
      BY <3>1, <1>4, DeleteLongFacts
    <3> HIDE DEF d, r
    <3>3. Linked(d.l, Nums(l), TRUE)
      BY <3>1, <3>2 DEF Linked
    <3>4. r = d
      BY <2>2 DEF d
    <3> QED BY <3>2, <3>3, <3>4
  <2> HIDE DEF r, k
  <2>5. k.short = mk.short /\ k.long = S!Without(mk.long, {c.idx}) /\ k.max = mk.max
    BY <2>3, <1>5
  <2>6. DOMAIN k.long = DOMAIN mk.long \ {c.idx} /\ \A i \in DOMAIN k.long : k.long[i] = mk.long[i]
    BY <2>5 DEF S!Without
  <2>7. WithIdx(l, c.idx) = {x \in D!Nodes : LongUse(l, x) /\ l.node[x].lt \in {c.idx}}
    BY DEF WithIdx
  <2>9. k.max >= 0 => r.l.max = k.max
    BY <2>4, <2>5, <1>2
  <2>10. Drops(l, r, Nums(l), WithIdx(l, c.idx), {c.idx}, mk, k)
    BY <2>4, <2>5, <2>6, <2>7, <2>9 DEF Drops
  <2>8. Obeyed(l, r, k, h, fn, cur0)
    BY <2>10, DropLongObeyed
  <2> QED BY <2>8 DEF r, k
<1>9. CASE c.op = 3
  <2>1. PICK e \in mk.short : c.num = S!Wrap(e.fn, cur0)
    BY <1>3, <1>9
  <2>2. r = D!MakeLong(l, c.num, c.idx)
    <3>1. l.max # D!NoLong /\ c.idx <= l.max
      BY <1>2, <1>3, <1>4, <1>5, <1>9
    <3> QED BY <3>1, <1>6, <1>9 DEF D!Command
  <2> DEFINE g == CHOOSE s \in mk.short : S!Wrap(s.fn, cur0) = c.num
  <2>3. k = [mk EXCEPT !.short = @ \ {g}, !.long = S!With(@, c.idx, g.pic)]
    BY <1>9 DEF S!Apply
  <2>4. g \in mk.short /\ S!Wrap(g.fn, cur0) = c.num
    BY <2>1
  <2> HIDE DEF r, k, g
  <2>5. k.short = mk.short \ {g} /\ k.long = S!With(mk.long, c.idx, g.pic) /\ k.max = mk.max
    BY <2>3, <1>5
  <2>6. r = D!MakeLong(l, S!Wrap(g.fn, cur0), c.idx)
    BY <2>2, <2>4
  <2>7. Obeyed(l, r, k, h, fn, cur0)
    BY <2>4, <2>5, <2>6, <1>4, MakeLongObeyed
  <2> QED BY <2>7 DEF r, k
<1>10. CASE c.op = 4
  <2> DEFINE X == {i \in DOMAIN mk.long : i >= c.idx}
             K == CutOff(l, c.idx)
  <2>2. r = D!SetMaxLong(l, c.idx)
    BY <1>10 DEF D!Command
  <2>3. k = [mk EXCEPT !.long = S!Without(@, {i \in DOMAIN @ : i >= c.idx}), !.max = c.idx - 1]
    BY <1>10 DEF S!Apply
  <2>4. /\ \A x \in D!Nodes : x \notin K => Same(l, r.l, x)
        /\ \A x \in K : r.l.node[x].use = "no"
        /\ r.rel = {l.node[x].buf : x \in K} /\ r.ok = TRUE
        /\ r.l.max = (IF c.idx = 0 THEN D!NoLong ELSE c.idx - 1) /\ Linked(r.l, Nums(l), TRUE)
    BY <2>2, <1>1, <1>4, SetMaxLongLinked
  <2>7. K = {x \in D!Nodes : LongUse(l, x) /\ l.node[x].lt \in X}
    <3>1. \A x \in D!Nodes : LongUse(l, x) => l.node[x].lt \in DOMAIN mk.long
      BY <1>2 DEF AgreeLong
    <3>2. l.max \in Nat
      BY <1>1, CountFacts DEF ListStates
    <3>3. \A i \in DOMAIN mk.long : i \in Nat /\ i <= l.max
      BY <1>2, <1>5, <3>2
    <3>4. CASE c.idx > l.max
      <4>1. X = {}
        BY <3>2, <3>3, <3>4, <1>4
      <4> QED BY <4>1, <3>4 DEF CutOff
    <3>5. CASE ~ (c.idx > l.max)
      <4>1. K = {x \in D!Nodes : LongUse(l, x) /\ l.node[x].lt >= c.idx}
        BY <3>5 DEF CutOff
      <4> HIDE DEF K
      <4> QED BY <4>1, <3>1
    <3> QED BY <3>4, <3>5
  <2> HIDE DEF r, k, X, K
  <2>5. k.short = mk.short /\ k.long = S!Without(mk.long, X) /\ k.max = c.idx - 1
    BY <2>3, <1>5 DEF X
  <2>6. DOMAIN k.long = DOMAIN mk.long \ X /\ \A i \in DOMAIN k.long : k.long[i] = mk.long[i]
    BY <2>5 DEF S!Without
  <2>8. k.max >= 0 => r.l.max = k.max
    BY <2>4, <2>5, <1>4
  <2>9. Drops(l, r, Nums(l), K, X, mk, k)
    BY <2>4, <2>5, <2>6, <2>7, <2>8 DEF Drops
  <2>10. Obeyed(l, r, k, h, fn, cur0)
    BY <2>9, DropLongObeyed
  <2> QED BY <2>10 DEF r, k
<1>11. c.op = 1 \/ c.op = 2 \/ c.op = 3 \/ c.op = 4
  OBVIOUS
<1> HIDE DEF r, k
<1> QED BY <1>7, <1>8, <1>9, <1>10, <1>11 DEF r, k

-----------------------------------------------------------------------------
(* The commands of a picture keep the lists in step. *)

\* One step after the other.
LEMMA GivesTwice ==
  ASSUME NEW l, NEW m, NEW n, NEW p, NEW q, Gives(l, m, p), Gives(m, n, q)
  PROVE  Gives(l, n, p \cup q)
<1>1. \A x \in InUse(n) : x \in InUse(l) /\ n.node[x].buf = l.node[x].buf
  BY DEF Gives
<1>2. p \cup q = {l.node[x].buf : x \in InUse(l) \ InUse(n)}
  <2>1. \A x \in InUse(l) \ InUse(n) : l.node[x].buf \in p \cup q
    BY DEF Gives
  <2>2. \A b \in p \cup q : \E x \in InUse(l) \ InUse(n) : b = l.node[x].buf
    BY DEF Gives
  <2> QED BY <2>1, <2>2
<1> QED BY <1>1, <1>2 DEF Gives

\* What leaves the lists is not listed any more.
LEMMA GivesBufs ==
  ASSUME NEW l, NEW m, NEW rel, OnePlace(l), Gives(l, m, rel)
  PROVE  rel \subseteq Bufs(l) /\ Bufs(m) = Bufs(l) \ rel /\ InUse(m) \subseteq InUse(l)
<1>1. \A x \in InUse(m) : m.node[x].buf \in Bufs(l) \ rel
  BY DEF Gives, Bufs, OnePlace
<1>2. \A b \in Bufs(l) \ rel : \E x \in InUse(m) : m.node[x].buf = b
  BY DEF Gives, Bufs
<1> QED BY <1>1, <1>2 DEF Gives, Bufs

\* The first n commands are allowed, and none is 5 or 6.
Plain(n, cmds, g, cur0) ==
  \A i \in 1..n : /\ cmds[i].op \in 1..4 /\ IsMarking(g[i - 1])
                  /\ cmds[i] \in S!NextCommands(g[i - 1], cur0)

\* Such commands are obeyed, one after the other.
LEMMA CommandsObeyed ==
  ASSUME NEW l, NEW mk, NEW h, NEW fn, NEW cur0 \in FrameNums,
         Mid(l, mk, h, fn, cur0), NEW b, NEW pc, NEW cmds, Len(cmds) \in Nat,
         NEW a, NEW g, ObeysEach(a, l, cmds, cur0, b), MarksEach(g, mk, cmds, cur0, pc),
         NEW n \in 0..Len(cmds), Plain(n, cmds, g, cur0)
  PROVE  Obeyed(l, a[n], g[n], h, fn, cur0) /\ a[n].cur = cur0
<1> DEFINE A == {i \in 0..n : Obeyed(l, a[i], g[i], h, fn, cur0) /\ a[i].cur = cur0}
<1>1. 0 \in A
  <2>1. a[0] = [l |-> l, rel |-> {}, ok |-> TRUE, cur |-> cur0] /\ g[0] = mk
    BY DEF ObeysEach, MarksEach
  <2>2. a[0].l = l /\ a[0].rel = {} /\ a[0].ok = TRUE /\ a[0].cur = cur0
    BY <2>1
  <2>3. Gives(l, l, {})
    BY DEF Gives
  <2>4. Obeyed(l, a[0], g[0], h, fn, cur0)
    BY <2>1, <2>2, <2>3 DEF Obeyed
  <2> QED BY <2>2, <2>4
<1>2. ASSUME NEW i \in 1..n, i - 1 \in A PROVE i \in A
  <2> DEFINE p == a[i - 1]
             r == D!Command(p.l, cmds[i], cur0, b)
             k == S!Apply(g[i - 1], cmds[i], cur0, pc)
  <2>1. Obeyed(l, p, g[i - 1], h, fn, cur0) /\ p.cur = cur0
    BY <1>2
  <2>2. /\ i \in 1..Len(cmds) /\ cmds[i].op \in 1..4 /\ IsMarking(g[i - 1])
        /\ cmds[i] \in S!NextCommands(g[i - 1], cur0)
    BY DEF Plain
  <2>3. a[i] = D!Obey(p, cmds[i], b) /\ g[i] = k
    BY <2>2 DEF ObeysEach, MarksEach
  <2>4. p.ok = TRUE /\ Mid(p.l, g[i - 1], h, fn, cur0) /\ Gives(l, p.l, p.rel)
    BY <2>1 DEF Obeyed
  <2> HIDE DEF p
  <2>5. Obeyed(p.l, r, k, h, fn, cur0)
    BY <2>2, <2>4, CommandObeyed
  <2>6. a[i] = [l |-> r.l, rel |-> p.rel \cup r.rel, ok |-> r.ok, cur |-> cur0]
    <3>1. cmds[i].op # 5
      BY <2>2
    <3> QED BY <3>1, <2>1, <2>3, <2>4 DEF D!Obey
  <2> HIDE DEF r, k
  <2>7. a[i].l = r.l /\ a[i].rel = p.rel \cup r.rel /\ a[i].ok = r.ok /\ a[i].cur = cur0
    BY <2>6
  <2>8. Gives(l, r.l, p.rel \cup r.rel)
    BY <2>4, <2>5, GivesTwice DEF Obeyed
  <2>9. Obeyed(l, a[i], g[i], h, fn, cur0)
    BY <2>3, <2>5, <2>7, <2>8 DEF Obeyed
  <2> QED BY <2>7, <2>9
<1> HIDE DEF A
<1>3. n \in A
  <2>1. n \in Nat
    OBVIOUS
  <2> QED BY <1>1, <1>2, <2>1, UpTo
<1> QED BY <1>3 DEF A

\* How recent the pictures in the nodes are, seen from frame number cur0.
Recent(l, fn, cur0) == [x \in D!Nodes |-> S!Wrap(fn[l.node[x].buf], cur0)]

\* The lists m after a picture in buffer b, with rel what has left them: they
\* say what the marking k says, in the order seen from frame number cur0.
MarkedAs(l, m, rel, k, h, gn, cur0, b) ==
  /\ Agree(m, k, h, gn) /\ Linked(m, Recent(m, gn, cur0), TRUE)
  /\ rel \subseteq Bufs(l) /\ Bufs(m) = (Bufs(l) \ rel) \cup {b}

\* Where a picture is put in front: there is room, it is not listed, and its
\* frame number is new.
Room(l, h, fn, gn, cur0, b, pc) ==
  /\ OnePlace(l) /\ InUse(l) # D!Nodes /\ b \in Nat /\ b \notin Bufs(l) /\ h[b] = pc
  /\ \A c \in Bufs(l) : gn[c] = fn[c]

\* There is a node for a picture that is not listed.
Inserts(q, i, f, b, num) ==
  /\ i.ok = TRUE /\ i.l.max = q.max
  /\ \E n \in D!Nodes :
       /\ q.node[n].use = "no"
       /\ i.l.node[n].use = "short" /\ i.l.node[n].buf = b /\ i.l.node[n].num = num
       /\ \A x \in D!Nodes : x # n => i.l.node[x] = q.node[x]
       /\ \A g : (\A x \in D!Nodes : ShortUse(q, x) => g[x] = f[x] /\ f[x] < g[n])
                 => Linked(i.l, g, TRUE)

\* The list after ih264d_insert_st_node, in the order of any g that puts it first.
LEMMA InsertLinked ==
  ASSUME NEW q, NEW f, Linked(q, f, TRUE), NEW b \in Nat, NEW num \in Int, InUse(q) # D!Nodes,
         \A x \in InUse(q) : q.node[x].buf # b, NEW i, i = D!InsertShort(q, b, num)
  PROVE  Inserts(q, i, f, b, num)
<1> DEFINE r == D!InsertShort(q, b, num)
           R == \E n \in D!Nodes :
                /\ q.node[n].use = "no" /\ r = D!Done(Taken(q, n, b, num), {})
                /\ r.l.node[n].use = "short" /\ r.l.node[n].buf = b /\ r.l.node[n].num = num
                /\ \A x \in D!Nodes : x # n => r.l.node[x] = q.node[x]
                /\ r.l.max = q.max /\ r.l.nst = q.nst + 1 /\ r.l.nlt = q.nlt
                /\ Linked(r.l, f, FALSE)
                /\ \A g : (TRUE => \A x \in D!Nodes : ShortUse(q, x) => g[x] = f[x] /\ f[x] < g[n])
                          => Linked(r.l, g, TRUE)
           E == /\ r = D!Fail(q)
                /\ InUse(q) = D!Nodes \/ \E x \in InUse(q) : q.node[x].buf = b
<1>1. IF r.ok THEN R ELSE E
  BY InsertShortFacts
<1>2. ~ E
  OBVIOUS
<1>3. R
  <2> HIDE DEF R, E, r
  <2> QED BY <1>1, <1>2
<1>4. i = r
  OBVIOUS
<1> HIDE DEF r
<1>5. r.ok = TRUE
  BY <1>3 DEF D!Done
<1>6. PICK n \in D!Nodes :
                /\ q.node[n].use = "no"
                /\ r.l.node[n].use = "short" /\ r.l.node[n].buf = b /\ r.l.node[n].num = num
                /\ \A x \in D!Nodes : x # n => r.l.node[x] = q.node[x]
                /\ r.l.max = q.max
                /\ \A g : (TRUE => \A x \in D!Nodes : ShortUse(q, x) => g[x] = f[x] /\ f[x] < g[n])
                          => Linked(r.l, g, TRUE)
  BY <1>3
<1>7. ASSUME NEW g, \A x \in D!Nodes : ShortUse(q, x) => g[x] = f[x] /\ f[x] < g[n]
      PROVE  Linked(r.l, g, TRUE)
  BY <1>6, <1>7
<1>8. Inserts(q, r, f, b, num)
  BY <1>5, <1>6, <1>7 DEF Inserts
<1> QED BY <1>4, <1>8

\* The lists and the marking take the current picture as a short-term one.
LEMMA InsertMarked ==
  ASSUME NEW l, NEW a, NEW m, NEW h, NEW fn, NEW gn, NEW cur0 \in FrameNums, NEW b, NEW pc,
         Room(l, h, fn, gn, cur0, b, pc), Obeyed(l, a, m, h, fn, cur0), gn[b] = cur0,
         cur0 \notin {e.fn : e \in m.short}, NEW k,
         k.short = m.short \cup {[pic |-> pc, fn |-> cur0]}, k.long = m.long, k.max = m.max
  PROVE  /\ D!InsertShort(a.l, b, cur0).ok = TRUE
         /\ MarkedAs(l, D!InsertShort(a.l, b, cur0).l, a.rel, k, h, gn, cur0, b)
<1> DEFINE i == D!InsertShort(a.l, b, cur0)
           q == a.l
<1>1. /\ OnePlace(l) /\ InUse(l) # D!Nodes /\ b \in Nat /\ b \notin Bufs(l) /\ h[b] = pc
      /\ \A c \in Bufs(l) : gn[c] = fn[c]
  BY DEF Room
<1>2. Mid(q, m, h, fn, cur0) /\ Gives(l, q, a.rel)
  BY DEF Obeyed
<1> HIDE DEF q
<1>3. Agree(q, m, h, fn) /\ Numbered(q, fn, cur0) /\ Linked(q, Nums(q), TRUE) /\ cur0 \in Int
  <2>1. cur0 \in Int
    BY NumFacts
  <2> QED BY <1>2, <2>1 DEF Mid
<1>4. /\ a.rel \subseteq Bufs(l) /\ Bufs(q) = Bufs(l) \ a.rel /\ InUse(q) \subseteq InUse(l)
  BY <1>1, <1>2, GivesBufs
<1>5. \A x \in InUse(q) : q.node[x].buf \in Bufs(l) /\ q.node[x].buf # b
  BY <1>1, <1>4 DEF Bufs
<1>6. InUse(q) # D!Nodes
  <2>1. InUse(l) \subseteq D!Nodes
    BY DEF InUse
  <2> QED BY <2>1, <1>1, <1>4
<1>7. /\ i.ok = TRUE /\ i.l.max = q.max
      /\ \E n \in D!Nodes :
           /\ q.node[n].use = "no"
           /\ i.l.node[n].use = "short" /\ i.l.node[n].buf = b /\ i.l.node[n].num = cur0
           /\ \A x \in D!Nodes : x # n => i.l.node[x] = q.node[x]
           /\ \A g : (\A x \in D!Nodes : ShortUse(q, x) => g[x] = Nums(q)[x] /\ Nums(q)[x] < g[n])
                     => Linked(i.l, g, TRUE)
  <2>1. i = D!InsertShort(q, b, cur0)
    BY DEF q
  <2> HIDE DEF i
  <2>2. Inserts(q, i, Nums(q), b, cur0)
    BY <1>1, <1>3, <1>5, <1>6, <2>1, InsertLinked
  <2> QED BY <2>2 DEF Inserts
<1> HIDE DEF i
<1>8. PICK n \in D!Nodes :
           /\ q.node[n].use = "no"
           /\ i.l.node[n].use = "short" /\ i.l.node[n].buf = b /\ i.l.node[n].num = cur0
           /\ \A x \in D!Nodes : x # n => i.l.node[x] = q.node[x]
           /\ \A g : (\A x \in D!Nodes : ShortUse(q, x) => g[x] = Nums(q)[x] /\ Nums(q)[x] < g[n])
                     => Linked(i.l, g, TRUE)
  BY <1>7
<1>9. \A x \in D!Nodes : x # n => Same(q, i.l, x)
  BY <1>8 DEF Same
<1>10. Agree(i.l, k, h, gn)
  <2>1. \A x \in InUse(q) : q.node[x].buf # b /\ gn[q.node[x].buf] = fn[q.node[x].buf]
    BY <1>1, <1>5
  <2>2. k.max >= 0 => i.l.max = k.max
    BY <1>3, <1>7 DEF Agree
  <2> QED BY <1>1, <1>3, <1>8, <1>9, <2>1, <2>2, AddShortAgrees
<1>11. \A x \in D!Nodes : ShortUse(q, x) =>
          /\ fn[q.node[x].buf] \in FrameNums /\ fn[q.node[x].buf] # cur0
          /\ q.node[x].num = S!Wrap(fn[q.node[x].buf], cur0)
          /\ gn[q.node[x].buf] = fn[q.node[x].buf] /\ x # n
  <2> SUFFICES ASSUME NEW x \in D!Nodes, ShortUse(q, x)
               PROVE  /\ fn[q.node[x].buf] \in FrameNums /\ fn[q.node[x].buf] # cur0
                      /\ q.node[x].num = S!Wrap(fn[q.node[x].buf], cur0)
                      /\ gn[q.node[x].buf] = fn[q.node[x].buf] /\ x # n
    OBVIOUS
  <2>1. PicOf(q, x, h, fn) \in m.short /\ PicOf(q, x, h, fn).fn = fn[q.node[x].buf]
    BY <1>3 DEF Agree, AgreeShort, PicOf
  <2>2. fn[q.node[x].buf] # cur0
    BY <2>1
  <2>3. x \in InUse(q) /\ x # n
    BY <1>8 DEF InUse, ShortUse
  <2> QED BY <2>2, <2>3, <1>1, <1>3, <1>5 DEF Numbered
<1>12. Linked(i.l, Nums(i.l), TRUE)
  <2> DEFINE g == Nums(i.l)
  <2>1. g[n] = cur0
    BY <1>8 DEF Nums
  <2>2. ASSUME NEW x \in D!Nodes, ShortUse(q, x) PROVE g[x] = Nums(q)[x] /\ Nums(q)[x] < g[n]
    <3>1. g[x] = q.node[x].num /\ Nums(q)[x] = q.node[x].num
      BY <1>8, <1>11, <2>2 DEF Nums
    <3> HIDE DEF g
    <3>2. q.node[x].num < cur0
      BY <1>11, <2>2, WrapFacts
    <3> QED BY <2>1, <3>1, <3>2
  <2> HIDE DEF g
  <2>3. Linked(i.l, g, TRUE)
    BY <1>8, <2>2
  <2> QED BY <2>3 DEF g
<1>13. Linked(i.l, Recent(i.l, gn, cur0), TRUE)
  <2>1. ASSUME NEW x \in D!Nodes, ShortUse(i.l, x) PROVE Recent(i.l, gn, cur0)[x] = Nums(i.l)[x]
    <3>1. Recent(i.l, gn, cur0)[x] = S!Wrap(gn[i.l.node[x].buf], cur0) /\ Nums(i.l)[x] = i.l.node[x].num
      BY DEF Recent, Nums
    <3>2. CASE x = n
      <4>1. S!Wrap(cur0, cur0) = cur0
        BY <1>3 DEF S!Wrap
      <4> QED BY <3>1, <3>2, <4>1, <1>8
    <3>3. CASE x # n
      <4>1. ShortUse(q, x) /\ i.l.node[x] = q.node[x]
        BY <3>3, <1>8, <2>1 DEF ShortUse
      <4> QED BY <3>1, <4>1, <1>11
    <3> QED BY <3>2, <3>3
  <2> QED BY <2>1, <1>12, Relink
<1>14. Bufs(i.l) = (Bufs(l) \ a.rel) \cup {b}
  <2>1. InUse(i.l) = InUse(q) \cup {n}
    BY <1>8 DEF InUse
  <2>2. \A x \in InUse(q) : i.l.node[x].buf = q.node[x].buf /\ x # n
    BY <1>8 DEF InUse
  <2>3. Bufs(i.l) = Bufs(q) \cup {b}
    BY <2>1, <2>2, <1>8 DEF Bufs
  <2> QED BY <2>3, <1>4
<1> QED BY <1>4, <1>7, <1>10, <1>13, <1>14 DEF MarkedAs, i, q

\* The frame numbers of buffers in no short-term node do not matter.
LEMMA AgreeSame ==
  ASSUME NEW l, NEW mk, NEW h, NEW fn, NEW gn, Agree(l, mk, h, fn),
         \A x \in D!Nodes : ShortUse(l, x) => gn[l.node[x].buf] = fn[l.node[x].buf]
  PROVE  Agree(l, mk, h, gn)
<1>1. AgreeShort(l, mk, h, fn) /\ AgreeLong(l, mk, h) /\ OnePlace(l)
  BY DEF Agree
<1>2. \A x \in D!Nodes : ShortUse(l, x) => PicOf(l, x, h, gn) = PicOf(l, x, h, fn)
  BY DEF PicOf
<1>3. AgreeShort(l, mk, h, gn)
  BY <1>1, <1>2 DEF AgreeShort
<1> QED BY <1>1, <1>3 DEF Agree

\* Command 6: the current picture takes an index.
LEMMA LongMarked ==
  ASSUME NEW l, NEW a, NEW m, NEW h, NEW fn, NEW gn, NEW cur0 \in FrameNums, NEW b, NEW pc,
         Room(l, h, fn, gn, cur0, b, pc), Obeyed(l, a, m, h, fn, cur0), IsMarking(m),
         cur0 \notin {e.fn : e \in m.short}, NEW c, c.op = 6, c.idx \in 0..m.max
  PROVE  /\ D!Command(a.l, c, cur0, b).ok = TRUE
         /\ MarkedAs(l, D!Command(a.l, c, cur0, b).l, a.rel \cup D!Command(a.l, c, cur0, b).rel,
                     S!Apply(m, c, cur0, pc), h, gn, cur0, b)
<1> DEFINE q == a.l
           i == D!InsertShort(q, b, cur0)
           r == D!MakeLong(i.l, cur0, c.idx)
           k == S!Apply(m, c, cur0, pc)
           K == WithIdx(q, c.idx)
<1>1. /\ OnePlace(l) /\ InUse(l) # D!Nodes /\ b \in Nat /\ b \notin Bufs(l) /\ h[b] = pc
      /\ \A d \in Bufs(l) : gn[d] = fn[d]
  BY DEF Room
<1>2. Mid(q, m, h, fn, cur0) /\ Gives(l, q, a.rel)
  BY DEF Obeyed
<1>0. /\ m.max \in -1..MaxIdx /\ MaxIdx < D!NoLong /\ MaxIdx \in Nat /\ c.idx \in Nat
      /\ m = [short |-> m.short, long |-> m.long, max |-> m.max]
  BY ConfigsAssumption, NodesFacts DEF IsMarking
<1>15. k = [m EXCEPT !.long = S!With(@, c.idx, pc)]
  BY DEF S!Apply
<1> HIDE DEF k
<1>16. k.short = m.short /\ k.long = S!With(m.long, c.idx, pc) /\ k.max = m.max
  BY <1>0, <1>15
<1>17. /\ DOMAIN k.long = DOMAIN m.long \cup {c.idx} /\ k.long[c.idx] = pc
       /\ \A j \in DOMAIN m.long : j # c.idx => k.long[j] = m.long[j]
  BY <1>16 DEF S!With
<1>3. Agree(q, m, h, fn) /\ Numbered(q, fn, cur0) /\ Linked(q, Nums(q), TRUE) /\ cur0 \in Int
  <2>1. cur0 \in Int
    BY NumFacts
  <2> QED BY <1>2, <2>1 DEF Mid
<1>18. q.max # D!NoLong /\ c.idx <= q.max
  BY <1>0, <1>3 DEF Agree
<1> HIDE DEF q
<1>4. /\ a.rel \subseteq Bufs(l) /\ Bufs(q) = Bufs(l) \ a.rel /\ InUse(q) \subseteq InUse(l)
  BY <1>1, <1>2, GivesBufs
<1>5. \A x \in InUse(q) : q.node[x].buf \in Bufs(l) /\ q.node[x].buf # b
  BY <1>1, <1>4 DEF Bufs
<1>6. InUse(q) # D!Nodes
  <2>1. InUse(l) \subseteq D!Nodes
    BY DEF InUse
  <2> QED BY <2>1, <1>1, <1>4
<1>7. Inserts(q, i, Nums(q), b, cur0)
  BY <1>1, <1>3, <1>5, <1>6, InsertLinked
<1> HIDE DEF i
<1>8. /\ i.ok = TRUE /\ i.l.max = q.max
      /\ \E n \in D!Nodes :
           /\ q.node[n].use = "no"
           /\ i.l.node[n].use = "short" /\ i.l.node[n].buf = b /\ i.l.node[n].num = cur0
           /\ \A x \in D!Nodes : x # n => i.l.node[x] = q.node[x]
           /\ \A g : (\A x \in D!Nodes : ShortUse(q, x) => g[x] = Nums(q)[x] /\ Nums(q)[x] < g[n])
                     => Linked(i.l, g, TRUE)
  BY <1>7 DEF Inserts
<1>9. PICK n \in D!Nodes :
           /\ q.node[n].use = "no"
           /\ i.l.node[n].use = "short" /\ i.l.node[n].buf = b /\ i.l.node[n].num = cur0
           /\ \A x \in D!Nodes : x # n => i.l.node[x] = q.node[x]
           /\ \A g : (\A x \in D!Nodes : ShortUse(q, x) => g[x] = Nums(q)[x] /\ Nums(q)[x] < g[n])
                     => Linked(i.l, g, TRUE)
  BY <1>8
<1>11. \A x \in D!Nodes : ShortUse(q, x) =>
          /\ q.node[x].num = S!Wrap(fn[q.node[x].buf], cur0) /\ q.node[x].num < cur0
          /\ gn[q.node[x].buf] = fn[q.node[x].buf] /\ x # n
  <2> SUFFICES ASSUME NEW x \in D!Nodes, ShortUse(q, x)
               PROVE  /\ q.node[x].num = S!Wrap(fn[q.node[x].buf], cur0) /\ q.node[x].num < cur0
                      /\ gn[q.node[x].buf] = fn[q.node[x].buf] /\ x # n
    OBVIOUS
  <2>1. PicOf(q, x, h, fn) \in m.short /\ PicOf(q, x, h, fn).fn = fn[q.node[x].buf]
    BY <1>3 DEF Agree, AgreeShort, PicOf
  <2>2. fn[q.node[x].buf] # cur0
    BY <2>1
  <2>3. x \in InUse(q) /\ x # n
    BY <1>9 DEF InUse, ShortUse
  <2>4. fn[q.node[x].buf] \in FrameNums /\ q.node[x].num = S!Wrap(fn[q.node[x].buf], cur0)
    BY <1>3 DEF Numbered
  <2>5. S!Wrap(fn[q.node[x].buf], cur0) < cur0
    BY <2>2, <2>4, WrapFacts
  <2> QED BY <2>3, <2>4, <2>5, <1>1, <1>5
<1>12. Linked(i.l, Nums(i.l), TRUE)
  <2> DEFINE g == Nums(i.l)
  <2>1. g[n] = cur0
    BY <1>9 DEF Nums
  <2>2. ASSUME NEW x \in D!Nodes, ShortUse(q, x) PROVE g[x] = Nums(q)[x] /\ Nums(q)[x] < g[n]
    <3>1. g[x] = q.node[x].num /\ Nums(q)[x] = q.node[x].num
      BY <1>9, <1>11, <2>2 DEF Nums
    <3> HIDE DEF g
    <3> QED BY <2>1, <3>1, <1>11, <2>2
  <2> HIDE DEF g
  <2>3. Linked(i.l, g, TRUE)
    BY <1>9, <2>2
  <2> QED BY <2>3 DEF g
<1>13. /\ WithIdx(i.l, c.idx) = K
       /\ \A x \in D!Nodes : ShortUse(i.l, x) <=> ShortUse(q, x) \/ x = n
  BY <1>9 DEF WithIdx, LongUse, ShortUse
<1>14. MakesLong(i.l, r, Nums(i.l), cur0, c.idx)
  <2>1. \E x \in D!Nodes : ShortUse(i.l, x) /\ i.l.node[x].num = cur0
    BY <1>9 DEF ShortUse
  <2> QED BY <2>1, <1>0, <1>12, MakeLongNamed
<1>30. D!Command(a.l, c, cur0, b) = r
  BY <1>8, <1>18 DEF D!Command, q, i
<1> HIDE DEF r
<1>19. /\ Linked(r.l, Nums(i.l), TRUE) /\ r.l.max = q.max /\ r.ok = TRUE
       /\ r.rel = {i.l.node[x].buf : x \in K} /\ \A x \in K : r.l.node[x].use = "no"
       /\ r.l.node[n].use = "long" /\ r.l.node[n].lt = c.idx /\ r.l.node[n].buf = b
       /\ \A x \in D!Nodes : x # n /\ x \notin K => Same(i.l, r.l, x)
  <2>1. PICK y \in D!Nodes :
           /\ ShortUse(i.l, y) /\ i.l.node[y].num = cur0
           /\ r.l.node[y].use = "long" /\ r.l.node[y].lt = c.idx
           /\ r.l.node[y].buf = i.l.node[y].buf
           /\ \A x \in D!Nodes : x # y /\ x \notin K => Same(i.l, r.l, x)
    BY <1>13, <1>14 DEF MakesLong
  <2>2. y = n
    <3>1. ASSUME y # n PROVE FALSE
      <4>1. ShortUse(q, y) /\ i.l.node[y] = q.node[y]
        BY <2>1, <3>1, <1>9, <1>13
      <4>2. q.node[y].num < cur0 /\ q.node[y].num = cur0
        BY <4>1, <2>1, <1>11
      <4> QED BY <4>2, <1>3
    <3> QED BY <3>1
  <2> QED BY <2>1, <2>2, <1>8, <1>9, <1>13, <1>14 DEF MakesLong
<1>20. /\ \A x \in K : x \in InUse(q) /\ x # n
       /\ \A x \in K : i.l.node[x].buf = q.node[x].buf
  BY <1>9 DEF WithIdx, LongUse, InUse
<1>21. \A x \in D!Nodes : x # n /\ x \notin K => Same(q, r.l, x)
  BY <1>9, <1>19 DEF Same
<1>22. Agree(r.l, k, h, fn)
  <2>1. \A x \in InUse(q) : q.node[x].buf # b
    BY <1>5
  <2>2. k.max >= 0 => r.l.max = k.max
    BY <1>3, <1>16, <1>19 DEF Agree
  <2> QED BY <1>1, <1>3, <1>9, <1>16, <1>17, <1>19, <1>21, <2>1, <2>2, AddLongAgrees
<1> HIDE DEF K
<1>23. \A x \in D!Nodes : ShortUse(r.l, x) =>
         /\ ShortUse(q, x) /\ r.l.node[x].buf = q.node[x].buf /\ r.l.node[x].num = q.node[x].num
         /\ i.l.node[x] = q.node[x]
  BY <1>9, <1>19, <1>21 DEF Same, ShortUse
<1>24. Agree(r.l, k, h, gn)
  BY <1>11, <1>22, <1>23, AgreeSame
<1>25. Linked(r.l, Recent(r.l, gn, cur0), TRUE)
  <2>1. \A x \in D!Nodes : ShortUse(r.l, x) => Recent(r.l, gn, cur0)[x] = Nums(i.l)[x]
    BY <1>11, <1>23 DEF Recent, Nums
  <2> QED BY <2>1, <1>19, Relink
<1>26. r.rel \subseteq Bufs(q) /\ Bufs(r.l) = (Bufs(q) \ r.rel) \cup {b}
  <2>0. \A x \in D!Nodes : x \in InUse(r.l) <=> x = n \/ x \in InUse(q) \ K
    BY <1>9, <1>19, <1>20, <1>21 DEF InUse, Same
  <2>1. InUse(r.l) = (InUse(q) \ K) \cup {n}
    <3>1. n \in InUse(r.l)
      BY <2>0
    <3> QED BY <2>0, <3>1 DEF InUse
  <2>2. \A x \in InUse(q) \ K : r.l.node[x].buf = q.node[x].buf
    BY <1>9, <1>21 DEF InUse, Same
  <2>3. r.rel = {q.node[x].buf : x \in K}
    BY <1>19, <1>20
  <2>4. \A x \in InUse(q) \ K : q.node[x].buf \notin r.rel
    BY <2>3, <1>3, <1>20 DEF Agree, OnePlace
  <2>5. Bufs(q) \ r.rel = {q.node[x].buf : x \in InUse(q) \ K}
    BY <2>3, <2>4 DEF Bufs
  <2>6. r.rel \subseteq Bufs(q)
    BY <2>3, <1>20 DEF Bufs
  <2>7. Bufs(r.l) = {q.node[x].buf : x \in InUse(q) \ K} \cup {b}
    BY <2>1, <2>2, <1>19 DEF Bufs
  <2> QED BY <2>5, <2>6, <2>7
<1>27. MarkedAs(l, r.l, a.rel \cup r.rel, k, h, gn, cur0, b)
  <2>1. a.rel \cup r.rel \subseteq Bufs(l) /\ Bufs(r.l) = (Bufs(l) \ (a.rel \cup r.rel)) \cup {b}
    BY <1>4, <1>26
  <2> QED BY <2>1, <1>24, <1>25 DEF MarkedAs
<1> QED BY <1>19, <1>27, <1>30 DEF k

-----------------------------------------------------------------------------
(* The sliding window keeps the lists in step. *)

\* The counts of the lists are the numbers of the marking's pictures.
LEMMA AgreeSizes ==
  ASSUME NEW l, NEW f, Linked(l, f, TRUE), NEW mk, NEW h, NEW fn, Agree(l, mk, h, fn)
  PROVE  /\ l.nst \in Nat /\ l.nlt \in Nat
         /\ Cardinality(mk.short) = l.nst /\ Cardinality(DOMAIN mk.long) = l.nlt
         /\ S!Size(mk) = l.nst + l.nlt
<1>1. PICK s, t : Lists(l, s, t)
  BY DEF Linked
<1>2. /\ ShortChain(l, s) /\ LongChain(l, t) /\ l.nst \in Nat /\ l.nlt \in Nat
      /\ l.node \in [D!Nodes -> NodeStates]
  BY <1>1 DEF Lists, ListStates
<1>3. AgreeShort(l, mk, h, fn) /\ AgreeLong(l, mk, h)
  BY DEF Agree
<1>4. Cardinality(mk.short) = l.nst
  <2> DEFINE u == [i \in 1..l.nst |-> PicOf(l, s[i], h, fn)]
  <2>1. \A i \in 1..l.nst : s[i] \in D!Nodes /\ ShortUse(l, s[i])
    BY <1>2 DEF ShortChain
  <2>2. \A i \in 1..l.nst : u[i] = PicOf(l, s[i], h, fn) /\ u[i] \in mk.short
    BY <2>1, <1>3 DEF AgreeShort
  <2>3. u \in [1..l.nst -> mk.short]
    BY <2>2
  <2>4. \A i, j \in 1..l.nst : u[i] = u[j] => i = j
    <3> SUFFICES ASSUME NEW i \in 1..l.nst, NEW j \in 1..l.nst, u[i] = u[j] PROVE i = j
      OBVIOUS
    <3>1. fn[l.node[s[i]].buf] = fn[l.node[s[j]].buf]
      BY DEF PicOf
    <3>2. s[i] = s[j]
      BY <2>1, <3>1, <1>3 DEF AgreeShort
    <3> QED BY <3>2, <1>2 DEF ShortChain
  <2>5. \A e \in mk.short : \E i \in 1..l.nst : u[i] = e
    <3> SUFFICES ASSUME NEW e \in mk.short PROVE \E i \in 1..l.nst : u[i] = e
      OBVIOUS
    <3>1. PICK x \in D!Nodes : ShortUse(l, x) /\ PicOf(l, x, h, fn) = e
      BY <1>3 DEF AgreeShort
    <3>2. PICK i \in 1..l.nst : s[i] = x
      BY <3>1, <1>2 DEF ShortChain
    <3> QED BY <3>1, <3>2, <2>2
  <2> HIDE DEF u
  <2> QED BY <2>3, <2>4, <2>5, <1>2, CountIs
<1>5. Cardinality(DOMAIN mk.long) = l.nlt
  <2> DEFINE v == [i \in 1..l.nlt |-> l.node[t[i]].lt]
             I == DOMAIN mk.long
  <2>1. \A i \in 1..l.nlt : t[i] \in D!Nodes /\ LongUse(l, t[i])
    BY <1>2 DEF LongChain
  <2>2. \A i \in 1..l.nlt : v[i] = l.node[t[i]].lt /\ v[i] \in I /\ v[i] \in Nat
    BY <2>1, <1>2, <1>3 DEF AgreeLong, NodeStates
  <2>3. v \in [1..l.nlt -> I]
    BY <2>2
  <2>4. \A i, j \in 1..l.nlt : v[i] = v[j] => i = j
    <3> SUFFICES ASSUME NEW i \in 1..l.nlt, NEW j \in 1..l.nlt, v[i] = v[j] PROVE i = j
      OBVIOUS
    <3>1. \A p, q \in 1..l.nlt : p < q => v[p] < v[q]
      BY <2>2, <1>2 DEF LongChain
    <3>2. v[i] \in Nat /\ v[j] \in Nat /\ i \in Int /\ j \in Int
      BY <2>2
    <3> HIDE DEF v
    <3> QED BY <3>1, <3>2
  <2>5. \A e \in I : \E i \in 1..l.nlt : v[i] = e
    <3> SUFFICES ASSUME NEW e \in I PROVE \E i \in 1..l.nlt : v[i] = e
      OBVIOUS
    <3>1. PICK x \in D!Nodes : LongUse(l, x) /\ l.node[x].lt = e
      BY <1>3 DEF AgreeLong
    <3>2. PICK i \in 1..l.nlt : t[i] = x
      BY <3>1, <1>2 DEF LongChain
    <3> QED BY <3>1, <3>2, <2>2
  <2> HIDE DEF v, I
  <2>6. Cardinality(I) = l.nlt
    BY <2>3, <2>4, <2>5, <1>2, CountIs
  <2> QED BY <2>6 DEF I
<1> QED BY <1>2, <1>4, <1>5, SizeIs

\* The picture that slides out is the one whose node ends the short-term list.
LEMMA SlideIs ==
  ASSUME NEW l, NEW mk, NEW h, NEW fn, NEW cur0 \in FrameNums, IsMarking(mk),
         Mid(l, mk, h, fn, cur0), NEW n \in D!Nodes, ShortUse(l, n),
         \A x \in D!Nodes : ShortUse(l, x) /\ x # n => Nums(l)[x] > Nums(l)[n],
         NEW size, ~ (S!Size(mk) < size)
  PROVE  S!Slide(mk, cur0, size) = [mk EXCEPT !.short = mk.short \ {PicOf(l, n, h, fn)}]
<1>1. AgreeShort(l, mk, h, fn) /\ Numbered(l, fn, cur0)
  BY DEF Mid, Agree
<1> DEFINE e == PicOf(l, n, h, fn)
           W == {S!Wrap(g.fn, cur0) : g \in mk.short}
<1>2. e \in mk.short /\ e.fn = fn[l.node[n].buf]
  BY <1>1 DEF AgreeShort, PicOf
<1>3. \A g \in mk.short : g.fn \in FrameNums
  BY DEF IsMarking, FrameNums
<1>4. \A g \in mk.short : g # e => S!Wrap(g.fn, cur0) > S!Wrap(e.fn, cur0)
  <2> SUFFICES ASSUME NEW g \in mk.short, g # e PROVE S!Wrap(g.fn, cur0) > S!Wrap(e.fn, cur0)
    OBVIOUS
  <2>1. PICK x \in D!Nodes : ShortUse(l, x) /\ PicOf(l, x, h, fn) = g
    BY <1>1 DEF AgreeShort
  <2>2. x # n
    BY <2>1
  <2>3. Nums(l)[x] = S!Wrap(g.fn, cur0) /\ Nums(l)[n] = S!Wrap(e.fn, cur0)
    BY <2>1, <1>1 DEF Numbered, Nums, PicOf
  <2> QED BY <2>1, <2>2, <2>3
<1> HIDE DEF e
<1>5. \A g \in mk.short : S!Wrap(g.fn, cur0) \in Int
  BY <1>3, WrapFacts
<1>6. S!Min(W) = S!Wrap(e.fn, cur0)
  <2> DEFINE w == S!Wrap(e.fn, cur0)
  <2>1. w \in W /\ \A v \in W : v \in Int /\ w <= v
    <3>1. w \in W
      BY <1>2
    <3>2. ASSUME NEW g \in mk.short PROVE S!Wrap(g.fn, cur0) \in Int /\ w <= S!Wrap(g.fn, cur0)
      BY <1>2, <1>4, <1>5
    <3> QED BY <3>1, <3>2
  <2> HIDE DEF w, W
  <2>2. S!Min(W) = CHOOSE x \in W : \A y \in W : x <= y
    BY DEF S!Min
  <2>3. S!Min(W) \in W /\ \A y \in W : S!Min(W) <= y
    BY <2>1, <2>2
  <2>4. S!Min(W) <= w /\ w <= S!Min(W) /\ S!Min(W) \in Int /\ w \in Int
    BY <2>1, <2>3
  <2>5. S!Min(W) = w
    BY <2>4
  <2> QED BY <2>5 DEF w
<1>7. mk.short # {}
  BY <1>2
<1>8. S!Slide(mk, cur0, size) = [mk EXCEPT !.short = {g \in @ : S!Wrap(g.fn, cur0) # S!Min(W)}]
  BY <1>7 DEF S!Slide
<1> HIDE DEF W
<1>9. {g \in mk.short : S!Wrap(g.fn, cur0) # S!Min(W)} = mk.short \ {e}
  <2>1. \A g \in mk.short : S!Wrap(g.fn, cur0) = S!Min(W) <=> g = e
    <3> SUFFICES ASSUME NEW g \in mk.short PROVE S!Wrap(g.fn, cur0) = S!Min(W) <=> g = e
      OBVIOUS
    <3>1. g # e => S!Wrap(g.fn, cur0) # S!Wrap(e.fn, cur0)
      BY <1>2, <1>4, <1>5
    <3> QED BY <3>1, <1>6
  <2> QED BY <2>1
<1> QED BY <1>8, <1>9 DEF e

\* The window slides as the stream says: it never fails, and no node has the
\* number of the current picture.
LEMMA SlideObeyed ==
  ASSUME NEW l, NEW mk, NEW h, NEW fn, NEW cur0 \in FrameNums, IsMarking(mk),
         Mid(l, mk, h, fn, cur0), cur0 \notin {e.fn : e \in mk.short},
         NEW size \in Nat, S!Size(mk) <= size, mk.short = {} => S!Size(mk) < size
  PROVE  Obeyed(l, D!SlidingWindow(l, cur0, size), S!Slide(mk, cur0, size), h, fn, cur0)
<1> DEFINE r == D!SlidingWindow(l, cur0, size)
           k == S!Slide(mk, cur0, size)
<1>1. Agree(l, mk, h, fn) /\ Numbered(l, fn, cur0) /\ Linked(l, Nums(l), TRUE)
  BY DEF Mid
<1>2. /\ l.nst \in Nat /\ l.nlt \in Nat /\ Cardinality(mk.short) = l.nst
      /\ S!Size(mk) = l.nst + l.nlt
  BY <1>1, AgreeSizes
<1>3. CASE l.nst + l.nlt # size
  <2>1. r = D!Done(l, {})
    BY <1>3 DEF D!SlidingWindow
  <2>2. k = mk
    <3>1. S!Size(mk) < size
      BY <1>2, <1>3
    <3> QED BY <3>1 DEF S!Slide
  <2>3. D!Done(l, {}).l = l /\ D!Done(l, {}).rel = {} /\ D!Done(l, {}).ok = TRUE
    BY DEF D!Done
  <2>4. Gives(l, l, {})
    BY DEF Gives
  <2> HIDE DEF r, k
  <2>5. Obeyed(l, r, k, h, fn, cur0)
    BY <2>1, <2>2, <2>3, <2>4 DEF Obeyed
  <2> QED BY <2>5 DEF r, k
<1>4. CASE l.nst + l.nlt = size
  <2>1. l.nst > 0
    <3>1. mk.short # {}
      BY <1>2, <1>4
    <3>2. PICK x \in D!Nodes : ShortUse(l, x)
      BY <3>1, <1>1 DEF Agree, AgreeShort
    <3> QED BY <3>2, <1>1, NodeCounts
  <2>2. D!PrevShort(l, D!ShortAt(l, l.nst)) = D!Nil
    <3>1. PICK s, t : Lists(l, s, t) /\ Falling(l, s, Nums(l))
      BY <1>1 DEF Linked
    <3>2. l \in ListStates /\ ShortChain(l, s) /\ l.nst \in 1..l.nst
      BY <3>1, <2>1, <1>2 DEF Lists
    <3>3. D!ShortAt(l, l.nst) = s[l.nst]
      BY <3>2, ShortAtIs
    <3>4. l.node[s[l.nst]].ps = D!Nil
      BY <3>1, <2>1 DEF Falling
    <3> QED BY <3>3, <3>4 DEF D!PrevShort
  <2>3. \A x \in D!Nodes : ShortUse(l, x) => l.node[x].num # cur0
    <3> SUFFICES ASSUME NEW x \in D!Nodes, ShortUse(l, x) PROVE l.node[x].num # cur0
      OBVIOUS
    <3>1. PicOf(l, x, h, fn) \in mk.short /\ PicOf(l, x, h, fn).fn = fn[l.node[x].buf]
      BY <1>1 DEF Agree, AgreeShort, PicOf
    <3>2. fn[l.node[x].buf] # cur0
      BY <3>1
    <3>3. fn[l.node[x].buf] \in FrameNums /\ l.node[x].num = S!Wrap(fn[l.node[x].buf], cur0)
      BY <1>1 DEF Numbered
    <3>4. S!Wrap(fn[l.node[x].buf], cur0) < cur0 /\ S!Wrap(fn[l.node[x].buf], cur0) \in Int
      BY <3>2, <3>3, WrapFacts
    <3>5. cur0 \in Int
      BY NumFacts
    <3> QED BY <3>3, <3>4, <3>5
  <2>4. ~ D!Repeated(l, cur0)
    <3>1. PICK s, t : Lists(l, s, t)
      BY <1>1 DEF Linked
    <3>2. l \in ListStates /\ ShortChain(l, s)
      BY <3>1 DEF Lists
    <3> DEFINE M0 == {1, l.nst - 2}
    <3>3. M0 \subseteq Int /\ D!Max(M0) \in M0
      <4>1. M0 \subseteq Int /\ 1 \in M0
        BY <1>2
      <4>2. D!Max(M0) = CHOOSE x \in M0 : \A y \in M0 : x >= y
        BY DEF D!Max
      <4>3. \E x \in M0 : \A y \in M0 : x >= y
        BY <1>2
      <4> HIDE DEF M0
      <4> QED BY <4>1, <4>2, <4>3
    <3>4. 1..D!Max(M0) \subseteq 1..l.nst
      <4> DEFINE w == D!Max(M0)
      <4>1. w = 1 \/ w = l.nst - 2
        BY <3>3
      <4> HIDE DEF w
      <4>2. 1..w \subseteq 1..l.nst
        BY <4>1, <1>2, <2>1
      <4> QED BY <4>2 DEF w
    <3>5. ASSUME NEW j \in 1..D!Max(M0), l.node[D!ShortAt(l, j)].num = cur0 PROVE FALSE
      <4>1. j \in 1..l.nst
        BY <3>4
      <4>2. D!ShortAt(l, j) = s[j] /\ s[j] \in D!Nodes /\ ShortUse(l, s[j])
        BY <4>1, <3>2, ShortNodes
      <4> QED BY <4>2, <3>5, <2>3
    <3> QED BY <3>5 DEF D!Repeated
  <2>5. r = D!DropLast(l)
    BY <1>4, <2>1, <2>2, <2>4 DEF D!SlidingWindow
  <2> DEFINE d == D!DropLast(l)
  <2>6. /\ Linked(d.l, Nums(l), TRUE) /\ d.l.max = l.max /\ d.ok = TRUE
        /\ \E n \in D!Nodes :
              /\ ShortUse(l, n) /\ d.l.node[n].use = "no" /\ d.rel = {l.node[n].buf}
              /\ \A x \in D!Nodes : x # n => Same(l, d.l, x)
              /\ \A x \in D!Nodes : ShortUse(l, x) /\ x # n => Nums(l)[x] > Nums(l)[n]
    <3> DEFINE nn == Nums(l)
    <3> HIDE DEF nn
    <3>1. Linked(l, nn, TRUE)
      BY <1>1 DEF nn
    <3>2. /\ Linked(d.l, nn, TRUE) /\ d.l.max = l.max /\ d.ok = TRUE
          /\ \E n \in D!Nodes :
                /\ ShortUse(l, n) /\ d.l.node[n].use = "no" /\ d.rel = {l.node[n].buf}
                /\ \A x \in D!Nodes : x # n => Same(l, d.l, x)
                /\ TRUE => \A x \in D!Nodes : ShortUse(l, x) /\ x # n => nn[x] > nn[n]
      BY <3>1, <2>1, DropLastFacts
    <3> HIDE DEF d
    <3> QED BY <3>2 DEF nn
  <2> HIDE DEF d
  <2>7. PICK n \in D!Nodes :
              /\ ShortUse(l, n) /\ d.l.node[n].use = "no" /\ d.rel = {l.node[n].buf}
              /\ \A x \in D!Nodes : x # n => Same(l, d.l, x)
              /\ \A x \in D!Nodes : ShortUse(l, x) /\ x # n => Nums(l)[x] > Nums(l)[n]
    BY <2>6
  <2>8. k = [mk EXCEPT !.short = mk.short \ {PicOf(l, n, h, fn)}]
    <3>1. ~ (S!Size(mk) < size)
      BY <1>2, <1>4
    <3> QED BY <2>7, <3>1, SlideIs
  <2> HIDE DEF k
  <2>9. k.short = mk.short \ {PicOf(l, n, h, fn)} /\ k.long = mk.long /\ k.max = mk.max
    BY <2>8 DEF IsMarking
  <2>10. Agree(d.l, k, h, fn)
    BY <1>1, <2>6, <2>7, <2>9, DropShortAgrees
  <2>11. \A x \in D!Nodes : ShortUse(d.l, x) => Same(l, d.l, x)
    BY <2>7 DEF ShortUse
  <2>12. Numbered(d.l, fn, cur0) /\ Linked(d.l, Nums(d.l), TRUE)
    BY <1>1, <2>6, <2>11, RestNumbered
  <2>13. Gives(l, d.l, d.rel)
    BY <2>7 DEF Gives, InUse, Same, ShortUse
  <2>14. Obeyed(l, d, k, h, fn, cur0)
    BY <2>6, <2>10, <2>12, <2>13 DEF Obeyed, Mid
  <2> QED BY <2>5, <2>14 DEF d, k
<1> QED BY <1>3, <1>4

-----------------------------------------------------------------------------
(* The marking of a picture. *)

\* The lists a have obeyed, and a picture with a new number goes in front.
AtFront(l, a, m, h, fn, gn, cur0, b, pc) ==
  /\ Room(l, h, fn, gn, cur0, b, pc) /\ Obeyed(l, a, m, h, fn, cur0) /\ a.cur = cur0
  /\ IsMarking(m) /\ cur0 \in FrameNums /\ cur0 \notin {e.fn : e \in m.short}

\* r and k are the lists a and the marking m with the picture in front.
PutsFront(r, k, a, m, b, pc, cur0) ==
  /\ r = [D!InsertShort(a.l, b, a.cur) EXCEPT !.rel = a.rel]
  /\ k = [m EXCEPT !.short = @ \cup {[pic |-> pc, fn |-> cur0]}]

\* A picture that does not reset and makes no picture of its own long-term is
\* put in front of what the commands or the window left.
LEMMA PlainMarked ==
  ASSUME NEW l, NEW a, NEW m, NEW h, NEW fn, NEW gn, NEW cur0, NEW b, NEW pc,
         AtFront(l, a, m, h, fn, gn, cur0, b, pc), gn[b] = cur0, NEW r, NEW k,
         PutsFront(r, k, a, m, b, pc, cur0)
  PROVE  r.ok = TRUE /\ MarkedAs(l, r.l, r.rel, k, h, gn, cur0, b)
<1> DEFINE i == D!InsertShort(a.l, b, cur0)
           s == m.short \cup {[pic |-> pc, fn |-> cur0]}
           z == [short |-> s, long |-> m.long, max |-> m.max]
<1>1. /\ Room(l, h, fn, gn, cur0, b, pc) /\ Obeyed(l, a, m, h, fn, cur0) /\ a.cur = cur0
      /\ IsMarking(m) /\ cur0 \in FrameNums /\ cur0 \notin {e.fn : e \in m.short}
  BY DEF AtFront
<1>2. z.short = m.short \cup {[pic |-> pc, fn |-> cur0]} /\ z.long = m.long /\ z.max = m.max
  OBVIOUS
<1> HIDE DEF z
<1>3. i.ok = TRUE /\ MarkedAs(l, i.l, a.rel, z, h, gn, cur0, b)
  BY <1>1, <1>2, InsertMarked
<1>4. i = [l |-> i.l, rel |-> i.rel, ok |-> i.ok]
  BY DEF D!InsertShort, D!Fail, D!Done
<1> HIDE DEF i
<1>5. ASSUME r = [i EXCEPT !.rel = a.rel] PROVE r.l = i.l /\ r.ok = i.ok /\ r.rel = a.rel
  BY <1>4, <1>5
<1>6. ASSUME k = [m EXCEPT !.short = s] PROVE k = z
  <2>1. m = [short |-> m.short, long |-> m.long, max |-> m.max]
    BY <1>1 DEF IsMarking
  <2> HIDE DEF s
  <2> QED BY <1>6, <2>1 DEF z
<1>7. ASSUME r = [i EXCEPT !.rel = a.rel], k = [m EXCEPT !.short = s]
      PROVE  r.ok = TRUE /\ MarkedAs(l, r.l, r.rel, k, h, gn, cur0, b)
  <2>1. r.l = i.l /\ r.ok = i.ok /\ r.rel = a.rel
    BY <1>5, <1>7
  <2>2. k = z
    BY <1>6, <1>7
  <2> QED BY <1>3, <2>1, <2>2
<1>8. i = D!InsertShort(a.l, b, a.cur)
  BY <1>1 DEF i
<1> QED BY <1>7, <1>8 DEF PutsFront

\* The last command marks the current picture.
LEMMA LastMarked ==
  ASSUME NEW l, NEW a, NEW m, NEW h, NEW fn, NEW gn, NEW cur0, NEW b, NEW pc,
         AtFront(l, a, m, h, fn, gn, cur0, b, pc), NEW c, c.op = 6, c.idx \in 0..m.max, NEW r, NEW k
  PROVE  LET o == D!Obey(a, c, b) IN
         r = [l |-> o.l, rel |-> o.rel, ok |-> o.ok] /\ k = S!Apply(m, c, cur0, pc)
         => r.ok = TRUE /\ MarkedAs(l, r.l, r.rel, k, h, gn, cur0, b)
<1> DEFINE d == D!Command(a.l, c, cur0, b)
           z == S!Apply(m, c, cur0, pc)
           o == D!Obey(a, c, b)
<1>1. /\ Room(l, h, fn, gn, cur0, b, pc) /\ Obeyed(l, a, m, h, fn, cur0) /\ a.cur = cur0
      /\ IsMarking(m) /\ cur0 \in FrameNums /\ cur0 \notin {e.fn : e \in m.short}
  BY DEF AtFront
<1>2. d.ok = TRUE /\ MarkedAs(l, d.l, a.rel \cup d.rel, z, h, gn, cur0, b)
  BY <1>1, LongMarked
<1>3. a.ok = TRUE
  BY <1>1 DEF Obeyed
<1>4. o = [l |-> d.l, rel |-> a.rel \cup d.rel, ok |-> d.ok, cur |-> cur0]
  BY <1>1, <1>3 DEF D!Obey
<1> HIDE DEF d, z, o
<1>5. ASSUME r = [l |-> o.l, rel |-> o.rel, ok |-> o.ok], k = z
      PROVE  r.ok = TRUE /\ MarkedAs(l, r.l, r.rel, k, h, gn, cur0, b)
  <2>1. r.l = d.l /\ r.rel = a.rel \cup d.rel /\ r.ok = d.ok
    BY <1>4, <1>5
  <2> QED BY <1>2, <1>5, <2>1
<1> QED BY <1>5 DEF o, z

\* A picture of the stream that does not reset, the lists before it, and room for it.
MmcoCase(l, mk, h, fn, gn, b, pc, fn0, cmds, adaptive, size) ==
  /\ IsMarking(mk) /\ Marks(mk, fn0, cmds, adaptive) /\ ~ S!Resets(cmds)
  /\ Mid(l, mk, h, fn, fn0) /\ Room(l, h, fn, gn, fn0, b, pc)
  /\ size \in Nat /\ S!Size(mk) <= size
  /\ S!Size(S!Mark(mk, adaptive, cmds, fn0, pc, size)) <= size

\* What its commands may be.
LEMMA OpFacts ==
  ASSUME NEW mk, NEW fn0, NEW cmds, NEW adaptive, Marks(mk, fn0, cmds, adaptive), ~ S!Resets(cmds)
  PROVE  /\ Len(cmds) \in Nat /\ DOMAIN cmds = 1..Len(cmds)
         /\ \A i \in 1..Len(cmds) : cmds[i].op = 6 \/ cmds[i].op \in 1..4
         /\ \A i \in 1..Len(cmds) : cmds[i].op = 6 => i = Len(cmds)
<1>1. Legal(cmds, mk, fn0)
  BY DEF Marks
<1>2. cmds \in Seq(S!AnyCommand) /\ \A i \in 1..Len(cmds) : cmds[i].op = 6 => i = Len(cmds)
  BY <1>1 DEF Legal
<1>3. Len(cmds) \in Nat /\ DOMAIN cmds = 1..Len(cmds) /\ \A i \in 1..Len(cmds) : cmds[i] \in S!AnyCommand
  BY <1>2
<1>4. \A c \in S!AnyCommand : c.op = 1 \/ c.op = 2 \/ c.op = 3 \/ c.op = 4 \/ c.op = 5 \/ c.op = 6
  BY DEF S!AnyCommand
<1>5. \A i \in 1..Len(cmds) : cmds[i].op # 5
  BY <1>3 DEF S!Resets
<1>6. \A i \in 1..Len(cmds) : cmds[i].op = 6 \/ cmds[i].op \in 1..4
  <2> SUFFICES ASSUME NEW i \in 1..Len(cmds) PROVE cmds[i].op = 6 \/ cmds[i].op \in 1..4
    OBVIOUS
  <2> DEFINE c == cmds[i]
  <2>1. c \in S!AnyCommand /\ c.op # 5
    BY <1>3, <1>5
  <2> HIDE DEF c
  <2>2. c.op = 6 \/ c.op \in 1..4
    BY <2>1, <1>4
  <2> QED BY <2>2 DEF c
<1> QED BY <1>2, <1>3, <1>6


\* After its first n commands, those before a command 6.
Leads(a, g, l, mk, h, fn, gn, b, pc, fn0, cmds) ==
  /\ ObeysEach(a, l, cmds, fn0, b) /\ MarksEach(g, mk, cmds, fn0, pc)
  /\ \A n \in 0..Len(cmds) : (\A i \in 1..n : cmds[i].op # 6)
                             => AtFront(l, a[n], g[n], h, fn, gn, fn0, b, pc)
  /\ \A n \in 1..Len(cmds) : cmds[n].op = 6 => cmds[n].idx \in 0..g[n - 1].max

\* Every command finds the lists so.
LEMMA CommandsFront ==
  ASSUME NEW l, NEW mk, NEW h, NEW fn, NEW gn, NEW b, NEW pc, NEW fn0, NEW cmds, NEW adaptive, NEW size,
         MmcoCase(l, mk, h, fn, gn, b, pc, fn0, cmds, adaptive, size)
  PROVE  \E a, g : Leads(a, g, l, mk, h, fn, gn, b, pc, fn0, cmds)
<1>1. /\ IsMarking(mk) /\ Marks(mk, fn0, cmds, adaptive) /\ ~ S!Resets(cmds)
      /\ Mid(l, mk, h, fn, fn0) /\ Room(l, h, fn, gn, fn0, b, pc)
  BY DEF MmcoCase
<1>2. fn0 \in FrameNums /\ fn0 \notin {e.fn : e \in mk.short} /\ Legal(cmds, mk, fn0)
  BY <1>1 DEF Marks
<1>3. /\ Len(cmds) \in Nat
      /\ \A i \in 1..Len(cmds) : cmds[i].op = 6 \/ cmds[i].op \in 1..4
  BY <1>1, OpFacts
<1>4. PICK g : /\ MarksEach(g, mk, cmds, fn0, pc)
               /\ \A i \in 0..Len(cmds) : IsMarking(g[i]) /\ g[i].short \subseteq mk.short
               /\ \A i \in 1..Len(cmds) : cmds[i] \in S!NextCommands(g[i - 1], fn0)
  BY <1>2 DEF Legal
<1>5. PICK a : ObeysEach(a, l, cmds, fn0, b)
  BY <1>3, ListsAfterEach
<1>6. ASSUME NEW n \in 0..Len(cmds), \A i \in 1..n : cmds[i].op # 6
      PROVE  AtFront(l, a[n], g[n], h, fn, gn, fn0, b, pc)
  <2>1. Plain(n, cmds, g, fn0)
    <3> SUFFICES ASSUME NEW i \in 1..n
                 PROVE  /\ cmds[i].op \in 1..4 /\ IsMarking(g[i - 1])
                        /\ cmds[i] \in S!NextCommands(g[i - 1], fn0)
      BY DEF Plain
    <3>1. i \in 1..Len(cmds) /\ i - 1 \in 0..Len(cmds)
      BY <1>3
    <3>2. cmds[i].op # 6
      BY <1>6
    <3> QED BY <1>3, <1>4, <3>1, <3>2
  <2>3. Obeyed(l, a[n], g[n], h, fn, fn0) /\ a[n].cur = fn0
    <3>1. Mid(l, mk, h, fn, fn0) /\ ObeysEach(a, l, cmds, fn0, b) /\ MarksEach(g, mk, cmds, fn0, pc)
      BY <1>1, <1>4, <1>5
    <3> QED BY <1>2, <1>3, <2>1, <3>1, CommandsObeyed
  <2>4. IsMarking(g[n]) /\ fn0 \notin {e.fn : e \in g[n].short}
    BY <1>2, <1>4
  <2> QED BY <1>1, <1>2, <2>3, <2>4 DEF AtFront
<1>7. ASSUME NEW n \in 1..Len(cmds), cmds[n].op = 6 PROVE cmds[n].idx \in 0..g[n - 1].max
  <2>1. n - 1 \in 0..Len(cmds)
    BY <1>3
  <2> DEFINE m == g[n - 1]
             c == cmds[n]
  <2>2. IsMarking(m) /\ c \in S!NextCommands(m, fn0) /\ c.op = 6
    BY <1>4, <1>7, <2>1
  <2> HIDE DEF m, c
  <2>3. c.idx \in 0..m.max
    BY <1>2, <2>2, NextFacts
  <2> QED BY <2>3 DEF m, c
<1>8. Leads(a, g, l, mk, h, fn, gn, b, pc, fn0, cmds)
  BY <1>4, <1>5, <1>6, <1>7 DEF Leads
<1> QED BY <1>8

\* A picture whose commands do not end with 6.
LEMMA PlainCommands ==
  ASSUME NEW l, NEW mk, NEW h, NEW fn, NEW gn, NEW b, NEW pc, NEW fn0, NEW cmds, NEW adaptive, NEW size,
         MmcoCase(l, mk, h, fn, gn, b, pc, fn0, cmds, adaptive, size), gn[b] = fn0,
         adaptive, ~ S!MarksLong(cmds)
  PROVE  LET r == D!DoMmcoBuffer(l, adaptive, cmds, fn0, b, size)
             k == S!Mark(mk, adaptive, cmds, fn0, pc, size) IN
         r.ok = TRUE /\ MarkedAs(l, r.l, r.rel, k, h, gn, fn0, b)
<1> DEFINE r == D!DoMmcoBuffer(l, adaptive, cmds, fn0, b, size)
           k == S!Mark(mk, adaptive, cmds, fn0, pc, size)
<1>1. Marks(mk, fn0, cmds, adaptive) /\ ~ S!Resets(cmds)
  BY DEF MmcoCase
<1>2. Len(cmds) \in Nat /\ DOMAIN cmds = 1..Len(cmds)
  BY <1>1, OpFacts
<1>3. PICK a, g : Leads(a, g, l, mk, h, fn, gn, b, pc, fn0, cmds)
  BY CommandsFront
<1>4. \E p, m : p = a[Len(cmds)] /\ m = g[Len(cmds)]
  OBVIOUS
<1>5. PICK p, m : p = a[Len(cmds)] /\ m = g[Len(cmds)]
  BY <1>4
<1>6. AtFront(l, p, m, h, fn, gn, fn0, b, pc)
  <2>1. \A i \in 1..Len(cmds) : cmds[i].op # 6
    BY <1>2 DEF S!MarksLong
  <2>2. Len(cmds) \in 0..Len(cmds)
    BY <1>2
  <2> QED BY <1>3, <1>5, <2>1, <2>2 DEF Leads
<1>7. D!Commands(l, cmds, fn0, b) = p /\ S!Commands(mk, cmds, fn0, pc) = m
  BY <1>3, <1>5 DEF ObeysEach, MarksEach, Leads
<1>8. r = [D!InsertShort(p.l, b, p.cur) EXCEPT !.rel = p.rel]
  <2>1. p.ok = TRUE
    BY <1>6 DEF AtFront, Obeyed
  <2> QED BY <1>7, <2>1 DEF D!DoMmcoBuffer, D!ListCurrent, S!MarksLong
<1>9. k = [m EXCEPT !.short = @ \cup {[pic |-> pc, fn |-> fn0]}]
  BY <1>1, <1>7 DEF S!Mark, S!MarkedNum
<1> HIDE DEF r, k
<1>10. r.ok = TRUE /\ MarkedAs(l, r.l, r.rel, k, h, gn, fn0, b)
  <2>1. PutsFront(r, k, p, m, b, pc, fn0)
    BY <1>8, <1>9 DEF PutsFront
  <2> QED BY <1>6, <2>1, PlainMarked
<1> QED BY <1>10 DEF r, k

\* A picture whose commands end with 6.
LEMMA LongCommands ==
  ASSUME NEW l, NEW mk, NEW h, NEW fn, NEW gn, NEW b, NEW pc, NEW fn0, NEW cmds, NEW adaptive, NEW size,
         MmcoCase(l, mk, h, fn, gn, b, pc, fn0, cmds, adaptive, size), gn[b] = fn0,
         adaptive, S!MarksLong(cmds)
  PROVE  LET r == D!DoMmcoBuffer(l, adaptive, cmds, fn0, b, size)
             k == S!Mark(mk, adaptive, cmds, fn0, pc, size) IN
         r.ok = TRUE /\ MarkedAs(l, r.l, r.rel, k, h, gn, fn0, b)
<1> DEFINE r == D!DoMmcoBuffer(l, adaptive, cmds, fn0, b, size)
           k == S!Mark(mk, adaptive, cmds, fn0, pc, size)
<1>1. Marks(mk, fn0, cmds, adaptive) /\ ~ S!Resets(cmds)
  BY DEF MmcoCase
<1>2. /\ Len(cmds) \in Nat /\ DOMAIN cmds = 1..Len(cmds)
      /\ \A i \in 1..Len(cmds) : cmds[i].op = 6 => i = Len(cmds)
  BY <1>1, OpFacts
<1>3. PICK a, g : Leads(a, g, l, mk, h, fn, gn, b, pc, fn0, cmds)
  BY CommandsFront
<1>4. PICK n \in Nat : n = Len(cmds)
  BY <1>2
<1>5. n \in 1..Len(cmds) /\ cmds[n].op = 6
  BY <1>2, <1>4 DEF S!MarksLong
<1>6. PICK p, m, q, c : p = a[n - 1] /\ m = g[n - 1] /\ q = a[n] /\ c = cmds[n]
  OBVIOUS
<1>7. c.op = 6 /\ n - 1 \in 0..Len(cmds) /\ \A i \in 1..n-1 : i \in 1..Len(cmds) /\ i # n
  <2>1. n >= 1
    BY <1>4, <1>5
  <2> QED BY <1>4, <1>5, <1>6, <2>1
<1>8. AtFront(l, p, m, h, fn, gn, fn0, b, pc)
  <2>1. \A i \in 1..n-1 : cmds[i].op # 6
    BY <1>2, <1>4, <1>7
  <2> QED BY <1>3, <1>6, <1>7, <2>1 DEF Leads
<1>9. c.idx \in 0..m.max
  BY <1>3, <1>5, <1>6 DEF Leads
<1>10. q = D!Obey(p, c, b) /\ g[n] = S!Apply(m, c, fn0, pc)
  BY <1>3, <1>5, <1>6 DEF ObeysEach, MarksEach, Leads
<1>11. D!Commands(l, cmds, fn0, b) = q /\ S!Commands(mk, cmds, fn0, pc) = g[n]
  BY <1>3, <1>4, <1>6 DEF ObeysEach, MarksEach, Leads
<1>12. r = [l |-> q.l, rel |-> q.rel, ok |-> q.ok]
  BY <1>11 DEF D!DoMmcoBuffer, D!ListCurrent, S!MarksLong
<1>13. k = S!Apply(m, c, fn0, pc)
  BY <1>10, <1>11 DEF S!Mark
<1> HIDE DEF r, k
<1>14. r.ok = TRUE /\ MarkedAs(l, r.l, r.rel, k, h, gn, fn0, b)
  <2> DEFINE o == D!Obey(p, c, b)
  <2>1. r = [l |-> o.l, rel |-> o.rel, ok |-> o.ok] /\ k = S!Apply(m, c, fn0, pc)
    BY <1>10, <1>12, <1>13
  <2> QED BY <1>7, <1>8, <1>9, <2>1, LastMarked
<1> QED BY <1>14 DEF r, k

\* Where there is no short-term picture that could slide out there is room.
LEMMA SlideRoom ==
  ASSUME NEW l, NEW mk, NEW h, NEW fn, NEW gn, NEW b, NEW pc, NEW fn0, NEW cmds, NEW adaptive, NEW size,
         MmcoCase(l, mk, h, fn, gn, b, pc, fn0, cmds, adaptive, size), ~ adaptive, mk.short = {}
  PROVE  S!Size(mk) < size
<1> DEFINE k == S!Mark(mk, adaptive, cmds, fn0, pc, size)
           e == [pic |-> pc, fn |-> fn0]
<1>1. /\ IsMarking(mk) /\ Marks(mk, fn0, cmds, adaptive) /\ ~ S!Resets(cmds)
      /\ Mid(l, mk, h, fn, fn0) /\ size \in Nat /\ S!Size(k) <= size
  BY DEF MmcoCase
<1>2. l.nlt \in Nat /\ Cardinality(DOMAIN mk.long) = l.nlt
  BY <1>1, AgreeSizes DEF Mid
<1>3. k = [mk EXCEPT !.short = {e}]
  <2>1. ~ S!MarksLong(cmds)
    BY <1>1, NoResets DEF Marks
  <2> QED BY <1>1, <2>1 DEF S!Mark, S!Slide, S!MarkedNum
<1>4. k.short = {e} /\ k.long = mk.long
  <2>1. mk = [short |-> mk.short, long |-> mk.long, max |-> mk.max]
    BY <1>1 DEF IsMarking
  <2> HIDE DEF e, k
  <2> QED BY <1>3, <2>1
<1>5. Cardinality(k.short) = 1 /\ Cardinality(mk.short) = 0
  BY <1>4, FS_Singleton, FS_EmptySet
<1>6. S!Size(k) = 1 + l.nlt /\ S!Size(mk) = 0 + l.nlt
  BY <1>2, <1>4, <1>5, SizeIs
<1> HIDE DEF k
<1> QED BY <1>1, <1>2, <1>6

\* A picture without commands.
LEMMA NoCommands ==
  ASSUME NEW l, NEW mk, NEW h, NEW fn, NEW gn, NEW b, NEW pc, NEW fn0, NEW cmds, NEW adaptive, NEW size,
         MmcoCase(l, mk, h, fn, gn, b, pc, fn0, cmds, adaptive, size), gn[b] = fn0, ~ adaptive
  PROVE  LET r == D!DoMmcoBuffer(l, adaptive, cmds, fn0, b, size)
             k == S!Mark(mk, adaptive, cmds, fn0, pc, size) IN
         r.ok = TRUE /\ MarkedAs(l, r.l, r.rel, k, h, gn, fn0, b)
<1> DEFINE r == D!DoMmcoBuffer(l, adaptive, cmds, fn0, b, size)
           k == S!Mark(mk, adaptive, cmds, fn0, pc, size)
           s == D!SlidingWindow(l, fn0, size)
           p == [l |-> s.l, rel |-> s.rel, ok |-> s.ok, cur |-> fn0]
           m == S!Slide(mk, fn0, size)
<1>1. /\ IsMarking(mk) /\ Marks(mk, fn0, cmds, adaptive) /\ ~ S!Resets(cmds)
      /\ Mid(l, mk, h, fn, fn0) /\ Room(l, h, fn, gn, fn0, b, pc)
      /\ size \in Nat /\ S!Size(mk) <= size
  BY DEF MmcoCase
<1>2. fn0 \in FrameNums /\ fn0 \notin {e.fn : e \in mk.short} /\ ~ S!MarksLong(cmds)
  BY <1>1, NoResets DEF Marks
<1>3. mk.short = {} => S!Size(mk) < size
  BY SlideRoom
<1>4. Obeyed(l, s, m, h, fn, fn0)
  BY <1>1, <1>2, <1>3, SlideObeyed
<1>5. IsMarking(m) /\ m.short \subseteq mk.short
  BY <1>1, SlideMarks
<1> HIDE DEF s, m
<1>6. p.l = s.l /\ p.rel = s.rel /\ p.ok = s.ok /\ p.cur = fn0
  OBVIOUS
<1>7. s.ok = TRUE
  BY <1>4 DEF Obeyed
<1>8. r = [D!InsertShort(p.l, b, p.cur) EXCEPT !.rel = p.rel]
  BY <1>2, <1>6, <1>7 DEF D!DoMmcoBuffer, D!ListCurrent, S!MarksLong, s
<1>9. k = [m EXCEPT !.short = @ \cup {[pic |-> pc, fn |-> fn0]}]
  BY <1>1, <1>2 DEF S!Mark, S!MarkedNum, m
<1> HIDE DEF r, k, p
<1>10. Obeyed(l, p, m, h, fn, fn0)
  BY <1>4, <1>6 DEF Obeyed
<1>11. AtFront(l, p, m, h, fn, gn, fn0, b, pc)
  <2>1. fn0 \notin {e.fn : e \in m.short}
    BY <1>2, <1>5
  <2> QED BY <1>1, <1>2, <1>5, <1>6, <1>10, <2>1 DEF AtFront
<1>12. r.ok = TRUE /\ MarkedAs(l, r.l, r.rel, k, h, gn, fn0, b)
  <2>1. PutsFront(r, k, p, m, b, pc, fn0)
    BY <1>8, <1>9 DEF PutsFront
  <2> QED BY <1>11, <2>1, PlainMarked
<1> QED BY <1>12 DEF r, k

\* A reference picture that does not reset: no command fails, and the lists say
\* what the marking says.
LEMMA MmcoMarked ==
  ASSUME NEW l, NEW mk, NEW h, NEW fn, NEW gn, NEW b, NEW pc, NEW fn0, NEW cmds, NEW adaptive, NEW size,
         MmcoCase(l, mk, h, fn, gn, b, pc, fn0, cmds, adaptive, size), gn[b] = fn0
  PROVE  LET r == D!DoMmcoBuffer(l, adaptive, cmds, fn0, b, size)
             k == S!Mark(mk, adaptive, cmds, fn0, pc, size) IN
         r.ok = TRUE /\ MarkedAs(l, r.l, r.rel, k, h, gn, fn0, b)
<1> DEFINE r == D!DoMmcoBuffer(l, adaptive, cmds, fn0, b, size)
           k == S!Mark(mk, adaptive, cmds, fn0, pc, size)
           G == r.ok = TRUE /\ MarkedAs(l, r.l, r.rel, k, h, gn, fn0, b)
<1>1. ~ adaptive => G
  BY NoCommands
<1>2. adaptive /\ S!MarksLong(cmds) => G
  BY LongCommands
<1>3. adaptive /\ ~ S!MarksLong(cmds) => G
  BY PlainCommands
<1> HIDE DEF G
<1>4. G
  BY <1>1, <1>2, <1>3
<1> QED BY <1>4 DEF G

-----------------------------------------------------------------------------
(* Pictures from which the marking starts again. *)

\* Lists without a picture.
Vacant(l) == InUse(l) = {} /\ \A f, ord : Linked(l, f, ord)

\* ih264d_reset_ref_bufs empties the lists.
LEMMA ResetVacant ==
  ASSUME NEW l, Chained(l)
  PROVE  LET r == D!ResetRefs(l) IN
         Vacant(r.l) /\ r.rel = Bufs(l) /\ r.ok = TRUE
<1> DEFINE r == D!ResetRefs(l)
<1>1. l \in ListStates
  BY DEF Chained, Lists
<1>2. /\ \A f, ord : Linked(r.l, f, ord)
      /\ \A x \in D!Nodes : r.l.node[x].use = "no"
      /\ r.rel = {l.node[x].buf : x \in InUse(l)} /\ r.ok = TRUE
  BY <1>1, ResetRefsFacts
<1> HIDE DEF r
<1>3. Vacant(r.l) /\ r.rel = Bufs(l) /\ r.ok = TRUE
  BY <1>2 DEF Vacant, InUse, Bufs
<1> QED BY <1>3 DEF r

\* The lists hold one picture, in node n.
Single(l, n, use, b) ==
  /\ l.node[n].use = use /\ l.node[n].buf = b
  /\ \A x \in D!Nodes : x # n => l.node[x].use = "no"
  /\ \A f : Linked(l, f, TRUE)

\* The first picture in them.
LEMMA FirstIn ==
  ASSUME NEW l, Vacant(l), NEW b \in Nat
  PROVE  LET i == D!InsertShort(l, b, 0) IN
         i.ok = TRUE /\ \E n \in D!Nodes : Single(i.l, n, "short", b) /\ i.l.node[n].num = 0
<1> DEFINE i == D!InsertShort(l, b, 0)
<1>1. InUse(l) = {} /\ D!Nodes # {} /\ InUse(l) # D!Nodes /\ \A x \in D!Nodes : l.node[x].use = "no"
  <2>1. 1 \in D!Nodes
    BY NodesFacts
  <2> QED BY <2>1 DEF Vacant, InUse
<1>2. Linked(l, 0, TRUE) /\ \A x \in InUse(l) : l.node[x].buf # b
  BY <1>1 DEF Vacant
<1>9. i = D!InsertShort(l, b, 0) /\ 0 \in Int
  OBVIOUS
<1> HIDE DEF i
<1>3. Inserts(l, i, 0, b, 0)
  BY <1>1, <1>2, <1>9, InsertLinked
<1>4. i.ok = TRUE
  BY <1>3 DEF Inserts
<1>5. PICK n \in D!Nodes :
       /\ i.l.node[n].use = "short" /\ i.l.node[n].buf = b /\ i.l.node[n].num = 0
       /\ \A x \in D!Nodes : x # n => i.l.node[x] = l.node[x]
       /\ \A g : (\A x \in D!Nodes : ShortUse(l, x) => g[x] = 0[x] /\ 0[x] < g[n])
                 => Linked(i.l, g, TRUE)
  BY <1>3 DEF Inserts
<1>6. \A g : Linked(i.l, g, TRUE)
  BY <1>1, <1>5 DEF ShortUse
<1>7. Single(i.l, n, "short", b)
  BY <1>1, <1>5, <1>6 DEF Single
<1>8. i.ok = TRUE /\ \E x \in D!Nodes : Single(i.l, x, "short", b) /\ i.l.node[x].num = 0
  BY <1>4, <1>5, <1>7
<1> QED BY <1>8 DEF i

\* The lists m hold the picture in buffer b alone, and say what k says.
Restarted(m, k, h, gn, b) ==
  Agree(m, k, h, gn) /\ (\A f : Linked(m, f, TRUE)) /\ Bufs(m) = {b}

\* With a short-term picture alone they agree with the marking that has it alone.
LEMMA SingleShort ==
  ASSUME NEW m, NEW n \in D!Nodes, NEW b, Single(m, n, "short", b), NEW h, NEW gn, NEW k,
         k.short = {[pic |-> h[b], fn |-> gn[b]]}, k.long = <<>>, k.max = -1
  PROVE  Restarted(m, k, h, gn, b)
<1>1. /\ m.node[n].use = "short" /\ m.node[n].buf = b
      /\ \A x \in D!Nodes : x # n => m.node[x].use = "no"
      /\ \A f : Linked(m, f, TRUE)
  BY DEF Single
<1>2. \A x \in D!Nodes : ShortUse(m, x) <=> x = n
  BY <1>1 DEF ShortUse
<1>3. \A x \in D!Nodes : ~ LongUse(m, x)
  BY <1>1 DEF LongUse
<1>4. InUse(m) = {n}
  BY <1>1 DEF InUse
<1>5. PicOf(m, n, h, gn) = [pic |-> h[b], fn |-> gn[b]]
  BY <1>1 DEF PicOf
<1>6. AgreeShort(m, k, h, gn)
  BY <1>2, <1>5 DEF AgreeShort
<1>7. AgreeLong(m, k, h)
  <2>1. DOMAIN k.long = {}
    OBVIOUS
  <2> QED BY <2>1, <1>3 DEF AgreeLong
<1>8. OnePlace(m) /\ Bufs(m) = {b}
  BY <1>1, <1>4 DEF OnePlace, Bufs
<1>9. Agree(m, k, h, gn)
  BY <1>6, <1>7, <1>8 DEF Agree
<1> QED BY <1>1, <1>8, <1>9 DEF Restarted

\* The same for a long-term picture.
LEMMA SingleLong ==
  ASSUME NEW m, NEW n \in D!Nodes, NEW b, Single(m, n, "long", b), m.node[n].lt = 0, m.max = 0,
         NEW h, NEW gn, NEW k,
         k.short = {}, k.long = S!With(<<>>, 0, h[b]), k.max = 0
  PROVE  Restarted(m, k, h, gn, b)
<1>1. /\ m.node[n].use = "long" /\ m.node[n].buf = b
      /\ \A x \in D!Nodes : x # n => m.node[x].use = "no"
      /\ \A f : Linked(m, f, TRUE)
  BY DEF Single
<1>2. \A x \in D!Nodes : ~ ShortUse(m, x)
  BY <1>1 DEF ShortUse
<1>3. \A x \in D!Nodes : LongUse(m, x) <=> x = n
  BY <1>1 DEF LongUse
<1>4. InUse(m) = {n}
  BY <1>1 DEF InUse
<1>6. AgreeShort(m, k, h, gn)
  BY <1>2 DEF AgreeShort
<1>7. AgreeLong(m, k, h)
  <2>1. k.long = [j \in DOMAIN <<>> \cup {0} |-> IF j = 0 THEN h[b] ELSE <<>>[j]]
    BY DEF S!With
  <2>2. DOMAIN <<>> \cup {0} = {0}
    OBVIOUS
  <2>3. DOMAIN k.long = {0} /\ k.long[0] = h[b]
    BY <2>1, <2>2
  <2> QED BY <2>3, <1>1, <1>3 DEF AgreeLong
<1>8. OnePlace(m) /\ Bufs(m) = {b}
  BY <1>1, <1>4 DEF OnePlace, Bufs
<1>9. Agree(m, k, h, gn)
  BY <1>6, <1>7, <1>8 DEF Agree
<1> QED BY <1>1, <1>8, <1>9 DEF Restarted

\* A picture with command 5.
LEMMA ResetMarked ==
  ASSUME NEW l, Vacant(l), NEW b \in Nat, NEW h, NEW gn, gn[b] = 0, NEW mk, NEW fn0, NEW cmds,
         NEW adaptive, Marks(mk, fn0, cmds, adaptive), S!Resets(cmds), NEW size
  PROVE  LET r == D!DoMmcoBuffer(l, adaptive, cmds, fn0, b, size)
             k == S!Mark(mk, adaptive, cmds, fn0, h[b], size) IN
         r.ok = TRUE /\ r.rel = {} /\ Restarted(r.l, k, h, gn, b)
<1> DEFINE r == D!DoMmcoBuffer(l, adaptive, cmds, fn0, b, size)
           k == S!Mark(mk, adaptive, cmds, fn0, h[b], size)
           d == D!ResetRefs(l)
           i == D!InsertShort(d.l, b, 0)
<1>1. /\ Legal(cmds, mk, fn0) /\ adaptive \in BOOLEAN /\ adaptive = (cmds # <<>>)
  BY DEF Marks
<1>2. /\ cmds \in Seq(S!AnyCommand)
      /\ \A j \in 1..Len(cmds) : cmds[j].op = 5 => Len(cmds) = 1
  BY <1>1 DEF Legal
<1>3. Len(cmds) \in Nat /\ DOMAIN cmds = 1..Len(cmds)
  BY <1>2
<1>4. Len(cmds) = 1 /\ cmds[1].op = 5
  <2>1. PICK j \in 1..Len(cmds) : cmds[j].op = 5
    BY <1>3 DEF S!Resets
  <2>2. Len(cmds) = 1
    BY <1>2, <2>1
  <2> QED BY <2>1, <2>2
<1>5. adaptive = TRUE /\ ~ S!MarksLong(cmds)
  <2>1. cmds # <<>>
    BY <1>4
  <2>2. DOMAIN cmds = {1}
    BY <1>3, <1>4
  <2>3. ~ S!MarksLong(cmds)
    BY <1>4, <2>2 DEF S!MarksLong
  <2>4. adaptive = TRUE
    BY <1>1, <2>1
  <2> QED BY <2>3, <2>4
<1>6. Vacant(d.l) /\ d.rel = {} /\ d.ok = TRUE
  <2>1. Chained(l)
    BY ChainedLinked DEF Vacant
  <2>2. Bufs(l) = {}
    BY DEF Vacant, Bufs
  <2> QED BY <2>1, <2>2, ResetVacant
<1>7. D!Commands(l, cmds, fn0, b) = [l |-> d.l, rel |-> {}, ok |-> TRUE, cur |-> 0]
  <2>1. PICK a : ObeysEach(a, l, cmds, fn0, b)
    BY <1>3, ListsAfterEach
  <2>2. a[0] = [l |-> l, rel |-> {}, ok |-> TRUE, cur |-> fn0]
    BY <2>1 DEF ObeysEach
  <2>3. a[1] = D!Obey(a[0], cmds[1], b) /\ D!Commands(l, cmds, fn0, b) = a[1]
    <3>1. 1 \in 1..Len(cmds) /\ 1 - 1 = 0
      BY <1>4
    <3> QED BY <1>4, <2>1, <3>1 DEF ObeysEach
  <2>4. D!Command(l, cmds[1], fn0, b) = d
    BY <1>4 DEF D!Command
  <2>5. a[1] = [l |-> d.l, rel |-> {} \cup d.rel, ok |-> d.ok, cur |-> 0]
    <3> HIDE DEF d
    <3> QED BY <1>4, <2>2, <2>3, <2>4 DEF D!Obey
  <2> QED BY <1>6, <2>3, <2>5
<1>8. S!Commands(mk, cmds, fn0, h[b]) = S!Nothing
  <2>1. PICK g : MarksEach(g, mk, cmds, fn0, h[b])
    BY <1>3, MarkingAfterEach
  <2>2. g[1] = S!Apply(g[0], cmds[1], fn0, h[b]) /\ S!Commands(mk, cmds, fn0, h[b]) = g[1]
    <3>1. 1 \in 1..Len(cmds) /\ 1 - 1 = 0
      BY <1>4
    <3> QED BY <1>4, <2>1, <3>1 DEF MarksEach
  <2> QED BY <1>4, <2>2 DEF S!Apply
<1>9. r = [i EXCEPT !.rel = {}]
  <2> HIDE DEF d
  <2> QED BY <1>5, <1>7 DEF D!DoMmcoBuffer, D!ListCurrent, S!MarksLong
<1>10. k = [S!Nothing EXCEPT !.short = @ \cup {[pic |-> h[b], fn |-> 0]}]
  BY <1>5, <1>8 DEF S!Mark, S!MarkedNum
<1>11. k.short = {[pic |-> h[b], fn |-> gn[b]]} /\ k.long = <<>> /\ k.max = -1
  <2> HIDE DEF k
  <2> QED BY <1>10 DEF S!Nothing
<1>12. i = [l |-> i.l, rel |-> i.rel, ok |-> i.ok]
  BY DEF D!InsertShort, D!Fail, D!Done
<1>13. i.ok = TRUE /\ \E n \in D!Nodes : Single(i.l, n, "short", b)
  <2> HIDE DEF d
  <2> QED BY <1>6, FirstIn
<1> HIDE DEF d, i, r, k
<1>14. r.l = i.l /\ r.ok = i.ok /\ r.rel = {}
  BY <1>9, <1>12
<1>15. Restarted(i.l, k, h, gn, b)
  BY <1>11, <1>13, SingleShort
<1>16. r.ok = TRUE /\ r.rel = {} /\ Restarted(r.l, k, h, gn, b)
  BY <1>13, <1>14, <1>15
<1> QED BY <1>16 DEF r, k

\* An IDR picture.
LEMMA IdrMarked ==
  ASSUME NEW l, Vacant(l), NEW b \in Nat, NEW h, NEW gn, gn[b] = 0, NEW isLong
  PROVE  LET r == D!MarkIdr(l, b, isLong)
             k == S!MarkIdr(h[b], isLong) IN
         r.ok = TRUE /\ r.rel = {} /\ Restarted(r.l, k, h, gn, b)
<1> DEFINE r == D!MarkIdr(l, b, isLong)
           k == S!MarkIdr(h[b], isLong)
           d == D!ResetRefs(l)
           s == D!InsertShort(d.l, b, 0)
           i == D!InsertShort(l, b, 0)
           m == D!MakeLong(i.l, 0, 0)
           G == r.ok = TRUE /\ r.rel = {} /\ Restarted(r.l, k, h, gn, b)
<1>1. Vacant(d.l) /\ d.rel = {} /\ d.ok = TRUE
  <2>1. Chained(l)
    BY ChainedLinked DEF Vacant
  <2>2. Bufs(l) = {}
    BY DEF Vacant, Bufs
  <2> QED BY <2>1, <2>2, ResetVacant
<1>2. ASSUME ~ isLong PROVE G
  <2> DEFINE w == WithMax(s.l, D!NoLong)
  <2>1. s.ok = TRUE /\ \E n \in D!Nodes : Single(s.l, n, "short", b)
    <3> HIDE DEF d
    <3> QED BY <1>1, FirstIn
  <2>2. s = [l |-> s.l, rel |-> s.rel, ok |-> s.ok]
    BY DEF D!InsertShort, D!Fail, D!Done
  <2>3. r = [s EXCEPT !.l.max = D!NoLong, !.rel = d.rel]
    BY <1>2 DEF D!MarkIdr
  <2>4. k.short = {[pic |-> h[b], fn |-> gn[b]]} /\ k.long = <<>> /\ k.max = -1
    <3>1. k = [S!Nothing EXCEPT !.short = {[pic |-> h[b], fn |-> 0]}]
      BY <1>2 DEF S!MarkIdr
    <3> HIDE DEF k
    <3> QED BY <3>1 DEF S!Nothing
  <2> HIDE DEF s, r, k, d
  <2>5. r.l = w /\ r.ok = s.ok /\ r.rel = {}
    BY <1>1, <2>2, <2>3 DEF WithMax
  <2>6. PICK n \in D!Nodes : Single(s.l, n, "short", b)
    BY <2>1
  <2>7. Single(w, n, "short", b)
    <3>0. D!NoLong \in Nat
      BY DEF D!NoLong
    <3>1. \A f : Linked(s.l, f, TRUE)
      BY <2>6 DEF Single
    <3>2. \A f : Linked(w, f, TRUE) /\ w.node = s.l.node
      BY <3>0, <3>1, MaxSame
    <3> HIDE DEF w
    <3> QED BY <2>6, <3>2 DEF Single
  <2> HIDE DEF w
  <2>8. Restarted(w, k, h, gn, b)
    BY <2>4, <2>7, SingleShort
  <2> QED BY <2>1, <2>5, <2>8
<1>3. ASSUME isLong PROVE G
  <2> DEFINE w == WithMax(m.l, 0)
  <2>1. i.ok = TRUE /\ \E n \in D!Nodes : Single(i.l, n, "short", b) /\ i.l.node[n].num = 0
    BY FirstIn
  <2>2. m = [l |-> m.l, rel |-> m.rel, ok |-> m.ok]
    BY DEF D!MakeLong, D!Fail, D!Done
  <2>3. r = IF i.ok /\ m.ok THEN [m EXCEPT !.l.max = 0] ELSE D!Done([i.l EXCEPT !.max = 0], {})
    BY <1>3 DEF D!MarkIdr
  <2>4. k.short = {} /\ k.long = S!With(<<>>, 0, h[b]) /\ k.max = 0
    BY <1>3 DEF S!MarkIdr
  <2>5. PICK n \in D!Nodes : Single(i.l, n, "short", b) /\ i.l.node[n].num = 0
    BY <2>1
  <2> HIDE DEF i
  <2>6. \A f : MakesLong(i.l, m, f, 0, 0)
    <3>1. \A f : Linked(i.l, f, TRUE)
      BY <2>5 DEF Single
    <3>2. \E x \in D!Nodes : ShortUse(i.l, x) /\ i.l.node[x].num = 0
      BY <2>5 DEF Single, ShortUse
    <3> HIDE DEF m
    <3> SUFFICES ASSUME NEW f PROVE MakesLong(i.l, m, f, 0, 0)
      OBVIOUS
    <3>3. m = D!MakeLong(i.l, 0, 0) /\ 0 \in Nat
      BY DEF m
    <3> QED BY <3>1, <3>2, <3>3, MakeLongNamed
  <2> HIDE DEF m, r, k
  <2>7. WithIdx(i.l, 0) = {}
    BY <2>5 DEF Single, WithIdx, LongUse
  <2>8. m.ok = TRUE /\ m.rel = {} /\ \A f : Linked(m.l, f, TRUE)
    BY <2>6, <2>7 DEF MakesLong
  <2>9. PICK y \in D!Nodes :
           /\ ShortUse(i.l, y) /\ m.l.node[y].use = "long" /\ m.l.node[y].lt = 0
           /\ m.l.node[y].buf = i.l.node[y].buf
           /\ \A x \in D!Nodes : x # y /\ x \notin WithIdx(i.l, 0) => Same(i.l, m.l, x)
    BY <2>6 DEF MakesLong
  <2>10. y = n
    BY <2>5, <2>9 DEF Single, ShortUse
  <2>11. r.l = w /\ r.ok = m.ok /\ r.rel = m.rel
    BY <2>1, <2>2, <2>3, <2>8 DEF WithMax
  <2>12. w.max = 0 /\ w.node = m.l.node /\ \A f : Linked(w, f, TRUE)
    <3>0. 0 \in Nat
      OBVIOUS
    <3>1. \A f : Linked(w, f, TRUE)
      BY <2>8, <3>0, MaxSame
    <3>2. w.max = 0 /\ w.node = m.l.node
      BY <2>8, <3>0, MaxSame
    <3> QED BY <3>1, <3>2
  <2> HIDE DEF w
  <2>13. Single(w, n, "long", b) /\ w.node[n].lt = 0
    BY <2>5, <2>7, <2>9, <2>10, <2>12 DEF Single, Same
  <2>14. Restarted(w, k, h, gn, b)
    BY <2>4, <2>12, <2>13, SingleLong
  <2> QED BY <2>8, <2>11, <2>14
<1> HIDE DEF G
<1>4. G
  BY <1>2, <1>3
<1> QED BY <1>4 DEF G

-----------------------------------------------------------------------------
(* The order of the short-term pictures from one picture to the next. *)

\* The frame number after prev.
LEMMA NextNumber ==
  ASSUME NEW p \in FrameNums
  PROVE  (p + 1) % MaxFrameNum = IF p + 1 = MaxFrameNum THEN 0 ELSE p + 1
<1> DEFINE M0 == MaxFrameNum
<1>1. M0 \in Nat /\ M0 > 0 /\ p \in Nat /\ p < M0
  BY NumFacts DEF FrameNums
<1> HIDE DEF M0
<1>2. CASE p + 1 = M0
  <2>1. M0 % M0 = 0
    BY <1>1
  <2> QED BY <1>2, <2>1 DEF M0
<1>3. CASE p + 1 # M0
  <2> DEFINE q == p + 1
  <2>1. q \in 0..M0-1
    BY <1>1, <1>3
  <2> HIDE DEF q
  <2>2. q % M0 = q
    BY <1>1, <2>1
  <2> QED BY <1>3, <2>2 DEF q, M0
<1> QED BY <1>2, <1>3

\* Frame numbers that are not the next one are in the same order from it.
LEMMA NextOrder ==
  ASSUME NEW p \in FrameNums, NEW f \in FrameNums, NEW g \in FrameNums, NEW n,
         n = (p + 1) % MaxFrameNum, f # n, g # n, S!Wrap(f, p) < S!Wrap(g, p)
  PROVE  S!Wrap(f, n) < S!Wrap(g, n)
<1>1. n = IF p + 1 = MaxFrameNum THEN 0 ELSE p + 1
  BY NextNumber
<1>2. /\ MaxFrameNum \in Nat /\ p \in Nat /\ f \in Nat /\ g \in Nat
      /\ p < MaxFrameNum /\ f < MaxFrameNum /\ g < MaxFrameNum
  BY NumFacts DEF FrameNums
<1> QED BY <1>1, <1>2 DEF S!Wrap

\* The short-term list falls along any numbers in the same order.
LEMMA Reorder ==
  ASSUME NEW l, NEW f, NEW g, Linked(l, f, TRUE),
         \A x, y \in D!Nodes : ShortUse(l, x) /\ ShortUse(l, y) /\ f[x] > f[y] => g[x] > g[y]
  PROVE  Linked(l, g, TRUE)
<1>1. PICK s, t : Lists(l, s, t) /\ Falling(l, s, f)
  BY DEF Linked
<1>2. ShortChain(l, s) /\ l.nst \in Nat
  BY <1>1 DEF Lists, ListStates
<1>3. \A i \in 1..l.nst : s[i] \in D!Nodes /\ ShortUse(l, s[i])
  BY <1>2 DEF ShortChain
<1>4. Falling(l, s, g)
  BY <1>1, <1>3 DEF Falling
<1> QED BY <1>1, <1>4 DEF Linked

\* For the buffers B two pairs of functions are the same.
SameFor(B, h, fn, k, gn) == \A b \in B : k[b] = h[b] /\ gn[b] = fn[b]

\* Lists numbered again say the same, in the same order.
LEMMA RenumberedAgrees ==
  ASSUME NEW l, NEW r, NEW f, NEW cur0, NEW fn, NEW gn, NEW h, NEW k, NEW mk,
         Renumbered(l, r, f, TRUE, cur0, gn), Agree(l, mk, h, fn),
         SameFor(Bufs(l), h, fn, k, gn)
  PROVE  Agree(r, mk, k, gn) /\ Bufs(r) = Bufs(l)
<1>1. /\ r.max = l.max
      /\ \A x \in D!Nodes : /\ r.node[x].use = l.node[x].use /\ r.node[x].buf = l.node[x].buf
                            /\ r.node[x].lt = l.node[x].lt
  BY DEF Renumbered
<1>2. \A x \in D!Nodes : /\ ShortUse(r, x) <=> ShortUse(l, x)
                         /\ LongUse(r, x) <=> LongUse(l, x)
  BY <1>1 DEF ShortUse, LongUse
<1>3. InUse(r) = InUse(l) /\ \A x \in InUse(l) : r.node[x].buf = l.node[x].buf
  BY <1>1 DEF InUse
<1>4. Bufs(r) = Bufs(l)
  BY <1>3 DEF Bufs
<1>5. \A x \in D!Nodes : ShortUse(l, x) \/ LongUse(l, x) => x \in InUse(l)
  BY DEF ShortUse, LongUse, InUse
<1>6. \A x \in InUse(l) : k[r.node[x].buf] = h[l.node[x].buf] /\ gn[r.node[x].buf] = fn[l.node[x].buf]
  BY <1>3 DEF Bufs, SameFor
<1>7. AgreeShort(l, mk, h, fn) /\ AgreeLong(l, mk, h) /\ OnePlace(l) /\ (mk.max >= 0 => l.max = mk.max)
  BY DEF Agree
<1>8. AgreeShort(r, mk, k, gn)
  <2>1. \A x \in D!Nodes : ShortUse(l, x) => PicOf(r, x, k, gn) = PicOf(l, x, h, fn)
    BY <1>5, <1>6 DEF PicOf
  <2> QED BY <1>2, <1>5, <1>6, <1>7, <2>1 DEF AgreeShort
<1>9. AgreeLong(r, mk, k)
  BY <1>1, <1>2, <1>5, <1>6, <1>7 DEF AgreeLong
<1>10. OnePlace(r)
  BY <1>3, <1>7 DEF OnePlace
<1> QED BY <1>1, <1>4, <1>7, <1>8, <1>9, <1>10 DEF Agree

\* The lists when a reference picture with a new frame number begins.
LEMMA RenumberedMid ==
  ASSUME NEW l, NEW r, NEW p \in FrameNums, NEW n, n = (p + 1) % MaxFrameNum, NEW fn, NEW h, NEW mk,
         Linked(r, Recent(r, fn, p), TRUE), Agree(r, mk, h, fn), IsMarking(mk),
         Numbered(r, fn, n), n \notin {e.fn : e \in mk.short}
  PROVE  Linked(r, Nums(r), TRUE)
<1>1. \A x \in D!Nodes : ShortUse(r, x) =>
        /\ fn[r.node[x].buf] \in FrameNums /\ fn[r.node[x].buf] # n
        /\ Nums(r)[x] = S!Wrap(fn[r.node[x].buf], n)
        /\ Recent(r, fn, p)[x] = S!Wrap(fn[r.node[x].buf], p)
  <2> SUFFICES ASSUME NEW x \in D!Nodes, ShortUse(r, x)
               PROVE  /\ fn[r.node[x].buf] \in FrameNums /\ fn[r.node[x].buf] # n
                      /\ Nums(r)[x] = S!Wrap(fn[r.node[x].buf], n)
                      /\ Recent(r, fn, p)[x] = S!Wrap(fn[r.node[x].buf], p)
    OBVIOUS
  <2>1. PicOf(r, x, h, fn) \in mk.short /\ PicOf(r, x, h, fn).fn = fn[r.node[x].buf]
    BY DEF Agree, AgreeShort, PicOf
  <2>2. fn[r.node[x].buf] # n
    BY <2>1
  <2> QED BY <2>2 DEF Numbered, Nums, Recent
<1>2. ASSUME NEW x \in D!Nodes, NEW y \in D!Nodes, ShortUse(r, x), ShortUse(r, y),
             Recent(r, fn, p)[x] > Recent(r, fn, p)[y]
      PROVE  Nums(r)[x] > Nums(r)[y]
  <2> DEFINE f == fn[r.node[x].buf]
             g == fn[r.node[y].buf]
  <2>1. /\ f \in FrameNums /\ f # n /\ g \in FrameNums /\ g # n
        /\ Nums(r)[x] = S!Wrap(f, n) /\ Nums(r)[y] = S!Wrap(g, n)
        /\ S!Wrap(f, p) > S!Wrap(g, p)
    BY <1>1, <1>2
  <2> HIDE DEF f, g
  <2>2. n \in FrameNums
    BY NumFacts DEF FrameNums
  <2>3. S!Wrap(f, p) \in Int /\ S!Wrap(g, p) \in Int /\ S!Wrap(f, n) \in Int /\ S!Wrap(g, n) \in Int
    BY <2>1, <2>2, WrapFacts
  <2>4. S!Wrap(g, p) < S!Wrap(f, p)
    BY <2>1, <2>3
  <2>5. S!Wrap(g, n) < S!Wrap(f, n)
    BY <2>1, <2>4, NextOrder
  <2> QED BY <2>1, <2>3, <2>5
<1> QED BY <1>2, Reorder

-----------------------------------------------------------------------------
(* Where the buffers of references are marked, and stay marked. *)

\* A manager stays one, and the references outside rel stay marked.
Keeps(m, n, rel) ==
  /\ n \in P!Managers
  /\ \A d \in conf.pics \ rel : "REF" \in m[d] => "REF" \in n[d]

\* One change after the other.
LEMMA KeepsTwice ==
  ASSUME NEW l, NEW m, NEW n, NEW q, NEW r, Keeps(l, m, q), Keeps(m, n, r)
  PROVE  Keeps(l, n, q \cup r)
BY DEF Keeps

\* ih264_buf_mgr_release of another flag, and of a reference.
LEMMA ReleaseKeeps ==
  ASSUME NEW m \in P!Managers, NEW b, NEW flag
  PROVE  /\ flag # "REF" => Keeps(m, P!Release(m, b, flag), {})
         /\ Keeps(m, P!Release(m, b, flag), {b})
<1> DEFINE n == P!Release(m, b, flag)
           v == IF m[b] \ {flag} = {"busy"} THEN {} ELSE m[b] \ {flag}
<1>1. n = [m EXCEPT ![b] = v]
  BY DEF P!Release
<1>2. m \in [conf.pics -> SUBSET P!Flags]
  BY DEF P!Managers
<1> HIDE DEF n
<1>3. b \in conf.pics => v \in SUBSET P!Flags
  BY <1>2
<1>4. flag # "REF" /\ b \in conf.pics => ("REF" \in m[b] => "REF" \in v)
  OBVIOUS
<1> HIDE DEF v
<1>5. n \in [conf.pics -> SUBSET P!Flags]
  BY <1>1, <1>2, <1>3
<1>6. \A d \in conf.pics : n[d] = IF d = b THEN v ELSE m[d]
  BY <1>1, <1>2
<1>7. /\ flag # "REF" => Keeps(m, n, {})
      /\ Keeps(m, n, {b})
  BY <1>4, <1>5, <1>6 DEF Keeps, P!Managers
<1> QED BY <1>7 DEF n

\* ih264_buf_mgr_set_status.
LEMMA StatusKeeps ==
  ASSUME NEW m \in P!Managers, NEW b \in conf.pics, NEW flag \in P!Flags
  PROVE  Keeps(m, P!SetStatus(m, b, flag), {}) /\ flag \in P!SetStatus(m, b, flag)[b]
BY DEF Keeps, P!SetStatus, P!Managers

\* ih264d_free_ref_pic_mv_bufs.
LEMMA UnrefKeeps ==
  ASSUME NEW m \in P!Managers, NEW B
  PROVE  Keeps(m, Unref(m, B), B)
<1> DEFINE n == Unref(m, B)
<1>1. n = [b \in conf.pics |-> IF b \in B THEN P!Release(m, b, "REF")[b] ELSE m[b]]
  BY DEF Unref
<1> HIDE DEF n
<1>2. m \in [conf.pics -> SUBSET P!Flags]
  BY DEF P!Managers
<1>3. \A b \in conf.pics : P!Release(m, b, "REF")[b] \in SUBSET P!Flags
  BY ReleaseKeeps DEF Keeps, P!Managers
<1>4. \A b \in conf.pics : n[b] \in SUBSET P!Flags /\ (b \notin B => n[b] = m[b])
  BY <1>1, <1>2, <1>3
<1>5. n = [b \in conf.pics |-> n[b]]
  BY <1>1
<1>6. n \in P!Managers
  BY <1>4, <1>5 DEF P!Managers
<1>7. Keeps(m, n, B)
  BY <1>4, <1>6 DEF Keeps
<1> QED BY <1>7 DEF n

\* The free buffer that is taken is no reference.
LEMMA TakeKeeps ==
  ASSUME NEW m \in P!Managers
  PROVE  /\ P!Take(m) \in P!Managers
         /\ P!NextFree(m) \in P!FreeBufs(m) => Keeps(m, P!Take(m), {})
BY DEF Keeps, P!Take, P!FreeBufs, P!Managers, P!Flags

\* ih264_buf_mgr_get_next_free gives a free buffer when there is one.
LEMMA NextFreeFacts ==
  ASSUME conf.pics \subseteq Nat, NEW m, P!HasFree(m)
  PROVE  P!NextFree(m) \in conf.pics /\ m[P!NextFree(m)] = {}
<1> DEFINE F == P!FreeBufs(m)
           b == P!NextFree(m)
<1>1. F # {} /\ F \subseteq conf.pics
  BY DEF P!HasFree, P!FreeBufs
<1>2. F \subseteq Nat
  BY <1>1
<1>3. b = D!Min(F)
  BY DEF P!NextFree, P!Min, D!Min
<1> HIDE DEF F, b
<1>4. b \in F
  BY <1>1, <1>2, <1>3, MinFacts
<1> QED BY <1>4 DEF F, b, P!FreeBufs

\* The check for a free buffer leaves the references alone.
LEMMA MarkedKeeps ==
  ASSUME pic \in P!Managers
  PROVE  Keeps(pic, Marked, {})
<1>1. pic \in [conf.pics -> SUBSET P!Flags]
  BY DEF P!Managers
<1>2. Marked \in [conf.pics -> SUBSET P!Flags]
  BY <1>1 DEF Marked, P!Flags
<1>3. \A d \in conf.pics : pic[d] # {} => Marked[d] = pic[d]
  BY DEF Marked
<1>4. \A d \in conf.pics : "REF" \in pic[d] => "REF" \in Marked[d]
  <2>1. \A d \in conf.pics : "REF" \in pic[d] => pic[d] # {}
    OBVIOUS
  <2> QED BY <1>3, <2>1
<1> QED BY <1>2, <1>4 DEF Keeps, P!Managers

\* Only for an IDR picture are references given up before it is marked.
LEMMA PicsForKeeps ==
  ASSUME pic \in P!Managers, NEW p
  PROVE  PicsFor(p) \in P!Managers /\ (~ p.idr => Keeps(pic, PicsFor(p), {}))
<1>1. Keeps(pic, Marked, {}) /\ Keeps(pic, pic, {})
  BY MarkedKeeps DEF Keeps
<1>2. CASE FreePic \/ ~ p.idr
  <2>1. PicsFor(p) = IF conf.c.shared THEN Marked ELSE pic
    BY <1>2 DEF PicsFor
  <2>2. Keeps(pic, PicsFor(p), {})
    BY <1>1, <2>1
  <2> QED BY <2>2 DEF Keeps
<1>3. CASE ~ (FreePic \/ ~ p.idr)
  <2> DEFINE m == Unref(pic, conf.pics)
             n == [b \in conf.pics |-> P!Release(m, b, "IO")[b]]
  <2>1. PicsFor(p) = n
    BY <1>3 DEF PicsFor
  <2>2. m \in P!Managers
    BY UnrefKeeps DEF Keeps
  <2> HIDE DEF m
  <2>3. \A b \in conf.pics : P!Release(m, b, "IO")[b] \in SUBSET P!Flags
    BY <2>2, ReleaseKeeps DEF Keeps, P!Managers
  <2>4. n \in P!Managers
    BY <2>3 DEF P!Managers
  <2> QED BY <1>3, <2>1, <2>4
<1> QED BY <1>2, <1>3

\* The buffers at the end of a picture in buffer b.
LEMMA EndKeeps ==
  ASSUME pic \in P!Managers, NEW p, cur.buf \in conf.pics, NEW first, NEW then
  PROVE  /\ Keeps(pic, EndPic(p, first, then), first \cup then)
         /\ p.ref /\ cur.buf \notin then => "REF" \in EndPic(p, first, then)[cur.buf]
<1> DEFINE b == cur.buf
           m1 == Unref(pic, first)
           m2 == IF p.ref THEN P!SetStatus(m1, b, "REF") ELSE m1
           m3 == P!SetStatus(m2, b, "IO")
           m4 == IF EndOut(p) = NoBuf \/ conf.c.shared THEN m3
                 ELSE P!Release(m3, EndOut(p), "IO")
           m5 == Unref(m4, then)
<1>1. EndPic(p, first, then) = m5
  BY DEF EndPic
<1>2. Keeps(pic, m1, first) /\ m1 \in P!Managers
  BY UnrefKeeps DEF Keeps
<1> HIDE DEF m1
<1>3. Keeps(m1, m2, {}) /\ m2 \in P!Managers /\ (p.ref => "REF" \in m2[b])
  BY <1>2, StatusKeeps DEF Keeps, P!Flags
<1> HIDE DEF m2
<1>4. Keeps(m2, m3, {}) /\ m3 \in P!Managers
  BY <1>3, StatusKeeps DEF Keeps, P!Flags
<1> HIDE DEF m3
<1>5. Keeps(m3, m4, {}) /\ m4 \in P!Managers
  BY <1>4, ReleaseKeeps DEF Keeps
<1> HIDE DEF m4
<1>6. Keeps(m4, m5, then)
  BY <1>5, UnrefKeeps
<1> HIDE DEF m5
<1>7. Keeps(m2, m5, then)
  BY <1>4, <1>5, <1>6 DEF Keeps
<1>8. Keeps(pic, m5, first \cup then)
  BY <1>2, <1>3, <1>7 DEF Keeps
<1>9. p.ref /\ b \notin then => "REF" \in m5[b]
  BY <1>3, <1>7 DEF Keeps
<1> QED BY <1>1, <1>8, <1>9 DEF b

-----------------------------------------------------------------------------
(* The invariant of the steps. *)

\* The lists' buffers are marked as references.
Referenced == \A b \in Bufs(lists) : "REF" \in pic[b]

\* Between calls the lists say what the stream has sent.
Between ==
  /\ reset = stream.reset
  /\ Agree(lists, stream.mk, holds, frameNum)
  /\ Linked(lists, Recent(lists, frameNum, stream.prev), TRUE)
  /\ ~ stream.fresh => Referenced

\* The lists l are ready for picture p in buffer b, of a stream that has sent s:
\* they say what it says, are numbered for p and do not hold b.
Ready(l, s, h, fn, p, b) ==
  /\ Agree(l, s.mk, h, fn) /\ Linked(l, Recent(l, fn, s.prev), TRUE)
  /\ b \notin Bufs(l) /\ fn[b] = p.fn
  /\ p.ref => Numbered(l, fn, p.fn) /\ Linked(l, Nums(l), TRUE)

\* Within a call they say what the stream had sent before, s; where an IDR
\* picture is decoded they may say anything.
Within(s) ==
  /\ StreamOK(s, conf.c) /\ NextOf(s, cur.p, conf.c) /\ stream = S!Advance(s, cur.p, conf.c)
  /\ reset = s.reset /\ holds[cur.buf] = cur.p.key /\ frameNum[cur.buf] = cur.p.fn
  /\ ~ cur.p.idr => Ready(lists, s, holds, frameNum, cur.p, cur.buf) /\ Referenced

\* Streams that reach the decoder whole, whose pictures after a command 5 are
\* references and that begin again with an IDR picture after a flush.
Orderly == ~ lost /\ conf.c.quiet /\ conf.c.idrNext

StepInv ==
  /\ WalkInv /\ pic \in P!Managers /\ holds \in [conf.pics -> Int]
  /\ Orderly =>
       /\ failed = FALSE /\ \E f : Linked(lists, f, TRUE)
       /\ cur = None => Between
       /\ cur # None => \E s : Within(s)

\* It holds at the beginning.
LEMMA StepInit == Init => StepInv
<1> SUFFICES ASSUME Init PROVE StepInv
  OBVIOUS
<1>1. WalkInv
  BY WalkInit
<1>2. /\ stream = S!Opening /\ lists = D!Empty /\ failed = FALSE /\ reset = FALSE /\ cur = None
      /\ pic = [b \in conf.pics |-> IF b \in mapped THEN {"IO"} ELSE {}]
      /\ holds = [b \in conf.pics |-> NoKey]
  BY DEF Init
<1>3. pic \in P!Managers
  <2>1. \A b \in conf.pics : (IF b \in mapped THEN {"IO"} ELSE {}) \in SUBSET P!Flags
    BY DEF P!Flags
  <2> QED BY <1>2, <2>1 DEF P!Managers
<1>4. holds \in [conf.pics -> Int]
  BY <1>2 DEF NoKey
<1>5. InUse(lists) = {} /\ \A x \in D!Nodes : ~ ShortUse(lists, x) /\ ~ LongUse(lists, x)
  <2>1. \A x \in D!Nodes : lists.node[x].use = "no"
    BY <1>2 DEF D!Empty, D!EmptyNode
  <2> QED BY <2>1 DEF InUse, ShortUse, LongUse
<1>6. Linked(lists, 0, FALSE)
  BY <1>1, ChainedLinked DEF WalkInv
<1>7. \A f : Linked(lists, f, TRUE)
  <2> SUFFICES ASSUME NEW f PROVE Linked(lists, f, TRUE)
    OBVIOUS
  <2>1. PICK s, t : Lists(lists, s, t)
    BY <1>6 DEF Linked
  <2>2. lists.nst = 0 /\ lists.st = D!Nil
    BY <1>2 DEF D!Empty
  <2>3. Falling(lists, s, f)
    BY <2>2 DEF Falling
  <2> QED BY <2>1, <2>3 DEF Linked
<1>8. Agree(lists, stream.mk, holds, frameNum)
  <2>1. stream.mk.short = {} /\ stream.mk.long = <<>> /\ stream.mk.max = -1
    BY <1>2 DEF S!Opening, S!Nothing
  <2>2. DOMAIN stream.mk.long = {}
    BY <2>1
  <2> QED BY <2>1, <2>2, <1>5 DEF Agree, AgreeShort, AgreeLong, OnePlace
<1>9. stream.reset = FALSE /\ stream.fresh = TRUE
  BY <1>2 DEF S!Opening
<1>10. Between
  BY <1>2, <1>7, <1>8, <1>9 DEF Between
<1> QED BY <1>1, <1>2, <1>3, <1>4, <1>7, <1>10 DEF StepInv

\* The lists say what the stream has sent, and a buffer that is not listed
\* gets a picture: h and fn become k and gn.
Begins(l, s, h, fn, p, b, k, gn) ==
  /\ Agree(l, s.mk, h, fn) /\ Linked(l, Recent(l, fn, s.prev), TRUE)
  /\ b \notin Bufs(l) /\ gn[b] = p.fn
  /\ \A d \in Bufs(l) : k[d] = h[d] /\ gn[d] = fn[d] /\ gn[d] \in FrameNums

\* The lists become ready for the picture by their new numbers.
LEMMA GetsReady ==
  ASSUME NEW l, NEW s, NEW c, NEW h, NEW fn, NEW p, NEW b, NEW k, NEW gn, NEW r,
         StreamOK(s, c), NextOf(s, p, c), ~ p.idr, Begins(l, s, h, fn, p, b, k, gn),
         r = D!AssignPicNum(l, p.fn, gn, MaxFrameNum)
  PROVE  Ready(r, s, k, gn, p, b) /\ Bufs(r) = Bufs(l)
<1> DEFINE f == Recent(l, fn, s.prev)
<1>1. p.fn \in FrameNums /\ IsMarking(s.mk) /\ s.prev \in FrameNums /\ p.fn = (s.prev + 1) % MaxFrameNum
  BY DEF StreamOK, NextOf
<1>0. /\ Agree(l, s.mk, h, fn) /\ Linked(l, Recent(l, fn, s.prev), TRUE)
      /\ b \notin Bufs(l) /\ gn[b] = p.fn
      /\ \A d \in Bufs(l) : k[d] = h[d] /\ gn[d] = fn[d] /\ gn[d] \in FrameNums
  BY DEF Begins
<1>2. \A x \in D!Nodes : ShortUse(l, x) => x \in InUse(l) /\ l.node[x].buf \in Bufs(l)
  BY DEF ShortUse, InUse, Bufs
<1>3. Renumbered(l, r, f, TRUE, p.fn, gn)
  <2>1. \A x \in D!Nodes : ShortUse(l, x) => gn[l.node[x].buf] \in FrameNums
    BY <1>0, <1>2
  <2>2. Linked(l, f, TRUE)
    BY <1>0
  <2> HIDE DEF f
  <2> QED BY <1>1, <2>1, <2>2, AssignFacts
<1>4. Agree(r, s.mk, k, gn) /\ Bufs(r) = Bufs(l)
  <2>1. SameFor(Bufs(l), h, fn, k, gn)
    BY <1>0 DEF SameFor
  <2>2. Agree(l, s.mk, h, fn)
    BY <1>0
  <2>3. PICK m : m = s.mk
    OBVIOUS
  <2>4. Agree(l, m, h, fn)
    BY <2>2, <2>3
  <2> HIDE DEF f
  <2>5. Agree(r, m, k, gn) /\ Bufs(r) = Bufs(l)
    BY <1>3, <2>1, <2>4, RenumberedAgrees
  <2> QED BY <2>3, <2>5
<1>5. /\ Linked(r, f, TRUE)
      /\ \A x \in D!Nodes : /\ r.node[x].use = l.node[x].use /\ r.node[x].buf = l.node[x].buf
                            /\ ShortUse(l, x) => r.node[x].num = S!Wrap(gn[l.node[x].buf], p.fn)
  BY <1>3 DEF Renumbered
<1>6. \A x \in D!Nodes : ShortUse(r, x) <=> ShortUse(l, x)
  BY <1>5 DEF ShortUse
<1>7. Linked(r, Recent(r, gn, s.prev), TRUE)
  <2>1. \A x \in D!Nodes : ShortUse(r, x) => Recent(r, gn, s.prev)[x] = f[x]
    BY <1>0, <1>2, <1>5, <1>6 DEF Recent
  <2> HIDE DEF f
  <2> QED BY <1>5, <2>1, Relink
<1>8. Numbered(r, gn, p.fn)
  BY <1>0, <1>2, <1>5, <1>6 DEF Numbered
<1>9. p.ref => Linked(r, Nums(r), TRUE)
  <2>1. p.ref => p.fn \notin {e.fn : e \in s.mk.short}
    BY DEF NextOf, Marks
  <2> QED BY <1>1, <1>4, <1>7, <1>8, <2>1, RenumberedMid
<1> QED BY <1>0, <1>4, <1>7, <1>8, <1>9 DEF Ready

\* The picture of a call that begins.
LEMMA StepStart ==
  ASSUME StepInv, NEW p \in Coming, StartPicture(p)
  PROVE  StepInv'
<1> DEFINE b == P!NextFree(PicsFor(p))
<1>1. WalkInv /\ WalkInv' /\ pic \in P!Managers /\ holds \in [conf.pics -> Int]
  BY WalkStart DEF StepInv
<1>2. /\ conf.c \in Configs /\ conf.pics \subseteq Nat /\ conf' = conf /\ lost' = lost
      /\ stream' = S!Advance(stream, p, conf.c) /\ failed' = failed /\ reset' = reset
      /\ frameNum' = [frameNum EXCEPT ![b] = p.fn]
      /\ lists' = D!AssignPicNum(lists, p.fn, frameNum', MaxFrameNum)
      /\ cur' = [p |-> p, buf |-> b] /\ pic' = P!Take(PicsFor(p))
      /\ holds' = [holds EXCEPT ![b] = p.key]
  BY <1>1, SetupFacts DEF WalkInv, StartPicture, Parsed, config
<1>3. /\ cur = None /\ p \in S!Pictures(stream, conf.c)
  BY DEF Coming
<1>4. StreamOK(stream, conf.c) /\ frameNum \in [conf.pics -> FrameNums]
      /\ \A x \in InUse(lists) : lists.node[x].buf \in conf.pics
  BY <1>1 DEF WalkInv
<1>5. NextOf(stream, p, conf.c)
  BY <1>2, <1>3, <1>4, PictureFacts
<1>6. p \in S!AnyPicture /\ p.fn \in FrameNums /\ p.key \in Int
  BY <1>5 DEF NextOf, S!AnyPicture
<1>7. b \in conf.pics /\ PicsFor(p)[b] = {} /\ b \in P!FreeBufs(PicsFor(p))
  <2>1. P!HasFree(PicsFor(p))
    BY DEF StartPicture, HasPic
  <2> QED BY <1>2, <2>1, NextFreeFacts DEF P!FreeBufs
<1>8. pic' \in P!Managers /\ (~ p.idr => Keeps(pic, pic', {}))
  <2>1. PicsFor(p) \in P!Managers /\ (~ p.idr => Keeps(pic, PicsFor(p), {}))
    BY <1>1, PicsForKeeps
  <2>2. pic' \in P!Managers /\ Keeps(PicsFor(p), pic', {})
    BY <1>2, <1>7, <2>1, TakeKeeps DEF Keeps
  <2> QED BY <2>1, <2>2 DEF Keeps
<1>9. \A d \in Bufs(lists) : d \in conf.pics
  BY <1>4 DEF Bufs
<1>10. ~ p.idr => (\A d \in conf.pics : "REF" \in pic[d] => d # b)
  BY <1>1, <1>7, PicsForKeeps DEF Keeps
<1> HIDE DEF b
<1>11. /\ holds' \in [conf.pics -> Int] /\ holds'[b] = p.key /\ frameNum'[b] = p.fn
       /\ \A d \in conf.pics : d # b => holds'[d] = holds[d] /\ frameNum'[d] = frameNum[d]
       /\ frameNum' \in [conf.pics -> FrameNums]
  BY <1>1, <1>2, <1>4, <1>6, <1>7
<1>12. \A x \in D!Nodes : ShortUse(lists, x) => frameNum'[lists.node[x].buf] \in FrameNums
  <2>1. \A x \in D!Nodes : ShortUse(lists, x) => lists.node[x].buf \in conf.pics
    BY <1>4 DEF InUse, ShortUse
  <2>2. frameNum' \in [conf.pics -> FrameNums]
    BY <1>11
  <2> QED BY <2>1, <2>2
<1>13. cur'.p = p /\ cur'.buf = b /\ cur' # None
  <2>1. cur' # None
    <3>1. cur' \in [p : S!AnyPicture, buf : Nat]
      BY <1>2, <1>6, <1>7 DEF b
    <3> QED BY <3>1, ConfigsAssumption
  <2> QED BY <1>2, <2>1 DEF b
<1>14. PICK s : s = stream
  OBVIOUS
<1>15. ASSUME Orderly PROVE failed' = FALSE /\ \E f : Linked(lists', f, TRUE)
  <2>1. failed = FALSE
    BY <1>15 DEF StepInv
  <2>2. PICK f : Linked(lists, f, TRUE)
    BY <1>15 DEF StepInv
  <2>3. Renumbered(lists, D!AssignPicNum(lists, p.fn, frameNum', MaxFrameNum), f, TRUE, p.fn, frameNum')
    BY <1>6, <1>12, <2>2, AssignFacts
  <2> QED BY <1>2, <2>1, <2>3 DEF Renumbered
<1>16. ASSUME Orderly, ~ p.idr
       PROVE  Ready(lists', s, holds', frameNum', p, b) /\ \A d \in Bufs(lists') : "REF" \in pic'[d]
  <2>1. Between
    BY <1>3, <1>16 DEF StepInv
  <2>2. ~ stream.fresh
    BY <1>5, <1>16 DEF NextOf
  <2>3. \A d \in Bufs(lists) : "REF" \in pic[d] /\ d # b
    BY <1>9, <1>10, <1>16, <2>1, <2>2 DEF Between, Referenced, b
  <2>4. \A d \in Bufs(lists) : /\ holds'[d] = holds[d] /\ frameNum'[d] = frameNum[d]
                               /\ frameNum'[d] \in FrameNums
    BY <1>9, <1>11, <2>3
  <2>5. b \notin Bufs(lists)
    BY <2>3
  <2>6. Agree(lists, s.mk, holds, frameNum) /\ Linked(lists, Recent(lists, frameNum, s.prev), TRUE)
    BY <1>14, <2>1 DEF Between
  <2>7. StreamOK(s, conf.c) /\ NextOf(s, p, conf.c) /\ frameNum'[b] = p.fn
    BY <1>4, <1>5, <1>11, <1>14
  <2>8. Ready(lists', s, holds', frameNum', p, b) /\ Bufs(lists') = Bufs(lists)
    <3>1. Begins(lists, s, holds, frameNum, p, b, holds', frameNum')
      BY <2>4, <2>5, <2>6, <2>7 DEF Begins
    <3> QED BY <1>2, <1>16, <2>7, <3>1, GetsReady
  <2> QED BY <1>8, <1>9, <1>16, <2>3, <2>8 DEF Keeps
<1>17. ASSUME Orderly PROVE Within(s)'
  <2>1. reset = stream.reset
    BY <1>3, <1>17 DEF StepInv, Between
  <2>2. ~ p.idr => Ready(lists', s, holds', frameNum', p, b) /\ Referenced'
    BY <1>16, <1>17 DEF Referenced
  <2> QED BY <1>2, <1>4, <1>5, <1>11, <1>13, <1>14, <2>1, <2>2 DEF Within
<1>18. Orderly' => Orderly
  BY <1>2 DEF Orderly
<1>19. Orderly' => /\ failed' = FALSE /\ \E f : Linked(lists', f, TRUE)
                   /\ \E z : Within(z)'
  BY <1>15, <1>17, <1>18
<1>20. pic' \in P!Managers' /\ holds' \in [conf'.pics -> Int]
  BY <1>2, <1>8, <1>11 DEF P!Managers
<1> QED BY <1>1, <1>13, <1>19, <1>20 DEF StepInv

-----------------------------------------------------------------------------
(* The end of a picture. *)

\* Picture p in buffer b ends: the lists are cleared to c and marked to m.
Ends(p, b, c, m) ==
  /\ p = cur.p /\ b = cur.buf /\ c = Cleared(p) /\ m = Marking(p, c.l)
  /\ p \in S!AnyPicture /\ b \in conf.pics /\ b \in Nat /\ p.fn \in FrameNums /\ conf.c \in Configs
  /\ lists' = m.l /\ reset' = Resets(p) /\ pic' = EndPic(p, c.rel, m.rel) /\ cur' = None
  /\ failed' = IF p.idr THEN FALSE ELSE Erring(p) \/ (p.ref /\ ~ m.ok)
  /\ frameNum' = [frameNum EXCEPT ![b] = IF p.ref THEN S!MarkedNum(p.cmds, p.fn) ELSE @]
  /\ conf' = conf /\ stream' = stream /\ lost' = lost /\ holds' = holds
  /\ Chained(lists) /\ frameNum \in [conf.pics -> FrameNums] /\ pic \in P!Managers
  /\ holds[b] \in Int /\ \A x \in InUse(lists) : lists.node[x].buf \in conf.pics

\* EndPicture does that.
LEMMA EndEnds ==
  ASSUME StepInv, EndPicture
  PROVE  \E p, b, c, m : Ends(p, b, c, m)
<1> DEFINE p == cur.p
           b == cur.buf
           c == Cleared(p)
           m == Marking(p, c.l)
<1>1. /\ conf' = conf /\ stream' = stream /\ lost' = lost /\ holds' = holds
      /\ cur # None /\ cur' = None
      /\ lists' = m.l /\ reset' = Resets(p) /\ pic' = EndPic(p, c.rel, m.rel)
      /\ failed' = IF p.idr THEN FALSE ELSE Erring(p) \/ (p.ref /\ ~ m.ok)
      /\ frameNum' = [frameNum EXCEPT ![b] = IF p.ref THEN S!MarkedNum(p.cmds, p.fn) ELSE @]
  BY DEF EndPicture, config
<1>2. WalkInv /\ pic \in P!Managers /\ holds \in [conf.pics -> Int]
  BY DEF StepInv
<1>3. /\ p \in S!AnyPicture /\ b \in conf.pics /\ p.fn \in FrameNums
      /\ Chained(lists) /\ frameNum \in [conf.pics -> FrameNums] /\ conf.c \in Configs
      /\ conf.pics \subseteq Nat
      /\ \A x \in InUse(lists) : lists.node[x].buf \in conf.pics
  BY <1>1, <1>2, SetupFacts DEF WalkInv
<1>4. b \in Nat /\ holds[b] \in Int
  BY <1>2, <1>3
<1>5. Ends(p, b, c, m)
  BY <1>1, <1>2, <1>3, <1>4 DEF Ends
<1> QED BY <1>5

\* The buffers that leave the lists, and the one that comes.
Turned(p, b, c, m) ==
  IF p.idr \/ S!Resets(p.cmds)
  THEN c.rel = Bufs(lists) /\ m.rel = {} /\ Bufs(lists') = {b}
  ELSE IF p.ref
  THEN /\ c.rel = {} /\ m.rel \subseteq Bufs(lists)
       /\ b \notin Bufs(lists) /\ Bufs(lists') = (Bufs(lists) \ m.rel) \cup {b}
  ELSE c.rel = {} /\ m.rel = {} /\ lists' = lists

\* What holds after the picture.
Settled(p, b, c, m) ==
  /\ failed' = FALSE /\ reset' = stream.reset
  /\ Agree(lists', stream.mk, holds, frameNum')
  /\ Linked(lists', Recent(lists', frameNum', stream.prev), TRUE)
  /\ \A d \in Bufs(lists') : "REF" \in pic'[d]
  /\ Turned(p, b, c, m)

\* What an orderly call has brought about.
LEMMA WithinFacts ==
  ASSUME NEW p, NEW b, NEW c, NEW m, Ends(p, b, c, m), NEW s, Within(s), conf.c.quiet
  PROVE  /\ StreamOK(s, conf.c) /\ NextOf(s, p, conf.c) /\ reset = s.reset
         /\ holds[b] = p.key /\ frameNum[b] = p.fn
         /\ ~ p.idr => Ready(lists, s, holds, frameNum, p, b) /\ Referenced
         /\ stream.reset = S!Resets(p.cmds)
         /\ stream.prev = IF p.ref THEN S!MarkedNum(p.cmds, p.fn) ELSE s.prev
         /\ stream.mk = IF p.idr THEN S!MarkIdr(p.key, p.isLong)
                        ELSE IF p.ref THEN S!Mark(s.mk, p.adaptive, p.cmds, p.fn, p.key, conf.c.numRef)
                        ELSE s.mk
         /\ Resets(p) <=> S!Resets(p.cmds)
<1>1. p = cur.p /\ b = cur.buf
  BY DEF Ends
<1>2. /\ StreamOK(s, conf.c) /\ NextOf(s, p, conf.c) /\ reset = s.reset
      /\ holds[b] = p.key /\ frameNum[b] = p.fn
      /\ ~ p.idr => Ready(lists, s, holds, frameNum, p, b) /\ Referenced
      /\ stream = S!Advance(s, p, conf.c)
  BY <1>1 DEF Within
<1>3. /\ stream.reset = S!Resets(p.cmds)
      /\ stream.prev = IF p.ref THEN S!MarkedNum(p.cmds, p.fn) ELSE s.prev
      /\ stream.mk = IF p.idr THEN S!MarkIdr(p.key, p.isLong)
                     ELSE IF p.ref THEN S!Mark(s.mk, p.adaptive, p.cmds, p.fn, p.key, conf.c.numRef)
                     ELSE s.mk
  BY <1>2 DEF S!Advance
<1>4. Resets(p) <=> S!Resets(p.cmds)
  <2>1. CASE p.ref
    BY <2>1 DEF Resets
  <2>2. CASE ~ p.ref
    <3>1. Resets(p) = s.reset
      BY <1>2, <2>2 DEF Resets
    <3>2. ~ s.reset /\ p.cmds = <<>>
      BY <1>2, <2>2 DEF NextOf
    <3>3. ~ S!Resets(p.cmds)
      BY <3>2, NoResets
    <3> QED BY <3>1, <3>2, <3>3
  <2> QED BY <2>1, <2>2
<1> QED BY <1>2, <1>3, <1>4

\* An IDR picture or a picture with command 5.
LEMMA EndRestart ==
  ASSUME NEW p, NEW b, NEW c, NEW m, Ends(p, b, c, m), NEW s, Within(s), conf.c.quiet,
         failed = FALSE, p.idr \/ S!Resets(p.cmds)
  PROVE  Settled(p, b, c, m)
<1> DEFINE h == holds
           gn == frameNum'
<1>1. /\ StreamOK(s, conf.c) /\ NextOf(s, p, conf.c) /\ holds[b] = p.key
      /\ stream.reset = S!Resets(p.cmds)
      /\ stream.prev = IF p.ref THEN S!MarkedNum(p.cmds, p.fn) ELSE s.prev
      /\ stream.mk = IF p.idr THEN S!MarkIdr(p.key, p.isLong)
                     ELSE IF p.ref THEN S!Mark(s.mk, p.adaptive, p.cmds, p.fn, p.key, conf.c.numRef)
                     ELSE s.mk
      /\ Resets(p) <=> S!Resets(p.cmds)
  BY WithinFacts
<1>2. p.ref /\ (p.idr => p.fn = 0)
  <2>1. ~ p.ref => p.cmds = <<>>
    BY <1>1 DEF NextOf
  <2> QED BY <1>1, <2>1, NoResets DEF NextOf
<1>3. S!MarkedNum(p.cmds, p.fn) = 0
  BY <1>2 DEF S!MarkedNum
<1>4. gn[b] = 0
  BY <1>2, <1>3 DEF Ends
<1>5. c = D!ResetRefs(lists) /\ Chained(lists)
  <2>1. Restarts(p)
    BY <1>1 DEF Restarts
  <2> QED BY <2>1 DEF Ends, Cleared
<1>6. Vacant(c.l)
  BY <1>5, ResetVacant
<1>7. m.ok = TRUE /\ m.rel = {} /\ Restarted(m.l, stream.mk, h, gn, b)
  <2>1. b \in Nat
    BY DEF Ends
  <2>2. CASE p.idr
    <3>1. m = D!MarkIdr(c.l, b, p.isLong) /\ stream.mk = S!MarkIdr(h[b], p.isLong)
      BY <1>1, <2>2 DEF Ends, Marking
    <3>2. PICK l, f, q : l = c.l /\ f = gn /\ q = h
      OBVIOUS
    <3>3. Vacant(l) /\ f[b] = 0
      BY <1>4, <1>6, <3>2
    <3> DEFINE r == D!MarkIdr(l, b, p.isLong)
               k == S!MarkIdr(q[b], p.isLong)
    <3>4. r.ok = TRUE /\ r.rel = {} /\ Restarted(r.l, k, q, f, b)
      BY <2>1, <3>3, IdrMarked
    <3>5. m = r /\ stream.mk = k
      BY <3>1, <3>2
    <3> HIDE DEF r, k
    <3> QED BY <3>2, <3>4, <3>5
  <2>3. CASE ~ p.idr
    <3>1. m = D!DoMmcoBuffer(c.l, p.adaptive, p.cmds, p.fn, b, conf.c.numRef)
      BY <1>2, <2>3 DEF Ends, Marking, Erring
    <3>2. stream.mk = S!Mark(s.mk, p.adaptive, p.cmds, p.fn, h[b], conf.c.numRef)
      BY <1>1, <1>2, <2>3
    <3>3. Marks(s.mk, p.fn, p.cmds, p.adaptive) /\ S!Resets(p.cmds)
      BY <1>1, <1>2, <2>3 DEF NextOf
    <3>4. PICK l, f, q : l = c.l /\ f = gn /\ q = h
      OBVIOUS
    <3>5. Vacant(l) /\ f[b] = 0
      BY <1>4, <1>6, <3>4
    <3> DEFINE r == D!DoMmcoBuffer(l, p.adaptive, p.cmds, p.fn, b, conf.c.numRef)
               k == S!Mark(s.mk, p.adaptive, p.cmds, p.fn, q[b], conf.c.numRef)
    <3>6. r.ok = TRUE /\ r.rel = {} /\ Restarted(r.l, k, q, f, b)
      BY <2>1, <3>3, <3>5, ResetMarked
    <3>7. m = r /\ stream.mk = k
      BY <3>1, <3>2, <3>4
    <3> HIDE DEF r, k
    <3> QED BY <3>4, <3>6, <3>7
  <2> QED BY <2>2, <2>3
<1>8. failed' = FALSE /\ reset' = stream.reset
  <2>1. failed' = IF p.idr THEN FALSE ELSE Erring(p) \/ (p.ref /\ ~ m.ok)
    BY DEF Ends
  <2>2. reset' = Resets(p) /\ Resets(p) = S!Resets(p.cmds)
    BY <1>2 DEF Ends, Resets
  <2> QED BY <1>1, <1>7, <2>1, <2>2 DEF Erring
<1>9. lists' = m.l /\ pic' = EndPic(p, c.rel, m.rel) /\ b = cur.buf /\ b \in conf.pics /\ pic \in P!Managers
  BY DEF Ends
<1>10. "REF" \in pic'[b]
  BY <1>2, <1>7, <1>9, EndKeeps
<1>11. Turned(p, b, c, m)
  <2>1. c.rel = Bufs(lists)
    BY <1>5 DEF D!ResetRefs, D!Done, Bufs, InUse
  <2> QED BY <1>7, <1>9, <2>1 DEF Turned, Restarted
<1> QED BY <1>7, <1>8, <1>9, <1>10, <1>11 DEF Settled, Restarted

\* A picture that is not a reference.
LEMMA EndOther ==
  ASSUME NEW p, NEW b, NEW c, NEW m, Ends(p, b, c, m), NEW s, Within(s), conf.c.quiet,
         failed = FALSE, ~ p.idr, ~ p.ref
  PROVE  Settled(p, b, c, m)
<1>1. /\ StreamOK(s, conf.c) /\ NextOf(s, p, conf.c) /\ reset = s.reset
      /\ Ready(lists, s, holds, frameNum, p, b) /\ Referenced
      /\ stream.reset = S!Resets(p.cmds) /\ stream.prev = s.prev /\ stream.mk = s.mk
      /\ Resets(p) <=> S!Resets(p.cmds)
  BY WithinFacts
<1>2. ~ S!Resets(p.cmds)
  <2>1. p.cmds = <<>>
    BY <1>1 DEF NextOf
  <2> QED BY <2>1, NoResets
<1>3. c.l = lists /\ c.rel = {}
  <2>1. ~ Restarts(p)
    BY <1>1, <1>2 DEF Restarts
  <2> QED BY <2>1 DEF Ends, Cleared, D!Done
<1>4. m.l = lists /\ m.rel = {}
  BY <1>3 DEF Ends, Marking, D!Done
<1>5. lists' = lists /\ frameNum' = frameNum
  BY <1>4 DEF Ends
<1>6. failed' = FALSE /\ reset' = stream.reset
  <2>1. failed' = IF p.idr THEN FALSE ELSE Erring(p) \/ (p.ref /\ ~ m.ok)
    BY DEF Ends
  <2>2. reset' = Resets(p) /\ Resets(p) = s.reset /\ s.reset \in BOOLEAN
    BY <1>1 DEF Ends, Resets, StreamOK
  <2>3. reset' = FALSE /\ stream.reset = FALSE
    BY <1>1, <1>2, <2>2
  <2> QED BY <2>1, <2>3 DEF Erring
<1>7. /\ pic' = EndPic(p, c.rel, m.rel) /\ b = cur.buf /\ b \in conf.pics /\ pic \in P!Managers
      /\ \A x \in InUse(lists) : lists.node[x].buf \in conf.pics
  BY DEF Ends
<1>8. Keeps(pic, pic', {})
  <2>1. Keeps(pic, pic', c.rel \cup m.rel)
    BY <1>7, EndKeeps
  <2> QED BY <1>3, <1>4, <2>1
<1>9. \A d \in Bufs(lists) : "REF" \in pic'[d]
  BY <1>1, <1>7, <1>8 DEF Keeps, Referenced, Bufs
<1>10. Turned(p, b, c, m)
  BY <1>2, <1>3, <1>4, <1>5 DEF Turned
<1> QED BY <1>1, <1>5, <1>6, <1>9, <1>10 DEF Settled, Ready

\* Fewer references than nodes leave one that is not in use.
LEMMA SpareNode ==
  ASSUME NEW l, NEW f, Linked(l, f, TRUE), NEW mk, NEW h, NEW fn, Agree(l, mk, h, fn),
         NEW c \in Configs, S!Size(mk) <= c.numRef
  PROVE  InUse(l) # D!Nodes
<1>1. /\ l.nst \in Nat /\ l.nlt \in Nat /\ S!Size(mk) = l.nst + l.nlt
  BY AgreeSizes
<1>2. c.numRef < NumNodes /\ c.numRef \in Nat /\ NumNodes \in Nat
  BY ConfigFacts, NodesFacts
<1>3. l.nst + l.nlt < NumNodes => InUse(l) # D!Nodes
  BY CountFacts
<1> QED BY <1>1, <1>2, <1>3

\* A reference picture from which the marking does not start again.
LEMMA EndPlain ==
  ASSUME NEW p, NEW b, NEW c, NEW m, Ends(p, b, c, m), NEW s, Within(s), conf.c.quiet,
         failed = FALSE, ~ p.idr, p.ref, ~ S!Resets(p.cmds)
  PROVE  Settled(p, b, c, m)
<1>1. /\ StreamOK(s, conf.c) /\ NextOf(s, p, conf.c) /\ holds[b] = p.key /\ frameNum[b] = p.fn
      /\ Ready(lists, s, holds, frameNum, p, b) /\ Referenced
      /\ stream.reset = S!Resets(p.cmds) /\ stream.prev = S!MarkedNum(p.cmds, p.fn)
      /\ stream.mk = S!Mark(s.mk, p.adaptive, p.cmds, p.fn, p.key, conf.c.numRef)
      /\ Resets(p) <=> S!Resets(p.cmds)
  BY WithinFacts
<1>2. stream.prev = p.fn
  BY <1>1 DEF S!MarkedNum
<1>3. c.l = lists /\ c.rel = {}
  <2>1. ~ Restarts(p)
    BY <1>1 DEF Restarts
  <2> QED BY <2>1 DEF Ends, Cleared, D!Done
<1>4. m = D!DoMmcoBuffer(lists, p.adaptive, p.cmds, p.fn, b, conf.c.numRef)
  BY <1>3 DEF Ends, Marking, Erring
<1>5. /\ b \in Nat /\ b \in conf.pics /\ conf.c \in Configs /\ pic \in P!Managers /\ b = cur.buf
      /\ \A x \in InUse(lists) : lists.node[x].buf \in conf.pics
      /\ frameNum \in [conf.pics -> FrameNums]
      /\ frameNum' = [frameNum EXCEPT ![b] = S!MarkedNum(p.cmds, p.fn)]
      /\ lists' = m.l /\ pic' = EndPic(p, c.rel, m.rel)
      /\ reset' = Resets(p) /\ failed' = IF p.idr THEN FALSE ELSE Erring(p) \/ (p.ref /\ ~ m.ok)
  BY DEF Ends
<1>6. S!MarkedNum(p.cmds, p.fn) = p.fn
  BY DEF S!MarkedNum
<1>7. frameNum'[b] = p.fn /\ \A d \in conf.pics : d # b => frameNum'[d] = frameNum[d]
  BY <1>5, <1>6
<1>8. \A d \in Bufs(lists) : d \in conf.pics
  BY <1>5 DEF Bufs
<1>9. /\ Agree(lists, s.mk, holds, frameNum) /\ Numbered(lists, frameNum, p.fn)
      /\ Linked(lists, Nums(lists), TRUE) /\ b \notin Bufs(lists)
  BY <1>1 DEF Ready
<1>10. /\ IsMarking(s.mk) /\ S!Size(s.mk) <= conf.c.numRef
       /\ Marks(s.mk, p.fn, p.cmds, p.adaptive)
       /\ S!Size(S!Mark(s.mk, p.adaptive, p.cmds, p.fn, p.key, conf.c.numRef)) <= conf.c.numRef
  BY <1>1 DEF StreamOK, NextOf
<1>11. conf.c.numRef \in Nat
  BY <1>5, ConfigFacts
<1>12. Room(lists, holds, frameNum, frameNum', p.fn, b, p.key)
  <2>1. InUse(lists) # D!Nodes
    BY <1>5, <1>9, <1>10, SpareNode
  <2>2. OnePlace(lists)
    BY <1>9 DEF Agree
  <2>3. \A d \in Bufs(lists) : frameNum'[d] = frameNum[d]
    BY <1>7, <1>8, <1>9
  <2> QED BY <1>1, <1>5, <1>9, <2>1, <2>2, <2>3 DEF Room
<1>13. MmcoCase(lists, s.mk, holds, frameNum, frameNum', b, p.key, p.fn, p.cmds, p.adaptive, conf.c.numRef)
  BY <1>9, <1>10, <1>11, <1>12 DEF MmcoCase, Mid
<1>14. m.ok = TRUE /\ MarkedAs(lists, m.l, m.rel, stream.mk, holds, frameNum', p.fn, b)
  <2>1. PICK l, mk, f, pc, fn0, cmds, adaptive, size :
          /\ l = lists /\ mk = s.mk /\ f = frameNum' /\ pc = p.key /\ fn0 = p.fn
          /\ cmds = p.cmds /\ adaptive = p.adaptive /\ size = conf.c.numRef
    OBVIOUS
  <2>2. PICK h, gn : h = holds /\ gn = frameNum
    OBVIOUS
  <2>3. MmcoCase(l, mk, h, gn, f, b, pc, fn0, cmds, adaptive, size) /\ f[b] = fn0
    BY <1>7, <1>13, <2>1, <2>2
  <2> DEFINE r == D!DoMmcoBuffer(l, adaptive, cmds, fn0, b, size)
             k == S!Mark(mk, adaptive, cmds, fn0, pc, size)
  <2>4. r.ok = TRUE /\ MarkedAs(l, r.l, r.rel, k, h, f, fn0, b)
    BY <2>3, MmcoMarked
  <2>5. m = r /\ stream.mk = k
    BY <1>1, <1>4, <2>1
  <2> HIDE DEF r, k
  <2> QED BY <2>1, <2>2, <2>4, <2>5
<1>15. /\ Agree(m.l, stream.mk, holds, frameNum') /\ Linked(m.l, Recent(m.l, frameNum', p.fn), TRUE)
       /\ m.rel \subseteq Bufs(lists) /\ Bufs(m.l) = (Bufs(lists) \ m.rel) \cup {b}
  BY <1>14 DEF MarkedAs
<1>16. failed' = FALSE /\ reset' = stream.reset
  <2>1. reset' = S!Resets(p.cmds)
    BY <1>5 DEF Resets
  <2>2. failed' = FALSE
    BY <1>5, <1>14 DEF Erring
  <2> QED BY <1>1, <2>1, <2>2
<1>17. /\ Keeps(pic, pic', m.rel)
       /\ "REF" \in pic'[b]
  <2>1. cur.buf \in conf.pics /\ cur.buf \notin m.rel
    BY <1>5, <1>9, <1>15
  <2>2. /\ Keeps(pic, EndPic(p, {}, m.rel), {} \cup m.rel)
        /\ "REF" \in EndPic(p, {}, m.rel)[cur.buf]
    BY <1>5, <2>1, EndKeeps
  <2>3. pic' = EndPic(p, {}, m.rel)
    BY <1>3, <1>5
  <2>4. {} \cup m.rel = m.rel
    OBVIOUS
  <2> QED BY <1>5, <2>2, <2>3, <2>4
<1>18. \A d \in Bufs(lists') : "REF" \in pic'[d]
  <2>1. \A d \in Bufs(lists) \ m.rel : "REF" \in pic'[d]
    BY <1>1, <1>8, <1>17 DEF Keeps, Referenced
  <2> QED BY <1>5, <1>15, <1>17, <2>1
<1>19. Turned(p, b, c, m)
  BY <1>3, <1>5, <1>9, <1>15 DEF Turned
<1> QED BY <1>2, <1>5, <1>15, <1>16, <1>18, <1>19 DEF Settled

\* The picture of an orderly call.
LEMMA EndSettles ==
  ASSUME StepInv, EndPicture, Orderly, NEW p, NEW b, NEW c, NEW m, Ends(p, b, c, m)
  PROVE  Settled(p, b, c, m)
<1>1. cur # None /\ failed = FALSE /\ conf.c.quiet
  BY DEF EndPicture, Orderly, StepInv
<1>2. PICK s : Within(s)
  BY <1>1 DEF StepInv
<1>3. ~ p.ref => ~ p.idr /\ ~ S!Resets(p.cmds)
  <2>1. NextOf(s, p, conf.c)
    BY <1>1, <1>2, WithinFacts
  <2>2. ~ p.ref => ~ p.idr /\ p.cmds = <<>>
    BY <2>1 DEF NextOf
  <2> QED BY <2>2, NoResets
<1>4. CASE p.idr \/ S!Resets(p.cmds)
  BY <1>1, <1>2, <1>4, EndRestart
<1>5. CASE ~ (p.idr \/ S!Resets(p.cmds)) /\ p.ref
  BY <1>1, <1>2, <1>5, EndPlain
<1>6. CASE ~ p.ref
  BY <1>1, <1>2, <1>3, <1>6, EndOther
<1> QED BY <1>4, <1>5, <1>6

\* The rest of the call.
LEMMA StepEnd ==
  ASSUME StepInv, EndPicture
  PROVE  StepInv'
<1>1. PICK p, b, c, m : Ends(p, b, c, m)
  BY EndEnds
<1>2. WalkInv'
  BY WalkEnd DEF StepInv
<1>3. /\ conf' = conf /\ stream' = stream /\ lost' = lost /\ holds' = holds /\ cur' = None
      /\ pic' = EndPic(p, c.rel, m.rel) /\ b = cur.buf /\ b \in conf.pics /\ pic \in P!Managers
  BY <1>1 DEF Ends
<1>4. pic' \in P!Managers' /\ holds' \in [conf'.pics -> Int]
  <2>1. pic' \in P!Managers
    BY <1>3, EndKeeps DEF Keeps
  <2>2. holds \in [conf.pics -> Int]
    BY DEF StepInv
  <2> QED BY <1>3, <2>1, <2>2 DEF P!Managers
<1>5. ASSUME Orderly PROVE Settled(p, b, c, m)
  BY <1>1, <1>5, EndSettles
<1>6. Orderly' <=> Orderly
  BY <1>3 DEF Orderly
<1>7. ASSUME Orderly PROVE failed' = FALSE /\ (\E f : Linked(lists', f, TRUE)) /\ Between'
  <2>1. Settled(p, b, c, m)
    BY <1>5, <1>7
  <2>2. /\ Agree(lists', stream'.mk, holds', frameNum')
        /\ Linked(lists', Recent(lists', frameNum', stream'.prev), TRUE)
        /\ reset' = stream'.reset
        /\ \A d \in Bufs(lists') : "REF" \in pic'[d]
    BY <1>3, <2>1 DEF Settled
  <2>3. Between'
    BY <2>2 DEF Between, Referenced
  <2> QED BY <2>1, <2>3 DEF Settled
<1> QED BY <1>2, <1>3, <1>4, <1>6, <1>7 DEF StepInv

-----------------------------------------------------------------------------
(* The other steps, and what the invariant says. *)

\* A step that leaves the lists and what the stream has sent alone.
LEMMA StepRest ==
  ASSUME StepInv, WalkInv', pic' \in P!Managers,
         UNCHANGED <<conf, lost, lists, failed, reset, frameNum, holds, cur>>,
         /\ stream'.mk = stream.mk /\ stream'.prev = stream.prev /\ stream'.reset = stream.reset
         /\ cur = None \/ stream' = stream,
         conf.c.idrNext /\ cur = None /\ ~ stream'.fresh =>
            ~ stream.fresh /\ \A d \in conf.pics : "REF" \in pic[d] => "REF" \in pic'[d],
         cur # None => pic' = pic
  PROVE  StepInv'
<1>1. pic' \in P!Managers' /\ holds' \in [conf'.pics -> Int]
  BY DEF StepInv, P!Managers
<1>2. Orderly' <=> Orderly
  BY DEF Orderly
<1>3. ASSUME Orderly, cur = None PROVE Between'
  <2>1. Between /\ conf.c.idrNext
    BY <1>3 DEF StepInv, Orderly
  <2>2. \A d \in Bufs(lists) : d \in conf.pics
    BY DEF StepInv, WalkInv, Bufs
  <2>3. ~ stream'.fresh => Referenced'
    BY <1>3, <2>1, <2>2 DEF Between, Referenced
  <2>4. PICK a, b : a = stream.mk /\ b = stream.prev
    OBVIOUS
  <2>5. stream'.mk = a /\ stream'.prev = b
    BY <2>4
  <2>6. Agree(lists, a, holds, frameNum) /\ Linked(lists, Recent(lists, frameNum, b), TRUE)
        /\ reset = stream.reset
    BY <2>1, <2>4 DEF Between
  <2>7. Agree(lists, stream'.mk, holds, frameNum)
        /\ Linked(lists, Recent(lists, frameNum, stream'.prev), TRUE)
        /\ reset = stream'.reset
    BY <2>5, <2>6
  <2> QED BY <2>3, <2>7 DEF Between
<1>4. ASSUME Orderly, cur # None, NEW s, Within(s) PROVE Within(s)'
  BY <1>4 DEF Within, Referenced
<1>5. Orderly => failed' = FALSE /\ \E f : Linked(lists', f, TRUE)
  BY DEF StepInv
<1>6. Orderly /\ cur # None => \E s : Within(s)'
  BY <1>4 DEF StepInv
<1> QED BY <1>1, <1>2, <1>3, <1>5, <1>6 DEF StepInv

\* The steps keep the invariant.
LEMMA StepNext ==
  ASSUME StepInv, [Next]_vars
  PROVE  StepInv'
<1>1. WalkInv /\ WalkInv' /\ pic \in P!Managers
  BY WalkNext DEF StepInv
<1>2. ASSUME NEW p \in Coming, Refuse(p) \/ Lose(p) PROVE StepInv'
  <2>1. lost' = TRUE /\ UNCHANGED <<conf, holds>>
    BY <1>2 DEF Refuse, Lose, config, ghosts
  <2>2. pic' \in P!Managers
    <3>1. CASE Refuse(p)
      BY <1>1, <3>1, PicsForKeeps, TakeKeeps DEF Refuse
    <3>2. CASE Lose(p)
      BY <1>1, <3>2 DEF Lose, bufs
    <3> QED BY <1>2, <3>1, <3>2
  <2>3. ~ Orderly'
    BY <2>1 DEF Orderly
  <2> QED BY <1>1, <2>1, <2>2, <2>3 DEF StepInv, P!Managers
<1>3. CASE CallFails
  <2>1. /\ cur = None /\ pic' = Marked
        /\ UNCHANGED <<conf, stream, lost, lists, failed, reset, frameNum, holds, cur>>
    BY <1>3 DEF CallFails, config, refs, ghosts
  <2>2. Keeps(pic, pic', {})
    BY <1>1, <2>1, MarkedKeeps
  <2> QED BY <1>1, <2>1, <2>2, StepRest DEF Keeps
<1>4. CASE FlushStart
  <2>1. /\ cur = None /\ pic' = Unref(pic, conf.pics)
        /\ stream' = IF conf.c.idrNext THEN [stream EXCEPT !.fresh = TRUE] ELSE stream
        /\ UNCHANGED <<conf, lost, lists, failed, reset, frameNum, holds, cur>>
    BY <1>4 DEF FlushStart, refs, ghosts
  <2>2. pic' \in P!Managers
    BY <1>1, <2>1, UnrefKeeps DEF Keeps
  <2>3. /\ stream'.mk = stream.mk /\ stream'.prev = stream.prev /\ stream'.reset = stream.reset
        /\ conf.c.idrNext => stream'.fresh = TRUE
    <3>1. stream = [mk |-> stream.mk, prev |-> stream.prev, period |-> stream.period,
                    sent |-> stream.sent, last |-> stream.last, reset |-> stream.reset,
                    fresh |-> stream.fresh]
      BY <1>1 DEF WalkInv, StreamOK
    <3>2. \A v : [stream EXCEPT !.fresh = v]
                  = [mk |-> stream.mk, prev |-> stream.prev, period |-> stream.period,
                     sent |-> stream.sent, last |-> stream.last, reset |-> stream.reset, fresh |-> v]
      BY <3>1, FreshRecord
    <3> QED BY <2>1, <3>2
  <2> QED BY <1>1, <2>1, <2>2, <2>3, StepRest
<1>5. CASE FlushCall
  <2> DEFINE m == [x \in conf.pics |-> IF x \in mapped THEN P!Release(pic, x, "IO")[x] ELSE pic[x]]
  <2>0. /\ cur = None
        /\ UNCHANGED <<conf, stream, lost, lists, failed, reset, frameNum, holds, cur>>
    BY <1>5 DEF FlushCall, config, refs
  <2>1. PICK b : pic' = IF b = NoBuf THEN m
                        ELSE IF conf.c.shared THEN pic ELSE P!Release(pic, b, "IO")
    BY <1>5 DEF FlushCall
  <2>2. Keeps(pic, m, {})
    <3>1. \A x \in conf.pics : /\ P!Release(pic, x, "IO")[x] \in SUBSET P!Flags
                               /\ pic[x] \in SUBSET P!Flags
                               /\ "REF" \in pic[x] => "REF" \in P!Release(pic, x, "IO")[x]
      BY <1>1, ReleaseKeeps DEF Keeps, P!Managers
    <3>2. \A x \in conf.pics : m[x] \in SUBSET P!Flags /\ ("REF" \in pic[x] => "REF" \in m[x])
      BY <3>1
    <3>3. m \in [conf.pics -> SUBSET P!Flags]
      BY <3>2
    <3> QED BY <3>2, <3>3 DEF Keeps, P!Managers
  <2>3. Keeps(pic, P!Release(pic, b, "IO"), {}) /\ Keeps(pic, pic, {})
    BY <1>1, ReleaseKeeps DEF Keeps
  <2> HIDE DEF m
  <2>4. Keeps(pic, pic', {})
    BY <2>1, <2>2, <2>3
  <2> QED BY <1>1, <2>0, <2>4, StepRest DEF Keeps
<1>6. ASSUME NEW b \in conf.pics, AppRelease(b) PROVE StepInv'
  <2>1. /\ cur = None /\ pic' = P!Release(pic, b, "IO")
        /\ UNCHANGED <<conf, stream, lost, lists, failed, reset, frameNum, holds, cur>>
    BY <1>6 DEF AppRelease, config, refs, ghosts
  <2>2. Keeps(pic, pic', {})
    BY <1>1, <2>1, ReleaseKeeps
  <2> QED BY <1>1, <2>1, <2>2, StepRest DEF Keeps
<1>7. CASE UNCHANGED vars
  BY <1>1, <1>7, StepRest DEF vars
<1> QED BY <1>2, <1>3, <1>4, <1>5, <1>6, <1>7, StepStart, StepEnd DEF Next

\* What StepInv says of the lists.
LEMMA StepImplies ==
  ASSUME StepInv, conf.c.quiet, conf.c.idrNext
  PROVE  InStep
<1>1. WalkInv /\ Walkable
  BY WalkImplies DEF StepInv
<1> DEFINE Node(n) == lists.node[n]
           Pic(n) == [pic |-> holds[Node(n).buf], fn |-> frameNum[Node(n).buf]]
           Recency(k) == S!Wrap(Pic(D!ShortAt(lists, k)).fn, stream.prev)
<1>2. Shorts = ShortSet(lists) /\ Longs = LongSet(lists)
  BY <1>1 DEF Walkable, ShortSet, LongSet, ShortUse, LongUse
<1>3. ASSUME lists.nst > 0, ~ lost PROVE lists.node[D!ShortAt(lists, lists.nst)].ps = D!Nil
  <2>1. PICK f : Linked(lists, f, TRUE)
    BY <1>3 DEF StepInv, Orderly
  <2>2. PICK s, t : Lists(lists, s, t) /\ Falling(lists, s, f)
    BY <2>1 DEF Linked
  <2>3. lists \in ListStates /\ ShortChain(lists, s) /\ lists.nst \in Nat
    BY <2>2 DEF Lists, ListStates
  <2>4. D!ShortAt(lists, lists.nst) = s[lists.nst]
    BY <1>3, <2>3, ShortAtIs
  <2> QED BY <1>3, <2>2, <2>4 DEF Falling
<1>4. ASSUME cur = None, ~ lost
      PROVE  /\ {Pic(n) : n \in Shorts} = stream.mk.short
             /\ \A i, j \in 1 .. lists.nst : i < j => Recency(i) > Recency(j)
             /\ {Node(n).lt : n \in Longs} = DOMAIN stream.mk.long
             /\ \A n \in Longs : holds[Node(n).buf] = stream.mk.long[Node(n).lt]
             /\ \A i, j \in 1 .. lists.nlt :
                  i < j => Node(D!LongAt(lists, i)).lt < Node(D!LongAt(lists, j)).lt
             /\ stream.mk.max >= 0 => lists.max = stream.mk.max
  <2>1. Between
    BY <1>4 DEF StepInv, Orderly
  <2>2. /\ AgreeShort(lists, stream.mk, holds, frameNum) /\ AgreeLong(lists, stream.mk, holds)
        /\ stream.mk.max >= 0 => lists.max = stream.mk.max
    BY <2>1 DEF Between, Agree
  <2>3. {Pic(n) : n \in Shorts} = stream.mk.short
    BY <1>2, <2>2 DEF AgreeShort, ShortSet, PicOf
  <2>4. /\ {Node(n).lt : n \in Longs} = DOMAIN stream.mk.long
        /\ \A n \in Longs : holds[Node(n).buf] = stream.mk.long[Node(n).lt]
    BY <1>2, <2>2 DEF AgreeLong, LongSet
  <2>5. PICK s, t : Lists(lists, s, t) /\ Falling(lists, s, Recent(lists, frameNum, stream.prev))
    BY <2>1 DEF Between, Linked
  <2>6. lists \in ListStates /\ ShortChain(lists, s) /\ LongChain(lists, t)
    BY <2>5 DEF Lists
  <2>7. \A i \in 1 .. lists.nst : s[i] \in D!Nodes /\ D!ShortAt(lists, i) = s[i]
    <3>1. \A i \in 1 .. lists.nst : D!ShortAt(lists, i) = s[i]
      BY <2>6, ShortAtIs
    <3> QED BY <2>6, <3>1 DEF ShortChain
  <2>8. \A i \in 1 .. lists.nst : Recency(i) = Recent(lists, frameNum, stream.prev)[s[i]]
    BY <2>7 DEF Recent
  <2>9. \A i, j \in 1 .. lists.nst : i < j => Recency(i) > Recency(j)
    <3> HIDE DEF Recency
    <3> QED BY <2>5, <2>8 DEF Falling
  <2>10. \A i, j \in 1 .. lists.nlt :
           i < j => Node(D!LongAt(lists, i)).lt < Node(D!LongAt(lists, j)).lt
    <3>1. \A i \in 1 .. lists.nlt : D!LongAt(lists, i) = t[i]
      BY <2>6, LongAtIs
    <3> QED BY <2>6, <3>1 DEF LongChain
  <2> QED BY <2>2, <2>3, <2>4, <2>9, <2>10
<1> QED BY <1>1, <1>3, <1>4 DEF InStep

\* The decoder's lists stay in step with the marking of the stream, for every
\* number of reference frames, stream and order of calls: where the pictures
\* after one with command 5 are references, and an IDR picture follows a flush
\* (ih264d_do_mmco_buffer against section 8.2.5).
THEOREM StaysInStep == Spec => [](conf.c.quiet /\ conf.c.idrNext => InStep)
<1>1. Init => StepInv
  BY StepInit
<1>2. StepInv /\ [Next]_vars => StepInv'
  BY StepNext
<1>3. StepInv => (conf.c.quiet /\ conf.c.idrNext => InStep)
  BY StepImplies
<1> QED BY <1>1, <1>2, <1>3, PTL DEF Spec
=============================================================================
