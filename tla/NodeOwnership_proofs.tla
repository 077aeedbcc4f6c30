-------------------------- MODULE NodeOwnership_proofs --------------------------
(***************************************************************************)
(* Proofs that nodes have one owner each, so that a tree is deleted once   *)
(* and whole, for documents of any size and any number of changes.         *)
(***************************************************************************)
EXTENDS NodeTree_proofs

(* A node nobody owns. *)
Free(n) == \A p \in Nodes : n \notin Kids(p)

OnStack(n) == \E i \in 1..Len(stack) : stack[i] = n

(* Nodes that got no owner and never will. *)
Lost == dropped \cup outputs \cup orphans

(* No two places hold one node. *)
Single ==
    \A p, q \in Nodes : \A s \in DOMAIN child[p], t \in DOMAIN child[q] :
        child[p][s] = child[q][t] => p = q /\ s = t

(* A node is older than its owner, but for what was inserted later. *)
Ordered == \A n \in Nodes : \A m \in Kids(n) : m < n \/ kind[m] = "scalar"

Tops ==
    /\ \A i \in 1..Len(stack) : Free(stack[i])
    /\ \A i, j \in 1..Len(stack) : stack[i] = stack[j] => i = j
    /\ root # Null => Free(root) /\ root \notin freed
    /\ pc # "parse" => stack = <<>>

LostTops ==
    /\ \A d \in Lost : Free(d) /\ d \notin freed /\ d # root /\ ~OnStack(d)
    /\ \A d \in orphans : kind[d] = "scalar"

(* Nothing that is left leads to a deleted node, and what a deleted node    *)
(* owned is deleted.                                                        *)
Living ==
    /\ \A n \in Born \ freed : Kids(n) \cap freed = {} /\ linked[n] \notin freed
    /\ \A n \in freed : Kids(n) \subseteq freed
    /\ \A n \in Nodes \ Born : linked[n] = Null
    /\ pc = "resolve" => cur \notin freed

Covered ==
    \A n \in Born \ freed : Free(n) => n = root \/ n \in Lost \/ OnStack(n)

Forest == Single /\ Ordered /\ Tops /\ LostTops /\ Living /\ Covered

OwnInv ==
    /\ pc \in {"parse", "assign", "built", "resolve"} /\ ~misused => Forest
    /\ CorruptionNeedsMisuse
    /\ FreedExactly

-----------------------------------------------------------------------------
(* Trees in a forest. *)

LEMMA KidFacts ==
    ASSUME TypeInv
    PROVE  /\ Born \subseteq Nodes
           /\ \A p \in Nodes : Kids(p) \subseteq Born /\ Kids(p) \subseteq Nodes
           /\ \A p \in Nodes : kind[p] \notin {"list", "map"} => Kids(p) = {}
           /\ \A p \in Nodes : p \notin Born => Kids(p) = {}
<1>1. Born \subseteq Nodes
  BY DEF Born
<1>2. \A p \in Nodes : WellFormed(p)
  BY DEF TypeInv, TypeOK
<1>3. DOMAIN Nothing = {}
  BY DEF Nothing
<1>4. \A p \in Nodes : p \notin Born => kind[p] = "unborn"
  BY DEF Born
<1> QED
  BY <1>1, <1>2, <1>3, <1>4 DEF WellFormed, Kids

LEMMA OneOwner ==
    ASSUME Single, NEW p \in Nodes, NEW q \in Nodes, NEW m, m \in Kids(p), m \in Kids(q)
    PROVE  p = q
BY DEF Single, Kids

(* The subtree of a node that is left is left. *)
LEMMA Alive ==
    ASSUME TypeInv, Living, NEW n \in Born \ freed
    PROVE  Subtree(n) \subseteq Born \ freed
<1>1. Born \ freed \in SUBSET Nodes /\ \A p \in Born \ freed : Kids(p) \subseteq Born \ freed
  BY KidFacts DEF Living
<1> QED
  BY <1>1, SubtreeLeast, KidFacts

(* Trees with different tops have no node in common. *)
LEMMA Apart ==
    ASSUME TypeInv, Single, NEW a \in Nodes, NEW b \in Nodes, Free(a), Free(b), a # b
    PROVE  Subtree(a) \cap Subtree(b) = {}
<1> DEFINE S == Subtree(a) \ Subtree(b)
<1>1. \A p \in Nodes : Kids(p) \subseteq Nodes
  BY KidFacts
<1>2. /\ a \in Subtree(a) /\ Subtree(a) \subseteq Nodes
      /\ \A p \in Subtree(a) : Kids(p) \subseteq Subtree(a)
      /\ Subtree(b) \subseteq Nodes
  BY <1>1, SubtreeClosed
<1>3. a \notin Subtree(b)
  BY <1>1, <1>2, SubtreeParents DEF Free
<1>4. ASSUME NEW p \in S, NEW m \in Kids(p)
      PROVE  m \in S
  <2>1. SUFFICES ASSUME m \in Subtree(b) PROVE FALSE
    BY <1>2, <1>4
  <2>2. p \in Nodes
    BY <1>2
  <2>3. m # b
    BY <1>4, <2>2 DEF Free
  <2>4. PICK q \in Subtree(b) : m \in Kids(q)
    BY <1>1, <2>1, <2>3, SubtreeParents
  <2>5. p = q
    BY <1>2, <1>4, <2>2, <2>4, OneOwner
  <2> QED
    BY <2>4, <2>5
<1>5. S \in SUBSET Nodes /\ a \in S
  BY <1>2, <1>3
<1>6. Subtree(a) \subseteq S
  <2> HIDE DEF S
  <2> QED
    BY <1>4, <1>5, SubtreeLeast
<1> QED
  BY <1>6

(* An owner is not in the subtree of what it owns. *)
LEMMA Younger ==
    ASSUME TypeInv, Ordered, NEW n \in Nodes, kind[n] # "scalar", NEW v \in Kids(n)
    PROVE  n \notin Subtree(v)
<1> DEFINE S == {x \in Nodes : x <= v \/ kind[x] = "scalar"}
<1>1. Nodes \subseteq Nat /\ v \in Nodes
  BY KidFacts, MaxNodesAssumption DEF Nodes
<1>2. ASSUME kind[v] # "scalar"
      PROVE  n \notin Subtree(v)
  <2>1. v < n
    BY <1>2 DEF Ordered
  <2>2. S \in SUBSET Nodes /\ v \in S /\ n \notin S
    BY <1>1, <2>1
  <2>3. ASSUME NEW p \in S, NEW m \in Kids(p)
        PROVE  m \in S
    <3>1. p \in Nodes /\ m \in Nodes
      BY KidFacts
    <3>2. kind[p] # "scalar"
      BY <3>1, KidFacts
    <3>3. p <= v
      BY <3>2
    <3>4. m < p \/ kind[m] = "scalar"
      BY <3>1 DEF Ordered
    <3> QED
      BY <1>1, <3>1, <3>3, <3>4
  <2>4. Subtree(v) \subseteq S
    <3> HIDE DEF S
    <3> QED
      BY <1>1, <2>2, <2>3, SubtreeLeast
  <2> QED
    BY <2>2, <2>4
<1>3. ASSUME kind[v] = "scalar"
      PROVE  n \notin Subtree(v)
  <2>1. {v} \in SUBSET Nodes /\ \A p \in {v} : Kids(p) \subseteq {v}
    BY <1>1, <1>3, KidFacts
  <2>2. Subtree(v) \subseteq {v}
    BY <1>1, <2>1, SubtreeLeast
  <2> QED
    BY <1>3, <2>2
<1> QED
  BY <1>2, <1>3

(* Deleting a node that nothing of its own subtree owns deletes nothing twice. *)
LEMMA NotTwice ==
    ASSUME TypeInv, Single, Living, NEW n \in Born \ freed,
           \A o \in Subtree(n) : n \notin Kids(o)
    PROVE  ~DeletesTwice(n)
<1>1. n \in Nodes /\ Subtree(n) \subseteq Nodes
  BY KidFacts, SubtreeClosed
<1>2. Subtree(n) \cap freed = {}
  BY Alive
<1>3. ASSUME NEW m \in Subtree(n)
      PROVE  ~(Owners(m, n) > (IF m = n THEN 0 ELSE 1))
  <2> DEFINE O == {o \in Subtree(n) \X Selectors :
                      o[2] \in DOMAIN child[o[1]] /\ child[o[1]][o[2]] = m}
  <2>1. Owners(m, n) = Cardinality(O)
    BY DEF Owners
  <2>2. \A x, y \in O : x = y
    BY <1>1 DEF Single
  <2>3. m = n => O = {}
    BY DEF Kids
  <2>4. O = {} \/ \E x : O = {x}
    <3> HIDE DEF O
    <3>1. ASSUME NEW x \in O
          PROVE  O = {x}
      BY <2>2
    <3> QED
      BY <3>1
  <2> HIDE DEF O
  <2>5. Cardinality(O) = 0 \/ (Cardinality(O) = 1 /\ m # n)
    BY <2>3, <2>4, FS_EmptySet, FS_Singleton
  <2> QED
    BY <2>1, <2>5
<1> QED
  BY <1>2, <1>3 DEF DeletesTwice

(* All nodes that are left belong to the tree of the root or are lost.      *)
LEMMA AllCovered ==
    ASSUME TypeInv, Forest, root \in Born, pc # "parse"
    PROVE  Born \ freed = Subtree(root) \cup orphans
                               \cup UNION {Subtree(d) : d \in dropped \cup outputs}
<1> DEFINE L == orphans \cup UNION {Subtree(d) : d \in dropped \cup outputs}
           All == Subtree(root) \cup L
           X == (Born \ freed) \ All
<1>1. Lost \subseteq Born /\ Born \subseteq Nodes /\ Nodes \subseteq Nat
  BY KidFacts, MaxNodesAssumption DEF Lost, TypeInv, TypeOK, Nodes
<1>2. /\ root \in Born \ freed
      /\ dropped \cup outputs \subseteq Born \ freed
      /\ orphans \subseteq Born \ freed
  BY <1>1 DEF Forest, Tops, LostTops, Lost, Null, Nodes
<1>3. All \subseteq Born \ freed
  <2>1. Subtree(root) \subseteq Born \ freed
    BY <1>2, Alive DEF Forest
  <2>2. \A d \in dropped \cup outputs : Subtree(d) \subseteq Born \ freed
    BY <1>2, Alive DEF Forest
  <2> QED
    BY <1>2, <2>1, <2>2
<1>4. ASSUME NEW p \in All, NEW m \in Kids(p)
      PROVE  m \in All
  <2>1. p \in Nodes /\ \A q \in Nodes : Kids(q) \subseteq Nodes
    BY <1>1, <1>3, KidFacts
  <2>2. CASE p \in Subtree(root)
    BY <1>1, <2>1, <2>2, SubtreeClosed
  <2>3. CASE p \in orphans
    BY <2>1, <2>3, KidFacts DEF Forest, LostTops
  <2>4. ASSUME NEW d \in dropped \cup outputs, p \in Subtree(d)
        PROVE  m \in All
    <3>1. d \in Nodes
      BY <1>1, <1>2
    <3>2. m \in Subtree(d)
      BY <2>1, <2>4, <3>1, SubtreeClosed
    <3> QED
      BY <3>2
  <2> QED
    BY <2>2, <2>3, <2>4
<1>5. \A d \in {root} \cup Lost : d \in All
  <2>1. \A d \in {root} \cup dropped \cup outputs : d \in Subtree(d)
    BY <1>1, <1>2, KidFacts, SubtreeClosed
  <2> QED
    BY <2>1 DEF Lost
<1>6. ASSUME NEW x \in X
      PROVE  \E p \in X : kind[p] # "scalar" /\ (x < p \/ kind[x] = "scalar")
  <2>1. stack = <<>>
    BY DEF Forest, Tops
  <2>2. ~OnStack(x)
    BY <2>1 DEF OnStack
  <2>3. ~Free(x)
    BY <1>5, <2>2 DEF Forest, Covered
  <2>4. PICK p \in Nodes : x \in Kids(p)
    BY <2>3 DEF Free
  <2>5. p \in Born /\ kind[p] # "scalar"
    BY <2>4, KidFacts
  <2>6. p \notin freed /\ p \notin All
    BY <1>4, <2>4 DEF Forest, Living
  <2>7. x < p \/ kind[x] = "scalar"
    BY <2>4 DEF Forest, Ordered
  <2> HIDE DEF X
  <2> QED
    BY <2>5, <2>6, <2>7 DEF X
<1> HIDE DEF X
<1>7. X = {}
  <2> SUFFICES ASSUME X # {} PROVE FALSE
    OBVIOUS
  <2> DEFINE Y == {MaxNodes - p : p \in {q \in X : kind[q] # "scalar"}}
  <2>0. X \subseteq Nodes /\ MaxNodes \in Nat
    BY <1>1, MaxNodesAssumption DEF X
  <2>1. Y \subseteq Nat
    <3>1. \A q \in X : MaxNodes - q \in Nat
      BY <2>0 DEF Nodes
    <3> QED
      BY <3>1
  <2>2. Y # {}
    BY <1>6
  <2>3. PICK t \in Y : \A u \in Y : <<u, t>> \notin OpToRel(<, Nat)
    BY <2>1, <2>2, NatLessThanWellFounded, WFMin
  <2>4. PICK x \in X : kind[x] # "scalar" /\ t = MaxNodes - x
    BY <2>3
  <2>5. PICK p \in X : kind[p] # "scalar" /\ x < p
    BY <1>6, <2>4
  <2>6. MaxNodes - p \in Y /\ MaxNodes - p \in Nat /\ t \in Nat
    BY <2>1, <2>3, <2>5
  <2>7. MaxNodes - p < t
    BY <2>0, <2>4, <2>5 DEF Nodes
  <2> QED
    BY <2>3, <2>6, <2>7 DEF OpToRel
<1> QED
  BY <1>3, <1>7 DEF X

-----------------------------------------------------------------------------
(* The parser. *)

(* A reduction that takes j values from the stack and puts a node that owns *)
(* just these on it.                                                        *)
LEMMA NewTop ==
    ASSUME TypeInv, Forest, pc = "parse", NEW k \in Kinds, New(k), NEW STATE g,
           NEW j \in 0..Len(stack),
           child'[Fresh] = g, \A m \in Nodes : m # Fresh => child'[m] = child[m],
           stack' = Append(Under(j), Fresh),
           \A s \in DOMAIN g : \E i \in 1..j : g[s] = Popped(j)[i],
           \A i \in 1..j : \E s \in DOMAIN g : g[s] = Popped(j)[i],
           \A s, t \in DOMAIN g : g[s] = g[t] => s = t,
           UNCHANGED <<pc, linked, root, dropped, outputs, ownerVars>>
    PROVE  Forest'
<1>1. /\ Fresh \in Nodes /\ Fresh \notin Born
      /\ Born' = Born \cup {Fresh}
      /\ \A m \in Nodes : m # Fresh => kind'[m] = kind[m]
      /\ \A n \in Nodes : n \in Born <=> n < Fresh
  BY NewNode DEF TypeInv, TablesInv, Numbered
<1>2. PICK c \in Nat :
         /\ Len(stack) = c + j /\ j \in Nat
         /\ \A i \in 1..(c + j) : stack[i] \in Born
         /\ Under(j) \in Seq(Born) /\ Len(Under(j)) = c
         /\ \A i \in 1..c : Under(j)[i] = stack[i]
         /\ \A i \in 1..j : Popped(j)[i] = stack[c + i]
  <2>1. stack \in Seq(Born) /\ Len(stack) \in Nat /\ j \in Nat
    BY LenProperties DEF TypeInv, TypeOK
  <2>2. \A i \in 1..Len(stack) : stack[i] \in Born
    BY <2>1, ElementOfSeq
  <2>3. /\ Under(j) \in Seq(Born) /\ Len(Under(j)) = Len(stack) - j
        /\ \A i \in 1..(Len(stack) - j) : Under(j)[i] = stack[i]
        /\ \A i \in 1..j : Popped(j)[i] = stack[Len(stack) - j + i]
    BY <2>1, StackParts
  <2> DEFINE d == Len(stack) - j
  <2>4. d \in Nat /\ Len(stack) = d + j
    BY <2>1
  <2> QED
    BY <2>1, <2>2, <2>3, <2>4
<1>3. /\ Len(stack') = c + 1
      /\ \A i \in 1..c : stack'[i] = stack[i]
      /\ stack'[c + 1] = Fresh
  BY <1>1, <1>2
<1>4. /\ freed = {} /\ freed' = {} /\ root = Null /\ root' = Null /\ pc' = "parse"
      /\ dropped' = dropped /\ outputs' = outputs /\ orphans' = orphans
  BY DEF TypeInv, TablesInv, ownerVars
<1>5. /\ Born \subseteq Nodes /\ \A p \in Nodes : Kids(p) \subseteq Born
      /\ \A x \in Born : x \in Nodes /\ x # Fresh
  BY <1>1, KidFacts
<1>6. /\ \A i \in 1..(c + j) : Free(stack[i])
      /\ \A i, u \in 1..(c + j) : stack[i] = stack[u] => i = u
  BY <1>2 DEF Forest, Tops
<1>i. /\ \A i \in 1..c : i \in 1..(c + j)
      /\ \A i \in 1..j : c + i \in 1..(c + j)
      /\ \A i \in 1..(c + j) : i \in 1..c \/ \E u \in 1..j : i = c + u
      /\ \A i \in 1..c, u \in 1..j : i # c + u
      /\ \A i \in 1..(c + 1) : i \in 1..c \/ i = c + 1
      /\ c + 1 \in 1..(c + 1)
      /\ \A i \in 1..c : i \in 1..(c + 1)
  <2>1. \A i \in 1..(c + j) : ~(i \in 1..c) => i - c \in 1..j /\ i = c + (i - c)
    BY <1>2
  <2>2. /\ \A i \in 1..c : i \in 1..(c + j)
        /\ \A i \in 1..j : c + i \in 1..(c + j)
        /\ \A i \in 1..c, u \in 1..j : i # c + u
        /\ \A i \in 1..(c + 1) : i \in 1..c \/ i = c + 1
        /\ c + 1 \in 1..(c + 1)
        /\ \A i \in 1..c : i \in 1..(c + 1)
    BY <1>2
  <2> QED
    BY <2>1, <2>2
(* What the new node owns are the values taken. *)
<1> DEFINE Taken == {stack[c + i] : i \in 1..j}
<1>7. \A m \in Nodes : m # Fresh => Kids(m)' = Kids(m)
  BY DEF Kids
<1>8. /\ {g[s] : s \in DOMAIN g} = Taken
      /\ Taken \subseteq Born
      /\ \A x \in Taken : Free(x)
      /\ \A i \in 1..c : stack[i] \notin Taken
  <2>1. \A i \in 1..j : Popped(j)[i] = stack[c + i]
    BY <1>2
  <2>2. ASSUME NEW s \in DOMAIN g
        PROVE  g[s] \in Taken
    <3>1. PICK i \in 1..j : g[s] = Popped(j)[i]
      OBVIOUS
    <3>2. g[s] = stack[c + i]
      BY <2>1, <3>1
    <3> QED
      BY <3>2, Zenon
  <2>3. ASSUME NEW i \in 1..j
        PROVE  \E s \in DOMAIN g : g[s] = stack[c + i]
    <3>1. PICK s \in DOMAIN g : g[s] = Popped(j)[i]
      OBVIOUS
    <3> QED
      BY <2>1, <3>1
  <2>4. {g[s] : s \in DOMAIN g} = Taken
    <3>1. {g[s] : s \in DOMAIN g} \subseteq Taken
      BY <2>2, Zenon
    <3>2. ASSUME NEW x \in Taken
          PROVE  x \in {g[s] : s \in DOMAIN g}
      <4>1. PICK i \in 1..j : x = stack[c + i]
        BY <3>2, Zenon
      <4>2. PICK s \in DOMAIN g : g[s] = stack[c + i]
        BY <2>3, Zenon
      <4> QED
        BY <4>1, <4>2, Zenon
    <3> QED
      BY <3>1, <3>2, Zenon
  <2>5. Taken \subseteq Born /\ \A x \in Taken : Free(x)
    BY SMTT(30), <1>2, <1>6, <1>i
  <2>6. \A i \in 1..c : stack[i] \notin Taken
    <3>1. ASSUME NEW i \in 1..c, NEW u \in 1..j, stack[i] = stack[c + u]
          PROVE  FALSE
      <4>1. i \in 1..(c + j) /\ c + u \in 1..(c + j) /\ i # c + u
        BY <1>i
      <4> QED
        BY <1>6, <3>1, <4>1
    <3> QED
      BY <3>1
  <2> QED
    BY <2>4, <2>5, <2>6
<1> HIDE DEF Taken
<1>f. ASSUME NEW f, f = Fresh
      PROVE  Kids(f)' = Taken
  BY <1>8, <1>f DEF Kids
<1>9. Single'
  <2>1. ASSUME NEW p \in Nodes, NEW q \in Nodes, NEW s \in DOMAIN child'[p],
               NEW t \in DOMAIN child'[q], child'[p][s] = child'[q][t]
        PROVE  p = q /\ s = t
    <3>1. \A u \in DOMAIN g : \A m \in Nodes : \A v \in DOMAIN child[m] : g[u] # child[m][v]
      <4>1. ASSUME NEW u \in DOMAIN g, NEW m \in Nodes, NEW v \in DOMAIN child[m]
            PROVE  g[u] # child[m][v]
        <5>1. g[u] \in Taken /\ child[m][v] \in Kids(m)
          BY <1>8 DEF Kids
        <5> QED
          BY <1>8, <5>1 DEF Free
      <4> QED
        BY <4>1
    <3>3. CASE p = Fresh /\ q = Fresh
      <4>1. child'[p] = g /\ child'[q] = g
        BY <3>3
      <4> QED
        BY <2>1, <3>3, <4>1
    <3>4. CASE p # Fresh /\ q # Fresh
      <4>1. child'[q] = child[q] /\ child'[p] = child[p]
        BY <3>4
      <4> QED
        BY <2>1, <4>1 DEF Forest, Single
    <3>5. CASE p = Fresh /\ q # Fresh
      <4>1. child'[p] = g /\ child'[q] = child[q]
        BY <3>5
      <4> QED
        BY <2>1, <3>1, <4>1
    <3>6. CASE p # Fresh /\ q = Fresh
      <4>1. child'[q] = g /\ child'[p] = child[p]
        BY <3>6
      <4> QED
        BY <2>1, <3>1, <4>1
    <3> QED
      BY <3>3, <3>4, <3>5, <3>6
  <2> QED
    BY <2>1 DEF Single
<1>10. Ordered'
  <2>1. ASSUME NEW n \in Nodes, NEW m \in Kids(n)'
        PROVE  m < n \/ kind'[m] = "scalar"
    <3>1. CASE n = Fresh
      <4>1. m \in Born
        BY <1>8, <1>f, <2>1, <3>1
      <4> QED
        BY <1>1, <1>5, <3>1, <4>1
    <3>2. CASE n # Fresh
      <4>1. m \in Kids(n) /\ m \in Nodes /\ m # Fresh
        BY <1>5, <1>7, <2>1, <3>2
      <4> QED
        BY <1>1, <4>1 DEF Forest, Ordered
    <3> QED
      BY <3>1, <3>2
  <2> QED
    BY <2>1 DEF Ordered
(* A node is free that was and was not taken. *)
<1>11. ASSUME NEW n, Free(n), n \notin Taken
       PROVE  Free(n)'
  <2>1. ASSUME NEW p \in Nodes
        PROVE  n \notin Kids(p)'
    <3>1. CASE p = Fresh
      BY <1>f, <1>11, <3>1
    <3>2. CASE p # Fresh
      BY <1>7, <1>11, <3>2 DEF Free
    <3> QED
      BY <3>1, <3>2
  <2> QED
    BY <2>1 DEF Free
<1>12. ASSUME NEW n, n = Fresh
       PROVE  Free(n)'
  <2>1. n \notin Taken /\ \A p \in Nodes : n \notin Kids(p)
    BY <1>1, <1>5, <1>8, <1>12
  <2> QED
    BY <1>11, <2>1 DEF Free
<1>13. Tops'
  <2>2. ASSUME NEW i \in 1..(c + 1)
        PROVE  Free(stack[i])'
    <3>1. CASE i = c + 1
      BY <1>3, <1>12, <3>1
    <3>2. CASE i \in 1..c
      <4>1. stack'[i] = stack[i] /\ Free(stack[i]) /\ stack[i] \notin Taken
        BY <1>3, <1>6, <1>8, <1>i, <3>2
      <4>2. ASSUME NEW n, n = stack[i]
            PROVE  Free(n)'
        BY <1>11, <4>1, <4>2
      <4> QED
        BY <4>1, <4>2
    <3> QED
      BY <1>i, <3>1, <3>2
  <2>3. ASSUME NEW i \in 1..(c + 1), NEW u \in 1..(c + 1), stack'[i] = stack'[u]
        PROVE  i = u
    <3>1. \A v \in 1..c : stack'[v] = stack[v] /\ stack'[v] # Fresh /\ v \in 1..(c + j)
      BY <1>2, <1>3, <1>5, <1>i
    <3>2. CASE i \in 1..c /\ u \in 1..c
      BY <1>6, <2>3, <3>1, <3>2
    <3> QED
      BY <1>3, <1>i, <2>3, <3>1, <3>2
  <2> QED
    BY <1>3, <1>4, <2>2, <2>3 DEF Tops
<1>14. LostTops'
  <2>1. Lost' = Lost /\ Lost \subseteq Born /\ orphans \subseteq Born
    BY <1>4 DEF Lost, TypeInv, TypeOK
  <2>2. ASSUME NEW d \in Lost
        PROVE  Free(d)' /\ ~OnStack(d)'
    <3>1. Free(d) /\ \A i \in 1..(c + j) : stack[i] # d
      BY <1>2, <2>2 DEF Forest, LostTops, OnStack
    <3>2. d \notin Taken
      BY <1>i, <3>1 DEF Taken
    <3>3. Free(d)'
      BY <1>11, <3>1, <3>2
    <3>4. \A i \in 1..(c + 1) : stack'[i] # d
      BY <1>1, <1>3, <1>i, <2>1, <2>2, <3>1
    <3> QED
      BY <1>3, <3>3, <3>4 DEF OnStack
  <2>3. \A d \in orphans : kind'[d] = "scalar"
    BY <1>1, <1>5, <2>1 DEF Forest, LostTops
  <2>4. \A d \in Lost : d # root
    BY <2>1 DEF Forest, LostTops
  <2> QED
    BY <1>4, <2>1, <2>2, <2>3, <2>4 DEF LostTops
<1>15. Living'
  BY <1>1, <1>4 DEF Living, Forest
<1>16. Covered'
  <2>1. ASSUME NEW n \in Born', Free(n)'
        PROVE  n = root' \/ n \in Lost' \/ OnStack(n)'
    <3>1. CASE n = Fresh
      BY <1>3, <1>i, <3>1 DEF OnStack
    <3>2. CASE n \in Born
      <4>1. n \notin Taken
        BY <1>1, <1>f, <2>1 DEF Free
      <4>2. \A p \in Nodes : p # Fresh => n \notin Kids(p)
        BY <1>7, <2>1 DEF Free
      <4>3. Kids(Fresh) = {}
        BY <1>1, KidFacts
      <4>4. Free(n)
        BY <4>2, <4>3 DEF Free
      <4>5. n = root \/ n \in Lost \/ OnStack(n)
        BY <1>4, <3>2, <4>4 DEF Forest, Covered
      <4>6. ASSUME OnStack(n) PROVE OnStack(n)'
        <5>1. PICK i \in 1..(c + j) : stack[i] = n
          BY <1>2, <4>6 DEF OnStack
        <5>2. i \in 1..c
          BY ZenonT(60), <1>i, <4>1, <5>1 DEF Taken
        <5> QED
          BY <1>3, <1>i, <5>1, <5>2 DEF OnStack
      <4> QED
        BY <1>4, <4>5, <4>6 DEF Lost
    <3> QED
      BY <1>1, <2>1, <3>1, <3>2
  <2> QED
    BY <2>1 DEF Covered
<1> QED
  BY <1>9, <1>10, <1>13, <1>14, <1>15, <1>16 DEF Forest

(* A new node without children changes nothing for the others. *)
LEMMA Bare ==
    ASSUME TypeInv, Forest, NEW k \in Kinds, New(k), \A m \in Nodes : child'[m] = child[m]
    PROVE  /\ Fresh \in Nodes /\ Fresh \notin Born /\ Born' = Born \cup {Fresh}
           /\ kind'[Fresh] = k
           /\ \A m \in Nodes : m # Fresh => kind'[m] = kind[m]
           /\ \A x \in Born : x # Fresh /\ kind'[x] = kind[x]
           /\ \A p \in Nodes : Kids(p)' = Kids(p) /\ Fresh \notin Kids(p)
           /\ Kids(Fresh) = {}
           /\ Single' /\ Ordered'
<1>1. /\ Fresh \in Nodes /\ Fresh \notin Born /\ Born' = Born \cup {Fresh}
      /\ kind'[Fresh] = k
      /\ \A m \in Nodes : m # Fresh => kind'[m] = kind[m]
  BY NewNode
<1>2. /\ Born \subseteq Nodes /\ \A p \in Nodes : Kids(p) \subseteq Born
      /\ Kids(Fresh) = {}
  BY <1>1, KidFacts
<1>3. \A p \in Nodes : Kids(p)' = Kids(p)
  BY DEF Kids
<1>4. Single'
  BY DEF Forest, Single
<1>5. \A x \in Born : x # Fresh /\ kind'[x] = kind[x]
  BY <1>1, <1>2
<1>6. Ordered'
  BY <1>2, <1>3, <1>5 DEF Forest, Ordered
<1> QED
  BY <1>1, <1>2, <1>3, <1>4, <1>5, <1>6

LEMMA LeafForest ==
    ASSUME TypeInv, Forest, NEW k \in Kinds \ {"list", "map"}, Leaf(k),
           UNCHANGED <<pc, child, linked, root, dropped, outputs, ownerVars>>
    PROVE  Forest'
<1>1. Fresh \in Nodes /\ Fresh \notin Born /\ New(k) /\ pc = "parse"
  BY NewNode DEF Leaf
<1>2. child[Fresh] = Nothing /\ DOMAIN Nothing = {}
  BY <1>1 DEF TypeInv, TypeOK, WellFormed, Born, Nothing
<1>3. stack \in Seq(Born) /\ Len(stack) \in Nat /\ 0 \in 0..Len(stack)
  BY LenProperties DEF TypeInv, TypeOK
<1>4. Under(0) = stack
  BY <1>3, SubSeqFull DEF Under
<1>5. stack' = Append(Under(0), Fresh)
  BY <1>4 DEF Leaf
<1>6. child'[Fresh] = Nothing /\ \A m \in Nodes : m # Fresh => child'[m] = child[m]
  BY <1>2
<1> QED
  BY <1>1, <1>2, <1>3, <1>5, <1>6, NewTop

LEMMA PoppedDistinct ==
    ASSUME TypeInv, Forest, NEW k \in 0..Len(stack)
    PROVE  \A i, u \in 1..k : Popped(k)[i] = Popped(k)[u] => i = u
<1> DEFINE at(i) == Len(stack) - k + i
<1>1. /\ Len(stack) \in Nat
      /\ \A i \in 1..k : Popped(k)[i] = stack[at(i)]
  BY StackParts DEF TypeInv, TypeOK
<1>2. /\ \A i \in 1..k : at(i) \in 1..Len(stack)
      /\ \A i, u \in 1..k : at(i) = at(u) => i = u
  BY <1>1
<1> HIDE DEF at
<1>3. \A i, u \in 1..Len(stack) : stack[i] = stack[u] => i = u
  BY DEF Forest, Tops
<1> QED
  BY <1>1, <1>2, <1>3

LEMMA ListForest ==
    ASSUME TypeInv, Forest, NEW k \in 0..MaxItems, ParseList(k)
    PROVE  Forest'
<1> DEFINE g == [i \in 0..(k - 1) |-> Popped(k)[i + 1]]
<1>0. k \in Nat /\ Len(stack) \in Nat
  BY MaxItemsAssumption, MaxNodesAssumption, LenProperties DEF TypeInv, TypeOK
<1>1. /\ k \in 0..Len(stack)
      /\ \A i \in DOMAIN g : i + 1 \in 1..k /\ g[i] = Popped(k)[i + 1]
  BY ListForm
<1>2. \A i \in 1..k : i - 1 \in DOMAIN g /\ g[i - 1] = Popped(k)[i]
  BY <1>0
<1>3. \A i, u \in 1..k : Popped(k)[i] = Popped(k)[u] => i = u
  BY <1>1, PoppedDistinct
<1>4. \A s, t \in DOMAIN g : g[s] = g[t] => s = t
  <2>1. \A s, t \in DOMAIN g : g[s] = g[t] => s + 1 = t + 1
    BY <1>1, <1>3
  <2> QED
    BY <1>0, <2>1
<1>5. /\ \A s \in DOMAIN g : \E i \in 1..k : g[s] = Popped(k)[i]
      /\ \A i \in 1..k : \E s \in DOMAIN g : g[s] = Popped(k)[i]
  BY <1>1, <1>2
<1>6. /\ New("list") /\ "list" \in Kinds /\ pc = "parse"
      /\ child' = [child EXCEPT ![Fresh] = g]
      /\ stack' = Append(Under(k), Fresh)
      /\ UNCHANGED <<pc, linked, root, dropped, outputs, ownerVars>>
  BY DEF ParseList, Kinds
<1> HIDE DEF g
<1>7. child'[Fresh] = g /\ \A m \in Nodes : m # Fresh => child'[m] = child[m]
  BY <1>6, NewNode DEF TypeInv, TablesInv
<1> QED
  BY <1>1, <1>4, <1>5, <1>6, <1>7, NewTop

LEMMA MapForest ==
    ASSUME TypeInv, Forest, NEW keys \in KeyLists, ParseMap(keys)
    PROVE  Forest'
<1> DEFINE k == Len(keys)
           at(key) == CHOOSE i \in 1..k : keys[i] = key
           g == [key \in {keys[i] : i \in 1..k} |-> Popped(k)[at(key)]]
<1>0. Len(stack) \in Nat
  BY LenProperties DEF TypeInv, TypeOK
<1>1. /\ k \in 0..Len(stack) /\ k \in Nat
      /\ \A key \in DOMAIN g : /\ at(key) \in 1..k /\ keys[at(key)] = key
                               /\ g[key] = Popped(k)[at(key)]
  BY <1>0, MapForm
<1>2. \A i \in 1..k : keys[i] \in DOMAIN g
  OBVIOUS
<1>3. \A i \in 1..k : at(keys[i]) = i
  BY <1>1, <1>2 DEF ParseMap
<1>4. \A i, u \in 1..k : Popped(k)[i] = Popped(k)[u] => i = u
  BY <1>1, PoppedDistinct
<1>5. /\ New("map") /\ "map" \in Kinds /\ pc = "parse"
      /\ child' = [child EXCEPT ![Fresh] = g]
      /\ stack' = Append(Under(k), Fresh)
      /\ UNCHANGED <<pc, linked, root, dropped, outputs, ownerVars>>
  BY DEF ParseMap, Kinds
<1> HIDE DEF g, at
<1>6. \A s, t \in DOMAIN g : g[s] = g[t] => s = t
  BY <1>1, <1>4
<1>7. /\ \A s \in DOMAIN g : \E i \in 1..k : g[s] = Popped(k)[i]
      /\ \A i \in 1..k : \E s \in DOMAIN g : g[s] = Popped(k)[i]
  BY <1>1, <1>2, <1>3
<1> HIDE DEF k
<1>8. child'[Fresh] = g /\ \A m \in Nodes : m # Fresh => child'[m] = child[m]
  BY <1>5, NewNode DEF TypeInv, TablesInv
<1> QED
  BY <1>1, <1>5, <1>6, <1>7, <1>8, NewTop

LEMMA SumForest ==
    ASSUME TypeInv, Forest, Sum
    PROVE  Forest'
<1>1. PICK c \in Nat :
         /\ Len(stack) = c + 1 /\ Under(1) \in Seq(Born) /\ Len(Under(1)) = c
         /\ \A i \in 1..c : Under(1)[i] = stack[i]
         /\ stack[c + 1] \in Born /\ Top = stack[c + 1]
  <2>1. stack \in Seq(Born) /\ Len(stack) \in Nat /\ Len(stack) >= 2 /\ 1 \in 0..Len(stack)
    BY LenProperties DEF TypeInv, TypeOK, Sum
  <2>2. /\ Under(1) \in Seq(Born) /\ Len(Under(1)) = Len(stack) - 1
        /\ \A i \in 1..(Len(stack) - 1) : Under(1)[i] = stack[i]
    BY <2>1, StackParts
  <2>3. stack[Len(stack)] \in Born
    BY <2>1, ElementOfSeq
  <2> DEFINE d == Len(stack) - 1
  <2>4. d \in Nat /\ Len(stack) = d + 1
    BY <2>1
  <2> QED
    BY <2>2, <2>3, <2>4 DEF Top
<1>2. /\ stack' = Under(1) /\ dropped' = dropped \cup {Top}
      /\ pc = "parse" /\ pc' = "parse" /\ root = Null /\ root' = Null
      /\ freed = {} /\ freed' = {} /\ outputs' = outputs /\ orphans' = orphans
      /\ kind' = kind /\ child' = child
  BY DEF Sum, TypeInv, TablesInv, treeVars, ownerVars
<1>3. /\ \A i \in 1..(c + 1) : Free(stack[i])
      /\ \A i, u \in 1..(c + 1) : stack[i] = stack[u] => i = u
      /\ Top \in Nodes
  BY <1>1, KidFacts DEF Forest, Tops
<1>i. /\ \A i \in 1..c : i \in 1..(c + 1) /\ i # c + 1
      /\ \A i \in 1..(c + 1) : i \in 1..c \/ i = c + 1
      /\ c + 1 \in 1..(c + 1)
  OBVIOUS
<1>4. \A n : Free(n)' <=> Free(n)
  BY <1>2 DEF Free, Kids
<1>5. Single' /\ Ordered' /\ Born' = Born
  BY <1>2 DEF Forest, Single, Ordered, Kids, Born
<1>6. Living'
  <2>1. linked' = linked
    BY DEF Sum, treeVars
  <2> QED
    BY <1>2, <1>5, <2>1 DEF Living, Forest
<1>7. Tops'
  <2>1. ASSUME NEW i \in 1..c
        PROVE  Free(stack[i])'
    <3>1. ASSUME NEW n, n = stack'[i]
          PROVE  Free(n)'
      BY <1>1, <1>2, <1>3, <1>4, <1>i, <3>1
    <3>2. stack'[i] = stack[i]
      BY <1>1, <1>2
    <3> QED
      BY <3>1
  <2> QED
    BY <1>1, <1>2, <1>3, <1>i, <2>1 DEF Tops
<1>8. Lost' = Lost \cup {Top}
  BY <1>2 DEF Lost
<1>9. \A n : OnStack(n) <=> OnStack(n)' \/ n = Top
  <2>1. \A n : OnStack(n)' <=> \E i \in 1..c : stack[i] = n
    BY <1>1, <1>2 DEF OnStack
  <2>2. \A n : OnStack(n) <=> \E i \in 1..(c + 1) : stack[i] = n
    BY <1>1 DEF OnStack
  <2> QED
    BY <1>1, <1>i, <2>1, <2>2
<1>10. LostTops'
  <2>1. \A i \in 1..c : stack'[i] # Top
    BY <1>1, <1>2, <1>3, <1>i
  <2>2. ASSUME NEW d \in Lost \cup {Top}
        PROVE  Free(d)' /\ d # Null /\ ~OnStack(d)'
    <3>1. CASE d = Top
      <4>1. ~OnStack(d)'
        BY <1>1, <1>2, <2>1, <3>1 DEF OnStack
      <4> QED
        BY <1>1, <1>3, <1>4, <1>i, <3>1, <4>1, MaxNodesAssumption DEF Nodes, Null
    <3>2. CASE d \in Lost
      BY <1>2, <1>4, <1>9, <3>2 DEF Forest, LostTops
    <3> QED
      BY <3>1, <3>2
  <2> QED
    BY <1>2, <1>8, <2>2 DEF LostTops, Forest
<1>11. Covered'
  BY <1>2, <1>4, <1>5, <1>8, <1>9 DEF Covered, Forest
<1> QED
  BY <1>5, <1>6, <1>7, <1>10, <1>11 DEF Forest

LEMMA FileForest ==
    ASSUME TypeInv, Forest, ParseFile
    PROVE  Forest'
<1>1. /\ Len(stack) = 1 /\ Top = stack[1] /\ 1 \in 1..Len(stack)
      /\ \A n : OnStack(n) <=> n = Top
  <2>1. Len(stack) = 1
    BY DEF ParseFile
  <2> QED
    BY <2>1 DEF Top, OnStack
<1>2. /\ stack' = <<>> /\ Len(stack') = 0 /\ root' = Top /\ pc' = "assign"
      /\ root = Null /\ freed = {} /\ freed' = {}
      /\ kind' = kind /\ child' = child /\ Lost' = Lost /\ orphans' = orphans
  BY DEF ParseFile, TypeInv, TablesInv, treeVars, ownerVars, Lost
<1>3. Free(Top)
  BY <1>1 DEF Forest, Tops
<1>4. \A n : (Free(n)' <=> Free(n)) /\ ~OnStack(n)'
  BY <1>2 DEF Free, Kids, OnStack
<1>5. Single' /\ Ordered' /\ Born' = Born
  BY <1>2 DEF Forest, Single, Ordered, Kids, Born
<1>6. Living'
  <2>1. linked' = linked
    BY DEF ParseFile, treeVars
  <2> QED
    BY <1>2, <1>5, <2>1 DEF Living, Forest
<1>7. Tops'
  <2>1. ASSUME NEW n, n = Top
        PROVE  Free(n)'
    BY <1>3, <1>4, <2>1
  <2>2. Free(root)'
    <3>1. ASSUME NEW n, n = root'
          PROVE  Free(n)'
      BY <1>2, <2>1, <3>1
    <3> QED
      BY <3>1 DEF Free
  <2> QED
    BY <1>2, <2>2 DEF Tops
<1>8. LostTops'
  BY <1>1, <1>2, <1>4 DEF Forest, LostTops
<1>9. Covered'
  <2>1. ASSUME NEW n \in Born, Free(n)
        PROVE  n = root' \/ n \in Lost
    <3>1. root = Null /\ n # Null
      BY <1>2, KidFacts, MaxNodesAssumption DEF Nodes, Null
    <3> QED
      BY <1>1, <1>2, <2>1, <3>1 DEF Forest, Covered
  <2> QED
    BY <1>2, <1>4, <1>5, <2>1 DEF Covered
<1> QED
  BY <1>5, <1>6, <1>7, <1>8, <1>9 DEF Forest

(* A new node that nobody owns and that is the root or lost. *)
LEMMA BareForest ==
    ASSUME TypeInv, Forest, NEW k \in Kinds, New(k),
           \A m \in Nodes : child'[m] = child[m], UNCHANGED <<stack, freed>>, stack = <<>>,
           \A n \in Nodes : linked'[n] = linked[n] \/ (n \in Born /\ linked'[n] = Fresh),
           pc' \in {"assign", "built"},
           \/ root = Null /\ root' = Fresh /\ Lost' = Lost /\ orphans' = orphans
           \/ /\ root \in Born /\ root' = root
              /\ Lost' = Lost \cup {Fresh}
              /\ orphans' = orphans \/ (orphans' = orphans \cup {Fresh} /\ k = "scalar")
    PROVE  Forest'
<1>1. /\ Fresh \in Nodes /\ Fresh \notin Born /\ Born' = Born \cup {Fresh}
      /\ kind'[Fresh] = k
      /\ \A x \in Born : x # Fresh /\ kind'[x] = kind[x]
      /\ \A p \in Nodes : Kids(p)' = Kids(p) /\ Fresh \notin Kids(p)
      /\ Kids(Fresh) = {}
      /\ Single' /\ Ordered'
  BY Bare
<1>2. /\ Born \subseteq Nodes /\ freed \subseteq Born /\ Lost \subseteq Born
      /\ orphans \subseteq Born
      /\ \A n \in Nodes : n # Null
      /\ root \in Nodes \cup {Null}
  BY KidFacts, MaxNodesAssumption DEF TypeInv, TypeOK, Lost, Nodes, Null
<1>3. /\ \A n : (Free(n)' <=> Free(n)) /\ ~OnStack(n)' /\ ~OnStack(n)
      /\ \A n : n = Fresh => Free(n)
      /\ Fresh \notin freed
  BY <1>1, <1>2 DEF Free, OnStack
<1>4. Tops'
  <2>1. ASSUME root' # Null
        PROVE  Free(root)' /\ root' \notin freed
    <3>1. ASSUME NEW n, n = root'
          PROVE  Free(n)
      <4>1. CASE root' = Fresh
        BY <1>3, <3>1, <4>1
      <4>2. CASE root \in Born /\ root' = root
        BY <1>2, <3>1, <4>2 DEF Forest, Tops
      <4> QED
        BY <4>1, <4>2
    <3>2. ASSUME NEW n, n = root'
          PROVE  Free(n)'
      BY <1>3, <3>1, <3>2
    <3>3. Free(root)'
      BY <3>2 DEF Free
    <3>4. root' \notin freed
      <4>1. CASE root' = Fresh
        BY <1>3, <4>1
      <4>2. CASE root \in Born /\ root' = root
        BY <1>2, <4>2 DEF Forest, Tops
      <4> QED
        BY <4>1, <4>2
    <3> QED
      BY <3>3, <3>4
  <2> QED
    BY <2>1 DEF Tops
<1>5. LostTops'
  <2>1. ASSUME NEW d \in Lost'
        PROVE  Free(d)' /\ d \notin freed' /\ d # root' /\ ~OnStack(d)'
    <3>1. CASE d \in Lost
      <4>1. Free(d) /\ d \notin freed /\ d # root /\ d # Fresh
        BY <1>1, <1>2, <3>1 DEF Forest, LostTops
      <4> QED
        BY <1>3, <4>1
    <3>2. CASE d = Fresh /\ root \in Born /\ root' = root
      BY <1>1, <1>3, <3>2
    <3> QED
      BY <2>1, <3>1, <3>2
  <2>2. \A d \in orphans' : kind'[d] = "scalar"
    BY <1>1, <1>2 DEF Forest, LostTops
  <2> QED
    BY <2>1, <2>2 DEF LostTops
<1>6. Living'
  <2>1. ASSUME NEW n \in Born' \ freed'
        PROVE  Kids(n)' \cap freed' = {} /\ linked'[n] \notin freed'
    <3>1. CASE n \in Born
      BY <1>1, <1>2, <1>3, <2>1, <3>1 DEF Forest, Living
    <3>2. CASE n = Fresh
      <4>1. Kids(n)' = {}
        BY <1>1, <3>2
      <4>2. linked'[Fresh] = Null /\ Null \notin freed
        BY <1>1, <1>2 DEF Forest, Living
      <4> QED
        BY <3>2, <4>1, <4>2
    <3> QED
      BY <1>1, <2>1, <3>1, <3>2
  <2>2. \A n \in freed' : Kids(n)' \subseteq freed'
    BY <1>1, <1>2 DEF Forest, Living
  <2>3. \A n \in Nodes \ Born' : linked'[n] = Null
    BY <1>1 DEF Forest, Living
  <2> QED
    BY <2>1, <2>2, <2>3 DEF Living
<1>7. Covered'
  <2>1. ASSUME NEW n \in Born' \ freed', Free(n)'
        PROVE  n = root' \/ n \in Lost'
    <3>1. CASE n \in Born
      <4>1. n = root \/ n \in Lost
        BY <1>3, <2>1, <3>1 DEF Forest, Covered
      <4> QED
        BY <1>2, <3>1, <4>1
    <3>2. CASE n = Fresh
      BY <3>2
    <3> QED
      BY <1>1, <2>1, <3>1, <3>2
  <2> QED
    BY <2>1 DEF Covered
<1> QED
  BY <1>1, <1>4, <1>5, <1>6, <1>7 DEF Forest

LEMMA ParseForest ==
    ASSUME TypeInv, Forest, Parse, pc' # "threw"
    PROVE  Forest'
<1>1. CASE ParseScalar
  BY <1>1, LeafForest DEF ParseScalar, Kinds
<1>2. CASE UseScript
  BY <1>2, LeafForest DEF UseScript, Kinds
<1>3. CASE \E name \in Names : UseLink(name)
  BY <1>3, LeafForest DEF UseLink, Kinds
<1>4. CASE \E path \in Paths : UseRef(path)
  BY <1>4, LeafForest DEF UseRef, Kinds
<1>5. ASSUME NEW name \in Names, SetLink(name)
      PROVE  Forest'
  BY <1>5 DEF SetLink, treeVars, ownerVars, Forest, Single, Ordered, Tops, LostTops, Living,
     Covered, Free, OnStack, Lost, Kids, Born
<1>6. CASE ParseEmptyFile
  <2>1. stack = <<>> /\ root = Null
    BY <1>6 DEF ParseEmptyFile, TypeInv, TablesInv
  <2> QED
    BY <1>6, <2>1, BareForest DEF ParseEmptyFile, Kinds, ownerVars, Lost
<1> QED
  BY <1>1, <1>2, <1>3, <1>4, <1>5, <1>6, ListForest, MapForest, SumForest, FileForest
  DEF Parse, ParseThrows

-----------------------------------------------------------------------------
(* Scripts and links. *)

LEMMA AssignForest ==
    ASSUME TypeInv, Forest, Assign, pc' # "threw"
    PROVE  Forest'
<1>1. ASSUME NEW n \in Nodes, NEW k \in {"scalar", "list"}, AttachOutput(n, k)
      PROVE  Forest'
  <2>1. /\ k \in Kinds /\ New(k) /\ UNCHANGED <<child, stack, freed>>
        /\ stack = <<>> /\ pc' = "assign" /\ root \in Born /\ root' = root
    BY <1>1 DEF AttachOutput, Kinds, ownerVars, TypeInv, TablesInv, Forest, Tops
  <2>2. Lost' = Lost \cup {Fresh} /\ orphans' = orphans
    BY <1>1 DEF AttachOutput, ownerVars, Lost
  <2>3. n \in Born
    BY <1>1 DEF AttachOutput, Born
  <2>4. \A m \in Nodes : linked'[m] = linked[m] \/ (m \in Born /\ linked'[m] = Fresh)
    BY <1>1, <2>3 DEF AttachOutput, TypeInv, TypeOK
  <2> QED
    BY <2>1, <2>2, <2>4, BareForest
<1>2. CASE AssignLinks
  <2>1. /\ UNCHANGED <<parserVars, kind, child, ownerVars>>
        /\ pc = "assign" /\ pc' = "built" /\ freed = {}
    BY <1>2 DEF AssignLinks, TypeInv, TablesInv
  <2>2. \A n \in Nodes \ Born : linked'[n] = Null
    BY <1>2 DEF AssignLinks, TypeInv, TypeOK, Forest, Living
  <2>3. Single' /\ Ordered' /\ Tops' /\ LostTops' /\ Covered'
    BY <2>1 DEF parserVars, ownerVars, Forest, Single, Ordered, Tops, LostTops,
       Covered, Free, OnStack, Lost, Kids, Born
  <2>4. Living'
    BY <2>1, <2>2 DEF ownerVars, Living, Born
  <2> QED
    BY <2>3, <2>4 DEF Forest
<1> QED
  BY <1>1, <1>2 DEF Assign, AssignThrows

(* Deleting the root deletes all but what is lost. *)
LEMMA Deleted ==
    ASSUME TypeInv, Forest, root \in Born, pc # "parse"
    PROVE  freed \cup Subtree(root)
               = Born \ (orphans \cup UNION {Subtree(d) : d \in dropped \cup outputs})
<1> DEFINE L == orphans \cup UNION {Subtree(d) : d \in dropped \cup outputs}
<1>1. Born \ freed = Subtree(root) \cup L
  BY AllCovered
<1>2. /\ root \in Nodes /\ root # Null /\ Free(root)
      /\ freed \subseteq Born /\ Lost \subseteq Nodes
      /\ \A p \in Nodes : Kids(p) \subseteq Nodes
  <2>1. /\ root \in Nodes /\ freed \subseteq Born /\ Lost \subseteq Nodes
        /\ \A p \in Nodes : Kids(p) \subseteq Nodes
    BY KidFacts DEF TypeInv, TypeOK, Lost
  <2>2. root # Null
    BY <2>1, MaxNodesAssumption DEF Nodes, Null
  <2> QED
    BY <2>1, <2>2 DEF Forest, Tops
<1>3. ASSUME NEW d \in dropped \cup outputs
      PROVE  Subtree(root) \cap Subtree(d) = {}
  <2>1. d \in Nodes /\ Free(d) /\ d # root
    BY <1>2 DEF Lost, Forest, LostTops
  <2> QED
    BY <1>2, <2>1, Apart DEF Forest
<1>4. ASSUME NEW o \in orphans
      PROVE  o \notin Subtree(root)
  <2>1. Free(o) /\ o # root
    BY DEF Lost, Forest, LostTops
  <2>2. Subtree(root) \subseteq Nodes
    BY <1>2, SubtreeClosed
  <2> QED
    BY <1>2, <2>1, <2>2, SubtreeParents DEF Free
<1>5. Subtree(root) \cap L = {}
  BY <1>3, <1>4
<1> QED
  BY <1>1, <1>2, <1>5

(* Subtrees depend on the children only. *)
LEMMA SameTrees ==
    ASSUME child' = child, kind' = kind
    PROVE  /\ \A n : Subtree(n)' = Subtree(n)
           /\ Born' = Born
BY DEF Subtree, Closure, Kids, Born

-----------------------------------------------------------------------------
(* The owner. *)

(* Erasing takes one child away and keeps the others, each once. *)
LEMMA ErasedKids ==
    ASSUME TypeInv, Single, NEW n \in Nodes, kind[n] \in {"list", "map"},
           NEW s \in DOMAIN child[n]
    PROVE  LET g == Erased(n, s) IN
           /\ \A t \in DOMAIN g : \E u \in DOMAIN child[n] : u # s /\ g[t] = child[n][u]
           /\ \A u \in DOMAIN child[n] : u # s => \E t \in DOMAIN g : g[t] = child[n][u]
           /\ \A t, u \in DOMAIN g : g[t] = g[u] => t = u
<1>0. MaxNodes \in Nat /\ WellFormed(n)
  BY MaxNodesAssumption DEF TypeInv, TypeOK
<1>s. \A t, u \in DOMAIN child[n] : child[n][t] = child[n][u] => t = u
  BY DEF Single
<1>1. CASE kind[n] = "map"
  BY <1>1, <1>s DEF Erased, Without
<1>2. CASE kind[n] = "list"
  <2>1. PICK c \in 0..(MaxNodes + 1) : DOMAIN child[n] = 0..(c - 1)
    BY <1>0, <1>2, FirstIndices DEF WellFormed
  <2>2. s \in 0..(c - 1) /\ c \in Nat /\ c > 0
    BY <1>0, <2>1
  <2> DEFINE g == Erased(n, s)
  <2>3. DOMAIN g = 0..(c - 2)
    <3>1. {j \in Indices : j + 1 \in DOMAIN child[n]} = 0..(c - 2)
      BY <1>0, <2>1 DEF Indices
    <3> QED
      BY <1>2, <3>1 DEF Erased
  <2>4. ASSUME NEW t \in 0..(c - 2)
        PROVE  /\ t \in DOMAIN child[n] /\ t + 1 \in DOMAIN child[n]
               /\ t < s => g[t] = child[n][t]
               /\ ~(t < s) => g[t] = child[n][t + 1]
    <3>1. t \in DOMAIN child[n] /\ t + 1 \in DOMAIN child[n]
      BY <2>1, <2>2
    <3>2. t \in {j \in Indices : j + 1 \in DOMAIN child[n]}
      BY <1>0, <2>1, <3>1 DEF Indices
    <3> QED
      BY <1>2, <3>1, <3>2 DEF Erased
  <2> HIDE DEF g
  <2>5. \A t \in DOMAIN g : \E u \in DOMAIN child[n] : u # s /\ g[t] = child[n][u]
    <3>1. ASSUME NEW t \in 0..(c - 2)
          PROVE  \E u \in DOMAIN child[n] : u # s /\ g[t] = child[n][u]
      <4>1. CASE t < s
        BY <2>2, <2>4, <4>1
      <4>2. CASE ~(t < s)
        <5>1. t + 1 # s
          BY <2>2, <4>2
        <5> QED
          BY <2>4, <4>2, <5>1
      <4> QED
        BY <4>1, <4>2
    <3> QED
      BY <2>3, <3>1
  <2>6. \A u \in DOMAIN child[n] : u # s => \E t \in DOMAIN g : g[t] = child[n][u]
    <3>1. ASSUME NEW u \in 0..(c - 1), u # s
          PROVE  \E t \in 0..(c - 2) : g[t] = child[n][u]
      <4>1. CASE u < s
        BY <2>2, <2>4, <4>1
      <4>2. CASE ~(u < s)
        <5>1. u - 1 \in 0..(c - 2) /\ ~(u - 1 < s) /\ (u - 1) + 1 = u
          BY <2>2, <3>1, <4>2
        <5> QED
          BY <2>4, <5>1
      <4> QED
        BY <4>1, <4>2
    <3> QED
      BY <2>1, <2>3, <3>1
  <2>7. \A t, u \in DOMAIN g : g[t] = g[u] => t = u
    <3>1. ASSUME NEW t \in 0..(c - 2), NEW u \in 0..(c - 2), g[t] = g[u]
          PROVE  t = u
      <4> DEFINE at(i) == IF i < s THEN i ELSE i + 1
      <4>1. \A i \in 0..(c - 2) : at(i) \in DOMAIN child[n] /\ g[i] = child[n][at(i)]
        BY <2>4
      <4>2. at(t) = at(u) => t = u
        BY <2>2
      <4> HIDE DEF at
      <4> QED
        BY <1>s, <3>1, <4>1, <4>2
    <3> QED
      BY <2>3, <3>1
  <2> QED
    BY <2>5, <2>6, <2>7 DEF g
<1> QED
  BY <1>1, <1>2

(* Inserting adds one child. *)
LEMMA PutKids ==
    ASSUME TypeInv, Single, NEW n \in Nodes, kind[n] \in {"list", "map"}, NEW i \in Places(n),
           kind[n] = "map" => i \notin DOMAIN child[n],
           NEW e, e \notin Kids(n)
    PROVE  LET g == Put(n, i, e) IN
           /\ \A t \in DOMAIN g : g[t] = e \/ \E u \in DOMAIN child[n] : g[t] = child[n][u]
           /\ \E t \in DOMAIN g : g[t] = e
           /\ \A u \in DOMAIN child[n] : \E t \in DOMAIN g : g[t] = child[n][u]
           /\ \A t, u \in DOMAIN g : g[t] = g[u] => t = u
<1>0. MaxNodes \in Nat /\ WellFormed(n)
  BY MaxNodesAssumption DEF TypeInv, TypeOK
<1>s. /\ \A t, u \in DOMAIN child[n] : child[n][t] = child[n][u] => t = u
      /\ \A t \in DOMAIN child[n] : child[n][t] # e
  BY DEF Single, Kids
<1>1. CASE kind[n] = "map"
  BY <1>1, <1>s DEF Put, Inserted, With
<1>2. CASE kind[n] = "list"
  <2>1. PICK c \in 0..(MaxNodes + 1) : DOMAIN child[n] = 0..(c - 1)
    BY <1>0, <1>2, FirstIndices DEF WellFormed
  <2>2. Cardinality(DOMAIN child[n]) = c
    BY <1>0, <2>1, FS_Interval
  <2>3. i \in 0..c /\ c \in Nat
    BY <1>0, <1>2, <2>2 DEF Places
  <2> DEFINE g == Put(n, i, e)
  <2>4. DOMAIN g = 0..c
    BY <1>2, <2>1, <2>2, <2>3 DEF Put
  <2>5. \A t \in 0..c : g[t] = IF t < i THEN child[n][t]
                                ELSE IF t = i THEN e ELSE child[n][t - 1]
    BY <1>2, <2>4 DEF Put
  <2> HIDE DEF g
  <2>6. \A t \in DOMAIN g : g[t] = e \/ \E u \in DOMAIN child[n] : g[t] = child[n][u]
    <3>1. ASSUME NEW t \in 0..c
          PROVE  g[t] = e \/ \E u \in DOMAIN child[n] : g[t] = child[n][u]
      <4>1. CASE t < i
        <5>1. t \in DOMAIN child[n]
          BY <2>1, <2>3, <4>1
        <5> QED
          BY <2>5, <4>1, <5>1
      <4>2. CASE ~(t < i) /\ t # i
        <5>1. t - 1 \in DOMAIN child[n]
          BY <2>1, <2>3, <4>2
        <5> QED
          BY <2>5, <4>2, <5>1
      <4>3. CASE t = i
        BY <2>3, <2>5, <4>3
      <4> QED
        BY <4>1, <4>2, <4>3
    <3> QED
      BY <2>4, <3>1
  <2>7. \E t \in DOMAIN g : g[t] = e
    BY <2>3, <2>4, <2>5
  <2>8. \A u \in DOMAIN child[n] : \E t \in DOMAIN g : g[t] = child[n][u]
    <3>1. ASSUME NEW u \in 0..(c - 1)
          PROVE  \E t \in 0..c : g[t] = child[n][u]
      <4>1. CASE u < i
        <5>1. u \in 0..c
          BY <2>3
        <5> QED
          BY <2>5, <4>1, <5>1
      <4>2. CASE ~(u < i)
        <5>1. u + 1 \in 0..c /\ ~(u + 1 < i) /\ u + 1 # i /\ (u + 1) - 1 = u
          BY <2>3, <4>2
        <5> QED
          BY <2>5, <5>1
      <4> QED
        BY <4>1, <4>2
    <3> QED
      BY <2>1, <2>4, <3>1
  <2>9. \A t, u \in DOMAIN g : g[t] = g[u] => t = u
    <3> DEFINE at(j) == IF j < i THEN j ELSE j - 1
    <3>1. ASSUME NEW t \in 0..c, t # i
          PROVE  at(t) \in DOMAIN child[n] /\ g[t] = child[n][at(t)] /\ g[t] # e
      <4>1. at(t) \in DOMAIN child[n]
        BY <2>1, <2>3, <3>1
      <4>2. g[t] = child[n][at(t)]
        BY <2>5, <3>1
      <4> QED
        BY <1>s, <4>1, <4>2
    <3>2. \A t, u \in 0..c : t # i /\ u # i /\ at(t) = at(u) => t = u
      BY <2>3
    <3> HIDE DEF at
    <3>3. g[i] = e /\ i \in 0..c
      BY <2>3, <2>5
    <3>4. ASSUME NEW t \in 0..c, NEW u \in 0..c, g[t] = g[u]
          PROVE  t = u
      <4>1. CASE t # i /\ u # i
        BY <1>s, <3>1, <3>2, <3>4, <4>1
      <4>2. CASE t = i \/ u = i
        BY <3>1, <3>3, <3>4, <4>2
      <4> QED
        BY <4>1, <4>2
    <3> QED
      BY <2>4, <3>4
  <2> QED
    BY <2>6, <2>7, <2>8, <2>9 DEF g
<1> QED
  BY <1>1, <1>2

LEMMA RemoveForest ==
    ASSUME TypeInv, Forest, NEW n \in Born \ freed, NEW s,
           kind[n] \in {"list", "map"}, Remove(n, s)
    PROVE  pc' = "built" /\ (~misused' => Forest')
<1> DEFINE v == child[n][s]
           T == Subtree(v)
<1>1. /\ n \in Nodes /\ s \in DOMAIN child[n] /\ v \in Kids(n) /\ v \in Born /\ v \in Nodes
      /\ v \notin freed /\ kind[n] # "scalar"
      /\ \A p \in Nodes : Kids(p) \subseteq Nodes
  BY KidFacts DEF Remove, Kids, Forest, Living
<1>2. /\ v \in T /\ T \subseteq Nodes /\ n \notin T
      /\ \A p \in T : Kids(p) \subseteq T
  BY <1>1, SubtreeClosed, Younger DEF Forest
<1>3. \A o \in T : v \notin Kids(o)
  BY <1>1, <1>2, OneOwner DEF Forest
<1>4. ~DeletesTwice(v)
  BY <1>1, <1>3, NotTwice DEF Forest
<1>5. /\ pc = "built" /\ pc' = "built" /\ freed' = freed \cup T
      /\ misused' = (misused \/ \E l \in Born \ (freed \cup T) : linked[l] \in T)
      /\ child' = [child EXCEPT ![n] = Erased(n, s)]
      /\ UNCHANGED <<kind, linked, stack, root, dropped, outputs, orphans>>
  BY <1>4 DEF Remove, parserVars
<1>6. /\ child'[n] = Erased(n, s) /\ \A p \in Nodes : p # n => child'[p] = child[p]
  BY <1>1, <1>5 DEF TypeInv, TablesInv
<1>7. LET g == child'[n] IN
      /\ \A t \in DOMAIN g : \E u \in DOMAIN child[n] : u # s /\ g[t] = child[n][u]
      /\ \A u \in DOMAIN child[n] : u # s => \E t \in DOMAIN g : g[t] = child[n][u]
      /\ \A t, u \in DOMAIN g : g[t] = g[u] => t = u
  BY <1>1, <1>6, ErasedKids DEF Forest
<1>s. \A p, q \in Nodes : \A t \in DOMAIN child[p], u \in DOMAIN child[q] :
         child[p][t] = child[q][u] => p = q /\ t = u
  BY DEF Forest, Single
<1> HIDE DEF T
<1>8. \A p \in Nodes : p # n => Kids(p)' = Kids(p)
  BY <1>6 DEF Kids
<1>9. Kids(n)' = Kids(n) \ {v}
  <2>1. ASSUME NEW x \in Kids(n)'
        PROVE  x \in Kids(n) /\ x # v
    <3>1. PICK t \in DOMAIN child'[n] : x = child'[n][t]
      BY <2>1 DEF Kids
    <3>2. PICK u \in DOMAIN child[n] : u # s /\ x = child[n][u]
      BY <1>7, <3>1
    <3>3. x # v
      BY <1>1, <1>s, <3>2
    <3> QED
      BY <3>2, <3>3 DEF Kids
  <2>2. ASSUME NEW x \in Kids(n), x # v
        PROVE  x \in Kids(n)'
    <3>1. PICK u \in DOMAIN child[n] : x = child[n][u]
      BY <2>2 DEF Kids
    <3>2. PICK t \in DOMAIN child'[n] : x = child'[n][t]
      BY <1>7, <2>2, <3>1
    <3> QED
      BY <3>2 DEF Kids
  <2> HIDE DEF v
  <2> QED
    BY <2>1, <2>2
<1>10. Single'
  <2>1. ASSUME NEW p \in Nodes, NEW q \in Nodes, NEW t \in DOMAIN child'[p],
               NEW u \in DOMAIN child'[q], child'[p][t] = child'[q][u]
        PROVE  p = q /\ t = u
    <3>1. p = q
      <4>1. child'[p][t] \in Kids(p)' /\ child'[p][t] \in Kids(q)'
        BY <2>1 DEF Kids
      <4>2. child'[p][t] \in Kids(p) /\ child'[p][t] \in Kids(q)
        BY <1>8, <1>9, <4>1
      <4> QED
        BY <4>2, OneOwner DEF Forest
    <3>2. CASE p = n
      BY <1>7, <2>1, <3>1, <3>2
    <3>3. CASE p # n
      <4>1. child'[p] = child[p]
        BY <1>6, <3>3
      <4> QED
        BY <1>s, <2>1, <3>1, <4>1
    <3> QED
      BY <3>1, <3>2, <3>3
  <2> QED
    BY <2>1 DEF Single
<1>11. Ordered'
  BY <1>5, <1>8, <1>9 DEF Forest, Ordered
<1>12. \A m : Free(m) => Free(m)' /\ m \notin T
  <2>1. ASSUME NEW m, Free(m)
        PROVE  Free(m)'
    <3>1. ASSUME NEW p \in Nodes
          PROVE  m \notin Kids(p)'
      BY <1>8, <1>9, <2>1 DEF Free
    <3> QED
      BY <3>1 DEF Free
  <2>2. ASSUME NEW m \in T
        PROVE  ~Free(m)
    <3>1. CASE m = v
      BY <1>1, <3>1 DEF Free
    <3>2. CASE m # v
      <4>1. \E p \in T : m \in Kids(p)
        BY <1>1, <2>2, <3>2, SubtreeParents DEF T
      <4> QED
        BY <1>2, <4>1 DEF Free
    <3> QED
      BY <3>1, <3>2
  <2> QED
    BY <2>1, <2>2
<1>13. Tops'
  <2>1. stack = <<>> /\ stack' = <<>>
    BY <1>5 DEF Forest, Tops
  <2>2. root # Null => Free(root) /\ root \notin freed
    BY DEF Forest, Tops
  <2>3. root # Null => Free(root)'
    <3>1. ASSUME NEW m, m = root, root # Null
          PROVE  Free(m)'
      BY <1>12, <2>2, <3>1
    <3> QED
      BY <1>5, <3>1 DEF Free
  <2> QED
    BY <1>5, <1>12, <2>1, <2>2, <2>3 DEF Tops
<1>14. LostTops'
  <2>1. Lost' = Lost /\ \A m : OnStack(m)' <=> OnStack(m)
    BY <1>5 DEF Lost, OnStack
  <2>2. \A d \in Lost : Free(d) /\ d \notin freed /\ d # root /\ ~OnStack(d)
    BY DEF Forest, LostTops
  <2> QED
    BY <1>5, <1>12, <2>1, <2>2 DEF LostTops, Forest
<1>15. Covered'
  <2>1. ASSUME NEW m \in Born \ (freed \cup T), Free(m)'
        PROVE  Free(m)
    <3>1. ASSUME NEW p \in Nodes, m \in Kids(p)
          PROVE  FALSE
      BY <1>2, <1>8, <1>9, <2>1, <3>1 DEF Free
    <3> QED
      BY <3>1 DEF Free
  <2>2. Born' = Born /\ Lost' = Lost /\ \A m : OnStack(m)' <=> OnStack(m)
    BY <1>5 DEF Born, Lost, OnStack
  <2> QED
    BY <1>5, <2>1, <2>2 DEF Covered, Forest
<1>16. ASSUME ~misused'
       PROVE  Living'
  <2>1. ASSUME NEW p \in Born \ (freed \cup T)
        PROVE  Kids(p)' \cap (freed \cup T) = {} /\ linked[p] \notin freed \cup T
    <3>1. p \in Nodes /\ Kids(p) \cap freed = {} /\ linked[p] \notin freed /\ linked[p] \notin T
      BY <1>5, <1>16, <2>1, KidFacts DEF Forest, Living
    <3>2. ASSUME NEW m \in Kids(p), m \in T
          PROVE  p = n /\ m = v
      <4>1. CASE m = v
        BY <1>1, <3>1, <3>2, <4>1, OneOwner DEF Forest
      <4>2. CASE m # v
        <5>1. PICK q \in T : m \in Kids(q)
          BY <1>1, <3>2, <4>2, SubtreeParents DEF T
        <5>2. p = q
          BY <1>2, <3>1, <3>2, <5>1, OneOwner DEF Forest
        <5> QED
          BY <2>1, <5>1, <5>2
      <4> QED
        BY <4>1, <4>2
    <3> QED
      BY <1>8, <1>9, <3>1, <3>2
  <2>2. \A p \in Nodes : Kids(p)' \subseteq Kids(p)
    BY <1>8, <1>9
  <2>3. \A p \in freed \cup T : Kids(p)' \subseteq freed \cup T
    <3>1. freed \subseteq Nodes
      BY KidFacts DEF TypeInv, TypeOK
    <3> QED
      BY <1>2, <2>2, <3>1 DEF Forest, Living
  <2>4. Born' = Born
    BY <1>5 DEF Born
  <2>5. \A p \in Nodes \ Born : linked[p] = Null
    BY DEF Forest, Living
  <2> QED
    BY <1>5, <2>1, <2>3, <2>4, <2>5 DEF Living
<1> QED
  BY <1>5, <1>10, <1>11, <1>13, <1>14, <1>15, <1>16 DEF Forest

LEMMA InsertForest ==
    ASSUME TypeInv, Forest, NEW n \in Born \ freed, NEW i, root \in Born,
           kind[n] \in {"list", "map"}, InsertNew(n, i)
    PROVE  Forest'
<1>1. /\ pc = "built" /\ pc' = "built" /\ New("scalar") /\ "scalar" \in Kinds
      /\ i \in Places(n) /\ n \in Nodes
      /\ child' = [child EXCEPT ![n] = Put(n, i, Fresh)]
      /\ UNCHANGED <<stack, root, linked, freed, dropped, outputs>>
  BY KidFacts DEF InsertNew, parserVars, Kinds
<1>2. /\ Fresh \in Nodes /\ Fresh \notin Born /\ Born' = Born \cup {Fresh}
      /\ kind'[Fresh] = "scalar"
      /\ \A m \in Nodes : m # Fresh => kind'[m] = kind[m]
  BY <1>1, NewNode
<1>3. /\ child'[n] = Put(n, i, Fresh)
      /\ \A p \in Nodes : p # n => child'[p] = child[p]
  BY <1>1 DEF TypeInv, TablesInv
<1>4. stack = <<>>
  BY <1>1 DEF Forest, Tops
(* A map that has the key stays as it is. *)
<1>5. CASE kind[n] = "map" /\ i \in DOMAIN child[n]
  <2>1. Put(n, i, Fresh) = child[n]
    BY <1>5 DEF Put, Inserted
  <2>2. \A m \in Nodes : child'[m] = child[m]
    BY <1>3, <2>1
  <2>3. orphans' = orphans \cup {Fresh} /\ Lost' = Lost \cup {Fresh}
    BY <1>1, <1>5 DEF InsertNew, Lost
  <2> QED
    BY <1>1, <1>4, <2>2, <2>3, BareForest
(* Otherwise it takes the node. *)
<1>6. CASE ~(kind[n] = "map" /\ i \in DOMAIN child[n])
  <2>1. /\ Born \subseteq Nodes /\ freed \subseteq Born /\ Lost \subseteq Born
        /\ \A p \in Nodes : Kids(p) \subseteq Born /\ Fresh \notin Kids(p)
        /\ \A x \in Born : x \in Nodes /\ x # Fresh /\ kind'[x] = kind[x]
    BY <1>2, KidFacts DEF TypeInv, TypeOK, Lost
  <2>2. LET g == child'[n] IN
        /\ \A t \in DOMAIN g : g[t] = Fresh \/ \E u \in DOMAIN child[n] : g[t] = child[n][u]
        /\ \E t \in DOMAIN g : g[t] = Fresh
        /\ \A u \in DOMAIN child[n] : \E t \in DOMAIN g : g[t] = child[n][u]
        /\ \A t, u \in DOMAIN g : g[t] = g[u] => t = u
    BY <1>1, <1>3, <1>6, <2>1, PutKids DEF Forest
  <2>3. \A p \in Nodes : p # n => Kids(p)' = Kids(p)
    BY <1>3 DEF Kids
  <2>4. Kids(n)' = Kids(n) \cup {Fresh}
    <3>1. ASSUME NEW x \in Kids(n)'
          PROVE  x \in Kids(n) \/ x = Fresh
      <4>1. PICK t \in DOMAIN child'[n] : x = child'[n][t]
        BY <3>1 DEF Kids
      <4> QED
        BY <2>2, <4>1 DEF Kids
    <3>2. ASSUME NEW x, x = Fresh
          PROVE  x \in Kids(n)'
      BY <2>2, <3>2 DEF Kids
    <3>3. ASSUME NEW x \in Kids(n)
          PROVE  x \in Kids(n)'
      <4>1. PICK u \in DOMAIN child[n] : x = child[n][u]
        BY <3>3 DEF Kids
      <4>2. PICK t \in DOMAIN child'[n] : x = child'[n][t]
        BY <2>2, <4>1
      <4> QED
        BY <4>2 DEF Kids
    <3> QED
      BY <3>1, <3>2, <3>3
  <2>5. Single'
    <3>1. ASSUME NEW p \in Nodes, NEW q \in Nodes, NEW t \in DOMAIN child'[p],
                 NEW u \in DOMAIN child'[q], child'[p][t] = child'[q][u]
          PROVE  p = q /\ t = u
      <4>1. child'[p][t] \in Kids(p)' /\ child'[p][t] \in Kids(q)'
        BY <3>1 DEF Kids
      <4>2. p = q
        <5>1. CASE child'[p][t] = Fresh
          BY <2>1, <2>3, <4>1, <5>1
        <5>2. CASE child'[p][t] # Fresh
          <6>1. child'[p][t] \in Kids(p) /\ child'[p][t] \in Kids(q)
            BY <2>3, <2>4, <4>1, <5>2
          <6> QED
            BY <6>1, OneOwner DEF Forest
        <5> QED
          BY <5>1, <5>2
      <4>3. CASE p = n
        BY <2>2, <3>1, <4>2, <4>3
      <4>4. CASE p # n
        <5>1. child'[p] = child[p]
          BY <1>3, <4>4
        <5> QED
          BY <3>1, <4>2, <5>1 DEF Forest, Single
      <4> QED
        BY <4>2, <4>3, <4>4
    <3> QED
      BY <3>1 DEF Single
  <2>6. Ordered'
    <3>1. ASSUME NEW p \in Nodes, NEW m \in Kids(p)'
          PROVE  m < p \/ kind'[m] = "scalar"
      <4>1. CASE m = Fresh
        BY <1>2, <4>1
      <4>2. CASE m # Fresh
        <5>1. m \in Kids(p) /\ kind'[m] = kind[m]
          BY <2>1, <2>3, <2>4, <3>1, <4>2
        <5> QED
          BY <5>1 DEF Forest, Ordered
      <4> QED
        BY <4>1, <4>2
    <3> QED
      BY <3>1 DEF Ordered
  <2>7. ASSUME NEW m, m # Fresh
        PROVE  Free(m)' <=> Free(m)
    <3>1. ASSUME NEW p \in Nodes
          PROVE  m \in Kids(p)' <=> m \in Kids(p)
      <4>1. CASE p = n
        BY <2>4, <2>7, <4>1
      <4>2. CASE p # n
        BY <2>3, <4>2
      <4> QED
        BY <4>1, <4>2
    <3> QED
      BY <3>1 DEF Free
  <2>8. orphans' = orphans /\ Lost' = Lost /\ \A m : OnStack(m)' <=> OnStack(m)
    BY <1>1, <1>6 DEF InsertNew, Lost, OnStack
  <2>9. Tops'
    <3>1. Free(root) /\ root \notin freed
      BY MaxNodesAssumption DEF Forest, Tops, Born, Nodes, Null
    <3>2. Free(root)'
      <4>1. ASSUME NEW m, m = root
            PROVE  Free(m)'
        BY <2>1, <2>7, <3>1, <4>1
      <4> QED
        BY <1>1, <4>1 DEF Free
    <3> QED
      BY <1>1, <1>4, <3>1, <3>2 DEF Tops
  <2>10. LostTops'
    <3>1. \A d \in Lost : Free(d) /\ d \notin freed /\ d # root /\ ~OnStack(d)
      BY DEF Forest, LostTops
    <3>2. \A d \in orphans : kind[d] = "scalar" /\ d \in Lost
      BY DEF Forest, LostTops, Lost
    <3> QED
      BY <1>1, <2>1, <2>7, <2>8, <3>1, <3>2 DEF LostTops
  <2>11. Living'
    <3>1. ASSUME NEW p \in Born \cup {Fresh}, p \notin freed
          PROVE  Kids(p)' \cap freed = {} /\ linked[p] \notin freed
      <4>1. CASE p = Fresh
        <5>1. Kids(p)' = {}
          BY <1>2, <2>1, <2>3, <4>1, KidFacts
        <5>2. linked[p] = Null
          BY <1>2, <4>1 DEF Forest, Living
        <5>3. Null \notin freed
          BY <2>1, MaxNodesAssumption DEF Nodes, Null
        <5> QED
          BY <5>1, <5>2, <5>3
      <4>2. CASE p \in Born
        <5>1. Kids(p) \cap freed = {} /\ linked[p] \notin freed
          BY <3>1, <4>2 DEF Forest, Living
        <5> QED
          BY <1>2, <2>1, <2>3, <2>4, <4>2, <5>1
      <4> QED
        BY <3>1, <4>1, <4>2
    <3>2. \A p \in freed : Kids(p)' \subseteq freed
      <4>1. \A p \in freed : p \in Nodes /\ p # n
        BY <2>1
      <4> QED
        BY <2>3, <4>1 DEF Forest, Living
    <3>3. \A p \in Nodes \ (Born \cup {Fresh}) : linked[p] = Null
      BY DEF Forest, Living
    <3> QED
      BY <1>1, <1>2, <3>1, <3>2, <3>3 DEF Living
  <2>12. Covered'
    <3>1. ASSUME NEW m \in Born', m \notin freed, Free(m)'
          PROVE  m = root \/ m \in Lost \/ OnStack(m)
      <4>1. m # Fresh
        BY <1>1, <2>4, <3>1 DEF Free
      <4>2. m \in Born /\ Free(m)
        BY <1>2, <2>7, <3>1, <4>1
      <4> QED
        BY <3>1, <4>2 DEF Forest, Covered
    <3> QED
      BY <1>1, <2>8, <3>1 DEF Covered
  <2> QED
    BY <2>5, <2>6, <2>9, <2>10, <2>11, <2>12 DEF Forest
<1> QED
  BY <1>5, <1>6

-----------------------------------------------------------------------------
(* The invariant. *)

LEMMA OwnInit == Init => OwnInv
<1> SUFFICES ASSUME Init PROVE OwnInv
  OBVIOUS
<1>1. /\ Born = {} /\ \A n \in Nodes : Kids(n) = {}
      /\ stack = <<>> /\ Len(stack) = 0 /\ root = Null /\ freed = {} /\ Lost = {}
      /\ pc = "parse" /\ orphans = {}
      /\ \A n \in Nodes : DOMAIN child[n] = {} /\ linked[n] = Null
  BY DEF Init, Born, Kids, Nothing, Lost
<1>2. Single /\ Ordered
  BY <1>1 DEF Single, Ordered
<1>3. Tops
  BY <1>1 DEF Tops
<1>4. LostTops /\ Living /\ Covered
  BY <1>1 DEF LostTops, Living, Covered
<1> QED
  BY <1>1, <1>2, <1>3, <1>4 DEF OwnInv, Forest, CorruptionNeedsMisuse, FreedExactly

LEMMA OwnStep == TypeInv /\ OwnInv /\ [Next]_vars => OwnInv'
<1> SUFFICES ASSUME TypeInv, OwnInv, [Next]_vars PROVE OwnInv'
  OBVIOUS
<1>1. CASE Parse
  <2>1. pc = "parse" /\ misused' = misused /\ pc' \in {"parse", "assign", "threw"}
        /\ (pc' = "threw" => root' = Null)
    BY <1>1 DEF Parse, Leaf, ParseScalar, UseScript, UseLink, UseRef, ParseList, ParseMap,
       ParseThrows, SetLink, Sum, ParseFile, ParseEmptyFile, ownerVars, parserVars, TypeInv,
       TablesInv
  <2>2. pc' # "threw" /\ ~misused' => Forest'
    BY <1>1, <2>1, ParseForest DEF OwnInv
  <2> QED
    BY <2>1, <2>2 DEF OwnInv, CorruptionNeedsMisuse, FreedExactly
<1>2. CASE Assign
  <2>1. pc = "assign" /\ misused' = misused /\ pc' \in {"assign", "built", "threw"}
    BY <1>2 DEF Assign, AttachOutput, AssignLinks, AssignThrows, ownerVars
  <2>2. pc' # "threw" /\ ~misused' => Forest'
    BY <1>2, <2>1, AssignForest DEF OwnInv
  <2>3. CASE pc' = "threw"
    <3>1. /\ freed' = freed \cup Subtree(root) /\ child' = child /\ kind' = kind
          /\ UNCHANGED <<orphans, dropped, outputs, root>>
      BY <1>2, <2>1, <2>3 DEF Assign, AttachOutput, AssignLinks, AssignThrows, parserVars, treeVars
    <3>2. root \in Born
      BY <2>1 DEF TypeInv, TablesInv
    <3>3. ~misused' => freed' = Born \ (orphans \cup
                                        UNION {Subtree(d) : d \in dropped \cup outputs})
      BY <2>1, <3>1, <3>2, Deleted DEF OwnInv
    <3>4. FreedExactly'
      BY <3>1, <3>3, SameTrees DEF FreedExactly
    <3> QED
      BY <2>1, <2>3, <3>4 DEF OwnInv, CorruptionNeedsMisuse
  <2> QED
    BY <2>1, <2>2, <2>3 DEF OwnInv, CorruptionNeedsMisuse, FreedExactly
<1>3. CASE Own
  <2>1. pc = "built" /\ root \in Born /\ (~misused => Forest)
    BY <1>3 DEF Own, Access, Remove, InsertNew, InsertNode, Destroy, OwnInv, TypeInv, TablesInv
  <2>2. \A n \in Containers : n \in Born \ freed /\ n \in Nodes /\ kind[n] \in {"list", "map"}
    BY <2>1, HeldBorn, KidFacts DEF Containers
  <2>3. ASSUME NEW n \in Nodes, NEW s \in Selectors, Access(n, s)
        PROVE  OwnInv'
    <3>1. /\ n \in Containers /\ At(n, s) # Null /\ pc' = "resolve" /\ cur' = At(n, s)
          /\ UNCHANGED <<parserVars, treeVars, freed, orphans, misused>>
      BY <2>3 DEF Access
    <3>2. At(n, s) \in Kids(n)
      BY <3>1 DEF At, Kids
    <3>3. ~misused' => Forest'
      <4>1. SUFFICES ASSUME ~misused PROVE Forest'
        BY <3>1
      <4>2. cur' \notin freed
        BY <2>1, <2>2, <3>1, <3>2, <4>1 DEF Forest, Living
      <4>3. Single' /\ Ordered' /\ Tops' /\ LostTops' /\ Covered'
        BY <2>1, <3>1, <4>1 DEF parserVars, treeVars, Forest, Single, Ordered, Tops, LostTops,
           Covered, Free, OnStack, Lost, Kids, Born
      <4>4. Living'
        BY <2>1, <3>1, <4>1, <4>2 DEF treeVars, Forest, Living, Kids, Born
      <4> QED
        BY <4>3, <4>4 DEF Forest
    <3> QED
      BY <3>1, <3>3 DEF OwnInv, CorruptionNeedsMisuse, FreedExactly
  <2>4. ASSUME NEW n \in Nodes, NEW s \in Selectors, Remove(n, s)
        PROVE  OwnInv'
    <3>1. /\ n \in Containers /\ pc' \in {"built", "corrupt"} /\ (misused => misused')
      BY <2>1, <2>4 DEF Remove
    <3>2. ~misused' => pc' = "built" /\ Forest'
      BY <2>1, <2>2, <2>4, <3>1, RemoveForest
    <3> QED
      BY <3>1, <3>2 DEF OwnInv, CorruptionNeedsMisuse, FreedExactly
  <2>5. ASSUME NEW n \in Nodes, NEW s \in Selectors, InsertNew(n, s)
        PROVE  OwnInv'
    <3>1. n \in Containers /\ pc' = "built" /\ misused' = misused
      BY <2>1, <2>5 DEF InsertNew
    <3>2. ~misused' => Forest'
      BY <2>1, <2>2, <2>5, <3>1, InsertForest
    <3> QED
      BY <3>1, <3>2 DEF OwnInv, CorruptionNeedsMisuse, FreedExactly
  <2>6. ASSUME NEW n \in Nodes, NEW e \in Nodes, NEW s \in Selectors, InsertNode(n, s, e)
        PROVE  OwnInv'
    <3>1. /\ pc' = "built" /\ UNCHANGED <<parserVars, kind, linked, cur, freed, orphans>>
          /\ (~misused' => ~misused /\ child' = child)
      BY <2>1, <2>6 DEF InsertNode
    <3>2. ~misused' => Forest'
      BY <2>1, <3>1 DEF parserVars, Forest, Single, Ordered, Tops, LostTops, Living,
         Covered, Free, OnStack, Lost, Kids, Born
    <3> QED
      BY <3>1, <3>2 DEF OwnInv, CorruptionNeedsMisuse, FreedExactly
  <2>7. CASE Destroy
    <3>1. /\ pc' = IF DeletesTwice(root) THEN "corrupt" ELSE "destroyed"
          /\ freed' = freed \cup Subtree(root) /\ child' = child /\ kind' = kind
          /\ UNCHANGED <<orphans, dropped, outputs, root, misused>>
      BY <2>7 DEF Destroy, parserVars, treeVars
    <3>2. ASSUME ~misused
          PROVE  pc' = "destroyed" /\ FreedExactly'
      <4>1. root \in Nodes /\ root # Null /\ \A p \in Nodes : Kids(p) \subseteq Nodes
        BY <2>1, KidFacts, MaxNodesAssumption DEF Nodes, Null
      <4>2. root \in Born \ freed /\ Free(root)
        BY <2>1, <3>2, <4>1 DEF Forest, Tops
      <4>3. \A o \in Subtree(root) : root \notin Kids(o)
        BY <4>1, <4>2, SubtreeClosed DEF Free
      <4>4. ~DeletesTwice(root)
        BY <2>1, <3>2, <4>2, <4>3, NotTwice DEF Forest
      <4>5. freed' = Born \ (orphans \cup UNION {Subtree(d) : d \in dropped \cup outputs})
        BY <2>1, <3>1, <3>2, Deleted
      <4> QED
        BY <3>1, <4>4, <4>5, SameTrees DEF FreedExactly
    <3> QED
      BY <3>1, <3>2 DEF OwnInv, CorruptionNeedsMisuse, FreedExactly
  <2> QED
    BY <1>3, <2>3, <2>4, <2>5, <2>6, <2>7 DEF Own
<1>4. CASE Resolve
  <2>1. /\ pc = "resolve" /\ (~misused => Forest)
        /\ UNCHANGED <<parserVars, treeVars, freed, orphans, misused>>
        /\ pc' \in {"corrupt", "resolve", "built"}
        /\ pc' = "corrupt" => cur \in freed
        /\ pc' = "resolve" => cur \notin freed /\ cur' = linked[cur]
    BY <1>4 DEF Resolve, ResolveFreed, ResolveHop, ResolveEnd, Hop, ownerVars, OwnInv
  <2>2. pc' = "corrupt" => misused'
    BY <2>1 DEF Forest, Living
  <2>3. ASSUME ~misused, pc' # "corrupt"
        PROVE  Forest'
    <3>1. pc' = "resolve" => cur' \notin freed
      BY <2>1, <2>3 DEF Forest, Living, TypeInv, TablesInv
    <3>2. Single' /\ Ordered' /\ Tops' /\ LostTops' /\ Covered'
      BY <2>1, <2>3 DEF parserVars, treeVars, Forest, Single, Ordered, Tops, LostTops,
         Covered, Free, OnStack, Lost, Kids, Born
    <3>3. Living'
      BY <2>1, <2>3, <3>1 DEF treeVars, Forest, Living, Kids, Born
    <3> QED
      BY <3>2, <3>3 DEF Forest
  <2> QED
    BY <2>1, <2>2, <2>3 DEF OwnInv, CorruptionNeedsMisuse, FreedExactly
<1>5. CASE UNCHANGED vars
  <2>1. UNCHANGED <<pc, kind, child, linked, stack, root, cur, freed, dropped, orphans, outputs,
                    misused>>
    BY <1>5 DEF vars, parserVars, treeVars, ownerVars
  <2>2. Forest => Forest'
    BY <2>1 DEF Forest, Single, Ordered, Tops, LostTops, Living, Covered, Free, OnStack, Lost,
       Kids, Born
  <2>3. FreedExactly'
    BY <2>1, SameTrees DEF OwnInv, FreedExactly
  <2> QED
    BY <2>1, <2>2, <2>3 DEF OwnInv, CorruptionNeedsMisuse
<1> QED
  BY <1>1, <1>2, <1>3, <1>4, <1>5 DEF Next

LEMMA OwnedOnce == Spec => []OwnInv
BY TypeInit, TypeStep, OwnInit, OwnStep, PTL DEF Spec

(* However large the document and however often the owner changes it, no    *)
(* node is deleted twice and no deleted node is read, unless the owner put  *)
(* a node into two places or cut off what a link points at.                 *)
THEOREM DeletionIsSafe == Spec => []CorruptionNeedsMisuse
<1>1. OwnInv => CorruptionNeedsMisuse
  BY DEF OwnInv
<1> QED
  BY <1>1, OwnedOnce, PTL

(* Deleting the root deletes the whole document but for what sums dropped,  *)
(* what a map did not take and what scripts put out, for every document.    *)
THEOREM DeletionIsExact == Spec => []FreedExactly
<1>1. OwnInv => FreedExactly
  BY DEF OwnInv
<1> QED
  BY <1>1, OwnedOnce, PTL
=============================================================================
