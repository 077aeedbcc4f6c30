---------------------------- MODULE NodeTree_proofs ----------------------------
(***************************************************************************)
(* Proofs about NodeTree for documents of any size and any number of       *)
(* changes by the owner.                                                   *)
(***************************************************************************)
EXTENDS NodeTree, FiniteSetTheorems, WellFoundedInduction, SequenceTheorems, TLAPS

(* Nodes are numbered without gaps. *)
Numbered ==
    /\ Fresh \in Nat \ {0}
    /\ \A n \in Nodes : n \in Born <=> n < Fresh

(* What TypeOK leaves open of the tables, and the phases of the root. *)
TablesInv ==
    /\ Numbered
    /\ DOMAIN child = Nodes
    /\ \A n \in Nodes : linked[n] \in Born \cup {Null}
    /\ \A x \in DOMAIN links_ : links_[x] \in Born
    /\ \A l \in DOMAIN references_ : references_[l] \in Paths
    /\ pc = "parse" => root = Null
    /\ pc \in {"assign", "built", "resolve"} => root \in Born
    /\ pc \in {"parse", "assign"} => freed = {}
    /\ pc = "resolve" => cur \in Born

TypeInv == TypeOK /\ TablesInv

-----------------------------------------------------------------------------
(* Allocation. *)

LEMMA NewNode ==
    ASSUME TypeInv, NEW k \in Kinds, New(k)
    PROVE  /\ Fresh \in Nodes /\ Fresh \notin Born
           /\ Born' = Born \cup {Fresh}
           /\ Numbered'
           /\ kind' \in [Nodes -> Kinds \cup {"unborn"}]
           /\ kind'[Fresh] = k
           /\ \A m \in Nodes : m # Fresh => kind'[m] = kind[m]
<1>1. /\ Fresh \in Nodes /\ Fresh \in Nat \ {0} /\ Fresh <= MaxNodes
      /\ \A n \in Nodes : n \in Born <=> n < Fresh
  BY MaxNodesAssumption DEF TypeInv, TablesInv, Numbered, New, Nodes
<1>2. Fresh \notin Born
  BY <1>1
<1>3. /\ kind' \in [Nodes -> Kinds \cup {"unborn"}]
      /\ kind'[Fresh] = k
      /\ \A m \in Nodes : m # Fresh => kind'[m] = kind[m]
  BY <1>1 DEF New, TypeInv, TypeOK
<1>4. Born' = Born \cup {Fresh}
  BY <1>1, <1>3 DEF Born, Kinds
<1>5. Born' = 1..Fresh
  BY <1>1, <1>4, MaxNodesAssumption DEF Nodes, Born
<1>6. Cardinality(Born') = Fresh
  BY <1>1, <1>5, FS_Interval
<1>7. Fresh' = Fresh + 1
  BY <1>6 DEF Fresh
<1>8. Numbered'
  BY <1>1, <1>4, <1>5, <1>7, MaxNodesAssumption DEF Numbered, Nodes
<1> QED
  BY <1>1, <1>2, <1>3, <1>4, <1>8

(* A node that is not touched keeps its form. *)
LEMMA SameNode ==
    ASSUME NEW n \in Nodes, WellFormed(n), child'[n] = child[n], kind'[n] = kind[n],
           Born \subseteq Born'
    PROVE  WellFormed(n)'
BY DEF WellFormed, Kids

(* A new leaf is well formed, and so is the rest of the tree. *)
LEMMA NewLeaf ==
    ASSUME TypeInv, NEW k \in Kinds \ {"list", "map"}, New(k), child' = child
    PROVE  \A n \in Nodes : WellFormed(n)'
<1>1. /\ Fresh \in Nodes /\ Fresh \notin Born
      /\ Born' = Born \cup {Fresh}
      /\ kind'[Fresh] = k
      /\ \A m \in Nodes : m # Fresh => kind'[m] = kind[m]
  BY NewNode
<1>2. ASSUME NEW n \in Nodes, n # Fresh
      PROVE  WellFormed(n)'
  BY <1>1, <1>2, SameNode DEF TypeInv, TypeOK
<1>3. kind[Fresh] = "unborn"
  BY <1>1 DEF Born
<1>4. child[Fresh] = Nothing
  BY <1>1, <1>3 DEF TypeInv, TypeOK, WellFormed
<1>5. DOMAIN Nothing = {}
  BY DEF Nothing
<1>6. ASSUME NEW n \in Nodes, n = Fresh
      PROVE  WellFormed(n)'
  <2>1. /\ child'[n] = Nothing /\ DOMAIN child'[n] = {}
        /\ kind'[n] \notin {"list", "map"}
    BY <1>1, <1>4, <1>5, <1>6
  <2> QED
    BY <2>1 DEF WellFormed, Kids
<1> QED
  BY <1>2, <1>6

(* A list's indices are the first numbers. *)
LEMMA FirstIndices ==
    ASSUME NEW D
    PROVE  D = {i \in Nat : i < Cardinality(D)} \cap Indices
              <=> \E c \in 0..(MaxNodes + 1) : D = 0..(c - 1)
<1>0. MaxNodes \in Nat
  BY MaxNodesAssumption
<1>1. ASSUME NEW c \in 0..(MaxNodes + 1), D = 0..(c - 1)
      PROVE  D = {i \in Nat : i < Cardinality(D)} \cap Indices
  <2>1. Cardinality(D) = c
    BY <1>0, <1>1, FS_Interval
  <2> QED
    BY <1>0, <1>1, <2>1 DEF Indices
<1>2. ASSUME D = {i \in Nat : i < Cardinality(D)} \cap Indices
      PROVE  \E c \in 0..(MaxNodes + 1) : D = 0..(c - 1)
  <2>1. IsFiniteSet(Indices)
    BY <1>0, FS_Interval DEF Indices
  <2>2. PICK c \in Nat : D = {i \in Nat : i < c} \cap (0..MaxNodes)
    BY <1>2, <2>1, FS_Subset, FS_CardinalityType DEF Indices
  <2>3. CASE c <= MaxNodes + 1
    <3>1. D = 0..(c - 1)
      BY <1>0, <2>2, <2>3
    <3> QED
      BY <2>3, <3>1, <1>0
  <2>4. CASE c > MaxNodes + 1
    <3>1. D = 0..((MaxNodes + 1) - 1)
      BY <1>0, <2>2, <2>4
    <3> QED
      BY <3>1, <1>0
  <2> QED
    BY <2>2, <2>3, <2>4, <1>0
<1> QED
  BY <1>1, <1>2

(* The last k values of the stack and what is under them. *)
LEMMA StackParts ==
    ASSUME NEW S, stack \in Seq(S), NEW k \in 0..Len(stack)
    PROVE  /\ Len(stack) \in Nat
           /\ Under(k) \in Seq(S) /\ Len(Under(k)) = Len(stack) - k
           /\ \A i \in 1..(Len(stack) - k) : Under(k)[i] = stack[i]
           /\ Popped(k) \in Seq(S) /\ Len(Popped(k)) = k
           /\ \A i \in 1..k : /\ Popped(k)[i] = stack[Len(stack) - k + i]
                              /\ Popped(k)[i] \in S
<1>1. Len(stack) \in Nat /\ \A i \in 1..Len(stack) : stack[i] \in S
  BY LenProperties, ElementOfSeq
<1>2. /\ Under(k) \in Seq(S) /\ Len(Under(k)) = Len(stack) - k
      /\ \A i \in 1..(Len(stack) - k) : Under(k)[i] = stack[i]
  BY <1>1 DEF Under
<1>3. /\ Popped(k) \in Seq(S) /\ Len(Popped(k)) = k
      /\ \A i \in 1..k : Popped(k)[i] = stack[Len(stack) - k + i]
  BY <1>1 DEF Popped
<1> QED
  BY <1>1, <1>2, <1>3

(* A new list or map of what was on the stack. *)
LEMMA NewContainer ==
    ASSUME TypeInv, NEW k \in {"list", "map"}, New(k), NEW STATE g,
           child' = [child EXCEPT ![Fresh] = g],
           DOMAIN g \subseteq Selectors, \A s \in DOMAIN g : g[s] \in Born,
           k = "list" => \E c \in 0..(MaxNodes + 1) : DOMAIN g = 0..(c - 1),
           k = "map" => DOMAIN g \subseteq Keys
    PROVE  \A n \in Nodes : WellFormed(n)'
<1>1. /\ Fresh \in Nodes /\ Fresh \notin Born
      /\ Born' = Born \cup {Fresh}
      /\ kind'[Fresh] = k
      /\ \A m \in Nodes : m # Fresh => kind'[m] = kind[m]
  BY NewNode DEF Kinds
<1>2. /\ child'[Fresh] = g
      /\ \A n \in Nodes : n # Fresh => child'[n] = child[n]
  BY <1>1 DEF TypeInv, TablesInv
<1>3. ASSUME NEW n \in Nodes, n # Fresh
      PROVE  WellFormed(n)'
  BY <1>1, <1>2, <1>3, SameNode DEF TypeInv, TypeOK
<1>4. k = "list" => DOMAIN g = {i \in Nat : i < Cardinality(DOMAIN g)} \cap Indices
  BY FirstIndices
<1>5. ASSUME NEW n \in Nodes, n = Fresh
      PROVE  WellFormed(n)'
  <2>1. child'[n] = g /\ kind'[n] = k /\ Born \subseteq Born'
    BY <1>1, <1>2, <1>5
  <2> QED
    BY <1>4, <2>1 DEF WellFormed, Kids
<1> QED
  BY <1>3, <1>5

(* A list or a map with other children. *)
LEMMA ChangedNode ==
    ASSUME TypeInv, NEW n \in Nodes, kind[n] \in {"list", "map"}, kind' = kind, NEW STATE g,
           child' = [child EXCEPT ![n] = g],
           DOMAIN g \subseteq Selectors, \A s \in DOMAIN g : g[s] \in Born,
           kind[n] = "list" => \E c \in 0..(MaxNodes + 1) : DOMAIN g = 0..(c - 1),
           kind[n] = "map" => DOMAIN g \subseteq Keys
    PROVE  \A m \in Nodes : WellFormed(m)'
<1>1. /\ child'[n] = g
      /\ \A m \in Nodes : m # n => child'[m] = child[m]
  BY DEF TypeInv, TablesInv
<1>2. Born' = Born
  BY DEF Born
<1>3. ASSUME NEW m \in Nodes, m # n
      PROVE  WellFormed(m)'
  BY <1>1, <1>2, <1>3, SameNode DEF TypeInv, TypeOK
<1>4. kind[n] = "list" => DOMAIN g = {i \in Nat : i < Cardinality(DOMAIN g)} \cap Indices
  BY FirstIndices
<1>5. WellFormed(n)'
  BY <1>1, <1>2, <1>4 DEF WellFormed, Kids
<1> QED
  BY <1>3, <1>5

(* What erasing and inserting do to the children. *)
LEMMA ErasedForm ==
    ASSUME TypeInv, NEW n \in Nodes, kind[n] \in {"list", "map"}, NEW s \in DOMAIN child[n]
    PROVE  LET g == Erased(n, s) IN
           /\ DOMAIN g \subseteq Selectors /\ \A t \in DOMAIN g : g[t] \in Born
           /\ kind[n] = "list" => \E c \in 0..(MaxNodes + 1) : DOMAIN g = 0..(c - 1)
           /\ kind[n] = "map" => DOMAIN g \subseteq Keys
<1>0. MaxNodes \in Nat /\ WellFormed(n)
  BY MaxNodesAssumption DEF TypeInv, TypeOK
<1>1. CASE kind[n] = "map"
  BY <1>0, <1>1 DEF WellFormed, Kids, Erased, Without
<1>2. CASE kind[n] = "list"
  <2>1. PICK c \in 0..(MaxNodes + 1) : DOMAIN child[n] = 0..(c - 1)
    BY <1>0, <1>2, FirstIndices DEF WellFormed
  <2>2. s \in 0..(c - 1) /\ c > 0
    BY <1>0, <2>1
  <2>3. DOMAIN Erased(n, s) = 0..((c - 1) - 1)
    <3>1. {j \in Indices : j + 1 \in DOMAIN child[n]} = 0..((c - 1) - 1)
      BY <1>0, <2>1 DEF Indices
    <3> QED
      BY <1>2, <3>1 DEF Erased
  <2>4. \A t \in DOMAIN Erased(n, s) :
           \E u \in DOMAIN child[n] : Erased(n, s)[t] = child[n][u]
    <3>1. ASSUME NEW t \in DOMAIN Erased(n, s)
          PROVE  /\ t \in DOMAIN child[n] /\ t + 1 \in DOMAIN child[n]
                 /\ Erased(n, s)[t] = IF t < s THEN child[n][t] ELSE child[n][t + 1]
      <4>1. t \in Indices /\ t + 1 \in DOMAIN child[n]
        BY <1>2, <3>1 DEF Erased
      <4>2. t \in DOMAIN child[n]
        BY <1>0, <2>1, <4>1 DEF Indices
      <4> QED
        BY <1>2, <4>1, <4>2 DEF Erased
    <3> QED
      BY <3>1
  <2>5. 0..((c - 1) - 1) \subseteq Selectors /\ c - 1 \in 0..(MaxNodes + 1)
    BY <1>0, <2>2 DEF Selectors, Indices
  <2> QED
    BY <1>0, <1>2, <2>3, <2>4, <2>5 DEF WellFormed, Kids
<1> QED
  BY <1>1, <1>2

LEMMA PutForm ==
    ASSUME TypeInv, NEW n \in Nodes, kind[n] \in {"list", "map"}, NEW i \in Places(n), NEW e
    PROVE  LET g == Put(n, i, e) IN
           /\ DOMAIN g \subseteq Selectors /\ \A t \in DOMAIN g : g[t] \in Born \cup {e}
           /\ kind[n] = "list" => \E c \in 0..(MaxNodes + 1) : DOMAIN g = 0..(c - 1)
           /\ kind[n] = "map" => DOMAIN g \subseteq Keys
<1>0. MaxNodes \in Nat /\ WellFormed(n)
  BY MaxNodesAssumption DEF TypeInv, TypeOK
<1>1. CASE kind[n] = "map"
  <2>1. i \in Keys
    BY <1>1 DEF Places
  <2> QED
    BY <1>0, <1>1, <2>1 DEF WellFormed, Kids, Put, Inserted, With, Selectors
<1>2. CASE kind[n] = "list"
  <2>1. PICK c \in 0..(MaxNodes + 1) : DOMAIN child[n] = 0..(c - 1)
    BY <1>0, <1>2, FirstIndices DEF WellFormed
  <2>2. Cardinality(DOMAIN child[n]) = c
    BY <1>0, <2>1, FS_Interval
  <2>3. i \in 0..c /\ c < MaxNodes /\ c \in Nat
    BY <1>0, <1>2, <2>2 DEF Places
  <2>4. DOMAIN Put(n, i, e) = 0..((c + 1) - 1)
    BY <1>2, <2>1, <2>2, <2>3 DEF Put
  <2>5. \A t \in DOMAIN Put(n, i, e) :
           Put(n, i, e)[t] = IF t < i THEN child[n][t] ELSE IF t = i THEN e ELSE child[n][t - 1]
    BY <1>2 DEF Put
  <2>6. \A t \in DOMAIN Put(n, i, e) :
           /\ t < i => t \in DOMAIN child[n]
           /\ ~(t < i) /\ t # i => t - 1 \in DOMAIN child[n]
    BY <2>1, <2>3, <2>4
  <2>7. 0..((c + 1) - 1) \subseteq Selectors /\ c + 1 \in 0..(MaxNodes + 1)
    BY <1>0, <2>3 DEF Selectors, Indices
  <2> QED
    BY <1>0, <1>2, <2>4, <2>5, <2>6, <2>7 DEF WellFormed, Kids
<1> QED
  BY <1>1, <1>2

-----------------------------------------------------------------------------
(* Subtrees: the least set with n that has the children of its members. *)

LEMMA SubtreeLeast ==
    ASSUME NEW n \in Nodes, NEW S \in SUBSET Nodes, n \in S, \A p \in S : Kids(p) \subseteq S
    PROVE  Subtree(n) \subseteq S
BY DEF Subtree, Closure

LEMMA SubtreeClosed ==
    ASSUME \A p \in Nodes : Kids(p) \subseteq Nodes, NEW n \in Nodes
    PROVE  /\ n \in Subtree(n) /\ Subtree(n) \subseteq Nodes
           /\ \A p \in Subtree(n) : Kids(p) \subseteq Subtree(n)
BY DEF Subtree, Closure

(* Whoever is in a subtree is its root or the child of one in it. *)
LEMMA SubtreeParents ==
    ASSUME \A p \in Nodes : Kids(p) \subseteq Nodes,
           NEW n \in Nodes, NEW m \in Subtree(n), m # n
    PROVE  \E p \in Subtree(n) : m \in Kids(p)
<1> DEFINE S == {x \in Subtree(n) : x = n \/ \E p \in Subtree(n) : x \in Kids(p)}
<1>1. S \in SUBSET Nodes /\ n \in S /\ \A p \in S : Kids(p) \subseteq S
  BY SubtreeClosed
<1>2. m \in S
  BY <1>1, SubtreeLeast
<1> QED
  BY <1>2

(* Subtrees consist of nodes. *)
LEMMA SubtreeBorn ==
    ASSUME TypeInv, NEW n \in Born
    PROVE  n \in Nodes /\ Subtree(n) \subseteq Born
<1>1. Born \in SUBSET Nodes /\ \A p \in Born : Kids(p) \subseteq Born
  BY DEF TypeInv, TypeOK, WellFormed, Born
<1> QED
  BY <1>1, SubtreeLeast

(* So does everything the owner may hold. *)
LEMMA HeldBorn ==
    ASSUME TypeInv, root \in Born
    PROVE  Held \subseteq Born /\ Held \cap freed = {}
<1> DEFINE next == [m \in Nodes |-> Kids(m) \cup ({linked[m]} \ {Null})]
<1>1. Born \in SUBSET Nodes /\ \A p \in Born : next[p] \subseteq Born
  BY DEF TypeInv, TypeOK, TablesInv, WellFormed, Born
<1> HIDE DEF next
<1>2. Closure(root, next) \subseteq Born
  BY <1>1 DEF Closure
<1>3. Reach(root) \subseteq Born
  BY <1>2 DEF Reach, next
<1> QED
  BY <1>3 DEF Held

-----------------------------------------------------------------------------
(* A path leads to a node or nowhere. *)

(* A property that holds at 0 and goes from each number to the next one     *)
(* holds up to any number, stated for a set of numbers.                     *)
LEMMA UpTo ==
    ASSUME NEW k \in Nat, NEW S, 0 \in S, \A i \in 0..(k - 1) : i \in S => i + 1 \in S
    PROVE  0..k \subseteq S
<1> DEFINE L == {i \in 0..k : i \notin S}
<1> SUFFICES ASSUME L # {} PROVE FALSE
  OBVIOUS
<1>1. L \subseteq Nat
  OBVIOUS
<1>2. PICK t \in L : \A u \in L : <<u, t>> \notin OpToRel(<, Nat)
  BY <1>1, NatLessThanWellFounded, WFMin
<1>3. t \in Nat /\ t # 0 /\ t <= k /\ t \notin S
  OBVIOUS
<1>4. t - 1 \in 0..(k - 1) /\ t - 1 \in Nat /\ t - 1 < t
  BY <1>3
<1>5. t - 1 \notin L
  BY <1>1, <1>2, <1>4 DEF OpToRel
<1>6. t - 1 \in S
  BY <1>4, <1>5
<1> QED
  BY <1>3, <1>4, <1>6

LEMMA DigType ==
    ASSUME TypeInv, root \in Born, NEW path \in Paths
    PROVE  Dig(path) \in Born \cup {Null}
<1> DEFINE Place == Born \cup {Null}
           Next1(r, i) == IF r = Null THEN Null ELSE At(r, path[i])
           Dug(f, k) == f = [i \in 0..k |-> IF i = 0 THEN root ELSE Next1(f[i - 1], i)]
<1>0. Len(path) \in Nat
  BY PathsAssumption
<1>1. \A r \in Place, i \in Nat : Next1(r, i) \in Place
  <2>1. \A r \in Born : r \in Nodes /\ Kids(r) \subseteq Born
    BY DEF TypeInv, TypeOK, WellFormed, Born
  <2> QED
    BY <2>1 DEF At, Kids
<1> HIDE DEF Next1
<1>2. \E f : Dug(f, Len(path))
  <2> DEFINE S == {k \in Nat : \E f : Dug(f, k)}
  <2>1. 0 \in S
    <3>1. Dug([i \in 0..0 |-> root], 0)
      OBVIOUS
    <3> QED
      BY <3>1
  <2>2. ASSUME NEW k \in 0..(Len(path) - 1), k \in S
        PROVE  k + 1 \in S
    <3>1. PICK f : Dug(f, k)
      BY <2>2
    <3> DEFINE g == [i \in 0..(k + 1) |-> IF i <= k THEN f[i] ELSE Next1(f[k], k + 1)]
    <3>2. k \in Nat
      BY <1>0
    <3>3. ASSUME NEW i \in 0..(k + 1)
          PROVE  g[i] = IF i = 0 THEN root ELSE Next1(g[i - 1], i)
      <4>1. CASE i = 0
        BY <3>1, <3>2, <4>1
      <4>2. CASE i # 0 /\ i <= k
        <5>1. g[i] = f[i] /\ i - 1 \in 0..k /\ i \in 0..k /\ i - 1 \in 0..(k + 1) /\ i - 1 <= k
          BY <3>2, <4>2
        <5>2. g[i - 1] = f[i - 1]
          BY <5>1
        <5>3. f[i] = Next1(f[i - 1], i)
          BY <3>1, <4>2, <5>1
        <5> QED
          BY <4>2, <5>1, <5>2, <5>3
      <4>3. CASE i = k + 1
        BY <3>2, <4>3
      <4> QED
        BY <3>2, <4>1, <4>2, <4>3
    <3>4. Dug(g, k + 1)
      BY <3>3
    <3> HIDE DEF g, Dug
    <3>5. \E h : Dug(h, k + 1)
      BY <3>4
    <3> QED
      BY <3>2, <3>5
  <2> HIDE DEF S
  <2>3. 0..Len(path) \subseteq S
    BY <1>0, <2>1, <2>2, UpTo
  <2> QED
    BY <1>0, <2>3 DEF S
<1> DEFINE reached == CHOOSE f : Dug(f, Len(path))
<1>3. Dug(reached, Len(path))
  BY <1>2
<1>4. Dig(path) = reached[Len(path)]
  BY DEF Dig, Next1
<1> HIDE DEF reached
<1>5. \A i \in 0..Len(path) : reached[i] \in Place
  <2> DEFINE S == {i \in 0..Len(path) : reached[i] \in Place}
  <2>1. 0 \in S
    BY <1>0, <1>3
  <2>2. ASSUME NEW i \in 0..(Len(path) - 1), i \in S
        PROVE  i + 1 \in S
    <3>1. i + 1 \in 0..Len(path) /\ (i + 1) - 1 = i /\ i + 1 # 0 /\ i + 1 \in Nat
      BY <1>0
    <3>2. reached[i + 1] = Next1(reached[i], i + 1)
      BY <1>3, <3>1
    <3> QED
      BY <1>1, <2>2, <3>1, <3>2
  <2> HIDE DEF S
  <2>3. 0..Len(path) \subseteq S
    BY <1>0, <2>1, <2>2, UpTo
  <2> QED
    BY <2>3 DEF S
<1> QED
  BY <1>0, <1>4, <1>5

-----------------------------------------------------------------------------
(* Types. *)

LEMMA TypeInit == Init => TypeInv
<1> SUFFICES ASSUME Init PROVE TypeInv
  OBVIOUS
<1>0. MaxNodes \in Nat \ {0} /\ MaxEdits \in Nat
  BY MaxNodesAssumption, MaxEditsAssumption
<1>1. Born = {}
  BY DEF Init, Born
<1>2. Fresh = 1
  BY <1>1, FS_EmptySet DEF Fresh
<1>3. Numbered
  BY <1>0, <1>1, <1>2 DEF Numbered, Nodes
<1>4. DOMAIN Nothing = {} /\ <<>> \in Seq(Born)
  BY DEF Nothing
<1>5. \A n \in Nodes : WellFormed(n)
  BY <1>4 DEF Init, WellFormed, Kids
<1>6. TablesInv
  BY <1>3, <1>4 DEF Init, TablesInv
<1>7. TypeOK
  <2>1. kind \in [Nodes -> Kinds \cup {"unborn"}] /\ linked \in [Nodes -> Nodes \cup {Null}]
    BY DEF Init
  <2>2. edits \in 0..MaxEdits
    BY <1>0 DEF Init
  <2>3. DOMAIN linked_nodes_ \cup DOMAIN references_ \subseteq {n \in Born : kind[n] = "link"}
    BY <1>4 DEF Init
  <2>4. root \in Nodes \cup {Null} /\ cur \in Nodes \cup {Null} /\ stack \in Seq(Born)
    BY <1>4 DEF Init
  <2> QED
    BY <1>4, <1>5, <2>1, <2>2, <2>3, <2>4 DEF Init, TypeOK
<1> QED
  BY <1>6, <1>7 DEF TypeInv

(* The reductions that put a new leaf on the stack. *)
LEMMA LeafStep ==
    ASSUME TypeInv, NEW k \in Kinds \ {"list", "map"}, Leaf(k),
           UNCHANGED <<pc, child, linked, named, links_, root, dropped, outputs, ownerVars>>,
           \/ linked_nodes_' = linked_nodes_
           \/ k = "link" /\ \E name \in Names : linked_nodes_' = With(linked_nodes_, Fresh, name),
           \/ references_' = references_
           \/ k = "link" /\ \E path \in Paths : references_' = With(references_, Fresh, path)
    PROVE  TypeInv'
<1>1. /\ Fresh \in Nodes /\ Fresh \notin Born
      /\ Born' = Born \cup {Fresh}
      /\ Numbered'
      /\ kind' \in [Nodes -> Kinds \cup {"unborn"}]
      /\ kind'[Fresh] = k
      /\ \A m \in Nodes : m # Fresh => kind'[m] = kind[m]
  BY NewNode DEF Leaf
<1>2. \A n \in Nodes : WellFormed(n)'
  BY NewLeaf DEF Leaf
<1>3. stack' \in Seq(Born')
  <2>1. stack \in Seq(Born') /\ Fresh \in Born'
    BY <1>1, SeqMonotonic DEF TypeInv, TypeOK
  <2>2. stack' = Append(stack, Fresh)
    BY DEF Leaf
  <2> QED
    BY <2>1, <2>2
<1>4. DOMAIN linked_nodes_' \cup DOMAIN references_' \subseteq {n \in Born' : kind'[n] = "link"}
  <2>1. \A n \in Born : n \in Nodes /\ n # Fresh
    BY <1>1 DEF Born
  <2> QED
    BY <1>1, <2>1 DEF TypeInv, TypeOK, With
<1>5. \A l \in DOMAIN references_' : references_'[l] \in Paths
  BY <1>1 DEF TypeInv, TablesInv, With
<1> QED
  BY <1>1, <1>2, <1>3, <1>4, <1>5
  DEF TypeInv, TypeOK, TablesInv, ownerVars, Leaf

(* The reductions that make a list or a map of the last values. *)
LEMMA ContainerStep ==
    ASSUME TypeInv, NEW k \in {"list", "map"}, New(k), pc = "parse", NEW STATE g,
           NEW j \in 0..Len(stack),
           child' = [child EXCEPT ![Fresh] = g],
           stack' = Append(Under(j), Fresh),
           DOMAIN g \subseteq Selectors, \A s \in DOMAIN g : g[s] \in Born,
           k = "list" => \E c \in 0..(MaxNodes + 1) : DOMAIN g = 0..(c - 1),
           k = "map" => DOMAIN g \subseteq Keys,
           UNCHANGED <<pc, linked, named, links_, linked_nodes_, references_, root, dropped,
                       outputs, firstNamed, ownerVars>>
    PROVE  TypeInv'
<1>1. /\ Fresh \in Nodes /\ Fresh \notin Born
      /\ Born' = Born \cup {Fresh}
      /\ Numbered'
      /\ kind' \in [Nodes -> Kinds \cup {"unborn"}]
      /\ \A m \in Nodes : m # Fresh => kind'[m] = kind[m]
  BY NewNode DEF Kinds
<1>2. \A n \in Nodes : WellFormed(n)'
  BY NewContainer
<1>3. stack' \in Seq(Born')
  <2>1. Under(j) \in Seq(Born)
    BY StackParts DEF TypeInv, TypeOK
  <2>2. Under(j) \in Seq(Born') /\ Fresh \in Born'
    BY <1>1, <2>1, SeqMonotonic
  <2> QED
    BY <2>2
<1>4. DOMAIN linked_nodes_' \cup DOMAIN references_' \subseteq {n \in Born' : kind'[n] = "link"}
  <2>1. \A n \in Born : n \in Nodes /\ n # Fresh
    BY <1>1 DEF Born
  <2> QED
    BY <1>1, <2>1 DEF TypeInv, TypeOK
<1> QED
  BY <1>1, <1>2, <1>3, <1>4 DEF TypeInv, TypeOK, TablesInv, ownerVars

(* The elements of a list are those popped, and so are the values of a map. *)
LEMMA ListForm ==
    ASSUME TypeInv, NEW k \in 0..MaxItems, ParseList(k)
    PROVE  LET g == [i \in 0..(k - 1) |-> Popped(k)[i + 1]] IN
           /\ k \in 0..Len(stack)
           /\ DOMAIN g \subseteq Selectors
           /\ \E c \in 0..(MaxNodes + 1) : DOMAIN g = 0..(c - 1)
           /\ \A i \in DOMAIN g : i + 1 \in 1..k /\ g[i] = Popped(k)[i + 1] /\ g[i] \in Born
<1> DEFINE g == [i \in 0..(k - 1) |-> Popped(k)[i + 1]]
<1>0. MaxNodes \in Nat /\ Len(stack) \in Nat /\ k \in 0..MaxNodes
  BY MaxNodesAssumption, MaxItemsAssumption, LenProperties DEF TypeInv, TypeOK
<1>1. k \in 0..Len(stack)
  BY <1>0 DEF ParseList
<1>2. \A i \in 1..k : Popped(k)[i] \in Born
  BY <1>1, StackParts DEF TypeInv, TypeOK
<1>3. k \in 0..(MaxNodes + 1) /\ DOMAIN g = 0..(k - 1)
  BY <1>0
<1>4. \A i \in DOMAIN g : i + 1 \in 1..k /\ i \in Selectors
  BY <1>0 DEF Indices, Selectors
<1>5. \A i \in DOMAIN g : g[i] = Popped(k)[i + 1]
  OBVIOUS
<1> HIDE DEF g
<1>6. DOMAIN g \subseteq Selectors /\ \E c \in 0..(MaxNodes + 1) : DOMAIN g = 0..(c - 1)
  BY <1>3, <1>4
<1>7. \A i \in DOMAIN g : i + 1 \in 1..k /\ g[i] = Popped(k)[i + 1] /\ g[i] \in Born
  BY <1>2, <1>4, <1>5
<1> QED
  BY <1>1, <1>6, <1>7 DEF g

LEMMA MapForm ==
    ASSUME TypeInv, NEW keys \in KeyLists, ParseMap(keys)
    PROVE  LET k == Len(keys)
               at(key) == CHOOSE i \in 1..k : keys[i] = key
               g == [key \in {keys[i] : i \in 1..k} |-> Popped(k)[at(key)]] IN
           /\ k \in 0..Len(stack)
           /\ DOMAIN g \subseteq Keys
           /\ \A key \in DOMAIN g : /\ at(key) \in 1..k /\ keys[at(key)] = key
                                    /\ g[key] = Popped(k)[at(key)] /\ g[key] \in Born
<1>1. PICK n \in 0..MaxItems : keys \in [1..n -> Keys]
  BY DEF KeyLists
<1>2. keys \in Seq(Keys) /\ Len(keys) = n /\ n \in Nat
  BY <1>1, MaxItemsAssumption, MaxNodesAssumption
<1>3. Len(stack) \in Nat /\ n \in 0..Len(stack)
  BY <1>2, LenProperties DEF TypeInv, TypeOK, ParseMap
<1>4. \A i \in 1..n : Popped(n)[i] \in Born
  BY <1>3, StackParts DEF TypeInv, TypeOK
<1> QED
  BY <1>1, <1>2, <1>3, <1>4

LEMMA ParseType ==
    ASSUME TypeInv, Parse
    PROVE  TypeInv'
<1>1. CASE ParseScalar
  BY <1>1, LeafStep DEF ParseScalar, Kinds
<1>2. CASE UseScript
  BY <1>2, LeafStep DEF UseScript, Kinds
<1>3. CASE \E name \in Names : UseLink(name)
  BY <1>3, LeafStep DEF UseLink, Kinds
<1>4. CASE \E path \in Paths : UseRef(path)
  BY <1>4, LeafStep DEF UseRef, Kinds
<1>5. ASSUME NEW k \in 0..MaxItems, ParseList(k)
      PROVE  TypeInv'
  <2> DEFINE g == [i \in 0..(k - 1) |-> Popped(k)[i + 1]]
  <2>1. /\ k \in 0..Len(stack)
        /\ DOMAIN g \subseteq Selectors
        /\ \E c \in 0..(MaxNodes + 1) : DOMAIN g = 0..(c - 1)
        /\ \A s \in DOMAIN g : g[s] \in Born
    BY <1>5, ListForm
  <2>2. /\ New("list") /\ pc = "parse"
        /\ child' = [child EXCEPT ![Fresh] = g]
        /\ stack' = Append(Under(k), Fresh)
        /\ UNCHANGED <<pc, linked, named, links_, linked_nodes_, references_, root, dropped,
                       outputs, firstNamed, ownerVars>>
    BY <1>5 DEF ParseList
  <2> HIDE DEF g
  <2> QED
    BY <2>1, <2>2, ContainerStep
<1>6. ASSUME NEW keys \in KeyLists, ParseMap(keys)
      PROVE  TypeInv'
  <2> DEFINE k == Len(keys)
             g == [key \in {keys[i] : i \in 1..k} |-> Popped(k)[CHOOSE i \in 1..k : keys[i] = key]]
  <2>1. /\ k \in 0..Len(stack)
        /\ DOMAIN g \subseteq Keys /\ DOMAIN g \subseteq Selectors
        /\ \A key \in DOMAIN g : g[key] \in Born
    BY <1>6, MapForm DEF Selectors
  <2>2. /\ New("map") /\ pc = "parse"
        /\ child' = [child EXCEPT ![Fresh] = g]
        /\ stack' = Append(Under(k), Fresh)
        /\ UNCHANGED <<pc, linked, named, links_, linked_nodes_, references_, root, dropped,
                       outputs, firstNamed, ownerVars>>
    BY <1>6 DEF ParseMap
  <2> HIDE DEF g, k
  <2> QED
    BY <2>1, <2>2, ContainerStep
<1>7. CASE ParseThrows
  BY <1>7 DEF ParseThrows, parserVars, treeVars, ownerVars, TypeInv, TypeOK, TablesInv,
     WellFormed, Kids, Born, Numbered, Fresh
<1>8. ASSUME NEW name \in Names, SetLink(name)
      PROVE  TypeInv'
  <2>1. Top \in Born
    <3>1. stack \in Seq(Born) /\ stack # <<>>
      BY <1>8 DEF SetLink, TypeInv, TypeOK
    <3>2. Len(stack) \in 1..Len(stack)
      BY <3>1, EmptySeq, LenProperties
    <3> QED
      BY <3>1, <3>2, ElementOfSeq DEF Top
  <2>2. UNCHANGED <<pc, kind, child, linked, stack, linked_nodes_, references_, root, dropped,
                    outputs, ownerVars>>
    BY <1>8 DEF SetLink, treeVars
  <2>3. /\ named' = named \cup {Top}
        /\ DOMAIN links_' \subseteq Names
        /\ \A x \in DOMAIN links_' : links_'[x] \in Born
    BY <1>8, <2>1 DEF SetLink, Inserted, With, TypeInv, TypeOK, TablesInv
  <2> QED
    BY <2>1, <2>2, <2>3 DEF ownerVars, TypeInv, TypeOK, TablesInv,
       WellFormed, Kids, Born, Numbered, Fresh
<1>9. CASE Sum
  <2>1. Len(stack) \in Nat /\ Len(stack) >= 2
    BY <1>9, LenProperties DEF Sum, TypeInv, TypeOK
  <2>2. Top \in Born /\ Under(1) \in Seq(Born)
    <3>1. stack \in Seq(Born) /\ 1 \in 0..Len(stack) /\ Len(stack) \in 1..Len(stack)
      BY <2>1 DEF TypeInv, TypeOK
    <3>2. Top \in Born
      BY <3>1, ElementOfSeq DEF Top
    <3>3. Under(1) \in Seq(Born)
      BY <3>1, StackParts
    <3> QED
      BY <3>2, <3>3
  <2>3. /\ UNCHANGED <<pc, kind, child, linked, named, links_, linked_nodes_, references_, root,
                       outputs, ownerVars>>
        /\ stack' = Under(1) /\ dropped' = dropped \cup {Top}
    BY <1>9 DEF Sum, treeVars
  <2> QED
    BY <2>2, <2>3 DEF ownerVars, TypeInv, TypeOK, TablesInv,
       WellFormed, Kids, Born, Numbered, Fresh
<1>10. CASE ParseFile
  <2>1. Top \in Born /\ <<>> \in Seq(Born)
    <3>1. stack \in Seq(Born) /\ Len(stack) \in 1..Len(stack)
      BY <1>10 DEF ParseFile, TypeInv, TypeOK
    <3>2. Top \in Born
      BY <3>1, ElementOfSeq DEF Top
    <3>3. <<>> \in Seq(Born)
      OBVIOUS
    <3> QED
      BY <3>2, <3>3
  <2>2. /\ UNCHANGED <<kind, child, linked, named, links_, linked_nodes_, references_, dropped,
                       outputs, ownerVars>>
        /\ pc = "parse" /\ pc' = "assign" /\ root' = Top /\ stack' = <<>>
    BY <1>10 DEF ParseFile, treeVars
  <2>3. Born \subseteq Nodes
    BY DEF Born
  <2> QED
    BY <2>1, <2>2, <2>3 DEF ownerVars, TypeInv, TypeOK, TablesInv,
       WellFormed, Kids, Born, Numbered, Fresh
<1>11. CASE ParseEmptyFile
  <2>1. New("none") /\ "none" \in Kinds \ {"list", "map"} /\ child' = child
    BY <1>11 DEF ParseEmptyFile, Kinds
  <2>2. /\ Fresh \in Nodes /\ Fresh \notin Born
        /\ Born' = Born \cup {Fresh}
        /\ Numbered'
        /\ kind' \in [Nodes -> Kinds \cup {"unborn"}]
        /\ \A m \in Nodes : m # Fresh => kind'[m] = kind[m]
    BY <2>1, NewNode
  <2>3. \A n \in Nodes : WellFormed(n)'
    BY <2>1, NewLeaf
  <2>4. /\ UNCHANGED <<child, linked, stack, named, links_, linked_nodes_, references_, dropped,
                       outputs, ownerVars>>
        /\ pc = "parse" /\ pc' = "assign" /\ root' = Fresh
    BY <1>11 DEF ParseEmptyFile
  <2>5. stack \in Seq(Born') /\ \A n \in Born : n \in Nodes /\ n # Fresh
    BY <2>2, SeqMonotonic DEF TypeInv, TypeOK, Born
  <2>6. DOMAIN linked_nodes_' \cup DOMAIN references_' \subseteq {n \in Born' : kind'[n] = "link"}
    BY <2>2, <2>4, <2>5 DEF TypeInv, TypeOK
  <2> QED
    BY <2>2, <2>3, <2>4, <2>5, <2>6 DEF ownerVars, TypeInv, TypeOK, TablesInv
<1> QED
  BY <1>1, <1>2, <1>3, <1>4, <1>5, <1>6, <1>7, <1>8, <1>9, <1>10, <1>11 DEF Parse

LEMMA AssignType ==
    ASSUME TypeInv, Assign
    PROVE  TypeInv'
<1> USE DEF ownerVars, TypeInv, TypeOK, TablesInv
<1>1. ASSUME NEW n \in Nodes, NEW k \in {"scalar", "list"}, AttachOutput(n, k)
      PROVE  TypeInv'
  <2>1. New(k) /\ child' = child /\ k \in Kinds
    BY <1>1 DEF AttachOutput, Kinds
  <2>2. /\ Fresh \in Nodes /\ Fresh \notin Born
        /\ Born' = Born \cup {Fresh}
        /\ Numbered'
        /\ kind' \in [Nodes -> Kinds \cup {"unborn"}]
        /\ kind'[Fresh] = k
        /\ \A m \in Nodes : m # Fresh => kind'[m] = kind[m]
    BY <2>1, NewNode
  <2>3. \A m \in Nodes : WellFormed(m)'
    <3>1. CASE k = "scalar"
      BY <2>1, <3>1, NewLeaf
    <3>2. CASE k = "list"
      <4>1. kind[Fresh] = "unborn" /\ DOMAIN Nothing = {}
        BY <2>2 DEF Born, Nothing
      <4>2. child[Fresh] = Nothing
        BY <2>2, <4>1 DEF WellFormed
      <4>3. DOMAIN Nothing = 0..(0 - 1) /\ 0 \in 0..(MaxNodes + 1)
        BY <4>1, MaxNodesAssumption
      <4>4. DOMAIN Nothing = {i \in Nat : i < Cardinality(DOMAIN Nothing)} \cap Indices
        BY <4>3, FirstIndices
      <4>5. ASSUME NEW m \in Nodes, m = Fresh
            PROVE  WellFormed(m)'
        <5>1. child'[m] = Nothing /\ kind'[m] = "list"
          BY <2>1, <2>2, <3>2, <4>2, <4>5
        <5> QED
          BY <4>1, <4>4, <5>1 DEF WellFormed, Kids
      <4>6. ASSUME NEW m \in Nodes, m # Fresh
            PROVE  WellFormed(m)'
        BY <2>1, <2>2, <4>6, SameNode
      <4> QED
        BY <4>5, <4>6
    <3> QED
      BY <3>1, <3>2
  <2>4. /\ UNCHANGED <<pc, child, stack, named, links_, linked_nodes_, references_, root,
                       dropped, ownerVars>>
        /\ pc = "assign"
        /\ linked' = [linked EXCEPT ![n] = Fresh] /\ outputs' = outputs \cup {Fresh}
    BY <1>1 DEF AttachOutput
  <2>5. stack \in Seq(Born') /\ \A m \in Born : m \in Nodes /\ m # Fresh
    BY <2>2, SeqMonotonic DEF Born
  <2>6. DOMAIN linked_nodes_' \cup DOMAIN references_' \subseteq {m \in Born' : kind'[m] = "link"}
    BY <2>2, <2>4, <2>5
  <2> QED
    BY <2>2, <2>3, <2>4, <2>5, <2>6
<1>2. CASE AssignLinks
  <2>1. pc = "assign" /\ pc' = "built" /\ root \in Born /\ Born \subseteq Nodes
    BY <1>2 DEF AssignLinks, Born
  <2>2. ASSUME NEW n \in Nodes
        PROVE  linked'[n] \in Born \cup {Null}
    <3>1. linked'[n] = IF n \in DOMAIN linked_nodes_ THEN links_[linked_nodes_[n]]
                       ELSE IF n \in DOMAIN references_ THEN Dig(references_[n])
                       ELSE linked[n]
      BY <1>2 DEF AssignLinks
    <3>2. n \in DOMAIN linked_nodes_ => links_[linked_nodes_[n]] \in Born
      BY <1>2 DEF AssignLinks, Resolvable
    <3>3. n \in DOMAIN references_ => Dig(references_[n]) \in Born \cup {Null}
      BY <2>1, DigType
    <3> QED
      BY <2>1, <3>1, <3>2, <3>3
  <2>3. linked' \in [Nodes -> Nodes \cup {Null}]
    BY <1>2, <2>1, <2>2 DEF AssignLinks
  <2>4. UNCHANGED <<parserVars, kind, child, ownerVars>>
    BY <1>2 DEF AssignLinks
  <2> QED
    BY <2>1, <2>2, <2>3, <2>4 DEF parserVars, WellFormed, Kids, Born, Numbered, Fresh
<1>3. CASE AssignThrows
  <2>1. root \in Born
    BY <1>3 DEF AssignThrows
  <2>2. Subtree(root) \subseteq Born
    BY <2>1, SubtreeBorn
  <2>3. /\ UNCHANGED <<parserVars, treeVars, cur, edits, orphans, misused>>
        /\ pc' = "threw" /\ freed' = freed \cup Subtree(root)
    BY <1>3 DEF AssignThrows
  <2> QED
    BY <2>2, <2>3 DEF parserVars, treeVars, WellFormed, Kids, Born, Numbered, Fresh
<1> QED
  BY <1>1, <1>2, <1>3 DEF Assign

LEMMA ResolveType ==
    ASSUME TypeInv, Resolve
    PROVE  TypeInv'
<1> USE DEF ownerVars, parserVars, treeVars, TypeInv, TypeOK, TablesInv,
            WellFormed, Kids, Born, Numbered, Fresh
<1>1. CASE ResolveFreed
  BY <1>1 DEF ResolveFreed
<1>2. CASE ResolveHop
  <2>1. cur \in Nodes /\ cur' = linked[cur] /\ cur' \in Nodes \cup {Null}
    BY <1>2 DEF ResolveHop, Hop
  <2> QED
    BY <1>2, <2>1 DEF ResolveHop
<1>3. CASE ResolveEnd
  BY <1>3 DEF ResolveEnd
<1> QED
  BY <1>1, <1>2, <1>3 DEF Resolve

LEMMA OwnType ==
    ASSUME TypeInv, Own
    PROVE  TypeInv'
<1> USE DEF ownerVars, parserVars, treeVars, TypeInv, TypeOK, TablesInv
<1>c. \A n \in Containers : n \in Born /\ n \notin freed /\ kind[n] \in {"list", "map"}
  BY HeldBorn DEF Containers, Own, Access, Remove, InsertNew, InsertNode, Destroy
<1>1. ASSUME NEW n \in Nodes, NEW s \in Selectors, Access(n, s)
      PROVE  TypeInv'
  <2>1. At(n, s) \in Born
    BY <1>1 DEF Access, At, WellFormed, Kids
  <2>2. Born \subseteq Nodes
    BY DEF Born
  <2> QED
    BY <1>1, <2>1, <2>2 DEF Access, WellFormed, Kids, Born, Numbered, Fresh
<1>2. ASSUME NEW n \in Nodes, NEW s \in Selectors, Remove(n, s)
      PROVE  TypeInv'
  <2>1. /\ kind[n] \in {"list", "map"} /\ s \in DOMAIN child[n]
        /\ kind' = kind /\ child' = [child EXCEPT ![n] = Erased(n, s)]
        /\ pc = "built" /\ pc' \in {"built", "corrupt"}
        /\ freed' = freed \cup Subtree(child[n][s]) /\ misused' \in BOOLEAN
        /\ edits' \in 0..MaxEdits
        /\ UNCHANGED <<parserVars, linked, cur, orphans>>
    BY <1>2, <1>c, MaxEditsAssumption DEF Remove, Edit
  <2>2. child[n][s] \in Born
    BY <2>1 DEF WellFormed, Kids
  <2>3. Subtree(child[n][s]) \subseteq Born
    BY <2>2, SubtreeBorn
  <2>4. \A m \in Nodes : WellFormed(m)'
    BY <2>1, ErasedForm, ChangedNode
  <2>5. Born' = Born /\ Numbered'
    BY <2>1 DEF Born, Numbered, Fresh
  <2> QED
    BY <2>1, <2>3, <2>4, <2>5
<1>3. ASSUME NEW n \in Nodes, NEW i \in Selectors, InsertNew(n, i)
      PROVE  TypeInv'
  <2>1. /\ kind[n] \in {"list", "map"} /\ i \in Places(n)
        /\ New("scalar") /\ child' = [child EXCEPT ![n] = Put(n, i, Fresh)]
        /\ edits' \in 0..MaxEdits
        /\ orphans' \subseteq orphans \cup {Fresh}
        /\ UNCHANGED <<pc, parserVars, linked, cur, freed, misused>>
    BY <1>3, <1>c, MaxEditsAssumption DEF InsertNew, Edit
  <2>2. /\ Fresh \in Nodes /\ Fresh \notin Born
        /\ Born' = Born \cup {Fresh}
        /\ Numbered'
        /\ kind' \in [Nodes -> Kinds \cup {"unborn"}]
        /\ kind'[Fresh] = "scalar"
        /\ \A m \in Nodes : m # Fresh => kind'[m] = kind[m]
    BY <2>1, NewNode DEF Kinds
  <2>3. n \in Born /\ n # Fresh
    BY <2>1, <2>2 DEF Born
  <2>4. /\ child'[n] = Put(n, i, Fresh)
        /\ \A m \in Nodes : m # n => child'[m] = child[m]
        /\ DOMAIN child' = Nodes
    BY <2>1
  <2>5. ASSUME NEW m \in Nodes
        PROVE  WellFormed(m)'
    <3>1. CASE m = n
      <4> DEFINE g == Put(n, i, Fresh)
      <4>1. /\ DOMAIN g \subseteq Selectors /\ \A t \in DOMAIN g : g[t] \in Born \cup {Fresh}
            /\ kind[n] = "list" => \E c \in 0..(MaxNodes + 1) : DOMAIN g = 0..(c - 1)
            /\ kind[n] = "map" => DOMAIN g \subseteq Keys
        BY <2>1, PutForm
      <4>2. kind[n] = "list" => DOMAIN g = {j \in Nat : j < Cardinality(DOMAIN g)} \cap Indices
        BY <4>1, FirstIndices
      <4>3. child'[m] = g /\ kind'[m] = kind[n]
        BY <2>2, <2>3, <2>4, <3>1
      <4> HIDE DEF g
      <4> QED
        BY <2>1, <2>2, <4>1, <4>2, <4>3 DEF WellFormed, Kids
    <3>2. CASE m = Fresh
      <4>1. child[m] = Nothing /\ DOMAIN Nothing = {}
        BY <2>2, <3>2 DEF WellFormed, Nothing, Born
      <4>2. child'[m] = Nothing /\ kind'[m] = "scalar"
        BY <2>2, <2>3, <2>4, <3>2, <4>1
      <4> QED
        BY <4>1, <4>2 DEF WellFormed, Kids
    <3>3. CASE m # n /\ m # Fresh
      <4>1. child'[m] = child[m] /\ kind'[m] = kind[m] /\ Born \subseteq Born' /\ WellFormed(m)
        BY <2>2, <2>4, <3>3
      <4> QED
        BY <4>1, SameNode
    <3> QED
      BY <3>1, <3>2, <3>3
  <2>6. stack \in Seq(Born') /\ \A m \in Born : m \in Nodes /\ m # Fresh
    BY <2>2, SeqMonotonic DEF Born
  <2>7. DOMAIN linked_nodes_' \cup DOMAIN references_' \subseteq {m \in Born' : kind'[m] = "link"}
    BY <2>1, <2>2, <2>6
  <2> QED
    BY <2>1, <2>2, <2>4, <2>5, <2>6, <2>7
<1>4. ASSUME NEW n \in Nodes, NEW e \in Nodes, NEW i \in Selectors, InsertNode(n, i, e)
      PROVE  TypeInv'
  <2>1. /\ kind[n] \in {"list", "map"} /\ i \in Places(n) /\ e \in Born
        /\ kind' = kind /\ child' = [child EXCEPT ![n] = Put(n, i, e)]
        /\ edits' \in 0..MaxEdits /\ misused' \in BOOLEAN
        /\ UNCHANGED <<pc, parserVars, linked, cur, freed, orphans>>
    <3>1. e \in Born
      BY <1>4, HeldBorn DEF InsertNode
    <3> QED
      BY <1>4, <1>c, <3>1, MaxEditsAssumption DEF InsertNode, Edit
  <2> DEFINE g == Put(n, i, e)
  <2>f. /\ DOMAIN g \subseteq Selectors /\ \A t \in DOMAIN g : g[t] \in Born \cup {e}
        /\ kind[n] = "list" => \E c \in 0..(MaxNodes + 1) : DOMAIN g = 0..(c - 1)
        /\ kind[n] = "map" => DOMAIN g \subseteq Keys
    BY <2>1, PutForm
  <2>g. child' = [child EXCEPT ![n] = g]
    BY <2>1
  <2> HIDE DEF g
  <2>h. \A t \in DOMAIN g : g[t] \in Born
    BY <2>1, <2>f
  <2>2. \A m \in Nodes : WellFormed(m)'
    BY <2>1, <2>f, <2>g, <2>h, ChangedNode
  <2>3. Born' = Born /\ Numbered'
    BY <2>1 DEF Born, Numbered, Fresh
  <2> QED
    BY <2>1, <2>2, <2>3
<1>5. CASE Destroy
  <2>1. root \in Born
    BY <1>5 DEF Destroy
  <2>2. Subtree(root) \subseteq Born
    BY <2>1, SubtreeBorn
  <2>3. /\ UNCHANGED <<parserVars, treeVars, cur, edits, orphans, misused>>
        /\ pc' \in {"corrupt", "destroyed"} /\ freed' = freed \cup Subtree(root)
    BY <1>5 DEF Destroy
  <2> QED
    BY <2>2, <2>3 DEF WellFormed, Kids, Born, Numbered, Fresh
<1> QED
  BY <1>1, <1>2, <1>3, <1>4, <1>5 DEF Own

LEMMA TypeStep == TypeInv /\ [Next]_vars => TypeInv'
<1> SUFFICES ASSUME TypeInv, [Next]_vars PROVE TypeInv'
  OBVIOUS
<1>1. CASE UNCHANGED vars
  BY <1>1 DEF vars, parserVars, treeVars, ownerVars, TypeInv, TypeOK, TablesInv,
     WellFormed, Kids, Born, Numbered, Fresh
<1> QED
  BY <1>1, ParseType, AssignType, OwnType, ResolveType DEF Next

(* Every variable keeps its type; above all lists stay lists under          *)
(* insertion and removal and every reference leads to a node of the         *)
(* document, for documents of any size.                                     *)
THEOREM TypeCorrect == Spec => []TypeOK
<1>1. Spec => []TypeInv
  BY TypeInit, TypeStep, PTL DEF Spec
<1>2. TypeInv => TypeOK
  BY DEF TypeInv
<1> QED
  BY <1>1, <1>2, PTL

-----------------------------------------------------------------------------
(* Names. *)

NamesInv ==
    /\ links_ = firstNamed
    /\ FirstNameWins

LEMMA NamesStep == TypeInv /\ NamesInv /\ [Next]_vars => NamesInv'
<1> SUFFICES ASSUME TypeInv, NamesInv, [Next]_vars PROVE NamesInv'
  OBVIOUS
<1> USE DEF NamesInv, FirstNameWins
<1>1. CASE Parse
  <2>1. pc' \notin {"built", "resolve", "destroyed"}
    BY <1>1 DEF Parse, Leaf, ParseScalar, UseScript, UseLink, UseRef, ParseList, ParseMap,
       ParseThrows, SetLink, Sum, ParseFile, ParseEmptyFile
  <2>2. links_' = firstNamed'
    BY <1>1 DEF Parse, Leaf, ParseScalar, UseScript, UseLink, UseRef, ParseList, ParseMap,
       ParseThrows, SetLink, Sum, ParseFile, ParseEmptyFile, Inserted, parserVars
  <2> QED
    BY <2>1, <2>2
<1>2. CASE Assign
  <2>1. CASE AssignLinks
    <3>1. /\ Resolvable
          /\ \A n \in DOMAIN linked_nodes_ : n \in Nodes /\ linked'[n] = links_[linked_nodes_[n]]
          /\ UNCHANGED parserVars
      BY <2>1 DEF AssignLinks, TypeInv, TypeOK, Born
    <3> QED
      BY <3>1 DEF Resolvable, parserVars
  <2>2. CASE AssignThrows
    BY <2>2 DEF AssignThrows, parserVars
  <2>3. CASE \E n \in Nodes, k \in {"scalar", "list"} : AttachOutput(n, k)
    BY <2>3 DEF AttachOutput
  <2> QED
    BY <1>2, <2>1, <2>2, <2>3 DEF Assign
<1>3. CASE Own \/ Resolve \/ UNCHANGED vars
  <2>1. /\ UNCHANGED <<parserVars, linked>>
        /\ pc' \in {"built", "resolve", "destroyed"} => pc \in {"built", "resolve", "destroyed"}
    BY <1>3 DEF Own, Access, Remove, InsertNew, InsertNode, Destroy, Resolve, ResolveFreed,
       ResolveHop, ResolveEnd, treeVars, vars
  <2> QED
    BY <2>1 DEF parserVars
<1> QED
  BY <1>1, <1>2, <1>3 DEF Next

(* However many names, links and nodes a document has, every link stands    *)
(* for the node that got its name first.                                    *)
THEOREM FirstNameCorrect == Spec => []FirstNameWins
<1>1. Init => NamesInv
  BY DEF Init, NamesInv, FirstNameWins
<1>2. Spec => [](TypeInv /\ NamesInv)
  BY <1>1, TypeInit, TypeStep, NamesStep, PTL DEF Spec
<1>3. NamesInv => FirstNameWins
  BY DEF NamesInv
<1> QED
  BY <1>2, <1>3, PTL
-----------------------------------------------------------------------------
(* Chains of links. *)

(* The nodes resolve_destination_node would meet from n on. *)
Chain(n) == Closure(n, [m \in Nodes |-> IF IsLink(m) THEN {linked[m]} \ {Null} ELSE {}])

(* Each turn of the loop in resolve_destination_node leaves less of the     *)
(* chain to follow, as long as the chain is not circular, and then it does  *)
(* not become so: a chain of n nodes takes n turns at most.                 *)
ResolveAdvances ==
    [][ResolveHop /\ ~Circular(cur) =>
          ~Circular(cur)' /\ Cardinality(Chain(cur)') < Cardinality(Chain(cur))]_vars

(* The same for any types k and links l of the nodes. *)
LinkIn(k, m) == k[m] \in {"link", "attached"}
ChainIn(k, l, n) == Closure(n, [m \in Nodes |-> IF LinkIn(k, m) THEN {l[m]} \ {Null} ELSE {}])
Goes(k, l, n, hop, c) ==
    hop = [i \in 0..c |->
              IF i = 0 THEN n
              ELSE IF hop[i - 1] = Null \/ ~LinkIn(k, hop[i - 1]) THEN hop[i - 1]
              ELSE l[hop[i - 1]]]
CircularIn(k, l, n) ==
    LET hop == CHOOSE hop : Goes(k, l, n, hop, MaxNodes)
    IN  hop[MaxNodes] # Null /\ LinkIn(k, hop[MaxNodes])

LEMMA ChainForms ==
    /\ \A n : Circular(n) <=> CircularIn(kind, linked, n)
    /\ \A n : Chain(n) = ChainIn(kind, linked, n)
    /\ Circular(cur)' <=> CircularIn(kind', linked', cur')
    /\ Chain(cur)' = ChainIn(kind', linked', cur')
BY DEF Circular, CircularIn, Goes, Chain, ChainIn, IsLink, LinkIn

LEMMA ChainLeast ==
    ASSUME NEW k, NEW l, NEW n \in Nodes, NEW S \in SUBSET Nodes, n \in S,
           \A p \in S : LinkIn(k, p) /\ l[p] # Null => l[p] \in S
    PROVE  ChainIn(k, l, n) \subseteq S
<1> DEFINE next == [m \in Nodes |-> IF LinkIn(k, m) THEN {l[m]} \ {Null} ELSE {}]
<1>1. \A p \in S : next[p] \subseteq S
  OBVIOUS
<1> HIDE DEF next
<1>2. Closure(n, next) \subseteq S
  BY <1>1 DEF Closure
<1> QED
  BY <1>2 DEF ChainIn, next

LEMMA ChainClosed ==
    ASSUME NEW k, NEW l \in [Nodes -> Nodes \cup {Null}], NEW n \in Nodes
    PROVE  /\ n \in ChainIn(k, l, n) /\ ChainIn(k, l, n) \subseteq Nodes
           /\ \A p \in ChainIn(k, l, n) :
                 LinkIn(k, p) /\ l[p] # Null => l[p] \in ChainIn(k, l, n)
<1> DEFINE next == [m \in Nodes |-> IF LinkIn(k, m) THEN {l[m]} \ {Null} ELSE {}]
<1>1. \A p \in Nodes : next[p] \subseteq Nodes
  OBVIOUS
<1>2. \A p \in Nodes : LinkIn(k, p) /\ l[p] # Null => l[p] \in next[p]
  OBVIOUS
<1> HIDE DEF next
<1>3. /\ n \in Closure(n, next) /\ Closure(n, next) \subseteq Nodes
      /\ \A p \in Closure(n, next) : next[p] \subseteq Closure(n, next)
  BY <1>1 DEF Closure
<1>4. ChainIn(k, l, n) = Closure(n, next)
  BY DEF ChainIn, next
<1> QED
  BY <1>2, <1>3, <1>4

(* The chain from a link is the link and the chain from where it leads; the *)
(* chain from any other node is that node.                                  *)
LEMMA ChainFirst ==
    ASSUME NEW k, NEW l \in [Nodes -> Nodes \cup {Null}], NEW n \in Nodes
    PROVE  IF LinkIn(k, n) /\ l[n] # Null
           THEN ChainIn(k, l, n) = {n} \cup ChainIn(k, l, l[n])
           ELSE ChainIn(k, l, n) = {n}
<1>1. CASE LinkIn(k, n) /\ l[n] # Null
  <2>1. l[n] \in Nodes
    BY <1>1
  <2>2. ChainIn(k, l, n) \subseteq {n} \cup ChainIn(k, l, l[n])
    <3> DEFINE S == {n} \cup ChainIn(k, l, l[n])
    <3>1. S \in SUBSET Nodes /\ n \in S
      BY <2>1, ChainClosed
    <3>2. \A p \in S : LinkIn(k, p) /\ l[p] # Null => l[p] \in S
      BY <2>1, ChainClosed
    <3> HIDE DEF S
    <3>3. ChainIn(k, l, n) \subseteq S
      BY <3>1, <3>2, ChainLeast
    <3> QED
      BY <3>3 DEF S
  <2>3. ChainIn(k, l, l[n]) \subseteq ChainIn(k, l, n)
    <3>1. /\ ChainIn(k, l, n) \in SUBSET Nodes /\ l[n] \in ChainIn(k, l, n)
          /\ \A p \in ChainIn(k, l, n) :
                LinkIn(k, p) /\ l[p] # Null => l[p] \in ChainIn(k, l, n)
      BY <1>1, ChainClosed
    <3> QED
      BY <2>1, <3>1, ChainLeast
  <2> QED
    BY <1>1, <2>2, <2>3, ChainClosed
<1>2. CASE ~(LinkIn(k, n) /\ l[n] # Null)
  <2>1. ChainIn(k, l, n) \subseteq {n}
    <3> DEFINE S == {n}
    <3>1. S \in SUBSET Nodes /\ n \in S
      OBVIOUS
    <3>2. \A p \in S : LinkIn(k, p) /\ l[p] # Null => l[p] \in S
      BY <1>2
    <3> HIDE DEF S
    <3>3. ChainIn(k, l, n) \subseteq S
      BY <3>1, <3>2, ChainLeast
    <3> QED
      BY <3>3 DEF S
  <2> QED
    BY <1>2, <2>1, ChainClosed
<1> QED
  BY <1>1, <1>2

(* The function that Circular is defined by. *)
LEMMA HopExists ==
    ASSUME NEW k, NEW l, NEW n
    PROVE  \E hop : /\ Goes(k, l, n, hop, MaxNodes)
                    /\ CircularIn(k, l, n) <=> hop[MaxNodes] # Null /\ LinkIn(k, hop[MaxNodes])
<1> DEFINE Step(r) == IF r = Null \/ ~LinkIn(k, r) THEN r ELSE l[r]
           S == {c \in Nat : \E f : Goes(k, l, n, f, c)}
<1>0. MaxNodes \in Nat
  BY MaxNodesAssumption
<1>f. \A f, c : Goes(k, l, n, f, c) <=>
                   f = [i \in 0..c |-> IF i = 0 THEN n ELSE Step(f[i - 1])]
  BY DEF Goes
<1> HIDE DEF Step
<1>1. 0 \in S
  <2> DEFINE f == [i \in 0..0 |-> n]
  <2>1. f = [i \in 0..0 |-> IF i = 0 THEN n ELSE Step(f[i - 1])]
    OBVIOUS
  <2> HIDE DEF f
  <2>2. Goes(k, l, n, f, 0)
    BY <1>f, <2>1
  <2> QED
    BY <2>2
<1>2. ASSUME NEW c \in 0..(MaxNodes - 1), c \in S
      PROVE  c + 1 \in S
  <2>0. c \in Nat
    BY <1>0
  <2>1. PICK f : f = [i \in 0..c |-> IF i = 0 THEN n ELSE Step(f[i - 1])]
    BY <1>2, <1>f
  <2> DEFINE g == [i \in 0..(c + 1) |-> IF i <= c THEN f[i] ELSE Step(f[c])]
  <2>2. ASSUME NEW i \in 0..(c + 1)
        PROVE  g[i] = IF i = 0 THEN n ELSE Step(g[i - 1])
    <3>1. CASE i = 0
      BY <2>0, <2>1, <3>1
    <3>2. CASE i # 0 /\ i <= c
      <4>1. g[i] = f[i] /\ i - 1 \in 0..c /\ i \in 0..c /\ i - 1 \in 0..(c + 1) /\ i - 1 <= c
        BY <2>0, <3>2
      <4>2. g[i - 1] = f[i - 1]
        BY <4>1
      <4>3. f[i] = Step(f[i - 1])
        BY <2>1, <3>2, <4>1
      <4> QED
        BY <3>2, <4>1, <4>2, <4>3
    <3>3. CASE i = c + 1
      BY <2>0, <3>3
    <3> QED
      BY <2>0, <3>1, <3>2, <3>3
  <2>3. g = [i \in 0..(c + 1) |-> IF i = 0 THEN n ELSE Step(g[i - 1])]
    BY <2>2
  <2> HIDE DEF g
  <2>4. Goes(k, l, n, g, c + 1)
    BY <1>f, <2>3
  <2> QED
    BY <2>0, <2>4
<1> HIDE DEF S
<1>3. 0..MaxNodes \subseteq S
  BY <1>0, <1>1, <1>2, UpTo
<1>4. \E f : Goes(k, l, n, f, MaxNodes)
  BY <1>0, <1>3 DEF S
<1> DEFINE hop == CHOOSE f : Goes(k, l, n, f, MaxNodes)
<1>5. Goes(k, l, n, hop, MaxNodes)
  BY <1>4
<1>6. CircularIn(k, l, n) <=> hop[MaxNodes] # Null /\ LinkIn(k, hop[MaxNodes])
  BY DEF CircularIn
<1> HIDE DEF hop
<1> QED
  BY <1>5, <1>6

(* One step of that function. *)
LEMMA HopStep ==
    ASSUME NEW k, NEW l, NEW n, NEW hop, Goes(k, l, n, hop, MaxNodes)
    PROVE  /\ hop[0] = n
           /\ \A i \in 0..(MaxNodes - 1) :
                 hop[i + 1] = IF hop[i] = Null \/ ~LinkIn(k, hop[i]) THEN hop[i] ELSE l[hop[i]]
<1>0. MaxNodes \in Nat
  BY MaxNodesAssumption
<1>1. hop[0] = n
  BY <1>0 DEF Goes
<1>2. ASSUME NEW i \in 0..(MaxNodes - 1)
      PROVE  hop[i + 1] = IF hop[i] = Null \/ ~LinkIn(k, hop[i]) THEN hop[i] ELSE l[hop[i]]
  <2>1. i + 1 \in 0..MaxNodes /\ (i + 1) - 1 = i /\ i + 1 # 0
    BY <1>0
  <2> QED
    BY <2>1 DEF Goes
<1> QED
  BY <1>1, <1>2

(* Among links that lead to each other only, every chain is circular. *)
LEMMA LinksOnly ==
    ASSUME NEW k, NEW l, NEW T \in SUBSET Nodes, NEW n \in T,
           \A m \in T : LinkIn(k, m) /\ l[m] \in T
    PROVE  CircularIn(k, l, n)
<1>0. MaxNodes \in Nat /\ Null \notin T
  BY MaxNodesAssumption DEF Nodes, Null
<1>1. PICK hop : /\ Goes(k, l, n, hop, MaxNodes)
                 /\ CircularIn(k, l, n) <=> hop[MaxNodes] # Null /\ LinkIn(k, hop[MaxNodes])
  BY HopExists
<1> DEFINE S == {i \in 0..MaxNodes : hop[i] \in T}
<1>2. 0 \in S
  BY <1>0, <1>1, HopStep
<1>3. ASSUME NEW i \in 0..(MaxNodes - 1), i \in S
      PROVE  i + 1 \in S
  <2>1. hop[i + 1] = IF hop[i] = Null \/ ~LinkIn(k, hop[i]) THEN hop[i] ELSE l[hop[i]]
    BY <1>1, HopStep
  <2>2. i + 1 \in 0..MaxNodes
    BY <1>0
  <2> QED
    BY <1>0, <1>3, <2>1, <2>2
<1> HIDE DEF S
<1>4. 0..MaxNodes \subseteq S
  BY <1>0, <1>2, <1>3, UpTo
<1>5. hop[MaxNodes] \in T
  BY <1>0, <1>4 DEF S
<1> QED
  BY <1>0, <1>1, <1>5

(* A chain that comes back to its first link is circular. *)
LEMMA BackIsCircular ==
    ASSUME NEW k, NEW l \in [Nodes -> Nodes \cup {Null}], NEW n \in Nodes,
           LinkIn(k, n), l[n] # Null, n \in ChainIn(k, l, l[n])
    PROVE  CircularIn(k, l, n)
<1> DEFINE T == {m \in Nodes : n \in ChainIn(k, l, m)}
<1>1. ASSUME NEW m \in T
      PROVE  LinkIn(k, m) /\ l[m] \in T
  <2>1. CASE m = n
    BY <2>1
  <2>2. CASE m # n
    <3>1. m \in Nodes /\ n \in ChainIn(k, l, m)
      BY <1>1
    <3>2. LinkIn(k, m) /\ l[m] # Null
      BY <2>2, <3>1, ChainFirst
    <3>3. n \in ChainIn(k, l, l[m])
      BY <2>2, <3>1, <3>2, ChainFirst
    <3> QED
      BY <3>1, <3>2, <3>3
  <2> QED
    BY <2>1, <2>2
<1>2. n \in T
  BY ChainClosed
<1> HIDE DEF T
<1> QED
  BY <1>1, <1>2, LinksOnly DEF T

(* A link into a circle is on a circular chain. *)
LEMMA CircularNext ==
    ASSUME NEW k, NEW l \in [Nodes -> Nodes \cup {Null}], NEW n \in Nodes,
           LinkIn(k, n), l[n] # Null, CircularIn(k, l, l[n])
    PROVE  CircularIn(k, l, n)
<1>0. MaxNodes \in Nat /\ MaxNodes # 0 /\ n # Null
  BY MaxNodesAssumption DEF Nodes, Null
<1>1. PICK h : /\ Goes(k, l, n, h, MaxNodes)
               /\ CircularIn(k, l, n) <=> h[MaxNodes] # Null /\ LinkIn(k, h[MaxNodes])
  BY HopExists
<1>2. PICK g : /\ Goes(k, l, l[n], g, MaxNodes)
               /\ CircularIn(k, l, l[n]) <=> g[MaxNodes] # Null /\ LinkIn(k, g[MaxNodes])
  BY HopExists
<1> DEFINE S == {i \in 0..(MaxNodes - 1) : h[i + 1] = g[i]}
<1>3. 0 \in S
  <2>1. 0 \in 0..(MaxNodes - 1)
    BY <1>0
  <2>2. h[0] = n /\ g[0] = l[n]
    BY <1>1, <1>2, HopStep
  <2>3. h[0 + 1] = l[n]
    BY <1>0, <1>1, <2>1, <2>2, HopStep
  <2> QED
    BY <2>1, <2>2, <2>3
<1>4. ASSUME NEW i \in 0..((MaxNodes - 1) - 1), i \in S
      PROVE  i + 1 \in S
  <2>1. i \in 0..(MaxNodes - 1) /\ i + 1 \in 0..(MaxNodes - 1) /\ h[i + 1] = g[i]
    BY <1>0, <1>4
  <2>2. g[i + 1] = IF g[i] = Null \/ ~LinkIn(k, g[i]) THEN g[i] ELSE l[g[i]]
    BY <1>2, <2>1, HopStep
  <2>3. h[(i + 1) + 1] = IF h[i + 1] = Null \/ ~LinkIn(k, h[i + 1]) THEN h[i + 1]
                         ELSE l[h[i + 1]]
    BY <1>1, <2>1, HopStep
  <2> QED
    BY <2>1, <2>2, <2>3
<1> HIDE DEF S
<1>5. 0..(MaxNodes - 1) \subseteq S
  BY <1>0, <1>3, <1>4, UpTo
<1>6. PICK c \in Nat : c = MaxNodes - 1 /\ c + 1 = MaxNodes /\ c \in 0..(MaxNodes - 1)
  BY <1>0
<1>7. h[MaxNodes] = g[c]
  BY <1>5, <1>6 DEF S
<1>8. g[MaxNodes] = IF g[c] = Null \/ ~LinkIn(k, g[c]) THEN g[c] ELSE l[g[c]]
  BY <1>2, <1>6, HopStep
<1> QED
  BY <1>1, <1>2, <1>7, <1>8

(* Every access through links that are not circular takes boundedly many    *)
(* turns, in documents of any size and however the owner changed them.      *)
THEOREM ResolveTerminates == Spec => ResolveAdvances
<1>1. ASSUME TypeInv, ResolveHop, ~Circular(cur)
      PROVE  ~Circular(cur)' /\ Cardinality(Chain(cur)') < Cardinality(Chain(cur))
  <2> DEFINE next == linked[cur]
  <2>1. /\ cur \in Nodes /\ linked \in [Nodes -> Nodes \cup {Null}]
        /\ LinkIn(kind, cur) /\ next # Null /\ next \in Nodes
        /\ cur' = next /\ kind' = kind /\ linked' = linked
    BY <1>1 DEF TypeInv, TypeOK, TablesInv, Born, ResolveHop, Hop, IsLink, LinkIn, treeVars
  <2>2. ~CircularIn(kind, linked, cur)
    BY <1>1, ChainForms
  <2>3. ~CircularIn(kind, linked, next)
    BY <2>1, <2>2, CircularNext
  <2>4. /\ ChainIn(kind, linked, cur) = {cur} \cup ChainIn(kind, linked, next)
        /\ cur \notin ChainIn(kind, linked, next)
    BY <2>1, <2>2, ChainFirst, BackIsCircular
  <2>5. IsFiniteSet(ChainIn(kind, linked, next))
    <3>1. IsFiniteSet(Nodes)
      BY MaxNodesAssumption, FS_Interval DEF Nodes
    <3>2. ChainIn(kind, linked, next) \in SUBSET Nodes
      BY <2>1, ChainClosed
    <3> QED
      BY <3>1, <3>2, FS_Subset
  <2>6. /\ Cardinality(ChainIn(kind, linked, next)) \in Nat
        /\ Cardinality(ChainIn(kind, linked, cur))
              = Cardinality(ChainIn(kind, linked, next)) + 1
    <3> DEFINE rest == ChainIn(kind, linked, next)
    <3>1. rest = ChainIn(kind, linked, next)
      OBVIOUS
    <3> HIDE DEF rest, next
    <3>2. IsFiniteSet(rest) /\ cur \notin rest
      BY <2>4, <2>5, <3>1
    <3>3. Cardinality(rest) \in Nat /\ Cardinality(rest \cup {cur}) = Cardinality(rest) + 1
      BY <3>2, FS_AddElement, FS_CardinalityType
    <3>4. ChainIn(kind, linked, cur) = rest \cup {cur}
      BY <2>4, <3>1
    <3> QED
      BY <3>1, <3>3, <3>4
  <2>7. Circular(cur)' <=> CircularIn(kind, linked, next)
    BY <2>1, ChainForms
  <2>8. Chain(cur)' = ChainIn(kind, linked, next) /\ Chain(cur) = ChainIn(kind, linked, cur)
    BY <2>1, ChainForms
  <2> QED
    BY <2>3, <2>6, <2>7, <2>8
<1>2. TypeInv /\ [Next]_vars =>
         [ResolveHop /\ ~Circular(cur) =>
             ~Circular(cur)' /\ Cardinality(Chain(cur)') < Cardinality(Chain(cur))]_vars
  BY <1>1
<1>3. Spec => []TypeInv
  BY TypeInit, TypeStep, PTL DEF Spec
<1> QED
  BY <1>2, <1>3, PTL DEF Spec, ResolveAdvances
=============================================================================
