------------------------------- MODULE NodeTree -------------------------------
(***************************************************************************)
(* The node tree of one document: the parser's reductions build it bottom  *)
(* up on the value stack and register names, links and references; the     *)
(* builder then points every link at its node (assign_links, dig); the     *)
(* owner reads it through operator[], which follows links, changes it by   *)
(* insert and remove, and deletes it.                                      *)
(*                                                                         *)
(* A node is a number in order of allocation, 0 is nullptr.  A list's      *)
(* children are selected by 0, 1, ..., a map's by keys; the text of        *)
(* scalars is left out, and so are the scalars of keys and of quoted link  *)
(* names, which are allocated on their own and never deleted.              *)
(***************************************************************************)
EXTENDS Naturals, Sequences, FiniteSets

CONSTANTS
    MaxNodes,   \* bound: nodes ever allocated for one document, and
                \* children the owner lets a list grow to
    MaxEdits,   \* bound: insertions and removals by the owner
    MaxItems,   \* bound: children of one list or map literal
    Names,      \* link names
    Keys,       \* map keys
    Paths       \* paths of references: sequences of keys and indices

ASSUME MaxNodesAssumption == MaxNodes \in Nat \ {0}
ASSUME MaxItemsAssumption == MaxItems \in 1..MaxNodes
ASSUME MaxEditsAssumption == MaxEdits \in Nat
ASSUME KeysAssumption     == Keys \cap Nat = {}

Null  == 0
Nodes == 1..MaxNodes
Indices == 0..MaxNodes
Selectors == Indices \cup Keys

ASSUME PathsAssumption == Paths \subseteq Seq(Selectors)

Nothing == [s \in {} |-> Null]   \* no children, no links

Kinds == {"scalar", "list", "map", "link", "attached", "none"}

VARIABLES
    pc,             \* what the document's thread is doing
    kind,           \* type of every node, "unborn" before its allocation
    child,          \* values_list or values_map of every node
    linked,         \* Link::linked, Attached::attached
    stack,          \* the parser's semantic values that are nodes
    named,          \* nodes that came with a link_set
    links_,         \* Builder::links_
    linked_nodes_,  \* Builder::linked_nodes_: link |-> its link_name
    references_,    \* Builder::references_: link |-> its address
    root,           \* Builder::root_
    cur,            \* destination in resolve_destination_node
    freed,          \* nodes deleted
    edits,          \* insertions and removals so far
    dropped,        \* history: second operands of '+'
    orphans,        \* history: nodes handed to a map that had the key
    outputs,        \* history: trees assign_includes attached
    firstNamed,     \* history: the node each name was given to first
    misused         \* history: the owner aliased a node or cut off a link's end

parserVars == <<stack, named, links_, linked_nodes_, references_, root, dropped, outputs,
                firstNamed>>
treeVars   == <<kind, child, linked>>
ownerVars  == <<cur, freed, edits, orphans, misused>>
vars == <<pc, parserVars, treeVars, ownerVars>>

Born == {n \in Nodes : kind[n] # "unborn"}
IsLink(n) == kind[n] \in {"link", "attached"}
Kids(n) == {child[n][s] : s \in DOMAIN child[n]}

(* A list's children have the first indices, a map's have keys, and nothing *)
(* else has any.                                                            *)
WellFormed(n) ==
    /\ DOMAIN child[n] \subseteq Selectors /\ Kids(n) \subseteq Born
    /\ kind[n] = "list" =>
          DOMAIN child[n] = {i \in Nat : i < Cardinality(DOMAIN child[n])} \cap Indices
    /\ kind[n] = "map" => DOMAIN child[n] \subseteq Keys
    /\ kind[n] \notin {"list", "map"} => child[n] = Nothing

TypeOK ==
    /\ pc \in {"parse", "assign", "built", "resolve", "threw", "destroyed", "corrupt"}
    /\ kind \in [Nodes -> Kinds \cup {"unborn"}]
    /\ \A n \in Nodes : WellFormed(n)
    /\ linked \in [Nodes -> Nodes \cup {Null}]
    /\ stack \in Seq(Born)
    /\ named \subseteq Born
    /\ DOMAIN links_ \subseteq Names
    /\ DOMAIN linked_nodes_ \cup DOMAIN references_ \subseteq {n \in Born : kind[n] = "link"}
    /\ root \in Nodes \cup {Null}
    /\ cur \in Nodes \cup {Null}
    /\ freed \subseteq Born
    /\ edits \in 0..MaxEdits
    /\ dropped \cup orphans \cup outputs \subseteq Born
    /\ misused \in BOOLEAN

Init ==
    /\ pc = "parse"
    /\ kind = [n \in Nodes |-> "unborn"]
    /\ child = [n \in Nodes |-> Nothing]
    /\ linked = [n \in Nodes |-> Null]
    /\ stack = <<>>
    /\ named = {}
    /\ links_ = Nothing
    /\ linked_nodes_ = Nothing
    /\ references_ = Nothing
    /\ root = Null
    /\ cur = Null
    /\ freed = {}
    /\ edits = 0
    /\ dropped = {}
    /\ orphans = {}
    /\ outputs = {}
    /\ firstNamed = Nothing
    /\ misused = FALSE

-----------------------------------------------------------------------------
(* Helpers.  A definition marked "slip" is a plausible mistake in the one  *)
(* that follows it; no action uses it.                                     *)

With(f, x, y) == [z \in DOMAIN f \cup {x} |-> IF z = x THEN y ELSE f[z]]
Without(f, x) == [z \in DOMAIN f \ {x} |-> f[z]]

(* unordered_map::insert: an element that is there stays. *)
Overwritten(f, x, y) == With(f, x, y)      \* slip: operator[] instead of insert
Inserted(f, x, y) == IF x \in DOMAIN f THEN f ELSE With(f, x, y)

(* at() of the node's own class: Null stands for its exceptions. *)
At(n, s) == IF s \in DOMAIN child[n] THEN child[n][s] ELSE Null

(* dig: from the root, one at() for each element; links are not followed. *)
Dig(path) ==
    LET reached[i \in 0..Len(path)] ==
            IF i = 0 THEN root
            ELSE IF reached[i - 1] = Null THEN Null
            ELSE At(reached[i - 1], path[i])
    IN  reached[Len(path)]

(* The least set with n that has next[m] for each of its members m. *)
Closure(n, next) ==
    {m \in Nodes : \A S \in SUBSET Nodes :
                       n \in S /\ (\A p \in S : next[p] \subseteq S) => m \in S}

(* What delete n deletes: a list and a map delete their children, a link   *)
(* and an attached node own nothing.                                       *)
OnlyItself(n) == {n}                       \* slip: the destructor has no loop
Subtree(n) == Closure(n, [m \in Nodes |-> Kids(m)])

(* The children of a list or a map without the one at s: vector::erase      *)
(* moves the later ones up.                                                 *)
NotErased(n, s) == child[n]                \* slip: deleted but not erased
HoleLeft(n, s) == Without(child[n], s)     \* slip: the later ones stay where they are
Erased(n, s) ==
    IF kind[n] = "map" THEN Without(child[n], s)
    ELSE [i \in {j \in Indices : j + 1 \in DOMAIN child[n]} |->
             IF i < s THEN child[n][i] ELSE child[n][i + 1]]

(* vector::insert at i, and map::emplace at i. *)
Put(n, i, e) ==
    IF kind[n] = "map" THEN Inserted(child[n], i, e)
    ELSE [j \in DOMAIN child[n] \cup {Cardinality(DOMAIN child[n])} |->
             IF j < i THEN child[n][j] ELSE IF j = i THEN e ELSE child[n][j - 1]]

(* Where insert can put a child: SIZE_MAX stands for the end of a list. An  *)
(* index past the end is undefined in vector::insert and left out.          *)
Places(n) ==
    IF kind[n] = "map" THEN Keys
    ELSE {i \in 0..Cardinality(DOMAIN child[n]) : Cardinality(DOMAIN child[n]) < MaxNodes}

(* One turn of the loop in resolve_destination_node. *)
Hold(n) == n                               \* slip: destination is not advanced
Hop(n) == linked[n]

Fresh == Cardinality(Born) + 1

Top == stack[Len(stack)]
Under(k) == SubSeq(stack, 1, Len(stack) - k)
Popped(k) == SubSeq(stack, Len(stack) - k + 1, Len(stack))

-----------------------------------------------------------------------------
(* The parser. *)

New(k) ==
    /\ Fresh <= MaxNodes
    /\ kind' = [kind EXCEPT ![Fresh] = k]

(* A new leaf of the given kind, on the stack. *)
Leaf(k) ==
    /\ pc = "parse"
    /\ New(k)
    /\ stack' = Append(stack, Fresh)

ParseScalar ==
    /\ Leaf("scalar")
    /\ UNCHANGED <<pc, child, linked, named, links_, linked_nodes_, references_, root,
                   dropped, outputs, firstNamed, ownerVars>>

(* link_use by name. *)
UseLink(name) ==
    /\ Leaf("link")
    /\ linked_nodes_' = With(linked_nodes_, Fresh, name)
    /\ UNCHANGED <<pc, child, linked, named, links_, references_, root, dropped,
                   outputs, firstNamed, ownerVars>>

(* link_use by path. *)
UseRef(path) ==
    /\ Leaf("link")
    /\ references_' = With(references_, Fresh, path)
    /\ UNCHANGED <<pc, child, linked, named, links_, linked_nodes_, root, dropped,
                   outputs, firstNamed, ownerVars>>

(* script_use: the place for the output. *)
UseScript ==
    /\ Leaf("attached")
    /\ UNCHANGED <<pc, child, linked, named, links_, linked_nodes_, references_, root,
                   dropped, outputs, firstNamed, ownerVars>>

(* The last k values become the elements of a list, ... *)
ParseList(k) ==
    /\ pc = "parse"
    /\ k <= Len(stack)
    /\ New("list")
    /\ child' = [child EXCEPT ![Fresh] = [i \in 0..(k - 1) |-> Popped(k)[i + 1]]]
    /\ stack' = Append(Under(k), Fresh)
    /\ UNCHANGED <<pc, linked, named, links_, linked_nodes_, references_, root, dropped,
                   outputs, firstNamed, ownerVars>>

(* ... or, with a key each, of a map. *)
ParseMap(keys) ==
    LET k == Len(keys) IN
    /\ pc = "parse"
    /\ k <= Len(stack)
    /\ \A i, j \in 1..k : keys[i] = keys[j] => i = j
    /\ New("map")
    /\ child' = [child EXCEPT ![Fresh] =
                    [key \in {keys[i] : i \in 1..k} |->
                        Popped(k)[CHOOSE i \in 1..k : keys[i] = key]]]
    /\ stack' = Append(Under(k), Fresh)
    /\ UNCHANGED <<pc, linked, named, links_, linked_nodes_, references_, root, dropped,
                   outputs, firstNamed, ownerVars>>

(* A key that is in the map already, or a syntax error.  What has been     *)
(* built is not deleted.                                                   *)
ParseThrows ==
    /\ pc = "parse"
    /\ pc' = "threw"
    /\ UNCHANGED <<parserVars, treeVars, ownerVars>>

(* node: link_set node_1.  A node takes one name. *)
SetLink(name) ==
    /\ pc = "parse"
    /\ stack # <<>>
    /\ Top \notin named
    /\ named' = named \cup {Top}
    /\ links_' = Inserted(links_, name, Top)
    /\ firstNamed' = IF name \in DOMAIN firstNamed THEN firstNamed
                     ELSE With(firstNamed, name, Top)
    /\ UNCHANGED <<pc, stack, linked_nodes_, references_, root, dropped, outputs,
                   treeVars, ownerVars>>

(* node_1 '+' node_2: the second operand is dropped, not deleted. *)
Sum ==
    /\ pc = "parse"
    /\ Len(stack) >= 2
    /\ Top \notin named
    /\ stack[Len(stack) - 1] \notin named
    /\ stack' = Under(1)
    /\ dropped' = dropped \cup {Top}
    /\ UNCHANGED <<pc, named, links_, linked_nodes_, references_, root, outputs,
                   firstNamed, treeVars, ownerVars>>

(* file: the one value left is the root. *)
ParseFile ==
    /\ pc = "parse"
    /\ Len(stack) = 1
    /\ pc' = "assign"
    /\ root' = Top
    /\ stack' = <<>>
    /\ UNCHANGED <<named, links_, linked_nodes_, references_, dropped, outputs,
                   firstNamed, treeVars, ownerVars>>

ParseEmptyFile ==
    /\ pc = "parse"
    /\ stack = <<>>
    /\ New("none")
    /\ root' = Fresh
    /\ pc' = "assign"
    /\ UNCHANGED <<child, linked, stack, named, links_, linked_nodes_, references_,
                   dropped, outputs, firstNamed, ownerVars>>

-----------------------------------------------------------------------------
(* assign_includes, with what a script's Builder released, a leaf or a list *)
(* here; scripts that failed or are late leave their place empty.           *)
AttachOutput(n, k) ==
    /\ pc = "assign"
    /\ kind[n] = "attached"
    /\ linked[n] = Null
    /\ New(k)
    /\ linked' = [linked EXCEPT ![n] = Fresh]
    /\ outputs' = outputs \cup {Fresh}
    /\ UNCHANGED <<pc, child, stack, named, links_, linked_nodes_, references_, root,
                   dropped, firstNamed, ownerVars>>

(* assign_links. *)

Resolvable ==
    /\ \A l \in DOMAIN linked_nodes_ : linked_nodes_[l] \in DOMAIN links_
    /\ \A l \in DOMAIN references_ : Dig(references_[l]) # Null

AssignLinks ==
    /\ pc = "assign"
    /\ Resolvable
    /\ pc' = "built"
    /\ linked' = [n \in Nodes |->
                     IF n \in DOMAIN linked_nodes_ THEN links_[linked_nodes_[n]]
                     ELSE IF n \in DOMAIN references_ THEN Dig(references_[n])
                     ELSE linked[n]]
    /\ UNCHANGED <<parserVars, kind, child, ownerVars>>

(* A name nobody gave, or a path at() throws on: the constructor is left,  *)
(* root_ is a member and deletes the tree.                                 *)
AssignThrows ==
    /\ pc = "assign"
    /\ ~Resolvable
    /\ pc' = "threw"
    /\ freed' = freed \cup Subtree(root)
    /\ UNCHANGED <<parserVars, treeVars, cur, edits, orphans, misused>>

-----------------------------------------------------------------------------
(* The owner of the built tree.  A Node is made of the root, unless that is *)
(* a link, and of what operator[] of another Node yields.                   *)

Reach(n) == Closure(n, [m \in Nodes |-> Kids(m) \cup ({linked[m]} \ {Null})])

Held == IF IsLink(root) THEN {} ELSE {n \in Reach(root) : ~IsLink(n)} \ freed
Containers == {n \in Held : kind[n] \in {"list", "map"}}

(* operator[]: at() yields a child, and the loop starts at it. *)
Access(n, s) ==
    /\ pc = "built"
    /\ n \in Containers
    /\ At(n, s) # Null
    /\ pc' = "resolve"
    /\ cur' = At(n, s)
    /\ UNCHANGED <<parserVars, treeVars, freed, edits, orphans, misused>>

(* The node at hand was deleted: from here on anything can happen. *)
ResolveFreed ==
    /\ pc = "resolve"
    /\ cur \in freed
    /\ pc' = "corrupt"
    /\ UNCHANGED <<parserVars, treeVars, ownerVars>>

ResolveHop ==
    /\ pc = "resolve"
    /\ cur \notin freed
    /\ IsLink(cur)
    /\ linked[cur] # Null
    /\ cur' = Hop(cur)
    /\ UNCHANGED <<pc, parserVars, treeVars, freed, edits, orphans, misused>>

(* An empty link is an exception, any other node the answer. *)
ResolveEnd ==
    /\ pc = "resolve"
    /\ cur \notin freed
    /\ IsLink(cur) => linked[cur] = Null
    /\ pc' = "built"
    /\ cur' = Null
    /\ UNCHANGED <<parserVars, treeVars, freed, edits, orphans, misused>>

(* delete n deletes some node twice, or one that was deleted before. *)
Owners(m, n) ==
    Cardinality({o \in Subtree(n) \X Selectors :
                    o[2] \in DOMAIN child[o[1]] /\ child[o[1]][o[2]] = m})
DeletesTwice(n) ==
    \/ Subtree(n) \cap freed # {}
    \/ \E m \in Subtree(n) : Owners(m, n) > (IF m = n THEN 0 ELSE 1)

Edit == edits < MaxEdits /\ edits' = edits + 1

Remove(n, s) ==
    /\ pc = "built"
    /\ Edit
    /\ n \in Containers
    /\ s \in DOMAIN child[n]
    /\ LET victim == child[n][s] IN
       /\ pc' = IF DeletesTwice(victim) THEN "corrupt" ELSE pc
       /\ freed' = freed \cup Subtree(victim)
       /\ misused' = (misused \/ \E l \in Born \ (freed \cup Subtree(victim)) :
                                    linked[l] \in Subtree(victim))
    /\ child' = [child EXCEPT ![n] = Erased(n, s)]
    /\ UNCHANGED <<parserVars, kind, linked, cur, orphans>>

(* insert(Node_internal*, ...) of a new node.  A map that has the key does *)
(* not take it, and nobody else does.                                      *)
InsertNew(n, i) ==
    /\ pc = "built"
    /\ Edit
    /\ n \in Containers
    /\ i \in Places(n)
    /\ New("scalar")
    /\ child' = [child EXCEPT ![n] = Put(n, i, Fresh)]
    /\ orphans' = IF kind[n] = "map" /\ i \in DOMAIN child[n]
                  THEN orphans \cup {Fresh} ELSE orphans
    /\ UNCHANGED <<pc, parserVars, linked, cur, freed, misused>>

(* insert(const Node&, ...) shares the other Node's core. *)
InsertNode(n, i, e) ==
    /\ pc = "built"
    /\ Edit
    /\ n \in Containers
    /\ e \in Held
    /\ i \in Places(n)
    /\ child' = [child EXCEPT ![n] = Put(n, i, e)]
    /\ misused' = (misused \/ child' # child)
    /\ UNCHANGED <<pc, parserVars, kind, linked, cur, freed, orphans>>

(* The Builder's unique_ptr deletes the root. *)
Destroy ==
    /\ pc = "built"
    /\ pc' = IF DeletesTwice(root) THEN "corrupt" ELSE "destroyed"
    /\ freed' = freed \cup Subtree(root)
    /\ UNCHANGED <<parserVars, treeVars, cur, edits, orphans, misused>>

-----------------------------------------------------------------------------
KeyLists == UNION {[1..k -> Keys] : k \in 0..MaxItems}

Parse ==
    \/ ParseScalar \/ UseScript \/ Sum \/ ParseFile \/ ParseEmptyFile \/ ParseThrows
    \/ \E name \in Names : UseLink(name) \/ SetLink(name)
    \/ \E path \in Paths : UseRef(path)
    \/ \E k \in 0..MaxItems : ParseList(k)
    \/ \E keys \in KeyLists : ParseMap(keys)

Resolve == ResolveFreed \/ ResolveHop \/ ResolveEnd

Own ==
    \/ \E n \in Nodes, s \in Selectors : Access(n, s) \/ Remove(n, s) \/ InsertNew(n, s)
    \/ \E n, e \in Nodes, s \in Selectors : InsertNode(n, s, e)
    \/ Destroy

Assign ==
    \/ \E n \in Nodes, k \in {"scalar", "list"} : AttachOutput(n, k)
    \/ AssignLinks \/ AssignThrows

Next == Parse \/ Assign \/ Own \/ Resolve

Spec == Init /\ [][Next]_vars

(* operator[] runs on the owner's thread, which is scheduled. *)
FairSpec == Spec /\ WF_vars(Resolve)

-----------------------------------------------------------------------------
(* Properties. *)

(* A link stands for the node its name was given to first in the order of   *)
(* the parser's reductions, wherever the link is and whether or not a sum   *)
(* dropped the node, and links are resolved all or not at all.              *)
FirstNameWins ==
    pc \in {"built", "resolve", "destroyed"} =>
        \A l \in DOMAIN linked_nodes_ :
            linked_nodes_[l] \in DOMAIN firstNamed /\ linked[l] = firstNamed[linked_nodes_[l]]

(* No node is deleted twice and no deleted node is read, unless the owner   *)
(* put one node into two places or removed one that a link outside of it    *)
(* points into.  No document does so by itself, whatever its links.         *)
CorruptionNeedsMisuse == pc = "corrupt" => misused

(* Deleting the root, by the Builder's end or by an exception while links   *)
(* are assigned, deletes every node of the document but the operands that   *)
(* sums dropped, the nodes a map did not take and what scripts put out.     *)
FreedExactly ==
    (pc = "destroyed" \/ (pc = "threw" /\ root # Null)) /\ ~misused =>
        freed = Born \ (orphans \cup UNION {Subtree(d) : d \in dropped \cup outputs})

(* The chain of links from n never comes to a node that is not a link.      *)
Circular(n) ==
    LET hop[i \in 0..MaxNodes] ==
            IF i = 0 THEN n
            ELSE IF hop[i - 1] = Null \/ ~IsLink(hop[i - 1]) THEN hop[i - 1]
            ELSE linked[hop[i - 1]]
    IN  hop[MaxNodes] # Null /\ IsLink(hop[MaxNodes])

(* resolve_destination_node ends on every chain that is not circular.       *)
ResolveEnds == (pc = "resolve" /\ ~Circular(cur)) ~> pc # "resolve"

(* "Iterates through links and attached nodes until it reaches node we can  *)
(* access": the loop reaches one, or throws.                                *)
ResolveReaches == pc = "resolve" ~> pc # "resolve"
=============================================================================
