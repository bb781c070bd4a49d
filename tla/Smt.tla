-------------------------------- MODULE Smt --------------------------------
(***************************************************************************)
(* The compact sparse Merkle tree of smt.rs, the commitment of the         *)
(* registry's state, and the Merkle root of a block's transactions         *)
(* (merkle.rs).                                                            *)
(*                                                                         *)
(* The tree stores only its branch points.  A slot is Empty, Chain(k) (an  *)
(* implicit chain down to leaf k) or NodeRef(d, p) (the nearest branch     *)
(* point below, at depth d under prefix p).  Hashes are terms, so that     *)
(* equal hashes mean equal preimages.  D is the depth (40 in the code) and *)
(* keys are 0 .. 2^D - 1.                                                  *)
(*                                                                         *)
(* dirty_nodes and dirty_leaves are left out: nothing in the program reads *)
(* or drains them.                                                         *)
(***************************************************************************)
EXTENDS Integers, Sequences, SequencesExt, FiniteSetsExt, Functions, TLC

CONSTANTS
    D,       \* depth of the tree
    Entries, \* the pairs <<key, leaf>> that may be inserted; leaves are numbers
    TxIds,   \* transaction ids, numbers
    MaxTxs   \* longest list of transactions

ASSUME SmtAssumption ==
    /\ D \in Nat \ {0}
    /\ Entries \subseteq (0..(2 ^ D - 1)) \X Nat
    /\ TxIds \subseteq Nat
    /\ MaxTxs \in Nat

VARIABLES
    tree,    \* [leaves, buckets, nodes, root_child, root_hash]
    content, \* the entries inserted and not removed since
    txs      \* the transaction ids of the block under construction

vars == <<tree, content, txs>>

-----------------------------------------------------------------------------
\* Hashes, as terms

empty_leaf == <<0>>
Leaf(l) == <<1, <<l>>>>
Node(tag, l, r) == <<tag, l, r>>
node_hash(l, r) == Node(2, l, r)
BucketTag == 3
TxTag == 5

\* default[i]: the value of an empty subtree of height i.
defaults[i \in 0..D] == IF i = 0 THEN empty_leaf ELSE node_hash(defaults[i - 1], defaults[i - 1])

\* One level of a Merkle tree whose last hash is duplicated when the level is odd.
PairUp(level, tag) ==
    [i \in 1..((Len(level) + 1) \div 2) |->
        Node(tag, level[2 * i - 1],
             IF 2 * i <= Len(level) THEN level[2 * i] ELSE level[2 * i - 1])]

RECURSIVE Collapse(_, _)
Collapse(level, tag) == IF Len(level) = 1 THEN level[1] ELSE Collapse(PairUp(level, tag), tag)

\* The Merkle root of the sorted entries of one key; a single entry is its own root.
bucket_merkle_root(v) == Collapse([i \in DOMAIN v |-> Leaf(v[i])], BucketTag)

-----------------------------------------------------------------------------
\* Slots and paths

Empty == <<0, 0, 0>>
Chain(k) == <<1, k, 0>>
NodeRef(d, p) == <<2, d, p>>
is_chain(s) == s[1] = 1
is_node(s) == s[1] = 2
chain_key(s) == s[2]
node_packed(s) == <<s[2], s[3]>>

bit(k, d) == (k \div 2 ^ (D - 1 - d)) % 2
prefix(k, d) == k \div 2 ^ (D - d)

\* The first bit, from the top, where two keys differ.
divergence_depth(a, b) == Min({d \in 0..(D - 1) : bit(a, d) # bit(b, d)})

\* A value at depth hi on the path of k, folded up to depth lo with empty siblings.
Lift(v, k, hi, lo) ==
    LET up[d \in lo..hi] ==
            IF d = hi THEN v
            ELSE IF bit(k, d) = 0 THEN node_hash(up[d + 1], defaults[D - 1 - d])
            ELSE node_hash(defaults[D - 1 - d], up[d + 1])
    IN up[lo]

bucket_root(t, k) ==
    IF k \in DOMAIN t.buckets THEN bucket_merkle_root(t.buckets[k])
    ELSE IF k \in DOMAIN t.leaves THEN Leaf(t.leaves[k])
    ELSE empty_leaf

fold(t, k, from) == Lift(bucket_root(t, k), k, D, from)

\* The value of a slot below a node at parent_depth; the root slot has parent depth -1.
child_value(t, slot, parent_depth) ==
    IF slot = Empty THEN defaults[D - 1 - parent_depth]
    ELSE IF is_chain(slot) THEN fold(t, chain_key(slot), parent_depth + 1)
    ELSE LET d == slot[2]
         IN Lift(t.nodes[node_packed(slot)].hash, slot[3] * 2 ^ (D - d), d, parent_depth + 1)

root_value(t) == child_value(t, t.root_child, -1)

\* Descends through the branch points that cover key: the path taken, and the slot it ends in.
RECURSIVE locate_full(_, _, _, _)
locate_full(t, key, slot, stack) ==
    IF is_node(slot) /\ prefix(key, slot[2]) = slot[3]
    THEN LET n == t.nodes[node_packed(slot)]
             b == bit(key, slot[2])
         IN locate_full(t, key, IF b = 0 THEN n.left ELSE n.right,
                        Append(stack, [node |-> node_packed(slot), bit |-> b]))
    ELSE [stack |-> stack, slot |-> slot]

locate(t, key) == locate_full(t, key, t.root_child, <<>>)

\* The slot at the end of a path: a child of its last node, or the root slot.
write_slot(t, stack, val) ==
    IF stack = <<>> THEN [t EXCEPT !.root_child = val]
    ELSE IF Last(stack).bit = 0 THEN [t EXCEPT !.nodes[Last(stack).node].left = val]
    ELSE [t EXCEPT !.nodes[Last(stack).node].right = val]

\* Mutant: a node on the path is rehashed with an empty sibling.
recompute_from_mut(t, key, v0, depth) ==
    LET Step(acc, d) ==
            LET p == <<d, prefix(key, d)>>
                sib == defaults[D - 1 - d]
                v == IF bit(key, d) = 0 THEN node_hash(acc.v, sib) ELSE node_hash(sib, acc.v)
            IN [t |-> IF p \in DOMAIN acc.t.nodes THEN [acc.t EXCEPT !.nodes[p].hash = v]
                      ELSE acc.t,
                v |-> v]
        end == FoldLeft(Step, [t |-> t, v |-> v0], [i \in 1..depth |-> depth - i])
    IN [end.t EXCEPT !.root_hash = <<end.v>>]

\* Rehashes the path of key from depth to the root, the branch points on it included.
recompute_from(t, key, v0, depth) ==
    LET Step(acc, d) ==
            LET p == <<d, prefix(key, d)>>
                b == bit(key, d)
                sib == IF p \notin DOMAIN acc.t.nodes THEN defaults[D - 1 - d]
                       ELSE child_value(acc.t, IF b = 0 THEN acc.t.nodes[p].right
                                               ELSE acc.t.nodes[p].left, d)
                v == IF b = 0 THEN node_hash(acc.v, sib) ELSE node_hash(sib, acc.v)
            IN [t |-> IF p \in DOMAIN acc.t.nodes THEN [acc.t EXCEPT !.nodes[p].hash = v]
                      ELSE acc.t,
                v |-> v]
        end == FoldLeft(Step, [t |-> t, v |-> v0], [i \in 1..depth |-> depth - i])
    IN [end.t EXCEPT !.root_hash = <<end.v>>]

recompute(t, key) == recompute_from(t, key, bucket_root(t, key), D)

-----------------------------------------------------------------------------
\* insert and remove

Without(f, k) == Restrict(f, DOMAIN f \ {k})
Sorted(S) == SetToSortSeq(S, <)

\* The leaves of a key: none, one leaf, or a sorted bucket of several.
LeavesOf(t, k) ==
    IF k \in DOMAIN t.buckets THEN Range(t.buckets[k])
    ELSE IF k \in DOMAIN t.leaves THEN {t.leaves[k]}
    ELSE {}

WithLeaves(t, k, S) ==
    [t EXCEPT !.leaves = IF Cardinality(S) = 1 THEN (k :> CHOOSE l \in S : TRUE) @@ Without(@, k)
                         ELSE Without(@, k),
              !.buckets = IF Cardinality(S) > 1 THEN (k :> Sorted(S)) @@ Without(@, k)
                          ELSE Without(@, k)]

\* A new branch point where the path of key leaves the subtree in the slot it reached.
Branch(t, key, at, div, side) ==
    LET p == <<div, prefix(key, div)>>
        node == [hash |-> empty_leaf,
                 left |-> IF bit(key, div) = 0 THEN Chain(key) ELSE side,
                 right |-> IF bit(key, div) = 0 THEN side ELSE Chain(key)]
    IN write_slot([t EXCEPT !.nodes = @ @@ (p :> node)], at.stack, NodeRef(div, p[2]))

\* The structural half of insert, by what the path of key ends in.
Attach(t, key, at) ==
    IF at.slot = Empty THEN write_slot(t, at.stack, Chain(key))
    ELSE IF is_chain(at.slot)
    THEN IF chain_key(at.slot) = key THEN t
         ELSE Branch(t, key, at, divergence_depth(chain_key(at.slot), key), at.slot)
    ELSE Branch(t, key, at,
                divergence_depth(at.slot[3] * 2 ^ (D - at.slot[2]), key), at.slot)

insert(t, key, leaf) ==
    IF leaf \in LeavesOf(t, key) THEN t
    ELSE LET t1 == WithLeaves(t, key, LeavesOf(t, key) \cup {leaf})
         IN recompute(Attach(t1, key, locate(t1, key)), key)

\* Mutant: the collapsed branch point stays in the map of nodes.
Detach_mut(t, key, at) ==
    IF at.stack = <<>> THEN [t EXCEPT !.root_child = Empty, !.root_hash = <<>>]
    ELSE LET last == Last(at.stack)
             other == IF last.bit = 0 THEN t.nodes[last.node].right ELSE t.nodes[last.node].left
             above == Front(at.stack)
             t2 == write_slot(t, above, other)
         IN IF above = <<>> THEN [t2 EXCEPT !.root_hash = <<root_value(t2)>>]
            ELSE LET d == Last(above).node[1]
                 IN recompute_from(t2, key, child_value(t2, other, d), d + 1)

\* The structural half of remove, when the key lost its last leaf: the branch point above
\* its chain collapses into its other child, which the next one up, or the root, adopts.
\* A branch point has no empty child, so the collapse never climbs further.
Detach(t, key, at) ==
    IF at.stack = <<>> THEN [t EXCEPT !.root_child = Empty, !.root_hash = <<>>]
    ELSE LET last == Last(at.stack)
             other == IF last.bit = 0 THEN t.nodes[last.node].right ELSE t.nodes[last.node].left
             above == Front(at.stack)
             t2 == write_slot([t EXCEPT !.nodes = Without(@, last.node)], above, other)
         IN IF above = <<>> THEN [t2 EXCEPT !.root_hash = <<root_value(t2)>>]
            ELSE LET d == Last(above).node[1]
                 IN recompute_from(t2, key, child_value(t2, other, d), d + 1)

remove(t, key, leaf) ==
    IF leaf \notin LeavesOf(t, key) THEN t
    ELSE LET t1 == WithLeaves(t, key, LeavesOf(t, key) \ {leaf})
         IN IF LeavesOf(t1, key) = {} THEN Detach(t1, key, locate(t1, key))
            ELSE recompute(t1, key)

\* A changed entry: the exact old leaf is removed, then the new one inserted.
smt_put(t, key, old, new) == insert(remove(t, key, old), key, new)

\* The cached root; an empty tree has none.
root(t) == IF t.root_hash = <<>> THEN defaults[D] ELSE t.root_hash[1]

-----------------------------------------------------------------------------
\* merkle.rs

tx_leaf_hash(id) == <<4, <<id>>>>

\* Mutant: the ids are sorted before they are hashed.
merkle_root_mut(ids) ==
    IF ids = <<>> THEN <<6>>
    ELSE Collapse([i \in DOMAIN ids |-> tx_leaf_hash(SortSeq(ids, <)[i])], TxTag)

merkle_root(ids) ==
    IF ids = <<>> THEN <<6>>
    ELSE Collapse([i \in DOMAIN ids |-> tx_leaf_hash(ids[i])], TxTag)

-----------------------------------------------------------------------------
\* The machine

Init ==
    /\ tree = [leaves |-> <<>>, buckets |-> <<>>, nodes |-> <<>>, root_child |-> Empty,
               root_hash |-> <<>>]
    /\ content = {}
    /\ txs = <<>>

InsertEntry(e) ==
    /\ tree' = insert(tree, e[1], e[2])
    /\ content' = content \cup {e}
    /\ UNCHANGED txs

RemoveEntry(e) ==
    /\ tree' = remove(tree, e[1], e[2])
    /\ content' = content \ {e}
    /\ UNCHANGED txs

UpdateEntry(e, leaf) ==
    /\ e \in content
    /\ tree' = smt_put(tree, e[1], e[2], leaf)
    /\ content' = (content \ {e}) \cup {<<e[1], leaf>>}
    /\ UNCHANGED txs

\* A block's list of transactions grows while the tree is still empty (the two are
\* independent; this only keeps their product out of the state space).
AddTx(id) ==
    /\ content = {}
    /\ Len(txs) < MaxTxs
    /\ txs' = Append(txs, id)
    /\ UNCHANGED <<tree, content>>

Next ==
    \/ \E e \in Entries : txs = <<>> /\ InsertEntry(e)
    \/ \E e \in Entries : txs = <<>> /\ RemoveEntry(e)
    \/ \E e, f \in Entries : e[1] = f[1] /\ txs = <<>> /\ UpdateEntry(e, f[2])
    \/ \E id \in TxIds : AddTx(id)

Spec == Init /\ [][Next]_vars

-----------------------------------------------------------------------------
\* The reference: the full tree of depth D over the entries

Under(S, d, p) == {e \in S : prefix(e[1], d) = p}

RECURSIVE FullTree(_, _, _)
FullTree(S, d, p) ==
    IF d = D
    THEN IF S = {} THEN empty_leaf ELSE bucket_merkle_root(Sorted({e[2] : e \in S}))
    ELSE node_hash(FullTree(Under(S, d + 1, 2 * p), d + 1, 2 * p),
                   FullTree(Under(S, d + 1, 2 * p + 1), d + 1, 2 * p + 1))

BranchPoints(S) ==
    {n \in UNION {{d} \X (0..(2 ^ d - 1)) : d \in 0..(D - 1)} :
        /\ Under(S, n[1] + 1, 2 * n[2]) # {}
        /\ Under(S, n[1] + 1, 2 * n[2] + 1) # {}}

(* smt.rs "identical root for any (key -> leaf) set regardless of             *)
(* insertion/removal order": after any sequence of inserts and removals,      *)
(* through collapses, bucket growth and shrinking, the cached root is the     *)
(* root of the full tree over exactly the entries that are in.                *)
RootCommits ==
    /\ UNION {{k} \X LeavesOf(tree, k) : k \in DOMAIN tree.leaves \cup DOMAIN tree.buckets}
           = content
    /\ root(tree) = FullTree(content, 0, 0)

(* smt.rs "the physical shape (which slots, which ids) depends ONLY on the    *)
(* key set": the nodes kept are the branch points of the keys, each with the  *)
(* hash of its subtree; a leftover node would be rehashed into a wrong root   *)
(* by a later insert below it, and would make two equal states unequal.       *)
ShapeOfKeys ==
    /\ DOMAIN tree.nodes = BranchPoints(content)
    /\ \A n \in DOMAIN tree.nodes :
           tree.nodes[n].hash = FullTree(Under(content, n[1], n[2]), n[1], n[2])
    /\ tree.root_child = Empty <=> content = {}

Distinct(ids) == \A i, j \in DOMAIN ids : ids[i] = ids[j] => i = j
Lists == UNION {[1..n -> TxIds] : n \in 0..MaxTxs}

(* merkle.rs and block_hash.rs: the root of a block's transactions determines *)
(* the list and its order, as long as no transaction is in a list twice.      *)
TxRootCommitsDistinct ==
    Distinct(txs) =>
        \A ids \in Lists : Distinct(ids) /\ merkle_root(ids) = merkle_root(txs) => ids = txs

(* block_hash.rs:18 "the header's tx_root already commits to the ordered      *)
(* transaction list", stated for every list.                                  *)
TxRootCommits ==
    \A ids \in Lists : merkle_root(ids) = merkle_root(txs) => ids = txs
=============================================================================
