--------------------------------- MODULE Trie ---------------------------------
(***************************************************************************)
(* The content-addressed trie of core/tree (a hash array mapped trie with  *)
(* buckets), as the incremental operations of trie.rs build it.            *)
(*                                                                         *)
(* A node is stored under the hash of its content, so a link is            *)
(* represented by the node it names, and two tries have the same root hash *)
(* exactly when they are equal as values here.  The root tracker and the   *)
(* revision engine rest on that: a root maintained put by put must be the  *)
(* root a rebuild from the bindings gives.                                 *)
(***************************************************************************)
EXTENDS Naturals, Sequences, SequencesExt, FiniteSets

CONSTANTS
  NumKeys,      \* relative keys, numbered in lexical order
  Vals,         \* value hashes
  Nil,          \* absent
  Slices,       \* values of a bit slice, 0..K-1 in the code
  Levels,       \* bound: slices of a key hash (51 in the code)
  BucketSize    \* BUCKET_SIZE

Keys == 1..NumKeys

ASSUME TrieAssumption ==
  /\ NumKeys \in Nat
  /\ Slices \subseteq Nat
  /\ Levels \in Nat \ {0}
  /\ BucketSize \in Nat \ {0}
  /\ Nil \notin Vals

VARIABLES
  keyHash,    \* key_hash: the slices of every key's hash, level by level
  trie,       \* the root node
  bindings    \* history: the bindings put and not removed since

vars == <<keyHash, trie, bindings>>

-----------------------------------------------------------------------------
(* map is the bitmap, as the set of occupied positions; data holds the      *)
(* entries of the occupied positions, densely, in the order of positions.   *)

Empty == [map |-> {}, data |-> <<>>]

Bucket(ts) == [kind |-> "bucket", tuples |-> ts]
Link(n)    == [kind |-> "link", sub |-> n]

\* The index of position p in data, counted from 1.
Position(map, p) == Cardinality({q \in map : q < p}) + 1

SortTuples(ts) == SortSeq(ts, LAMBDA a, b : a[1] < b[1])

Holds(ts, k) == \E i \in DOMAIN ts : ts[i][1] = k

Slice(k, level) == keyHash[k][level + 1]

\* Mutant: a key present keeps its old value.
PutTupleLost(ts, k, v) ==
  IF Holds(ts, k) THEN ts ELSE SortTuples(Append(ts, <<k, v>>))

\* A key present has its value replaced, a new one is sorted in.
PutTuple(ts, k, v) ==
  IF Holds(ts, k) THEN [i \in DOMAIN ts |-> IF ts[i][1] = k THEN <<k, v>> ELSE ts[i]]
  ELSE SortTuples(Append(ts, <<k, v>>))

RECURSIVE PutAtNode(_, _, _, _)
PutAtNode(node, level, k, v) ==
  LET p     == Slice(k, level)
      i     == Position(node.map, p)
      entry == node.data[i]
      With(e) == [node EXCEPT !.data[i] = e]
  IN  CASE p \notin node.map ->
             [map |-> node.map \cup {p},
              data |-> InsertAt(node.data, i, Bucket(<<<<k, v>>>>))]
        [] p \in node.map /\ entry.kind = "link" ->
             With(Link(PutAtNode(entry.sub, level + 1, k, v)))
        [] p \in node.map /\ entry.kind = "bucket"
             /\ (Holds(entry.tuples, k) \/ Len(entry.tuples) < BucketSize) ->
             With(Bucket(PutTuple(entry.tuples, k, v)))
        [] OTHER ->
             LET Put(n, kv) == PutAtNode(n, level + 1, kv[1], kv[2])
             IN  With(Link(FoldLeft(Put, Empty, Append(entry.tuples, <<k, v>>))))

\* All tuples below a node, in the order of the walk; count_entries is its
\* length.
RECURSIVE FlattenEntries(_)
FlattenEntries(node) ==
  FoldLeft(LAMBDA acc, e : acc \o (IF e.kind = "bucket" THEN e.tuples
                                   ELSE FlattenEntries(e.sub)),
           <<>>, node.data)

\* Mutant: the lower bound of a sub-node is off by one.
TooSmallByOne(node) == Len(FlattenEntries(node)) < BucketSize

\* A sub-node below the canonical form's lower bound is inlined in its parent.
TooSmall(node) == Len(FlattenEntries(node)) < BucketSize + 1

\* The node without the entry at p, or with e in its place.
Drop(node, p) ==
  [map |-> node.map \ {p}, data |-> RemoveAt(node.data, Position(node.map, p))]
Replace(node, p, e) == [node EXCEPT !.data[Position(node.map, p)] = e]

RECURSIVE RemoveAtNode(_, _, _)
RemoveAtNode(node, level, k) ==
  LET p     == Slice(k, level)
      entry == node.data[Position(node.map, p)]
      rest  == SelectSeq(entry.tuples, LAMBDA kv : kv[1] # k)
      sub   == RemoveAtNode(entry.sub, level + 1, k)
      flat  == FlattenEntries(sub)
  IN  CASE p \notin node.map -> node
        [] p \in node.map /\ entry.kind = "bucket" ->
             IF rest = <<>> THEN Drop(node, p) ELSE Replace(node, p, Bucket(rest))
        [] p \in node.map /\ entry.kind = "link" ->
             CASE sub = entry.sub -> node
               [] sub # entry.sub /\ ~TooSmall(sub) -> Replace(node, p, Link(sub))
               [] sub # entry.sub /\ TooSmall(sub) /\ flat = <<>> -> Drop(node, p)
               [] OTHER -> Replace(node, p, Bucket(SortTuples(flat)))

\* trie_step and the walk of trie_get.
RECURSIVE GetAtNode(_, _, _)
GetAtNode(node, level, k) ==
  LET p     == Slice(k, level)
      entry == node.data[Position(node.map, p)]
      found == SelectSeq(entry.tuples, LAMBDA kv : kv[1] = k)
  IN  CASE p \notin node.map -> Nil
        [] p \in node.map /\ entry.kind = "bucket" ->
             IF found = <<>> THEN Nil ELSE found[1][2]
        [] OTHER -> GetAtNode(entry.sub, level + 1, k)

\* build_trie: the bindings put in lexical order of their keys.
BuildTrie(b) ==
  LET bound == SelectSeq([k \in Keys |-> <<k, b[k]>>], LAMBDA kv : kv[2] # Nil)
  IN  FoldLeft(LAMBDA n, kv : PutAtNode(n, 0, kv[1], kv[2]), Empty, bound)

-----------------------------------------------------------------------------
Init ==
  /\ keyHash \in {f \in [Keys -> [1..Levels -> Slices]] : IsInjective(f)}
  /\ trie = Empty
  /\ bindings = [k \in Keys |-> Nil]

TriePut(k, v) ==
  /\ trie' = PutAtNode(trie, 0, k, v)
  /\ bindings' = [bindings EXCEPT ![k] = v]
  /\ UNCHANGED keyHash

TrieRemove(k) ==
  /\ trie' = RemoveAtNode(trie, 0, k)
  /\ bindings' = [bindings EXCEPT ![k] = Nil]
  /\ UNCHANGED keyHash

Next == \E k \in Keys : (\E v \in Vals : TriePut(k, v)) \/ TrieRemove(k)

Spec == Init /\ [][Next]_vars

-----------------------------------------------------------------------------
\* Whatever puts and removes led here, in whatever order, the root is the one a
\* rebuild from the bindings gives: the trie has no memory of its history.
HistoryIndependent == trie = BuildTrie(bindings)

\* Every key looks up to what it was last bound to.
LookupsAgree == \A k \in Keys : GetAtNode(trie, 0, k) = bindings[k]
=============================================================================
