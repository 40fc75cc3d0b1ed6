------------------------------- MODULE Outbox -------------------------------
(***************************************************************************)
(* The tree of the messages sent to L1: the accumulator that ArbOS appends *)
(* to (arbos/merkleAccumulator) and the events ArbSys logs for it, the     *)
(* tree the accumulator summarises (util/merkletree), and the proof that a *)
(* node puts together from the events for any leaf of any earlier size of  *)
(* the tree (NodeInterface.ConstructOutboxProof).  Hashes are nested       *)
(* tuples, so that two hashes are equal only if their preimages are.       *)
(***************************************************************************)
EXTENDS Integers, Sequences, SequencesExt, FiniteSets, Folds

CONSTANTS ObMaxSends,    \* bound on the messages
          ObMaxBlocks    \* bound on the blocks

VARIABLES acc,           \* the MerkleAccumulator: its size and its partials
          tree,          \* the MerkleTree of the same messages
          roots,         \* the root at each size so far
          blocks         \* the blocks: the logs and the SendCount of each; the last is being built

obVars == <<acc, tree, roots, blocks>>

NoHash == <<>>
Send(i) == [k \in 1 .. i + 3 |-> <<>>]     \* the i-th message
Keccak(a) == <<a>>
Keccak2(a, b) == <<a, b>>

Log2ceil(v) == CHOOSE n \in 0 .. 64 : 2 ^ n > v /\ \A m \in 0 .. n - 1 : 2 ^ m <= v
NextPowerOf2(v) == 2 ^ Log2ceil(v)
Bit(v, level) == (v \div 2 ^ level) % 2
-----------------------------------------------------------------------------
(* The accumulator: partials[l + 1] is the hash of a full subtree of 2^l   *)
(* messages, or no hash.                                                    *)

NoEvents == <<>>

\* The partial that was combined into the next level is zeroed.
Carry(level, partials) == [partials EXCEPT ![level + 1] = NoHash]

RECURSIVE AppendAt(_, _, _, _, _)
AppendAt(level, soFar, partials, size, events) ==
  IF level = Len(partials) THEN [partials |-> Append(partials, soFar), events |-> events]
  ELSE IF partials[level + 1] = NoHash THEN [partials |-> [partials EXCEPT ![level + 1] = soFar], events |-> events]
  ELSE LET hash == Keccak2(partials[level + 1], soFar)
       IN  AppendAt(level + 1, hash, Carry(level, partials), size,
                    Append(events, [level |-> level + 1, leaf |-> size - 1, hash |-> hash]))

AccAppend(a, item) ==
  LET r == AppendAt(0, Keccak(item), a.partials, a.size + 1, NoEvents)
  IN  [acc |-> [size |-> a.size + 1, partials |-> r.partials], events |-> r.events]

\* Root folds the partials from the lowest level on.
RECURSIVE Lift(_, _, _)
Lift(hash, inHash, capacity) == IF inHash < capacity THEN Lift(Keccak2(hash, NoHash), 2 * inHash, capacity) ELSE hash

Root(a) ==
  IF a.size = 0 THEN NoHash
  ELSE FoldLeft(LAMBDA r, level :
                  LET partial == a.partials[level + 1]
                  IN  IF partial = NoHash THEN r
                      ELSE IF r.hash = NoHash THEN [hash |-> partial, in |-> 2 ^ level]
                      ELSE [hash |-> Keccak2(partial, Lift(r.hash, r.in, 2 ^ level)), in |-> 2 * 2 ^ level],
                [hash |-> NoHash, in |-> 0], [i \in 1 .. Log2ceil(a.size) |-> i - 1]).hash

\* The size that NewNonpersistentMerkleAccumulatorFromPartials computes.
SizeFromPartials(partials) ==
  FoldLeft(LAMBDA n, level : IF partials[level + 1] # NoHash THEN n + 2 ^ level ELSE n, 0, [i \in 1 .. Len(partials) |-> i - 1])
-----------------------------------------------------------------------------
(* The tree: leaves, empty subtrees, inner nodes, and summaries of full    *)
(* subtrees.                                                                *)

Leaf(item) == [kind |-> "leaf", hash |-> Keccak(item), size |-> 1, capacity |-> 1, item |-> item]
Empty(capacity) == [kind |-> "empty", hash |-> NoHash, size |-> 0, capacity |-> capacity]
Internal(l, r) == [kind |-> "internal", hash |-> Keccak2(l.hash, r.hash), size |-> l.size + r.size,
                   capacity |-> l.capacity + r.capacity, left |-> l, right |-> r]
Summary(hash, capacity) == [kind |-> "summary", hash |-> hash, size |-> capacity, capacity |-> capacity]

RECURSIVE EmptyAppend(_, _)
EmptyAppend(capacity, item) ==
  IF capacity <= 1 THEN Leaf(item) ELSE Internal(EmptyAppend(capacity \div 2, item), Empty(capacity \div 2))

RECURSIVE TreeAppend(_, _)
TreeAppend(t, item) ==
  CASE t.kind = "leaf" -> Internal(t, Leaf(item))
    [] t.kind = "empty" -> EmptyAppend(t.capacity, item)
    [] t.kind = "summary" -> Internal(t, EmptyAppend(t.capacity, item))
    [] t.kind = "internal" ->
         IF t.size = t.capacity THEN Internal(t, EmptyAppend(t.capacity, item))
         ELSE IF 2 * t.size < t.capacity THEN Internal(TreeAppend(t.left, item), t.right)
         ELSE Internal(t.left, TreeAppend(t.right, item))

\* summaryFromMerkleTree panics on a subtree that is not full.
Summarize(t) == IF t.size = 1 THEN t ELSE IF t.size # t.capacity THEN [kind |-> "panic", hash |-> NoHash, size |-> 0, capacity |-> 0]
                ELSE Summary(t.hash, t.capacity)

\* The part to summarise reaches into the right subtree.
TurnRight(num, leftSize) == num > leftSize

RECURSIVE SummarizeUpTo(_, _)
SummarizeUpTo(t, num) ==
  IF t.kind # "internal" THEN t
  ELSE IF num = t.capacity THEN Summarize(t)
  ELSE IF ~TurnRight(num, t.left.size) THEN Internal(SummarizeUpTo(t.left, num), t.right)
  ELSE Internal(Summarize(t.left), SummarizeUpTo(t.right, num - t.left.size))

\* Serialize writes a tree in prefix order; NewMerkleTreeFromReader reads one tree and
\* leaves the rest.
RECURSIVE Serialize(_)
Serialize(t) ==
  CASE t.kind = "leaf" -> <<[kind |-> "leaf", item |-> t.item]>>
    [] t.kind = "empty" -> <<[kind |-> "empty", capacity |-> t.capacity]>>
    [] t.kind = "summary" -> <<[kind |-> "summary", capacity |-> t.capacity, hash |-> t.hash]>>
    [] t.kind = "internal" -> <<[kind |-> "internal"]>> \o Serialize(t.left) \o Serialize(t.right)

RECURSIVE FromReader(_)
FromReader(rd) ==
  LET head == rd[1]
      rest == Tail(rd)
  IN  CASE head.kind = "leaf" -> [tree |-> Leaf(head.item), rest |-> rest]
        [] head.kind = "empty" -> [tree |-> Empty(head.capacity), rest |-> rest]
        [] head.kind = "summary" -> [tree |-> Summary(head.hash, head.capacity), rest |-> rest]
        [] head.kind = "internal" ->
             LET left == FromReader(rest)
                 right == FromReader(left.rest)
             IN  [tree |-> Internal(left.tree, right.tree), rest |-> right.rest]
-----------------------------------------------------------------------------
(* ConstructOutboxProof.  A place is a level and the last leaf below it.   *)

Place(level, leaf) == [level |-> level, leaf |-> leaf]
Balanced(size) == size = NextPowerOf2(size) \div 2
WalkLevels(size) == IF Balanced(size) THEN Log2ceil(size) - 1 ELSE Log2ceil(size)

\* The siblings on the way up from a leaf, approaching each level from the right: the
\* bits of the leaf below the level are set, and the bit of the level is flipped.
Nodes(size, leaf) ==
  [i \in 1 .. WalkLevels(size) |->
     LET level == i - 1
         place == (leaf \div 2 ^ level) * 2 ^ level + (2 ^ level - 1)
     IN  Place(level, IF Bit(leaf, level) = 1 THEN place - 2 ^ level ELSE place + 2 ^ level)]

\* The partials follow the bits of the size, the last leaf of each counted from the top.
Partials(size) ==
  IF Balanced(size) THEN {}
  ELSE {Place(level, (size \div 2 ^ level) * 2 ^ level - 1) : level \in {l \in 0 .. Log2ceil(size) - 1 : Bit(size, l) = 1}}

Query(size, leaf) ==
  {Place(0, leaf)} \cup {p \in Range(Nodes(size, leaf)) : p.leaf < size} \cup Partials(size)

\* A variant that leaves the leaves of the middle block to the upper half.
OlderThanStrict(find, count) == {p \in find : p.leaf + 1 < count}
\* The places that are older than the midpoint of the search.
OlderThan(find, count) == {p \in find : p.leaf < count}

\* The binary search over the blocks for the logs of the queried places.
RECURSIVE Search(_, _, _, _)
Search(lo, hi, find, query) ==
  LET mid == (lo + hi) \div 2
      lower == OlderThan(find, blocks[mid + 1].count)
      upper == find \ lower
  IN  IF lo = hi THEN {l \in Range(blocks[mid + 1].logs) : Place(l.level, l.leaf) \in query}
      ELSE (IF lower # {} THEN Search(lo, mid, lower, query) ELSE {})
           \cup (IF upper # {} THEN Search(mid + 1, hi, upper, query) ELSE {})

\* A partial on the frontier lies to the left of the walk.
StepsLeft(level, partialLevels) == level \in partialLevels

\* The walk along the boundary of what is known, from the sibling of the lowest partial up
\* to the root; known maps places to hashes.
RECURSIVE Walk(_, _, _, _)
Walk(step, known, partialLevels, levels) ==
  LET width == 2 ^ step.level
      aside == IF StepsLeft(step.level, partialLevels) THEN Place(step.level, step.leaf - width) ELSE Place(step.level, step.leaf + width)
      left == IF StepsLeft(step.level, partialLevels) THEN known[aside] ELSE known[step]
      right == IF StepsLeft(step.level, partialLevels) THEN known[step] ELSE NoHash
      parent == Place(step.level + 1, IF Bit(aside.leaf, step.level) = 1 THEN aside.leaf ELSE aside.leaf + width)
      known2 == [p \in DOMAIN known \cup {aside, parent} |->
                   IF p = parent THEN Keccak2(left, right)
                   ELSE IF p = aside /\ ~StepsLeft(step.level, partialLevels) THEN NoHash ELSE known[p]]
  IN  IF step.level >= levels THEN [ok |-> TRUE, known |-> known]
      ELSE IF step \notin DOMAIN known \/ (StepsLeft(step.level, partialLevels) /\ aside \notin DOMAIN known)
      THEN [ok |-> FALSE, known |-> known]
      ELSE Walk(parent, known2, partialLevels, levels)

\* MerkleProof.IsCorrect: the root that a leaf and its siblings lead to.
ProofRoot(leafHash, leaf, hashes) ==
  FoldLeft(LAMBDA h, i : IF Bit(leaf, i - 1) = 0 THEN Keccak2(h, hashes[i]) ELSE Keccak2(hashes[i], h),
           leafHash, [i \in 1 .. Len(hashes) |-> i])

ConstructOutboxProof(size, leaf) ==
  LET nodes == Nodes(size, leaf)
      logs == Search(0, Len(blocks) - 1, Query(size, leaf), Query(size, leaf))
      found == [p \in {Place(l.level, l.leaf) : l \in logs} |->
                  LET log == CHOOSE l \in logs : Place(l.level, l.leaf) = p
                  IN  IF p.level = 0 THEN Keccak(log.hash) ELSE log.hash]
      frontier == Partials(size) \cap DOMAIN found
      lowest == CHOOSE p \in frontier : \A q \in frontier : p.level <= q.level
      start == Place(lowest.level, lowest.leaf + 2 ^ lowest.level)
      walk == IF Balanced(size) THEN [ok |-> TRUE, known |-> found]
              ELSE Walk(start, [p \in DOMAIN found \cup {start} |-> IF p = start THEN NoHash ELSE found[p]],
                        {p.level : p \in frontier}, Log2ceil(size))
      hashes == [i \in 1 .. Len(nodes) |-> walk.known[nodes[i]]]
      leafHash == found[Place(0, leaf)]
  IN  IF leaf > blocks[Len(blocks)].count \/ ~walk.ok \/ ~(Range(nodes) \subseteq DOMAIN walk.known) \/ Place(0, leaf) \notin DOMAIN found
      THEN [ok |-> FALSE, root |-> NoHash, leafHash |-> NoHash, hashes |-> <<>>]
      ELSE [ok |-> TRUE, root |-> ProofRoot(leafHash, leaf, hashes), leafHash |-> leafHash, hashes |-> hashes]
-----------------------------------------------------------------------------
ObInit ==
  /\ acc = [size |-> 0, partials |-> <<>>]
  /\ tree = Empty(0)
  /\ roots = <<>>
  /\ blocks = <<[logs |-> <<>>, count |-> 0]>>

\* ArbSys.SendTxToL1: append the message, log the update of each level and the message.
SendTxToL1 ==
  LET item == Send(acc.size)
      r == AccAppend(acc, item)
      logs == Append(r.events, [level |-> 0, leaf |-> acc.size, hash |-> item])
  IN  /\ acc.size < ObMaxSends
      /\ acc' = r.acc
      /\ tree' = TreeAppend(tree, item)
      /\ roots' = Append(roots, Root(r.acc))
      /\ blocks' = [blocks EXCEPT ![Len(blocks)] = [logs |-> @.logs \o logs, count |-> acc.size + 1]]

NewBlock ==
  /\ Len(blocks) < ObMaxBlocks
  /\ blocks' = Append(blocks, [logs |-> <<>>, count |-> acc.size])
  /\ UNCHANGED <<acc, tree, roots>>

ObNext == SendTxToL1 \/ NewBlock
-----------------------------------------------------------------------------
\* The accumulator and the tree of the same messages have the same root and size, the
\* partials are as many as CalcNumPartials says, and they give back the size
\* (MerkleAccumulator.Append and Root, merkleInternal.Append).
AccumulatorIsTree ==
  /\ Root(acc) = tree.hash
  /\ acc.size = tree.size
  /\ Len(acc.partials) = Log2ceil(acc.size)
  /\ SizeFromPartials(acc.partials) = acc.size

\* Summarising any prefix of the tree panics nowhere and keeps its hash, size and capacity,
\* and writing and reading the summary gives it back (SummarizeUpTo, Serialize,
\* NewMerkleTreeFromReader).
SummaryFaithful ==
  \A num \in 1 .. tree.size :
    LET sum == SummarizeUpTo(tree, num)
    IN  /\ sum.hash = tree.hash /\ sum.size = tree.size /\ sum.capacity = tree.capacity
        /\ FromReader(Serialize(sum)) = [tree |-> sum, rest |-> <<>>]

\* For each leaf and each size the tree once had, the proof a node puts together from the
\* logs leads from the message to the root the tree had at this size, wherever the blocks
\* were cut and whatever was sent later (ConstructOutboxProof, ArbSys.SendTxToL1).
OutboxProofRight ==
  \A size \in 1 .. acc.size : \A leaf \in 0 .. size - 1 :
    LET proof == ConstructOutboxProof(size, leaf)
    IN  /\ proof.ok
        /\ proof.leafHash = Keccak(Send(leaf))
        /\ proof.root = roots[size]

\* Accumulator, tree, summary and the proofs a node puts together are about the same messages
\* (MerkleAccumulator, merkletree, ConstructOutboxProof).
OutboxSound == AccumulatorIsTree /\ SummaryFaithful /\ OutboxProofRight
=============================================================================
