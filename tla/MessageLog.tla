----------------------------- MODULE MessageLog -----------------------------
(***************************************************************************)
(* What a set of coordinated sequencers promises: there is one message     *)
(* log, it only grows, a node extends it only when it has all of it, and   *)
(* each node's database holds a prefix of it.                              *)
(***************************************************************************)
EXTENDS Naturals, Sequences

CONSTANTS Nodes, Msgs

VARIABLES
  log,   \* the agreed log
  copy   \* node -> its database

Init ==
  /\ log = <<>>
  /\ copy = [n \in Nodes |-> <<>>]

\* Node n, which has the whole log, sequences message m.
Sequence(n, m) ==
  /\ copy[n] = log
  /\ log' = Append(log, m)
  /\ UNCHANGED copy

\* Node n stores more of the log.
Learn(n) ==
  /\ \E k \in Len(copy[n]) + 1 .. Len(log) :
       copy' = [copy EXCEPT ![n] = SubSeq(log, 1, k)]
  /\ UNCHANGED log

Next == \E n \in Nodes : Learn(n) \/ \E m \in Msgs : Sequence(n, m)

Spec == Init /\ [][Next]_<<log, copy>>
=============================================================================
