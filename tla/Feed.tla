-------------------------------- MODULE Feed --------------------------------
(***************************************************************************)
(* The feed server of a sequencer or relay: the backlog of messages, the   *)
(* client manager that broadcasts, and the connections of its clients.     *)
(***************************************************************************)
EXTENDS Integers, Sequences, FiniteSets, TLC

(***************************************************************************)
(* The feed's backlog of unconfirmed messages (broadcaster/backlog): a     *)
(* linked list of segments of consecutive sequence numbers, reached from a *)
(* head and a tail pointer and from a lookup table.  One thread, the       *)
(* client manager's, writes it; every client connection reads it without a *)
(* lock on the whole.  A message is its sequence number, which is never 0. *)
(*                                                                         *)
(* segs is the heap: a client may still hold a segment the list dropped.   *)
(***************************************************************************)

CONSTANTS
  MaxSeq,         \* the largest sequence number
  SegmentLimit,   \* config.SegmentLimit
  MaxSegs         \* bound on the segments allocated, never reached

VARIABLES
  segs,           \* the segments by address: their messages, the next segment
  nsegs,          \* the number of addresses in use
  head, tail,     \* b.head and b.tail
  lookup,         \* b.lookupByIndex
  count,          \* b.messageCount
  rlocked         \* segments whose read lock was taken and never released

backlog == <<segs, nsegs, head, tail, lookup, count, rlocked>>

Nil == 0
Addrs == 1 .. MaxSegs
SeqNums == 1 .. MaxSeq
NewSegment == [msgs |-> <<>>, next |-> Nil]

BacklogTypeOK ==
  /\ segs \in [Addrs -> [msgs : Seq(SeqNums), next : Addrs \cup {Nil}]]
  /\ nsegs \in 0 .. MaxSegs - 1
  /\ {head, tail} \subseteq Addrs \cup {Nil}
  /\ lookup \in [SeqNums -> Addrs \cup {Nil}]
  /\ count \in Nat
  /\ rlocked \subseteq Addrs

BacklogInit ==
  /\ segs = [a \in Addrs |-> NewSegment] /\ nsegs = 0
  /\ head = Nil /\ tail = Nil
  /\ lookup = [q \in SeqNums |-> Nil] /\ count = 0
  /\ rlocked = {}

Start(a) == IF segs[a].msgs = <<>> THEN 0 ELSE segs[a].msgs[1]
End(a) == IF segs[a].msgs = <<>> THEN 0 ELSE segs[a].msgs[Len(segs[a].msgs)]

Contains(a, q) ==
  /\ Start(a) <= q /\ q <= End(a) /\ segs[a].msgs # <<>>
  /\ segs[a].msgs[q - Start(a) + 1] = q

\* The segments from a on.
RECURSIVE Chain(_)
Chain(a) == IF a = Nil THEN <<>> ELSE <<a>> \o Chain(segs[a].next)

RECURSIVE Concat(_)
Concat(as) == IF as = <<>> THEN <<>> ELSE segs[Head(as)].msgs \o Concat(Tail(as))

\* What the list holds, in order.
Stored == Concat(Chain(head))

Without(first, last) == [q \in SeqNums |-> IF q \in first .. last THEN Nil ELSE lookup[q]]

(***************************************************************************)
(* Append of one message.  A missing or a full tail is replaced by an      *)
(* empty segment before the number of the message is looked at: prev is    *)
(* the end of the old tail.                                                *)
(***************************************************************************)
PrevMsgIdx == IF tail = Nil THEN 0 ELSE End(tail)
NeedsSegment == tail = Nil \/ Len(segs[tail].msgs) >= SegmentLimit

PushSegment ==
  /\ nsegs + 1 \in Addrs
  /\ nsegs' = nsegs + 1 /\ tail' = nsegs + 1
  /\ head' = IF tail = Nil THEN nsegs + 1 ELSE head
  /\ segs' = IF tail = Nil THEN segs ELSE [segs EXCEPT ![tail].next = nsegs + 1]
  /\ UNCHANGED <<lookup, count, rlocked>>

IsNext(prev, q) == prev = 0 \/ q = prev + 1
DropsSegments(prev, q) == prev # 0 /\ q > prev + 1   \* errDropSegments
SequenceSeen(prev, q) == prev # 0 /\ q <= prev       \* errSequenceNumberSeen

\* segment.append, under the write lock of the segment.
AppendMessage(prev, q) ==
  /\ tail \notin rlocked
  /\ segs' = [segs EXCEPT ![tail].msgs = IF IsNext(prev, q) THEN Append(@, q)
                                        ELSE IF DropsSegments(prev, q) THEN <<q>> ELSE @]
  /\ UNCHANGED <<nsegs, head, tail, lookup, count, rlocked>>

\* What Append does once the segment has the message: a message that is ahead
\* drops what came before it.
RecordMessage(prev, q) ==
  /\ IF DropsSegments(prev, q)
     THEN /\ head' = tail /\ count' = 1
          /\ lookup' = [Without(Start(head), q) EXCEPT ![q] = tail]
     ELSE /\ count' = count + 1 /\ UNCHANGED head
          /\ lookup' = [lookup EXCEPT ![q] = tail]
  /\ UNCHANGED <<segs, nsegs, tail, rlocked>>

(***************************************************************************)
(* delete(confirmed), one step for each store a reader can see.            *)
(***************************************************************************)
DeleteIgnored(c) == (head = Nil /\ tail = Nil) \/ c < Start(head)

DeleteResets(c) ==
  \/ c > End(tail)
  \/ lookup[c] = Nil
  \/ End(lookup[c]) = c /\ segs[lookup[c]].next = Nil
  \/ End(lookup[c]) # c /\ ~Contains(lookup[c], c)

NewHead(c) == IF End(lookup[c]) = c THEN segs[lookup[c]].next ELSE lookup[c]

DeleteMessages(c) ==
  /\ segs' = IF End(lookup[c]) = c THEN segs
             ELSE [segs EXCEPT ![lookup[c]].msgs =
                     SubSeq(@, c - Start(lookup[c]) + 2, Len(@))]
  /\ UNCHANGED <<nsegs, head, tail, lookup, count, rlocked>>

DeleteLookup(first, c) ==
  /\ lookup' = Without(first, c)
  /\ UNCHANGED <<segs, nsegs, head, tail, count, rlocked>>

DeleteHead(first, c, newHead) ==
  /\ count' = count + first - c - 1
  /\ head' = newHead
  /\ UNCHANGED <<segs, nsegs, tail, lookup, rlocked>>

ResetHead == head' = Nil /\ UNCHANGED <<segs, nsegs, tail, lookup, count, rlocked>>

ResetRest ==
  /\ tail' = Nil /\ lookup' = [q \in SeqNums |-> Nil] /\ count' = 0
  /\ UNCHANGED <<segs, nsegs, head, rlocked>>

\* backlogSizeInBytes returns with the lock of an empty head or tail held.
SizeInBytes ==
  /\ rlocked' = rlocked \cup
       (IF head = Nil \/ tail = Nil THEN {}
        ELSE IF segs[head].msgs = <<>> THEN {head}
        ELSE IF segs[tail].msgs = <<>> THEN {tail} ELSE {})
  /\ UNCHANGED <<segs, nsegs, head, tail, lookup, count>>

-----------------------------------------------------------------------------
(***************************************************************************)
(* The feed server: the broadcaster hands messages and confirmations to    *)
(* the client manager's thread (wsbroadcastserver/clientmanager.go), which *)
(* appends them to the backlog and queues them for the registered clients; *)
(* one thread per client connection (clientconnection.go) first writes the *)
(* backlog to its client, then registers, then writes what it is queued.   *)
(***************************************************************************)

CONSTANTS
  Clients,
  MaxSendQueue,    \* the capacity of a client's out channel
  MaxClients,      \* the connection limiter's limit
  FirstSeq,        \* the first message this server broadcasts
  MaxPerBroadcast, \* messages in one call of BroadcastMessages
  Budgets          \* bounds on the inputs, of which a behaviour has one:
                   \*   connections, failing connections, confirmations,
                   \*   messages that are not broadcast, reorgs

VARIABLES
  next,         \* the next sequence number to broadcast
  confirmed,    \* the last confirmed one
  budget,       \* what is left of the bounds on the inputs
  broadcast,    \* history: the numbers given to Broadcast
  chan,         \* cm.broadcastChan, of capacity 1
  mgr,          \* the manager's thread
  actions,      \* cm.clientAction
  registered,   \* cm.clientPtrMap
  clientCount,  \* cm.clientCount
  cl,           \* the thread of each connection
  out,          \* cc.out
  closed,       \* the connections the manager stopped
  got,          \* what was written to each connection
  missed,       \* history: what a full queue made a client miss, and whether it ended its broadcast
  panicked      \* a thread panicked, which ends the process

inputs == <<next, confirmed, budget, broadcast>>
clients == <<actions, registered, clientCount, cl, out, closed, got, missed>>
vars == <<backlog, inputs, chan, mgr, clients, panicked>>

\* "reorged" counts the reorgs that happened.
Kinds == {"connect", "failure", "confirm", "skip", "reorg", "reorged"}
IdleMgr == [pc |-> "idle", todo |-> <<>>, conf |-> 0, prev |-> 0, first |-> 0,
            newHead |-> Nil, drop |-> {}]
NewClient == [pc |-> "off", req |-> 0, cur |-> Nil, seg |-> Nil, copy |-> <<>>, cut |-> FALSE,
              last |-> 0, sent |-> FALSE, hadHead |-> FALSE, start |-> 0, end |-> 0]

MgrPcs == {"idle", "delete", "reset", "lookup", "head", "size", "append", "message",
           "record", "send", "cleanup"}
ClientPcs == {"off", "start", "backlog", "copy", "contains", "write", "loop", "tail", "find",
              "read", "done"}

\* Values keep to their domains.
TypeOK ==
  /\ BacklogTypeOK
  /\ next \in FirstSeq .. MaxSeq + 1 /\ confirmed \in 0 .. MaxSeq
  /\ budget \in [Kinds -> Nat] /\ broadcast \subseteq SeqNums
  /\ chan \in Seq([msgs : Seq(SeqNums), conf : 0 .. MaxSeq]) /\ Len(chan) <= 1
  /\ mgr \in [pc : MgrPcs, todo : Seq(SeqNums), conf : 0 .. MaxSeq, prev : 0 .. MaxSeq,
              first : 0 .. MaxSeq, newHead : Addrs \cup {Nil}, drop : SUBSET Clients]
  /\ actions \in Seq([c : Clients, create : BOOLEAN])
  /\ registered \subseteq Clients /\ clientCount \in Int
  /\ cl \in [Clients -> [pc : ClientPcs, req : 0 .. MaxSeq, cur : Addrs \cup {Nil},
                         seg : Addrs \cup {Nil}, copy : Seq(SeqNums), cut : BOOLEAN,
                         last : 0 .. MaxSeq, sent : BOOLEAN,
                         hadHead : BOOLEAN, start : 0 .. MaxSeq, end : 0 .. MaxSeq]]
  /\ out \in [Clients -> Seq(0 .. MaxSeq)]
  /\ \A c \in Clients : Len(out[c]) <= MaxSendQueue
  /\ closed \subseteq Clients
  /\ got \in [Clients -> Seq(SeqNums)]
  /\ missed \in [Clients -> SUBSET ((0 .. MaxSeq) \X BOOLEAN)]
  /\ panicked \in BOOLEAN

Init ==
  /\ BacklogInit
  /\ next = FirstSeq /\ confirmed = 0 /\ broadcast = {}
  /\ budget \in Budgets
  /\ chan = <<>> /\ mgr = IdleMgr /\ actions = <<>>
  /\ registered = {} /\ clientCount = 0
  /\ cl = [c \in Clients |-> NewClient] /\ out = [c \in Clients |-> <<>>]
  /\ closed = {} /\ got = [c \in Clients |-> <<>>] /\ missed = [c \in Clients |-> {}]
  /\ panicked = FALSE

Spend(k) == budget[k] > 0 /\ budget' = [budget EXCEPT ![k] = @ - 1]

(***************************************************************************)
(* The node's calls of the broadcaster, which block while the channel is   *)
(* full, and what happens to the chain between them.                       *)
(***************************************************************************)
Enqueue(msgs, conf) == chan = <<>> /\ chan' = <<[msgs |-> msgs, conf |-> conf]>>

BroadcastMessages(k) ==
  /\ next + k - 1 <= MaxSeq
  /\ Enqueue([i \in 1 .. k |-> next + i - 1], 0)
  /\ next' = next + k
  /\ broadcast' = broadcast \cup next .. next + k - 1
  /\ UNCHANGED <<backlog, confirmed, budget, mgr, clients, panicked>>

\* The inbox tracker confirms the messages up to the batch before the last one,
\* again when the next batch adds none.
Confirm(c) ==
  /\ c \in confirmed .. next - 1
  /\ Spend("confirm") /\ Enqueue(<<>>, c)
  /\ confirmed' = c
  /\ UNCHANGED <<backlog, next, broadcast, mgr, clients, panicked>>

\* A message is not broadcast: signing it failed, or a relay did not get it.
Skip ==
  /\ next <= MaxSeq /\ Spend("skip") /\ next' = next + 1
  /\ UNCHANGED <<backlog, confirmed, broadcast, chan, mgr, clients, panicked>>

\* Messages from n on are sequenced again, and batches from n on posted again.
Reorg(n) ==
  /\ n \in FirstSeq .. next - 1
  /\ budget["reorg"] > 0
  /\ budget' = [budget EXCEPT !["reorg"] = @ - 1, !["reorged"] = @ + 1]
  /\ next' = n /\ confirmed' = IF confirmed < n THEN confirmed ELSE n - 1
  /\ UNCHANGED <<backlog, broadcast, chan, mgr, clients, panicked>>

(***************************************************************************)
(* The manager's thread.  A message broadcast is cut into single messages, *)
(* the first with the confirmation.                                        *)
(***************************************************************************)
Mgr(pc) == mgr' = [mgr EXCEPT !.pc = pc]

Take ==
  /\ mgr.pc = "idle" /\ chan # <<>>
  /\ chan' = <<>>
  /\ mgr' = [mgr EXCEPT !.todo = chan[1].msgs, !.conf = chan[1].conf,
                        !.pc = IF chan[1].conf # 0 THEN "delete" ELSE "append"]
  /\ UNCHANGED <<backlog, inputs, clients, panicked>>

DeleteConfirmed ==
  /\ mgr.pc = "delete"
  /\ LET c == mgr.conf
     IN  IF DeleteIgnored(c) THEN Mgr("size") /\ UNCHANGED backlog
         ELSE IF DeleteResets(c) THEN Mgr("reset") /\ ResetHead
         ELSE /\ DeleteMessages(c)
              /\ mgr' = [mgr EXCEPT !.pc = "lookup", !.first = Start(head),
                                    !.newHead = NewHead(c)]
  /\ UNCHANGED <<inputs, chan, clients, panicked>>

DeleteGoesOn ==
  /\ \/ mgr.pc = "reset" /\ ResetRest /\ Mgr("size")
     \/ mgr.pc = "lookup" /\ DeleteLookup(mgr.first, mgr.conf) /\ Mgr("head")
     \/ mgr.pc = "head" /\ DeleteHead(mgr.first, mgr.conf, mgr.newHead) /\ Mgr("size")
     \/ mgr.pc = "size" /\ SizeInBytes /\ Mgr(IF mgr.todo = <<>> THEN "send" ELSE "append")
  /\ UNCHANGED <<inputs, chan, clients, panicked>>

AppendSegment ==
  /\ mgr.pc = "append"
  /\ mgr' = [mgr EXCEPT !.pc = "message", !.prev = PrevMsgIdx]
  /\ IF NeedsSegment THEN PushSegment ELSE UNCHANGED backlog
  /\ UNCHANGED <<inputs, chan, clients, panicked>>

AppendToBacklog ==
  /\ mgr.pc = "message"
  /\ AppendMessage(mgr.prev, Head(mgr.todo))
  /\ Mgr(IF SequenceSeen(mgr.prev, Head(mgr.todo)) THEN "send" ELSE "record")
  /\ UNCHANGED <<inputs, chan, clients, panicked>>

AppendRecords ==
  /\ mgr.pc = "record"
  /\ RecordMessage(mgr.prev, Head(mgr.todo)) /\ Mgr("send")
  /\ UNCHANGED <<inputs, chan, clients, panicked>>

HasRoom(c) == Len(out[c]) < MaxSendQueue
DeleteList(lost) == lost

Send ==
  /\ mgr.pc = "send"
  /\ LET q == IF mgr.todo = <<>> THEN 0 ELSE Head(mgr.todo)
         rest == IF mgr.todo = <<>> THEN <<>> ELSE Tail(mgr.todo)
         lost == {c \in registered : ~HasRoom(c)}
     IN  /\ out' = [c \in Clients |-> IF c \in registered \ lost THEN Append(out[c], q)
                                      ELSE out[c]]
         /\ missed' = [c \in Clients |-> IF c \in lost THEN missed[c] \cup {<<q, rest = <<>>>>}
                                         ELSE missed[c]]
         /\ mgr' = [mgr EXCEPT !.todo = rest, !.drop = DeleteList(lost),
                               !.pc = IF rest = <<>> THEN "cleanup" ELSE "append"]
  /\ UNCHANGED <<backlog, inputs, chan, actions, registered, clientCount, cl, closed, got,
                 panicked>>

RemoveClients(cs) ==
  /\ closed' = closed \cup cs
  /\ registered' = registered \ cs
  /\ clientCount' = clientCount - Cardinality(cs)

Cleanup ==
  /\ mgr.pc = "cleanup"
  /\ RemoveClients(mgr.drop \cap registered)
  /\ mgr' = IdleMgr
  /\ UNCHANGED <<backlog, inputs, chan, actions, cl, out, got, missed, panicked>>

\* A client the limiter refuses is stopped without having been counted.
RegisterClient(c) ==
  IF Cardinality(registered) < MaxClients
  THEN /\ registered' = registered \cup {c} /\ clientCount' = clientCount + 1
       /\ UNCHANGED closed
  ELSE /\ closed' = closed \cup {c} /\ clientCount' = clientCount - 1
       /\ UNCHANGED registered

ClientAction ==
  /\ mgr.pc = "idle" /\ actions # <<>>
  /\ LET a == Head(actions)
     IN  IF a.create THEN RegisterClient(a.c) ELSE RemoveClients({a.c} \cap registered)
  /\ actions' = Tail(actions)
  /\ UNCHANGED <<backlog, inputs, chan, mgr, cl, out, got, missed, panicked>>

\* A ping fails, or the client was not heard from for ClientTimeout.
VerifyClients ==
  /\ mgr.pc = "idle" /\ Spend("failure")
  /\ \E c \in registered : RemoveClients({c})
  /\ UNCHANGED <<backlog, next, confirmed, broadcast, chan, mgr, actions, cl, out, got,
                 missed, panicked>>

(***************************************************************************)
(* The thread of a client connection.                                      *)
(***************************************************************************)
Client(c, changes) == cl' = [cl EXCEPT ![c] = changes @@ @]
At(c, pc) == cl[c].pc = pc /\ ~panicked

Connect(c, req) ==
  /\ At(c, "off") /\ Spend("connect")
  /\ Client(c, [pc |-> "start", req |-> req])
  /\ UNCHANGED <<backlog, next, confirmed, broadcast, chan, mgr, actions, registered, clientCount, out, closed,
                 got, missed, panicked>>

\* The backlog is sent from the requested message on, if it is known.
FirstSegment(req) ==
  IF head # Nil /\ Start(head) < req /\ lookup[req] # Nil THEN lookup[req] ELSE head

BacklogStart(c) ==
  /\ At(c, "start")
  /\ Client(c, [pc |-> "backlog", seg |-> FirstSegment(cl[c].req)])
  /\ UNCHANGED <<backlog, inputs, chan, mgr, actions, registered, clientCount, out, closed,
                 got, missed, panicked>>

Registers(c) ==
  /\ actions' = Append(actions, [c |-> c, create |-> TRUE])
  /\ Client(c, [pc |-> "loop", seg |-> Nil, cur |-> Nil, copy |-> <<>>, cut |-> FALSE])
  /\ UNCHANGED got

\* writeBacklog reads the next segment before the messages of this one.
BacklogNext(c) ==
  /\ At(c, "backlog")
  /\ IF cl[c].seg = Nil THEN Registers(c)
     ELSE /\ Client(c, [pc |-> "copy", cur |-> cl[c].seg, seg |-> segs[cl[c].seg].next])
          /\ UNCHANGED <<actions, got>>
  /\ UNCHANGED <<backlog, inputs, chan, mgr, registered, clientCount, out, closed, missed,
                 panicked>>

\* The messages are copied; the first segment is cut at the requested message,
\* with the place of that message computed from what the segment is by then.
BacklogCopy(c) ==
  /\ At(c, "copy")
  /\ Client(c, [pc |-> IF cl[c].last = 0 THEN "contains" ELSE "write",
                copy |-> segs[cl[c].cur].msgs])
  /\ UNCHANGED <<backlog, inputs, chan, mgr, actions, registered, clientCount, out, closed,
                 got, missed, panicked>>

BacklogContains(c) ==
  /\ At(c, "contains")
  /\ Client(c, [pc |-> "write", cut |-> Contains(cl[c].cur, cl[c].req)])
  /\ UNCHANGED <<backlog, inputs, chan, mgr, actions, registered, clientCount, out, closed,
                 got, missed, panicked>>

BacklogWrite(c) ==
  /\ At(c, "write") /\ c \notin closed
  /\ LET copy == cl[c].copy
         requestedIdx == cl[c].req - Start(cl[c].cur)
         cuts == cl[c].cut /\ Len(copy) >= requestedIdx
         msgs == IF cuts THEN SubSeq(copy, requestedIdx + 1, Len(copy)) ELSE copy
     IN  IF cuts /\ requestedIdx < 0 THEN panicked' = TRUE /\ UNCHANGED <<cl, actions, got>>
         ELSE IF msgs = <<>> THEN Registers(c) /\ UNCHANGED panicked
         ELSE /\ got' = [got EXCEPT ![c] = @ \o msgs]
              /\ Client(c, [pc |-> "backlog", cur |-> Nil, copy |-> <<>>, cut |-> FALSE,
                            last |-> msgs[Len(msgs)]])
              /\ UNCHANGED <<actions, panicked>>
  /\ UNCHANGED <<backlog, inputs, chan, mgr, registered, clientCount, out, closed, missed>>

\* A message of the out channel that was sent with the backlog is skipped; the
\* first that leaves a gap to the backlog makes the thread fetch what is missing.
OutSkipped(c) == Head(out[c]) # 0 /\ Head(out[c]) <= cl[c].last
ExpSeqNum(c) == cl[c].last + 1
OutCatchesUpLate(c) == ~cl[c].sent /\ Head(out[c]) > ExpSeqNum(c) + 1
OutCatchesUp(c) == ~cl[c].sent /\ Head(out[c]) > ExpSeqNum(c)

Writes(c, msgs) ==
  /\ got' = [got EXCEPT ![c] = @ \o msgs \o (IF Head(out[c]) = 0 THEN <<>> ELSE <<Head(out[c])>>)]
  /\ Client(c, [pc |-> "loop", sent |-> TRUE, seg |-> Nil])
  /\ out' = [out EXCEPT ![c] = Tail(@)]

OutWrite(c) ==
  /\ At(c, "loop") /\ out[c] # <<>> /\ c \notin closed
  /\ \/ /\ OutSkipped(c)
        /\ out' = [out EXCEPT ![c] = Tail(@)] /\ UNCHANGED <<cl, got>>
     \/ /\ ~OutSkipped(c) /\ OutCatchesUp(c)
        /\ Client(c, [pc |-> "tail", hadHead |-> head # Nil, start |-> ExpSeqNum(c),
                      end |-> Head(out[c]) - 1])
        /\ UNCHANGED <<out, got>>
     \/ ~OutSkipped(c) /\ ~OutCatchesUp(c) /\ Writes(c, <<>>)
  /\ UNCHANGED <<backlog, inputs, chan, mgr, actions, registered, clientCount, closed, missed,
                 panicked>>

\* backlog.Get after its load of the head: the load of the tail, the lookup, and
\* the second load of the head with the walk through the segments.  An error ends
\* the thread, which stays registered; a nil pointer or a slice of negative
\* length is a panic.
Fails(c) == Client(c, [pc |-> "done"]) /\ UNCHANGED <<got, out, panicked>>
Panics == panicked' = TRUE /\ UNCHANGED <<cl, got, out>>

GetTail(c) ==
  /\ At(c, "tail")
  /\ IF tail = Nil THEN (IF cl[c].hadHead THEN Panics ELSE Fails(c))
     ELSE IF cl[c].end > End(tail) THEN Fails(c)
     ELSE Client(c, [pc |-> "find"]) /\ UNCHANGED <<got, out, panicked>>
  /\ UNCHANGED <<backlog, inputs, chan, mgr, actions, registered, clientCount, closed, missed>>

GetLookup(c) ==
  /\ At(c, "find")
  /\ Client(c, [pc |-> "read", seg |-> lookup[cl[c].start]])
  /\ UNCHANGED <<backlog, inputs, chan, mgr, actions, registered, clientCount, out, closed,
                 got, missed, panicked>>

Larger(x, y) == IF x > y THEN x ELSE y
Smaller(x, y) == IF x < y THEN x ELSE y

\* The walk from a on: what it reads and how it ends.
RECURSIVE Walk(_, _, _, _)
Walk(a, start, end, acc) ==
  LET s == Larger(start, Start(a))
      e == Smaller(end, End(a))
  IN  IF segs[a].msgs = <<>> \/ e - s + 1 < 0 THEN [how |-> "panic", msgs |-> acc]
      ELSE LET more == acc \o SubSeq(segs[a].msgs, s - Start(a) + 1, e - Start(a) + 1)
           IN  IF Len(more) = end - start + 1 THEN [how |-> "ok", msgs |-> more]
               ELSE IF segs[a].next = Nil THEN [how |-> "error", msgs |-> more]
               ELSE Walk(segs[a].next, start, end, more)

GetRead(c) ==
  /\ At(c, "read")
  /\ IF head = Nil THEN Panics
     ELSE LET early == cl[c].start < Start(head)
              a == IF early THEN head ELSE cl[c].seg
              start == IF early THEN Start(head) ELSE cl[c].start
          IN  IF a = Nil \/ c \in closed THEN Fails(c)
              ELSE LET r == Walk(a, start, cl[c].end, <<>>)
                   IN  CASE r.how = "ok" -> Writes(c, r.msgs) /\ UNCHANGED panicked
                         [] r.how = "error" -> Fails(c)
                         [] r.how = "panic" -> Panics
  /\ UNCHANGED <<backlog, inputs, chan, mgr, actions, registered, clientCount, closed, missed>>

\* A write fails, and the thread asks to be removed and ends.
WriteFails(c) ==
  /\ At(c, "write") \/ At(c, "read") \/ (At(c, "loop") /\ out[c] # <<>>)
  /\ Spend("failure")
  /\ Client(c, [pc |-> "done"])
  /\ actions' = Append(actions, [c |-> c, create |-> FALSE])
  /\ UNCHANGED <<backlog, next, confirmed, broadcast, chan, mgr, registered, clientCount,
                 out, closed, got, missed, panicked>>

\* The manager cancelled the thread's context.
Stops(c) ==
  /\ c \in closed /\ cl[c].pc \notin {"off", "done"} /\ ~panicked
  /\ Client(c, [pc |-> "done"])
  /\ UNCHANGED <<backlog, inputs, chan, mgr, actions, registered, clientCount, out, closed,
                 got, missed, panicked>>

ClientStep(c) ==
  BacklogStart(c) \/ BacklogNext(c) \/ BacklogCopy(c) \/ BacklogContains(c) \/ BacklogWrite(c)
    \/ OutWrite(c) \/ GetTail(c) \/ GetLookup(c) \/ GetRead(c) \/ Stops(c)

MgrStep ==
  /\ ~panicked
  /\ \/ Take \/ DeleteConfirmed \/ DeleteGoesOn \/ AppendSegment \/ AppendToBacklog \/ AppendRecords
     \/ Send \/ Cleanup \/ ClientAction

Input ==
  /\ ~panicked
  /\ \/ \E k \in 1 .. MaxPerBroadcast : BroadcastMessages(k)
     \/ \E c \in SeqNums : Confirm(c) \/ Reorg(c)
     \/ Skip \/ VerifyClients

Next ==
  \/ Input \/ MgrStep
  \/ \E c \in Clients : \/ ClientStep(c) \/ WriteFails(c)
                        \/ \E req \in {0} \cup (FirstSeq .. MaxSeq) : Connect(c, req)

Spec == Init /\ [][Next]_vars

\* Threads keep running, and a connection that does not fail takes what is
\* written to it; nobody has to broadcast, confirm or connect.
Fairness == WF_vars(MgrStep) /\ \A c \in Clients : WF_vars(ClientStep(c))
FairSpec == Spec /\ Fairness

(***************************************************************************)
(* Properties.                                                             *)
(***************************************************************************)
Range(s) == {s[i] : i \in DOMAIN s}

\* The history is that of a chain without confirmations, or without reorgs.
Unconfirmed == confirmed = 0
NoReorg == budget["reorged"] = 0

\* "Broadcast sends batch item to all clients": each client gets every message
\* broadcast between the first and the last one it got, except one that found its
\* queue full and had room for a later one of the same broadcast, whose list of clients
\* to disconnect replaces the earlier one (clientDeleteList).
NoGap ==
  \A c \in Clients : \A q \in broadcast :
    got[c] # <<>> /\ got[c][1] < q /\ q < got[c][Len(got[c])] =>
      q \in Range(got[c]) \/ <<q, FALSE>> \in missed[c]

\* As long as nothing is confirmed or reorganised no client misses any other message, however
\* its reading of the backlog, its registration and the catch-up of its first queued
\* message interleave with the manager's appends.
CatchUpComplete == Unconfirmed /\ NoReorg => NoGap

\* Until a reorg repeats messages a client gets none twice and none after a later
\* one, whether it comes with the backlog, the catch-up or its queue.
InOrder ==
  NoReorg => \A c \in Clients : \A i \in 1 .. Len(got[c]) - 1 : got[c][i] < got[c][i + 1]

\* Between two operations, and until a reorg repeats messages, the list holds
\* consecutive messages, the count is their number, and the lookup table finds each
\* one, and no other one past the head.
BacklogSound ==
  NoReorg /\ mgr.pc \in {"idle", "send", "cleanup"} =>
    /\ \A i \in 1 .. Len(Stored) - 1 : Stored[i + 1] = Stored[i] + 1
    /\ count = Len(Stored)
    /\ head # Nil =>
         \A q \in Start(head) .. MaxSeq :
           IF q \in Range(Stored) THEN lookup[q] \in Range(Chain(head)) /\ Contains(lookup[q], q)
           ELSE lookup[q] = Nil

\* Whatever is confirmed, dropped, repeated or sequenced again, the tail, where the
\* next message goes, is reached from the head, where the readers start.
TailReachable ==
  mgr.pc \in {"idle", "send", "cleanup"} =>
    /\ head = Nil <=> tail = Nil
    /\ head # Nil => tail \in Range(Chain(head))

\* Once the manager has caught up, the backlog holds every broadcast message that
\* is not confirmed and has no gap after it; until a reorg.
BacklogComplete ==
  NoReorg /\ mgr.pc = "idle" /\ chan = <<>> /\ actions = <<>> =>
    \A q \in broadcast : q > confirmed /\ q .. next - 1 \subseteq broadcast => q \in Range(Stored)

\* A client whose queue was full for the last message of a broadcast, however many it
\* has, is disconnected when the manager is done with it, and so are no others.
BackedUpDisconnected ==
  /\ mgr.pc = "idle" => \A c \in registered : \A m \in missed[c] : ~m[2]
  /\ mgr.pc = "cleanup" => \A c \in mgr.drop : \E m \in missed[c] : m[2]

\* The reads of the backlog by a client never hit a nil segment or a range of
\* negative length, whatever is deleted meanwhile ("ensures there is no race
\* condition with a delete call", Get).
NoPanic == ~panicked

\* A call of Broadcast does not wait for ever: until a reorg, no order of
\* confirmations, skipped and new messages makes the manager's thread wait for a
\* lock that is never given back, unless the process ends in a panic.
BroadcastReturns == (chan # <<>> /\ NoReorg) ~> (chan = <<>> \/ ~NoReorg \/ panicked)

\* What the feed promises its clients: nobody misses a message (but for NoGap's exception) or
\* gets one twice or out of order,
\* the backlog they start from is whole and found by its lookup table, clients that do not keep
\* up with the end of a broadcast are disconnected, and no call of Broadcast waits for ever (BroadcastMessages, Get,
\* ClientConnection.Start, doBroadcast).
FeedServes ==
  /\ [](/\ TypeOK /\ CatchUpComplete /\ InOrder /\ BackedUpDisconnected
        /\ BacklogSound /\ BacklogComplete /\ TailReachable)
  /\ BroadcastReturns

-----------------------------------------------------------------------------
(* The scenarios that TLC explores.                                        *)

Budget(connect, failure, confirm, skip, reorg) ==
  [connect |-> connect, failure |-> failure, confirm |-> confirm, skip |-> skip,
   reorg |-> reorg, reorged |-> 0]

\* A client that reads while the backlog is confirmed; a client whose connection may
\* fail; and the backlog without clients, with messages missing and sequenced again.
FeedBudgets == {Budget(1, 0, 1, 0, 0), Budget(1, 1, 0, 0, 0), Budget(0, 0, 2, 1, 1)}

\* A client and a confirmation.
ConfirmBudgets == {Budget(1, 0, 1, 0, 0)}
=============================================================================
