----------------------------- MODULE BatchCodec -----------------------------
(***************************************************************************)
(* What a batch carries: the poster turns messages into the segments of a  *)
(* batch (batchSegments of arbnode/batch_poster.go), and every reader of   *)
(* the chain, the node and the validators, turns the batch back into       *)
(* messages (arbstate/inbox.go): parseSequencerMessage finds the segments  *)
(* and inboxMultiplexer pops the messages one by one.  A reader keeps only *)
(* the number of the message in the batch and of the delayed messages read *)
(* and may start again from any such position.                             *)
(*                                                                         *)
(* A message is [k |-> "l2", ts, bn, size] or the next delayed message; a  *)
(* segment has a kind and a value.  Compressed sizes are chosen freely.    *)
(***************************************************************************)
EXTENDS Naturals, SequencesExt

CONSTANTS
  Word,            \* 2^64: timestamps and block numbers wrap
  CodecMsgs,       \* the sequencer's messages
  MaxSegments,     \* MaxSegmentsPerSequencerMessage
  MaxDecompressed, \* MaxDecompressedLen
  CodecSizeLimit,  \* the batch's size limit
  MaxDelayed,      \* delayed messages in the inbox
  CodecBounds,     \* the time bounds the inbox contract may give a batch
  ForeignBatches,  \* batches of another poster: [da, segs, after, bounds]
  ReadFaults       \* failing reads

VARIABLES
  cbuild,   \* building.segments
  cadded,   \* history: the messages added to it
  cfailed,  \* AddMessage or CloseAndGetBytes returned an error
  cbatch,   \* the batch in the inbox, NoCodecBatch before
  cmux,     \* the reader's inboxMultiplexer
  cpos,     \* its PositionWithinMessage, 0 again when the batch is done
  cdone,    \* the batch has been read
  cread,    \* history: position -> the message read there and the delayed count
  cfaults

codecVars == <<cbuild, cadded, cfailed, cbatch, cmux, cpos, cdone, cread, cfaults>>

NoCodecBatch == [da |-> "none"]
NewSegments == [raw |-> <<>>, ts |-> 0, bn |-> 0, delayed |-> 0, trailing |-> 0,
                new |-> 0, total |-> 0, last |-> 0, isDone |-> FALSE]

SegSize(seg) == IF seg.k = "l2" THEN seg.v.size ELSE 1
Total(segs) == FoldLeft(LAMBDA n, seg : n + SegSize(seg), 0, segs)

(***************************************************************************)
(* batchSegments.  An operation returns the new segments and whether it    *)
(* was a success ("ok"), the batch is full ("full") or it failed.          *)
(***************************************************************************)
\* recompressAll and close: trailing headers are trimmed.
CloseSegments(s) ==
  LET raw == SubSeq(s.raw, 1, Len(s.raw) - s.trailing)
      b == [s EXCEPT !.raw = raw, !.trailing = 0, !.new = Total(raw), !.total = Total(raw)]
  IN  IF b.total > MaxDecompressed \/ Len(raw) >= MaxSegments
      THEN [b |-> b, res |-> "error"]
      ELSE [b |-> [b EXCEPT !.isDone = TRUE], res |-> "full"]

\* testForOverflow: z is the compressed size after a flush.
FlushesFor(s, header) ==
  s.last + s.new >= CodecSizeLimit /\ ~header /\ Len(s.raw) # s.trailing

AddSegment(s, seg, header, z) ==
  LET b == [s EXCEPT !.new = @ + SegSize(seg), !.total = @ + SegSize(seg)]
      flushed == IF FlushesFor(b, header) THEN [b EXCEPT !.last = z, !.new = 0] ELSE b
  IN  IF s.isDone THEN [b |-> s, res |-> "error"]
      ELSE IF b.total > MaxDecompressed \/ Len(b.raw) >= MaxSegments THEN CloseSegments(b)
      ELSE IF FlushesFor(b, header) /\ z >= CodecSizeLimit THEN CloseSegments(flushed)
      ELSE [b |-> [flushed EXCEPT !.raw = Append(@, seg),
                                  !.trailing = IF header THEN @ + 1 ELSE 0],
            res |-> "ok"]

\* A variant that keeps the base of the next difference.
MaybeAddDiffSegmentKeepsBase(s, kind, val, z) ==
  IF val = s[kind] THEN [b |-> s, res |-> "ok"]
  ELSE AddSegment(s, [k |-> kind, v |-> (val + Word - s[kind]) % Word], TRUE, z)

\* maybeAddDiffSegment; kind is "ts" or "bn".
MaybeAddDiffSegment(s, kind, val, z) ==
  LET r == AddSegment(s, [k |-> kind, v |-> (val + Word - s[kind]) % Word], TRUE, z)
  IN  IF val = s[kind] THEN [b |-> s, res |-> "ok"]
      ELSE IF r.res = "ok" THEN [r EXCEPT !.b[kind] = val] ELSE r

\* AddMessage: a delayed message, or the differences and the message.
AddSegmentsFor(s, m, z) ==
  IF m.k = "delayed"
  THEN LET r == AddSegment(s, [k |-> "delayed", v |-> 0], FALSE, z)
       IN  IF r.res = "ok" THEN [r EXCEPT !.b.delayed = @ + 1] ELSE r
  ELSE LET ts == MaybeAddDiffSegment(s, "ts", m.ts, z)
           bn == MaybeAddDiffSegment(ts.b, "bn", m.bn, z)
       IN  IF ts.res # "ok" THEN ts ELSE IF bn.res # "ok" THEN bn
           ELSE AddSegment(bn.b, [k |-> "l2", v |-> m], FALSE, z)

\* The poster adds the next message; after an error it starts the batch again.
CodecAddMessage ==
  /\ cbatch = NoCodecBatch /\ ~cbuild.isDone /\ ~cfailed
  /\ \E m \in CodecMsgs \cup {[k |-> "delayed"]}, z \in {0, CodecSizeLimit} :
       /\ m.k = "delayed" => cbuild.delayed < MaxDelayed
       /\ LET r == AddSegmentsFor(cbuild, m, z)
          IN  CASE r.res = "ok" -> /\ cbuild' = r.b /\ cadded' = Append(cadded, m)
                                   /\ UNCHANGED cfailed
                [] r.res = "full" -> cbuild' = r.b /\ UNCHANGED <<cadded, cfailed>>
                [] r.res = "error" -> /\ cbuild' = NewSegments /\ cadded' = <<>>
                                      /\ cfailed' = TRUE
  /\ UNCHANGED <<cbatch, cmux, cpos, cdone, cread, cfaults>>

FreshMux(delayed) == [parsed |-> FALSE, segs |-> <<>>, seg |-> 0, ts |-> 0, bn |-> 0,
                      sub |-> 0, delayed |-> delayed]

\* CloseAndGetBytes, and the batch posted in one of the ways there are.
CodecPost ==
  /\ cbatch = NoCodecBatch /\ cadded # <<>>
  /\ LET r == IF cbuild.isDone THEN [b |-> cbuild, res |-> "full"] ELSE CloseSegments(cbuild)
     IN  IF r.res = "error"
         THEN cfailed' = TRUE /\ cbuild' = NewSegments /\ cadded' = <<>> /\ UNCHANGED cbatch
         ELSE /\ \E bounds \in CodecBounds, da \in {"plain", "das", "blob"} :
                   cbatch' = [da |-> da, segs |-> r.b.raw, after |-> r.b.delayed,
                              bounds |-> bounds]
              /\ cbuild' = r.b /\ UNCHANGED <<cadded, cfailed>>
  /\ UNCHANGED <<cmux, cpos, cdone, cread, cfaults>>

\* Another poster's batch.
ForeignPost ==
  /\ cbatch = NoCodecBatch /\ cbuild = NewSegments
  /\ \E b \in ForeignBatches : cbatch' = b
  /\ UNCHANGED <<cbuild, cadded, cfailed, cmux, cpos, cdone, cread, cfaults>>

(***************************************************************************)
(* The reader.                                                             *)
(***************************************************************************)
\* parseSequencerMessage with the providers of a node that has both: what was not
\* put there by a poster ("garbage") and a DAS batch with a bad certificate, keyset
\* or signature, or one that expires too early ("badcert"), have no segments.
ParsedSegments(b) ==
  IF b.da \in {"garbage", "badcert"} THEN <<>>
  ELSE SubSeq(b.segs, 1, IF Len(b.segs) < MaxSegments THEN Len(b.segs) ELSE MaxSegments)

\* RecoverPayloadFromDasBatch and the blob provider ask a server, which may fail.
NeedsServer(b) == b.da \in {"das", "blob", "badcert"}

Clamp(x, lo, hi) == IF x < lo THEN lo ELSE IF x > hi THEN hi ELSE x
Advances(seg) == seg.k \in {"ts", "bn", "badts"}

\* The loop of getNextMsg from the cached segment to the target message.
RECURSIVE Seek(_, _, _)
Seek(m, segs, target) ==
  IF m.seg >= Len(segs) THEN m
  ELSE LET seg == segs[m.seg + 1]
           step == [m EXCEPT !.seg = @ + 1]
       IN  CASE seg.k \in {"empty", "badts"} -> Seek(step, segs, target)
             [] seg.k = "ts" -> Seek([step EXCEPT !.ts = (@ + seg.v) % Word], segs, target)
             [] seg.k = "bn" -> Seek([step EXCEPT !.bn = (@ + seg.v) % Word], segs, target)
             [] OTHER -> IF m.sub < target THEN Seek([step EXCEPT !.sub = @ + 1], segs, target)
                         ELSE m

\* getNextMsg: the multiplexer and the message it returns.
Invalid(delayed) == [k |-> "invalid", delayed |-> delayed]
GetNextMsg(b, m, target) ==
  LET s == Seek(m, m.segs, target)
      kind == IF s.seg >= Len(s.segs) THEN "delayed" ELSE s.segs[s.seg + 1].k
  IN  CASE kind \in {"l2", "brotli"} ->
             [mux |-> s, msg |-> [k |-> "l2", body |-> s.segs[s.seg + 1].v,
                                  ts |-> Clamp(s.ts, b.bounds.minTs, b.bounds.maxTs),
                                  bn |-> Clamp(s.bn, b.bounds.minBn, b.bounds.maxBn),
                                  delayed |-> s.delayed]]
        [] kind = "delayed" /\ s.delayed >= b.after -> [mux |-> s, msg |-> Invalid(b.after)]
        [] kind = "delayed" /\ s.delayed < b.after ->
             [mux |-> [s EXCEPT !.delayed = @ + 1],
              msg |-> [k |-> "delayed", delayed |-> s.delayed + 1]]
        [] OTHER -> [mux |-> s, msg |-> Invalid(s.delayed)]

IsCachedSegmentLast(b, m) ==
  /\ m.delayed >= b.after
  /\ \A i \in m.seg + 2 .. Len(m.segs) :
       m.segs[i].k \notin {"l2", "brotli", "badbrotli", "delayed"}

\* advanceSubMsg leaves what is cached.
AdvancedMux(m) == m

\* Pop: parse the batch if it is not cached, take the message, advance.
Pop ==
  /\ cbatch # NoCodecBatch /\ ~cdone
  /\ LET m == IF cmux.parsed THEN cmux
              ELSE [cmux EXCEPT !.parsed = TRUE, !.segs = ParsedSegments(cbatch)]
         r == GetNextMsg(cbatch, m, cpos)
         last == IsCachedSegmentLast(cbatch, r.mux)
     IN  /\ cread' = [p \in DOMAIN cread \cup {cpos} |->
                        IF p = cpos THEN [msg |-> r.msg, before |-> cmux.delayed, last |-> last]
                        ELSE cread[p]]
         /\ cdone' = last
         /\ cpos' = IF last THEN 0 ELSE cpos + 1
         /\ cmux' = IF last THEN FreshMux(cbatch.after) ELSE AdvancedMux(r.mux)
  /\ UNCHANGED <<cbuild, cadded, cfailed, cbatch, cfaults>>

\* The batch's data or a delayed message cannot be read: Pop returns an error and
\* its caller drops the multiplexer, and starts again where it was.
PopFails ==
  /\ cbatch # NoCodecBatch /\ ~cdone /\ cfaults < ReadFaults
  /\ \/ ~cmux.parsed /\ NeedsServer(cbatch)
     \/ GetNextMsg(cbatch, [cmux EXCEPT !.segs = ParsedSegments(cbatch)], cpos).msg.k = "delayed"
  /\ cmux' = FreshMux(cmux.delayed)
  /\ cfaults' = cfaults + 1
  /\ UNCHANGED <<cbuild, cadded, cfailed, cbatch, cpos, cdone, cread>>

\* A validator, or the node after a reorg, reads again from a position it recorded.
ReadAgain ==
  /\ cbatch # NoCodecBatch
  /\ \E p \in DOMAIN cread :
       /\ cpos' = p /\ cdone' = FALSE
       /\ cmux' = FreshMux(cread[p].before)
  /\ UNCHANGED <<cbuild, cadded, cfailed, cbatch, cread, cfaults>>

CodecInit ==
  /\ cbuild = NewSegments /\ cadded = <<>> /\ cfailed = FALSE /\ cbatch = NoCodecBatch
  /\ cmux = FreshMux(0) /\ cpos = 0 /\ cdone = FALSE /\ cread = <<>> /\ cfaults = 0

CodecNext == CodecAddMessage \/ CodecPost \/ ForeignPost \/ Pop \/ PopFails \/ ReadAgain

CodecSpec == CodecInit /\ [][CodecNext]_codecVars

(***************************************************************************)
(* Properties.                                                             *)
(***************************************************************************)
DelayedBefore(n) == Cardinality({i \in 1 .. n : cadded[i].k = "delayed"})

\* What the poster added is what every reader gets, at the same position, with the
\* time and block number brought into the bounds of the batch: differences that
\* wrap, headers that close() trims and overflow lose and add nothing.
RoundTrip ==
  cadded # <<>> /\ cbatch # NoCodecBatch =>
    \A p \in DOMAIN cread :
      LET m == cadded[p + 1]
      IN  /\ p < Len(cadded)
          /\ cread[p].last <=> p + 1 = Len(cadded)
          /\ cread[p].msg =
               IF m.k = "delayed" THEN [k |-> "delayed", delayed |-> DelayedBefore(p + 1)]
               ELSE [k |-> "l2", body |-> m,
                     ts |-> Clamp(m.ts, cbatch.bounds.minTs, cbatch.bounds.maxTs),
                     bn |-> Clamp(m.bn, cbatch.bounds.minBn, cbatch.bounds.maxBn),
                     delayed |-> DelayedBefore(p)]

\* A message has one reading: whatever position a reader starts from, whatever reads
\* fail on the way and whatever another poster put in the batch, it finds the same
\* message at the same place, and the same end of the batch.
ReadingsAgree ==
  [][\A p \in DOMAIN cread : cread'[p] = cread[p]]_codecVars

\* The delayed messages read when the batch is done are exactly those the contract
\* says it includes: segments that ask for more, or for fewer, do not change that.
DelayedCountExact ==
  \A p \in DOMAIN cread : cread[p].last => cread[p].msg.delayed = cbatch.after

\* What a poster writes into a batch is what every reader gets from it, each time it reads
\* (batchSegments, inboxMultiplexer.Pop).
BatchReadBack == [](RoundTrip /\ DelayedCountExact) /\ ReadingsAgree

\* addSegment "returns false if segment was too large, error in case of real error":
\* a batch that is full can be closed.
FullBatchCloses == ~cfailed
=============================================================================
