----------------------------- MODULE MCPosting -----------------------------
(***************************************************************************)
(* Posting: the batch posters' queue, their Redis lock, the fees they bid  *)
(* and the batches they build; and the block states that the recorder of   *)
(* a node keeps.  The parts are checked side by side: a behaviour is one   *)
(* of the part it starts in, the others stay as they are.                  *)
(***************************************************************************)
EXTENDS Poster, DataPosterFees, RedisLock, BatchCodec, BlockRecorder, TLC

CONSTANTS p1, p2

VARIABLE part

Bounds4(a, b, c, d) == [minTs |-> a, maxTs |-> b, minBn |-> c, maxBn |-> d]
L2(t, n, s) == [k |-> "l2", ts |-> t, bn |-> n, size |-> s]
Segment(k, v) == [k |-> k, v |-> v]

MCCodecMsgs == {L2(1, 1, 1), L2(2, 1, 2), L2(0, 1, 2)}
MCCodecBounds == {Bounds4(0, 3, 0, 3), Bounds4(1, 2, 1, 2)}
ForeignSegs == {Segment(k, 1) : k \in {"empty", "badts", "ts", "unknown", "badbrotli", "brotli",
                                       "delayed"}}
MCForeignBatches ==
  [da : {"plain"}, segs : SeqOf(ForeignSegs, 3), after : 0 .. 2, bounds : {Bounds4(1, 2, 1, 2)}]
    \cup [da : {"garbage", "badcert"}, segs : {<<Segment("delayed", 1)>>}, after : 0 .. 2,
          bounds : {Bounds4(1, 2, 1, 2)}]

Quota == [posters |-> Posters, persistent |-> TRUE, das |-> FALSE, lag |-> FALSE, msg |-> 2,
          hold |-> 0, rep |-> 0, lost |-> 0, crash |-> 0, l1reorg |-> 0, reorg |-> 0]
MCPosterBudgets ==
  {[Quota EXCEPT !.das = TRUE], [Quota EXCEPT !.hold = 1, !.reorg = 1],
   [Quota EXCEPT !.rep = 1, !.l1reorg = 1], [Quota EXCEPT !.lost = 1, !.crash = 1]}
  \cup {[Quota EXCEPT !.persistent = FALSE, !.lag = TRUE, !.crash = 1, !.posters = {p}] :
          p \in Posters}

PostingSymmetry == Permutations(Posters)

Parts == {"poster", "lock", "fees", "codec", "recorder"}

\* The part that does not run is in one of its initial states.
PostingInit ==
  /\ part \in Parts
  /\ PosterInit /\ (part # "poster" => quota = CHOOSE q \in PosterBudgets : q.das)
  /\ LockInit /\ (part # "lock" => /\ ~background
                                   /\ skew = [c \in Clients |-> 0])
  /\ FeesInit /\ (part # "fees" => market = CHOOSE m \in Markets : TRUE)
  /\ CodecInit /\ BrInit

PostingNext ==
  /\ UNCHANGED part
  /\ \/ part = "poster" /\ PosterNext /\ UNCHANGED <<lockVars, feeVars, codecVars, brvars>>
     \/ part = "lock" /\ LockNext /\ UNCHANGED <<posterVars, feeVars, codecVars, brvars>>
     \/ part = "fees" /\ FeesNext /\ UNCHANGED <<posterVars, lockVars, codecVars, brvars>>
     \/ part = "codec" /\ CodecNext /\ UNCHANGED <<posterVars, lockVars, feeVars, brvars>>
     \/ part = "recorder" /\ BrNext /\ UNCHANGED <<posterVars, lockVars, feeVars, codecVars>>

postingVars == <<posterVars, lockVars, feeVars, codecVars, brvars, part>>

PostingSpec == PostingInit /\ [][PostingNext]_postingVars
=============================================================================
