---------------------------- MODULE BlockRecorder ---------------------------
(***************************************************************************)
(* execution/gethexec/block_recorder.go: block states are recreated for    *)
(* validation and held by references, which the recorder takes and gives   *)
(* back: for the blocks it prepared, for the last one, for the last valid  *)
(* one and for the candidate to be the next.  Preparing, recording, marks  *)
(* of valid blocks and reorgs run in threads of their own; each field has  *)
(* a lock, nothing holds two of them.                                      *)
(***************************************************************************)
EXTENDS Integers, Sequences, SequencesExt, FiniteSets

CONSTANTS BrMax,           \* highest block number
          BrForks,         \* bound on reorgs
          BrFaults,        \* bound on states that cannot be recreated
          BrPrepared       \* length of the queue of prepared blocks

VARIABLES canon,           \* the canonical blocks after genesis: their forks
          brFork,          \* the fork new blocks are of
          reorging,        \* the block a reorg went back to, until ReorgTo; NoReorg
          refs,            \* the reference counts of the recording database
          recorder,        \* lastHdr, validHdr, validHdrCandidate, preparedQueue
          prep, recording, \* a PrepareForRecord and a RecordBlockCreation under way
          brStopped, brFaults

brvars == <<canon, brFork, reorging, refs, recorder, prep, recording, brStopped, brFaults>>

NoReorg == -1
NoHdr == <<0, -1>>
Hdr(n) == IF n = 0 THEN <<0, 0>> ELSE <<n, canon[n]>>
Headers == {<<n, f>> : n \in 0 .. BrMax, f \in 0 .. BrForks}
Number(h) == h[1]
IsCanonical(h) == Number(h) <= Len(canon) /\ h = Hdr(Number(h))

BrInit ==
  /\ canon = <<0>> /\ brFork = 0 /\ reorging = NoReorg
  /\ refs = [h \in Headers |-> 0]
  /\ recorder = [last |-> NoHdr, valid |-> NoHdr, candidate |-> NoHdr, prepared |-> <<>>]
  /\ prep = [pc |-> "idle", at |-> 0, to |-> 0, list |-> <<>>] /\ recording = NoHdr
  /\ brStopped = FALSE /\ brFaults = 0
-----------------------------------------------------------------------------
(* References.  The functions below take and return both: [r, refs].       *)

Reference(rs, h) == [rs EXCEPT ![h] = @ + 1]
Dereference(rs, h) == IF h = NoHdr THEN rs ELSE [rs EXCEPT ![h] = @ - 1]
DereferenceAll(rs, hs) == FoldLeft(Dereference, rs, hs)

\* updateLastHdr.
UpdateLastHdr(s, h) ==
  IF s.r.last # NoHdr /\ Number(h) <= Number(s.r.last) THEN s
  ELSE [r |-> [s.r EXCEPT !.last = h], refs |-> Dereference(Reference(s.refs, h), s.r.last)]

\* updateValidCandidateHdr: older than the candidate, newer than the valid block.
WorthACandidate(r, h) ==
  /\ r.candidate = NoHdr \/ Number(r.candidate) > Number(h)
  /\ r.valid = NoHdr \/ Number(r.valid) < Number(h)

UpdateValidCandidateHdr(s, h) ==
  IF ~WorthACandidate(s.r, h) THEN s
  ELSE [r |-> [s.r EXCEPT !.candidate = h], refs |-> Dereference(Reference(s.refs, h), s.r.candidate)]

\* preparedAddTrim.
PreparedAddTrim(s, new, size) ==
  LET queue == s.r.prepared \o new
      over == IF Len(queue) > size THEN Len(queue) - size ELSE 0
  IN  [r |-> [s.r EXCEPT !.prepared = SubSeq(queue, over + 1, Len(queue))],
       refs |-> DereferenceAll(s.refs, SubSeq(queue, 1, over))]

\* A variant that gives the references of blocks beyond back without taking them off.
TrimmedBeyondKept(s, h) ==
  LET IsOld(q) == Number(q) > Number(h)
  IN  [s EXCEPT !.refs = DereferenceAll(@, SelectSeq(s.r.prepared, IsOld))]
\* preparedTrimBeyond.
TrimmedBeyond(s, h) ==
  LET IsOld(q) == Number(q) > Number(h)
      IsValid(q) == ~IsOld(q)
  IN  [r |-> [s.r EXCEPT !.prepared = SelectSeq(@, IsValid)],
       refs |-> DereferenceAll(s.refs, SelectSeq(s.r.prepared, IsOld))]

Recorder == [r |-> recorder, refs |-> refs]
SetRecorder(s) == recorder' = s.r /\ refs' = s.refs
-----------------------------------------------------------------------------
(* The chain: under the mutex for creating blocks.                         *)

AppendBlock ==
  /\ reorging = NoReorg /\ Len(canon) < BrMax /\ canon' = Append(canon, brFork)
  /\ UNCHANGED <<brFork, reorging, refs, recorder, prep, recording, brStopped, brFaults>>

SetHead ==
  /\ reorging = NoReorg /\ brFork < BrForks /\ brFork' = brFork + 1
  /\ \E n \in 0 .. Len(canon) - 1 : reorging' = n /\ canon' = SubSeq(canon, 1, n)
  /\ UNCHANGED <<refs, recorder, prep, recording, brStopped, brFaults>>

\* ReorgTo: the three fields and the queue give back what is beyond the block.
ReorgTo ==
  LET hdr == Hdr(reorging)
      Beyond(h) == h # NoHdr /\ Number(h) > Number(hdr)
      Kept(h) == IF Beyond(h) THEN NoHdr ELSE h
      gone == SelectSeq(<<recorder.valid, recorder.candidate, recorder.last>>, Beyond)
  IN  /\ reorging # NoReorg /\ ~brStopped /\ reorging' = NoReorg
      /\ SetRecorder(TrimmedBeyond([r |-> [recorder EXCEPT !.valid = Kept(@), !.candidate = Kept(@), !.last = Kept(@)],
                                    refs |-> DereferenceAll(refs, gone)], hdr))
      /\ UNCHANGED <<canon, brFork, prep, recording, brStopped, brFaults>>
-----------------------------------------------------------------------------
(* PrepareForRecord(start, end): from the block before start to end.       *)

PrepareRange ==
  /\ prep.pc = "idle" /\ ~brStopped
  /\ \E start \in 1 .. BrMax : \E end \in start .. BrMax :
       prep' = [pc |-> "get", at |-> start - 1, to |-> end, list |-> <<>>]
  /\ UNCHANGED <<canon, brFork, reorging, refs, recorder, recording, brStopped, brFaults>>

\* The state of the next block is recreated, or the loop ends.
PrepareGet ==
  /\ prep.pc = "get" /\ ~brStopped
  /\ \/ /\ prep.at <= prep.to /\ prep.at <= Len(canon)
        /\ refs' = Reference(refs, Hdr(prep.at))
        /\ prep' = [prep EXCEPT !.pc = "update", !.list = Append(@, Hdr(prep.at))]
        /\ UNCHANGED <<recorder, brFaults>>
     \/ /\ \/ (prep.at > prep.to \/ prep.at > Len(canon)) /\ UNCHANGED brFaults
           \/ brFaults < BrFaults /\ brFaults' = brFaults + 1
        /\ SetRecorder(PreparedAddTrim(Recorder, prep.list, BrPrepared))
        /\ prep' = [prep EXCEPT !.pc = "idle", !.list = <<>>]
  /\ UNCHANGED <<canon, brFork, reorging, recording, brStopped>>

PrepareUpdate ==
  LET h == Last(prep.list)
  IN  /\ prep.pc = "update" /\ ~brStopped
      /\ SetRecorder(UpdateLastHdr(UpdateValidCandidateHdr(Recorder, h), h))
      /\ prep' = [prep EXCEPT !.pc = "get", !.at = @ + 1]
      /\ UNCHANGED <<canon, brFork, reorging, recording, brStopped, brFaults>>
-----------------------------------------------------------------------------
(* RecordBlockCreation: the state of the block before is held meanwhile.   *)

RecordBlockCreation ==
  /\ recording = NoHdr /\ ~brStopped
  /\ \E n \in 0 .. Len(canon) : recording' = Hdr(n) /\ refs' = Reference(refs, Hdr(n))
  /\ UNCHANGED <<canon, brFork, reorging, recorder, prep, brStopped, brFaults>>

\* The block that was produced is compared with the canonical one; an error, or a
\* difference, and nothing is updated.
RecordEnds ==
  /\ recording # NoHdr /\ ~brStopped /\ recording' = NoHdr
  /\ \E same \in {FALSE, IsCanonical(recording) /\ Number(recording) < Len(canon)} :
       LET s == IF same THEN UpdateValidCandidateHdr(UpdateLastHdr(Recorder, recording), recording) ELSE Recorder
       IN  SetRecorder([s EXCEPT !.refs = Dereference(@, recording)])
  /\ UNCHANGED <<canon, brFork, reorging, prep, brStopped, brFaults>>
-----------------------------------------------------------------------------
\* MarkValid: the candidate may have been set from a header read before a reorg.
CandidateHolds(h) == IsCanonical(h)

\* MarkValid(pos, resultHash).
MarkValid ==
  /\ recorder.candidate # NoHdr /\ ~brStopped
  /\ \E n \in Number(recorder.candidate) .. Len(canon) :
       IF CandidateHolds(recorder.candidate)
         THEN SetRecorder([r |-> [recorder EXCEPT !.valid = recorder.candidate, !.candidate = NoHdr],
                           refs |-> Dereference(refs, recorder.valid)])
         ELSE SetRecorder([r |-> [recorder EXCEPT !.candidate = NoHdr], refs |-> Dereference(refs, recorder.candidate)])
  /\ UNCHANGED <<canon, brFork, reorging, prep, recording, brStopped, brFaults>>

\* OrderlyShutdown: the valid state is written and given back; the field stays.
OrderlyShutdown ==
  /\ ~brStopped /\ brStopped' = TRUE /\ refs' = Dereference(refs, recorder.valid)
  /\ UNCHANGED <<canon, brFork, reorging, recorder, prep, recording, brFaults>>

BrNext ==
  \/ AppendBlock \/ SetHead \/ ReorgTo \/ PrepareRange \/ PrepareGet \/ PrepareUpdate
  \/ RecordBlockCreation \/ RecordEnds \/ MarkValid \/ OrderlyShutdown
-----------------------------------------------------------------------------
Held(h) ==
  LET in == SelectSeq(<<recorder.last, recorder.candidate, recording>> \o recorder.prepared \o prep.list
                        \o (IF brStopped THEN <<>> ELSE <<recorder.valid>>), LAMBDA q : q = h)
  IN  Len(in)

\* Every reference is held by someone and every holder has one: no state is leaked, and
\* none given up while in use, in any order of preparing, recording, marking and reorgs.
RefsMatchHolders == \A h \in Headers : refs[h] = Held(h)

\* Outside a reorg, the valid block, which is the one written at shutdown, is canonical.
ValidIsCanonical == reorging = NoReorg /\ recorder.valid # NoHdr => IsCanonical(recorder.valid)

\* The valid block goes back only in a reorg (updateValidCandidateHdr, MarkValid).
ValidAdvances ==
  [][recorder'.valid # recorder.valid /\ recorder.valid # NoHdr
       => reorging # NoReorg \/ Number(recorder'.valid) > Number(recorder.valid)]_brvars

\* The recorder references exactly the states that are in use, and the block it would write at
\* shutdown is canonical and only advances, but for reorgs (PrepareForRecord, preparedTrimBeyond, MarkValid, ReorgTo).
RecorderSound == [](RefsMatchHolders /\ ValidIsCanonical) /\ ValidAdvances
=============================================================================
