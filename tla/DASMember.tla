------------------------------ MODULE DASMember ------------------------------
(***************************************************************************)
(* A member of the data availability committee as a writer:                *)
(* SignAfterStoreDASWriter.Store checks who signed the request, puts the   *)
(* data into all its storages (RedundantStorageService) and makes them     *)
(* sync, and only then returns its certificate.  Who may post batches is   *)
(* asked of the sequencer inbox and remembered for a while                 *)
(* (contracts.AddressVerifier).  Storages discard data by their policies.  *)
(***************************************************************************)
EXTENDS Integers

CONSTANTS Storages,        \* innerServices
          StoreCalls,      \* calls of Store, each with its own data
          MbScenarios,     \* policies of the storages, the verifiers in use, the calls made and their
                           \* signers, and bounds on time, faults and reads
          Lifetime,        \* addressVerifierLifetime
          CallTime,        \* how long a call to the parent chain may take
          ArchiveTime, DataTime    \* when the policies let a storage discard

ASSUME MbAssumption ==
  /\ Lifetime \in Nat /\ CallTime \in Nat /\ ArchiveTime \in Nat /\ DataTime \in 0 .. ArchiveTime
  /\ StoreCalls \subseteq Nat /\ Storages # {}
  /\ \A m \in MbScenarios : m.policies \in [Storages -> {"forever", "archive", "data"}]

VARIABLES scenario, now,
          holds,           \* holds[s][c]: none, written or synced
          call,            \* the calls of Store
          verifier,        \* AddressVerifier: the addresses remembered and when they expire
          posters,         \* the addresses the inbox names, and when one was last named
          read,            \* a call of RedundantStorageService.GetByHash for the first data
          mbfaults         \* faults left

mbvars == <<scenario, now, holds, call, verifier, posters, read, mbfaults>>

NoCall == [pc |-> "start", asked |-> 0, todo |-> {}, failed |-> FALSE, late |-> 0]
NoRead == [pc |-> "none", waiting |-> {}, held |-> {}, failed |-> {}]

MbInit ==
  /\ scenario \in MbScenarios /\ now = 0
  /\ holds = [s \in Storages |-> [c \in StoreCalls |-> "none"]]
  /\ call = [c \in StoreCalls |-> NoCall]
  /\ verifier = [cache |-> {}, expiry |-> Lifetime]
  /\ posters = [named |-> {"poster"}, last |-> 0]
  /\ read = NoRead /\ mbfaults = scenario.faults

MbFault == mbfaults > 0 /\ mbfaults' = mbfaults - 1
CallAt(c, pc) == call[c].pc = pc
Begun(c) == [call EXCEPT ![c].pc = "put", ![c].todo = Storages]
-----------------------------------------------------------------------------
\* The cache is emptied when it is older than its lifetime.
Flushed(v) == IF now > v.expiry THEN [cache |-> {}, expiry |-> now + Lifetime] ELSE v

\* The checks of Store before anything is stored: the extra key, else the address if there
\* is a verifier at all.
Check(c) ==
  LET by == scenario.signer[c]
  IN  /\ CallAt(c, "start") /\ c \in DOMAIN scenario.signer
      /\ IF (scenario.extra /\ by = "extra") \/ ~scenario.inbox THEN call' = Begun(c) /\ UNCHANGED verifier
         ELSE /\ verifier' = Flushed(verifier)
              /\ call' = IF by \in verifier'.cache
                         THEN [Begun(c) EXCEPT ![c].late = now - posters.last]
                         ELSE [call EXCEPT ![c].pc = "ask"]
      /\ UNCHANGED <<scenario, now, holds, posters, read, mbfaults>>

\* IsBatchPoster and IsSequencer, outside the mutex.
Ask(c) ==
  /\ CallAt(c, "ask")
  /\ \/ /\ call' = [call EXCEPT ![c].pc = IF scenario.signer[c] \in posters.named THEN "yes" ELSE "no", ![c].asked = now]
        /\ UNCHANGED mbfaults
     \/ MbFault /\ call' = [call EXCEPT ![c].pc = "error"]
  /\ UNCHANGED <<scenario, now, holds, verifier, posters, read>>

\* Only a positive answer is remembered.
Answered(c) ==
  /\ call[c].pc \in {"yes", "no"}
  /\ IF CallAt(c, "yes")
     THEN verifier' = [verifier EXCEPT !.cache = @ \cup {scenario.signer[c]}] /\ call' = Begun(c)
     ELSE call' = [call EXCEPT ![c].pc = "refused"] /\ UNCHANGED verifier
  /\ UNCHANGED <<scenario, now, holds, posters, read, mbfaults>>

\* A storage puts or syncs, or fails to; the others go on.
PutOne(c, s) ==
  /\ CallAt(c, "put") /\ s \in call[c].todo
  /\ \/ /\ holds' = [holds EXCEPT ![s][c] = "written"] /\ UNCHANGED mbfaults
        /\ call' = [call EXCEPT ![c].todo = @ \ {s}]
     \/ /\ MbFault /\ UNCHANGED holds
        /\ call' = [call EXCEPT ![c].todo = @ \ {s}, ![c].failed = TRUE]
  /\ UNCHANGED <<scenario, now, verifier, posters, read>>

SyncOne(c, s) ==
  /\ CallAt(c, "sync") /\ s \in call[c].todo
  /\ \/ /\ holds' = [holds EXCEPT ![s] = [d \in StoreCalls |-> IF @[d] = "written" THEN "synced" ELSE @[d]]]
        /\ UNCHANGED mbfaults
        /\ call' = [call EXCEPT ![c].todo = @ \ {s}]
     \/ /\ MbFault /\ UNCHANGED holds
        /\ call' = [call EXCEPT ![c].todo = @ \ {s}, ![c].failed = TRUE]
  /\ UNCHANGED <<scenario, now, verifier, posters, read>>

\* A variant that lets one storage fail.
OutcomeLenient(k) == IF k.pc = "put" THEN [k EXCEPT !.pc = "sync", !.todo = Storages] ELSE [k EXCEPT !.pc = "cert"]
\* All the storages have answered: any error is returned, and the certificate only after
\* the sync.
Outcome(k) ==
  IF k.failed THEN [k EXCEPT !.pc = "error"]
  ELSE IF k.pc = "put" THEN [k EXCEPT !.pc = "sync", !.todo = Storages] ELSE [k EXCEPT !.pc = "cert"]

AllAnswered(c) ==
  /\ call[c].pc \in {"put", "sync"} /\ call[c].todo = {}
  /\ call' = [call EXCEPT ![c] = Outcome(call[c])]
  /\ UNCHANGED <<scenario, now, holds, verifier, posters, read, mbfaults>>
-----------------------------------------------------------------------------
(* RedundantStorageService.GetByHash for the data of the first call.        *)

FirstCall == CHOOSE c \in StoreCalls : \A d \in StoreCalls : c <= d

StartRead ==
  /\ scenario.reads /\ read = NoRead
  /\ read' = [pc |-> "wait", waiting |-> Storages, held |-> {s \in Storages : holds[s][FirstCall] # "none"},
              failed |-> {}]
  /\ UNCHANGED <<scenario, now, holds, call, verifier, posters, mbfaults>>

\* The first answer with data is returned; an error once all have failed.
ReadOn(r, ok, left) == IF ok THEN "found" ELSE IF left = {} THEN "missing" ELSE "wait"

\* The answer of a storage, which has the data, has it not, or fails to read.
ReadOne(s) ==
  /\ read.pc = "wait" /\ s \in read.waiting
  /\ \E fails \in BOOLEAN :
       LET left == read.waiting \ {s}
       IN  /\ IF fails THEN MbFault ELSE UNCHANGED mbfaults
           /\ read' = [read EXCEPT !.waiting = left, !.pc = ReadOn(read, ~fails /\ holds[s][FirstCall] # "none", left),
                                   !.failed = IF fails THEN @ \cup {s} ELSE @]
  /\ UNCHANGED <<scenario, now, holds, call, verifier, posters>>

\* The caller's context is done first.
ReadCancelled ==
  /\ read.pc = "wait"
  /\ read' = [read EXCEPT !.pc = "cancelled"]
  /\ UNCHANGED <<scenario, now, holds, call, verifier, posters, mbfaults>>
-----------------------------------------------------------------------------
\* RedundantStorageService.ExpirationPolicy: the longest of the policies.
PolicyOf(policies) ==
  IF \E s \in Storages : policies[s] = "forever" THEN "forever"
  ELSE IF \E s \in Storages : policies[s] = "archive" THEN "archive" ELSE "data"

\* Whether a storage with this policy may discard by now.
MayDiscard(policy) ==
  \/ policy = "archive" /\ now >= ArchiveTime
  \/ policy = "data" /\ now >= DataTime

Discard(s, c) ==
  /\ holds[s][c] # "none" /\ MayDiscard(scenario.policies[s])
  /\ holds' = [holds EXCEPT ![s][c] = "none"]
  /\ read' = IF c = FirstCall THEN [read EXCEPT !.held = @ \ {s}] ELSE read
  /\ UNCHANGED <<scenario, now, call, verifier, posters, mbfaults>>

\* The process stops: what was not synced is lost, with the calls in progress.
MbCrash ==
  /\ MbFault
  /\ holds' = [s \in Storages |-> [c \in StoreCalls |-> IF holds[s][c] = "written" THEN "none" ELSE holds[s][c]]]
  /\ call' = [c \in StoreCalls |-> IF call[c].pc \in {"cert", "refused"} THEN call[c] ELSE [call[c] EXCEPT !.pc = "error", !.todo = {}]]
  /\ verifier' = [cache |-> {}, expiry |-> now + Lifetime]
  /\ read' = [pc |-> "none", waiting |-> {}, held |-> {"gone"}, failed |-> {}]
  /\ UNCHANGED <<scenario, now, posters>>

\* Time passes; a call to the parent chain does not take longer than CallTime.
MbTick ==
  /\ now < scenario.time /\ \A c \in StoreCalls : call[c].pc \in {"yes", "no"} => now < call[c].asked + CallTime
  /\ now' = now + 1
  /\ posters' = IF "poster" \in posters.named THEN [posters EXCEPT !.last = now + 1] ELSE posters
  /\ UNCHANGED <<scenario, holds, call, verifier, read, mbfaults>>

Retire ==
  /\ "poster" \in posters.named /\ posters' = [posters EXCEPT !.named = {}]
  /\ UNCHANGED <<scenario, now, holds, call, verifier, read, mbfaults>>

MbNext ==
  \/ \E c \in StoreCalls :
       \/ Check(c) \/ Ask(c) \/ Answered(c) \/ AllAnswered(c)
       \/ \E s \in Storages : PutOne(c, s) \/ SyncOne(c, s) \/ Discard(s, c)
  \/ StartRead \/ ReadCancelled \/ MbCrash \/ MbTick \/ Retire
  \/ \E s \in Storages : ReadOne(s)

MbSpec == MbInit /\ [][MbNext]_mbvars
-----------------------------------------------------------------------------
\* While the policy that the member reports says that data is kept, certified data is
\* durably in one of its storages, whatever failed and wherever the process was stopped
\* (Store, RedundantStorageService.Put, Sync and ExpirationPolicy).
CertifiedIsKept ==
  \A c \in StoreCalls :
    CallAt(c, "cert") /\ ~MayDiscard(PolicyOf(scenario.policies)) => \E s \in Storages : holds[s][c] = "synced"

\* A certificate is given only after every storage has the data, so that up to the first
\* discarding all of them hold it (RedundantStorageService.Put and Sync).
CertifiedEverywhere ==
  \A c \in StoreCalls : CallAt(c, "cert") /\ now < DataTime => \A s \in Storages : holds[s][c] = "synced"

\* A retired batch poster is accepted no longer than the lifetime of the cache and the time
\* of one call after it was last named ("accepting a Store from a recently retired batch
\* poster"; IsBatchPosterOrSequencer).
RetiredSoon == \A c \in StoreCalls : call[c].late <= Lifetime + CallTime

\* A read that has heard every storage does not miss data that a storage holds all along
\* and does not fail to read, whichever answers first (GetByHash).
ReadFindsAny == read.pc = "missing" => read.held \subseteq read.failed

\* What a member certified it holds in its storages as long as it says, it certifies for those
\* it should, and its reads find what is there (Store, RedundantStorageService).
MemberSound == CertifiedIsKept /\ CertifiedEverywhere /\ RetiredSoon /\ ReadFindsAny
=============================================================================
