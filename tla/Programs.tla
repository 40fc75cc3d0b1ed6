------------------------------ MODULE Programs -------------------------------
(***************************************************************************)
(* Stylus programs (arbos/programs): activation, expiry and keepalive, the *)
(* flag that keeps a program in the native cache, the cache itself         *)
(* (arbitrator/stylus/src/cache.rs) with the journal that undoes its       *)
(* changes when a transaction reverts, and the pages of memory open in     *)
(* nested calls.                                                           *)
(*                                                                         *)
(* Time is counted in halves of the hour that activation times are rounded *)
(* to.  The hash of a module depends on the wasm and the version of        *)
(* Stylus; code hashes may have the same wasm.                             *)
(***************************************************************************)
EXTENDS Integers, Sequences, SequencesExt, FiniteSets, FiniteSetsExt

CONSTANTS PgCodes,        \* code hashes
          PgScenarios,    \* the wasm of each code hash, and how many steps, pages grown and upsets
          PgLruSize,      \* modules in the short-lived cache
          PgFootprint,    \* pages a program opens
          PgStart, PgMaxTime,
          PgExpiry, PgKeepalive,      \* ExpiryDays and KeepaliveDays, in half hours
          PgFree, PgPageGas,          \* the memory model: free pages and the gas of a page
          PgExponents,                \* memoryExponents, from zero pages on
          PgMaxDepth, PgMaxVersion

VARIABLE pg

PgNever == [version |-> 0, at |-> 0, cached |-> FALSE, since |-> 0]

\* wasm is fixed, and grow and upsets are budgets; rust and lru are the long-term and the short-lived cache; older is what a
\* reorganization goes back to; emptied and dropped are history: the long-term cache was emptied,
\* a block that changed it was dropped.
PgInit ==
  \E q \in PgScenarios :
    LET none == [c \in PgCodes |-> PgNever] IN
    pg = [wasm |-> q.wasm, prog |-> none, saved |-> none, older |-> [prog |-> none, time |-> PgStart, version |-> 1],
          rust |-> {}, lru |-> <<>>, journal |-> <<>>, emptied |-> FALSE, dropped |-> FALSE,
          time |-> PgStart, version |-> 1, stack |-> <<>>, open |-> 0, ever |-> 0, paid |-> 0, steps |-> q.steps, grow |-> q.grow, upsets |-> q.upsets,
          refused |-> "none"]

\* hoursSinceArbitrum and hoursToAge.
Hours(time) == time \div 2
Age(p) == Max({0, pg.time - 2 * p.at})

\* programExists: an entry that was never activated counts as expired.
Expired(p) == p.at = 0 \/ Age(p) > PgExpiry

\* getActiveProgram.
Active(p) == p.version # 0 /\ p.version = pg.version /\ Age(p) <= PgExpiry

\* CacheKey: the module of a program.
Key(s, c, p) == <<s.wasm[c], p.version>>

\* InitCache.insert takes the module from the short-lived cache if it is there; insert_lru.
Insert(s, key) == [s EXCEPT !.rust = @ \cup {key}, !.lru = SelectSeq(@, LAMBDA k : k # key)]
InsertLru(s, key) ==
  LET q == <<key>> \o SelectSeq(s.lru, LAMBDA k : k # key) IN [s EXCEPT !.lru = SubSeq(q, 1, Min({PgLruSize, Len(q)}))]

\* cacheProgram and evictProgram: the journal undoes them on a revert, unless the program has expired.
CacheProgram(s, c, p) == [Insert(s, Key(s, c, p)) EXCEPT !.journal = Append(@, <<"cache", Key(s, c, p)>>)]
EvictProgram(s, c, p, forever) ==
  [s EXCEPT !.rust = @ \ {Key(s, c, p)},
            !.journal = IF forever THEN @ ELSE Append(@, <<"evict", Key(s, c, p)>>)]

\* deserialize_cached: a module in neither cache goes where the flag says; the journal knows
\* nothing of it.
LoadModule(s, c, p) ==
  IF Key(s, c, p) \in s.rust THEN s
  ELSE IF Key(s, c, p) \in Range(s.lru) THEN InsertLru(s, Key(s, c, p))
  ELSE IF p.cached THEN Insert(s, Key(s, c, p)) ELSE InsertLru(s, Key(s, c, p))

Stepped(s) == [s EXCEPT !.steps = @ - 1, !.refused = "none"]

\* The cached module is replaced by the one of the new activation.
ReplaceCached(s, c, p, q) == CacheProgram(EvictProgram(s, c, p, Expired(p)), c, q)

\* ActivateProgram.
Activate(c) ==
  LET p == pg.prog[c]
      q == [p EXCEPT !.version = pg.version, !.at = Hours(pg.time), !.since = pg.time]
      s == IF p.cached THEN ReplaceCached(pg, c, p, q) ELSE pg
  IN  /\ pg.steps > 0 /\ pg.stack = <<>>
      /\ p.version # pg.version \/ Expired(p)
      /\ pg' = Stepped([s EXCEPT !.prog[c] = q])

\* SetProgramCached: an expired or unknown program is not cached; either may be evicted.
SetProgramCached(c, cache) ==
  LET p == pg.prog[c]
      tooOld == Age(p) > PgExpiry
      q == [p EXCEPT !.cached = cache]
  IN  /\ pg.steps > 0 /\ pg.stack = <<>>
      /\ ~(cache /\ (p.version = 0 \/ tooOld)) /\ p.cached # cache
      /\ pg' = Stepped([(IF cache THEN CacheProgram(pg, c, p) ELSE EvictProgram(pg, c, p, tooOld)) EXCEPT !.prog[c] = q])

\* ProgramKeepalive: not too soon after the last activation.
ProgramKeepalive(c) ==
  LET p == pg.prog[c]
  IN  /\ pg.steps > 0 /\ pg.stack = <<>>
      /\ Active(p) /\ Age(p) >= PgKeepalive
      /\ pg' = Stepped([pg EXCEPT !.prog[c] = [p EXCEPT !.at = Hours(pg.time), !.since = pg.time]])

\* MemoryModel.GasCost.
Exponent(n) == PgExponents[n + 1]
GasCost(new, open, ever) ==
  LET sub(n) == Max({0, n - PgFree})
      newEver == Max({ever, open + new})
  IN  IF newEver <= PgFree THEN 0
      ELSE (sub(open + new) - sub(open)) * PgPageGas + Exponent(newEver) - Exponent(ever)

\* CallProgram: pays for the memory, opens the pages, loads the module, and closes the pages on the
\* way out.
CallProgram(c) ==
  /\ pg.steps > 0 /\ Len(pg.stack) < PgMaxDepth
  /\ IF Active(pg.prog[c])
     THEN pg' = Stepped([LoadModule(pg, c, pg.prog[c]) EXCEPT
                                   !.stack = Append(@, [open |-> pg.open, pages |-> PgFootprint[c]]),
                                   !.paid = @ + GasCost(PgFootprint[c], pg.open, pg.ever),
                                   !.open = @ + PgFootprint[c], !.ever = Max({@, pg.open + PgFootprint[c]})])
     ELSE pg' = [Stepped(pg) EXCEPT !.refused = c]

\* A program grows its memory by a page (the api's AddPages).
GrowMemory ==
  /\ pg.steps > 0 /\ pg.grow > 0 /\ pg.stack # <<>>
  /\ pg' = Stepped([pg EXCEPT !.grow = @ - 1, !.stack[Len(pg.stack)].pages = @ + 1, !.paid = @ + GasCost(1, pg.open, pg.ever),
                              !.open = @ + 1, !.ever = Max({@, pg.open + 1})])

\* The pages open when the call began.
ReturnedOpen(top) == top.open
Return ==
  /\ pg.stack # <<>>
  /\ pg' = [pg EXCEPT !.open = ReturnedOpen(Last(pg.stack)), !.stack = Front(@), !.refused = "none"]

\* The transaction ends, with its changes kept, or undone: the journal from its end.
UndoJournal(s) ==
  FoldRight(LAMBDA e, t : IF e[1] = "cache" THEN [t EXCEPT !.rust = @ \ {e[2]}] ELSE Insert(t, e[2]), s.journal, s)
Changed == pg.prog # pg.saved \/ pg.journal # <<>> \/ pg.ever > 0
Ended(s) == [s EXCEPT !.journal = <<>>, !.open = 0, !.ever = 0, !.paid = 0, !.refused = "none"]
EndTransaction(reverts) ==
  /\ pg.stack = <<>> /\ Changed
  /\ pg' = Ended(IF reverts THEN [UndoJournal(pg) EXCEPT !.prog = pg.saved]
                 ELSE [pg EXCEPT !.saved = pg.prog, !.older = IF pg.upsets = 0 THEN @ ELSE [prog |-> pg.saved, time |-> pg.time, version |-> pg.version]])

\* The sequencer drops a block it has executed (sequenceTransactionsWithBlockMutex fails to write
\* its message): the state is as before, the cache is not.
DropBlock ==
  /\ pg.upsets > 0 /\ pg.stack = <<>> /\ Changed
  /\ pg' = Ended([pg EXCEPT !.prog = pg.saved, !.dropped = TRUE, !.upsets = @ - 1])

\* Time passes, and Stylus is upgraded, between transactions.
Between == pg.stack = <<>> /\ ~Changed
PgTick == Between /\ pg.time < PgMaxTime /\ pg' = [pg EXCEPT !.time = @ + 1, !.refused = "none"]
PgUpgrade == Between /\ pg.version < PgMaxVersion /\ pg' = [pg EXCEPT !.version = @ + 1, !.refused = "none"]

\* InitCache.reorg moves the long-term cache into the other one, as far as it fits; a restart
\* loses both.
PgReorg ==
  /\ pg.upsets > 0 /\ Between /\ pg.prog # pg.older.prog
  /\ pg' = [FoldLeft(InsertLru, pg, SetToSeq(pg.rust)) EXCEPT
              !.prog = pg.older.prog, !.saved = pg.older.prog, !.time = pg.older.time, !.version = pg.older.version,
              !.rust = {}, !.emptied = TRUE, !.dropped = FALSE, !.refused = "none", !.upsets = @ - 1]
PgRestart ==
  /\ pg.upsets > 0 /\ Between /\ pg.rust # {}
  /\ pg' = [pg EXCEPT !.upsets = @ - 1, !.rust = {}, !.lru = <<>>, !.emptied = TRUE, !.dropped = FALSE, !.refused = "none"]

PgNext ==
  \/ \E c \in PgCodes : Activate(c) \/ ProgramKeepalive(c) \/ CallProgram(c) \/ \E b \in BOOLEAN : SetProgramCached(c, b)
  \/ GrowMemory \/ Return \/ DropBlock \/ PgTick \/ PgUpgrade \/ PgReorg \/ PgRestart
  \/ \E r \in BOOLEAN : EndTransaction(r)
-----------------------------------------------------------------------------
\* The long-term cache holds the modules of programs flagged as cached and nothing else, across
\* activations, evictions, reverts, reorganizations and the inserts the journal knows nothing of,
\* unless the sequencer drops a block it executed.  It holds them all as long as no two programs
\* share a module and it was not emptied (SetProgramCached, ActivateProgram, cacheProgram,
\* evictProgram, InitCache).
CacheMatchesFlags ==
  /\ ~pg.dropped => \A k \in pg.rust : \E c \in PgCodes : pg.prog[c].cached /\ Key(pg, c, pg.prog[c]) = k
  /\ ~pg.dropped /\ ~pg.emptied /\ IsInjective(pg.wasm) =>
       \A c \in PgCodes : pg.prog[c].cached /\ ~Expired(pg.prog[c]) => Key(pg, c, pg.prog[c]) \in pg.rust

\* A call is refused only to a program that is outdated or whose activation or keepalive is
\* older than the expiry less the hour of rounding, and never made to one older than the
\* expiry (getActiveProgram, hoursSinceArbitrum).
ExpiryHonoured ==
  /\ pg.refused # "none" =>
       LET p == pg.prog[pg.refused] IN p.version # pg.version \/ pg.time - p.since > PgExpiry - 2
  /\ \A c \in PgCodes : Active(pg.prog[c]) => pg.time - pg.prog[c].since <= PgExpiry

\* The pages open are those of the calls in progress, whatever the calls that returned had
\* opened, and what was paid covers the most that was ever open (the restore in CallProgram).
PagesMatchCalls ==
  /\ pg.open = FoldSeq(LAMBDA f, n : n + f.pages, 0, pg.stack)
  /\ pg.open <= pg.ever
  /\ pg.ever > PgFree => pg.paid >= Exponent(pg.ever) - Exponent(0) + (pg.ever - PgFree) * PgPageGas

\* What memory costs does not depend on how it is opened: the growth is paid once, up to the
\* most that was ever open, beside the gas of every page opened (MemoryModel.GasCost).
GrowthPaidOnce ==
  \A a, b \in 1 .. 2 : pg.ever + a + b + 1 < Len(PgExponents) =>
    GasCost(a + b, pg.open, pg.ever) = GasCost(a, pg.open, pg.ever) + GasCost(b, pg.open + a, Max({pg.ever, pg.open + a}))

=============================================================================
