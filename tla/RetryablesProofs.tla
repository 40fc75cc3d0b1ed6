-------------------------- MODULE RetryablesProofs --------------------------
(***************************************************************************)
(* For every set of tickets and every lifetime: the queue holds one entry  *)
(* for each lifetime of a ticket, its escrow holds its callvalue, it is    *)
(* redeemed at most once and never reaped before the expiry it reports.    *)
(***************************************************************************)
EXTENDS Retryables, FiniteSetTheorems, TLAPS

(***************************************************************************)
(* The inductive invariant.  A trie is sound when the properties hold of   *)
(* it and the entries of the queue are ids in use; the trie and the one it *)
(* would revert to are both sound, and the ticket of a running retry lives *)
(* in both.                                                                *)
(***************************************************************************)
SoundQueue(s) ==
  /\ s.get <= Len(s.slot) + 1
  /\ \A n \in s.get .. Len(s.slot) : s.slot[n] \in Ids

SoundTicket(s, d, used) ==
  /\ Live(s, d) => Cardinality(Entries(s, d)) = s.ticket[d].windows + 1
  /\ ~Live(s, d) => s.ticket[d] = NoTicket
  /\ d \notin used => ~Live(s, d) /\ Entries(s, d) = {}

SoundEscrow(s, d, running) ==
  s.escrow[d] = IF Live(s, d) /\ running # d THEN s.ticket[d].value ELSE 0

Sound(s, running, used) ==
  /\ s \in StateType /\ SoundQueue(s)
  /\ \A d \in Ids : SoundTicket(s, d, used) /\ SoundEscrow(s, d, running)

\* The inductive invariant: the trie, and the one a revert restores, are sound.
IInv ==
  /\ time \in Nat \ {0} /\ tx \in Ids \union {None, User}
  /\ submitted \in SUBSET Ids /\ redeemed \in [Ids -> Nat]
  /\ Sound(st, tx, submitted) /\ Sound(saved, tx, submitted)
  /\ tx \in Ids => Live(st, tx) /\ Live(saved, tx)
  /\ \A d \in Ids :
       /\ redeemed[d] <= 1
       /\ redeemed[d] = 1 => d \in submitted /\ ~Live(st, d) /\ ~Live(saved, d)

(***************************************************************************)
(* The queue.                                                              *)
(***************************************************************************)
\* The entries of a ticket are finitely many.
LEMMA EntriesFinite ==
  ASSUME NEW s \in StateType, NEW d
  PROVE  IsFiniteSet(Entries(s, d)) /\ Cardinality(Entries(s, d)) \in Nat
<1>1. s.get \in Int /\ Len(s.slot) \in Int
  BY DEF StateType
<1>2. IsFiniteSet(s.get .. Len(s.slot))
  BY <1>1, FS_Interval
<1>3. Entries(s, d) \subseteq s.get .. Len(s.slot)
  BY DEF Entries
<1>4. IsFiniteSet(Entries(s, d))
  BY <1>2, <1>3, FS_Subset, Zenon
<1> QED
  BY <1>4, FS_CardinalityType

\* Putting an id at the end of the queue adds one entry for it and none for others.
LEMMA PutEntries ==
  ASSUME NEW s \in StateType, NEW t \in StateType, NEW d \in Ids, SoundQueue(s),
         t.slot = Append(s.slot, d), t.get = s.get
  PROVE  /\ SoundQueue(t)
         /\ Cardinality(Entries(t, d)) = Cardinality(Entries(s, d)) + 1
         /\ \A e \in Ids \ {d} : Entries(t, e) = Entries(s, e)
<1> DEFINE n == Len(s.slot) + 1
<1>1. s.slot \in Seq(Ids \union {None}) /\ s.get \in Nat /\ d \in Ids \union {None}
  BY DEF StateType
<1>2. /\ Len(t.slot) = n /\ n \in Nat /\ t.slot[n] = d
      /\ \A i \in 1 .. Len(s.slot) : t.slot[i] = s.slot[i]
  BY <1>1
<1>3. s.get \in 1 .. n
  BY <1>1, <1>2, SMTT(60) DEF SoundQueue, StateType
<1>4. SoundQueue(t)
  BY SMTT(90), <1>1, <1>2, <1>3 DEF SoundQueue
<1>5. \A e \in Ids : Entries(t, e) = Entries(s, e) \union (IF e = d THEN {n} ELSE {})
  BY SMTT(90), <1>1, <1>2, <1>3 DEF Entries
<1>6. Entries(t, d) = Entries(s, d) \union {n}
  BY <1>5
<1>8. n \notin Entries(s, d)
  BY <1>2 DEF Entries
<1>7. Cardinality(Entries(t, d)) = Cardinality(Entries(s, d)) + 1
  BY ZenonT(90), <1>6, <1>8, EntriesFinite, FS_AddElement
<1> QED
  BY <1>4, <1>5, <1>7, Zenon

\* Getting the id at the head of the queue removes one entry for it.
LEMMA GetEntries ==
  ASSUME NEW s \in StateType, NEW t \in StateType, NEW d \in Ids, SoundQueue(s),
         s.get # Len(s.slot) + 1, d = s.slot[s.get],
         t.slot = [s.slot EXCEPT ![s.get] = None], t.get = s.get + 1
  PROVE  /\ SoundQueue(t)
         /\ Cardinality(Entries(t, d)) = Cardinality(Entries(s, d)) - 1
         /\ \A e \in Ids \ {d} : Entries(t, e) = Entries(s, e)
<1> DEFINE n == s.get
<1>1. s.slot \in Seq(Ids \union {None}) /\ n \in Nat \ {0} /\ n \in 1 .. Len(s.slot)
  BY DEF StateType, SoundQueue
<1>2. /\ Len(t.slot) = Len(s.slot) /\ Len(s.slot) \in Nat
      /\ \A i \in n + 1 .. Len(s.slot) : t.slot[i] = s.slot[i]
  BY <1>1, SMTT(60)
<1>3. SoundQueue(t)
  BY <1>1, <1>2, SMTT(60) DEF SoundQueue
<1>4. \A e \in Ids : Entries(t, e) = Entries(s, e) \ {n}
  BY SMTT(90), <1>1, <1>2 DEF Entries
<1>5. n \in Entries(s, d) /\ \A e \in Ids \ {d} : n \notin Entries(s, e)
  BY <1>1, SMTT(60) DEF Entries
<1>6. Cardinality(Entries(t, d)) = Cardinality(Entries(s, d)) - 1
  BY <1>4, <1>5, EntriesFinite, FS_RemoveElement, SMTT(60)
<1>7. ASSUME NEW e \in Ids \ {d} PROVE Entries(t, e) = Entries(s, e)
  <2>1. Entries(t, e) = Entries(s, e) \ {n} /\ n \notin Entries(s, e)
    BY <1>4, <1>5
  <2> QED
    BY <2>1
<1> QED
  BY <1>3, <1>6, <1>7, SMTT(60)

(***************************************************************************)
(* The operations on a trie keep it sound.  Each of them changes one       *)
(* ticket, its escrow and an end of the queue.                             *)
(***************************************************************************)
With(s, d, k, m, q, g) ==
  [ticket |-> [s.ticket EXCEPT ![d] = k], escrow |-> [s.escrow EXCEPT ![d] = m],
   slot |-> q, get |-> g]

\* The parts of a trie.
LEMMA Parts ==
  ASSUME NEW s \in StateType, NEW d \in Ids
  PROVE  /\ s.ticket \in [Ids -> TicketType] /\ s.ticket[d] \in TicketType
         /\ s.escrow \in [Ids -> 0 .. 1] /\ s.escrow[d] \in 0 .. 1
         /\ s.slot \in Seq(Ids \union {None}) /\ s.get \in Nat \ {0}
         /\ s = [ticket |-> s.ticket, escrow |-> s.escrow, slot |-> s.slot, get |-> s.get]
         /\ [s.ticket EXCEPT ![d] = s.ticket[d]] = s.ticket
         /\ [s.escrow EXCEPT ![d] = s.escrow[d]] = s.escrow
<1>1. s \in [ticket : [Ids -> TicketType], escrow : [Ids -> 0 .. 1],
              slot : Seq(Ids \union {None}), get : Nat \ {0}]
  BY DEF StateType
<1>2. [s.ticket EXCEPT ![d] = s.ticket[d]] = s.ticket
  BY <1>1
<1>3. [s.escrow EXCEPT ![d] = s.escrow[d]] = s.escrow
  BY <1>1
<1> QED
  BY <1>1, <1>2, <1>3

\* An operation on d leaves a sound trie if the queue and d are sound in it, it
\* moves no other entry, and the running retry and the used ids change for d only.
LEMMA WithSound ==
  ASSUME NEW s, NEW t \in StateType, NEW d \in Ids, NEW r, NEW r2, NEW used, NEW used2,
         Sound(s, r, used), SoundQueue(t),
         SoundTicket(t, d, used2), SoundEscrow(t, d, r2),
         \A e \in Ids \ {d} :
           /\ t.ticket[e] = s.ticket[e] /\ t.escrow[e] = s.escrow[e]
           /\ Entries(t, e) = Entries(s, e)
           /\ (e = r <=> e = r2) /\ (e \in used <=> e \in used2)
  PROVE  Sound(t, r2, used2) /\ \A e \in Ids \ {d} : Live(t, e) <=> Live(s, e)
<1>1. ASSUME NEW e \in Ids \ {d}
      PROVE  /\ SoundTicket(t, e, used2) /\ SoundEscrow(t, e, r2)
             /\ Live(t, e) <=> Live(s, e)
  <2>1. SoundTicket(s, e, used) /\ SoundEscrow(s, e, r)
    BY DEF Sound
  <2>2. t.ticket[e] = s.ticket[e] /\ t.escrow[e] = s.escrow[e]
    OBVIOUS
  <2>3. Entries(t, e) = Entries(s, e) /\ (e = r <=> e = r2) /\ (e \in used <=> e \in used2)
    OBVIOUS
  <2>4. SoundTicket(t, e, used2)
    BY <2>1, <2>2, <2>3, ZenonT(60) DEF SoundTicket, Live
  <2>5. SoundEscrow(t, e, r2)
    BY <2>1, <2>2, <2>3 DEF SoundEscrow, Live
  <2> QED
    BY <2>2, <2>4, <2>5, SMTT(60) DEF Live
<1>2. \A e \in Ids : SoundTicket(t, e, used2) /\ SoundEscrow(t, e, r2)
  BY <1>1, Zenon
<1> QED
  BY <1>1, <1>2, SMTT(60) DEF Sound

\* Counting a retry of a live ticket.
LEMMA CountSound ==
  ASSUME NEW s, NEW r, NEW used, NEW d \in Ids, Sound(s, r, used), Live(s, d),
         NEW t, t = [s EXCEPT !.ticket[d].tries = @ + 1]
  PROVE  Sound(t, r, used) /\ \A e \in Ids : Live(t, e) <=> Live(s, e)
<1> DEFINE k == [s.ticket[d] EXCEPT !.tries = @ + 1]
<1>1. /\ s \in StateType
      /\ s.ticket \in [Ids -> TicketType] /\ s.ticket[d] \in TicketType
      /\ s.escrow \in [Ids -> 0 .. 1] /\ s.escrow[d] \in 0 .. 1
      /\ s.slot \in Seq(Ids \union {None}) /\ s.get \in Nat \ {0}
      /\ s = [ticket |-> s.ticket, escrow |-> s.escrow, slot |-> s.slot, get |-> s.get]
      /\ [s.escrow EXCEPT ![d] = s.escrow[d]] = s.escrow
  BY Parts, Zenon DEF Sound
<1>2. /\ k \in TicketType /\ k.timeout = s.ticket[d].timeout
      /\ k.windows = s.ticket[d].windows /\ k.value = s.ticket[d].value
  <2>1. s.ticket[d] \in TicketType
    BY <1>1
  <2> QED
    BY <2>1 DEF TicketType
<1>3. t = With(s, d, k, s.escrow[d], s.slot, s.get)
  BY <1>1, Zenon DEF With
<1> HIDE DEF k
<1>4. /\ t \in StateType /\ t.slot = s.slot /\ t.get = s.get
      /\ t.ticket[d] = k /\ t.escrow[d] = s.escrow[d]
      /\ \A e \in Ids \ {d} : /\ t.ticket[e] = s.ticket[e]
                             /\ t.escrow[e] = s.escrow[e]
  <2>1. t.ticket = [s.ticket EXCEPT ![d] = k] /\ t.escrow = [s.escrow EXCEPT ![d] = s.escrow[d]]
    BY <1>3 DEF With
  <2>4. t.escrow = s.escrow
    BY <1>1, <2>1, SMTT(60)
  <2>2. t.ticket \in [Ids -> TicketType]
    BY SMTT(90), <1>1, <1>2, <2>1
  <2>3. t \in StateType
    BY <1>1, <1>2, <1>3, <2>2, <2>4, Zenon DEF With, StateType
  <2> QED
    BY <1>1, <1>2, <1>3, <2>1, <2>3, <2>4, Zenon DEF With
<1>5. SoundQueue(t) /\ \A e : Entries(t, e) = Entries(s, e)
  BY <1>4, Zenon DEF Sound, SoundQueue, Entries
<1>6. SoundTicket(s, d, used) /\ SoundEscrow(s, d, r)
  BY DEF Sound
<1>7. Live(t, d) /\ SoundTicket(t, d, used) /\ SoundEscrow(t, d, r)
  BY <1>2, <1>4, <1>5, <1>6, Zenon DEF SoundTicket, SoundEscrow, Live
<1>8. Sound(t, r, used) /\ \A e \in Ids \ {d} : Live(t, e) <=> Live(s, e)
  BY ZenonT(90), <1>4, <1>5, <1>7, WithSound
<1> QED
  BY <1>7, <1>8, Zenon

\* Adding a lifetime to a live ticket.
LEMMA ExtendSound ==
  ASSUME NEW s, NEW r, NEW used, NEW d \in Ids, Sound(s, r, used), Live(s, d),
         NEW t, t = Extend(s, d)
  PROVE  Sound(t, r, used) /\ \A e \in Ids : Live(t, e) <=> Live(s, e)
<1> DEFINE k == [s.ticket[d] EXCEPT !.windows = @ + 1]
           q == Append(s.slot, d)
<1>1. /\ s \in StateType
      /\ s.ticket \in [Ids -> TicketType] /\ s.ticket[d] \in TicketType
      /\ s.escrow \in [Ids -> 0 .. 1] /\ s.escrow[d] \in 0 .. 1
      /\ s.slot \in Seq(Ids \union {None}) /\ s.get \in Nat \ {0}
      /\ s = [ticket |-> s.ticket, escrow |-> s.escrow, slot |-> s.slot, get |-> s.get]
      /\ [s.escrow EXCEPT ![d] = s.escrow[d]] = s.escrow
  BY Parts, Zenon DEF Sound
<1>2. /\ k \in TicketType /\ k.timeout = s.ticket[d].timeout
      /\ k.windows = s.ticket[d].windows + 1 /\ k.value = s.ticket[d].value
  <2>1. s.ticket[d] \in TicketType
    BY <1>1
  <2> QED
    BY <2>1 DEF TicketType
<1>3. t = With(s, d, k, s.escrow[d], q, s.get)
  BY ZenonT(90), <1>1 DEF With, Extend, Put
<1>4. q \in Seq(Ids \union {None})
  BY <1>1, SMTT(60)
<1> HIDE DEF k
<1>5. /\ t \in StateType /\ t.slot = q /\ t.get = s.get
      /\ t.ticket[d] = k /\ t.escrow[d] = s.escrow[d]
      /\ \A e \in Ids \ {d} : /\ t.ticket[e] = s.ticket[e]
                             /\ t.escrow[e] = s.escrow[e]
  <2>1. t.ticket = [s.ticket EXCEPT ![d] = k] /\ t.escrow = [s.escrow EXCEPT ![d] = s.escrow[d]]
    BY <1>3 DEF With
  <2>4. t.escrow = s.escrow
    BY <1>1, <2>1, Zenon
  <2>2. t.ticket \in [Ids -> TicketType]
    BY <1>1, <1>2, <2>1, SMTT(60)
  <2>3. t \in StateType
    BY <1>1, <1>2, <1>3, <1>4, <2>2, <2>4, SMTT(60) DEF With, StateType
  <2> QED
    BY <1>1, <1>2, <1>3, <1>4, <2>1, <2>3, <2>4, SMTT(60) DEF With
<1>6. /\ SoundQueue(t) /\ Cardinality(Entries(t, d)) = Cardinality(Entries(s, d)) + 1
      /\ \A e \in Ids \ {d} : Entries(t, e) = Entries(s, e)
  BY SMTT(90), <1>1, <1>5, PutEntries DEF Sound
<1>7. SoundTicket(s, d, used) /\ SoundEscrow(s, d, r)
  BY SMTT(90) DEF Sound
<1>8. Live(t, d) /\ SoundTicket(t, d, used) /\ SoundEscrow(t, d, r)
  BY <1>2, <1>5, <1>6, <1>7, Zenon DEF SoundTicket, SoundEscrow, Live
<1>9. Sound(t, r, used) /\ \A e \in Ids \ {d} : Live(t, e) <=> Live(s, e)
  BY <1>5, <1>6, <1>8, WithSound, Zenon
<1> QED
  BY <1>8, <1>9

\* Deleting a live ticket, whether it runs or not; afterwards another may run.
LEMMA DeleteSound ==
  ASSUME NEW s, NEW r, NEW r2, NEW used, NEW d \in Ids, Sound(s, r, used), Live(s, d),
         r2 = r \/ (r = d /\ r2 \notin Ids), NEW t, t = DeleteRetryable(s, d)
  PROVE  /\ Sound(t, r2, used) /\ ~Live(t, d)
         /\ \A e \in Ids \ {d} : Live(t, e) <=> Live(s, e)
<1>1. /\ s \in StateType
      /\ s.ticket \in [Ids -> TicketType] /\ s.ticket[d] \in TicketType
      /\ s.escrow \in [Ids -> 0 .. 1] /\ s.escrow[d] \in 0 .. 1
      /\ s.slot \in Seq(Ids \union {None}) /\ s.get \in Nat \ {0}
      /\ s = [ticket |-> s.ticket, escrow |-> s.escrow, slot |-> s.slot, get |-> s.get]
      /\ [s.ticket EXCEPT ![d] = s.ticket[d]] = s.ticket
      /\ [s.escrow EXCEPT ![d] = s.escrow[d]] = s.escrow
  BY Parts, Zenon DEF Sound
<1>2. NoTicket \in TicketType /\ NoTicket.timeout = 0 /\ 0 \in 0 .. 1
  BY DEF NoTicket, TicketType
<1>3. t = With(s, d, NoTicket, 0, s.slot, s.get)
  BY ZenonT(90), <1>1 DEF With, DeleteRetryable, Live
<1>5. /\ t \in StateType /\ t.slot = s.slot /\ t.get = s.get
      /\ t.ticket[d] = NoTicket /\ t.escrow[d] = 0
      /\ \A e \in Ids \ {d} : /\ t.ticket[e] = s.ticket[e]
                             /\ t.escrow[e] = s.escrow[e]
  <2>1. t.ticket = [s.ticket EXCEPT ![d] = NoTicket] /\ t.escrow = [s.escrow EXCEPT ![d] = 0]
    BY <1>3 DEF With
  <2>2. t.ticket \in [Ids -> TicketType] /\ t.escrow \in [Ids -> 0 .. 1]
    BY <1>1, <1>2, <2>1, SMTT(60)
  <2>3. t \in StateType
    BY SMTT(90), <1>1, <1>2, <1>3, <2>2 DEF With, StateType
  <2> QED
    BY <1>1, <1>2, <1>3, <2>1, <2>3, SMTT(60) DEF With
<1>6. SoundQueue(t) /\ \A e : Entries(t, e) = Entries(s, e)
  BY SMTT(90), <1>5 DEF Sound, SoundQueue, Entries
<1>7. SoundTicket(s, d, used)
  BY Zenon DEF Sound
<1>8. ~Live(t, d) /\ SoundTicket(t, d, used) /\ SoundEscrow(t, d, r2)
  BY SMTT(90), <1>2, <1>5, <1>6, <1>7 DEF SoundTicket, SoundEscrow, Live
<1>9. \A e \in Ids \ {d} : e = r <=> e = r2
  BY SMTT(90)
<1>10. Sound(t, r2, used) /\ \A e \in Ids \ {d} : Live(t, e) <=> Live(s, e)
  BY SMTT(90), <1>5, <1>6, <1>8, <1>9, WithSound
<1> QED
  BY <1>8, <1>10

\* Moving the callvalue of a live ticket out of its escrow, to run its retry, or
\* back into it, after the retry failed.
LEMMA EscrowSound ==
  ASSUME NEW s, NEW r, NEW r2, NEW used, NEW d \in Ids, Sound(s, r, used), Live(s, d),
         NEW m, \/ r \notin Ids /\ r2 = d /\ m = 0
                \/ r = d /\ r2 \notin Ids /\ m = s.ticket[d].value,
         NEW t, t = With(s, d, s.ticket[d], m, s.slot, s.get)
  PROVE  Sound(t, r2, used) /\ \A e \in Ids : Live(t, e) <=> Live(s, e)
<1>1. /\ s \in StateType
      /\ s.ticket \in [Ids -> TicketType] /\ s.ticket[d] \in TicketType
      /\ s.escrow \in [Ids -> 0 .. 1] /\ s.escrow[d] \in 0 .. 1
      /\ s.slot \in Seq(Ids \union {None}) /\ s.get \in Nat \ {0}
      /\ s = [ticket |-> s.ticket, escrow |-> s.escrow, slot |-> s.slot, get |-> s.get]
      /\ [s.ticket EXCEPT ![d] = s.ticket[d]] = s.ticket
      /\ [s.escrow EXCEPT ![d] = s.escrow[d]] = s.escrow
  BY Parts, Zenon DEF Sound
<1>2. m \in 0 .. 1
  <2>1. s.ticket[d] \in TicketType
    BY <1>1, Zenon
  <2> QED
    BY <2>1 DEF TicketType
<1>3. t = With(s, d, s.ticket[d], m, s.slot, s.get)
  BY SMTT(60)
<1>5. /\ t \in StateType /\ t.slot = s.slot /\ t.get = s.get
      /\ t.ticket[d] = s.ticket[d] /\ t.escrow[d] = m
      /\ \A e \in Ids \ {d} : /\ t.ticket[e] = s.ticket[e]
                             /\ t.escrow[e] = s.escrow[e]
  <2>1. t.ticket = [s.ticket EXCEPT ![d] = s.ticket[d]] /\ t.escrow = [s.escrow EXCEPT ![d] = m]
    BY <1>3, SMTT(60) DEF With
  <2>2. t.ticket \in [Ids -> TicketType] /\ t.escrow \in [Ids -> 0 .. 1]
    BY <1>1, <1>2, <2>1, SMTT(60)
  <2>3. t \in StateType
    BY SMTT(90), <1>1, <1>2, <1>3, <2>2 DEF With, StateType
  <2> QED
    BY <1>1, <1>2, <1>3, <2>1, <2>3, SMTT(60) DEF With
<1>6. SoundQueue(t) /\ \A e : Entries(t, e) = Entries(s, e)
  BY <1>5, Zenon DEF Sound, SoundQueue, Entries
<1>7. SoundTicket(s, d, used)
  BY Zenon DEF Sound
<1>8. Live(t, d) /\ SoundTicket(t, d, used)
  BY <1>5, <1>6, <1>7, Zenon DEF SoundTicket, Live
<1>9. SoundEscrow(t, d, r2)
  BY <1>5, <1>8, Zenon DEF SoundEscrow
<1>10. \A e \in Ids \ {d} :
         /\ t.ticket[e] = s.ticket[e] /\ t.escrow[e] = s.escrow[e]
         /\ Entries(t, e) = Entries(s, e)
         /\ (e = r <=> e = r2) /\ (e \in used <=> e \in used)
  BY <1>5, <1>6, Zenon
<1>11. t \in StateType /\ SoundQueue(t)
  BY <1>5, <1>6, Zenon
<1>12. Sound(t, r2, used) /\ \A e \in Ids \ {d} : Live(t, e) <=> Live(s, e)
  BY <1>8, <1>9, <1>10, <1>11, WithSound, Zenon
<1> QED
  BY <1>8, <1>12, Zenon

\* Creating a ticket under an id that was not in use.
LEMMA CreateSound ==
  ASSUME NEW s, NEW used, NEW d \in Ids, Sound(s, None, used), d \notin used,
         NEW k \in TicketType, k.timeout # 0, k.windows = 0, NEW v \in 0 .. 1, k.value = v,
         NEW t, t = With(s, d, k, v, Append(s.slot, d), s.get)
  PROVE  /\ Sound(t, None, used \union {d})
         /\ \A e \in Ids \ {d} : Live(t, e) <=> Live(s, e)
<1>1. /\ s \in StateType
      /\ s.ticket \in [Ids -> TicketType] /\ s.ticket[d] \in TicketType
      /\ s.escrow \in [Ids -> 0 .. 1] /\ s.escrow[d] \in 0 .. 1
      /\ s.slot \in Seq(Ids \union {None}) /\ s.get \in Nat \ {0}
      /\ s = [ticket |-> s.ticket, escrow |-> s.escrow, slot |-> s.slot, get |-> s.get]
      /\ [s.ticket EXCEPT ![d] = s.ticket[d]] = s.ticket
      /\ [s.escrow EXCEPT ![d] = s.escrow[d]] = s.escrow
  BY Parts, Zenon DEF Sound
<1>2. k.timeout # 0 /\ k.windows = 0 /\ k.value = v
  OBVIOUS
<1>3. t = With(s, d, k, v, Append(s.slot, d), s.get)
  OBVIOUS
<1>4. Append(s.slot, d) \in Seq(Ids \union {None})
  BY <1>1, SMTT(60)
<1>5. /\ t \in StateType /\ t.slot = Append(s.slot, d) /\ t.get = s.get
      /\ t.ticket[d] = k /\ t.escrow[d] = v
      /\ \A e \in Ids \ {d} : /\ t.ticket[e] = s.ticket[e]
                             /\ t.escrow[e] = s.escrow[e]
  <2>1. t.ticket = [s.ticket EXCEPT ![d] = k] /\ t.escrow = [s.escrow EXCEPT ![d] = v]
    BY <1>3 DEF With
  <2>2. t.ticket \in [Ids -> TicketType] /\ t.escrow \in [Ids -> 0 .. 1]
    BY <1>1, <1>2, <1>4, <2>1, SMTT(60)
  <2>3. t \in StateType
    BY <1>1, <1>2, <1>4, <1>3, <2>2, SMTT(60) DEF With, StateType
  <2> QED
    BY <1>1, <1>2, <1>4, <1>3, <2>1, <2>3, SMTT(60) DEF With
<1>6. /\ SoundQueue(t) /\ Cardinality(Entries(t, d)) = Cardinality(Entries(s, d)) + 1
      /\ \A e \in Ids \ {d} : Entries(t, e) = Entries(s, e)
  BY SMTT(90), <1>1, <1>5, PutEntries DEF Sound
<1>7. Entries(s, d) = {} /\ Cardinality(Entries(s, d)) = 0
  BY ZenonT(90), FS_EmptySet DEF Sound, SoundTicket
<1>8. Live(t, d) /\ SoundTicket(t, d, used \union {d}) /\ SoundEscrow(t, d, None)
  BY <1>2, <1>5, <1>6, <1>7, TxNames, Zenon DEF SoundTicket, SoundEscrow, Live
<1>9. \A e \in Ids \ {d} :
        /\ t.ticket[e] = s.ticket[e] /\ t.escrow[e] = s.escrow[e]
        /\ Entries(t, e) = Entries(s, e)
        /\ (e = None <=> e = None) /\ (e \in used <=> e \in used \union {d})
  BY <1>5, <1>6, Zenon
<1>10. t \in StateType /\ SoundQueue(t)
  BY <1>5, <1>6, Zenon
<1> QED
  BY <1>8, <1>9, <1>10, WithSound, ZenonT(60)

\* What the head of the queue does to its ticket and to the escrow: a ticket
\* that stays loses a window, and the escrow of one that is gone is empty.
Popped(s, d, k, m) ==
  /\ k.timeout # 0 => Live(s, d) /\ s.ticket[d].windows = k.windows + 1
  /\ k.timeout = 0 => k = NoTicket
  /\ m = IF k.timeout # 0 THEN k.value ELSE 0

\* The id at the head of the queue, and what is left after it.
AtHead(s, d, q, g) ==
  /\ s.get # Len(s.slot) + 1 /\ d = s.slot[s.get]
  /\ q = [s.slot EXCEPT ![s.get] = None] /\ g = s.get + 1

\* Taking the head of the queue.
LEMMA PopSound ==
  ASSUME NEW s, NEW used, NEW d \in Ids, Sound(s, None, used),
         NEW q, NEW g, AtHead(s, d, q, g),
         NEW k \in TicketType, NEW m \in 0 .. 1, Popped(s, d, k, m),
         NEW t, t = With(s, d, k, m, q, g)
  PROVE  /\ Sound(t, None, used) /\ t.ticket[d] = k
         /\ \A e \in Ids \ {d} : t.ticket[e] = s.ticket[e]
<1>1. /\ s \in StateType
      /\ s.ticket \in [Ids -> TicketType] /\ s.ticket[d] \in TicketType
      /\ s.escrow \in [Ids -> 0 .. 1] /\ s.escrow[d] \in 0 .. 1
      /\ s.slot \in Seq(Ids \union {None}) /\ s.get \in Nat \ {0}
      /\ s = [ticket |-> s.ticket, escrow |-> s.escrow, slot |-> s.slot, get |-> s.get]
      /\ [s.ticket EXCEPT ![d] = s.ticket[d]] = s.ticket
      /\ [s.escrow EXCEPT ![d] = s.escrow[d]] = s.escrow
  BY Parts, Zenon DEF Sound
<1>2. g \in Nat \ {0}
  BY <1>1 DEF AtHead
<1>3. t = With(s, d, k, m, q, g)
  BY SMTT(60)
<1>4. q \in Seq(Ids \union {None})
  BY <1>1, SMTT(60) DEF AtHead, Sound, SoundQueue
<1>5. /\ t \in StateType /\ t.slot = q /\ t.get = g
      /\ t.ticket[d] = k /\ t.escrow[d] = m
      /\ \A e \in Ids \ {d} : /\ t.ticket[e] = s.ticket[e]
                             /\ t.escrow[e] = s.escrow[e]
  <2>1. t.ticket = [s.ticket EXCEPT ![d] = k] /\ t.escrow = [s.escrow EXCEPT ![d] = m]
    BY <1>3, SMTT(60) DEF With
  <2>2. t.ticket \in [Ids -> TicketType] /\ t.escrow \in [Ids -> 0 .. 1]
    BY <1>1, <1>2, <1>4, <2>1, SMTT(60)
  <2>3. t \in StateType
    BY <1>1, <1>2, <1>4, <1>3, <2>2, SMTT(60) DEF With, StateType
  <2> QED
    BY <1>1, <1>2, <1>4, <1>3, <2>1, <2>3, SMTT(60) DEF With
<1>6. /\ SoundQueue(t) /\ Cardinality(Entries(t, d)) = Cardinality(Entries(s, d)) - 1
      /\ \A e \in Ids \ {d} : Entries(t, e) = Entries(s, e)
  <2>1. SoundQueue(s) /\ s \in StateType /\ t \in StateType
    BY <1>5, Zenon DEF Sound
  <2>2. t.slot = [s.slot EXCEPT ![s.get] = None] /\ t.get = s.get + 1
    BY <1>5, Zenon DEF AtHead
  <2>3. s.get # Len(s.slot) + 1 /\ d = s.slot[s.get]
    BY SMTT(90) DEF AtHead
  <2> QED
    BY SMTT(90), <2>1, <2>2, <2>3, GetEntries
<1>7. SoundTicket(s, d, used)
  BY Zenon DEF Sound
<1>8. d \in used
  <2>1. s.get \in Entries(s, d)
    BY SMTT(90), <1>1 DEF AtHead, Entries, Sound, SoundQueue
  <2> QED
    BY <1>7, <2>1, Zenon DEF SoundTicket
<1>9. s.ticket[d].windows \in Nat /\ k.windows \in Nat
  <2>1. s.ticket[d] \in TicketType
    BY <1>1, ZenonT(60)
  <2> QED
    BY <2>1, Zenon DEF TicketType
<1>10. SoundTicket(t, d, used)
  BY SMTT(90), <1>5, <1>6, <1>7, <1>8, <1>9 DEF SoundTicket, Live, Popped
<1>11. SoundEscrow(t, d, None)
  BY <1>5, TxNames, Zenon DEF SoundEscrow, Live, Popped
<1>12. t \in StateType /\ SoundQueue(t)
  BY <1>5, <1>6, Zenon
<1>13. \A e \in Ids \ {d} :
         /\ t.ticket[e] = s.ticket[e] /\ t.escrow[e] = s.escrow[e]
         /\ Entries(t, e) = Entries(s, e)
         /\ (e = None <=> e = None) /\ (e \in used <=> e \in used)
  BY <1>5, <1>6, ZenonT(60)
<1>14. Sound(t, None, used)
  BY SMTT(90), <1>10, <1>11, <1>12, <1>13, WithSound
<1> QED
  BY <1>5, <1>14, Zenon

\* A window less and a lifetime later is the same expiry.
LEMMA SameExpiry ==
  ASSUME NEW w \in Nat, NEW n \in Nat, n # 0
  PROVE  (w + Lifetime) + (n - 1) * Lifetime = w + n * Lifetime
BY SMTT(90), LifetimePositive

\* A ticket that has lost a window is still a ticket.
LEMMA WindowLost ==
  ASSUME NEW k \in TicketType, k.windows # 0
  PROVE  /\ LessOneWindow(k) \in TicketType
         /\ LessOneWindow(k).timeout = k.timeout + Lifetime
         /\ LessOneWindow(k).windows = k.windows - 1
         /\ LessOneWindow(k).value = k.value /\ LessOneWindow(k).timeout # 0
BY SMTT(90), LifetimePositive DEF LessOneWindow, TicketType

\* Replacing the slots of a trie, or its first offset.
LEMMA SlotOf ==
  ASSUME NEW A, NEW B, NEW C, NEW G, NEW q,
         NEW s \in [ticket : A, escrow : B, slot : C, get : G]
  PROVE  /\ [s EXCEPT !.slot = q] = [ticket |-> s.ticket, escrow |-> s.escrow,
                                     slot |-> q, get |-> s.get]
         /\ [s EXCEPT !.get = q] = [ticket |-> s.ticket, escrow |-> s.escrow,
                                    slot |-> s.slot, get |-> q]
OBVIOUS

\* Replacing both.
LEMMA QueueOf ==
  ASSUME NEW A, NEW B, NEW C, NEW G, NEW q \in C, NEW g,
         NEW s \in [ticket : A, escrow : B, slot : C, get : G]
  PROVE  [s EXCEPT !.slot = q, !.get = g] = [ticket |-> s.ticket, escrow |-> s.escrow,
                                            slot |-> q, get |-> g]
<1> DEFINE t == [s EXCEPT !.slot = q]
<1>1. t = [ticket |-> s.ticket, escrow |-> s.escrow, slot |-> q, get |-> s.get]
  BY SlotOf
<1>2. [s EXCEPT !.slot = q, !.get = g] = [t EXCEPT !.get = g]
  BY SMTT(90)
<1> HIDE DEF t
<1>3. t \in [ticket : A, escrow : B, slot : C, get : G]
  BY <1>1, Zenon
<1>4. [t EXCEPT !.get = g] = [ticket |-> t.ticket, escrow |-> t.escrow,
                              slot |-> t.slot, get |-> g]
  BY SMTT(90), <1>3, SlotOf
<1> QED
  BY <1>1, <1>2, <1>4, ZenonT(60)

\* Deleting a ticket empties its record and its escrow.
LEMMA DeleteOf ==
  ASSUME NEW s \in StateType, NEW d \in Ids, s.ticket[d].timeout # 0
  PROVE  DeleteRetryable(s, d) = With(s, d, NoTicket, 0, s.slot, s.get)
<1>1. s = [ticket |-> s.ticket, escrow |-> s.escrow, slot |-> s.slot, get |-> s.get]
  BY Parts, Zenon
<1> QED
  BY <1>1, Zenon DEF With, DeleteRetryable

\* The three ways in which the head of the queue is taken.
LEMMA GetWith ==
  ASSUME NEW s \in StateType, NEW d \in Ids, SoundQueue(s),
         NEW q, NEW g, AtHead(s, d, q, g)
  PROVE  /\ Get(s) = With(s, d, s.ticket[d], s.escrow[d], q, g)
         /\ ConsumeWindow(s, d) = With(s, d, LessOneWindow(s.ticket[d]), s.escrow[d], q, g)
         /\ s.ticket[d].timeout # 0 => DeleteRetryable(Get(s), d) = With(s, d, NoTicket, 0, q, g)
<1>1. /\ s.ticket \in [Ids -> TicketType] /\ s.escrow \in [Ids -> 0 .. 1]
      /\ s.slot \in Seq(Ids \union {None}) /\ s.get \in Nat \ {0}
      /\ [s.ticket EXCEPT ![d] = s.ticket[d]] = s.ticket
      /\ [s.escrow EXCEPT ![d] = s.escrow[d]] = s.escrow
  BY Parts, ZenonT(60)
<1>2. q \in Seq(Ids \union {None})
  BY SMTT(90), <1>1 DEF AtHead, SoundQueue
<1>3. Get(s) = [s EXCEPT !.slot = q, !.get = g]
  BY DEF Get, StateType, AtHead
<1>4. Get(s) = [ticket |-> s.ticket, escrow |-> s.escrow, slot |-> q, get |-> g]
  BY ZenonT(90), <1>2, <1>3, QueueOf DEF StateType
<1>5. ConsumeWindow(s, d)
        = [ticket |-> [s.ticket EXCEPT ![d] = LessOneWindow(s.ticket[d])],
           escrow |-> s.escrow, slot |-> q, get |-> g]
  BY SMTT(90), <1>4 DEF ConsumeWindow
<1>6. Get(s) \in StateType
  BY SMTT(90), <1>1, <1>2, <1>4 DEF StateType, AtHead
<1>7. ASSUME s.ticket[d].timeout # 0
      PROVE  DeleteRetryable(Get(s), d) = With(s, d, NoTicket, 0, q, g)
  <2>1. /\ Get(s).ticket = s.ticket /\ Get(s).escrow = s.escrow
        /\ Get(s).slot = q /\ Get(s).get = g
    BY SMTT(90), <1>4
  <2>2. DeleteRetryable(Get(s), d) = With(Get(s), d, NoTicket, 0, Get(s).slot, Get(s).get)
    BY <1>6, <1>7, <2>1, DeleteOf, ZenonT(60)
  <2> QED
    BY <2>1, <2>2, Zenon DEF With
<1> QED
  BY <1>1, <1>4, <1>5, <1>7, Zenon DEF With

\* What a look at the head of the queue at time now may do to a ticket.
Reaped(s, t, e, now) ==
  /\ ~Live(s, e) => ~Live(t, e)
  /\ Live(s, e) /\ Live(t, e) => CalculateTimeout(t, e) = CalculateTimeout(s, e)
  /\ Live(s, e) /\ ~Live(t, e) => CalculateTimeout(s, e) < now

\* A look at the head of the queue keeps the trie sound, brings no ticket back,
\* keeps every expiry, and deletes only a ticket whose expiry is over.
LEMMA ReapSound ==
  ASSUME NEW s, NEW used, NEW now \in Nat, Sound(s, None, used)
  PROVE  /\ Sound(TryToReapOneRetryable(s, now), None, used)
         /\ \A e \in Ids : Reaped(s, TryToReapOneRetryable(s, now), e, now)
<1> DEFINE t == TryToReapOneRetryable(s, now)
           d == s.slot[s.get]
           w == s.ticket[d].timeout
           n == s.ticket[d].windows
           q == [s.slot EXCEPT ![s.get] = None]
           g == s.get + 1
<1>1. CASE t = s
  BY <1>1, Zenon DEF Reaped
<1>2. CASE t # s
  <2>1. s.get # Len(s.slot) + 1
    BY <1>2, Zenon DEF TryToReapOneRetryable
  <2>2. d \in Ids /\ s \in StateType
    BY SMTT(90), <2>1 DEF Sound, SoundQueue, StateType
  <2>3. AtHead(s, d, q, g)
    BY SMTT(90), <2>1 DEF AtHead
  <2>4. /\ s.ticket \in [Ids -> TicketType] /\ s.ticket[d] \in TicketType
        /\ s.escrow[d] \in 0 .. 1
    BY ZenonT(90), <2>2, Parts
  <2>5. w \in Nat /\ n \in Nat
    BY <2>4, Zenon DEF TicketType
  <2>6. SoundTicket(s, d, used) /\ SoundEscrow(s, d, None) /\ d # None
    BY <2>2, TxNames, ZenonT(60) DEF Sound
  <2>11. /\ Get(s) = With(s, d, s.ticket[d], s.escrow[d], q, g)
         /\ ConsumeWindow(s, d) = With(s, d, LessOneWindow(s.ticket[d]), s.escrow[d], q, g)
         /\ w # 0 => DeleteRetryable(Get(s), d) = With(s, d, NoTicket, 0, q, g)
    BY <2>2, <2>3, GetWith, SMTT(60) DEF Sound
  <2>7. ASSUME NEW k \in TicketType, NEW m \in 0 .. 1, Popped(s, d, k, m),
               t = With(s, d, k, m, q, g),
               w = 0 => k.timeout = 0,
               w # 0 /\ k.timeout # 0 =>
                 k.timeout + k.windows * Lifetime = w + n * Lifetime,
               w # 0 /\ k.timeout = 0 => w + n * Lifetime < now
        PROVE  Sound(t, None, used) /\ \A e \in Ids : Reaped(s, t, e, now)
    <3> HIDE DEF t, d, q, g
    <3>1. /\ Sound(t, None, used) /\ t.ticket[d] = k
          /\ \A e \in Ids \ {d} : t.ticket[e] = s.ticket[e]
      BY <2>2, <2>3, <2>7, PopSound, SMTT(60)
    <3>2. \A e \in Ids \ {d} : Reaped(s, t, e, now)
      BY <3>1, ZenonT(60) DEF Reaped, Live, CalculateTimeout
    <3>3. Reaped(s, t, d, now)
      BY <2>7, <3>1, SMTT(60) DEF Reaped, Live, CalculateTimeout
    <3> QED
      BY <3>1, <3>2, <3>3, ZenonT(60)
  <2>8. CASE w = 0
    <3>1. s.ticket[d] = NoTicket /\ s.escrow[d] = 0
      BY <2>6, <2>8, Zenon DEF SoundTicket, SoundEscrow, Live
    <3>2. t = With(s, d, s.ticket[d], s.escrow[d], q, g)
      BY <2>1, <2>8, <2>11, ZenonT(60) DEF TryToReapOneRetryable
    <3>3. Popped(s, d, s.ticket[d], s.escrow[d])
      BY SMTT(90), <2>8, <3>1 DEF Popped
    <3> QED
      BY ZenonT(90), <2>4, <2>7, <2>8, <3>2, <3>3
  <2>9. CASE w # 0 /\ n = 0
    <3>1. w < now
      BY SMTT(90), <1>2, <2>1, <2>5, <2>9 DEF TryToReapOneRetryable
    <3>2. t = With(s, d, NoTicket, 0, q, g)
      <4>1. t = DeleteRetryable(Get(s), d)
        BY SMTT(90), <2>1, <2>5, <2>9, <3>1 DEF TryToReapOneRetryable
      <4> HIDE DEF t, d, q, g
      <4> QED
        BY <2>9, <2>11, <4>1, ZenonT(60)
    <3>3. NoTicket \in TicketType /\ NoTicket.timeout = 0 /\ 0 \in 0 .. 1
      BY SMTT(90) DEF NoTicket, TicketType
    <3>4. Popped(s, d, NoTicket, 0)
      BY <3>3, ZenonT(60) DEF Popped
    <3>5. w + n * Lifetime < now
      BY SMTT(90), <2>5, <2>9, <3>1, LifetimePositive
    <3> QED
      BY ZenonT(90), <2>7, <2>9, <3>2, <3>3, <3>4, <3>5
  <2>10. CASE w # 0 /\ n # 0
    <3> DEFINE k == LessOneWindow(s.ticket[d])
    <3>1. w < now
      BY SMTT(90), <1>2, <2>1, <2>5, <2>10 DEF TryToReapOneRetryable
    <3>2. t = With(s, d, k, s.escrow[d], q, g)
      <4>1. t = ConsumeWindow(s, d)
        BY SMTT(90), <2>1, <2>5, <2>10, <3>1 DEF TryToReapOneRetryable
      <4> HIDE DEF t, d, q, g
      <4> QED
        BY <2>11, <4>1, ZenonT(60)
    <3>3. /\ k \in TicketType /\ k.timeout = w + Lifetime /\ k.windows = n - 1
          /\ k.value = s.ticket[d].value /\ k.timeout # 0
      BY <2>4, <2>10, WindowLost, ZenonT(60)
    <3> HIDE DEF k
    <3>4. Popped(s, d, k, s.escrow[d])
      <4>1. Live(s, d) /\ s.escrow[d] = s.ticket[d].value
        BY <2>6, <2>10, ZenonT(60) DEF Live, SoundEscrow
      <4> HIDE DEF t, d, q, g
      <4> QED
        BY SMTT(90), <2>5, <3>3, <4>1 DEF Popped
    <3>5. k.timeout + k.windows * Lifetime = w + n * Lifetime
      <4>1. w \in Nat /\ n \in Nat /\ n # 0
        BY <2>5, <2>10, Zenon
      <4> HIDE DEF w, n
      <4>2. (w + Lifetime) + (n - 1) * Lifetime = w + n * Lifetime
        BY <4>1, SameExpiry, Zenon
      <4> QED
        BY <3>3, <4>2, Zenon
    <3> QED
      BY ZenonT(90), <2>4, <2>7, <2>10, <3>2, <3>3, <3>4, <3>5
  <2> QED
    BY <2>8, <2>9, <2>10, Zenon
<1> QED
  BY <1>1, <1>2, Zenon

(***************************************************************************)
(* Every step preserves the invariant.                                     *)
(***************************************************************************)
\* The initial states satisfy the invariant.
LEMMA InitInv == Init => IInv
<1> SUFFICES ASSUME Init PROVE IInv
  BY SMTT(90)
<1>1. /\ st = saved /\ tx = None /\ submitted = {} /\ time = 1
      /\ st = [ticket |-> [d \in Ids |-> NoTicket], escrow |-> [d \in Ids |-> 0],
               slot |-> <<>>, get |-> 1]
      /\ redeemed = [d \in Ids |-> 0]
  BY SMTT(90) DEF Init
<1>2. NoTicket \in TicketType /\ NoTicket.timeout = 0 /\ 0 \in 0 .. 1
  BY SMTT(90) DEF NoTicket, TicketType
<1>3. /\ st \in StateType /\ st.get = 1 /\ Len(st.slot) = 0
      /\ \A d \in Ids : st.ticket[d] = NoTicket /\ st.escrow[d] = 0
  BY SMTT(90), <1>1, <1>2 DEF StateType
<1>4. SoundQueue(st) /\ \A d : Entries(st, d) = {}
  BY SMTT(90), <1>3 DEF SoundQueue, Entries
<1>5. \A d \in Ids : ~Live(st, d)
  BY <1>2, <1>3, Zenon DEF Live
<1>6. Sound(st, tx, submitted)
  BY <1>3, <1>4, <1>5, ZenonT(60) DEF Sound, SoundTicket, SoundEscrow
<1> QED
  BY SMTT(90), <1>1, <1>5, <1>6, TxNames DEF IInv

\* What an operation of a transaction does to IInv: st changes to a sound trie with
\* the same running retry, in which no ticket lives that did not live before.
LEMMA CallInv ==
  ASSUME IInv, NEW s, Call(s), Sound(s, tx, submitted),
         \A e \in Ids : ~Live(st, e) => ~Live(s, e),
         tx \in Ids => Live(s, tx)
  PROVE  IInv'
<1>1. /\ st' = s /\ saved' = saved /\ time' = time /\ tx' = tx
      /\ submitted' = submitted /\ redeemed' = redeemed
  BY SMTT(90) DEF Call
<1>2. Sound(st', tx, submitted)
  BY SMTT(90), <1>1
<1>3. \A e \in Ids : ~Live(st, e) => ~Live(st', e)
  BY SMTT(90), <1>1
<1>4. tx \in Ids => Live(st', tx)
  BY SMTT(90), <1>1
<1> QED
  BY SMTT(90), <1>1, <1>2, <1>3, <1>4 DEF IInv

\* The calls of the precompile.
LEMMA PrecompileInv ==
  ASSUME IInv, NEW d \in Ids, Redeem(d) \/ Keepalive(d) \/ Cancel(d)
  PROVE  IInv'
<1>1. Sound(st, tx, submitted) /\ (tx \in Ids => Live(st, tx))
  BY Zenon DEF IInv
<1>2. Opens(st, d, time) => Live(st, d)
  BY Zenon DEF Opens, Live
<1>3. CASE Redeem(d)
  <2> DEFINE s == [st EXCEPT !.ticket[d].tries = @ + 1]
  <2>1. Call(s) /\ Live(st, d)
    BY <1>2, <1>3, Zenon DEF Redeem
  <2> HIDE DEF s
  <2>2. Sound(s, tx, submitted) /\ \A e \in Ids : Live(s, e) <=> Live(st, e)
    BY SMTT(90), <1>1, <2>1, CountSound DEF s
  <2> QED
    BY SMTT(90), <1>1, <2>1, <2>2, CallInv
<1>4. CASE Keepalive(d)
  <2> DEFINE s == Extend(st, d)
  <2>1. Call(s) /\ Live(st, d)
    BY <1>2, <1>4, Zenon DEF Keepalive
  <2> HIDE DEF s
  <2>2. Sound(s, tx, submitted) /\ \A e \in Ids : Live(s, e) <=> Live(st, e)
    BY <1>1, <2>1, ExtendSound, Zenon DEF s
  <2> QED
    BY <1>1, <2>1, <2>2, CallInv, Zenon
<1>5. CASE Cancel(d)
  <2> DEFINE s == DeleteRetryable(st, d)
  <2>1. Call(s) /\ Live(st, d) /\ tx # d
    BY <1>2, <1>5, ZenonT(60) DEF Cancel
  <2> HIDE DEF s
  <2>2. /\ Sound(s, tx, submitted) /\ ~Live(s, d)
        /\ \A e \in Ids \ {d} : Live(s, e) <=> Live(st, e)
    BY SMTT(90), <1>1, <2>1, DeleteSound DEF s
  <2> QED
    BY <1>1, <2>1, <2>2, CallInv, ZenonT(60)
<1> QED
  BY <1>3, <1>4, <1>5, Zenon

\* A new block: two looks at the queue.
LEMMA BlockInv ==
  ASSUME IInv, NEW now \in 1 .. MaxTime, StartBlock(now)
  PROVE  /\ IInv'
         /\ \A e \in Ids : Reaped(st, st', e, now)
<1> DEFINE u == TryToReapOneRetryable(st, now)
           v == TryToReapOneRetryable(u, now)
<1>1. /\ tx = None /\ tx' = tx /\ st' = v /\ saved' = st' /\ time' = now
      /\ submitted' = submitted /\ redeemed' = redeemed
  BY Zenon DEF StartBlock
<1>2. now \in Nat \ {0} /\ Sound(st, None, submitted)
  BY SMTT(90), <1>1, BoundsAreNumbers DEF IInv
<1>3. Sound(u, None, submitted) /\ \A e \in Ids : Reaped(st, u, e, now)
  BY <1>2, ReapSound, Zenon
<1> HIDE DEF u
<1>4. Sound(v, None, submitted) /\ \A e \in Ids : Reaped(u, v, e, now)
  BY ZenonT(90), <1>2, <1>3, ReapSound
<1> HIDE DEF v
<1>5. \A e \in Ids : Reaped(st, v, e, now)
  BY <1>3, <1>4, Zenon DEF Reaped
<1>6. \A e \in Ids : ~Live(st, e) => ~Live(v, e)
  BY <1>5, Zenon DEF Reaped
<1>7. /\ Sound(st', tx', submitted') /\ Sound(saved', tx', submitted')
      /\ \A e \in Ids : ~Live(st, e) => ~Live(st', e) /\ ~Live(saved', e)
  BY <1>1, <1>4, <1>6, Zenon
<1>8. IInv'
  BY <1>1, <1>2, <1>7, TxNames, ZenonT(60) DEF IInv
<1> QED
  BY <1>1, <1>5, <1>8, ZenonT(60)

\* Which transaction runs does not matter to the escrows when it is not a retry.
LEMMA RunningSound ==
  ASSUME NEW s, NEW used, NEW r, NEW r2, r \notin Ids, r2 \notin Ids, Sound(s, r, used)
  PROVE  Sound(s, r2, used)
<1>1. \A d \in Ids : SoundEscrow(s, d, r2)
  BY Zenon DEF Sound, SoundEscrow
<1> QED
  BY SMTT(90), <1>1 DEF Sound

\* The start of a user's transaction.
LEMMA StartUserTxInv == IInv /\ StartUserTx => IInv'
<1> SUFFICES ASSUME IInv, StartUserTx PROVE IInv'
  OBVIOUS
<1>1. /\ tx = None /\ tx' = User /\ saved' = st /\ st' = st /\ time' = time
      /\ submitted' = submitted /\ redeemed' = redeemed
  BY Zenon DEF StartUserTx
<1>2. Sound(st', tx', submitted') /\ Sound(saved', tx', submitted')
  BY SMTT(90), <1>1, TxNames, RunningSound DEF IInv
<1> QED
  BY SMTT(90), <1>1, <1>2, TxNames DEF IInv

\* A change of the escrow of a ticket alone.
LEMMA EscrowWith ==
  ASSUME NEW s \in StateType, NEW d \in Ids, NEW m
  PROVE  [s EXCEPT !.escrow[d] = m] = With(s, d, s.ticket[d], m, s.slot, s.get)
<1>1. /\ s = [ticket |-> s.ticket, escrow |-> s.escrow, slot |-> s.slot, get |-> s.get]
      /\ [s.ticket EXCEPT ![d] = s.ticket[d]] = s.ticket
  BY Parts, Zenon
<1> QED
  BY SMTT(90), <1>1 DEF With

\* The start of a scheduled retry.
LEMMA StartRetryInv == IInv /\ StartRetry => IInv'
<1> SUFFICES ASSUME IInv, StartRetry PROVE IInv'
  OBVIOUS
<1>1. /\ tx = None /\ saved' = st' /\ time' = time
      /\ submitted' = submitted /\ redeemed' = redeemed
  BY DEF StartRetry
<1>2. PICK d \in Ids :
        IF Opens(st, d, time) /\ st.escrow[d] >= st.ticket[d].value
        THEN tx' = d /\ st' = [st EXCEPT !.escrow[d] = @ - st.ticket[d].value]
        ELSE UNCHANGED <<st, tx>>
  BY Zenon DEF StartRetry
<1>3. Sound(st, None, submitted)
  BY <1>1, ZenonT(60) DEF IInv
<1>4. CASE tx' = d /\ Opens(st, d, time)
           /\ st' = [st EXCEPT !.escrow[d] = @ - st.ticket[d].value]
  <2>1. Live(st, d) /\ st \in StateType /\ SoundEscrow(st, d, None)
    BY <1>3, <1>4, Zenon DEF Opens, Live, Sound
  <2>2. st.escrow[d] - st.ticket[d].value = 0
    <3>1. st.ticket[d] \in TicketType
      BY ZenonT(90), <2>1, Parts
    <3>2. st.escrow[d] = st.ticket[d].value
      BY <2>1, TxNames, SMTT(60) DEF SoundEscrow
    <3> QED
      BY <3>1, <3>2, SMTT(60) DEF TicketType
  <2>3. st' = With(st, d, st.ticket[d], 0, st.slot, st.get)
    BY <1>4, <2>1, <2>2, EscrowWith, ZenonT(60)
  <2>4. Sound(st', d, submitted) /\ \A e \in Ids : Live(st', e) <=> Live(st, e)
    BY <1>3, <2>1, <2>3, TxNames, EscrowSound, SMTT(60)
  <2> QED
    BY <1>1, <1>4, <2>1, <2>4, SMTT(60) DEF IInv
<1>5. CASE UNCHANGED <<st, tx>>
  <2>1. st' = st /\ tx' = tx
    BY SMTT(90), <1>5
  <2> QED
    BY SMTT(90), <1>1, <1>3, <2>1, TxNames DEF IInv
<1> QED
  BY <1>2, <1>4, <1>5, ZenonT(60)

\* Putting an id at the end of the queue.
LEMMA PutOf ==
  ASSUME NEW a, NEW b, NEW c, NEW g, NEW d
  PROVE  Put([ticket |-> a, escrow |-> b, slot |-> c, get |-> g], d)
           = [ticket |-> a, escrow |-> b, slot |-> Append(c, d), get |-> g]
BY SMTT(90) DEF Put

\* The submission of a ticket.
LEMMA SubmitInv ==
  ASSUME IInv, NEW d \in Ids, NEW v \in 0 .. 1, NEW auto \in BOOLEAN,
         SubmitRetryable(d, v, auto)
  PROVE  IInv' /\ st'.ticket[d].tries = IF auto THEN 1 ELSE 0
<1> DEFINE w == time + Lifetime
           n == IF auto THEN 1 ELSE 0
           k0 == [timeout |-> w, windows |-> 0, tries |-> 0, value |-> v]
           k == [timeout |-> w, windows |-> 0, tries |-> n, value |-> v]
           q == Append(st.slot, d)
<1>1. /\ tx = None /\ tx' = tx /\ saved' = st' /\ time' = time /\ redeemed' = redeemed
      /\ d \notin submitted /\ submitted' = submitted \union {d}
  BY Zenon DEF SubmitRetryable
<1>2. Sound(st, None, submitted) /\ st \in StateType
  BY <1>1, ZenonT(60) DEF IInv, Sound
<1>3. ~Live(st, d) /\ st.escrow[d] + v = v
  BY SMTT(90), <1>1, <1>2 DEF Sound, SoundTicket, SoundEscrow
<1>4. CreateRetryable([st EXCEPT !.escrow[d] = @ + v], d, w, v)
        = [ticket |-> [st.ticket EXCEPT ![d] = k0], escrow |-> [st.escrow EXCEPT ![d] = v],
           slot |-> q, get |-> st.get]
  <2>1. st = [ticket |-> st.ticket, escrow |-> st.escrow, slot |-> st.slot, get |-> st.get]
    BY <1>2, Parts, ZenonT(60)
  <2>2. [st EXCEPT !.escrow[d] = @ + v]
          = [ticket |-> st.ticket, escrow |-> [st.escrow EXCEPT ![d] = v],
             slot |-> st.slot, get |-> st.get]
    BY <1>3, <2>1, SMTT(60)
  <2> DEFINE u == [st EXCEPT !.escrow[d] = @ + v]
             f == [st.escrow EXCEPT ![d] = v]
             h == [st.ticket EXCEPT ![d] = k0]
  <2>3. u.slot = st.slot /\ u = [ticket |-> st.ticket, escrow |-> f, slot |-> st.slot, get |-> st.get]
    BY <2>2
  <2>4. CreateRetryable(u, d, w, v) = Put([u EXCEPT !.ticket[d] = k0], d)
    BY SMTT(90) DEF CreateRetryable
  <2> HIDE DEF u, f, k0
  <2>5. [u EXCEPT !.ticket[d] = k0]
          = [ticket |-> h, escrow |-> f, slot |-> st.slot, get |-> st.get]
    BY <2>3
  <2> HIDE DEF h
  <2>6. Put([u EXCEPT !.ticket[d] = k0], d)
          = [ticket |-> h, escrow |-> f, slot |-> q, get |-> st.get]
    BY SMTT(90), <2>5, PutOf
  <2> QED
    BY <2>4, <2>6, Zenon DEF u, f, h
<1>5. st' = With(st, d, k, v, q, st.get)
  <2>1. st.ticket \in [Ids -> TicketType]
    BY <1>2, Parts, ZenonT(60)
  <2>2. CASE auto
    <3>1. st' = [CreateRetryable([st EXCEPT !.escrow[d] = @ + v], d, w, v)
                   EXCEPT !.ticket[d].tries = 1]
      BY SMTT(90), <2>2 DEF SubmitRetryable
    <3>2. [[st.ticket EXCEPT ![d] = k0] EXCEPT ![d].tries = 1] = [st.ticket EXCEPT ![d] = k]
      BY <2>1, <2>2
    <3> HIDE DEF k0, k, q, w
    <3> QED
      BY SMTT(90), <1>4, <3>1, <3>2 DEF With
  <2>3. CASE ~auto
    BY <1>4, <2>3, Zenon DEF SubmitRetryable, With
  <2> QED
    BY <2>2, <2>3
<1>6. w \in Nat \ {0} /\ n \in 0 .. 1
  BY LifetimePositive DEF IInv
<1>10. st'.ticket[d].tries = n
  <2>1. k.tries = n /\ st.ticket \in [Ids -> TicketType]
    BY <1>2, Parts, Zenon
  <2> HIDE DEF k, q
  <2>2. st'.ticket = [st.ticket EXCEPT ![d] = k]
    BY <1>5, Zenon DEF With
  <2>3. st'.ticket[d] = k
    BY <2>1, <2>2, Zenon
  <2> QED
    BY <2>1, <2>3, Zenon
<1>9. k \in TicketType /\ k.timeout # 0 /\ k.windows = 0 /\ k.value = v
  BY <1>6, Zenon DEF TicketType
<1> HIDE DEF w, n, k, k0
<1>7. /\ Sound(st', None, submitted \union {d})
      /\ \A e \in Ids \ {d} : Live(st', e) <=> Live(st, e)
  <2>1. d \notin submitted /\ Sound(st, None, submitted)
    BY <1>1, <1>2, SMTT(60)
  <2>2. PICK t : t = With(st, d, k, v, Append(st.slot, d), st.get) /\ t = st'
    BY <1>5, Zenon
  <2>3. Sound(t, None, submitted \union {d}) /\ \A e \in Ids \ {d} : Live(t, e) <=> Live(st, e)
    BY ZenonT(90), <1>9, <2>1, <2>2, CreateSound
  <2> QED
    BY <2>2, <2>3, Zenon
<1>8. redeemed[d] # 1
  BY <1>1, Zenon DEF IInv
<1> HIDE DEF q
<1>11. IInv'
  BY <1>1, <1>7, <1>8, TxNames, ZenonT(60) DEF IInv
<1> QED
  BY <1>10, <1>11, Zenon DEF n

\* The end of a transaction.
LEMMA EndTxInv ==
  ASSUME IInv, NEW success \in BOOLEAN, EndTx(success)
  PROVE  IInv'
<1>1. tx # None /\ tx' = None /\ saved' = st' /\ time' = time /\ submitted' = submitted
  BY Zenon DEF EndTx
<1>2. /\ Sound(st, tx, submitted) /\ Sound(saved, tx, submitted)
      /\ tx \in Ids \union {User} /\ redeemed \in [Ids -> Nat]
  BY <1>1, Zenon DEF IInv
<1>3. ASSUME Sound(st', None, submitted), redeemed' = redeemed,
             \/ \A e \in Ids : ~Live(st, e) => ~Live(st', e)
             \/ \A e \in Ids : ~Live(saved, e) => ~Live(st', e)
      PROVE  IInv'
  BY <1>1, <1>3, TxNames, SMTT(60) DEF IInv
<1>4. CASE tx = User
  <2>1. Sound(st, None, submitted) /\ Sound(saved, None, submitted)
    BY <1>2, <1>4, TxNames, RunningSound, ZenonT(60)
  <2>2. CASE success
    <3>1. st' = st /\ redeemed' = redeemed
      BY <1>4, <2>2, Zenon DEF EndTx
    <3> QED
      BY SMTT(90), <1>3, <2>1, <3>1
  <2>3. CASE ~success
    <3>1. st' = saved /\ redeemed' = redeemed
      BY <1>4, <2>3, ZenonT(60) DEF EndTx
    <3> QED
      BY SMTT(90), <1>3, <2>1, <3>1
  <2> QED
    BY <2>2, <2>3, Zenon
<1>5. CASE tx \in Ids /\ success
  <2>1. /\ tx # User /\ st' = DeleteRetryable(st, tx)
        /\ redeemed' = [redeemed EXCEPT ![tx] = @ + 1]
    BY <1>5, TxNames, ZenonT(60) DEF EndTx
  <2>2. Live(st, tx) /\ redeemed[tx] = 0 /\ tx \in submitted
    BY SMTT(90), <1>2, <1>5 DEF IInv, Sound, SoundTicket
  <2>3. /\ Sound(st', None, submitted) /\ ~Live(st', tx)
        /\ \A e \in Ids \ {tx} : Live(st', e) <=> Live(st, e)
    BY <1>2, <1>5, <2>1, <2>2, TxNames, DeleteSound, ZenonT(60)
  <2>4. redeemed' \in [Ids -> Nat] /\ redeemed'[tx] = 1
        /\ \A e \in Ids \ {tx} : redeemed'[e] = redeemed[e]
    BY SMTT(90), <1>2, <1>5, <2>1, <2>2
  <2>5. \A e \in Ids : /\ redeemed'[e] <= 1
                       /\ redeemed'[e] = 1 => e \in submitted /\ ~Live(st', e)
    BY SMTT(90), <2>2, <2>3, <2>4 DEF IInv
  <2> QED
    BY SMTT(90), <1>1, <2>3, <2>4, <2>5, TxNames DEF IInv
<1>6. CASE tx \in Ids /\ ~success
  <2>1. /\ st' = [saved EXCEPT !.escrow[tx] = @ + saved.ticket[tx].value]
        /\ redeemed' = redeemed
    BY <1>6, TxNames, Zenon DEF EndTx
  <2>2. Live(saved, tx) /\ saved \in StateType /\ SoundEscrow(saved, tx, tx)
    BY <1>2, <1>6, ZenonT(60) DEF IInv, Sound
  <2>3. saved.escrow[tx] + saved.ticket[tx].value = saved.ticket[tx].value
    <3>1. saved.ticket[tx] \in TicketType /\ saved.escrow[tx] = 0
      BY ZenonT(90), <1>6, <2>2, Parts DEF SoundEscrow
    <3> QED
      BY SMTT(90), <3>1 DEF TicketType
  <2>4. st' = With(saved, tx, saved.ticket[tx], saved.ticket[tx].value, saved.slot, saved.get)
    BY <1>6, <2>1, <2>2, <2>3, EscrowWith, ZenonT(60)
  <2>5. Sound(st', None, submitted) /\ \A e \in Ids : Live(st', e) <=> Live(saved, e)
    BY SMTT(90), <1>2, <1>6, <2>2, <2>4, TxNames, EscrowSound
  <2> QED
    BY <1>3, <2>1, <2>5, Zenon
<1> QED
  BY <1>2, <1>4, <1>5, <1>6, SMTT(60)

\* The invariant is inductive.
LEMMA NextInv == IInv /\ [Next]_vars => IInv'
<1> SUFFICES ASSUME IInv, [Next]_vars PROVE IInv'
  BY SMTT(90)
<1>1. CASE \E now \in 1 .. MaxTime : StartBlock(now)
  BY <1>1, BlockInv, Zenon
<1>2. CASE \E d \in Ids, value \in 0 .. 1, auto \in BOOLEAN : SubmitRetryable(d, value, auto)
  BY SMTT(90), <1>2, SubmitInv
<1>3. CASE StartUserTx
  BY SMTT(90), <1>3, StartUserTxInv
<1>4. CASE StartRetry
  BY SMTT(90), <1>4, StartRetryInv
<1>5. CASE \E d \in Ids : Redeem(d) \/ Keepalive(d) \/ Cancel(d)
  BY SMTT(90), <1>5, PrecompileInv
<1>6. CASE \E success \in BOOLEAN : EndTx(success)
  BY <1>6, EndTxInv, Zenon
<1>7. CASE UNCHANGED vars
  <2>1. /\ st' = st /\ saved' = saved /\ time' = time /\ tx' = tx
        /\ submitted' = submitted /\ redeemed' = redeemed
    BY SMTT(90), <1>7 DEF vars
  <2> QED
    BY <2>1, Zenon DEF IInv
<1> QED
  BY SMTT(90), <1>1, <1>2, <1>3, <1>4, <1>5, <1>6, <1>7 DEF Next

(***************************************************************************)
(* The numbers of the retries.  An event of the running transaction has a  *)
(* number that its ticket had not given before the transaction, a          *)
(* scheduled retry one that it had; so the events of a transaction that    *)
(* succeeds schedule retries that differ from those that wait.             *)
(***************************************************************************)
RetryType == logs \in Seq(Ids \X Nat) /\ redeems \in Seq(Ids \X Nat) /\ (tx = None => st = saved /\ logs = <<>>)

\* A ticket t, as it is, and u, as it was before the transaction.
OlderTicket(t, u) == t.timeout # 0 => u.timeout # 0 /\ u.tries <= t.tries

\* A retry r that waits, and one that an event announces.
Given(r, U) == U[r[1]].timeout # 0 => r[2] < U[r[1]].tries
Announced(r, T, U) ==
  U[r[1]].timeout # 0 /\ U[r[1]].tries <= r[2] /\ (T[r[1]].timeout # 0 => r[2] < T[r[1]].tries)

AllDiffer(s) == \A i, j \in 1 .. Len(s) : i # j => s[i] # s[j]

\* The list q is drawn from the list l; the lists a and b share nothing; z is a and then b.
DrawnFrom(q, l) ==
  /\ q \in Seq(Ids \X Nat) /\ AllDiffer(q)
  /\ \A n \in 1 .. Len(q) : \E i \in 1 .. Len(l) : q[n] = l[i]
Apart(a, b) == \A i \in 1 .. Len(a), j \in 1 .. Len(b) : a[i] # b[j]
Joined(z, a, b) ==
  /\ AllDiffer(z)
  /\ \A n \in 1 .. Len(z) : (\E i \in 1 .. Len(a) : z[n] = a[i]) \/ \E j \in 1 .. Len(b) : z[n] = b[j]

\* The changes that the calls make to a ticket's tries and to its escrow.
OneTryMore(s, d) == [s EXCEPT !.ticket[d].tries = @ + 1]
Escrowed(s, d, m) == [s EXCEPT !.escrow[d] = m]

\* What they leave of the tickets: t is s with another try, with another window, without d.
TriedAgain(t, s, d) ==
  /\ t.ticket[d].timeout = s.ticket[d].timeout /\ t.ticket[d].tries = s.ticket[d].tries + 1
  /\ \A e \in Ids \ {d} : t.ticket[e] = s.ticket[e]
TriesKept(t, s) ==
  \A e \in Ids : t.ticket[e].timeout = s.ticket[e].timeout /\ t.ticket[e].tries = s.ticket[e].tries
TicketGone(t, s, d) == t.ticket[d].timeout = 0 /\ \A e \in Ids \ {d} : t.ticket[e] = s.ticket[e]

RInv ==
  /\ RetryType
  /\ \A d \in Ids : OlderTicket(st.ticket[d], saved.ticket[d])
  /\ \A i \in 1 .. Len(redeems) : Given(redeems[i], saved.ticket)
  /\ \A i \in 1 .. Len(logs) : Announced(logs[i], st.ticket, saved.ticket)
  /\ AllDiffer(logs) /\ AllDiffer(redeems)

\* Every set of natural numbers has a least one.
LEMMA LeastNumber ==
  ASSUME NEW N \in SUBSET Nat, N # {}
  PROVE  \E x \in N : \A y \in N : ~(y < x)
<1>1. PICK x \in N : \A y \in N : ~(<<y, x>> \in OpToRel(<, Nat))
  BY NatLessThanWellFounded, WFMin, Zenon
<1> QED
  BY <1>1, Zenon DEF OpToRel

\* The n-th of a set of places.
LEMMA NthOf ==
  ASSUME NEW L \in Nat, NEW K \in SUBSET (1 .. L), NEW n \in 1 .. Cardinality(K)
  PROVE  Nth(K, n) \in K /\ Cardinality({j \in K : j <= Nth(K, n)}) = n
<1> DEFINE Upto(x) == {j \in K : j <= x}
<1>1. IsFiniteSet(K) /\ \A x : IsFiniteSet(Upto(x)) /\ Cardinality(Upto(x)) \in Nat
  <2>1. IsFiniteSet(1 .. L)
    BY FS_Interval
  <2>2. IsFiniteSet(K)
    BY <2>1, FS_Subset, Zenon
  <2>3. \A x : Upto(x) \subseteq K
    BY Zenon
  <2>4. \A x : IsFiniteSet(Upto(x))
    BY <2>2, <2>3, FS_Subset, ZenonT(60)
  <2> QED
    BY <2>2, <2>4, FS_CardinalityType, ZenonT(60)
<1>2. Cardinality(K) \in Nat /\ n \in Nat /\ n >= 1 /\ n <= Cardinality(K)
  <2>1. Cardinality(K) \in Nat
    BY <1>1, FS_CardinalityType, Zenon
  <2> QED
    BY <2>1
<1> DEFINE N == {x \in Nat : n <= Cardinality(Upto(x))}
<1>3. L \in N
  <2>1. \A j \in 1 .. L : j <= L
    OBVIOUS
  <2>2. Upto(L) = K
    BY <2>1, Zenon
  <2> QED
    BY <1>2, <2>2, Zenon
<1>4. PICK x \in N : \A y \in N : ~(y < x)
  <2>1. N \in SUBSET Nat /\ N # {}
    BY <1>3, Zenon
  <2> HIDE DEF N
  <2> QED
    BY <2>1, LeastNumber, Zenon
<1>5. x \in Nat /\ n <= Cardinality(Upto(x))
  BY <1>4, Zenon
<1>6. x # 0
  <2>1. ASSUME x = 0 PROVE Upto(x) = {}
    <3>1. \A j \in 1 .. L : ~(j <= 0)
      OBVIOUS
    <3> QED
      BY <2>1, <3>1, Zenon
  <2>2. Cardinality({}) = 0
    BY FS_EmptySet, Zenon
  <2>3. ASSUME x = 0 PROVE FALSE
    <3>1. n <= 0
      BY <1>5, <2>1, <2>2, <2>3, ZenonT(60)
    <3> QED
      BY <1>2, <3>1, SMTT(60)
  <2> QED
    BY <2>3, Zenon
<1> DEFINE w == x - 1
<1>7. w \in Nat /\ w < x
  BY <1>5, <1>6, SMTT(60)
<1>8. Cardinality(Upto(w)) < n
  <2>1. ~(n <= Cardinality(Upto(w)))
    BY <1>4, <1>7, Zenon
  <2>2. Cardinality(Upto(w)) \in Nat
    BY <1>1, Zenon
  <2> DEFINE c == Cardinality(Upto(w))
  <2> HIDE DEF c, w
  <2> QED
    BY <1>2, <2>1, <2>2, SMTT(60) DEF c
<1>9. x \in K /\ Upto(x) = Upto(w) \union {x} /\ x \notin Upto(w)
  <2>1. \A j \in 1 .. L : (j <= x <=> j <= w \/ j = x) /\ ~(x <= w)
    BY <1>5, <1>7, SMTT(60)
  <2>2. x \in K
    <3> SUFFICES ASSUME x \notin K PROVE FALSE
      BY Zenon
    <3>1. Upto(x) = Upto(w)
      BY <2>1, Zenon
    <3>2. n <= Cardinality(Upto(w)) /\ Cardinality(Upto(w)) < n /\ Cardinality(Upto(w)) \in Nat
      BY <1>1, <1>5, <1>8, <3>1, ZenonT(60)
    <3> DEFINE c == Cardinality(Upto(w))
    <3> HIDE DEF c, w
    <3> QED
      BY <1>2, <3>2, SMTT(60) DEF c
  <2> QED
    BY <2>1, <2>2, ZenonT(60)
<1>10. Cardinality(Upto(x)) = n
  <2> DEFINE a == Cardinality(Upto(x))  b == Cardinality(Upto(w))
  <2>1. Cardinality(Upto(w) \union {x}) = b + 1 /\ IsFiniteSet(Upto(w))
    <3> HIDE DEF Upto, w
    <3> QED
      BY <1>1, <1>9, FS_AddElement, ZenonT(60)
  <2>3. a = b + 1 /\ b < n /\ n <= a /\ a \in Nat /\ b \in Nat
    BY <1>1, <1>5, <1>8, <1>9, <2>1, ZenonT(60)
  <2> HIDE DEF a, b
  <2>2. a = n
    BY <1>2, <2>3, SMTT(60)
  <2> QED
    BY <2>2, Zenon DEF a
<1> QED
  BY <1>9, <1>10, Zenon DEF Nth

\* The retries that are scheduled come from the events, each from one of its own.
LEMMA ScheduledOf ==
  ASSUME logs \in Seq(Ids \X Nat), AllDiffer(logs), NEW s
  PROVE  DrawnFrom(ScheduledTxes(s), logs)
<1> DEFINE q == ScheduledTxes(s)  K == StillThere(s)  c == Cardinality(K)
<1>1. DOMAIN logs = 1 .. Len(logs) /\ Len(logs) \in Nat /\ \A i \in 1 .. Len(logs) : logs[i] \in Ids \X Nat
  OBVIOUS
<1>2. K \in SUBSET (1 .. Len(logs))
  BY <1>1, Zenon DEF StillThere
<1>3. c \in Nat
  <2>1. IsFiniteSet(1 .. Len(logs))
    BY <1>1, FS_Interval, SMTT(60)
  <2>2. IsFiniteSet(K)
    BY <1>2, <2>1, FS_Subset, Zenon
  <2> QED
    BY <2>2, FS_CardinalityType, Zenon
<1>4. \A n \in 1 .. c : Nth(K, n) \in K /\ Cardinality({j \in K : j <= Nth(K, n)}) = n
  BY <1>1, <1>2, NthOf, Zenon
<1>5. q = [n \in 1 .. c |-> logs[Nth(K, n)]]
  BY Zenon DEF ScheduledTxes
<1> HIDE DEF q, K, c
<1>6. q \in [1 .. c -> Ids \X Nat] /\ \A n \in 1 .. c : q[n] = logs[Nth(K, n)] /\ Nth(K, n) \in 1 .. Len(logs)
  BY <1>1, <1>2, <1>4, <1>5, ZenonT(60)
<1>7. q \in Seq(Ids \X Nat) /\ Len(q) = c
  BY <1>3, <1>6, SMTT(60)
<1>8. AllDiffer(q)
  <2> SUFFICES ASSUME NEW i \in 1 .. c, NEW j \in 1 .. c, i # j PROVE q[i] # q[j]
    BY <1>7, Zenon DEF AllDiffer
  <2>1. Nth(K, i) # Nth(K, j)
    BY <1>4, Zenon
  <2> QED
    BY <1>6, <2>1, ZenonT(60) DEF AllDiffer
<1>9. DrawnFrom(q, logs)
  BY <1>6, <1>7, <1>8, Zenon DEF DrawnFrom
<1> QED
  BY <1>9, Zenon DEF q

\* Two lists one after the other.
LEMMA JoinDiffers ==
  ASSUME NEW T, NEW a \in Seq(T), NEW b \in Seq(T), AllDiffer(a), AllDiffer(b), Apart(a, b)
  PROVE  Joined(a \o b, a, b)
<1> DEFINE z == a \o b  p == Len(a)
<1>1. z \in Seq(T) /\ Len(z) = p + Len(b) /\ p \in Nat /\ Len(b) \in Nat
  BY SMTT(60)
<1>2. \A n \in 1 .. p : z[n] = a[n]
  OBVIOUS
<1>3. \A n \in 1 .. Len(b) : z[p + n] = b[n]
  BY SMTT(60)
<1> HIDE DEF z, p
<1>4. \A n \in 1 .. Len(z) : n \in 1 .. p \/ (n - p \in 1 .. Len(b) /\ p + (n - p) = n)
  BY <1>1
<1>5. \A n \in 1 .. Len(z) : (n \in 1 .. p /\ z[n] = a[n]) \/ (n - p \in 1 .. Len(b) /\ z[n] = b[n - p])
  BY <1>2, <1>3, <1>4, Zenon
<1>6. AllDiffer(z)
  <2> SUFFICES ASSUME NEW n \in 1 .. Len(z), NEW m \in 1 .. Len(z), n # m PROVE z[n] # z[m]
    BY Zenon DEF AllDiffer
  <2>1. n - p # m - p
    BY <1>1
  <2> QED
    BY <1>5, <2>1, ZenonT(60) DEF AllDiffer, Apart, p
<1>7. Joined(z, a, b)
  BY <1>5, <1>6, Zenon DEF Joined, p
<1> QED
  BY <1>7, Zenon DEF z

\* What the calls do to the tickets.
LEMMA TriesOf ==
  ASSUME NEW s \in StateType, NEW d \in Ids
  PROVE  TriedAgain(OneTryMore(s, d), s, d)
<1> DEFINE t == OneTryMore(s, d)  k == [s.ticket[d] EXCEPT !.tries = @ + 1]
<1>1. /\ s.ticket \in [Ids -> TicketType] /\ s.ticket[d] \in TicketType
      /\ s = [ticket |-> s.ticket, escrow |-> s.escrow, slot |-> s.slot, get |-> s.get]
  BY Parts, Zenon
<1>2. k.timeout = s.ticket[d].timeout /\ k.tries = s.ticket[d].tries + 1
  BY <1>1, Zenon DEF TicketType
<1>3. t.ticket = [s.ticket EXCEPT ![d] = k]
  BY <1>1, Zenon DEF OneTryMore
<1> HIDE DEF k, t
<1>4. t.ticket[d] = k /\ \A e \in Ids \ {d} : t.ticket[e] = s.ticket[e]
  BY <1>1, <1>3, Zenon
<1>5. TriedAgain(t, s, d)
  BY <1>2, <1>4, Zenon DEF TriedAgain
<1> QED
  BY <1>5, Zenon DEF t

\* Keepalive (Extend) changes no expiry and no try.
LEMMA WindowsOf ==
  ASSUME NEW s \in StateType, NEW d \in Ids
  PROVE  TriesKept(Extend(s, d), s)
<1> DEFINE t == Extend(s, d)  k == [s.ticket[d] EXCEPT !.windows = @ + 1]
<1>1. /\ s.ticket \in [Ids -> TicketType] /\ s.ticket[d] \in TicketType
      /\ s = [ticket |-> s.ticket, escrow |-> s.escrow, slot |-> s.slot, get |-> s.get]
  BY Parts, Zenon
<1>2. k.timeout = s.ticket[d].timeout /\ k.tries = s.ticket[d].tries
  BY <1>1, Zenon DEF TicketType
<1>3. t.ticket = [s.ticket EXCEPT ![d] = k]
  BY <1>1, Zenon DEF Extend, Put
<1> HIDE DEF k, t
<1>4. t.ticket[d] = k /\ \A e \in Ids \ {d} : t.ticket[e] = s.ticket[e]
  BY <1>1, <1>3, Zenon
<1>5. TriesKept(t, s)
  BY <1>2, <1>4, Zenon DEF TriesKept
<1> QED
  BY <1>5, Zenon DEF t

\* DeleteRetryable removes one ticket.
LEMMA DeletedOf ==
  ASSUME NEW s \in StateType, NEW d \in Ids
  PROVE  TicketGone(DeleteRetryable(s, d), s, d)
<1> DEFINE t == DeleteRetryable(s, d)
<1>1. /\ s.ticket \in [Ids -> TicketType]
      /\ s = [ticket |-> s.ticket, escrow |-> s.escrow, slot |-> s.slot, get |-> s.get]
  BY Parts, Zenon
<1>2. CASE s.ticket[d].timeout = 0
  BY <1>2, Zenon DEF DeleteRetryable, TicketGone
<1>3. CASE s.ticket[d].timeout # 0
  <2>1. t.ticket = [s.ticket EXCEPT ![d] = NoTicket]
    BY <1>1, <1>3, Zenon DEF DeleteRetryable
  <2>2. t.ticket[d] = NoTicket /\ \A e \in Ids \ {d} : t.ticket[e] = s.ticket[e]
    BY <1>1, <2>1, Zenon
  <2>3. NoTicket.timeout = 0
    BY Zenon DEF NoTicket
  <2> HIDE DEF t
  <2>4. TicketGone(t, s, d)
    BY <2>2, <2>3, Zenon DEF TicketGone
  <2> QED
    BY <2>4, Zenon DEF t
<1> QED
  BY <1>2, <1>3, Zenon

\* Moving money in or out of an escrow changes no ticket.
LEMMA EscrowOf ==
  ASSUME NEW s \in StateType, NEW d \in Ids, NEW m
  PROVE  Escrowed(s, d, m).ticket = s.ticket
<1>1. s = [ticket |-> s.ticket, escrow |-> s.escrow, slot |-> s.slot, get |-> s.get]
  BY Parts, Zenon
<1> QED
  BY <1>1, Zenon DEF Escrowed

\* What IInv says of the two tries.
LEMMA TriesAreSound == IInv => st \in StateType /\ saved \in StateType
BY Zenon DEF IInv, Sound

\* Between transactions.
LEMMA RFresh ==
  ASSUME st' \in StateType, logs' = <<>>, saved' = st', redeems' \in Seq(Ids \X Nat), AllDiffer(redeems'),
         \A i \in 1 .. Len(redeems') : Given(redeems'[i], st'.ticket)
  PROVE  RInv'
<1>1. \A d \in Ids : OlderTicket(st'.ticket[d], saved'.ticket[d])
  <2>1. \A d \in Ids : st'.ticket[d] \in TicketType
    BY Parts, Zenon
  <2>2. \A k \in TicketType : k.tries <= k.tries
    BY DEF TicketType
  <2> QED
    BY <2>1, <2>2, ZenonT(60) DEF OlderTicket
<1>2. <<>> \in Seq(Ids \X Nat) /\ 1 .. Len(<<>>) = {}
  OBVIOUS
<1>3. RetryType'
  BY <1>2, Zenon DEF RetryType
<1>4. AllDiffer(logs') /\ \A i \in 1 .. Len(logs') : Announced(logs'[i], st'.ticket, saved'.ticket)
  BY <1>2, Zenon DEF AllDiffer
<1> QED
  BY <1>1, <1>3, <1>4, ZenonT(60) DEF RInv

\* Within one, when no number is given.
LEMMA RStill ==
  ASSUME RInv, tx # None, tx' = tx, redeems' = redeems, logs' = logs, saved' = saved,
         \A d \in Ids : st'.ticket[d].timeout # 0 =>
           st.ticket[d].timeout # 0 /\ st'.ticket[d].tries = st.ticket[d].tries
  PROVE  RInv'
<1>1. \A d \in Ids : OlderTicket(st'.ticket[d], saved'.ticket[d])
  BY Zenon DEF RInv, OlderTicket
<1>2. RetryType'
  BY ZenonT(60) DEF RInv, RetryType
<1>3. \A i \in 1 .. Len(logs) : logs[i][1] \in Ids
  BY SMTT(60) DEF RInv, RetryType
<1>4. \A i \in 1 .. Len(logs) : Announced(logs[i], st'.ticket, saved.ticket)
  BY <1>3, Zenon DEF RInv, Announced
<1>5. /\ \A i \in 1 .. Len(redeems') : Given(redeems'[i], saved'.ticket)
      /\ AllDiffer(logs') /\ AllDiffer(redeems')
  BY Zenon DEF RInv
<1>6. \A i \in 1 .. Len(logs') : Announced(logs'[i], st'.ticket, saved'.ticket)
  BY <1>4, Zenon
<1> QED
  BY <1>1, <1>2, <1>5, <1>6, ZenonT(60) DEF RInv

\* Redeem announces a retry with a number of its own.
LEMMA RRedeem ==
  ASSUME IInv, RInv, NEW d \in Ids, Redeem(d)
  PROVE  RInv'
<1> DEFINE n == st.ticket[d].tries  e == <<d, n>>
<1>1. /\ tx # None /\ tx' = tx /\ redeems' = redeems /\ saved' = saved /\ logs' = Append(logs, e)
      /\ st' = [st EXCEPT !.ticket[d].tries = @ + 1] /\ st.ticket[d].timeout # 0
  <2> DEFINE s == [st EXCEPT !.ticket[d].tries = @ + 1]
  <2>1. Call(s) /\ Opens(st, d, time) /\ logs' = Append(logs, e)
    BY Zenon DEF Redeem
  <2> HIDE DEF s, e
  <2>2. tx # None /\ tx' = tx /\ redeems' = redeems /\ saved' = saved /\ st' = s
    BY <2>1, Zenon DEF Call
  <2> QED
    BY <2>1, <2>2, Zenon DEF Opens, s
<1>2. st \in StateType /\ saved \in StateType /\ st.ticket[d] \in TicketType /\ saved.ticket[d] \in TicketType
  BY TriesAreSound, Parts, Zenon
<1>3. n \in Nat /\ saved.ticket[d].tries \in Nat /\ logs \in Seq(Ids \X Nat)
  BY <1>2, Zenon DEF TicketType, RInv, RetryType
<1>4. /\ st'.ticket[d].timeout = st.ticket[d].timeout /\ st'.ticket[d].tries = n + 1
      /\ \A c \in Ids \ {d} : st'.ticket[c] = st.ticket[c]
  <2> DEFINE s == OneTryMore(st, d)
  <2>1. TriedAgain(s, st, d)
    BY <1>2, TriesOf, Zenon
  <2>2. st' = s
    BY <1>1, Zenon DEF OneTryMore
  <2> HIDE DEF s
  <2> QED
    BY <2>1, <2>2, Zenon DEF TriedAgain
<1>5. saved.ticket[d].timeout # 0 /\ saved.ticket[d].tries <= n
  BY <1>1, ZenonT(60) DEF RInv, OlderTicket
<1>6. n < n + 1 /\ saved.ticket[d].tries <= n + 1 /\ \A m \in Nat : m < n => m < n + 1 /\ m # n
  BY <1>3, <1>5, SMTT(60)
<1>7. e \in Ids \X Nat /\ e[1] = d /\ e[2] = n
  BY <1>3
<1>8. e \in Ids \X Nat
  BY <1>7, Zenon
<1> HIDE DEF e
<1> DEFINE z == Append(logs, e)  p == Len(logs)
<1>9. z \in Seq(Ids \X Nat) /\ p \in Nat /\ Len(z) = p + 1 /\ z[p + 1] = e /\ \A i \in 1 .. p : z[i] = logs[i]
  BY <1>3, <1>8, SMTT(60)
<1>10. \A i \in 1 .. p + 1 : i \in 1 .. p \/ i = p + 1
  <2>1. p \in Nat
    BY <1>9, ZenonT(60)
  <2> HIDE DEF p
  <2> QED
    BY <2>1
<1>11. \A i \in 1 .. p : logs[i][1] \in Ids /\ logs[i][2] \in Nat
  BY <1>3, SMTT(60)
<1> HIDE DEF z, p, n
<1>12. \A i \in 1 .. p : Announced(logs[i], st.ticket, saved.ticket) /\ Announced(logs[i], st'.ticket, saved.ticket)
  <2> SUFFICES ASSUME NEW i \in 1 .. p PROVE /\ Announced(logs[i], st.ticket, saved.ticket)
                                             /\ Announced(logs[i], st'.ticket, saved.ticket)
    BY Zenon
  <2>1. Announced(logs[i], st.ticket, saved.ticket)
    BY Zenon DEF RInv, p
  <2>2. CASE logs[i][1] = d
    <3>1. logs[i][2] < n
      BY <1>1, <2>1, <2>2, Zenon DEF Announced, n
    <3>2. logs[i][2] < n + 1
      BY <1>6, <1>11, <3>1, ZenonT(60)
    <3> QED
      BY <1>4, <2>1, <2>2, <3>2, ZenonT(60) DEF Announced
  <2>3. CASE logs[i][1] # d
    <3>1. st'.ticket[logs[i][1]] = st.ticket[logs[i][1]]
      BY <1>4, <1>11, <2>3, ZenonT(60)
    <3> QED
      BY <2>1, <3>1, Zenon DEF Announced
  <2> QED
    BY <2>2, <2>3, Zenon
<1>13. \A i \in 1 .. p : logs[i] # e
  <2> SUFFICES ASSUME NEW i \in 1 .. p, logs[i] = e PROVE FALSE
    BY Zenon
  <2>1. logs[i][1] = d /\ logs[i][2] = n
    BY <1>7, Zenon
  <2>2. n < n
    BY <1>1, <1>12, <2>1, ZenonT(60) DEF Announced, n
  <2> QED
    BY <1>6, <1>11, <2>1, <2>2, ZenonT(60)
<1>14. Announced(e, st'.ticket, saved.ticket)
  BY <1>4, <1>5, <1>6, <1>7, ZenonT(60) DEF Announced
<1>15. AllDiffer(z) /\ \A i \in 1 .. Len(z) : Announced(z[i], st'.ticket, saved.ticket)
  <2>1. \A i \in 1 .. Len(z) : (i \in 1 .. p /\ z[i] = logs[i]) \/ (i = p + 1 /\ z[i] = e)
    BY <1>9, <1>10, Zenon
  <2>2. \A i, j \in 1 .. p : i # j => logs[i] # logs[j]
    BY Zenon DEF RInv, AllDiffer, p
  <2>3. AllDiffer(z)
    BY <1>13, <2>1, <2>2, ZenonT(60) DEF AllDiffer
  <2> QED
    BY <1>12, <1>14, <2>1, <2>3, ZenonT(60)
<1>16. logs' = z
  BY <1>1, Zenon DEF z
<1>17. RetryType' /\ (\A i \in 1 .. Len(redeems') : Given(redeems'[i], saved'.ticket)) /\ AllDiffer(redeems')
  BY <1>1, <1>9, <1>16, ZenonT(60) DEF RInv, RetryType
<1>18. \A c \in Ids : OlderTicket(st'.ticket[c], saved'.ticket[c])
  <2>1. OlderTicket(st'.ticket[d], saved.ticket[d])
    BY <1>4, <1>5, <1>6, ZenonT(60) DEF OlderTicket
  <2>2. \A c \in Ids \ {d} : OlderTicket(st'.ticket[c], saved.ticket[c])
    BY <1>4, Zenon DEF RInv
  <2> QED
    BY <1>1, <2>1, <2>2, ZenonT(60)
<1> QED
  BY <1>1, <1>15, <1>16, <1>17, <1>18, ZenonT(60) DEF RInv

\* Keepalive and Cancel announce nothing.
LEMMA RCall ==
  ASSUME IInv, RInv, NEW d \in Ids, Keepalive(d) \/ Cancel(d)
  PROVE  RInv'
<1>1. st \in StateType
  BY TriesAreSound, Zenon
<1>2. CASE Keepalive(d)
  <2> DEFINE s == Extend(st, d)
  <2>1. Call(s) /\ logs' = logs
    BY <1>2, Zenon DEF Keepalive
  <2>2. TriesKept(s, st)
    BY <1>1, WindowsOf, Zenon
  <2> HIDE DEF s
  <2>3. tx # None /\ tx' = tx /\ redeems' = redeems /\ saved' = saved /\ st' = s
    BY <2>1, Zenon DEF Call
  <2> QED
    BY <2>1, <2>2, <2>3, RStill, ZenonT(60) DEF TriesKept
<1>3. CASE Cancel(d)
  <2> DEFINE s == DeleteRetryable(st, d)
  <2>1. Call(s) /\ logs' = logs
    BY <1>3, Zenon DEF Cancel
  <2>2. TicketGone(s, st, d)
    BY <1>1, DeletedOf, Zenon
  <2> HIDE DEF s
  <2>3. tx # None /\ tx' = tx /\ redeems' = redeems /\ saved' = saved /\ st' = s
    BY <2>1, Zenon DEF Call
  <2> QED
    BY <2>1, <2>2, <2>3, RStill, ZenonT(60) DEF TicketGone
<1> QED
  BY <1>2, <1>3, Zenon

\* A block starts, a ticket is submitted or a transaction of a user starts: no retry waits.
LEMMA RStart ==
  ASSUME IInv, IInv', RInv, redeems' = <<>>, logs' = logs, tx = None, saved' = st'
  PROVE  RInv'
<1>1. logs' = <<>> /\ st' \in StateType
  <2>1. logs' = <<>>
    BY Zenon DEF RInv, RetryType
  <2> QED
    BY <2>1, Zenon DEF IInv, Sound
<1>2. <<>> \in Seq(Ids \X Nat) /\ 1 .. Len(<<>>) = {}
  OBVIOUS
<1>3. AllDiffer(redeems') /\ \A i \in 1 .. Len(redeems') : Given(redeems'[i], st'.ticket)
  BY <1>2, Zenon DEF AllDiffer
<1> QED
  BY <1>1, <1>2, <1>3, RFresh, ZenonT(60)

\* A submission schedules the first retry.
LEMMA RSubmit ==
  ASSUME IInv, IInv', RInv, NEW d \in Ids, NEW v, NEW auto \in BOOLEAN, SubmitRetryable(d, v, auto),
         st'.ticket[d].tries = IF auto THEN 1 ELSE 0
  PROVE  RInv'
<1>1. tx = None /\ saved' = st' /\ logs' = logs
  BY Zenon DEF SubmitRetryable
<1>2. CASE ~auto
  <2>1. redeems' = <<>>
    BY <1>2, Zenon DEF SubmitRetryable
  <2> QED
    BY <1>1, <2>1, RStart, Zenon
<1>3. CASE auto
  <2>1. redeems' = <<<<d, 0>>>> /\ st'.ticket[d].tries = 1
    BY <1>3, Zenon DEF SubmitRetryable
  <2>2. logs' = <<>> /\ st' \in StateType
    <3>1. logs' = <<>>
      BY <1>1, Zenon DEF RInv, RetryType
    <3> QED
      BY <3>1, Zenon DEF IInv, Sound
  <2> DEFINE e == <<d, 0>>
  <2>3. e \in Ids \X Nat /\ e[1] = d /\ e[2] = 0 /\ 0 < 1
    OBVIOUS
  <2>4. Given(e, st'.ticket)
    BY <2>1, <2>3, Zenon DEF Given
  <2> HIDE DEF e
  <2>5. <<e>> \in Seq(Ids \X Nat) /\ Len(<<e>>) = 1 /\ 1 .. 1 = {1} /\ <<e>>[1] = e
    BY <2>3
  <2>6. AllDiffer(<<e>>) /\ \A i \in 1 .. Len(<<e>>) : Given(<<e>>[i], st'.ticket)
    BY <2>4, <2>5, Zenon DEF AllDiffer
  <2>7. redeems' = <<e>>
    BY <2>1, Zenon DEF e
  <2> QED
    BY <1>1, <2>2, <2>5, <2>6, <2>7, RFresh, ZenonT(60)
<1> QED
  BY <1>2, <1>3, Zenon

\* The first of the waiting retries starts.
LEMMA RStartRetry ==
  ASSUME IInv, IInv', RInv, StartRetry
  PROVE  RInv'
<1>1. tx = None /\ redeems # <<>> /\ redeems' = Tail(redeems) /\ saved' = st' /\ logs' = logs
  BY Zenon DEF StartRetry
<1>2. st = saved /\ logs = <<>> /\ redeems \in Seq(Ids \X Nat) /\ st \in StateType /\ st' \in StateType
  BY <1>1, TriesAreSound, Zenon DEF RInv, RetryType, IInv, Sound
<1>3. st'.ticket = st.ticket
  <2>1. PICK d \in Ids : st' = st \/ st' = [st EXCEPT !.escrow[d] = @ - st.ticket[d].value]
    BY Zenon DEF StartRetry
  <2> DEFINE s == Escrowed(st, d, st.escrow[d] - st.ticket[d].value)
  <2>2. s.ticket = st.ticket
    BY <1>2, EscrowOf, ZenonT(60)
  <2>3. st' = st \/ st' = s
    BY <2>1, Zenon DEF Escrowed
  <2> HIDE DEF s
  <2> QED
    BY <2>2, <2>3, Zenon
<1> DEFINE q == Tail(redeems)  p == Len(redeems)
<1>4. q \in Seq(Ids \X Nat) /\ p \in Nat \ {0} /\ Len(q) = p - 1 /\ \A i \in 1 .. p - 1 : q[i] = redeems[i + 1]
  BY <1>1, <1>2
<1>5. \A i \in 1 .. p - 1 : i + 1 \in 1 .. p /\ \A j \in 1 .. p - 1 : i # j => i + 1 # j + 1
  <2>1. p \in Nat \ {0}
    BY <1>4, Zenon
  <2> HIDE DEF p
  <2> QED
    BY <2>1
<1> HIDE DEF q, p
<1>6. AllDiffer(q) /\ \A i \in 1 .. Len(q) : Given(q[i], st.ticket)
  <2>1. \A i \in 1 .. Len(q) : i + 1 \in 1 .. p /\ q[i] = redeems[i + 1] /\ \A j \in 1 .. Len(q) : i # j => i + 1 # j + 1
    BY <1>4, <1>5, Zenon
  <2>2. AllDiffer(q)
    BY <2>1, ZenonT(60) DEF RInv, AllDiffer, p
  <2> QED
    BY <1>2, <2>1, <2>2, ZenonT(60) DEF RInv, p
<1>7. redeems' = q
  BY <1>1, Zenon DEF q
<1> QED
  BY <1>1, <1>2, <1>3, <1>4, <1>6, <1>7, RFresh, ZenonT(60)

\* A transaction ends: its events schedule their retries, or it never was.
LEMMA REndTx ==
  ASSUME IInv, IInv', RInv, NEW success \in BOOLEAN, EndTx(success)
  PROVE  RInv'
<1>1. logs' = <<>> /\ saved' = st' /\ tx # None
  BY Zenon DEF EndTx
<1>2. /\ st \in StateType /\ st' \in StateType /\ saved \in StateType /\ tx \in Ids \union {User}
      /\ logs \in Seq(Ids \X Nat) /\ redeems \in Seq(Ids \X Nat)
  BY <1>1, TriesAreSound, Zenon DEF RInv, RetryType, IInv, Sound
<1>3. CASE ~success
  <2>1. st'.ticket = saved.ticket /\ redeems' = redeems
    <3>1. CASE tx = User
      BY <1>3, <3>1, Zenon DEF EndTx
    <3>2. CASE tx \in Ids /\ tx # User
      <4> DEFINE s == Escrowed(saved, tx, saved.escrow[tx] + saved.ticket[tx].value)
      <4>1. st' = s /\ redeems' = redeems
        BY <1>3, <3>2, Zenon DEF EndTx, Escrowed
      <4>2. s.ticket = saved.ticket
        BY <1>2, <3>2, EscrowOf, ZenonT(60)
      <4> HIDE DEF s
      <4> QED
        BY <4>1, <4>2, Zenon
    <3> QED
      BY <1>2, <3>1, <3>2, Zenon
  <2> QED
    BY <1>1, <1>2, <2>1, RFresh, Zenon DEF RInv
<1>4. CASE success
  <2>1. /\ redeems' = redeems \o ScheduledTxes(st')
        /\ st' = IF tx = User THEN st ELSE DeleteRetryable(st, tx)
    BY <1>4, Zenon DEF EndTx
  <2>2. \A d \in Ids : st'.ticket[d].timeout # 0 => st'.ticket[d] = st.ticket[d]
    <3>1. CASE tx = User
      BY <2>1, <3>1, Zenon
    <3>2. CASE tx \in Ids /\ tx # User
      <4> DEFINE s == DeleteRetryable(st, tx)
      <4>1. TicketGone(s, st, tx)
        BY <1>2, <3>2, DeletedOf, ZenonT(60)
      <4>2. st' = s
        BY <2>1, <3>2, ZenonT(60)
      <4> HIDE DEF s
      <4> QED
        BY <4>1, <4>2, Zenon DEF TicketGone
    <3> QED
      BY <1>2, <3>1, <3>2, ZenonT(60)
  <2> DEFINE q == ScheduledTxes(st')
  <2>3. q = ScheduledTxes(st')
    BY Zenon
  <2>4. DrawnFrom(q, logs)
    <3>1. logs \in Seq(Ids \X Nat) /\ AllDiffer(logs)
      BY <1>2, Zenon DEF RInv
    <3> QED
      BY <3>1, ScheduledOf, Zenon
  <2> HIDE DEF q
  <2>5. /\ \A i \in 1 .. Len(logs) : logs[i][1] \in Ids /\ logs[i][2] \in Nat
        /\ \A i \in 1 .. Len(redeems) : redeems[i][1] \in Ids /\ redeems[i][2] \in Nat
    BY SMTT(60), <1>2
  <2>6. \A d \in Ids : st.ticket[d].tries \in Nat /\ saved.ticket[d].tries \in Nat
    <3>1. \A d \in Ids : st.ticket[d] \in TicketType /\ saved.ticket[d] \in TicketType
      BY <1>2, Parts, Zenon
    <3> QED
      BY <3>1, Zenon DEF TicketType
  <2>7. \A i \in 1 .. Len(redeems) : Given(redeems[i], st'.ticket)
    <3> SUFFICES ASSUME NEW i \in 1 .. Len(redeems), NEW d, d = redeems[i][1], st'.ticket[d].timeout # 0
                 PROVE  redeems[i][2] < st'.ticket[d].tries
      BY Zenon DEF Given
    <3> DEFINE n == redeems[i][2]  a == saved.ticket[d].tries  b == st.ticket[d].tries
    <3>1. d \in Ids /\ n \in Nat /\ a \in Nat /\ b \in Nat /\ st'.ticket[d] = st.ticket[d]
      BY <2>2, <2>5, <2>6, ZenonT(60)
    <3>2. n < a /\ a <= b
      BY <3>1, ZenonT(60) DEF RInv, OlderTicket, Given
    <3> HIDE DEF n, a, b
    <3>3. n < b
      BY <3>1, <3>2, SMTT(60)
    <3> QED
      BY <3>1, <3>3, Zenon DEF n, b
  <2>8. \A i \in 1 .. Len(logs) : Given(logs[i], st'.ticket)
    BY <2>2, <2>5, ZenonT(60) DEF RInv, Announced, Given
  <2>9. \A i \in 1 .. Len(redeems), j \in 1 .. Len(logs) : redeems[i] # logs[j]
    <3> SUFFICES ASSUME NEW i \in 1 .. Len(redeems), NEW j \in 1 .. Len(logs), redeems[i] = logs[j]
                 PROVE  FALSE
      BY Zenon
    <3> DEFINE n == redeems[i][2]  a == saved.ticket[redeems[i][1]].tries
    <3>1. n < a /\ a <= n
      BY Zenon DEF RInv, Announced, Given
    <3>2. n \in Nat /\ a \in Nat
      BY <2>5, <2>6, Zenon
    <3> HIDE DEF n, a
    <3> QED
      BY <3>1, <3>2, SMTT(60)
  <2>10. Apart(redeems, q)
    BY <2>4, <2>9, Zenon DEF Apart, DrawnFrom
  <2> DEFINE z == redeems \o q
  <2>11. z \in Seq(Ids \X Nat) /\ Joined(z, redeems, q)
    <3>1. redeems \in Seq(Ids \X Nat) /\ AllDiffer(redeems) /\ q \in Seq(Ids \X Nat) /\ AllDiffer(q)
      BY <1>2, <2>4, ZenonT(60) DEF RInv, DrawnFrom
    <3>2. z \in Seq(Ids \X Nat)
      BY <3>1
    <3> QED
      BY <2>10, <3>1, <3>2, JoinDiffers, ZenonT(60)
  <2> HIDE DEF z
  <2>12. \A n \in 1 .. Len(z) : Given(z[n], st'.ticket)
    BY <2>4, <2>7, <2>8, <2>11, ZenonT(60) DEF DrawnFrom, Joined
  <2>13. redeems' = z
    BY <2>1, <2>3, Zenon DEF z
  <2> QED
    BY <1>1, <1>2, <2>11, <2>12, <2>13, RFresh, ZenonT(60) DEF Joined
<1> QED
  BY <1>3, <1>4, Zenon

\* The numbers stay right.
LEMMA RNext == IInv /\ IInv' /\ RInv /\ [Next]_vars => RInv'
<1> SUFFICES ASSUME IInv, IInv', RInv, [Next]_vars PROVE RInv'
  OBVIOUS
<1>1. CASE \E now \in 1 .. MaxTime : StartBlock(now)
  BY <1>1, RStart, Zenon DEF StartBlock
<1>2. CASE \E d \in Ids, value \in 0 .. 1, auto \in BOOLEAN : SubmitRetryable(d, value, auto)
  BY <1>2, SubmitInv, RSubmit, Zenon
<1>3. CASE StartUserTx
  BY <1>3, RStart, Zenon DEF StartUserTx
<1>4. CASE StartRetry
  BY <1>4, RStartRetry, Zenon
<1>5. CASE \E d \in Ids : Redeem(d) \/ Keepalive(d) \/ Cancel(d)
  BY <1>5, RRedeem, RCall, ZenonT(60)
<1>6. CASE \E success \in BOOLEAN : EndTx(success)
  BY <1>6, REndTx, Zenon
<1>7. CASE UNCHANGED vars
  <2>1. st' = st /\ saved' = saved /\ tx' = tx /\ logs' = logs /\ redeems' = redeems
    BY <1>7, Zenon DEF vars
  <2> QED
    BY <2>1, Zenon DEF RInv, RetryType
<1> QED
  BY <1>1, <1>2, <1>3, <1>4, <1>5, <1>6, <1>7, Zenon DEF Next

(***************************************************************************)
(* The theorems.                                                           *)
(***************************************************************************)
\* The inductive invariant holds in every state the block processor reaches.
THEOREM Invariance == Spec => []IInv
<1>1. Init => IInv
  BY SMTT(90), InitInv
<1>2. IInv /\ [Next]_vars => IInv'
  BY SMTT(90), NextInv
<1> QED
  BY <1>1, <1>2, PTL DEF Spec

\* Keepalive, TryToReapOneRetryable, DeleteRetryable and reverted transactions
\* together keep exactly one queue entry for each lifetime a ticket has left.
THEOREM EntriesMatchWindows == Spec => []OneEntryPerWindow
<1>1. IInv => OneEntryPerWindow
  BY SMTT(90) DEF IInv, Sound, SoundTicket, OneEntryPerWindow
<1> QED
  BY <1>1, Invariance, PTL

\* The callvalue of a live ticket that is not running is in its escrow, and the
\* escrow of any other ticket is empty.
THEOREM EscrowIsBacked == Spec => []EscrowBacksTicket
<1>1. IInv => EscrowBacksTicket
  BY SMTT(90) DEF IInv, Sound, SoundEscrow, EscrowBacksTicket
<1> QED
  BY <1>1, Invariance, PTL

\* However many retries of a ticket are scheduled, at most one of them succeeds.
THEOREM AtMostOneRedeem == Spec => []RedeemedOnce
<1>1. IInv => RedeemedOnce
  BY SMTT(90) DEF IInv, RedeemedOnce
<1> QED
  BY <1>1, Invariance, PTL

\* Starting a block never deletes a ticket whose reported expiry is not over, and
\* never changes the expiry of one that it keeps.
THEOREM ExpiryIsKept == Spec => NotReapedEarly
<1> DEFINE Kept == \A d \in Ids : Live(st, d) =>
                     IF Live(st', d) THEN CalculateTimeout(st', d) = CalculateTimeout(st, d)
                     ELSE CalculateTimeout(st, d) < time'
<1>1. IInv /\ [Next]_vars => [time' # time => Kept]_vars
  <2> SUFFICES ASSUME IInv, Next, time' # time PROVE Kept
    BY SMTT(90)
  <2>1. PICK now \in 1 .. MaxTime : StartBlock(now)
    BY ZenonT(90) DEF Next, SubmitRetryable, StartUserTx, StartRetry, Redeem, Keepalive, Cancel,
           Call, EndTx
  <2>2. time' = now /\ \A e \in Ids : Reaped(st, st', e, now)
    BY <2>1, BlockInv, SMTT(60) DEF StartBlock
  <2> QED
    BY <2>2, Zenon DEF Reaped
<1> QED
  BY <1>1, Invariance, PTL DEF Spec, NotReapedEarly

\* No two retries that wait to run are the same transaction: Redeem and SubmitRetryable
\* give each its own sequence number, and a transaction that reverts announces nothing.
THEOREM NoRetryTwice == Spec => []RetriesAreDistinct
<1>1. Init => RInv
  <2> SUFFICES ASSUME Init PROVE RInv
    OBVIOUS
  <2>1. IInv /\ st = saved /\ logs = <<>> /\ redeems = <<>>
    BY InitInv, Zenon DEF Init
  <2>2. <<>> \in Seq(Ids \X Nat) /\ 1 .. Len(<<>>) = {}
    OBVIOUS
  <2>3. \A d \in Ids : OlderTicket(st.ticket[d], saved.ticket[d])
    <3>1. \A d \in Ids : saved.ticket[d] \in TicketType
      BY <2>1, TriesAreSound, Parts, Zenon
    <3>2. \A d \in Ids : saved.ticket[d].tries \in Nat
      BY <3>1, Zenon DEF TicketType
    <3>3. \A n \in Nat : n <= n
      OBVIOUS
    <3> QED
      BY <2>1, <3>2, <3>3, ZenonT(60) DEF OlderTicket
  <2> QED
    BY <2>1, <2>2, <2>3, ZenonT(60) DEF RInv, RetryType, AllDiffer
<1>2. RInv => RetriesAreDistinct
  <2>1. RInv => DOMAIN redeems = 1 .. Len(redeems)
    <3>1. RInv => redeems \in Seq(Ids \X Nat)
      BY Zenon DEF RInv, RetryType
    <3> QED
      BY <3>1, SMTT(60)
  <2> QED
    BY <2>1, Zenon DEF RInv, AllDiffer, RetriesAreDistinct
<1> QED
  BY <1>1, <1>2, Invariance, RNext, PTL DEF Spec

\* All that the run checks of tickets: their queue entries, their escrow, their retries and
\* their expiry are right in every block (CreateRetryable, Keepalive,
\* TryToReapOneRetryable, the redeem loop of the block processor).
THEOREM TicketsAreSound == Spec => TicketsSound
BY EntriesMatchWindows, EscrowIsBacked, AtMostOneRedeem, NoRetryTwice, ExpiryIsKept, PTL DEF TicketsSound

=============================================================================
