---------------------------- MODULE ArbosStorage ----------------------------
(***************************************************************************)
(* The structures that ArbOS keeps in its storage (arbos/storage,          *)
(* arbos/addressTable, arbos/blockhash): a queue, a byte string, signed    *)
(* and unsigned numbers, the table of addresses and the ring of L1 block   *)
(* hashes.  Each is checked against what it stands for: the sequence, the  *)
(* string, the number.  A cell that was never written or was cleared is    *)
(* zero.  A behaviour of the first part uses one of these structures; the  *)
(* second part is the set of chain owners (arbos/addressSet).              *)
(***************************************************************************)
EXTENDS Integers, Sequences, FiniteSets

CONSTANTS SkWord,      \* the bytes of a storage word (32 in the code)
          SkMaxBytes,  \* the longest byte string
          SkMaxOps,    \* bound on the operations on the queue
          SkHalf,      \* the numbers of a word from this one on have the top bit set (2^255 in the code)
          SkNumbers,   \* the numbers that are written
          SkAddrs,     \* the addresses
          SkWindow,    \* the length of the ring of block hashes (256 in the code)
          SkMaxL1      \* bound on the L1 block number

VARIABLES sk,          \* the structure in use
          cells,       \* its storage
          stands       \* what it stands for

skVars == <<sk, cells, stands>>

ASSUME SkAssumption ==
  /\ SkWord \in Nat \ {0} /\ SkMaxBytes \in Nat /\ SkMaxOps \in Nat
  /\ SkHalf \in Nat \ {0} /\ SkNumbers \subseteq Int
  /\ SkWindow \in Nat \ {0} /\ SkMaxL1 \in Nat

Zero == 0
-----------------------------------------------------------------------------
(* Queue: the offsets of the next put and get, and cells from offset 2 on. *)

QueueCells == 2 .. SkMaxOps + 1
QueueInit == cells = [put |-> 2, get |-> 2, at |-> [o \in QueueCells |-> Zero]] /\ stands = <<>>

QueueEmpty == cells.put = cells.get

SkPut(v) ==
  /\ cells.put <= SkMaxOps + 1
  /\ cells' = [cells EXCEPT !.put = @ + 1, !.at[cells.put] = v]
  /\ stands' = Append(stands, v)

\* A variant that leaves the value it took in its cell.
TakenKept == cells.at
\* Get swaps the value for the zero hash.
Taken == [cells.at EXCEPT ![cells.get] = Zero]

SkGet ==
  /\ ~QueueEmpty
  /\ cells' = [cells EXCEPT !.get = @ + 1, !.at = Taken]
  /\ stands' = Tail(stands)

Peek == IF QueueEmpty THEN Zero ELSE cells.at[cells.get]

\* Shift resets an empty queue to its first offset.
Shift == QueueEmpty /\ cells' = [cells EXCEPT !.put = 2, !.get = 2] /\ UNCHANGED stands

\* What ForEach enumerates.
ForEach == [i \in 1 .. cells.put - cells.get |-> cells.at[cells.get + i - 1]]

QueueNext == (\E v \in 1 .. 2 : SkPut(v)) \/ SkGet \/ Shift
-----------------------------------------------------------------------------
(* A byte string: its length at 0 and its words, each padded on the left,  *)
(* from 1 on.                                                               *)

Pad(b) == [i \in 1 .. SkWord |-> IF i <= SkWord - Len(b) THEN 0 ELSE b[i - (SkWord - Len(b))]]
ZeroWord == Pad(<<>>)
BytesCells == 1 .. SkMaxBytes \div SkWord + 1
BytesInit == cells = [len |-> 0, word |-> [o \in BytesCells |-> ZeroWord]] /\ stands = <<>>

\* ClearBytes zeroes every word the length covers.
ClearBytes == [len |-> 0, word |-> [o \in BytesCells |-> IF (o - 1) * SkWord < cells.len THEN ZeroWord ELSE cells.word[o]]]

SetBytes(b) ==
  /\ cells' = [len |-> Len(b),
               word |-> [o \in BytesCells |->
                           IF o <= Len(b) \div SkWord + 1
                           THEN Pad(SubSeq(b, (o - 1) * SkWord + 1, IF o * SkWord < Len(b) THEN o * SkWord ELSE Len(b)))
                           ELSE ClearBytes.word[o]]]
  /\ stands' = b

ClearString == cells' = ClearBytes /\ stands' = <<>>

\* Whole words are read first, and the end of the last one is what is left.
GetBytes ==
  LET whole == cells.len \div SkWord
      rest == cells.len % SkWord
  IN  [i \in 1 .. cells.len |->
         IF i <= whole * SkWord THEN cells.word[(i - 1) \div SkWord + 1][((i - 1) % SkWord) + 1]
         ELSE cells.word[whole + 1][SkWord - rest + i - whole * SkWord]]

BytesNext == (\E n \in 0 .. SkMaxBytes : \E b \in [1 .. n -> 0 .. 1] : SetBytes(b)) \/ ClearString
-----------------------------------------------------------------------------
(* Numbers of the width of a word: StorageBackedBigInt (signed) and        *)
(* StorageBackedBigUint.  A write is checked, saturating, or the one from  *)
(* before ArbOS version 7.  BytesToHash keeps the low bits of a magnitude. *)

SkRange == 2 * SkHalf
NumberInit == cells = [raw |-> 0, failed |-> FALSE] /\ stands = [val |-> 0, how |-> "checked", signed |-> FALSE]

ToHash(n) == (IF n < 0 THEN 0 - n ELSE n) % SkRange

\* StorageBackedBigInt.Get: the top bit is the sign.
GetSigned == IF cells.raw >= SkHalf THEN cells.raw - SkRange ELSE cells.raw

\* StorageBackedBigInt.SetChecked, SetSaturatingWithWarning and Set_preVersion7.
SetSigned(val, how) ==
  LET wrapped == val + SkRange
      under == val < 0 /\ (wrapped < SkHalf \/ wrapped <= 0)
      over == val >= SkHalf
  IN  IF how = "pre7" THEN [raw |-> ToHash(val), failed |-> FALSE]
      ELSE IF how = "checked" /\ (under \/ over) THEN [cells EXCEPT !.failed = TRUE]
      ELSE [raw |-> ToHash(IF under THEN SkHalf ELSE IF over THEN SkHalf - 1
                           ELSE IF val < 0 THEN wrapped ELSE val), failed |-> FALSE]

\* StorageBackedBigUint.SetChecked and SetSaturatingWithWarning.
SetUnsigned(val, how) ==
  LET under == val < 0
      over == val >= SkRange
  IN  IF how = "checked" /\ (under \/ over) THEN [cells EXCEPT !.failed = TRUE]
      ELSE [raw |-> ToHash(IF under THEN 0 ELSE IF over THEN SkRange - 1 ELSE val), failed |-> FALSE]

SetNumber(val, how, signed) ==
  /\ signed \/ how # "pre7"
  /\ cells' = IF signed THEN SetSigned(val, how) ELSE SetUnsigned(val, how)
  /\ stands' = [val |-> val, how |-> how, signed |-> signed]

NumberNext == \E val \in SkNumbers, how \in {"checked", "saturating", "pre7"}, signed \in BOOLEAN : SetNumber(val, how, signed)
-----------------------------------------------------------------------------
(* AddressTable: stands is the set of compressed forms handed out so far,  *)
(* each with the address it was made from.  A form is an RLP string of 20  *)
(* bytes or an RLP number.                                                 *)

TableInit == cells = [items |-> <<>>, byAddress |-> [a \in SkAddrs |-> 0]] /\ stands = {}

Register(a) ==
  cells' = IF cells.byAddress[a] # 0 THEN cells
           ELSE [items |-> Append(cells.items, a), byAddress |-> [cells.byAddress EXCEPT ![a] = Len(cells.items) + 1]]

\* Lookup returns the index of an address, -1 if it is not in the table.
Lookup(a) == cells.byAddress[a] - 1

\* LookupIndex returns the address at an index.
LookupIndex(i) == IF i < Len(cells.items) THEN {cells.items[i + 1]} ELSE {}

Compress(a) == IF cells.byAddress[a] # 0 THEN [kind |-> "index", index |-> Lookup(a)] ELSE [kind |-> "address", address |-> a]

Decompress(f) == IF f.kind = "address" THEN {f.address} ELSE LookupIndex(f.index)

TableNext ==
  \E a \in SkAddrs :
    \/ Len(cells.items) < Cardinality(SkAddrs) + 1 /\ Register(a) /\ UNCHANGED stands
    \/ stands' = stands \cup {<<Compress(a), a>>} /\ UNCHANGED cells
-----------------------------------------------------------------------------
(* Blockhashes: a ring of SkWindow hashes and the number after the newest  *)
(* block.  A hash is the L1 block it stands for and the block whose hash   *)
(* it was made from: itself, or the later block that skipped it.           *)

HashesInit == cells = [next |-> 0, ring |-> [i \in 0 .. SkWindow - 1 |-> <<>>]] /\ stands = {}

\* The numbers that RecordNewL1Block fills in for a block.
Filled(number) ==
  LET from == IF cells.next + SkWindow < number THEN number - SkWindow ELSE cells.next
  IN  {n \in 0 .. number - 1 : n > from}

RecordNewL1Block(number) ==
  /\ number >= cells.next
  /\ cells' = [next |-> number + 1,
               ring |-> [i \in 0 .. SkWindow - 1 |->
                           IF i = number % SkWindow THEN <<number, number>>
                           ELSE IF \E n \in Filled(number) : n % SkWindow = i
                           THEN <<CHOOSE n \in Filled(number) : n % SkWindow = i, number>>
                           ELSE cells.ring[i]]]
  /\ stands' = stands \cup {number}

BlockHashValid(number) == number < cells.next /\ number + SkWindow >= cells.next
BlockHash(number) == cells.ring[number % SkWindow]

HashesNext == \E number \in 0 .. SkMaxL1 : RecordNewL1Block(number)
-----------------------------------------------------------------------------
SkInit ==
  \/ sk = "queue" /\ QueueInit
  \/ sk = "bytes" /\ BytesInit
  \/ sk = "number" /\ NumberInit
  \/ sk = "table" /\ TableInit
  \/ sk = "hashes" /\ HashesInit

SkNext ==
  /\ UNCHANGED sk
  /\ \/ sk = "queue" /\ QueueNext
     \/ sk = "bytes" /\ BytesNext
     \/ sk = "number" /\ NumberNext
     \/ sk = "table" /\ TableNext
     \/ sk = "hashes" /\ HashesNext

SkSpec == SkInit /\ [][SkNext]_skVars
-----------------------------------------------------------------------------
\* The queue is first in, first out across wrap-arounds of Shift, ForEach sees exactly its
\* contents, and a cell outside it is zero again (Queue.Put, Get, Shift, ForEach).
QueueFifo ==
  sk = "queue" =>
    /\ ForEach = stands
    /\ Peek = (IF stands = <<>> THEN Zero ELSE stands[1])
    /\ \A o \in QueueCells : o \notin cells.get .. cells.put - 1 => cells.at[o] = Zero

\* Reading returns the string last written, and no word of a longer string before it is
\* left behind (Storage.SetBytes, GetBytes, ClearBytes).
BytesExact ==
  sk = "bytes" =>
    /\ GetBytes = stands
    /\ \A o \in BytesCells : (o - 1) * SkWord >= Len(stands) => cells.word[o] = ZeroWord

\* A checked write stores the number or fails, exactly when the number does not fit; a
\* saturating write stores the nearest number that fits (StorageBackedBigInt and
\* StorageBackedBigUint).  Before version 7 a signed write loses the sign.
NumberStored ==
  sk = "number" =>
    LET lo == IF stands.signed THEN 0 - SkHalf ELSE 0
        hi == IF stands.signed THEN SkHalf - 1 ELSE SkRange - 1
        got == IF stands.signed THEN GetSigned ELSE cells.raw
        fits == stands.val \in lo .. hi
    IN  CASE stands.how = "checked" -> cells.failed = ~fits /\ (fits => got = stands.val)
          [] stands.how = "saturating" -> got = IF stands.val < lo THEN lo ELSE IF stands.val > hi THEN hi ELSE stands.val
          [] stands.how = "pre7" -> stands.val \in 0 .. hi => got = stands.val

\* A compressed address decompresses to the address it was made from, however the table
\* grew since (AddressTable.Compress, Decompress, Register).
FormsStable == sk = "table" => \A f \in stands : Decompress(f[1]) = {f[2]}

\* The hash of every recorded block is there until the ring wraps around over it
\* (Blockhashes.RecordNewL1Block, BlockHash).
RecordedHashKept ==
  sk = "hashes" => \A n \in stands : BlockHashValid(n) => BlockHash(n) = <<n, n>>

\* The structures over the storage of ArbOS give back what was put into them: queue, bytes,
\* numbers, compressed addresses and the ring of block hashes.
StorageSound == QueueFifo /\ BytesExact /\ NumberStored /\ FormsStable /\ RecordedHashKept

\* What each structure keeps between its operations, beside what is asked of it.
QueueInv ==
  /\ cells \in [put : Nat, get : Nat, at : [QueueCells -> Nat]] /\ stands \in Seq(Nat)
  /\ 2 <= cells.get /\ cells.get <= cells.put /\ cells.put <= SkMaxOps + 2
BytesInv ==
  /\ cells \in [len : 0 .. SkMaxBytes, word : [BytesCells -> [1 .. SkWord -> Nat]]] /\ stands \in Seq(Nat)
  /\ cells.len = Len(stands)
NumberInv ==
  /\ cells \in [raw : 0 .. SkRange - 1, failed : BOOLEAN]
  /\ stands \in [val : Int, how : {"checked", "saturating", "pre7"}, signed : BOOLEAN]
TableInv ==
  /\ cells \in [items : Seq(SkAddrs), byAddress : [SkAddrs -> Nat]]
  /\ stands \subseteq ([kind : {"index"}, index : Nat] \cup [kind : {"address"}, address : SkAddrs]) \X SkAddrs
  /\ \A a \in SkAddrs : cells.byAddress[a] # 0 =>
       cells.byAddress[a] <= Len(cells.items) /\ cells.items[cells.byAddress[a]] = a
HashesInv ==
  /\ cells \in [next : Nat, ring : [0 .. SkWindow - 1 -> {<<>>} \cup (Nat \X Nat)]]
  /\ stands \subseteq 0 .. cells.next - 1

SkInv ==
  /\ sk \in {"queue", "bytes", "number", "table", "hashes"}
  /\ sk = "queue" => QueueInv
  /\ sk = "bytes" => BytesInv
  /\ sk = "number" => NumberInv
  /\ sk = "table" => TableInv
  /\ sk = "hashes" => HashesInv
  /\ StorageSound

\* What the comment in RecordNewL1Block says of the blocks that were skipped: each has a
\* hash filled in.
SkippedFilled ==
  sk = "hashes" => \A n \in 0 .. SkMaxL1 : BlockHashValid(n) => BlockHash(n) # <<>> /\ BlockHash(n)[1] = n
-----------------------------------------------------------------------------
(* A set of addresses in the ArbOS state (arbos/addressSet), as the set of *)
(* chain owners uses it: a list of members in the slots 1 .. size, and a   *)
(* mapping byAddress from each member to its slot.  Before ArbOS version   *)
(* 11 a removal forgets to remap the member it moves; the upgrade to 11    *)
(* empties the list, and RectifyMapping brings each owner back into it.    *)

CONSTANTS AsAddrs,      \* the addresses
          AsNone,       \* the zero hash, an empty slot
          AsMaxSize     \* a bound on the length of the list

ASSUME AsAssumption == AsNone \notin AsAddrs /\ AsMaxSize \in Nat

VARIABLES list,         \* backingStorage at 1 .. : slot -> address
          size,
          byAddress,    \* address -> slot, 0 for a non-member
          version,      \* the ArbOS version: "old" (before 11) or "new"
          asPanic       \* Decrement panicked

asVars == <<list, size, byAddress, version, asPanic>>

AsSlots == 1 .. AsMaxSize

\* List, size, mapping and version of the set keep their types.
AsTypeOK ==
  /\ list \in [AsSlots -> AsAddrs \cup {AsNone}]
  /\ size \in 0 .. AsMaxSize
  /\ byAddress \in [AsAddrs -> 0 .. AsMaxSize]
  /\ version \in {"old", "new"}
  /\ asPanic \in BOOLEAN

IsMember(a) == byAddress[a] # 0

AllMembers == {list[s] : s \in 1 .. size}

\* What RectifyMapping takes for a correct mapping.
CorrectlyMapped(a) == byAddress[a] \in 1 .. size /\ list[byAddress[a]] = a

AsInit ==
  /\ list = [s \in AsSlots |-> AsNone]
  /\ size = 0
  /\ byAddress = [a \in AsAddrs |-> 0]
  /\ version \in {"old", "new"}
  /\ asPanic = FALSE

\* Appends a to the list; by is the mapping without a.
Append1(a, by) ==
  /\ size < AsMaxSize
  /\ list' = [list EXCEPT ![size + 1] = a]
  /\ byAddress' = [by EXCEPT ![a] = size + 1]
  /\ size' = size + 1
  /\ UNCHANGED <<version, asPanic>>

Add(a) == ~IsMember(a) /\ Append1(a, byAddress)

\* A variant that forgets to remap the moved member in every version.
MovedMappingNever(a) == [byAddress EXCEPT ![a] = 0]
\* The mapping once a is removed and the last member of the list is moved to its slot.
MovedMapping(a) ==
  LET cleared == [byAddress EXCEPT ![a] = 0]
      last == list[size]
  IN  IF byAddress[a] < size /\ version = "new" /\ last # AsNone
      THEN [cleared EXCEPT ![last] = byAddress[a]] ELSE cleared

AsRemove(a) ==
  /\ IsMember(a)
  /\ IF size = 0
     THEN asPanic' = TRUE /\ UNCHANGED <<list, size, byAddress, version>>
     ELSE /\ byAddress' = MovedMapping(a)
          /\ list' = [s \in AsSlots |-> IF s = size THEN AsNone
                                        ELSE IF s = byAddress[a] /\ byAddress[a] < size THEN list[size] ELSE list[s]]
          /\ size' = size - 1
          /\ UNCHANGED <<version, asPanic>>

\* Clear empties the list and forgets the members in it.
Clear ==
  /\ size # 0
  /\ byAddress' = [a \in AsAddrs |-> IF a \in AllMembers THEN 0 ELSE byAddress[a]]
  /\ list' = [s \in AsSlots |-> IF s <= size THEN AsNone ELSE list[s]]
  /\ size' = 0
  /\ UNCHANGED <<version, asPanic>>

\* The upgrade to version 11 calls ClearList, which leaves the mapping.
Upgrade ==
  /\ version = "old" /\ version' = "new"
  /\ list' = [s \in AsSlots |-> IF s <= size THEN AsNone ELSE list[s]]
  /\ size' = 0
  /\ UNCHANGED <<byAddress, asPanic>>

\* RectifyMapping is reached through ArbOwnerPublic, of version 11.
RectifyMapping(a) ==
  /\ version = "new" /\ IsMember(a) /\ ~CorrectlyMapped(a)
  /\ Append1(a, [byAddress EXCEPT ![a] = 0])

AsNext ==
  /\ ~asPanic
  /\ \/ \E a \in AsAddrs : Add(a) \/ AsRemove(a) \/ RectifyMapping(a)
     \/ Clear
     \/ Upgrade

AsSpec == AsInit /\ [][AsNext]_asVars
-----------------------------------------------------------------------------
\* From version 11 on every slot of the list holds a member that maps back to this slot
\* (AddressSet.Remove, ClearList, RectifyMapping), whatever the older versions left in
\* the mapping.
ListMapsBack ==
  version = "new" => \A s \in 1 .. size : list[s] \in AsAddrs /\ byAddress[list[s]] = s

\* Once every member is correctly mapped, as on a chain that starts with version 11 or
\* after each owner was rectified, the list is exactly the set of members
\* (AddressSet.AllMembers and IsMember agree).
RectifiedAgrees ==
  version = "new" /\ (\A a \in AsAddrs : IsMember(a) => CorrectlyMapped(a))
    => AllMembers = {a \in AsAddrs : IsMember(a)} /\ Cardinality(AllMembers) = size

\* Decrement underflows only when an owner the upgrade left out of the list is removed
\* before it is rectified (AddressSet.Remove).
PanicOnlyUnrectified == asPanic => \E a \in AsAddrs : IsMember(a) /\ ~CorrectlyMapped(a)

\* From version 11 on no step spoils the mapping of an owner that stays, except the
\* removal of an owner that was not rectified (AddressSet.Remove).
RepairLasts ==
  [][version = "new" /\ (\A a \in AsAddrs : IsMember(a) /\ ~CorrectlyMapped(a) => byAddress'[a] # 0)
      => \A a \in AsAddrs : CorrectlyMapped(a) /\ byAddress'[a] # 0 =>
           byAddress'[a] \in 1 .. size' /\ list'[byAddress'[a]] = a]_asVars

\* From version 11 on the list of owners and the mapping to its slots agree, or are repaired
\* for good (AddressSet.Add, Remove, RectifyMapping).
OwnersSound == [](ListMapsBack /\ RectifiedAgrees /\ PanicOnlyUnrectified) /\ RepairLasts
=============================================================================
