------------------------------- MODULE Buffer -------------------------------
(***************************************************************************)
(* The scatter-gather buffer of the enclave proxy                          *)
(* (container-tools/cc/aws/proxy/src/buffer.h over freelist.h): a list of  *)
(* blocks of one size, filled at the back and consumed at the front.  A    *)
(* socket read is started on reserved space and a socket write on peeked   *)
(* data; both are under way at the same time, and each holds pointers into *)
(* blocks while the other's completion changes the list.                   *)
(*                                                                         *)
(* Bytes are numbered as they are written.  A place is a block and an      *)
(* index in it.  The handlers of one buffer run on one strand.             *)
(***************************************************************************)
EXTENDS Naturals, FiniteSets, SequencesExt, FiniteSetsExt

CONSTANTS
  Capacity,   \* Block::capacity
  MaxBlocks,  \* bound on the blocks allocated
  MaxReserve, \* bound on the size of a reservation
  MaxBytes,   \* bound on the bytes written
  None        \* no operation under way

ASSUME BufferAssumption ==
  /\ Capacity \in Nat \ {0}
  /\ {MaxBlocks, MaxReserve, MaxBytes} \subseteq Nat
  /\ None \notin Nat

BlockIds == 1 .. MaxBlocks
Places   == BlockIds \X (1 .. Capacity)
Block    == [id : BlockIds, offset : 0 .. Capacity, len : 0 .. Capacity]

VARIABLES
  chain,       \* the blocks from head_ to tail_
  end,         \* the index of end_ in chain, 0 for nullptr
  dataSize,    \* data_size_
  free,        \* the freelist, its head first
  mem,         \* mem[b][i]: the byte in a place, 0 if none was ever written
  reservation, \* the places of the outstanding Reserve, None without one
  arrived,     \* how many bytes the socket has read into them, None until then
  peeked,      \* the places of the outstanding Peek, None without one
  sent,        \* the bytes the socket has taken from them, None until then
  out,         \* the bytes last consumed
  written      \* how many bytes have been committed

blocks == <<chain, end, dataSize, free>>
vars == <<blocks, mem, reservation, arrived, peeked, sent, out, written>>

Init ==
  /\ chain = <<>>
  /\ end = 0
  /\ dataSize = 0
  /\ free = <<>>
  /\ mem = [b \in BlockIds |-> [i \in 1 .. Capacity |-> 0]]
  /\ reservation = None
  /\ arrived = None
  /\ peeked = None
  /\ sent = None
  /\ out = <<>>
  /\ written = 0

-----------------------------------------------------------------------------
(* Blocks and the places in them                                           *)

SpaceLen(b) == Capacity - b.offset - b.len

DataPlaces(b)  == [i \in 1 .. b.len |-> <<b.id, b.offset + i>>]
SpacePlaces(b) == [i \in 1 .. SpaceLen(b) |-> <<b.id, b.offset + b.len + i>>]

\* The places of the data, and of the space, in blocks i to j of chain c.
DataOf(c, i, j)  == FlattenSeq(SubSeq([k \in DOMAIN c |-> DataPlaces(c[k])], i, j))
SpaceOf(c, i, j) == FlattenSeq(SubSeq([k \in DOMAIN c |-> SpacePlaces(c[k])], i, j))
SpaceIn(c, i, j) == Len(SpaceOf(c, i, j))

\* The places of all the data, and the bytes in given places.
AllData == DataOf(chain, 1, Len(chain))
Bytes(places) == [i \in DOMAIN places |-> mem[places[i][1]][places[i][2]]]

space_size == IF chain = <<>> THEN 0
              ELSE Len(chain) * Capacity - dataSize - chain[1].offset

\* SpaceStepper: the first block with space, one past the last if there is none.
FirstSpace == IF end # 0 /\ SpaceLen(chain[end]) = 0 THEN end + 1
              ELSE Max({end, 1})

\* The next n blocks the freelist gives, its own first and then new ones.
Allocated == {chain[i].id : i \in DOMAIN chain} \cup ToSet(free)
NewBlocks(n) ==
  LET next == free \o SetToSeq(BlockIds \ Allocated)
  IN [i \in 1 .. n |-> [id |-> next[i], offset |-> 0, len |-> 0]]

\* How many blocks are appended, one by one, until there are size bytes to reserve.
Missing(size) ==
  LET have == SpaceIn(chain, FirstSpace, Len(chain))
  IN Min({n \in 0 .. size : have + n * Capacity >= size})

\* The chain with that space, the places in the blocks that provide it, and the
\* freelist that is left.
Extended(size) == chain \o NewBlocks(Missing(size))
Stepped(size) ==
  LET c == Extended(size)
      last == Min({j \in FirstSpace .. Len(c) : SpaceIn(c, FirstSpace, j) >= size})
  IN SpaceOf(c, FirstSpace, last)

\* Commit: n bytes of the space of chain c from block start on become data.
Committed(c, start, n) ==
  [i \in DOMAIN c |->
     IF i < start THEN c[i]
     ELSE LET before == SpaceIn(c, start, i - 1)
          IN [c[i] EXCEPT !.len = @ + Min({SpaceLen(c[i]), IF n > before THEN n - before ELSE 0})]]

\* The last block that Commit steps to.
CommitEnd(c, start, n) ==
  IF n = 0 THEN end
  ELSE Min({i \in start .. Len(c) : SpaceIn(c, start, i) >= n})

-----------------------------------------------------------------------------
(* Reserve and Commit                                                      *)

\* Reserve takes exactly size bytes, ReserveAtLeast whole blocks.
Reserve(size, exact) ==
  /\ reservation = None
  /\ Missing(size) <= MaxBlocks - Len(chain)
  /\ reservation' = IF exact THEN SubSeq(Stepped(size), 1, size) ELSE Stepped(size)
  /\ chain' = Extended(size)
  /\ free' = SubSeq(free, Missing(size) + 1, Len(free))
  /\ end' = Max({end, 1})
  /\ UNCHANGED <<dataSize, mem, arrived, peeked, sent, out, written>>

\* Bytes stored at the first n of the given places.
Stored(places, n) ==
  [b \in BlockIds |-> [i \in 1 .. Capacity |->
     IF \E k \in 1 .. n : places[k] = <<b, i>>
     THEN written + CHOOSE k \in 1 .. n : places[k] = <<b, i>>
     ELSE mem[b][i]]]

\* The socket reads n bytes into the reserved space; 0 when the read fails.
Arrive(n) ==
  /\ reservation # None
  /\ arrived = None
  /\ n <= Len(reservation)
  /\ written + n <= MaxBytes
  /\ mem' = Stored(reservation, n)
  /\ arrived' = n
  /\ UNCHANGED <<blocks, reservation, peeked, sent, out, written>>

Commit ==
  /\ arrived # None
  /\ chain' = Committed(chain, FirstSpace, arrived)
  /\ end' = CommitEnd(chain, FirstSpace, arrived)
  /\ dataSize' = dataSize + arrived
  /\ written' = written + arrived
  /\ reservation' = None
  /\ arrived' = None
  /\ UNCHANGED <<free, mem, peeked, sent, out>>

\* CopyIn: a reservation that is filled and committed at once.
CopyIn(size) ==
  /\ reservation = None
  /\ written + size <= MaxBytes
  /\ Missing(size) <= MaxBlocks - Len(chain)
  /\ mem' = Stored(Stepped(size), size)
  /\ chain' = Committed(Extended(size), FirstSpace, size)
  /\ end' = CommitEnd(Extended(size), FirstSpace, size)
  /\ free' = SubSeq(free, Missing(size) + 1, Len(free))
  /\ dataSize' = dataSize + size
  /\ written' = written + size
  /\ UNCHANGED <<reservation, arrived, peeked, sent, out>>

-----------------------------------------------------------------------------
(* Peek and Drain                                                          *)

\* The places of the data, up to the first block that has none.
PeekPlaces ==
  LET k == SelectInSeq(chain, LAMBDA b : b.len = 0)
  IN DataOf(chain, 1, IF k = 0 THEN Len(chain) ELSE k - 1)

Peek ==
  /\ peeked = None
  /\ dataSize > 0
  /\ peeked' = PeekPlaces
  /\ UNCHANGED <<blocks, mem, reservation, arrived, sent, out, written>>

\* The socket takes the first n of the peeked bytes; 0 when the write fails.
Send(n) ==
  /\ peeked # None
  /\ sent = None
  /\ n <= Len(peeked)
  /\ sent' = Bytes(SubSeq(peeked, 1, n))
  /\ UNCHANGED <<blocks, mem, reservation, arrived, peeked, out, written>>

\* The chain after n bytes are consumed, exhausted blocks included.
Consumed(n) ==
  [i \in DOMAIN chain |->
     LET before == Len(DataOf(chain, 1, i - 1))
         some == Min({chain[i].len, IF n > before THEN n - before ELSE 0})
     IN [chain[i] EXCEPT !.offset = @ + some, !.len = @ - some]]

\* Mutant: a block without data is given back though it has space left.
ExhaustedAnyEmpty(n) == {i \in DOMAIN chain : chain[i].len > 0 /\ Consumed(n)[i].len = 0}

\* The blocks that consuming n bytes leaves with neither data nor space.
Exhausted(n) ==
  {i \in DOMAIN chain : chain[i].len > 0 /\ Consumed(n)[i].len = 0
                        /\ SpaceLen(Consumed(n)[i]) = 0}

\* Mutant: an empty buffer is reset though space of it is reserved.
ResetAlways(c, size) == IF size = 0 /\ c # <<>> THEN [c EXCEPT ![1].offset = 0] ELSE c

\* A buffer without data starts its first block over, unless its space is in use.
ResetHead(c, size) ==
  IF size = 0 /\ c # <<>> /\ reservation = None THEN [c EXCEPT ![1].offset = 0] ELSE c

\* Mutant: the last block stays at the head though it was given back.
DrainedKeepsLast(n) ==
  LET gone == Cardinality(Exhausted(n))
      left == SubSeq(Consumed(n), Max({1, Min({gone + 1, Len(chain)})}), Len(chain))
  IN /\ chain' = ResetHead(left, dataSize - n)
     /\ free' = Reverse([i \in 1 .. gone |-> chain[i].id]) \o free
     /\ dataSize' = dataSize - n
     /\ end' = IF dataSize > n THEN end - gone ELSE IF left = <<>> THEN 0 ELSE 1

\* n bytes are consumed: exhausted blocks go to the freelist one by one.
Drained(n) ==
  LET gone == Cardinality(Exhausted(n))
      left == SubSeq(Consumed(n), gone + 1, Len(chain))
  IN /\ chain' = ResetHead(left, dataSize - n)
     /\ free' = Reverse([i \in 1 .. gone |-> chain[i].id]) \o free
     /\ dataSize' = dataSize - n
     /\ end' = IF dataSize > n THEN end - gone ELSE IF left = <<>> THEN 0 ELSE 1

Drain ==
  /\ sent # None
  /\ Drained(Len(sent))
  /\ out' = sent
  /\ peeked' = None
  /\ sent' = None
  /\ UNCHANGED <<mem, reservation, arrived, written>>

\* CopyOut: size bytes, or all there are, are copied and consumed at once.
CopyOut(size) ==
  /\ peeked = None
  /\ LET n == Min({size, Len(PeekPlaces)})
     IN Drained(n) /\ out' = Bytes(SubSeq(PeekPlaces, 1, n))
  /\ UNCHANGED <<mem, reservation, arrived, peeked, sent, written>>

-----------------------------------------------------------------------------
Next ==
  \/ \E size \in 1 .. MaxReserve :
       (\E exact \in BOOLEAN : Reserve(size, exact)) \/ CopyIn(size) \/ CopyOut(size)
  \/ \E n \in 0 .. MaxBytes : Arrive(n) \/ Send(n)
  \/ Commit \/ Peek \/ Drain

Spec == Init /\ [][Next]_vars

-----------------------------------------------------------------------------
(* Properties                                                              *)

\* The list, the freelist and the pending operations keep their types; in
\* particular Block::Commit never fills a block beyond its capacity.
TypeOK ==
  /\ chain \in Seq(Block)
  /\ \A i \in DOMAIN chain : chain[i].offset + chain[i].len <= Capacity
  /\ end \in 0 .. Len(chain)
  /\ dataSize \in Nat
  /\ free \in Seq(BlockIds)
  /\ mem \in [BlockIds -> [1 .. Capacity -> 0 .. MaxBytes]]
  /\ reservation # None => reservation \in Seq(Places)
  /\ arrived \in Nat \cup {None}
  /\ peeked # None => peeked \in Seq(Places)
  /\ sent # None => sent \in Seq(0 .. MaxBytes)
  /\ out \in Seq(0 .. MaxBytes)
  /\ written \in 0 .. MaxBytes

Abstract == INSTANCE ByteQueue WITH queue <- Bytes(AllData)

\* Bytes come out in the order in which they went in, however reservations,
\* socket operations in both directions and recycled blocks interleave.
RefinesByteQueue == Abstract!Spec

\* While a read and a write are under way, the read's places are the first of
\* the free space, where Commit will look for its bytes, and the write's places
\* are the first of the data: no completion moves or recycles them.
PendingPlacesStay ==
  /\ reservation # None =>
       /\ FirstSpace <= Len(chain)
       /\ IsPrefix(reservation, SpaceOf(chain, FirstSpace, Len(chain)))
  /\ peeked # None => IsPrefix(peeked, AllData)

\* space_size, which Commit asserts to be enough, is the space there is after
\* the data, and data_size_ the data.
SizesAreExact ==
  /\ dataSize = Len(AllData)
  /\ space_size = SpaceIn(chain, 1, Len(chain))

\* A block is in the list or in the freelist and at most once in either: Drain
\* frees none twice, and none that Reserve takes from the freelist is in use.
BlocksAreOwnedOnce == IsInjective([i \in DOMAIN chain |-> chain[i].id] \o free)

\* The list, the counters and the freelist stay in accord through every order of
\* reservations, commits, peeks and drains.
BufferInv == TypeOK /\ SizesAreExact /\ BlocksAreOwnedOnce
=============================================================================
