---------------------------- MODULE EventLogBuffer ----------------------------
(***************************************************************************)
(* The buffer that carries a log event from Logger::log to the sinks       *)
(* (LogBuffer<N> of core/LogBuffer.h and EventLogBuffer).                  *)
(*                                                                         *)
(* A buffer starts with N bytes inside the object and moves to the heap    *)
(* when it needs more.  Values are addressed by their offset, so that the  *)
(* offsets stay valid in a buffer that is copied or moved.  At offset 0    *)
(* lies the header, which says where the blocks of the text and of the     *)
(* fields are; a block says where its payload is.                          *)
(*                                                                         *)
(* The header, a block and a length take one byte here.  m_capacity is     *)
(* kept apart from the size of the storage that m_data points to, because  *)
(* the code can make them differ; so is the cursor, which size() returns.  *)
(* A byte written outside of the storage is lost, one read outside is      *)
(* Junk.  malloc does not fail.                                            *)
(***************************************************************************)
EXTENDS Integers, Sequences

CONSTANTS
  Objects,     (* places where buffer objects live                         *)
  Blocks,      (* heap blocks                                              *)
  NoBlock,     (* the heap block of a buffer that has none                 *)
  Items,       (* what a payload is made of                                *)
  Junk,        (* the value of a byte that nobody wrote                    *)
  N,           (* the size of the inline storage                           *)
  Lengths,     (* the lengths of payloads                                  *)
  MaxCursor    (* bound: no object gets a cursor beyond it                 *)

ASSUME NoneAssumption == NoBlock \notin Blocks /\ Junk \notin Items

ASSUME SizesAssumption ==
  /\ N \in Nat \ {0} /\ Lengths \subseteq Nat
  /\ MaxCursor \in Nat

VARIABLES
  buf,         (* the buffer objects                                       *)
  heap,        (* the blocks that are allocated                            *)
  origin,      (* history: where the content of each object comes from     *)
  wrote        (* history: what each object must read back                 *)

vars == <<buf, heap, origin, wrote>>

Parts == {"text", "fields"}

(* The header and the parts of an event that has none yet.                 *)
EmptyHeader == [part \in Parts |-> 0]
NotWritten  == [block |-> 0, at |-> 0, length |-> 0, item |-> Junk]

NothingWritten == [part \in Parts |-> NotWritten]

ASSUME JunkAssumption == Junk \notin [Parts -> Nat]

(* The size of the header, by which the constructor advances the cursor.   *)
HeaderSize == 1

InlineStorage == [i \in 1 .. N |-> IF i = 1 THEN EmptyHeader ELSE Junk]

NewBuffer ==
  [place |-> "inline", block |-> NoBlock, bytes |-> InlineStorage, cap |-> N, cursor |-> 0]

NoBuffer == [NewBuffer EXCEPT !.place = "dead"]

Init ==
  /\ buf = [o \in Objects |-> NoBuffer]
  /\ heap = {}
  /\ origin = [o \in Objects |-> "none"]
  /\ wrote = [o \in Objects |-> NothingWritten]

-----------------------------------------------------------------------------
(***************************************************************************)
(* Bytes.                                                                  *)
(***************************************************************************)
ReadBytes(b, n) == [i \in 1 .. n |-> IF i <= Len(b.bytes) THEN b.bytes[i] ELSE Junk]

PutBytes(bytes, index, data) ==
  [i \in 1 .. Len(bytes) |-> IF i - index \in 1 .. Len(data) THEN data[i - index] ELSE bytes[i]]

(* The new storage has no block yet: see Install.                          *)
Reserve(b, capacity) ==
  LET newCapacity == IF 2 * b.cap < capacity THEN capacity ELSE 2 * b.cap
      data        == [i \in 1 .. newCapacity |-> Junk]
  IN IF capacity <= b.cap
     THEN b
     ELSE [place |-> "heap", block |-> NoBlock,
           bytes |-> PutBytes(data, 0, ReadBytes(b, b.cursor)),
           cap   |-> newCapacity, cursor |-> b.cursor]

Encode(b, data) ==
  LET r == Reserve(b, b.cursor + Len(data))
  IN [place |-> r.place, block |-> r.block,
      bytes |-> PutBytes(r.bytes, r.cursor, data),
      cap   |-> r.cap, cursor |-> r.cursor + Len(data)]

EncodeString(b, length, item) ==
  Encode(Encode(b, <<length>>), [i \in 1 .. length |-> item])

(* The header is looked up in the storage that the buffer has now.         *)
SetHeader(b, part, index) ==
  [b EXCEPT !.bytes = IF @ = <<>> THEN @ ELSE PutBytes(@, 0, <<[@[1] EXCEPT ![part] = index]>>)]

(* A faulty write: the header is the one that was there before the event   *)
(* was encoded, and may be in storage that was freed since.                *)
EncodePartStale(b, part, length, item) ==
  LET payload == EncodeString(b, length, item)
      index   == payload.cursor
      block   == Encode(payload, <<b.cursor>>)
  IN IF block.place = b.place THEN SetHeader(block, part, index) ELSE block

(* writeText and writeFields: the payload, its block, and the header.      *)
EncodePart(b, part, length, item) ==
  LET payload == EncodeString(b, length, item)
      block   == Encode(payload, <<b.cursor>>)
  IN SetHeader(block, part, payload.cursor)

-----------------------------------------------------------------------------
(***************************************************************************)
(* The operations.                                                         *)
(***************************************************************************)
Live(o) == buf[o].place # "dead"

Owned(b) == IF b.place = "heap" THEN {b.block} ELSE {}

(* The object becomes b.  Storage that Reserve asked for gets its block,   *)
(* and the block that the object had is freed.                             *)
Install(o, b) ==
  /\ b.cursor <= MaxCursor
  /\ IF b.place = "heap" /\ b.block = NoBlock
     THEN \E block \in Blocks \ heap :
            /\ buf' = [buf EXCEPT ![o] = [b EXCEPT !.block = block]]
            /\ heap' = (heap \ Owned(buf[o])) \cup {block}
     ELSE /\ buf' = [buf EXCEPT ![o] = b]
          /\ UNCHANGED heap

Construct(o) ==
  /\ ~ Live(o)
  /\ Install(o, [NewBuffer EXCEPT !.cursor = HeaderSize])
  /\ origin' = [origin EXCEPT ![o] = "constructed"]
  /\ wrote' = [wrote EXCEPT ![o] = NothingWritten]

(* Logger::log writes each part of a new event once; sinks only read the   *)
(* copies.                                                                 *)
WritePart(o, part, length, item) ==
  /\ Live(o)
  /\ origin[o] = "constructed"
  /\ wrote[o][part] = NotWritten
  /\ Install(o, EncodePart(buf[o], part, length, item))
  /\ wrote' = [wrote EXCEPT ![o][part] =
                 [block |-> buf[o].cursor + 1 + length, at |-> buf[o].cursor,
                  length |-> length, item |-> item]]
  /\ UNCHANGED origin

(* What copying p into b makes of b: the cursor is advanced, not set, and  *)
(* the capacity is that of p, whatever was reserved.                       *)
Copied(b, p) ==
  LET r == Reserve(b, p.cursor)
  IN [place |-> r.place, block |-> r.block,
      bytes |-> PutBytes(r.bytes, 0, ReadBytes(p, p.cursor)),
      cap   |-> p.cap, cursor |-> r.cursor + p.cursor]

(* A faulty copy: the constructor that makes room for a header runs first. *)
CopyConstructAdvanced(o, p) ==
  /\ ~ Live(o)
  /\ Live(p) /\ origin[p] # "moved_from"
  /\ Install(o, Copied([NewBuffer EXCEPT !.cursor = HeaderSize], buf[p]))
  /\ origin' = [origin EXCEPT ![o] = "copied"]
  /\ wrote' = [wrote EXCEPT ![o] = wrote[p]]

(* The members of a new object are initialised before the assignment.      *)
CopyConstruct(o, p) ==
  /\ ~ Live(o)
  /\ Live(p) /\ origin[p] # "moved_from"
  /\ Install(o, Copied(NewBuffer, buf[p]))
  /\ origin' = [origin EXCEPT ![o] = "copied"]
  /\ wrote' = [wrote EXCEPT ![o] = wrote[p]]

(* Only to an object that was just constructed or written: a buffer whose  *)
(* storage was stolen has a null pointer and a capacity.                   *)
CopyAssign(o, p) ==
  /\ o # p
  /\ Live(o) /\ origin[o] = "constructed"
  /\ Live(p) /\ origin[p] # "moved_from"
  /\ Install(o, Copied(buf[o], buf[p]))
  /\ origin' = [origin EXCEPT ![o] = "assigned"]
  /\ wrote' = [wrote EXCEPT ![o] = wrote[p]]

(* What moving p into b makes of b: it takes over the storage of p, or     *)
(* copies it when it is inline.                                            *)
Moved(b, p) ==
  LET inline == IF b.place = "inline" THEN b.bytes ELSE InlineStorage
      stolen == p.place # "inline"
  IN [place  |-> p.place,
      block  |-> p.block,
      bytes  |-> IF stolen THEN p.bytes ELSE PutBytes(inline, 0, ReadBytes(p, p.cursor)),
      cap    |-> p.cap,
      cursor |-> b.cursor + p.cursor]

(* A faulty move: the source keeps its pointer.                            *)
KeepStorage(p) == p

(* The source of a move has no storage any more, but keeps its cursor and  *)
(* its capacity.                                                           *)
GiveStorage(p) ==
  IF p.place = "inline"
  THEN p
  ELSE [place |-> "null", block |-> NoBlock, bytes |-> <<>>, cap |-> p.cap, cursor |-> p.cursor]

(* The object at o, b so far, takes the content of p.  The queue moves an  *)
(* entry to the slot and from the slot to the thread that pops it, and no  *)
(* further: what was assigned to is not moved again.                       *)
Move(o, p, b) ==
  /\ o # p
  /\ Live(p) /\ origin[p] \in {"constructed", "copied"}
  /\ b.cursor + buf[p].cursor <= MaxCursor
  /\ buf' = [buf EXCEPT ![o] = Moved(b, buf[p]), ![p] = GiveStorage(buf[p])]
  /\ heap' = heap \ Owned(b)
  /\ wrote' = [wrote EXCEPT ![o] = wrote[p], ![p] = NothingWritten]

MoveConstruct(o, p) ==
  /\ ~ Live(o)
  /\ Move(o, p, NewBuffer)
  /\ origin' = [origin EXCEPT ![o] = "copied", ![p] = "moved_from"]

MoveAssign(o, p) ==
  /\ Live(o) /\ origin[o] \in {"constructed", "moved_from"}
  /\ Move(o, p, buf[o])
  /\ origin' = [origin EXCEPT ![o] = "assigned", ![p] = "moved_from"]

Destroy(o) ==
  /\ Live(o)
  /\ buf' = [buf EXCEPT ![o] = NoBuffer]
  /\ heap' = heap \ Owned(buf[o])
  /\ origin' = [origin EXCEPT ![o] = "none"]
  /\ wrote' = [wrote EXCEPT ![o] = NothingWritten]

Write(o) ==
  \E part \in Parts, length \in Lengths, item \in Items : WritePart(o, part, length, item)

Next ==
  \E o \in Objects :
    \/ Construct(o)
    \/ Write(o)
    \/ Destroy(o)
    \/ \E p \in Objects :
         \/ CopyConstruct(o, p)
         \/ CopyAssign(o, p)
         \/ MoveConstruct(o, p)
         \/ MoveAssign(o, p)

Spec == Init /\ [][Next]_vars

-----------------------------------------------------------------------------
(***************************************************************************)
(* Properties.                                                             *)
(***************************************************************************)

(* The fields of a buffer, and its storage: a sequence of bytes.           *)
IsBuffer(b) ==
  /\ b = [place |-> b.place, block |-> b.block, bytes |-> b.bytes,
          cap |-> b.cap, cursor |-> b.cursor]
  /\ Len(b.bytes) \in Nat
  /\ b.bytes = [i \in 1 .. Len(b.bytes) |-> b.bytes[i]]
  /\ b.place \in {"dead", "inline", "heap", "null"}
  /\ b.block \in Blocks \cup {NoBlock}
  /\ b.cap \in Nat \ {0}
  /\ b.cursor \in 0 .. MaxCursor

(* A part that was written.                                                *)
Writings == [block : Nat, at : Nat \ {0}, length : Nat, item : Items]

(* Every object is a buffer with a block of its kind; it is a part of      *)
(* BlocksHaveOneOwner.                                                     *)
TypeOK ==
  /\ DOMAIN buf = Objects
  /\ \A o \in Objects :
       /\ IsBuffer(buf[o])
       /\ buf[o].place = "heap" <=> buf[o].block # NoBlock
  /\ heap \subseteq Blocks
  /\ origin \in [Objects -> {"none", "constructed", "copied", "assigned", "moved_from"}]
  /\ wrote \in [Objects -> [Parts -> Writings \cup {NotWritten}]]

(* A heap block belongs to exactly one object, whatever was copied, moved, *)
(* grown and destroyed: none is leaked, freed twice or used after it was   *)
(* freed.                                                                  *)
BlocksHaveOneOwner ==
  /\ TypeOK
  /\ heap = UNION { Owned(buf[o]) : o \in Objects }
  /\ \A o, p \in Objects : o # p => Owned(buf[o]) \cap Owned(buf[p]) = {}

(* What the header, the block and the payload of a part must be for the    *)
(* event to read back as it was written.                                   *)
ReadsBack(b, part, w) ==
  LET byte == ReadBytes(b, w.block + 1)
  IN /\ byte[1] # Junk /\ byte[1][part] = w.block
     /\ byte[w.block + 1] = w.at
     /\ byte[w.at + 1] = w.length
     /\ \A i \in 1 .. w.length : byte[w.at + 1 + i] = w.item

(* A buffer that was written, copied or moved to reads back what was       *)
(* written, also after it has grown: the tests write, copy and move        *)
(* buffers "and keep offsets".                                             *)
OffsetsKept ==
  \A o \in Objects, part \in Parts :
    wrote[o][part] # NotWritten
      => ReadsBack(buf[o], part, wrote[o][part])

(* The storage of a buffer that was constructed, copied or moved to holds  *)
(* the bytes it claims, so that to copy or to move it again reads nothing  *)
(* else.  Only a buffer that was assigned to claims more.                  *)
StorageHoldsSize ==
  \A o \in Objects :
    origin[o] \in {"constructed", "copied"} => buf[o].cursor <= Len(buf[o].bytes)

=============================================================================
