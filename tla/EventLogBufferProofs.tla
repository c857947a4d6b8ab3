------------------------- MODULE EventLogBufferProofs -------------------------
(***************************************************************************)
(* Proofs about EventLogBuffer: the inductive invariant, and the theorems  *)
(* that follow from it, for every number of objects and blocks, every size *)
(* of the inline storage and all lengths of payloads.                      *)
(*                                                                         *)
(* An object at a time: Good says of one buffer, with its history, what    *)
(* the invariant asks of it.  The lemmas about the operations are about    *)
(* buffers, wherever they live.                                            *)
(***************************************************************************)
EXTENDS EventLogBuffer, SequenceTheorems, TLAPS

-----------------------------------------------------------------------------
(***************************************************************************)
(* Why the properties hold: the invariant that the steps keep.             *)
(***************************************************************************)

(* An object that was destroyed has no content; the source of a move has   *)
(* lost its own.                                                           *)
Places ==
  \A o \in Objects :
    /\ Live(o) <=> origin[o] # "none"
    /\ buf[o].place = "inline" => Len(buf[o].bytes) = N
    /\ origin[o] \in {"constructed", "copied", "assigned"} => buf[o].place \in {"inline", "heap"}
    /\ origin[o] = "moved_from" => buf[o].place \in {"inline", "null"}
    /\ origin[o] \in {"none", "moved_from"} => wrote[o] = NothingWritten

(* Only what was constructed grows, and its capacity is what it has.       *)
CapacityIsSize ==
  \A o \in Objects : origin[o] = "constructed" => buf[o].cap = Len(buf[o].bytes)

(* Whatever was constructed, copied or moved to has a header.              *)
HasHeader ==
  \A o \in Objects :
    origin[o] \in {"constructed", "copied", "assigned"} =>
      /\ buf[o].cursor >= 1
      /\ Len(buf[o].bytes) >= 1
      /\ buf[o].bytes[1] \in [Parts -> Nat]

(* A part lies in the storage, behind the header and before the cursor.    *)
PartsInside ==
  \A o \in Objects, part \in Parts :
    wrote[o][part] # NotWritten =>
      /\ wrote[o][part].block = wrote[o][part].at + 1 + wrote[o][part].length
      /\ wrote[o][part].block < buf[o].cursor
      /\ wrote[o][part].block < Len(buf[o].bytes)

IInv ==
  /\ BlocksHaveOneOwner
  /\ Places
  /\ CapacityIsSize
  /\ HasHeader
  /\ StorageHoldsSize
  /\ PartsInside
  /\ OffsetsKept

-----------------------------------------------------------------------------
(***************************************************************************)
(* Bytes.                                                                  *)
(***************************************************************************)

(* A table of n values is a sequence of length n.                          *)
LEMMA Table ==
  ASSUME NEW n \in Nat, NEW f, f = [i \in 1 .. n |-> f[i]]
  PROVE  Len(f) = n
<1> DEFINE S == { f[i] : i \in 1 .. n }
<1>1. f \in [1 .. n -> S]
  OBVIOUS
<1>2. f \in Seq(S)
  BY <1>1, SeqDef
<1>3. DOMAIN f = 1 .. n
  BY <1>1
<1> QED
  BY <1>2, <1>3, LenProperties

(* Storage: a sequence of bytes, of whatever value.                        *)
IsBytes(s) ==
  /\ Len(s) \in Nat
  /\ s = [i \in 1 .. Len(s) |-> s[i]]

(* Reading gives as many bytes as one asks for.                            *)
LEMMA Read ==
  ASSUME NEW b, NEW n \in Nat
  PROVE  /\ IsBytes(ReadBytes(b, n)) /\ Len(ReadBytes(b, n)) = n
         /\ \A i \in 1 .. n :
              ReadBytes(b, n)[i] = IF i <= Len(b.bytes) THEN b.bytes[i] ELSE Junk
<1> DEFINE s == ReadBytes(b, n)
<1>1. /\ s = [i \in 1 .. n |-> s[i]]
      /\ \A i \in 1 .. n : s[i] = IF i <= Len(b.bytes) THEN b.bytes[i] ELSE Junk
  BY DEF ReadBytes
<1>2. Len(s) = n
  BY <1>1, Table
<1> QED
  BY <1>1, <1>2 DEF IsBytes

(* Writing changes the bytes from the index on, and no more than there are.*)
Patched(r, s, index, data) ==
  /\ IsBytes(r)
  /\ Len(r) = Len(s)
  /\ \A i \in 1 .. Len(s) :
       r[i] = IF i - index \in 1 .. Len(data) THEN data[i - index] ELSE s[i]

LEMMA Written ==
  ASSUME NEW s, IsBytes(s), NEW index \in Nat, NEW data, Len(data) \in Nat
  PROVE  Patched(PutBytes(s, index, data), s, index, data)
<1> DEFINE r == PutBytes(s, index, data)
<1>1. Len(s) \in Nat
  BY DEF IsBytes
<1>2. /\ r = [i \in 1 .. Len(s) |-> r[i]]
      /\ \A i \in 1 .. Len(s) :
           r[i] = IF i - index \in 1 .. Len(data) THEN data[i - index] ELSE s[i]
  BY DEF PutBytes
<1>3. Len(r) = Len(s)
  BY <1>1, <1>2, Table
<1>4. IsBytes(r)
  BY <1>1, <1>2, <1>3 DEF IsBytes
<1> HIDE DEF r
<1>5. Patched(r, s, index, data)
  BY <1>2, <1>3, <1>4 DEF Patched
<1> QED
  BY <1>5 DEF r

-----------------------------------------------------------------------------
(***************************************************************************)
(* Growing and encoding.                                                   *)
(***************************************************************************)

(* A buffer while an operation works on it: new storage has no block yet,  *)
(* and nobody has looked at the cursor.                                    *)
Draft(b) ==
  /\ b = [place |-> b.place, block |-> b.block, bytes |-> b.bytes,
          cap |-> b.cap, cursor |-> b.cursor]
  /\ IsBytes(b.bytes)
  /\ b.place \in {"dead", "inline", "heap", "null"}
  /\ b.block \in Blocks \cup {NoBlock}
  /\ b.cap \in Nat \ {0}
  /\ b.cursor \in Nat

(* What an operation makes of the storage of b.                            *)
SameStorage(r, b) == r.place = b.place /\ r.block = b.block /\ Len(r.bytes) = Len(b.bytes)
NewStorage(r) == r.place = "heap" /\ r.block = NoBlock

LEMMA BufferIsDraft ==
  ASSUME NEW b, IsBuffer(b)
  PROVE  Draft(b)
BY DEF IsBuffer, Draft, IsBytes

(* A buffer that differs in one field.                                     *)
LEMMA Changed ==
  ASSUME NEW b, Draft(b), NEW x
  PROVE  /\ [b EXCEPT !.bytes = x] =
              [place |-> b.place, block |-> b.block, bytes |-> x,
               cap |-> b.cap, cursor |-> b.cursor]
         /\ [b EXCEPT !.block = x] =
              [place |-> b.place, block |-> x, bytes |-> b.bytes,
               cap |-> b.cap, cursor |-> b.cursor]
<1>1. \E p, q, r, s, t :
        b = [place |-> p, block |-> q, bytes |-> r, cap |-> s, cursor |-> t]
  BY Zenon DEF Draft
<1>2. PICK p, q, r, s, t :
        b = [place |-> p, block |-> q, bytes |-> r, cap |-> s, cursor |-> t]
  BY <1>1, Zenon
<1> QED
  BY <1>2

(* Growing keeps the bytes before the cursor.                              *)
LEMMA Reserved ==
  ASSUME NEW b, Draft(b), NEW c \in Nat
  PROVE  LET r == Reserve(b, c)
         IN /\ Draft(r)
            /\ r.cursor = b.cursor
            /\ r = b \/ NewStorage(r)
            /\ b.cap = Len(b.bytes) => r.cap = Len(r.bytes) /\ c <= r.cap
            /\ b.cap = Len(b.bytes) => \A i \in 1 .. b.cursor : i <= b.cap => r.bytes[i] = b.bytes[i]
<1> DEFINE n == IF 2 * b.cap < c THEN c ELSE 2 * b.cap
           data == [i \in 1 .. n |-> Junk]
           old == ReadBytes(b, b.cursor)
           s == PutBytes(data, 0, old)
<1>1. /\ b.cap \in Nat \ {0} /\ b.cursor \in Nat /\ IsBytes(b.bytes) /\ Len(b.bytes) \in Nat
      /\ n \in Nat \ {0}
  BY DEF Draft, IsBytes
<1>2. CASE c <= b.cap
  <2>1. Reserve(b, c) = b
    BY <1>2 DEF Reserve
  <2> QED
    BY <1>1, <1>2, <2>1
<1>3. CASE ~ (c <= b.cap)
  <2>1. Reserve(b, c) = [place |-> "heap", block |-> NoBlock, bytes |-> s,
                         cap |-> n, cursor |-> b.cursor]
    BY <1>3 DEF Reserve
  <2>2. IsBytes(data) /\ Len(data) = n
    <3>1. data = [i \in 1 .. n |-> data[i]]
      OBVIOUS
    <3>2. Len(data) = n
      BY <1>1, <3>1, Table
    <3> QED
      BY <1>1, <3>1, <3>2 DEF IsBytes
  <2>3. /\ Len(old) = b.cursor
        /\ \A i \in 1 .. b.cursor : old[i] = IF i <= Len(b.bytes) THEN b.bytes[i] ELSE Junk
    BY <1>1, Read
  <2> HIDE DEF data, old
  <2>4. /\ IsBytes(s) /\ Len(s) = n
        /\ \A i \in 1 .. n : s[i] = IF i - 0 \in 1 .. b.cursor THEN old[i - 0] ELSE data[i]
    <3>1. Len(old) \in Nat /\ 0 \in Nat
      BY <1>1, <2>3
    <3>2. Patched(s, data, 0, old)
      BY <2>2, <3>1, Written, Zenon
    <3> QED
      BY <2>2, <2>3, <3>2 DEF Patched
  <2> HIDE DEF s, n
  <2>6. b.cap = Len(b.bytes) => \A i \in 1 .. b.cursor : i <= b.cap => s[i] = b.bytes[i]
    <3> SUFFICES ASSUME b.cap = Len(b.bytes), NEW i \in 1 .. b.cursor, i <= b.cap
                 PROVE  s[i] = b.bytes[i]
      OBVIOUS
    <3>1. i \in 1 .. n /\ i - 0 = i
      BY <1>1, <1>3 DEF n
    <3> QED
      BY <1>1, <2>3, <2>4, <3>1
  <2>7. c <= n
    BY <1>1 DEF n
  <2> QED
    BY <1>1, <2>1, <2>4, <2>6, <2>7 DEF Draft, NewStorage
<1> QED
  BY <1>2, <1>3

(* Writing at the cursor, in storage that is as large as it claims, keeps  *)
(* what is before the cursor.                                              *)
LEMMA Encoding ==
  ASSUME NEW b, Draft(b), b.cap = Len(b.bytes), b.cursor <= b.cap,
         NEW data, Len(data) \in Nat
  PROVE  LET r == Encode(b, data)
         IN /\ Draft(r)
            /\ r.cap = Len(r.bytes)
            /\ r.cursor = b.cursor + Len(data)
            /\ r.cursor <= r.cap
            /\ SameStorage(r, b) \/ NewStorage(r)
            /\ \A i \in 1 .. b.cursor : r.bytes[i] = b.bytes[i]
            /\ \A i \in 1 .. Len(data) : r.bytes[b.cursor + i] = data[i]
<1> DEFINE g == Reserve(b, b.cursor + Len(data))
           s == PutBytes(g.bytes, g.cursor, data)
           r == Encode(b, data)
<1>1. b.cursor \in Nat /\ b.cap \in Nat /\ b.cursor + Len(data) \in Nat
  BY DEF Draft
<1>2. /\ Draft(g)
      /\ g.cursor = b.cursor
      /\ g = b \/ NewStorage(g)
      /\ g.cap = Len(g.bytes) /\ b.cursor + Len(data) <= g.cap
      /\ \A i \in 1 .. b.cursor : i <= b.cap => g.bytes[i] = b.bytes[i]
  BY <1>1, Reserved
<1>3. r = [place |-> g.place, block |-> g.block, bytes |-> s,
           cap |-> g.cap, cursor |-> g.cursor + Len(data)]
  BY DEF Encode
<1> HIDE DEF g, r
<1>4. /\ IsBytes(s) /\ Len(s) = Len(g.bytes)
      /\ \A i \in 1 .. Len(g.bytes) :
           s[i] = IF i - b.cursor \in 1 .. Len(data) THEN data[i - b.cursor] ELSE g.bytes[i]
  <2>1. IsBytes(g.bytes) /\ g.cursor \in Nat
    BY <1>1, <1>2 DEF Draft
  <2>2. Patched(s, g.bytes, g.cursor, data)
    BY <2>1, Written, Zenon
  <2> QED
    BY <1>2, <2>2 DEF Patched
<1> HIDE DEF s
<1>5. Draft(r) /\ r.bytes = s /\ r.cap = Len(s) /\ r.cursor = b.cursor + Len(data)
  BY <1>1, <1>2, <1>3, <1>4 DEF Draft
<1>6. SameStorage(r, b) \/ NewStorage(r)
  BY <1>2, <1>3, <1>4 DEF SameStorage, NewStorage
<1>7. ASSUME NEW i \in 1 .. b.cursor
      PROVE  s[i] = b.bytes[i]
  <2>1. i \in 1 .. Len(g.bytes) /\ i <= b.cap /\ i - b.cursor \notin 1 .. Len(data)
    BY <1>1, <1>2
  <2> QED
    BY <1>2, <1>4, <2>1
<1>8. ASSUME NEW i \in 1 .. Len(data)
      PROVE  s[b.cursor + i] = data[i]
  <2>1. b.cursor + i \in 1 .. Len(g.bytes) /\ (b.cursor + i) - b.cursor = i
    BY <1>1, <1>2
  <2> QED
    BY <1>4, <2>1
<1> QED
  BY <1>1, <1>2, <1>4, <1>5, <1>6, <1>7, <1>8 DEF r

(* A part is written behind the cursor, and the header says where.         *)
PartEncoded(r, b, part, length, item) ==
  /\ Draft(r)
  /\ r.cap = Len(r.bytes)
  /\ r.cursor = b.cursor + length + 2
  /\ r.cursor <= r.cap
  /\ SameStorage(r, b) \/ NewStorage(r)
  /\ r.bytes[1] = [b.bytes[1] EXCEPT ![part] = b.cursor + 1 + length]
  /\ \A i \in 2 .. b.cursor : r.bytes[i] = b.bytes[i]
  /\ r.bytes[b.cursor + 1] = length
  /\ \A i \in 1 .. length : r.bytes[b.cursor + 1 + i] = item
  /\ r.bytes[b.cursor + length + 2] = b.cursor

LEMMA EncodingPart ==
  ASSUME NEW b, Draft(b), b.cap = Len(b.bytes), b.cursor <= b.cap, 1 <= b.cursor,
         NEW part, NEW length \in Nat, NEW item
  PROVE  PartEncoded(EncodePart(b, part, length, item), b, part, length, item)
<1> DEFINE c == b.cursor
           items == [i \in 1 .. length |-> item]
           e == Encode(b, <<length>>)
           payload == Encode(e, items)
           block == Encode(payload, <<c>>)
           header == [block.bytes[1] EXCEPT ![part] = payload.cursor]
           s == PutBytes(block.bytes, 0, <<header>>)
           r == EncodePart(b, part, length, item)
<1>1. c \in Nat /\ b.cap \in Nat
  BY DEF Draft
<1>2. /\ Draft(e) /\ e.cap = Len(e.bytes) /\ e.cursor = c + 1 /\ e.cursor <= e.cap
      /\ SameStorage(e, b) \/ NewStorage(e)
      /\ \A i \in 1 .. c : e.bytes[i] = b.bytes[i]
      /\ e.bytes[c + 1] = length
  <2> DEFINE data == <<length>>
  <2>1. Len(data) = 1 /\ data[1] = length /\ 1 \in 1 .. Len(data)
    OBVIOUS
  <2>2. e = Encode(b, data)
    OBVIOUS
  <2> HIDE DEF data, e
  <2>3. Len(data) \in Nat
    BY <2>1
  <2>4. /\ Draft(e) /\ e.cap = Len(e.bytes) /\ e.cursor = c + Len(data) /\ e.cursor <= e.cap
        /\ SameStorage(e, b) \/ NewStorage(e)
        /\ \A i \in 1 .. c : e.bytes[i] = b.bytes[i]
        /\ \A i \in 1 .. Len(data) : e.bytes[c + i] = data[i]
    BY <2>2, <2>3, Encoding
  <2> QED
    BY <2>1, <2>4
<1>3. Len(items) = length /\ \A i \in 1 .. length : items[i] = item
  <2>1. items = [i \in 1 .. length |-> items[i]] /\ \A i \in 1 .. length : items[i] = item
    OBVIOUS
  <2> HIDE DEF items
  <2> QED
    BY <2>1, Table
<1> HIDE DEF e, items
<1>4. /\ Draft(payload) /\ payload.cap = Len(payload.bytes)
      /\ payload.cursor = c + 1 + length /\ payload.cursor <= payload.cap
      /\ SameStorage(payload, e) \/ NewStorage(payload)
      /\ \A i \in 1 .. c + 1 : payload.bytes[i] = e.bytes[i]
      /\ \A i \in 1 .. length : payload.bytes[c + 1 + i] = item
  <2>a. payload = Encode(e, items)
    OBVIOUS
  <2> HIDE DEF payload
  <2>b. Len(items) \in Nat
    BY <1>3
  <2>c. Draft(e) /\ e.cap = Len(e.bytes) /\ e.cursor <= e.cap
    BY <1>2
  <2>1. /\ Draft(payload) /\ payload.cap = Len(payload.bytes)
        /\ payload.cursor = e.cursor + Len(items) /\ payload.cursor <= payload.cap
        /\ SameStorage(payload, e) \/ NewStorage(payload)
        /\ \A i \in 1 .. e.cursor : payload.bytes[i] = e.bytes[i]
        /\ \A i \in 1 .. Len(items) : payload.bytes[e.cursor + i] = items[i]
    BY <2>a, <2>b, <2>c, Encoding
  <2> QED
    BY <1>1, <1>2, <1>3, <2>1
<1> HIDE DEF payload
<1>5. /\ Draft(block) /\ block.cap = Len(block.bytes)
      /\ block.cursor = c + length + 2 /\ block.cursor <= block.cap
      /\ SameStorage(block, payload) \/ NewStorage(block)
      /\ \A i \in 1 .. c + 1 + length : block.bytes[i] = payload.bytes[i]
      /\ block.bytes[c + length + 2] = c
  <2> DEFINE data == <<c>>
  <2>1. Len(data) = 1 /\ data[1] = c /\ 1 \in 1 .. Len(data)
    OBVIOUS
  <2>2. block = Encode(payload, data)
    OBVIOUS
  <2> HIDE DEF data, block
  <2>3. Len(data) \in Nat
    BY <2>1
  <2>c. Draft(payload) /\ payload.cap = Len(payload.bytes) /\ payload.cursor <= payload.cap
    BY <1>4
  <2>4. /\ Draft(block) /\ block.cap = Len(block.bytes)
        /\ block.cursor = payload.cursor + Len(data) /\ block.cursor <= block.cap
        /\ SameStorage(block, payload) \/ NewStorage(block)
        /\ \A i \in 1 .. payload.cursor : block.bytes[i] = payload.bytes[i]
        /\ \A i \in 1 .. Len(data) : block.bytes[payload.cursor + i] = data[i]
    BY <2>2, <2>3, <2>c, Encoding
  <2>5. payload.cursor + 1 = c + length + 2
    BY <1>1, <1>4
  <2> QED
    BY <1>4, <2>1, <2>4, <2>5
<1> HIDE DEF block
<1>6. Len(block.bytes) \in Nat /\ Len(block.bytes) >= 2 /\ block.bytes # <<>>
  <2>1. Len(block.bytes) \in Nat /\ Len(block.bytes) >= 2
    BY <1>1, <1>5 DEF Draft, IsBytes
  <2>2. Len(<<>>) = 0
    OBVIOUS
  <2> QED
    BY <2>1, <2>2
<1>7. r = [block EXCEPT !.bytes = s]
  <2>1. \E p, q, x, y, z : block = [place |-> p, block |-> q, bytes |-> x, cap |-> y, cursor |-> z]
    BY <1>5, Zenon DEF Draft
  <2>2. r = SetHeader(block, part, payload.cursor)
    BY DEF EncodePart, EncodeString, e, payload, block, items
  <2> HIDE DEF r
  <2> QED
    BY <1>6, <2>1, <2>2 DEF SetHeader
<1> HIDE DEF r
<1>8. r = [place |-> block.place, block |-> block.block, bytes |-> s,
           cap |-> block.cap, cursor |-> block.cursor]
  BY <1>5, <1>7, Changed
<1>9. /\ IsBytes(s) /\ Len(s) = Len(block.bytes)
      /\ s[1] = header
      /\ \A i \in 2 .. Len(block.bytes) : s[i] = block.bytes[i]
  <2> DEFINE data == <<header>>
  <2>1. Len(data) = 1 /\ data[1] = header
    OBVIOUS
  <2>2. s = PutBytes(block.bytes, 0, data)
    OBVIOUS
  <2> HIDE DEF data, s, header
  <2>3. /\ IsBytes(s) /\ Len(s) = Len(block.bytes)
        /\ \A i \in 1 .. Len(block.bytes) :
             s[i] = IF i - 0 \in 1 .. Len(data) THEN data[i - 0] ELSE block.bytes[i]
    <3>1. IsBytes(block.bytes) /\ Len(data) \in Nat /\ 0 \in Nat
      BY <1>5, <2>1 DEF Draft
    <3>2. Patched(s, block.bytes, 0, data)
      BY <2>2, <3>1, Written, Zenon
    <3> QED
      BY <3>2 DEF Patched
  <2>4. ASSUME NEW i \in 1 .. Len(block.bytes)
        PROVE  s[i] = IF i = 1 THEN header ELSE block.bytes[i]
    <3>1. i - 0 = i /\ (i \in 1 .. Len(data) <=> i = 1)
      BY <1>6, <2>1
    <3> QED
      BY <2>1, <2>3, <3>1
  <2> QED
    <3>1. 1 \in 1 .. Len(block.bytes) /\ \A i \in 2 .. Len(block.bytes) : i \in 1 .. Len(block.bytes) /\ i # 1
      BY <1>6
    <3> QED
      BY <2>3, <2>4, <3>1
<1> HIDE DEF s
<1>10. header = [b.bytes[1] EXCEPT ![part] = c + 1 + length]
  <2>1. 1 \in 1 .. c /\ 1 \in 1 .. c + 1 /\ 1 \in 1 .. c + 1 + length
    BY <1>1
  <2>2. block.bytes[1] = payload.bytes[1] /\ payload.bytes[1] = e.bytes[1] /\ e.bytes[1] = b.bytes[1]
    BY <1>2, <1>4, <1>5, <2>1
  <2>3. block.bytes[1] = b.bytes[1] /\ payload.cursor = c + 1 + length
    BY <1>4, <2>2
  <2> QED
    BY <2>3, Zenon
<1> HIDE DEF header
<1>11. Draft(r) /\ r.bytes = s /\ r.cap = Len(s) /\ r.cursor = c + length + 2 /\ r.cursor <= r.cap
  BY <1>5, <1>8, <1>9 DEF Draft
<1>12. SameStorage(r, b) \/ NewStorage(r)
  <2>1. r.place = block.place /\ r.block = block.block /\ Len(r.bytes) = Len(block.bytes)
    BY <1>8, <1>9
  <2> QED
    BY <1>2, <1>4, <1>5, <2>1 DEF SameStorage, NewStorage
<1>13. /\ \A i \in 2 .. c : s[i] = b.bytes[i]
       /\ s[c + 1] = length
       /\ \A i \in 1 .. length : s[c + 1 + i] = item
       /\ s[c + length + 2] = c
  <2>1. \A i \in 2 .. c + length + 2 : s[i] = block.bytes[i]
    <3>1. \A i \in 2 .. c + length + 2 : i \in 2 .. Len(block.bytes)
      BY <1>1, <1>5, <1>6
    <3> QED
      BY <1>9, <3>1
  <2>2. \A i \in 2 .. c + length + 1 : s[i] = payload.bytes[i]
    BY <1>1, <1>5, <2>1
  <2>3. \A i \in 2 .. c + 1 : s[i] = e.bytes[i]
    BY <1>1, <1>4, <2>2
  <2>4. \A i \in 2 .. c : s[i] = b.bytes[i]
    BY <1>1, <1>2, <2>3
  <2>5. s[c + 1] = length
    BY <1>1, <1>2, <2>3
  <2>6. s[c + length + 2] = c
    BY <1>1, <1>5, <2>1
  <2>7. ASSUME NEW i \in 1 .. length
        PROVE  s[c + 1 + i] = item
    <3>1. c + 1 + i \in 2 .. c + length + 1
      BY <1>1
    <3> QED
      BY <1>4, <2>2, <3>1
  <2> QED
    BY <2>4, <2>5, <2>6, <2>7
<1> QED
  BY <1>9, <1>10, <1>11, <1>12, <1>13, Zenon DEF r, PartEncoded

-----------------------------------------------------------------------------
(***************************************************************************)
(* Copying and moving.                                                     *)
(***************************************************************************)

(* A copy has the bytes before the cursor of p.                            *)
LEMMA Copying ==
  ASSUME NEW b, Draft(b), b.cap = Len(b.bytes), NEW p, Draft(p)
  PROVE  LET r == Copied(b, p)
         IN /\ Draft(r)
            /\ r.cap = p.cap
            /\ r.cursor = b.cursor + p.cursor
            /\ p.cursor <= Len(r.bytes)
            /\ SameStorage(r, b) \/ NewStorage(r)
            /\ \A i \in 1 .. p.cursor :
                 r.bytes[i] = IF i <= Len(p.bytes) THEN p.bytes[i] ELSE Junk
<1> DEFINE g == Reserve(b, p.cursor)
           data == ReadBytes(p, p.cursor)
           s == PutBytes(g.bytes, 0, data)
           r == Copied(b, p)
<1>1. /\ p.cursor \in Nat /\ p.cap \in Nat \ {0} /\ b.cursor \in Nat
  BY DEF Draft
<1>2. /\ Draft(g) /\ g.cursor = b.cursor
      /\ g = b \/ NewStorage(g)
      /\ p.cursor <= Len(g.bytes)
  <2>1. /\ Draft(g) /\ g.cursor = b.cursor
        /\ g = b \/ NewStorage(g)
        /\ g.cap = Len(g.bytes) /\ p.cursor <= g.cap
    BY <1>1, Reserved
  <2> QED
    BY <2>1
<1>3. /\ Len(data) = p.cursor
      /\ \A i \in 1 .. p.cursor : data[i] = IF i <= Len(p.bytes) THEN p.bytes[i] ELSE Junk
  BY <1>1, Read
<1>4. r = [place |-> g.place, block |-> g.block, bytes |-> s,
           cap |-> p.cap, cursor |-> g.cursor + p.cursor]
  BY DEF Copied
<1> HIDE DEF g, data, r
<1>5. /\ IsBytes(s) /\ Len(s) = Len(g.bytes)
      /\ \A i \in 1 .. Len(g.bytes) :
           s[i] = IF i - 0 \in 1 .. Len(data) THEN data[i - 0] ELSE g.bytes[i]
  <2>1. IsBytes(g.bytes) /\ Len(data) \in Nat /\ 0 \in Nat
    BY <1>1, <1>2, <1>3 DEF Draft
  <2>2. Patched(s, g.bytes, 0, data)
    BY <2>1, Written, Zenon
  <2> QED
    BY <2>2 DEF Patched
<1> HIDE DEF s
<1>6. Len(g.bytes) \in Nat
  BY <1>2 DEF Draft, IsBytes
<1>7. ASSUME NEW i \in 1 .. p.cursor
      PROVE  s[i] = IF i <= Len(p.bytes) THEN p.bytes[i] ELSE Junk
  <2>1. i \in 1 .. Len(g.bytes) /\ i - 0 = i /\ i \in 1 .. Len(data)
    BY <1>1, <1>2, <1>3, <1>6
  <2> QED
    BY <1>3, <1>5, <2>1
<1>8. Draft(r) /\ r.bytes = s /\ r.cap = p.cap /\ r.cursor = b.cursor + p.cursor
  BY <1>1, <1>2, <1>4, <1>5 DEF Draft
<1>9. SameStorage(r, b) \/ NewStorage(r)
  BY <1>2, <1>4, <1>5 DEF SameStorage, NewStorage
<1> QED
  BY <1>2, <1>5, <1>7, <1>8, <1>9 DEF r

-----------------------------------------------------------------------------
(***************************************************************************)
(* The content of a buffer: its header, and the parts that were written.   *)
(***************************************************************************)
PartsOf == [Parts -> Writings \cup {NotWritten}]

HeaderOf(b) == b.cursor >= 1 /\ Len(b.bytes) >= 1 /\ b.bytes[1] \in [Parts -> Nat]

Inside(b, w) ==
  /\ w.block = w.at + 1 + w.length
  /\ w.block < b.cursor
  /\ w.block < Len(b.bytes)

Content(b, w) ==
  \A part \in Parts :
    w[part] # NotWritten => Inside(b, w[part]) /\ ReadsBack(b, part, w[part])

(* The bytes that make up a part.                                          *)
Bytes(b, part, w) ==
  /\ b.bytes[1] # Junk /\ b.bytes[1][part] = w.block
  /\ b.bytes[w.block + 1] = w.at
  /\ b.bytes[w.at + 1] = w.length
  /\ \A i \in 1 .. w.length : b.bytes[w.at + 1 + i] = w.item

(* The bytes of a part lie behind the header and before what it is inside  *)
(* of.                                                                     *)
LEMMA Positions ==
  ASSUME NEW block \in Nat, NEW at \in Nat, at # 0, NEW length \in Nat, NEW c \in Nat,
         block = at + 1 + length, block < c
  PROVE  /\ block + 1 \in 2 .. c /\ at + 1 \in 2 .. c
         /\ \A i \in 1 .. length : at + 1 + i \in 2 .. c
OBVIOUS

(* What lies inside the storage is read from there.                        *)
LEMMA ReadsBackIs ==
  ASSUME NEW b, Len(b.bytes) \in Nat, NEW part, NEW w,
         w.block \in Nat, w.at \in Nat, w.length \in Nat,
         w.block = w.at + 1 + w.length, w.block < Len(b.bytes)
  PROVE  ReadsBack(b, part, w) <=> Bytes(b, part, w)
<1> DEFINE byte == ReadBytes(b, w.block + 1)
<1>1. \A i \in 1 .. w.block + 1 : byte[i] = b.bytes[i]
  BY Read
<1> HIDE DEF byte
<1>2. byte[1] = b.bytes[1]
  <2>1. 1 \in 1 .. w.block + 1
    OBVIOUS
  <2> QED
    BY <1>1, <2>1
<1>3. byte[w.block + 1] = b.bytes[w.block + 1] /\ byte[w.at + 1] = b.bytes[w.at + 1]
  <2>1. w.block + 1 \in 1 .. w.block + 1 /\ w.at + 1 \in 1 .. w.block + 1
    OBVIOUS
  <2> QED
    BY <1>1, <2>1
<1>4. \A i \in 1 .. w.length : byte[w.at + 1 + i] = b.bytes[w.at + 1 + i]
  <2>1. \A i \in 1 .. w.length : w.at + 1 + i \in 1 .. w.block + 1
    OBVIOUS
  <2> QED
    BY <1>1, <2>1
<1>5. ReadsBack(b, part, w) <=>
        /\ byte[1] # Junk /\ byte[1][part] = w.block
        /\ byte[w.block + 1] = w.at
        /\ byte[w.at + 1] = w.length
        /\ \A i \in 1 .. w.length : byte[w.at + 1 + i] = w.item
  BY DEF ReadsBack, byte
<1> QED
  BY <1>2, <1>3, <1>4, <1>5 DEF Bytes

(* The numbers of a part that was written.                                 *)
LEMMA WritingFacts ==
  ASSUME NEW w \in PartsOf, NEW part \in Parts, w[part] # NotWritten
  PROVE  /\ w[part].block \in Nat /\ w[part].at \in Nat \ {0}
         /\ w[part].length \in Nat /\ w[part].item \in Items
<1>1. w[part] \in Writings
  BY DEF PartsOf
<1> QED
  BY <1>1 DEF Writings

(* A buffer with the bytes of another has its content.                     *)
LEMMA SameContent ==
  ASSUME NEW p, NEW c, NEW w \in PartsOf,
         p.cursor \in Nat, Len(p.bytes) \in Nat,
         c.cursor \in Nat, Len(c.bytes) \in Nat, p.cursor <= c.cursor,
         \A i \in 1 .. p.cursor :
           i <= Len(p.bytes) => i <= Len(c.bytes) /\ c.bytes[i] = p.bytes[i],
         HeaderOf(p), Content(p, w)
  PROVE  HeaderOf(c) /\ Content(c, w)
<1>1. HeaderOf(c)
  BY DEF HeaderOf
<1>2. ASSUME NEW part \in Parts, w[part] # NotWritten
      PROVE  Inside(c, w[part]) /\ ReadsBack(c, part, w[part])
  <2> DEFINE v == w[part]
  <2>1. v.block \in Nat /\ v.at \in Nat /\ v.at # 0 /\ v.length \in Nat
    BY <1>2, WritingFacts
  <2>2. Inside(p, v) /\ ReadsBack(p, part, v)
    BY <1>2 DEF Content
  <2> HIDE DEF v
  <2>3. v.block = v.at + 1 + v.length /\ v.block < p.cursor /\ v.block < Len(p.bytes)
    BY <2>2 DEF Inside
  <2>4. Bytes(p, part, v)
    BY <2>1, <2>2, <2>3, ReadsBackIs
  <2>5. \A i \in 1 .. v.block + 1 : i <= Len(c.bytes) /\ c.bytes[i] = p.bytes[i]
    BY <2>1, <2>3
  <2>6. v.block < Len(c.bytes) /\ v.block < c.cursor
    <3>1. v.block + 1 \in 1 .. v.block + 1
      BY <2>1
    <3> QED
      BY <2>1, <2>3, <2>5, <3>1
  <2>7. Bytes(c, part, v)
    <3>1. /\ 1 \in 1 .. v.block + 1 /\ v.block + 1 \in 1 .. v.block + 1
          /\ v.at + 1 \in 1 .. v.block + 1
          /\ \A i \in 1 .. v.length : v.at + 1 + i \in 1 .. v.block + 1
      BY <2>1, <2>3
    <3> QED
      BY <2>4, <2>5, <3>1 DEF Bytes
  <2>8. ReadsBack(c, part, v)
    BY <2>1, <2>3, <2>6, <2>7, ReadsBackIs
  <2> QED
    BY <2>3, <2>6, <2>8 DEF Inside, v
<1> QED
  BY <1>1, <1>2 DEF Content

(* Nothing was written: nothing has to be read back.                       *)
LEMMA NoContent ==
  ASSUME NEW b
  PROVE  Content(b, NothingWritten) /\ NothingWritten \in PartsOf
BY DEF Content, NothingWritten, PartsOf

(* Writing a part adds it to the content.                                  *)
LEMMA PartWritten ==
  ASSUME NEW b, Draft(b), b.cap = Len(b.bytes), b.cursor <= b.cap,
         HeaderOf(b), NEW w \in PartsOf, Content(b, w),
         NEW part \in Parts, NEW length \in Nat, NEW item \in Items, w[part] = NotWritten
  PROVE  LET r == EncodePart(b, part, length, item)
             v == [w EXCEPT ![part] = [block |-> b.cursor + 1 + length, at |-> b.cursor,
                                       length |-> length, item |-> item]]
         IN v \in PartsOf /\ HeaderOf(r) /\ Content(r, v)
<1> DEFINE r == EncodePart(b, part, length, item)
           c == b.cursor
           new == [block |-> c + 1 + length, at |-> c, length |-> length, item |-> item]
           v == [w EXCEPT ![part] = new]
<1>1. /\ c \in Nat /\ c >= 1 /\ b.cap \in Nat /\ Len(b.bytes) \in Nat
      /\ b.bytes[1] \in [Parts -> Nat]
  BY DEF Draft, HeaderOf
<1>2. /\ Draft(r) /\ r.cap = Len(r.bytes)
      /\ r.cursor = c + length + 2 /\ r.cursor <= r.cap
      /\ r.bytes[1] = [b.bytes[1] EXCEPT ![part] = c + 1 + length]
      /\ \A i \in 2 .. c : r.bytes[i] = b.bytes[i]
      /\ r.bytes[c + 1] = length
      /\ \A i \in 1 .. length : r.bytes[c + 1 + i] = item
      /\ r.bytes[c + length + 2] = c
  <2>1. r = EncodePart(b, part, length, item) /\ 1 <= b.cursor
    BY <1>1
  <2>2. PartEncoded(r, b, part, length, item)
    BY <2>1, EncodingPart, Zenon
  <2> HIDE DEF r
  <2> QED
    BY <2>2, Zenon DEF PartEncoded
<1> HIDE DEF r
<1>3. new \in Writings
  BY <1>1 DEF Writings
<1>4. /\ new.block = c + 1 + length /\ new.at = c /\ new.length = length /\ new.item = item
  OBVIOUS
<1> HIDE DEF new
<1>5. v \in PartsOf
  BY <1>3 DEF PartsOf
<1>6. /\ v[part] = new
      /\ \A other \in Parts : other # part => v[other] = w[other]
  BY DEF PartsOf
<1> HIDE DEF v
<1>7. Len(r.bytes) \in Nat /\ Len(r.bytes) >= c + length + 2 /\ r.cursor \in Nat
  BY <1>1, <1>2 DEF Draft
<1>8. /\ r.bytes[1] \in [Parts -> Nat]
      /\ r.bytes[1][part] = c + 1 + length
      /\ \A other \in Parts : other # part => r.bytes[1][other] = b.bytes[1][other]
  <2>1. c + 1 + length \in Nat
    BY <1>1
  <2> QED
    BY <1>1, <1>2, <2>1
<1>9. HeaderOf(r)
  BY <1>1, <1>2, <1>7, <1>8 DEF HeaderOf
<1>10. r.bytes[1] # Junk
  BY <1>8, JunkAssumption
<1>11. Inside(r, new) /\ ReadsBack(r, part, new)
  <2>1. new.block + 1 = c + length + 2 /\ new.at + 1 = c + 1
    BY <1>1, <1>4
  <2>2. Bytes(r, part, new)
    BY <1>2, <1>4, <1>8, <1>10, <2>1 DEF Bytes
  <2>3. /\ new.block \in Nat /\ new.at \in Nat /\ new.length \in Nat
        /\ new.block = new.at + 1 + new.length
        /\ new.block < r.cursor /\ new.block < Len(r.bytes)
    BY <1>1, <1>2, <1>4, <1>7
  <2> QED
    BY <1>7, <2>2, <2>3, ReadsBackIs DEF Inside
<1>12. ASSUME NEW other \in Parts, other # part, w[other] # NotWritten
       PROVE  Inside(r, w[other]) /\ ReadsBack(r, other, w[other])
  <2> DEFINE u == w[other]
  <2>1. u.block \in Nat /\ u.at \in Nat /\ u.at # 0 /\ u.length \in Nat
    BY <1>12, WritingFacts
  <2>2. Inside(b, u) /\ ReadsBack(b, other, u)
    BY <1>12 DEF Content
  <2> HIDE DEF u
  <2>3. u.block = u.at + 1 + u.length /\ u.block < b.cursor /\ u.block < Len(b.bytes)
    BY <2>2 DEF Inside
  <2>4. Bytes(b, other, u)
    BY <1>1, <2>1, <2>2, <2>3, ReadsBackIs
  <2>5. Bytes(r, other, u)
    <3>1. /\ u.block + 1 \in 2 .. c /\ u.at + 1 \in 2 .. c
          /\ \A i \in 1 .. u.length : u.at + 1 + i \in 2 .. c
      BY <1>1, <2>1, <2>3, Positions
    <3>2. r.bytes[1][other] = u.block
      BY <1>8, <1>12, <2>4 DEF Bytes
    <3>3. r.bytes[u.block + 1] = u.at /\ r.bytes[u.at + 1] = u.length
      BY <1>2, <2>4, <3>1 DEF Bytes
    <3>4. \A i \in 1 .. u.length : r.bytes[u.at + 1 + i] = u.item
      BY <1>2, <2>4, <3>1 DEF Bytes
    <3> QED
      BY <1>10, <3>2, <3>3, <3>4 DEF Bytes
  <2>6. u.block < Len(r.bytes) /\ u.block < r.cursor
    <3>1. c <= r.cursor /\ c <= Len(r.bytes)
      BY <1>1, <1>2, <1>7
    <3>2. u.block < c
      BY <2>3
    <3> QED
      BY <1>1, <1>7, <2>1, <3>1, <3>2
  <2> QED
    BY <1>7, <2>1, <2>3, <2>5, <2>6, ReadsBackIs DEF Inside, u
<1>13. Content(r, v)
  <2>1. ASSUME NEW other \in Parts, v[other] # NotWritten
        PROVE  Inside(r, v[other]) /\ ReadsBack(r, other, v[other])
    <3>1. CASE other = part
      BY <1>6, <1>11, <3>1
    <3>2. CASE other # part
      BY <1>6, <1>12, <2>1, <3>2
    <3> QED
      BY <3>1, <3>2
  <2> QED
    BY <2>1 DEF Content
<1> QED
  BY <1>5, <1>9, <1>13 DEF r, v, new

-----------------------------------------------------------------------------
(***************************************************************************)
(* One object at a time.                                                   *)
(***************************************************************************)
Origins == {"none", "constructed", "copied", "assigned", "moved_from"}

(* What the invariant asks of a buffer b whose content comes from g, and   *)
(* to which w was written.                                                 *)
Good(b, g, w) ==
  /\ IsBuffer(b)
  /\ b.place = "heap" <=> b.block # NoBlock
  /\ g \in Origins
  /\ w \in PartsOf
  /\ b.place # "dead" <=> g # "none"
  /\ b.place = "inline" => Len(b.bytes) = N
  /\ g \in {"constructed", "copied", "assigned"} => b.place \in {"inline", "heap"} /\ HeaderOf(b)
  /\ g = "moved_from" => b.place \in {"inline", "null"}
  /\ g \in {"none", "moved_from"} => w = NothingWritten
  /\ g = "constructed" => b.cap = Len(b.bytes)
  /\ g \in {"constructed", "copied"} => b.cursor <= Len(b.bytes)
  /\ Content(b, w)

(* The blocks that are allocated, each with its owner.                     *)
Owners ==
  /\ heap \subseteq Blocks
  /\ heap = UNION { Owned(buf[o]) : o \in Objects }
  /\ \A o, p \in Objects : o # p => Owned(buf[o]) \cap Owned(buf[p]) = {}

Functions ==
  /\ DOMAIN buf = Objects
  /\ origin = [o \in Objects |-> origin[o]]
  /\ wrote = [o \in Objects |-> wrote[o]]

AllGood == \A o \in Objects : Good(buf[o], origin[o], wrote[o])

Each == Functions /\ Owners /\ AllGood

(* The invariant, an object at a time.                                     *)
LEMMA ByObject ==
  IInv <=> Each
<1>1. ASSUME IInv
      PROVE  Functions /\ Owners /\ \A o \in Objects : Good(buf[o], origin[o], wrote[o])
  <2>1. TypeOK /\ Owners
    BY <1>1, Zenon DEF IInv, BlocksHaveOneOwner, TypeOK, Owners
  <2>2. Functions
    BY <2>1 DEF TypeOK, Functions
  <2>3. ASSUME NEW o \in Objects
        PROVE  Good(buf[o], origin[o], wrote[o])
    <3>1. /\ IsBuffer(buf[o])
          /\ buf[o].place = "heap" <=> buf[o].block # NoBlock
      BY <2>1, Zenon DEF TypeOK
    <3>2. origin[o] \in Origins /\ wrote[o] \in PartsOf
      BY <2>1 DEF TypeOK, Origins, PartsOf
    <3>3. /\ buf[o].place # "dead" <=> origin[o] # "none"
          /\ buf[o].place = "inline" => Len(buf[o].bytes) = N
          /\ origin[o] \in {"constructed", "copied", "assigned"} => buf[o].place \in {"inline", "heap"}
          /\ origin[o] = "moved_from" => buf[o].place \in {"inline", "null"}
          /\ origin[o] \in {"none", "moved_from"} => wrote[o] = NothingWritten
      BY <1>1, Zenon DEF IInv, Places, Live
    <3>4. origin[o] \in {"constructed", "copied", "assigned"} => HeaderOf(buf[o])
      BY <1>1, Zenon DEF IInv, HasHeader, HeaderOf
    <3>5. /\ origin[o] = "constructed" => buf[o].cap = Len(buf[o].bytes)
          /\ origin[o] \in {"constructed", "copied"} => buf[o].cursor <= Len(buf[o].bytes)
      BY <1>1, Zenon DEF IInv, CapacityIsSize, StorageHoldsSize
    <3>6. Content(buf[o], wrote[o])
      BY <1>1, Zenon DEF IInv, PartsInside, OffsetsKept, Content, Inside
    <3> QED
      BY <3>1, <3>2, <3>3, <3>4, <3>5, <3>6 DEF Good
  <2> QED
    BY <2>1, <2>2, <2>3
<1>2. ASSUME Functions, Owners, \A o \in Objects : Good(buf[o], origin[o], wrote[o])
      PROVE  IInv
  <2>1. TypeOK
    <3>1. DOMAIN buf = Objects /\ heap \subseteq Blocks
      BY <1>2 DEF Functions, Owners
    <3>2. \A o \in Objects : IsBuffer(buf[o]) /\ (buf[o].place = "heap" <=> buf[o].block # NoBlock)
      BY <1>2, Zenon DEF Good
    <3>3. \A o \in Objects : origin[o] \in Origins /\ wrote[o] \in PartsOf
      BY <1>2, Zenon DEF Good
    <3>4. origin \in [Objects -> Origins] /\ wrote \in [Objects -> PartsOf]
      BY <1>2, <3>3 DEF Functions
    <3> QED
      BY <3>1, <3>2, <3>4, Zenon DEF TypeOK, Origins, PartsOf
  <2>2. BlocksHaveOneOwner
    BY <1>2, <2>1, Zenon DEF Owners, BlocksHaveOneOwner
  <2>3. Places
    BY <1>2, Zenon DEF Places, Good, Live
  <2>4. CapacityIsSize /\ StorageHoldsSize
    BY <1>2, Zenon DEF CapacityIsSize, StorageHoldsSize, Good
  <2>5. HasHeader
    BY <1>2, Zenon DEF HasHeader, HeaderOf, Good
  <2>6. PartsInside /\ OffsetsKept
    <3>1. \A o \in Objects : Content(buf[o], wrote[o])
      BY <1>2, Zenon DEF Good
    <3> QED
      BY <3>1, Zenon DEF PartsInside, OffsetsKept, Content, Inside
  <2> QED
    BY <2>2, <2>3, <2>4, <2>5, <2>6 DEF IInv
<1> QED
  BY <1>1, <1>2 DEF Each, AllGood

(* One object changes: what it had is freed, what it has is its own.       *)
LEMMA OneChanges ==
  ASSUME DOMAIN buf = Objects, Owners, NEW o \in Objects, NEW c,
         buf' = [buf EXCEPT ![o] = c],
         Owned(c) \subseteq Blocks, Owned(c) \cap heap \subseteq Owned(buf[o]),
         heap' = (heap \ Owned(buf[o])) \cup Owned(c)
  PROVE  /\ DOMAIN buf' = Objects
         /\ \A p \in Objects : buf'[p] = IF p = o THEN c ELSE buf[p]
         /\ Owners'
<1>1. /\ DOMAIN buf' = Objects
      /\ \A p \in Objects : buf'[p] = IF p = o THEN c ELSE buf[p]
  OBVIOUS
<1>2. \A p \in Objects : Owned(buf'[p]) = IF p = o THEN Owned(c) ELSE Owned(buf[p])
  BY <1>1
<1>3. \A p \in Objects : Owned(buf[p]) \subseteq heap
  BY Zenon DEF Owners
<1>4. \A p, q \in Objects : p # q => Owned(buf[p]) \cap Owned(buf[q]) = {}
  BY Zenon DEF Owners
<1>5. heap' \subseteq Blocks
  BY DEF Owners
<1>6. ASSUME NEW p \in Objects, NEW q \in Objects, p # q
      PROVE  Owned(buf'[p]) \cap Owned(buf'[q]) = {}
  <2>1. CASE p = o
    BY <1>2, <1>3, <1>4, <1>6, <2>1
  <2>2. CASE q = o
    BY <1>2, <1>3, <1>4, <1>6, <2>2
  <2>3. CASE p # o /\ q # o
    BY <1>2, <1>4, <1>6, <2>3
  <2> QED
    BY <2>1, <2>2, <2>3
<1>7. ASSUME NEW x
      PROVE  x \in heap' <=> \E p \in Objects : x \in Owned(buf'[p])
  <2>1. ASSUME x \in heap'
        PROVE  \E p \in Objects : x \in Owned(buf'[p])
    <3>1. CASE x \in Owned(c)
      BY <1>2, <3>1
    <3>2. CASE x \in heap /\ x \notin Owned(buf[o])
      <4>1. PICK p \in Objects : x \in Owned(buf[p])
        BY <3>2 DEF Owners
      <4> QED
        BY <1>2, <3>2, <4>1
    <3> QED
      BY <2>1, <3>1, <3>2
  <2>2. ASSUME NEW p \in Objects, x \in Owned(buf'[p])
        PROVE  x \in heap'
    <3>1. CASE p = o
      BY <1>2, <2>2, <3>1
    <3>2. CASE p # o
      <4>1. x \in Owned(buf[p]) /\ x \in heap /\ x \notin Owned(buf[o])
        BY <1>2, <1>3, <1>4, <2>2, <3>2
      <4> QED
        BY <4>1
    <3> QED
      BY <3>1, <3>2
  <2> QED
    BY <2>1, <2>2
<1>8. heap' = UNION { Owned(buf'[p]) : p \in Objects }
  BY <1>7
<1> QED
  BY <1>1, <1>5, <1>6, <1>8 DEF Owners

(* The object gets b, with a block of its own when its storage is new.     *)
LEMMA Installed ==
  ASSUME DOMAIN buf = Objects, Owners, NEW o \in Objects, IsBuffer(buf[o]),
         NEW b, Draft(b), Install(o, b),
         \/ NewStorage(b)
         \/ Owned(b) = Owned(buf[o]) /\ (b.place = "heap" <=> b.block # NoBlock)
  PROVE  \E c : /\ IsBuffer(c)
                /\ c.place = "heap" <=> c.block # NoBlock
                /\ c.place = b.place /\ c.bytes = b.bytes /\ c.cap = b.cap /\ c.cursor = b.cursor
                /\ DOMAIN buf' = Objects
                /\ \A p \in Objects : buf'[p] = IF p = o THEN c ELSE buf[p]
                /\ Owners'
<1>1. b.cursor \in 0 .. MaxCursor
  <2>1. b.cursor <= MaxCursor
    BY Zenon DEF Install
  <2> QED
    BY <2>1, SizesAssumption DEF Draft
<1>2. CASE b.place = "heap" /\ b.block = NoBlock
  <2>1. \E block \in Blocks \ heap :
          /\ buf' = [buf EXCEPT ![o] = [b EXCEPT !.block = block]]
          /\ heap' = (heap \ Owned(buf[o])) \cup {block}
    BY <1>2, Zenon DEF Install
  <2>2. PICK block \in Blocks \ heap :
          /\ buf' = [buf EXCEPT ![o] = [b EXCEPT !.block = block]]
          /\ heap' = (heap \ Owned(buf[o])) \cup {block}
    BY <2>1, Zenon
  <2> DEFINE c == [b EXCEPT !.block = block]
  <2>3. c = [place |-> b.place, block |-> block, bytes |-> b.bytes,
             cap |-> b.cap, cursor |-> b.cursor]
    BY Changed
  <2>4. buf' = [buf EXCEPT ![o] = c]
    BY <2>2
  <2> HIDE DEF c
  <2>5. /\ c.place = b.place /\ c.bytes = b.bytes /\ c.cap = b.cap /\ c.cursor = b.cursor
        /\ c.block = block
        /\ c = [place |-> c.place, block |-> c.block, bytes |-> c.bytes,
                cap |-> c.cap, cursor |-> c.cursor]
    BY <2>3
  <2>6. IsBuffer(c)
    BY <1>1, <2>5 DEF IsBuffer, Draft, IsBytes
  <2>7. c.place = "heap" <=> c.block # NoBlock
    BY <1>2, <2>5, NoneAssumption
  <2>8. Owned(c) = {block}
    BY <1>2, <2>5 DEF Owned
  <2>9. /\ DOMAIN buf' = Objects
        /\ \A p \in Objects : buf'[p] = IF p = o THEN c ELSE buf[p]
        /\ Owners'
    <3>1. Owned(c) \subseteq Blocks /\ Owned(c) \cap heap \subseteq Owned(buf[o])
      BY <2>8
    <3>2. heap' = (heap \ Owned(buf[o])) \cup Owned(c)
      BY <2>2, <2>8
    <3> QED
      BY <2>4, <3>1, <3>2, OneChanges
  <2> QED
    BY <2>5, <2>6, <2>7, <2>9
<1>3. CASE ~ (b.place = "heap" /\ b.block = NoBlock)
  <2>1. buf' = [buf EXCEPT ![o] = b] /\ heap' = heap
    BY <1>3, Zenon DEF Install
  <2>2. Owned(b) = Owned(buf[o]) /\ (b.place = "heap" <=> b.block # NoBlock)
    BY <1>3 DEF NewStorage
  <2>3. IsBuffer(b)
    BY <1>1 DEF IsBuffer, Draft, IsBytes
  <2>4. Owned(buf[o]) \subseteq heap /\ heap \subseteq Blocks
    BY DEF Owners
  <2>5. /\ DOMAIN buf' = Objects
        /\ \A p \in Objects : buf'[p] = IF p = o THEN b ELSE buf[p]
        /\ Owners'
    <3>1. Owned(b) \subseteq Blocks /\ Owned(b) \cap heap \subseteq Owned(buf[o])
      BY <2>2, <2>4
    <3>2. heap' = (heap \ Owned(buf[o])) \cup Owned(b)
      BY <2>1, <2>2, <2>4
    <3> QED
      BY <2>1, <3>1, <3>2, OneChanges
  <2> QED
    BY <2>2, <2>3, <2>5
<1> QED
  BY <1>2, <1>3

(* A block that p had is what o has now; what o had is freed.              *)
LEMMA TwoChange ==
  ASSUME DOMAIN buf = Objects, Owners, NEW o \in Objects, NEW p \in Objects, o # p,
         NEW c, NEW d, buf' = [buf EXCEPT ![o] = c, ![p] = d],
         Owned(c) = Owned(buf[p]), Owned(d) = {},
         heap' = heap \ Owned(buf[o])
  PROVE  /\ DOMAIN buf' = Objects
         /\ \A q \in Objects : buf'[q] = IF q = o THEN c ELSE IF q = p THEN d ELSE buf[q]
         /\ Owners'
<1>1. /\ DOMAIN buf' = Objects
      /\ \A q \in Objects : buf'[q] = IF q = o THEN c ELSE IF q = p THEN d ELSE buf[q]
  OBVIOUS
<1>2. \A q \in Objects :
        Owned(buf'[q]) = IF q = o THEN Owned(buf[p]) ELSE IF q = p THEN {} ELSE Owned(buf[q])
  BY <1>1
<1>3. \A q \in Objects : Owned(buf[q]) \subseteq heap
  BY Zenon DEF Owners
<1>4. \A q, r \in Objects : q # r => Owned(buf[q]) \cap Owned(buf[r]) = {}
  BY Zenon DEF Owners
<1>5. heap' \subseteq Blocks
  BY DEF Owners
<1>6. ASSUME NEW q \in Objects, NEW r \in Objects, q # r
      PROVE  Owned(buf'[q]) \cap Owned(buf'[r]) = {}
  <2>1. CASE q = o
    BY <1>2, <1>4, <1>6, <2>1
  <2>2. CASE r = o
    BY <1>2, <1>4, <1>6, <2>2
  <2>3. CASE q # o /\ r # o
    BY <1>2, <1>4, <1>6, <2>3
  <2> QED
    BY <2>1, <2>2, <2>3
<1>7. ASSUME NEW x
      PROVE  x \in heap' <=> \E q \in Objects : x \in Owned(buf'[q])
  <2>1. ASSUME x \in heap'
        PROVE  \E q \in Objects : x \in Owned(buf'[q])
    <3>1. x \in heap /\ x \notin Owned(buf[o])
      BY <2>1
    <3>2. PICK q \in Objects : x \in Owned(buf[q])
      BY <3>1 DEF Owners
    <3>3. CASE q = p
      BY <1>2, <3>2, <3>3
    <3>4. CASE q # p
      BY <1>2, <3>1, <3>2, <3>4
    <3> QED
      BY <3>3, <3>4
  <2>2. ASSUME NEW q \in Objects, x \in Owned(buf'[q])
        PROVE  x \in heap'
    <3>1. CASE q = o
      <4>1. x \in Owned(buf[p])
        BY <1>2, <2>2, <3>1
      <4> QED
        BY <1>3, <1>4, <4>1
    <3>2. CASE q # o
      <4>1. x \in Owned(buf[q])
        BY <1>2, <2>2, <3>2
      <4> QED
        BY <1>3, <1>4, <3>2, <4>1
    <3> QED
      BY <3>1, <3>2
  <2> QED
    BY <2>1, <2>2
<1>8. heap' = UNION { Owned(buf'[q]) : q \in Objects }
  BY <1>7
<1> QED
  BY <1>1, <1>5, <1>6, <1>8 DEF Owners

(* A new object, and one that was destroyed.                               *)
LEMMA NewFacts ==
  /\ IsBuffer(NewBuffer) /\ Draft(NewBuffer)
  /\ NewBuffer.place = "inline" /\ NewBuffer.block = NoBlock
  /\ NewBuffer.cap = N /\ NewBuffer.cursor = 0
  /\ Len(NewBuffer.bytes) = N /\ N \in Nat \ {0}
  /\ NewBuffer.bytes[1] \in [Parts -> Nat]
  /\ NewBuffer.bytes = InlineStorage
<1>1. /\ NewBuffer.place = "inline" /\ NewBuffer.block = NoBlock
      /\ NewBuffer.bytes = InlineStorage /\ NewBuffer.cap = N /\ NewBuffer.cursor = 0
      /\ NewBuffer = [place |-> NewBuffer.place, block |-> NewBuffer.block,
                      bytes |-> NewBuffer.bytes, cap |-> NewBuffer.cap,
                      cursor |-> NewBuffer.cursor]
  BY DEF NewBuffer
<1>2. N \in Nat \ {0} /\ MaxCursor \in Nat
  BY SizesAssumption
<1>3. /\ InlineStorage = [i \in 1 .. N |-> InlineStorage[i]]
      /\ InlineStorage[1] = EmptyHeader
  BY <1>2 DEF InlineStorage
<1>4. Len(InlineStorage) = N
  BY <1>2, <1>3, Table
<1>5. EmptyHeader \in [Parts -> Nat]
  BY DEF EmptyHeader
<1> HIDE DEF NewBuffer
<1>6. IsBuffer(NewBuffer)
  BY <1>1, <1>2, <1>3, <1>4 DEF IsBuffer
<1> QED
  BY <1>1, <1>2, <1>3, <1>4, <1>5, <1>6, BufferIsDraft

LEMMA Destroyed ==
  /\ Owned(NoBuffer) = {}
  /\ Good(NoBuffer, "none", NothingWritten)
<1>1. NoBuffer = [place |-> "dead", block |-> NoBlock, bytes |-> InlineStorage,
                  cap |-> N, cursor |-> 0]
  BY DEF NoBuffer, NewBuffer
<1>2. /\ NoBuffer.place = "dead" /\ NoBuffer.block = NoBlock
      /\ NoBuffer.bytes = InlineStorage /\ NoBuffer.cap = N /\ NoBuffer.cursor = 0
  BY <1>1
<1>3. /\ InlineStorage = [i \in 1 .. Len(InlineStorage) |-> InlineStorage[i]]
      /\ Len(InlineStorage) \in Nat /\ N \in Nat \ {0} /\ MaxCursor \in Nat
  BY NewFacts, SizesAssumption DEF IsBuffer
<1> HIDE DEF NoBuffer
<1>4. IsBuffer(NoBuffer)
  BY <1>1, <1>2, <1>3 DEF IsBuffer
<1>5. Content(NoBuffer, NothingWritten) /\ NothingWritten \in PartsOf
  BY NoContent
<1> QED
  BY <1>2, <1>4, <1>5, NoneAssumption DEF Good, Origins, Owned

-----------------------------------------------------------------------------
(***************************************************************************)
(* The operations keep the invariant.                                      *)
(***************************************************************************)

(* One object becomes another good one.                                    *)
LEMMA OneGood ==
  ASSUME Each, NEW o \in Objects, NEW c, NEW g, NEW w, Good(c, g, w),
         DOMAIN buf' = Objects, Owners',
         \A p \in Objects : buf'[p] = IF p = o THEN c ELSE buf[p],
         origin' = [origin EXCEPT ![o] = g], wrote' = [wrote EXCEPT ![o] = w]
  PROVE  Each'
<1>1. Functions /\ AllGood
  BY DEF Each
<1>2. /\ origin' = [p \in Objects |-> IF p = o THEN g ELSE origin[p]]
      /\ wrote' = [p \in Objects |-> IF p = o THEN w ELSE wrote[p]]
  BY <1>1 DEF Functions
<1>3. Functions'
  BY <1>2 DEF Functions
<1>4. ASSUME NEW p \in Objects
      PROVE  Good(buf'[p], origin'[p], wrote'[p])
  <2>1. CASE p = o
    <3>1. buf'[p] = c /\ origin'[p] = g /\ wrote'[p] = w
      BY <1>2, <2>1
    <3> QED
      BY <3>1
  <2>2. CASE p # o
    <3>1. buf'[p] = buf[p] /\ origin'[p] = origin[p] /\ wrote'[p] = wrote[p]
      BY <1>2, <2>2
    <3>2. Good(buf[p], origin[p], wrote[p])
      BY <1>1 DEF AllGood
    <3> QED
      BY <3>1, <3>2
  <2> QED
    BY <2>1, <2>2
<1> QED
  BY <1>3, <1>4 DEF Each, AllGood

(* Two objects become others.                                              *)
LEMMA TwoGood ==
  ASSUME Each, NEW o \in Objects, NEW p \in Objects, o # p,
         NEW c, NEW g, NEW w, Good(c, g, w), NEW d, NEW h, NEW v, Good(d, h, v),
         Functions', Owners',
         buf'[o] = c, origin'[o] = g, wrote'[o] = w,
         buf'[p] = d, origin'[p] = h, wrote'[p] = v,
         \A q \in Objects :
           q # o /\ q # p => buf'[q] = buf[q] /\ origin'[q] = origin[q] /\ wrote'[q] = wrote[q]
  PROVE  Each'
<1>1. Functions /\ AllGood
  BY DEF Each
<1>2. ASSUME NEW q \in Objects
      PROVE  Good(buf'[q], origin'[q], wrote'[q])
  <2>1. CASE q = o
    BY <2>1
  <2>2. CASE q = p
    BY <2>2
  <2>3. CASE q # o /\ q # p
    <3>1. buf'[q] = buf[q] /\ origin'[q] = origin[q] /\ wrote'[q] = wrote[q]
      BY <2>3
    <3>2. Good(buf[q], origin[q], wrote[q])
      BY <1>1 DEF AllGood
    <3> QED
      BY <3>1, <3>2
  <2> QED
    BY <2>1, <2>2, <2>3
<1> QED
  BY <1>2 DEF Each, AllGood

LEMMA InitStep ==
  ASSUME Init
  PROVE  Each
<1>1. /\ buf = [o \in Objects |-> NoBuffer] /\ heap = {}
      /\ origin = [o \in Objects |-> "none"]
      /\ wrote = [o \in Objects |-> NothingWritten]
  BY Zenon DEF Init
<1>2. Functions
  BY <1>1 DEF Functions
<1>3. \A o \in Objects : buf[o] = NoBuffer /\ origin[o] = "none" /\ wrote[o] = NothingWritten
  BY <1>1
<1>4. Owners
  <2>1. \A o \in Objects : Owned(buf[o]) = {}
    BY <1>3, Destroyed
  <2> QED
    BY <1>1, <2>1 DEF Owners
<1>5. AllGood
  <2>1. ASSUME NEW o \in Objects
        PROVE  Good(buf[o], origin[o], wrote[o])
    BY <1>3, Destroyed
  <2> QED
    BY <2>1 DEF AllGood
<1> QED
  BY <1>2, <1>4, <1>5 DEF Each

LEMMA ConstructStep ==
  ASSUME Each, NEW o \in Objects, Construct(o)
  PROVE  Each'
<1> DEFINE b == [NewBuffer EXCEPT !.cursor = HeaderSize]
<1>1. /\ buf[o].place = "dead" /\ Install(o, b)
      /\ origin' = [origin EXCEPT ![o] = "constructed"]
      /\ wrote' = [wrote EXCEPT ![o] = NothingWritten]
  BY Zenon DEF Construct, Live
<1>2. b = [place |-> "inline", block |-> NoBlock, bytes |-> InlineStorage,
           cap |-> N, cursor |-> 1]
  BY DEF NewBuffer, HeaderSize
<1> HIDE DEF b
<1>3. /\ b.place = "inline" /\ b.block = NoBlock /\ b.bytes = InlineStorage
      /\ b.cap = N /\ b.cursor = 1
  BY <1>2
<1>4. /\ Len(InlineStorage) = N /\ N \in Nat \ {0} /\ InlineStorage[1] \in [Parts -> Nat]
      /\ IsBytes(InlineStorage)
  BY NewFacts DEF Draft
<1>5. Draft(b)
  BY <1>2, <1>3, <1>4 DEF Draft
<1>6. Good(buf[o], origin[o], wrote[o]) /\ DOMAIN buf = Objects /\ Owners
  BY DEF Each, AllGood, Functions
<1>7. IsBuffer(buf[o])
  BY <1>6 DEF Good
<1>8. Owned(b) = Owned(buf[o]) /\ (b.place = "heap" <=> b.block # NoBlock)
  BY <1>1, <1>3 DEF Owned
<1>9. PICK c : /\ IsBuffer(c)
               /\ c.place = "heap" <=> c.block # NoBlock
               /\ c.place = b.place /\ c.bytes = b.bytes /\ c.cap = b.cap /\ c.cursor = b.cursor
               /\ DOMAIN buf' = Objects
               /\ \A p \in Objects : buf'[p] = IF p = o THEN c ELSE buf[p]
               /\ Owners'
  BY <1>1, <1>5, <1>6, <1>7, <1>8, Installed
<1>10. HeaderOf(c)
  BY <1>3, <1>4, <1>9 DEF HeaderOf
<1>11. Good(c, "constructed", NothingWritten)
  BY <1>3, <1>4, <1>9, <1>10, NoContent DEF Good, Origins
<1> QED
  BY <1>1, <1>9, <1>11, OneGood

LEMMA WriteStep ==
  ASSUME Each, NEW o \in Objects, NEW part \in Parts, NEW length \in Lengths,
         NEW item \in Items, WritePart(o, part, length, item)
  PROVE  Each'
<1> DEFINE b == buf[o]
           r == EncodePart(b, part, length, item)
           w == wrote[o]
           new == [block |-> b.cursor + 1 + length, at |-> b.cursor,
                   length |-> length, item |-> item]
           v == [w EXCEPT ![part] = new]
<1>1. /\ origin[o] = "constructed" /\ w[part] = NotWritten
      /\ Install(o, r)
      /\ wrote' = [wrote EXCEPT ![o][part] = new]
      /\ origin' = origin
  BY Zenon DEF WritePart
<1>2. length \in Nat
  BY SizesAssumption
<1>3. Good(b, "constructed", w) /\ DOMAIN buf = Objects /\ Owners /\ Functions
  <2>1. Good(b, origin[o], w)
    BY DEF Each, AllGood
  <2> QED
    BY <1>1, <2>1 DEF Each, Functions
<1> HIDE DEF b, w
<1>4. /\ IsBuffer(b) /\ Draft(b) /\ b.cap = Len(b.bytes) /\ b.cursor <= b.cap
      /\ 1 <= b.cursor /\ HeaderOf(b)
      /\ b.place \in {"inline", "heap"} /\ w \in PartsOf /\ Content(b, w)
      /\ b.place = "heap" <=> b.block # NoBlock
      /\ b.place = "inline" => Len(b.bytes) = N
  <2>1. IsBuffer(b) /\ b.cap = Len(b.bytes) /\ b.cursor <= Len(b.bytes) /\ HeaderOf(b)
    BY <1>3 DEF Good
  <2>2. /\ b.place \in {"inline", "heap"} /\ w \in PartsOf /\ Content(b, w)
        /\ b.place = "heap" <=> b.block # NoBlock
        /\ b.place = "inline" => Len(b.bytes) = N
    BY <1>3 DEF Good
  <2>3. 1 <= b.cursor
    BY <2>1 DEF HeaderOf, IsBuffer
  <2> QED
    BY <2>1, <2>2, <2>3, BufferIsDraft
<1>5. PartEncoded(r, b, part, length, item)
  BY <1>2, <1>4, EncodingPart, Zenon
<1>6. v \in PartsOf /\ HeaderOf(r) /\ Content(r, v)
  <2>1. w[part] = NotWritten
    BY <1>1
  <2> QED
    BY <1>2, <1>4, <2>1, PartWritten
<1> HIDE DEF r
<1>7. /\ Draft(r) /\ r.cap = Len(r.bytes) /\ r.cursor <= r.cap
      /\ SameStorage(r, b) \/ NewStorage(r)
  BY <1>5, Zenon DEF PartEncoded
<1>8. \/ NewStorage(r)
      \/ Owned(r) = Owned(b) /\ (r.place = "heap" <=> r.block # NoBlock)
  <2>1. SameStorage(r, b) => Owned(r) = Owned(b) /\ (r.place = "heap" <=> r.block # NoBlock)
    BY <1>4 DEF SameStorage, Owned
  <2> QED
    BY <1>7, <2>1
<1>9. PICK c : /\ IsBuffer(c)
               /\ c.place = "heap" <=> c.block # NoBlock
               /\ c.place = r.place /\ c.bytes = r.bytes /\ c.cap = r.cap /\ c.cursor = r.cursor
               /\ DOMAIN buf' = Objects
               /\ \A p \in Objects : buf'[p] = IF p = o THEN c ELSE buf[p]
               /\ Owners'
  BY <1>1, <1>3, <1>4, <1>7, <1>8, Installed DEF b
<1>10. HeaderOf(c) /\ Content(c, v)
  <2>1. /\ c.cursor \in Nat /\ Len(c.bytes) \in Nat /\ r.cursor \in Nat /\ Len(r.bytes) \in Nat
        /\ r.cursor <= c.cursor
    BY <1>7, <1>9 DEF Draft, IsBytes
  <2>2. \A i \in 1 .. r.cursor :
          i <= Len(r.bytes) => i <= Len(c.bytes) /\ c.bytes[i] = r.bytes[i]
    BY <1>9
  <2> HIDE DEF v
  <2> QED
    BY <1>6, <2>1, <2>2, SameContent
<1>11. /\ c.place \in {"inline", "heap"}
       /\ c.place = "inline" => Len(c.bytes) = N
  BY <1>4, <1>7, <1>9 DEF SameStorage, NewStorage
<1>12. Good(c, "constructed", v)
  <2>1. c.cap = Len(c.bytes) /\ c.cursor <= Len(c.bytes)
    BY <1>7, <1>9
  <2>2. v \in PartsOf
    BY <1>6
  <2> HIDE DEF v
  <2> QED
    BY <1>9, <1>10, <1>11, <2>1, <2>2 DEF Good, Origins
<1>13. origin' = [origin EXCEPT ![o] = "constructed"] /\ wrote' = [wrote EXCEPT ![o] = v]
  <2>1. origin' = [origin EXCEPT ![o] = "constructed"]
    BY <1>1, <1>3 DEF Functions
  <2>2. wrote' = [wrote EXCEPT ![o] = v]
    BY <1>1 DEF w
  <2> QED
    BY <2>1, <2>2
<1> HIDE DEF v
<1> QED
  BY <1>9, <1>12, <1>13, OneGood

(* Copying the content of p to o, which is b so far.                       *)
LEMMA CopyStep ==
  ASSUME Each, NEW o \in Objects, NEW p \in Objects, NEW b, NEW g \in {"copied", "assigned"},
         Draft(b), b.cap = Len(b.bytes), b.place \in {"inline", "heap"},
         b.place = "heap" <=> b.block # NoBlock,
         b.place = "inline" => Len(b.bytes) = N,
         Owned(b) = Owned(buf[o]), g = "copied" => b.cursor = 0,
         buf[p].place # "dead", origin[p] # "moved_from",
         Install(o, Copied(b, buf[p])),
         origin' = [origin EXCEPT ![o] = g], wrote' = [wrote EXCEPT ![o] = wrote[p]]
  PROVE  Each'
<1> DEFINE source == buf[p]
           w == wrote[p]
           r == Copied(b, source)
<1>1. Install(o, r) /\ wrote' = [wrote EXCEPT ![o] = w]
  OBVIOUS
<1>2. /\ Good(source, origin[p], w) /\ origin[p] \in {"constructed", "copied", "assigned"}
      /\ IsBuffer(buf[o]) /\ DOMAIN buf = Objects /\ Owners
  <2>1. Good(source, origin[p], w) /\ IsBuffer(buf[o]) /\ DOMAIN buf = Objects /\ Owners
    BY DEF Each, AllGood, Functions, Good
  <2>2. origin[p] \in Origins /\ origin[p] # "none"
    BY <2>1 DEF Good
  <2> QED
    BY <2>1, <2>2 DEF Origins
<1> HIDE DEF source, w
<1>3. /\ IsBuffer(source) /\ Draft(source) /\ HeaderOf(source)
      /\ w \in PartsOf /\ Content(source, w)
  BY <1>2, BufferIsDraft DEF Good
<1>4. /\ Draft(r) /\ r.cap = source.cap
      /\ r.cursor = b.cursor + source.cursor
      /\ source.cursor <= Len(r.bytes)
      /\ SameStorage(r, b) \/ NewStorage(r)
      /\ \A i \in 1 .. source.cursor :
           r.bytes[i] = IF i <= Len(source.bytes) THEN source.bytes[i] ELSE Junk
  BY <1>3, Copying
<1> HIDE DEF r
<1>5. \/ NewStorage(r)
      \/ Owned(r) = Owned(buf[o]) /\ (r.place = "heap" <=> r.block # NoBlock)
  <2>1. SameStorage(r, b) => Owned(r) = Owned(b) /\ (r.place = "heap" <=> r.block # NoBlock)
    BY DEF SameStorage, Owned
  <2> QED
    BY <1>4, <2>1
<1>6. PICK c : /\ IsBuffer(c)
               /\ c.place = "heap" <=> c.block # NoBlock
               /\ c.place = r.place /\ c.bytes = r.bytes /\ c.cap = r.cap /\ c.cursor = r.cursor
               /\ DOMAIN buf' = Objects
               /\ \A q \in Objects : buf'[q] = IF q = o THEN c ELSE buf[q]
               /\ Owners'
  BY <1>1, <1>2, <1>4, <1>5, Installed
<1>7. /\ source.cursor \in Nat /\ Len(source.bytes) \in Nat /\ b.cursor \in Nat
      /\ c.cursor \in Nat /\ Len(c.bytes) \in Nat /\ source.cursor <= c.cursor
      /\ source.cursor <= Len(c.bytes)
  BY <1>3, <1>4, <1>6 DEF Draft, IsBytes
<1>8. HeaderOf(c) /\ Content(c, w)
  <2>1. \A i \in 1 .. source.cursor :
          i <= Len(source.bytes) => i <= Len(c.bytes) /\ c.bytes[i] = source.bytes[i]
    BY <1>4, <1>6, <1>7
  <2> QED
    BY <1>3, <1>7, <2>1, SameContent
<1>9. /\ c.place \in {"inline", "heap"}
      /\ c.place = "inline" => Len(c.bytes) = N
  BY <1>4, <1>6 DEF SameStorage, NewStorage
<1>10. g = "copied" => c.cursor <= Len(c.bytes)
  BY <1>4, <1>6, <1>7
<1>11. Good(c, g, w)
  BY <1>3, <1>6, <1>8, <1>9, <1>10 DEF Good, Origins
<1> QED
  BY <1>1, <1>6, <1>11, OneGood

LEMMA CopyConstructStep ==
  ASSUME Each, NEW o \in Objects, NEW p \in Objects, CopyConstruct(o, p)
  PROVE  Each'
<1>1. /\ buf[o].place = "dead" /\ buf[p].place # "dead" /\ origin[p] # "moved_from"
      /\ Install(o, Copied(NewBuffer, buf[p]))
      /\ origin' = [origin EXCEPT ![o] = "copied"] /\ wrote' = [wrote EXCEPT ![o] = wrote[p]]
  BY Zenon DEF CopyConstruct, Live
<1>2. Owned(NewBuffer) = Owned(buf[o])
  BY <1>1, NewFacts DEF Owned
<1>3. /\ Draft(NewBuffer) /\ NewBuffer.cap = Len(NewBuffer.bytes)
      /\ NewBuffer.place \in {"inline", "heap"}
      /\ NewBuffer.place = "heap" <=> NewBuffer.block # NoBlock
      /\ NewBuffer.place = "inline" => Len(NewBuffer.bytes) = N
      /\ NewBuffer.cursor = 0
  BY NewFacts
<1> QED
  BY <1>1, <1>2, <1>3, CopyStep

LEMMA CopyAssignStep ==
  ASSUME Each, NEW o \in Objects, NEW p \in Objects, CopyAssign(o, p)
  PROVE  Each'
<1>1. /\ origin[o] = "constructed" /\ buf[p].place # "dead" /\ origin[p] # "moved_from"
      /\ Install(o, Copied(buf[o], buf[p]))
      /\ origin' = [origin EXCEPT ![o] = "assigned"] /\ wrote' = [wrote EXCEPT ![o] = wrote[p]]
  BY Zenon DEF CopyAssign, Live
<1>2. Good(buf[o], "constructed", wrote[o])
  <2>1. Good(buf[o], origin[o], wrote[o])
    BY DEF Each, AllGood
  <2> QED
    BY <1>1, <2>1
<1>3. /\ Draft(buf[o]) /\ buf[o].cap = Len(buf[o].bytes)
      /\ buf[o].place \in {"inline", "heap"}
      /\ buf[o].place = "heap" <=> buf[o].block # NoBlock
      /\ buf[o].place = "inline" => Len(buf[o].bytes) = N
  BY <1>2, BufferIsDraft DEF Good
<1> QED
  BY <1>1, <1>3, CopyStep

(* Moving the content of p to o, which is b so far.                        *)
LEMMA MoveStep ==
  ASSUME Each, NEW o \in Objects, NEW p \in Objects, NEW b, NEW g \in {"copied", "assigned"},
         IsBuffer(b), b.place = "inline" => Len(b.bytes) = N,
         Owned(b) = Owned(buf[o]), g = "copied" => b.cursor = 0,
         Move(o, p, b),
         origin' = [origin EXCEPT ![o] = g, ![p] = "moved_from"]
  PROVE  Each'
<1> DEFINE source == buf[p]
           w == wrote[p]
           c == Moved(b, source)
           d == GiveStorage(source)
<1>1. /\ o # p /\ origin[p] \in {"constructed", "copied"}
      /\ b.cursor + source.cursor <= MaxCursor
      /\ buf' = [buf EXCEPT ![o] = c, ![p] = d]
      /\ heap' = heap \ Owned(b)
      /\ wrote' = [wrote EXCEPT ![o] = w, ![p] = NothingWritten]
  BY Zenon DEF Move
<1>2. Good(source, origin[p], w) /\ DOMAIN buf = Objects /\ Owners
  BY DEF Each, AllGood, Functions
<1> HIDE DEF source, w
<1>3. /\ IsBuffer(source) /\ Draft(source) /\ HeaderOf(source)
      /\ w \in PartsOf /\ Content(source, w)
      /\ source.place \in {"inline", "heap"}
      /\ source.place = "heap" <=> source.block # NoBlock
      /\ source.place = "inline" => Len(source.bytes) = N
      /\ source.cursor <= Len(source.bytes)
  BY <1>1, <1>2, BufferIsDraft DEF Good
<1>4. /\ source.cursor \in Nat /\ Len(source.bytes) \in Nat /\ IsBytes(source.bytes)
      /\ b.cursor \in Nat /\ IsBytes(b.bytes) /\ N \in Nat \ {0}
      /\ source.cap \in Nat \ {0} /\ source.block \in Blocks \cup {NoBlock}
  BY <1>3, BufferIsDraft, SizesAssumption DEF Draft, IsBytes
(* What o has now.                                                         *)
<1> DEFINE inline == IF b.place = "inline" THEN b.bytes ELSE InlineStorage
           data == ReadBytes(source, source.cursor)
           s == IF source.place # "inline" THEN source.bytes ELSE PutBytes(inline, 0, data)
<1>5. c = [place |-> source.place, block |-> source.block, bytes |-> s,
           cap |-> source.cap, cursor |-> b.cursor + source.cursor]
  BY DEF Moved
<1>6. /\ IsBytes(s) /\ Len(s) = Len(source.bytes)
      /\ \A i \in 1 .. source.cursor : s[i] = source.bytes[i]
  <2>1. CASE source.place # "inline"
    BY <1>4, <2>1
  <2>2. CASE source.place = "inline"
    <3>1. IsBytes(inline) /\ Len(inline) = N
      BY <1>4, NewFacts DEF Draft
    <3>2. /\ Len(data) = source.cursor
          /\ \A i \in 1 .. source.cursor : data[i] = source.bytes[i]
      BY <1>3, <1>4, Read
    <3> DEFINE t == PutBytes(inline, 0, data)
    <3>3. s = t
      BY <2>2
    <3> HIDE DEF inline, data, s
    <3>4. /\ IsBytes(t) /\ Len(t) = N
          /\ \A i \in 1 .. N : t[i] = IF i - 0 \in 1 .. Len(data) THEN data[i - 0] ELSE inline[i]
      <4>1. Len(data) \in Nat /\ 0 \in Nat
        BY <1>4, <3>2
      <4> QED
        <5>1. Patched(t, inline, 0, data)
          BY <3>1, <4>1, Written, Zenon
        <5> QED
          BY <3>1, <5>1 DEF Patched
    <3> HIDE DEF t
    <3>5. ASSUME NEW i \in 1 .. source.cursor
          PROVE  t[i] = source.bytes[i]
      <4>1. i \in 1 .. N /\ i - 0 = i /\ i \in 1 .. Len(data)
        BY <1>3, <1>4, <2>2, <3>2
      <4> QED
        BY <3>2, <3>4, <4>1
    <3> QED
      BY <1>3, <2>2, <3>3, <3>4, <3>5
  <2> QED
    BY <2>1, <2>2
<1> HIDE DEF c, d, s
<1>7. /\ c.place = source.place /\ c.block = source.block /\ c.bytes = s
      /\ c.cap = source.cap /\ c.cursor = b.cursor + source.cursor
      /\ c = [place |-> c.place, block |-> c.block, bytes |-> c.bytes,
              cap |-> c.cap, cursor |-> c.cursor]
  BY <1>5
<1>8. IsBuffer(c)
  <2>1. c.cursor \in 0 .. MaxCursor
    BY <1>1, <1>4, <1>7, SizesAssumption
  <2> QED
    BY <1>3, <1>4, <1>6, <1>7, <2>1 DEF IsBuffer, IsBytes
<1>9. HeaderOf(c) /\ Content(c, w)
  <2>1. /\ c.cursor \in Nat /\ Len(c.bytes) \in Nat /\ source.cursor <= c.cursor
        /\ \A i \in 1 .. source.cursor :
             i <= Len(source.bytes) => i <= Len(c.bytes) /\ c.bytes[i] = source.bytes[i]
    BY <1>4, <1>6, <1>7
  <2> QED
    BY <1>3, <1>4, <2>1, SameContent
<1>10. Good(c, g, w)
  <2>1. g = "copied" => c.cursor <= Len(c.bytes)
    BY <1>3, <1>4, <1>6, <1>7
  <2> QED
    BY <1>3, <1>6, <1>7, <1>8, <1>9, <2>1 DEF Good, Origins
(* What p has left.                                                        *)
<1>11. Good(d, "moved_from", NothingWritten) /\ Owned(d) = {}
  <2>1. CASE source.place = "inline"
    <3>1. d = source
      BY <2>1 DEF d, GiveStorage
    <3> QED
      BY <1>3, <2>1, <3>1, NoContent DEF Good, Origins, Owned
  <2>2. CASE source.place # "inline"
    <3>1. d = [place |-> "null", block |-> NoBlock, bytes |-> <<>>,
               cap |-> source.cap, cursor |-> source.cursor]
      BY <2>2 DEF d, GiveStorage
    <3>2. /\ d.place = "null" /\ d.block = NoBlock /\ d.bytes = <<>>
          /\ d.cap = source.cap /\ d.cursor = source.cursor
      BY <3>1
    <3>3. Len(<<>>) = 0 /\ <<>> = [i \in 1 .. 0 |-> <<>>[i]]
      OBVIOUS
    <3>4. IsBuffer(d)
      BY <1>3, <3>1, <3>2, <3>3 DEF IsBuffer
    <3> QED
      BY <3>2, <3>4, NoContent DEF Good, Origins, Owned
  <2> QED
    BY <2>1, <2>2
<1>12. Owned(c) = Owned(buf[p])
  BY <1>7 DEF Owned, source
<1>13. /\ DOMAIN buf' = Objects
       /\ \A q \in Objects : buf'[q] = IF q = o THEN c ELSE IF q = p THEN d ELSE buf[q]
       /\ Owners'
  BY <1>1, <1>2, <1>11, <1>12, TwoChange
<1>14. /\ origin' = [q \in Objects |-> IF q = p THEN "moved_from"
                                     ELSE IF q = o THEN g ELSE origin[q]]
       /\ wrote' = [q \in Objects |-> IF q = p THEN NothingWritten
                                    ELSE IF q = o THEN w ELSE wrote[q]]
  BY <1>1 DEF Each, Functions
<1>15. o # p
  BY <1>1
<1>16. DOMAIN buf' = Objects /\ Functions' /\ Owners'
  BY <1>13, <1>14 DEF Functions
<1>17. /\ buf'[o] = c /\ origin'[o] = g /\ wrote'[o] = w
       /\ buf'[p] = d /\ origin'[p] = "moved_from" /\ wrote'[p] = NothingWritten
       /\ \A q \in Objects :
            q # o /\ q # p => buf'[q] = buf[q] /\ origin'[q] = origin[q] /\ wrote'[q] = wrote[q]
  BY <1>13, <1>14, <1>15
<1> QED
  <2>1. Good(c, g, w) /\ Good(d, "moved_from", NothingWritten) /\ Functions' /\ Owners'
    BY <1>10, <1>11, <1>16
  <2> QED
    BY <2>1, <1>15, <1>17, TwoGood, Zenon

LEMMA MoveConstructStep ==
  ASSUME Each, NEW o \in Objects, NEW p \in Objects, MoveConstruct(o, p)
  PROVE  Each'
<1>1. /\ buf[o].place = "dead" /\ Move(o, p, NewBuffer)
      /\ origin' = [origin EXCEPT ![o] = "copied", ![p] = "moved_from"]
  BY Zenon DEF MoveConstruct, Live
<1>2. Owned(NewBuffer) = Owned(buf[o])
  BY <1>1, NewFacts DEF Owned
<1> QED
  BY <1>1, <1>2, NewFacts, MoveStep

LEMMA MoveAssignStep ==
  ASSUME Each, NEW o \in Objects, NEW p \in Objects, MoveAssign(o, p)
  PROVE  Each'
<1>1. /\ Move(o, p, buf[o])
      /\ origin' = [origin EXCEPT ![o] = "assigned", ![p] = "moved_from"]
  BY Zenon DEF MoveAssign
<1>2. IsBuffer(buf[o]) /\ (buf[o].place = "inline" => Len(buf[o].bytes) = N)
  BY DEF Each, AllGood, Good
<1> QED
  BY <1>1, <1>2, MoveStep

LEMMA DestroyStep ==
  ASSUME Each, NEW o \in Objects, Destroy(o)
  PROVE  Each'
<1>1. /\ buf' = [buf EXCEPT ![o] = NoBuffer]
      /\ heap' = heap \ Owned(buf[o])
      /\ origin' = [origin EXCEPT ![o] = "none"]
      /\ wrote' = [wrote EXCEPT ![o] = NothingWritten]
  BY Zenon DEF Destroy
<1>2. DOMAIN buf = Objects /\ Owners
  BY DEF Each, Functions
<1>3. /\ DOMAIN buf' = Objects
      /\ \A p \in Objects : buf'[p] = IF p = o THEN NoBuffer ELSE buf[p]
      /\ Owners'
  <2>1. /\ Owned(NoBuffer) \subseteq Blocks
        /\ Owned(NoBuffer) \cap heap \subseteq Owned(buf[o])
        /\ heap' = (heap \ Owned(buf[o])) \cup Owned(NoBuffer)
    BY <1>1, Destroyed
  <2> QED
    BY <1>1, <1>2, <2>1, OneChanges
<1> QED
  BY <1>1, <1>3, Destroyed, OneGood

-----------------------------------------------------------------------------
(***************************************************************************)
(* Theorems.                                                               *)
(***************************************************************************)

LEMMA NextStep ==
  ASSUME Each, [Next]_vars
  PROVE  Each'
<1>1. CASE Next
  <2>1. PICK o \in Objects :
          \/ Construct(o) \/ Write(o) \/ Destroy(o)
          \/ \E p \in Objects : \/ CopyConstruct(o, p) \/ CopyAssign(o, p)
                                \/ MoveConstruct(o, p) \/ MoveAssign(o, p)
    BY <1>1, Zenon DEF Next
  <2>2. CASE Construct(o)
    BY <2>2, ConstructStep
  <2>3. CASE Write(o)
    <3>1. PICK part \in Parts, length \in Lengths, item \in Items : WritePart(o, part, length, item)
      BY <2>3, Zenon DEF Write
    <3> QED
      BY <3>1, WriteStep
  <2>4. CASE Destroy(o)
    BY <2>4, DestroyStep
  <2>5. CASE \E p \in Objects : \/ CopyConstruct(o, p) \/ CopyAssign(o, p)
                                \/ MoveConstruct(o, p) \/ MoveAssign(o, p)
    <3>1. PICK p \in Objects : \/ CopyConstruct(o, p) \/ CopyAssign(o, p)
                               \/ MoveConstruct(o, p) \/ MoveAssign(o, p)
      BY <2>5, Zenon
    <3> QED
      BY <3>1, CopyConstructStep, CopyAssignStep, MoveConstructStep, MoveAssignStep
  <2> QED
    BY <2>1, <2>2, <2>3, <2>4, <2>5
<1>2. CASE UNCHANGED vars
  <2>1. buf' = buf /\ heap' = heap /\ origin' = origin /\ wrote' = wrote
    BY <1>2, Zenon DEF vars
  <2> QED
    BY <2>1 DEF Each, Functions, Owners, AllGood
<1> QED
  BY <1>1, <1>2

(* The invariant of the operations of LogBuffer holds, for every number of *)
(* objects and blocks, size of the inline storage and lengths of payloads. *)
THEOREM Inductive == Spec => []IInv
<1>1. Spec => []Each
  BY InitStep, NextStep, PTL DEF Spec
<1> QED
  BY <1>1, ByObject, PTL

(* No operation of LogBuffer (copying, moving, growing, destroying) leaks  *)
(* a heap block, or gives it a second owner.                               *)
THEOREM OneOwner == Spec => []BlocksHaveOneOwner
<1>1. IInv => BlocksHaveOneOwner
  BY DEF IInv
<1> QED
  BY <1>1, Inductive, PTL

(* What EventLogBuffer wrote reads back at its offsets, in the buffer that *)
(* it was written to and in every one that the content came to since.      *)
THEOREM Offsets == Spec => []OffsetsKept
<1>1. IInv => OffsetsKept
  BY DEF IInv
<1> QED
  BY <1>1, Inductive, PTL

(* A buffer that was constructed, copied or moved to is never larger than  *)
(* its storage, so that copying it reads only what it has.                 *)
THEOREM Storage == Spec => []StorageHoldsSize
<1>1. IInv => StorageHoldsSize
  BY DEF IInv
<1> QED
  BY <1>1, Inductive, PTL

=============================================================================
