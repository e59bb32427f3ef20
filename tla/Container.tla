------------------------------ MODULE Container -----------------------------
(* A firmware file, layer by layer, in both directions (dt2/container.py,  *)
(* dt2/build.py, dt2/authcode.py, emu/extract.py): how a section is stored,*)
(* the ELE3 container with its table, trailer and preamble, and the SysEx  *)
(* messages that carry it in 7-bit bytes (here, of B - 1 bits).            *)
EXTENDS Lz

CONSTANTS
  ChunkSize,     \* build.CHUNK_SIZE: bytes carried by one message (101)
  Align,     \* sections start at multiples of it (16 bytes)
  TableArea  \* offset of the first section (0x80)

ASSUME ContainerAssumption ==
  /\ ChunkSize \in Nat \ {0}
  /\ Align \in Nat \ {0} /\ Align % 2 = 0
  /\ TableArea \in Nat /\ TableArea % Align = 0

HeaderLen  == 2                    \* the magic and the product, of the source file
CountOff   == HeaderLen            \* container.COUNT_OFF
TableOff   == CountOff + 2         \* container.TABLE_OFF
EntrySz    == 8                    \* container.ENTRY_SZ: four words
TrailerLen == 2

Zeros(n) == [i \in 1..n |-> 0]

(* A whole block is padded with where nothing is missing.                  *)
PadToBug(n, k) == k - (n % k)

(* What is missing to the next multiple of k.                              *)
PadTo(n, k) == (-n) % k

-----------------------------------------------------------------------------
(* Sections.                                                               *)

Packed == {2, 3, 7, 8}

(* build.store_for_section.                                                *)
StoreForSection(id, data) ==
  CASE id \in Packed -> PackSection(data)
    [] id = 4 -> WordBytes(Len(data)) \o WordBytes(0) \o data
    [] id = 5 -> data

(* A header before a plain section is kept.                                *)
ClassifyBug(s) ==
  IF Len(s) >= 4 /\ WordAt(s, 1) + 4 <= Len(s) /\ Sum(SubSeq(s, 5, 4 + WordAt(s, 1))) = WordAt(s, 3)
    THEN [kind |-> "packed", data |-> s] ELSE [kind |-> "raw", data |-> s]

(* extract.classify: packed when the header agrees with what follows it;   *)
(* plain otherwise, less a header whose sum is zero.                       *)
Classify(s) ==
  LET n == WordAt(s, 1)
      sum == WordAt(s, 3)
  IN  IF Len(s) >= 4 /\ n + 4 <= Len(s) /\ Sum(SubSeq(s, 5, 4 + n)) = sum
        THEN [kind |-> "packed", data |-> s]
      ELSE IF Len(s) >= 4 /\ sum = 0 THEN [kind |-> "raw", data |-> SubSeq(s, 5, Len(s))]
      ELSE [kind |-> "raw", data |-> s]

(* What extract and rebuild take a stored section for.                     *)
Extracted(s) ==
  LET c == Classify(s)
  IN  IF c.kind = "packed" THEN DepackSection(c.data)
      ELSE [ok |-> TRUE, why |-> "", out |-> c.data, p |-> 0]

-----------------------------------------------------------------------------
(* The container.                                                          *)

(* Where entry i ends, and the next one starts once aligned.               *)
Ends(entries) ==
  LET f[i \in 0..Len(entries)] ==
        IF i = 0 THEN TableArea
        ELSE LET at == f[i - 1] IN  at + PadTo(at, Align) + Len(entries[i].data)
  IN  f

(* build.build_container: header, count, table, aligned sections, padding, *)
(* and an empty trailer.                                                   *)
BuildContainer(header, entries) ==
  LET n == Len(entries)
      ends == Ends(entries)
      start(i) == ends[i] - Len(entries[i].data)
      entry(i) == WordBytes(entries[i].id) \o WordBytes(start(i))
                    \o WordBytes(Len(entries[i].data)) \o WordBytes(entries[i].dest)
      table == header \o WordBytes(n) \o Concat([i \in 1..n |-> entry(i)])
      body == Concat([i \in 1..n |-> entries[i].data
                        \o (IF i < n THEN Zeros(PadTo(ends[i], Align)) ELSE <<>>)])
      whole == table \o Zeros(TableArea - Len(table)) \o body
  IN  whole \o Zeros(PadTo(Len(whole), Align)) \o Zeros(TrailerLen)

(* container.sections.                                                     *)
Sections(c) ==
  [k \in 1..WordAt(c, CountOff + 1) |->
     LET at == TableOff + EntrySz * (k - 1) + 1
         off == WordAt(c, at + 2)
     IN  [id |-> WordAt(c, at), dest |-> WordAt(c, at + 6),
          data |-> SubSeq(c, off + 1, off + WordAt(c, at + 4))]]

(* HMAC-SHA256 under the device's key: any function of both will do.       *)
Hmac(device, data) ==
  WordBytes(SumTo(Len(data), 2^(2 * B), [i \in 1..Len(data) |-> (i + device) * (data[i] + 1)]))

Body(c) == SubSeq(c, 1, Len(c) - TrailerLen)

(* authcode.seal.                                                          *)
Seal(c, device) == Body(c) \o Hmac(device, Body(c))

(* a ^ b, of words.                                                        *)
Xor(a, b) ==
  LET Bit(n, i) == (n \div 2^(i - 1)) % 2
  IN  SumTo(2 * B, 2^(2 * B),
            [i \in 1..(2 * B) |-> IF Bit(a, i) # Bit(b, i) THEN 2^(i - 1) ELSE 0])

(* build.content_checksum: every word against its number.                  *)
ContentChecksum(c) ==
  LET n == Len(c) \div 2
  IN  SumTo(n, 2^(2 * B), [i \in 1..n |-> Xor(i, WordAt(c, 2 * i - 1))])

Preamble(c) == WordBytes(Len(c)) \o WordBytes(ContentChecksum(c))

-----------------------------------------------------------------------------
(* SysEx.                                                                  *)

High(b) == b \div 2^(B - 1)

(* build.encode_8in7: a marker with the high bits of up to B - 1 bytes,    *)
(* first byte highest, then those bytes without them.                      *)
Marker(c) == SumTo(Len(c), 2^B, [j \in 1..Len(c) |-> High(c[j]) * 2^(B - 1 - j)])
EncodeGroup(c) == <<Marker(c)>> \o [j \in 1..Len(c) |-> c[j] % 2^(B - 1)]

Encode8in7(data) ==
  Concat([g \in 1..PieceCount(data, B - 1) |-> EncodeGroup(Piece(data, B - 1, g))])

(* The loop of container.decode_syx over one payload.                      *)
Decode8in7(p) ==
  Concat([i \in 1..Len(p) |->
    IF i % B = 1 THEN <<>>
    ELSE LET n == (i - 1) % B
             marker == p[i - n]
         IN  <<p[i] + 2^(B - 1) * ((marker \div 2^(B - 1 - n)) % 2)>>])

(* Three bytes of B - 1 bits.                                              *)
Base128(n) ==
  LET k == 2^(B - 1) IN  <<(n \div (k * k)) % k, (n \div k) % k, n % k>>

(* build.packet_checksum, over the counter and the payload.                *)
PacketChecksum(counter, payload, k) ==
  LET s == counter \o payload
      m == 2^(B - 1)
  IN  (k + SumTo(Len(s), m, [i \in 1..Len(s) |-> Xor(s[i], i - 1 + k)])) % m

FirstCounter == 242 % 2^(3 * (B - 1))

DataMessage(chunk, number, k) ==
  LET counter == Base128(FirstCounter + number - 1)
      payload == Encode8in7(chunk \o Zeros(ChunkSize - Len(chunk)))
  IN  [counter |-> counter, payload |-> payload, check |-> PacketChecksum(counter, payload, k)]

(* build._patch_framing_count.                                             *)
PatchFramingCount(msg, n) == [msg EXCEPT !.count = Base128(n)]

(* build.encode_syx: the framing messages of file around the chunks, the   *)
(* last of them padded.                                                    *)
EncodeSyx(stream, file) ==
  LET n == PieceCount(stream, ChunkSize)
  IN  [start |-> PatchFramingCount(file.start, n),
       data |-> [i \in 1..n |-> DataMessage(Piece(stream, ChunkSize, i), i, file.start.k)],
       end |-> PatchFramingCount(file.end, n)]

(* container.decode_syx: the payloads of the data messages; framing is     *)
(* skipped.                                                                *)
DecodeSyx(file) ==
  Concat([i \in 1..Len(file.data) |-> Decode8in7(file.data[i].payload)])

(* container.container: from the magic on, padding of the last chunk and   *)
(* all.                                                                    *)
ContainerOf(file) == SubSeq(DecodeSyx(file), 5, Len(DecodeSyx(file)))

-----------------------------------------------------------------------------
(* The checksum is taken before the trailer is filled in.                  *)
FinishedBug(c, file) ==
  EncodeSyx(Preamble(c) \o Seal(c, file.start.device), file)

(* A file from a container that has its trailer still empty: sealed, then  *)
(* summed, then cut into messages framed like those of file.               *)
Finished(c, file) ==
  LET sealed == Seal(c, file.start.device)
  IN  EncodeSyx(Preamble(sealed) \o sealed, file)

(* build.rebuild, up to the container: the decompressed sections of reps (a*)
(* function of ids) in place of its own; every other one is read and       *)
(* stored again.                                                           *)
Repacked(file, reps) ==
  LET c == ContainerOf(file)
      secs == Sections(c)
      Data(s) == IF s.id \in DOMAIN reps THEN reps[s.id] ELSE Extracted(s.data).out
      entries == [i \in 1..Len(secs) |->
                    [id |-> secs[i].id, dest |-> secs[i].dest,
                     data |-> StoreForSection(secs[i].id, Data(secs[i]))]]
  IN  BuildContainer(SubSeq(c, 1, HeaderLen), entries)

Rebuild(file, reps) == Finished(Repacked(file, reps), file)

(* struct.pack raises on a length, a count or an offset that is no word.   *)
Fits(c) == Len(c) \in Word
=============================================================================
