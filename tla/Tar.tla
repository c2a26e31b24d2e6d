-------------------------------- MODULE Tar --------------------------------
(***************************************************************************)
(* The sizes of tar archives (cli/domain/tar.ts) as `r2-lfs archive` plans  *)
(* them, beside what its writer then writes (cli/infra/tar-writer.ts).      *)
(*                                                                         *)
(* An entry is a file of some bytes, or a symbolic link, whose target is    *)
(* some bytes long; its name is that many bytes.                            *)
(***************************************************************************)
EXTENDS Integers, SequencesExt

BLOCK == 512
END_BYTES == 2 * BLOCK
NAME_FIELD == 100

PaddingFor(size) == IF (size % BLOCK) = 0 THEN 0 ELSE BLOCK - (size % BLOCK)

Digits(n) == IF n < 10 THEN 1 ELSE IF n < 100 THEN 2 ELSE IF n < 1000 THEN 3 ELSE 4

-----------------------------------------------------------------------------
(* paxRecordsFor. *)

\* The length of a record counts its own digits: they are counted again until
\* the count no longer changes.
RecordBytes(tail) ==
  LET grow[length \in 0 .. tail + 9] ==
        IF Digits(length) + tail = length THEN length ELSE grow[Digits(length) + tail]
  IN grow[tail + 1]

\* A space, the key, "=", the value and a line feed.
Record(key, value) == IF value > NAME_FIELD THEN RecordBytes(key + value + 3) ELSE 0

PaxRecords(entry) ==
  Record(4, entry.name) + IF entry.link THEN Record(8, entry.target) ELSE 0

-----------------------------------------------------------------------------
(* What is planned. *)

EntryBytes(entry) ==
  LET pax == PaxRecords(entry)
      data == IF entry.link THEN 0 ELSE entry.size
  IN (IF pax > 0 THEN BLOCK + pax + PaddingFor(pax) ELSE 0) + BLOCK + data + PaddingFor(data)

Fits(bytes, size, limit) == bytes + size <= limit

CanSplit(entries, limit) ==
  \A i \in DOMAIN entries : EntryBytes(entries[i]) + END_BYTES <= limit

\* Entries go into the current part, in order, until one does not fit any more.
Unsplit == [parts |-> <<>>, current |-> <<>>, bytes |-> END_BYTES]

AddEntry(split, entry, limit) ==
  LET size == EntryBytes(entry)
  IN IF ~Fits(split.bytes, size, limit) /\ split.current # <<>>
       THEN [parts |-> Append(split.parts, split.current), current |-> <<entry>>,
             bytes |-> END_BYTES + size]
       ELSE [split EXCEPT !.current = Append(@, entry), !.bytes = @ + size]

AllParts(split) ==
  IF split.current # <<>> THEN Append(split.parts, split.current) ELSE split.parts

SplitParts(entries, limit) ==
  AllParts(FoldLeft(LAMBDA split, entry : AddEntry(split, entry, limit), Unsplit, entries))

-----------------------------------------------------------------------------
(* What is written: lengths of the chunks, in order. *)

WriteItem(entry) ==
  LET pax == PaxRecords(entry)
      size == IF entry.link THEN 0 ELSE entry.size
  IN (IF pax > 0 THEN <<BLOCK, pax, PaddingFor(pax)>> ELSE <<>>) \o <<BLOCK, size, PaddingFor(size)>>

WriteTar(part) == FoldLeft(LAMBDA chunks, e : chunks \o WriteItem(e), <<>>, part) \o <<END_BYTES>>

Written(part) == FoldLeft(+, 0, WriteTar(part))
=============================================================================
