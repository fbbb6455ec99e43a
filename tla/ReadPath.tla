------------------------------- MODULE ReadPath -------------------------------
(***************************************************************************)
(* The bytes of one object, from the frames its body arrives in to the     *)
(* frames a reader is handed: BufferedByteStream cuts the body into blocks,*)
(* each block is a file, and BlockStream streams a window of the object    *)
(* back out of the files, while the object may be deleted or overwritten   *)
(* under the reader, and a file or the record's list of blocks be damaged. *)
(*                                                                         *)
(* A byte is its position in the body, so what a reader is handed shows    *)
(* where it came from; Rot stands for a byte that is no byte of the body.  *)
(* A hash is what it was taken of, so two are equal when that is.          *)
(* The three readers share the stream: GetObject of the S3 front end (any  *)
(* window), GET of the RESP one (which reads the record twice) and the     *)
(* offline check (which hashes every file first, on a store nobody else    *)
(* has open).                                                              *)
(***************************************************************************)
EXTENDS Integers, Sequences, SequencesExt, Functions

CONSTANTS BlockSize,    \* BLOCK_SIZE
          MaxInlined,   \* max_inlined_data_length
          MaxSize       \* bound: length of the body

ASSUME ReadPathAssumption ==
    /\ BlockSize \in Nat \ {0} /\ MaxInlined \in Nat /\ MaxSize \in Nat

Rot == 0

VARIABLES got,      \* bytes of the body received
          buffer,   \* BufferedByteStream: the block being filled
          blocks,   \* the blocks the body was cut into
          record,   \* the object record: "none", "inlined", "blocks", or "replaced" by
                    \* the inlined record of another value
          list,     \* the block list of the record, as indices of blocks
          digest,   \* the hash in the record: of how many part hashes (0: of the bytes)
          known,    \* indices of the blocks that have a record in _BLOCKS
          disk,     \* block index -> the content of its file; no entry, no file
          damaged,  \* what was damaged: "none", a "file", the "list"
          deleted,  \* the object was deleted or overwritten
          reader    \* the reader and its BlockStream

body == <<got, buffer, blocks>>
files == <<known, disk>>
readVars == <<body, record, list, digest, files, damaged, deleted, reader>>

Content == [i \in 1 .. got |-> i]
Min2(a, b) == IF a < b THEN a ELSE b

NoFile == <<-1>>

\* at: "idle", "again" (the record a second time), "paths", "hash", "stream",
\* "opening", "ended", "failed".  window: start and exclusive end.
Idle == [at |-> "idle", kind |-> "s3", start |-> 0, end |-> 0, verify |-> FALSE,
         list |-> <<>>, next |-> 1, fp |-> 1, reading |-> 0, file |-> NoFile, seeked |-> TRUE,
         processed |-> 0, out |-> <<>>, faults |-> {}]

ReadInit ==
    /\ got = 0 /\ buffer = <<>> /\ blocks = <<>>
    /\ record = "none" /\ list = <<>> /\ digest = [parts |-> 0, of |-> <<>>]
    /\ known = {} /\ disk = <<>>
    /\ damaged = "none" /\ deleted = FALSE
    /\ reader = Idle

-----------------------------------------------------------------------------
(* The body comes in *)

\* Mutant: the comparison an earlier version made, of the buffer instead of the frame.
FillByBuffer(bytes) ==
    LET room == BlockSize - Len(buffer)
        all == buffer \o bytes
        rest == SubSeq(bytes, room + 1, Len(bytes))
        full == (Len(rest) - 1) \div BlockSize
        cut == [i \in 1 .. full |-> SubSeq(rest, (i - 1) * BlockSize + 1, i * BlockSize)]
    IN  CASE Len(bytes) < room -> <<blocks, all>>
          [] Len(bytes) = room \/ (Len(bytes) > room /\ Len(buffer) = room) ->
                <<Append(blocks, all), <<>>>>
          [] OTHER -> <<Append(blocks, SubSeq(all, 1, BlockSize)) \o cut,
                       SubSeq(rest, full * BlockSize + 1, Len(rest))>>

\* One frame: the blocks so far and the buffer after it. A frame longer than the room
\* left leaves its last 1 .. BlockSize bytes in the buffer.
Fill(bytes) ==
    LET room == BlockSize - Len(buffer)
        all == buffer \o bytes
        rest == SubSeq(bytes, room + 1, Len(bytes))
        full == (Len(rest) - 1) \div BlockSize
        cut == [i \in 1 .. full |-> SubSeq(rest, (i - 1) * BlockSize + 1, i * BlockSize)]
    IN  CASE Len(bytes) < room -> <<blocks, all>>
          [] Len(bytes) = room -> <<Append(blocks, all), <<>>>>
          [] OTHER -> <<Append(blocks, SubSeq(all, 1, BlockSize)) \o cut,
                       SubSeq(rest, full * BlockSize + 1, Len(rest))>>

Uploading == record = "none" /\ ~deleted

Frame(n) ==
    /\ Uploading /\ got + n <= MaxSize
    /\ got' = got + n
    /\ LET filled == Fill([i \in 1 .. n |-> got + i])
       IN  blocks' = filled[1] /\ buffer' = filled[2]
    /\ UNCHANGED <<record, list, digest, files, damaged, deleted, reader>>

\* The end of the body: what is buffered is the last block. The short body of a put never
\* was a stream: it goes into the record. An object completed from so many parts (here
\* the body is its one part) has the hash of the parts' hashes.
Stored(parts) ==
    LET inlined == parts = 0 /\ got <= MaxInlined
    IN  /\ Uploading
        /\ blocks' = IF inlined THEN <<>>
                     ELSE IF buffer = <<>> THEN blocks ELSE Append(blocks, buffer)
        /\ buffer' = <<>>
        /\ record' = IF inlined THEN "inlined" ELSE "blocks"
        /\ list' = [i \in DOMAIN blocks' |-> i]
        /\ digest' = [parts |-> parts, of |-> Content]
        /\ known' = DOMAIN blocks'
        /\ disk' = blocks'
        /\ UNCHANGED <<got, damaged, deleted, reader>>

-----------------------------------------------------------------------------
(* What happens to the object meanwhile *)

Without(f, x) == [y \in DOMAIN f \ {x} |-> f[y]]

\* delete_object takes the record, then release_blocks each block's record and file.
DeleteObject ==
    /\ record \in {"inlined", "blocks"} /\ reader.kind # "check"
    /\ record' = "none" /\ deleted' = TRUE
    /\ UNCHANGED <<body, list, digest, files, damaged, reader>>

\* SET in a namespace that is user-keyed by now, under a key that has blocks: the record
\* is an inlined one, and the blocks are released.
Overwrite ==
    /\ record = "blocks" /\ reader.kind # "check"
    /\ record' = "replaced" /\ deleted' = TRUE
    /\ UNCHANGED <<body, list, digest, files, damaged, reader>>

DropBlock(b) ==
    /\ deleted /\ b \in known
    /\ known' = known \ {b}
    /\ UNCHANGED <<body, record, list, digest, disk, damaged, deleted, reader>>

UnlinkBlock(b) ==
    /\ deleted /\ b \in DOMAIN disk \ known
    /\ disk' = Without(disk, b)
    /\ UNCHANGED <<body, record, list, digest, known, damaged, deleted, reader>>

\* A file cut short, grown, with a byte changed, or gone.
Damages(bytes) ==
    {SubSeq(bytes, 1, n) : n \in 0 .. Len(bytes) - 1}
        \cup {Append(bytes, Rot)}
        \cup {[bytes EXCEPT ![n] = Rot] : n \in DOMAIN bytes}

Damageable == record = "blocks" /\ damaged = "none" /\ reader.at = "idle"

Damage(b) ==
    /\ Damageable /\ b \in DOMAIN disk
    /\ damaged' = "file"
    /\ disk' \in {[disk EXCEPT ![b] = d] : d \in Damages(disk[b])} \cup {Without(disk, b)}
    /\ UNCHANGED <<body, record, list, digest, known, deleted, reader>>

\* "right blocks, wrong order or wrong set": two blocks of the list swapped, one left
\* out, or one in the place of another.
DamageList ==
    /\ Damageable
    /\ damaged' = "list"
    /\ \E i, j \in DOMAIN list :
          list' \in {[list EXCEPT ![i] = list[j], ![j] = list[i]],
                     [list EXCEPT ![i] = list[j]],
                     RemoveAt(list, i)}
    /\ UNCHANGED <<body, record, digest, files, deleted, reader>>

-----------------------------------------------------------------------------
(* From the record to the paths *)

Window(r) == SubSeq(Content, r.start + 1, r.end)

\* A request that finds a record. A range is resolved against the size first, only a
\* read of everything is verified, and an inlined object is answered from its record.
\* GET of the RESP front end comes back for the record when it wants the paths.
BeginRead(kind, start, end, verify) ==
    /\ reader.at = "idle" /\ record \in {"inlined", "blocks"}
    /\ kind = "check" => ~verify
    /\ LET r == [Idle EXCEPT !.kind = kind, !.start = start, !.end = end, !.verify = verify,
                             !.list = list]
       IN  reader' = CASE record = "inlined" -> [r EXCEPT !.at = "ended", !.out = Window(r)]
                       [] record = "blocks" /\ kind = "resp" -> [r EXCEPT !.at = "again"]
                       [] OTHER -> [r EXCEPT !.at = "paths"]
    /\ UNCHANGED <<body, record, list, digest, files, damaged, deleted>>

SizeOf(b) == Len(blocks[b])

\* The bytes the record says there are; the check goes by the blocks' own sizes.
SizeRead(kind) ==
    IF kind = "check" /\ record = "blocks"
    THEN SumFunction([i \in DOMAIN list |-> SizeOf(list[i])]) ELSE got

ReadAll ==
    \E kind \in {"s3", "resp", "check"}, verify \in BOOLEAN :
        BeginRead(kind, 0, SizeRead(kind), verify)

ReadRange == \E start \in 0 .. got - 1 : \E end \in start + 1 .. got : BeginRead("s3", start, end, FALSE)

Advance(r) == reader' = r /\ UNCHANGED <<body, record, list, digest, files, damaged, deleted>>

\* The second read of the record: its paths are those of the record that is there now.
RecordAgain ==
    /\ reader.at = "again"
    /\ Advance(CASE record = "none" -> [reader EXCEPT !.at = "failed"]
                 [] record = "replaced" -> [reader EXCEPT !.at = "paths", !.list = <<>>]
                 [] OTHER -> [reader EXCEPT !.at = "paths"])

\* get_object_paths: a block whose record has gone fails the request.
NextPath ==
    /\ reader.at = "paths" /\ reader.next <= Len(reader.list)
    /\ Advance(IF reader.list[reader.next] \in known THEN [reader EXCEPT !.next = @ + 1]
               ELSE [reader EXCEPT !.at = "failed"])

PathsKnown ==
    /\ reader.at = "paths" /\ reader.next > Len(reader.list)
    /\ Advance([reader EXCEPT !.at = IF reader.kind = "check" THEN "hash" ELSE "stream"])

\* verify_blocks: a file that cannot be read, or hashes to something else.
Intact(b) == b \in DOMAIN disk /\ disk[b] = blocks[b]

VerifyBlocks ==
    /\ reader.at = "hash"
    /\ Advance([reader EXCEPT !.at = "stream",
                              !.faults = {b \in ToSet(reader.list) : ~Intact(b)}])

\* Mutant: the blocks are believed, the object is not hashed.
PassedByBlocks == reader.kind = "check" /\ reader.at = "ended" /\ reader.faults = {} /\ digest.parts = 0

\* What check_integrity passes: no block at fault, and the bytes assembled hash to the
\* hash in the record.
Passed ==
    /\ reader.kind = "check" /\ reader.at = "ended" /\ reader.faults = {}
    /\ digest = [parts |-> 0, of |-> reader.out]

-----------------------------------------------------------------------------
(* BlockStream::poll_next, one branch an action. A consumer stops at an error. *)

Polling == reader.at = "stream" /\ reader.processed < reader.end
Opened == reader.file # NoFile
Paths == Len(reader.list)

PollEnd ==
    /\ reader.at = "stream" /\ reader.processed >= reader.end
    /\ Advance([reader EXCEPT !.at = "ended"])

Seeking == Polling /\ Opened /\ ~reader.seeked /\ reader.start > reader.processed

\* Mutant: the bytes seeked over are not accounted for.
PollSeekUncounted ==
    /\ Seeking
    /\ Advance([reader EXCEPT !.file = SubSeq(@, reader.start - reader.processed + 1, Len(@)),
                              !.seeked = TRUE])

PollSeek ==
    /\ Seeking
    /\ Advance([reader EXCEPT !.file = SubSeq(@, reader.start - reader.processed + 1, Len(@)),
                              !.seeked = TRUE,
                              !.processed = reader.start])

\* A block is read whole and handed out only if it hashes to its address.
PollVerified ==
    /\ Polling /\ Opened /\ reader.verify
    /\ Advance(IF reader.file = blocks[reader.reading]
               THEN [reader EXCEPT !.file = NoFile, !.processed = @ + Len(reader.file),
                                   !.out = @ \o reader.file]
               ELSE [reader EXCEPT !.at = "failed"])

Plain == Polling /\ Opened /\ ~reader.verify /\ ~Seeking

PollEof ==
    /\ Plain /\ reader.file = <<>>
    /\ Advance([reader EXCEPT !.file = NoFile])

Take(n) ==
    Advance([reader EXCEPT !.file = SubSeq(@, n + 1, Len(@)),
                           !.out = @ \o SubSeq(reader.file, 1, n),
                           !.processed = @ + n])

\* A read may come back with less than was asked for.
PollRead ==
    /\ Plain
    /\ \E n \in 1 .. Min2(reader.end - reader.processed, Len(reader.file)) : Take(n)

\* A file that ends before the window starts is not opened.
Skippable ==
    /\ Polling /\ ~Opened /\ reader.fp <= Paths
    /\ reader.processed < reader.start
    /\ reader.processed + SizeOf(reader.list[reader.fp]) <= reader.start

PollSkip ==
    /\ Skippable
    /\ Advance([reader EXCEPT !.processed = @ + SizeOf(reader.list[reader.fp]), !.fp = @ + 1,
                              !.at = IF reader.fp = Paths THEN "ended" ELSE @])

PollExhausted ==
    /\ Polling /\ ~Opened /\ reader.fp > Paths
    /\ Advance([reader EXCEPT !.at = "ended"])

\* fp moves on before the file is open.
PollOpen ==
    /\ Polling /\ ~Opened /\ ~Skippable /\ reader.fp <= Paths
    /\ Advance([reader EXCEPT !.at = "opening", !.reading = reader.list[reader.fp], !.fp = @ + 1])

\* An open file outlives its name.
PollOpened ==
    /\ reader.at = "opening"
    /\ Advance(IF reader.reading \in DOMAIN disk
               THEN [reader EXCEPT !.at = "stream", !.file = disk[reader.reading],
                                   !.seeked = FALSE]
               ELSE [reader EXCEPT !.at = "failed"])

ReadNext ==
    \/ \E n \in 0 .. MaxSize : Frame(n)
    \/ \E parts \in 0 .. 1 : Stored(parts)
    \/ DeleteObject \/ Overwrite \/ DamageList
    \/ \E b \in 1 .. MaxSize : DropBlock(b) \/ UnlinkBlock(b) \/ Damage(b)
    \/ ReadAll \/ ReadRange \/ RecordAgain \/ NextPath \/ PathsKnown \/ VerifyBlocks
    \/ PollEnd \/ PollSeek \/ PollVerified \/ PollEof \/ PollRead
    \/ PollSkip \/ PollExhausted \/ PollOpen \/ PollOpened

-----------------------------------------------------------------------------
(* Properties *)

\* Every block but the last is exactly BLOCK_SIZE long and the last is not empty,
\* however the body was cut into frames (the branches of BufferedByteStream): the same
\* content always has the same blocks.
CutsAreCanonical ==
    \A b \in DOMAIN blocks :
        IF b < Len(blocks) \/ Uploading THEN SizeOf(b) = BlockSize
        ELSE SizeOf(b) \in 1 .. BlockSize

\* On undamaged files, and on any files when the read is verified, a reader is handed
\* the window it asked for, in order and from its first byte on, and a stream that ends
\* without an error has handed out all of it, whatever the deletes in between
\* (bounds, the seek, the skip loop and short reads of poll_next). The exception is the
\* GET of the RESP front end that finds another, inlined, record when it comes back for
\* the paths (read_blocks): it answers with no bytes at all, never with some of them. And
\* no stream hands out more than the length the response advertised, not even over files
\* longer than their records say (the cap on a read of poll_next), but for a verified one
\* over a record that lists the wrong blocks.
WindowServed ==
    /\ damaged # "list" \/ ~reader.verify => Len(reader.out) <= reader.end - reader.start
    /\ (damaged = "none" \/ (damaged = "file" /\ reader.verify)) =>
        /\ IsPrefix(reader.out, Window(reader))
        /\ reader.at = "ended" =>
              \/ reader.out = Window(reader)
              \/ reader.kind = "resp" /\ record = "replaced" /\ reader.out = <<>>

\* The offline check passes an object that was put in one piece exactly when its record
\* lists blocks that make up the content and every one of their files is what was stored:
\* the blocks' hashes see a file cut, grown or changed, the object's hash a list in the
\* wrong order or of the wrong blocks (verify_blocks, read_object and check_integrity).
\* It passes no object completed from parts, whose hash is not one of its bytes.
CheckIsRight ==
    reader.kind = "check" /\ reader.at \in {"ended", "failed"} =>
        (Passed <=> /\ digest.parts = 0
                    /\ record = "blocks" => FlattenSeq([i \in DOMAIN list |-> blocks[list[i]]]) = Content
                    /\ \A b \in ToSet(list) : Intact(b))

===============================================================================
