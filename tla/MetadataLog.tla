----------------------------- MODULE MetadataLog -----------------------------
(***************************************************************************)
(* The write-ahead log of one node's metadata store: changes, crashes that *)
(* tear the record being written, writes that fail, and the replay.        *)
(*                                                                         *)
(* Source: internal/metadata/wal.go, RecordPlacement, DeleteScoped and     *)
(* CreateBucket, DeleteBucket of internal/metadata/store.go, and the start *)
(* of cmd/node/main.go.                                                    *)
(*                                                                         *)
(* The store is abstracted to a value per key (a manifest, a credential or *)
(* a bucket), Nil when it has none.  A line of the file is the sequence of *)
(* the pieces of records written to it: it decodes when it is exactly one  *)
(* whole record.  Its checksum is then taken again, over the record as it  *)
(* was decoded and marshalled once more.  That need not be what was written*)
(* (Garbled): encoding/json writes a byte that is no UTF-8 as \ufffd and,  *)
(* once this is read, as the character it stands for.  Every earlier record*)
(* is on disk when a call returns, for WriteRecord calls Sync.             *)
(***************************************************************************)
EXTENDS Naturals, Sequences, SequencesExt

CONSTANTS
  Key,
  Val,
  Nil,          \* no value
  Garbled,      \* the records that do not pass their own checksum when read
  MaxChanges,   \* bound: changes of the store
  MaxCrashes,   \* bound: crashes
  MaxShort      \* bound: writes that fail while the node keeps running

ASSUME NilAssumption == Nil \notin Val
ASSUME GarbledAssumption == Garbled \subseteq [key : Key, val : Val \cup {Nil}]
ASSUME BoundAssumption == {MaxChanges, MaxCrashes, MaxShort} \subseteq Nat

VARIABLES
  pc,       \* "open": the node serves; "replay": it reads the log; "down"
  mem,      \* the store
  lines,    \* the file
  ended,    \* does the file end with a newline
  offset,   \* lines replayed so far (lastCleanOffset)
  changes, crashes, short,  \* what the bounds leave
  promise,  \* history: promise[k], the values a reader of k may expect
  intact,   \* history: no write has failed, none was cut at its newline only
  behind    \* history: the keys recorded since a garbled record was, with its own

file == <<lines, ended>>
budget == <<changes, crashes, short>>
vars == <<pc, mem, file, offset, budget, promise, intact, behind>>

Value == Val \cup {Nil}
Record == [key : Key, val : Value]
Piece == [rec : Record, whole : BOOLEAN]
Empty == [k \in Key |-> Nil]

TypeOK ==
  /\ pc \in {"open", "replay", "down"}
  /\ mem \in [Key -> Value]
  /\ \A i \in DOMAIN lines : lines[i] # <<>> /\ lines[i] \in Seq(Piece)
  /\ ended \in BOOLEAN
  /\ lines = <<>> => ended
  /\ offset \in 0..Len(lines)
  /\ changes \in 0..MaxChanges /\ crashes \in 0..MaxCrashes /\ short \in 0..MaxShort
  /\ promise \in [Key -> SUBSET Value]
  /\ intact \in BOOLEAN
  /\ behind \in SUBSET Key

Init ==
  /\ pc = "open"
  /\ mem = Empty
  /\ lines = <<>>
  /\ ended = TRUE
  /\ offset = 0
  /\ changes = MaxChanges /\ crashes = MaxCrashes /\ short = MaxShort
  /\ promise = [k \in Key |-> {Nil}]
  /\ intact = TRUE
  /\ behind = {}

Whole(r) == [rec |-> r, whole |-> TRUE]
Part(r) == [rec |-> r, whole |-> FALSE]
Decodes(line) == Len(line) = 1 /\ line[1].whole
Verifies(line) == Decodes(line) /\ line[1].rec \notin Garbled

-----------------------------------------------------------------------------
(* Faulty variants *)

\* A torn line is skipped and left in the file.
ReplaySkipsTorn ==
  /\ pc = "replay" /\ offset < Len(lines)
  /\ ~Verifies(lines[offset + 1])
  /\ offset' = offset + 1
  /\ UNCHANGED <<pc, mem, file, budget, promise, intact, behind>>

\* The file is cut one line too late, or one too early.
TruncateAfter ==
  /\ lines' = SubSeq(lines, 1, offset + 1)
  /\ ended' = TRUE

TruncateBefore ==
  /\ lines' = SubSeq(lines, 1, offset - 1)
  /\ ended' = TRUE

-----------------------------------------------------------------------------
(* The file *)

\* O_APPEND: behind the last byte, on the last line unless that has ended.
AppendPiece(p, newline) ==
  /\ lines' = IF ended THEN Append(lines, <<p>>)
              ELSE [lines EXCEPT ![Len(lines)] = Append(@, p)]
  /\ ended' = newline

\* What a crash leaves of a write: no byte, some bytes of the record, or all of
\* it but the newline.
Torn(r) ==
  \/ UNCHANGED <<file, intact>>
  \/ AppendPiece(Part(r), FALSE) /\ UNCHANGED intact
  \/ AppendPiece(Whole(r), FALSE) /\ intact' = FALSE

\* f.Truncate(lineStartOffset)
Truncate ==
  /\ lines' = SubSeq(lines, 1, offset)
  /\ ended' = TRUE

-----------------------------------------------------------------------------
(* Changes *)

\* RecordPlacement, DeleteScoped and the like: nothing is logged when there is
\* nothing to delete.
Changes(r) ==
  /\ pc = "open"
  /\ changes > 0
  /\ r.val = Nil => mem[r.key] # Nil
  /\ changes' = changes - 1

\* Memory first, then the log; the client is answered afterwards.
RecordPlacement(r) ==
  /\ Changes(r)
  /\ mem' = [mem EXCEPT ![r.key] = r.val]
  /\ AppendPiece(Whole(r), TRUE)
  /\ promise' = [promise EXCEPT ![r.key] = {r.val}]
  /\ behind' = IF behind # {} \/ r \in Garbled THEN behind \cup {r.key} ELSE behind
  /\ UNCHANGED <<pc, offset, crashes, short, intact>>

\* The write fails, for lack of space, after some bytes or none.  The error is
\* ignored and the client told that the change is durable.
RecordUnlogged(r) ==
  /\ Changes(r)
  /\ short > 0
  /\ short' = short - 1
  /\ intact' = FALSE
  /\ mem' = [mem EXCEPT ![r.key] = r.val]
  /\ UNCHANGED file \/ AppendPiece(Part(r), FALSE)
  /\ promise' = [promise EXCEPT ![r.key] = {r.val}]
  /\ UNCHANGED <<pc, offset, crashes, behind>>

\* The node crashes in the middle of a change: nobody was answered, so the old
\* value may be found as well as the new one.
CrashInChange(r) ==
  /\ Changes(r)
  /\ crashes > 0
  /\ crashes' = crashes - 1
  /\ Torn(r)
  /\ pc' = "down"
  /\ mem' = Empty
  /\ promise' = [promise EXCEPT ![r.key] = @ \cup {r.val}]
  /\ UNCHANGED <<offset, short, behind>>

\* The node crashes between two changes, or while it replays the log.
Crash ==
  /\ pc # "down"
  /\ crashes > 0
  /\ crashes' = crashes - 1
  /\ pc' = "down"
  /\ mem' = Empty
  /\ UNCHANGED <<file, offset, changes, short, promise, intact, behind>>

-----------------------------------------------------------------------------
(* ReplayWAL *)

Start ==
  /\ pc = "down"
  /\ pc' = "replay"
  /\ offset' = 0
  /\ UNCHANGED <<mem, file, budget, promise, intact, behind>>

\* The replay is over and the store is served: what a reader finds is what later
\* readers may rely on.
Serve ==
  /\ pc' = "open"
  /\ promise' = [k \in Key |-> IF mem[k] \in promise[k] THEN {mem[k]} ELSE promise[k]]
  /\ UNCHANGED <<mem, offset, budget, intact, behind>>

\* A line that decodes and has the right checksum is applied.
ReplayLine ==
  LET line == lines[offset + 1]
  IN /\ pc = "replay" /\ offset < Len(lines)
     /\ Verifies(line)
     /\ mem' = [mem EXCEPT ![line[1].rec.key] = line[1].rec.val]
     /\ offset' = offset + 1
     /\ UNCHANGED <<pc, file, budget, promise, intact, behind>>

\* The line read last has no newline behind it (readErr is io.EOF).
Unterminated == offset + 1 = Len(lines) /\ ~ended

\* At one that does not decode the file is cut, wherever in it that is; at one
\* with a wrong checksum only if it has no newline.
ReplayTorn ==
  /\ pc = "replay" /\ offset < Len(lines)
  /\ ~Verifies(lines[offset + 1])
  /\ ~Decodes(lines[offset + 1]) \/ Unterminated
  /\ Truncate
  /\ Serve

\* Else ReplayWAL returns an error and leaves the file.  main logs a warning and
\* goes on as if the log had been read: later records go behind the line.
ReplayMismatch ==
  /\ pc = "replay" /\ offset < Len(lines)
  /\ Decodes(lines[offset + 1]) /\ ~Verifies(lines[offset + 1])
  /\ ~Unterminated
  /\ UNCHANGED file
  /\ Serve

\* io.EOF: main goes on to OpenWAL.
ReplayEnds ==
  /\ pc = "replay" /\ offset = Len(lines)
  /\ UNCHANGED file
  /\ Serve

-----------------------------------------------------------------------------
Next ==
  \/ \E r \in Record : RecordPlacement(r) \/ RecordUnlogged(r) \/ CrashInChange(r)
  \/ Crash
  \/ Start
  \/ ReplayLine
  \/ ReplayTorn
  \/ ReplayMismatch
  \/ ReplayEnds

Spec == Init /\ [][Next]_vars

-----------------------------------------------------------------------------
(* Properties *)

\* What a replay of the file makes of an empty store.
Replayed(ls) ==
  FoldLeft(LAMBDA m, line : [m EXCEPT ![line[1].rec.key] = line[1].rec.val], Empty, ls)

\* What a replay finds: the lines before the first one that it cannot use.
ReadableLines(ls) ==
  CHOOSE n \in 0..Len(ls) : /\ \A i \in 1..n : Verifies(ls[i])
                            /\ n < Len(ls) => ~Verifies(ls[n + 1])
Recovered(ls) == Replayed(SubSeq(ls, 1, ReadableLines(ls)))

\* A node that serves has the last value answered to a client, or that of a change
\* a crash cut short, and once one of the two has been served it is not taken
\* back: for every key that was recorded before any garbled record and not since
\* (wal.go:111-164).  A garbled record costs what is recorded from it on, through
\* every later restart, and nothing else.  A write that failed or lost nothing but
\* its newline ends this.
CommittedIsServed ==
  intact /\ pc = "open" => \A k \in Key \ behind : mem[k] \in promise[k]

\* While a node serves, the lines a replay uses rebuild its memory but for the keys
\* that only a garbled record keeps it from, so the next crash loses no other; and
\* before there is one, no line of the log is unreadable (wal.go:113-158).
LogRebuildsMemory ==
  intact /\ pc = "open" =>
    /\ \A k \in Key \ behind : mem[k] = Recovered(lines)[k]
    /\ behind = {} => ended /\ \A i \in DOMAIN lines : Verifies(lines[i])

\* However the file was damaged, also by writes that failed and by a record that
\* landed on the line of one without a newline, a replay serves what the lines
\* before the first damaged one hold, keeps them, and finds the same in the file it
\* leaves.  No other line stays, unless the first damaged one is complete but for a
\* wrong checksum: then the file is left as it is (wal.go:111-164).
ReplayKeepsReadable ==
  [][pc = "replay" /\ pc' = "open" =>
       LET n == ReadableLines(lines)
       IN /\ mem' = Recovered(lines) /\ mem' = Recovered(lines')
          /\ \/ lines' = SubSeq(lines, 1, n)
             \/ n < Len(lines) /\ Decodes(lines[n + 1]) /\ UNCHANGED file]_vars

\* The log implements a store on which each change is one step and each recovery
\* another: a crash at any point of a change, between changes or in a replay
\* leaves what the next replay finds, for all keys at once, and that is all the
\* answered changes and no interrupted one, until a write fails or is cut at its
\* newline, or a record is garbled; also then a write costs at most one record
\* before it (wal.go:64-164).
Durable == INSTANCE DurableStore WITH
  up <- pc = "open",
  live <- IF pc = "open" THEN mem ELSE Empty,
  durable <- Recovered(lines),
  sound <- intact /\ behind = {}
ImplementsDurableStore == Durable!Spec
=============================================================================
