------------------------------ MODULE DiskStore ------------------------------
(***************************************************************************)
(* The chunk files of one node and the LRU cache in front of them, used by *)
(* concurrent requests: chunk PUTs, chunk GETs and the deletions of the    *)
(* collector.                                                              *)
(*                                                                         *)
(* Source: Put, Get, Exists and Delete of internal/storage/diskstore.go    *)
(* and internal/storage/lru.go.                                            *)
(*                                                                         *)
(* s.mu is held for reading by Exists and the file read of Get, for        *)
(* writing by Delete, and by nothing else: Put creates the file and both   *)
(* fill the cache outside of it.  Every cache method is one step, for it   *)
(* holds the cache's own mutex.  Content is determined by the chunk ID and *)
(* left out.  A temporary file has a name of its own that starts with a    *)
(* dot: nobody reads it, and a crash may leave it behind.                  *)
(***************************************************************************)
EXTENDS Naturals, Sequences, SequencesExt, Folds

CONSTANTS
  Chunk,
  Proc,       \* concurrent requests
  Size,       \* Size[c]: bytes of chunk c
  MaxBytes,   \* capacity of the cache
  NoChunk,
  MaxCrashes  \* bound: restarts of the node

ASSUME SizeAssumption == Size \in [Chunk -> Nat \ {0}]
ASSUME MaxBytesAssumption == MaxBytes \in Nat
ASSUME NoChunkAssumption == NoChunk \notin Chunk
ASSUME CrashAssumption == MaxCrashes \in Nat

VARIABLES
  files,    \* chunk files on disk
  items,    \* evictList of the cache, most recently used first
  bytes,    \* currentBytes
  op,       \* op[p]: the method p runs
  pc,       \* where it is
  chunk,    \* its argument
  stored,   \* history: chunks a Put has confirmed and no Delete has hit since
  clean,    \* history: clean[p], no Delete of chunk[p] has run since p began
  raced,    \* history: chunks a Delete has hit in use since the last restart
  crashes   \* restarts left

cache == <<items, bytes>>
call == <<op, pc, chunk>>
history == <<stored, clean, raced>>
vars == <<files, cache, call, history, crashes>>

Cached(c) == \E i \in DOMAIN items : items[i] = c

\* len and the bytes of a list of chunks
Bytes(s) == FoldLeft(LAMBDA sum, c : sum + Size[c], 0, s)

TypeOK ==
  /\ files \in SUBSET Chunk
  /\ items \in Seq(Chunk) /\ IsInjective(items)
  /\ bytes = Bytes(items) /\ bytes <= MaxBytes
  /\ op \in [Proc -> {"none", "put", "get", "delete"}]
  /\ pc \in [Proc -> {"idle", "start", "exists", "create", "read", "fill", "remove"}]
  /\ chunk \in [Proc -> Chunk \cup {NoChunk}]
  /\ stored \in SUBSET Chunk
  /\ clean \in [Proc -> BOOLEAN]
  /\ raced \in SUBSET Chunk
  /\ crashes \in 0..MaxCrashes

Init ==
  /\ files = {}
  /\ items = <<>>
  /\ bytes = 0
  /\ op = [p \in Proc |-> "none"]
  /\ pc = [p \in Proc |-> "idle"]
  /\ chunk = [p \in Proc |-> NoChunk]
  /\ stored = {}
  /\ clean = [p \in Proc |-> TRUE]
  /\ raced = {}
  /\ crashes = MaxCrashes

-----------------------------------------------------------------------------
(* The LRU cache *)

\* The list without the element of c.
Without(c) ==
  IF Cached(c) THEN RemoveAt(items, CHOOSE i \in DOMAIN items : items[i] = c)
  ELSE items

\* Items leave at the back until the rest fits: total counts all of front.
Evict(front, total) ==
  LET left(n) == total - Bytes(SubSeq(front, n + 1, Len(front)))
  IN \E n \in 0..Len(front) :
       /\ left(n) <= MaxBytes
       /\ \A m \in (n + 1)..Len(front) : left(m) > MaxBytes
       /\ items' = SubSeq(front, 1, n)
       /\ bytes' = left(n)

\* Faulty: an item that is put again is counted again.
CachePutTwice(c) ==
  \/ Size[c] > MaxBytes /\ UNCHANGED cache
  \/ Size[c] <= MaxBytes /\ Evict(<<c>> \o Without(c), bytes + Size[c])

\* ChunkCache.Get: a hit moves the item to the front.
CacheGet(c) ==
  /\ items' = IF Cached(c) THEN <<c>> \o Without(c) ELSE items
  /\ UNCHANGED bytes

\* ChunkCache.Put: the item goes to the front.  A chunk larger than the cache is
\* not cached.
CachePut(c) ==
  \/ Size[c] > MaxBytes /\ UNCHANGED cache
  \/ /\ Size[c] <= MaxBytes
     /\ Evict(<<c>> \o Without(c), IF Cached(c) THEN bytes ELSE bytes + Size[c])

\* ChunkCache.Remove
CacheRemove(c) ==
  /\ items' = Without(c)
  /\ bytes' = IF Cached(c) THEN bytes - Size[c] ELSE bytes

-----------------------------------------------------------------------------
(* Requests *)

Goto(p, l) ==
  /\ pc' = [pc EXCEPT ![p] = l]
  /\ UNCHANGED <<op, chunk>>

Return(p) ==
  /\ op' = [op EXCEPT ![p] = "none"]
  /\ pc' = [pc EXCEPT ![p] = "idle"]
  /\ chunk' = [chunk EXCEPT ![p] = NoChunk]

At(p, o, l) == op[p] = o /\ pc[p] = l

\* Delete holds s.mu for writing from its first step to its last.
Locked == \E q \in Proc : At(q, "delete", "remove")

Call(p, o, c) ==
  /\ pc[p] = "idle"
  /\ op' = [op EXCEPT ![p] = o]
  /\ pc' = [pc EXCEPT ![p] = "start"]
  /\ chunk' = [chunk EXCEPT ![p] = c]
  /\ clean' = [clean EXCEPT ![p] = \A q \in Proc : ~(op[q] = "delete" /\ chunk[q] = c)]
  /\ UNCHANGED <<files, cache, stored, raced, crashes>>

\* A Put returns nil.
Confirm(p) ==
  /\ Return(p)
  /\ stored' = IF clean[p] THEN stored \cup {chunk[p]} ELSE stored
  /\ UNCHANGED <<clean, raced>>

\* Put and Get ask the cache first: a hit is the answer.
PutStart(p) ==
  /\ At(p, "put", "start")
  /\ CacheGet(chunk[p])
  /\ \/ Cached(chunk[p]) /\ Confirm(p)
     \/ ~Cached(chunk[p]) /\ Goto(p, "exists") /\ UNCHANGED history
  /\ UNCHANGED <<files, crashes>>

PutExists(p) ==
  /\ At(p, "put", "exists")
  /\ ~Locked
  /\ Goto(p, IF chunk[p] \in files THEN "fill" ELSE "create")
  /\ UNCHANGED <<files, cache, history, crashes>>

\* The temporary file is written, flushed and renamed; any of that may fail.
PutCreate(p) ==
  /\ At(p, "put", "create")
  /\ \/ /\ files' = files \cup {chunk[p]}
        /\ Goto(p, "fill")
     \/ /\ UNCHANGED files
        /\ Return(p)
  /\ UNCHANGED <<cache, history, crashes>>

PutFill(p) ==
  /\ At(p, "put", "fill")
  /\ CachePut(chunk[p])
  /\ Confirm(p)
  /\ UNCHANGED <<files, crashes>>

GetStart(p) ==
  /\ At(p, "get", "start")
  /\ CacheGet(chunk[p])
  /\ \/ Cached(chunk[p]) /\ Return(p)
     \/ ~Cached(chunk[p]) /\ Goto(p, "read")
  /\ UNCHANGED <<files, history, crashes>>

GetRead(p) ==
  /\ At(p, "get", "read")
  /\ ~Locked
  /\ \/ chunk[p] \in files /\ Goto(p, "fill")
     \/ chunk[p] \notin files /\ Return(p)
  /\ UNCHANGED <<files, cache, history, crashes>>

GetFill(p) ==
  /\ At(p, "get", "fill")
  /\ CachePut(chunk[p])
  /\ Return(p)
  /\ UNCHANGED <<files, history, crashes>>

\* Faulty: the file is removed and the cache left alone.
DeleteStartCached(p) ==
  LET users == {q \in Proc \ {p} : chunk[q] = chunk[p]}
  IN /\ At(p, "delete", "start")
     /\ ~Locked
     /\ UNCHANGED cache
     /\ Goto(p, "remove")
     /\ stored' = stored \ {chunk[p]}
     /\ clean' = [q \in Proc |-> clean[q] /\ q \notin users]
     /\ raced' = IF users = {} THEN raced ELSE raced \cup {chunk[p]}
     /\ UNCHANGED <<files, crashes>>

\* Delete takes the chunk out of the cache ...
DeleteStart(p) ==
  LET users == {q \in Proc \ {p} : chunk[q] = chunk[p]}
  IN /\ At(p, "delete", "start")
     /\ ~Locked
     /\ CacheRemove(chunk[p])
     /\ Goto(p, "remove")
     /\ stored' = stored \ {chunk[p]}
     /\ clean' = [q \in Proc |-> clean[q] /\ q \notin users]
     /\ raced' = IF users = {} THEN raced ELSE raced \cup {chunk[p]}
     /\ UNCHANGED <<files, crashes>>

\* ... and then removes the file.  A request that began meanwhile has raced it.
DeleteRemove(p) ==
  LET users == {q \in Proc \ {p} : chunk[q] = chunk[p]}
  IN /\ At(p, "delete", "remove")
     /\ files' = files \ {chunk[p]}
     /\ Return(p)
     /\ stored' = stored \ {chunk[p]}
     /\ clean' = [q \in Proc |-> clean[q] /\ q \notin users]
     /\ raced' = IF users = {} THEN raced ELSE raced \cup {chunk[p]}
     /\ UNCHANGED <<cache, crashes>>

\* handleDeleteFile takes the file's chunks out of the cache and leaves their files
\* to the collector.
InvalidateChunk(c) ==
  /\ Cached(c)
  /\ CacheRemove(c)
  /\ UNCHANGED <<files, call, history, crashes>>

\* The process restarts with an empty cache.
Crash ==
  /\ crashes > 0
  /\ crashes' = crashes - 1
  /\ items' = <<>> /\ bytes' = 0
  /\ op' = [p \in Proc |-> "none"]
  /\ pc' = [p \in Proc |-> "idle"]
  /\ chunk' = [p \in Proc |-> NoChunk]
  /\ clean' = [p \in Proc |-> TRUE]
  /\ stored' = stored \ raced
  /\ raced' = {}
  /\ UNCHANGED files

-----------------------------------------------------------------------------
Next ==
  \/ \E p \in Proc :
       \/ \E c \in Chunk, o \in {"put", "get", "delete"} : Call(p, o, c)
       \/ PutStart(p) \/ PutExists(p) \/ PutCreate(p) \/ PutFill(p)
       \/ GetStart(p) \/ GetRead(p) \/ GetFill(p)
       \/ DeleteStart(p) \/ DeleteRemove(p)
  \/ \E c \in Chunk : InvalidateChunk(c)
  \/ Crash

Spec == Init /\ [][Next]_vars

-----------------------------------------------------------------------------
(* Properties *)

\* A chunk that no Delete ever overlapped with another request is in the cache
\* only while its file exists, whatever else is evicted or put again
\* (diskstore.go:84-93).
CacheIsOnDisk ==
  \A c \in Chunk \ raced : Cached(c) /\ ~Locked => c \in files

\* A chunk that a Put has confirmed is on disk until a Delete takes it, unless
\* the chunk was raced: also when the confirming Put only found it in the cache,
\* and across restarts (diskstore.go:80-133).
ConfirmedIsOnDisk == stored \ raced \subseteq files
=============================================================================
