--------------------------- MODULE DiskStoreProofs ---------------------------
(***************************************************************************)
(* Theorems about DiskStore: the cache and the confirmed chunks agree with *)
(* the files on disk except for chunks that a Delete has hit in use, and   *)
(* the cache's byte count is right, for any number of requests, chunks of  *)
(* any size and any cache.                                                 *)
(*                                                                         *)
(* The first two are not inductive.  OnDisk says what a request knows when *)
(* it is about to fill the cache, and that a chunk whose deletion has begun*)
(* is neither in the cache nor on its way there.  For the byte count, the  *)
(* fold of Bytes is the number of the bytes of the listed chunks (Weight), *)
(* which depends on which chunks are listed and not on their order.        *)
(***************************************************************************)
EXTENDS DiskStore, SequenceTheorems, NaturalsInduction, WellFoundedInduction,
        FiniteSetTheorems, FunctionTheorems, TLAPS

Distinct(s) == \A i, j \in DOMAIN s : s[i] = s[j] => i = j

InList(s, c) == \E i \in DOMAIN s : s[i] = c

Shape ==
  /\ files \in SUBSET Chunk
  /\ items \in Seq(Chunk) /\ Distinct(items)
  /\ op \in [Proc -> {"none", "put", "get", "delete"}]
  /\ pc \in [Proc -> {"idle", "start", "exists", "create", "read", "fill", "remove"}]
  /\ chunk \in [Proc -> Chunk \cup {NoChunk}]
  /\ \A p \in Proc : pc[p] # "idle" => chunk[p] \in Chunk
  /\ stored \in SUBSET Chunk
  /\ raced \in SUBSET Chunk

\* The file of c is about to be removed.
Leaving(c) == \E q \in Proc : At(q, "delete", "remove") /\ chunk[q] = c

OnDisk ==
  /\ \A c \in Chunk \ raced : Cached(c) => c \in files /\ ~Leaving(c)
  /\ \A p \in Proc : pc[p] = "fill" /\ chunk[p] \notin raced =>
                        chunk[p] \in files /\ ~Leaving(chunk[p])
  /\ \A p \in Proc : pc[p] = "create" /\ chunk[p] \notin raced => ~Leaving(chunk[p])
  /\ stored \ raced \subseteq files

IInv == Shape /\ OnDisk

-----------------------------------------------------------------------------
\* Taking an element out of a list of distinct elements leaves the others
\* (lru.go:124).
LEMMA WithoutIsRemoved ==
  ASSUME Shape, NEW c \in Chunk
  PROVE  /\ Without(c) \in Seq(Chunk) /\ Distinct(Without(c))
         /\ \A d \in Chunk : InList(Without(c), d) <=> Cached(d) /\ d # c
<1>1. CASE ~Cached(c)
  BY <1>1 DEF Without, Cached, InList, Shape
<1>2. CASE Cached(c)
  <2> DEFINE k == CHOOSE i \in DOMAIN items : items[i] = c
             w == Without(c)
  <2>1. items \in Seq(Chunk) /\ Distinct(items)
    BY DEF Shape
  <2>2. k \in 1..Len(items) /\ items[k] = c
    BY <1>2, <2>1 DEF Cached
  <2> DEFINE a == SubSeq(items, 1, k - 1)
             b == SubSeq(items, k + 1, Len(items))
  <2>3. w = a \o b
    BY <1>2 DEF Without, RemoveAt
  <2>4. /\ a \in Seq(Chunk) /\ Len(a) = k - 1
        /\ \A i \in 1..(k - 1) : a[i] = items[i]
    <3>1. \A i \in 1..(k - 1) : items[i] \in Chunk
      BY <2>1, <2>2, ElementOfSeq
    <3>2. /\ a \in Seq(Chunk) /\ Len(a) = IF 1 <= k - 1 THEN (k - 1) - 1 + 1 ELSE 0
          /\ \A i \in 1..((k - 1) - 1 + 1) : a[i] = items[1 + i - 1]
      <4> HIDE DEF k
      <4> QED BY <2>1, <2>2, <3>1, SubSeqProperties
    <3> QED BY <2>1, <2>2, <3>2
  <2>5. /\ b \in Seq(Chunk) /\ Len(b) = Len(items) - k
        /\ \A i \in 1..(Len(items) - k) : b[i] = items[k + i]
    <3>1. \A i \in (k + 1)..Len(items) : items[i] \in Chunk
      BY <2>1, <2>2, ElementOfSeq
    <3>2. /\ b \in Seq(Chunk)
          /\ Len(b) = IF k + 1 <= Len(items) THEN Len(items) - (k + 1) + 1 ELSE 0
          /\ \A i \in 1..(Len(items) - (k + 1) + 1) : b[i] = items[(k + 1) + i - 1]
      <4> HIDE DEF k
      <4> QED BY <2>1, <2>2, <3>1, SubSeqProperties
    <3> QED BY <2>1, <2>2, <3>2
  <2> HIDE DEF k, w, a, b
  <2>6. w \in Seq(Chunk) /\ Len(w) = Len(items) - 1
    <3>1. w \in Seq(Chunk) /\ Len(w) = Len(a) + Len(b)
      BY <2>3, <2>4, <2>5, ConcatProperties
    <3> QED BY <2>1, <2>2, <2>4, <2>5, <3>1
  <2>7. \A i \in 1..Len(w) : w[i] = IF i < k THEN items[i] ELSE items[i + 1]
    <3>1. \A i \in 1..(Len(a) + Len(b)) : w[i] = IF i <= Len(a) THEN a[i] ELSE b[i - Len(a)]
      BY <2>3, <2>4, <2>5, ConcatProperties
    <3>2. SUFFICES ASSUME NEW i \in 1..Len(w)
                   PROVE  w[i] = IF i < k THEN items[i] ELSE items[i + 1]
      OBVIOUS
    <3>3. Len(w) = Len(a) + Len(b) /\ Len(items) \in Nat
      BY <2>1, <2>2, <2>4, <2>5, <2>6
    <3>4. CASE i < k
      BY <2>2, <2>4, <3>1, <3>3, <3>4
    <3>5. CASE ~(i < k)
      <4>1. i - (k - 1) \in 1..(Len(items) - k) /\ k + (i - (k - 1)) = i + 1
        BY <2>2, <2>4, <2>5, <3>3, <3>5
      <4>2. w[i] = b[i - (k - 1)]
        BY <2>2, <2>4, <3>1, <3>3, <3>5
      <4> QED BY <2>5, <3>5, <4>1, <4>2
    <3> QED BY <3>4, <3>5
  <2>8. Distinct(w)
    <3>1. SUFFICES ASSUME NEW i \in 1..Len(w), NEW j \in 1..Len(w), w[i] = w[j]
                   PROVE  i = j
      BY <2>6 DEF Distinct
    <3> DEFINE old(n) == IF n < k THEN n ELSE n + 1
    <3>2. w[i] = items[old(i)] /\ w[j] = items[old(j)]
      BY <2>7
    <3>3. old(i) \in 1..Len(items) /\ old(j) \in 1..Len(items)
      BY <2>1, <2>2, <2>6
    <3>4. old(i) = old(j)
      <4> HIDE DEF old
      <4>1. DOMAIN items = 1..Len(items)
        BY <2>1
      <4> QED BY <2>1, <3>1, <3>2, <3>3, <4>1 DEF Distinct
    <3> QED BY <2>2, <2>6, <3>4
  <2>9. \A d \in Chunk : InList(w, d) => Cached(d) /\ d # c
    BY <2>1, <2>2, <2>6, <2>7 DEF Distinct, InList, Cached
  <2>10. ASSUME NEW d \in Chunk, Cached(d), d # c PROVE InList(w, d)
    <3>1. PICK i \in 1..Len(items) : items[i] = d
      BY <2>1, <2>10 DEF Cached
    <3>2. CASE i < k
      BY <2>1, <2>2, <2>6, <2>7, <3>1, <3>2 DEF InList
    <3>3. CASE i > k
      <4>1. i - 1 \in 1..Len(w) /\ ~(i - 1 < k) /\ (i - 1) + 1 = i
        BY <2>1, <2>2, <2>6, <3>1, <3>3
      <4>2. w[i - 1] = d
        BY <2>7, <3>1, <4>1
      <4> QED BY <2>6, <4>1, <4>2 DEF InList
    <3> QED BY <2>2, <2>10, <3>1, <3>2, <3>3
  <2> QED BY <2>6, <2>8, <2>9, <2>10 DEF w
<1> QED BY <1>1, <1>2

LEMMA FrontOfList ==
  ASSUME NEW w \in Seq(Chunk), NEW c \in Chunk, NEW f, f = <<c>> \o w
  PROVE  /\ f \in Seq(Chunk) /\ Len(f) = Len(w) + 1
         /\ \A i \in 1..(Len(w) + 1) : f[i] = IF i = 1 THEN c ELSE w[i - 1]
<1>1. <<c>> \in Seq(Chunk) /\ Len(<<c>>) = 1 /\ <<c>>[1] = c
  OBVIOUS
<1>2. /\ f \in Seq(Chunk) /\ Len(f) = Len(<<c>>) + Len(w)
      /\ \A i \in 1..(Len(<<c>>) + Len(w)) :
            f[i] = IF i <= Len(<<c>>) THEN <<c>>[i] ELSE w[i - Len(<<c>>)]
  BY <1>1, ConcatProperties
<1> QED BY <1>1, <1>2

\* A list put after a new first element, and cut anywhere (lru.go:56, 111).
LEMMA FrontIsCut ==
  ASSUME NEW w \in Seq(Chunk), Distinct(w), NEW c \in Chunk, ~InList(w, c),
         NEW f, f = <<c>> \o w, NEW n \in 0..Len(f), NEW s, s = SubSeq(f, 1, n)
  PROVE  /\ s \in Seq(Chunk) /\ Distinct(s)
         /\ \A d \in Chunk : InList(s, d) => InList(w, d) \/ d = c
<1>1. /\ f \in Seq(Chunk) /\ Len(f) = Len(w) + 1
      /\ \A i \in 1..(Len(w) + 1) : f[i] = IF i = 1 THEN c ELSE w[i - 1]
  BY FrontOfList
<1>2. DOMAIN w = 1..Len(w) /\ Len(w) \in Nat
  OBVIOUS
<1>3. n \in Nat /\ n <= Len(f)
  BY <1>1
<1>4. \A i \in 1..n : f[i] \in Chunk
  BY <1>1, <1>3, ElementOfSeq
<1>5. /\ s \in Seq(Chunk) /\ Len(s) = n
      /\ \A i \in 1..n : s[i] = f[i]
  <2>1. /\ SubSeq(f, 1, n) \in Seq(Chunk)
        /\ Len(SubSeq(f, 1, n)) = IF 1 <= n THEN n - 1 + 1 ELSE 0
        /\ \A i \in 1..(n - 1 + 1) : SubSeq(f, 1, n)[i] = f[1 + i - 1]
    BY <1>3, <1>4, SubSeqProperties
  <2> QED BY <1>3, <2>1
<1>6. DOMAIN s = 1..n
  BY <1>5
<1>7. \A i \in 1..n : i # 1 => i - 1 \in 1..Len(w) /\ s[i] = w[i - 1] /\ s[i] # c
  <2> SUFFICES ASSUME NEW i \in 1..n, i # 1
               PROVE  i - 1 \in 1..Len(w) /\ s[i] = w[i - 1] /\ s[i] # c
    OBVIOUS
  <2>1. i - 1 \in 1..Len(w) /\ i \in 1..(Len(w) + 1)
    BY <1>1, <1>2, <1>3
  <2>2. s[i] = w[i - 1]
    BY <1>1, <1>5, <2>1
  <2> QED BY <1>2, <2>1, <2>2 DEF InList
<1>8. 1 \in 1..n => s[1] = c
  BY <1>1, <1>2, <1>5
<1>9. Distinct(s)
  <2>1. SUFFICES ASSUME NEW i \in 1..n, NEW j \in 1..n, s[i] = s[j] PROVE i = j
    BY <1>6 DEF Distinct
  <2>2. CASE i = 1 \/ j = 1
    BY <1>7, <1>8, <2>1, <2>2
  <2>3. CASE i # 1 /\ j # 1
    <3>1. i - 1 \in 1..Len(w) /\ j - 1 \in 1..Len(w) /\ w[i - 1] = w[j - 1]
      BY <1>7, <2>1, <2>3
    <3>2. i - 1 = j - 1
      BY <1>2, <3>1 DEF Distinct
    <3> QED BY <1>3, <3>2
  <2> QED BY <2>2, <2>3
<1>10. \A d \in Chunk : InList(s, d) => InList(w, d) \/ d = c
  BY <1>2, <1>6, <1>7, <1>8 DEF InList
<1> QED BY <1>5, <1>9, <1>10

\* What a method of the cache leaves: a list of distinct chunks, of which at most
\* c is new.
CacheKeeps(c) ==
  /\ items' \in Seq(Chunk) /\ Distinct(items')
  /\ \A d \in Chunk : Cached(d)' => Cached(d) \/ d = c

LEMMA CacheIsSame ==
  ASSUME Shape, items' = items, NEW c PROVE CacheKeeps(c)
BY DEF Shape, CacheKeeps, Cached

LEMMA CachePutKeeps ==
  ASSUME Shape, NEW c \in Chunk, CachePut(c)
  PROVE  CacheKeeps(c)
<1>1. CASE items' = items
  BY <1>1, CacheIsSame
<1>2. CASE \E total : Evict(<<c>> \o Without(c), total)
  <2>1. PICK n \in 0..Len(<<c>> \o Without(c)) : items' = SubSeq(<<c>> \o Without(c), 1, n)
    BY <1>2 DEF Evict
  <2> DEFINE w == Without(c)
  <2>2. /\ w \in Seq(Chunk) /\ Distinct(w) /\ ~InList(w, c)
        /\ \A d \in Chunk : InList(w, d) => Cached(d)
    BY WithoutIsRemoved
  <2> DEFINE f == <<c>> \o w
  <2>3. n \in 0..Len(f) /\ items' = SubSeq(f, 1, n)
    BY <2>1
  <2>4. f = <<c>> \o w
    OBVIOUS
  <2> HIDE DEF w, f
  <2> SUFFICES ASSUME NEW s, s = items' PROVE CacheKeeps(c)
    OBVIOUS
  <2>5. s = SubSeq(f, 1, n)
    BY <2>3
  <2>6. /\ s \in Seq(Chunk) /\ Distinct(s)
        /\ \A d \in Chunk : InList(s, d) => InList(w, d) \/ d = c
    BY <2>2, <2>3, <2>4, <2>5, FrontIsCut
  <2> QED BY <2>2, <2>6 DEF CacheKeeps, Cached, InList
<1> QED BY <1>1, <1>2 DEF CachePut, cache

\* CacheGet moves at most a cached element.
LEMMA CacheGetKeeps ==
  ASSUME Shape, NEW c \in Chunk, CacheGet(c)
  PROVE  /\ items' \in Seq(Chunk) /\ Distinct(items')
         /\ \A d \in Chunk : Cached(d)' => Cached(d)
<1>1. CASE ~Cached(c)
  BY <1>1 DEF CacheGet, Shape, Cached
<1>2. CASE Cached(c)
  <2> DEFINE w == Without(c)
             f == <<c>> \o w
  <2>1. /\ w \in Seq(Chunk) /\ Distinct(w) /\ ~InList(w, c)
        /\ \A d \in Chunk : InList(w, d) => Cached(d)
    BY WithoutIsRemoved
  <2>2. items' = f
    BY <1>2 DEF CacheGet
  <2>3. f \in Seq(Chunk)
    <3> HIDE DEF w
    <3>1. <<c>> \in Seq(Chunk)
      OBVIOUS
    <3> QED BY <2>1, <3>1, ConcatProperties
  <2>4. Len(f) \in 0..Len(f) /\ f = SubSeq(f, 1, Len(f))
    <3> HIDE DEF f
    <3> QED BY <2>3, SubSeqFull
  <2> HIDE DEF w
  <2>5. /\ items' \in Seq(Chunk) /\ Distinct(items')
        /\ \A d \in Chunk : InList(items', d) => InList(w, d) \/ d = c
    BY <2>1, <2>2, <2>4, FrontIsCut
  <2> QED BY <1>2, <2>1, <2>5 DEF Cached, InList
<1> QED BY <1>1, <1>2

LEMMA CacheRemoveKeeps ==
  ASSUME Shape, NEW c \in Chunk, CacheRemove(c)
  PROVE  /\ items' \in Seq(Chunk) /\ Distinct(items')
         /\ \A d \in Chunk : Cached(d)' => Cached(d) /\ d # c
<1>1. items' = Without(c)
  BY DEF CacheRemove
<1> QED BY <1>1, WithoutIsRemoved DEF Cached, InList

-----------------------------------------------------------------------------
LEMMA InitIInv == Init => IInv
BY DEF Init, IInv, Shape, OnDisk, Distinct, Cached, At, Leaving

\* The control of a request keeps its types.
LEMMA GotoShape ==
  ASSUME Shape, NEW p \in Proc, pc[p] # "idle",
         NEW l \in {"exists", "create", "read", "fill", "remove"}, Goto(p, l)
  PROVE  /\ op' \in [Proc -> {"none", "put", "get", "delete"}]
         /\ pc' \in [Proc -> {"idle", "start", "exists", "create", "read", "fill", "remove"}]
         /\ chunk' \in [Proc -> Chunk \cup {NoChunk}]
         /\ \A q \in Proc : pc'[q] # "idle" => chunk'[q] \in Chunk
         /\ \A q \in Proc : pc'[q] = IF q = p THEN l ELSE pc[q]
BY DEF Shape, Goto

LEMMA ReturnShape ==
  ASSUME Shape, NEW p \in Proc, Return(p)
  PROVE  /\ op' \in [Proc -> {"none", "put", "get", "delete"}]
         /\ pc' \in [Proc -> {"idle", "start", "exists", "create", "read", "fill", "remove"}]
         /\ chunk' \in [Proc -> Chunk \cup {NoChunk}]
         /\ \A q \in Proc : pc'[q] # "idle" => chunk'[q] \in Chunk
         /\ \A q \in Proc \ {p} : /\ pc'[q] = pc[q] /\ op'[q] = op[q]
                                   /\ chunk'[q] = chunk[q]
         /\ pc'[p] = "idle"
BY DEF Shape, Return

\* A step that begins no removal and changes no file: what it has to show of the
\* cache, of the requests about to fill it and of the confirmed chunks.
LEMMA QuietStep ==
  ASSUME IInv, Shape', files \subseteq files', raced' = raced,
         \A q \in Proc : At(q, "delete", "remove")' =>
                            At(q, "delete", "remove") /\ chunk'[q] = chunk[q],
         \A c \in Chunk \ raced : Cached(c)' => Cached(c) \/ (c \in files' /\ ~Leaving(c)),
         \A q \in Proc : pc'[q] = "fill" /\ chunk'[q] \notin raced =>
                             chunk'[q] \in files' /\ ~Leaving(chunk'[q]),
         \A q \in Proc : pc'[q] = "create" /\ chunk'[q] \notin raced =>
                             ~Leaving(chunk'[q]),
         \A c \in stored' \ raced : c \in stored \/ c \in files'
  PROVE  IInv'
<1>1. \A c : Leaving(c)' => Leaving(c)
  BY DEF Leaving
<1>2. \A c \in Chunk \ raced' : Cached(c)' => c \in files' /\ ~Leaving(c)'
  BY <1>1 DEF IInv, OnDisk
<1>3. \A q \in Proc : pc'[q] = "fill" /\ chunk'[q] \notin raced' =>
                        chunk'[q] \in files' /\ ~Leaving(chunk'[q])
  OBVIOUS
<1>4. \A q \in Proc : pc'[q] = "fill" /\ chunk'[q] \notin raced' =>
                        chunk'[q] \in files' /\ ~Leaving(chunk[q])'
  BY <1>1, <1>3 DEF Leaving
<1>5. \A q \in Proc : pc'[q] = "create" /\ chunk'[q] \notin raced' => ~Leaving(chunk[q])'
  BY <1>1 DEF Leaving
<1>6. stored' \ raced' \subseteq files'
  BY DEF IInv, OnDisk
<1> QED BY <1>2, <1>4, <1>5, <1>6 DEF IInv, OnDisk

\* While no Delete is between its two steps, nothing is leaving.
LEMMA UnlockedStays ==
  ASSUME ~Locked, NEW c PROVE ~Leaving(c)
BY DEF Locked, Leaving

LEMMA CallKeeps ==
  ASSUME IInv, NEW p \in Proc, NEW o \in {"put", "get", "delete"}, NEW c \in Chunk, Call(p, o, c)
  PROVE  IInv'
<1>1. Shape'
  BY DEF IInv, Shape, Call, cache
<1>2. /\ files' = files /\ raced' = raced /\ items' = items /\ stored' = stored
      /\ pc'[p] = "start"
      /\ \A q \in Proc \ {p} : pc'[q] = pc[q] /\ op'[q] = op[q] /\ chunk'[q] = chunk[q]
  BY DEF IInv, Shape, Call, cache
<1>3. \A q \in Proc : At(q, "delete", "remove")' =>
                         At(q, "delete", "remove") /\ chunk'[q] = chunk[q]
  BY <1>2 DEF At
<1>4. \A d \in Chunk \ raced : Cached(d)' => Cached(d)
  BY <1>2 DEF Cached
<1>5. /\ \A q \in Proc : pc'[q] = "fill" /\ chunk'[q] \notin raced =>
                            chunk'[q] \in files' /\ ~Leaving(chunk'[q])
      /\ \A q \in Proc : pc'[q] = "create" /\ chunk'[q] \notin raced => ~Leaving(chunk'[q])
  BY <1>2 DEF IInv, OnDisk
<1> QED BY <1>1, <1>2, <1>3, <1>4, <1>5, QuietStep

\* The steps of a Put or a Get, one by one (diskstore.go:80-152).
LEMMA RequestKeeps ==
  ASSUME IInv, NEW p \in Proc,
         \/ PutStart(p) \/ PutExists(p) \/ PutCreate(p) \/ PutFill(p)
         \/ GetStart(p) \/ GetRead(p) \/ GetFill(p)
  PROVE  IInv'
<1> DEFINE c == chunk[p]
<1>1. Shape /\ pc[p] # "idle" /\ c \in Chunk /\ ~At(p, "delete", "remove")
  BY DEF IInv, Shape, PutStart, PutExists, PutCreate, PutFill, GetStart, GetRead, GetFill, At
<1>2. raced' = raced
  BY DEF PutStart, PutExists, PutCreate, PutFill, GetStart, GetRead, GetFill, Confirm, history
<1>3. /\ files \subseteq files' /\ files' \in SUBSET Chunk
      /\ c \in files' \/ files' = files
  <2>1. CASE PutCreate(p)
    BY <1>1, <2>1 DEF PutCreate, Shape
  <2> QED BY <1>1, <2>1 DEF Shape, PutStart, PutExists, PutFill, GetStart, GetRead, GetFill
<1>4. \/ \E l \in {"exists", "create", "read", "fill"} : Goto(p, l)
      \/ Return(p)
  BY DEF PutStart, PutExists, PutCreate, PutFill, GetStart, GetRead, GetFill, Confirm
<1>5. /\ op' \in [Proc -> {"none", "put", "get", "delete"}]
      /\ pc' \in [Proc -> {"idle", "start", "exists", "create", "read", "fill", "remove"}]
      /\ chunk' \in [Proc -> Chunk \cup {NoChunk}]
      /\ \A q \in Proc : pc'[q] # "idle" => chunk'[q] \in Chunk
  BY <1>1, <1>4, GotoShape, ReturnShape
<1>6. \A q \in Proc \ {p} : pc'[q] = pc[q] /\ op'[q] = op[q] /\ chunk'[q] = chunk[q]
  BY <1>1, <1>4, GotoShape, ReturnShape DEF Goto
<1>7. /\ items' \in Seq(Chunk) /\ Distinct(items')
      /\ \A d \in Chunk \ raced : Cached(d)' => Cached(d) \/ (d \in files' /\ ~Leaving(d))
  <2>1. CASE PutStart(p) \/ GetStart(p)
    BY <1>1, <2>1, CacheGetKeeps DEF PutStart, GetStart
  <2>2. CASE PutFill(p) \/ GetFill(p)
    <3>1. CacheKeeps(c) /\ pc[p] = "fill"
      BY <1>1, <2>2, CachePutKeeps DEF PutFill, GetFill, At
    <3>2. c \notin raced => c \in files' /\ ~Leaving(c)
      BY <1>3, <3>1 DEF IInv, OnDisk
    <3> QED BY <3>1, <3>2 DEF CacheKeeps
  <2>3. CASE PutExists(p) \/ PutCreate(p) \/ GetRead(p)
    <3>1. items' = items
      BY <2>3 DEF PutExists, PutCreate, GetRead, cache
    <3> QED BY <1>1, <3>1 DEF Shape, Cached
  <2> QED BY <2>1, <2>2, <2>3
<1>8. /\ stored' \in SUBSET Chunk
      /\ \A d \in stored' \ raced : d \in stored \/ d \in files'
  <2>1. CASE stored' = stored
    BY <1>1, <2>1 DEF Shape
  <2>2. CASE Confirm(p) /\ (PutStart(p) \/ PutFill(p))
    <3>1. c \notin raced => c \in files
      <4>1. Cached(c) \/ pc[p] = "fill"
        <5>1. CASE PutStart(p)
          <6>1. \/ Cached(c)
                \/ Goto(p, "exists")
            BY <5>1 DEF PutStart
          <6>2. Confirm(p) => pc'[p] = "idle"
            BY <1>1, ReturnShape DEF Confirm
          <6>3. Goto(p, "exists") => pc'[p] = "exists"
            BY <1>1, GotoShape
          <6> QED BY <2>2, <6>1, <6>2, <6>3
        <5> QED BY <2>2, <5>1 DEF PutFill, At
      <4> QED BY <1>1, <4>1 DEF IInv, OnDisk
    <3>2. stored' \subseteq stored \cup {c}
      BY <2>2 DEF Confirm
    <3> QED BY <1>1, <1>3, <3>1, <3>2 DEF Shape
  <2> QED BY <2>1, <2>2
        DEF PutStart, PutExists, PutCreate, PutFill, GetStart, GetRead, GetFill, history
<1>9. Shape'
  BY <1>1, <1>2, <1>3, <1>5, <1>7, <1>8 DEF Shape
<1>10. \A q \in Proc : At(q, "delete", "remove")' =>
                          At(q, "delete", "remove") /\ chunk'[q] = chunk[q]
  <2>1. pc'[p] # "remove"
    <3>1. CASE Return(p)
      BY <1>1, <3>1, ReturnShape
    <3>2. ASSUME NEW l \in {"exists", "create", "read", "fill"}, Goto(p, l) PROVE pc'[p] # "remove"
      BY <1>1, <3>2, GotoShape
    <3> QED BY <1>4, <3>1, <3>2
  <2> QED BY <1>6, <2>1 DEF At
<1>11. pc'[p] \in {"fill", "create"} =>
         /\ chunk'[p] = c
         /\ c \notin raced => ~Leaving(c) /\ (pc'[p] = "fill" => c \in files')
  <2>1. CASE Return(p)
    BY <1>1, <2>1, ReturnShape
  <2>2. CASE PutExists(p)
    <3>1. chunk' = chunk /\ pc'[p] = IF c \in files THEN "fill" ELSE "create"
      BY <1>1, <2>2 DEF PutExists, Goto, Shape
    <3> QED BY <1>3, <2>2, <3>1, UnlockedStays DEF PutExists
  <2>3. CASE PutCreate(p) /\ Goto(p, "fill") /\ files' = files \cup {c}
    <3>1. chunk' = chunk /\ pc[p] = "create"
      BY <2>3 DEF PutCreate, Goto, At
    <3> QED BY <2>3, <3>1 DEF IInv, OnDisk
  <2>4. CASE GetRead(p) /\ c \in files /\ Goto(p, "fill")
    <3>1. chunk' = chunk
      BY <2>4 DEF Goto
    <3> QED BY <1>3, <2>4, <3>1, UnlockedStays DEF GetRead
  <2>5. CASE Goto(p, "exists") \/ Goto(p, "read")
    <3>1. pc'[p] \in {"exists", "read"}
      BY <1>1, <2>5, GotoShape
    <3> QED BY <3>1
  <2> QED BY <2>1, <2>2, <2>3, <2>4, <2>5
        DEF PutStart, PutCreate, PutFill, GetStart, GetRead, GetFill, Confirm
<1>12. /\ \A q \in Proc : pc'[q] = "fill" /\ chunk'[q] \notin raced =>
                             chunk'[q] \in files' /\ ~Leaving(chunk'[q])
       /\ \A q \in Proc : pc'[q] = "create" /\ chunk'[q] \notin raced => ~Leaving(chunk'[q])
  BY <1>3, <1>6, <1>11 DEF IInv, OnDisk
<1> QED BY <1>2, <1>3, <1>7, <1>8, <1>9, <1>10, <1>12, QuietStep

LEMMA DeleteStartKeeps ==
  ASSUME IInv, NEW p \in Proc, DeleteStart(p)
  PROVE  IInv'
<1> DEFINE c == chunk[p]
<1>1. /\ Shape /\ pc[p] = "start" /\ c \in Chunk
      /\ raced \subseteq raced' /\ raced' \subseteq raced \cup {c}
      /\ \A q \in Proc \ {p} : chunk[q] = c => c \in raced'
      /\ files' = files /\ stored' = stored \ {c} /\ chunk' = chunk /\ op' = op
      /\ Goto(p, "remove")
  BY DEF IInv, Shape, DeleteStart, At, Goto
<1>2. /\ items' \in Seq(Chunk) /\ Distinct(items')
      /\ \A d \in Chunk : Cached(d)' => Cached(d) /\ d # c
  BY <1>1, CacheRemoveKeeps DEF DeleteStart
<1>3. \A q \in Proc : pc'[q] = IF q = p THEN "remove" ELSE pc[q]
  BY <1>1, GotoShape
<1>4. Shape'
  <2>1. /\ pc' \in [Proc -> {"idle", "start", "exists", "create", "read", "fill", "remove"}]
        /\ \A q \in Proc : pc'[q] # "idle" => chunk'[q] \in Chunk
    BY <1>1, GotoShape
  <2> QED BY <1>1, <1>2, <2>1 DEF Shape
<1>5. \A d \in Chunk : Leaving(d)' => Leaving(d) \/ d = c
  BY <1>1, <1>3 DEF Leaving, At
<1>6. \A d \in Chunk \ raced' : Cached(d)' => d \in files' /\ ~Leaving(d)'
  BY <1>1, <1>2, <1>5 DEF IInv, OnDisk
<1>7. \A q \in Proc : pc'[q] \in {"fill", "create"} /\ chunk[q] \notin raced' =>
                         q # p /\ pc[q] = pc'[q] /\ chunk[q] # c /\ ~Leaving(chunk[q])'
  <2> SUFFICES ASSUME NEW q \in Proc, pc'[q] \in {"fill", "create"}, chunk[q] \notin raced'
               PROVE  q # p /\ pc[q] = pc'[q] /\ chunk[q] # c /\ ~Leaving(chunk[q])'
    OBVIOUS
  <2>1. q # p /\ pc[q] = pc'[q]
    BY <1>3
  <2>2. chunk[q] # c /\ chunk[q] \in Chunk /\ chunk[q] \notin raced
    BY <1>1, <2>1 DEF Shape
  <2>3. ~Leaving(chunk[q])
    BY <2>1, <2>2 DEF IInv, OnDisk
  <2>4. ~Leaving(chunk[q])'
    BY <1>1, <1>5, <2>2, <2>3 DEF Leaving
  <2> QED BY <2>1, <2>2, <2>4
<1>8. stored' \ raced' \subseteq files'
  BY <1>1 DEF IInv, OnDisk
<1>9. \A q \in Proc : pc'[q] = "fill" /\ chunk'[q] \notin raced' =>
                         chunk'[q] \in files' /\ ~Leaving(chunk[q])'
  BY <1>1, <1>7 DEF IInv, OnDisk
<1>10. \A q \in Proc : pc'[q] = "create" /\ chunk'[q] \notin raced' => ~Leaving(chunk[q])'
  BY <1>1, <1>7
<1> QED BY <1>4, <1>6, <1>8, <1>9, <1>10 DEF IInv, OnDisk

LEMMA DeleteRemoveKeeps ==
  ASSUME IInv, NEW p \in Proc, DeleteRemove(p)
  PROVE  IInv'
<1> DEFINE c == chunk[p]
<1>1. /\ Shape /\ c \in Chunk /\ Leaving(c) /\ raced \subseteq raced' /\ raced' \subseteq Chunk
      /\ files' = files \ {c} /\ stored' = stored \ {c} /\ items' = items
      /\ Return(p)
  BY DEF IInv, Shape, DeleteRemove, At, Leaving, cache
<1>2. /\ Shape' /\ pc'[p] = "idle"
      /\ \A q \in Proc \ {p} : pc'[q] = pc[q] /\ op'[q] = op[q] /\ chunk'[q] = chunk[q]
  BY <1>1, ReturnShape DEF Shape
<1>3. \A d \in Chunk : Leaving(d)' => Leaving(d)
  BY <1>2 DEF Leaving, At
<1>4. \A d \in Chunk \ raced' : Cached(d)' => d \in files' /\ ~Leaving(d)'
  BY <1>1, <1>3 DEF IInv, OnDisk, Cached
<1>5. \A q \in Proc : pc'[q] \in {"fill", "create"} /\ chunk'[q] \notin raced' =>
                         /\ pc[q] = pc'[q] /\ chunk'[q] = chunk[q] /\ chunk[q] # c
                         /\ ~Leaving(chunk[q])'
  <2> SUFFICES ASSUME NEW q \in Proc, pc'[q] \in {"fill", "create"}, chunk'[q] \notin raced'
               PROVE  /\ pc[q] = pc'[q] /\ chunk'[q] = chunk[q] /\ chunk[q] # c
                      /\ ~Leaving(chunk[q])'
    OBVIOUS
  <2>1. pc[q] = pc'[q] /\ chunk'[q] = chunk[q] /\ chunk[q] \notin raced /\ chunk[q] \in Chunk
    BY <1>1, <1>2 DEF Shape
  <2>2. ~Leaving(chunk[q])
    BY <2>1 DEF IInv, OnDisk
  <2>3. chunk[q] # c
    BY <1>1, <2>2
  <2>4. ~Leaving(chunk[q])'
    BY <1>3, <2>1, <2>2 DEF Leaving
  <2> QED BY <2>1, <2>3, <2>4
<1>6. stored' \ raced' \subseteq files'
  BY <1>1 DEF IInv, OnDisk
<1>7. \A q \in Proc : pc'[q] = "fill" /\ chunk'[q] \notin raced' =>
                         chunk'[q] \in files' /\ ~Leaving(chunk[q])'
  BY <1>1, <1>5 DEF IInv, OnDisk
<1>8. \A q \in Proc : pc'[q] = "create" /\ chunk'[q] \notin raced' => ~Leaving(chunk[q])'
  BY <1>5
<1> QED BY <1>2, <1>4, <1>6, <1>7, <1>8 DEF IInv, OnDisk

LEMMA InvalidateKeeps ==
  ASSUME IInv, NEW c \in Chunk, InvalidateChunk(c)
  PROVE  IInv'
<1>1. /\ items' \in Seq(Chunk) /\ Distinct(items')
      /\ \A d \in Chunk : Cached(d)' => Cached(d)
  BY CacheRemoveKeeps DEF InvalidateChunk, IInv
<1>2. /\ files' = files /\ op' = op /\ pc' = pc /\ chunk' = chunk
      /\ stored' = stored /\ raced' = raced
  BY DEF InvalidateChunk, call, history
<1>3. Shape'
  BY <1>1, <1>2 DEF IInv, Shape
<1>4. \A q \in Proc : At(q, "delete", "remove")' =>
                         At(q, "delete", "remove") /\ chunk'[q] = chunk[q]
  BY <1>2 DEF At
<1> QED BY <1>1, <1>2, <1>3, <1>4, QuietStep DEF IInv, OnDisk

LEMMA CrashKeeps ==
  ASSUME IInv, Crash
  PROVE  IInv'
BY DEF IInv, Shape, OnDisk, Crash, Distinct, Cached, At, Leaving

LEMMA NextIInv == IInv /\ [Next]_vars => IInv'
<1> SUFFICES ASSUME IInv, [Next]_vars PROVE IInv'
  OBVIOUS
<1>1. ASSUME NEW p \in Proc, NEW c \in Chunk, NEW o \in {"put", "get", "delete"}, Call(p, o, c)
      PROVE  IInv'
  BY <1>1, CallKeeps
<1>2. ASSUME NEW p \in Proc,
             \/ PutStart(p) \/ PutExists(p) \/ PutCreate(p) \/ PutFill(p)
             \/ GetStart(p) \/ GetRead(p) \/ GetFill(p)
      PROVE  IInv'
  BY <1>2, RequestKeeps
<1>3. ASSUME NEW p \in Proc, DeleteStart(p) PROVE IInv'
  BY <1>3, DeleteStartKeeps
<1>4. ASSUME NEW p \in Proc, DeleteRemove(p) PROVE IInv'
  BY <1>4, DeleteRemoveKeeps
<1>5. ASSUME NEW c \in Chunk, InvalidateChunk(c) PROVE IInv'
  BY <1>5, InvalidateKeeps
<1>6. CASE Crash
  BY <1>6, CrashKeeps
<1>7. CASE UNCHANGED vars
  BY <1>7 DEF vars, cache, call, history, IInv, Shape, OnDisk, Distinct, Cached, At, Leaving
<1> QED BY <1>1, <1>2, <1>3, <1>4, <1>5, <1>6, <1>7 DEF Next

LEMMA Invariance == Spec => []IInv
BY InitIInv, NextIInv, PTL DEF Spec

-----------------------------------------------------------------------------
\* A chunk that no Delete has hit in use is cached only while its file exists
\* (diskstore.go:84-93, 129-152, 165-178).
THEOREM CacheFollowsDisk == Spec => []CacheIsOnDisk
<1>1. IInv => CacheIsOnDisk
  BY DEF IInv, OnDisk, CacheIsOnDisk
<1> QED BY <1>1, Invariance, PTL

\* A chunk that a Put has confirmed is on disk until a Delete takes it, also when
\* the Put only found it in the cache, and across restarts (diskstore.go:80-133).
THEOREM ConfirmedChunksAreOnDisk == Spec => []ConfirmedIsOnDisk
<1>1. IInv => ConfirmedIsOnDisk
  BY DEF IInv, OnDisk, ConfirmedIsOnDisk
<1> QED BY <1>1, Invariance, PTL

-----------------------------------------------------------------------------
(* The bytes of the cache *)

LEMMA LeastExists ==
  ASSUME NEW T \in SUBSET Nat, T # {}
  PROVE  \E n \in T : \A m \in T : n <= m
<1> DEFINE R == OpToRel(<, Nat)
<1>1. IsWellFoundedOn(R, Nat)
  BY NatLessThanWellFounded
<1>2. PICK n \in T : \A m \in T : <<m, n>> \notin R
  <2> HIDE DEF R
  <2> QED BY <1>1, WFMin
<1>3. \A m \in T : ~(m < n)
  BY <1>2 DEF OpToRel
<1> QED BY <1>3

LEMMA MaxIsGreatest ==
  ASSUME NEW n \in Nat, NEW s \in SUBSET (1..n), s # {}
  PROVE  Max(s) \in s /\ \A i \in s : i <= Max(s)
<1> DEFINE gaps == {n - i : i \in s}
<1>1. \A i \in s : i \in Nat /\ n - i \in Nat
  OBVIOUS
<1>2. PICK g \in gaps : \A h \in gaps : g <= h
  <2>1. gaps \in SUBSET Nat /\ gaps # {}
    BY <1>1
  <2> HIDE DEF gaps
  <2> QED BY <2>1, LeastExists
<1>3. PICK m \in s : g = n - m
  BY <1>2
<1>4. \A i \in s : n - m <= n - i
  BY <1>2, <1>3
<1>5. \A i \in s : m >= i
  BY <1>1, <1>4
<1> QED BY <1>5, Zenon DEF Max

\* The bytes of some chunks, as a set: their number is what a cache of them holds.
Cells(S) == {p \in S \X Nat : p[2] \in 1..Size[p[1]]}
Weight(S) == Cardinality(Cells(S))

LEMMA WeightOfOne ==
  ASSUME NEW c \in Chunk
  PROVE  IsFiniteSet(Cells({c})) /\ Weight({c}) = Size[c]
<1>1. Size[c] \in Nat \ {0}
  BY SizeAssumption
<1>2. Cells({c}) = {c} \X (1..Size[c])
  BY <1>1 DEF Cells
<1>3. IsFiniteSet({c}) /\ Cardinality({c}) = 1
  BY FS_Singleton
<1>4. IsFiniteSet(1..Size[c]) /\ Cardinality(1..Size[c]) = Size[c]
  <2>1. 1 \in Int /\ Size[c] \in Int
    BY <1>1
  <2>2. /\ IsFiniteSet(1..Size[c])
        /\ Cardinality(1..Size[c]) = IF 1 > Size[c] THEN 0 ELSE Size[c] - 1 + 1
    BY <2>1, FS_Interval
  <2> QED BY <1>1, <2>2
<1>5. IsFiniteSet({c} \X (1..Size[c])) /\ Cardinality({c} \X (1..Size[c])) = 1 * Size[c]
  BY <1>3, <1>4, FS_Product, ZenonT(40)
<1>6. 1 * Size[c] = Size[c]
  BY <1>1
<1>7. IsFiniteSet(Cells({c})) /\ Cardinality(Cells({c})) = Size[c]
  BY <1>2, <1>5, <1>6, Zenon
<1> QED BY <1>7 DEF Weight

LEMMA WeightIsFinite ==
  ASSUME NEW S \in SUBSET Chunk, IsFiniteSet(S)
  PROVE  IsFiniteSet(Cells(S)) /\ Weight(S) \in Nat
<1> DEFINE f == [c \in S |-> Cells({c})]
           each == {Cells({c}) : c \in S}
<1>1. f \in Surjection(S, each)
  BY DEF Surjection
<1>2. IsFiniteSet(each)
  <2> HIDE DEF f, each
  <2> QED BY <1>1, FS_Surjection
<1>3. \A T \in each : IsFiniteSet(T)
  BY WeightOfOne
<1>4. IsFiniteSet(UNION each)
  <2> HIDE DEF each
  <2> QED BY <1>2, <1>3, FS_UNION
<1>5. Cells(S) = UNION each
  BY DEF Cells
<1> QED BY <1>4, <1>5, FS_CardinalityType DEF Weight

LEMMA WeightAdds ==
  ASSUME NEW S \in SUBSET Chunk, IsFiniteSet(S), NEW T \in SUBSET Chunk, IsFiniteSet(T),
         S \cap T = {}
  PROVE  Weight(S \cup T) = Weight(S) + Weight(T)
<1>1. Cells(S \cup T) = Cells(S) \cup Cells(T) /\ Cells(S) \cap Cells(T) = {}
  BY DEF Cells
<1>2. /\ IsFiniteSet(Cells(S)) /\ Weight(S) \in Nat
      /\ IsFiniteSet(Cells(T)) /\ Weight(T) \in Nat
  BY WeightIsFinite
<1>3. Cardinality(Cells(S) \cup Cells(T))
        = Cardinality(Cells(S)) + Cardinality(Cells(T)) - Cardinality(Cells(S) \cap Cells(T))
  BY <1>2, FS_Union
<1>4. Cardinality(Cells(S) \cap Cells(T)) = 0
  BY <1>1, FS_EmptySet
<1>5. Weight(S) + Weight(T) - 0 = Weight(S) + Weight(T)
  BY <1>2
<1>6. Weight(S \cup T) = Weight(S) + Weight(T) - 0
  BY <1>1, <1>3, <1>4, Zenon DEF Weight
<1> QED BY <1>5, <1>6

\* The chunks at some positions of a list.
ChunksAt(ls, t) == {ls[i] : i \in t}

LEMMA ChunksAreFinite ==
  ASSUME NEW ls \in Seq(Chunk), NEW t \in SUBSET DOMAIN ls
  PROVE  ChunksAt(ls, t) \in SUBSET Chunk /\ IsFiniteSet(ChunksAt(ls, t))
<1> DEFINE f == [i \in t |-> ls[i]]
<1>1. ChunksAt(ls, t) \in SUBSET Chunk
  BY DEF ChunksAt
<1>2. f \in Surjection(t, ChunksAt(ls, t))
  BY DEF Surjection, ChunksAt
<1>3. IsFiniteSet(1..Len(ls)) /\ t \in SUBSET (1..Len(ls))
  <2>1. 1 \in Int /\ Len(ls) \in Int /\ DOMAIN ls = 1..Len(ls)
    OBVIOUS
  <2> QED BY <2>1, FS_Interval
<1>4. IsFiniteSet(t)
  BY <1>3, FS_Subset
<1> HIDE DEF f
<1> QED BY <1>1, <1>2, <1>4, FS_Surjection

\* One position more.
LEMMA WeightNext ==
  ASSUME NEW ls \in Seq(Chunk), Distinct(ls), NEW t \in SUBSET DOMAIN ls, t # {}
  PROVE  /\ Max(t) \in DOMAIN ls
         /\ Weight(ChunksAt(ls, t)) = Weight(ChunksAt(ls, t \ {Max(t)})) + Size[ls[Max(t)]]
<1> DEFINE m == Max(t)
           rest == t \ {m}
<1>1. m \in t
  <2>1. Len(ls) \in Nat /\ t \in SUBSET (1..Len(ls))
    OBVIOUS
  <2> QED BY <2>1, MaxIsGreatest
<1> HIDE DEF m
<1>2. ls[m] \in Chunk /\ {ls[m]} \in SUBSET Chunk /\ IsFiniteSet({ls[m]})
  <2>1. ls[m] \in Chunk
    BY <1>1
  <2> QED BY <2>1, FS_Singleton
<1>3. /\ ChunksAt(ls, t) = ChunksAt(ls, rest) \cup {ls[m]}
      /\ ChunksAt(ls, rest) \cap {ls[m]} = {}
  BY <1>1 DEF ChunksAt, Distinct
<1>4. ChunksAt(ls, rest) \in SUBSET Chunk /\ IsFiniteSet(ChunksAt(ls, rest))
  BY ChunksAreFinite
<1>5. Weight(ChunksAt(ls, t)) = Weight(ChunksAt(ls, rest)) + Weight({ls[m]})
  BY <1>2, <1>3, <1>4, WeightAdds
<1>6. Weight({ls[m]}) = Size[ls[m]]
  BY <1>2, WeightOfOne
<1> QED BY <1>1, <1>5, <1>6 DEF m

\* The function that the fold of Bytes iterates, on the sets of positions.
Sums(ls, g) ==
  g = [t \in SUBSET DOMAIN ls |->
         IF t = {} THEN 0 ELSE g[t \ {Max(t)}] + Size[ls[Max(t)]]]

\* The bytes of a list without duplicates are those of its chunks.
LEMMA BytesAreWeight ==
  ASSUME NEW ls \in Seq(Chunk), Distinct(ls)
  PROVE  Bytes(ls) = Weight(ChunksAt(ls, DOMAIN ls))
<1> DEFINE n == Len(ls)
           sums == CHOOSE g : Sums(ls, g)
           weights == [t \in SUBSET DOMAIN ls |-> Weight(ChunksAt(ls, t))]
<1>0. n \in Nat /\ DOMAIN ls = 1..n
  OBVIOUS
<1>1. Bytes(ls) = sums[DOMAIN ls]
  BY DEF Bytes, FoldLeft, MapThenFoldSet, Sums
<1>2. Weight(ChunksAt(ls, {})) = 0
  <2>1. Cells(ChunksAt(ls, {})) = {}
    BY DEF Cells, ChunksAt
  <2> QED BY <2>1, FS_EmptySet DEF Weight
<1>3. Sums(ls, weights)
  <2>1. \A t \in SUBSET DOMAIN ls : t # {} =>
          weights[t] = weights[t \ {Max(t)}] + Size[ls[Max(t)]]
    BY WeightNext
  <2>2. \A t \in SUBSET DOMAIN ls :
          weights[t] = IF t = {} THEN 0 ELSE weights[t \ {Max(t)}] + Size[ls[Max(t)]]
    BY <1>2, <2>1
  <2>3. weights = [t \in SUBSET DOMAIN ls |-> weights[t]]
    OBVIOUS
  <2> HIDE DEF weights
  <2> QED BY <2>2, <2>3 DEF Sums
<1>4. Sums(ls, sums)
  BY <1>3, Zenon
<1> HIDE DEF sums
<1>5. /\ sums[{}] = 0
      /\ \A t \in SUBSET DOMAIN ls : t # {} => sums[t] = sums[t \ {Max(t)}] + Size[ls[Max(t)]]
  BY <1>4 DEF Sums
<1> DEFINE wrong == {i \in 0..n : sums[1..i] # Weight(ChunksAt(ls, 1..i))}
<1>6. wrong = {}
  <2> SUFFICES ASSUME wrong # {} PROVE FALSE
    OBVIOUS
  <2>1. wrong \in SUBSET Nat
    OBVIOUS
  <2>2. PICK i \in wrong : \A j \in wrong : i <= j
    <3> HIDE DEF wrong
    <3> QED BY <2>1, LeastExists
  <2>3. i # 0
    <3>1. 1..0 = {}
      OBVIOUS
    <3> QED BY <1>2, <1>5, <2>2, <3>1
  <2>4. i - 1 \in 0..n /\ i \in 1..n /\ i - 1 \notin wrong
    BY <2>2, <2>3
  <2>5. sums[1..(i - 1)] = Weight(ChunksAt(ls, 1..(i - 1)))
    BY <2>4
  <2>6. /\ 1..i # {} /\ 1..i \in SUBSET DOMAIN ls
        /\ Max(1..i) = i /\ (1..i) \ {i} = 1..(i - 1)
    <3>1. 1..i # {} /\ 1..i \in SUBSET (1..n) /\ i \in 1..i /\ (1..i) \ {i} = 1..(i - 1)
      <4>1. i \in Nat /\ n \in Nat /\ 1 <= i /\ i <= n
        BY <1>0, <2>4
      <4> HIDE DEF wrong, n
      <4>2. i \in 1..i
        BY <4>1
      <4>3. \A j \in 1..i : j \in 1..n
        BY <4>1
      <4>4. \A j : j \in (1..i) \ {i} <=> j \in 1..(i - 1)
        BY <4>1
      <4> QED BY <4>2, <4>3, <4>4
    <3>2. Max(1..i) \in 1..i /\ i <= Max(1..i)
      BY <1>0, <3>1, MaxIsGreatest
    <3> QED BY <1>0, <3>1, <3>2
  <2>7. sums[1..i] = sums[1..(i - 1)] + Size[ls[i]]
    BY <1>5, <2>6
  <2>8. Weight(ChunksAt(ls, 1..i)) = Weight(ChunksAt(ls, 1..(i - 1))) + Size[ls[i]]
    BY <2>6, WeightNext
  <2> QED BY <2>2, <2>5, <2>7, <2>8
<1>7. n \in 0..n /\ n \notin wrong
  <2> HIDE DEF wrong
  <2> QED BY <1>0, <1>6
<1> QED BY <1>0, <1>1, <1>7

\* A part of a list.
LEMMA PartOfList ==
  ASSUME NEW f \in Seq(Chunk), Distinct(f), NEW a \in Nat \ {0}, NEW b \in 0..Len(f),
         NEW s, s = SubSeq(f, a, b)
  PROVE  /\ s \in Seq(Chunk) /\ Distinct(s)
         /\ ChunksAt(s, DOMAIN s) = ChunksAt(f, a..b)
<1>1. /\ s \in Seq(Chunk)
      /\ Len(s) = IF a <= b THEN b - a + 1 ELSE 0
      /\ \A i \in 1..(b - a + 1) : s[i] = f[a + i - 1]
  <2>1. \A i \in a..b : f[i] \in Chunk
    <3>1. \A i \in a..b : i \in 1..Len(f)
      OBVIOUS
    <3> QED BY <3>1, ElementOfSeq
  <2>2. a \in Nat /\ b \in Nat
    OBVIOUS
  <2> QED BY <2>1, <2>2, SubSeqProperties
<1>2. \A i \in DOMAIN s : a + i - 1 \in a..b /\ a + i - 1 \in DOMAIN f /\ s[i] = f[a + i - 1]
  <2>1. DOMAIN s = 1..Len(s) /\ DOMAIN f = 1..Len(f) /\ Len(f) \in Nat
    BY <1>1
  <2> QED BY <1>1, <2>1
<1>3. \A j \in a..b : j - a + 1 \in DOMAIN s /\ s[j - a + 1] = f[j]
  <2> SUFFICES ASSUME NEW j \in a..b PROVE j - a + 1 \in DOMAIN s /\ s[j - a + 1] = f[j]
    OBVIOUS
  <2>1. DOMAIN s = 1..Len(s) /\ a <= b /\ j \in Nat
    BY <1>1
  <2>2. j - a + 1 \in 1..(b - a + 1) /\ a + (j - a + 1) - 1 = j
    BY <2>1
  <2> QED BY <1>1, <2>1, <2>2
<1>4. Distinct(s)
  <2> SUFFICES ASSUME NEW i \in DOMAIN s, NEW j \in DOMAIN s, s[i] = s[j] PROVE i = j
    BY DEF Distinct
  <2>1. a + i - 1 = a + j - 1
    BY <1>2 DEF Distinct
  <2>2. i \in Nat /\ j \in Nat
    BY <1>1
  <2> QED BY <2>1, <2>2
<1>5. ChunksAt(s, DOMAIN s) = ChunksAt(f, a..b)
  <2>1. \A i \in DOMAIN s : s[i] \in ChunksAt(f, a..b)
    BY <1>2 DEF ChunksAt
  <2>2. \A j \in a..b : f[j] \in ChunksAt(s, DOMAIN s)
    BY <1>3 DEF ChunksAt
  <2> QED BY <2>1, <2>2 DEF ChunksAt
<1> QED BY <1>1, <1>4, <1>5

\* What is left when a list is cut has the bytes that are not cut off (lru.go:111).
LEMMA CutLeaves ==
  ASSUME NEW f \in Seq(Chunk), Distinct(f), NEW n \in 0..Len(f)
  PROVE  /\ Bytes(f) \in Nat
         /\ Bytes(f) - Bytes(SubSeq(f, n + 1, Len(f))) = Bytes(SubSeq(f, 1, n))
<1> DEFINE front == SubSeq(f, 1, n)
           back == SubSeq(f, n + 1, Len(f))
           m == Len(f)
<1>0. m \in Nat /\ n \in Nat /\ n <= m /\ DOMAIN f = 1..m
  OBVIOUS
<1>1. /\ front \in Seq(Chunk) /\ Distinct(front)
      /\ ChunksAt(front, DOMAIN front) = ChunksAt(f, 1..n)
  <2>1. front = SubSeq(f, 1, n) /\ 1 \in Nat \ {0}
    OBVIOUS
  <2> HIDE DEF front
  <2> QED BY <2>1, PartOfList
<1>2. /\ back \in Seq(Chunk) /\ Distinct(back)
      /\ ChunksAt(back, DOMAIN back) = ChunksAt(f, (n + 1)..m)
  <2>1. back = SubSeq(f, n + 1, m) /\ n + 1 \in Nat \ {0} /\ m \in 0..m
    BY <1>0
  <2> HIDE DEF back
  <2> QED BY <2>1, PartOfList
<1>3. /\ 1..n \in SUBSET DOMAIN f /\ (n + 1)..m \in SUBSET DOMAIN f
      /\ (1..n) \cup ((n + 1)..m) = DOMAIN f /\ (1..n) \cap ((n + 1)..m) = {}
  BY <1>0
<1> DEFINE F == ChunksAt(f, 1..n)
           B == ChunksAt(f, (n + 1)..m)
<1>4. F \in SUBSET Chunk /\ IsFiniteSet(F) /\ B \in SUBSET Chunk /\ IsFiniteSet(B)
  BY <1>3, ChunksAreFinite
<1>5. F \cup B = ChunksAt(f, DOMAIN f) /\ F \cap B = {}
  BY <1>3 DEF ChunksAt, Distinct
<1>6. Weight(ChunksAt(f, DOMAIN f)) = Weight(F) + Weight(B)
  <2> HIDE DEF F, B
  <2> QED BY <1>4, <1>5, WeightAdds
<1>7. Weight(F) \in Nat /\ Weight(B) \in Nat
  <2> HIDE DEF F, B
  <2> QED BY <1>4, WeightIsFinite
<1>8. Bytes(f) = Weight(F) + Weight(B) /\ Bytes(front) = Weight(F) /\ Bytes(back) = Weight(B)
  <2>1. Bytes(f) = Weight(ChunksAt(f, DOMAIN f))
    BY BytesAreWeight
  <2>2. Bytes(front) = Weight(ChunksAt(front, DOMAIN front))
    BY <1>1, BytesAreWeight
  <2>3. Bytes(back) = Weight(ChunksAt(back, DOMAIN back))
    BY <1>2, BytesAreWeight
  <2> QED BY <1>1, <1>2, <1>6, <2>1, <2>2, <2>3
<1> HIDE DEF F, B, front, back
<1>9. Bytes(f) \in Nat /\ Bytes(f) - Bytes(back) = Bytes(front)
  BY <1>7, <1>8
<1> QED BY <1>9 DEF front, back

Content(ls) == ChunksAt(ls, DOMAIN ls)

LEMMA ContentIsListed ==
  ASSUME NEW ls \in Seq(Chunk)
  PROVE  /\ Content(ls) \in SUBSET Chunk /\ IsFiniteSet(Content(ls))
         /\ \A d \in Chunk : d \in Content(ls) <=> InList(ls, d)
<1>1. Content(ls) \in SUBSET Chunk /\ IsFiniteSet(Content(ls))
  BY ChunksAreFinite DEF Content
<1> QED BY <1>1 DEF Content, ChunksAt, InList

\* A chunk is taken out of the cache (lru.go:124).
LEMMA RemovalFrees ==
  ASSUME Shape, NEW c \in Chunk
  PROVE  /\ Bytes(items) \in Nat /\ Bytes(Without(c)) \in Nat
         /\ Bytes(items) = IF Cached(c) THEN Bytes(Without(c)) + Size[c] ELSE Bytes(Without(c))
<1> DEFINE w == Without(c)
<1>1. /\ items \in Seq(Chunk) /\ Distinct(items)
      /\ w \in Seq(Chunk) /\ Distinct(w)
      /\ \A d \in Chunk : InList(w, d) <=> Cached(d) /\ d # c
  BY WithoutIsRemoved DEF Shape
<1> HIDE DEF w
<1>2. Bytes(items) = Weight(Content(items)) /\ Bytes(w) = Weight(Content(w))
  BY <1>1, BytesAreWeight DEF Content
<1>3. /\ Content(items) \in SUBSET Chunk /\ IsFiniteSet(Content(items))
      /\ Content(w) \in SUBSET Chunk /\ IsFiniteSet(Content(w))
      /\ \A d \in Chunk : d \in Content(items) <=> Cached(d)
      /\ \A d \in Chunk : d \in Content(w) <=> Cached(d) /\ d # c
  BY <1>1, ContentIsListed DEF Cached, InList
<1>4. Weight(Content(items)) \in Nat /\ Weight(Content(w)) \in Nat
  BY <1>3, WeightIsFinite
<1>5. CASE Cached(c)
  <2>1. /\ Content(items) = Content(w) \cup {c} /\ Content(w) \cap {c} = {}
        /\ {c} \in SUBSET Chunk /\ IsFiniteSet({c})
    BY <1>3, <1>5, FS_Singleton
  <2>2. Weight(Content(items)) = Weight(Content(w)) + Size[c]
    BY <1>3, <2>1, WeightAdds, WeightOfOne
  <2> QED BY <1>2, <1>4, <1>5, <2>2 DEF w
<1>6. CASE ~Cached(c)
  <2>1. Content(items) = Content(w)
    BY <1>3, <1>6
  <2> QED BY <1>2, <1>4, <1>6, <2>1 DEF w
<1> QED BY <1>5, <1>6

\* A chunk goes to the front of a list (lru.go:56).
LEMMA FrontAdds ==
  ASSUME NEW w \in Seq(Chunk), Distinct(w), NEW c \in Chunk, ~InList(w, c),
         NEW f, f = <<c>> \o w
  PROVE  f \in Seq(Chunk) /\ Distinct(f) /\ Bytes(f) = Bytes(w) + Size[c]
<1>1. /\ f \in Seq(Chunk) /\ Len(f) = Len(w) + 1
      /\ \A i \in 1..(Len(w) + 1) : f[i] = IF i = 1 THEN c ELSE w[i - 1]
  BY FrontOfList
<1>2. Distinct(f) /\ \A d \in Chunk : InList(f, d) => InList(w, d) \/ d = c
  <2>1. Len(f) \in 0..Len(f) /\ f = SubSeq(f, 1, Len(f))
    BY <1>1, SubSeqFull
  <2> QED BY <2>1, FrontIsCut, ZenonT(40)
<1>3. ASSUME NEW d \in Chunk, InList(w, d) \/ d = c PROVE InList(f, d)
  <2>1. DOMAIN f = 1..(Len(w) + 1) /\ DOMAIN w = 1..Len(w) /\ Len(w) \in Nat
    BY <1>1
  <2>2. CASE d = c
    BY <1>1, <2>1, <2>2 DEF InList
  <2>3. CASE InList(w, d)
    <3>1. PICK i \in 1..Len(w) : w[i] = d
      BY <2>1, <2>3 DEF InList
    <3>2. i + 1 \in DOMAIN f /\ i + 1 # 1 /\ (i + 1) - 1 = i
      BY <2>1
    <3>3. f[i + 1] = d
      BY <1>1, <2>1, <3>1, <3>2
    <3> QED BY <3>2, <3>3 DEF InList
  <2> QED BY <1>3, <2>2, <2>3
<1>4. /\ Content(w) \in SUBSET Chunk /\ IsFiniteSet(Content(w)) /\ Content(f) \in SUBSET Chunk
      /\ \A d \in Chunk : d \in Content(f) <=> InList(f, d)
      /\ \A d \in Chunk : d \in Content(w) <=> InList(w, d)
  BY <1>1, ContentIsListed
<1>5. /\ Content(f) = Content(w) \cup {c} /\ Content(w) \cap {c} = {}
      /\ {c} \in SUBSET Chunk /\ IsFiniteSet({c})
  BY <1>2, <1>3, <1>4, FS_Singleton
<1>6. Weight(Content(f)) = Weight(Content(w)) + Size[c]
  BY <1>4, <1>5, WeightAdds, WeightOfOne
<1>7. Bytes(f) = Weight(Content(f)) /\ Bytes(w) = Weight(Content(w))
  BY <1>1, <1>2, BytesAreWeight DEF Content
<1> QED BY <1>1, <1>2, <1>6, <1>7

\* The cache's count is that of its list, and what TypeOK says of the history.
Account ==
  /\ bytes = Bytes(items) /\ bytes <= MaxBytes
  /\ clean \in [Proc -> BOOLEAN]
  /\ crashes \in 0..MaxCrashes

LEMMA NoBytes == Bytes(<< >>) = 0
<1>1. << >> \in Seq(Chunk) /\ Distinct(<< >>)
  BY DEF Distinct
<1>2. Cells(ChunksAt(<< >>, DOMAIN << >>)) = {}
  BY DEF Cells, ChunksAt
<1>3. Bytes(<< >>) = Weight(ChunksAt(<< >>, DOMAIN << >>))
  BY <1>1, BytesAreWeight
<1> QED BY <1>2, <1>3, FS_EmptySet DEF Weight

\* Each method of the cache counts what it does to the list, and leaves no more
\* than fits (lru.go:37-125).
LEMMA CacheCounts ==
  ASSUME Shape, bytes = Bytes(items), bytes <= MaxBytes, NEW c \in Chunk,
         CacheGet(c) \/ CachePut(c) \/ CacheRemove(c)
  PROVE  bytes' = Bytes(items') /\ bytes' <= MaxBytes
<1> DEFINE w == Without(c)
           f == <<c>> \o w
<1>1. /\ Bytes(items) \in Nat /\ Bytes(w) \in Nat /\ Size[c] \in Nat
      /\ Bytes(items) = IF Cached(c) THEN Bytes(w) + Size[c] ELSE Bytes(w)
  BY RemovalFrees, SizeAssumption
<1>2. f \in Seq(Chunk) /\ Distinct(f) /\ Bytes(f) = Bytes(w) + Size[c]
  <2>1. w \in Seq(Chunk) /\ Distinct(w) /\ ~InList(w, c)
    BY WithoutIsRemoved
  <2>2. f = <<c>> \o w
    OBVIOUS
  <2> HIDE DEF w, f
  <2> QED BY <2>1, <2>2, FrontAdds
<1>3. CASE UNCHANGED cache
  BY <1>3 DEF cache
<1>4. CASE items' = f /\ Cached(c) /\ UNCHANGED bytes
  <2> HIDE DEF w, f
  <2> QED BY <1>1, <1>2, <1>4
<1>5. CASE Evict(f, IF Cached(c) THEN bytes ELSE bytes + Size[c])
  <2> DEFINE total == IF Cached(c) THEN bytes ELSE bytes + Size[c]
  <2>1. total = Bytes(f)
    <3> HIDE DEF w, f
    <3> QED BY <1>1, <1>2
  <2> HIDE DEF w, f
  <2>2. PICK n \in 0..Len(f) :
          /\ total - Bytes(SubSeq(f, n + 1, Len(f))) <= MaxBytes
          /\ items' = SubSeq(f, 1, n)
          /\ bytes' = total - Bytes(SubSeq(f, n + 1, Len(f)))
    BY <1>5 DEF Evict
  <2>3. Bytes(f) - Bytes(SubSeq(f, n + 1, Len(f))) = Bytes(SubSeq(f, 1, n))
    BY <1>2, CutLeaves
  <2> QED BY <2>1, <2>2, <2>3
<1>6. CASE CacheRemove(c)
  <2>1. items' = w /\ bytes' = IF Cached(c) THEN bytes - Size[c] ELSE bytes
    BY <1>6 DEF CacheRemove
  <2>2. bytes' = Bytes(w) /\ bytes' <= MaxBytes
    <3> HIDE DEF w
    <3> QED BY <1>1, <2>1, MaxBytesAssumption
  <2> QED BY <2>1, <2>2
<1> QED
  BY <1>3, <1>4, <1>5, <1>6 DEF CacheGet, CachePut, cache

LEMMA NextAccount == Shape /\ Account /\ [Next]_vars => Account'
<1> SUFFICES ASSUME Shape, Account, [Next]_vars PROVE Account'
  OBVIOUS
<1>1. ASSUME UNCHANGED cache PROVE bytes' = Bytes(items') /\ bytes' <= MaxBytes
  BY <1>1 DEF Account, cache
<1>2. ASSUME NEW p \in Proc, pc[p] # "idle",
             CacheGet(chunk[p]) \/ CachePut(chunk[p]) \/ CacheRemove(chunk[p])
      PROVE  bytes' = Bytes(items') /\ bytes' <= MaxBytes
  <2>1. chunk[p] \in Chunk
    BY <1>2 DEF Shape
  <2> QED BY <1>2, <2>1, CacheCounts DEF Account
<1>3. ASSUME NEW p \in Proc, NEW c \in Chunk, NEW o \in {"put", "get", "delete"}, Call(p, o, c)
      PROVE  Account'
  <2>1. UNCHANGED cache /\ crashes' = crashes /\ clean' \in [Proc -> BOOLEAN]
    BY <1>3 DEF Call, Account
  <2> QED BY <1>1, <2>1 DEF Account
<1>4. ASSUME NEW p \in Proc, PutStart(p) \/ PutFill(p) \/ GetStart(p) \/ GetFill(p)
      PROVE  Account'
  <2>1. /\ pc[p] # "idle"
        /\ CacheGet(chunk[p]) \/ CachePut(chunk[p])
        /\ crashes' = crashes /\ clean' = clean
    BY <1>4 DEF PutStart, PutFill, GetStart, GetFill, At, Confirm, history
  <2> QED BY <1>2, <1>4, <2>1 DEF Account, At, PutStart, PutFill, GetStart, GetFill
<1>5. ASSUME NEW p \in Proc, PutExists(p) \/ PutCreate(p) \/ GetRead(p)
      PROVE  Account'
  <2>1. UNCHANGED cache /\ crashes' = crashes /\ clean' = clean
    BY <1>5 DEF PutExists, PutCreate, GetRead, history
  <2> QED BY <1>1, <2>1 DEF Account
<1>6. ASSUME NEW p \in Proc, DeleteStart(p) PROVE Account'
  <2>1. pc[p] # "idle" /\ CacheRemove(chunk[p]) /\ crashes' = crashes
        /\ clean' \in [Proc -> BOOLEAN]
    BY <1>6 DEF DeleteStart, At, Account
  <2> QED BY <1>2, <2>1 DEF Account
<1>7. ASSUME NEW p \in Proc, DeleteRemove(p) PROVE Account'
  <2>1. UNCHANGED cache /\ crashes' = crashes /\ clean' \in [Proc -> BOOLEAN]
    BY <1>7 DEF DeleteRemove, Account
  <2> QED BY <1>1, <2>1 DEF Account
<1>8. ASSUME NEW c \in Chunk, InvalidateChunk(c) PROVE Account'
  <2>1. CacheRemove(c) /\ crashes' = crashes /\ clean' = clean
    BY <1>8 DEF InvalidateChunk, history
  <2> QED BY <2>1, CacheCounts DEF Account
<1>9. CASE Crash
  <2>1. items' = << >> /\ bytes' = 0 /\ clean' = [p \in Proc |-> TRUE]
        /\ crashes' = crashes - 1 /\ crashes > 0
    BY <1>9 DEF Crash
  <2> QED BY <2>1, NoBytes, MaxBytesAssumption, CrashAssumption DEF Account
<1>10. CASE UNCHANGED vars
  BY <1>10 DEF vars, cache, history, Account
<1> QED
  BY <1>3, <1>4, <1>5, <1>6, <1>7, <1>8, <1>9, <1>10 DEF Next

\* Every reachable state has its types; in particular the byte count of the cache
\* is that of the chunks it lists, none of them twice, and stays within its limit,
\* whatever was put, moved, evicted or removed before (lru.go:37-125).
THEOREM TypeCorrect == Spec => []TypeOK
<1>1. Init => IInv /\ Account
  <2> SUFFICES ASSUME Init PROVE Account
    BY InitIInv
  <2> QED BY NoBytes, MaxBytesAssumption, CrashAssumption DEF Init, Account
<1>2. IInv /\ Account /\ [Next]_vars => (IInv /\ Account)'
  BY NextIInv, NextAccount DEF IInv
<1>3. IInv /\ Account => TypeOK
  BY DEF IInv, Shape, Account, TypeOK, IsInjective, Distinct
<1> QED BY <1>1, <1>2, <1>3, PTL DEF Spec
=============================================================================
