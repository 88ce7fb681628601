------------------------- MODULE UploadPipelineProofs -------------------------
(***************************************************************************)
(* Proofs about UploadPipeline, for a body of any length, any set of       *)
(* workers and any channel capacity.                                       *)
(***************************************************************************)
EXTENDS UploadPipeline, TLAPS

-----------------------------------------------------------------------------
(* The inductive invariant *)

Waiting(i) == \E k \in 1..Len(jobs) : jobs[k] = i
Underway(i) == \E w \in Worker : task[w] = i

\* The handler offers a chunk of the body, and has reserved it.
OfferIsReserved == pc = "offer" => next \in Body /\ next \in reserved

\* A chunk that was offered is stored or on its way, or an error is known.
Accounted ==
  pc # "failed" =>
    \A i \in 1..(next - 1) : i \in located \/ Waiting(i) \/ Underway(i) \/ err \/ errChan

\* A worker returns because of an error, or because there is nothing left.
GoneForReason ==
  pc # "failed" /\ gone # {} =>
    err \/ errChan \/ (jobs = <<>> /\ pc \in {"closed", "created"})

\* The splitter stops early only with an error, or after a chunk of a body that was
\* cut short.
StopsAtEnd == pc = "closed" => err \/ (next > 1 /\ (cut \/ next = Chunks + 1))

\* Only chunks that were received are with the workers or stored.
OnlyReceived ==
  /\ \A k \in 1..Len(jobs) : jobs[k] < next
  /\ \A w \in Worker : task[w] < next
  /\ \A i \in located : i < next

\* A worker that has returned stores nothing, and the reply waits for all.
GoneIsIdle ==
  /\ \A w \in gone : task[w] = 0
  /\ Replied => gone = Worker

JobsAreReserved == Replied \/ \A k \in 1..Len(jobs) : jobs[k] \in reserved

IInv ==
  /\ OfferIsReserved
  /\ Accounted
  /\ GoneForReason
  /\ StopsAtEnd
  /\ OnlyReceived
  /\ GoneIsIdle
  /\ JobsAreReserved
  /\ WritesAreReserved
  /\ AcknowledgedIsStored

LEMMA InitIsGood == Init => TypeOK /\ IInv
<1>1. Init => TypeOK
  <2>1. 0 <= JobsCap /\ 1 \in 1..(Chunks + 1) /\ Len(<<>>) = 0
    BY ChunksAssumption, JobsCapAssumption
  <2>2. Init => jobs \in Seq(Body) /\ Len(jobs) <= JobsCap
    BY <2>1 DEF Init
  <2>3. Init => next \in 1..(Chunks + 1)
    BY <2>1 DEF Init
  <2>4. Init => task \in [Worker -> Body \cup {0}]
    BY DEF Init
  <2>q. QED
    BY <2>2, <2>3, <2>4 DEF Init, TypeOK
<1>2. Init => IInv
  BY WorkerAssumption DEF Init, IInv, OfferIsReserved, Accounted, GoneForReason, StopsAtEnd,
     OnlyReceived, GoneIsIdle, JobsAreReserved, WritesAreReserved, AcknowledgedIsStored, Replied
<1>q. QED
  BY <1>1, <1>2

\* The steps of the handler, one for each way to leave a select.
LEMMA ProcessCases ==
  ASSUME ProcessChunk
  PROVE  \/ ReserveChunk
         \/ OfferChunk
         \/ TakeError /\ pc \in {"split", "offer"}
         \/ SeeCancel /\ pc \in {"split", "offer"}
BY DEF ProcessChunk

\* The variables keep their types.
LEMMA NextType ==
  ASSUME TypeOK, OfferIsReserved, [Next]_vars
  PROVE  TypeOK'
<1> USE ChunksAssumption, JobsCapAssumption DEF TypeOK, Body
<1>1. CASE ReserveChunk
  BY <1>1 DEF ReserveChunk, channels, workers
<1>2. CASE OfferChunk
  BY <1>2 DEF OfferChunk, OfferIsReserved, workers
<1>3. CASE TakeError
  BY <1>3 DEF TakeError, Abandon, workers
<1>4. CASE SeeCancel
  BY <1>4 DEF SeeCancel, Abandon, channels, workers
<1>5. CASE BodyEnds
  BY <1>5 DEF BodyEnds, channels, workers
<1>6. CASE Reply
  BY <1>6 DEF Reply, workers
<1>7. CASE ClientLeaves
  BY <1>7 DEF ClientLeaves, handler, channels, workers
<1>8. ASSUME NEW w \in Worker, TakeJob(w) PROVE TypeOK'
  <2>1. jobs' \in Seq(1..Chunks) /\ Len(jobs') <= JobsCap /\ Head(jobs) \in 1..Chunks
    BY <1>8 DEF TakeJob
  <2>q. QED
    BY <1>8, <2>1 DEF TakeJob, handler
<1>9. ASSUME NEW w \in Worker, NoMoreJobs(w) PROVE TypeOK'
  BY <1>9 DEF NoMoreJobs, handler, channels
<1>10. ASSUME NEW w \in Worker, ChunkStored(w) PROVE TypeOK'
  BY <1>10 DEF ChunkStored, handler, channels
<1>11. ASSUME NEW w \in Worker, ChunkFails(w) PROVE TypeOK'
  BY <1>11 DEF ChunkFails, handler
<1>12. CASE UNCHANGED vars
  BY <1>12 DEF vars, handler, channels, workers
<1>q. QED
  BY <1>1, <1>2, <1>3, <1>4, <1>5, <1>6, <1>7, <1>8, <1>9, <1>10, <1>11, <1>12, ProcessCases
  DEF Next, HandlerStep, WorkerStep

\* Each step of the handler keeps the invariant.
LEMMA HandlerKeeps ==
  ASSUME TypeOK, IInv, HandlerStep
  PROVE  IInv'
<1> USE DEF TypeOK, Body, IInv
<1>1. CASE ReserveChunk
  BY <1>1 DEF ReserveChunk, channels, workers, OfferIsReserved, Accounted, GoneForReason,
     StopsAtEnd, OnlyReceived, GoneIsIdle, JobsAreReserved, WritesAreReserved,
     AcknowledgedIsStored, Replied,
     Waiting, Underway
<1>2. CASE OfferChunk
  <2>1. /\ Len(jobs') = Len(jobs) + 1 /\ jobs'[Len(jobs) + 1] = next
        /\ \A k \in 1..Len(jobs) : jobs'[k] = jobs[k]
    BY <1>2 DEF OfferChunk
  <2>2. Accounted'
    <3>1. \A i \in 1..(next - 1) : i \in located \/ Waiting(i) \/ Underway(i) \/ err \/ errChan
      BY <1>2 DEF OfferChunk, Accounted
    <3>2. \A i : Waiting(i) => Waiting(i)'
      BY <2>1 DEF Waiting
    <3>3. \A i : i = next => Waiting(i)'
      BY <2>1 DEF Waiting
    <3>4. \A i : Underway(i) => Underway(i)'
      BY <1>2 DEF OfferChunk, workers, Underway
    <3>q. QED
      BY <1>2, <3>1, <3>2, <3>3, <3>4 DEF OfferChunk, workers, Accounted
  <2>3. JobsAreReserved'
    BY <1>2, <2>1 DEF OfferChunk, JobsAreReserved, OfferIsReserved, Replied
  <2>4. GoneForReason'
    BY <1>2 DEF OfferChunk, workers, GoneForReason
  <2>5. OnlyReceived'
    <3>1. next' = next + 1 /\ next \in Nat /\ Len(jobs) \in Nat
      BY <1>2 DEF OfferChunk
    <3>2. ASSUME NEW k \in 1..Len(jobs') PROVE jobs'[k] < next'
      <4>1. CASE k = Len(jobs) + 1
        BY <2>1, <3>1, <4>1
      <4>2. CASE k # Len(jobs) + 1
        <5>1. k \in 1..Len(jobs)
          BY <2>1, <3>1, <4>2
        <5>2. ASSUME NEW S, NEW q \in Seq(S), NEW n \in 1..Len(q) PROVE q[n] \in S
          OBVIOUS
        <5>3. jobs[k] \in 1..Chunks
          BY <5>1, <5>2
        <5>q. QED
          BY <2>1, <3>1, <5>1, <5>3 DEF OnlyReceived
      <4>q. QED
        BY <4>1, <4>2
    <3>3. /\ \A w \in Worker : task[w] \in Nat /\ task[w] < next
          /\ \A i \in located : i \in Nat /\ i < next
      BY DEF OnlyReceived
    <3>q. QED
      BY <1>2, <3>1, <3>2, <3>3 DEF OfferChunk, workers, OnlyReceived
  <2>q. QED
    BY <1>2, <2>2, <2>3, <2>4, <2>5 DEF OfferChunk, workers, OfferIsReserved, StopsAtEnd,
       GoneIsIdle, WritesAreReserved, AcknowledgedIsStored, Replied
<1>3. CASE (TakeError \/ SeeCancel) /\ pc \in {"split", "offer"}
  BY <1>3 DEF TakeError, SeeCancel, Abandon, channels, workers, OfferIsReserved, Accounted,
     GoneForReason, StopsAtEnd,
     OnlyReceived, GoneIsIdle, JobsAreReserved, WritesAreReserved,
     AcknowledgedIsStored, Replied
<1>4. CASE BodyEnds
  <2>1. StopsAtEnd'
    BY <1>4, ChunksAssumption DEF BodyEnds, StopsAtEnd
  <2>2. GoneForReason' /\ Accounted'
    BY <1>4 DEF BodyEnds, channels, workers, Accounted, GoneForReason, Waiting, Underway
  <2>q. QED
    BY <1>4, <2>1, <2>2 DEF BodyEnds, channels, workers, OfferIsReserved, OnlyReceived,
       GoneIsIdle, JobsAreReserved, WritesAreReserved, AcknowledgedIsStored, Replied
<1>5. CASE Reply
  <2>1. \A w \in Worker : task[w] = 0
    BY <1>5 DEF Reply, GoneIsIdle
  <2>2. pc' = "created" => /\ ~err /\ ~errChan /\ jobs = <<>>
                           /\ next > 1 /\ (cut \/ next = Chunks + 1)
    BY <1>5, WorkerAssumption DEF Reply, GoneForReason, StopsAtEnd
  <2>3. ASSUME pc' = "created" PROVE located = 1..(next - 1)
    <3>1. ASSUME NEW i \in 1..(next - 1) PROVE i \in located
      <4>1. ~Waiting(i) /\ ~Underway(i)
        BY <2>1, <2>2, <2>3 DEF Waiting, Underway
      <4>q. QED
        BY <1>5, <2>2, <2>3, <4>1 DEF Reply, Accounted
    <3>2. \A i \in located : i \in 1..(next - 1)
      BY DEF OnlyReceived
    <3>q. QED
      BY <3>1, <3>2
  <2>4. AcknowledgedIsStored'
    <3>1. ASSUME pc' = "created" PROVE located # {} /\ (~cut => located = 1..Chunks)
      <4>1. 1 \in 1..(next - 1) /\ (~cut => next - 1 = Chunks)
        BY <2>2, <3>1, ChunksAssumption
      <4>q. QED
        BY <2>3, <3>1, <4>1
    <3>q. QED
      BY <1>5, <2>3, <3>1 DEF Reply, workers, AcknowledgedIsStored
  <2>5. Accounted'
    BY <1>5, <2>3 DEF Reply, workers, Accounted
  <2>6. GoneForReason'
    BY <1>5, <2>2 DEF Reply, workers, GoneForReason
  <2>q. QED
    BY <1>5, <2>1, <2>4, <2>5, <2>6 DEF Reply, workers, OfferIsReserved, StopsAtEnd,
     OnlyReceived, GoneIsIdle, JobsAreReserved, WritesAreReserved, Replied
<1>q. QED
  BY <1>1, <1>2, <1>3, <1>4, <1>5, ProcessCases DEF HandlerStep

\* Each step of a worker keeps the invariant.
LEMMA WorkerKeeps ==
  ASSUME TypeOK, IInv, NEW w \in Worker, WorkerStep(w)
  PROVE  IInv'
<1> USE DEF TypeOK, Body, IInv
<1>1. CASE TakeJob(w)
  <2>1. /\ Len(jobs) >= 1 /\ Head(jobs) = jobs[1] /\ Len(jobs') = Len(jobs) - 1
        /\ \A k \in 1..Len(jobs') : jobs'[k] = jobs[k + 1]
    BY <1>1 DEF TakeJob
  <2>2. ~Replied
    BY <1>1 DEF TakeJob, GoneIsIdle
  <2>3. jobs[1] \in reserved
    BY <2>1, <2>2 DEF JobsAreReserved
  <2>4. task'[w] = jobs[1] /\ \A v \in Worker : v # w => task'[v] = task[v]
    BY <1>1, <2>1 DEF TakeJob
  <2>5. Accounted'
    <3>1. \A i : Waiting(i) => i = jobs[1] \/ Waiting(i)'
      <4>1. ASSUME NEW i, NEW k \in 1..Len(jobs), jobs[k] = i, k # 1 PROVE Waiting(i)'
        <5>1. k - 1 \in 1..Len(jobs') /\ jobs'[k - 1] = i
          BY <2>1, <4>1
        <5>q. QED
          BY <5>1 DEF Waiting
      <4>q. QED
        BY <4>1 DEF Waiting
    <3>2. \A i : i = jobs[1] => Underway(i)'
      BY <2>4 DEF Underway
    <3>3. \A i \in Nat \ {0} : Underway(i) => Underway(i)'
      BY <1>1, <2>4 DEF TakeJob, Underway
    <3>q. QED
      BY <1>1, <3>1, <3>2, <3>3 DEF TakeJob, handler, Accounted
  <2>6. JobsAreReserved'
    BY <1>1, <2>1, <2>2 DEF TakeJob, JobsAreReserved
  <2>7. WritesAreReserved'
    BY <1>1, <2>3, <2>4 DEF TakeJob, WritesAreReserved
  <2>8. GoneForReason'
    BY <1>1 DEF TakeJob, handler, GoneForReason
  <2>9. GoneIsIdle'
    BY <1>1, <2>4 DEF TakeJob, handler, GoneIsIdle, Replied
  <2>10. OnlyReceived'
    BY <1>1, <2>1, <2>4 DEF TakeJob, handler, OnlyReceived
  <2>q. QED
    BY <1>1, <2>5, <2>6, <2>7, <2>8, <2>9, <2>10 DEF TakeJob, handler, OfferIsReserved,
       StopsAtEnd, AcknowledgedIsStored
<1>2. CASE NoMoreJobs(w)
  BY <1>2 DEF NoMoreJobs, handler, channels, OfferIsReserved, Accounted, GoneForReason,
     StopsAtEnd, OnlyReceived, GoneIsIdle, JobsAreReserved, WritesAreReserved,
     AcknowledgedIsStored, Replied,
     Waiting, Underway
<1>3. CASE ChunkStored(w)
  <2>1. task'[w] = 0 /\ \A v \in Worker : v # w => task'[v] = task[v]
    BY <1>3 DEF ChunkStored
  <2>2. Accounted'
    <3>1. \A i : Waiting(i)' <=> Waiting(i)
      BY <1>3 DEF ChunkStored, channels, Waiting
    <3>2. \A i : Underway(i) => i \in located' \/ Underway(i)'
      BY <1>3, <2>1 DEF ChunkStored, Underway
    <3>q. QED
      BY <1>3, <3>1, <3>2 DEF ChunkStored, handler, channels, Accounted
  <2>3. GoneIsIdle' /\ AcknowledgedIsStored' /\ WritesAreReserved'
    BY <1>3, <2>1 DEF ChunkStored, handler, GoneIsIdle, AcknowledgedIsStored,
       WritesAreReserved, Replied
  <2>4. OnlyReceived'
    BY <1>3, <2>1 DEF ChunkStored, handler, channels, OnlyReceived
  <2>q. QED
    BY <1>3, <2>2, <2>3, <2>4 DEF ChunkStored, handler, channels, OfferIsReserved, GoneForReason,
       StopsAtEnd, JobsAreReserved, Replied
<1>4. CASE ChunkFails(w)
  BY <1>4 DEF ChunkFails, handler, OfferIsReserved, Accounted, GoneForReason, StopsAtEnd,
     OnlyReceived, GoneIsIdle, JobsAreReserved, WritesAreReserved, AcknowledgedIsStored, Replied
<1>q. QED
  BY <1>1, <1>2, <1>3, <1>4 DEF WorkerStep

LEMMA NextKeeps ==
  ASSUME TypeOK, IInv, [Next]_vars
  PROVE  IInv'
<1>1. CASE ClientLeaves
  BY <1>1 DEF ClientLeaves, handler, channels, workers, IInv, OfferIsReserved, Accounted,
     GoneForReason, StopsAtEnd,
     OnlyReceived, GoneIsIdle, JobsAreReserved, WritesAreReserved,
     AcknowledgedIsStored, Replied, Waiting, Underway
<1>2. CASE UNCHANGED vars
  BY <1>2 DEF vars, handler, channels, workers, IInv, OfferIsReserved, Accounted,
     GoneForReason, StopsAtEnd,
     OnlyReceived, GoneIsIdle, JobsAreReserved, WritesAreReserved,
     AcknowledgedIsStored, Replied, Waiting, Underway
<1>q. QED
  BY <1>1, <1>2, HandlerKeeps, WorkerKeeps DEF Next

LEMMA Invariance == Spec => [](TypeOK /\ IInv)
<1>1. TypeOK /\ IInv /\ [Next]_vars => TypeOK' /\ IInv'
  BY NextType, NextKeeps DEF IInv
<1>q. QED
  BY <1>1, InitIsGood, PTL DEF Spec

\* The variables keep their types in every behaviour.
THEOREM TypeCorrect == Spec => []TypeOK
BY Invariance, PTL

\* A 201 means that PutChunk has returned for every chunk that was received, and that
\* this is the whole body unless an incomplete one was taken for complete, whichever
\* worker failed and whenever its error was read (handlers.go:319-333).
THEOREM AcknowledgedUploadsAreStored == Spec => []AcknowledgedIsStored
<1>1. IInv => AcknowledgedIsStored
  BY DEF IInv
<1>q. QED
  BY <1>1, Invariance, PTL

\* A chunk is only written under the reservation of its upload.
THEOREM WritesKeepReservation == Spec => []WritesAreReserved
<1>1. IInv => WritesAreReserved
  BY DEF IInv
<1>q. QED
  BY <1>1, Invariance, PTL
=============================================================================
