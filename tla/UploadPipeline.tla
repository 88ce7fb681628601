---------------------------- MODULE UploadPipeline ----------------------------
(***************************************************************************)
(* One native upload: the handler splits the body and feeds a bounded job  *)
(* channel; workers store the chunks and report a failure through an error *)
(* channel that holds one error.                                           *)
(*                                                                         *)
(* Source: handlePutFile of internal/api/handlers.go, with SplitStream and *)
(* SplitStreamCDC of internal/chunk, which call processChunkFunc once per  *)
(* chunk and stop at its first error.  The client, the network or net/http *)
(* may end the body before it is complete; the fixed-size splitter takes an*)
(* io.ErrUnexpectedEOF for the end of the body.                            *)
(*                                                                         *)
(* A chunk is the position it has in the body.  A select on several ready  *)
(* channels is a choice between them.                                      *)
(***************************************************************************)
EXTENDS Naturals, Sequences

CONSTANTS
  Chunks,  \* the number of chunks of the body
  Worker,  \* the goroutines that store them (8 in the code)
  JobsCap  \* capacity of jobs (8 in the code)

ASSUME ChunksAssumption == Chunks \in Nat \ {0}
ASSUME WorkerAssumption == Worker # {}
ASSUME JobsCapAssumption == JobsCap \in Nat \ {0}

VARIABLES
  pc,         \* where the handler is
  next,       \* the chunk it is at
  err,        \* the splitter returned an error
  cut,        \* history: it took an incomplete body for a complete one
  jobs,       \* the job channel
  errChan,    \* does errChan hold an error
  task,       \* task[w]: the chunk w is storing, 0 when it waits for one
  gone,       \* the workers that have returned
  located,    \* the chunks in chunkLocations
  reserved,   \* the chunks this upload holds in the in-flight registry
  cancelled   \* r.Context() is done

handler == <<pc, next, err, cut>>
channels == <<jobs, errChan>>
workers == <<task, gone, located>>
vars == <<handler, channels, workers, reserved, cancelled>>

Body == 1..Chunks
Replied == pc \in {"created", "failed"}

TypeOK ==
  /\ pc \in {"split", "offer", "closed", "created", "failed"}
  /\ next \in 1..(Chunks + 1)
  /\ err \in BOOLEAN
  /\ cut \in BOOLEAN
  /\ jobs \in Seq(Body) /\ Len(jobs) <= JobsCap
  /\ errChan \in BOOLEAN
  /\ task \in [Worker -> Body \cup {0}]
  /\ gone \in SUBSET Worker
  /\ located \in SUBSET Body
  /\ reserved \in SUBSET Body
  /\ cancelled \in BOOLEAN

Init ==
  /\ pc = "split"
  /\ next = 1
  /\ err = FALSE
  /\ cut = FALSE
  /\ jobs = <<>>
  /\ errChan = FALSE
  /\ task = [w \in Worker |-> 0]
  /\ gone = {}
  /\ located = {}
  /\ reserved = {}
  /\ cancelled = FALSE

-----------------------------------------------------------------------------
(* Faulty variants *)

\* The handler waits until the channel is drained, not until the workers are
\* done.
ReplyEarly ==
  /\ pc = "closed"
  /\ jobs = <<>>
  /\ pc' = IF err \/ errChan THEN "failed" ELSE "created"
  /\ errChan' = (errChan /\ err)
  /\ reserved' = {}
  /\ UNCHANGED <<next, err, cut, jobs, workers, cancelled>>

\* The handler does not look at errChan again.
ReplyUnchecked ==
  /\ pc = "closed"
  /\ gone = Worker
  /\ pc' = IF err THEN "failed" ELSE "created"
  /\ reserved' = {}
  /\ UNCHANGED <<next, err, cut, channels, workers, cancelled>>

\* An unbuffered errChan: a worker that finds nobody receiving drops its error.
ChunkFailsUnbuffered(w) ==
  /\ task[w] # 0
  /\ errChan' = errChan
  /\ task' = [task EXCEPT ![w] = 0]
  /\ gone' = gone \cup {w}
  /\ UNCHANGED <<handler, jobs, located, reserved, cancelled>>

-----------------------------------------------------------------------------
(* The handler *)

\* The splitter gives up with an error and jobs is closed.
Abandon ==
  /\ pc' = "closed"
  /\ err' = TRUE
  /\ UNCHANGED <<next, cut>>

\* Either select of processChunkFunc may take the error of a worker, or see
\* that the client is gone.
TakeError ==
  /\ errChan
  /\ errChan' = FALSE
  /\ Abandon
  /\ UNCHANGED <<jobs, workers, reserved, cancelled>>

SeeCancel ==
  /\ cancelled
  /\ Abandon
  /\ UNCHANGED <<channels, workers, reserved, cancelled>>

\* The first select, when nothing is wrong, and the registration.
ReserveChunk ==
  /\ pc = "split" /\ next <= Chunks
  /\ ~errChan /\ ~cancelled
  /\ reserved' = reserved \cup {next}
  /\ pc' = "offer"
  /\ UNCHANGED <<next, err, cut, channels, workers, cancelled>>

\* The second select blocks while the channel is full.
OfferChunk ==
  /\ pc = "offer"
  /\ Len(jobs) < JobsCap
  /\ jobs' = Append(jobs, next)
  /\ next' = next + 1
  /\ pc' = "split"
  /\ UNCHANGED <<err, cut, errChan, workers, reserved, cancelled>>

ProcessChunk ==
  \/ ReserveChunk
  \/ OfferChunk
  \/ /\ \/ pc = "split" /\ next <= Chunks
        \/ pc = "offer"
     /\ TakeError \/ SeeCancel

\* The body ends, cannot be read further, or is cut short.  io.ErrUnexpectedEOF is
\* what net/http returns when the connection goes: whether it comes between two
\* chunks or within the one last seen, SplitStream returns no error unless nothing
\* was read.  (SplitStreamCDC does return one.)
BodyEnds ==
  /\ pc = "split"
  /\ \/ next = Chunks + 1 /\ UNCHANGED <<err, cut>>
     \/ err' = TRUE /\ UNCHANGED cut
     \/ next > 1 /\ cut' = TRUE /\ UNCHANGED err
  /\ pc' = "closed"
  /\ UNCHANGED <<next, channels, workers, reserved, cancelled>>

\* After wg.Wait: a last look at errChan, then the manifest is recorded and the
\* deferred Unregister runs.
Reply ==
  /\ pc = "closed"
  /\ gone = Worker
  /\ pc' = IF err \/ errChan THEN "failed" ELSE "created"
  /\ errChan' = (errChan /\ err)
  /\ reserved' = {}
  /\ UNCHANGED <<next, err, cut, jobs, workers, cancelled>>

ClientLeaves ==
  /\ ~cancelled /\ ~Replied
  /\ cancelled' = TRUE
  /\ UNCHANGED <<handler, channels, workers, reserved>>

-----------------------------------------------------------------------------
(* The workers *)

TakeJob(w) ==
  /\ w \notin gone /\ task[w] = 0
  /\ jobs # <<>>
  /\ task' = [task EXCEPT ![w] = Head(jobs)]
  /\ jobs' = Tail(jobs)
  /\ UNCHANGED <<handler, errChan, gone, located, reserved, cancelled>>

\* range over a channel that is closed and empty.
NoMoreJobs(w) ==
  /\ w \notin gone /\ task[w] = 0
  /\ jobs = <<>> /\ pc = "closed"
  /\ gone' = gone \cup {w}
  /\ UNCHANGED <<handler, channels, task, located, reserved, cancelled>>

\* PutChunk succeeds ...
ChunkStored(w) ==
  /\ task[w] # 0
  /\ located' = located \cup {task[w]}
  /\ task' = [task EXCEPT ![w] = 0]
  /\ UNCHANGED <<handler, channels, gone, reserved, cancelled>>

\* ... or fails: the error is sent unless another one is waiting, and the
\* worker returns.
ChunkFails(w) ==
  /\ task[w] # 0
  /\ errChan' = TRUE
  /\ task' = [task EXCEPT ![w] = 0]
  /\ gone' = gone \cup {w}
  /\ UNCHANGED <<handler, jobs, located, reserved, cancelled>>

-----------------------------------------------------------------------------
HandlerStep == ProcessChunk \/ BodyEnds \/ Reply
WorkerStep(w) == TakeJob(w) \/ NoMoreJobs(w) \/ ChunkStored(w) \/ ChunkFails(w)

Next ==
  \/ HandlerStep
  \/ ClientLeaves
  \/ \E w \in Worker : WorkerStep(w)

Spec == Init /\ [][Next]_vars

\* The body is read with a deadline and PutChunk is called with one; the client
\* need not go away.
Fairness == WF_vars(HandlerStep) /\ \A w \in Worker : WF_vars(WorkerStep(w))

FairSpec == Spec /\ Fairness

-----------------------------------------------------------------------------
(* Properties *)

\* An upload is acknowledged, and its manifest recorded, only when PutChunk has
\* returned for every chunk that was received, whichever worker failed and whenever
\* (handlers.go:319-333); and that is the whole body unless the splitter took an
\* incomplete one for complete (chunker.go:89), but never an empty one.
AcknowledgedIsStored ==
  pc = "created" =>
    /\ located = 1..(next - 1) /\ located # {}
    /\ ~cut => located = Body

\* A worker that writes a chunk does so under the reservation that keeps the
\* collector away, also when the upload has already failed: the deferred
\* Unregister cannot overtake a slow worker (handlers.go:246, 320).
WritesAreReserved == \A w \in Worker : task[w] # 0 => task[w] \in reserved

\* The handler always answers: it never blocks on a full channel that all the
\* workers have left (handlers.go:301-308).
HandlerAnswers == <>Replied
=============================================================================
