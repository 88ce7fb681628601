----------------------------- MODULE DurableStore -----------------------------
(***************************************************************************)
(* What a store behind a write-ahead log promises: one value per key that  *)
(* clients change and read, and that a crash leaves alone.  Nothing is said*)
(* of files, records or a replay: a recovery is a single step.             *)
(*                                                                         *)
(* As long as the log is sound, a change that is answered is durable, and  *)
(* one that a crash interrupts leaves no trace.  Once it is not, a change  *)
(* can go unrecorded, and can at worst set one key back with it.           *)
(***************************************************************************)
CONSTANTS Key, Val, Nil

VARIABLES
  up,       \* is the store served
  live,     \* what it serves, Nil for every key while it is down
  durable,  \* what a recovery would find now
  sound     \* every change so far was recorded legibly or not at all

Value == Val \cup {Nil}
Empty == [k \in Key |-> Nil]

Init ==
  /\ up = TRUE /\ sound = TRUE
  /\ live = Empty
  /\ durable = Empty

\* The change of k to v is recorded.
Recorded(k, v) ==
  /\ durable' = [durable EXCEPT ![k] = v]
  /\ UNCHANGED sound

\* It is not, and in a log that was damaged before, the last record goes with it.
Unrecorded ==
  /\ sound' = FALSE
  /\ \/ UNCHANGED durable
     \/ ~sound /\ \E k \in Key, v \in Value : durable' = [durable EXCEPT ![k] = v]

\* A change that is answered.
Change(k, v) ==
  /\ up
  /\ live' = [live EXCEPT ![k] = v]
  /\ Recorded(k, v) \/ Unrecorded
  /\ UNCHANGED up

Down ==
  /\ up' = FALSE
  /\ live' = Empty

\* A change that a crash interrupts: without a trace, or with damage to the log.
Interrupted(k, v) ==
  /\ up
  /\ Down
  /\ \/ UNCHANGED <<durable, sound>>
     \/ sound' = FALSE /\ durable' = [durable EXCEPT ![k] = v]
     \/ Unrecorded

Crash ==
  /\ up
  /\ Down
  /\ UNCHANGED <<durable, sound>>

Recover ==
  /\ ~up
  /\ up' = TRUE
  /\ live' = durable
  /\ UNCHANGED <<durable, sound>>

Next ==
  \/ \E k \in Key, v \in Value : Change(k, v) \/ Interrupted(k, v)
  \/ Crash
  \/ Recover

Spec == Init /\ [][Next]_<<up, live, durable, sound>>

\* What clients see is what a recovery would find.
NothingToLose == up /\ sound => live = durable
=============================================================================
