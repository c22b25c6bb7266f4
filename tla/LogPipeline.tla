---------------------------- MODULE LogPipeline ------------------------------
(***************************************************************************)
(* The verification log (internal/handler/handler.go): handlers hand their *)
(* entries to a bounded channel and never wait; one goroutine collects     *)
(* them into batches and inserts the batches into PostgreSQL one entry at  *)
(* a time; main() stops the process without closing the channel.           *)
(*                                                                         *)
(* An entry is the number of the asyncLog call that made it.               *)
(***************************************************************************)
EXTENDS Integers, Sequences

CONSTANTS
    ChannelSize,  \* capacity of Handler.logCh
    BatchMax,     \* entries in a full batch
    Databases,    \* may PostgreSQL be there at the start? a subset of BOOLEAN
    MaxEntries    \* bound: number of asyncLog calls

ASSUME PipelineAssumption ==
    /\ ChannelSize \in Nat \ {0}
    /\ BatchMax \in Nat \ {0}
    /\ Databases \subseteq BOOLEAN /\ Databases # {}
    /\ MaxEntries \in Nat

VARIABLES
    pg,       \* Handler.pg is set
    offered,  \* asyncLog calls so far
    logCh,    \* the channel
    batch,    \* logWriter's batch
    flushed,  \* entries of the batch flushLogs is done with, -1 outside it
    expired,  \* the ten seconds of the running flush are over
    written,  \* rows of verification_logs, in order of insertion
    lost,     \* entries dropped, failed or discarded
    phase     \* main(): "serving", "drained" (server.Shutdown returned),
              \* "closed" (pgClient.Close returned), "exited"

vars == <<pg, offered, logCh, batch, flushed, expired, written, lost, phase>>

Init ==
    /\ pg \in Databases
    /\ offered = 0
    /\ logCh = <<>> /\ batch = <<>>
    /\ flushed = -1 /\ expired = FALSE
    /\ written = <<>> /\ lost = {}
    /\ phase = "serving"

Flushing == flushed # -1
Elements(s) == {s[i] : i \in 1..Len(s)}

-----------------------------------------------------------------------------
(* The handlers *)

AsyncLog_DropOldest ==
    /\ phase = "serving" /\ offered < MaxEntries
    /\ offered' = offered + 1
    /\ IF Len(logCh) < ChannelSize
         THEN logCh' = Append(logCh, offered + 1) /\ UNCHANGED lost
         ELSE logCh' = Append(Tail(logCh), offered + 1) /\ lost' = lost \cup {Head(logCh)}
    /\ UNCHANGED <<pg, batch, flushed, expired, written, phase>>

\* A send that does not wait: a full channel drops the new entry.
AsyncLog ==
    /\ phase = "serving" /\ offered < MaxEntries
    /\ offered' = offered + 1
    /\ IF Len(logCh) < ChannelSize
         THEN logCh' = Append(logCh, offered + 1) /\ UNCHANGED lost
         ELSE lost' = lost \cup {offered + 1} /\ UNCHANGED logCh
    /\ UNCHANGED <<pg, batch, flushed, expired, written, phase>>

-----------------------------------------------------------------------------
(* logWriter and flushLogs *)

\* flushLogs begins, or returns at once without a database; the batch is then
\* cut to length zero.
StartFlush(b) ==
    IF pg
      THEN /\ batch' = b /\ flushed' = 0 /\ expired' = FALSE
           /\ UNCHANGED lost
      ELSE /\ batch' = <<>> /\ UNCHANGED <<flushed, expired>>
           /\ lost' = lost \cup Elements(b)

Receive_AtOverflow ==
    /\ phase # "exited" /\ ~Flushing /\ logCh # <<>>
    /\ logCh' = Tail(logCh)
    /\ LET b == Append(batch, Head(logCh)) IN
         IF Len(b) > BatchMax
           THEN StartFlush(b)
           ELSE batch' = b /\ UNCHANGED <<flushed, expired, lost>>
    /\ UNCHANGED <<pg, offered, written, phase>>

\* One entry from the channel; a full batch is flushed.
Receive ==
    /\ phase # "exited" /\ ~Flushing /\ logCh # <<>>
    /\ logCh' = Tail(logCh)
    /\ LET b == Append(batch, Head(logCh)) IN
         IF Len(b) >= BatchMax
           THEN StartFlush(b)
           ELSE batch' = b /\ UNCHANGED <<flushed, expired, lost>>
    /\ UNCHANGED <<pg, offered, written, phase>>

Ticker_OnlyFull ==
    /\ phase # "exited" /\ ~Flushing /\ Len(batch) >= BatchMax
    /\ StartFlush(batch)
    /\ UNCHANGED <<pg, offered, logCh, written, phase>>

\* The five-second ticker flushes what there is.
Ticker ==
    /\ phase # "exited" /\ ~Flushing /\ batch # <<>>
    /\ StartFlush(batch)
    /\ UNCHANGED <<pg, offered, logCh, written, phase>>

Advance_KeepsBatch ==
    IF flushed + 1 = Len(batch)
      THEN flushed' = -1 /\ expired' = FALSE /\ UNCHANGED batch
      ELSE flushed' = flushed + 1 /\ UNCHANGED <<batch, expired>>

\* Step over one entry of the batch; the last one ends the flush.
Advance ==
    IF flushed + 1 = Len(batch)
      THEN flushed' = -1 /\ batch' = <<>> /\ expired' = FALSE
      ELSE flushed' = flushed + 1 /\ UNCHANGED <<batch, expired>>

Current == batch[flushed + 1]

\* pg.Exec inserts the entry.
Insert ==
    /\ phase \in {"serving", "drained"} /\ Flushing /\ ~expired
    /\ written' = Append(written, Current)
    /\ Advance
    /\ UNCHANGED <<pg, offered, logCh, lost, phase>>

\* pg.Exec fails: the database, the deadline, the closed pool, or a value it
\* does not accept.  The error is logged and the loop goes on.
InsertFails ==
    /\ phase # "exited" /\ Flushing
    /\ lost' = lost \cup {Current}
    /\ Advance
    /\ UNCHANGED <<pg, offered, logCh, written, phase>>

FlushDeadline ==
    /\ phase # "exited" /\ Flushing /\ ~expired
    /\ expired' = TRUE
    /\ UNCHANGED <<pg, offered, logCh, batch, flushed, written, lost, phase>>

-----------------------------------------------------------------------------
(* main() after SIGTERM *)

\* server.Shutdown waits for the handlers, or gives up after ten seconds and
\* ends the process; pgClient.Close waits for connections in use; nobody
\* closes the channel or waits for logWriter.
Stop ==
    /\ \/ phase = "serving" /\ phase' = "drained"
       \/ phase = "drained" /\ phase' = "closed"
       \/ phase \in {"serving", "closed"} /\ phase' = "exited"
    /\ UNCHANGED <<pg, offered, logCh, batch, flushed, expired, written, lost>>

Writer == Receive \/ Ticker \/ Insert \/ InsertFails

Next == AsyncLog \/ Writer \/ FlushDeadline \/ Stop

Spec == Init /\ [][Next]_vars

\* logWriter runs, its ticker fires, and an insert ends one way or the other.
Fairness == WF_vars(Writer)

FairSpec == Spec /\ Fairness

-----------------------------------------------------------------------------
(* What is claimed *)

TypeOK ==
    /\ offered \in 0..MaxEntries
    /\ logCh \in Seq(1..MaxEntries) /\ batch \in Seq(1..MaxEntries)
    /\ flushed \in -1..(BatchMax - 1) /\ expired \in BOOLEAN
    /\ written \in Seq(1..MaxEntries) /\ lost \subseteq 1..MaxEntries
    /\ phase \in {"serving", "drained", "closed", "exited"}
    /\ pg \in Databases

\* Memory stays bounded however slow the database is: neither the channel nor
\* the batch outgrows its size, and a flush works on a batch that is there
\* (handler.go:54, 494-515).
Bounded ==
    /\ Len(logCh) <= ChannelSize
    /\ Len(batch) <= BatchMax
    /\ Flushing => flushed < Len(batch)
    /\ ~Flushing => Len(batch) < BatchMax

\* The accepted entries that are neither written nor lost.
Pending == SubSeq(batch, IF Flushing THEN flushed + 1 ELSE 1, Len(batch)) \o logCh

\* No entry is lost track of, written twice, or written out of order, through
\* drops, batches, failed inserts and deadlines (handler.go:484-544).
Abstract == INSTANCE LossyLog WITH pending <- Pending

ImplementsLossyLog == Abstract!Spec

\* Every entry is written or given up unless the process ends before: a batch
\* that never fills is flushed by the ticker (handler.go:510-514).
EveryEntrySettles ==
    \A e \in 1..MaxEntries:
        offered >= e ~> (e \in lost \/ e \in Elements(written) \/ phase = "exited")

-----------------------------------------------------------------------------
(* What the documents say *)

\* architecture.md:131 "records every verification attempt": an orderly
\* shutdown leaves no accepted entry unwritten when it closes the database.
ShutdownKeepsEntries == phase = "closed" => Pending = <<>>

=============================================================================
