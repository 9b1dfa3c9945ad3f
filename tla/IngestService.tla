---------------------------- MODULE IngestService ----------------------------
(***************************************************************************)
(* IngestService and IngestWorker (core/ingest.py): producers put frames   *)
(* in a bounded queue, one worker thread makes batches of rows and hands   *)
(* them to the storage, and whoever owns the service starts it, stops it   *)
(* and closes the storage (fdau_ingest in main.py).                        *)
(*                                                                         *)
(* A step is what a thread does between two operations on the queue, the   *)
(* stop event or the storage.  A frame is its seq and its number of points *)
(* that _frame_to_row can convert; with none of them it makes no row.  The *)
(* storage is the sequence of rows it took; append_rows may raise.         *)
(***************************************************************************)
EXTENDS Naturals, Sequences, FiniteSets

CONSTANTS
    Producers,
    Policies,         \* values of overflow_policy, one of which is configured
    QueueMax,         \* queue_max_frames; 0: no limit
    BatchMaxRows,     \* batch_max_rows; 0: no limit
    BatchMaxPoints,   \* batch_max_points; 0: no limit
    BatchMaxMs,       \* values of batch_max_ms, one of which is configured; 0: no limit
    FrameSizes,       \* bound: points a frame of each producer may have
    MaxFrames,        \* bound: frames ever offered
    MaxStarts,        \* bound: calls of start()
    MaxFaults         \* bound: calls of append_rows that raise in an open storage

ASSUME IngestAssumption ==
    /\ Policies \subseteq {"block", "drop_oldest", "drop_newest"}
    /\ {QueueMax, BatchMaxRows, BatchMaxPoints, MaxFrames, MaxStarts, MaxFaults} \subseteq Nat
    /\ BatchMaxMs \subseteq Nat
    /\ FrameSizes \in [Producers -> SUBSET Nat]

VARIABLES
    \* The settings
    policy,       \* overflow_policy
    batchMaxMs,   \* batch_max_ms
    \* Shared
    q,            \* _q: the frames
    stopEvent,    \* _stop_event
    \* IngestWorker
    stage,        \* where run() is; "new" before start, "done" or "dead" after it
    after,        \* where run() goes on when append_rows returns
    batch,        \* _batch
    batchPoints,  \* _batch_points
    batchAge,     \* _batch_started_monotonic: "none", "young", or "due" after batch_max_ms
    writing,      \* the rows append_rows was called with
    lastSeq,      \* _last_seq, 0 for None
    framesIn, rowsOut, pointsOut, seqGaps,
    \* IngestService and its callers
    pc,           \* on_frame of each producer
    frame,        \* its frame, while it is in on_frame
    dropped,      \* dropped_frames
    \* The storage
    stored,       \* the rows append_rows took
    closed,
    \* History
    nextSeq,      \* seq of the next frame
    taken,        \* frames in the order the worker took them
    evicted,      \* seqs drop_oldest removed from the queue
    refused,      \* seqs counted by dropped_frames
    failed,       \* rows append_rows raised on
    beforeStop,   \* seqs that stop() found in the queue or with the worker
    starts, faults

settings == <<policy, batchMaxMs>>
workerVars == <<stage, after, batch, batchPoints, batchAge, writing, lastSeq,
                framesIn, rowsOut, pointsOut, seqGaps, taken>>
producerVars == <<pc, frame, dropped, nextSeq, evicted, refused>>
ownerVars == <<stopEvent, closed, beforeStop, starts>>
storageVars == <<stored, failed, faults>>
vars == <<settings, q, workerVars, producerVars, ownerVars, storageVars>>

Frames == [seq : 1..MaxFrames, points : UNION {FrameSizes[p] : p \in Producers}, by : Producers]

Init ==
    /\ policy \in Policies /\ batchMaxMs \in BatchMaxMs
    /\ q = <<>> /\ stopEvent = FALSE
    /\ stage = "new" /\ after = "check"
    /\ batch = <<>> /\ batchPoints = 0 /\ batchAge = "none" /\ writing = <<>>
    /\ lastSeq = 0
    /\ framesIn = 0 /\ rowsOut = 0 /\ pointsOut = 0 /\ seqGaps = 0
    /\ pc = [p \in Producers |-> "idle"] /\ frame = [p \in Producers |-> <<>>]
    /\ dropped = 0
    /\ stored = <<>> /\ closed = FALSE
    /\ nextSeq = 1 /\ taken = <<>> /\ evicted = {} /\ refused = {} /\ failed = <<>>
    /\ beforeStop = {}
    /\ starts = 0 /\ faults = 0

-----------------------------------------------------------------------------
(* Producers: on_frame.                                                    *)

Full == QueueMax > 0 /\ Len(q) >= QueueMax

\* The producer makes a frame and calls on_frame; seqs are given under a lock.
Produce(p) ==
    /\ pc[p] = "idle"
    /\ nextSeq <= MaxFrames
    /\ nextSeq' = nextSeq + 1
    /\ \E points \in FrameSizes[p] :
         frame' = [frame EXCEPT ![p] = [seq |-> nextSeq, points |-> points, by |-> p]]
    /\ pc' = [pc EXCEPT ![p] = "put"]
    /\ UNCHANGED <<settings, q, dropped, evicted, refused, workerVars, ownerVars, storageVars>>

Return(p) == pc' = [pc EXCEPT ![p] = "idle"] /\ frame' = [frame EXCEPT ![p] = <<>>]

\* Mutant: the queue has no limit.
PutUnlimited(p) ==
    /\ pc[p] \in {"put", "retry"}
    /\ q' = Append(q, frame[p])
    /\ Return(p)
    /\ UNCHANGED <<settings, dropped, nextSeq, evicted, refused, workerVars, ownerVars,
                   storageVars>>

\* put_nowait finds room, or put of the block policy waited for it.
Put(p) ==
    /\ pc[p] \in {"put", "retry"}
    /\ ~Full
    /\ q' = Append(q, frame[p])
    /\ Return(p)
    /\ UNCHANGED <<settings, dropped, nextSeq, evicted, refused, workerVars, ownerVars,
                   storageVars>>

\* Mutant: a frame that found no room is not counted.
DropUncounted(p) ==
    /\ \/ pc[p] = "put" /\ policy = "drop_newest"
       \/ pc[p] = "retry"
    /\ Full
    /\ refused' = refused \cup {frame[p].seq}
    /\ Return(p)
    /\ UNCHANGED <<settings, q, dropped, nextSeq, evicted, workerVars, ownerVars, storageVars>>

\* queue.Full, and the policy is not drop_oldest or gave its frame no room.
Drop(p) ==
    /\ \/ pc[p] = "put" /\ policy = "drop_newest"
       \/ pc[p] = "retry"
    /\ Full
    /\ dropped' = dropped + 1
    /\ refused' = refused \cup {frame[p].seq}
    /\ Return(p)
    /\ UNCHANGED <<settings, q, nextSeq, evicted, workerVars, ownerVars, storageVars>>

\* queue.Full under drop_oldest.
FindFull(p) ==
    /\ pc[p] = "put" /\ policy = "drop_oldest"
    /\ Full
    /\ pc' = [pc EXCEPT ![p] = "evict"]
    /\ UNCHANGED <<settings, q, frame, dropped, nextSeq, evicted, refused, workerVars, ownerVars,
                   storageVars>>

\* get_nowait; the worker may have emptied the queue meanwhile.
Evict(p) ==
    /\ pc[p] = "evict"
    /\ IF q = <<>> THEN UNCHANGED <<q, evicted>>
       ELSE q' = Tail(q) /\ evicted' = evicted \cup {Head(q).seq}
    /\ pc' = [pc EXCEPT ![p] = "retry"]
    /\ UNCHANGED <<settings, frame, dropped, nextSeq, refused, workerVars, ownerVars, storageVars>>

OnFrame(p) == Put(p) \/ Drop(p) \/ FindFull(p) \/ Evict(p)

-----------------------------------------------------------------------------
(* The worker thread: run.                                                 *)

Alive == stage \notin {"new", "done", "dead"}

\* Mutant: the stop event is not looked at.
CheckStopNever ==
    /\ stage = "check"
    /\ stage' = "clock"
    /\ UNCHANGED <<settings, q, after, batch, batchPoints, batchAge, writing, lastSeq, framesIn,
                   rowsOut, pointsOut, seqGaps, taken, producerVars, ownerVars, storageVars>>

\* The first half of the loop's condition.
CheckStop ==
    /\ stage = "check"
    /\ stage' = IF stopEvent THEN "check queue" ELSE "clock"
    /\ UNCHANGED <<settings, q, after, batch, batchPoints, batchAge, writing, lastSeq, framesIn,
                   rowsOut, pointsOut, seqGaps, taken, producerVars, ownerVars, storageVars>>

\* Mutant: stops without a look at the queue.
CheckQueueIgnored ==
    /\ stage = "check queue"
    /\ stage' = "final"
    /\ UNCHANGED <<settings, q, after, batch, batchPoints, batchAge, writing, lastSeq, framesIn,
                   rowsOut, pointsOut, seqGaps, taken, producerVars, ownerVars, storageVars>>

\* The second half, reached when the stop event was set.
CheckQueue ==
    /\ stage = "check queue"
    /\ stage' = IF q = <<>> THEN "final" ELSE "clock"
    /\ UNCHANGED <<settings, q, after, batch, batchPoints, batchAge, writing, lastSeq, framesIn,
                   rowsOut, pointsOut, seqGaps, taken, producerVars, ownerVars, storageVars>>

\* Mutant: the points of the batch are not reset.
FlushKeepsPoints(rows, points, next) ==
    IF rows = <<>>
    THEN /\ stage' = next
         /\ batch' = <<>> /\ batchPoints' = 0 /\ batchAge' = "none"
         /\ UNCHANGED <<writing, after, rowsOut, pointsOut>>
    ELSE /\ stage' = "storing" /\ after' = next
         /\ writing' = rows
         /\ batch' = <<>> /\ batchPoints' = points /\ batchAge' = "none"
         /\ rowsOut' = rowsOut + Len(rows)
         /\ pointsOut' = pointsOut + points

\* Mutant: the batch is not cleared.
FlushKeepsBatch(rows, points, next) ==
    IF rows = <<>>
    THEN /\ stage' = next
         /\ batch' = <<>> /\ batchPoints' = 0 /\ batchAge' = "none"
         /\ UNCHANGED <<writing, after, rowsOut, pointsOut>>
    ELSE /\ stage' = "storing" /\ after' = next
         /\ writing' = rows
         /\ batchAge' = "none"
         /\ rowsOut' = rowsOut + Len(rows)
         /\ pointsOut' = pointsOut + points
         /\ UNCHANGED <<batch, batchPoints>>

\* _flush, of these rows; run() goes on at next.  The batch is cleared and
\* counted before append_rows is called.
FlushRows(rows, points, next) ==
    IF rows = <<>>
    THEN /\ stage' = next
         /\ batch' = <<>> /\ batchPoints' = 0 /\ batchAge' = "none"
         /\ UNCHANGED <<writing, after, rowsOut, pointsOut>>
    ELSE /\ stage' = "storing" /\ after' = next
         /\ writing' = rows
         /\ batch' = <<>> /\ batchPoints' = 0 /\ batchAge' = "none"
         /\ rowsOut' = rowsOut + Len(rows)
         /\ pointsOut' = pointsOut + points

\* Mutant: the age of a batch is never looked at once its clock runs.
FlushByTimeNever ==
    /\ stage = "clock"
    /\ stage' = "get"
    /\ batchAge' = IF batch # <<>> /\ batchAge = "none" THEN "young" ELSE batchAge
    /\ UNCHANGED <<settings, q, after, batch, batchPoints, writing, lastSeq, framesIn, rowsOut,
                   pointsOut, seqGaps, taken, producerVars, ownerVars, storageVars>>

\* _maybe_flush_by_time.  Without a limit the clock of the batch runs too, but
\* no age flushes it.
FlushByTime ==
    /\ stage = "clock"
    /\ IF batch # <<>> /\ batchAge = "due" /\ batchMaxMs > 0
       THEN FlushRows(batch, batchPoints, "get")
       ELSE /\ stage' = "get"
            /\ batchAge' = IF batch # <<>> /\ batchAge = "none" THEN "young" ELSE batchAge
            /\ UNCHANGED <<after, batch, batchPoints, writing, rowsOut, pointsOut>>
    /\ UNCHANGED <<settings, q, lastSeq, framesIn, seqGaps, taken, producerVars, ownerVars,
                   storageVars>>

\* The limit passes; what is due without one has no effect (FlushByTime).
Age ==
    /\ batchAge = "young"
    /\ batchAge' = "due"
    /\ UNCHANGED <<settings, q, stage, after, batch, batchPoints, writing, lastSeq, framesIn,
                   rowsOut, pointsOut, seqGaps, taken, producerVars, ownerVars, storageVars>>

\* Mutant: the worker ends when a get times out.
GetNothingEnds ==
    /\ stage = "get"
    /\ q = <<>>
    /\ stage' = "final"
    /\ UNCHANGED <<settings, q, after, batch, batchPoints, batchAge, writing, lastSeq, framesIn,
                   rowsOut, pointsOut, seqGaps, taken, producerVars, ownerVars, storageVars>>

\* The get times out.
GetNothing ==
    /\ stage = "get"
    /\ q = <<>>
    /\ stage' = "check"
    /\ UNCHANGED <<settings, q, after, batch, batchPoints, batchAge, writing, lastSeq, framesIn,
                   rowsOut, pointsOut, seqGaps, taken, producerVars, ownerVars, storageVars>>

\* Mutant: only a seq that goes back is a gap.
SeqGapBackwards(seq) == lastSeq # 0 /\ seq <= lastSeq

\* _check_seq_gap.
SeqGap(seq) == lastSeq # 0 /\ seq # lastSeq + 1

BatchFull(rows, points) ==
    \/ BatchMaxRows > 0 /\ Len(rows) >= BatchMaxRows
    \/ BatchMaxPoints > 0 /\ points >= BatchMaxPoints

\* A frame is taken, becomes a row of the batch if it has points, and the batch
\* is flushed if it is large enough: _frame_to_row, _maybe_flush_by_size.
GetFrame ==
    /\ stage = "get"
    /\ q # <<>>
    /\ q' = Tail(q)
    /\ framesIn' = framesIn + 1
    /\ taken' = Append(taken, Head(q))
    /\ seqGaps' = seqGaps + (IF SeqGap(Head(q).seq) THEN 1 ELSE 0)
    /\ lastSeq' = Head(q).seq
    /\ LET rows == IF Head(q).points = 0 THEN batch ELSE Append(batch, Head(q))
           points == batchPoints + Head(q).points
       IN  IF Head(q).points > 0 /\ BatchFull(rows, points)
           THEN FlushRows(rows, points, "check")
           ELSE /\ stage' = "check"
                /\ batch' = rows /\ batchPoints' = points
                /\ UNCHANGED <<after, batchAge, writing, rowsOut, pointsOut>>
    /\ UNCHANGED <<settings, producerVars, ownerVars, storageVars>>

\* After the loop.
FinalFlush ==
    /\ stage = "final"
    /\ FlushRows(batch, batchPoints, "done")
    /\ UNCHANGED <<settings, q, lastSeq, framesIn, seqGaps, taken, producerVars, ownerVars,
                   storageVars>>

\* append_rows returns.
Stored ==
    /\ stage = "storing"
    /\ ~closed
    /\ stored' = stored \o writing
    /\ writing' = <<>>
    /\ stage' = after /\ after' = "check"
    /\ UNCHANGED <<settings, q, batch, batchPoints, batchAge, lastSeq, framesIn, rowsOut,
                   pointsOut, seqGaps, taken, producerVars, ownerVars, failed, faults>>

\* append_rows raises and run() has no handler.  A closed storage refuses the
\* rows; an open one may have taken them before its maintenance raised.
StoringRaises ==
    /\ stage = "storing"
    /\ \/ closed /\ UNCHANGED faults
       \/ ~closed /\ faults < MaxFaults /\ faults' = faults + 1
    /\ \/ failed' = failed \o writing /\ UNCHANGED stored
       \/ ~closed /\ stored' = stored \o writing /\ UNCHANGED failed
    /\ writing' = <<>>
    /\ stage' = "dead" /\ after' = "check"
    /\ UNCHANGED <<settings, q, batch, batchPoints, batchAge, lastSeq, framesIn, rowsOut,
                   pointsOut, seqGaps, taken, producerVars, ownerVars>>

Work ==
    \/ CheckStop \/ CheckQueue \/ FlushByTime \/ GetNothing \/ GetFrame \/ FinalFlush
    \/ Stored \/ StoringRaises

-----------------------------------------------------------------------------
(* The owner: start, stop and the close of the storage.                    *)

\* A thread that ended cannot be started again (Thread.start raises), but the
\* stop event is cleared by then; one that is alive goes on.
Start ==
    /\ starts < MaxStarts
    /\ starts' = starts + 1
    /\ stopEvent' = FALSE
    /\ stage' = IF stage = "new" THEN "check" ELSE stage
    /\ UNCHANGED <<settings, q, after, batch, batchPoints, batchAge, writing, lastSeq, framesIn,
                   rowsOut, pointsOut, seqGaps, taken, producerVars, closed, beforeStop,
                   storageVars>>

SeqsOf(rows) == {rows[n].seq : n \in DOMAIN rows}

\* The worker has seen an empty queue and will not look again, also when start()
\* clears the event now.
Leaving == stage \in {"final", "done", "dead"} \/ (stage = "storing" /\ after = "done")

\* stop() sets the event and joins the worker.  The join, which ends with the
\* worker or with its timeout, only means that the owner goes on later.
Stop ==
    /\ stopEvent' = TRUE
    /\ beforeStop' = IF Leaving THEN beforeStop
                     ELSE beforeStop \cup SeqsOf(q) \cup SeqsOf(batch) \cup SeqsOf(writing)
    /\ UNCHANGED <<settings, q, workerVars, producerVars, closed, starts, storageVars>>

\* storage.close(), which fdau_ingest calls after stop.
CloseStorage ==
    /\ stopEvent
    /\ ~closed
    /\ closed' = TRUE
    /\ UNCHANGED <<settings, q, workerVars, producerVars, stopEvent, beforeStop, starts,
                   storageVars>>

-----------------------------------------------------------------------------
Next ==
    \/ \E p \in Producers : Produce(p) \/ OnFrame(p)
    \/ Work \/ Age
    \/ Start \/ Stop \/ CloseStorage

Spec == Init /\ [][Next]_vars

\* The worker and the threads in on_frame run, and time passes.
FairSpec ==
    /\ Spec
    /\ WF_vars(Work) /\ WF_vars(Age)
    /\ \A p \in Producers : WF_vars(OnFrame(p))

-----------------------------------------------------------------------------
(* Properties.                                                             *)

Stages == {"new", "check", "check queue", "clock", "get", "storing", "final", "done", "dead"}

\* The shape of the state.
IngestTypeOK ==
    /\ policy \in Policies /\ batchMaxMs \in BatchMaxMs
    /\ q \in Seq(Frames) /\ batch \in Seq(Frames) /\ writing \in Seq(Frames)
    /\ stored \in Seq(Frames) /\ failed \in Seq(Frames) /\ taken \in Seq(Frames)
    /\ stage \in Stages
    /\ QueueMax > 0 => Len(q) <= QueueMax
    /\ pc \in [Producers -> {"idle", "put", "evict", "retry"}]
    /\ stage \in {"done", "dead"} => batch = <<>> /\ writing = <<>>

InHand == {frame[p].seq : p \in {r \in Producers : pc[r] # "idle"}}

\* Every frame is in one place: in the hand of its producer, in the queue, taken
\* by the worker, thrown out by drop_oldest, or refused; dropped_frames counts
\* the last and no other, however producers and the worker interleave at a full
\* queue (ingest.py 384-423).
FramesAccountedFor ==
    /\ 1..(nextSeq - 1) = InHand \cup SeqsOf(q) \cup SeqsOf(taken) \cup evicted \cup refused
    /\ nextSeq - 1 = Cardinality(InHand) + Len(q) + Len(taken) + Cardinality(evicted)
                        + Cardinality(refused)
    /\ dropped = Cardinality(refused)

\* The rows of the first n frames.
RowsAmong(frames, n) == Cardinality({m \in 1..n : frames[m].points > 0})

\* Each frame with points has its row, and there is no other.
AreRowsOf(rows, frames) ==
    /\ Len(rows) = RowsAmong(frames, Len(frames))
    /\ \A n \in DOMAIN frames :
         frames[n].points > 0 => rows[RowsAmong(frames, n)] = frames[n]

\* The storage gets the rows of every taken frame once and in their order, and
\* the frames of one producer in the order it made them: "newest wins" of the
\* engine depends on it (ingest.py 244-264, 290-310).
RowsReachStorageInOrder ==
    /\ AreRowsOf(stored \o failed \o writing \o batch, taken)
    /\ LET line == taken \o q IN
         \A m, n \in DOMAIN line : m < n /\ line[m].by = line[n].by => line[m].seq < line[n].seq

Points(rows) == UNION {{n} \X (1..rows[n].points) : n \in DOMAIN rows}
SumPoints(rows) == Cardinality(Points(rows))

\* frames_in, rows_out and points_out agree with what was taken and handed to
\* the storage across flushes by rows, points, time and stop (ingest.py 258-259,
\* 299, 308-309).
CountersAddUp ==
    /\ framesIn = Len(taken)
    /\ rowsOut = Len(stored \o failed \o writing)
    /\ pointsOut = SumPoints(stored \o failed \o writing)
    /\ batchPoints = SumPoints(batch)

\* A loss at the full queue between two frames that the worker took shows in
\* seq_gaps, under every policy (ingest.py 266-281).
LossIsReported ==
    \A s \in refused \cup evicted :
        (\E m, n \in DOMAIN taken : taken[m].seq < s /\ s < taken[n].seq) => seqGaps > 0

\* When the worker ended by itself, every frame accepted before a call of stop()
\* that found it in its loop is in the storage, unless the frame had no points or
\* drop_oldest removed it (ingest.py 290-311, 354-382).
StopDrains ==
    stage = "done" =>
        beforeStop \subseteq SeqsOf(stored) \cup evicted
                               \cup {taken[n].seq : n \in {m \in DOMAIN taken : taken[m].points = 0}}

\* A producer that waits for room gets it as long as the worker neither sees a
\* stop nor is killed by the storage (ingest.py 394-396).
WaitingProducerProceeds ==
    \A p \in Producers :
        pc[p] = "put" /\ Alive /\ ~Leaving /\ stage # "check queue"
            ~> pc[p] # "put" \/ stopEvent \/ stage = "dead"

\* With a limit on its age no row waits in the batch for ever, however few follow
\* it.  Without one (batch_max_ms <= 0) only its size or the stop flushes a batch
\* (ingest.py 219-232).
BatchIsFlushed == batchMaxMs > 0 /\ batch # <<>> ~> batch = <<>>

\* After stop() the worker ends, once producers are silent, unless start() takes
\* the stop back (ingest.py 290).
StopEnds == stopEvent /\ Alive ~> ~Alive \/ ~stopEvent
=============================================================================
