------------------------------ MODULE Pipeline ------------------------------
(***************************************************************************)
(* The two programs that put FDAU frames into the engine:                  *)
(*                                                                         *)
(*   "ingest"   fdau_ingest (main.py): an FDAUUnit thread calls on_frame   *)
(*              until the main thread stops it, then the service, then     *)
(*              closes the engine.  Both joins have a timeout.             *)
(*   "capture"  run_capture_benchmark_harness (benchmark.py): the main     *)
(*              thread calls on_frame itself, stops the service, flushes   *)
(*              the engine and reports how many points were lost.          *)
(*                                                                         *)
(* The queue and the worker are IngestService; the unit is the loop of     *)
(* FdauUnit without its clock.  The engine is the sequence of rows it took *)
(* and how many of them are durable: PrefixStore, which StorageCore is     *)
(* shown to implement.                                                     *)
(***************************************************************************)
EXTENDS IngestService

CONSTANTS
    Source,     \* who calls on_frame
    Programs    \* the programs, one of which runs

ASSUME PipelineAssumption ==
    /\ Producers = {Source}
    /\ Programs \subseteq {"ingest", "capture"}

VARIABLES
    program,
    frameSize,    \* points of every frame of the benchmark
    main,         \* where the main thread is
    unit,         \* where FDAUUnit.run is: "new", "check", "sleep" or "done"
    unitStop,     \* its _stop_event
    durable,      \* how many of the stored rows survive a crash
    report,       \* ingest.stats() as the program reports it: points_out and dropped_frames
    timedOut      \* history: the threads a join gave up on

programVars == <<program, frameSize, main, unit, unitStop, durable, report, timedOut>>
pipelineVars == <<vars, programVars>>

NoReport == [points |-> 0, dropped |-> 0]

\* _generate_ingest_frames: each frame has the same number of points, at least one.
CaptureSizes == FrameSizes[Source] \ {0}

PipelineInit ==
    /\ Init
    /\ program \in Programs
    /\ frameSize \in IF program = "capture" THEN CaptureSizes ELSE {0}
    \* _make_ingest_benchmark_settings
    /\ program = "capture" => policy = "drop_newest"
    /\ main = "start ingest"
    /\ unit = "new" /\ unitStop = FALSE
    /\ durable = 0 /\ report = NoReport /\ timedOut = {}

-----------------------------------------------------------------------------
(* FDAUUnit.run.                                                           *)

\* while not self._stop_event.is_set(); on_frame has returned.
UnitCheck ==
    /\ unit = "check" /\ pc[Source] = "idle"
    /\ nextSeq <= MaxFrames \/ unitStop
    /\ unit' = IF unitStop THEN "done" ELSE "sleep"
    /\ UNCHANGED <<vars, program, frameSize, main, unitStop, durable, report, timedOut>>

\* The sleep to the next tick ends, a frame is made and on_frame called.
UnitFrame ==
    /\ unit = "sleep"
    /\ Produce(Source)
    /\ unit' = "check"
    /\ UNCHANGED <<program, frameSize, main, unitStop, durable, report, timedOut>>

-----------------------------------------------------------------------------
(* The main thread.                                                        *)

\* ingest.start().
StartIngest ==
    /\ main = "start ingest"
    /\ Start
    /\ main' = IF program = "ingest" THEN "start unit" ELSE "frames"
    /\ UNCHANGED <<program, frameSize, unit, unitStop, durable, report, timedOut>>

\* fdau.start().
StartUnit ==
    /\ main = "start unit"
    /\ unit' = "check"
    /\ main' = "run"
    /\ UNCHANGED <<vars, program, frameSize, unitStop, durable, report, timedOut>>

\* Mutant: the unit is not joined before the service is stopped.
StopUnitUnjoined ==
    /\ main = "run"
    /\ unitStop' = TRUE
    /\ main' = "stop ingest"
    /\ UNCHANGED <<vars, program, frameSize, unit, durable, report, timedOut>>

\* time.sleep(duration_sec) ends, or is interrupted: fdau.stop().
StopUnit ==
    /\ main = "run"
    /\ unitStop' = TRUE
    /\ main' = "join unit"
    /\ UNCHANGED <<vars, program, frameSize, unit, durable, report, timedOut>>

\* Mutant: the join has no timeout.
JoinUnitForever ==
    /\ main = "join unit"
    /\ unit = "done"
    /\ main' = "stop ingest"
    /\ UNCHANGED <<vars, program, frameSize, unit, unitStop, durable, report, timedOut>>

\* fdau.join(timeout).
JoinUnit ==
    /\ main = "join unit"
    /\ timedOut' = IF unit = "done" THEN timedOut ELSE timedOut \cup {"unit"}
    /\ main' = "stop ingest"
    /\ UNCHANGED <<vars, program, frameSize, unit, unitStop, durable, report>>

\* The loop of the benchmark: on_frame of the next of its frames.
CaptureFrame ==
    /\ main = "frames" /\ pc[Source] = "idle"
    /\ Produce(Source)
    /\ frame'[Source].points = frameSize
    /\ UNCHANGED programVars

\* ... all of which were offered.
CaptureDone ==
    /\ main = "frames" /\ pc[Source] = "idle"
    /\ nextSeq > MaxFrames
    /\ main' = "stop ingest"
    /\ UNCHANGED <<vars, program, frameSize, unit, unitStop, durable, report, timedOut>>

\* ingest.stop: the event is set ...
StopIngest ==
    /\ main = "stop ingest"
    /\ Stop
    /\ main' = "join worker"
    /\ UNCHANGED <<program, frameSize, unit, unitStop, durable, report, timedOut>>

\* ... and the worker joined.
JoinWorker ==
    /\ main = "join worker"
    /\ timedOut' = IF Alive THEN timedOut \cup {"worker"} ELSE timedOut
    /\ main' = IF program = "ingest" THEN "close" ELSE "flush"
    /\ UNCHANGED <<vars, program, frameSize, unit, unitStop, durable, report>>

\* storage.flush() of the benchmark drains all that was appended, or raises.
FlushEngine ==
    /\ main = "flush"
    /\ \/ durable' = Len(stored) /\ main' = "stats" /\ UNCHANGED faults
       \/ /\ faults < MaxFaults /\ faults' = faults + 1
          /\ durable' \in durable..Len(stored)
          /\ main' = "raised"
    /\ UNCHANGED <<settings, q, workerVars, producerVars, ownerVars, stored, failed, program,
                   frameSize, unit, unitStop, report, timedOut>>

Stats == [points |-> pointsOut, dropped |-> dropped]

\* ingest.stats() of the benchmark, before it closes the engine.
ReadStats ==
    /\ main = "stats"
    /\ report' = Stats
    /\ main' = "close"
    /\ UNCHANGED <<vars, program, frameSize, unit, unitStop, durable, timedOut>>

\* storage.close(): refuses further rows, drains, or raises on the way.
CloseEngine ==
    /\ main = "close"
    /\ closed' = TRUE
    /\ \/ /\ durable' = Len(stored)
          /\ main' = IF program = "ingest" THEN "final stats" ELSE "end"
          /\ UNCHANGED faults
       \/ /\ faults < MaxFaults /\ faults' = faults + 1
          /\ durable' \in durable..Len(stored)
          /\ main' = "raised"
    /\ UNCHANGED <<settings, q, workerVars, producerVars, stopEvent, beforeStop, starts, stored,
                   failed, program, frameSize, unit, unitStop, report, timedOut>>

\* The statistics fdau_ingest logs when all is closed.
FinalStats ==
    /\ main = "final stats"
    /\ report' = Stats
    /\ main' = "end"
    /\ UNCHANGED <<vars, program, frameSize, unit, unitStop, durable, timedOut>>

Main ==
    \/ StartIngest \/ StartUnit \/ StopUnit \/ JoinUnit
    \/ CaptureFrame \/ CaptureDone
    \/ StopIngest \/ JoinWorker \/ FlushEngine \/ ReadStats \/ CloseEngine \/ FinalStats

-----------------------------------------------------------------------------
\* The engine makes rows durable as its thresholds tell it, in their order.
EnginePersists ==
    /\ durable < Len(stored)
    /\ durable' = durable + 1
    /\ UNCHANGED <<vars, program, frameSize, main, unit, unitStop, report, timedOut>>

\* The threads are daemons: none takes a step once main has left the program.
Running == main \notin {"end", "raised"}

PipelineNext ==
    /\ Running
    /\ \/ UnitCheck \/ UnitFrame \/ Main \/ EnginePersists
       \/ (OnFrame(Source) \/ Work \/ Age) /\ UNCHANGED programVars

PipelineSpec == PipelineInit /\ [][PipelineNext]_pipelineVars

\* Every thread runs.
FairPipelineSpec ==
    /\ PipelineSpec
    /\ WF_pipelineVars(Running /\ Main)
    /\ WF_pipelineVars(Running /\ (UnitCheck \/ UnitFrame))
    /\ WF_pipelineVars(Running /\ OnFrame(Source) /\ UNCHANGED programVars)
    /\ WF_pipelineVars(Running /\ Work /\ UNCHANGED programVars)

-----------------------------------------------------------------------------
(* Properties.                                                             *)

\* No join gave up on a thread and the worker was not killed by the engine.
CleanEnd == main = "end" /\ timedOut = {} /\ stage = "done"

\* After a clean end every frame with points that was made is durable or was
\* refused or thrown out by a full queue: nothing is left in the queue, in a
\* batch or in the memory of the engine, because the unit is stopped before the
\* service and the service before the engine.  The points reported are those
\* stored, and the frames reported as dropped those refused (main.py 131-141,
\* benchmark.py 270-287).
ShutdownStoresAll ==
    CleanEnd =>
        /\ durable = Len(stored) /\ AreRowsOf(stored, taken)
        /\ 1..(nextSeq - 1) = SeqsOf(taken) \cup evicted \cup refused
        /\ report.points = SumPoints(stored)
        /\ report.dropped = Cardinality(refused)

\* The program ends whatever the policy, also when the worker is dead and the
\* unit waits for room for ever: the joins time out (main.py 137-139).
MainEnds == <>(~Running)
=============================================================================
