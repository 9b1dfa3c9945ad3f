------------------------------ MODULE FdauUnit ------------------------------
(***************************************************************************)
(* FDAUUnit (core/fdau.py): a thread that emits one frame per runtime tick *)
(* and puts in it the parameters whose FLT minor frames fall on the tick   *)
(* of the major frame that the clock shows.                                *)
(*                                                                         *)
(* The clock counts units since the thread read t0; a runtime tick (1/hz   *)
(* s) and a major frame are whole numbers of units, and the arithmetic is  *)
(* exact.  The thread may be late for any of its steps: time.sleep may     *)
(* oversleep and on_frame may take as long as it likes.                    *)
(***************************************************************************)
EXTENDS Integers, Sequences, FiniteSets

CONSTANTS
    Hz,             \* settings.hz
    Period,         \* units of a runtime tick
    MajorLens,      \* units of a major frame: values of flt.major_frame_sec
    FLTs,           \* the FLTs: minor_frames, and the minor frames of each parameter
    StressModes,    \* values of stress_mode
    MaxNow          \* bound: units the clock runs

ASSUME FdauAssumption ==
    /\ {Hz, Period} \cup MajorLens \subseteq Nat \ {0}
    /\ MaxNow \in Nat
    /\ StressModes \subseteq BOOLEAN
    /\ \A flt \in FLTs :
         /\ flt.minorFrames \in Nat \ {0}
         /\ \A p \in DOMAIN flt.layout : flt.layout[p] \subseteq 1..flt.minorFrames

VARIABLES
    flt, majorLen, stress,   \* configuration
    now,          \* perf_counter() - t0
    stopEvent,    \* _stop_event
    stage,        \* where run() is: "new", "check", "clock", "sleep", "frame", "callback", "done"
    nextTick,     \* next_tick_time - t0
    elapsed,      \* the local variable: the clock as last read
    seq,          \* _seq
    frames        \* history: the frames emitted, and when their clock was read

vars == <<flt, majorLen, stress, now, stopEvent, stage, nextTick, elapsed, seq, frames>>
config == <<flt, majorLen, stress>>

Parameters == DOMAIN flt.layout

-----------------------------------------------------------------------------
(* _build_param_tick_map.                                                  *)

Lesser(a, b) == IF a < b THEN a ELSE b

\* The tick in which the middle of a minor frame falls.
TickOf(minorFrame) ==
    Lesser(((2 * minorFrame - 1) * Hz) \div (2 * flt.minorFrames), Hz - 1)

\* A layout with a minor frame the FLT does not have makes no unit: ValueError.
ParamTicks(p) == {TickOf(m) : m \in flt.layout[p]}

-----------------------------------------------------------------------------
(* run.                                                                    *)

Init ==
    /\ flt \in FLTs /\ majorLen \in MajorLens /\ stress \in StressModes
    /\ now = 0 /\ stopEvent = FALSE
    /\ stage = "new"
    /\ nextTick = 0 /\ elapsed = 0
    /\ seq = 0 /\ frames = <<>>

\* Thread.start, and t0 is read.
Start ==
    /\ stage = "new"
    /\ stage' = "check"
    /\ now' = 0
    /\ UNCHANGED <<config, stopEvent, nextTick, elapsed, seq, frames>>

\* while not self._stop_event.is_set()
CheckStop ==
    /\ stage = "check"
    /\ stage' = IF stopEvent THEN "done" ELSE "clock"
    /\ UNCHANGED <<config, now, stopEvent, nextTick, elapsed, seq, frames>>

\* The clock is read at the top of the loop.
ReadClock ==
    /\ stage = "clock"
    /\ elapsed' = now
    /\ stage' = IF nextTick > now THEN "sleep" ELSE "frame"
    /\ UNCHANGED <<config, now, stopEvent, nextTick, seq, frames>>

\* time.sleep returns, not before its time, and the clock is read again.
Wake ==
    /\ stage = "sleep"
    /\ now >= nextTick
    /\ elapsed' = now
    /\ stage' = "frame"
    /\ UNCHANGED <<config, now, stopEvent, nextTick, seq, frames>>

MajorFrameAt(t) == t \div majorLen

\* Mutant: the ticks go on over the end of the major frame.
TickAtElapsed(t) == (t * Hz) \div majorLen

\* Mutant: rounds to the nearest tick instead of down.
TickAtRounded(t) == Lesser((2 * (t % majorLen) * Hz + majorLen) \div (2 * majorLen), Hz - 1)

\* The tick of the major frame: hz of them, however long it is.
TickAt(t) == Lesser(((t % majorLen) * Hz) \div majorLen, Hz - 1)

\* The frame of the clock as it was read, and its seq under the lock.
MakeFrame ==
    /\ stage = "frame"
    /\ frames' = Append(frames,
           [seq |-> seq, at |-> elapsed, major |-> MajorFrameAt(elapsed), tick |-> TickAt(elapsed),
            values |-> {p \in Parameters : stress \/ TickAt(elapsed) \in ParamTicks(p)}])
    /\ seq' = seq + 1
    /\ stage' = "callback"
    /\ UNCHANGED <<config, now, stopEvent, nextTick, elapsed>>

\* Mutant: the next tick is a period after this one was.
ReturnDrifts ==
    /\ stage = "callback"
    /\ nextTick' = elapsed + Period
    /\ stage' = "check"
    /\ UNCHANGED <<config, now, stopEvent, elapsed, seq, frames>>

\* on_frame returns.
Return ==
    /\ stage = "callback"
    /\ nextTick' = nextTick + Period
    /\ stage' = "check"
    /\ UNCHANGED <<config, now, stopEvent, elapsed, seq, frames>>

\* stop(), from another thread or from on_frame.
Stop ==
    /\ stopEvent' = TRUE
    /\ UNCHANGED <<config, now, stage, nextTick, elapsed, seq, frames>>

\* Time passes.
Advance ==
    /\ now < MaxNow
    /\ now' = now + 1
    /\ UNCHANGED <<config, stopEvent, stage, nextTick, elapsed, seq, frames>>

Run == CheckStop \/ ReadClock \/ Wake \/ MakeFrame \/ Return

Next == Start \/ Run \/ Stop \/ Advance

Spec == Init /\ [][Next]_vars

-----------------------------------------------------------------------------
(* Properties.                                                             *)

\* The shape of the state; clock and schedule are natural numbers.
FdauTypeOK ==
    /\ flt \in FLTs /\ majorLen \in MajorLens /\ stress \in StressModes
    /\ now \in 0..MaxNow /\ elapsed \in 0..now
    /\ stopEvent \in BOOLEAN
    /\ stage \in {"new", "check", "clock", "sleep", "frame", "callback", "done"}
    /\ nextTick \in Nat /\ seq = Len(frames)
    /\ \A n \in DOMAIN frames :
         /\ frames[n].at \in 0..elapsed
         /\ frames[n].tick \in 0..(Hz - 1)
         /\ frames[n].values \subseteq Parameters

\* No frame is early, the frames never go back in the major frame, and a thread
\* that sleeps has made up for every tick it was late for: next_tick_time does
\* not drift, however late sleep and on_frame return (fdau.py 146-195).
KeepsSchedule ==
    /\ \A n \in DOMAIN frames : frames[n].at >= (n - 1) * Period
    /\ \A m, n \in DOMAIN frames : m < n =>
         \/ frames[m].major < frames[n].major
         \/ frames[m].major = frames[n].major /\ frames[m].tick <= frames[n].tick
    /\ stage = "sleep" => elapsed < Len(frames) * Period

\* Frame n, counted from 1, was made before frame n + 1 was due.
OnTime(n) == frames[n].at < n * Period

\* The frames due in a major frame, and the last one before it, were on time.
Undisturbed(major) ==
    LET slots == majorLen \div Period IN
      /\ Len(frames) >= (major + 1) * slots
      /\ \A n \in (major * slots)..((major + 1) * slots) : n > 0 => OnTime(n)

Carrying(p, major) == {n \in DOMAIN frames : frames[n].major = major /\ p \in frames[n].values}

\* The ticks that have a parameter.
DueTicks(p) == IF stress THEN 0..(Hz - 1) ELSE ParamTicks(p)

\* When a major frame lasts a whole number of seconds, every major frame that no
\* frame was late for has each parameter, at the tick of each of its minor frames,
\* as many times as it has seconds, and at no other tick: the clock leaves no tick
\* out and shows none too long.  Minor frames that fall on one tick share it, and
\* with hz at least minor_frames none do (fdau.py 93-118, 153-170).
EachMinorFrameOnce ==
    /\ majorLen % (Hz * Period) = 0 =>
         \A major \in 0..MajorFrameAt(MaxNow) : Undisturbed(major) =>
             \A p \in Parameters :
                 LET seconds == majorLen \div (Hz * Period)
                 IN  /\ \A m \in flt.layout[p] :
                          Cardinality({n \in Carrying(p, major) : frames[n].tick = TickOf(m)}) = seconds
                     /\ Cardinality(Carrying(p, major)) = seconds * Cardinality(DueTicks(p))
    /\ Hz >= flt.minorFrames =>
         \A p \in Parameters : Cardinality(ParamTicks(p)) = Cardinality(flt.layout[p])
=============================================================================
