------------------------------ MODULE FdauProofs ------------------------------
(***************************************************************************)
(* What TLAPS proves about FdauUnit: its types, that the schedule does not *)
(* drift, and that a major frame of whole seconds that no frame was late   *)
(* for has every minor frame, for every rate, layout and mode.             *)
(***************************************************************************)
EXTENDS FdauUnit, FiniteSetTheorems, FunctionTheorems, SequenceTheorems, TLAPS

-----------------------------------------------------------------------------
(* Products and quotients.                                                 *)

\* Quotient and remainder.
LEMMA DivMod ==
    ASSUME NEW a \in Nat, NEW d \in Nat \ {0}
    PROVE  /\ a \div d \in Nat /\ a % d \in Nat /\ a % d < d
           /\ a = d * (a \div d) + (a % d)
OBVIOUS

\* A product of natural numbers is one.
LEMMA ProductType == \A a, b \in Nat : a * b \in Nat
OBVIOUS

\* Multiplication keeps the order.
LEMMA ProductMonotone ==
    ASSUME NEW a \in Nat, NEW b \in Nat, NEW c \in Nat, a <= b
    PROVE  a * c <= b * c
<1>1. PICK e \in Nat : b = a + e
  <2>1. b - a \in Nat /\ b = a + (b - a)
    OBVIOUS
  <2> QED BY <2>1
<1>2. b * c = a * c + e * c
  BY <1>1
<1>3. e * c \in Nat /\ a * c \in Nat
  BY <1>1, ProductType
<1> QED BY <1>2, <1>3

\* Quotient and remainder are the only ones.
LEMMA DivUnique ==
    ASSUME NEW a \in Nat, NEW d \in Nat \ {0}, NEW x \in Nat, NEW r \in Nat, r < d, a = d * x + r
    PROVE  a \div d = x /\ a % d = r
<1> DEFINE y == a \div d
           s == a % d
<1>1. y \in Nat /\ s \in Nat /\ s < d /\ a = d * y + s
  BY DivMod
<1> HIDE DEF y, s
<1>2. CASE x < y
  <2>1. (x + 1) * d <= y * d
    BY <1>1, <1>2, ProductMonotone
  <2> QED BY <1>1, <2>1
<1>3. CASE y < x
  <2>1. (y + 1) * d <= x * d
    BY <1>1, <1>3, ProductMonotone
  <2> QED BY <1>1, <2>1
<1>4. x = y
  BY <1>1, <1>2, <1>3
<1>5. s = r
  BY <1>1, <1>4
<1> QED BY <1>4, <1>5 DEF y, s

\* Division keeps the order.
LEMMA DivMonotone ==
    ASSUME NEW a \in Nat, NEW b \in Nat, NEW d \in Nat \ {0}, a <= b
    PROVE  a \div d <= b \div d
<1> DEFINE x == a \div d
           y == b \div d
           r == a % d
           s == b % d
<1>1. x \in Nat /\ r \in Nat /\ r < d /\ a = d * x + r
  BY DivMod
<1>2. y \in Nat /\ s \in Nat /\ s < d /\ b = d * y + s
  BY DivMod
<1> HIDE DEF x, y, r, s
<1>3. CASE y < x
  <2>1. (y + 1) * d <= x * d
    BY <1>1, <1>2, <1>3, ProductMonotone
  <2> QED BY <1>1, <1>2, <2>1
<1>4. x <= y
  BY <1>1, <1>2, <1>3
<1> QED BY <1>4 DEF x, y

-----------------------------------------------------------------------------
(* A major frame of a whole number of seconds: hz ticks, each of them k     *)
(* periods long.                                                           *)

\* The tick of the major frame that period j of it falls in.
LEMMA PeriodTick ==
    ASSUME NEW h \in Nat \ {0}, NEW k \in Nat \ {0}, NEW j \in Nat, j < h * k
    PROVE  j \div k \in 0..(h - 1)
<1> DEFINE t == j \div k
           i == j % k
<1>1. t \in Nat /\ i \in Nat /\ i < k /\ j = k * t + i
  BY DivMod
<1> HIDE DEF t, i
<1>2. ASSUME h <= t PROVE FALSE
  <2>1. h * k <= t * k
    BY <1>1, <1>2, ProductMonotone
  <2>2. t * k = k * t /\ t * k \in Nat /\ h * k \in Nat
    BY <1>1, ProductType
  <2> QED BY <1>1, <2>1, <2>2
<1>3. t < h
  BY <1>1, <1>2
<1> QED BY <1>1, <1>3 DEF t

\* A clock that was read on time in period j of major frame M shows that frame
\* and the tick of that period.
LEMMA PeriodClock ==
    ASSUME NEW h \in Nat \ {0}, NEW d \in Nat \ {0}, NEW k \in Nat \ {0},
           NEW M \in Nat, NEW j \in Nat, j < h * k, NEW a \in Nat,
           (M * (h * k) + j) * d <= a, a < (M * (h * k) + j + 1) * d,
           NEW l, l = (h * d) * k
    PROVE  l \in Nat \ {0} /\ a \div l = M /\ ((a % l) * h) \div l = j \div k
<1> DEFINE t == j \div k
           i == j % k
<1>1. t \in Nat /\ i \in Nat /\ i < k /\ j = k * t + i
  BY DivMod
<1> HIDE DEF t, i
<1>2. l \in Nat \ {0}
  <2>1. \A x, y \in Nat \ {0} : x * y \in Nat \ {0}
    OBVIOUS
  <2> QED BY <2>1
<1>3. PICK o \in Int : a = l * M + o
  <2>1. l * M \in Nat
    BY <1>2, ProductType
  <2>2. a - l * M \in Int /\ a = l * M + (a - l * M)
    BY <2>1
  <2> QED BY <2>2
<1>4. j * d <= o /\ o < (j + 1) * d
  <2>1. l * M = M * (h * k) * d
    OBVIOUS
  <2>2. (M * (h * k) + j) * d = M * (h * k) * d + j * d
    OBVIOUS
  <2>3. (M * (h * k) + j + 1) * d = M * (h * k) * d + (j + 1) * d
    OBVIOUS
  <2>4. M * (h * k) * d \in Nat /\ j * d \in Nat /\ (j + 1) * d \in Nat
    BY ProductType
  <2> HIDE DEF t
  <2> QED BY <1>3, <2>1, <2>2, <2>3, <2>4
<1>5. o \in Nat /\ o < l
  <2>1. (j + 1) * d <= (h * k) * d
    BY ProductMonotone, ProductType
  <2>2. (h * k) * d = l
    OBVIOUS
  <2>3. j * d \in Nat /\ (j + 1) * d \in Nat
    BY ProductType
  <2> QED BY <1>2, <1>4, <2>1, <2>2, <2>3
<1>6. a \div l = M /\ a % l = o
  BY <1>2, <1>3, <1>5, DivUnique
<1>7. l * t <= o * h /\ o * h < l * t + l
  <2>1. (k * t) * d <= o
    <3>1. k * t \in Nat /\ k * t <= j
      BY <1>1, ProductType
    <3>2. (k * t) * d <= j * d
      BY <3>1, ProductMonotone
    <3>3. (k * t) * d \in Nat /\ j * d \in Nat
      BY <3>1, ProductType
    <3> QED BY <1>4, <1>5, <3>2, <3>3
  <2>2. o < (k * t + k) * d
    <3>1. k * t \in Nat /\ j + 1 <= k * t + k
      BY <1>1, ProductType
    <3>2. (j + 1) * d <= (k * t + k) * d
      BY <3>1, ProductMonotone
    <3>3. (k * t + k) * d \in Nat /\ (j + 1) * d \in Nat
      BY <3>1, ProductType
    <3> QED BY <1>4, <1>5, <3>2, <3>3
  <2>3. ((k * t) * d) * h <= o * h
    BY <1>1, <1>5, <2>1, ProductMonotone, ProductType
  <2>4. (o + 1) * h <= ((k * t + k) * d) * h
    <3>1. (k * t + k) * d \in Nat /\ o + 1 \in Nat
      BY <1>1, <1>5, ProductType
    <3>2. o + 1 <= (k * t + k) * d
      BY <1>5, <2>2, <3>1
    <3> QED BY <3>1, <3>2, ProductMonotone
  <2>5. ((k * t) * d) * h = l * t
    BY <1>1
  <2>6. ((k * t + k) * d) * h = l * t + l
    BY <1>1
  <2>7. (o + 1) * h = o * h + h
    BY <1>5
  <2>8. o * h \in Nat /\ l * t \in Nat
    BY <1>1, <1>2, <1>5, ProductType
  <2> QED BY <1>2, <2>3, <2>4, <2>5, <2>6, <2>7, <2>8
<1>8. (o * h) \div l = t
  <2>1. o * h \in Nat /\ l * t \in Nat
    BY <1>1, <1>2, <1>5, ProductType
  <2>2. PICK r \in Nat : o * h = l * t + r
    <3>1. o * h - l * t \in Nat /\ o * h = l * t + (o * h - l * t)
      BY <1>7, <2>1
    <3> QED BY <3>1
  <2>3. r < l
    BY <1>2, <1>7, <2>1, <2>2
  <2> QED BY <1>1, <1>2, <2>1, <2>2, <2>3, DivUnique
<1> QED BY <1>2, <1>6, <1>8 DEF t

-----------------------------------------------------------------------------
(* The clock of the major frame.                                           *)

\* The constants are what the arithmetic needs.
LEMMA Rates ==
    /\ Hz \in Nat \ {0} /\ Period \in Nat \ {0} /\ MaxNow \in Nat
    /\ \A l \in MajorLens : l \in Nat \ {0}
BY FdauAssumption

\* The clock shows a tick of the major frame.
LEMMA TickRange ==
    ASSUME majorLen \in Nat \ {0}, NEW t \in Nat
    PROVE  TickAt(t) \in 0..(Hz - 1) /\ MajorFrameAt(t) \in Nat
<1>1. t % majorLen \in Nat /\ t \div majorLen \in Nat
  BY DivMod
<1>2. (t % majorLen) * Hz \in Nat
  BY <1>1, Rates, ProductType
<1>3. ((t % majorLen) * Hz) \div majorLen \in Nat
  BY <1>2, DivMod
<1> QED BY <1>1, <1>3, Rates DEF TickAt, MajorFrameAt, Lesser

\* The clock does not go back.
LEMMA ClockOrder ==
    ASSUME majorLen \in Nat \ {0}, NEW a \in Nat, NEW b \in Nat, a <= b
    PROVE  \/ MajorFrameAt(a) < MajorFrameAt(b)
           \/ MajorFrameAt(a) = MajorFrameAt(b) /\ TickAt(a) <= TickAt(b)
<1> DEFINE x == a \div majorLen
           y == b \div majorLen
           r == a % majorLen
           s == b % majorLen
<1>1. x \in Nat /\ r \in Nat /\ r < majorLen /\ a = majorLen * x + r
  BY DivMod
<1>2. y \in Nat /\ s \in Nat /\ s < majorLen /\ b = majorLen * y + s
  BY DivMod
<1>3. x <= y
  BY DivMonotone
<1>4. CASE x = y
  <2>1. r <= s
    <3> HIDE DEF x, y, r, s
    <3> QED BY <1>1, <1>2, <1>4
  <2>2. r * Hz \in Nat /\ s * Hz \in Nat /\ r * Hz <= s * Hz
    <3> HIDE DEF x, y, r, s
    <3> QED BY <1>1, <1>2, <2>1, Rates, ProductMonotone, ProductType
  <2>3. (r * Hz) \div majorLen <= (s * Hz) \div majorLen
    <3> HIDE DEF x, y, r, s
    <3> QED BY <2>2, DivMonotone
  <2>4. (r * Hz) \div majorLen \in Nat /\ (s * Hz) \div majorLen \in Nat
    <3> HIDE DEF x, y, r, s
    <3> QED BY <2>2, DivMod
  <2>5. TickAt(a) <= TickAt(b)
    <3> DEFINE u == (r * Hz) \div majorLen
               v == (s * Hz) \div majorLen
    <3>1. TickAt(a) = Lesser(u, Hz - 1) /\ TickAt(b) = Lesser(v, Hz - 1)
      BY DEF TickAt
    <3>2. u \in Nat /\ v \in Nat /\ u <= v
      BY <2>3, <2>4
    <3> HIDE DEF u, v
    <3> QED BY <3>1, <3>2, Rates DEF Lesser
  <2> QED BY <1>4, <2>5 DEF MajorFrameAt
<1>5. CASE x # y
  <2>1. x < y
    <3> HIDE DEF x, y, r, s
    <3> QED BY <1>1, <1>2, <1>3, <1>5
  <2> QED BY <2>1 DEF MajorFrameAt
<1> QED BY <1>4, <1>5

-----------------------------------------------------------------------------
(* The tick map.                                                           *)

\* With a tick for every minor frame no two minor frames share one.
LEMMA TicksDiffer ==
    ASSUME NEW h \in Nat \ {0}, NEW f \in Nat \ {0}, f <= h,
           NEW x \in 1..f, NEW y \in 1..f, x < y
    PROVE  /\ ((2 * x - 1) * h) \div (2 * f) \in 0..(h - 1)
           /\ ((2 * y - 1) * h) \div (2 * f) \in 0..(h - 1)
           /\ ((2 * x - 1) * h) \div (2 * f) # ((2 * y - 1) * h) \div (2 * f)
<1>1. \A z \in 1..f : (2 * z - 1) * h \in Nat /\ ((2 * z - 1) * h) \div (2 * f) \in 0..(h - 1)
  <2> TAKE z \in 1..f
  <2> DEFINE n == (2 * z - 1) * h
             u == n \div (2 * f)
             r == n % (2 * f)
  <2>1. 2 * z - 1 \in Nat /\ 2 * f \in Nat \ {0} /\ 2 * z - 1 < 2 * f
    OBVIOUS
  <2>2. n \in Nat /\ (2 * z - 1 + 1) * h <= (2 * f) * h /\ n + h = (2 * z - 1 + 1) * h
    <3>1. n \in Nat
      BY <2>1, ProductType
    <3>2. 2 * z - 1 + 1 \in Nat /\ 2 * z - 1 + 1 <= 2 * f
      BY <2>1
    <3>3. (2 * z - 1 + 1) * h <= (2 * f) * h
      BY <2>1, <3>2, ProductMonotone
    <3> QED BY <3>1, <3>3
  <2>3. u \in Nat /\ r \in Nat /\ r < 2 * f /\ n = (2 * f) * u + r
    BY <2>1, <2>2, DivMod
  <2> HIDE DEF n, u, r
  <2>4. ASSUME h <= u PROVE FALSE
    <3>1. h * (2 * f) <= u * (2 * f)
      BY <2>1, <2>3, <2>4, ProductMonotone
    <3>2. h * (2 * f) = (2 * f) * h /\ u * (2 * f) = (2 * f) * u
      BY <2>3
    <3>3. (2 * f) * h \in Nat /\ (2 * f) * u \in Nat
      BY <2>1, <2>3, ProductType
    <3> QED BY <2>2, <2>3, <3>1, <3>2, <3>3
  <2>5. u < h
    BY <2>3, <2>4
  <2> QED BY <2>2, <2>3, <2>5 DEF n, u
<1>2. (2 * x - 1) * h + 2 * f <= (2 * y - 1) * h
  <2>1. 2 * x - 1 + 2 \in Nat /\ 2 * y - 1 \in Nat /\ 2 * x - 1 + 2 <= 2 * y - 1
    OBVIOUS
  <2>2. (2 * x - 1 + 2) * h <= (2 * y - 1) * h
    BY <2>1, ProductMonotone
  <2>3. (2 * x - 1 + 2) * h = (2 * x - 1) * h + 2 * h
    OBVIOUS
  <2> QED BY <1>1, <2>2, <2>3
<1> DEFINE n == (2 * x - 1) * h
           m == (2 * y - 1) * h
           u == n \div (2 * f)
           v == m \div (2 * f)
           r == n % (2 * f)
           s == m % (2 * f)
<1>3. n \in Nat /\ m \in Nat /\ n + 2 * f <= m
  BY <1>1, <1>2
<1>4. /\ r \in Nat /\ r < 2 * f /\ n = (2 * f) * u + r /\ u \in Nat
      /\ s \in Nat /\ s < 2 * f /\ m = (2 * f) * v + s /\ v \in Nat
  <2>1. 2 * f \in Nat \ {0}
    OBVIOUS
  <2> HIDE DEF n, m
  <2> QED BY <1>3, <2>1, DivMod
<1>5. u # v
  <2> HIDE DEF n, m, u, v, r, s
  <2>1. SUFFICES ASSUME u = v PROVE FALSE
    OBVIOUS
  <2>2. (2 * f) * u \in Nat
    BY <1>4, ProductType
  <2> QED BY <1>3, <1>4, <2>1, <2>2
<1> QED BY <1>1, <1>5 DEF u, v, n, m

\* The minor frames of an FLT have ticks of the major frame.
LEMMA TickOfType ==
    ASSUME flt.minorFrames \in Nat \ {0}
    PROVE  \A x \in 1..flt.minorFrames : TickOf(x) \in 0..(Hz - 1)
<1>1. PICK f : f = flt.minorFrames
  OBVIOUS
<1>2. f \in Nat \ {0} /\ Hz \in Nat \ {0}
  BY <1>1, Rates
<1>3. \A x \in 1..f : TickOf(x) \in 0..(Hz - 1)
  <2> TAKE x \in 1..f
  <2> DEFINE u == ((2 * x - 1) * Hz) \div (2 * f)
  <2>1. 2 * x - 1 \in Nat /\ 2 * f \in Nat \ {0}
    BY <1>2
  <2>2. u \in Nat
    BY <1>2, <2>1, DivMod, ProductType
  <2>3. TickOf(x) = Lesser(u, Hz - 1)
    BY <1>1 DEF TickOf
  <2> HIDE DEF u
  <2> QED BY <1>2, <2>2, <2>3 DEF Lesser
<1> QED BY <1>1, <1>3

\* Each its own, if there are enough.
LEMMA TickOfInjective ==
    ASSUME flt.minorFrames \in Nat \ {0}, Hz >= flt.minorFrames
    PROVE  \A x, y \in 1..flt.minorFrames : TickOf(x) = TickOf(y) => x = y
<1>1. PICK f : f = flt.minorFrames
  OBVIOUS
<1>2. f \in Nat \ {0} /\ f <= Hz /\ Hz \in Nat \ {0}
  BY <1>1, Rates
<1>3. \A x, y \in 1..f : x < y => /\ TickOf(x) \in 0..(Hz - 1) /\ TickOf(y) \in 0..(Hz - 1)
                                  /\ TickOf(x) # TickOf(y)
  <2> TAKE x, y \in 1..f
  <2> HAVE x < y
  <2> DEFINE u == ((2 * x - 1) * Hz) \div (2 * f)
             v == ((2 * y - 1) * Hz) \div (2 * f)
  <2>1. u \in 0..(Hz - 1) /\ v \in 0..(Hz - 1) /\ u # v
    BY <1>2, TicksDiffer
  <2>2. TickOf(x) = Lesser(u, Hz - 1) /\ TickOf(y) = Lesser(v, Hz - 1)
    BY <1>1 DEF TickOf
  <2> HIDE DEF u, v
  <2> QED BY <1>2, <2>1, <2>2 DEF Lesser
<1>4. \A x, y \in 1..f : TickOf(x) = TickOf(y) => x = y
  <2> TAKE x, y \in 1..f
  <2>1. x < y \/ y < x \/ x = y
    BY <1>2
  <2> QED BY <1>3, <2>1
<1> QED BY <1>1, <1>4

-----------------------------------------------------------------------------
(* The schedule.                                                           *)

Frame == [seq : Nat, at : Nat, major : Nat, tick : Nat, values : SUBSET Parameters]

\* The ticks that on_frame has returned from.
Returned == IF stage = "callback" THEN Len(frames) - 1 ELSE Len(frames)

\* next_tick_time counts the frames, and no frame is made before it.
ScheduleInv ==
    /\ frames \in Seq(Frame)
    /\ stage = "callback" => Len(frames) > 0
    /\ Returned \in Nat /\ nextTick = Returned * Period
    /\ stage = "frame" => elapsed >= nextTick
    /\ stage = "sleep" => elapsed < nextTick
    /\ stage = "new" => elapsed = 0

\* What is in a frame follows from when the clock was read for it.
FrameInv ==
    \A n \in DOMAIN frames :
        /\ frames[n].at >= (n - 1) * Period
        /\ frames[n].major = MajorFrameAt(frames[n].at)
        /\ frames[n].tick = TickAt(frames[n].at)
        /\ frames[n].values = {p \in Parameters : stress \/ frames[n].tick \in ParamTicks(p)}

\* The clock was read for one frame after the other.
OrderInv == \A m, n \in DOMAIN frames : m <= n => frames[m].at <= frames[n].at

FdauInv == FdauTypeOK /\ ScheduleInv /\ FrameInv /\ OrderInv

\* One step appends a frame, and the others leave the frames alone.
LEMMA FramesGrow ==
    ASSUME FdauInv, MakeFrame
    PROVE  LET f == [seq |-> seq, at |-> elapsed, major |-> MajorFrameAt(elapsed),
                     tick |-> TickAt(elapsed),
                     values |-> {p \in Parameters : stress \/ TickAt(elapsed) \in ParamTicks(p)}]
           IN  /\ f \in Frame /\ f.at = elapsed /\ f.tick = TickAt(elapsed)
               /\ f.tick \in 0..(Hz - 1) /\ f.major = MajorFrameAt(elapsed)
               /\ f.values = {p \in Parameters : stress \/ f.tick \in ParamTicks(p)}
               /\ frames' = Append(frames, f) /\ frames' \in Seq(Frame)
               /\ Len(frames') = Len(frames) + 1 /\ Len(frames) \in Nat
               /\ DOMAIN frames' = DOMAIN frames \cup {Len(frames) + 1}
               /\ DOMAIN frames = 1..Len(frames)
               /\ \A n \in DOMAIN frames : frames'[n] = frames[n]
               /\ frames'[Len(frames) + 1] = f
<1> DEFINE v == {p \in Parameters : stress \/ TickAt(elapsed) \in ParamTicks(p)}
           f == [seq |-> seq, at |-> elapsed, major |-> MajorFrameAt(elapsed),
                 tick |-> TickAt(elapsed), values |-> v]
<1>1. elapsed \in Nat /\ majorLen \in Nat \ {0} /\ seq = Len(frames) /\ frames \in Seq(Frame)
  BY Rates DEF FdauInv, FdauTypeOK, ScheduleInv
<1>2. TickAt(elapsed) \in 0..(Hz - 1) /\ MajorFrameAt(elapsed) \in Nat
  BY <1>1, TickRange
<1>3. Len(frames) \in Nat /\ DOMAIN frames = 1..Len(frames)
  BY <1>1
<1>4. TickAt(elapsed) \in Nat
  BY <1>2, Rates
<1>5. v \in SUBSET Parameters
  OBVIOUS
<1>6. f \in Frame
  <2> HIDE DEF v
  <2> QED BY <1>1, <1>2, <1>3, <1>4, <1>5 DEF Frame
<1>7. frames' = Append(frames, f)
  BY DEF MakeFrame
<1>8. /\ f.at = elapsed /\ f.tick = TickAt(elapsed) /\ f.major = MajorFrameAt(elapsed)
      /\ f.values = {p \in Parameters : stress \/ f.tick \in ParamTicks(p)}
  OBVIOUS
<1>9. /\ frames' \in Seq(Frame) /\ Len(frames') = Len(frames) + 1
      /\ \A n \in 1..Len(frames) : frames'[n] = frames[n]
      /\ frames'[Len(frames) + 1] = f
  <2> HIDE DEF f
  <2> QED BY <1>1, <1>6, <1>7
<1>10. DOMAIN frames' = 1..(Len(frames) + 1)
  BY <1>9
<1>11. DOMAIN frames' = DOMAIN frames \cup {Len(frames) + 1}
  BY <1>3, <1>10
<1> QED BY <1>2, <1>3, <1>6, <1>7, <1>8, <1>9, <1>11

\* Whatever the clock shows for what was there before, it still shows.
LEMMA FdauUnchanged ==
    ASSUME UNCHANGED <<config, frames>>
    PROVE  /\ FrameInv => FrameInv' /\ (OrderInv => OrderInv')
           /\ frames \in Seq(Frame) => (frames \in Seq(Frame))'
<1>1. UNCHANGED <<flt, majorLen, stress, frames>>
  BY DEF config
<1> QED
  BY <1>1 DEF FrameInv, OrderInv, Frame, Parameters, ParamTicks, TickOf, TickAt, MajorFrameAt, Lesser

LEMMA NextFdauType ==
    ASSUME FdauInv, [Next]_vars
    PROVE  FdauTypeOK'
<1> USE DEF FdauInv
<1>1. /\ now \in Nat /\ MaxNow \in Nat /\ now <= MaxNow /\ elapsed \in Nat /\ elapsed <= now
      /\ nextTick \in Nat /\ Period \in Nat
  BY Rates DEF FdauTypeOK
<1>2. CASE UNCHANGED vars
  BY <1>2 DEF vars, config, FdauTypeOK, Parameters
<1>3. CASE Start
  <2>1. UNCHANGED <<flt, majorLen, stress, stopEvent, nextTick, elapsed, seq, frames>>
        /\ now' = 0 /\ stage' = "check" /\ stage = "new"
    BY <1>3 DEF Start, config
  <2>2. elapsed = 0
    BY <2>1 DEF ScheduleInv
  <2>3. now' \in 0..MaxNow /\ elapsed' \in 0..now'
    BY <1>1, <2>1, <2>2
  <2> QED BY <2>1, <2>3 DEF FdauTypeOK, Parameters
<1>4. CASE CheckStop
  BY <1>4 DEF CheckStop, config, FdauTypeOK, Parameters
<1>5. CASE ReadClock \/ Wake
  <2>1. UNCHANGED <<config, now, stopEvent, nextTick, seq, frames>> /\ elapsed' = now
        /\ stage' \in {"sleep", "frame"}
    BY <1>5 DEF ReadClock, Wake
  <2>2. \A n \in DOMAIN frames : frames[n].at \in 0..now
    BY <1>1 DEF FdauTypeOK
  <2> QED BY <1>1, <2>1, <2>2 DEF config, FdauTypeOK, Parameters
<1>6. CASE MakeFrame
  <2>1. UNCHANGED <<flt, majorLen, stress, now, stopEvent, nextTick, elapsed>>
        /\ seq' = seq + 1 /\ stage' = "callback"
    BY <1>6 DEF MakeFrame, config
  <2>2. PICK f : /\ f.at = elapsed /\ f.tick \in 0..(Hz - 1) /\ f.values \subseteq Parameters
                 /\ Len(frames') = Len(frames) + 1
                 /\ DOMAIN frames' = DOMAIN frames \cup {Len(frames) + 1}
                 /\ \A n \in DOMAIN frames : frames'[n] = frames[n]
                 /\ frames'[Len(frames) + 1] = f
    BY <1>6, FramesGrow
  <2>3. \A n \in DOMAIN frames' : /\ frames'[n].at \in 0..elapsed
                                  /\ frames'[n].tick \in 0..(Hz - 1)
                                  /\ frames'[n].values \subseteq Parameters
    BY <1>1, <2>2 DEF FdauTypeOK
  <2>4. seq' = Len(frames')
    BY <2>1, <2>2 DEF FdauTypeOK
  <2> QED BY <2>1, <2>3, <2>4 DEF FdauTypeOK, Parameters
<1>7. CASE Return
  BY <1>1, <1>7 DEF Return, config, FdauTypeOK, Parameters
<1>8. CASE Stop
  BY <1>8 DEF Stop, config, FdauTypeOK, Parameters
<1>9. CASE Advance
  <2>1. UNCHANGED <<config, stopEvent, stage, nextTick, elapsed, seq, frames>>
        /\ now' = now + 1 /\ now < MaxNow
    BY <1>9 DEF Advance
  <2>2. now' \in 0..MaxNow /\ elapsed \in 0..now'
    BY <1>1, <2>1
  <2> QED BY <2>1, <2>2 DEF config, FdauTypeOK, Parameters
<1> QED BY <1>2, <1>3, <1>4, <1>5, <1>6, <1>7, <1>8, <1>9 DEF Next, Run

LEMMA NextSchedule ==
    ASSUME FdauInv, [Next]_vars
    PROVE  ScheduleInv' /\ FrameInv' /\ OrderInv'
<1> USE DEF FdauInv
<1>1. /\ now \in Nat /\ elapsed \in Nat /\ elapsed <= now /\ nextTick \in Nat
      /\ Period \in Nat \ {0} /\ frames \in Seq(Frame) /\ Len(frames) \in Nat
  BY Rates DEF FdauTypeOK, ScheduleInv
<1>2. CASE UNCHANGED vars \/ Start \/ CheckStop \/ Stop \/ Advance
  <2>1. UNCHANGED <<config, nextTick, elapsed, frames>>
        /\ (stage' = stage \/ (stage' \in {"check", "clock", "done"} /\ stage # "callback"))
    <3>1. CASE UNCHANGED vars \/ Stop \/ Advance
      BY <3>1 DEF vars, config, Stop, Advance
    <3>2. CASE Start
      BY <3>2 DEF config, Start
    <3>3. CASE CheckStop
      BY <3>3 DEF config, CheckStop
    <3> QED BY <1>2, <3>1, <3>2, <3>3
  <2>2. FrameInv' /\ OrderInv' /\ frames' \in Seq(Frame)'
    BY <2>1, FdauUnchanged DEF ScheduleInv
  <2> QED BY <2>1, <2>2 DEF ScheduleInv, Returned
<1>3. CASE ReadClock \/ Wake
  <2>1. UNCHANGED <<config, nextTick, frames>> /\ elapsed' = now /\ stage \in {"clock", "sleep"}
        /\ ((stage' = "sleep" /\ nextTick > now) \/ (stage' = "frame" /\ now >= nextTick))
    <3>1. CASE ReadClock
      BY <1>1, <3>1 DEF ReadClock
    <3>2. CASE Wake
      BY <1>1, <3>2 DEF Wake
    <3> QED BY <1>3, <3>1, <3>2
  <2>2. FrameInv' /\ OrderInv' /\ frames' \in Seq(Frame)'
    BY <2>1, FdauUnchanged DEF ScheduleInv
  <2> QED BY <2>1, <2>2 DEF ScheduleInv, Returned
<1>4. CASE MakeFrame
  <2>1. UNCHANGED <<flt, majorLen, stress, nextTick, elapsed>>
        /\ stage = "frame" /\ stage' = "callback"
    BY <1>4 DEF MakeFrame, config
  <2>2. PICK f : /\ f.at = elapsed /\ f.tick = TickAt(elapsed) /\ f.major = MajorFrameAt(elapsed)
                 /\ f.values = {p \in Parameters : stress \/ f.tick \in ParamTicks(p)}
                 /\ frames' \in Seq(Frame) /\ Len(frames') = Len(frames) + 1
                 /\ DOMAIN frames' = DOMAIN frames \cup {Len(frames) + 1}
                 /\ DOMAIN frames = 1..Len(frames)
                 /\ \A n \in DOMAIN frames : frames'[n] = frames[n]
                 /\ frames'[Len(frames) + 1] = f
    BY <1>4, FramesGrow
  <2>3. nextTick = Len(frames) * Period /\ elapsed >= nextTick
    BY <2>1 DEF ScheduleInv, Returned
  <2>4. ScheduleInv'
    <3>1. Len(frames') - 1 = Len(frames)
      BY <1>1, <2>2
    <3>2. Returned' = Len(frames)
      BY <2>1, <3>1 DEF Returned
    <3>3. frames' \in Seq(Frame)'
      BY <2>1, <2>2 DEF Frame, Parameters
    <3>4. Len(frames') > 0
      BY <1>1, <2>2
    <3> QED BY <1>1, <2>1, <2>3, <3>2, <3>3, <3>4 DEF ScheduleInv
  <2>5. FrameInv'
    <3>1. f.at >= ((Len(frames) + 1) - 1) * Period
      <4>1. (Len(frames) + 1) - 1 = Len(frames)
        BY <1>1
      <4> QED BY <2>2, <2>3, <4>1
    <3>2. \A n \in DOMAIN frames' :
            /\ frames'[n].at >= (n - 1) * Period
            /\ frames'[n].major = MajorFrameAt(frames'[n].at)
            /\ frames'[n].tick = TickAt(frames'[n].at)
            /\ frames'[n].values = {p \in Parameters : stress \/ frames'[n].tick \in ParamTicks(p)}
      BY <2>2, <3>1 DEF FrameInv
    <3> QED BY <2>1, <3>2 DEF FrameInv, Parameters, ParamTicks, TickOf, TickAt, MajorFrameAt, Lesser
  <2>6. OrderInv'
    <3>1. \A m \in DOMAIN frames : frames[m].at \in Nat /\ frames[m].at <= elapsed
      BY <1>1 DEF FdauTypeOK
    <3>2. \A n \in DOMAIN frames : ~(Len(frames) + 1 <= n)
      BY <1>1, <2>2
    <3>3. elapsed <= elapsed
      BY <1>1
    <3> QED BY <2>2, <3>1, <3>2, <3>3 DEF OrderInv
  <2> QED BY <2>4, <2>5, <2>6
<1>5. CASE Return
  <2>1. UNCHANGED <<config, elapsed, frames>> /\ nextTick' = nextTick + Period
        /\ stage = "callback" /\ stage' = "check"
    BY <1>5 DEF Return
  <2>2. FrameInv' /\ OrderInv' /\ frames' \in Seq(Frame)'
    BY <2>1, FdauUnchanged DEF ScheduleInv
  <2>3. nextTick = (Len(frames) - 1) * Period /\ Returned' = Len(frames)
    BY <2>1 DEF ScheduleInv, Returned
  <2>4. (Len(frames) - 1) * Period + Period = Len(frames) * Period
    BY <1>1
  <2> QED BY <1>1, <2>1, <2>2, <2>3, <2>4 DEF ScheduleInv
<1> QED BY <1>2, <1>3, <1>4, <1>5 DEF Next, Run

LEMMA InitFdau == Init => FdauInv
<1> SUFFICES ASSUME Init PROVE FdauInv OBVIOUS
<1>1. DOMAIN frames = {} /\ Len(frames) = 0 /\ frames \in Seq(Frame)
  BY DEF Init
<1>2. FdauTypeOK
  <2>1. now = 0 /\ elapsed = 0 /\ nextTick = 0 /\ seq = 0
    BY DEF Init
  <2>2. now \in 0..MaxNow /\ elapsed \in 0..now /\ nextTick \in Nat /\ seq = Len(frames)
    BY <1>1, <2>1, Rates
  <2> QED BY <1>1, <2>2, FdauAssumption DEF Init, FdauTypeOK
<1>3. ScheduleInv
  <2>1. Returned = 0 /\ nextTick = 0 /\ stage = "new" /\ elapsed = 0
    BY <1>1 DEF Init, Returned
  <2>2. 0 = 0 * Period
    BY Rates
  <2> QED BY <1>1, <2>1, <2>2 DEF ScheduleInv
<1> QED BY <1>1, <1>2, <1>3 DEF FdauInv, FrameInv, OrderInv

-----------------------------------------------------------------------------
(* A major frame without a late frame.                                     *)

\* What tells pairs apart tells the members of the product apart.
LEMMA InjectiveOnPairs ==
    ASSUME NEW A, NEW B, NEW g,
           \A x, y \in A : \A i, j \in B : g[<<x, i>>] = g[<<y, j>>] => x = y /\ i = j
    PROVE  \A v, w \in A \X B : g[v] = g[w] => v = w
OBVIOUS

\* The periods after the first base that fall in one of these ticks; a tick has k
\* periods, and there are h ticks.
PeriodsOf(ticks, base, h, k) ==
    {n \in (base + 1)..(base + h * k) : (n - 1 - base) \div k \in ticks}

\* There are k of them for each tick.
LEMMA CountPeriods ==
    ASSUME NEW h \in Nat \ {0}, NEW k \in Nat \ {0}, NEW base \in Nat,
           NEW ticks, ticks \subseteq 0..(h - 1)
    PROVE  Cardinality(PeriodsOf(ticks, base, h, k)) = k * Cardinality(ticks)
<1> DEFINE S == PeriodsOf(ticks, base, h, k)
<1> USE DEF PeriodsOf
<1> DEFINE g == [w \in ticks \X (0..(k - 1)) |-> base + (k * w[1] + w[2]) + 1]
<1>0. h * k \in Nat
  BY ProductType
<1>1. \A x \in ticks : \A i \in 0..(k - 1) :
         /\ k * x + i \in Nat /\ k * x + i < h * k
         /\ (k * x + i) \div k = x /\ (k * x + i) % k = i
  <2> TAKE x \in ticks
  <2> TAKE i \in 0..(k - 1)
  <2>1. PICK t \in 0..(h - 1) : t = x
    OBVIOUS
  <2>2. k * t \in Nat /\ (t + 1) * k <= h * k /\ (t + 1) * k = k * t + k
    <3>1. k * t \in Nat
      BY ProductType
    <3>2. t + 1 \in Nat /\ t + 1 <= h
      OBVIOUS
    <3>3. (t + 1) * k <= h * k
      BY <3>2, ProductMonotone
    <3>4. (t + 1) * k = k * t + k
      OBVIOUS
    <3> QED BY <3>1, <3>3, <3>4
  <2>3. k * t + i \in Nat /\ k * t + i < h * k
    <3>1. PICK x1 \in Nat : x1 = k * t
      BY <2>2
    <3>2. PICK x2 \in Nat : x2 = h * k
      BY <1>0
    <3>3. x1 + k <= x2
      BY <2>2, <3>1, <3>2
    <3>4. x1 + i \in Nat /\ x1 + i < x2
      BY <3>3
    <3> QED BY <3>1, <3>2, <3>4
  <2>4. (k * t + i) \div k = t /\ (k * t + i) % k = i
    <3>1. PICK a \in Nat : a = k * t + i
      BY <2>3
    <3>2. i \in Nat /\ i < k /\ t \in Nat
      OBVIOUS
    <3>3. a \div k = t /\ a % k = i
      BY <3>1, <3>2, DivUnique
    <3> QED BY <3>1, <3>3
  <2> QED BY <2>1, <2>3, <2>4
<1>2. g \in [ticks \X (0..(k - 1)) -> S]
  <2> SUFFICES ASSUME NEW x \in ticks, NEW i \in 0..(k - 1)
               PROVE  base + (k * x + i) + 1 \in S
    OBVIOUS
  <2>1. PICK j \in Nat : j = k * x + i
    BY <1>1
  <2>2. j < h * k /\ j \div k = x
    BY <1>1, <2>1
  <2>3. base + j + 1 \in (base + 1)..(base + h * k) /\ (base + j + 1) - 1 - base = j
    <3>1. PICK x2 \in Nat : x2 = h * k
      BY <1>0
    <3>2. j < x2
      BY <2>2, <3>1
    <3>3. base + j + 1 \in (base + 1)..(base + x2) /\ (base + j + 1) - 1 - base = j
      BY <3>2
    <3> QED BY <3>1, <3>3
  <2> QED BY <2>1, <2>2, <2>3
<1>3. \A v, w \in ticks \X (0..(k - 1)) : g[v] = g[w] => v = w
  <2>1. ASSUME NEW x \in ticks, NEW y \in ticks, NEW i \in 0..(k - 1), NEW j \in 0..(k - 1),
               g[<<x, i>>] = g[<<y, j>>]
        PROVE  x = y /\ i = j
    <3>1. PICK a \in Nat : a = k * x + i
      BY <1>1
    <3>2. PICK b \in Nat : b = k * y + j
      BY <1>1
    <3>3. g[<<x, i>>] = base + a + 1 /\ g[<<y, j>>] = base + b + 1
      BY <3>1, <3>2
    <3>4. base + a + 1 = base + b + 1
      BY <2>1, <3>3
    <3>5. a = b
      BY ONLY <3>4, base \in Nat, a \in Nat, b \in Nat
    <3>6. x = y /\ i = j
      BY <1>1, <3>1, <3>2, <3>5
    <3> QED BY <3>6
  <2> HIDE DEF g
  <2>2. \A x, y \in ticks : \A i, j \in 0..(k - 1) : g[<<x, i>>] = g[<<y, j>>] => x = y /\ i = j
    BY <2>1
  <2>3. PICK is : is = 0..(k - 1)
    OBVIOUS
  <2>4. \A x, y \in ticks : \A i, j \in is : g[<<x, i>>] = g[<<y, j>>] => x = y /\ i = j
    BY <2>2, <2>3
  <2>5. \A v, w \in ticks \X is : g[v] = g[w] => v = w
    BY ONLY <2>4, InjectiveOnPairs
  <2> QED BY <2>3, <2>5, Zenon
<1>4. ASSUME NEW n \in S PROVE \E w \in ticks \X (0..(k - 1)) : g[w] = n
  <2>1. PICK x \in ticks : (n - 1 - base) \div k = x
    OBVIOUS
  <2>2. PICK j \in Nat : j = n - 1 - base
    BY <1>0
  <2>3. j = k * (j \div k) + (j % k) /\ j % k \in 0..(k - 1)
    BY DivMod
  <2>4. PICK i \in 0..(k - 1) : i = j % k
    BY <2>3
  <2>5. <<x, i>> \in ticks \X (0..(k - 1)) /\ g[<<x, i>>] = base + (k * x + i) + 1
    OBVIOUS
  <2>6. k * x + i = j
    BY <2>1, <2>2, <2>3, <2>4
  <2>7. base + j + 1 = n
    BY <1>0, <2>2
  <2> QED BY <2>5, <2>6, <2>7
<1>5. ExistsBijection(ticks \X (0..(k - 1)), S)
  <2> HIDE DEF g
  <2>1. g \in Injection(ticks \X (0..(k - 1)), S)
    BY <1>2, <1>3, Fun_IsInj, Zenon
  <2>2. g \in Surjection(ticks \X (0..(k - 1)), S)
    BY <1>2, <1>4, Fun_IsSurj, Zenon
  <2> QED BY <2>1, <2>2, Zenon DEF ExistsBijection, Bijection
<1>6. IsFiniteSet(ticks) /\ Cardinality(ticks) \in Nat
  <2>1. IsFiniteSet(0..(h - 1))
    BY FS_Interval
  <2> QED BY <2>1, FS_Subset, FS_CardinalityType
<1>7. IsFiniteSet(0..(k - 1)) /\ Cardinality(0..(k - 1)) = k
  <2>1. k - 1 \in Int /\ ~(0 > k - 1) /\ k - 1 - 0 + 1 = k
    OBVIOUS
  <2> QED BY <2>1, FS_Interval
<1>8. IsFiniteSet(ticks \X (0..(k - 1))) /\ Cardinality(ticks \X (0..(k - 1))) = Cardinality(ticks) * k
  BY <1>6, <1>7, FS_Product
<1>9. Cardinality(S) = Cardinality(ticks) * k
  BY <1>5, <1>8, FS_Bijection
<1> QED BY <1>6, <1>9

\* The thread keeps its schedule whatever the sleep and the callback take.
THEOREM FdauInvariance == Spec => []FdauInv
<1>1. FdauInv /\ [Next]_vars => FdauInv'
  BY NextFdauType, NextSchedule DEF FdauInv
<1> QED BY <1>1, InitFdau, PTL DEF Spec

\* The state of the unit keeps its shape, and no frame has a tick that the major
\* frame does not have (fdau.py 153-170).
THEOREM FdauTyped == Spec => []FdauTypeOK
<1>1. FdauInv => FdauTypeOK
  BY DEF FdauInv
<1> QED BY <1>1, FdauInvariance, PTL

\* No frame is early, the frames never go back in the major frame, and the
\* schedule does not drift, for every hz and every length of a major frame
\* (fdau.py 146-195).
THEOREM ScheduleIsKept == Spec => []KeepsSchedule
<1>1. FdauInv => KeepsSchedule
  <2> SUFFICES ASSUME FdauInv PROVE KeepsSchedule OBVIOUS
  <2>1. \A n \in DOMAIN frames : frames[n].at >= (n - 1) * Period
    BY DEF FdauInv, FrameInv
  <2>2. ASSUME NEW m \in DOMAIN frames, NEW n \in DOMAIN frames, m < n
        PROVE  \/ frames[m].major < frames[n].major
               \/ frames[m].major = frames[n].major /\ frames[m].tick <= frames[n].tick
    <3>1. m <= n
      BY <2>2 DEF FdauInv, ScheduleInv
    <3>2. frames[m].at <= frames[n].at /\ frames[m].at \in Nat /\ frames[n].at \in Nat
      BY <3>1 DEF FdauInv, OrderInv, FdauTypeOK
    <3>3. majorLen \in Nat \ {0}
      BY Rates DEF FdauInv, FdauTypeOK
    <3> QED BY <3>2, <3>3, ClockOrder DEF FdauInv, FrameInv
  <2>3. stage = "sleep" => elapsed < Len(frames) * Period
    BY DEF FdauInv, ScheduleInv, Returned
  <2> QED BY <2>1, <2>2, <2>3 DEF KeepsSchedule
<1> QED BY <1>1, FdauInvariance, PTL

\* The frames of a major frame that no frame was late for are those of its
\* periods, and each shows the tick of its period.
LEMMA FramesOfMajor ==
    ASSUME FdauInv, NEW k \in Nat \ {0}, majorLen = (Hz * Period) * k, NEW major \in Nat,
           NEW base \in Nat, base = major * (Hz * k), Undisturbed(major)
    PROVE  /\ (base + 1)..(base + Hz * k) \subseteq DOMAIN frames
           /\ \A n \in DOMAIN frames :
                frames[n].major = major <=> n \in (base + 1)..(base + Hz * k)
           /\ \A n \in (base + 1)..(base + Hz * k) : frames[n].tick = (n - 1 - base) \div k
<1>0. /\ Hz \in Nat \ {0} /\ Period \in Nat \ {0} /\ majorLen \in Nat \ {0}
      /\ Len(frames) \in Nat /\ DOMAIN frames = 1..Len(frames)
  BY Rates DEF FdauInv, FdauTypeOK, ScheduleInv
<1>1. PICK s \in Nat : s = Hz * k
  BY <1>0, ProductType
<1>2. majorLen = Period * s /\ majorLen = s * Period
  BY <1>0, <1>1
<1>3. majorLen \div Period = s
  BY <1>0, <1>1, <1>2, DivUnique
<1>4. base = major * s /\ (major + 1) * s = base + s
  BY <1>1
<1>5. /\ Len(frames) >= base + s
      /\ \A n \in base..(base + s) : n > 0 => frames[n].at < n * Period
  BY <1>3, <1>4 DEF Undisturbed, OnTime
<1>6. \A n \in DOMAIN frames : /\ frames[n].at \in Nat /\ frames[n].at >= (n - 1) * Period
                               /\ frames[n].major = MajorFrameAt(frames[n].at)
                               /\ frames[n].tick = TickAt(frames[n].at)
  BY DEF FdauInv, FdauTypeOK, FrameInv
<1>7. base * Period = majorLen * major /\ (base + s) * Period = majorLen * (major + 1)
  <2>1. (major * s) * Period = (Period * s) * major
    BY <1>0
  <2>2. (major * s + s) * Period = (Period * s) * (major + 1)
    BY <1>0
  <2> QED BY <1>2, <1>4, <2>1, <2>2
<1>8. ASSUME NEW n \in (base + 1)..(base + s)
      PROVE  n \in DOMAIN frames /\ frames[n].major = major /\ frames[n].tick = (n - 1 - base) \div k
  <2>1. n \in DOMAIN frames /\ n > 0 /\ n \in base..(base + s)
    <3>1. n \in Nat /\ n > 0 /\ n \in base..(base + s) /\ n <= base + s
      OBVIOUS
    <3>2. PICK m \in Nat : m = Len(frames)
      BY <1>0
    <3>3. m >= base + s
      BY <1>5, <3>2
    <3>4. n \in 1..m
      BY <3>1, <3>3
    <3> QED BY <1>0, <3>1, <3>2, <3>4
  <2>2. PICK a \in Nat : a = frames[n].at
    BY <1>6, <2>1
  <2>3. (n - 1) * Period <= a /\ a < n * Period
    BY <1>0, <1>5, <1>6, <2>1, <2>2
  <2>4. PICK j \in Nat : j = n - 1 - base
    <3>1. n - 1 - base \in Nat
      OBVIOUS
    <3> QED BY <3>1
  <2>5. n - 1 = major * (Hz * k) + j /\ n = major * (Hz * k) + j + 1 /\ j < Hz * k
    <3>1. n - 1 = base + j /\ n = base + j + 1 /\ j < s
      BY <2>4
    <3> QED BY <1>1, <1>4, <3>1
  <2>6. (major * (Hz * k) + j) * Period <= a /\ a < (major * (Hz * k) + j + 1) * Period
    BY <2>3, <2>5
  <2>7. a \div majorLen = major /\ ((a % majorLen) * Hz) \div majorLen = j \div k
    BY <1>0, <2>5, <2>6, PeriodClock
  <2>8. j \div k \in 0..(Hz - 1)
    BY <1>0, <2>5, PeriodTick
  <2>9. Lesser(j \div k, Hz - 1) = j \div k
    BY <1>0, <2>8 DEF Lesser
  <2>10. MajorFrameAt(a) = major /\ TickAt(a) = j \div k
    BY <2>7, <2>9 DEF MajorFrameAt, TickAt
  <2> QED BY <1>6, <2>1, <2>2, <2>4, <2>10
<1>9. ASSUME NEW n \in DOMAIN frames, n <= base PROVE frames[n].major # major
  <2>1. base \in DOMAIN frames /\ base > 0 /\ base \in base..(base + s) /\ n \in Nat
    BY <1>0, <1>5, <1>9
  <2>2. PICK a \in Nat : a = frames[n].at
    BY <1>6
  <2>3. frames[base].at < base * Period /\ frames[base].at \in Nat /\ base * Period \in Nat
    BY <1>0, <1>5, <1>6, <2>1, ProductType
  <2>4. a <= frames[base].at
    BY <1>9, <2>1, <2>2 DEF FdauInv, OrderInv
  <2>5. a < majorLen * major /\ majorLen * major \in Nat
    BY <1>7, <2>3, <2>4
  <2>6. PICK x \in Nat, r \in Nat : a = majorLen * x + r /\ x = a \div majorLen
    BY <1>0, DivMod
  <2>7. x # major
    <3> SUFFICES ASSUME x = major PROVE FALSE
      OBVIOUS
    <3>1. PICK y \in Nat : y = majorLen * major
      BY <2>5
    <3>2. a = y + r /\ a < y
      BY <2>5, <2>6, <3>1
    <3> QED BY <3>2
  <2> QED BY <1>6, <2>2, <2>6, <2>7 DEF MajorFrameAt
<1>10. ASSUME NEW n \in DOMAIN frames, n > base + s PROVE frames[n].major # major
  <2>1. PICK a \in Nat : a = frames[n].at
    BY <1>6
  <2>2. n - 1 \in Nat /\ base + s \in Nat /\ base + s <= n - 1
    BY <1>0, <1>10
  <2>3. (base + s) * Period <= (n - 1) * Period
    BY <1>0, <2>2, ProductMonotone
  <2>4. (base + s) * Period \in Nat /\ (n - 1) * Period \in Nat
    BY <1>0, <2>2, ProductType
  <2>5. (n - 1) * Period <= a
    BY <1>6, <2>1, <2>4
  <2>6. majorLen * (major + 1) <= a /\ majorLen * (major + 1) \in Nat
    BY <1>7, <2>3, <2>4, <2>5
  <2>7. (majorLen * (major + 1)) \div majorLen = major + 1
    BY <1>0, <2>6, DivUnique
  <2>8. major + 1 <= a \div majorLen /\ a \div majorLen \in Nat
    BY <1>0, <2>6, <2>7, DivMonotone, DivMod
  <2> QED BY <1>6, <2>1, <2>8 DEF MajorFrameAt
<1>11. \A n \in DOMAIN frames : n \in (base + 1)..(base + s) \/ n <= base \/ n > base + s
  BY <1>0
<1> QED BY <1>1, <1>8, <1>9, <1>10, <1>11

\* Minor frames with ticks of their own are as many as their ticks.
LEMMA TicksOfOwn ==
    ASSUME flt.minorFrames \in Nat \ {0}, Hz >= flt.minorFrames, NEW xs,
           xs \subseteq 1..flt.minorFrames
    PROVE  Cardinality({TickOf(x) : x \in xs}) = Cardinality(xs)
<1> DEFINE ts == {TickOf(x) : x \in xs}
           g == [x \in xs |-> TickOf(x)]
<1>1. IsFiniteSet(xs)
  <2>1. IsFiniteSet(1..flt.minorFrames)
    BY FS_Interval
  <2> QED BY <2>1, FS_Subset
<1>2. g \in [xs -> ts] /\ \A t \in ts : \E x \in xs : g[x] = t
  OBVIOUS
<1>3. \A x, y \in xs : g[x] = g[y] => x = y
  BY TickOfInjective
<1>4. ExistsBijection(xs, ts)
  <2> HIDE DEF g, ts
  <2>1. g \in Injection(xs, ts)
    BY <1>2, <1>3, Fun_IsInj, Zenon
  <2>2. g \in Surjection(xs, ts)
    BY <1>2, Fun_IsSurj, Zenon
  <2> QED BY <2>1, <2>2, Zenon DEF ExistsBijection, Bijection
<1> QED BY <1>1, <1>4, FS_Bijection

\* A parameter is in the frames of a major frame of k seconds that show one of its
\* ticks.
LEMMA FramesCarrying ==
    ASSUME FdauInv, NEW k \in Nat \ {0}, majorLen = (Hz * Period) * k, NEW major \in Nat,
           NEW base \in Nat, base = major * (Hz * k), Undisturbed(major), NEW p \in Parameters
    PROVE  /\ DueTicks(p) \subseteq 0..(Hz - 1)
           /\ Carrying(p, major) = PeriodsOf(DueTicks(p), base, Hz, k)
           /\ \A t \in DueTicks(p) :
                {n \in Carrying(p, major) : frames[n].tick = t} = PeriodsOf({t}, base, Hz, k)
<1>1. flt.minorFrames \in Nat \ {0} /\ flt.layout[p] \subseteq 1..flt.minorFrames
  BY FdauAssumption DEF FdauInv, FdauTypeOK, Parameters
<1>2. DueTicks(p) \subseteq 0..(Hz - 1)
  BY <1>1, TickOfType DEF DueTicks, ParamTicks
<1>3. /\ (base + 1)..(base + Hz * k) \subseteq DOMAIN frames
      /\ \A n \in DOMAIN frames : frames[n].major = major <=> n \in (base + 1)..(base + Hz * k)
      /\ \A n \in (base + 1)..(base + Hz * k) : frames[n].tick = (n - 1 - base) \div k
  BY FramesOfMajor
<1>4. \A n \in DOMAIN frames : p \in frames[n].values <=> frames[n].tick \in DueTicks(p)
  <2>1. \A n \in DOMAIN frames :
          /\ frames[n].values = {u \in Parameters : stress \/ frames[n].tick \in ParamTicks(u)}
          /\ frames[n].tick \in 0..(Hz - 1)
    BY DEF FdauInv, FdauTypeOK, FrameInv
  <2> QED BY <2>1 DEF DueTicks
<1>5. Carrying(p, major) = PeriodsOf(DueTicks(p), base, Hz, k)
  BY <1>3, <1>4 DEF Carrying, PeriodsOf
<1>6. ASSUME NEW t \in DueTicks(p)
      PROVE  {n \in Carrying(p, major) : frames[n].tick = t} = PeriodsOf({t}, base, Hz, k)
  BY <1>3, <1>5 DEF PeriodsOf
<1> QED BY <1>2, <1>5, <1>6

\* Every major frame of whole seconds that no frame was late for has each parameter
\* at the tick of each of its minor frames, once for each second and at no other
\* tick, for every rate, layout and mode (fdau.py 93-118, 153-170).
THEOREM MinorFramesOnce == Spec => []EachMinorFrameOnce
<1>1. ASSUME FdauInv, majorLen % (Hz * Period) = 0,
             NEW major \in 0..MajorFrameAt(MaxNow), Undisturbed(major), NEW p \in Parameters,
             NEW seconds, seconds = majorLen \div (Hz * Period)
      PROVE  /\ \A m \in flt.layout[p] :
                  Cardinality({n \in Carrying(p, major) : frames[n].tick = TickOf(m)}) = seconds
             /\ Cardinality(Carrying(p, major)) = seconds * Cardinality(DueTicks(p))
  <2>1. Hz \in Nat \ {0} /\ Period \in Nat \ {0} /\ majorLen \in Nat \ {0} /\ MaxNow \in Nat
    BY <1>1, Rates DEF FdauInv, FdauTypeOK
  <2>2. major \in Nat
    BY <1>1, <2>1, TickRange
  <2>3. seconds \in Nat \ {0} /\ majorLen = (Hz * Period) * seconds
    <3>1. PICK hp \in Nat \ {0} : hp = Hz * Period
      <4>1. \A x, y \in Nat \ {0} : x * y \in Nat \ {0}
        OBVIOUS
      <4> QED BY <2>1, <4>1
    <3>2. seconds \in Nat /\ majorLen = hp * seconds + 0
      BY <1>1, <2>1, <3>1, DivMod
    <3>3. majorLen = hp * seconds /\ seconds # 0
      BY <2>1, <3>1, <3>2
    <3> QED BY <3>1, <3>2, <3>3
  <2>4. PICK base \in Nat : base = major * (Hz * seconds)
    BY <2>1, <2>2, <2>3, ProductType
  <2>5. /\ DueTicks(p) \subseteq 0..(Hz - 1)
        /\ Carrying(p, major) = PeriodsOf(DueTicks(p), base, Hz, seconds)
        /\ \A t \in DueTicks(p) :
             {n \in Carrying(p, major) : frames[n].tick = t} = PeriodsOf({t}, base, Hz, seconds)
    <3>1. FdauInv /\ Undisturbed(major) /\ p \in Parameters
      BY <1>1
    <3>2. DueTicks(p) \subseteq 0..(Hz - 1)
      BY <2>2, <2>3, <2>4, <3>1, FramesCarrying
    <3>3. Carrying(p, major) = PeriodsOf(DueTicks(p), base, Hz, seconds)
      BY <2>2, <2>3, <2>4, <3>1, FramesCarrying
    <3>4. \A t \in DueTicks(p) :
            {n \in Carrying(p, major) : frames[n].tick = t} = PeriodsOf({t}, base, Hz, seconds)
      BY <2>2, <2>3, <2>4, <3>1, FramesCarrying
    <3> QED BY <3>2, <3>3, <3>4
  <2>6. ASSUME NEW m \in flt.layout[p]
        PROVE  Cardinality({n \in Carrying(p, major) : frames[n].tick = TickOf(m)}) = seconds
    <3>1. PICK t : t = TickOf(m)
      OBVIOUS
    <3>2. t \in DueTicks(p)
      <4>1. flt.minorFrames \in Nat \ {0} /\ m \in 1..flt.minorFrames
        BY <1>1, FdauAssumption DEF FdauInv, FdauTypeOK, Parameters
      <4> QED BY <3>1, <4>1, TickOfType DEF DueTicks, ParamTicks
    <3>3. Cardinality(PeriodsOf({t}, base, Hz, seconds)) = seconds * Cardinality({t})
      BY <2>1, <2>3, <2>5, <3>2, CountPeriods
    <3>4. Cardinality({t}) = 1
      BY FS_Singleton
    <3>5. seconds * 1 = seconds
      BY <2>3
    <3> QED BY <2>5, <3>1, <3>2, <3>3, <3>4, <3>5
  <2>7. Cardinality(Carrying(p, major)) = seconds * Cardinality(DueTicks(p))
    BY <2>1, <2>3, <2>5, CountPeriods
  <2> QED BY <2>6, <2>7
<1>2. ASSUME FdauInv, Hz >= flt.minorFrames, NEW p \in Parameters
      PROVE  Cardinality(ParamTicks(p)) = Cardinality(flt.layout[p])
  <2>1. flt.minorFrames \in Nat \ {0} /\ flt.layout[p] \subseteq 1..flt.minorFrames
    BY <1>2, FdauAssumption DEF FdauInv, FdauTypeOK, Parameters
  <2> QED BY <1>2, <2>1, TicksOfOwn DEF ParamTicks
<1>3. FdauInv => EachMinorFrameOnce
  BY <1>1, <1>2 DEF EachMinorFrameOnce
<1> QED BY <1>3, FdauInvariance, PTL
=============================================================================
