---------------------------- MODULE TrafficShapes ----------------------------
(***************************************************************************)
(* What the traffic detector makes of the timestamps that it keeps of one  *)
(* client's arrivals.  Ratios are given in tenths, and compared after both *)
(* sides are multiplied by the denominators.                               *)
(***************************************************************************)
EXTENDS Integers, FiniteSetsExt, SequencesExt

CONSTANTS
  Window,           \* length of a window, in ticks
  HorizonWindows,   \* windows the detector looks back
  BinsPerWindow,    \* bins a window is cut into
  MinSamples,       \* arrivals below which no shape is told
  SteadyRatio,      \* in tenths: at most this peak-to-mean ratio is steady
  BurstyRatio,      \* in tenths: at least this one is bursty
  RampRatio         \* in tenths: the last third over the first, when ramping

ASSUME DetectorAssumption ==
  /\ Window \in Nat \ {0}
  /\ HorizonWindows \in Nat \ {0}
  /\ BinsPerWindow \in Nat \ {0}
  /\ MinSamples \in Nat
  /\ {SteadyRatio, BurstyRatio, RampRatio} \subseteq Nat

Shapes == {"warmup", "steady", "moderate", "ramping", "bursty"}

Horizon == HorizonWindows * Window

NumBins == HorizonWindows * BinsPerWindow

-----------------------------------------------------------------------------

\* The bin t falls in when the newest arrival is at now; what lies outside the
\* horizon goes to the nearest bin.
BinOf(t, now) ==
  LET bin == ((t - (now - Horizon)) * BinsPerWindow) \div Window
  IN  Max({0, Min({bin, NumBins - 1})})

\* How many arrivals fall in the bins given, the last of them being newest.
CountIn(ts, newest, bins) ==
  Cardinality({i \in DOMAIN ts : BinOf(ts[i], newest) \in bins})

\* Ten times the ratio of the fullest bin to the mean, times the arrivals.
Peakedness(ts, newest) ==
  10 * NumBins * Max({CountIn(ts, newest, {b}) : b \in 0..NumBins - 1})

\* Mutant: a ratio of exactly the threshold is not bursty.
SpikyStrict(ts, newest) == Peakedness(ts, newest) > BurstyRatio * Len(ts)

Spiky(ts, newest) == Peakedness(ts, newest) >= BurstyRatio * Len(ts)

\* The bins of a third of the horizon.
Third == Max({1, NumBins \div 3})

\* Mutant: the last third is a bin too wide.
ClimbingOffByOne(ts, newest) ==
  LET early  == CountIn(ts, newest, 0..Third - 1)
      recent == CountIn(ts, newest, NumBins - Third - 1..NumBins - 1)
  IN  early > 0 /\ 10 * recent >= RampRatio * early

Climbing(ts, newest) ==
  LET early  == CountIn(ts, newest, 0..Third - 1)
      recent == CountIn(ts, newest, NumBins - Third..NumBins - 1)
  IN  early > 0 /\ 10 * recent >= RampRatio * early

\* What classify makes of the arrivals it iterates over, when it has read the
\* newest one before.
ShapeOf(ts, newest) ==
  LET flat == Peakedness(ts, newest) <= SteadyRatio * Len(ts)
  IN  IF ts = <<>> THEN "warmup"
      ELSE IF Spiky(ts, newest)    THEN "bursty"
      ELSE IF Climbing(ts, newest) THEN "ramping"
      ELSE IF flat                 THEN "steady"
      ELSE "moderate"

\* classify, undisturbed.  It is called right after an arrival was observed.
Classify(ts) ==
  IF Len(ts) < MinSamples THEN "warmup" ELSE ShapeOf(ts, ts[Len(ts)])

=============================================================================
