----------------------------- MODULE Measurements -----------------------------
(***************************************************************************)
(* Hourly engineering measurements (radar/measurement_runtime.py,           *)
(* radar/measurements.py and RadarStore.generate_engineering_measurements): *)
(* at the end of its run a worker reads the stored calls, decisions,        *)
(* publications and deliveries and appends one receipt per metric and       *)
(* window, and one latency receipt per decided filing.  The rows themselves *)
(* are written by the radar workers; here each of them is one step.         *)
(***************************************************************************)
EXTENDS Integers, Sequences, FiniteSets, FiniteSetsExt, SequencesExt

CONSTANTS
  MeFiling,           (* accessions                                          *)
  MeWorker,           (* workers that end a run and measure                  *)
  MeEpoch,            (* telemetry_started_at: when migration 0021 ran       *)
  MeWindow,           (* MEASUREMENT_WINDOWS_HOURS                           *)
  MeCadence,          (* MEASUREMENT_CADENCE_SECONDS                         *)
  MeSensor,           (* whether collect_resources reads the sensors         *)
  MeShort,            (* durations whose product as floats falls below them  *)
  MaxMeClock,         (* bound: time                                         *)
  MaxMeCalls,         (* bound: analyst calls of one filing                  *)
  MaxMeLineages,      (* bound: event lineages of one filing                 *)
  MaxMeSets           (* bound: measurement sets                             *)

ASSUME MeasurementAssumption ==
  /\ {MeEpoch, MeCadence, MaxMeClock, MaxMeCalls, MaxMeLineages, MaxMeSets} \subseteq Nat
  /\ MeWindow \cup MeShort \subseteq Nat \ {0} /\ MeSensor \subseteq BOOLEAN /\ IsFiniteSet(MeFiling)

VARIABLES
  meClock,
  meRows,             (* what the radar stored about each filing             *)
  meCalls,            (* completed analyst attempts of each filing           *)
  meNow,              (* the time each measuring worker holds, or NoTime     *)
  meSets,             (* measurement receipts, one record per appended set   *)
  meLatencies,        (* research_filing_latency_receipts                    *)
  meRefused           (* the receipts that raised, with the reason           *)

meVars == <<meClock, meRows, meCalls, meNow, meSets, meLatencies, meRefused>>

NoTime == -1
MeTime == NoTime..MaxMeClock

(* failure_category timeout, and failure_path worker.processing_lease_expired *)
MeCallKind == {"answered", "timeout", "lease expired"}

NoMeRow == [discovered |-> NoTime, lineage |-> 0, known |-> NoTime, decided |-> NoTime,
            qualified |-> FALSE, deep |-> FALSE, published |-> NoTime, alerted |-> NoTime]

-----------------------------------------------------------------------------
(* Latency receipts *)

(* Time is in whole milliseconds: a duration with a fraction of one is       *)
(* truncated alike in Python and in SQL.  A whole one may be short of itself *)
(* once its seconds, a float, are multiplied by 1000: 1005 becomes 1004.     *)
Milliseconds(d) == IF d \in MeShort THEN d - 1 ELSE d

Durations(r) ==
  [discovery |-> IF r.known # NoTime THEN r.discovered - r.known ELSE NoTime,
   publication |-> IF r.published # NoTime THEN r.published - r.discovered ELSE NoTime,
   alert |-> IF r.known # NoTime /\ r.alerted # NoTime THEN r.alerted - r.known ELSE NoTime]

(* _expected_latency_values: a duration, or what is missing for it.          *)
LatencyValues(r) ==
  LET durations == Durations(r) IN [what \in DOMAIN durations |-> Milliseconds(durations[what])]

StampedNow(r, now) == now
StampedAt(r, now) == Max({r.decided, r.published, r.alerted})

LatencyReceipt(f, now) ==
  LET r == meRows[f]
  IN [key |-> <<f, r.lineage, r.published, r.alerted>>, filing |-> f,
      known |-> r.known, discovered |-> r.discovered,
      published |-> r.published, alerted |-> r.alerted,
      values |-> LatencyValues(r), measured |-> StampedAt(r, now)]

(* FilingLatencyReceipt.chronology_and_identity_reconcile                    *)
LatencyReconciles(l) ==
  /\ l.known # NoTime => l.known <= l.discovered
  /\ l.published # NoTime => l.published >= l.discovered
  /\ l.alerted # NoTime => l.published # NoTime /\ l.alerted >= l.published
  /\ l.measured >= Max({l.discovered, l.published, l.alerted})

(* validate_filing_latency_receipt: the trigger computes them exactly.       *)
DurationsMatch(l) == l.values = Durations(l)

(* _insert_filing_latency_receipt: the same key carries the same content.    *)
LatencyConflicts(l) == \E old \in meLatencies : old.key = l.key /\ old # l

LatencyRefusal(l) ==
  IF ~LatencyReconciles(l) THEN "inconsistent"
  ELSE IF ~DurationsMatch(l) THEN "truncated"
  ELSE IF LatencyConflicts(l) THEN "conflict" ELSE "none"

-----------------------------------------------------------------------------
(* Aggregate receipts *)

CoverageStart(from) == Max({from, MeEpoch})
Partial(now, window) == CoverageStart(now - window) > now - window

(* _empty_reason                                                             *)
EmptyReason(partial) == IF partial THEN "telemetry epoch incomplete" ELSE "no observations"

Unavailable(reason) == [availability |-> "unavailable", reason |-> reason, value |-> <<>>]
Measured(partial, value) ==
  [availability |-> IF partial THEN "partial" ELSE "available", reason |-> "none", value |-> value]

(* _ratio_or_unavailable and build_ratio_measurement                         *)
Ratio(numerator, denominator, partial) ==
  IF denominator > 0 THEN Measured(partial, <<numerator, denominator>>)
  ELSE Unavailable(EmptyReason(partial))

(* _nearest_rank                                                             *)
NearestRank(ordered, percentile) ==
  ordered[Max({1, (percentile * Len(ordered) + 99) \div 100})]

(* build_distribution_measurement, or why it cannot be built.                *)
Distribution(samples, partial, reason) ==
  LET ordered == SortSeq(samples, <)
  IN IF samples = <<>> THEN Unavailable(reason)
     ELSE Measured(partial, <<ordered[1], NearestRank(ordered, 50), NearestRank(ordered, 90),
                              NearestRank(ordered, 95), ordered[Len(ordered)], Len(ordered)>>)

Known(values) == SelectSeq(values, LAMBDA v : v # NoTime)

(* The calls and decisions that both queries and the window admit.           *)
CallsIn(from, now) ==
  UNION {{[filing |-> f, call |-> i] :
            i \in {j \in DOMAIN meCalls[f] : meCalls[f][j].at >= from /\ meCalls[f][j].at <= now}} :
         f \in MeFiling}

CallKind(c) == meCalls[c.filing][c.call].kind

DecidedIn(from, now) ==
  {f \in MeFiling : meRows[f].decided # NoTime /\ meRows[f].decided >= Max({from, MeEpoch})
                    /\ meRows[f].decided <= now}

(* _latency_measurements over the filings discovered in the window.          *)
LatencyMetric(filings, field, partial, missing) ==
  LET ordered == SetToSeq(filings)
  IN Distribution(Known([i \in 1..Len(ordered) |-> LatencyValues(meRows[ordered[i]])[field]]),
                  partial,
                  IF filings = {} THEN EmptyReason(partial) ELSE missing)

(* build_runtime_engineering_measurements for one window.                    *)
WindowMeasurements(now, window) ==
  LET from == CoverageStart(now - window)
      partial == Partial(now, window)
      calls == CallsIn(from, now)
      observed == {c \in calls : CallKind(c) # "lease expired"}
      timeouts == {c \in calls : CallKind(c) = "timeout"}
      decisions == DecidedIn(from, now)
      qualified == {f \in decisions : meRows[f].qualified}
      briefs == {f \in MeFiling : /\ meRows[f].published # NoTime
                                  /\ meRows[f].published >= from /\ meRows[f].published <= now}
      latencies == {f \in DecidedIn(MeEpoch, now) : meRows[f].discovered >= from}
  IN [reference |-> Unavailable("reference labels unavailable"),
      qwenCalls |-> Ratio(Cardinality(calls), Cardinality({f \in decisions : meRows[f].deep}), partial),
      evidence |-> Distribution([i \in 1..Cardinality(calls) |-> 1], partial, EmptyReason(partial)),
      tokens |-> IF \A c \in calls : CallKind(c) = "answered"
                 THEN Distribution([i \in 1..Cardinality(calls) |-> 1], partial, EmptyReason(partial))
                 ELSE Unavailable("actual token counts unavailable"),
      latency |-> Distribution([i \in 1..Cardinality(observed) |-> 1], partial, EmptyReason(partial)),
      timeouts |-> Ratio(Cardinality(timeouts), Cardinality(calls), partial),
      publications |-> Ratio(Cardinality({f \in qualified : meRows[f].published # NoTime}),
                             Cardinality(qualified), partial),
      deliveries |-> Ratio(Cardinality({f \in briefs : meRows[f].alerted # NoTime}), Cardinality(briefs), partial),
      toDiscovery |-> LatencyMetric(latencies, "discovery", partial, "first known unavailable"),
      toPublication |-> LatencyMetric(latencies, "publication", partial, "publication unavailable"),
      toAlert |-> LatencyMetric(latencies, "alert", partial, "first known unavailable")]

(* _gauge_measurements: the queue, and the sensors as one reading.           *)
Gauges(now, sensor) ==
  LET queue == {f \in MeFiling : meRows[f].discovered # NoTime /\ meRows[f].decided = NoTime}
      ages == {now - meRows[f].discovered : f \in queue}
  IN [depth |-> Measured(FALSE, <<Cardinality(queue)>>),
      oldest |-> IF queue = {} THEN Unavailable("no observations") ELSE Measured(FALSE, <<Max(ages)>>),
      sensor |-> IF sensor THEN Measured(FALSE, <<0>>) ELSE Unavailable("sensor unavailable")]

MeasurementSet(now, sensor) ==
  [at |-> now, windows |-> [w \in MeWindow |-> WindowMeasurements(now, w)], gauges |-> Gauges(now, sensor)]

(* EngineeringMeasurementReceipt: only calls per filing may exceed one.      *)
SetReconciles(set) ==
  \A w \in MeWindow : \A metric \in {"timeouts", "publications", "deliveries"} :
     LET m == set.windows[w][metric]
     IN m.availability # "unavailable" => m.value[1] <= m.value[2]

-----------------------------------------------------------------------------
(* Measuring *)

(* The cadence test of generate_engineering_measurements.                    *)
RecentSet(now) ==
  LET latest == Max({s.at : s \in meSets})
  IN meSets # {} /\ latest < now /\ now < latest + MeCadence

BeginMeasurement(w) ==
  /\ meNow[w] = NoTime /\ Cardinality(meSets) < MaxMeSets /\ meClock >= MeEpoch
  /\ ~RecentSet(meClock)
  /\ meNow' = [meNow EXCEPT ![w] = meClock]
  /\ UNCHANGED <<meClock, meRows, meCalls, meSets, meLatencies, meRefused>>

(* The rest of the transaction: it appends everything, or raises and appends *)
(* nothing, and the run is recorded as degraded.                             *)
CommitMeasurement(w, sensor) ==
  LET now == meNow[w]
      latencies == {LatencyReceipt(f, now) : f \in DecidedIn(MeEpoch, now)}
      set == MeasurementSet(now, sensor)
      refused == {x \in {[receipt |-> l, reason |-> LatencyRefusal(l)] : l \in latencies} :
                    x.reason # "none"}
                   \cup {[receipt |-> x, reason |-> "ratio"] : x \in {y \in {set} : ~SetReconciles(y)}}
  IN /\ now # NoTime
     /\ meNow' = [meNow EXCEPT ![w] = NoTime]
     /\ meRefused' = meRefused \cup refused
     /\ meSets' = IF refused = {} THEN meSets \cup {set} ELSE meSets
     /\ meLatencies' = IF refused = {} THEN meLatencies \cup latencies ELSE meLatencies
     /\ UNCHANGED <<meClock, meRows, meCalls>>

-----------------------------------------------------------------------------
(* What the radar stores in the meantime *)

MeDiscover(f) ==
  /\ meRows[f].discovered = NoTime
  /\ meRows' = [meRows EXCEPT ![f].discovered = meClock]
  /\ UNCHANGED <<meClock, meCalls, meNow, meSets, meLatencies, meRefused>>

(* An event lineage is appended; the latest evaluated one is joined.         *)
MeEvaluate(f, known) ==
  /\ meRows[f].discovered # NoTime /\ meRows[f].lineage < MaxMeLineages
  /\ known <= meRows[f].discovered
  /\ meRows' = [meRows EXCEPT ![f].lineage = @ + 1, ![f].known = known]
  /\ UNCHANGED <<meClock, meCalls, meNow, meSets, meLatencies, meRefused>>

MeAnalyse(f, kind) ==
  /\ meRows[f].discovered # NoTime /\ meRows[f].decided = NoTime
  /\ Len(meCalls[f]) < MaxMeCalls
  /\ meCalls' = [meCalls EXCEPT ![f] = Append(@, [at |-> meClock, kind |-> kind])]
  /\ UNCHANGED <<meClock, meRows, meNow, meSets, meLatencies, meRefused>>

(* The decision and, when the filing qualifies, its publication: one         *)
(* transaction.                                                              *)
MeDecide(f, qualified) ==
  /\ meRows[f].discovered # NoTime /\ meRows[f].decided = NoTime
  /\ meRows' = [meRows EXCEPT ![f].decided = meClock, ![f].qualified = qualified,
                              ![f].deep = (meCalls[f] # <<>>),
                              ![f].published = IF qualified THEN meClock ELSE NoTime]
  /\ UNCHANGED <<meClock, meCalls, meNow, meSets, meLatencies, meRefused>>

(* The sent row of a brief: its index admits one.  It has the time of the    *)
(* post, and may be stored later, by whichever process posted first.         *)
MeDeliver(f, posted) ==
  /\ meRows[f].published # NoTime /\ meRows[f].alerted = NoTime
  /\ posted >= meRows[f].published /\ posted <= meClock
  /\ meRows' = [meRows EXCEPT ![f].alerted = posted]
  /\ UNCHANGED <<meClock, meCalls, meNow, meSets, meLatencies, meRefused>>

MeTick ==
  /\ meClock < MaxMeClock
  /\ meClock' = meClock + 1
  /\ UNCHANGED <<meRows, meCalls, meNow, meSets, meLatencies, meRefused>>

MeInit ==
  /\ meClock = 0
  /\ meRows = [f \in MeFiling |-> NoMeRow]
  /\ meCalls = [f \in MeFiling |-> <<>>]
  /\ meNow = [w \in MeWorker |-> NoTime]
  /\ meSets = {} /\ meLatencies = {} /\ meRefused = {}

MeNext ==
  \/ MeTick
  \/ \E w \in MeWorker : BeginMeasurement(w) \/ \E sensor \in MeSensor : CommitMeasurement(w, sensor)
  \/ \E f \in MeFiling :
       \/ MeDiscover(f)
       \/ \E known \in {NoTime, meRows[f].discovered} : MeEvaluate(f, known)
       \/ \E kind \in MeCallKind : MeAnalyse(f, kind)
       \/ \E qualified \in BOOLEAN : MeDecide(f, qualified)
       \/ \E posted \in 0..meClock : MeDeliver(f, posted)

MeSpec == MeInit /\ [][MeNext]_meVars

-----------------------------------------------------------------------------
(* Properties *)

MeTypeOK ==
  /\ meClock \in 0..MaxMeClock
  /\ \A f \in MeFiling : /\ meRows[f].discovered \in MeTime /\ meRows[f].alerted \in MeTime
                         /\ meRows[f].lineage \in 0..MaxMeLineages
                         /\ Len(meCalls[f]) <= MaxMeCalls
  /\ meNow \in [MeWorker -> MeTime]

(* Two latency receipts of one filing agree on every event that both know,   *)
(* and the one measured later knows all that the other knew.                 *)
LatenciesAccumulate ==
  \A a, b \in meLatencies :
     a.filing = b.filing /\ a.measured < b.measured =>
       /\ b.discovered = a.discovered
       /\ a.published # NoTime => b.published = a.published
       /\ a.alerted # NoTime => b.alerted = a.alerted

(* A receipt that claims a whole window was taken over nothing but time after *)
(* the epoch, and the shorter window never counts more than the longer one.   *)
WindowsAreCovered ==
  \A s \in meSets : \A w \in MeWindow : \A metric \in {"qwenCalls", "timeouts", "publications", "deliveries"} :
     LET m == s.windows[w][metric]
     IN /\ m.availability = "available" \/ m.reason = "no observations" => s.at - w >= MeEpoch
        /\ \A long \in MeWindow :
             w < long /\ m.availability # "unavailable" =>
               /\ s.windows[long][metric].availability # "unavailable"
               /\ m.value[2] <= s.windows[long][metric].value[2]

(* Nothing but a truncated duration is ever refused: what the radar stores   *)
(* between two measurements makes no receipt inconsistent and none conflict  *)
(* with the one stored earlier under the same key.                           *)
OnlyTruncationIsRefused ==
  \A x \in meRefused : /\ x.reason = "truncated"
                        /\ \E d \in Range(Durations(x.receipt)) : d \in MeShort

(* But that one refusal is for good: once a filing was decided whose time to *)
(* publication is truncated, no later set is stored, because every set reads *)
(* every filing decided since the epoch.                                     *)
TruncationEndsTheSets ==
  \A s \in meSets, f \in MeFiling :
     meRows[f].decided \in MeEpoch..(s.at - 1) /\ meRows[f].published # NoTime =>
       meRows[f].published - meRows[f].discovered \notin MeShort

(* Stored latencies are exact and only accumulate, no window claims time     *)
(* before the telemetry epoch, and the hourly set is blocked by a truncated  *)
(* duration and by nothing else (generate_engineering_measurements; "Stable  *)
(* replay is exact and idempotent", docs/FRESHNESS_EFFICIENCY_FOCUS_GATE.md). *)
MeasurementsAreHonest ==
  /\ \A l \in meLatencies : DurationsMatch(l)
  /\ OnlyTruncationIsRefused /\ TruncationEndsTheSets
  /\ LatenciesAccumulate /\ WindowsAreCovered

=============================================================================
