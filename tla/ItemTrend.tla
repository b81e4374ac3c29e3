----------------------------- MODULE ItemTrend ------------------------------
(***************************************************************************)
(* The trend of the last hour of one item: the samples that uploads and    *)
(* heartbeats of the sync client leave in the database, one for each five  *)
(* minutes, and what the browser makes of them: the change of the period   *)
(* and the points of the sparkline.                                        *)
(*                                                                         *)
(* now counts the buckets of five minutes.  A save is known by the         *)
(* quantity of the item in it.                                             *)
(***************************************************************************)
EXTENDS Integers, FiniteSets, FiniteSetsExt, Functions

CONSTANTS
  Quantities,
  Axis,       \* how many buckets are shown
  MaxNow,     \* bound: the last bucket
  None

TrendAssumption == Quantities \subseteq Nat /\ Axis \in Nat \ {0, 1} /\ None \notin Int

VARIABLES
  now,
  stock,      \* what is in the save on the player's computer
  synced,     \* the save that the client uploaded last
  latest,     \* the quantity in the latest item snapshot
  samples,    \* bucket |-> quantity
  observed,   \* auxiliary: bucket |-> the stock when the client last saw the save in it
  unparsed    \* auxiliary: there was an upload without items

vars == <<now, stock, synced, latest, samples, observed, unparsed>>

Put(f, b, v) == [x \in DOMAIN f \cup {b} |-> IF x = b THEN v ELSE f[x]]

Init ==
  /\ now = 1
  /\ stock \in Quantities
  /\ synced = None /\ latest = None
  /\ samples = <<>> /\ observed = <<>>
  /\ unparsed = FALSE

-----------------------------------------------------------------------------
Tick ==
  /\ now < MaxNow
  /\ now' = now + 1
  /\ UNCHANGED <<stock, synced, latest, samples, observed, unparsed>>

Play ==
  /\ \E q \in Quantities \ {stock} : stock' = q
  /\ UNCHANGED <<now, synced, latest, samples, observed, unparsed>>

\* sample_latest_item_inventory: the last sample of a bucket replaces those before it.
Sample(quantity) ==
  samples' = IF quantity = None THEN samples ELSE Put(samples, now, quantity)

\* The save is new to the client: an upload whose items could be parsed publishes them.
Upload ==
  /\ stock # synced
  /\ synced' = stock /\ latest' = stock
  /\ Sample(stock)
  /\ observed' = Put(observed, now, stock)
  /\ UNCHANGED <<now, stock, unparsed>>

\* The pals could be parsed and the items could not: the item snapshot stays.
UploadWithoutItems ==
  /\ stock # synced
  /\ synced' = stock
  /\ observed' = Put(observed, now, stock)
  /\ unparsed' = TRUE
  /\ UNCHANGED <<now, stock, latest, samples>>

\* The save is the one that was uploaded last.
Heartbeat ==
  /\ stock = synced
  /\ Sample(latest)
  /\ observed' = Put(observed, now, stock)
  /\ UNCHANGED <<now, stock, synced, latest, unparsed>>

Next == Tick \/ Play \/ Upload \/ UploadWithoutItems \/ Heartbeat

Spec == Init /\ [][Next]_vars

-----------------------------------------------------------------------------
\* trend_1h: one entry for each bucket up to now, null where there is no sample.
Trend(from) ==
  [n \in 1..Axis |->
    LET b == now - Axis + n IN IF b \in DOMAIN from THEN from[b] ELSE None]

Seen(trend) == {n \in DOMAIN trend : trend[n] # None}

\* Mutation: the two last samples, whatever lies between them.
PeriodChangeAcross(trend) ==
  IF Cardinality(Seen(trend)) < 2 THEN None
  ELSE LET last == Max(Seen(trend))
       IN trend[last] - trend[Max(Seen(trend) \ {last})]

\* periodChange
PeriodChange(trend) ==
  IF Seen(trend) = {} THEN None
  ELSE LET last == Max(Seen(trend))
       IN IF last - 1 \in Seen(trend) THEN trend[last] - trend[last - 1] ELSE None

\* backfillLeadingSamples: what is missing at the start is drawn as the first sample, and
\* an hour without a sample as the quantity of now.
Displayed(trend) ==
  [n \in DOMAIN trend |->
    IF Seen(trend) = {} THEN latest
    ELSE IF n < Min(Seen(trend)) THEN trend[Min(Seen(trend))]
    ELSE trend[n]]

\* The points of the line, which are joined from left to right.
Points == {<<n, Displayed(Trend(samples))[n]>> : n \in Seen(Displayed(Trend(samples)))}

-----------------------------------------------------------------------------
(***************************************************************************)
(* Properties                                                              *)
(***************************************************************************)
\* When all items could be parsed, a change is shown if and only if the client saw the
\* save in the last bucket it was there at all and in the bucket before, and it is the
\* change of the stock between them: never one across a gap in the syncs.
ChangeIsObserved ==
  LET seen == Seen(Trend(observed))
      change == {Trend(observed)[n] - Trend(observed)[n - 1] :
                   n \in {k \in seen : k - 1 \in seen /\ k = Max(seen)}}
  IN ~unparsed => change = {PeriodChange(Trend(samples))} \ {None}

\* Every point of the line is a sample.
NoInventedPoint == \A p \in Points : Trend(samples)[p[1]] # None

\* A sample that is written says what the client has just seen.
SampleIsObserved == [][samples' # samples => samples'[now] = observed'[now]]_vars
=============================================================================
