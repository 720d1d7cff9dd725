--------------------------- MODULE IndicatorPanes ---------------------------
(***************************************************************************)
(* The indicators of the chart: the options the user edits                 *)
(* (IndicatorPanel), which are kept in localStorage, and what the          *)
(* indicator manager draws of them (createCandleIndicatorManagerV2): lines *)
(* and bands over the candles, and panes below them for the volume, RSI    *)
(* and MACD.                                                               *)
(*                                                                         *)
(* An indicator has one value, for all of its fields; a period may be a    *)
(* fraction.  Of the candles the model keeps whether there are none, one,  *)
(* or more than every period.  The chart library is external: a series put *)
(* beyond the last pane gets a new one, a pane that lost its last series   *)
(* is gone.                                                                *)
(***************************************************************************)
EXTENDS Integers, FiniteSets, Sequences

CONSTANTS
  Lines,        \* moving averages of the price: the default ones and added ones
  DefaultLines, \* the ones of DEFAULT_INDICATOR_OPTIONS
  FirstLine,    \* the first of them, which cannot be removed
  Bands,        \* bollinger, envelope
  Edited,       \* bound: indicators whose fields are edited
  MaxEdits      \* bound: of them, those with other values than the default

VARIABLES
  options,  \* what the user configured; localStorage holds the same
  candles,  \* the candles of the series: none, one, many
  drawn,    \* lineSeries, bandsSeries, ichimokuEntry: the value drawn, or no
  panes,    \* panes below the candles: their series and stretch factor
  volPane,  \* volumePaneIdx; 0 for null
  page,     \* up; dead once an effect threw
  late,     \* history: the volume's pane was made when there were others
  stale     \* history: bands edited while they were drawn

drawing == <<drawn, panes, volPane, late, stale>>
paneVars == <<options, candles, page, drawing>>

Others      == {"ema", "ichimoku"} \cup Bands
Overlays    == Lines \cup Others
Lower       == {"volume", "rsi", "macd"}
Indicators  == Overlays \cup Lower
Values      == {"default", "other", "fraction"}

DEFAULT == [lines |-> DefaultLines, ma |-> TRUE,
            on    |-> DefaultLines \cup {"bollinger", "volume"},
            value |-> [i \in Indicators |-> "default"]]

NothingDrawn == [i \in Overlays |-> "no"]

PanesInit ==
  /\ options = DEFAULT /\ candles = "none" /\ page = "up"
  /\ drawn = NothingDrawn /\ panes = <<>> /\ volPane = 0
  /\ late = FALSE /\ stale = {}

-----------------------------------------------------------------------------
(* The chart library                                                        *)

Has(ps, s) == \E k \in DOMAIN ps : s \in ps[k].series

\* addSeries
With(ps, k, s) ==
  IF k <= Len(ps) THEN [ps EXCEPT ![k].series = @ \cup {s}]
  ELSE Append(ps, [series |-> {s}, weight |-> "new"])

\* removeSeries, removeEmptyPanes
Without(ps, s) ==
  LET after(k) == [ps[k] EXCEPT !.series = @ \ {s}]
      kept[k \in 0..Len(ps)] ==
        IF k = 0 THEN <<>>
        ELSE IF after(k).series = {} THEN kept[k - 1] ELSE Append(kept[k - 1], after(k))
  IN kept[Len(ps)]

-----------------------------------------------------------------------------
(* apply                                                                    *)

Fractional(o, i) == i \in o.on /\ o.value[i] = "fraction"

\* calcEma, calcRsi, calcMacd: none of a series shorter than the period; a
\* candle at a fraction is undefined.
SeriesThrows(o, n) == n = "many" /\ \E i \in {"ema", "rsi", "macd"} : Fractional(o, i)

\* One candle has no interval to guess the times beyond it from.
CloudThrows(o, n) == "ichimoku" \in o.on /\ (n = "one" \/ Fractional(o, "ichimoku"))

\* calcVolumeSma subtracts the value of the candle before the period.
VolumeThrows(o, n) == n = "many" /\ o.ma /\ Fractional(o, "volume")

Throws(o, n) == SeriesThrows(o, n) \/ CloudThrows(o, n) \/ VolumeThrows(o, n)

\* ensureLineSeries: the data are set again.
LineDrawn(o, i) == o.value[i]
\* ensureBandsSeries returns the bands that are there as they are.
BandDrawn(o, i) == IF drawn[i] = "no" THEN o.value[i] ELSE drawn[i]
\* ensureIchimokuEntry: made once, colours and data set again.
CloudDrawn(o, i) == o.value[i]

\* applyUpperConfig
OverlaysDrawn(o) ==
  [i \in Overlays |-> IF i \notin o.on THEN "no"
                      ELSE IF i \in Bands THEN BandDrawn(o, i)
                      ELSE IF i = "ichimoku" THEN CloudDrawn(o, i)
                      ELSE LineDrawn(o, i)]

\* ensureVolumeSeries, removeVolumeSeries
VolumeAt(o, ps) ==
  IF "volume" \notin o.on THEN 0
  ELSE IF Has(ps, "volume") THEN volPane ELSE Len(ps) + 1
VolumePanes(o, ps) ==
  LET shown == With(ps, VolumeAt(o, ps), "volume")
      there == IF Has(ps, "volume") THEN ps ELSE shown
  IN IF "volume" \notin o.on THEN Without(Without(ps, "ma"), "volume")
     ELSE IF ~o.ma THEN Without(there, "ma")
     ELSE IF Has(there, "ma") THEN there ELSE With(there, VolumeAt(o, ps), "ma")

\* ensureRsiPane, ensureMacdPane, removeLowerPane
OscillatorPanes(o, ps) ==
  LET Step(qs, s) == IF s \notin o.on THEN Without(qs, s)
                     ELSE IF Has(qs, s) THEN qs ELSE With(qs, Len(qs) + 1, s)
  IN Step(Step(ps, "rsi"), "macd")

\* rebalancePanes: by position.
Rebalanced(o, ps) ==
  LET v == IF "volume" \in o.on THEN 1 ELSE 0
      n == Cardinality({"rsi", "macd"} \cap o.on)
  IN [k \in DOMAIN ps |->
        IF k <= v THEN [ps[k] EXCEPT !.weight = "volume"]
        ELSE IF k <= v + n THEN [ps[k] EXCEPT !.weight = "lower"] ELSE ps[k]]

\* Mutant: the oscillators' panes are made before the volume's.
PanesOscillatorsFirst(o) == Rebalanced(o, VolumePanes(o, OscillatorPanes(o, panes)))
PanesDrawn(o) == Rebalanced(o, OscillatorPanes(o, VolumePanes(o, panes)))

Apply(o, n) ==
  IF Throws(o, n) THEN page' = "dead" /\ UNCHANGED drawing
  ELSE /\ drawn' = OverlaysDrawn(o)
       /\ panes' = PanesDrawn(o) /\ volPane' = VolumeAt(o, panes)
       /\ late' = ("volume" \in o.on /\ IF Has(panes, "volume") THEN late ELSE panes # <<>>)
       /\ stale' = {b \in Bands \cap o.on :
                      drawn[b] # "no" /\ (b \in stale \/ o.value[b] # options.value[b])}
       /\ UNCHANGED page

-----------------------------------------------------------------------------
(* The user                                                                 *)

\* The effects on indicatorOptions: saved, then applied to the candles there.
Change(o) ==
  /\ page = "up" /\ o # options
  /\ Cardinality({i \in Indicators : o.value[i] # "default"}) <= MaxEdits
  /\ options' = o
  /\ IF candles = "none" THEN UNCHANGED <<page, drawing>> ELSE Apply(o, candles)
  /\ UNCHANGED candles

\* toggleKey: the averages all at once.
ToggleAverages ==
  Change([options EXCEPT !.on = IF @ \cap Lines # {} THEN @ \ Lines ELSE @ \cup options.lines])
Toggle(i) == Change([options EXCEPT !.on = IF i \in @ THEN @ \ {i} ELSE @ \cup {i}])

\* addSma: a new id, its values not used yet.
AddSma(l) ==
  /\ l \in Lines \ (options.lines \cup DefaultLines)
  /\ Change([options EXCEPT !.lines = @ \cup {l}, !.on = @ \cup {l}])

RemoveSma(l) ==
  /\ l \in options.lines \ {FirstLine}
  /\ Change([options EXCEPT !.lines = @ \ {l}, !.on = @ \ {l}, !.value[l] = "default"])

\* The right side of the panel: the indicators whose fields it shows.
AverageFields == options.lines \cup {"ema"}
BandFields    == Bands
CloudFields   == {"ichimoku"}
LowerFields   == Lower

\* updateConfig
CommitValue(i, v) ==
  /\ i \in AverageFields \cup BandFields \cup CloudFields \cup LowerFields
  /\ Change([options EXCEPT !.value[i] = v])

SwitchMa == Change([options EXCEPT !.ma = ~@])
Reset == Change(DEFAULT)

\* The first candles of a market or a timeframe are drawn.
DataArrives(n) ==
  /\ page = "up" /\ candles' = n
  /\ Apply(options, n)
  /\ UNCHANGED options

\* The saved options with the default ones missing from them, a blank chart.
Reload ==
  LET missing == DefaultLines \ options.lines
  IN /\ options' = [options EXCEPT !.lines = @ \cup missing, !.on = @ \cup missing]
     /\ candles' = "none" /\ page' = "up"
     /\ drawn' = NothingDrawn /\ panes' = <<>> /\ volPane' = 0
     /\ late' = FALSE /\ stale' = {}

PanesNext ==
  \/ \E i \in Indicators \ Lines : Toggle(i)
  \/ \E l \in Lines : AddSma(l) \/ RemoveSma(l)
  \/ \E i \in Edited, v \in Values : CommitValue(i, v)
  \/ \E n \in {"one", "many"} : DataArrives(n)
  \/ ToggleAverages \/ SwitchMa \/ Reset \/ Reload

-----------------------------------------------------------------------------
(* Properties                                                               *)

Shown == page = "up" /\ candles # "none"
PanesOf(s) == {k \in DOMAIN panes : s \in panes[k].series}

LinesAsConfigured ==
  \A i \in Overlays :
    /\ drawn[i] # "no" <=> i \in options.on
    /\ i \in options.on \ stale => drawn[i] = options.value[i]

\* Each indicator of the lower part has one pane while it is on, and none while
\* it is off, the volume's average is there as configured; and if the volume's
\* pane was not made behind others, it is the first, its average is beside it,
\* an oscillator is alone in its pane, and each pane has its share of the height.
PanesAsConfigured ==
  /\ \A s \in Lower : Cardinality(PanesOf(s)) = IF s \in options.on THEN 1 ELSE 0
  /\ "volume" \in options.on => Cardinality(PanesOf("ma")) = IF options.ma THEN 1 ELSE 0
  /\ ~late => \A k \in DOMAIN panes :
       \/ panes[k].series \in {{"rsi"}, {"macd"}} /\ panes[k].weight = "lower"
       \/ /\ k = 1 /\ panes[k].weight = "volume"
          /\ panes[k].series = IF options.ma THEN {"volume", "ma"} ELSE {"volume"}

DeathIsExplained ==
  page = "dead" =>
    \/ \E i \in options.on : options.value[i] = "fraction"
    \/ candles = "one" /\ "ichimoku" \in options.on

\* Whatever was switched, added, removed or edited in whatever order, the lines
\* over the candles and the panes below them are those of the options, with
\* their values; only bands keep the ones they were first drawn with.  The page
\* dies only of a period that is no whole number, or of the cloud over a single
\* candle.
DrawnAsConfigured ==
  /\ Shown => LinesAsConfigured /\ PanesAsConfigured
  /\ DeathIsExplained
=============================================================================
