--------------------------- MODULE ScrollingGraph ---------------------------
(***************************************************************************)
(* The graph that the dock apps draw (apps/wlm_graph_shared.c): a ring of   *)
(* samples, one per column, and the pixels that are scrolled by a column    *)
(* with each new sample instead of being drawn anew.                        *)
(*                                                                          *)
(* A graph is a record: its width and height, the samples from the newest   *)
(* to the oldest (sample_current and its prev links), the pixels by column  *)
(* and row with <<0, 0>> at the top left, y_min, and the age of             *)
(* sample_peak (0: none, 1: the newest).  y_min_prev equals y_min whenever  *)
(* a function of the file returns, and is left out.                         *)
(***************************************************************************)
EXTENDS Integers, Sequences, FiniteSets, SequencesExt

BLACK == 0
LINE == -1

NoSample == [values |-> <<>>, peak |-> 0]

(* Topmost row of a usage of 1 to 255; a usage of 0 has no bar.             *)
UsageToY(usage, height) == (height - 1) - ((usage * (height - 1)) \div 255)
LineOf(usage, height) == IF usage = 0 THEN height ELSE UsageToY(usage, height)

Clamped(n) == IF n > 255 THEN 255 ELSE n

(* The sums of the first values.                                            *)
Total(values) ==
    LET Sum[n \in 0 .. Len(values)] ==
            IF n = 0 THEN 0 ELSE Sum[n - 1] + values[n]
    IN  Sum

(* Where the i-th value's bar ends, and where the highest one does.         *)
Level(values, i, mode) ==
    IF mode = "stacked" THEN Clamped(Total(values)[i]) ELSE values[i]
ComputePeak(values, mode) ==
    IF mode = "stacked" THEN Clamped(Total(values)[Len(values)])
    ELSE Max({0} \cup Range(values))

NewSample(values, mode) ==
    [values |-> values, peak |-> ComputePeak(values, mode)]

(* Color of a row that "count" of "num" bars cover.                         *)
Intensity(count, num) ==
    CASE count = 0 -> BLACK
      [] count > 0 /\ num = 1 -> 256
      [] OTHER -> 1 + ((count - 1) * 255) \div (num - 1)

Covering(values, y, height, mode) ==
    Cardinality({i \in DOMAIN values :
        values[i] # 0 /\ UsageToY(Level(values, i, mode), height) <= y})

(* What a column shows of its sample at row y and below the peak's line.    *)
BarPixel(sample, y, height, mode) ==
    IF y = LineOf(sample.peak, height) THEN LINE
    ELSE Intensity(Covering(sample.values, y, height, mode), Len(sample.values))

(* Draws the bars, and clears what is above them up to the first black row. *)
ColumnRender(pixels, sample, x, height, mode) ==
    LET line == LineOf(sample.peak, height) IN
    [p \in DOMAIN pixels |->
        CASE p[1] # x -> pixels[p]
          [] p[1] = x /\ p[2] >= line -> BarPixel(sample, p[2], height, mode)
          [] OTHER -> IF \A y \in p[2] .. line - 1 : pixels[<<x, y>>] # BLACK
                      THEN BLACK ELSE pixels[p]]

(* Connects the peaks of column x and the one before it, on the lower one.  *)
Connect(pixels, curr, prev, x, height) ==
    LET column == IF curr < prev THEN x ELSE x - 1
        high == IF curr < prev THEN prev ELSE curr
        low == IF curr < prev THEN curr ELSE prev
        rows == LineOf(high, height) + 1 .. LineOf(low, height) - 1
    IN  IF curr = prev THEN pixels
        ELSE [p \in DOMAIN pixels |->
                 IF p[1] = column /\ p[2] \in rows THEN LINE ELSE pixels[p]]

ScrollLeft(pixels, yStart, width) ==
    [p \in DOMAIN pixels |->
        IF p[2] >= yStart /\ p[1] < width - 1 THEN pixels[<<p[1] + 1, p[2]>>]
        ELSE pixels[p]]

(* The highest sample, of several the newest.                               *)
YMinFromSamples(g) ==
    LET Y(i) == LineOf(g.samples[i].peak, g.height)
        top == Min({Y(i) : i \in 1 .. g.width})
    IN  [g EXCEPT !.yMin = top,
                  !.peakAge = IF top = g.height THEN 0
                              ELSE Min({i \in 1 .. g.width : Y(i) = top})]

(* From the newest to the oldest, right to left: column, then connector.  A  *)
(* column gets the connector from the one on its right before it is drawn,  *)
(* and the one to its left after it.                                        *)
RebuiltColumn(g, x, mode) ==
    LET i == g.width - x
        Connected(pixels, k) == Connect(pixels, g.samples[k].peak,
                                   g.samples[k + 1].peak, g.width - k, g.height)
        before == IF i = 1 THEN g.pixels ELSE Connected(g.pixels, i - 1)
        drawn == ColumnRender(before, g.samples[i], x, g.height, mode)
    IN  IF i = g.width THEN drawn ELSE Connected(drawn, i)

RebuildFromSamples(g, mode) ==
    IF Head(g.samples).values = <<>>
    THEN [g EXCEPT !.pixels = [p \in DOMAIN @ |-> BLACK],
                   !.yMin = g.height, !.peakAge = 0]
    ELSE YMinFromSamples([g EXCEPT !.pixels =
             [p \in DOMAIN @ |-> RebuiltColumn(g, p[1], mode)[p]]])

(* "leftovers" is what malloc() returned for the pixels.                    *)
BuffersResize(size, leftovers) ==
    [width |-> size, height |-> size,
     samples |-> [i \in 1 .. size |-> NoSample],
     pixels |-> leftovers, yMin |-> size, peakAge |-> 0]

(* The slot of the oldest sample is used for the new one.                   *)
Pushed(g, sample) == <<sample>> \o SubSeq(g.samples, 1, g.width - 1)

(* A plausible slip: a new peak is not noticed before the next rescan.      *)
UpdateByRescanOnly(g, sample, mode) ==
    LET x == g.width - 1
        drawn == ColumnRender(ScrollLeft(g.pixels, g.yMin, g.width),
                              sample, x, g.height, mode)
        moved == [g EXCEPT !.samples = Pushed(g, sample),
                    !.pixels = Connect(drawn, sample.peak,
                                       g.samples[1].peak, x, g.height)]
    IN  IF g.peakAge \in {0, g.width} THEN YMinFromSamples(moved)
        ELSE [moved EXCEPT !.peakAge = @ + 1]

UpdateWithSample(g, sample, mode) ==
    LET x == g.width - 1
        line == LineOf(sample.peak, g.height)
        drawn == ColumnRender(ScrollLeft(g.pixels, g.yMin, g.width),
                              sample, x, g.height, mode)
        moved == [g EXCEPT !.samples = Pushed(g, sample),
                    !.pixels = Connect(drawn, sample.peak,
                                       g.samples[1].peak, x, g.height)]
    IN  CASE g.peakAge = g.width -> YMinFromSamples(moved)
          [] g.peakAge # g.width /\ line <= g.yMin ->
                [moved EXCEPT !.yMin = line, !.peakAge = 1]
          [] OTHER -> [moved EXCEPT !.peakAge = IF @ = 0 THEN 0 ELSE @ + 1]
=============================================================================
