------------------------------- MODULE DockApp -------------------------------
(***************************************************************************)
(* A dock app that shows a graph: wlmnetgraph, whose samples are scaled to   *)
(* the highest rate and scaled anew from a history of rates when the scale   *)
(* changes (apps/wlmnetgraph.c), or wlmmemgraph with stacked values; the     *)
(* double buffer it draws into (wlclient/dblbuf.c) and what it knows of the  *)
(* compositor.                                                               *)
(***************************************************************************)
EXTENDS ScrollingGraph

CONSTANTS
    Sizes,           \* Widths of the square icon, less the bezel's margin.
    InitialSize,     \* The base icon size, which the graph has at the start.
    Rates,           \* Pairs of received and transmitted bytes per interval.
    StackedValues,   \* Values that wlmmemgraph may read.
    Scales,          \* _scales
    PeakMin, PeakDecayDivisor, PeakDecayThreshold,
    HistoryMax,      \* WLM_GRAPH_REGENERATE_HISTORY_MAX
    MaxFrames        \* Bound: frame callbacks the compositor has yet to call.

ASSUME DockAppAssumption ==
    /\ InitialSize \in Sizes
    /\ \A s \in Sizes : s \in Nat /\ s >= 2
    /\ HistoryMax \in Nat /\ HistoryMax >= 2
    /\ IsFiniteSet(Rates) /\ Rates \subseteq Nat \X Nat
    /\ StackedValues \subseteq Seq(0 .. 255)
    /\ PeakMin \in Nat \ {0}
    /\ PeakDecayDivisor \in Nat \ {0} /\ PeakDecayThreshold \in Nat

VARIABLES
    mode,     \* accumulate_mode of the app's configuration
    graph,    \* The graph, see ScrollingGraph.
    net,      \* netgraph_state_t: peak, scale, history, index, num
    dblbuf,   \* wlmcl_dblbuf_t, and the compositor's part of it
    orphans,  \* Frame callbacks whose double buffer was destroyed, by whether
              \* it was armed then.
    crashed   \* A sample's values were used that there are none of, or pixels.
vars == <<mode, graph, net, dblbuf, orphans, crashed>>

-----------------------------------------------------------------------------
(* The double buffer.  "held" are the buffers the compositor has not         *)
(* released, "attached" the one it was given last, "frames" the callbacks it  *)
(* has yet to call, and "stale" whether the graph changed since the last draw.*)

Buffers == 1 .. 2

NoDblbuf == [exists |-> FALSE, released |-> <<>>, frame_is_due |-> FALSE,
             callback |-> FALSE, held |-> {}, attached |-> 0, frames |-> 0,
             stale |-> TRUE]

(* A plausible slip: the buffer drawn into stays among the released ones.    *)
CallbackKeepingBuffer(d) ==
    IF ~d.callback \/ ~d.frame_is_due \/ d.released = <<>> THEN d
    ELSE [d EXCEPT !.callback = FALSE, !.frame_is_due = FALSE,
                   !.held = @ \cup {Last(d.released)},
                   !.attached = Last(d.released),
                   !.frames = @ + 1, !.stale = FALSE]

CallbackIfReady(d) ==
    IF ~d.callback \/ ~d.frame_is_due \/ d.released = <<>> THEN d
    ELSE [d EXCEPT !.callback = FALSE, !.frame_is_due = FALSE,
                   !.released = Front(@),
                   !.held = @ \cup {Last(d.released)},
                   !.attached = Last(d.released),
                   !.frames = @ + 1, !.stale = FALSE]

RegisterReadyCallback(d) == CallbackIfReady([d EXCEPT !.callback = TRUE])

(* All that it waits for is that a frame is due.                             *)
Armed(d) == d.callback /\ d.released # <<>>

(* Both buffers start as released, in the order of their creation.           *)
NewDblbuf == [NoDblbuf EXCEPT !.exists = TRUE, !.released = <<1, 2>>,
                              !.frame_is_due = TRUE]

(* A plausible slip: only a registration looks whether a frame can be drawn. *)
FrameIsDueOnly(d) == [d EXCEPT !.frame_is_due = TRUE]

FrameIsDue(d) == CallbackIfReady([d EXCEPT !.frame_is_due = TRUE])

BufferReleased(d, b) ==
    CallbackIfReady([d EXCEPT !.held = @ \ {b}, !.released = Append(@, b)])

-----------------------------------------------------------------------------
(* wlmnetgraph.                                                              *)

ScaleIndexCeil(rate) ==
    LET above == {i \in DOMAIN Scales : Scales[i] >= rate} IN
    IF above = {} THEN Len(Scales) ELSE Min(above)

(* What both directions have in common is not limited to the peak, which may *)
(* be below older rates, but to the 8 bits of a value.                        *)
Scaled(rate, peak) ==
    LET Of(n) == (Min({n, peak}) * 255) \div peak IN
    <<Of(rate[1]), Of(rate[2]), ((Min({rate[1], rate[2]}) * 255) \div peak) % 256>>

(* _stats_read_fn: the history, the peak, which decays, and the scale.       *)
StatsRead(n, rate) ==
    LET total == rate[1] + rate[2]
        followed == CASE total > n.peak -> total
                      [] total <= n.peak /\ n.peak > PeakDecayThreshold ->
                            n.peak - n.peak \div PeakDecayDivisor
                      [] OTHER -> n.peak
        peak == Max({followed, PeakMin})
    IN  [peak |-> peak,
         scale |-> IF peak = n.peak THEN n.scale ELSE ScaleIndexCeil(peak),
         history |-> [n.history EXCEPT ![n.index] = rate],
         index |-> (n.index + 1) % HistoryMax,
         num |-> Min({n.num + 1, HistoryMax})]

(* A plausible slip: the current sample's rates are not skipped.             *)
HistoryIncludingCurrent(n, i) ==
    n.history[(n.index + HistoryMax - 1 - (i - 1)) % HistoryMax]

(* Rates of the i-th sample before the current one.                          *)
HistoryOf(n, i) == n.history[(n.index + HistoryMax - 2 - (i - 1)) % HistoryMax]

(* _regenerate_fn, for the samples before the current one, newest first.     *)
NumRegenerated(n, samples) ==
    IF n.num > 1 THEN Min({Len(samples), n.num - 1}) ELSE 0
Regenerated(n, samples) ==
    [i \in DOMAIN samples |->
        NewSample(IF i <= NumRegenerated(n, samples)
                  THEN Scaled(HistoryOf(n, i), n.peak)
                  ELSE [v \in DOMAIN samples[i].values |-> 0], mode)]
RegeneratesMissing(n, samples) ==
    \E i \in 1 .. NumRegenerated(n, samples) : samples[i].values = <<>>

-----------------------------------------------------------------------------
(* Bound: what malloc() leaves in the pixels is one of these pictures.       *)
Leftovers(size) ==
    LET Picture(Color(_)) ==
            [p \in (0 .. size - 1) \X (0 .. size - 1) |-> Color(p[2])]
        Black(y) == BLACK
        Lines(y) == IF y % 2 = 0 THEN LINE ELSE BLACK
    IN  {Picture(Black), Picture(Lines)}

(* wlmnetgraph reads once before it starts, which leaves scale_index behind. *)
Init ==
    /\ mode \in {"independent", "stacked"}
    /\ \E l \in Leftovers(InitialSize) :
          graph = RebuildFromSamples(BuffersResize(InitialSize, l), mode)
    /\ net \in [peak : {0}, scale : ScaleIndexCeil(PeakMin) .. Len(Scales),
                history : {[i \in 0 .. HistoryMax - 1 |-> <<0, 0>>]},
                index : {0}, num : {0}]
    /\ dblbuf = NoDblbuf
    /\ orphans = [armed \in BOOLEAN |-> 0]
    /\ crashed = FALSE

(* A new sample of the app: scrolled in, or the graph regenerated.           *)
NetSampleUpdate(rate) ==
    LET read == StatsRead(net, rate)
        sample == NewSample(Scaled(rate, read.peak), mode)
        older == SubSeq(graph.samples, 1, graph.width - 1)
    IN  /\ mode = "independent"
        /\ net' = read
        /\ IF read.scale = net.scale
           THEN /\ graph' = UpdateWithSample(graph, sample, mode)
                /\ UNCHANGED crashed
           ELSE /\ crashed' = RegeneratesMissing(read, older)
                /\ graph' = IF crashed' THEN graph
                            ELSE RebuildFromSamples(
                              [graph EXCEPT !.samples =
                                 <<sample>> \o Regenerated(read, older)], mode)

MemSampleUpdate(values) ==
    /\ mode = "stacked"
    /\ graph' = UpdateWithSample(graph, NewSample(values, mode), mode)
    /\ UNCHANGED <<net, crashed>>

(* _wlm_graph_timer_callback.  A sample that cannot be read is skipped.      *)
Timer ==
    /\ ~crashed
    /\ \/ \E rate \in Rates : NetSampleUpdate(rate)
       \/ \E values \in StackedValues : MemSampleUpdate(values)
       \/ UNCHANGED <<graph, net, crashed>>
    /\ dblbuf' = IF ~dblbuf.exists \/ crashed' THEN dblbuf
                 ELSE RegisterReadyCallback(
                        [dblbuf EXCEPT !.stale = @ \/ graph' # graph])
    /\ UNCHANGED <<mode, orphans>>

(* _handle_icon_configure: a new double buffer, which is drawn into at once. *)
(* The old one's frame callbacks are not destroyed with it.                  *)
Configure(size) ==
    /\ ~crashed
    /\ orphans[TRUE] + orphans[FALSE] + dblbuf.frames <= MaxFrames
    /\ orphans' = [orphans EXCEPT ![Armed(dblbuf)] = @ + dblbuf.frames]
    /\ dblbuf' = RegisterReadyCallback(NewDblbuf)
    /\ IF size = graph.width THEN UNCHANGED graph
       ELSE \E l \in Leftovers(size) :
               graph' = RebuildFromSamples(BuffersResize(size, l), mode)
    /\ UNCHANGED <<mode, net, crashed>>

FrameDone ==
    /\ ~crashed
    /\ dblbuf.frames > 0
    /\ dblbuf' = FrameIsDue([dblbuf EXCEPT !.frames = @ - 1])
    /\ UNCHANGED <<mode, graph, net, orphans, crashed>>

(* The callback gets a double buffer that was freed.  The memory may be used *)
(* for something else, and what is written there is of no effect; it may be  *)
(* that of the new double buffer; or it is as it was left, and one that was  *)
(* armed has the app draw into a buffer whose pixels are gone.               *)
OrphanFrameDone(armed) ==
    /\ ~crashed
    /\ orphans[armed] > 0
    /\ orphans' = [orphans EXCEPT ![armed] = @ - 1]
    /\ \/ UNCHANGED <<dblbuf, crashed>>
       \/ dblbuf' = FrameIsDue(dblbuf) /\ UNCHANGED crashed
       \/ armed /\ crashed' = TRUE /\ UNCHANGED dblbuf
    /\ UNCHANGED <<mode, graph, net>>

(* A buffer may come back as soon as the compositor copied it.               *)
Release(b) ==
    /\ ~crashed
    /\ b \in dblbuf.held
    /\ dblbuf' = BufferReleased(dblbuf, b)
    /\ UNCHANGED <<mode, graph, net, orphans, crashed>>

Next ==
    \/ Timer
    \/ \E size \in Sizes : Configure(size)
    \/ FrameDone
    \/ \E armed \in BOOLEAN : OrphanFrameDone(armed)
    \/ \E b \in Buffers : Release(b)

(* A compositor calls frame callbacks, and releases buffers it has replaced. *)
ReleaseReplaced == \E b \in Buffers : b # dblbuf.attached /\ Release(b)

Spec == Init /\ [][Next]_vars /\ WF_vars(FrameDone) /\ WF_vars(ReleaseReplaced)

-----------------------------------------------------------------------------
(* Never drawn into what the compositor may be reading: each buffer of the   *)
(* double buffer is either released, once, or held.                          *)
BuffersReleasedOrHeld ==
    dblbuf.exists =>
        /\ dblbuf.held = Buffers \ Range(dblbuf.released)
        /\ Len(dblbuf.released) = Cardinality(Range(dblbuf.released))

(* Scrolling shows what drawing anew would: from the peak downwards, each    *)
(* column has the bars of its own sample, whatever was scrolled, resized or  *)
(* regenerated before, and whatever the memory contained.                    *)
BarsShowSamples ==
    \A x \in 0 .. graph.width - 1 :
        LET sample == graph.samples[graph.width - x] IN
        \A y \in LineOf(sample.peak, graph.height) .. graph.height - 1 :
            graph.pixels[<<x, y>>] = BarPixel(sample, y, graph.height, mode)

(* The peak that rates are scaled to is never below PeakMin, nor above the   *)
(* highest total there is.                                                   *)
PeakMax == Max({PeakMin} \cup {r[1] + r[2] : r \in Rates})

(* A sample belongs to the rates that were read when it was: the k-th newest *)
(* is blank or the k-th newest rates at some scale, however the two rings    *)
(* wrapped and the graph was resized and regenerated.                        *)
SamplesKeepTheirRates ==
    mode = "independent" /\ ~crashed =>
        \A k \in 1 .. Min({graph.width, HistoryMax}) :
            graph.samples[k].peak > 0 =>
                \E peak \in PeakMin .. PeakMax :
                    graph.samples[k].values =
                       Scaled(net.history[(net.index + HistoryMax - k) % HistoryMax],
                              peak)

(* What changed gets shown, although drawing waits for the compositor's      *)
(* frame callback and for a buffer it released, unless the app crashes: by   *)
(* samples without values, or by a frame callback that comes late.           *)
LatestIsShown == (dblbuf.exists /\ dblbuf.stale) ~> (~dblbuf.stale \/ crashed)

(* "The samples_num_available limit ensures we don't read invalid entries":  *)
(* the samples that are regenerated have values.                             *)
RegeneratedSamplesHaveValues ==
    [][\A rate \in Rates : NetSampleUpdate(rate) => ~crashed']_vars
=============================================================================
