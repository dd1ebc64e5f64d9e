---------------------------- MODULE DockAppProofs ----------------------------
(***************************************************************************)
(* Proofs about the dock apps: the double buffer's buffers, the bars that   *)
(* scrolling leaves on the screen, and the samples' rates.                  *)
(***************************************************************************)
EXTENDS DockApp, FiniteSetTheorems, SequenceTheorems, TLAPS

-----------------------------------------------------------------------------
(* Least and greatest numbers.                                             *)

\* Of natural numbers there is a least one, by the well-foundedness of their
\* order: this is what induction is made of below.
LEMMA MinimalElement ==
    ASSUME NEW R, NEW at, at \subseteq Nat, at # {}, IsWellFoundedOn(R, Nat)
    PROVE  \E i \in at : \A j \in at : ~ (<<j, i>> \in R)
  BY WFMin, Zenon

LEMMA LeastOfOrdered ==
    ASSUME NEW R, NEW at, at \subseteq Nat, at # {}, IsWellFoundedOn(R, Nat),
           \A i, j \in Nat : i < j => <<i, j>> \in R
    PROVE  \E i \in at : \A j \in at : i <= j
  <1>1. PICK i \in at : \A j \in at : ~ (<<j, i>> \in R)
    BY MinimalElement, Zenon
  <1>2. ASSUME NEW j \in at PROVE i <= j
    <2>1. i \in Nat /\ j \in Nat
      OBVIOUS
    <2>2. ~ (j < i)
      BY <1>1, <2>1, Zenon
    <2> QED BY <2>1, <2>2
  <1> QED BY <1>2

LEMMA LeastElement ==
    ASSUME NEW at, at \subseteq Nat, at # {}
    PROVE  \E i \in at : \A j \in at : i <= j
  <1>1. \A i, j \in Nat : i < j => <<i, j>> \in OpToRel(<, Nat)
    BY DEF OpToRel
  <1> QED BY <1>1, LeastOfOrdered, NatLessThanWellFounded, Zenon

\* Each finite set of numbers that is not empty has a least and a greatest one:
\* otherwise there is a shortest list of numbers that has not.
LEMMA ListHasExtremes ==
    ASSUME NEW n \in Nat \ {0}, NEW f \in [1 .. n -> Int]
    PROVE  \E i, k \in 1 .. n : \A j \in 1 .. n : f[i] <= f[j] /\ f[j] <= f[k]
  <1> DEFINE Extremes(m) == \E i, k \in 1 .. m : \A j \in 1 .. m : f[i] <= f[j] /\ f[j] <= f[k]
             without == {m \in 1 .. n : ~ Extremes(m)}
  <1>1. ASSUME without # {} PROVE FALSE
    <2>1. PICK m \in without : \A j \in without : m <= j
      <3> without \subseteq Nat
        OBVIOUS
      <3> HIDE DEF without
      <3> QED BY <1>1, LeastElement
    <2>2. m \in 1 .. n /\ ~ Extremes(m)
      OBVIOUS
    <2>3. CASE m = 1
      <3>1. Extremes(1)
        <4>1. 1 \in 1 .. 1 /\ f[1] \in Int
          OBVIOUS
        <4> QED BY <4>1
      <3> QED BY <3>1, <2>2, <2>3
    <2>4. CASE m # 1
      <3>1. m - 1 \in 1 .. n /\ ~ (m <= m - 1)
        BY <2>2, <2>4
      <3>a. m - 1 \notin without
        <4> HIDE DEF without
        <4> QED BY <2>1, <3>1
      <3>2. PICK i, k \in 1 .. m - 1 : \A j \in 1 .. m - 1 : f[i] <= f[j] /\ f[j] <= f[k]
        BY <3>1, <3>a
      <3> DEFINE a == IF f[m] < f[i] THEN m ELSE i
                 b == IF f[k] < f[m] THEN m ELSE k
      <3>3. /\ a \in 1 .. m /\ b \in 1 .. m
            /\ f[a] <= f[i] /\ f[a] <= f[m] /\ f[k] <= f[b] /\ f[m] <= f[b]
            /\ f[a] \in Int /\ f[b] \in Int
        BY <2>2, <3>1
      <3>4. ASSUME NEW j \in 1 .. m PROVE f[a] <= f[j] /\ f[j] <= f[b]
        <4> f[j] \in Int /\ f[i] \in Int /\ f[k] \in Int
          BY <2>2, <3>1
        <4>1. CASE j = m
          BY <3>3, <4>1
        <4>2. CASE j # m
          <5>1. f[i] <= f[j] /\ f[j] <= f[k]
            BY <3>2, <4>2, <2>2
          <5> HIDE DEF a, b
          <5> QED BY <5>1, <3>3
        <4> QED BY <4>1, <4>2
      <3>5. Extremes(m)
        <4> HIDE DEF a, b
        <4> QED BY <3>3, <3>4
      <3> QED BY <3>5, <2>2
    <2> QED BY <2>3, <2>4
  <1>2. n \in 1 .. n /\ n \notin without
    <2>1. n \in 1 .. n
      OBVIOUS
    <2> HIDE DEF without
    <2> QED BY <1>1, <2>1
  <1>3. Extremes(n)
    BY <1>2
  <1> QED BY <1>3

LEMMA Extremes ==
    ASSUME NEW S, S # {}, S \subseteq Int, IsFiniteSet(S)
    PROVE  /\ Min(S) \in S /\ \A y \in S : Min(S) <= y
           /\ Max(S) \in S /\ \A y \in S : Max(S) >= y
  <1>1. PICK n \in Nat : ExistsSurjection(1 .. n, S)
    BY FS_NatSurjection
  <1>2. PICK f \in Surjection(1 .. n, S) : TRUE
    BY <1>1 DEF ExistsSurjection
  <1>3. /\ f \in [1 .. n -> S]
        /\ \A s \in S : \E i \in 1 .. n : f[i] = s
    BY <1>2 DEF Surjection
  <1>4. n # 0 /\ f \in [1 .. n -> Int]
    <2>1. PICK s \in S : TRUE
      OBVIOUS
    <2>2. PICK i \in 1 .. n : f[i] = s
      BY <1>3, <2>1
    <2>3. n # 0
      BY <2>2
    <2> QED BY <1>3, <2>3
  <1>5. PICK i, k \in 1 .. n : \A j \in 1 .. n : f[i] <= f[j] /\ f[j] <= f[k]
    BY <1>4, ListHasExtremes
  <1>6. /\ f[i] \in S /\ \A y \in S : f[i] <= y
        /\ f[k] \in S /\ \A y \in S : f[k] >= y
    BY <1>3, <1>5
  <1>7. Min(S) \in S /\ \A y \in S : Min(S) <= y
    BY <1>6 DEF Min
  <1>8. Max(S) \in S /\ \A y \in S : Max(S) >= y
    BY <1>6 DEF Max
  <1> QED BY <1>7, <1>8

\* The least number of a list of numbers, given by position.
LEMMA LeastOfList ==
    ASSUME NEW n \in Nat \ {0}, NEW f \in [1 .. n -> Int]
    PROVE  LET least == Min({f[i] : i \in 1 .. n}) IN
           least \in Int /\ \A i \in 1 .. n : least <= f[i]
  <1> DEFINE S == {f[i] : i \in 1 .. n}
  <1>1. S # {} /\ S \subseteq Int /\ f[1] \in S
    OBVIOUS
  <1>2. IsFiniteSet(S)
    <2>1. f \in Surjection(1 .. n, S)
      BY DEF Surjection
    <2>2. ExistsSurjection(1 .. n, S)
      BY <2>1 DEF ExistsSurjection
    <2> QED BY <2>2, FS_NatSurjection
  <1> HIDE DEF S
  <1>3. Min(S) \in S /\ \A y \in S : Min(S) <= y
    BY <1>1, <1>2, Extremes
  <1> QED BY <1>1, <1>3 DEF S

-----------------------------------------------------------------------------
(* Graphs.                                                                 *)

Sample == [values : Seq(0 .. 255), peak : 0 .. 255]
Grid(size) == (0 .. size - 1) \X (0 .. size - 1)

IsPicture(pixels, size) == pixels = [p \in Grid(size) |-> pixels[p]]

\* The fields of a graph, with a sample per column.
IsGraph(g) ==
    /\ g = [width |-> g.width, height |-> g.height, samples |-> g.samples,
            pixels |-> g.pixels, yMin |-> g.yMin, peakAge |-> g.peakAge]
    /\ g.width \in Nat /\ g.width >= 2 /\ g.height = g.width
    /\ g.samples \in Seq(Sample) /\ Len(g.samples) = g.width
    /\ IsPicture(g.pixels, g.width)
    /\ g.yMin \in Int

\* What scrolling relies on: no bar begins above y_min.
NoBarAbove(g) ==
    \A i \in 1 .. g.width : g.yMin <= LineOf(g.samples[i].peak, g.height)

\* BarsShowSamples, of one graph.
Shows(g, m) ==
    \A x \in 0 .. g.width - 1 :
        LET sample == g.samples[g.width - x] IN
        \A y \in LineOf(sample.peak, g.height) .. g.height - 1 :
            g.pixels[<<x, y>>] = BarPixel(sample, y, g.height, m)

LEMMA Quotient ==
    ASSUME NEW a \in Nat, NEW b \in Nat \ {0}, NEW c \in Nat, a <= c * b
    PROVE  a \div b \in 0 .. c
  <1> DEFINE q == a \div b
  <1>1. q \in Nat /\ q * b <= a
    OBVIOUS
  <1> HIDE DEF q
  <1>2. q <= c
    <2>1. SUFFICES ASSUME q >= c + 1 PROVE FALSE
      BY <1>1
    <2>2. q * b >= (c + 1) * b
      BY <1>1, <2>1
    <2>3. (c + 1) * b = c * b + b /\ c * b \in Nat
      OBVIOUS
    <2> QED BY <1>1, <2>2, <2>3
  <1> QED BY <1>1, <1>2 DEF q

LEMMA LineType ==
    ASSUME NEW usage \in 0 .. 255, NEW height \in Nat \ {0}
    PROVE  LineOf(usage, height) \in 0 .. height
  <1>1. height - 1 \in Nat /\ usage * (height - 1) \in Nat
    OBVIOUS
  <1>2. usage * (height - 1) <= (height - 1) * 255
    OBVIOUS
  <1>3. (usage * (height - 1)) \div 255 \in 0 .. height - 1
    BY <1>1, <1>2, Quotient
  <1> QED BY <1>3 DEF LineOf, UsageToY

LEMMA ColumnRenderDraws ==
    ASSUME NEW size \in Nat \ {0}, NEW pixels, IsPicture(pixels, size),
           NEW sample \in Sample, NEW x \in 0 .. size - 1, NEW m
    PROVE  LET drawn == ColumnRender(pixels, sample, x, size, m) IN
           /\ IsPicture(drawn, size)
           /\ \A p \in Grid(size) : p[1] # x => drawn[p] = pixels[p]
           /\ \A y \in LineOf(sample.peak, size) .. size - 1 :
                  drawn[<<x, y>>] = BarPixel(sample, y, size, m)
  <1> DEFINE drawn == ColumnRender(pixels, sample, x, size, m)
             line == LineOf(sample.peak, size)
  <1>1. DOMAIN pixels = Grid(size)
    BY DEF IsPicture
  <1>2. line \in 0 .. size
    BY LineType DEF Sample
  <1>3. IsPicture(drawn, size)
    BY <1>1 DEF IsPicture, ColumnRender
  <1>4. ASSUME NEW p \in Grid(size), p[1] # x PROVE drawn[p] = pixels[p]
    BY <1>1, <1>4 DEF ColumnRender
  <1>5. ASSUME NEW y \in line .. size - 1
        PROVE  drawn[<<x, y>>] = BarPixel(sample, y, size, m)
    <2>1. <<x, y>> \in Grid(size) /\ y >= line
      BY <1>2 DEF Grid
    <2> QED BY <1>1, <2>1 DEF ColumnRender
  <1> QED BY <1>3, <1>4, <1>5

\* A connector runs above the bars of the lower one of two columns.
SparesBars(connected, pixels, curr, prev, x, size) ==
    \A p \in Grid(size) :
        \/ p[1] \notin {x - 1, x}
        \/ p[1] = x /\ p[2] >= LineOf(curr, size)
        \/ p[1] = x - 1 /\ p[2] >= LineOf(prev, size)
        => connected[p] = pixels[p]

LEMMA ConnectSparesBars ==
    ASSUME NEW size \in Nat \ {0}, NEW pixels, IsPicture(pixels, size),
           NEW curr \in 0 .. 255, NEW prev \in 0 .. 255, NEW x \in Int
    PROVE  LET connected == Connect(pixels, curr, prev, x, size) IN
           /\ IsPicture(connected, size)
           /\ SparesBars(connected, pixels, curr, prev, x, size)
  <1> DEFINE connected == Connect(pixels, curr, prev, x, size)
             low == IF curr < prev THEN curr ELSE prev
             high == IF curr < prev THEN prev ELSE curr
             column == IF curr < prev THEN x ELSE x - 1
             rows == LineOf(high, size) + 1 .. LineOf(low, size) - 1
  <1>1. DOMAIN pixels = Grid(size)
    BY DEF IsPicture
  <1>2. CASE curr = prev
    BY <1>2 DEF Connect, SparesBars
  <1>3. CASE curr # prev
    <2>1. connected = [p \in DOMAIN pixels |->
              IF p[1] = column /\ p[2] \in rows THEN LINE ELSE pixels[p]]
      BY <1>3 DEF Connect
    <2>2. ASSUME NEW p \in Grid(size),
                 \/ p[1] \notin {x - 1, x}
                 \/ p[1] = x /\ p[2] >= LineOf(curr, size)
                 \/ p[1] = x - 1 /\ p[2] >= LineOf(prev, size)
          PROVE  ~ (p[1] = column /\ p[2] \in rows)
      <3>1. /\ p[1] \in Int /\ p[2] \in Int
            /\ LineOf(curr, size) \in Int /\ LineOf(prev, size) \in Int
        <4>1. p[1] \in Int /\ p[2] \in Int
          BY DEF Grid
        <4>2. LineOf(curr, size) \in 0 .. size /\ LineOf(prev, size) \in 0 .. size
          BY LineType
        <4> QED BY <4>1, <4>2
      <3>2. CASE curr < prev
        BY <2>2, <3>1, <3>2
      <3>3. CASE ~ (curr < prev)
        BY <2>2, <3>1, <3>3
      <3> QED BY <3>2, <3>3
    <2> HIDE DEF column, rows, connected
    <2> QED BY <1>1, <2>1, <2>2 DEF IsPicture, SparesBars, connected
  <1> QED BY <1>2, <1>3

\* The sample of the oldest column makes room for a new one.
LEMMA PushedSamples ==
    ASSUME NEW S, NEW s \in Seq(S), NEW x \in S, NEW w \in Nat \ {0}, Len(s) = w
    PROVE  LET t == <<x>> \o SubSeq(s, 1, w - 1) IN
           /\ t \in Seq(S) /\ Len(t) = w
           /\ t[1] = x
           /\ \A i \in 2 .. w : t[i] = s[i - 1]
  OBVIOUS

LEMMA YMinIsLeast ==
    ASSUME NEW g, IsGraph(g)
    PROVE  LET r == YMinFromSamples(g) IN
           /\ IsGraph(r) /\ NoBarAbove(r)
           /\ r.width = g.width /\ r.height = g.height
           /\ r.samples = g.samples /\ r.pixels = g.pixels
  <1> DEFINE r == YMinFromSamples(g)
             Y == [i \in 1 .. g.width |-> LineOf(g.samples[i].peak, g.height)]
             top == Min({Y[i] : i \in 1 .. g.width})
  <1>1. g.width \in Nat \ {0} /\ g.height = g.width
    BY DEF IsGraph
  <1>2. \A i \in 1 .. g.width : g.samples[i] \in Sample
    BY DEF IsGraph
  <1>3. Y \in [1 .. g.width -> Int]
    <2>1. \A i \in 1 .. g.width : LineOf(g.samples[i].peak, g.height) \in 0 .. g.height
      BY <1>1, <1>2, LineType DEF Sample
    <2> QED BY <1>1, <2>1
  <1>4. top \in Int /\ \A i \in 1 .. g.width : top <= Y[i]
    <2> HIDE DEF Y
    <2> QED BY <1>1, <1>3, LeastOfList
  <1>5. {Y[i] : i \in 1 .. g.width}
            = {LineOf(g.samples[i].peak, g.height) : i \in 1 .. g.width}
    OBVIOUS
  <1>6. PICK age : r = [g EXCEPT !.yMin = top, !.peakAge = age]
    BY <1>5 DEF YMinFromSamples
  <1> HIDE DEF top, r
  <1>7. r = [width |-> g.width, height |-> g.height, samples |-> g.samples,
             pixels |-> g.pixels, yMin |-> top, peakAge |-> age]
    BY <1>6 DEF IsGraph
  <1>8. IsGraph(r)
    BY <1>4, <1>7 DEF IsGraph
  <1>9. NoBarAbove(r)
    BY <1>1, <1>4, <1>7 DEF NoBarAbove
  <1> QED BY <1>7, <1>8, <1>9 DEF r

\* A new sample: the bars of the others are scrolled with all that is below
\* y_min, its own are drawn, and the connector spares both.
LEMMA UpdateShows ==
    ASSUME NEW g, IsGraph(g), NoBarAbove(g), NEW m, Shows(g, m), NEW sample \in Sample
    PROVE  LET r == UpdateWithSample(g, sample, m) IN
           /\ IsGraph(r) /\ NoBarAbove(r) /\ Shows(r, m)
           /\ r.width = g.width /\ r.samples = Pushed(g, sample)
  <1> DEFINE w == g.width
             scrolled == ScrollLeft(g.pixels, g.yMin, w)
             drawn == ColumnRender(scrolled, sample, w - 1, w, m)
             connected == Connect(drawn, sample.peak, g.samples[1].peak, w - 1, w)
             pushed == Pushed(g, sample)
             line == LineOf(sample.peak, w)
  <1>1. /\ w \in Nat \ {0} /\ w >= 2 /\ g.height = w /\ g.yMin \in Int
        /\ g.samples \in Seq(Sample) /\ Len(g.samples) = w
        /\ IsPicture(g.pixels, w)
    BY DEF IsGraph
  <1>2. /\ pushed \in Seq(Sample) /\ Len(pushed) = w
        /\ pushed[1] = sample
        /\ \A i \in 2 .. w : pushed[i] = g.samples[i - 1]
    <2> DEFINE old == g.samples
    <2>1. pushed = <<sample>> \o SubSeq(old, 1, w - 1)
      BY DEF Pushed
    <2>2. old \in Seq(Sample) /\ Len(old) = w
      BY <1>1
    <2> HIDE DEF w, old, pushed
    <2>3. /\ pushed \in Seq(Sample) /\ Len(pushed) = w
          /\ pushed[1] = sample
          /\ \A i \in 2 .. w : pushed[i] = old[i - 1]
      BY <1>1, <2>1, <2>2, PushedSamples
    <2> QED BY <2>3 DEF old
  <1>3. /\ IsPicture(scrolled, w)
        /\ \A x \in 0 .. w - 2, y \in 0 .. w - 1 :
               y >= g.yMin => scrolled[<<x, y>>] = g.pixels[<<x + 1, y>>]
    <2>1. DOMAIN g.pixels = Grid(w)
      BY <1>1 DEF IsPicture
    <2>2. IsPicture(scrolled, w)
      BY <2>1 DEF IsPicture, ScrollLeft
    <2>3. ASSUME NEW x \in 0 .. w - 2, NEW y \in 0 .. w - 1, y >= g.yMin
          PROVE  scrolled[<<x, y>>] = g.pixels[<<x + 1, y>>]
      <3>1. <<x, y>> \in Grid(w) /\ x < w - 1
        BY <1>1 DEF Grid
      <3> QED BY <2>1, <2>3, <3>1 DEF ScrollLeft
    <2> QED BY <2>2, <2>3
  <1>4. sample.peak \in 0 .. 255 /\ g.samples[1].peak \in 0 .. 255 /\ w - 1 \in 0 .. w - 1
    <2>1. g.samples[1] \in Sample
      BY <1>1
    <2>2. w - 1 \in 0 .. w - 1
      BY <1>1
    <2> QED BY <2>1, <2>2 DEF Sample
  <1> HIDE DEF w, scrolled, pushed
  <1>5. /\ IsPicture(drawn, w)
        /\ \A p \in Grid(w) : p[1] # w - 1 => drawn[p] = scrolled[p]
        /\ \A y \in line .. w - 1 : drawn[<<w - 1, y>>] = BarPixel(sample, y, w, m)
    BY <1>1, <1>3, <1>4, ColumnRenderDraws
  <1> HIDE DEF drawn
  <1>6. /\ IsPicture(connected, w)
        /\ \A p \in Grid(w) :
               \/ p[1] \notin {w - 1 - 1, w - 1}
               \/ p[1] = w - 1 /\ p[2] >= line
               \/ p[1] = w - 1 - 1 /\ p[2] >= LineOf(g.samples[1].peak, w)
               => connected[p] = drawn[p]
    <2> DEFINE x == w - 1
               curr == sample.peak
               prev == g.samples[1].peak
    <2>1. x \in Int /\ curr \in 0 .. 255 /\ prev \in 0 .. 255
      BY <1>1, <1>4
    <2>2. connected = Connect(drawn, curr, prev, x, w)
      OBVIOUS
    <2> HIDE DEF x, curr, prev, connected
    <2>3. /\ IsPicture(connected, w)
          /\ \A p \in Grid(w) :
                 \/ p[1] \notin {x - 1, x}
                 \/ p[1] = x /\ p[2] >= LineOf(curr, w)
                 \/ p[1] = x - 1 /\ p[2] >= LineOf(prev, w)
                 => connected[p] = drawn[p]
      <3>1. /\ IsPicture(connected, w)
            /\ SparesBars(connected, drawn, curr, prev, x, w)
        BY <1>1, <1>5, <2>1, <2>2, ConnectSparesBars
      <3> QED BY <3>1 DEF SparesBars
    <2> QED BY <2>3 DEF x, curr, prev
  <1> HIDE DEF connected
  <1>7. line \in 0 .. w /\ \A i \in 1 .. w : LineOf(pushed[i].peak, w) \in 0 .. w
    <2>1. \A i \in 1 .. w : pushed[i] \in Sample
      BY <1>2
    <2> QED BY <1>1, <1>4, <2>1, LineType DEF Sample
  <1> HIDE DEF line
  <1>8. ASSUME NEW x \in 0 .. w - 1, NEW y \in LineOf(pushed[w - x].peak, w) .. w - 1
        PROVE  connected[<<x, y>>] = BarPixel(pushed[w - x], y, w, m)
    <2>1. w - x \in 1 .. w /\ y \in 0 .. w - 1 /\ y >= LineOf(pushed[w - x].peak, w)
      <3>1. w - x \in 1 .. w
        BY <1>1
      <3>2. LineOf(pushed[w - x].peak, w) \in 0 .. w
        BY <1>7, <3>1
      <3> QED BY <1>1, <3>1, <3>2
    <2>2. <<x, y>> \in Grid(w) /\ x \in 0 .. w - 1
      BY <2>1 DEF Grid
    <2>3. CASE x = w - 1
      <3>1. w - x = 1 /\ pushed[w - x] = sample
        BY <1>1, <1>2, <2>3
      <3>2. y \in line .. w - 1
        BY <1>1, <1>7, <2>1, <3>1 DEF line
      <3>3. connected[<<x, y>>] = drawn[<<x, y>>]
        BY <1>6, <2>2, <2>3, <3>2, <1>7
      <3> QED BY <1>5, <2>3, <3>1, <3>2, <3>3
    <2>4. CASE x # w - 1
      <3>1. /\ x \in 0 .. w - 2 /\ x + 1 \in 0 .. w - 1
            /\ w - x \in 2 .. w /\ (w - x) - 1 \in 1 .. w
            /\ (w - x) - 1 = w - (x + 1)
        BY <1>1, <2>4
      <3>2. pushed[w - x] = g.samples[w - (x + 1)]
        BY <1>2, <3>1
      <3>3. y >= g.yMin
        <4>1. g.yMin <= LineOf(pushed[w - x].peak, w)
          BY <1>1, <3>1, <3>2 DEF NoBarAbove, w
        <4>2. LineOf(pushed[w - x].peak, w) \in 0 .. w
          BY <1>7, <2>1
        <4> QED BY <1>1, <2>1, <4>1, <4>2
      <3>4. g.pixels[<<x + 1, y>>] = BarPixel(g.samples[w - (x + 1)], y, w, m)
        <4>1. y \in LineOf(g.samples[w - (x + 1)].peak, w) .. w - 1
          BY <3>2
        <4> QED BY <1>1, <3>1, <4>1 DEF Shows, w
      <3>5. scrolled[<<x, y>>] = g.pixels[<<x + 1, y>>]
        BY <1>3, <2>1, <3>1, <3>3
      <3>6. drawn[<<x, y>>] = scrolled[<<x, y>>]
        BY <1>5, <2>2, <2>4
      <3>7. connected[<<x, y>>] = drawn[<<x, y>>]
        <4>1. x = w - 1 - 1 => y >= LineOf(g.samples[1].peak, w)
          <5>1. x = w - 1 - 1 => w - (x + 1) = 1
            BY <1>1, <3>1
          <5> QED BY <2>1, <3>2, <5>1
        <4> QED BY <1>6, <2>2, <2>4, <4>1
      <3> QED BY <3>2, <3>4, <3>5, <3>6, <3>7
    <2> QED BY <2>3, <2>4
  <1> DEFINE Moved(low, age) ==
                 [width |-> w, height |-> w, samples |-> pushed, pixels |-> connected,
                  yMin |-> low, peakAge |-> age]
  <1>9. ASSUME NEW low \in Int, NEW age
        PROVE  IsGraph(Moved(low, age)) /\ Shows(Moved(low, age), m)
    <2>1. IsGraph(Moved(low, age))
      BY <1>1, <1>2, <1>6 DEF IsGraph
    <2>2. Shows(Moved(low, age), m)
      BY <1>8 DEF Shows
    <2> QED BY <2>1, <2>2
  <1>10. ASSUME NEW low \in Int, NEW age, low <= line, low <= g.yMin
         PROVE  NoBarAbove(Moved(low, age))
    <2>1. ASSUME NEW i \in 1 .. w PROVE low <= LineOf(pushed[i].peak, w)
      <3>1. CASE i = 1
        BY <1>2, <1>10, <3>1 DEF line
      <3>2. CASE i # 1
        <4>1. i \in 2 .. w /\ i - 1 \in 1 .. w
          BY <1>1, <3>2
        <4>2. g.yMin <= LineOf(pushed[i].peak, w)
          BY <1>1, <1>2, <4>1 DEF NoBarAbove, w
        <4>3. LineOf(pushed[i].peak, w) \in 0 .. w
          BY <1>7
        <4> QED BY <1>1, <1>10, <4>2, <4>3
      <3> QED BY <3>1, <3>2
    <2> QED BY <2>1 DEF NoBarAbove
  <1> DEFINE moved == [g EXCEPT !.samples = pushed, !.pixels = connected]
  <1>11. moved = Moved(g.yMin, g.peakAge)
    <2>1. g = [width |-> w, height |-> w, samples |-> g.samples,
               pixels |-> g.pixels, yMin |-> g.yMin, peakAge |-> g.peakAge]
      BY DEF IsGraph, w
    <2> DEFINE h == [g EXCEPT !.samples = pushed]
    <2>2. h = [width |-> w, height |-> w, samples |-> pushed,
               pixels |-> g.pixels, yMin |-> g.yMin, peakAge |-> g.peakAge]
      BY <2>1
    <2> HIDE DEF h
    <2>3. [h EXCEPT !.pixels = connected] = Moved(g.yMin, g.peakAge)
      BY <2>2
    <2>4. moved = [h EXCEPT !.pixels = connected]
      BY DEF h
    <2> QED BY <2>3, <2>4
  <1>12. UpdateWithSample(g, sample, m) =
             CASE g.peakAge = w -> YMinFromSamples(moved)
               [] g.peakAge # w /\ line <= g.yMin ->
                     [moved EXCEPT !.yMin = line, !.peakAge = 1]
               [] OTHER -> [moved EXCEPT !.peakAge = IF @ = 0 THEN 0 ELSE @ + 1]
    BY <1>1 DEF UpdateWithSample, w, scrolled, drawn, connected, pushed, line
  <1> DEFINE r == UpdateWithSample(g, sample, m)
  <1> HIDE DEF moved, r
  <1>13. CASE g.peakAge = w
    <2>1. r = YMinFromSamples(moved)
      BY <1>12, <1>13 DEF r
    <2>2. IsGraph(moved) /\ Shows(moved, m) /\ moved.width = w /\ moved.samples = pushed
      BY <1>1, <1>9, <1>11
    <2>3. /\ IsGraph(r) /\ NoBarAbove(r)
          /\ r.width = moved.width /\ r.height = moved.height
          /\ r.samples = moved.samples /\ r.pixels = moved.pixels
      BY <2>1, <2>2, YMinIsLeast
    <2>4. Shows(r, m)
      BY <2>2, <2>3 DEF Shows
    <2> QED BY <2>2, <2>3, <2>4 DEF r, w, pushed
  <1>14. CASE g.peakAge # w /\ line <= g.yMin
    <2>1. r = Moved(line, 1)
      BY <1>11, <1>12, <1>14 DEF r
    <2>2. line \in Int /\ line <= line
      BY <1>7
    <2>3. IsGraph(r) /\ Shows(r, m) /\ NoBarAbove(r)
      BY <1>9, <1>10, <1>14, <2>1, <2>2
    <2> QED BY <2>1, <2>3 DEF r, w, pushed
  <1>15. CASE g.peakAge # w /\ ~ (line <= g.yMin)
    <2>1. PICK age : r = Moved(g.yMin, age)
      BY <1>11, <1>12, <1>15 DEF r
    <2>2. g.yMin <= line /\ g.yMin <= g.yMin
      BY <1>1, <1>7, <1>15
    <2>3. IsGraph(r) /\ Shows(r, m) /\ NoBarAbove(r)
      BY <1>1, <1>9, <1>10, <2>1, <2>2
    <2> QED BY <2>1, <2>3 DEF r, w, pushed
  <1> QED BY <1>13, <1>14, <1>15 DEF r

\* Drawing anew: each column is drawn over what the connector on its right left
\* of it, and the connector to its left spares its bars.
LEMMA RebuildShows ==
    ASSUME NEW g, IsGraph(g), NEW m,
           Head(g.samples).values = <<>> => \A i \in 1 .. g.width : g.samples[i].peak = 0
    PROVE  LET r == RebuildFromSamples(g, m) IN
           /\ IsGraph(r) /\ NoBarAbove(r) /\ Shows(r, m)
           /\ r.width = g.width /\ r.samples = g.samples
  <1> DEFINE w == g.width
             r == RebuildFromSamples(g, m)
  <1>1. /\ w \in Nat \ {0} /\ w >= 2 /\ g.height = w /\ g.yMin \in Int
        /\ g.samples \in Seq(Sample) /\ Len(g.samples) = w
        /\ IsPicture(g.pixels, w) /\ DOMAIN g.pixels = Grid(w)
        /\ g = [width |-> w, height |-> w, samples |-> g.samples, pixels |-> g.pixels,
                yMin |-> g.yMin, peakAge |-> g.peakAge]
    BY DEF IsGraph, IsPicture
  <1>2. \A i \in 1 .. w : g.samples[i] \in Sample /\ g.samples[i].peak \in 0 .. 255
    <2>1. \A i \in 1 .. w : g.samples[i] \in Sample
      BY <1>1
    <2> QED BY <2>1 DEF Sample
  <1> HIDE DEF w, r
  <1>3. CASE Head(g.samples).values = <<>>
    <2> DEFINE black == [p \in Grid(w) |-> BLACK]
    <2>1. r = [g EXCEPT !.pixels = black, !.yMin = w, !.peakAge = 0]
      BY <1>1, <1>3 DEF r, RebuildFromSamples
    <2> DEFINE h == [g EXCEPT !.pixels = black]
    <2>2. h = [width |-> w, height |-> w, samples |-> g.samples, pixels |-> black,
               yMin |-> g.yMin, peakAge |-> g.peakAge]
      BY <1>1
    <2>3. r = [h EXCEPT !.yMin = w, !.peakAge = 0]
      BY <2>1
    <2> HIDE DEF h
    <2>4. r = [width |-> w, height |-> w, samples |-> g.samples, pixels |-> black,
               yMin |-> w, peakAge |-> 0]
      BY <2>2, <2>3
    <2>5. IsGraph(r)
      BY <1>1, <2>4 DEF IsGraph, IsPicture
    <2>6. \A i \in 1 .. w : LineOf(r.samples[i].peak, w) = w
      BY <1>3, <2>4 DEF LineOf, w
    <2>7. NoBarAbove(r)
      BY <1>1, <2>4, <2>6 DEF NoBarAbove
    <2>8. Shows(r, m)
      <3>1. ASSUME NEW x \in 0 .. w - 1 PROVE LineOf(r.samples[w - x].peak, w) = w
        <4>1. w - x \in 1 .. w
          BY <1>1
        <4> QED BY <2>6, <4>1
      <3>2. w .. w - 1 = {}
        BY <1>1
      <3> QED BY <2>4, <3>1, <3>2 DEF Shows
    <2> QED BY <2>4, <2>5, <2>7, <2>8 DEF r, w
  <1>4. CASE Head(g.samples).values # <<>>
    <2> DEFINE pixels == [p \in Grid(w) |-> RebuiltColumn(g, p[1], m)[p]]
               h == [g EXCEPT !.pixels = pixels]
    <2>1. r = YMinFromSamples(h)
      BY <1>1, <1>4 DEF r, RebuildFromSamples
    <2>2. h = [width |-> w, height |-> w, samples |-> g.samples, pixels |-> pixels,
               yMin |-> g.yMin, peakAge |-> g.peakAge]
      BY <1>1
    <2>3. IsPicture(pixels, w)
      BY DEF IsPicture
    <2>4. ASSUME NEW x \in 0 .. w - 1, NEW y \in LineOf(g.samples[w - x].peak, w) .. w - 1
          PROVE  pixels[<<x, y>>] = BarPixel(g.samples[w - x], y, w, m)
      <3> DEFINE i == w - x
                 Connected(ps, k) ==
                     Connect(ps, g.samples[k].peak, g.samples[k + 1].peak, w - k, w)
                 before == IF i = 1 THEN g.pixels ELSE Connected(g.pixels, i - 1)
                 drawn == ColumnRender(before, g.samples[i], x, w, m)
                 after == IF i = w THEN drawn ELSE Connected(drawn, i)
                 line == LineOf(g.samples[i].peak, w)
      <3>1. /\ i \in 1 .. w /\ w - i = x /\ i - 1 \in Int
            /\ i # 1 => i - 1 \in 1 .. w /\ (i - 1) + 1 = i
            /\ i # w => i + 1 \in 1 .. w
        <4>1. i \in 1 .. w /\ w - i = x /\ i \in Int /\ w \in Int
          BY <1>1
        <4> HIDE DEF i
        <4>2. i # w => i + 1 \in 1 .. w
          BY <4>1
        <4>3. i # 1 => i - 1 \in 1 .. w /\ (i - 1) + 1 = i
          BY <4>1
        <4> QED BY <4>1, <4>2, <4>3
      <3>a. LineOf(g.samples[w - x].peak, w) = line
        OBVIOUS
      <3> HIDE DEF i
      <3>2. line \in 0 .. w
        BY <1>1, <1>2, <3>1, LineType
      <3>3. RebuiltColumn(g, x, m) = after
        BY <1>1 DEF RebuiltColumn, w, i
      <3>4. IsPicture(before, w)
        <4>1. CASE i = 1
          BY <1>1, <4>1
        <4>2. CASE i # 1
          <5>1. /\ g.samples[i - 1].peak \in 0 .. 255
                /\ g.samples[(i - 1) + 1].peak \in 0 .. 255
                /\ w - (i - 1) \in Int
            <6>1. i - 1 \in 1 .. w /\ (i - 1) + 1 \in 1 .. w /\ w - (i - 1) \in Int
              BY <1>1, <3>1, <4>2
            <6> QED BY <1>2, <6>1
          <5>2. IsPicture(Connected(g.pixels, i - 1), w)
            BY <1>1, <5>1, ConnectSparesBars
          <5> QED BY <4>2, <5>2
        <4> QED BY <4>1, <4>2
      <3> HIDE DEF before
      <3>5. /\ IsPicture(drawn, w)
            /\ \A z \in line .. w - 1 : drawn[<<x, z>>] = BarPixel(g.samples[i], z, w, m)
        <4> DEFINE sample == g.samples[i]
        <4>1. sample \in Sample /\ x \in 0 .. w - 1
          BY <1>2, <3>1
        <4>2. /\ drawn = ColumnRender(before, sample, x, w, m)
              /\ line = LineOf(sample.peak, w)
          OBVIOUS
        <4> HIDE DEF sample, drawn, line
        <4>3. /\ IsPicture(drawn, w)
              /\ \A z \in line .. w - 1 : drawn[<<x, z>>] = BarPixel(sample, z, w, m)
          BY <1>1, <3>4, <4>1, <4>2, ColumnRenderDraws
        <4> QED BY <4>3 DEF sample
      <3> HIDE DEF drawn
      <3>6. <<x, y>> \in Grid(w) /\ y \in line .. w - 1 /\ y >= line
        BY <1>1, <3>2, <3>a DEF Grid
      <3>7. after[<<x, y>>] = drawn[<<x, y>>]
        <4>1. CASE i = w
          BY <4>1
        <4>2. CASE i # w
          <5> DEFINE curr == g.samples[i].peak
                     prev == g.samples[i + 1].peak
          <5>1. curr \in 0 .. 255 /\ prev \in 0 .. 255 /\ x \in Int
            <6>1. curr \in 0 .. 255
              BY <1>2, <3>1
            <6>2. prev \in 0 .. 255
              BY <1>2, <3>1, <4>2
            <6>3. x \in Int
              OBVIOUS
            <6> QED BY <6>1, <6>2, <6>3
          <5>2. after = Connect(drawn, curr, prev, x, w)
            BY <3>1, <4>2
          <5>3. line = LineOf(curr, w)
            OBVIOUS
          <5> HIDE DEF curr, prev, after, line
          <5>4. SparesBars(after, drawn, curr, prev, x, w)
            BY <1>1, <3>5, <5>1, <5>2, ConnectSparesBars
          <5> QED BY <3>6, <5>3, <5>4 DEF SparesBars
        <4> QED BY <4>1, <4>2
      <3>8. pixels[<<x, y>>] = RebuiltColumn(g, x, m)[<<x, y>>]
        BY <3>6
      <3> QED BY <3>3, <3>5, <3>6, <3>7, <3>8 DEF i
    <2> HIDE DEF pixels, h
    <2>5. IsGraph(h)
      BY <1>1, <2>2, <2>3 DEF IsGraph
    <2>6. /\ IsGraph(r) /\ NoBarAbove(r)
          /\ r.width = h.width /\ r.height = h.height
          /\ r.samples = h.samples /\ r.pixels = h.pixels
      BY <2>1, <2>5, YMinIsLeast
    <2>7. Shows(r, m)
      BY <2>2, <2>4, <2>6 DEF Shows
    <2> QED BY <2>2, <2>6, <2>7 DEF r, w
  <1> QED BY <1>3, <1>4 DEF r

-----------------------------------------------------------------------------
(* Samples.                                                                *)

\* The recursion of Total is well defined ...
LEMMA SumsExist ==
    ASSUME NEW len \in Nat, NEW values
    PROVE  \E f : f = [n \in 0 .. len |-> IF n = 0 THEN 0 ELSE f[n - 1] + values[n]]
  <1> DEFINE Exists(l) ==
                 \E f : f = [n \in 0 .. l |-> IF n = 0 THEN 0 ELSE f[n - 1] + values[n]]
             without == {l \in 0 .. len : ~ Exists(l)}
  <1>1. ASSUME without # {} PROVE FALSE
    <2>1. PICK l \in without : \A k \in without : l <= k
      <3> without \subseteq Nat
        OBVIOUS
      <3> HIDE DEF without
      <3> QED BY <1>1, LeastElement
    <2>2. l \in 0 .. len /\ ~ Exists(l)
      OBVIOUS
    <2>3. CASE l = 0
      <3> DEFINE f == [n \in 0 .. 0 |-> 0]
      <3>1. f = [n \in 0 .. 0 |-> IF n = 0 THEN 0 ELSE f[n - 1] + values[n]]
        OBVIOUS
      <3> QED BY <2>2, <2>3, <3>1
    <2>4. CASE l # 0
      <3>1. l - 1 \in 0 .. len /\ ~ (l <= l - 1)
        BY <2>2, <2>4
      <3>2. l - 1 \notin without
        <4> HIDE DEF without
        <4> QED BY <2>1, <3>1
      <3>3. PICK f : f = [n \in 0 .. l - 1 |-> IF n = 0 THEN 0 ELSE f[n - 1] + values[n]]
        BY <3>1, <3>2
      <3> DEFINE h == [n \in 0 .. l |-> IF n = l THEN f[l - 1] + values[l] ELSE f[n]]
      <3>4. ASSUME NEW n \in 0 .. l
            PROVE  h[n] = IF n = 0 THEN 0 ELSE h[n - 1] + values[n]
        <4>1. CASE n = 0
          BY <2>2, <2>4, <3>3, <4>1
        <4>2. CASE n # 0 /\ n = l
          <5>1. n - 1 \in 0 .. l /\ n - 1 # l
            BY <2>2, <4>2
          <5> QED BY <4>2, <5>1
        <4>3. CASE n # 0 /\ n # l
          <5>1. n - 1 \in 0 .. l /\ n - 1 # l /\ n \in 0 .. l - 1
            BY <2>2, <4>3
          <5>2. f[n] = f[n - 1] + values[n]
            BY <3>3, <4>3, <5>1
          <5> QED BY <4>3, <5>1, <5>2
        <4> QED BY <4>1, <4>2, <4>3
      <3>5. h = [n \in 0 .. l |-> IF n = 0 THEN 0 ELSE h[n - 1] + values[n]]
        <4>1. h = [n \in 0 .. l |-> h[n]]
          OBVIOUS
        <4> HIDE DEF h
        <4> QED BY <3>4, <4>1
      <3> QED BY <2>2, <3>5
    <2> QED BY <2>3, <2>4
  <1>2. len \in 0 .. len /\ len \notin without
    <2>1. len \in 0 .. len
      OBVIOUS
    <2> HIDE DEF without
    <2> QED BY <1>1, <2>1
  <1> QED BY <1>2

\* ... and its sums are natural numbers.
LEMMA TotalType ==
    ASSUME NEW len \in Nat, NEW values, Len(values) = len,
           \A i \in 1 .. len : values[i] \in Nat,
           NEW n \in 0 .. len
    PROVE  Total(values)[n] \in Nat
  <1> DEFINE Sum == Total(values)
  <1>1. Sum = [k \in 0 .. len |-> IF k = 0 THEN 0 ELSE Sum[k - 1] + values[k]]
    BY SumsExist DEF Total
  <1> HIDE DEF Sum
  <1> DEFINE other == {k \in 0 .. len : Sum[k] \notin Nat}
  <1>2. ASSUME other # {} PROVE FALSE
    <2>1. PICK k \in other : \A j \in other : k <= j
      <3> other \subseteq Nat
        OBVIOUS
      <3> HIDE DEF other
      <3> QED BY <1>2, LeastElement
    <2>2. k \in 0 .. len /\ Sum[k] \notin Nat
      OBVIOUS
    <2>3. k # 0
      BY <1>1, <2>2
    <2>4. k - 1 \in 0 .. len /\ ~ (k <= k - 1)
      BY <2>2, <2>3
    <2>5. k - 1 \notin other
      <3> HIDE DEF other
      <3> QED BY <2>1, <2>4
    <2>6. Sum[k - 1] \in Nat /\ values[k] \in Nat
      BY <2>2, <2>3, <2>4, <2>5
    <2> QED BY <1>1, <2>2, <2>3, <2>6
  <1>3. Sum[n] \in Nat
    BY <1>2
  <1> QED BY <1>3 DEF Sum

LEMMA FinitePeak ==
    ASSUME NEW values \in Seq(0 .. 255)
    PROVE  LET S == {0} \cup Range(values) IN
           Max(S) \in S /\ Max(S) \in 0 .. 255
  <1> DEFINE R == Range(values)
             S == {0} \cup R
  <1>1. R \subseteq 0 .. 255 /\ values \in Surjection(1 .. Len(values), R)
    <2> DEFINE byte == 0 .. 255
    <2>1. values \in [1 .. Len(values) -> byte]
      <3> values \in Seq(byte)
        OBVIOUS
      <3> HIDE DEF byte
      <3> QED BY LenProperties
    <2>2. R \subseteq 0 .. 255 /\ values \in [1 .. Len(values) -> R]
      BY <2>1 DEF Range
    <2>3. \A x \in R : \E k \in 1 .. Len(values) : values[k] = x
      BY <2>1 DEF Range
    <2> HIDE DEF R
    <2> QED BY <2>2, <2>3 DEF Surjection
  <1>2. IsFiniteSet(R)
    <2>1. ExistsSurjection(1 .. Len(values), R) /\ Len(values) \in Nat
      BY <1>1 DEF ExistsSurjection
    <2> HIDE DEF R
    <2> QED BY <2>1, FS_NatSurjection
  <1> HIDE DEF R
  <1>3. IsFiniteSet(S)
    BY <1>2, FS_Singleton, FS_Union
  <1>4. S # {} /\ S \subseteq Int /\ S \subseteq 0 .. 255
    BY <1>1
  <1> HIDE DEF S
  <1>5. Max(S) \in S
    BY <1>3, <1>4, Extremes
  <1> QED BY <1>4, <1>5 DEF S, R

LEMMA NewSampleType ==
    ASSUME NEW values \in Seq(0 .. 255), NEW m
    PROVE  NewSample(values, m) \in Sample /\ NewSample(values, m).values = values
  <1>1. CASE m = "stacked"
    <2> DEFINE byte == 0 .. 255
    <2>1. Len(values) \in Nat /\ values \in [1 .. Len(values) -> byte]
      <3> values \in Seq(byte)
        OBVIOUS
      <3> HIDE DEF byte
      <3> QED BY LenProperties
    <2> DEFINE len == Len(values)
    <2>2. /\ \A i \in 1 .. len : values[i] \in Nat
          /\ len \in Nat /\ len \in 0 .. len
      <3>1. len \in Nat /\ values \in [1 .. len -> byte]
        BY <2>1
      <3>2. byte \subseteq Nat
        OBVIOUS
      <3> HIDE DEF len, byte
      <3>3. \A i \in 1 .. len : values[i] \in byte
        BY ONLY <3>1
      <3>4. len \in 0 .. len
        BY ONLY <3>1
      <3> QED BY ONLY <3>1, <3>2, <3>3, <3>4
    <2> DEFINE total == Total(values)[len]
    <2>3. total \in Nat
      BY <2>1, <2>2, TotalType
    <2>4. ComputePeak(values, m) = Clamped(total)
      BY <1>1 DEF ComputePeak
    <2> HIDE DEF total
    <2>5. ComputePeak(values, m) \in 0 .. 255
      BY <2>3, <2>4 DEF Clamped
    <2> QED BY <2>5 DEF NewSample, Sample
  <1>2. CASE m # "stacked"
    <2>1. ComputePeak(values, m) \in 0 .. 255
      BY <1>2, FinitePeak DEF ComputePeak
    <2> QED BY <2>1 DEF NewSample, Sample
  <1> QED BY <1>1, <1>2

\* A sample whose values were cleared has no bars.
LEMMA ClearedHasNoPeak ==
    ASSUME NEW len \in Nat, NEW m, m # "stacked"
    PROVE  LET cleared == [v \in 1 .. len |-> 0] IN
           cleared \in Seq(0 .. 255) /\ NewSample(cleared, m).peak = 0
  <1> DEFINE cleared == [v \in 1 .. len |-> 0]
  <1>1. cleared \in Seq(0 .. 255)
    OBVIOUS
  <1>2. Range(cleared) \subseteq {0}
    BY DEF Range
  <1> HIDE DEF cleared
  <1>3. Max({0} \cup Range(cleared)) = 0
    BY <1>1, <1>2, FinitePeak
  <1> QED BY <1>1, <1>3 DEF NewSample, ComputePeak, cleared

LEMMA MinOfTwo ==
    ASSUME NEW a \in Int, NEW b \in Int
    PROVE  Min({a, b}) = IF a <= b THEN a ELSE b
  BY DEF Min

LEMMA MaxOfTwo ==
    ASSUME NEW a \in Int, NEW b \in Int
    PROVE  Max({a, b}) = IF a >= b THEN a ELSE b
  BY DEF Max

LEMMA ScaledType ==
    ASSUME NEW rate \in Nat \X Nat, NEW peak \in Nat \ {0}
    PROVE  Scaled(rate, peak) \in Seq(0 .. 255) /\ Scaled(rate, peak) # <<>>
  <1> DEFINE Of(n) == (Min({n, peak}) * 255) \div peak
             common == (Min({rate[1], rate[2]}) * 255) \div peak
  <1>1. ASSUME NEW n \in Nat PROVE Of(n) \in 0 .. 255
    <2> DEFINE least == Min({n, peak})
    <2>1. least \in Nat /\ least <= peak
      BY MinOfTwo
    <2> DEFINE scaled == least * 255
    <2> HIDE DEF least
    <2>2. scaled \in Nat /\ scaled <= 255 * peak
      BY <2>1
    <2>3. Of(n) = scaled \div peak
      BY DEF least
    <2> HIDE DEF scaled, Of
    <2>4. scaled \div peak \in 0 .. 255
      BY <2>2, Quotient
    <2> QED BY <2>3, <2>4
  <1>2. rate[1] \in Nat /\ rate[2] \in Nat
    OBVIOUS
  <1>3. common % 256 \in 0 .. 255
    <2>1. Min({rate[1], rate[2]}) \in Nat
      BY <1>2, MinOfTwo
    <2>2. common \in Int
      BY <2>1
    <2> HIDE DEF common
    <2> QED BY <2>2
  <1>4. Scaled(rate, peak) = <<Of(rate[1]), Of(rate[2]), common % 256>>
    BY DEF Scaled
  <1> HIDE DEF Of, common
  <1>5. Of(rate[1]) \in 0 .. 255 /\ Of(rate[2]) \in 0 .. 255
    BY <1>1, <1>2
  <1> DEFINE a == Of(rate[1])
             b == Of(rate[2])
             c == common % 256
  <1>6. a \in 0 .. 255 /\ b \in 0 .. 255 /\ c \in 0 .. 255 /\ Scaled(rate, peak) = <<a, b, c>>
    BY <1>3, <1>4, <1>5
  <1> HIDE DEF a, b, c
  <1> QED BY <1>6

-----------------------------------------------------------------------------
(* The double buffer.                                                      *)

Dblbuf == [exists : BOOLEAN, released : Seq(Buffers), frame_is_due : BOOLEAN,
           callback : BOOLEAN, held : SUBSET Buffers, attached : Int, frames : Nat,
           stale : BOOLEAN]

\* A buffer is released once, or held; and there are none of what does not exist.
BuffersAccounted(d) ==
    /\ d \in Dblbuf
    /\ \A i, j \in 1 .. Len(d.released) : d.released[i] = d.released[j] => i = j
    /\ d.exists => d.held = Buffers \ Range(d.released)
    /\ ~d.exists => d.released = <<>> /\ d.held = {}

LEMMA FrontOfDistinct ==
    ASSUME NEW S, NEW s \in Seq(S), s # <<>>,
           \A i, j \in 1 .. Len(s) : s[i] = s[j] => i = j
    PROVE  /\ Front(s) \in Seq(S) /\ Last(s) \in S
           /\ \A i, j \in 1 .. Len(Front(s)) : Front(s)[i] = Front(s)[j] => i = j
           /\ Range(Front(s)) = Range(s) \ {Last(s)}
  <1> DEFINE t == Front(s)
             n == Len(s)
  <1>1. /\ n \in Nat \ {0} /\ DOMAIN s = 1 .. n /\ n \in 1 .. n
        /\ \A i \in 1 .. n : s[i] \in S
    OBVIOUS
  <1>2. /\ t \in Seq(S) /\ Len(t) = n - 1 /\ DOMAIN t = 1 .. n - 1
        /\ \A i \in 1 .. n - 1 : t[i] = s[i]
    <2>1. /\ t \in Seq(S)
          /\ Len(t) = IF 1 <= n - 1 THEN (n - 1) - 1 + 1 ELSE 0
          /\ \A i \in 1 .. (n - 1) - 1 + 1 : t[i] = s[1 + i - 1]
      BY <1>1, SubSeqProperties DEF Front
    <2>2. DOMAIN t = 1 .. Len(t)
      BY <2>1
    <2> HIDE DEF t, n
    <2> QED BY <1>1, <2>1, <2>2
  <1>3. Last(s) = s[n]
    BY DEF Last
  <1> HIDE DEF t, n
  <1>4. \A i, j \in 1 .. n : s[i] = s[j] => i = j
    BY DEF n
  <1>5. \A i, j \in 1 .. Len(t) : t[i] = t[j] => i = j
    BY <1>1, <1>2, <1>4
  <1>6. Range(t) = Range(s) \ {Last(s)}
    <2>1. ASSUME NEW x \in Range(t) PROVE x \in Range(s) \ {Last(s)}
      <3>1. PICK i \in 1 .. n - 1 : t[i] = x
        BY <1>2 DEF Range
      <3>2. i \in 1 .. n /\ s[i] = x /\ i # n
        BY <1>1, <1>2, <3>1
      <3> QED BY <1>1, <1>3, <1>4, <3>2 DEF Range
    <2>2. ASSUME NEW x \in Range(s) \ {Last(s)} PROVE x \in Range(t)
      <3>1. PICK i \in 1 .. n : s[i] = x
        BY <1>1 DEF Range
      <3>2. i \in 1 .. n - 1
        BY <1>1, <1>3, <2>2, <3>1
      <3> QED BY <1>2, <3>1, <3>2 DEF Range
    <2> QED BY <2>1, <2>2
  <1> QED BY <1>1, <1>2, <1>3, <1>5, <1>6 DEF t

LEMMA CallbackAccounts ==
    ASSUME NEW d, BuffersAccounted(d)
    PROVE  BuffersAccounted(CallbackIfReady(d))
  <1> DEFINE e == CallbackIfReady(d)
             s == d.released
  <1>1. d \in Dblbuf /\ s \in Seq(Buffers)
    BY DEF BuffersAccounted, Dblbuf
  <1>2. CASE ~d.callback \/ ~d.frame_is_due \/ s = <<>>
    BY <1>2 DEF CallbackIfReady
  <1>3. CASE ~ (~d.callback \/ ~d.frame_is_due \/ s = <<>>)
    <2>1. /\ Front(s) \in Seq(Buffers) /\ Last(s) \in Buffers
          /\ \A i, j \in 1 .. Len(Front(s)) : Front(s)[i] = Front(s)[j] => i = j
          /\ Range(Front(s)) = Range(s) \ {Last(s)}
      BY <1>1, <1>3, FrontOfDistinct DEF BuffersAccounted
    <2> DEFINE f == [d EXCEPT !.callback = FALSE, !.frame_is_due = FALSE]
               h == [f EXCEPT !.released = Front(s), !.held = d.held \cup {Last(s)}]
               a == Last(s)
               n == d.frames + 1
    <2>2. e = [h EXCEPT !.attached = a, !.frames = n, !.stale = FALSE]
      <3>1. f.released = s /\ f.held = d.held /\ f.frames = d.frames
        BY <1>1 DEF Dblbuf
      <3>2. h.frames = d.frames
        BY <3>1
      <3>3. e = [d EXCEPT !.callback = FALSE, !.frame_is_due = FALSE,
                     !.released = Front(@), !.held = @ \cup {Last(s)},
                     !.attached = Last(s), !.frames = @ + 1, !.stale = FALSE]
        BY <1>3 DEF CallbackIfReady
      <3> QED BY <1>1, <3>1, <3>2, <3>3 DEF Dblbuf
    <2>3. a \in Int /\ n \in Nat
      BY <1>1, <2>1 DEF Buffers, Dblbuf
    <2>4. /\ e \in Dblbuf
          /\ e.exists = d.exists /\ e.released = Front(s) /\ e.held = d.held \cup {Last(s)}
      <3>1. f \in Dblbuf /\ f.exists = d.exists
        BY <1>1 DEF Dblbuf
      <3>2. d.held \cup {Last(s)} \in SUBSET Buffers
        BY <1>1, <2>1 DEF Dblbuf
      <3> HIDE DEF f, s
      <3>3. /\ h \in Dblbuf /\ h.exists = d.exists
            /\ h.released = Front(s) /\ h.held = d.held \cup {Last(s)}
        BY <2>1, <3>1, <3>2 DEF Dblbuf
      <3> HIDE DEF h, e, a, n
      <3> QED BY <2>2, <2>3, <3>3 DEF Dblbuf
    <2>5. d.exists
      BY <1>3 DEF BuffersAccounted
    <2>6. e.held = Buffers \ Range(e.released)
      <3>1. d.held = Buffers \ Range(s)
        BY <2>5 DEF BuffersAccounted
      <3>2. Last(s) \in Range(s)
        BY <1>1, <1>3 DEF Range, Last
      <3> QED BY <2>1, <2>4, <3>1, <3>2
    <2> QED BY <2>1, <2>4, <2>5, <2>6 DEF BuffersAccounted
  <1> QED BY <1>2, <1>3

\* The other functions of dblbuf.c set a flag first.
LEMMA FlagsAccount ==
    ASSUME NEW d, BuffersAccounted(d)
    PROVE  /\ BuffersAccounted(RegisterReadyCallback(d))
           /\ BuffersAccounted(FrameIsDue(d))
           /\ \A stale \in BOOLEAN : BuffersAccounted([d EXCEPT !.stale = stale])
           /\ d.frames > 0 => BuffersAccounted([d EXCEPT !.frames = @ - 1])
  <1>1. ASSUME NEW e \in Dblbuf, e.exists = d.exists, e.released = d.released, e.held = d.held
        PROVE  BuffersAccounted(e)
    BY <1>1 DEF BuffersAccounted
  <1>2. d \in Dblbuf
    BY DEF BuffersAccounted
  <1>3. BuffersAccounted([d EXCEPT !.callback = TRUE])
    BY <1>1, <1>2 DEF Dblbuf
  <1>4. BuffersAccounted([d EXCEPT !.frame_is_due = TRUE])
    BY <1>1, <1>2 DEF Dblbuf
  <1>5. \A stale \in BOOLEAN : BuffersAccounted([d EXCEPT !.stale = stale])
    BY <1>1, <1>2 DEF Dblbuf
  <1>6. d.frames > 0 => BuffersAccounted([d EXCEPT !.frames = @ - 1])
    BY <1>1, <1>2 DEF Dblbuf
  <1> QED BY <1>3, <1>4, <1>5, <1>6, CallbackAccounts DEF RegisterReadyCallback, FrameIsDue

LEMMA NewDblbufAccounts == BuffersAccounted(NewDblbuf) /\ BuffersAccounted(NoDblbuf)
  <1>1. NoDblbuf \in Dblbuf /\ NewDblbuf \in Dblbuf
    <2>1. NoDblbuf \in Dblbuf
      BY DEF NoDblbuf, Dblbuf
    <2>2. <<1, 2>> \in Seq(Buffers)
      BY DEF Buffers
    <2> DEFINE f == [NoDblbuf EXCEPT !.exists = TRUE]
               s == <<1, 2>>
               h == [f EXCEPT !.released = s]
    <2>3. f \in Dblbuf
      BY <2>1 DEF Dblbuf
    <2>4. NewDblbuf = [h EXCEPT !.frame_is_due = TRUE]
      BY DEF NewDblbuf
    <2> HIDE DEF f, s
    <2>5. h \in Dblbuf
      BY <2>2, <2>3 DEF Dblbuf, s
    <2> HIDE DEF h
    <2>6. NewDblbuf \in Dblbuf
      BY <2>4, <2>5 DEF Dblbuf
    <2> QED BY <2>1, <2>6
  <1>2. /\ NewDblbuf.exists /\ NewDblbuf.released = <<1, 2>> /\ NewDblbuf.held = {}
        /\ ~NoDblbuf.exists /\ NoDblbuf.released = <<>> /\ NoDblbuf.held = {}
    BY DEF NoDblbuf, NewDblbuf
  <1>3. Range(<<1, 2>>) = {1, 2} /\ Buffers = {1, 2}
    BY DEF Range, Buffers
  <1> QED BY <1>1, <1>2, <1>3 DEF BuffersAccounted

LEMMA ReleaseAccounts ==
    ASSUME NEW d, BuffersAccounted(d), NEW b \in d.held
    PROVE  BuffersAccounted(BufferReleased(d, b))
  <1> DEFINE e == [d EXCEPT !.held = @ \ {b}, !.released = Append(@, b)]
             s == d.released
             t == Append(s, b)
  <1>1. /\ d \in Dblbuf /\ s \in Seq(Buffers) /\ b \in Buffers
        /\ d.exists /\ d.held = Buffers \ Range(s) /\ b \notin Range(s)
    BY DEF BuffersAccounted, Dblbuf
  <1>2. /\ t \in Seq(Buffers) /\ Len(t) = Len(s) + 1 /\ Len(s) \in Nat
        /\ t[Len(s) + 1] = b /\ \A i \in 1 .. Len(s) : t[i] = s[i]
        /\ DOMAIN t = 1 .. Len(s) + 1 /\ DOMAIN s = 1 .. Len(s)
    BY <1>1
  <1>3. /\ e \in Dblbuf /\ e.exists /\ e.released = t /\ e.held = d.held \ {b}
    BY <1>1, <1>2 DEF Dblbuf
  <1>4. \A i, j \in 1 .. Len(s) : s[i] = s[j] => i = j
    BY DEF BuffersAccounted
  <1>5. \A i \in 1 .. Len(s) : s[i] # b
    BY <1>1, <1>2 DEF Range
  <1> HIDE DEF e, s, t
  <1>6. \A i, j \in 1 .. Len(t) : t[i] = t[j] => i = j
    BY <1>2, <1>4, <1>5
  <1>7. Range(t) = Range(s) \cup {b}
    BY <1>2 DEF Range
  <1>8. BuffersAccounted(e)
    BY <1>1, <1>3, <1>6, <1>7 DEF BuffersAccounted
  <1> QED BY <1>8, CallbackAccounts DEF BufferReleased, e

\* The invariant says what BuffersReleasedOrHeld says.
LEMMA AccountedIsReleasedOrHeld ==
    ASSUME BuffersAccounted(dblbuf)
    PROVE  BuffersReleasedOrHeld
  <1> DEFINE s == dblbuf.released
  <1>1. s \in Seq(Buffers) /\ Len(s) \in Nat /\ DOMAIN s = 1 .. Len(s)
    BY DEF BuffersAccounted, Dblbuf
  <1>2. \A i, j \in 1 .. Len(s) : s[i] = s[j] => i = j
    BY DEF BuffersAccounted
  <1>3. s \in Bijection(1 .. Len(s), Range(s))
    <2>1. s \in [1 .. Len(s) -> Range(s)]
      BY <1>1 DEF Range
    <2>2. \A x \in Range(s) : \E i \in 1 .. Len(s) : s[i] = x
      BY <1>1 DEF Range
    <2> HIDE DEF s
    <2> QED BY <1>2, <2>1, <2>2 DEF Bijection, Injection, Surjection, IsInjective
  <1>4. Cardinality(Range(s)) = Len(s)
    <2>1. ExistsBijection(1 .. Len(s), Range(s))
      BY <1>3 DEF ExistsBijection
    <2> HIDE DEF s
    <2> QED BY <1>1, <2>1, FS_CountingElements
  <1> QED BY <1>4 DEF BuffersAccounted, BuffersReleasedOrHeld

-----------------------------------------------------------------------------
(* The history of rates.                                                   *)

\* Where a ring's k-th newest entry is.
LEMMA Slots ==
    ASSUME NEW i \in 0 .. HistoryMax - 1, NEW k \in 1 .. HistoryMax
    PROVE  (i + HistoryMax - k) % HistoryMax = IF k <= i THEN i - k ELSE i + HistoryMax - k
  <1> DEFINE H == HistoryMax
  <1>1. H \in Nat /\ H >= 2
    BY DockAppAssumption
  <1> HIDE DEF H
  <1>2. ASSUME NEW a \in 0 .. H - 1 PROVE a % H = a /\ (a + H) % H = a
    BY <1>1
  <1>3. CASE k <= i
    <2>1. i - k \in 0 .. H - 1 /\ i + H - k = (i - k) + H
      BY <1>1, <1>3 DEF H
    <2> QED BY <1>2, <1>3, <2>1 DEF H
  <1>4. CASE ~ (k <= i)
    <2>1. i + H - k \in 0 .. H - 1
      BY <1>1, <1>4 DEF H
    <2> QED BY <1>2, <1>4, <2>1 DEF H
  <1> QED BY <1>3, <1>4

LEMMA NextSlot ==
    ASSUME NEW i \in 0 .. HistoryMax - 1
    PROVE  (i + 1) % HistoryMax = IF i = HistoryMax - 1 THEN 0 ELSE i + 1
  <1> DEFINE H == HistoryMax
  <1>1. H \in Nat /\ H >= 2
    BY DockAppAssumption
  <1> HIDE DEF H
  <1>2. H % H = 0 /\ \A a \in 0 .. H - 1 : a % H = a
    BY <1>1
  <1> QED BY <1>1, <1>2 DEF H

LEMMA PeakMaxIsGreatest ==
    /\ PeakMax \in Nat /\ PeakMax >= PeakMin
    /\ \A r \in Rates : r[1] + r[2] <= PeakMax
  <1> DEFINE T == {r[1] + r[2] : r \in Rates}
             S == {PeakMin} \cup T
  <1>1. IsFiniteSet(T)
    <2>1. [r \in Rates |-> r[1] + r[2]] \in Surjection(Rates, T)
      BY DEF Surjection
    <2> HIDE DEF T
    <2> QED BY <2>1, FS_Surjection, DockAppAssumption
  <1>2. T \subseteq Nat /\ PeakMin \in Nat
    BY DockAppAssumption
  <1> HIDE DEF T
  <1>3. IsFiniteSet(S)
    BY <1>1, FS_Singleton, FS_Union
  <1>4. S # {} /\ S \subseteq Int /\ S \subseteq Nat
    BY <1>2
  <1>5. PeakMin \in S /\ \A r \in Rates : r[1] + r[2] \in S
    BY DEF T
  <1> HIDE DEF S
  <1>6. Max(S) \in S /\ \A y \in S : Max(S) >= y
    BY <1>3, <1>4, Extremes
  <1>7. PeakMax = Max(S)
    BY DEF PeakMax, S, T
  <1> QED BY <1>2, <1>4, <1>5, <1>6, <1>7

\* The state of wlmnetgraph: the peak is 0 before the first rates are read.
NetType(n) ==
    /\ n.peak \in {0} \cup PeakMin .. PeakMax
    /\ n.history \in [0 .. HistoryMax - 1 -> Nat \X Nat]
    /\ n.index \in 0 .. HistoryMax - 1
    /\ n.num \in 0 .. HistoryMax

\* Reading rates makes them the newest, and moves the others by one.
LEMMA StatsReadMoves ==
    ASSUME NEW n, NetType(n), NEW rate \in Rates
    PROVE  LET r == StatsRead(n, rate) IN
           /\ NetType(r) /\ r.peak \in PeakMin .. PeakMax
           /\ r.history[(r.index + HistoryMax - 1) % HistoryMax] = rate
           /\ \A k \in 2 .. HistoryMax :
                 r.history[(r.index + HistoryMax - k) % HistoryMax]
                   = n.history[(n.index + HistoryMax - (k - 1)) % HistoryMax]
  <1> DEFINE r == StatsRead(n, rate)
             H == HistoryMax
             total == rate[1] + rate[2]
             followed == CASE total > n.peak -> total
                           [] total <= n.peak /\ n.peak > PeakDecayThreshold ->
                                 n.peak - n.peak \div PeakDecayDivisor
                           [] OTHER -> n.peak
             peak == Max({followed, PeakMin})
  <1>1. /\ H \in Nat /\ H >= 2 /\ PeakMin \in Nat \ {0}
        /\ PeakDecayDivisor \in Nat \ {0} /\ PeakDecayThreshold \in Nat
        /\ rate \in Nat \X Nat /\ rate[1] \in Nat /\ rate[2] \in Nat
        /\ n.peak \in Nat /\ (n.peak = 0 \/ n.peak <= PeakMax)
    BY DockAppAssumption, PeakMaxIsGreatest DEF NetType
  <1>2. total \in Nat /\ total <= PeakMax /\ PeakMax \in Nat /\ PeakMin <= PeakMax
    BY <1>1, PeakMaxIsGreatest
  <1>3. followed \in Nat /\ followed <= PeakMax
    <2> DEFINE decay == n.peak \div PeakDecayDivisor
    <2>1. decay \in 0 .. n.peak
      <3>1. n.peak <= n.peak * PeakDecayDivisor
        BY <1>1
      <3> QED BY <1>1, <3>1, Quotient
    <2> HIDE DEF decay, total
    <2>2. n.peak - decay \in Nat /\ n.peak - decay <= PeakMax
      BY <1>1, <1>2, <2>1
    <2>3. CASE total > n.peak
      BY <1>1, <1>2, <2>3 DEF total
    <2>4. CASE total <= n.peak /\ n.peak > PeakDecayThreshold
      BY <1>1, <1>2, <2>2, <2>4 DEF decay, total
    <2>5. CASE total <= n.peak /\ ~ (n.peak > PeakDecayThreshold)
      BY <1>1, <1>2, <2>5 DEF total
    <2> HIDE DEF followed
    <2> QED BY <1>1, <1>2, <2>3, <2>4, <2>5
  <1>4. r = [peak |-> peak,
             scale |-> IF peak = n.peak THEN n.scale ELSE ScaleIndexCeil(peak),
             history |-> [n.history EXCEPT ![n.index] = rate],
             index |-> (n.index + 1) % H,
             num |-> Min({n.num + 1, H})]
    BY DEF StatsRead
  <1>a. /\ r.peak = peak /\ r.history = [n.history EXCEPT ![n.index] = rate]
        /\ r.index = (n.index + 1) % H /\ r.num = Min({n.num + 1, H})
    <2> HIDE DEF peak, r
    <2> QED BY <1>4
  <1> HIDE DEF followed, total
  <1>5. peak \in PeakMin .. PeakMax
    <2>1. peak = IF followed >= PeakMin THEN followed ELSE PeakMin
      BY <1>1, <1>3, MaxOfTwo
    <2> QED BY <1>1, <1>2, <1>3, <2>1
  <1> HIDE DEF peak, r, H
  <1>6. /\ n.index \in 0 .. H - 1 /\ n.num \in 0 .. H
        /\ n.history \in [0 .. H - 1 -> Nat \X Nat]
    BY DEF NetType, H
  <1>7. /\ r.index = (IF n.index = H - 1 THEN 0 ELSE n.index + 1)
        /\ r.index \in 0 .. H - 1
    <2>1. (n.index + 1) % H = IF n.index = H - 1 THEN 0 ELSE n.index + 1
      BY <1>6, NextSlot DEF H
    <2> QED BY <1>1, <1>a, <1>6, <2>1
  <1>8. /\ r.history = [n.history EXCEPT ![n.index] = rate]
        /\ r.history \in [0 .. H - 1 -> Nat \X Nat]
    <2> DEFINE past == n.history
               slot == n.index
    <2>1. /\ past \in [0 .. H - 1 -> Nat \X Nat] /\ slot \in 0 .. H - 1
          /\ r.history = [past EXCEPT ![slot] = rate] /\ rate \in Nat \X Nat
      BY <1>1, <1>a, <1>6
    <2> HIDE DEF past, slot
    <2>2. r.history \in [0 .. H - 1 -> Nat \X Nat]
      BY <2>1
    <2> QED BY <1>a, <2>2
  <1>9. r.num \in 0 .. H
    <2>1. r.num = IF n.num + 1 <= H THEN n.num + 1 ELSE H
      <3> DEFINE next == n.num + 1
      <3>1. next \in Int /\ H \in Int /\ r.num = Min({next, H})
        BY <1>1, <1>a, <1>6
      <3> HIDE DEF next
      <3>2. r.num = IF next <= H THEN next ELSE H
        BY <3>1, MinOfTwo
      <3> QED BY <3>2 DEF next
    <2> QED BY <1>1, <1>6, <2>1
  <1>10. NetType(r) /\ r.peak \in PeakMin .. PeakMax
    BY <1>a, <1>5, <1>7, <1>8, <1>9 DEF NetType, H
  <1>11. r.history[(r.index + H - 1) % H] = rate
    <2>1. (r.index + H - 1) % H = n.index
      <3>1. (r.index + H - 1) % H = IF 1 <= r.index THEN r.index - 1 ELSE r.index + H - 1
        BY <1>1, <1>7, Slots DEF H
      <3> QED BY <1>1, <1>6, <1>7, <3>1
    <2> QED BY <1>6, <1>8, <2>1
  <1>12. ASSUME NEW k \in 2 .. H
         PROVE  r.history[(r.index + H - k) % H] = n.history[(n.index + H - (k - 1)) % H]
    <2>1. k \in 1 .. H /\ k - 1 \in 1 .. H
      BY <1>1
    <2>2. (r.index + H - k) % H = IF k <= r.index THEN r.index - k ELSE r.index + H - k
      BY <1>7, <2>1, Slots DEF H
    <2>3. (n.index + H - (k - 1)) % H
              = IF k - 1 <= n.index THEN n.index - (k - 1) ELSE n.index + H - (k - 1)
      BY <1>6, <2>1, Slots DEF H
    <2>4. /\ (r.index + H - k) % H = (n.index + H - (k - 1)) % H
          /\ (r.index + H - k) % H \in 0 .. H - 1 /\ (r.index + H - k) % H # n.index
      <3> DEFINE a == (r.index + H - k) % H
                 b == (n.index + H - (k - 1)) % H
      <3>1. /\ a = (IF k <= r.index THEN r.index - k ELSE r.index + H - k)
            /\ b = (IF k - 1 <= n.index THEN n.index - (k - 1) ELSE n.index + H - (k - 1))
        BY <2>2, <2>3
      <3> HIDE DEF a, b
      <3>2. a = b /\ a \in 0 .. H - 1 /\ a # n.index
        <4>1. CASE n.index = H - 1
          <5>1. r.index = 0 /\ a = H - k /\ b = H - k
            BY <1>1, <1>7, <3>1, <4>1
          <5> QED BY <1>1, <4>1, <5>1
        <4>2. CASE n.index # H - 1
          <5>1. r.index = n.index + 1 /\ n.index \in Int
            BY <1>6, <1>7, <4>2
          <5>2. CASE k <= n.index + 1
            <6>1. a = n.index + 1 - k /\ b = n.index + 1 - k
              BY <1>1, <3>1, <5>1, <5>2
            <6>2. /\ n.index \in Int /\ k \in Int /\ H \in Int /\ n.index <= H - 1
                  /\ 2 <= k /\ k <= n.index + 1
              BY <1>1, <1>6, <5>2
            <6>3. a \in Int /\ 0 <= a /\ a < n.index
              BY <6>1, <6>2
            <6> QED BY <6>1, <6>2, <6>3
          <5>3. CASE ~ (k <= n.index + 1)
            <6>1. a = n.index + 1 + H - k /\ b = n.index + 1 + H - k
              BY <1>1, <3>1, <5>1, <5>3
            <6>2. /\ n.index \in Int /\ k \in Int /\ H \in Int /\ 0 <= n.index
                  /\ n.index + 2 <= k /\ k <= H
              BY <1>1, <1>6, <5>3
            <6>3. a \in Int /\ n.index + 1 <= a /\ a <= H - 1
              BY <6>1, <6>2
            <6> QED BY <6>1, <6>2, <6>3
          <5> QED BY <5>2, <5>3
        <4> QED BY <4>1, <4>2
      <3> QED BY <3>2 DEF a, b
    <2> QED BY <1>6, <1>8, <2>4
  <1> QED BY <1>10, <1>11, <1>12 DEF r, H

-----------------------------------------------------------------------------
(* The inductive invariant.                                                *)

GraphInv(g, m) ==
    /\ IsGraph(g) /\ NoBarAbove(g) /\ Shows(g, m)
    /\ g.width \in Sizes

\* Whatever has a bar has the values of its own rates.
Kept(g, n) ==
    \A k \in 1 .. g.width :
        k <= HistoryMax /\ g.samples[k].peak > 0 =>
            \E peak \in PeakMin .. PeakMax :
                g.samples[k].values
                  = Scaled(n.history[(n.index + HistoryMax - k) % HistoryMax], peak)

IInv ==
    /\ mode \in {"independent", "stacked"}
    /\ GraphInv(graph, mode)
    /\ NetType(net)
    /\ mode = "independent" /\ ~crashed => Kept(graph, net)
    /\ BuffersAccounted(dblbuf)

\* A graph of another size has no bars yet.
LEMMA ResizedIsBlank ==
    ASSUME NEW size \in Sizes, NEW l \in Leftovers(size), NEW m, NEW n
    PROVE  LET r == RebuildFromSamples(BuffersResize(size, l), m) IN
           GraphInv(r, m) /\ Kept(r, n)
  <1> DEFINE g == BuffersResize(size, l)
             r == RebuildFromSamples(g, m)
             blank == [i \in 1 .. size |-> NoSample]
  <1>1. size \in Nat /\ size >= 2
    BY DockAppAssumption
  <1>2. IsPicture(l, size)
    BY DEF Leftovers, IsPicture, Grid
  <1>3. blank \in Seq(Sample) /\ Len(blank) = size
    <2>1. NoSample \in Sample
      BY DEF NoSample, Sample
    <2> QED BY <1>1, <2>1
  <1>4. g = [width |-> size, height |-> size, samples |-> blank,
             pixels |-> l, yMin |-> size, peakAge |-> 0]
    BY DEF BuffersResize
  <1>5. \A i \in 1 .. size : blank[i].peak = 0
    BY DEF NoSample
  <1> HIDE DEF g, blank, r
  <1>6. IsGraph(g) /\ g.width = size /\ g.samples = blank
    BY <1>1, <1>2, <1>3, <1>4 DEF IsGraph
  <1>7. \A i \in 1 .. g.width : g.samples[i].peak = 0
    BY <1>5, <1>6
  <1>8. /\ IsGraph(r) /\ NoBarAbove(r) /\ Shows(r, m)
        /\ r.width = g.width /\ r.samples = g.samples
    BY <1>6, <1>7, RebuildShows DEF r
  <1>9. Kept(r, n)
    BY <1>7, <1>8 DEF Kept
  <1> QED BY <1>6, <1>8, <1>9 DEF GraphInv, r, g

\* Samples that are regenerated: those with a history get its values, the
\* others get no bars.
LEMMA RegeneratedSamples ==
    ASSUME NEW n, NetType(n), n.peak \in PeakMin .. PeakMax, mode = "independent",
           NEW samples \in Seq(Sample)
    PROVE  LET r == Regenerated(n, samples) IN
           /\ r \in Seq(Sample) /\ Len(r) = Len(samples)
           /\ \A i \in 1 .. Len(samples) :
                 \/ r[i].peak = 0
                 \/ /\ i + 1 <= HistoryMax
                    /\ r[i].values
                         = Scaled(n.history[(n.index + HistoryMax - (i + 1)) % HistoryMax],
                                  n.peak)
  <1> DEFINE r == Regenerated(n, samples)
             num == NumRegenerated(n, samples)
             H == HistoryMax
             values(i) == IF i <= num THEN Scaled(HistoryOf(n, i), n.peak)
                          ELSE [v \in DOMAIN samples[i].values |-> 0]
  <1>1. /\ H \in Nat /\ H >= 2 /\ n.peak \in Nat \ {0} /\ Len(samples) \in Nat
        /\ DOMAIN samples = 1 .. Len(samples)
    BY DockAppAssumption, PeakMaxIsGreatest
  <1>2. num \in 0 .. H - 1
    <2>1. n.num \in 0 .. H
      BY DEF NetType
    <2>2. CASE n.num > 1
      <3> DEFINE a == Len(samples)
                 b == n.num - 1
      <3>1. a \in Nat /\ b \in 0 .. H - 1 /\ num = Min({a, b})
        BY <1>1, <2>1, <2>2 DEF NumRegenerated
      <3> HIDE DEF a, b, num
      <3> QED BY <1>1, <3>1, MinOfTwo
    <2>3. CASE ~ (n.num > 1)
      BY <1>1, <2>3 DEF NumRegenerated
    <2> QED BY <2>2, <2>3
  <1> HIDE DEF num, H
  <1>3. ASSUME NEW i \in 1 .. Len(samples)
        PROVE  /\ NewSample(values(i), mode) \in Sample
               /\ \/ NewSample(values(i), mode).peak = 0
                  \/ /\ i + 1 <= H
                     /\ NewSample(values(i), mode).values
                          = Scaled(n.history[(n.index + H - (i + 1)) % H], n.peak)
    <2>1. CASE i <= num
      <3>1. i + 1 <= H /\ i + 1 \in 1 .. H
        BY <1>1, <1>2, <2>1
      <3>2. HistoryOf(n, i) = n.history[(n.index + H - (i + 1)) % H]
        <4>1. n.index + H - 2 - (i - 1) = n.index + H - (i + 1)
          BY <1>1 DEF NetType, H
        <4> QED BY <4>1 DEF HistoryOf, H
      <3>3. HistoryOf(n, i) \in Nat \X Nat
        <4>1. (n.index + H - (i + 1)) % H \in 0 .. H - 1
          <5> DEFINE a == n.index + H - (i + 1)
          <5>1. a \in Int
            BY <1>1 DEF NetType, H
          <5> HIDE DEF a
          <5>2. a % H \in 0 .. H - 1
            BY <1>1, <5>1
          <5> QED BY <5>2 DEF a
        <4> QED BY <3>2, <4>1 DEF NetType, H
      <3> DEFINE rate == HistoryOf(n, i)
                 v == Scaled(rate, n.peak)
      <3>4. v \in Seq(0 .. 255)
        BY <1>1, <3>3, ScaledType
      <3>5. values(i) = v
        BY <2>1
      <3> HIDE DEF v, values
      <3>6. NewSample(v, mode) \in Sample /\ NewSample(v, mode).values = v
        BY <3>4, NewSampleType
      <3> QED BY <3>1, <3>2, <3>5, <3>6 DEF v
    <2>2. CASE ~ (i <= num)
      <3> DEFINE len == Len(samples[i].values)
                 v == [k \in 1 .. len |-> 0]
      <3>1. len \in Nat /\ DOMAIN samples[i].values = 1 .. len
        <4>1. samples[i] \in Sample
          BY <1>1
        <4> DEFINE byte == 0 .. 255
        <4>2. samples[i].values \in Seq(byte)
          BY <4>1 DEF Sample
        <4> HIDE DEF byte
        <4> QED BY <4>2, LenProperties
      <3>2. values(i) = v
        BY <2>2, <3>1
      <3> HIDE DEF len
      <3>3. v \in Seq(0 .. 255) /\ NewSample(v, mode).peak = 0
        BY <3>1, ClearedHasNoPeak
      <3> HIDE DEF v, values
      <3>4. NewSample(v, mode) \in Sample
        BY <3>3, NewSampleType
      <3> QED BY <3>2, <3>3, <3>4
    <2> QED BY <2>1, <2>2
  <1>4. r = [i \in 1 .. Len(samples) |-> NewSample(values(i), mode)]
    BY <1>1 DEF Regenerated, num
  <1> HIDE DEF r, values
  <1>5. r \in Seq(Sample) /\ Len(r) = Len(samples)
    BY <1>1, <1>3, <1>4
  <1> QED BY <1>3, <1>4, <1>5 DEF r, H

\* Rates that are read: the samples move by one as the history does, or are
\* regenerated from it.
LEMMA NetSampleKeeps ==
    ASSUME IInv, NEW rate \in Rates, ~crashed, NetSampleUpdate(rate)
    PROVE  GraphInv(graph', mode) /\ NetType(net') /\ (~crashed' => Kept(graph', net'))
  <1> DEFINE read == StatsRead(net, rate)
             w == graph.width
             H == HistoryMax
             older == SubSeq(graph.samples, 1, w - 1)
             values == Scaled(rate, read.peak)
             sample == NewSample(values, mode)
             Rated(k) == read.history[(read.index + H - k) % H]
  <1>1. /\ IsGraph(graph) /\ NoBarAbove(graph) /\ Shows(graph, mode) /\ w \in Sizes
        /\ w \in Nat \ {0} /\ w >= 2
        /\ graph.samples \in Seq(Sample) /\ Len(graph.samples) = w
        /\ mode = "independent" /\ NetType(net) /\ Kept(graph, net)
        /\ rate \in Nat \X Nat
    BY DockAppAssumption DEF IInv, GraphInv, IsGraph, NetSampleUpdate
  <1>2. /\ NetType(read) /\ read.peak \in PeakMin .. PeakMax
        /\ Rated(1) = rate
        /\ \A k \in 2 .. H : Rated(k) = net.history[(net.index + H - (k - 1)) % H]
    BY <1>1, StatsReadMoves
  <1>3. /\ net' = read
        /\ IF read.scale = net.scale
           THEN graph' = UpdateWithSample(graph, sample, mode)
           ELSE graph' = IF crashed' THEN graph
                         ELSE RebuildFromSamples(
                                [graph EXCEPT !.samples = <<sample>> \o Regenerated(read, older)],
                                mode)
    BY DEF NetSampleUpdate
  <1>4. read.peak \in Nat \ {0}
    BY <1>2, DockAppAssumption, PeakMaxIsGreatest
  <1> HIDE DEF read
  <1>5. values \in Seq(0 .. 255) /\ values # <<>>
    BY <1>1, <1>4, ScaledType
  <1>6. sample \in Sample /\ sample.values = values /\ values = Scaled(Rated(1), read.peak)
    <2>1. values = Scaled(Rated(1), read.peak)
      BY <1>2
    <2> HIDE DEF values
    <2> QED BY <1>5, <2>1, NewSampleType
  <1> HIDE DEF w, values, sample, older, Rated, H
  <1>7. CASE read.scale = net.scale
    <2>1. /\ IsGraph(graph') /\ NoBarAbove(graph') /\ Shows(graph', mode)
          /\ graph'.width = w /\ graph'.samples = Pushed(graph, sample)
      BY <1>1, <1>3, <1>6, <1>7, UpdateShows DEF w
    <2>2. /\ graph'.samples[1] = sample
          /\ \A k \in 2 .. w : graph'.samples[k] = graph.samples[k - 1]
      BY <1>1, <1>6, <2>1, PushedSamples DEF Pushed, w
    <2>3. ASSUME NEW k \in 1 .. w, k <= H, graph'.samples[k].peak > 0
          PROVE  \E peak \in PeakMin .. PeakMax :
                     graph'.samples[k].values = Scaled(Rated(k), peak)
      <3>1. CASE k = 1
        BY <1>2, <1>6, <2>2, <3>1
      <3>2. CASE k # 1
        <4>1. /\ k \in 2 .. w /\ k - 1 \in 1 .. w /\ k \in 2 .. H /\ k - 1 <= H
          <5>1. H \in Nat
            BY DockAppAssumption DEF H
          <5> QED BY <1>1, <2>3, <3>2, <5>1
        <4>2. graph'.samples[k] = graph.samples[k - 1]
          BY <2>2, <4>1
        <4>3. PICK peak \in PeakMin .. PeakMax :
                  graph.samples[k - 1].values
                    = Scaled(net.history[(net.index + H - (k - 1)) % H], peak)
          BY <1>1, <2>3, <4>1, <4>2 DEF Kept, w, H
        <4>4. Rated(k) = net.history[(net.index + H - (k - 1)) % H]
          BY <1>2, <4>1
        <4> QED BY <4>2, <4>3, <4>4
      <3> QED BY <3>1, <3>2
    <2>4. Kept(graph', read)
      BY <2>1, <2>3 DEF Kept, Rated, H
    <2> QED BY <1>1, <1>2, <1>3, <2>1, <2>4 DEF GraphInv
  <1>8. CASE read.scale # net.scale /\ crashed'
    <2>1. graph' = graph /\ net' = read
      BY <1>3, <1>8
    <2>2. GraphInv(graph, mode) /\ NetType(read)
      BY <1>1, <1>2 DEF GraphInv, w
    <2> QED BY <1>8, <2>1, <2>2
  <1>9. CASE read.scale # net.scale /\ ~crashed'
    <2> DEFINE again == Regenerated(read, older)
               samples == <<sample>> \o again
               g == [graph EXCEPT !.samples = samples]
    <2>1. older \in Seq(Sample) /\ Len(older) = w - 1
      BY <1>1 DEF older
    <2>2. /\ again \in Seq(Sample) /\ Len(again) = w - 1
          /\ \A i \in 1 .. w - 1 :
                \/ again[i].peak = 0
                \/ i + 1 <= H /\ again[i].values = Scaled(Rated(i + 1), read.peak)
      BY <1>1, <1>2, <2>1, RegeneratedSamples DEF Rated, H
    <2> HIDE DEF again
    <2>3. /\ samples \in Seq(Sample) /\ Len(samples) = w
          /\ Head(samples) = sample /\ samples[1] = sample
          /\ \A k \in 2 .. w : samples[k] = again[k - 1]
      BY <1>1, <1>6, <2>2
    <2> HIDE DEF samples
    <2>4. g = [width |-> w, height |-> w, samples |-> samples, pixels |-> graph.pixels,
               yMin |-> graph.yMin, peakAge |-> graph.peakAge]
      BY <1>1 DEF IsGraph, w
    <2>5. graph' = RebuildFromSamples(g, mode)
      BY <1>3, <1>9 DEF again, samples
    <2> HIDE DEF g
    <2>6. IsGraph(g) /\ g.width = w /\ g.samples = samples /\ Head(g.samples).values # <<>>
      BY <1>1, <1>5, <1>6, <2>3, <2>4 DEF IsGraph, w
    <2>7. /\ IsGraph(graph') /\ NoBarAbove(graph') /\ Shows(graph', mode)
          /\ graph'.width = w /\ graph'.samples = samples
      BY <2>5, <2>6, RebuildShows
    <2>8. ASSUME NEW k \in 1 .. w, k <= H, samples[k].peak > 0
          PROVE  \E peak \in PeakMin .. PeakMax :
                     samples[k].values = Scaled(Rated(k), peak)
      <3>1. CASE k = 1
        BY <1>2, <1>6, <2>3, <3>1
      <3>2. CASE k # 1
        <4> DEFINE i == k - 1
        <4>1. k \in 2 .. w /\ i \in 1 .. w - 1 /\ i + 1 = k
          BY <1>1, <3>2
        <4>2. samples[k] = again[i]
          BY <2>3, <4>1
        <4> HIDE DEF i
        <4>3. again[i].peak # 0
          BY <2>8, <4>2
        <4>4. samples[k].values = Scaled(Rated(k), read.peak)
          BY <2>2, <4>1, <4>2, <4>3
        <4> QED BY <1>2, <4>4
      <3> QED BY <3>1, <3>2
    <2>9. Kept(graph', read)
      BY <2>7, <2>8 DEF Kept, Rated, H
    <2> QED BY <1>1, <1>2, <1>3, <2>7, <2>9 DEF GraphInv
  <1> QED BY <1>7, <1>8, <1>9

LEMMA MemSampleKeeps ==
    ASSUME IInv, NEW values \in StackedValues, MemSampleUpdate(values)
    PROVE  GraphInv(graph', mode) /\ NetType(net')
  <1>1. IsGraph(graph) /\ NoBarAbove(graph) /\ Shows(graph, mode) /\ graph.width \in Sizes
    BY DEF IInv, GraphInv
  <1>2. NewSample(values, mode) \in Sample
    <2>1. values \in Seq(0 .. 255)
      BY DockAppAssumption
    <2> QED BY <2>1, NewSampleType
  <1>3. /\ IsGraph(graph') /\ NoBarAbove(graph') /\ Shows(graph', mode)
        /\ graph'.width = graph.width
    <2>1. graph' = UpdateWithSample(graph, NewSample(values, mode), mode)
      BY DEF MemSampleUpdate
    <2> QED BY <1>1, <1>2, <2>1, UpdateShows
  <1> QED BY <1>1, <1>3 DEF GraphInv, IInv, MemSampleUpdate

LEMMA TimerKeeps ==
    ASSUME IInv, Timer
    PROVE  IInv'
  <1>1. mode' = mode /\ mode \in {"independent", "stacked"}
    BY DEF IInv, Timer
  <1>2. /\ GraphInv(graph', mode) /\ NetType(net')
        /\ mode = "independent" /\ ~crashed' => Kept(graph', net')
    <2>1. ASSUME NEW rate \in Rates, NetSampleUpdate(rate) PROVE <1>2
      BY <2>1, NetSampleKeeps DEF Timer
    <2>2. ASSUME NEW values \in StackedValues, MemSampleUpdate(values) PROVE <1>2
      BY <2>2, MemSampleKeeps DEF MemSampleUpdate
    <2>3. CASE UNCHANGED <<graph, net, crashed>>
      BY <2>3 DEF IInv
    <2> QED BY <2>1, <2>2, <2>3 DEF Timer
  <1>3. BuffersAccounted(dblbuf')
    <2>1. BuffersAccounted(dblbuf) /\ dblbuf.stale \in BOOLEAN
      BY DEF IInv, BuffersAccounted, Dblbuf
    <2> DEFINE stale == dblbuf.stale \/ graph' # graph
               d == [dblbuf EXCEPT !.stale = stale]
    <2>2. stale \in BOOLEAN
      OBVIOUS
    <2>3. dblbuf' = dblbuf \/ dblbuf' = RegisterReadyCallback(d)
      BY DEF Timer
    <2> HIDE DEF stale
    <2>4. BuffersAccounted(d)
      BY <2>1, <2>2, FlagsAccount
    <2> HIDE DEF d
    <2> QED BY <2>1, <2>3, <2>4, FlagsAccount
  <1> QED BY <1>1, <1>2, <1>3 DEF IInv

LEMMA ConfigureKeeps ==
    ASSUME IInv, NEW size \in Sizes, Configure(size)
    PROVE  IInv'
  <1>1. mode' = mode /\ net' = net /\ crashed' = crashed
    BY DEF Configure
  <1>2. BuffersAccounted(dblbuf')
    BY NewDblbufAccounts, FlagsAccount DEF Configure
  <1>3. CASE size = graph.width
    BY <1>1, <1>2, <1>3 DEF IInv, Configure
  <1>4. CASE size # graph.width
    <2>1. PICK l \in Leftovers(size) :
              graph' = RebuildFromSamples(BuffersResize(size, l), mode)
      BY <1>4 DEF Configure
    <2>2. GraphInv(graph', mode) /\ Kept(graph', net)
      BY <2>1, ResizedIsBlank
    <2> QED BY <1>1, <1>2, <2>2 DEF IInv
  <1> QED BY <1>3, <1>4

LEMMA InvarianceStep == IInv /\ [Next]_vars => IInv'
  <1> SUFFICES ASSUME IInv, [Next]_vars PROVE IInv'
    OBVIOUS
  <1>1. CASE Timer
    BY <1>1, TimerKeeps
  <1>2. ASSUME NEW size \in Sizes, Configure(size) PROVE IInv'
    BY <1>2, ConfigureKeeps
  <1>3. ASSUME BuffersAccounted(dblbuf'), UNCHANGED <<mode, graph, net>>,
               crashed' = crashed \/ crashed'
        PROVE  IInv'
    BY <1>3 DEF IInv
  <1>4. BuffersAccounted(dblbuf)
    BY DEF IInv
  <1>5. CASE FrameDone
    <2>1. BuffersAccounted([dblbuf EXCEPT !.frames = @ - 1])
      BY <1>4, <1>5, FlagsAccount DEF FrameDone
    <2>2. BuffersAccounted(dblbuf')
      BY <1>5, <2>1, FlagsAccount DEF FrameDone
    <2> QED BY <1>3, <1>5, <2>2 DEF FrameDone
  <1>6. ASSUME NEW armed \in BOOLEAN, OrphanFrameDone(armed) PROVE IInv'
    <2>1. BuffersAccounted(dblbuf')
      BY <1>4, <1>6, FlagsAccount DEF OrphanFrameDone
    <2>2. UNCHANGED <<mode, graph, net>> /\ (crashed' = crashed \/ crashed')
      BY <1>6 DEF OrphanFrameDone
    <2> QED BY <1>3, <2>1, <2>2
  <1>7. ASSUME NEW b \in Buffers, Release(b) PROVE IInv'
    <2>1. BuffersAccounted(dblbuf')
      BY <1>4, <1>7, ReleaseAccounts DEF Release
    <2> QED BY <1>3, <1>7, <2>1 DEF Release
  <1>8. CASE UNCHANGED vars
    BY <1>8 DEF IInv, vars
  <1> QED BY <1>1, <1>2, <1>5, <1>6, <1>7, <1>8 DEF Next

\* What the properties below follow from, in every reachable state.
THEOREM Invariance == Spec => []IInv
  <1>1. Init => IInv
    <2> SUFFICES ASSUME Init PROVE IInv
      OBVIOUS
    <2>1. mode \in {"independent", "stacked"}
      BY DEF Init
    <2>2. PICK l \in Leftovers(InitialSize) :
              graph = RebuildFromSamples(BuffersResize(InitialSize, l), mode)
      BY DEF Init
    <2>3. GraphInv(graph, mode) /\ Kept(graph, net)
      BY <2>2, ResizedIsBlank, DockAppAssumption
    <2>4. NetType(net)
      <3>1. /\ net.peak = 0 /\ net.index = 0 /\ net.num = 0
            /\ net.history = [i \in 0 .. HistoryMax - 1 |-> <<0, 0>>]
        BY DEF Init
      <3> QED BY <3>1, DockAppAssumption DEF NetType
    <2>5. BuffersAccounted(dblbuf)
      BY NewDblbufAccounts DEF Init
    <2> QED BY <2>1, <2>3, <2>4, <2>5 DEF IInv
  <1> QED BY <1>1, InvarianceStep, PTL DEF Spec

-----------------------------------------------------------------------------
(* What the runs check.                                                    *)

\* Whatever the order of frames, releases and configure events, also when a
\* callback of a double buffer that is gone arrives at the new one: no buffer
\* is drawn into while the compositor may be reading it.
THEOREM BuffersAreReleasedOrHeld == Spec => []BuffersReleasedOrHeld
  <1>1. IInv => BuffersReleasedOrHeld
    BY AccountedIsReleasedOrHeld DEF IInv
  <1> QED BY <1>1, Invariance, PTL

\* For every size of the graph and all values: scrolling leaves the bars that
\* drawing anew would give.
THEOREM BarsAreShown == Spec => []BarsShowSamples
  <1>1. IInv => BarsShowSamples
    BY DEF IInv, GraphInv, Shows, BarsShowSamples
  <1> QED BY <1>1, Invariance, PTL

\* For all rates, and every length of the history and size of the graph: a
\* column that has a bar shows the rates of its own interval.
THEOREM SamplesHaveTheirRates == Spec => []SamplesKeepTheirRates
  <1>1. IInv => SamplesKeepTheirRates
    <2> SUFFICES ASSUME IInv, mode = "independent", ~crashed,
                        NEW k \in 1 .. Min({graph.width, HistoryMax}),
                        graph.samples[k].peak > 0
                 PROVE  \E peak \in PeakMin .. PeakMax :
                            graph.samples[k].values =
                               Scaled(net.history[(net.index + HistoryMax - k) % HistoryMax],
                                      peak)
      BY DEF SamplesKeepTheirRates
    <2>1. graph.width \in Int /\ HistoryMax \in Int
      BY DockAppAssumption DEF IInv, GraphInv
    <2>2. k \in 1 .. graph.width /\ k <= HistoryMax
      BY <2>1, MinOfTwo
    <2> QED BY <2>2 DEF IInv, Kept
  <1> QED BY <1>1, Invariance, PTL
=============================================================================
