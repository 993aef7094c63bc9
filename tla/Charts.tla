------------------------------- MODULE Charts -------------------------------
(***************************************************************************)
(* What chart.c draws: a bar graph of points over time and a pie of named   *)
(* shares.  Colours, texts and the frame are left out; what is left is      *)
(* which column or slice a figure ends up in, and where that lies.         *)
(*                                                                         *)
(* A point is a record of date and value; the array of points is a         *)
(* function from dates to values, as the query gives one row per second.   *)
(* An average is kept as the pair of a sum and a count.                    *)
(***************************************************************************)
EXTENDS Integers, Sequences, FiniteSets, FiniteSetsExt, SequencesExt, Functions

CONSTANTS
  PlotWidth,   \* columns of the plot, width - _SPX - _EPX - 4
  PlotHeight,  \* height - spy - epy - 4
  MaxColor,    \* CHART_MAX_COLOR
  RoundsUp     \* the <<part, sum>> whose part * (360 / sum) is too large in doubles

ASSUME ChartsAssumption ==
  /\ PlotWidth \in Nat \ {0}
  /\ PlotHeight \in Nat \ {0}
  /\ MaxColor \in Nat \ {0}
  /\ RoundsUp \subseteq (Nat \ {0}) \X Nat

CeilDiv(a, b) == -((-a) \div b)

-----------------------------------------------------------------------------
(* Bars.                                                                   *)

\* chart_get_min, chart_get_max: -1 when there are no points.
get_min(data) == IF DOMAIN data = {} THEN -1 ELSE Min(DOMAIN data)
get_max(data) == IF DOMAIN data = {} THEN -1 ELSE Max(DOMAIN data)

\* chart_fill_data: a second without a point counts as 0 (chart_get_value).
fill_data(data, first, last) ==
  [d \in first..last |-> IF d \in DOMAIN data THEN data[d] ELSE 0]

\* chart_get_average: over the seconds from cur up to next.  The index it
\* keeps only saves it from looking at the earlier ones again.
get_average(filled, cur, next) ==
  LET in == {d \in DOMAIN filled : cur <= d /\ d < next}
  IN <<SumFunctionOnSet(filled, in), Cardinality(in)>>

\* Seeded fault: no column has the last second.
ColumnShort(first, last, i) ==
  LET at(k) == first + CeilDiv(k * (last - first), PlotWidth)
  IN [from |-> at(i), to |-> at(i + 1)]

\* The seconds of column i (from 0): the last one reaches a column further, so
\* that it takes in the last second.
Column(first, last, i) ==
  LET at(k) == first + CeilDiv(k * (last - first), PlotWidth)
  IN [from |-> at(i), to |-> at(IF i = PlotWidth - 1 THEN i + 2 ELSE i + 1)]

\* chart_approximate_data: at least a second for a column.
approximate_data(data) ==
  LET first == get_min(data)
      last  == IF get_max(data) - first < PlotWidth THEN first + PlotWidth
                                                    ELSE get_max(data)
      filled == fill_data(data, first, last)
  IN [i \in 0..(PlotWidth - 1) |->
        LET c == Column(first, last, i)
        IN [from |-> c.from, to |-> c.to,
            value |-> get_average(filled, c.from, c.to)]]

\* ceil(chart_get_max_value)
get_max_value(columns) ==
  Max({IF c.value[2] = 0 THEN 0 ELSE CeilDiv(c.value[1], c.value[2]) : c \in Range(columns)})

\* chart_create_bars: the loop starts at the second column and draws those
\* with a value.
create_bars(data) ==
  LET columns == approximate_data(data)
      most    == get_max_value(columns)
  IN {[from |-> columns[i].from, to |-> columns[i].to,
       high |-> (columns[i].value[1] * PlotHeight) \div (columns[i].value[2] * most)] :
        i \in {j \in 1..(PlotWidth - 1) : columns[j].value[1] > 0}}

-----------------------------------------------------------------------------
(* Pies: sequences of slices with name and value.                          *)

\* Seeded fault: the smallest that is left.
SortPieUp(data) ==
  LET After(i, j) == data[i].value < data[j].value
                       \/ (data[i].value = data[j].value /\ i > j)
  IN [k \in DOMAIN data |->
        data[CHOOSE i \in DOMAIN data :
               Cardinality({j \in DOMAIN data : After(j, i)}) = k - 1]]

\* chart_sort_pie_array: the largest that is left, the last of equal ones.
sort_pie_array(data) ==
  LET After(i, j) == data[i].value > data[j].value
                       \/ (data[i].value = data[j].value /\ i > j)
  IN [k \in DOMAIN data |->
        data[CHOOSE i \in DOMAIN data :
               Cardinality({j \in DOMAIN data : After(j, i)}) = k - 1]]

Sum(slices) == FoldLeft(LAMBDA acc, s : acc + s.value, 0, slices)

\* chart_norm_pie_array: as many as there are colours, the last for the rest.
norm_pie_array(slices) ==
  LET max  == Min({MaxColor - 1, Len(slices)})
      rest == Sum(SubSeq(slices, max + 1, Len(slices)))
  IN SubSeq(slices, 1, max)
       \o IF rest # 0 THEN <<[name |-> "other", value |-> rest]>> ELSE <<>>

\* ceil(part * da), da = 360 / all, both rounded to a double.  A product that comes
\* out a little too large shows where the exact one is a whole number; one that
\* comes out too small does not, while the sums stay far below 2^53.
degrees(part, all) ==
  LET exact == CeilDiv(360 * part, all)
  IN IF <<part, all>> \in RoundsUp /\ exact * all = 360 * part THEN exact + 1 ELSE exact

\* chart_create_pie: slice i has colour i and lies between two angles.  When
\* nothing has a value the angles are not numbers, and any integers are drawn.
create_pie(data) ==
  LET slices == norm_pie_array(sort_pie_array(data))
      all    == Sum(slices)
      angle(k) == degrees(Sum(SubSeq(slices, 1, k)), all)
  IN [k \in DOMAIN slices |->
        [name |-> slices[k].name, value |-> slices[k].value, color |-> k - 1,
         arc |-> IF all = 0 THEN <<>> ELSE <<angle(k - 1), angle(k)>>]]
==============================================================================
