----------------------------- MODULE TableSorter -----------------------------
(***************************************************************************)
(* The tables of the pages of instances and of storages:                   *)
(* static/js/jquery.tablesorter.js as these pages set it up, and the        *)
(* function status() of instances.html, which rewrites their rows.         *)
(*                                                                         *)
(* A click on a header changes the list of columns to sort by at once; the *)
(* marks on the headers and the rows follow in a timer, a millisecond      *)
(* later, and there may be another click before it.                        *)
(***************************************************************************)
EXTENDS Integers, FiniteSets, Sequences, SequencesExt

CONSTANTS
    Rows,        \* by their place in the page as it was sent
    Columns,     \* those that have a sorter
    Plain,       \* the columns of the option textSorter
    Text,        \* what a row says in a column; 0 is an empty cell
    SortList,    \* the option sortList
    MaxTimers    \* bound: clicks whose timer is still to fire

VARIABLES
    sortList,    \* <<column, direction>>; 0 ascends and 1 descends
    count,       \* of each header: the index in its order of the last direction
    marks,       \* the class of each header
    announced,   \* what its aria-label says the next click does
    body,        \* the rows as they are shown
    timers,
    rewritten    \* rows that status() wrote anew since the table was read

tvars == <<sortList, count, marks, announced, body, timers, rewritten>>

\* The order of every header: sortInitialOrder is "asc".
order == <<0, 1, 2>>
DirectionOf(n) == order[n + 1]

Listed(c, list) == \E i \in 1 .. Len(list) : list[i][1] = c
PlaceOf(c, list) == CHOOSE i \in 1 .. Len(list) : list[i][1] = c

-----------------------------------------------------------------------------
(* Sorting.                                                                *)

\* Changed: descending turns the empty cells round as well.
SortNatural_Turned(a, b, d) ==
    /\ a # b
    /\ IF d = 0 THEN b = 0 \/ (a # 0 /\ a < b) ELSE a = 0 \/ (b # 0 /\ b < a)

\* Empty cells are last in both directions.
SortNatural(a, b, d) ==
    /\ a # b
    /\ \/ b = 0
       \/ (a # 0) /\ (IF d = 0 THEN a < b ELSE b < a)

\* The option textSorter compares nothing but the texts.
SortText(a, b, d) == IF d = 0 THEN a < b ELSE b < a

Before(r, s, c, d) ==
    IF c \in Plain THEN SortText(Text[r][c], Text[s][c], d)
                   ELSE SortNatural(Text[r][c], Text[s][c], d)

Ties(r, s, list, n) ==
    \A i \in 1 .. n : Text[r][list[i][1]] = Text[s][list[i][1]]

\* The first column of the list that tells the rows apart decides; rows that
\* none tells apart keep the order of the page.
Precedes(r, s, list) ==
    \/ \E i \in 1 .. Len(list) :
         Ties(r, s, list, i - 1) /\ Before(r, s, list[i][1], list[i][2])
    \/ Ties(r, s, list, Len(list)) /\ r < s

\* The i-th row is the one that i - 1 rows precede.
multisort(list) ==
    [i \in 1 .. Cardinality(Rows) |->
       CHOOSE r \in Rows : Cardinality({s \in Rows : Precedes(s, r, list)}) = i - 1]

appendToTable(list) == body' = multisort(list)

\* A mark for every column of the list, and none for the others; then the
\* label, from the count of each header.
MarksOf(list) ==
    [c \in Columns |-> IF Listed(c, list) THEN list[PlaceOf(c, list)][2] ELSE 2]
LabelsOf(counts) == [c \in Columns |-> DirectionOf((counts[c] + 1) % 2)]

setHeadersCss(list, counts) ==
    /\ marks' = MarksOf(list)
    /\ announced' = LabelsOf(counts)

\* The headers of the list count from the direction they are given.
updateHeaderSortCount(list, counts) ==
    [c \in Columns |-> IF Listed(c, list) THEN list[PlaceOf(c, list)][2] ELSE counts[c]]

-----------------------------------------------------------------------------
\* buildHeaders sets every count to -1; the event sorton follows at once.
Init ==
    /\ sortList = SortList
    /\ count = updateHeaderSortCount(SortList, [c \in Columns |-> -1])
    /\ marks = MarksOf(SortList)
    /\ announced = LabelsOf(count)
    /\ body = multisort(SortList)
    /\ timers = 0 /\ rewritten = {}

\* The direction a click gives its column: the reset key asks for none.
NextCount(c, ctrl) == IF ctrl THEN 2 ELSE (count[c] + 1) % 2

\* Without the key for several columns the list starts anew.
SingleSort(c, ctrl) ==
    LET d == DirectionOf(NextCount(c, ctrl)) IN
    /\ sortList' = IF d < 2 THEN << <<c, d>> >> ELSE <<>>
    /\ count' = [count EXCEPT ![c] = NextCount(c, ctrl)]

\* Changed: the direction is turned round and not counted.
MultiSort_Uncounted(c, ctrl) ==
    IF Listed(c, sortList)
    THEN LET i == PlaceOf(c, sortList) IN
         /\ sortList' = [sortList EXCEPT ![i] = <<c, 1 - @[2]>>]
         /\ UNCHANGED count
    ELSE /\ sortList' = Append(sortList, <<c, 0>>)
         /\ count' = [count EXCEPT ![c] = 0]

\* With it a column of the list is reversed or leaves, another one joins.
MultiSort(c, ctrl) ==
    LET d == DirectionOf(NextCount(c, ctrl)) IN
    IF Listed(c, sortList)
    THEN LET i == PlaceOf(c, sortList) IN
         /\ sortList' = IF d = 2 THEN RemoveAt(sortList, i) ELSE [sortList EXCEPT ![i] = <<c, d>>]
         /\ count' = [count EXCEPT ![c] = IF d = 2 THEN -1 ELSE NextCount(c, ctrl)]
    ELSE /\ sortList' = IF d < 2 THEN Append(sortList, <<c, d>>) ELSE sortList
         /\ count' = [count EXCEPT ![c] = NextCount(c, ctrl)]

initSort(c, shift, ctrl) ==
    /\ timers < MaxTimers
    /\ IF shift THEN MultiSort(c, ctrl) ELSE SingleSort(c, ctrl)
    /\ timers' = timers + 1
    /\ UNCHANGED <<marks, announced, body, rewritten>>

\* The timer takes the list of the moment.
Timer ==
    /\ timers > 0
    /\ timers' = timers - 1
    /\ setHeadersCss(sortList, count)
    /\ appendToTable(sortList)
    /\ UNCHANGED <<sortList, count, rewritten>>

\* The cells are written, and the table is not told: what it sorts by is what
\* it read when the page was loaded.
Status ==
    /\ \E rs \in SUBSET Rows : rewritten' = rewritten \cup rs
    /\ UNCHANGED <<sortList, count, marks, announced, body, timers>>

Next ==
    \/ \E c \in Columns, shift, ctrl \in BOOLEAN : initSort(c, shift, ctrl)
    \/ Timer
    \/ Status

Spec == Init /\ [][Next]_tvars

-----------------------------------------------------------------------------

\* As soon as no timer is under way the rows stand as the marks on the headers
\* say, whatever was clicked in between: in the order of the page when none is
\* marked; when one is, by its texts, equal texts in the order of the page, and
\* empty cells last unless the column has a sorter of its own.  Rows that the
\* page wrote anew since are left out: they stand where their old text belongs.
RowsAsMarked ==
    timers = 0 =>
      \A i, j \in 1 .. Len(body) :
        i < j /\ {body[i], body[j]} \cap rewritten = {} =>
          LET marked == {c \in Columns : marks[c] # 2} IN
          /\ marked = {} => body[i] < body[j]
          /\ \A c \in Columns : marked = {c} =>
               LET a == Text[body[i]][c]
                   b == Text[body[j]][c]
               IN  IF a = b THEN body[i] < body[j]
                   ELSE IF 0 \in {a, b} /\ c \notin Plain THEN b = 0
                   ELSE IF marks[c] = 0 THEN a < b ELSE b < a

\* A click on a header does what its label announced, and turns round the
\* direction it is marked with, after any mix of clicks with and without the
\* keys for several columns and for reset.
ClickAsAnnounced ==
    [][\A c \in Columns :
         initSort(c, FALSE, FALSE) /\ timers = 0 =>
           /\ sortList' = << <<c, announced[c]>> >>
           /\ marks[c] # 2 => announced[c] # marks[c]]_tvars
=============================================================================
