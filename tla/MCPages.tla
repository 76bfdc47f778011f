------------------------------- MODULE MCPages -------------------------------
(***************************************************************************)
(* The pages for TLC: the making of domains, the choice of images on the   *)
(* page that asks for them, and the sorting of a table.  They share no     *)
(* state, so a behaviour takes the steps of one of them.                   *)
(***************************************************************************)
EXTENDS Create, FiniteSets, Sequences, TLC

CONSTANTS Values, Rows, Columns, Plain, Text, SortList, MaxTimers

ASSUME TableAssumption ==
    /\ Rows \subseteq Nat /\ IsFiniteSet(Rows) /\ Plain \subseteq Columns
    /\ Text \in [Rows -> [Columns -> Nat]]
    /\ SortList \in Seq(Columns \X {0, 1}) /\ MaxTimers \in Nat
    /\ \A i, j \in 1 .. Len(SortList) : SortList[i][1] = SortList[j][1] => i = j

VARIABLES
    part,
    selected, checked, field, shown,
    sortList, count, marks, announced, body, timers, rewritten

choice == <<selected, checked, field, shown>>
table == <<sortList, count, marks, announced, body, timers, rewritten>>

Choice == INSTANCE Multiselect
Table == INSTANCE TableSorter

\* Four rows in the order of the page: the names are in order, a status comes
\* twice, and the last row has one that the page has no text for.
MCText ==
  LET names  == <<1, 2, 3, 4>>
      status == <<1, 2, 1, 0>>
      vcpus  == <<2, 1, 2, 1>>
  IN  [r \in Rows |-> (0 :> names[r] @@ 1 :> status[r] @@ 2 :> vcpus[r])]
MCSortList == << <<1, 0>>, <<0, 0>> >>

\* The second and the third image have the same path.
MCValues == <<"a", "b", "b", "c">>

\* Workers, and images, are interchangeable.
Interchangeable == Permutations(Worker) \cup Permutations(Image)

PagesInit ==
  /\ part \in {"domains", "choice", "table"}
  /\ Init /\ Choice!Init /\ Table!Init

PagesNext ==
  \/ part = "domains" /\ Next /\ UNCHANGED <<part, choice, table>>
  \/ part = "choice" /\ Choice!Next /\ UNCHANGED <<part, vars, table>>
  \/ part = "table" /\ Table!Next /\ UNCHANGED <<part, vars, choice>>

PagesSpec == PagesInit /\ [][PagesNext]_<<part, vars, choice, table>>

-----------------------------------------------------------------------------

\* The posted field, the options, the checkboxes and the list of the page agree.
FieldIsSelection == part = "choice" => Choice!FieldIsSelection

\* The rows are in the order the marks of the headers show, once no timer waits.
RowsAsMarked == part = "table" => Table!RowsAsMarked

\* A click on a header does what the header announced.
ClickAsAnnounced == Table!ClickAsAnnounced
=============================================================================
