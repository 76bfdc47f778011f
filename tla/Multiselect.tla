----------------------------- MODULE Multiselect -----------------------------
(***************************************************************************)
(* The choice of images, and of networks, for a new domain:                *)
(* static/js/bootstrap-multiselect.js as create.html sets it up.           *)
(*                                                                         *)
(* The same choice is kept four times: in the options of the select, in    *)
(* the checkboxes of the menu, in the hidden field that is posted, and in  *)
(* the list the page shows, whose entries can be removed.                  *)
(***************************************************************************)
EXTENDS Naturals, FiniteSets, Sequences, SequencesExt

CONSTANT Values    \* of the options, in their order: two may have the same

VARIABLES
    selected,    \* options
    checked,     \* checkboxes
    field,       \* #images or #networks, split at its commas
    shown        \* #img-list or #net-list

mvars == <<selected, checked, field, shown>>

Options == DOMAIN Values

getOptionByValue(v) == {o \in Options : Values[o] = v}
getInputByValue(v) == {o \in Options : Values[o] = v}

\* The numbers of a set, in their order: the i-th has i - 1 below it.
Ascending(S) ==
    [i \in 1 .. Cardinality(S) |->
       CHOOSE m \in S : Cardinality({k \in S : k < m}) = i - 1]

\* The entries that are not v, in the order of the list.
Without(list, v) ==
    LET kept == {i \in 1 .. Len(list) : list[i] # v}
    IN  [i \in 1 .. Cardinality(kept) |-> list[Ascending(kept)[i]]]

\* A value is added whether or not it is there, and removed wherever it is.
toggleValue(list, v, on) == IF on THEN Append(list, v) ELSE Without(list, v)

onChange(v, on) ==
    /\ field' = toggleValue(field, v, on)
    /\ shown' = toggleValue(field, v, on)

-----------------------------------------------------------------------------
Init == selected = {} /\ checked = {} /\ field = <<>> /\ shown = <<>>

\* The user clicks a checkbox: all options of its value follow it, the other
\* checkboxes of that value do not.
Change(o) ==
    LET v == Values[o]
        on == o \notin checked
    IN  /\ checked' = IF on THEN checked \cup {o} ELSE checked \ {o}
        /\ selected' = IF on THEN selected \cup getOptionByValue(v)
                             ELSE selected \ getOptionByValue(v)
        /\ onChange(v, on)

\* Changed: the page is not told.
deselect_Silent(v) ==
    /\ checked' = checked \ getInputByValue(v)
    /\ selected' = selected \ getOptionByValue(v)
    /\ UNCHANGED <<field, shown>>

\* The x of an entry of the list.
deselect(v) ==
    /\ checked' = checked \ getInputByValue(v)
    /\ selected' = selected \ getOptionByValue(v)
    /\ onChange(v, FALSE)

Next ==
    \/ \E o \in Options : Change(o)
    \/ \E i \in DOMAIN shown : deselect(shown[i])

Spec == Init /\ [][Next]_mvars

-----------------------------------------------------------------------------

\* The four agree, in whatever order the user clicks checkboxes and removes
\* entries: what is posted is what is selected and what is shown; the checkbox
\* of a value that only one option has tells whether it is selected, and no
\* such value is posted twice.
FieldIsSelection ==
    /\ shown = field
    /\ ToSet(field) = {Values[o] : o \in selected}
    /\ \A o \in Options :
         getOptionByValue(Values[o]) = {o} =>
           /\ o \in checked <=> o \in selected
           /\ \A i, j \in 1 .. Len(field) :
                field[i] = Values[o] /\ field[j] = Values[o] => i = j
=============================================================================
