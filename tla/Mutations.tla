----------------------------- MODULE Mutations -----------------------------
(***************************************************************************)
(* DELETE and UPDATE of a table (table.rs): which stored rows a statement  *)
(* hits and what it hands the store, tombstone or supersede, as one call.  *)
(* plan.set is an UPDATE's assignments, a function of some columns; a      *)
(* DELETE has none.                                                        *)
(***************************************************************************)
EXTENDS QueryExecution

\* mutant: a hit counted among the live rows
LiveId(segment, i) == segment.base + Cardinality({j \in segment.live : j < i})

\* A row's id is its place in its segment, dead rows before it counted.
RowId(segment, i) == segment.base + i - 1

\* The copy of a hit the assignments are written into; its birth stays behind.
Corrected(row) ==
    [column \in StoredColumns |->
        IF column \in DOMAIN plan.set THEN plan.set[column] ELSE row[column]]

\* for_each_match: a segment's live hits in order; nothing is pruned.
MatchSegment ==
    /\ phase = "match" /\ handles # << >> /\ Head(handles).resident
    /\ LET segment == Head(handles)
           hits == SetToSortSeq(Mask(segment), <)
       IN  output' = output \o [h \in DOMAIN hits |->
               [id |-> RowId(segment, hits[h]), row |-> Corrected(segment.rows[hits[h]])]]
    /\ handles' = Tail(handles)
    /\ UNCHANGED <<input, phase, views, sink, heap, at>>

\* The store is called once, with every victim and every replacement.
Issue ==
    /\ phase = "match" /\ handles = << >>
    /\ phase' = "matched"
    /\ UNCHANGED <<input, handles, views, sink, heap, at, output>>

MutationNext == MatchSegment \/ Issue

----------------------------------------------------------------------------
\* A statement hits exactly the rows a SELECT with its WHERE would show, each
\* by its id, in order, and an UPDATE writes all of a hit back but for what
\* it assigns: pruning, which only the SELECT does, changes nothing.
HitsWhatSelectShows ==
    phase = "matched" =>
        LET segments == input.segments
            stored == FlattenSeq([s \in DOMAIN segments |->
                          [r \in DOMAIN segments[s].rows |->
                              [row |-> segments[s].rows[r], live |-> r \in segments[s].live]]])
            hit == {p \in DOMAIN stored :
                       stored[p].live /\ (Filtered => Kleene(plan.where, stored[p].row))}
        IN  /\ {output[h].id + 1 : h \in DOMAIN output} = hit
            /\ \A g, h \in DOMAIN output : g < h => output[g].id < output[h].id
            /\ \A h \in DOMAIN output :
                   output[h].row = plan.set @@ Project(stored[output[h].id + 1].row, StoredColumns)
=============================================================================
