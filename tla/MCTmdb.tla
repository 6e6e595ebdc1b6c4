------------------------------- MODULE MCTmdb -------------------------------
(* Instances of TmdbCache: a category page, a genre list, a detail page and *)
(* an image.                                                                *)
EXTENDS TmdbCache, FiniteSets, TLC

CONSTANTS page, genre, title, poster

KindOf == [k \in Key |-> CASE k = page  -> "discover" [] k = genre  -> "genres"
                           [] k = title -> "detail"   [] k = poster -> "image"]
Defaults == Key \cap {page, genre}

\* The bounds of the run: one key at a time holds or fetches data or was missed
\* by the last clear, two if they are defaults and nobody clears; and a run stops
\* where a job overlaps with other work, of which the properties say nothing
\* (readers beside a clear are no overlap).
InUse == behind \cup {k \in Key : \/ {redis[k], row[k]} # {Nothing}
                                 \/ \E x \in Session : k \in session[x].key
                                 \/ \E j \in Key : cleared[k] < cleared[j]}

Undisturbed ==
    /\ ~mixed
    /\ \/ Cardinality(InUse) <= 1
       \/ InUse \subseteq Default /\ \A x \in Session : session[x].op # "clear"

=============================================================================
