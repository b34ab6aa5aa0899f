----------------------------- MODULE Retrieval -----------------------------
(***************************************************************************)
(* How a question becomes the code context of a prompt:                    *)
(* Retriever.search_graph takes seeds from the index, expands them along   *)
(* the code graph hop by hop and ranks what it found; build_graph_context  *)
(* drops the chunks whose lines another one repeats and packs the rest     *)
(* into the character budget.                                              *)
(*                                                                         *)
(* One step is one search, one hop, one ranking, one turn of the           *)
(* containment loop or one turn of the packing loop.  The index, its       *)
(* answer to the query and the texts are a corpus chosen in Init.  Scores  *)
(* are integers, 1.0 being 1000; weights and penalties round down.         *)
(***************************************************************************)
EXTENDS Integers, SequencesExt, Functions

CONSTANTS
    Chunk,         \* qualified names, numbered
    Corpora,       \* the corpora and queries considered
    TopSeeds,      \* top_k_seeds
    MaxHops, MaxNodes,
    MaxFanout,     \* _MAX_FANOUT
    HubThreshold,  \* _HUB_THRESHOLD
    MaxChars       \* max_chars

Field == {"calls", "inherits", "called_by"}
None == 0

\* The records a corpus is made of: what the index answers, best first, with
\* its scores; the entities a query that reads as an identifier names; the
\* chunks of test files; the relations of each chunk, the names in them that
\* are not stored; the lines of each chunk, whether its source was truncated at
\* ingestion, the length of its section and that of its section cut to max_chars.
CorpusType ==
    [hits : Seq(Chunk), score : [Chunk -> 0 .. 1000],
     exact : Chunk \union {None}, definitions : SUBSET Chunk,
     test : SUBSET Chunk, links : [Field -> [Chunk -> Seq(Chunk)]], missing : SUBSET Chunk,
     span : [Chunk -> Nat \X Nat], cut : SUBSET Chunk, size : [Chunk -> Nat],
     cutSize : [Chunk -> Nat]]

\* Does the span a hold all lines of b?
Covers(a, b) == a[1] =< b[1] /\ b[2] =< a[2]

\* The index answers each chunk once; a section is cut to the budget; and two
\* chunks that hold a third one are nested, for they are nodes of a syntax tree.
ASSUME RetrievalAssumption ==
    /\ Chunk \subseteq Nat \ {None} /\ IsFiniteSet(Chunk)
    /\ \A c \in Corpora :
          /\ c \in CorpusType /\ IsInjective(c.hits)
          /\ \A k \in Chunk : c.cutSize[k] =< MaxChars
          /\ \A k, l, m \in Chunk :
                Covers(c.span[k], c.span[m]) /\ Covers(c.span[l], c.span[m])
                    => Covers(c.span[k], c.span[l]) \/ Covers(c.span[l], c.span[k])
    /\ {TopSeeds, MaxHops, MaxNodes, MaxFanout, HubThreshold, MaxChars} \subseteq Nat \ {0}

VARIABLES
    corpus,
    direction, \* which relations are followed
    pc,
    selected,  \* the chunks selected, in the order they were
    score,     \* their scores
    via,       \* the chunk each was reached from, None for a seed
    frontier,  \* what the last hop added
    hop,
    ranked,    \* what search_graph returned
    turn,      \* the position a loop over ranked has come to
    dropped,   \* positions _drop_contained removed
    packed,    \* positions whose sections are in the context
    total      \* its length so far

vars == <<corpus, direction, pc, selected, score, via, frontier, hop, ranked,
          turn, dropped, packed, total>>

-----------------------------------------------------------------------------
Penalty == 35
Weight(f) == CASE f = "calls" -> 60 [] f = "inherits" -> 65 [] f = "called_by" -> 45

Followed == (IF direction \in {"forward", "both"} THEN {"calls", "inherits"} ELSE {})
            \union (IF direction \in {"backward", "both"} THEN {"called_by"} ELSE {})

First(s, k) == SubSeq(s, 1, IF Len(s) < k THEN Len(s) ELSE k)

\* Chunks of test files count less.
Demoted(c, s) == IF c \in corpus.test THEN (s * Penalty) \div 100 ELSE s

\* The elements of a finite set in a strict total order.
InOrder(S, R) ==
    [k \in 1 .. Cardinality(S) |->
        CHOOSE i \in S : Cardinality({j \in S : <<j, i>> \in R}) = k - 1]

\* A stable sort of chunks by decreasing score.
ByScore(s, sc) ==
    LET at == DOMAIN s
        before == {e \in at \X at : \/ sc[s[e[1]]] > sc[s[e[2]]]
                                    \/ sc[s[e[1]]] = sc[s[e[2]]] /\ e[1] < e[2]}
        order == InOrder(at, before)
    IN  [i \in at |-> s[order[i]]]

DemotedScore == [c \in Chunk |-> Demoted(c, corpus.score[c])]

\* search and search_bm25: three times too many are fetched, so that demoted
\* tests leave room for what they were ahead of.
Search(k) == First(ByScore(First(corpus.hits, 3 * k), DemotedScore), k)

\* _identifier_seeds: the entity of that very name, then the definitions among
\* the keyword hits, scaled by the best of these hits.
KeywordHits == Search(3 * TopSeeds)
Definitions ==
    LET hits == KeywordHits
        at == {i \in DOMAIN hits : hits[i] \in corpus.definitions \ {corpus.exact}}
        order == InOrder(at, {e \in at \X at : e[1] < e[2]})
    IN  [k \in DOMAIN order |-> hits[order[k]]]
Scaled(c) == LET best == DemotedScore[KeywordHits[1]]
             IN  IF best = 0 THEN 0 ELSE (1000 * DemotedScore[c]) \div best

IdentifierSeeds ==
    First((IF corpus.exact # None THEN <<corpus.exact>> ELSE <<>>) \o Definitions, TopSeeds)

SeedScore(c) ==
    IF IdentifierSeeds = <<>> THEN DemotedScore[c]
    ELSE IF c = corpus.exact THEN 1000 ELSE Scaled(c)

\* search_seeds: the identifier lookup first, the hybrid search if it is empty.
Seeds == IF IdentifierSeeds # <<>> THEN IdentifierSeeds ELSE Search(TopSeeds)

-----------------------------------------------------------------------------
Init ==
    /\ corpus \in Corpora
    /\ direction \in {"forward", "backward", "both"}
    /\ pc = "seed"
    /\ selected = <<>>
    /\ score = [c \in Chunk |-> 0] /\ via = [c \in Chunk |-> None]
    /\ frontier = {} /\ hop = 0
    /\ ranked = <<>> /\ turn = 1 /\ dropped = {}
    /\ packed = <<>> /\ total = 0

SearchSeeds ==
    /\ pc = "seed"
    /\ selected' = Seeds
    /\ score' = [c \in Chunk |-> IF c \in Range(Seeds) THEN SeedScore(c) ELSE 0]
    /\ frontier' = Range(Seeds)
    /\ pc' = "expand" /\ hop' = 1
    /\ UNCHANGED <<corpus, direction, via, ranked, turn, dropped, packed, total>>

\* The neighbours one chunk offers over one relation: none if it is a hub, and
\* only the first few otherwise.
Neighbors(c, f) ==
    LET all == corpus.links[f][c]
    IN  IF Len(all) > HubThreshold THEN {} ELSE Range(First(all, MaxFanout))

\* Mutant: what was selected before is selected again.
WantedAgain == UNION {Neighbors(c, f) : c \in frontier, f \in Followed}

Wanted == (UNION {Neighbors(c, f) : c \in frontier, f \in Followed}) \ Range(selected)

\* _HOP_DECAY ** k, as a divisor.
Decay[k \in 0 .. MaxHops] == IF k = 0 THEN 1 ELSE 2 * Decay[k - 1]

\* What a chunk inherits from the parents that offer it.
Offers(q) ==
    {[from |-> e[1], score |-> ((score[e[1]] * Weight(e[2])) \div 100) \div Decay[hop - 1]] :
        e \in {e \in frontier \X Followed : q \in Neighbors(e[1], e[2])}}
BestOffers(q) == {o \in Offers(q) : \A p \in Offers(q) : p.score =< o.score}

\* One hop.  Between equal offers the first one met wins, and the index returns
\* the chunks in an order of its own: both are left open.
Expand ==
    /\ pc = "expand" /\ Wanted # {}
    /\ LET fetched == Wanted \ corpus.missing IN
       \E best \in {b \in [fetched -> UNION {BestOffers(q) : q \in Wanted}] :
                       \A q \in fetched : b[q] \in BestOffers(q)} :
       \E added \in SetToSeqs(fetched) :
          /\ selected' = selected \o added
          /\ score' = [c \in Chunk |-> IF c \in fetched THEN Demoted(c, best[c].score)
                                       ELSE score[c]]
          /\ via' = [c \in Chunk |-> IF c \in fetched THEN best[c].from ELSE via[c]]
          /\ frontier' = fetched
    /\ hop' = hop + 1
    /\ pc' = IF Len(selected') >= MaxNodes \/ hop = MaxHops THEN "rank" ELSE "expand"
    /\ UNCHANGED <<corpus, direction, ranked, turn, dropped, packed, total>>

\* The last hop leads nowhere.
ExpandEnds ==
    /\ pc = "expand" /\ Wanted = {}
    /\ pc' = "rank"
    /\ UNCHANGED <<corpus, direction, selected, score, via, frontier, hop, ranked,
                   turn, dropped, packed, total>>

Rank ==
    /\ pc = "rank"
    /\ ranked' = First(ByScore(selected, score), MaxNodes)
    /\ pc' = IF selected = <<>> THEN "done" ELSE "drop"
    /\ UNCHANGED <<corpus, direction, selected, score, via, frontier, hop,
                   turn, dropped, packed, total>>

-----------------------------------------------------------------------------
\* build_graph_context.

\* Does the chunk at position i hold the lines of the one at j, and more?
Holds(i, j) == Covers(corpus.span[ranked[i]], corpus.span[ranked[j]])
Encloses(i, j) == Holds(i, j) /\ corpus.span[ranked[i]] # corpus.span[ranked[j]]

Outranks(i, j) == score[ranked[i]] > score[ranked[j]]

\* Mutant: the loop goes on after the container has lost its place.
DropByTurnsNoBreak(i) ==
    LET inside == {j \in DOMAIN ranked \ dropped : Encloses(i, j)}
        stops  == {j \in inside : ~Outranks(i, j)}
    IN  {j \in inside : Outranks(i, j) /\ ranked[i] \notin corpus.cut}
        \union {k \in {i} : stops # {}}

\* The inner loop of _drop_contained for the container at i: the contained
\* chunks it outranks go, unless its own text is truncated, up to the first one
\* that ranks as high, for which the container goes.
DropByTurns(i) ==
    LET inside == {j \in DOMAIN ranked \ dropped : Encloses(i, j)}
        stops  == {j \in inside : ~Outranks(i, j)}
        upTo(j) == \A k \in stops : j < k
    IN  {j \in inside : Outranks(i, j) /\ upTo(j) /\ ranked[i] \notin corpus.cut}
        \union {k \in {i} : stops # {}}

DropContained ==
    /\ pc = "drop"
    /\ dropped' = IF turn \in dropped THEN dropped ELSE dropped \union DropByTurns(turn)
    /\ IF turn = Len(ranked) THEN pc' = "pack" /\ turn' = 1
                             ELSE turn' = turn + 1 /\ UNCHANGED pc
    /\ UNCHANGED <<corpus, direction, selected, score, via, frontier, hop, ranked, packed, total>>

\* The length of the section of the chunk at position i; one that comes first
\* is cut to the budget, at the end of a line.
Size(i) == corpus.size[ranked[i]]
FirstSize(i) == IF Size(i) > MaxChars THEN corpus.cutSize[ranked[i]] ELSE Size(i)

Take(i)  == packed' = Append(packed, i)
            /\ total' = IF packed = <<>> THEN FirstSize(i) ELSE total + Size(i) + 2
Fits(i)  == packed = <<>> \/ total + Size(i) + 2 =< MaxChars

\* Mutant: the first section that does not fit ends the context.
PackStops ==
    /\ pc = "pack"
    /\ IF turn \notin dropped /\ Fits(turn) THEN Take(turn) ELSE UNCHANGED <<packed, total>>
    /\ IF turn = Len(ranked) \/ (turn \notin dropped /\ ~Fits(turn))
       THEN pc' = "done" /\ UNCHANGED turn
       ELSE turn' = turn + 1 /\ UNCHANGED pc
    /\ UNCHANGED <<corpus, direction, selected, score, via, frontier, hop, ranked, dropped>>

\* A section that does not fit with its separator is left out, and the next one
\* is tried; the first one is always taken.
Pack ==
    /\ pc = "pack"
    /\ IF turn \notin dropped /\ Fits(turn) THEN Take(turn) ELSE UNCHANGED <<packed, total>>
    /\ IF turn = Len(ranked) THEN pc' = "done" /\ UNCHANGED turn
                             ELSE turn' = turn + 1 /\ UNCHANGED pc
    /\ UNCHANGED <<corpus, direction, selected, score, via, frontier, hop, ranked, dropped>>

Next == SearchSeeds \/ Expand \/ ExpandEnds \/ Rank \/ DropContained \/ Pack

Spec == Init /\ [][Next]_vars

-----------------------------------------------------------------------------
(* Properties.                                                             *)

\* What search_graph returns can be explained: the chunk another one was reached
\* from is returned too, ahead of it, however the cut to max_nodes falls, so
\* that the best of them is a seed.
ParentsAreReturned ==
    \A i \in DOMAIN ranked :
        via[ranked[i]] # None => \E k \in 1 .. i - 1 : ranked[k] = via[ranked[i]]

Kept == DOMAIN ranked \ dropped

\* No chunk is dropped in vain: one that stays holds its lines, in full and at a
\* better rank, or is the more specific match inside it (retriever.py:542).
DropsArePaidFor ==
    pc \in {"pack", "done"} =>
        \A i \in dropped : \E k \in Kept :
            \/ Holds(k, i) /\ Outranks(k, i) /\ ranked[k] \notin corpus.cut
            \/ Encloses(i, k) /\ ~Outranks(i, k)

\* The length of the first n sections of the context, with their separators.
Length[n \in 0 .. Len(packed)] ==
    IF n = 0 THEN 0
    ELSE IF n = 1 THEN FirstSize(packed[1])
    ELSE Length[n - 1] + 2 + Size(packed[n])

\* The context keeps to the budget, holds the best chunk, and leaves out only
\* what did not fit behind the better ones that it holds.
ContextIsFull ==
    pc = "done" /\ ranked # <<>> =>
        /\ packed # <<>> /\ \A i \in Kept : packed[1] =< i
        /\ Length[Len(packed)] =< MaxChars
        /\ \A i \in Kept \ Range(packed) :
              LET better == Cardinality({k \in Range(packed) : k < i})
              IN  Length[better] + 2 + Size(i) > MaxChars
=============================================================================
