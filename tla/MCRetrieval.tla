---------------------------- MODULE MCRetrieval ----------------------------
(* Four chunks: every call graph over six possible calls, with and without *)
(* an inheritance, nested and disjoint spans, tests and truncated sources. *)
EXTENDS Retrieval

Calls == {<<1, 2>>, <<1, 3>>, <<1, 4>>, <<2, 1>>, <<2, 3>>, <<3, 4>>}

Relation(E) == [c \in Chunk |-> SetToSortSeq({d \in Chunk : <<c, d>> \in E}, <)]
Links(E, I) == [calls |-> Relation(E), inherits |-> Relation(I),
                called_by |-> Relation({<<e[2], e[1]>> : e \in E})]

MCLinks == {Links(E, I) : E \in SUBSET Calls, I \in {{}, {<<1, 3>>}}}

\* The index's answer, and the names the query gives.
MCQueries ==
    {[hits |-> <<1, 2, 3>>, score |-> <<900, 400, 0, 0>>, exact |-> None, definitions |-> {}],
     [hits |-> <<3, 1, 4>>, score |-> <<800, 0, 900, 700>>, exact |-> None, definitions |-> {}],
     [hits |-> <<2, 4, 1>>, score |-> <<300, 1000, 0, 600>>, exact |-> 4, definitions |-> {1, 4}],
     [hits |-> <<2>>, score |-> <<0, 0, 0, 0>>, exact |-> None, definitions |-> {}],
     [hits |-> <<>>, score |-> <<0, 0, 0, 0>>, exact |-> None, definitions |-> {}]}

\* A class 1 with its methods; an outer one, two nested levels and a neighbour;
\* two entities over the same lines, with one inside.
MCTexts ==
    {[span |-> <<<<1, 9>>, <<2, 3>>, <<5, 6>>, <<20, 29>>>>, cut |-> {1}, size |-> <<5, 2, 3, 1>>],
     [span |-> <<<<1, 9>>, <<2, 3>>, <<5, 6>>, <<20, 29>>>>, cut |-> {}, size |-> <<5, 2, 3, 1>>],
     [span |-> <<<<1, 9>>, <<5, 6>>, <<1, 9>>, <<20, 29>>>>, cut |-> {}, size |-> <<2, 3, 5, 1>>],
     [span |-> <<<<2, 5>>, <<1, 9>>, <<2, 3>>, <<4, 6>>>>, cut |-> {}, size |-> <<12, 5, 1, 3>>]}

MCCorpora ==
    {[hits |-> q.hits, score |-> q.score, exact |-> q.exact, definitions |-> q.definitions,
      test |-> t, links |-> l, missing |-> m, span |-> x.span, cut |-> x.cut, size |-> x.size,
      cutSize |-> <<6, 6, 6, 6>>] :
        q \in MCQueries, t \in {{}, {2, 4}, {3}}, l \in MCLinks, m \in {{}, {4}}, x \in MCTexts}
=============================================================================
