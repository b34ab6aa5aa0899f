------------------------------ MODULE GitDiff ------------------------------
(***************************************************************************)
(* A changed file as services/git_repo.py and the context stage of          *)
(* review.py see it.  The change is its edit script: one of "=" (kept),     *)
(* "+", "-" or "c" (kept, with a lone carriage return inside) for each      *)
(* line.  git numbers lines by their newlines; the program reads git's      *)
(* output in text mode, where a lone carriage return ends a line too.       *)
(***************************************************************************)
EXTENDS Integers, Sequences, FiniteSets

CONSTANTS GitContext,      \* --unified=3
          PadLines,        \* _EXCERPT_PAD_LINES
          ExcerptBudget,   \* CONTEXT_CHARS_PER_FILE, in lines of one size
          Tolerance        \* ANCHOR_TOLERANCE_LINES

ASSUME DiffAssumption ==
    /\ {GitContext, PadLines, ExcerptBudget, Tolerance} \subseteq Nat
    /\ ExcerptBudget > 0 /\ Tolerance < GitContext

Least(a, b) == IF a <= b THEN a ELSE b
Most(a, b) == IF a >= b THEN a ELSE b

Letter == {"=", "+", "-", "c"}

Changed(script) == {i \in DOMAIN script : script[i] \in {"+", "-"}}
(* Lines of the target file up to the i-th of the script, as git counts. *)
TargetLine(script, i) == Cardinality({j \in 1 .. i : script[j] # "-"})
(* Lines with a carriage return inside. *)
Returns(script) == {i \in DOMAIN script : script[i] = "c"}

-----------------------------------------------------------------------------
(* git diff *)

Shown(script) == {i \in DOMAIN script : \E j \in Changed(script) : i - j \in (-GitContext)..GitContext}

(* Maximal runs of a set of positions up to n, in order, as <<first, last>>. *)
ExtendRuns(runs, i, S) ==
    IF i \notin S THEN runs
    ELSE IF i - 1 \in S THEN [runs EXCEPT ![Len(runs)] = <<@[1], i>>]
    ELSE Append(runs, <<i, i>>)

RunsOf(S, n) ==
    LET upTo[i \in 0 .. n] == IF i = 0 THEN <<>> ELSE ExtendRuns(upTo[i - 1], i, S)
    IN  upTo[n]

Runs(script) == RunsOf(Changed(script), Len(script))
Hunks(script) == RunsOf(Shown(script), Len(script))

(* @@ +start,count @@; an empty side starts at the line before it. *)
HunkStart(script, h) ==
    LET before == TargetLine(script, h[1] - 1)
    IN  IF TargetLine(script, h[2]) = before THEN before ELSE before + 1

-----------------------------------------------------------------------------
(* _hunk_changed_ranges *)

NoPlus == -1

Flush(acc) ==
    IF ~acc.open THEN acc
    ELSE [acc EXCEPT !.open = FALSE, !.first = NoPlus,
                     !.ranges = Append(@, IF acc.first # NoPlus THEN <<acc.first, acc.last>>
                                          ELSE <<acc.from, acc.from>>)]

Opened(acc) == IF acc.open THEN acc ELSE [acc EXCEPT !.open = TRUE, !.from = acc.at]

(* Mutant: a deleted line advances the new side. *)
ScanLineCountsDeleted(acc, k) ==
    CASE k = "+" -> [Opened(acc) EXCEPT !.first = IF @ = NoPlus THEN acc.at ELSE @,
                                        !.last = acc.at, !.at = @ + 1]
      [] k = "-" -> [Opened(acc) EXCEPT !.at = @ + 1]
      [] k = "=" -> [Flush(acc) EXCEPT !.at = @ + 1]
      [] k = "c" -> [Flush(acc) EXCEPT !.at = @ + 2]

(* A line with a carriage return arrives as two. *)
ScanLine(acc, k) ==
    CASE k = "+" -> [Opened(acc) EXCEPT !.first = IF @ = NoPlus THEN acc.at ELSE @,
                                        !.last = acc.at, !.at = @ + 1]
      [] k = "-" -> Opened(acc)
      [] k = "=" -> [Flush(acc) EXCEPT !.at = @ + 1]
      [] k = "c" -> [Flush(acc) EXCEPT !.at = @ + 2]

HunkRanges(script, h) ==
    LET start == HunkStart(script, h)
        scan[k \in 0 .. h[2] - h[1] + 1] ==
            IF k = 0 THEN [at |-> start, open |-> FALSE, from |-> start,
                           first |-> NoPlus, last |-> NoPlus, ranges |-> <<>>]
            ELSE ScanLine(scan[k - 1], script[h[1] + k - 1])
    IN  Flush(scan[h[2] - h[1] + 1]).ranges

(* parse_unified_diff: changed_line_ranges of a file. *)
ChangedRanges(script) ==
    LET hunks == Hunks(script)
        upTo[m \in 0 .. Len(hunks)] ==
            IF m = 0 THEN <<>> ELSE upTo[m - 1] \o HunkRanges(script, hunks[m])
    IN  upTo[Len(hunks)]

(* Mutant: one more line on either side. *)
AnchorsLoosely(line, ranges) ==
    \E i \in DOMAIN ranges : ranges[i][1] - Tolerance - 1 <= line /\ line <= ranges[i][2] + Tolerance + 1

(* _is_anchored *)
Anchors(line, ranges) ==
    \E i \in DOMAIN ranges : ranges[i][1] - Tolerance <= line /\ line <= ranges[i][2] + Tolerance

(* _nearest_hunk: the first of the nearest (of all, without a line). *)
Distance(script, h, line) ==
    LET lo == HunkStart(script, h)
        count == TargetLine(script, h[2]) - TargetLine(script, h[1] - 1)
        hi == lo + Most(count, 1) - 1
    IN  IF line < lo THEN lo - line ELSE Most(0, line - hi)

NearestHunk(script, line) ==
    LET hunks == Hunks(script)
        far(i) == Distance(script, hunks[i], line)
    IN  hunks[CHOOSE i \in DOMAIN hunks :
                \A j \in DOMAIN hunks : far(i) < far(j) \/ (far(i) = far(j) /\ i <= j)]

-----------------------------------------------------------------------------
(* _build_excerpts *)

(* content.split("\n"): the lines of the file and what follows the last newline. *)
ContentLines(script) == TargetLine(script, Len(script)) + Cardinality(Returns(script)) + 1

Padded(ranges, n) ==
    {<<Most(1, ranges[i][1] - PadLines), Least(n, ranges[i][2] + PadLines)>> : i \in DOMAIN ranges}

(* Pairs sort by their first component, then by the second. *)
Before(q, r) == q[1] < r[1] \/ (q[1] = r[1] /\ q[2] < r[2])
Sorted(ranges) ==
    [k \in 1 .. Cardinality(ranges) |->
        CHOOSE r \in ranges : Cardinality({q \in ranges : Before(q, r)}) = k - 1]

MergeOne(merged, r) ==
    IF merged # <<>> /\ r[1] <= merged[Len(merged)][2] + 1
    THEN [merged EXCEPT ![Len(merged)] = <<@[1], Most(@[2], r[2])>>]
    ELSE Append(merged, r)

(* _merge_ranges *)
MergeRanges(ranges) ==
    LET sorted == Sorted(ranges)
        upTo[k \in 0 .. Len(sorted)] ==
            IF k = 0 THEN <<>> ELSE MergeOne(upTo[k - 1], sorted[k])
    IN  upTo[Len(sorted)]

Length(r) == r[2] - r[1] + 1
(* Lines rendered, range by range. *)
Total(ranges) ==
    Cardinality(UNION {{i} \X (ranges[i][1] .. ranges[i][2]) : i \in DOMAIN ranges})

(* round(), half to even *)
Rounded(a, b) ==
    LET q == a \div b  half == 2 * (a % b)
    IN  IF half < b \/ (half = b /\ q % 2 = 0) THEN q ELSE q + 1

(* Mutant: the cut is taken twice from the front. *)
TrimmedFromFront(r, total) ==
    LET length == Most(1, Rounded(Length(r) * ExcerptBudget, total))
        start == r[1] + (Length(r) - length)
    IN  <<start, start + length>>

(* A range shrunk in proportion, from both ends. *)
Trimmed(r, total) ==
    LET length == Most(1, Rounded(Length(r) * ExcerptBudget, total))
        start == r[1] + (Length(r) - length) \div 2
    IN  <<start, start + length - 1>>

(* The excerpts' ranges over a content of n lines, and whether cut. *)
Excerpts(ranges, n) ==
    LET merged == MergeRanges(Padded(ranges, n))
    IN  IF Total(merged) <= ExcerptBudget THEN [of |-> merged, truncated |-> FALSE]
        ELSE [of |-> [i \in DOMAIN merged |-> Trimmed(merged[i], Total(merged))], truncated |-> TRUE]

(* lines[ln - 1] raises past either end of the list. *)
Raises(excerpts, n) ==
    \E i \in DOMAIN excerpts : \E line \in excerpts[i][1]..excerpts[i][2] : line > n \/ line - 1 < -n
=============================================================================
