-------------------------- MODULE GraphFilesProofs --------------------------
(***************************************************************************)
(* Theorems about module GraphFiles, for any number of projects and any    *)
(* bound on the ingestions.                                                *)
(*                                                                         *)
(* FileInv is about the files alone: whose they are, which run wrote them  *)
(* and what a project's directory holds at each point of its ingestion.    *)
(* ReadInv is about a read in progress: what it has seen has only become   *)
(* newer since, and what it has lost was removed while it was reading.     *)
(***************************************************************************)
EXTENDS GraphFiles, TLAPS

Kind == {"partial", "raw", "filtered"}
Content == [of : Project, gen : Nat, kind : Kind]
IngestPC == {"idle", "waiting", "clean", "export", "exporting", "filter", "promote",
             "cleanup", "ingested"}

\* The steps of an ingestion that hold _cgr_lock, and those before its file.
Indexing  == {"clean", "export", "exporting"}
Preparing == {"waiting", "clean", "export"}

FileTypeOK ==
    /\ files = [p \in Project |-> files[p]]
    /\ \A p \in Project : DOMAIN files[p] \subseteq Nat
    /\ \A p \in Project : \A n \in DOMAIN files[p] : files[p][n] \in Content
    /\ runs \in 0 .. MaxRuns
    /\ pc \in [Project -> IngestPC]
    /\ gen \in [Project -> 0 .. MaxRuns]
    /\ cgrLock \in BOOLEAN
    /\ graphdb \in Project
    /\ dirty \subseteq Project

\* _cgr_lock keeps a second run from wiping the graph that a first one exports.
CgrExclusive ==
    /\ \A p \in Project : pc[p] \in Indexing => cgrLock
    /\ \A p, q \in Project : pc[p] \in Indexing /\ pc[q] \in Indexing => p = q
    /\ \A p \in Project : pc[p] \in {"export", "exporting"} => graphdb = p

\* A run is newer than whatever its project's directory holds, and a file with a
\* timestamp bears its run's.
Dated(p) ==
    /\ gen[p] <= runs
    /\ pc[p] # "idle" => gen[p] > 0
    /\ pc[p] \in Preparing => gen[p] \notin DOMAIN files[p]
    /\ \A n \in DOMAIN files[p] :
          /\ n <= gen[p] /\ files[p][n].gen <= gen[p]
          /\ n # Canonical => files[p][n].gen = n

Own(p) == \A n \in DOMAIN files[p] : files[p][n].of = p

\* What an ingestion has made of its file.
Made(p) ==
    /\ pc[p] \in {"exporting", "filter", "promote"} => gen[p] \in DOMAIN files[p]
    /\ pc[p] = "exporting" => files[p][gen[p]].kind = "partial"
    /\ pc[p] = "filter" => files[p][gen[p]].kind = "raw"
    /\ pc[p] = "promote" => files[p][gen[p]].kind = "filtered"

\* What a successful one has made of the directory.
Promoted(p) ==
    /\ pc[p] \in {"cleanup", "ingested"} =>
          /\ Canonical \in DOMAIN files[p]
          /\ files[p][Canonical] = [of |-> p, gen |-> gen[p], kind |-> "filtered"]
    /\ pc[p] = "ingested" => DOMAIN files[p] = {Canonical}

\* Without a crash or a failing cgr, only a file being made is unfiltered.
Tidy(p) ==
    p \notin dirty => \A n \in DOMAIN files[p] :
        files[p][n].kind # "filtered" => n = gen[p] /\ pc[p] \in {"exporting", "filter"}

ProjectOK(p) == Dated(p) /\ Own(p) /\ Made(p) /\ Promoted(p) /\ Tidy(p)

FileInv == FileTypeOK /\ CgrExclusive /\ \A p \in Project : ProjectOK(p)

-----------------------------------------------------------------------------
(* What becomes of the files.                                              *)

USE MaxRunsAssumption DEF vars, fileVars, readVars, Canonical

LEMMA PutEffect ==
    ASSUME FileTypeOK, NEW p \in Project, NEW n \in Nat, NEW c \in Content,
           files' = Put(p, n, c)
    PROVE  /\ files' = [q \in Project |-> files'[q]]
           /\ \A q \in Project \ {p} : files'[q] = files[q]
           /\ DOMAIN files'[p] = DOMAIN files[p] \union {n}
           /\ files'[p][n] = c
           /\ \A m \in DOMAIN files[p] \ {n} : files'[p][m] = files[p][m]
<1>1. files'[p] = [m \in DOMAIN files[p] \union {n} |-> IF m = n THEN c ELSE files[p][m]]
  BY DEF FileTypeOK, Put
<1>2. files' = [q \in Project |-> files'[q]] /\ \A q \in Project \ {p} : files'[q] = files[q]
  BY DEF FileTypeOK, Put
<1> QED BY <1>1, <1>2

LEMMA RemoveEffect ==
    ASSUME FileTypeOK, NEW p \in Project, NEW n \in Nat,
           files' = [files EXCEPT ![p] = Remove(@, n)]
    PROVE  /\ files' = [q \in Project |-> files'[q]]
           /\ \A q \in Project \ {p} : files'[q] = files[q]
           /\ DOMAIN files'[p] = DOMAIN files[p] \ {n}
           /\ \A m \in DOMAIN files[p] \ {n} : files'[p][m] = files[p][m]
<1>1. files'[p] = [m \in DOMAIN files[p] \ {n} |-> files[p][m]]
  BY DEF FileTypeOK, Remove
<1>2. files' = [q \in Project |-> files'[q]] /\ \A q \in Project \ {p} : files'[q] = files[q]
  BY DEF FileTypeOK
<1> QED BY <1>1, <1>2

LEMMA PromoteEffect ==
    ASSUME FileInv, NEW p \in Project, Promote(p)
    PROVE  /\ files' = [q \in Project |-> files'[q]]
           /\ \A q \in Project \ {p} : files'[q] = files[q]
           /\ DOMAIN files'[p] = (DOMAIN files[p] \union {Canonical}) \ {gen[p]}
           /\ gen[p] > 0 /\ gen[p] \in DOMAIN files[p]
           /\ files'[p][Canonical] = files[p][gen[p]]
           /\ \A m \in DOMAIN files'[p] \ {Canonical} : files'[p][m] = files[p][m]
<1>0. /\ FileTypeOK /\ ProjectOK(p) /\ pc[p] = "promote" /\ gen[p] \in Nat
      /\ gen[p] > 0 /\ gen[p] \in DOMAIN files[p]
  BY DEF FileInv, FileTypeOK, ProjectOK, Dated, Made, Promote, Goto
<1>1. files'[p] = [m \in (DOMAIN files[p] \union {Canonical}) \ {gen[p]} |->
                      IF m = Canonical THEN files[p][gen[p]] ELSE files[p][m]]
  BY <1>0 DEF FileTypeOK, Promote, Remove
<1>2. files' = [q \in Project |-> files'[q]] /\ \A q \in Project \ {p} : files'[q] = files[q]
  BY <1>0 DEF FileTypeOK, Promote
<1> QED BY <1>0, <1>1, <1>2

LEMMA FileInit == Init => FileInv
<1> SUFFICES ASSUME Init PROVE FileInv
  OBVIOUS
<1>1. \A p \in Project : DOMAIN files[p] = {} /\ pc[p] = "idle" /\ gen[p] = 0
  BY DEF Init
<1>2. FileTypeOK
  <2>1. files = [p \in Project |-> files[p]]
    BY DEF Init
  <2>2. pc \in [Project -> IngestPC] /\ gen \in [Project -> 0 .. MaxRuns]
    BY DEF Init, IngestPC
  <2> QED BY <1>1, <2>1, <2>2 DEF Init, FileTypeOK
<1>3. CgrExclusive
  BY <1>1 DEF CgrExclusive, Indexing
<1>4. \A p \in Project : ProjectOK(p)
  BY <1>1 DEF Init, ProjectOK, Dated, Own, Made, Promoted, Tidy, Preparing
<1> QED BY <1>2, <1>3, <1>4 DEF FileInv

\* A step of one ingestion leaves the other projects as they are.
LEMMA OneProject ==
    ASSUME FileInv, NEW p \in Project, FileTypeOK', CgrExclusive', ProjectOK(p)',
           runs <= runs',
           \A q \in Project \ {p} : /\ files'[q] = files[q] /\ gen'[q] = gen[q]
                                    /\ pc'[q] = pc[q] /\ (q \in dirty' <=> q \in dirty)
    PROVE  FileInv'
<1>1. ASSUME NEW q \in Project \ {p} PROVE ProjectOK(q)'
  <2>1. /\ ProjectOK(q) /\ files'[q] = files[q] /\ gen'[q] = gen[q] /\ pc'[q] = pc[q]
        /\ q \in dirty' <=> q \in dirty
    BY DEF FileInv
  <2>2. Dated(q)'
    BY <2>1 DEF FileInv, FileTypeOK, ProjectOK, Dated
  <2>3. Own(q)' /\ Made(q)' /\ Promoted(q)' /\ Tidy(q)'
    BY <2>1 DEF ProjectOK, Own, Made, Promoted, Tidy
  <2> QED BY <2>2, <2>3 DEF ProjectOK
<1> QED BY <1>1 DEF FileInv

LEMMA IngestStep == \A p \in Project : FileInv /\ Ingest(p) => FileInv'
<1> SUFFICES ASSUME NEW p \in Project, FileInv, Ingest(p) PROVE FileInv'
  OBVIOUS
<1>0. /\ FileTypeOK /\ CgrExclusive /\ ProjectOK(p)
      /\ gen[p] \in 0 .. MaxRuns /\ gen[p] \in Nat /\ pc[p] \in IngestPC
      /\ DOMAIN files[p] \subseteq Nat /\ \A n \in DOMAIN files[p] : files[p][n] \in Content
  BY DEF FileInv, FileTypeOK
<1> USE DEF Indexing, Preparing
<1>1. CASE StartIngest(p)
  <2>1. /\ runs' = runs + 1 /\ runs' \in 0 .. MaxRuns /\ gen'[p] = runs'
        /\ pc[p] \in {"idle", "ingested"} /\ pc'[p] = "waiting"
        /\ UNCHANGED <<files, cgrLock, graphdb, dirty>>
        /\ \A q \in Project \ {p} : gen'[q] = gen[q] /\ pc'[q] = pc[q]
    BY <1>0, <1>1 DEF StartIngest, FileTypeOK
  <2>2. FileTypeOK'
    BY <1>0, <1>1, <2>1 DEF StartIngest, FileTypeOK, IngestPC
  <2>3. CgrExclusive'
    BY <1>0, <2>1 DEF CgrExclusive
  <2>4. Dated(p)'
    BY <1>0, <2>1 DEF FileTypeOK, ProjectOK, Dated, Content
  <2>5. Own(p)' /\ Made(p)' /\ Promoted(p)' /\ Tidy(p)'
    BY <1>0, <2>1 DEF ProjectOK, Own, Made, Promoted, Tidy
  <2> QED BY <1>0, <2>1, <2>2, <2>3, <2>4, <2>5, OneProject DEF ProjectOK, FileTypeOK
<1>2. CASE AcquireCgr(p)
  <2>1. /\ pc[p] = "waiting" /\ pc'[p] = "clean" /\ ~cgrLock /\ cgrLock'
        /\ UNCHANGED <<files, runs, gen, graphdb, dirty>>
        /\ \A q \in Project \ {p} : pc'[q] = pc[q]
    BY <1>0, <1>2 DEF AcquireCgr, Goto, FileTypeOK
  <2>2. FileTypeOK'
    BY <1>0, <1>2, <2>1 DEF AcquireCgr, Goto, FileTypeOK, IngestPC
  <2>3. CgrExclusive'
    BY <1>0, <2>1 DEF CgrExclusive
  <2>4. ProjectOK(p)'
    BY <1>0, <2>1 DEF ProjectOK, Dated, Own, Made, Promoted, Tidy
  <2> QED BY <1>0, <2>1, <2>2, <2>3, <2>4, OneProject DEF FileTypeOK
<1>3. CASE CgrIndexes(p)
  <2>1. /\ pc[p] = "clean" /\ pc'[p] = "export" /\ graphdb' = p
        /\ UNCHANGED <<files, runs, gen, cgrLock, dirty>>
        /\ \A q \in Project \ {p} : pc'[q] = pc[q]
    BY <1>0, <1>3 DEF CgrIndexes, Goto, FileTypeOK
  <2>2. FileTypeOK'
    BY <1>0, <1>3, <2>1 DEF CgrIndexes, Goto, FileTypeOK, IngestPC
  <2>3. CgrExclusive'
    BY <1>0, <2>1 DEF CgrExclusive
  <2>4. ProjectOK(p)'
    BY <1>0, <2>1 DEF ProjectOK, Dated, Own, Made, Promoted, Tidy
  <2> QED BY <1>0, <2>1, <2>2, <2>3, <2>4, OneProject DEF FileTypeOK
<1>4. CASE CgrWrites(p)
  <2> DEFINE c == [of |-> graphdb, gen |-> gen[p], kind |-> "partial"]
  <2>1. /\ pc[p] = "export" /\ pc'[p] = "exporting" /\ files' = Put(p, gen[p], c)
        /\ UNCHANGED <<runs, gen, cgrLock, graphdb, dirty>>
        /\ \A q \in Project \ {p} : pc'[q] = pc[q]
    BY <1>0, <1>4 DEF CgrWrites, Goto, FileTypeOK
  <2>2. graphdb = p /\ c \in Content /\ c.of = p /\ c.gen = gen[p] /\ c.kind = "partial"
    BY <1>0, <2>1 DEF CgrExclusive, Content, Kind
  <2> HIDE DEF c
  <2>3. /\ files' = [q \in Project |-> files'[q]]
        /\ \A q \in Project \ {p} : files'[q] = files[q]
        /\ DOMAIN files'[p] = DOMAIN files[p] \union {gen[p]} /\ files'[p][gen[p]] = c
        /\ \A m \in DOMAIN files[p] \ {gen[p]} : files'[p][m] = files[p][m]
    BY <1>0, <2>1, <2>2, PutEffect
  <2>4. FileTypeOK'
    <3>1. pc' \in [Project -> IngestPC]
      BY <1>0, <1>4 DEF CgrWrites, Goto, FileTypeOK, IngestPC
    <3> QED BY <1>0, <2>1, <2>2, <2>3, <3>1 DEF FileTypeOK
  <2>5. CgrExclusive'
    BY <1>0, <2>1 DEF CgrExclusive
  <2>6. ProjectOK(p)'
    BY <1>0, <2>1, <2>2, <2>3 DEF ProjectOK, Dated, Own, Made, Promoted, Tidy
  <2> QED BY <1>0, <2>1, <2>3, <2>4, <2>5, <2>6, OneProject DEF FileTypeOK
<1>5. CASE CgrExits(p)
  <2> DEFINE c == [files[p][gen[p]] EXCEPT !.kind = "raw"]
  <2>1. /\ pc[p] = "exporting" /\ pc'[p] = "filter" /\ files' = Put(p, gen[p], c)
        /\ UNCHANGED <<runs, gen, graphdb, dirty>> /\ cgrLock' = FALSE
        /\ \A q \in Project \ {p} : pc'[q] = pc[q]
    BY <1>0, <1>5 DEF CgrExits, Goto, FileTypeOK
  <2>2. gen[p] \in DOMAIN files[p] /\ files[p][gen[p]] \in Content
    BY <1>0, <2>1 DEF ProjectOK, Made
  <2>3. /\ c \in Content /\ c.of = files[p][gen[p]].of
        /\ c.gen = files[p][gen[p]].gen /\ c.kind = "raw"
    BY <2>2 DEF Content, Kind
  <2> HIDE DEF c
  <2>4. /\ files' = [q \in Project |-> files'[q]]
        /\ \A q \in Project \ {p} : files'[q] = files[q]
        /\ DOMAIN files'[p] = DOMAIN files[p] \union {gen[p]} /\ files'[p][gen[p]] = c
        /\ \A m \in DOMAIN files[p] \ {gen[p]} : files'[p][m] = files[p][m]
    BY <1>0, <2>1, <2>3, PutEffect
  <2>5. FileTypeOK'
    <3>1. pc' \in [Project -> IngestPC]
      BY <1>0, <1>5 DEF CgrExits, Goto, FileTypeOK, IngestPC
    <3>2. \A q \in Project : /\ DOMAIN files'[q] \subseteq Nat
                             /\ \A n \in DOMAIN files'[q] : files'[q][n] \in Content
      BY <1>0, <2>3, <2>4 DEF FileTypeOK
    <3>3. cgrLock' \in BOOLEAN
      BY <2>1
    <3> QED BY <1>0, <2>1, <2>4, <3>1, <3>2, <3>3 DEF FileTypeOK
  <2>6. CgrExclusive'
    BY <1>0, <2>1 DEF CgrExclusive
  <2>7. ProjectOK(p)'
    BY <1>0, <2>1, <2>2, <2>3, <2>4 DEF ProjectOK, Dated, Own, Made, Promoted, Tidy
  <2> QED BY <1>0, <2>1, <2>4, <2>5, <2>6, <2>7, OneProject DEF FileTypeOK
<1>6. CASE CgrFails(p)
  <2>1. /\ pc[p] \in Indexing /\ pc'[p] = "idle" /\ ~cgrLock'
        /\ UNCHANGED <<files, runs, gen, graphdb>>
        /\ \A q \in Project \ {p} : pc'[q] = pc[q] /\ (q \in dirty' <=> q \in dirty)
        /\ dirty' \subseteq Project
        /\ p \notin dirty' => p \notin dirty /\ DOMAIN files[p] \ {Canonical} = {}
    BY <1>0, <1>6 DEF CgrFails, LeftBehind, FileTypeOK
  <2>2. FileTypeOK'
    BY <1>0, <1>6, <2>1 DEF CgrFails, FileTypeOK, IngestPC
  <2>3. CgrExclusive'
    BY <1>0, <2>1 DEF CgrExclusive
  <2>4. Tidy(p)'
    BY <1>0, <2>1 DEF ProjectOK, Tidy, Dated
  <2>5. Dated(p)' /\ Own(p)' /\ Made(p)' /\ Promoted(p)'
    BY <1>0, <2>1 DEF ProjectOK, Dated, Own, Made, Promoted
  <2> QED BY <1>0, <2>1, <2>2, <2>3, <2>4, <2>5, OneProject DEF ProjectOK, FileTypeOK
<1>7. CASE Filter(p)
  <2> DEFINE c == [files[p][gen[p]] EXCEPT !.kind = "filtered"]
  <2>1. /\ pc[p] = "filter" /\ pc'[p] = "promote" /\ files' = Put(p, gen[p], c)
        /\ UNCHANGED <<runs, gen, cgrLock, graphdb, dirty>>
        /\ \A q \in Project \ {p} : pc'[q] = pc[q]
    BY <1>0, <1>7 DEF Filter, Goto, FileTypeOK
  <2>2. gen[p] \in DOMAIN files[p] /\ files[p][gen[p]] \in Content
    BY <1>0, <2>1 DEF ProjectOK, Made
  <2>3. /\ c \in Content /\ c.of = files[p][gen[p]].of
        /\ c.gen = files[p][gen[p]].gen /\ c.kind = "filtered"
    BY <2>2 DEF Content, Kind
  <2> HIDE DEF c
  <2>4. /\ files' = [q \in Project |-> files'[q]]
        /\ \A q \in Project \ {p} : files'[q] = files[q]
        /\ DOMAIN files'[p] = DOMAIN files[p] \union {gen[p]} /\ files'[p][gen[p]] = c
        /\ \A m \in DOMAIN files[p] \ {gen[p]} : files'[p][m] = files[p][m]
    BY <1>0, <2>1, <2>3, PutEffect
  <2>5. FileTypeOK'
    <3>1. pc' \in [Project -> IngestPC]
      BY <1>0, <1>7 DEF Filter, Goto, FileTypeOK, IngestPC
    <3> QED BY <1>0, <2>1, <2>3, <2>4, <3>1 DEF FileTypeOK
  <2>6. CgrExclusive'
    BY <1>0, <2>1 DEF CgrExclusive
  <2>7. ProjectOK(p)'
    BY <1>0, <2>1, <2>2, <2>3, <2>4 DEF ProjectOK, Dated, Own, Made, Promoted, Tidy
  <2> QED BY <1>0, <2>1, <2>4, <2>5, <2>6, <2>7, OneProject DEF FileTypeOK
<1>8. CASE FilterFails(p)
  <2>1. /\ pc[p] = "filter" /\ pc'[p] = "idle"
        /\ files' = [files EXCEPT ![p] = Remove(@, gen[p])]
        /\ UNCHANGED <<runs, gen, cgrLock, graphdb, dirty>>
        /\ \A q \in Project \ {p} : pc'[q] = pc[q]
    BY <1>0, <1>8 DEF FilterFails, Goto, FileTypeOK
  <2>2. /\ files' = [q \in Project |-> files'[q]]
        /\ \A q \in Project \ {p} : files'[q] = files[q]
        /\ DOMAIN files'[p] = DOMAIN files[p] \ {gen[p]}
        /\ \A m \in DOMAIN files[p] \ {gen[p]} : files'[p][m] = files[p][m]
    BY <1>0, <2>1, RemoveEffect
  <2>3. FileTypeOK'
    <3>1. pc' \in [Project -> IngestPC]
      BY <1>0, <1>8 DEF FilterFails, Goto, FileTypeOK, IngestPC
    <3> QED BY <1>0, <2>1, <2>2, <3>1 DEF FileTypeOK
  <2>4. CgrExclusive'
    BY <1>0, <2>1 DEF CgrExclusive
  <2>5. ProjectOK(p)'
    BY <1>0, <2>1, <2>2 DEF ProjectOK, Dated, Own, Made, Promoted, Tidy
  <2> QED BY <1>0, <2>1, <2>2, <2>3, <2>4, <2>5, OneProject DEF FileTypeOK
<1>9. CASE Promote(p)
  <2>1. /\ pc[p] = "promote" /\ pc'[p] = "cleanup"
        /\ UNCHANGED <<runs, gen, cgrLock, graphdb, dirty>>
        /\ \A q \in Project \ {p} : pc'[q] = pc[q]
    BY <1>0, <1>9 DEF Promote, Goto, FileTypeOK
  <2>2. /\ files' = [q \in Project |-> files'[q]]
        /\ \A q \in Project \ {p} : files'[q] = files[q]
        /\ DOMAIN files'[p] = (DOMAIN files[p] \union {Canonical}) \ {gen[p]}
        /\ gen[p] > 0 /\ gen[p] \in DOMAIN files[p]
        /\ files'[p][Canonical] = files[p][gen[p]]
        /\ \A m \in DOMAIN files'[p] \ {Canonical} : files'[p][m] = files[p][m]
    BY <1>9, PromoteEffect
  <2>3. files'[p][Canonical] = [of |-> p, gen |-> gen[p], kind |-> "filtered"]
    BY <1>0, <2>1, <2>2 DEF ProjectOK, Dated, Own, Made, Content
  <2>4. FileTypeOK'
    <3>1. pc' \in [Project -> IngestPC]
      BY <1>0, <1>9 DEF Promote, Goto, FileTypeOK, IngestPC
    <3> QED BY <1>0, <2>1, <2>2, <3>1 DEF FileTypeOK
  <2>5. CgrExclusive'
    BY <1>0, <2>1 DEF CgrExclusive
  <2>6. Dated(p)' /\ Own(p)' /\ Made(p)' /\ Promoted(p)'
    BY <1>0, <2>1, <2>2, <2>3 DEF ProjectOK, Dated, Own, Made, Promoted
  <2>7. Tidy(p)'
    BY <1>0, <2>1, <2>2, <2>3 DEF ProjectOK, Tidy
  <2> QED BY <1>0, <2>1, <2>2, <2>4, <2>5, <2>6, <2>7, OneProject DEF ProjectOK, FileTypeOK
<1>10. CASE CleanupOne(p)
  <2>1. /\ pc[p] = "cleanup" /\ UNCHANGED <<runs, pc, gen, cgrLock, graphdb, dirty>>
    BY <1>10 DEF CleanupOne
  <2>2. PICK n \in DOMAIN files[p] \ {Canonical} :
               files' = [files EXCEPT ![p] = Remove(@, n)]
    BY <1>10 DEF CleanupOne
  <2>3. /\ files' = [q \in Project |-> files'[q]]
        /\ \A q \in Project \ {p} : files'[q] = files[q]
        /\ DOMAIN files'[p] = DOMAIN files[p] \ {n}
        /\ \A m \in DOMAIN files[p] \ {n} : files'[p][m] = files[p][m]
    BY <1>0, <2>2, RemoveEffect
  <2>4. FileTypeOK'
    BY <1>0, <2>1, <2>3 DEF FileTypeOK
  <2>5. CgrExclusive'
    BY <1>0, <2>1 DEF CgrExclusive
  <2>6. ProjectOK(p)'
    BY <1>0, <2>1, <2>2, <2>3 DEF ProjectOK, Dated, Own, Made, Promoted, Tidy
  <2> QED BY <1>0, <2>1, <2>3, <2>4, <2>5, <2>6, OneProject DEF FileTypeOK
<1>11. CASE CleanupEnds(p)
  <2>1. /\ pc[p] = "cleanup" /\ pc'[p] = "ingested" /\ DOMAIN files[p] = {Canonical}
        /\ UNCHANGED <<files, runs, gen, cgrLock, graphdb>> /\ dirty' = dirty \ {p}
        /\ \A q \in Project \ {p} : pc'[q] = pc[q]
    BY <1>0, <1>11 DEF CleanupEnds, Goto, FileTypeOK
  <2>2. FileTypeOK'
    BY <1>0, <1>11, <2>1 DEF CleanupEnds, Goto, FileTypeOK, IngestPC
  <2>3. CgrExclusive'
    BY <1>0, <2>1 DEF CgrExclusive
  <2>4. ProjectOK(p)'
    BY <1>0, <2>1 DEF ProjectOK, Dated, Own, Made, Promoted, Tidy
  <2> QED BY <1>0, <2>1, <2>2, <2>3, <2>4, OneProject DEF FileTypeOK
<1> QED
  BY <1>1, <1>2, <1>3, <1>4, <1>5, <1>6, <1>7, <1>8, <1>9, <1>10, <1>11 DEF Ingest

\* A crash forgets the ingestions, and marks what they leave behind.
LEMMA CrashStep == FileInv /\ Crash => FileInv'
<1> SUFFICES ASSUME FileInv, Crash PROVE FileInv'
  OBVIOUS
<1>1. FileTypeOK'
  BY DEF FileInv, FileTypeOK, Crash, IngestPC
<1>2. CgrExclusive'
  BY DEF CgrExclusive, Crash, Indexing
<1>3. ASSUME NEW p \in Project PROVE ProjectOK(p)'
  <2>1. /\ ProjectOK(p) /\ files' = files /\ gen' = gen /\ runs' = runs /\ pc'[p] = "idle"
        /\ p \notin dirty' => p \notin dirty /\ DOMAIN files[p] \ {Canonical} = {}
    BY DEF FileInv, Crash, LeftBehind
  <2>2. Dated(p)' /\ Own(p)' /\ Made(p)' /\ Promoted(p)'
    BY <2>1 DEF ProjectOK, Dated, Own, Made, Promoted, Preparing
  <2>3. Tidy(p)'
    BY <2>1 DEF ProjectOK, Tidy, Dated
  <2> QED BY <2>2, <2>3 DEF ProjectOK
<1> QED BY <1>1, <1>2, <1>3 DEF FileInv

\* Readers write no file.
LEMMA ReadersWriteNothing ==
    ASSUME (\E p \in Project : BeginRead(p)) \/ Read \/ UNCHANGED vars
    PROVE  UNCHANGED fileVars
BY DEF BeginRead, Read, StatCandidate, StatChosen, Load, ReadAgain

LEMMA FileStep == FileInv /\ [Next]_vars => FileInv'
<1> SUFFICES ASSUME FileInv, [Next]_vars PROVE FileInv'
  OBVIOUS
<1>1. CASE UNCHANGED fileVars
  BY <1>1 DEF FileInv, FileTypeOK, CgrExclusive, ProjectOK, Dated, Own, Made, Promoted, Tidy
<1> QED BY <1>1, IngestStep, CrashStep, ReadersWriteNothing DEF Next

LEMMA FileInvariance == Spec => []FileInv
BY FileInit, FileStep, PTL DEF Spec

-----------------------------------------------------------------------------
(* The theorems about the files.                                           *)

\* Two runs are never inside the shared graph at once, and what one exports is
\* what it indexed.
THEOREM OneIndexerAtATime == Spec => []CgrExclusive
<1>1. FileInv => CgrExclusive
  BY DEF FileInv
<1> QED BY <1>1, FileInvariance, PTL

\* No graph of one project is ever filed under another.
THEOREM GraphsAreOwn == Spec => []GraphIsOwn
<1>1. FileInv => GraphIsOwn
  BY DEF FileInv, ProjectOK, Own, GraphIsOwn
<1> QED BY <1>1, FileInvariance, PTL

\* A successful ingestion leaves one file, canonical, filtered and its own, and
\* unfiltered files are being made or were left by a crash or a failing cgr.
THEOREM IngestionsCleanUp == Spec => []CleanAfterIngest
<1>1. FileInv => CleanAfterIngest
  BY DEF FileInv, ProjectOK, Promoted, Tidy, CleanAfterIngest
<1> QED BY <1>1, FileInvariance, PTL

\* What one step does to the files of one project, for those who read them.
FilesAdvance(p) ==
    /\ \A n \in DOMAIN files[p] : n \in DOMAIN files'[p] =>
          /\ MTime(files'[p][n]) >= MTime(files[p][n])
          /\ files'[p][n].gen >= files[p][n].gen
    /\ Canonical \in DOMAIN files[p] => Canonical \in DOMAIN files'[p]
    /\ \A n \in DOMAIN files'[p] \ DOMAIN files[p] :
          n = Canonical \/ (n = gen[p] /\ pc[p] = "export")

\* mtime follows the run, and within a run how far it has come.
LEMMA MTimeBounds ==
    ASSUME NEW c \in Content
    PROVE  /\ MTime(c) \in Nat /\ 3 * c.gen <= MTime(c) /\ MTime(c) <= 3 * c.gen + 2
           /\ c.kind = "partial" => MTime(c) = 3 * c.gen
           /\ c.kind = "raw" => MTime(c) = 3 * c.gen + 1
           /\ c.kind = "filtered" => MTime(c) = 3 * c.gen + 2
BY DEF MTime, Content, Kind

LEMMA Advance ==
    ASSUME FileInv, [Next]_vars, NEW p \in Project
    PROVE  FilesAdvance(p)
<1>0. /\ FileTypeOK /\ ProjectOK(p) /\ FileTypeOK'
      /\ \A n \in DOMAIN files[p] : files[p][n] \in Content /\ n \in Nat
      /\ \A n \in DOMAIN files'[p] : files'[p][n] \in Content /\ n \in Nat
      /\ gen[p] \in Nat
  BY FileStep DEF FileInv, FileTypeOK
<1>1. CASE files'[p] = files[p]
  BY <1>0, <1>1, MTimeBounds DEF FilesAdvance, Content
<1>2. CASE \E n \in Nat : /\ n # Canonical
                          /\ files' = [files EXCEPT ![p] = Remove(@, n)]
  <2>1. PICK n \in Nat : n # Canonical /\ files' = [files EXCEPT ![p] = Remove(@, n)]
    BY <1>2
  <2>2. /\ DOMAIN files'[p] = DOMAIN files[p] \ {n}
        /\ \A m \in DOMAIN files'[p] : files'[p][m] = files[p][m]
    BY <1>0, <2>1, RemoveEffect
  <2> QED BY <1>0, <2>1, <2>2, MTimeBounds DEF FilesAdvance, Content
<1>3. CASE CgrWrites(p)
  <2>1. pc[p] = "export" /\ gen[p] \notin DOMAIN files[p]
    BY <1>0, <1>3 DEF CgrWrites, Goto, ProjectOK, Dated, Preparing
  <2>2. files'[p] = [m \in DOMAIN files[p] \union {gen[p]} |->
                       IF m = gen[p] THEN [of |-> graphdb, gen |-> gen[p], kind |-> "partial"]
                                     ELSE files[p][m]]
    BY <1>0, <1>3 DEF CgrWrites, Put, FileTypeOK
  <2> QED BY <1>0, <2>1, <2>2, MTimeBounds DEF FilesAdvance, Content
<1>4. CASE CgrExits(p) \/ Filter(p)
  <2>1. /\ gen[p] \in DOMAIN files[p]
        /\ \/ files[p][gen[p]].kind = "partial" /\ files'[p][gen[p]].kind = "raw"
           \/ files[p][gen[p]].kind = "raw" /\ files'[p][gen[p]].kind = "filtered"
        /\ files'[p][gen[p]].gen = files[p][gen[p]].gen
        /\ DOMAIN files'[p] = DOMAIN files[p]
        /\ \A m \in DOMAIN files[p] \ {gen[p]} : files'[p][m] = files[p][m]
    <3>1. CASE CgrExits(p)
      BY <1>0, <3>1 DEF CgrExits, Goto, Put, FileTypeOK, ProjectOK, Made, Content
    <3>2. CASE Filter(p)
      BY <1>0, <3>2 DEF Filter, Goto, Put, FileTypeOK, ProjectOK, Made, Content
    <3> QED BY <1>4, <3>1, <3>2
  <2>2. /\ MTime(files'[p][gen[p]]) >= MTime(files[p][gen[p]])
        /\ files'[p][gen[p]].gen >= files[p][gen[p]].gen
    BY <1>0, <2>1, MTimeBounds DEF Content
  <2>3. \A m \in DOMAIN files[p] \ {gen[p]} :
           /\ MTime(files'[p][m]) >= MTime(files[p][m])
           /\ files'[p][m].gen >= files[p][m].gen
    BY <1>0, <2>1, MTimeBounds DEF Content
  <2> QED BY <2>1, <2>2, <2>3 DEF FilesAdvance
<1>5. CASE Promote(p)
  <2>1. /\ DOMAIN files'[p] = (DOMAIN files[p] \union {Canonical}) \ {gen[p]}
        /\ gen[p] > 0 /\ gen[p] \in DOMAIN files[p]
        /\ files'[p][Canonical] = files[p][gen[p]]
        /\ \A m \in DOMAIN files'[p] \ {Canonical} : files'[p][m] = files[p][m]
    BY <1>5, PromoteEffect
  <2>2. files[p][gen[p]].gen = gen[p] /\ files[p][gen[p]].kind = "filtered"
    BY <1>0, <1>5, <2>1 DEF Promote, Goto, ProjectOK, Dated, Made
  <2>3. ASSUME Canonical \in DOMAIN files[p]
        PROVE  /\ MTime(files'[p][Canonical]) >= MTime(files[p][Canonical])
               /\ files'[p][Canonical].gen >= files[p][Canonical].gen
    <3>1. files[p][Canonical].gen <= gen[p]
      BY <1>0, <2>3 DEF ProjectOK, Dated
    <3>2. files[p][Canonical] \in Content /\ files[p][gen[p]] \in Content
      BY <1>0, <2>1, <2>3
    <3> QED BY <2>1, <2>2, <3>1, <3>2, MTimeBounds DEF Content
  <2>4. \A m \in DOMAIN files'[p] \ {Canonical} :
           /\ MTime(files'[p][m]) >= MTime(files[p][m])
           /\ files'[p][m].gen >= files[p][m].gen
    BY <1>0, <2>1, MTimeBounds DEF Content
  <2>5. ASSUME NEW n \in DOMAIN files[p], n \in DOMAIN files'[p]
        PROVE  /\ MTime(files'[p][n]) >= MTime(files[p][n])
               /\ files'[p][n].gen >= files[p][n].gen
    <3>1. CASE n = Canonical BY <2>3, <2>5, <3>1
    <3>2. CASE n # Canonical BY <2>4, <2>5, <3>2
    <3> QED BY <3>1, <3>2
  <2>6. /\ Canonical \in DOMAIN files'[p]
        /\ \A n \in DOMAIN files'[p] \ DOMAIN files[p] : n = Canonical
    BY <2>1
  <2> QED BY <2>5, <2>6 DEF FilesAdvance
<1>6. \/ files'[p] = files[p]
      \/ \E n \in Nat : n # Canonical /\ files' = [files EXCEPT ![p] = Remove(@, n)]
      \/ CgrWrites(p) \/ CgrExits(p) \/ Filter(p) \/ Promote(p)
  <2>1. CASE UNCHANGED fileVars \/ Crash
    BY <2>1 DEF Crash
  <2>2. ASSUME NEW q \in Project, Ingest(q), q # p PROVE files'[p] = files[p]
    BY <1>0, <2>2 DEF Ingest, StartIngest, AcquireCgr, CgrIndexes, CgrWrites, CgrExits,
                      CgrFails, Filter, FilterFails, Promote, CleanupOne, CleanupEnds, Put,
                      FileTypeOK
  <2>3. CASE StartIngest(p) \/ AcquireCgr(p) \/ CgrIndexes(p) \/ CgrFails(p) \/ CleanupEnds(p)
    BY <2>3 DEF StartIngest, AcquireCgr, CgrIndexes, CgrFails, CleanupEnds
  <2>4. CASE FilterFails(p)
    <3>1. pc[p] = "filter" /\ files' = [files EXCEPT ![p] = Remove(@, gen[p])]
      BY <2>4 DEF FilterFails, Goto
    <3>2. gen[p] > 0 /\ gen[p] # Canonical
      BY <1>0, <3>1 DEF ProjectOK, Dated
    <3> QED BY <1>0, <3>1, <3>2
  <2>5. CASE CleanupOne(p)
    BY <1>0, <2>5 DEF CleanupOne
  <2> QED BY <2>1, <2>2, <2>3, <2>4, <2>5, ReadersWriteNothing DEF Next, Ingest
<1> QED BY <1>1, <1>2, <1>3, <1>4, <1>5, <1>6

\* Once a project has a canonical graph it keeps one, never an older one.
THEOREM CanonicalAdvances == Spec => CanonicalOnlyAdvances
<1>1. FileInv /\ [Next]_vars =>
        [\A p \in Project : Canonical \in DOMAIN files[p] =>
            /\ Canonical \in DOMAIN files'[p]
            /\ files'[p][Canonical].gen >= files[p][Canonical].gen]_vars
  BY Advance DEF FilesAdvance
<1> QED BY <1>1, FileInvariance, PTL DEF Spec, CanonicalOnlyAdvances

-----------------------------------------------------------------------------
(* A read in progress.                                                     *)

AKey == [name : 0 .. MaxRuns, mtime : Nat]

ReadTypeOK ==
    /\ rpc \in {"idle", "choose", "again", "load"}
    /\ rproj \in Project
    /\ rtodo \subseteq Nat
    /\ rbest = NoFile \/ rbest \in AKey
    /\ retried \in BOOLEAN
    /\ rfloor \in Nat
    /\ removed \in 0 .. 2
    /\ cache = [p \in Project |-> cache[p]]

\* A name that has been in the directory of p: no later file will bear it but
\* the canonical one, which stays.
Known(p, n) ==
    /\ n \in Nat /\ n <= gen[p]
    /\ ~(n = gen[p] /\ pc[p] \in Preparing)
    /\ n = Canonical => Canonical \in DOMAIN files[p]

\* The canonical file that was there when the read began has only advanced.
FloorHolds ==
    rfloor > 0 => /\ Canonical \in DOMAIN files[rproj]
                  /\ files[rproj][Canonical].gen >= rfloor

\* The candidate chosen so far is what max() would have: not older than the
\* canonical file, unless that one is still to be looked at.
ChoiceHolds ==
    rpc \in {"choose", "load"} =>
        /\ \A n \in rtodo : Known(rproj, n)
        /\ rbest # NoFile =>
              /\ Known(rproj, rbest.name)
              /\ rbest.name \in DOMAIN files[rproj] =>
                    MTime(files[rproj][rbest.name]) >= rbest.mtime
        /\ rtodo = {} => rbest # NoFile
        /\ rpc = "load" => rtodo = {}
        /\ rfloor > 0 => \/ Canonical \in rtodo
                         \/ rbest # NoFile /\ rbest.mtime >= 3 * rfloor

\* What was globbed at this attempt is there, or was removed during it.
LossesCounted ==
    /\ rpc = "again" => retried /\ removed >= 1
    /\ rpc \in {"choose", "load"} =>
          /\ retried => removed >= 1
          /\ \/ /\ rtodo \subseteq DOMAIN files[rproj]
                /\ rbest # NoFile => rbest.name \in DOMAIN files[rproj]
             \/ IF retried THEN removed >= 2 ELSE removed >= 1

\* An entry of the cache is at least as new as the key it is filed under.
CacheHolds ==
    \A p \in Project :
        \/ cache[p] = NoGraph
        \/ /\ cache[p].key \in AKey /\ cache[p].graph \in Content
           /\ MTime(cache[p].graph) >= cache[p].key.mtime

ReadInv ==
    /\ ReadTypeOK /\ FloorHolds /\ ChoiceHolds /\ LossesCounted /\ CacheHolds
    /\ rpc # "idle" => answer = Nothing
    /\ ReadIsRecent

LEMMA ReadInit == Init => ReadInv
<1> SUFFICES ASSUME Init PROVE ReadInv
  OBVIOUS
<1>1. ReadTypeOK
  <2>1. cache = [p \in Project |-> cache[p]]
    BY DEF Init
  <2>2. /\ rpc = "idle" /\ rproj \in Project /\ rtodo = {} /\ rbest = NoFile
        /\ retried \in BOOLEAN /\ rfloor = 0 /\ removed = 0
    BY DEF Init
  <2> QED BY <2>1, <2>2 DEF ReadTypeOK
<1>2. FloorHolds /\ ChoiceHolds /\ LossesCounted /\ ReadIsRecent
  BY DEF Init, FloorHolds, ChoiceHolds, LossesCounted, ReadIsRecent, Nothing
<1>3. CacheHolds
  BY DEF Init, CacheHolds
<1>4. rpc = "idle"
  BY DEF Init
<1> QED BY <1>1, <1>2, <1>3, <1>4 DEF ReadInv

\* What is in a directory is known, and has the type of a file.
LEMMA InDirectory ==
    ASSUME FileInv, NEW p \in Project, NEW n \in DOMAIN files[p]
    PROVE  /\ Known(p, n) /\ n \in 0 .. MaxRuns
           /\ files[p][n] \in Content
BY DEF FileInv, FileTypeOK, ProjectOK, Dated, Known

\* A known name stays known, and no step files something new under it.
LEMMA KnownStays ==
    ASSUME FileInv, [Next]_vars, NEW p \in Project, NEW n \in Nat, Known(p, n)
    PROVE  /\ Known(p, n)'
           /\ n \in DOMAIN files'[p] =>
                 n \in DOMAIN files[p] /\ MTime(files'[p][n]) >= MTime(files[p][n])
<1>0. /\ FilesAdvance(p) /\ gen[p] \in Nat /\ runs \in Nat /\ gen[p] <= runs
      /\ FileTypeOK
  BY Advance DEF FileInv, FileTypeOK, ProjectOK, Dated
<1>1. \/ gen'[p] = gen[p] /\ (pc'[p] \in Preparing => pc[p] \in Preparing)
      \/ gen'[p] = runs + 1
  <2>1. CASE UNCHANGED fileVars \/ Crash
    BY <1>0, <2>1 DEF Crash, Preparing
  <2>2. ASSUME NEW q \in Project, Ingest(q), q # p
        PROVE  gen'[p] = gen[p] /\ pc'[p] = pc[p]
    BY <1>0, <2>2 DEF Ingest, StartIngest, AcquireCgr, CgrIndexes, CgrWrites, CgrExits,
                      CgrFails, Filter, FilterFails, Promote, CleanupOne, CleanupEnds, Goto,
                      FileTypeOK
  <2>3. CASE StartIngest(p)
    BY <1>0, <2>3 DEF StartIngest, FileTypeOK
  <2>4. CASE Ingest(p) /\ ~StartIngest(p)
    BY <1>0, <2>4 DEF Ingest, AcquireCgr, CgrIndexes, CgrWrites, CgrExits, CgrFails, Filter,
                      FilterFails, Promote, CleanupOne, CleanupEnds, Goto, FileTypeOK, Preparing
  <2> QED BY <2>1, <2>2, <2>3, <2>4, ReadersWriteNothing DEF Next
<1>2. Known(p, n)'
  BY <1>0, <1>1 DEF Known, FilesAdvance
<1>3. n \in DOMAIN files'[p] => n \in DOMAIN files[p]
  BY <1>0 DEF FilesAdvance, Known, Preparing
<1> QED BY <1>0, <1>2, <1>3 DEF FilesAdvance

\* Files vanish under a read one step at a time, and are counted.
LEMMA VanishedAreCounted ==
    ASSUME FileInv, ReadTypeOK, NEW p \in Project, Ingest(p)
    PROVE  /\ UNCHANGED <<rpc, rproj, rtodo, rbest, retried, answer, cache, rfloor>>
           /\ removed' \in 0 .. 2 /\ removed' >= removed
           /\ rpc = "idle" => removed' = removed
           /\ \/ DOMAIN files[rproj] \subseteq DOMAIN files'[rproj]
              \/ rpc = "idle"
              \/ removed' >= removed + 1
              \/ removed' = 2
<1>0. FileTypeOK /\ rproj \in Project
  BY DEF FileInv, ReadTypeOK
<1>1. CASE StartIngest(p) \/ AcquireCgr(p) \/ CgrIndexes(p) \/ CgrFails(p) \/ CleanupEnds(p)
  BY <1>0, <1>1 DEF StartIngest, AcquireCgr, CgrIndexes, CgrFails, CleanupEnds, ReadTypeOK
<1>2. CASE CgrWrites(p) \/ CgrExits(p) \/ Filter(p)
  <2>1. UNCHANGED readVars
    BY <1>2 DEF CgrWrites, CgrExits, Filter
  <2>2. DOMAIN files[rproj] \subseteq DOMAIN files'[rproj]
    BY <1>0, <1>2 DEF CgrWrites, CgrExits, Filter, Put, FileTypeOK
  <2> QED BY <1>0, <2>1, <2>2 DEF ReadTypeOK
<1>3. CASE FilterFails(p) \/ Promote(p) \/ CleanupOne(p)
  <2>1. ReaderUnchanged /\ Vanishes(p)
    BY <1>3 DEF FilterFails, Promote, CleanupOne
  <2>2. p # rproj => files'[rproj] = files[rproj]
    BY <1>0, <1>3 DEF FilterFails, Promote, CleanupOne, FileTypeOK
  <2> QED BY <1>0, <2>1, <2>2 DEF ReaderUnchanged, Vanishes, ReadTypeOK
<1> QED BY <1>1, <1>2, <1>3 DEF Ingest

\* Whatever an ingestion does, a read in progress keeps what it knows.
LEMMA ReadSurvivesIngest ==
    ASSUME FileInv, ReadInv, NEW p \in Project, Ingest(p)
    PROVE  ReadInv'
<1>0. /\ [Next]_vars /\ ReadTypeOK /\ rproj \in Project /\ FilesAdvance(rproj)
      /\ UNCHANGED <<rpc, rproj, rtodo, rbest, retried, answer, cache, rfloor>>
      /\ removed \in 0 .. 2 /\ removed' \in 0 .. 2 /\ removed' >= removed
      /\ rpc = "idle" => removed' = removed
      /\ \/ DOMAIN files[rproj] \subseteq DOMAIN files'[rproj]
         \/ rpc = "idle" \/ removed' >= removed + 1 \/ removed' = 2
  <2>1. ReadTypeOK /\ rproj \in Project /\ [Next]_vars /\ removed \in 0 .. 2
    BY DEF ReadInv, ReadTypeOK, Next
  <2> QED BY <2>1, Advance, VanishedAreCounted
<1>1. ReadTypeOK'
  BY <1>0 DEF ReadTypeOK
<1>2. FloorHolds'
  <2>1. Canonical \in DOMAIN files[rproj] =>
           files[rproj][Canonical].gen \in Nat /\ files'[rproj][Canonical].gen \in Nat
    BY <1>0, FileStep, InDirectory DEF FileInv, FileTypeOK, Content, FilesAdvance
  <2> QED BY <1>0, <2>1 DEF ReadInv, FloorHolds, FilesAdvance, ReadTypeOK
<1>3. ChoiceHolds'
  <2> SUFFICES ASSUME rpc \in {"choose", "load"} PROVE ChoiceHolds'
    BY <1>0 DEF ChoiceHolds
  <2>1. \A n \in rtodo : Known(rproj, n) /\ n \in Nat
    BY <1>0 DEF ReadInv, ChoiceHolds, ReadTypeOK
  <2>2. \A n \in rtodo' : Known(rproj, n)'
    BY <1>0, <2>1, KnownStays
  <2>3. ASSUME rbest # NoFile
        PROVE  /\ Known(rproj, rbest.name)'
               /\ rbest.name \in DOMAIN files'[rproj] =>
                     MTime(files'[rproj][rbest.name]) >= rbest.mtime
    <3>1. /\ Known(rproj, rbest.name) /\ rbest.name \in Nat /\ rbest.mtime \in Nat
          /\ rbest.name \in DOMAIN files[rproj] =>
                MTime(files[rproj][rbest.name]) >= rbest.mtime
      BY <1>0, <2>3 DEF ReadInv, ChoiceHolds, ReadTypeOK, AKey
    <3>2. /\ Known(rproj, rbest.name)'
          /\ rbest.name \in DOMAIN files'[rproj] =>
                /\ rbest.name \in DOMAIN files[rproj]
                /\ MTime(files'[rproj][rbest.name]) >= MTime(files[rproj][rbest.name])
      BY <1>0, <3>1, KnownStays
    <3>3. /\ rbest.name \in DOMAIN files[rproj] => MTime(files[rproj][rbest.name]) \in Nat
          /\ rbest.name \in DOMAIN files'[rproj] => MTime(files'[rproj][rbest.name]) \in Nat
      BY <1>0, FileStep, MTimeBounds DEF FileInv, FileTypeOK
    <3> QED BY <3>1, <3>2, <3>3
  <2> QED BY <1>0, <2>2, <2>3 DEF ReadInv, ChoiceHolds
<1>4. LossesCounted'
  BY <1>0 DEF ReadInv, LossesCounted
<1>5. CacheHolds' /\ (rpc' # "idle" => answer' = Nothing)
  BY <1>0 DEF ReadInv, CacheHolds
<1>6. ReadIsRecent'
  BY <1>0 DEF ReadInv, ReadIsRecent
<1> QED BY <1>1, <1>2, <1>3, <1>4, <1>5, <1>6 DEF ReadInv

-----------------------------------------------------------------------------
(* The steps of a read.                                                    *)

\* A crash ends the read and forgets the cache.
LEMMA ReadEndsInCrash ==
    ASSUME FileInv, ReadInv, Crash
    PROVE  ReadInv'
<1>1. /\ UNCHANGED <<files, gen, rproj, rtodo, rbest, retried, rfloor, removed>>
      /\ rpc' = "idle" /\ answer' = Nothing /\ cache' = [p \in Project |-> NoGraph]
  BY DEF Crash
<1>2. ReadTypeOK'
  <2>1. cache' = [p \in Project |-> cache'[p]]
    BY <1>1
  <2> QED BY <1>1, <2>1 DEF ReadInv, ReadTypeOK
<1>3. FloorHolds'
  BY <1>1 DEF ReadInv, FloorHolds
<1>4. ChoiceHolds' /\ LossesCounted' /\ ReadIsRecent'
  BY <1>1 DEF ChoiceHolds, LossesCounted, ReadIsRecent, Nothing
<1>5. CacheHolds'
  BY <1>1 DEF CacheHolds
<1> QED BY <1>1, <1>2, <1>3, <1>4, <1>5 DEF ReadInv

\* One glob, at the beginning of a read or after a loss.
LEMMA GlobStep ==
    ASSUME FileInv, ReadInv, UNCHANGED fileVars, NEW p \in Project, rproj' = p, Glob(p),
           retried' \in BOOLEAN, rfloor' \in Nat, removed' \in 0 .. 2,
           retried' => removed' >= 1, FloorHolds'
    PROVE  ReadInv'
<1>0. /\ ReadTypeOK /\ FileTypeOK /\ p \in Project
      /\ files' = files /\ gen' = gen /\ pc' = pc
      /\ rbest' = NoFile \/ rbest' = rbest
  BY DEF FileInv, ReadInv, Glob
<1>1. CASE DOMAIN files[p] = {}
  <2>1. /\ cache' = [cache EXCEPT ![p] = NoGraph] /\ rpc' = "idle" /\ answer' = NotFound
        /\ UNCHANGED <<rtodo, rbest>>
    BY <1>1 DEF Glob, Answer
  <2>2. rfloor' = 0
    BY <1>0, <1>1 DEF FloorHolds
  <2>3. ReadTypeOK'
    <3>1. cache' = [q \in Project |-> cache'[q]]
      BY <1>0, <2>1 DEF ReadTypeOK
    <3> QED BY <1>0, <2>1, <3>1 DEF ReadTypeOK
  <2>4. ChoiceHolds' /\ LossesCounted'
    BY <2>1 DEF ChoiceHolds, LossesCounted
  <2>5. CacheHolds'
    BY <1>0, <2>1 DEF ReadInv, CacheHolds, ReadTypeOK
  <2>6. ReadIsRecent'
    BY <2>1, <2>2 DEF ReadIsRecent, NotFound
  <2> QED BY <2>1, <2>3, <2>4, <2>5, <2>6 DEF ReadInv
<1>2. CASE DOMAIN files[p] # {}
  <2>1. /\ rtodo' = DOMAIN files[p] /\ rbest' = NoFile /\ rpc' = "choose"
        /\ answer' = Nothing /\ UNCHANGED cache
    BY <1>2 DEF Glob
  <2>2. ReadTypeOK'
    BY <1>0, <2>1 DEF ReadTypeOK, FileTypeOK
  <2>3. \A n \in rtodo' : Known(p, n)'
    <3>1. \A n \in DOMAIN files[p] : Known(p, n)
      BY <1>0, InDirectory
    <3> QED BY <1>0, <2>1, <3>1 DEF Known
  <2>4. ChoiceHolds'
    BY <1>0, <1>2, <2>1, <2>3 DEF ChoiceHolds, FloorHolds
  <2>5. LossesCounted'
    BY <1>0, <2>1 DEF LossesCounted
  <2>6. CacheHolds'
    BY <1>0, <2>1 DEF ReadInv, CacheHolds
  <2>7. ReadIsRecent'
    BY <2>1 DEF ReadIsRecent, Nothing
  <2> QED BY <2>1, <2>2, <2>4, <2>5, <2>6, <2>7 DEF ReadInv
<1> QED BY <1>1, <1>2

LEMMA BeginReadStep ==
    ASSUME FileInv, ReadInv, NEW p \in Project, BeginRead(p)
    PROVE  ReadInv'
<1>1. /\ rproj' = p /\ retried' = FALSE /\ removed' = 0 /\ UNCHANGED fileVars
      /\ rfloor' = IF Canonical \in DOMAIN files[p] THEN files[p][Canonical].gen ELSE 0
      /\ Glob(p)
  BY DEF BeginRead
<1>2. Canonical \in DOMAIN files[p] => files[p][Canonical].gen \in Nat
  BY DEF FileInv, FileTypeOK, Content
<1>3. rfloor' \in Nat /\ FloorHolds'
  BY <1>1, <1>2 DEF FloorHolds
<1>4. retried' \in BOOLEAN /\ removed' \in 0 .. 2 /\ (retried' => removed' >= 1)
  <2>1. retried' \in BOOLEAN /\ ~retried'
    BY <1>1
  <2> QED BY <1>1, <2>1
<1> QED BY <1>1, <1>3, <1>4, GlobStep

LEMMA ReadAgainStep ==
    ASSUME FileInv, ReadInv, ReadAgain
    PROVE  ReadInv'
<1>1. /\ rpc = "again" /\ Glob(rproj)
      /\ UNCHANGED <<fileVars, rproj, retried, rfloor, removed>>
  BY DEF ReadAgain
<1>2. /\ rproj \in Project /\ retried \in BOOLEAN /\ rfloor \in Nat /\ removed \in 0 .. 2
      /\ retried => removed >= 1
  BY <1>1 DEF ReadInv, ReadTypeOK, LossesCounted
<1>3. FloorHolds'
  BY <1>1 DEF ReadInv, FloorHolds
<1> QED BY <1>1, <1>2, <1>3, GlobStep

\* A file that is not found any more was removed since the glob.
LEMMA LostFileStep ==
    ASSUME FileInv, ReadInv, rpc \in {"choose", "load"}, LostFile,
           \/ \E n \in rtodo : n \notin DOMAIN files[rproj]
           \/ rbest # NoFile /\ rbest.name \notin DOMAIN files[rproj],
           UNCHANGED <<fileVars, rproj, rtodo, rbest, rfloor, removed>>
    PROVE  ReadInv'
<1>1. /\ ReadTypeOK /\ answer = Nothing
      /\ IF retried THEN removed >= 2 ELSE removed >= 1
  BY DEF ReadInv, LossesCounted
<1>2. /\ cache' = [cache EXCEPT ![rproj] = NoGraph]
      /\ \/ /\ retried /\ UNCHANGED retried /\ rpc' = "idle" /\ answer' = NotFound
         \/ /\ ~retried /\ retried' = TRUE /\ rpc' = "again" /\ UNCHANGED answer
  BY <1>1 DEF LostFile, Answer, ReadTypeOK
<1>3. ReadTypeOK'
  <2>1. cache' = [p \in Project |-> cache'[p]]
    BY <1>1, <1>2 DEF ReadTypeOK
  <2> QED BY <1>1, <1>2, <2>1 DEF ReadTypeOK
<1>4. FloorHolds'
  BY DEF ReadInv, FloorHolds
<1>5. ChoiceHolds' /\ LossesCounted'
  BY <1>1, <1>2 DEF ChoiceHolds, LossesCounted
<1>6. CacheHolds'
  BY <1>1, <1>2 DEF ReadInv, CacheHolds, ReadTypeOK
<1>7. ReadIsRecent'
  BY <1>1, <1>2 DEF ReadIsRecent, NotFound, Nothing
<1> QED BY <1>1, <1>2, <1>3, <1>4, <1>5, <1>6, <1>7 DEF ReadInv

\* The key of a file, and what it says of the run that wrote it.
LEMMA KeyOfFile ==
    ASSUME FileInv, NEW p \in Project, NEW n \in DOMAIN files[p]
    PROVE  /\ Key(n, files[p][n]) \in AKey
           /\ Key(n, files[p][n]) # NoFile
           /\ Key(n, files[p][n]).name = n
           /\ Key(n, files[p][n]).mtime = MTime(files[p][n])
<1>1. n \in 0 .. MaxRuns /\ files[p][n] \in Content
  BY InDirectory
<1>2. MTime(files[p][n]) \in Nat
  BY <1>1, MTimeBounds
<1>3. Key(n, files[p][n]).name # NoFile.name
  BY <1>1 DEF Key, NoFile
<1> QED BY <1>1, <1>2, <1>3 DEF Key, AKey

LEMMA StatCandidateStep ==
    ASSUME FileInv, ReadInv, StatCandidate
    PROVE  ReadInv'
<1>1. PICK n \in rtodo :
          IF n \notin DOMAIN files[rproj]
          THEN LostFile /\ UNCHANGED <<rtodo, rbest>>
          ELSE /\ rtodo' = rtodo \ {n}
               /\ rbest' = IF rbest = NoFile \/ Key(n, files[rproj][n]).mtime > rbest.mtime
                           THEN Key(n, files[rproj][n]) ELSE rbest
               /\ UNCHANGED <<rpc, retried, answer, cache>>
  BY DEF StatCandidate
<1>2. /\ rpc = "choose" /\ UNCHANGED <<fileVars, rproj, rfloor, removed>>
      /\ ReadTypeOK /\ rproj \in Project /\ answer = Nothing
  BY DEF StatCandidate, ReadInv, ReadTypeOK
<1>3. CASE n \notin DOMAIN files[rproj]
  BY <1>1, <1>2, <1>3, LostFileStep
<1>4. CASE n \in DOMAIN files[rproj]
  <2> DEFINE k == Key(n, files[rproj][n])
  <2>1. /\ k \in AKey /\ k # NoFile /\ k.name = n /\ k.mtime = MTime(files[rproj][n])
        /\ files[rproj][n] \in Content /\ Known(rproj, n)
    BY <1>2, <1>4, KeyOfFile, InDirectory
  <2>2. /\ rtodo' = rtodo \ {n} /\ UNCHANGED <<rpc, retried, answer, cache>>
        /\ \/ rbest' = k /\ (rbest # NoFile => k.mtime >= rbest.mtime)
           \/ rbest # NoFile /\ rbest' = rbest /\ rbest.mtime >= k.mtime
    <3>1. k.mtime \in Nat /\ (rbest # NoFile => rbest.mtime \in Nat)
      BY <1>2, <2>1 DEF ReadTypeOK, AKey
    <3>2. /\ rtodo' = rtodo \ {n} /\ UNCHANGED <<rpc, retried, answer, cache>>
          /\ rbest' = IF rbest = NoFile \/ k.mtime > rbest.mtime THEN k ELSE rbest
      BY <1>1, <1>4
    <3> HIDE DEF k
    <3> QED BY <3>1, <3>2
  <2> HIDE DEF k
  <2>3. ReadTypeOK'
    BY <1>2, <2>1, <2>2 DEF ReadTypeOK
  <2>4. FloorHolds'
    BY <1>2 DEF ReadInv, FloorHolds
  <2>5. /\ rbest' # NoFile /\ Known(rproj, rbest'.name)
        /\ rbest'.name \in DOMAIN files[rproj] =>
              MTime(files[rproj][rbest'.name]) >= rbest'.mtime
    <3>1. k.mtime \in Nat
      BY <2>1 DEF AKey
    <3> QED BY <1>2, <2>1, <2>2, <3>1 DEF ReadInv, ChoiceHolds
  <2>6. rfloor > 0 => Canonical \in rtodo' \/ rbest'.mtime >= 3 * rfloor
    <3> SUFFICES ASSUME rfloor > 0, Canonical \notin rtodo' PROVE rbest'.mtime >= 3 * rfloor
      OBVIOUS
    <3>0. rfloor \in Nat /\ k.mtime \in Nat /\ (rbest # NoFile => rbest.mtime \in Nat)
      BY <1>2, <2>1 DEF ReadTypeOK, AKey
    <3>1. CASE n = Canonical
      <4>1. files[rproj][n].gen >= rfloor /\ files[rproj][n].gen \in Nat
        BY <2>1, <3>1 DEF ReadInv, FloorHolds, Content
      <4>2. k.mtime >= 3 * rfloor
        BY <2>1, <3>0, <4>1, MTimeBounds
      <4> QED BY <2>2, <3>0, <4>2
    <3>2. CASE n # Canonical
      <4>1. rbest # NoFile /\ rbest.mtime >= 3 * rfloor
        BY <1>2, <2>2, <3>2 DEF ReadInv, ChoiceHolds
      <4> QED BY <2>2, <3>0, <4>1
    <3> QED BY <3>1, <3>2
  <2>7. ChoiceHolds'
    <3>1. \A m \in rtodo' : Known(rproj, m)
      BY <1>2, <2>2 DEF ReadInv, ChoiceHolds
    <3> QED BY <1>2, <2>2, <2>5, <2>6, <3>1 DEF ChoiceHolds, Known
  <2>8. LossesCounted'
    BY <1>2, <1>4, <2>1, <2>2 DEF ReadInv, LossesCounted
  <2>9. CacheHolds' /\ ReadIsRecent'
    BY <1>2, <2>2 DEF ReadInv, CacheHolds, ReadIsRecent, Nothing
  <2> QED BY <1>2, <2>2, <2>3, <2>4, <2>7, <2>8, <2>9 DEF ReadInv
<1> QED BY <1>3, <1>4

LEMMA StatChosenStep ==
    ASSUME FileInv, ReadInv, StatChosen
    PROVE  ReadInv'
<1>1. /\ rpc = "choose" /\ rtodo = {} /\ rbest # NoFile
      /\ UNCHANGED <<fileVars, rproj, rtodo, rfloor, removed>>
      /\ ReadTypeOK /\ rproj \in Project /\ answer = Nothing /\ rfloor \in Nat
      /\ rbest \in AKey /\ rbest.mtime \in Nat
      /\ rfloor > 0 => rbest.mtime >= 3 * rfloor
  BY DEF StatChosen, ReadInv, ReadTypeOK, ChoiceHolds, AKey
<1>2. CASE rbest.name \notin DOMAIN files[rproj]
  <2>1. LostFile /\ UNCHANGED rbest
    BY <1>2 DEF StatChosen
  <2> QED BY <1>1, <1>2, <2>1, LostFileStep
<1>3. CASE rbest.name \in DOMAIN files[rproj]
  <2>1. /\ rbest' = Key(rbest.name, files[rproj][rbest.name])
        /\ UNCHANGED <<retried, cache>>
        /\ \/ /\ cache[rproj].key = rbest' /\ answer' = Found(cache[rproj].graph)
              /\ rpc' = "idle"
           \/ rpc' = "load" /\ UNCHANGED answer
    BY <1>3 DEF StatChosen, Answer
  <2>2. /\ rbest' \in AKey /\ rbest' # NoFile /\ rbest'.name = rbest.name
        /\ rbest'.mtime = MTime(files[rproj][rbest.name]) /\ rbest'.mtime \in Nat
        /\ Known(rproj, rbest.name)
    BY <1>1, <1>3, <2>1, KeyOfFile, InDirectory DEF AKey
  <2>3. rfloor > 0 => rbest'.mtime >= 3 * rfloor
    <3>1. MTime(files[rproj][rbest.name]) >= rbest.mtime
      BY <1>1, <1>3 DEF ReadInv, ChoiceHolds
    <3> QED BY <1>1, <2>2, <3>1
  <2>4. ReadTypeOK'
    BY <1>1, <2>1, <2>2 DEF ReadTypeOK
  <2>5. FloorHolds' /\ CacheHolds'
    BY <1>1, <2>1 DEF ReadInv, FloorHolds, CacheHolds
  <2>6. ChoiceHolds'
    BY <1>1, <2>1, <2>2, <2>3 DEF ChoiceHolds, Known
  <2>7. LossesCounted'
    BY <1>1, <1>3, <2>1, <2>2 DEF ReadInv, LossesCounted
  <2>8. ReadIsRecent' /\ (rpc' # "idle" => answer' = Nothing)
    <3>1. CASE cache[rproj].key = rbest' /\ answer' = Found(cache[rproj].graph)
                  /\ rpc' = "idle"
      <4>1. cache[rproj] # NoGraph
        BY <2>2, <3>1 DEF NoGraph
      <4>2. /\ cache[rproj].graph \in Content
            /\ MTime(cache[rproj].graph) >= rbest'.mtime
        BY <1>1, <3>1, <4>1 DEF ReadInv, CacheHolds
      <4>3. cache[rproj].graph.gen \in Nat /\ cache[rproj].graph.gen >= rfloor
        BY <1>1, <2>2, <2>3, <4>2, MTimeBounds DEF Content
      <4>4. answer'.status = "graph" /\ answer'.graph = cache[rproj].graph
        BY <3>1 DEF Found
      <4> QED BY <1>1, <3>1, <4>3, <4>4 DEF ReadIsRecent
    <3>2. CASE rpc' = "load" /\ UNCHANGED answer
      BY <1>1, <3>2 DEF ReadIsRecent, Nothing
    <3> QED BY <2>1, <3>1, <3>2
  <2> QED BY <2>4, <2>5, <2>6, <2>7, <2>8 DEF ReadInv
<1> QED BY <1>2, <1>3

LEMMA LoadStep ==
    ASSUME FileInv, ReadInv, Load
    PROVE  ReadInv'
<1>1. /\ rpc = "load" /\ rbest # NoFile
      /\ UNCHANGED <<fileVars, rproj, rtodo, rbest, rfloor, removed>>
      /\ ReadTypeOK /\ rproj \in Project /\ answer = Nothing /\ rfloor \in Nat
      /\ rbest \in AKey /\ rbest.mtime \in Nat
      /\ rfloor > 0 => rbest.mtime >= 3 * rfloor
  BY DEF Load, ReadInv, ReadTypeOK, ChoiceHolds, AKey
<1>2. CASE rbest.name \notin DOMAIN files[rproj]
  <2>1. LostFile
    BY <1>2 DEF Load
  <2> QED BY <1>1, <1>2, <2>1, LostFileStep
<1>3. CASE rbest.name \in DOMAIN files[rproj]
  <2> DEFINE c == files[rproj][rbest.name]
  <2>1. /\ UNCHANGED retried /\ rpc' = "idle"
        /\ \/ answer' = Corrupt /\ UNCHANGED cache
           \/ /\ cache' = [cache EXCEPT ![rproj] = [key |-> rbest, graph |-> c]]
              /\ answer' = Found(c)
    BY <1>3 DEF Load, Answer
  <2>2. c \in Content /\ c.gen \in Nat /\ MTime(c) \in Nat /\ MTime(c) >= rbest.mtime
    BY <1>1, <1>3, InDirectory, MTimeBounds DEF ReadInv, ChoiceHolds, Content
  <2>3. c.gen >= rfloor
    BY <1>1, <2>2, MTimeBounds
  <2> HIDE DEF c
  <2>4. ReadTypeOK'
    <3>1. cache' = [p \in Project |-> cache'[p]]
      BY <1>1, <2>1 DEF ReadTypeOK
    <3> QED BY <1>1, <2>1, <3>1 DEF ReadTypeOK
  <2>5. FloorHolds'
    BY <1>1 DEF ReadInv, FloorHolds
  <2>6. ChoiceHolds' /\ LossesCounted'
    BY <2>1 DEF ChoiceHolds, LossesCounted
  <2>7. CacheHolds'
    BY <1>1, <2>1, <2>2 DEF ReadInv, CacheHolds, ReadTypeOK
  <2>8. ReadIsRecent'
    BY <1>1, <2>1, <2>3 DEF ReadIsRecent, Corrupt, Found
  <2> QED BY <2>1, <2>4, <2>5, <2>6, <2>7, <2>8 DEF ReadInv
<1> QED BY <1>2, <1>3

LEMMA ReadStep == FileInv /\ ReadInv /\ [Next]_vars => ReadInv'
<1> SUFFICES ASSUME FileInv, ReadInv, [Next]_vars PROVE ReadInv'
  OBVIOUS
<1>1. CASE UNCHANGED vars
  BY <1>1 DEF ReadInv, ReadTypeOK, FloorHolds, ChoiceHolds, LossesCounted, CacheHolds,
              ReadIsRecent, Known
<1> QED
  BY <1>1, ReadSurvivesIngest, ReadEndsInCrash, BeginReadStep, ReadAgainStep,
     StatCandidateStep, StatChosenStep, LoadStep DEF Next, Read

\* A read never returns a graph older than the canonical one that was there when
\* it began, and says "not ingested" of such a project only if two files were
\* removed during that one read.
THEOREM ReadsAreRecent == Spec => []ReadIsRecent
<1>1. ReadInv => ReadIsRecent
  BY DEF ReadInv
<1> QED BY <1>1, ReadInit, ReadStep, FileInvariance, PTL DEF Spec
=============================================================================
