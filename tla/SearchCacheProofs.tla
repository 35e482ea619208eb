------------------------ MODULE SearchCacheProofs ------------------------
(* Fresh and Complete for any corpus, cache, limits and number of          *)
(* concurrent searches.                                                    *)
EXTENDS SearchCache, FiniteSetTheorems, TLAPS

(* What is cut to a limit was found.                                       *)
LEMMA BestIsFound == ASSUME NEW n, NEW found, NEW best \in BestOf(n, found) PROVE best \subseteq found
  BY DEF BestOf

(* A search that is under way has a mode and a revision.                   *)
LEMMA BusyRequest ==
    ASSUME TypeOK, NEW r \in Readers, req[r].pc # "idle"
    PROVE  /\ req[r].pc \in ReqPC /\ req[r].mode \in Modes
           /\ req[r].rev \in Nat /\ req[r].docs \in SUBSET Docs
  BY DEF TypeOK, Request, IdleRequest

(* Moving on keeps the type of a request.                                  *)
LEMMA GoesTyped ==
    ASSUME TypeOK, NEW r \in Readers, req[r].pc # "idle", NEW pc \in ReqPC, Goes(r, pc)
    PROVE  /\ req' \in [Readers -> Request]
           /\ req'[r] = [req[r] EXCEPT !.pc = pc]
           /\ \A s \in Readers : s # r => req'[s] = req[s]
<1>1. req[r] \in [pc : ReqPC, mode : Modes, rev : Nat, docs : SUBSET Docs]
  BY DEF TypeOK, Request, IdleRequest
<1>2. req' = [req EXCEPT ![r] = [req[r] EXCEPT !.pc = pc]]
  BY DEF Goes
<1>3. [req[r] EXCEPT !.pc = pc] \in Request
  BY <1>1 DEF Request
<1> QED
  BY <1>2, <1>3 DEF TypeOK

(* So does moving on with what was found.                                  *)
LEMMA FindsTyped ==
    ASSUME TypeOK, NEW r \in Readers, req[r].pc # "idle", NEW pc \in ReqPC,
           NEW docs \in SUBSET Docs, Finds(r, pc, docs)
    PROVE  /\ req' \in [Readers -> Request]
           /\ req'[r] = [req[r] EXCEPT !.pc = pc, !.docs = docs]
           /\ \A s \in Readers : s # r => req'[s] = req[s]
<1>1. req[r] \in [pc : ReqPC, mode : Modes, rev : Nat, docs : SUBSET Docs]
  BY DEF TypeOK, Request, IdleRequest
<1>2. req' = [req EXCEPT ![r] = [req[r] EXCEPT !.pc = pc, !.docs = docs]]
  BY DEF Finds, TypeOK
<1>3. [req[r] EXCEPT !.pc = pc, !.docs = docs] \in Request
  BY <1>1 DEF Request
<1> QED
  BY <1>2, <1>3 DEF TypeOK
(* The corpus keeps its type.                                              *)
LEMMA CorpusTyped ==
    ASSUME TypeOK, CorpusChanges
    PROVE  TypeOK' /\ revision' \in {revision, revision + 1}
<1>1. searchable' \subseteq Docs /\ revision' \in {revision, revision + 1}
  BY DEF TypeOK, CorpusChanges, Env!Next, Env!Announced, Env!Publish, Env!Retire, Env!Lapse
<1> QED
  BY <1>1 DEF TypeOK, CorpusChanges

(* An ended search leaves its reader idle.                                 *)
LEMMA EndTyped ==
    ASSUME TypeOK, NEW r \in Readers, Ends(r)
    PROVE  /\ TypeOK' /\ req'[r] = IdleRequest /\ UNCHANGED <<corpus, cache>>
           /\ \A s \in Readers : s # r => req'[s] = req[s] /\ witness'[s] = witness[s]
<1>1. IdleRequest \in Request
  BY DEF Request
<1> QED
  BY <1>1 DEF TypeOK, Ends, corpus

(* Every step keeps the types.                                             *)
LEMMA SearchTypeStep ==
    ASSUME TypeOK, [Next]_vars
    PROVE  TypeOK'
<1> USE DEF corpus, seen
<1>1. CASE CorpusChanges
  BY <1>1, CorpusTyped
<1>2. ASSUME NEW r \in Readers, NEW mode \in Modes, ReadRevision(r, mode) PROVE TypeOK'
  <2>1. [pc |-> "lookup", mode |-> mode, rev |-> revision, docs |-> {}] \in Request
    BY DEF TypeOK, Request, ReqPC
  <2> QED
    BY <1>2, <2>1 DEF ReadRevision, TypeOK
<1>3. ASSUME NEW r \in Readers, SearchStep(r) PROVE TypeOK'
  <2> USE DEF ReqPC
  <2>1. CASE Hit(r)
    <3>1. PICK e \in cache : Finds(r, "reply", e.docs)
      BY <2>1 DEF Hit
    <3>2. e.docs \in SUBSET Docs
      BY SMTT(20) DEF TypeOK, Entry
    <3>3. req' \in [Readers -> Request]
      BY <2>1, <3>1, <3>2, FindsTyped DEF Hit
    <3> QED
      BY <2>1, <3>3 DEF Hit, TypeOK
  <2>2. CASE Miss(r)
    <3>1. req' \in [Readers -> Request]
      BY <2>2, GoesTyped DEF Miss
    <3> QED
      BY <2>2, <3>1 DEF Miss, TypeOK
  <2>3. CASE KeywordCandidates(r)
    <3>1. PICK docs \in BestOf(CandidateLimit, searchable \intersect Matching) :
              Finds(r, IF req[r].mode = "hybrid" THEN "vector" ELSE "hydrate", docs)
      BY <2>3 DEF KeywordCandidates
    <3>2. docs \in SUBSET Docs
      BY <3>1, BestIsFound DEF TypeOK
    <3>3. req' \in [Readers -> Request]
      BY <2>3, <3>1, <3>2, FindsTyped DEF KeywordCandidates
    <3> QED
      BY <2>3, <3>3 DEF KeywordCandidates, TypeOK
  <2>4. CASE VectorCandidates(r)
    <3>1. PICK points \in SUBSET Docs : \E docs \in BestOf(CandidateLimit, points) :
              Finds(r, "hydrate", req[r].docs \union docs)
      BY <2>4 DEF VectorCandidates
    <3>2. PICK docs \in BestOf(CandidateLimit, points) : Finds(r, "hydrate", req[r].docs \union docs)
      BY <3>1
    <3>3. req[r].docs \union docs \in SUBSET Docs
      BY <2>4, <3>2, BestIsFound, BusyRequest, SMTT(20) DEF VectorCandidates
    <3>4. req' \in [Readers -> Request]
      BY <2>4, <3>2, <3>3, FindsTyped DEF VectorCandidates
    <3> QED
      BY <2>4, <3>4 DEF VectorCandidates, TypeOK
  <2>5. CASE Hydrate(r)
    <3>1. PICK docs \in BestOf(Limit, req[r].docs \intersect searchable) : Finds(r, "store", docs)
      BY <2>5 DEF Hydrate
    <3>2. docs \in SUBSET Docs
      BY <3>1, BestIsFound, SMTT(20) DEF TypeOK
    <3>3. req' \in [Readers -> Request]
      BY <2>5, <3>1, <3>2, FindsTyped DEF Hydrate
    <3> QED
      BY <2>5, <3>3 DEF Hydrate, TypeOK
  <2>6. CASE Store(r)
    <3>1. req' \in [Readers -> Request]
      BY <2>6, GoesTyped DEF Store
    <3>2. cache' \subseteq Entry
      BY <2>6, BusyRequest DEF Store, TypeOK, Entry
    <3> QED
      BY <2>6, <3>1, <3>2 DEF Store, TypeOK
  <2>7. CASE Reply(r) \/ Fails(r)
    BY <2>7, EndTyped DEF Reply, Fails
  <2> QED
    BY <1>3, <2>1, <2>2, <2>3, <2>4, <2>5, <2>6, <2>7 DEF SearchStep
<1>4. ASSUME NEW e \in cache, Expire(e) PROVE TypeOK'
  BY <1>4 DEF Expire, TypeOK
<1>5. CASE UNCHANGED vars
  BY <1>5 DEF vars, TypeOK
<1> QED
  BY <1>1, <1>2, <1>3, <1>4, <1>5 DEF Next
(* What is kept stays good while the corpus does not change and nobody     *)
(* begins to look it up.                                                   *)
LEMMA KeptStays ==
    ASSUME NEW rev, NEW docs, KeptIsSeen(rev, docs), UNCHANGED corpus,
           \A r \in Readers : req'[r].pc = "lookup" =>
               req[r].pc = "lookup" /\ req'[r].rev = req[r].rev /\ witness'[r] = witness[r]
    PROVE  KeptIsSeen(rev, docs)'
  BY DEF KeptIsSeen, corpus

(* A step of one search after its lookup disturbs no other.                *)
LEMMA OthersAreSeen ==
    ASSUME FreshInv, NEW r \in Readers, UNCHANGED corpus, req'[r].pc # "lookup",
           \A s \in Readers : s # r => req'[s] = req[s] /\ witness'[s] = witness[s]
    PROVE  /\ \A s \in Readers : s # r => RequestIsSeen(s)'
           /\ \A e \in cache : KeptIsSeen(e.rev, e.docs)'
<1>1. \A s \in Readers : req'[s].pc = "lookup" =>
          req[s].pc = "lookup" /\ req'[s].rev = req[s].rev /\ witness'[s] = witness[s]
  OBVIOUS
<1>2. ASSUME NEW s \in Readers, s # r PROVE RequestIsSeen(s)'
  <2>1. req[s].pc = "store" => KeptIsSeen(req[s].rev, req[s].docs)'
    BY <1>1, <1>2 DEF FreshInv, RequestIsSeen, KeptIsSeen, corpus
  <2> QED
    BY <1>2, <2>1 DEF FreshInv, RequestIsSeen, corpus
<1>3. \A e \in cache : KeptIsSeen(e.rev, e.docs)'
  BY <1>1, KeptStays DEF FreshInv, CacheIsSeen
<1> QED
  BY <1>2, <1>3

(* The corpus changes, and what was kept under its revision has lapsed or  *)
(* is still there.                                                         *)
LEMMA CorpusIsSeen ==
    ASSUME FreshInv, CorpusChanges
    PROVE  CacheIsSeen' /\ \A r \in Readers : RequestIsSeen(r)'
<1>1. revision \in Nat /\ revision' \in {revision, revision + 1}
  BY CorpusTyped DEF FreshInv, TypeOK
<1>2. revision' = revision => searchable \union lapsed \subseteq searchable' \union lapsed'
  BY DEF CorpusChanges
<1>3. \A r \in Readers : req[r].pc # "idle" => witness'[r] = witness[r] \union searchable'
  BY DEF CorpusChanges
<1>4. UNCHANGED <<cache, req>>
  BY DEF CorpusChanges
<1>5. ASSUME NEW rev \in Nat, NEW docs, KeptIsSeen(rev, docs) PROVE KeptIsSeen(rev, docs)'
  <2>1. rev <= revision' /\ (rev = revision' => revision' = revision)
    BY <1>1, <1>5 DEF KeptIsSeen
  <2> QED
    BY <1>2, <1>3, <1>4, <1>5, <2>1 DEF KeptIsSeen
<1>6. CacheIsSeen'
  <2>1. \A e \in cache : e.rev \in Nat
    BY DEF FreshInv, TypeOK, Entry
  <2> QED
    BY <1>4, <1>5, <2>1 DEF FreshInv, CacheIsSeen
<1>7. ASSUME NEW r \in Readers PROVE RequestIsSeen(r)'
  <2>1. req[r].rev \in Nat
    BY DEF FreshInv, TypeOK, Request, IdleRequest
  <2>2. req[r].rev <= revision'
    BY <1>1, <2>1 DEF FreshInv, RequestIsSeen
  <2>3. req[r].pc = "store" => KeptIsSeen(req[r].rev, req[r].docs)'
    BY <1>1, <1>2, <1>3, <1>4, <2>1, <2>2 DEF FreshInv, RequestIsSeen, KeptIsSeen
  <2> QED
    BY <1>3, <1>4, <2>2, <2>3 DEF FreshInv, RequestIsSeen
<1> QED
  BY <1>6, <1>7

(* A search that begins has the whole corpus, and what lapsed, before it.  *)
LEMMA BeginIsSeen ==
    ASSUME FreshInv, NEW r \in Readers, NEW mode \in Modes, ReadRevision(r, mode)
    PROVE  CacheIsSeen' /\ \A s \in Readers : RequestIsSeen(s)'
<1>1. /\ UNCHANGED <<corpus, cache>> /\ revision \in Nat
      /\ req'[r] = [pc |-> "lookup", mode |-> mode, rev |-> revision, docs |-> {}]
      /\ witness'[r] = searchable \union lapsed
      /\ \A s \in Readers : s # r => req'[s] = req[s] /\ witness'[s] = witness[s]
  BY DEF ReadRevision, FreshInv, TypeOK
<1>2. ASSUME NEW rev, NEW docs, KeptIsSeen(rev, docs) PROVE KeptIsSeen(rev, docs)'
  <2>1. ASSUME NEW s \in Readers, req'[s].pc = "lookup" /\ req'[s].rev = rev
        PROVE  docs \subseteq witness'[s]
    BY <1>1, <1>2, <2>1 DEF KeptIsSeen
  <2> QED
    BY <1>1, <1>2, <2>1 DEF KeptIsSeen, corpus
<1>3. CacheIsSeen'
  BY <1>1, <1>2 DEF FreshInv, CacheIsSeen
<1>4. ASSUME NEW s \in Readers, s # r PROVE RequestIsSeen(s)'
  <2>1. req[s].pc = "store" => KeptIsSeen(req[s].rev, req[s].docs)'
    <3>1. ASSUME req[s].pc = "store", NEW t \in Readers,
                 req'[t].pc = "lookup" /\ req'[t].rev = req[s].rev
          PROVE  req[s].docs \subseteq witness'[t]
      BY <1>1, <3>1 DEF FreshInv, RequestIsSeen, KeptIsSeen
    <3> QED
      BY <1>1, <1>4, <3>1 DEF FreshInv, RequestIsSeen, KeptIsSeen, corpus
  <2> QED
    BY <1>1, <1>4, <2>1 DEF FreshInv, RequestIsSeen, corpus
<1>5. RequestIsSeen(r)'
  BY <1>1 DEF RequestIsSeen, corpus
<1> QED
  BY <1>3, <1>4, <1>5

(* What a search finds, loads and stores, others may look up.              *)
LEMMA SearchIsSeen ==
    ASSUME FreshInv, NEW r \in Readers, SearchStep(r)
    PROVE  CacheIsSeen' /\ \A s \in Readers : RequestIsSeen(s)'
<1>0. TypeOK /\ RequestIsSeen(r)
  BY DEF FreshInv
<1>1. CASE Hit(r)
  <2>1. PICK e \in cache : e.rev = req[r].rev /\ Finds(r, "reply", e.docs)
    BY <1>1 DEF Hit
  <2>2. req[r].pc = "lookup" /\ UNCHANGED <<corpus, cache, seen>>
    BY <1>1 DEF Hit
  <2>3. /\ req'[r].pc = "reply" /\ req'[r].docs = e.docs /\ req'[r].rev = req[r].rev
        /\ \A s \in Readers : s # r => req'[s] = req[s]
    BY <1>0, <2>1, <2>2 DEF Finds, TypeOK, Request, IdleRequest
  <2>4. e.docs \subseteq witness[r]
    BY <2>1, <2>2 DEF FreshInv, CacheIsSeen, KeptIsSeen
  <2> QED
    BY <1>0, <2>2, <2>3, <2>4, OthersAreSeen
       DEF RequestIsSeen, CacheIsSeen, corpus, seen
<1>2. CASE Miss(r) \/ KeywordCandidates(r) \/ VectorCandidates(r)
  <2>1. UNCHANGED <<corpus, cache, seen>> /\ req[r].pc # "idle"
    BY <1>2 DEF Miss, KeywordCandidates, VectorCandidates
  <2>2. /\ req'[r].pc \in {"keyword", "vector", "hydrate"} /\ req'[r].rev = req[r].rev
        /\ \A s \in Readers : s # r => req'[s] = req[s]
    BY <1>0, <1>2 DEF Miss, KeywordCandidates, VectorCandidates, Goes, Finds, TypeOK, Request,
       IdleRequest
  <2> QED
    BY <1>0, <2>1, <2>2, OthersAreSeen DEF RequestIsSeen, CacheIsSeen, corpus, seen
<1>3. CASE Hydrate(r)
  <2>1. PICK docs \in BestOf(Limit, req[r].docs \intersect searchable) : Finds(r, "store", docs)
    BY <1>3 DEF Hydrate
  <2>2. req[r].pc = "hydrate" /\ UNCHANGED <<corpus, cache, seen>>
    BY <1>3 DEF Hydrate
  <2>3. docs \subseteq searchable
    BY <2>1, BestIsFound
  <2>4. /\ req'[r] = [req[r] EXCEPT !.pc = "store", !.docs = docs]
        /\ \A s \in Readers : s # r => req'[s] = req[s]
    BY <1>0, <2>1, <2>2, <2>3, FindsTyped, ZenonT(30) DEF TypeOK, ReqPC
  <2>5. req'[r].pc = "store" /\ req'[r].rev = req[r].rev /\ req'[r].docs = docs
    BY <1>0, <2>2, <2>4 DEF TypeOK, Request, IdleRequest
  <2>6. KeptIsSeen(req[r].rev, req[r].docs)'
    <3>1. ASSUME NEW s \in Readers, req'[s].pc = "lookup" PROVE docs \subseteq witness'[s]
      BY <2>2, <2>3, <2>4, <2>5, <3>1 DEF FreshInv, RequestIsSeen, seen
    <3> QED
      BY <1>0, <2>2, <2>3, <2>5, <3>1 DEF RequestIsSeen, KeptIsSeen, corpus
  <2> QED
    BY <1>0, <2>2, <2>3, <2>4, <2>5, <2>6, OthersAreSeen
       DEF RequestIsSeen, CacheIsSeen, corpus, seen
<1>4. CASE Store(r)
  <2>1. req[r].pc = "store" /\ UNCHANGED <<corpus, seen>>
    BY <1>4 DEF Store
  <2>2. /\ req'[r] = [req[r] EXCEPT !.pc = "reply"]
        /\ \A s \in Readers : s # r => req'[s] = req[s]
    BY <1>0, <1>4, <2>1, GoesTyped DEF Store, ReqPC
  <2>3. req'[r].pc = "reply" /\ req'[r].rev = req[r].rev /\ req'[r].docs = req[r].docs
    BY <1>0, <2>1, <2>2 DEF TypeOK, Request, IdleRequest
  <2>4. KeptIsSeen(req[r].rev, req[r].docs)'
    BY <1>0, <2>1, <2>2, <2>3 DEF RequestIsSeen, KeptIsSeen, corpus, seen
  <2>5. cache' \subseteq cache \union {[mode |-> req[r].mode, rev |-> req[r].rev, docs |-> req[r].docs]}
    BY <1>4 DEF Store
  <2>6. CacheIsSeen'
    <3>1. ASSUME NEW e \in cache' PROVE KeptIsSeen(e.rev, e.docs)'
      <4>1. CASE e \in cache
        BY <2>1, <2>2, <2>3, <4>1, OthersAreSeen DEF seen
      <4>2. CASE e = [mode |-> req[r].mode, rev |-> req[r].rev, docs |-> req[r].docs]
        BY <2>3, <2>4, <4>2 DEF KeptIsSeen
      <4> QED
        BY <2>5, <4>1, <4>2
    <3> QED
      BY <3>1 DEF CacheIsSeen
  <2> QED
    BY <1>0, <2>1, <2>2, <2>3, <2>6, OthersAreSeen DEF RequestIsSeen, corpus, seen
<1>5. CASE Reply(r) \/ Fails(r)
  <2>1. /\ req'[r] = IdleRequest /\ UNCHANGED <<corpus, cache>> /\ revision \in Nat
        /\ \A s \in Readers : s # r => req'[s] = req[s] /\ witness'[s] = witness[s]
    BY <1>0, <1>5, EndTyped DEF Reply, Fails, TypeOK
  <2> QED
    BY <2>1, OthersAreSeen DEF RequestIsSeen, CacheIsSeen, IdleRequest, corpus
<1> QED
  BY <1>1, <1>2, <1>3, <1>4, <1>5 DEF SearchStep

LEMMA FreshInit == Init => FreshInv
  BY SearchAssumption DEF Init, Env!Init, FreshInv, TypeOK, Request, IdleRequest, CacheIsSeen,
     RequestIsSeen

LEMMA FreshStep ==
    ASSUME FreshInv, [Next]_vars
    PROVE  FreshInv'
<1>1. TypeOK'
  BY SearchTypeStep DEF FreshInv
<1>2. CASE UNCHANGED vars
  BY <1>1, <1>2 DEF vars, corpus, seen, FreshInv, CacheIsSeen, RequestIsSeen, KeptIsSeen
<1>3. ASSUME NEW e \in cache, Expire(e) PROVE FreshInv'
  <2>1. UNCHANGED <<corpus, req, seen>> /\ cache' \subseteq cache
    BY <1>3 DEF Expire
  <2> QED
    BY <1>1, <2>1 DEF corpus, seen, FreshInv, CacheIsSeen, RequestIsSeen, KeptIsSeen
<1> QED
  BY <1>1, <1>2, <1>3, CorpusIsSeen, BeginIsSeen, SearchIsSeen DEF Next, FreshInv

(* No search returns a document that was not searchable, or had not lapsed *)
(* under the revision it read, at some moment since it began: the key of   *)
(* cache.py is read before the search, so a result is never kept under a   *)
(* later revision than the corpus it came from.                            *)
THEOREM Freshness == Spec => []Fresh
<1>1. FreshInv => Fresh
  BY DEF FreshInv, RequestIsSeen, Fresh
<1> QED
  BY <1>1, FreshInit, FreshStep, PTL DEF Spec
---------------------------------------------------------------------------
(* Complete *)

LEMMA Fewer ==
    ASSUME NEW S, NEW T \in SUBSET Docs, S \subseteq T
    PROVE  Cardinality(S) \in Nat /\ Cardinality(T) \in Nat /\ Cardinality(S) <= Cardinality(T)
<1>1. IsFiniteSet(T)
  BY SearchAssumption, FS_Subset
<1>2. IsFiniteSet(S) /\ Cardinality(S) <= Cardinality(T)
  BY <1>1, FS_Subset
<1> QED
  BY <1>1, <1>2, FS_CardinalityType

(* Of what fits the limit, everything found fits it, and so does any part. *)
LEMMA PartsFit ==
    ASSUME NEW mode, NEW saw \in SUBSET Docs, Fits(mode, saw), NEW part, part \subseteq saw
    PROVE  /\ Fits(mode, part)
           /\ part \subseteq Competing(mode) =>
                  Cardinality(part) \in Nat /\ Cardinality(part) <= Limit
<1>1. saw \intersect Competing(mode) \in SUBSET Docs
  OBVIOUS
<1>2. ASSUME NEW S, S \subseteq saw \intersect Competing(mode)
      PROVE  Cardinality(S) \in Nat /\ Cardinality(S) <= Limit
  <2>1. /\ Cardinality(S) \in Nat
        /\ Cardinality(saw \intersect Competing(mode)) \in Nat
        /\ Cardinality(S) <= Cardinality(saw \intersect Competing(mode))
    BY <1>1, <1>2, Fewer
  <2>2. Cardinality(saw \intersect Competing(mode)) <= Limit /\ Limit \in Nat
    BY SearchAssumption DEF Fits
  <2> QED
    BY <2>1, <2>2
<1>3. part \intersect Competing(mode) \subseteq saw \intersect Competing(mode)
  OBVIOUS
<1> QED
  BY <1>2, <1>3 DEF Fits

(* A limit cuts nothing off what does not exceed it.                       *)
LEMMA AllAreBest ==
    ASSUME NEW n, NEW found, Cardinality(found) <= n, NEW best \in BestOf(n, found)
    PROVE  best = found
  BY DEF BestOf

(* What is kept stays whole while the corpus does not change and nobody    *)
(* begins to look it up.                                                   *)
LEMMA WholeStays ==
    ASSUME NEW mode, NEW rev, NEW docs, KeptIsWhole(mode, rev, docs), UNCHANGED corpus,
           \A r \in Readers : req'[r].pc = "lookup" =>
               /\ req[r].pc = "lookup" /\ req'[r].rev = req[r].rev
               /\ witness'[r] = witness[r] /\ stable'[r] = stable[r]
    PROVE  KeptIsWhole(mode, rev, docs)'
  BY DEF KeptIsWhole, Fits, corpus

(* A step of one search after its lookup disturbs no other.                *)
LEMMA OthersAreWhole ==
    ASSUME CompleteInv, NEW r \in Readers, UNCHANGED corpus, req'[r].pc # "lookup",
           \A s \in Readers : s # r =>
               req'[s] = req[s] /\ witness'[s] = witness[s] /\ stable'[s] = stable[s]
    PROVE  /\ \A s \in Readers : s # r => RequestIsWhole(s)'
           /\ \A e \in cache : e.mode # "vector" => KeptIsWhole(e.mode, e.rev, e.docs)'
<1>1. \A s \in Readers : req'[s].pc = "lookup" =>
          /\ req[s].pc = "lookup" /\ req'[s].rev = req[s].rev
          /\ witness'[s] = witness[s] /\ stable'[s] = stable[s]
  OBVIOUS
<1>2. ASSUME NEW s \in Readers, s # r PROVE RequestIsWhole(s)'
  <2>1. HasKeywords(s) /\ req[s].pc # "reply" => KeptIsWhole(req[s].mode, req[s].rev, req[s].docs)'
    BY <1>1, <1>2 DEF CompleteInv, RequestIsWhole, KeptIsWhole, Fits, corpus
  <2> QED
    BY <1>2, <2>1 DEF CompleteInv, RequestIsWhole, HasKeywords, corpus
<1>3. \A e \in cache : e.mode # "vector" => KeptIsWhole(e.mode, e.rev, e.docs)'
  BY <1>1, WholeStays DEF CompleteInv, CacheIsWhole
<1> QED
  BY <1>2, <1>3

(* While a search goes on, what it saw grows and what stayed shrinks;      *)
(* under one revision the corpus moves to the lapsed documents only.       *)
LEMMA CorpusIsWhole ==
    ASSUME CompleteInv, CorpusChanges
    PROVE  CacheIsWhole' /\ \A r \in Readers : RequestIsWhole(r)'
<1>1. revision \in Nat /\ revision' \in {revision, revision + 1} /\ TypeOK'
  BY CorpusTyped DEF CompleteInv, FreshInv, TypeOK
<1>2. UNCHANGED <<cache, req>>
  BY DEF CorpusChanges
<1>3. revision' = revision =>
          searchable' \subseteq searchable /\ searchable' \union lapsed' = searchable \union lapsed
  BY <1>1 DEF CorpusChanges, Env!Next, Env!Announced, Env!Publish, Env!Retire, Env!Lapse
<1>4. ASSUME NEW r \in Readers, NEW mode, req[r].pc # "idle", Fits(mode, witness'[r])
      PROVE  Fits(mode, witness[r])
  <2>1. witness[r] \subseteq witness'[r] /\ witness'[r] \in SUBSET Docs
    BY <1>1, <1>4 DEF CorpusChanges, TypeOK
  <2> QED
    BY <1>4, <2>1, PartsFit
<1>5. \A r \in Readers : stable'[r] = stable[r] \intersect searchable'
  BY DEF CorpusChanges
<1>6. ASSUME NEW mode, NEW rev \in Nat, NEW docs, rev <= revision, KeptIsWhole(mode, rev, docs)
      PROVE  KeptIsWhole(mode, rev, docs)'
  <2>1. rev = revision' => revision' = revision
    BY <1>1, <1>6
  <2>2. rev = revision' /\ Fits(mode, searchable' \union lapsed') =>
            searchable' \intersect Matching \subseteq docs
    BY <1>3, <1>6, <2>1 DEF KeptIsWhole
  <2>3. ASSUME NEW r \in Readers, req'[r].pc = "lookup", req'[r].rev = rev,
               Fits(mode, witness'[r])
        PROVE  stable'[r] \intersect Matching \subseteq docs
    BY <1>2, <1>4, <1>5, <1>6, <2>3 DEF KeptIsWhole
  <2> QED
    BY <2>2, <2>3 DEF KeptIsWhole, Fits
<1>7. CacheIsWhole'
  <2>1. \A e \in cache : e.rev \in Nat /\ e.rev <= revision
    BY DEF CompleteInv, FreshInv, TypeOK, Entry, CacheIsSeen, KeptIsSeen
  <2> QED
    BY <1>2, <1>6, <2>1 DEF CompleteInv, CacheIsWhole
<1>8. ASSUME NEW r \in Readers PROVE RequestIsWhole(r)'
  <2>1. req[r].rev \in Nat /\ req[r].rev <= revision
    BY DEF CompleteInv, FreshInv, TypeOK, Request, IdleRequest, RequestIsSeen
  <2>2. PICK rev \in Nat, docs \in SUBSET Docs, mode \in Modes \union {"none"} :
            rev = req[r].rev /\ docs = req[r].docs /\ mode = req[r].mode
    BY <2>1 DEF CompleteInv, FreshInv, TypeOK, Request, IdleRequest
  <2>3. HasKeywords(r) /\ req[r].pc # "reply" => KeptIsWhole(mode, rev, docs)'
    BY <1>6, <2>1, <2>2 DEF CompleteInv, RequestIsWhole
  <2>4. HasKeywords(r) /\ req[r].pc # "reply" => KeptIsWhole(req[r].mode, req[r].rev, req[r].docs)'
    BY <1>2, <2>2, <2>3 DEF KeptIsWhole, Fits
  <2> QED
    BY <1>2, <1>4, <1>5, <2>4 DEF CompleteInv, RequestIsWhole, HasKeywords, Fits, Competing
<1> QED
  BY <1>7, <1>8

(* A search that begins has just what is kept for its revision to look up. *)
LEMMA BeginIsWhole ==
    ASSUME CompleteInv, NEW r \in Readers, NEW mode \in Modes, ReadRevision(r, mode)
    PROVE  CacheIsWhole' /\ \A s \in Readers : RequestIsWhole(s)'
<1>1. /\ UNCHANGED <<corpus, cache>>
      /\ req'[r] = [pc |-> "lookup", mode |-> mode, rev |-> revision, docs |-> {}]
      /\ witness'[r] = searchable \union lapsed /\ stable'[r] = searchable
      /\ \A s \in Readers : s # r =>
             req'[s] = req[s] /\ witness'[s] = witness[s] /\ stable'[s] = stable[s]
  BY DEF ReadRevision, CompleteInv, FreshInv, TypeOK
<1>2. ASSUME NEW kind, NEW rev, NEW docs, KeptIsWhole(kind, rev, docs)
      PROVE  KeptIsWhole(kind, rev, docs)'
  <2>1. ASSUME NEW t \in Readers, req'[t].pc = "lookup", req'[t].rev = rev,
               Fits(kind, witness'[t])
        PROVE  stable'[t] \intersect Matching \subseteq docs
    <3>1. CASE t = r
      <4>1. rev = revision /\ Fits(kind, searchable \union lapsed)
        BY <1>1, <2>1, <3>1
      <4> QED
        BY <1>1, <1>2, <3>1, <4>1 DEF KeptIsWhole
    <3>2. CASE t # r
      BY <1>1, <1>2, <2>1, <3>2 DEF KeptIsWhole
    <3> QED
      BY <3>1, <3>2
  <2> QED
    BY <1>1, <1>2, <2>1 DEF KeptIsWhole, Fits, corpus
<1>3. CacheIsWhole'
  BY <1>1, <1>2 DEF CompleteInv, CacheIsWhole
<1>4. ASSUME NEW s \in Readers, s # r PROVE RequestIsWhole(s)'
  <2>1. PICK kind, rev, docs : kind = req[s].mode /\ rev = req[s].rev /\ docs = req[s].docs
    OBVIOUS
  <2>2. HasKeywords(s) /\ req[s].pc # "reply" => KeptIsWhole(kind, rev, docs)'
    BY <1>2, <2>1 DEF CompleteInv, RequestIsWhole
  <2>3. HasKeywords(s) /\ req[s].pc # "reply" => KeptIsWhole(req[s].mode, req[s].rev, req[s].docs)'
    BY <1>1, <1>4, <2>1, <2>2 DEF KeptIsWhole, Fits
  <2> QED
    BY <1>1, <1>4, <2>3 DEF CompleteInv, RequestIsWhole, HasKeywords, Fits, corpus
<1>5. RequestIsWhole(r)'
  BY <1>1 DEF RequestIsWhole, HasKeywords, corpus
<1> QED
  BY <1>3, <1>4, <1>5

(* Whatever is kept for readers of revision rev, from candidates that hold *)
(* all that is searchable and matches, or all of it that is left, is whole.*)
LEMMA FoundIsWhole ==
    ASSUME CompleteInv, NEW n \in Nat, Limit <= n, NEW mode,
           NEW found \in SUBSET searchable, found \subseteq Competing(mode),
           NEW docs, \E best \in BestOf(n, found) : best \subseteq docs,
           NEW rev,
           rev = revision /\ Fits(mode, searchable \union lapsed) =>
               searchable \intersect Matching \subseteq found,
           \A s \in Readers : req[s].pc = "lookup" /\ req[s].rev = rev /\ Fits(mode, witness[s]) =>
               stable[s] \intersect Matching \subseteq found
    PROVE  KeptIsWhole(mode, rev, docs)
<1> USE SearchAssumption
<1>1. ASSUME NEW saw \in SUBSET Docs, searchable \subseteq saw, Fits(mode, saw)
      PROVE  found \subseteq docs
  <2>1. found \subseteq saw
    BY <1>1
  <2>2. Cardinality(found) \in Nat /\ Cardinality(found) <= Limit
    BY <1>1, <2>1, PartsFit
  <2>3. Cardinality(found) <= n
    BY <2>2
  <2> QED
    BY <2>3, AllAreBest
<1>2. ASSUME rev = revision, Fits(mode, searchable \union lapsed)
      PROVE  searchable \intersect Matching \subseteq docs
  <2>1. searchable \union lapsed \in SUBSET Docs
    BY DEF CompleteInv, FreshInv, TypeOK
  <2> QED
    BY <1>1, <1>2, <2>1
<1>3. ASSUME NEW s \in Readers, req[s].pc = "lookup", req[s].rev = rev, Fits(mode, witness[s])
      PROVE  stable[s] \intersect Matching \subseteq docs
  <2>1. witness[s] \in SUBSET Docs /\ searchable \subseteq witness[s]
    BY <1>3 DEF CompleteInv, FreshInv, TypeOK, RequestIsSeen
  <2> QED
    BY <1>1, <1>3, <2>1
<1> QED
  BY <1>2, <1>3 DEF KeptIsWhole

(* What a search finds, loads and stores is whole for others too.          *)
LEMMA SearchIsWhole ==
    ASSUME CompleteInv, NEW r \in Readers, SearchStep(r)
    PROVE  CacheIsWhole' /\ \A s \in Readers : RequestIsWhole(s)'
<1>0. FreshInv /\ TypeOK /\ RequestIsSeen(r) /\ RequestIsWhole(r)
  BY DEF CompleteInv, FreshInv
<1> USE SearchAssumption
<1>1. CASE Hit(r)
  <2>1. PICK e \in cache : e.mode = req[r].mode /\ e.rev = req[r].rev /\ Finds(r, "reply", e.docs)
    BY <1>1 DEF Hit
  <2>2. req[r].pc = "lookup" /\ UNCHANGED <<corpus, cache, seen>>
    BY <1>1 DEF Hit
  <2>3. /\ req'[r].pc = "reply" /\ req'[r].docs = e.docs /\ req'[r].mode = req[r].mode
        /\ \A s \in Readers : s # r => req'[s] = req[s]
    BY <1>0, <2>1, <2>2 DEF Finds, TypeOK, Request, IdleRequest
  <2>4. req[r].mode # "vector" /\ Fits(req[r].mode, witness[r]) => stable[r] \intersect Matching \subseteq e.docs
    BY <2>1, <2>2 DEF CompleteInv, CacheIsWhole, KeptIsWhole
  <2>5. RequestIsWhole(r)'
    BY <1>0, <2>2, <2>3, <2>4 DEF RequestIsWhole, HasKeywords, Fits, corpus, seen
  <2> QED
    BY <2>2, <2>3, <2>5, OthersAreWhole DEF CacheIsWhole, seen
<1>2. CASE Miss(r)
  <2>1. UNCHANGED <<corpus, cache, seen>> /\ req[r].pc = "lookup"
    BY <1>2 DEF Miss
  <2>2. /\ req'[r].mode = req[r].mode
        /\ req'[r].pc = IF req[r].mode = "vector" THEN "vector" ELSE "keyword"
        /\ \A s \in Readers : s # r => req'[s] = req[s]
    BY <1>0, <1>2, <2>1 DEF Miss, Goes, TypeOK, Request, IdleRequest
  <2>3. RequestIsWhole(r)'
    BY <1>0, <2>1, <2>2 DEF RequestIsWhole, HasKeywords, Fits, corpus, seen
  <2> QED
    BY <2>1, <2>2, <2>3, OthersAreWhole DEF CacheIsWhole, seen
<1>3. CASE KeywordCandidates(r)
  <2>1. PICK docs \in BestOf(CandidateLimit, searchable \intersect Matching) :
            Finds(r, IF req[r].mode = "hybrid" THEN "vector" ELSE "hydrate", docs)
    BY <1>3 DEF KeywordCandidates
  <2>2. req[r].pc = "keyword" /\ UNCHANGED <<corpus, cache, seen>>
    BY <1>3 DEF KeywordCandidates
  <2>3. /\ req'[r].docs = docs /\ req'[r].rev = req[r].rev /\ req'[r].mode = req[r].mode
        /\ req'[r].pc = IF req[r].mode = "hybrid" THEN "vector" ELSE "hydrate"
        /\ \A s \in Readers : s # r => req'[s] = req[s]
    BY <1>0, <2>1, <2>2 DEF Finds, TypeOK, Request, IdleRequest
  <2>4. \A s \in Readers : stable[s] \subseteq searchable
    BY DEF CompleteInv, RequestIsWhole
  <2>5. PICK rev, mode, found :
            rev = req[r].rev /\ mode = req[r].mode /\ found = searchable \intersect Matching
    OBVIOUS
  <2>6. KeptIsWhole(mode, rev, docs)
    <3>1. found \in SUBSET searchable /\ found \subseteq Competing(mode)
      BY <2>5 DEF Competing
    <3>2. \A s \in Readers : stable[s] \intersect Matching \subseteq found
      BY <2>4, <2>5
    <3>3. \E best \in BestOf(CandidateLimit, found) : best \subseteq docs
      BY <2>1, <2>5
    <3> QED
      BY <2>5, <3>1, <3>2, <3>3, FoundIsWhole
  <2>7. KeptIsWhole(mode, rev, docs)'
    BY <2>2, <2>3, <2>6, WholeStays DEF seen
  <2>8. Fits(req[r].mode, witness[r]) => stable[r] \intersect Matching \subseteq docs
    <3>1. witness[r] \in SUBSET Docs /\ searchable \subseteq witness[r]
      BY <1>0, <2>2 DEF TypeOK, RequestIsSeen
    <3>2. ASSUME Fits(mode, witness[r]) PROVE docs = found
      <4>1. found \subseteq witness[r] /\ found \subseteq Competing(mode)
        BY <2>5, <3>1 DEF Competing
      <4>2. Cardinality(found) \in Nat /\ Cardinality(found) <= Limit
        BY <3>1, <3>2, <4>1, PartsFit
      <4>3. Cardinality(found) <= CandidateLimit
        BY <4>2
      <4> QED
        BY <2>1, <2>5, <4>3, AllAreBest
    <3> QED
      BY <2>4, <2>5, <3>2
  <2>9. RequestIsWhole(r)'
    <3>1. KeptIsWhole(req[r].mode, req[r].rev, req[r].docs)'
      BY <2>3, <2>5, <2>7 DEF KeptIsWhole, Fits
    <3>2. docs \subseteq Matching
      BY <2>1, BestIsFound
    <3> QED
      BY <2>2, <2>3, <2>4, <2>8, <3>1, <3>2 DEF RequestIsWhole, HasKeywords, Fits, corpus, seen
  <2> QED
    BY <2>2, <2>3, <2>9, OthersAreWhole DEF CacheIsWhole, seen
<1>4. CASE VectorCandidates(r)
  <2>1. PICK points \in SUBSET Docs : \E docs \in BestOf(CandidateLimit, points) :
            Finds(r, "hydrate", req[r].docs \union docs)
    BY <1>4 DEF VectorCandidates
  <2>2. PICK docs \in BestOf(CandidateLimit, points) : Finds(r, "hydrate", req[r].docs \union docs)
    BY <2>1
  <2>3. req[r].pc = "vector" /\ UNCHANGED <<corpus, cache, seen>>
    BY <1>4 DEF VectorCandidates
  <2>4. /\ req'[r].docs = req[r].docs \union docs /\ req'[r].rev = req[r].rev
        /\ req'[r].mode = req[r].mode /\ req'[r].pc = "hydrate"
        /\ \A s \in Readers : s # r => req'[s] = req[s]
    BY <1>0, <2>2, <2>3 DEF Finds, TypeOK, Request, IdleRequest
  <2>5. PICK rev, mode, found : rev = req[r].rev /\ mode = req[r].mode /\ found = req[r].docs
    OBVIOUS
  <2>6. req[r].mode # "vector" => KeptIsWhole(mode, rev, found)'
    BY <1>0, <2>3, <2>4, <2>5, WholeStays DEF RequestIsWhole, HasKeywords, seen
  <2>7. RequestIsWhole(r)'
    <3>1. req[r].mode # "vector" => KeptIsWhole(req[r].mode, req[r].rev, req[r].docs)'
      BY <2>4, <2>5, <2>6 DEF KeptIsWhole, Fits
    <3>2. req[r].mode # "keyword"
      BY <1>0, <1>4 DEF VectorCandidates, RequestIsWhole
    <3> QED
      BY <1>0, <2>3, <2>4, <3>1, <3>2 DEF RequestIsWhole, HasKeywords, Fits, corpus, seen
  <2> QED
    BY <2>3, <2>4, <2>7, OthersAreWhole DEF CacheIsWhole, seen
<1>5. CASE Hydrate(r)
  <2>1. PICK docs \in BestOf(Limit, req[r].docs \intersect searchable) : Finds(r, "store", docs)
    BY <1>5 DEF Hydrate
  <2>2. req[r].pc = "hydrate" /\ UNCHANGED <<corpus, cache, seen>>
    BY <1>5 DEF Hydrate
  <2>3. /\ req'[r].docs = docs /\ req'[r].rev = req[r].rev
        /\ req'[r].mode = req[r].mode /\ req'[r].pc = "store"
        /\ \A s \in Readers : s # r => req'[s] = req[s]
    BY <1>0, <2>1, <2>2 DEF Finds, TypeOK, Request, IdleRequest
  <2>4. \A s \in Readers : stable[s] \subseteq searchable
    BY DEF CompleteInv, RequestIsWhole
  <2>5. PICK rev, mode, found :
            rev = req[r].rev /\ mode = req[r].mode /\ found = req[r].docs \intersect searchable
    OBVIOUS
  <2>6. req[r].mode # "vector" => found \subseteq Competing(mode)
    <3>1. req[r].mode \in {"keyword", "vector", "hybrid"} /\ searchable \subseteq Docs
      BY <1>0, <2>2, BusyRequest DEF TypeOK
    <3>2. CASE req[r].mode = "keyword"
      BY <1>0, <2>2, <2>5, <3>2 DEF RequestIsWhole, Competing
    <3>3. CASE req[r].mode = "hybrid"
      BY <2>5, <3>1, <3>3 DEF Competing
    <3> QED
      BY <3>1, <3>2, <3>3
  <2>7. ASSUME req[r].mode # "vector" PROVE KeptIsWhole(mode, rev, docs)
    <3>1. KeptIsWhole(mode, rev, req[r].docs)
      BY <1>0, <2>2, <2>5, <2>7 DEF RequestIsWhole, HasKeywords
    <3>2. rev = revision /\ Fits(mode, searchable \union lapsed) =>
              searchable \intersect Matching \subseteq found
      BY <2>5, <3>1 DEF KeptIsWhole
    <3>3. \A s \in Readers :
              req[s].pc = "lookup" /\ req[s].rev = rev /\ Fits(mode, witness[s]) =>
                  stable[s] \intersect Matching \subseteq found
      BY <2>4, <2>5, <3>1 DEF KeptIsWhole
    <3>4. found \in SUBSET searchable /\ \E best \in BestOf(Limit, found) : best \subseteq docs
      BY <2>1, <2>5
    <3>5. Limit \in Nat /\ Limit <= Limit
      OBVIOUS
    <3> QED
      BY <2>6, <2>7, <3>2, <3>3, <3>4, <3>5, FoundIsWhole
  <2>8. req[r].mode # "vector" /\ Fits(mode, witness[r]) => stable[r] \intersect Matching \subseteq docs
    <3>1. witness[r] \in SUBSET Docs /\ searchable \subseteq witness[r]
      BY <1>0, <2>2 DEF TypeOK, RequestIsSeen
    <3>2. ASSUME req[r].mode # "vector", Fits(mode, witness[r]) PROVE docs = found
      <4>1. found \subseteq witness[r] /\ found \subseteq Competing(mode)
        BY <2>5, <2>6, <3>1, <3>2
      <4>2. Cardinality(found) <= Limit
        BY <3>1, <3>2, <4>1, PartsFit
      <4> QED
        BY <2>1, <2>5, <4>2, AllAreBest
    <3>3. HasKeywords(r) /\ Fits(mode, witness[r]) => stable[r] \intersect Matching \subseteq req[r].docs
      BY <1>0, <2>5 DEF RequestIsWhole
    <3> QED
      BY <2>2, <2>4, <2>5, <3>2, <3>3 DEF HasKeywords
  <2>9. RequestIsWhole(r)'
    <3>1. req[r].mode # "vector" => KeptIsWhole(req[r].mode, req[r].rev, req[r].docs)'
      <4>1. req[r].mode # "vector" => KeptIsWhole(mode, rev, docs)'
        BY <2>2, <2>3, <2>7, WholeStays DEF seen
      <4> QED
        BY <2>3, <2>5, <4>1 DEF KeptIsWhole, Fits
    <3> QED
      BY <2>2, <2>3, <2>4, <2>5, <2>8, <3>1 DEF RequestIsWhole, HasKeywords, Fits, corpus, seen
  <2> QED
    BY <2>2, <2>3, <2>9, OthersAreWhole DEF CacheIsWhole, seen
<1>6. CASE Store(r)
  <2>1. req[r].pc = "store" /\ UNCHANGED <<corpus, seen>>
    BY <1>6 DEF Store
  <2>2. /\ req'[r].docs = req[r].docs /\ req'[r].mode = req[r].mode /\ req'[r].pc = "reply"
        /\ \A s \in Readers : s # r => req'[s] = req[s]
    BY <1>0, <1>6, <2>1 DEF Store, Goes, TypeOK, Request, IdleRequest
  <2>3. PICK rev, mode, docs : rev = req[r].rev /\ mode = req[r].mode /\ docs = req[r].docs
    OBVIOUS
  <2>4. mode # "vector" => KeptIsWhole(mode, rev, docs)'
    BY <1>0, <2>1, <2>2, <2>3, WholeStays DEF RequestIsWhole, HasKeywords, seen
  <2>5. cache' \subseteq cache \union {[mode |-> mode, rev |-> rev, docs |-> docs]}
    BY <1>6, <2>3 DEF Store
  <2>6. CacheIsWhole'
    <3>1. ASSUME NEW e \in cache', e.mode # "vector" PROVE KeptIsWhole(e.mode, e.rev, e.docs)'
      <4>1. CASE e \in cache
        BY <2>1, <2>2, <3>1, <4>1, OthersAreWhole DEF seen
      <4>2. CASE e = [mode |-> mode, rev |-> rev, docs |-> docs]
        BY <2>4, <3>1, <4>2
      <4> QED
        BY <2>5, <4>1, <4>2
    <3> QED
      BY <3>1 DEF CacheIsWhole
  <2>7. RequestIsWhole(r)'
    BY <1>0, <2>1, <2>2 DEF RequestIsWhole, HasKeywords, Fits, corpus, seen
  <2> QED
    BY <2>1, <2>2, <2>6, <2>7, OthersAreWhole DEF seen
<1>7. CASE Reply(r) \/ Fails(r)
  <2>1. /\ req'[r] = IdleRequest /\ UNCHANGED <<corpus, cache>> /\ stable'[r] = {}
        /\ \A s \in Readers : s # r =>
               req'[s] = req[s] /\ witness'[s] = witness[s] /\ stable'[s] = stable[s]
    BY <1>0, <1>7 DEF Reply, Fails, Ends, TypeOK
  <2>2. RequestIsWhole(r)'
    BY <2>1 DEF RequestIsWhole, HasKeywords, IdleRequest
  <2> QED
    BY <2>1, <2>2, OthersAreWhole DEF CacheIsWhole, IdleRequest
<1> QED
  BY <1>1, <1>2, <1>3, <1>4, <1>5, <1>6, <1>7 DEF SearchStep

LEMMA CompleteStep ==
    ASSUME CompleteInv, [Next]_vars
    PROVE  CompleteInv'
<1>1. FreshInv'
  BY FreshStep DEF CompleteInv
<1>2. CASE UNCHANGED vars
  BY <1>1, <1>2 DEF vars, corpus, seen, CompleteInv, CacheIsWhole, RequestIsWhole, HasKeywords,
     KeptIsWhole, Fits
<1>3. ASSUME NEW e \in cache, Expire(e) PROVE CompleteInv'
  <2>1. UNCHANGED <<corpus, req, seen>> /\ cache' \subseteq cache
    BY <1>3 DEF Expire
  <2> QED
    BY <1>1, <2>1 DEF corpus, seen, CompleteInv, CacheIsWhole, RequestIsWhole, HasKeywords, KeptIsWhole, Fits
<1> QED
  BY <1>1, <1>2, <1>3, CorpusIsWhole, BeginIsWhole, SearchIsWhole DEF Next, CompleteInv

(* The inductive invariant itself: what Redis keeps for a revision holds   *)
(* no more, and no less, than every search that may look it up could find. *)
THEOREM CacheIsSound == Spec => []CompleteInv
<1>1. Init => CompleteInv
  BY FreshInit DEF Init, CompleteInv, CacheIsWhole, RequestIsWhole, HasKeywords, IdleRequest
<1> QED
  BY <1>1, CompleteStep, PTL DEF Spec

(* No search with keywords misses a matching document that was searchable  *)
(* all the time, unless a limit cut it off: neither an entry that another  *)
(* search kept, nor a change of the corpus between two steps, hides one.   *)
THEOREM SearchesAreComplete == Spec => []Complete
<1>1. CompleteInv => Complete
  BY DEF CompleteInv, RequestIsWhole, HasKeywords, Complete
<1> QED
  BY <1>1, CacheIsSound, PTL
===========================================================================
