--------------------------- MODULE SearchCache ---------------------------
(* Searches over a corpus that changes under them: SearchService.search    *)
(* behind CachedSearchService.search, whose cache keys carry the corpus    *)
(* revision.  The corpus is the one DocumentWorkflow implements.  One      *)
(* query, one limit and one filter stand for all, since they are part of   *)
(* the key; a document stands for the best of its chunks.                  *)
EXTENDS FiniteSets, Naturals

CONSTANTS
    Docs,             \* the documents that pass the filter
    Matching,         \* those in which the keyword index finds the query
    Readers,          \* requests to search, and to answer a question
    Modes,            \* the search modes in use
    Limit,            \* results a request asks for
    CandidateLimit,   \* limit * candidate_multiplier
    MaxRevision       \* bound: the corpus revisions that are explored

ASSUME SearchAssumption ==
    /\ IsFiniteSet(Docs) /\ Matching \subseteq Docs
    /\ Modes \subseteq {"keyword", "vector", "hybrid"}
    /\ Limit \in Nat \ {0} /\ CandidateLimit \in Nat /\ Limit <= CandidateLimit
    /\ MaxRevision \in Nat

VARIABLES
    searchable, revision,   \* the corpus
    cache,                  \* what Redis holds
    req,                    \* the searches in progress
    lapsed,                 \* history: what left the corpus under this revision
    witness,                \* history: what a search could see since it began
    stable                  \* history: what was searchable all that time

Env == INSTANCE Corpus

corpus == <<searchable, revision, lapsed>>
seen   == <<witness, stable>>
vars   == <<corpus, cache, req, seen>>

IdleRequest == [pc |-> "idle", mode |-> "none", rev |-> 0, docs |-> {}]

Init ==
    /\ Env!Init
    /\ cache = {} /\ lapsed = {}
    /\ req = [r \in Readers |-> IdleRequest]
    /\ witness = [r \in Readers |-> {}]
    /\ stable = [r \in Readers |-> {}]

\* the best n of what is found, in an order the model does not fix
BestOf(n, found) ==
    IF Cardinality(found) <= n THEN {found}
    ELSE {best \in SUBSET found : Cardinality(best) = n}

(* The corpus changes: a step of the workers or of a deletion.             *)
CorpusChanges ==
    /\ Env!Next /\ revision' <= MaxRevision
    /\ lapsed' = IF revision' = revision THEN lapsed \union (searchable \ searchable') ELSE {}
    /\ witness' = [r \in Readers |-> IF req[r].pc = "idle" THEN {} ELSE witness[r] \union searchable']
    /\ stable' = [r \in Readers |-> stable[r] \intersect searchable']
    /\ UNCHANGED <<cache, req>>
---------------------------------------------------------------------------
Goes(r, pc) == req' = [req EXCEPT ![r].pc = pc]

Finds(r, pc, docs) == req' = [req EXCEPT ![r].pc = pc, ![r].docs = docs]

\* the key is built from the revision read first; a ttl of 0 only misses
ReadRevision(r, mode) ==
    /\ req[r].pc = "idle"
    /\ req' = [req EXCEPT ![r] = [pc |-> "lookup", mode |-> mode, rev |-> revision, docs |-> {}]]
    /\ witness' = [witness EXCEPT ![r] = searchable \union lapsed]
    /\ stable' = [stable EXCEPT ![r] = searchable]
    /\ UNCHANGED <<corpus, cache>>

\* mutant: the key leaves the mode out
HitAnyMode(r) ==
    /\ req[r].pc = "lookup"
    /\ \E e \in cache : e.rev = req[r].rev /\ Finds(r, "reply", e.docs)
    /\ UNCHANGED <<corpus, cache, seen>>

Hit(r) ==
    /\ req[r].pc = "lookup"
    /\ \E e \in cache :
        /\ e.mode = req[r].mode /\ e.rev = req[r].rev
        /\ Finds(r, "reply", e.docs)
    /\ UNCHANGED <<corpus, cache, seen>>

\* not cached, or Redis does not answer
Miss(r) ==
    /\ req[r].pc = "lookup"
    /\ Goes(r, IF req[r].mode = "vector" THEN "vector" ELSE "keyword")
    /\ UNCHANGED <<corpus, cache, seen>>

KeywordCandidates(r) ==
    /\ req[r].pc = "keyword"
    /\ \E docs \in BestOf(CandidateLimit, searchable \intersect Matching) :
        Finds(r, IF req[r].mode = "hybrid" THEN "vector" ELSE "hydrate", docs)
    /\ UNCHANGED <<corpus, cache, seen>>

\* the nearest points, however far: Qdrant may hold those of any document,
\* matching or not, and lack those of any other
VectorCandidates(r) ==
    /\ req[r].pc = "vector"
    /\ \E points \in SUBSET Docs :
        \E docs \in BestOf(CandidateLimit, points) : Finds(r, "hydrate", req[r].docs \union docs)
    /\ UNCHANGED <<corpus, cache, seen>>

\* load_chunks keeps the candidates whose document is ready now
Hydrate(r) ==
    /\ req[r].pc = "hydrate"
    /\ \E docs \in BestOf(Limit, req[r].docs \intersect searchable) : Finds(r, "store", docs)
    /\ UNCHANGED <<corpus, cache, seen>>

\* mutant: the key is built when the result is stored
StoreUnderLatest(r) ==
    /\ req[r].pc = "store" /\ Goes(r, "reply")
    /\ LET entry == [mode |-> req[r].mode, rev |-> revision, docs |-> req[r].docs]
       IN  \/ cache' = {e \in cache : e.mode # entry.mode \/ e.rev # entry.rev} \union {entry}
           \/ UNCHANGED cache
    /\ UNCHANGED <<corpus, seen>>

Store(r) ==
    /\ req[r].pc = "store" /\ Goes(r, "reply")
    /\ LET entry == [mode |-> req[r].mode, rev |-> req[r].rev, docs |-> req[r].docs]
       IN  \/ cache' = {e \in cache : e.mode # entry.mode \/ e.rev # entry.rev} \union {entry}
           \/ UNCHANGED cache
    /\ UNCHANGED <<corpus, seen>>

Ends(r) ==
    /\ req' = [req EXCEPT ![r] = IdleRequest]
    /\ witness' = [witness EXCEPT ![r] = {}]
    /\ stable' = [stable EXCEPT ![r] = {}]
    /\ UNCHANGED <<corpus, cache>>

Reply(r) == req[r].pc = "reply" /\ Ends(r)

\* the vector index, the embedding or the database fails: a 503, nothing cached
Fails(r) == req[r].pc \in {"keyword", "vector", "hydrate"} /\ Ends(r)

\* an entry reaches its ttl, or Redis evicts it
Expire(e) ==
    /\ cache' = cache \ {e}
    /\ UNCHANGED <<corpus, req, seen>>

SearchStep(r) ==
    \/ Hit(r) \/ Miss(r) \/ KeywordCandidates(r) \/ VectorCandidates(r) \/ Hydrate(r)
    \/ Store(r) \/ Reply(r) \/ Fails(r)

Next ==
    \/ CorpusChanges
    \/ \E r \in Readers, mode \in Modes : ReadRevision(r, mode)
    \/ \E r \in Readers : SearchStep(r)
    \/ \E e \in cache : Expire(e)

Spec == Init /\ [][Next]_vars
---------------------------------------------------------------------------
ReqPC == {"lookup", "keyword", "vector", "hydrate", "store", "reply"}
Request == [pc : ReqPC, mode : Modes, rev : Nat, docs : SUBSET Docs] \union {IdleRequest}
Entry == [mode : Modes, rev : Nat, docs : SUBSET Docs]

\* What the corpus, Redis and the requests hold.
TypeOK ==
    /\ searchable \subseteq Docs /\ revision \in Nat /\ lapsed \subseteq Docs
    /\ cache \subseteq Entry
    /\ req \in [Readers -> Request]
    /\ witness \in [Readers -> SUBSET Docs] /\ stable \in [Readers -> SUBSET Docs]

(* Every document a search returns was searchable at some moment since the *)
(* search began, cached or not; only one that lapsed without a new revision *)
(* may be older.                                                           *)
Fresh == \A r \in Readers : req[r].pc = "reply" => req[r].docs \subseteq witness[r]

\* No limit cuts anything off docs: for the places in a hybrid search those
\* compete as well that do not match.
Competing(mode) == IF mode = "hybrid" THEN Docs ELSE Matching
Fits(mode, docs) == Cardinality(docs \intersect Competing(mode)) <= Limit

(* A keyword or hybrid search returns every matching document that was     *)
(* searchable from its beginning to its end, when no limit can have cut it *)
(* off, neither in favour of other matching documents nor, in a hybrid     *)
(* search, of those that do not match.  The entry of another search that   *)
(* began before a publication never hides it.                              *)
Complete ==
    \A r \in Readers :
        req[r].pc = "reply" /\ req[r].mode # "vector" /\ Fits(req[r].mode, witness[r]) =>
            stable[r] \intersect Matching \subseteq req[r].docs
---------------------------------------------------------------------------
(* Fresh, made inductive.  Results kept for a revision hold no more than   *)
(* the corpus had under it, nor than any search that looks them up saw.    *)
KeptIsSeen(rev, docs) ==
    /\ rev <= revision
    /\ rev = revision => docs \subseteq searchable \union lapsed
    /\ \A r \in Readers : req[r].pc = "lookup" /\ req[r].rev = rev => docs \subseteq witness[r]

CacheIsSeen == \A e \in cache : KeptIsSeen(e.rev, e.docs)

RequestIsSeen(r) ==
    /\ req[r].rev <= revision
    /\ req[r].pc # "idle" => searchable \subseteq witness[r]
    /\ req[r].pc = "store" => KeptIsSeen(req[r].rev, req[r].docs)
    /\ req[r].pc \in {"store", "reply"} => req[r].docs \subseteq witness[r]

FreshInv == TypeOK /\ CacheIsSeen /\ \A r \in Readers : RequestIsSeen(r)

(* Complete, made inductive.  What is kept for a revision hides nothing    *)
(* from those who look it up, nor from a search that begins under it: all  *)
(* of these saw the documents, and the lapsed ones, that it was found among.*)
KeptIsWhole(mode, rev, docs) ==
    /\ rev = revision /\ Fits(mode, searchable \union lapsed) =>
           searchable \intersect Matching \subseteq docs
    /\ \A r \in Readers :
        req[r].pc = "lookup" /\ req[r].rev = rev /\ Fits(mode, witness[r]) =>
            stable[r] \intersect Matching \subseteq docs

CacheIsWhole == \A e \in cache : e.mode # "vector" => KeptIsWhole(e.mode, e.rev, e.docs)

\* past the keyword candidates, for the modes that ask for them
HasKeywords(r) == req[r].mode # "vector" /\ req[r].pc \in {"vector", "hydrate", "store", "reply"}

RequestIsWhole(r) ==
    /\ stable[r] \subseteq searchable
    /\ req[r].mode = "keyword" =>
           req[r].pc # "vector" /\ (req[r].pc = "hydrate" => req[r].docs \subseteq Matching)
    /\ HasKeywords(r) /\ Fits(req[r].mode, witness[r]) =>
           stable[r] \intersect Matching \subseteq req[r].docs
    /\ HasKeywords(r) /\ req[r].pc # "reply" =>
           KeptIsWhole(req[r].mode, req[r].rev, req[r].docs)

CompleteInv == FreshInv /\ CacheIsWhole /\ \A r \in Readers : RequestIsWhole(r)
===========================================================================
