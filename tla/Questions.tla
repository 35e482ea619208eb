----------------------------- MODULE Questions -----------------------------
(* A burst of requests to GET /search and POST /answers, each on a thread  *)
(* of one API process.  They share one FastEmbedProvider, whose model is   *)
(* created by the first semantic search, and one answer generator.  The    *)
(* corpus and the cache are those of SearchCache: here a search finds      *)
(* evidence or does not.                                                   *)
EXTENDS Naturals

CONSTANTS
    Requests,
    NoRequest,   \* of the lock that is free, and of the model not created yet
    Modes        \* the search modes in use

ASSUME QuestionsAssumption ==
    NoRequest \notin Requests /\ Modes \subseteq {"keyword", "vector", "hybrid"}

VARIABLES
    provider,    \* answer_provider: "disabled" or "chat"
    creator,     \* FastEmbedProvider._model: the request that created it
    lock,        \* FastEmbedProvider._model_lock: who holds it
    req          \* the requests

vars == <<provider, creator, lock, req>>

NotAsked == [pc |-> "idle", route |-> "none", mode |-> "none", evidence |-> FALSE, reply |-> "none"]

Semantic(r) == req[r].mode \in {"vector", "hybrid"}

Goto(r, pc) == req' = [req EXCEPT ![r].pc = pc]

Replies(r, reply) == req' = [req EXCEPT ![r].pc = "answered", ![r].reply = reply]

\* the exceptions of a request, as the handlers of api/errors.py answer them;
\* one without a handler is a 500
Problem ==
    [SearchQueryError |-> "400", EmbeddingError |-> "503", VectorIndexError |-> "503",
     GenerationError |-> "502", DatabaseError |-> "500"]

Raises(r, error) == Replies(r, Problem[error])

Init ==
    /\ provider \in {"disabled", "chat"}
    /\ creator = NoRequest /\ lock = NoRequest
    /\ req = [r \in Requests |-> NotAsked]

Ask(r, route, mode) ==
    /\ req[r].pc = "idle"
    /\ req' = [req EXCEPT ![r] = [NotAsked EXCEPT !.pc = "search", !.route = route, !.mode = mode]]
    /\ UNCHANGED <<provider, creator, lock>>
---------------------------------------------------------------------------
(* CachedSearchService.search and SearchService.search *)

Found(r) ==
    \E found \in BOOLEAN : req' = [req EXCEPT ![r].pc = "found", ![r].evidence = found]

\* the revision is read first, then the cache, and only then is the query
\* found to be blank or the keyword index asked
Search(r) ==
    /\ req[r].pc = "search"
    /\ \/ Found(r)
       \/ Goto(r, IF Semantic(r) THEN "model" ELSE "load")
       \/ Raises(r, "SearchQueryError")
       \/ Raises(r, "DatabaseError")
    /\ UNCHANGED <<provider, creator, lock>>

LoadChunks(r) ==
    /\ req[r].pc = "load"
    /\ Found(r) \/ Raises(r, "DatabaseError")
    /\ UNCHANGED <<provider, creator, lock>>

\* mutant: a deployment without a generator still reports missing evidence
AnswerEvidenceFirst(r) ==
    /\ req[r].pc = "found"
    /\ IF req[r].route = "search" THEN Replies(r, "results")
       ELSE IF ~req[r].evidence THEN Replies(r, "insufficient_evidence")
       ELSE IF provider = "disabled" THEN Replies(r, "disabled")
       ELSE Goto(r, "generate")
    /\ UNCHANGED <<provider, creator, lock>>

\* storing the result in the cache never fails a search
Answer(r) ==
    /\ req[r].pc = "found"
    /\ \/ req[r].route = "search" /\ Replies(r, "results")
       \/ /\ req[r].route = "answers"
          /\ \/ provider = "disabled" /\ Replies(r, "disabled")
             \/ provider = "chat" /\ ~req[r].evidence /\ Replies(r, "insufficient_evidence")
             \/ provider = "chat" /\ req[r].evidence /\ Goto(r, "generate")
    /\ UNCHANGED <<provider, creator, lock>>

\* a text, or: no answer in time, an HTTP error, no JSON of the right shape,
\* no choices, a blank text
Generate(r) ==
    /\ req[r].pc = "generate"
    /\ Replies(r, "generated") \/ Raises(r, "GenerationError")
    /\ UNCHANGED <<provider, creator, lock>>
---------------------------------------------------------------------------
(* FastEmbedProvider.embed_documents and _get_model *)

\* self._model is read once without the lock
GlanceAtModel(r) ==
    /\ req[r].pc = "model"
    /\ Goto(r, IF creator = NoRequest THEN "lock" ELSE "embed")
    /\ UNCHANGED <<provider, creator, lock>>

Acquire(r) ==
    /\ req[r].pc = "lock" /\ lock = NoRequest
    /\ lock' = r /\ Goto(r, "recheck")
    /\ UNCHANGED <<provider, creator>>

\* mutant: the model is not looked for again under the lock
RecheckNothing(r) ==
    /\ req[r].pc = "recheck"
    /\ Goto(r, "create")
    /\ UNCHANGED <<provider, creator, lock>>

Recheck(r) ==
    /\ req[r].pc = "recheck"
    /\ Goto(r, IF creator = NoRequest THEN "create" ELSE "release")
    /\ UNCHANGED <<provider, creator, lock>>

CreateModel(r) ==
    /\ req[r].pc = "create"
    /\ creator' = r /\ Goto(r, "release")
    /\ UNCHANGED <<provider, lock>>

\* mutant: acquire() and release() instead of the with statement
CreationFailsLocked(r) ==
    /\ req[r].pc = "create"
    /\ Raises(r, "EmbeddingError")
    /\ UNCHANGED <<provider, creator, lock>>

\* mutant: the failure is logged only
CreationFailsQuietly(r) ==
    /\ req[r].pc = "create"
    /\ Goto(r, "release")
    /\ UNCHANGED <<provider, creator, lock>>

\* the exception leaves the with statement, and then embed_documents
CreationFails(r) ==
    /\ req[r].pc = "create"
    /\ lock' = NoRequest /\ Raises(r, "EmbeddingError")
    /\ UNCHANGED <<provider, creator>>

Release(r) ==
    /\ req[r].pc = "release"
    /\ lock' = NoRequest /\ Goto(r, "embed")
    /\ UNCHANGED <<provider, creator>>

\* inference fails, or returns vectors of another number or size
Embed(r) ==
    /\ req[r].pc = "embed"
    /\ Goto(r, "points") \/ Raises(r, "EmbeddingError")
    /\ UNCHANGED <<provider, creator, lock>>

QueryPoints(r) ==
    /\ req[r].pc = "points"
    /\ Goto(r, "load") \/ Raises(r, "VectorIndexError")
    /\ UNCHANGED <<provider, creator, lock>>
---------------------------------------------------------------------------
ModelStep(r) ==
    \/ GlanceAtModel(r) \/ Acquire(r) \/ Recheck(r) \/ CreateModel(r) \/ CreationFails(r) \/ Release(r)

RequestStep(r) ==
    \/ Search(r) \/ LoadChunks(r) \/ Answer(r) \/ Generate(r)
    \/ ModelStep(r) \/ Embed(r) \/ QueryPoints(r)

Next ==
    \E r \in Requests :
        \/ \E route \in {"search", "answers"}, mode \in Modes : Ask(r, route, mode)
        \/ RequestStep(r)

Spec == Init /\ [][Next]_vars

\* threads keep running, and every call to another system has a timeout
FairSpec == Spec /\ \A r \in Requests : WF_vars(RequestStep(r))
---------------------------------------------------------------------------
PC == {"idle", "search", "model", "lock", "recheck", "create", "release", "embed", "points",
       "load", "found", "generate", "answered"}

Reply == {"none", "results", "generated", "disabled", "insufficient_evidence", "400", "500", "502", "503"}

Request == [pc : PC, route : {"none", "search", "answers"}, mode : Modes \union {"none"},
            evidence : BOOLEAN, reply : Reply]

\* What the requests and the provider hold.
TypeOK ==
    /\ provider \in {"disabled", "chat"}
    /\ creator \in Requests \union {NoRequest} /\ lock \in Requests \union {NoRequest}
    /\ req \in [Requests -> Request]

\* However the first requests interleave, one embedding model is created in
\* the life of the process, and it is never replaced (_get_model).
OneModel == [][creator # NoRequest => creator' = creator]_vars

\* No request embeds its query before there is a model, whatever failed in
\* the requests it waited for (_get_model returns self._model without a lock).
EmbedsWithAModel == \A r \in Requests : req[r].pc = "embed" => creator # NoRequest

(* Every request that was asked is answered: a model that cannot be created *)
(* fails the request that tried and lets those behind it try in turn.      *)
EveryRequestIsAnswered ==
    \A r \in Requests : req[r].pc # "idle" ~> req[r].pc = "answered"

(* A reply says what the deployment can do.  Only a question of one with a *)
(* generator is told that evidence is missing, or fails for the generator, *)
(* which it reaches with evidence only; a keyword search depends on neither *)
(* the model nor the vector index (AnswerService.answer, api/errors.py).   *)
RepliesFitTheDeployment ==
    \A r \in Requests :
        LET reply == req[r].reply
        IN  /\ reply \in {"generated", "502"} => provider = "chat" /\ req[r].evidence
            /\ reply = "insufficient_evidence" => provider = "chat" /\ ~req[r].evidence
            /\ reply = "disabled" => provider = "disabled"
            /\ reply \in {"generated", "502", "insufficient_evidence", "disabled"} => req[r].route = "answers"
            /\ reply = "results" => req[r].route = "search"
            /\ reply = "503" => Semantic(r)
===========================================================================
