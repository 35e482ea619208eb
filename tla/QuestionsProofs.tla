-------------------------- MODULE QuestionsProofs --------------------------
(* The embedding provider creates one model and no request embeds without  *)
(* it, and replies fit the deployment, for any number of requests.         *)
EXTENDS Questions, TLAPS

Guarded == {"recheck", "create", "release"}

\* who looks for the model again, creates it or has found it, holds the lock
LockInv == \A r \in Requests : req[r].pc \in Guarded => lock = r

ModelInv ==
    \A r \in Requests :
        /\ req[r].pc = "create" => creator = NoRequest
        /\ req[r].pc \in {"release", "embed"} => creator # NoRequest

\* a request has its reply only at the end, and comes to the model only if
\* it is semantic, to the generator only with evidence
PathInv ==
    \A r \in Requests :
        /\ req[r].pc # "answered" => req[r].reply = "none"
        /\ req[r].pc # "idle" => req[r].route \in {"search", "answers"}
        /\ req[r].pc \in Guarded \union {"model", "lock", "embed", "points"} => Semantic(r)
        /\ req[r].pc = "generate" => provider = "chat" /\ req[r].evidence /\ req[r].route = "answers"

Inv == TypeOK /\ LockInv /\ ModelInv /\ PathInv /\ RepliesFitTheDeployment
---------------------------------------------------------------------------
LEMMA InitInv == Init => Inv
BY QuestionsAssumption
DEF Init, Inv, TypeOK, LockInv, ModelInv, PathInv, RepliesFitTheDeployment, Request, PC, Reply,
    NotAsked, Guarded, Semantic

LEMMA GotoSays ==
    ASSUME NEW r \in Requests, NEW pc \in PC, req \in [Requests -> Request], Goto(r, pc)
    PROVE  /\ req' \in [Requests -> Request]
           /\ req'[r].pc = pc /\ req'[r].reply = req[r].reply /\ req'[r].evidence = req[r].evidence
           /\ req'[r].route = req[r].route /\ req'[r].mode = req[r].mode
           /\ \A s \in Requests \ {r} : req'[s] = req[s]
BY DEF Goto, Request

LEMMA RepliesSays ==
    ASSUME NEW r \in Requests, NEW reply \in Reply, req \in [Requests -> Request], Replies(r, reply)
    PROVE  /\ req' \in [Requests -> Request]
           /\ req'[r].pc = "answered" /\ req'[r].reply = reply /\ req'[r].evidence = req[r].evidence
           /\ req'[r].route = req[r].route /\ req'[r].mode = req[r].mode
           /\ \A s \in Requests \ {r} : req'[s] = req[s]
BY ZenonT(30) DEF Replies, Request, PC

LEMMA FoundSays ==
    ASSUME NEW r \in Requests, req \in [Requests -> Request], Found(r)
    PROVE  /\ req' \in [Requests -> Request]
           /\ req'[r].pc = "found" /\ req'[r].reply = req[r].reply
           /\ req'[r].route = req[r].route /\ req'[r].mode = req[r].mode
           /\ \A s \in Requests \ {r} : req'[s] = req[s]
<1>1. PICK found \in BOOLEAN : req' = [req EXCEPT ![r].pc = "found", ![r].evidence = found]
  BY DEF Found
<1>. QED  BY <1>1, ZenonT(30) DEF Request, PC

LEMMA AskSays ==
    ASSUME NEW r \in Requests, NEW route \in {"search", "answers"}, NEW mode \in Modes,
           req \in [Requests -> Request], Ask(r, route, mode)
    PROVE  /\ req' \in [Requests -> Request]
           /\ req'[r].pc = "search" /\ req'[r].reply = "none"
           /\ req'[r].route = route
           /\ \A s \in Requests \ {r} : req'[s] = req[s]
BY DEF Ask, NotAsked, Request, PC, Reply
---------------------------------------------------------------------------
LEMMA SearchStepKeeps ==
    ASSUME Inv, NEW r \in Requests, Search(r) \/ LoadChunks(r) \/ Answer(r) \/ Generate(r)
    PROVE  Inv'
<1>. USE DEF Inv, TypeOK, LockInv, ModelInv, PathInv, RepliesFitTheDeployment, Guarded, PC, Reply
<1>1. CASE Search(r)
  <2>1. CASE Found(r)
    BY <1>1, <2>1, FoundSays DEF Search, Semantic
  <2>2. CASE Goto(r, IF Semantic(r) THEN "model" ELSE "load")
    <3>1. CASE Semantic(r)
      BY <1>1, <2>2, <3>1, GotoSays DEF Search, Semantic
    <3>2. CASE ~Semantic(r)
      BY <1>1, <2>2, <3>2, GotoSays DEF Search, Semantic
    <3>. QED  BY <3>1, <3>2
  <2>3. CASE Replies(r, "400") \/ Replies(r, "500")
    BY <1>1, <2>3, RepliesSays DEF Search, Semantic
  <2>. QED  BY <1>1, <2>1, <2>2, <2>3 DEF Search, Raises, Problem
<1>2. CASE LoadChunks(r)
  <2>1. CASE Found(r)
    BY <1>2, <2>1, FoundSays DEF LoadChunks, Semantic
  <2>2. CASE Replies(r, "500")
    BY <1>2, <2>2, RepliesSays DEF LoadChunks, Semantic
  <2>. QED  BY <1>2, <2>1, <2>2 DEF LoadChunks, Raises, Problem
<1>3. CASE Answer(r)
  <2>1. CASE req[r].route = "search" /\ Replies(r, "results")
    BY <1>3, <2>1, RepliesSays DEF Answer, Semantic
  <2>2. CASE req[r].route = "answers" /\ provider = "disabled" /\ Replies(r, "disabled")
    BY <1>3, <2>2, RepliesSays DEF Answer, Semantic
  <2>3. CASE req[r].route = "answers" /\ provider = "chat" /\ ~req[r].evidence /\ Replies(r, "insufficient_evidence")
    BY <1>3, <2>3, RepliesSays DEF Answer, Semantic
  <2>4. CASE req[r].route = "answers" /\ provider = "chat" /\ req[r].evidence /\ Goto(r, "generate")
    BY <1>3, <2>4, GotoSays DEF Answer, Semantic
  <2>. QED  BY <1>3, <2>1, <2>2, <2>3, <2>4 DEF Answer
<1>4. CASE Generate(r)
  <2>1. CASE Replies(r, "generated") \/ Replies(r, "502")
    BY <1>4, <2>1, RepliesSays DEF Generate, Semantic
  <2>. QED  BY <1>4, <2>1 DEF Generate, Raises, Problem
<1>. QED  BY <1>1, <1>2, <1>3, <1>4

LEMMA ModelStepKeeps ==
    ASSUME Inv, NEW r \in Requests, ModelStep(r)
    PROVE  Inv'
<1>. USE QuestionsAssumption
     DEF Inv, TypeOK, LockInv, ModelInv, PathInv, RepliesFitTheDeployment, Guarded, PC, Reply
<1>1. CASE GlanceAtModel(r)
  <2>1. CASE creator = NoRequest
    BY <1>1, <2>1, GotoSays DEF GlanceAtModel, Semantic
  <2>2. CASE creator # NoRequest
    BY <1>1, <2>2, GotoSays DEF GlanceAtModel, Semantic
  <2>. QED  BY <2>1, <2>2
<1>2. CASE Acquire(r)
  BY <1>2, GotoSays DEF Acquire, Semantic
<1>3. CASE Recheck(r)
  <2>1. CASE creator = NoRequest
    BY <1>3, <2>1, GotoSays DEF Recheck, Semantic
  <2>2. CASE creator # NoRequest
    BY <1>3, <2>2, GotoSays DEF Recheck, Semantic
  <2>. QED  BY <2>1, <2>2
<1>4. CASE CreateModel(r)
  BY <1>4, GotoSays DEF CreateModel, Semantic
<1>5. CASE CreationFails(r)
  BY <1>5, RepliesSays DEF CreationFails, Raises, Problem, Semantic
<1>6. CASE Release(r)
  BY <1>6, GotoSays DEF Release, Semantic
<1>. QED  BY <1>1, <1>2, <1>3, <1>4, <1>5, <1>6 DEF ModelStep

LEMMA VectorStepKeeps ==
    ASSUME Inv, NEW r \in Requests, Embed(r) \/ QueryPoints(r)
    PROVE  Inv'
<1>. USE DEF Inv, TypeOK, LockInv, ModelInv, PathInv, RepliesFitTheDeployment, Guarded, PC, Reply
<1>1. CASE Goto(r, "points") \/ Goto(r, "load")
  BY <1>1, GotoSays DEF Embed, QueryPoints, Semantic
<1>2. CASE Replies(r, "503")
  BY <1>2, RepliesSays DEF Embed, QueryPoints, Semantic
<1>. QED  BY <1>1, <1>2 DEF Embed, QueryPoints, Raises, Problem

LEMMA StepInv == Inv /\ [Next]_vars => Inv'
<1>. SUFFICES ASSUME Inv, [Next]_vars PROVE Inv'
  OBVIOUS
<1>1. ASSUME NEW r \in Requests, NEW route \in {"search", "answers"}, NEW mode \in Modes, Ask(r, route, mode)
      PROVE  Inv'
  <2>. USE <1>1 DEF Inv, TypeOK
  <2>1. /\ req' \in [Requests -> Request]
        /\ req'[r].pc = "search" /\ req'[r].reply = "none" /\ req'[r].route = route
        /\ \A s \in Requests \ {r} : req'[s] = req[s]
        /\ UNCHANGED <<provider, creator, lock>>
    BY AskSays DEF Ask
  <2>2. TypeOK'
    BY <2>1
  <2>3. LockInv' /\ ModelInv'
    BY <2>1 DEF LockInv, ModelInv, Guarded
  <2>4. PathInv'
    BY <2>1 DEF PathInv, Guarded, Semantic
  <2>5. RepliesFitTheDeployment'
    BY <2>1 DEF RepliesFitTheDeployment, Semantic
  <2>. QED  BY <2>2, <2>3, <2>4, <2>5
<1>2. ASSUME NEW r \in Requests, RequestStep(r)
      PROVE  Inv'
  BY <1>2, SearchStepKeeps, ModelStepKeeps, VectorStepKeeps DEF RequestStep
<1>3. CASE UNCHANGED vars
  BY <1>3 DEF vars, Inv, TypeOK, LockInv, ModelInv, PathInv, RepliesFitTheDeployment, Semantic
<1>. QED  BY <1>1, <1>2, <1>3 DEF Next

LEMMA InvAlways == Spec => []Inv
<1>. QED  BY InitInv, StepInv, PTL DEF Spec
---------------------------------------------------------------------------
(* While a request holds the lock the others neither create the model nor  *)
(* find it half created: _get_model embeds with the one that is there.     *)
THEOREM ModelBeforeEmbedding == Spec => []EmbedsWithAModel
<1>1. Inv => EmbedsWithAModel
  BY DEF Inv, ModelInv, EmbedsWithAModel
<1>. QED  BY <1>1, InvAlways, PTL

(* The second look under the lock is what makes the first one, without it, *)
(* safe: a request that creates the model knows that nobody else has.      *)
THEOREM ModelCreatedOnce == Spec => OneModel
<1>1. Inv /\ [Next]_vars => [creator # NoRequest => creator' = creator]_vars
  <2>. SUFFICES ASSUME Inv, Next, creator # NoRequest PROVE creator' = creator
    OBVIOUS
  <2>1. ASSUME NEW r \in Requests, CreateModel(r) PROVE FALSE
    BY <2>1 DEF Inv, ModelInv, CreateModel
  <2>. QED  BY <2>1
    DEF Next, Ask, RequestStep, ModelStep, Search, LoadChunks, Answer, Generate, GlanceAtModel, Acquire,
        Recheck, CreationFails, Release, Embed, QueryPoints
<1>. QED  BY <1>1, InvAlways, PTL DEF Spec, OneModel

(* What a reply says of the deployment holds under every failure of the    *)
(* database, the model, the vector index and the generator.                *)
THEOREM RepliesFit == Spec => []RepliesFitTheDeployment
<1>1. Inv => RepliesFitTheDeployment
  BY DEF Inv
<1>. QED  BY <1>1, InvAlways, PTL
===========================================================================
