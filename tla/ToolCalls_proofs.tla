--------------------------- MODULE ToolCalls_proofs ---------------------------
(***************************************************************************)
(* What a tool call answers and what its audit record says of it, proved   *)
(* for any objects, cabinet, allowed classes and page sizes.               *)
(*                                                                         *)
(* The invariant tells, for each stage, what the reads so far have shown   *)
(* of everything the answer may still be built from.                       *)
(***************************************************************************)
EXTENDS ToolCalls, TLAPS

-----------------------------------------------------------------------------
(* The invariant. *)

Working == stage \notin {"idle", "finally", "done"}

Finished == stage \in {"finally", "done"}

Tools == Searches \cup OneId \cup {"describe", "folder", "many", "many_ref"}

\* What every call has in common with those of its tool.
CallGiven(c) ==
  /\ c.tool \in Tools
  /\ c.tool \in OneId => \E i \in Ids : c.asked = {i}
  /\ c.tool \notin Searches \cup ByRef => c.plan = "none"
  /\ c.contract = "v2" => c.tool = "search"

\* The tools that reach a stage.
ToolsAt ==
  CASE stage \in {"list", "classify", "singles", "prove"} -> Searches \cup {"folder"}
    [] stage = "page"                                     -> Searches \cup {"folder", "hard"}
    [] stage \in {"hydrate", "paths"}                     -> Searches \cup {"folder", "many", "many_ref"}
    [] stage = "issue"                                    -> Searches
    [] stage = "folder_target"                            -> {"folder"}
    [] stage \in {"hard_target", "candidates", "relationships"}  -> {"hard"}
    [] stage \in {"integrity_target", "validate", "evidence"}    -> {"integrity"}
    [] stage = "get"                                      -> {"get"}
    [] stage = "scope"                                    -> {"revisions"}
    [] stage \in {"revisions", "revision_scope"}          -> {"revisions", "revisions_ref"}
    [] stage \in {"member", "revision", "load"}           -> Contents
    [] stage = "by_ref"                                   -> ByRef \ {"many_ref"}
    [] stage = "answer"                                   -> {"get", "get_ref"}
    [] OTHER                                              -> {}

CallTold ==
  /\ stage # "idle" => CallGiven(call)
  /\ Working => call.tool \in ToolsAt /\ call.asked \subseteq Cabinet

\* Nothing is left of the call before, and little is known before the first list or target is read.
StartTold ==
  /\ stage \in {"idle", "folder_target", "hard_target"} => seen = {}
  /\ stage \in {"idle", "folder_target", "hard_target", "list", "page", "candidates"} => fails = {} /\ rels = {}
  /\ stage = "list" => \A s \in seen : s.class # "hardReference"
  /\ stage \in {"candidates", "page"} /\ call.tool = "hard" => \A s \in seen : s.id \in call.asked

\* A call by reference has read the object of its handle, in the class of then.
RefShown(i, s) ==
  /\ s.id = i /\ s.class = call.handle[i]
  /\ call.rooted => s.root
  /\ call.plan = "deterministic" => s.match = "match"

RefTold ==
  Working /\ stage \notin {"by_ref", "hydrate", "paths"} /\ call.tool \in ByRef =>
    \A i \in call.asked : \E s \in seen : RefShown(i, s)

\* The one object of a call has been shown to be what the answer needs.
OneTold ==
  stage \in {"answer", "load", "revision", "validate", "evidence"} =>
    \A j \in DOMAIN objs :
      /\ j \in Cabinet /\ objs[j].class \in Allowed
      /\ \E s \in seen :
           /\ s.id = j /\ s.class = objs[j].class
           /\ call.rooted => s.root
           /\ call.plan = "deterministic" /\ call.tool \notin Contents => s.match = "match"

RevisionsTold ==
  stage = "revision_scope" =>
    \A j \in DOMAIN objs :
      /\ j \in Cabinet /\ objs[j].class \in Allowed
      /\ \E s \in seen : s.id = j /\ s.class = objs[j].class
      /\ call.rooted /\ j \notin todo => \E s \in seen : s.asked = j /\ s.root

\* Each candidate is classified, waits to be, or could not be; and each relationship that was seen is
\* known for one, until it is shown to lie in the root and hidden.
Hard == {i \in DOMAIN objs : objs[i].class = "hardReference"}

DiscoveryTold ==
  LET shown == {s \in seen : s.match # "unseen"} IN
  /\ stage \in {"classify", "singles", "prove"} =>
       /\ ids \subseteq Cabinet
       /\ DOMAIN objs \cap fails = {}
       /\ \A i \in DOMAIN objs : \E s \in shown : s.id = i
       /\ \A s \in shown : s.class = "hardReference" => s.id \in Hard
  /\ stage \in {"classify", "singles"} =>
       /\ rels = {}
       /\ ids = DOMAIN objs \cup fails \cup todo
       /\ todo \cap (DOMAIN objs \cup fails) = {}
  /\ stage = "prove" =>
       /\ ids = DOMAIN objs \cup fails
       /\ Hard = rels \cup todo
       /\ fails # {} => Hard = {}
       /\ \A i \in rels : \E s \in shown : s.id = i /\ s.class = "hardReference" /\ InRoot(s)

\* The ids of a page or a batch are read, placed and verified, or have failed.
PageTold ==
  /\ stage \in {"hydrate", "paths", "issue"} =>
       ids \subseteq Cabinet /\ (call.tool \in {"many", "many_ref"} => ids = call.asked)
  /\ stage \in {"paths", "issue"} =>
       /\ DOMAIN objs \cup fails = ids /\ DOMAIN objs \cap fails = {}
       /\ call.plan = "deterministic" => fails = {}
       /\ \A i \in DOMAIN objs :
            /\ ResultType(objs[i])
            /\ Saw(i, i, objs[i]) \in seen
            /\ call.rooted /\ i \notin todo => \E s \in seen : s.id = i /\ s.class = objs[i].class /\ s.root
  /\ stage = "issue" => todo = {} /\ \A i \in DOMAIN objs : Satisfies(objs[i])

\* A relationship waits, or is authorized, or was not available, or was shown outside of the root.
RelationsTold ==
  stage = "relationships" =>
    /\ ids \subseteq Cabinet /\ todo \subseteq ids /\ DOMAIN objs \subseteq ids /\ rels \subseteq ids
    /\ DOMAIN objs \cap todo = {} /\ rels \cap (todo \cup DOMAIN objs) = {}
    /\ \A i \in rels : \E s \in seen : s.id = i /\ s.class = "hardReference" /\ InRoot(s)
    /\ \A i \in ids \ (rels \cup fails) :
         /\ i \in todo \cup DOMAIN objs \/ call.rooted
         /\ i \notin call.asked => ~ \E s \in seen : s.id = i /\ s.class = "hardReference" /\ s.root

\* What the audit record would say.
AuditTold ==
  /\ stage # "done" => log = <<>>
  /\ stage # "idle" /\ call.tool # "search" => outcome = "none"
  /\ stage # "idle" /\ call.tool \in ByRef \cup {"replay", "continue"} => named = {}
  /\ stage = "idle" => named = {} /\ outcome = "none"
  /\ Working /\ call.tool = "search" /\ stage # "issue" => outcome = "none"
  /\ stage = "issue" /\ call.tool = "search" => named = DOMAIN objs /\ outcome = SearchOutcome
  /\ Finished /\ out.code = "OK" /\ call.tool \in {"search", "folder", "many", "get"} => named = DOMAIN out.docs
  /\ Finished /\ out.code = "OK" /\ call.tool = "search" =>
       /\ (outcome = "matches") <=> (out.docs # <<>>)
       /\ (outcome = "hydration_failure") <=> (out.docs = <<>> /\ out.failed # {})
  /\ Finished /\ out.code \notin {"OK", "REFUSED", "INVALID_ARGUMENT"} /\ call.tool = "search" =>
       outcome \notin {"matches", "zero"}
  /\ stage = "finally" => out.code # "REFUSED"
  /\ stage = "done" =>
       IF out.code = "REFUSED" THEN log = <<>>
       ELSE log = <<[code    |-> out.code,
                     objects |-> IF call.tool = "search" /\ call.contract = "v2" THEN {} ELSE named,
                     outcome |-> outcome]>>

\* An answer is proven and loses nothing.
AnswerTold ==
  /\ stage = "idle" => out = [code |-> "none", docs |-> <<>>, failed |-> {}]
  /\ Finished /\ out.code = "OK" =>
       /\ \A i \in DOMAIN out.docs : ProvenAt(i, out.docs[i])
       /\ call.tool \in ByRef => \A i \in call.asked : \E s \in seen :
            s.id = i /\ s.class = call.handle[i] /\ (call.plan = "deterministic" => s.match = "match")
       /\ call.tool \in Searches \cup {"folder", "many", "many_ref"} =>
            /\ DOMAIN out.docs \cup out.failed = ids
            /\ DOMAIN out.docs \cap out.failed = {}
            /\ call.plan = "deterministic" \/ call.tool = "many_ref" => out.failed = {}
            /\ call.tool \in {"many", "many_ref"} => ids = call.asked
       /\ call.tool = "hard" =>
            /\ DOMAIN out.docs \subseteq rels
            /\ more \/ DOMAIN out.docs = rels
            /\ \A i \in ids \ (rels \cup fails) :
                 /\ call.rooted
                 /\ i \notin call.asked => ~ \E s \in seen : s.id = i /\ s.class = "hardReference" /\ s.root

IInv ==
  /\ CallTold /\ StartTold /\ RefTold /\ OneTold /\ RevisionsTold
  /\ DiscoveryTold /\ PageTold /\ RelationsTold /\ AuditTold /\ AnswerTold

-----------------------------------------------------------------------------
(* The calls. *)

USE DEF Searches, ByRef, Contents, OneId, Tools, Working, Finished

LEMMA CallsGive == ASSUME NEW c \in Calls PROVE CallGiven(c)
<1>1. c.tool \in Tools
  BY DEF Calls
<1>2. c.tool \in OneId => \E i \in Ids : c.asked = {i}
  BY DEF Calls
<1>3. c.tool \notin Searches \cup ByRef => c.plan = "none"
  BY DEF Calls
<1>4. c.contract = "v2" => c.tool = "search"
  BY DEF Calls
<1> QED BY <1>1, <1>2, <1>3, <1>4 DEF CallGiven

LEMMA AskedIs ==
  ASSUME CallTold, Working, call.tool \in OneId
  PROVE  call.asked = {Asked} /\ Asked \in Ids /\ Asked \in Cabinet
BY DEF CallTold, CallGiven, Asked

LEMMA EmptyAnswer ==
  ASSUME NEW S, NEW F(_)
  PROVE  ([i \in S |-> F(i)] = <<>>) <=> (S = {})
OBVIOUS

-----------------------------------------------------------------------------
(* An error keeps nothing of what was read. *)

LEMMA ThrowKeeps ==
  ASSUME IInv, Working, NEW c \in Errors, Throw(c)
  PROVE  IInv'
<1>1. /\ stage' = "finally" /\ call' = call /\ out'.code = c /\ c \notin {"OK", "REFUSED"}
      /\ UNCHANGED <<named, log>>
  BY DEF Throw, Errors
<1>2. CallTold' /\ StartTold' /\ RefTold' /\ OneTold' /\ RevisionsTold' /\ AnswerTold'
  BY <1>1 DEF IInv, CallTold, StartTold, RefTold, OneTold, RevisionsTold, AnswerTold
<1>3. DiscoveryTold' /\ PageTold' /\ RelationsTold'
  BY <1>1 DEF DiscoveryTold, PageTold, RelationsTold
<1>4. AuditTold'
  BY <1>1 DEF Throw, IInv, AuditTold
<1> QED BY <1>2, <1>3, <1>4 DEF IInv

SearchErrors == {"hydration_failure", "predicate_mismatch", "metadata_unverifiable"}

LEMMA ThrowOutcomeKeeps ==
  ASSUME IInv, Working, NEW o \in SearchErrors, ThrowOutcome(o)
  PROVE  IInv'
<1>1. /\ stage' = "finally" /\ call' = call /\ out'.code = "UPSTREAM_ERROR"
      /\ UNCHANGED <<named, log>>
  BY DEF ThrowOutcome
<1>2. CallTold' /\ StartTold' /\ RefTold' /\ OneTold' /\ RevisionsTold' /\ AnswerTold'
  BY <1>1 DEF IInv, CallTold, StartTold, RefTold, OneTold, RevisionsTold, AnswerTold
<1>3. DiscoveryTold' /\ PageTold' /\ RelationsTold'
  BY <1>1 DEF DiscoveryTold, PageTold, RelationsTold
<1>4. AuditTold'
  BY <1>1 DEF ThrowOutcome, SearchErrors, IInv, AuditTold
<1> QED BY <1>2, <1>3, <1>4 DEF IInv

-----------------------------------------------------------------------------
(* The ends of a call. *)

LEMMA BeginKeeps == ASSUME IInv, Begin PROVE IInv'
<1>1. CallGiven(call') /\ stage = "idle"
  BY CallsGive DEF Begin
<1>2. /\ seen' = {} /\ fails' = {} /\ rels' = {} /\ log' = <<>>
      /\ named = {} /\ outcome = "none" /\ out = [code |-> "none", docs |-> <<>>, failed |-> {}]
  BY <1>1 DEF Begin, IInv, StartTold, AuditTold, AnswerTold
<1>3. /\ call'.tool # "integrity" => named' = {}
      /\ outcome' \in {"none", "provider_failure"}
      /\ call'.tool # "search" => outcome' = "none"
      /\ out'.docs = <<>>
      /\ \/ stage' = "done" /\ out'.code = "REFUSED"
         \/ /\ stage' = "finally" /\ out'.code \in {"INVALID_ARGUMENT", "FORBIDDEN", "NOT_AVAILABLE"}
         \/ stage' = "finally" /\ out'.code = "OK" /\ call'.tool = "describe"
         \/ /\ call'.tool # "describe" /\ call'.asked \subseteq Cabinet /\ outcome' = "none"
            /\ stage' = FirstStage(call')
            /\ stage' = "hydrate" => ids' = call'.asked
  BY <1>2 DEF Begin
<1>4. CallTold' /\ RefTold' /\ OneTold' /\ RevisionsTold'
  BY <1>1, <1>3 DEF CallTold, CallGiven, ToolsAt, FirstStage, RefTold, OneTold, RevisionsTold
<1>5. StartTold' /\ DiscoveryTold' /\ PageTold' /\ RelationsTold'
  BY <1>1, <1>2, <1>3 DEF CallGiven, FirstStage, StartTold, DiscoveryTold, PageTold, RelationsTold
<1>6. AuditTold'
  BY <1>1, <1>2, <1>3 DEF FirstStage, CallGiven, AuditTold
<1>7. AnswerTold'
  BY <1>1, <1>2, <1>3 DEF FirstStage, CallGiven, AnswerTold
<1> QED BY <1>4, <1>5, <1>6, <1>7 DEF IInv

LEMMA AuditKeeps == ASSUME IInv, Audit PROVE IInv'
<1>1. /\ stage = "finally" /\ stage' = "done" /\ UNCHANGED <<call, work, named, outcome, seen, out>>
      /\ log = <<>>
  BY DEF Audit, IInv, AuditTold
<1>2. log' = <<[code    |-> out.code,
                objects |-> IF call.tool = "search" /\ call.contract = "v2" THEN {} ELSE named,
                outcome |-> outcome]>>
  BY <1>1 DEF Audit
<1>3. CallTold' /\ StartTold' /\ RefTold' /\ OneTold' /\ RevisionsTold' /\ DiscoveryTold' /\ PageTold' /\ RelationsTold'
  BY <1>1 DEF IInv, CallTold, StartTold, RefTold, OneTold, RevisionsTold, DiscoveryTold, PageTold, RelationsTold
<1>4. AuditTold'
  BY <1>1, <1>2 DEF IInv, AuditTold
<1>5. AnswerTold'
  BY <1>1 DEF IInv, AnswerTold, ProvenAt, work
<1> QED BY <1>3, <1>4, <1>5 DEF IInv

LEMMA LeaveKeeps == ASSUME Leave PROVE IInv'
<1>1. /\ stage' = "idle" /\ seen' = {} /\ fails' = {} /\ rels' = {} /\ log' = <<>>
      /\ named' = {} /\ outcome' = "none" /\ out' = [code |-> "none", docs |-> <<>>, failed |-> {}]
  BY DEF Leave, Forget
<1>2. CallTold' /\ StartTold' /\ RefTold' /\ OneTold' /\ RevisionsTold' /\ DiscoveryTold' /\ PageTold' /\ RelationsTold'
  BY <1>1 DEF CallTold, StartTold, RefTold, OneTold, RevisionsTold, DiscoveryTold, PageTold, RelationsTold
<1>3. AuditTold' /\ AnswerTold'
  BY <1>1 DEF AuditTold, AnswerTold
<1> QED BY <1>2, <1>3 DEF IInv
-----------------------------------------------------------------------------
(* Calls about one object. *)

LEMMA ReadOneKeeps == ASSUME IInv, ReadOne PROVE IInv'
<1>. SUFFICES ASSUME \A c \in Errors : ~Throw(c) PROVE IInv'
  BY ThrowKeeps DEF ReadOne
<1>1. PICK j \in Ids, f \in Fact(TRUE, stage = "by_ref") :
        /\ Passes(Effective, j, f) /\ stage' = AfterOne /\ objs' = Only(j, f)
        /\ seen' = seen \cup {Saw(Effective, j, f)}
        /\ named' = IF stage = "hard_target" THEN call.asked ELSE named
        /\ UNCHANGED <<call, ids, todo, fails, rels, more, outcome, out, log>>
  BY DEF ReadOne, ReadFails, UpstreamErrors, Errors
<1>2. stage \in {"folder_target", "hard_target", "integrity_target", "scope", "get", "by_ref", "member", "revision"}
  BY DEF ReadOne
<1>3. CallGiven(call) /\ call.tool \in ToolsAt /\ call.asked \subseteq Cabinet
  BY <1>2 DEF IInv, CallTold
<1>4. CallTold'
  BY <1>1, <1>2, <1>3 DEF CallTold, AfterOne, ToolsAt
<1>5. PICK s : s = Saw(Effective, j, f)
  OBVIOUS
<1>6. /\ DOMAIN objs' = {j} /\ objs'[j] = f
      /\ s \in seen' /\ s.id = j /\ s.class = f.class /\ s.root = f.root /\ s.match = f.match
      /\ seen \subseteq seen'
  BY <1>1, <1>5 DEF Only, Saw
<1>7. stage \notin {"folder_target", "revision"} => /\ call.tool \in OneId
                                                    /\ call.asked = {Asked} /\ Asked \in Cabinet
                                                    /\ Effective = Asked
  BY <1>2, <1>3, AskedIs DEF IInv, ToolsAt, Effective
<1>8. StartTold'
  <2>1. stage = "folder_target" => StartTold'
    BY <1>1, <1>3 DEF IInv, StartTold, AfterOne, Passes, FolderTarget, Saw, ToolsAt
  <2>2. stage = "hard_target" => StartTold'
    BY <1>1, <1>7 DEF IInv, StartTold, AfterOne, Passes, HardTarget, Saw, ToolsAt
  <2>3. stage \notin {"folder_target", "hard_target"} => StartTold'
    BY <1>1, <1>2 DEF StartTold, AfterOne
  <2> QED BY <2>1, <2>2, <2>3
<1>9. RefTold'
  <2>1. CASE stage = "by_ref"
    <3>1. RefShown(j, s) /\ j = Asked
      BY <2>1, <1>1, <1>3, <1>7, <1>6 DEF RefShown, Passes, ByReference, InRoot, Satisfies
    <3>2. RefShown(j, s)'
      BY <3>1, <1>1 DEF RefShown
    <3>3. call'.asked = {j}
      BY <3>1, <1>1, <1>7, <2>1
    <3> QED BY <3>2, <3>3, <1>6 DEF RefTold
  <2>2. CASE stage # "by_ref"
    BY <2>2, <1>1, <1>2, <1>6 DEF IInv, RefTold, RefShown
  <2> QED BY <2>1, <2>2
<1>10. OneTold'
  <2>1. CASE stage' \in {"answer", "load", "revision", "validate", "evidence"}
    <3>1. stage \in {"integrity_target", "get", "by_ref", "member", "revision"}
      BY <2>1, <1>1, <1>2 DEF AfterOne
    <3>2. /\ j \in Cabinet /\ f.class \in Allowed
          /\ call.rooted => f.root
          /\ call.plan = "deterministic" /\ call.tool \notin Contents => f.match = "match"
      BY <3>1, <1>1, <1>3, <1>7 DEF Passes, IntegrityTarget, VerifyScope, ByReference, Member, Revision,
         AllowedType, InRoot, Satisfies, CallGiven, ToolsAt
    <3> QED BY <3>2, <1>1, <1>6 DEF OneTold
  <2> QED BY <2>1 DEF OneTold
<1>11. RevisionsTold' /\ DiscoveryTold' /\ PageTold' /\ RelationsTold'
  BY <1>1, <1>2 DEF RevisionsTold, DiscoveryTold, PageTold, RelationsTold, AfterOne
<1>12. AuditTold'
  BY <1>1, <1>2, <1>3 DEF IInv, AuditTold, AfterOne, ToolsAt
<1>13. AnswerTold'
  BY <1>1, <1>2 DEF AnswerTold, AfterOne
<1> QED BY <1>4, <1>8, <1>9, <1>10, <1>11, <1>12, <1>13 DEF IInv

\* What an answer about one object, and the text of one, is proven by.
LEMMA OneProven ==
  ASSUME IInv, stage \in {"answer", "load", "validate", "evidence"}
  PROVE  /\ \A i \in DOMAIN objs : ProvenAt(i, objs[i].class)
         /\ call.tool \in ByRef => \A i \in call.asked : \E s \in seen :
              s.id = i /\ s.class = call.handle[i] /\ (call.plan = "deterministic" => s.match = "match")
         /\ call.tool \notin {"search", "replay", "continue", "folder", "many", "many_ref", "hard"}
<1>1. call.tool \notin {"search", "replay", "continue", "folder", "many", "many_ref", "hard", "revisions"}
  BY DEF IInv, CallTold, ToolsAt
<1>2. \A i \in DOMAIN objs : ProvenAt(i, objs[i].class)
  BY <1>1 DEF IInv, OneTold, ProvenAt
<1>3. call.tool \in ByRef => \A i \in call.asked : \E s \in seen : RefShown(i, s)
  BY DEF IInv, RefTold
<1> QED BY <1>1, <1>2, <1>3 DEF RefShown

\* A step to the answer that keeps what was read.
LEMMA ReturnKeeps ==
  ASSUME IInv, Working, NEW docs, NEW failed, Return(docs, failed),
         UNCHANGED <<call, outcome, seen, log>>,
         \A i \in DOMAIN docs : ProvenAt(i, docs[i]),
         call.tool \in ByRef => \A i \in call.asked : \E s \in seen :
              s.id = i /\ s.class = call.handle[i] /\ (call.plan = "deterministic" => s.match = "match"),
         call.tool \notin {"search", "replay", "continue", "folder", "many", "many_ref", "hard"},
         call.tool \in ByRef => named' = named,
         call.tool = "get" => named' = DOMAIN docs
  PROVE  IInv'
<1>1. stage' = "finally" /\ out' = [code |-> "OK", docs |-> docs, failed |-> failed]
  BY DEF Return
<1>2. CallTold' /\ StartTold' /\ RefTold' /\ OneTold' /\ RevisionsTold' /\ DiscoveryTold' /\ PageTold' /\ RelationsTold'
  BY <1>1 DEF IInv, CallTold, StartTold, RefTold, OneTold, RevisionsTold, DiscoveryTold, PageTold, RelationsTold
<1>3. AuditTold'
  BY <1>1 DEF IInv, AuditTold
<1>4. \A i \in DOMAIN docs : ProvenAt(i, docs[i])'
  BY DEF ProvenAt
<1>5. AnswerTold'
  BY <1>1, <1>4 DEF AnswerTold
<1> QED BY <1>2, <1>3, <1>5 DEF IInv

LEMMA AnswerOneKeeps == ASSUME IInv, AnswerOne PROVE IInv'
<1>1. /\ stage = "answer" /\ Return(ClassesOf(objs), {})
      /\ named' = IF call.tool = "get" THEN DOMAIN objs ELSE named
      /\ UNCHANGED <<call, outcome, seen, log>>
  BY DEF AnswerOne
<1>2. \A i \in DOMAIN ClassesOf(objs) : ProvenAt(i, ClassesOf(objs)[i])
  BY <1>1, OneProven DEF ClassesOf
<1>3. DOMAIN ClassesOf(objs) = DOMAIN objs
  BY DEF ClassesOf
<1> QED BY <1>1, <1>2, <1>3, OneProven, ReturnKeeps

LEMMA ContentKeeps == ASSUME IInv, Content PROVE IInv'
<1>. SUFFICES ASSUME \A c \in Errors : ~Throw(c) PROVE IInv'
  BY ThrowKeeps DEF Content
<1>1. /\ stage = "load" /\ (Return(ClassesOf(objs), {}) \/ Return(<<>>, {}))
      /\ named' = IF call.tool \in ByRef THEN named ELSE call.asked
      /\ UNCHANGED <<call, outcome, seen, log>>
  BY DEF Content, Errors
<1>2. call.tool # "get" /\ stage = "load"
  BY <1>1 DEF Content, IInv, CallTold, ToolsAt
<1>3. \A i \in DOMAIN ClassesOf(objs) : ProvenAt(i, ClassesOf(objs)[i])
  BY <1>2, OneProven DEF ClassesOf
<1>4. DOMAIN <<>> = {}
  OBVIOUS
<1> QED BY <1>1, <1>2, <1>3, <1>4, OneProven, ReturnKeeps

LEMMA IntegrityKeeps == ASSUME IInv, Integrity PROVE IInv'
<1>. SUFFICES ASSUME \A c \in Errors : ~Throw(c) PROVE IInv'
  BY ThrowKeeps DEF Integrity
<1>1. /\ stage \in {"validate", "evidence"} /\ UNCHANGED <<call, work, named, outcome, seen, log>>
      /\ (stage' = "evidence" /\ UNCHANGED out) \/ Return(ClassesOf(objs), {})
  BY DEF Integrity, ReadFails, UpstreamErrors, Errors
<1>2. call.tool = "integrity"
  BY <1>1 DEF IInv, CallTold, ToolsAt
<1>3. CASE Return(ClassesOf(objs), {})
  <2>1. \A i \in DOMAIN ClassesOf(objs) : ProvenAt(i, ClassesOf(objs)[i])
    BY <1>1, OneProven DEF ClassesOf
  <2> QED BY <1>1, <1>2, <1>3, <2>1, OneProven, ReturnKeeps
<1>4. CASE stage' = "evidence" /\ UNCHANGED out
  <2>1. CallTold' /\ StartTold' /\ RefTold' /\ RevisionsTold' /\ DiscoveryTold' /\ PageTold' /\ RelationsTold'
    BY <1>1, <1>2, <1>4 DEF IInv, CallTold, ToolsAt, StartTold, RefTold, RevisionsTold, DiscoveryTold,
       PageTold, RelationsTold
  <2>2. OneTold'
    BY <1>1, <1>4 DEF IInv, OneTold, work
  <2>3. AuditTold' /\ AnswerTold'
    BY <1>1, <1>2, <1>4 DEF IInv, AuditTold, AnswerTold
  <2> QED BY <2>1, <2>2, <2>3 DEF IInv
<1> QED BY <1>1, <1>3, <1>4

LEMMA RevisionsKeeps == ASSUME IInv, Revisions PROVE IInv'
<1>. SUFFICES ASSUME \A c \in Errors : ~Throw(c) PROVE IInv'
  BY ThrowKeeps DEF Revisions
<1>1. PICK got \in SUBSET Ids, path \in BOOLEAN : \E f \in [got -> Fact(path, FALSE)] :
        /\ \A i \in got : i \in Cabinet /\ AllowedType(f[i]) /\ (path => InRoot(f[i]))
        /\ objs' = f
        /\ todo' = IF call.rooted /\ ~path THEN got ELSE {}
        /\ stage' = "revision_scope"
        /\ seen' = seen \cup {Saw(i, i, f[i]) : i \in got}
        /\ UNCHANGED <<call, ids, fails, rels, more, named, outcome, out, log>>
  BY DEF Revisions, ReadFails, UpstreamErrors, Errors
<1>2. /\ DOMAIN objs' = got
      /\ \A i \in got : /\ i \in Cabinet /\ objs'[i].class \in Allowed
                        /\ path => (call.rooted => objs'[i].root)
      /\ stage' = "revision_scope"
      /\ call.rooted /\ ~path => todo' = got
      /\ seen' = seen \cup {Saw(i, i, objs'[i]) : i \in got}
      /\ UNCHANGED <<call, ids, fails, rels, more, named, outcome, out, log>>
  BY <1>1 DEF AllowedType, InRoot
<1>3. stage = "revisions" /\ call.tool \in {"revisions", "revisions_ref"}
  BY DEF Revisions, IInv, CallTold, ToolsAt
<1>4. CallTold' /\ StartTold' /\ DiscoveryTold' /\ PageTold' /\ RelationsTold'
  BY <1>2, <1>3 DEF IInv, CallTold, ToolsAt, StartTold, DiscoveryTold, PageTold, RelationsTold
<1>5. RefTold'
  BY <1>2, <1>3 DEF IInv, RefTold, RefShown
<1>6. RevisionsTold'
  <2>1. ASSUME NEW i \in got
        PROVE  /\ \E s \in seen' : s.id = i /\ s.class = objs'[i].class
               /\ call'.rooted /\ i \notin todo' => \E s \in seen' : s.asked = i /\ s.root
    <3>1. PICK s : s = Saw(i, i, objs'[i])
      OBVIOUS
    <3>2. s \in seen' /\ s.asked = i /\ s.id = i /\ s.class = objs'[i].class /\ s.root = objs'[i].root
      BY <1>2, <3>1 DEF Saw
    <3> QED BY <1>2, <3>2
  <2> QED BY <1>2, <2>1 DEF RevisionsTold
<1>7. OneTold' /\ AuditTold' /\ AnswerTold'
  BY <1>2, <1>3 DEF IInv, OneTold, AuditTold, AnswerTold
<1> QED BY <1>4, <1>5, <1>6, <1>7 DEF IInv

LEMMA RevisionScopeKeeps == ASSUME IInv, RevisionScope PROVE IInv'
<1>. SUFFICES ASSUME \A c \in Errors : ~Throw(c) PROVE IInv'
  BY ThrowKeeps DEF RevisionScope
<1>1. PICK i \in todo, j \in Ids, f \in Fact(TRUE, FALSE) :
        /\ VerifyScope(i, j, f) /\ todo' = todo \ {i} /\ seen' = seen \cup {Saw(i, j, f)}
        /\ UNCHANGED <<call, stage, ids, objs, fails, rels, more, named, outcome, out, log>>
  BY DEF RevisionScope, ReadFails, UpstreamErrors, Errors
<1>2. stage = "revision_scope"
  BY DEF RevisionScope
<1>3. CallTold' /\ StartTold' /\ DiscoveryTold' /\ PageTold' /\ RelationsTold'
  BY <1>1, <1>2 DEF IInv, CallTold, ToolsAt, StartTold, DiscoveryTold, PageTold, RelationsTold
<1>4. RefTold'
  BY <1>1, <1>2 DEF IInv, RefTold, RefShown
<1>5. RevisionsTold'
  <2>1. call.rooted => \E s \in seen' : s.asked = i /\ s.root
    <3>1. PICK s : s = Saw(i, j, f)
      OBVIOUS
    <3>2. s \in seen' /\ s.asked = i /\ s.root = f.root
      BY <1>1, <3>1 DEF Saw
    <3> QED BY <1>1, <3>2 DEF VerifyScope, InRoot
  <2>2. \A k \in DOMAIN objs : k \notin todo' => k \notin todo \/ k = i
    BY <1>1
  <2> QED BY <1>1, <1>2, <2>1, <2>2 DEF IInv, RevisionsTold
<1>6. OneTold' /\ AuditTold' /\ AnswerTold'
  BY <1>1, <1>2 DEF IInv, OneTold, AuditTold, AnswerTold
<1> QED BY <1>3, <1>4, <1>5, <1>6 DEF IInv

LEMMA AnswerRevisionsKeeps == ASSUME IInv, AnswerRevisions PROVE IInv'
<1>. SUFFICES ASSUME \A c \in Errors : ~Throw(c) PROVE IInv'
  BY ThrowKeeps DEF AnswerRevisions
<1>1. /\ stage = "revision_scope" /\ todo = {}
      /\ call.tool \in ByRef => \A i \in DOMAIN objs : i = Asked /\ objs[i].class = call.handle[i]
      /\ Return(ClassesOf(objs), {})
      /\ named' = IF call.tool \in ByRef THEN named ELSE call.asked
      /\ UNCHANGED <<call, outcome, seen, log>>
  BY DEF AnswerRevisions, Errors
<1>2. /\ call.tool \in {"revisions", "revisions_ref"}
      /\ call.tool = "revisions" => call.plan = "none"
      /\ call.asked = {Asked}
  BY <1>1, AskedIs DEF IInv, CallTold, CallGiven, ToolsAt
<1>3. call.tool \in ByRef => \A i \in call.asked : \E s \in seen : RefShown(i, s)
  BY <1>1 DEF IInv, RefTold
<1>4. \A i \in DOMAIN objs : ProvenAt(i, objs[i].class)
  <2>1. CASE call.tool = "revisions"
    BY <1>1, <1>2, <2>1 DEF IInv, RevisionsTold, ProvenAt
  <2>2. CASE call.tool = "revisions_ref"
    BY <1>1, <1>2, <1>3, <2>2 DEF IInv, RevisionsTold, ProvenAt, RefShown
  <2> QED BY <1>2, <2>1, <2>2
<1>5. \A i \in DOMAIN ClassesOf(objs) : ProvenAt(i, ClassesOf(objs)[i])
  BY <1>4 DEF ClassesOf
<1> QED BY <1>1, <1>2, <1>3, <1>5, ReturnKeeps DEF RefShown

-----------------------------------------------------------------------------
(* Discovery. *)

LEMMA ListKeeps == ASSUME IInv, List PROVE IInv'
<1>. SUFFICES ASSUME \A c \in Errors : ~Throw(c) PROVE IInv'
  BY ThrowKeeps DEF List
<1>1. /\ stage = "list" /\ ids' \subseteq Cabinet /\ todo' = ids' /\ objs' = <<>> /\ stage' = "classify"
      /\ UNCHANGED <<call, fails, rels, more, named, outcome, seen, out, log>>
  BY DEF List, ReadFails, UpstreamErrors, Errors
<1>2. DOMAIN objs' = {} /\ fails = {} /\ rels = {} /\ \A s \in seen : s.class # "hardReference"
  BY <1>1 DEF IInv, StartTold
<1>3. CallTold' /\ StartTold' /\ RefTold' /\ OneTold' /\ RevisionsTold' /\ PageTold' /\ RelationsTold'
  BY <1>1 DEF IInv, CallTold, ToolsAt, StartTold, RefTold, OneTold, RevisionsTold, PageTold, RelationsTold
<1>4. DiscoveryTold'
  BY <1>1, <1>2 DEF DiscoveryTold, Hard
<1>5. AuditTold' /\ AnswerTold'
  BY <1>1 DEF IInv, AuditTold, AnswerTold
<1> QED BY <1>3, <1>4, <1>5 DEF IInv

LEMMA ClassifyChunkKeeps == ASSUME IInv, ClassifyChunk PROVE IInv'
<1>. SUFFICES ASSUME \A c \in Errors : ~Throw(c) PROVE IInv'
  BY ThrowKeeps DEF ClassifyChunk
<1>1. PICK chunk \in SUBSET todo, got \in SUBSET Ids, failed \in SUBSET Ids : \E f \in [got -> Kind] :
        /\ ValidBatch(chunk, got, failed)
        /\ objs' = [i \in DOMAIN objs \cup got |-> IF i \in got THEN f[i] ELSE objs[i]]
        /\ fails' = fails \cup failed
        /\ todo' = todo \ chunk
        /\ seen' = seen \cup {Saw(i, i, f[i]) : i \in got}
        /\ UNCHANGED <<call, stage, ids, rels, more, named, outcome, out, log>>
  BY DEF ClassifyChunk, ReadFails, UpstreamErrors, Errors
<1>2. PICK f \in [got -> Kind] :
        /\ objs' = [i \in DOMAIN objs \cup got |-> IF i \in got THEN f[i] ELSE objs[i]]
        /\ fails' = fails \cup failed
        /\ todo' = todo \ chunk
        /\ seen' = seen \cup {Saw(i, i, f[i]) : i \in got}
        /\ UNCHANGED <<call, stage, ids, rels, more, named, outcome, out, log>>
  BY <1>1
<1>3. /\ stage = "classify" /\ got \cup failed = chunk /\ got \cap failed = {}
      /\ ids = DOMAIN objs \cup fails \cup todo /\ todo \cap (DOMAIN objs \cup fails) = {}
  BY <1>1 DEF ClassifyChunk, ValidBatch, IInv, DiscoveryTold
<1>4. CallTold' /\ StartTold' /\ RefTold' /\ OneTold' /\ RevisionsTold' /\ PageTold' /\ RelationsTold'
  BY <1>2, <1>3 DEF IInv, CallTold, ToolsAt, StartTold, RefTold, OneTold, RevisionsTold, PageTold, RelationsTold
<1>5. DiscoveryTold'
  <2>1. /\ DOMAIN objs' = DOMAIN objs \cup got
        /\ \A i \in got : objs'[i] = f[i]
        /\ \A i \in DOMAIN objs : objs'[i] = objs[i]
    BY <1>2, <1>3
  <2>2. /\ ids' = DOMAIN objs' \cup fails' \cup todo' /\ todo' \cap (DOMAIN objs' \cup fails') = {}
        /\ DOMAIN objs' \cap fails' = {}
    BY <1>2, <1>3, <2>1 DEF IInv, DiscoveryTold
  <2>3. \A i \in got : Saw(i, i, f[i]).id = i /\ Saw(i, i, f[i]).class = f[i].class /\ Saw(i, i, f[i]).match # "unseen"
    BY DEF Saw, Kind
  <2>4. \A i \in DOMAIN objs' : \E s \in seen' : s.match # "unseen" /\ s.id = i
    BY <1>2, <1>3, <2>1, <2>3 DEF IInv, DiscoveryTold
  <2>5. \A s \in seen' : s.match # "unseen" /\ s.class = "hardReference" =>
          s.id \in DOMAIN objs' /\ objs'[s.id].class = "hardReference"
    BY <1>2, <1>3, <2>1, <2>3 DEF IInv, DiscoveryTold, Hard
  <2>6. ids' \subseteq Cabinet /\ rels' = {} /\ stage' = "classify"
    BY <1>2, <1>3 DEF IInv, DiscoveryTold
  <2> QED BY <2>2, <2>4, <2>5, <2>6 DEF DiscoveryTold, Hard
<1>6. AuditTold' /\ AnswerTold'
  BY <1>2, <1>3 DEF IInv, AuditTold, AnswerTold
<1> QED BY <1>4, <1>5, <1>6 DEF IInv

LEMMA SinglesKeeps == ASSUME IInv, Singles PROVE IInv'
<1>1. /\ stage = "classify" /\ todo = {} /\ stage' = "singles" /\ todo' = fails /\ fails' = {}
      /\ UNCHANGED <<call, ids, objs, rels, more, named, outcome, seen, out, log>>
  BY DEF Singles
<1>2. CallTold' /\ StartTold' /\ RefTold' /\ OneTold' /\ RevisionsTold' /\ PageTold' /\ RelationsTold'
  BY <1>1 DEF IInv, CallTold, ToolsAt, StartTold, RefTold, OneTold, RevisionsTold, PageTold, RelationsTold
<1>3. DiscoveryTold'
  BY <1>1 DEF IInv, DiscoveryTold, Hard
<1>4. AuditTold' /\ AnswerTold'
  BY <1>1 DEF IInv, AuditTold, AnswerTold
<1> QED BY <1>2, <1>3, <1>4 DEF IInv

LEMMA ClassifyOneKeeps == ASSUME IInv, ClassifyOne PROVE IInv'
<1>. SUFFICES ASSUME \A c \in Errors : ~Throw(c) PROVE IInv'
  BY ThrowKeeps DEF ClassifyOne
<1>1. PICK i \in todo, f \in Kind :
        /\ todo' = todo \ {i}
        /\ UNCHANGED <<call, stage, ids, rels, more, named, outcome, out, log>>
        /\ \/ /\ fails' = fails \cup {i} /\ objs' = objs
              /\ seen' = seen \cup {[Saw(i, i, f) EXCEPT !.match = "unseen"]}
           \/ /\ objs' = [k \in DOMAIN objs \cup {i} |-> IF k = i THEN f ELSE objs[k]] /\ fails' = fails
              /\ seen' = seen \cup {Saw(i, i, f)}
  BY DEF ClassifyOne, Errors
<1>2. /\ stage = "singles" /\ ids = DOMAIN objs \cup fails \cup todo
      /\ todo \cap (DOMAIN objs \cup fails) = {}
  BY DEF ClassifyOne, IInv, DiscoveryTold
<1>3. CallTold' /\ StartTold' /\ RefTold' /\ OneTold' /\ RevisionsTold' /\ PageTold' /\ RelationsTold'
  BY <1>1, <1>2 DEF IInv, CallTold, ToolsAt, StartTold, RefTold, OneTold, RevisionsTold, PageTold, RelationsTold
<1>4. DiscoveryTold'
  <2>1. /\ Saw(i, i, f).id = i /\ Saw(i, i, f).class = f.class /\ Saw(i, i, f).match # "unseen"
        /\ [Saw(i, i, f) EXCEPT !.match = "unseen"].match = "unseen"
    BY DEF Saw, Kind
  <2>2. CASE /\ fails' = fails \cup {i} /\ objs' = objs
             /\ seen' = seen \cup {[Saw(i, i, f) EXCEPT !.match = "unseen"]}
    <3>1. PICK t : t = [Saw(i, i, f) EXCEPT !.match = "unseen"]
      OBVIOUS
    <3>2. seen' = seen \cup {t} /\ t.match = "unseen"
      BY <2>1, <2>2, <3>1
    <3>3. {s \in seen' : s.match # "unseen"} = {s \in seen : s.match # "unseen"}
      BY <3>2
    <3>4. ids' = DOMAIN objs \cup fails' \cup todo' /\ todo' \cap (DOMAIN objs \cup fails') = {}
          /\ DOMAIN objs \cap fails' = {}
      BY <1>1, <1>2, <2>2 DEF IInv, DiscoveryTold
    <3>5. Hard' = Hard /\ rels' = rels /\ stage' = "singles" /\ objs' = objs /\ ids' = ids
      BY <1>1, <1>2, <2>2 DEF Hard
    <3> QED BY <1>2, <3>3, <3>4, <3>5 DEF IInv, DiscoveryTold
  <2>3. CASE /\ objs' = [k \in DOMAIN objs \cup {i} |-> IF k = i THEN f ELSE objs[k]] /\ fails' = fails
             /\ seen' = seen \cup {Saw(i, i, f)}
    <3>1. DOMAIN objs' = DOMAIN objs \cup {i} /\ objs'[i] = f /\ \A k \in DOMAIN objs : objs'[k] = objs[k]
      BY <1>2, <2>3
    <3>2. \A s \in seen' : s.match # "unseen" /\ s.class = "hardReference" =>
            s.id \in DOMAIN objs' /\ objs'[s.id].class = "hardReference"
      BY <1>2, <2>1, <2>3, <3>1 DEF IInv, DiscoveryTold, Hard
    <3> QED BY <1>1, <1>2, <2>1, <2>3, <3>1, <3>2 DEF IInv, DiscoveryTold, Hard
  <2> QED BY <1>1, <2>2, <2>3
<1>5. AuditTold' /\ AnswerTold'
  BY <1>1, <1>2 DEF IInv, AuditTold, AnswerTold
<1> QED BY <1>3, <1>4, <1>5 DEF IInv

LEMMA ScreenKeeps == ASSUME IInv, Screen PROVE IInv'
<1>. SUFFICES ASSUME \A c \in Errors : ~Throw(c) PROVE IInv'
  BY ThrowKeeps DEF Screen
<1>1. /\ stage = "singles" /\ todo = {} /\ (fails = {} \/ Hard = {})
      /\ stage' = "prove" /\ todo' = Hard
      /\ UNCHANGED <<call, ids, objs, fails, rels, more, named, outcome, seen, out, log>>
  BY DEF Screen, Errors, Hard
<1>2. CallTold' /\ StartTold' /\ RefTold' /\ OneTold' /\ RevisionsTold' /\ PageTold' /\ RelationsTold'
  BY <1>1 DEF IInv, CallTold, ToolsAt, StartTold, RefTold, OneTold, RevisionsTold, PageTold, RelationsTold
<1>3. DiscoveryTold'
  BY <1>1 DEF IInv, DiscoveryTold, Hard
<1>4. AuditTold' /\ AnswerTold'
  BY <1>1 DEF IInv, AuditTold, AnswerTold
<1> QED BY <1>2, <1>3, <1>4 DEF IInv

LEMMA ProveHiddenKeeps == ASSUME IInv, ProveHidden PROVE IInv'
<1>. SUFFICES ASSUME \A c \in Errors : ~Throw(c) PROVE IInv'
  BY ThrowKeeps DEF ProveHidden
<1>1. PICK i \in todo, f \in Fact(TRUE, FALSE) :
        /\ f.class = "hardReference" /\ InRoot(f)
        /\ todo' = todo \ {i} /\ rels' = rels \cup {i} /\ seen' = seen \cup {Saw(i, i, f)}
        /\ UNCHANGED <<call, stage, ids, objs, fails, more, named, outcome, out, log>>
  BY DEF ProveHidden, ReadFails, UpstreamErrors, Errors
<1>2. stage = "prove"
  BY DEF ProveHidden
<1>3. CallTold' /\ StartTold' /\ RefTold' /\ OneTold' /\ RevisionsTold' /\ PageTold' /\ RelationsTold'
  BY <1>1, <1>2 DEF IInv, CallTold, ToolsAt, StartTold, RefTold, OneTold, RevisionsTold, PageTold, RelationsTold
<1>4. DiscoveryTold'
  <2>1. PICK s : s = Saw(i, i, f)
    OBVIOUS
  <2>2. /\ s.id = i /\ s.class = "hardReference" /\ s.match # "unseen"
        /\ call.rooted => s.root
        /\ seen' = seen \cup {s}
    BY <1>1, <2>1 DEF Saw, Fact, InRoot
  <2> QED BY <1>1, <1>2, <2>2 DEF IInv, DiscoveryTold, Hard, InRoot
<1>5. AuditTold' /\ AnswerTold'
  BY <1>1, <1>2 DEF IInv, AuditTold, AnswerTold
<1> QED BY <1>3, <1>4, <1>5 DEF IInv

LEMMA FirstPageKeeps == ASSUME IInv, FirstPage PROVE IInv'
<1>. SUFFICES ASSUME \A c \in Errors : ~Throw(c) PROVE IInv'
  BY ThrowKeeps DEF FirstPage
<1>1. /\ stage = "prove" /\ stage' = "hydrate" /\ ids' \subseteq ids
      /\ seen' = {} /\ fails' = {} /\ rels' = {}
      /\ UNCHANGED <<call, todo, named, outcome, out, log>>
  BY DEF FirstPage, Errors
<1>2. call.tool \in Searches \cup {"folder"} /\ ids' \subseteq Cabinet
  BY <1>1 DEF IInv, CallTold, ToolsAt, DiscoveryTold
<1>3. CallTold' /\ StartTold' /\ RefTold' /\ OneTold' /\ RevisionsTold' /\ DiscoveryTold' /\ RelationsTold'
  BY <1>1, <1>2 DEF IInv, CallTold, ToolsAt, StartTold, RefTold, OneTold, RevisionsTold, DiscoveryTold, RelationsTold
<1>4. PageTold'
  BY <1>1, <1>2 DEF PageTold
<1>5. AuditTold' /\ AnswerTold'
  BY <1>1 DEF IInv, AuditTold, AnswerTold
<1> QED BY <1>3, <1>4, <1>5 DEF IInv

LEMMA RetainedPageKeeps == ASSUME IInv, RetainedPage PROVE IInv'
<1>. SUFFICES ASSUME \A c \in Errors : ~Throw(c) PROVE IInv'
  BY ThrowKeeps DEF RetainedPage
<1>1. /\ stage = "page" /\ ids' \subseteq Cabinet /\ objs' = <<>>
      /\ stage' = IF call.tool = "hard" THEN "relationships" ELSE "hydrate"
      /\ todo' = IF call.tool = "hard" THEN ids' ELSE {}
      /\ UNCHANGED <<call, fails, rels, named, outcome, seen, out, log>>
  BY DEF RetainedPage, Errors
<1>2. call.tool \in Searches \cup {"folder", "hard"} /\ rels = {}
  BY <1>1 DEF IInv, CallTold, ToolsAt, StartTold
<1>3. CallTold' /\ StartTold' /\ RefTold' /\ OneTold' /\ RevisionsTold' /\ DiscoveryTold' /\ PageTold'
  BY <1>1, <1>2 DEF IInv, CallTold, ToolsAt, StartTold, RefTold, OneTold, RevisionsTold, DiscoveryTold, PageTold
<1>4. RelationsTold'
  BY <1>1, <1>2 DEF IInv, StartTold, RelationsTold
<1>5. AuditTold' /\ AnswerTold'
  BY <1>1 DEF IInv, AuditTold, AnswerTold
<1> QED BY <1>3, <1>4, <1>5 DEF IInv

-----------------------------------------------------------------------------
(* Hydration. *)

LEMMA HydrateKeeps == ASSUME IInv, Hydrate PROVE IInv'
<1>. SUFFICES ASSUME \A c \in Errors : ~Throw(c), ~ThrowOutcome("hydration_failure") PROVE IInv'
  BY ThrowKeeps, ThrowOutcomeKeeps DEF Hydrate, SearchErrors
<1>1. PICK got \in SUBSET Ids, failed \in SUBSET Ids, path \in BOOLEAN :
        /\ ValidBatch(ids, got, failed)
        /\ ~(call.plan = "deterministic" /\ failed # {})
        /\ \E f \in [got -> Fact(path, call.plan # "none")] :
             /\ \A i \in got : ResultType(f[i]) /\ (path => InRoot(f[i]))
             /\ objs' = f /\ fails' = failed
             /\ todo' = IF path \/ ~(call.extra \/ call.rooted) THEN {} ELSE got
             /\ seen' = seen \cup {Saw(i, i, f[i]) : i \in got}
             /\ stage' = "paths"
             /\ UNCHANGED <<call, ids, rels, more, named, outcome, out, log>>
  BY DEF Hydrate, ReadFails, UpstreamErrors, Errors
<1>2. /\ DOMAIN objs' = got /\ fails' = failed
      /\ \A i \in got : ResultType(objs'[i])
      /\ \A i \in got : path => InRoot(objs'[i])
      /\ path \/ ~call.rooted \/ todo' = got
      /\ seen' = seen \cup {Saw(i, i, objs'[i]) : i \in got}
      /\ stage' = "paths"
      /\ UNCHANGED <<call, ids, rels, more, named, outcome, out, log>>
  BY <1>1
<1>3. /\ stage = "hydrate" /\ call.tool \in Searches \cup {"folder", "many", "many_ref"}
      /\ call.plan = "deterministic" => failed = {}
      /\ got \cup failed = ids /\ got \cap failed = {}
  BY <1>1 DEF Hydrate, ValidBatch, IInv, CallTold, ToolsAt
<1>4. CallTold' /\ StartTold' /\ RefTold' /\ OneTold' /\ RevisionsTold' /\ DiscoveryTold' /\ RelationsTold'
  BY <1>2, <1>3 DEF IInv, CallTold, ToolsAt, StartTold, RefTold, OneTold, RevisionsTold, DiscoveryTold, RelationsTold
<1>5. PageTold'
  <2>1. /\ ids' \subseteq Cabinet
        /\ call'.tool \in {"many", "many_ref"} => ids' = call'.asked
    BY <1>2, <1>3 DEF IInv, PageTold
  <2>2. ASSUME NEW i \in got
        PROVE  /\ ResultType(objs[i])'
               /\ Saw(i, i, objs[i])' \in seen'
               /\ call'.rooted /\ i \notin todo' => \E s \in seen' : s.id = i /\ s.class = objs'[i].class /\ s.root
    <3>1. PICK s : s = Saw(i, i, objs'[i])
      OBVIOUS
    <3>2. s \in seen' /\ s.id = i /\ s.class = objs'[i].class /\ s.root = objs'[i].root
      BY <1>2, <3>1 DEF Saw
    <3>3. call.rooted /\ i \notin todo' => s.root
      BY <1>2, <3>2 DEF InRoot
    <3>4. ResultType(objs[i])'
      BY <1>2 DEF ResultType, NavigationType, AllowedType
    <3> QED BY <1>2, <3>1, <3>2, <3>3, <3>4
  <2> QED BY <1>2, <1>3, <2>1, <2>2 DEF PageTold
<1>6. AuditTold' /\ AnswerTold'
  BY <1>2, <1>3 DEF IInv, AuditTold, AnswerTold
<1> QED BY <1>4, <1>5, <1>6 DEF IInv

LEMMA AttachPathKeeps == ASSUME IInv, AttachPath PROVE IInv'
<1>. SUFFICES ASSUME \A c \in Errors : ~Throw(c) PROVE IInv'
  BY ThrowKeeps DEF AttachPath
<1>1. PICK i \in todo, f \in Fact(TRUE, FALSE) :
        /\ f.class = objs[i].class /\ InRoot(f)
        /\ todo' = todo \ {i} /\ seen' = seen \cup {Saw(i, i, f)}
        /\ UNCHANGED <<call, stage, ids, objs, fails, rels, more, named, outcome, out, log>>
  BY DEF AttachPath, ReadFails, UpstreamErrors, Errors
<1>2. stage = "paths" /\ call.tool \in Searches \cup {"folder", "many", "many_ref"}
  BY DEF AttachPath, IInv, CallTold, ToolsAt
<1>3. CallTold' /\ StartTold' /\ RefTold' /\ OneTold' /\ RevisionsTold' /\ DiscoveryTold' /\ RelationsTold'
  BY <1>1, <1>2 DEF IInv, CallTold, ToolsAt, StartTold, RefTold, OneTold, RevisionsTold, DiscoveryTold, RelationsTold
<1>4. PageTold'
  <2>1. PICK s : s = Saw(i, i, f)
    OBVIOUS
  <2>2. s \in seen' /\ s.id = i /\ s.class = objs[i].class /\ s.root = f.root
    BY <1>1, <2>1 DEF Saw
  <2>3. call.rooted => s.root
    BY <1>1, <2>2 DEF InRoot
  <2>4. \A k \in DOMAIN objs :
          /\ ResultType(objs[k])
          /\ Saw(k, k, objs[k]) \in seen'
          /\ call.rooted /\ k \notin todo' => \E t \in seen' : t.id = k /\ t.class = objs[k].class /\ t.root
    BY <1>1, <1>2, <2>2, <2>3 DEF IInv, PageTold
  <2>5. \A k \in DOMAIN objs : ResultType(objs[k])' /\ Saw(k, k, objs[k])' = Saw(k, k, objs[k])
    BY <1>1, <2>4 DEF ResultType, NavigationType, AllowedType, Saw
  <2> QED BY <1>1, <1>2, <2>4, <2>5 DEF IInv, PageTold
<1>5. AuditTold' /\ AnswerTold'
  BY <1>1, <1>2 DEF IInv, AuditTold, AnswerTold
<1> QED BY <1>3, <1>4, <1>5 DEF IInv

\* A page whose paths are there and whose objects satisfy the search proves its answer.
LEMMA PageProven ==
  ASSUME IInv, stage \in {"paths", "issue"}, todo = {}, \A i \in DOMAIN objs : Satisfies(objs[i])
  PROVE  \A i \in DOMAIN objs : ProvenAt(i, ShownClass(objs[i]))
<1>1. call.tool \in Searches \cup {"folder", "many", "many_ref"}
  BY DEF IInv, CallTold, ToolsAt
<1>2. TAKE i \in DOMAIN objs
<1>3. /\ i \in Cabinet /\ ResultType(objs[i])
      /\ call.rooted => \E s \in seen : s.id = i /\ s.class = objs[i].class /\ s.root
  BY DEF IInv, PageTold
<1>4. PICK s \in seen : s.id = i /\ s.class = objs[i].class /\ s.match = objs[i].match
  BY DEF IInv, PageTold, Saw
<1>5. ShownClass(objs[i]) \in Allowed
  BY <1>1, <1>3 DEF ShownClass, ResultType, NavigationType, AllowedType
<1>6. objs[i].class \in {ShownClass(objs[i])}
        \cup (IF call.tool = "folder" /\ ShownClass(objs[i]) = "folder" THEN {"drawer"} ELSE {})
  BY DEF ShownClass
<1>7. call.plan = "deterministic" => s.match = "match"
  BY <1>4 DEF Satisfies
<1> QED BY <1>1, <1>3, <1>4, <1>5, <1>6, <1>7 DEF ProvenAt

LEMMA OutcomeIs ==
  /\ (SearchOutcome = "matches") <=> (DOMAIN objs # {})
  /\ (SearchOutcome = "hydration_failure") <=> (DOMAIN objs = {} /\ fails # {})
BY DEF SearchOutcome

\* A step to the answer of a page.
LEMMA ReturnPageKeeps ==
  ASSUME IInv, stage \in {"paths", "issue"}, NEW docs, DOMAIN docs = DOMAIN objs,
         (docs = <<>>) <=> (DOMAIN objs = {}),
         Return(docs, fails), UNCHANGED <<call, work, seen, log>>,
         \A i \in DOMAIN docs : ProvenAt(i, docs[i]),
         call.tool = "many_ref" => /\ fails = {}
                                   /\ \A i \in ids : objs[i].class = call.handle[i] /\ Satisfies(objs[i]),
         call.tool \in {"search", "folder", "many"} => named' = DOMAIN objs,
         call.tool \notin {"search", "folder", "many"} => named' = named,
         call.tool = "search" => outcome' = SearchOutcome,
         call.tool # "search" => outcome' = outcome
  PROVE  IInv'
<1>1. /\ stage' = "finally" /\ out' = [code |-> "OK", docs |-> docs, failed |-> fails]
      /\ UNCHANGED <<ids, todo, objs, fails, rels, more>>
  BY DEF Return, work
<1>2. call.tool \in Searches \cup {"folder", "many", "many_ref"}
  BY DEF IInv, CallTold, ToolsAt
<1>3. CallTold' /\ StartTold' /\ RefTold' /\ OneTold' /\ RevisionsTold' /\ DiscoveryTold' /\ PageTold' /\ RelationsTold'
  BY <1>1 DEF IInv, CallTold, StartTold, RefTold, OneTold, RevisionsTold, DiscoveryTold, PageTold, RelationsTold
<1>4. AuditTold'
  <2>1. call.tool = "search" =>
          /\ (outcome' = "matches") <=> (docs # <<>>)
          /\ (outcome' = "hydration_failure") <=> (docs = <<>> /\ fails # {})
    BY OutcomeIs, Zenon
  <2>2. /\ call.tool # "search" => outcome' = "none"
        /\ call.tool \in ByRef \cup {"replay", "continue"} => named' = {}
        /\ call.tool \in {"search", "folder", "many"} => named' = DOMAIN docs
        /\ log' = <<>> /\ call.tool # "get"
    BY <1>2 DEF IInv, AuditTold
  <2> QED BY <1>1, <2>1, <2>2 DEF AuditTold
<1>5. AnswerTold'
  <2>1. \A i \in DOMAIN docs : ProvenAt(i, docs[i])'
    BY DEF ProvenAt
  <2>2. /\ DOMAIN objs \cup fails = ids /\ DOMAIN objs \cap fails = {}
        /\ call.plan = "deterministic" => fails = {}
        /\ call.tool \in {"many", "many_ref"} => ids = call.asked
    BY DEF IInv, PageTold
  <2>3. ASSUME call.tool = "many_ref", NEW i \in call.asked
        PROVE  \E s \in seen :
                 s.id = i /\ s.class = call.handle[i] /\ (call.plan = "deterministic" => s.match = "match")
    <3>1. i \in DOMAIN objs /\ objs[i].class = call.handle[i] /\ Satisfies(objs[i])
      BY <2>2, <2>3
    <3>2. PICK s \in seen : s.id = i /\ s.class = objs[i].class /\ s.match = objs[i].match
      BY <3>1 DEF IInv, PageTold, Saw
    <3> QED BY <3>1, <3>2 DEF Satisfies
  <2> QED BY <1>1, <1>2, <2>1, <2>2, <2>3 DEF AnswerTold
<1> QED BY <1>3, <1>4, <1>5 DEF IInv

LEMMA AssembleKeeps == ASSUME IInv, Assemble PROVE IInv'
<1>. SUFFICES ASSUME \A c \in Errors : ~Throw(c), \A o \in SearchErrors : ~ThrowOutcome(o) PROVE IInv'
  BY ThrowKeeps, ThrowOutcomeKeeps DEF Assemble
<1>1. /\ stage = "paths" /\ todo = {}
      /\ \A i \in DOMAIN objs : Satisfies(objs[i])
      /\ call.tool = "many_ref" => fails = {} /\ \A i \in ids : objs[i].class = call.handle[i]
      /\ named' = IF call.tool \in {"search", "folder", "many"} THEN DOMAIN objs ELSE named
      /\ outcome' = IF call.tool = "search" THEN SearchOutcome ELSE outcome
      /\ IF call.tool \in Searches /\ (call.tool # "search" \/ call.contract # "legacy")
         THEN stage' = "issue" /\ UNCHANGED out
         ELSE Return([i \in DOMAIN objs |-> ShownClass(objs[i])], fails)
      /\ UNCHANGED <<call, work, seen, log>>
  BY DEF Assemble, SearchErrors, Errors
<1>2. UNCHANGED <<ids, todo, objs, fails, rels, more>>
  BY <1>1 DEF work
<1>3. CASE stage' = "issue" /\ UNCHANGED out /\ call.tool \in Searches
  <2>1. CallTold' /\ StartTold' /\ RefTold' /\ OneTold' /\ RevisionsTold' /\ DiscoveryTold' /\ RelationsTold'
    BY <1>1, <1>2, <1>3 DEF IInv, CallTold, ToolsAt, StartTold, RefTold, OneTold, RevisionsTold,
       DiscoveryTold, RelationsTold
  <2>2. \A i \in DOMAIN objs : /\ ResultType(objs[i])' = ResultType(objs[i])
                               /\ Satisfies(objs[i])' = Satisfies(objs[i])
                               /\ Saw(i, i, objs[i])' = Saw(i, i, objs[i])
    BY <1>1, <1>2 DEF ResultType, NavigationType, AllowedType, Satisfies, Saw
  <2>3. PageTold'
    BY <1>1, <1>2, <1>3, <2>2 DEF IInv, PageTold
  <2>4. AuditTold' /\ AnswerTold'
    BY <1>1, <1>2, <1>3 DEF IInv, AuditTold, AnswerTold, SearchOutcome
  <2> QED BY <2>1, <2>3, <2>4 DEF IInv
<1>4. CASE Return([i \in DOMAIN objs |-> ShownClass(objs[i])], fails)
  <2>1. PICK docs : docs = [i \in DOMAIN objs |-> ShownClass(objs[i])]
    OBVIOUS
  <2>2. DOMAIN docs = DOMAIN objs /\ \A i \in DOMAIN objs : docs[i] = ShownClass(objs[i])
    BY <2>1
  <2>3. (docs = <<>>) <=> (DOMAIN objs = {})
    BY <2>1, EmptyAnswer
  <2>4. call.tool = "many_ref" => ids = DOMAIN objs \cup fails
    BY <1>1 DEF IInv, PageTold
  <2>5. Return(docs, fails) /\ \A i \in DOMAIN docs : ProvenAt(i, docs[i])
    BY <1>1, <1>4, <2>1, <2>2, PageProven
  <2> QED BY <1>1, <2>2, <2>3, <2>4, <2>5, ReturnPageKeeps
<1> QED BY <1>1, <1>3, <1>4

LEMMA IssueKeeps == ASSUME IInv, Issue PROVE IInv'
<1>. SUFFICES ASSUME \A c \in Errors : ~Throw(c) PROVE IInv'
  BY ThrowKeeps DEF Issue
<1>1. stage = "issue" /\ Return(ClassesOf(objs), fails) /\ UNCHANGED <<call, work, named, outcome, seen, log>>
  BY DEF Issue, Errors
<1>2. /\ call.tool \in Searches /\ todo = {} /\ \A i \in DOMAIN objs : Satisfies(objs[i])
      /\ call.tool = "search" => named = DOMAIN objs /\ outcome = SearchOutcome
  BY <1>1 DEF IInv, CallTold, ToolsAt, PageTold, AuditTold
<1>3. PICK docs : docs = ClassesOf(objs)
  OBVIOUS
<1>4. DOMAIN docs = DOMAIN objs /\ \A i \in DOMAIN objs : docs[i] = ShownClass(objs[i])
  BY <1>2, <1>3 DEF ClassesOf, ShownClass
<1>5. (docs = <<>>) <=> (DOMAIN objs = {})
  BY <1>3, EmptyAnswer DEF ClassesOf
<1>6. \A i \in DOMAIN docs : ProvenAt(i, docs[i])
  BY <1>1, <1>2, <1>4, PageProven
<1> QED BY <1>1, <1>2, <1>3, <1>4, <1>5, <1>6, ReturnPageKeeps
-----------------------------------------------------------------------------
(* Incoming relationships. *)

LEMMA CandidatesKeeps == ASSUME IInv, Candidates PROVE IInv'
<1>. SUFFICES ASSUME \A c \in Errors : ~Throw(c) PROVE IInv'
  BY ThrowKeeps DEF Candidates
<1>1. /\ stage = "candidates" /\ ids' \subseteq Cabinet /\ todo' = ids' /\ objs' = <<>>
      /\ stage' = "relationships"
      /\ UNCHANGED <<call, fails, rels, more, named, outcome, seen, out, log>>
  BY DEF Candidates, ReadFails, UpstreamErrors, Errors
<1>2. call.tool = "hard" /\ rels = {}
  BY <1>1 DEF IInv, CallTold, ToolsAt, StartTold
<1>3. CallTold' /\ StartTold' /\ RefTold' /\ OneTold' /\ RevisionsTold' /\ DiscoveryTold' /\ PageTold'
  BY <1>1, <1>2 DEF IInv, CallTold, ToolsAt, StartTold, RefTold, OneTold, RevisionsTold, DiscoveryTold, PageTold
<1>4. RelationsTold'
  BY <1>1, <1>2 DEF IInv, StartTold, RelationsTold
<1>5. AuditTold' /\ AnswerTold'
  BY <1>1, <1>2 DEF IInv, AuditTold, AnswerTold
<1> QED BY <1>3, <1>4, <1>5 DEF IInv

\* Among the relationships, only what is known of them changes.
LEMMA RelationshipStep ==
  ASSUME IInv, stage = "relationships", UNCHANGED <<call, stage, ids, more, named, outcome, out, log>>
  PROVE  /\ call.tool = "hard"
         /\ CallTold' /\ StartTold' /\ RefTold' /\ OneTold' /\ RevisionsTold' /\ DiscoveryTold'
         /\ PageTold' /\ AuditTold' /\ AnswerTold'
<1>1. call.tool = "hard"
  BY DEF IInv, CallTold, ToolsAt
<1>2. CallTold' /\ StartTold' /\ RefTold' /\ OneTold' /\ RevisionsTold' /\ DiscoveryTold' /\ PageTold'
  BY <1>1 DEF IInv, CallTold, ToolsAt, StartTold, RefTold, OneTold, RevisionsTold, DiscoveryTold, PageTold
<1>3. AuditTold' /\ AnswerTold'
  BY <1>1 DEF IInv, AuditTold, AnswerTold
<1> QED BY <1>1, <1>2, <1>3

LEMMA LoadChunkKeeps == ASSUME IInv, LoadChunk PROVE IInv'
<1>. SUFFICES ASSUME \A c \in Errors : ~Throw(c) PROVE IInv'
  BY ThrowKeeps DEF LoadChunk
<1>1. PICK chunk \in SUBSET todo, got \in SUBSET Ids, failed \in SUBSET Ids :
        /\ ValidBatch(chunk, got, failed)
        /\ \E f \in [got -> Fact(FALSE, FALSE)] :
             /\ objs' = f /\ todo' = todo \ chunk
             /\ fails' = fails \cup failed
             /\ seen' = seen \cup {Saw(i, i, f[i]) : i \in got}
             /\ UNCHANGED <<call, stage, ids, rels, more, named, outcome, out, log>>
  BY DEF LoadChunk, ReadFails, UpstreamErrors, Errors
<1>2. PICK f \in [got -> Fact(FALSE, FALSE)] :
             /\ objs' = f /\ todo' = todo \ chunk
             /\ fails' = fails \cup failed
             /\ seen' = seen \cup {Saw(i, i, f[i]) : i \in got}
             /\ UNCHANGED <<call, stage, ids, rels, more, named, outcome, out, log>>
  BY <1>1
<1>3. stage = "relationships" /\ DOMAIN objs = {} /\ got \cup failed = chunk /\ DOMAIN objs' = got
  BY <1>1, <1>2 DEF LoadChunk, ValidBatch
<1>4. RelationsTold'
  <2>1. \A i \in got : ~Saw(i, i, f[i]).root
    <3>1. TAKE i \in got
    <3>2. f[i] \in Fact(FALSE, FALSE)
      BY <1>2
    <3>3. f[i].root \in {FALSE}
      BY <3>2 DEF Fact
    <3>4. Saw(i, i, f[i]).root = f[i].root
      BY DEF Saw
    <3> QED BY <3>3, <3>4
  <2>2. \A s \in seen' : s.root => s \in seen
    BY <1>2, <2>1
  <2>3. /\ ids' = ids /\ ids \subseteq Cabinet /\ todo' \subseteq ids /\ DOMAIN objs' \subseteq ids
        /\ rels' = rels /\ rels \subseteq ids
        /\ DOMAIN objs' \cap todo' = {} /\ rels \cap (todo' \cup DOMAIN objs') = {}
    BY <1>2, <1>3 DEF IInv, RelationsTold
  <2>4. \A i \in rels : \E s \in seen' : s.id = i /\ s.class = "hardReference" /\ (call.rooted => s.root)
    BY <1>2, <1>3 DEF IInv, RelationsTold, InRoot
  <2>5. \A i \in ids \ (rels \cup fails') : i \in todo' \cup DOMAIN objs' \/ call.rooted
    BY <1>2, <1>3 DEF IInv, RelationsTold
  <2>6. \A i \in ids \ (rels \cup fails') :
          i \notin call.asked => ~ \E s \in seen' : s.id = i /\ s.class = "hardReference" /\ s.root
    BY <1>2, <1>3, <2>2 DEF IInv, RelationsTold
  <2> QED BY <1>2, <2>3, <2>4, <2>5, <2>6 DEF RelationsTold, InRoot
<1> QED BY <1>2, <1>3, <1>4, RelationshipStep DEF IInv

LEMMA ProvePathKeeps == ASSUME IInv, ProvePath PROVE IInv'
<1>. SUFFICES ASSUME \A c \in Errors : ~Throw(c) PROVE IInv'
  BY ThrowKeeps DEF ProvePath
<1>1. PICK i \in DOMAIN objs :
        /\ objs' = [k \in DOMAIN objs \ {i} |-> objs[k]]
        /\ UNCHANGED <<call, stage, ids, todo, more, named, outcome, out, log>>
        /\ \/ fails' = fails \cup {i} /\ UNCHANGED <<rels, seen>>
           \/ \E f \in Fact(TRUE, FALSE), cabinet \in BOOLEAN :
                /\ f.class = "hardReference"
                /\ rels' = IF cabinet /\ InRoot(f) THEN rels \cup {i} ELSE rels
                /\ fails' = IF cabinet THEN fails ELSE fails \cup {i}
                /\ seen' = seen \cup {Saw(i, i, f)}
  BY DEF ProvePath, ReadFails, UpstreamErrors, Errors
<1>2. stage = "relationships" /\ DOMAIN objs' = DOMAIN objs \ {i}
  BY <1>1 DEF ProvePath
<1>3. CASE fails' = fails \cup {i} /\ UNCHANGED <<rels, seen>>
  BY <1>1, <1>2, <1>3, RelationshipStep DEF IInv, RelationsTold, InRoot
<1>4. CASE \E f \in Fact(TRUE, FALSE), cabinet \in BOOLEAN :
                /\ f.class = "hardReference"
                /\ rels' = IF cabinet /\ InRoot(f) THEN rels \cup {i} ELSE rels
                /\ fails' = IF cabinet THEN fails ELSE fails \cup {i}
                /\ seen' = seen \cup {Saw(i, i, f)}
  <2>1. PICK f \in Fact(TRUE, FALSE), cabinet \in BOOLEAN :
                /\ f.class = "hardReference"
                /\ rels' = IF cabinet /\ InRoot(f) THEN rels \cup {i} ELSE rels
                /\ fails' = IF cabinet THEN fails ELSE fails \cup {i}
                /\ seen' = seen \cup {Saw(i, i, f)}
    BY <1>4
  <2>2. PICK s : s = Saw(i, i, f)
    OBVIOUS
  <2>3. s.id = i /\ s.class = "hardReference" /\ s.root = f.root /\ seen' = seen \cup {s}
    BY <2>1, <2>2 DEF Saw
  \* Either it is authorized, or it is not available, or it was shown to lie outside of the root.
  <2>4. \/ rels' = rels \cup {i} /\ fails' = fails /\ (call.rooted => s.root)
        \/ rels' = rels /\ fails' = fails \cup {i}
        \/ rels' = rels /\ fails' = fails /\ call.rooted /\ ~s.root
    BY <2>1, <2>3 DEF InRoot
  <2>5. /\ ids' = ids /\ ids \subseteq Cabinet /\ todo' \subseteq ids /\ DOMAIN objs' \subseteq ids
        /\ rels' \subseteq ids
        /\ DOMAIN objs' \cap todo' = {} /\ rels' \cap (todo' \cup DOMAIN objs') = {}
    BY <1>1, <1>2, <2>4 DEF IInv, RelationsTold
  <2>6. \A k \in rels' : \E t \in seen' : t.id = k /\ t.class = "hardReference" /\ (call.rooted => t.root)
    BY <1>1, <1>2, <2>3, <2>4 DEF IInv, RelationsTold, InRoot
  <2>7. \A k \in ids \ (rels' \cup fails') : k \in todo' \cup DOMAIN objs' \/ call.rooted
    BY <1>1, <1>2, <2>4 DEF IInv, RelationsTold
  <2>8. \A k \in ids \ (rels' \cup fails') :
          k \notin call.asked => ~ \E t \in seen' : t.id = k /\ t.class = "hardReference" /\ t.root
    BY <1>1, <1>2, <2>3, <2>4 DEF IInv, RelationsTold
  <2>9. RelationsTold'
    BY <1>1, <2>5, <2>6, <2>7, <2>8 DEF RelationsTold, InRoot
  <2> QED BY <1>1, <1>2, <2>9, RelationshipStep DEF IInv
<1> QED BY <1>1, <1>3, <1>4

LEMMA AnswerRelationshipsKeeps == ASSUME IInv, AnswerRelationships PROVE IInv'
<1>. SUFFICES ASSUME \A c \in Errors : ~Throw(c) PROVE IInv'
  BY ThrowKeeps DEF AnswerRelationships, Errors
<1>1. PICK page \in SUBSET rels :
        /\ page = rels \/ more'
        /\ Return([i \in page |-> "hardReference"], {})
        /\ UNCHANGED <<call, ids, todo, objs, fails, rels, named, outcome, seen, log>>
  <2>1. PICK page \in SUBSET rels :
          /\ IF call.retained \/ Cardinality(rels) <= PageMax THEN page = rels
             ELSE Cardinality(page) = PageMax
          /\ more' = IF call.retained THEN more ELSE page # rels
          /\ Return([i \in page |-> "hardReference"], {})
          /\ UNCHANGED <<call, ids, todo, objs, fails, rels, named, outcome, seen, log>>
    BY DEF AnswerRelationships, Errors
  <2>2. page = rels \/ more'
    BY <2>1
  <2> QED BY <2>1, <2>2
<1>2. stage = "relationships" /\ todo = {} /\ DOMAIN objs = {} /\ call.tool = "hard" /\ call.plan = "none"
  BY DEF AnswerRelationships, IInv, CallTold, CallGiven, ToolsAt
<1>3. PICK docs : docs = [i \in page |-> "hardReference"]
  OBVIOUS
<1>4. /\ stage' = "finally" /\ out' = [code |-> "OK", docs |-> docs, failed |-> {}]
      /\ DOMAIN docs = page /\ \A i \in page : docs[i] = "hardReference"
  BY <1>1, <1>3 DEF Return
<1>5. CallTold' /\ StartTold' /\ RefTold' /\ OneTold' /\ RevisionsTold' /\ DiscoveryTold' /\ PageTold' /\ RelationsTold'
  BY <1>1, <1>2, <1>4 DEF IInv, CallTold, StartTold, RefTold, OneTold, RevisionsTold, DiscoveryTold, PageTold, RelationsTold
<1>6. AuditTold'
  BY <1>1, <1>2, <1>4 DEF IInv, AuditTold
<1>7. AnswerTold'
  <2>1. \A i \in page : ProvenAt(i, "hardReference")
    BY <1>1, <1>2 DEF IInv, RelationsTold, ProvenAt, InRoot
  <2>2. \A i \in page : ProvenAt(i, docs[i])'
    BY <1>1, <1>4, <2>1 DEF ProvenAt
  <2>3. \A i \in ids \ (rels \cup fails) :
          /\ call.rooted
          /\ i \notin call.asked => ~ \E s \in seen : s.id = i /\ s.class = "hardReference" /\ s.root
    BY <1>2 DEF IInv, RelationsTold
  <2> QED BY <1>1, <1>2, <1>4, <2>2, <2>3 DEF AnswerTold
<1> QED BY <1>5, <1>6, <1>7 DEF IInv

-----------------------------------------------------------------------------
(* The theorems. *)

LEMMA InitHolds == Init => IInv
<1> SUFFICES ASSUME Init PROVE IInv
  OBVIOUS
<1>1. CallTold /\ StartTold /\ RefTold /\ OneTold /\ RevisionsTold /\ DiscoveryTold /\ PageTold /\ RelationsTold
  BY DEF Init, CallTold, StartTold, RefTold, OneTold, RevisionsTold, DiscoveryTold, PageTold, RelationsTold
<1>2. AuditTold /\ AnswerTold
  BY DEF Init, AuditTold, AnswerTold
<1> QED BY <1>1, <1>2 DEF IInv

LEMMA StutterKeeps == ASSUME IInv, UNCHANGED vars PROVE IInv'
<1>1. UNCHANGED <<call, stage, ids, todo, objs, fails, rels, more, named, outcome, seen, out, log>>
  BY DEF vars, work
<1>2. CallTold' /\ StartTold' /\ RefTold' /\ OneTold' /\ RevisionsTold'
  BY <1>1 DEF IInv, CallTold, CallGiven, ToolsAt, StartTold, RefTold, RefShown, OneTold, RevisionsTold
<1>3. DiscoveryTold' /\ RelationsTold'
  BY <1>1 DEF IInv, DiscoveryTold, RelationsTold, Hard, InRoot
<1>4. PageTold'
  <2>1. \A i \in DOMAIN objs : /\ ResultType(objs[i])' = ResultType(objs[i])
                               /\ Satisfies(objs[i])' = Satisfies(objs[i])
                               /\ Saw(i, i, objs[i])' = Saw(i, i, objs[i])
    BY <1>1 DEF ResultType, NavigationType, AllowedType, Satisfies, Saw
  <2> QED BY <1>1, <2>1 DEF IInv, PageTold
<1>5. AuditTold'
  BY <1>1 DEF IInv, AuditTold, SearchOutcome
<1>6. AnswerTold'
  <2>1. \A i \in DOMAIN out.docs : ProvenAt(i, out.docs[i])' = ProvenAt(i, out.docs[i])
    BY <1>1 DEF ProvenAt
  <2> QED BY <1>1, <2>1 DEF IInv, AnswerTold
<1> QED BY <1>2, <1>3, <1>4, <1>5, <1>6 DEF IInv

\* What the reads of a call have shown is told at every stage of it.
THEOREM Invariance == Spec => []IInv
<1>1. IInv /\ [Next]_vars => IInv'
  <2> SUFFICES ASSUME IInv, [Next]_vars PROVE IInv'
    OBVIOUS
  <2>1. CASE Next
    BY <2>1, BeginKeeps, AuditKeeps, LeaveKeeps, ReadOneKeeps, AnswerOneKeeps, ContentKeeps, IntegrityKeeps,
       RevisionsKeeps, RevisionScopeKeeps, AnswerRevisionsKeeps, ListKeeps, ClassifyChunkKeeps, SinglesKeeps,
       ClassifyOneKeeps, ScreenKeeps, ProveHiddenKeeps, FirstPageKeeps, RetainedPageKeeps, HydrateKeeps,
       AttachPathKeeps, AssembleKeeps, IssueKeeps, CandidatesKeeps, LoadChunkKeeps, ProvePathKeeps,
       AnswerRelationshipsKeeps DEF Next
  <2>2. CASE UNCHANGED vars
    BY <2>2, StutterKeeps
  <2> QED BY <2>1, <2>2
<1> QED BY <1>1, InitHolds, PTL DEF Spec

\* Whatever an answer contains, a read of this very call has shown to be allowed, placed and verified
\* (assertObjectScope, assertRootScope and attachRawPaths of tools.ts).
THEOREM AnswerIsProven == Spec => []AnswersProven
<1>1. IInv => AnswersProven
  BY DEF IInv, AnswerTold, AnswersProven, Answered
<1> QED BY <1>1, Invariance, PTL

\* The ids of a page and of a batch are answered or reported as failed, once, and no relationship is
\* left out that a read has shown to be the client's (hydrateSearchPage and
\* loadAuthorizedHardReferenceObjects of tools.ts).
THEOREM AnswerIsComplete == Spec => []NothingLost
<1>1. IInv => NothingLost
  BY DEF IInv, AnswerTold, NothingLost, Answered
<1> QED BY <1>1, Invariance, PTL

\* A call leaves one audit record, and the record tells what was answered (the finally of
\* ToolRegistry.call).
THEOREM AuditIsTrue == Spec => []AuditTells
<1>1. IInv => AuditTells
  <2> SUFFICES ASSUME IInv, stage = "done", out.code # "REFUSED" PROVE AuditTells
    BY DEF AuditTells, IInv, AuditTold
  <2>1. PICK r : r = [code    |-> out.code,
                      objects |-> IF call.tool = "search" /\ call.contract = "v2" THEN {} ELSE named,
                      outcome |-> outcome]
    OBVIOUS
  <2>2. log = <<r>>
    BY <2>1 DEF IInv, AuditTold
  <2>3. Len(log) = 1 /\ log[1] = r
    BY <2>2
  <2>4. call.contract = "v2" => call.tool = "search"
    BY DEF IInv, CallTold, CallGiven
  <2>5. /\ r.code = out.code /\ r.outcome = outcome
        /\ call.contract = "v2" => r.objects = {}
        /\ call.contract # "v2" => r.objects = named
        /\ call.tool # "search" => r.objects = named
    BY <2>1, <2>4
  <2> QED BY <2>3, <2>4, <2>5 DEF AuditTells, Answered, IInv, AuditTold
<1> QED BY <1>1, Invariance, PTL

\* What discovery leaves out of a list it has shown to be a relationship of the scope, and it pages
\* nothing it has shown to be one (filterDiscoveryIds of tools.ts).
THEOREM DiscoveryIsExact == Spec => DiscoveryAccounted
<1> DEFINE Step == stage = "prove" /\ stage' = "hydrate" =>
      LET shown == {s \in seen : s.match # "unseen"} IN
      /\ \A i \in rels : \E s \in shown : s.id = i /\ s.class = "hardReference" /\ InRoot(s)
      /\ \A i \in ids' : ~ \E s \in shown : s.id = i /\ s.class = "hardReference"
      /\ \A i \in ids' : i \in fails \/ \E s \in shown : s.id = i
      /\ fails # {} => rels = {}
      /\ ids' \cup rels = ids \/ more'
<1>1. IInv /\ [Next]_vars => [Step]_vars
  <2> SUFFICES ASSUME IInv, Next, stage = "prove", stage' = "hydrate" PROVE Step
    OBVIOUS
  <2>1. FirstPage
    BY DEF Next, Begin, Audit, Leave, ReadOne, AnswerOne, Content, Integrity, Revisions, RevisionScope,
       AnswerRevisions, List, ClassifyChunk, Singles, ClassifyOne, Screen, ProveHidden, RetainedPage, Hydrate,
       AttachPath, Assemble, Issue, Candidates, LoadChunk, ProvePath, AnswerRelationships, ReadFails, Throw
  <2>2. todo = {} /\ ids' \subseteq ids \ rels /\ (ids' = ids \ rels \/ more')
    BY <2>1 DEF FirstPage, Throw
  <2>3. /\ ids = DOMAIN objs \cup fails /\ Hard = rels
        /\ fails # {} => Hard = {}
        /\ \A i \in rels : \E s \in {t \in seen : t.match # "unseen"} :
             s.id = i /\ s.class = "hardReference" /\ InRoot(s)
        /\ \A i \in DOMAIN objs : \E s \in {t \in seen : t.match # "unseen"} : s.id = i
        /\ \A s \in {t \in seen : t.match # "unseen"} : s.class = "hardReference" => s.id \in Hard
    BY <2>2 DEF IInv, DiscoveryTold
  <2>4. rels \subseteq ids
    BY <2>3 DEF Hard
  <2> QED BY <2>2, <2>3, <2>4
<1> QED BY <1>1, Invariance, PTL DEF Spec, DiscoveryAccounted
=============================================================================
