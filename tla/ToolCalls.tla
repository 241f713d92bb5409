------------------------------ MODULE ToolCalls ------------------------------
(***************************************************************************)
(* One tool call of the gateway, from its arguments to its answer          *)
(* (ToolRegistry in src/mcp/tools.ts).                                     *)
(*                                                                         *)
(* A call is a chain of upstream reads; whatever runs between two awaits   *)
(* is one step.  Each read has its own answer, and the repository may      *)
(* change between two of them: an object seen as a document may be a       *)
(* relationship, or moved out of the root, at the next read.  A read may   *)
(* fail, answer for another object, or, when it asks for several, answer   *)
(* for some twice and for others not at all.  What a read has shown is     *)
(* kept in seen, so that the answer can be compared with it.               *)
(*                                                                         *)
(* The ids of a listing are a set: the order of a page says nothing here.  *)
(* Snapshots, handles and cached texts have modules of their own; a call   *)
(* that continues a list finds any ids of the cabinet on its page, and a   *)
(* call by reference any object its handle may have been issued for.       *)
(***************************************************************************)
EXTENDS Naturals, FiniteSets, Sequences

CONSTANTS
  Ids,        \* the objects that arguments and answers may name
  Cabinet,    \* those whose id is within the cabinet of the scope
  Allowed,    \* the object types of the scope
  BatchMax,   \* ids of one classifying read
  PageMax     \* ids of one page

Classes == {"document", "folder", "drawer", "hardReference"}

\* What verifying the attributes of an object against a search finds.
Matches == {"match", "mismatch", "unreadable", "unread"}

\* ScopeRegistry takes any names for the allowed types, and config.ts positive limits.
ASSUME ScopeAssumption ==
  /\ Cabinet \subseteq Ids
  /\ Allowed \subseteq Classes
  /\ {BatchMax, PageMax} \subseteq Nat \ {0}

Errors == {"INVALID_ARGUMENT", "FORBIDDEN", "NOT_AVAILABLE", "LIMIT_EXCEEDED", "UPSTREAM_ERROR"}

\* "INVALID_ARGUMENT" and "FORBIDDEN" come from upstream too.
UpstreamErrors == {"INVALID_ARGUMENT", "FORBIDDEN", "NOT_AVAILABLE", "UPSTREAM_ERROR"}

VARIABLES
  call,     \* what is asked, and of which scope
  stage,    \* what the call waits for
  ids,      \* the ids it has to account for
  todo,     \* those the current loop has left
  objs,     \* id -> what was read of it, as far as the answer is built from it
  fails,    \* ids that upstream could not deliver
  rels,     \* relationships: found and hidden by discovery, or authorized for the answer
  more,     \* the page has a continuation
  named,    \* objectIds of the audit record
  outcome,  \* search_outcome of the audit record
  seen,     \* what the reads of this call have shown
  out,      \* the answer, or the error
  log       \* the audit records of this call

work == <<ids, todo, objs, fails, rels, more>>
vars == <<call, stage, work, named, outcome, seen, out, log>>

-----------------------------------------------------------------------------
(* Calls.  Several tools differ in their arguments alone. *)

Searches == {"search", "replay", "continue"}
ByRef    == {"get_ref", "many_ref", "revisions_ref", "info_ref", "read_ref"}
Contents == {"info", "read", "info_ref", "read_ref"}
OneId    == {"hard", "integrity", "get", "revisions", "info", "read"} \cup (ByRef \ {"many_ref"})

\* asked: the ids the arguments (or the handles) name.  retained: the page comes from an
\* earlier listing.  extra: include_path, include_evidence or a revision number is given.
\* contract: how results are named.  plan: what a search, or the search a handle comes
\* from, lets the gateway verify.  handle: the class each handle was issued for.
\* rooted, resolve: the scope has a root object; it resolves references.
Calls ==
  LET Handles(A) == IF A \subseteq Cabinet THEN [A -> Allowed] ELSE {}
      Make(t, a, r, x, c, p, h, k, v) ==
        [tool |-> t, asked |-> a, retained |-> r, extra |-> x, contract |-> c, plan |-> p,
         handle |-> h, rooted |-> k, resolve |-> v]
      Plans == {"none", "deterministic", "provider"}
  IN {Make("describe", {}, FALSE, FALSE, "legacy", "none", <<>>, FALSE, FALSE)}
     \cup {Make("search", {}, r, x, c, p, <<>>, k, FALSE) :
        r \in BOOLEAN, x \in BOOLEAN, c \in {"legacy", "v1"}, p \in Plans, k \in BOOLEAN}
     \cup {Make("search", {}, FALSE, x, "v2", p, <<>>, k, FALSE) :
        x \in BOOLEAN, p \in Plans, k \in BOOLEAN}
     \cup {Make(t, {}, t = "continue", x, "v1", p, <<>>, k, FALSE) :
        t \in {"replay", "continue"}, x \in BOOLEAN, p \in Plans, k \in BOOLEAN}
     \cup {Make("folder", a, r, x, "legacy", "none", <<>>, k, FALSE) :
        a \in {{}} \cup {{i} : i \in Ids}, r \in BOOLEAN, x \in BOOLEAN, k \in BOOLEAN}
     \cup {Make(t, {i}, r, x, "legacy", "none", <<>>, k, v) :
        t \in OneId \ ByRef, i \in Ids, r \in BOOLEAN, x \in BOOLEAN, k \in BOOLEAN, v \in BOOLEAN}
     \cup {Make("many", a, FALSE, x, "legacy", "none", <<>>, k, FALSE) :
        a \in {s \in SUBSET Ids : Cardinality(s) \in 1..BatchMax}, x \in BOOLEAN, k \in BOOLEAN}
     \cup UNION {{Make(t, a, FALSE, x, "legacy", p, h, k, v) :
        t \in IF \E i \in Ids : a = {i} THEN ByRef ELSE {"many_ref"}, x \in BOOLEAN, p \in Plans,
        h \in Handles(a), k \in BOOLEAN, v \in BOOLEAN} :
          a \in {s \in SUBSET Ids : Cardinality(s) \in 1..BatchMax}}

\* The id a call about one object is about.
Asked == CHOOSE i \in call.asked : TRUE

\* The first thing a call waits for, once its arguments are accepted.
FirstStage(c) ==
  CASE c.tool \in Searches             -> IF c.retained THEN "page" ELSE "list"
    [] c.tool = "folder"               -> IF c.retained THEN "page"
                                          ELSE IF c.asked = {} THEN "list" ELSE "folder_target"
    [] c.tool = "hard"                 -> "hard_target"
    [] c.tool = "integrity"            -> "integrity_target"
    [] c.tool \in {"many", "many_ref"} -> "hydrate"
    [] c.tool = "get"                  -> "get"
    [] c.tool = "revisions"            -> IF c.rooted THEN "scope" ELSE "revisions"
    [] c.tool \in {"info", "read"}     -> "member"
    [] OTHER                           -> "by_ref"

-----------------------------------------------------------------------------
(* What is read of an object, and what the gateway asks of it. *)

\* withPath: the answer shows where the object lies; withValues: and its attributes.
Fact(withPath, withValues) ==
  [class : Classes, root : IF withPath THEN BOOLEAN ELSE {FALSE},
   match : IF withValues THEN Matches \ {"unread"} ELSE {"unread"}]

\* Discovery tells relationships from everything else.
Kind == [class : {"document", "hardReference"}, root : {FALSE}, match : {"unread"}]

Saw(i, j, f) == [asked |-> i, id |-> j, class |-> f.class, root |-> f.root, match |-> f.match]

AllowedType(f)    == f.class \in Allowed
NavigationType(f) == IF f.class = "drawer" THEN "folder" \in Allowed ELSE AllowedType(f)
InRoot(f)         == call.rooted => f.root
Satisfies(f)      == CASE call.plan = "deterministic" -> f.match = "match"
                       [] call.plan = "provider"      -> f.match # "unreadable"
                       [] OTHER                       -> TRUE
ResultType(f)     == IF call.tool = "folder" THEN NavigationType(f) ELSE AllowedType(f)

\* Faulty: a reference is good for its object, whatever that has become.
ByReferenceAnyClass(i, j, f) == j = i /\ AllowedType(f) /\ InRoot(f)

\* The checks on the answer j, f to a read of one object i, by what the read is for.
VerifyScope(i, j, f)     == j \in Cabinet /\ AllowedType(f) /\ InRoot(f)
FolderTarget(i, j, f)    == /\ j = i /\ f.class \in {"drawer", "folder"}
                            /\ NavigationType(f) /\ InRoot(f)
HardTarget(i, j, f)      == j = i /\ AllowedType(f) /\ InRoot(f)
IntegrityTarget(i, j, f) == j = i /\ AllowedType(f) /\ f.class = "document" /\ InRoot(f)
ByReference(i, j, f)     == /\ j = i /\ f.class = call.handle[i]
                            /\ AllowedType(f) /\ InRoot(f) /\ Satisfies(f)
Member(i, j, f)          == VerifyScope(i, j, f) /\ (call.resolve \/ j = i)
Revision(i, j, f)        == VerifyScope(i, j, f) /\ j = i

\* Faulty: an object may be delivered and reported as failed.
CoveringBatch(asked, delivered, failed) == delivered \cup failed = asked

\* The answer to a read of several ids covers each of them once.
ValidBatch(asked, delivered, failed) ==
  /\ delivered \cup failed = asked
  /\ delivered \cap failed = {}

-----------------------------------------------------------------------------
Init ==
  /\ call = [tool |-> "none"] /\ stage = "idle"
  /\ ids = {} /\ todo = {} /\ objs = <<>> /\ fails = {} /\ rels = {} /\ more = FALSE
  /\ named = {} /\ outcome = "none" /\ seen = {}
  /\ out = [code |-> "none", docs |-> <<>>, failed |-> {}] /\ log = <<>>

Forget == ids' = {} /\ todo' = {} /\ objs' = <<>> /\ fails' = {} /\ rels' = {} /\ more' = FALSE

\* Faulty: a search is audited as what it had found before it failed.
ThrowSilently(c) ==
  /\ stage' = "finally" /\ out' = [code |-> c, docs |-> <<>>, failed |-> {}] /\ Forget
  /\ UNCHANGED <<call, named, outcome, seen, log>>

\* catch: an error ends the call.  Which failed searches are audited as the provider's
\* depends on the error and on whether a read was started.
Throw(c) ==
  /\ stage' = "finally" /\ out' = [code |-> c, docs |-> <<>>, failed |-> {}] /\ Forget
  /\ outcome' = IF /\ call.tool = "search" /\ c # "INVALID_ARGUMENT"
                   /\ c # "FORBIDDEN" \/ stage # "page"
                THEN "provider_failure" ELSE outcome
  /\ UNCHANGED <<call, named, seen, log>>

ThrowOutcome(o) ==
  /\ stage' = "finally" /\ out' = [code |-> "UPSTREAM_ERROR", docs |-> <<>>, failed |-> {}] /\ Forget
  /\ outcome' = IF call.tool = "search" THEN o ELSE outcome
  /\ UNCHANGED <<call, named, seen, log>>

\* A read fails: ArcSuiteAdapterError.
ReadFails == \E c \in UpstreamErrors : Throw(c)

\* An answer, built from docs: id -> class.
Return(docs, failed) ==
  stage' = "finally" /\ out' = [code |-> "OK", docs |-> docs, failed |-> failed]

Only(i, f) == [k \in {i} |-> f]
ClassesOf(fs) == [i \in DOMAIN fs |-> fs[i].class]

\* call: a tool the profile does not allow is refused before anything is audited; refused
\* arguments are audited; ids outside of every allowed cabinet prove no scope; a reference may
\* be good for nothing any more, and a search ask for what the gateway does not have.
Begin ==
  /\ stage = "idle"
  /\ call' \in Calls
  /\ UNCHANGED <<todo, objs, fails, rels, more, seen, log>>
  /\ LET proven == call'.asked \subseteq Cabinet
         early  == IF call'.tool = "integrity" /\ proven THEN call'.asked ELSE {}
         End(s, code) == stage' = s /\ out' = [out EXCEPT !.code = code] /\ UNCHANGED ids
     IN \/ End("done", "REFUSED") /\ UNCHANGED <<named, outcome>>
        \/ End("finally", "INVALID_ARGUMENT") /\ UNCHANGED <<named, outcome>>
        \/ call'.tool # "describe" /\ End("finally", "FORBIDDEN") /\ named' = early /\ UNCHANGED outcome
        \/ /\ call'.tool \in Searches \cup ByRef /\ End("finally", "NOT_AVAILABLE")
           /\ outcome' = IF call'.tool = "search" THEN "provider_failure" ELSE outcome
           /\ UNCHANGED named
        \/ call'.tool = "describe" /\ End("finally", "OK") /\ UNCHANGED <<named, outcome>>
        \/ /\ call'.tool # "describe" /\ proven
           /\ stage' = FirstStage(call')
           /\ ids' = IF stage' = "hydrate" THEN call'.asked ELSE {}
           /\ named' = early
           /\ UNCHANGED <<out, outcome>>

\* finally: the record is written before the answer leaves.
Audit ==
  /\ stage = "finally" /\ stage' = "done"
  /\ log' = Append(log, [code    |-> out.code,
                         objects |-> IF call.tool = "search" /\ call.contract = "v2" THEN {} ELSE named,
                         outcome |-> outcome])
  /\ UNCHANGED <<call, work, named, outcome, seen, out>>

\* The client has its answer; another call begins.
Leave ==
  /\ stage = "done" /\ stage' = "idle"
  /\ call' = [tool |-> "none"] /\ Forget
  /\ named' = {} /\ outcome' = "none" /\ seen' = {}
  /\ out' = [code |-> "none", docs |-> <<>>, failed |-> {}] /\ log' = <<>>

-----------------------------------------------------------------------------
(* Calls about one object: a read of it is the authority for what follows. *)

\* What follows a read of one object.
AfterOne ==
  CASE stage = "folder_target"    -> "list"
    [] stage = "hard_target"      -> IF call.retained THEN "page" ELSE "candidates"
    [] stage = "integrity_target" -> "validate"
    [] stage = "scope"            -> "revisions"
    [] stage = "by_ref"           -> CASE call.tool = "revisions_ref" -> "revisions"
                                       [] call.tool \in Contents      -> "member"
                                       [] OTHER                       -> "answer"
    [] stage = "member"           -> IF call.extra THEN "revision" ELSE "load"
    [] stage = "revision"         -> "load"
    [] OTHER                      -> "answer"

Passes(i, j, f) ==
  CASE stage = "folder_target"    -> FolderTarget(i, j, f)
    [] stage = "hard_target"      -> HardTarget(i, j, f)
    [] stage = "integrity_target" -> IntegrityTarget(i, j, f)
    [] stage = "by_ref"           -> ByReference(i, j, f)
    [] stage = "member"           -> Member(i, j, f)
    [] stage = "revision"         -> Revision(i, j, f)
    [] OTHER                      -> VerifyScope(i, j, f)

\* A revision is read of the object the membership proof found.
Effective == IF stage = "revision" THEN CHOOSE i \in DOMAIN objs : TRUE ELSE Asked

ReadOne ==
  /\ stage \in {"folder_target", "hard_target", "integrity_target", "scope", "get", "by_ref",
                "member", "revision"}
  /\ \/ ReadFails
     \/ \E j \in Ids, f \in Fact(TRUE, stage = "by_ref") :
          IF ~Passes(Effective, j, f) THEN Throw("FORBIDDEN")
          ELSE /\ stage' = AfterOne
               /\ objs' = Only(j, f)
               /\ seen' = seen \cup {Saw(Effective, j, f)}
               /\ named' = IF stage = "hard_target" THEN call.asked ELSE named
               /\ UNCHANGED <<call, ids, todo, fails, rels, more, outcome, out, log>>

\* A document by id or by reference: the object that was read.
AnswerOne ==
  /\ stage = "answer"
  /\ Return(ClassesOf(objs), {})
  /\ named' = IF call.tool = "get" THEN DOMAIN objs ELSE named
  /\ UNCHANGED <<call, work, outcome, seen, log>>

\* The text of the proven revision, or what there is to know about it: from the cache, or
\* loaded, when the adapter's answer must be for the proven object (and its revision, wire
\* id and label: exact).  A label that is absent is an error to a reader alone; and a
\* cursor, a size or a type may be wrong.
Content ==
  /\ stage = "load"
  /\ \/ \E c \in Errors : Throw(c)
     \/ \E j \in Ids, exact \in BOOLEAN :
          IF ~(exact /\ j \in DOMAIN objs) THEN Throw("UPSTREAM_ERROR")
          ELSE /\ Return(ClassesOf(objs), {})
               /\ named' = IF call.tool \in ByRef THEN named ELSE call.asked
               /\ UNCHANGED <<call, work, outcome, seen, log>>
     \/ /\ call.tool \in {"info", "info_ref"}
        /\ Return(<<>>, {})
        /\ named' = IF call.tool \in ByRef THEN named ELSE call.asked
        /\ UNCHANGED <<call, work, outcome, seen, log>>

\* The certificates of the authorized document, and their evidence if it is asked for; a
\* malformed answer is an error.
Integrity ==
  /\ stage \in {"validate", "evidence"}
  /\ \/ ReadFails
     \/ Throw("LIMIT_EXCEEDED")
     \/ \E failed \in BOOLEAN :
          /\ IF stage = "validate" /\ call.extra /\ ~failed
             THEN stage' = "evidence" /\ UNCHANGED out
             ELSE Return(ClassesOf(objs), {})
          /\ UNCHANGED <<call, work, named, outcome, seen, log>>

\* The revisions of an object.  In a scope with a root each must be shown to lie in it: by its
\* own path, or by a further read (todo).
Revisions ==
  /\ stage = "revisions"
  /\ \/ ReadFails
     \/ Throw("UPSTREAM_ERROR")
     \/ \E got \in {s \in SUBSET Ids : Cardinality(s) <= 2}, path \in BOOLEAN :
        \E f \in [got -> Fact(path, FALSE)] :
          IF ~ \A i \in got : i \in Cabinet /\ AllowedType(f[i]) /\ (path => InRoot(f[i]))
          THEN Throw("FORBIDDEN")
          ELSE /\ objs' = f
               /\ todo' = IF call.rooted /\ ~path THEN got ELSE {}
               /\ stage' = "revision_scope"
               /\ seen' = seen \cup {Saw(i, i, f[i]) : i \in got}
               /\ UNCHANGED <<call, ids, fails, rels, more, named, outcome, out, log>>

RevisionScope ==
  /\ stage = "revision_scope" /\ todo # {}
  /\ \/ ReadFails
     \/ \E i \in todo, j \in Ids, f \in Fact(TRUE, FALSE) :
          IF ~VerifyScope(i, j, f) THEN Throw("FORBIDDEN")
          ELSE /\ todo' = todo \ {i}
               /\ seen' = seen \cup {Saw(i, j, f)}
               /\ UNCHANGED <<call, stage, ids, objs, fails, rels, more, named, outcome, out, log>>

\* By reference each must be the object of the handle, and of its class.
AnswerRevisions ==
  /\ stage = "revision_scope" /\ todo = {}
  /\ IF call.tool \in ByRef /\ ~ \A i \in DOMAIN objs : i = Asked /\ objs[i].class = call.handle[i]
     THEN Throw("UPSTREAM_ERROR")
     ELSE /\ Return(ClassesOf(objs), {})
          /\ named' = IF call.tool \in ByRef THEN named ELSE call.asked
          /\ UNCHANGED <<call, work, outcome, seen, log>>

-----------------------------------------------------------------------------
(* Discovery: the candidates of a search or a folder are classified before they are paged, *)
(* and relationships are hidden. *)

\* searchIds and listIds.
List ==
  /\ stage = "list"
  /\ \/ ReadFails
     \/ Throw("UPSTREAM_ERROR")
     \/ \E got \in SUBSET Ids :
          IF ~(got \subseteq Cabinet) THEN Throw("FORBIDDEN")
          ELSE /\ ids' = got /\ todo' = got /\ objs' = <<>>
               /\ stage' = "classify"
               /\ UNCHANGED <<call, fails, rels, more, named, outcome, seen, out, log>>

\* filterDiscoveryIds: a chunk of the candidates is read at once.
ClassifyChunk ==
  /\ stage = "classify" /\ todo # {}
  /\ \E chunk \in SUBSET todo :
     /\ Cardinality(chunk) = IF Cardinality(todo) < BatchMax THEN Cardinality(todo) ELSE BatchMax
     /\ \/ ReadFails
        \/ \E got, failed \in SUBSET Ids :
             IF ~ValidBatch(chunk, got, failed) THEN Throw("UPSTREAM_ERROR")
             ELSE \E f \in [got -> Kind] :
                    /\ objs' = [i \in DOMAIN objs \cup got |-> IF i \in got THEN f[i] ELSE objs[i]]
                    /\ fails' = fails \cup failed
                    /\ todo' = todo \ chunk
                    /\ seen' = seen \cup {Saw(i, i, f[i]) : i \in got}
                    /\ UNCHANGED <<call, stage, ids, rels, more, named, outcome, out, log>>

\* What the chunks could not deliver is read once more, one by one.
Singles ==
  /\ stage = "classify" /\ todo = {}
  /\ stage' = "singles" /\ todo' = fails /\ fails' = {}
  /\ UNCHANGED <<call, ids, objs, rels, more, named, outcome, seen, out, log>>

\* ghost: an object that cannot be read is, or is not, a relationship.
ClassifyOne ==
  /\ stage = "singles"
  /\ \E i \in todo :
     \/ \E f \in Kind :
          /\ todo' = todo \ {i} /\ fails' = fails \cup {i}
          /\ seen' = seen \cup {[Saw(i, i, f) EXCEPT !.match = "unseen"]}
          /\ UNCHANGED <<call, stage, ids, objs, rels, more, named, outcome, out, log>>
     \/ \E j \in Ids, f \in Kind :
          IF j # i THEN Throw("UPSTREAM_ERROR")
          ELSE /\ todo' = todo \ {i}
               /\ objs' = [k \in DOMAIN objs \cup {j} |-> IF k = j THEN f ELSE objs[k]]
               /\ seen' = seen \cup {Saw(i, j, f)}
               /\ UNCHANGED <<call, stage, ids, fails, rels, more, named, outcome, out, log>>

\* Faulty: an id that stays unclassified is tolerated.
ScreenAll ==
  /\ stage = "singles" /\ todo = {}
  /\ stage' = "prove" /\ todo' = {i \in DOMAIN objs : objs[i].class = "hardReference"}
  /\ UNCHANGED <<call, ids, objs, fails, rels, more, named, outcome, seen, out, log>>

\* An id that stays unclassified is tolerated only where no relationship has been found.
Screen ==
  /\ stage = "singles" /\ todo = {}
  /\ LET hard == {i \in DOMAIN objs : objs[i].class = "hardReference"} IN
     IF fails # {} /\ hard # {} THEN Throw("UPSTREAM_ERROR")
     ELSE /\ stage' = "prove" /\ todo' = hard
          /\ UNCHANGED <<call, ids, objs, fails, rels, more, named, outcome, seen, out, log>>

\* proveDiscoveryHardReferenceScope: what is hidden must lie in the root.
ProveHidden ==
  /\ stage = "prove" /\ todo # {}
  /\ \/ ReadFails
     \/ \E i \in todo, j \in Ids, f \in Fact(TRUE, FALSE) :
          IF ~(j = i /\ f.class = "hardReference" /\ InRoot(f)) THEN Throw("UPSTREAM_ERROR")
          ELSE /\ todo' = todo \ {i} /\ rels' = rels \cup {i}
               /\ seen' = seen \cup {Saw(i, j, f)}
               /\ UNCHANGED <<call, stage, ids, objs, fails, more, named, outcome, out, log>>

\* A page of the ids that remain: PagingSnapshotStore.create, which may find no room.  What
\* discovery has seen is forgotten: the page is hydrated by reads of its own.
FirstPage ==
  /\ stage = "prove" /\ todo = {}
  /\ \/ Throw("UPSTREAM_ERROR")
     \/ LET visible == ids \ rels IN
        \E page \in SUBSET visible :
          /\ Cardinality(page) = IF Cardinality(visible) < PageMax THEN Cardinality(visible) ELSE PageMax
          /\ ids' = page /\ more' = (page # visible)
          /\ stage' = "hydrate"
          /\ objs' = <<>> /\ fails' = {} /\ rels' = {} /\ seen' = {}
          /\ UNCHANGED <<call, todo, named, outcome, out, log>>

\* PagingSnapshotStore.next and resolveContinuationAuthority: the page of an earlier listing, unless
\* the cursor is wrong or the list is gone, which is no error of the client.
RetainedPage ==
  /\ stage = "page"
  /\ \/ call.tool = "continue" /\ Throw("NOT_AVAILABLE")
     \/ call.tool # "continue" /\ (Throw("INVALID_ARGUMENT") \/ Throw("UPSTREAM_ERROR"))
     \/ \E page \in SUBSET Cabinet :
          /\ Cardinality(page) \in 1..PageMax
          /\ ids' = page /\ more' \in BOOLEAN
          /\ stage' = IF call.tool = "hard" THEN "relationships" ELSE "hydrate"
          /\ todo' = IF call.tool = "hard" THEN page ELSE {}
          /\ objs' = <<>>
          /\ UNCHANGED <<call, fails, rels, named, outcome, seen, out, log>>

-----------------------------------------------------------------------------
(* Hydration: the objects of a page, or of a batch, are read, placed and verified. *)

\* fetchObjectsByIds and fetchFolderNavigationObjectsByIds, up to the paths.
Hydrate ==
  /\ stage = "hydrate"
  /\ \/ ids # {} /\ ReadFails
     \/ \E got, failed \in SUBSET Ids, path \in BOOLEAN :
          IF ~ValidBatch(ids, got, failed) THEN Throw("UPSTREAM_ERROR")
          ELSE IF call.plan = "deterministic" /\ failed # {} THEN ThrowOutcome("hydration_failure")
          ELSE \E f \in [got -> Fact(path, call.plan # "none")] :
                 IF ~ \A i \in got : ResultType(f[i]) /\ (path => InRoot(f[i]))
                 THEN Throw("FORBIDDEN")
                 ELSE /\ objs' = f /\ fails' = failed
                      /\ todo' = IF path \/ ~(call.extra \/ call.rooted) THEN {} ELSE got
                      /\ seen' = seen \cup {Saw(i, i, f[i]) : i \in got}
                      /\ stage' = "paths"
                      /\ UNCHANGED <<call, ids, rels, more, named, outcome, out, log>>

\* attachRawPaths and attachFolderNavigationPaths: one read for each object without a path.
AttachPath ==
  /\ stage = "paths" /\ todo # {}
  /\ \/ ReadFails
     \/ \E i \in todo, j \in Ids, f \in Fact(TRUE, FALSE) :
          IF j # i \/ f.class # objs[i].class THEN Throw("UPSTREAM_ERROR")
          ELSE IF ~(ResultType(f) /\ InRoot(f)) THEN Throw("FORBIDDEN")
          ELSE /\ todo' = todo \ {i}
               /\ seen' = seen \cup {Saw(i, j, f)}
               /\ UNCHANGED <<call, stage, ids, objs, fails, rels, more, named, outcome, out, log>>

SearchOutcome ==
  CASE DOMAIN objs # {}                 -> "matches"
    [] DOMAIN objs = {} /\ fails # {}   -> "hydration_failure"
    [] OTHER                            -> "zero"

\* Folder navigation shows a drawer as a folder.
ShownClass(f) == IF call.tool = "folder" /\ f.class = "drawer" THEN "folder" ELSE f.class

\* Every object satisfies what its search asked for; then the call puts the page together.
\* A batch of references is complete or fails.
Assemble ==
  /\ stage = "paths" /\ todo = {}
  /\ IF ~ \A i \in DOMAIN objs : Satisfies(objs[i])
     THEN \E i \in DOMAIN objs :
            /\ ~Satisfies(objs[i])
            /\ ThrowOutcome(IF objs[i].match = "mismatch" THEN "predicate_mismatch" ELSE "metadata_unverifiable")
     ELSE IF call.tool = "many_ref" /\ fails # {} THEN Throw("NOT_AVAILABLE")
     ELSE IF call.tool = "many_ref" /\ \E i \in ids : objs[i].class # call.handle[i] THEN Throw("FORBIDDEN")
     ELSE /\ named' = IF call.tool \in {"search", "folder", "many"} THEN DOMAIN objs ELSE named
          /\ outcome' = IF call.tool = "search" THEN SearchOutcome ELSE outcome
          /\ IF call.tool \in Searches /\ (call.tool # "search" \/ call.contract # "legacy")
             THEN stage' = "issue" /\ UNCHANGED out
             ELSE Return([i \in DOMAIN objs |-> ShownClass(objs[i])], fails)
          /\ UNCHANGED <<call, work, seen, log>>

\* A search by references hands out a handle for each result; the store may be full, and the
\* list behind the next page, or its cursor, may be gone by now.
Issue ==
  /\ stage = "issue"
  /\ \/ Throw("NOT_AVAILABLE") \/ Throw("UPSTREAM_ERROR")
     \/ more /\ call.tool # "continue" /\ Throw("INVALID_ARGUMENT")
     \/ Return(ClassesOf(objs), fails) /\ UNCHANGED <<call, work, named, outcome, seen, log>>

-----------------------------------------------------------------------------
(* Incoming relationships of a document. *)

\* Those in another cabinet are left out.
Candidates ==
  /\ stage = "candidates"
  /\ \/ ReadFails
     \/ Throw("LIMIT_EXCEEDED")
     \/ \E got \in SUBSET Ids :
          /\ ids' = got \cap Cabinet /\ todo' = ids' /\ objs' = <<>>
          /\ stage' = "relationships"
          /\ UNCHANGED <<call, fails, rels, more, named, outcome, seen, out, log>>

\* loadAuthorizedHardReferenceObjects: a chunk is read; what is not available is left out, any
\* other failure ends the call.  objs holds what still needs its path.
LoadChunk ==
  /\ stage = "relationships" /\ todo # {} /\ objs = <<>>
  /\ \E chunk \in SUBSET todo :
     /\ Cardinality(chunk) = IF Cardinality(todo) < BatchMax THEN Cardinality(todo) ELSE BatchMax
     /\ \/ ReadFails
        \/ Throw("UPSTREAM_ERROR")
        \/ \E got, failed \in SUBSET Ids :
             IF ~ValidBatch(chunk, got, failed) THEN Throw("UPSTREAM_ERROR")
             ELSE \E f \in [got -> Fact(FALSE, FALSE)] :
                    IF ~ \A i \in got : f[i].class = "hardReference" THEN Throw("UPSTREAM_ERROR")
                    ELSE /\ objs' = f /\ todo' = todo \ chunk
                         /\ fails' = fails \cup failed
                         /\ seen' = seen \cup {Saw(i, i, f[i]) : i \in got}
                         /\ UNCHANGED <<call, stage, ids, rels, more, named, outcome, out, log>>

\* authorizeHardReferenceCandidate: its path, or the news that it is not for this client.
ProvePath ==
  /\ stage = "relationships" /\ objs # <<>>
  /\ \E i \in DOMAIN objs :
     LET done == objs' = [k \in DOMAIN objs \ {i} |-> objs[k]] IN
     \/ ReadFails
     \/ /\ done /\ fails' = fails \cup {i}
        /\ UNCHANGED <<call, stage, ids, todo, rels, more, named, outcome, seen, out, log>>
     \/ \E j \in Ids, f \in Fact(TRUE, FALSE), cabinet \in BOOLEAN :
          IF j # i \/ f.class # "hardReference" THEN Throw("UPSTREAM_ERROR")
          ELSE /\ done
               /\ rels' = IF cabinet /\ InRoot(f) THEN rels \cup {i} ELSE rels
               /\ fails' = IF cabinet THEN fails ELSE fails \cup {i}
               /\ seen' = seen \cup {Saw(i, j, f)}
               /\ UNCHANGED <<call, stage, ids, todo, more, named, outcome, out, log>>

\* A fresh list is paged, and its page comes from what has just been authorized.
AnswerRelationships ==
  /\ stage = "relationships" /\ todo = {} /\ objs = <<>>
  /\ \/ ~call.retained /\ Throw("UPSTREAM_ERROR")
     \/ \E page \in SUBSET rels :
          /\ IF call.retained \/ Cardinality(rels) <= PageMax THEN page = rels
             ELSE Cardinality(page) = PageMax
          /\ more' = IF call.retained THEN more ELSE page # rels
          /\ Return([i \in page |-> "hardReference"], {})
          /\ UNCHANGED <<call, ids, todo, objs, fails, rels, named, outcome, seen, log>>

Next ==
  \/ Begin \/ Audit \/ Leave
  \/ ReadOne \/ AnswerOne \/ Content \/ Integrity
  \/ Revisions \/ RevisionScope \/ AnswerRevisions
  \/ List \/ ClassifyChunk \/ Singles \/ ClassifyOne \/ Screen \/ ProveHidden
  \/ FirstPage \/ RetainedPage \/ Hydrate \/ AttachPath \/ Assemble \/ Issue
  \/ Candidates \/ LoadChunk \/ ProvePath \/ AnswerRelationships

Spec == Init /\ [][Next]_vars

-----------------------------------------------------------------------------
(* Properties. *)

Answered == stage = "done" /\ out.code = "OK"

\* Whatever an answer contains, a read of this very call has shown: that it is of a class the
\* scope allows (or a relationship, if those are listed), that it lies in the root of the scope
\* while it was still of that class, and that it satisfies what its search lets the gateway
\* verify.  A revision of a rooted scope is placed by a read for its id, whatever object
\* answered.  A call by reference works on the object of its handle, in the class of then.
ProvenAt(i, c) ==
  LET native == {c} \cup (IF call.tool = "folder" /\ c = "folder" THEN {"drawer"} ELSE {})
      about  == {s \in seen : s.id = i}
      placed == IF call.tool = "revisions" THEN {s \in seen : s.asked = i} ELSE about
  IN /\ i \in Cabinet
     /\ c \in IF call.tool = "hard" THEN {"hardReference"} ELSE Allowed
     /\ \E s \in about : s.class \in native
     /\ call.rooted => \E s \in placed : s.root /\ (call.tool = "revisions" \/ s.class \in native)
     /\ call.plan = "deterministic" /\ call.tool \notin Contents => \E s \in about : s.match = "match"

AnswersProven ==
  Answered =>
    /\ \A i \in DOMAIN out.docs : ProvenAt(i, out.docs[i])
    /\ call.tool \in ByRef =>
         \A i \in call.asked : \E s \in seen :
           s.id = i /\ s.class = call.handle[i] /\ (call.plan = "deterministic" => s.match = "match")

\* A page, or a batch, is accounted for: each id is answered or reported as failed, and only
\* once; a search that can be verified, and a batch by reference, report no failures but fail.
\* A relationship that is neither answered nor paged was not available, or outside of the scope.
NothingLost ==
  Answered =>
    /\ call.tool \in Searches \cup {"folder", "many", "many_ref"} =>
         /\ DOMAIN out.docs \cup out.failed = ids
         /\ DOMAIN out.docs \cap out.failed = {}
         /\ call.plan = "deterministic" \/ call.tool = "many_ref" => out.failed = {}
         /\ call.tool \in {"many", "many_ref"} => ids = call.asked
    /\ call.tool = "hard" =>
         /\ DOMAIN out.docs \subseteq rels
         /\ more \/ DOMAIN out.docs = rels
         /\ \A i \in ids \ (rels \cup fails) :
              /\ call.rooted
              /\ i \notin call.asked => ~ \E s \in seen : s.id = i /\ s.class = "hardReference" /\ s.root

\* The step that pages a discovered list: what is left out is a relationship shown to lie in
\* the scope; no id on the page has been shown to be one; each id on it has been classified, or
\* could be read neither with its chunk nor alone, and then nothing at all was left out.
DiscoveryAccounted ==
  [][stage = "prove" /\ stage' = "hydrate" =>
      LET shown == {s \in seen : s.match # "unseen"} IN
      /\ \A i \in rels : \E s \in shown : s.id = i /\ s.class = "hardReference" /\ InRoot(s)
      /\ \A i \in ids' : ~ \E s \in shown : s.id = i /\ s.class = "hardReference"
      /\ \A i \in ids' : i \in fails \/ \E s \in shown : s.id = i
      /\ fails # {} => rels = {}
      /\ ids' \cup rels = ids \/ more']_vars

\* A call leaves one audit record, written before its answer, and it tells what happened: the
\* code of the answer, the objects of the answer (none of them if the client asked for references
\* alone), and for a search whether it matched; a search that failed after it had reached
\* the provider is never audited as one that found something, unless its error is the client's.
AuditTells ==
  stage = "done" =>
    IF out.code = "REFUSED" THEN log = <<>>
    ELSE /\ Len(log) = 1 /\ log[1].code = out.code
         /\ call.tool \in ByRef \cup {"replay", "continue"} \/ call.contract = "v2" => log[1].objects = {}
         /\ Answered /\ call.tool \in {"search", "folder", "many", "get"} /\ call.contract # "v2" =>
              log[1].objects = DOMAIN out.docs
         /\ Answered /\ call.tool = "search" =>
              /\ (log[1].outcome = "matches") <=> (out.docs # <<>>)
              /\ (log[1].outcome = "hydration_failure") <=> (out.docs = <<>> /\ out.failed # {})
         /\ ~Answered /\ call.tool = "search" /\ out.code # "INVALID_ARGUMENT" =>
              log[1].outcome \notin {"matches", "zero"}
         /\ call.tool # "search" => log[1].outcome = "none"

\* tools.ts:1573 says that the candidates are classified before they are paged "so an invisible
\* relationship cannot consume a page slot or cursor position".
HiddenSlots ==
  [][stage = "prove" /\ stage' = "hydrate" =>
      \A i \in ids' : ~ \E s \in seen : s.id = i /\ s.class = "hardReference"]_vars
==============================================================================
