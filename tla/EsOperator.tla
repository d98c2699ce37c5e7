----------------------------- MODULE EsOperator -----------------------------
(***************************************************************************)
(* src/es/es.go: several callers manage indices and aliases, write         *)
(* documents, one by one or in bulk, copy an index to another and read one *)
(* page by page with ScrollEach.  Most operations look first and act       *)
(* afterwards, in two requests, between which others act; a copy takes     *)
(* many steps of the cluster.  A request may fail before or after it took  *)
(* effect, and the transport sends a request again whose connection broke. *)
(* An index is the set of the documents in it; the cluster is              *)
(* Elasticsearch, as far as the operations rely on it.                     *)
(***************************************************************************)
EXTENDS Integers, Sequences, FiniteSets

CONSTANTS
    Callers, Indices, Docs,
    NoDoc,        \* the document of an item that has none
    BatchSize,
    MaxCalls      \* bound: operations called

\* A page has one document at least, and documents are finitely many.
EsParameters == BatchSize \in Nat \ {0} /\ IsFiniteSet(Docs)

NoOp == [name |-> "none", index |-> "none", dest |-> "none", items |-> <<>>, scroll |-> FALSE]

VARIABLES
    docs,        \* of each index that exists
    aliased,     \* the indices that carry the alias
    tasks,       \* copies that the cluster is at while nobody waits for them
    contexts,    \* scroll contexts at the server, by the caller: what is left to read
    op, at,      \* of each caller: what it does and where it is
    scrollID,    \* the caller knows the id of its context
    page,        \* the hits it has got
    answer,      \* "none", "nil" or "error"
    held,        \* history: what the operation promises has held since it began
    snapshot,    \* history: what a search, or a copy when it began, found
    given,       \* history: documents given to fn or copied, or items of a bulk
                 \* that took effect
    repeated,    \* history: callers for which the transport has sent a request again
    unclear,     \* history: callers whose clearing of the context failed, or that
                 \* have never learned its id
    calls

cluster == <<docs, aliased, tasks>>
scrolling == <<contexts, scrollID, page, snapshot, unclear>>
vars == <<cluster, scrolling, op, at, answer, held, given, repeated, calls>>

Init ==
    /\ docs \in {<<>>, [i \in {CHOOSE j \in Indices : TRUE} |-> Docs]}
    /\ aliased \in SUBSET DOMAIN docs /\ tasks = {} /\ contexts = <<>>
    /\ op = [c \in Callers |-> NoOp] /\ at = [c \in Callers |-> "idle"]
    /\ scrollID = {} /\ page = [c \in Callers |-> {}]
    /\ answer = [c \in Callers |-> "none"] /\ held = {}
    /\ snapshot = [c \in Callers |-> {}] /\ given = [c \in Callers |-> {}]
    /\ repeated = {} /\ unclear = {} /\ calls = 0

Exists(i) == i \in DOMAIN docs
Without(f, x) == [y \in DOMAIN f \ {x} |-> f[y]]
Set(f, x, v) == [y \in DOMAIN f \cup {x} |-> IF y = x THEN v ELSE f[y]]

Goto(c, l) == at' = [at EXCEPT ![c] = l]
Return(c, result) == Goto(c, "idle") /\ answer' = [answer EXCEPT ![c] = result]
Going(c, l) == Goto(c, l) /\ UNCHANGED answer

\* What an operation promises when it returns no error.
Promise(c) ==
    LET o == op[c] IN
    CASE o.name \in {"CreateIndex", "CreateIndexWithAlias"} -> Exists(o.index)
      [] o.name = "DeleteIndex" -> ~Exists(o.index)
      [] o.name = "CreateAlias" -> o.index \in aliased
      [] o.name = "DeleteAlias" -> o.index \notin aliased
      [] OTHER -> TRUE
Starts(c) == at[c] = "idle" /\ at'[c] # "idle"
Held == held' = {c \in Callers : (c \in held /\ ~Starts(c)) \/ Promise(c)'}

----------------------------------------------------------------------------
(***************************************************************************)
(* A request: the cluster refuses it or carries it out, and the answer may *)
(* be lost; then the transport sends the request again, or gives up.       *)
(***************************************************************************)
Keep(c) == UNCHANGED <<at, answer, op>> /\ repeated' = repeated \cup {c}

\* A request that changes the cluster and ends the operation.
Change(c, possible, effect) ==
    \/ possible /\ effect /\ Return(c, "nil") /\ UNCHANGED <<op, repeated>>
    \/ possible /\ effect /\ c \notin repeated /\ Keep(c)
    \/ possible /\ effect /\ Return(c, "error") /\ UNCHANGED <<op, repeated>>
    \/ UNCHANGED cluster /\ Return(c, "error") /\ UNCHANGED <<op, repeated>>

Names == {"CreateIndex", "CreateIndexWithAlias", "DeleteIndex", "CreateAlias", "DeleteAlias"}
New(n, i) == [NoOp EXCEPT !.name = n, !.index = i]

\* Bulk requests: items index, update or delete a document.
Item(action, d) == [action |-> action, doc |-> d]
Bulks ==
    {<<Item(a, d), Item("update", e)>> :
        a \in {"index", "delete"}, d \in Docs, e \in Docs \cup {NoDoc}}

Call(c) ==
    /\ at[c] = "idle" /\ calls < MaxCalls /\ calls' = calls + 1
    /\ \/ \E n \in Names, i \in Indices :
            /\ op' = [op EXCEPT ![c] = New(n, i)]
            /\ Going(c, "look")
       \/ \E i \in Indices, b \in Bulks :
            /\ op' = [op EXCEPT ![c] = [New("Bulk", i) EXCEPT !.items = b]]
            /\ Going(c, "bulk")
       \/ \E i \in Indices, s \in BOOLEAN :    \* the scroll time is positive or not
            /\ op' = [op EXCEPT ![c] = [New("ScrollEach", i) EXCEPT !.scroll = s]]
            /\ Going(c, "search")
       \/ \E n \in {"Reindex", "ReindexAsync"}, i, j \in Indices :
            /\ i # j /\ op' = [op EXCEPT ![c] = [New(n, i) EXCEPT !.dest = j]]
            /\ Going(c, "reindex")
    /\ given' = [given EXCEPT ![c] = {}]
    /\ snapshot' = [snapshot EXCEPT ![c] = {}]
    /\ page' = [page EXCEPT ![c] = {}]
    /\ repeated' = repeated \ {c} /\ unclear' = unclear \ {c} /\ scrollID' = scrollID \ {c}
    /\ contexts' = Without(contexts, c)   \* the last one's time is over
    /\ UNCHANGED cluster

----------------------------------------------------------------------------
(***************************************************************************)
(* Indices and aliases.                                                    *)
(***************************************************************************)
\* The operation's own look: IndexExist, or ExistsAlias on the index.
AlreadyThere(c) ==
    IF op[c].name \in {"CreateAlias", "DeleteAlias"} THEN op[c].index \in aliased
    ELSE Exists(op[c].index)
Creates(c) == op[c].name \in {"CreateIndex", "CreateIndexWithAlias", "CreateAlias"}

\* Mutant of Look: the alias is looked for on every index.
LookAnywhere(c) ==
    /\ at[c] = "look"
    /\ LET there == IF op[c].name = "CreateAlias" THEN aliased # {} ELSE AlreadyThere(c) IN
       \/ Return(c, "error")
       \/ there = Creates(c) /\ Return(c, "nil")
       \/ there # Creates(c) /\ Going(c, "act")
    /\ UNCHANGED <<cluster, scrolling, op, given, repeated, calls>>

\* Nothing is left to do, or the request that does it follows.
Look(c) ==
    /\ at[c] = "look"
    /\ \/ Return(c, "error")
       \/ AlreadyThere(c) = Creates(c) /\ Return(c, "nil")
       \/ AlreadyThere(c) # Creates(c) /\ Going(c, "act")
    /\ UNCHANGED <<cluster, scrolling, op, given, repeated, calls>>

\* The cluster refuses to create what exists and to delete what does not.
\* An alias can be put on an index that carries it.
Act(c) ==
    LET i == op[c].index n == op[c].name IN
    /\ at[c] = "act"
    /\ \/ /\ n \in {"CreateIndex", "CreateIndexWithAlias"}
          /\ Change(c, ~Exists(i),
                /\ docs' = Set(docs, i, {})
                /\ aliased' = IF n = "CreateIndex" THEN aliased ELSE aliased \cup {i})
       \/ /\ n = "DeleteIndex"
          /\ Change(c, Exists(i),
                /\ docs' = Without(docs, i) /\ aliased' = aliased \ {i})
       \/ /\ n = "CreateAlias"
          /\ Change(c, Exists(i), aliased' = aliased \cup {i} /\ UNCHANGED docs)
       \/ /\ n = "DeleteAlias"
          /\ Change(c, i \in aliased, aliased' = aliased \ {i} /\ UNCHANGED docs)
    /\ contexts' = [k \in {k \in DOMAIN contexts : op[k].index \in DOMAIN docs'} |-> contexts[k]]
    /\ UNCHANGED <<tasks, scrollID, page, snapshot, unclear, given, calls>>

----------------------------------------------------------------------------
(***************************************************************************)
(* Copies: Reindex waits for the cluster, ReindexAsync does not.  A copy   *)
(* writes what it found when it began, document by document, while others  *)
(* go on.  Writing makes an index that does not exist.                     *)
(***************************************************************************)
Write(i, some) ==
    docs' = Set(docs, i, (IF Exists(i) THEN docs[i] ELSE {}) \cup some) /\ UNCHANGED aliased
Task(i, left) == {t \in {[dest |-> i, left |-> left]} : left # {}}

\* Mutant of Reindex: it does not wait either.
ReindexUnwaited(c) ==
    /\ at[c] = "reindex"
    /\ \/ \E found \in SUBSET Docs :
            /\ Exists(op[c].index)
            /\ snapshot' = [snapshot EXCEPT ![c] = found]
            /\ tasks' = tasks \cup Task(op[c].dest, found) /\ Return(c, "nil")
       \/ Return(c, "error") /\ UNCHANGED <<tasks, snapshot>>
    /\ UNCHANGED <<docs, aliased, contexts, scrollID, page, unclear, op, given, repeated, calls>>

\* The cluster refuses, or begins.
Reindex(c) ==
    /\ at[c] = "reindex"
    /\ \/ Return(c, "error") /\ UNCHANGED <<tasks, snapshot, given, repeated>>
       \/ \E found \in SUBSET Docs :
            /\ Exists(op[c].index)
            /\ \/ /\ op[c].name = "Reindex" /\ Going(c, "copy")
                  /\ snapshot' = [snapshot EXCEPT ![c] = found]
                  /\ given' = [given EXCEPT ![c] = {}] /\ UNCHANGED <<tasks, repeated>>
               \/ /\ op[c].name = "ReindexAsync" /\ tasks' = tasks \cup Task(op[c].dest, found)
                  /\ \/ \E r \in {"nil", "error"} : Return(c, r) /\ UNCHANGED repeated
                     \/ c \notin repeated /\ repeated' = repeated \cup {c} /\ UNCHANGED <<at, answer>>
                  /\ UNCHANGED <<snapshot, given>>
    /\ UNCHANGED <<docs, aliased, contexts, scrollID, page, unclear, op, calls>>

\* The copy that Reindex waits for goes on, is done, or is not waited for any
\* longer: it failed, or the cluster goes on with it alone.
Copy(c) ==
    /\ at[c] = "copy"
    /\ \/ \E d \in snapshot[c] \ given[c] :
            /\ Write(op[c].dest, {d}) /\ given' = [given EXCEPT ![c] = @ \cup {d}]
            /\ UNCHANGED <<tasks, at, answer, repeated>>
       \/ snapshot[c] = given[c] /\ Return(c, "nil") /\ UNCHANGED <<cluster, given, repeated>>
       \/ /\ tasks' \in {tasks, tasks \cup Task(op[c].dest, snapshot[c] \ given[c])}
          /\ \/ Return(c, "error") /\ UNCHANGED repeated
             \/ c \notin repeated /\ repeated' = repeated \cup {c} /\ Going(c, "reindex")
          /\ UNCHANGED <<docs, aliased, given>>
    /\ UNCHANGED <<scrolling, op, calls>>

\* The cluster goes on with a copy, or ends it: it fails, or CancelTask.
TaskStep ==
    /\ \E t \in tasks :
         \/ \E d \in t.left :
              Write(t.dest, {d}) /\ tasks' = (tasks \ {t}) \cup Task(t.dest, t.left \ {d})
         \/ tasks' = tasks \ {t} /\ UNCHANGED <<docs, aliased>>
    /\ UNCHANGED <<scrolling, op, at, answer, given, repeated, calls>>

----------------------------------------------------------------------------
(***************************************************************************)
(* Documents.  IndexDocument, UpdateDocument and DeleteDocument are bulks  *)
(* of one item.                                                            *)
(***************************************************************************)
\* Indexing makes an index that does not exist; an update needs the document;
\* deleting one that is not there is no error, unless there is no index.
Applies(i, item) ==
    /\ item.action # "index" => Exists(i)
    /\ item.action = "update" => item.doc \in docs[i]
Apply(i, item) ==
    /\ IF item.action = "delete"
       THEN docs' = Set(docs, i, docs[i] \ {item.doc}) /\ UNCHANGED aliased
       ELSE Write(i, {item.doc})
    /\ UNCHANGED tasks

Done(c) == Cardinality(page[c]) + 1     \* the items before this one are through

\* The bulk is not sent at all if an item that writes has no document.
BuildNDJSON(c) ==
    /\ at[c] = "bulk"
    /\ IF \E k \in DOMAIN op[c].items : op[c].items[k].action # "delete" /\ op[c].items[k].doc = NoDoc
       THEN Return(c, "error") ELSE Going(c, "item")
    /\ UNCHANGED <<cluster, scrolling, op, given, repeated, calls>>

\* The cluster takes the items in order; one that fails does not stop the rest.
BulkItem(c) ==
    LET k == Done(c) item == op[c].items[k] IN
    /\ at[c] = "item" /\ k <= Len(op[c].items)
    /\ \/ Applies(op[c].index, item) /\ Apply(op[c].index, item) /\ given' = [given EXCEPT ![c] = @ \cup {k}]
       \/ UNCHANGED <<cluster, given>>
       \/ /\ item.action # "delete" /\ ~Exists(op[c].index)    \* the index is made all the same
          /\ Write(op[c].index, {}) /\ UNCHANGED <<tasks, given>>
    /\ page' = [page EXCEPT ![c] = @ \cup {k}]
    /\ UNCHANGED <<op, at, answer, contexts, scrollID, snapshot, unclear, repeated, calls>>

\* Mutant of BulkAnswer: the field errors of the answer is not looked at.
BulkAnswerTrusted(c) ==
    /\ at[c] = "item" /\ Done(c) > Len(op[c].items)
    /\ Return(c, "nil") \/ Return(c, "error")
    /\ UNCHANGED <<cluster, scrolling, op, given, repeated, calls>>

\* The answer says whether an item failed; it may be lost, and the whole bulk
\* sent again.
BulkAnswer(c) ==
    /\ at[c] = "item" /\ Done(c) > Len(op[c].items)
    /\ \/ Return(c, IF given[c] = DOMAIN op[c].items THEN "nil" ELSE "error") /\ UNCHANGED <<page, given, repeated>>
       \/ Return(c, "error") /\ UNCHANGED <<page, given, repeated>>
       \/ /\ c \notin repeated /\ repeated' = repeated \cup {c}
          /\ page' = [page EXCEPT ![c] = {}] /\ given' = [given EXCEPT ![c] = {}]
          /\ UNCHANGED <<at, answer>>
    /\ UNCHANGED <<cluster, contexts, scrollID, snapshot, unclear, op, calls>>

----------------------------------------------------------------------------
(***************************************************************************)
(* ScrollEach and, with an fn that keeps everything, ScrollSearch.         *)
(***************************************************************************)
Pages(left) == {p \in SUBSET left : Cardinality(p) = IF Cardinality(left) < BatchSize THEN Cardinality(left) ELSE BatchSize}

\* The first search answers with a page.  It opens a context if it is given a
\* time to keep it; without an answer the caller never learns its id.  What it
\* finds is what the last refresh has made visible, which may be any documents.
Search(c) ==
    LET opened == IF op[c].scroll THEN {c} ELSE {} IN
    /\ at[c] = "search"
    /\ \/ \E found \in SUBSET Docs :
          /\ Exists(op[c].index)
          /\ snapshot' = [snapshot EXCEPT ![c] = found]
          /\ \E p \in Pages(found) :
               /\ contexts' = IF op[c].scroll THEN Set(contexts, c, found \ p) ELSE contexts
               /\ \/ /\ page' = [page EXCEPT ![c] = p]
                     /\ scrollID' = scrollID \cup opened /\ Going(c, "page") /\ UNCHANGED unclear
                  \/ /\ unclear' = unclear \cup opened
                     /\ Return(c, "error") /\ UNCHANGED <<page, scrollID>>
       \/ Return(c, "error") /\ UNCHANGED scrolling
    /\ UNCHANGED <<cluster, op, given, repeated, calls>>

\* An empty page ends it; otherwise fn gets the hits and may fail.  Without an id
\* there is no next page to ask for, and that is no error.
Page(c) ==
    /\ at[c] = "page"
    /\ IF page[c] = {} THEN Going(c, "clearNil") /\ UNCHANGED given
       ELSE /\ given' = [given EXCEPT ![c] = @ \cup page[c]]
            /\ \/ Going(c, IF c \in scrollID THEN "scroll" ELSE "clearNil")
               \/ Going(c, "clearError")
    /\ UNCHANGED <<cluster, scrolling, op, repeated, calls>>

\* Mutant of ScrollFails: the id is taken over before the error is looked at.
ScrollFailsForgetsID(c) ==
    /\ at[c] = "scroll"
    /\ scrollID' = scrollID \ {c} /\ Going(c, "clearError")
    /\ UNCHANGED <<cluster, contexts, page, snapshot, unclear, op, given, repeated, calls>>

\* The request fails, or its answer cannot be read.
ScrollFails(c) ==
    /\ at[c] = "scroll" /\ Going(c, "clearError")
    /\ UNCHANGED <<cluster, scrolling, op, given, repeated, calls>>

\* The next page: the context moves on even if the answer is lost, so that a
\* request sent again gets the page after it.
Scroll(c) ==
    /\ at[c] = "scroll" /\ c \in DOMAIN contexts
    /\ \E p \in Pages(contexts[c]) :
         /\ contexts' = [contexts EXCEPT ![c] = @ \ p]
         /\ \/ page' = [page EXCEPT ![c] = p] /\ Going(c, "page") /\ UNCHANGED repeated
            \/ c \notin repeated /\ repeated' = repeated \cup {c} /\ UNCHANGED <<at, answer, page>>
    /\ UNCHANGED <<cluster, scrollID, snapshot, unclear, op, given, calls>>

\* clearScroll is deferred and does its best, also for a cancelled ctx.
ClearScroll(c) ==
    /\ at[c] \in {"clearNil", "clearError"}
    /\ \/ /\ contexts' = IF c \in scrollID THEN Without(contexts, c) ELSE contexts
          /\ UNCHANGED unclear
       \/ c \in scrollID /\ unclear' = unclear \cup {c} /\ UNCHANGED contexts
    /\ Return(c, IF at[c] = "clearNil" THEN "nil" ELSE "error")
    /\ UNCHANGED <<cluster, scrollID, page, snapshot, op, given, repeated, calls>>

Step(c) ==
    \/ Call(c) \/ Look(c) \/ Act(c) \/ Reindex(c) \/ Copy(c) \/ BuildNDJSON(c) \/ BulkItem(c) \/ BulkAnswer(c)
    \/ Search(c) \/ Page(c) \/ ScrollFails(c) \/ Scroll(c) \/ ClearScroll(c)

Next == ((\E c \in Callers : Step(c)) \/ TaskStep) /\ Held

Spec == Init /\ [][Next]_vars

----------------------------------------------------------------------------
(***************************************************************************)
(* Properties.                                                             *)
(***************************************************************************)
Answered(c, name) == at[c] = "idle" /\ answer[c] = "nil" /\ op[c].name = name

\* An operation on indices or aliases that returns no error has, at some moment
\* since it was called, left the cluster as it promises, whatever others did
\* between its requests.
AnsweredIsDone ==
    \A c \in Callers, n \in Names : Answered(c, n) => c \in held

\* Bulk returns no error only if every item took effect.
BulkIsDone ==
    \A c \in Callers : Answered(c, "Bulk") => given[c] = DOMAIN op[c].items

\* Reindex returns no error only if it has copied everything that was there when
\* its last attempt began, whatever others write or delete meanwhile.
ReindexIsDone ==
    \A c \in Callers : Answered(c, "Reindex") => given[c] = snapshot[c]

\* ScrollEach returns no error only when fn has got every document that the
\* search found, whatever is written or deleted meanwhile.  Two exceptions: if the
\* transport sends the request for a page again, that page is lost; and without
\* a scroll time fn has got one page, although ScrollSearch promises all hits.
ScrollIsWhole ==
    \A c \in Callers : Answered(c, "ScrollEach") /\ c \notin repeated =>
        IF op[c].scroll THEN given[c] = snapshot[c] ELSE given[c] \in Pages(snapshot[c])

\* ScrollEach leaves no context behind, but for one that it failed to clear and
\* one whose id it has never got.
ScrollsAreCleared ==
    \A c \in Callers : at[c] = "idle" /\ c \notin unclear => c \notin DOMAIN contexts

\* What the operator answers is true, and it leaves nothing open.
EsAnswers == AnsweredIsDone /\ BulkIsDone /\ ReindexIsDone /\ ScrollIsWhole /\ ScrollsAreCleared
=============================================================================
