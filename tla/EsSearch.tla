------------------------------ MODULE EsSearch ------------------------------
(***************************************************************************)
(* src/es/query.go and src/es/request.go: a caller builds a query with an  *)
(* XQuery and its XBoolQuery, a search with an XRequest, in any order of   *)
(* calls, and SearchDocuments of src/es/es.go sends it.  The builders hand *)
(* out pointers: what is called on them later changes what was handed out, *)
(* until QueryRawJson puts another query in its place.  A call's argument  *)
(* is the number of the call, so that every call asks for something else.  *)
(***************************************************************************)
EXTENDS Integers, Sequences, FiniteSets, SequencesExt

CONSTANT MaxAsked      \* bound: what may be asked before the search

Kinds == {"match", "term"}        \* match_all, multi_match and terms are like these
Occurs == {"must", "filter"}      \* should and must_not are like these
Settings == {"from", "size", "sort"}   \* source, aggregations, highlight and timeout like sort

VARIABLES
    heap,       \* the types.Query values: of each, the clauses as a function of the kind
    query,      \* the one XQuery builds, an index of heap
    lastErr,    \* XQuery's lastErr
    boolQ,      \* the XBoolQuery in hand: [id, clauses], id 0 before QueryBool
    search,     \* the search.Request: [query, settings], query 0 when it has none
    searchErr,  \* XRequest's lastErr
    log,        \* history: the calls, [on, kind, value]; kind "failed" of one that failed
    sent        \* what has been sent to Elasticsearch

vars == <<heap, query, lastErr, boolQ, search, searchErr, log, sent>>

Nothing == {}
Empty == <<>>     \* no clause of any kind

Init ==
    /\ heap = <<Empty>> /\ query = 1 /\ lastErr = FALSE
    /\ boolQ = [id |-> 0, clauses |-> {}]
    /\ search = [query |-> 0, settings |-> Empty] /\ searchErr = FALSE
    /\ log = <<>> /\ sent = Nothing

Number == Len(log) + 1
Put(f, kind, value) == [k \in DOMAIN f \cup {kind} |-> IF k = kind THEN value ELSE f[k]]
Asks(entries) == sent = Nothing /\ Len(log) + Len(entries) <= MaxAsked /\ log' = log \o entries
Entry(on, kind) == [on |-> on, kind |-> kind, value |-> Number]
Fails(on) == Asks(<<Entry(on, "failed")>>) /\ UNCHANGED sent
InQuery(kind) == heap' = [heap EXCEPT ![query] = Put(@, kind, Number)]

----------------------------------------------------------------------------
\* XQuery: each setter replaces the clause of its kind.
QueryClause(kind) ==
    /\ Asks(<<Entry("query", kind)>>) /\ InQuery(kind)
    /\ UNCHANGED <<query, lastErr, boolQ, search, searchErr, sent>>

\* A bound that cannot be encoded leaves the query as it was.
QueryRange ==
    \/ /\ Asks(<<Entry("query", "range")>>) /\ InQuery("range")
       /\ UNCHANGED <<query, lastErr, boolQ, search, searchErr, sent>>
    \/ /\ Fails("query") /\ lastErr' = TRUE
       /\ UNCHANGED <<heap, query, boolQ, search, searchErr>>

\* A query of its own takes the place of all that was set.
QueryRawJson ==
    \/ /\ Asks(<<Entry("query", "raw")>>)
       /\ heap' = Append(heap, Put(Empty, "raw", Number)) /\ query' = Len(heap')
       /\ UNCHANGED <<lastErr, boolQ, search, searchErr, sent>>
    \/ /\ Fails("query") /\ lastErr' = TRUE
       /\ UNCHANGED <<heap, query, boolQ, search, searchErr>>

QueryBool ==
    /\ Asks(<<Entry("bool", "new")>>) /\ boolQ' = [id |-> Number, clauses |-> {}]
    /\ UNCHANGED <<heap, query, lastErr, search, searchErr, sent>>

\* Must, Should, MustNot and Filter add a clause; the query that has taken the
\* bool over with EndBool gets it as well.
BoolClause(occur) ==
    LET more == boolQ.clauses \cup {[kind |-> occur, value |-> Number]} IN
    /\ boolQ.id # 0 /\ Asks(<<Entry("bool", occur)>>)
    /\ boolQ' = [boolQ EXCEPT !.clauses = more]
    /\ heap' = [n \in DOMAIN heap |->
                 IF "bool" \in DOMAIN heap[n] /\ heap[n]["bool"].id = boolQ.id
                 THEN Put(heap[n], "bool", boolQ') ELSE heap[n]]
    /\ UNCHANGED <<query, lastErr, search, searchErr, sent>>

EndBool ==
    /\ boolQ.id # 0 /\ Asks(<<[on |-> "query", kind |-> "bool", value |-> boolQ.id]>>)
    /\ heap' = [heap EXCEPT ![query] = Put(@, "bool", boolQ)]
    /\ UNCHANGED <<query, lastErr, boolQ, search, searchErr, sent>>

----------------------------------------------------------------------------
\* XRequest: each query setter replaces the whole query.
SearchClause(kind) ==
    /\ Asks(<<Entry("search", kind)>>)
    /\ heap' = Append(heap, Put(Empty, kind, Number))
    /\ search' = [search EXCEPT !.query = Len(heap')]
    /\ UNCHANGED <<query, lastErr, boolQ, searchErr, sent>>

\* Mutant of SearchRawJson: what cannot be parsed is passed over.
SearchRawJsonForgiven ==
    \/ SearchClause("raw")
    \/ Fails("search") /\ UNCHANGED <<heap, query, lastErr, boolQ, search, searchErr>>

SearchRawJson ==
    \/ SearchClause("raw")
    \/ /\ Fails("search") /\ searchErr' = TRUE
       /\ UNCHANGED <<heap, query, lastErr, boolQ, search>>

\* The caller gives on what Build returns, unless it returns an error.
SetQuery ==
    /\ ~lastErr /\ Asks(<<Entry("search", "built")>>)
    /\ search' = [search EXCEPT !.query = query]
    /\ UNCHANGED <<heap, query, lastErr, boolQ, searchErr, sent>>

\* PageQuery(2, size) sets from and size, the others one setting each.
Setting(names) ==
    /\ Asks([k \in DOMAIN names |-> Entry("setting", names[k])])
    /\ search' = [search EXCEPT !.settings =
                   [k \in DOMAIN @ \cup ToSet(names) |-> IF k \in ToSet(names) THEN Number ELSE @[k]]]
    /\ UNCHANGED <<heap, query, lastErr, boolQ, searchErr, sent>>
PageQuery == Setting(<<"from", "size">>)

----------------------------------------------------------------------------
\* What a search says, as a set of entries.
Said ==
    LET q == heap[search.query]
        parts == IF search.query = 0 THEN {} ELSE
            {[kind |-> k, value |-> q[k]] : k \in DOMAIN q \ {"bool"}}
            \cup (IF "bool" \in DOMAIN q THEN q["bool"].clauses ELSE {})
    IN parts \cup {[kind |-> k, value |-> search.settings[k]] : k \in DOMAIN search.settings}

\* SearchDocuments does not send a request that has an error.
SearchDocuments ==
    /\ sent = Nothing /\ ~searchErr
    /\ sent' = {Said}
    /\ UNCHANGED <<heap, query, lastErr, boolQ, search, searchErr, log>>

Next ==
    \/ \E k \in Kinds : QueryClause(k) \/ SearchClause(k)
    \/ QueryRange \/ QueryRawJson \/ QueryBool \/ EndBool
    \/ \E o \in Occurs : BoolClause(o)
    \/ SearchRawJson \/ SetQuery \/ SearchDocuments
    \/ PageQuery \/ \E s \in Settings : Setting(<<s>>)

Spec == Init /\ [][Next]_vars

----------------------------------------------------------------------------
(***************************************************************************)
(* Properties.                                                             *)
(***************************************************************************)
Of(on) == {k \in DOMAIN log : log[k].on = on /\ log[k].kind # "failed"}
Failed(on) == {k \in DOMAIN log : log[k].on = on /\ log[k].kind = "failed"}
LastOf(S) == {k \in S : \A j \in S : j <= k}

\* The query that a call on the XQuery is about: it changes with QueryRawJson.
Generation(k) == Cardinality({j \in Of("query") : j <= k /\ log[j].kind = "raw"})
BoolOf(k) == LastOf({j \in Of("bool") : j <= k /\ log[j].kind = "new"})

\* The calls in force: of the query, of the bool that it has, and the settings.
\* The query is the last one given to the XRequest; of the calls of one kind the
\* last one counts.
InForce ==
    LET given == LastOf(Of("search"))
        built == {k \in Of("query") : \E s \in given :
                    log[s].kind = "built" /\ Generation(k) = Generation(s)}
        clauses == {k \in built : \A j \in built : j > k => log[j].kind # log[k].kind}
        ended == {k \in clauses : log[k].kind = "bool"}
        inBool == {k \in Of("bool") : log[k].kind # "new" /\ \E e \in ended : BoolOf(k) = BoolOf(e)}
        settings == {k \in Of("setting") :
                      \A j \in Of("setting") : j > k => log[j].kind # log[k].kind}
    IN {k \in given : log[k].kind # "built"} \cup (clauses \ ended) \cup inBool \cup settings

\* A search that SearchDocuments sends says exactly what is in force of all that
\* was asked, and nothing had failed on the XRequest, nor on the XQuery before its
\* query was given to it: a broken clause never turns the search into one that
\* finds more.
SearchIsAsked ==
    sent # Nothing =>
        /\ Failed("search") = {}
        /\ \A s \in LastOf(Of("search")), k \in Failed("query") : log[s].kind = "built" => k > s
        /\ sent = {{[kind |-> log[k].kind, value |-> log[k].value] : k \in InForce}}
=============================================================================
