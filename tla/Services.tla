------------------------------ MODULE Services ------------------------------
(***************************************************************************)
(* What a service asks of servers it shares with others, in several        *)
(* requests each: its database, created when it starts (EnsureDatabase),   *)
(* and its requests to Elasticsearch (EsOperator).  The two share no       *)
(* state.                                                                  *)
(***************************************************************************)
CONSTANTS
    EnsureCalls, EnsureProcesses, EnsurePlaces, NoCall,          \* EnsureDatabase
    EsCallers, Indices, Docs, NoDoc, BatchSize, EsMaxCalls       \* EsOperator

VARIABLES
    dialect, process, target, schema, databases, schemas, registry, pools, ensurePc,
    stage, pool, created, failed, overlapped,
    docs, aliased, tasks, contexts, op, esAt, scrollID, page, answer, esHeld, snapshot, esGiven,
    repeated, unclear, esCalls

ensureVars == <<dialect, process, target, schema, databases, schemas, registry, pools, ensurePc,
                stage, pool, created, failed, overlapped>>
esVars == <<docs, aliased, tasks, contexts, op, esAt, scrollID, page, answer, esHeld, snapshot, esGiven,
            repeated, unclear, esCalls>>

Ensure == INSTANCE EnsureDatabase
    WITH Calls <- EnsureCalls, Processes <- EnsureProcesses, Places <- EnsurePlaces,
         Nobody <- NoCall, open <- pools

Es == INSTANCE EsOperator
    WITH Callers <- EsCallers, MaxCalls <- EsMaxCalls,
         at <- esAt, held <- esHeld, given <- esGiven, calls <- esCalls

\* The assumptions of the two.
ASSUME ServicesAssumption == Ensure!EnsureParameters /\ Es!EsParameters

----------------------------------------------------------------------------
\* What EnsureDatabase returns is true, and no temporary pool is left (see
\* EnsureDatabase).
Ensured == Ensure!Ensured

\* What an operation of the Elasticsearch operator answers is true, and no scroll
\* context is left (see EsOperator).
EsAnswers == Es!EsAnswers
=============================================================================
