---------------------------- MODULE ServiceCalls ----------------------------
(***************************************************************************)
(* src/ral, src/httpx, src/grpcx: calls of configured services by name.    *)
(* The client of a service is made by the first call that needs it, and    *)
(* calls that meet there must end up with one client.  An HTTP client      *)
(* repeats an attempt that got no answer.                                  *)
(*                                                                         *)
(* A client is known by the caller that made it.                           *)
(***************************************************************************)
EXTENDS Naturals

CONSTANTS
    Callers,       \* goroutines of the application, one call each
    Protocol,      \* of each service: "http", "grpc" or "none" (not configured)
    Calls,         \* what each caller may ask for
    MaxAttempts,   \* RetryCount + 1
    Nobody         \* no client

Services == DOMAIN Protocol

\* The assumption on the constants.  Only Do is asked for services that the
\* configuration need not know.
ServiceParameters ==
    /\ Nobody \notin Callers /\ MaxAttempts \in Nat \ {0}
    /\ \A c \in Callers : \A j \in Calls[c] :
         \/ j \in [api : {"multipart", "conn"}, service : Services]
         \/ j \in [api : {"ral"}, service : Services, reader : BOOLEAN]
         \/ j.api = "do" /\ j \in [api : {"do"}, service : {j.service}, reader : BOOLEAN]
         \/ j.api = "new" /\ j \in [api : {"new"}, name : {j.name}, reader : BOOLEAN]

VARIABLES
    client,     \* clientInstMap: the HTTP client of each service
    conn,       \* connInstMap: the gRPC connection of each service
    open,       \* makers of gRPC connections that are open
    names,      \* duplicateMap: names of clients made by the application itself
    call,       \* each caller
    received    \* requests a server got: who sent it, and whether it was whole

vars == <<client, conn, open, names, call, received>>

Init ==
    /\ client = [s \in Services |-> Nobody] /\ conn = [s \in Services |-> Nobody]
    /\ open = {} /\ names = {} /\ received = {}
    /\ call = [c \in Callers |->
         [at |-> "idle", job |-> [api |-> "none"], attempt |-> 0, body |-> TRUE,
          uses |-> Nobody, status |-> 0, result |-> "none"]]

Job(c) == call[c].job
Service(c) == Job(c).service
Goto(c, l) == call' = [call EXCEPT ![c].at = l]
Return(c, r) == call' = [call EXCEPT ![c].at = "done", ![c].result = r]

----------------------------------------------------------------------------
(***************************************************************************)
(* ral: the calls.  A body is any value; Do has it as a reader, which it   *)
(* reads before anything is sent.  The other calls hand a reader on as it  *)
(* is, and so does a client of the application's own.                      *)
(***************************************************************************)
\* Which way a call goes: to Do's checks, a connection, a client of the
\* application's own, or the client of the service.
FirstStep(j) ==
    CASE j.api = "do" -> "check" [] j.api = "conn" -> "conn" [] j.api = "new" -> "validate"
      [] OTHER -> "route"

Start(c) ==
    /\ call[c].at = "idle"
    /\ \E j \in Calls[c] : call' = [call EXCEPT ![c].job = j, ![c].at = FirstStep(j)]
    /\ UNCHANGED <<client, conn, open, names, received>>

\* Mutant of Do: the reader itself becomes the body of the request.
DoUnread(c) ==
    /\ call[c].at = "check"
    /\ IF Service(c) \in Services THEN Goto(c, "route") ELSE Return(c, "error")
    /\ UNCHANGED <<client, conn, open, names, received>>

\* Do: no service, no call; the body may fail while it is read.
Do(c) ==
    /\ call[c].at = "check"
    /\ \/ Service(c) \notin Services /\ Return(c, "error")
       \/ /\ Service(c) \in Services
          /\ call' = [call EXCEPT ![c].at = "route", ![c].job.reader = FALSE]
       \/ Service(c) \in Services /\ Job(c).reader /\ Return(c, "error")
    /\ UNCHANGED <<client, conn, open, names, received>>

\* RAL, PostForm, PostMultipart: not for gRPC services.
Route(c) ==
    /\ call[c].at = "route"
    /\ IF Protocol[Service(c)] = "grpc" THEN Return(c, "error") ELSE Goto(c, "find")
    /\ UNCHANGED <<client, conn, open, names, received>>

----------------------------------------------------------------------------
(***************************************************************************)
(* httpx: GetServiceClient, and NewHttpClient for the application.         *)
(***************************************************************************)
GetServiceClient(c) ==
    /\ call[c].at = "find"
    /\ IF client[Service(c)] # Nobody
       THEN call' = [call EXCEPT ![c].at = "send", ![c].uses = client[Service(c)]]
       ELSE IF Protocol[Service(c)] = "none" THEN Return(c, "error")
       ELSE Goto(c, "make")
    /\ UNCHANGED <<client, conn, open, names, received>>

\* Mutant of KeepClient: the last one wins.
KeepClientAlways(c) ==
    /\ call[c].at = "made"
    /\ client' = [client EXCEPT ![Service(c)] = c]
    /\ call' = [call EXCEPT ![c].at = "send", ![c].uses = c]
    /\ UNCHANGED <<conn, open, names, received>>

\* LoadOrStore: the first one wins.
KeepClient(c) ==
    /\ call[c].at = "made"
    /\ LET first == IF client[Service(c)] = Nobody THEN c ELSE client[Service(c)] IN
       /\ client' = [client EXCEPT ![Service(c)] = first]
       /\ call' = [call EXCEPT ![c].at = "send", ![c].uses = first]
    /\ UNCHANGED <<conn, open, names, received>>

\* Config.Validate: the name is taken before the rest is checked.
Validate(c) ==
    /\ call[c].at = "validate"
    /\ names' = names \cup {Job(c).name}
    /\ IF Job(c).name \in names THEN Return(c, "panic") ELSE Goto(c, "make")
    /\ UNCHANGED <<client, conn, open, received>>

\* NewHttpClient: a certificate that cannot be loaded is a panic.
NewHttpClient(c) ==
    /\ call[c].at = "make"
    /\ \/ Return(c, "panic")
       \/ Job(c).api # "new" /\ Goto(c, "made")
       \/ Job(c).api = "new" /\ call' = [call EXCEPT ![c].at = "send", ![c].uses = c]
    /\ UNCHANGED <<client, conn, open, names, received>>

----------------------------------------------------------------------------
(***************************************************************************)
(* grpcx: GetServiceConn.  What fails here is a panic.                     *)
(***************************************************************************)
GetServiceConn(c) ==
    /\ call[c].at = "conn"
    /\ IF conn[Service(c)] # Nobody
       THEN call' = [call EXCEPT ![c].at = "done", ![c].uses = conn[Service(c)], ![c].result = "ok"]
       ELSE IF Protocol[Service(c)] # "grpc" THEN Return(c, "panic")
       ELSE Goto(c, "dial")
    /\ UNCHANGED <<client, conn, open, names, received>>

Dial(c) ==
    /\ call[c].at = "dial"
    /\ \/ Goto(c, "dialed") /\ open' = open \cup {c}
       \/ Return(c, "panic") /\ UNCHANGED open
    /\ UNCHANGED <<client, conn, names, received>>

\* LoadOrStore: a connection that came too late is closed.
KeepConn(c) ==
    /\ call[c].at = "dialed"
    /\ LET first == IF conn[Service(c)] = Nobody THEN c ELSE conn[Service(c)] IN
       /\ conn' = [conn EXCEPT ![Service(c)] = first]
       /\ open' = (open \ {c}) \cup {first}
       /\ call' = [call EXCEPT ![c].at = "done", ![c].uses = first, ![c].result = "ok"]
    /\ UNCHANGED <<client, names, received>>

----------------------------------------------------------------------------
(***************************************************************************)
(* resty: an attempt reads up the readers of files and a body that is a    *)
(* reader; it is repeated when there was no answer, whether or not the     *)
(* server got the request.  Any status is an answer.                       *)
(***************************************************************************)
OnceOnly(j) == j.api = "multipart" \/ (j.api \in {"ral", "do", "new"} /\ j.reader)

Send(c) ==
    /\ call[c].at = "send"
    /\ \E sent \in BOOLEAN :
         received' = IF sent THEN received \cup {[from |-> c, whole |-> call[c].body]} ELSE received
    /\ call' = [call EXCEPT ![c].at = "wait", ![c].attempt = @ + 1,
                            ![c].body = @ /\ ~OnceOnly(Job(c))]
    /\ UNCHANGED <<client, conn, open, names>>

Answer(c) ==
    /\ call[c].at = "wait" /\ \E r \in received : r.from = c
    /\ \E s \in {200, 404, 500} :
         call' = [call EXCEPT ![c].at = "done", ![c].status = s, ![c].result = "ok"]
    /\ UNCHANGED <<client, conn, open, names, received>>

NoAnswer(c) ==
    /\ call[c].at = "wait"
    /\ \/ call[c].attempt < MaxAttempts /\ Goto(c, "send")
       \/ Return(c, "error")      \* attempts used up, or the context ended
    /\ UNCHANGED <<client, conn, open, names, received>>

----------------------------------------------------------------------------
Goes(c) ==
    \/ Do(c) \/ Route(c) \/ GetServiceClient(c) \/ NewHttpClient(c) \/ KeepClient(c) \/ Validate(c)
    \/ GetServiceConn(c) \/ Dial(c) \/ KeepConn(c) \/ Send(c) \/ Answer(c) \/ NoAnswer(c)

Next == \E c \in Callers : Start(c) \/ Goes(c)

Spec == Init /\ [][Next]_vars /\ \A c \in Callers : WF_vars(Goes(c))

----------------------------------------------------------------------------
(***************************************************************************)
(* Properties.                                                             *)
(***************************************************************************)
TypeOK ==
    /\ client \in [Services -> Callers \cup {Nobody}] /\ conn \in [Services -> Callers \cup {Nobody}]
    /\ open \subseteq Callers
    /\ \A c \in Callers : call[c].attempt <= MaxAttempts /\ call[c].body \in BOOLEAN

\* Calls of a service that meet while its client is made get one and the same
\* client, and a connection that is not used by all of them does not stay open.
OneClient ==
    /\ \A c, d \in Callers :
         /\ call[c].uses # Nobody /\ call[d].uses # Nobody
         /\ "new" \notin {Job(c).api, Job(d).api} /\ Service(c) = Service(d)
         => call[c].uses = call[d].uses
    /\ \A c \in open : call[c].at = "dialed" \/ \E s \in Services : conn[s] = c

\* A request that is repeated is the same request: its body is not the rest of
\* a reader that the attempt before has read.  Do keeps to it whatever its body
\* is.  Any other call whose body is a reader, and a multipart one, does so for
\* the first attempt only.
BodyIsWhole ==
    \A r \in received :
        \/ r.whole
        \/ /\ Job(r.from).api # "do" /\ OnceOnly(Job(r.from))
           /\ call[r.from].attempt > 1

\* PostMultipart sends "文件和普通字段" (files and fields): the server gets the
\* files' contents with every attempt.
FilesAreWhole == \A r \in received : r.whole

\* "statusCode >= 500 则认为请求异常" (an answer of 500 is a failure, which is
\* repeated): no call succeeds with one.
FailureIsError == \A c \in Callers : call[c].result = "ok" => call[c].status < 500
=============================================================================
