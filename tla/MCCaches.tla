------------------------------ MODULE MCCaches ------------------------------
(***************************************************************************)
(* Constants for TLC of what goroutines make on demand (OnDemand).         *)
(***************************************************************************)
EXTENDS OnDemand, TLC

\* Two pushes to one topic share its writer.
OneTopic == [p \in Pushes |-> "t"]

\* An HTTP service, a gRPC service and one that is not configured, with every
\* way to call them and a client of the application's own; bodies are readers
\* or not.
Configured == "users" :> "http" @@ "orders" :> "grpc" @@ "gone" :> "none"
AnyCall ==
    [api : {"multipart", "conn"}, service : DOMAIN Configured]
    \cup [api : {"ral"}, service : DOMAIN Configured, reader : BOOLEAN]
    \cup [api : {"do"}, service : {"users", ""}, reader : BOOLEAN]
    \cup [api : {"new"}, name : {"own"}, reader : BOOLEAN]
AllCalls == [c \in Callers |-> AnyCall]
=============================================================================
