---------------------------- MODULE ObsOperator ----------------------------
(***************************************************************************)
(* src/obsx: the registry of clients of an Operator and its operations on  *)
(* the objects of a bucket, which take several requests each: renaming,    *)
(* deleting, downloading and uploading directories, uploads with retries.  *)
(* Every operation works while others change the bucket; a listing is read *)
(* by a goroutine of its own (minioClient.ListObjects).                    *)
(*                                                                         *)
(* A key is the endpoint of its bucket and a sequence of names; "a//x" has *)
(* an empty name, and the marker of a directory ends in one.  A directory  *)
(* is a key without its last "/".  An object is known by its content,      *)
(* named by who made it.                                                   *)
(***************************************************************************)
EXTENDS Naturals, Sequences, Functions

CONSTANTS
    Callers,      \* goroutines of the application, one operation each
    Names,        \* names of clients
    First,        \* the name that was registered first (defaultName)
    Endpoints,    \* what clients are registered for, a bucket each
    Start,        \* the endpoint of each client at the beginning
    KeyOrder,     \* all keys, in the order listings have
    Stored,       \* the buckets at the beginning: key -> content
    None,         \* no object, no client
    Torn,         \* an object whose content lacks its beginning
    Contents,     \* what callers upload
    Jobs,         \* what each caller may ask for
    Hasty,        \* callers whose application may cancel their context
    ListBuffer,   \* capacity of the listing channel (100 in the code)
    MaxRetries    \* DefaultMaxRetries

Keys == Range(KeyOrder)
Marker == ""                                \* last name of a directory's key
At(e, d) == <<e>> \o d
Under(d) == {k \in Keys : Len(k) > Len(d) /\ SubSeq(k, 1, Len(d)) = d}
MarkerOf(d) == Append(d, Marker)
IsDir(k) == k[Len(k)] = Marker
Moved(k, src, dst) == dst \o SubSeq(k, Len(src) + 1, Len(k))
Rank(k) == CHOOSE i \in DOMAIN KeyOrder : KeyOrder[i] = k
Failed == <<>>                              \* ObjectInfo with Err

\* strings.TrimRight(d, "/") + "/": nothing is left of "" and "//" but "/".
Trimmed(d) ==
    IF \A i \in DOMAIN d : d[i] = Marker THEN <<Marker>>
    ELSE LET last == CHOOSE i \in DOMAIN d :
                         d[i] # Marker /\ \A l \in DOMAIN d : l > i => d[l] = Marker
         IN  SubSeq(d, 1, last)

\* What the operations work on, at the endpoint of their client.
Dirs == Seq(STRING)
ClientNames == Names \cup {""}
Requests ==
    [op : {"rename"}, dir : {TRUE}, name : ClientNames, src : Dirs, dst : Dirs]
    \cup [op : {"rename"}, dir : {FALSE}, name : ClientNames, src : Keys, dst : Keys]
    \cup [op : {"copy"}, name : ClientNames, src : Keys, dst : Keys]
    \cup [op : {"remove", "get"}, name : ClientNames, src : Keys]
    \cup [op : {"delete", "download", "listAll", "exist"}, name : ClientNames, src : Dirs]
    \cup [op : {"removeObjects"}, name : ClientNames, keys : SUBSET Keys]
    \cup [op : {"put"}, name : ClientNames, src : Keys, content : Contents, seeker : BOOLEAN]
    \cup [op : {"fput", "mkdir"}, name : ClientNames, src : Keys, content : Contents]
    \cup [op : {"upload"}, name : ClientNames, src : Keys, more : Seq(Keys), content : Contents]

\* What an operation makes of its arguments before its first request.
Resolved(e, j) ==
    CASE j.op = "rename" /\ j.dir -> [j EXCEPT !.src = At(e, @), !.dst = At(e, Trimmed(@))]
      [] j.op \in {"delete", "download", "exist"} -> [j EXCEPT !.src = At(e, Trimmed(@))]
      [] j.op = "mkdir" -> [j EXCEPT !.src = MarkerOf(At(e, Trimmed(@)))]
      [] j.op = "removeObjects" -> [j EXCEPT !.keys = {At(e, k) : k \in @}]
      [] j.op = "upload" ->
           LET key(i) == At(e, Trimmed(j.dir) \o j.files[i]) IN
           [op |-> j.op, name |-> j.name, src |-> key(1),
            more |-> [i \in 1..Len(j.files) - 1 |-> key(i + 1)], content |-> j.content]
      [] j.op = "copy" \/ (j.op = "rename" /\ ~j.dir) ->
           [j EXCEPT !.src = At(e, @), !.dst = At(e, @)]
      [] OTHER -> [j EXCEPT !.src = At(e, @)]
Asked(c) == {Resolved(e, j) : e \in Endpoints, j \in Jobs[c]}

\* Keys are not empty, and nobody uploads what is in the bucket already.
ASSUME ObsAssumption ==
    /\ First \in Names /\ Start \in [Names -> Endpoints \cup {None}]
    /\ ListBuffer \in Nat \ {0} /\ MaxRetries \in Nat \ {0}
    /\ KeyOrder \in Seq(Dirs \ {<<>>})
    /\ Stored = [k \in Keys |-> Stored[k]]
    /\ Torn \notin {None} \cup Range(Stored) \cup Contents
    /\ Contents \cap ({None} \cup Range(Stored)) = {}
    /\ \A c \in Callers : Asked(c) \subseteq Requests

VARIABLES
    objects,    \* the buckets
    stable,     \* keys unchanged since the listing of a reader began (history)
    clients,    \* the endpoint of each name's client
    closed,     \* Close was called
    call,       \* the operation of each caller
    lister,     \* its listing goroutine and channel
    dropped     \* contents that were overwritten or deleted on demand (history)

vars == <<objects, stable, clients, closed, call, lister, dropped>>
store == <<objects, stable>>
registry == <<clients, closed>>

NoLister ==
    [at |-> "none", dir |-> <<>>, last |-> 0, item |-> <<>>, buf |-> <<>>, cancelled |-> FALSE]

NoCall ==
    [at |-> "idle", job |-> [op |-> "none"], gone |-> FALSE, keys |-> {}, failed |-> FALSE,
     tries |-> 0, start |-> TRUE, result |-> "none"]

Init ==
    /\ objects = Stored /\ stable = [c \in Callers |-> {}]
    /\ clients = Start /\ closed = FALSE
    /\ call = [c \in Callers |-> NoCall]
    /\ lister = [c \in Callers |-> NoLister]
    /\ dropped = {}

----------------------------------------------------------------------------
(***************************************************************************)
(* The registry.  After Close nobody finds what is registered.             *)
(***************************************************************************)
RegisterClient(n, e) ==
    /\ ~closed /\ clients' = [clients EXCEPT ![n] = e]
    /\ UNCHANGED <<store, closed, call, lister, dropped>>

RemoveClient(n) ==
    /\ ~closed /\ clients' = [clients EXCEPT ![n] = None]
    /\ UNCHANGED <<store, closed, call, lister, dropped>>

Close ==
    /\ ~closed /\ closed' = TRUE /\ clients' = [n \in Names |-> None]
    /\ UNCHANGED <<store, call, lister, dropped>>

\* GetClient: what clients it may return.  "" asks for the one that was
\* registered first, or any client when that one is gone.
Registered == {n \in Names : clients[n] \in Endpoints}
GetClient(n) ==
    LET named == IF n = "" THEN {First} ELSE {n}
        found == IF n = "" /\ First \notin Registered THEN Registered ELSE named \cap Registered
    IN  IF closed THEN {} ELSE {clients[m] : m \in found}

----------------------------------------------------------------------------
\* Requests to the object store: one whose context is cancelled fails.
Job(c) == call[c].job
Alive(c) == ~call[c].gone
Store(new) ==
    /\ objects' = new
    /\ stable' = [c \in Callers |-> {k \in stable[c] : new[k] = objects[k]}]
Overwritten(k) == {objects[k]} \ {None}
Has(id) == \E k \in Keys : objects[k] = id

(***************************************************************************)
(* minioClient.ListObjects: a goroutine that sends the keys under a        *)
(* directory as they are when it reaches them, and gives up when its       *)
(* context is cancelled.  A listing that fails, the first page of one with *)
(* a cancelled context included, ends with an error.                       *)
(***************************************************************************)
NextKeys(c) ==
    {k \in Under(lister[c].dir) : objects[k] # None /\ Rank(k) > lister[c].last}

\* The goroutine is gone and leaves what is in its channel.
Ended(c, buf) ==
    [lister EXCEPT ![c].at = "ended", ![c].last = 0, ![c].item = <<>>, ![c].buf = buf]

ListNext(c) ==
    /\ lister[c].at = "run"
    /\ \/ /\ lister' = [lister EXCEPT ![c].at = "send", ![c].item = Failed]
       \/ /\ Alive(c) \/ lister[c].last # 0
          /\ NextKeys(c) # {}
          /\ LET k == CHOOSE k \in NextKeys(c) : \A l \in NextKeys(c) : Rank(k) <= Rank(l) IN
             lister' = [lister EXCEPT ![c].at = "send", ![c].item = k, ![c].last = Rank(k)]
       \/ /\ Alive(c) \/ lister[c].last # 0
          /\ NextKeys(c) = {}
          /\ lister' = Ended(c, lister[c].buf)
    /\ UNCHANGED <<store, registry, call, dropped>>

\* select between out <- info and ctx.Done; the channel is closed at the end.
ListSend(c) ==
    /\ lister[c].at = "send"
    /\ \/ /\ Len(lister[c].buf) < ListBuffer
          /\ lister' = IF lister[c].item = Failed THEN Ended(c, Append(lister[c].buf, Failed))
                       ELSE [lister EXCEPT ![c].at = "run", ![c].item = <<>>,
                                           ![c].buf = Append(@, lister[c].item)]
       \/ /\ lister[c].cancelled \/ ~Alive(c)
          /\ lister' = Ended(c, lister[c].buf)
    /\ UNCHANGED <<store, registry, call, dropped>>

Arrived(c) == lister[c].buf # <<>>
Item(c) == Head(lister[c].buf)
TakeItem(c) == lister' = [lister EXCEPT ![c].buf = Tail(@)]
Listed(c) == lister[c].at = "ended" /\ lister[c].buf = <<>>

----------------------------------------------------------------------------
(***************************************************************************)
(* A caller.  An operation with a context of its own cancels it when it    *)
(* returns, which its listing goroutine hears.                             *)
(***************************************************************************)
Goto(c, l) == call' = [call EXCEPT ![c].at = l]
Returned(c, r) == [call EXCEPT ![c].at = "done", ![c].result = r]

\* Mutant of Cancels: RenameObject has no context of its own.
CancelsNot(j) == j.op \in {"exist", "download"}
Cancels(j) == j.op \in {"rename", "exist", "download"}

Return(c, r) ==
    /\ call' = Returned(c, r)
    /\ lister' = [lister EXCEPT ![c].cancelled = Cancels(Job(c))]

\* The first request of each operation.
FirstStep(j) ==
    CASE j.op = "rename" -> IF j.dir THEN "list" ELSE "copy"
      [] j.op \in {"delete", "download", "listAll"} -> "list"
      [] j.op = "exist"  -> "stat"
      [] j.op \in {"upload", "put", "fput", "mkdir"} -> "put"
      [] j.op = "removeObjects" -> "removeAll"
      [] OTHER -> j.op                       \* "copy", "remove", "get"

Asks(c, j) ==
    [call EXCEPT ![c].job = j, ![c].at = FirstStep(j),
                 ![c].keys = IF j.op = "removeObjects" THEN j.keys ELSE {}]

Begin(c) ==
    /\ call[c].at = "idle"
    /\ \E j \in Jobs[c] :
         \/ GetClient(j.name) = {} /\ call' = Returned(c, "error")
         \/ \E e \in GetClient(j.name) : call' = Asks(c, Resolved(e, j))
    /\ UNCHANGED <<store, registry, lister, dropped>>

\* The application cancels the context of its call.
GiveUp(c) ==
    /\ c \in Hasty /\ call[c].at \notin {"idle", "done"} /\ Alive(c)
    /\ call' = [call EXCEPT ![c].gone = TRUE]
    /\ UNCHANGED <<store, registry, lister, dropped>>

\* Where the items of a listing are read, and what it may not miss.
Unchanged(j) == IF j.op = "exist" THEN {} ELSE {k \in Under(j.src) : objects[k] # None}
Reader(j) == CASE j.op = "rename" -> "copyAll" [] j.op = "delete" -> "collect" [] OTHER -> j.op

ListObjects(c, d) == lister' = [lister EXCEPT ![c] = [NoLister EXCEPT !.at = "run", !.dir = d]]

StartListing(c) ==
    /\ call[c].at = "list"
    /\ ListObjects(c, Job(c).src)
    /\ stable' = [stable EXCEPT ![c] = Unchanged(Job(c))]
    /\ Goto(c, Reader(Job(c)))
    /\ UNCHANGED <<objects, registry, dropped>>

----------------------------------------------------------------------------
(***************************************************************************)
(* RenameObject: copy and remove one object, or copy what a directory      *)
(* lists and delete the directory, which lists it again.  CopyObject and   *)
(* RemoveObject are one request of it.                                     *)
(***************************************************************************)
CopyObject(c, k, l) ==
    /\ Alive(c) /\ objects[k] # None
    /\ Store([objects EXCEPT ![l] = objects[k]])
    /\ dropped' = dropped \cup (Overwritten(l) \ {objects[k]})

RenameOne(c) ==
    /\ call[c].at = "copy"
    /\ \/ /\ CopyObject(c, Job(c).src, Job(c).dst)
          /\ IF Job(c).op = "copy" THEN Return(c, "ok") ELSE Goto(c, "remove") /\ UNCHANGED lister
       \/ Return(c, "error") /\ UNCHANGED <<store, dropped>>
    /\ UNCHANGED registry

\* What the caller asked to delete, by name or as what a directory holds.
OnDemand(c, k) == IF Job(c).op = "rename" THEN {} ELSE Overwritten(k)

RemoveOne(c) ==
    /\ call[c].at = "remove"
    /\ \/ /\ Alive(c) /\ Store([objects EXCEPT ![Job(c).src] = None])
          /\ dropped' = dropped \cup OnDemand(c, Job(c).src)
          /\ Return(c, "ok")
       \/ Return(c, "error") /\ UNCHANGED <<store, dropped>>
    /\ UNCHANGED registry

\* Mutant of RenameItem: an item with an error is left out.
RenameItemSkips(c) ==
    /\ call[c].at = "copyAll" /\ Arrived(c)
    /\ TakeItem(c)
    /\ \/ /\ Item(c) \in {Failed, MarkerOf(Job(c).src)}
          /\ UNCHANGED <<store, dropped>>
       \/ /\ Item(c) \notin {Failed, MarkerOf(Job(c).src)}
          /\ CopyObject(c, Item(c), Moved(Item(c), Job(c).src, Job(c).dst))
    /\ UNCHANGED <<call, registry>>

RenameItem(c) ==
    /\ call[c].at = "copyAll" /\ Arrived(c)
    /\ \/ /\ Item(c) = Failed
          /\ Return(c, "error")
          /\ UNCHANGED <<store, dropped>>
       \/ /\ Item(c) = MarkerOf(Job(c).src)
          /\ TakeItem(c)
          /\ UNCHANGED <<store, call, dropped>>
       \/ /\ Item(c) \notin {Failed, MarkerOf(Job(c).src)}
          /\ \/ /\ CopyObject(c, Item(c), Moved(Item(c), Job(c).src, Job(c).dst))
                /\ TakeItem(c)
                /\ UNCHANGED call
             \/ Return(c, "error") /\ UNCHANGED <<store, dropped>>
    /\ UNCHANGED registry

\* The copies are made: DeleteDirectory looks its client up again, and trims
\* the directory.  What it lists then may not be what was copied: "a//" was and
\* "a/" is listed, or the client is another one by now.  Such a call goes on as
\* the deletion it is.
DeletesAnother(c, d) ==
    /\ call' = [call EXCEPT ![c].at = "collect",
                            ![c].job = [op |-> "delete", name |-> @.name, src |-> d]]
    /\ stable' = [stable EXCEPT ![c] = {k \in Under(d) : objects[k] # None}]

RenameDelete(c) ==
    /\ call[c].at = "copyAll" /\ Listed(c)
    /\ \/ GetClient(Job(c).name) = {} /\ Return(c, "error") /\ UNCHANGED stable
       \/ \E e \in GetClient(Job(c).name) :
            LET d == At(e, Trimmed(Tail(Job(c).src))) IN
            /\ ListObjects(c, d)
            /\ \/ d = Job(c).src /\ Goto(c, "collect") /\ UNCHANGED stable
               \/ d # Job(c).src /\ DeletesAnother(c, d)
    /\ UNCHANGED <<objects, registry, dropped>>

----------------------------------------------------------------------------
(***************************************************************************)
(* DeleteDirectory: reads the listing to its end, then removes every key.  *)
(***************************************************************************)
Collect(c) ==
    /\ call[c].at = "collect" /\ Arrived(c)
    /\ call' = [call EXCEPT ![c].failed = @ \/ Item(c) = Failed,
                            ![c].keys = @ \cup ({Item(c)} \ {Failed})]
    /\ TakeItem(c)
    /\ UNCHANGED <<store, registry, dropped>>

Collected(c) ==
    /\ call[c].at = "collect" /\ Listed(c)
    /\ \/ call[c].failed /\ Return(c, "error")
       \/ ~call[c].failed /\ call[c].keys = {} /\ Return(c, "ok")
       \/ /\ ~call[c].failed /\ call[c].keys # {}
          /\ Goto(c, "removeAll")
          /\ UNCHANGED lister
    /\ UNCHANGED <<store, registry, dropped>>

\* RemoveObjects goes on after a failure; drainRemoveErrors keeps the first.
\* The goroutine that feeds it stops when the context is cancelled: no request is
\* made for the keys that are left, and none of them fails.
RemoveNext(c) ==
    /\ call[c].at = "removeAll" /\ call[c].keys # {}
    /\ LET k == CHOOSE k \in call[c].keys : \A l \in call[c].keys : Rank(k) <= Rank(l) IN
       \/ /\ Alive(c)
          /\ Store([objects EXCEPT ![k] = None])
          /\ call' = [call EXCEPT ![c].keys = @ \ {k}]
          /\ dropped' = dropped \cup OnDemand(c, k)
       \/ /\ call' = [call EXCEPT ![c].failed = TRUE, ![c].keys = @ \ {k}]
          /\ UNCHANGED <<store, dropped>>
       \/ /\ ~Alive(c)
          /\ call' = [call EXCEPT ![c].keys = {}]
          /\ UNCHANGED <<store, dropped>>
    /\ UNCHANGED <<registry, lister>>

RemovedAll(c) ==
    /\ call[c].at = "removeAll" /\ call[c].keys = {}
    /\ Return(c, IF call[c].failed THEN "error" ELSE "ok")
    /\ UNCHANGED <<store, registry, dropped>>

----------------------------------------------------------------------------
\* ExistDirectory: the marker answers, or else the first item of a listing.
Stat(c) ==
    /\ call[c].at = "stat"
    /\ \/ Alive(c) /\ objects[MarkerOf(Job(c).src)] # None /\ Return(c, "yes")
       \/ Goto(c, "list") /\ UNCHANGED lister
    /\ UNCHANGED <<store, registry, dropped>>

Exist(c) ==
    /\ call[c].at = "exist"
    /\ \/ Arrived(c) /\ Return(c, IF Item(c) = Failed THEN "error" ELSE "yes")
       \/ Listed(c) /\ Return(c, "no")
    /\ UNCHANGED <<store, registry, dropped>>

(***************************************************************************)
(* FGetDirectory and FGetDirectoryAsZip: one object after the other, until *)
(* one cannot be had.  A failed archive is removed.                        *)
(***************************************************************************)
Download(c) ==
    /\ call[c].at = "download"
    /\ \/ Arrived(c) /\ Item(c) = Failed /\ Return(c, "error")
       \/ /\ Arrived(c) /\ Item(c) # Failed /\ IsDir(Item(c))
          /\ TakeItem(c) /\ UNCHANGED call
       \/ /\ Arrived(c) /\ Item(c) # Failed /\ ~IsDir(Item(c))
          /\ \/ /\ Alive(c) /\ objects[Item(c)] # None
                /\ call' = [call EXCEPT ![c].keys = @ \cup {Item(c)}]
                /\ TakeItem(c)
             \/ Return(c, "error")
       \/ Listed(c) /\ Return(c, "ok")
    /\ UNCHANGED <<store, registry, dropped>>

\* Mutant of ListAllObjects: the error of the listing is forgotten.
ListAllObjectsForgets(c) ==
    /\ call[c].at = "listAll"
    /\ \/ /\ Arrived(c)
          /\ call' = [call EXCEPT ![c].keys = @ \cup ({Item(c)} \ {Failed})]
          /\ TakeItem(c)
       \/ Listed(c) /\ Return(c, "ok")
    /\ UNCHANGED <<store, registry, dropped>>

\* ListAllObjects reads the listing to its end.
ListAllObjects(c) ==
    /\ call[c].at = "listAll"
    /\ \/ /\ Arrived(c)
          /\ call' = [call EXCEPT ![c].failed = @ \/ Item(c) = Failed,
                                  ![c].keys = @ \cup ({Item(c)} \ {Failed})]
          /\ TakeItem(c)
       \/ Listed(c) /\ Return(c, IF call[c].failed THEN "error" ELSE "ok")
    /\ UNCHANGED <<store, registry, dropped>>

----------------------------------------------------------------------------
(***************************************************************************)
(* PutObject, and FPutDirectory as one such call per file.  An attempt     *)
(* reads the body; it stores the object, or fails, or fails after the      *)
(* object was stored.  A body that can seek is rewound and sent again,     *)
(* after a wait that the caller's context ends.                            *)
(***************************************************************************)
Content(c) == IF call[c].start THEN Job(c).content ELSE Torn
Retries(j) == j.op = "put" /\ j.seeker

\* What a failed attempt leaves: another one with the body at its start, or none.
Again(c) ==
    IF Retries(Job(c)) /\ call[c].tries + 1 < MaxRetries
    THEN [call EXCEPT ![c].at = "backoff", ![c].start = FALSE, ![c].tries = @ + 1]
    ELSE Returned(c, "error")

\* One attempt: what becomes of the caller when its object is stored.
Attempt(c, stored) ==
    \/ /\ Alive(c)
       /\ Store([objects EXCEPT ![Job(c).src] = Content(c)])
       /\ dropped' = dropped \cup (Overwritten(Job(c).src) \ {Content(c)})
       /\ call' = stored \/ call' = Again(c)
    \/ call' = Again(c) /\ UNCHANGED <<store, dropped>>

\* GetObject asks for the object and its description, FGetObject reads it then.
GetObject(c) ==
    /\ call[c].at = "get"
    /\ \/ Alive(c) /\ objects[Job(c).src] # None /\ Goto(c, "read") /\ UNCHANGED lister
       \/ Return(c, "error")
    /\ UNCHANGED <<store, registry, dropped>>

FGetObject(c) ==
    /\ call[c].at = "read"
    /\ \/ Alive(c) /\ objects[Job(c).src] # None /\ Return(c, "ok")
       \/ Return(c, "error")
    /\ UNCHANGED <<store, registry, dropped>>

PutObject(c) ==
    /\ call[c].at = "put" /\ Job(c).op = "put"
    /\ Attempt(c, Returned(c, "ok"))
    /\ UNCHANGED <<registry, lister>>

\* A local file that cannot be opened is not sent; a directory is its marker.
FPutObject(c) ==
    /\ call[c].at = "put" /\ Job(c).op = "fput"
    /\ \/ Attempt(c, Returned(c, "ok"))
       \/ call' = Returned(c, "error") /\ UNCHANGED <<store, dropped>>
    /\ UNCHANGED <<registry, lister>>

CreateDirectory(c) ==
    /\ call[c].at = "put" /\ Job(c).op = "mkdir"
    /\ Attempt(c, Returned(c, "ok"))
    /\ UNCHANGED <<registry, lister>>

FPutDirectory(c) ==
    /\ call[c].at = "put" /\ Job(c).op = "upload"
    /\ Attempt(c, IF Job(c).more = <<>> THEN Returned(c, "ok")
                  ELSE [call EXCEPT ![c].job.src = Head(Job(c).more), ![c].job.more = Tail(@)])
    /\ UNCHANGED <<registry, lister>>

\* retry: the body goes back to where it started.
Rewind(c) ==
    /\ call[c].at = "backoff"
    /\ \/ call' = [call EXCEPT ![c].at = "put", ![c].start = TRUE]
       \/ ~Alive(c) /\ call' = Returned(c, "error")
    /\ UNCHANGED <<store, registry, lister, dropped>>

----------------------------------------------------------------------------
Goes(c) ==
    \/ StartListing(c) \/ RenameOne(c) \/ RemoveOne(c) \/ RenameItem(c) \/ RenameDelete(c)
    \/ Collect(c) \/ Collected(c) \/ RemoveNext(c) \/ RemovedAll(c) \/ Stat(c) \/ Exist(c)
    \/ Download(c) \/ ListAllObjects(c) \/ PutObject(c) \/ FPutDirectory(c) \/ Rewind(c)
    \/ FPutObject(c) \/ CreateDirectory(c) \/ GetObject(c) \/ FGetObject(c)
Lists(c) == ListNext(c) \/ ListSend(c)

Next ==
    \/ \E n \in Names : RemoveClient(n) \/ \E e \in Endpoints : RegisterClient(n, e)
    \/ Close
    \/ \E c \in Callers : Begin(c) \/ GiveUp(c) \/ Goes(c) \/ Lists(c)

Spec ==
    /\ Init /\ [][Next]_vars
    /\ \A c \in Callers : WF_vars(Goes(c)) /\ WF_vars(Lists(c))

----------------------------------------------------------------------------
(***************************************************************************)
(* Properties.                                                             *)
(***************************************************************************)
TypeOK ==
    /\ objects \in [Keys -> {None, Torn} \cup Range(Stored) \cup Contents]
    /\ clients \in [Names -> Endpoints \cup {None}] /\ closed \in BOOLEAN
    /\ \A c \in Callers : call[c].result \in {"none", "ok", "error", "yes", "no"}

\* RenameObject deletes whatever is at its source, so nobody may move an object
\* there: what each rename removes, and where renames and copies may write.
RemovedBy(j) == IF j.dir THEN Under(j.src) ELSE {j.src}
Removed == UNION {RemovedBy(j) : j \in {j \in UNION {Asked(c) : c \in Callers} : j.op = "rename"}}
Apart ==
    \A c \in Callers : \A j \in Asked(c) :
        /\ j.op = "rename" /\ j.dir =>
             \A k \in Under(j.src) \ {MarkerOf(j.src)} : Moved(k, j.src, j.dst) \in Keys \ Removed
        /\ j.op = "copy" \/ (j.op = "rename" /\ ~j.dir) => j.dst \notin Removed

\* No failure of a listing, a copy or a removal, no cancelled context and no
\* client that is removed makes RenameObject lose an object: each content of
\* the beginning that nobody overwrote or deleted on demand is still there.
\* And no upload that is repeated leaves an object without its beginning.
\* What a rename deletes that it did not list itself (DeletesAnother) counts as
\* deleted on demand: there the code gives no such guarantee.
NothingLost ==
    \A k \in Keys :
        /\ Stored[k] \in {None} \cup dropped \/ Has(Stored[k]) \/ IsDir(k)
        /\ objects[k] # Torn

\* FGetDirectory "downloads all objects under prefix", ListAllObjects "collects
\* all objects under prefix", DeleteDirectory "deletes all objects under prefix",
\* RenameObject moves them: what was there all the while.
Complete(c) ==
    call[c].result = "ok" =>
        /\ Job(c).op = "listAll" => stable[c] \subseteq call[c].keys
        /\ Job(c).op = "download" =>
             {k \in stable[c] : ~IsDir(k)} \subseteq call[c].keys
        /\ Job(c).op \in {"delete", "rename"} => stable[c] = {}
AllListed == \A c \in Callers : Complete(c)

\* They do when the caller's context lives to the end of the call.
AllListedWhileAlive == \A c \in Callers : Alive(c) => Complete(c)

\* No goroutine of a listing is left blocked on its channel, however early
\* the operation that reads it returns: in the end all of them are gone.
ListersEnd == <>[](\A c \in Callers : lister[c].at \in {"none", "ended"})
=============================================================================
