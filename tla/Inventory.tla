-------------------------------- MODULE Inventory -------------------------------
(* What tools report and how it is stored: imports (imports.py), the asset graph    *)
(* (assets.py), services (services.py) and provenance links (provenance.py).        *)
(* import_results is a coroutine that awaits only the upload: from its parse to its *)
(* commit it keeps the event loop of the single process, so no two imports overlap  *)
(* there.  Service posts run in worker threads and overlap everything; each handler *)
(* is one transaction, which meets the constraints when it commits.  Its queries are  *)
(* steps of their own: each sees what is committed by then (READ COMMITTED).  What a   *)
(* tool says of a host or a service beyond its key is left out.                       *)
EXTENDS Integers, Sequences, FiniteSets

CONSTANTS
    MaxRows,             \* bound: recon and scan rows
    ServiceId,
    ScanJob,             \* jobs an upload may name
    Handler,             \* overlapping uploads and service posts
    Batch,               \* uploads: [tool, items], items a sequence of observations
    Listening,           \* services: [host, port, protocol]
    Nothing              \* None; the host of a value parse cannot classify

\* A link names its row and its service in different columns, so no id is both.
ASSUME InventoryAssumption ==
    /\ Nothing \notin Handler \cup ScanJob \cup ServiceId
    /\ ServiceId \cap Nat = {} /\ MaxRows \in Nat
    /\ \A batch \in Batch : /\ Len(batch.items) \in Nat
                            /\ DOMAIN batch.items = 1..Len(batch.items)
    /\ \A svc \in Listening :
          /\ svc = [host |-> svc.host, port |-> svc.port, protocol |-> svc.protocol]
          /\ svc.port # Nothing

VARIABLES
    assets,              \* canonical keys [host, port]; unique per engagement
    edges,               \* exposes edges, pairs of canonical keys
    rows,                \* recon and scan rows: id -> [tool, key, asset]
    drawnRows,           \* ids drawn for rows so far; they are numbered in that order
    services,            \* service id -> [at, asset]
    links,               \* JobResultLink: pairs of a job and a row or service id
    jobsKept,            \* jobs not deleted yet
    loop,                \* the import that holds the event loop
    handler,             \* handler -> what it holds between its steps
    observed,            \* what committed uploads reported: pairs of a job and a row
    dropped,             \* ids of services deleted so far; no id is drawn twice
    raced                \* services inserted while another post that found none was under way

inventoryVars == <<assets, edges, rows, drawnRows, services, links, jobsKept, loop, handler,
                   observed, dropped, raced>>
importRows == <<assets, edges, rows, drawnRows, services, links, jobsKept, observed, dropped, raced>>

NoWork == [stage |-> "idle"]

InventoryInit ==
    /\ assets = {} /\ edges = {} /\ links = {} /\ observed = {}
    /\ rows = <<>> /\ drawnRows = 0 /\ services = <<>> /\ dropped = {} /\ raced = {}
    /\ jobsKept = ScanJob /\ loop = Nothing
    /\ handler = [h \in Handler |-> NoWork]

---------------------------------------------------------------------------------
(* assets.py *)

\* An observed string is [scheme, host, port].  Nothing stands for what is absent, and
\* for the host of a string that names none.
parse(o, default_port) ==
    IF o.host = Nothing THEN Nothing
    ELSE [host |-> o.host,
          port |-> IF o.port # Nothing THEN o.port
                   ELSE IF default_port # Nothing THEN default_port
                   ELSE IF o.scheme = "https" THEN 443
                   ELSE IF o.scheme = "http" THEN 80
                   ELSE Nothing]

\* The node an upsert finds or creates: a set of no or one canonical key.
upsert(o, default_port, host_level) ==
    LET identity == parse(o, default_port)
    IN  IF identity = Nothing THEN {}
        ELSE IF host_level THEN {[identity EXCEPT !.port = Nothing]}
        ELSE {identity}

OnlyOf(S) == IF S = {} THEN Nothing ELSE CHOOSE x \in S : TRUE

---------------------------------------------------------------------------------
(* imports.py *)

UrlTool == {"ffuf", "katana", "gau"}

\* What makes two reports of one tool the same row: the url for the url tools, the host for
\* httpx, place and kind for dalfox.  nuclei is never deduplicated, and neither is the row of a
\* url tool that has no url.
DedupKey(tool, o) ==
    CASE tool = "httpx" -> o.host
      [] tool = "nuclei" -> Nothing
      [] tool \in UrlTool /\ o.host = Nothing -> Nothing
      [] OTHER -> o

Same(tool, o) == {r \in DOMAIN rows : rows[r].tool = tool /\ rows[r].key = DedupKey(tool, o)}

\* The first report of each key in the upload that no stored row answers.
Fresh(tool, items) ==
    {n \in DOMAIN items :
        LET key == DedupKey(tool, items[n])
        IN  \/ key = Nothing
            \/ /\ Same(tool, items[n]) = {}
               /\ \A m \in 1..(n - 1) : DedupKey(tool, items[m]) # key}

\* Up to await file.read: the named job must belong to the engagement now.
ReceiveUpload(i, batch, job) ==
    /\ handler[i] = NoWork
    /\ job \in jobsKept \cup {Nothing}
    /\ handler' = [handler EXCEPT ![i] = [stage |-> "reading", batch |-> batch, job |-> job]]
    /\ UNCHANGED <<importRows, loop>>

\* Mutant of ParseUpload: an ordinary function, which worker threads run side by side.
ParseAnyway(i) ==
    /\ handler[i].stage = "reading"
    /\ LET batch == handler[i].batch
           new == Fresh(batch.tool, batch.items)
           nodes == UNION {upsert(batch.items[n], Nothing, TRUE) : n \in new}
       IN  handler' = [handler EXCEPT ![i] =
               [stage |-> "writing", batch |-> batch, job |-> @.job, new |-> new,
                nodes |-> nodes \ assets]]
    /\ loop' = i
    /\ UNCHANGED importRows

\* The reads: which reports are new, and which nodes they need that are not stored.
ParseUpload(i) ==
    /\ handler[i].stage = "reading" /\ loop = Nothing
    /\ LET batch == handler[i].batch
           new == Fresh(batch.tool, batch.items)
           nodes == UNION {upsert(batch.items[n], Nothing, TRUE) : n \in new}
       IN  handler' = [handler EXCEPT ![i] =
               [stage |-> "writing", batch |-> batch, job |-> @.job, new |-> new,
                nodes |-> nodes \ assets]]
    /\ loop' = i
    /\ UNCHANGED importRows

\* A node another transaction committed meanwhile, or a job deleted meanwhile, fails
\* the transaction: uq_asset_canonical, the foreign key of JobResultLink.
ImportConflicts(i) ==
    \/ handler[i].nodes \cap assets # {}
    \/ handler[i].job # Nothing /\ handler[i].job \notin jobsKept

AbortImport(i) ==
    /\ handler[i].stage = "writing" /\ ImportConflicts(i)
    /\ handler' = [handler EXCEPT ![i] = NoWork]
    /\ loop' = Nothing
    /\ UNCHANGED importRows

\* The rows the fresh reports become, their ids in the order of the upload.
Added(batch, new) ==
    [r \in {drawnRows + n : n \in new} |->
        LET item == batch.items[r - drawnRows]
        IN  [tool |-> batch.tool, key |-> DedupKey(batch.tool, item),
             asset |-> OnlyOf(upsert(item, Nothing, TRUE))]]

\* Rows of the tool that the upload reports, by their key.
About(batch, stored) ==
    {r \in DOMAIN stored :
        /\ stored[r].tool = batch.tool /\ stored[r].key # Nothing
        /\ \E n \in DOMAIN batch.items : stored[r].key = DedupKey(batch.tool, batch.items[n])}

\* Mutant of Linked: only the rows this upload added.
LinkedNew(batch, stored) == DOMAIN stored \ DOMAIN rows

\* The rows linked to the job: every row the upload added, every known one it reported.  The
\* url tools find both by their url, so they link no row without one.
Linked(batch, stored) ==
    (IF batch.tool \in UrlTool THEN {} ELSE DOMAIN stored \ DOMAIN rows) \cup About(batch, stored)

CommitImport(i) ==
    /\ handler[i].stage = "writing" /\ ~ImportConflicts(i)
    /\ LET batch == handler[i].batch
           job == {handler[i].job} \ {Nothing}
           added == Added(batch, handler[i].new)
           stored == [r \in DOMAIN rows \cup DOMAIN added |->
                         IF r \in DOMAIN rows THEN rows[r] ELSE added[r]]
       IN  /\ Cardinality(DOMAIN stored) <= MaxRows
           /\ rows' = stored
           /\ drawnRows' = IF handler[i].new = {} THEN drawnRows ELSE drawnRows + Len(batch.items)
           /\ links' = links \cup (job \X Linked(batch, stored))
           /\ observed' = observed \cup (job \X About(batch, stored))
    /\ assets' = assets \cup handler[i].nodes
    /\ handler' = [handler EXCEPT ![i] = NoWork]
    /\ loop' = Nothing
    /\ UNCHANGED <<edges, services, jobsKept, dropped, raced>>

---------------------------------------------------------------------------------
(* services.py *)

Bare(svc) == [scheme |-> "", host |-> svc.host, port |-> Nothing]

\* The nodes of a service: its host, and the host's port whatever the protocol.
HostNode(svc) == upsert(Bare(svc), Nothing, FALSE)
PortNode(svc) == upsert(Bare(svc), svc.port, FALSE)

\* Mutant of LookupService: the post inserts without looking for the service.
InsertUnseen(p, svc, job) ==
    /\ handler[p] = NoWork
    /\ job \in jobsKept \cup {Nothing}
    /\ handler' = [handler EXCEPT ![p] =
           [stage |-> "host", at |-> svc, job |-> job, existing |-> Nothing, nodes |-> {}, edges |-> {}]]
    /\ UNCHANGED <<importRows, loop>>

\* bulk_create_services, for one service: the query for the service itself.  A known one has
\* its node and is updated; one whose host names no asset has none and gets none.
LookupService(p, svc, job) ==
    /\ handler[p] = NoWork
    /\ job \in jobsKept \cup {Nothing}
    /\ LET known == {s \in DOMAIN services : services[s].at = svc}
       IN  \E s \in IF known = {} THEN {Nothing} ELSE known :
             handler' = [handler EXCEPT ![p] =
                 [stage |-> IF known = {} THEN "host" ELSE "posting", at |-> svc, job |-> job,
                  existing |-> s, nodes |-> {}, edges |-> {}]]
    /\ UNCHANGED <<importRows, loop>>

\* For a new service then, one query after the other: the node of the host, the node of the
\* port, the edge between them.  What is not there is to be inserted.
LookupHost(p) ==
    /\ handler[p].stage = "host"
    /\ handler' = [handler EXCEPT ![p] =
           [@ EXCEPT !.stage = "port", !.nodes = HostNode(handler[p].at) \ assets]]
    /\ UNCHANGED <<importRows, loop>>

LookupPort(p) ==
    /\ handler[p].stage = "port"
    /\ handler' = [handler EXCEPT ![p] =
           [@ EXCEPT !.stage = "edge",
                     !.nodes = handler[p].nodes \cup (PortNode(handler[p].at) \ assets)]]
    /\ UNCHANGED <<importRows, loop>>

LookupEdge(p) ==
    /\ handler[p].stage = "edge"
    /\ handler' = [handler EXCEPT ![p] =
           [@ EXCEPT !.stage = "posting",
                     !.edges = (HostNode(handler[p].at) \X PortNode(handler[p].at)) \ edges]]
    /\ UNCHANGED <<importRows, loop>>

\* Mutant of PostConflicts: no foreign key on the job of a link.
PostJobUnchecked(p) ==
    \/ handler[p].nodes \cap assets # {} \/ handler[p].edges \cap edges # {}
    \/ handler[p].existing # Nothing /\ handler[p].existing \notin DOMAIN services

\* The unique constraints on nodes and edges, the foreign key on the job, and the row
\* to update deleted meanwhile.
PostConflicts(p) ==
    \/ handler[p].nodes \cap assets # {} \/ handler[p].edges \cap edges # {}
    \/ handler[p].job # Nothing /\ handler[p].job \notin jobsKept
    \/ handler[p].existing # Nothing /\ handler[p].existing \notin DOMAIN services

AbortPost(p) ==
    /\ handler[p].stage = "posting" /\ PostConflicts(p)
    /\ handler' = [handler EXCEPT ![p] = NoWork]
    /\ UNCHANGED <<importRows, loop>>

\* q looked for the service and found none.
Inserting(q, svc) ==
    /\ handler[q].stage \in {"host", "port", "edge", "posting"}
    /\ handler[q].at = svc /\ handler[q].existing = Nothing

CommitInsert(p, s) ==
    /\ handler[p].stage = "posting" /\ ~PostConflicts(p) /\ handler[p].existing = Nothing
    /\ s \in ServiceId \ (DOMAIN services \cup dropped)
    /\ LET at == handler[p].at
       IN  /\ services' = [x \in DOMAIN services \cup {s} |->
                  IF x = s THEN [at |-> at, asset |-> OnlyOf(PortNode(at))] ELSE services[x]]
           /\ raced' = IF \E q \in Handler \ {p} : Inserting(q, at) THEN raced \cup {at} ELSE raced
    /\ links' = links \cup (({handler[p].job} \ {Nothing}) \X {s})
    /\ assets' = assets \cup handler[p].nodes /\ edges' = edges \cup handler[p].edges
    /\ handler' = [handler EXCEPT ![p] = NoWork]
    /\ UNCHANGED <<rows, drawnRows, jobsKept, loop, observed, dropped>>

CommitUpdate(p) ==
    /\ handler[p].stage = "posting" /\ ~PostConflicts(p) /\ handler[p].existing # Nothing
    /\ links' = links \cup (({handler[p].job} \ {Nothing}) \X {handler[p].existing})
    /\ handler' = [handler EXCEPT ![p] = NoWork]
    /\ UNCHANGED <<assets, edges, rows, drawnRows, services, jobsKept, loop, observed, dropped, raced>>

delete_service(s) ==
    /\ services' = [x \in DOMAIN services \ {s} |-> services[x]]
    /\ links' = {l \in links : l[2] # s}
    /\ dropped' = dropped \cup {s}
    /\ UNCHANGED <<assets, edges, rows, drawnRows, jobsKept, handler, loop, observed, raced>>

\* delete_job: the links of the job go with it, what it found stays.
DropJob(j) ==
    /\ j \in jobsKept
    /\ jobsKept' = jobsKept \ {j}
    /\ links' = {l \in links : l[1] # j}
    /\ UNCHANGED <<assets, edges, rows, drawnRows, services, handler, loop, observed, dropped, raced>>

InventoryNext ==
    \/ \E i \in Handler :
          \/ \E batch \in Batch, job \in ScanJob \cup {Nothing} : ReceiveUpload(i, batch, job)
          \/ ParseUpload(i) \/ AbortImport(i) \/ CommitImport(i)
    \/ \E p \in Handler :
          \/ \E svc \in Listening, job \in ScanJob \cup {Nothing} : LookupService(p, svc, job)
          \/ LookupHost(p) \/ LookupPort(p) \/ LookupEdge(p)
          \/ AbortPost(p) \/ CommitUpdate(p) \/ \E s \in ServiceId : CommitInsert(p, s)
    \/ \E s \in DOMAIN services : delete_service(s)
    \/ \E j \in ScanJob : DropJob(j)

InventorySpec == InventoryInit /\ [][InventoryNext]_inventoryVars

---------------------------------------------------------------------------------
(* Properties. *)

\* Re-importing, chunked uploads and overlapping uploads never store a report twice.  No
\* constraint says so: it rests on an import keeping the event loop from the read of the
\* stored rows to its commit (imports.py).
RowsNeverDuplicated ==
    \A r, s \in DOMAIN rows :
        rows[r].tool = rows[s].tool /\ rows[r].key = rows[s].key /\ rows[r].key # Nothing => r = s

\* A row known before is an observation of the later job too: as long as job and row
\* exist, what the job reported is linked to it (provenance.link_result).
ObservationsKept ==
    \A o \in observed : o[1] \in jobsKept => o \in links

\* Links, rows and services name only what exists.
InventoryTypeOK ==
    /\ \A l \in links : l[1] \in jobsKept /\ l[2] \in DOMAIN rows \cup DOMAIN services
    /\ \A r \in DOMAIN rows : rows[r].asset \in assets \cup {Nothing}
    /\ \A s \in DOMAIN services : services[s].asset \in assets \cup {Nothing}
    /\ edges \subseteq assets \X assets

\* A post updates the service if the combination of host, port and protocol exists already
\* rather than creating a duplicate (services.bulk_create_services).
ServicesUpserted ==
    \A s, t \in DOMAIN services : services[s].at = services[t].at => s = t

\* No constraint makes a service unique, and the keys of its nodes do not either: a post may find
\* no service and then the nodes that another post stored with it.  A service is stored twice
\* only if two posts that had both found none were under way together; a post that begins after
\* the service was stored updates it.
ServiceStoredOnce ==
    \A s, t \in DOMAIN services :
        services[s].at = services[t].at /\ s # t => services[s].at \in raced
===============================================================================
