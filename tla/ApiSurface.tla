------------------------------- MODULE ApiSurface -------------------------------
(* API operations and the exchanges promoted to them (api_surface.py).  A promotion *)
(* creates its operation in a savepoint and counts itself in SQL; a deletion writes *)
(* back the count it read.                                                          *)
EXTENDS Integers, FiniteSets

CONSTANTS
    Operation,           \* method and canonical key
    Exchange,            \* exchange ids, never reused
    ApiCall              \* overlapping requests

VARIABLES
    observation_count,   \* operation -> count; its domain: the endpoints stored
    exchanges,           \* exchange -> its operation
    retired,             \* exchanges deleted so far
    apiCall,             \* request -> what it holds between its steps
    overlapped           \* operations whose count a deletion wrote from a stale read

apiVars == <<observation_count, exchanges, retired, apiCall, overlapped>>

NoApiCall == [stage |-> "idle"]

ApiInit ==
    /\ observation_count = <<>> /\ exchanges = <<>> /\ retired = {} /\ overlapped = {}
    /\ apiCall = [c \in ApiCall |-> NoApiCall]

\* The lookup of create_exchange.
FindEndpoint(c, op) ==
    /\ apiCall[c] = NoApiCall
    /\ apiCall' = [apiCall EXCEPT ![c] = [stage |-> "promote", op |-> op,
                       found |-> op \in DOMAIN observation_count,
                       count |-> IF op \in DOMAIN observation_count THEN observation_count[op] ELSE 0]]
    /\ UNCHANGED <<observation_count, exchanges, retired, overlapped>>

\* Mutant of NewCount: the count read with the endpoint, plus one.
NewCountFromRead(c) == apiCall[c].count + 1

\* The UPDATE counts in SQL, from whatever is stored by then.
NewCount(c) ==
    IF apiCall[c].op \in DOMAIN observation_count THEN observation_count[apiCall[c].op] + 1 ELSE 1

\* Mutant of CommitExchange: an operation created since the lookup aborts the promotion.
CommitOrAbort(c, x) ==
    /\ apiCall[c].stage = "promote" /\ x \in Exchange \ (DOMAIN exchanges \cup retired)
    /\ apiCall' = [apiCall EXCEPT ![c] = NoApiCall]
    /\ LET op == apiCall[c].op
       IN  IF ~apiCall[c].found /\ op \in DOMAIN observation_count
           THEN UNCHANGED <<observation_count, exchanges>>
           ELSE /\ observation_count' = [o \in DOMAIN observation_count \cup {op} |->
                       IF o = op THEN NewCount(c) ELSE observation_count[o]]
                /\ exchanges' = [y \in DOMAIN exchanges \cup {x} |->
                       IF y = x THEN op ELSE exchanges[y]]
    /\ UNCHANGED <<retired, overlapped>>

\* An operation created since the lookup costs only the savepoint, and is reused.
CommitExchange(c, x) ==
    /\ apiCall[c].stage = "promote" /\ x \in Exchange \ (DOMAIN exchanges \cup retired)
    /\ LET op == apiCall[c].op
       IN  /\ observation_count' = [o \in DOMAIN observation_count \cup {op} |->
                  IF o = op THEN NewCount(c) ELSE observation_count[o]]
           /\ exchanges' = [y \in DOMAIN exchanges \cup {x} |->
                  IF y = x THEN op ELSE exchanges[y]]
    /\ apiCall' = [apiCall EXCEPT ![c] = NoApiCall]
    /\ UNCHANGED <<retired, overlapped>>

\* delete_exchange loads the row and its endpoint ...
LoadExchange(c, x) ==
    /\ apiCall[c] = NoApiCall /\ x \in DOMAIN exchanges
    /\ apiCall' = [apiCall EXCEPT ![c] = [stage |-> "delete", exchange |-> x, op |-> exchanges[x],
                                          count |-> observation_count[exchanges[x]]]]
    /\ UNCHANGED <<observation_count, exchanges, retired, overlapped>>

\* ... and writes the count it loaded, less one; deleting a row that is gone is no error.
CommitDelete(c) ==
    /\ apiCall[c].stage = "delete"
    /\ LET op == apiCall[c].op
           x == apiCall[c].exchange
           new == IF apiCall[c].count > 0 THEN apiCall[c].count - 1 ELSE 0
       IN  /\ observation_count' = [observation_count EXCEPT ![op] =
                  IF new = apiCall[c].count THEN @ ELSE new]
           /\ exchanges' = [y \in DOMAIN exchanges \ {x} |-> exchanges[y]]
           /\ retired' = retired \cup {x}
           /\ overlapped' = IF x \in retired \/ observation_count[op] # apiCall[c].count
                            THEN overlapped \cup {op} ELSE overlapped
    /\ apiCall' = [apiCall EXCEPT ![c] = NoApiCall]

ApiNext ==
    \E c \in ApiCall :
        \/ \E op \in Operation : FindEndpoint(c, op)
        \/ \E x \in Exchange : CommitExchange(c, x) \/ LoadExchange(c, x)
        \/ CommitDelete(c)

ApiSpec == ApiInit /\ [][ApiNext]_apiVars

---------------------------------------------------------------------------------
(* Properties. *)

ExchangesOf(op) == {x \in DOMAIN exchanges : exchanges[x] = op}

\* An endpoint counts its exchanges exactly, whatever promotions and deletions ran, until
\* a deletion overlapped another change of the same endpoint and wrote back a stale count;
\* promotions alone never lose one (create_exchange, delete_exchange).
CountExactUntilOverlap ==
    \A op \in DOMAIN observation_count \ overlapped :
        observation_count[op] = Cardinality(ExchangesOf(op))

\* Two promotions that create the same operation at once are both kept: a commit always
\* adds its exchange (the savepoint of create_exchange).
PromotionNeverLost ==
    [][\A c \in ApiCall :
          apiCall[c].stage = "promote" /\ apiCall'[c] = NoApiCall
              => Cardinality(DOMAIN exchanges') = Cardinality(DOMAIN exchanges) + 1]_apiVars
===============================================================================
