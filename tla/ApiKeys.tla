-------------------------------- MODULE ApiKeys ---------------------------------
(* Personal API keys (apikeys.py) and how a request is identified by one          *)
(* (deps.get_current_user).  The key row is read, then stamped in a commit of its *)
(* own, and the handler runs afterwards; the limit is counted without a lock.     *)
EXTENDS Integers, FiniteSets

CONSTANTS
    KeyOwner, Key,
    KeyCall,             \* overlapping requests
    MaxKeys              \* _MAX_KEYS_PER_USER, 10 in the code

ASSUME KeysAssumption == MaxKeys \in Nat \ {0} /\ IsFiniteSet(KeyCall)

VARIABLES
    keys,                \* key -> [user, scope]
    revoked,             \* keys that were deleted
    keyCall              \* request -> what it holds between its steps

keyVars == <<keys, revoked, keyCall>>

NoKeyCall == [stage |-> "idle"]
Admitted(u, scope, k) == [stage |-> "admitted", user |-> u, scope |-> scope, key |-> k]

KeysInit == keys = <<>> /\ revoked = {} /\ keyCall = [c \in KeyCall |-> NoKeyCall]

ReadKey(c, k) ==
    /\ keyCall[c] = NoKeyCall /\ k \in DOMAIN keys
    /\ keyCall' = [keyCall EXCEPT ![c] = [stage |-> "stamp", key |-> k, row |-> keys[k]]]
    /\ UNCHANGED <<keys, revoked>>

\* Mutant of _resolve_api_key: the row read first is used without stamping it.
ResolveUnstamped(c) ==
    /\ keyCall[c].stage = "stamp"
    /\ keyCall' = [keyCall EXCEPT ![c] = Admitted(@.row.user, @.row.scope, @.key)]
    /\ UNCHANGED <<keys, revoked>>

\* The commit of last_used_at on a deleted row raises, as does the refresh after it.
_resolve_api_key(c) ==
    /\ keyCall[c].stage = "stamp"
    /\ LET k == keyCall[c].key
       IN  keyCall' = [keyCall EXCEPT ![c] =
               IF k \in DOMAIN keys THEN Admitted(keys[k].user, keys[k].scope, k) ELSE NoKeyCall]
    /\ UNCHANGED <<keys, revoked>>

\* Requests the routers modelled elsewhere serve, and every refusal.
Leave(c) ==
    /\ keyCall[c].stage = "admitted"
    /\ keyCall' = [keyCall EXCEPT ![c] = NoKeyCall]
    /\ UNCHANGED <<keys, revoked>>

\* A browser token reads no row and has full scope, so its request starts at the
\* handler; a runner key stops here.
require_full_scope(c, u) ==
    \/ keyCall[c] = NoKeyCall
    \/ keyCall[c].stage = "admitted" /\ keyCall[c].user = u /\ keyCall[c].scope # "runner"

KeysOf(u) == {k \in DOMAIN keys : keys[k].user = u}

\* Mutant of CountKeys: off by one at the limit.
CountKeysLoose(c, u, scope) ==
    /\ require_full_scope(c, u)
    /\ Cardinality(KeysOf(u)) <= MaxKeys
    /\ keyCall' = [keyCall EXCEPT ![c] = [stage |-> "create", user |-> u, scope |-> scope]]
    /\ UNCHANGED <<keys, revoked>>

\* create_api_key up to its insert.
CountKeys(c, u, scope) ==
    /\ require_full_scope(c, u)
    /\ Cardinality(KeysOf(u)) < MaxKeys
    /\ keyCall' = [keyCall EXCEPT ![c] = [stage |-> "create", user |-> u, scope |-> scope]]
    /\ UNCHANGED <<keys, revoked>>

\* A token is drawn at random and never twice.
InsertKey(c, k) ==
    /\ keyCall[c].stage = "create"
    /\ k \notin DOMAIN keys \cup revoked
    /\ keys' = [x \in DOMAIN keys \cup {k} |->
           IF x = k THEN [user |-> keyCall[c].user, scope |-> keyCall[c].scope] ELSE keys[x]]
    /\ keyCall' = [keyCall EXCEPT ![c] = NoKeyCall]
    /\ UNCHANGED revoked

revoke_api_key(c, u, k) ==
    /\ require_full_scope(c, u) /\ k \in KeysOf(u)
    /\ keys' = [x \in DOMAIN keys \ {k} |-> keys[x]]
    /\ revoked' = revoked \cup {k}
    /\ keyCall' = [keyCall EXCEPT ![c] = NoKeyCall]

KeysNext ==
    \E c \in KeyCall :
        \/ _resolve_api_key(c) \/ Leave(c)
        \/ \E k \in Key : ReadKey(c, k) \/ InsertKey(c, k)
        \/ \E u \in KeyOwner : \/ \E scope \in {"full", "runner"} : CountKeys(c, u, scope)
                              \/ \E k \in Key : revoke_api_key(c, u, k)

KeysSpec == KeysInit /\ [][KeysNext]_keyVars

---------------------------------------------------------------------------------
(* Properties. *)

\* The keys are counted without a lock, so overlapping requests may pass the limit
\* together: counting those on their way, by one per request beyond the first, never
\* more (create_api_key).
KeysOvershootByOverlap ==
    \A u \in KeyOwner :
        LET pending == {c \in KeyCall : keyCall[c].stage = "create" /\ keyCall[c].user = u}
        IN  Cardinality(KeysOf(u)) + Cardinality(pending) <= MaxKeys + Cardinality(KeyCall) - 1

\* A request holding a key its owner revoked in the meantime is not admitted: between
\* the read of the key and its stamp the row may go, and then the stamp fails.
RevokedKeyAdmitsNobody ==
    [][\A c \in KeyCall :
          keyCall'[c].stage = "admitted" /\ keyCall[c].stage # "admitted"
              => keyCall'[c].key \notin revoked]_keyVars
===============================================================================
