---------------------------- MODULE ResponseCache ----------------------------
(***************************************************************************)
(* The response cache of the HTTP middleware, behind the content-type      *)
(* check: a request that misses runs its handler, and its answer is stored *)
(* once its body was read.  An answer is the handler's view of the server  *)
(* at one moment, for what the request asked.                              *)
(***************************************************************************)
EXTENDS Naturals, Sequences, SequencesExt, FiniteSets

CONSTANTS
  CacheRequests,
  CacheKeys,       \* method and URI
  Asks,            \* what a request asks, its body included
  CacheSize, TTL,
  MaxCacheClock    \* bound of a behaviour

ASSUME CacheAssumption == TTL \in Nat /\ CacheSize \in Nat \ {0} /\ MaxCacheClock \in Nat

VARIABLES
  entries,     \* ResponseCache.entries: key -> its entry
  recent,      \* the keys of the entries, the most recently used last
  cacheReq,    \* request -> its state and answer
  cacheNow,
  cleared      \* history: when clear was called last

cacheVars == <<entries, recent, cacheReq, cacheNow, cleared>>

NoAnswer == [status |-> "none", ask |-> "none", at |-> 0, empty |-> FALSE]
CacheInit ==
  /\ entries = <<>> /\ recent = <<>>
  /\ cacheReq = [r \in CacheRequests |-> [pc |-> "new", key |-> "none", ask |-> "none", hit |-> FALSE,
                                expires |-> 0, served |-> 0, answer |-> NoAnswer]]
  /\ cacheNow = 0 /\ cleared = 0

\* request_validator_middleware: a POST of another content type is refused.
ArriveRequest(r) ==
  /\ cacheReq[r].pc = "new"
  /\ \E k \in CacheKeys, a \in Asks, pc \in {"get", "refused"} :
       cacheReq' = [cacheReq EXCEPT ![r].pc = pc, ![r].key = k, ![r].ask = a]
  /\ UNCHANGED <<entries, recent, cacheNow, cleared>>

\* LruCache: get makes the key the most recently used, pop takes the entry out,
\* and put makes room at the limit by dropping the least recently used one.
WithoutKey(k) == SelectSeq(recent, LAMBDA x : x # k)
Touch(k) == recent' = Append(WithoutKey(k), k) /\ UNCHANGED entries
Pop(keys) ==
  /\ entries' = [k \in DOMAIN entries \ keys |-> entries[k]]
  /\ recent' = SelectSeq(recent, LAMBDA x : x \notin keys)
PutEntry(k, e) ==
  LET rest == WithoutKey(k)
      room == IF Len(rest) < CacheSize THEN rest ELSE Tail(rest)
      kept == Range(room) \cap DOMAIN entries
  IN /\ recent' = Append(room, k)
     /\ entries' = [x \in kept \cup {k} |-> IF x = k THEN e ELSE entries[x]]

Hit(r) ==
  cacheReq' = [cacheReq EXCEPT ![r].pc = "done", ![r].hit = TRUE,
                 ![r].answer = entries[cacheReq[r].key].answer, ![r].served = cacheNow]

\* A mutant of Get: the expiry is left to cleanup.
GetExpired(r) ==
  /\ cacheReq[r].pc = "get"
  /\ IF cacheReq[r].key \in DOMAIN entries
     THEN Hit(r) /\ Touch(cacheReq[r].key)
     ELSE cacheReq' = [cacheReq EXCEPT ![r].pc = "run"] /\ UNCHANGED <<entries, recent>>
  /\ UNCHANGED <<cacheNow, cleared>>

\* ResponseCache::get: a hit is the most recently used, an expired entry goes.
Get(r) ==
  LET key == cacheReq[r].key IN
  /\ cacheReq[r].pc = "get"
  /\ IF key \in DOMAIN entries /\ entries[key].expires > cacheNow
     THEN Hit(r) /\ Touch(key)
     ELSE cacheReq' = [cacheReq EXCEPT ![r].pc = "run"] /\ Pop({key})
  /\ UNCHANGED <<cacheNow, cleared>>

Answer(r, status) == [status |-> status, ask |-> cacheReq[r].ask,
                      at |-> cacheNow, empty |-> FALSE]

\* A mutant of Run: every answer is stored.
RunKeepsAll(r) ==
  /\ cacheReq[r].pc = "run"
  /\ \E status \in {"success", "error"} :
       cacheReq' = [cacheReq EXCEPT ![r].pc = "body", ![r].expires = cacheNow + TTL,
                          ![r].answer = Answer(r, status)]
  /\ UNCHANGED <<entries, recent, cacheNow, cleared>>

\* next.run, and the lifetime set counts from its end.
Run(r) ==
  /\ cacheReq[r].pc = "run"
  /\ \E status \in {"success", "error"} :
       cacheReq' = [cacheReq EXCEPT ![r].pc = IF status = "success" THEN "body" ELSE "done",
                          ![r].expires = cacheNow + TTL, ![r].answer = Answer(r, status)]
  /\ UNCHANGED <<entries, recent, cacheNow, cleared>>

\* The body was read: the entry replaces the key's, or the least recently used
\* one.  A body over 10 MB is not stored, and not sent either.
Put(r) ==
  /\ cacheReq[r].pc = "body"
  /\ \/ /\ PutEntry(cacheReq[r].key,
                    [answer |-> cacheReq[r].answer, expires |-> cacheReq[r].expires])
        /\ cacheReq' = [cacheReq EXCEPT ![r].pc = "done"]
     \/ /\ cacheReq' = [cacheReq EXCEPT ![r].pc = "done", ![r].answer.empty = TRUE]
        /\ UNCHANGED <<entries, recent>>
  /\ UNCHANGED <<cacheNow, cleared>>

RemoveExpired ==
  /\ Pop({k \in DOMAIN entries : entries[k].expires <= cacheNow})
  /\ UNCHANGED <<cacheReq, cacheNow, cleared>>
Clear == /\ entries' = <<>> /\ recent' = <<>> /\ cleared' = cacheNow
         /\ UNCHANGED <<cacheReq, cacheNow>>
Tick == /\ cacheNow < MaxCacheClock /\ cacheNow' = cacheNow + 1
        /\ UNCHANGED <<entries, recent, cacheReq, cleared>>

CacheNext == \/ \E r \in CacheRequests : ArriveRequest(r) \/ Get(r) \/ Run(r) \/ Put(r)
             \/ RemoveExpired \/ Clear \/ Tick
CacheSpec == CacheInit /\ [][CacheNext]_cacheVars

-----------------------------------------------------------------------------
\* A hit is less than the TTL old, counted from when its handler was done and
\* not from when its body was stored, with no cleanup needed.
HitFresh ==
  \A r \in CacheRequests : cacheReq[r].hit => cacheReq[r].served < cacheReq[r].answer.at + TTL
\* A hit is a success, whatever the requests that raced for the key got.
HitSucceeded ==
  \A r \in CacheRequests : cacheReq[r].hit => cacheReq[r].answer.status = "success"

\* A hit is fresh and a success, whatever the requests that raced for the key got.
HitsHonest == HitFresh /\ HitSucceeded

-----------------------------------------------------------------------------
(* Claims that do not hold; the README's table says why. *)

\* "Clear all entries from the cache": no later hit is older than the clear.
ClearForgets ==
  \A r \in CacheRequests : cacheReq[r].hit /\ cacheReq[r].served > cleared => cacheReq[r].answer.at >= cleared

\* A hit answers what was asked.
HitOwn == \A r \in CacheRequests : cacheReq[r].hit => cacheReq[r].answer.ask = cacheReq[r].ask

\* "Returns the response (cloned body) so the caller can still use it".
BodyReturned == \A r \in CacheRequests : cacheReq[r].pc = "done" => ~ cacheReq[r].answer.empty
=============================================================================
