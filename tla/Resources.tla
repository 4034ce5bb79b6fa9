----------------------------- MODULE Resources -----------------------------
(***************************************************************************)
(* The resource store of src/resources.rs: registration, listing by pages, *)
(* reading, subscriptions, and the queue of updates that a poll takes.     *)
(* One mutex guards the store, so each operation is one step; a client's   *)
(* listing takes several, and registrations fall between them.             *)
(***************************************************************************)
EXTENDS Integers, Sequences, SequencesExt, FiniteSets

CONSTANTS
    Uris,                     \* resource identifiers
    SubscriberIds,            \* subscriber ids; a request without one uses "default"
    Pagers,                   \* clients that list the resources
    MAX_RESOURCES,            \* 10 000 in the code
    MAX_SUBSCRIBED_URIS,      \* 256
    MAX_SUBSCRIBERS_PER_URI,  \* 1000
    MaxPending,               \* 10 000: pending updates before the oldest are dropped
    PageSize,                 \* DEFAULT_PAGE_SIZE, 100
    MaxUpdates                \* bound: updates reported

ASSUME ResourcesAssumption ==
    /\ {MAX_RESOURCES, MAX_SUBSCRIBED_URIS, MAX_SUBSCRIBERS_PER_URI, PageSize, MaxUpdates} \subseteq Nat
    /\ MaxPending \in Nat /\ MaxPending >= 2

VARIABLES
    resources,      \* the list, as registered: [uri, kind]
    subscriptions,  \* subscriber ids by URI; a URI without any has no key
    pending,        \* pending_updates, by number
    reported,       \* history: how many updates of registered resources
    drained,        \* history: the last update a poll took
    unpolled,       \* history: updates reported since the last poll, dropped ones too
    pager           \* per client: the cursor it was given and what it has collected

resourceVars == <<resources, subscriptions, pending, reported, drained, unpolled, pager>>

Sources == {"file", "db", "api"}
NoCursor == -1
Registered(u) == \E i \in DOMAIN resources : resources[i].uri = u

ResourcesInit ==
    /\ resources = <<>>
    /\ subscriptions = <<>>
    /\ pending = <<>> /\ reported = 0 /\ drained = 0 /\ unpolled = 0
    /\ pager = [c \in Pagers |-> [cursor |-> 0, got |-> <<>>]]

\* register_file_resource, register_db_resource and register_api_resource: a URI
\* may be registered again, also from another source.
Register(u, k) ==
    /\ Len(resources) < MAX_RESOURCES
    /\ resources' = Append(resources, [uri |-> u, kind |-> k])
    /\ UNCHANGED <<subscriptions, pending, reported, drained, unpolled, pager>>

\* read_resource: a file is preferred to a query, a query to an endpoint,
\* whatever the order of registration.
ReadFrom(u) ==
    LET kinds == {resources[i].kind : i \in {j \in DOMAIN resources : resources[j].uri = u}}
    IN  IF "file" \in kinds THEN "file"
        ELSE IF "db" \in kinds THEN "db"
        ELSE IF "api" \in kinds THEN "api" ELSE "not found"

\* subscribe, when it is not refused.
Subscribe(u, id) ==
    LET have == IF u \in DOMAIN subscriptions THEN subscriptions[u] ELSE {} IN
    /\ Registered(u)
    /\ u \in DOMAIN subscriptions \/ Cardinality(DOMAIN subscriptions) < MAX_SUBSCRIBED_URIS
    /\ Cardinality(have) < MAX_SUBSCRIBERS_PER_URI
    /\ subscriptions' = [v \in DOMAIN subscriptions \cup {u} |->
                            IF v = u THEN have \cup {id} ELSE subscriptions[v]]
    /\ UNCHANGED <<resources, pending, reported, drained, unpolled, pager>>

\* Faulty variant: the key stays when the last subscriber leaves.
UnsubscribeKeepsKey(u, id) ==
    /\ u \in DOMAIN subscriptions
    /\ subscriptions' = [subscriptions EXCEPT ![u] = @ \ {id}]
    /\ UNCHANGED <<resources, pending, reported, drained, unpolled, pager>>

\* unsubscribe: the key goes with its last subscriber.
Unsubscribe(u, id) ==
    /\ u \in DOMAIN subscriptions
    /\ subscriptions' =
         IF subscriptions[u] \subseteq {id}
           THEN [v \in DOMAIN subscriptions \ {u} |-> subscriptions[v]]
           ELSE [subscriptions EXCEPT ![u] = @ \ {id}]
    /\ UNCHANGED <<resources, pending, reported, drained, unpolled, pager>>

\* Faulty variant: the newest half is dropped.
NotifyDropsNewest(u) ==
    /\ reported < MaxUpdates
    /\ Registered(u)
    /\ LET kept == IF Len(pending) >= MaxPending THEN SubSeq(pending, 1, MaxPending \div 2) ELSE pending
       IN  pending' = Append(kept, reported + 1)
    /\ reported' = reported + 1
    /\ unpolled' = unpolled + 1
    /\ UNCHANGED <<resources, subscriptions, drained, pager>>

\* notify_update: room is made first, also for a URI that is not registered and
\* so is not queued.
NotifyUpdate(u) ==
    /\ reported < MaxUpdates
    /\ LET kept == IF Len(pending) >= MaxPending
                     THEN SubSeq(pending, MaxPending \div 2 + 1, Len(pending)) ELSE pending
       IN  IF Registered(u)
             THEN /\ pending' = Append(kept, reported + 1)
                  /\ reported' = reported + 1
                  /\ unpolled' = unpolled + 1
             ELSE pending' = kept /\ UNCHANGED <<reported, unpolled>>
    /\ UNCHANGED <<resources, subscriptions, drained, pager>>

\* drain_updates: every subscriber's updates, and those nobody subscribed to.
Poll ==
    /\ pending # <<>>
    /\ drained' = Last(pending)
    /\ pending' = <<>>
    /\ unpolled' = 0
    /\ UNCHANGED <<resources, subscriptions, reported, pager>>

Smaller(a, b) == IF a < b THEN a ELSE b

\* Faulty variant: the next page starts after the element that follows the page.
PageSkips(list, start) ==
    LET end == Smaller(start + PageSize, Len(list))
    IN  [items |-> SubSeq(list, start + 1, end),
         next |-> IF end < Len(list) THEN end + 1 ELSE NoCursor]

\* A page and its cursor, the same for resources, templates, prompts and tools.
Page(list, start) ==
    LET end == Smaller(start + PageSize, Len(list))
    IN  [items |-> SubSeq(list, start + 1, end),
         next |-> IF end < Len(list) THEN end ELSE NoCursor]

\* handle_resources_list, asked with the cursor the last page gave.
ListPage(c) ==
    /\ pager[c].cursor # NoCursor
    /\ LET p == Page(resources, pager[c].cursor)
       IN  pager' = [pager EXCEPT ![c] = [cursor |-> p.next, got |-> @.got \o p.items]]
    /\ UNCHANGED <<resources, subscriptions, pending, reported, drained, unpolled>>

ResourcesNext ==
    \/ \E u \in Uris :
         \/ \E k \in Sources : Register(u, k)
         \/ \E id \in SubscriberIds : Subscribe(u, id) \/ Unsubscribe(u, id)
         \/ NotifyUpdate(u)
    \/ Poll
    \/ \E c \in Pagers : ListPage(c)

ResourcesSpec == ResourcesInit /\ [][ResourcesNext]_resourceVars

-----------------------------------------------------------------------------
\* A client that follows the cursors collects a prefix of the list, without a gap
\* and without a repetition, however many resources are registered between pages.
PagesInOrder ==
    \A c \in Pagers : pager[c].got = SubSeq(resources, 1, Len(pager[c].got))

\* An overflow loses only the oldest updates: what a poll takes next is a run of
\* the latest ones, in order, none taken before, and at least half a queue of them
\* (or all there were).
NewestKept ==
    /\ \A i \in DOMAIN pending : pending[i] = reported - Len(pending) + i
    /\ pending # <<>> => pending[1] > drained
    /\ Len(pending) <= MaxPending
    /\ Len(pending) >= Smaller(unpolled, MaxPending \div 2)

\* A URI that nobody is subscribed to holds no place under the limit on subscribed
\* URIs, and neither limit is ever exceeded.
SubscriptionsBounded ==
    /\ \A u \in DOMAIN subscriptions :
         /\ subscriptions[u] # {}
         /\ Cardinality(subscriptions[u]) <= MAX_SUBSCRIBERS_PER_URI
    /\ Cardinality(DOMAIN subscriptions) <= MAX_SUBSCRIBED_URIS

\* Paging, update notifications and subscriptions stay right while resources are added
\* between calls: no gap, no update lost but the oldest, no place held by nobody.
ResourcesKept == PagesInOrder /\ NewestKept /\ SubscriptionsBounded

-----------------------------------------------------------------------------
(* A claim the code does not satisfy. *)

\* The kind a resource is listed with is the kind it is read from: a URI that is
\* registered twice is listed twice and always read as a file.
ListedAsRead ==
    \A i \in DOMAIN resources : ReadFrom(resources[i].uri) = resources[i].kind
=============================================================================
