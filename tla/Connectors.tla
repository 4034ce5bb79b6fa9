---------------------------- MODULE Connectors -----------------------------
(***************************************************************************)
(* The OAuth2 connectors of src/oauth2.rs: connector/call with its         *)
(* automatic refresh, the code exchange, the token store with its          *)
(* encrypted file; and its two flows that cross the network twice: an      *)
(* authorization, whose state parameter goes out with the URL and comes    *)
(* back with the code, and the delivery of a webhook with its retries.     *)
(* The flows share nothing with the calls and have variables of their own. *)
(* Calls run side by side; each locks the stores only for single reads and *)
(* writes, never across a request to the provider.                         *)
(*                                                                         *)
(* The provider is external: it hands out tokens that expire.  A refresh   *)
(* replaces the refresh token it was made with, or leaves it as it is, as  *)
(* the provider of a connector does it every time.                         *)
(***************************************************************************)
EXTENDS Integers, FiniteSets

CONSTANTS
    Callers,            \* concurrent callers
    Conns,              \* connector ids
    MAX_STORE_ENTRIES,  \* tokens kept, 1024 in the code
    Buffer,             \* needs_refresh's margin, 300 s in the code
    CallTime,           \* the longest a call lasts: two timeouts of 30 s
    Lifetime,           \* how long a token is valid
    MaxConnClock,       \* bound: time
    MaxGrants,          \* bound: tokens the provider issues
    States,             \* state parameters
    MAX_STATE_ENTRIES,  \* pending authorizations, 1000 in the code
    MaxAttempts,        \* max_attempts, 3 in the code
    MaxFlows            \* bound: authorizations started

\* The margin of 300 s covers the two timeouts of a call, a provider's tokens outlast
\* a call, and there is at least one attempt.
ASSUME ConnectorsAssumption ==
    /\ Buffer \in Nat /\ CallTime \in Nat /\ Lifetime \in Nat /\ MaxAttempts \in Nat
    /\ Buffer >= CallTime /\ Lifetime > CallTime /\ MaxAttempts >= 1

VARIABLES
    connClock,
    tokens,      \* TOKEN_STORE
    tokenFile,   \* store_token_encrypted's file, per connector
    provider,    \* external: the refresh token it accepts, per connector
    rotating,    \* external: the connectors whose provider replaces refresh tokens
    grants,      \* external: tokens issued
    call,        \* the callers
    spoiled,     \* history: an answer was lost, a token evicted, or a code
                 \* exchanged during a refresh
    stateStore,  \* STATE_STORE
    asked,       \* history: the connector each state was last generated for
    validated,   \* history: <<state, connector, accepted before>>
    flows,       \* authorizations started
    webhook,     \* the delivery in progress: [pc, attempt]
    arrived,     \* external: copies of the event the receiver has taken
    webhookReply \* what send_webhook returned

connVars == <<connClock, tokens, tokenFile, provider, rotating, grants, call, spoiled>>

NoToken == [refresh |-> 0, expires |-> 0]
Resting == [pc |-> "idle"]
Busy(c) == call[c].pc \notin {"idle", "done", "error"}

ConnInit ==
    /\ connClock = 0
    /\ tokens = <<>>
    /\ tokenFile = [k \in Conns |-> NoToken]
    /\ provider = [k \in Conns |-> 0]
    /\ rotating \in SUBSET Conns
    /\ grants = 0
    /\ call = [c \in Callers |-> Resting]
    /\ spoiled = FALSE

Go(c, r) == call' = [call EXCEPT ![c] = r]
Fail(c) == Go(c, [pc |-> "error"])

\* store_token: a new connector above the limit evicts an arbitrary one.
Stored(k, token) ==
    LET full == k \notin DOMAIN tokens /\ Cardinality(DOMAIN tokens) >= MAX_STORE_ENTRIES
        keeps == IF full THEN {DOMAIN tokens \ {gone} : gone \in DOMAIN tokens} ELSE {DOMAIN tokens}
    IN  {[x \in keep \cup {k} |-> IF x = k THEN token ELSE tokens[x]] : keep \in keeps}

\* call_connector up to the token: an unknown connector, a path or a method that
\* is refused ends the call here.
StartCall(c, k) ==
    /\ ~Busy(c)
    /\ Go(c, [pc |-> "token", conn |-> k, age |-> 0])
    /\ UNCHANGED <<connClock, tokens, tokenFile, provider, grants, spoiled>>

RefuseCall(c) ==
    /\ call[c].pc = "token"
    /\ Fail(c)
    /\ UNCHANGED <<connClock, tokens, tokenFile, provider, grants, spoiled>>

\* Faulty variant: only an expired token is refreshed.
NeedsRefreshLate(token) == connClock >= token.expires

NeedsRefresh(token) == connClock + Buffer >= token.expires

\* get_valid_token.
GetValidToken(c) ==
    /\ call[c].pc = "token"
    /\ LET k == call[c].conn IN
         IF k \notin DOMAIN tokens THEN Fail(c)
         ELSE IF NeedsRefresh(tokens[k]) THEN Go(c, [call[c] EXCEPT !.pc = "reread"])
         ELSE Go(c, [pc |-> "send", conn |-> k, age |-> call[c].age, token |-> tokens[k]])
    /\ UNCHANGED <<connClock, tokens, tokenFile, provider, grants, spoiled>>

\* refresh_token reads the store again: what it refreshes may be the token another
\* caller has stored meanwhile.
Reread(c) ==
    /\ call[c].pc = "reread"
    /\ LET k == call[c].conn IN
         IF k \notin DOMAIN tokens THEN Fail(c)
         ELSE Go(c, [pc |-> "refresh", conn |-> k, age |-> call[c].age, token |-> tokens[k]])
    /\ UNCHANGED <<connClock, tokens, tokenFile, provider, grants, spoiled>>

Issued == [refresh |-> grants + 1, expires |-> connClock + Lifetime]

\* Faulty variant: the old refresh token is stored with the new access token.
RefreshKeepsOld(c) ==
    /\ call[c].pc = "refresh" /\ grants < MaxGrants
    /\ IF call[c].token.refresh # provider[call[c].conn]
         THEN Fail(c) /\ UNCHANGED <<provider, grants>>
         ELSE /\ Go(c, [call[c] EXCEPT !.pc = "store",
                                       !.token = [Issued EXCEPT !.refresh = call[c].token.refresh]])
              /\ provider' = [provider EXCEPT ![call[c].conn] = grants + 1]
              /\ grants' = grants + 1
    /\ UNCHANGED <<connClock, tokens, tokenFile, spoiled>>

\* A provider that does not replace the refresh token sends none: the old one is kept.
Refreshed(c) == IF call[c].conn \in rotating THEN Issued ELSE [Issued EXCEPT !.refresh = call[c].token.refresh]
Rotated(k) == provider' = IF k \in rotating THEN [provider EXCEPT ![k] = grants + 1] ELSE provider

\* refresh_token: the provider refuses a refresh token it has replaced.
Refresh(c) ==
    /\ call[c].pc = "refresh" /\ grants < MaxGrants
    /\ IF call[c].token.refresh # provider[call[c].conn]
         THEN Fail(c) /\ UNCHANGED <<provider, grants>>
         ELSE /\ Go(c, [call[c] EXCEPT !.pc = "store", !.token = Refreshed(c)])
              /\ Rotated(call[c].conn)
              /\ grants' = grants + 1
    /\ UNCHANGED <<connClock, tokens, tokenFile, spoiled>>

\* The provider's answer is lost: what it has replaced it has replaced all the same.
RefreshLost(c) ==
    /\ call[c].pc = "refresh" /\ grants < MaxGrants
    /\ call[c].token.refresh = provider[call[c].conn]
    /\ Fail(c)
    /\ Rotated(call[c].conn)
    /\ grants' = grants + 1
    /\ spoiled' = TRUE
    /\ UNCHANGED <<connClock, tokens, tokenFile>>

StoreRefreshed(c) ==
    /\ call[c].pc = "store"
    /\ tokens' \in Stored(call[c].conn, call[c].token)
    /\ Go(c, [call[c] EXCEPT !.pc = IF call[c].age = -1 THEN "done" ELSE "send"])
    /\ spoiled' = (spoiled \/ ~(DOMAIN tokens \subseteq DOMAIN tokens'))
    /\ UNCHANGED <<connClock, tokenFile, provider, grants>>

\* The request with the Authorization header.
SendRequest(c) ==
    /\ call[c].pc = "send"
    /\ Go(c, [pc |-> "done"])
    /\ UNCHANGED <<connClock, tokens, tokenFile, provider, grants, spoiled>>

\* exchange_code: age -1 marks a caller that sends nothing afterwards.
Exchange(c, k) ==
    /\ ~Busy(c) /\ grants < MaxGrants
    /\ Go(c, [pc |-> "store", conn |-> k, age |-> -1, token |-> Issued])
    /\ provider' = [provider EXCEPT ![k] = grants + 1]
    /\ grants' = grants + 1
    /\ spoiled' = (spoiled \/ \E o \in Callers : call[o].pc \in {"refresh", "store"} /\ call[o].conn = k)
    /\ UNCHANGED <<connClock, tokens, tokenFile>>

\* store_token_encrypted and load_token_encrypted, with the process ending between
\* them; nothing else writes the file.
SaveToken(k) ==
    /\ k \in DOMAIN tokens
    /\ tokenFile' = [tokenFile EXCEPT ![k] = tokens[k]]
    /\ UNCHANGED <<connClock, tokens, provider, grants, call, spoiled>>

Restart ==
    /\ \E k \in Conns : tokenFile[k] # NoToken
    /\ call' = [c \in Callers |-> IF Busy(c) THEN [pc |-> "error"] ELSE call[c]]
    /\ \E some \in SUBSET {k \in Conns : tokenFile[k] # NoToken} :
         /\ Cardinality(some) <= MAX_STORE_ENTRIES
         /\ tokens' = [k \in some |-> tokenFile[k]]
    /\ spoiled' = TRUE
    /\ UNCHANGED <<connClock, tokenFile, provider, grants>>

\* Time: a call does not outlast its timeouts.
ConnTick ==
    /\ connClock < MaxConnClock
    /\ \A c \in Callers : Busy(c) /\ call[c].age # -1 => call[c].age < CallTime
    /\ connClock' = connClock + 1
    /\ call' = [c \in Callers |-> IF Busy(c) /\ call[c].age # -1 THEN [call[c] EXCEPT !.age = @ + 1] ELSE call[c]]
    /\ UNCHANGED <<tokens, tokenFile, provider, grants, spoiled>>

ConnMoves ==
    \/ \E c \in Callers :
         \/ \E k \in Conns : StartCall(c, k) \/ Exchange(c, k)
         \/ RefuseCall(c) \/ GetValidToken(c) \/ Reread(c) \/ Refresh(c) \/ RefreshLost(c)
         \/ StoreRefreshed(c) \/ SendRequest(c)
    \/ \E k \in Conns : SaveToken(k)
    \/ Restart
    \/ ConnTick

ConnNext == ConnMoves /\ UNCHANGED rotating

ConnSpec == ConnInit /\ [][ConnNext]_connVars

(***************************************************************************)
(* Authorizations and webhooks                                             *)
(***************************************************************************)
flowVars == <<stateStore, asked, validated, flows, webhook, arrived, webhookReply>>

FlowInit ==
    /\ stateStore = <<>> /\ asked = <<>> /\ validated = {} /\ flows = 0
    /\ webhook = [pc |-> "idle", attempt |-> 0]
    /\ arrived = 0
    /\ webhookReply = "none"

\* generate_authorize_url: a full store is emptied, whatever waits in it.
GenerateUrl(s, k) ==
    /\ flows < MaxFlows
    /\ flows' = flows + 1
    /\ LET kept == IF Cardinality(DOMAIN stateStore) >= MAX_STATE_ENTRIES THEN {} ELSE DOMAIN stateStore
       IN  stateStore' = [x \in kept \cup {s} |-> IF x = s THEN k ELSE stateStore[x]]
    /\ asked' = [x \in DOMAIN asked \cup {s} |-> IF x = s THEN k ELSE asked[x]]
    /\ validated' = {v \in validated : v[1] # s}
    /\ UNCHANGED <<webhook, arrived, webhookReply>>

Accepted(s) == <<s, stateStore[s], \E v \in validated : v[1] = s>>

\* Faulty variant: a state can be used again.
ValidateStateKeeps(s) ==
    /\ s \in DOMAIN stateStore
    /\ validated' = validated \cup {Accepted(s)}
    /\ UNCHANGED <<stateStore, asked, flows, webhook, arrived, webhookReply>>

\* validate_state takes the entry out.
ValidateState(s) ==
    /\ s \in DOMAIN stateStore
    /\ validated' = validated \cup {Accepted(s)}
    /\ stateStore' = [x \in DOMAIN stateStore \ {s} |-> stateStore[x]]
    /\ UNCHANGED <<asked, flows, webhook, arrived, webhookReply>>

\* send_webhook: an event that is not subscribed is a success with no attempt.
StartWebhook(subscribed) ==
    /\ webhook.pc = "idle"
    /\ IF subscribed
         THEN webhook' = [pc |-> "send", attempt |-> 1] /\ UNCHANGED webhookReply
         ELSE webhook' = [pc |-> "done", attempt |-> 0] /\ webhookReply' = "skipped"
    /\ UNCHANGED <<stateStore, asked, validated, flows, arrived>>

\* One POST: the receiver may have taken the event before the sender sees an error
\* (a timeout, a lost answer, an error status).
PostWebhook(taken, answered) ==
    /\ webhook.pc = "send"
    /\ answered => taken
    /\ arrived' = IF taken THEN arrived + 1 ELSE arrived
    /\ IF answered THEN webhook' = [webhook EXCEPT !.pc = "done"] /\ webhookReply' = "success"
       ELSE webhook' = [webhook EXCEPT !.pc = "backoff"] /\ UNCHANGED webhookReply
    /\ UNCHANGED <<stateStore, asked, validated, flows>>

\* Faulty variant: the last attempt is followed by another.
BackoffOnceMore ==
    /\ webhook.pc = "backoff"
    /\ IF webhook.attempt <= MaxAttempts
         THEN webhook' = [pc |-> "send", attempt |-> webhook.attempt + 1] /\ UNCHANGED webhookReply
         ELSE webhook' = [webhook EXCEPT !.pc = "done"] /\ webhookReply' = "failure"
    /\ UNCHANGED <<stateStore, asked, validated, flows, arrived>>

\* The wait of 100 ms, 200 ms, ... between attempts, and the end after the last.
Backoff ==
    /\ webhook.pc = "backoff"
    /\ IF webhook.attempt < MaxAttempts
         THEN webhook' = [pc |-> "send", attempt |-> webhook.attempt + 1] /\ UNCHANGED webhookReply
         ELSE webhook' = [webhook EXCEPT !.pc = "done"] /\ webhookReply' = "failure"
    /\ UNCHANGED <<stateStore, asked, validated, flows, arrived>>

FlowNext ==
    \/ \E s \in States : ValidateState(s) \/ \E k \in Conns : GenerateUrl(s, k)
    \/ \E b \in BOOLEAN : StartWebhook(b) \/ \E t \in BOOLEAN : PostWebhook(t, b)
    \/ Backoff

FlowSpec == FlowInit /\ [][FlowNext]_flowVars

-----------------------------------------------------------------------------
\* A request is never sent with a token that has expired meanwhile: the margin of
\* needs_refresh outlasts the call, whether the token was refreshed or not.
SentFresh == \A c \in Callers : call[c].pc = "send" => call[c].token.expires > connClock

\* Calls that refresh the same token at once never leave a store whose refresh token the
\* provider has replaced, or not issued: where it replaces them the one that loses fails
\* and does not write, and where it does not the old one is kept.
RefreshChain ==
    ~spoiled /\ (\A c \in Callers : ~Busy(c)) =>
        \A k \in DOMAIN tokens : tokens[k].refresh = provider[k]

\* A state is accepted at most once for each time it was generated, and only for the
\* connector it was generated for last, also when the store was emptied meanwhile.
StateOnce == \A v \in validated : v[2] = asked[v[1]] /\ ~v[3]

\* A reported success means the receiver has the event, a skipped event never left,
\* and no receiver takes it more often than there are attempts.
WebhookHonest ==
    /\ webhookReply = "success" => arrived >= 1
    /\ webhookReply = "skipped" => arrived = 0
    /\ arrived <= MaxAttempts

\* Calls that share a connector never send a stale token nor break the chain of refresh
\* tokens; a state is taken once, and a webhook reports what arrived.
ConnectorsHonest == SentFresh /\ RefreshChain /\ StateOnce /\ WebhookHonest

-----------------------------------------------------------------------------
(* Claims the code does not satisfy. *)

\* "Add auth header with automatic token refresh": of two calls that refresh at the
\* same time one fails, although the store holds a good token.
RefreshNeverFails ==
    \A c \in Callers : call[c].pc = "refresh" /\ ~spoiled => call[c].token.refresh = provider[call[c].conn]

\* "Persistent file-based token storage": a refresh is not written to the file, and
\* what a restart loads has been replaced.
FileCurrent ==
    \A k \in Conns : tokenFile[k] # NoToken => tokenFile[k].refresh = provider[k]

\* A retry after a lost answer delivers the event again, and a reported failure
\* does not mean that it was not delivered.
DeliveredOnce == arrived <= 1 /\ (webhookReply = "failure" => arrived = 0)

\* "clearing stale entries": the newest are cleared with the rest.
PendingKept == [][\A s \in DOMAIN stateStore :
                    s \in DOMAIN stateStore' \/ \E v \in validated' : v[1] = s]_flowVars
=============================================================================
