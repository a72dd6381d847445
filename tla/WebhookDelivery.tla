--------------------------- MODULE WebhookDelivery ---------------------------
(***************************************************************************)
(* Webhooks of the gateway.  WebhookDispatcher posts a settlement event to *)
(* the endpoint of the recipient agent and retries; the endpoint registry  *)
(* of lib/webhook.ts posts each payload once to every endpoint that asked  *)
(* for its kind.                                                           *)
(*                                                                         *)
(* An attempt that times out is aborted by the dispatcher, but its request *)
(* may still reach the endpoint and be processed: a request is lost,       *)
(* processed in time or processed late, independently of the dispatcher,   *)
(* and an endpoint may process the event and still answer with an error.   *)
(***************************************************************************)
EXTENDS Naturals, FiniteSets

CONSTANTS Jobs,      \* dispatch() calls: one settlement event each
          Hooks,     \* ids the endpoint registry hands out
          Kinds,     \* kinds of registry payloads
          MaxPosts,  \* bound: publications
          MaxFlips   \* bound: changes of the agent's webhook columns

ASSUME WebhookAssumption == {MaxPosts, MaxFlips} \subseteq Nat

VARIABLES
    row,       \* the agent has a webhook url and secret in the database
    flips,     \* changes of them so far
    phase,     \* of each delivery
    attempt,   \* the argument of deliver
    wire,      \* requests <<job, attempt>> on their way to the endpoint
    answer,    \* the response to the current attempt: "none", "ok", "bad"
    hits,      \* times the endpoint processed the event of a job
    timeouts,  \* attempts the dispatcher gave up on without an answer
    denied,    \* attempts the endpoint processed but answered as failed
    hooks,     \* lib/webhook.ts: id -> kinds, {} = not registered
    posts,     \* fetches of the registry in flight, <<hook, number>>
    owed, got  \* payloads and tests each hook was a target of, and received

jobVars == <<phase, attempt, wire, answer, hits, timeouts, denied>>
hookVars == <<hooks, posts, owed, got>>
webhookVars == <<row, flips, jobVars, hookVars>>

WebhooksInit ==
    /\ row \in BOOLEAN /\ flips = 0
    /\ phase = [j \in Jobs |-> "none"]
    /\ attempt = [j \in Jobs |-> 0]
    /\ wire = {}
    /\ answer = [j \in Jobs |-> "none"]
    /\ hits = [j \in Jobs |-> 0]
    /\ timeouts = [j \in Jobs |-> 0]
    /\ denied = [j \in Jobs |-> 0]
    /\ hooks = [h \in Hooks |-> {}]
    /\ posts = {}
    /\ owed = [h \in Hooks |-> 0]
    /\ got = [h \in Hooks |-> 0]

-----------------------------------------------------------------------------
(* WebhookDispatcher *)

\* deliver(..., n): sign and send.
Send(j, n) ==
    /\ phase' = [phase EXCEPT ![j] = "sending"]
    /\ attempt' = [attempt EXCEPT ![j] = n]
    /\ answer' = [answer EXCEPT ![j] = "none"]
    /\ wire' = wire \cup {<<j, n>>}
    /\ UNCHANGED <<hits, timeouts, denied>>

\* loadEndpoints fails, finds no endpoint or finds the agent's.
Dispatch(j) ==
    /\ phase[j] = "none"
    /\ \/ row /\ Send(j, 0)
       \/ phase' = [phase EXCEPT ![j] = "skipped"]
          /\ UNCHANGED <<attempt, wire, answer, hits, timeouts, denied>>
    /\ UNCHANGED <<row, flips, hookVars>>

\* attempt < 2 is what both the status and the exception branch retry under.
GivesUp(n) == n >= 2

Unsuccessful(j) == IF GivesUp(attempt[j]) THEN "failed" ELSE "waiting"

FaultyOutcome(j) == IF answer[j] = "none" THEN Unsuccessful(j) ELSE "delivered"

FaultyRetryAll(j) == IF GivesUp(attempt[j]) /\ answer[j] = "ok" THEN "delivered"
                     ELSE Unsuccessful(j)

Outcome(j) == IF answer[j] = "ok" THEN "delivered" ELSE Unsuccessful(j)

\* The fetch resolves.
Respond(j) ==
    /\ phase[j] = "sending" /\ answer[j] # "none"
    /\ phase' = [phase EXCEPT ![j] = Outcome(j)]
    /\ UNCHANGED <<row, flips, attempt, wire, answer, hits, timeouts, denied, hookVars>>

\* The fetch rejects: a network error, or the abort after 8 seconds.
Timeout(j) ==
    /\ phase[j] = "sending"
    /\ phase' = [phase EXCEPT ![j] = Unsuccessful(j)]
    /\ timeouts' = [timeouts EXCEPT ![j] = @ + 1]
    /\ UNCHANGED <<row, flips, attempt, wire, answer, hits, denied, hookVars>>

FaultyRetry(j) ==
    /\ phase[j] = "waiting" /\ attempt[j] = 0
    /\ Send(j, attempt[j] + 1)
    /\ UNCHANGED <<row, flips, hookVars>>

\* The delay of (attempt + 1)^2 seconds is over.
Retry(j) ==
    /\ phase[j] = "waiting"
    /\ Send(j, attempt[j] + 1)
    /\ UNCHANGED <<row, flips, hookVars>>

\* The gateway restarts: deliveries live in memory only, and so does the registry.
Crash ==
    /\ phase' = [j \in Jobs |-> IF phase[j] \in {"sending", "waiting"}
                                THEN "lost" ELSE phase[j]]
    /\ hooks' = [h \in Hooks |-> {}]
    /\ posts' = {}
    /\ UNCHANGED <<row, flips, attempt, wire, answer, hits, timeouts, denied, owed, got>>

\* The endpoint handles a request, in time or not, and answers 2xx or not; the
\* request or its answer may be lost.  A 2xx comes of one that was processed, any
\* other status and a lost answer may.
Endpoint(j, n, outcome, processed) ==
    /\ <<j, n>> \in wire
    /\ outcome = "ok" => processed
    /\ wire' = wire \ {<<j, n>>}
    /\ hits' = [hits EXCEPT ![j] = IF processed THEN @ + 1 ELSE @]
    /\ IF phase[j] = "sending" /\ attempt[j] = n /\ outcome # "lost"
         THEN /\ answer' = [answer EXCEPT ![j] = outcome]
              /\ denied' = [denied EXCEPT ![j] = IF processed /\ outcome = "bad"
                                               THEN @ + 1 ELSE @]
         ELSE UNCHANGED <<answer, denied>>
    /\ UNCHANGED <<row, flips, phase, attempt, timeouts, hookVars>>

\* PATCH of the agent's webhook columns by its owner.
Configure ==
    /\ flips < MaxFlips
    /\ row' = ~row
    /\ flips' = flips + 1
    /\ UNCHANGED <<jobVars, hookVars>>

-----------------------------------------------------------------------------
(* The endpoint registry and its routes *)

RegisterHook(h, kinds) ==
    /\ hooks[h] = {} /\ owed[h] = 0 /\ kinds # {}
    /\ hooks' = [hooks EXCEPT ![h] = kinds]
    /\ UNCHANGED <<row, flips, jobVars, posts, owed, got>>

Remove(h) ==
    /\ hooks[h] # {}
    /\ hooks' = [hooks EXCEPT ![h] = {}]
    /\ UNCHANGED <<row, flips, jobVars, posts, owed, got>>

Post(targets) ==
    /\ targets # {} /\ \A h \in targets : owed[h] < MaxPosts
    /\ owed' = [h \in Hooks |-> IF h \in targets THEN owed[h] + 1 ELSE owed[h]]
    /\ posts' = posts \cup {<<h, owed[h] + 1>> : h \in targets}
    /\ UNCHANGED <<row, flips, jobVars, hooks, got>>

\* dispatch(payload): the targets are read once, before the first fetch.
Publish(k) == Post({h \in Hooks : k \in hooks[h]})

\* POST /:id/test sends its kind whether or not the endpoint asked for it.
Test(h) == hooks[h] # {} /\ Post({h})

\* One fetch ends, in a response, an error or the abort after 10 seconds, with
\* the payload received or not; nothing is sent again.
Fetched(h, n, ok) ==
    /\ <<h, n>> \in posts
    /\ posts' = posts \ {<<h, n>>}
    /\ got' = [got EXCEPT ![h] = IF ok THEN @ + 1 ELSE @]
    /\ UNCHANGED <<row, flips, jobVars, hooks, owed>>

DispatchStep == \E j \in Jobs : Respond(j) \/ Timeout(j) \/ Retry(j)

WebhooksNext ==
    \/ DispatchStep \/ Crash \/ Configure
    \/ \E j \in Jobs : Dispatch(j)
    \/ \E r \in wire, outcome \in {"ok", "bad", "lost"}, processed \in BOOLEAN :
          Endpoint(r[1], r[2], outcome, processed)
    \/ \E h \in Hooks, kinds \in SUBSET Kinds : RegisterHook(h, kinds)
    \/ \E h \in Hooks : Remove(h) \/ Test(h)
    \/ \E k \in Kinds : Publish(k)
    \/ \E p \in posts, ok \in BOOLEAN : Fetched(p[1], p[2], ok)

\* Timers fire and promises settle.
WebhooksFairness == \A j \in Jobs : WF_webhookVars(Respond(j) \/ Timeout(j)) /\ WF_webhookVars(Retry(j))
WebhooksSpec == WebhooksInit /\ [][WebhooksNext]_webhookVars /\ WebhooksFairness

-----------------------------------------------------------------------------
(* Properties *)

\* Every variable keeps its type: three attempts at most, numbered 0 to 2.
WebhooksTypeOK ==
    /\ row \in BOOLEAN /\ flips \in 0..MaxFlips
    /\ phase \in [Jobs -> {"none", "skipped", "sending", "waiting",
                           "delivered", "failed", "lost"}]
    /\ attempt \in [Jobs -> 0..2]
    /\ wire \subseteq Jobs \X (0..2)
    /\ answer \in [Jobs -> {"none", "ok", "bad"}]
    /\ hits \in [Jobs -> Nat] /\ timeouts \in [Jobs -> 0..3]
    /\ denied \in [Jobs -> Nat]
    /\ hooks \in [Hooks -> SUBSET Kinds]
    /\ posts \subseteq Hooks \X (1..MaxPosts)
    /\ owed \in [Hooks -> 0..MaxPosts] /\ got \in [Hooks -> Nat]

\* At least once, and a duplicate has a cause: an event is processed again only
\* after an attempt that was given up without its answer, or that the endpoint
\* processed and answered with an error all the same.  An attempt it refused
\* unprocessed excuses nothing, and one it acknowledged is the last.
DuplicatesExplained == \A j \in Jobs : hits[j] <= 1 + timeouts[j] + denied[j]

\* What the log says is true of the endpoint: "delivered" only if it processed
\* the event, "failed after retries" only after three attempts.
OutcomeTruthful ==
    \A j \in Jobs : /\ phase[j] = "delivered" => hits[j] >= 1
                    /\ phase[j] = "failed" => attempt[j] = 2

\* The registry sends each endpoint a payload once at most, however often the
\* endpoint is removed, tested or the fetch fails.
RegistryAtMostOnce == \A h \in Hooks : got[h] <= owed[h]

\* Neither path claims more than it did: three attempts at most, outcomes that
\* are true of the endpoint, one fetch per payload of the registry.
WebhooksSafe == WebhooksTypeOK /\ OutcomeTruthful /\ RegistryAtMostOnce

\* Every dispatched event comes to an end: delivered, failed, or lost with the
\* process, whatever its endpoint answers and however late.
DispatchEnds ==
    \A j \in Jobs : phase[j] = "sending" ~> phase[j] \in {"delivered", "failed", "lost"}

\* WebhookDispatcher.ts:20: "Up to 3 retry attempts with exponential back-off
\* (1s, 4s, 9s)", so a delivery that failed for good was retried three times.
ThreeRetries == \A j \in Jobs : phase[j] = "failed" => attempt[j] = 3

=============================================================================
