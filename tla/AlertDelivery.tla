--------------------------- MODULE AlertDelivery ---------------------------
(***************************************************************************)
(* notify() of notifier_and_logger.py: a batch of validated alerts is      *)
(* deduplicated in Redis, capped, inserted in Postgres, sent to            *)
(* trade-execute when that bridge is on, and posted to Discord.            *)
(*                                                                         *)
(* Several runs of notify() overlap: the 15m and 1h cron pipelines and the *)
(* Discord bot's !scan are separate processes, and only the cron ones are  *)
(* serialised by flock.  A run may die at any point (the bot kills a scan  *)
(* after 300 s, the container restarts), every remote call may fail, and a *)
(* call may take effect although its reply is lost.                        *)
(*                                                                         *)
(* The TTL of a dedup key is modelled by the step Expire, which may happen *)
(* at any time; epoch[k] counts the windows of key k that have closed.     *)
(* The order in which a run visits its list is left open within a class    *)
(* (LONG/SHORT before WATCH): no property below depends on it.             *)
(***************************************************************************)
EXTENDS Naturals, Sequences, FiniteSets

CONSTANTS
    Run,             \* invocations of notify()
    Alert,           \* alert instances, each proposed to one run
    Key,             \* timeframe:direction:symbol
    Directional,     \* the alerts that are LONG or SHORT
    RunOf,           \* the run an alert is proposed to
    KeyOf,           \* the dedup key of an alert
    Score,           \* edge_probability * confidence, for the caps
    MaxDirectional,  \* MAX_ALERTS_PER_CYCLE
    MaxPosts,        \* EXECUTION_WEBHOOK_MAX_RETRIES
    MaxSends,        \* DISCORD_SEND_MAX_RETRIES
    CbThreshold,     \* DISCORD_CB_THRESHOLD
    MaxExpiry,       \* bound: how often each dedup key expires
    ExecEnabled,     \* TRADE_EXECUTE_ENABLED
    DryRun           \* TRADE_EXECUTE_DRY_RUN

ASSUME DeliveryAssumption ==
    /\ Directional \subseteq Alert
    /\ RunOf \in [Alert -> Run]
    /\ KeyOf \in [Alert -> Key]
    /\ Score \in [Alert -> Nat]
    /\ MaxDirectional \in Nat
    /\ MaxPosts \in Nat \ {0}
    /\ MaxSends \in Nat \ {0}
    /\ CbThreshold \in Nat \ {0}
    /\ MaxExpiry \in [Key -> Nat]
    /\ ExecEnabled \in BOOLEAN
    /\ DryRun \in BOOLEAN

(* What a decision step proposes to a run is a list in memory. *)
ASSUME BatchesAreFinite == \A r \in Run : IsFiniteSet({a \in Alert : RunOf[a] = r})

VARIABLES
    held,        \* Redis: the notified:alert:* keys that are set
    epoch,       \* how many windows of a key have expired
    rows,        \* Postgres alerts table: row id -> alert instance
    marked,      \* row ids with execution_dispatched = TRUE
    audit,       \* execution_deliveries: <<row id, status>>
    orders,      \* idempotency keys (row ids) trade-execute has accepted
    announced,   \* alerts posted to Discord, at least once
    pc,          \* where a run of notify() is
    inbox,       \* items a run has not deduplicated yet
    queue,       \* alerts a run has admitted and not finished with
    cur,         \* the row id a run is delivering, 0 before the insert
    attempt,     \* HTTP attempt number of the current POST or send
    dfail,       \* _discord_consecutive_failures of a run's process
    won,         \* history: <<alert, epoch>> of each successful SET NX
    suppressed   \* history: alerts dropped as duplicates

redis == <<held, epoch, won, suppressed>>
postgres == <<rows, marked, audit>>
local == <<pc, inbox, queue, cur, attempt, dfail>>
vars == <<redis, postgres, orders, announced, local>>

Active == {"claim", "deliver", "execute", "post", "mark", "send"}
Status == {"success", "failed", "dry_run"}
Watch == Alert \ Directional
MaxAttempts == IF MaxPosts > MaxSends THEN MaxPosts ELSE MaxSends
RowIds == 1 .. Len(rows)
Recorded == {rows[i] : i \in RowIds}

TypeOK ==
    /\ held \subseteq Key
    /\ epoch \in [Key -> Nat]
    /\ rows \in Seq(Alert)
    /\ marked \subseteq RowIds
    /\ audit \subseteq RowIds \X Status
    /\ orders \subseteq Nat
    /\ announced \subseteq Alert
    /\ pc \in [Run -> Active \union {"done", "dead"}]
    /\ inbox \in [Run -> SUBSET Alert]
    /\ queue \in [Run -> SUBSET Alert]
    /\ cur \in [Run -> 0 .. Len(rows)]
    /\ attempt \in [Run -> 1 .. MaxAttempts]
    /\ dfail \in [Run -> 0 .. CbThreshold]
    /\ won \subseteq Alert \X Nat
    /\ suppressed \subseteq Alert

(* Each run starts with the alerts its decision step proposed. *)
Init ==
    /\ held = {}
    /\ epoch = [k \in Key |-> 0]
    /\ rows = <<>>
    /\ marked = {}
    /\ audit = {}
    /\ orders = {}
    /\ announced = {}
    /\ pc = [r \in Run |-> "claim"]
    /\ inbox = [r \in Run |-> {a \in Alert : RunOf[a] = r}]
    /\ queue = [r \in Run |-> {}]
    /\ cur = [r \in Run |-> 0]
    /\ attempt = [r \in Run |-> 1]
    /\ dfail = [r \in Run |-> 0]
    /\ won = {}
    /\ suppressed = {}

-----------------------------------------------------------------------------
(* Deduplication: SET notified:alert:* NX EX ttl, once per item.           *)

(* Mutant: SET without NX. *)
ClaimWonWithoutNX(r, a) ==
    /\ held' = held \union {KeyOf[a]}
    /\ won' = won \union {<<a, epoch[KeyOf[a]]>>}
    /\ queue' = [queue EXCEPT ![r] = @ \union {a}]
    /\ UNCHANGED suppressed

(* The key was free: the item is admitted and the key is ours. *)
ClaimWon(r, a) ==
    /\ KeyOf[a] \notin held
    /\ held' = held \union {KeyOf[a]}
    /\ won' = won \union {<<a, epoch[KeyOf[a]]>>}
    /\ queue' = [queue EXCEPT ![r] = @ \union {a}]
    /\ UNCHANGED suppressed

(* The key is set: the item is dropped. *)
ClaimDuplicate(r, a) ==
    /\ KeyOf[a] \in held
    /\ suppressed' = suppressed \union {a}
    /\ UNCHANGED <<held, won, queue>>

(* The SET takes effect but its reply times out; the client is created    *)
(* with retry_on_timeout, so the SET is sent again and finds its own key. *)
ClaimReplyLost(r, a) ==
    /\ KeyOf[a] \notin held
    /\ held' = held \union {KeyOf[a]}
    /\ suppressed' = suppressed \union {a}
    /\ UNCHANGED <<won, queue>>

(* RedisError: the alert is let through; the SET may have been applied. *)
ClaimFailOpen(r, a) ==
    /\ held' \in {held, held \union {KeyOf[a]}}
    /\ queue' = [queue EXCEPT ![r] = @ \union {a}]
    /\ UNCHANGED <<won, suppressed>>

Claim(r) ==
    /\ pc[r] = "claim"
    /\ \E a \in inbox[r] :
          /\ inbox' = [inbox EXCEPT ![r] = @ \ {a}]
          /\ \/ ClaimWon(r, a)
             \/ ClaimDuplicate(r, a)
             \/ ClaimReplyLost(r, a)
             \/ ClaimFailOpen(r, a)
    /\ UNCHANGED <<epoch, postgres, orders, announced, pc, cur, attempt, dfail>>

(* Mutant: the slice keeps one alert too many. *)
TopAndOne(S, limit) ==
    IF Cardinality(S) <= limit THEN {S}
    ELSE {T \in SUBSET S : /\ Cardinality(T) = limit + 1
                           /\ \A a \in T, b \in S \ T : Score[a] >= Score[b]}

(* The best `limit` alerts of S by score; equal scores keep either. *)
Top(S, limit) ==
    IF Cardinality(S) <= limit THEN {S}
    ELSE {T \in SUBSET S : /\ Cardinality(T) = limit
                           /\ \A a \in T, b \in S \ T : Score[a] >= Score[b]}

(* The caps: MAX_ALERTS_PER_CYCLE directional alerts and one WATCH.  The  *)
(* dedup keys of the alerts that are cut stay set.                        *)
Cap(r) ==
    /\ pc[r] = "claim"
    /\ inbox[r] = {}
    /\ \E D \in Top(queue[r] \intersect Directional, MaxDirectional),
          W \in Top(queue[r] \intersect Watch, 1) :
             queue' = [queue EXCEPT ![r] = D \union W]
    /\ pc' = [pc EXCEPT ![r] = "deliver"]
    /\ UNCHANGED <<redis, postgres, orders, announced, inbox, cur, attempt, dfail>>

-----------------------------------------------------------------------------
(* Delivery of one alert: format, insert, execute, announce.               *)

(* The run is through with the alert it was working on. *)
Finish(r, a) ==
    /\ queue' = [queue EXCEPT ![r] = @ \ {a}]
    /\ pc' = [pc EXCEPT ![r] = "deliver"]
    /\ cur' = [cur EXCEPT ![r] = 0]
    /\ attempt' = [attempt EXCEPT ![r] = 1]

(* Mutant: WATCH alerts take the execution branch too. *)
InsertForAnyDirection(r, a) ==
    /\ rows' = Append(rows, a)
    /\ cur' = [cur EXCEPT ![r] = Len(rows) + 1]
    /\ pc' = [pc EXCEPT ![r] = IF ExecEnabled THEN "execute" ELSE "send"]
    /\ UNCHANGED <<queue, attempt>>

Insert(r, a) ==
    /\ rows' = Append(rows, a)
    /\ cur' = [cur EXCEPT ![r] = Len(rows) + 1]
    /\ pc' = [pc EXCEPT ![r] = IF ExecEnabled /\ a \in Directional
                               THEN "execute" ELSE "send"]
    /\ UNCHANGED <<queue, attempt>>

(* format_embed raises, or the insert fails: nothing is sent.  The insert *)
(* may have been committed although its reply was lost.                   *)
InsertFails(r, a) ==
    /\ rows' \in {rows, Append(rows, a)}
    /\ Finish(r, a)

(* Mutant: a failed insert is logged and the alert is posted all the same. *)
PersistOrPost(r) ==
    /\ pc[r] = "deliver"
    /\ \E a \in queue[r] :
          \/ Insert(r, a) /\ UNCHANGED announced
          \/ /\ Finish(r, a)
             /\ announced' = announced \union {a}
             /\ UNCHANGED rows
    /\ UNCHANGED <<redis, marked, audit, orders, inbox, dfail>>

Persist(r) ==
    /\ pc[r] = "deliver"
    /\ \E a \in queue[r] :
          /\ a \in Watch => queue[r] \subseteq Watch
          /\ Insert(r, a) \/ InsertFails(r, a)
    /\ UNCHANGED <<redis, marked, audit, orders, announced, inbox, dfail>>

(* map_to_execution_payload and should_dispatch_execution: dispatch unless *)
(* the row is already marked; a failed read, a rejected payload or an      *)
(* expired one goes on to Discord.                                         *)
Dispatch(r) ==
    /\ pc[r] = "execute"
    /\ \/ /\ cur[r] \notin marked
          /\ pc' = [pc EXCEPT ![r] = "post"]
       \/ pc' = [pc EXCEPT ![r] = "send"]
    /\ UNCHANGED <<redis, postgres, orders, announced, inbox, queue, cur, attempt, dfail>>

(* The audit row is an upsert by event id, and best effort. *)
Audited(id, status) ==
    {audit, {p \in audit : p[1] # id} \union {<<id, status>>}}

(* _deliver_webhook returns True: dry run, or an ack that parses. *)
PostAccepted(r) ==
    /\ orders' = IF DryRun THEN orders ELSE orders \union {cur[r]}
    /\ audit' \in Audited(cur[r], IF DryRun THEN "dry_run" ELSE "success")
    /\ pc' = [pc EXCEPT ![r] = "mark"]
    /\ attempt' = [attempt EXCEPT ![r] = 1]

(* Mutant: the retry loop lets one more attempt through. *)
PostRetriedTooOften(r) ==
    /\ ~DryRun
    /\ attempt[r] <= MaxPosts
    /\ orders' \in {orders, orders \union {cur[r]}}
    /\ attempt' = [attempt EXCEPT ![r] = @ + 1]
    /\ UNCHANGED <<audit, pc>>

(* No usable ack: a timeout, a connection error, 429, 5xx or a malformed  *)
(* answer.  The receiver may have accepted the POST all the same.         *)
PostRetried(r) ==
    /\ ~DryRun
    /\ attempt[r] < MaxPosts
    /\ orders' \in {orders, orders \union {cur[r]}}
    /\ attempt' = [attempt EXCEPT ![r] = @ + 1]
    /\ UNCHANGED <<audit, pc>>

(* Mutants: after the last attempt the alert is delivered from the start  *)
(* again; a webhook that gave up is reported delivered; its audit row says *)
(* success.                                                                *)
PostFailedStartsOver(r) ==
    /\ attempt[r] = MaxPosts
    /\ orders' \in {orders, orders \union {cur[r]}}
    /\ pc' = [pc EXCEPT ![r] = "deliver"]
    /\ attempt' = [attempt EXCEPT ![r] = 1]
    /\ UNCHANGED audit

PostFailedReportsDelivered(r) ==
    /\ attempt[r] = MaxPosts
    /\ UNCHANGED orders
    /\ audit' \in Audited(cur[r], "failed")
    /\ pc' = [pc EXCEPT ![r] = "mark"]
    /\ attempt' = [attempt EXCEPT ![r] = 1]

PostFailedAuditsSuccess(r) ==
    /\ attempt[r] = MaxPosts
    /\ UNCHANGED orders
    /\ audit' \in Audited(cur[r], "success")
    /\ pc' = [pc EXCEPT ![r] = "send"]
    /\ attempt' = [attempt EXCEPT ![r] = 1]

PostFailed(r) ==
    /\ ~DryRun
    /\ \/ /\ attempt[r] = MaxPosts
          /\ orders' \in {orders, orders \union {cur[r]}}
       \/ UNCHANGED orders     \* 4xx other than 429: no retry
    /\ audit' \in Audited(cur[r], "failed")
    /\ pc' = [pc EXCEPT ![r] = "send"]
    /\ attempt' = [attempt EXCEPT ![r] = 1]

Post(r) ==
    /\ pc[r] = "post"
    /\ PostAccepted(r) \/ PostRetried(r) \/ PostFailed(r)
    /\ UNCHANGED <<redis, rows, marked, announced, inbox, queue, cur, dfail>>

(* Mutant: a failed mark ends the delivery of the alert. *)
MarkOrDrop(r) ==
    /\ pc[r] = "mark"
    /\ \/ /\ marked' = marked \union {cur[r]}
          /\ pc' = [pc EXCEPT ![r] = "send"]
          /\ UNCHANGED <<queue, cur, attempt>>
       \/ Finish(r, rows[cur[r]]) /\ UNCHANGED marked
    /\ UNCHANGED <<redis, rows, audit, orders, announced, inbox, dfail>>

(* mark_execution_dispatched; its failure is logged and Discord follows. *)
Mark(r) ==
    /\ pc[r] = "mark"
    /\ marked' \in {marked, marked \union {cur[r]}}
    /\ pc' = [pc EXCEPT ![r] = "send"]
    /\ UNCHANGED <<redis, rows, audit, orders, announced, inbox, queue, cur, attempt, dfail>>

-----------------------------------------------------------------------------
(* send_discord_embed: a circuit breaker per process around the retries.   *)

(* The breaker is open and its cooldown has not elapsed. *)
SendSkipped(r) ==
    /\ dfail[r] >= CbThreshold
    /\ Finish(r, rows[cur[r]])
    /\ UNCHANGED <<announced, dfail>>

(* 2xx, or no credentials are configured: neither counts as a failure. *)
SendAnswered(r) ==
    /\ \/ /\ announced' = announced \union {rows[cur[r]]}
          /\ dfail' = [dfail EXCEPT ![r] = 0]
       \/ /\ UNCHANGED announced
          /\ dfail' = [dfail EXCEPT ![r] = IF @ >= CbThreshold THEN 0 ELSE @]
    /\ Finish(r, rows[cur[r]])

(* Mutant: after the last attempt the loop starts over. *)
SendRetriedForever(r) ==
    /\ announced' \in {announced, announced \union {rows[cur[r]]}}
    /\ attempt' = [attempt EXCEPT ![r] = IF @ < MaxSends THEN @ + 1 ELSE 1]
    /\ dfail' = [dfail EXCEPT ![r] = IF @ >= CbThreshold THEN 0 ELSE @]
    /\ UNCHANGED <<queue, pc, cur>>

(* A transient error; the message may have been posted all the same. *)
SendRetried(r) ==
    /\ attempt[r] < MaxSends
    /\ announced' \in {announced, announced \union {rows[cur[r]]}}
    /\ attempt' = [attempt EXCEPT ![r] = @ + 1]
    /\ dfail' = [dfail EXCEPT ![r] = IF @ >= CbThreshold THEN 0 ELSE @]
    /\ UNCHANGED <<queue, pc, cur>>

SendFailed(r) ==
    /\ \/ /\ attempt[r] = MaxSends
          /\ announced' \in {announced, announced \union {rows[cur[r]]}}
       \/ UNCHANGED announced     \* 4xx other than 429: no retry
    /\ dfail' = [dfail EXCEPT ![r] = IF @ >= CbThreshold THEN 1 ELSE @ + 1]
    /\ Finish(r, rows[cur[r]])

Send(r) ==
    /\ pc[r] = "send"
    /\ SendSkipped(r) \/ SendAnswered(r) \/ SendRetried(r) \/ SendFailed(r)
    /\ UNCHANGED <<redis, postgres, orders, inbox>>

(* The process is gone, and its memory with it. *)
Exit(r, how) ==
    /\ pc' = [pc EXCEPT ![r] = how]
    /\ inbox' = [inbox EXCEPT ![r] = {}]
    /\ queue' = [queue EXCEPT ![r] = {}]
    /\ cur' = [cur EXCEPT ![r] = 0]
    /\ attempt' = [attempt EXCEPT ![r] = 1]
    /\ dfail' = [dfail EXCEPT ![r] = 0]

Return(r) ==
    /\ pc[r] = "deliver"
    /\ queue[r] = {}
    /\ Exit(r, "done")
    /\ UNCHANGED <<redis, postgres, orders, announced>>

-----------------------------------------------------------------------------
(* The environment: the process is killed, or stopped by an exception that *)
(* notify() does not catch; or a dedup key reaches its TTL.                *)

Crash(r) ==
    /\ pc[r] \in Active
    /\ Exit(r, "dead")
    /\ UNCHANGED <<redis, postgres, orders, announced>>

Expire(k) ==
    /\ k \in held
    /\ epoch[k] < MaxExpiry[k]
    /\ held' = held \ {k}
    /\ epoch' = [epoch EXCEPT ![k] = @ + 1]
    /\ UNCHANGED <<won, suppressed, postgres, orders, announced, local>>

(* One step of the straight-line code of notify(). *)
Step(r) ==
    \/ Claim(r) \/ Cap(r) \/ Persist(r) \/ Dispatch(r)
    \/ Post(r) \/ Mark(r) \/ Send(r) \/ Return(r)

Next ==
    \/ \E r \in Run : Step(r) \/ Crash(r)
    \/ \E k \in Key : Expire(k)

Spec == Init /\ [][Next]_vars

(* A process that is not killed keeps running: every HTTP call has a      *)
(* timeout and every retry loop a bound.                                  *)
FairSpec == Spec /\ \A r \in Run : WF_vars(Step(r))

-----------------------------------------------------------------------------
(* Properties *)

(* Persist-first: nobody hears of an alert that has no row.  Discord and  *)
(* trade-execute are reached only after persist_alert returned an id,     *)
(* across crashes and lost replies of any run.                            *)
PersistFirst ==
    /\ announced \subseteq Recorded
    /\ orders \subseteq RowIds

(* trade-execute never accepts two orders for one alert: the retries of a *)
(* POST reuse the idempotency key of the row, and an alert has one row.   *)
OneOrderPerAlert ==
    \A i, j \in orders : rows[i] = rows[j] => i = j

(* WATCH alerts are not executable, whatever path led to the webhook. *)
WatchNeverOrdered ==
    \A i \in orders : rows[i] \in Directional

(* execution_dispatched records an acknowledgement of trade-execute (the  *)
(* docstring of is_execution_dispatched).  Holds without DryRun.          *)
MarkedMeansAcked == marked \subseteq orders

(* An audit row with status success belongs to an accepted order, although *)
(* the row is an upsert that every attempt and every failure writes.      *)
AuditIsTruthful ==
    \A p \in audit : p[2] = "success" => p[1] \in orders

(* Two runs, or two items of one batch, never both win the same key in    *)
(* one dedup window.                                                      *)
OneWinnerPerWindow ==
    \A x, y \in won : (KeyOf[x[1]] = KeyOf[y[1]] /\ x[2] = y[2]) => x = y

(* One run never records more alerts than the per-cycle caps allow. *)
CapsHold ==
    \A r \in Run :
        LET mine == {a \in Recorded : RunOf[a] = r}
        IN  /\ Cardinality(mine \intersect Directional) <= MaxDirectional
            /\ Cardinality(mine \intersect Watch) <= 1

(* The detailed delivery path implements the ledger. *)
Ledger == INSTANCE AlertLedger WITH
    recorded <- Recorded,
    ordered <- {rows[i] : i \in orders},
    announced <- announced

ImplementsLedger == Ledger!Spec

(* Delivery failure never blocks Discord alerting (README.md): once a row *)
(* is inserted, its run comes to the Discord send or is killed, whatever  *)
(* the execution bridge does.                                             *)
DiscordNotBlocked ==
    \A r \in Run : pc[r] = "execute" ~> pc[r] \in {"send", "dead"}

(* notify() ends: every run returns or is killed. *)
EveryRunEnds ==
    \A r \in Run : <>(pc[r] \in {"done", "dead"})

(* The docstring of _is_duplicate_alert: an alert is suppressed because   *)
(* its symbol/direction/timeframe "was already notified recently": some   *)
(* alert of that key is announced, or its run is still working on it.     *)
SuppressedOnlyIfNotified ==
    \A a \in suppressed :
        \E b \in Alert :
            /\ KeyOf[b] = KeyOf[a]
            /\ \/ b \in announced
               \/ pc[RunOf[b]] \in Active /\ b \in queue[RunOf[b]]
=============================================================================
