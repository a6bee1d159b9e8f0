-------------------------- MODULE NetsimPerformance --------------------------
(* The helpers of netsim/performance.py, each with its asyncio.Lock, which      *)
(* serves those who wait for it in order: the request batcher with its timer,    *)
(* the rate limiter, and the response cache.  A caller may be cancelled at any    *)
(* await.                                                                          *)
EXTENDS Integers, Sequences, SequencesExt

CONSTANTS
    Askers,     \* callers of add_request(), one request each
    Timer, Flusher, \* the delayed flush, and the caller of flush_pending()
    MaxBatch,   \* max_batch_size
    MaxFlushes, \* bound: calls of flush_pending()
    Takers,     \* callers of the limiter
    Burst,      \* tokens at most; one comes back in each unit of time
    MaxClock, MaxAsks, \* bounds: time, and requests for tokens that wait or were granted
    Keys, MaxSize, Ttl, StaleTtl, \* of the cache
    MaxVersion  \* bound: changes of what is cached

ASSUME PerformanceAssumption ==
    /\ {Timer, Flusher} \cap Askers = {} /\ Timer # Flusher
    /\ {MaxBatch, Burst, MaxSize} \subseteq Nat \ {0}
    /\ {MaxFlushes, MaxClock, MaxAsks, Ttl, StaleTtl, MaxVersion} \subseteq Nat

VARIABLES
    batcher,    \* [queue, line: who holds and who waits for the lock, sending, timer]
    asker,      \* request -> "new", "locking", "waiting", what it was given, or "gone"
    batchLog,   \* history: [answers, stranded, flushes]
    limiter,    \* [tokens, updated, line: requests for tokens, wakes]
    now,        \* the clock
    granted,    \* history: what was granted, when, and how much in all by then
    entries,    \* the cache, the one used last at the end
    version,    \* key -> the version of what is cached
    filling,    \* caller -> its call of the cache
    fillLine,   \* who holds and who waits for the lock of the cache
    crossedFill \* history: keys invalidated while a call was making their value

batchVars == <<batcher, asker, batchLog>>
limiterVars == <<limiter, now, granted>>
responseVars == <<entries, version, filling, fillLine, crossedFill>>
performanceVars == <<batchVars, limiterVars, responseVars>>

BatchInit ==
    /\ batcher = [queue |-> <<>>, line |-> <<>>, sending |-> <<>>, timer |-> "none"]
    /\ asker = [r \in Askers |-> "new"]
    /\ batchLog = [answers |-> [r \in Askers |-> "none"], stranded |-> {}, flushes |-> 0]
LimiterInit ==
    /\ limiter = [tokens |-> Burst, updated |-> 0, line |-> <<>>, wakes |-> -1]
    /\ now = 0 /\ granted = <<>>
NoCall == [at |-> "idle", key |-> "none", made |-> 0, since |-> 0, got |-> 0, age |-> 0]
ResponseInit ==
    /\ entries = <<>> /\ version = [k \in Keys |-> 1]
    /\ filling = [c \in Takers |-> NoCall]
    /\ fillLine = <<>> /\ crossedFill = {}
PerformanceInit == BatchInit /\ LimiterInit /\ ResponseInit

\* The sequence without those, in its order: SelectSeq, as a function that a
\* proof can unfold.
Less(s, gone) ==
    LET kept[i \in 0..Len(s)] ==
            IF i = 0 THEN <<>> ELSE IF s[i] \in gone THEN kept[i - 1] ELSE Append(kept[i - 1], s[i])
    IN kept[Len(s)]

-----------------------------------------------------------------------------
(* RequestBatcher *)

HoldsLock(x) == batcher.line # <<>> /\ Head(batcher.line) = x /\ batcher.sending = <<>>
Lines(x) == batcher' = [batcher EXCEPT !.line = Append(@, x)]

AddRequest(r) ==
    /\ asker[r] = "new" /\ asker' = [asker EXCEPT ![r] = "locking"]
    /\ Lines(r) /\ UNCHANGED batchLog
\* With the lock: the request fills the batch, which is sent with the lock in
\* hand, or sees to it that there is a timer.
EnterRequest(r) ==
    /\ HoldsLock(r)
    /\ asker' = [asker EXCEPT ![r] = "waiting"]
    /\ LET longer == Append(batcher.queue, r)
       IN batcher' = IF Len(longer) >= MaxBatch
                     THEN [batcher EXCEPT !.queue = <<>>, !.sending = longer]
                     ELSE [batcher EXCEPT !.queue = longer, !.line = Tail(@),
                                          !.timer = IF @ = "none" THEN "sleeping" ELSE @]
    /\ UNCHANGED batchLog

TimerWakes ==
    /\ batcher.timer = "sleeping"
    /\ batcher' = [batcher EXCEPT !.timer = "awake", !.line = Append(@, Timer)]
    /\ UNCHANGED <<asker, batchLog>>
\* _flush() takes what is queued; an empty queue has nothing to send.
Flushing(b) == [b EXCEPT !.queue = <<>>, !.sending = b.queue]
\* Bug: the timer that has found nothing to send is kept.
TimerEntersKept ==
    /\ HoldsLock(Timer)
    /\ batcher' = IF batcher.queue # <<>> THEN Flushing(batcher)
                  ELSE [batcher EXCEPT !.line = Tail(@), !.timer = "over"]
    /\ UNCHANGED <<asker, batchLog>>
TimerEnters ==
    /\ HoldsLock(Timer)
    /\ batcher' = IF batcher.queue # <<>> THEN Flushing(batcher)
                  ELSE [batcher EXCEPT !.line = Tail(@), !.timer = "none"]
    /\ UNCHANGED <<asker, batchLog>>

FlushPending ==
    /\ batchLog.flushes < MaxFlushes /\ ~Contains(batcher.line, Flusher)
    /\ batchLog' = [batchLog EXCEPT !.flushes = @ + 1]
    /\ Lines(Flusher) /\ UNCHANGED asker
\* The timer is cancelled, asleep or in the line, and the queue sent at once.
FlushEnters ==
    /\ HoldsLock(Flusher)
    /\ LET alone == [batcher EXCEPT !.timer = "none", !.line = Less(@, {Timer})]
       IN batcher' = IF batcher.queue # <<>> THEN Flushing(alone) ELSE [alone EXCEPT !.line = Tail(@)]
    /\ UNCHANGED <<asker, batchLog>>

\* The sender returns or raises.  Results are handed out in order; a future
\* that is cancelled breaks this off, and those that have nothing yet get the
\* error.
HandedOut(answers) ==
    LET sent == batcher.sending
        broken == {i \in DOMAIN sent : asker[sent[i]] = "gone"}
    IN [r \in Askers |->
          IF \E i \in DOMAIN sent : sent[i] = r /\ asker[r] # "gone"
          THEN IF \E i \in DOMAIN sent : sent[i] = r /\ \E b \in broken : b < i THEN "failed"
               ELSE answers[r]
          ELSE asker[r]]
LockFreed(b) == [b EXCEPT !.sending = <<>>, !.line = Tail(@),
                          !.timer = IF Head(b.line) = Timer THEN "none" ELSE @]
BatchAnswered ==
    /\ batcher.sending # <<>>
    /\ \E given \in [ToSet(batcher.sending) -> {"result", "failed"}] :
         LET answers == [r \in Askers |-> IF r \in DOMAIN given THEN given[r] ELSE batchLog.answers[r]]
         IN batchLog' = [batchLog EXCEPT !.answers = answers] /\ asker' = HandedOut(answers)
    /\ batcher' = LockFreed(batcher)

\* A caller is cancelled: where it waits for its result, where it waits for the
\* lock, or where it sends a batch, whose requests then have nobody to answer them.
AskerGivesUp(r) ==
    /\ asker[r] \in {"locking", "waiting"} /\ asker' = [asker EXCEPT ![r] = "gone"]
    /\ IF batcher.line # <<>> /\ Head(batcher.line) = r /\ batcher.sending # <<>>
       THEN /\ batcher' = LockFreed(batcher)
            /\ batchLog' = [batchLog EXCEPT !.stranded = @ \cup ToSet(batcher.sending)]
       ELSE /\ batcher' = [batcher EXCEPT !.line = Less(@, {r})]
            /\ UNCHANGED batchLog

BatchNext ==
    \/ \E r \in Askers : AddRequest(r) \/ EnterRequest(r) \/ AskerGivesUp(r)
    \/ TimerWakes \/ TimerEnters \/ FlushPending \/ FlushEnters \/ BatchAnswered

-----------------------------------------------------------------------------
(* RateLimiter *)

\* _refill()
Lesser(a, b) == IF a < b THEN a ELSE b
Refilled == [limiter EXCEPT !.tokens = Lesser(Burst, @ + (now - limiter.updated)), !.updated = now]

\* acquire() and try_acquire() wait for the lock in turn.
AskTokens(c, n, waits) ==
    /\ Len(granted) + Len(limiter.line) < MaxAsks
    /\ \A i \in DOMAIN limiter.line : limiter.line[i].by # c
    /\ limiter' = [limiter EXCEPT !.line = Append(@, [by |-> c, n |-> n, waits |-> waits])]
    /\ UNCHANGED <<now, granted>>
Total == IF granted = <<>> THEN 0 ELSE granted[Len(granted)].total
Grant(b) ==
    /\ LET n == Head(limiter.line).n IN granted' = Append(granted, [n |-> n, at |-> now, total |-> Total + n])
    /\ limiter' = [b EXCEPT !.tokens = @ - Head(limiter.line).n, !.line = Tail(@), !.wakes = -1]
EnterLimiter ==
    /\ limiter.line # <<>> /\ limiter.wakes = -1
    /\ LET ask == Head(limiter.line) full == Refilled
       IN IF full.tokens >= ask.n THEN Grant(full)
          ELSE /\ limiter' = IF ask.waits THEN [full EXCEPT !.wakes = now + (ask.n - full.tokens)]
                             ELSE [full EXCEPT !.line = Tail(@)]
               /\ UNCHANGED granted
    /\ UNCHANGED now
TakerWakes ==
    /\ limiter.wakes # -1 /\ now >= limiter.wakes
    /\ Grant(Refilled) /\ UNCHANGED now
TakerGivesUp(c) ==
    /\ \E i \in DOMAIN limiter.line : limiter.line[i].by = c
    /\ limiter' = [limiter EXCEPT !.wakes = IF Head(limiter.line).by = c THEN -1 ELSE @,
                                  !.line = Less(limiter.line, {ask \in ToSet(limiter.line) : ask.by = c})]
    /\ UNCHANGED <<now, granted>>
AvailableTokens == limiter' = Refilled /\ limiter' # limiter /\ UNCHANGED <<now, granted>>
LimiterTick == now < MaxClock /\ now' = now + 1 /\ UNCHANGED <<limiter, granted>>

LimiterNext ==
    \/ EnterLimiter \/ TakerWakes \/ AvailableTokens \/ LimiterTick
    \/ \E c \in Takers : TakerGivesUp(c) \/ \E n \in 1..Burst + 1, waits \in BOOLEAN : AskTokens(c, n, waits)

-----------------------------------------------------------------------------
(* ResponseCache *)

Without(keys) == Less(entries, {e \in ToSet(entries) : e.key \in keys})
Entry(k) == CHOOSE e \in ToSet(entries) : e.key = k
\* get(): an entry in time is moved to the end, a stale one is used where it
\* is, an older one deleted.
InCache(k) == \E e \in ToSet(entries) : e.key = k /\ e.age <= Ttl + StaleTtl
Looked(k) ==
    IF ~InCache(k) THEN Without({k})
    ELSE IF Entry(k).age <= Ttl THEN Append(Without({k}), Entry(k)) ELSE entries
\* set(): the oldest go until there is room, whether or not the key is there.
Stored(k, v) ==
    LET room == IF Len(entries) >= MaxSize THEN Tail(entries) ELSE entries
        new == [key |-> k, made |-> v, age |-> 0]
    IN IF \E e \in ToSet(room) : e.key = k
       THEN [i \in DOMAIN room |-> IF room[i].key = k THEN new ELSE room[i]]
       ELSE Append(room, new)

\* With the value at hand, or to be made.
LooksUp(c, k, call) ==
    /\ entries' = Looked(k)
    /\ IF InCache(k)
       THEN filling' = [filling EXCEPT ![c] = [call EXCEPT !.at = "idle", !.got = Entry(k).made, !.age = Entry(k).age]]
       ELSE filling' = [filling EXCEPT ![c] = [call EXCEPT !.at = "making"]]
Asking(c, k) == [NoCall EXCEPT !.key = k, !.since = version[k]]

\* get_or_set() waits for the lock; a cached_method does not.
GetOrSet(c, k) ==
    /\ filling[c].at = "idle"
    /\ filling' = [filling EXCEPT ![c] = [Asking(c, k) EXCEPT !.at = "locking"]]
    /\ fillLine' = Append(fillLine, c)
    /\ UNCHANGED <<entries, version, crossedFill>>
EnterCache(c) ==
    /\ filling[c].at = "locking" /\ Head(fillLine) = c
    /\ LooksUp(c, filling[c].key, filling[c])
    /\ fillLine' = IF InCache(filling[c].key) THEN Tail(fillLine) ELSE fillLine
    /\ UNCHANGED <<version, crossedFill>>
CachedCall(c, k) ==
    /\ filling[c].at = "idle"
    /\ LooksUp(c, k, Asking(c, k))
    /\ UNCHANGED <<version, fillLine, crossedFill>>
\* The factory reads what there is, and returns later.
FactoryReads(c) ==
    /\ filling[c].at = "making"
    /\ filling' = [filling EXCEPT ![c].at = "made", ![c].made = version[filling[c].key]]
    /\ UNCHANGED <<entries, version, fillLine, crossedFill>>
FillStored(c) ==
    /\ filling[c].at = "made"
    /\ entries' = Stored(filling[c].key, filling[c].made)
    /\ filling' = [filling EXCEPT ![c] = [filling[c] EXCEPT !.at = "idle", !.made = 0, !.got = filling[c].made]]
    /\ fillLine' = Less(fillLine, {c})
    /\ UNCHANGED <<version, crossedFill>>
FillGivesUp(c) ==
    /\ filling[c].at # "idle"
    /\ filling' = [filling EXCEPT ![c] = NoCall]
    /\ fillLine' = Less(fillLine, {c})
    /\ UNCHANGED <<entries, version, crossedFill>>

\* What is cached changes, and is invalidated: by its key, by a pattern, or all.
Invalidate(keys) ==
    /\ \A k \in keys : version[k] < MaxVersion
    /\ version' = [k \in Keys |-> IF k \in keys THEN version[k] + 1 ELSE version[k]]
    /\ entries' = Without(keys)
    /\ crossedFill' = crossedFill \cup {k \in keys : \E c \in Takers : filling[c].at = "made" /\ filling[c].key = k}
    /\ UNCHANGED <<filling, fillLine>>
ResponsesAge ==
    /\ \E i \in DOMAIN entries : entries[i].age <= Ttl + StaleTtl
    /\ entries' = [i \in DOMAIN entries |-> [entries[i] EXCEPT !.age = Lesser(@ + 1, Ttl + StaleTtl + 1)]]
    /\ UNCHANGED <<version, filling, fillLine, crossedFill>>

ResponseNext ==
    \/ ResponsesAge
    \/ \E keys \in SUBSET Keys : keys # {} /\ Invalidate(keys)
    \/ \E c \in Takers :
        \/ EnterCache(c) \/ FactoryReads(c) \/ FillStored(c) \/ FillGivesUp(c)
        \/ \E k \in Keys : GetOrSet(c, k) \/ CachedCall(c, k)

BatchSpec == BatchInit /\ [][BatchNext]_batchVars
LimiterSpec == LimiterInit /\ [][LimiterNext]_limiterVars
ResponseSpec == ResponseInit /\ [][ResponseNext]_responseVars

-----------------------------------------------------------------------------
\* A request that waits is queued with a timer under way, or in the batch being
\* sent, unless who sent its batch was cancelled; no batch is larger than the
\* limit; and a request that was answered well fails only where another caller
\* was cancelled (RequestBatcher).
BatchSound ==
    /\ \A r \in Askers : asker[r] = "waiting" =>
          Contains(batcher.queue, r) \/ Contains(batcher.sending, r) \/ r \in batchLog.stranded
    /\ batcher.queue # <<>> => batcher.timer \in {"sleeping", "awake"}
    /\ batcher.timer = "awake" <=> Contains(batcher.line, Timer)
    /\ Len(batcher.queue) < MaxBatch /\ Len(batcher.sending) <= MaxBatch
    /\ \A r \in Askers : asker[r] = "failed" /\ batchLog.answers[r] = "result" =>
          \E other \in Askers : asker[other] = "gone"

\* In no span of time are more tokens granted than the burst and what comes
\* back in it, while nobody asks for more than the burst (RateLimiter).
GrantedIn(i, j) == granted[j].total - granted[i].total + granted[i].n
LimitKept ==
    \A i, j \in DOMAIN granted :
        i <= j /\ (\A k \in i..j : granted[k].n <= Burst) =>
            GrantedIn(i, j) <= Burst + (granted[j].at - granted[i].at)

\* The cache keeps its size and each key once; what it returns is not too old,
\* nor from before an invalidation that was over when the call began, unless
\* one fell into the making of a value, which is then stored (ResponseCache).
ResponsesFresh ==
    /\ Len(entries) <= MaxSize
    /\ \A i, j \in DOMAIN entries : i # j => entries[i].key # entries[j].key
    /\ \A c \in Takers : filling[c].at = "idle" /\ filling[c].got # 0 =>
          /\ filling[c].age <= Ttl + StaleTtl
          /\ filling[c].key \notin crossedFill => filling[c].got >= filling[c].since

PerformanceSound == BatchSound /\ LimitKept /\ ResponsesFresh
=============================================================================
