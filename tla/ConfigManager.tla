---------------------------- MODULE ConfigManager ----------------------------
(***************************************************************************)
(* netsim/managers/config.py: the configuration cache.  Coroutines call    *)
(* get(), reload() and set(); each request waits in the adapter until its  *)
(* answer or its time-out.  The simulator is external: one connection, so  *)
(* it serves the requests in order.  A configuration is its version.       *)
(***************************************************************************)
EXTENDS Integers, Sequences

CONSTANTS
    Clients,      \* coroutines, one call at a time each
    MaxRequests   \* bound: requests sent to the simulator

ASSUME ConfigAssumption == MaxRequests \in Nat

Nothing == -1  \* no configuration

VARIABLES
    cached,     \* _config_cache
    expired,    \* _cache_time is older than the TTL
    config,     \* the version the simulator runs
    asked,      \* requests on their way: <<number, kind>>
    resolved,   \* futures set and not yet seen by their coroutine, in order
    waits,      \* the request each client awaits, or 0
    asks,   \* requests so far
    confirmed   \* history: the newest version set() has reported applied

configVars == <<cached, expired, config, asked, resolved, waits, asks, confirmed>>

ConfigInit ==
    /\ cached = Nothing
    /\ expired = FALSE
    /\ config = 0
    /\ asked = <<>>
    /\ resolved = <<>>
    /\ waits = [c \in Clients |-> 0]
    /\ asks = 0
    /\ confirmed = Nothing

Request(c, kind) ==
    /\ asks < MaxRequests
    /\ asks' = asks + 1
    /\ asked' = Append(asked, <<asks + 1, kind>>)
    /\ waits' = [waits EXCEPT ![c] = asks + 1]
    /\ UNCHANGED <<config, resolved, confirmed>>

(* get() with no valid cache, or with refresh=True; with a valid cache it    *)
(* changes nothing.                                                          *)
get(c, refresh) ==
    /\ waits[c] = 0
    /\ refresh \/ cached = Nothing \/ expired
    /\ Request(c, "get")
    /\ UNCHANGED <<cached, expired>>

reload(c) ==
    /\ waits[c] = 0
    /\ cached' = Nothing
    /\ expired' = FALSE
    /\ Request(c, "get")

set(c) ==
    /\ waits[c] = 0
    /\ Request(c, "set")
    /\ UNCHANGED <<cached, expired>>

\* The simulator serves a request or refuses it.  The adapter drops the answer
\* to a request nobody awaits any more.
Replies ==
    /\ asked # <<>>
    /\ \E done \in BOOLEAN :
          LET number == Head(asked)[1]
              kind == Head(asked)[2]
          IN  /\ config' = IF kind = "set" /\ done THEN config + 1 ELSE config
              /\ resolved' =
                   IF \E c \in Clients : waits[c] = number
                   THEN Append(resolved, [number |-> number, kind |-> kind, done |-> done,
                                          version |-> config'])
                   ELSE resolved
    /\ asked' = Tail(asked)
    /\ UNCHANGED <<cached, expired, waits, asks, confirmed>>

answer == Head(resolved)

Continues(c) ==
    /\ resolved # <<>>
    /\ waits[c] = answer.number
    /\ resolved' = Tail(resolved)
    /\ waits' = [waits EXCEPT ![c] = 0]
    /\ UNCHANGED <<config, asked, asks>>

(* The coroutine whose future was set first runs on: get() fills the cache   *)
(* or raises, set() empties it if its answer is True.                        *)
GetReturns(c) ==
    /\ Continues(c)
    /\ answer.kind = "get"
    /\ IF answer.done THEN cached' = answer.version /\ expired' = FALSE
                      ELSE UNCHANGED <<cached, expired>>
    /\ UNCHANGED confirmed

(* Mutant: set() leaves the cache to its time to live. *)
SetReturnsKept(c) ==
    /\ Continues(c)
    /\ answer.kind = "set"
    /\ confirmed' = IF answer.done THEN answer.version ELSE confirmed
    /\ UNCHANGED <<cached, expired>>

SetReturns(c) ==
    /\ Continues(c)
    /\ answer.kind = "set"
    /\ IF answer.done THEN /\ cached' = Nothing /\ expired' = FALSE
                           /\ confirmed' = answer.version
                      ELSE UNCHANGED <<cached, expired, confirmed>>

(* wait_for() gives up, unless the future is set already. *)
TimesOut(c) ==
    /\ waits[c] # 0
    /\ \A i \in DOMAIN resolved : resolved[i].number # waits[c]
    /\ waits' = [waits EXCEPT ![c] = 0]
    /\ UNCHANGED <<cached, expired, config, asked, resolved, asks, confirmed>>

Expires ==
    /\ cached # Nothing
    /\ expired' = TRUE
    /\ UNCHANGED <<cached, config, asked, resolved, waits, asks, confirmed>>

ConfigNext ==
    \/ \E c \in Clients : \/ \E refresh \in BOOLEAN : get(c, refresh)
                          \/ reload(c) \/ set(c) \/ TimesOut(c)
                          \/ GetReturns(c) \/ SetReturns(c)
    \/ Replies \/ Expires

ConfigSpec == ConfigInit /\ [][ConfigNext]_configVars

-----------------------------------------------------------------------------
Kinds == {"get", "set"}
Answers == [number : Nat, kind : Kinds, done : BOOLEAN, version : Nat]

(* Every variable has its type. *)
ConfigTypeOK ==
    /\ cached \in Nat \cup {Nothing} /\ expired \in BOOLEAN
    /\ config \in Nat /\ asks \in Nat
    /\ asked \in Seq(Nat \X Kinds)
    /\ resolved \in Seq(Answers)
    /\ waits \in [Clients -> Nat]
    /\ confirmed \in Nat \cup {Nothing}

(* What get() and get_cached() hand out is never older than a version whose  *)
(* set() has returned True to any coroutine, with other calls, time-outs and *)
(* late answers between them.  (A set() that times out may have been applied *)
(* all the same; the old configuration then lives on until its TTL ends.)    *)
ConfigFresh == cached # Nothing => cached >= confirmed
=============================================================================
