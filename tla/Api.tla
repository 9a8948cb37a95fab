--------------------------------- MODULE Api ---------------------------------
(***************************************************************************)
(* The public API in front of live_states: the cached query of             *)
(* src/api/queries_live.py and src/api/cache.py, the sampler and the       *)
(* streams of src/api/main.py.                                             *)
(*                                                                         *)
(* The time constants keep their order, not their size.  One cached query  *)
(* is modelled, live_snapshot; its statements are taken to be one.  The    *)
(* streams are those of one address.                                       *)
(***************************************************************************)
EXTENDS Integers, FiniteSets

CONSTANTS
    Null,
    Routes,             \* the requests that call live_snapshot
    Streams,            \* the requests for /v1/stream
    Ttl,                \* of live_snapshot
    SSE_INTERVAL_S,
    SSE_MAX_PER_IP,
    MaxTime             \* bound: how long the clock runs

ASSUME ApiAssumption ==
    /\ Ttl \in Nat /\ SSE_INTERVAL_S \in Nat /\ Ttl <= SSE_INTERVAL_S
    /\ SSE_MAX_PER_IP \in Nat /\ MaxTime \in Nat
    /\ IsFiniteSet(Streams) /\ Streams \cap Routes = {}
    /\ "sampler" \notin Streams \cup Routes

VARIABLES
    now,            \* the clock
    dbUp,           \* Postgres answers
    store,          \* the cache: what it holds and since when, or Null
    calls,          \* per caller: its call of live_snapshot in progress, or Null
    latest,         \* app.state.latest_snapshot, or Null
    nextTick,       \* when the sampler wakes
    stream,         \* per stream: "closed", "accepted", "running"
    sse_clients     \* _sse_clients of the address

streamVars == <<stream, sse_clients>>
apiVars    == <<now, dbUp, latest, nextTick, store, calls, streamVars>>

Callers == Routes \cup Streams \cup {"sampler"}

ApiInit ==
    /\ now = 0 /\ dbUp = TRUE
    /\ store = Null /\ latest = Null /\ nextTick = 0
    /\ calls = [c \in Callers |-> Null]
    /\ stream = [s \in Streams |-> "closed"] /\ sse_clients = 0

-----------------------------------------------------------------------------
(* The world outside.                                                      *)
Clock ==
    /\ now < MaxTime /\ now' = now + 1
    /\ UNCHANGED <<dbUp, latest, nextTick, store, calls, streamVars>>

Database ==
    /\ dbUp' = ~dbUp
    /\ UNCHANGED <<now, latest, nextTick, store, calls, streamVars>>

-----------------------------------------------------------------------------
(* Bug forms, for the mutation runs.                                       *)
CountKept == UNCHANGED sse_clients
AbandonUncounts(s) ==
    /\ stream[s] = "accepted" /\ stream' = [stream EXCEPT ![s] = "closed"]
    /\ sse_clients' = sse_clients - 1
    /\ UNCHANGED <<now, dbUp, latest, nextTick, store, calls>>
StampWhenStored(call) == now
SleepFromStart(call) == call.started + SSE_INTERVAL_S
-----------------------------------------------------------------------------

(* The cache entry is as old as the call that made it.                     *)
Stamp(call) == call.started

Hit == store # Null /\ now - store.at < Ttl

(* wrapped(), first half: a hit returns the stored value at once.          *)
CallHits(c) == calls[c] = Null /\ Hit /\ UNCHANGED <<store, calls>>

CallMisses(c) ==
    /\ calls[c] = Null /\ ~Hit
    /\ calls' = [calls EXCEPT ![c] = [started |-> now, value |-> Null]]
    /\ UNCHANGED store

(* live_snapshot itself, outside the lock.                                 *)
Query(c) ==
    /\ calls[c] # Null /\ calls[c].value = Null /\ dbUp
    /\ calls' = [calls EXCEPT ![c].value = [readAt |-> now]]
    /\ UNCHANGED <<now, dbUp, latest, nextTick, store, streamVars>>

QueryFails(c) ==
    /\ calls[c] # Null /\ calls[c].value = Null /\ ~dbUp
    /\ calls' = [calls EXCEPT ![c] = Null]
    /\ UNCHANGED store

(* wrapped(), second half: whoever comes last is kept.                     *)
Store(c) ==
    /\ calls[c] # Null /\ calls[c].value # Null
    /\ store' = [at |-> Stamp(calls[c]), value |-> calls[c].value]
    /\ calls' = [calls EXCEPT ![c] = Null]

(* A route starts its call, and gets a value or an error.                  *)
Route(c) ==
    /\ CallHits(c) \/ CallMisses(c) \/ QueryFails(c) \/ Store(c)
    /\ UNCHANGED <<now, dbUp, latest, nextTick, streamVars>>

-----------------------------------------------------------------------------
(* _sampler_loop: a tick that failed keeps the last good value; the sleep  *)
(* begins when the tick is over.                                           *)
WakeAfter(call) == now + SSE_INTERVAL_S

SamplerStarts ==
    /\ now >= nextTick
    /\ \/ /\ CallMisses("sampler") /\ UNCHANGED <<latest, nextTick>>
       \/ /\ CallHits("sampler")
          /\ latest' = store.value /\ nextTick' = WakeAfter([started |-> now])
    /\ UNCHANGED <<now, dbUp, streamVars>>

SamplerGets ==
    /\ Store("sampler")
    /\ latest' = calls["sampler"].value /\ nextTick' = WakeAfter(calls["sampler"])
    /\ UNCHANGED <<now, dbUp, streamVars>>

SamplerFails ==
    /\ QueryFails("sampler")
    /\ nextTick' = WakeAfter(calls["sampler"])
    /\ UNCHANGED <<now, dbUp, latest, streamVars>>

-----------------------------------------------------------------------------
(* stream(): the limit is checked in the handler, the stream counted when  *)
(* its generator starts, which a client that went away keeps from doing.   *)
Accept(s) ==
    /\ stream[s] = "closed" /\ sse_clients < SSE_MAX_PER_IP
    /\ stream' = [stream EXCEPT ![s] = "accepted"]
    /\ UNCHANGED <<now, dbUp, latest, nextTick, store, calls, sse_clients>>

Begin(s) ==
    /\ stream[s] = "accepted" /\ stream' = [stream EXCEPT ![s] = "running"]
    /\ sse_clients' = sse_clients + 1
    /\ UNCHANGED <<now, dbUp, latest, nextTick, store, calls>>

Abandon(s) ==
    /\ stream[s] = "accepted" /\ stream' = [stream EXCEPT ![s] = "closed"]
    /\ UNCHANGED <<now, dbUp, latest, nextTick, store, calls, sse_clients>>

(* gen(): it sends the sampler's snapshot, which changes nothing here; as  *)
(* long as there is none, it makes a call of its own.                      *)
SendOwn(s) ==
    /\ stream[s] = "running"
    /\ \/ latest = Null /\ (CallHits(s) \/ CallMisses(s))
       \/ Store(s)
    /\ UNCHANGED <<now, dbUp, latest, nextTick, streamVars>>

(* The finally clause.                                                     *)
Uncount == sse_clients' = sse_clients - 1

StreamRaises(s) ==
    /\ stream[s] = "running" /\ QueryFails(s)
    /\ stream' = [stream EXCEPT ![s] = "closed"] /\ Uncount
    /\ UNCHANGED <<now, dbUp, latest, nextTick>>

Disconnect(s) ==
    /\ stream[s] = "running" /\ calls[s] = Null
    /\ stream' = [stream EXCEPT ![s] = "closed"] /\ Uncount
    /\ UNCHANGED <<now, dbUp, latest, nextTick, store, calls>>

ApiNext ==
    \/ Clock \/ Database
    \/ SamplerStarts \/ SamplerGets \/ SamplerFails
    \/ \E c \in Callers : Query(c)
    \/ \E c \in Routes : Route(c)
    \/ \E s \in Streams :
          \/ Accept(s) \/ Begin(s) \/ Abandon(s) \/ SendOwn(s)
          \/ StreamRaises(s) \/ Disconnect(s)

ApiSpec == ApiInit /\ [][ApiNext]_apiVars

-----------------------------------------------------------------------------
ApiTypeOK ==
    /\ now \in Nat /\ dbUp \in BOOLEAN /\ nextTick \in Nat
    /\ sse_clients \in Nat /\ stream \in [Streams -> {"closed", "accepted", "running"}]
    /\ store # Null => store.at \in 0..now /\ store.value.readAt \in 0..now

(* A hit hands out what was in the database less than the TTL ago: however *)
(* slow the calls are, and whichever of those that run at once stores last.*)
HitsAreRecent == Hit => store.value.readAt > now - Ttl

(* Although the cache may go back in time, what the streams share does not.*)
LatestNeverBackwards ==
    [][latest # Null => latest'.readAt >= latest.readAt]_latest

(* No slot of an address is lost or given away twice.                      *)
StreamsCounted == sse_clients = Cardinality({s \in Streams : stream[s] = "running"})

=============================================================================
