------------------------------ MODULE ToolCore ------------------------------
(***************************************************************************)
(* ToolCore.execute (tool-core, index.ts) for one key: the exact cache,    *)
(* the promises in flight and the cost policy.  Calls run in one process   *)
(* and interleave at their awaits; a value is named by the call that       *)
(* loaded it.  The cost policy and the provider are external; the cache    *)
(* answers and stores as ExactMemoryCache does.                            *)
(***************************************************************************)
EXTENDS Naturals

CONSTANTS Calls, NoCall,  \* calls of execute, and none
          Ttl,            \* validity a caller asks for
          MaxTime         \* bound: the clock

ASSUME ToolAssumption == NoCall \notin Calls /\ Ttl \in Nat /\ MaxTime \in Nat

VARIABLES place,    \* each call's place
          looked,   \* the value a call has looked up or was given
          wanted,   \* expiresAt of a call
          leader,   \* the call whose promise a call awaits
          promise,  \* outcome of the promise a call made
          flight,   \* inflight: the call whose promise is registered
          cache,    \* the entry of the key
          fresh,    \* the call that set freshnessAt, from which ages are taken
          answer,   \* what a call returned
          now

toolVars == <<place, looked, wanted, leader, promise, flight, cache, fresh, answer, now>>

Leading == {"loading", "storing", "settled"}
Places == {"new", "looked", "joined", "hit", "done"} \cup Leading
NoAnswer == [kind |-> "none", dated |-> NoCall]

ToolInit ==
    /\ place = [c \in Calls |-> "new"] /\ looked = [c \in Calls |-> NoCall]
    /\ wanted = [c \in Calls |-> 0] /\ leader = [c \in Calls |-> NoCall]
    /\ promise = [c \in Calls |-> "none"] /\ answer = [c \in Calls |-> NoAnswer]
    /\ cache = [value |-> NoCall, until |-> 0]
    /\ flight = NoCall /\ fresh = NoCall /\ now = 0

Proceed(c, l) == place' = [place EXCEPT ![c] = l]

Answer(c, kind) ==
    /\ Proceed(c, "done")
    /\ answer' = [answer EXCEPT ![c] = [kind |-> kind, dated |-> fresh]]

\* The cache is asked; a miss goes on when its answer has arrived.
Lookup(c) ==
    /\ place[c] = "new"
    /\ Proceed(c, IF cache.until > now THEN "hit" ELSE "looked")
    /\ wanted' = [wanted EXCEPT ![c] = now + Ttl]
    /\ looked' = [looked EXCEPT ![c] = IF cache.until > now THEN cache.value ELSE NoCall]
    /\ UNCHANGED <<leader, promise, flight, cache, fresh, answer, now>>

\* A hit awaits the cost policy, which may charge nothing, and is returned.
ReturnHit(c) ==
    /\ place[c] = "hit"
    /\ Answer(c, "cached") \/ Answer(c, "error")
    /\ UNCHANGED <<looked, wanted, leader, promise, flight, cache, fresh, now>>

\* A miss awaits the promise in flight,
Join(c) ==
    /\ place[c] = "looked" /\ flight # NoCall
    /\ Proceed(c, "joined")
    /\ leader' = [leader EXCEPT ![c] = flight]
    /\ UNCHANGED <<looked, wanted, promise, flight, cache, fresh, answer, now>>

\* or makes one and registers it before anybody else runs.
Lead(c) ==
    /\ place[c] = "looked" /\ flight = NoCall
    /\ Proceed(c, "loading")
    /\ promise' = [promise EXCEPT ![c] = "pending"]
    /\ flight' = c
    /\ UNCHANGED <<looked, wanted, leader, cache, fresh, answer, now>>

\* The cost policy agrees, load() answers, the value has no field that is not
\* allowed, and is cached.
Load(c) ==
    /\ place[c] = "loading"
    /\ Proceed(c, "storing")
    /\ cache' = [value |-> c, until |-> wanted[c]]
    /\ UNCHANGED <<looked, wanted, leader, promise, flight, fresh, answer, now>>

Stored(c) ==
    /\ place[c] = "storing"
    /\ Proceed(c, "settled")
    /\ fresh' = c
    /\ promise' = [promise EXCEPT ![c] = "value"]
    /\ UNCHANGED <<looked, wanted, leader, flight, cache, answer, now>>

\* The cost policy denies, the provider throws, its schema drifted, or the
\* cache does not store.
Reject(c) ==
    /\ place[c] = "loading"
    /\ Proceed(c, "settled")
    /\ promise' = [promise EXCEPT ![c] = "error"]
    /\ UNCHANGED <<looked, wanted, leader, flight, cache, fresh, answer, now>>

\* catch and finally take the call's own promise out.
StillFlying(c) == IF promise[c] # "error" /\ flight # c THEN flight ELSE NoCall

\* The call that made the promise resumes before those that await it.
Settle(c) ==
    /\ place[c] = "settled"
    /\ flight' = StillFlying(c)
    /\ Answer(c, IF promise[c] = "value" THEN "loaded" ELSE "error")
    /\ UNCHANGED <<looked, wanted, leader, promise, cache, fresh, now>>

Follow(c) ==
    /\ place[c] = "joined" /\ place[leader[c]] = "done"
    /\ \/ /\ promise[leader[c]] = "value"
          /\ Proceed(c, "hit")
          /\ looked' = [looked EXCEPT ![c] = leader[c]]
          /\ UNCHANGED answer
       \/ /\ promise[leader[c]] = "error"
          /\ Answer(c, "error")
          /\ UNCHANGED looked
    /\ UNCHANGED <<wanted, leader, promise, flight, cache, fresh, now>>

Tick ==
    /\ now < MaxTime
    /\ now' = now + 1
    /\ UNCHANGED <<place, looked, wanted, leader, promise, flight, cache, fresh, answer>>

\* What a call under way does next.
Resume(c) ==
    \/ ReturnHit(c) \/ Join(c) \/ Lead(c) \/ Load(c) \/ Stored(c) \/ Reject(c)
    \/ Settle(c) \/ Follow(c)

ToolNext == Tick \/ \E c \in Calls : Lookup(c) \/ Resume(c)
-----------------------------------------------------------------------------
ToolTypeOK ==
    /\ place \in [Calls -> Places] /\ looked \in [Calls -> Calls \cup {NoCall}]
    /\ wanted \in [Calls -> 0..MaxTime + Ttl] /\ leader \in [Calls -> Calls \cup {NoCall}]
    /\ promise \in [Calls -> {"none", "pending", "value", "error"}]
    /\ flight \in Calls \cup {NoCall}
    /\ cache \in [value : Calls \cup {NoCall}, until : 0..MaxTime + Ttl]
    /\ fresh \in Calls \cup {NoCall} /\ now \in 0..MaxTime
    /\ answer \in [Calls -> [kind : {"none", "cached", "loaded", "error"},
                             dated : Calls \cup {NoCall}]]

\* Quota is spent by one call of a key at a time: whoever is between the cost
\* policy and its provider's answer holds the flight, and a call that failed
\* does not keep the key from the next one.
OneFlight ==
    /\ \A c \in Calls : place[c] \in Leading => flight = c
    /\ flight # NoCall => place[flight] \in Leading

\* Every call of execute that was begun is answered.
Answered == \A c \in Calls : place[c] \in {"new", "done"}

\* The freshnessSeconds of a cached answer are those of its value.  A claim
\* that does not hold: freshnessAt is read after the await of the cost policy,
\* when another call may have loaded the key again, and set after the value.
AgeIsOfItsValue ==
    \A c \in Calls : answer[c].kind = "cached" => answer[c].dated = looked[c]
=============================================================================
