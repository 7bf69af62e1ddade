--------------------------- MODULE LLMClientProofs ---------------------------
(***************************************************************************)
(* The LLM client's counters add up, and its cache keeps its word, for     *)
(* every set of clients, prompts and replies and any number of requests.   *)
(***************************************************************************)
EXTENDS LLMClient, TLAPS

(* A request's key is a key of the cache. *)
LEMMA KeyFacts ==
  ASSUME NEW c \in Clients, NEW kind \in Kinds, NEW p \in Prompts
  PROVE  /\ Key(c, kind, p) \in Keys
         /\ Key(c, kind, p)[1] = ModelOf[c] /\ Key(c, kind, p)[4] = NamespaceOf[c]
  BY DEF Key, Keys

(* The counters after a reply are counters, with one more reply in one of two places. *)
LEMMA MeteredFacts ==
  ASSUME NEW count \in Counters, NEW told \in BOOLEAN
  PROVE  /\ Metered(count, told) \in Counters
         /\ Metered(count, told).calls = count.calls
         /\ Metered(count, told).metered + Metered(count, told).unmetered = count.metered + count.unmetered + 1
  BY DEF Metered, Counters

(* What a failed attempt leads to, when its own call is already accounted for. *)
LEMMA RetryFacts ==
  ASSUME TypeOK, UsageAddsUp, request # None, NEW count \in Counters,
         lost' \in [Clients -> Nat],
         \A c \in Clients \ {request.client} : lost'[c] = lost[c],
         count.calls = count.metered + count.unmetered + lost'[request.client],
         RetryOrRaise(count)
  PROVE  /\ usage' \in [Clients -> Counters]
         /\ request' \in Request \cup {None}
         /\ request' # None => /\ request'.client = request.client
                               /\ request'.kind = request.kind /\ request'.prompt = request.prompt
         /\ UsageAddsUp'
  <1> DEFINE me == request.client
  <1>1. /\ request \in Request /\ me \in Clients /\ request.attempt \in 0 .. 2
    BY DEF TypeOK, Request
  <1>2. usage \in [Clients -> Counters] /\ lost \in [Clients -> Nat]
    BY DEF TypeOK
  <1>3. \A c \in Clients \ {me} : usage[c].calls = usage[c].metered + usage[c].unmetered + lost[c]
    <2>1. \A c \in Clients \ {me} :
            /\ InFlight(c) = 0
            /\ usage[c].calls = usage[c].metered + usage[c].unmetered + lost[c] + InFlight(c)
            /\ usage[c] \in Counters /\ lost[c] \in Nat
      BY <1>2 DEF UsageAddsUp, InFlight
    <2> QED
      BY <2>1 DEF Counters
  <1>4. CASE LastAttempt
    <2>1. request' = None /\ usage' = [usage EXCEPT ![me] = count]
      BY <1>4 DEF RetryOrRaise
    <2>2. \A c \in Clients : InFlight(c)' = 0
      BY <2>1 DEF InFlight
    <2>3. usage' \in [Clients -> Counters]
      BY <1>2, <2>1
    <2>4. \A c \in Clients : usage'[c].calls = usage'[c].metered + usage'[c].unmetered + lost'[c] + 0
      <3> TAKE c \in Clients
      <3>1. CASE c = me
        BY <1>1, <1>2, <2>1, <3>1 DEF Counters
      <3>2. CASE c # me
        BY <1>2, <1>3, <2>1, <3>2 DEF Counters
      <3> QED
        BY <3>1, <3>2
    <2> QED
      BY <2>1, <2>2, <2>3, <2>4 DEF UsageAddsUp
  <1>5. CASE ~LastAttempt
    <2> DEFINE again == [count EXCEPT !.retries = @ + 1, !.calls = @ + 1]
    <2>1. request' = [request EXCEPT !.attempt = @ + 1] /\ usage' = [usage EXCEPT ![me] = again]
      BY <1>5 DEF RetryOrRaise
    <2>2. /\ again \in Counters /\ again.calls = count.calls + 1
          /\ again.metered = count.metered /\ again.unmetered = count.unmetered
      <3> DEFINE retried == [count EXCEPT !.retries = count.retries + 1]
      <3>1. again = [retried EXCEPT !.calls = count.calls + 1]
        BY DEF Counters
      <3>2. /\ retried \in Counters /\ retried.calls = count.calls
            /\ retried.metered = count.metered /\ retried.unmetered = count.unmetered
        BY DEF Counters
      <3> HIDE DEF again, retried
      <3> QED
        BY <3>1, <3>2 DEF Counters
    <2>3. /\ request' \in Request /\ request'.client = me /\ request'.kind = request.kind
          /\ request'.prompt = request.prompt /\ request'.attempt <= 2
      BY <1>1, <1>5, <2>1 DEF Request, LastAttempt
    <2>4. request' # None
      BY <2>3, ClientAssumption
    <2>5. \A c \in Clients : InFlight(c)' = IF c = me THEN 1 ELSE 0
      BY <2>3, <2>4 DEF InFlight
    <2> HIDE DEF again
    <2>6. usage' \in [Clients -> Counters]
      BY <1>2, <2>1, <2>2
    <2>7. \A c \in Clients :
            usage'[c].calls = usage'[c].metered + usage'[c].unmetered + lost'[c] + (IF c = me THEN 1 ELSE 0)
      <3> TAKE c \in Clients
      <3>1. CASE c = me
        <4>1. usage'[c] = again
          BY <1>1, <1>2, <2>1, <3>1
        <4>2. /\ count.calls \in Nat /\ count.metered \in Nat /\ count.unmetered \in Nat /\ lost'[c] \in Nat
          BY <1>1, <3>1 DEF Counters
        <4> QED
          BY <2>2, <3>1, <4>1, <4>2
      <3>2. CASE c # me
        BY <1>2, <1>3, <2>1, <3>2 DEF Counters
      <3> QED
        BY <3>1, <3>2
    <2> QED
      BY <2>3, <2>5, <2>6, <2>7 DEF UsageAddsUp
  <1> QED
    BY <1>4, <1>5
-----------------------------------------------------------------------------
(* An action that leaves the cache alone, and gives out nothing new, keeps the cache's word. *)
LEMMA CacheUntouched ==
  ASSUME GivenIsStored, StoredByOwner, UNCHANGED <<cache, served>>
  PROVE  GivenIsStored' /\ StoredByOwner'
  BY DEF GivenIsStored, StoredByOwner

(* An attempt that fails, retried or not, is for the same request or none. *)
LEMMA StillMissingKept ==
  ASSUME StillMissing, UNCHANGED cache, request # None,
         request' # None => /\ request'.client = request.client
                            /\ request'.kind = request.kind /\ request'.prompt = request.prompt
  PROVE  StillMissing'
  BY DEF StillMissing

(* A hit counts, and hands out what is stored (agent/llm.py:249-254). *)
LEMMA HitKeeps == ClientInv /\ Hit => ClientInv'
  <1> SUFFICES ASSUME ClientInv, Hit PROVE ClientInv'
    OBVIOUS
  <1>1. PICK client \in Clients, kind \in Kinds, prompt \in Prompts :
          LET key == Key(client, kind, prompt)
          IN /\ cache[key] # None
             /\ usage' = [usage EXCEPT ![client].hits = @ + 1]
             /\ Serve(key, cache[key], client)
    BY DEF Hit
  <1> DEFINE key == Key(client, kind, prompt)
             one == [usage[client] EXCEPT !.hits = @ + 1]
  <1>2. UNCHANGED <<cache, request, lost>> /\ request = None
    BY DEF Hit
  <1>3. /\ one \in Counters /\ one.calls = usage[client].calls
        /\ one.metered = usage[client].metered /\ one.unmetered = usage[client].unmetered
    BY DEF ClientInv, TypeOK, Counters
  <1>4. usage' = [usage EXCEPT ![client] = one]
    BY <1>1
  <1> HIDE DEF one
  <1>5. TypeOK'
    BY <1>2, <1>3, <1>4 DEF ClientInv, TypeOK
  <1>6. UsageAddsUp'
    <2>1. \A c \in Clients : /\ usage'[c].calls = usage[c].calls
                             /\ usage'[c].metered = usage[c].metered
                             /\ usage'[c].unmetered = usage[c].unmetered
                             /\ InFlight(c)' = InFlight(c)
      BY <1>2, <1>3, <1>4 DEF ClientInv, TypeOK, InFlight
    <2> QED
      BY <1>2, <2>1 DEF ClientInv, UsageAddsUp
  <1>7. StillMissing'
    BY <1>2 DEF StillMissing
  <1>8. GivenIsStored'
    <2>1. key \in Keys /\ key[1] = ModelOf[client] /\ key[4] = NamespaceOf[client]
      BY KeyFacts
    <2>2. cache[key] \in Entry
      BY <1>1, <2>1 DEF ClientInv, TypeOK
    <2>3. served' = served \cup {[key |-> key, reply |-> cache[key].reply, by |-> cache[key].by, to |-> client]}
      BY <1>1 DEF Serve
    <2> HIDE DEF key
    <2> QED
      BY <1>2, <2>1, <2>2, <2>3 DEF ClientInv, GivenIsStored
  <1>9. StoredByOwner'
    BY <1>2 DEF ClientInv, StoredByOwner
  <1> QED
    BY <1>5, <1>6, <1>7, <1>8, <1>9 DEF ClientInv

(* A miss opens a request for a key with no entry, and its first call (agent/llm.py:341-351). *)
LEMMA MissKeeps == ClientInv /\ Miss => ClientInv'
  <1> SUFFICES ASSUME ClientInv, Miss PROVE ClientInv'
    OBVIOUS
  <1>1. PICK client \in Clients, kind \in Kinds, prompt \in Prompts :
          /\ cache[Key(client, kind, prompt)] = None
          /\ request' = [client |-> client, kind |-> kind, prompt |-> prompt, attempt |-> 0]
          /\ usage' = [usage EXCEPT ![client].calls = @ + 1]
    BY DEF Miss
  <1> DEFINE one == [usage[client] EXCEPT !.calls = @ + 1]
  <1>2. UNCHANGED <<cache, lost, served>> /\ request = None
    BY DEF Miss
  <1>3. /\ one \in Counters /\ one.calls = usage[client].calls + 1
        /\ one.metered = usage[client].metered /\ one.unmetered = usage[client].unmetered
    BY DEF ClientInv, TypeOK, Counters
  <1>4. usage' = [usage EXCEPT ![client] = one]
    BY <1>1
  <1>5. request' \in Request /\ request' # None
    BY <1>1, ClientAssumption DEF Request
  <1> HIDE DEF one
  <1>6. TypeOK'
    BY <1>2, <1>3, <1>4, <1>5 DEF ClientInv, TypeOK
  <1>7. UsageAddsUp'
    <2>1. \A c \in Clients : InFlight(c)' = IF c = client THEN 1 ELSE 0
      BY <1>1, <1>5 DEF InFlight
    <2>2. \A c \in Clients : /\ usage[c].calls = usage[c].metered + usage[c].unmetered + lost[c]
                             /\ usage[c] \in Counters /\ lost[c] \in Nat
      <3>1. \A c \in Clients : InFlight(c) = 0
        BY <1>2 DEF InFlight
      <3> QED
        BY <3>1 DEF ClientInv, TypeOK, UsageAddsUp, Counters
    <2>3. \A c \in Clients : usage'[c].calls =
            usage'[c].metered + usage'[c].unmetered + lost'[c] + (IF c = client THEN 1 ELSE 0)
      <3> TAKE c \in Clients
      <3>1. usage'[c] = IF c = client THEN one ELSE usage[c]
        BY <1>4 DEF ClientInv, TypeOK
      <3> QED
        BY <1>2, <1>3, <2>2, <3>1 DEF Counters
    <2>4. request'.attempt <= 2
      BY <1>1
    <2> QED
      BY <2>1, <2>3, <2>4 DEF UsageAddsUp
  <1>8. StillMissing'
    BY <1>1, <1>2 DEF StillMissing
  <1> QED
    BY <1>2, <1>6, <1>7, <1>8, CacheUntouched DEF ClientInv
(* An answer is metered, stored and given out in one (agent/llm.py:357, 366-368). *)
LEMMA AnsweredKeeps == ClientInv /\ Answered => ClientInv'
  <1> SUFFICES ASSUME ClientInv, Answered PROVE ClientInv'
    OBVIOUS
  <1> DEFINE me == request.client
             key == Key(request.client, request.kind, request.prompt)
  <1>1. PICK reply \in Replies, told \in BOOLEAN :
          /\ usage' = [usage EXCEPT ![me] = Metered(@, told)]
          /\ cache' = [cache EXCEPT ![key] = [reply |-> reply, by |-> me]]
          /\ Serve(key, [reply |-> reply, by |-> me], me)
    BY DEF Answered
  <1> DEFINE entry == [reply |-> reply, by |-> me]
             count == Metered(usage[me], told)
  <1>2. request # None /\ request' = None /\ UNCHANGED lost
    BY DEF Answered
  <1>3. request \in Request /\ me \in Clients /\ entry \in Entry /\ entry # None
    BY <1>2, ClientAssumption DEF ClientInv, TypeOK, Request, Entry
  <1>4. key \in Keys /\ key[1] = ModelOf[me] /\ key[4] = NamespaceOf[me] /\ cache[key] = None
    BY <1>2, <1>3, KeyFacts DEF Request, ClientInv, StillMissing
  <1>5. /\ count \in Counters /\ count.calls = usage[me].calls
        /\ count.metered + count.unmetered = usage[me].metered + usage[me].unmetered + 1
    BY <1>3, MeteredFacts DEF ClientInv, TypeOK
  <1>6. usage' = [usage EXCEPT ![me] = count]
    BY <1>1
  <1>7. served' = served \cup {[key |-> key, reply |-> entry.reply, by |-> entry.by, to |-> me]}
    BY <1>1 DEF Serve
  <1> HIDE DEF count, key
  <1>8. TypeOK'
    BY <1>1, <1>2, <1>3, <1>4, <1>5, <1>6 DEF ClientInv, TypeOK
  <1>9. UsageAddsUp'
    <2>1. \A c \in Clients : InFlight(c)' = 0 /\ InFlight(c) = IF c = me THEN 1 ELSE 0
      BY <1>2 DEF InFlight
    <2>2. \A c \in Clients : usage'[c].calls = usage'[c].metered + usage'[c].unmetered + lost'[c] + 0
      <3> TAKE c \in Clients
      <3>1. /\ usage[c].calls = usage[c].metered + usage[c].unmetered + lost[c] + (IF c = me THEN 1 ELSE 0)
            /\ usage[c] \in Counters /\ lost[c] \in Nat
        BY <2>1 DEF ClientInv, UsageAddsUp, TypeOK
      <3>2. usage'[c] = IF c = me THEN count ELSE usage[c]
        BY <1>6 DEF ClientInv, TypeOK
      <3> QED
        BY <1>2, <1>5, <3>1, <3>2 DEF Counters
    <2> QED
      BY <1>2, <2>1, <2>2 DEF UsageAddsUp
  <1>10. StillMissing'
    BY <1>2 DEF StillMissing
  <1>11. /\ cache'[key] = entry
         /\ \A k \in Keys \ {key} : cache'[k] = cache[k]
    BY <1>1, <1>4 DEF ClientInv, TypeOK
  <1>12. GivenIsStored'
    <2>1. \A s \in served : s.key # key /\ cache'[s.key] = cache[s.key]
      BY <1>4, <1>11, ClientAssumption DEF ClientInv, GivenIsStored
    <2> QED
      BY <1>3, <1>4, <1>7, <1>11, <2>1 DEF ClientInv, GivenIsStored
  <1>13. StoredByOwner'
    BY <1>4, <1>11 DEF ClientInv, StoredByOwner
  <1> QED
    BY <1>8, <1>9, <1>10, <1>12, <1>13 DEF ClientInv

(* A reply that does not parse is metered, and retried or raised (agent/llm.py:125-135, 360-365). *)
LEMMA GarbledKeeps == ClientInv /\ Garbled => ClientInv'
  <1> SUFFICES ASSUME ClientInv, Garbled PROVE ClientInv'
    OBVIOUS
  <1> DEFINE me == request.client
  <1>1. PICK told \in BOOLEAN : RetryOrRaise(Metered(usage[me], told))
    BY DEF Garbled
  <1> DEFINE count == Metered(usage[me], told)
  <1>2. request # None /\ UNCHANGED <<cache, lost, served>>
    BY DEF Garbled
  <1>3. request \in Request /\ me \in Clients
    BY <1>2 DEF ClientInv, TypeOK, Request
  <1>4. /\ count \in Counters /\ count.calls = usage[me].calls
        /\ count.metered + count.unmetered = usage[me].metered + usage[me].unmetered + 1
    BY <1>3, MeteredFacts DEF ClientInv, TypeOK
  <1>5. usage[me].calls = usage[me].metered + usage[me].unmetered + lost[me] + 1
    BY <1>2, <1>3 DEF ClientInv, UsageAddsUp, InFlight
  <1> HIDE DEF count
  <1>6. count.calls = count.metered + count.unmetered + lost'[me]
    BY <1>2, <1>3, <1>4, <1>5 DEF ClientInv, TypeOK, Counters
  <1>7. RetryOrRaise(count)
    BY <1>1 DEF count
  <1>8. /\ TypeOK' /\ UsageAddsUp'
        /\ request' # None => /\ request'.client = request.client
                              /\ request'.kind = request.kind /\ request'.prompt = request.prompt
    <2>1. lost' \in [Clients -> Nat] /\ \A c \in Clients \ {me} : lost'[c] = lost[c]
      BY <1>2 DEF ClientInv, TypeOK
    <2>2. TypeOK /\ UsageAddsUp
      BY DEF ClientInv
    <2>3. /\ usage' \in [Clients -> Counters] /\ request' \in Request \cup {None}
          /\ request' # None => /\ request'.client = request.client
                                /\ request'.kind = request.kind /\ request'.prompt = request.prompt
          /\ UsageAddsUp'
      BY <1>2, <1>4, <1>6, <1>7, <2>1, <2>2, RetryFacts
    <2> QED
      BY <1>2, <2>1, <2>2, <2>3 DEF TypeOK
  <1> QED
    BY <1>2, <1>8, CacheUntouched, StillMissingKept DEF ClientInv

(* An attempt that raised before its reply is lost, and retried or raised. *)
LEMMA UnreachableKeeps == ClientInv /\ Unreachable => ClientInv'
  <1> SUFFICES ASSUME ClientInv, Unreachable PROVE ClientInv'
    OBVIOUS
  <1> DEFINE me == request.client
  <1>1. /\ request # None /\ RetryOrRaise(usage[me]) /\ UNCHANGED <<cache, served>>
        /\ lost' = [lost EXCEPT ![me] = @ + 1]
    BY DEF Unreachable
  <1>2. request \in Request /\ me \in Clients
    BY <1>1 DEF ClientInv, TypeOK, Request
  <1>3. usage[me].calls = usage[me].metered + usage[me].unmetered + lost[me] + 1
    BY <1>1, <1>2 DEF ClientInv, UsageAddsUp, InFlight
  <1>4. /\ lost' \in [Clients -> Nat] /\ lost'[me] = lost[me] + 1
        /\ \A c \in Clients \ {me} : lost'[c] = lost[c]
    BY <1>1, <1>2 DEF ClientInv, TypeOK
  <1>5. usage[me].calls = usage[me].metered + usage[me].unmetered + lost'[me] /\ usage[me] \in Counters
    BY <1>2, <1>3, <1>4 DEF ClientInv, TypeOK, Counters
  <1>6. TypeOK /\ UsageAddsUp
    BY DEF ClientInv
  <1>7. /\ usage' \in [Clients -> Counters] /\ request' \in Request \cup {None}
        /\ request' # None => /\ request'.client = request.client
                              /\ request'.kind = request.kind /\ request'.prompt = request.prompt
        /\ UsageAddsUp'
    BY <1>1, <1>4, <1>5, <1>6, RetryFacts
  <1>8. TypeOK'
    BY <1>1, <1>4, <1>6, <1>7 DEF TypeOK
  <1> QED
    BY <1>1, <1>7, <1>8, CacheUntouched, StillMissingKept DEF ClientInv
(* An error that is not worth a retry ends the request. *)
LEMMA RefusedKeeps == ClientInv /\ Refused => ClientInv'
  <1> SUFFICES ASSUME ClientInv, Refused PROVE ClientInv'
    OBVIOUS
  <1> DEFINE me == request.client
  <1>1. /\ request # None /\ request' = None /\ lost' = [lost EXCEPT ![me] = @ + 1]
        /\ UNCHANGED <<cache, usage, served>>
    BY DEF Refused
  <1>2. me \in Clients
    BY <1>1 DEF ClientInv, TypeOK, Request
  <1>3. TypeOK'
    BY <1>1, <1>2 DEF ClientInv, TypeOK
  <1>4. UsageAddsUp'
    <2>1. \A c \in Clients : InFlight(c)' = 0 /\ InFlight(c) = IF c = me THEN 1 ELSE 0
      BY <1>1 DEF InFlight
    <2>2. \A c \in Clients : lost'[c] = lost[c] + (IF c = me THEN 1 ELSE 0) /\ lost[c] \in Nat
      BY <1>1, <1>2 DEF ClientInv, TypeOK
    <2> QED
      BY <1>1, <2>1, <2>2 DEF ClientInv, UsageAddsUp, TypeOK, Counters
  <1>5. StillMissing'
    BY <1>1 DEF StillMissing
  <1> QED
    BY <1>1, <1>3, <1>4, <1>5, CacheUntouched DEF ClientInv

(* New clients start from zero on the cache the old ones left. *)
LEMMA RestartKeeps == ClientInv /\ Restart => ClientInv'
  <1> SUFFICES ASSUME ClientInv, Restart PROVE ClientInv'
    OBVIOUS
  <1>1. /\ request' = None /\ usage' = [c \in Clients |-> Zero] /\ lost' = [c \in Clients |-> 0]
        /\ UNCHANGED <<cache, served>>
    BY DEF Restart
  <1>2. TypeOK'
    BY <1>1 DEF ClientInv, TypeOK, Zero, Counters
  <1>3. UsageAddsUp'
    BY <1>1 DEF UsageAddsUp, InFlight, Zero
  <1>4. StillMissing'
    BY <1>1 DEF StillMissing
  <1> QED
    BY <1>1, <1>2, <1>3, <1>4, CacheUntouched DEF ClientInv

-----------------------------------------------------------------------------
(* The invariant holds of every history of requests, failures and restarts. *)
THEOREM ClientInvariant == Spec => []ClientInv
  <1>1. Init => ClientInv
    <2>1. Init => TypeOK
      BY DEF Init, TypeOK, Zero, Counters
    <2>2. Init => UsageAddsUp
      BY DEF Init, UsageAddsUp, InFlight, Zero
    <2> QED
      BY <2>1, <2>2 DEF Init, ClientInv, StillMissing, GivenIsStored, StoredByOwner
  <1>2. ClientInv /\ [Next]_clientVars => ClientInv'
    <2> SUFFICES ASSUME ClientInv, [Next]_clientVars PROVE ClientInv'
      OBVIOUS
    <2>1. CASE Next
      BY <2>1, HitKeeps, MissKeeps, AnsweredKeeps, GarbledKeeps, UnreachableKeeps, RefusedKeeps,
         RestartKeeps DEF Next
    <2>2. CASE UNCHANGED clientVars
      BY <2>2 DEF clientVars, ClientInv, TypeOK, UsageAddsUp, InFlight, StillMissing, GivenIsStored,
                  StoredByOwner, Key
    <2> QED
      BY <2>1, <2>2
  <1> QED
    BY <1>1, <1>2, PTL DEF Spec

(* Every attempt is accounted for: with usage, without, lost before its answer, or in progress     *)
(* (agent/llm.py:260-267, 347-365), and no request is tried a fourth time.                         *)
THEOREM CountersAddUp == Spec => []UsageAddsUp
  <1>1. ClientInv => UsageAddsUp
    BY DEF ClientInv
  <1> QED
    BY <1>1, ClientInvariant, PTL

(* Whoever asks for a key gets the reply first given out for it, restarts included. *)
THEOREM SameReply == Spec => []SameKeySameReply
  <1>1. ClientInv => SameKeySameReply
    BY DEF ClientInv, GivenIsStored, SameKeySameReply
  <1> QED
    BY <1>1, ClientInvariant, PTL

(* No client is given a reply that a client of another namespace or model drew. *)
THEOREM DrawsAreOwn == Spec => []OwnDraws
  <1>1. ClientInv => OwnDraws
    <2> SUFFICES ASSUME ClientInv, NEW s \in served
                 PROVE  NamespaceOf[s.by] = NamespaceOf[s.to] /\ ModelOf[s.by] = ModelOf[s.to]
      BY DEF OwnDraws
    <2>1. /\ s.key \in Keys /\ cache[s.key] # None /\ s.by = cache[s.key].by
          /\ s.key[1] = ModelOf[s.to] /\ s.key[4] = NamespaceOf[s.to]
      BY ClientAssumption DEF ClientInv, GivenIsStored
    <2> QED
      BY <2>1 DEF ClientInv, StoredByOwner
  <1> QED
    BY <1>1, ClientInvariant, PTL

(* A step that gives out no new reply leaves the cache alone. *)
THEOREM OnlyReplies == Spec => OnlyRepliesAreCached
  <1>1. ClientInv /\ [Next]_clientVars => (served' = served => cache' = cache) \/ UNCHANGED clientVars
    <2> SUFFICES ASSUME ClientInv, Answered, served' = served PROVE FALSE
      BY DEF Next, Hit, Miss, Garbled, Unreachable, Refused, Restart, clientVars
    <2> DEFINE key == Key(request.client, request.kind, request.prompt)
    <2>1. PICK reply \in Replies : Serve(key, [reply |-> reply, by |-> request.client], request.client)
      BY DEF Answered
    <2> DEFINE given == [key |-> key, reply |-> reply, by |-> request.client, to |-> request.client]
    <2>2. given \in served' /\ given.key = key
      BY <2>1 DEF Serve
    <2> HIDE DEF given
    <2>3. cache[Key(request.client, request.kind, request.prompt)] = None
      BY DEF Answered, ClientInv, StillMissing
    <2> QED
      BY <2>2, <2>3, ClientAssumption DEF ClientInv, GivenIsStored
  <1> QED
    BY <1>1, ClientInvariant, PTL DEF Spec, OnlyRepliesAreCached
-----------------------------------------------------------------------------
(* A reply given out is one more of the recording's. *)
LEMMA GivenOneMore ==
  ASSUME NEW key, NEW entry, NEW client, Serve(key, entry, client)
  PROVE  Given' = Given \cup {[key |-> key, reply |-> entry.reply]}
  <1> DEFINE one == [key |-> key, reply |-> entry.reply, by |-> entry.by, to |-> client]
  <1>1. served' = served \cup {one} /\ one.key = key /\ one.reply = entry.reply
    BY DEF Serve
  <1> HIDE DEF one
  <1> QED
    BY <1>1 DEF Given

(* A hit replays what is recorded under its key (agent/llm.py:249-254). *)
LEMMA HitReplays == ClientInv /\ Hit => Recording!Replay
  <1> SUFFICES ASSUME ClientInv, Hit PROVE Recording!Replay
    OBVIOUS
  <1>1. PICK client \in Clients, kind \in Kinds, prompt \in Prompts :
          LET key == Key(client, kind, prompt)
          IN cache[key] # None /\ Serve(key, cache[key], client)
    BY DEF Hit
  <1> DEFINE key == Key(client, kind, prompt)
  <1>2. key \in Keys /\ cache[key] # None /\ Serve(key, cache[key], client)
    BY <1>1, KeyFacts
  <1> HIDE DEF key
  <1>3. Recorded[key] = cache[key].reply /\ Recorded[key] # None
    <2>1. cache[key] \in Entry
      BY <1>2 DEF ClientInv, TypeOK
    <2> QED
      BY <1>2, <2>1, ClientAssumption DEF Recorded, Entry
  <1>4. Given' = Given \cup {[key |-> key, reply |-> Recorded[key]]}
    BY <1>2, <1>3, GivenOneMore
  <1>5. Recorded' = Recorded
    BY DEF Hit, Recorded
  <1> QED
    BY <1>2, <1>3, <1>4, <1>5 DEF Recording!Replay

(* An answer draws the reply of a key that has none: _store replaces nothing (agent/llm.py:256-258). *)
LEMMA AnswerDraws == ClientInv /\ Answered => Recording!Draw
  <1> SUFFICES ASSUME ClientInv, Answered PROVE Recording!Draw
    OBVIOUS
  <1> DEFINE me == request.client
             key == Key(request.client, request.kind, request.prompt)
  <1>1. PICK reply \in Replies :
          /\ cache' = [cache EXCEPT ![key] = [reply |-> reply, by |-> me]]
          /\ Serve(key, [reply |-> reply, by |-> me], me)
    BY DEF Answered
  <1> DEFINE entry == [reply |-> reply, by |-> me]
  <1>2. request # None /\ request \in Request
    BY DEF Answered, ClientInv, TypeOK
  <1>3. key \in Keys /\ cache[key] = None
    BY <1>2, KeyFacts DEF Request, ClientInv, StillMissing
  <1>4. entry # None /\ entry.reply = reply
    BY <1>2, ClientAssumption DEF Request, Entry
  <1>5. cache' = [cache EXCEPT ![key] = entry] /\ Serve(key, entry, me)
    BY <1>1
  <1>6. cache \in [Keys -> Entry \cup {None}]
    BY DEF ClientInv, TypeOK
  <1> HIDE DEF key, entry
  <1>7. Recorded[key] = None
    BY <1>3 DEF Recorded
  <1>8. Recorded' = [Recorded EXCEPT ![key] = reply]
    <2>1. \A k \in Keys : cache'[k] = IF k = key THEN entry ELSE cache[k]
      BY <1>3, <1>5, <1>6
    <2>2. \A k \in Keys : Recorded'[k] = IF k = key THEN reply ELSE Recorded[k]
      BY <1>4, <2>1 DEF Recorded
    <2> QED
      BY <1>3, <2>2 DEF Recorded
  <1>9. Given' = Given \cup {[key |-> key, reply |-> reply]}
    BY <1>4, <1>5, GivenOneMore
  <1> QED
    BY <1>1, <1>3, <1>7, <1>8, <1>9 DEF Recording!Draw

(* The client implements the recording: every hit replays, every answer draws, and no failure,      *)
(* retry or restart shows, for every set of clients, prompts and replies.                           *)
THEOREM ImplementsRecording == Spec => KeepsRecording
  <1>1. Init => Recording!Init
    BY DEF Init, Recording!Init, Recorded, Given
  <1>2. ClientInv /\ [Next]_clientVars => [Recording!Next]_(Recording!recordingVars)
    <2> SUFFICES ASSUME ClientInv, [Next]_clientVars
                 PROVE  Recording!Next \/ (Recorded' = Recorded /\ Given' = Given)
      BY DEF Recording!recordingVars
    <2>1. CASE Hit
      BY <2>1, HitReplays DEF Recording!Next
    <2>2. CASE Answered
      BY <2>2, AnswerDraws DEF Recording!Next
    <2>3. CASE Miss \/ Garbled \/ Unreachable \/ Refused \/ Restart \/ UNCHANGED clientVars
      <3>1. UNCHANGED <<cache, served>>
        BY <2>3 DEF Miss, Garbled, Unreachable, Refused, Restart, clientVars
      <3> QED
        BY <3>1 DEF Recorded, Given
    <2> QED
      BY <2>1, <2>2, <2>3 DEF Next
  <1> QED
    BY <1>1, <1>2, ClientInvariant, PTL DEF Spec, KeepsRecording, Recording!Spec
=============================================================================
