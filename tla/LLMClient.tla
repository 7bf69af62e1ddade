----------------------------- MODULE LLMClient -----------------------------
(***************************************************************************)
(* The LLM clients of a process (agent/llm.py, OllamaLLM): one at a time   *)
(* they answer requests from a record/replay cache that outlives the       *)
(* process, or from the model, with bounded retries and with counters that *)
(* a row's cost is read from.                                              *)
(***************************************************************************)
EXTENDS Integers, FiniteSets

CONSTANTS
  None,
  Clients,
  ModelOf, NamespaceOf,   \* what a client was made with
  Hosted,                 \* the clients of hosted models, which retry
  Prompts,                \* a system and a user prompt with their seed
  Replies,                \* what the model may answer
  MaxRequests             \* bound: requests made in all

Kinds == {"structured", "text"}

Request == [client: Clients, kind: Kinds, prompt: Prompts, attempt: 0 .. 2]

Entry == [reply: Replies, by: Clients]

Counters == [calls: Nat, hits: Nat, metered: Nat, unmetered: Nat, retries: Nat]

ASSUME ClientAssumption ==
  /\ Hosted \subseteq Clients
  /\ None \notin Request /\ None \notin Entry /\ None \notin Replies
  /\ MaxRequests \in Nat

VARIABLES
  cache,     \* the reply stored under each key, and the client that drew it
  request,   \* the request in progress and which attempt at it is being made, or None
  usage,     \* each client's counters in this process
  lost,      \* attempts of each client that raised before a reply came
  asked,     \* requests made so far
  served     \* the replies given out so far

clientVars == <<cache, request, usage, lost, asked, served>>

Zero == [calls |-> 0, hits |-> 0, metered |-> 0, unmetered |-> 0, retries |-> 0]

-----------------------------------------------------------------------------
(* Mutant: the namespace is left out of the key. *)
KeyOfPrompt(client, kind, prompt) == <<ModelOf[client], kind, prompt>>

(* _key: what a reply depends on; the options and the schema go with the model and the prompt. *)
Key(client, kind, prompt) == <<ModelOf[client], kind, prompt, NamespaceOf[client]>>

Keys == {Key(c, kind, p) : c \in Clients, kind \in Kinds, p \in Prompts}

Init ==
  /\ cache = [k \in Keys |-> None]
  /\ request = None
  /\ usage = [c \in Clients |-> Zero]
  /\ lost = [c \in Clients |-> 0]
  /\ asked = 0
  /\ served = {}

Serve(key, entry, client) == served' = served \cup {[key |-> key, reply |-> entry.reply, by |-> entry.by, to |-> client]}

(* A cached reply is returned and counted as a hit; it costs nothing. *)
Hit ==
  /\ request = None /\ asked < MaxRequests
  /\ \E client \in Clients, kind \in Kinds, prompt \in Prompts :
       LET key == Key(client, kind, prompt)
       IN /\ cache[key] # None
          /\ usage' = [usage EXCEPT ![client].hits = @ + 1]
          /\ Serve(key, cache[key], client)
  /\ asked' = asked + 1
  /\ UNCHANGED <<cache, request, lost>>

(* Mutant: a call is made without a look into the cache. *)
MissUnasked ==
  /\ request = None /\ asked < MaxRequests
  /\ \E client \in Clients, kind \in Kinds, prompt \in Prompts :
       /\ request' = [client |-> client, kind |-> kind, prompt |-> prompt, attempt |-> 0]
       /\ usage' = [usage EXCEPT ![client].calls = @ + 1]
  /\ asked' = asked + 1
  /\ UNCHANGED <<cache, lost, served>>

(* A key that is not cached: the first attempt at the model is a call. *)
Miss ==
  /\ request = None /\ asked < MaxRequests
  /\ \E client \in Clients, kind \in Kinds, prompt \in Prompts :
       /\ cache[Key(client, kind, prompt)] = None
       /\ request' = [client |-> client, kind |-> kind, prompt |-> prompt, attempt |-> 0]
       /\ usage' = [usage EXCEPT ![client].calls = @ + 1]
  /\ asked' = asked + 1
  /\ UNCHANGED <<cache, lost, served>>

(* _meter: a reply carries its token usage, or is counted as unmetered.  The local structured path *)
(* hands _meter no message at all.                                                                 *)
Metered(count, told) ==
  IF told /\ ~(request.client \notin Hosted /\ request.kind = "structured")
  THEN [count EXCEPT !.metered = @ + 1] ELSE [count EXCEPT !.unmetered = @ + 1]

(* Mutant: a reply that took a retry is returned without being stored. *)
AnsweredAtFirst ==
  /\ request # None
  /\ \E reply \in Replies, told \in BOOLEAN :
       LET key   == Key(request.client, request.kind, request.prompt)
           entry == [reply |-> reply, by |-> request.client]
       IN /\ usage' = [usage EXCEPT ![request.client] = Metered(@, told)]
          /\ cache' = IF request.attempt = 0 THEN [cache EXCEPT ![key] = entry] ELSE cache
          /\ Serve(key, entry, request.client)
  /\ request' = None
  /\ UNCHANGED <<lost, asked>>

(* A reply came that the schema accepts: it is metered, stored and returned. *)
Answered ==
  /\ request # None
  /\ \E reply \in Replies, told \in BOOLEAN :
       LET key   == Key(request.client, request.kind, request.prompt)
           entry == [reply |-> reply, by |-> request.client]
       IN /\ usage' = [usage EXCEPT ![request.client] = Metered(@, told)]
          /\ cache' = [cache EXCEPT ![key] = entry]
          /\ Serve(key, entry, request.client)
  /\ request' = None
  /\ UNCHANGED <<lost, asked>>

LastAttempt == request.client \notin Hosted \/ request.attempt = 2

(* Mutant: a retried attempt is not counted as a call. *)
RetryUncounted(count) ==
  IF LastAttempt THEN request' = None /\ usage' = [usage EXCEPT ![request.client] = count]
  ELSE /\ request' = [request EXCEPT !.attempt = @ + 1]
       /\ usage' = [usage EXCEPT ![request.client] = [count EXCEPT !.retries = @ + 1]]

(* A failed attempt is followed by another one, or by the exception of the last; count is what the *)
(* failed one left in the counters.                                                                *)
RetryOrRaise(count) ==
  IF LastAttempt THEN request' = None /\ usage' = [usage EXCEPT ![request.client] = count]
  ELSE /\ request' = [request EXCEPT !.attempt = @ + 1]
       /\ usage' = [usage EXCEPT ![request.client] = [count EXCEPT !.retries = @ + 1, !.calls = @ + 1]]

(* Mutant: a reply that could not be parsed is stored. *)
GarbledStored ==
  /\ request # None /\ request.kind = "structured"
  /\ \E told \in BOOLEAN : RetryOrRaise(Metered(usage[request.client], told))
  /\ cache' = [cache EXCEPT ![Key(request.client, request.kind, request.prompt)] =
                              [reply |-> CHOOSE r \in Replies : TRUE, by |-> request.client]]
  /\ UNCHANGED <<lost, asked, served>>

(* The reply of a structured call has no object that fits the schema: it is metered, and retried. *)
Garbled ==
  /\ request # None /\ request.kind = "structured"
  /\ \E told \in BOOLEAN : RetryOrRaise(Metered(usage[request.client], told))
  /\ UNCHANGED <<cache, lost, asked, served>>

(* The server or the connection fails before there is a reply to meter. *)
Unreachable ==
  /\ request # None
  /\ RetryOrRaise(usage[request.client])
  /\ lost' = [lost EXCEPT ![request.client] = @ + 1]
  /\ UNCHANGED <<cache, asked, served>>

(* Any other error, a 4xx among them, is not worth a retry. *)
Refused ==
  /\ request # None
  /\ request' = None
  /\ lost' = [lost EXCEPT ![request.client] = @ + 1]
  /\ UNCHANGED <<cache, usage, asked, served>>

(* The process is killed and started again: new clients on the same cache. *)
Restart ==
  /\ asked < MaxRequests
  /\ request' = None
  /\ usage' = [c \in Clients |-> Zero]
  /\ lost' = [c \in Clients |-> 0]
  /\ UNCHANGED <<cache, asked, served>>

Next ==
  \/ Hit \/ Miss \/ Answered \/ Garbled \/ Unreachable \/ Refused
  \/ Restart

Spec == Init /\ [][Next]_clientVars

-----------------------------------------------------------------------------
InFlight(c) == IF request # None /\ request.client = c THEN 1 ELSE 0

(* The counters account for every attempt (agent/llm.py:48-50): each call was answered with usage, *)
(* answered without, lost before its answer, or is being made; and no request is tried a fourth    *)
(* time.  So a row that `metered` accepts (evals/report_part2.py:61) is complete in its tokens     *)
(* exactly when it lost no attempt.                                                                *)
UsageAddsUp ==
  /\ \A c \in Clients :
       usage[c].calls = usage[c].metered + usage[c].unmetered + lost[c] + InFlight(c)
  /\ request # None => request.attempt <= 2

(* metered: the costs of a row, here of all a client did in this process, enter the report's sums. *)
MeteredRow(count) == count.hits = 0 /\ count.unmetered = 0

(* "A row counts only when every LLM call in it went to the model and reported token usage           *)
(* (metered).  Other rows are counted as excluded, never summed as zero" (report_part2.py:4-6).      *)
MeteredRowsReported ==
  request = None => \A c \in Clients : MeteredRow(usage[c]) => usage[c].metered = usage[c].calls

(* What pairs the variants is the cache (agent/llm.py:38-41): whoever asks for the same key gets   *)
(* the reply that was first given out for it, also in a later process and after failed attempts.   *)
SameKeySameReply ==
  \A a, b \in served : a.key = b.key => a.reply = b.reply

(* Arms in different namespaces draw independently (agent/llm.py:43-46): no client is given a reply *)
(* that a client of another namespace or model drew.                                                *)
OwnDraws ==
  \A s \in served : NamespaceOf[s.by] = NamespaceOf[s.to] /\ ModelOf[s.by] = ModelOf[s.to]

(* Only a successful call is cached (agent/llm.py:28): a step that gives out no new reply leaves    *)
(* the cache alone.                                                                                 *)
OnlyRepliesAreCached ==
  [][served' = served => cache' = cache]_clientVars
-----------------------------------------------------------------------------
(* The cache as a recording: the reply stored under each key, whoever drew it. *)
Recorded == [k \in Keys |-> IF cache[k] = None THEN None ELSE cache[k].reply]

Given == {[key |-> s.key, reply |-> s.reply] : s \in served}

Recording == INSTANCE ReplyRecording WITH recorded <- Recorded, given <- Given

(* The client implements the recording that the paired runs are replayed from: although a reply is  *)
(* stored with INSERT OR REPLACE (agent/llm.py:257), none is ever replaced, and one is given out     *)
(* only as it is stored, through failures, retries and restarts.                                    *)
KeepsRecording == Recording!Spec
-----------------------------------------------------------------------------
(* The inductive invariant.  The types of the counters and of what is stored. *)
TypeOK ==
  /\ cache \in [Keys -> Entry \cup {None}]
  /\ request \in Request \cup {None}
  /\ usage \in [Clients -> Counters]
  /\ lost \in [Clients -> Nat]

(* Nothing stores a reply under the key of a request between its lookup and its own reply. *)
StillMissing ==
  request # None => cache[Key(request.client, request.kind, request.prompt)] = None

(* What was given out is what is stored, and it is stored by a client the key belongs to. *)
GivenIsStored ==
  \A s \in served :
    /\ s.key \in Keys /\ cache[s.key] \in Entry
    /\ s.reply = cache[s.key].reply /\ s.by = cache[s.key].by
    /\ s.key[1] = ModelOf[s.to] /\ s.key[4] = NamespaceOf[s.to]

StoredByOwner ==
  \A k \in Keys : cache[k] # None =>
    k[1] = ModelOf[cache[k].by] /\ k[4] = NamespaceOf[cache[k].by]

ClientInv == TypeOK /\ UsageAddsUp /\ StillMissing /\ GivenIsStored /\ StoredByOwner
=============================================================================
