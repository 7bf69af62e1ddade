--------------------------- MODULE ReplyRecording ---------------------------
(***************************************************************************)
(* What the client's cache promises to whoever pairs runs by it            *)
(* (agent/llm.py:36-41): the first reply given out for a key is recorded   *)
(* there, and from then on it is the reply of that key for ever.  Failed   *)
(* calls, retries and restarts do not show.                                *)
(***************************************************************************)
EXTENDS Integers

CONSTANTS None, Keys, Replies

VARIABLES
  recorded,   \* the reply of each key, or None
  given       \* the replies given out so far, each with its key

recordingVars == <<recorded, given>>

Init ==
  /\ recorded = [key \in Keys |-> None]
  /\ given = {}

Draw ==
  \E key \in Keys, reply \in Replies :
    /\ recorded[key] = None
    /\ recorded' = [recorded EXCEPT ![key] = reply]
    /\ given' = given \cup {[key |-> key, reply |-> reply]}

Replay ==
  \E key \in Keys :
    /\ recorded[key] # None
    /\ given' = given \cup {[key |-> key, reply |-> recorded[key]]}
    /\ UNCHANGED recorded

Next == Draw \/ Replay

Spec == Init /\ [][Next]_recordingVars
=============================================================================
