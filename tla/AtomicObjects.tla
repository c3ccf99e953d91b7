---------------------------- MODULE AtomicObjects ---------------------------
(***************************************************************************)
(* What StorageManager's flat PutObject, GetObject and DeleteObject        *)
(* promise to concurrent callers: each key holds one value, and a put or a *)
(* delete replaces it at one instant between its call and its return.      *)
(* Every failure and every crash is counted in mishaps: a failing call     *)
(* leaves its key as it was, updated, unreadable or, once it has taken     *)
(* effect, with its data under the metadata of an earlier put; a crash     *)
(* drops all calls and leaves at most one of their keys with any remains.  *)
(***************************************************************************)
EXTENDS Naturals

CONSTANTS
    Clients, Keys,
    Entries,        \* what a put writes: data with its own etag
    Remains,        \* what a get may find after a crash, or after a failed write
    None, Lost      \* no object, an object that cannot be read

VARIABLES value, calls, mishaps     \* calls: those in flight, before or after their effect

avars == <<value, calls, mishaps>>

Init == value = [k \in Keys |-> None] /\ calls = {} /\ mishaps = 0

Idle(t) == \A c \in calls : c.client # t

\* A put is called: the client's only call, which has no effect yet.
Call(t) ==
    /\ Idle(t)
    /\ UNCHANGED <<mishaps, value>>
    /\ \E c \in calls' \ calls :
          /\ c \in [client : {t}, key : Keys, new : Entries, done : {FALSE}]
          /\ calls' = calls \cup {c}

Effect(c) ==
    /\ ~c.done
    /\ value' = [value EXCEPT ![c.key] = c.new]
    /\ calls' = (calls \ {c}) \cup {[c EXCEPT !.done = TRUE]}
    /\ UNCHANGED mishaps

\* A delete is called and takes effect.
Delete(t, k) ==
    /\ Idle(t)
    /\ value' = [value EXCEPT ![k] = None]
    /\ calls' = calls \cup {[client |-> t, key |-> k, new |-> None, done |-> TRUE]}
    /\ UNCHANGED mishaps

Return(c) ==
    /\ c.done
    /\ calls' = calls \ {c}
    /\ UNCHANGED <<value, mishaps>>

\* The data of a put that has taken effect, under any metadata.
Unpaired(c) ==
    {x \in Remains \ {None, Lost} : c.done /\ c.new # None /\ x.data = c.new.data}

\* A step of the call fails, with or without a word to the caller.
Mishap(c) ==
    /\ mishaps' = mishaps + 1
    /\ \E rest \in {{}, {[c EXCEPT !.done = TRUE]}} : calls' = (calls \ {c}) \cup rest
    /\ \E x \in {value[c.key], Lost} \cup Unpaired(c) : value' = [value EXCEPT ![c.key] = x]

\* A failure that concerns no call, of a part that is sent.
MishapElsewhere == mishaps' = mishaps + 1 /\ UNCHANGED <<value, calls>>

Crash ==
    /\ mishaps' = mishaps + 1
    /\ calls' = {}
    /\ \/ UNCHANGED value
       \/ \E c \in calls, x \in Remains : value' = [value EXCEPT ![c.key] = x]

Next ==
    \/ \E t \in Clients : Call(t) \/ \E k \in Keys : Delete(t, k)
    \/ \E c \in calls : Effect(c) \/ Return(c) \/ Mishap(c)
    \/ MishapElsewhere \/ Crash

Spec == Init /\ [][Next]_avars
=============================================================================
