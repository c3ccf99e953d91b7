---------------------------- MODULE LoadBalancer ----------------------------
(***************************************************************************)
(* The reverse proxy (lb_core.cpp, lb_proxy.cpp): sessions run as chains   *)
(* of asynchronous operations on the threads of one io_context, pick a     *)
(* backend with GetNextHealthyBackend, and relay one request and its       *)
(* response.  The health-check thread stores each entry's health without   *)
(* a lock.  main adds every configured backend to a list the constructor   *)
(* has already filled, so a backend is two entries with a health each.     *)
(*                                                                         *)
(* Every access to rr_index_ and to a healthy flag is one step.  A         *)
(* session occupies a thread while its handler runs (from reading the      *)
(* request to connecting, and in SendError), none while it waits.          *)
(***************************************************************************)
EXTENDS Integers, FiniteSets

CONSTANTS
    Sessions,       \* connections open at a time
    N,              \* entries of backends_
    Width,          \* bits of rr_index_ (64)
    Threads,        \* threads that run the io_context
    Steady          \* entries whose health check never fails

ASSUME SizeAssumption == N \in Nat \ {0} /\ Width \in Nat /\ Threads \in Nat \ {0}
\* A consequence of the width, which the provers do not draw.
ASSUME PowerAssumption == 2^Width \in Nat \ {0}

Entries == 0..(N - 1)

ASSUME SteadyAssumption == Steady \subseteq Entries

VARIABLES
    healthy,        \* healthy of each entry
    rr_index,       \* rr_index_
    next_check,     \* the entry the health-check loop is at
    pc, i, idx,     \* each session: position, locals of GetNextHealthyBackend
    reason,         \* each session: why SendError was called
    lead,           \* probes of each entry more than of the least probed one
    uneven,         \* has rr_index_ wrapped at a number that is no multiple of N?
    crossed,        \* sessions whose probes another session's probe, or such a
                    \* wrap, came between
    flipped         \* sessions whose choice failed a check before they used it

session == <<pc, i, idx, reason>>
ghosts  == <<lead, uneven, crossed, flipped>>
vars    == <<healthy, rr_index, next_check, session, ghosts>>

Running == {"fetch", "test", "selected", "resolve", "error"}
Waiting == {"closed", "handshake", "read", "connect", "write", "response", "relay"}

\* The type of every variable.
TypeOK ==
    /\ healthy \in [Entries -> BOOLEAN]
    /\ rr_index \in 0..(2^Width - 1) /\ next_check \in Entries
    /\ pc \in [Sessions -> Running \cup Waiting]
    /\ i \in [Sessions -> Entries] /\ idx \in [Sessions -> Entries]
    /\ reason \in [Sessions -> {"none", "null", "unhealthy", "connect"}]
    /\ lead \in [Entries -> Nat]
    /\ uneven \in BOOLEAN
    /\ crossed \subseteq Sessions /\ flipped \subseteq Sessions

Init ==
    /\ healthy = [b \in Entries |-> TRUE]
    /\ rr_index = 0 /\ next_check = 0
    /\ pc = [s \in Sessions |-> "closed"]
    /\ i = [s \in Sessions |-> 0] /\ idx = [s \in Sessions |-> 0]
    /\ reason = [s \in Sessions |-> "none"]
    /\ lead = [b \in Entries |-> 0] /\ uneven = FALSE
    /\ crossed = {} /\ flipped = {}

\* A thread is free for the next handler.
ThreadFree == Cardinality({s \in Sessions : pc[s] \in Running}) < Threads

Goto(s, p) == pc' = [pc EXCEPT ![s] = p]

\* The step moves the session and changes nothing else.
Moves(s, p) ==
    /\ Goto(s, p)
    /\ UNCHANGED <<healthy, rr_index, next_check, i, idx, reason, ghosts>>

\* The last reference to the session goes.
Close(s) ==
    /\ Goto(s, "closed")
    /\ i' = [i EXCEPT ![s] = 0] /\ idx' = [idx EXCEPT ![s] = 0]
    /\ crossed' = crossed \ {s} /\ flipped' = flipped \ {s}
    /\ reason' = [reason EXCEPT ![s] = "none"]
    /\ UNCHANGED <<healthy, rr_index, next_check, lead, uneven>>

Fails(s, why) ==
    /\ Goto(s, "error")
    /\ reason' = [reason EXCEPT ![s] = why]
    /\ UNCHANGED <<healthy, rr_index, next_check, i, idx, ghosts>>

-----------------------------------------------------------------------------
(* The session up to the choice of a backend.                              *)

DoAccept(s) == pc[s] = "closed" /\ Moves(s, "handshake")

DoHandshake(s) ==
    /\ pc[s] = "handshake"
    /\ Moves(s, "read") \/ Close(s)

\* Reads until the header is complete, then HandleRequest calls
\* GetNextHealthyBackend; an error ends the session.
DoReadRequest(s) ==
    /\ pc[s] = "read"
    /\ \/ /\ ThreadFree
          /\ Goto(s, "fetch")
          /\ i' = [i EXCEPT ![s] = 0]
          /\ UNCHANGED <<healthy, rr_index, next_check, idx, reason, ghosts>>
       \/ Close(s)

\* One more probe of b, counted from the least probed entry.
Probed(b) ==
    LET more == [lead EXCEPT ![b] = @ + 1] IN
    IF \A c \in Entries : more[c] > 0 THEN [c \in Entries |-> more[c] - 1] ELSE more

\* Sessions other than s between their first and their last probe.
BetweenProbes(s) ==
    {t \in Sessions \ {s} :
        (pc[t] = "fetch" /\ i[t] > 0) \/ (pc[t] = "test" /\ i[t] + 1 < N)}

\* The counter wraps to 0, whose turn it is not.
WrapsUnevenly == rr_index + 1 = 2^Width /\ 2^Width % N # 0

\* (mutation) the index is not reduced to the size
FetchUnbounded(s) ==
    /\ pc[s] = "fetch"
    /\ idx' = [idx EXCEPT ![s] = rr_index]
    /\ rr_index' = (rr_index + 1) % 2^Width
    /\ Goto(s, "test")
    /\ UNCHANGED <<healthy, next_check, i, reason, ghosts>>

\* (mutation) the loop counter is added to an index that moves on itself
FetchSkipping(s) ==
    /\ pc[s] = "fetch"
    /\ idx' = [idx EXCEPT ![s] = (rr_index + i[s]) % N]
    /\ rr_index' = (rr_index + 1) % 2^Width
    /\ lead' = Probed((rr_index + i[s]) % N)
    /\ uneven' = (uneven \/ WrapsUnevenly)
    /\ crossed' = crossed \cup BetweenProbes(s) \cup {t \in {s} : WrapsUnevenly}
    /\ Goto(s, "test")
    /\ UNCHANGED <<healthy, next_check, i, reason, flipped>>

\* idx = rr_index_.fetch_add(1) % size
FetchAdd(s) ==
    /\ pc[s] = "fetch"
    /\ idx' = [idx EXCEPT ![s] = rr_index % N]
    /\ rr_index' = (rr_index + 1) % 2^Width
    /\ lead' = Probed(rr_index % N)
    /\ uneven' = (uneven \/ WrapsUnevenly)
    /\ crossed' = crossed \cup BetweenProbes(s) \cup {t \in {s} : WrapsUnevenly}
    /\ Goto(s, "test")
    /\ UNCHANGED <<healthy, next_check, i, reason, flipped>>

\* (mutation) the loop ends one entry early
TestAllButOne(s) ==
    /\ pc[s] = "test"
    /\ \/ healthy[idx[s]] /\ Moves(s, "selected")
       \/ /\ ~healthy[idx[s]] /\ i[s] + 2 < N
          /\ i' = [i EXCEPT ![s] = @ + 1]
          /\ Goto(s, "fetch")
          /\ UNCHANGED <<healthy, rr_index, next_check, idx, reason, ghosts>>
       \/ ~healthy[idx[s]] /\ i[s] + 2 >= N /\ Fails(s, "null")

\* Return the entry if it is healthy; go on, or return nullptr after N probes.
TestHealthy(s) ==
    /\ pc[s] = "test"
    /\ \/ healthy[idx[s]] /\ Moves(s, "selected")
       \/ /\ ~healthy[idx[s]] /\ i[s] + 1 < N
          /\ i' = [i EXCEPT ![s] = @ + 1]
          /\ Goto(s, "fetch")
          /\ UNCHANGED <<healthy, rr_index, next_check, idx, reason, ghosts>>
       \/ ~healthy[idx[s]] /\ i[s] + 1 = N /\ Fails(s, "null")

\* HandleRequest reads the flag of the chosen entry once more.
HandleRequest(s) ==
    /\ pc[s] = "selected"
    /\ \/ healthy[idx[s]] /\ Moves(s, "resolve")
       \/ ~healthy[idx[s]] /\ Fails(s, "unhealthy")

-----------------------------------------------------------------------------
(* The session from there on.                                              *)

\* Resolve on this thread, then connect; a failed resolution is a Terminate.  An
\* address without a colon ends the session without an answer.
DoConnectToBackend(s) ==
    /\ pc[s] = "resolve"
    /\ Moves(s, "connect") \/ Close(s)

\* Connected, the request goes out with its X-Forwarded-For header inserted.
OnConnect(s) ==
    /\ pc[s] = "connect"
    /\ Moves(s, "write") \/ (ThreadFree /\ Fails(s, "connect"))

\* An error on the way ends the session without an answer.
DoWriteToBackend(s) ==
    /\ pc[s] = "write"
    /\ Moves(s, "response") \/ Close(s)

DoReadFromBackend(s) ==
    /\ pc[s] = "response"
    /\ Moves(s, "relay") \/ Close(s)

DoWriteToClient(s) ==
    /\ pc[s] = "relay"
    /\ Moves(s, "response") \/ Close(s)

\* A blocking write, then the shutdown.
SendError(s) == pc[s] = "error" /\ Close(s)

\* resolve, remote_endpoint and the write of SendError throw; nothing on an
\* io_context thread catches that.  The process ends and is started again.
Terminate(s) ==
    /\ pc[s] \in {"resolve", "connect", "error"}
    /\ healthy' = [b \in Entries |-> TRUE]
    /\ rr_index' = 0 /\ next_check' = 0
    /\ pc' = [t \in Sessions |-> "closed"]
    /\ i' = [t \in Sessions |-> 0] /\ idx' = [t \in Sessions |-> 0]
    /\ reason' = [t \in Sessions |-> "none"]
    /\ lead' = [b \in Entries |-> 0] /\ uneven' = FALSE
    /\ crossed' = {} /\ flipped' = {}

-----------------------------------------------------------------------------
\* HealthCheckLoop: one entry after the other, the verdict is the network's.
HealthCheck ==
    /\ \E ok \in BOOLEAN :
          /\ next_check \in Steady => ok
          /\ healthy' = [healthy EXCEPT ![next_check] = ok]
          /\ flipped' = flipped \cup
                {s \in Sessions : ~ok /\ pc[s] = "selected" /\ idx[s] = next_check}
    /\ next_check' = (next_check + 1) % N
    /\ UNCHANGED <<rr_index, session, lead, uneven, crossed>>

SessionStep(s) ==
    \/ DoAccept(s) \/ DoHandshake(s) \/ DoReadRequest(s)
    \/ FetchAdd(s) \/ TestHealthy(s) \/ HandleRequest(s)
    \/ DoConnectToBackend(s) \/ OnConnect(s) \/ DoWriteToBackend(s)
    \/ DoReadFromBackend(s) \/ DoWriteToClient(s) \/ SendError(s) \/ Terminate(s)

Next == HealthCheck \/ \E s \in Sessions : SessionStep(s)

Spec == Init /\ [][Next]_vars

-----------------------------------------------------------------------------
(* A request is refused although an entry's health check never fails only  *)
(* if other sessions took turns between this one's probes, or the counter  *)
(* wrapped there to another turn, or the chosen entry failed a check       *)
(* between the two tests of its flag: otherwise a healthy entry is found   *)
(* and used, while the flags of the others come and go.                    *)
RefusedOnlyIfDisturbed ==
    \A s \in Sessions :
        /\ reason[s] = "null" => Steady = {} \/ s \in crossed
        /\ reason[s] = "unhealthy" => s \in flipped

(* Round robin: whatever sessions probe at the same time, no entry is      *)
(* probed more than once more often than another, also when the counter    *)
(* wraps, unless it wraps at a number that is no multiple of the size.     *)
RoundRobin == ~uneven => \A b \in Entries : lead[b] <= 1

-----------------------------------------------------------------------------
(* The inductive invariant behind RoundRobin and RefusedOnlyIfDisturbed.   *)

\* The entry whose turn is next.
Turn == rr_index % N

\* In this round the entries before the next one have been probed once.
LeadIsPrefix ==
    ~uneven => \A b \in Entries : lead[b] = (IF b < Turn THEN 1 ELSE 0)

\* The entry after b, and the one j before it, around the end.
Succ(b) == IF b + 1 = N THEN 0 ELSE b + 1
Back(b, j) == IF j <= b THEN b - j ELSE (b - j) + N

\* A session that is alone probes entries in a row: none of those it found
\* unhealthy is steady, and the next turn is that of the next entry.
ProbesInARow ==
    \A s \in Sessions \ crossed :
        /\ pc[s] = "test" =>
              /\ \A j \in 1..i[s] : Back(idx[s], j) \notin Steady
              /\ i[s] + 1 < N => Turn = Succ(idx[s])
        /\ pc[s] = "fetch" /\ i[s] > 0 =>
              /\ \A j \in 0..(i[s] - 1) : Back(idx[s], j) \notin Steady
              /\ Turn = Succ(idx[s])

SteadyIsHealthy == \A b \in Steady : healthy[b]

\* The chosen entry was healthy, and still is unless the session is flipped.
ChosenIsHealthy ==
    \A s \in Sessions : pc[s] = "selected" => healthy[idx[s]] \/ s \in flipped

Inv ==
    /\ TypeOK /\ LeadIsPrefix /\ ProbesInARow /\ SteadyIsHealthy
    /\ ChosenIsHealthy /\ RefusedOnlyIfDisturbed
=============================================================================
