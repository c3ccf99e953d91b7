------------------------- MODULE LoadBalancerProofs -------------------------
(* Proofs about the load balancer for any number of sessions, threads and   *)
(* entries, any width of rr_index_ and any set of steady backends.          *)
EXTENDS LoadBalancer, TLAPS

-----------------------------------------------------------------------------
(* Remainders.                                                              *)

\* Quotient and remainder.
LEMMA Division ==
    ASSUME NEW n \in Nat \ {0}, NEW r \in Nat
    PROVE  /\ r \div n \in Nat /\ r % n \in 0..(n - 1)
           /\ r = (n * (r \div n)) + (r % n)
  OBVIOUS

\* Two remainders that differ by a multiple of n are equal.
LEMMA MultipleIsZero ==
    ASSUME NEW n \in Nat \ {0}, NEW a \in Int, NEW x \in 0..(n - 1), NEW y \in 0..(n - 1),
           n * a = x - y
    PROVE  a = 0
<1>1. CASE a >= 1
  <2>1. n * a >= n
    BY <1>1
  <2> QED
    BY <2>1
<1>2. CASE a <= -1
  <2>1. n * a <= -n
    BY <1>2
  <2> QED
    BY <2>1
<1> QED
  BY <1>1, <1>2

\* The remainder is determined by its range.
LEMMA RemainderUnique ==
    ASSUME NEW n \in Nat \ {0}, NEW q \in Nat, NEW x \in 0..(n - 1)
    PROVE  ((n * q) + x) % n = x
<1> DEFINE r == (n * q) + x
           a == n * q
           b == n * (r \div n)
<1>1. r \in Nat
  OBVIOUS
<1> HIDE DEF r
<1>2. r \div n \in Nat /\ r % n \in 0..(n - 1) /\ r = b + (r % n)
  BY <1>1, Division
<1>3. n * (q - (r \div n)) = a - b
  BY <1>2
<1>4. r = a + x /\ a \in Int /\ b \in Int
  BY <1>2 DEF r
<1> HIDE DEF a, b
<1>5. a - b = (r % n) - x
  BY <1>2, <1>4
<1>6. q - (r \div n) = 0
  BY <1>2, <1>3, <1>5, MultipleIsZero
<1>7. a - b = 0
  BY <1>2, <1>3, <1>6
<1>8. r % n = x
  BY <1>2, <1>4, <1>5, <1>7
<1> QED
  BY <1>8 DEF r

\* Counting up moves the remainder to the next one, around the end.
LEMMA RemainderSucc ==
    ASSUME NEW n \in Nat \ {0}, NEW r \in Nat
    PROVE  (r + 1) % n = (IF (r % n) + 1 = n THEN 0 ELSE (r % n) + 1)
<1>1. r \div n \in Nat /\ r % n \in 0..(n - 1) /\ r = (n * (r \div n)) + (r % n)
  BY Division
<1>2. CASE (r % n) + 1 = n
  <2>1. r + 1 = (n * ((r \div n) + 1)) + 0
    BY <1>1, <1>2
  <2>2. ((n * ((r \div n) + 1)) + 0) % n = 0
    BY <1>1, RemainderUnique
  <2> QED
    BY <1>2, <2>1, <2>2
<1>3. CASE (r % n) + 1 # n
  <2>1. r + 1 = (n * (r \div n)) + ((r % n) + 1)
    BY <1>1
  <2>2. r \div n \in Nat /\ (r % n) + 1 \in 0..(n - 1)
    BY <1>1, <1>3
  <2>3. ((n * (r \div n)) + ((r % n) + 1)) % n = (r % n) + 1
    BY <2>2, RemainderUnique
  <2> QED
    BY <1>3, <2>1, <2>3
<1> QED
  BY <1>2, <1>3

\* A number below n is its own remainder.
LEMMA RemainderSmall ==
    ASSUME NEW n \in Nat \ {0}, NEW r \in 0..(n - 1)
    PROVE  r % n = r
  OBVIOUS

\* fetch_add keeps rr_index_ in its width.
LEMMA IndexInRange ==
    ASSUME rr_index \in 0..(2^Width - 1)
    PROVE  (rr_index + 1) % 2^Width \in 0..(2^Width - 1)
<1> DEFINE m == 2^Width
<1>1. m \in Nat \ {0} /\ rr_index \in 0..(m - 1)
  BY PowerAssumption
<1> HIDE DEF m
<1>2. (rr_index + 1) % m \in 0..(m - 1)
  BY <1>1, Division
<1> QED
  BY <1>2 DEF m

\* The entry whose turn it is.
LEMMA TurnType ==
    ASSUME TypeOK
    PROVE  Turn \in Entries
<1>1. rr_index \in Nat
  BY PowerAssumption DEF TypeOK
<1> QED
  BY <1>1, SizeAssumption, Division DEF Turn, Entries

\* After a fetch_add it is the turn of the next entry, also when the counter wraps at
\* a multiple of N.
LEMMA TurnAdvances ==
    ASSUME TypeOK, ~WrapsUnevenly, rr_index' = (rr_index + 1) % 2^Width
    PROVE  Turn' = Succ(Turn)
<1> DEFINE m == 2^Width
<1>1. /\ m \in Nat \ {0} /\ rr_index \in 0..(m - 1)
      /\ rr_index + 1 # m \/ m % N = 0
      /\ rr_index' = (rr_index + 1) % m
  BY PowerAssumption DEF TypeOK, WrapsUnevenly
<1> HIDE DEF m
<1>2. rr_index \in Nat
  BY <1>1
<1>5. (rr_index + 1) % N = Succ(Turn)
  BY <1>2, SizeAssumption, RemainderSucc DEF Succ, Turn
<1>3. CASE rr_index + 1 < m
  <2>1. rr_index' = rr_index + 1
    BY <1>1, <1>3, RemainderSmall
  <2> QED
    BY <1>5, <2>1 DEF Turn
<1>4. CASE rr_index + 1 = m
  <2>1. rr_index' = 0
    BY <1>1, <1>4
  <2>2. 0 % N = 0
    BY SizeAssumption, RemainderSmall
  <2> QED
    BY <1>1, <1>4, <1>5, <2>1, <2>2 DEF Turn
<1> QED
  BY <1>1, <1>3, <1>4

-----------------------------------------------------------------------------
(* Type correctness.                                                        *)

\* A probe adds one to the lead of an entry, or takes one from all the others.
LEMMA ProbedType ==
    ASSUME TypeOK, NEW b \in Entries
    PROVE  Probed(b) \in [Entries -> Nat]
<1> DEFINE more == [lead EXCEPT ![b] = @ + 1]
<1>1. more \in [Entries -> Nat]
  BY DEF TypeOK
<1> HIDE DEF more
<1>2. Probed(b) = IF \A c \in Entries : more[c] > 0
                     THEN [c \in Entries |-> more[c] - 1] ELSE more
  BY DEF Probed, more
<1>3. CASE \A c \in Entries : more[c] > 0
  <2>1. \A c \in Entries : more[c] - 1 \in Nat
    BY <1>1, <1>3
  <2> QED
    BY <1>2, <1>3, <2>1
<1> QED
  BY <1>1, <1>2, <1>3

\* What moves, closes or fails a session keeps the types.
LEMMA MoveType ==
    ASSUME TypeOK, NEW s \in Sessions, NEW p \in Running \cup Waiting,
           NEW why \in {"null", "unhealthy", "connect"},
           Moves(s, p) \/ Close(s) \/ Fails(s, why)
    PROVE  TypeOK'
<1>1. 0 \in Entries
  BY SizeAssumption DEF Entries
<1>2. CASE Moves(s, p)
  BY <1>2 DEF Moves, Goto, ghosts, TypeOK
<1>3. CASE Close(s)
  BY <1>1, <1>3 DEF Close, Goto, TypeOK, Waiting
<1>4. CASE Fails(s, why)
  BY <1>4 DEF Fails, Goto, ghosts, TypeOK, Running
<1> QED
  BY <1>2, <1>3, <1>4

\* Every step of a session keeps the types.
LEMMA SessionType ==
    ASSUME TypeOK, NEW s \in Sessions, SessionStep(s)
    PROVE  TypeOK'
<1>0. 0 \in Entries /\ Entries \subseteq Int
  BY SizeAssumption DEF Entries
<1>1. CASE DoAccept(s) \/ DoHandshake(s)
  BY <1>1, MoveType DEF DoAccept, DoHandshake, Waiting
<1>2. CASE DoReadRequest(s)
  <2>1. CASE Close(s)
    BY <2>1, MoveType DEF Waiting
  <2>2. CASE ~Close(s)
    BY <1>0, <1>2, <2>2 DEF DoReadRequest, Goto, ghosts, TypeOK, Running
  <2> QED
    BY <2>1, <2>2
<1>3. CASE FetchAdd(s)
  <2>1. rr_index' \in 0..(2^Width - 1)
    BY <1>3, IndexInRange DEF FetchAdd, TypeOK
  <2>2. Turn \in Entries
    BY TurnType
  <2>3. lead' \in [Entries -> Nat]
    BY <1>3, <2>2, ProbedType DEF FetchAdd, Turn
  <2>4. crossed' \subseteq Sessions
    BY <1>3 DEF FetchAdd, TypeOK, BetweenProbes
  <2>5. uneven' \in BOOLEAN
    BY <1>3, Zenon DEF FetchAdd, WrapsUnevenly, TypeOK
  <2>6. /\ pc' = [pc EXCEPT ![s] = "test"] /\ idx' = [idx EXCEPT ![s] = Turn]
        /\ UNCHANGED <<healthy, next_check, i, reason, flipped>>
    BY <1>3 DEF FetchAdd, Turn, Goto
  <2> QED
    BY <2>1, <2>2, <2>3, <2>4, <2>5, <2>6 DEF TypeOK, Running
<1>4. CASE TestHealthy(s)
  <2>1. CASE i[s] + 1 < N /\ i' = [i EXCEPT ![s] = @ + 1] /\ Goto(s, "fetch")
             /\ UNCHANGED <<healthy, rr_index, next_check, idx, reason, ghosts>>
    <3>1. i[s] + 1 \in Entries
      BY <2>1, SizeAssumption DEF Entries, TypeOK
    <3> QED
      BY <2>1, <3>1 DEF Goto, ghosts, TypeOK, Running
  <2> QED
    BY <1>4, <2>1, MoveType DEF TestHealthy, Running
<1>5. CASE HandleRequest(s) \/ DoConnectToBackend(s) \/ OnConnect(s)
  BY <1>5, MoveType DEF HandleRequest, DoConnectToBackend, OnConnect, Running, Waiting
<1>6. CASE DoWriteToBackend(s) \/ DoReadFromBackend(s) \/ DoWriteToClient(s) \/ SendError(s)
  BY <1>6, MoveType
     DEF DoWriteToBackend, DoReadFromBackend, DoWriteToClient, SendError, Waiting
<1>7. CASE Terminate(s)
  <2>1. rr_index' \in 0..(2^Width - 1)
    BY <1>7, PowerAssumption DEF Terminate
  <2> QED
    BY <1>0, <1>7, <2>1 DEF Terminate, TypeOK, Waiting
<1> QED
  BY <1>1, <1>2, <1>3, <1>4, <1>5, <1>6, <1>7 DEF SessionStep

\* A health check keeps the types.
LEMMA CheckType ==
    ASSUME TypeOK, HealthCheck
    PROVE  TypeOK'
<1>1. next_check' \in Entries
  <2>1. next_check + 1 \in Nat
    BY SizeAssumption DEF TypeOK, Entries
  <2> QED
    BY <2>1, SizeAssumption, Division DEF HealthCheck, Entries
<1>2. healthy' \in [Entries -> BOOLEAN]
  BY DEF HealthCheck, TypeOK
<1>3. flipped' \subseteq Sessions
  BY DEF HealthCheck, TypeOK
<1> QED
  BY <1>1, <1>2, <1>3 DEF HealthCheck, TypeOK, session

\* Every step keeps the types.
LEMMA TypeStep ==
    ASSUME TypeOK, [Next]_vars
    PROVE  TypeOK'
<1>1. CASE UNCHANGED vars
  BY <1>1 DEF vars, session, ghosts, TypeOK
<1> QED
  BY <1>1, SessionType, CheckType DEF Next

(* Type correctness of the load balancer, for every number of entries and   *)
(* every width of the counter: the index into backends_ stays in range.     *)
THEOREM BalancerTypeCorrect == Spec => []TypeOK
<1>1. Init => TypeOK
  <2>1. 0 \in Entries /\ 0 \in 0..(2^Width - 1)
    BY SizeAssumption, PowerAssumption DEF Entries
  <2>2. Init => uneven \in BOOLEAN /\ healthy \in [Entries -> BOOLEAN]
    BY Zenon DEF Init
  <2>3. Init => /\ next_check \in Entries /\ rr_index \in 0..(2^Width - 1)
                /\ pc \in [Sessions -> Running \cup Waiting]
                /\ i \in [Sessions -> Entries] /\ idx \in [Sessions -> Entries]
                /\ reason \in [Sessions -> {"none", "null", "unhealthy", "connect"}]
                /\ lead \in [Entries -> Nat]
                /\ crossed \subseteq Sessions /\ flipped \subseteq Sessions
    BY <2>1 DEF Init, Waiting
  <2> QED
    BY <2>2, <2>3, Zenon DEF TypeOK
<1> QED
  BY <1>1, TypeStep, PTL DEF Spec

-----------------------------------------------------------------------------
(* The inductive invariant.                                                 *)

\* A session that ends, fails to connect or moves to a position outside
\* GetNextHealthyBackend changes nothing another session relies on.
LEMMA MoveInv ==
    ASSUME Inv, NEW s \in Sessions, NEW p \in (Running \cup Waiting) \ {"fetch", "test", "selected"},
           Moves(s, p) \/ Close(s) \/ Fails(s, "connect")
    PROVE  Inv'
<1>1. TypeOK'
  BY MoveType DEF Inv
<1> USE DEF Inv, TypeOK
<1>2. CASE Moves(s, p)
  <2> USE <1>2 DEF Moves, Goto, ghosts
  <2>1. LeadIsPrefix' /\ SteadyIsHealthy' /\ RefusedOnlyIfDisturbed'
    BY DEF LeadIsPrefix, Turn, SteadyIsHealthy, RefusedOnlyIfDisturbed
  <2>2. ProbesInARow'
    BY DEF ProbesInARow, Turn
  <2>3. ChosenIsHealthy'
    BY DEF ChosenIsHealthy
  <2> QED
    BY <1>1, <2>1, <2>2, <2>3
<1>3. CASE Close(s)
  <2> USE <1>3 DEF Close, Goto
  <2>1. LeadIsPrefix' /\ SteadyIsHealthy' /\ RefusedOnlyIfDisturbed'
    BY DEF LeadIsPrefix, Turn, SteadyIsHealthy, RefusedOnlyIfDisturbed
  <2>2. ProbesInARow'
    BY DEF ProbesInARow, Turn
  <2>3. ChosenIsHealthy'
    BY DEF ChosenIsHealthy
  <2> QED
    BY <1>1, <2>1, <2>2, <2>3
<1>4. CASE Fails(s, "connect")
  <2> USE <1>4 DEF Fails, Goto, ghosts
  <2>1. LeadIsPrefix' /\ SteadyIsHealthy' /\ RefusedOnlyIfDisturbed'
    BY DEF LeadIsPrefix, Turn, SteadyIsHealthy, RefusedOnlyIfDisturbed
  <2>2. ProbesInARow'
    BY DEF ProbesInARow, Turn
  <2>3. ChosenIsHealthy'
    BY DEF ChosenIsHealthy
  <2> QED
    BY <1>1, <2>1, <2>2, <2>3
<1> QED
  BY <1>2, <1>3, <1>4

\* The first probe of a request has no predecessors.
LEMMA ReadInv ==
    ASSUME Inv, NEW s \in Sessions, DoReadRequest(s)
    PROVE  Inv'
<1>1. CASE Close(s)
  BY <1>1, MoveInv DEF Waiting
<1>2. CASE ~Close(s)
  <2>1. TypeOK'
    BY SessionType DEF SessionStep, Inv
  <2> USE <1>2 DEF DoReadRequest, Goto, ghosts, Inv, TypeOK
  <2>2. LeadIsPrefix' /\ SteadyIsHealthy' /\ RefusedOnlyIfDisturbed'
    BY DEF LeadIsPrefix, Turn, SteadyIsHealthy, RefusedOnlyIfDisturbed
  <2>3. ProbesInARow'
    BY DEF ProbesInARow, Turn
  <2>4. ChosenIsHealthy'
    BY DEF ChosenIsHealthy
  <2> QED
    BY <2>1, <2>2, <2>3, <2>4
<1> QED
  BY <1>1, <1>2

\* A probe of the entry whose turn it is keeps the round even.
LEMMA FetchLead ==
    ASSUME Inv, NEW s \in Sessions, FetchAdd(s)
    PROVE  LeadIsPrefix'
<1> SUFFICES ASSUME ~uneven' PROVE LeadIsPrefix'
  BY DEF LeadIsPrefix
<1>0. ~uneven /\ ~WrapsUnevenly
  BY DEF FetchAdd
<1> DEFINE b == Turn
           more == [lead EXCEPT ![b] = @ + 1]
<1>1. b \in Entries /\ Turn' = Succ(b)
  BY <1>0, TurnType, TurnAdvances DEF Inv, FetchAdd
<1>2. lead' = Probed(b)
  BY DEF FetchAdd, Turn
<1>3. \A c \in Entries : lead[c] = (IF c < b THEN 1 ELSE 0)
  BY <1>0 DEF Inv, LeadIsPrefix
<1> HIDE DEF b
<1>4. \A c \in Entries : more[c] = (IF c <= b THEN 1 ELSE 0)
  BY <1>1, <1>3, SizeAssumption DEF Inv, TypeOK, Entries
<1>5. lead' = IF \A c \in Entries : more[c] > 0
                 THEN [c \in Entries |-> more[c] - 1] ELSE more
  BY <1>2 DEF Probed
<1> HIDE DEF more
<1>6. CASE b + 1 = N
  <2>1. \A c \in Entries : more[c] = 1
    BY <1>1, <1>4, <1>6, SizeAssumption DEF Entries
  <2>2. \A c \in Entries : lead'[c] = 0
    BY <1>5, <2>1
  <2> QED
    BY <1>1, <1>6, <2>2, SizeAssumption DEF LeadIsPrefix, Succ, Entries
<1>7. CASE b + 1 # N
  <2>1. b + 1 \in Entries /\ more[b + 1] = 0
    BY <1>1, <1>4, <1>7, SizeAssumption DEF Entries
  <2>2. lead' = more
    BY <1>5, <2>1
  <2> QED
    BY <1>1, <1>4, <1>7, <2>2, SizeAssumption DEF LeadIsPrefix, Succ, Entries
<1> QED
  BY <1>6, <1>7

\* Going on to the next entry puts the last one among those behind.
LEMMA BackOfSucc ==
    ASSUME NEW b \in Entries, NEW j \in 1..(N - 1)
    PROVE  Back(Succ(b), j) = Back(b, j - 1)
  BY SizeAssumption DEF Entries, Back, Succ

\* A session's next probe is that of the next entry; every other session between
\* its probes is crossed.
LEMMA FetchRow ==
    ASSUME Inv, NEW s \in Sessions, FetchAdd(s)
    PROVE  ProbesInARow'
<1> SUFFICES ASSUME NEW t \in Sessions \ crossed'
             PROVE  /\ pc'[t] = "test" =>
                          /\ \A j \in 1..i'[t] : Back(idx'[t], j) \notin Steady
                          /\ i'[t] + 1 < N => Turn' = Succ(idx'[t])
                    /\ pc'[t] = "fetch" /\ i'[t] > 0 =>
                          /\ \A j \in 0..(i'[t] - 1) : Back(idx'[t], j) \notin Steady
                          /\ Turn' = Succ(idx'[t])
  BY DEF ProbesInARow
<1>1. Turn \in Entries
  BY TurnType DEF Inv
<1>2. t \in Sessions \ crossed /\ i'[t] = i[t] /\ i[t] \in 0..(N - 1)
  BY SizeAssumption DEF FetchAdd, Inv, TypeOK, Entries
<1>3. CASE t = s
  <2>1. pc[s] = "fetch" /\ pc'[s] = "test" /\ idx'[s] = Turn
    BY DEF FetchAdd, Goto, Inv, TypeOK, Turn
  <2>3. Turn' = Succ(Turn)
    <3>1. ~WrapsUnevenly
      BY <1>3 DEF FetchAdd
    <3> QED
      BY <3>1, TurnAdvances DEF Inv, FetchAdd
  <2>2. ASSUME NEW j \in 1..i[s] PROVE Back(Turn, j) \notin Steady
    <3>1. /\ i[s] > 0 /\ Turn = Succ(idx[s]) /\ idx[s] \in Entries
          /\ \A k \in 0..(i[s] - 1) : Back(idx[s], k) \notin Steady
      BY <1>2, <1>3, <2>1, SizeAssumption DEF Inv, ProbesInARow, TypeOK
    <3>2. j \in 1..(N - 1) /\ j - 1 \in 0..(i[s] - 1)
      BY <1>2, <1>3, SizeAssumption
    <3> QED
      BY <3>1, <3>2, BackOfSucc
  <2> QED
    BY <1>1, <1>2, <1>3, <2>1, <2>2, <2>3
<1>4. CASE t # s
  <2>1. pc'[t] = pc[t] /\ idx'[t] = idx[t]
    BY <1>4 DEF FetchAdd, Goto, Inv, TypeOK
  <2>2. t \notin BetweenProbes(s)
    BY DEF FetchAdd
  <2>3. ~(pc[t] = "fetch" /\ i[t] > 0) /\ ~(pc[t] = "test" /\ i[t] + 1 < N)
    BY <1>4, <2>2 DEF BetweenProbes
  <2> QED
    BY <1>2, <2>1, <2>3 DEF Inv, ProbesInARow
<1> QED
  BY <1>3, <1>4

\* fetch_add keeps the invariant.
LEMMA FetchInv ==
    ASSUME Inv, NEW s \in Sessions, FetchAdd(s)
    PROVE  Inv'
<1>1. TypeOK' /\ LeadIsPrefix' /\ ProbesInARow'
  BY SessionType, FetchLead, FetchRow DEF SessionStep, Inv
<1>2. SteadyIsHealthy' /\ RefusedOnlyIfDisturbed'
  BY DEF FetchAdd, Inv, SteadyIsHealthy, RefusedOnlyIfDisturbed
<1>3. ChosenIsHealthy'
  BY DEF FetchAdd, Goto, Inv, TypeOK, ChosenIsHealthy
<1> QED
  BY <1>1, <1>2, <1>3 DEF Inv

\* Every entry is the j-th before b for some j.
LEMMA BackCovers ==
    ASSUME NEW b \in Entries, NEW c \in Entries
    PROVE  \E j \in 0..(N - 1) : Back(b, j) = c
<1>1. CASE c <= b
  <2>1. b - c \in 0..(N - 1) /\ Back(b, b - c) = c
    BY <1>1, SizeAssumption DEF Entries, Back
  <2> QED
    BY <2>1
<1>2. CASE b < c
  <2>1. (b - c) + N \in 0..(N - 1) /\ Back(b, (b - c) + N) = c
    BY <1>2, SizeAssumption DEF Entries, Back
  <2> QED
    BY <2>1
<1> QED
  BY <1>1, <1>2, SizeAssumption DEF Entries

\* An unhealthy entry is not steady, so the row of a lone session grows by one that is
\* not; after N of them there is no steady entry.
LEMMA TestInv ==
    ASSUME Inv, NEW s \in Sessions, TestHealthy(s)
    PROVE  Inv'
<1>0. /\ i[s] \in 0..(N - 1) /\ idx[s] \in Entries /\ pc[s] = "test"
      /\ N \in Nat \ {0}
  BY SizeAssumption DEF TestHealthy, Inv, TypeOK, Entries
<1>1. TypeOK'
  BY SessionType DEF SessionStep, Inv
<1>2. ~healthy[idx[s]] /\ s \notin crossed =>
          \A j \in 0..i[s] : Back(idx[s], j) \notin Steady
  <2> SUFFICES ASSUME ~healthy[idx[s]], s \notin crossed, NEW j \in 0..i[s]
               PROVE  Back(idx[s], j) \notin Steady
    OBVIOUS
  <2>1. idx[s] \notin Steady /\ Back(idx[s], 0) = idx[s]
    BY <1>0 DEF Inv, SteadyIsHealthy, Back, Entries
  <2>2. \A k \in 1..i[s] : Back(idx[s], k) \notin Steady
    BY <1>0 DEF Inv, ProbesInARow
  <2> QED
    BY <1>0, <2>1, <2>2
<1>3. CASE healthy[idx[s]] /\ Moves(s, "selected")
  <2> USE <1>3 DEF Moves, Goto, ghosts, Inv, TypeOK
  <2>1. LeadIsPrefix' /\ SteadyIsHealthy' /\ RefusedOnlyIfDisturbed'
    BY DEF LeadIsPrefix, Turn, SteadyIsHealthy, RefusedOnlyIfDisturbed
  <2>2. ProbesInARow'
    BY DEF ProbesInARow, Turn
  <2>3. ChosenIsHealthy'
    BY DEF ChosenIsHealthy
  <2> QED
    BY <1>1, <2>1, <2>2, <2>3
<1>4. CASE /\ ~healthy[idx[s]] /\ i[s] + 1 < N
           /\ i' = [i EXCEPT ![s] = @ + 1]
           /\ Goto(s, "fetch")
           /\ UNCHANGED <<healthy, rr_index, next_check, idx, reason, ghosts>>
  <2> USE <1>4 DEF Goto, ghosts, Inv, TypeOK
  <2>1. LeadIsPrefix' /\ SteadyIsHealthy' /\ RefusedOnlyIfDisturbed'
    BY DEF LeadIsPrefix, Turn, SteadyIsHealthy, RefusedOnlyIfDisturbed
  <2>2. ProbesInARow'
    <3> SUFFICES ASSUME NEW t \in Sessions \ crossed
                 PROVE  /\ pc'[t] = "test" =>
                              /\ \A j \in 1..i'[t] : Back(idx[t], j) \notin Steady
                              /\ i'[t] + 1 < N => Turn = Succ(idx[t])
                        /\ pc'[t] = "fetch" /\ i'[t] > 0 =>
                              /\ \A j \in 0..(i'[t] - 1) : Back(idx[t], j) \notin Steady
                              /\ Turn = Succ(idx[t])
      BY DEF ProbesInARow, Turn
    <3>1. CASE t = s
      <4>1. pc'[s] = "fetch" /\ i'[s] = i[s] + 1 /\ i'[s] - 1 = i[s]
        BY <1>0
      <4>2. Turn = Succ(idx[s])
        BY <1>0, <3>1 DEF ProbesInARow
      <4> QED
        BY <1>2, <3>1, <4>1, <4>2
    <3>2. CASE t # s
      <4>1. pc'[t] = pc[t] /\ i'[t] = i[t]
        BY <3>2
      <4> QED
        BY <4>1 DEF ProbesInARow
    <3> QED
      BY <3>1, <3>2
  <2>3. ChosenIsHealthy'
    BY DEF ChosenIsHealthy
  <2> QED
    BY <1>1, <2>1, <2>2, <2>3
<1>5. CASE ~healthy[idx[s]] /\ i[s] + 1 = N /\ Fails(s, "null")
  <2> USE <1>5 DEF Fails, Goto, ghosts, Inv, TypeOK
  <2>1. LeadIsPrefix' /\ SteadyIsHealthy'
    BY DEF LeadIsPrefix, Turn, SteadyIsHealthy
  <2>2. ProbesInARow'
    BY DEF ProbesInARow, Turn
  <2>3. ChosenIsHealthy'
    BY DEF ChosenIsHealthy
  <2>4. Steady = {} \/ s \in crossed
    <3> SUFFICES ASSUME s \notin crossed, NEW c \in Steady PROVE FALSE
      OBVIOUS
    <3>1. PICK j \in 0..(N - 1) : Back(idx[s], j) = c
      BY <1>0, SteadyAssumption, BackCovers
    <3>2. j \in 0..i[s]
      BY <1>0
    <3> QED
      BY <1>2, <3>1, <3>2
  <2>5. RefusedOnlyIfDisturbed'
    BY <2>4 DEF RefusedOnlyIfDisturbed
  <2> QED
    BY <1>1, <2>1, <2>2, <2>3, <2>5
<1> QED
  BY <1>3, <1>4, <1>5 DEF TestHealthy

\* A chosen entry that is unhealthy now has failed a check since.
LEMMA HandleInv ==
    ASSUME Inv, NEW s \in Sessions, HandleRequest(s)
    PROVE  Inv'
<1>1. TypeOK'
  BY SessionType DEF SessionStep, Inv
<1>2. CASE Moves(s, "resolve")
  BY <1>2, MoveInv DEF Running
<1>3. CASE pc[s] = "selected" /\ ~healthy[idx[s]] /\ Fails(s, "unhealthy")
  <2> USE <1>3 DEF Fails, Goto, ghosts, Inv, TypeOK
  <2>1. LeadIsPrefix' /\ SteadyIsHealthy'
    BY DEF LeadIsPrefix, Turn, SteadyIsHealthy
  <2>2. ProbesInARow'
    BY DEF ProbesInARow, Turn
  <2>3. ChosenIsHealthy'
    BY DEF ChosenIsHealthy
  <2>4. s \in flipped
    BY DEF ChosenIsHealthy
  <2>5. RefusedOnlyIfDisturbed'
    BY <2>4 DEF RefusedOnlyIfDisturbed
  <2> QED
    BY <1>1, <2>1, <2>2, <2>3, <2>5
<1> QED
  BY <1>2, <1>3 DEF HandleRequest

\* An exception starts the process anew.
LEMMA TerminateInv ==
    ASSUME Inv, NEW s \in Sessions, Terminate(s)
    PROVE  Inv'
<1>1. TypeOK'
  BY SessionType DEF SessionStep, Inv
<1>2. Turn' = 0
  BY SizeAssumption, RemainderSmall DEF Terminate, Turn
<1>3. LeadIsPrefix'
  BY <1>2, SizeAssumption DEF LeadIsPrefix, Terminate, Entries
<1>4. ProbesInARow' /\ ChosenIsHealthy' /\ RefusedOnlyIfDisturbed'
  BY DEF Terminate, ProbesInARow, ChosenIsHealthy, RefusedOnlyIfDisturbed
<1>5. SteadyIsHealthy'
  BY SteadyAssumption DEF Terminate, SteadyIsHealthy
<1> QED
  BY <1>1, <1>3, <1>4, <1>5 DEF Inv

\* A health check fails for no steady entry, and marks who chose the one it fails for.
LEMMA CheckInv ==
    ASSUME Inv, HealthCheck
    PROVE  Inv'
<1>1. TypeOK'
  BY CheckType DEF Inv
<1>2. LeadIsPrefix' /\ ProbesInARow' /\ RefusedOnlyIfDisturbed'
  BY DEF HealthCheck, session, Inv, LeadIsPrefix, ProbesInARow, RefusedOnlyIfDisturbed,
         Turn
<1>3. PICK ok \in BOOLEAN :
          /\ next_check \in Steady => ok
          /\ healthy' = [healthy EXCEPT ![next_check] = ok]
          /\ flipped' = flipped \cup
                {s \in Sessions : ~ok /\ pc[s] = "selected" /\ idx[s] = next_check}
  BY DEF HealthCheck
<1>4. SteadyIsHealthy'
  BY <1>3, SteadyAssumption DEF Inv, TypeOK, SteadyIsHealthy
<1>5. ChosenIsHealthy'
  BY <1>3 DEF HealthCheck, session, Inv, TypeOK, ChosenIsHealthy
<1> QED
  BY <1>1, <1>2, <1>4, <1>5 DEF Inv

\* Every step keeps the invariant.
LEMMA InvStep ==
    ASSUME Inv, [Next]_vars
    PROVE  Inv'
<1>1. ASSUME NEW s \in Sessions, SessionStep(s) PROVE Inv'
  <2>1. CASE DoReadRequest(s) \/ FetchAdd(s) \/ TestHealthy(s) \/ HandleRequest(s)
             \/ Terminate(s)
    BY <2>1, ReadInv, FetchInv, TestInv, HandleInv, TerminateInv
  <2>2. CASE DoAccept(s) \/ DoHandshake(s) \/ DoConnectToBackend(s) \/ OnConnect(s)
    BY <2>2, MoveInv
       DEF DoAccept, DoHandshake, DoConnectToBackend, OnConnect, Running, Waiting
  <2>3. CASE DoWriteToBackend(s) \/ DoReadFromBackend(s) \/ DoWriteToClient(s)
             \/ SendError(s)
    BY <2>3, MoveInv
       DEF DoWriteToBackend, DoReadFromBackend, DoWriteToClient, SendError, Waiting
  <2> QED
    BY <1>1, <2>1, <2>2, <2>3 DEF SessionStep
<1>2. CASE UNCHANGED vars
  BY <1>2 DEF vars, session, ghosts, Inv, TypeOK, LeadIsPrefix, ProbesInARow, Turn,
              SteadyIsHealthy, ChosenIsHealthy, RefusedOnlyIfDisturbed
<1> QED
  BY <1>1, <1>2, CheckInv DEF Next

\* All entries are healthy at the start, and nobody has probed.
LEMMA InvInit == Init => Inv
<1> SUFFICES ASSUME Init PROVE Inv
  OBVIOUS
<1>1. 0 \in Entries /\ 0 \in 0..(2^Width - 1) /\ Turn = 0
  BY SizeAssumption, PowerAssumption, RemainderSmall DEF Init, Entries, Turn
<1>2. TypeOK
  BY <1>1 DEF Init, TypeOK, Waiting
<1>3. LeadIsPrefix
  BY <1>1, SizeAssumption DEF Init, LeadIsPrefix, Entries
<1>4. ProbesInARow /\ ChosenIsHealthy /\ RefusedOnlyIfDisturbed
  BY DEF Init, ProbesInARow, ChosenIsHealthy, RefusedOnlyIfDisturbed
<1>5. SteadyIsHealthy
  BY SteadyAssumption DEF Init, SteadyIsHealthy
<1> QED
  BY <1>2, <1>3, <1>4, <1>5 DEF Inv

(* The inductive invariant holds in every behaviour of the load balancer.   *)
THEOREM BalancerInvariant == Spec => []Inv
<1>1. Inv /\ [Next]_vars => Inv'
  BY InvStep
<1> QED
  BY <1>1, InvInit, PTL DEF Spec

(* Round robin: concurrent calls of GetNextHealthyBackend spread their      *)
(* probes so that no entry is probed more than once more often than         *)
(* another, until rr_index_ wraps at a number that is no multiple of the    *)
(* size; if the size is a power of two, for ever.                           *)
THEOREM BalancerRoundRobin == Spec => []RoundRobin
<1>1. Inv => RoundRobin
  BY DEF Inv, LeadIsPrefix, RoundRobin
<1> QED
  BY <1>1, BalancerInvariant, PTL

(* With a backend whose health check never fails, a request is refused only *)
(* if another session's probe or an uneven wrap came between its probes, or *)
(* the chosen entry failed a check between the two tests of its flag.       *)
THEOREM BalancerRefusals == Spec => []RefusedOnlyIfDisturbed
<1>1. Inv => RefusedOnlyIfDisturbed
  BY DEF Inv
<1> QED
  BY <1>1, BalancerInvariant, PTL
=============================================================================
