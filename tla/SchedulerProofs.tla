--------------------------- MODULE SchedulerProofs --------------------------
(***************************************************************************)
(* Proofs about Scheduler: its queues, how far the sequences are computed, *)
(* what the budget says of them, and that batches are uniform.             *)
(***************************************************************************)
EXTENDS Scheduler, BlockManagerV1Proofs, SequenceTheorems, SetSumTheorems

-----------------------------------------------------------------------------
(***************************************************************************)
(* Sequences                                                               *)
(***************************************************************************)
\* The sequence of t's first i elements without those that are not in S.
KeptStep(t, S, kept, i) ==
    IF i = 0 THEN << >>
    ELSE IF t[i] \in S THEN Append(kept[i - 1], t[i])
    ELSE kept[i - 1]
IsKept(t, S, kept) == kept = [i \in 0..Len(t) |-> KeptStep(t, S, kept, i)]

\* The recursive function in Keep exists: it is built up one place at a time.
LEMMA KeptExists ==
    ASSUME NEW t, NEW S, Len(t) \in Nat
    PROVE  \E kept : IsKept(t, S, kept)
<1> DEFINE N == Len(t)
           Upto(f, n) == /\ f = [i \in 0..N |-> f[i]]
                         /\ \A i \in 0..n : f[i] = KeptStep(t, S, f, i)
           Bad == {n \in 0..N : \A f : ~Upto(f, n)}
<1>1. Bad = {}
  <2>1. SUFFICES ASSUME Bad # {} PROVE FALSE
    OBVIOUS
  <2>2. PICK n \in Bad : \A m \in Bad : n <= m
    <3>1. Bad \in SUBSET Nat
      OBVIOUS
    <3>2. QED
      BY <2>1, <3>1, LeastNat
  <2>3. n # 0
    <3> DEFINE f == [i \in 0..N |-> << >>]
    <3>1. Upto(f, 0)
      BY DEF KeptStep
    <3> HIDE DEF f
    <3>2. n = 0 => ~(\A h : ~Upto(h, n))
      BY <3>1
    <3>3. QED
      BY <2>2, <3>2
  <2>4. n - 1 \in 0..N /\ n - 1 \notin Bad /\ n \in 1..N
    <3>1. n - 1 \in 0..N /\ n \in 1..N /\ ~(n <= n - 1)
      BY <2>2, <2>3
    <3> HIDE DEF Bad
    <3>2. QED
      BY <2>2, <3>1
  <2>5. PICK f : Upto(f, n - 1)
    BY <2>4
  <2> DEFINE v == KeptStep(t, S, f, n)
             g == [f EXCEPT ![n] = v]
  <2>6. DOMAIN g = 0..N /\ \A i \in 0..N : g[i] = IF i = n THEN v ELSE f[i]
    BY <2>5
  <2>7. ASSUME NEW i \in 0..n
        PROVE  g[i] = KeptStep(t, S, g, i)
    <3>1. i # 0 => g[i - 1] = f[i - 1]
      BY <2>4, <2>6
    <3>2. KeptStep(t, S, g, i) = KeptStep(t, S, f, i)
      BY <3>1 DEF KeptStep
    <3>3. i # n => f[i] = KeptStep(t, S, f, i)
      BY <2>4, <2>5
    <3> HIDE DEF v, g
    <3>4. i \in 0..N /\ v = KeptStep(t, S, f, n)
      BY <2>4 DEF v
    <3>5. QED
      BY <2>6, <3>2, <3>3, <3>4
  <2>8. Upto(g, n)
    BY <2>6, <2>7
  <2>9. QED
    BY <2>2, <2>8
<1>2. PICK f : Upto(f, N)
  BY <1>1
<1>3. f = [i \in 0..N |-> KeptStep(t, S, f, i)]
  BY <1>2
<1>4. QED
  BY <1>3 DEF IsKept

\* Keep takes some elements of a sequence and leaves them in their order.
Picks(u, t, m) ==
    /\ m \in [1..Len(u) -> 1..Len(t)]
    /\ \A i \in 1..Len(u) : u[i] = t[m[i]]
    /\ \A i, j \in 1..Len(u) : i < j => m[i] < m[j]

LEMMA KeepOf ==
    ASSUME NEW A, NEW t \in Seq(A), NEW S
    PROVE  /\ Keep(t, S) \in Seq(A)
           /\ \E m : Picks(Keep(t, S), t, m)
           /\ \A x \in S : x \in Range(t) => x \in Range(Keep(t, S))
           /\ Range(Keep(t, S)) \subseteq S
<1> DEFINE N == Len(t)
           kept == CHOOSE f : IsKept(t, S, f)
<1>0. N \in Nat /\ \A i \in 1..N : t[i] \in A
  OBVIOUS
<1>1. IsKept(t, S, kept)
  BY <1>0, KeptExists
<1>2. Keep(t, S) = kept[N]
  BY DEF Keep, IsKept, KeptStep
<1>3. /\ kept[0] = << >>
      /\ \A i \in 1..N : kept[i] = IF t[i] \in S THEN Append(kept[i - 1], t[i])
                                   ELSE kept[i - 1]
  <2>1. \A i \in 0..N : kept[i] = KeptStep(t, S, kept, i)
    BY <1>1 DEF IsKept
  <2>2. 0 \in 0..N /\ \A i \in 1..N : i \in 0..N /\ i # 0
    BY <1>0
  <2> HIDE DEF kept, N
  <2>3. QED
    BY <2>1, <2>2 DEF KeptStep
<1> HIDE DEF kept, N
<1> DEFINE Ok(u, n) == /\ u \in Seq(A)
                       /\ \E m : /\ m \in [1..Len(u) -> 1..n]
                                 /\ \A i \in 1..Len(u) : u[i] = t[m[i]]
                                 /\ \A i, j \in 1..Len(u) : i < j => m[i] < m[j]
                       /\ \A k \in 1..n : t[k] \in S => \E i \in 1..Len(u) : u[i] = t[k]
                       /\ \A i \in 1..Len(u) : u[i] \in S
           Bad == {n \in 0..N : ~Ok(kept[n], n)}
<1>4. Ok(<< >>, 0)
  <2> DEFINE m == [i \in 1..0 |-> 0]
  <2>1. m \in [1..0 -> 1..0] /\ Len(<< >>) = 0 /\ \A i \in 1..0 : FALSE
    OBVIOUS
  <2> HIDE DEF m
  <2>2. m \in [1..Len(<< >>) -> 1..0] /\ \A i \in 1..Len(<< >>) : FALSE
    BY <2>1
  <2>3. << >> \in Seq(A)
    OBVIOUS
  <2>4. \E h : /\ h \in [1..Len(<< >>) -> 1..0]
               /\ \A i \in 1..Len(<< >>) : << >>[i] = t[h[i]]
               /\ \A i, j \in 1..Len(<< >>) : i < j => h[i] < h[j]
    <3> WITNESS m
    <3>1. QED
      BY <2>2
  <2>5. QED
    BY <2>1, <2>2, <2>3, <2>4
<1>5. ASSUME NEW n \in 1..N, NEW u, Ok(u, n - 1)
      PROVE  Ok(IF t[n] \in S THEN Append(u, t[n]) ELSE u, n)
  <2>1. PICK m : /\ m \in [1..Len(u) -> 1..(n - 1)]
                 /\ \A i \in 1..Len(u) : u[i] = t[m[i]]
                 /\ \A i, j \in 1..Len(u) : i < j => m[i] < m[j]
    BY <1>5
  <2>2. n \in Nat /\ n - 1 \in Nat /\ t[n] \in A /\ u \in Seq(A) /\ Len(u) \in Nat
    BY <1>0, <1>5
  <2>3. CASE t[n] \notin S
    <3>1. m \in [1..Len(u) -> 1..n]
      BY <2>1, <2>2
    <3>2. \A k \in 1..n : t[k] \in S => k \in 1..(n - 1)
      BY <2>2, <2>3
    <3>3. QED
      BY <1>5, <2>1, <2>2, <2>3, <3>1, <3>2
  <2>4. CASE t[n] \in S
    <3> DEFINE L == Len(u)
               v == Append(u, t[n])
               h == [i \in 1..(L + 1) |-> IF i = L + 1 THEN n ELSE m[i]]
    <3>1. /\ v \in Seq(A) /\ Len(v) = L + 1 /\ v[L + 1] = t[n]
          /\ \A i \in 1..L : v[i] = u[i]
      BY <2>2, AppendProperties
    <3>2. \A i \in 1..(L + 1) : i # L + 1 => i \in 1..L
      BY <2>2
    <3> HIDE DEF v
    <3>3. /\ h \in [1..(L + 1) -> 1..n] /\ h[L + 1] = n
          /\ \A i \in 1..L : h[i] = m[i] /\ h[i] < n
      <4>1. L \in Nat /\ L + 1 \in 1..(L + 1) /\ n \in 1..n
        BY <2>2
      <4>2. \A i \in 1..L : i \in 1..(L + 1) /\ i # L + 1
        BY <4>1
      <4>3. \A i \in 1..L : m[i] \in 1..n /\ m[i] < n
        BY <2>1, <2>2
      <4> HIDE DEF L
      <4>4. \A i \in 1..(L + 1) : h[i] = IF i = L + 1 THEN n ELSE m[i]
        OBVIOUS
      <4>5. \A i \in 1..(L + 1) : h[i] \in 1..n
        BY <3>2, <4>1, <4>3, <4>4 DEF L
      <4>6. QED
        BY <4>1, <4>2, <4>3, <4>4, <4>5
    <3> HIDE DEF h, L
    <3>4. \A i \in 1..(L + 1) : v[i] = t[h[i]] /\ v[i] \in S
      BY <1>5, <2>1, <2>4, <3>1, <3>2, <3>3 DEF L
    <3>5. \A i, j \in 1..(L + 1) : i < j => h[i] < h[j]
      <4> TAKE i, j \in 1..(L + 1)
      <4>1. i < j => i \in 1..L
        BY <2>2 DEF L
      <4>2. CASE j = L + 1
        BY <4>1, <4>2, <3>3
      <4>3. CASE j # L + 1
        BY <4>1, <4>3, <2>1, <3>2, <3>3 DEF L
      <4>4. QED
        BY <4>2, <4>3
    <3>6. \A k \in 1..n : t[k] \in S => \E i \in 1..(L + 1) : v[i] = t[k]
      <4> TAKE k \in 1..n
      <4>1. CASE k = n
        BY <2>2, <3>1, <4>1 DEF L
      <4>2. CASE k # n
        <5>1. k \in 1..(n - 1)
          BY <2>2, <4>2
        <5>2. t[k] \in S => \E i \in 1..L : u[i] = t[k]
          BY <1>5, <5>1 DEF L
        <5>3. QED
          BY <5>2, <3>1, <2>2 DEF L
      <4>3. QED
        BY <4>1, <4>2
    <3>7. Ok(v, n)
      BY <3>1, <3>3, <3>4, <3>5, <3>6
    <3>8. QED
      BY <2>4, <3>7 DEF v
  <2>5. QED
    BY <2>3, <2>4
<1>6. Bad = {}
  <2>1. SUFFICES ASSUME Bad # {} PROVE FALSE
    OBVIOUS
  <2>2. PICK n \in Bad : \A k \in Bad : n <= k
    <3>1. Bad \in SUBSET Nat
      BY <1>0
    <3>2. QED
      BY <2>1, <3>1, LeastNat
  <2> HIDE DEF Ok
  <2>3. n # 0
    BY <1>3, <1>4, <2>2
  <2>4. n - 1 \in 0..N /\ n - 1 \notin Bad /\ n \in 1..N
    <3>1. n - 1 \in 0..N /\ n \in 1..N /\ ~(n <= n - 1)
      BY <1>0, <2>2, <2>3
    <3> HIDE DEF Bad
    <3>2. QED
      BY <2>2, <3>1
  <2>5. Ok(kept[n - 1], n - 1)
    BY <2>4
  <2>6. Ok(kept[n], n)
    BY <1>3, <1>5, <2>4, <2>5
  <2>7. QED
    BY <2>2, <2>6
<1>7. Ok(kept[N], N)
  <2> HIDE DEF Ok
  <2>1. N \in 0..N
    BY <1>0
  <2>2. QED
    BY <1>6, <2>1
<1>8. \A x \in S : x \in Range(t) => x \in Range(kept[N])
  <2>1. ASSUME NEW x \in S, x \in Range(t) PROVE x \in Range(kept[N])
    <3>1. PICK k \in 1..N : t[k] = x
      BY <2>1 DEF Range, N
    <3>2. PICK i \in 1..Len(kept[N]) : kept[N][i] = x
      BY <1>7, <2>1, <3>1
    <3>3. DOMAIN kept[N] = 1..Len(kept[N])
      BY <1>7
    <3>4. QED
      BY <3>2, <3>3 DEF Range
  <2>2. QED
    BY <2>1
<1>9. Range(kept[N]) \subseteq S
  <2>1. DOMAIN kept[N] = 1..Len(kept[N])
    BY <1>7
  <2>2. QED
    BY <1>7, <2>1 DEF Range
<1>10. \E m : Picks(kept[N], t, m)
  BY <1>7 DEF Picks, N
<1>11. QED
  BY <1>2, <1>7, <1>8, <1>9, <1>10

\* What Keep returns: the elements in S, each as often as before at most.
LEMMA KeepRange ==
    ASSUME NEW A, NEW t \in Seq(A), NEW S
    PROVE  /\ Keep(t, S) \in Seq(A)
           /\ Range(Keep(t, S)) = Range(t) \cap S
           /\ IsInjective(t) => IsInjective(Keep(t, S))
<1> DEFINE u == Keep(t, S)
<1>1. u \in Seq(A) /\ Range(u) \subseteq S /\ \A x \in S : x \in Range(t) => x \in Range(u)
  BY KeepOf
<1>2. PICK m : Picks(u, t, m)
  BY KeepOf
<1> HIDE DEF u
<1>3. DOMAIN u = 1..Len(u) /\ DOMAIN t = 1..Len(t) /\ Len(u) \in Nat /\ Len(t) \in Nat
  BY <1>1
<1>4. Range(u) \subseteq Range(t)
  BY <1>2, <1>3 DEF Range, Picks
<1>5. ASSUME IsInjective(t) PROVE IsInjective(u)
  <2>1. SUFFICES ASSUME NEW i \in 1..Len(u), NEW j \in 1..Len(u), u[i] = u[j]
                 PROVE  i = j
    BY <1>3 DEF IsInjective
  <2>2. m[i] = m[j]
    BY <1>2, <1>3, <1>5, <2>1 DEF Picks, IsInjective
  <2>3. m[i] \in Nat /\ ~(i < j) /\ ~(j < i)
    BY <1>2, <1>3, <2>2 DEF Picks
  <2>4. QED
    BY <2>3
<1>6. QED
  BY <1>1, <1>4, <1>5 DEF u
-----------------------------------------------------------------------------
(***************************************************************************)
(* The queues.  In a round the groups are spread over the queues, what the *)
(* loops have scheduled, preempted and skipped, and a group just swapped   *)
(* in is still in the swapped queue; all of these together are the places  *)
(* where groups of one status are.                                         *)
(***************************************************************************)
Working == Alive /\ pc \in Phases

QueueTypes ==
    /\ arrivals \in Seq(Groups) /\ waiting \in Seq(Groups)
    /\ preempted \in Seq(Groups) /\ leftover \in Seq(Groups)
    /\ running \subseteq Groups /\ swapped \subseteq Groups
    /\ batch \subseteq Groups /\ swappedOut \subseteq Groups

\* All sequences of g that are not finished have one status.
AllAre(g, st) == Unfinished(g) # {} /\ Unfinished(g) \subseteq SeqsWith(g, st)

Waiters == Range(waiting) \cup Range(preempted)
             \cup (IF pc = "prefills" THEN Range(leftover) ELSE {})
Runners == running \cup batch
Sleepers == swapped \cup swappedOut \cup (IF pc = "swapped" THEN Range(leftover) ELSE {})

\* The group is swapped in; its slots are being appended.
HasReturned(g) ==
    pc = "swapped" /\ g \in swapped /\ g = Returning /\ AllAre(g, "RUNNING")

\* The groups of each place have its status: at the end of a step a running
\* group may be finished.
PlacesInv ==
    /\ \A g \in Waiters : AllAre(g, "WAITING")
    /\ \A g \in Runners : /\ Unfinished(g) \subseteq SeqsWith(g, "RUNNING")
                          /\ pc # "trim" => Unfinished(g) # {}
    /\ \A g \in Sleepers : AllAre(g, "SWAPPED") \/ HasReturned(g)

\* The group of every sequence is where its status says.
StatusInv ==
    \A s \in Seqs :
        /\ status[s] = "WAITING" => GroupOf[s] \in Waiters
        /\ status[s] = "RUNNING" => GroupOf[s] \in Runners \/ HasReturned(GroupOf[s])
        /\ status[s] = "SWAPPED" => GroupOf[s] \in Sleepers

ArrivalsInv ==
    /\ IsInjective(arrivals)
    /\ \A g \in Groups : Unfinished(g) # {} => g \in Range(arrivals)
    /\ pc # "trim" => \A g \in Range(arrivals) : Unfinished(g) # {}

\* No group is in two places of one status.
ApartInv ==
    /\ IsInjective(waiting) /\ IsInjective(preempted) /\ IsInjective(leftover)
    /\ Range(waiting) \cap Range(preempted) = {}
    /\ pc = "prefills" => Range(leftover) \cap (Range(waiting) \cup Range(preempted)) = {}
    /\ pc \in {"prefills", "running", "current"} => running \cap batch = {}
    /\ pc = "swapped" => swapped \cap (batch \cup Range(leftover)) = {}

\* What is empty when.
PhaseInv ==
    /\ pc \notin {"prefills", "swapped"} => leftover = << >>
    /\ pc \in {"idle", "swapped", "execute", "outputs", "forks", "trim"} =>
         preempted = << >> /\ swappedOut = {}
    /\ pc = "idle" => batch = {}
    /\ pc = "swapped" => running = {}
    /\ pc = "current" => running # {}
    /\ pc \in {"execute", "outputs", "forks", "trim"} => batch \subseteq running

QueueInv ==
    Working => PlacesInv /\ StatusInv /\ ArrivalsInv /\ ApartInv /\ PhaseInv
-----------------------------------------------------------------------------
(***************************************************************************)
(* Groups, ranks and ends of a queue                                       *)
(***************************************************************************)
\* The unfinished sequences of a group are those with one of three statuses.
LEMMA UnfinishedAre ==
    ASSUME TypeOK, NEW g
    PROVE  /\ Unfinished(g) = {s \in Seqs : GroupOf[s] = g
                                  /\ status[s] \in {"WAITING", "RUNNING", "SWAPPED"}}
           /\ \A st \in {"WAITING", "RUNNING", "SWAPPED"} :
                SeqsWith(g, st) \subseteq Unfinished(g)
BY DEF TypeOK, SequencesTypeOK, Statuses, Unfinished, Members, SeqsWith

\* While no status changes the sets of sequences of a group stay the same.
LEMMA SameStatus ==
    ASSUME status' = status
    PROVE  \A g : /\ Unfinished(g)' = Unfinished(g)
                  /\ \A st : SeqsWith(g, st)' = SeqsWith(g, st)
                  /\ \A st : AllAre(g, st)' <=> AllAre(g, st)
BY DEF Unfinished, Members, SeqsWith, AllAre

\* A group is somewhere among the arrivals.
LEMMA RankOf ==
    ASSUME QueueTypes, NEW g \in Range(arrivals)
    PROVE  Rank(g) \in 1..Len(arrivals) /\ arrivals[Rank(g)] = g /\ Rank(g) \in Nat
<1>1. DOMAIN arrivals = 1..Len(arrivals) /\ Len(arrivals) \in Nat
  BY DEF QueueTypes
<1>2. \E i \in DOMAIN arrivals : arrivals[i] = g
  BY DEF Range
<1>3. QED
  BY <1>1, <1>2 DEF Rank

\* Sorting by arrival finds a first and a last group.
LEMMA EndsOfQueue ==
    ASSUME QueueTypes, NEW Q, Q \subseteq Range(arrivals), Q # {}
    PROVE  /\ Oldest(Q) \in Q /\ \A h \in Q : Rank(Oldest(Q)) <= Rank(h)
           /\ Youngest(Q) \in Q /\ \A h \in Q : Rank(Youngest(Q)) >= Rank(h)
<1> DEFINE N == Len(arrivals)
           Up == {Rank(h) : h \in Q}
           Down == {N - Rank(h) : h \in Q}
<1>1. N \in Nat /\ \A h \in Q : Rank(h) \in Nat /\ N - Rank(h) \in Nat
  BY RankOf DEF QueueTypes
<1>2. Up \in SUBSET Nat /\ Down \in SUBSET Nat /\ Up # {} /\ Down # {}
  BY <1>1
<1>3. \E g \in Q : \A h \in Q : Rank(g) <= Rank(h)
  <2>1. PICK x \in Up : \A y \in Up : x <= y
    BY <1>2, LeastNat
  <2>2. QED
    BY <2>1
<1>4. \E g \in Q : \A h \in Q : Rank(g) >= Rank(h)
  <2>1. PICK x \in Down : \A y \in Down : x <= y
    BY <1>2, LeastNat
  <2>2. PICK g \in Q : x = N - Rank(g)
    BY <2>1
  <2>3. ASSUME NEW h \in Q PROVE Rank(g) >= Rank(h)
    <3>1. N - Rank(g) <= N - Rank(h) /\ N \in Nat /\ Rank(g) \in Nat /\ Rank(h) \in Nat
      BY <1>1, <2>1, <2>2
    <3>2. QED
      BY <3>1
  <2>4. QED
    BY <2>3
<1>5. QED
  BY <1>3, <1>4 DEF Oldest, Youngest

\* Before the last part of a step the queued groups are unfinished requests.
LEMMA QueuedArrived ==
    ASSUME TypeOK, QueueTypes, QueueInv, Working, pc # "trim"
    PROVE  /\ running \subseteq Range(arrivals)
           /\ swapped \subseteq Range(arrivals)
           /\ Range(waiting) \subseteq Range(arrivals)
           /\ running # {} => Current \in running /\ Victim \in running
           /\ swapped # {} => Returning \in swapped
<1>1. \A g \in running \cup swapped \cup Range(waiting) : Unfinished(g) # {} /\ g \in Groups
  <2>1. Range(waiting) \subseteq Groups
    BY DEF QueueTypes, Range
  <2>2. QED
    BY <2>1 DEF QueueInv, PlacesInv, Waiters, Runners, Sleepers, AllAre, HasReturned, QueueTypes
<1>2. \A g \in running \cup swapped \cup Range(waiting) : g \in Range(arrivals)
  BY <1>1 DEF QueueInv, ArrivalsInv
<1>3. QED
  BY <1>2, EndsOfQueue DEF Current, Victim, Returning
-----------------------------------------------------------------------------
(***************************************************************************)
(* Steps that change no status and move no group: every action of the      *)
(* loops but those that take a group from one queue to another.            *)
(***************************************************************************)
QueuesOK == QueueTypes /\ QueueInv

\* The phases such a step may lead from and to.
Passes ==
    \/ pc' = pc
    \/ pc = "idle" /\ pc' \in {"prefills", "running"}
    \/ pc = "running" /\ pc' = "current" /\ running # {}
    \/ pc = "running" /\ running = {} /\ (pc' = "swapped" => preempted = << >> /\ swappedOut = {})
         /\ pc' \in {"swapped", "prefills", "end"}
    \/ pc = "end" /\ pc' = "queues"
    \/ pc = "execute" /\ pc' = "outputs"
    \/ pc = "outputs" /\ pc' = "forks"
    \/ pc = "forks" /\ pc' = "trim"
    \/ pc' \in Failures

LEMMA PassKeeps ==
    ASSUME TypeOK, QueuesOK, Working, status' = status, UNCHANGED <<queueVars, resultVars>>, Passes
    PROVE  QueuesOK'
<1>1. /\ arrivals' = arrivals /\ waiting' = waiting /\ running' = running /\ swapped' = swapped
      /\ batch' = batch /\ preempted' = preempted /\ swappedOut' = swappedOut
      /\ leftover' = leftover
  BY DEF queueVars, resultVars
<1>2. QueueTypes'
  BY <1>1 DEF QueuesOK, QueueTypes
<1>3. SUFFICES ASSUME Working'
               PROVE  PlacesInv' /\ StatusInv' /\ ArrivalsInv' /\ ApartInv' /\ PhaseInv'
  BY <1>2 DEF QueuesOK, QueueInv
<1>4. PlacesInv /\ StatusInv /\ ArrivalsInv /\ ApartInv /\ PhaseInv
  BY DEF QueuesOK, QueueInv
<1>5. pc \in Phases /\ pc' \in Phases /\ pc' \notin Failures
  BY <1>3 DEF Working, Phases, Failures
<1>6. \A g : HasReturned(g)' <=> (pc' = "swapped" /\ g \in swapped /\ g = Returning
                                  /\ AllAre(g, "RUNNING"))
  BY <1>1, SameStatus DEF HasReturned, Returning, Oldest, Rank
<1>7. \A g : HasReturned(g) <=> HasReturned(g)'
  <2>1. \A g : AllAre(g, "RUNNING") => ~AllAre(g, "SWAPPED")
    BY DEF AllAre, SeqsWith
  <2>2. pc # "swapped" => \A g \in swapped : ~AllAre(g, "RUNNING")
    BY <1>4, <2>1 DEF PlacesInv, Sleepers, HasReturned
  <2>3. pc = "swapped" => pc' = "swapped"
    BY <1>5 DEF Passes
  <2>4. QED
    BY <1>6, <2>2, <2>3 DEF HasReturned
<1>8. Waiters' = Waiters /\ Runners' = Runners /\ Sleepers' = Sleepers
  BY <1>1, <1>4, <1>5 DEF Waiters, Runners, Sleepers, Passes, PhaseInv, Range
<1>9. PlacesInv'
  BY <1>4, <1>5, <1>7, <1>8, SameStatus DEF PlacesInv, Passes
<1>10. StatusInv'
  BY <1>4, <1>7, <1>8 DEF StatusInv
<1>11. ArrivalsInv'
  BY <1>1, <1>4, <1>5, SameStatus DEF ArrivalsInv, Passes, Range
<1>12. ApartInv'
  <2>1. pc # "swapped" /\ pc # "trim" => swapped \cap batch = {}
    BY <1>4 DEF PlacesInv, Sleepers, Runners, HasReturned, AllAre, SeqsWith
  <2>2. pc # "prefills" /\ pc' = "prefills" => leftover = << >> /\ running \cap batch = {}
    BY <1>4, <1>5 DEF Passes, ApartInv, PhaseInv
  <2>3. pc # "swapped" /\ pc' = "swapped" => leftover = << >>
    BY <1>4, <1>5 DEF Passes, ApartInv, PhaseInv
  <2>4. pc' \in {"running", "current"} => running \cap batch = {}
    BY <1>4, <1>5 DEF Passes, ApartInv, PhaseInv
  <2>5. pc' = "swapped" => pc \in {"swapped", "running"}
    BY <1>5 DEF Passes
  <2>6. Range(<< >>) = {}
    BY DEF Range
  <2>7. QED
    BY <1>1, <1>4, <2>1, <2>2, <2>3, <2>4, <2>5, <2>6 DEF ApartInv
<1>13. PhaseInv'
  BY <1>1, <1>4, <1>5 DEF PhaseInv, Passes
<1>14. QED
  BY <1>9, <1>10, <1>11, <1>12, <1>13
-----------------------------------------------------------------------------
(***************************************************************************)
(* Steps that take a group from one place to another                       *)
(***************************************************************************)
\* A group of one status is not in a place of another.
LEMMA OnePlace ==
    ASSUME PlacesInv, pc # "trim"
    PROVE  /\ \A g : AllAre(g, "RUNNING") => ~AllAre(g, "SWAPPED") /\ ~AllAre(g, "WAITING")
           /\ \A g : AllAre(g, "SWAPPED") => ~AllAre(g, "WAITING")
           /\ \A g \in Runners : AllAre(g, "RUNNING")
           /\ Runners \cap Waiters = {} /\ Sleepers \cap Waiters = {}
           /\ pc # "swapped" => Runners \cap Sleepers = {}
           /\ pc # "swapped" => \A g : ~HasReturned(g)
<1>1. \A g : AllAre(g, "RUNNING") => ~AllAre(g, "SWAPPED") /\ ~AllAre(g, "WAITING")
  BY DEF AllAre, SeqsWith
<1>2. \A g : AllAre(g, "SWAPPED") => ~AllAre(g, "WAITING")
  BY DEF AllAre, SeqsWith
<1>3. \A g \in Runners : AllAre(g, "RUNNING")
  BY DEF PlacesInv, AllAre
<1>4. pc # "swapped" => \A g : ~HasReturned(g)
  BY DEF HasReturned
<1>5. \A g \in Sleepers : AllAre(g, "SWAPPED") \/ AllAre(g, "RUNNING")
  BY DEF PlacesInv, HasReturned
<1>6. \A g \in Waiters : AllAre(g, "WAITING")
  BY DEF PlacesInv
<1>7. Runners \cap Waiters = {} /\ Sleepers \cap Waiters = {}
  BY <1>1, <1>2, <1>3, <1>5, <1>6
<1>8. pc # "swapped" => Runners \cap Sleepers = {}
  BY <1>1, <1>3, <1>4 DEF PlacesInv
<1>9. QED
  BY <1>1, <1>2, <1>3, <1>4, <1>7, <1>8

\* The first group of a queue without repetitions is not in the rest of it.
LEMMA HeadAndTail ==
    ASSUME NEW q \in Seq(Groups), q # << >>, IsInjective(q)
    PROVE  /\ Head(q) \in Groups /\ Head(q) \in Range(q)
           /\ Tail(q) \in Seq(Groups) /\ IsInjective(Tail(q))
           /\ Range(Tail(q)) = Range(q) \ {Head(q)}
<1> DEFINE n == Len(q)
           t == Tail(q)
<1>1. /\ n \in Nat \ {0} /\ DOMAIN q = 1..n /\ \A i \in 1..n : q[i] \in Groups
      /\ Head(q) = q[1] /\ t \in Seq(Groups) /\ DOMAIN t = 1..(n - 1)
      /\ \A i \in 1..(n - 1) : t[i] = q[i + 1]
  OBVIOUS
<1>2. \A i, j \in 1..n : q[i] = q[j] => i = j
  BY <1>1 DEF IsInjective
<1> HIDE DEF n, t
<1>3. 1 \in 1..n /\ \A i \in 1..(n - 1) : i + 1 \in 1..n /\ i + 1 # 1
  BY <1>1
<1>4. \A i \in 1..n : i # 1 => i - 1 \in 1..(n - 1) /\ q[i] = t[i - 1]
  <2>1. \A i \in 1..n : i # 1 => i - 1 \in 1..(n - 1) /\ (i - 1) + 1 = i
    BY <1>1
  <2>2. QED
    BY <1>1, <2>1
<1>5. Range(t) = Range(q) \ {Head(q)}
  <2>1. ASSUME NEW x \in Range(t) PROVE x \in Range(q) \ {Head(q)}
    <3>1. PICK i \in 1..(n - 1) : t[i] = x
      BY <1>1 DEF Range
    <3>2. x = q[i + 1] /\ i + 1 \in 1..n /\ q[i + 1] # q[1]
      BY <1>1, <1>2, <1>3, <3>1
    <3>3. QED
      BY <1>1, <3>2 DEF Range
  <2>2. ASSUME NEW x \in Range(q) \ {Head(q)} PROVE x \in Range(t)
    <3>1. PICK i \in 1..n : q[i] = x
      BY <1>1 DEF Range
    <3>2. i # 1
      BY <1>1, <2>2, <3>1
    <3>3. QED
      BY <1>1, <1>4, <3>1, <3>2 DEF Range
  <2>3. QED
    BY <2>1, <2>2
<1>6. IsInjective(t)
  <2>1. \A i, j \in 1..(n - 1) : t[i] = t[j] => i = j
    BY <1>1, <1>2, <1>3
  <2>2. QED
    BY <1>1, <2>1 DEF IsInjective
<1>7. QED
  BY <1>1, <1>3, <1>5, <1>6 DEF t, Range

LEMMA AppendGroup ==
    ASSUME NEW q \in Seq(Groups), NEW g \in Groups
    PROVE  /\ Append(q, g) \in Seq(Groups)
           /\ Range(Append(q, g)) = Range(q) \cup {g}
           /\ IsInjective(q) /\ g \notin Range(q) => IsInjective(Append(q, g))
<1> DEFINE u == Append(q, g)
           n == Len(q)
<1>1. /\ u \in Seq(Groups) /\ n \in Nat /\ DOMAIN q = 1..n /\ DOMAIN u = 1..(n + 1)
      /\ u[n + 1] = g /\ \A i \in 1..n : u[i] = q[i]
  OBVIOUS
<1> HIDE DEF u, n
<1>2. n + 1 \in 1..(n + 1) /\ \A i \in 1..(n + 1) : i # n + 1 => i \in 1..n
  BY <1>1
<1>3. \A i \in 1..n : i \in 1..(n + 1)
  BY <1>1
<1>4. Range(u) = Range(q) \cup {g}
  BY <1>1, <1>2, <1>3 DEF Range
<1>5. ASSUME IsInjective(q), g \notin Range(q) PROVE IsInjective(u)
  <2>1. \A i \in 1..n : q[i] # g
    BY <1>1, <1>5 DEF Range
  <2>2. \A i, j \in 1..n : q[i] = q[j] => i = j
    BY <1>1, <1>5 DEF IsInjective
  <2>3. \A i, j \in 1..(n + 1) : u[i] = u[j] => i = j
    BY <1>1, <1>2, <2>1, <2>2
  <2>4. QED
    BY <1>1, <2>3 DEF IsInjective
<1>6. QED
  BY <1>1, <1>4, <1>5 DEF u

LEMMA JoinQueues ==
    ASSUME NEW p \in Seq(Groups), NEW q \in Seq(Groups)
    PROVE  /\ p \o q \in Seq(Groups)
           /\ Range(p \o q) = Range(p) \cup Range(q)
           /\ IsInjective(p) /\ IsInjective(q) /\ Range(p) \cap Range(q) = {}
                => IsInjective(p \o q)
<1> DEFINE u == p \o q
           m == Len(p)
           n == Len(q)
<1>1. /\ u \in Seq(Groups) /\ m \in Nat /\ n \in Nat
      /\ DOMAIN p = 1..m /\ DOMAIN q = 1..n /\ DOMAIN u = 1..(m + n)
      /\ \A i \in 1..(m + n) : u[i] = IF i <= m THEN p[i] ELSE q[i - m]
  BY ConcatProperties
<1> HIDE DEF u, m, n
<1>2. \A i \in 1..(m + n) : IF i <= m THEN i \in 1..m ELSE i - m \in 1..n
  BY <1>1
<1>3. Range(u) = Range(p) \cup Range(q)
  <2>1. ASSUME NEW x \in Range(u) PROVE x \in Range(p) \cup Range(q)
    BY <1>1, <1>2 DEF Range
  <2>2. ASSUME NEW x \in Range(p) PROVE x \in Range(u)
    <3>1. PICK i \in 1..m : p[i] = x
      BY <1>1 DEF Range
    <3>2. i \in 1..(m + n) /\ i <= m
      BY <1>1
    <3>3. QED
      BY <1>1, <3>1, <3>2 DEF Range
  <2>3. ASSUME NEW x \in Range(q) PROVE x \in Range(u)
    <3>1. PICK i \in 1..n : q[i] = x
      BY <1>1 DEF Range
    <3>2. m + i \in 1..(m + n) /\ ~(m + i <= m) /\ (m + i) - m = i
      BY <1>1
    <3>3. u[m + i] = x
      BY <1>1, <3>1, <3>2
    <3>4. QED
      BY <1>1, <3>2, <3>3 DEF Range
  <2>4. QED
    BY <2>1, <2>2, <2>3
<1>4. ASSUME IsInjective(p), IsInjective(q), Range(p) \cap Range(q) = {}
      PROVE  IsInjective(u)
  <2>1. SUFFICES ASSUME NEW i \in 1..(m + n), NEW j \in 1..(m + n), u[i] = u[j]
                 PROVE  i = j
    BY <1>1 DEF IsInjective
  <2>2. \A k \in 1..m, l \in 1..n : p[k] # q[l]
    BY <1>1, <1>4 DEF Range
  <2>3. (i <= m) <=> (j <= m)
    BY <1>1, <1>2, <2>1, <2>2
  <2>4. CASE i <= m
    BY <1>1, <1>2, <1>4, <2>1, <2>3, <2>4 DEF IsInjective
  <2>5. CASE ~(i <= m)
    <3>1. i - m = j - m
      BY <1>1, <1>2, <1>4, <2>1, <2>3, <2>5 DEF IsInjective
    <3>2. QED
      BY <1>1, <3>1
  <2>6. QED
    BY <2>4, <2>5
<1>5. QED
  BY <1>1, <1>3, <1>4 DEF u

LEMMA ReverseQueue ==
    ASSUME NEW q \in Seq(Groups)
    PROVE  /\ Reverse(q) \in Seq(Groups)
           /\ Range(Reverse(q)) = Range(q)
           /\ IsInjective(q) => IsInjective(Reverse(q))
<1> DEFINE n == Len(q)
           u == Reverse(q)
<1>1. n \in Nat /\ DOMAIN q = 1..n /\ u = [i \in 1..n |-> q[(n - i) + 1]]
  BY DEF Reverse
<1>2. \A i \in 1..n : (n - i) + 1 \in 1..n /\ (n - ((n - i) + 1)) + 1 = i
  BY <1>1
<1>3. u \in Seq(Groups) /\ DOMAIN u = 1..n /\ \A i \in 1..n : u[i] = q[(n - i) + 1]
  BY <1>1, <1>2
<1> HIDE DEF u, n
<1>4. Range(u) = Range(q)
  <2>1. ASSUME NEW x \in Range(u) PROVE x \in Range(q)
    BY <1>1, <1>2, <1>3 DEF Range
  <2>2. ASSUME NEW x \in Range(q) PROVE x \in Range(u)
    <3>1. PICK i \in 1..n : q[i] = x
      BY <1>1 DEF Range
    <3>2. u[(n - i) + 1] = x
      BY <1>2, <1>3, <3>1
    <3>3. QED
      BY <1>2, <1>3, <3>2 DEF Range
  <2>3. QED
    BY <2>1, <2>2
<1>5. ASSUME IsInjective(q) PROVE IsInjective(u)
  <2>1. SUFFICES ASSUME NEW i \in 1..n, NEW j \in 1..n, u[i] = u[j] PROVE i = j
    BY <1>3 DEF IsInjective
  <2>2. (n - i) + 1 = (n - j) + 1
    BY <1>1, <1>2, <1>3, <1>5, <2>1 DEF IsInjective
  <2>3. QED
    BY <1>1, <2>2
<1>6. QED
  BY <1>3, <1>4, <1>5 DEF u
-----------------------------------------------------------------------------
\* What the invariant says of one group.
GroupOK(g) ==
    /\ g \in Waiters => AllAre(g, "WAITING")
    /\ g \in Runners => /\ Unfinished(g) \subseteq SeqsWith(g, "RUNNING")
                        /\ pc # "trim" => Unfinished(g) # {}
    /\ g \in Sleepers => AllAre(g, "SWAPPED") \/ HasReturned(g)
    /\ SeqsWith(g, "WAITING") # {} => g \in Waiters
    /\ SeqsWith(g, "RUNNING") # {} => g \in Runners \/ HasReturned(g)
    /\ SeqsWith(g, "SWAPPED") # {} => g \in Sleepers
    /\ Unfinished(g) # {} => g \in Range(arrivals)
    /\ pc # "trim" /\ g \in Range(arrivals) => Unfinished(g) # {}

\* A group that a step leaves where it is, with the statuses it has.
StaysPut(g) ==
    /\ \A s \in Seqs : GroupOf[s] = g => status'[s] = status[s]
    /\ g \in Waiters' <=> g \in Waiters
    /\ g \in Runners' <=> g \in Runners
    /\ g \in Sleepers' <=> g \in Sleepers
    /\ HasReturned(g)' <=> HasReturned(g)
    /\ g \in Range(arrivals') <=> g \in Range(arrivals)

LEMMA PlacesAreGroups ==
    ASSUME QueueTypes
    PROVE  /\ Waiters \subseteq Groups /\ Runners \subseteq Groups /\ Sleepers \subseteq Groups
           /\ Range(arrivals) \subseteq Groups
BY DEF QueueTypes, Waiters, Runners, Sleepers, Range

LEMMA EveryGroupOK ==
    ASSUME QueuesOK, Working
    PROVE  \A g \in Groups : GroupOK(g)
<1>1. /\ PlacesInv /\ StatusInv /\ ArrivalsInv
  BY DEF QueuesOK, QueueInv
<1>2. TAKE g \in Groups
<1>3. /\ SeqsWith(g, "WAITING") # {} => g \in Waiters
      /\ SeqsWith(g, "RUNNING") # {} => g \in Runners \/ HasReturned(g)
      /\ SeqsWith(g, "SWAPPED") # {} => g \in Sleepers
  BY <1>1 DEF StatusInv, SeqsWith
<1>4. QED
  BY <1>1, <1>3 DEF PlacesInv, ArrivalsInv, GroupOK

\* A step need only be checked for the groups it moves.
LEMMA MoveKeeps ==
    ASSUME QueuesOK, Working, NEW M, \A g \in M : GroupOK(g)',
           \A g \in Groups \ M : StaysPut(g) /\ (pc' # "trim" <=> pc # "trim"),
           IsInjective(arrivals'), QueueTypes', ApartInv', PhaseInv'
    PROVE  QueuesOK'
<1>1. \A g \in Groups : GroupOK(g)'
  <2>1. ASSUME NEW g \in Groups, g \notin M
        PROVE  GroupOK(g)'
    <3>1. GroupOK(g) /\ StaysPut(g) /\ (pc' # "trim" <=> pc # "trim")
      BY <2>1, EveryGroupOK
    <3>2. /\ Unfinished(g)' = Unfinished(g)
          /\ \A st : SeqsWith(g, st)' = SeqsWith(g, st)
          /\ \A st : AllAre(g, st)' <=> AllAre(g, st)
      BY <3>1 DEF StaysPut, Unfinished, Members, SeqsWith, AllAre
    <3>3. QED
      BY <3>1, <3>2 DEF GroupOK, StaysPut
  <2>2. QED
    BY <2>1
<1>2. /\ Waiters' \subseteq Groups /\ Runners' \subseteq Groups /\ Sleepers' \subseteq Groups
      /\ Range(arrivals') \subseteq Groups
  BY DEF QueueTypes, Waiters, Runners, Sleepers, Range
<1>3. PlacesInv'
  BY <1>1, <1>2 DEF PlacesInv, GroupOK
<1>4. StatusInv'
  <2>1. \A s \in Seqs : GroupOf[s] \in Groups
    BY SequenceGroupsAssumption
  <2>2. \A s \in Seqs : \A st : status'[s] = st => SeqsWith(GroupOf[s], st)' # {}
    BY DEF SeqsWith
  <2>3. QED
    BY <1>1, <2>1, <2>2 DEF StatusInv, GroupOK
<1>5. ArrivalsInv'
  BY <1>1, <1>2 DEF ArrivalsInv, GroupOK
<1>6. QED
  BY <1>3, <1>4, <1>5 DEF QueuesOK, QueueInv

LEMMA StayingKeeps ==
    ASSUME QueuesOK, Working, \A g \in Groups : StaysPut(g), pc # "trim", pc' # "trim",
           IsInjective(arrivals'), QueueTypes', ApartInv', PhaseInv'
    PROVE  QueuesOK'
<1> DEFINE M == {}
<1>1. \A g \in M : GroupOK(g)'
  OBVIOUS
<1>2. \A g \in Groups \ M : StaysPut(g) /\ (pc' # "trim" <=> pc # "trim")
  OBVIOUS
<1> HIDE DEF M
<1>3. QED
  BY <1>1, <1>2, MoveKeeps

LEMMA OneMoves ==
    ASSUME QueuesOK, Working, NEW g, GroupOK(g)', \A h \in Groups : h # g => StaysPut(h),
           pc' # "trim" <=> pc # "trim",
           IsInjective(arrivals'), QueueTypes', ApartInv', PhaseInv'
    PROVE  QueuesOK'
<1> DEFINE M == {g}
<1>1. \A h \in M : GroupOK(h)'
  OBVIOUS
<1>2. \A h \in Groups \ M : StaysPut(h) /\ (pc' # "trim" <=> pc # "trim")
  OBVIOUS
<1> HIDE DEF M
<1>3. QED
  BY <1>1, <1>2, MoveKeeps

\* Only while a swapped group is coming back is there a group that has returned.
LEMMA NoneReturns ==
    ASSUME ~(pc = "swapped" /\ ComesBack)
    PROVE  \A g : ~HasReturned(g)
BY DEF HasReturned, ComesBack, AllAre, SeqsWith, Unfinished, Members
-----------------------------------------------------------------------------
(***************************************************************************)
(* The actions of schedule() that move groups without a status changing    *)
(***************************************************************************)
LEMMA SkipPromptKeeps ==
    ASSUME QueuesOK, Working, SkipPrompt
    PROVE  QueuesOK'
<1> DEFINE g == Head(waiting)
<1>1. /\ pc = "prefills" /\ pc' = pc /\ waiting # << >> /\ status' = status
      /\ waiting' = Tail(waiting) /\ leftover' = Append(leftover, g)
      /\ arrivals' = arrivals /\ running' = running /\ swapped' = swapped
      /\ batch' = batch /\ preempted' = preempted /\ swappedOut' = swappedOut
  BY DEF SkipPrompt, Prefilling, At, vars
<1>2. PlacesInv /\ StatusInv /\ ArrivalsInv /\ ApartInv /\ PhaseInv /\ QueueTypes
  BY DEF QueuesOK, QueueInv
<1>3. /\ g \in Groups /\ g \in Range(waiting)
      /\ waiting' \in Seq(Groups) /\ IsInjective(waiting')
      /\ Range(waiting') = Range(waiting) \ {g}
  BY <1>1, <1>2, HeadAndTail DEF QueueTypes, ApartInv
<1>4. g \notin Range(leftover) \cup Range(preempted)
  BY <1>1, <1>2, <1>3 DEF ApartInv
<1>5. /\ leftover' \in Seq(Groups) /\ IsInjective(leftover')
      /\ Range(leftover') = Range(leftover) \cup {g}
  BY <1>1, <1>2, <1>3, <1>4, AppendGroup DEF QueueTypes, ApartInv
<1>6. Waiters' = Waiters /\ Runners' = Runners /\ Sleepers' = Sleepers
  BY <1>1, <1>3, <1>5 DEF Waiters, Runners, Sleepers
<1>7. \A h : ~HasReturned(h) /\ ~HasReturned(h)'
  BY <1>1 DEF HasReturned
<1>8. \A h \in Groups : StaysPut(h)
  BY <1>1, <1>6, <1>7 DEF StaysPut
<1>9. QueueTypes' /\ IsInjective(arrivals')
  BY <1>1, <1>2, <1>3, <1>5 DEF QueueTypes, ArrivalsInv
<1>10. ApartInv'
  BY <1>1, <1>2, <1>3, <1>4, <1>5 DEF ApartInv
<1>11. PhaseInv'
  BY <1>1, <1>2 DEF PhaseInv
<1>12. QED
  BY <1>1, <1>8, <1>9, <1>10, <1>11, StayingKeeps

LEMMA EndPrefillsKeeps ==
    ASSUME QueuesOK, Working, EndPrefills
    PROVE  QueuesOK'
<1>1. /\ pc = "prefills" /\ status' = status
      /\ pc' = IF ChunkedPrefill \/ batch # {} THEN "end" ELSE "running"
      /\ waiting' = leftover \o waiting /\ leftover' = << >>
      /\ arrivals' = arrivals /\ running' = running /\ swapped' = swapped
      /\ batch' = batch /\ preempted' = preempted /\ swappedOut' = swappedOut
  BY DEF EndPrefills, At, vars
<1>2. PlacesInv /\ StatusInv /\ ArrivalsInv /\ ApartInv /\ PhaseInv /\ QueueTypes
  BY DEF QueuesOK, QueueInv
<1>3. /\ waiting' \in Seq(Groups) /\ IsInjective(waiting')
      /\ Range(waiting') = Range(leftover) \cup Range(waiting)
  BY <1>1, <1>2, JoinQueues DEF QueueTypes, ApartInv
<1>4. pc' \in {"end", "running"} /\ Range(<< >>) = {} /\ IsInjective(<< >>)
  BY <1>1 DEF Range, IsInjective
<1>5. Waiters' = Waiters /\ Runners' = Runners /\ Sleepers' = Sleepers
  BY <1>1, <1>3, <1>4 DEF Waiters, Runners, Sleepers
<1>6. \A h : ~HasReturned(h) /\ ~HasReturned(h)'
  BY <1>1, <1>4 DEF HasReturned
<1>7. \A h \in Groups : StaysPut(h)
  BY <1>1, <1>5, <1>6 DEF StaysPut
<1>8. QueueTypes' /\ IsInjective(arrivals')
  BY <1>1, <1>2, <1>3 DEF QueueTypes, ArrivalsInv
<1>9. ApartInv'
  BY <1>1, <1>2, <1>3, <1>4 DEF ApartInv
<1>10. PhaseInv'
  BY <1>1, <1>2, <1>4 DEF PhaseInv
<1>11. QED
  BY <1>1, <1>4, <1>7, <1>8, <1>9, <1>10, StayingKeeps

LEMMA CurrentIsScheduledKeeps ==
    ASSUME TypeOK, QueuesOK, Working, CurrentIsScheduled
    PROVE  QueuesOK'
<1> DEFINE g == Current
<1>1. /\ pc = "current" /\ pc' = "running" /\ status' = status
      /\ running' = running \ {g} /\ batch' = batch \cup {g} /\ leftover' = leftover
      /\ arrivals' = arrivals /\ waiting' = waiting /\ swapped' = swapped
      /\ preempted' = preempted /\ swappedOut' = swappedOut
  BY DEF CurrentIsScheduled, Decoding, At, vars
<1>2. PlacesInv /\ StatusInv /\ ArrivalsInv /\ ApartInv /\ PhaseInv /\ QueueTypes
  BY DEF QueuesOK, QueueInv
<1>3. g \in running /\ g \in Groups
  <2>1. running # {} /\ pc # "trim"
    BY <1>1, <1>2 DEF PhaseInv
  <2>2. QED
    BY <1>2, <2>1, QueuedArrived DEF QueuesOK, QueueTypes
<1> HIDE DEF g
<1>4. Waiters' = Waiters /\ Runners' = Runners /\ Sleepers' = Sleepers
  BY <1>1, <1>3 DEF Waiters, Runners, Sleepers
<1>5. \A h : ~HasReturned(h) /\ ~HasReturned(h)'
  BY <1>1 DEF HasReturned
<1>6. \A h \in Groups : StaysPut(h)
  BY <1>1, <1>4, <1>5 DEF StaysPut
<1>7. QueueTypes' /\ IsInjective(arrivals')
  BY <1>1, <1>2, <1>3 DEF QueueTypes, ArrivalsInv
<1>8. ApartInv'
  BY <1>1, <1>2 DEF ApartInv
<1>9. PhaseInv'
  BY <1>1, <1>2 DEF PhaseInv
<1>10. QED
  BY <1>1, <1>6, <1>7, <1>8, <1>9, StayingKeeps

LEMMA SkipSwappedKeeps ==
    ASSUME TypeOK, QueuesOK, Working, SkipSwapped
    PROVE  QueuesOK'
<1> DEFINE g == Returning
<1>1. /\ pc = "swapped" /\ pc' = pc /\ status' = status /\ swapped # {} /\ ~ComesBack
      /\ swapped' = swapped \ {g} /\ leftover' = Append(leftover, g)
      /\ arrivals' = arrivals /\ waiting' = waiting /\ running' = running
      /\ batch' = batch /\ preempted' = preempted /\ swappedOut' = swappedOut
  BY DEF SkipSwapped, Swapping, At, vars
<1>2. PlacesInv /\ StatusInv /\ ArrivalsInv /\ ApartInv /\ PhaseInv /\ QueueTypes
  BY DEF QueuesOK, QueueInv
<1>3. g \in swapped /\ g \in Groups
  BY <1>1, <1>2, QueuedArrived DEF QueuesOK, QueueTypes
<1>4. \A h : ~HasReturned(h)
  BY <1>1, NoneReturns
<1> HIDE DEF g
<1>5. g \notin Range(leftover)
  BY <1>1, <1>2, <1>3 DEF ApartInv
<1>6. /\ leftover' \in Seq(Groups) /\ IsInjective(leftover')
      /\ Range(leftover') = Range(leftover) \cup {g}
  BY <1>1, <1>2, <1>3, <1>5, AppendGroup DEF QueueTypes, ApartInv
<1>7. Waiters' = Waiters /\ Runners' = Runners /\ Sleepers' = Sleepers
  BY <1>1, <1>3, <1>6 DEF Waiters, Runners, Sleepers
<1>8. \A h : ~HasReturned(h)'
  <2>1. \A h \in swapped : AllAre(h, "SWAPPED")
    BY <1>2, <1>4 DEF PlacesInv, Sleepers
  <2>2. \A h \in swapped : ~AllAre(h, "RUNNING")'
    BY <1>1, <2>1 DEF AllAre, SeqsWith, Unfinished, Members
  <2>3. QED
    BY <1>1, <2>2 DEF HasReturned
<1>9. \A h \in Groups : StaysPut(h)
  BY <1>1, <1>4, <1>7, <1>8 DEF StaysPut
<1>10. QueueTypes' /\ IsInjective(arrivals')
  BY <1>1, <1>2, <1>6 DEF QueueTypes, ArrivalsInv
<1>11. ApartInv'
  BY <1>1, <1>2, <1>6 DEF ApartInv
<1>12. PhaseInv'
  BY <1>1, <1>2 DEF PhaseInv
<1>13. QED
  BY <1>1, <1>9, <1>10, <1>11, <1>12, StayingKeeps

LEMMA EndSwappedKeeps ==
    ASSUME QueuesOK, Working, EndSwapped
    PROVE  QueuesOK'
<1>1. /\ pc = "swapped" /\ pc' \in {"prefills", "end"} /\ status' = status
      /\ swapped' = swapped \cup Range(leftover) /\ leftover' = << >>
      /\ arrivals' = arrivals /\ waiting' = waiting /\ running' = running
      /\ batch' = batch /\ preempted' = preempted /\ swappedOut' = swappedOut
  BY DEF EndSwapped, At, vars
<1>2. PlacesInv /\ StatusInv /\ ArrivalsInv /\ ApartInv /\ PhaseInv /\ QueueTypes
  BY DEF QueuesOK, QueueInv
<1>3. \A h : ~HasReturned(h) /\ ~HasReturned(h)'
  <2>1. swapped = {} \/ ~ComesBack
    BY DEF EndSwapped
  <2>2. swapped = {} => \A h : ~HasReturned(h)
    BY DEF HasReturned
  <2>3. \A h : ~HasReturned(h)
    BY <2>1, <2>2, NoneReturns
  <2>4. QED
    BY <1>1, <2>3 DEF HasReturned
<1>4. Range(<< >>) = {} /\ IsInjective(<< >>)
  BY DEF Range, IsInjective
<1>5. Waiters' = Waiters /\ Runners' = Runners /\ Sleepers' = Sleepers
  BY <1>1, <1>4 DEF Waiters, Runners, Sleepers
<1>6. \A h \in Groups : StaysPut(h)
  BY <1>1, <1>3, <1>5 DEF StaysPut
<1>7. QueueTypes' /\ IsInjective(arrivals')
  BY <1>1, <1>2 DEF QueueTypes, ArrivalsInv, Range
<1>8. ApartInv'
  BY <1>1, <1>2, <1>4 DEF ApartInv, PhaseInv
<1>9. PhaseInv'
  BY <1>1, <1>2 DEF PhaseInv
<1>10. QED
  BY <1>1, <1>6, <1>7, <1>8, <1>9, StayingKeeps

LEMMA ReturningIsScheduledKeeps ==
    ASSUME TypeOK, QueuesOK, Working, ReturningIsScheduled
    PROVE  QueuesOK'
<1>0. PICK g : g = Returning
  OBVIOUS
<1>1. /\ pc = "swapped" /\ pc' = pc /\ status' = status /\ swapped # {} /\ ComesBack
      /\ swapped' = swapped \ {g} /\ batch' = batch \cup {g}
      /\ arrivals' = arrivals /\ waiting' = waiting /\ running' = running
      /\ leftover' = leftover /\ preempted' = preempted /\ swappedOut' = swappedOut
  BY <1>0 DEF ReturningIsScheduled, Swapping, At, vars
<1>2. PlacesInv /\ StatusInv /\ ArrivalsInv /\ ApartInv /\ PhaseInv /\ QueueTypes
  BY DEF QueuesOK, QueueInv
<1>3. g \in swapped /\ g \in Groups
  BY <1>0, <1>1, <1>2, QueuedArrived DEF QueuesOK, QueueTypes
<1>4. HasReturned(g) /\ AllAre(g, "RUNNING")
  <2>1. ~AllAre(g, "SWAPPED")
    BY <1>0, <1>1 DEF ComesBack, AllAre
  <2>2. QED
    BY <1>2, <1>3, <2>1 DEF PlacesInv, Sleepers, HasReturned
<1>5. \A h : HasReturned(h) => h = g
  BY <1>0 DEF HasReturned
<1>6. g \notin Waiters /\ g \notin Range(leftover) /\ swappedOut = {}
  BY <1>1, <1>2, <1>3, <1>4, OnePlace DEF ApartInv, PhaseInv, Sleepers
<1>7. /\ Waiters' = Waiters /\ Runners' = Runners \cup {g} /\ Sleepers' = Sleepers \ {g}
  BY <1>1, <1>6 DEF Waiters, Runners, Sleepers
<1>8. \A h : ~HasReturned(h)'
  <2>1. \A h \in swapped : h # g => AllAre(h, "SWAPPED")
    BY <1>2, <1>5 DEF PlacesInv, Sleepers
  <2>2. \A h \in swapped : h # g => ~AllAre(h, "RUNNING")'
    BY <1>1, <2>1 DEF AllAre, SeqsWith, Unfinished, Members
  <2>3. QED
    BY <1>1, <2>2 DEF HasReturned
<1>9. \A h \in Groups : h # g => StaysPut(h)
  BY <1>1, <1>5, <1>7, <1>8 DEF StaysPut
<1>10. GroupOK(g)'
  <2>1. Unfinished(g)' = Unfinished(g) /\ \A st : SeqsWith(g, st)' = SeqsWith(g, st)
    BY <1>1, SameStatus
  <2>2. Unfinished(g) # {} /\ g \in Range(arrivals)
    BY <1>2, <1>3, <1>4 DEF AllAre, ArrivalsInv
  <2>3. SeqsWith(g, "WAITING") = {} /\ SeqsWith(g, "SWAPPED") = {}
    BY <1>4 DEF AllAre, SeqsWith, Unfinished, Members
  <2>4. QED
    BY <1>1, <1>4, <1>6, <1>7, <2>1, <2>2, <2>3 DEF GroupOK, AllAre
<1>11. QueueTypes' /\ IsInjective(arrivals')
  BY <1>1, <1>2, <1>3 DEF QueueTypes, ArrivalsInv
<1>12. ApartInv'
  BY <1>1, <1>2, <1>6 DEF ApartInv
<1>13. PhaseInv'
  BY <1>1, <1>2 DEF PhaseInv
<1>14. pc' # "trim" <=> pc # "trim"
  BY <1>1
<1>15. QED
  BY <1>9, <1>10, <1>11, <1>12, <1>13, <1>14, OneMoves

LEMMA EndScheduleKeeps ==
    ASSUME QueuesOK, Working, EndSchedule
    PROVE  QueuesOK'
<1>1. /\ pc = "queues" /\ pc' = "execute" /\ status' = status
      /\ waiting' = Reverse(preempted) \o waiting /\ preempted' = << >>
      /\ running' = running \cup batch /\ batch' = batch
      /\ swapped' = swapped \cup swappedOut /\ swappedOut' = {}
      /\ arrivals' = arrivals /\ leftover' = leftover
  BY DEF EndSchedule, At, vars
<1>2. PlacesInv /\ StatusInv /\ ArrivalsInv /\ ApartInv /\ PhaseInv /\ QueueTypes
  BY DEF QueuesOK, QueueInv
<1>3. /\ waiting' \in Seq(Groups) /\ IsInjective(waiting')
      /\ Range(waiting') = Range(preempted) \cup Range(waiting)
  BY <1>1, <1>2, JoinQueues, ReverseQueue DEF QueueTypes, ApartInv
<1>4. Range(<< >>) = {} /\ IsInjective(<< >>)
  BY DEF Range, IsInjective
<1>5. Waiters' = Waiters /\ Runners' = Runners /\ Sleepers' = Sleepers
  BY <1>1, <1>3, <1>4 DEF Waiters, Runners, Sleepers
<1>6. \A h : ~HasReturned(h) /\ ~HasReturned(h)'
  BY <1>1 DEF HasReturned
<1>7. \A h \in Groups : StaysPut(h)
  BY <1>1, <1>5, <1>6 DEF StaysPut
<1>8. QueueTypes' /\ IsInjective(arrivals')
  BY <1>1, <1>2, <1>3 DEF QueueTypes, ArrivalsInv
<1>9. ApartInv'
  BY <1>1, <1>2, <1>3, <1>4 DEF ApartInv
<1>10. PhaseInv'
  BY <1>1, <1>2 DEF PhaseInv
<1>11. QED
  BY <1>1, <1>7, <1>8, <1>9, <1>10, StayingKeeps

LEMMA EndStepKeeps ==
    ASSUME QueuesOK, Working, EndStep
    PROVE  QueuesOK'
<1> DEFINE Live == {g \in Groups : Unfinished(g) # {}}
<1>1. /\ pc = "trim" /\ pc' = "idle" /\ status' = status
      /\ running' = {g \in running : Unfinished(g) # {}} /\ batch' = {}
      /\ arrivals' = Keep(arrivals, Live) /\ waiting' = waiting /\ swapped' = swapped
      /\ leftover' = leftover /\ preempted' = preempted /\ swappedOut' = swappedOut
  BY DEF EndStep, At, vars
<1>2. PlacesInv /\ StatusInv /\ ArrivalsInv /\ ApartInv /\ PhaseInv /\ QueueTypes
  BY DEF QueuesOK, QueueInv
<1>3. \A h : /\ Unfinished(h)' = Unfinished(h)
             /\ \A st : SeqsWith(h, st)' = SeqsWith(h, st)
             /\ \A st : AllAre(h, st)' <=> AllAre(h, st)
  BY <1>1, SameStatus
<1>4. /\ arrivals' \in Seq(Groups) /\ IsInjective(arrivals')
      /\ Range(arrivals') = Range(arrivals) \cap Live
  BY <1>1, <1>2, KeepRange DEF QueueTypes, ArrivalsInv
<1>5. \A h : ~HasReturned(h) /\ ~HasReturned(h)'
  BY <1>1 DEF HasReturned
<1>6. /\ Waiters' = Waiters /\ Sleepers' = Sleepers
      /\ Runners' = {g \in Runners : Unfinished(g) # {}}
  BY <1>1, <1>2 DEF Waiters, Runners, Sleepers, PhaseInv
<1>7. ASSUME NEW g \in Groups
      PROVE  GroupOK(g)'
  <2>1. GroupOK(g)
    BY EveryGroupOK
  <2>2. SeqsWith(g, "RUNNING") # {} => Unfinished(g) # {}
    BY DEF SeqsWith, Unfinished, Members
  <2>3. QED
    BY <1>1, <1>3, <1>4, <1>5, <1>6, <2>1, <2>2 DEF GroupOK
<1>8. QueueTypes'
  BY <1>1, <1>2, <1>4 DEF QueueTypes
<1>9. ApartInv'
  BY <1>1, <1>2 DEF ApartInv
<1>10. PhaseInv'
  BY <1>1, <1>2 DEF PhaseInv
<1>11. \A h \in Groups \ Groups : StaysPut(h) /\ (pc' # "trim" <=> pc # "trim")
  OBVIOUS
<1>12. QED
  BY <1>4, <1>7, <1>8, <1>9, <1>10, <1>11, MoveKeeps
-----------------------------------------------------------------------------
(***************************************************************************)
(* The actions in which statuses change                                    *)
(***************************************************************************)
LEMMA AddGroupKeeps ==
    ASSUME TypeOK, QueuesOK, Working, NEW g \in Groups, AddGroup(g)
    PROVE  QueuesOK'
<1>1. /\ pc = "idle" /\ pc' = pc /\ g \notin Range(arrivals) /\ AddRequest(g)
      /\ arrivals' = Append(arrivals, g) /\ waiting' = Append(waiting, g)
      /\ running' = running /\ swapped' = swapped /\ batch' = batch
      /\ leftover' = leftover /\ preempted' = preempted /\ swappedOut' = swappedOut
  BY DEF AddGroup, At, roundVars, resultVars
<1>2. PlacesInv /\ StatusInv /\ ArrivalsInv /\ ApartInv /\ PhaseInv /\ QueueTypes
  BY DEF QueuesOK, QueueInv
<1>3. /\ \A s \in Seqs : GroupOf[s] # g => status'[s] = status[s]
      /\ status'[Parent[g]] = "WAITING" /\ Parent[g] \in Seqs /\ GroupOf[Parent[g]] = g
      /\ \A s \in Seqs : GroupOf[s] = g /\ s # Parent[g] => status'[s] = "UNUSED"
  BY <1>1, SequenceGroupsAssumption DEF AddRequest
<1>4. g \notin Waiters /\ g \notin Runners /\ g \notin Sleepers
  BY <1>1, <1>2 DEF AddRequest, PlacesInv, AllAre, HasReturned
<1>5. /\ arrivals' \in Seq(Groups) /\ IsInjective(arrivals')
      /\ Range(arrivals') = Range(arrivals) \cup {g}
  BY <1>1, <1>2, AppendGroup DEF QueueTypes, ArrivalsInv
<1>6. /\ waiting' \in Seq(Groups) /\ IsInjective(waiting')
      /\ Range(waiting') = Range(waiting) \cup {g}
  BY <1>1, <1>2, <1>4, AppendGroup DEF QueueTypes, ApartInv, Waiters
<1>7. \A h : ~HasReturned(h) /\ ~HasReturned(h)'
  BY <1>1 DEF HasReturned
<1>8. Waiters' = Waiters \cup {g} /\ Runners' = Runners /\ Sleepers' = Sleepers
  BY <1>1, <1>6 DEF Waiters, Runners, Sleepers
<1>9. \A h \in Groups : h # g => StaysPut(h)
  BY <1>3, <1>5, <1>7, <1>8 DEF StaysPut
<1>10. GroupOK(g)'
  <2>1. Unfinished(g)' = {Parent[g]} /\ SeqsWith(g, "WAITING")' = {Parent[g]}
    BY <1>3 DEF Unfinished, Members, SeqsWith
  <2>2. SeqsWith(g, "RUNNING")' = {} /\ SeqsWith(g, "SWAPPED")' = {}
    BY <1>3 DEF SeqsWith
  <2>3. QED
    BY <1>4, <1>5, <1>8, <2>1, <2>2 DEF GroupOK, AllAre
<1>11. QueueTypes'
  BY <1>1, <1>2, <1>5, <1>6 DEF QueueTypes
<1>12. ApartInv'
  BY <1>1, <1>2, <1>4, <1>6 DEF ApartInv, Waiters
<1>13. PhaseInv'
  BY <1>1, <1>2 DEF PhaseInv
<1>14. pc' # "trim" <=> pc # "trim"
  BY <1>1
<1>15. QED
  BY <1>5, <1>9, <1>10, <1>11, <1>12, <1>13, <1>14, OneMoves

\* A group whose sequences are all finished and that is in no queue any more.
LEMMA GoneIsOK ==
    ASSUME NEW g \in Groups, \A s \in Unfinished(g) : status'[s] = "FINISHED",
           \A s \in Seqs : s \notin Unfinished(g) => status'[s] = status[s],
           TypeOK, g \notin Waiters', g \notin Runners', g \notin Sleepers',
           g \notin Range(arrivals')
    PROVE  GroupOK(g)'
<1>1. \A s \in Seqs : GroupOf[s] = g => status'[s] \in {"UNUSED", "FINISHED"}
  BY DEF TypeOK, SequencesTypeOK, Statuses, Unfinished, Members
<1>2. Unfinished(g)' = {} /\ SeqsWith(g, "WAITING")' = {} /\ SeqsWith(g, "RUNNING")' = {}
      /\ SeqsWith(g, "SWAPPED")' = {}
  BY <1>1 DEF Unfinished, Members, SeqsWith
<1>3. QED
  BY <1>2 DEF GroupOK

LEMMA AbortGroupKeeps ==
    ASSUME TypeOK, QueuesOK, Working, NEW g \in Groups, AbortGroup(g)
    PROVE  QueuesOK'
<1> DEFINE Others == Groups \ {g}
<1>1. /\ pc = "idle" /\ pc' = pc /\ g \in Range(arrivals) /\ Finish(Unfinished(g))
      /\ arrivals' = Keep(arrivals, Others) /\ waiting' = Keep(waiting, Others)
      /\ running' = running \ {g} /\ swapped' = swapped \ {g} /\ batch' = batch
      /\ leftover' = leftover /\ preempted' = preempted /\ swappedOut' = swappedOut
  BY DEF AbortGroup, At, Abort, Forget, roundVars, resultVars
<1>2. PlacesInv /\ StatusInv /\ ArrivalsInv /\ ApartInv /\ PhaseInv /\ QueueTypes
  BY DEF QueuesOK, QueueInv
<1>3. /\ arrivals' \in Seq(Groups) /\ IsInjective(arrivals')
      /\ Range(arrivals') = Range(arrivals) \ {g}
  <2>1. Range(arrivals') = Range(arrivals) \cap Others
    BY <1>1, <1>2, KeepRange DEF QueueTypes
  <2>2. Range(arrivals) \subseteq Groups
    BY <1>2 DEF QueueTypes, Range
  <2>3. QED
    BY <1>1, <1>2, <2>1, <2>2, KeepRange DEF QueueTypes, ArrivalsInv
<1>4. /\ waiting' \in Seq(Groups) /\ IsInjective(waiting')
      /\ Range(waiting') = Range(waiting) \ {g}
  <2>1. Range(waiting') = Range(waiting) \cap Others
    BY <1>1, <1>2, KeepRange DEF QueueTypes
  <2>2. Range(waiting) \subseteq Groups
    BY <1>2 DEF QueueTypes, Range
  <2>3. QED
    BY <1>1, <1>2, <2>1, <2>2, KeepRange DEF QueueTypes, ApartInv
<1>5. QueueTypes'
  BY <1>1, <1>2, <1>3, <1>4 DEF QueueTypes
<1>6. CASE err' # "none"
  BY <1>5, <1>6 DEF QueuesOK, QueueInv, Working, Alive
<1>7. CASE err' = "none"
  <2>1. /\ \A s \in Unfinished(g) : status'[s] = "FINISHED"
        /\ \A s \in Seqs : s \notin Unfinished(g) => status'[s] = status[s]
    BY <1>1, <1>7 DEF Finish, Raise, SetStatus, Unfinished, Members
  <2>2. \A h : ~HasReturned(h) /\ ~HasReturned(h)'
    BY <1>1 DEF HasReturned
  <2>3. /\ Waiters' = Waiters \ {g} /\ Runners' = Runners \ {g} /\ Sleepers' = Sleepers \ {g}
    <3>1. preempted = << >> /\ swappedOut = {} /\ batch = {} /\ Range(<< >>) = {}
      BY <1>1, <1>2 DEF PhaseInv, Range
    <3>2. QED
      BY <1>1, <1>4, <3>1 DEF Waiters, Runners, Sleepers
  <2>4. \A h \in Groups : h # g => StaysPut(h)
    <3>1. \A s \in Seqs : GroupOf[s] # g => status'[s] = status[s]
      BY <2>1 DEF Unfinished, Members
    <3>2. QED
      BY <1>3, <2>2, <2>3, <3>1 DEF StaysPut
  <2>5. GroupOK(g)'
    BY <1>3, <2>1, <2>3, GoneIsOK
  <2>6. ApartInv'
    BY <1>1, <1>2, <1>4 DEF ApartInv
  <2>7. PhaseInv'
    BY <1>1, <1>2 DEF PhaseInv
  <2>8. pc' # "trim" <=> pc # "trim"
    BY <1>1
  <2>9. QED
    BY <1>3, <1>5, <2>4, <2>5, <2>6, <2>7, <2>8, OneMoves
<1>8. QED
  BY <1>6, <1>7

\* A waiting group has one sequence, its prompt.
LEMMA WaitingGroup ==
    ASSUME IInv, NEW g, AllAre(g, "WAITING")
    PROVE  \E s \in Seqs : /\ Members(g) = {s} /\ Unfinished(g) = {s}
                           /\ SeqsWith(g, "WAITING") = {s}
<1>1. PICK s \in Unfinished(g) : s \in Seqs /\ status[s] = "WAITING" /\ GroupOf[s] = g
  BY DEF AllAre, SeqsWith
<1>2. Members(g) = {s}
  BY <1>1 DEF IInv, GroupsInv
<1>3. Unfinished(g) = {s} /\ SeqsWith(g, "WAITING") = {s}
  BY <1>1, <1>2 DEF Unfinished, Members, SeqsWith
<1>4. QED
  BY <1>1, <1>2, <1>3

LEMMA HeadOfWaiting ==
    ASSUME IInv, QueuesOK, Working, waiting # << >>
    PROVE  /\ Head(waiting) \in Groups /\ Head(waiting) \in Range(waiting) /\ Prompt \in Seqs
           /\ Members(Head(waiting)) = {Prompt} /\ Unfinished(Head(waiting)) = {Prompt}
           /\ SeqsWith(Head(waiting), "WAITING") = {Prompt}
           /\ waiting[1] = Head(waiting)
<1>1. PICK g : g = Head(waiting)
  OBVIOUS
<1>2. g \in Groups /\ g \in Range(waiting) /\ AllAre(g, "WAITING")
  BY <1>1, HeadAndTail DEF QueuesOK, QueueTypes, QueueInv, PlacesInv, ApartInv, Waiters
<1>3. PICK s \in Seqs : /\ Members(g) = {s} /\ Unfinished(g) = {s}
                        /\ SeqsWith(g, "WAITING") = {s}
  BY <1>2, WaitingGroup
<1>4. Prompt = s
  BY <1>1, <1>3 DEF Prompt
<1>5. QED
  BY <1>1, <1>2, <1>3, <1>4 DEF QueuesOK, QueueTypes

LEMMA IgnorePromptKeeps ==
    ASSUME IInv, QueuesOK, Working, IgnorePrompt
    PROVE  QueuesOK'
<1>0. PICK g : g = Head(waiting)
  OBVIOUS
<1> DEFINE Others == Groups \ {g}
<1>1. /\ pc = "prefills" /\ pc' = pc /\ waiting # << >> /\ Finish({Prompt})
      /\ arrivals' = Keep(arrivals, Others) /\ waiting' = Tail(waiting)
      /\ running' = running /\ swapped' = swapped /\ batch' = batch
      /\ leftover' = leftover /\ preempted' = preempted /\ swappedOut' = swappedOut
  BY <1>0 DEF IgnorePrompt, Prefilling, At, Forget, roundVars, resultVars
<1>2. PlacesInv /\ StatusInv /\ ArrivalsInv /\ ApartInv /\ PhaseInv /\ QueueTypes
  BY DEF QueuesOK, QueueInv
<1>3. /\ arrivals' \in Seq(Groups) /\ IsInjective(arrivals')
      /\ Range(arrivals') = Range(arrivals) \ {g}
  <2>1. Range(arrivals') = Range(arrivals) \cap Others
    BY <1>1, <1>2, KeepRange DEF QueueTypes
  <2>2. Range(arrivals) \subseteq Groups
    BY <1>2 DEF QueueTypes, Range
  <2>3. QED
    BY <1>1, <1>2, <2>1, <2>2, KeepRange DEF QueueTypes, ArrivalsInv
<1>4. /\ waiting' \in Seq(Groups) /\ IsInjective(waiting')
      /\ Range(waiting') = Range(waiting) \ {g} /\ g \in Groups /\ g \in Range(waiting)
  BY <1>0, <1>1, <1>2, HeadAndTail DEF QueueTypes, ApartInv
<1>5. Unfinished(g) = {Prompt}
  BY <1>0, <1>1, HeadOfWaiting
<1>6. QueueTypes'
  BY <1>1, <1>2, <1>3, <1>4 DEF QueueTypes
<1>7. CASE err' # "none"
  BY <1>6, <1>7 DEF QueuesOK, QueueInv, Working, Alive
<1>8. CASE err' = "none"
  <2>1. /\ \A s \in Unfinished(g) : status'[s] = "FINISHED"
        /\ \A s \in Seqs : s \notin Unfinished(g) => status'[s] = status[s]
    <3>1. SetStatus({Prompt}, "FINISHED")
      BY <1>1, <1>8 DEF Finish, Raise
    <3>2. QED
      BY <1>5, <3>1 DEF SetStatus, Unfinished, Members
  <2>2. \A h : ~HasReturned(h) /\ ~HasReturned(h)'
    BY <1>1 DEF HasReturned
  <2>3. g \notin Runners /\ g \notin Sleepers /\ g \notin Range(preempted) \cup Range(leftover)
    BY <1>1, <1>2, <1>4, OnePlace DEF Waiters, ApartInv
  <2>4. /\ Waiters' = Waiters \ {g} /\ Runners' = Runners /\ Sleepers' = Sleepers
    BY <1>1, <1>4, <2>3 DEF Waiters, Runners, Sleepers
  <2>5. \A h \in Groups : h # g => StaysPut(h)
    <3>1. \A s \in Seqs : GroupOf[s] # g => status'[s] = status[s]
      BY <2>1 DEF Unfinished, Members
    <3>2. QED
      BY <1>3, <2>2, <2>4, <3>1 DEF StaysPut
  <2>6. GroupOK(g)'
    BY <1>3, <1>4, <2>1, <2>3, <2>4, GoneIsOK DEF IInv
  <2>7. ApartInv'
    BY <1>1, <1>2, <1>4 DEF ApartInv
  <2>8. PhaseInv'
    BY <1>1, <1>2 DEF PhaseInv
  <2>9. pc' # "trim" <=> pc # "trim"
    BY <1>1
  <2>10. QED
    BY <1>3, <1>6, <2>5, <2>6, <2>7, <2>8, <2>9, OneMoves
<1>9. QED
  BY <1>7, <1>8

\* All unfinished sequences of g go from one status to another.
LEMMA AllChange ==
    ASSUME TypeOK, NEW g, NEW old \in {"WAITING", "RUNNING", "SWAPPED"},
           NEW new \in {"WAITING", "RUNNING", "SWAPPED"}, AllAre(g, old), old # new,
           SetStatus(SeqsWith(g, old), new)
    PROVE  /\ \A s \in Seqs : GroupOf[s] # g => status'[s] = status[s]
           /\ AllAre(g, new)'
           /\ \A st \in {"WAITING", "RUNNING", "SWAPPED"} : st # new => SeqsWith(g, st)' = {}
           /\ Unfinished(g)' # {}
<1>1. \A s \in Seqs : status'[s] = IF s \in SeqsWith(g, old) THEN new ELSE status[s]
  BY DEF SetStatus
<1>2. Unfinished(g)' = SeqsWith(g, old) /\ SeqsWith(g, new)' = SeqsWith(g, old)
  BY <1>1, UnfinishedAre DEF AllAre, Unfinished, Members, SeqsWith
<1>3. \A st \in {"WAITING", "RUNNING", "SWAPPED"} : st # new => SeqsWith(g, st)' = {}
  BY <1>2 DEF Unfinished, Members, SeqsWith
<1>4. Unfinished(g)' # {}
  BY <1>2 DEF AllAre
<1>5. QED
  BY <1>1, <1>2, <1>3, <1>4 DEF SeqsWith, AllAre

LEMMA AdmitPromptKeeps ==
    ASSUME IInv, QueuesOK, Working, AdmitPrompt
    PROVE  QueuesOK'
<1>0. PICK g : g = Head(waiting)
  OBVIOUS
<1>1. /\ pc = "prefills" /\ pc' = pc /\ waiting # << >> /\ Allocate(g)
      /\ arrivals' = arrivals /\ waiting' = Tail(waiting) /\ batch' = batch \cup {g}
      /\ running' = running /\ swapped' = swapped
      /\ leftover' = leftover /\ preempted' = preempted /\ swappedOut' = swappedOut
  BY <1>0 DEF AdmitPrompt, Prefilling, At
<1>2. PlacesInv /\ StatusInv /\ ArrivalsInv /\ ApartInv /\ PhaseInv /\ QueueTypes
  BY DEF QueuesOK, QueueInv
<1>3. /\ waiting' \in Seq(Groups) /\ IsInjective(waiting')
      /\ Range(waiting') = Range(waiting) \ {g} /\ g \in Groups /\ g \in Range(waiting)
  BY <1>0, <1>1, <1>2, HeadAndTail DEF QueueTypes, ApartInv
<1>4. AllAre(g, "WAITING")
  BY <1>2, <1>3 DEF PlacesInv, Waiters
<1>5. /\ \A s \in Seqs : GroupOf[s] # g => status'[s] = status[s]
      /\ AllAre(g, "RUNNING")' /\ SeqsWith(g, "WAITING")' = {} /\ SeqsWith(g, "SWAPPED")' = {}
  <2>1. SetStatus(SeqsWith(g, "WAITING"), "RUNNING")
    BY <1>1, <1>3, AllocateSucceeds
  <2>2. QED
    BY <1>4, <2>1, AllChange DEF IInv
<1>6. \A h : ~HasReturned(h) /\ ~HasReturned(h)'
  BY <1>1 DEF HasReturned
<1>7. g \notin Runners /\ g \notin Sleepers /\ g \notin Range(preempted) \cup Range(leftover)
  BY <1>1, <1>2, <1>3, OnePlace DEF Waiters, ApartInv
<1>8. /\ Waiters' = Waiters \ {g} /\ Runners' = Runners \cup {g} /\ Sleepers' = Sleepers
  BY <1>1, <1>3, <1>7 DEF Waiters, Runners, Sleepers
<1>9. \A h \in Groups : h # g => StaysPut(h)
  BY <1>1, <1>5, <1>6, <1>8 DEF StaysPut
<1>10. GroupOK(g)'
  <2>1. g \in Range(arrivals)
    BY <1>2, <1>3, <1>4 DEF AllAre, ArrivalsInv
  <2>2. QED
    BY <1>1, <1>3, <1>5, <1>7, <1>8, <2>1 DEF GroupOK, AllAre
<1>11. QueueTypes' /\ IsInjective(arrivals')
  BY <1>1, <1>2, <1>3 DEF QueueTypes, ArrivalsInv
<1>12. ApartInv'
  BY <1>1, <1>2, <1>3, <1>7 DEF ApartInv, Runners
<1>13. PhaseInv'
  BY <1>1, <1>2 DEF PhaseInv
<1>14. pc' # "trim" <=> pc # "trim"
  BY <1>1
<1>15. QED
  BY <1>9, <1>10, <1>11, <1>12, <1>13, <1>14, OneMoves

\* What the two ways of preempting a group have in common.
LEMMA GiveUpMoves ==
    ASSUME TypeOK, QueuesOK, Working, NoRoom, GiveUp
    PROVE  \E g \in Groups :
              /\ g = Victim /\ g \in running /\ running' = running \ {g}
              /\ pc = "current" /\ pc' \in {"running", "current"}
              /\ pc' = "current" => running' # {}
              /\ AllAre(g, "RUNNING") /\ g \in Range(arrivals)
              /\ g \notin Waiters /\ g \notin Sleepers
<1>1. PlacesInv /\ ArrivalsInv /\ ApartInv /\ PhaseInv /\ QueueTypes
  BY DEF QueuesOK, QueueInv
<1>2. pc = "current" /\ running # {}
  BY <1>1 DEF NoRoom, Decoding, At, PhaseInv
<1>3. Current \in running /\ Victim \in running
  BY <1>1, <1>2, QueuedArrived DEF QueuesOK
<1>4. PICK g : g = Victim
  OBVIOUS
<1>5. g \in running /\ g \in Groups /\ AllAre(g, "RUNNING") /\ g \in Range(arrivals)
  BY <1>1, <1>2, <1>3, <1>4 DEF PlacesInv, Runners, QueueTypes, AllAre, ArrivalsInv
<1>6. g \notin Waiters /\ g \notin Sleepers
  BY <1>1, <1>2, <1>5, OnePlace DEF Runners
<1>7. /\ running' = running \ {g} /\ pc' \in {"running", "current"}
      /\ pc' = "current" => running' # {}
  BY <1>3, <1>4 DEF GiveUp
<1>8. QED
  BY <1>2, <1>4, <1>5, <1>6, <1>7

LEMMA RecomputeYoungestKeeps ==
    ASSUME IInv, QueuesOK, Working, RecomputeYoungest
    PROVE  QueuesOK'
<1>1. PICK g \in Groups :
              /\ g = Victim /\ g \in running /\ running' = running \ {g}
              /\ pc = "current" /\ pc' \in {"running", "current"}
              /\ pc' = "current" => running' # {}
              /\ AllAre(g, "RUNNING") /\ g \in Range(arrivals)
              /\ g \notin Waiters /\ g \notin Sleepers
  BY GiveUpMoves DEF RecomputeYoungest, IInv
<1>2. /\ PreemptByRecompute(g) /\ preempted' = Append(preempted, g)
      /\ arrivals' = arrivals /\ waiting' = waiting /\ batch' = batch
      /\ swapped' = swapped /\ leftover' = leftover /\ swappedOut' = swappedOut
  BY <1>1 DEF RecomputeYoungest
<1>3. PlacesInv /\ StatusInv /\ ArrivalsInv /\ ApartInv /\ PhaseInv /\ QueueTypes
  BY DEF QueuesOK, QueueInv
<1>4. /\ preempted' \in Seq(Groups) /\ IsInjective(preempted')
      /\ Range(preempted') = Range(preempted) \cup {g}
  BY <1>1, <1>2, <1>3, AppendGroup DEF QueueTypes, ApartInv, Waiters
<1>5. QueueTypes'
  BY <1>1, <1>2, <1>3, <1>4 DEF QueueTypes
<1>6. CASE err' # "none"
  BY <1>5, <1>6 DEF QueuesOK, QueueInv, Working, Alive
<1>7. CASE err' = "none"
  <2>1. SetStatus(SeqsWith(g, "RUNNING"), "WAITING")
    BY <1>2, <1>7 DEF PreemptByRecompute, Raise
  <2>2. /\ \A s \in Seqs : GroupOf[s] # g => status'[s] = status[s]
        /\ AllAre(g, "WAITING")' /\ SeqsWith(g, "RUNNING")' = {}
        /\ SeqsWith(g, "SWAPPED")' = {}
    BY <1>1, <2>1, AllChange DEF IInv
  <2>3. \A h : ~HasReturned(h) /\ ~HasReturned(h)'
    BY <1>1 DEF HasReturned
  <2>4. g \notin batch
    BY <1>1, <1>3 DEF ApartInv
  <2>5. /\ Waiters' = Waiters \cup {g} /\ Runners' = Runners \ {g} /\ Sleepers' = Sleepers
    BY <1>1, <1>2, <1>4, <2>4 DEF Waiters, Runners, Sleepers
  <2>6. \A h \in Groups : h # g => StaysPut(h)
    BY <1>2, <2>2, <2>3, <2>5 DEF StaysPut
  <2>7. GroupOK(g)'
    BY <1>1, <1>2, <2>2, <2>5 DEF GroupOK, AllAre
  <2>8. ApartInv' /\ IsInjective(arrivals')
    BY <1>1, <1>2, <1>3, <1>4 DEF ApartInv, ArrivalsInv, Waiters
  <2>9. PhaseInv'
    BY <1>1, <1>2, <1>3 DEF PhaseInv
  <2>10. pc' # "trim" <=> pc # "trim"
    BY <1>1
  <2>11. QED
    BY <1>5, <2>6, <2>7, <2>8, <2>9, <2>10, OneMoves
<1>8. QED
  BY <1>6, <1>7

LEMMA SwapOutYoungestKeeps ==
    ASSUME IInv, QueuesOK, Working, SwapOutYoungest
    PROVE  QueuesOK'
<1>1. PICK g \in Groups :
              /\ g = Victim /\ g \in running /\ running' = running \ {g}
              /\ pc = "current" /\ pc' \in {"running", "current"}
              /\ pc' = "current" => running' # {}
              /\ AllAre(g, "RUNNING") /\ g \in Range(arrivals)
              /\ g \notin Waiters /\ g \notin Sleepers
  BY GiveUpMoves DEF SwapOutYoungest, IInv
<1>2. /\ PreemptBySwap(g) /\ swappedOut' = swappedOut \cup {g}
      /\ arrivals' = arrivals /\ waiting' = waiting /\ batch' = batch
      /\ swapped' = swapped /\ leftover' = leftover /\ preempted' = preempted
  BY <1>1 DEF SwapOutYoungest
<1>3. PlacesInv /\ StatusInv /\ ArrivalsInv /\ ApartInv /\ PhaseInv /\ QueueTypes
  BY DEF QueuesOK, QueueInv
<1>4. QueueTypes'
  BY <1>1, <1>2, <1>3 DEF QueueTypes
<1>5. CASE err' # "none"
  BY <1>4, <1>5 DEF QueuesOK, QueueInv, Working, Alive
<1>6. CASE err' = "none"
  <2>1. SetStatus(SeqsWith(g, "RUNNING"), "SWAPPED")
    BY <1>2, <1>6 DEF PreemptBySwap, MoveError, Raise
  <2>2. /\ \A s \in Seqs : GroupOf[s] # g => status'[s] = status[s]
        /\ AllAre(g, "SWAPPED")' /\ SeqsWith(g, "RUNNING")' = {}
        /\ SeqsWith(g, "WAITING")' = {}
    BY <1>1, <2>1, AllChange DEF IInv
  <2>3. \A h : ~HasReturned(h) /\ ~HasReturned(h)'
    BY <1>1 DEF HasReturned
  <2>4. g \notin batch
    BY <1>1, <1>3 DEF ApartInv
  <2>5. /\ Waiters' = Waiters /\ Runners' = Runners \ {g} /\ Sleepers' = Sleepers \cup {g}
    BY <1>1, <1>2, <2>4 DEF Waiters, Runners, Sleepers
  <2>6. \A h \in Groups : h # g => StaysPut(h)
    BY <1>2, <2>2, <2>3, <2>5 DEF StaysPut
  <2>7. GroupOK(g)'
    BY <1>1, <1>2, <2>2, <2>5 DEF GroupOK, AllAre
  <2>8. ApartInv' /\ IsInjective(arrivals')
    BY <1>1, <1>2, <1>3 DEF ApartInv, ArrivalsInv
  <2>9. PhaseInv'
    BY <1>1, <1>2, <1>3 DEF PhaseInv
  <2>10. pc' # "trim" <=> pc # "trim"
    BY <1>1
  <2>11. QED
    BY <1>4, <2>6, <2>7, <2>8, <2>9, <2>10, OneMoves
<1>7. QED
  BY <1>5, <1>6

LEMMA SwapInOldestKeeps ==
    ASSUME IInv, QueuesOK, Working, SwapInOldest
    PROVE  QueuesOK'
<1>0. PICK g : g = Returning
  OBVIOUS
<1>1. /\ pc = "swapped" /\ pc' = pc /\ swapped # {} /\ ~ComesBack /\ SwapIn(g)
      /\ arrivals' = arrivals /\ waiting' = waiting /\ running' = running
      /\ swapped' = swapped /\ batch' = batch /\ preempted' = preempted
      /\ leftover' = leftover /\ swappedOut' = swappedOut
  BY <1>0 DEF SwapInOldest, Swapping, At, queueVars, resultVars
<1>2. PlacesInv /\ StatusInv /\ ArrivalsInv /\ ApartInv /\ PhaseInv /\ QueueTypes
  BY DEF QueuesOK, QueueInv
<1>3. g \in swapped /\ g \in Groups
  BY <1>0, <1>1, <1>2, QueuedArrived DEF IInv, QueuesOK, QueueTypes
<1>4. \A h : ~HasReturned(h)
  BY <1>1, NoneReturns
<1>5. AllAre(g, "SWAPPED") /\ g \in Sleepers
  BY <1>2, <1>3, <1>4 DEF PlacesInv, Sleepers
<1>6. QueueTypes'
  BY <1>1, <1>2 DEF QueueTypes
<1>7. CASE err' # "none"
  BY <1>6, <1>7 DEF QueuesOK, QueueInv, Working, Alive
<1>8. CASE err' = "none"
  <2>1. SetStatus(SeqsWith(g, "SWAPPED"), "RUNNING")
    BY <1>1, <1>8 DEF SwapIn, MoveError, Raise
  <2>2. /\ \A s \in Seqs : GroupOf[s] # g => status'[s] = status[s]
        /\ AllAre(g, "RUNNING")' /\ SeqsWith(g, "SWAPPED")' = {}
        /\ SeqsWith(g, "WAITING")' = {}
    BY <1>5, <2>1, AllChange DEF IInv
  <2>3. Returning' = g
    BY <1>0, <1>1 DEF Returning, Oldest, Rank
  <2>4. HasReturned(g)' /\ \A h : h # g => ~HasReturned(h)'
    BY <1>1, <1>3, <2>2, <2>3 DEF HasReturned
  <2>5. g \notin Runners /\ g \notin Waiters
    BY <1>1, <1>2, <1>3, <1>5, OnePlace DEF Runners, ApartInv, PhaseInv
  <2>6. Waiters' = Waiters /\ Runners' = Runners /\ Sleepers' = Sleepers
    BY <1>1 DEF Waiters, Runners, Sleepers
  <2>7. \A h \in Groups : h # g => StaysPut(h)
    BY <1>1, <1>4, <2>2, <2>4, <2>6 DEF StaysPut
  <2>8. GroupOK(g)'
    <3>1. g \in Range(arrivals)
      BY <1>2, <1>3, <1>5 DEF AllAre, ArrivalsInv
    <3>2. QED
      BY <1>1, <1>5, <2>2, <2>4, <2>5, <2>6, <3>1 DEF GroupOK, AllAre
  <2>9. ApartInv' /\ IsInjective(arrivals')
    BY <1>1, <1>2 DEF ApartInv, ArrivalsInv
  <2>10. PhaseInv'
    BY <1>1, <1>2 DEF PhaseInv
  <2>11. pc' # "trim" <=> pc # "trim"
    BY <1>1
  <2>12. QED
    BY <1>6, <2>7, <2>8, <2>9, <2>10, <2>11, OneMoves
<1>9. QED
  BY <1>7, <1>8

\* A change inside a group that is running, while the outputs are processed.
LEMMA RunnerChanges ==
    ASSUME QueuesOK, Working, pc \in {"outputs", "forks", "trim"}, pc' = pc,
           UNCHANGED <<queueVars, resultVars>>, NEW g \in Runners,
           \A s \in Seqs : GroupOf[s] # g => status'[s] = status[s],
           Unfinished(g)' \subseteq SeqsWith(g, "RUNNING")',
           pc # "trim" => Unfinished(g)' # {}, Unfinished(g)' # {} => Unfinished(g) # {}
    PROVE  QueuesOK'
<1>1. /\ arrivals' = arrivals /\ waiting' = waiting /\ running' = running /\ swapped' = swapped
      /\ batch' = batch /\ preempted' = preempted /\ swappedOut' = swappedOut
      /\ leftover' = leftover
  BY DEF queueVars, resultVars
<1>2. PlacesInv /\ StatusInv /\ ArrivalsInv /\ ApartInv /\ PhaseInv /\ QueueTypes
  BY DEF QueuesOK, QueueInv
<1>3. g \in Groups
  BY <1>2, PlacesAreGroups
<1>4. \A h : ~HasReturned(h) /\ ~HasReturned(h)'
  BY DEF HasReturned
<1>5. Waiters' = Waiters /\ Runners' = Runners /\ Sleepers' = Sleepers
  BY <1>1 DEF Waiters, Runners, Sleepers
<1>6. \A h \in Groups : h # g => StaysPut(h)
  BY <1>1, <1>4, <1>5 DEF StaysPut
<1>7. g \notin Waiters /\ g \notin Sleepers
  BY <1>2, <1>4 DEF PlacesInv, AllAre, SeqsWith
<1>8. GroupOK(g)'
  <2>1. SeqsWith(g, "WAITING")' = {} /\ SeqsWith(g, "SWAPPED")' = {}
    BY DEF SeqsWith, Unfinished, Members
  <2>2. (Unfinished(g)' # {} => g \in Range(arrivals'))
    BY <1>1, <1>2, <1>3 DEF ArrivalsInv
  <2>3. QED
    BY <1>5, <1>7, <2>1, <2>2 DEF GroupOK
<1>9. QueueTypes' /\ IsInjective(arrivals')
  BY <1>1, <1>2 DEF QueueTypes, ArrivalsInv
<1>10. ApartInv' /\ PhaseInv'
  BY <1>1, <1>2 DEF ApartInv, PhaseInv
<1>11. pc' # "trim" <=> pc # "trim"
  OBVIOUS
<1>12. QED
  BY <1>6, <1>8, <1>9, <1>10, <1>11, OneMoves

\* While the outputs are processed every running sequence is in a queued group.
LEMMA RunningGroup ==
    ASSUME QueuesOK, Working, pc \in {"outputs", "forks", "trim"}, NEW s \in Seqs,
           status[s] = "RUNNING"
    PROVE  /\ GroupOf[s] \in Runners /\ s \in Unfinished(GroupOf[s])
           /\ Unfinished(GroupOf[s]) \subseteq SeqsWith(GroupOf[s], "RUNNING")
BY DEF QueuesOK, QueueInv, StatusInv, PlacesInv, HasReturned, Unfinished, Members

\* A step that raises an exception, and what is left to show of it.
LEMMA RaiseKeeps ==
    ASSUME QueuesOK, UNCHANGED <<queueVars, resultVars>>, err' # "none"
    PROVE  QueuesOK'
BY DEF QueuesOK, QueueInv, QueueTypes, Working, Alive, queueVars, resultVars

LEMMA DropParentKeeps ==
    ASSUME IInv, QueuesOK, Working, NEW s \in Seqs, DropParent(s)
    PROVE  QueuesOK'
<1>1. PICK g : g = GroupOf[s]
  OBVIOUS
<1>2. /\ pc = "outputs" /\ pc' = pc /\ status[s] = "RUNNING" /\ RemoveSeq(s)
      /\ SeqsWith(g, "RUNNING") # {s} /\ UNCHANGED <<queueVars, resultVars>>
  BY <1>1 DEF DropParent, At, IInv, RoundInv, roundVars
<1>3. /\ g \in Runners /\ s \in Unfinished(g) /\ Unfinished(g) \subseteq SeqsWith(g, "RUNNING")
  BY <1>1, <1>2, RunningGroup
<1>4. CASE err' # "none"
  BY <1>2, <1>4, RaiseKeeps
<1>5. CASE err' = "none"
  <2>1. \A q \in Seqs : status'[q] = IF q = s THEN "UNUSED" ELSE status[q]
    BY <1>2, <1>5 DEF RemoveSeq, Raise, SetStatus
  <2>2. /\ Unfinished(g)' = Unfinished(g) \ {s}
        /\ Unfinished(g)' \subseteq SeqsWith(g, "RUNNING")'
        /\ \A q \in Seqs : GroupOf[q] # g => status'[q] = status[q]
    BY <1>1, <1>3, <2>1 DEF Unfinished, Members, SeqsWith
  <2>3. SeqsWith(g, "RUNNING") \subseteq Unfinished(g)
    BY DEF SeqsWith, Unfinished, Members
  <2>4. Unfinished(g)' # {}
    BY <1>2, <1>3, <2>2, <2>3
  <2>5. QED
    BY <1>2, <1>3, <2>2, <2>4, RunnerChanges
<1>6. QED
  BY <1>4, <1>5

LEMMA ForkChildKeeps ==
    ASSUME IInv, QueuesOK, Working, NEW p \in Seqs, NEW c \in Seqs, ForkChild(p, c)
    PROVE  QueuesOK'
<1>1. PICK g : g = GroupOf[p]
  OBVIOUS
<1>2. /\ pc = "forks" /\ pc' = pc /\ status[p] = "RUNNING" /\ GroupOf[c] = g
      /\ status[c] = "UNUSED" /\ UNCHANGED <<queueVars, resultVars>>
      /\ SetStatus({c}, "RUNNING") \/ SetStatus({c}, "FINISHED")
  BY <1>1 DEF ForkChild, Fork, At, roundVars
<1>3. g \in Runners /\ p \in Unfinished(g) /\ Unfinished(g) \subseteq SeqsWith(g, "RUNNING")
  BY <1>1, <1>2, RunningGroup
<1>4. /\ \A q \in Seqs : q # c => status'[q] = status[q]
      /\ status'[c] \in {"RUNNING", "FINISHED"}
  BY <1>2 DEF SetStatus
<1>5. p # c
  BY <1>2
<1>6. /\ Unfinished(g) \subseteq Unfinished(g)'
      /\ Unfinished(g)' \subseteq SeqsWith(g, "RUNNING")'
      /\ \A q \in Seqs : GroupOf[q] # g => status'[q] = status[q]
  BY <1>2, <1>3, <1>4 DEF Unfinished, Members, SeqsWith
<1>7. Unfinished(g)' # {} /\ Unfinished(g) # {}
  BY <1>3, <1>6
<1>8. QED
  BY <1>2, <1>3, <1>6, <1>7, RunnerChanges

\* One sequence of a group that was in the batch is finished or removed.
LEMMA TrimKeeps ==
    ASSUME IInv, QueuesOK, Working, NEW s \in Seqs, StopSeq(s) \/ DropUnselected(s)
    PROVE  QueuesOK'
<1>1. PICK g : g = GroupOf[s]
  OBVIOUS
<1>2. /\ pc = "trim" /\ pc' = pc /\ UNCHANGED <<queueVars, resultVars>>
  BY DEF StopSeq, DropUnselected, At, roundVars
<1>3. g \in Runners
  <2>1. CASE StopSeq(s)
    BY <1>1, <1>2, <2>1, RunningGroup DEF StopSeq, Stop
  <2>2. CASE DropUnselected(s)
    BY <1>1, <2>2 DEF DropUnselected, Runners
  <2>3. QED
    BY <2>1, <2>2
<1>4. Unfinished(g) \subseteq SeqsWith(g, "RUNNING")
  BY <1>3 DEF QueuesOK, QueueInv, PlacesInv
<1>5. CASE err' # "none"
  BY <1>2, <1>5, RaiseKeeps
<1>6. CASE err' = "none"
  <2>1. SetStatus({s}, "FINISHED") \/ SetStatus({s}, "UNUSED")
    BY <1>6 DEF StopSeq, Stop, Finish, DropUnselected, RemoveSeq, Raise
  <2>2. /\ \A q \in Seqs : q # s => status'[q] = status[q]
        /\ status'[s] \in {"UNUSED", "FINISHED"}
    BY <2>1 DEF SetStatus
  <2>3. /\ Unfinished(g)' \subseteq Unfinished(g)
        /\ Unfinished(g)' \subseteq SeqsWith(g, "RUNNING")'
        /\ \A q \in Seqs : GroupOf[q] # g => status'[q] = status[q]
    BY <1>1, <1>4, <2>2 DEF Unfinished, Members, SeqsWith
  <2>4. Unfinished(g)' # {} => Unfinished(g) # {}
    BY <2>3
  <2>5. QED
    BY <1>2, <1>3, <2>3, <2>4, RunnerChanges
<1>7. QED
  BY <1>5, <1>6
-----------------------------------------------------------------------------
(***************************************************************************)
(* Every step of the engine and of its clients                             *)
(***************************************************************************)
\* The actions that only call the block manager or go to the next loop.
LEMMA PassingActions ==
    ASSUME IInv, QueuesOK, Working,
           \/ StartSchedule \/ TakeCurrent \/ EndRunning \/ CheckBudget \/ Execute
           \/ EndOutputs \/ EndForks \/ LoraKeyError \/ ReturningHasMoreTokens
           \/ \E s \in Seqs : \/ AppendSlotsOfCurrent(s) \/ AppendSlotsOfReturning(s)
                              \/ EndChunk(s) \/ Continue(s)
    PROVE  QueuesOK'
<1>1. status' = status
  <2>1. CASE \E s \in Seqs : AppendSlotsOfCurrent(s) \/ AppendSlotsOfReturning(s)
    BY <2>1 DEF AppendSlotsOfCurrent, AppendSlotsOfReturning, AppendSlots, AppendError, Raise
  <2>2. CASE \E s \in Seqs : EndChunk(s) \/ Continue(s)
    BY <2>2 DEF EndChunk, Continue, SkipSample, AppendToken
  <2>3. CASE \/ StartSchedule \/ TakeCurrent \/ EndRunning \/ CheckBudget \/ Execute
             \/ EndOutputs \/ EndForks \/ LoraKeyError \/ ReturningHasMoreTokens
    BY <2>3 DEF StartSchedule, TakeCurrent, EndRunning, CheckBudget, Execute, EndOutputs,
                EndForks, LoraKeyError, ReturningHasMoreTokens, Fail, vars
  <2>4. QED
    BY <2>1, <2>2, <2>3
<1>2. UNCHANGED <<queueVars, resultVars>>
  BY DEF StartSchedule, TakeCurrent, EndRunning, CheckBudget, Execute, EndOutputs, EndForks,
         LoraKeyError, ReturningHasMoreTokens, AppendSlotsOfCurrent, AppendSlotsOfReturning,
         EndChunk, Continue, Fail, roundVars
<1>3. Passes
  BY DEF StartSchedule, TakeCurrent, EndRunning, CheckBudget, Execute, EndOutputs, EndForks,
         LoraKeyError, ReturningHasMoreTokens, AppendSlotsOfCurrent, AppendSlotsOfReturning,
         EndChunk, Continue, Fail, Passes, At, Failures
<1>4. QED
  BY <1>1, <1>2, <1>3, PassKeeps DEF IInv

\* Every action is a call of the block manager or leaves it alone.
LEMMA ActionsCallManager ==
    ASSUME IInv, QueuesOK, Working, EngineStep \/ Client
    PROVE  [Next]_vars
<1>1. CASE IgnorePrompt
  <2>1. waiting # << >> /\ Finish({Prompt})
    BY <1>1 DEF IgnorePrompt, Prefilling
  <2>2. PICK g \in Groups : g = Head(waiting) /\ Unfinished(g) = {Prompt}
    BY <2>1, HeadOfWaiting
  <2>3. Abort(g)
    BY <2>1, <2>2 DEF Abort
  <2>4. QED
    BY <2>3 DEF Next, GroupStep
<1>2. CASE AdmitPrompt
  <2>1. waiting # << >> /\ Allocate(Head(waiting))
    BY <1>2 DEF AdmitPrompt, Prefilling
  <2>2. Head(waiting) \in Groups
    BY <2>1, HeadOfWaiting
  <2>3. QED
    BY <2>1, <2>2 DEF Next, GroupStep
<1>3. CASE RecomputeYoungest \/ SwapOutYoungest
  <2>1. PICK g \in Groups : g = Victim
    BY <1>3, GiveUpMoves DEF RecomputeYoungest, SwapOutYoungest, IInv
  <2>2. PreemptByRecompute(g) \/ PreemptBySwap(g)
    BY <1>3, <2>1 DEF RecomputeYoungest, SwapOutYoungest
  <2>3. QED
    BY <2>2 DEF Next, GroupStep
<1>4. CASE SwapInOldest
  <2>1. swapped # {} /\ pc # "trim" /\ SwapIn(Returning)
    BY <1>4 DEF SwapInOldest, Swapping, At
  <2>2. Returning \in Groups
    BY <2>1, QueuedArrived DEF IInv, QueuesOK, QueueTypes
  <2>3. QED
    BY <2>1, <2>2 DEF Next, GroupStep
<1>5. ASSUME NEW s \in Seqs, AppendSlotsOfCurrent(s) \/ AppendSlotsOfReturning(s)
      PROVE  [Next]_vars
  BY <1>5 DEF AppendSlotsOfCurrent, AppendSlotsOfReturning, Next, SeqStep
<1>6. ASSUME NEW s \in Seqs, EndChunk(s) \/ Continue(s) \/ DropParent(s)
      PROVE  [Next]_vars
  BY <1>6 DEF EndChunk, Continue, DropParent, Next, SeqStep
<1>7. ASSUME NEW s \in Seqs, StopSeq(s) \/ DropUnselected(s)
      PROVE  [Next]_vars
  BY <1>7 DEF StopSeq, DropUnselected, Next, SeqStep
<1>8. ASSUME NEW p \in Seqs, NEW c \in Seqs, ForkChild(p, c)
      PROVE  [Next]_vars
  BY <1>8 DEF ForkChild, Next, SeqStep
<1>9. ASSUME NEW g \in Groups, AddGroup(g) \/ AbortGroup(g)
      PROVE  [Next]_vars
  BY <1>9 DEF AddGroup, AbortGroup, Next, GroupStep
<1>10. CASE \/ StartSchedule \/ SkipPrompt \/ EndPrefills \/ TakeCurrent
            \/ CurrentIsScheduled \/ EndRunning
  BY <1>10 DEF StartSchedule, SkipPrompt, EndPrefills, TakeCurrent, CurrentIsScheduled, EndRunning
<1>11. CASE \/ SkipSwapped \/ ReturningIsScheduled \/ EndSwapped \/ CheckBudget
            \/ EndSchedule \/ ScheduleFails
  BY <1>11 DEF SkipSwapped, ReturningIsScheduled, EndSwapped, CheckBudget, EndSchedule,
               ScheduleFails, LoraKeyError, ReturningHasMoreTokens, Fail
<1>12. CASE Execute \/ EndOutputs \/ EndForks \/ EndStep
  BY <1>12 DEF Execute, EndOutputs, EndForks, EndStep
<1>13. CASE Schedule
  BY <1>13, <1>1, <1>2, <1>3, <1>4, <1>5, <1>10, <1>11 DEF Schedule
<1>14. CASE ProcessOutputs
  BY <1>14, <1>6, <1>7, <1>8, <1>12 DEF ProcessOutputs
<1>15. CASE Client
  BY <1>15, <1>9 DEF Client
<1>16. CASE ScheduleFails
  BY <1>16, <1>11
<1>17. QED
  BY <1>13, <1>14, <1>15, <1>16 DEF EngineStep

LEMMA ActionsKeepQueues ==
    ASSUME IInv, QueuesOK, Working, EngineStep \/ Client
    PROVE  QueuesOK'
<1>1. ASSUME NEW s \in Seqs, \/ AppendSlotsOfCurrent(s) \/ AppendSlotsOfReturning(s)
                             \/ EndChunk(s) \/ Continue(s)
      PROVE  QueuesOK'
  BY <1>1, PassingActions
<1>2. ASSUME NEW s \in Seqs, StopSeq(s) \/ DropUnselected(s) \/ DropParent(s)
      PROVE  QueuesOK'
  BY <1>2, TrimKeeps, DropParentKeeps
<1>3. ASSUME NEW p \in Seqs, NEW c \in Seqs, ForkChild(p, c)
      PROVE  QueuesOK'
  BY <1>3, ForkChildKeeps
<1>4. CASE \/ StartSchedule \/ TakeCurrent \/ EndRunning \/ CheckBudget \/ Execute
           \/ EndOutputs \/ EndForks \/ ScheduleFails
  BY <1>4, PassingActions DEF ScheduleFails
<1>5. CASE \/ IgnorePrompt \/ SkipPrompt \/ AdmitPrompt \/ EndPrefills
           \/ CurrentIsScheduled \/ RecomputeYoungest \/ SwapOutYoungest
  BY <1>5, IgnorePromptKeeps, SkipPromptKeeps, AdmitPromptKeeps, EndPrefillsKeeps,
     CurrentIsScheduledKeeps, RecomputeYoungestKeeps, SwapOutYoungestKeeps DEF IInv
<1>6. CASE \/ SkipSwapped \/ SwapInOldest \/ ReturningIsScheduled \/ EndSwapped
           \/ EndSchedule \/ EndStep
  BY <1>6, SkipSwappedKeeps, SwapInOldestKeeps, ReturningIsScheduledKeeps, EndSwappedKeeps,
     EndScheduleKeeps, EndStepKeeps DEF IInv
<1>7. CASE Schedule
  BY <1>7, <1>1, <1>4, <1>5, <1>6 DEF Schedule
<1>8. CASE ProcessOutputs
  BY <1>8, <1>1, <1>2, <1>3, <1>4, <1>6 DEF ProcessOutputs
<1>9. CASE Client
  <2>1. PICK g \in Groups : AddGroup(g) \/ AbortGroup(g)
    BY <1>9 DEF Client
  <2>2. QED
    BY <2>1, AddGroupKeeps, AbortGroupKeeps DEF IInv
<1>10. CASE ScheduleFails
  BY <1>10, <1>4
<1>11. QED
  BY <1>7, <1>8, <1>9, <1>10 DEF EngineStep

\* Nothing is done after a failure.
LEMMA ActionsWork ==
    ASSUME EngineStep \/ Client
    PROVE  Working
<1>1. CASE Schedule \/ ScheduleFails
  BY <1>1 DEF Schedule, ScheduleFails, StartSchedule, IgnorePrompt, SkipPrompt, AdmitPrompt,
     EndPrefills, TakeCurrent, CurrentIsScheduled, RecomputeYoungest, SwapOutYoungest,
     EndRunning, SkipSwapped, SwapInOldest, ReturningIsScheduled, EndSwapped,
     AppendSlotsOfCurrent, AppendSlotsOfReturning, CheckBudget, EndSchedule, LoraKeyError,
     ReturningHasMoreTokens, Prefilling, NoRoom, Decoding, Swapping, At, Working, Phases
<1>2. CASE ProcessOutputs
  BY <1>2 DEF ProcessOutputs, Execute, EndOutputs, EndForks, EndStep, EndChunk, Continue,
     DropParent, StopSeq, DropUnselected, ForkChild, At, Working, Phases
<1>3. CASE Client
  BY <1>3 DEF Client, AddGroup, AbortGroup, At, Working, Phases
<1>4. QED
  BY <1>1, <1>2, <1>3 DEF EngineStep

LEMMA InitQueuesOK ==
    ASSUME WindowsAreUnshared, SchedulerInit
    PROVE  IInv /\ QueuesOK
<1>1. IInv
  BY InitIInv DEF SchedulerInit
<1>2. /\ pc = "idle" /\ arrivals = << >> /\ waiting = << >> /\ running = {} /\ swapped = {}
      /\ batch = {} /\ preempted = << >> /\ swappedOut = {} /\ leftover = << >>
      /\ \A s \in Seqs : status[s] = "UNUSED"
  BY DEF SchedulerInit, Init, SequencesInit
<1>3. Range(<< >>) = {} /\ IsInjective(<< >>) /\ << >> \in Seq(Groups)
  BY DEF Range, IsInjective
<1>4. QueueTypes
  BY <1>2, <1>3 DEF QueueTypes
<1>5. Waiters = {} /\ Runners = {} /\ Sleepers = {}
  BY <1>2, <1>3 DEF Waiters, Runners, Sleepers
<1>6. PlacesInv /\ StatusInv
  BY <1>2, <1>5 DEF PlacesInv, StatusInv
<1>7. ArrivalsInv /\ ApartInv /\ PhaseInv
  BY <1>2, <1>3 DEF ArrivalsInv, ApartInv, PhaseInv, Unfinished, Members
<1>8. QED
  BY <1>1, <1>4, <1>6, <1>7 DEF QueuesOK, QueueInv

LEMMA NextQueuesOK ==
    ASSUME WindowsAreUnshared, IInv, QueuesOK, [SchedulerNext]_schedulerVars
    PROVE  (IInv /\ QueuesOK)' /\ [Next]_vars
<1>1. CASE EngineStep \/ Client
  <2>1. Working
    BY <1>1, ActionsWork
  <2>2. [Next]_vars
    BY <1>1, <2>1, ActionsCallManager
  <2>3. IInv'
    BY <2>2, NextIInv, SchedulerAssumption DEF OnlyBeamsBranch
  <2>4. QueuesOK'
    BY <1>1, <2>1, ActionsKeepQueues
  <2>5. QED
    BY <2>2, <2>3, <2>4
<1>2. CASE UNCHANGED schedulerVars
  <2>1. UNCHANGED vars
    BY <1>2 DEF schedulerVars
  <2>2. IInv'
    BY <2>1, NextIInv, SchedulerAssumption DEF OnlyBeamsBranch
  <2>3. /\ arrivals' = arrivals /\ waiting' = waiting /\ running' = running
        /\ swapped' = swapped /\ batch' = batch /\ preempted' = preempted
        /\ swappedOut' = swappedOut /\ leftover' = leftover /\ pc' = pc
        /\ status' = status /\ err' = err
    BY <1>2 DEF schedulerVars, vars, queueVars, roundVars, resultVars
  <2>4. UNCHANGED <<queueVars, resultVars>> /\ Passes
    BY <2>3 DEF Passes, queueVars, resultVars
  <2>5. ASSUME Working PROVE QueuesOK'
    BY <2>3, <2>4, <2>5, PassKeeps DEF IInv
  <2>6. ASSUME ~Working PROVE QueuesOK'
    <3>1. ~Working'
      BY <2>3, <2>6 DEF Working, Alive
    <3>2. QueueTypes'
      BY <2>3 DEF QueuesOK, QueueTypes
    <3>3. QED
      BY <3>1, <3>2 DEF QueuesOK, QueueInv
  <2>7. QED
    BY <2>1, <2>2, <2>5, <2>6
<1>3. QED
  BY <1>1, <1>2 DEF SchedulerNext, Stopped

LEMMA QueuesOKMatches ==
    ASSUME IInv, QueuesOK
    PROVE  QueuesMatchStatuses
<1>1. SUFFICES ASSUME At("idle")
               PROVE  /\ IsInjective(arrivals) /\ IsInjective(waiting)
                      /\ Range(arrivals) = {g \in Groups : Unfinished(g) # {}}
                      /\ Range(waiting) = {g \in Groups : SeqsWith(g, "WAITING") # {}}
                      /\ running = {g \in Groups : SeqsWith(g, "RUNNING") # {}}
                      /\ swapped = {g \in Groups : SeqsWith(g, "SWAPPED") # {}}
                      /\ Range(waiting) \cap (running \cup swapped) = {}
                      /\ running \cap swapped = {}
                      /\ \A g \in Range(waiting) : Cardinality(SeqsWith(g, "WAITING")) = 1
  BY DEF QueuesMatchStatuses
<1>2. Working /\ pc = "idle"
  BY <1>1 DEF At, Working, Phases
<1>3. PlacesInv /\ StatusInv /\ ArrivalsInv /\ ApartInv /\ PhaseInv /\ QueueTypes
  BY <1>2 DEF QueuesOK, QueueInv
<1>4. Waiters = Range(waiting) /\ Runners = running /\ Sleepers = swapped
  <2>1. preempted = << >> /\ swappedOut = {} /\ batch = {} /\ Range(<< >>) = {}
    BY <1>2, <1>3 DEF PhaseInv, Range
  <2>2. QED
    BY <1>2, <2>1 DEF Waiters, Runners, Sleepers
<1>5. /\ \A g : ~HasReturned(g)
      /\ Range(waiting) \cap (running \cup swapped) = {} /\ running \cap swapped = {}
  BY <1>2, <1>3, <1>4, OnePlace
<1>6. /\ \A g \in Range(waiting) : AllAre(g, "WAITING")
      /\ \A g \in running : AllAre(g, "RUNNING")
      /\ \A g \in swapped : AllAre(g, "SWAPPED")
  BY <1>2, <1>3, <1>4, <1>5 DEF PlacesInv, AllAre
<1>7. /\ Range(waiting) \subseteq Groups /\ running \subseteq Groups /\ swapped \subseteq Groups
      /\ Range(arrivals) \subseteq Groups
  BY <1>3 DEF QueueTypes, Range
<1>8. /\ Range(waiting) = {g \in Groups : SeqsWith(g, "WAITING") # {}}
      /\ running = {g \in Groups : SeqsWith(g, "RUNNING") # {}}
      /\ swapped = {g \in Groups : SeqsWith(g, "SWAPPED") # {}}
  <2>1. ASSUME NEW g \in Groups
        PROVE  /\ SeqsWith(g, "WAITING") # {} => g \in Range(waiting)
               /\ SeqsWith(g, "RUNNING") # {} => g \in running
               /\ SeqsWith(g, "SWAPPED") # {} => g \in swapped
    BY <1>3, <1>4, <1>5 DEF StatusInv, SeqsWith
  <2>2. QED
    BY <1>6, <1>7, <2>1 DEF AllAre
<1>9. Range(arrivals) = {g \in Groups : Unfinished(g) # {}}
  BY <1>2, <1>3, <1>7 DEF ArrivalsInv
<1>10. ASSUME NEW g \in Range(waiting)
       PROVE  Cardinality(SeqsWith(g, "WAITING")) = 1
  <2>1. PICK s \in Seqs : SeqsWith(g, "WAITING") = {s}
    BY <1>6, <1>10, WaitingGroup
  <2>2. QED
    BY <2>1, FS_Singleton
<1>11. QED
  BY <1>3, <1>5, <1>8, <1>9, <1>10 DEF ArrivalsInv, ApartInv

\* Between two steps every unfinished request is in exactly one queue, the one
\* its sequences have the status of, whatever was preempted, swapped, aborted,
\* skipped or finished in the rounds before (schedule, abort_seq_group,
\* free_finished_seq_groups).
THEOREM QueuesAgree ==
    ASSUME WindowsAreUnshared
    PROVE  SchedulerSpec => []QueuesMatchStatuses
<1>1. SchedulerInit => IInv /\ QueuesOK
  BY InitQueuesOK
<1>2. IInv /\ QueuesOK /\ [SchedulerNext]_schedulerVars => (IInv /\ QueuesOK)'
  BY NextQueuesOK
<1>3. IInv /\ QueuesOK => QueuesMatchStatuses
  BY QueuesOKMatches
<1>4. QED
  BY <1>1, <1>2, <1>3, PTL DEF SchedulerSpec

\* The engine calls the block manager only as BlockManagerV1 allows: every
\* behaviour of the scheduler is one of the block manager, so that what is
\* proved of BlockManagerV1 holds under the scheduler.
THEOREM SchedulerDrivesManager ==
    ASSUME WindowsAreUnshared
    PROVE  SchedulerSpec => Spec
<1>1. SchedulerInit => Init /\ IInv /\ QueuesOK
  BY InitQueuesOK DEF SchedulerInit
<1>2. IInv /\ QueuesOK /\ [SchedulerNext]_schedulerVars => (IInv /\ QueuesOK)' /\ [Next]_vars
  BY NextQueuesOK
<1>3. QED
  BY <1>1, <1>2, PTL DEF SchedulerSpec, Spec
-----------------------------------------------------------------------------
(***************************************************************************)
(* What the blocks of a sequence hold.  IInv says that a table is at most  *)
(* one block short; it is short only by the token sampled last.            *)
(***************************************************************************)
Placed(s) == status[s] \in {"RUNNING", "SWAPPED"}

\* The blocks of a sequence hold all its tokens but the last one.
StoredInv == \A s \in Seqs : Placed(s) => len[s] - 1 <= BlockSize * Len(blockTables[s])

\* The logical blocks hold all tokens.
LEMMA NumBlocksCover ==
    ASSUME NEW n \in Nat
    PROVE  n <= BlockSize * ((n + BlockSize - 1) \div BlockSize)
BY SequenceGroupsAssumption

\* A table that is not short holds all tokens, with the slot of the next pass.
LEMMA FullTable ==
    ASSUME TypeOK, NEW s \in Seqs, Len(blockTables[s]) = NumLogicalBlocks(s)
    PROVE  len[s] <= BlockSize * Len(blockTables[s])
<1>1. len[s] \in Nat
  BY DEF TypeOK, SequencesTypeOK
<1>2. QED
  BY <1>1, NumBlocksCover DEF NumLogicalBlocks

\* A sequence that keeps its length and its number of blocks.
SameExtent(s) == len'[s] = len[s] /\ Len(blockTables'[s]) = Len(blockTables[s])

LEMMA MovedExtent ==
    ASSUME IInv, IInv', NEW S \in SUBSET Seqs, NEW free, MoveTables(S, free), len' = len,
           NEW s \in Seqs
    PROVE  SameExtent(s)
<1>1. blockTables'[s] = blockTables[s] \/ DOMAIN blockTables'[s] = DOMAIN blockTables[s]
  BY DEF MoveTables
<1>2. blockTables[s] \in Seq(Blocks) /\ blockTables'[s] \in Seq(Blocks)
  BY DEF IInv, TypeOK
<1>3. QED
  BY <1>1, <1>2 DEF SameExtent

\* Every step leaves a sequence placed as it was with its extent, gives it a
\* slot, or gives it the token it had a slot for.
LEMMA ExtentStep ==
    ASSUME IInv, IInv', [Next]_vars, NEW s \in Seqs, Placed(s)'
    PROVE  \/ s \in scheduled'
           \/ Placed(s) /\ SameExtent(s)
           \/ s \in scheduled /\ len'[s] = len[s] + 1 /\ blockTables' = blockTables
           \/ \E p \in Seqs : /\ status[p] = "RUNNING" /\ p # s
                              /\ len'[s] = len[p] /\ blockTables'[s] = blockTables[p]
<1>1. ASSUME NEW g \in Groups, AddRequest(g)
      PROVE  Placed(s) /\ SameExtent(s)
  BY <1>1 DEF AddRequest, blockVars, Placed, SameExtent
<1>2. ASSUME NEW g \in Groups, Allocate(g)
      PROVE  s \in scheduled' \/ (Placed(s) /\ SameExtent(s))
  <2>1. CASE err' = err
    BY <1>2, <2>1 DEF Allocate, AllocateTables, SetStatus, Placed, SameExtent, Raise,
       Scheduling, Ready, Alive
  <2>2. CASE err' # err
    BY <1>2, <2>2 DEF Allocate, Raise, blockVars, Placed, SameExtent
  <2>3. QED
    BY <2>1, <2>2
<1>3. ASSUME NEW g \in Groups, PreemptByRecompute(g)
      PROVE  Placed(s) /\ SameExtent(s)
  <2>1. CASE err' = err
    <3>1. /\ SetStatus(SeqsWith(g, "RUNNING"), "WAITING")
          /\ FreeTables(SeqsWith(g, "RUNNING")) /\ len' = len
      BY <1>3, <2>1 DEF PreemptByRecompute, Raise, Scheduling, Ready, Alive
    <3>2. QED
      BY <3>1 DEF SetStatus, FreeTables, Placed, SameExtent
  <2>2. CASE err' # err
    BY <1>3, <2>2 DEF PreemptByRecompute, Raise, blockVars, Placed, SameExtent
  <2>3. QED
    BY <2>1, <2>2
<1>4. ASSUME NEW g \in Groups, PreemptBySwap(g)
      PROVE  Placed(s) /\ SameExtent(s)
  <2>1. CASE err' = err
    <3>1. /\ SetStatus(SeqsWith(g, "RUNNING"), "SWAPPED")
          /\ MoveTables(SeqsWith(g, "RUNNING"), CpuFree) /\ len' = len
      BY <1>4, <2>1 DEF PreemptBySwap, MoveError, Raise, Scheduling, Ready, Alive
    <3>2. SameExtent(s)
      BY <3>1, MovedExtent DEF SeqsWith
    <3>3. QED
      BY <3>1, <3>2 DEF SetStatus, Placed, SeqsWith
  <2>2. CASE err' # err
    BY <1>4, <2>2 DEF PreemptBySwap, MoveError, Raise, blockVars, Placed, SameExtent
  <2>3. QED
    BY <2>1, <2>2
<1>5. ASSUME NEW g \in Groups, SwapIn(g)
      PROVE  Placed(s) /\ SameExtent(s)
  <2>1. CASE err' = err
    <3>1. /\ SetStatus(SeqsWith(g, "SWAPPED"), "RUNNING")
          /\ MoveTables(SeqsWith(g, "SWAPPED"), GpuFree) /\ len' = len
      BY <1>5, <2>1 DEF SwapIn, MoveError, Raise, Scheduling, Ready, Alive
    <3>2. SameExtent(s)
      BY <3>1, MovedExtent DEF SeqsWith
    <3>3. QED
      BY <3>1, <3>2 DEF SetStatus, Placed, SeqsWith
  <2>2. CASE err' # err
    BY <1>5, <2>2 DEF SwapIn, MoveError, Raise, blockVars, Placed, SameExtent
  <2>3. QED
    BY <2>1, <2>2
<1>6. ASSUME NEW S \in SUBSET Seqs, Finish(S)
      PROVE  Placed(s) /\ SameExtent(s)
  BY <1>6 DEF Finish, FreeTables, SetStatus, Raise, blockVars, Placed, SameExtent
<1>7. ASSUME NEW q \in Seqs, AppendSlots(q)
      PROVE  s \in scheduled' \/ (Placed(s) /\ SameExtent(s))
  BY <1>7 DEF AppendSlots, AppendNewBlock, AppendInPlace, AppendCopyOnWrite, CopyLastBlock,
              AppendError, Raise, blockVars, Placed, SameExtent, IInv, TypeOK
<1>8. ASSUME NEW q \in Seqs, AppendToken(q)
      PROVE  \/ Placed(s) /\ SameExtent(s)
             \/ s \in scheduled /\ len'[s] = len[s] + 1 /\ blockTables' = blockTables
  BY <1>8 DEF AppendToken, Ran, blockVars, Placed, SameExtent, IInv, TypeOK, SequencesTypeOK
<1>9. ASSUME NEW q \in Seqs, SkipSample(q)
      PROVE  Placed(s) /\ SameExtent(s)
  BY <1>9 DEF SkipSample, blockVars, Placed, SameExtent
<1>10. ASSUME NEW q \in Seqs, RemoveSeq(q)
       PROVE  Placed(s) /\ SameExtent(s)
  BY <1>10 DEF RemoveSeq, FreeTables, SetStatus, Raise, blockVars, Placed, SameExtent,
               IInv, TypeOK, SequencesTypeOK
<1>11. ASSUME NEW p \in Seqs, NEW c \in Seqs, Fork(p, c)
       PROVE  \/ Placed(s) /\ SameExtent(s)
              \/ \E q \in Seqs : /\ status[q] = "RUNNING" /\ q # s
                                 /\ len'[s] = len[q] /\ blockTables'[s] = blockTables[q]
  <2>1. /\ status[p] = "RUNNING" /\ status[c] = "UNUSED" /\ len' = [len EXCEPT ![c] = len[p]]
        /\ \/ SetStatus({c}, "RUNNING") /\ blockTables' = [blockTables EXCEPT ![c] = blockTables[p]]
           \/ SetStatus({c}, "FINISHED") /\ blockTables' = blockTables
    BY <1>11 DEF Fork, ForkTable, blockVars
  <2>2. CASE s = c
    BY <2>1, <2>2 DEF SetStatus, Placed, IInv, TypeOK, SequencesTypeOK
  <2>3. CASE s # c
    BY <2>1, <2>3 DEF SetStatus, Placed, SameExtent, IInv, TypeOK, SequencesTypeOK
  <2>4. QED
    BY <2>2, <2>3
<1>12. CASE \E g \in Groups : GroupStep(g)
  BY <1>12, <1>1, <1>2, <1>3, <1>4, <1>5, <1>6 DEF GroupStep, Abort, Unfinished, Members
<1>13. CASE \E q \in Seqs : SeqStep(q)
  <2>1. PICK q \in Seqs : SeqStep(q)
    BY <1>13
  <2>2. CASE Stop(q)
    BY <2>2, <1>6 DEF Stop
  <2>3. QED
    BY <2>1, <2>2, <1>7, <1>8, <1>9, <1>10, <1>11 DEF SeqStep
<1>14. CASE UNCHANGED vars
  BY <1>14 DEF vars, Placed, SameExtent
<1>15. QED
  BY <1>12, <1>13, <1>14 DEF Next

LEMMA StoredKept ==
    ASSUME IInv, IInv', [Next]_vars, StoredInv
    PROVE  StoredInv'
<1>1. SUFFICES ASSUME NEW s \in Seqs, Placed(s)'
               PROVE  len'[s] - 1 <= BlockSize * Len(blockTables'[s])
  BY DEF StoredInv
<1>2. /\ len[s] \in Nat /\ len'[s] \in Nat
      /\ BlockSize * Len(blockTables'[s]) \in Nat
  BY SequenceGroupsAssumption DEF IInv, TypeOK, SequencesTypeOK
<1>3. CASE s \in scheduled'
  <2>1. len'[s] <= BlockSize * Len(blockTables'[s])
    <3>1. (Len(blockTables[s]) = NumLogicalBlocks(s))'
      BY <1>3 DEF IInv, FitInv
    <3>2. QED
      BY <1>2, <3>1, NumBlocksCover DEF NumLogicalBlocks
  <2>2. QED
    BY <1>2, <2>1
<1>4. CASE Placed(s) /\ SameExtent(s)
  BY <1>4 DEF StoredInv, SameExtent
<1>5. CASE s \in scheduled /\ len'[s] = len[s] + 1 /\ blockTables' = blockTables
  <2>1. len[s] <= BlockSize * Len(blockTables[s])
    BY <1>5, FullTable DEF IInv, FitInv
  <2>2. QED
    BY <1>2, <1>5, <2>1
<1>6. CASE \E p \in Seqs : /\ status[p] = "RUNNING" /\ p # s
                           /\ len'[s] = len[p] /\ blockTables'[s] = blockTables[p]
  BY <1>6 DEF StoredInv, Placed
<1>7. QED
  BY <1>1, <1>3, <1>4, <1>5, <1>6, ExtentStep
-----------------------------------------------------------------------------
(***************************************************************************)
(* How far a sequence is computed, and what the budget says of it          *)
(***************************************************************************)
\* A sequence is computed to its end only between the forward pass and the
\* sampling of the next token.  A prompt in progress is alone in its group.
ProgressOf(s) ==
    /\ status[s] \in {"UNUSED", "WAITING"} => computed[s] = 0 /\ stage[s] = "PREFILL"
    /\ Placed(s) => computed[s] <= len[s]
    /\ Placed(s) /\ computed[s] = len[s] => pc = "outputs" /\ s \in scheduled
    /\ Placed(s) /\ stage[s] = "DECODE" => computed[s] >= len[s] - 1
    /\ Placed(s) /\ stage[s] = "PREFILL" => computed[s] < len[s] /\ Unfinished(GroupOf[s]) = {s}
    /\ status[s] = "RUNNING" /\ s \in sampled => stage[s] = "DECODE"
ProgressInv == \A s \in Seqs : ProgressOf(s)

ProgressTypes ==
    /\ policy \in Policies
    /\ pc \in Phases \cup Failures
    /\ computed \in [Seqs -> Nat] /\ stage \in [Seqs -> {"PREFILL", "DECODE"}]
    /\ tokenBudget \in [Groups -> Int] /\ seqBudget \in [Groups -> Nat]
    /\ currLoras \subseteq Nat

\* A prompt in progress has no more tokens in the budget than it has left, and
\* only scheduled groups have any.
Unplaced(s) == status[s] \in {"UNUSED", "FINISHED"}
Covered(s) ==
    ~Unplaced(s) /\ stage[s] = "PREFILL" => tokenBudget[GroupOf[s]] <= len[s] - computed[s]
Counted(g) == tokenBudget[g] # 0 => /\ pc \notin {"idle", "outputs", "forks", "trim"}
                                    /\ g \in batch \/ HasReturned(g)

BudgetInv ==
    Working => /\ \A s \in Seqs : Covered(s)
               /\ \A g \in Groups : Counted(g)
               /\ pc \in {"queues", "execute"} => ~NegativeChunk
               /\ pc \in {"idle", "forks", "trim"} => scheduled = {}

\* The sequences that a step leaves as far as they are.
SameProgress(s) ==
    /\ status'[s] = status[s] /\ len'[s] = len[s]
    /\ computed'[s] = computed[s] /\ stage'[s] = stage[s]

LEMMA ProgressStays ==
    ASSUME NEW s \in Seqs, ProgressOf(s), SameProgress(s),
           stage[s] = "PREFILL" /\ Placed(s) =>
               Unfinished(GroupOf[s])' \subseteq Unfinished(GroupOf[s]),
           status[s] = "RUNNING" /\ s \in sampled' => s \in sampled,
           Placed(s) /\ computed[s] = len[s] => pc' = "outputs" /\ s \in scheduled'
    PROVE  ProgressOf(s)'
<1>1. Placed(s)' <=> Placed(s)
  BY DEF SameProgress, Placed
<1>2. stage[s] = "PREFILL" /\ Placed(s) => Unfinished(GroupOf[s])' = {s}
  <2>1. Placed(s) => s \in Unfinished(GroupOf[s])'
    BY DEF SameProgress, Placed, Unfinished, Members
  <2>2. QED
    BY <2>1 DEF ProgressOf
<1>3. QED
  BY <1>1, <1>2 DEF ProgressOf, SameProgress

\* A sequence that is finished, or no sequence of the group any more.
LEMMA GoneProgress ==
    ASSUME NEW s \in Seqs,
           \/ status'[s] = "FINISHED"
           \/ status'[s] \in {"UNUSED", "WAITING"} /\ computed'[s] = 0 /\ stage'[s] = "PREFILL"
    PROVE  ProgressOf(s)'
BY DEF ProgressOf, Placed

\* The tokens a group may be scheduled for, in the whole and in chunks.
LEMMA NewTokensAre ==
    ASSUME TypeOK, ProgressTypes, NEW g, NEW st
    PROVE  /\ NewTokens(g, st) \in Int
           /\ \A s \in Seqs : SeqsWith(g, st) = {s} => NewTokens(g, st) = len[s] - computed[s]
<1> DEFINE f == [s \in Seqs |-> len[s] - computed[s]]
           S == SeqsWith(g, st)
<1>1. IsFiniteSet(S) /\ S \subseteq Seqs
  BY SeqSetsFinite DEF SeqsWith
<1>2. \A s \in Seqs : f[s] \in Int /\ f[s] = len[s] - computed[s]
  BY DEF TypeOK, SequencesTypeOK, ProgressTypes
<1>3. NewTokens(g, st) = SumOver(f, S)
  BY DEF NewTokens
<1> HIDE DEF f, S
<1>4. NewTokens(g, st) \in Int
  BY <1>1, <1>2, <1>3, SumRemoves
<1>5. \A s \in Seqs : S = {s} => NewTokens(g, st) = len[s] - computed[s]
  BY <1>2, <1>3, SumOfOne
<1>6. QED
  BY <1>4, <1>5 DEF S

\* There are no more groups than prompt sequences.
LEMMA GroupsFinite == IsFiniteSet(Groups)
<1>1. Parent \in Injection(Groups, Seqs)
  BY SequenceGroupsAssumption DEF Injection, IsInjective
<1>2. QED
  BY <1>1, FS_Injection, SequenceGroupsAssumption

LEMMA TotalIs ==
    ASSUME NEW budget \in [Groups -> Int]
    PROVE  Total(budget) \in Int
BY GroupsFinite, SumRemoves DEF Total

LEMMA ChunkedNewTokensAre ==
    ASSUME TypeOK, ProgressTypes, NEW g, NEW st
    PROVE  /\ ChunkedNewTokens(g, st) \in Int
           /\ \A s \in Seqs : SeqsWith(g, st) = {s} =>
                ChunkedNewTokens(g, st) <= len[s] - computed[s]
           /\ ~ChunkedPrefill => ChunkedNewTokens(g, st) = NewTokens(g, st)
<1>1. NewTokens(g, st) \in Int /\ Total(tokenBudget) \in Int /\ MaxNumBatchedTokens \in Int
  BY NewTokensAre, TotalIs, SchedulerAssumption DEF ProgressTypes
<1>2. /\ ChunkedNewTokens(g, st) \in Int /\ ChunkedNewTokens(g, st) <= NewTokens(g, st)
      /\ ~ChunkedPrefill => ChunkedNewTokens(g, st) = NewTokens(g, st)
  BY <1>1 DEF ChunkedNewTokens, MinOf
<1>3. QED
  BY <1>1, <1>2, NewTokensAre

LEMMA RunningSeqsType ==
    ASSUME NEW g \in Groups
    PROVE  MaxNumRunningSeqs(g) \in Nat
<1>1. Unfinished(g) \in SUBSET Seqs
  BY DEF Unfinished, Members
<1>2. QED
  BY <1>1, SeqSetsFinite, SequenceGroupsAssumption DEF MaxNumRunningSeqs
-----------------------------------------------------------------------------
(***************************************************************************)
(* The actions, one kind after the other                                   *)
(***************************************************************************)
ProgressOK == ProgressTypes /\ ProgressInv /\ BudgetInv

\* Steps that change nothing but queues, the phase and the other budgets.
LEMMA StillKeeps ==
    ASSUME ProgressOK, Working, UNCHANGED <<vars, progress, tokenBudget, policy>>,
           pc' \in Phases \cup Failures,
           seqBudget' \in [Groups -> Nat], currLoras' \subseteq Nat,
           pc = "outputs" => pc' = "outputs" \/ scheduled = {},
           Working' => \A g \in Groups : Counted(g)',
           Working' /\ pc' \in {"queues", "execute"} => ~NegativeChunk,
           Working' /\ pc' \in {"idle", "forks", "trim"} => scheduled = {}
    PROVE  ProgressOK'
<1>1. /\ status' = status /\ len' = len /\ scheduled' = scheduled /\ sampled' = sampled
      /\ computed' = computed /\ stage' = stage /\ err' = err
      /\ tokenBudget' = tokenBudget /\ policy' = policy
  BY DEF vars, progress
<1>2. ProgressTypes /\ ProgressInv /\ BudgetInv
  BY DEF ProgressOK
<1>3. ProgressTypes'
  BY <1>1, <1>2 DEF ProgressTypes
<1>4. ProgressInv'
  <2>1. SUFFICES ASSUME NEW s \in Seqs PROVE ProgressOf(s)'
    BY DEF ProgressInv
  <2>2. SameProgress(s) /\ Unfinished(GroupOf[s])' = Unfinished(GroupOf[s])
    BY <1>1, SameStatus DEF SameProgress
  <2>3. Placed(s) /\ computed[s] = len[s] => pc' = "outputs" /\ s \in scheduled'
    BY <1>1, <1>2 DEF ProgressInv, ProgressOf
  <2>4. ProgressOf(s)
    BY <1>2 DEF ProgressInv
  <2>5. QED
    BY <1>1, <2>2, <2>3, <2>4, ProgressStays
<1>5. ASSUME NEW s \in Seqs, Covered(s) PROVE Covered(s)'
  BY <1>1, <1>5 DEF Covered, Unplaced
<1>6. CASE ~Working'
  BY <1>3, <1>4, <1>6 DEF ProgressOK, BudgetInv
<1>7. CASE Working'
  <2>1. \A s \in Seqs : Covered(s)'
    BY <1>2, <1>5 DEF BudgetInv
  <2>2. NegativeChunk' <=> NegativeChunk
    BY <1>1 DEF NegativeChunk, Chunk
  <2>3. BudgetInv'
    BY <1>1, <1>7, <2>1, <2>2 DEF BudgetInv
  <2>4. QED
    BY <1>3, <1>4, <2>3 DEF ProgressOK
<1>8. QED
  BY <1>6, <1>7

\* The budget of the groups scheduled stays theirs.
LEMMA CountedStays ==
    ASSUME ProgressOK, Working, tokenBudget' = tokenBudget,
           \/ pc \in {"idle", "outputs", "forks", "trim"}
           \/ /\ pc' \notin {"idle", "outputs", "forks", "trim"} /\ batch \subseteq batch'
              /\ \A g : HasReturned(g) => HasReturned(g)' \/ g \in batch'
    PROVE  \A g \in Groups : Counted(g)'
BY DEF ProgressOK, BudgetInv, Counted

LEMMA StillActions ==
    ASSUME TypeOK, QueuesOK, ProgressOK, Working, UNCHANGED policy,
           \/ StartSchedule \/ SkipPrompt \/ EndPrefills \/ TakeCurrent \/ EndRunning
           \/ SkipSwapped \/ EndSwapped \/ CheckBudget \/ EndSchedule
           \/ ReturningIsScheduled \/ EndOutputs \/ EndForks \/ EndStep
           \/ LoraKeyError \/ ReturningHasMoreTokens
    PROVE  ProgressOK'
<1>1. ProgressTypes /\ BudgetInv
  BY DEF ProgressOK
<1>2. CASE StartSchedule
  <2>1. /\ UNCHANGED <<vars, progress, tokenBudget, policy>> /\ pc = "idle"
        /\ pc' \in {"prefills", "running"}
    BY <1>2 DEF StartSchedule, At
  <2>2. seqBudget' \in [Groups -> Nat] /\ currLoras' \subseteq Nat
    <3>1. running \subseteq Groups /\ \A g \in Groups : LoraOf[g] \in Nat
      BY SchedulerAssumption DEF QueuesOK, QueueTypes
    <3>2. CASE ChunkedPrefill
      BY <1>1, <1>2, <3>2 DEF StartSchedule, ProgressTypes
    <3>3. CASE ~ChunkedPrefill
      <4>1. /\ seqBudget' = [g \in Groups |-> IF g \in running THEN MaxNumRunningSeqs(g) ELSE 0]
            /\ currLoras' = IF MaxLoras > 0 THEN {LoraOf[g] : g \in running} ELSE {}
        BY <1>2, <3>3 DEF StartSchedule
      <4>2. seqBudget' \in [Groups -> Nat]
        BY <4>1, RunningSeqsType
      <4>3. currLoras' \subseteq Nat
        BY <3>1, <4>1
      <4>4. QED
        BY <4>2, <4>3
    <3>4. QED
      BY <3>2, <3>3
  <2>3. \A g \in Groups : Counted(g)'
    BY <2>1, CountedStays
  <2>4. pc' \in Phases \cup Failures
    BY <2>1 DEF Phases
  <2>5. QED
    BY <2>1, <2>2, <2>3, <2>4, StillKeeps
<1>3. CASE \/ SkipPrompt \/ EndPrefills \/ TakeCurrent \/ EndRunning \/ CheckBudget \/ EndSchedule
  <2>1. /\ UNCHANGED <<vars, progress, tokenBudget, policy, batch>>
        /\ pc \in {"prefills", "running", "end", "queues"}
        /\ pc' \in {"prefills", "running", "current", "swapped", "end", "queues", "execute",
                    "AssertionError"}
        /\ pc' \in {"queues", "execute"} => ~NegativeChunk
        /\ seqBudget' \in {seqBudget, Nothing} /\ currLoras' \in {currLoras, {}}
    <3>1. CASE SkipPrompt
      BY <3>1 DEF SkipPrompt, Prefilling, At, budgetVars
    <3>2. CASE EndPrefills
      BY <3>2 DEF EndPrefills, At, budgetVars
    <3>3. CASE TakeCurrent
      BY <3>3 DEF TakeCurrent, At, roundVars, budgetVars, resultVars
    <3>4. CASE EndRunning
      BY <3>4 DEF EndRunning, At, roundVars, budgetVars, resultVars
    <3>5. CASE CheckBudget
      BY <3>5 DEF CheckBudget, At, roundVars, budgetVars, resultVars
    <3>6. CASE EndSchedule
      BY <1>1, <3>6 DEF EndSchedule, At, BudgetInv
    <3>7. QED
      BY <1>3, <3>1, <3>2, <3>3, <3>4, <3>5, <3>6
  <2>2. \A g : ~HasReturned(g)
    BY <2>1 DEF HasReturned
  <2>3. \A g \in Groups : Counted(g)'
    BY <2>1, <2>2, CountedStays
  <2>4. pc' \in Phases \cup Failures
    BY <2>1 DEF Phases, Failures
  <2>5. seqBudget' \in [Groups -> Nat] /\ currLoras' \subseteq Nat
    BY <1>1, <2>1 DEF ProgressTypes, Nothing
  <2>6. QED
    BY <2>1, <2>3, <2>4, <2>5, StillKeeps
<1>4. CASE SkipSwapped \/ EndSwapped \/ ReturningIsScheduled
  <2>1. /\ UNCHANGED <<vars, progress, tokenBudget, policy, seqBudget, currLoras>>
        /\ pc = "swapped" /\ batch \subseteq batch' /\ pc' \in {"swapped", "prefills", "end"}
    BY <1>4 DEF SkipSwapped, EndSwapped, ReturningIsScheduled, Swapping, At, budgetVars
  <2>2. \A g : HasReturned(g) => g \in batch'
    <3>1. CASE SkipSwapped \/ EndSwapped
      BY <3>1, NoneReturns DEF SkipSwapped, EndSwapped, HasReturned
    <3>2. CASE ReturningIsScheduled
      BY <3>2 DEF ReturningIsScheduled, HasReturned
    <3>3. QED
      BY <1>4, <3>1, <3>2
  <2>3. \A g \in Groups : Counted(g)'
    BY <2>1, <2>2, CountedStays
  <2>4. pc' \in Phases \cup Failures
    BY <2>1 DEF Phases, Failures
  <2>5. seqBudget' \in [Groups -> Nat] /\ currLoras' \subseteq Nat
    BY <1>1, <2>1 DEF ProgressTypes
  <2>6. QED
    BY <2>1, <2>3, <2>4, <2>5, StillKeeps
<1>5. CASE EndOutputs \/ EndForks \/ EndStep
  <2>1. /\ UNCHANGED <<vars, progress, tokenBudget, policy, seqBudget, currLoras>>
        /\ pc \in {"outputs", "forks", "trim"} /\ pc' \in {"forks", "trim", "idle"}
        /\ scheduled = {}
    BY <1>1, <1>5 DEF EndOutputs, EndForks, EndStep, At, roundVars, budgetVars, BudgetInv
  <2>2. \A g \in Groups : Counted(g)'
    BY <2>1, CountedStays
  <2>3. pc' \in Phases \cup Failures
    BY <2>1 DEF Phases, Failures
  <2>4. seqBudget' \in [Groups -> Nat] /\ currLoras' \subseteq Nat
    BY <1>1, <2>1 DEF ProgressTypes
  <2>5. QED
    BY <2>1, <2>2, <2>3, <2>4, StillKeeps
<1>6. CASE LoraKeyError \/ ReturningHasMoreTokens
  <2>1. /\ UNCHANGED <<vars, progress, tokenBudget, policy, seqBudget, currLoras>>
        /\ pc' \in Failures /\ pc # "outputs"
    BY <1>6 DEF LoraKeyError, ReturningHasMoreTokens, Fail, roundVars, budgetVars, Failures,
       NoRoom, Decoding, Swapping, At
  <2>2. ~Working'
    BY <2>1 DEF Working, Phases, Failures
  <2>3. seqBudget' \in [Groups -> Nat] /\ currLoras' \subseteq Nat
    BY <1>1, <2>1 DEF ProgressTypes
  <2>4. QED
    BY <2>1, <2>2, <2>3, StillKeeps
<1>7. QED
  BY <1>2, <1>3, <1>4, <1>5, <1>6

LEMMA SlotsKeep ==
    ASSUME ProgressOK, Working, NEW s \in Seqs,
           AppendSlotsOfCurrent(s) \/ AppendSlotsOfReturning(s),
           UNCHANGED policy
    PROVE  ProgressOK'
<1>1. /\ status' = status /\ len' = len
      /\ scheduled \subseteq scheduled' /\ sampled' \subseteq sampled
      /\ UNCHANGED <<computed, stage, tokenBudget, seqBudget, currLoras, pc, batch, swapped,
                     arrivals>>
      /\ pc \in {"current", "swapped"}
  <2>1. AppendSlots(s) => /\ status' = status /\ len' = len /\ scheduled \subseteq scheduled'
                          /\ sampled' \subseteq sampled
    BY DEF AppendSlots, AppendError, Raise
  <2>2. QED
    BY <2>1 DEF AppendSlotsOfCurrent, AppendSlotsOfReturning, Decoding, Swapping, At, progress,
       roundVars, resultVars, budgetVars, queueVars
<1>2. ProgressTypes /\ ProgressInv /\ BudgetInv
  BY DEF ProgressOK
<1>3. ProgressTypes'
  BY <1>1, <1>2 DEF ProgressTypes
<1>4. ASSUME NEW q \in Seqs PROVE ProgressOf(q)' /\ (Covered(q) => Covered(q)')
  <2>1. SameProgress(q) /\ Unfinished(GroupOf[q])' = Unfinished(GroupOf[q])
    BY <1>1, SameStatus DEF SameProgress
  <2>2. ProgressOf(q)
    BY <1>2 DEF ProgressInv
  <2>3. ~(Placed(q) /\ computed[q] = len[q])
    BY <1>1, <2>2 DEF ProgressOf
  <2>4. ProgressOf(q)'
    BY <1>1, <2>1, <2>2, <2>3, ProgressStays
  <2>5. QED
    BY <1>1, <2>4 DEF Covered, Unplaced
<1>5. \A g \in Groups : Working => Counted(g)'
  <2>1. \A g : HasReturned(g)' <=> HasReturned(g)
    BY <1>1, SameStatus DEF HasReturned, Returning, Oldest, Rank
  <2>2. QED
    BY <1>1, <1>2, <2>1, CountedStays
<1>6. BudgetInv'
  BY <1>1, <1>2, <1>4, <1>5 DEF BudgetInv
<1>7. QED
  BY <1>3, <1>4, <1>6 DEF ProgressOK, ProgressInv

\* A sequence that a step of another one leaves where it is.
LeftAlone(s) ==
    /\ SameProgress(s)
    /\ stage[s] = "PREFILL" /\ Placed(s) =>
         Unfinished(GroupOf[s])' \subseteq Unfinished(GroupOf[s])
    /\ s \in sampled' => s \in sampled
    /\ Placed(s) /\ computed[s] = len[s] => pc' = "outputs" /\ s \in scheduled'

LEMMA LeftAloneKeep ==
    ASSUME ProgressOK, NEW M, \A s \in Seqs : s \notin M => LeftAlone(s),
           \A s \in Seqs : s \in M => ProgressOf(s)',
           ProgressTypes', BudgetInv'
    PROVE  ProgressOK'
<1>1. SUFFICES ASSUME NEW s \in Seqs PROVE ProgressOf(s)'
  BY DEF ProgressOK, ProgressInv
<1>2. CASE s \in M
  BY <1>2
<1>3. CASE s \notin M
  BY <1>3, ProgressStays DEF LeftAlone, ProgressOK, ProgressInv
<1>4. QED
  BY <1>2, <1>3

\* The groups whose sequences keep their statuses.
LEMMA SameGroup ==
    ASSUME NEW g, \A s \in Seqs : GroupOf[s] = g => status'[s] = status[s]
    PROVE  /\ Unfinished(g)' = Unfinished(g)
           /\ \A st : SeqsWith(g, st)' = SeqsWith(g, st)
           /\ \A st : AllAre(g, st)' <=> AllAre(g, st)
<1>1. Unfinished(g)' = Unfinished(g) /\ \A st : SeqsWith(g, st)' = SeqsWith(g, st)
  BY DEF Unfinished, Members, SeqsWith
<1>2. QED
  BY <1>1 DEF AllAre

\* In a round no sequence is computed to its end.
LEMMA UnderWay ==
    ASSUME ProgressOK, TypeOK, pc # "outputs", NEW s \in Seqs, Placed(s)
    PROVE  computed[s] < len[s] /\ computed[s] \in Nat /\ len[s] \in Nat
BY DEF ProgressOK, ProgressInv, ProgressOf, ProgressTypes, TypeOK, SequencesTypeOK

LEMMA CurrentIsScheduledProgress ==
    ASSUME TypeOK, QueuesOK, ProgressOK, Working, CurrentIsScheduled, UNCHANGED policy
    PROVE  ProgressOK'
<1>0. /\ pc = "current" /\ QueueTypes /\ PlacesInv /\ PhaseInv
      /\ ProgressTypes /\ ProgressInv /\ BudgetInv
  BY DEF CurrentIsScheduled, Decoding, At, QueuesOK, QueueInv, ProgressOK
<1>1. PICK g : g = Current
  OBVIOUS
<1>2. PICK n : n = CurrentTokens
  OBVIOUS
<1>3. g \in running /\ g \in Groups /\ AllAre(g, "RUNNING")
  <2>1. running # {} /\ g \in running
    BY <1>0, <1>1, QueuedArrived DEF QueuesOK, PhaseInv
  <2>2. QED
    BY <1>0, <2>1 DEF QueueTypes, PlacesInv, Runners, AllAre
<1>4. /\ UNCHANGED <<vars, progress, policy>> /\ pc' = "running"
      /\ batch' = batch \cup {g}
      /\ tokenBudget' = Count(tokenBudget, g, n)
      /\ seqBudget' \in {seqBudget, Count(seqBudget, g, MaxNumRunningSeqs(g))}
      /\ currLoras' = currLoras \cup ({LoraOf[g]} \ {0})
  BY <1>1, <1>2 DEF CurrentIsScheduled, AddLora
<1>5. /\ n \in Int
      /\ \A s \in Seqs : SeqsWith(g, "RUNNING") = {s} => n <= len[s] - computed[s]
  BY <1>0, <1>1, <1>2, ChunkedNewTokensAre DEF CurrentTokens
<1>6. ProgressTypes'
  <2>1. MaxNumRunningSeqs(g) \in Nat /\ LoraOf[g] \in Nat
    BY <1>3, RunningSeqsType, SchedulerAssumption
  <2>2. UNCHANGED <<computed, stage, policy>> /\ pc' \in Phases
    BY <1>4 DEF progress, Phases
  <2>3. tokenBudget' \in [Groups -> Int] /\ seqBudget' \in [Groups -> Nat]
    BY <1>0, <1>4, <1>5, <2>1 DEF Count, ProgressTypes
  <2>4. currLoras' \subseteq Nat
    BY <1>0, <1>4, <2>1 DEF ProgressTypes
  <2>5. QED
    BY <1>0, <2>2, <2>3, <2>4 DEF ProgressTypes
<1>7. UNCHANGED <<status, len, computed, stage, scheduled, sampled, err>>
  BY <1>4 DEF vars, progress
<1>8. \A s \in Seqs : LeftAlone(s)
  BY <1>0, <1>7, SameStatus, UnderWay DEF LeftAlone, SameProgress
<1>9. ASSUME NEW s \in Seqs PROVE Covered(s)'
  <2>1. Covered(s)
    BY <1>0 DEF BudgetInv
  <2>2. CASE GroupOf[s] # g
    BY <1>0, <1>4, <1>7, <2>1, <2>2 DEF Covered, Count, ProgressTypes, Unplaced
  <2>3. CASE GroupOf[s] = g
    <3>1. SUFFICES ASSUME ~Unplaced(s), stage[s] = "PREFILL"
                   PROVE  tokenBudget'[g] <= len[s] - computed[s]
      BY <1>7, <2>3 DEF Covered, Unplaced
    <3>2. s \in Unfinished(g)
      BY <2>3, <3>1 DEF Unfinished, Members, Unplaced
    <3>3. status[s] = "RUNNING"
      BY <1>3, <3>2 DEF AllAre, SeqsWith
    <3>4. SeqsWith(g, "RUNNING") = {s}
      <4>1. Unfinished(g) = {s}
        BY <1>0, <2>3, <3>1, <3>3 DEF ProgressInv, ProgressOf, Placed
      <4>2. QED
        BY <4>1, <3>2, <1>3, UnfinishedAre DEF AllAre
    <3>5. n <= len[s] - computed[s] /\ tokenBudget[g] <= len[s] - computed[s]
      BY <1>5, <2>1, <2>3, <3>1, <3>4 DEF Covered
    <3>6. QED
      BY <1>0, <1>3, <1>4, <3>5 DEF Count, ProgressTypes
  <2>4. QED
    BY <2>2, <2>3
<1>10. ASSUME NEW h \in Groups PROVE Counted(h)'
  <2>1. h # g => tokenBudget'[h] = tokenBudget[h]
    BY <1>0, <1>4 DEF Count, ProgressTypes
  <2>2. ~HasReturned(h)
    BY <1>0 DEF HasReturned
  <2>3. QED
    BY <1>0, <1>4, <2>1, <2>2 DEF Counted, BudgetInv
<1>11. BudgetInv'
  BY <1>4, <1>9, <1>10 DEF BudgetInv
<1>12. QED
  <2>1. PICK M : M = {}
    OBVIOUS
  <2>2. \A s \in Seqs : (s \notin M => LeftAlone(s)) /\ (s \in M => ProgressOf(s)')
    BY <1>8, <2>1
  <2>3. QED
    BY <1>6, <1>11, <2>2, LeftAloneKeep

\* A budget that grows by the tokens of g.
LEMMA CountIs ==
    ASSUME NEW g \in Groups, NEW n \in Int, NEW budget \in [Groups -> Int]
    PROVE  /\ Count(budget, g, n) \in [Groups -> Int]
           /\ \A h \in Groups : h # g => Count(budget, g, n)[h] = budget[h]
           /\ Count(budget, g, n)[g] = IF budget[g] = 0 THEN n ELSE budget[g]
           /\ n \in Nat /\ budget \in [Groups -> Nat] => Count(budget, g, n) \in [Groups -> Nat]
BY DEF Count

LEMMA AdmitPromptProgress ==
    ASSUME IInv, QueuesOK, ProgressOK, Working, AdmitPrompt, UNCHANGED policy
    PROVE  ProgressOK'
<1>0. /\ pc = "prefills" /\ waiting # << >> /\ TypeOK /\ GroupsInv
      /\ QueueTypes /\ PlacesInv /\ PhaseInv /\ ProgressTypes /\ ProgressInv /\ BudgetInv
  BY DEF AdmitPrompt, Prefilling, At, QueuesOK, QueueInv, ProgressOK, IInv
<1>1. PICK g : g = Head(waiting)
  OBVIOUS
<1>2. PICK n : n = PromptTokens
  OBVIOUS
<1>3. PICK p \in Seqs : /\ g \in Groups /\ GroupOf[p] = g
                        /\ Members(g) = {p} /\ SeqsWith(g, "WAITING") = {p}
  <2>1. /\ g \in Groups /\ Prompt \in Seqs /\ Members(g) = {Prompt}
        /\ SeqsWith(g, "WAITING") = {Prompt}
    BY <1>0, <1>1, HeadOfWaiting
  <2>2. GroupOf[Prompt] = g
    BY <2>1 DEF SeqsWith
  <2>3. QED
    BY <2>1, <2>2
<1>4. /\ Allocate(g) /\ UNCHANGED <<progress, pc, arrivals, swapped, policy>>
      /\ batch' = batch \cup {g}
      /\ tokenBudget' = Count(tokenBudget, g, n)
      /\ seqBudget' = Count(seqBudget, g, MaxNumRunningSeqs(g))
      /\ currLoras' = currLoras \cup ({LoraOf[g]} \ {0})
  BY <1>1, <1>2 DEF AdmitPrompt, AddLora
<1>5. n \in Int /\ n <= len[p] - computed[p]
  BY <1>0, <1>1, <1>2, <1>3, ChunkedNewTokensAre DEF PromptTokens
<1>6. /\ status' = [s \in Seqs |-> IF s = p THEN "RUNNING" ELSE status[s]]
      /\ UNCHANGED <<len, computed, stage, err>> /\ sampled' = {}
  BY <1>3, <1>4, AllocateSucceeds DEF SetStatus, progress
<1>7. ProgressTypes'
  <2>1. MaxNumRunningSeqs(g) \in Nat /\ LoraOf[g] \in Nat
    BY <1>3, RunningSeqsType, SchedulerAssumption
  <2>2. tokenBudget' \in [Groups -> Int] /\ seqBudget' \in [Groups -> Nat]
    BY <1>0, <1>3, <1>4, <1>5, <2>1, CountIs DEF ProgressTypes
  <2>3. currLoras' \subseteq Nat
    BY <1>0, <1>4, <2>1 DEF ProgressTypes
  <2>4. QED
    BY <1>0, <1>4, <1>6, <2>2, <2>3 DEF ProgressTypes
<1>8. /\ computed[p] = 0 /\ stage[p] = "PREFILL" /\ len[p] > 0 /\ len[p] \in Nat
      /\ status[p] = "WAITING"
  BY <1>0, <1>3 DEF ProgressInv, ProgressOf, GroupsInv, TypeOK, SequencesTypeOK, SeqsWith
<1>9. ProgressOf(p)'
  <2>1. Unfinished(g)' = {p}
    <3>1. \A s \in Seqs : GroupOf[s] = g /\ s # p => status[s] = "UNUSED"
      BY <1>3 DEF Members
    <3>2. QED
      BY <1>3, <1>6, <3>1 DEF Unfinished, Members
  <2>2. status'[p] = "RUNNING" /\ Placed(p)'
    BY <1>6 DEF Placed
  <2>3. QED
    BY <1>3, <1>6, <1>8, <2>1, <2>2 DEF ProgressOf
<1>10. ASSUME NEW s \in Seqs, s # p PROVE LeftAlone(s) /\ status'[s] = status[s]
  <2>1. GroupOf[s] = g => ~Placed(s)
    BY <1>3, <1>10 DEF Members, Placed
  <2>2. GroupOf[s] # g => Unfinished(GroupOf[s])' = Unfinished(GroupOf[s])
    BY <1>3, <1>6, SameGroup
  <2>3. QED
    BY <1>0, <1>6, <1>10, <2>1, <2>2, UnderWay DEF LeftAlone, SameProgress
<1>11. \A h \in Groups : h # g => Count(tokenBudget, g, n)[h] = tokenBudget[h]
  BY <1>0, <1>3, <1>5, CountIs DEF ProgressTypes
<1>12. ASSUME NEW s \in Seqs PROVE Covered(s)'
  <2>1. Covered(s)
    BY <1>0 DEF BudgetInv
  <2>2. CASE GroupOf[s] # g
    <3>1. s # p /\ GroupOf[s] \in Groups
      BY <1>3, <2>2, SequenceGroupsAssumption
    <3>2. tokenBudget'[GroupOf[s]] = tokenBudget[GroupOf[s]]
      BY <1>3, <1>4, <1>11, <2>2, <3>1
    <3>3. QED
      BY <1>6, <2>1, <3>1, <3>2 DEF Covered, Unplaced
  <2>3. CASE s = p
    <3>1. tokenBudget[g] <= len[p] - computed[p]
      BY <1>3, <1>8, <2>1, <2>3 DEF Covered, Unplaced
    <3>2. tokenBudget'[g] <= len[p] - computed[p]
      BY <1>0, <1>3, <1>4, <1>5, <3>1, CountIs DEF ProgressTypes
    <3>3. QED
      BY <1>3, <1>6, <2>3, <3>2 DEF Covered
  <2>4. CASE GroupOf[s] = g /\ s # p
    BY <1>3, <1>10, <2>4 DEF Covered, Unplaced, Members
  <2>5. QED
    BY <2>2, <2>3, <2>4
<1>13. ASSUME NEW h \in Groups PROVE Counted(h)'
  <2>1. h # g => tokenBudget'[h] = tokenBudget[h]
    BY <1>4, <1>11
  <2>2. ~HasReturned(h)
    BY <1>0 DEF HasReturned
  <2>3. QED
    BY <1>0, <1>4, <2>1, <2>2 DEF Counted, BudgetInv
<1>14. BudgetInv'
  BY <1>0, <1>4, <1>12, <1>13 DEF BudgetInv
<1>15. QED
  <2>1. \A s \in Seqs : (s \notin {p} => LeftAlone(s)) /\ (s \in {p} => ProgressOf(s)')
    BY <1>9, <1>10
  <2>2. QED
    BY <1>7, <1>14, <2>1, LeftAloneKeep

\* Sequences that go from one queue to another with what they have.
LEMMA MovedProgress ==
    ASSUME TypeOK, ProgressOK, pc # "outputs", NEW g, NEW old \in {"RUNNING", "SWAPPED"},
           NEW new \in {"RUNNING", "SWAPPED"}, SetStatus(SeqsWith(g, old), new),
           UNCHANGED <<len, computed, stage>>, sampled' = {}
    PROVE  \A s \in Seqs : ProgressOf(s)'
<1>1. SUFFICES ASSUME NEW s \in Seqs PROVE ProgressOf(s)'
  OBVIOUS
<1>2. ProgressOf(s)
  BY DEF ProgressOK, ProgressInv
<1>3. Unfinished(GroupOf[s])' = Unfinished(GroupOf[s])
  BY DEF Unfinished, Members, SetStatus, SeqsWith
<1>4. (Placed(s)' <=> Placed(s)) /\ (~Placed(s) => status'[s] = status[s])
  BY DEF SetStatus, SeqsWith, Placed
<1>5. QED
  BY <1>2, <1>3, <1>4, UnderWay DEF ProgressOf, Placed

LEMMA SwapInOldestProgress ==
    ASSUME IInv, IInv', QueuesOK, ProgressOK, Working, SwapInOldest, UNCHANGED policy
    PROVE  ProgressOK'
<1>0. /\ pc = "swapped" /\ swapped # {} /\ ~ComesBack /\ TypeOK
      /\ QueueTypes /\ QueueInv /\ PlacesInv /\ ProgressTypes /\ ProgressInv /\ BudgetInv
  BY DEF SwapInOldest, Swapping, At, QueuesOK, QueueInv, ProgressOK, IInv
<1>1. PICK g : g = Returning
  OBVIOUS
<1>2. PICK n : n = NewTokens(g, "SWAPPED")
  OBVIOUS
<1>3. g \in swapped /\ g \in Groups /\ AllAre(g, "SWAPPED")
  <2>1. g \in swapped /\ g \in Groups
    BY <1>0, <1>1, QueuedArrived DEF QueueTypes
  <2>2. ~HasReturned(g)
    BY <1>0, NoneReturns
  <2>3. QED
    BY <1>0, <2>1, <2>2 DEF PlacesInv, Sleepers
<1>4. /\ SwapIn(g) /\ UNCHANGED <<pc, queueVars, progress, resultVars, policy>>
      /\ tokenBudget' = Count(tokenBudget, g, n)
      /\ seqBudget' = Count(seqBudget, g, MaxNumRunningSeqs(g))
      /\ currLoras' = currLoras \cup ({LoraOf[g]} \ {0})
  BY <1>1, <1>2 DEF SwapInOldest, AddLora
<1>5. /\ n \in Int
      /\ \A s \in Seqs : SeqsWith(g, "SWAPPED") = {s} => n = len[s] - computed[s]
  BY <1>0, <1>2, NewTokensAre
<1>6. SetStatus(SeqsWith(g, "SWAPPED"), "RUNNING") /\ len' = len /\ sampled' = {}
  BY <1>4 DEF SwapIn, MoveError, Raise, IInv, NoBlockError
<1>7. /\ UNCHANGED <<computed, stage, pc, arrivals, swapped, batch, policy>>
  BY <1>4 DEF progress, queueVars, resultVars
<1>8. ProgressTypes'
  <2>1. MaxNumRunningSeqs(g) \in Nat /\ LoraOf[g] \in Nat
    BY <1>3, RunningSeqsType, SchedulerAssumption
  <2>2. tokenBudget' \in [Groups -> Int] /\ seqBudget' \in [Groups -> Nat]
    BY <1>0, <1>3, <1>4, <1>5, <2>1, CountIs DEF ProgressTypes
  <2>3. currLoras' \subseteq Nat
    BY <1>0, <1>4, <2>1 DEF ProgressTypes
  <2>4. QED
    BY <1>0, <1>7, <2>2, <2>3 DEF ProgressTypes
<1>9. \A s \in Seqs : ProgressOf(s)'
  BY <1>0, <1>6, <1>7, MovedProgress
<1>10. ASSUME NEW s \in Seqs PROVE Covered(s)'
  <2>1. Covered(s) /\ GroupOf[s] \in Groups
    BY <1>0, SequenceGroupsAssumption DEF BudgetInv
  <2>2. Unplaced(s)' <=> Unplaced(s)
    BY <1>6 DEF SetStatus, SeqsWith, Unplaced
  <2>3. CASE GroupOf[s] # g
    <3>1. tokenBudget'[GroupOf[s]] = tokenBudget[GroupOf[s]]
      BY <1>0, <1>3, <1>4, <1>5, <2>1, <2>3, CountIs DEF ProgressTypes
    <3>2. QED
      BY <1>6, <1>7, <2>1, <2>2, <3>1 DEF Covered
  <2>4. CASE GroupOf[s] = g
    <3>1. SUFFICES ASSUME ~Unplaced(s), stage[s] = "PREFILL"
                   PROVE  tokenBudget'[g] <= len[s] - computed[s]
      BY <1>6, <1>7, <2>2, <2>4 DEF Covered
    <3>2. s \in Unfinished(g)
      BY <2>4, <3>1 DEF Unfinished, Members, Unplaced
    <3>3. status[s] = "SWAPPED"
      BY <1>3, <3>2 DEF AllAre, SeqsWith
    <3>4. SeqsWith(g, "SWAPPED") = {s}
      <4>1. Unfinished(g) = {s}
        BY <1>0, <2>4, <3>1, <3>3 DEF ProgressInv, ProgressOf, Placed
      <4>2. QED
        BY <4>1, <3>2, <1>0, <1>3, UnfinishedAre DEF AllAre
    <3>5. n <= len[s] - computed[s] /\ tokenBudget[g] <= len[s] - computed[s]
      <4>1. len[s] - computed[s] \in Int
        BY <1>0 DEF TypeOK, SequencesTypeOK, ProgressTypes
      <4>2. QED
        BY <1>5, <2>1, <2>4, <3>1, <3>4, <4>1 DEF Covered
    <3>6. QED
      BY <1>0, <1>3, <1>4, <1>5, <3>5, CountIs DEF ProgressTypes
  <2>5. QED
    BY <2>3, <2>4
<1>11. HasReturned(g)'
  <2>1. AllAre(g, "RUNNING")'
    BY <1>0, <1>3, <1>6, AllChange
  <2>2. Returning' = Returning
    BY <1>7 DEF Returning, Oldest, Rank
  <2>3. QED
    BY <1>0, <1>1, <1>3, <1>7, <2>1, <2>2 DEF HasReturned
<1>12. ASSUME NEW h \in Groups PROVE Counted(h)'
  <2>1. CASE h = g
    BY <1>0, <1>7, <1>11, <2>1 DEF Counted
  <2>2. CASE h # g
    <3>1. tokenBudget'[h] = tokenBudget[h] /\ ~HasReturned(h)
      BY <1>0, <1>3, <1>4, <1>5, <2>2, CountIs, NoneReturns DEF ProgressTypes
    <3>2. QED
      BY <1>0, <1>7, <3>1 DEF Counted, BudgetInv
  <2>3. QED
    BY <2>1, <2>2
<1>13. BudgetInv'
  BY <1>0, <1>7, <1>10, <1>12 DEF BudgetInv
<1>14. QED
  BY <1>8, <1>9, <1>13 DEF ProgressOK, ProgressInv

\* Groups that are still to be scheduled have no tokens in the budget, so that
\* giving one up does not change it.
LEMMA GiveUpBudget ==
    ASSUME TypeOK, QueuesOK, ProgressOK, Working, NoRoom, GiveUp, batch' = batch
    PROVE  /\ pc = "current" /\ pc' \in {"running", "current"}
           /\ tokenBudget' = tokenBudget /\ tokenBudget[Victim] = 0
           /\ seqBudget' \in [Groups -> Nat] /\ currLoras' \subseteq Nat
           /\ \A h \in Groups : Counted(h)'
<1>0. /\ pc = "current" /\ pc' \in {"running", "current"}
      /\ QueueTypes /\ ApartInv /\ PhaseInv /\ ProgressTypes /\ BudgetInv
  BY DEF NoRoom, Decoding, At, GiveUp, QueuesOK, QueueInv, ProgressOK
<1>1. Current \in running /\ Victim \in running /\ running \cap batch = {}
  BY <1>0, QueuedArrived DEF QueuesOK, PhaseInv, ApartInv
<1>2. \A h \in running : tokenBudget[h] = 0
  BY <1>0, <1>1 DEF BudgetInv, Counted, HasReturned, QueueTypes
<1>3. tokenBudget' = tokenBudget
  <2>1. tokenBudget' = [tokenBudget EXCEPT ![Current] = 0] /\ tokenBudget[Current] = 0
    BY <1>1, <1>2 DEF GiveUp
  <2>2. QED
    BY <1>0, <2>1 DEF ProgressTypes
<1>4. seqBudget' \in [Groups -> Nat] /\ currLoras' \subseteq Nat
  BY <1>0 DEF GiveUp, ProgressTypes
<1>5. \A h \in Groups : Counted(h)'
  BY <1>0, <1>3 DEF BudgetInv, Counted, HasReturned
<1>6. QED
  BY <1>0, <1>1, <1>2, <1>3, <1>4, <1>5

LEMMA RecomputeYoungestProgress ==
    ASSUME IInv, IInv', QueuesOK, ProgressOK, Working, RecomputeYoungest, UNCHANGED policy
    PROVE  ProgressOK'
<1>1. PICK g : g = Victim
  OBVIOUS
<1>2. PICK S : S = SeqsWith(g, "RUNNING")
  OBVIOUS
<1>3. /\ PreemptByRecompute(g) /\ NoRoom /\ GiveUp /\ batch' = batch /\ StartAgain(S)
      /\ TypeOK /\ ProgressTypes /\ ProgressInv /\ BudgetInv
  BY <1>1, <1>2 DEF RecomputeYoungest, IInv, ProgressOK
<1>4. /\ pc = "current" /\ pc' \in {"running", "current"}
      /\ tokenBudget' = tokenBudget /\ tokenBudget[g] = 0
      /\ seqBudget' \in [Groups -> Nat] /\ currLoras' \subseteq Nat
      /\ \A h \in Groups : Counted(h)'
  BY <1>1, <1>3, GiveUpBudget
<1>5. /\ status' = [s \in Seqs |-> IF s \in S THEN "WAITING" ELSE status[s]]
      /\ len' = len /\ sampled' = {}
  BY <1>2, <1>3 DEF PreemptByRecompute, Raise, IInv, NoBlockError, SetStatus
<1>6. /\ computed' = [s \in Seqs |-> IF s \in S THEN 0 ELSE computed[s]]
      /\ stage' = [s \in Seqs |-> IF s \in S THEN "PREFILL" ELSE stage[s]]
      /\ \A s \in S : s \in Seqs /\ GroupOf[s] = g /\ status[s] = "RUNNING"
  BY <1>2, <1>3 DEF StartAgain, SeqsWith
<1>7. ProgressTypes'
  BY <1>3, <1>4, <1>6 DEF ProgressTypes, Phases
<1>8. ASSUME NEW s \in Seqs, s \in S PROVE ProgressOf(s)' /\ Covered(s)'
  <2>1. ProgressOf(s)'
    BY <1>5, <1>6, <1>8, GoneProgress
  <2>2. len'[s] \in Nat /\ computed'[s] = 0 /\ tokenBudget'[GroupOf[s]] = 0
    BY <1>3, <1>4, <1>5, <1>6, <1>8 DEF TypeOK, SequencesTypeOK
  <2>3. QED
    BY <2>1, <2>2 DEF Covered
<1>9. ASSUME NEW s \in Seqs, s \notin S PROVE LeftAlone(s) /\ Covered(s)'
  <2>1. SameProgress(s)
    BY <1>5, <1>6, <1>9 DEF SameProgress
  <2>2. Unfinished(GroupOf[s])' \subseteq Unfinished(GroupOf[s])
    BY <1>5, <1>6 DEF Unfinished, Members
  <2>3. LeftAlone(s)
    BY <1>3, <1>4, <1>5, <2>1, <2>2, UnderWay DEF LeftAlone
  <2>4. Covered(s)
    BY <1>3 DEF BudgetInv
  <2>5. QED
    BY <1>4, <2>1, <2>3, <2>4 DEF Covered, SameProgress, Unplaced
<1>10. BudgetInv'
  BY <1>4, <1>8, <1>9 DEF BudgetInv
<1>11. QED
  BY <1>7, <1>8, <1>9, <1>10, LeftAloneKeep

LEMMA SwapOutYoungestProgress ==
    ASSUME IInv, QueuesOK, ProgressOK, Working, SwapOutYoungest, UNCHANGED policy
    PROVE  ProgressOK'
<1>1. PICK g : g = Victim
  OBVIOUS
<1>2. /\ PreemptBySwap(g) /\ NoRoom /\ GiveUp /\ batch' = batch /\ UNCHANGED progress
      /\ TypeOK /\ ProgressTypes /\ ProgressInv /\ BudgetInv
  BY <1>1 DEF SwapOutYoungest, IInv, ProgressOK
<1>3. /\ pc = "current" /\ pc' \in {"running", "current"}
      /\ tokenBudget' = tokenBudget
      /\ seqBudget' \in [Groups -> Nat] /\ currLoras' \subseteq Nat
      /\ \A h \in Groups : Counted(h)'
  BY <1>2, GiveUpBudget
<1>4. ProgressTypes'
  BY <1>2, <1>3 DEF ProgressTypes, Phases, progress
<1>5. CASE SetStatus(SeqsWith(g, "RUNNING"), "SWAPPED") /\ len' = len /\ sampled' = {}
  <2>1. \A s \in Seqs : ProgressOf(s)'
    BY <1>2, <1>3, <1>5, MovedProgress DEF progress
  <2>2. ASSUME NEW s \in Seqs PROVE Covered(s)'
    <3>1. Unplaced(s)' <=> Unplaced(s)
      BY <1>5 DEF SetStatus, SeqsWith, Unplaced
    <3>2. QED
      BY <1>2, <1>3, <1>5, <3>1 DEF Covered, BudgetInv, progress
  <2>3. BudgetInv'
    BY <1>3, <2>2 DEF BudgetInv
  <2>4. QED
    BY <1>4, <2>1, <2>3 DEF ProgressOK, ProgressInv
<1>6. CASE err' # "none" /\ UNCHANGED <<status, len, scheduled, sampled>>
  <2>1. PICK M : M = {}
    OBVIOUS
  <2>2. \A s \in Seqs : LeftAlone(s)
    BY <1>2, <1>3, <1>6, SameStatus, UnderWay DEF LeftAlone, SameProgress, progress
  <2>3. \A s \in Seqs : (s \notin M => LeftAlone(s)) /\ (s \in M => ProgressOf(s)')
    BY <2>1, <2>2
  <2>4. BudgetInv'
    BY <1>6 DEF BudgetInv, Working, Alive
  <2>5. QED
    BY <1>4, <2>3, <2>4, LeftAloneKeep
<1>7. QED
  BY <1>2, <1>5, <1>6 DEF PreemptBySwap, MoveError, Raise

\* Sequences that are finished, removed or new.
LEMMA FinishProgress ==
    ASSUME TypeOK, IInv', ProgressOK, Working, NEW S \in SUBSET Seqs, Finish(S),
           pc \in {"prefills", "idle", "trim"},
           UNCHANGED <<pc, progress, roundVars, policy>>
    PROVE  ProgressOK'
<1>0. /\ ProgressTypes /\ ProgressInv /\ BudgetInv
      /\ UNCHANGED <<computed, stage, tokenBudget, seqBudget, currLoras, batch>>
  BY DEF ProgressOK, progress, roundVars, resultVars, budgetVars
<1>1. /\ status' = [s \in Seqs |-> IF s \in S THEN "FINISHED" ELSE status[s]]
      /\ len' = len /\ scheduled' \subseteq scheduled /\ sampled' \subseteq sampled
  BY DEF Finish, Raise, IInv, NoBlockError, SetStatus
<1>2. ProgressTypes'
  BY <1>0 DEF ProgressTypes
<1>3. ASSUME NEW s \in Seqs, s \in S PROVE ProgressOf(s)'
  BY <1>1, <1>3, GoneProgress
<1>4. ASSUME NEW s \in Seqs, s \notin S PROVE LeftAlone(s)
  <2>1. SameProgress(s)
    BY <1>0, <1>1, <1>4 DEF SameProgress
  <2>2. Unfinished(GroupOf[s])' \subseteq Unfinished(GroupOf[s])
    BY <1>1 DEF Unfinished, Members
  <2>3. QED
    BY <1>1, <2>1, <2>2, UnderWay DEF LeftAlone
<1>5. ASSUME NEW s \in Seqs PROVE Covered(s)'
  <2>1. Unplaced(s) => Unplaced(s)'
    BY <1>1 DEF Unplaced
  <2>2. QED
    BY <1>0, <1>1, <2>1 DEF BudgetInv, Covered
<1>6. ASSUME NEW h \in Groups PROVE Counted(h)'
  BY <1>0 DEF BudgetInv, Counted, HasReturned
<1>7. BudgetInv'
  <2>1. scheduled = {} => scheduled' = {}
    BY <1>1
  <2>2. QED
    BY <1>0, <1>5, <1>6, <2>1 DEF BudgetInv
<1>8. QED
  BY <1>2, <1>3, <1>4, <1>7, LeftAloneKeep

LEMMA RemoveProgress ==
    ASSUME TypeOK, IInv', ProgressOK, Working, NEW p \in Seqs, RemoveSeq(p), StartAgain({p}),
           pc \in {"outputs", "trim"}, UNCHANGED <<pc, roundVars, policy>>
    PROVE  ProgressOK'
<1>0. /\ ProgressTypes /\ ProgressInv /\ BudgetInv
      /\ UNCHANGED <<tokenBudget, seqBudget, currLoras, batch>>
      /\ computed' = [s \in Seqs |-> IF s = p THEN 0 ELSE computed[s]]
      /\ stage' = [s \in Seqs |-> IF s = p THEN "PREFILL" ELSE stage[s]]
  BY DEF ProgressOK, roundVars, resultVars, budgetVars, StartAgain
<1>1. /\ status' = [s \in Seqs |-> IF s = p THEN "UNUSED" ELSE status[s]]
      /\ len' = [len EXCEPT ![p] = 0] /\ scheduled' = scheduled \ {p}
      /\ sampled' = sampled \ {p}
  BY DEF RemoveSeq, Raise, IInv, NoBlockError, SetStatus
<1>2. ProgressTypes'
  BY <1>0 DEF ProgressTypes
<1>3. ASSUME NEW s \in Seqs, s \in {p} PROVE ProgressOf(s)' /\ Covered(s)'
  <2>1. ProgressOf(s)'
    BY <1>0, <1>1, <1>3, GoneProgress
  <2>2. QED
    BY <1>1, <1>3, <2>1 DEF Covered, Unplaced
<1>4. ASSUME NEW s \in Seqs, s \notin {p} PROVE LeftAlone(s) /\ Covered(s)'
  <2>1. SameProgress(s)
    BY <1>0, <1>1, <1>4 DEF SameProgress, TypeOK, SequencesTypeOK
  <2>2. Unfinished(GroupOf[s])' \subseteq Unfinished(GroupOf[s])
    BY <1>1 DEF Unfinished, Members
  <2>3. Placed(s) /\ computed[s] = len[s] => pc' = "outputs" /\ s \in scheduled'
    BY <1>0, <1>1, <1>4 DEF ProgressInv, ProgressOf
  <2>4. LeftAlone(s)
    BY <1>1, <2>1, <2>2, <2>3 DEF LeftAlone
  <2>5. QED
    BY <1>0, <2>1, <2>4 DEF BudgetInv, Covered, Unplaced, SameProgress
<1>6. ASSUME NEW h \in Groups PROVE Counted(h)'
  BY <1>0 DEF BudgetInv, Counted
<1>7. BudgetInv'
  <2>1. scheduled = {} => scheduled' = {}
    BY <1>1
  <2>2. QED
    BY <1>0, <1>3, <1>4, <1>6, <2>1 DEF BudgetInv
<1>8. QED
  BY <1>2, <1>3, <1>4, <1>7, LeftAloneKeep

LEMMA AddGroupProgress ==
    ASSUME TypeOK, ProgressOK, Working, NEW g \in Groups, AddGroup(g), UNCHANGED policy
    PROVE  ProgressOK'
<1> DEFINE S == {s \in Seqs : GroupOf[s] = g}
<1>0. /\ ProgressTypes /\ ProgressInv /\ BudgetInv /\ pc = "idle" /\ AddRequest(g)
      /\ UNCHANGED <<pc, tokenBudget, seqBudget, currLoras, batch>>
      /\ computed' = [s \in Seqs |-> IF s \in S THEN 0 ELSE computed[s]]
      /\ stage' = [s \in Seqs |-> IF s \in S THEN "PREFILL" ELSE stage[s]]
  BY DEF ProgressOK, AddGroup, At, roundVars, resultVars, budgetVars, StartAgain
<1>1. /\ \A s \in S : status'[s] \in {"WAITING", "UNUSED"} /\ len'[s] \in Nat
      /\ \A s \in Seqs \ S : status'[s] = status[s] /\ len'[s] = len[s]
      /\ scheduled' = scheduled /\ sampled' \subseteq sampled
  BY <1>0, SequenceGroupsAssumption DEF AddRequest
<1>2. ProgressTypes'
  BY <1>0 DEF ProgressTypes
<1>3. \A h \in Groups : tokenBudget[h] = 0
  BY <1>0 DEF BudgetInv, Counted
<1>4. ASSUME NEW s \in Seqs, s \in S PROVE ProgressOf(s)' /\ Covered(s)'
  <2>1. ProgressOf(s)'
    BY <1>0, <1>1, <1>4, GoneProgress
  <2>2. tokenBudget'[GroupOf[s]] = 0 /\ computed'[s] = 0 /\ len'[s] \in Nat
    BY <1>0, <1>1, <1>3, <1>4
  <2>3. QED
    BY <2>1, <2>2 DEF Covered
<1>5. ASSUME NEW s \in Seqs, s \notin S PROVE LeftAlone(s) /\ Covered(s)'
  <2>1. SameProgress(s)
    BY <1>0, <1>1, <1>5 DEF SameProgress
  <2>2. Unfinished(GroupOf[s])' = Unfinished(GroupOf[s])
    BY <1>1, <1>5, SameGroup
  <2>3. LeftAlone(s)
    BY <1>0, <1>1, <2>1, <2>2, UnderWay DEF LeftAlone
  <2>4. QED
    BY <1>0, <2>1, <2>3 DEF BudgetInv, Covered, Unplaced, SameProgress
<1>6. \A h \in Groups : Counted(h)'
  BY <1>0, <1>3 DEF Counted
<1>7. BudgetInv'
  BY <1>0, <1>1, <1>4, <1>5, <1>6 DEF BudgetInv
<1>8. QED
  <2> HIDE DEF S
  <2>1. QED
    BY <1>2, <1>4, <1>5, <1>7, LeftAloneKeep

LEMMA ForkChildProgress ==
    ASSUME TypeOK, ProgressOK, Working, NEW p \in Seqs, NEW c \in Seqs, ForkChild(p, c),
           UNCHANGED policy
    PROVE  ProgressOK'
<1>0. /\ ProgressTypes /\ ProgressInv /\ BudgetInv /\ pc = "forks"
      /\ UNCHANGED <<pc, tokenBudget, seqBudget, currLoras, batch>>
      /\ computed' = [computed EXCEPT ![c] = computed[p]]
      /\ stage' = [stage EXCEPT ![c] = stage[p]]
  BY DEF ProgressOK, ForkChild, At, roundVars, resultVars, budgetVars
<1>1. /\ status[p] = "RUNNING" /\ p \in sampled /\ status[c] = "UNUSED"
      /\ GroupOf[c] = GroupOf[p]
      /\ len' = [len EXCEPT ![c] = len[p]]
      /\ status'[c] \in {"RUNNING", "FINISHED"}
      /\ \A s \in Seqs : s # c => status'[s] = status[s]
      /\ sampled' = sampled \cup {c} /\ scheduled' = scheduled
  BY DEF ForkChild, Fork, SetStatus
<1>2. ProgressTypes'
  BY <1>0 DEF ProgressTypes
<1>3. /\ stage[p] = "DECODE" /\ computed[p] < len[p] /\ computed[p] >= len[p] - 1
      /\ p \in Unfinished(GroupOf[c])
  <2>1. ProgressOf(p) /\ Placed(p)
    BY <1>0, <1>1 DEF ProgressInv, Placed
  <2>2. computed[p] < len[p]
    BY <1>0, <2>1, UnderWay
  <2>3. QED
    BY <1>1, <2>1, <2>2 DEF ProgressOf, Unfinished, Members
<1>4. ASSUME NEW s \in Seqs, s \in {c} PROVE ProgressOf(s)' /\ Covered(s)'
  <2>1. /\ computed'[c] = computed[p] /\ stage'[c] = "DECODE" /\ len'[c] = len[p]
        /\ len[p] \in Nat /\ computed[p] \in Nat
    BY <1>0, <1>1, <1>3 DEF ProgressTypes, TypeOK, SequencesTypeOK
  <2>2. QED
    BY <1>1, <1>3, <1>4, <2>1 DEF ProgressOf, Covered
<1>5. ASSUME NEW s \in Seqs, s \notin {c} PROVE LeftAlone(s) /\ Covered(s)'
  <2>1. SameProgress(s)
    BY <1>0, <1>1, <1>5 DEF SameProgress, ProgressTypes, TypeOK, SequencesTypeOK
  <2>2. CASE GroupOf[s] # GroupOf[c]
    <3>1. Unfinished(GroupOf[s])' = Unfinished(GroupOf[s])
      BY <1>1, <2>2, SameGroup
    <3>2. QED
      BY <1>0, <1>1, <1>5, <2>1, <3>1, UnderWay
         DEF LeftAlone, BudgetInv, Covered, Unplaced, SameProgress
  <2>3. CASE GroupOf[s] = GroupOf[c]
    <3>1. ~(stage[s] = "PREFILL" /\ Placed(s))
      BY <1>0, <1>3, <2>3 DEF ProgressInv, ProgressOf
    <3>2. QED
      BY <1>0, <1>1, <1>5, <2>1, <3>1, UnderWay
         DEF LeftAlone, BudgetInv, Covered, Unplaced, SameProgress
  <2>4. QED
    BY <2>2, <2>3
<1>6. \A h \in Groups : Counted(h)'
  BY <1>0 DEF BudgetInv, Counted
<1>7. BudgetInv'
  BY <1>0, <1>1, <1>4, <1>5, <1>6 DEF BudgetInv
<1>8. QED
  BY <1>2, <1>4, <1>5, <1>7, LeftAloneKeep

\* The forward pass computes what the budget says, and no more than is left.
LEMMA ExecuteProgress ==
    ASSUME IInv, ProgressOK, Working, Execute, UNCHANGED policy
    PROVE  ProgressOK'
<1>0. /\ ProgressTypes /\ ProgressInv /\ BudgetInv /\ TypeOK /\ RoundInv
      /\ pc = "execute" /\ pc' = "outputs"
      /\ UNCHANGED <<status, len, scheduled, sampled, seqBudget, currLoras>>
      /\ computed' = [s \in Seqs |-> computed[s] + IF s \in scheduled THEN Chunk(s) ELSE 0]
      /\ stage' = [s \in Seqs |-> IF s \in scheduled /\ computed'[s] = len[s] THEN "DECODE"
                                  ELSE stage[s]]
      /\ \A g \in Groups : tokenBudget'[g] = 0
      /\ tokenBudget' \in [Groups -> Int]
  BY DEF ProgressOK, Execute, At, IInv, vars, Nothing
<1>1. ASSUME NEW s \in Seqs, s \in scheduled
      PROVE  /\ Placed(s) /\ Chunk(s) \in Nat /\ computed[s] + Chunk(s) <= len[s]
             /\ stage[s] = "DECODE" => computed[s] + Chunk(s) = len[s]
  <2>1. Placed(s) /\ ~Unplaced(s)
    BY <1>0, <1>1 DEF RoundInv, Placed, Unplaced
  <2>2. computed[s] < len[s] /\ computed[s] \in Nat /\ len[s] \in Nat /\ ~(Chunk(s) < 0)
    BY <1>0, <1>1, <2>1, UnderWay DEF BudgetInv, NegativeChunk
  <2>3. CASE stage[s] = "PREFILL"
    <3>1. Chunk(s) = tokenBudget[GroupOf[s]] /\ Chunk(s) \in Int
      BY <1>0, <2>3, SequenceGroupsAssumption DEF Chunk, ProgressTypes
    <3>2. Chunk(s) <= len[s] - computed[s]
      BY <1>0, <2>1, <2>3, <3>1 DEF BudgetInv, Covered
    <3>3. QED
      BY <2>1, <2>2, <2>3, <3>1, <3>2
  <2>4. CASE stage[s] = "DECODE"
    BY <1>0, <2>1, <2>2, <2>4 DEF Chunk, ProgressInv, ProgressOf
  <2>5. QED
    BY <1>0, <2>3, <2>4 DEF ProgressTypes
<1>2. ProgressTypes'
  <2>1. computed' \in [Seqs -> Nat]
    BY <1>0, <1>1 DEF ProgressTypes
  <2>2. stage' \in [Seqs -> {"PREFILL", "DECODE"}]
    BY <1>0 DEF ProgressTypes
  <2>3. QED
    BY <1>0, <2>1, <2>2 DEF ProgressTypes, Phases
<1>3. ASSUME NEW s \in Seqs PROVE ProgressOf(s)'
  <2>1. Unfinished(GroupOf[s])' = Unfinished(GroupOf[s]) /\ (Placed(s)' <=> Placed(s))
    BY <1>0, SameStatus DEF Placed
  <2>2. ProgressOf(s)
    BY <1>0 DEF ProgressInv
  <2>3. /\ len[s] \in Nat /\ computed[s] \in Nat /\ stage[s] \in {"PREFILL", "DECODE"}
        /\ Placed(s) => computed[s] < len[s]
    BY <1>0, UnderWay DEF TypeOK, SequencesTypeOK, ProgressTypes
  <2>4. CASE s \in scheduled
    <3>1. /\ Placed(s) /\ computed'[s] <= len[s] /\ (stage[s] = "DECODE" => computed'[s] = len[s])
          /\ computed'[s] \in Nat
          /\ stage'[s] = IF computed'[s] = len[s] THEN "DECODE" ELSE stage[s]
      BY <1>0, <1>1, <2>3, <2>4
    <3>2. status[s] \notin {"UNUSED", "WAITING"}
      BY <3>1 DEF Placed
    <3>3. QED
      BY <1>0, <2>1, <2>2, <2>3, <2>4, <3>1, <3>2 DEF ProgressOf
  <2>5. CASE s \notin scheduled
    <3>1. computed'[s] = computed[s] /\ stage'[s] = stage[s]
      BY <1>0, <2>3, <2>5
    <3>2. QED
      BY <1>0, <2>1, <2>2, <2>3, <3>1 DEF ProgressOf
  <2>6. QED
    BY <2>4, <2>5
<1>4. ASSUME NEW s \in Seqs PROVE Covered(s)'
  <2>1. ~Unplaced(s)' => computed'[s] <= len'[s]
    BY <1>0, <1>2, <1>3 DEF ProgressOf, Placed, Unplaced, TypeOK, SequencesTypeOK, Statuses
  <2>2. computed'[s] \in Nat /\ len'[s] \in Nat /\ tokenBudget'[GroupOf[s]] = 0
    BY <1>0, <1>2, SequenceGroupsAssumption DEF ProgressTypes, TypeOK, SequencesTypeOK
  <2>3. QED
    BY <2>1, <2>2 DEF Covered
<1>5. BudgetInv'
  BY <1>0, <1>4 DEF BudgetInv, Counted
<1>6. QED
  BY <1>2, <1>3, <1>5 DEF ProgressOK, ProgressInv

\* A prompt that is not at its end yet keeps its sequence, any other gets a
\* token and is no longer computed to its end.
LEMMA OutputProgress ==
    ASSUME IInv, ProgressOK, Working, NEW p \in Seqs, EndChunk(p) \/ Continue(p), UNCHANGED policy
    PROVE  ProgressOK'
<1>0. /\ ProgressTypes /\ ProgressInv /\ BudgetInv /\ TypeOK /\ RoundInv
      /\ pc = "outputs" /\ p \in scheduled /\ scheduled' = scheduled \ {p}
      /\ UNCHANGED <<status, pc, computed, stage, tokenBudget, seqBudget, currLoras, batch>>
  BY DEF ProgressOK, EndChunk, Continue, SkipSample, AppendToken, Ran, At, IInv, roundVars,
     resultVars, budgetVars, progress
<1>1. ProgressTypes'
  BY <1>0 DEF ProgressTypes
<1>2. ASSUME NEW s \in Seqs, s \notin {p}, len'[s] = len[s], sampled' \subseteq sampled \cup {p}
      PROVE  LeftAlone(s) /\ Covered(s)'
  <2>1. Unfinished(GroupOf[s])' = Unfinished(GroupOf[s]) /\ SameProgress(s)
    BY <1>0, <1>2, SameStatus DEF SameProgress
  <2>2. LeftAlone(s)
    BY <1>0, <1>2, <2>1 DEF LeftAlone, ProgressInv, ProgressOf
  <2>3. QED
    BY <1>0, <1>2, <2>2 DEF BudgetInv, Covered, Unplaced
<1>3. /\ sampled' \subseteq sampled \cup {p} /\ \A s \in Seqs : s \notin {p} => len'[s] = len[s]
  BY <1>0 DEF EndChunk, Continue, SkipSample, AppendToken, TypeOK, SequencesTypeOK
<1>4. ProgressOf(p)' /\ Covered(p)'
  <2>1. /\ ProgressOf(p) /\ Covered(p) /\ Placed(p) /\ status[p] = "RUNNING"
        /\ len[p] \in Nat /\ computed[p] \in Nat /\ stage[p] \in {"PREFILL", "DECODE"}
    BY <1>0 DEF RoundInv, Placed, ProgressInv, BudgetInv, TypeOK, SequencesTypeOK, ProgressTypes
  <2>2. Unfinished(GroupOf[p])' = Unfinished(GroupOf[p]) /\ (Placed(p)' <=> Placed(p))
    BY <1>0, SameStatus DEF Placed
  <2>3. CASE EndChunk(p)
    <3>1. computed[p] < len[p] /\ len' = len /\ sampled' = sampled
      BY <2>3 DEF EndChunk, SkipSample
    <3>2. QED
      BY <1>0, <2>1, <2>2, <3>1 DEF ProgressOf, Covered, Unplaced
  <2>4. CASE Continue(p)
    <3>1. computed[p] = len[p] /\ len'[p] = len[p] + 1
      BY <1>0, <2>4 DEF Continue, AppendToken, TypeOK, SequencesTypeOK
    <3>2. stage[p] = "DECODE"
      BY <2>1, <3>1 DEF ProgressOf
    <3>3. QED
      BY <1>0, <2>1, <2>2, <3>1, <3>2 DEF ProgressOf, Covered, Unplaced
  <2>5. QED
    BY <2>3, <2>4
<1>5. \A h \in Groups : Counted(h)'
  BY <1>0 DEF BudgetInv, Counted
<1>6. BudgetInv'
  BY <1>0, <1>2, <1>3, <1>4, <1>5 DEF BudgetInv
<1>7. QED
  <2>1. \A s \in Seqs : (s \notin {p} => LeftAlone(s)) /\ (s \in {p} => ProgressOf(s)')
    BY <1>2, <1>3, <1>4
  <2>2. QED
    BY <1>1, <1>6, <2>1, LeftAloneKeep

LEMMA ActionsProgress ==
    ASSUME IInv, IInv', QueuesOK, ProgressOK, Working, EngineStep \/ Client
    PROVE  ProgressOK'
<1>0. TypeOK /\ UNCHANGED policy
  BY DEF IInv, EngineStep, Client
<1>1. CASE Schedule
  <2>1. CASE \/ StartSchedule \/ SkipPrompt \/ EndPrefills \/ TakeCurrent \/ EndRunning
             \/ SkipSwapped \/ EndSwapped \/ CheckBudget \/ EndSchedule
             \/ ReturningIsScheduled
    BY <1>0, <2>1, StillActions
  <2>2. CASE IgnorePrompt
    <3>1. Finish({Prompt}) /\ pc = "prefills" /\ UNCHANGED <<pc, progress, roundVars>>
          /\ waiting # << >>
      BY <2>2 DEF IgnorePrompt, Prefilling, At
    <3>2. {Prompt} \in SUBSET Seqs
      BY <3>1, HeadOfWaiting
    <3>3. QED
      BY <1>0, <3>1, <3>2, FinishProgress
  <2>3. CASE AdmitPrompt
    BY <1>0, <2>3, AdmitPromptProgress
  <2>4. CASE CurrentIsScheduled
    BY <1>0, <2>4, CurrentIsScheduledProgress
  <2>5. CASE RecomputeYoungest
    BY <1>0, <2>5, RecomputeYoungestProgress
  <2>6. CASE SwapOutYoungest
    BY <1>0, <2>6, SwapOutYoungestProgress
  <2>7. CASE SwapInOldest
    BY <1>0, <2>7, SwapInOldestProgress
  <2>8. CASE \E s \in Seqs : AppendSlotsOfCurrent(s) \/ AppendSlotsOfReturning(s)
    BY <1>0, <2>8, SlotsKeep
  <2>9. QED
    BY <1>1, <2>1, <2>2, <2>3, <2>4, <2>5, <2>6, <2>7, <2>8 DEF Schedule
<1>2. CASE ScheduleFails
  BY <1>0, <1>2, StillActions DEF ScheduleFails
<1>3. CASE ProcessOutputs
  <2>1. CASE EndOutputs \/ EndForks \/ EndStep
    BY <1>0, <2>1, StillActions
  <2>2. CASE Execute
    BY <1>0, <2>2, ExecuteProgress
  <2>3. ASSUME NEW s \in Seqs, EndChunk(s) \/ Continue(s)
        PROVE  ProgressOK'
    BY <1>0, <2>3, OutputProgress
  <2>4. ASSUME NEW s \in Seqs, DropParent(s) \/ DropUnselected(s)
        PROVE  ProgressOK'
    <3>1. /\ RemoveSeq(s) /\ StartAgain({s}) /\ pc \in {"outputs", "trim"}
          /\ UNCHANGED <<pc, roundVars>>
      BY <2>4 DEF DropParent, DropUnselected, At
    <3>2. QED
      BY <1>0, <3>1, RemoveProgress
  <2>5. ASSUME NEW s \in Seqs, StopSeq(s)
        PROVE  ProgressOK'
    <3>1. /\ Finish({s}) /\ pc = "trim" /\ UNCHANGED <<pc, progress, roundVars>>
          /\ {s} \in SUBSET Seqs
      BY <2>5 DEF StopSeq, Stop, At
    <3>2. QED
      BY <1>0, <3>1, FinishProgress
  <2>6. ASSUME NEW s \in Seqs, NEW c \in Seqs, ForkChild(s, c)
        PROVE  ProgressOK'
    BY <1>0, <2>6, ForkChildProgress
  <2>7. QED
    BY <1>3, <2>1, <2>2, <2>3, <2>4, <2>5, <2>6 DEF ProcessOutputs
<1>4. CASE Client
  <2>1. ASSUME NEW g \in Groups, AddGroup(g)
        PROVE  ProgressOK'
    BY <1>0, <2>1, AddGroupProgress
  <2>2. ASSUME NEW g \in Groups, AbortGroup(g)
        PROVE  ProgressOK'
    <3>1. /\ Finish(Unfinished(g)) /\ pc = "idle" /\ UNCHANGED <<pc, progress, roundVars>>
      BY <2>2 DEF AbortGroup, Abort, At
    <3>2. Unfinished(g) \in SUBSET Seqs
      BY DEF Unfinished, Members
    <3>3. QED
      BY <1>0, <3>1, <3>2, FinishProgress
  <2>3. QED
    BY <1>4, <2>1, <2>2 DEF Client
<1>5. QED
  BY <1>1, <1>2, <1>3, <1>4 DEF EngineStep
-----------------------------------------------------------------------------
(***************************************************************************)
(* The theorems                                                            *)
(***************************************************************************)
TokensInv == IInv /\ QueuesOK /\ StoredInv /\ ProgressOK

LEMMA InitTokensInv ==
    ASSUME WindowsAreUnshared, SchedulerInit
    PROVE  TokensInv
<1>1. IInv /\ QueuesOK
  BY InitQueuesOK
<1>2. /\ status = [s \in Seqs |-> "UNUSED"] /\ scheduled = {} /\ policy \in Policies /\ pc = "idle"
      /\ computed = [s \in Seqs |-> 0] /\ stage = [s \in Seqs |-> "PREFILL"]
      /\ tokenBudget = [g \in Groups |-> 0] /\ seqBudget = [g \in Groups |-> 0] /\ currLoras = {}
  BY DEF SchedulerInit, Init, SequencesInit, Nothing
<1>3. StoredInv
  BY <1>2 DEF StoredInv, Placed
<1>4. ProgressTypes
  BY <1>2 DEF ProgressTypes, Phases
<1>5. ProgressInv
  BY <1>2 DEF ProgressInv, ProgressOf, Placed
<1>6. BudgetInv
  BY <1>2 DEF BudgetInv, Covered, Counted, Unplaced
<1>7. QED
  BY <1>1, <1>3, <1>4, <1>5, <1>6 DEF TokensInv, ProgressOK

LEMMA NextTokensInv ==
    ASSUME WindowsAreUnshared, TokensInv, [SchedulerNext]_schedulerVars
    PROVE  TokensInv'
<1>1. IInv /\ QueuesOK /\ StoredInv /\ ProgressOK
  BY DEF TokensInv
<1>2. (IInv /\ QueuesOK)' /\ [Next]_vars
  BY <1>1, NextQueuesOK
<1>3. StoredInv'
  BY <1>1, <1>2, StoredKept
<1>4. ProgressOK'
  <2>1. CASE EngineStep \/ Client
    BY <1>1, <1>2, <2>1, ActionsWork, ActionsProgress
  <2>2. CASE UNCHANGED schedulerVars
    <3>1. UNCHANGED <<vars, policy, pc, queueVars, progress, roundVars>>
      BY <2>2 DEF schedulerVars
    <3>2. UNCHANGED <<status, len, blockTables, refCount, freeBlocks, scheduled, sampled, err,
                      policy, pc, arrivals, waiting, running, swapped, computed, stage, batch,
                      preempted, swappedOut, leftover, tokenBudget, seqBudget, currLoras>>
      BY <3>1 DEF vars, blockVars, queueVars, progress, roundVars, resultVars, budgetVars
    <3>3. ProgressTypes'
      BY <1>1, <3>2 DEF ProgressOK, ProgressTypes
    <3>4. \A s \in Seqs : ProgressOf(s)'
      <4>1. \A s \in Seqs : Unfinished(GroupOf[s])' = Unfinished(GroupOf[s])
        BY <3>2, SameStatus
      <4>2. QED
        BY <1>1, <3>2, <4>1 DEF ProgressOK, ProgressInv, ProgressOf, Placed
    <3>5. BudgetInv'
      <4>1. \A g : HasReturned(g)' <=> HasReturned(g)
        BY <3>2, SameStatus DEF HasReturned, Returning, Oldest, Rank
      <4>2. (NegativeChunk' <=> NegativeChunk) /\ (Working' <=> Working)
        BY <3>2 DEF NegativeChunk, Chunk, Working, Alive
      <4>3. BudgetInv
        BY <1>1 DEF ProgressOK
      <4>4. QED
        BY <3>2, <4>1, <4>2, <4>3 DEF BudgetInv, Covered, Counted, Unplaced
    <3>6. QED
      BY <3>3, <3>4, <3>5 DEF ProgressOK, ProgressInv
  <2>3. QED
    BY <2>1, <2>2 DEF SchedulerNext, Stopped
<1>5. QED
  BY <1>2, <1>3, <1>4 DEF TokensInv

\* Every variable of the scheduler keeps its type: what the budget has for a
\* group may be negative, a number of computed tokens never is.
THEOREM SchedulerTypes ==
    ASSUME WindowsAreUnshared
    PROVE  SchedulerSpec => []SchedulerTypeOK
<1>1. SchedulerInit => TokensInv
  BY InitTokensInv
<1>2. TokensInv /\ [SchedulerNext]_schedulerVars => TokensInv'
  BY NextTokensInv
<1>3. TokensInv => SchedulerTypeOK
  BY DEF TokensInv, IInv, QueuesOK, QueueTypes, ProgressOK, ProgressTypes, SchedulerTypeOK
<1>4. QED
  BY <1>1, <1>2, <1>3, PTL DEF SchedulerSpec

\* What is computed is stored: a sequence that is not finished has no more
\* computed tokens than it has tokens, nor than its blocks have room for.
THEOREM ComputedIsStored ==
    ASSUME WindowsAreUnshared
    PROVE  SchedulerSpec => []ComputedTokensAreStored
<1>1. SchedulerInit => TokensInv
  BY InitTokensInv
<1>2. TokensInv /\ [SchedulerNext]_schedulerVars => TokensInv'
  BY NextTokensInv
<1>3. TokensInv => ComputedTokensAreStored
  <2>1. SUFFICES ASSUME TokensInv, NEW s \in Seqs, status[s] # "FINISHED"
                 PROVE  computed[s] <= len[s] /\ computed[s] <= BlockSize * Len(blockTables[s])
    BY DEF ComputedTokensAreStored
  <2>2. /\ TypeOK /\ FitInv /\ StoredInv /\ ProgressOf(s)
        /\ len[s] \in Nat /\ computed[s] \in Nat /\ BlockSize * Len(blockTables[s]) \in Nat
    BY <2>1, SequenceGroupsAssumption
       DEF TokensInv, IInv, TypeOK, SequencesTypeOK, ProgressOK, ProgressInv, ProgressTypes
  <2>3. CASE Placed(s) /\ computed[s] = len[s]
    BY <2>2, <2>3, FullTable DEF ProgressOf, FitInv
  <2>4. CASE Placed(s) /\ computed[s] # len[s]
    BY <2>2, <2>4 DEF ProgressOf, StoredInv
  <2>5. CASE ~Placed(s)
    BY <2>1, <2>2, <2>5 DEF Placed, TypeOK, SequencesTypeOK, Statuses, ProgressOf
  <2>6. QED
    BY <2>3, <2>4, <2>5
<1>4. QED
  BY <1>1, <1>2, <1>3, PTL DEF SchedulerSpec
-----------------------------------------------------------------------------
(***************************************************************************)
(* Batches without chunked prefill                                         *)
(***************************************************************************)
\* A round of prompts: whatever is placed and not past its prompt is new, has
\* its whole prompt in the budget, and nothing else is scheduled.
Prompts ==
    /\ swapped = {} /\ swappedOut = {}
    /\ \A s \in Seqs :
         /\ Placed(s) /\ stage[s] = "PREFILL" =>
              s \in scheduled /\ computed[s] = 0 /\ tokenBudget[GroupOf[s]] = len[s]
         /\ s \in scheduled => stage[s] = "PREFILL" /\ GroupOf[s] \in batch

\* A round of decodes: everything placed is past its prompt.
Decodes == \A s \in Seqs : Placed(s) => stage[s] = "DECODE"

UniformInv ==
    /\ pc = "execute" => Alive
    /\ Working /\ ~ChunkedPrefill =>
         /\ pc = "prefills" => Prompts
         /\ pc \in {"end", "queues", "execute"} => Prompts \/ Decodes
         /\ pc \notin {"prefills", "end", "queues", "execute"} => Decodes

\* Steps after which the same sequences are placed, or fewer, at the stage they
\* were at.
LEMMA DecodesStay ==
    ASSUME Decodes,
           \A s \in Seqs : Placed(s)' => Placed(s) /\ (stage[s] = "DECODE" => stage'[s] = "DECODE")
    PROVE  Decodes'
BY DEF Decodes

LEMMA DecodesKept ==
    ASSUME IInv, IInv', ProgressOK, Working, EngineStep \/ Client, pc # "prefills", Decodes
    PROVE  Decodes'
<1>0. ProgressInv /\ TypeOK /\ ProgressTypes
  BY DEF ProgressOK, IInv
<1>1. CASE \/ StartSchedule \/ SkipPrompt \/ EndPrefills \/ TakeCurrent \/ CurrentIsScheduled
           \/ EndRunning \/ SkipSwapped \/ ReturningIsScheduled \/ EndSwapped \/ CheckBudget
           \/ EndSchedule \/ LoraKeyError \/ ReturningHasMoreTokens
           \/ EndOutputs \/ EndForks \/ EndStep
  <2>1. status' = status /\ stage' = stage
    BY <1>1 DEF StartSchedule, SkipPrompt, EndPrefills, TakeCurrent, CurrentIsScheduled,
       EndRunning, SkipSwapped, ReturningIsScheduled, EndSwapped, CheckBudget, EndSchedule,
       LoraKeyError, ReturningHasMoreTokens, Fail, EndOutputs, EndForks, EndStep, vars, progress
  <2>2. QED
    BY <2>1, DecodesStay DEF Placed
<1>2. CASE IgnorePrompt \/ AdmitPrompt
  BY <1>2 DEF IgnorePrompt, AdmitPrompt, Prefilling, At
<1>3. CASE \E s \in Seqs : \/ AppendSlotsOfCurrent(s) \/ AppendSlotsOfReturning(s)
                           \/ EndChunk(s) \/ Continue(s)
  <2>1. status' = status /\ stage' = stage
    BY <1>3 DEF AppendSlotsOfCurrent, AppendSlotsOfReturning, EndChunk, Continue, AppendSlots,
       AppendError, Raise, SkipSample, AppendToken, progress
  <2>2. QED
    BY <2>1, DecodesStay DEF Placed
<1>4. CASE RecomputeYoungest
  <2>1. PICK S : S = SeqsWith(Victim, "RUNNING")
    OBVIOUS
  <2>2. SetStatus(S, "WAITING") /\ StartAgain(S)
    BY <1>4, <2>1 DEF RecomputeYoungest, PreemptByRecompute, Raise, IInv, NoBlockError
  <2>3. QED
    BY <2>2, DecodesStay DEF SetStatus, StartAgain, Placed
<1>5. CASE SwapOutYoungest
  BY <1>5, DecodesStay DEF SwapOutYoungest, PreemptBySwap, MoveError, Raise, SetStatus, SeqsWith, Placed,
     progress
<1>6. CASE SwapInOldest
  BY <1>6, DecodesStay DEF SwapInOldest, SwapIn, MoveError, Raise, SetStatus, SeqsWith, Placed, progress
<1>7. CASE Execute
  <2>1. status' = status /\ \A s \in Seqs : stage[s] = "DECODE" => stage'[s] = "DECODE"
    BY <1>7 DEF Execute, vars
  <2>2. QED
    BY <2>1, DecodesStay DEF Placed
<1>8. ASSUME NEW s \in Seqs, DropParent(s) \/ DropUnselected(s)
      PROVE  Decodes'
  <2>1. SetStatus({s}, "UNUSED") /\ StartAgain({s})
    BY <1>8 DEF DropParent, DropUnselected, RemoveSeq, Raise, IInv, NoBlockError
  <2>2. QED
    BY <2>1, DecodesStay DEF SetStatus, StartAgain, Placed
<1>9. ASSUME NEW S, Finish(S), stage' = stage
      PROVE  Decodes'
  BY <1>9, DecodesStay DEF Finish, Raise, SetStatus, Placed
<1>10. ASSUME NEW s \in Seqs, StopSeq(s)
       PROVE  Decodes'
  BY <1>9, <1>10 DEF StopSeq, Stop, progress
<1>11. ASSUME NEW p \in Seqs, NEW c \in Seqs, ForkChild(p, c)
       PROVE  Decodes'
  <2>1. /\ p \in sampled /\ status[p] = "RUNNING" /\ stage' = [stage EXCEPT ![c] = stage[p]]
        /\ \A s \in Seqs : s # c => status'[s] = status[s]
    BY <1>11 DEF ForkChild, Fork, SetStatus
  <2>2. stage[p] = "DECODE"
    BY <1>0, <2>1 DEF ProgressInv, ProgressOf
  <2>3. QED
    BY <1>0, <2>1, <2>2 DEF Decodes, Placed, ProgressTypes
<1>12. ASSUME NEW g \in Groups, AbortGroup(g)
       PROVE  Decodes'
  BY <1>9, <1>12 DEF AbortGroup, Abort, progress
<1>13. ASSUME NEW g \in Groups, AddGroup(g)
       PROVE  Decodes'
  <2>1. /\ AddRequest(g)
        /\ \A s \in Seqs : GroupOf[s] # g => stage'[s] = stage[s]
    BY <1>13 DEF AddGroup, StartAgain
  <2>2. \A s \in Seqs : Placed(s)' => Placed(s) /\ GroupOf[s] # g
    BY <2>1, SequenceGroupsAssumption DEF AddRequest, Placed
  <2>3. QED
    BY <2>1, <2>2, DecodesStay
<1>14. QED
  BY <1>1, <1>2, <1>3, <1>4, <1>5, <1>6, <1>7, <1>8, <1>10, <1>11, <1>12, <1>13
     DEF EngineStep, Client, Schedule, ScheduleFails, ProcessOutputs

\* Steps of a round of prompts that schedule nothing new.
LEMMA PromptsStay ==
    ASSUME Prompts, swapped' \subseteq swapped \cup swappedOut, swappedOut' \subseteq swappedOut,
           UNCHANGED <<len, computed, stage, tokenBudget, batch>>, scheduled' \subseteq scheduled,
           \A s \in Seqs : Placed(s)' => Placed(s) /\ (s \in scheduled => s \in scheduled')
    PROVE  Prompts'
BY DEF Prompts

LEMMA AdmitPromptPrompts ==
    ASSUME IInv, QueuesOK, ProgressOK, Working, ~ChunkedPrefill, AdmitPrompt, Prompts
    PROVE  Prompts'
<1>0. /\ pc = "prefills" /\ waiting # << >> /\ TypeOK /\ RoundInv
      /\ QueueTypes /\ PlacesInv /\ ProgressTypes /\ ProgressInv /\ BudgetInv
  BY DEF AdmitPrompt, Prefilling, At, QueuesOK, QueueInv, ProgressOK, IInv
<1>1. PICK g : g = Head(waiting)
  OBVIOUS
<1>2. PICK p \in Seqs : /\ g \in Groups /\ GroupOf[p] = g /\ g \in Range(waiting)
                        /\ Members(g) = {p} /\ SeqsWith(g, "WAITING") = {p}
  <2>1. /\ g \in Groups /\ Prompt \in Seqs /\ Members(g) = {Prompt} /\ g \in Range(waiting)
        /\ SeqsWith(g, "WAITING") = {Prompt}
    BY <1>0, <1>1, HeadOfWaiting
  <2>2. GroupOf[Prompt] = g
    BY <2>1 DEF SeqsWith
  <2>3. QED
    BY <2>1, <2>2
<1>3. PICK n : n = PromptTokens
  OBVIOUS
<1>4. /\ Allocate(g) /\ UNCHANGED <<progress, pc, swapped, swappedOut>>
      /\ batch' = batch \cup {g}
      /\ tokenBudget' = Count(tokenBudget, g, n)
  BY <1>1, <1>3 DEF AdmitPrompt
<1>5. n = len[p] - computed[p] /\ n \in Int
  BY <1>0, <1>1, <1>2, <1>3, NewTokensAre, ChunkedNewTokensAre DEF PromptTokens
<1>6. /\ status' = [s \in Seqs |-> IF s = p THEN "RUNNING" ELSE status[s]]
      /\ UNCHANGED <<len, computed, stage>> /\ scheduled' = scheduled \cup {p}
  BY <1>2, <1>4, AllocateSucceeds DEF SetStatus, progress
<1>7. computed[p] = 0 /\ stage[p] = "PREFILL" /\ len[p] \in Nat /\ status[p] = "WAITING"
  BY <1>0, <1>2 DEF ProgressInv, ProgressOf, TypeOK, SequencesTypeOK, SeqsWith
<1>8. tokenBudget[g] = 0
  <2>1. g \notin batch /\ ~HasReturned(g)
    BY <1>0, <1>2, OnePlace DEF Waiters, Runners
  <2>2. QED
    BY <1>0, <1>2, <2>1 DEF BudgetInv, Counted
<1>9. /\ tokenBudget'[g] = len[p]
      /\ \A h \in Groups : h # g => tokenBudget'[h] = tokenBudget[h]
  <2>1. n = len[p]
    BY <1>5, <1>7
  <2>2. tokenBudget \in [Groups -> Int] /\ g \in Groups
    BY <1>0, <1>2 DEF ProgressTypes
  <2>3. \A h \in Groups : tokenBudget'[h] = IF h = g THEN n ELSE tokenBudget[h]
    BY <1>4, <1>8, <2>2 DEF Count
  <2>4. QED
    BY <2>1, <2>2, <2>3
<1>10. ASSUME NEW s \in Seqs
       PROVE  /\ Placed(s)' /\ stage'[s] = "PREFILL" =>
                   s \in scheduled' /\ computed'[s] = 0 /\ tokenBudget'[GroupOf[s]] = len'[s]
              /\ s \in scheduled' => stage'[s] = "PREFILL" /\ GroupOf[s] \in batch'
  <2>1. CASE s = p
    BY <1>2, <1>4, <1>6, <1>7, <1>9, <2>1
  <2>2. CASE s # p
    <3>1. Placed(s)' <=> Placed(s)
      BY <1>6, <2>2 DEF Placed
    <3>2. Placed(s) => GroupOf[s] # g /\ GroupOf[s] \in Groups
      BY <1>2, <2>2, SequenceGroupsAssumption DEF Members, Placed
    <3>3. QED
      BY <1>4, <1>6, <1>9, <2>2, <3>1, <3>2 DEF Prompts
  <2>3. QED
    BY <2>1, <2>2
<1>11. QED
  BY <1>4, <1>10 DEF Prompts

LEMMA ActionsUniform ==
    ASSUME TokensInv, TokensInv', Working, UniformInv, EngineStep \/ Client
    PROVE  UniformInv'
<1>0. /\ IInv /\ IInv' /\ QueuesOK /\ ProgressOK /\ TypeOK /\ RoundInv /\ BudgetInv /\ PhaseInv
      /\ UNCHANGED policy
  BY DEF TokensInv, IInv, QueuesOK, QueueInv, ProgressOK, EngineStep, Client
<1>1. \/ pc' # "execute"
      \/ EndSchedule
  BY <1>0 DEF EngineStep, Client, Schedule, ScheduleFails, ProcessOutputs, StartSchedule,
     SkipPrompt, IgnorePrompt, AdmitPrompt, EndPrefills, TakeCurrent, CurrentIsScheduled,
     EndRunning,
     SkipSwapped, ReturningIsScheduled, EndSwapped, CheckBudget, LoraKeyError,
     ReturningHasMoreTokens, Fail, EndOutputs, EndForks, EndStep, RecomputeYoungest,
     SwapOutYoungest, GiveUp, SwapInOldest, AppendSlotsOfCurrent, AppendSlotsOfReturning,
     EndChunk, Continue, DropParent, DropUnselected, StopSeq, ForkChild, Execute, AbortGroup,
     AddGroup, At, Prefilling, Decoding, Swapping, NoRoom, Failures
<1>2. pc' = "execute" => Alive'
  BY <1>1 DEF EndSchedule, At, Alive, vars
<1>3. SUFFICES ASSUME Working', ~ChunkedPrefill
               PROVE  /\ pc' = "prefills" => Prompts'
                      /\ pc' \in {"end", "queues", "execute"} => Prompts' \/ Decodes'
                      /\ pc' \notin {"prefills", "end", "queues", "execute"} => Decodes'
  BY <1>0, <1>2 DEF UniformInv, ChunkedPrefill
<1>4. CASE pc = "prefills"
  <2>1. Prompts
    BY <1>3, <1>4 DEF UniformInv
  <2>2. IgnorePrompt \/ SkipPrompt \/ AdmitPrompt \/ EndPrefills
    BY <1>4 DEF EngineStep, Client, Schedule, ScheduleFails, ProcessOutputs, StartSchedule,
     TakeCurrent, CurrentIsScheduled, EndRunning,
     SkipSwapped, ReturningIsScheduled, EndSwapped, CheckBudget, LoraKeyError, EndSchedule,
     ReturningHasMoreTokens, EndOutputs, EndForks, EndStep, RecomputeYoungest,
     SwapOutYoungest, SwapInOldest, AppendSlotsOfCurrent, AppendSlotsOfReturning,
     EndChunk, Continue, DropParent, DropUnselected, StopSeq, ForkChild, Execute, AbortGroup,
     AddGroup, At, Decoding, Swapping, NoRoom
  <2>3. CASE IgnorePrompt
    <3>1. /\ Finish({Prompt}) /\ pc' = pc
          /\ UNCHANGED <<swapped, swappedOut, computed, stage, tokenBudget, batch>>
      BY <2>3 DEF IgnorePrompt, progress, roundVars, resultVars, budgetVars
    <3>2. /\ SetStatus({Prompt}, "FINISHED") /\ len' = len /\ scheduled' = scheduled \ {Prompt}
      BY <1>0, <3>1 DEF Finish, Raise, IInv, NoBlockError
    <3>3. \A s \in Seqs : Placed(s)' => Placed(s) /\ (s \in scheduled => s \in scheduled')
      BY <3>2 DEF SetStatus, Placed
    <3>4. Prompts'
      BY <2>1, <3>1, <3>2, <3>3, PromptsStay
    <3>5. QED
      BY <1>4, <3>1, <3>4
  <2>4. CASE SkipPrompt
    <3>1. /\ UNCHANGED <<status, len, scheduled, pc, swapped, swappedOut, computed, stage,
                         tokenBudget, batch>>
      BY <2>4 DEF SkipPrompt, progress, budgetVars, vars
    <3>2. Prompts'
      BY <2>1, <3>1, PromptsStay DEF Placed
    <3>3. QED
      BY <1>4, <3>1, <3>2
  <2>5. CASE AdmitPrompt
    <3>1. pc' = pc
      BY <2>5 DEF AdmitPrompt
    <3>2. Prompts'
      BY <1>0, <1>3, <2>1, <2>5, AdmitPromptPrompts
    <3>3. QED
      BY <1>4, <3>1, <3>2
  <2>6. CASE EndPrefills
    <3>1. /\ UNCHANGED <<status, len, scheduled, swapped, swappedOut, computed, stage,
                         tokenBudget, batch>>
          /\ pc' = IF batch # {} THEN "end" ELSE "running"
      BY <1>3, <2>6 DEF EndPrefills, progress, budgetVars, vars
    <3>2. Prompts'
      BY <2>1, <3>1, PromptsStay DEF Placed
    <3>3. batch = {} => Decodes'
      <4>1. batch = {} => Decodes
        BY <1>0, <2>1 DEF Prompts, Decodes, ProgressOK, ProgressTypes
      <4>2. QED
        BY <3>1, <4>1, DecodesStay DEF Placed
    <3>4. QED
      BY <3>1, <3>2, <3>3
  <2>7. QED
    BY <2>2, <2>3, <2>4, <2>5, <2>6
<1>5. CASE Decodes /\ pc # "prefills"
  <2>1. Decodes'
    BY <1>0, <1>5, DecodesKept
  <2>2. ASSUME pc' = "prefills"
        PROVE  StartSchedule /\ swapped = {}
    <3>1. StartSchedule \/ EndRunning \/ EndSwapped
      BY <1>5, <2>2 DEF EngineStep, Client, Schedule, ScheduleFails, ProcessOutputs, SkipPrompt,
         IgnorePrompt, AdmitPrompt, EndPrefills, TakeCurrent, CurrentIsScheduled,
         SkipSwapped, ReturningIsScheduled, CheckBudget, LoraKeyError, EndSchedule,
         ReturningHasMoreTokens, Fail, EndOutputs, EndForks, EndStep, RecomputeYoungest,
         SwapOutYoungest, GiveUp, SwapInOldest, AppendSlotsOfCurrent, AppendSlotsOfReturning,
         EndChunk, Continue, DropParent, DropUnselected, StopSeq, ForkChild, Execute, AbortGroup,
         AddGroup, At, Prefilling, Decoding, Swapping, NoRoom, Failures
    <3>2. QED
      BY <1>3, <2>2, <3>1 DEF StartSchedule, EndRunning, EndSwapped
  <2>3. pc' = "prefills" => Prompts'
    <3>1. SUFFICES ASSUME pc' = "prefills" PROVE Prompts'
      OBVIOUS
    <3>2. /\ pc = "idle" /\ swapped' = {} /\ swappedOut' = swappedOut /\ scheduled' = scheduled
          /\ stage' = stage
      BY <2>2, <3>1 DEF StartSchedule, At, queueVars, resultVars, vars, progress
    <3>3. scheduled = {} /\ swappedOut = {}
      BY <1>0, <3>2 DEF BudgetInv, PhaseInv
    <3>4. QED
      BY <2>1, <3>2, <3>3 DEF Prompts, Decodes
  <2>4. QED
    BY <2>1, <2>3
<1>6. CASE Prompts /\ pc \in {"end", "queues", "execute"}
  <2>1. CheckBudget \/ EndSchedule \/ Execute
    BY <1>6 DEF EngineStep, Client, Schedule, ScheduleFails, ProcessOutputs, StartSchedule,
       IgnorePrompt, SkipPrompt, AdmitPrompt, EndPrefills, TakeCurrent, CurrentIsScheduled,
       EndRunning, SkipSwapped, ReturningIsScheduled, EndSwapped, LoraKeyError,
       ReturningHasMoreTokens, EndOutputs, EndForks, EndStep, RecomputeYoungest,
       SwapOutYoungest, SwapInOldest, AppendSlotsOfCurrent, AppendSlotsOfReturning,
       EndChunk, Continue, DropParent, DropUnselected, StopSeq, ForkChild, AbortGroup,
       AddGroup, At, Prefilling, Decoding, Swapping, NoRoom
  <2>2. CASE CheckBudget \/ EndSchedule
    <3>1. /\ UNCHANGED <<status, len, scheduled, computed, stage, tokenBudget, batch>>
          /\ swapped' \subseteq swapped \cup swappedOut /\ swappedOut' \subseteq swappedOut
          /\ pc' \in {"queues", "execute", "AssertionError"}
      BY <2>2 DEF CheckBudget, EndSchedule, vars, progress, queueVars, roundVars, resultVars,
         budgetVars
    <3>2. Prompts'
      BY <1>6, <3>1, PromptsStay DEF Placed
    <3>3. pc' # "AssertionError"
      BY <1>3 DEF Working, Phases
    <3>4. QED
      BY <3>1, <3>2, <3>3
  <2>3. CASE Execute
    <3>1. /\ UNCHANGED <<status, len, scheduled>> /\ pc' = "outputs"
          /\ computed' = [s \in Seqs |-> computed[s] + IF s \in scheduled THEN Chunk(s) ELSE 0]
          /\ stage' = [s \in Seqs |-> IF s \in scheduled /\ computed'[s] = len[s] THEN "DECODE"
                                      ELSE stage[s]]
      BY <2>3 DEF Execute, vars
    <3>2. ASSUME NEW s \in Seqs, Placed(s)' PROVE stage'[s] = "DECODE"
      <4>1. Placed(s) /\ stage[s] \in {"PREFILL", "DECODE"} /\ len[s] \in Nat
        BY <1>0, <3>1, <3>2
           DEF Placed, ProgressOK, ProgressTypes, TypeOK, SequencesTypeOK
      <4>2. CASE stage[s] = "PREFILL"
        <5>1. s \in scheduled /\ computed[s] = 0 /\ tokenBudget[GroupOf[s]] = len[s]
          BY <1>6, <4>1, <4>2 DEF Prompts
        <5>2. computed'[s] = len[s]
          BY <3>1, <4>1, <4>2, <5>1 DEF Chunk
        <5>3. QED
          BY <3>1, <5>1, <5>2
      <4>3. CASE stage[s] = "DECODE"
        BY <3>1, <4>3
      <4>4. QED
        BY <4>1, <4>2, <4>3
    <3>3. QED
      BY <3>1, <3>2 DEF Decodes
  <2>4. QED
    BY <2>1, <2>2, <2>3
<1>7. QED
  BY <1>3, <1>4, <1>5, <1>6 DEF UniformInv

\* Both hold in every state.
LEMMA UniformTokens ==
    ASSUME WindowsAreUnshared
    PROVE  SchedulerSpec => [](TokensInv /\ UniformInv)
<1>1. SchedulerInit => TokensInv /\ UniformInv
  <2>1. SchedulerInit => UniformInv
    BY DEF SchedulerInit, Init, SequencesInit, UniformInv, Decodes, Placed
  <2>2. QED
    BY <2>1, InitTokensInv
<1>2. TokensInv /\ UniformInv /\ [SchedulerNext]_schedulerVars => (TokensInv /\ UniformInv)'
  <2>1. SUFFICES ASSUME TokensInv, UniformInv, [SchedulerNext]_schedulerVars
                 PROVE  UniformInv'
    BY NextTokensInv
  <2>2. CASE EngineStep \/ Client
    BY <2>1, <2>2, NextTokensInv, ActionsWork, ActionsUniform
  <2>3. CASE UNCHANGED schedulerVars
    <3>1. UNCHANGED <<status, len, scheduled, err, policy, pc, swapped, computed, stage, batch,
                      swappedOut, tokenBudget>>
      BY <2>3 DEF schedulerVars, vars, queueVars, progress, roundVars, resultVars, budgetVars
    <3>2. (Prompts' <=> Prompts) /\ (Decodes' <=> Decodes)
      BY <3>1 DEF Prompts, Decodes, Placed
    <3>3. QED
      BY <2>1, <3>1, <3>2 DEF UniformInv, Working, Alive, ChunkedPrefill
  <2>4. QED
    BY <2>1, <2>2, <2>3 DEF SchedulerNext, Stopped
<1>3. QED
  BY <1>1, <1>2, PTL DEF SchedulerSpec

\* Without chunked prefill every batch is a batch of whole prompts, while
\* nothing is swapped out, or a batch of decodes of one token each.
THEOREM BatchesAreUniform ==
    ASSUME WindowsAreUnshared
    PROVE  SchedulerSpec => []BatchIsUniform
<1>1. TokensInv /\ UniformInv => BatchIsUniform
  <2>1. SUFFICES ASSUME TokensInv, UniformInv, pc = "execute", ~ChunkedPrefill
                 PROVE  \/ swapped = {} /\ \A s \in scheduled : computed[s] = 0
                        \/ \A s \in scheduled : computed[s] = len[s] - 1
    BY DEF BatchIsUniform
  <2>2. Prompts \/ Decodes
    BY <2>1 DEF UniformInv, Working, Phases
  <2>3. \A s \in scheduled : s \in Seqs /\ Placed(s)
    BY <2>1 DEF TokensInv, IInv, RoundInv, Placed, TypeOK
  <2>4. CASE Prompts
    BY <2>3, <2>4 DEF Prompts
  <2>5. CASE Decodes
    <3>1. SUFFICES ASSUME NEW s \in scheduled PROVE computed[s] = len[s] - 1
      OBVIOUS
    <3>2. s \in Seqs /\ Placed(s) /\ stage[s] = "DECODE" /\ ProgressOf(s)
      BY <2>1, <2>3, <2>5, <3>1 DEF Decodes, TokensInv, ProgressOK, ProgressInv
    <3>3. computed[s] < len[s] /\ computed[s] \in Nat /\ len[s] \in Nat
      BY <2>1, <3>2, UnderWay DEF TokensInv, IInv
    <3>4. QED
      BY <3>2, <3>3 DEF ProgressOf
  <2>6. QED
    BY <2>2, <2>4, <2>5
<1>2. QED
  BY <1>1, UniformTokens, PTL
=============================================================================
