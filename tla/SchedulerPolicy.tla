--------------------------- MODULE SchedulerPolicy --------------------------
(***************************************************************************)
(* Proofs about Scheduler: in which order requests are served, that a      *)
(* batch stays within its budget of tokens, and that single sequences      *)
(* never meet an error of the scheduler.                                   *)
(***************************************************************************)
EXTENDS SchedulerProofs

\* The cases the theorems are about.  Skipping a group for its LoRA, and prompts
\* admitted after a preemption, do change the order.
DefaultPolicy == Policies = {"default"}
NoLoras == \A g \in Groups : LoraOf[g] = 0
-----------------------------------------------------------------------------
(***************************************************************************)
(* Arrival order                                                           *)
(***************************************************************************)
Older(g, h) == Rank(g) < Rank(h)
Sorted(q) == \A i, j \in 1..Len(q) : i < j => Older(q[i], q[j])

\* Two groups in a queue are in some order, and one that is not older than
\* another is younger.
LEMMA OlderIs ==
    ASSUME QueueTypes, NEW g \in Range(arrivals), NEW h \in Range(arrivals)
    PROVE  /\ g # h /\ Rank(g) <= Rank(h) => Older(g, h)
           /\ Older(g, h) => g # h
           /\ \A k \in Range(arrivals) : Older(g, h) /\ Older(h, k) => Older(g, k)
BY RankOf DEF Older

\* The same of the places after a step.
LEMMA RankAfter ==
    ASSUME QueueTypes', NEW g \in Range(arrivals')
    PROVE  Rank(g)' \in 1..Len(arrivals') /\ arrivals'[Rank(g)'] = g
<1>1. DOMAIN arrivals' = 1..Len(arrivals') /\ Len(arrivals') \in Nat
  BY DEF QueueTypes
<1>2. \E i \in DOMAIN arrivals' : arrivals'[i] = g
  BY DEF Range
<1>3. QED
  BY <1>1, <1>2 DEF Rank

\* Removing groups changes the order of no others.
LEMMA KeepsOrder ==
    ASSUME QueueTypes, IsInjective(arrivals), NEW S, arrivals' = Keep(arrivals, S)
    PROVE  /\ QueueTypes' => \A g, h \in Range(arrivals') : Older(g, h) => Older(g, h)'
           /\ Range(arrivals') = Range(arrivals) \cap S
<1>1. Range(arrivals') = Range(arrivals) \cap S
  BY KeepRange DEF QueueTypes
<1>2. ASSUME QueueTypes', NEW g \in Range(arrivals'), NEW h \in Range(arrivals'), Older(g, h)
      PROVE  Older(g, h)'
  <2>1. PICK m : Picks(arrivals', arrivals, m)
    BY KeepOf DEF QueueTypes
  <2>2. PICK i : i = Rank(g)'
    OBVIOUS
  <2>3. PICK j : j = Rank(h)'
    OBVIOUS
  <2>4. i \in 1..Len(arrivals') /\ arrivals'[i] = g
    BY <1>2, <2>2, RankAfter
  <2>5. j \in 1..Len(arrivals') /\ arrivals'[j] = h
    BY <1>2, <2>3, RankAfter
  <2>6. DOMAIN arrivals = 1..Len(arrivals)
    BY DEF QueueTypes
  <2>7. m[i] = Rank(g) /\ m[j] = Rank(h)
    <3>1. /\ m[i] \in DOMAIN arrivals /\ arrivals[m[i]] = g
          /\ m[j] \in DOMAIN arrivals /\ arrivals[m[j]] = h
      BY <2>1, <2>4, <2>5, <2>6 DEF Picks
    <3>2. /\ Rank(g) \in DOMAIN arrivals /\ arrivals[Rank(g)] = g
          /\ Rank(h) \in DOMAIN arrivals /\ arrivals[Rank(h)] = h
      BY <1>1, <1>2, <2>6, RankOf
    <3>3. QED
      BY <3>1, <3>2 DEF IsInjective
  <2>8. i < j
    <3>1. m[i] < m[j] /\ i \in Nat /\ j \in Nat /\ m[i] \in Nat /\ m[j] \in Nat
      BY <1>2, <2>1, <2>4, <2>5, <2>7 DEF Older, Picks
    <3>2. j < i => m[j] < m[i]
      BY <2>1, <2>4, <2>5 DEF Picks
    <3>3. QED
      BY <3>1, <3>2
  <2>9. QED
    BY <2>2, <2>3, <2>8 DEF Older
<1>3. QED
  BY <1>1, <1>2

\* A new group is the youngest.
LEMMA AppendOrder ==
    ASSUME QueueTypes, IsInjective(arrivals), QueueTypes', IsInjective(arrivals'), NEW g,
           arrivals' = Append(arrivals, g), g \notin Range(arrivals)
    PROVE  /\ \A h, k \in Range(arrivals) : Older(h, k) => Older(h, k)'
           /\ \A h \in Range(arrivals) : Older(h, g)'
<1>1. /\ Len(arrivals) \in Nat /\ Len(arrivals') = Len(arrivals) + 1
      /\ DOMAIN arrivals = 1..Len(arrivals) /\ DOMAIN arrivals' = 1..Len(arrivals')
      /\ \A i \in 1..Len(arrivals) : arrivals'[i] = arrivals[i]
      /\ arrivals'[Len(arrivals) + 1] = g
  BY DEF QueueTypes
<1>2. ASSUME NEW h, NEW i \in 1..Len(arrivals'), arrivals'[i] = h
      PROVE  Rank(h)' = i
  <2>1. h \in Range(arrivals')
    BY <1>1, <1>2 DEF Range
  <2>2. Rank(h)' \in DOMAIN arrivals' /\ arrivals'[Rank(h)'] = h
    BY <1>1, <2>1, RankAfter
  <2>3. QED
    BY <1>1, <1>2, <2>2 DEF IsInjective
<1>3. \A h \in Range(arrivals) : /\ Rank(h)' = Rank(h) /\ Rank(h) \in 1..Len(arrivals)
  <2>1. TAKE h \in Range(arrivals)
  <2>2. Rank(h) \in 1..Len(arrivals) /\ arrivals[Rank(h)] = h
    BY RankOf
  <2>3. Rank(h) \in 1..Len(arrivals') /\ arrivals'[Rank(h)] = h
    BY <1>1, <2>2
  <2>4. QED
    BY <1>2, <2>2, <2>3
<1>4. Rank(g)' = Len(arrivals) + 1
  <2>1. Len(arrivals) + 1 \in 1..Len(arrivals')
    BY <1>1
  <2>2. QED
    BY <1>1, <1>2, <2>1
<1>5. QED
  BY <1>1, <1>3, <1>4 DEF Older
-----------------------------------------------------------------------------
(***************************************************************************)
(* The invariant.  The order of the places is: groups that run, groups     *)
(* preempted in this round, groups that wait.                              *)
(***************************************************************************)
\* No group has been skipped, and a group of one sequence is never swapped out.
NoDetour ==
    /\ leftover = << >>
    /\ pc = "prefills" => preempted = << >>
    /\ \A g \in Sleepers : BestOf[g] # 1

\* Each queue is in order: the youngest is preempted first.
QueuesInOrder ==
    /\ Sorted(waiting)
    /\ \A i, j \in 1..Len(preempted) : i < j => Older(preempted[j], preempted[i])

\* A group that was swapped out may be younger than one that waits; others are not.
PlacesInOrder ==
    /\ \A g \in Range(preempted), h \in Range(waiting) : Older(g, h)
    /\ \A g \in Runners, h \in Range(waiting) : BestOf[g] = 1 => Older(g, h)
    /\ \A g \in Runners, h \in Range(preempted) : Older(g, h)

\* The loop over the running groups takes the oldest first.
LoopInOrder ==
    pc \in {"running", "current"} => \A g \in batch, h \in running : Older(g, h)

OrderInv ==
    /\ err # "none" => pc \in {"running", "current"}
    /\ Working => NoDetour /\ QueuesInOrder /\ PlacesInOrder /\ LoopInOrder
-----------------------------------------------------------------------------
(***************************************************************************)
(* The steps                                                               *)
(***************************************************************************)
\* Steps after which no more groups run than before, or none has been preempted.
LEMMA OrderPasses ==
    ASSUME OrderInv, Working, UNCHANGED <<arrivals, waiting, leftover, preempted>>,
           \A g \in Sleepers' : BestOf[g] # 1,
           \A g \in Runners' : g \in Runners \/ (preempted = << >> /\ BestOf[g] # 1),
           Working' => /\ pc' = "prefills" => preempted = << >>
                       /\ LoopInOrder'
    PROVE  Working' => (NoDetour /\ QueuesInOrder /\ PlacesInOrder /\ LoopInOrder)'
<1>1. NoDetour /\ QueuesInOrder /\ PlacesInOrder
  BY DEF OrderInv
<1>2. \A g, h : Older(g, h)' <=> Older(g, h)
  BY DEF Older, Rank
<1>3. SUFFICES ASSUME Working'
               PROVE  (NoDetour /\ QueuesInOrder /\ PlacesInOrder /\ LoopInOrder)'
  OBVIOUS
<1>4. NoDetour'
  BY <1>1, <1>3 DEF NoDetour
<1>5. QueuesInOrder'
  BY <1>1, <1>2 DEF QueuesInOrder, Sorted
<1>6. PlacesInOrder'
  <2>1. preempted = << >> => Range(preempted) = {}
    BY DEF Range
  <2>2. Range(preempted)' = Range(preempted) /\ Range(waiting)' = Range(waiting)
    BY DEF Range
  <2>3. QED
    BY <1>1, <1>2, <2>1, <2>2 DEF PlacesInOrder
<1>7. QED
  BY <1>3, <1>4, <1>5, <1>6

\* The places of groups among the arrivals.
LEMMA PlacesArrived ==
    ASSUME QueuesOK, Working, pc # "trim"
    PROVE  /\ Runners \subseteq Range(arrivals) /\ Range(waiting) \subseteq Range(arrivals)
           /\ Range(preempted) \subseteq Range(arrivals) /\ Sleepers \subseteq Range(arrivals)
<1>1. QueueTypes /\ PlacesInv /\ ArrivalsInv
  BY DEF QueuesOK, QueueInv
<1>2. Waiters \subseteq Groups /\ Runners \subseteq Groups /\ Sleepers \subseteq Groups
  BY <1>1, PlacesAreGroups
<1>3. Waiters \cup Runners \cup Sleepers \subseteq Range(arrivals)
  BY <1>1, <1>2 DEF PlacesInv, AllAre, HasReturned, ArrivalsInv
<1>4. QED
  BY <1>3 DEF Waiters

\* Steps that remove groups from the queues.
LEMMA OrderShrinks ==
    ASSUME OrderInv, QueuesOK, Working, QueuesOK', Working',
           pc' \notin {"running", "current", "trim"},
           NEW S, arrivals' = Keep(arrivals, S), \E m : Picks(waiting', waiting, m),
           UNCHANGED <<leftover, preempted>>, preempted = << >>,
           Runners' \subseteq Runners, Sleepers' \subseteq Sleepers
    PROVE  (NoDetour /\ QueuesInOrder /\ PlacesInOrder /\ LoopInOrder)'
<1>1. NoDetour /\ QueuesInOrder /\ PlacesInOrder /\ QueueTypes /\ ArrivalsInv
  BY DEF OrderInv, QueuesOK, QueueInv
<1>2. QueueTypes' /\ PlacesInv' /\ ArrivalsInv'
  BY DEF QueuesOK, QueueInv
<1>3. \A g, h \in Range(arrivals') : Older(g, h) => Older(g, h)'
  BY <1>1, <1>2, KeepsOrder DEF ArrivalsInv
<1>4. Runners' \subseteq Range(arrivals') /\ Range(waiting') \subseteq Range(arrivals')
  <2>1. Waiters' \subseteq Groups /\ Runners' \subseteq Groups
    BY <1>2 DEF QueueTypes, Waiters, Runners, Range
  <2>2. Waiters' \cup Runners' \subseteq Range(arrivals')
    BY <1>2, <2>1 DEF PlacesInv, AllAre, ArrivalsInv
  <2>3. QED
    BY <2>2 DEF Waiters
<1>5. PICK m : Picks(waiting', waiting, m)
  OBVIOUS
<1>6. /\ DOMAIN waiting = 1..Len(waiting) /\ DOMAIN waiting' = 1..Len(waiting')
      /\ Len(waiting) \in Nat /\ Len(waiting') \in Nat
  BY <1>1, <1>2 DEF QueueTypes
<1>7. Range(waiting') \subseteq Range(waiting)
  BY <1>5, <1>6 DEF Picks, Range
<1>8. NoDetour'
  BY <1>1 DEF NoDetour
<1>9. QueuesInOrder'
  <2>1. ASSUME NEW i \in 1..Len(waiting'), NEW j \in 1..Len(waiting'), i < j
        PROVE  Older(waiting[i], waiting[j])'
    <3>1. PICK g, h : g = waiting'[i] /\ h = waiting'[j]
      OBVIOUS
    <3>2. /\ m[i] \in 1..Len(waiting) /\ m[j] \in 1..Len(waiting) /\ m[i] < m[j]
          /\ g = waiting[m[i]] /\ h = waiting[m[j]]
      BY <1>5, <2>1, <3>1 DEF Picks
    <3>3. Older(g, h)
      BY <1>1, <3>2 DEF QueuesInOrder, Sorted
    <3>4. g \in Range(arrivals') /\ h \in Range(arrivals')
      BY <1>4, <1>6, <3>1 DEF Range
    <3>5. Older(g, h)'
      BY <1>3, <3>3, <3>4
    <3>6. QED
      BY <3>1, <3>5
  <2>2. preempted' = << >> /\ Len(<< >>) = 0
    OBVIOUS
  <2>3. Sorted(waiting)'
    BY <2>1 DEF Sorted
  <2>4. QED
    BY <2>2, <2>3 DEF QueuesInOrder
<1>10. PlacesInOrder'
  <2>1. Range(preempted') = {}
    BY DEF Range
  <2>2. QED
    BY <1>1, <1>3, <1>4, <1>7, <2>1 DEF PlacesInOrder
<1>11. QED
  BY <1>8, <1>9, <1>10 DEF LoopInOrder

\* Tail is such a removal.
LEMMA TailPicks ==
    ASSUME NEW q \in Seq(Groups), q # << >>
    PROVE  \E m : Picks(Tail(q), q, m)
<1> DEFINE n == Len(q)
           m == [i \in 1..(n - 1) |-> i + 1]
<1>1. /\ n \in Nat \ {0} /\ Len(Tail(q)) = n - 1
      /\ \A i \in 1..(n - 1) : Tail(q)[i] = q[i + 1]
  OBVIOUS
<1> HIDE DEF n
<1>2. m \in [1..(n - 1) -> 1..n]
  BY <1>1
<1>3. \A i, j \in 1..(n - 1) : i < j => m[i] < m[j]
  OBVIOUS
<1>4. \A i \in 1..(n - 1) : m[i] = i + 1
  OBVIOUS
<1> HIDE DEF m
<1>5. Picks(Tail(q), q, m)
  BY <1>1, <1>2, <1>3, <1>4 DEF Picks, n
<1>6. QED
  BY <1>5

LEMMA ShrinkingSteps ==
    ASSUME OrderInv, IInv, QueuesOK, Working, QueuesOK', Working',
           IgnorePrompt \/ EndStep \/ \E g \in Groups : AbortGroup(g)
    PROVE  (NoDetour /\ QueuesInOrder /\ PlacesInOrder /\ LoopInOrder)'
<1>1. NoDetour /\ PhaseInv /\ QueueTypes
  BY DEF OrderInv, QueuesOK, QueueInv
<1>2. CASE IgnorePrompt
  <2>1. PICK S : S = Groups \ {Head(waiting)}
    OBVIOUS
  <2>2. /\ pc = "prefills" /\ pc' = pc /\ waiting # << >> /\ waiting' = Tail(waiting)
        /\ arrivals' = Keep(arrivals, S)
        /\ UNCHANGED <<running, swapped, batch, preempted, swappedOut, leftover>>
    BY <1>2, <2>1 DEF IgnorePrompt, Prefilling, At, Forget, roundVars, resultVars
  <2>3. \E m : Picks(waiting', waiting, m)
    BY <1>1, <2>2, TailPicks DEF QueueTypes
  <2>4. Runners' = Runners /\ Sleepers' = Sleepers /\ preempted = << >>
    BY <1>1, <2>2 DEF Runners, Sleepers, NoDetour
  <2>5. QED
    BY <2>2, <2>3, <2>4, OrderShrinks
<1>3. CASE EndStep
  <2>1. PICK S : S = {g \in Groups : Unfinished(g) # {}}
    OBVIOUS
  <2>2. /\ pc = "trim" /\ pc' = "idle" /\ waiting' = waiting
        /\ arrivals' = Keep(arrivals, S) /\ running' \subseteq running /\ batch' = {}
        /\ UNCHANGED <<swapped, preempted, swappedOut, leftover>>
    BY <1>3, <2>1 DEF EndStep, At
  <2>3. \E m : Picks(waiting', waiting, m)
    <3> DEFINE m == [i \in 1..Len(waiting) |-> i]
    <3>1. Picks(waiting, waiting, m)
      BY DEF Picks
    <3>2. QED
      BY <2>2, <3>1
  <2>4. Runners' \subseteq Runners /\ Sleepers' = Sleepers /\ preempted = << >>
    BY <1>1, <2>2 DEF Runners, Sleepers, PhaseInv
  <2>5. QED
    BY <2>2, <2>3, <2>4, OrderShrinks
<1>4. ASSUME NEW g \in Groups, AbortGroup(g)
      PROVE  (NoDetour /\ QueuesInOrder /\ PlacesInOrder /\ LoopInOrder)'
  <2>1. PICK S : S = Groups \ {g}
    OBVIOUS
  <2>2. /\ pc = "idle" /\ pc' = pc /\ waiting' = Keep(waiting, S)
        /\ arrivals' = Keep(arrivals, S) /\ running' \subseteq running
        /\ swapped' \subseteq swapped
        /\ UNCHANGED <<batch, preempted, swappedOut, leftover>>
    BY <1>4, <2>1 DEF AbortGroup, At, Forget, roundVars, resultVars
  <2>3. \E m : Picks(waiting', waiting, m)
    BY <1>1, <2>2, KeepOf DEF QueueTypes
  <2>4. Runners' \subseteq Runners /\ Sleepers' \subseteq Sleepers /\ preempted = << >>
    BY <1>1, <2>2 DEF Runners, Sleepers, PhaseInv
  <2>5. QED
    BY <2>2, <2>3, <2>4, OrderShrinks
<1>5. QED
  BY <1>2, <1>3, <1>4

\* A new group waits behind all others.
LEMMA AddGroupOrder ==
    ASSUME OrderInv, QueuesOK, Working, QueuesOK', Working', NEW g \in Groups, AddGroup(g)
    PROVE  (NoDetour /\ QueuesInOrder /\ PlacesInOrder /\ LoopInOrder)'
<1>1. /\ NoDetour /\ QueuesInOrder /\ PlacesInOrder /\ PhaseInv
      /\ QueueTypes /\ ArrivalsInv /\ QueueTypes' /\ ArrivalsInv'
  BY DEF OrderInv, QueuesOK, QueueInv
<1>2. /\ pc = "idle" /\ pc' = pc /\ g \notin Range(arrivals)
      /\ arrivals' = Append(arrivals, g) /\ waiting' = Append(waiting, g)
      /\ UNCHANGED <<running, swapped, batch, preempted, swappedOut, leftover>>
  BY DEF AddGroup, At, roundVars, resultVars
<1>3. /\ \A h, k \in Range(arrivals) : Older(h, k) => Older(h, k)'
      /\ \A h \in Range(arrivals) : Older(h, g)'
  BY <1>1, <1>2, AppendOrder DEF ArrivalsInv
<1>4. Runners \subseteq Range(arrivals) /\ Range(waiting) \subseteq Range(arrivals)
  BY <1>2, PlacesArrived
<1>5. Runners' = Runners /\ Sleepers' = Sleepers /\ preempted = << >>
  BY <1>1, <1>2 DEF Runners, Sleepers, PhaseInv
<1>6. /\ Len(waiting) \in Nat /\ Len(waiting') = Len(waiting) + 1
      /\ DOMAIN waiting = 1..Len(waiting)
      /\ \A i \in 1..Len(waiting) : waiting'[i] = waiting[i]
      /\ waiting'[Len(waiting) + 1] = g
  BY <1>1, <1>2 DEF QueueTypes
<1>7. NoDetour'
  BY <1>1, <1>2, <1>5 DEF NoDetour
<1>8. QueuesInOrder'
  <2>1. ASSUME NEW i \in 1..Len(waiting'), NEW j \in 1..Len(waiting'), i < j
        PROVE  Older(waiting[i], waiting[j])'
    <3>1. PICK h, k : h = waiting'[i] /\ k = waiting'[j]
      OBVIOUS
    <3>2. i \in 1..Len(waiting) /\ h = waiting[i]
      BY <1>6, <2>1, <3>1
    <3>3. h \in Range(arrivals)
      BY <1>4, <1>6, <3>2 DEF Range
    <3>4. CASE j = Len(waiting) + 1
      BY <1>3, <1>6, <3>1, <3>3, <3>4
    <3>5. CASE j # Len(waiting) + 1
      <4>1. j \in 1..Len(waiting) /\ k = waiting[j]
        BY <1>6, <2>1, <3>1, <3>5
      <4>2. k \in Range(arrivals)
        BY <1>4, <1>6, <4>1 DEF Range
      <4>3. Older(h, k)
        BY <1>1, <2>1, <3>2, <4>1 DEF QueuesInOrder, Sorted
      <4>4. QED
        BY <1>3, <3>1, <3>3, <4>2, <4>3
    <3>6. QED
      BY <3>4, <3>5
  <2>2. preempted' = << >> /\ Len(<< >>) = 0
    BY <1>2, <1>5
  <2>3. Sorted(waiting)'
    BY <2>1 DEF Sorted
  <2>4. QED
    BY <2>2, <2>3 DEF QueuesInOrder
<1>9. PlacesInOrder'
  <2>1. Range(preempted') = {}
    BY <1>2, <1>5 DEF Range
  <2>2. Range(waiting') = Range(waiting) \cup {g}
    BY <1>1, <1>2, AppendGroup DEF QueueTypes
  <2>3. QED
    BY <1>1, <1>3, <1>4, <1>5, <2>1, <2>2 DEF PlacesInOrder
<1>10. QED
  BY <1>2, <1>7, <1>8, <1>9 DEF LoopInOrder

\* The first of the waiting groups is older than the rest of them.
LEMMA AdmitPromptOrder ==
    ASSUME OrderInv, QueuesOK, Working, AdmitPrompt
    PROVE  (NoDetour /\ QueuesInOrder /\ PlacesInOrder /\ LoopInOrder)'
<1>1. /\ NoDetour /\ QueuesInOrder /\ PlacesInOrder /\ QueueTypes /\ ApartInv
  BY DEF OrderInv, QueuesOK, QueueInv
<1>2. PICK g : g = Head(waiting)
  OBVIOUS
<1>3. /\ pc = "prefills" /\ pc' = pc /\ waiting # << >> /\ waiting' = Tail(waiting)
      /\ batch' = batch \cup {g}
      /\ UNCHANGED <<arrivals, running, swapped, preempted, swappedOut, leftover>>
  BY <1>2 DEF AdmitPrompt, Prefilling, At
<1>4. \A h, k : Older(h, k)' <=> Older(h, k)
  BY <1>3 DEF Older, Rank
<1>5. Runners' = Runners \cup {g} /\ Sleepers' = Sleepers /\ preempted = << >>
  BY <1>1, <1>3 DEF Runners, Sleepers, NoDetour
<1>6. /\ Len(waiting) \in Nat \ {0} /\ Len(waiting') = Len(waiting) - 1
      /\ DOMAIN waiting' = 1..Len(waiting') /\ g = waiting[1]
      /\ \A i \in 1..Len(waiting') : waiting'[i] = waiting[i + 1]
  BY <1>1, <1>2, <1>3 DEF QueueTypes
<1>7. NoDetour'
  BY <1>1, <1>3, <1>5 DEF NoDetour
<1>8. QueuesInOrder'
  <2>1. ASSUME NEW i \in 1..Len(waiting'), NEW j \in 1..Len(waiting'), i < j
        PROVE  Older(waiting[i], waiting[j])'
    <3>1. PICK h, k : h = waiting'[i] /\ k = waiting'[j]
      OBVIOUS
    <3>2. /\ i + 1 \in 1..Len(waiting) /\ j + 1 \in 1..Len(waiting) /\ i + 1 < j + 1
          /\ h = waiting[i + 1] /\ k = waiting[j + 1]
      BY <1>6, <2>1, <3>1
    <3>3. Older(h, k)
      BY <1>1, <3>2 DEF QueuesInOrder, Sorted
    <3>4. Older(h, k)'
      BY <1>4, <3>3
    <3>5. QED
      BY <3>1, <3>4
  <2>2. preempted' = << >> /\ Len(<< >>) = 0
    BY <1>3, <1>5
  <2>3. Sorted(waiting)'
    BY <2>1 DEF Sorted
  <2>4. QED
    BY <2>2, <2>3 DEF QueuesInOrder
<1>9. \A h \in Range(waiting') : Older(g, h) /\ h \in Range(waiting)
  <2>1. ASSUME NEW h \in Range(waiting')
        PROVE  Older(g, h) /\ h \in Range(waiting)
    <3>1. PICK i \in 1..Len(waiting') : h = waiting'[i]
      BY <1>6 DEF Range
    <3>2. i + 1 \in 1..Len(waiting) /\ 1 \in 1..Len(waiting) /\ 1 < i + 1 /\ h = waiting[i + 1]
      BY <1>6, <3>1
    <3>3. Older(g, h)
      BY <1>1, <1>6, <3>2 DEF QueuesInOrder, Sorted
    <3>4. DOMAIN waiting = 1..Len(waiting)
      BY <1>1 DEF QueueTypes
    <3>5. QED
      BY <3>2, <3>3, <3>4 DEF Range
  <2>2. QED
    BY <2>1
<1>10. PlacesInOrder'
  <2>1. Range(preempted') = {}
    BY <1>3, <1>5 DEF Range
  <2>2. QED
    BY <1>1, <1>4, <1>5, <1>9, <2>1 DEF PlacesInOrder
<1>11. QED
  BY <1>3, <1>7, <1>8, <1>10 DEF LoopInOrder

\* The youngest of the groups left, of one sequence, waits before all others.
LEMMA RecomputeYoungestOrder ==
    ASSUME OrderInv, IInv, QueuesOK, Working, RecomputeYoungest
    PROVE  (NoDetour /\ QueuesInOrder /\ PlacesInOrder /\ LoopInOrder)'
<1>1. /\ NoDetour /\ QueuesInOrder /\ PlacesInOrder /\ LoopInOrder /\ QueueTypes /\ TypeOK
  BY DEF OrderInv, QueuesOK, QueueInv, IInv
<1>2. PICK g \in Groups :
              /\ g = Victim /\ g \in running /\ running' = running \ {g}
              /\ pc = "current" /\ pc' \in {"running", "current"}
              /\ pc' = "current" => running' # {}
              /\ AllAre(g, "RUNNING") /\ g \in Range(arrivals)
              /\ g \notin Waiters /\ g \notin Sleepers
  BY <1>1, GiveUpMoves DEF RecomputeYoungest
<1>3. /\ preempted' = Append(preempted, g) /\ MaxNumRunningSeqs(g) = 1
      /\ UNCHANGED <<arrivals, waiting, swapped, batch, swappedOut, leftover>>
  BY <1>2 DEF RecomputeYoungest, PreemptByRecompute
<1>4. BestOf[g] = 1
  BY <1>3, SequenceGroupsAssumption, SchedulerAssumption DEF MaxNumRunningSeqs
<1>5. \A h, k : Older(h, k)' <=> Older(h, k)
  BY <1>3 DEF Older, Rank
<1>6. /\ running \subseteq Range(arrivals)
      /\ \A h \in running : h # g => Older(h, g)
  <2>1. running \subseteq Range(arrivals) /\ running # {}
    BY <1>1, <1>2, QueuedArrived DEF QueuesOK
  <2>2. \A h \in running : Rank(g) >= Rank(h)
    BY <1>1, <1>2, <2>1, EndsOfQueue DEF Victim
  <2>3. \A h \in running : Rank(h) \in Nat /\ Rank(g) \in Nat
    BY <1>1, <1>2, <2>1, RankOf
  <2>4. \A h \in running : Rank(h) <= Rank(g)
    BY <2>2, <2>3
  <2>5. QED
    BY <1>1, <1>2, <2>1, <2>4, OlderIs
<1>7. g \in Runners /\ Runners' \subseteq Runners /\ Sleepers' = Sleepers
  BY <1>1, <1>2, <1>3 DEF Runners, Sleepers, NoDetour
<1>8. \A h \in Runners' : Older(h, g)
  <2>1. \A h \in batch : Older(h, g)
    BY <1>1, <1>2 DEF LoopInOrder
  <2>2. QED
    BY <1>2, <1>3, <1>6, <2>1 DEF Runners
<1>9. /\ Len(preempted) \in Nat /\ Len(preempted') = Len(preempted) + 1
      /\ DOMAIN preempted = 1..Len(preempted)
      /\ \A i \in 1..Len(preempted) : preempted'[i] = preempted[i]
      /\ preempted'[Len(preempted) + 1] = g
  BY <1>1, <1>3 DEF QueueTypes
<1>10. NoDetour'
  BY <1>1, <1>2, <1>3, <1>7 DEF NoDetour
<1>11. QueuesInOrder'
  <2>1. ASSUME NEW i \in 1..Len(preempted'), NEW j \in 1..Len(preempted'), i < j
        PROVE  Older(preempted[j], preempted[i])'
    <3>1. PICK h, k : h = preempted'[i] /\ k = preempted'[j]
      OBVIOUS
    <3>2. i \in 1..Len(preempted) /\ h = preempted[i]
      BY <1>9, <2>1, <3>1
    <3>3. CASE j = Len(preempted) + 1
      <4>1. h \in Range(preempted)
        BY <1>9, <3>2 DEF Range
      <4>2. Older(g, h)
        BY <1>1, <1>7, <4>1 DEF PlacesInOrder
      <4>3. QED
        BY <1>5, <1>9, <3>1, <3>3, <4>2
    <3>4. CASE j # Len(preempted) + 1
      <4>1. j \in 1..Len(preempted) /\ k = preempted[j]
        BY <1>9, <2>1, <3>1, <3>4
      <4>2. Older(k, h)
        BY <1>1, <2>1, <3>2, <4>1 DEF QueuesInOrder
      <4>3. QED
        BY <1>5, <3>1, <4>2
    <3>5. QED
      BY <3>3, <3>4
  <2>2. Sorted(waiting)'
    BY <1>1, <1>3, <1>5 DEF QueuesInOrder, Sorted
  <2>3. QED
    BY <2>1, <2>2 DEF QueuesInOrder
<1>12. PlacesInOrder'
  <2>1. Range(preempted') = Range(preempted) \cup {g}
    BY <1>1, <1>3, AppendGroup DEF QueueTypes
  <2>2. Range(waiting)' = Range(waiting)
    BY <1>3 DEF Range
  <2>3. QED
    BY <1>1, <1>4, <1>5, <1>7, <1>8, <2>1, <2>2 DEF PlacesInOrder
<1>13. LoopInOrder'
  BY <1>1, <1>2, <1>3, <1>5 DEF LoopInOrder
<1>14. QED
  BY <1>10, <1>11, <1>12, <1>13

\* A group with one sequence at a time is preempted by recomputation.
LEMMA SwapOutYoungestOrder ==
    ASSUME OrderInv, IInv, QueuesOK, Working, SwapOutYoungest
    PROVE  Working' => (NoDetour /\ QueuesInOrder /\ PlacesInOrder /\ LoopInOrder)'
<1>1. /\ NoDetour /\ LoopInOrder /\ TypeOK /\ GroupsInv
  BY DEF OrderInv, IInv
<1>2. PICK g \in Groups :
              /\ g = Victim /\ g \in running /\ running' = running \ {g}
              /\ pc = "current" /\ pc' \in {"running", "current"}
              /\ pc' = "current" => running' # {}
              /\ AllAre(g, "RUNNING") /\ g \in Range(arrivals)
              /\ g \notin Waiters /\ g \notin Sleepers
  BY <1>1, GiveUpMoves DEF SwapOutYoungest
<1>3. /\ swappedOut' = swappedOut \cup {g} /\ MaxNumRunningSeqs(g) # 1
      /\ UNCHANGED <<arrivals, waiting, swapped, batch, preempted, leftover>>
  BY <1>2 DEF SwapOutYoungest, PreemptBySwap
<1>4. BestOf[g] # 1
  <2>1. SUFFICES ASSUME BestOf[g] = 1 PROVE FALSE
    OBVIOUS
  <2>2. PICK s \in Seqs : s \in Unfinished(g)
    BY <1>2 DEF AllAre, Unfinished, Members
  <2>3. \A q \in Unfinished(g) : q = Parent[g]
    BY <1>1, <2>1 DEF GroupsInv, Unfinished, Members
  <2>4. Unfinished(g) = {s}
    BY <2>2, <2>3
  <2>5. Cardinality(Unfinished(g)) = 1
    BY <2>4, FS_Singleton
  <2>6. QED
    BY <1>3, <2>1, <2>5 DEF MaxNumRunningSeqs
<1>5. /\ Runners' \subseteq Runners /\ \A h \in Sleepers' : h \in Sleepers \/ h = g
  BY <1>1, <1>2, <1>3 DEF Runners, Sleepers, NoDetour
<1>6. LoopInOrder'
  BY <1>1, <1>2, <1>3 DEF LoopInOrder, Older, Rank
<1>7. QED
  BY <1>1, <1>2, <1>3, <1>4, <1>5, <1>6, OrderPasses DEF NoDetour

\* The groups preempted are put back in front, the oldest first.
LEMMA EndScheduleOrder ==
    ASSUME OrderInv, QueuesOK, Working, EndSchedule
    PROVE  (NoDetour /\ QueuesInOrder /\ PlacesInOrder /\ LoopInOrder)'
<1>1. NoDetour /\ QueuesInOrder /\ PlacesInOrder /\ QueueTypes
  BY DEF OrderInv, QueuesOK, QueueInv
<1>2. /\ pc = "queues" /\ pc' = "execute" /\ waiting' = Reverse(preempted) \o waiting
      /\ preempted' = << >> /\ running' = running \cup batch /\ batch' = batch
      /\ swapped' = swapped \cup swappedOut /\ swappedOut' = {}
      /\ UNCHANGED <<arrivals, leftover>>
  BY DEF EndSchedule, At
<1>3. \A h, k : Older(h, k)' <=> Older(h, k)
  BY <1>2 DEF Older, Rank
<1>4. Runners' = Runners /\ Sleepers' = Sleepers
  BY <1>2 DEF Runners, Sleepers
<1>5. NoDetour'
  BY <1>1, <1>2, <1>4 DEF NoDetour
<1> DEFINE n == Len(preempted)
           r == Reverse(preempted)
<1>6. /\ n \in Nat /\ DOMAIN preempted = 1..n /\ Len(waiting) \in Nat
      /\ DOMAIN waiting = 1..Len(waiting)
      /\ r \in Seq(Groups) /\ Len(r) = n
      /\ \A i \in 1..n : r[i] = preempted[(n - i) + 1] /\ (n - i) + 1 \in 1..n
  <2>1. n \in Nat /\ DOMAIN preempted = 1..n /\ r = [i \in 1..n |-> preempted[(n - i) + 1]]
    BY <1>1 DEF Reverse, QueueTypes
  <2>2. \A i \in 1..n : (n - i) + 1 \in 1..n
    BY <2>1
  <2>3. r \in Seq(Groups) /\ Len(r) = n
    BY <1>1, <2>1, <2>2 DEF QueueTypes
  <2>4. QED
    BY <1>1, <2>1, <2>2, <2>3 DEF QueueTypes
<1> HIDE DEF n, r
<1>7. /\ Len(waiting') = n + Len(waiting) /\ waiting' = r \o waiting
      /\ \A i \in 1..(n + Len(waiting)) :
           waiting'[i] = IF i <= n THEN r[i] ELSE waiting[i - n]
  <2>1. waiting' = r \o waiting
    BY <1>2 DEF r
  <2>2. r \in Seq(Groups) /\ waiting \in Seq(Groups)
    BY <1>1, <1>6 DEF QueueTypes
  <2>3. /\ Len(r \o waiting) = Len(r) + Len(waiting)
        /\ \A i \in 1..(Len(r) + Len(waiting)) :
             (r \o waiting)[i] = IF i <= Len(r) THEN r[i] ELSE waiting[i - Len(r)]
    BY <2>2, ConcatProperties
  <2>4. QED
    BY <1>6, <2>1, <2>3
<1>8. QueuesInOrder'
  <2>1. ASSUME NEW i \in 1..Len(waiting'), NEW j \in 1..Len(waiting'), i < j
        PROVE  Older(waiting[i], waiting[j])'
    <3>1. PICK h, k : h = waiting'[i] /\ k = waiting'[j]
      OBVIOUS
    <3>2. i \in Nat /\ j \in Nat /\ i <= n + Len(waiting) /\ j <= n + Len(waiting)
      BY <1>6, <1>7, <2>1
    <3>3. CASE j <= n
      <4>1. i \in 1..n /\ j \in 1..n /\ (n - j) + 1 < (n - i) + 1
        BY <1>6, <2>1, <3>2, <3>3
      <4>2. h = preempted[(n - i) + 1] /\ k = preempted[(n - j) + 1]
        BY <1>6, <1>7, <2>1, <3>1, <4>1
      <4>3. Older(h, k)
        BY <1>1, <1>6, <4>1, <4>2 DEF QueuesInOrder, n
      <4>4. QED
        BY <1>3, <3>1, <4>3
    <3>4. CASE i <= n /\ ~(j <= n)
      <4>1. i \in 1..n /\ (n - i) + 1 \in 1..n /\ j - n \in 1..Len(waiting)
        BY <1>6, <2>1, <3>2, <3>4
      <4>2. h = preempted[(n - i) + 1] /\ k = waiting[j - n]
        BY <1>6, <1>7, <2>1, <3>1, <3>4, <4>1
      <4>3. h \in Range(preempted) /\ k \in Range(waiting)
        BY <1>6, <4>1, <4>2 DEF Range
      <4>4. Older(h, k)
        BY <1>1, <4>3 DEF PlacesInOrder
      <4>5. QED
        BY <1>3, <3>1, <4>4
    <3>5. CASE ~(i <= n)
      <4>1. i - n \in 1..Len(waiting) /\ j - n \in 1..Len(waiting) /\ i - n < j - n /\ ~(j <= n)
        BY <1>6, <2>1, <3>2, <3>5
      <4>2. h = waiting[i - n] /\ k = waiting[j - n]
        BY <1>7, <2>1, <3>1, <3>5, <4>1
      <4>3. Older(h, k)
        BY <1>1, <4>1, <4>2 DEF QueuesInOrder, Sorted
      <4>4. QED
        BY <1>3, <3>1, <4>3
    <3>6. QED
      BY <3>3, <3>4, <3>5
  <2>2. Len(preempted') = 0
    BY <1>2
  <2>3. Sorted(waiting)'
    BY <2>1 DEF Sorted
  <2>4. QED
    BY <2>2, <2>3 DEF QueuesInOrder
<1>9. PlacesInOrder'
  <2>1. Range(preempted') = {}
    BY <1>2 DEF Range
  <2>2. Range(waiting') = Range(preempted) \cup Range(waiting)
    BY <1>1, <1>2, JoinQueues, ReverseQueue DEF QueueTypes
  <2>3. QED
    BY <1>1, <1>3, <1>4, <2>1, <2>2 DEF PlacesInOrder
<1>10. QED
  BY <1>2, <1>5, <1>8, <1>9 DEF LoopInOrder

\* The steps that leave every group in its place, but for those of a loop.
LEMMA PassingOrder ==
    ASSUME OrderInv, IInv, IInv', QueuesOK, Working, DefaultPolicy, NoLoras, policy \in Policies,
           \/ StartSchedule \/ SkipPrompt \/ EndPrefills \/ TakeCurrent \/ CurrentIsScheduled
           \/ EndRunning \/ SkipSwapped \/ SwapInOldest \/ ReturningIsScheduled \/ EndSwapped
           \/ CheckBudget \/ ScheduleFails \/ Execute \/ EndOutputs \/ EndForks
           \/ \E s \in Seqs : \/ AppendSlotsOfCurrent(s) \/ AppendSlotsOfReturning(s)
                              \/ EndChunk(s) \/ Continue(s) \/ DropParent(s) \/ StopSeq(s)
                              \/ DropUnselected(s) \/ \E c \in Seqs : ForkChild(s, c)
    PROVE  Working' => (NoDetour /\ QueuesInOrder /\ PlacesInOrder /\ LoopInOrder)'
<1>1. /\ NoDetour /\ LoopInOrder /\ PhaseInv /\ QueueTypes /\ TypeOK /\ ~ChunkedPrefill
  BY DEF OrderInv, QueuesOK, QueueInv, IInv, DefaultPolicy, ChunkedPrefill
<1>2. \A g, h : arrivals' = arrivals => (Older(g, h)' <=> Older(g, h))
  BY DEF Older, Rank
<1>3. \A g \in Groups : ~LoraFull(g)
  BY DEF NoLoras, LoraFull
<1>4. leftover = << >> /\ Range(<< >>) = {}
  BY <1>1 DEF NoDetour, Range
<1>5. CASE SkipPrompt \/ SkipSwapped
  <2>1. /\ waiting # << >> => Head(waiting) \in Groups
        /\ pc = "swapped" /\ swapped # {} => Returning \in Groups
    <3>1. waiting # << >> => Head(waiting) \in Groups
      BY <1>1 DEF QueueTypes
    <3>2. QED
      BY <1>1, <3>1, QueuedArrived DEF QueuesOK, QueueTypes
  <2>2. QED
    BY <1>3, <1>5, <2>1 DEF SkipPrompt, Prefilling, SkipSwapped, Swapping, At
<1>6. CASE CurrentIsScheduled
  <2>1. PICK g : g = Current
    OBVIOUS
  <2>2. /\ pc = "current" /\ pc' = "running" /\ running' = running \ {g}
        /\ batch' = batch \cup {g}
        /\ UNCHANGED <<arrivals, waiting, swapped, preempted, swappedOut, leftover>>
    BY <1>6, <2>1 DEF CurrentIsScheduled, Decoding, At
  <2>3. g \in running /\ running \subseteq Range(arrivals) /\ \A h \in running : Rank(g) <= Rank(h)
    <3>1. running \subseteq Range(arrivals) /\ running # {}
      BY <1>1, <2>2, QueuedArrived DEF PhaseInv, QueuesOK
    <3>2. QED
      BY <1>1, <2>1, <3>1, EndsOfQueue DEF Current
  <2>4. \A h \in running : h # g => Older(g, h)
    BY <1>1, <2>3, OlderIs
  <2>5. LoopInOrder'
    BY <1>1, <1>2, <2>2, <2>4 DEF LoopInOrder
  <2>6. Runners' = Runners /\ Sleepers' = Sleepers
    BY <1>4, <2>2, <2>3 DEF Runners, Sleepers
  <2>7. QED
    BY <1>1, <2>2, <2>5, <2>6, OrderPasses DEF NoDetour
<1>7. CASE ReturningIsScheduled
  <2>1. PICK g : g = Returning
    OBVIOUS
  <2>2. /\ pc = "swapped" /\ pc' = pc /\ swapped # {} /\ swapped' = swapped \ {g}
        /\ batch' = batch \cup {g}
        /\ UNCHANGED <<arrivals, waiting, running, preempted, swappedOut, leftover>>
    BY <1>7, <2>1 DEF ReturningIsScheduled, Swapping, At
  <2>3. g \in swapped /\ preempted = << >>
    BY <1>1, <2>1, <2>2, QueuedArrived DEF QueuesOK, PhaseInv
  <2>4. /\ BestOf[g] # 1 /\ Sleepers' \subseteq Sleepers
        /\ \A h \in Runners' : h \in Runners \/ h = g
    BY <1>1, <2>2, <2>3 DEF NoDetour, Sleepers, Runners
  <2>5. LoopInOrder'
    BY <2>2 DEF LoopInOrder
  <2>6. QED
    BY <1>1, <2>2, <2>3, <2>4, <2>5, OrderPasses DEF NoDetour
<1>8. CASE EndSwapped
  <2>1. /\ pc = "swapped" /\ pc' = "end" /\ swapped' = swapped /\ leftover' = leftover
        /\ UNCHANGED <<arrivals, waiting, running, batch, preempted, swappedOut>>
    BY <1>1, <1>4, <1>8 DEF EndSwapped, At
  <2>2. Runners' = Runners /\ Sleepers' = Sleepers
    BY <1>4, <2>1 DEF Runners, Sleepers
  <2>3. QED
    BY <1>1, <2>1, <2>2, OrderPasses DEF NoDetour, LoopInOrder
<1>9. CASE EndPrefills
  <2>1. /\ waiting' = leftover \o waiting /\ leftover' = << >>
        /\ pc' = "end" \/ (pc' = "running" /\ batch = {})
        /\ UNCHANGED <<arrivals, swapped, running, batch, preempted, swappedOut>>
    BY <1>1, <1>9 DEF EndPrefills
  <2>2. waiting' = waiting
    BY <1>1, <1>4, <2>1 DEF QueueTypes
  <2>3. Runners' = Runners /\ Sleepers' = Sleepers
    BY <1>4, <2>1 DEF Runners, Sleepers
  <2>4. LoopInOrder'
    BY <2>1 DEF LoopInOrder
  <2>5. QED
    BY <1>1, <1>4, <2>1, <2>2, <2>3, <2>4, OrderPasses DEF NoDetour
<1>10. CASE \/ StartSchedule \/ TakeCurrent \/ EndRunning \/ SwapInOldest \/ CheckBudget
            \/ ScheduleFails \/ Execute \/ EndOutputs \/ EndForks
  <2>1. UNCHANGED <<queueVars, resultVars>>
    BY <1>10 DEF StartSchedule, TakeCurrent, EndRunning, SwapInOldest, CheckBudget,
       ScheduleFails, LoraKeyError, ReturningHasMoreTokens, Fail, Execute, EndOutputs, EndForks,
       roundVars
  <2>2. UNCHANGED <<arrivals, waiting, running, swapped, batch, preempted, swappedOut, leftover>>
    BY <2>1 DEF queueVars, resultVars
  <2>3. /\ pc' = "prefills" => pc = "idle"
        /\ pc' \in {"running", "current"} => pc \in {"idle", "running", "current"}
    BY <1>1, <1>10 DEF StartSchedule, TakeCurrent, EndRunning, SwapInOldest, CheckBudget,
       ScheduleFails, LoraKeyError, ReturningHasMoreTokens, Fail, Execute, EndOutputs, EndForks,
       At, Swapping
  <2>4. pc = "idle" => preempted = << >> /\ batch = {}
    BY <1>1 DEF PhaseInv
  <2>5. LoopInOrder'
    BY <1>1, <1>2, <2>2, <2>3, <2>4 DEF LoopInOrder
  <2>6. Runners' = Runners /\ Sleepers' = Sleepers
    BY <1>4, <2>2 DEF Runners, Sleepers
  <2>7. QED
    BY <1>1, <2>2, <2>3, <2>4, <2>5, <2>6, OrderPasses DEF NoDetour
<1>11. ASSUME NEW s \in Seqs,
              \/ AppendSlotsOfCurrent(s) \/ AppendSlotsOfReturning(s)
              \/ EndChunk(s) \/ Continue(s) \/ DropParent(s) \/ StopSeq(s)
              \/ DropUnselected(s) \/ \E c \in Seqs : ForkChild(s, c)
       PROVE  Working' => (NoDetour /\ QueuesInOrder /\ PlacesInOrder /\ LoopInOrder)'
  <2>1. UNCHANGED <<queueVars, resultVars>> /\ pc' = pc
    BY <1>11 DEF AppendSlotsOfCurrent, AppendSlotsOfReturning, EndChunk, Continue, DropParent,
       StopSeq, DropUnselected, ForkChild, roundVars
  <2>2. UNCHANGED <<arrivals, waiting, running, swapped, batch, preempted, swappedOut, leftover>>
    BY <2>1 DEF queueVars, resultVars
  <2>3. LoopInOrder'
    BY <1>1, <1>2, <2>1, <2>2 DEF LoopInOrder
  <2>4. Runners' = Runners /\ Sleepers' = Sleepers
    BY <1>4, <2>2 DEF Runners, Sleepers
  <2>5. QED
    BY <1>1, <2>1, <2>2, <2>3, <2>4, OrderPasses DEF NoDetour
<1>12. QED
  BY <1>5, <1>6, <1>7, <1>8, <1>9, <1>10, <1>11

\* The block manager refuses a call only when a group is to be swapped out.
LEMMA OnlySwapRefused ==
    ASSUME IInv', EngineStep \/ Client, err' # "none"
    PROVE  SwapOutYoungest
<1>1. err' = "no CPU swap space"
  BY DEF IInv, NoBlockError
<1>2. CASE \/ StartSchedule \/ SkipPrompt \/ EndPrefills \/ TakeCurrent \/ CurrentIsScheduled
           \/ EndRunning \/ SkipSwapped \/ ReturningIsScheduled \/ EndSwapped \/ CheckBudget
           \/ EndSchedule \/ ScheduleFails \/ Execute \/ EndOutputs \/ EndForks \/ EndStep
  <2>1. err' = err /\ err = "none"
    BY <1>2 DEF StartSchedule, SkipPrompt, EndPrefills, TakeCurrent, CurrentIsScheduled,
       EndRunning, SkipSwapped, ReturningIsScheduled, EndSwapped, CheckBudget, EndSchedule,
       ScheduleFails, LoraKeyError, ReturningHasMoreTokens, Fail, Execute, EndOutputs, EndForks,
       EndStep, vars, At, Alive, Prefilling, Swapping, Decoding, NoRoom
  <2>2. QED
    BY <1>1, <2>1
<1>3. CASE IgnorePrompt \/ AdmitPrompt \/ RecomputeYoungest \/ SwapInOldest
  BY <1>1, <1>3 DEF IgnorePrompt, AdmitPrompt, RecomputeYoungest, SwapInOldest, Finish, Allocate,
     PreemptByRecompute, SwapIn, MoveError, Scheduling, Ready, Alive, Raise
<1>4. ASSUME NEW s \in Seqs,
              \/ AppendSlotsOfCurrent(s) \/ AppendSlotsOfReturning(s)
              \/ EndChunk(s) \/ Continue(s) \/ DropParent(s) \/ StopSeq(s)
              \/ DropUnselected(s) \/ \E c \in Seqs : ForkChild(s, c)
      PROVE  FALSE
  BY <1>1, <1>4 DEF AppendSlotsOfCurrent, AppendSlotsOfReturning, AppendSlots, AppendError,
     EndChunk, SkipSample, Continue, AppendToken, DropParent, DropUnselected, RemoveSeq,
     StopSeq, Stop, Finish, ForkChild, Fork, Scheduling, Ready, Alive, Raise
<1>5. ASSUME NEW g \in Groups, AddGroup(g) \/ AbortGroup(g)
      PROVE  FALSE
  BY <1>1, <1>5 DEF AddGroup, AddRequest, AbortGroup, Abort, Finish, Ready, Alive, Raise
<1>6. QED
  BY <1>2, <1>3, <1>4, <1>5 DEF EngineStep, Client, Schedule, ProcessOutputs

LEMMA ActionsOrder ==
    ASSUME OrderInv, IInv, IInv', QueuesOK, QueuesOK', Working, DefaultPolicy, NoLoras,
           policy \in Policies, EngineStep \/ Client
    PROVE  OrderInv'
<1>1. err' # "none" => pc' \in {"running", "current"}
  BY OnlySwapRefused DEF SwapOutYoungest, GiveUp
<1>2. ASSUME Working'
      PROVE  (NoDetour /\ QueuesInOrder /\ PlacesInOrder /\ LoopInOrder)'
  <2>1. CASE IgnorePrompt \/ EndStep \/ \E g \in Groups : AbortGroup(g)
    BY <1>2, <2>1, ShrinkingSteps
  <2>2. CASE \E g \in Groups : AddGroup(g)
    BY <1>2, <2>2, AddGroupOrder
  <2>3. CASE AdmitPrompt
    BY <2>3, AdmitPromptOrder
  <2>4. CASE RecomputeYoungest
    BY <2>4, RecomputeYoungestOrder
  <2>5. CASE SwapOutYoungest
    BY <1>2, <2>5, SwapOutYoungestOrder
  <2>6. CASE EndSchedule
    BY <2>6, EndScheduleOrder
  <2>7. CASE \/ StartSchedule \/ SkipPrompt \/ EndPrefills \/ TakeCurrent \/ CurrentIsScheduled
             \/ EndRunning \/ SkipSwapped \/ SwapInOldest \/ ReturningIsScheduled \/ EndSwapped
             \/ CheckBudget \/ ScheduleFails \/ Execute \/ EndOutputs \/ EndForks
             \/ \E s \in Seqs : \/ AppendSlotsOfCurrent(s) \/ AppendSlotsOfReturning(s)
                                \/ EndChunk(s) \/ Continue(s) \/ DropParent(s) \/ StopSeq(s)
                                \/ DropUnselected(s) \/ \E c \in Seqs : ForkChild(s, c)
    BY <1>2, <2>7, PassingOrder
  <2>8. CASE Schedule \/ ScheduleFails
    BY <2>1, <2>3, <2>4, <2>5, <2>6, <2>7, <2>8 DEF Schedule
  <2>9. CASE ProcessOutputs
    BY <2>1, <2>7, <2>9 DEF ProcessOutputs
  <2>10. CASE Client
    BY <2>1, <2>2, <2>10 DEF Client
  <2>11. QED
    BY <2>8, <2>9, <2>10 DEF EngineStep
<1>3. QED
  BY <1>1, <1>2 DEF OrderInv
-----------------------------------------------------------------------------
(***************************************************************************)
(* The theorems                                                            *)
(***************************************************************************)
OrderedTokensInv == TokensInv /\ OrderInv

LEMMA OrderedTokens ==
    ASSUME WindowsAreUnshared, DefaultPolicy, NoLoras
    PROVE  SchedulerSpec => []OrderedTokensInv
<1>1. SchedulerInit => OrderedTokensInv
  <2>1. SUFFICES ASSUME SchedulerInit PROVE OrderInv
    BY InitTokensInv DEF OrderedTokensInv
  <2>2. /\ err = "none" /\ pc = "idle" /\ arrivals = << >> /\ waiting = << >> /\ running = {}
        /\ swapped = {} /\ batch = {} /\ preempted = << >> /\ swappedOut = {}
        /\ leftover = << >>
    BY <2>1 DEF SchedulerInit, Init
  <2>3. Range(<< >>) = {} /\ Len(<< >>) = 0
    BY DEF Range
  <2>4. QED
    BY <2>2, <2>3 DEF OrderInv, NoDetour, QueuesInOrder, PlacesInOrder, LoopInOrder, Sorted,
       Runners, Sleepers
<1>2. OrderedTokensInv /\ [SchedulerNext]_schedulerVars => OrderedTokensInv'
  <2>1. SUFFICES ASSUME TokensInv, OrderInv, [SchedulerNext]_schedulerVars
                 PROVE  OrderInv'
    BY NextTokensInv DEF OrderedTokensInv
  <2>2. TokensInv'
    BY <2>1, NextTokensInv
  <2>3. CASE EngineStep \/ Client
    BY <2>1, <2>2, <2>3, ActionsWork, ActionsOrder DEF TokensInv, ProgressOK, ProgressTypes
  <2>4. CASE UNCHANGED schedulerVars
    <3>1. UNCHANGED <<err, pc, arrivals, waiting, running, swapped, batch, preempted, swappedOut,
                      leftover>>
      BY <2>4 DEF schedulerVars, vars, queueVars, roundVars, resultVars
    <3>2. \A g, h : Older(g, h)' <=> Older(g, h)
      BY <3>1 DEF Older, Rank
    <3>3. /\ Range(waiting)' = Range(waiting) /\ Range(preempted)' = Range(preempted)
          /\ Runners' = Runners /\ Sleepers' = Sleepers /\ (Working' <=> Working)
      BY <3>1 DEF Range, Runners, Sleepers, Working, Alive
    <3>4. QED
      BY <2>1, <3>1, <3>2, <3>3 DEF OrderInv, NoDetour, QueuesInOrder, PlacesInOrder, LoopInOrder,
         Sorted
  <2>5. QED
    BY <2>1, <2>3, <2>4 DEF SchedulerNext, Stopped
<1>3. QED
  BY <1>1, <1>2, PTL DEF SchedulerSpec

\* "We don't sort waiting queue because we assume it is sorted": under the
\* default policy without LoRAs it is, however often groups are preempted,
\* swapped or aborted.
THEOREM WaitingStaysSorted ==
    ASSUME WindowsAreUnshared, DefaultPolicy, NoLoras
    PROVE  SchedulerSpec => []WaitingIsSorted
<1>1. OrderedTokensInv => WaitingIsSorted
  <2>1. SUFFICES ASSUME OrderedTokensInv, pc = "idle"
                 PROVE  \A i, j \in DOMAIN waiting : i < j => Rank(waiting[i]) < Rank(waiting[j])
    BY DEF WaitingIsSorted
  <2>2. Working
    BY <2>1 DEF OrderedTokensInv, OrderInv, Working, Alive, Phases
  <2>3. Sorted(waiting) /\ DOMAIN waiting = 1..Len(waiting)
    BY <2>1, <2>2
       DEF OrderedTokensInv, OrderInv, QueuesInOrder, TokensInv, QueuesOK, QueueTypes
  <2>4. QED
    BY <2>3 DEF Sorted, Older
<1>2. QED
  BY <1>1, OrderedTokens, PTL

\* First come, first served: under the default policy without LoRAs and with
\* single sequences no request is in a batch while an older one waits.
THEOREM ServedInOrder ==
    ASSUME WindowsAreUnshared, DefaultPolicy, NoLoras, \A g \in Groups : BestOf[g] = 1
    PROVE  SchedulerSpec => []FirstComeFirstServed
<1>1. OrderedTokensInv => FirstComeFirstServed
  <2>1. SUFFICES ASSUME OrderedTokensInv, pc = "execute", NEW g \in batch, NEW h \in Range(waiting)
                 PROVE  Rank(g) < Rank(h)
    BY DEF FirstComeFirstServed
  <2>2. Working
    BY <2>1 DEF OrderedTokensInv, OrderInv, Working, Alive, Phases
  <2>3. g \in Runners /\ g \in Groups
    BY <2>1 DEF OrderedTokensInv, TokensInv, QueuesOK, QueueTypes, Runners
  <2>4. PlacesInOrder
    BY <2>1, <2>2 DEF OrderedTokensInv, OrderInv
  <2>5. QED
    BY <2>3, <2>4 DEF PlacesInOrder, Older
<1>2. QED
  BY <1>1, OrderedTokens, PTL
-----------------------------------------------------------------------------
(***************************************************************************)
(* More about sums over finite sets                                        *)
(***************************************************************************)
\* What holds for the empty set, and for a set once it holds for the set
\* without one of its elements, holds for every finite set.
LEMMA SubsetInduction ==
    ASSUME NEW S, IsFiniteSet(S), NEW G, {} \in G,
           \A T \in SUBSET S : \A x \in T : T \ {x} \in G => T \in G
    PROVE  S \in G
<1> DEFINE B == {T \in SUBSET S : T \notin G}
<1>1. B = {}
  <2>1. SUFFICES ASSUME B # {} PROVE FALSE
    OBVIOUS
  <2>2. PICK T \in B : \A U \in B : Cardinality(T) <= Cardinality(U)
    BY <2>1, SmallestSet
  <2>3. PICK x \in T : TRUE
    BY <2>2
  <2>4. T \in SUBSET S /\ IsFiniteSet(T)
    BY <2>2, FS_Subset
  <2>5. Cardinality(T) \in Nat /\ Cardinality(T \ {x}) = Cardinality(T) - 1
    BY <2>3, <2>4, ChosenElement
  <2>6. ~(Cardinality(T) <= Cardinality(T \ {x}))
    BY <2>5
  <2>7. T \ {x} \in G
    BY <2>2, <2>4, <2>6
  <2>8. QED
    BY <2>2, <2>3, <2>4, <2>7
<1>2. QED
  BY <1>1

\* A sum grows with its terms.
LEMMA SumGrows ==
    ASSUME NEW f, NEW h, NEW S, IsFiniteSet(S),
           \A x \in S : f[x] \in Int /\ h[x] \in Int /\ f[x] <= h[x]
    PROVE  SumOver(f, S) <= SumOver(h, S)
<1> DEFINE G == {T \in SUBSET S : SumOver(f, T) <= SumOver(h, T)}
<1>1. {} \in G
  BY SumOfNothing
<1>2. ASSUME NEW T \in SUBSET S, NEW x \in T, T \ {x} \in G
      PROVE  T \in G
  <2>1. IsFiniteSet(T) /\ IsFiniteSet(T \ {x}) /\ \A y \in T : f[y] \in Int /\ h[y] \in Int
    BY FS_Subset
  <2>2. /\ SumOver(f, T) = f[x] + SumOver(f, T \ {x}) /\ SumOver(f, T \ {x}) \in Int
        /\ SumOver(h, T) = h[x] + SumOver(h, T \ {x}) /\ SumOver(h, T \ {x}) \in Int
    BY <2>1, SumRemoves
  <2>3. SumOver(f, T \ {x}) <= SumOver(h, T \ {x}) /\ f[x] <= h[x]
    BY <1>2
  <2>4. QED
    BY <2>2, <2>3
<1>3. S \in G
  <2> HIDE DEF G
  <2>1. QED
    BY <1>1, <1>2, SubsetInduction
<1>4. QED
  BY <1>3

\* The sum of zeros and ones is the number of ones.
LEMMA SumCounts ==
    ASSUME NEW f, NEW S, IsFiniteSet(S), \A x \in S : f[x] \in {0, 1}
    PROVE  SumOver(f, S) = Cardinality({x \in S : f[x] = 1})
<1> DEFINE Ones(T) == {x \in T : f[x] = 1}
           G == {T \in SUBSET S : SumOver(f, T) = Cardinality(Ones(T))}
<1>1. {} \in G
  BY SumOfNothing, FS_EmptySet
<1>2. ASSUME NEW T \in SUBSET S, NEW x \in T, T \ {x} \in G
      PROVE  T \in G
  <2>1. IsFiniteSet(T) /\ IsFiniteSet(Ones(T)) /\ \A y \in T : f[y] \in Int
    BY FS_Subset
  <2>2. SumOver(f, T) = f[x] + Cardinality(Ones(T \ {x}))
    BY <1>2, <2>1, SumRemoves
  <2>3. CASE f[x] = 0
    <3>1. Ones(T \ {x}) = Ones(T)
      BY <2>3
    <3>2. Cardinality(Ones(T)) \in Nat
      BY <2>1, FS_CardinalityType
    <3> HIDE DEF Ones
    <3>3. SumOver(f, T) = Cardinality(Ones(T))
      BY <2>2, <2>3, <3>1, <3>2
    <3>4. QED
      BY <3>3
  <2>4. CASE f[x] = 1
    <3>1. Ones(T \ {x}) = Ones(T) \ {x} /\ x \in Ones(T)
      BY <2>4
    <3> HIDE DEF Ones
    <3>2. /\ Cardinality(Ones(T) \ {x}) = Cardinality(Ones(T)) - 1
          /\ Cardinality(Ones(T)) \in Nat
      BY <2>1, <3>1, ChosenElement
    <3>3. SumOver(f, T) = 1 + Cardinality(Ones(T) \ {x})
      BY <2>2, <2>4, <3>1
    <3>4. SumOver(f, T) = Cardinality(Ones(T))
      BY <3>2, <3>3
    <3>5. QED
      BY <3>4
  <2>5. QED
    BY <2>3, <2>4
<1>3. S \in G
  <2> HIDE DEF G
  <2>1. QED
    BY <1>1, <1>2, SubsetInduction
<1>4. QED
  BY <1>3

\* A sum of positive terms is at least their number.
LEMMA SumOfPositives ==
    ASSUME NEW f, NEW S, IsFiniteSet(S), \A x \in S : f[x] \in Int /\ f[x] >= 1
    PROVE  Cardinality(S) <= SumOver(f, S)
<1> DEFINE one == [x \in S |-> 1]
<1>1. SumOver(one, S) = Cardinality(S)
  <2>1. {x \in S : one[x] = 1} = S
    OBVIOUS
  <2>2. \A x \in S : one[x] \in {0, 1}
    OBVIOUS
  <2> HIDE DEF one
  <2>3. QED
    BY <2>1, <2>2, SumCounts
<1>2. \A x \in S : one[x] \in Int /\ one[x] <= f[x]
  OBVIOUS
<1> HIDE DEF one
<1>3. SumOver(one, S) <= SumOver(f, S)
  BY <1>2, SumGrows
<1>4. QED
  BY <1>1, <1>3

\* The sum over two sets that are apart.
LEMMA SumJoins ==
    ASSUME NEW f, NEW S, NEW R, IsFiniteSet(S), IsFiniteSet(R), S \cap R = {},
           \A x \in S \cup R : f[x] \in Int
    PROVE  SumOver(f, S \cup R) = SumOver(f, S) + SumOver(f, R)
<1> DEFINE G == {T \in SUBSET S : SumOver(f, T \cup R) = SumOver(f, T) + SumOver(f, R)}
<1>1. {} \in G
  <2>1. {} \cup R = R /\ SumOver(f, R) \in Int
    BY SumRemoves
  <2>2. QED
    BY <2>1, SumOfNothing
<1>2. ASSUME NEW T \in SUBSET S, NEW x \in T, T \ {x} \in G
      PROVE  T \in G
  <2>1. /\ IsFiniteSet(T) /\ IsFiniteSet(T \cup R) /\ IsFiniteSet(T \ {x})
        /\ \A y \in T \cup R : f[y] \in Int
    BY FS_Subset, FS_Union
  <2>2. SumOver(f, T) = f[x] + SumOver(f, T \ {x}) /\ SumOver(f, T \ {x}) \in Int
    BY <2>1, SumRemoves
  <2>3. SumOver(f, T \cup R) = f[x] + SumOver(f, (T \cup R) \ {x})
    BY <2>1, SumRemoves
  <2>4. (T \cup R) \ {x} = (T \ {x}) \cup R /\ f[x] \in Int /\ SumOver(f, R) \in Int
    BY <2>1, SumRemoves
  <2>5. SumOver(f, (T \ {x}) \cup R) = SumOver(f, T \ {x}) + SumOver(f, R)
    BY <1>2
  <2>6. SumOver(f, T \cup R) = f[x] + (SumOver(f, T \ {x}) + SumOver(f, R))
    BY <2>3, <2>4, <2>5
  <2>7. SumOver(f, T \cup R) = SumOver(f, T) + SumOver(f, R)
    <3> DEFINE t == SumOver(f, T \ {x})
               r == SumOver(f, R)
    <3>1. t \in Int /\ r \in Int /\ f[x] \in Int
      BY <2>2, <2>4
    <3> HIDE DEF t, r
    <3>2. f[x] + (t + r) = (f[x] + t) + r
      BY <3>1
    <3>3. QED
      BY <2>2, <2>6, <3>2 DEF t, r
  <2>8. QED
    BY <2>7
<1>3. S \in G
  <2> HIDE DEF G
  <2>1. QED
    BY <1>1, <1>2, SubsetInduction
<1>4. QED
  BY <1>3
\* If no group adds more than it has in the budget, all sequences together add
\* no more than the budget.
LEMMA SumOfGroups ==
    ASSUME NEW f, NEW budget, \A s \in Seqs : f[s] \in Int,
           \A g \in Groups : /\ budget[g] \in Int
                             /\ SumOver(f, {s \in Seqs : GroupOf[s] = g}) <= budget[g]
    PROVE  SumOver(f, Seqs) <= SumOver(budget, Groups)
<1> DEFINE Of(T) == {s \in Seqs : GroupOf[s] \in T}
           G == {T \in SUBSET Groups : SumOver(f, Of(T)) <= SumOver(budget, T)}
<1>0. IsFiniteSet(Groups) /\ \A T : IsFiniteSet(Of(T)) /\ Of(T) \subseteq Seqs
  BY GroupsFinite, SequenceGroupsAssumption, FS_Subset
<1>1. {} \in G
  <2>1. Of({}) = {}
    OBVIOUS
  <2>2. QED
    BY <2>1, SumOfNothing
<1>2. ASSUME NEW T \in SUBSET Groups, NEW x \in T, T \ {x} \in G
      PROVE  T \in G
  <2> DEFINE R == T \ {x}
             X == {s \in Seqs : GroupOf[s] = x}
  <2>1. Of(T) = Of(R) \cup X /\ Of(R) \cap X = {} /\ X = Of({x})
    OBVIOUS
  <2>2. IsFiniteSet(X) /\ X \subseteq Seqs /\ IsFiniteSet(Of(R)) /\ Of(R) \subseteq Seqs
    BY <1>0, <2>1
  <2>3. SumOver(f, X) <= budget[x] /\ budget[x] \in Int
    OBVIOUS
  <2>4. SumOver(f, Of(R)) <= SumOver(budget, R)
    BY <1>2
  <2> HIDE DEF X, Of, G
  <2>5. SumOver(f, Of(T)) = SumOver(f, Of(R)) + SumOver(f, X)
    <3>1. \A s \in Of(R) \cup X : f[s] \in Int
      BY <2>2
    <3> HIDE DEF R
    <3>2. SumOver(f, Of(R) \cup X) = SumOver(f, Of(R)) + SumOver(f, X)
      BY <2>1, <2>2, <3>1, SumJoins
    <3>3. QED
      BY <2>1, <3>2
  <2>6. IsFiniteSet(T) /\ IsFiniteSet(R) /\ R \subseteq Groups
    <3>1. R \subseteq Groups /\ T \subseteq Groups
      OBVIOUS
    <3> HIDE DEF R
    <3>2. QED
      BY <1>0, <3>1, FS_Subset
  <2>7. SumOver(budget, T) = budget[x] + SumOver(budget, R) /\ SumOver(budget, R) \in Int
    <3>1. (\A h \in T : budget[h] \in Int) /\ (\A h \in R : budget[h] \in Int) /\ R = T \ {x}
      OBVIOUS
    <3> HIDE DEF R
    <3>2. \A h \in T : SumOver(budget, T) = budget[h] + SumOver(budget, T \ {h})
      BY <2>6, <3>1, SumRemoves
    <3>3. SumOver(budget, R) \in Int
      BY <2>6, <3>1, SumRemoves
    <3>4. QED
      BY <3>1, <3>2, <3>3
  <2>8. SumOver(f, Of(R)) \in Int /\ SumOver(f, X) \in Int
    BY <2>2, SumRemoves
  <2>9. SumOver(f, Of(T)) <= SumOver(budget, T)
    BY <2>3, <2>4, <2>5, <2>7, <2>8
  <2>10. QED
    BY <2>9 DEF G
<1>3. Groups \in G
  <2> HIDE DEF G
  <2>1. QED
    BY <1>0, <1>1, <1>2, SubsetInduction
<1>4. Of(Groups) = Seqs
  BY SequenceGroupsAssumption
<1>5. QED
  BY <1>3, <1>4

\* A group is counted once.
LEMMA TotalGrows ==
    ASSUME NEW budget \in [Groups -> Int], NEW g \in Groups, NEW n \in Int, budget[g] = 0
    PROVE  Total(Count(budget, g, n)) = Total(budget) + n
<1> DEFINE after == Count(budget, g, n)
           R == Groups \ {g}
<1>1. /\ after \in [Groups -> Int] /\ after[g] = n
      /\ \A h \in R : after[h] = budget[h] /\ budget[h] \in Int
  BY CountIs
<1>2. IsFiniteSet(R)
  BY GroupsFinite, FS_Subset
<1> HIDE DEF after
<1>3. /\ SumOver(after, Groups) = n + SumOver(after, R)
      /\ SumOver(budget, Groups) = 0 + SumOver(budget, R)
  BY <1>1, GroupsFinite, SumRemoves
<1>4. SumOver(after, R) = SumOver(budget, R) /\ SumOver(budget, R) \in Int
  BY <1>1, <1>2, SumSame, SumRemoves
<1>5. SumOver(after, Groups) = SumOver(budget, Groups) + n
  BY <1>3, <1>4
<1>6. QED
  BY <1>5 DEF Total, after

\* Nothing is counted.
LEMMA TotalOfNothing ==
    ASSUME NEW budget, \A g \in Groups : budget[g] = 0
    PROVE  Total(budget) = 0
<1>1. {g \in Groups : budget[g] = 1} = {}
  OBVIOUS
<1>2. Total(budget) = Cardinality({})
  BY <1>1, GroupsFinite, SumCounts DEF Total
<1>3. QED
  BY <1>2, FS_EmptySet

\* The oldest group of a queue is the oldest of those that stay.
LEMMA OldestStays ==
    ASSUME QueueTypes, NEW Q, NEW R \in SUBSET Q, Q \subseteq Range(arrivals), Oldest(Q) \in R
    PROVE  Oldest(R) = Oldest(Q)
<1> DEFINE x == Oldest(Q)
           y == Oldest(R)
<1>1. x \in R /\ \A h \in Q : Rank(x) <= Rank(h)
  BY EndsOfQueue
<1>2. y \in R /\ \A h \in R : Rank(y) <= Rank(h)
  BY EndsOfQueue
<1> HIDE DEF x, y
<1>3. /\ Rank(x) \in Nat /\ arrivals[Rank(x)] = x
      /\ Rank(y) \in Nat /\ arrivals[Rank(y)] = y
  BY <1>1, <1>2, RankOf
<1>4. Rank(x) <= Rank(y) /\ Rank(y) <= Rank(x)
  BY <1>1, <1>2
<1>5. Rank(x) = Rank(y)
  BY <1>3, <1>4
<1>6. QED
  BY <1>3, <1>5 DEF x, y
-----------------------------------------------------------------------------
(***************************************************************************)
(* What a batch costs.  A group has at least one token in the budget for   *)
(* each of its sequences, and no sequence is scheduled without.  With      *)
(* chunked prefill a chunk is what is left of the budget, or less, as long *)
(* as the groups have one sequence each: the decodes of a beam search are  *)
(* not capped, and the chunks after them may be negative.                  *)
(***************************************************************************)

Paid(g) == tokenBudget[g] # 0 => Cardinality(SeqsWith(g, "RUNNING")) <= tokenBudget[g]
Served(s) == s \in scheduled => \/ tokenBudget[GroupOf[s]] # 0
                                \/ pc = "current" /\ GroupOf[s] = Current

PaidInv ==
    Working =>
        /\ \A g \in Groups : /\ Paid(g)
                             /\ HasReturned(g) => tokenBudget[g] # 0
        /\ pc # "outputs" => \A s \in Seqs : Served(s)
        /\ pc \in {"queues", "execute"} => Total(tokenBudget) <= MaxNumBatchedTokens
        /\ ChunkedPrefill => /\ Total(tokenBudget) <= MaxNumBatchedTokens
                             /\ pc = "current" => Total(tokenBudget) < MaxNumBatchedTokens

\* Between two batches nothing is counted.
LEMMA QuietPaid ==
    ASSUME ProgressOK', pc' \in {"idle", "outputs", "forks", "trim"}
    PROVE  PaidInv'
<1>1. SUFFICES ASSUME Working' PROVE PaidInv'
  BY DEF PaidInv
<1>2. (\A g \in Groups : tokenBudget'[g] = 0) /\ (pc' # "outputs" => scheduled' = {})
  BY <1>1 DEF ProgressOK, BudgetInv, Counted
<1>3. Total(tokenBudget') = 0
  BY <1>2, TotalOfNothing
<1>4. Total(tokenBudget)' = Total(tokenBudget')
  BY DEF Total
<1>5. \A g : ~HasReturned(g)'
  BY DEF HasReturned
<1>6. 0 <= MaxNumBatchedTokens
  BY SchedulerAssumption
<1>7. QED
  BY <1>2, <1>3, <1>4, <1>5, <1>6 DEF PaidInv, Paid, Served

\* Steps of a round that schedule no other sequence.
LEMMA PaidStays ==
    ASSUME PaidInv, ProgressOK, Working, UNCHANGED <<tokenBudget, policy>>, pc # "outputs",
           \A g \in Groups : SeqsWith(g, "RUNNING")' \subseteq SeqsWith(g, "RUNNING"),
           scheduled' \subseteq scheduled,
           \A g \in Groups : HasReturned(g)' => HasReturned(g),
           pc' # "current" => \A s \in scheduled' : ~(pc = "current" /\ GroupOf[s] = Current),
           pc' = "current" => pc = "current" /\ Current' = Current,
           pc' \in {"queues", "execute"} => Total(tokenBudget) <= MaxNumBatchedTokens
    PROVE  PaidInv'
<1>1. ASSUME NEW g \in Groups PROVE Paid(g)' /\ (HasReturned(g)' => tokenBudget'[g] # 0)
  <2>1. Paid(g) /\ (HasReturned(g) => tokenBudget[g] # 0)
    BY DEF PaidInv
  <2>2. /\ Cardinality(SeqsWith(g, "RUNNING"))' <= Cardinality(SeqsWith(g, "RUNNING"))
        /\ Cardinality(SeqsWith(g, "RUNNING"))' \in Nat
        /\ Cardinality(SeqsWith(g, "RUNNING")) \in Nat
    <3>1. IsFiniteSet(SeqsWith(g, "RUNNING"))
      BY SeqSetsFinite DEF SeqsWith
    <3>2. QED
      BY <3>1, FS_Subset, FS_CardinalityType
  <2>3. tokenBudget[g] \in Int /\ tokenBudget' = tokenBudget
    BY DEF ProgressOK, ProgressTypes
  <2>4. Paid(g)'
    BY <2>1, <2>2, <2>3 DEF Paid
  <2>5. QED
    BY <2>1, <2>3, <2>4
<1>2. ASSUME NEW s \in Seqs, pc' # "outputs" PROVE Served(s)'
  BY <1>2 DEF PaidInv, Served
<1>3. Total(tokenBudget)' = Total(tokenBudget) /\ (ChunkedPrefill' <=> ChunkedPrefill)
  BY DEF Total, ChunkedPrefill
<1>4. QED
  BY <1>1, <1>2, <1>3 DEF PaidInv
\* A group that has returned was coming back already.
LEMMA ReturnedBefore ==
    ASSUME TypeOK, PlacesInv, status' = status, swapped' \subseteq swapped, NEW g, HasReturned(g)'
    PROVE  HasReturned(g)
<1>1. AllAre(g, "RUNNING") /\ g \in Sleepers
  BY SameStatus DEF HasReturned, Sleepers
<1>2. ~AllAre(g, "SWAPPED")
  BY <1>1 DEF AllAre, SeqsWith
<1>3. QED
  BY <1>1, <1>2 DEF PlacesInv

\* The actions that only move groups and end loops.
LEMMA PassingPaid ==
    ASSUME IInv, IInv', QueuesOK, ProgressOK, Working, PaidInv, UNCHANGED policy, Working',
           \/ StartSchedule \/ IgnorePrompt \/ SkipPrompt \/ EndPrefills \/ EndRunning
           \/ SkipSwapped \/ ReturningIsScheduled \/ EndSwapped \/ CheckBudget \/ EndSchedule
    PROVE  PaidInv'
<1>0. TypeOK /\ PlacesInv /\ QueueTypes
  BY DEF IInv, QueuesOK, QueueInv
<1>1. /\ tokenBudget' = tokenBudget
      /\ pc \notin {"outputs", "current"} /\ pc' # "current"
  BY DEF StartSchedule, IgnorePrompt, SkipPrompt, EndPrefills, EndRunning, SkipSwapped,
     ReturningIsScheduled, EndSwapped, CheckBudget, EndSchedule, Prefilling, Swapping, At,
     roundVars, budgetVars
<1>2. /\ \A g \in Groups : SeqsWith(g, "RUNNING")' \subseteq SeqsWith(g, "RUNNING")
      /\ scheduled' \subseteq scheduled
      /\ status' = status \/ (pc' = pc /\ pc = "prefills")
  <2>1. CASE IgnorePrompt
    <3>1. Finish({Prompt}) /\ pc' = pc /\ pc = "prefills"
      BY <2>1 DEF IgnorePrompt, Prefilling, At
    <3>2. QED
      BY <3>1 DEF Finish, Raise, SetStatus, SeqsWith
  <2>2. CASE ~IgnorePrompt
    <3>1. UNCHANGED vars
      BY <2>2 DEF StartSchedule, SkipPrompt, EndPrefills, EndRunning, SkipSwapped,
         ReturningIsScheduled, EndSwapped, CheckBudget, EndSchedule
    <3>2. status' = status /\ scheduled' = scheduled
      BY <3>1 DEF vars
    <3>3. ASSUME NEW g \in Groups PROVE SeqsWith(g, "RUNNING")' = SeqsWith(g, "RUNNING")
      BY <3>2, SameStatus
    <3>4. QED
      BY <3>2, <3>3
  <2>3. QED
    BY <2>1, <2>2
<1>3. pc' = "swapped" => swapped' \subseteq swapped
  BY DEF StartSchedule, IgnorePrompt, SkipPrompt, EndPrefills, EndRunning, SkipSwapped,
     ReturningIsScheduled, EndSwapped, CheckBudget, EndSchedule, Prefilling, Swapping, At,
     queueVars
<1>4. \A g \in Groups : HasReturned(g)' => HasReturned(g)
  <2>1. SUFFICES ASSUME pc' = "swapped", NEW g \in Groups, HasReturned(g)'
                 PROVE  HasReturned(g)
    BY DEF HasReturned
  <2>2. status' = status /\ swapped' \subseteq swapped
    BY <1>2, <1>3, <2>1
  <2>3. QED
    BY <1>0, <2>1, <2>2, ReturnedBefore
<1>5. pc' \in {"queues", "execute"} => Total(tokenBudget) <= MaxNumBatchedTokens
  <2>1. SUFFICES ASSUME pc' \in {"queues", "execute"}
                 PROVE  Total(tokenBudget) <= MaxNumBatchedTokens
    OBVIOUS
  <2>2. CheckBudget \/ EndSchedule
    BY <2>1 DEF StartSchedule, IgnorePrompt, SkipPrompt, EndPrefills, EndRunning, SkipSwapped,
       ReturningIsScheduled, EndSwapped, Prefilling, Swapping, At
  <2>3. CASE CheckBudget
    <3>1. ~OverBudget
      BY <2>1, <2>3 DEF CheckBudget
    <3>2. Total(tokenBudget) \in Int /\ MaxNumBatchedTokens \in Int
      BY TotalIs, SchedulerAssumption DEF ProgressOK, ProgressTypes
    <3>3. QED
      BY <3>1, <3>2 DEF OverBudget
  <2>4. CASE EndSchedule
    BY <2>4 DEF EndSchedule, At, PaidInv
  <2>5. QED
    BY <2>2, <2>3, <2>4
<1>6. QED
  BY <1>1, <1>2, <1>4, <1>5, PaidStays

\* Preemptions take no group that has been scheduled.
LEMMA PreemptingPaid ==
    ASSUME IInv, IInv', QueuesOK, ProgressOK, Working, PaidInv, UNCHANGED policy, Working',
           RecomputeYoungest \/ SwapOutYoungest
    PROVE  PaidInv'
<1>0. TypeOK /\ QueueTypes /\ RoundInv /\ PhaseInv
  BY DEF IInv, QueuesOK, QueueInv
<1>1. PICK g : g = Victim
  OBVIOUS
<1>2. /\ PreemptByRecompute(g) \/ PreemptBySwap(g)
      /\ NoRoom /\ GiveUp /\ batch' = batch /\ arrivals' = arrivals
  BY <1>1 DEF RecomputeYoungest, SwapOutYoungest
<1>3. /\ pc = "current" /\ pc' \in {"running", "current"} /\ tokenBudget' = tokenBudget
  BY <1>0, <1>2, GiveUpBudget
<1>4. /\ SeqsWith(g, "RUNNING") \cap scheduled = {}
      /\ scheduled' = scheduled
      /\ \A h \in Groups : SeqsWith(h, "RUNNING")' \subseteq SeqsWith(h, "RUNNING")
  BY <1>2 DEF PreemptByRecompute, PreemptBySwap, Preemptible, MoveError, Raise, SetStatus,
     SeqsWith
<1>5. \A h \in Groups : ~HasReturned(h)'
  BY <1>3 DEF HasReturned
<1>6. /\ running \subseteq Range(arrivals) /\ Current \in running
      /\ running' = running \ {g}
      /\ pc' = IF g = Current THEN "running" ELSE "current"
  BY <1>0, <1>1, <1>2, <1>3, QueuedArrived DEF QueuesOK, PhaseInv, GiveUp
<1>7. pc' # "current" => \A s \in scheduled' : ~(pc = "current" /\ GroupOf[s] = Current)
  <2>1. SUFFICES ASSUME g = Current, NEW s \in scheduled, GroupOf[s] = Current PROVE FALSE
    BY <1>4, <1>6
  <2>2. s \in SeqsWith(g, "RUNNING")
    BY <1>0, <2>1 DEF RoundInv, SeqsWith, TypeOK
  <2>3. QED
    BY <1>4, <2>1, <2>2
<1>8. pc' = "current" => pc = "current" /\ Current' = Current
  <2>1. SUFFICES ASSUME pc' = "current" PROVE Current' = Current
    BY <1>3
  <2>2. Current \in running'
    BY <1>6, <2>1
  <2>3. PICK R : R = running'
    OBVIOUS
  <2>4. Oldest(R) = Oldest(running)
    BY <1>0, <1>6, <2>2, <2>3, OldestStays DEF Current
  <2>5. Current' = Oldest(R)
    BY <1>2, <2>3 DEF Current, Oldest, Rank
  <2>6. QED
    BY <2>4, <2>5 DEF Current
<1>9. QED
  BY <1>3, <1>4, <1>5, <1>7, <1>8, PaidStays
\* A group that is to be scheduled has at least one token for each sequence.
LEMMA NewTokensCover ==
    ASSUME TypeOK, ProgressOK, pc # "outputs", NEW g, NEW st \in {"RUNNING", "SWAPPED"}
    PROVE  /\ Cardinality(SeqsWith(g, st)) \in Nat
           /\ Cardinality(SeqsWith(g, st)) <= NewTokens(g, st)
<1> DEFINE f == [s \in Seqs |-> len[s] - computed[s]]
           S == SeqsWith(g, st)
<1>1. IsFiniteSet(S)
  BY SeqSetsFinite DEF SeqsWith
<1>2. ASSUME NEW s \in S PROVE f[s] \in Int /\ f[s] >= 1
  <2>1. s \in Seqs /\ Placed(s)
    BY <1>2 DEF SeqsWith, Placed
  <2>2. computed[s] < len[s] /\ computed[s] \in Nat /\ len[s] \in Nat
    BY <2>1, UnderWay
  <2>3. QED
    BY <2>1, <2>2
<1>3. NewTokens(g, st) = SumOver(f, S)
  BY DEF NewTokens
<1> HIDE DEF f, S
<1>4. Cardinality(S) <= SumOver(f, S)
  BY <1>1, <1>2, SumOfPositives
<1>5. Cardinality(S) \in Nat
  BY <1>1, FS_CardinalityType
<1>6. QED
  BY <1>3, <1>4, <1>5 DEF S

\* A group has one sequence if it samples one.
LEMMA SingleGroup ==
    ASSUME IInv, SingleSequences, NEW g \in Groups, NEW st \in {"WAITING", "RUNNING", "SWAPPED"},
           AllAre(g, st)
    PROVE  /\ SeqsWith(g, st) = {Parent[g]} /\ Parent[g] \in Seqs
           /\ MaxNumRunningSeqs(g) = 1
<1>1. \A s \in Members(g) : s = Parent[g] /\ s \in Seqs
  BY DEF IInv, GroupsInv, SingleSequences, Members
<1>2. Unfinished(g) = {Parent[g]} /\ SeqsWith(g, st) = {Parent[g]} /\ Members(g) = {Parent[g]}
  BY <1>1 DEF AllAre, SeqsWith, Unfinished, Members
<1>3. Cardinality(Unfinished(g)) = 1 /\ NumSeqs(g) = 1
  BY <1>2, FS_Singleton DEF NumSeqs
<1>4. MaxNumRunningSeqs(g) = 1
  BY <1>3 DEF SingleSequences, MaxNumRunningSeqs
<1>5. QED
  BY <1>1, <1>2, <1>4

\* What a running group may be scheduled for is worth its sequences, or there is
\* nothing left for it.
LEMMA RunningTokens ==
    ASSUME IInv, ProgressOK, pc # "outputs", NEW g \in Groups, AllAre(g, "RUNNING"),
           DefaultPolicy \/ SingleSequences
    PROVE  /\ ChunkedNewTokens(g, "RUNNING") \in Int
           /\ Cardinality(SeqsWith(g, "RUNNING")) \in Nat \ {0}
           /\ ~ChunkedPrefill =>
                Cardinality(SeqsWith(g, "RUNNING")) <= ChunkedNewTokens(g, "RUNNING")
           /\ ChunkedPrefill /\ Total(tokenBudget) < MaxNumBatchedTokens =>
                /\ Cardinality(SeqsWith(g, "RUNNING")) <= ChunkedNewTokens(g, "RUNNING")
                /\ Total(tokenBudget) + ChunkedNewTokens(g, "RUNNING") <= MaxNumBatchedTokens
           /\ ChunkedPrefill /\ Total(tokenBudget) = MaxNumBatchedTokens =>
                ChunkedNewTokens(g, "RUNNING") = 0
<1> DEFINE k == Cardinality(SeqsWith(g, "RUNNING"))
           n == NewTokens(g, "RUNNING")
           left == MaxNumBatchedTokens - Total(tokenBudget)
<1>1. k \in Nat /\ n \in Int /\ k <= n /\ left \in Int
  BY NewTokensCover, NewTokensAre, TotalIs, SchedulerAssumption
     DEF IInv, ProgressOK, ProgressTypes
<1>2. k # 0
  <2>1. SeqsWith(g, "RUNNING") # {} /\ IsFiniteSet(SeqsWith(g, "RUNNING"))
    BY SeqSetsFinite DEF AllAre, SeqsWith
  <2>2. QED
    BY <2>1, FS_EmptySet
<1>3. ChunkedPrefill => k = 1
  <2>1. ChunkedPrefill => ~DefaultPolicy
    BY DEF ProgressOK, ProgressTypes, DefaultPolicy, ChunkedPrefill
  <2>2. SingleSequences => k = 1
    BY SingleGroup, FS_Singleton
  <2>3. QED
    BY <2>1, <2>2
<1>4. ChunkedNewTokens(g, "RUNNING") = IF ChunkedPrefill /\ k = 1 THEN MinOf(n, left) ELSE n
  BY DEF ChunkedNewTokens
<1>5. Total(tokenBudget) \in Int /\ MaxNumBatchedTokens \in Int
  BY TotalIs, SchedulerAssumption DEF ProgressOK, ProgressTypes
<1> HIDE DEF k, n
<1>6. QED
  BY <1>1, <1>2, <1>3, <1>4, <1>5 DEF MinOf, k

\* An assertion says that there is something left for the current group.
LEMMA TakeCurrentPaid ==
    ASSUME IInv, QueuesOK, ProgressOK, Working, PaidInv, UNCHANGED policy, Working',
           DefaultPolicy \/ SingleSequences, TakeCurrent
    PROVE  PaidInv'
<1>0. TypeOK /\ QueueTypes /\ PlacesInv
  BY DEF IInv, QueuesOK, QueueInv
<1>1. /\ pc = "running" /\ running # {} /\ pc' = "current" /\ CurrentTokens # 0
      /\ UNCHANGED <<status, scheduled, tokenBudget, arrivals, running>>
  BY DEF TakeCurrent, At, Working, Phases, vars, queueVars, roundVars, budgetVars
<1>2. PICK g : g = Current
  OBVIOUS
<1>3. g \in Groups /\ AllAre(g, "RUNNING")
  BY <1>0, <1>1, <1>2, QueuedArrived DEF QueuesOK, QueueTypes, PlacesInv, Runners, AllAre
<1>4. ChunkedPrefill => Total(tokenBudget) < MaxNumBatchedTokens
  <2>1. ChunkedPrefill => Total(tokenBudget) <= MaxNumBatchedTokens
    BY DEF PaidInv
  <2>2. Total(tokenBudget) \in Int /\ MaxNumBatchedTokens \in Int
    BY TotalIs, SchedulerAssumption DEF ProgressOK, ProgressTypes
  <2>3. ChunkedPrefill => Total(tokenBudget) # MaxNumBatchedTokens
    BY <1>1, <1>2, <1>3, RunningTokens DEF CurrentTokens
  <2>4. QED
    BY <2>1, <2>2, <2>3
<1>5. \A h \in Groups : ~HasReturned(h)'
  BY <1>1 DEF HasReturned
<1>6. ASSUME NEW h \in Groups PROVE Paid(h)'
  <2>1. SeqsWith(h, "RUNNING")' = SeqsWith(h, "RUNNING")
    BY <1>1, SameStatus
  <2>2. QED
    BY <1>1, <2>1 DEF PaidInv, Paid
<1>7. ASSUME NEW s \in Seqs PROVE Served(s)'
  BY <1>1 DEF PaidInv, Served
<1>8. Total(tokenBudget)' = Total(tokenBudget) /\ (ChunkedPrefill' <=> ChunkedPrefill)
  BY <1>1 DEF Total, ChunkedPrefill
<1>9. QED
  BY <1>1, <1>4, <1>5, <1>6, <1>7, <1>8 DEF PaidInv

LEMMA SlotsPaid ==
    ASSUME IInv, QueuesOK, ProgressOK, Working, PaidInv, UNCHANGED policy, Working',
           NEW s \in Seqs, AppendSlotsOfCurrent(s) \/ AppendSlotsOfReturning(s)
    PROVE  PaidInv'
<1>0. TypeOK /\ QueueTypes /\ PlacesInv
  BY DEF IInv, QueuesOK, QueueInv
<1>1. /\ AppendSlots(s) /\ pc' = pc /\ pc \in {"current", "swapped"}
      /\ UNCHANGED <<tokenBudget, arrivals, running, swapped>>
      /\ pc = "current" => s \in Unslotted(Current)
      /\ pc = "swapped" => s \in Unslotted(Returning) /\ ComesBack /\ swapped # {}
  BY DEF AppendSlotsOfCurrent, AppendSlotsOfReturning, Decoding, Swapping, At, roundVars,
     budgetVars, queueVars
<1>2. status' = status /\ scheduled' \subseteq scheduled \cup {s}
  BY <1>1 DEF AppendSlots, AppendError, Raise
<1>3. Current' = Current /\ Returning' = Returning
  BY <1>1 DEF Current, Returning, Oldest, Rank
<1>4. ASSUME NEW g \in Groups PROVE Paid(g)' /\ (HasReturned(g)' => tokenBudget'[g] # 0)
  <2>1. /\ SeqsWith(g, "RUNNING")' = SeqsWith(g, "RUNNING")
        /\ AllAre(g, "RUNNING")' <=> AllAre(g, "RUNNING")
    BY <1>2, SameStatus
  <2>2. HasReturned(g)' => HasReturned(g)
    BY <1>1, <1>3, <2>1 DEF HasReturned
  <2>3. QED
    BY <1>1, <2>1, <2>2 DEF PaidInv, Paid
<1>5. Served(s)'
  <2>1. CASE pc = "current"
    BY <1>1, <1>3, <2>1 DEF Served, Unslotted, SeqsWith
  <2>2. CASE pc = "swapped"
    <3>1. PICK g : g = Returning
      OBVIOUS
    <3>2. g \in swapped /\ g \in Groups /\ GroupOf[s] = g /\ SeqsWith(g, "SWAPPED") = {}
      BY <1>0, <1>1, <2>2, <3>1, QueuedArrived
         DEF QueuesOK, QueueTypes, Unslotted, SeqsWith, ComesBack
    <3>3. ~AllAre(g, "SWAPPED")
      BY <3>2 DEF AllAre
    <3>4. HasReturned(g)
      BY <1>0, <3>2, <3>3 DEF PlacesInv, Sleepers
    <3>5. tokenBudget[g] # 0
      BY <3>2, <3>4 DEF PaidInv
    <3>6. QED
      BY <1>1, <3>2, <3>5 DEF Served
  <2>3. QED
    BY <1>1, <2>1, <2>2
<1>6. ASSUME NEW q \in Seqs, q # s PROVE Served(q)'
  <2>1. Served(q)
    BY <1>1 DEF PaidInv
  <2>2. QED
    BY <1>1, <1>2, <1>3, <1>6, <2>1 DEF Served
<1>7. Total(tokenBudget)' = Total(tokenBudget) /\ (ChunkedPrefill' <=> ChunkedPrefill)
  BY <1>1 DEF Total, ChunkedPrefill
<1>8. QED
  BY <1>1, <1>4, <1>5, <1>6, <1>7 DEF PaidInv
LEMMA CurrentIsScheduledPaid ==
    ASSUME IInv, QueuesOK, ProgressOK, Working, PaidInv, UNCHANGED policy, Working',
           DefaultPolicy \/ SingleSequences, CurrentIsScheduled
    PROVE  PaidInv'
<1>0. TypeOK /\ QueueTypes /\ PlacesInv /\ PhaseInv /\ ApartInv /\ BudgetInv /\ ProgressTypes
  BY DEF IInv, QueuesOK, QueueInv, ProgressOK
<1>1. PICK g : g = Current
  OBVIOUS
<1>2. PICK n : n = CurrentTokens
  OBVIOUS
<1>3. /\ pc = "current" /\ pc' = "running" /\ UNCHANGED <<status, scheduled>>
      /\ tokenBudget' = Count(tokenBudget, g, n)
  BY <1>1, <1>2 DEF CurrentIsScheduled, Decoding, At, vars
<1>4. g \in running /\ g \in Groups /\ AllAre(g, "RUNNING") /\ g \notin batch
  <2>1. g \in running /\ g \notin batch
    BY <1>0, <1>1, <1>3, QueuedArrived DEF QueuesOK, PhaseInv, ApartInv
  <2>2. QED
    BY <1>0, <1>3, <2>1 DEF QueueTypes, PlacesInv, Runners, AllAre
<1>5. tokenBudget[g] = 0
  BY <1>0, <1>3, <1>4 DEF BudgetInv, Counted, HasReturned
<1>6. ChunkedPrefill => Total(tokenBudget) < MaxNumBatchedTokens
  BY <1>3 DEF PaidInv
<1>7. /\ n \in Int /\ Cardinality(SeqsWith(g, "RUNNING")) \in Nat \ {0}
      /\ Cardinality(SeqsWith(g, "RUNNING")) <= n
      /\ ChunkedPrefill => Total(tokenBudget) + n <= MaxNumBatchedTokens
  BY <1>1, <1>2, <1>3, <1>4, <1>6, RunningTokens DEF CurrentTokens
<1>8. /\ tokenBudget'[g] = n /\ n # 0
      /\ \A h \in Groups : h # g => tokenBudget'[h] = tokenBudget[h]
  BY <1>0, <1>3, <1>4, <1>5, <1>7, CountIs DEF ProgressTypes
<1>9. ASSUME NEW h \in Groups PROVE Paid(h)' /\ ~HasReturned(h)'
  <2>1. SeqsWith(h, "RUNNING")' = SeqsWith(h, "RUNNING")
    BY <1>3, SameStatus
  <2>2. CASE h = g
    BY <1>3, <1>7, <1>8, <2>1, <2>2 DEF Paid, HasReturned
  <2>3. CASE h # g
    BY <1>3, <1>8, <2>1, <2>3 DEF PaidInv, Paid, HasReturned
  <2>4. QED
    BY <2>2, <2>3
<1>10. ASSUME NEW s \in Seqs PROVE Served(s)'
  <2>1. Served(s) /\ GroupOf[s] \in Groups
    BY <1>3, SequenceGroupsAssumption DEF PaidInv
  <2>2. QED
    BY <1>1, <1>3, <1>8, <2>1 DEF Served
<1>11. Total(tokenBudget') = Total(tokenBudget) + n
  BY <1>0, <1>3, <1>4, <1>5, <1>7, TotalGrows DEF ProgressTypes
<1>12. Total(tokenBudget)' = Total(tokenBudget') /\ (ChunkedPrefill' <=> ChunkedPrefill)
  BY DEF Total, ChunkedPrefill
<1>13. QED
  BY <1>3, <1>7, <1>9, <1>10, <1>11, <1>12 DEF PaidInv

\* A prompt that fits is paid for.
LEMMA AdmitPromptPaid ==
    ASSUME IInv, QueuesOK, ProgressOK, Working, PaidInv, UNCHANGED policy, Working', AdmitPrompt
    PROVE  PaidInv'
<1>0. /\ pc = "prefills" /\ waiting # << >> /\ TypeOK /\ PlacesInv /\ QueueTypes
      /\ BudgetInv /\ ProgressTypes /\ ProgressInv
  BY DEF AdmitPrompt, Prefilling, At, IInv, QueuesOK, QueueInv, ProgressOK
<1>1. PICK g : g = Head(waiting)
  OBVIOUS
<1>2. PICK n : n = PromptTokens
  OBVIOUS
<1>3. PICK p \in Seqs : /\ g \in Groups /\ GroupOf[p] = g /\ g \in Range(waiting)
                        /\ Members(g) = {p} /\ SeqsWith(g, "WAITING") = {p}
  <2>1. /\ g \in Groups /\ Prompt \in Seqs /\ Members(g) = {Prompt} /\ g \in Range(waiting)
        /\ SeqsWith(g, "WAITING") = {Prompt}
    BY <1>0, <1>1, HeadOfWaiting
  <2>2. GroupOf[Prompt] = g
    BY <2>1 DEF SeqsWith
  <2>3. QED
    BY <2>1, <2>2
<1>4. /\ Allocate(g) /\ pc' = pc /\ Fits(g, n)
      /\ tokenBudget' = Count(tokenBudget, g, n)
  BY <1>1, <1>2 DEF AdmitPrompt
<1>5. /\ status' = [s \in Seqs |-> IF s = p THEN "RUNNING" ELSE status[s]]
      /\ scheduled' = scheduled \cup {p}
  BY <1>3, <1>4, AllocateSucceeds DEF SetStatus
<1>6. /\ Cardinality(SeqsWith(g, "RUNNING"))' = 1
      /\ \A h \in Groups : h # g => SeqsWith(h, "RUNNING")' = SeqsWith(h, "RUNNING")
  <2>1. SeqsWith(g, "RUNNING")' = {p}
    BY <1>3, <1>5 DEF SeqsWith, Members
  <2>2. QED
    BY <1>3, <1>5, <2>1, FS_Singleton DEF SeqsWith
<1>7. tokenBudget[g] = 0
  <2>1. g \notin batch /\ ~HasReturned(g)
    BY <1>0, <1>3, OnePlace DEF Waiters, Runners
  <2>2. QED
    BY <1>0, <1>3, <2>1 DEF BudgetInv, Counted
<1>8. n \in Int /\ n >= 1 /\ Total(tokenBudget) + n <= MaxNumBatchedTokens
  <2>1. /\ n # 0 /\ Total(tokenBudget) + n <= MaxNumBatchedTokens
    BY <1>4 DEF Fits
  <2>2. NewTokens(g, "WAITING") = len[p] - computed[p] /\ n \in Int
    BY <1>0, <1>1, <1>2, <1>3, NewTokensAre, ChunkedNewTokensAre DEF PromptTokens
  <2>3. computed[p] = 0 /\ len[p] \in Nat
    BY <1>0, <1>3 DEF ProgressInv, ProgressOf, SeqsWith, TypeOK, SequencesTypeOK
  <2>4. Total(tokenBudget) \in Int /\ MaxNumBatchedTokens \in Int
    BY TotalIs, SchedulerAssumption DEF ProgressOK, ProgressTypes
  <2>5. ChunkedPrefill => Total(tokenBudget) <= MaxNumBatchedTokens
    BY DEF PaidInv
  <2>6. /\ n \in {NewTokens(g, "WAITING"),
                  MinOf(NewTokens(g, "WAITING"), MaxNumBatchedTokens - Total(tokenBudget))}
        /\ ~ChunkedPrefill => n = NewTokens(g, "WAITING")
    BY <1>1, <1>2 DEF PromptTokens, ChunkedNewTokens
  <2>7. n >= 0
    BY <2>2, <2>3, <2>4, <2>5, <2>6 DEF MinOf
  <2>8. QED
    BY <2>1, <2>2, <2>7
<1>9. /\ tokenBudget'[g] = n
      /\ \A h \in Groups : h # g => tokenBudget'[h] = tokenBudget[h]
  BY <1>0, <1>3, <1>4, <1>7, <1>8, CountIs DEF ProgressTypes
<1>10. ASSUME NEW h \in Groups PROVE Paid(h)' /\ ~HasReturned(h)'
  <2>1. CASE h = g
    BY <1>0, <1>4, <1>6, <1>8, <1>9, <2>1 DEF Paid, HasReturned
  <2>2. CASE h # g
    BY <1>0, <1>4, <1>6, <1>9, <2>2 DEF PaidInv, Paid, HasReturned
  <2>3. QED
    BY <2>1, <2>2
<1>11. ASSUME NEW s \in Seqs PROVE Served(s)'
  <2>1. Served(s) /\ GroupOf[s] \in Groups
    BY <1>0, SequenceGroupsAssumption DEF PaidInv
  <2>2. s = p \/ (s \in scheduled' => s \in scheduled)
    BY <1>5
  <2>3. n # 0
    BY <1>8
  <2>4. QED
    BY <1>0, <1>3, <1>4, <1>9, <2>1, <2>2, <2>3 DEF Served
<1>12. Total(tokenBudget') = Total(tokenBudget) + n
  BY <1>0, <1>3, <1>4, <1>7, <1>8, TotalGrows DEF ProgressTypes
<1>13. Total(tokenBudget)' = Total(tokenBudget')
  BY DEF Total
<1>14. QED
  BY <1>0, <1>4, <1>8, <1>10, <1>11, <1>12, <1>13 DEF PaidInv

\* So is a group that is swapped in.
LEMMA SwapInOldestPaid ==
    ASSUME IInv, IInv', QueuesOK, ProgressOK, Working, PaidInv, UNCHANGED policy, Working',
           SwapInOldest
    PROVE  PaidInv'
<1>0. /\ pc = "swapped" /\ swapped # {} /\ ~ComesBack /\ TypeOK /\ PlacesInv /\ QueueTypes
      /\ BudgetInv /\ ProgressTypes /\ PhaseInv /\ ApartInv
  BY DEF SwapInOldest, Swapping, At, IInv, QueuesOK, QueueInv, ProgressOK
<1>1. PICK g : g = Returning
  OBVIOUS
<1>2. PICK n : n = NewTokens(g, "SWAPPED")
  OBVIOUS
<1>3. /\ SwapIn(g) /\ Fits(g, n) /\ tokenBudget' = Count(tokenBudget, g, n)
      /\ UNCHANGED <<pc, arrivals, swapped>>
  BY <1>1, <1>2 DEF SwapInOldest, queueVars
<1>4. g \in swapped /\ g \in Groups /\ g \notin batch /\ AllAre(g, "SWAPPED")
  <2>1. g \in swapped /\ g \in Groups /\ g \notin batch
    BY <1>0, <1>1, QueuedArrived DEF QueuesOK, QueueTypes, ApartInv
  <2>2. ~HasReturned(g)
    BY <1>0, NoneReturns
  <2>3. QED
    BY <1>0, <2>1, <2>2 DEF PlacesInv, Sleepers
<1>5. SetStatus(SeqsWith(g, "SWAPPED"), "RUNNING") /\ scheduled' = scheduled
  BY <1>3 DEF SwapIn, MoveError, Raise, Working, Alive
<1>6. tokenBudget[g] = 0
  BY <1>0, <1>4, NoneReturns DEF BudgetInv, Counted
<1>7. /\ n \in Int /\ n # 0 /\ Cardinality(SeqsWith(g, "SWAPPED")) <= n
      /\ Total(tokenBudget) + n <= MaxNumBatchedTokens
  <2>1. n # 0 /\ Total(tokenBudget) + n <= MaxNumBatchedTokens
    BY <1>3 DEF Fits
  <2>2. n \in Int /\ Cardinality(SeqsWith(g, "SWAPPED")) <= n
    BY <1>0, <1>2, NewTokensAre, NewTokensCover
  <2>3. QED
    BY <2>1, <2>2
<1>8. /\ tokenBudget'[g] = n
      /\ \A h \in Groups : h # g => tokenBudget'[h] = tokenBudget[h]
  BY <1>0, <1>3, <1>4, <1>6, <1>7, CountIs DEF ProgressTypes
<1>9. /\ SeqsWith(g, "RUNNING")' = SeqsWith(g, "SWAPPED")
      /\ \A h \in Groups : h # g => SeqsWith(h, "RUNNING")' = SeqsWith(h, "RUNNING")
  <2>1. SeqsWith(g, "RUNNING") = {}
    BY <1>4 DEF AllAre, SeqsWith, Unfinished, Members
  <2>2. \A s \in Seqs : status'[s] = IF s \in SeqsWith(g, "SWAPPED") THEN "RUNNING" ELSE status[s]
    BY <1>5 DEF SetStatus
  <2>3. QED
    BY <2>1, <2>2 DEF SeqsWith
<1>10. ASSUME NEW h \in Groups PROVE Paid(h)' /\ (HasReturned(h)' => tokenBudget'[h] # 0)
  <2>1. HasReturned(h)' => h = g
    BY <1>1, <1>3 DEF HasReturned, Returning, Oldest, Rank
  <2>2. CASE h = g
    BY <1>7, <1>8, <1>9, <2>2 DEF Paid
  <2>3. CASE h # g
    BY <1>8, <1>9, <2>1, <2>3 DEF PaidInv, Paid
  <2>4. QED
    BY <2>2, <2>3
<1>11. ASSUME NEW s \in Seqs PROVE Served(s)'
  <2>1. Served(s) /\ GroupOf[s] \in Groups
    BY <1>0, SequenceGroupsAssumption DEF PaidInv
  <2>2. QED
    BY <1>0, <1>5, <1>7, <1>8, <2>1 DEF Served
<1>12. Total(tokenBudget') = Total(tokenBudget) + n
  BY <1>0, <1>3, <1>4, <1>6, <1>7, TotalGrows DEF ProgressTypes
<1>13. Total(tokenBudget)' = Total(tokenBudget')
  BY DEF Total
<1>14. QED
  BY <1>0, <1>3, <1>7, <1>10, <1>11, <1>12, <1>13 DEF PaidInv
\* The phases a round ends in are the phases between two batches.
LEMMA ActionsPaid ==
    ASSUME IInv, IInv', QueuesOK, ProgressOK, ProgressOK', Working, PaidInv,
           EngineStep \/ Client, DefaultPolicy \/ SingleSequences
    PROVE  PaidInv'
<1>1. UNCHANGED policy
  BY DEF EngineStep, Client
<1>2. SUFFICES ASSUME Working' PROVE PaidInv'
  BY DEF PaidInv
<1>3. CASE \/ StartSchedule \/ IgnorePrompt \/ SkipPrompt \/ EndPrefills \/ EndRunning
           \/ SkipSwapped \/ ReturningIsScheduled \/ EndSwapped \/ CheckBudget \/ EndSchedule
  BY <1>1, <1>2, <1>3, PassingPaid
<1>4. CASE RecomputeYoungest \/ SwapOutYoungest
  BY <1>1, <1>2, <1>4, PreemptingPaid
<1>5. CASE TakeCurrent
  BY <1>1, <1>2, <1>5, TakeCurrentPaid
<1>6. CASE CurrentIsScheduled
  BY <1>1, <1>2, <1>6, CurrentIsScheduledPaid
<1>7. CASE AdmitPrompt
  BY <1>1, <1>2, <1>7, AdmitPromptPaid
<1>8. CASE SwapInOldest
  BY <1>1, <1>2, <1>8, SwapInOldestPaid
<1>9. CASE \E s \in Seqs : AppendSlotsOfCurrent(s) \/ AppendSlotsOfReturning(s)
  BY <1>1, <1>2, <1>9, SlotsPaid
<1>10. CASE ScheduleFails
  BY <1>2, <1>10
     DEF ScheduleFails, LoraKeyError, ReturningHasMoreTokens, Fail, Working, Phases
<1>11. CASE ProcessOutputs \/ Client
  <2>1. pc' \in {"idle", "outputs", "forks", "trim"}
    BY <1>11 DEF ProcessOutputs, Execute, EndOutputs, EndForks, EndStep, EndChunk, Continue,
       DropParent, StopSeq, DropUnselected, ForkChild, Client, AddGroup, AbortGroup, At
  <2>2. QED
    BY <2>1, QuietPaid
<1>12. QED
  BY <1>3, <1>4, <1>5, <1>6, <1>7, <1>8, <1>9, <1>10, <1>11 DEF EngineStep, Schedule

PaidTokensInv == TokensInv /\ PaidInv

LEMMA PaidTokens ==
    ASSUME WindowsAreUnshared, DefaultPolicy \/ SingleSequences
    PROVE  SchedulerSpec => []PaidTokensInv
<1>1. SchedulerInit => PaidTokensInv
  <2>1. SUFFICES ASSUME SchedulerInit PROVE PaidInv
    BY InitTokensInv DEF PaidTokensInv
  <2>2. pc = "idle" /\ scheduled = {} /\ \A g \in Groups : tokenBudget[g] = 0
    BY <2>1 DEF SchedulerInit, Init, Nothing
  <2>3. Total(tokenBudget) = 0 /\ 0 <= MaxNumBatchedTokens
    BY <2>2, TotalOfNothing, SchedulerAssumption
  <2>4. QED
    BY <2>2, <2>3 DEF PaidInv, Paid, Served, HasReturned
<1>2. PaidTokensInv /\ [SchedulerNext]_schedulerVars => PaidTokensInv'
  <2>1. SUFFICES ASSUME TokensInv, PaidInv, [SchedulerNext]_schedulerVars
                 PROVE  PaidInv'
    BY NextTokensInv DEF PaidTokensInv
  <2>2. TokensInv'
    BY <2>1, NextTokensInv
  <2>3. CASE EngineStep \/ Client
    BY <2>1, <2>2, <2>3, ActionsWork, ActionsPaid DEF TokensInv
  <2>4. CASE UNCHANGED schedulerVars
    <3>1. UNCHANGED <<err, status, scheduled, policy, pc, arrivals, running, swapped, tokenBudget>>
      BY <2>4 DEF schedulerVars, vars, queueVars, roundVars, budgetVars
    <3>2. ASSUME NEW g \in Groups
          PROVE  (Paid(g)' <=> Paid(g)) /\ (HasReturned(g)' <=> HasReturned(g))
      BY <3>1, SameStatus DEF Paid, HasReturned, Returning, Oldest, Rank
    <3>3. \A s \in Seqs : Served(s)' <=> Served(s)
      BY <3>1 DEF Served, Current, Oldest, Rank
    <3>4. Total(tokenBudget)' = Total(tokenBudget)
      BY <3>1 DEF Total
    <3>5. QED
      BY <2>1, <3>1, <3>2, <3>3, <3>4 DEF PaidInv, Working, Alive, ChunkedPrefill
  <2>5. QED
    BY <2>1, <2>3, <2>4 DEF SchedulerNext, Stopped
<1>3. QED
  BY <1>1, <1>2, PTL DEF SchedulerSpec

\* What the forward pass computes of a group is in the budget.
LEMMA ChunksArePaid ==
    ASSUME IInv, ProgressOK, PaidInv, Working, pc = "execute", NEW g \in Groups, NEW f,
           \A s \in Seqs : f[s] = IF s \in scheduled THEN Chunk(s) ELSE 0
    PROVE  SumOver(f, {s \in Seqs : GroupOf[s] = g}) <= tokenBudget[g]
<1> DEFINE X == {s \in Seqs : GroupOf[s] = g}
           k == Cardinality(SeqsWith(g, "RUNNING"))
<1>1. /\ ProgressTypes /\ ProgressInv /\ RoundInv /\ TypeOK /\ tokenBudget[g] \in Int
  BY DEF IInv, ProgressOK, ProgressTypes
<1>2. /\ IsFiniteSet(X) /\ IsFiniteSet(SeqsWith(g, "RUNNING"))
      /\ k \in Nat
      /\ \A s \in X : s \in Seqs /\ GroupOf[s] = g
  BY SequenceGroupsAssumption, SeqSetsFinite, FS_Subset, FS_CardinalityType DEF SeqsWith
<1>3. tokenBudget[g] # 0 => k <= tokenBudget[g]
  BY DEF PaidInv, Paid
<1> HIDE DEF X, k
<1>4. CASE \E s \in X : s \in scheduled /\ stage[s] = "PREFILL"
  <2>1. PICK s \in X : s \in scheduled /\ stage[s] = "PREFILL"
    BY <1>4
  <2>2. Unfinished(g) = {s}
    BY <1>1, <1>2, <2>1 DEF ProgressInv, ProgressOf, RoundInv, Placed
  <2>3. \A q \in X : q # s => q \notin scheduled
    BY <1>1, <1>2, <2>2 DEF RoundInv, Unfinished, Members
  <2>4. f[s] = tokenBudget[g] /\ \A q \in X \ {s} : f[q] = 0
    BY <1>2, <2>1, <2>3 DEF Chunk
  <2>5. \A q \in X : f[q] \in Int
    BY <1>1, <2>1, <2>4
  <2>6. SumOver(f, X) = tokenBudget[g] + SumOver(f, X \ {s})
    BY <1>2, <2>1, <2>4, <2>5, SumRemoves
  <2>7. SumOver(f, X \ {s}) = 0
    <3>1. IsFiniteSet(X \ {s}) /\ {q \in X \ {s} : f[q] = 1} = {}
      BY <1>2, <2>4, FS_Subset
    <3>2. SumOver(f, X \ {s}) = Cardinality({q \in X \ {s} : f[q] = 1})
      BY <2>4, <3>1, SumCounts
    <3>3. QED
      BY <3>1, <3>2, FS_EmptySet
  <2>8. SumOver(f, X) <= tokenBudget[g]
    BY <1>1, <2>6, <2>7
  <2>9. QED
    BY <2>8 DEF X
<1>5. CASE \A s \in X : s \in scheduled => stage[s] # "PREFILL"
  <2>1. \A s \in X : f[s] = IF s \in scheduled THEN 1 ELSE 0
    BY <1>2, <1>5 DEF Chunk
  <2> DEFINE Y == {s \in X : f[s] = 1}
  <2>2. SumOver(f, X) = Cardinality(Y)
    BY <1>2, <2>1, SumCounts
  <2>3. Y \subseteq SeqsWith(g, "RUNNING") /\ \A s \in Y : s \in scheduled /\ s \in X
    BY <1>1, <1>2, <2>1 DEF RoundInv, SeqsWith
  <2> HIDE DEF Y
  <2>4. Cardinality(Y) <= k /\ Cardinality(Y) \in Nat /\ IsFiniteSet(Y)
    BY <1>2, <2>3, FS_Subset, FS_CardinalityType DEF k
  <2>5. CASE tokenBudget[g] = 0
    <3>1. \A s \in X : s \notin scheduled
      BY <1>2, <2>5 DEF PaidInv, Served
    <3>2. Y = {}
      BY <2>3, <3>1
    <3>3. SumOver(f, X) <= tokenBudget[g]
      BY <2>2, <2>5, <3>2, FS_EmptySet
    <3>4. QED
      BY <3>3 DEF X
  <2>6. CASE tokenBudget[g] # 0
    <3>1. SumOver(f, X) <= tokenBudget[g]
      BY <1>1, <1>2, <1>3, <2>2, <2>4, <2>6
    <3>2. QED
      BY <3>1 DEF X
  <2>7. QED
    BY <2>5, <2>6
<1>6. QED
  BY <1>4, <1>5

\* A forward pass computes at most max_num_batched_tokens tokens: under the
\* default policy always, with chunked prefill if every request samples one
\* sequence.
THEOREM BatchesFitTheBudget ==
    ASSUME WindowsAreUnshared, DefaultPolicy \/ SingleSequences
    PROVE  SchedulerSpec => BatchIsBounded
<1> DEFINE added == [s \in Seqs |-> computed'[s] - computed[s]]
           Bounded == pc = "execute" => SumOver(added, Seqs) <= MaxNumBatchedTokens
<1>1. PaidTokensInv /\ [SchedulerNext]_schedulerVars => [Bounded]_schedulerVars
  <2>1. SUFFICES ASSUME PaidTokensInv, SchedulerNext, pc = "execute",
                        UNCHANGED schedulerVars => FALSE
                 PROVE  SumOver(added, Seqs) <= MaxNumBatchedTokens
    OBVIOUS
  <2>2. Working
    BY <2>1 DEF SchedulerNext, Stopped, EngineStep, Schedule, ScheduleFails, ProcessOutputs,
       Client, StartSchedule, IgnorePrompt, SkipPrompt, AdmitPrompt, EndPrefills, TakeCurrent,
       CurrentIsScheduled, RecomputeYoungest, SwapOutYoungest, EndRunning, SkipSwapped,
       SwapInOldest, ReturningIsScheduled, EndSwapped, AppendSlotsOfCurrent,
       AppendSlotsOfReturning, CheckBudget, EndSchedule, LoraKeyError, ReturningHasMoreTokens,
       Execute, EndOutputs, EndForks, EndStep, EndChunk, Continue, DropParent, StopSeq,
       DropUnselected, ForkChild, AddGroup, AbortGroup, Prefilling, Decoding, NoRoom, Swapping,
       At, Working, Phases
  <2>3. Execute
    BY <2>1 DEF SchedulerNext, Stopped, EngineStep, Schedule, ScheduleFails, ProcessOutputs,
       Client, StartSchedule, IgnorePrompt, SkipPrompt, AdmitPrompt, EndPrefills, TakeCurrent,
       CurrentIsScheduled, RecomputeYoungest, SwapOutYoungest, EndRunning, SkipSwapped,
       SwapInOldest, ReturningIsScheduled, EndSwapped, AppendSlotsOfCurrent,
       AppendSlotsOfReturning, CheckBudget, EndSchedule, LoraKeyError, ReturningHasMoreTokens,
       EndOutputs, EndForks, EndStep, EndChunk, Continue, DropParent, StopSeq,
       DropUnselected, ForkChild, AddGroup, AbortGroup, Prefilling, Decoding, NoRoom, Swapping,
       At
  <2>4. /\ IInv /\ ProgressOK /\ PaidInv /\ TypeOK /\ ProgressTypes
    BY <2>1 DEF PaidTokensInv, TokensInv, IInv, ProgressOK
  <2>5. \A s \in Seqs : /\ added[s] = IF s \in scheduled THEN Chunk(s) ELSE 0
                        /\ added[s] \in Int
    <3>1. TAKE s \in Seqs
    <3>2. /\ computed'[s] = computed[s] + IF s \in scheduled THEN Chunk(s) ELSE 0
          /\ computed[s] \in Nat /\ tokenBudget[GroupOf[s]] \in Int
      BY <2>3, <2>4, SequenceGroupsAssumption DEF Execute, ProgressTypes
    <3>3. Chunk(s) \in Int
      BY <3>2 DEF Chunk
    <3>4. QED
      BY <3>2, <3>3
  <2> HIDE DEF added
  <2>6. \A g \in Groups : /\ tokenBudget[g] \in Int
                          /\ SumOver(added, {s \in Seqs : GroupOf[s] = g}) <= tokenBudget[g]
    BY <2>1, <2>2, <2>4, <2>5, ChunksArePaid DEF ProgressTypes
  <2>7. SumOver(added, Seqs) <= Total(tokenBudget)
    BY <2>5, <2>6, SumOfGroups DEF Total
  <2>8. Total(tokenBudget) <= MaxNumBatchedTokens /\ Total(tokenBudget) \in Int
    BY <2>1, <2>2, <2>4, TotalIs DEF PaidInv, ProgressTypes
  <2>9. SumOver(added, Seqs) \in Int
    BY <2>5, SequenceGroupsAssumption, SumRemoves
  <2>10. MaxNumBatchedTokens \in Int
    BY SchedulerAssumption
  <2>11. QED
    BY <2>7, <2>8, <2>9, <2>10
<1>2. SchedulerSpec => [][Bounded]_schedulerVars
  <2>1. SchedulerSpec => []PaidTokensInv
    BY PaidTokens
  <2>2. QED
    BY <1>1, <2>1, PTL DEF SchedulerSpec
<1>3. QED
  BY <1>2, PTL DEF BatchIsBounded
-----------------------------------------------------------------------------
(***************************************************************************)
(* No error under the default policy without LoRAs, when every request     *)
(* samples one sequence.  Each running group then costs one sequence and,  *)
(* in a round of decodes, one token: no more than max_num_seqs groups run, *)
(* and max_num_batched_tokens is at least that.  Nothing is swapped out.   *)
(***************************************************************************)
SinglesInv ==
    Working =>
        /\ Cardinality(Runners) <= MaxNumSeqs
        /\ pc = "prefills" =>
             \A g \in Groups : seqBudget[g] = IF g \in Runners THEN 1 ELSE 0
        /\ pc \in {"running", "current", "swapped", "end"} => Total(seqBudget) <= MaxNumSeqs
        /\ pc \in {"prefills", "end"} => Total(tokenBudget) <= MaxNumBatchedTokens
        /\ pc \in {"running", "current", "swapped"} =>
             \A g \in Groups : tokenBudget[g] \in {0, 1}

\* The other invariants that the steps need.
Known == TokensInv /\ OrderInv /\ UniformInv /\ PaidInv

\* A budget of one for some groups.
LEMMA TotalOfOnes ==
    ASSUME NEW budget, \A g \in Groups : budget[g] \in {0, 1}, NEW R \in SUBSET Groups,
           \A g \in Groups : budget[g] = 1 => g \in R
    PROVE  /\ Total(budget) <= Cardinality(R) /\ Cardinality(R) \in Nat
           /\ (\A g \in R : budget[g] = 1) => Total(budget) = Cardinality(R)
<1> DEFINE Ones == {g \in Groups : budget[g] = 1}
<1>1. Total(budget) = Cardinality(Ones)
  BY GroupsFinite, SumCounts DEF Total
<1>2. Ones \subseteq R /\ IsFiniteSet(R) /\ ((\A g \in R : budget[g] = 1) => Ones = R)
  BY GroupsFinite, FS_Subset
<1> HIDE DEF Ones
<1>3. Cardinality(Ones) <= Cardinality(R) /\ Cardinality(R) \in Nat
  BY <1>2, FS_Subset, FS_CardinalityType
<1>4. QED
  BY <1>1, <1>2, <1>3

\* What is known in any state of such a run.
LEMMA SinglesFacts ==
    ASSUME Known, Working, DefaultPolicy, SingleSequences
    PROVE  /\ TypeOK /\ QueueTypes /\ PlacesInv /\ PhaseInv /\ ApartInv
           /\ BudgetInv /\ ProgressTypes
           /\ IInv /\ QueuesOK /\ ProgressOK
           /\ ~ChunkedPrefill /\ leftover = << >> /\ swapped = {} /\ swappedOut = {}
           /\ Runners \subseteq Groups /\ IsFiniteSet(Runners) /\ Cardinality(Runners) \in Nat
           /\ Total(tokenBudget) \in Int /\ Total(seqBudget) \in Int
           /\ MaxNumSeqs \in Nat /\ MaxNumBatchedTokens \in Nat
           /\ MaxNumSeqs <= MaxNumBatchedTokens
<1>1. /\ IInv /\ QueuesOK /\ ProgressOK /\ NoDetour
      /\ TypeOK /\ QueueTypes /\ PlacesInv /\ PhaseInv /\ ApartInv /\ BudgetInv /\ ProgressTypes
  BY DEF Known, TokensInv, OrderInv, IInv, QueuesOK, QueueInv, ProgressOK
<1>2. ~ChunkedPrefill
  BY <1>1 DEF ProgressTypes, DefaultPolicy, ChunkedPrefill
<1>3. swapped = {} /\ swappedOut = {} /\ leftover = << >>
  BY <1>1 DEF NoDetour, Sleepers, SingleSequences, QueueTypes
<1>4. Runners \subseteq Groups
  BY <1>1 DEF Runners, QueueTypes
<1>5. IsFiniteSet(Runners) /\ Cardinality(Runners) \in Nat
  BY <1>4, GroupsFinite, FS_Subset, FS_CardinalityType
<1>6. seqBudget \in [Groups -> Int] /\ tokenBudget \in [Groups -> Int]
  BY <1>1 DEF ProgressTypes
<1>7. Total(tokenBudget) \in Int /\ Total(seqBudget) \in Int
  BY <1>6, TotalIs
<1>8. QED
  BY <1>1, <1>2, <1>3, <1>4, <1>5, <1>7, SchedulerAssumption

\* A running group is one sequence.
LEMMA SingleRunner ==
    ASSUME Known, Working, DefaultPolicy, SingleSequences, pc # "trim", NEW g \in Runners
    PROVE  /\ g \in Groups /\ AllAre(g, "RUNNING") /\ MaxNumRunningSeqs(g) = 1
           /\ SeqsWith(g, "RUNNING") = {Parent[g]} /\ Parent[g] \in Seqs
<1>1. IInv /\ PlacesInv /\ g \in Groups
  BY SinglesFacts
<1>2. AllAre(g, "RUNNING")
  BY <1>1, OnePlace
<1>3. QED
  BY <1>1, <1>2, SingleGroup

\* No step fails.
LEMMA NoStepFails ==
    ASSUME Known, Known', SinglesInv, Working, DefaultPolicy, NoLoras, SingleSequences,
           EngineStep \/ Client
    PROVE  Working'
<1>0. /\ TypeOK /\ QueueTypes /\ QueueInv /\ PhaseInv /\ IInv /\ ProgressOK /\ ProgressTypes
      /\ swapped = {} /\ ~ChunkedPrefill
  BY SinglesFacts DEF QueuesOK
<1>1. pc = "current" =>
        Current \in Runners /\ Victim \in Runners /\ Current \in Groups /\ Victim \in Groups
  BY <1>0, QueuedArrived DEF PhaseInv, Runners, QueueTypes
<1>2. err' = "none"
  <2>1. SUFFICES ASSUME err' # "none" PROVE FALSE
    OBVIOUS
  <2>2. SwapOutYoungest
    BY <2>1, OnlySwapRefused DEF Known, TokensInv
  <2>3. pc = "current" /\ MaxNumRunningSeqs(Victim) # 1
    BY <2>2 DEF SwapOutYoungest, NoRoom, Decoding, At, PreemptBySwap
  <2>4. QED
    BY <1>1, <2>3, SingleRunner
<1>3. ~(TakeCurrent /\ CurrentTokens = 0)
  <2>1. SUFFICES ASSUME TakeCurrent PROVE CurrentTokens # 0
    OBVIOUS
  <2>2. pc = "running" /\ Current \in Runners
    BY <1>0, <2>1, QueuedArrived DEF TakeCurrent, At, Runners
  <2>3. PICK g : g = Current
    OBVIOUS
  <2>4. g \in Groups /\ AllAre(g, "RUNNING")
    BY <2>2, <2>3, SingleRunner
  <2>5. ChunkedNewTokens(g, "RUNNING") # 0
    BY <1>0, <2>2, <2>4, RunningTokens
  <2>6. QED
    BY <2>3, <2>5 DEF CurrentTokens
<1>4. ~ScheduleFails
  BY <1>0, <1>1 DEF ScheduleFails, LoraKeyError, LoraIsGone, NoRoom, Decoding, NoLoras,
     ReturningHasMoreTokens, Swapping, At
<1>5. pc = "end" => ~OverBudget /\ ~NegativeChunk
  <2>1. SUFFICES ASSUME pc = "end" PROVE ~OverBudget /\ ~NegativeChunk
    OBVIOUS
  <2>2. ~OverBudget
    BY <2>1, SinglesFacts DEF SinglesInv, OverBudget
  <2>3. ASSUME NEW s \in scheduled PROVE ~(Chunk(s) < 0)
    <3>1. s \in Seqs /\ GroupOf[s] \in Groups
      BY <1>0, SequenceGroupsAssumption DEF TypeOK
    <3>2. PICK g \in Groups : g = GroupOf[s]
      BY <3>1
    <3>3. tokenBudget[g] # 0 /\ tokenBudget[g] \in Int
      BY <1>0, <2>1, <2>3, <3>1, <3>2 DEF Known, PaidInv, Served, ProgressTypes
    <3>4. Cardinality(SeqsWith(g, "RUNNING")) <= tokenBudget[g]
      BY <3>3 DEF Known, PaidInv, Paid
    <3>5. Cardinality(SeqsWith(g, "RUNNING")) \in Nat
      BY SeqSetsFinite, FS_CardinalityType DEF SeqsWith
    <3>6. QED
      BY <3>2, <3>3, <3>4, <3>5 DEF Chunk
  <2>4. QED
    BY <2>2, <2>3 DEF NegativeChunk
<1>6. pc' \in Phases
  <2>1. CASE Schedule
    <3>1. CASE \/ StartSchedule \/ IgnorePrompt \/ SkipPrompt \/ AdmitPrompt \/ EndPrefills
               \/ CurrentIsScheduled \/ RecomputeYoungest \/ SwapOutYoungest \/ EndRunning
               \/ SkipSwapped \/ SwapInOldest \/ ReturningIsScheduled \/ EndSwapped
               \/ \E s \in Seqs : AppendSlotsOfCurrent(s) \/ AppendSlotsOfReturning(s)
      BY <3>1 DEF Working, StartSchedule, IgnorePrompt, SkipPrompt, AdmitPrompt, EndPrefills,
         CurrentIsScheduled, RecomputeYoungest, SwapOutYoungest, GiveUp, EndRunning, SkipSwapped,
         SwapInOldest, ReturningIsScheduled, EndSwapped, AppendSlotsOfCurrent,
         AppendSlotsOfReturning, Phases
    <3>2. CASE TakeCurrent
      BY <1>3, <3>2 DEF TakeCurrent, Phases
    <3>3. CASE CheckBudget
      BY <1>5, <3>3 DEF CheckBudget, At, Phases
    <3>4. CASE EndSchedule
      BY <3>4 DEF EndSchedule, Phases
    <3>5. QED
      BY <2>1, <3>1, <3>2, <3>3, <3>4 DEF Schedule
  <2>2. CASE ProcessOutputs \/ Client
    BY <2>2 DEF ProcessOutputs, Execute, EndOutputs, EndForks, EndStep, EndChunk, Continue,
       DropParent, StopSeq, DropUnselected, ForkChild, Client, AddGroup, AbortGroup, Working, Phases
  <2>3. QED
    BY <1>4, <2>1, <2>2 DEF EngineStep
<1>7. QED
  BY <1>2, <1>6 DEF Working, Alive

\* Steps out of the loops of a round, or between two rounds.
LEMMA QuietSingles ==
    ASSUME Known, Known', SinglesInv, Working, Working', DefaultPolicy, SingleSequences,
           Runners' \subseteq Runners,
           pc' \notin {"prefills", "running", "current", "swapped", "end"}
    PROVE  SinglesInv'
<1>1. Cardinality(Runners)' <= Cardinality(Runners) /\ Cardinality(Runners)' \in Nat
  BY SinglesFacts, FS_Subset, FS_CardinalityType
<1>2. Cardinality(Runners) <= MaxNumSeqs /\ Cardinality(Runners) \in Nat /\ MaxNumSeqs \in Nat
  BY SinglesFacts DEF SinglesInv
<1>3. QED
  BY <1>1, <1>2 DEF SinglesInv

\* Steps of the loops over the running and the swapped groups, and out of them.
LEMMA LoopSingles ==
    ASSUME Known, Known', SinglesInv, Working, Working', DefaultPolicy, SingleSequences,
           Runners' \subseteq Runners, Total(seqBudget)' <= Total(seqBudget),
           pc \in {"running", "current", "swapped"},
           pc' \in {"running", "current", "swapped", "end"},
           \A g \in Groups : tokenBudget'[g] \in {0, 1} /\ (tokenBudget'[g] = 1 => g \in Runners)
    PROVE  SinglesInv'
<1>1. Cardinality(Runners)' <= Cardinality(Runners) /\ Cardinality(Runners)' \in Nat
  BY SinglesFacts, FS_Subset, FS_CardinalityType
<1>2. /\ Cardinality(Runners) <= MaxNumSeqs /\ Total(seqBudget) <= MaxNumSeqs
      /\ Cardinality(Runners) \in Nat /\ Total(seqBudget) \in Int
      /\ MaxNumSeqs \in Nat /\ MaxNumBatchedTokens \in Nat /\ MaxNumSeqs <= MaxNumBatchedTokens
  BY SinglesFacts DEF SinglesInv
<1>3. PICK R \in SUBSET Groups : R = Runners
  BY SinglesFacts
<1>4. PICK budget : budget = tokenBudget'
  OBVIOUS
<1>5. Total(budget) <= Cardinality(R)
  BY <1>3, <1>4, TotalOfOnes
<1>6. Total(tokenBudget)' = Total(budget)
  BY <1>4 DEF Total
<1>7. Total(tokenBudget)' \in Int /\ Total(seqBudget)' \in Int
  <2>1. ProgressTypes'
    BY DEF Known, TokensInv, ProgressOK
  <2>2. tokenBudget' \in [Groups -> Int] /\ seqBudget' \in [Groups -> Int]
    BY <2>1 DEF ProgressTypes
  <2>3. Total(tokenBudget') \in Int /\ Total(seqBudget') \in Int
    BY <2>2, TotalIs
  <2>4. QED
    BY <2>3 DEF Total
<1>8. Total(tokenBudget)' <= MaxNumBatchedTokens
  BY <1>2, <1>3, <1>5, <1>6, <1>7
<1>9. Cardinality(Runners)' <= MaxNumSeqs /\ Total(seqBudget)' <= MaxNumSeqs
  BY <1>1, <1>2, <1>7
<1>10. QED
  BY <1>8, <1>9 DEF SinglesInv
\* A round starts with what runs.
LEMMA StartScheduleSingles ==
    ASSUME Known, Known', SinglesInv, Working, Working', DefaultPolicy, SingleSequences,
           StartSchedule, UNCHANGED policy
    PROVE  SinglesInv'
<1>0. /\ pc = "idle" /\ batch = {} /\ ~ChunkedPrefill /\ swapped = {} /\ BudgetInv /\ ProgressTypes
  BY SinglesFacts DEF StartSchedule, At, PhaseInv
<1>1. /\ pc' = "prefills" /\ UNCHANGED <<running, batch, tokenBudget>>
      /\ seqBudget' = [g \in Groups |-> IF g \in running THEN MaxNumRunningSeqs(g) ELSE 0]
  BY <1>0 DEF StartSchedule, queueVars, resultVars
<1>2. Runners' = Runners /\ Runners = running
  BY <1>0, <1>1 DEF Runners
<1>3. \A g \in Groups : seqBudget'[g] = IF g \in Runners' THEN 1 ELSE 0
  <2>1. \A g \in running : MaxNumRunningSeqs(g) = 1
    BY <1>0, <1>2, SingleRunner
  <2>2. QED
    BY <1>1, <1>2, <2>1
<1>4. \A g \in Groups : tokenBudget[g] = 0
  BY <1>0 DEF BudgetInv, Counted
<1>5. Total(tokenBudget)' = 0
  BY <1>1, <1>4, TotalOfNothing DEF Total
<1>6. MaxNumBatchedTokens \in Nat /\ Cardinality(Runners) <= MaxNumSeqs
  BY SinglesFacts DEF SinglesInv
<1>7. QED
  BY <1>1, <1>2, <1>3, <1>5, <1>6 DEF SinglesInv

\* A prompt is one sequence more, as the budget says.
LEMMA AdmitPromptSingles ==
    ASSUME Known, Known', SinglesInv, Working, Working', DefaultPolicy, SingleSequences,
           AdmitPrompt, UNCHANGED policy
    PROVE  SinglesInv'
<1>0. /\ pc = "prefills" /\ waiting # << >> /\ TypeOK /\ PlacesInv /\ QueueTypes /\ IInv
      /\ BudgetInv /\ ProgressTypes
  BY SinglesFacts DEF AdmitPrompt, Prefilling, At
<1>1. PICK g : g = Head(waiting)
  OBVIOUS
<1>2. PICK n : n = PromptTokens
  OBVIOUS
<1>3. g \in Groups /\ g \in Waiters
  <2>1. g \in Range(waiting)
    BY <1>0, <1>1, SinglesFacts, HeadOfWaiting
  <2>2. QED
    BY <1>0, <2>1 DEF Waiters, QueueTypes, Range
<1>4. AllAre(g, "WAITING") /\ g \notin Runners
  BY <1>0, <1>3, OnePlace DEF PlacesInv
<1>5. MaxNumRunningSeqs(g) = 1
  BY <1>0, <1>3, <1>4, SingleGroup
<1>6. /\ pc' = pc /\ Fits(g, n) /\ batch' = batch \cup {g} /\ running' = running
      /\ tokenBudget' = Count(tokenBudget, g, n) /\ seqBudget' = Count(seqBudget, g, 1)
  BY <1>1, <1>2, <1>5 DEF AdmitPrompt
<1>7. Runners' = Runners \cup {g}
  BY <1>6 DEF Runners
<1>8. \A h \in Groups : seqBudget[h] = IF h \in Runners THEN 1 ELSE 0
  BY <1>0 DEF SinglesInv
<1>9. \A h \in Groups : seqBudget'[h] = IF h \in Runners' THEN 1 ELSE 0
  <2>1. seqBudget \in [Groups -> Int]
    BY <1>0 DEF ProgressTypes
  <2>2. QED
    BY <1>3, <1>4, <1>6, <1>7, <1>8, <2>1, CountIs
<1>10. Cardinality(Runners)' <= MaxNumSeqs
  <2>1. PICK R \in SUBSET Groups : R = Runners
    BY SinglesFacts
  <2>2. PICK budget : budget = seqBudget
    OBVIOUS
  <2>3. Total(budget) = Cardinality(R)
    BY <1>8, <2>1, <2>2, TotalOfOnes
  <2>4. Cardinality(R) + 1 <= MaxNumSeqs
    BY <1>5, <1>6, <2>2, <2>3 DEF Fits
  <2>5. Cardinality(R \cup {g}) = Cardinality(R) + 1
    BY <1>4, <2>1, SinglesFacts, FS_AddElement
  <2>6. QED
    BY <1>7, <2>1, <2>4, <2>5
<1>11. Total(tokenBudget)' <= MaxNumBatchedTokens
  <2>1. tokenBudget[g] = 0
    BY <1>0, <1>3, <1>4 DEF BudgetInv, Counted, HasReturned, Runners
  <2>2. n \in Int
    BY <1>0, <1>1, <1>2, ChunkedNewTokensAre DEF PromptTokens
  <2>3. Total(tokenBudget') = Total(tokenBudget) + n
    BY <1>0, <1>3, <1>6, <2>1, <2>2, TotalGrows DEF ProgressTypes
  <2>4. Total(tokenBudget) + n <= MaxNumBatchedTokens
    BY <1>6 DEF Fits
  <2>5. Total(tokenBudget)' = Total(tokenBudget')
    BY DEF Total
  <2>6. QED
    BY <2>3, <2>4, <2>5
<1>12. QED
  BY <1>0, <1>6, <1>9, <1>10, <1>11 DEF SinglesInv

\* Without prompts in the batch nothing is counted for the round of decodes.
LEMMA EndPrefillsSingles ==
    ASSUME Known, Known', SinglesInv, Working, Working', DefaultPolicy, SingleSequences,
           EndPrefills, UNCHANGED policy
    PROVE  SinglesInv'
<1>0. /\ pc = "prefills" /\ ~ChunkedPrefill /\ BudgetInv /\ ProgressTypes
      /\ Total(tokenBudget) <= MaxNumBatchedTokens /\ Cardinality(Runners) <= MaxNumSeqs
  BY SinglesFacts DEF EndPrefills, At, SinglesInv
<1>1. /\ pc' = IF batch # {} THEN "end" ELSE "running"
      /\ UNCHANGED <<running, batch, tokenBudget, seqBudget>>
  BY <1>0 DEF EndPrefills, budgetVars
<1>2. Runners' = Runners
  BY <1>1 DEF Runners
<1>3. Total(seqBudget) <= MaxNumSeqs
  <2>1. PICK R \in SUBSET Groups : R = Runners
    BY SinglesFacts
  <2>2. PICK budget : budget = seqBudget
    OBVIOUS
  <2>3. \A g \in Groups : budget[g] = IF g \in R THEN 1 ELSE 0
    BY <1>0, <2>1, <2>2 DEF SinglesInv
  <2>4. Total(budget) = Cardinality(R)
    BY <2>3, TotalOfOnes
  <2>5. QED
    BY <1>0, <2>1, <2>2, <2>4
<1>4. Total(seqBudget)' = Total(seqBudget) /\ Total(tokenBudget)' = Total(tokenBudget)
  BY <1>1 DEF Total
<1>5. pc' = "running" => \A g \in Groups : tokenBudget'[g] = 0
  BY <1>0, <1>1 DEF BudgetInv, Counted, HasReturned
<1>6. QED
  BY <1>0, <1>1, <1>2, <1>3, <1>4, <1>5 DEF SinglesInv

\* Only scheduled groups are counted.
LEMMA CountedRun ==
    ASSUME Known, Working, DefaultPolicy, SingleSequences, NEW g \in Groups, tokenBudget[g] # 0
    PROVE  g \in Runners
BY SinglesFacts DEF BudgetInv, Counted, HasReturned, Runners

\* A decode is one token.
LEMMA CurrentIsScheduledSingles ==
    ASSUME Known, Known', SinglesInv, Working, Working', DefaultPolicy, SingleSequences,
           CurrentIsScheduled, UNCHANGED policy
    PROVE  SinglesInv'
<1>0. /\ pc = "current" /\ pc' = "running" /\ TypeOK /\ QueueTypes /\ QueueInv /\ PhaseInv
      /\ ProgressOK /\ ProgressTypes /\ ~ChunkedPrefill
  BY SinglesFacts DEF CurrentIsScheduled, Decoding, At, QueuesOK
<1>1. Current \in running
  BY <1>0, QueuedArrived DEF PhaseInv
<1>2. PICK g : g = Current
  OBVIOUS
<1>3. PICK n : n = CurrentTokens
  OBVIOUS
<1>4. g \in Runners
  BY <1>1, <1>2 DEF Runners
<1>5. /\ g \in Groups /\ SeqsWith(g, "RUNNING") = {Parent[g]} /\ Parent[g] \in Seqs
  BY <1>0, <1>4, SingleRunner
<1>6. n = 1
  <2>1. PICK p \in Seqs : p = Parent[g]
    BY <1>5
  <2>2. status[p] = "RUNNING"
    BY <1>5, <2>1 DEF SeqsWith
  <2>3. Placed(p) /\ stage[p] = "DECODE"
    BY <1>0, <2>2 DEF Known, UniformInv, Decodes, Placed
  <2>4. computed[p] >= len[p] - 1
    BY <1>0, <2>3 DEF ProgressOK, ProgressInv, ProgressOf
  <2>5. computed[p] < len[p] /\ computed[p] \in Nat /\ len[p] \in Nat
    BY <1>0, <2>3, UnderWay
  <2>6. n = len[p] - computed[p]
    BY <1>0, <1>2, <1>3, <1>5, <2>1, NewTokensAre, ChunkedNewTokensAre DEF CurrentTokens
  <2>7. QED
    BY <2>4, <2>5, <2>6
<1>7. /\ tokenBudget' = Count(tokenBudget, g, 1) /\ seqBudget' = seqBudget
      /\ running' = running \ {g} /\ batch' = batch \cup {g}
  BY <1>0, <1>2, <1>3, <1>6 DEF CurrentIsScheduled
<1>8. Runners' = Runners
  BY <1>1, <1>2, <1>7 DEF Runners
<1>9. \A h \in Groups : tokenBudget'[h] \in {0, 1} /\ (tokenBudget'[h] = 1 => h \in Runners)
  <2>1. \A h \in Groups : tokenBudget[h] \in {0, 1} /\ (tokenBudget[h] # 0 => h \in Runners)
    BY <1>0, CountedRun DEF SinglesInv
  <2>2. tokenBudget \in [Groups -> Int]
    BY <1>0 DEF ProgressTypes
  <2>3. QED
    BY <1>4, <1>5, <1>7, <2>1, <2>2, CountIs
<1>10. Total(seqBudget)' = Total(seqBudget)
  BY <1>7 DEF Total
<1>11. Total(seqBudget)' <= Total(seqBudget)
  BY <1>10, SinglesFacts
<1>12. QED
  BY <1>0, <1>8, <1>9, <1>11, LoopSingles

\* A group preempted counts no longer.
LEMMA RecomputeYoungestSingles ==
    ASSUME Known, Known', SinglesInv, Working, Working', DefaultPolicy, SingleSequences,
           RecomputeYoungest, UNCHANGED policy
    PROVE  SinglesInv'
<1>0. /\ TypeOK /\ QueuesOK /\ ProgressOK /\ ProgressTypes
      /\ NoRoom /\ GiveUp /\ batch' = batch /\ running' = running \ {Victim}
  BY SinglesFacts DEF RecomputeYoungest, GiveUp
<1>1. pc = "current" /\ pc' \in {"running", "current"} /\ tokenBudget' = tokenBudget
  BY <1>0, GiveUpBudget
<1>2. Runners' \subseteq Runners
  BY <1>0 DEF Runners
<1>3. Total(seqBudget)' <= Total(seqBudget)
  <2>1. PICK c : c = Current
    OBVIOUS
  <2>2. PICK f \in [Groups -> Nat] : f = seqBudget
    BY <1>0 DEF ProgressTypes
  <2>3. PICK h : h = [f EXCEPT ![c] = 0]
    OBVIOUS
  <2>4. seqBudget' = h
    BY <1>0, <2>1, <2>2, <2>3 DEF GiveUp
  <2>5. \A g \in Groups : f[g] \in Int /\ h[g] \in Int /\ h[g] <= f[g]
    BY <2>2, <2>3
  <2>6. SumOver(h, Groups) <= SumOver(f, Groups)
    BY <2>5, GroupsFinite, SumGrows
  <2>7. QED
    BY <2>2, <2>4, <2>6 DEF Total
<1>4. \A h \in Groups : tokenBudget'[h] \in {0, 1} /\ (tokenBudget'[h] = 1 => h \in Runners)
  BY <1>1, CountedRun DEF SinglesInv
<1>5. QED
  BY <1>1, <1>2, <1>3, <1>4, LoopSingles
\* The actions, by what they do to the running groups and to the budget.
LEMMA ActionsSingles ==
    ASSUME Known, Known', SinglesInv, Working, Working', DefaultPolicy, NoLoras, SingleSequences,
           EngineStep \/ Client
    PROVE  SinglesInv'
<1>0. /\ UNCHANGED policy /\ ~ChunkedPrefill /\ swapped = {} /\ leftover = << >>
  BY SinglesFacts DEF EngineStep, Client
<1>1. /\ ~SkipPrompt /\ ~SkipSwapped /\ ~SwapInOldest /\ ~ReturningIsScheduled /\ ~ScheduleFails
      /\ ~SwapOutYoungest /\ \A s \in Seqs : ~AppendSlotsOfReturning(s)
  <2>1. swapped = {} => /\ ~SkipSwapped /\ ~SwapInOldest /\ ~ReturningIsScheduled
                        /\ ~ReturningHasMoreTokens /\ \A s \in Seqs : ~AppendSlotsOfReturning(s)
    BY DEF SkipSwapped, SwapInOldest, ReturningIsScheduled, ReturningHasMoreTokens,
       AppendSlotsOfReturning, Swapping
  <2>2. ~SkipPrompt
    <3>1. Prefilling => Head(waiting) \in Groups
      BY SinglesFacts, HeadOfWaiting DEF Prefilling
    <3>2. QED
      BY <3>1 DEF SkipPrompt, LoraFull, NoLoras
  <2>3. ~SwapOutYoungest
    <3>1. NoRoom => Victim \in Runners /\ pc = "current"
      BY SinglesFacts, QueuedArrived DEF NoRoom, Decoding, At, QueuesOK, PhaseInv, Runners
    <3>2. NoRoom => MaxNumRunningSeqs(Victim) = 1
      BY <3>1, SingleRunner
    <3>3. QED
      BY <3>2 DEF SwapOutYoungest, PreemptBySwap
  <2>4. ~LoraKeyError
    <3>1. pc' \notin Failures
      BY DEF Working, Phases, Failures
    <3>2. QED
      BY <3>1 DEF LoraKeyError, Fail, Failures
  <2>5. QED
    BY <1>0, <2>1, <2>2, <2>3, <2>4 DEF ScheduleFails
<1>2. CASE StartSchedule
  BY <1>0, <1>2, StartScheduleSingles
<1>3. CASE AdmitPrompt
  BY <1>0, <1>3, AdmitPromptSingles
<1>4. CASE EndPrefills
  BY <1>0, <1>4, EndPrefillsSingles
<1>5. CASE CurrentIsScheduled
  BY <1>0, <1>5, CurrentIsScheduledSingles
<1>6. CASE RecomputeYoungest
  BY <1>0, <1>6, RecomputeYoungestSingles
<1>7. CASE IgnorePrompt
  <2>1. pc = "prefills" /\ UNCHANGED <<pc, running, batch, tokenBudget, seqBudget>>
    BY <1>7 DEF IgnorePrompt, Prefilling, At, roundVars, resultVars, budgetVars
  <2>2. Runners' = Runners /\ Total(tokenBudget)' = Total(tokenBudget)
    BY <2>1 DEF Runners, Total
  <2>3. QED
    BY <2>1, <2>2 DEF SinglesInv
<1>8. CASE \/ TakeCurrent \/ EndRunning \/ EndSwapped
           \/ \E s \in Seqs : AppendSlotsOfCurrent(s)
  <2>1. /\ pc \in {"running", "current", "swapped"}
        /\ UNCHANGED <<running, batch, tokenBudget, seqBudget>>
        /\ pc' \in {"running", "current", "swapped", "end"}
    BY <1>0, <1>8 DEF TakeCurrent, EndRunning, EndSwapped, AppendSlotsOfCurrent, Decoding, At,
       roundVars, resultVars, budgetVars, queueVars, Working, Phases
  <2>2. Runners' = Runners /\ Total(seqBudget)' = Total(seqBudget)
    BY <2>1 DEF Runners, Total
  <2>3. Total(seqBudget)' <= Total(seqBudget)
    BY <2>2, SinglesFacts
  <2>4. \A g \in Groups : tokenBudget'[g] \in {0, 1} /\ (tokenBudget'[g] = 1 => g \in Runners)
    BY <2>1, CountedRun DEF SinglesInv
  <2>5. QED
    BY <2>1, <2>2, <2>3, <2>4, LoopSingles
<1>9. CASE CheckBudget \/ EndSchedule \/ ProcessOutputs \/ Client
  <2>1. pc' \notin {"prefills", "running", "current", "swapped", "end"}
    BY <1>9 DEF CheckBudget, EndSchedule, ProcessOutputs, Execute, EndOutputs, EndForks, EndStep,
       EndChunk, Continue, DropParent, StopSeq, DropUnselected, ForkChild, Client, AddGroup,
       AbortGroup, At
  <2>2. Runners' \subseteq Runners
    BY <1>9 DEF CheckBudget, EndSchedule, ProcessOutputs, Execute, EndOutputs, EndForks, EndStep,
       EndChunk, Continue, DropParent, StopSeq, DropUnselected, ForkChild, Client, AddGroup,
       AbortGroup, Runners, queueVars, roundVars, resultVars
  <2>3. QED
    BY <2>1, <2>2, QuietSingles
<1>10. QED
  BY <1>1, <1>2, <1>3, <1>4, <1>5, <1>6, <1>7, <1>8, <1>9 DEF EngineStep, Schedule

\* All steps, the last ones included.
LEMMA NextSingles ==
    ASSUME Known, Known', SinglesInv, Working, DefaultPolicy, NoLoras, SingleSequences,
           [SchedulerNext]_schedulerVars
    PROVE  (SinglesInv /\ Working)'
<1>1. CASE EngineStep \/ Client
  BY <1>1, NoStepFails, ActionsSingles
<1>2. CASE UNCHANGED schedulerVars
  <2>1. UNCHANGED <<err, pc, running, batch, tokenBudget, seqBudget>>
    BY <1>2 DEF schedulerVars, vars, queueVars, roundVars, resultVars, budgetVars
  <2>2. /\ Runners' = Runners /\ Total(tokenBudget)' = Total(tokenBudget)
        /\ Total(seqBudget)' = Total(seqBudget) /\ (Working' <=> Working)
    BY <2>1 DEF Runners, Total, Working, Alive
  <2>3. QED
    BY <2>1, <2>2 DEF SinglesInv
<1>3. QED
  BY <1>1, <1>2 DEF SchedulerNext, Stopped

\* Under the default policy without LoRAs, and with single sequences, the
\* scheduler never meets an error: the budget is kept by every round, no group
\* is scheduled for nothing, and no call of the block manager is refused.
THEOREM SinglesNeverFail ==
    ASSUME WindowsAreUnshared, DefaultPolicy, NoLoras, SingleSequences
    PROVE  SchedulerSpec => []NoSchedulerError
<1>1. SchedulerSpec => []Known
  <2>1. /\ SchedulerSpec => []OrderedTokensInv
        /\ SchedulerSpec => [](TokensInv /\ UniformInv)
        /\ SchedulerSpec => []PaidTokensInv
    BY OrderedTokens, UniformTokens, PaidTokens
  <2>2. OrderedTokensInv /\ (TokensInv /\ UniformInv) /\ PaidTokensInv => Known
    BY DEF OrderedTokensInv, PaidTokensInv, Known
  <2>3. QED
    BY <2>1, <2>2, PTL
<1>2. SchedulerInit => SinglesInv /\ Working
  <2>1. SUFFICES ASSUME SchedulerInit PROVE SinglesInv /\ Working
    OBVIOUS
  <2>2. pc = "idle" /\ err = "none" /\ running = {} /\ batch = {}
    BY <2>1 DEF SchedulerInit, Init
  <2>3. Runners = {} /\ Working
    BY <2>2 DEF Runners, Working, Alive, Phases
  <2>4. Cardinality(Runners) = 0 /\ 0 <= MaxNumSeqs
    BY <2>3, FS_EmptySet, SchedulerAssumption
  <2>5. QED
    BY <2>2, <2>3, <2>4 DEF SinglesInv
<1>3. (SinglesInv /\ Working) /\ Known /\ Known' /\ [SchedulerNext]_schedulerVars
        => (SinglesInv /\ Working)'
  BY NextSingles
<1>4. SinglesInv /\ Working => NoSchedulerError
  BY DEF NoSchedulerError, Failed, Working, Alive, Phases, Failures
<1>5. QED
  BY <1>1, <1>2, <1>3, <1>4, PTL DEF SchedulerSpec
=============================================================================
