---------------------------- MODULE CouncilProofs ----------------------------
(***************************************************************************)
(* Proofs about Council, for every council, policy, bound on proposals and *)
(* set of messages.                                                        *)
(***************************************************************************)
EXTENDS Council, WhitelistProofs

-----------------------------------------------------------------------------
(* A store that is well formed, and in which every execution stands.       *)

Stands(s) ==
    \A e \in s.executions :
        /\ e.message.index \in DOMAIN s.registry
        /\ s.registry[e.message.index] = EntryOf(e.message)

Sound(s) ==
    /\ DOMAIN s = {"proposals", "registry", "executions"}
    /\ DOMAIN s.proposals \subseteq Ids
    /\ \A i \in DOMAIN s.proposals : s.proposals[i] \in Proposal
    /\ s.registry \in Registries
    /\ s.executions \subseteq Execution
    /\ Stands(s)

\* What a tally leaves as it was.
LEMMA TalliedKeeps ==
    ASSUME NEW p \in Proposal
    PROVE  /\ Tallied(p) \in Proposal
           /\ Tallied(p).age = p.age
           /\ Tallied(p).message = p.message
           /\ Tallied(p).result = p.result
           /\ Tallied(p).status = p.status \/ p.status = "SUBMITTED"
           /\ p.status # "SUBMITTED" => Tallied(p) = p
           /\ VotingEnded(p) => Tallied(p).status # "SUBMITTED"
  BY DEF Tallied, Proposal, Statuses

\* The store after an execution, field by field.
LEMMA ExecFields ==
    ASSUME NEW s, NEW i, DOMAIN s = {"proposals", "registry", "executions"},
           i \in DOMAIN s.proposals
    PROVE  LET p == Tallied(s.proposals[i])
               t == Exec(s, i)
           IN  /\ DOMAIN t = {"proposals", "registry", "executions"}
               /\ p.status = "ACCEPTED" /\ Runs(s, p) =>
                     /\ t.proposals = [j \in DOMAIN s.proposals \ {i} |-> s.proposals[j]]
                     /\ t.registry = Onboarded(s.registry, p.message)
                     /\ t.executions = s.executions \cup
                          {[id |-> i, age |-> p.age, message |-> p.message]}
               /\ ~ (p.status = "ACCEPTED" /\ Runs(s, p)) =>
                     /\ t.registry = s.registry
                     /\ t.executions = s.executions
               /\ p.status = "ACCEPTED" /\ ~ Runs(s, p) =>
                     t.proposals = [s.proposals EXCEPT ![i] = [p EXCEPT !.result = "FAILURE"]]
               /\ p.status # "ACCEPTED" =>
                     t.proposals = [s.proposals EXCEPT ![i] = p]
<1> DEFINE p == Tallied(s.proposals[i])
           t == Exec(s, i)
<1>1. CASE p.status = "ACCEPTED" /\ Runs(s, p)
  <2> DEFINE u == [s EXCEPT !.registry = Onboarded(@, p.message),
                            !.executions = @ \cup
                               {[id |-> i, age |-> p.age, message |-> p.message]}]
  <2>1. t = Pruned(u, {i})
    BY <1>1 DEF Exec
  <2>2. /\ DOMAIN u = {"proposals", "registry", "executions"}
        /\ u.proposals = s.proposals
        /\ u.registry = Onboarded(s.registry, p.message)
        /\ u.executions = s.executions \cup
              {[id |-> i, age |-> p.age, message |-> p.message]}
    OBVIOUS
  <2> HIDE DEF u, p, t
  <2>3. /\ DOMAIN t = {"proposals", "registry", "executions"}
        /\ t.proposals = [j \in DOMAIN s.proposals \ {i} |-> s.proposals[j]]
        /\ t.registry = u.registry
        /\ t.executions = u.executions
    BY <2>1, <2>2 DEF Pruned
  <2>. QED
    BY <1>1, <2>2, <2>3 DEF p, t
<1>2. CASE p.status = "ACCEPTED" /\ ~ Runs(s, p)
  <2>1. t = [s EXCEPT !.proposals[i] = [p EXCEPT !.result = "FAILURE"]]
    BY <1>2 DEF Exec
  <2>. QED
    BY <1>2, <2>1
<1>3. CASE p.status # "ACCEPTED"
  <2>1. t = [s EXCEPT !.proposals[i] = p]
    BY <1>3 DEF Exec
  <2>. QED
    BY <1>3, <2>1
<1>. QED
  BY <1>1, <1>2, <1>3

\* An execution touches one proposal, keeps every entry, and is recorded with
\* the age of the proposal.
LEMMA ExecKeeps ==
    ASSUME NEW s, NEW i, Sound(s), i \in DOMAIN s.proposals
    PROVE  LET t == Exec(s, i)
           IN  /\ Sound(t)
               /\ DOMAIN t.proposals \subseteq DOMAIN s.proposals
               /\ \A j \in DOMAIN s.proposals \ {i} :
                     j \in DOMAIN t.proposals /\ t.proposals[j] = s.proposals[j]
               /\ i \in DOMAIN t.proposals =>
                     /\ t.proposals[i].age = s.proposals[i].age
                     /\ t.proposals[i].message = s.proposals[i].message
               /\ s.proposals[i].status = "ACCEPTED" =>
                     \/ i \notin DOMAIN t.proposals
                     \/ /\ t.proposals[i].status = "ACCEPTED"
                        /\ t.proposals[i].result = "FAILURE"
                        /\ ~ Runs(t, t.proposals[i])
               /\ \A e \in t.executions :
                     e \in s.executions \/ e.age = s.proposals[i].age
               /\ DOMAIN s.registry \subseteq DOMAIN t.registry
<1> DEFINE p == Tallied(s.proposals[i])
           t == Exec(s, i)
           done == [id |-> i, age |-> p.age, message |-> p.message]
           failed == [p EXCEPT !.result = "FAILURE"]
<1>1. /\ s.proposals[i] \in Proposal
      /\ i \in Ids
      /\ \A j \in DOMAIN s.proposals : j \in Ids /\ s.proposals[j] \in Proposal
  BY DEF Sound
<1>2. /\ p \in Proposal
      /\ p.age = s.proposals[i].age
      /\ p.message = s.proposals[i].message
      /\ s.proposals[i].status = "ACCEPTED" => p.status = "ACCEPTED"
  <2> HIDE DEF p
  <2>1. /\ p \in Proposal
        /\ p.age = s.proposals[i].age
        /\ p.message = s.proposals[i].message
        /\ p.status = s.proposals[i].status \/ s.proposals[i].status = "SUBMITTED"
    BY <1>1, TalliedKeeps DEF p
  <2>. QED
    BY <2>1
<1>3. /\ DOMAIN t = {"proposals", "registry", "executions"}
      /\ p.status = "ACCEPTED" /\ Runs(s, p) =>
            /\ t.proposals = [j \in DOMAIN s.proposals \ {i} |-> s.proposals[j]]
            /\ t.registry = Onboarded(s.registry, p.message)
            /\ t.executions = s.executions \cup {done}
      /\ ~ (p.status = "ACCEPTED" /\ Runs(s, p)) =>
            /\ t.registry = s.registry
            /\ t.executions = s.executions
      /\ p.status = "ACCEPTED" /\ ~ Runs(s, p) =>
            t.proposals = [s.proposals EXCEPT ![i] = failed]
      /\ p.status # "ACCEPTED" =>
            t.proposals = [s.proposals EXCEPT ![i] = p]
  <2>1. DOMAIN s = {"proposals", "registry", "executions"}
    BY DEF Sound
  <2>. QED
    BY <2>1, ExecFields, Zenon
<1>4. CASE p.status = "ACCEPTED" /\ Runs(s, p)
  <2>1. /\ t.proposals = [j \in DOMAIN s.proposals \ {i} |-> s.proposals[j]]
        /\ t.registry = Onboarded(s.registry, p.message)
        /\ t.executions = s.executions \cup {done}
    BY <1>3, <1>4, Zenon
  <2>2. OnboardAccepts(s.registry, p.message)
    BY <1>4 DEF Runs
  <2>3. p.message \in Messages /\ done \in Execution
    BY <1>1, <1>2 DEF Proposal, Execution
  <2> HIDE DEF p, t, done
  <2>4. /\ t.registry \in Registries
        /\ DOMAIN t.registry = DOMAIN s.registry \cup {p.message.index}
        /\ t.registry[p.message.index] = EntryOf(p.message)
        /\ \A k \in DOMAIN s.registry : t.registry[k] = s.registry[k]
    <3>1. s.registry \in Registries
      BY DEF Sound
    <3> DEFINE reg == s.registry
               m == p.message
    <3>2. reg \in Registries /\ m \in Messages /\ OnboardAccepts(reg, m)
      BY <2>2, <2>3, <3>1
    <3> HIDE DEF reg, m
    <3>3. /\ Onboarded(reg, m) \in Registries
          /\ DOMAIN Onboarded(reg, m) = DOMAIN reg \cup {m.index}
          /\ Onboarded(reg, m)[m.index] = EntryOf(m)
          /\ \A k \in DOMAIN reg : Onboarded(reg, m)[k] = reg[k]
      BY ONLY <3>2, OnboardedKeeps
    <3>. QED
      BY <2>1, <3>3, Zenon DEF reg, m
  <2>5. done.message = p.message /\ done.age = p.age
    BY DEF done
  <2>6. Stands(t)
    BY <2>1, <2>4, <2>5 DEF Sound, Stands
  <2>7. Sound(t)
    BY <1>1, <1>3, <2>1, <2>3, <2>4, <2>6 DEF Sound
  <2>. QED
    BY <1>2, <2>1, <2>4, <2>5, <2>7 DEF t
<1>5. CASE ~ (p.status = "ACCEPTED" /\ Runs(s, p))
  <2> DEFINE q == IF p.status = "ACCEPTED" THEN failed ELSE p
  <2>1. /\ t.proposals = [s.proposals EXCEPT ![i] = q]
        /\ t.registry = s.registry
        /\ t.executions = s.executions
    <3>1. CASE p.status = "ACCEPTED"
      <4>1. q = failed
        BY <3>1, Zenon
      <4>. QED
        BY <1>3, <1>5, <3>1, <4>1, Zenon
    <3>2. CASE p.status # "ACCEPTED"
      <4>1. q = p
        BY <3>2, Zenon
      <4>. QED
        BY <1>3, <3>2, <4>1, Zenon
    <3>. QED
      BY <3>1, <3>2
  <2>2. q \in Proposal /\ q.age = p.age /\ q.message = p.message
    BY <1>2 DEF Proposal
  <2>3. p.status = "ACCEPTED" => /\ q.status = "ACCEPTED"
                                /\ q.result = "FAILURE"
                                /\ ~ Runs(s, q)
    <3>1. CASE p.status = "ACCEPTED"
      <4>1. q = failed /\ ~ Runs(s, p)
        BY <1>5, <3>1
      <4>2. /\ failed.age = p.age /\ failed.message = p.message
            /\ failed.status = p.status /\ failed.result = "FAILURE"
        BY <1>2 DEF Proposal
      <4> HIDE DEF failed, p, q
      <4>. QED
        BY <3>1, <4>1, <4>2 DEF Runs, ExecutionEnded
    <3>. QED
      BY <3>1
  <2> HIDE DEF p, t, q
  <2>4. Stands(t)
    BY <2>1 DEF Sound, Stands
  <2>5. /\ DOMAIN t.proposals = DOMAIN s.proposals
        /\ t.proposals[i] = q
        /\ \A j \in DOMAIN s.proposals \ {i} : t.proposals[j] = s.proposals[j]
    BY <2>1
  <2>6. Sound(t)
    BY <1>1, <1>3, <2>1, <2>2, <2>4, <2>5 DEF Sound
  <2>7. Runs(t, q) = Runs(s, q)
    BY <2>1 DEF Runs
  <2>. QED
    BY <1>2, <2>1, <2>2, <2>3, <2>5, <2>6, <2>7 DEF t
<1>. QED
  BY <1>4, <1>5

-----------------------------------------------------------------------------
(* The end blocker's loop, as the function it is defined by.               *)

LoopBody(s, f, n) ==
    IF n = 0 THEN s
    ELSE IF Ready(s, f[n - 1], n) THEN Exec(f[n - 1], n)
    ELSE f[n - 1]

\* There is a function as long as the loop that runs it.
LEMMA LoopExists ==
    ASSUME NEW s
    PROVE  \E f : f = [n \in 0..MaxProposals |-> LoopBody(s, f, n)]
<1> DEFINE E(m) == \E f : f = [n \in 0..m |-> LoopBody(s, f, n)]
           B == {m \in Nat : ~ E(m)}
<1>1. E(0)
  <2> DEFINE f == [n \in 0..0 |-> s]
  <2>1. f = [n \in 0..0 |-> LoopBody(s, f, n)]
    BY DEF LoopBody
  <2>. QED
    BY <2>1
<1>2. ASSUME NEW m \in Nat, E(m)
      PROVE  E(m + 1)
  <2>1. PICK f : f = [n \in 0..m |-> LoopBody(s, f, n)]
    BY <1>2
  <2> DEFINE g == [n \in 0..(m + 1) |-> IF n \in 0..m THEN f[n]
                                        ELSE LoopBody(s, f, n)]
  <2>2. ASSUME NEW n \in 0..(m + 1)
        PROVE  g[n] = LoopBody(s, g, n)
    <3>1. g[n] = LoopBody(s, f, n)
      <4>1. n \in 0..m => f[n] = LoopBody(s, f, n)
        BY <2>1
      <4>. QED
        BY <4>1
    <3>2. n # 0 => g[n - 1] = f[n - 1]
      <4>1. n # 0 => n - 1 \in 0..m /\ n - 1 \in 0..(m + 1)
        OBVIOUS
      <4>. QED
        BY <4>1
    <3> HIDE DEF g
    <3>. QED
      BY <3>1, <3>2 DEF LoopBody
  <2>3. g = [n \in 0..(m + 1) |-> LoopBody(s, g, n)]
    <3>1. g = [n \in 0..(m + 1) |-> g[n]]
      OBVIOUS
    <3> HIDE DEF g
    <3>. QED
      BY <2>2, <3>1
  <2> HIDE DEF g
  <2>. QED
    BY <2>3
<1>3. B = {}
  <2> HIDE DEF E
  <2> SUFFICES ASSUME B # {}
               PROVE  FALSE
    OBVIOUS
  <2>1. PICK d \in B : \A e \in B : ~ (e < d)
    BY LeastNumber
  <2>2. d \in Nat /\ d # 0
    BY <1>1
  <2>3. d - 1 \in Nat /\ d - 1 < d
    BY <2>2
  <2>4. E(d - 1)
    BY <2>1, <2>3
  <2>5. E((d - 1) + 1)
    BY <1>2, <2>3, <2>4
  <2>. QED
    BY <2>2, <2>5
<1>. QED
  BY <1>3, CouncilAssumption

\* The loop ends with its last value.
LEMMA LoopUnfolds ==
    ASSUME NEW s
    PROVE  \E f : /\ f = [n \in 0..MaxProposals |-> LoopBody(s, f, n)]
                 /\ ExecutePendingGroupProposals(s) = f[MaxProposals]
<1> DEFINE g == CHOOSE f : f = [n \in 0..MaxProposals |-> LoopBody(s, f, n)]
<1>1. g = [n \in 0..MaxProposals |-> LoopBody(s, g, n)]
  <2> DEFINE P(f) == f = [n \in 0..MaxProposals |-> LoopBody(s, f, n)]
  <2>1. \E f : P(f)
    BY LoopExists, Zenon
  <2>2. P(CHOOSE f : P(f))
    <3> HIDE DEF P
    <3>. QED
      BY <2>1, Zenon
  <2>. QED
    BY <2>2, Zenon
<1>2. ExecutePendingGroupProposals(s) = g[MaxProposals]
  BY Zenon DEF ExecutePendingGroupProposals, LoopBody
<1> HIDE DEF g
<1>. QED
  BY <1>1, <1>2, Zenon

\* What the loop has made of the store s after the proposals up to n: it only
\* took accepted ones, in time, and those on the page have all been tried.
LoopInv(s, t, n) ==
    /\ Sound(t)
    /\ DOMAIN t.proposals \subseteq DOMAIN s.proposals
    /\ DOMAIN s.registry \subseteq DOMAIN t.registry
    /\ \A i \in DOMAIN t.proposals :
          /\ t.proposals[i].age = s.proposals[i].age
          /\ t.proposals[i].message = s.proposals[i].message
          /\ t.proposals[i].status = s.proposals[i].status
    /\ \A i \in DOMAIN s.proposals :
          n < i => i \in DOMAIN t.proposals /\ t.proposals[i] = s.proposals[i]
    /\ \A i \in DOMAIN t.proposals :
          /\ i <= n
          /\ i \in Page(s)
          /\ s.proposals[i].status = "ACCEPTED"
          /\ s.proposals[i].age >= VotingPeriod
          => t.proposals[i].result = "FAILURE"
    /\ \A i \in DOMAIN t.proposals :
          t.proposals[i].result = "FAILURE" =>
              \/ s.proposals[i].result = "FAILURE"
              \/ t.proposals[i].age >= VotingPeriod /\ ~ Runs(t, t.proposals[i])
    /\ \A e \in t.executions : e \in s.executions \/ e.age >= VotingPeriod

\* A message that is refused stays refused.
LEMMA RunsOnlyLess ==
    ASSUME NEW s, NEW t, NEW p, DOMAIN s.registry \subseteq DOMAIN t.registry,
           ~ Runs(s, p)
    PROVE  ~ Runs(t, p)
  BY DEF Runs, OnboardAccepts

LEMMA LoopStep ==
    ASSUME NEW s, NEW t, NEW u, NEW n \in Nat \ {0},
           Sound(s), LoopInv(s, t, n - 1),
           u = IF Ready(s, t, n) THEN Exec(t, n) ELSE t
    PROVE  LoopInv(s, u, n)
<1>1. /\ \A i \in DOMAIN s.proposals : i \in Nat
      /\ \A i \in Nat : i <= n => i <= n - 1 \/ i = n
      /\ \A i \in Nat : n < i => n - 1 < i
      /\ n - 1 < n
  BY DEF Sound, Ids
<1>2. n \in DOMAIN s.proposals =>
         n \in DOMAIN t.proposals /\ t.proposals[n] = s.proposals[n]
  BY <1>1 DEF LoopInv
<1>3. CASE ~ Ready(s, t, n)
  <2>1. u = t
    BY <1>3
  <2>2. ASSUME NEW i \in DOMAIN t.proposals, i <= n, i \in Page(s),
               s.proposals[i].status = "ACCEPTED",
               s.proposals[i].age >= VotingPeriod
        PROVE  t.proposals[i].result = "FAILURE"
    <3>1. i \in DOMAIN s.proposals
      BY DEF LoopInv
    <3>2. CASE i <= n - 1
      BY <2>2, <3>2 DEF LoopInv
    <3>3. CASE i = n
      <4>1. t.proposals[n] = s.proposals[n]
        BY <1>2, <3>1, <3>3
      <4>2. s.proposals[n].result # "NOT_RUN"
        BY <1>3, <2>2, <3>3, <4>1 DEF Ready
      <4>3. s.proposals[n].result \in {"NOT_RUN", "FAILURE"}
        BY <3>1, <3>3 DEF Sound, Proposal
      <4>. QED
        BY <3>3, <4>1, <4>2, <4>3
    <3>. QED
      BY <1>1, <2>2, <3>1, <3>2, <3>3
  <2>3. \A i \in DOMAIN s.proposals :
          n < i => i \in DOMAIN t.proposals /\ t.proposals[i] = s.proposals[i]
    BY <1>1 DEF LoopInv
  <2>. QED
    BY <2>1, <2>2, <2>3 DEF LoopInv
<1>4. CASE Ready(s, t, n)
  <2>1. /\ n \in DOMAIN t.proposals
        /\ t.proposals[n].status = "ACCEPTED"
        /\ t.proposals[n].age >= VotingPeriod
    BY <1>4 DEF Ready
  <2>2. u = Exec(t, n) /\ Sound(t)
    BY <1>4 DEF LoopInv
  <2>3. /\ Sound(u)
        /\ DOMAIN u.proposals \subseteq DOMAIN t.proposals
        /\ \A j \in DOMAIN t.proposals \ {n} :
              j \in DOMAIN u.proposals /\ u.proposals[j] = t.proposals[j]
        /\ n \in DOMAIN u.proposals =>
              /\ u.proposals[n].age = t.proposals[n].age
              /\ u.proposals[n].message = t.proposals[n].message
        /\ t.proposals[n].status = "ACCEPTED" =>
              \/ n \notin DOMAIN u.proposals
              \/ /\ u.proposals[n].status = "ACCEPTED"
                 /\ u.proposals[n].result = "FAILURE"
                 /\ ~ Runs(u, u.proposals[n])
        /\ \A e \in u.executions :
              e \in t.executions \/ e.age = t.proposals[n].age
        /\ DOMAIN t.registry \subseteq DOMAIN u.registry
    <3> DEFINE v == Exec(t, n)
    <3>1. /\ Sound(v)
          /\ DOMAIN v.proposals \subseteq DOMAIN t.proposals
          /\ \A j \in DOMAIN t.proposals \ {n} :
                j \in DOMAIN v.proposals /\ v.proposals[j] = t.proposals[j]
          /\ n \in DOMAIN v.proposals =>
                /\ v.proposals[n].age = t.proposals[n].age
                /\ v.proposals[n].message = t.proposals[n].message
          /\ t.proposals[n].status = "ACCEPTED" =>
                \/ n \notin DOMAIN v.proposals
                \/ /\ v.proposals[n].status = "ACCEPTED"
                   /\ v.proposals[n].result = "FAILURE"
                   /\ ~ Runs(v, v.proposals[n])
          /\ \A e \in v.executions :
                e \in t.executions \/ e.age = t.proposals[n].age
          /\ DOMAIN t.registry \subseteq DOMAIN v.registry
      BY <2>1, <2>2, ExecKeeps, Zenon
    <3>2. u = v
      BY <2>2
    <3> HIDE DEF v
    <3>. QED
      BY <3>1, <3>2
  <2>4. /\ DOMAIN u.proposals \subseteq DOMAIN s.proposals
        /\ DOMAIN s.registry \subseteq DOMAIN u.registry
    BY <2>3 DEF LoopInv
  <2>5. ASSUME NEW i \in DOMAIN u.proposals
        PROVE  /\ u.proposals[i].age = s.proposals[i].age
               /\ u.proposals[i].message = s.proposals[i].message
               /\ u.proposals[i].status = s.proposals[i].status
    BY <2>1, <2>3 DEF LoopInv
  <2>6. ASSUME NEW i \in DOMAIN s.proposals, n < i
        PROVE  i \in DOMAIN u.proposals /\ u.proposals[i] = s.proposals[i]
    <3>1. i \in DOMAIN t.proposals /\ t.proposals[i] = s.proposals[i]
      BY <1>1, <2>6 DEF LoopInv
    <3>2. i # n
      BY <1>1, <2>6
    <3>. QED
      BY <2>3, <3>1, <3>2
  <2>7. ASSUME NEW i \in DOMAIN u.proposals, i <= n, i \in Page(s),
               s.proposals[i].status = "ACCEPTED",
               s.proposals[i].age >= VotingPeriod
        PROVE  u.proposals[i].result = "FAILURE"
    <3>1. CASE i = n
      BY <2>1, <2>3, <3>1
    <3>2. CASE i # n
      <4>1. i <= n - 1
        BY <1>1, <2>4, <2>7, <3>2
      <4>2. i \in DOMAIN t.proposals /\ u.proposals[i] = t.proposals[i]
        BY <2>3, <3>2
      <4>. QED
        BY <2>7, <4>1, <4>2 DEF LoopInv
    <3>. QED
      BY <3>1, <3>2
  <2>8. ASSUME NEW i \in DOMAIN u.proposals, u.proposals[i].result = "FAILURE"
        PROVE  \/ s.proposals[i].result = "FAILURE"
               \/ u.proposals[i].age >= VotingPeriod /\ ~ Runs(u, u.proposals[i])
    <3>1. CASE i = n
      BY <2>1, <2>3, <3>1
    <3>2. CASE i # n
      <4>1. i \in DOMAIN t.proposals /\ u.proposals[i] = t.proposals[i]
        BY <2>3, <3>2
      <4>2. \/ s.proposals[i].result = "FAILURE"
            \/ t.proposals[i].age >= VotingPeriod /\ ~ Runs(t, t.proposals[i])
        BY <2>8, <4>1 DEF LoopInv
      <4>. QED
        BY <2>3, <4>1, <4>2, RunsOnlyLess
    <3>. QED
      BY <3>1, <3>2
  <2>9. ASSUME NEW e \in u.executions
        PROVE  e \in s.executions \/ e.age >= VotingPeriod
    BY <2>1, <2>3 DEF LoopInv
  <2>. QED
    BY <2>3, <2>4, <2>5, <2>6, <2>7, <2>8, <2>9 DEF LoopInv
<1>. QED
  BY <1>3, <1>4

\* By the least n at which the loop breaks its invariant.
LEMMA LoopKeeps ==
    ASSUME NEW s, Sound(s)
    PROVE  LoopInv(s, ExecutePendingGroupProposals(s), MaxProposals)
<1>0. MaxProposals \in Nat
  BY CouncilAssumption
<1>1. PICK f : /\ f = [n \in 0..MaxProposals |-> LoopBody(s, f, n)]
               /\ ExecutePendingGroupProposals(s) = f[MaxProposals]
  BY LoopUnfolds, Zenon
<1> DEFINE B == {n \in 0..MaxProposals : ~ LoopInv(s, f[n], n)}
<1>2. \A n \in 0..MaxProposals : f[n] = LoopBody(s, f, n)
  BY <1>1
<1>3. LoopInv(s, f[0], 0)
  <2>1. f[0] = s
    BY <1>0, <1>2 DEF LoopBody
  <2>2. \A i \in DOMAIN s.proposals : ~ (i <= 0)
    BY DEF Sound, Ids
  <2>. QED
    BY <2>1, <2>2 DEF LoopInv
<1>4. B = {}
  <2> SUFFICES ASSUME B # {}
               PROVE  FALSE
    OBVIOUS
  <2>1. PICK d \in B : \A e \in B : ~ (e < d)
    <3>1. B \in SUBSET Nat
      OBVIOUS
    <3> HIDE DEF B
    <3>. QED
      BY <3>1, LeastNumber
  <2>2. d \in Nat \ {0} /\ d \in 0..MaxProposals
    BY <1>3
  <2>3. d - 1 \in 0..MaxProposals /\ d - 1 < d
    BY <1>0, <2>2
  <2>4. LoopInv(s, f[d - 1], d - 1)
    BY <2>1, <2>3
  <2>5. f[d] = IF Ready(s, f[d - 1], d) THEN Exec(f[d - 1], d) ELSE f[d - 1]
    BY <1>2, <2>2 DEF LoopBody
  <2> DEFINE t == f[d - 1]
             u == f[d]
  <2>6. LoopInv(s, t, d - 1) /\ u = IF Ready(s, t, d) THEN Exec(t, d) ELSE t
    BY <2>4, <2>5
  <2>7. ~ LoopInv(s, u, d)
    OBVIOUS
  <2> HIDE DEF t, u, B
  <2>. QED
    BY <2>2, <2>6, <2>7, LoopStep
<1>5. LoopInv(s, f[MaxProposals], MaxProposals)
  BY <1>0, <1>4
<1>. QED
  BY <1>1, <1>5, Zenon

-----------------------------------------------------------------------------
(* The end blockers together.                                              *)

\* x/group's end blocker tallies what has ended and drops what is too old.
LEMMA GroupKeeps ==
    ASSUME NEW s, Sound(s)
    PROVE  LET g == GroupEndBlocker(s)
           IN  /\ Sound(g)
               /\ g.registry = s.registry
               /\ g.executions = s.executions
               /\ DOMAIN g.proposals \subseteq DOMAIN s.proposals
               /\ \A i \in DOMAIN g.proposals :
                     /\ ~ ExecutionEnded(g.proposals[i])
                     /\ g.proposals[i].age = s.proposals[i].age
                     /\ g.proposals[i].message = s.proposals[i].message
                     /\ g.proposals[i].result = s.proposals[i].result
                     /\ VotingEnded(g.proposals[i]) =>
                           g.proposals[i].status \in {"ACCEPTED", "REJECTED"}
                     /\ ~ VotingEnded(g.proposals[i]) =>
                           g.proposals[i] = s.proposals[i]
<1> DEFINE ended == {i \in DOMAIN s.proposals : VotingEnded(s.proposals[i])}
           gone == {i \in ended : s.proposals[i].status = "WITHDRAWN"}
           P == [i \in DOMAIN s.proposals |->
                    IF i \in ended THEN Tallied(s.proposals[i]) ELSE s.proposals[i]]
           Q == [i \in DOMAIN P \ gone |-> P[i]]
           old == {i \in DOMAIN Q : ExecutionEnded(Q[i])}
           R == [i \in DOMAIN Q \ old |-> Q[i]]
           u == [s EXCEPT !.proposals = P]
           v == TallyProposalsAtVPEnd(s)
           g == GroupEndBlocker(s)
<1>1. DOMAIN s = {"proposals", "registry", "executions"}
  BY DEF Sound
<1>2. v = Pruned(u, gone)
  BY DEF TallyProposalsAtVPEnd
<1>3. /\ DOMAIN u = {"proposals", "registry", "executions"}
      /\ u.proposals = P
      /\ u.registry = s.registry
      /\ u.executions = s.executions
  <2> HIDE DEF P
  <2>. QED
    BY <1>1
<1>4. /\ DOMAIN v = {"proposals", "registry", "executions"}
      /\ v.proposals = Q
      /\ v.registry = s.registry
      /\ v.executions = s.executions
  <2> HIDE DEF P, u, v, gone
  <2>. QED
    BY <1>2, <1>3 DEF Pruned
<1>5. g = Pruned(v, old)
  <2>1. g = Pruned(v, {i \in DOMAIN v.proposals : ExecutionEnded(v.proposals[i])})
    BY DEF GroupEndBlocker, PruneProposals
  <2> HIDE DEF v, Q, g
  <2>. QED
    BY <1>4, <2>1
<1>6. /\ DOMAIN g = {"proposals", "registry", "executions"}
      /\ g.proposals = R
      /\ g.registry = s.registry
      /\ g.executions = s.executions
  <2> HIDE DEF v, Q, g, old
  <2>. QED
    BY <1>4, <1>5 DEF Pruned
<1>7. ASSUME NEW i \in DOMAIN R
      PROVE  /\ i \in DOMAIN s.proposals
             /\ i \notin gone
             /\ R[i] = IF i \in ended THEN Tallied(s.proposals[i]) ELSE s.proposals[i]
             /\ ~ ExecutionEnded(R[i])
  OBVIOUS
<1> HIDE DEF P, Q, R, u, v, g, old
<1>8. ASSUME NEW i \in DOMAIN R
      PROVE  /\ R[i] \in Proposal
             /\ R[i].age = s.proposals[i].age
             /\ R[i].message = s.proposals[i].message
             /\ R[i].result = s.proposals[i].result
             /\ VotingEnded(R[i]) => R[i].status \in {"ACCEPTED", "REJECTED"}
             /\ ~ VotingEnded(R[i]) => R[i] = s.proposals[i]
  <2> DEFINE p == s.proposals[i]
             q == Tallied(p)
  <2>1. i \in DOMAIN s.proposals /\ p \in Proposal
    BY <1>7 DEF Sound
  <2>2. /\ q \in Proposal
        /\ q.age = p.age
        /\ q.message = p.message
        /\ q.result = p.result
        /\ q.status = p.status \/ p.status = "SUBMITTED"
        /\ p.status # "SUBMITTED" => q = p
        /\ VotingEnded(p) => q.status # "SUBMITTED"
    <3> HIDE DEF p
    <3>. QED
      BY <2>1, TalliedKeeps
  <2>3. CASE ~ VotingEnded(p)
    <3>1. R[i] = p
      BY <1>7, <2>3
    <3>. QED
      BY <2>1, <2>3, <3>1
  <2>4. CASE VotingEnded(p)
    <3>1. R[i] = q /\ p.status # "WITHDRAWN"
      BY <1>7, <2>1, <2>4
    <3>2. q.status # "WITHDRAWN"
      <4>1. CASE p.status = "SUBMITTED"
        <5> HIDE DEF p
        <5>. QED
          BY <4>1, <2>1 DEF Tallied, Proposal
      <4>2. CASE p.status # "SUBMITTED"
        BY <2>2, <3>1, <4>2
      <4>. QED
        BY <4>1, <4>2
    <3>3. VotingEnded(q)
      BY <2>2, <2>4 DEF VotingEnded
    <3>4. q.status \in Statuses
      BY <2>2 DEF Proposal
    <3> HIDE DEF p, q
    <3>. QED
      BY <2>2, <2>4, <3>1, <3>2, <3>3, <3>4 DEF Statuses, p
  <2>. QED
    BY <2>3, <2>4
<1>9. Sound(g)
  <2>1. Stands(g)
    BY <1>6 DEF Sound, Stands
  <2>2. DOMAIN g.proposals \subseteq Ids
    BY <1>6, <1>7 DEF Sound
  <2>. QED
    BY <1>6, <1>8, <2>1, <2>2 DEF Sound
<1>10. DOMAIN g.proposals \subseteq DOMAIN s.proposals
  BY <1>6, <1>7
<1>. QED
  BY <1>6, <1>7, <1>8, <1>9, <1>10 DEF g

\* A page as long as there are proposals holds them all.
LEMMA PageHoldsAll ==
    ASSUME MaxProposals <= PageLimit, NEW s, Sound(s)
    PROVE  Page(s) = DOMAIN s.proposals
<1> SUFFICES ASSUME NEW i \in DOMAIN s.proposals
             PROVE  Cardinality({j \in DOMAIN s.proposals : j < i}) < PageLimit
  BY DEF Page
<1> DEFINE before == {j \in DOMAIN s.proposals : j < i}
<1>1. /\ MaxProposals \in Nat
      /\ PageLimit \in Nat
      /\ i \in 1..MaxProposals
      /\ DOMAIN s.proposals \subseteq 1..MaxProposals
  BY CouncilAssumption DEF Sound, Ids
<1>2. before \subseteq 1..(i - 1)
  BY <1>1
<1>3. IsFiniteSet(1..(i - 1)) /\ Cardinality(1..(i - 1)) = i - 1
  <2>1. 1 \in Int /\ i - 1 \in Int /\ ~ (1 > i)
    BY <1>1
  <2>2. /\ IsFiniteSet(1..(i - 1))
        /\ Cardinality(1..(i - 1)) = IF 1 > i - 1 THEN 0 ELSE (i - 1) - 1 + 1
    BY <2>1, FS_Interval
  <2>. QED
    BY <1>1, <2>2
<1>4. Cardinality(before) \in Nat /\ Cardinality(before) <= i - 1
  <2> HIDE DEF before
  <2>1. IsFiniteSet(before) /\ Cardinality(before) <= Cardinality(1..(i - 1))
    BY <1>2, <1>3, FS_Subset
  <2>2. Cardinality(before) \in Nat
    BY <2>1, FS_CardinalityType
  <2>. QED
    BY <1>3, <2>1, <2>2
<1>. QED
  BY <1>1, <1>4

-----------------------------------------------------------------------------
(* Types, and executions that stand: whatever the modes and the page.      *)

IInv == TypeOK /\ ExecutionsStand

LEMMA StoreIsSound ==
    ASSUME IInv
    PROVE  /\ Sound(Store)
           /\ Store.proposals = proposals
           /\ Store.registry = registry
           /\ Store.executions = executions
<1>1. /\ DOMAIN Store = {"proposals", "registry", "executions"}
      /\ Store.proposals = proposals
      /\ Store.registry = registry
      /\ Store.executions = executions
  BY DEF Store
<1>2. DOMAIN proposals \subseteq Ids
  BY CouncilAssumption DEF IInv, TypeOK, Ids
<1>. QED
  BY <1>1, <1>2 DEF IInv, TypeOK, ExecutionsStand, Sound, Stands

\* What is left to show of a handler that stores what it made.
LEMMA StoredIsFine ==
    ASSUME NEW t, Sound(t), Stores(t), DOMAIN t.proposals \subseteq 1..lastId',
           lastId' \in 0..MaxProposals, stage' = "deliver"
    PROVE  IInv'
  BY DEF Sound, Stands, Stores, IInv, TypeOK, ExecutionsStand

LEMMA InitIInv == Init => IInv
<1> SUFFICES ASSUME Init
             PROVE  IInv
  OBVIOUS
<1>1. PICK list \in GenesisLists : registry = LoadedFrom(list)
  BY DEF Init
<1>2. registry \in Registries
  BY <1>1, LoadedIsRegistry, CouncilAssumption
<1>3. DOMAIN proposals = {} /\ 0 \in 0..MaxProposals
  BY CouncilAssumption DEF Init
<1>. QED
  BY <1>2, <1>3 DEF Init, IInv, TypeOK, ExecutionsStand

\* The store with a new proposal.
Submitted(member, message, mode) ==
    LET p == [message  |-> message,
              age      |-> 0,
              status   |-> "SUBMITTED",
              result   |-> "NOT_RUN",
              proposer |-> member,
              yes      |-> IF mode = "TRY" THEN {member} ELSE {},
              no       |-> {}]
    IN  [Store EXCEPT !.proposals =
            [j \in DOMAIN @ \cup {lastId + 1} |-> IF j = lastId + 1 THEN p ELSE @[j]]]

LEMMA SubmittedIsSound ==
    ASSUME IInv, lastId < MaxProposals,
           NEW member \in Members, NEW message \in Messages, NEW mode
    PROVE  LET t == Submitted(member, message, mode)
           IN  /\ Sound(t)
               /\ DOMAIN t.proposals = DOMAIN proposals \cup {lastId + 1}
               /\ t.proposals[lastId + 1].status = "SUBMITTED"
               /\ t.proposals[lastId + 1].result = "NOT_RUN"
               /\ \A j \in DOMAIN proposals : t.proposals[j] = proposals[j]
               /\ t.registry = registry
               /\ t.executions = executions
<1> DEFINE p == [message  |-> message,
                 age      |-> 0,
                 status   |-> "SUBMITTED",
                 result   |-> "NOT_RUN",
                 proposer |-> member,
                 yes      |-> IF mode = "TRY" THEN {member} ELSE {},
                 no       |-> {}]
           P == [j \in DOMAIN proposals \cup {lastId + 1} |->
                    IF j = lastId + 1 THEN p ELSE proposals[j]]
           t == Submitted(member, message, mode)
<1>1. p \in Proposal
  BY DEF Proposal, Statuses
<1>2. p.status = "SUBMITTED" /\ p.result = "NOT_RUN"
  OBVIOUS
<1> HIDE DEF p
<1>3. /\ DOMAIN t = {"proposals", "registry", "executions"}
      /\ t.proposals = P
      /\ t.registry = registry
      /\ t.executions = executions
  BY DEF Submitted, Store, p
<1>4. lastId \in Nat /\ lastId + 1 \in Ids /\ lastId + 1 \notin DOMAIN proposals
  BY CouncilAssumption DEF IInv, TypeOK, Ids
<1> HIDE DEF t
<1>5. /\ DOMAIN t.proposals = DOMAIN proposals \cup {lastId + 1}
      /\ t.proposals[lastId + 1] = p
      /\ \A j \in DOMAIN proposals : t.proposals[j] = proposals[j]
  BY <1>3, <1>4
<1>6. Sound(t)
  <2>1. DOMAIN proposals \subseteq Ids
    BY CouncilAssumption DEF IInv, TypeOK, Ids
  <2>2. \A j \in DOMAIN t.proposals : t.proposals[j] \in Proposal
    BY <1>1, <1>5 DEF IInv, TypeOK
  <2>. QED
    BY <1>3, <1>4, <1>5, <2>1, <2>2
       DEF IInv, TypeOK, ExecutionsStand, Sound, Stands
<1>. QED
  BY <1>2, <1>3, <1>5, <1>6 DEF t

\* The store with a vote.
Voted(i, member, option) ==
    [Store EXCEPT !.proposals[i][option] = @ \cup {member}]

LEMMA VotedIsSound ==
    ASSUME IInv, NEW i \in DOMAIN proposals, NEW member \in Members,
           NEW option \in {"yes", "no"}
    PROVE  LET t == Voted(i, member, option)
           IN  /\ Sound(t)
               /\ DOMAIN t.proposals = DOMAIN proposals
               /\ \A j \in DOMAIN proposals :
                     /\ t.proposals[j].age = proposals[j].age
                     /\ t.proposals[j].message = proposals[j].message
                     /\ t.proposals[j].status = proposals[j].status
                     /\ t.proposals[j].result = proposals[j].result
               /\ t.registry = registry
               /\ t.executions = executions
<1> DEFINE p == [proposals[i] EXCEPT ![option] = @ \cup {member}]
           t == Voted(i, member, option)
<1>1. proposals[i] \in Proposal
  BY DEF IInv, TypeOK
<1>2. /\ p \in Proposal
      /\ p.age = proposals[i].age
      /\ p.message = proposals[i].message
      /\ p.status = proposals[i].status
      /\ p.result = proposals[i].result
  <2>1. CASE option = "yes"
    BY <1>1, <2>1 DEF Proposal
  <2>2. CASE option = "no"
    BY <1>1, <2>2 DEF Proposal
  <2>. QED
    BY <2>1, <2>2
<1>3. /\ DOMAIN t = {"proposals", "registry", "executions"}
      /\ t.proposals = [proposals EXCEPT ![i] = p]
      /\ t.registry = registry
      /\ t.executions = executions
  BY DEF Voted, Store
<1> HIDE DEF p, t
<1>4. /\ DOMAIN t.proposals = DOMAIN proposals
      /\ t.proposals[i] = p
      /\ \A j \in DOMAIN proposals \ {i} : t.proposals[j] = proposals[j]
  BY <1>3
<1>5. Sound(t)
  <2>1. DOMAIN proposals \subseteq Ids
    BY CouncilAssumption DEF IInv, TypeOK, Ids
  <2>2. \A j \in DOMAIN t.proposals : t.proposals[j] \in Proposal
    BY <1>2, <1>4 DEF IInv, TypeOK
  <2>. QED
    BY <1>3, <1>4, <2>1, <2>2
       DEF IInv, TypeOK, ExecutionsStand, Sound, Stands
<1>. QED
  BY <1>2, <1>3, <1>4, <1>5 DEF t

\* What a submission or a vote stores, with and without TRY.
LEMMA ModeKeeps ==
    ASSUME NEW t, Sound(t), NEW i \in DOMAIN t.proposals, NEW mode
    PROVE  /\ Sound(AfterExecMode(t, i, mode))
           /\ DOMAIN AfterExecMode(t, i, mode).proposals \subseteq DOMAIN t.proposals
<1>1. CASE mode = "TRY"
  <2>1. AfterExecMode(t, i, mode) = Exec(t, i)
    BY <1>1 DEF AfterExecMode
  <2>2. /\ Sound(Exec(t, i))
        /\ DOMAIN Exec(t, i).proposals \subseteq DOMAIN t.proposals
    BY ExecKeeps, Zenon
  <2>. QED
    BY <2>1, <2>2, Zenon
<1>2. CASE mode # "TRY"
  BY <1>2 DEF AfterExecMode
<1>. QED
  BY <1>1, <1>2

\* What a block's end stores, all that the later steps need of it.
LEMMA EndBlockersKeep ==
    ASSUME NEW s, Sound(s)
    PROVE  LET g == GroupEndBlocker(s)
               t == EndBlockers(s)
           IN  /\ Sound(g)
               /\ LoopInv(g, t, MaxProposals)
               /\ DOMAIN t.proposals \subseteq DOMAIN s.proposals
               /\ \A i \in DOMAIN t.proposals : ~ ExecutionEnded(t.proposals[i])
<1> DEFINE g == GroupEndBlocker(s)
           t == EndBlockers(s)
<1>1. /\ Sound(g)
      /\ DOMAIN g.proposals \subseteq DOMAIN s.proposals
      /\ \A i \in DOMAIN g.proposals : ~ ExecutionEnded(g.proposals[i])
  BY GroupKeeps, Zenon
<1>2. t = ExecutePendingGroupProposals(g)
  BY DEF EndBlockers
<1> HIDE DEF g, t
<1>3. LoopInv(g, t, MaxProposals)
  BY <1>1, <1>2, LoopKeeps
<1>4. DOMAIN t.proposals \subseteq DOMAIN g.proposals
  BY <1>3 DEF LoopInv
<1>5. ASSUME NEW i \in DOMAIN t.proposals
      PROVE  ~ ExecutionEnded(t.proposals[i])
  <2>1. i \in DOMAIN g.proposals /\ t.proposals[i].age = g.proposals[i].age
    BY <1>3 DEF LoopInv
  <2>. QED
    BY <1>1, <2>1 DEF ExecutionEnded
<1>. QED
  BY <1>1, <1>3, <1>4, <1>5 DEF g, t

\* The transactions of a block.
Transaction ==
    \/ \E member \in Members, message \in Messages, mode \in ExecModes :
          SubmitProposal(member, message, mode)
    \/ \E i \in Ids, member \in Members, option \in {"yes", "no"}, mode \in ExecModes :
          Vote(i, member, option, mode)
    \/ \E i \in Ids : WithdrawProposal(i)
    \/ \E i \in Ids : ExecProposal(i)
    \/ \E i \in Ids : ExecCarriedProposal(i)

LEMMA TransactionIInv ==
    ASSUME IInv, Transaction
    PROVE  IInv' /\ stage' = "deliver"
<1>0. /\ Sound(Store)
      /\ Store.proposals = proposals
      /\ lastId \in 0..MaxProposals
      /\ lastId \in Nat
      /\ MaxProposals \in Nat
      /\ DOMAIN proposals \subseteq 1..lastId
  BY StoreIsSound, CouncilAssumption DEF IInv, TypeOK
<1>1. ASSUME NEW member \in Members, NEW message \in Messages,
             NEW mode \in ExecModes, SubmitProposal(member, message, mode)
      PROVE  IInv' /\ stage' = "deliver"
  <2> DEFINE t == Submitted(member, message, mode)
             r == AfterExecMode(t, lastId + 1, mode)
  <2>1. /\ lastId < MaxProposals
        /\ Stores(r)
        /\ lastId' = lastId + 1
        /\ stage' = "deliver"
    BY <1>1, Zenon DEF SubmitProposal, Submitted
  <2>2. Sound(t) /\ DOMAIN t.proposals = DOMAIN proposals \cup {lastId + 1}
    <3> HIDE DEF t
    <3>. QED
      BY <2>1, SubmittedIsSound DEF t
  <2> HIDE DEF t
  <2>3. Sound(r) /\ DOMAIN r.proposals \subseteq DOMAIN t.proposals
    BY <2>2, ModeKeeps
  <2> HIDE DEF r
  <2>4. DOMAIN r.proposals \subseteq 1..lastId' /\ lastId' \in 0..MaxProposals
    BY <1>0, <2>1, <2>2, <2>3
  <2>. QED
    BY <2>1, <2>3, <2>4, StoredIsFine
<1>2. ASSUME NEW i \in Ids, NEW member \in Members, NEW option \in {"yes", "no"},
             NEW mode \in ExecModes, Vote(i, member, option, mode)
      PROVE  IInv' /\ stage' = "deliver"
  <2> DEFINE t == Voted(i, member, option)
             r == AfterExecMode(t, i, mode)
  <2>1. /\ i \in DOMAIN proposals
        /\ Stores(r)
        /\ lastId' = lastId
        /\ stage' = "deliver"
    BY <1>2, Zenon DEF Vote, Voted
  <2>2. Sound(t) /\ DOMAIN t.proposals = DOMAIN proposals
    <3> HIDE DEF t
    <3>. QED
      BY <2>1, VotedIsSound DEF t
  <2> HIDE DEF t
  <2>3. Sound(r) /\ DOMAIN r.proposals \subseteq DOMAIN t.proposals
    BY <2>1, <2>2, ModeKeeps
  <2> HIDE DEF r
  <2>. QED
    BY <1>0, <2>1, <2>2, <2>3, StoredIsFine
<1>3. ASSUME NEW i \in Ids, WithdrawProposal(i)
      PROVE  IInv' /\ stage' = "deliver"
  <2>1. /\ i \in DOMAIN proposals
        /\ proposals' = [proposals EXCEPT ![i].status = "WITHDRAWN"]
        /\ stage' = "deliver"
        /\ UNCHANGED <<lastId, registry, executions>>
    BY <1>3 DEF WithdrawProposal
  <2>2. DOMAIN proposals' = DOMAIN proposals
    BY <2>1
  <2>3. \A j \in DOMAIN proposals : proposals'[j] \in Proposal
    BY <2>1 DEF IInv, TypeOK, Proposal, Statuses
  <2>. QED
    BY <2>1, <2>2, <2>3 DEF IInv, TypeOK, ExecutionsStand
<1>4. ASSUME NEW i \in Ids, ExecProposal(i) \/ ExecCarriedProposal(i)
      PROVE  IInv' /\ stage' = "deliver"
  <2> DEFINE r == Exec(Store, i)
  <2>1. /\ i \in DOMAIN proposals
        /\ Stores(r)
        /\ lastId' = lastId
        /\ stage' = "deliver"
    BY <1>4 DEF ExecProposal, ExecCarriedProposal, ExecAllowed, Store
  <2>2. Sound(r) /\ DOMAIN r.proposals \subseteq DOMAIN proposals
    <3>1. Sound(r) /\ DOMAIN r.proposals \subseteq DOMAIN Store.proposals
      <4>1. i \in DOMAIN Store.proposals
        BY <1>0, <2>1
      <4>. QED
        BY <1>0, <4>1, ExecKeeps, Zenon
    <3>. QED
      BY <1>0, <3>1
  <2> HIDE DEF r
  <2>. QED
    BY <1>0, <2>1, <2>2, StoredIsFine
<1>. QED
  BY <1>1, <1>2, <1>3, <1>4 DEF Transaction

LEMMA NextBlockIInv ==
    ASSUME IInv, NextBlock
    PROVE  IInv'
<1>1. PICK d \in 1..MaxStep :
         proposals' = [i \in DOMAIN proposals |-> [proposals[i] EXCEPT !.age = @ + d]]
  BY DEF NextBlock
<1>2. d \in Nat
  BY CouncilAssumption
<1>3. DOMAIN proposals' = DOMAIN proposals
  BY <1>1
<1>4. \A j \in DOMAIN proposals : proposals'[j] \in Proposal
  <2>1. ASSUME NEW j \in DOMAIN proposals
        PROVE  proposals'[j] \in Proposal
    <3>1. proposals[j] \in Proposal /\ proposals[j].age \in Nat
      BY DEF IInv, TypeOK, Proposal
    <3>2. proposals[j].age + d \in Nat
      BY <1>2, <3>1
    <3>. QED
      BY <1>1, <3>1, <3>2 DEF Proposal
  <2>. QED
    BY <2>1
<1>. QED
  BY <1>3, <1>4 DEF NextBlock, IInv, TypeOK, ExecutionsStand

LEMMA EndBlockIInv ==
    ASSUME IInv, EndBlock
    PROVE  IInv'
<1> DEFINE g == GroupEndBlocker(Store)
           t == EndBlockers(Store)
<1>0. Sound(Store) /\ Store.proposals = proposals
  BY StoreIsSound
<1>1. /\ LoopInv(g, t, MaxProposals)
      /\ DOMAIN t.proposals \subseteq DOMAIN Store.proposals
      /\ \A i \in DOMAIN t.proposals : ~ ExecutionEnded(t.proposals[i])
  BY <1>0, EndBlockersKeep, Zenon
<1>2. Stores(t) /\ lastId' = lastId /\ stage' = "begin"
  BY DEF EndBlock
<1> HIDE DEF g, t
<1>3. Sound(t)
  BY <1>1 DEF LoopInv
<1>. QED
  BY <1>0, <1>1, <1>2, <1>3
     DEF Sound, Stands, Stores, IInv, TypeOK, ExecutionsStand

LEMMA NextIInv == IInv /\ [Next]_vars => IInv'
<1> SUFFICES ASSUME IInv, [Next]_vars
             PROVE  IInv'
  OBVIOUS
<1>1. CASE Transaction
  BY <1>1, TransactionIInv
<1>2. CASE NextBlock
  BY <1>2, NextBlockIInv
<1>3. CASE EndBlock
  BY <1>3, EndBlockIInv
<1>4. CASE UNCHANGED vars
  BY <1>4 DEF vars, IInv, TypeOK, ExecutionsStand
<1>. QED
  BY <1>1, <1>2, <1>3, <1>4, Zenon DEF Next, Transaction

LEMMA Invariance == Spec => []IInv
<1>. QED
  BY InitIInv, NextIInv, PTL DEF Spec

\* The store, the registry and the record of executions keep their shape, and
\* nothing outlives its execution period in x/group's store (module.go:158).
THEOREM TypeCorrect == Spec => []TypeOK
<1>1. IInv => TypeOK
  BY DEF IInv
<1>. QED
  BY <1>1, Invariance, PTL

\* What the council executed stays, however proposals race for an index, and
\* whichever of the three ways they are executed by
\* (msg_server_onboard_validator.go:45).
THEOREM ExecutionsAlwaysStand == Spec => []ExecutionsStand
<1>1. IInv => ExecutionsStand
  BY DEF IInv
<1>. QED
  BY <1>1, Invariance, PTL

-----------------------------------------------------------------------------
(* Each block settles what has ended, if a page holds all proposals.       *)

LEMMA EndBlockSettles ==
    ASSUME IInv, EndBlock, MaxProposals <= PageLimit
    PROVE  SettledAtBlockEnd'
<1> DEFINE g == GroupEndBlocker(Store)
           t == EndBlockers(Store)
<1>0. Sound(Store)
  BY StoreIsSound
<1>1. LoopInv(g, t, MaxProposals) /\ Sound(g)
  BY <1>0, EndBlockersKeep, Zenon
<1>2. \A i \in DOMAIN g.proposals :
         VotingEnded(g.proposals[i]) => g.proposals[i].status \in {"ACCEPTED", "REJECTED"}
  BY <1>0, GroupKeeps, Zenon
<1>3. Stores(t) /\ stage' = "begin"
  BY DEF EndBlock
<1> HIDE DEF g, t
<1>4. ASSUME NEW i \in DOMAIN t.proposals, VotingEnded(t.proposals[i])
      PROVE  \/ t.proposals[i].status = "REJECTED"
             \/ /\ t.proposals[i].status = "ACCEPTED"
                /\ t.proposals[i].result = "FAILURE"
  <2>1. /\ i \in DOMAIN g.proposals
        /\ t.proposals[i].age = g.proposals[i].age
        /\ t.proposals[i].status = g.proposals[i].status
    BY <1>1 DEF LoopInv
  <2>2. VotingEnded(g.proposals[i])
    BY <1>4, <2>1 DEF VotingEnded
  <2>3. g.proposals[i].status \in {"ACCEPTED", "REJECTED"}
    BY <1>2, <2>1, <2>2
  <2>4. CASE g.proposals[i].status = "ACCEPTED"
    <3>1. i \in Page(g)
      BY <1>1, <2>1, PageHoldsAll
    <3>2. i \in Nat /\ i <= MaxProposals
      BY <1>1, <2>1, CouncilAssumption DEF Sound, Ids
    <3>3. g.proposals[i].age >= VotingPeriod
      <4>1. g.proposals[i].age \in Nat
        BY <1>1, <2>1 DEF Sound, Proposal
      <4>. QED
        BY <2>2, <4>1, CouncilAssumption DEF VotingEnded
    <3>4. t.proposals[i].result = "FAILURE"
      BY <1>1, <2>4, <3>1, <3>2, <3>3 DEF LoopInv
    <3>. QED
      BY <2>1, <2>4, <3>4
  <2>. QED
    BY <2>1, <2>3, <2>4
<1>. QED
  BY <1>3, <1>4 DEF SettledAtBlockEnd, Stores

\* Between blocks no proposal whose voting has ended waits for its tally or its
\* first execution, whatever was executed by TRY before (module.go:144).
THEOREM EachBlockSettles ==
    ASSUME MaxProposals <= PageLimit
    PROVE  Spec => []SettledAtBlockEnd
<1>1. Init => SettledAtBlockEnd
  BY DEF Init, SettledAtBlockEnd
<1>2. IInv /\ SettledAtBlockEnd /\ [Next]_vars => SettledAtBlockEnd'
  <2> SUFFICES ASSUME IInv, SettledAtBlockEnd, [Next]_vars
               PROVE  SettledAtBlockEnd'
    OBVIOUS
  <2>1. CASE Transaction
    BY <2>1, TransactionIInv DEF SettledAtBlockEnd
  <2>2. CASE NextBlock
    BY <2>2 DEF NextBlock, SettledAtBlockEnd
  <2>3. CASE EndBlock
    BY <2>3, EndBlockSettles
  <2>4. CASE UNCHANGED vars
    BY <2>4 DEF vars, SettledAtBlockEnd
  <2>. QED
    BY <2>1, <2>2, <2>3, <2>4, Zenon DEF Next, Transaction
<1>. QED
  BY <1>1, <1>2, Invariance, PTL DEF Spec

-----------------------------------------------------------------------------
(* Without TRY and carried messages: nothing is early, and a failure is for *)
(* good.                                                                   *)

\* A proposal that was tried and failed would fail again.
FailedForGood ==
    \A i \in DOMAIN proposals :
        proposals[i].result = "FAILURE" =>
            \/ ExecutionEnded(proposals[i])
            \/ ~ OnboardAccepts(registry, proposals[i].message)

\* What a transaction may do to a proposal: nothing, withdraw it, or try it
\* after its voting period.
QuietChange(i) ==
    \/ /\ proposals'[i].status = "SUBMITTED"
       /\ proposals'[i].result = "NOT_RUN"
    \/ /\ i \in DOMAIN proposals
       /\ proposals'[i].age = proposals[i].age
       /\ proposals'[i].message = proposals[i].message
       /\ proposals'[i].result = proposals[i].result
       /\ proposals'[i].status \in {proposals[i].status, "WITHDRAWN"}
    \/ /\ i \in DOMAIN proposals
       /\ proposals'[i].age = proposals[i].age
       /\ proposals[i].status = "ACCEPTED"
       /\ proposals'[i].status = "ACCEPTED"
       /\ proposals'[i].age >= VotingPeriod
       /\ ~ Runs(Store', proposals'[i])

LEMMA TransactionIsQuiet ==
    ASSUME IInv, Transaction,
           ExecModes \subseteq {"UNSPECIFIED"}, ~ CarriedExec
    PROVE  /\ \A i \in DOMAIN proposals' : QuietChange(i)
           /\ \A e \in executions' : e \in executions \/ e.age >= VotingPeriod
           /\ DOMAIN registry \subseteq DOMAIN registry'
<1> DEFINE Quiet == /\ \A i \in DOMAIN proposals' : QuietChange(i)
                    /\ \A e \in executions' : e \in executions \/ e.age >= VotingPeriod
                    /\ DOMAIN registry \subseteq DOMAIN registry'
<1>1. ASSUME NEW member \in Members, NEW message \in Messages,
             NEW mode \in ExecModes, SubmitProposal(member, message, mode)
      PROVE  Quiet
  <2> DEFINE t == Submitted(member, message, mode)
  <2>1. lastId < MaxProposals /\ Stores(AfterExecMode(t, lastId + 1, mode))
    BY <1>1, Zenon DEF SubmitProposal, Submitted
  <2>2. AfterExecMode(t, lastId + 1, mode) = t
    BY DEF AfterExecMode
  <2>3. /\ DOMAIN t.proposals = DOMAIN proposals \cup {lastId + 1}
        /\ t.proposals[lastId + 1].status = "SUBMITTED"
        /\ t.proposals[lastId + 1].result = "NOT_RUN"
        /\ \A j \in DOMAIN proposals : t.proposals[j] = proposals[j]
        /\ t.registry = registry
        /\ t.executions = executions
    <3> HIDE DEF t
    <3>. QED
      BY <2>1, SubmittedIsSound DEF t
  <2> HIDE DEF t
  <2>4. proposals' = t.proposals /\ registry' = registry /\ executions' = executions
    BY <2>1, <2>2, <2>3 DEF Stores
  <2>. QED
    BY <2>3, <2>4 DEF QuietChange
<1>2. ASSUME NEW i \in Ids, NEW member \in Members, NEW option \in {"yes", "no"},
             NEW mode \in ExecModes, Vote(i, member, option, mode)
      PROVE  Quiet
  <2> DEFINE t == Voted(i, member, option)
  <2>1. i \in DOMAIN proposals /\ Stores(AfterExecMode(t, i, mode))
    BY <1>2, Zenon DEF Vote, Voted
  <2>2. AfterExecMode(t, i, mode) = t
    BY DEF AfterExecMode
  <2>3. /\ DOMAIN t.proposals = DOMAIN proposals
        /\ \A j \in DOMAIN proposals :
              /\ t.proposals[j].age = proposals[j].age
              /\ t.proposals[j].message = proposals[j].message
              /\ t.proposals[j].status = proposals[j].status
              /\ t.proposals[j].result = proposals[j].result
        /\ t.registry = registry
        /\ t.executions = executions
    <3> HIDE DEF t
    <3>. QED
      BY <2>1, VotedIsSound DEF t
  <2> HIDE DEF t
  <2>4. proposals' = t.proposals /\ registry' = registry /\ executions' = executions
    BY <2>1, <2>2, <2>3 DEF Stores
  <2>. QED
    BY <2>3, <2>4 DEF QuietChange
<1>3. ASSUME NEW i \in Ids, WithdrawProposal(i)
      PROVE  Quiet
  <2>1. /\ i \in DOMAIN proposals
        /\ proposals' = [proposals EXCEPT ![i].status = "WITHDRAWN"]
        /\ UNCHANGED <<registry, executions>>
    BY <1>3 DEF WithdrawProposal
  <2>2. ASSUME NEW j \in DOMAIN proposals'
        PROVE  QuietChange(j)
    <3>1. j \in DOMAIN proposals /\ proposals[j] \in Proposal
      BY <2>1 DEF IInv, TypeOK
    <3>2. CASE j = i
      BY <2>1, <3>1, <3>2 DEF QuietChange, Proposal
    <3>3. CASE j # i
      BY <2>1, <3>1, <3>3 DEF QuietChange
    <3>. QED
      BY <3>2, <3>3
  <2>. QED
    BY <2>1, <2>2
<1>4. ASSUME NEW i \in Ids, ExecProposal(i)
      PROVE  Quiet
  <2> DEFINE s == Store
             r == Exec(s, i)
  <2>0. /\ Sound(s)
        /\ s.proposals = proposals
        /\ s.registry = registry
        /\ s.executions = executions
    BY StoreIsSound
  <2>1. /\ i \in DOMAIN proposals
        /\ proposals[i].status = "ACCEPTED"
        /\ proposals[i].age >= VotingPeriod
        /\ Stores(r)
    BY <1>4 DEF ExecProposal, AnteAllows
  <2>2. i \in DOMAIN s.proposals
    BY <2>0, <2>1
  <2>3. /\ Sound(r)
        /\ DOMAIN r.proposals \subseteq DOMAIN s.proposals
        /\ \A j \in DOMAIN s.proposals \ {i} :
              j \in DOMAIN r.proposals /\ r.proposals[j] = s.proposals[j]
        /\ i \in DOMAIN r.proposals =>
              /\ r.proposals[i].age = s.proposals[i].age
              /\ r.proposals[i].message = s.proposals[i].message
        /\ s.proposals[i].status = "ACCEPTED" =>
              \/ i \notin DOMAIN r.proposals
              \/ /\ r.proposals[i].status = "ACCEPTED"
                 /\ r.proposals[i].result = "FAILURE"
                 /\ ~ Runs(r, r.proposals[i])
        /\ \A e \in r.executions :
              e \in s.executions \/ e.age = s.proposals[i].age
        /\ DOMAIN s.registry \subseteq DOMAIN r.registry
    BY <2>0, <2>2, ExecKeeps, Zenon
  <2> HIDE DEF s, r
  <2>4. /\ proposals' = r.proposals
        /\ registry' = r.registry
        /\ executions' = r.executions
    BY <2>1 DEF Stores
  <2>5. \A p : Runs(Store', p) = Runs(r, p)
    BY <2>4 DEF Runs, Store
  <2>6. ASSUME NEW j \in DOMAIN proposals'
        PROVE  QuietChange(j)
    <3>1. CASE j = i
      BY <2>0, <2>1, <2>3, <2>4, <2>5, <3>1 DEF QuietChange
    <3>2. CASE j # i
      BY <2>0, <2>3, <2>4, <3>2 DEF QuietChange
    <3>. QED
      BY <3>1, <3>2
  <2>7. ASSUME NEW e \in executions'
        PROVE  e \in executions \/ e.age >= VotingPeriod
    BY <2>0, <2>1, <2>3, <2>4
  <2>. QED
    BY <2>0, <2>3, <2>4, <2>6, <2>7
<1>5. \A i \in Ids : ~ ExecCarriedProposal(i)
  BY DEF ExecCarriedProposal
<1>. QED
  BY <1>1, <1>2, <1>3, <1>4, <1>5 DEF Transaction

TimeInv == VotingStaysOpen /\ NotBeforeVotingEnds

LEMMA TransactionTimeInv ==
    ASSUME IInv, TimeInv, Transaction,
           ExecModes \subseteq {"UNSPECIFIED"}, ~ CarriedExec
    PROVE  TimeInv'
<1>1. /\ \A i \in DOMAIN proposals' : QuietChange(i)
      /\ \A e \in executions' : e \in executions \/ e.age >= VotingPeriod
  BY TransactionIsQuiet
<1>2. ASSUME NEW i \in DOMAIN proposals',
             proposals'[i].status \in {"ACCEPTED", "REJECTED"}
      PROVE  VotingEnded(proposals'[i])
  <2>1. /\ i \in DOMAIN proposals
        /\ proposals'[i].age = proposals[i].age
        /\ proposals[i].status \in {"ACCEPTED", "REJECTED"}
    BY <1>1, <1>2 DEF QuietChange
  <2>2. VotingEnded(proposals[i])
    BY <2>1 DEF TimeInv, VotingStaysOpen
  <2>. QED
    BY <2>1, <2>2 DEF VotingEnded
<1>. QED
  BY <1>1, <1>2 DEF TimeInv, VotingStaysOpen, NotBeforeVotingEnds

LEMMA EndBlockTimeInv ==
    ASSUME IInv, TimeInv, EndBlock
    PROVE  TimeInv'
<1> DEFINE s == Store
           g == GroupEndBlocker(s)
           t == EndBlockers(s)
<1>0. Sound(s) /\ s.proposals = proposals /\ s.executions = executions
  BY StoreIsSound
<1>1. LoopInv(g, t, MaxProposals)
  BY <1>0, EndBlockersKeep, Zenon
<1>2. /\ g.executions = s.executions
      /\ DOMAIN g.proposals \subseteq DOMAIN s.proposals
      /\ \A i \in DOMAIN g.proposals :
            ~ VotingEnded(g.proposals[i]) => g.proposals[i] = s.proposals[i]
  BY <1>0, GroupKeeps, Zenon
<1>3. proposals' = t.proposals /\ executions' = t.executions
  BY DEF EndBlock, Stores
<1> HIDE DEF g, t, s
<1>4. ASSUME NEW i \in DOMAIN proposals',
             proposals'[i].status \in {"ACCEPTED", "REJECTED"}
      PROVE  VotingEnded(proposals'[i])
  <2>1. /\ i \in DOMAIN g.proposals
        /\ proposals'[i].age = g.proposals[i].age
        /\ g.proposals[i].status \in {"ACCEPTED", "REJECTED"}
    BY <1>1, <1>3, <1>4 DEF LoopInv
  <2>2. VotingEnded(g.proposals[i])
    <3>1. CASE g.proposals[i] = proposals[i]
      BY <1>0, <1>2, <2>1, <3>1 DEF TimeInv, VotingStaysOpen
    <3>2. CASE g.proposals[i] # proposals[i]
      BY <1>0, <1>2, <2>1, <3>2
    <3>. QED
      BY <3>1, <3>2
  <2>. QED
    BY <2>1, <2>2 DEF VotingEnded
<1>5. ASSUME NEW e \in executions'
      PROVE  e.age >= VotingPeriod
  BY <1>0, <1>1, <1>2, <1>3 DEF LoopInv, TimeInv, NotBeforeVotingEnds
<1>. QED
  BY <1>4, <1>5 DEF TimeInv, VotingStaysOpen, NotBeforeVotingEnds

LEMMA NextBlockTimeInv ==
    ASSUME IInv, TimeInv, NextBlock
    PROVE  TimeInv'
<1>1. PICK d \in 1..MaxStep :
         proposals' = [i \in DOMAIN proposals |-> [proposals[i] EXCEPT !.age = @ + d]]
  BY DEF NextBlock
<1>2. d \in Nat
  BY CouncilAssumption
<1>3. ASSUME NEW i \in DOMAIN proposals',
             proposals'[i].status \in {"ACCEPTED", "REJECTED"}
      PROVE  VotingEnded(proposals'[i])
  <2>1. i \in DOMAIN proposals /\ proposals[i] \in Proposal
    BY <1>1 DEF IInv, TypeOK
  <2>2. /\ proposals'[i].age = proposals[i].age + d
        /\ proposals'[i].status = proposals[i].status
        /\ proposals[i].age \in Nat
    BY <1>1, <2>1 DEF Proposal
  <2>3. VotingEnded(proposals[i])
    BY <1>3, <2>1, <2>2 DEF TimeInv, VotingStaysOpen
  <2>. QED
    BY <1>2, <2>2, <2>3, CouncilAssumption DEF VotingEnded
<1>. QED
  BY <1>3 DEF NextBlock, TimeInv, VotingStaysOpen, NotBeforeVotingEnds

LEMMA TimeInvariance ==
    ASSUME ExecModes \subseteq {"UNSPECIFIED"}, ~ CarriedExec
    PROVE  Spec => []TimeInv
<1>1. Init => TimeInv
  BY DEF Init, TimeInv, VotingStaysOpen, NotBeforeVotingEnds
<1>2. IInv /\ TimeInv /\ [Next]_vars => TimeInv'
  <2> SUFFICES ASSUME IInv, TimeInv, [Next]_vars
               PROVE  TimeInv'
    OBVIOUS
  <2>1. CASE Transaction
    BY <2>1, TransactionTimeInv
  <2>2. CASE NextBlock
    BY <2>2, NextBlockTimeInv
  <2>3. CASE EndBlock
    BY <2>3, EndBlockTimeInv
  <2>4. CASE UNCHANGED vars
    BY <2>4 DEF vars, TimeInv, VotingStaysOpen, NotBeforeVotingEnds
  <2>. QED
    BY <2>1, <2>2, <2>3, <2>4, Zenon DEF Next, Transaction
<1>. QED
  BY <1>1, <1>2, Invariance, PTL DEF Spec

\* Without TRY and a carried MsgExec no tally is taken while members may vote,
\* although the last instant of voting is the first at which a MsgExec meets its
\* time test (group_proposal_timing.go:53).
THEOREM VotingAlwaysStaysOpen ==
    ASSUME ExecModes \subseteq {"UNSPECIFIED"}, ~ CarriedExec
    PROVE  Spec => []VotingStaysOpen
<1>1. TimeInv => VotingStaysOpen
  BY DEF TimeInv
<1>. QED
  BY <1>1, TimeInvariance, PTL

\* Without TRY and a carried MsgExec no message runs before the voting period of
\* its proposal ends (GROUP_PROPOSAL_TIMING.md:5); that it takes these
\* assumptions is the point of the run that finds TRY executing early.
THEOREM NothingRunsEarly ==
    ASSUME ExecModes \subseteq {"UNSPECIFIED"}, ~ CarriedExec
    PROVE  Spec => []NotBeforeVotingEnds
<1>1. TimeInv => NotBeforeVotingEnds
  BY DEF TimeInv
<1>. QED
  BY <1>1, TimeInvariance, PTL

\* A message that did not run when it was due, never will.
LEMMA NotRunningIsForGood ==
    ASSUME NEW s, NEW p, ~ Runs(s, p), p.age >= VotingPeriod, p.age \in Nat,
           MinExecutionPeriod <= VotingPeriod
    PROVE  ExecutionEnded(p) \/ ~ OnboardAccepts(s.registry, p.message)
<1>1. p.age >= MinExecutionPeriod
  BY CouncilAssumption
<1>. QED
  BY <1>1 DEF Runs

LEMMA TransactionFailures ==
    ASSUME IInv, FailedForGood, Transaction,
           ExecModes \subseteq {"UNSPECIFIED"}, ~ CarriedExec,
           MinExecutionPeriod <= VotingPeriod
    PROVE  FailedForGood'
<1>1. /\ \A i \in DOMAIN proposals' : QuietChange(i)
      /\ DOMAIN registry \subseteq DOMAIN registry'
  BY TransactionIsQuiet
<1>2. Store'.registry = registry' /\ TypeOK'
  BY TransactionIInv DEF Store, IInv
<1>3. ASSUME NEW i \in DOMAIN proposals', proposals'[i].result = "FAILURE"
      PROVE  \/ ExecutionEnded(proposals'[i])
             \/ ~ OnboardAccepts(registry', proposals'[i].message)
  <2>1. proposals'[i].age \in Nat
    BY <1>2 DEF TypeOK, Proposal
  <2>2. CASE /\ i \in DOMAIN proposals
             /\ proposals'[i].age = proposals[i].age
             /\ proposals'[i].message = proposals[i].message
             /\ proposals[i].result = "FAILURE"
    <3>1. \/ ExecutionEnded(proposals[i])
          \/ ~ OnboardAccepts(registry, proposals[i].message)
      BY <2>2 DEF FailedForGood
    <3>. QED
      BY <1>1, <2>2, <3>1 DEF ExecutionEnded, OnboardAccepts
  <2>3. CASE proposals'[i].age >= VotingPeriod /\ ~ Runs(Store', proposals'[i])
    <3> DEFINE s == Store'
               p == proposals'[i]
    <3>1. s.registry = registry'
      BY <1>2
    <3>2. ~ Runs(s, p) /\ p.age >= VotingPeriod /\ p.age \in Nat
      BY <2>1, <2>3
    <3> HIDE DEF s, p
    <3>3. ExecutionEnded(p) \/ ~ OnboardAccepts(s.registry, p.message)
      BY <3>2, NotRunningIsForGood
    <3>. QED
      BY <3>1, <3>3 DEF p
  <2>. QED
    BY <1>1, <1>3, <2>2, <2>3 DEF QuietChange
<1>. QED
  BY <1>3 DEF FailedForGood

LEMMA EndBlockFailures ==
    ASSUME IInv, FailedForGood, EndBlock, MinExecutionPeriod <= VotingPeriod
    PROVE  FailedForGood'
<1> DEFINE s == Store
           g == GroupEndBlocker(s)
           t == EndBlockers(s)
<1>0. Sound(s) /\ s.proposals = proposals /\ s.registry = registry
  BY StoreIsSound
<1>1. LoopInv(g, t, MaxProposals)
  BY <1>0, EndBlockersKeep, Zenon
<1>2. /\ g.registry = s.registry
      /\ DOMAIN g.proposals \subseteq DOMAIN s.proposals
      /\ \A i \in DOMAIN g.proposals :
            /\ g.proposals[i].age = s.proposals[i].age
            /\ g.proposals[i].message = s.proposals[i].message
            /\ g.proposals[i].result = s.proposals[i].result
  BY <1>0, GroupKeeps, Zenon
<1>3. proposals' = t.proposals /\ registry' = t.registry
  BY DEF EndBlock, Stores
<1> HIDE DEF g, t, s
<1>4. ASSUME NEW i \in DOMAIN proposals', proposals'[i].result = "FAILURE"
      PROVE  \/ ExecutionEnded(proposals'[i])
             \/ ~ OnboardAccepts(registry', proposals'[i].message)
  <2> DEFINE p == t.proposals[i]
  <2>1. /\ i \in DOMAIN proposals
        /\ i \in DOMAIN g.proposals
        /\ p.age = proposals[i].age
        /\ p.message = proposals[i].message
        /\ DOMAIN registry \subseteq DOMAIN t.registry
        /\ p.age \in Nat
    BY <1>0, <1>1, <1>2, <1>3, <1>4 DEF LoopInv, Sound, Proposal
  <2>2. \/ proposals[i].result = "FAILURE"
        \/ p.age >= VotingPeriod /\ ~ Runs(t, p)
    BY <1>0, <1>1, <1>2, <1>3, <1>4, <2>1 DEF LoopInv
  <2> HIDE DEF p
  <2>3. CASE proposals[i].result = "FAILURE"
    <3>1. \/ ExecutionEnded(proposals[i])
          \/ ~ OnboardAccepts(registry, proposals[i].message)
      BY <2>1, <2>3 DEF FailedForGood
    <3>2. ExecutionEnded(p) \/ ~ OnboardAccepts(t.registry, p.message)
      BY <2>1, <3>1 DEF ExecutionEnded, OnboardAccepts
    <3>. QED
      BY <1>3, <3>2 DEF p
  <2>4. CASE p.age >= VotingPeriod /\ ~ Runs(t, p)
    <3>1. ExecutionEnded(p) \/ ~ OnboardAccepts(t.registry, p.message)
      BY <2>1, <2>4, NotRunningIsForGood
    <3>. QED
      BY <1>3, <3>1 DEF p
  <2>. QED
    BY <2>2, <2>3, <2>4
<1>. QED
  BY <1>4 DEF FailedForGood

LEMMA NextBlockFailures ==
    ASSUME IInv, FailedForGood, NextBlock
    PROVE  FailedForGood'
<1>1. PICK d \in 1..MaxStep :
         proposals' = [i \in DOMAIN proposals |-> [proposals[i] EXCEPT !.age = @ + d]]
  BY DEF NextBlock
<1>2. d \in Nat /\ registry' = registry
  BY CouncilAssumption DEF NextBlock
<1>3. ASSUME NEW i \in DOMAIN proposals', proposals'[i].result = "FAILURE"
      PROVE  \/ ExecutionEnded(proposals'[i])
             \/ ~ OnboardAccepts(registry', proposals'[i].message)
  <2>1. i \in DOMAIN proposals /\ proposals[i] \in Proposal
    BY <1>1 DEF IInv, TypeOK
  <2>2. /\ proposals'[i].age = proposals[i].age + d
        /\ proposals'[i].message = proposals[i].message
        /\ proposals'[i].result = proposals[i].result
        /\ proposals[i].age \in Nat
    BY <1>1, <2>1 DEF Proposal
  <2>3. \/ ExecutionEnded(proposals[i])
        \/ ~ OnboardAccepts(registry, proposals[i].message)
    BY <1>3, <2>1, <2>2 DEF FailedForGood
  <2>4. ExecutionEnded(proposals[i]) => ExecutionEnded(proposals'[i])
    BY <1>2, <2>2, CouncilAssumption DEF ExecutionEnded
  <2>. QED
    BY <1>2, <2>2, <2>3, <2>4
<1>. QED
  BY <1>3 DEF FailedForGood

LEMMA FailuresInvariance ==
    ASSUME ExecModes \subseteq {"UNSPECIFIED"}, ~ CarriedExec,
           MinExecutionPeriod <= VotingPeriod
    PROVE  Spec => []FailedForGood
<1>1. Init => FailedForGood
  BY DEF Init, FailedForGood
<1>2. IInv /\ FailedForGood /\ [Next]_vars => FailedForGood'
  <2> SUFFICES ASSUME IInv, FailedForGood, [Next]_vars
               PROVE  FailedForGood'
    OBVIOUS
  <2>1. CASE Transaction
    BY <2>1, TransactionFailures
  <2>2. CASE NextBlock
    BY <2>2, NextBlockFailures
  <2>3. CASE EndBlock
    BY <2>3, EndBlockFailures
  <2>4. CASE UNCHANGED vars
    BY <2>4 DEF vars, FailedForGood
  <2>. QED
    BY <2>1, <2>2, <2>3, <2>4, Zenon DEF Next, Transaction
<1>. QED
  BY <1>1, <1>2, Invariance, PTL DEF Spec

\* Between blocks no accepted proposal is left that would run, so that it does
\* no harm that the end blocker skips what has failed before (module.go:206);
\* the assumptions on the page and the minimum execution period are needed, as
\* the runs council_page and council_no_retry show.
THEOREM AcceptedAreExecutedWhenDue ==
    ASSUME ExecModes \subseteq {"UNSPECIFIED"}, ~ CarriedExec,
           MinExecutionPeriod <= VotingPeriod,
           MaxProposals <= PageLimit
    PROVE  Spec => []ExecutedWhenDue
<1>1. IInv /\ VotingStaysOpen /\ SettledAtBlockEnd /\ FailedForGood => ExecutedWhenDue
  <2> SUFFICES ASSUME IInv, VotingStaysOpen, SettledAtBlockEnd, FailedForGood,
                      stage = "begin", NEW i \in DOMAIN proposals,
                      proposals[i].status = "ACCEPTED", Runs(Store, proposals[i])
               PROVE  FALSE
    BY DEF ExecutedWhenDue
  <2>1. proposals[i].result = "FAILURE"
    BY DEF VotingStaysOpen, SettledAtBlockEnd
  <2>. QED
    BY <2>1, StoreIsSound DEF FailedForGood, Runs
<1>. QED
  BY <1>1, Invariance, VotingAlwaysStaysOpen, EachBlockSettles, FailuresInvariance, PTL

=============================================================================
