--------------------------- MODULE WhitelistProofs ---------------------------
(***************************************************************************)
(* Lemmas about the registry as a value, for every set of messages and     *)
(* operators: what a genesis list loads, an export and a message change.   *)
(***************************************************************************)
EXTENDS Whitelist, FiniteSetTheorems, WellFoundedInduction, TLAPS

\* A non-empty set of numbers has a least one.
LEMMA LeastNumber ==
    ASSUME NEW S \in SUBSET Nat, S # {}
    PROVE  \E d \in S : \A e \in S : ~ (e < d)
<1> DEFINE R == OpToRel(<, Nat)
<1>1. PICK d \in S : \A e \in S : <<e, d>> \notin R
  <2> HIDE DEF R
  <2>1. IsWellFoundedOn(R, Nat)
    BY NatLessThanWellFounded DEF R
  <2>. QED
    BY <2>1, WFMin
<1>. QED
  BY <1>1 DEF OpToRel

\* A set of positions has a last one.
LEMMA LastPosition ==
    ASSUME NEW n \in Nat, NEW T \in SUBSET (1..n), T # {}
    PROVE  \E k \in T : \A j \in T : j <= k
<1> DEFINE D == {n - t : t \in T}
<1>1. \A t \in T : t \in Int /\ 1 <= t /\ t <= n
  OBVIOUS
<1>2. D \subseteq Nat /\ D # {}
  <2>1. \A t \in T : n - t \in Nat
    BY <1>1
  <2>. QED
    BY <2>1
<1>3. PICK d \in D : \A e \in D : ~ (e < d)
  <2> HIDE DEF D
  <2>. QED
    BY <1>2, LeastNumber
<1>4. PICK k \in T : d = n - k
  OBVIOUS
<1>5. ASSUME NEW j \in T
      PROVE  j <= k
  <2>1. ~ (n - j < n - k)
    BY <1>3, <1>4
  <2>. QED
    BY <1>1, <2>1
<1>. QED
  BY <1>5

\* The entry under a listed index is that of its last listing.
LEMMA LoadedEntry ==
    ASSUME NEW n \in Nat, NEW list, DOMAIN list = 1..n, Len(list) = n,
           NEW i \in {list[k].index : k \in DOMAIN list}
    PROVE  \E k \in 1..n : /\ list[k].index = i
                           /\ LoadedFrom(list)[i] = EntryOf(list[k])
<1> DEFINE T == {k \in 1..n : list[k].index = i}
           IsLast(k) == /\ list[k].index = i
                        /\ \A j \in (k + 1)..Len(list) : list[j].index # i
<1>1. PICK m \in T : \A j \in T : j <= m
  <2>1. T # {} /\ T \in SUBSET (1..n)
    OBVIOUS
  <2>. QED
    BY <2>1, LastPosition
<1>2. IsLast(m)
  BY <1>1
<1> DEFINE c == CHOOSE k \in DOMAIN list : IsLast(k)
<1>3. c \in 1..n /\ IsLast(c)
  BY <1>2
<1>4. LoadedFrom(list)[i] = EntryOf(list[c])
  BY DEF LoadedFrom
<1>. QED
  BY <1>3, <1>4

\* What a genesis list loads is a finite registry.
LEMMA LoadedIsRegistry ==
    ASSUME NEW list \in Seq(Messages)
    PROVE  /\ LoadedFrom(list) \in Registries
           /\ IsFiniteSet(DOMAIN LoadedFrom(list))
<1> DEFINE I == {list[k].index : k \in DOMAIN list}
<1>1. PICK n \in Nat : list \in [1..n -> Messages]
  <2>1. /\ Len(list) \in Nat
        /\ list \in [1..Len(list) -> Messages]
    OBVIOUS
  <2>. QED
    BY <2>1
<1>2. DOMAIN list = 1..n /\ Len(list) = n
  BY <1>1
<1>3. DOMAIN LoadedFrom(list) = I
  BY DEF LoadedFrom
<1>4. I \in SUBSET Indexes
  BY <1>1, <1>2 DEF Indexes
<1>5. ASSUME NEW i \in I
      PROVE  LoadedFrom(list)[i] \in Entries
  <2>1. PICK k \in 1..n : LoadedFrom(list)[i] = EntryOf(list[k])
    BY <1>2, LoadedEntry
  <2>2. list[k] \in Messages
    BY <1>1
  <2>. QED
    BY <2>1, <2>2 DEF Entries
<1>6. LoadedFrom(list) \in [I -> Entries]
  BY <1>3, <1>5 DEF LoadedFrom
<1>7. IsFiniteSet(I)
  <2> DEFINE f == [k \in 1..n |-> list[k].index]
  <2>1. IsFiniteSet(1..n)
    BY FS_Interval
  <2>2. f \in Surjection(1..n, I)
    BY <1>2 DEF Surjection
  <2>. QED
    BY <2>1, <2>2, FS_Surjection
<1>. QED
  BY <1>3, <1>4, <1>6, <1>7 DEF Registries

\* An operator that a list has and what it loads has not is in entries that
\* later ones of the same index overwrite.
LEMMA UnlistedIsOverwritten ==
    ASSUME NEW list \in Seq(Messages), NEW op,
           ~ IsValidatorWhitelisted(LoadedFrom(list), op),
           NEW k \in DOMAIN list, list[k].operator = op
    PROVE  \E j \in (k + 1)..Len(list) : list[j].index = list[k].index
<1> DEFINE i == list[k].index
           IsLast(j) == /\ list[j].index = i
                        /\ \A l \in (j + 1)..Len(list) : list[l].index # i
<1>1. SUFFICES ASSUME IsLast(k)
               PROVE  FALSE
  OBVIOUS
<1>2. Len(list) \in Nat /\ DOMAIN list = 1..Len(list)
  OBVIOUS
<1> DEFINE c == CHOOSE j \in DOMAIN list : IsLast(j)
<1>3. c \in DOMAIN list /\ IsLast(c)
  BY <1>1
<1>4. i \in DOMAIN LoadedFrom(list) /\ LoadedFrom(list)[i] = EntryOf(list[c])
  BY DEF LoadedFrom
<1> HIDE DEF c
<1>5. c = k
  <2>1. c \in Nat /\ k \in Nat /\ c \in 1..Len(list) /\ k \in 1..Len(list)
    BY <1>2, <1>3
  <2>2. ~ (c < k)
    <3>1. c < k => k \in (c + 1)..Len(list)
      BY <1>2, <2>1
    <3>. QED
      BY <1>3, <3>1
  <2>3. ~ (k < c)
    <3>1. k < c => c \in (k + 1)..Len(list)
      BY <1>2, <2>1
    <3>. QED
      BY <1>1, <1>3, <3>1
  <2>. QED
    BY <2>1, <2>2, <2>3
<1>6. LoadedFrom(list)[i].operator = op
  <2>1. EntryOf(list[c]).operator = list[c].operator
    BY DEF EntryOf
  <2>. QED
    BY <1>4, <1>5, <2>1
<1>. QED
  BY <1>4, <1>6 DEF IsValidatorWhitelisted

\* An export, read back, is the registry it was taken from.
LEMMA ExportRoundTrip ==
    ASSUME NEW reg \in Registries, IsFiniteSet(DOMAIN reg),
           NEW list \in ExportsOf(reg)
    PROVE  LoadedFrom(list) = reg
<1> DEFINE n == Cardinality(DOMAIN reg)
           Listed(i) == [index    |-> i,
                         member   |-> reg[i].member,
                         operator |-> reg[i].operator,
                         status   |-> reg[i].status]
<1>1. n \in Nat
  BY FS_CardinalityType
<1>2. PICK order \in [1..n -> DOMAIN reg] :
         /\ \A i \in DOMAIN reg : \E k \in 1..n : order[k] = i
         /\ list = [k \in 1..n |-> Listed(order[k])]
  BY DEF ExportsOf
<1> HIDE DEF n
<1>3. /\ DOMAIN list = 1..n
      /\ \A k \in 1..n : list[k] = Listed(order[k])
  BY <1>2
<1>4. Len(list) = n
  BY <1>1, <1>2
<1>5. {list[k].index : k \in DOMAIN list} = DOMAIN reg
  <2>1. \A k \in 1..n : list[k].index = order[k]
    BY <1>3
  <2>2. ASSUME NEW k \in DOMAIN list
        PROVE  list[k].index \in DOMAIN reg
    <3>1. k \in 1..n
      BY <1>3
    <3>2. order[k] \in DOMAIN reg
      BY <3>1
    <3>. QED
      BY <2>1, <3>1, <3>2
  <2>3. ASSUME NEW i \in DOMAIN reg
        PROVE  \E k \in DOMAIN list : i = list[k].index
    <3>1. PICK k \in 1..n : order[k] = i
      BY <1>2
    <3>. QED
      BY <1>3, <2>1, <3>1
  <2>. QED
    BY <2>2, <2>3
<1>6. ASSUME NEW i \in DOMAIN reg
      PROVE  LoadedFrom(list)[i] = reg[i]
  <2>1. PICK k \in 1..n : /\ list[k].index = i
                          /\ LoadedFrom(list)[i] = EntryOf(list[k])
    <3>1. i \in {list[k].index : k \in DOMAIN list}
      BY <1>5
    <3>2. DOMAIN list = 1..n
      BY <1>3
    <3> HIDE DEF Listed
    <3>. QED
      BY ONLY <1>1, <1>4, <3>1, <3>2, LoadedEntry
  <2>2. EntryOf(list[k]) = [member   |-> reg[i].member,
                            operator |-> reg[i].operator,
                            status   |-> reg[i].status]
    BY <1>3, <2>1 DEF EntryOf
  <2>3. reg[i] \in Entries
    BY DEF Registries
  <2>. QED
    BY <2>1, <2>2, <2>3 DEF Entries, EntryOf
<1>. QED
  BY <1>5, <1>6 DEF LoadedFrom, Registries

\* An onboarding adds one entry and keeps the others.
LEMMA OnboardedKeeps ==
    ASSUME NEW reg \in Registries, NEW m \in Messages, OnboardAccepts(reg, m)
    PROVE  /\ Onboarded(reg, m) \in Registries
           /\ DOMAIN Onboarded(reg, m) = DOMAIN reg \cup {m.index}
           /\ Onboarded(reg, m)[m.index] = EntryOf(m)
           /\ \A i \in DOMAIN reg : Onboarded(reg, m)[i] = reg[i]
<1>1. DOMAIN Onboarded(reg, m) = DOMAIN reg \cup {m.index}
  BY DEF Onboarded
<1>2. m.index \notin DOMAIN reg
  BY DEF OnboardAccepts
<1>3. /\ DOMAIN reg \cup {m.index} \in SUBSET Indexes
      /\ EntryOf(m) \in Entries
      /\ \A i \in DOMAIN reg : reg[i] \in Entries
  BY DEF Registries, Indexes, Entries
<1>4. Onboarded(reg, m) \in [DOMAIN reg \cup {m.index} -> Entries]
  BY <1>3 DEF Onboarded
<1>5. \A i \in DOMAIN reg : Onboarded(reg, m)[i] = reg[i]
  BY <1>2 DEF Onboarded
<1>6. Onboarded(reg, m)[m.index] = EntryOf(m)
  BY DEF Onboarded
<1>. QED
  BY <1>1, <1>3, <1>4, <1>5, <1>6 DEF Registries

=============================================================================
