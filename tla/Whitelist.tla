------------------------------ MODULE Whitelist ------------------------------
(***************************************************************************)
(* The validator registry of x/validatorregistry as a value: a map from    *)
(* index to entry, with what its messages, its genesis and its readers do  *)
(* to it.  A string the code only tests for being empty is "" or anything  *)
(* else; an operator address is well formed when it is in Operators.  The  *)
(* consensus key and the end of the term are stored and never read, and    *)
(* are left out.                                                           *)
(***************************************************************************)
EXTENDS Naturals, Sequences, FiniteSets

CONSTANTS
    Operators,  \* well-formed validator operator addresses
    Messages,   \* the MsgOnboardValidator there may be
    Authority   \* the group policy address in app_config.go

MessageType == [creator : STRING, index : STRING, member : STRING,
                operator : STRING, status : STRING]

ASSUME WhitelistAssumption ==
    /\ Messages \subseteq MessageType
    /\ "" \notin Operators

Indexes == {m.index : m \in Messages}

EntryOf(m) == [member |-> m.member, operator |-> m.operator, status |-> m.status]

Entries == {EntryOf(m) : m \in Messages}

\* The registries there may be.
Registries == UNION {[I -> Entries] : I \in SUBSET Indexes}

\* A faulty variant, rejected by a run: an index in use is not refused.
OnboardOverwrites(reg, m) ==
    /\ m.creator = Authority
    /\ \A f \in {"index", "member", "operator", "status"} : m[f] # ""
    /\ m.operator \in Operators

\* The checks of OnboardValidator.
OnboardAccepts(reg, m) ==
    /\ m.creator = Authority
    /\ \A f \in {"index", "member", "operator", "status"} : m[f] # ""
    /\ m.index \notin DOMAIN reg
    /\ m.operator \in Operators

\* A faulty variant: the entry is stored under the operator's address.
OnboardedByOperator(reg, m) ==
    [i \in DOMAIN reg \cup {m.operator} |->
        IF i = m.operator THEN EntryOf(m) ELSE reg[i]]

\* The message is stored under its index.
Onboarded(reg, m) ==
    [i \in DOMAIN reg \cup {m.index} |->
        IF i = m.index THEN EntryOf(m) ELSE reg[i]]

\* A faulty variant: a registry with no entries lets everyone pass.
WhitelistedIfAny(reg, operator) ==
    \/ DOMAIN reg = {}
    \/ \E i \in DOMAIN reg : reg[i].operator = operator

\* IsValidatorWhitelisted walks the map for the operator address and looks at
\* nothing else in an entry.
IsValidatorWhitelisted(reg, operator) ==
    \E i \in DOMAIN reg : reg[i].operator = operator

\* InitGenesis sets the entries in order, so the last of an index stays.
\* Starting the chain does not call the genesis state's Validate.
LoadedFrom(list) ==
    LET Last(i) == CHOOSE k \in DOMAIN list :
                      /\ list[k].index = i
                      /\ \A j \in (k + 1)..Len(list) : list[j].index # i
    IN  [i \in {list[k].index : k \in DOMAIN list} |-> EntryOf(list[Last(i)])]

\* ExportGenesis walks the map, each index once.
ExportsOf(reg) ==
    LET Listed(i) == [index    |-> i,
                      member   |-> reg[i].member,
                      operator |-> reg[i].operator,
                      status   |-> reg[i].status]
        n == Cardinality(DOMAIN reg)
    IN  {[k \in 1..n |-> Listed(order[k])] :
            order \in {o \in [1..n -> DOMAIN reg] :
                         \A i \in DOMAIN reg : \E k \in 1..n : o[k] = i}}

=============================================================================
