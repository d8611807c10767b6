------------------------------- MODULE Council -------------------------------
(***************************************************************************)
(* The council: proposals of one x/group policy with a threshold, the ante *)
(* decorator that delays their execution, the end blocker of               *)
(* x/validatorregistry that executes them, and the registry their messages *)
(* change.  x/group is external and modelled as the code uses it.          *)
(*                                                                         *)
(* A proposal's `age` is the block time minus its submit time; only        *)
(* differences of the two are ever compared.  Every member has weight 1.   *)
(* A transaction that fails changes nothing, so it is a stuttering step    *)
(* and every handler's early return is a guard.                            *)
(***************************************************************************)
EXTENDS Whitelist

CONSTANTS
    Members,             \* the council
    Threshold,           \* of the policy: 2 for the council of three
    VotingPeriod,        \* of the policy, from submission
    MinExecutionPeriod,  \* of the policy, from submission
    MaxExecutionPeriod,  \* of x/group, from the end of the voting period
    PageLimit,           \* the proposals a query without a page request returns
    ExecModes,           \* the exec field of a submission or a vote
    CarriedExec,         \* whether a MsgExec comes inside an authz MsgExec too
    GenesisLists,        \* the registry's entries a genesis may list
    MaxProposals,        \* bound: the proposals ever submitted
    MaxStep              \* bound: the time between two blocks

ASSUME CouncilAssumption ==
    /\ IsFiniteSet(Members)
    /\ Threshold \in Nat \ {0}
    /\ VotingPeriod \in Nat
    /\ MinExecutionPeriod \in Nat
    /\ MaxExecutionPeriod \in Nat
    /\ PageLimit \in Nat
    /\ ExecModes \subseteq {"UNSPECIFIED", "TRY"}
    /\ CarriedExec \in BOOLEAN
    /\ GenesisLists \subseteq Seq(Messages)
    /\ MaxProposals \in Nat
    /\ MaxStep \in Nat

VARIABLES
    proposals,   \* the proposals in x/group's store, by id
    lastId,      \* the id of the last submission
    registry,    \* the validator registry
    executions,  \* history: what was executed, and at what age
    stage        \* "begin" before a block, "deliver" while it delivers

vars == <<proposals, lastId, registry, executions, stage>>

Ids == 1..MaxProposals
Statuses == {"SUBMITTED", "ACCEPTED", "REJECTED", "WITHDRAWN"}

Proposal == [message  : Messages,
             age      : Nat,
             status   : Statuses,
             result   : {"NOT_RUN", "FAILURE"},
             proposer : Members,
             yes      : SUBSET Members,   \* kept after the tally, as a history
             no       : SUBSET Members]

Execution == [id : Ids, age : Nat, message : Messages]

\* The state a handler works on.
Store == [proposals |-> proposals, registry |-> registry, executions |-> executions]

Stores(s) == /\ proposals' = s.proposals
             /\ registry' = s.registry
             /\ executions' = s.executions

Pruned(s, ids) ==
    [s EXCEPT !.proposals = [i \in DOMAIN @ \ ids |-> @[i]]]

-----------------------------------------------------------------------------
(* x/group. *)

VotingEnded(p) == p.age > VotingPeriod
ExecutionEnded(p) == p.age > VotingPeriod + MaxExecutionPeriod

\* The threshold policy with the tally, and what a tally leaves the status.
RealThreshold == IF Threshold < Cardinality(Members)
                 THEN Threshold ELSE Cardinality(Members)
Passes(p) == Cardinality(p.yes) >= RealThreshold
CannotPass(p) == Cardinality(Members \ p.no) < RealThreshold

Tallied(p) ==
    IF p.status # "SUBMITTED" THEN p
    ELSE IF Passes(p) THEN [p EXCEPT !.status = "ACCEPTED"]
    ELSE IF CannotPass(p) \/ VotingEnded(p) THEN [p EXCEPT !.status = "REJECTED"]
    ELSE p

\* Whether the messages of a proposal run: time window and handler.
Runs(s, p) ==
    /\ p.age >= MinExecutionPeriod
    /\ ~ ExecutionEnded(p)
    /\ OnboardAccepts(s.registry, p.message)

ExecAllowed(s, i) ==
    /\ i \in DOMAIN s.proposals
    /\ s.proposals[i].status \in {"SUBMITTED", "ACCEPTED"}

\* Keeper.Exec.  Messages run in a cached context, so a failure leaves no more
\* than its result; a success takes the proposal out of the store.
Exec(s, i) ==
    LET p == Tallied(s.proposals[i])
    IN  CASE p.status = "ACCEPTED" /\ Runs(s, p) ->
                 Pruned([s EXCEPT
                           !.registry = Onboarded(@, p.message),
                           !.executions = @ \cup
                               {[id |-> i, age |-> p.age, message |-> p.message]}], {i})
          [] p.status = "ACCEPTED" /\ ~ Runs(s, p) ->
                 [s EXCEPT !.proposals[i] = [p EXCEPT !.result = "FAILURE"]]
          [] p.status # "ACCEPTED" ->
                 [s EXCEPT !.proposals[i] = p]

\* What a submission or a vote does with its exec field.
AfterExecMode(s, i, mode) == IF mode = "TRY" THEN Exec(s, i) ELSE s

TallyProposalsAtVPEnd(s) ==
    LET ended == {i \in DOMAIN s.proposals : VotingEnded(s.proposals[i])}
    IN  Pruned([s EXCEPT !.proposals =
                  [i \in DOMAIN @ |-> IF i \in ended THEN Tallied(@[i]) ELSE @[i]]],
               {i \in ended : s.proposals[i].status = "WITHDRAWN"})

PruneProposals(s) ==
    Pruned(s, {i \in DOMAIN s.proposals : ExecutionEnded(s.proposals[i])})

GroupEndBlocker(s) == PruneProposals(TallyProposalsAtVPEnd(s))

-----------------------------------------------------------------------------
(* The end blocker of x/validatorregistry. *)

\* The proposals the query returns: the first page, in the order of their ids.
Page(s) == {i \in DOMAIN s.proposals :
               Cardinality({j \in DOMAIN s.proposals : j < i}) < PageLimit}

\* A faulty variant, rejected by a run: NOT_RUN is skipped with the rest.
ReadyIfTried(snapshot, s, i) ==
    /\ i \in Page(snapshot)
    /\ snapshot.proposals[i].age >= VotingPeriod
    /\ snapshot.proposals[i].result = "FAILURE"
    /\ i \in DOMAIN s.proposals
    /\ s.proposals[i].status = "ACCEPTED"

\* The tests on the queried proposal, and tryExecuteProposal's on the stored.
Ready(snapshot, s, i) ==
    /\ i \in Page(snapshot)
    /\ snapshot.proposals[i].age >= VotingPeriod
    /\ snapshot.proposals[i].result = "NOT_RUN"
    /\ snapshot.proposals[i].status = "ACCEPTED"
    /\ i \in DOMAIN s.proposals
    /\ s.proposals[i].status = "ACCEPTED"
    /\ s.proposals[i].age >= VotingPeriod

ExecutePendingGroupProposals(s) ==
    LET after[n \in 0..MaxProposals] ==
            IF n = 0 THEN s
            ELSE IF Ready(s, after[n - 1], n) THEN Exec(after[n - 1], n)
            ELSE after[n - 1]
    IN  after[MaxProposals]

\* Faulty variants: x/group is not among the end blockers, or comes last.
EndBlockersWithoutGroup(s) == ExecutePendingGroupProposals(s)

EndBlockersSwapped(s) == GroupEndBlocker(ExecutePendingGroupProposals(s))

\* x/group's end blocker before the registry's.
EndBlockers(s) == ExecutePendingGroupProposals(GroupEndBlocker(s))

-----------------------------------------------------------------------------

\* A block begins, some time after the last.
NextBlock ==
    /\ stage = "begin"
    /\ \E d \in 1..MaxStep :
          proposals' = [i \in DOMAIN proposals |->
                           [proposals[i] EXCEPT !.age = @ + d]]
    /\ stage' = "deliver"
    /\ UNCHANGED <<lastId, registry, executions>>

EndBlock ==
    /\ stage = "deliver"
    /\ Stores(EndBlockers(Store))
    /\ stage' = "begin"
    /\ UNCHANGED lastId

\* A submission by a member.  Each message must be the policy's, and with TRY
\* the proposer votes yes and the proposal is executed.
SubmitProposal(member, message, mode) ==
    LET i == lastId + 1
        p == [message  |-> message,
              age      |-> 0,
              status   |-> "SUBMITTED",
              result   |-> "NOT_RUN",
              proposer |-> member,
              yes      |-> IF mode = "TRY" THEN {member} ELSE {},
              no       |-> {}]
        stored == [Store EXCEPT !.proposals =
                      [j \in DOMAIN @ \cup {i} |-> IF j = i THEN p ELSE @[j]]]
    IN  /\ stage = "deliver"
        /\ lastId < MaxProposals
        /\ message.creator = Authority
        /\ Stores(AfterExecMode(stored, i, mode))
        /\ lastId' = i
        /\ UNCHANGED stage

\* A vote; abstain and veto count as no.
Vote(i, member, option, mode) ==
    /\ stage = "deliver"
    /\ i \in DOMAIN proposals
    /\ proposals[i].status = "SUBMITTED"
    /\ ~ VotingEnded(proposals[i])
    /\ member \notin proposals[i].yes \cup proposals[i].no
    /\ LET voted == [Store EXCEPT !.proposals[i][option] = @ \cup {member}]
       IN  Stores(AfterExecMode(voted, i, mode))
    /\ UNCHANGED <<lastId, stage>>

WithdrawProposal(i) ==
    /\ stage = "deliver"
    /\ i \in DOMAIN proposals
    /\ proposals[i].status = "SUBMITTED"
    /\ proposals' = [proposals EXCEPT ![i].status = "WITHDRAWN"]
    /\ UNCHANGED <<lastId, registry, executions, stage>>

\* Faulty variants: the decorator tests only the status, or only the time.
AnteWithoutTime(i) ==
    /\ i \in DOMAIN proposals
    /\ proposals[i].status \in {"SUBMITTED", "ACCEPTED"}

AnteWithoutStatus(i) ==
    /\ i \in DOMAIN proposals
    /\ proposals[i].age >= VotingPeriod

\* GroupProposalTimingDecorator on a MsgExec that is itself a message of a
\* transaction.
AnteAllows(i) ==
    /\ i \in DOMAIN proposals
    /\ proposals[i].age >= VotingPeriod
    /\ proposals[i].status = "ACCEPTED"

\* A MsgExec in a transaction.
ExecProposal(i) ==
    /\ stage = "deliver"
    /\ AnteAllows(i)
    /\ ExecAllowed(Store, i)
    /\ Stores(Exec(Store, i))
    /\ UNCHANGED <<lastId, stage>>

\* A MsgExec that x/authz hands to x/group: the decorator does not see it.
ExecCarriedProposal(i) ==
    /\ CarriedExec
    /\ stage = "deliver"
    /\ ExecAllowed(Store, i)
    /\ Stores(Exec(Store, i))
    /\ UNCHANGED <<lastId, stage>>

-----------------------------------------------------------------------------

Init ==
    /\ proposals = [i \in {} |-> {}]
    /\ lastId = 0
    /\ \E list \in GenesisLists : registry = LoadedFrom(list)
    /\ executions = {}
    /\ stage = "begin"

Next ==
    \/ NextBlock
    \/ EndBlock
    \/ \E member \in Members, message \in Messages, mode \in ExecModes :
          SubmitProposal(member, message, mode)
    \/ \E i \in Ids, member \in Members, option \in {"yes", "no"}, mode \in ExecModes :
          Vote(i, member, option, mode)
    \/ \E i \in Ids : WithdrawProposal(i)
    \/ \E i \in Ids : ExecProposal(i)
    \/ \E i \in Ids : ExecCarriedProposal(i)

\* Consensus keeps making blocks; nobody has to submit, vote or execute.
Fairness == WF_vars(NextBlock) /\ WF_vars(EndBlock)

Spec == Init /\ [][Next]_vars
FairSpec == Spec /\ Fairness

-----------------------------------------------------------------------------
(* What is expected of the council. *)

\* A proposal is out of the store by the end of the block after its execution
\* period (module.go:158 relies on x/group for it), so ages are bounded.
TypeOK ==
    /\ lastId \in 0..MaxProposals
    /\ DOMAIN proposals \subseteq 1..lastId
    /\ \A i \in DOMAIN proposals :
          /\ proposals[i] \in Proposal
          /\ ~ ExecutionEnded(proposals[i]) \/ stage = "deliver"
    /\ registry \in Registries
    /\ executions \subseteq Execution
    /\ stage \in {"begin", "deliver"}

\* Without the TRY mode and a carried MsgExec a tally is taken only when nobody
\* can vote any more:
\* not even in a block at the very end of the voting period, where a vote and a
\* MsgExec both meet their time test (group_proposal_timing.go:53).
VotingStaysOpen ==
    \A i \in DOMAIN proposals :
        proposals[i].status \in {"ACCEPTED", "REJECTED"} => VotingEnded(proposals[i])

\* "group proposals can only be executed **after** the voting period ends"
\* (GROUP_PROPOSAL_TIMING.md:5), by a MsgExec (group_proposal_timing.go:53) and
\* by the end blocker (module.go:196).  The TRY mode and a carried MsgExec go
\* past both.
NotBeforeVotingEnds == \A e \in executions : e.age >= VotingPeriod

\* "It automatically executes group proposals after their voting period ends."
\* (module.go:144): between blocks no proposal whose voting has ended waits for
\* its tally or its first execution, as the end blockers run in the order that
\* sees to both in one block (app_config.go:147).  A page must hold them all.
SettledAtBlockEnd ==
    stage = "begin" =>
        \A i \in DOMAIN proposals :
            VotingEnded(proposals[i]) =>
                \/ proposals[i].status = "REJECTED"
                \/ proposals[i].status = "ACCEPTED" /\ proposals[i].result = "FAILURE"

\* "automatically executes them if they meet the decision policy requirements"
\* (module.go:159): between blocks no accepted proposal is left that would run.
\* This needs a minimum execution period no longer than the voting period, and
\* that nothing executes a proposal before its time.
ExecutedWhenDue ==
    stage = "begin" =>
        \A i \in DOMAIN proposals :
            ~ (proposals[i].status = "ACCEPTED" /\ Runs(Store, proposals[i]))

\* What an executed proposal put in the registry stays there, whatever else is
\* executed: of two accepted proposals for one index the second fails.
ExecutionsStand ==
    \A e \in executions :
        /\ e.message.index \in DOMAIN registry
        /\ registry[e.message.index] = EntryOf(e.message)

Executed(i) == \E e \in executions : e.id = i

\* A proposal with enough yes votes is executed or tried, unless withdrawn,
\* with no member doing more (module.go:158).  Blocks must be no further apart
\* than the execution period, or it is pruned first.
PassedIsTried ==
    \A i \in Ids :
        i \in DOMAIN proposals /\ Passes(proposals[i])
            ~> \/ Executed(i)
               \/ /\ i \in DOMAIN proposals
                  /\ \/ proposals[i].result = "FAILURE"
                     \/ proposals[i].status = "WITHDRAWN"

=============================================================================
