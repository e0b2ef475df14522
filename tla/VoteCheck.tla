------------------------------ MODULE VoteCheck ------------------------------
(***************************************************************************)
(* isNodeActiveAndVoting (internal/gossip/state.go): does the node that    *)
(* holds the shared active identity vote?  It is asked at every refresh of *)
(* a leader, remembers the identity's vote account from one refresh to the *)
(* next, and makes up to three calls, between which the ledger may change. *)
(***************************************************************************)
EXTENDS Naturals, FiniteSets

CONSTANTS
    Account,    \* the vote accounts of the ledger
    None,       \* no account
    Changes,    \* how the ledger changes (see Kinds)
    MaxChanges  \* how often, at most

\* handover: the account gets another identity, and another account this one.
Kinds == {"open", "close", "stall", "vote", "drain", "fund", "handover", "rpcError"}

ASSUME VoteCheckAssumption ==
    None \notin Account /\ Changes \subseteq Kinds /\ MaxChanges \in Nat

VARIABLES
    holder,     \* whose each account is: the active identity's, another's, nobody's
    voting,     \* the accounts that have voted recently
    funded,     \* the identity's balance is above the rent-exempt minimum
    changes,    \* how often the ledger has changed
    pc,         \* the next call
    cached,     \* votePubkeyCache of the active identity
    verdict     \* what the last check said

ledger == <<holder, voting, funded>>
voteVars == <<ledger, changes, pc, cached, verdict>>

Own == {v \in Account : holder[v] = "own"}

VoteInit ==
    /\ \E v \in Account : holder = [a \in Account |-> IF a = v THEN "own" ELSE "other"]
    /\ voting = Account /\ funded = TRUE
    /\ changes = 0
    /\ pc = "idle" /\ cached = None /\ verdict = TRUE

-----------------------------------------------------------------------------
Change(kind) ==
    /\ kind \in Changes /\ changes < MaxChanges
    /\ changes' = changes + 1

\* An identity has one vote account at a time.
ChangeHolder(v) ==
    \/ Change("open") /\ holder[v] = "nobody" /\ Own = {}
         /\ holder' = [holder EXCEPT ![v] = "own"]
    \/ Change("close") /\ holder' = [holder EXCEPT ![v] = "nobody"]
    \/ \E w \in Account \ {v} :
         /\ Change("handover") /\ holder[v] = "own" /\ holder[w] # "own"
         /\ holder' = [holder EXCEPT ![v] = "other", ![w] = "own"]

ChangeLedger ==
    /\ \/ \E v \in Account : ChangeHolder(v) /\ UNCHANGED <<voting, funded>>
       \/ \E v \in Account :
            /\ \/ Change("stall") /\ v \in voting /\ voting' = voting \ {v}
               \/ Change("vote") /\ v \notin voting /\ voting' = voting \cup {v}
            /\ UNCHANGED <<holder, funded>>
       \/ /\ Change(IF funded THEN "drain" ELSE "fund")
          /\ funded' = ~funded
          /\ UNCHANGED <<holder, voting>>
    /\ UNCHANGED <<pc, cached, verdict>>

-----------------------------------------------------------------------------
Answer(v) ==
    /\ verdict' = v
    /\ pc' = "idle"

BeginCheck ==
    /\ pc = "idle"
    /\ pc' = IF cached = None THEN "unfiltered" ELSE "filtered"
    /\ UNCHANGED <<ledger, changes, cached, verdict>>

\* An RPC error is forgiven: the node counts as voting.
ForgiveError ==
    /\ pc # "idle"
    /\ Change("rpcError")
    /\ Answer(TRUE)
    /\ UNCHANGED <<ledger, cached>>

\* The accounts a call returns are searched for the identity, the delinquent
\* ones first; the account found is cached.
Delinquent(accounts) == (accounts \cap Own) \ voting
Current(accounts) == accounts \cap Own \cap voting

\* Mutant: a delinquent account is not looked for, so the balance never is either.
Judge_NoDelinquent(accounts) ==
    IF Current(accounts) # {}
      THEN \E v \in Current(accounts) : cached' = v /\ Answer(TRUE)
      ELSE Answer(FALSE) /\ UNCHANGED cached

Judge(accounts) ==
    IF Delinquent(accounts) # {}
      THEN \E v \in Delinquent(accounts) :
             cached' = v /\ pc' = "balance" /\ UNCHANGED verdict
      ELSE IF Current(accounts) # {}
             THEN \E v \in Current(accounts) : cached' = v /\ Answer(TRUE)
             ELSE Answer(FALSE) /\ UNCHANGED cached

\* Mutants: the eviction does not go on to the unfiltered call; an empty answer
\* is taken for a node that does not vote.
AskFiltered_Again ==
    /\ pc = "filtered"
    /\ IF holder[cached] = "nobody"
         THEN cached' = None /\ UNCHANGED <<pc, verdict>>
         ELSE Judge({cached})
    /\ UNCHANGED <<ledger, changes>>
AskFiltered_Empty ==
    /\ pc = "filtered"
    /\ Judge({v \in {cached} : holder[v] # "nobody"})
    /\ UNCHANGED <<ledger, changes>>

\* getVoteAccounts for the cached account alone.  An empty answer evicts it and
\* the check goes on unfiltered.
AskFiltered ==
    /\ pc = "filtered"
    /\ IF holder[cached] = "nobody"
         THEN cached' = None /\ pc' = "unfiltered" /\ UNCHANGED verdict
         ELSE Judge({cached})
    /\ UNCHANGED <<ledger, changes>>

AskUnfiltered ==
    /\ pc = "unfiltered"
    /\ Judge({v \in Account : holder[v] # "nobody"})
    /\ UNCHANGED <<ledger, changes>>

\* A delinquent node without the funds to vote is forgiven too.
AskBalance ==
    /\ pc = "balance"
    /\ Answer(~funded)
    /\ UNCHANGED <<ledger, changes, cached>>

Check == BeginCheck \/ AskFiltered \/ AskUnfiltered \/ AskBalance

VoteNext == ChangeLedger \/ ForgiveError \/ Check

VoteSpec == VoteInit /\ [][VoteNext]_voteVars

\* The monitor loop refreshes again and again, and every call returns.
FairVoteSpec == VoteSpec /\ WF_voteVars(Check)
-----------------------------------------------------------------------------
VoteTypeOK ==
    /\ holder \in [Account -> {"own", "other", "nobody"}]
    /\ voting \subseteq Account
    /\ funded \in BOOLEAN
    /\ changes \in 0 .. MaxChanges
    /\ pc \in {"idle", "filtered", "unfiltered", "balance"}
    /\ cached \in Account \cup {None}
    /\ pc = "filtered" => cached # None
    /\ verdict \in BOOLEAN

\* The account remembered from an earlier refresh belongs to another identity now.
HandedOver == cached # None /\ holder[cached] = "other"

\* A node for which neither a current nor a delinquent vote account is found has
\* none: the account remembered from an earlier refresh only hides its own once
\* it has been handed over to another identity.
NotFoundMeansNone ==
    [][(pc \in {"filtered", "unfiltered"} /\ pc' = "idle" /\ ~verdict')
         => Own = {} \/ HandedOver]_voteVars

\* What the check should say of the identity.
Truth == Own # {} /\ (Own \subseteq voting \/ ~funded)

\* However the ledger and the calls went before: when they are steady again the
\* check settles on the truth, whatever account it remembered, except on one
\* handed over, which is never forgotten.
VerdictSettles == <>[](verdict = Truth) \/ <>[]HandedOver
=============================================================================
