--------------------------- MODULE VoteCheckProofs ---------------------------
(***************************************************************************)
(* Any number of vote accounts and any number of changes to them: what a   *)
(* check that finds no account says about the ledger at that moment.       *)
(***************************************************************************)
EXTENDS VoteCheck, TLAPS

\* What a search of the accounts does: it remembers one of the identity's own,
\* or finds none among them.
LEMMA JudgeFindsOwn ==
    ASSUME VoteTypeOK, NEW accounts \in SUBSET Account, Judge(accounts)
    PROVE  /\ cached' \in Account \cup {None}
           /\ pc' \in {"idle", "balance"}
           /\ verdict' \in BOOLEAN
           /\ pc' = "idle" /\ ~verdict' => accounts \cap Own = {}
<1>. USE DEF VoteTypeOK, Answer, Own
<1>1. CASE Delinquent(accounts) # {}
  <2>1. \E v \in Delinquent(accounts) : cached' = v /\ pc' = "balance" /\ UNCHANGED verdict
    BY <1>1 DEF Judge
  <2>. QED
    BY <2>1 DEF Delinquent
<1>2. CASE Delinquent(accounts) = {} /\ Current(accounts) # {}
  <2>1. \E v \in Current(accounts) : cached' = v /\ Answer(TRUE)
    BY <1>2 DEF Judge
  <2>. QED
    BY <2>1 DEF Current
<1>3. CASE Delinquent(accounts) = {} /\ Current(accounts) = {}
  <2>1. Answer(FALSE) /\ UNCHANGED cached
    BY <1>3 DEF Judge
  <2>2. accounts \cap Own = {}
    BY <1>3 DEF Delinquent, Current
  <2>. QED
    BY <2>1, <2>2
<1>. QED
  BY <1>1, <1>2, <1>3

\* What the filtered and the unfiltered call leave behind.
LEMMA AskedStep ==
    ASSUME VoteTypeOK, AskFiltered \/ AskUnfiltered
    PROVE  /\ UNCHANGED <<ledger, changes>>
           /\ cached' \in Account \cup {None}
           /\ pc' \in {"idle", "balance", "unfiltered"}
           /\ verdict' \in BOOLEAN
           /\ pc' = "idle" /\ ~verdict' => Own = {} \/ HandedOver
<1>1. CASE AskFiltered
  <2>1. pc = "filtered" /\ UNCHANGED <<ledger, changes>> /\ cached \in Account
    BY <1>1 DEF AskFiltered, VoteTypeOK
  <2>2. CASE holder[cached] = "nobody"
    BY <1>1, <2>1, <2>2 DEF AskFiltered, VoteTypeOK
  <2>3. CASE holder[cached] # "nobody"
    <3>1. Judge({cached})
      BY <1>1, <2>3 DEF AskFiltered
    <3>2. holder[cached] \in {"own", "other"} /\ cached # None
      BY <2>1, <2>3 DEF VoteTypeOK
    <3>3. {cached} \cap Own = {} => HandedOver
      BY <2>1, <3>2 DEF HandedOver, Own
    <3>. QED
      BY <2>1, <3>1, <3>3, JudgeFindsOwn
  <2>. QED
    BY <2>2, <2>3
<1>2. CASE AskUnfiltered
  <2>. DEFINE open == {v \in Account : holder[v] # "nobody"}
  <2>1. UNCHANGED <<ledger, changes>> /\ Judge(open)
    BY <1>2 DEF AskUnfiltered
  <2>2. open \cap Own = Own
    BY DEF Own
  <2>3. open \in SUBSET Account
    OBVIOUS
  <2>. HIDE DEF open
  <2>. QED
    BY <2>1, <2>2, <2>3, JudgeFindsOwn
<1>. QED
  BY <1>1, <1>2

\* The ledger and the calls start with their types.
LEMMA VoteTypeInit == VoteInit => VoteTypeOK
<1>. SUFFICES ASSUME VoteInit PROVE VoteTypeOK
  OBVIOUS
<1>1. PICK v \in Account : holder = [a \in Account |-> IF a = v THEN "own" ELSE "other"]
  BY DEF VoteInit
<1>. QED
  BY <1>1, VoteCheckAssumption DEF VoteInit, VoteTypeOK

\* Every change of the ledger and every call keeps them.
LEMMA VoteTypeStep == VoteTypeOK /\ [VoteNext]_voteVars => VoteTypeOK'
<1>. SUFFICES ASSUME VoteTypeOK, [VoteNext]_voteVars PROVE VoteTypeOK'
  OBVIOUS
<1>. USE DEF ledger
<1>1. ASSUME NEW kind, Change(kind) PROVE changes' \in 0 .. MaxChanges
  BY <1>1, VoteCheckAssumption DEF Change, VoteTypeOK
<1>2. CASE ChangeLedger
  <2>1. changes' \in 0 .. MaxChanges /\ UNCHANGED <<pc, cached, verdict>>
    BY <1>1, <1>2 DEF ChangeLedger, ChangeHolder
  <2>2. CASE \E v \in Account : ChangeHolder(v) /\ UNCHANGED <<voting, funded>>
    BY <2>1, <2>2 DEF ChangeHolder, VoteTypeOK
  <2>3. CASE UNCHANGED holder
    BY <1>2, <2>1, <2>3 DEF ChangeLedger, VoteTypeOK
  <2>. QED
    BY <1>2, <2>2, <2>3 DEF ChangeLedger
<1>3. CASE ForgiveError
  BY <1>1, <1>3 DEF ForgiveError, Answer, VoteTypeOK
<1>4. CASE BeginCheck
  BY <1>4 DEF BeginCheck, VoteTypeOK
<1>5. CASE AskFiltered \/ AskUnfiltered
  BY <1>5, AskedStep DEF VoteTypeOK
<1>6. CASE AskBalance
  BY <1>6 DEF AskBalance, Answer, VoteTypeOK
<1>7. CASE UNCHANGED voteVars
  BY <1>7 DEF voteVars, VoteTypeOK
<1>. QED
  BY <1>2, <1>3, <1>4, <1>5, <1>6, <1>7 DEF VoteNext, Check

\* Whatever happens to the ledger, every variable keeps its type; in particular
\* the filtered call is only ever made with an account to filter by
\* (votePubkeyCache is looked up first, and evicted before going on unfiltered).
THEOREM VoteTypeCorrect == VoteSpec => []VoteTypeOK
BY VoteTypeInit, VoteTypeStep, PTL DEF VoteSpec

\* A check that ends without a vote account, current or delinquent, is right:
\* the identity has none, or the one remembered was handed over to another.
THEOREM NotFoundIsSound == VoteSpec => NotFoundMeansNone
<1>. DEFINE Sound == (pc \in {"filtered", "unfiltered"} /\ pc' = "idle" /\ ~verdict')
                       => Own = {} \/ HandedOver
<1>1. VoteTypeOK /\ [VoteNext]_voteVars => [Sound]_voteVars
  <2>. SUFFICES ASSUME VoteTypeOK, VoteNext PROVE Sound
    OBVIOUS
  <2>1. CASE ChangeLedger \/ BeginCheck \/ AskBalance
    BY <2>1 DEF ChangeLedger, BeginCheck, AskBalance
  <2>2. CASE ForgiveError
    BY <2>2 DEF ForgiveError, Answer
  <2>3. CASE AskFiltered \/ AskUnfiltered
    BY <2>3, AskedStep
  <2>. QED
    BY <2>1, <2>2, <2>3 DEF VoteNext, Check
<1>. QED
  BY <1>1, VoteTypeCorrect, PTL DEF VoteSpec, NotFoundMeansNone
=============================================================================
