------------------------------ MODULE RPCClient ------------------------------
(***************************************************************************)
(* The RPC clients (internal/rpc/clients.go): a call is tried on the URLs  *)
(* of its client one after the other until one answers, in an order that   *)
(* spreads the load and puts URLs that refused a call at the back for a    *)
(* while.  Endpoints answer, fail or refuse as they like.  A manager has   *)
(* two clients, and two goroutines that call through them: the monitor     *)
(* loop asks the cluster and the local validator, the health tracker asks  *)
(* the local validator only.                                               *)
(***************************************************************************)
EXTENDS Naturals, SequencesExt

CONSTANTS
    UrlLists,   \* the lists that cluster.rpc_urls may be, in order
    LocalUrl,   \* validator.rpc_url
    NoUrl,      \* lastSuccessfulURL before the first success
    Cooldown    \* urlCooldownDuration, in units of the clock

ASSUME ClientAssumption ==
    /\ \A list \in UrlLists : list \in Seq(ToSet(list)) \ {<<>>} /\ NoUrl \notin ToSet(list)
    /\ LocalUrl # NoUrl /\ Cooldown \in Nat \ {0}

Url == {LocalUrl} \cup UNION {ToSet(list) : list \in UrlLists}

Client == {"cluster", "local"}

Goroutine == {"monitor", "tracker"}

VARIABLES
    urls,           \* the URLs of each client
    lastSuccessful, \* lastSuccessfulURL of each client
    cooldown,       \* how long each URL of a client is still to be kept at the back
    call            \* what each goroutine is doing

clientVars == <<urls, lastSuccessful, cooldown, call>>

\* A call: the URLs still to try, those tried in vain, those that were cooling down
\* when it began, and whether it is writing a cooldown.
Call == [client : Client \cup {"none"}, queue : Seq(Url), failed : SUBSET Url,
         cooling : SUBSET Url, writing : BOOLEAN]

NoCall == [client |-> "none", queue |-> <<>>, failed |-> {}, cooling |-> {},
           writing |-> FALSE]

Calling(g) == call[g].client # "none"

Cooling(c, u) == cooldown[c][u] > 0

\* The URLs of a list that are in S, in the list's order, as the loop over c.urls
\* collects them.  (A function, as the provers know nothing of SelectSeq.)
Collect(list, S) ==
    LET upTo[i \in 0 .. Len(list)] ==
          IF i = 0 THEN <<>>
          ELSE IF list[i] \in S THEN Append(upTo[i - 1], list[i]) ELSE upTo[i - 1]
    IN  upTo[Len(list)]

\* The URLs of a client other than the last one to answer, and that one, if they
\* are cooling down or if they are not.
Others(c, cool) == Collect(urls[c], {u \in Url \ {lastSuccessful[c]} : Cooling(c, u) = cool})
Answered(c, cool) ==
    IF lastSuccessful[c] # NoUrl /\ Cooling(c, lastSuccessful[c]) = cool
    THEN <<lastSuccessful[c]>> ELSE <<>>

\* Mutants: URLs keep their place while they cool down; the last URL to answer
\* is asked in its turn; it is dropped if it has been refused since.
URLsToTry_NoCooldown(c) ==
    Collect(urls[c], Url \ {lastSuccessful[c]})
    \o (IF lastSuccessful[c] = NoUrl THEN <<>> ELSE <<lastSuccessful[c]>>)
URLsToTry_InTurn(c) ==
    Collect(urls[c], {u \in Url : ~Cooling(c, u)}) \o Collect(urls[c], {u \in Url : Cooling(c, u)})
URLsToTry_DropLast(c) == Others(c, FALSE) \o Answered(c, FALSE) \o Others(c, TRUE)

\* getURLsToTry: first the URLs at rest, then the last one to answer, then the ones
\* cooling down, again with the last one to answer, which is listed once, at the end.
URLsToTry(c) ==
    IF Len(urls[c]) <= 1 THEN urls[c]
    ELSE (Others(c, FALSE) \o Answered(c, FALSE)) \o (Others(c, TRUE) \o Answered(c, TRUE))

\* NewClient
NoSuccess == [c \in Client |-> NoUrl]
NoCooldown == [c \in Client |-> [u \in Url |-> 0]]
NoCalls == [g \in Goroutine |-> NoCall]

ClientInit ==
    /\ urls \in [Client -> UrlLists \cup {<<LocalUrl>>}]
    /\ urls["cluster"] \in UrlLists /\ urls["local"] = <<LocalUrl>>
    /\ lastSuccessful = NoSuccess /\ cooldown = NoCooldown /\ call = NoCalls

\* Mutant: the health tracker asks whatever the monitor loop asks.
Uses_All(g) == Client

\* The gossip state calls through the cluster's client, in the monitor loop.
Uses(g) == IF g = "monitor" THEN Client ELSE {"local"}

\* executeWithRetry begins.
BeginCall(g, c) ==
    /\ ~Calling(g) /\ c \in Uses(g)
    /\ call' = [call EXCEPT ![g] =
         [NoCall EXCEPT !.client = c, !.queue = URLsToTry(c),
                        !.cooling = {u \in ToSet(urls[c]) : Cooling(c, u)}]]
    /\ UNCHANGED <<urls, lastSuccessful, cooldown>>

Trying(g) == Calling(g) /\ call[g].queue # <<>> /\ ~call[g].writing

\* The call is made to the next URL, which answers ...
Succeed(g) ==
    /\ Trying(g)
    /\ lastSuccessful' = [lastSuccessful EXCEPT ![call[g].client] = Head(call[g].queue)]
    /\ call' = [call EXCEPT ![g] = NoCall]
    /\ UNCHANGED <<urls, cooldown>>

\* Mutant: a URL that failed is asked again after the others.
TryNext_Requeue(g) ==
    call' = [call EXCEPT ![g].queue = Append(Tail(@), Head(@)),
                         ![g].failed = @ \cup {Head(call[g].queue)}, ![g].writing = FALSE]

TryNext(g) ==
    call' = [call EXCEPT ![g].queue = Tail(@),
                         ![g].failed = @ \cup {Head(call[g].queue)}, ![g].writing = FALSE]

\* ... or does not, within the timeout, or with an error that may pass ...
Fail(g) ==
    /\ Trying(g) /\ TryNext(g)
    /\ UNCHANGED <<urls, lastSuccessful, cooldown>>

\* ... or refuses with 403, 429 or 503 (isPermanentHTTPError), and its cooldown is
\* looked up and written, in a map without a lock.
Refuse(g) ==
    /\ Trying(g)
    /\ call' = [call EXCEPT ![g].writing = TRUE]
    /\ UNCHANGED <<urls, lastSuccessful, cooldown>>

\* Mutant: a second refusal adds its cooldown to what is left of the first.
CoolDown_Accumulate(g) ==
    /\ call[g].writing /\ TryNext(g)
    /\ cooldown' = [cooldown EXCEPT ![call[g].client][Head(call[g].queue)] = @ + Cooldown]
    /\ UNCHANGED <<urls, lastSuccessful>>

CoolDown(g) ==
    /\ call[g].writing /\ TryNext(g)
    /\ cooldown' = [cooldown EXCEPT ![call[g].client][Head(call[g].queue)] = Cooldown]
    /\ UNCHANGED <<urls, lastSuccessful>>

\* Mutant: the second error ends the call.
GiveUp_Early(g) ==
    /\ Calling(g) /\ (call[g].queue = <<>> \/ Cardinality(call[g].failed) = 2)
    /\ call' = [call EXCEPT ![g] = NoCall]
    /\ UNCHANGED <<urls, lastSuccessful, cooldown>>

GiveUp(g) ==
    /\ Calling(g) /\ call[g].queue = <<>>
    /\ call' = [call EXCEPT ![g] = NoCall]
    /\ UNCHANGED <<urls, lastSuccessful, cooldown>>

\* Two goroutines are in one client's map, and the Go runtime may notice: it ends
\* the program, which is started again with fresh clients.
Racing == \E c \in Client : \A g \in Goroutine : call[g].client = c /\ call[g].writing

Throw ==
    /\ Racing
    /\ lastSuccessful' = NoSuccess /\ cooldown' = NoCooldown /\ call' = NoCalls
    /\ UNCHANGED urls

\* Time passes, between calls and while one waits for an answer.
Tick ==
    /\ \E c \in Client, u \in Url : Cooling(c, u)
    /\ cooldown' = [c \in Client |-> [u \in Url |->
                      IF Cooling(c, u) THEN cooldown[c][u] - 1 ELSE 0]]
    /\ UNCHANGED <<urls, lastSuccessful, call>>

Attempt(g) == Succeed(g) \/ Fail(g) \/ Refuse(g) \/ CoolDown(g) \/ GiveUp(g)

ClientNext ==
    \/ \E g \in Goroutine : Attempt(g) \/ \E c \in Client : BeginCall(g, c)
    \/ Throw \/ Tick

ClientSpec == ClientInit /\ [][ClientNext]_clientVars

\* Every request is bounded by the client's timeout.
FairClientSpec == ClientSpec /\ \A g \in Goroutine : WF_clientVars(Attempt(g))
-----------------------------------------------------------------------------
ClientTypeOK ==
    /\ lastSuccessful \in [Client -> Url \cup {NoUrl}]
    /\ cooldown \in [Client -> [Url -> 0 .. Cooldown]]
    /\ call \in [Goroutine -> Call]

UrlsOf(g) == ToSet(urls[call[g].client])

\* A call has the URLs it has not tried in vain before it, whatever happened to the
\* cooldowns meanwhile: none is left out, and none is tried twice unless the
\* configuration names it twice, which it may.
EachTried ==
    \A g \in Goroutine : Calling(g) =>
        /\ ToSet(call[g].queue) \cup call[g].failed = UrlsOf(g)
        /\ IsInjective(urls[call[g].client]) =>
             /\ IsInjective(call[g].queue)
             /\ ToSet(call[g].queue) \cap call[g].failed = {}

\* A URL that was cooling down when the call began is asked only after every
\* URL at rest has failed.
CoolingAskedLast ==
    \A g \in Goroutine :
        Trying(g) /\ Head(call[g].queue) \in call[g].cooling
          => UrlsOf(g) \ call[g].cooling \subseteq call[g].failed

\* Two goroutines may refuse and cool down at once, and end the program, only in the
\* map of the local validator's client: the cluster's client is the monitor loop's.
RaceOnlyLocally == Racing => \A g \in Goroutine : call[g].client = "local"

\* The URL that answered the last call answers the next one only if all others
\* failed or were cooling down: nobody is asked twice in a row without need.
LoadSpread ==
    [][\A g \in Goroutine : Succeed(g) /\ lastSuccessful' = lastSuccessful
         => UrlsOf(g) \ {Head(call[g].queue)} \subseteq call[g].failed \cup call[g].cooling
      ]_clientVars

\* An error means that every URL was asked and failed.
ErrorMeansAllFailed ==
    [][\A g \in Goroutine : GiveUp(g) => call[g].failed = UrlsOf(g)]_clientVars

\* Every call comes to an end.
CallsEnd == \A g \in Goroutine : Calling(g) ~> ~Calling(g)
=============================================================================
