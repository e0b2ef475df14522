-------------------------- MODULE RoleCommandProofs --------------------------
(***************************************************************************)
(* What every role change guarantees, for any number of hooks, any size of *)
(* the pipes and any output: the jobs run in the order of the plan, and    *)
(* every job that is followed by another one did not abort the change.     *)
(***************************************************************************)
EXTENDS RoleCommand, SequenceTheorems, TLAPS

\* One command, which must succeed, between pre hooks and post hooks.
PlanOK ==
    /\ plan \in Seq(Job)
    /\ \E c \in 1 .. Len(plan) :
          /\ plan[c].kind = "command" /\ plan[c].must
          /\ \A i \in 1 .. c - 1 : plan[i].kind = "pre"
          /\ \A i \in c + 1 .. Len(plan) : plan[i].kind = "post"

WentOn(i) == ~Aborts(plan[i], results[i])

\* The change stands at job at, or it is over: at its end, or at a job that aborted it.
ResultsOK ==
    /\ results \in Seq(BOOLEAN) /\ at \in 1 .. Len(plan) + 1
    /\ Len(results) <= Len(plan)
    /\ \A i \in 1 .. Len(results) - 1 : WentOn(i)
    /\ ~Done => Len(results) = at - 1 /\ (at > 1 => WentOn(at - 1))
    /\ Done => \/ Len(results) = Len(plan)
               \/ Len(results) \in 1 .. Len(plan) /\ ~WentOn(Len(results))

\* A process belongs to a job of the plan.
RunOK ==
    /\ process \in {"none", "running", "success", "failure"}
    /\ process # "none" => ~Done
    /\ writing \in (Stream \X Line) \cup {Nothing}
    /\ output \in 0 .. MaxOutput
    /\ pipe \in [Stream -> Seq(Line)] /\ \A s \in Stream : Len(pipe[s]) <= PipeSize
    /\ reader \in [Stream -> {"reading", "stopped", "ended"}]

RoleInv == PlanOK /\ ResultsOK /\ RunOK

\* A change starts with a plan in order and nothing run.
LEMMA RoleInvInit == RoleInit => RoleInv
  <1> SUFFICES ASSUME RoleInit PROVE RoleInv
    OBVIOUS
  <1>1. PICK pre \in Hooks("pre", MaxPre), post \in Hooks("post", MaxPost) :
          plan = pre \o <<[kind |-> "command", must |-> TRUE]>> \o post
    BY DEF RoleInit
  <1>2. PICK k \in Nat : pre \in [1 .. k -> {j \in Job : j.kind = "pre"}]
    BY RoleAssumption DEF Hooks
  <1>3. PICK l \in Nat : post \in [1 .. l -> {j \in Job : j.kind = "post"}]
    BY RoleAssumption DEF Hooks
  <1>4. /\ pre \in Seq(Job) /\ Len(pre) = k /\ post \in Seq(Job) /\ Len(post) = l
        /\ \A i \in 1 .. k : pre[i].kind = "pre"
        /\ \A i \in 1 .. l : post[i].kind = "post"
    <2>1. pre \in [1 .. k -> Job] /\ post \in [1 .. l -> Job]
      BY <1>2, <1>3
    <2> QED
      BY <1>2, <1>3, <2>1
  <1> DEFINE job == [kind |-> "command", must |-> TRUE]
  <1>5. job \in Job /\ job.kind = "command" /\ job.must
    BY DEF Job
  <1>6. plan = (pre \o <<job>>) \o post
    BY <1>1
  <1> HIDE DEF job
  <1>7. /\ pre \o <<job>> \in Seq(Job) /\ Len(pre \o <<job>>) = k + 1
        /\ \A i \in 1 .. k : (pre \o <<job>>)[i] = pre[i]
        /\ (pre \o <<job>>)[k + 1] = job
    BY <1>4, <1>5
  <1> DEFINE front == pre \o <<job>>
  <1> HIDE DEF front
  <1>8. /\ plan \in Seq(Job) /\ Len(plan) = k + 1 + l
        /\ \A i \in 1 .. k : plan[i] = pre[i]
        /\ plan[k + 1] = job
        /\ \A i \in k + 2 .. k + 1 + l : plan[i] = post[i - k - 1]
    <2>1. /\ front \in Seq(Job) /\ Len(front) = k + 1 /\ plan = front \o post
          /\ \A i \in 1 .. k : front[i] = pre[i]
          /\ front[k + 1] = job
      BY <1>6, <1>7 DEF front
    <2>2. /\ plan \in Seq(Job) /\ Len(plan) = Len(front) + Len(post)
          /\ \A i \in 1 .. Len(front) : plan[i] = front[i]
          /\ \A i \in Len(front) + 1 .. Len(front) + Len(post) :
                plan[i] = post[i - Len(front)]
      <3>1. /\ front \o post \in Seq(Job) /\ Len(front \o post) = Len(front) + Len(post)
            /\ \A i \in 1 .. Len(front) + Len(post) :
                  (front \o post)[i] = IF i <= Len(front) THEN front[i] ELSE post[i - Len(front)]
        <4>1. front \in Seq(Job) /\ post \in Seq(Job)
          BY <1>4, <2>1
        <4> QED
          BY <4>1, ConcatProperties
      <3>2. Len(front) \in Nat /\ Len(post) \in Nat
        BY <1>4, <2>1
      <3> QED
        BY <2>1, <3>1, <3>2
    <2> QED
      <3>1. \A i \in k + 2 .. k + 1 + l : i - (k + 1) = i - k - 1
        OBVIOUS
      <3> QED
        BY <1>4, <2>1, <2>2, <3>1
  <1>9. PlanOK
    <2>1. \A i \in 1 .. k : plan[i].kind = "pre"
      BY <1>4, <1>8
    <2>2. \A i \in k + 2 .. Len(plan) : plan[i].kind = "post"
      <3> SUFFICES ASSUME NEW i \in k + 2 .. Len(plan) PROVE plan[i].kind = "post"
        OBVIOUS
      <3>1. i - k - 1 \in 1 .. l /\ plan[i] = post[i - k - 1]
        BY <1>8
      <3> QED
        BY <1>4, <3>1
    <2> QED
      BY <2>1, <2>2, <1>5, <1>8 DEF PlanOK
  <1>10. ResultsOK
    BY <1>8 DEF RoleInit, ResultsOK, Done
  <1>11. RunOK
    BY RoleAssumption DEF RoleInit, Idle, RunOK
  <1> QED
    BY <1>9, <1>10, <1>11 DEF RoleInv

\* A job ends: the change goes on to the next one, or is over.
LEMMA FinishOK ==
    ASSUME RoleInv, ~Done, NEW ok \in BOOLEAN, Finish(ok)
    PROVE  RoleInv'
  <1>1. plan' = plan /\ results' = Append(results, ok) /\ Len(results) = at - 1
    BY DEF Finish, config, RoleInv, ResultsOK
  <1>2. /\ at \in Nat \ {0} /\ at <= Len(plan) /\ Len(plan) \in Nat
        /\ results \in Seq(BOOLEAN)
    BY DEF RoleInv, ResultsOK, PlanOK, Done
  <1>3. /\ results' \in Seq(BOOLEAN) /\ Len(results') = at /\ results'[at] = ok
        /\ \A i \in 1 .. at - 1 : results'[i] = results[i]
    BY <1>1, <1>2
  <1>4. \A i \in 1 .. at - 1 : WentOn(i)'
    BY <1>1, <1>2, <1>3 DEF RoleInv, ResultsOK, WentOn, Aborts
  <1>5. PlanOK'
    BY <1>1 DEF RoleInv, PlanOK
  <1>6. RunOK'
    BY RoleAssumption DEF Finish, RunOK
  <1>7. CASE Aborts(plan[at], ok)
    <2>1. at' = Len(plan) + 1
      BY <1>7 DEF Finish
    <2>2. ResultsOK'
      BY <1>1, <1>2, <1>3, <1>4, <1>7, <2>1 DEF ResultsOK, Done, WentOn
    <2> QED
      BY <1>5, <1>6, <2>2 DEF RoleInv
  <1>8. CASE ~Aborts(plan[at], ok)
    <2>1. at' = at + 1
      BY <1>8 DEF Finish
    <2>2. ResultsOK'
      BY <1>1, <1>2, <1>3, <1>4, <1>8, <2>1 DEF ResultsOK, Done, WentOn
    <2> QED
      BY <1>5, <1>6, <2>2 DEF RoleInv
  <1> QED
    BY <1>7, <1>8

\* What the process does, and the reading of what it has written, are no job's end.
LEMMA RunStepOK ==
    ASSUME RoleInv, UNCHANGED <<config, at, results>>, RunOK'
    PROVE  RoleInv'
  BY DEF config, RoleInv, PlanOK, ResultsOK, WentOn, Aborts, Done

\* What the manager does with a job: it skips, starts, reads or ends it.
LEMMA ManagerStepOK == RoleInv /\ ManagerRuns => RoleInv'
  <1> SUFFICES ASSUME RoleInv, ManagerRuns PROVE RoleInv'
    OBVIOUS
  <1>1. CASE SkipJob \/ StartFails
    BY <1>1, FinishOK DEF SkipJob, StartFails
  <1>2. CASE StartJob
    <2>1. RunOK'
      BY <1>2 DEF StartJob, config, RoleInv, RunOK, Done
    <2> QED
      BY <1>2, <2>1, RunStepOK DEF StartJob
  <1>3. CASE Wait
    <2>1. ~Done /\ (process = "success") \in BOOLEAN /\ Finish(process = "success")
      BY <1>3 DEF Wait, Exited, RoleInv, RunOK
    <2> QED
      BY <2>1, FinishOK
  <1>4. ASSUME NEW s \in Stream, Read(s) PROVE RoleInv'
    <2>1. pipe[s] \in Seq(Line) /\ pipe[s] # <<>>
      BY <1>4 DEF Read, RoleInv, RunOK
    <2>2. Tail(pipe[s]) \in Seq(Line) /\ Len(Tail(pipe[s])) <= Len(pipe[s])
      BY <2>1
    <2>3. /\ pipe' \in [Stream -> Seq(Line)]
          /\ \A t \in Stream : Len(pipe'[t]) <= PipeSize
      BY <1>4, <2>2, RoleAssumption DEF Read, RoleInv, RunOK
    <2>4. RunOK'
      BY <1>4, <2>3 DEF Read, config, RoleInv, RunOK, Done
    <2> QED
      BY <1>4, <2>4, RunStepOK DEF Read
  <1>5. ASSUME NEW s \in Stream, EndOfFile(s) PROVE RoleInv'
    <2>1. RunOK'
      BY <1>5 DEF EndOfFile, config, RoleInv, RunOK, Done
    <2> QED
      BY <1>5, <2>1, RunStepOK DEF EndOfFile
  <1> QED
    BY <1>1, <1>2, <1>3, <1>4, <1>5 DEF ManagerRuns

\* What the process does: it writes, and it exits.
LEMMA ProcessStepOK ==
    ASSUME RoleInv,
           ProcessRuns \/ \E s \in Stream, line \in Line : BeginWrite(s, line)
    PROVE  RoleInv'
  <1>1. CASE Write
    <2>1. PICK s \in Stream :
            /\ writing[1] = s /\ Len(pipe[s]) < PipeSize
            /\ pipe' = [pipe EXCEPT ![s] = Append(@, writing[2])]
      BY <1>1 DEF Write
    <2>2. writing # Nothing
      BY <2>1 DEF Nothing, Stream
    <2>3. writing[2] \in Line /\ pipe[s] \in Seq(Line)
      BY <2>2 DEF RoleInv, RunOK
    <2>4. /\ Append(pipe[s], writing[2]) \in Seq(Line)
          /\ Len(Append(pipe[s], writing[2])) = Len(pipe[s]) + 1
      BY <2>3
    <2>5. /\ pipe' \in [Stream -> Seq(Line)]
          /\ \A t \in Stream : Len(pipe'[t]) <= PipeSize
      BY <2>1, <2>3, <2>4, RoleAssumption DEF RoleInv, RunOK
    <2>6. RunOK'
      BY <1>1, <2>5 DEF Write, config, RoleInv, RunOK, Done
    <2> QED
      BY <1>1, <2>6, RunStepOK DEF Write
  <1>2. ASSUME NEW code \in {"success", "failure"}, Exit(code) PROVE RoleInv'
    <2>1. RunOK'
      BY <1>2 DEF Exit, config, RoleInv, RunOK, Done
    <2> QED
      BY <1>2, <2>1, RunStepOK DEF Exit
  <1>3. ASSUME NEW s \in Stream, NEW line \in Line, BeginWrite(s, line) PROVE RoleInv'
    <2>1. writing' \in Stream \X Line /\ output' \in 0 .. MaxOutput
      BY <1>3, RoleAssumption DEF BeginWrite, RoleInv, RunOK
    <2>2. RunOK'
      BY <1>3, <2>1 DEF BeginWrite, config, RoleInv, RunOK, Done
    <2> QED
      BY <1>3, <2>2, RunStepOK DEF BeginWrite
  <1> QED
    BY <1>1, <1>2, <1>3 DEF ProcessRuns

\* The conjunction is inductive.
THEOREM RoleInvariant == RoleSpec => []RoleInv
  <1>1. ASSUME RoleInv, ChangeRoleAgain PROVE RoleInv'
    <2>1. Len(plan) \in Nat \ {0}
      BY <1>1 DEF RoleInv, PlanOK
    <2>2. ResultsOK'
      BY <1>1, <2>1 DEF ChangeRoleAgain, config, ResultsOK, Done, RoleInv
    <2>3. process = "none"
      BY <1>1 DEF ChangeRoleAgain, RoleInv, RunOK
    <2> QED
      BY <1>1, <2>2, <2>3 DEF ChangeRoleAgain, config, run, RoleInv, PlanOK, RunOK
  <1>2. ASSUME RoleInv, UNCHANGED roleVars PROVE RoleInv'
    BY <1>2 DEF roleVars, config, run, RoleInv, PlanOK, ResultsOK, RunOK, WentOn, Aborts, Done
  <1>3. RoleInv /\ [RoleNext]_roleVars => RoleInv'
    BY <1>1, <1>2, ManagerStepOK, ProcessStepOK DEF RoleNext
  <1> QED
    BY RoleInvInit, <1>3, PTL DEF RoleSpec

\* Every variable of a role change keeps its type.
THEOREM RoleTypeCorrect == RoleSpec => []RoleTypeOK
  <1>1. RoleInv => RoleTypeOK
    BY DEF RoleInv, ResultsOK, RunOK, RoleTypeOK, PlanOK, Done
  <1> QED
    BY RoleInvariant, <1>1, PTL

\* The command runs only behind must_succeed pre hooks that succeeded, and post hooks
\* only behind a command that did, however many hooks there are.
THEOREM HooksAlwaysGuard == RoleSpec => []HooksGuardCommand
  <1>1. RoleInv => HooksGuardCommand
    <2> SUFFICES ASSUME RoleInv, process = "running", NEW i \in 1 .. at - 1,
                        plan[i].kind = "command" \/ (plan[i].kind = "pre" /\ plan[i].must)
                 PROVE  results[i]
      BY DEF HooksGuardCommand
    <2>1. ~Done /\ i \in 1 .. Len(results) /\ results[i] \in BOOLEAN /\ WentOn(i)
      BY DEF RoleInv, ResultsOK, RunOK, PlanOK
    <2>2. i \in 1 .. Len(plan) /\ plan[i].must
      BY <2>1 DEF RoleInv, ResultsOK, PlanOK
    <2> QED
      BY <2>1, <2>2 DEF WentOn, Aborts
  <1> QED
    BY RoleInvariant, <1>1, PTL

\* A command that succeeded is followed by all post hooks, whatever they come to.
THEOREM PostHooksAlwaysRun == RoleSpec => []PostHooksAllRun
  <1>1. RoleInv => PostHooksAllRun
    <2> SUFFICES ASSUME RoleInv, Done, NEW i \in 1 .. Len(results), IsCommand(i), results[i]
                 PROVE  Len(results) = Len(plan)
      BY DEF PostHooksAllRun
    <2>1. PICK c \in 1 .. Len(plan) :
            /\ plan[c].kind = "command"
            /\ \A j \in 1 .. c - 1 : plan[j].kind = "pre"
            /\ \A j \in c + 1 .. Len(plan) : plan[j].kind = "post"
      BY DEF RoleInv, PlanOK
    <2>2. i = c
      BY <2>1 DEF IsCommand
    <2>3. CASE Len(results) \in 1 .. Len(plan) /\ ~WentOn(Len(results))
      <3>1. Len(results) <= c
        BY <2>1, <2>3 DEF WentOn, Aborts
      <3> QED
        BY <2>2, <2>3, <3>1 DEF WentOn, Aborts
    <2> QED
      BY <2>3 DEF RoleInv, ResultsOK
  <1> QED
    BY RoleInvariant, <1>1, PTL
=============================================================================
