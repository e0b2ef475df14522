---------------------------- MODULE RoleCommand ----------------------------
(***************************************************************************)
(* A role change from its first hook to its last (the calls in the middle  *)
(* of ensureActive and ensurePassive): config/hooks.go, config/role.go and *)
(* command/command.go.  The hooks and the command are processes that write *)
(* to two pipes of limited size and exit as they like; the manager reads   *)
(* the pipes and waits for the exit, without a time limit.  HAManager and  *)
(* HACluster take the outcome of all this as a parameter.                  *)
(***************************************************************************)
EXTENDS Naturals, Sequences

CONSTANTS
    MaxPre,     \* the longest list of pre hooks, and
    MaxPost,    \* of post hooks, considered
    PipeSize,   \* lines a pipe holds
    MaxOutput   \* lines a process writes, at most

ASSUME RoleAssumption ==
    MaxPre \in Nat /\ MaxPost \in Nat /\ PipeSize \in Nat \ {0} /\ MaxOutput \in Nat

Stream == {"stdout", "stderr"}

\* A long line does not fit into the buffer of a bufio.Scanner.
Line == {"short", "long"}

Job == [kind : {"pre", "command", "post"}, must : BOOLEAN]

\* Nothing calls Hooks.Validate: a post hook may be configured to be must_succeed.
Hooks(kind, max) ==
    UNION {[1 .. k -> {j \in Job : j.kind = kind}] : k \in 0 .. max}

VARIABLES
    plan,       \* the jobs of the role: pre hooks, command, post hooks
    dryRun,     \* failover.dry_run
    streaming,  \* StreamOutput: set by the manager's own calls
    at,         \* the job that is next or running
    results,    \* whether each job before it succeeded
    process,    \* the running job's process
    writing,    \* what it is writing, and where
    output,     \* how many lines it has begun
    pipe,       \* what it has written and nobody has read
    reader      \* the reader of each pipe

config == <<plan, dryRun, streaming>>
run == <<process, writing, output, pipe, reader>>
roleVars == <<config, at, results, run>>

Nothing == <<"nowhere", "nothing">>

Idle ==
    /\ process = "none" /\ writing = Nothing /\ output = 0
    /\ pipe = [s \in Stream |-> <<>>]
    /\ reader = [s \in Stream |-> "reading"]

RoleInit ==
    /\ \E pre \in Hooks("pre", MaxPre), post \in Hooks("post", MaxPost) :
          plan = pre \o <<[kind |-> "command", must |-> TRUE]>> \o post
    /\ dryRun \in BOOLEAN /\ streaming \in BOOLEAN
    /\ at = 1 /\ results = <<>>
    /\ Idle

Done == at > Len(plan)

\* Mutants: the failure of a pre hook is only logged; a post hook can abort too.
Aborts_NeverHook(job, ok) == ~ok /\ job.kind = "command"
Aborts_AnyHook(job, ok) == ~ok /\ job.must

\* RunPre returns at a failed must_succeed hook, ensureX at a failed command;
\* RunPost logs and goes on.
Aborts(job, ok) == ~ok /\ job.must /\ job.kind # "post"

Finish(ok) ==
    /\ results' = Append(results, ok)
    /\ at' = IF Aborts(plan[at], ok) THEN Len(plan) + 1 ELSE at + 1
    /\ process' = "none" /\ writing' = Nothing /\ output' = 0
    /\ pipe' = [s \in Stream |-> <<>>]
    /\ reader' = [s \in Stream |-> "reading"]
    /\ UNCHANGED config

SkipJob ==
    /\ ~Done /\ dryRun
    /\ Finish(TRUE)

\* Mutant: a job that cannot be started is tried again.
StartFails_Retry ==
    /\ ~Done /\ ~dryRun /\ process = "none"
    /\ results' = Append(results, FALSE)
    /\ UNCHANGED <<config, at, run>>

StartFails ==
    /\ ~Done /\ ~dryRun /\ process = "none"
    /\ Finish(FALSE)

StartJob ==
    /\ ~Done /\ ~dryRun /\ process = "none"
    /\ process' = "running"
    /\ UNCHANGED <<config, at, results, writing, output, pipe, reader>>

-----------------------------------------------------------------------------
(***************************************************************************)
(* The process.                                                            *)
(***************************************************************************)
BeginWrite(s, line) ==
    /\ process = "running" /\ writing = Nothing
    /\ output < MaxOutput
    /\ writing' = <<s, line>>
    /\ output' = output + 1
    /\ UNCHANGED <<config, at, results, process, pipe, reader>>

\* A write waits until there is room in the pipe.
Write ==
    /\ \E s \in Stream :
          /\ writing[1] = s /\ Len(pipe[s]) < PipeSize
          /\ pipe' = [pipe EXCEPT ![s] = Append(@, writing[2])]
    /\ writing' = Nothing
    /\ UNCHANGED <<config, at, results, process, output, reader>>

Exit(code) ==
    /\ process = "running" /\ writing = Nothing
    /\ process' = code
    /\ UNCHANGED <<config, at, results, writing, output, pipe, reader>>

-----------------------------------------------------------------------------
(***************************************************************************)
(* The manager.  When it streams, a goroutine for each pipe scans it line  *)
(* by line and gives up at a long one; else io.ReadAll reads all of stdout *)
(* and then all of stderr.                                                 *)
(***************************************************************************)
\* Mutant: the pipes are streamed one after the other.
Reads_InTurn(s) == reader[s] = "reading" /\ (s = "stdout" \/ reader["stdout"] # "reading")

Reads(s) ==
    /\ reader[s] = "reading"
    /\ streaming \/ s = "stdout" \/ reader["stdout"] = "ended"

Read(s) ==
    /\ process # "none" /\ Reads(s) /\ pipe[s] # <<>>
    /\ pipe' = [pipe EXCEPT ![s] = Tail(@)]
    /\ reader' = IF streaming /\ Head(pipe[s]) = "long"
                   THEN [reader EXCEPT ![s] = "stopped"] ELSE reader
    /\ UNCHANGED <<config, at, results, process, writing, output>>

Exited == process \in {"success", "failure"}

\* The process has exited and its output is read.
EndOfFile(s) ==
    /\ Exited /\ Reads(s) /\ pipe[s] = <<>>
    /\ reader' = [reader EXCEPT ![s] = "ended"]
    /\ UNCHANGED <<config, at, results, process, writing, output, pipe>>

\* cmd.Wait closes the pipes.  The streaming goroutines are not waited for:
\* what they have not read by now is lost.
Wait ==
    /\ Exited
    /\ streaming \/ \A s \in Stream : reader[s] = "ended"
    /\ Finish(process = "success")

\* The monitor loop decides to change the role again at a later poll.
ChangeRoleAgain ==
    /\ Done
    /\ at' = 1 /\ results' = <<>>
    /\ UNCHANGED <<config, run>>

ManagerRuns ==
    \/ SkipJob \/ StartFails \/ StartJob \/ Wait
    \/ \E s \in Stream : Read(s) \/ EndOfFile(s)

ProcessRuns == Write \/ \E code \in {"success", "failure"} : Exit(code)

RoleNext ==
    \/ ManagerRuns \/ ProcessRuns \/ ChangeRoleAgain
    \/ \E s \in Stream, line \in Line : BeginWrite(s, line)

RoleSpec == RoleInit /\ [][RoleNext]_roleVars

\* The goroutines are scheduled, and a process that can go on does and exits.
FairRoleSpec ==
    /\ RoleSpec
    /\ WF_roleVars(SkipJob \/ StartFails \/ StartJob) /\ WF_roleVars(Wait)
    /\ \A s \in Stream : WF_roleVars(Read(s)) /\ WF_roleVars(EndOfFile(s))
    /\ WF_roleVars(ProcessRuns)
-----------------------------------------------------------------------------
RoleTypeOK ==
    /\ at \in 1 .. Len(plan) + 1
    /\ Len(results) < at /\ \A i \in 1 .. Len(results) : results[i] \in BOOLEAN
    /\ process \in {"none", "running", "success", "failure"}
    /\ writing \in (Stream \X Line) \cup {Nothing}
    /\ output \in 0 .. MaxOutput
    /\ \A s \in Stream : Len(pipe[s]) <= PipeSize
    /\ reader \in [Stream -> {"reading", "stopped", "ended"}]

IsCommand(i) == i <= Len(plan) /\ plan[i].kind = "command"

\* The role command is started only after every must_succeed pre hook has
\* succeeded, and no post hook before the command has succeeded.
HooksGuardCommand ==
    process = "running" =>
        \A i \in 1 .. at - 1 :
            plan[i].kind = "command" \/ (plan[i].kind = "pre" /\ plan[i].must) => results[i]

\* A role change whose command succeeded runs every post hook, even one that was
\* configured as must_succeed and the ones after it.
PostHooksAllRun ==
    Done /\ (\E i \in 1 .. Len(results) : IsCommand(i) /\ results[i])
        => Len(results) = Len(plan)

\* A process is stuck in a write that nobody will make room for.
Stuck ==
    \E s \in Stream :
        /\ writing[1] = s /\ Len(pipe[s]) = PipeSize
        /\ IF streaming THEN reader[s] = "stopped" ELSE s = "stderr"

\* Every role change comes to an end and its monitor loop with it, unless a
\* process writes a long line and then more than a pipe holds, which a streaming
\* reader has given up on (or, not streamed, fills stderr before it closes stdout).
RunsEnd == []<>Done \/ <>[]Stuck
=============================================================================
