------------------------------- MODULE Sandbox ------------------------------
(***************************************************************************)
(* One Sandbox::run (crates/tpt-l-linux-sandbox-rs/src/lib.rs, mount.rs):  *)
(* the caller forks a middle process, which enters the namespaces and      *)
(* forks the process that mounts, installs the filter and runs the         *)
(* command.  A failure to set up is told over a pipe, the exit of the      *)
(* command by way of the middle process.                                   *)
(*                                                                         *)
(* Each process takes its own steps; any of them may be killed, and a wait *)
(* interrupted by a signal handler.                                        *)
(***************************************************************************)
EXTENDS Integers, Sequences

CONSTANTS Paths,
          Configs,       \* the configurations, see Config
          Codes,         \* exit codes of the command
          Killed,        \* the number of SIGKILL
          MaxSignals     \* bound

Bind   == [to : Paths, from : Paths, readOnly : BOOLEAN]
Config == [net : BOOLEAN, ipc : BOOLEAN, filter : BOOLEAN, mounts : Seq(Bind)]

ASSUME SandboxAssumption ==
    /\ Configs \subseteq Config
    /\ Codes \subseteq 0..127 /\ Killed \in 1..31 /\ MaxSignals \in Nat

VARIABLES config,   \* SandboxConfig
          present,  \* the command is there
          caller,   \* "ready", "wait", "read", "direct", "returned"
          middle,   \* "none", "unshare", "map", "fork", "wait", "gone"
          child,    \* "none", "private", "mount", "readonly", "filter",
                    \* "exec", "running", "gone"
          status,   \* process -> its exit status, as waitpid tells it
          pipe,     \* what was written to the pipe: <<>> or a tag
          at,       \* the mount the child is at
          inside,   \* what holds for the child: [namespaces, private, mounts, filter]
          result,   \* what run returned
          signals,  \* bounded counter
          torn      \* history: "killed" a process, "cut" short a wait

world       == <<config, present>>
sandboxVars == <<world, caller, middle, child, status, pipe, at, inside, result, signals, torn>>

None      == [kind |-> "none"]
Exit(c)   == [kind |-> "exit", code |-> c]
Signal(s) == [kind |-> "signal", signal |-> s]
Ok(s)     == [kind |-> "ok", status |-> s]
Err(e)    == [kind |-> "err", error |-> e]

Unrestricted(c) == c.net /\ c.ipc /\ c.mounts = <<>> /\ ~c.filter
Namespaces(c)   == {"user", "pid", "mount"} \cup (IF c.net THEN {} ELSE {"net"})
                                            \cup (IF c.ipc THEN {} ELSE {"ipc"})
Open == [namespaces |-> {}, private |-> FALSE, mounts |-> <<>>, filter |-> FALSE]

SandboxInit ==
    /\ config \in Configs /\ present \in BOOLEAN /\ caller = "ready" /\ middle = "none" /\ child = "none"
    /\ status = [p \in {"middle", "child"} |-> None] /\ pipe = <<>> /\ at = 1
    /\ inside = Open /\ result = None /\ signals = 0 /\ torn = {}

-----------------------------------------------------------------------------
(* The caller. *)

Return(r) == caller' = "returned" /\ result' = r

\* An unrestricted profile runs the command as a plain child.
Run ==
    /\ caller = "ready"
    /\ IF Unrestricted(config)
       THEN /\ UNCHANGED middle
            /\ \/ ~present /\ Return(Err("NotFound")) /\ UNCHANGED child
               \/ present /\ caller' = "direct" /\ child' = "running" /\ UNCHANGED result
               \/ Return(Err("Io")) /\ UNCHANGED child
       ELSE \/ /\ caller' = "wait" /\ middle' = "unshare" /\ UNCHANGED <<child, result>>
            \/ /\ Return(Err("SpawnFailed")) /\ UNCHANGED <<middle, child>>   \* pipe2, fork
    /\ UNCHANGED <<world, status, pipe, at, inside, signals, torn>>

RunDirectEnds ==
    /\ caller = "direct" /\ child = "gone"
    /\ Return(Ok(status["child"])) \/ Return(Err("Io"))
    /\ UNCHANGED <<world, middle, child, status, pipe, at, inside, signals, torn>>

\* Fault: the caller waits for the command itself.
WaitCommand ==
    /\ caller = "wait" /\ middle = "gone" /\ child = "gone"
    /\ caller' = "read"
    /\ UNCHANGED <<world, middle, child, status, pipe, at, inside, result, signals, torn>>
\* waitpid is called again when a signal interrupts it; any other error of it
\* is returned, and nothing of the pipe is read (ECHILD: nobody is left to wait
\* for, the system has taken the status when SIGCHLD is ignored).
WaitMiddle ==
    /\ caller = "wait" /\ middle = "gone"
    /\ \/ caller' = "read" /\ UNCHANGED result
       \/ Return(Err("Io"))
    /\ UNCHANGED <<world, middle, child, status, pipe, at, inside, signals, torn>>

ErrorOf(tag) ==
    CASE tag \in {"unshare", "mount"} -> "NamespaceSetup"
      [] tag = "seccomp"              -> "SeccompInstall"
      [] OTHER                        -> "SpawnFailed"
\* The pipe is at its end when no process holds it open; a command that runs
\* does not (O_CLOEXEC).
ReadTag ==
    /\ caller = "read"
    /\ \/ pipe # <<>> /\ Return(Err(ErrorOf(Head(pipe))))
       \/ /\ pipe = <<>> /\ child \in {"none", "running", "gone"}
          /\ Return(Ok(status["middle"]))
    /\ UNCHANGED <<world, middle, child, status, pipe, at, inside, signals, torn>>

-----------------------------------------------------------------------------
(* The middle process. *)

Report(tag) == pipe' = Append(pipe, tag)
MiddleExits(s) == middle' = "gone" /\ status' = [status EXCEPT !["middle"] = s]

Unshare ==
    /\ middle = "unshare"
    /\ \/ /\ inside' = [inside EXCEPT !.namespaces = Namespaces(config)]
          /\ middle' = "map" /\ UNCHANGED <<status, pipe>>
       \/ Report("unshare") /\ MiddleExits(Exit(127)) /\ UNCHANGED inside
    /\ UNCHANGED <<world, caller, child, at, result, signals, torn>>

\* A map that cannot be written is only logged.
MapIds ==
    /\ middle = "map" /\ middle' = "fork"
    /\ UNCHANGED <<world, caller, child, status, pipe, at, inside, result, signals, torn>>

ForkChild ==
    /\ middle = "fork"
    /\ \/ middle' = "wait" /\ child' = "private" /\ UNCHANGED <<status, pipe>>
       \/ Report("fork") /\ MiddleExits(Exit(127)) /\ UNCHANGED child
    /\ UNCHANGED <<world, caller, at, inside, result, signals, torn>>

\* A death by a signal is an exit with 128 + its number.
Propagated(s) == IF s.kind = "signal" THEN Exit(128 + s.signal) ELSE s
WaitChild ==
    /\ middle = "wait" /\ child = "gone"
    /\ MiddleExits(Propagated(status["child"]))
    /\ UNCHANGED <<world, caller, child, pipe, at, inside, result, signals, torn>>

\* This waitpid is not called again: its status is still 0, an exit with 0.
WaitInterrupted ==
    /\ middle = "wait" /\ child # "gone" /\ signals < MaxSignals
    /\ signals' = signals + 1 /\ torn' = torn \cup {"cut"}
    /\ MiddleExits(Exit(0))
    /\ UNCHANGED <<world, caller, child, pipe, at, inside, result>>

-----------------------------------------------------------------------------
(* The child. *)

ChildExits(s) == child' = "gone" /\ status' = [status EXCEPT !["child"] = s]
FailSetup(tag) == Report(tag) /\ ChildExits(Exit(127)) /\ UNCHANGED <<at, inside>>
Go(pc) == child' = pc /\ UNCHANGED <<status, pipe>>

NextMount(i) == IF i <= Len(config.mounts) THEN "mount" ELSE "filter"
\* Nothing is made private when there is nothing to mount.
MakePrivate ==
    /\ child = "private"
    /\ \/ /\ Go(NextMount(1)) /\ UNCHANGED at
          /\ inside' = [inside EXCEPT !.private = config.mounts # <<>>]
       \/ config.mounts # <<>> /\ FailSetup("mount")

Mount == config.mounts[at]
\* The destination is made if need be, then mounted, then made read-only.
BindMount ==
    /\ child = "mount"
    /\ \/ /\ inside' = [inside EXCEPT !.mounts =
                           Append(@, [to |-> Mount.to, from |-> Mount.from, readOnly |-> FALSE])]
          /\ IF Mount.readOnly THEN Go("readonly") /\ UNCHANGED at
             ELSE at' = at + 1 /\ Go(NextMount(at + 1))
       \/ FailSetup("mount")
Remount ==
    /\ child = "readonly"
    /\ \/ /\ inside' = [inside EXCEPT !.mounts[Len(inside.mounts)].readOnly = TRUE]
          /\ at' = at + 1 /\ Go(NextMount(at + 1))
       \/ FailSetup("mount")

\* Fault: a filter that cannot be installed is only logged.
InstallSeccompLogged ==
    /\ child = "filter" /\ Go("exec") /\ UNCHANGED at
    /\ \/ inside' = [inside EXCEPT !.filter = config.filter]
       \/ UNCHANGED inside
InstallSeccomp ==
    /\ child = "filter"
    /\ \/ inside' = [inside EXCEPT !.filter = config.filter] /\ Go("exec") /\ UNCHANGED at
       \/ config.filter /\ FailSetup("seccomp")

Exec ==
    /\ child = "exec"
    /\ \/ present /\ Go("running") /\ UNCHANGED <<at, inside>>
       \/ FailSetup("exec")

Command ==
    /\ child = "running"
    /\ \E s \in {Exit(c) : c \in Codes} \cup {Signal(Killed)} : ChildExits(s)
    /\ UNCHANGED <<pipe, at, inside>>

ChildStep ==
    /\ MakePrivate \/ BindMount \/ Remount \/ InstallSeccomp \/ Exec \/ Command
    /\ UNCHANGED <<world, caller, middle, result, signals, torn>>

-----------------------------------------------------------------------------
\* A process may be killed from outside, also before it has said anything.
Kill ==
    /\ signals < MaxSignals /\ signals' = signals + 1 /\ torn' = torn \cup {"killed"}
    /\ \/ child \notin {"none", "gone"} /\ ChildExits(Signal(Killed)) /\ UNCHANGED middle
       \/ middle \notin {"none", "gone"} /\ MiddleExits(Signal(Killed)) /\ UNCHANGED child
    /\ UNCHANGED <<world, caller, pipe, at, inside, result>>

\* The command is removed by somebody else.
Remove ==
    /\ present /\ present' = FALSE
    /\ UNCHANGED <<config, caller, middle, child, status, pipe, at, inside, result, signals, torn>>

CallerStep  == Run \/ RunDirectEnds \/ WaitMiddle \/ ReadTag
MiddleStep  == Unshare \/ MapIds \/ ForkChild \/ WaitChild
SandboxNext == CallerStep \/ MiddleStep \/ ChildStep \/ WaitInterrupted \/ Kill \/ Remove

-----------------------------------------------------------------------------
(***************************************************************************)
(* A command runs under every restriction of the configuration: it is in   *)
(* the namespaces, in a private mount tree if anything was mounted, with   *)
(* every mount made, read-only where that was asked for, and the filter    *)
(* installed; whatever failed on the way, or was killed (lines 340-383).   *)
(***************************************************************************)
RunsRestricted ==
    child = "running" /\ ~Unrestricted(config) =>
        /\ inside.namespaces = Namespaces(config)
        /\ inside.filter = config.filter
        /\ inside.mounts = config.mounts
        /\ config.mounts # <<>> => inside.private

(***************************************************************************)
(* What run returns is what became of the command: Ok with its exit status *)
(* only if it was reached and nothing of it still runs, and an error if a  *)
(* step before it failed; an I/O error, of a wait, tells only that nothing *)
(* of it still runs.  If a process was killed from outside that is not     *)
(* taken for a success; if the middle process stopped waiting nothing is   *)
(* known (lines 388-397, 408-468).                                         *)
(***************************************************************************)
Ended(s) == IF middle = "none" THEN s ELSE Propagated(s)
ResultIsReal ==
    caller = "returned" =>
        /\ pipe # <<>> => result.kind = "err"
        /\ (torn = {} /\ pipe = <<>> /\ child # "none") =>
              child = "gone" /\ result \in {Ok(Ended(status["child"])), Err("Io")}
        /\ (result = Ok(Exit(0)) /\ "cut" \notin torn) => status["child"] = Exit(0)

=============================================================================
