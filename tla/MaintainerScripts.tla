-------------------------- MODULE MaintainerScripts -------------------------
(***************************************************************************)
(* A run of a maintainer script (crates/tpt-l-maintainer-scripts): it is   *)
(* planned, which looks for it, and then executed, in the sandbox or as a  *)
(* plain process; between the two anything may happen to the file.         *)
(* A runner takes the maintainer script profile; the other configurations  *)
(* are those of Sandbox::run's other callers.                              *)
(***************************************************************************)
EXTENDS Sandbox, TLC

CONSTANTS Defaults, ConfigEnv, ExtraEnv  \* environments, functions of names

VARIABLES runner,   \* "ready", "planned", "done"
          sandboxed,\* RunnerConfig::use_sandbox
          env,      \* of the plan
          outcome
scriptVars == <<sandboxVars, runner, sandboxed, env, outcome>>

\* What comes later overrides: the defaults, the configuration, the caller.
EnvMap == ExtraEnv @@ ConfigEnv @@ Defaults

ScriptInit ==
    /\ SandboxInit /\ runner = "ready" /\ env = <<>> /\ outcome = None
    /\ sandboxed \in {s \in BOOLEAN : ~s => Unrestricted(config)}

Plan ==
    /\ runner = "ready"
    /\ IF present THEN runner' = "planned" /\ env' = EnvMap /\ UNCHANGED outcome
       ELSE runner' = "done" /\ outcome' = Err("ScriptNotFound") /\ UNCHANGED env
    /\ UNCHANGED <<sandboxVars, sandboxed>>

\* Fault: code().unwrap_or(0).
OutcomeOrZero(r) ==
    CASE r.kind = "ok" -> Ok(IF r.status.kind = "exit" THEN r.status ELSE Exit(0))
      [] OTHER         -> Err("Sandbox")
\* exit_to_outcome, and the errors as execute maps them.
OutcomeOf(r) ==
    CASE r.kind = "ok" /\ r.status.kind = "exit"   -> Ok(r.status)
      [] r.kind = "ok" /\ r.status.kind = "signal" -> Err("Signaled")
      [] r.kind = "err" /\ sandboxed               -> Err("Sandbox")
      [] r.kind = "err" /\ ~sandboxed              ->
            Err(IF r.error = "NotFound" THEN "ScriptNotFound" ELSE "SpawnFailed")
Conclude ==
    /\ runner = "planned" /\ caller = "returned"
    /\ runner' = "done" /\ outcome' = OutcomeOf(result)
    /\ UNCHANGED <<sandboxVars, sandboxed, env>>

Execute == runner = "planned" /\ SandboxNext /\ UNCHANGED <<runner, sandboxed, env, outcome>>
ScriptNext == Plan \/ Execute \/ Conclude
              \/ (runner = "ready" /\ Remove /\ UNCHANGED <<runner, sandboxed, env, outcome>>)

\* The scheduler runs every process, and a script ends.
ScriptSpec == /\ ScriptInit /\ [][ScriptNext]_scriptVars
              /\ WF_scriptVars(Plan \/ Conclude)
              /\ WF_scriptVars(Execute /\ CallerStep)
              /\ WF_scriptVars(Execute /\ MiddleStep)
              /\ WF_scriptVars(Execute /\ ChildStep)

-----------------------------------------------------------------------------
(***************************************************************************)
(* A script succeeds only if it was there, ran to its end and left with 0, *)
(* in the sandbox and out of it; one that was removed after the plan was   *)
(* made is an error, never an outcome (lines 242-302, 334-340), and what   *)
(* run returned to it is real.                                             *)
(***************************************************************************)
SuccessIsReal ==
    /\ ResultIsReal
    /\ (runner = "done" /\ outcome.kind = "ok" /\ "cut" \notin torn) =>
          /\ outcome.status.code = 0 => child = "gone" /\ status["child"] = Exit(0)
          /\ torn = {} => child = "gone"

\* Every run of a script has an outcome.
ScriptReturns == runner = "ready" ~> runner = "done"
=============================================================================
