--------------------------- MODULE SandboxProofs ----------------------------
(***************************************************************************)
(* The command of a sandbox runs under every restriction of its            *)
(* configuration, and what is told of it is what became of it, for every   *)
(* list of mounts and whatever fails or is killed on the way; and the      *)
(* program of its filter allows what the rules of the profile do.          *)
(***************************************************************************)
EXTENDS MaintainerScripts, Seccomp, SequenceTheorems, WellFoundedInduction, TLAPS

SettingUp == {"private", "mount", "readonly", "filter", "exec"}

SandboxTypes ==
    /\ config \in Config
    /\ inside \in [namespaces : SUBSET {"user", "pid", "mount", "net", "ipc"},
                   private : BOOLEAN, mounts : Seq(Bind), filter : BOOLEAN]
    /\ at \in Nat \ {0}
    /\ child \in SettingUp \cup {"none", "running", "gone"}

\* Nothing was mounted before there is a child, and there is none before the
\* middle process has made it.
NotBegun ==
    /\ caller = "ready" => middle = "none" /\ child = "none"
    /\ middle \in {"unshare", "map", "fork"} => child = "none"
    /\ child \in {"none", "private"} => at = 1 /\ inside.mounts = <<>>
InNamespaces ==
    middle \in {"map", "fork"} \/ child \in SettingUp
    => inside.namespaces = Namespaces(config)

\* The mounts made are those of the configuration up to the one it is at,
\* of which a read-only one is still writable before it is mounted again.
IsMade(i)  == inside.mounts[i] = config.mounts[i]
MountsMade ==
    /\ child \in {"mount", "readonly"} => at <= Len(config.mounts)
    /\ child = "filter" => at = Len(config.mounts) + 1
    /\ child \in {"mount", "filter"} =>
         Len(inside.mounts) = at - 1 /\ \A i \in 1 .. at - 1 : IsMade(i)
    /\ child = "readonly" =>
         /\ Len(inside.mounts) = at
         /\ \A i \in 1 .. at - 1 : IsMade(i)
         /\ inside.mounts[at] = [to |-> Mount.to, from |-> Mount.from, readOnly |-> FALSE] /\ Mount.readOnly
    /\ child \in {"mount", "readonly", "filter"} => inside.private = (config.mounts # <<>>)

Restricted ==
    /\ inside.namespaces = Namespaces(config)
    /\ inside.filter = config.filter
    /\ inside.mounts = config.mounts
    /\ config.mounts # <<>> => inside.private
ReadyToExec == child = "exec" => Restricted

RestrictedInv ==
    /\ SandboxTypes
    /\ NotBegun
    /\ InNamespaces
    /\ MountsMade
    /\ ReadyToExec
    /\ RunsRestricted

-----------------------------------------------------------------------------
LEMMA RestrictedInit == ScriptInit => RestrictedInv
<1> SUFFICES ASSUME SandboxInit PROVE RestrictedInv
  BY DEF ScriptInit
<1>1. Open \in [namespaces : SUBSET {"user", "pid", "mount", "net", "ipc"},
                private : BOOLEAN, mounts : Seq(Bind), filter : BOOLEAN]
  BY DEF Open
<1>2. SandboxTypes
  BY <1>1, SandboxAssumption DEF SandboxInit, SandboxTypes
<1> QED
  BY <1>2 DEF SandboxInit, Open, RestrictedInv, NotBegun, InNamespaces, MountsMade,
              ReadyToExec, RunsRestricted, SettingUp

\* What neither reads nor writes the set-up keeps the invariant: the child and
\* the middle process may only be gone, or the middle one step on.
LEMMA Aside ==
    ASSUME RestrictedInv, UNCHANGED <<config, at, inside>>,
           child' = child \/ (child # "none" /\ child' = "gone"),
           \/ middle' = middle
           \/ middle # "none" /\ middle' = "gone"
           \/ middle = "map" /\ middle' = "fork",
           caller' = "ready" => caller = "ready"
    PROVE  RestrictedInv'
<1>1. SandboxTypes'
  BY DEF RestrictedInv, SandboxTypes
<1>2. NotBegun' /\ InNamespaces'
  BY DEF RestrictedInv, NotBegun, InNamespaces, SettingUp
<1>3. MountsMade' /\ ReadyToExec' /\ RunsRestricted'
  BY DEF RestrictedInv, MountsMade, IsMade, Mount, ReadyToExec, Restricted, RunsRestricted
<1> QED
  BY <1>1, <1>2, <1>3 DEF RestrictedInv

\* The steps of the middle process up to the fork.
LEMMA MiddleBegins ==
    ASSUME RestrictedInv, Unshare \/ ForkChild PROVE RestrictedInv'
<1>0. UNCHANGED <<config, at, caller>> /\ child \in {"none"} /\ child' \in {"none", "private"}
  BY DEF RestrictedInv, NotBegun, Unshare, ForkChild, world, MiddleExits
<1>1. SandboxTypes'
  BY <1>0 DEF RestrictedInv, SandboxTypes, Unshare, ForkChild, Namespaces, SettingUp
<1>2. NotBegun' /\ InNamespaces'
  BY <1>0 DEF RestrictedInv, SandboxTypes, NotBegun, InNamespaces, SettingUp, Unshare, ForkChild, MiddleExits, Namespaces
<1>3. MountsMade' /\ ReadyToExec' /\ RunsRestricted'
  BY <1>0 DEF MountsMade, ReadyToExec, RunsRestricted
<1> QED
  BY <1>1, <1>2, <1>3 DEF RestrictedInv

\* What holds when every mount of the list is made.
LEMMA AllMade ==
    ASSUME SandboxTypes, at = Len(config.mounts) + 1, Len(inside.mounts) = at - 1,
           \A i \in 1 .. at - 1 : IsMade(i)
    PROVE  inside.mounts = config.mounts
<1>1. inside.mounts \in Seq(Bind) /\ config.mounts \in Seq(Bind)
  BY DEF SandboxTypes, Config
<1> QED
  BY <1>1, SeqEqual DEF IsMade

LEMMA ChildStarts ==
    ASSUME RestrictedInv, MakePrivate, UNCHANGED <<world, caller, middle>>
    PROVE RestrictedInv'
<1>0. child = "private" /\ config' = config /\ at' = at /\ at = 1 /\ inside.mounts = <<>>
  BY DEF RestrictedInv, NotBegun, MakePrivate, world, FailSetup
<1>1. config.mounts \in Seq(Bind)
  BY DEF RestrictedInv, SandboxTypes, Config
<1>2. CASE child' = "gone" /\ inside' = inside
  BY <1>0, <1>2, Aside
<1>3. CASE child' = NextMount(1) /\ inside' = [inside EXCEPT !.private = config.mounts # <<>>]
  <2>1. SandboxTypes'
    BY <1>0, <1>3 DEF RestrictedInv, SandboxTypes, NextMount, SettingUp
  <2>2. NotBegun' /\ InNamespaces'
    BY <1>0, <1>3 DEF RestrictedInv, NotBegun, InNamespaces, SettingUp, NextMount, SandboxTypes
  <2>3. MountsMade'
    BY <1>0, <1>1, <1>3 DEF RestrictedInv, SandboxTypes, MountsMade, IsMade, NextMount
  <2> QED
    BY <1>3, <2>1, <2>2, <2>3 DEF RestrictedInv, ReadyToExec, RunsRestricted, NextMount
<1> QED
  BY <1>2, <1>3 DEF MakePrivate, Go, FailSetup, ChildExits

\* The mount the child is at is made: it goes to the next or on.
LEMMA NextIsReady ==
    ASSUME RestrictedInv, child \in {"mount", "readonly"},
           UNCHANGED <<config, caller, middle>>,
           child' = NextMount(at + 1), at' = at + 1,
           inside' = [inside EXCEPT !.mounts = inside'.mounts],
           inside'.mounts \in Seq(Bind), Len(inside'.mounts) = at,
           \A i \in 1 .. at : inside'.mounts[i] = config.mounts[i]
    PROVE  RestrictedInv'
<1>1. config.mounts \in Seq(Bind) /\ at \in Nat \ {0} /\ at <= Len(config.mounts)
  BY DEF RestrictedInv, SandboxTypes, Config, MountsMade
<1>2. /\ inside'.private = inside.private
      /\ inside'.namespaces = inside.namespaces
      /\ inside' \in [namespaces : SUBSET {"user", "pid", "mount", "net", "ipc"},
                      private : BOOLEAN, mounts : Seq(Bind), filter : BOOLEAN]
  BY DEF RestrictedInv, SandboxTypes
<1>3. SandboxTypes'
  BY <1>1, <1>2 DEF RestrictedInv, SandboxTypes, NextMount, SettingUp
<1>4. NotBegun' /\ InNamespaces'
  BY <1>2 DEF RestrictedInv, NotBegun, InNamespaces, NextMount, SettingUp, Namespaces
<1>5. MountsMade'
  BY <1>1, <1>2 DEF RestrictedInv, MountsMade, IsMade, NextMount
<1> QED
  BY <1>3, <1>4, <1>5 DEF RestrictedInv, ReadyToExec, RunsRestricted, NextMount

LEMMA ChildMounts ==
    ASSUME RestrictedInv, BindMount, UNCHANGED <<world, caller, middle>>
    PROVE RestrictedInv'
<1> DEFINE bound == [to |-> Mount.to, from |-> Mount.from, readOnly |-> FALSE]
           made  == Append(inside.mounts, bound)
<1>1. /\ child = "mount" /\ config' = config /\ config.mounts \in Seq(Bind)
      /\ at \in 1 .. Len(config.mounts) /\ Len(inside.mounts) = at - 1
      /\ inside.mounts \in Seq(Bind) /\ \A i \in 1 .. at - 1 : IsMade(i)
  BY DEF BindMount, world, RestrictedInv, SandboxTypes, Config, MountsMade
<1>2. Mount \in Bind
  BY <1>1, ElementOfSeq DEF Mount
<1>3. bound \in Bind /\ (~Mount.readOnly => bound = Mount)
  BY <1>2 DEF Bind
<1>4. made \in Seq(Bind) /\ Len(made) = at /\ made[at] = bound
      /\ \A i \in 1 .. at - 1 : made[i] = config.mounts[i]
  <2> HIDE DEF bound
  <2> QED
    BY <1>1, <1>3 DEF IsMade
<1> HIDE DEF bound
<1>5. CASE child' = "gone" /\ at' = at /\ inside' = inside
  BY <1>1, <1>5, Aside
<1>6. CASE /\ inside' = [inside EXCEPT !.mounts = made] /\ Mount.readOnly
           /\ child' = "readonly" /\ at' = at
  <2>1. /\ inside'.mounts = made /\ inside'.private = inside.private
        /\ inside'.namespaces = inside.namespaces
        /\ inside' \in [namespaces : SUBSET {"user", "pid", "mount", "net", "ipc"},
                        private : BOOLEAN, mounts : Seq(Bind), filter : BOOLEAN]
    BY <1>4, <1>6 DEF RestrictedInv, SandboxTypes
  <2>2. SandboxTypes'
    BY <1>1, <1>6, <2>1 DEF RestrictedInv, SandboxTypes, SettingUp
  <2>3. NotBegun' /\ InNamespaces'
    BY <1>1, <1>6, <2>1 DEF RestrictedInv, NotBegun, InNamespaces, SettingUp, Namespaces
  <2>4. Mount' = Mount
    BY <1>1, <1>6 DEF Mount
  <2>5. MountsMade'
    BY <1>1, <1>4, <1>6, <2>1, <2>4 DEF RestrictedInv, MountsMade, IsMade, bound
  <2> QED
    BY <1>6, <2>2, <2>3, <2>5 DEF RestrictedInv, ReadyToExec, RunsRestricted
<1>7. CASE /\ inside' = [inside EXCEPT !.mounts = made] /\ ~Mount.readOnly
           /\ child' = NextMount(at + 1) /\ at' = at + 1
  <2>1. inside'.mounts = made
    BY <1>7 DEF RestrictedInv, SandboxTypes
  <2>2. \A i \in 1 .. at : made[i] = config.mounts[i]
    BY <1>1, <1>3, <1>4, <1>7 DEF Mount
  <2>3. UNCHANGED <<config, caller, middle>>
    BY <1>1
  <2> QED
    BY <1>1, <1>4, <1>7, <2>1, <2>2, <2>3, NextIsReady
<1> QED
  BY <1>1, <1>5, <1>6, <1>7 DEF BindMount, Go, FailSetup, ChildExits, bound

LEMMA ChildRemounts ==
    ASSUME RestrictedInv, Remount, UNCHANGED <<world, caller, middle>>
    PROVE RestrictedInv'
<1> DEFINE made == [inside.mounts EXCEPT ![at].readOnly = TRUE]
<1>1. /\ child = "readonly" /\ config' = config /\ config.mounts \in Seq(Bind)
      /\ at \in 1 .. Len(config.mounts) /\ Len(inside.mounts) = at
      /\ inside.mounts \in Seq(Bind) /\ \A i \in 1 .. at - 1 : IsMade(i)
      /\ inside.mounts[at] = [to |-> Mount.to, from |-> Mount.from, readOnly |-> FALSE]
      /\ Mount.readOnly
  BY DEF Remount, world, RestrictedInv, SandboxTypes, Config, MountsMade
<1>2. Mount \in Bind
  BY <1>1, ElementOfSeq DEF Mount
<1>3. Mount = [inside.mounts[at] EXCEPT !.readOnly = TRUE]
  BY <1>1, <1>2 DEF Bind
<1>4. made = [inside.mounts EXCEPT ![at] = Mount]
  BY <1>3
<1>5. made \in Seq(Bind) /\ Len(made) = at /\ \A i \in 1 .. at : made[i] = config.mounts[i]
  <2> HIDE DEF made
  <2>1. /\ [inside.mounts EXCEPT ![at] = Mount] \in Seq(Bind)
        /\ Len([inside.mounts EXCEPT ![at] = Mount]) = Len(inside.mounts)
        /\ \A j \in 1 .. Len(inside.mounts) :
             [inside.mounts EXCEPT ![at] = Mount][j] = IF j = at THEN Mount ELSE inside.mounts[j]
    BY <1>1, <1>2, ExceptSeq
  <2> QED
    BY <1>1, <1>4, <2>1 DEF IsMade, Mount
<1>6. CASE child' = "gone" /\ at' = at /\ inside' = inside
  BY <1>1, <1>6, Aside
<1>7. CASE /\ inside' = [inside EXCEPT !.mounts[Len(inside.mounts)].readOnly = TRUE]
           /\ child' = NextMount(at + 1) /\ at' = at + 1
  <2>1. inside' = [inside EXCEPT !.mounts = made]
    BY <1>1, <1>7
  <2>2. inside'.mounts = made
    BY <2>1 DEF RestrictedInv, SandboxTypes
  <2>3. UNCHANGED <<config, caller, middle>>
    BY <1>1
  <2> HIDE DEF made
  <2> QED
    BY <1>1, <1>5, <1>7, <2>1, <2>2, <2>3, NextIsReady
<1> QED
  BY <1>1, <1>6, <1>7 DEF Remount, Go, FailSetup, ChildExits

LEMMA ChildInstalls ==
    ASSUME RestrictedInv, InstallSeccomp, UNCHANGED <<world, caller, middle>>
    PROVE RestrictedInv'
<1>1. child = "filter" /\ UNCHANGED <<config, at>>
  BY DEF InstallSeccomp, FailSetup, world
<1>2. CASE child' = "gone" /\ inside' = inside
  BY <1>1, <1>2, Aside
<1>3. CASE child' = "exec" /\ inside' = [inside EXCEPT !.filter = config.filter]
  <2>1. /\ inside' = [namespaces |-> inside.namespaces, private |-> inside.private,
                     mounts |-> inside.mounts, filter |-> config.filter]
        /\ config.filter \in BOOLEAN
    BY <1>3 DEF RestrictedInv, SandboxTypes, Config
  <2>2. SandboxTypes'
    BY <1>1, <1>3, <2>1 DEF RestrictedInv, SandboxTypes, SettingUp
  <2>3. inside.mounts = config.mounts
    BY <1>1, AllMade DEF RestrictedInv, MountsMade
  <2>4. NotBegun' /\ InNamespaces'
    BY <1>1, <1>3, <2>1 DEF RestrictedInv, NotBegun, InNamespaces, SettingUp, Namespaces
  <2>5. Restricted'
    BY <1>1, <1>3, <2>1, <2>3 DEF RestrictedInv, SandboxTypes, InNamespaces, MountsMade, Restricted, SettingUp, Namespaces
  <2> QED
    BY <1>3, <2>2, <2>4, <2>5 DEF RestrictedInv, MountsMade, ReadyToExec, RunsRestricted
<1> QED
  BY <1>1, <1>2, <1>3 DEF InstallSeccomp, Go, FailSetup, ChildExits

LEMMA ChildRuns ==
    ASSUME RestrictedInv, Exec, UNCHANGED <<world, caller, middle>>
    PROVE RestrictedInv'
<1>1. child = "exec" /\ UNCHANGED <<config, at, inside>>
  BY DEF Exec, FailSetup, world
<1>2. CASE child' = "gone"
  BY <1>1, <1>2, Aside
<1>3. CASE child' = "running"
  <2>1. SandboxTypes' /\ NotBegun' /\ InNamespaces' /\ MountsMade'
    BY <1>1, <1>3 DEF RestrictedInv, SandboxTypes, NotBegun, InNamespaces, MountsMade, SettingUp
  <2> QED
    BY <1>1, <1>3, <2>1 DEF RestrictedInv, ReadyToExec, Restricted, RunsRestricted
<1> QED
  BY <1>1, <1>2, <1>3 DEF Exec, Go, FailSetup, ChildExits

LEMMA CallerBegins ==
    ASSUME RestrictedInv, Run PROVE RestrictedInv'
<1>1. /\ caller = "ready" /\ middle = "none" /\ child = "none"
      /\ caller' # "ready" /\ UNCHANGED <<config, at, inside>>
      /\ child' \in {"none", "running"} /\ middle' \in {"none", "unshare"}
      /\ child' = "running" => Unrestricted(config) /\ middle' = "none"
  BY DEF RestrictedInv, NotBegun, Run, Return, world
<1>2. SandboxTypes' /\ NotBegun' /\ InNamespaces' /\ MountsMade' /\ ReadyToExec'
  BY <1>1 DEF RestrictedInv, SandboxTypes, NotBegun, InNamespaces, MountsMade, ReadyToExec, SettingUp
<1>3. RunsRestricted'
  BY <1>1 DEF RunsRestricted, Unrestricted
<1> QED
  BY <1>2, <1>3 DEF RestrictedInv

LEMMA SandboxStep ==
    ASSUME RestrictedInv, SandboxNext PROVE RestrictedInv'
<1>1. CASE Run
  BY <1>1, CallerBegins
<1>2. CASE RunDirectEnds \/ WaitMiddle \/ ReadTag
  BY <1>2, Aside DEF RunDirectEnds, WaitMiddle, ReadTag, Return, world
<1>3. CASE Unshare \/ ForkChild
  BY <1>3, MiddleBegins
<1>4. CASE MapIds \/ WaitChild \/ WaitInterrupted
  BY <1>4, Aside DEF MapIds, WaitChild, WaitInterrupted, MiddleExits, world
<1>5. CASE Kill \/ Remove
  BY <1>5, Aside DEF Kill, Remove, MiddleExits, ChildExits, world
<1>6. CASE ChildStep
  <2>1. UNCHANGED <<world, caller, middle>>
    BY <1>6 DEF ChildStep
  <2>2. CASE Command
    BY <1>6, <2>1, <2>2, Aside DEF Command, ChildExits, world
  <2> QED
    BY <1>6, <2>1, <2>2, ChildStarts, ChildMounts, ChildRemounts, ChildInstalls, ChildRuns
    DEF ChildStep
<1> QED
  BY <1>1, <1>2, <1>3, <1>4, <1>5, <1>6 DEF SandboxNext, CallerStep, MiddleStep

\* The command only ever runs under every restriction of the configuration
\* (run_namespaced), for any list of mounts and any order of failures.
THEOREM CommandsAreRestricted == ScriptSpec => []RunsRestricted
<1>1. RestrictedInv /\ [ScriptNext]_scriptVars => RestrictedInv'
  <2> SUFFICES ASSUME RestrictedInv, [ScriptNext]_scriptVars PROVE RestrictedInv'
    OBVIOUS
  <2>1. CASE Plan \/ Conclude \/ UNCHANGED scriptVars
    BY <2>1, Aside DEF Plan, Conclude, scriptVars, sandboxVars, world
  <2>2. CASE Execute
    BY <2>2, SandboxStep DEF Execute
  <2>3. CASE Remove
    BY <2>3, SandboxStep DEF SandboxNext
  <2> QED
    BY <2>1, <2>2, <2>3 DEF ScriptNext
<1>2. RestrictedInv => RunsRestricted
  BY DEF RestrictedInv
<1> QED
  BY <1>1, <1>2, RestrictedInit, PTL DEF ScriptSpec

-----------------------------------------------------------------------------
(* What became of the command, and what is told of it. *)

EndStatus    == {Exit(c) : c \in 0 .. 127} \cup {Signal(Killed)}
MiddleStatus == EndStatus \cup {None, Exit(128 + Killed)}

\* A process has an exit status as soon as it is gone.
StatusTypes ==
    /\ child \in SettingUp \cup {"none", "running", "gone"}
    /\ DOMAIN status = {"middle", "child"}
    /\ status["middle"] \in MiddleStatus
    /\ middle = "gone" => status["middle"] # None
    /\ IF child = "gone" THEN status["child"] \in EndStatus
                         ELSE status["child"] = None

\* How far the caller, the middle process and the child may be from one
\* another.
CallerPlaces ==
    /\ caller \in {"ready", "wait", "read", "direct", "returned"}
    /\ caller = "ready" => middle = "none" /\ child = "none"
    /\ caller = "direct" => middle = "none" /\ child \in {"running", "gone"}
    /\ caller = "wait" => middle # "none"
    /\ caller = "read" => middle = "gone"
MiddlePlaces ==
    /\ middle \in {"none", "unshare", "map", "fork", "wait", "gone"}
    /\ middle = "none" => pipe = <<>> /\ child \in {"none", "running", "gone"}
    /\ middle \in {"unshare", "map", "fork"} => pipe = <<>> /\ child = "none"
    /\ middle = "wait" => child # "none"
    /\ pipe # <<>> => child \in {"none", "gone"}

\* What the middle process tells by its exit: without a kill or an interrupted
\* wait it left a tag before there was a child, or it passes on how the child
\* ended; it never makes a success of anything else unless its wait was cut.
MiddleTells ==
    middle = "gone" =>
        /\ torn = {} => \/ child = "none" /\ pipe # <<>>
                        \/ child = "gone" /\ status["middle"] = Propagated(status["child"])
        /\ "cut" \notin torn /\ status["middle"] = Exit(0) => status["child"] = Exit(0)

\* The ways in which run returns; after an error of the wait the child may
\* still be anywhere, if the middle process was killed.
ReturnTells ==
    caller = "returned" =>
        \/ middle = "none" /\ child = "none" /\ result.kind = "err"
        \/ middle = "gone" /\ pipe # <<>> /\ result.kind = "err"
        \/ middle = "none" /\ child = "gone" /\ result \in {Ok(status["child"]), Err("Io")}
        \/ middle = "gone" /\ result = Err("Io")
        \/ /\ middle = "gone" /\ pipe = <<>> /\ child \in {"none", "running", "gone"}
           /\ result = Ok(status["middle"])

OutcomeTells ==
    /\ runner = "ready" => caller = "ready"
    /\ runner = "done" => \/ outcome.kind = "err"
                          \/ /\ caller = "returned" /\ result.kind = "ok"
                             /\ result.status.kind = "exit" /\ outcome = Ok(result.status)

RunInv == StatusTypes /\ CallerPlaces /\ MiddlePlaces /\ MiddleTells /\ ReturnTells
RealInv == RunInv /\ OutcomeTells

LEMMA StatusKinds ==
    /\ \A c : Exit(c).kind = "exit" /\ Exit(c).code = c
    /\ \A s : Signal(s).kind = "signal" /\ Signal(s).signal = s
    /\ None.kind = "none"
BY DEF Exit, Signal, None

LEMMA StatusFacts ==
    /\ Signal(Killed) # Exit(0) /\ Exit(127) # Exit(0)
    /\ Signal(Killed) \in EndStatus /\ \A c \in 0 .. 127 : Exit(c) \in EndStatus
    /\ EndStatus \subseteq MiddleStatus /\ None \in MiddleStatus /\ None \notin EndStatus
    /\ Exit(0) \in MiddleStatus /\ Exit(0) # None /\ Exit(127) \in EndStatus /\ Exit(127) # None
<1>1. Signal(Killed) # Exit(0) /\ Exit(127) # Exit(0)
  BY StatusKinds
<1>2. Signal(Killed) \in EndStatus /\ \A c \in 0 .. 127 : Exit(c) \in EndStatus
  BY DEF EndStatus
<1>3. 0 \in 0 .. 127 /\ 127 \in 0 .. 127
  OBVIOUS
<1>4. None \notin EndStatus /\ Exit(0) # None /\ Exit(127) # None
  BY StatusKinds DEF EndStatus
<1> QED
  BY <1>1, <1>2, <1>3, <1>4 DEF MiddleStatus

LEMMA PropagatedFacts ==
    ASSUME NEW s \in EndStatus
    PROVE  /\ Propagated(s) \in MiddleStatus /\ Propagated(s) # None
           /\ Propagated(s) = Exit(0) => s = Exit(0)
<1>1. 128 + Killed # 0
  BY SandboxAssumption
<1>2. CASE s = Signal(Killed)
  <2>1. s.kind = "signal" /\ s.signal = Killed
    BY <1>2, StatusKinds
  <2>2. Propagated(s) = Exit(128 + Killed)
    BY <2>1 DEF Propagated
  <2>3. Exit(128 + Killed).code # 0
    BY <1>1, StatusKinds
  <2>4. Propagated(s) # Exit(0)
    BY <2>2, <2>3, StatusKinds
  <2>5. Propagated(s) # None
    BY <2>2, StatusKinds
  <2> QED BY <2>2, <2>4, <2>5 DEF MiddleStatus
<1>3. CASE s \in {Exit(c) : c \in 0 .. 127}
  <2>1. s.kind = "exit"
    BY <1>3, StatusKinds
  <2>2. Propagated(s) = s
    BY <2>1 DEF Propagated
  <2> QED BY <2>2, StatusFacts
<1> QED BY <1>2, <1>3 DEF EndStatus

LEMMA MiddleKinds ==
    ASSUME NEW s \in MiddleStatus
    PROVE  /\ s # None => s.kind \in {"exit", "signal"}
           /\ s.kind = "exit" => s = Exit(s.code)
BY StatusKinds DEF MiddleStatus, EndStatus

LEMMA ResultFacts ==
    /\ \A e : Err(e).kind = "err"
    /\ \A s : Ok(s).kind = "ok" /\ Ok(s).status = s
    /\ \A s, t : Ok(s) = Ok(t) => s = t
    /\ \A s, e : Ok(s) # Err(e)
BY DEF Ok, Err

LEMMA RunInvInit == SandboxInit => RunInv
<1> SUFFICES ASSUME SandboxInit PROVE RunInv
  OBVIOUS
<1>1. /\ DOMAIN status = {"middle", "child"} /\ status["middle"] = None
      /\ status["child"] = None
  BY DEF SandboxInit
<1>2. StatusTypes
  BY <1>1, StatusFacts DEF SandboxInit, StatusTypes
<1> QED
  BY <1>2 DEF SandboxInit, RunInv, CallerPlaces, MiddlePlaces, MiddleTells, ReturnTells

LEMMA RunTells == ASSUME RunInv, Run PROVE RunInv'
<1>1. /\ caller = "ready" /\ middle = "none" /\ child = "none" /\ pipe = <<>>
      /\ status' = status /\ pipe' = pipe
  BY DEF RunInv, CallerPlaces, MiddlePlaces, Run
<1>2. /\ caller' \in {"wait", "direct", "returned"}
      /\ child' \in {"none", "running"} /\ middle' \in {"none", "unshare"}
      /\ caller' = "direct" => middle' = "none" /\ child' = "running"
      /\ caller' = "wait" => middle' = "unshare"
      /\ middle' = "unshare" => child' = "none"
      /\ caller' = "returned" => /\ middle' = "none" /\ child' = "none"
                                 /\ result'.kind = "err"
  BY <1>1, ResultFacts DEF Run, Return
<1>3. StatusTypes'
  BY <1>1, <1>2 DEF RunInv, StatusTypes
<1>4. CallerPlaces' /\ MiddlePlaces'
  BY <1>1, <1>2 DEF CallerPlaces, MiddlePlaces
<1>5. MiddleTells' /\ ReturnTells'
  BY <1>2 DEF MiddleTells, ReturnTells
<1> QED BY <1>3, <1>4, <1>5 DEF RunInv

\* The caller waits, reads and returns.
LEMMA CallerTells ==
    ASSUME RunInv, RunDirectEnds \/ WaitMiddle \/ ReadTag
    PROVE  RunInv'
<1>1. /\ UNCHANGED <<middle, child, status, pipe, torn>>
      /\ caller \in {"direct", "wait", "read"}
      /\ caller' \in {"read", "returned"}
      /\ caller' = "read" => middle = "gone"
  BY DEF RunDirectEnds, WaitMiddle, ReadTag, Return
<1>2. ReturnTells'
  <2>1. CASE RunDirectEnds
    BY <1>1, <2>1 DEF RunInv, CallerPlaces, RunDirectEnds, Return, ReturnTells
  <2>2. CASE WaitMiddle
    BY <1>1, <2>2 DEF WaitMiddle, Return, ReturnTells
  <2>3. CASE ReadTag
    BY <1>1, <2>3, ResultFacts DEF RunInv, CallerPlaces, ReadTag, Return, ReturnTells
  <2> QED BY <2>1, <2>2, <2>3
<1>3. StatusTypes' /\ CallerPlaces' /\ MiddlePlaces' /\ MiddleTells'
  BY <1>1 DEF RunInv, StatusTypes, CallerPlaces, MiddlePlaces, MiddleTells
<1> QED BY <1>2, <1>3 DEF RunInv

\* The middle process before there is a child: it goes on or leaves a tag.
LEMMA MiddleSetsUp ==
    ASSUME RunInv, Unshare \/ MapIds \/ ForkChild
    PROVE  RunInv'
<1>1. /\ middle \in {"unshare", "map", "fork"} /\ child = "none" /\ pipe = <<>>
      /\ caller = "wait" /\ caller' = caller /\ torn' = torn
      /\ status["child"] = None /\ DOMAIN status = {"middle", "child"}
  BY DEF RunInv, StatusTypes, CallerPlaces, MiddlePlaces, Unshare, MapIds, ForkChild,
         MiddleTells, ReturnTells
<1>2. \/ /\ middle' \in {"map", "fork"} /\ child' = "none" /\ UNCHANGED <<status, pipe>>
      \/ middle' = "wait" /\ child' = "private" /\ UNCHANGED <<status, pipe>>
      \/ /\ middle' = "gone" /\ child' = "none" /\ pipe' # <<>>
         /\ status' = [status EXCEPT !["middle"] = Exit(127)]
  BY <1>1 DEF Unshare, MapIds, ForkChild, Report, MiddleExits
<1>3. StatusTypes'
  <2>1. /\ DOMAIN status' = {"middle", "child"} /\ status'["child"] = None
        /\ status'["middle"] \in {status["middle"], Exit(127)}
    BY <1>1, <1>2
  <2>2. status'["middle"] \in MiddleStatus
    BY <2>1, StatusFacts DEF RunInv, StatusTypes
  <2>3. middle' = "gone" => status'["middle"] # None
    BY <1>1, <1>2, StatusFacts
  <2> QED BY <1>2, <2>1, <2>2, <2>3 DEF StatusTypes, SettingUp
<1>4. CallerPlaces' /\ MiddlePlaces'
  BY <1>1, <1>2 DEF CallerPlaces, MiddlePlaces
<1>5. MiddleTells' /\ ReturnTells'
  BY <1>1, <1>2, StatusFacts DEF MiddleTells, ReturnTells
<1> QED BY <1>3, <1>4, <1>5 DEF RunInv

LEMMA MiddleWaits ==
    ASSUME RunInv, WaitChild \/ WaitInterrupted
    PROVE  RunInv'
<1>1. /\ middle = "wait" /\ middle' = "gone" /\ caller \in {"wait"}
      /\ UNCHANGED <<child, caller, pipe>>
      /\ DOMAIN status = {"middle", "child"} /\ child # "none"
  BY DEF RunInv, StatusTypes, CallerPlaces, MiddlePlaces, ReturnTells, WaitChild,
         WaitInterrupted, MiddleExits
<1>2. /\ status'["child"] = status["child"]
      /\ DOMAIN status' = {"middle", "child"}
      /\ WaitChild => status'["middle"] = Propagated(status["child"])
      /\ WaitInterrupted => status'["middle"] = Exit(0)
  BY <1>1 DEF WaitChild, WaitInterrupted, MiddleExits
<1>3. WaitChild => child = "gone" /\ status["child"] \in EndStatus
  BY DEF WaitChild, RunInv, StatusTypes
<1>4. StatusTypes'
  <2>1. status'["middle"] \in MiddleStatus \ {None}
    BY <1>2, <1>3, PropagatedFacts, StatusFacts
  <2> QED BY <1>1, <1>2, <2>1 DEF RunInv, StatusTypes
<1>5. CallerPlaces' /\ MiddlePlaces' /\ ReturnTells'
  BY <1>1 DEF RunInv, CallerPlaces, MiddlePlaces, ReturnTells
<1>6. MiddleTells'
  <2>1. CASE WaitInterrupted
    BY <2>1 DEF WaitInterrupted, MiddleTells
  <2>2. CASE WaitChild
    <3>1. status'["middle"] = Exit(0) => status["child"] = Exit(0)
      BY <1>2, <1>3, <2>2, PropagatedFacts
    <3>2. child' = "gone" /\ status'["middle"] = Propagated(status'["child"])
      BY <1>1, <1>2, <1>3, <2>2
    <3> QED BY <1>2, <3>1, <3>2 DEF MiddleTells
  <2> QED BY <2>1, <2>2
<1> QED BY <1>4, <1>5, <1>6 DEF RunInv

\* The child goes on, fails with a tag, or ends.
LEMMA ChildTells == ASSUME RunInv, ChildStep PROVE RunInv'
<1>1. /\ UNCHANGED <<caller, middle, result, torn>>
      /\ DOMAIN status = {"middle", "child"} /\ child \in SettingUp \cup {"running"}
  BY DEF ChildStep, RunInv, StatusTypes, MakePrivate, BindMount, Remount, InstallSeccomp,
         Exec, Command, SettingUp
<1>2. \/ /\ child \in SettingUp /\ child' \in SettingUp \cup {"running"}
         /\ UNCHANGED <<status, pipe>>
      \/ /\ child \in SettingUp /\ child' = "gone" /\ pipe' # <<>>
         /\ status' = [status EXCEPT !["child"] = Exit(127)]
      \/ /\ child = "running" /\ child' = "gone" /\ pipe' = pipe
         /\ \E s \in EndStatus : status' = [status EXCEPT !["child"] = s]
  <2>1. CASE MakePrivate \/ BindMount \/ Remount \/ InstallSeccomp \/ Exec
    <3>0. \A tag : FailSetup(tag) => /\ child' = "gone" /\ pipe' = Append(pipe, tag)
                                     /\ status' = [status EXCEPT !["child"] = Exit(127)]
      BY DEF FailSetup, Report, ChildExits
    <3>1. \A tag : FailSetup(tag) => pipe' # <<>>
      BY <3>0
    <3>2. \A i : NextMount(i) \in {"mount", "filter"}
      BY DEF NextMount
    <3> QED BY <2>1, <3>0, <3>1, <3>2
            DEF MakePrivate, BindMount, Remount, InstallSeccomp, Exec, Go, SettingUp
  <2>2. CASE Command
    <3>1. \A s \in {Exit(c) : c \in Codes} \cup {Signal(Killed)} : s \in EndStatus
      BY StatusFacts, SandboxAssumption
    <3> QED BY <2>2, <3>1 DEF Command, ChildExits
  <2> QED BY <2>1, <2>2 DEF ChildStep
<1>3. StatusTypes'
  BY <1>1, <1>2, StatusFacts DEF RunInv, StatusTypes, SettingUp
<1>4. /\ child \in SettingUp => middle \in {"wait", "gone"} /\ pipe = <<>>
      /\ pipe = <<>>
  BY <1>1 DEF RunInv, MiddlePlaces, SettingUp
<1>5. CallerPlaces' /\ MiddlePlaces'
  BY <1>1, <1>2, <1>4 DEF RunInv, CallerPlaces, MiddlePlaces, SettingUp
<1>6. MiddleTells'
  <2>1. middle = "gone" => torn # {} /\ ("cut" \in torn \/ status["middle"] # Exit(0))
    BY <1>1, StatusFacts DEF RunInv, MiddleTells, StatusTypes, SettingUp, Exit, None
  <2>2. status'["middle"] = status["middle"]
    BY <1>1, <1>2
  <2> QED BY <1>1, <2>1, <2>2 DEF MiddleTells
<1>7. ReturnTells'
  BY <1>1, <1>2, <1>4 DEF RunInv, ReturnTells, SettingUp
<1> QED BY <1>3, <1>5, <1>6, <1>7 DEF RunInv

LEMMA KillTells == ASSUME RunInv, Kill \/ Remove PROVE RunInv'
<1>1. CASE Remove
  BY <1>1 DEF Remove, RunInv, StatusTypes, CallerPlaces, MiddlePlaces, MiddleTells, ReturnTells
<1>2. CASE Kill
  <2>1. /\ UNCHANGED <<caller, pipe, result>> /\ torn' = torn \cup {"killed"}
        /\ DOMAIN status = {"middle", "child"}
        /\ \/ /\ child \notin {"none", "gone"} /\ child' = "gone" /\ UNCHANGED middle
              /\ status' = [status EXCEPT !["child"] = Signal(Killed)]
           \/ /\ middle \notin {"none", "gone"} /\ middle' = "gone" /\ UNCHANGED child
              /\ status' = [status EXCEPT !["middle"] = Signal(Killed)]
    BY <1>2 DEF Kill, ChildExits, MiddleExits, RunInv, StatusTypes
  <2>2. StatusTypes'
    BY <2>1, StatusFacts DEF RunInv, StatusTypes
  <2>3. CallerPlaces' /\ MiddlePlaces'
    BY <2>1 DEF RunInv, CallerPlaces, MiddlePlaces
  <2>4. MiddleTells'
    <3>1. torn' # {} /\ ("cut" \notin torn' => "cut" \notin torn)
      BY <2>1
    <3>2. middle = "gone" /\ child \notin {"none", "gone"} /\ "cut" \notin torn
            => status["middle"] # Exit(0)
      BY DEF RunInv, MiddleTells, StatusTypes, Exit, None
    <3> QED BY <2>1, <3>1, <3>2, StatusFacts DEF MiddleTells
  <2>5. ReturnTells'
    BY <2>1 DEF RunInv, ReturnTells, CallerPlaces, MiddlePlaces
  <2> QED BY <2>2, <2>3, <2>4, <2>5 DEF RunInv
<1> QED BY <1>1, <1>2

LEMMA RunInvNext == ASSUME RunInv, SandboxNext PROVE RunInv'
BY RunTells, CallerTells, MiddleSetsUp, MiddleWaits, ChildTells, KillTells
   DEF SandboxNext, CallerStep, MiddleStep

LEMMA RealNext == ASSUME RealInv, [ScriptNext]_scriptVars PROVE RealInv'
<1>1. CASE Execute \/ (runner = "ready" /\ Remove /\ UNCHANGED <<runner, sandboxed, env, outcome>>)
  <2>1. RunInv'
    BY <1>1, RunInvNext DEF Execute, RealInv, SandboxNext
  <2>2. OutcomeTells'
    BY <1>1 DEF Execute, RealInv, OutcomeTells, Remove
  <2> QED BY <2>1, <2>2 DEF RealInv
<1>2. CASE Plan \/ Conclude \/ UNCHANGED scriptVars
  <2>1. UNCHANGED <<caller, middle, child, status, pipe, result, torn>>
    BY <1>2 DEF Plan, Conclude, scriptVars, sandboxVars
  <2>2. RunInv'
    BY <2>1 DEF RealInv, RunInv, StatusTypes, CallerPlaces, MiddlePlaces, MiddleTells, ReturnTells
  <2>3. OutcomeTells'
    <3>1. CASE Plan
      BY <2>1, <3>1, ResultFacts DEF Plan, OutcomeTells
    <3>2. CASE Conclude
      <4>1. caller = "returned" /\ runner' = "done" /\ outcome' = OutcomeOf(result)
        BY <3>2 DEF Conclude
      <4>2. result.kind \in {"ok", "err"}
        BY <4>1, ResultFacts DEF RealInv, RunInv, ReturnTells
      <4>3. \/ OutcomeOf(result).kind = "err"
            \/ result.kind = "ok" /\ result.status.kind = "exit" /\ OutcomeOf(result) = Ok(result.status)
        <5>1. CASE result.kind = "ok" /\ result.status.kind = "exit"
          BY <5>1 DEF OutcomeOf
        <5>2. CASE result.kind = "ok" /\ result.status.kind = "signal"
          BY <5>2, ResultFacts DEF OutcomeOf
        <5>3. CASE result.kind = "err" /\ sandboxed
          BY <5>3, ResultFacts DEF OutcomeOf
        <5>4. CASE result.kind = "err" /\ ~sandboxed
          BY <5>4, ResultFacts DEF OutcomeOf
        <5>5. result.kind = "ok" => result.status.kind \in {"exit", "signal"}
          <6> SUFFICES ASSUME result.kind = "ok"
                       PROVE  result.status.kind \in {"exit", "signal"}
            OBVIOUS
          <6>1. PICK s \in MiddleStatus : s # None /\ result = Ok(s)
            BY <4>1, StatusFacts, ResultFacts DEF RealInv, RunInv, ReturnTells, StatusTypes
          <6>2. result.status = s
            BY <6>1, ResultFacts
          <6> QED BY <6>1, <6>2, MiddleKinds
        <5> QED BY <4>2, <5>1, <5>2, <5>3, <5>4, <5>5
      <4> QED BY <2>1, <4>1, <4>3 DEF OutcomeTells
    <3>3. CASE UNCHANGED scriptVars
      BY <2>1, <3>3 DEF scriptVars, RealInv, OutcomeTells
    <3> QED BY <1>2, <3>1, <3>2, <3>3
  <2> QED BY <2>2, <2>3 DEF RealInv
<1> QED BY <1>1, <1>2 DEF ScriptNext

LEMMA RealIsReal == ASSUME RealInv PROVE SuccessIsReal
<1>1. ResultIsReal
  <2> SUFFICES ASSUME caller = "returned"
               PROVE  /\ pipe # <<>> => result.kind = "err"
                      /\ (torn = {} /\ pipe = <<>> /\ child # "none") =>
                            child = "gone" /\ result \in {Ok(Ended(status["child"])), Err("Io")}
                      /\ (result = Ok(Exit(0)) /\ "cut" \notin torn) => status["child"] = Exit(0)
    BY DEF ResultIsReal
  <2>1. CASE middle = "none" /\ child = "none" /\ result.kind = "err"
    BY <2>1, ResultFacts DEF RealInv, RunInv, MiddlePlaces
  <2>2. CASE middle = "gone" /\ pipe # <<>> /\ result.kind = "err"
    BY <2>2, ResultFacts
  <2>3. CASE middle = "none" /\ child = "gone" /\ result = Ok(status["child"])
    BY <2>3, ResultFacts DEF RealInv, RunInv, MiddlePlaces, Ended
  <2>4. CASE /\ middle = "gone" /\ pipe = <<>> /\ child \in {"none", "running", "gone"}
             /\ result = Ok(status["middle"])
    BY <2>4, ResultFacts DEF RealInv, RunInv, MiddleTells, Ended
  <2>5. CASE /\ result = Err("Io")
             /\ middle = "gone" \/ (middle = "none" /\ child = "gone")
    <3>1. result.kind = "err" /\ result # Ok(Exit(0)) /\ result \in {Ok(Ended(status["child"])), Err("Io")}
      BY <2>5, ResultFacts
    <3>2. torn = {} /\ pipe = <<>> => child \in {"none", "gone"}
      BY <2>5 DEF RealInv, RunInv, MiddleTells
    <3> QED BY <3>1, <3>2
  <2> QED BY <2>1, <2>2, <2>3, <2>4, <2>5 DEF RealInv, RunInv, ReturnTells
<1>2. ASSUME runner = "done", outcome.kind = "ok", "cut" \notin torn
      PROVE  /\ outcome.status.code = 0 => child = "gone" /\ status["child"] = Exit(0)
             /\ torn = {} => child = "gone"
  <2>1. /\ caller = "returned" /\ result.kind = "ok" /\ result.status.kind = "exit"
        /\ outcome = Ok(result.status)
    BY <1>2 DEF RealInv, OutcomeTells
  <2>2. \/ middle = "none" /\ child = "gone" /\ result = Ok(status["child"])
        \/ /\ middle = "gone" /\ pipe = <<>> /\ child \in {"none", "running", "gone"}
           /\ result = Ok(status["middle"])
    BY <2>1, ResultFacts DEF RealInv, RunInv, ReturnTells
  <2>3. torn = {} => child = "gone"
    BY <2>2 DEF RealInv, RunInv, MiddleTells
  <2>4. ASSUME outcome.status.code = 0 PROVE result = Ok(Exit(0))
    <3>1. outcome.status = result.status
      BY <2>1, ResultFacts
    <3>2. PICK s \in MiddleStatus : result = Ok(s)
      BY <2>2, StatusFacts DEF RealInv, RunInv, StatusTypes
    <3>3. result.status = s
      BY <3>2, ResultFacts
    <3> QED BY <2>1, <2>4, <3>1, <3>2, <3>3, MiddleKinds
  <2>5. ASSUME result = Ok(Exit(0)) PROVE child = "gone" /\ status["child"] = Exit(0)
    <3>1. status["child"] = Exit(0)
      BY <1>1, <1>2, <2>1, <2>5 DEF ResultIsReal
    <3>2. Exit(0) # None
      BY DEF Exit, None
    <3> QED BY <3>1, <3>2 DEF RealInv, RunInv, StatusTypes
  <2> QED BY <2>3, <2>4, <2>5
<1> QED BY <1>1, <1>2 DEF SuccessIsReal

\* A script succeeds only if it was there, ran to its end and left with 0, in
\* the sandbox and out of it, whatever failed, was killed or was removed
\* between the plan and the run.
THEOREM SuccessesAreReal == ScriptSpec => []SuccessIsReal
<1>1. ScriptInit => RealInv
  BY RunInvInit DEF ScriptInit, RealInv, OutcomeTells, SandboxInit
<1>2. RealInv /\ [ScriptNext]_scriptVars => RealInv'
  BY RealNext
<1>3. RealInv => SuccessIsReal
  BY RealIsReal
<1> QED BY <1>1, <1>2, <1>3, PTL DEF ScriptSpec

-----------------------------------------------------------------------------
\* Induction over the turns of a loop, from the least element of what is left.
LEMMA Induction ==
    ASSUME NEW last \in Nat, NEW G, 0 \in G,
           \A k \in 0 .. last - 1 : k \in G => k + 1 \in G
    PROVE  0 .. last \subseteq G
<1> DEFINE Below == OpToRel(<, Nat)
           Bad   == (0 .. last) \ G
<1>1. IsWellFoundedOn(Below, Nat)
  BY NatLessThanWellFounded
<1>2. \A a, b \in Nat : a < b => <<a, b>> \in Below
  BY DEF OpToRel
<1>3. Bad # {} => \E m \in Bad : \A k \in Bad : ~(<<k, m>> \in Below)
  <2>1. Bad \subseteq Nat
    OBVIOUS
  <2> QED BY <1>1, <2>1, WFMin
<1> HIDE DEF Below
<1>4. ASSUME NEW m \in Bad, \A k \in Bad : ~(<<k, m>> \in Below) PROVE FALSE
  <2>1. m \in Nat /\ m # 0 /\ m - 1 \in 0 .. last - 1 /\ m - 1 \in Nat
    BY <1>4
  <2>2. <<m - 1, m>> \in Below
    BY <1>2, <2>1
  <2>3. m - 1 \in G
    BY <1>4, <2>1, <2>2
  <2> QED BY <1>4, <2>1, <2>3
<1> QED BY <1>3, <1>4


-----------------------------------------------------------------------------
(* The filter: where a rule is in the program, and what the machine has    *)
(* done when it gets there.                                                *)

Prologue == <<LdAbs("arch"), Jeq(Arch, 0, 1), LdAbs("nr"), Ja(1), Ret("action")>>
Code(rules) == (UNION {{Rule(rules[i])[j] : j \in DOMAIN Rule(rules[i])} : i \in DOMAIN rules})
               \cup {Prologue[j] : j \in 1 .. 5} \cup {Ret("action")}
RuleOf(Fields) == [nr : Int, args : {{}} \cup {{a} : a \in [arg : Fields, value : Int]}]

\* The program after k rules, and the machine after n cycles.
LaidTo(f, rules, m) == [k \in 0 .. m |-> IF k = 0 THEN Prologue ELSE f[k - 1] \o Rule(rules[k])]
Laid(rules, m) == CHOOSE f : f = LaidTo(f, rules, m)

LEMMA LaidRuns ==
    ASSUME NEW rules, NEW m \in Nat
    PROVE  Laid(rules, m) = LaidTo(Laid(rules, m), rules, m)
<1> DEFINE G == {k \in 0 .. m : \E f : f = LaidTo(f, rules, k)}
<1>1. 0 \in G
  <2>1. [i \in 0 .. 0 |-> Prologue] = LaidTo([i \in 0 .. 0 |-> Prologue], rules, 0)
    BY DEF LaidTo
  <2> QED BY <2>1
<1>2. ASSUME NEW k \in 0 .. m - 1, k \in G PROVE k + 1 \in G
  <2>1. PICK f : f = LaidTo(f, rules, k)
    BY <1>2
  <2> DEFINE g == [i \in 0 .. k + 1 |-> IF i = 0 THEN Prologue ELSE f[i - 1] \o Rule(rules[i])]
  <2>2. \A i \in 0 .. k : g[i] = f[i]
    <3>1. \A i \in 0 .. k : g[i] = LaidTo(f, rules, k)[i]
      BY DEF LaidTo
    <3> QED BY <2>1, <3>1, Zenon
  <2>3. \A i \in 0 .. k + 1 : i # 0 => i - 1 \in 0 .. k
    OBVIOUS
  <2>4. g = LaidTo(g, rules, k + 1)
    BY <2>2, <2>3 DEF LaidTo
  <2> QED BY <2>4
<1>3. m \in G
  <2>1. \A k \in 0 .. m - 1 : k \in G => k + 1 \in G
    BY <1>2
  <2> HIDE DEF G
  <2> QED BY <1>1, <2>1, Induction
<1> QED BY <1>3 DEF Laid

RanTo(f, p, call, m) ==
    [n \in 0 .. m |-> IF n = 0 THEN [pc |-> 1, acc |-> 0, verdict |-> {}] ELSE Cycle(f[n - 1], p, call)]
Ran(p, call, m) == CHOOSE f : f = RanTo(f, p, call, m)

LEMMA RanRuns ==
    ASSUME NEW p, NEW call, NEW m \in Nat
    PROVE  Ran(p, call, m) = RanTo(Ran(p, call, m), p, call, m)
<1> DEFINE G == {k \in 0 .. m : \E f : f = RanTo(f, p, call, k)}
           fresh == [pc |-> 1, acc |-> 0, verdict |-> {}]
<1>1. 0 \in G
  <2>1. [i \in 0 .. 0 |-> fresh] = RanTo([i \in 0 .. 0 |-> fresh], p, call, 0)
    BY DEF RanTo
  <2> QED BY <2>1
<1>2. ASSUME NEW k \in 0 .. m - 1, k \in G PROVE k + 1 \in G
  <2>1. PICK f : f = RanTo(f, p, call, k)
    BY <1>2
  <2> DEFINE g == [i \in 0 .. k + 1 |-> IF i = 0 THEN fresh ELSE Cycle(f[i - 1], p, call)]
  <2>2. \A i \in 0 .. k : g[i] = f[i]
    <3>1. \A i \in 0 .. k : g[i] = RanTo(f, p, call, k)[i]
      BY DEF RanTo
    <3> QED BY <2>1, <3>1, Zenon
  <2>3. \A i \in 0 .. k + 1 : i # 0 => i - 1 \in 0 .. k
    OBVIOUS
  <2>4. g = RanTo(g, p, call, k + 1)
    BY <2>2, <2>3 DEF RanTo
  <2> QED BY <2>4
<1>3. m \in G
  <2>1. \A k \in 0 .. m - 1 : k \in G => k + 1 \in G
    BY <1>2
  <2> HIDE DEF G
  <2> QED BY <1>1, <2>1, Induction
<1> QED BY <1>3 DEF Ran

\* What fits in a word is not cut.
LEMMA LowIsSame == \A x \in 0 .. Modulus - 1 : Low(x) = x
  BY FilterAssumption DEF Low

\* A rule is three instructions, or five.
LEMMA RuleShape ==
    ASSUME NEW Fields, NEW r \in RuleOf(Fields)
    PROVE  \/ /\ r.args = {}
              /\ Rule(r) = <<LdAbs("nr"), Jeq(Low(r.nr), 0, 1), Ret("allow")>>
           \/ \E a \in [arg : Fields, value : Int] :
                /\ r.args = {a}
                /\ Rule(r) = <<LdAbs("nr"), Jeq(Low(r.nr), 0, 3), LdAbs(a.arg), Jeq(Low(a.value), 0, 1), Ret("allow")>>
<1>1. CASE r.args = {}
  BY <1>1 DEF Rule
<1>2. CASE r.args # {}
  <2>1. PICK a \in [arg : Fields, value : Int] : r.args = {a}
    BY <1>2 DEF RuleOf
  <2>2. (CHOOSE x \in r.args : TRUE) = a
    BY <2>1
  <2> QED BY <1>2, <2>1, <2>2 DEF Rule
<1> QED BY <1>1, <1>2

LEMMA ThreeAreSeq ==
    ASSUME NEW C, NEW R, NEW x, NEW y, NEW z, R = <<x, y, z>>, \A j \in 1 .. 3 : R[j] \in C
    PROVE  R \in Seq(C) /\ Len(R) = 3
<1>1. x = R[1] /\ y = R[2] /\ z = R[3]
  OBVIOUS
<1>2. x \in C /\ y \in C /\ z \in C
  BY <1>1
<1> QED BY <1>2

LEMMA FiveAreSeq ==
    ASSUME NEW C, NEW R, NEW x, NEW y, NEW z, NEW u, NEW v, R = <<x, y, z, u, v>>,
           \A j \in 1 .. 5 : R[j] \in C
    PROVE  R \in Seq(C) /\ Len(R) = 5
<1>1. x = R[1] /\ y = R[2] /\ z = R[3] /\ u = R[4] /\ v = R[5]
  OBVIOUS
<1>2. x \in C /\ y \in C /\ z \in C /\ u \in C /\ v \in C
  BY <1>1
<1> QED BY <1>2

\* The rules lie one behind the other, between the prologue and the action.
LEMMA CodeIsCode ==
    ASSUME NEW Fields, NEW rules \in Seq(RuleOf(Fields)), NEW C, C = Code(rules)
    PROVE  /\ Prologue \in Seq(C) /\ Len(Prologue) = 5 /\ <<Ret("action")>> \in Seq(C)
           /\ \A i \in 1 .. Len(rules) : Rule(rules[i]) \in Seq(C)
<1>1. ASSUME NEW j \in 1 .. 5 PROVE Prologue[j] \in C
  <2>1. Prologue[j] \in {Prologue[k] : k \in 1 .. 5}
    OBVIOUS
  <2> QED BY <2>1, Zenon DEF Code
<1>2. Ret("action") \in C
  <2>1. Ret("action") \in {Ret("action")}
    OBVIOUS
  <2> QED BY <2>1, Zenon DEF Code
<1>4. ASSUME NEW i \in 1 .. Len(rules) PROVE Rule(rules[i]) \in Seq(C)
  <2>1. ASSUME NEW j \in DOMAIN Rule(rules[i]) PROVE Rule(rules[i])[j] \in C
    <3>1. i \in DOMAIN rules
      OBVIOUS
    <3>2. Rule(rules[i])[j] \in {Rule(rules[i])[h] : h \in DOMAIN Rule(rules[i])}
      BY <2>1, Zenon
    <3> QED BY <3>1, <3>2, Zenon DEF Code
  <2>2. rules[i] \in RuleOf(Fields)
    OBVIOUS
  <2>3. ASSUME NEW x, NEW y, NEW z, Rule(rules[i]) = <<x, y, z>> PROVE Rule(rules[i]) \in Seq(C)
    <3>1. DOMAIN Rule(rules[i]) = 1 .. 3
      BY <2>3
    <3> QED BY <2>1, <2>3, <3>1, ThreeAreSeq
  <2>4. ASSUME NEW x, NEW y, NEW z, NEW u, NEW v, Rule(rules[i]) = <<x, y, z, u, v>>
        PROVE  Rule(rules[i]) \in Seq(C)
    <3>1. DOMAIN Rule(rules[i]) = 1 .. 5
      BY <2>4
    <3> QED BY <2>1, <2>4, <3>1, FiveAreSeq
  <2>5. CASE rules[i].args = {}
    BY <2>3, <2>5 DEF Rule
  <2>6. CASE rules[i].args # {}
    <3>1. PICK a : Rule(rules[i]) = <<LdAbs("nr"), Jeq(Low(rules[i].nr), 0, 3), LdAbs(a.arg), Jeq(Low(a.value), 0, 1), Ret("allow")>>
      BY <2>2, <2>6, RuleShape
    <3> QED BY <2>4, <3>1
  <2> QED BY <2>5, <2>6
<1>5. Prologue \in Seq(C) /\ Len(Prologue) = 5
  <2>1. ASSUME NEW x, NEW y, NEW z, NEW u, NEW v, Prologue = <<x, y, z, u, v>>
        PROVE  Prologue \in Seq(C) /\ Len(Prologue) = 5
    BY <1>1, <2>1, FiveAreSeq
  <2> QED BY <2>1 DEF Prologue
<1>6. <<Ret("action")>> \in Seq(C)
  BY <1>2
<1> QED BY <1>4, <1>5, <1>6

LEMMA LaidStep ==
    ASSUME NEW rules, NEW n \in Nat, NEW L, L = Laid(rules, n)
    PROVE  L[0] = Prologue /\ \A k \in 1 .. n : L[k] = L[k - 1] \o Rule(rules[k])
<1>1. L = LaidTo(L, rules, n)
  BY LaidRuns
<1>2. \A k \in 0 .. n : L[k] = IF k = 0 THEN Prologue ELSE L[k - 1] \o Rule(rules[k])
  <2>1. \A k \in 0 .. n : LaidTo(L, rules, n)[k] = IF k = 0 THEN Prologue ELSE L[k - 1] \o Rule(rules[k])
    BY DEF LaidTo
  <2> QED BY <1>1, <2>1, Zenon
<1>3. L[0] = Prologue
  BY <1>2
<1>4. \A k \in 1 .. n : k \in 0 .. n /\ k # 0
  OBVIOUS
<1> QED BY <1>2, <1>3, <1>4

IsLaidOut(rules, n, L, p) ==
    /\ Len(p) \in Nat /\ DOMAIN p = 1 .. Len(p)
    /\ \A j \in 1 .. 5 : p[j] = Prologue[j]
    /\ Len(L[0]) = 5 /\ Len(L[n]) + 1 = Len(p) /\ p[Len(p)] = Ret("action")
    /\ \A i \in 0 .. n : Len(L[i]) \in 5 .. Len(p) - 1
    /\ \A i \in 1 .. n :
          /\ Len(L[i]) = Len(L[i - 1]) + Len(Rule(rules[i]))
          /\ \A j \in 1 .. Len(Rule(rules[i])) : p[Len(L[i - 1]) + j] = Rule(rules[i])[j]

LEMMA Layout ==
    ASSUME NEW Fields, NEW rules \in Seq(RuleOf(Fields)),
           NEW n, n = Len(rules), NEW L, L = Laid(rules, n), NEW p, p = BuildProgram(rules)
    PROVE  IsLaidOut(rules, n, L, p)
<1>1. n \in Nat /\ L[0] = Prologue /\ \A k \in 1 .. n : L[k] = L[k - 1] \o Rule(rules[k])
  <2>1. n \in Nat
    OBVIOUS
  <2> QED BY <2>1, LaidStep
<1>2. p = L[n] \o <<Ret("action")>>
  BY Zenon DEF BuildProgram, Laid, LaidTo, Prologue
<1>3. PICK C : C = Code(rules)
  OBVIOUS
<1>4. /\ Prologue \in Seq(C) /\ Len(Prologue) = 5 /\ <<Ret("action")>> \in Seq(C)
      /\ \A i \in 1 .. n : Rule(rules[i]) \in Seq(C)
  BY <1>3, CodeIsCode
<1> DEFINE G == {k \in 0 .. n :
                   /\ \A h \in 0 .. k : L[h] \in Seq(C) /\ Len(L[h]) >= 5 /\ Len(L[h]) <= Len(L[k])
                   /\ \A j \in 1 .. 5 : L[k][j] = Prologue[j]
                   /\ \A i \in 1 .. k : \A j \in 1 .. Len(Rule(rules[i])) :
                         /\ Len(L[i - 1]) + j <= Len(L[k])
                         /\ L[k][Len(L[i - 1]) + j] = Rule(rules[i])[j]}
<1>5. 0 \in G
  BY <1>1, <1>4
<1>6. ASSUME NEW k \in 0 .. n - 1, k \in G PROVE k + 1 \in G
  <2>1. PICK R : R = Rule(rules[k + 1])
    OBVIOUS
  <2>2. k \in 0 .. n /\ k + 1 \in 1 .. n /\ (k + 1) - 1 = k
    BY <1>1, <1>6
  <2>3. R \in Seq(C) /\ L[k + 1] = L[k] \o R
    BY <1>1, <1>4, <2>1, <2>2
  <2>4. L[k] \in Seq(C) /\ Len(L[k]) >= 5
    BY <1>6, <2>2
  <2>5. L[k + 1] \in Seq(C) /\ Len(L[k + 1]) = Len(L[k]) + Len(R) /\ Len(R) \in Nat
    BY <2>3, <2>4
  <2>6. /\ \A j \in 1 .. Len(L[k]) : L[k + 1][j] = L[k][j]
        /\ \A j \in 1 .. Len(R) : L[k + 1][Len(L[k]) + j] = R[j]
    BY <2>3, <2>4
  <2>7. \A h \in 0 .. k + 1 : L[h] \in Seq(C) /\ Len(L[h]) >= 5 /\ Len(L[h]) <= Len(L[k + 1])
    <3> SUFFICES ASSUME NEW h \in 0 .. k + 1
                 PROVE  L[h] \in Seq(C) /\ Len(L[h]) >= 5 /\ Len(L[h]) <= Len(L[k + 1])
      OBVIOUS
    <3>1. CASE h \in 0 .. k
      <4>1. L[h] \in Seq(C) /\ Len(L[h]) >= 5 /\ Len(L[h]) <= Len(L[k])
        BY <1>6, <3>1
      <4> QED BY <2>4, <2>5, <4>1
    <3>2. CASE h = k + 1
      BY <2>4, <2>5, <3>2
    <3> QED BY <2>2, <3>1, <3>2
  <2>8. \A j \in 1 .. 5 : L[k + 1][j] = Prologue[j]
    <3>1. \A j \in 1 .. 5 : L[k][j] = Prologue[j]
      BY <1>6
    <3>2. \A j \in 1 .. 5 : j \in 1 .. Len(L[k])
      BY <2>4
    <3> QED BY <2>6, <3>1, <3>2
  <2>9. ASSUME NEW i \in 1 .. k + 1, NEW j \in 1 .. Len(Rule(rules[i]))
        PROVE  /\ Len(L[i - 1]) + j <= Len(L[k + 1])
               /\ L[k + 1][Len(L[i - 1]) + j] = Rule(rules[i])[j]
    <3>1. CASE i = k + 1
      <4>1. i - 1 = k /\ Rule(rules[i]) = R /\ Len(L[i - 1]) = Len(L[k])
        BY <2>1, <2>2, <3>1
      <4>2. j \in 1 .. Len(R)
        BY <2>9, <4>1
      <4>3. Len(L[k]) + j <= Len(L[k + 1])
        BY <2>4, <2>5, <4>2
      <4> QED BY <2>6, <4>1, <4>2, <4>3
    <3>2. CASE i \in 1 .. k
      <4>1. Len(L[i - 1]) + j <= Len(L[k]) /\ L[k][Len(L[i - 1]) + j] = Rule(rules[i])[j]
        BY <1>6, <3>2
      <4>2. i - 1 \in 0 .. k /\ i \in 1 .. n
        BY <3>2, <2>2
      <4>3. Len(L[i - 1]) \in Nat /\ j \in Nat \ {0}
        <5>1. L[i - 1] \in Seq(C)
          BY <1>6, <4>2
        <5>2. Rule(rules[i]) \in Seq(C)
          BY <1>4, <4>2
        <5> QED BY <5>1, <5>2
      <4>4. Len(L[i - 1]) + j \in 1 .. Len(L[k])
        BY <2>4, <4>1, <4>3
      <4>5. Len(L[i - 1]) + j <= Len(L[k + 1])
        BY <2>4, <2>5, <4>1, <4>3
      <4> QED BY <2>6, <4>1, <4>4, <4>5
    <3> QED BY <2>2, <3>1, <3>2
  <2> QED BY <2>2, <2>7, <2>8, <2>9
<1>7. n \in G
  <2>1. \A k \in 0 .. n - 1 : k \in G => k + 1 \in G
    BY <1>6
  <2>2. n \in Nat
    BY <1>1
  <2> HIDE DEF G
  <2>3. 0 .. n \subseteq G
    BY <1>5, <2>1, <2>2, Induction
  <2> QED BY <2>2, <2>3
<1>8. \A h \in 0 .. n : L[h] \in Seq(C) /\ Len(L[h]) >= 5 /\ Len(L[h]) <= Len(L[n])
  BY <1>1, <1>7
<1>9. L[n] \in Seq(C) /\ Len(L[n]) \in Nat
  BY <1>1, <1>8
<1>10. /\ Len(p) = Len(L[n]) + 1 /\ Len(p) \in Nat /\ DOMAIN p = 1 .. Len(p)
       /\ \A j \in 1 .. Len(L[n]) : p[j] = L[n][j]
       /\ p[Len(p)] = Ret("action")
  <2>1. Len(<<Ret("action")>>) = 1 /\ <<Ret("action")>>[1] = Ret("action")
    OBVIOUS
  <2>2. p \in Seq(C)
    BY <1>2, <1>4, <1>9
  <2> QED BY <1>2, <1>4, <1>9, <2>1, <2>2
<1>11. \A j \in 1 .. 5 : p[j] = Prologue[j]
  <2>1. \A j \in 1 .. 5 : L[n][j] = Prologue[j]
    BY <1>7
  <2>2. Len(L[n]) >= 5
    BY <1>1, <1>8
  <2>3. \A j \in 1 .. 5 : j \in 1 .. Len(L[n])
    BY <1>9, <2>2
  <2> QED BY <1>10, <2>1, <2>3
<1>12. Len(L[0]) = 5 /\ Len(L[n]) + 1 = Len(p)
  BY <1>1, <1>4, <1>10
<1>13. ASSUME NEW i \in 1 .. n
       PROVE  /\ Len(L[i]) = Len(L[i - 1]) + Len(Rule(rules[i]))
              /\ \A j \in 1 .. Len(Rule(rules[i])) : p[Len(L[i - 1]) + j] = Rule(rules[i])[j]
  <2>1. i \in 0 .. n /\ i - 1 \in 0 .. n
    BY <1>1
  <2>2. L[i - 1] \in Seq(C) /\ Rule(rules[i]) \in Seq(C) /\ L[i] = L[i - 1] \o Rule(rules[i])
    BY <1>1, <1>4, <1>8, <2>1
  <2>3. Len(L[i]) = Len(L[i - 1]) + Len(Rule(rules[i])) /\ Len(L[i - 1]) \in Nat
    BY <2>2
  <2>4. ASSUME NEW j \in 1 .. Len(Rule(rules[i])) PROVE p[Len(L[i - 1]) + j] = Rule(rules[i])[j]
    <3>1. Len(L[i - 1]) + j <= Len(L[n]) /\ L[n][Len(L[i - 1]) + j] = Rule(rules[i])[j]
      BY <1>7
    <3>2. Len(L[i - 1]) + j \in 1 .. Len(L[n])
      BY <1>9, <2>2, <2>3, <3>1
    <3> QED BY <1>10, <3>1, <3>2
  <2> QED BY <2>3, <2>4
<1>14. ASSUME NEW i \in 0 .. n PROVE Len(L[i]) \in 5 .. Len(p) - 1
  <2>1. L[i] \in Seq(C) /\ Len(L[i]) >= 5 /\ Len(L[i]) <= Len(L[n])
    BY <1>8
  <2> QED BY <1>9, <1>10, <2>1
<1> QED BY <1>10, <1>11, <1>12, <1>13, <1>14 DEF IsLaidOut

\* What a cycle of the machine does, by instruction.
Machine(m) == m = [pc |-> m.pc, acc |-> m.acc, verdict |-> m.verdict] /\ m.pc \in Nat
MovesTo(m, c, pc, acc) == Machine(c) /\ c.pc = pc /\ c.acc = acc /\ c.verdict = {}

LEMMA Cycles ==
    ASSUME NEW p, NEW call, NEW m, Machine(m), m.verdict = {}, m.pc \in DOMAIN p
    PROVE  /\ \A field : p[m.pc] = LdAbs(field) => MovesTo(m, Cycle(m, p, call), m.pc + 1, Loaded(field, call))
           /\ \A k : \A jt, jf \in Nat :
                 p[m.pc] = Jeq(k, jt, jf) =>
                    MovesTo(m, Cycle(m, p, call), m.pc + 1 + (IF m.acc = k THEN jt ELSE jf), m.acc)
           /\ \A off \in Nat : p[m.pc] = Ja(off) => MovesTo(m, Cycle(m, p, call), m.pc + 1 + off, m.acc)
           /\ \A what : p[m.pc] = Ret(what) => /\ Machine(Cycle(m, p, call))
                                               /\ Cycle(m, p, call).verdict = {what}
<1>1. m = [pc |-> m.pc, acc |-> m.acc, verdict |-> {}] /\ m.pc \in Nat
  BY DEF Machine
<1>2. ASSUME NEW field, p[m.pc] = LdAbs(field)
      PROVE  MovesTo(m, Cycle(m, p, call), m.pc + 1, Loaded(field, call))
  <2>1. Cycle(m, p, call) = [m EXCEPT !.acc = Loaded(field, call), !.pc = @ + 1]
    BY <1>2 DEF Cycle, LdAbs, Insn
  <2>2. PICK x : x = Loaded(field, call)
    OBVIOUS
  <2>3. Cycle(m, p, call) = [pc |-> m.pc + 1, acc |-> x, verdict |-> {}]
    BY <1>1, <2>1, <2>2
  <2> QED BY <1>1, <2>2, <2>3 DEF Machine, MovesTo
<1>3. ASSUME NEW k, NEW jt \in Nat, NEW jf \in Nat, p[m.pc] = Jeq(k, jt, jf)
      PROVE  MovesTo(m, Cycle(m, p, call), m.pc + 1 + (IF m.acc = k THEN jt ELSE jf), m.acc)
  <2>1. Cycle(m, p, call) = [m EXCEPT !.pc = @ + 1 + (IF m.acc = k THEN jt ELSE jf)]
    BY <1>3 DEF Cycle, Jeq, Insn
  <2> QED BY <1>1, <2>1 DEF Machine, MovesTo
<1>4. ASSUME NEW off \in Nat, p[m.pc] = Ja(off)
      PROVE  MovesTo(m, Cycle(m, p, call), m.pc + 1 + off, m.acc)
  <2>1. Cycle(m, p, call) = [m EXCEPT !.pc = @ + 1 + off]
    BY <1>4 DEF Cycle, Ja, Insn
  <2> QED BY <1>1, <2>1 DEF Machine, MovesTo
<1>5. ASSUME NEW what, p[m.pc] = Ret(what)
      PROVE  Machine(Cycle(m, p, call)) /\ Cycle(m, p, call).verdict = {what}
  <2>1. Cycle(m, p, call) = [m EXCEPT !.verdict = {what}]
    BY <1>5 DEF Cycle, Ret, Insn
  <2> QED BY <1>1, <2>1 DEF Machine
<1> QED BY <1>2, <1>3, <1>4, <1>5

\* Where the machine may be, and what it knows there.
NoneBefore(rules, call, i) == \A j \in 1 .. i - 1 : ~Matches(rules[j], call)
InRule(r, call, start, m) ==
    \/ m.pc = start + 1
    \/ m.pc = start + 2 /\ m.acc = call.nr
    \/ m.pc = start + 3 /\ Low(r.nr) = call.nr
    \/ /\ r.args # {} /\ m.pc = start + 4 /\ Low(r.nr) = call.nr
       /\ \A a \in r.args : m.acc = Low(call.args[a.arg])
    \/ r.args # {} /\ m.pc = start + 5 /\ Matches(r, call)
InPrologue(m) == m.pc \in 1 .. 4
AtRule(rules, call, L, m, i) == /\ NoneBefore(rules, call, i)
                                /\ InRule(rules[i], call, Len(L[i - 1]), m)
AtEnd(rules, call, L, m) == /\ m.pc = Len(L[Len(rules)]) + 1
                            /\ NoneBefore(rules, call, Len(rules) + 1)
Somewhere(rules, call, L, m) ==
    \/ InPrologue(m)
    \/ \E i \in 1 .. Len(rules) : AtRule(rules, call, L, m, i)
    \/ AtEnd(rules, call, L, m)
Decided(rules, call, m) ==
    \/ m.verdict = {"allow"} /\ \E i \in 1 .. Len(rules) : Matches(rules[i], call)
    \/ m.verdict = {"action"} /\ NoneBefore(rules, call, Len(rules) + 1)

\* The next rule, or the end, from which no rule before it matches.
LEMMA NextRule ==
    ASSUME NEW rules, Len(rules) \in Nat, NEW call, NEW L, NEW m,
           NEW i \in 0 .. Len(rules), NoneBefore(rules, call, i + 1), m.pc = Len(L[i]) + 1
    PROVE  Somewhere(rules, call, L, m)
<1>1. CASE i = Len(rules)
  <2>1. AtEnd(rules, call, L, m)
    BY <1>1 DEF AtEnd
  <2> QED BY <2>1 DEF Somewhere
<1>2. CASE i # Len(rules)
  <2>1. i + 1 \in 1 .. Len(rules) /\ (i + 1) - 1 = i
    BY <1>2
  <2>2. AtRule(rules, call, L, m, i + 1)
    BY <2>1 DEF AtRule, InRule
  <2> QED BY <2>1, <2>2 DEF Somewhere
<1> QED BY <1>1, <1>2

LEMMA PrologueStep ==
    ASSUME NEW Fields, NEW rules \in Seq(RuleOf(Fields)), NEW call,
           NEW L, NEW p, IsLaidOut(rules, Len(rules), L, p),
           NEW m, Machine(m), m.verdict = {}, InPrologue(m),
           NEW c, c = Cycle(m, p, call)
    PROVE  /\ Machine(c)
           /\ Decided(rules, call, c) \/ (c.verdict = {} /\ c.pc > m.pc /\ Somewhere(rules, call, L, c))
<1>1. /\ Len(p) \in Nat /\ DOMAIN p = 1 .. Len(p) /\ Len(L[0]) = 5 /\ Len(L[0]) \in 5 .. Len(p) - 1
      /\ \A j \in 1 .. 5 : p[j] = Prologue[j]
  <2>1. Len(rules) \in Nat /\ 0 \in 0 .. Len(rules)
    OBVIOUS
  <2>2. /\ Len(p) \in Nat /\ DOMAIN p = 1 .. Len(p) /\ Len(L[0]) = 5
        /\ \A j \in 1 .. 5 : p[j] = Prologue[j]
    BY DEF IsLaidOut
  <2>3. \A i \in 0 .. Len(rules) : Len(L[i]) \in 5 .. Len(p) - 1
    BY DEF IsLaidOut
  <2> QED BY <2>1, <2>2, <2>3
<1>2. m.pc \in 1 .. 4 /\ m.pc \in DOMAIN p /\ p[m.pc] = Prologue[m.pc]
  BY <1>1 DEF InPrologue
<1>3. CASE m.pc = 1
  <2>1. p[m.pc] = LdAbs("arch")
    BY <1>2, <1>3 DEF Prologue
  <2>2. MovesTo(m, c, m.pc + 1, Loaded("arch", call))
    BY <1>2, <2>1, Cycles
  <2>3. Machine(c) /\ c.verdict = {} /\ c.pc = 2
    BY <1>3, <2>2 DEF MovesTo
  <2> QED BY <1>3, <2>3 DEF Somewhere, InPrologue
<1>4. CASE m.pc = 2
  <2>1. p[m.pc] = Jeq(Arch, 0, 1)
    BY <1>2, <1>4 DEF Prologue
  <2>2. MovesTo(m, c, m.pc + 1 + (IF m.acc = Arch THEN 0 ELSE 1), m.acc)
    BY <1>2, <2>1, Cycles
  <2>3. Machine(c) /\ c.verdict = {} /\ c.pc = 3 + (IF m.acc = Arch THEN 0 ELSE 1)
    BY <1>4, <2>2 DEF MovesTo
  <2>4. c.pc \in 3 .. 4
    BY <2>3
  <2> QED BY <1>4, <2>3, <2>4 DEF Somewhere, InPrologue
<1>5. CASE m.pc = 3
  <2>1. p[m.pc] = LdAbs("nr")
    BY <1>2, <1>5 DEF Prologue
  <2>2. MovesTo(m, c, m.pc + 1, Loaded("nr", call))
    BY <1>2, <2>1, Cycles
  <2>3. Machine(c) /\ c.verdict = {} /\ c.pc = 4
    BY <1>5, <2>2 DEF MovesTo
  <2> QED BY <1>5, <2>3 DEF Somewhere, InPrologue
<1>6. CASE m.pc = 4
  <2>1. p[m.pc] = Ja(1)
    BY <1>2, <1>6 DEF Prologue
  <2>2. MovesTo(m, c, m.pc + 1 + 1, m.acc)
    BY <1>2, <2>1, Cycles
  <2>3. Machine(c) /\ c.verdict = {} /\ c.pc = 6
    BY <1>6, <2>2 DEF MovesTo
  <2>4. c.pc = Len(L[0]) + 1
    BY <1>1, <2>3
  <2>5. NoneBefore(rules, call, 0 + 1) /\ Len(rules) \in Nat /\ 0 \in 0 .. Len(rules)
    BY DEF NoneBefore
  <2>6. Somewhere(rules, call, L, c)
    BY <2>4, <2>5, NextRule
  <2> QED BY <1>6, <2>3, <2>6
<1> QED BY <1>2, <1>3, <1>4, <1>5, <1>6

\* At a rule.  What the rule is: three instructions, or five.
LEMMA RuleStep ==
    ASSUME NEW Fields, "arch" \notin Fields, "nr" \notin Fields,
           NEW rules \in Seq(RuleOf(Fields)), NEW call,
           NEW L, NEW p, IsLaidOut(rules, Len(rules), L, p),
           NEW m, Machine(m), m.verdict = {}, NEW i \in 1 .. Len(rules), AtRule(rules, call, L, m, i),
           NEW c, c = Cycle(m, p, call)
    PROVE  /\ Machine(c)
           /\ Decided(rules, call, c) \/ (c.verdict = {} /\ c.pc > m.pc /\ Somewhere(rules, call, L, c))
<1>1. PICK r, start, size : r = rules[i] /\ start = Len(L[i - 1]) /\ size = Len(Rule(r))
  OBVIOUS
<1>2. r \in RuleOf(Fields) /\ Len(rules) \in Nat /\ i - 1 \in 0 .. Len(rules) /\ i \in 0 .. Len(rules)
  BY <1>1
<1>3. /\ Len(p) \in Nat /\ DOMAIN p = 1 .. Len(p) /\ start \in 5 .. Len(p) - 1 /\ Len(L[i]) \in 5 .. Len(p) - 1
      /\ Len(L[i]) = start + size
      /\ \A j \in 1 .. size : p[start + j] = Rule(r)[j]
  <2>1. Len(p) \in Nat /\ DOMAIN p = 1 .. Len(p) /\ \A k \in 0 .. Len(rules) : Len(L[k]) \in 5 .. Len(p) - 1
    BY DEF IsLaidOut
  <2>2. /\ Len(L[i]) = Len(L[i - 1]) + Len(Rule(rules[i]))
        /\ \A j \in 1 .. Len(Rule(rules[i])) : p[Len(L[i - 1]) + j] = Rule(rules[i])[j]
    BY DEF IsLaidOut
  <2>3. i \in 0 .. Len(rules)
    BY <1>2
  <2>4. Len(L[i - 1]) \in 5 .. Len(p) - 1
    BY <1>2, <2>1
  <2>5. Len(L[i]) \in 5 .. Len(p) - 1
    BY <2>1, <2>3
  <2> QED BY <1>1, <2>1, <2>2, <2>4, <2>5
<1>4. NoneBefore(rules, call, i) /\ InRule(r, call, start, m)
  BY <1>1 DEF AtRule
<1>5. ASSUME c.verdict = {}, c.pc > m.pc, Machine(c), InRule(r, call, start, c)
      PROVE  Somewhere(rules, call, L, c)
  BY <1>1, <1>4, <1>5 DEF AtRule, Somewhere
<1>6. ASSUME c.pc = start + size + 1, ~Matches(r, call)
      PROVE  Somewhere(rules, call, L, c)
  <2>1. NoneBefore(rules, call, i + 1)
    BY <1>1, <1>4, <1>6 DEF NoneBefore
  <2>2. c.pc = Len(L[i]) + 1
    BY <1>3, <1>6
  <2> QED BY <1>2, <2>1, <2>2, NextRule
<1>7. Loaded("nr", call) = call.nr
  BY DEF Loaded
<1>8. CASE r.args = {}
  <2>1. Rule(r) = <<LdAbs("nr"), Jeq(Low(r.nr), 0, 1), Ret("allow")>>
    BY <1>8 DEF Rule
  <2>2. size = 3 /\ Rule(r)[1] = LdAbs("nr") /\ Rule(r)[2] = Jeq(Low(r.nr), 0, 1) /\ Rule(r)[3] = Ret("allow")
    BY <1>1, <2>1
  <2>3. p[start + 1] = LdAbs("nr") /\ p[start + 2] = Jeq(Low(r.nr), 0, 1) /\ p[start + 3] = Ret("allow")
    BY <1>3, <2>2
  <2>4. {start + 1, start + 2, start + 3} \subseteq DOMAIN p
    BY <1>3, <2>2
  <2>5. Matches(r, call) <=> Low(r.nr) = call.nr
    BY <1>8 DEF Matches
  <2>6. CASE m.pc = start + 1
    <3>1. MovesTo(m, c, m.pc + 1, Loaded("nr", call))
      BY <2>3, <2>4, <2>6, Cycles
    <3>2. Machine(c) /\ c.verdict = {} /\ c.pc = start + 2 /\ c.acc = call.nr
      BY <1>3, <1>7, <2>6, <3>1 DEF MovesTo
    <3>3. c.pc > m.pc
      BY <1>3, <2>6, <3>2
    <3> QED BY <1>5, <3>2, <3>3 DEF InRule
  <2>7. CASE m.pc = start + 2 /\ m.acc = call.nr
    <3>1. MovesTo(m, c, m.pc + 1 + (IF m.acc = Low(r.nr) THEN 0 ELSE 1), m.acc)
      BY <2>3, <2>4, <2>7, Cycles
    <3>2. Machine(c) /\ c.verdict = {} /\ c.pc = start + 3 + (IF call.nr = Low(r.nr) THEN 0 ELSE 1)
      BY <1>3, <2>7, <3>1 DEF MovesTo
    <3>3. c.pc > m.pc
      BY <1>3, <2>7, <3>2
    <3>4. CASE Low(r.nr) = call.nr
      <4>1. InRule(r, call, start, c)
        BY <1>3, <3>2, <3>4 DEF InRule
      <4> QED BY <1>5, <3>2, <3>3, <4>1
    <3>5. CASE Low(r.nr) # call.nr
      <4>1. c.pc = start + size + 1
        BY <1>3, <2>2, <3>2, <3>5
      <4> QED BY <1>6, <2>5, <3>2, <3>3, <3>5, <4>1
    <3> QED BY <3>4, <3>5
  <2>8. CASE m.pc = start + 3 /\ Low(r.nr) = call.nr
    <3>1. Machine(c) /\ c.verdict = {"allow"}
      BY <2>3, <2>4, <2>8, Cycles
    <3> QED BY <1>1, <2>5, <2>8, <3>1 DEF Decided
  <2> QED BY <1>4, <1>8, <2>6, <2>7, <2>8 DEF InRule
<1>9. CASE r.args # {}
  <2>1. PICK a \in [arg : Fields, value : Int] :
            /\ r.args = {a}
            /\ Rule(r) = <<LdAbs("nr"), Jeq(Low(r.nr), 0, 3), LdAbs(a.arg), Jeq(Low(a.value), 0, 1), Ret("allow")>>
    BY <1>2, <1>9, RuleShape
  <2>2. PICK low : low = Low(a.value)
    OBVIOUS
  <2>3. /\ size = 5 /\ Rule(r)[1] = LdAbs("nr") /\ Rule(r)[2] = Jeq(Low(r.nr), 0, 3)
        /\ Rule(r)[3] = LdAbs(a.arg) /\ Rule(r)[4] = Jeq(low, 0, 1) /\ Rule(r)[5] = Ret("allow")
    BY <1>1, <2>1, <2>2
  <2>4. /\ p[start + 1] = LdAbs("nr") /\ p[start + 2] = Jeq(Low(r.nr), 0, 3)
        /\ p[start + 3] = LdAbs(a.arg) /\ p[start + 4] = Jeq(low, 0, 1) /\ p[start + 5] = Ret("allow")
    <3>1. \A j \in 1 .. 5 : p[start + j] = Rule(r)[j]
      BY <1>3, <2>3
    <3>2. 1 \in 1 .. 5 /\ 2 \in 1 .. 5 /\ 3 \in 1 .. 5 /\ 4 \in 1 .. 5 /\ 5 \in 1 .. 5
      OBVIOUS
    <3> QED BY <2>3, <3>1, <3>2, Zenon
  <2>5. {start + 1, start + 2, start + 3, start + 4, start + 5} \subseteq DOMAIN p
    BY <1>3, <2>3
  <2>6. Matches(r, call) <=> (Low(r.nr) = call.nr /\ low = Low(call.args[a.arg]))
    BY <2>1, <2>2 DEF Matches
  <2>7. Loaded(a.arg, call) = Low(call.args[a.arg])
    <3>1. a.arg # "arch" /\ a.arg # "nr"
      BY <2>1
    <3> QED BY <3>1 DEF Loaded
  <2>8. CASE m.pc = start + 1
    <3>1. MovesTo(m, c, m.pc + 1, Loaded("nr", call))
      BY <2>4, <2>5, <2>8, Cycles
    <3>2. Machine(c) /\ c.verdict = {} /\ c.pc = start + 2 /\ c.acc = call.nr
      BY <1>3, <1>7, <2>8, <3>1 DEF MovesTo
    <3>3. c.pc > m.pc
      BY <1>3, <2>8, <3>2
    <3> QED BY <1>5, <3>2, <3>3 DEF InRule
  <2>9. CASE m.pc = start + 2 /\ m.acc = call.nr
    <3>1. MovesTo(m, c, m.pc + 1 + (IF m.acc = Low(r.nr) THEN 0 ELSE 3), m.acc)
      BY <2>4, <2>5, <2>9, Cycles
    <3>2. Machine(c) /\ c.verdict = {} /\ c.pc = start + 3 + (IF call.nr = Low(r.nr) THEN 0 ELSE 3)
      BY <1>3, <2>9, <3>1 DEF MovesTo
    <3>3. c.pc > m.pc
      BY <1>3, <2>9, <3>2
    <3>4. CASE Low(r.nr) = call.nr
      <4>1. InRule(r, call, start, c)
        BY <1>3, <3>2, <3>4 DEF InRule
      <4> QED BY <1>5, <3>2, <3>3, <4>1
    <3>5. CASE Low(r.nr) # call.nr
      <4>1. c.pc = start + size + 1
        BY <1>3, <2>3, <3>2, <3>5
      <4> QED BY <1>6, <2>6, <3>2, <3>3, <3>5, <4>1
    <3> QED BY <3>4, <3>5
  <2>10. CASE m.pc = start + 3 /\ Low(r.nr) = call.nr
    <3>1. MovesTo(m, c, m.pc + 1, Loaded(a.arg, call))
      BY <2>4, <2>5, <2>10, Cycles
    <3>2. Machine(c) /\ c.verdict = {} /\ c.pc = start + 4 /\ c.acc = Low(call.args[a.arg])
      BY <1>3, <2>7, <2>10, <3>1 DEF MovesTo
    <3>3. c.pc > m.pc
      BY <1>3, <2>10, <3>2
    <3>4. InRule(r, call, start, c)
      BY <1>9, <2>1, <2>10, <3>2 DEF InRule
    <3> QED BY <1>5, <3>2, <3>3, <3>4
  <2>11. CASE m.pc = start + 4 /\ Low(r.nr) = call.nr /\ m.acc = Low(call.args[a.arg])
    <3>1. MovesTo(m, c, m.pc + 1 + (IF m.acc = low THEN 0 ELSE 1), m.acc)
      BY <2>4, <2>5, <2>11, Cycles
    <3>2. Machine(c) /\ c.verdict = {} /\ c.pc = start + 5 + (IF m.acc = low THEN 0 ELSE 1)
      BY <1>3, <2>11, <3>1 DEF MovesTo
    <3>3. c.pc > m.pc
      BY <1>3, <2>11, <3>2
    <3>4. CASE m.acc = low
      <4>1. InRule(r, call, start, c)
        BY <1>3, <1>9, <2>6, <2>11, <3>2, <3>4 DEF InRule
      <4> QED BY <1>5, <3>2, <3>3, <4>1
    <3>5. CASE m.acc # low
      <4>1. c.pc = start + size + 1
        BY <1>3, <2>3, <3>2, <3>5
      <4> QED BY <1>6, <2>6, <2>11, <3>2, <3>3, <3>5, <4>1
    <3> QED BY <3>4, <3>5
  <2>12. CASE m.pc = start + 5 /\ Matches(r, call)
    <3>1. Machine(c) /\ c.verdict = {"allow"}
      BY <2>4, <2>5, <2>12, Cycles
    <3> QED BY <1>1, <2>12, <3>1 DEF Decided
  <2> QED BY <1>4, <2>1, <2>8, <2>9, <2>10, <2>11, <2>12 DEF InRule
<1> QED BY <1>8, <1>9

\* At the end, where nothing matched.
LEMMA EndStep ==
    ASSUME NEW rules, Len(rules) \in Nat, NEW call, NEW L, NEW p, IsLaidOut(rules, Len(rules), L, p),
           NEW m, Machine(m), m.verdict = {}, AtEnd(rules, call, L, m),
           NEW c, c = Cycle(m, p, call)
    PROVE  Machine(c) /\ Decided(rules, call, c)
<1>1. m.pc = Len(p) /\ m.pc \in DOMAIN p /\ p[m.pc] = Ret("action")
  <2>1. m.pc = Len(p) /\ Len(p) \in Nat /\ DOMAIN p = 1 .. Len(p) /\ p[Len(p)] = Ret("action")
    BY DEF IsLaidOut, AtEnd
  <2>2. 1 <= Len(p)
    <3>1. \A i \in 0 .. Len(rules) : Len(L[i]) \in 5 .. Len(p) - 1
      BY DEF IsLaidOut
    <3>2. Len(L[0]) \in 5 .. Len(p) - 1
      BY <3>1
    <3> QED BY <2>1, <3>2
  <2> QED BY <2>1, <2>2
<1>2. Machine(c) /\ c.verdict = {"action"}
  BY <1>1, Cycles
<1> QED BY <1>2 DEF Decided, AtEnd

\* What the filter of a profile does: for every profile, whose rules look at
\* the number or at the number and one argument, and for every call, the
\* program that build_program lays out halts, and allows exactly the calls
\* that a rule of the profile matches as far as a word tells
\* (seccomp.rs 394-434).
AllowsMatches(rules, call) ==
    LET v == Verdict(BuildProgram(rules), call)
    IN /\ v \in {{"allow"}, {"action"}}
       /\ v = {"allow"} <=> \E i \in DOMAIN rules : Matches(rules[i], call)

LEMMA FilterAllows ==
    ASSUME NEW Fields, "arch" \notin Fields, "nr" \notin Fields,
           NEW rules \in Seq(RuleOf(Fields)), NEW call
    PROVE  AllowsMatches(rules, call)
<1>1. PICK n, L, p : n = Len(rules) /\ L = Laid(rules, n) /\ p = BuildProgram(rules)
  OBVIOUS
<1>2. IsLaidOut(rules, Len(rules), L, p) /\ Len(rules) \in Nat
  BY <1>1, Layout
<1>3. PICK size : size = Len(p) /\ size \in Nat /\ DOMAIN p = 1 .. size
  BY <1>2 DEF IsLaidOut
<1>4. PICK m : m = Ran(p, call, size)
  OBVIOUS
<1>5. m = RanTo(m, p, call, size)
  BY <1>3, <1>4, RanRuns
<1>6. /\ m[0] = [pc |-> 1, acc |-> 0, verdict |-> {}]
      /\ \A k \in 0 .. size - 1 : m[k + 1] = Cycle(m[k], p, call)
  <2>1. \A k \in 0 .. size : m[k] = IF k = 0 THEN [pc |-> 1, acc |-> 0, verdict |-> {}] ELSE Cycle(m[k - 1], p, call)
    <3>1. \A k \in 0 .. size : RanTo(m, p, call, size)[k]
              = IF k = 0 THEN [pc |-> 1, acc |-> 0, verdict |-> {}] ELSE Cycle(m[k - 1], p, call)
      BY DEF RanTo
    <3> QED BY <1>5, <3>1, Zenon
  <2>2. 0 \in 0 .. size /\ \A k \in 0 .. size - 1 : k + 1 \in 0 .. size /\ k + 1 # 0 /\ (k + 1) - 1 = k
    BY <1>3
  <2>3. m[0] = [pc |-> 1, acc |-> 0, verdict |-> {}]
    BY <2>1, <2>2
  <2>4. ASSUME NEW k \in 0 .. size - 1 PROVE m[k + 1] = Cycle(m[k], p, call)
    <3>1. m[k + 1] = Cycle(m[(k + 1) - 1], p, call)
      BY <2>1, <2>2
    <3> QED BY <2>2, <3>1
  <2> QED BY <2>3, <2>4
<1> DEFINE Good(k) == /\ Machine(m[k])
                      /\ Decided(rules, call, m[k])
                         \/ (m[k].verdict = {} /\ m[k].pc > k /\ Somewhere(rules, call, L, m[k]))
           G == {k \in 0 .. size : Good(k)}
<1>7. 0 \in G
  BY <1>3, <1>6 DEF Machine, Somewhere, InPrologue
<1>8. ASSUME NEW k \in 0 .. size - 1, k \in G PROVE k + 1 \in G
  <2>1. PICK s, c : s = m[k] /\ c = Cycle(s, p, call)
    OBVIOUS
  <2>2. m[k + 1] = c /\ k \in Nat /\ k + 1 \in 0 .. size
    BY <1>3, <1>6, <2>1
  <2>3. /\ Machine(s)
        /\ Decided(rules, call, s) \/ (s.verdict = {} /\ s.pc > k /\ Somewhere(rules, call, L, s))
    BY <1>8, <2>1
  <2>4. CASE Decided(rules, call, s)
    <3>1. s.verdict # {}
      BY <2>4 DEF Decided
    <3>2. c = s
      BY <2>1, <3>1 DEF Cycle
    <3> QED BY <2>2, <2>3, <2>4, <3>2
  <2>5. CASE s.verdict = {} /\ s.pc > k /\ Somewhere(rules, call, L, s)
    <3>1. /\ Machine(c)
          /\ Decided(rules, call, c) \/ (c.verdict = {} /\ c.pc > s.pc /\ Somewhere(rules, call, L, c))
      <4>1. CASE InPrologue(s)
        BY <1>2, <2>1, <2>3, <2>5, <4>1, PrologueStep
      <4>2. ASSUME NEW i \in 1 .. Len(rules), AtRule(rules, call, L, s, i)
            PROVE  /\ Machine(c)
                   /\ Decided(rules, call, c)
                      \/ (c.verdict = {} /\ c.pc > s.pc /\ Somewhere(rules, call, L, c))
        BY <1>2, <2>1, <2>3, <2>5, <4>2, RuleStep
      <4>3. CASE AtEnd(rules, call, L, s)
        BY <1>2, <2>1, <2>3, <2>5, <4>3, EndStep
      <4> QED BY <2>5, <4>1, <4>2, <4>3 DEF Somewhere
    <3>2. c.verdict = {} /\ c.pc > s.pc => c.pc > k + 1
      BY <2>2, <2>3, <2>5, <3>1 DEF Machine
    <3> QED BY <2>2, <3>1, <3>2
  <2> QED BY <2>3, <2>4, <2>5
<1>9. size \in G
  <2>1. \A k \in 0 .. size - 1 : k \in G => k + 1 \in G
    BY <1>8
  <2> HIDE DEF G
  <2> QED BY <1>3, <1>7, <2>1, Induction
<1>10. Decided(rules, call, m[size])
  <2>1. ASSUME m[size].pc > size, Machine(m[size]), Somewhere(rules, call, L, m[size]) PROVE FALSE
    <3>1. PICK s : s = m[size]
      OBVIOUS
    <3>2. s.pc > size /\ s.pc \in Nat
      BY <2>1, <3>1 DEF Machine
    <3>3. /\ Len(L[0]) = 5 /\ Len(L[0]) \in 5 .. size - 1 /\ Len(L[Len(rules)]) + 1 = size
          /\ \A i \in 1 .. Len(rules) : Len(L[i]) \in 5 .. size - 1
          /\ \A i \in 1 .. Len(rules) : Len(L[i - 1]) \in 5 .. size - 1 /\ Len(L[i]) = Len(L[i - 1]) + Len(Rule(rules[i]))
      <4>1. /\ Len(L[0]) = 5 /\ Len(L[Len(rules)]) + 1 = size
            /\ \A i \in 0 .. Len(rules) : Len(L[i]) \in 5 .. size - 1
            /\ \A i \in 1 .. Len(rules) : Len(L[i]) = Len(L[i - 1]) + Len(Rule(rules[i]))
        BY <1>2, <1>3 DEF IsLaidOut
      <4>2. 0 \in 0 .. Len(rules) /\ \A i \in 1 .. Len(rules) : i \in 0 .. Len(rules) /\ i - 1 \in 0 .. Len(rules)
        BY <1>2
      <4> QED BY <4>1, <4>2
    <3>4. CASE InPrologue(s)
      BY <1>3, <3>2, <3>3, <3>4 DEF InPrologue
    <3>5. ASSUME NEW i \in 1 .. Len(rules), AtRule(rules, call, L, s, i) PROVE FALSE
      <4>1. rules[i] \in RuleOf(Fields)
        OBVIOUS
      <4>2. PICK r, start, k, next : r = rules[i] /\ start = Len(L[i - 1]) /\ k = Len(Rule(rules[i])) /\ next = Len(L[i])
        OBVIOUS
      <4>3. start \in Nat /\ next = start + k /\ next <= size - 1
        <5>1. start \in 5 .. size - 1 /\ next \in 5 .. size - 1 /\ next = start + k
          BY <3>3, <4>2
        <5> QED BY <1>3, <5>1
      <4>4. (r.args = {} => k = 3) /\ (r.args # {} => k = 5)
        <5>1. ASSUME r.args = {} PROVE k = 3
          <6>1. Rule(r) = <<LdAbs("nr"), Jeq(Low(r.nr), 0, 1), Ret("allow")>>
            BY <5>1 DEF Rule
          <6> QED BY <4>2, <6>1
        <5>2. ASSUME r.args # {} PROVE k = 5
          <6>1. PICK a : Rule(r) = <<LdAbs("nr"), Jeq(Low(r.nr), 0, 3), LdAbs(a.arg), Jeq(Low(a.value), 0, 1), Ret("allow")>>
            BY <4>1, <4>2, <5>2, RuleShape
          <6> QED BY <4>2, <6>1
        <5> QED BY <5>1, <5>2
      <4>5. s.pc \in {start + 1, start + 2, start + 3} \/ (r.args # {} /\ s.pc \in {start + 4, start + 5})
        BY <3>5, <4>2 DEF AtRule, InRule
      <4> QED BY <1>3, <3>2, <4>3, <4>4, <4>5
    <3>6. CASE AtEnd(rules, call, L, s)
      BY <1>3, <3>2, <3>3, <3>6 DEF AtEnd
    <3> QED BY <2>1, <3>1, <3>4, <3>5, <3>6 DEF Somewhere
  <2> QED BY <1>9, <2>1
<1>11. Verdict(BuildProgram(rules), call) = m[size].verdict
  BY <1>1, <1>3, <1>4 DEF Verdict, Ran, RanTo
<1>12. PICK v : v = Verdict(BuildProgram(rules), call)
  OBVIOUS
<1>13. v \in {{"allow"}, {"action"}}
  BY <1>10, <1>11, <1>12 DEF Decided
<1>14. v = {"allow"} <=> \E i \in 1 .. Len(rules) : Matches(rules[i], call)
  <2>1. CASE v = {"allow"} /\ \E i \in 1 .. Len(rules) : Matches(rules[i], call)
    BY <2>1
  <2>2. CASE v = {"action"} /\ NoneBefore(rules, call, Len(rules) + 1)
    <3>1. \A i \in 1 .. Len(rules) : i \in 1 .. (Len(rules) + 1) - 1
      BY <1>2
    <3>2. \A i \in 1 .. Len(rules) : ~Matches(rules[i], call)
      BY <2>2, <3>1 DEF NoneBefore
    <3>3. v # {"allow"}
      BY <2>2
    <3> QED BY <3>2, <3>3
  <2> QED BY <1>10, <1>11, <1>12, <2>1, <2>2 DEF Decided
<1>15. DOMAIN rules = 1 .. Len(rules)
  OBVIOUS
<1>16. v = {"allow"} <=> \E i \in DOMAIN rules : Matches(rules[i], call)
  BY <1>14, <1>15
<1> QED BY <1>12, <1>13, <1>16, Zenon DEF AllowsMatches

\* Those are the calls that it names, if all of them fit in a word.
LEMMA FilterTells ==
    ASSUME NEW rules, NEW call, call.nr \in 0 .. Modulus - 1, AllowsMatches(rules, call)
    PROVE  AllowsWhatMatches(rules, call)
<1>1. PICK v : v = Verdict(BuildProgram(rules), call)
  OBVIOUS
<1>2. v \in {{"allow"}, {"action"}} /\ (v = {"allow"} <=> \E i \in DOMAIN rules : Matches(rules[i], call))
  BY <1>1, Zenon DEF AllowsMatches
<1>3. ASSUME IsNamed(rules, call) PROVE v = {"allow"}
  <2>1. PICK i \in DOMAIN rules : /\ rules[i].nr = call.nr
                                 /\ \A a \in rules[i].args : a.value = call.args[a.arg]
    BY <1>3 DEF IsNamed
  <2>2. Low(rules[i].nr) = call.nr
    BY <2>1, LowIsSame
  <2>3. Matches(rules[i], call)
    BY <2>1, <2>2, Zenon DEF Matches
  <2> QED BY <1>2, <2>3
<1>4. ASSUME \A i \in DOMAIN rules : OfAWord(rules[i], call), v = {"allow"} PROVE IsNamed(rules, call)
  <2>1. PICK i \in DOMAIN rules : Matches(rules[i], call)
    BY <1>2, <1>4
  <2>2. PICK word : word = 0 .. Modulus - 1
    OBVIOUS
  <2>3. /\ rules[i].nr \in word
        /\ \A a \in rules[i].args : a.value \in word /\ call.args[a.arg] \in word
    BY <1>4, <2>1, <2>2 DEF OfAWord
  <2>4. rules[i].nr = call.nr
    BY <2>1, <2>2, <2>3, LowIsSame DEF Matches
  <2>5. ASSUME NEW a \in rules[i].args PROVE a.value = call.args[a.arg]
    <3>1. Low(a.value) = Low(call.args[a.arg])
      BY <2>1 DEF Matches
    <3> QED BY <2>2, <2>3, <3>1, LowIsSame
  <2> QED BY <2>4, <2>5 DEF IsNamed
<1>5. (\A i \in DOMAIN rules : OfAWord(rules[i], call)) => (v = {"allow"} <=> IsNamed(rules, call))
  BY <1>3, <1>4
<1> QED BY <1>1, <1>2, <1>3, <1>5, Zenon DEF AllowsWhatMatches

\* FilterIsAllowlist (Seccomp), for every set of profiles and of calls and every
\* size of a word (seccomp.rs 394-434).
THEOREM FiltersAreAllowlists == FilterSpec => []FilterIsAllowlist
<1>1. NoInput => FilterIsAllowlist
  BY DEF NoInput, FilterIsAllowlist
<1>2. FilterIsAllowlist /\ [RunFilter \/ Elsewhere({"filter"})]_inputVars => FilterIsAllowlist'
  <2>1. ASSUME RunFilter PROVE FilterIsAllowlist'
    <3>1. PICK rules \in Profiles, call \in Calls : Take("filter", <<rules, call>>)
      BY <2>1 DEF RunFilter
    <3>2. rules \in Seq(RuleOf(Argument))
      <4>1. rules \in Seq([nr : Int, args : SUBSET [arg : Argument, value : Int]])
        BY FilterAssumption
      <4>2. ASSUME NEW i \in DOMAIN rules PROVE rules[i] \in RuleOf(Argument)
        <5>1. rules[i] \in [nr : Int, args : SUBSET [arg : Argument, value : Int]]
          <6>1. PICK RuleSet : RuleSet = [nr : Int, args : SUBSET [arg : Argument, value : Int]]
            OBVIOUS
          <6>2. rules \in Seq(RuleSet)
            BY <4>1, <6>1
          <6>3. rules[i] \in RuleSet
            BY <4>2, <6>2
          <6> QED BY <6>1, <6>3
        <5>2. \A a, b \in rules[i].args : a = b
          BY FilterAssumption
        <5>3. rules[i].args \in {{}} \cup {{a} : a \in [arg : Argument, value : Int]}
          <6>1. CASE rules[i].args = {}
            BY <6>1
          <6>2. ASSUME NEW a \in rules[i].args PROVE rules[i].args = {a} /\ a \in [arg : Argument, value : Int]
            BY <5>1, <5>2, <6>2
          <6> QED BY <6>1, <6>2
        <5> QED BY <5>1, <5>3 DEF RuleOf
      <4> QED BY <4>1, <4>2
    <3>3. "arch" \notin Argument /\ "nr" \notin Argument
      BY DEF Argument
    <3>4. AllowsWhatMatches(rules, call)
      BY <3>1, <3>2, <3>3, FilterAssumption, FilterAllows, FilterTells
    <3>5. input' = <<rules, call>>
      BY <3>1 DEF Take
    <3> QED BY <3>4, <3>5 DEF FilterIsAllowlist
  <2>2. ASSUME Elsewhere({"filter"}) PROVE FilterIsAllowlist'
    BY <2>2 DEF Elsewhere, FilterIsAllowlist
  <2>3. ASSUME FilterIsAllowlist, UNCHANGED inputVars PROVE FilterIsAllowlist'
    BY <2>3 DEF inputVars, FilterIsAllowlist
  <2> QED BY <2>1, <2>2, <2>3
<1> QED BY <1>1, <1>2, PTL DEF FilterSpec
=============================================================================
