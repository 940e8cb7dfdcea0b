---------------------------- MODULE DriverScripts ----------------------------
(***************************************************************************)
(* The scripts that start and stop the media driver (linux-script): the    *)
(* two start scripts and the stop script, run by several shells at once,   *)
(* and the driver processes that they look for with pgrep.                 *)
(***************************************************************************)
EXTENDS Naturals, FiniteSets

CONSTANTS
  Optimized,      \* shells that run start-mediadriver-cpp-optimized.sh
  Conservative,   \* shells that run start-mediadriver-cpp-conservative.sh
  Stoppers        \* shells that run stop-mediadriver-cpp.sh

Starters == Optimized \cup Conservative
Shells == Starters \cup Stoppers

ScriptAssumption ==
  /\ IsFiniteSet(Shells)
  /\ Optimized \cap Conservative = {} /\ Starters \cap Stoppers = {}

VARIABLES
  at,        \* per shell: where it is in its script
  driver,    \* per starter: the driver process that it started
  found,     \* per stopper: the processes of its last pgrep
  stopped,   \* per starter: whether a stop script began after it had ended
  beside     \* history: the starters that went on although another driver runs,
             \* which the user confirmed, or was about to be launched

vars == <<at, driver, found, stopped, beside>>

Ended == {"no executable", "already running", "refused", "ready", "failed", "none found", "stopped", "not stopped"}

(* A process that was sent SIGTERM is there until it exits. *)
pgrep == { d \in Starters : driver[d] \in {"up", "stopping"} }

Init ==
  /\ at = [s \in Shells |-> "begin"]
  /\ driver = [d \in Starters |-> "none"]
  /\ found = [s \in Stoppers |-> {}]
  /\ stopped = [s \in Starters |-> FALSE]
  /\ beside = {}

Goto(s, place) == at' = [at EXCEPT ![s] = place]

(***************************************************************************)
(* The start scripts.                                                      *)
(***************************************************************************)
(* The executable is not in the directory; the conservative script looks   *)
(* for two of them.                                                        *)
NoExecutable(s) ==
  /\ at[s] = "begin"
  /\ Goto(s, "no executable")
  /\ UNCHANGED <<driver, found, stopped, beside>>

missingOptimized(s) == s \in Optimized /\ NoExecutable(s)
missingConservative(s) == s \in Conservative /\ NoExecutable(s)

(* Nothing keeps another script away between the check and the launch.     *)
GoOn(s) ==
  /\ Goto(s, "launch")
  /\ beside' = IF pgrep # {} \/ \E o \in Starters : at[o] = "launch" THEN beside \cup {s} ELSE beside

Leave(s, place) == Goto(s, place) /\ UNCHANGED beside

checkOptimized(s) ==
  /\ s \in Optimized /\ at[s] = "begin"
  /\ IF pgrep # {} THEN Leave(s, "already running") ELSE GoOn(s)
  /\ UNCHANGED <<driver, found, stopped>>

(* The user is asked whether to go on beside a driver that runs. *)
checkConservative(s) ==
  /\ s \in Conservative /\ at[s] = "begin"
  /\ GoOn(s) \/ (pgrep # {} /\ Leave(s, "refused"))
  /\ UNCHANGED <<driver, found, stopped>>

(* The directory and the environment differ, the launch does not. *)
Background(s) ==
  /\ at[s] = "launch"
  /\ driver' = [driver EXCEPT ![s] = "up"]
  /\ Goto(s, "verify")
  /\ UNCHANGED <<found, stopped, beside>>

launchOptimized(s) == s \in Optimized /\ Background(s)
launchConservative(s) == s \in Conservative /\ Background(s)

(* kill -0 after the pause: is the process that was started still there?   *)
KillZero(s) ==
  /\ at[s] = "verify"
  /\ Goto(s, IF s \in pgrep THEN "ready" ELSE "failed")
  /\ UNCHANGED <<driver, found, stopped, beside>>

verifyOptimized(s) == s \in Optimized /\ KillZero(s)
verifyConservative(s) == s \in Conservative /\ KillZero(s)

(***************************************************************************)
(* The stop script.                                                        *)
(***************************************************************************)
find(s) ==
  /\ s \in Stoppers /\ at[s] = "begin"
  /\ found' = [found EXCEPT ![s] = pgrep]
  /\ Goto(s, IF pgrep = {} THEN "none found" ELSE "kill")
  /\ stopped' = [o \in Starters |-> stopped[o] \/ at[o] \in Ended]
  /\ UNCHANGED <<driver, beside>>

kill(s) ==
  /\ at[s] = "kill"
  /\ driver' = [d \in Starters |-> IF d \in found[s] /\ driver[d] = "up" THEN "stopping" ELSE driver[d]]
  /\ Goto(s, "look again")
  /\ UNCHANGED <<found, stopped, beside>>

lookAgain(s) ==
  /\ at[s] = "look again"
  /\ found' = [found EXCEPT ![s] = pgrep]
  /\ Goto(s, IF pgrep = {} THEN "final check" ELSE "kill -9")
  /\ UNCHANGED <<driver, stopped, beside>>

forceKill_Term(s) == \* Mutant: SIGTERM once more
  /\ at[s] = "kill -9"
  /\ Goto(s, "final check")
  /\ UNCHANGED <<driver, found, stopped, beside>>

forceKill(s) ==
  /\ at[s] = "kill -9"
  /\ driver' = [d \in Starters |-> IF d \in found[s] THEN "gone" ELSE driver[d]]
  /\ Goto(s, "final check")
  /\ UNCHANGED <<found, stopped, beside>>

finalCheck(s) ==
  /\ at[s] = "final check"
  /\ Goto(s, IF pgrep = {} THEN "stopped" ELSE "not stopped")
  /\ UNCHANGED <<driver, found, stopped, beside>>

(* The driver exits by itself after SIGTERM, or does not start at all.     *)
exits(d) ==
  /\ driver[d] = "stopping" \/ (driver[d] = "up" /\ at[d] = "verify")
  /\ driver' = [driver EXCEPT ![d] = "gone"]
  /\ UNCHANGED <<at, found, stopped, beside>>

Script(s) ==
  \/ missingOptimized(s) \/ checkOptimized(s) \/ launchOptimized(s) \/ verifyOptimized(s)
  \/ missingConservative(s) \/ checkConservative(s) \/ launchConservative(s) \/ verifyConservative(s)
  \/ find(s) \/ kill(s) \/ lookAgain(s) \/ forceKill(s) \/ finalCheck(s)

Next == (\E s \in Shells : Script(s)) \/ \E d \in Starters : exits(d)

Spec == Init /\ [][Next]_vars

-----------------------------------------------------------------------------
(* "检查是否已有C++ MediaDriver在运行" (look whether a driver runs): of the *)
(* scripts that found no driver, and met no other script between its check *)
(* and its launch, at most one has a driver that runs, however starts,     *)
(* stops and drivers that do not come up follow each other.                *)
AtMostOne == Cardinality(pgrep \ beside) <= 1

(* With the scripts that do meet there may be two.                         *)
OneDriver == Cardinality(pgrep) <= 1

(* A start script that ended with "已经在运行中" (is running already) has a *)
(* driver, as long as nobody stops it afterwards.                          *)
AlreadyMeansRunning ==
  \A s \in Starters : at[s] = "already running" /\ ~stopped[s] => pgrep # {}
=============================================================================
