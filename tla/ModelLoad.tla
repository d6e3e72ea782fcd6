------------------------------ MODULE ModelLoad -----------------------------
(***************************************************************************)
(* "omf llm load": Load in omf/dispatch/internal/llm/service.go, the guard *)
(* app.go wires into it, and the two omf-core subcommands it runs          *)
(* (omf/core/src/guard.rs, called through omfcore.go).                     *)
(*                                                                         *)
(* Any number of these processes run side by side.  Each one asks the      *)
(* model servers for the model's size, screens it against the budget, has  *)
(* omf-core try the lock file, has it admit the size again, and then posts *)
(* a warm-up request.  omf-core may be installed or removed at any time.   *)
(***************************************************************************)
EXTENDS Naturals, FiniteSets

CONSTANTS
  Proc,     \* calls of omf llm load, one process each
  Size,     \* sizes in bytes the model servers may report; 0 is "unknown"
  GiB,      \* bytes in a GiB (2^30)
  Modulus,  \* of the sizes' type (2^64)
  MaxGiB,   \* Client.maxGiB, the budget
  Free      \* nobody holds the flock

ASSUME LoadAssumption ==
  /\ GiB \in Nat \ {0} /\ MaxGiB \in Nat
  /\ Modulus \in Nat /\ GiB < Modulus
  /\ Size \subseteq 0 .. Modulus - 1
  /\ Free \notin Proc

VARIABLES
  installed,  \* omf-core is there to be located
  flock,      \* the process whose omf-core holds the lock file
  size,       \* what each process found out about its model
  pc,         \* "start", "guard", "probe", "admit", "post", "warm" or "end"
  outcome     \* "none", "ok", "error", "budget", "in flight", "refused" or "killed"

vars == <<installed, flock, size, pc, outcome>>

\* Seeded fault: the size is rounded down.
RoundDown(bytes) == bytes \div GiB

\* bytesToGiBCeil, in unsigned arithmetic.
Ceil(bytes) == ((bytes + GiB - 1) % Modulus) \div GiB

\* checkBudgetGiB: the screen in the dispatcher itself.
Fits(gib) == gib <= MaxGiB

\* guard::admit, for a request that is not marked as MLX.
Admitted(peak, budget) == peak <= budget

-----------------------------------------------------------------------------
Init ==
  /\ installed \in BOOLEAN
  /\ flock = Free
  /\ size = [p \in Proc |-> 0]
  /\ pc = [p \in Proc |-> "start"]
  /\ outcome = [p \in Proc |-> "none"]

Goto(p, where) == pc' = [pc EXCEPT ![p] = where]

Finish(p, what) ==
  /\ pc' = [pc EXCEPT ![p] = "end"]
  /\ outcome' = [outcome EXCEPT ![p] = what]

\* The process starts: a guard only if omf-core can be located; then the
\* sizes are listed, which fails if either server does not answer.
SizeFound(p, s) ==
  /\ pc[p] = "start"
  /\ size' = [size EXCEPT ![p] = s]
  /\ IF s # 0 /\ ~Fits(Ceil(s))
       THEN Finish(p, "budget")
       ELSE /\ Goto(p, IF s # 0 /\ installed THEN "guard" ELSE "post")
            /\ UNCHANGED outcome
  /\ UNCHANGED <<installed, flock>>

ListFails(p) ==
  /\ pc[p] = "start"
  /\ Finish(p, "error")
  /\ UNCHANGED <<installed, flock, size>>

\* GuardLockFree, first half: omf-core guard lock tries the flock without
\* waiting.  When omf-core is gone the lock and the admission are skipped.
Probe(p) ==
  /\ pc[p] = "guard"
  /\ \/ /\ ~installed
        /\ Goto(p, "post")
        /\ UNCHANGED <<flock, outcome>>
     \/ /\ installed /\ flock = Free
        /\ flock' = p
        /\ Goto(p, "probe")
        /\ UNCHANGED outcome
     \/ /\ installed /\ flock # Free
        /\ Finish(p, "in flight")
        /\ UNCHANGED flock
  /\ UNCHANGED <<installed, size>>

\* Seeded fault: the lock is still held when omf-core has answered.
ProbeKeeps(p) ==
  /\ pc[p] = "probe"
  /\ Goto(p, "admit")
  /\ UNCHANGED <<installed, flock, size, outcome>>

\* Second half: omf-core exits, and with it goes the lock it has just taken.
ProbeExits(p) ==
  /\ pc[p] = "probe"
  /\ flock' = Free
  /\ Goto(p, "admit")
  /\ UNCHANGED <<installed, size, outcome>>

\* GuardAdmit.
Admit(p) ==
  /\ pc[p] = "admit"
  /\ IF installed /\ ~Admitted(Ceil(size[p]), MaxGiB)
       THEN Finish(p, "refused")
       ELSE Goto(p, "post") /\ UNCHANGED outcome
  /\ UNCHANGED <<installed, flock, size>>

\* omf-core cannot be run, or fails.
GuardFails(p) ==
  /\ pc[p] \in {"guard", "admit"}
  /\ Finish(p, "error")
  /\ UNCHANGED <<installed, flock, size>>

\* The warm-up request goes out, and the server loads the model.
Post(p) ==
  /\ pc[p] = "post"
  /\ Goto(p, "warm")
  /\ UNCHANGED <<installed, flock, size, outcome>>

Answered(p) ==
  /\ pc[p] = "warm"
  /\ \E what \in {"ok", "error"} : Finish(p, what)
  /\ UNCHANGED <<installed, flock, size>>

\* The process is interrupted.  Its omf-core, a process of its own, may be
\* interrupted with it, or live on with the lock it has taken.
Killed(p) ==
  /\ pc[p] \notin {"start", "end"}
  /\ Finish(p, "killed")
  /\ \/ UNCHANGED flock
     \/ flock = p /\ flock' = Free
  /\ UNCHANGED <<installed, size>>

\* Such an omf-core comes to its end: it waits for nothing.
OrphanExits(p) ==
  /\ outcome[p] = "killed" /\ flock = p
  /\ flock' = Free
  /\ UNCHANGED <<installed, size, pc, outcome>>

Reinstalled ==
  /\ installed' = ~installed
  /\ UNCHANGED <<flock, size, pc, outcome>>

Step(p) ==
  \/ \E s \in Size : SizeFound(p, s)
  \/ ListFails(p)
  \/ Probe(p) \/ ProbeExits(p)
  \/ Admit(p) \/ GuardFails(p)
  \/ Post(p) \/ Answered(p)

Next == Reinstalled \/ \E p \in Proc : Step(p) \/ Killed(p) \/ OrphanExits(p)

\* A process runs to its end: every call it makes has a timeout.  So does an
\* omf-core that is left alone.
Spec ==
  /\ Init /\ [][Next]_vars
  /\ \A p \in Proc : WF_vars(Step(p)) /\ WF_vars(OrphanExits(p))

-----------------------------------------------------------------------------
(* Properties. *)

Where == {"start", "guard", "probe", "admit", "post", "warm", "end"}

\* The lock file is held only by a probe that is running, or by that of a
\* process that was killed, and a running probe has it.
TypeOK ==
  /\ installed \in BOOLEAN
  /\ size \in [Proc -> Size \cup {0}]
  /\ pc \in [Proc -> Where]
  /\ outcome \in [Proc -> {"none", "ok", "error", "budget", "in flight", "refused", "killed"}]
  /\ \A p \in Proc : pc[p] = "end" <=> outcome[p] # "none"
  /\ \A p \in Proc : pc[p] = "probe" => flock = p
  /\ flock = Free \/ \E p \in Proc : flock = p /\ (pc[p] = "probe" \/ outcome[p] = "killed")

\* The budget is exact to the byte for every size the addition of a GiB does
\* not overflow: a model is warmed up only if it fits, and turned away for
\* its size only if it does not; and the screen and omf-core never disagree.
BudgetIsExact ==
  \A p \in Proc :
    size[p] + GiB <= Modulus =>
      /\ pc[p] = "warm" => size[p] <= MaxGiB * GiB
      /\ outcome[p] = "budget" => size[p] > MaxGiB * GiB
      /\ outcome[p] # "refused"

\* Every load ends, and no end of a process, also one that is killed and leaves
\* its omf-core behind, leaves the lock file held against later loads for ever.
LoadsEnd ==
  /\ \A p \in Proc : <>(pc[p] = "end")
  /\ <>[](flock = Free)
=============================================================================
