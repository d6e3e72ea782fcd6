-------------------------- MODULE ModelLoad_proofs --------------------------
(***************************************************************************)
(* Proofs about ModelLoad: the budget is exact whatever the unit, the      *)
(* width of the sizes' type, the budget and the number of processes.       *)
(***************************************************************************)
EXTENDS ModelLoad, TLAPS

\* Rounding up, in a sum that does not wrap.
LEMMA CeilIsExact ==
  ASSUME NEW b \in Nat, b + GiB <= Modulus
  PROVE  Ceil(b) <= MaxGiB <=> b <= MaxGiB * GiB
<1> DEFINE n == b + GiB - 1
           q == n \div GiB
<1>0. /\ GiB \in Nat /\ GiB > 0 /\ MaxGiB \in Nat /\ Modulus \in Nat
      BY LoadAssumption
<1>1. n \in Nat /\ n < Modulus  BY <1>0
<1>2. n % Modulus = n  BY <1>0, <1>1
<1>3. Ceil(b) = q  BY <1>2 DEF Ceil
<1>4. q \in Nat /\ q * GiB <= n /\ n < q * GiB + GiB  BY <1>0, <1>1
<1>5. ASSUME q <= MaxGiB PROVE b <= MaxGiB * GiB
  <2>1. q * GiB <= MaxGiB * GiB  BY <1>0, <1>4, <1>5
  <2> QED  BY <2>1, <1>0, <1>4
<1>6. ASSUME ~(q <= MaxGiB) PROVE ~(b <= MaxGiB * GiB)
  <2>1. q >= MaxGiB + 1  BY <1>0, <1>4, <1>6
  <2>2. q * GiB >= (MaxGiB + 1) * GiB  BY <1>0, <1>4, <2>1
  <2>3. (MaxGiB + 1) * GiB = MaxGiB * GiB + GiB  BY <1>0
  <2> QED  BY <2>2, <2>3, <1>0, <1>4
<1> QED  BY <1>3, <1>5, <1>6

-----------------------------------------------------------------------------
(* Type correctness.  The lock needs no strengthening: a process enters    *)
(* "probe" by taking it and leaves it by releasing it, or is killed, and   *)
(* then stays so.                                                          *)

\* TypeOK in every reachable state: in particular the lock file is held by
\* a running probe, by that of a killed process, or by nobody.
THEOREM TypeCorrect == Spec => []TypeOK
<1>1. Init => TypeOK
  BY LoadAssumption DEF Init, TypeOK, Where
<1>2. TypeOK /\ [Next]_vars => TypeOK'
  <2> SUFFICES ASSUME TypeOK, [Next]_vars PROVE TypeOK'
    OBVIOUS
  <2> USE LoadAssumption DEF TypeOK, Where
  <2>1. CASE Reinstalled  BY <2>1 DEF Reinstalled
  <2>2. ASSUME NEW p \in Proc, Step(p) PROVE TypeOK'
    <3>1. ASSUME NEW s \in Size, SizeFound(p, s) PROVE TypeOK'
      BY <3>1 DEF SizeFound, Goto, Finish
    <3>2. CASE ListFails(p)   BY <3>2 DEF ListFails, Finish
    <3>3. CASE Probe(p)       BY <3>3 DEF Probe, Goto, Finish
    <3>4. CASE ProbeExits(p)  BY <3>4 DEF ProbeExits, Goto
    <3>5. CASE Admit(p)       BY <3>5 DEF Admit, Goto, Finish
    <3>6. CASE GuardFails(p)  BY <3>6 DEF GuardFails, Finish
    <3>7. CASE Post(p)        BY <3>7 DEF Post, Goto
    <3>8. CASE Answered(p)    BY <3>8 DEF Answered, Finish
    <3> QED  BY <2>2, <3>1, <3>2, <3>3, <3>4, <3>5, <3>6, <3>7, <3>8 DEF Step
  <2>3. ASSUME NEW p \in Proc, Killed(p) PROVE TypeOK'
    BY <2>3 DEF Killed, Finish
  <2>4. ASSUME NEW p \in Proc, OrphanExits(p) PROVE TypeOK'
    BY <2>4 DEF OrphanExits
  <2>5. CASE UNCHANGED vars  BY <2>5 DEF vars
  <2> QED  BY <2>1, <2>2, <2>3, <2>4, <2>5 DEF Next
<1> QED  BY <1>1, <1>2, PTL DEF Spec

-----------------------------------------------------------------------------
(* The budget.  The invariant keeps what the screen found out: a process   *)
(* beyond it has a size that fits or, outside the guard, none.             *)

Screened ==
  \A p \in Proc :
    /\ pc[p] \in {"guard", "probe", "admit"} => size[p] # 0
    /\ pc[p] \in {"guard", "probe", "admit", "post", "warm"} /\ size[p] # 0
         => Fits(Ceil(size[p]))
    /\ outcome[p] = "budget" => ~Fits(Ceil(size[p]))
    /\ outcome[p] # "refused"

LEMMA ScreenedIsKept ==
  ASSUME TypeOK, Screened, [Next]_vars PROVE Screened'
<1> USE DEF TypeOK, Where, Screened
<1>1. CASE Reinstalled  BY <1>1 DEF Reinstalled
<1>2. ASSUME NEW p \in Proc, Step(p) PROVE Screened'
  <2>1. ASSUME NEW s \in Size, SizeFound(p, s) PROVE Screened'
    BY <2>1 DEF SizeFound, Goto, Finish
  <2>2. CASE ListFails(p)   BY <2>2 DEF ListFails, Finish
  <2>3. CASE Probe(p)       BY <2>3 DEF Probe, Goto, Finish
  <2>4. CASE ProbeExits(p)  BY <2>4 DEF ProbeExits, Goto
  <2>5. CASE Admit(p)       BY <2>5 DEF Admit, Goto, Finish, Fits, Admitted
  <2>6. CASE GuardFails(p)  BY <2>6 DEF GuardFails, Finish
  <2>7. CASE Post(p)        BY <2>7 DEF Post, Goto
  <2>8. CASE Answered(p)    BY <2>8 DEF Answered, Finish
  <2> QED  BY <1>2, <2>1, <2>2, <2>3, <2>4, <2>5, <2>6, <2>7, <2>8 DEF Step
<1>3. ASSUME NEW p \in Proc, Killed(p) PROVE Screened'
  BY <1>3 DEF Killed, Finish
<1>4. ASSUME NEW p \in Proc, OrphanExits(p) PROVE Screened'
  BY <1>4 DEF OrphanExits
<1>5. CASE UNCHANGED vars  BY <1>5 DEF vars
<1> QED  BY <1>1, <1>2, <1>3, <1>4, <1>5 DEF Next

\* BudgetIsExact in every reachable state, for every unit, width and budget:
\* the rounded comparison decides on the exact one, and omf-core's second
\* look at the size never changes the first.
THEOREM BudgetCorrect == Spec => []BudgetIsExact
<1>1. Init => Screened
  BY DEF Init, Screened
<1>2. TypeOK /\ Screened => BudgetIsExact
  <2> SUFFICES ASSUME TypeOK, Screened, NEW p \in Proc, size[p] + GiB <= Modulus
               PROVE  /\ pc[p] = "warm" => size[p] <= MaxGiB * GiB
                      /\ outcome[p] = "budget" => size[p] > MaxGiB * GiB
                      /\ outcome[p] # "refused"
    BY DEF BudgetIsExact
  <2>1. size[p] \in Nat /\ MaxGiB * GiB \in Nat
    <3>1. size[p] \in Size \cup {0}  BY DEF TypeOK
    <3>2. Size \subseteq Nat  BY LoadAssumption
    <3>3. MaxGiB \in Nat /\ GiB \in Nat  BY LoadAssumption
    <3>4. size[p] \in Nat  BY <3>1, <3>2, 0 \in Nat, Zenon
    <3>5. MaxGiB * GiB \in Nat  BY <3>3
    <3> QED  BY <3>4, <3>5
  <2>2. Fits(Ceil(size[p])) <=> size[p] <= MaxGiB * GiB
    BY <2>1, CeilIsExact DEF Fits
  <2>3. CASE size[p] = 0  BY <2>1, <2>2, <2>3 DEF Screened
  <2>4. CASE size[p] # 0  BY <2>1, <2>2, <2>4 DEF Screened
  <2> QED  BY <2>3, <2>4
<1>3. TypeOK /\ Screened /\ [Next]_vars => Screened'
  BY ScreenedIsKept
<1> QED  BY <1>1, <1>2, <1>3, TypeCorrect, PTL DEF Spec
=============================================================================
