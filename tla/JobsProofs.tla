----------------------------- MODULE JobsProofs -----------------------------
(***************************************************************************)
(* Jobs for any number of instances, tokens, queries and faults: the lock  *)
(* is its holder's until it expires, and of two runs at work it has        *)
(* expired under one.                                                      *)
(***************************************************************************)
EXTENDS Jobs, TLAPS

\* No two runs have the same token.
TokensDiffer ==
    \A i, j \in Instance: i # j /\ run[i].token = run[j].token => run[i].token = NoToken

IInv == TypeOK /\ TokensDiffer /\ HolderKeepsLock

LEMMA IdleRun ==
    /\ Idle \in RunState
    /\ Idle.step = "idle" /\ Idle.token = NoToken /\ Idle.pending = {}
BY DEF Idle, RunState

LEMMA InitStep == Init => IInv
<1> SUFFICES ASSUME Init PROVE IInv
  OBVIOUS
<1>1. TypeOK
  BY IdleRun, MaxFaultsAssumption DEF Init, TypeOK
<1>2. TokensDiffer /\ HolderKeepsLock
  BY IdleRun DEF Init, TokensDiffer, HolderKeepsLock
<1> QED
  BY <1>1, <1>2 DEF IInv

-----------------------------------------------------------------------------
(* How a run moves on: the others are left alone. *)

LEMMA FinishedRun ==
    ASSUME TypeOK, NEW i \in Instance, Finish(i)
    PROVE  /\ run' \in [Instance -> RunState]
           /\ run'[i] = Idle
           /\ \A j \in Instance: j # i => run'[j] = run[j]
BY IdleRun DEF Finish, TypeOK

LEMMA FaultCounted ==
    ASSUME TypeOK, Fault
    PROVE  faults' \in 0 .. MaxFaults
BY MaxFaultsAssumption DEF Fault, TypeOK

\* A run that is over, and what this leaves of the lock.
LEMMA FinishStep ==
    ASSUME IInv, NEW i \in Instance, Finish(i),
           \/ lock' = lock
           \/ lock = NoToken /\ lock' = run[i].token
           \/ lock = run[i].token /\ lock' = NoToken,
           run[i].step # "idle",
           due' \in SUBSET Instance, sent' \in SUBSET Query, dirty' \in SUBSET Query,
           faults' \in 0 .. MaxFaults
    PROVE  IInv'
<1>1. TypeOK
  BY DEF IInv
<1>2. /\ run' \in [Instance -> RunState]
      /\ run'[i] = Idle
      /\ \A j \in Instance: j # i => run'[j] = run[j]
  BY <1>1, FinishedRun
<1>3. TypeOK'
  BY <1>1, <1>2, IdleRun DEF TypeOK, RunState
<1>4. TokensDiffer'
  BY <1>2, IdleRun DEF IInv, TokensDiffer
<1>5. HolderKeepsLock'
  <2> SUFFICES ASSUME NEW j \in Instance, j # i,
                      run[j].step \in {"work", "release"}, ~run[j].lapsed
               PROVE  lock' = run[j].token
    BY <1>2, IdleRun DEF HolderKeepsLock
  <2>1. lock = run[j].token /\ run[j].token # NoToken
    BY <1>1 DEF IInv, HolderKeepsLock, TypeOK
  <2>2. run[i].token # run[j].token
    BY <2>1 DEF IInv, TokensDiffer
  <2> QED
    BY <2>1, <2>2
<1> QED
  BY <1>3, <1>4, <1>5 DEF IInv

LEMMA FireStep ==
    ASSUME IInv, NEW i \in Instance, NEW t \in Fresh, Fire(i, t)
    PROVE  IInv'
<1> DEFINE new == [Idle EXCEPT !.step = "acquire", !.token = t]
<1>1. t \in Token /\ t # NoToken /\ \A j \in Instance: run[j].token # t
  BY NoTokenAssumption DEF Fresh
<1>2. new \in RunState /\ new.step = "acquire" /\ new.token = t /\ new.pending = {}
  BY <1>1 DEF Idle, RunState
<1>3. /\ run' = [run EXCEPT ![i] = new]
      /\ due' = due \ {i}
      /\ UNCHANGED <<lock, sent, dirty, faults>>
  BY DEF Fire
<1> HIDE DEF new
<1>4. TypeOK'
  BY <1>1, <1>2, <1>3 DEF IInv, TypeOK
<1>5. TokensDiffer' /\ HolderKeepsLock'
  BY <1>1, <1>2, <1>3 DEF IInv, TypeOK, TokensDiffer, HolderKeepsLock
<1> QED
  BY <1>4, <1>5 DEF IInv

LEMMA TakeStep ==
    ASSUME IInv, NEW i \in Instance, Take(i)
    PROVE  IInv'
<1> DEFINE new == [run[i] EXCEPT !.step = "work", !.pending = Query]
<1>1. TypeOK /\ run[i] \in RunState /\ run[i].step = "acquire" /\ lock = NoToken
  BY DEF IInv, TypeOK, Take
<1>2. new \in RunState /\ new.step = "work" /\ new.token = run[i].token /\ new.pending = Query
  BY <1>1 DEF RunState
<1>3. /\ run' = [run EXCEPT ![i] = new]
      /\ lock' = run[i].token
      /\ UNCHANGED <<due, sent, dirty, faults>>
  BY DEF Take, Begin
<1> HIDE DEF new
<1>4. TypeOK'
  BY <1>1, <1>2, <1>3, QueryAssumption DEF TypeOK, RunState
<1>5. TokensDiffer'
  BY <1>1, <1>2, <1>3 DEF IInv, TypeOK, TokensDiffer
<1>6. HolderKeepsLock'
  BY <1>1, <1>2, <1>3 DEF IInv, TypeOK, HolderKeepsLock
<1> QED
  BY <1>4, <1>5, <1>6 DEF IInv

\* A run goes on with its work, or is done with it; it keeps its token and the lock.
LEMMA WorkStep ==
    ASSUME IInv, NEW i \in Instance, NEW new \in RunState,
           run[i].step = "work",
           new.step = IF new.pending = {} THEN "release" ELSE "work",
           new.token = run[i].token, new.lapsed = run[i].lapsed,
           run' = [run EXCEPT ![i] = new],
           UNCHANGED <<lock, due>>,
           sent' \in SUBSET Query, dirty' \in SUBSET Query, faults' \in 0 .. MaxFaults
    PROVE  IInv'
<1>1. TypeOK'
  BY DEF IInv, TypeOK
<1>2. TokensDiffer' /\ HolderKeepsLock'
  BY DEF IInv, TypeOK, TokensDiffer, HolderKeepsLock
<1> QED
  BY <1>1, <1>2 DEF IInv

LEMMA DeleteStep ==
    ASSUME IInv, NEW i \in Instance, NEW q \in Query, Delete(i, q)
    PROVE  IInv'
<1> DEFINE new == [run[i] EXCEPT
                     !.pending = @ \ {q},
                     !.step = IF run[i].pending = {q} THEN "release" ELSE @]
<1>1. TypeOK /\ run[i] \in RunState /\ q \in run[i].pending /\ run[i].step = "work"
  BY DEF IInv, TypeOK, Delete
<1>2. /\ new \in RunState /\ new.pending = run[i].pending \ {q}
      /\ new.step = IF run[i].pending = {q} THEN "release" ELSE "work"
      /\ new.token = run[i].token /\ new.lapsed = run[i].lapsed
  BY <1>1 DEF RunState
<1>3. /\ run' = [run EXCEPT ![i] = new]
      /\ UNCHANGED <<lock, due>>
      /\ sent' \in SUBSET Query /\ dirty' \in SUBSET Query /\ faults' \in 0 .. MaxFaults
  BY <1>1 DEF Delete, TypeOK
<1> HIDE DEF new
<1> QED
  BY <1>1, <1>2, <1>3, WorkStep

LEMMA DeleteFailsStep ==
    ASSUME IInv, NEW i \in Instance, NEW q \in Query, DeleteFails(i, q)
    PROVE  IInv'
<1> DEFINE new == [run[i] EXCEPT !.pending = {}, !.step = "release"]
<1>1. TypeOK /\ run[i] \in RunState /\ q \in run[i].pending /\ run[i].step = "work"
  BY DEF IInv, TypeOK, DeleteFails
<1>2. /\ new \in RunState /\ new.pending = {} /\ new.step = "release"
      /\ new.token = run[i].token /\ new.lapsed = run[i].lapsed
  BY <1>1 DEF RunState
<1>3. /\ run' = [run EXCEPT ![i] = new]
      /\ UNCHANGED <<lock, due>>
      /\ sent' \in SUBSET Query /\ dirty' \in SUBSET Query /\ faults' \in 0 .. MaxFaults
  BY <1>1, FaultCounted DEF DeleteFails, TypeOK, RunState
<1> HIDE DEF new
<1> QED
  BY <1>1, <1>2, <1>3, WorkStep

LEMMA OverStep ==
    ASSUME IInv, NEW i \in Instance,
           Skip(i) \/ TakeUnheard(i) \/ Release(i) \/ Die(i)
    PROVE  IInv'
<1>1. TypeOK /\ run[i] \in RunState
  BY DEF IInv, TypeOK
<1>2. Finish(i) /\ run[i].step # "idle"
  BY DEF Skip, TakeUnheard, Release, Die
<1>3. due' \in SUBSET Instance /\ sent' \in SUBSET Query /\ dirty' \in SUBSET Query
  BY <1>1 DEF Skip, TakeUnheard, Release, Die, TypeOK, RunState
<1>4. faults' \in 0 .. MaxFaults
  BY <1>1, FaultCounted DEF Skip, TakeUnheard, Release, Die, TypeOK
<1>5. \/ lock' = lock
      \/ lock = NoToken /\ lock' = run[i].token
      \/ lock = run[i].token /\ lock' = NoToken
  BY DEF Skip, TakeUnheard, Release, Die
<1> QED
  BY <1>2, <1>3, <1>4, <1>5, FinishStep

LEMMA ExpireStep ==
    ASSUME IInv, Expire
    PROVE  IInv'
<1> DEFINE new(i) == [run[i] EXCEPT !.lapsed = @ \/ run[i].token = lock]
<1>1. TypeOK
  BY DEF IInv
<1>2. /\ run' = [i \in Instance |-> new(i)]
      /\ lock' = NoToken
      /\ UNCHANGED <<due, sent, dirty, faults>>
  BY DEF Expire
<1>3. ASSUME NEW i \in Instance
      PROVE  /\ new(i) \in RunState
             /\ new(i).step = run[i].step /\ new(i).token = run[i].token
             /\ new(i).pending = run[i].pending
             /\ ~new(i).lapsed => ~run[i].lapsed /\ run[i].token # lock
  <2>1. run[i] \in RunState
    BY <1>1 DEF TypeOK
  <2> QED
    BY <2>1 DEF RunState
<1> HIDE DEF new
<1>4. TypeOK'
  BY <1>1, <1>2, <1>3 DEF TypeOK
<1>5. TokensDiffer'
  BY <1>2, <1>3 DEF IInv, TokensDiffer
<1>6. HolderKeepsLock'
  BY <1>2, <1>3 DEF IInv, HolderKeepsLock
<1> QED
  BY <1>4, <1>5, <1>6 DEF IInv

\* Time, timers and the database: neither the runs nor the lock change.
LEMMA OutsideStep ==
    ASSUME IInv,
           \/ NextHour
           \/ \E i \in Instance: Miss(i)
           \/ \E q \in Query: Land(q) \/ Age(q)
           \/ UNCHANGED vars
    PROVE  IInv'
<1>1. TypeOK
  BY DEF IInv
<1>2. UNCHANGED <<lock, run>>
  BY DEF NextHour, Miss, Land, Age, vars
<1>3. due' \in SUBSET Instance /\ sent' \in SUBSET Query /\ dirty' \in SUBSET Query
  BY <1>1 DEF NextHour, Miss, Land, Age, vars, TypeOK
<1>4. faults' \in 0 .. MaxFaults
  BY <1>1, FaultCounted DEF NextHour, Miss, Land, Age, vars, TypeOK
<1> QED
  BY <1>1, <1>2, <1>3, <1>4 DEF IInv, TypeOK, TokensDiffer, HolderKeepsLock

LEMMA InvStep == IInv /\ [Next]_vars => IInv'
<1> SUFFICES ASSUME IInv, [Next]_vars PROVE IInv'
  OBVIOUS
<1>1. ASSUME NEW i \in Instance, Run(i) PROVE IInv'
  BY <1>1, FireStep, TakeStep, DeleteStep, OverStep DEF Run
<1>2. ASSUME NEW i \in Instance, Mishap(i) PROVE IInv'
  BY <1>2, OverStep, DeleteFailsStep, OutsideStep DEF Mishap
<1> QED
  BY <1>1, <1>2, ExpireStep, OutsideStep DEF Next

THEOREM Invariance == Spec => []IInv
BY InitStep, InvStep, PTL DEF Spec

-----------------------------------------------------------------------------
(* Theorems *)

\* The lock, the runs and the queries are of their kinds.
THEOREM TypeCorrect == Spec => []TypeOK
<1>1. IInv => TypeOK
  BY DEF IInv
<1> QED
  BY <1>1, Invariance, PTL

\* redis-lock.service.ts: until it expires, the lock is that of the run that took it.
THEOREM LockIsHolders == Spec => []HolderKeepsLock
<1>1. IInv => HolderKeepsLock
  BY DEF IInv
<1> QED
  BY <1>1, Invariance, PTL

\* withLock(): two runs are at work only after the lock of one has expired.
THEOREM OneRunAtWork == Spec => []OneAtWork
<1>1. IInv => OneAtWork
  BY DEF IInv, TypeOK, TokensDiffer, HolderKeepsLock, OneAtWork
<1> QED
  BY <1>1, Invariance, PTL
=============================================================================
