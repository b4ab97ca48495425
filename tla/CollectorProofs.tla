-------------------------- MODULE CollectorProofs --------------------------
(***************************************************************************)
(* Proofs about Collector for any finite set of PIDs and any capacity of   *)
(* the semaphore: the inductive invariant IInv, the safety properties that *)
(* follow from it, and the refinement of CollectContract.                  *)
(***************************************************************************)
EXTENDS Collector, FiniteSetTheorems, TLAPS

\* The channel holds one element per goroutine that has still to receive it.
TokenInv == tokens = Cardinality(At(Holding))

\* The WaitGroup counts the goroutines that have not signalled yet, and the
\* caller leaves its loop and its wait only when the counts allow it.
WaitInv == /\ wg = Cardinality(At(Working))
           /\ caller # "spawning" => \A p \in Procs : pc[p] # "unspawned"
           /\ caller = "returned" => \A p \in Procs : pc[p] = "exited"

\* The mutex is held by the goroutine in the critical section.
MutexInv == \A p \in Procs : pc[p] \in Critical <=> mu = p

\* How far a goroutine has come decides what has been recorded for its PID.
FateInv ==
    \A p \in Procs :
        /\ pc[p] \in {"sampled", "locked", "stored", "unlocked"} => sample[p] \in Quality
        /\ statsMap[p] # Absent
             <=> pc[p] \in {"stored", "unlocked"} \/ p \in timed
        /\ statsMap[p] # Absent => statsMap[p] = sample[p]
        /\ p \in timed \cup errored => pc[p] \in {"releasing", "leaving", "exited"}
        /\ p \notin timed \cap errored
        /\ pc[p] = "releasing" => p \in timed \cup errored
        /\ pc[p] \in {"leaving", "exited"} => p \in timed \cup errored \/ done

IInv == TypeOK /\ TokenInv /\ WaitInv /\ MutexInv /\ FateInv
-----------------------------------------------------------------------------
(* Counting the goroutines at a set of control points.                     *)

\* The goroutines at a set of control points are finitely many.
LEMMA AtFinite == ASSUME NEW S PROVE IsFiniteSet(At(S)) /\ Cardinality(At(S)) \in Nat
<1>1. At(S) \in SUBSET Procs
  BY DEF At
<1>2. IsFiniteSet(At(S))
  BY <1>1, FS_Subset, CollectorAssumption
<1>3. QED
  BY <1>2, FS_CardinalityType

\* A goroutine that moves from pc[p] to b enters S, leaves it, or neither.
LEMMA Move ==
  ASSUME NEW S, NEW p \in Procs, NEW b,
         pc \in [Procs -> Points],
         pc' = [pc EXCEPT ![p] = b]
  PROVE  Cardinality(At(S))' =
           Cardinality(At(S)) + (IF b \in S THEN 1 ELSE 0) - (IF pc[p] \in S THEN 1 ELSE 0)
<1>1. IsFiniteSet(At(S)) /\ Cardinality(At(S)) \in Nat
  BY AtFinite
<1>2. CASE b \in S
  <2>1. At(S)' = At(S) \cup {p}
    BY <1>2 DEF At
  <2>2. p \in At(S) <=> pc[p] \in S
    BY DEF At
  <2>3. Cardinality(At(S) \cup {p}) = IF p \in At(S) THEN Cardinality(At(S)) ELSE Cardinality(At(S)) + 1
    BY <1>1, FS_AddElement
  <2>4. QED
    BY <1>1, <1>2, <2>1, <2>2, <2>3
<1>3. CASE b \notin S
  <2>1. At(S)' = At(S) \ {p}
    BY <1>3 DEF At
  <2>2. p \in At(S) <=> pc[p] \in S
    BY DEF At
  <2>3. Cardinality(At(S) \ {p}) = IF p \in At(S) THEN Cardinality(At(S)) - 1 ELSE Cardinality(At(S))
    BY <1>1, FS_RemoveElement
  <2>4. QED
    BY <1>1, <1>3, <2>1, <2>2, <2>3
<1>4. QED
  BY <1>2, <1>3

\* A goroutine somewhere in S makes the count positive.
LEMMA SomeoneAt ==
  ASSUME NEW S, NEW p \in Procs, pc[p] \in S
  PROVE  Cardinality(At(S)) > 0
<1>1. At(S) # {}
  BY DEF At
<1>2. QED
  BY <1>1, AtFinite, FS_EmptySet

\* The same for the goroutines that own a slot of the semaphore.
LEMMA MoveHolding ==
  ASSUME NEW p \in Procs, NEW a, NEW b, pc \in [Procs -> Points], Goto(p, a, b)
  PROVE  Cardinality(At(Holding))' =
           Cardinality(At(Holding)) + (IF b \in Holding THEN 1 ELSE 0)
                                    - (IF a \in Holding THEN 1 ELSE 0)
BY Move DEF Goto

\* The same for the goroutines the WaitGroup waits for.
LEMMA MoveWorking ==
  ASSUME NEW p \in Procs, NEW a, NEW b, pc \in [Procs -> Points], Goto(p, a, b)
  PROVE  Cardinality(At(Working))' =
           Cardinality(At(Working)) + (IF b \in Working THEN 1 ELSE 0)
                                    - (IF a \in Working THEN 1 ELSE 0)
BY Move DEF Goto

-----------------------------------------------------------------------------
(* One lemma per conjunct of the invariant, one step per action.         *)

\* wg stays a natural number because the goroutine that leaves was counted.
LEMMA TypeStep == TypeOK /\ WaitInv /\ [Next]_vars => TypeOK'
<1> SUFFICES ASSUME TypeOK, WaitInv, [Next]_vars PROVE TypeOK'
  OBVIOUS
<1> USE DEF TypeOK, Goto, Points, Quality, env, records
<1>1. CASE Cancel
  BY <1>1 DEF Cancel
<1>2. ASSUME NEW p \in Procs, Exit(p) PROVE TypeOK'
  BY <1>2 DEF Exit
<1>3. ASSUME NEW p \in Procs, Spawn(p) PROVE TypeOK'
  BY <1>3 DEF Spawn
<1>4. CASE Wait
  BY <1>4 DEF Wait
<1>5. CASE Return
  BY <1>5 DEF Return
<1>6. ASSUME NEW p \in Procs, Acquire(p) PROVE TypeOK'
  BY <1>6, CollectorAssumption DEF Acquire
<1>7. ASSUME NEW p \in Procs, Skip(p) PROVE TypeOK'
  BY <1>7 DEF Skip
<1>8. ASSUME NEW p \in Procs, Open(p) PROVE TypeOK'
  BY <1>8 DEF Open
<1>9. ASSUME NEW p \in Procs, OpenFails(p) PROVE TypeOK'
  BY <1>9 DEF OpenFails
<1>10. ASSUME NEW p \in Procs, NEW q \in Quality, Read(p, q) PROVE TypeOK'
  BY <1>10 DEF Read
<1>11. ASSUME NEW p \in Procs, Lock(p) PROVE TypeOK'
  BY <1>11 DEF Lock
<1>12. ASSUME NEW p \in Procs, Store(p) PROVE TypeOK'
  BY <1>12 DEF Store
<1>13. ASSUME NEW p \in Procs, Unlock(p) PROVE TypeOK'
  BY <1>13 DEF Unlock
<1>14. ASSUME NEW p \in Procs, RecordDuration(p) PROVE TypeOK'
  BY <1>14 DEF RecordDuration
<1>15. ASSUME NEW p \in Procs, RecordError(p) PROVE TypeOK'
  BY <1>15 DEF RecordError
<1>16. ASSUME NEW p \in Procs, Release(p) PROVE TypeOK'
  BY <1>16, CollectorAssumption DEF Release
<1>17. ASSUME NEW p \in Procs, Leave(p) PROVE TypeOK'
  <2>1. Cardinality(At(Working)) > 0
    BY <1>17, SomeoneAt DEF Leave, Working
  <2>2. wg' \in Nat
    BY <1>17, <2>1 DEF Leave, WaitInv
  <2>3. QED
    BY <1>17, <2>2 DEF Leave
<1>18. CASE Finished
  BY <1>18 DEF Finished, vars
<1>19. CASE UNCHANGED vars
  BY <1>19 DEF vars
<1>20. QED
  BY <1>1, <1>2, <1>3, <1>4, <1>5, <1>6, <1>7, <1>8, <1>9, <1>10, <1>11, <1>12,
     <1>13, <1>14, <1>15, <1>16, <1>17, <1>18, <1>19
  DEF Next, Caller, Worker

\* A slot is taken on entering Holding and given back on leaving it.
LEMMA TokenStep == TypeOK /\ TokenInv /\ [Next]_vars => TokenInv'
<1> SUFFICES ASSUME TypeOK, TokenInv, [Next]_vars PROVE TokenInv'
  OBVIOUS
<1> USE DEF TypeOK, TokenInv, env, records
<1>1. CASE Cancel
  <2>1. At(Holding)' = At(Holding)
    BY <1>1 DEF Cancel, At
  <2>2. QED
    BY <1>1, <2>1 DEF Cancel
<1>2. ASSUME NEW p \in Procs, Exit(p) PROVE TokenInv'
  <2>1. At(Holding)' = At(Holding)
    BY <1>2 DEF Exit, At
  <2>2. QED
    BY <1>2, <2>1 DEF Exit
<1>3. ASSUME NEW p \in Procs, Spawn(p) PROVE TokenInv'
  BY <1>3, MoveHolding DEF Spawn, Holding
<1>4. CASE Wait
  <2>1. At(Holding)' = At(Holding)
    BY <1>4 DEF Wait, At
  <2>2. QED
    BY <1>4, <2>1 DEF Wait
<1>5. CASE Return
  <2>1. At(Holding)' = At(Holding)
    BY <1>5 DEF Return, At
  <2>2. QED
    BY <1>5, <2>1 DEF Return
<1>6. ASSUME NEW p \in Procs, Acquire(p) PROVE TokenInv'
  BY <1>6, MoveHolding DEF Acquire, Holding
<1>7. ASSUME NEW p \in Procs, Skip(p) PROVE TokenInv'
  BY <1>7, MoveHolding DEF Skip, Holding
<1>8. ASSUME NEW p \in Procs, Open(p) PROVE TokenInv'
  BY <1>8, MoveHolding DEF Open, Holding
<1>9. ASSUME NEW p \in Procs, OpenFails(p) PROVE TokenInv'
  BY <1>9, MoveHolding DEF OpenFails, Holding
<1>10. ASSUME NEW p \in Procs, NEW q \in Quality, Read(p, q) PROVE TokenInv'
  BY <1>10, MoveHolding DEF Read, Holding
<1>11. ASSUME NEW p \in Procs, Lock(p) PROVE TokenInv'
  BY <1>11, MoveHolding DEF Lock, Holding
<1>12. ASSUME NEW p \in Procs, Store(p) PROVE TokenInv'
  BY <1>12, MoveHolding DEF Store, Holding
<1>13. ASSUME NEW p \in Procs, Unlock(p) PROVE TokenInv'
  BY <1>13, MoveHolding DEF Unlock, Holding
<1>14. ASSUME NEW p \in Procs, RecordDuration(p) PROVE TokenInv'
  BY <1>14, MoveHolding DEF RecordDuration, Holding
<1>15. ASSUME NEW p \in Procs, RecordError(p) PROVE TokenInv'
  BY <1>15, MoveHolding DEF RecordError, Holding
<1>16. ASSUME NEW p \in Procs, Release(p) PROVE TokenInv'
  BY <1>16, MoveHolding DEF Release, Holding
<1>17. ASSUME NEW p \in Procs, Leave(p) PROVE TokenInv'
  BY <1>17, MoveHolding DEF Leave, Holding
<1>18. CASE Finished
  <2>1. At(Holding)' = At(Holding)
    BY <1>18 DEF Finished, vars, At
  <2>2. QED
    BY <1>18, <2>1 DEF Finished, vars
<1>19. CASE UNCHANGED vars
  <2>1. At(Holding)' = At(Holding)
    BY <1>19 DEF vars, At
  <2>2. QED
    BY <1>19, <2>1 DEF vars
<1>20. QED
  BY <1>1, <1>2, <1>3, <1>4, <1>5, <1>6, <1>7, <1>8, <1>9, <1>10, <1>11, <1>12,
     <1>13, <1>14, <1>15, <1>16, <1>17, <1>18, <1>19
  DEF Next, Caller, Worker

\* The count follows the goroutines, and zero after the spawning loop means all have exited.
LEMMA WaitStep == TypeOK /\ WaitInv /\ [Next]_vars => WaitInv'
<1> SUFFICES ASSUME TypeOK, WaitInv, [Next]_vars PROVE WaitInv'
  OBVIOUS
<1> USE DEF TypeOK, WaitInv, env, records
<1>1. CASE Cancel
  <2>1. At(Working)' = At(Working)
    BY <1>1 DEF Cancel, At
  <2>2. QED
    BY <1>1, <2>1 DEF Cancel
<1>2. ASSUME NEW p \in Procs, Exit(p) PROVE WaitInv'
  <2>1. At(Working)' = At(Working)
    BY <1>2 DEF Exit, At
  <2>2. QED
    BY <1>2, <2>1 DEF Exit
<1>3. ASSUME NEW p \in Procs, Spawn(p) PROVE WaitInv'
  <2>1. wg' = Cardinality(At(Working))'
    BY <1>3, MoveWorking DEF Spawn, Working, Points
  <2>2. QED
    BY <1>3, <2>1 DEF Spawn, Goto
<1>4. CASE Wait
  <2>1. At(Working)' = At(Working)
    BY <1>4 DEF Wait, At
  <2>2. QED
    BY <1>4, <2>1 DEF Wait, At
<1>5. CASE Return
  <2>1. At(Working)' = At(Working)
    BY <1>5 DEF Return, At
  <2>2. \A p \in Procs : pc[p] \notin Working
    <3>1. ASSUME NEW p \in Procs, pc[p] \in Working PROVE FALSE
      <4>1. Cardinality(At(Working)) > 0
        BY <3>1, SomeoneAt
      <4>2. QED
        BY <1>5, <4>1 DEF Return
    <3>2. QED
      BY <3>1
  <2>3. QED
    BY <1>5, <2>1, <2>2 DEF Return, Working
<1>6. ASSUME NEW p \in Procs, Acquire(p) PROVE WaitInv'
  <2>1. wg' = Cardinality(At(Working))'
    BY <1>6, MoveWorking DEF Acquire, Working, Points
  <2>2. QED
    BY <1>6, <2>1 DEF Acquire, Goto
<1>7. ASSUME NEW p \in Procs, Skip(p) PROVE WaitInv'
  <2>1. wg' = Cardinality(At(Working))'
    BY <1>7, MoveWorking DEF Skip, Working, Points
  <2>2. QED
    BY <1>7, <2>1 DEF Skip, Goto
<1>8. ASSUME NEW p \in Procs, Open(p) PROVE WaitInv'
  <2>1. wg' = Cardinality(At(Working))'
    BY <1>8, MoveWorking DEF Open, Working, Points
  <2>2. QED
    BY <1>8, <2>1 DEF Open, Goto
<1>9. ASSUME NEW p \in Procs, OpenFails(p) PROVE WaitInv'
  <2>1. wg' = Cardinality(At(Working))'
    BY <1>9, MoveWorking DEF OpenFails, Working, Points
  <2>2. QED
    BY <1>9, <2>1 DEF OpenFails, Goto
<1>10. ASSUME NEW p \in Procs, NEW q \in Quality, Read(p, q) PROVE WaitInv'
  <2>1. wg' = Cardinality(At(Working))'
    BY <1>10, MoveWorking DEF Read, Working, Points
  <2>2. QED
    BY <1>10, <2>1 DEF Read, Goto
<1>11. ASSUME NEW p \in Procs, Lock(p) PROVE WaitInv'
  <2>1. wg' = Cardinality(At(Working))'
    BY <1>11, MoveWorking DEF Lock, Working, Points
  <2>2. QED
    BY <1>11, <2>1 DEF Lock, Goto
<1>12. ASSUME NEW p \in Procs, Store(p) PROVE WaitInv'
  <2>1. wg' = Cardinality(At(Working))'
    BY <1>12, MoveWorking DEF Store, Working, Points
  <2>2. QED
    BY <1>12, <2>1 DEF Store, Goto
<1>13. ASSUME NEW p \in Procs, Unlock(p) PROVE WaitInv'
  <2>1. wg' = Cardinality(At(Working))'
    BY <1>13, MoveWorking DEF Unlock, Working, Points
  <2>2. QED
    BY <1>13, <2>1 DEF Unlock, Goto
<1>14. ASSUME NEW p \in Procs, RecordDuration(p) PROVE WaitInv'
  <2>1. wg' = Cardinality(At(Working))'
    BY <1>14, MoveWorking DEF RecordDuration, Working, Points
  <2>2. QED
    BY <1>14, <2>1 DEF RecordDuration, Goto
<1>15. ASSUME NEW p \in Procs, RecordError(p) PROVE WaitInv'
  <2>1. wg' = Cardinality(At(Working))'
    BY <1>15, MoveWorking DEF RecordError, Working, Points
  <2>2. QED
    BY <1>15, <2>1 DEF RecordError, Goto
<1>16. ASSUME NEW p \in Procs, Release(p) PROVE WaitInv'
  <2>1. wg' = Cardinality(At(Working))'
    BY <1>16, MoveWorking DEF Release, Working, Points
  <2>2. QED
    BY <1>16, <2>1 DEF Release, Goto
<1>17. ASSUME NEW p \in Procs, Leave(p) PROVE WaitInv'
  <2>1. wg' = Cardinality(At(Working))'
    BY <1>17, MoveWorking DEF Leave, Working, Points
  <2>2. QED
    BY <1>17, <2>1 DEF Leave, Goto
<1>18. CASE Finished
  <2>1. At(Working)' = At(Working)
    BY <1>18 DEF Finished, vars, At
  <2>2. QED
    BY <1>18, <2>1 DEF Finished, vars
<1>19. CASE UNCHANGED vars
  <2>1. At(Working)' = At(Working)
    BY <1>19 DEF vars, At
  <2>2. QED
    BY <1>19, <2>1 DEF vars
<1>20. QED
  BY <1>1, <1>2, <1>3, <1>4, <1>5, <1>6, <1>7, <1>8, <1>9, <1>10, <1>11, <1>12,
     <1>13, <1>14, <1>15, <1>16, <1>17, <1>18, <1>19
  DEF Next, Caller, Worker

\* Only the holder unlocks, and only a free mutex is taken.
LEMMA MutexStep == TypeOK /\ MutexInv /\ [Next]_vars => MutexInv'
<1> SUFFICES ASSUME TypeOK, MutexInv, [Next]_vars PROVE MutexInv'
  OBVIOUS
<1> USE DEF TypeOK, MutexInv, Critical, Goto, Points, Quality, env, records
<1>1. CASE Cancel
  BY <1>1 DEF Cancel
<1>2. ASSUME NEW p \in Procs, Exit(p) PROVE MutexInv'
  BY <1>2 DEF Exit
<1>3. ASSUME NEW p \in Procs, Spawn(p) PROVE MutexInv'
  BY <1>3 DEF Spawn
<1>4. CASE Wait
  BY <1>4 DEF Wait
<1>5. CASE Return
  BY <1>5 DEF Return
<1>6. ASSUME NEW p \in Procs, Acquire(p) PROVE MutexInv'
  BY <1>6 DEF Acquire
<1>7. ASSUME NEW p \in Procs, Skip(p) PROVE MutexInv'
  BY <1>7 DEF Skip
<1>8. ASSUME NEW p \in Procs, Open(p) PROVE MutexInv'
  BY <1>8 DEF Open
<1>9. ASSUME NEW p \in Procs, OpenFails(p) PROVE MutexInv'
  BY <1>9 DEF OpenFails
<1>10. ASSUME NEW p \in Procs, NEW q \in Quality, Read(p, q) PROVE MutexInv'
  BY <1>10 DEF Read
<1>11. ASSUME NEW p \in Procs, Lock(p) PROVE MutexInv'
  BY <1>11, CollectorAssumption DEF Lock
<1>12. ASSUME NEW p \in Procs, Store(p) PROVE MutexInv'
  BY <1>12 DEF Store
<1>13. ASSUME NEW p \in Procs, Unlock(p) PROVE MutexInv'
  BY <1>13, CollectorAssumption DEF Unlock
<1>14. ASSUME NEW p \in Procs, RecordDuration(p) PROVE MutexInv'
  BY <1>14 DEF RecordDuration
<1>15. ASSUME NEW p \in Procs, RecordError(p) PROVE MutexInv'
  BY <1>15 DEF RecordError
<1>16. ASSUME NEW p \in Procs, Release(p) PROVE MutexInv'
  BY <1>16 DEF Release
<1>17. ASSUME NEW p \in Procs, Leave(p) PROVE MutexInv'
  BY <1>17 DEF Leave
<1>18. CASE Finished
  BY <1>18 DEF Finished, vars
<1>19. CASE UNCHANGED vars
  BY <1>19 DEF vars
<1>20. QED
  BY <1>1, <1>2, <1>3, <1>4, <1>5, <1>6, <1>7, <1>8, <1>9, <1>10, <1>11, <1>12,
     <1>13, <1>14, <1>15, <1>16, <1>17, <1>18, <1>19
  DEF Next, Caller, Worker

\* What is recorded for a PID moves with the control point of its goroutine.
LEMMA FateStep == TypeOK /\ FateInv /\ [Next]_vars => FateInv'
<1> SUFFICES ASSUME TypeOK, FateInv, [Next]_vars PROVE FateInv'
  OBVIOUS
<1> USE DEF TypeOK, FateInv, Goto, Points, Quality, env, records
<1>1. CASE Cancel
  BY <1>1 DEF Cancel
<1>2. ASSUME NEW p \in Procs, Exit(p) PROVE FateInv'
  BY <1>2 DEF Exit
<1>3. ASSUME NEW p \in Procs, Spawn(p) PROVE FateInv'
  BY <1>3, CollectorAssumption DEF Spawn
<1>4. CASE Wait
  BY <1>4 DEF Wait
<1>5. CASE Return
  BY <1>5 DEF Return
<1>6. ASSUME NEW p \in Procs, Acquire(p) PROVE FateInv'
  BY <1>6, CollectorAssumption DEF Acquire
<1>7. ASSUME NEW p \in Procs, Skip(p) PROVE FateInv'
  BY <1>7, CollectorAssumption DEF Skip
<1>8. ASSUME NEW p \in Procs, Open(p) PROVE FateInv'
  BY <1>8, CollectorAssumption DEF Open
<1>9. ASSUME NEW p \in Procs, OpenFails(p) PROVE FateInv'
  BY <1>9, CollectorAssumption DEF OpenFails
<1>10. ASSUME NEW p \in Procs, NEW q \in Quality, Read(p, q) PROVE FateInv'
  BY <1>10, CollectorAssumption DEF Read
<1>11. ASSUME NEW p \in Procs, Lock(p) PROVE FateInv'
  BY <1>11, CollectorAssumption DEF Lock
<1>12. ASSUME NEW p \in Procs, Store(p) PROVE FateInv'
  BY <1>12, CollectorAssumption DEF Store
<1>13. ASSUME NEW p \in Procs, Unlock(p) PROVE FateInv'
  BY <1>13, CollectorAssumption DEF Unlock
<1>14. ASSUME NEW p \in Procs, RecordDuration(p) PROVE FateInv'
  BY <1>14, CollectorAssumption DEF RecordDuration
<1>15. ASSUME NEW p \in Procs, RecordError(p) PROVE FateInv'
  BY <1>15, CollectorAssumption DEF RecordError
<1>16. ASSUME NEW p \in Procs, Release(p) PROVE FateInv'
  BY <1>16, CollectorAssumption DEF Release
<1>17. ASSUME NEW p \in Procs, Leave(p) PROVE FateInv'
  BY <1>17, CollectorAssumption DEF Leave
<1>18. CASE Finished
  BY <1>18 DEF Finished, vars
<1>19. CASE UNCHANGED vars
  BY <1>19 DEF vars
<1>20. QED
  BY <1>1, <1>2, <1>3, <1>4, <1>5, <1>6, <1>7, <1>8, <1>9, <1>10, <1>11, <1>12,
     <1>13, <1>14, <1>15, <1>16, <1>17, <1>18, <1>19
  DEF Next, Caller, Worker

-----------------------------------------------------------------------------
(* The invariant and the safety properties.                                *)

\* A call starts with nothing spawned, held or recorded.
LEMMA InitIInv == Init => IInv
<1> SUFFICES ASSUME Init PROVE IInv
  OBVIOUS
<1>1. TypeOK
  <2>1. alive \in SUBSET Procs /\ timed \in SUBSET Procs /\ errored \in SUBSET Procs
    BY DEF Init
  <2>2. tokens \in 0..Limit /\ wg \in Nat
    BY CollectorAssumption DEF Init
  <2>3. QED
    BY <2>1, <2>2 DEF Init, TypeOK, Points
<1>2. At(Holding) = {} /\ At(Working) = {}
  BY DEF Init, At, Holding, Working, Points
<1>3. TokenInv /\ WaitInv
  BY <1>2, FS_EmptySet DEF Init, TokenInv, WaitInv
<1>4. MutexInv /\ FateInv
  BY CollectorAssumption DEF Init, MutexInv, FateInv, Critical
<1>5. QED
  BY <1>1, <1>3, <1>4 DEF IInv

\* IInv is inductive: it holds of every reachable state, for any number of
\* PIDs and any capacity of the semaphore.
THEOREM Inductive == Spec => []IInv
<1>1. IInv /\ [Next]_vars => IInv'
  BY TypeStep, TokenStep, WaitStep, MutexStep, FateStep DEF IInv
<1>2. QED
  BY InitIInv, <1>1, PTL DEF Spec

\* Every variable keeps its type; in particular wg.Done() never drives the
\* WaitGroup negative and the channel never holds more than Limit elements.
THEOREM TypeCorrect == Spec => []TypeOK
<1>1. IInv => TypeOK
  BY DEF IInv
<1>2. QED
  BY Inductive, <1>1, PTL

\* At most Limit processes are being read at any moment (collector.go:702).
THEOREM ReadersAreBounded == Spec => []BoundedReaders
<1>1. IInv => BoundedReaders
  <2> SUFFICES ASSUME IInv PROVE BoundedReaders
    OBVIOUS
  <2>1. At(Sampling) \in SUBSET At(Holding)
    BY DEF At, Sampling, Holding
  <2>2. Cardinality(At(Sampling)) <= Cardinality(At(Holding))
    BY <2>1, AtFinite, FS_Subset
  <2>3. Cardinality(At(Holding)) <= Limit
    BY CollectorAssumption DEF IInv, TypeOK, TokenInv
  <2>4. QED
    BY <2>2, <2>3, AtFinite, CollectorAssumption DEF BoundedReaders
<1>2. QED
  BY Inductive, <1>1, PTL

\* Writes of statsMap are exclusive and never race with the caller's use of it.
THEOREM WritesAreExclusive == Spec => []SingleWriter
<1>1. IInv => SingleWriter
  BY DEF IInv, MutexInv, WaitInv, SingleWriter, Critical, At
<1>2. QED
  BY Inductive, <1>1, PTL

\* No listed PID is lost by the time the call returns, on any interleaving.
THEOREM PidsAreAccounted == Spec => []EveryPidAccounted
<1>1. IInv => EveryPidAccounted
  BY DEF IInv, TypeOK, WaitInv, FateInv, EveryPidAccounted
<1>2. QED
  BY Inductive, <1>1, PTL

\* The semaphore, the mutex and the WaitGroup never deadlock the call: the
\* holder of the mutex needs nothing, a goroutine past the select needs at most
\* the mutex, and when none is past it the channel is empty.
THEOREM NobodyIsStuck == Spec => []NeverStuck
<1>1. IInv => NeverStuck
  <2> SUFFICES ASSUME IInv PROVE NeverStuck
    OBVIOUS
  <2>1. ASSUME NEW p \in Procs, pc[p] \in Holding PROVE tokens > 0
    BY <2>1, SomeoneAt DEF IInv, TokenInv
  <2>2. ASSUME NEW p \in Procs, pc[p] = "releasing" PROVE tokens > 0
    BY <2>1, <2>2 DEF Holding
  <2>3. ASSUME wg > 0 PROVE \E p \in At(Working) : ~Blocked(p)
    <3>1. At(Working) # {}
      BY <2>3, FS_EmptySet DEF IInv, WaitInv
    <3>2. PICK w \in Procs : pc[w] \in Working
      BY <3>1 DEF At
    <3>3. CASE mu # Absent
      <4>1. mu \in Procs /\ pc[mu] \in Critical
        BY <3>3 DEF IInv, TypeOK, MutexInv
      <4>2. mu \in At(Working)
        BY <4>1 DEF At, Critical, Working, Points
      <4>3. ~Blocked(mu)
        BY <4>1 DEF Blocked, Critical
      <4>4. QED
        BY <4>2, <4>3
    <3>4. CASE mu = Absent /\ \E p \in Procs : pc[p] \in Working \ {"selecting"}
      <4>1. PICK p \in Procs : pc[p] \in Working \ {"selecting"}
        BY <3>4
      <4>2. p \in At(Working)
        BY <4>1 DEF At
      <4>3. ~Blocked(p)
        BY <2>2, <3>4, <4>1 DEF Blocked
      <4>4. QED
        BY <4>2, <4>3
    <3>5. CASE \A p \in Procs : pc[p] \in Working => pc[p] = "selecting"
      <4>1. At(Holding) = {}
        BY <3>5 DEF At, Holding, Working, Points
      <4>2. tokens = 0
        BY <4>1, FS_EmptySet DEF IInv, TokenInv
      <4>3. w \in At(Working) /\ ~Blocked(w)
        BY <3>2, <3>5, <4>2, CollectorAssumption DEF At, Blocked
      <4>4. QED
        BY <4>3
    <3>6. QED
      BY <3>3, <3>4, <3>5
  <2>4. QED
    BY <2>2, <2>3 DEF NeverStuck
<1>2. QED
  BY Inductive, <1>1, PTL

\* Once the call has returned, the map and the counters stay as they are.
THEOREM ResultIsFinal == Spec => NoLateWrite
<1>1. IInv /\ [Next]_vars => [caller = "returned" => UNCHANGED <<statsMap, timed, errored>>]_vars
  <2> SUFFICES ASSUME IInv, Next, caller = "returned"
               PROVE  UNCHANGED <<statsMap, timed, errored>>
    OBVIOUS
  <2>1. \A p \in Procs : pc[p] = "exited"
    BY DEF IInv, WaitInv
  <2>2. ASSUME NEW p \in Procs, Worker(p) PROVE FALSE
    BY <2>1, <2>2 DEF Worker, Acquire, Skip, Open, OpenFails, Read, Lock, Store, Unlock,
       RecordDuration, RecordError, Release, Leave, Goto
  <2>3. ~Caller
    BY DEF Caller, Spawn, Wait, Return
  <2>4. QED
    BY <2>2, <2>3 DEF Next, Cancel, Exit, Finished, vars, records
<1>2. QED
  BY Inductive, <1>1, PTL DEF NoLateWrite, Spec

-----------------------------------------------------------------------------
(* The refinement.                                                         *)

\* The abstract outcome of every PID other than p, and of p too when nothing
\* it is computed from changes, stays what it was.
LEMMA OutcomeUnchanged ==
  ASSUME UNCHANGED <<statsMap, errored>>,
         \A p \in Procs : pc'[p] \in {"leaving", "exited"} <=> pc[p] \in {"leaving", "exited"}
  PROVE  [p \in Procs |-> Outcome(p)]' = [p \in Procs |-> Outcome(p)]
BY DEF Outcome

\* The step that fixes the fate of p is a Settle step of the contract.
LEMMA OutcomeSettled ==
  ASSUME NEW p \in Procs, NEW o,
         Outcome(p)' = o,
         \A q \in Procs : q # p => Outcome(q)' = Outcome(q)
  PROVE  [q \in Procs |-> Outcome(q)]' = [[q \in Procs |-> Outcome(q)] EXCEPT ![p] = o]
OBVIOUS

\* Every step is a step of the contract or leaves its variables alone.
LEMMA ContractStep == IInv /\ [Next]_vars => [Contract!Next]_(Contract!vars)
<1> SUFFICES ASSUME IInv, [Next]_vars PROVE [Contract!Next]_(Contract!vars)
  OBVIOUS
<1> DEFINE Stutters == UNCHANGED Contract!vars
<1>1. CASE Cancel
  <2>1. [p \in Procs |-> Outcome(p)]' = [p \in Procs |-> Outcome(p)]
    BY <1>1, OutcomeUnchanged DEF Cancel, records
  <2>2. QED
    BY <1>1, <2>1 DEF Cancel, Contract!Next, Contract!Cancel
<1>2. CASE Return
  <2>1. [p \in Procs |-> Outcome(p)]' = [p \in Procs |-> Outcome(p)]
    BY <1>2, OutcomeUnchanged DEF Return, records
  <2>2. At(Working) = {}
    <3>1. Cardinality(At(Working)) = 0
      BY <1>2 DEF Return, IInv, WaitInv
    <3>2. QED
      BY <3>1, AtFinite, FS_EmptySet
  <2>3. \A p \in Procs : pc[p] = "exited"
    BY <1>2, <2>2 DEF Return, IInv, TypeOK, WaitInv, At, Working, Points
  <2>4. \A p \in Procs : Outcome(p) # "pending"
    BY <2>3 DEF Outcome
  <2>5. QED
    BY <1>2, <2>1, <2>4 DEF Return, env, Contract!Next, Contract!Return
<1>3. ASSUME NEW p \in Procs, Store(p) PROVE Contract!Next
  <2>1. Outcome(p) = "pending" /\ Outcome(p)' = "recorded"
    BY <1>3, CollectorAssumption
    DEF Store, Goto, Outcome, IInv, TypeOK, FateInv, Quality
  <2>2. \A q \in Procs : q # p => Outcome(q)' = Outcome(q)
    BY <1>3 DEF Store, Goto, Outcome, records, IInv, TypeOK
  <2>3. caller # "returned"
    BY <1>3 DEF Store, Goto, IInv, WaitInv
  <2>4. [q \in Procs |-> Outcome(q)]' = [[q \in Procs |-> Outcome(q)] EXCEPT ![p] = "recorded"]
    BY <2>1, <2>2, OutcomeSettled
  <2>5. QED
    BY <1>3, <2>1, <2>3, <2>4
    DEF Store, env, Contract!Next, Contract!Settle, Contract!Outcomes
<1>4. ASSUME NEW p \in Procs, RecordError(p) PROVE Contract!Next
  <2>1. Outcome(p) = "pending" /\ Outcome(p)' = "failed"
    BY <1>4, CollectorAssumption DEF RecordError, Goto, Outcome, IInv, TypeOK, FateInv
  <2>2. \A q \in Procs : q # p => Outcome(q)' = Outcome(q)
    BY <1>4 DEF RecordError, Goto, Outcome, IInv, TypeOK
  <2>3. caller # "returned"
    BY <1>4 DEF RecordError, Goto, IInv, WaitInv
  <2>4. [q \in Procs |-> Outcome(q)]' = [[q \in Procs |-> Outcome(q)] EXCEPT ![p] = "failed"]
    BY <2>1, <2>2, OutcomeSettled
  <2>5. QED
    BY <1>4, <2>1, <2>3, <2>4
    DEF RecordError, env, Contract!Next, Contract!Settle, Contract!Outcomes
<1>5. ASSUME NEW p \in Procs, Skip(p) PROVE Contract!Next
  <2>1. Outcome(p) = "pending" /\ Outcome(p)' = "skipped"
    BY <1>5, CollectorAssumption DEF Skip, Goto, Outcome, IInv, TypeOK, FateInv, records
  <2>2. \A q \in Procs : q # p => Outcome(q)' = Outcome(q)
    BY <1>5 DEF Skip, Goto, Outcome, records, IInv, TypeOK
  <2>3. caller # "returned"
    BY <1>5 DEF Skip, Goto, IInv, WaitInv
  <2>4. [q \in Procs |-> Outcome(q)]' = [[q \in Procs |-> Outcome(q)] EXCEPT ![p] = "skipped"]
    BY <2>1, <2>2, OutcomeSettled
  <2>5. QED
    BY <1>5, <2>1, <2>3, <2>4
    DEF Skip, env, Contract!Next, Contract!Settle, Contract!Outcomes
<1>6. ASSUME NEW p \in Procs, Exit(p) PROVE Stutters
  <2>1. [q \in Procs |-> Outcome(q)]' = [q \in Procs |-> Outcome(q)]
    BY <1>6, OutcomeUnchanged DEF Exit, Goto, records, IInv, TypeOK
  <2>2. QED
    BY <1>6, <2>1 DEF Exit, Goto, env, IInv, WaitInv, Contract!vars
<1>7. ASSUME NEW p \in Procs, Spawn(p) PROVE Stutters
  <2>1. [q \in Procs |-> Outcome(q)]' = [q \in Procs |-> Outcome(q)]
    BY <1>7, OutcomeUnchanged DEF Spawn, Goto, records, IInv, TypeOK
  <2>2. QED
    BY <1>7, <2>1 DEF Spawn, Goto, env, IInv, WaitInv, Contract!vars
<1>8. ASSUME Wait PROVE Stutters
  <2>1. [q \in Procs |-> Outcome(q)]' = [q \in Procs |-> Outcome(q)]
    BY <1>8, OutcomeUnchanged DEF Wait, Goto, records, IInv, TypeOK
  <2>2. QED
    BY <1>8, <2>1 DEF Wait, Goto, env, IInv, WaitInv, Contract!vars
<1>9. ASSUME NEW p \in Procs, Acquire(p) PROVE Stutters
  <2>1. [q \in Procs |-> Outcome(q)]' = [q \in Procs |-> Outcome(q)]
    BY <1>9, OutcomeUnchanged DEF Acquire, Goto, records, IInv, TypeOK
  <2>2. QED
    BY <1>9, <2>1 DEF Acquire, Goto, env, IInv, WaitInv, Contract!vars
<1>10. ASSUME NEW p \in Procs, Open(p) PROVE Stutters
  <2>1. [q \in Procs |-> Outcome(q)]' = [q \in Procs |-> Outcome(q)]
    BY <1>10, OutcomeUnchanged DEF Open, Goto, records, IInv, TypeOK
  <2>2. QED
    BY <1>10, <2>1 DEF Open, Goto, env, IInv, WaitInv, Contract!vars
<1>11. ASSUME NEW p \in Procs, OpenFails(p) PROVE Stutters
  <2>1. [q \in Procs |-> Outcome(q)]' = [q \in Procs |-> Outcome(q)]
    BY <1>11, OutcomeUnchanged DEF OpenFails, Goto, records, IInv, TypeOK
  <2>2. QED
    BY <1>11, <2>1 DEF OpenFails, Goto, env, IInv, WaitInv, Contract!vars
<1>12. ASSUME NEW p \in Procs, NEW v \in Quality, Read(p, v) PROVE Stutters
  <2>1. [q \in Procs |-> Outcome(q)]' = [q \in Procs |-> Outcome(q)]
    BY <1>12, OutcomeUnchanged DEF Read, Goto, records, IInv, TypeOK
  <2>2. QED
    BY <1>12, <2>1 DEF Read, Goto, env, IInv, WaitInv, Contract!vars
<1>13. ASSUME NEW p \in Procs, Lock(p) PROVE Stutters
  <2>1. [q \in Procs |-> Outcome(q)]' = [q \in Procs |-> Outcome(q)]
    BY <1>13, OutcomeUnchanged DEF Lock, Goto, records, IInv, TypeOK
  <2>2. QED
    BY <1>13, <2>1 DEF Lock, Goto, env, IInv, WaitInv, Contract!vars
<1>14. ASSUME NEW p \in Procs, Unlock(p) PROVE Stutters
  <2>1. [q \in Procs |-> Outcome(q)]' = [q \in Procs |-> Outcome(q)]
    BY <1>14, OutcomeUnchanged DEF Unlock, Goto, records, IInv, TypeOK
  <2>2. QED
    BY <1>14, <2>1 DEF Unlock, Goto, env, IInv, WaitInv, Contract!vars
<1>15. ASSUME NEW p \in Procs, RecordDuration(p) PROVE Stutters
  <2>1. [q \in Procs |-> Outcome(q)]' = [q \in Procs |-> Outcome(q)]
    BY <1>15, OutcomeUnchanged DEF RecordDuration, Goto, records, IInv, TypeOK
  <2>2. QED
    BY <1>15, <2>1 DEF RecordDuration, Goto, env, IInv, WaitInv, Contract!vars
<1>16. ASSUME NEW p \in Procs, Leave(p) PROVE Stutters
  <2>1. [q \in Procs |-> Outcome(q)]' = [q \in Procs |-> Outcome(q)]
    BY <1>16, OutcomeUnchanged DEF Leave, Goto, records, IInv, TypeOK
  <2>2. QED
    BY <1>16, <2>1 DEF Leave, Goto, env, IInv, WaitInv, Contract!vars
<1>17. ASSUME NEW p \in Procs, Release(p) PROVE Stutters
  <2>1. statsMap[p] # Absent \/ p \in errored
    BY <1>17 DEF Release, Goto, IInv, FateInv
  <2>2. \A q \in Procs : Outcome(q)' = Outcome(q)
    BY <1>17, <2>1 DEF Release, Goto, Outcome, records, IInv, TypeOK
  <2>3. QED
    BY <1>17, <2>2 DEF Release, env, Contract!vars
<1>18. ASSUME UNCHANGED vars PROVE Stutters
  <2>1. [q \in Procs |-> Outcome(q)]' = [q \in Procs |-> Outcome(q)]
    BY <1>18, OutcomeUnchanged DEF vars
  <2>2. QED
    BY <1>18, <2>1 DEF vars, Contract!vars
<1>19. QED
  BY <1>1, <1>2, <1>3, <1>4, <1>5, <1>6, <1>7, <1>8, <1>9, <1>10, <1>11, <1>12,
     <1>13, <1>14, <1>15, <1>16, <1>17, <1>18
  DEF Next, Caller, Worker, Finished

\* The initial states are initial states of the contract.
LEMMA ContractInit == Init => Contract!Init
BY DEF Init, Outcome, Contract!Init

\* The goroutines implement CollectContract: every step settles at most one
\* PID, only a done context makes the call pass a PID over, and the call
\* returns only when all are settled.
THEOREM Refinement == Spec => ImplementsContract
<1>1. QED
  BY ContractInit, ContractStep, Inductive, PTL
  DEF ImplementsContract, Spec, Contract!Spec

=============================================================================
