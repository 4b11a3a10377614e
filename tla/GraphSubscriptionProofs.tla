----------------------- MODULE GraphSubscriptionProofs -----------------------
(***************************************************************************)
(* What module GraphSubscription promises, for any number of uvicorn       *)
(* workers and Celery children, any period that is shorter than the life   *)
(* of a subscription, and any number of failures.                          *)
(***************************************************************************)
EXTENDS GraphSubscription, FiniteSetTheorems, TLAPS

-----------------------------------------------------------------------------
(* Types.                                                                  *)

(* A new id is an unused one.                                              *)
LEMMA NewIdIsUnused == Unused # {} => NewId \in Unused /\ NewId \in Ids
  BY DEF NewId, Unused

(* Nothing is registered at the start.                                     *)
LEMMA TypeInit == Init => TypeOK
  BY SubscriptionAssumption DEF Init, TypeOK, Owners

(* No call, death or day leaves the types.                                 *)
LEMMA TypeStep == TypeOK /\ [Next]_vars => TypeOK'
<1> SUFFICES ASSUME TypeOK, [Next]_vars PROVE TypeOK'
  OBVIOUS
<1> USE SubscriptionAssumption, NewIdIsUnused
    DEF TypeOK, Owners, Running, Live, Sleep, Fault, celeryVars
<1>1. ASSUME NEW p \in Owners, Start(p) PROVE TypeOK'
  BY <1>1 DEF Start
<1>2. ASSUME NEW p \in Owners, Register(p) PROVE TypeOK'
  BY <1>2 DEF Register
<1>3. ASSUME NEW p \in Owners, Unanswered(p) PROVE TypeOK'
  BY <1>3 DEF Unanswered
<1>4. ASSUME NEW p \in Owners, Renew(p) PROVE TypeOK'
  BY <1>4 DEF Renew, Due, Extend, Reregister
<1>5. ASSUME NEW p \in Owners, RegisterFails(p) PROVE TypeOK'
  BY <1>5 DEF RegisterFails
<1>6. ASSUME NEW p \in Owners, RenewRefused(p) PROVE TypeOK'
  BY <1>6 DEF RenewRefused, Due, Reregister
<1>7. ASSUME NEW p \in Owners, RenewRaises(p) PROVE TypeOK'
  BY <1>7 DEF RenewRaises, Due
<1>8. ASSUME NEW p \in Owners, Die(p) PROVE TypeOK'
  BY <1>8 DEF Die
<1>9. ASSUME Day PROVE TypeOK'
  BY <1>9 DEF Day
<1>10. ASSUME Send \/ BeatRestarts PROVE TypeOK'
  BY <1>10 DEF Send, BeatRestarts
<1>11. ASSUME UNCHANGED vars PROVE TypeOK'
  BY <1>11 DEF vars
<1> QED
  BY <1>1, <1>2, <1>3, <1>4, <1>5, <1>6, <1>7, <1>8, <1>9, <1>10, <1>11
     DEF Next, Step, Fails

(* The type invariant: no process is due at a negative time, and no        *)
(* subscription outlives its life.                                         *)
THEOREM TypeCorrect == Spec => []TypeOK
  BY TypeInit, TypeStep, PTL DEF Spec

-----------------------------------------------------------------------------
(* Subscriptions outlive the sleep of their processes.                     *)

Outlives(p) == held[p] \in Ids /\ left[held[p]] > due[p]

OutliveInv == \A p \in serving \ asking : last[p] = "ok" => Outlives(p)

(* No process serves at the start.                                         *)
LEMMA OutliveInit == Init => OutliveInv
  BY DEF Init, OutliveInv

(* A registration or a renewal makes it so, and a day is taken from both.  *)
LEMMA OutliveStep == TypeOK /\ OutliveInv /\ [Next]_vars => OutliveInv'
<1> SUFFICES ASSUME TypeOK, OutliveInv, [Next]_vars PROVE OutliveInv'
  OBVIOUS
<1> USE SubscriptionAssumption, NewIdIsUnused
    DEF TypeOK, OutliveInv, Outlives, Owners, Running, Live, Sleep, Fault,
        celeryVars
<1>1. ASSUME NEW p \in Owners, Start(p) PROVE OutliveInv'
  BY <1>1 DEF Start
<1>2. ASSUME NEW p \in Owners, Register(p) PROVE OutliveInv'
  BY <1>2 DEF Register
<1>3. ASSUME NEW p \in Owners, Unanswered(p) PROVE OutliveInv'
  BY <1>3 DEF Unanswered
<1>4. ASSUME NEW p \in Owners, Renew(p) PROVE OutliveInv'
  <2>1. CASE held[p] \in Live
    BY <1>4, <2>1 DEF Renew, Due, Extend
  <2>2. CASE held[p] \notin Live
    BY <1>4, <2>2 DEF Renew, Due, Reregister
  <2> QED
    BY <2>1, <2>2
<1>5. ASSUME NEW p \in Owners, RegisterFails(p) PROVE OutliveInv'
  BY <1>5 DEF RegisterFails
<1>6. ASSUME NEW p \in Owners, RenewRefused(p) PROVE OutliveInv'
  BY <1>6 DEF RenewRefused, Due, Reregister
<1>7. ASSUME NEW p \in Owners, RenewRaises(p) PROVE OutliveInv'
  BY <1>7 DEF RenewRaises, Due
<1>8. ASSUME NEW p \in Owners, Die(p) PROVE OutliveInv'
  BY <1>8 DEF Die
<1>9. ASSUME Day PROVE OutliveInv'
  BY <1>9 DEF Day
<1>10. ASSUME Send \/ BeatRestarts PROVE OutliveInv'
  BY <1>10 DEF Send, BeatRestarts
<1>11. ASSUME UNCHANGED vars PROVE OutliveInv'
  BY <1>11 DEF vars
<1> QED
  BY <1>1, <1>2, <1>3, <1>4, <1>5, <1>6, <1>7, <1>8, <1>9, <1>10, <1>11
     DEF Next, Step, Fails

(* A process whose last attempt succeeded is subscribed until its next     *)
(* attempt, whatever fails, dies or expires around it.                     *)
THEOREM SubscribedAfterSuccess == Spec => []SubscribedUnlessFailed
<1>1. TypeOK /\ OutliveInv => SubscribedUnlessFailed
  BY DEF TypeOK, OutliveInv, Outlives, SubscribedUnlessFailed, Subscribed, Live
<1> QED
  BY <1>1, TypeInit, TypeStep, OutliveInit, OutliveStep, PTL DEF Spec

-----------------------------------------------------------------------------
(* Orphans: subscriptions that live and whose id no process knows.         *)

Orphans == {i \in Live : \A p \in Owners : held[p] # i}

OrphanInv ==
    /\ Cardinality(Orphans) <= faults
    /\ \A p \in asking \cup (Procs \ serving) : held[p] = NoId

(* One orphan more, or none, and then one failure more.                    *)
LEMMA OneMore ==
  ASSUME NEW S \in SUBSET Ids, NEW T, NEW x, T \subseteq S \cup {x}
  PROVE  /\ IsFiniteSet(T) /\ Cardinality(T) \in Nat /\ Cardinality(S) \in Nat
         /\ Cardinality(T) <= Cardinality(S) + 1
         /\ T \subseteq S => Cardinality(T) <= Cardinality(S)
<1>1. IsFiniteSet(S)
  BY SubscriptionAssumption, FS_Subset
<1>2. /\ IsFiniteSet(S \cup {x})
      /\ Cardinality(S \cup {x}) <= Cardinality(S) + 1
  <2>1. Cardinality(S) \in Nat
    BY <1>1, FS_CardinalityType
  <2>2. /\ IsFiniteSet(S \cup {x})
        /\ Cardinality(S \cup {x}) = IF x \in S THEN Cardinality(S) ELSE Cardinality(S) + 1
    BY <1>1, FS_AddElement
  <2> QED
    BY <2>1, <2>2
<1>3. IsFiniteSet(T) /\ Cardinality(T) <= Cardinality(S \cup {x})
  BY <1>2, FS_Subset
<1>4. T \subseteq S => Cardinality(T) <= Cardinality(S)
  BY <1>1, FS_Subset
<1> QED
  BY <1>1, <1>2, <1>3, <1>4, FS_CardinalityType

(* Nothing lives at the start.                                             *)
LEMMA OrphanInit == Init => OrphanInv
  BY FS_EmptySet DEF Init, OrphanInv, Orphans, Live, Owners

(* What makes an orphan is a failure.                                      *)
LEMMA OrphanStep == TypeOK /\ OrphanInv /\ [Next]_vars => OrphanInv'
<1> SUFFICES ASSUME TypeOK, OrphanInv, [Next]_vars PROVE OrphanInv'
  OBVIOUS
<1> USE SubscriptionAssumption, NewIdIsUnused
    DEF TypeOK, Owners, Running, Live, Orphans, Sleep, Fault, celeryVars
<1>1. ASSUME Orphans' \subseteq Orphans, faults' = faults
      PROVE  Cardinality(Orphans') <= faults'
  <2>1. Cardinality(Orphans) <= faults /\ faults \in Nat
    BY DEF OrphanInv
  <2>2. Orphans \subseteq Ids
    OBVIOUS
  <2> HIDE DEF Orphans
  <2>3. Orphans' \subseteq Orphans \cup {NoId}
    BY <1>1
  <2>4. /\ Cardinality(Orphans') <= Cardinality(Orphans)
        /\ Cardinality(Orphans') \in Nat /\ Cardinality(Orphans) \in Nat
    BY <1>1, <2>2, <2>3, OneMore
  <2> QED
    BY <1>1, <2>1, <2>4
<1>2. ASSUME NEW x, Orphans' \subseteq Orphans \cup {x}, faults' = faults + 1
      PROVE  Cardinality(Orphans') <= faults'
  <2>1. Orphans \in SUBSET Ids
    OBVIOUS
  <2>2. /\ Cardinality(Orphans') \in Nat /\ Cardinality(Orphans) \in Nat
        /\ Cardinality(Orphans') <= Cardinality(Orphans) + 1
    BY <1>2, <2>1, OneMore
  <2> QED
    BY <1>2, <2>2 DEF OrphanInv
<1>3. ASSUME NEW p \in Owners, Start(p) PROVE OrphanInv'
  BY <1>1, <1>3 DEF Start, OrphanInv
<1>4. ASSUME NEW p \in Owners, Register(p) PROVE OrphanInv'
  <2>1. held[p] = NoId
    BY <1>4 DEF Register, OrphanInv
  <2>2. Orphans' \subseteq Orphans
    BY <1>4, <2>1 DEF Register
  <2> QED
    BY <1>1, <1>4, <2>2 DEF Register, OrphanInv
<1>5. ASSUME NEW p \in Owners, Unanswered(p) PROVE OrphanInv'
  BY <1>1, <1>5 DEF Unanswered, OrphanInv
<1>6. ASSUME NEW p \in Owners, Renew(p) PROVE OrphanInv'
  <2>1. Orphans' \subseteq Orphans /\ faults' = faults
    BY <1>6 DEF Renew, Due, Extend, Reregister
  <2> QED
    BY <1>1, <1>6, <2>1 DEF Renew, Due, Extend, Reregister, OrphanInv
<1>7. ASSUME NEW p \in Owners, RegisterFails(p) PROVE OrphanInv'
  <2>1. Orphans' \subseteq Orphans \cup {NewId}
    BY <1>7 DEF RegisterFails
  <2> QED
    BY <1>2, <1>7, <2>1 DEF RegisterFails, OrphanInv
<1>8. ASSUME NEW p \in Owners, RenewRefused(p) \/ Die(p) PROVE OrphanInv'
  <2>1. Orphans' \subseteq Orphans \cup {held[p]}
    BY <1>8 DEF RenewRefused, Due, Reregister, Die
  <2> QED
    BY <1>2, <1>8, <2>1 DEF RenewRefused, Due, Reregister, Die, OrphanInv
<1>9. ASSUME NEW p \in Owners, RenewRaises(p) PROVE OrphanInv'
  <2>1. Orphans' \subseteq Orphans \cup {held[p]}
    BY <1>9 DEF RenewRaises, Due
  <2> QED
    BY <1>2, <1>9, <2>1 DEF RenewRaises, Due, OrphanInv
<1>10. ASSUME Day PROVE OrphanInv'
  <2>1. Orphans' \subseteq Orphans
    BY <1>10 DEF Day
  <2> QED
    BY <1>1, <1>10, <2>1 DEF Day, OrphanInv
<1>11. ASSUME Send PROVE OrphanInv'
  BY <1>1, <1>11 DEF Send, OrphanInv
<1>12. ASSUME BeatRestarts PROVE OrphanInv'
  <2>1. Orphans' \subseteq Orphans \cup {NoId}
    BY <1>12 DEF BeatRestarts
  <2> QED
    BY <1>2, <1>12, <2>1 DEF BeatRestarts, OrphanInv
<1>13. ASSUME UNCHANGED vars PROVE OrphanInv'
  BY <1>1, <1>13 DEF vars, celeryVars, OrphanInv
<1> QED
  BY <1>3, <1>4, <1>5, <1>6, <1>7, <1>8, <1>9, <1>10, <1>11, <1>12, <1>13
     DEF Next, Step, Fails

(* Workers and children are finitely many.                                 *)
LEMMA OwnersAreFinite == IsFiniteSet(Owners) /\ Cardinality(Owners) \in Nat
  BY SubscriptionAssumption, FS_Union, FS_CardinalityType DEF Owners

(* The subscriptions that processes know are not more than the processes.  *)
LEMMA KnownAreFew ==
  ASSUME TypeOK
  PROVE  LET K == Live \ Orphans IN
         IsFiniteSet(K) /\ Cardinality(K) <= Cardinality(Owners)
<1> DEFINE K == Live \ Orphans
           f == [i \in K |-> CHOOSE p \in Owners : held[p] = i]
<1>1. \A i \in K : f[i] \in Owners /\ held[f[i]] = i
  BY DEF Live, Orphans
<1>2. f \in [K -> Owners]
  BY <1>1
<1>3. \A i, j \in K : f[i] = f[j] => i = j
  BY <1>1
<1>4. f \in Injection(K, Owners)
  BY <1>2, <1>3 DEF Injection, IsInjective
<1> QED
  BY <1>4, OwnersAreFinite, FS_Injection

(* Live subscriptions are at most one for each worker, one for each Celery *)
(* child and one for each failure, however long the program runs and in    *)
(* whichever order beat's tasks and the workers' own renewals come.        *)
THEOREM FewSubscriptions == Spec => []NoPileUp
<1>1. ASSUME TypeOK, OrphanInv PROVE NoPileUp
  <2> DEFINE K == Live \ Orphans
  <2>1. IsFiniteSet(K) /\ Cardinality(K) <= Cardinality(Owners)
    BY <1>1, KnownAreFew
  <2>2. IsFiniteSet(Orphans)
    BY SubscriptionAssumption, FS_Subset DEF Orphans, Live
  <2>3. Cardinality(K \cup Orphans) =
            Cardinality(K) + Cardinality(Orphans) - Cardinality(K \cap Orphans)
    BY <2>1, <2>2, FS_Union
  <2>4. IsFiniteSet(K \cap Orphans)
    BY <2>1, FS_Intersection
  <2>5. /\ Cardinality(K) \in Nat /\ Cardinality(Orphans) \in Nat
        /\ Cardinality(K \cap Orphans) \in Nat /\ Cardinality(Owners) \in Nat
    BY <2>1, <2>2, <2>4, OwnersAreFinite, FS_CardinalityType
  <2>6. Live = K \cup Orphans
    BY DEF Orphans
  <2>7. Cardinality(Orphans) <= faults /\ faults \in Nat
    BY <1>1, SubscriptionAssumption DEF OrphanInv, TypeOK
  <2> HIDE DEF K
  <2> QED
    BY <2>1, <2>3, <2>5, <2>6, <2>7 DEF NoPileUp
<1> QED
  BY <1>1, TypeInit, TypeStep, OrphanInit, OrphanStep, PTL DEF Spec

=============================================================================
