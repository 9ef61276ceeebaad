--------------------------- MODULE TagSetsProofs ---------------------------
(***************************************************************************)
(* Proofs about TagSets, for any number of goroutines, types and calls.    *)
(***************************************************************************)
EXTENDS TagSets, TLAPS

Writing == {"claimed", "scan", "delete", "unlock"}
Reading == {"item", "type", "copy", "runlock"}

\* Who is inside: one writer, or readers.
LockInv ==
  /\ \A g \in Routines : writer = g <=> pc[g] \in Writing
  /\ \A g \in Routines : g \in readers <=> pc[g] \in Reading
  /\ \A g \in Routines : pc[g] \in {"scan", "delete", "unlock"} => readers = {}

\* A goroutine is where its call takes it.
CallInv ==
  \A g \in Routines :
    /\ op[g] = NoOp <=> pc[g] = "idle"
    /\ pc[g] \in {"scan", "refused"} => op[g].kind = "add"
    /\ pc[g] = "claimed" => Writes(op[g])
    /\ pc[g] = "delete" => op[g].kind = "remove"
    /\ pc[g] \in {"item", "type", "copy"} => op[g].kind = pc[g]
    /\ pc[g] = "refused" => ~Acceptable(op[g].ty, op[g].item)
    /\ pc[g] \in {"want", "claimed", "scan"} /\ op[g].kind = "add"
         => Acceptable(op[g].ty, op[g].item)
    /\ pc[g] \notin {"unlock", "runlock", "return"} => result[g] = <<"none">>

\* What the loops have visited still holds, nobody changes the set meanwhile.
LoopInv ==
  \A g \in Routines :
    /\ pc[g] = "scan" =>
         \A u \in Present(tags) \ todo[g] : ~InTheWay(tags, u, op[g].ty, op[g].item)
    /\ pc[g] \in {"scan", "copy"} => todo[g] \subseteq Present(tags)
    /\ pc[g] \notin {"copy", "runlock", "return"} => acc[g] = None
    /\ pc[g] = "copy" => \A t \in Types \ todo[g] : acc[g][t] = Kept(op[g].mode, tags, t)

IInv == TypeOK /\ LockInv /\ CallInv /\ LoopInv /\ NumsUnique

LEMMA OpTypes ==
  ASSUME NEW o \in Ops
  PROVE  /\ o # NoOp
         /\ o.kind \in {"add", "remove", "item", "type", "copy"}
         /\ o.kind = "add" => o.ty \in Types /\ o.item \in Items
         /\ o.kind \in {"remove", "item"} => o.ty \in Types
         /\ o.kind = "type" => o.nums \in Nums
         /\ o.kind = "copy" => o.mode \in {"enc", "dec"}
  BY OpsAssumption, NoOpAssumption DEF AddOps, RemoveOps, LookupOps, CopyOps

LEMMA InitHolds == Init => IInv
  BY NoOneAssumption
  DEF Init, IInv, TypeOK, LockInv, CallInv, LoopInv, NumsUnique, TagSet, None, Answers,
      Present, Writing, Reading

\* The answers.
LEMMA AnswerTypes ==
  ASSUME NEW t \in Types, NEW i \in Items \cup {NoItem}, NEW set \in TagSet
  PROVE  /\ <<"type", t>> \in Answers /\ <<"item", i>> \in Answers /\ <<"set", set>> \in Answers
         /\ <<"none">> \in Answers /\ <<"error">> \in Answers /\ <<"nil">> \in Answers
         /\ <<"type">> \in Answers
  BY DEF Answers

LEMMA TypeStep == TypeOK /\ CallInv /\ Next => TypeOK'
<1> SUFFICES ASSUME TypeOK, CallInv, Next PROVE TypeOK'
  OBVIOUS
<1> USE DEF TypeOK, GoTo, Return
<1> PICK g \in Routines : (\E o \in Ops : Start(g, o)) \/ Claim(g) \/ RLock(g) \/ Runs(g)
  BY DEF Next
<1>0. <<"none">> \in Answers /\ <<"error">> \in Answers /\ <<"nil">> \in Answers
      /\ <<"type">> \in Answers
  BY DEF Answers
<1>a. pc[g] # "idle" => op[g] \in Ops
  BY DEF CallInv
<1>1. ASSUME NEW o \in Ops, Start(g, o) PROVE TypeOK'
  BY <1>1 DEF Start
<1>2. CASE Claim(g)
  BY <1>2 DEF Claim
<1>3. CASE RLock(g)
  <2>1. op[g].kind \in {"item", "type", "copy"}
    BY <1>3, <1>a, OpTypes DEF RLock, Writes
  <2> QED
    BY <1>3, <2>1 DEF RLock, Present
<1>4. CASE Refuse(g)
  BY <1>4, <1>0 DEF Refuse
<1>5. CASE Lock(g)
  BY <1>5 DEF Lock, Present
<1>6. CASE Scan(g)
  BY <1>6, <1>0 DEF Scan, Unlocks
<1>7. CASE Store(g)
  <2>1. op[g].ty \in Types /\ op[g].item \in Items
    BY <1>7, <1>a, OpTypes DEF Store, CallInv
  <2>2. tags' \in TagSet
    BY <1>7, <2>1 DEF Store, TagSet
  <2> QED
    BY <1>7, <2>2, <1>0 DEF Store, Unlocks
<1>8. CASE Delete(g)
  <2>1. tags' \in TagSet
    BY <1>8 DEF Delete, TagSet
  <2> QED
    BY <1>8, <2>1, <1>0 DEF Delete, Unlocks
<1>9. CASE Unlock(g)
  BY <1>9 DEF Unlock
<1>10. CASE ItemFromType(g)
  <2>1. op[g].ty \in Types
    BY <1>10, <1>a, OpTypes DEF ItemFromType, CallInv
  <2>2. <<"item", tags[op[g].ty]>> \in Answers
    BY <2>1 DEF Answers, TagSet
  <2> QED
    BY <1>10, <2>2 DEF ItemFromType
<1>11. CASE TypeFromNums(g)
  <2>1. \A t \in Types : <<"type", t>> \in Answers
    BY DEF Answers
  <2> QED
    BY <1>11, <2>1, <1>0 DEF TypeFromNums, Present
<1>12. CASE CopyEntry(g)
  <2>1. PICK t \in todo[g] : /\ acc' = [acc EXCEPT ![g] = [@ EXCEPT ![t] = Kept(op[g].mode, tags, t)]]
                             /\ todo' = [todo EXCEPT ![g] = @ \ {t}]
    BY <1>12 DEF CopyEntry
  <2>2. t \in Types /\ Kept(op[g].mode, tags, t) \in Items \cup {NoItem}
    BY DEF Kept, TagSet
  <2>3. [acc[g] EXCEPT ![t] = Kept(op[g].mode, tags, t)] \in TagSet
    BY <2>2 DEF TagSet
  <2>4. acc' \in [Routines -> TagSet]
    BY <2>1, <2>3
  <2> QED
    BY <1>12, <2>1, <2>4 DEF CopyEntry
<1>13. CASE CopyEnd(g)
  <2>1. <<"set", acc[g]>> \in Answers
    BY DEF Answers
  <2> QED
    BY <1>13, <2>1 DEF CopyEnd
<1>14. CASE RUnlock(g)
  BY <1>14 DEF RUnlock
<1>15. CASE Leave(g)
  <2>1. None \in TagSet
    BY DEF None, TagSet
  <2> QED
    BY <1>15, <2>1, <1>0 DEF Leave
<1> QED
  BY <1>1, <1>2, <1>3, <1>4, <1>5, <1>6, <1>7, <1>8, <1>9, <1>10, <1>11, <1>12, <1>13, <1>14,
     <1>15 DEF Runs

LEMMA LockStep == TypeOK /\ LockInv /\ CallInv /\ Next => LockInv'
<1> SUFFICES ASSUME TypeOK, LockInv, CallInv, Next PROVE LockInv'
  OBVIOUS
<1> USE NoOneAssumption DEF TypeOK, LockInv, GoTo, Writing, Reading
<1> PICK g \in Routines : (\E o \in Ops : Start(g, o)) \/ Claim(g) \/ RLock(g) \/ Runs(g)
  BY DEF Next
<1>1. ASSUME NEW o \in Ops, Start(g, o) PROVE LockInv'
  BY <1>1 DEF Start
<1>2. CASE Claim(g)
  BY <1>2 DEF Claim, Free
<1>3. CASE RLock(g)
  <2>1. op[g].kind \in {"item", "type", "copy"}
    BY <1>3, OpTypes DEF RLock, Writes, CallInv
  <2> QED
    BY <1>3, <2>1, OpTypes DEF RLock, Readable
<1>4. CASE Refuse(g)
  BY <1>4 DEF Refuse
<1>5. CASE Lock(g)
  <2>1. pc[g] = "claimed" /\ readers = {} /\ UNCHANGED <<writer, readers>>
    BY <1>5 DEF Lock
  <2>2. PICK l \in {"scan", "delete"} : pc' = [pc EXCEPT ![g] = l]
    BY <1>5 DEF Lock
  <2> QED
    BY <2>1, <2>2
<1>6. CASE Scan(g)
  BY <1>6 DEF Scan, Unlocks
<1>7. CASE Store(g)
  BY <1>7 DEF Store, Unlocks
<1>8. CASE Delete(g)
  BY <1>8 DEF Delete, Unlocks
<1>9. CASE Unlock(g)
  BY <1>9 DEF Unlock
<1>10. CASE ItemFromType(g)
  BY <1>10 DEF ItemFromType
<1>11. CASE TypeFromNums(g)
  BY <1>11 DEF TypeFromNums
<1>12. CASE CopyEntry(g)
  BY <1>12 DEF CopyEntry
<1>13. CASE CopyEnd(g)
  BY <1>13 DEF CopyEnd
<1>14. CASE RUnlock(g)
  BY <1>14 DEF RUnlock
<1>15. CASE Leave(g)
  BY <1>15 DEF Leave
<1> QED
  BY <1>1, <1>2, <1>3, <1>4, <1>5, <1>6, <1>7, <1>8, <1>9, <1>10, <1>11, <1>12, <1>13, <1>14,
     <1>15 DEF Runs

LEMMA CallStep == TypeOK /\ CallInv /\ Next => CallInv'
<1> SUFFICES ASSUME TypeOK, CallInv, Next PROVE CallInv'
  OBVIOUS
<1> USE DEF TypeOK, CallInv, GoTo, Return
<1> PICK g \in Routines : (\E o \in Ops : Start(g, o)) \/ Claim(g) \/ RLock(g) \/ Runs(g)
  BY DEF Next
<1>a. pc[g] # "idle" => op[g] \in Ops
  OBVIOUS
<1>1. ASSUME NEW o \in Ops, Start(g, o) PROVE CallInv'
  <2>1. o # NoOp
    BY OpTypes
  <2> QED
    BY <1>1, <2>1 DEF Start, Refused
<1>2. CASE Claim(g)
  BY <1>2 DEF Claim
<1>3. CASE RLock(g)
  <2>1. op[g].kind \in {"item", "type", "copy"}
    BY <1>3, <1>a, OpTypes DEF RLock, Writes
  <2> QED
    BY <1>3, <2>1 DEF RLock
<1>4. CASE Refuse(g)
  BY <1>4 DEF Refuse
<1>5. CASE Lock(g)
  BY <1>5 DEF Lock, Writes
<1>6. CASE Scan(g)
  BY <1>6 DEF Scan, Unlocks
<1>7. CASE Store(g)
  BY <1>7 DEF Store, Unlocks
<1>8. CASE Delete(g)
  BY <1>8 DEF Delete, Unlocks
<1>9. CASE Unlock(g)
  BY <1>9 DEF Unlock
<1>10. CASE ItemFromType(g)
  BY <1>10 DEF ItemFromType
<1>11. CASE TypeFromNums(g)
  BY <1>11 DEF TypeFromNums
<1>12. CASE CopyEntry(g)
  BY <1>12 DEF CopyEntry
<1>13. CASE CopyEnd(g)
  BY <1>13 DEF CopyEnd
<1>14. CASE RUnlock(g)
  BY <1>14 DEF RUnlock
<1>15. CASE Leave(g)
  BY <1>15 DEF Leave
<1> QED
  BY <1>1, <1>2, <1>3, <1>4, <1>5, <1>6, <1>7, <1>8, <1>9, <1>10, <1>11, <1>12, <1>13, <1>14,
     <1>15 DEF Runs

\* A goroutine that changes the set is alone in it.
LEMMA Alone ==
  ASSUME TypeOK, LockInv, NEW g \in Routines, pc[g] \in {"scan", "delete"}
  PROVE  \A h \in Routines \ {g} : pc[h] \notin {"scan", "copy"}
BY DEF LockInv, Writing, Reading

LEMMA LoopStep == TypeOK /\ LockInv /\ CallInv /\ LoopInv /\ Next => LoopInv'
<1> SUFFICES ASSUME TypeOK, LockInv, CallInv, LoopInv, Next PROVE LoopInv'
  OBVIOUS
<1> USE DEF TypeOK, LoopInv, GoTo
<1> PICK g \in Routines : (\E o \in Ops : Start(g, o)) \/ Claim(g) \/ RLock(g) \/ Runs(g)
  BY DEF Next
<1>1. ASSUME NEW o \in Ops, Start(g, o) PROVE LoopInv'
  BY <1>1 DEF Start
<1>2. CASE Claim(g)
  BY <1>2 DEF Claim
<1>3. CASE RLock(g)
  <2>1. op[g].kind \in {"item", "type", "copy"}
    BY <1>3, OpTypes DEF RLock, Writes, CallInv
  <2>2. op[g].kind = "copy" =>
          \A t \in Types \ todo'[g] : acc[g][t] = Kept(op[g].mode, tags, t)
    BY <1>3 DEF RLock, Present, Kept, None
  <2> QED
    BY <1>3, <2>1, <2>2 DEF RLock
<1>4. CASE Refuse(g)
  BY <1>4 DEF Refuse
<1>5. CASE Lock(g)
  BY <1>5 DEF Lock, CallInv, Writes
<1>6. CASE Scan(g)
  BY <1>6 DEF Scan, Unlocks
<1>7. CASE Store(g)
  BY <1>7, Alone DEF Store, Unlocks
<1>8. CASE Delete(g)
  BY <1>8, Alone DEF Delete, Unlocks
<1>9. CASE Unlock(g)
  BY <1>9 DEF Unlock
<1>10. CASE ItemFromType(g)
  BY <1>10 DEF ItemFromType
<1>11. CASE TypeFromNums(g)
  BY <1>11 DEF TypeFromNums
<1>12. CASE CopyEntry(g)
  <2>1. PICK t \in todo[g] : /\ acc' = [acc EXCEPT ![g] = [@ EXCEPT ![t] = Kept(op[g].mode, tags, t)]]
                             /\ todo' = [todo EXCEPT ![g] = @ \ {t}]
    BY <1>12 DEF CopyEntry
  <2>2. acc'[g] = [acc[g] EXCEPT ![t] = Kept(op[g].mode, tags, t)] /\ acc[g] \in TagSet
    BY <2>1
  <2>3. \A u \in Types \ todo'[g] : acc'[g][u] = Kept(op[g].mode, tags, u)
    BY <1>12, <2>1, <2>2 DEF CopyEntry, TagSet
  <2> QED
    BY <1>12, <2>1, <2>3 DEF CopyEntry
<1>13. CASE CopyEnd(g)
  BY <1>13 DEF CopyEnd
<1>14. CASE RUnlock(g)
  BY <1>14 DEF RUnlock
<1>15. CASE Leave(g)
  BY <1>15 DEF Leave
<1> QED
  BY <1>1, <1>2, <1>3, <1>4, <1>5, <1>6, <1>7, <1>8, <1>9, <1>10, <1>11, <1>12, <1>13, <1>14,
     <1>15 DEF Runs

\* Only Store and Delete change the set.
LEMMA SetStep ==
  ASSUME TypeOK, Next
  PROVE  \/ UNCHANGED tags
         \/ \E g \in Routines : Store(g) \/ Delete(g)
BY DEF Next, Runs, Start, Claim, RLock, Refuse, Lock, Scan, Unlock, ItemFromType, TypeFromNums,
       CopyEntry, CopyEnd, RUnlock, Leave

LEMMA UniqueStep == IInv /\ Next => NumsUnique'
<1> SUFFICES ASSUME IInv, Next PROVE NumsUnique'
  OBVIOUS
<1> USE DEF IInv
<1>1. CASE UNCHANGED tags
  BY <1>1 DEF NumsUnique, Present
<1>2. ASSUME NEW g \in Routines, Store(g) PROVE NumsUnique'
  <2> DEFINE ty == op[g].ty
             item == op[g].item
  <2>1. pc[g] = "scan" /\ todo[g] = {} /\ tags' = [tags EXCEPT ![ty] = item]
    BY <1>2 DEF Store
  <2>2. \A u \in Present(tags) : u # ty /\ tags[u].nums # item.nums
    BY <2>1 DEF LoopInv, InTheWay
  <2>3. Acceptable(ty, item) /\ tags \in TagSet
    BY <2>1 DEF CallInv, TypeOK
  <2>4. /\ Present(tags') \subseteq Present(tags) \cup {ty}
        /\ \A u \in Present(tags) : tags'[u] = tags[u]
        /\ ty \in Present(tags') => tags'[ty] = item
    BY <2>1, <2>2, <2>3 DEF Present, TagSet
  <2> HIDE DEF ty, item
  <2>5. \A t \in Present(tags') : Acceptable(t, tags'[t])
    BY <2>2, <2>3, <2>4 DEF NumsUnique
  <2>6. \A t, u \in Present(tags') : tags'[t].nums = tags'[u].nums => t = u
    BY <2>2, <2>4 DEF NumsUnique
  <2> QED
    BY <2>5, <2>6 DEF NumsUnique, Acceptable
<1>3. ASSUME NEW g \in Routines, Delete(g) PROVE NumsUnique'
  <2>1. tags' = [tags EXCEPT ![op[g].ty] = NoItem] /\ tags \in TagSet
    BY <1>3 DEF Delete, TypeOK
  <2>2. Present(tags') \subseteq Present(tags) /\ \A t \in Present(tags') : tags'[t] = tags[t]
    BY <2>1 DEF Present, TagSet
  <2> QED
    BY <2>2 DEF NumsUnique
<1> QED
  BY <1>1, <1>2, <1>3, SetStep

LEMMA InvStep == IInv /\ [Next]_vars => IInv'
<1> SUFFICES ASSUME IInv, [Next]_vars PROVE IInv'
  OBVIOUS
<1>1. CASE Next
  BY <1>1, TypeStep, LockStep, CallStep, LoopStep, UniqueStep DEF IInv
<1>2. CASE UNCHANGED vars
  BY <1>2 DEF vars, IInv, TypeOK, LockInv, CallInv, LoopInv, NumsUnique, Present
<1> QED
  BY <1>1, <1>2

LEMMA Invariance == Spec => []IInv
BY InitHolds, InvStep, PTL DEF Spec

\* The variables keep their types, whatever goroutines call.
THEOREM TypeCorrect == Spec => []TypeOK
BY Invariance, PTL DEF IInv

\* No two types ever share tag numbers, however many goroutines add and remove.
THEOREM NumbersUnique == Spec => []NumsUnique
BY Invariance, PTL DEF IInv

(***************************************************************************)
(* Every step is one of the registry's or none.                            *)
(***************************************************************************)
LEMMA SameOperators ==
  /\ Registry!None = None
  /\ \A set : Registry!Present(set) = Present(set)
  /\ \A t, item : Registry!Acceptable(t, item) <=> Acceptable(t, item)
  /\ \A set, u, t, item : Registry!InTheWay(set, u, t, item) <=> InTheWay(set, u, t, item)
  /\ \A mode, set, t : Registry!Kept(mode, set, t) = Kept(mode, set, t)
BY DEF Registry!None, None, Registry!Present, Present, Registry!Acceptable, Acceptable,
       Registry!Reserved, Reserved, Registry!InTheWay, InTheWay, Registry!Kept, Kept,
       Registry!Keeps, Keeps

LEMMA InitRefines == Init => Registry!Init
  BY SameOperators DEF Init, Registry!Init

LEMMA StepRefines == IInv /\ Next => Registry!Next \/ UNCHANGED Registry!vars
<1> SUFFICES ASSUME IInv, Next PROVE Registry!Next \/ UNCHANGED Registry!vars
  OBVIOUS
<1> USE DEF IInv, Registry!vars, Registry!Answer, Registry!Pending, Return
<1> PICK g \in Routines : (\E o \in Ops : Start(g, o)) \/ Claim(g) \/ RLock(g) \/ Runs(g)
  BY DEF Next
<1>0. pc[g] # "idle" <=> op[g] # NoOp
  BY DEF CallInv
<1>1. ASSUME NEW o \in Ops, Start(g, o) PROVE Registry!Call(g)
  BY <1>1, <1>0 DEF Start, Registry!Call
<1>2. CASE Claim(g)
  BY <1>2 DEF Claim
<1>3. CASE RLock(g)
  BY <1>3 DEF RLock
<1>4. CASE Refuse(g)
  <2>1. Registry!AddFails(g)
    BY <1>4, <1>0, SameOperators DEF Refuse, CallInv, Registry!AddFails, Registry!Hindered
  <2> QED
    BY <2>1 DEF Registry!Next
<1>5. CASE Lock(g)
  BY <1>5 DEF Lock
<1>6. CASE Scan(g)
  <2>1. PICK u \in todo[g] :
          \/ /\ InTheWay(tags, u, op[g].ty, op[g].item)
             /\ result' = [result EXCEPT ![g] = <<"error">>]
          \/ UNCHANGED result
    BY <1>6 DEF Scan
  <2>2. UNCHANGED <<tags, op>> /\ pc[g] = "scan"
    BY <1>6 DEF Scan
  <2>3. CASE InTheWay(tags, u, op[g].ty, op[g].item) /\ u \in Present(tags)
             /\ result' = [result EXCEPT ![g] = <<"error">>]
    <3>1. Registry!AddFails(g)
      BY <2>2, <2>3, <1>0, SameOperators DEF CallInv, Registry!AddFails, Registry!Hindered
    <3> QED
      BY <3>1 DEF Registry!Next
  <2>4. u \in Present(tags)
    BY <2>2 DEF LoopInv
  <2> QED
    BY <2>1, <2>2, <2>3, <2>4
<1>7. CASE Store(g)
  <2>1. pc[g] = "scan" /\ todo[g] = {}
    BY <1>7 DEF Store
  <2>2. ~Registry!Hindered(op[g])
    BY <2>1, SameOperators DEF LoopInv, CallInv, Registry!Hindered
  <2>3. Registry!Add(g)
    BY <1>7, <1>0, <2>1, <2>2 DEF Store, CallInv, Registry!Add
  <2> QED
    BY <2>3 DEF Registry!Next
<1>8. CASE Delete(g)
  <2>1. Registry!Remove(g)
    BY <1>8, <1>0 DEF Delete, CallInv, Registry!Remove
  <2> QED
    BY <2>1 DEF Registry!Next
<1>9. CASE Unlock(g)
  BY <1>9 DEF Unlock
<1>10. CASE ItemFromType(g)
  <2>1. Registry!ItemFromType(g)
    BY <1>10, <1>0 DEF ItemFromType, CallInv, Registry!ItemFromType
  <2> QED
    BY <2>1 DEF Registry!Next
<1>11. CASE TypeFromNums(g)
  <2>1. Registry!TypeFromNums(g)
    BY <1>11, <1>0, SameOperators DEF TypeFromNums, CallInv, Registry!TypeFromNums
  <2> QED
    BY <2>1 DEF Registry!Next
<1>12. CASE CopyEntry(g)
  BY <1>12 DEF CopyEntry
<1>13. CASE CopyEnd(g)
  <2>1. pc[g] = "copy" /\ todo[g] = {} /\ acc[g] \in TagSet
    BY <1>13 DEF CopyEnd, TypeOK
  <2>2. acc[g] = [t \in Types |-> Kept(op[g].mode, tags, t)]
    BY <2>1 DEF LoopInv, TagSet
  <2>3. acc[g] = [t \in Types |-> Registry!Kept(op[g].mode, tags, t)]
    BY <2>2, SameOperators
  <2>4. Registry!Copy(g)
    BY <1>13, <1>0, <2>1, <2>3 DEF CopyEnd, CallInv, Registry!Copy
  <2> QED
    BY <2>4 DEF Registry!Next
<1>14. CASE RUnlock(g)
  BY <1>14 DEF RUnlock
<1>15. CASE Leave(g)
  <2>1. Registry!Return(g)
    BY <1>15 DEF Leave, Registry!Return
  <2> QED
    BY <2>1 DEF Registry!Next
<1> QED
  BY <1>1, <1>2, <1>3, <1>4, <1>5, <1>6, <1>7, <1>8, <1>9, <1>10, <1>11, <1>12, <1>13, <1>14,
     <1>15 DEF Runs, Registry!Next

\* Every call of a shared TagSet takes effect at one moment, as if it were alone.
THEOREM SetIsRegistry == Spec => RefinesRegistry
<1>1. IInv /\ [Next]_vars => [Registry!Next]_(Registry!vars)
  BY StepRefines DEF vars, Registry!vars
<1> QED
  BY <1>1, InitRefines, Invariance, PTL DEF Spec, RefinesRegistry, Registry!Spec
=============================================================================
