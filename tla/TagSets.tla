------------------------------ MODULE TagSets ------------------------------
(***************************************************************************)
(* syncTagSet of internal/bech32/cbor/tag.go, used by several goroutines:  *)
(* Add and Remove under the lock, the two lookups and the copying of       *)
(* EncModeWithTags and DecModeWithTags under the read lock.  The loops of  *)
(* Add and of the copies are taken entry by entry; that of                 *)
(* getTypeFromTagNum, which ends at the first match, is one step between   *)
(* taking the read lock and giving it up.                                  *)
(***************************************************************************)
EXTENDS TagItems, FiniteSets

CONSTANT NoOne

ASSUME NoOneAssumption == NoOne \notin Routines

VARIABLES
  tags,     \* syncTagSet.t
  writer,   \* RWMutex: who has locked it or is the next to
  readers,  \* and who has read-locked it
  pc, op,   \* for each goroutine where it is, and in which call
  todo,     \* the entries that its loop has not visited
  acc,      \* the copy it makes
  result    \* what its call returns

vars == <<tags, writer, readers, pc, op, todo, acc, result>>

Init ==
  /\ tags = None
  /\ writer = NoOne /\ readers = {}
  /\ pc = [g \in Routines |-> "idle"]
  /\ op = [g \in Routines |-> NoOp]
  /\ todo = [g \in Routines |-> {}]
  /\ acc = [g \in Routines |-> None]
  /\ result = [g \in Routines |-> <<"none">>]

GoTo(g, label) == pc' = [pc EXCEPT ![g] = label]
Return(g, r) == result' = [result EXCEPT ![g] = r]

\* Faulty: Remove read-locks.
OnlyAddWrites(o) == o.kind = "add"

Writes(o) == o.kind \in {"add", "remove"}

\* newTagItem comes before the lock.
Refused(o) == o.kind = "add" /\ ~Acceptable(o.ty, o.item)

Start(g, o) ==
  /\ pc[g] = "idle"
  /\ op' = [op EXCEPT ![g] = o]
  /\ GoTo(g, IF Refused(o) THEN "refused" ELSE "want")
  /\ UNCHANGED <<tags, writer, readers, todo, acc, result>>

Refuse(g) ==
  /\ pc[g] = "refused"
  /\ Return(g, <<"error">>)
  /\ GoTo(g, "return")
  /\ UNCHANGED <<tags, writer, readers, op, todo, acc>>

\* The caller has the answer; the call's variables are gone.
Leave(g) ==
  /\ pc[g] = "return"
  /\ GoTo(g, "idle")
  /\ op' = [op EXCEPT ![g] = NoOp]
  /\ todo' = [todo EXCEPT ![g] = {}]
  /\ acc' = [acc EXCEPT ![g] = None]
  /\ Return(g, <<"none">>)
  /\ UNCHANGED <<tags, writer, readers>>

(***************************************************************************)
(* Add and Remove.                                                         *)
(***************************************************************************)
\* Faulty: the set is not locked.
NotLocked == TRUE

\* RWMutex.Lock: it waits for other writers, keeps new readers out and waits
\* for those inside.
Free == writer = NoOne

Claim(g) ==
  /\ pc[g] = "want" /\ Writes(op[g]) /\ Free
  /\ writer' = g
  /\ GoTo(g, "claimed")
  /\ UNCHANGED <<tags, readers, op, todo, acc, result>>

Lock(g) ==
  /\ pc[g] = "claimed" /\ readers = {}
  /\ GoTo(g, IF op[g].kind = "add" THEN "scan" ELSE "delete")
  /\ todo' = [todo EXCEPT ![g] = IF op[g].kind = "add" THEN Present(tags) ELSE {}]
  /\ UNCHANGED <<tags, writer, readers, op, acc, result>>

\* Faulty: a call that fails does not unlock.
StaysLocked(g) == GoTo(g, "return")

\* The deferred call of Unlock comes next.
Unlocks(g) == GoTo(g, "unlock")

Scan(g) ==
  /\ pc[g] = "scan"
  /\ \E u \in todo[g] :
       IF InTheWay(tags, u, op[g].ty, op[g].item)
       THEN Return(g, <<"error">>) /\ Unlocks(g) /\ UNCHANGED todo
       ELSE todo' = [todo EXCEPT ![g] = @ \ {u}] /\ UNCHANGED <<pc, result>>
  /\ UNCHANGED <<tags, writer, readers, op, acc>>

Store(g) ==
  /\ pc[g] = "scan" /\ todo[g] = {}
  /\ tags' = [tags EXCEPT ![op[g].ty] = op[g].item]
  /\ Return(g, <<"nil">>)
  /\ Unlocks(g)
  /\ UNCHANGED <<writer, readers, op, todo, acc>>

Delete(g) ==
  /\ pc[g] = "delete"
  /\ tags' = [tags EXCEPT ![op[g].ty] = NoItem]
  /\ Return(g, <<"nil">>)
  /\ Unlocks(g)
  /\ UNCHANGED <<writer, readers, op, todo, acc>>

Unlock(g) ==
  /\ pc[g] = "unlock"
  /\ writer' = NoOne
  /\ GoTo(g, "return")
  /\ UNCHANGED <<tags, readers, op, todo, acc, result>>

(***************************************************************************)
(* Lookups and copies.                                                     *)
(***************************************************************************)
\* Faulty: a reader does not wait.
NotWaiting == TRUE

Readable == writer = NoOne

RLock(g) ==
  /\ pc[g] = "want" /\ ~Writes(op[g]) /\ Readable
  /\ readers' = readers \cup {g}
  /\ GoTo(g, op[g].kind)
  /\ todo' = [todo EXCEPT ![g] = IF op[g].kind = "copy" THEN Present(tags) ELSE {}]
  /\ UNCHANGED <<tags, writer, op, acc, result>>

\* syncTagSet.getTagItemFromType.
ItemFromType(g) ==
  /\ pc[g] = "item"
  /\ Return(g, <<"item", tags[op[g].ty]>>)
  /\ GoTo(g, "runlock")
  /\ UNCHANGED <<tags, writer, readers, op, todo, acc>>

\* syncTagSet.getTypeFromTagNum: any type with these numbers.
TypeFromNums(g) ==
  /\ pc[g] = "type"
  /\ \/ \E t \in Present(tags) : tags[t].nums = op[g].nums /\ Return(g, <<"type", t>>)
     \/ (\A t \in Present(tags) : tags[t].nums # op[g].nums) /\ Return(g, <<"type">>)
  /\ GoTo(g, "runlock")
  /\ UNCHANGED <<tags, writer, readers, op, todo, acc>>

\* EncModeWithTags and DecModeWithTags: one entry, and the end of the loop.
CopyEntry(g) ==
  /\ pc[g] = "copy"
  /\ \E t \in todo[g] :
       /\ acc' = [acc EXCEPT ![g] = [@ EXCEPT ![t] = Kept(op[g].mode, tags, t)]]
       /\ todo' = [todo EXCEPT ![g] = @ \ {t}]
  /\ UNCHANGED <<tags, writer, readers, pc, op, result>>

CopyEnd(g) ==
  /\ pc[g] = "copy" /\ todo[g] = {}
  /\ Return(g, <<"set", acc[g]>>)
  /\ GoTo(g, "runlock")
  /\ UNCHANGED <<tags, writer, readers, op, todo, acc>>

RUnlock(g) ==
  /\ pc[g] = "runlock"
  /\ readers' = readers \ {g}
  /\ GoTo(g, "return")
  /\ UNCHANGED <<tags, writer, op, todo, acc, result>>

Runs(g) ==
  \/ Refuse(g) \/ Lock(g) \/ Scan(g) \/ Store(g) \/ Delete(g) \/ Unlock(g)
  \/ ItemFromType(g) \/ TypeFromNums(g) \/ CopyEntry(g) \/ CopyEnd(g) \/ RUnlock(g)
  \/ Leave(g)

Next ==
  \E g \in Routines : (\E o \in Ops : Start(g, o)) \/ Claim(g) \/ RLock(g) \/ Runs(g)

\* A goroutine goes on until it waits; RWMutex lets nobody wait for ever: its
\* mutex serves the writers in turn, and Unlock lets the waiting readers in.
Fairness ==
  \A g \in Routines : WF_vars(Runs(g)) /\ SF_vars(Claim(g)) /\ SF_vars(RLock(g))

Spec == Init /\ [][Next]_vars
FairSpec == Spec /\ Fairness

(***************************************************************************)
(* Properties.                                                             *)
(***************************************************************************)
Answers ==
  {<<"none">>, <<"error">>, <<"nil">>, <<"type">>} \cup ({"type"} \X Types)
    \cup ({"item"} \X (Items \cup {NoItem})) \cup ({"set"} \X TagSet)

TypeOK ==
  /\ tags \in TagSet
  /\ writer \in Routines \cup {NoOne} /\ readers \subseteq Routines
  /\ pc \in [Routines -> {"idle", "refused", "want", "claimed", "scan", "delete", "unlock",
                          "item", "type", "copy", "runlock", "return"}]
  /\ op \in [Routines -> Ops \cup {NoOp}]
  /\ todo \in [Routines -> SUBSET Types]
  /\ acc \in [Routines -> TagSet]
  /\ result \in [Routines -> Answers]

\* Whatever goroutines register and remove, no two types have the same tag
\* numbers, so a tag in the data means one type; and no type is registered
\* whose first number is one that the codec itself gives a meaning.
NumsUnique ==
  \A t, u \in Present(tags) :
    /\ tags[t].nums = tags[u].nums => t = u
    /\ Acceptable(t, tags[t])

\* What a TagSet promises: every call takes effect at one moment.
Registry == INSTANCE TagRegistry
RefinesRegistry == Registry!Spec

\* Every call returns, the one that fails as well: nobody leaves the set locked.
EveryCallReturns == \A g \in Routines : pc[g] = "want" ~> pc[g] = "idle"
=============================================================================
