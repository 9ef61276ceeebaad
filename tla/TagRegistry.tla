---------------------------- MODULE TagRegistry ----------------------------
(***************************************************************************)
(* What a TagSet promises ("safe for concurrency"): every call takes       *)
(* effect at one moment between its beginning and its end, as if there     *)
(* were no other.                                                          *)
(***************************************************************************)
EXTENDS TagItems

VARIABLES
  tags,   \* the set
  op,     \* for each goroutine the call it is in
  result  \* and what that call returns

vars == <<tags, op, result>>

Init ==
  /\ tags = None
  /\ op = [g \in Routines |-> NoOp]
  /\ result = [g \in Routines |-> <<"none">>]

Call(g) ==
  /\ op[g] = NoOp
  /\ \E o \in Ops : op' = [op EXCEPT ![g] = o]
  /\ UNCHANGED <<tags, result>>

Return(g) ==
  /\ op' = [op EXCEPT ![g] = NoOp]
  /\ result' = [result EXCEPT ![g] = <<"none">>]
  /\ UNCHANGED tags

Pending(g, kind) == op[g] # NoOp /\ op[g].kind = kind /\ result[g] = <<"none">>

Answer(g, r) == result' = [result EXCEPT ![g] = r] /\ UNCHANGED op

\* What hinders an item: itself, or what the set holds.
Hindered(o) ==
  ~Acceptable(o.ty, o.item) \/ \E u \in Present(tags) : InTheWay(tags, u, o.ty, o.item)

Add(g) ==
  /\ Pending(g, "add") /\ ~Hindered(op[g])
  /\ tags' = [tags EXCEPT ![op[g].ty] = op[g].item]
  /\ Answer(g, <<"nil">>)

AddFails(g) ==
  /\ Pending(g, "add") /\ Hindered(op[g])
  /\ Answer(g, <<"error">>)
  /\ UNCHANGED tags

Remove(g) ==
  /\ Pending(g, "remove")
  /\ tags' = [tags EXCEPT ![op[g].ty] = NoItem]
  /\ Answer(g, <<"nil">>)

ItemFromType(g) ==
  /\ Pending(g, "item")
  /\ Answer(g, <<"item", tags[op[g].ty]>>)
  /\ UNCHANGED tags

TypeFromNums(g) ==
  /\ Pending(g, "type")
  /\ \/ \E t \in Present(tags) : tags[t].nums = op[g].nums /\ Answer(g, <<"type", t>>)
     \/ (\A t \in Present(tags) : tags[t].nums # op[g].nums) /\ Answer(g, <<"type">>)
  /\ UNCHANGED tags

Copy(g) ==
  /\ Pending(g, "copy")
  /\ Answer(g, <<"set", [t \in Types |-> Kept(op[g].mode, tags, t)]>>)
  /\ UNCHANGED tags

Next ==
  \E g \in Routines :
    \/ Call(g) \/ Return(g)
    \/ Add(g) \/ AddFails(g) \/ Remove(g) \/ ItemFromType(g) \/ TypeFromNums(g) \/ Copy(g)

Spec == Init /\ [][Next]_vars
=============================================================================
