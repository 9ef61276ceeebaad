----------------------------- MODULE MCTagSets -----------------------------
EXTENDS TagSets

CONSTANTS T1, T2, Time

MCTypes == {T1, T2, Time}
MCNamed == {T1, T2, Time}
MCBuiltIn == {Time}
MCNums == {<<100>>, <<100, 24>>, <<2>>}

Item(nums, dec, enc) == [nums |-> nums, dec |-> dec, enc |-> enc]
AddOp(t, item) == [kind |-> "add", ty |-> t, item |-> item]

\* Two types for one number, two items for one type, items that a copy for one
\* of the modes leaves out, and what is refused.
MCOps ==
  {AddOp(T1, Item(<<100>>, "required", "none")), AddOp(T2, Item(<<100>>, "ignored", "required")),
   AddOp(T1, Item(<<100, 24>>, "optional", "required")),
   AddOp(T1, Item(<<100>>, "ignored", "none")), AddOp(T2, Item(<<2>>, "required", "required")),
   AddOp(Time, Item(<<100>>, "required", "required")),
   [kind |-> "remove", ty |-> T1], [kind |-> "remove", ty |-> T2],
   [kind |-> "item", ty |-> T1], [kind |-> "type", nums |-> <<100>>],
   [kind |-> "copy", mode |-> "enc"], [kind |-> "copy", mode |-> "dec"]}
=============================================================================
