------------------------------ MODULE TagItems ------------------------------
(***************************************************************************)
(* The items of a set of tags, internal/bech32/cbor/tag.go: Go types and   *)
(* the tag numbers that are registered for them.  A set is a function that *)
(* gives each type its item, or NoItem.  And the calls that are made of a  *)
(* set.                                                                    *)
(***************************************************************************)
EXTENDS Integers, Sequences

CONSTANTS
  Types,    \* the types that are registered, pointers removed
  Named,    \* those with a name and a package that are no interfaces
  BuiltIn,  \* time.Time, big.Int, Tag and RawTag
  Nums,     \* tag numbers: the first one and those nested in it
  NoItem,
  Routines, \* the goroutines that share a set
  Ops,      \* the calls they make
  NoOp

DecTags == {"ignored", "optional", "required"}
EncTags == {"none", "required"}
Items == [nums : Nums, dec : DecTags, enc : EncTags]

ASSUME NoItemAssumption == NoItem \notin Items
ASSUME NumsAssumption == Nums \subseteq Seq(Nat) \ {<<>>}

TagSet == [Types -> Items \cup {NoItem}]

None == [t \in Types |-> NoItem]

AddOps == [kind : {"add"}, ty : Types, item : Items]
RemoveOps == [kind : {"remove"}, ty : Types]
LookupOps == [kind : {"item"}, ty : Types] \cup [kind : {"type"}, nums : Nums]
CopyOps == [kind : {"copy"}, mode : {"enc", "dec"}]

ASSUME OpsAssumption == Ops \subseteq AddOps \cup RemoveOps \cup LookupOps \cup CopyOps
ASSUME NoOpAssumption == NoOp \notin AddOps \cup RemoveOps \cup LookupOps \cup CopyOps

Present(set) == {t \in Types : set[t] # NoItem}

\* The first tag numbers that are taken: dates, big numbers and CBOR itself.
Reserved == {0, 1, 2, 3, 55799}

\* newTagItem.  Of the numbers only the first is looked at: a reserved one may be
\* nested in it.  No call is made with a nil type, which Add refuses at once and
\* on which Remove panics.
Acceptable(t, item) ==
  /\ ~(item.dec = "ignored" /\ item.enc = "none")
  /\ t \in Named \ BuiltIn
  /\ item.nums[1] \notin Reserved

\* The item of u is in the way of one for t.
InTheWay(set, u, t, item) == u = t \/ set[u].nums = item.nums

\* What EncModeWithTags and DecModeWithTags keep.
Keeps(mode, item) == IF mode = "enc" THEN item.enc # "none" ELSE item.dec # "ignored"

Kept(mode, set, t) ==
  IF set[t] # NoItem /\ Keeps(mode, set[t]) THEN set[t] ELSE NoItem
=============================================================================
