------------------------------- MODULE Filter -------------------------------
(***************************************************************************)
(* Filters over references, src/src/collections/filters/classes.ts: byRef  *)
(* gives a FilterRef, on which byRef goes a reference further and          *)
(* byProperty gives a FilterProperty, whose methods make conditions.       *)
(*                                                                         *)
(* A FilterRef and a FilterProperty hold a chain of references, of which   *)
(* the first is a copy of their own and the others are shared; byRef and   *)
(* every condition write into the chain.  The model numbers the references *)
(* as they are made, so that what is shared in the code is shared here.    *)
(***************************************************************************)
EXTENDS Naturals, Sequences

CONSTANTS
  Links,          \* the reference properties to follow
  MaxReferences,  \* bound: the references that are made
  MaxConditions   \* bound: the conditions that are made

ASSUME FilterAssumption == MaxReferences \in Nat /\ MaxConditions \in Nat

VARIABLES
  linkOn,      \* linkOn[i]: the property that reference i follows
  target,      \* target[i]: the reference i goes on to, Leaf, or 0 if undefined
  refs,        \* the FilterRefs: the first reference of each, and what it is for
  properties,  \* the FilterPropertys, in the same way
  conditions   \* the conditions: by which FilterProperty, and its path

filterVars == <<linkOn, target, refs, properties, conditions>>

Leaf == MaxReferences + 1   \* the target is a property

FilterInit ==
  /\ linkOn = <<>> /\ target = <<>>
  /\ refs = <<>> /\ properties = <<>> /\ conditions = <<>>

-----------------------------------------------------------------------------
New == Len(linkOn) + 1
MayMake(n) == Len(linkOn) + n <= MaxReferences

\* The chain from a reference: the loop of targetPath, and resolveTargets.
Chain(next, i) ==
  LET chain[j \in 1..Len(linkOn)] ==
        <<j>> \o (IF next[j] \in 1..MaxReferences THEN chain[next[j]] ELSE <<>>)
  IN  chain[i]

Path(chain) == [k \in DOMAIN chain |-> linkOn[chain[k]]]

\* A FilterRef or FilterProperty: what it is for, and whether its FilterRef was
\* used for another by byRef (both history).
Holder(first, asked, used) == [first |-> first, asked |-> asked, used |-> used]

\* filter.byRef
ByRef(link) ==
  /\ MayMake(1)
  /\ linkOn' = Append(linkOn, link)
  /\ target' = Append(target, 0)
  /\ refs' = Append(refs, Holder(New, <<link>>, FALSE))
  /\ UNCHANGED <<properties, conditions>>

\* byRef of a FilterRef: a new reference becomes the target of the first one,
\* whatever that was, of which the new FilterRef gets a copy.
ByRefOn(r, link) ==
  LET first == refs[r].first
  IN  /\ MayMake(2)
      /\ linkOn' = linkOn \o <<link, linkOn[first]>>
      /\ target' = [target EXCEPT ![first] = New] \o <<0, New>>
      /\ refs' = Append([refs EXCEPT ![r].used = TRUE],
                        Holder(New + 1, Append(refs[r].asked, link), FALSE))
      /\ UNCHANGED <<properties, conditions>>

\* Object.assign({}, this.target)
Copy(i) == New

\* byProperty, byRefCount, byId, byCreationTime and byUpdateTime of a FilterRef.
ByProperty(r) ==
  /\ MayMake(1)
  /\ linkOn' = Append(linkOn, linkOn[refs[r].first])
  /\ target' = Append(target, target[refs[r].first])
  /\ properties' = Append(properties, [refs[r] EXCEPT !.first = Copy(@)])
  /\ UNCHANGED <<refs, conditions>>

\* Mutant: the property is put where the chain begins.
FirstOf(chain) == chain[1]

LastOf(chain) == chain[Len(chain)]

\* equal, isNull, ...: the property becomes the target of the last reference; a
\* chain that ends in a property already is an invalid target reference.
Condition(p) ==
  LET first == properties[p].first
      last == LastOf(Chain(target, first))
  IN  /\ Len(conditions) < MaxConditions
      /\ target' = [target EXCEPT ![last] = Leaf]
      /\ conditions' = Append(conditions,
           [by |-> p,
            path |-> IF target[last] = Leaf THEN <<>> ELSE Path(Chain(target', first))])
      /\ UNCHANGED <<linkOn, refs, properties>>

FilterNext ==
  \/ \E link \in Links : ByRef(link) \/ \E r \in DOMAIN refs : ByRefOn(r, link)
  \/ \E r \in DOMAIN refs : ByProperty(r)
  \/ \E p \in DOMAIN properties : Condition(p)

FilterSpec == FilterInit /\ [][FilterNext]_filterVars

-----------------------------------------------------------------------------
Holders == [first : 1..Len(linkOn), asked : Seq(Links), used : BOOLEAN]

\* Types of the state.
FilterTypeOK ==
  /\ linkOn \in Seq(Links) /\ Len(linkOn) <= MaxReferences
  /\ target \in [1..Len(linkOn) -> 0..Leaf]
  /\ refs \in Seq(Holders) /\ properties \in Seq(Holders)
  /\ conditions \in Seq([by : 1..Len(properties), path : Seq(Links)])

Threw(c) == conditions[c].path = <<>>
MadeBy(c) == properties[conditions[c].by]

\* The links a chain keeps of those asked for: byRef replaces all but the first.
EndsOf(asked) == IF Len(asked) <= 1 THEN asked ELSE <<asked[1], asked[Len(asked)]>>

\* Unless its FilterRef was used for byRef before, a condition that does not
\* throw follows the references asked for, if they are no more than two; of
\* more it follows the first and the last (byRef).
FreshRefsKeepEnds ==
  \A c \in DOMAIN conditions :
    ~Threw(c) /\ ~MadeBy(c).used => conditions[c].path = EndsOf(MadeBy(c).asked)

\* A chain that is shared with others.
SharesChain(p) == properties[p].used \/ Len(properties[p].asked) > 1

\* A condition throws only when its FilterProperty has made one before, or when
\* one was made that may share its chain (targetPath): a FilterRef of a single
\* reference makes as many as one likes.
ThrowsOnlyWhenReused ==
  \A c \in DOMAIN conditions : Threw(c) =>
    \E d \in 1..(c - 1) :
      \/ conditions[d].by = conditions[c].by
      \/ SharesChain(conditions[d].by) /\ SharesChain(conditions[c].by)

\* References that are not used twice give the paths asked for, less the links
\* in their middle, and only those that are used twice throw.
FreshRefsWork == FreshRefsKeepEnds /\ ThrowsOnlyWhenReused

\* What the unit tests ask of a reference: used several times, it makes the
\* conditions that were asked for, each the first of its FilterProperty.
RefsAreReusable ==
  \A c \in DOMAIN conditions :
    (\A d \in 1..(c - 1) : conditions[d].by # conditions[c].by)
      => conditions[c].path = MadeBy(c).asked
=============================================================================
