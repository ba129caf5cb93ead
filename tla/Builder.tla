------------------------------- MODULE Builder ------------------------------
(***************************************************************************)
(* A builder of the v2 client, src/src/validation/commandBase.ts: with...  *)
(* sets a parameter, do validates and sends, and the errors validation     *)
(* finds are kept for as long as the builder is.  Most builders validate   *)
(* before they look at the errors; those of classifications/scheduler.ts,  *)
(* data/checker.ts and data/deleter.ts look first, and so learn of what is *)
(* missing one do too late.                                                *)
(***************************************************************************)
EXTENDS Naturals

CONSTANTS
  Required,   \* the parameters validate asks for
  MaxDos      \* bound: calls of do

ASSUME MaxDosAssumption == MaxDos \in Nat

VARIABLES
  validatesLate,   \* whether do looks at the errors before it validates
  set,             \* the parameters that are set
  found,          \* those whose absence the errors name
  dos, sent,       \* how many calls of do, and how many sent a request
  incomplete       \* history: how many requests lacked a parameter

builderVars == <<validatesLate, set, found, dos, sent, incomplete>>

BuilderInit ==
  /\ validatesLate \in BOOLEAN
  /\ set = {} /\ found = {}
  /\ dos = 0 /\ sent = 0 /\ incomplete = 0

-----------------------------------------------------------------------------
Missing == Required \ set

With(p) ==
  /\ p \notin set
  /\ set' = set \cup {p}
  /\ UNCHANGED <<validatesLate, found, dos, sent, incomplete>>

\* Mutant: every builder looks only at the errors from before.
OnlyErrorsBefore == found

\* validate adds to the errors there are.
ErrorsAfter == found \cup Missing

\* What do looks at.
ErrorsSeen == IF validatesLate THEN found ELSE ErrorsAfter

\* do: invalid usage.
Refuse ==
  /\ dos < MaxDos /\ dos' = dos + 1
  /\ ErrorsSeen # {}
  /\ found' = ErrorsSeen
  /\ UNCHANGED <<validatesLate, set, sent, incomplete>>

\* do: the request is sent, by a late builder with whatever is set.
SendRequest ==
  /\ dos < MaxDos /\ dos' = dos + 1
  /\ ErrorsSeen = {}
  /\ found' = ErrorsAfter
  /\ sent' = sent + 1
  /\ incomplete' = incomplete + (IF Missing # {} THEN 1 ELSE 0)
  /\ UNCHANGED <<validatesLate, set>>

BuilderNext == Refuse \/ SendRequest \/ \E p \in Required : With(p)

BuilderSpec == BuilderInit /\ [][BuilderNext]_builderVars

-----------------------------------------------------------------------------
\* Types of the state.
BuilderTypeOK ==
  /\ validatesLate \in BOOLEAN
  /\ set \subseteq Required /\ found \subseteq Required
  /\ dos \in 0..MaxDos /\ sent \in 0..dos /\ incomplete \in 0..sent

\* A request that lacks a required parameter is sent once at most by a builder
\* that validates late, and by no other builder.
IncompleteOnce == incomplete <= IF validatesLate THEN 1 ELSE 0

\* A builder that has found an error never sends again, even when everything
\* is set meanwhile: to correct a builder is to make a new one.
NeverCorrected == [][found # {} => sent' = sent]_builderVars
=============================================================================
