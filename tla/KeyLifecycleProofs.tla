------------------------- MODULE KeyLifecycleProofs -------------------------
(* What follows from KeyLifecycle, and so from whatever implements it.     *)
EXTENDS KeyLifecycle, TLAPS

IInv == TypeOK /\ Rightful

LEMMA IssueStep ==
  ASSUME IInv, NEW c \in Clients, Issue(c)
  PROVE  IInv'
<1>1. /\ owner' \in Seq(Clients)
      /\ Len(owner') = Len(owner) + 1
      /\ \A n \in DOMAIN owner : owner'[n] = owner[n]
  BY DEF IInv, TypeOK, Issue
<1>2. DOMAIN owner' = DOMAIN owner \cup {Len(owner) + 1}
  <2>1. DOMAIN owner = 1..Len(owner) /\ DOMAIN owner' = 1..Len(owner') /\ Len(owner) \in Nat
    BY <1>1 DEF IInv, TypeOK
  <2> QED BY <2>1, <1>1
<1>3. TypeOK'
  BY <1>1, <1>2 DEF IInv, TypeOK, Issue
<1>4. Rightful'
  BY <1>1 DEF IInv, TypeOK, Rightful, Issue
<1> QED BY <1>3, <1>4 DEF IInv

LEMMA OtherSteps ==
  ASSUME IInv, NEW c \in Clients, NEW n \in DOMAIN owner,
         Show(c, n) \/ Hide(c) \/ Revoke(n) \/ Learn(c, n) \/ Forget(c)
  PROVE  IInv'
<1>1. CASE Show(c, n)
  BY <1>1 DEF IInv, TypeOK, Rightful, Show
<1>2. CASE Hide(c)
  BY <1>2 DEF IInv, TypeOK, Rightful, Hide
<1>3. CASE Revoke(n)
  <2>1. \A d \in Clients : shown[d] = n => owner[n] = d
    BY DEF IInv, TypeOK, Rightful
  <2> QED BY <1>3, <2>1 DEF IInv, TypeOK, Rightful, Revoke
<1>4. CASE Learn(c, n)
  BY <1>4 DEF IInv, TypeOK, Rightful, Learn
<1>5. CASE Forget(c)
  BY <1>5 DEF IInv, TypeOK, Rightful, Forget
<1> QED BY <1>1, <1>2, <1>3, <1>4, <1>5

\* A key the service shows or a client holds is its own, and no revoked key
\* is shown.
THEOREM Lifelong == Spec => []Rightful
<1>1. Init => IInv
  BY DEF Init, IInv, TypeOK, Rightful
<1>2. IInv /\ [Next]_vars => IInv'
  <2> SUFFICES ASSUME IInv, [Next]_vars PROVE IInv'
    OBVIOUS
  <2>1. CASE \E c \in Clients : Issue(c)
    BY <2>1, IssueStep
  <2>2. CASE \E c \in Clients : Hide(c) \/ Forget(c)
    <3>1. PICK c \in Clients : Hide(c) \/ Forget(c)
      BY <2>2
    <3>2. CASE Hide(c)
      BY <3>2 DEF IInv, TypeOK, Rightful, Hide
    <3>3. CASE Forget(c)
      BY <3>3 DEF IInv, TypeOK, Rightful, Forget
    <3> QED BY <3>1, <3>2, <3>3
  <2>3. CASE \E n \in DOMAIN owner :
               Revoke(n) \/ \E c \in Clients : Show(c, n) \/ Learn(c, n)
    <3>1. PICK n \in DOMAIN owner :
               Revoke(n) \/ \E c \in Clients : Show(c, n) \/ Learn(c, n)
      BY <2>3
    <3>2. owner[n] \in Clients
      BY DEF IInv, TypeOK
    <3> QED BY <3>1, <3>2, OtherSteps
  <2>4. CASE HideAll
    BY <2>4 DEF HideAll, IInv, TypeOK, Rightful
  <2>5. CASE UNCHANGED vars
    BY <2>5 DEF vars, IInv, TypeOK, Rightful
  <2> QED BY <2>1, <2>2, <2>3, <2>4, <2>5 DEF Next
<1>3. IInv => Rightful
  BY DEF IInv
<1> QED BY <1>1, <1>2, <1>3, PTL DEF Spec
=============================================================================
