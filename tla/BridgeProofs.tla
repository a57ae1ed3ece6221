------------------------------ MODULE BridgeProofs ------------------------------
(***************************************************************************)
(* What follows from Bridge, and so holds of whatever implements it.       *)
(***************************************************************************)
EXTENDS Bridge, TLAPS

\* Of the entries that adapter a has passed it has just those due, in order.
GivenShare(a) ==
  /\ \A j \in 1..Len(got[a]) : got[a][j] \in 1..pos[a]
  /\ \A i, j \in 1..Len(got[a]) : i < j => got[a][i] < got[a][j]
  /\ \A i \in 1..pos[a] :
       ForwardedTo(log[i], a) <=> \E j \in 1..Len(got[a]) : got[a][j] = i

(***************************************************************************)
(* Every adapter is given exactly its share of the log, each entry once,   *)
(* none of its own, and in the order in which all adapters shared them.    *)
(***************************************************************************)
ExactShare == \A a \in Adapter : GivenShare(a)

(***************************************************************************)
(* What was shared stays shared and what was given stays given: the log    *)
(* and what each adapter has got only grow, at their ends.                 *)
(***************************************************************************)
OnlyGrows ==
  [][/\ Len(log) <= Len(log') /\ \A i \in 1..Len(log) : log'[i] = log[i]
     /\ \A a \in Adapter :
          /\ pos[a] <= pos'[a]
          /\ Len(got[a]) <= Len(got'[a])
          /\ \A i \in 1..Len(got[a]) : got'[a][i] = got[a][i]]_vars

BridgeType ==
  /\ log \in Seq([origin : Adapter, topic : Topic])
  /\ pos \in [Adapter -> Nat] /\ \A a \in Adapter : pos[a] <= Len(log)
  /\ got \in [Adapter -> Seq(Nat)]

BridgeInv == BridgeType /\ ExactShare

LEMMA AppendFacts ==
  ASSUME NEW S, NEW s \in Seq(S), NEW e \in S
  PROVE  /\ Append(s, e) \in Seq(S)
         /\ Len(s) \in Nat /\ Len(Append(s, e)) = Len(s) + 1
         /\ Append(s, e)[Len(s) + 1] = e
         /\ \A i \in 1..Len(s) : Append(s, e)[i] = s[i]
OBVIOUS

\* Passing an entry that is due.
LEMMA ShareGrows ==
  ASSUME NEW s \in Seq(Nat), NEW p \in Nat,
         \A j \in 1..Len(s) : s[j] \in 1..p,
         \A i, j \in 1..Len(s) : i < j => s[i] < s[j],
         NEW n, n = Append(s, p + 1)
  PROVE  /\ \A j \in 1..Len(n) : n[j] \in 1..(p + 1)
         /\ \A i, j \in 1..Len(n) : i < j => n[i] < n[j]
         /\ \E j \in 1..Len(n) : n[j] = p + 1
         /\ \A i \in 1..p : (\E j \in 1..Len(n) : n[j] = i)
                              <=> \E j \in 1..Len(s) : s[j] = i
<1>1. /\ Len(s) \in Nat /\ Len(n) = Len(s) + 1 /\ n[Len(s) + 1] = p + 1
      /\ \A i \in 1..Len(s) : n[i] = s[i]
  BY AppendFacts
<1>2. \A j \in 1..Len(n) : j = Len(s) + 1 \/ j \in 1..Len(s)
  BY <1>1
<1>3. \A j \in 1..Len(n) : n[j] \in 1..(p + 1)
  BY <1>1, <1>2
<1>4. \A i, j \in 1..Len(n) : i < j => n[i] < n[j]
  <2> SUFFICES ASSUME NEW i \in 1..Len(n), NEW j \in 1..Len(n), i < j
               PROVE  n[i] < n[j]
    OBVIOUS
  <2>1. i \in 1..Len(s) /\ n[i] = s[i] /\ s[i] \in 1..p
    BY <1>1
  <2>2. CASE j = Len(s) + 1
    BY <1>1, <2>1, <2>2
  <2>3. CASE j \in 1..Len(s)
    BY <1>1, <2>1, <2>3
  <2> QED BY <1>2, <2>2, <2>3
<1>5. \E j \in 1..Len(n) : n[j] = p + 1
  BY <1>1
<1>6. ASSUME NEW i \in 1..p
      PROVE  (\E j \in 1..Len(n) : n[j] = i) <=> \E j \in 1..Len(s) : s[j] = i
  BY <1>1, <1>2
<1> QED BY <1>3, <1>4, <1>5, <1>6

LEMMA ShareStep ==
  ASSUME BridgeInv, NEW a \in Adapter, NEW t \in Topic, Share(a, t)
  PROVE  BridgeInv'
<1> DEFINE m == [origin |-> a, topic |-> t]
<1>1. m \in [origin : Adapter, topic : Topic] /\ log' = Append(log, m)
  BY DEF Share
<1> HIDE DEF m
<1>2. /\ log' \in Seq([origin : Adapter, topic : Topic])
      /\ Len(log) \in Nat /\ Len(log') = Len(log) + 1
      /\ \A i \in 1..Len(log) : log'[i] = log[i]
  BY <1>1, AppendFacts DEF BridgeInv, BridgeType
<1>3. UNCHANGED <<pos, got>>
  BY DEF Share
<1>4. BridgeType'
  BY <1>2, <1>3 DEF BridgeInv, BridgeType
<1>5. ExactShare'
  <2> SUFFICES ASSUME NEW b \in Adapter PROVE GivenShare(b)'
    BY DEF ExactShare
  <2>1. GivenShare(b) /\ pos[b] \in Nat /\ pos[b] <= Len(log)
    BY DEF BridgeInv, BridgeType, ExactShare
  <2>2. \A i \in 1..pos[b] : log'[i] = log[i]
    BY <1>2, <2>1
  <2> QED BY <1>3, <2>1, <2>2 DEF GivenShare, ForwardedTo
<1> QED BY <1>4, <1>5 DEF BridgeInv

LEMMA ForwardStep ==
  ASSUME BridgeInv, NEW a \in Adapter, Forward(a)
  PROVE  BridgeInv'
<1>0. /\ pos[a] \in Nat /\ got[a] \in Seq(Nat) /\ Len(log) \in Nat /\ pos[a] < Len(log)
      /\ pos' = [pos EXCEPT ![a] = pos[a] + 1] /\ log' = log
  BY DEF Forward, BridgeInv, BridgeType
<1>1. \A b \in Adapter : b # a => pos'[b] = pos[b] /\ got'[b] = got[b]
  BY DEF Forward, BridgeInv, BridgeType
<1>2. CASE ForwardedTo(log[pos[a] + 1], a)
  <2>1. got' = [got EXCEPT ![a] = Append(got[a], pos[a] + 1)]
    BY <1>2 DEF Forward
  <2>2. got' \in [Adapter -> Seq(Nat)] /\ got'[a] = Append(got[a], pos[a] + 1)
    BY <1>0, <2>1, AppendFacts DEF BridgeInv, BridgeType
  <2>3. BridgeType'
    <3>1. pos' \in [Adapter -> Nat] /\ \A b \in Adapter : pos'[b] <= Len(log)
      BY <1>0 DEF BridgeInv, BridgeType
    <3> QED BY <1>0, <2>2, <3>1 DEF BridgeInv, BridgeType
  <2>4. /\ \A j \in 1..Len(got[a]) : got[a][j] \in 1..pos[a]
        /\ \A i, j \in 1..Len(got[a]) : i < j => got[a][i] < got[a][j]
    BY DEF BridgeInv, ExactShare, GivenShare
  <2>5. /\ \A j \in 1..Len(got'[a]) : got'[a][j] \in 1..(pos[a] + 1)
        /\ \A i, j \in 1..Len(got'[a]) : i < j => got'[a][i] < got'[a][j]
        /\ \E j \in 1..Len(got'[a]) : got'[a][j] = pos[a] + 1
        /\ \A i \in 1..pos[a] : (\E j \in 1..Len(got'[a]) : got'[a][j] = i)
                                  <=> \E j \in 1..Len(got[a]) : got[a][j] = i
    <3> DEFINE s == got[a]
               p == pos[a]
               n == got'[a]
    <3>1. s \in Seq(Nat) /\ p \in Nat /\ n = Append(s, p + 1)
      BY <1>0, <2>2
    <3>2. /\ \A j \in 1..Len(s) : s[j] \in 1..p
          /\ \A i, j \in 1..Len(s) : i < j => s[i] < s[j]
      BY <2>4
    <3> HIDE DEF s, p, n
    <3>3. /\ \A j \in 1..Len(n) : n[j] \in 1..(p + 1)
          /\ \A i, j \in 1..Len(n) : i < j => n[i] < n[j]
          /\ \E j \in 1..Len(n) : n[j] = p + 1
          /\ \A i \in 1..p : (\E j \in 1..Len(n) : n[j] = i)
                               <=> \E j \in 1..Len(s) : s[j] = i
      BY <3>1, <3>2, ShareGrows
    <3> QED BY <3>3 DEF s, p, n
  <2>6. \A i \in 1..(pos[a] + 1) :
          ForwardedTo(log[i], a) <=> \E j \in 1..Len(got'[a]) : got'[a][j] = i
    <3>1. \A i \in 1..(pos[a] + 1) : i = pos[a] + 1 \/ i \in 1..pos[a]
      BY <1>0
    <3> QED BY <1>2, <2>5, <3>1 DEF BridgeInv, ExactShare, GivenShare
  <2>7. pos'[a] = pos[a] + 1
    BY <1>0 DEF BridgeInv, BridgeType
  <2>8. GivenShare(a)'
    BY <1>0, <2>5, <2>6, <2>7 DEF GivenShare, ForwardedTo
  <2>9. \A b \in Adapter : b # a => GivenShare(b)'
    BY <1>0, <1>1 DEF BridgeInv, ExactShare, GivenShare, ForwardedTo
  <2> QED BY <2>3, <2>8, <2>9 DEF BridgeInv, ExactShare
<1>3. CASE ~ForwardedTo(log[pos[a] + 1], a)
  <2>1. got' = got
    BY <1>3 DEF Forward
  <2>2. BridgeType'
    BY <1>0, <2>1 DEF BridgeInv, BridgeType
  <2>3. /\ \A j \in 1..Len(got[a]) : got[a][j] \in 1..pos[a]
        /\ \A i, j \in 1..Len(got[a]) : i < j => got[a][i] < got[a][j]
        /\ \A i \in 1..pos[a] :
             ForwardedTo(log[i], a) <=> \E j \in 1..Len(got[a]) : got[a][j] = i
    BY DEF BridgeInv, ExactShare, GivenShare
  <2>4. \A i \in 1..(pos[a] + 1) :
          ForwardedTo(log[i], a) <=> \E j \in 1..Len(got[a]) : got[a][j] = i
    <3>1. \A i \in 1..(pos[a] + 1) : i = pos[a] + 1 \/ i \in 1..pos[a]
      BY <1>0
    <3>2. \A j \in 1..Len(got[a]) : got[a][j] # pos[a] + 1
      BY <1>0, <2>3
    <3> QED BY <1>3, <2>3, <3>1, <3>2
  <2>5. \A j \in 1..Len(got[a]) : got[a][j] \in 1..(pos[a] + 1)
    BY <1>0, <2>3
  <2>6. pos'[a] = pos[a] + 1
    BY <1>0 DEF BridgeInv, BridgeType
  <2>7. GivenShare(a)'
    BY <1>0, <2>1, <2>3, <2>4, <2>5, <2>6 DEF GivenShare, ForwardedTo
  <2>8. \A b \in Adapter : b # a => GivenShare(b)'
    BY <1>0, <1>1 DEF BridgeInv, ExactShare, GivenShare, ForwardedTo
  <2> QED BY <2>2, <2>7, <2>8 DEF BridgeInv, ExactShare
<1> QED BY <1>2, <1>3

LEMMA BridgeInvariant == Spec => []BridgeInv
<1>1. Init => BridgeInv
  BY DEF Init, BridgeInv, BridgeType, ExactShare, GivenShare
<1>2. BridgeInv /\ [Next]_vars => BridgeInv'
  <2>1. BridgeInv /\ UNCHANGED vars => BridgeInv'
    BY DEF vars, BridgeInv, BridgeType, ExactShare, GivenShare, ForwardedTo
  <2> QED BY <2>1, ShareStep, ForwardStep DEF Next
<1> QED BY <1>1, <1>2, PTL DEF Spec

(***************************************************************************)
(* Bridge gives every adapter its share of the log and nothing else.       *)
(***************************************************************************)
THEOREM SharesExact == Spec => []ExactShare
<1>1. BridgeInv => ExactShare
  BY DEF BridgeInv
<1> QED BY <1>1, BridgeInvariant, PTL

(***************************************************************************)
(* Bridge takes nothing back, and changes the order of nothing.            *)
(***************************************************************************)
THEOREM NothingTakenBack == Spec => OnlyGrows
<1>1. BridgeInv /\ [Next]_vars =>
        /\ Len(log) <= Len(log') /\ \A i \in 1..Len(log) : log'[i] = log[i]
        /\ \A a \in Adapter :
             /\ pos[a] <= pos'[a]
             /\ Len(got[a]) <= Len(got'[a])
             /\ \A i \in 1..Len(got[a]) : got'[a][i] = got[a][i]
  <2> SUFFICES ASSUME BridgeInv, [Next]_vars
               PROVE  /\ Len(log) <= Len(log') /\ \A i \in 1..Len(log) : log'[i] = log[i]
                      /\ \A a \in Adapter :
                           /\ pos[a] <= pos'[a]
                           /\ Len(got[a]) <= Len(got'[a])
                           /\ \A i \in 1..Len(got[a]) : got'[a][i] = got[a][i]
    OBVIOUS
  <2>0. /\ Len(log) \in Nat
        /\ \A a \in Adapter : pos[a] \in Nat /\ got[a] \in Seq(Nat) /\ Len(got[a]) \in Nat
    BY DEF BridgeInv, BridgeType
  <2>1. ASSUME NEW b \in Adapter, NEW t \in Topic, Share(b, t)
        PROVE  /\ UNCHANGED <<pos, got>> /\ Len(log) <= Len(log')
               /\ \A i \in 1..Len(log) : log'[i] = log[i]
    <3> DEFINE m == [origin |-> b, topic |-> t]
    <3>1. m \in [origin : Adapter, topic : Topic] /\ log' = Append(log, m)
      BY <2>1 DEF Share
    <3> HIDE DEF m
    <3> QED BY <2>0, <2>1, <3>1, AppendFacts DEF Share, BridgeInv, BridgeType
  <2>2. ASSUME NEW b \in Adapter, Forward(b), NEW a \in Adapter
        PROVE  /\ UNCHANGED log /\ pos[a] <= pos'[a]
               /\ Len(got[a]) <= Len(got'[a])
               /\ \A i \in 1..Len(got[a]) : got'[a][i] = got[a][i]
    <3>1. pos'[a] = IF a = b THEN pos[a] + 1 ELSE pos[a]
      BY <2>2 DEF Forward, BridgeInv, BridgeType
    <3>2. got'[a] = got[a] \/ got'[a] = Append(got[a], pos[a] + 1)
      BY <2>2 DEF Forward, BridgeInv, BridgeType
    <3>3. pos[a] + 1 \in Nat
      BY <2>0
    <3>4. Len(got[a]) <= Len(got'[a]) /\ \A i \in 1..Len(got[a]) : got'[a][i] = got[a][i]
      BY <2>0, <3>2, <3>3, AppendFacts
    <3> QED BY <2>0, <2>2, <3>1, <3>4 DEF Forward
  <2>3. CASE UNCHANGED vars
    BY <2>0, <2>3 DEF vars
  <2> QED BY <2>0, <2>1, <2>2, <2>3 DEF Next
<1> QED BY <1>1, BridgeInvariant, PTL DEF Spec, OnlyGrows
=============================================================================
