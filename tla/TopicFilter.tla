----------------------------- MODULE TopicFilter -----------------------------
(***************************************************************************)
(* How class scope decides whether a topic name matches a topic filter:    *)
(* scope::matches_filter, which a broker asks for every subscription, and  *)
(* scope::includes, which the control thread asks for every adapter.       *)
(*                                                                         *)
(* A text is the sequence of its levels, the parts between slashes; the    *)
(* empty string is the one-level text whose level is empty.  A level is a  *)
(* plain name, one of the two wildcards, or a name with a wildcard inside  *)
(* it.  The machine below runs one call, following the loops of the code.  *)
(***************************************************************************)
EXTENDS Naturals, Sequences

CONSTANTS Plain,       \* plain level names, the empty one among them
          Empty,       \* the empty level
          Mixed,       \* levels that hold '#' or '+' beside other characters
          Hash, Plus,  \* the levels "#" and "+"
          MaxLevels,   \* bound: longest text
          MaxFilters   \* bound: longest list of filters in a scope

ASSUME LevelAssumption ==
  /\ Empty \in Plain
  /\ Plain \cap Mixed = {}
  /\ Hash \notin Plain \cup Mixed
  /\ Plus \notin Plain \cup Mixed
  /\ Hash # Plus
ASSUME BoundAssumption == MaxLevels \in Nat /\ MaxFilters \in Nat

Level == Plain \cup Mixed \cup {Hash, Plus}
SeqUpTo(S, n) == UNION {[1..m -> S] : m \in 0..n}
Text == {s \in SeqUpTo(Level, MaxLevels) : s # <<>>}

-----------------------------------------------------------------------------
(* Splitting a text into tokens; the empty sequence means invalid.         *)

tokenize_topic_filter(s) ==
  IF \/ s = <<Empty>>
     \/ \E i \in 1..Len(s) : s[i] = Hash /\ i # Len(s)
     \/ \E i \in 1..Len(s) : s[i] \in Mixed
    THEN <<>>
    ELSE s

tokenize_topic(s) ==
  IF s = <<Empty>> \/ \E i \in 1..Len(s) : s[i] \notin Plain
    THEN <<>>
    ELSE s

\* The three texts the code accepts before it tokenizes are valid anyway.
valid_topic_filter(s) ==
  s \in {<<Hash>>, <<Plus>>, <<Empty, Empty>>} \/ tokenize_topic_filter(s) # <<>>

\* The constructor of scope from a list: it stops at the first "#", and
\* throws invalid_topic_filter if a filter before that is not valid.
GlobalWildcard(list) == \E j \in 1..Len(list) : list[j] = <<Hash>>
Constructs(list) ==
  \A j \in 1..Len(list) :
    \/ tokenize_topic_filter(list[j]) # <<>>
    \/ \E h \in 1..(j - 1) : list[h] = <<Hash>>

-----------------------------------------------------------------------------
VARIABLES
  call,      \* "matches" or "includes"
  filters,   \* the filter of matches_filter, or the scope's list
  topic,     \* the topic name
  pc,        \* "call", then "size", "walk", "tail" of compare_topics, "done"
  n,         \* the filter being compared
  i,         \* the local variable i of compare_topics
  bounds,    \* "left" once a read beyond the end of the filter's tokens has happened
  result     \* what the call returned, or "crash"

vars == <<call, filters, topic, pc, n, i, bounds, result>>

\* A stored subscription's filter has passed valid_topic_filter, an
\* adapter's scope has been constructed; the topic is whatever was published.
Init ==
  /\ \/ call = "matches" /\ filters \in {<<f>> : f \in {s \in Text : valid_topic_filter(s)}}
     \/ call = "includes" /\ filters \in {l \in SeqUpTo(Text, MaxFilters) : Constructs(l)}
  /\ topic \in Text
  /\ pc = "call" /\ n = 1 /\ i = 0 /\ bounds = "kept" /\ result = "none"

Done(r) == pc' = "done" /\ result' = r

\* The early returns of matches_filter.
CallMatches ==
  /\ pc = "call" /\ call = "matches"
  /\ \/ filters[1] = <<Hash>> /\ Done("match")
     \/ /\ filters[1] # <<Hash>>
        /\ IF tokenize_topic_filter(filters[1]) = <<>> \/ tokenize_topic(topic) = <<>>
             THEN Done("no match")
             ELSE pc' = "size" /\ result' = result
  /\ UNCHANGED <<call, filters, topic, n, i, bounds>>

\* The early returns of includes, and an empty list of filters.
CallIncludes ==
  /\ pc = "call" /\ call = "includes"
  /\ \/ GlobalWildcard(filters) /\ Done("match")
     \/ /\ ~GlobalWildcard(filters)
        /\ IF tokenize_topic(topic) = <<>> \/ filters = <<>>
             THEN Done("no match")
             ELSE pc' = "size" /\ result' = result
  /\ UNCHANGED <<call, filters, topic, n, i, bounds>>

\* compare_topics returns r for the n-th filter: includes goes on to the next
\* filter unless it matches.
Compared_Mutant(r) ==
  IF r = "no match" /\ n <= Len(filters)
    THEN pc' = "size" /\ n' = n + 1 /\ result' = result
    ELSE Done(r) /\ n' = n
Compared(r) ==
  IF r = "no match" /\ n < Len(filters)
    THEN pc' = "size" /\ n' = n + 1 /\ result' = result
    ELSE Done(r) /\ n' = n

\* compare_topics, the two tests at its start.
SizeTest_Mutant ==
  /\ pc = "size"
  /\ IF filters[n] = <<Hash>>
       THEN Compared("match") /\ i' = i
       ELSE pc' = "walk" /\ i' = 0 /\ UNCHANGED <<n, result>>
  /\ UNCHANGED <<call, filters, topic, bounds>>
SizeTest ==
  /\ pc = "size"
  /\ IF filters[n] = <<Hash>>
       THEN Compared("match") /\ i' = i
       ELSE IF Len(filters[n]) > Len(topic)
              THEN Compared("no match") /\ i' = i
              ELSE pc' = "walk" /\ i' = 0 /\ UNCHANGED <<n, result>>
  /\ UNCHANGED <<call, filters, topic, bounds>>

\* The i-th tokens are equal, or the filter's is "+".
TokenMatches(f, t, j) == f[j] = t[j] \/ f[j] = Plus

\* compare_topics, one turn of its loop.
Walk_Mutant ==
  /\ pc = "walk"
  /\ IF i < Len(filters[n]) /\ filters[n][i + 1] = topic[i + 1]
       THEN i' = i + 1 /\ pc' = pc
       ELSE pc' = "tail" /\ i' = i
  /\ UNCHANGED <<call, filters, topic, n, bounds, result>>
Walk ==
  /\ pc = "walk"
  /\ IF i < Len(filters[n]) /\ TokenMatches(filters[n], topic, i + 1)
       THEN i' = i + 1 /\ pc' = pc
       ELSE pc' = "tail" /\ i' = i
  /\ UNCHANGED <<call, filters, topic, n, bounds, result>>

\* compare_topics, the test after the loop.
TailTest_Mutant ==
  /\ pc = "tail"
  /\ \/ i >= Len(topic) /\ Compared("match") /\ bounds' = bounds
     \/ /\ i < Len(topic) /\ i + 1 < Len(filters[n])
        /\ Compared(IF filters[n][i + 2] = Hash THEN "match" ELSE "no match")
        /\ bounds' = bounds
     \/ /\ i < Len(topic) /\ i + 1 >= Len(filters[n])
        /\ bounds' = "left"
        /\ \E r \in {"match", "no match", "crash"} : Compared(r)
  /\ UNCHANGED <<call, filters, topic, i>>

\* filter[i] with i the size of the vector reads storage that holds no
\* token: it may hold the remains of one, even of a "#", or no string at all.
TailTest ==
  /\ pc = "tail"
  /\ \/ i >= Len(topic) /\ Compared("match") /\ bounds' = bounds
     \/ /\ i < Len(topic) /\ i < Len(filters[n])
        /\ Compared(IF filters[n][i + 1] = Hash THEN "match" ELSE "no match")
        /\ bounds' = bounds
     \/ /\ i < Len(topic) /\ i >= Len(filters[n])
        /\ bounds' = "left"
        /\ \E r \in {"match", "no match", "crash"} : Compared(r)
  /\ UNCHANGED <<call, filters, topic, i>>

\* The call has returned.
Returned == pc = "done" /\ UNCHANGED vars

Next == CallMatches \/ CallIncludes \/ SizeTest \/ Walk \/ TailTest \/ Returned

Spec == Init /\ [][Next]_vars

-----------------------------------------------------------------------------
(* The reference: the matching rule of the MQTT standard (section 4.7), on *)
(* texts whose first level does not start with '$'.                        *)

AllMatch(f, t, m) == \A j \in 1..m : TokenMatches(f, t, j)

MqttMatches(f, t) ==
  \/ Len(f) = Len(t) /\ AllMatch(f, t, Len(t))
  \/ /\ Len(f) > 0
     /\ f[Len(f)] = Hash
     /\ Len(f) - 1 <= Len(t)
     /\ AllMatch(f, t, Len(f) - 1)

\* Filter f is "t/#", which by the standard names the topic t itself too.
ParentOfHash(f, t) == Len(f) = Len(t) + 1 /\ f[Len(f)] = Hash /\ f # <<Hash>>

\* The answer for a list of filters, with no loops in it.
Answer(list, t) ==
  IF \/ GlobalWildcard(list)
     \/ /\ tokenize_topic(t) # <<>>
        /\ \E j \in 1..Len(list) : MqttMatches(list[j], t) /\ ~ParentOfHash(list[j], t)
    THEN "match"
    ELSE "no match"

\* f is shorter than t and matches it as far as it goes.
StrictPrefix(f, t) == Len(f) < Len(t) /\ AllMatch(f, t, Len(f))

-----------------------------------------------------------------------------
(* Properties.                                                             *)

\* Every variable holds a value of its type; n stays within the list that
\* includes loops over.
TypeOK ==
  /\ call \in {"matches", "includes"}
  /\ filters \in Seq(Seq(Level)) /\ topic \in Seq(Level)
  /\ pc \in {"call", "size", "walk", "tail", "done"}
  /\ n \in Nat /\ (n = 1 \/ n \in 1..Len(filters)) /\ i \in Nat
  /\ bounds \in {"kept", "left"}
  /\ result \in {"none", "match", "no match", "crash"}

(***************************************************************************)
(* The loop of compare_topics iterates over the filter and indexes the     *)
(* topic without a test of its own: because of the comparison of sizes     *)
(* before it, topic[i] always exists.                                      *)
(***************************************************************************)
TopicReadInBounds ==
  pc = "walk" /\ i < Len(filters[n]) => i < Len(topic)

(***************************************************************************)
(* The read of filter[i] after the loop of compare_topics leaves the       *)
(* filter only if that filter is shorter than the topic and matches it as  *)
(* far as it goes.                                                         *)
(***************************************************************************)
PastOnlyForPrefix ==
  bounds = "left" => \E j \in 1..Len(filters) : StrictPrefix(filters[j], topic)

(***************************************************************************)
(* A call that stays within its vectors gives the answer of MQTT's rule    *)
(* for the filters of its list, and true for "#" whatever the topic; false *)
(* for anything else that is no topic name, and for the parent of a "/#".  *)
(* No client receives, and no adapter is handed, a message it did not ask  *)
(* for, and none is kept from those who did, except by that parent.        *)
(***************************************************************************)
AnswerIsExact == pc = "done" /\ bounds = "kept" => result = Answer(filters, topic)

(***************************************************************************)
(* What README.md says of the program, that it supports MQTT: the answer   *)
(* for a valid topic name is the one MQTT's rule gives.                    *)
(***************************************************************************)
AgreesWithMqtt ==
  pc = "done" /\ tokenize_topic(topic) # <<>> =>
    (result = "match" <=> \E j \in 1..Len(filters) : MqttMatches(filters[j], topic))
=============================================================================
