-------------------------- MODULE TopicFilterProofs --------------------------
(***************************************************************************)
(* Proofs about TopicFilter for any set of levels, any length of filters   *)
(* and topics, and any number of filters in a scope.                       *)
(***************************************************************************)
EXTENDS TopicFilter, TLAPS

USE LevelAssumption, BoundAssumption

Comparing == {"size", "walk", "tail"}

\* "#" is the last level of f or no level of it.
HashIsLast(f) == \A j \in 1..Len(f) : f[j] = Hash => j = Len(f)

\* The filter f does not match t, or only as the parent of its "/#".
Differs(f, t) == MqttMatches(f, t) => ParentOfHash(f, t)

\* What the callers and the constructor of scope guarantee.
FiltersValid ==
  /\ call = "matches" => Len(filters) = 1 /\ valid_topic_filter(filters[1])
  /\ call = "includes" => Constructs(filters)

\* While a filter is compared: the topic is a name, all filters are well
\* formed, and none is "#".
ComparingInv ==
  pc \in Comparing =>
    /\ n \in 1..Len(filters)
    /\ tokenize_topic(topic) # <<>>
    /\ \A j \in 1..Len(filters) : HashIsLast(filters[j]) /\ filters[j] # <<Hash>>

\* The loop invariant of compare_topics.
LoopInv ==
  /\ pc \in {"walk", "tail"} =>
       /\ Len(filters[n]) <= Len(topic)
       /\ i <= Len(filters[n])
       /\ AllMatch(filters[n], topic, i)
  /\ pc = "tail" /\ i < Len(filters[n]) => ~TokenMatches(filters[n], topic, i + 1)

\* The loop invariant of includes: the filters before the n-th do not match.
SeenInv ==
  pc \in Comparing /\ bounds = "kept" => \A j \in 1..(n - 1) : Differs(filters[j], topic)

\* includes starts with the first filter.
FirstFilter == pc = "call" => n = 1

\* Before the call returns there is no result, before it compares no read
\* out of bounds.
NoResultYet ==
  /\ pc # "done" => result = "none"
  /\ pc = "call" => bounds = "kept"

TopicInv ==
  /\ TypeOK /\ FiltersValid /\ ComparingInv /\ LoopInv /\ SeenInv /\ NoResultYet /\ FirstFilter
  /\ PastOnlyForPrefix /\ AnswerIsExact

-----------------------------------------------------------------------------
(* The operators.                                                          *)

LEMMA SeqUpToIsSeq == ASSUME NEW S, NEW m \in Nat PROVE SeqUpTo(S, m) \subseteq Seq(S)
  BY DEF SeqUpTo

LEMMA TokensAreWellFormed ==
  ASSUME NEW s \in Seq(Level), tokenize_topic_filter(s) # <<>>
  PROVE  HashIsLast(s)
  BY DEF tokenize_topic_filter, HashIsLast

\* The three texts that valid_topic_filter accepts at once have tokens too.
LEMMA ValidHasTokens ==
  ASSUME NEW s \in Seq(Level), valid_topic_filter(s)
  PROVE  tokenize_topic_filter(s) # <<>>
<1>1. CASE s = <<Hash>>
  BY <1>1 DEF tokenize_topic_filter
<1>2. CASE s = <<Plus>>
  BY <1>2 DEF tokenize_topic_filter
<1>3. CASE s = <<Empty, Empty>>
  BY <1>3 DEF tokenize_topic_filter
<1> QED BY <1>1, <1>2, <1>3 DEF valid_topic_filter

\* A comparison that ends after the topic does is a match.
LEMMA EndOfTopic ==
  ASSUME NEW f \in Seq(Level), NEW t \in Seq(Level), NEW m \in Nat,
         Len(f) <= Len(t), m <= Len(f), m >= Len(t), AllMatch(f, t, m)
  PROVE  MqttMatches(f, t)
  BY DEF MqttMatches

\* A comparison that stops at a "#" is a match ...
LEMMA StopAtHash ==
  ASSUME NEW f \in Seq(Level), NEW t \in Seq(Level), NEW m \in Nat,
         Len(f) <= Len(t), m < Len(f), AllMatch(f, t, m),
         f[m + 1] = Hash, HashIsLast(f)
  PROVE  MqttMatches(f, t)
<1>1. m + 1 = Len(f)
  BY DEF HashIsLast
<1>2. Len(f) - 1 = m /\ Len(f) > 0
  BY <1>1
<1> QED BY <1>1, <1>2 DEF MqttMatches

\* ... and one that stops elsewhere inside both is none.
LEMMA StopElsewhere ==
  ASSUME NEW f \in Seq(Level), NEW t \in Seq(Level), NEW m \in Nat,
         Len(f) <= Len(t), m < Len(f), f[m + 1] # Hash, ~TokenMatches(f, t, m + 1)
  PROVE  ~MqttMatches(f, t)
<1>1. ~(Len(f) = Len(t) /\ AllMatch(f, t, Len(t)))
  BY DEF AllMatch
<1>2. ~(f[Len(f)] = Hash /\ AllMatch(f, t, Len(f) - 1))
  <2> SUFFICES ASSUME f[Len(f)] = Hash, AllMatch(f, t, Len(f) - 1) PROVE FALSE
    OBVIOUS
  <2>1. m + 1 # Len(f)
    OBVIOUS
  <2>2. m + 1 \in 1..(Len(f) - 1)
    BY <2>1
  <2> QED BY <2>2 DEF AllMatch
<1> QED BY <1>1, <1>2 DEF MqttMatches

\* A filter longer than the topic matches at most as the parent of its "/#".
LEMMA LongerDiffers ==
  ASSUME NEW f \in Seq(Level), NEW t \in Seq(Level), Len(f) > Len(t), f # <<Hash>>
  PROVE  Differs(f, t)
  BY DEF Differs, MqttMatches, ParentOfHash

\* What the answer is, by the filters that match and by those that do not.
LEMMA AnswerMatch ==
  ASSUME NEW list, NEW t \in Seq(Level), NEW j \in 1..Len(list), list[j] \in Seq(Level),
         tokenize_topic(t) # <<>>, MqttMatches(list[j], t), Len(list[j]) <= Len(t)
  PROVE  Answer(list, t) = "match"
<1>1. ~ParentOfHash(list[j], t)
  BY DEF ParentOfHash
<1> QED BY <1>1 DEF Answer

LEMMA AnswerNoMatch ==
  ASSUME NEW list, NEW t, ~GlobalWildcard(list),
         tokenize_topic(t) # <<>> => \A j \in 1..Len(list) : Differs(list[j], t)
  PROVE  Answer(list, t) = "no match"
BY DEF Answer, Differs

-----------------------------------------------------------------------------
LEMMA InitTopic == Init => TopicInv
<1> SUFFICES ASSUME Init PROVE TopicInv
    OBVIOUS
<1>1. Text \subseteq Seq(Level)
  BY SeqUpToIsSeq DEF Text
<1>2. filters \in Seq(Seq(Level)) /\ FiltersValid
  <2>1. CASE call = "matches" /\ filters \in {<<f>> : f \in {s \in Text : valid_topic_filter(s)}}
    <3>1. PICK f \in Text : filters = <<f>> /\ valid_topic_filter(f)
      BY <2>1
    <3>2. f \in Seq(Level)
      BY <1>1, <3>1
    <3> QED BY <2>1, <3>1, <3>2 DEF FiltersValid
  <2>2. CASE call = "includes" /\ filters \in {l \in SeqUpTo(Text, MaxFilters) : Constructs(l)}
    <3>1. filters \in Seq(Text)
      BY <2>2, SeqUpToIsSeq
    <3> QED BY <1>1, <2>2, <3>1 DEF FiltersValid
  <2> QED BY <2>1, <2>2 DEF Init
<1>3. TypeOK
  BY <1>1, <1>2 DEF Init, TypeOK
<1>4. ComparingInv /\ LoopInv /\ SeenInv /\ NoResultYet /\ FirstFilter
  BY DEF Init, ComparingInv, LoopInv, SeenInv, NoResultYet, FirstFilter, Comparing
<1>5. PastOnlyForPrefix /\ AnswerIsExact
  BY DEF Init, PastOnlyForPrefix, AnswerIsExact
<1> QED BY <1>2, <1>3, <1>4, <1>5 DEF TopicInv

\* Positions in a list.
LEMMA PositionFacts ==
  ASSUME NEW S, NEW s \in Seq(S), NEW x \in 1..Len(s)
  PROVE  /\ x \in Nat /\ Len(s) \in Nat
         /\ x < Len(s) \/ x = Len(s)
         /\ 1..((x + 1) - 1) = 1..x
         /\ \A j \in 1..x : j = x \/ j \in 1..(x - 1)
         /\ \A j \in 1..(x - 1) : j \in 1..Len(s)
  OBVIOUS

\* A filter was compared and differs: includes goes on, or the call ends.
LEMMA ComparedDiffers ==
  ASSUME TopicInv, pc \in Comparing,
         IF n < Len(filters)
           THEN pc' = "size" /\ n' = n + 1 /\ result' = result
           ELSE pc' = "done" /\ result' = "no match" /\ n' = n,
         UNCHANGED <<call, filters, topic>>, i' \in Nat, bounds' \in {"kept", "left"},
         bounds = "left" => bounds' = "left",
         bounds' = "left" \/ Differs(filters[n], topic),
         bounds' = "left" => \E j \in 1..Len(filters) : StrictPrefix(filters[j], topic)
  PROVE  TopicInv'
<1>1. /\ n \in 1..Len(filters) /\ n \in Nat /\ Len(filters) \in Nat
      /\ n < Len(filters) \/ n = Len(filters)
      /\ 1..((n + 1) - 1) = 1..n
      /\ \A j \in 1..n : j = n \/ j \in 1..(n - 1)
  <2>1. filters \in Seq(Seq(Level)) /\ n \in 1..Len(filters)
    BY DEF TopicInv, TypeOK, ComparingInv
  <2> QED BY <2>1, PositionFacts
<1>0. result = "none"
  BY DEF TopicInv, NoResultYet, FirstFilter, Comparing
<1> USE DEF TopicInv
<1>2. FiltersValid' /\ PastOnlyForPrefix'
  BY DEF FiltersValid, PastOnlyForPrefix, valid_topic_filter
<1>3. bounds' = "kept" => \A j \in 1..n : Differs(filters[j], topic)
  <2>1. bounds' = "kept" => bounds = "kept" /\ Differs(filters[n], topic)
    BY DEF TypeOK
  <2> QED BY <1>1, <2>1, Zenon DEF SeenInv
<1>4. CASE n < Len(filters)
  <2>1. pc' = "size" /\ n' = n + 1 /\ result' = result
    BY <1>4
  <2>2. n' \in 1..Len(filters) /\ 1..(n' - 1) = 1..n
    BY <1>1, <1>4, <2>1
  <2>3. TypeOK'
    BY <1>1, <1>0, <2>1, <2>2 DEF TypeOK
  <2>4. ComparingInv'
    BY <2>2 DEF ComparingInv, HashIsLast, tokenize_topic
  <2>5. LoopInv' /\ NoResultYet' /\ FirstFilter'
    BY <1>0, <2>1 DEF LoopInv, NoResultYet, FirstFilter
  <2>6. SeenInv'
    BY <1>3, <2>2 DEF SeenInv, Differs, MqttMatches, ParentOfHash, AllMatch, TokenMatches
  <2>7. AnswerIsExact'
    BY <2>1 DEF AnswerIsExact
  <2> QED BY <1>2, <2>3, <2>4, <2>5, <2>6, <2>7
<1>5. CASE ~(n < Len(filters))
  <2>1. pc' = "done" /\ result' = "no match" /\ n' = n /\ n = Len(filters)
    BY <1>1, <1>5
  <2>2. TypeOK'
    BY <2>1 DEF TypeOK
  <2>3. ComparingInv' /\ LoopInv' /\ SeenInv' /\ NoResultYet' /\ FirstFilter'
    BY <2>1 DEF ComparingInv, LoopInv, SeenInv, NoResultYet, FirstFilter, Comparing
  <2>4. AnswerIsExact'
    <3>1. ~GlobalWildcard(filters)
      BY DEF ComparingInv, GlobalWildcard
    <3>2. bounds' = "kept" => Answer(filters, topic) = "no match"
      BY <1>3, <2>1, <3>1, AnswerNoMatch
    <3> QED BY <2>1, <3>2, Zenon DEF AnswerIsExact
  <2> QED BY <1>2, <2>2, <2>3, <2>4
<1> QED BY <1>4, <1>5

\* The call returns with r.
LEMMA ReturnsWith ==
  ASSUME TopicInv, NEW r \in {"match", "no match", "crash"},
         pc' = "done", result' = r, n' = n,
         UNCHANGED <<call, filters, topic>>, i' \in Nat, bounds' \in {"kept", "left"},
         bounds' = "left" => \E j \in 1..Len(filters) : StrictPrefix(filters[j], topic),
         bounds' = "kept" => r = Answer(filters, topic)
  PROVE  TopicInv'
<1>1. TypeOK'
  BY DEF TopicInv, TypeOK
<1>2. FiltersValid' /\ PastOnlyForPrefix'
  BY DEF TopicInv, FiltersValid, PastOnlyForPrefix, valid_topic_filter
<1>3. ComparingInv' /\ LoopInv' /\ SeenInv' /\ NoResultYet' /\ FirstFilter'
  BY DEF ComparingInv, LoopInv, SeenInv, NoResultYet, FirstFilter, Comparing
<1>4. AnswerIsExact'
  BY Zenon DEF AnswerIsExact
<1> QED BY <1>1, <1>2, <1>3, <1>4 DEF TopicInv

\* The first filter is about to be compared.
LEMMA StartsComparing ==
  ASSUME TopicInv, pc = "call", pc' = "size", UNCHANGED <<call, filters, topic, n, i, bounds, result>>,
         filters # <<>>, n = 1, tokenize_topic(topic) # <<>>,
         \A j \in 1..Len(filters) : HashIsLast(filters[j]) /\ filters[j] # <<Hash>>
  PROVE  TopicInv'
<1> USE DEF TopicInv
<1>1. TypeOK' /\ FiltersValid' /\ PastOnlyForPrefix'
  BY DEF TypeOK, FiltersValid, PastOnlyForPrefix, valid_topic_filter
<1>2. n \in 1..Len(filters)
  <2>1. filters \in Seq(Seq(Level))
    BY DEF TypeOK
  <2> QED BY <2>1
<1>3. ComparingInv'
  BY <1>2 DEF ComparingInv, HashIsLast, tokenize_topic
<1>4. LoopInv' /\ SeenInv' /\ NoResultYet' /\ FirstFilter'
  BY DEF LoopInv, SeenInv, NoResultYet, FirstFilter
<1>5. AnswerIsExact'
  BY DEF AnswerIsExact
<1> QED BY <1>1, <1>3, <1>4, <1>5

LEMMA StepCall == TopicInv /\ (CallMatches \/ CallIncludes) => TopicInv'
<1> SUFFICES ASSUME TopicInv, CallMatches \/ CallIncludes PROVE TopicInv'
    OBVIOUS
<1>1. /\ pc = "call" /\ bounds = "kept" /\ UNCHANGED <<call, filters, topic, n, i, bounds>>
      /\ filters \in Seq(Seq(Level)) /\ topic \in Seq(Level) /\ i \in Nat
  BY DEF CallMatches, CallIncludes, TopicInv, NoResultYet, FirstFilter, TypeOK
<1>2. GlobalWildcard(filters) => Answer(filters, topic) = "match"
  BY DEF Answer
<1>3. CASE CallMatches
  <2>1. /\ filters[1] \in Seq(Level) /\ Len(filters) = 1
        /\ valid_topic_filter(filters[1])
    <3>1. Len(filters) = 1 /\ valid_topic_filter(filters[1])
      BY <1>3 DEF CallMatches, TopicInv, FiltersValid
    <3>2. 1 \in 1..Len(filters)
      BY <3>1
    <3> QED BY <1>1, <3>1, <3>2
  <2>2. tokenize_topic_filter(filters[1]) # <<>>
    BY <2>1, ValidHasTokens
  <2>3. HashIsLast(filters[1])
    BY <2>1, <2>2, TokensAreWellFormed
  <2>4. CASE filters[1] = <<Hash>>
    <3>1. pc' = "done" /\ result' = "match"
      BY <1>3, <2>4 DEF CallMatches, Done
    <3>2. GlobalWildcard(filters)
      BY <2>1, <2>4 DEF GlobalWildcard
    <3> QED BY <1>1, <1>2, <3>1, <3>2, ReturnsWith
  <2>5. CASE filters[1] # <<Hash>> /\ tokenize_topic(topic) = <<>>
    <3>1. pc' = "done" /\ result' = "no match"
      BY <1>3, <2>5 DEF CallMatches, Done
    <3>2. ~GlobalWildcard(filters)
      BY <2>1, <2>5 DEF GlobalWildcard
    <3>3. Answer(filters, topic) = "no match"
      BY <2>5, <3>2, AnswerNoMatch
    <3> QED BY <1>1, <3>1, <3>3, ReturnsWith
  <2>6. CASE filters[1] # <<Hash>> /\ tokenize_topic(topic) # <<>>
    <3>1. pc' = "size" /\ result' = result
      BY <1>3, <2>2, <2>6 DEF CallMatches
    <3>2. n = 1
      BY <1>1 DEF TopicInv, FirstFilter
    <3>3. filters # <<>>
      BY <2>1
    <3>4. \A j \in 1..Len(filters) : HashIsLast(filters[j]) /\ filters[j] # <<Hash>>
      BY <2>1, <2>3, <2>6
    <3> QED BY <1>1, <2>6, <3>1, <3>2, <3>3, <3>4, StartsComparing
  <2> QED BY <2>4, <2>5, <2>6
<1>4. CASE CallIncludes
  <2>1. Constructs(filters)
    BY <1>4 DEF CallIncludes, TopicInv, FiltersValid
  <2>2. CASE GlobalWildcard(filters)
    <3>1. pc' = "done" /\ result' = "match"
      BY <1>4, <2>2 DEF CallIncludes, Done
    <3> QED BY <1>1, <1>2, <2>2, <3>1, ReturnsWith
  <2>3. CASE ~GlobalWildcard(filters) /\ (tokenize_topic(topic) = <<>> \/ filters = <<>>)
    <3>1. pc' = "done" /\ result' = "no match"
      BY <1>4, <2>3 DEF CallIncludes, Done
    <3>2. tokenize_topic(topic) # <<>> =>
            \A j \in 1..Len(filters) : Differs(filters[j], topic)
      BY <2>3
    <3>3. Answer(filters, topic) = "no match"
      BY <2>3, <3>2, AnswerNoMatch
    <3> QED BY <1>1, <3>1, <3>3, ReturnsWith
  <2>4. CASE ~GlobalWildcard(filters) /\ tokenize_topic(topic) # <<>> /\ filters # <<>>
    <3>1. pc' = "size" /\ result' = result
      BY <1>4, <2>4 DEF CallIncludes
    <3>2. \A j \in 1..Len(filters) : HashIsLast(filters[j]) /\ filters[j] # <<Hash>>
      <4> TAKE j \in 1..Len(filters)
      <4>1. filters[j] # <<Hash>> /\ filters[j] \in Seq(Level)
        BY <1>1, <2>4 DEF GlobalWildcard
      <4>2. tokenize_topic_filter(filters[j]) # <<>>
        <5>1. \A h \in 1..(j - 1) : filters[h] # <<Hash>>
          BY <1>1, <2>4, PositionFacts DEF GlobalWildcard
        <5> QED BY <2>1, <5>1 DEF Constructs
      <4> QED BY <4>1, <4>2, TokensAreWellFormed
    <3> QED BY <1>1, <2>4, <3>1, <3>2, StartsComparing DEF TopicInv, FirstFilter
  <2> QED BY <2>2, <2>3, <2>4
<1> QED BY <1>3, <1>4

\* The facts about the comparison under way.
LEMMA ComparisonFacts ==
  ASSUME TopicInv, pc \in Comparing
  PROVE  /\ filters \in Seq(Seq(Level)) /\ n \in 1..Len(filters)
         /\ filters[n] \in Seq(Level) /\ topic \in Seq(Level) /\ i \in Nat
         /\ HashIsLast(filters[n]) /\ filters[n] # <<Hash>>
         /\ tokenize_topic(topic) # <<>>
         /\ bounds \in {"kept", "left"} /\ result = "none"
         /\ bounds = "left" => \E j \in 1..Len(filters) : StrictPrefix(filters[j], topic)
<1>1. /\ filters \in Seq(Seq(Level)) /\ n \in 1..Len(filters)
      /\ topic \in Seq(Level) /\ i \in Nat /\ bounds \in {"kept", "left"}
  BY DEF TopicInv, TypeOK, ComparingInv
<1>2. filters[n] \in Seq(Level)
  BY <1>1
<1>3. /\ HashIsLast(filters[n]) /\ filters[n] # <<Hash>> /\ result = "none"
      /\ tokenize_topic(topic) # <<>>
  BY <1>1 DEF TopicInv, ComparingInv, NoResultYet, FirstFilter, Comparing
<1> QED BY <1>1, <1>2, <1>3 DEF TopicInv, PastOnlyForPrefix

LEMMA StepSize == TopicInv /\ SizeTest => TopicInv'
<1> SUFFICES ASSUME TopicInv, SizeTest PROVE TopicInv'
    OBVIOUS
<1>1. pc \in Comparing /\ pc = "size" /\ UNCHANGED <<call, filters, topic, bounds>>
  BY DEF SizeTest, Comparing
<1>2. /\ filters[n] \in Seq(Level) /\ topic \in Seq(Level) /\ i \in Nat
      /\ filters[n] # <<Hash>> /\ result = "none" /\ n \in 1..Len(filters)
      /\ bounds \in {"kept", "left"}
      /\ bounds = "left" => \E j \in 1..Len(filters) : StrictPrefix(filters[j], topic)
  BY <1>1, ComparisonFacts
<1>3. CASE Len(filters[n]) > Len(topic)
  <2>1. Compared("no match") /\ i' = i
    BY <1>2, <1>3 DEF SizeTest
  <2>2. IF n < Len(filters)
          THEN pc' = "size" /\ n' = n + 1 /\ result' = result
          ELSE pc' = "done" /\ result' = "no match" /\ n' = n
    BY <2>1 DEF Compared, Done
  <2>3. Differs(filters[n], topic)
    BY <1>2, <1>3, LongerDiffers
  <2>4. i' \in Nat /\ bounds' = bounds
    BY <1>1, <1>2, <2>1
  <2> HIDE <2>1
  <2> QED BY <1>1, <1>2, <2>2, <2>3, <2>4, ComparedDiffers
<1>4. CASE ~(Len(filters[n]) > Len(topic))
  <2>1. pc' = "walk" /\ i' = 0 /\ UNCHANGED <<n, result>>
    BY <1>2, <1>4 DEF SizeTest
  <2> USE DEF TopicInv
  <2>2. TypeOK' /\ FiltersValid' /\ PastOnlyForPrefix'
    BY <1>1, <2>1 DEF TypeOK, FiltersValid, PastOnlyForPrefix, valid_topic_filter
  <2>3. ComparingInv' /\ SeenInv' /\ NoResultYet' /\ FirstFilter'
    BY <1>1, <1>2, <2>1 DEF ComparingInv, SeenInv, NoResultYet, FirstFilter, Comparing, HashIsLast,
                      Differs, MqttMatches, ParentOfHash, AllMatch, TokenMatches,
                      tokenize_topic
  <2>4. LoopInv'
    BY <1>1, <1>2, <1>4, <2>1 DEF LoopInv, AllMatch
  <2>5. AnswerIsExact'
    BY <2>1 DEF AnswerIsExact
  <2> QED BY <2>2, <2>3, <2>4, <2>5
<1> QED BY <1>3, <1>4

LEMMA StepWalk == TopicInv /\ Walk => TopicInv'
<1> SUFFICES ASSUME TopicInv, Walk PROVE TopicInv'
    OBVIOUS
<1>1. /\ pc \in Comparing /\ pc = "walk"
      /\ UNCHANGED <<call, filters, topic, n, bounds, result>>
  BY DEF Walk, Comparing
<1>2. /\ filters[n] \in Seq(Level) /\ topic \in Seq(Level) /\ i \in Nat
      /\ result = "none" /\ n \in 1..Len(filters)
  BY <1>1, ComparisonFacts
<1>3. pc' \in {"walk", "tail"} /\ i' \in Nat
  BY <1>1, <1>2 DEF Walk
<1> USE DEF TopicInv
<1>4. TypeOK' /\ FiltersValid' /\ PastOnlyForPrefix'
  BY <1>1, <1>3 DEF TypeOK, FiltersValid, PastOnlyForPrefix, valid_topic_filter
<1>5. ComparingInv' /\ SeenInv' /\ NoResultYet' /\ FirstFilter'
  BY <1>1, <1>2, <1>3 DEF ComparingInv, SeenInv, NoResultYet, FirstFilter, Comparing,
                          HashIsLast, Differs, MqttMatches, ParentOfHash, AllMatch, TokenMatches,
                          tokenize_topic
<1>6. LoopInv'
  <2> DEFINE f == filters[n]
  <2>1. Len(f) <= Len(topic) /\ i <= Len(f) /\ AllMatch(f, topic, i)
    BY <1>1 DEF LoopInv
  <2>2. CASE i < Len(f) /\ TokenMatches(f, topic, i + 1)
    <3>1. i' = i + 1 /\ pc' = "walk"
      BY <1>1, <2>2 DEF Walk
    <3>2. AllMatch(f, topic, i + 1)
      <4>1. \A j \in 1..(i + 1) : j \in 1..i \/ j = i + 1
        BY <1>2
      <4> QED BY <2>1, <2>2, <4>1 DEF AllMatch
    <3>3. i + 1 <= Len(f)
      BY <1>2, <2>2
    <3> QED BY <1>1, <2>1, <3>1, <3>2, <3>3 DEF LoopInv, AllMatch, TokenMatches
  <2>3. CASE ~(i < Len(f) /\ TokenMatches(f, topic, i + 1))
    <3>1. i' = i /\ pc' = "tail"
      BY <2>3 DEF Walk
    <3> QED BY <1>1, <2>1, <2>3, <3>1 DEF LoopInv, AllMatch, TokenMatches
  <2> QED BY <2>2, <2>3
<1>7. AnswerIsExact'
  BY <1>3 DEF AnswerIsExact
<1> QED BY <1>4, <1>5, <1>6, <1>7

LEMMA StepTail == TopicInv /\ TailTest => TopicInv'
<1> SUFFICES ASSUME TopicInv, TailTest PROVE TopicInv'
    OBVIOUS
<1>1. pc \in Comparing /\ pc = "tail" /\ UNCHANGED <<call, filters, topic, i>>
  BY DEF TailTest, Comparing
<1>2. /\ filters[n] \in Seq(Level) /\ topic \in Seq(Level) /\ i \in Nat
      /\ HashIsLast(filters[n]) /\ n \in 1..Len(filters)
      /\ tokenize_topic(topic) # <<>>
      /\ bounds \in {"kept", "left"}
      /\ bounds = "left" => \E j \in 1..Len(filters) : StrictPrefix(filters[j], topic)
  BY <1>1, ComparisonFacts
<1>3. /\ Len(filters[n]) <= Len(topic) /\ i <= Len(filters[n])
      /\ AllMatch(filters[n], topic, i)
      /\ i < Len(filters[n]) => ~TokenMatches(filters[n], topic, i + 1)
  BY <1>1 DEF TopicInv, LoopInv
<1>4. ASSUME NEW r \in {"match", "crash"}, Compared(r) PROVE pc' = "done" /\ result' = r /\ n' = n
  BY <1>4 DEF Compared, Done
<1>5. ASSUME Compared("no match")
      PROVE  IF n < Len(filters)
               THEN pc' = "size" /\ n' = n + 1 /\ result' = result
               ELSE pc' = "done" /\ result' = "no match" /\ n' = n
  BY <1>5 DEF Compared, Done
<1>6. CASE MqttMatches(filters[n], topic) /\ bounds' = bounds /\ Compared("match")
  <2>1. pc' = "done" /\ result' = "match" /\ n' = n
    BY <1>4, <1>6
  <2>2. Answer(filters, topic) = "match"
    BY <1>2, <1>3, <1>6, AnswerMatch
  <2> QED BY <1>1, <1>2, <1>6, <2>1, <2>2, ReturnsWith
<1>7. CASE ~MqttMatches(filters[n], topic) /\ bounds' = bounds /\ Compared("no match")
  <2>1. Differs(filters[n], topic)
    BY <1>7 DEF Differs
  <2> QED BY <1>1, <1>2, <1>5, <1>7, <2>1, ComparedDiffers
<1>8. CASE /\ i < Len(topic) /\ i >= Len(filters[n]) /\ bounds' = "left"
           /\ \E r \in {"match", "no match", "crash"} : Compared(r)
  <2>0. i < Len(topic) /\ i >= Len(filters[n])
    BY <1>8, Zenon
  <2>1. i = Len(filters[n])
    BY <1>2, <1>3, <2>0
  <2>2. \E j \in 1..Len(filters) : StrictPrefix(filters[j], topic)
    BY <1>2, <1>3, <2>0, <2>1 DEF StrictPrefix
  <2>3. CASE Compared("no match")
    BY <1>1, <1>2, <1>5, <1>8, <2>2, <2>3, ComparedDiffers
  <2>4. ASSUME NEW r \in {"match", "crash"}, Compared(r) PROVE TopicInv'
    <3>1. pc' = "done" /\ result' = r /\ n' = n
      BY <1>4, <2>4
    <3> QED BY <1>1, <1>2, <1>8, <2>2, <3>1, ReturnsWith
  <2> QED BY <1>8, <2>3, <2>4
<1>9. CASE i >= Len(topic) /\ Compared("match") /\ bounds' = bounds
  <2>1. MqttMatches(filters[n], topic)
    BY <1>2, <1>3, <1>9, EndOfTopic
  <2> QED BY <1>6, <1>9, <2>1
<1>10. CASE /\ i < Len(topic) /\ i < Len(filters[n]) /\ bounds' = bounds
            /\ Compared(IF filters[n][i + 1] = Hash THEN "match" ELSE "no match")
  <2>1. CASE filters[n][i + 1] = Hash
    <3>1. MqttMatches(filters[n], topic)
      BY <1>2, <1>3, <1>10, <2>1, StopAtHash
    <3> QED BY <1>6, <1>10, <2>1, <3>1
  <2>2. CASE filters[n][i + 1] # Hash
    <3>1. ~MqttMatches(filters[n], topic)
      BY <1>2, <1>3, <1>10, <2>2, StopElsewhere
    <3> QED BY <1>7, <1>10, <2>2, <3>1
  <2> QED BY <2>1, <2>2
<1> QED BY <1>8, <1>9, <1>10 DEF TailTest

-----------------------------------------------------------------------------
(***************************************************************************)
(* The invariants of the two loops, the one of compare_topics over the     *)
(* levels and the one of includes over the filters, hold throughout.       *)
(***************************************************************************)
THEOREM TopicInvariant == Spec => []TopicInv
<1>1. TopicInv /\ [Next]_vars => TopicInv'
  <2> SUFFICES ASSUME TopicInv, [Next]_vars PROVE TopicInv'
    OBVIOUS
  <2>1. CASE UNCHANGED vars
    <3> USE <2>1 DEF vars, TopicInv
    <3>1. TypeOK' /\ FiltersValid' /\ PastOnlyForPrefix'
      BY DEF TypeOK, FiltersValid, PastOnlyForPrefix, valid_topic_filter
    <3>2. ComparingInv' /\ LoopInv' /\ NoResultYet' /\ FirstFilter'
      BY DEF ComparingInv, LoopInv, NoResultYet, FirstFilter, HashIsLast, AllMatch,
             TokenMatches, tokenize_topic
    <3>3. SeenInv'
      BY DEF SeenInv, Differs, MqttMatches, ParentOfHash, AllMatch, TokenMatches
    <3>4. AnswerIsExact'
      BY Zenon DEF AnswerIsExact
    <3> QED BY <3>1, <3>2, <3>3, <3>4
  <2> QED BY <2>1, StepCall, StepSize, StepWalk, StepTail DEF Next, Returned
<1> QED BY <1>1, InitTopic, PTL DEF Spec

\* Every variable keeps its type, and includes stays within its list.
THEOREM TopicTypeCorrect == Spec => []TypeOK
<1>1. TopicInv => TypeOK
  BY DEF TopicInv
<1> QED BY <1>1, TopicInvariant, PTL

\* compare_topics never reads beyond the topic, whatever the two lengths.
THEOREM TopicReads == Spec => []TopicReadInBounds
<1>1. TopicInv => TopicReadInBounds
  <2> SUFFICES ASSUME TopicInv, pc = "walk", i < Len(filters[n]) PROVE i < Len(topic)
    BY DEF TopicReadInBounds
  <2>1. /\ filters[n] \in Seq(Level) /\ topic \in Seq(Level) /\ i \in Nat
        /\ Len(filters[n]) <= Len(topic)
    BY ComparisonFacts DEF Comparing, TopicInv, LoopInv
  <2> QED BY <2>1
<1> QED BY <1>1, TopicInvariant, PTL

(***************************************************************************)
(* compare_topics reads beyond the filter for strict prefixes only.        *)
(***************************************************************************)
THEOREM ReadsPastPrefix == Spec => []PastOnlyForPrefix
<1>1. TopicInv => PastOnlyForPrefix
  BY DEF TopicInv
<1> QED BY <1>1, TopicInvariant, PTL

(***************************************************************************)
(* With no such read the answer is the one of MQTT's rule, with "t/#" not  *)
(* matching t as the only exception, for texts and scopes of any length.   *)
(***************************************************************************)
THEOREM AnswersExact == Spec => []AnswerIsExact
<1>1. TopicInv => AnswerIsExact
  BY DEF TopicInv
<1> QED BY <1>1, TopicInvariant, PTL
=============================================================================
