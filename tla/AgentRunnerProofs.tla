-------------------------- MODULE AgentRunnerProofs --------------------------
(* Proofs of the safety properties of AgentRunner for every capacity and   *)
(* every bound.                                                            *)
EXTENDS TranscriptView, RunnerIsConversation, FiniteSetTheorems, SequenceTheorems,
        WellFoundedInduction, TLAPS

(* Appending a typed event: what it does to the length and the elements.   *)
LEMMA AppendEvent ==
  ASSUME NEW s \in Seq(Event), NEW e \in Event
  PROVE  /\ Append(s, e) \in Seq(Event)
         /\ Append(s, e) # <<>>
         /\ Len(s) \in Nat
         /\ Len(Append(s, e)) = Len(s) + 1
         /\ DOMAIN s = 1..Len(s)
         /\ DOMAIN Append(s, e) = 1..(Len(s) + 1)
         /\ \A i \in 1..Len(s) : Append(s, e)[i] = s[i]
         /\ Append(s, e)[Len(s) + 1] = e
         /\ Last(Append(s, e)) = e
BY DEF Last

LEMMA ElementOf ==
  ASSUME NEW S, NEW s \in Seq(S), NEW i \in DOMAIN s
  PROVE  s[i] \in S
OBVIOUS

LEMMA AppendTo ==
  ASSUME NEW S, NEW s \in Seq(S), NEW e \in S
  PROVE  /\ Append(s, e) \in Seq(S)
         /\ Len(s) \in Nat
         /\ DOMAIN s = 1..Len(s)
         /\ DOMAIN Append(s, e) = 1..(Len(s) + 1)
         /\ \A i \in 1..Len(s) : Append(s, e)[i] = s[i]
         /\ Append(s, e)[Len(s) + 1] = e
OBVIOUS

(* A bounded, nonempty set of naturals has a largest element.              *)
LEMMA LargestOf ==
  ASSUME NEW n \in Nat, NEW S \in SUBSET (1..n), S # {}
  PROVE  \E i \in S : \A j \in S : j <= i
<1>. DEFINE Above(i) == {j \in S : i < j}
            T == {Above(i) : i \in S}
<1>1. IsFiniteSet(S)
  <2>1. IsFiniteSet(1..n)
    BY FS_Interval
  <2>2. QED
    BY <2>1, FS_Subset
<1>2. IsWellFoundedOn(StrictSubsetOrdering(S), SUBSET S)
  BY <1>1, FS_FiniteSubsetsOfFinite, FS_StrictSubsetOrderingWellFounded
<1>3. T \subseteq SUBSET S /\ T # {}
  OBVIOUS
<1>4. \E x \in T : \A y \in T : ~(<<y, x>> \in StrictSubsetOrdering(S))
  <2>. HIDE DEF T
  <2>1. QED
    BY <1>2, <1>3, WFMin
<1>5. PICK i \in S : \A j \in S : ~(<<Above(j), Above(i)>> \in StrictSubsetOrdering(S))
  BY <1>4
<1>6. ASSUME NEW j \in S, i < j PROVE FALSE
  <2>1. j \in Above(i) /\ j \notin Above(j)
    BY <1>6
  <2>2. Above(j) \subseteq Above(i)
    <3>1. ASSUME NEW k \in S, j < k PROVE i < k
      <4>1. i \in Nat /\ j \in Nat /\ k \in Nat
        OBVIOUS
      <4>2. QED
        BY <1>6, <3>1, <4>1
    <3>2. QED
      BY <3>1
  <2>3. QED
    BY <1>5, <2>1, <2>2 DEF StrictSubsetOrdering
<1>7. QED
  BY <1>6

(* The id of the last event is a number.                                   *)
LEMMA LastIdType ==
  ASSUME NEW s \in Seq(Event)
  PROVE  LastId(s) \in Nat
<1>1. CASE s = <<>>
  BY <1>1 DEF LastId
<1>2. CASE s # <<>>
  <2>1. Len(s) \in DOMAIN s
    BY <1>2
  <2>2. s[Len(s)] \in Event
    BY <2>1
  <2>3. s[Len(s)].id \in Nat
    BY <2>2 DEF Event
  <2>4. QED
    BY <1>2, <2>3 DEF LastId, Last
<1>3. QED
  BY <1>1, <1>2

LEMMA LastType ==
  ASSUME NEW s \in Seq(Event), s # <<>>
  PROVE  /\ Last(s) \in Event
         /\ Len(s) \in DOMAIN s
         /\ Last(s) = s[Len(s)]
BY DEF Last

(* The errors that a save publishes.                                       *)
LEMMA FailuresType ==
  ASSUME NEW a \in BOOLEAN, NEW b \in BOOLEAN
  PROVE  /\ Failures(a, b) \in Seq(Envelope)
         /\ \A i \in DOMAIN Failures(a, b) : Failures(a, b)[i].type = "error"
         /\ ~a => Failures(a, b) # <<>>
<1>1. Env("error", 0) \in Envelope /\ Env("error", 0).type = "error"
  BY DEF Env, Envelope
<1>. DEFINE err == Env("error", 0)
<1>2. Failures(a, b) \in {<<>>, <<err>>, <<err, err>>} /\ (~a => Failures(a, b) # <<>>)
  <2>1. CASE a /\ b
    BY <2>1 DEF Failures
  <2>2. CASE a /\ ~b
    BY <2>2 DEF Failures
  <2>3. CASE ~a /\ b
    BY <2>3 DEF Failures
  <2>4. CASE ~a /\ ~b
    <3>1. Failures(a, b) = <<err>> \o <<err>>
      BY <2>4 DEF Failures
    <3>2. <<err>> \in Seq(Envelope) /\ Len(<<err>>) = 1 /\ <<err>>[1] = err
      BY <1>1
    <3>. HIDE DEF err
    <3>3. /\ Failures(a, b) \in Seq(Envelope)
          /\ Len(Failures(a, b)) = 2
          /\ Failures(a, b)[1] = err /\ Failures(a, b)[2] = err
      BY <3>1, <3>2
    <3>4. QED
      BY <2>4, <3>3
  <2>5. QED
    BY <2>1, <2>2, <2>3, <2>4
<1>3. <<>> \in Seq(Envelope) /\ <<err>> \in Seq(Envelope) /\ <<err, err>> \in Seq(Envelope)
  BY <1>1
<1>4. \A i \in DOMAIN <<err>> : <<err>>[i].type = "error"
  BY <1>1
<1>5. \A i \in DOMAIN <<err, err>> : <<err, err>>[i].type = "error"
  BY <1>1
<1>6. \A i \in DOMAIN <<>> : <<>>[i].type = "error"
  OBVIOUS
<1>. HIDE DEF err
<1>7. CASE Failures(a, b) = <<>>
  BY <1>2, <1>3, <1>6, <1>7
<1>8. CASE Failures(a, b) = <<err>>
  BY <1>2, <1>3, <1>4, <1>8
<1>9. CASE Failures(a, b) = <<err, err>>
  BY <1>2, <1>3, <1>5, <1>9
<1>10. QED
  BY <1>2, <1>7, <1>8, <1>9

(* A push: the new event at the end of the transcript, the rest untouched; *)
(* storage holds either the new transcript or what it held, and in that    *)
(* case the bus has got an error.                                          *)
LEMMA PushEffect ==
  ASSUME TypeOK, NEW kind \in Kinds, NEW ref \in Nat, Push(kind, ref)
  PROVE  /\ chat' \in Chat /\ disk' \in Chat
         /\ stored' \in BOOLEAN /\ lastUsed' \in BOOLEAN
         /\ nextId' \in Nat \ {0}
         /\ faults' \in 0..MaxFaults
         /\ Len(chat.events) \in Nat
         /\ chat'.events # <<>>
         /\ Len(chat'.events) = Len(chat.events) + 1
         /\ \A i \in 1..Len(chat.events) : chat'.events[i] = chat.events[i]
         /\ Last(chat'.events) = chat'.events[Len(chat.events) + 1]
         /\ Last(chat'.events).kind = kind
         /\ Last(chat'.events).ref = ref
         /\ Last(chat'.events).id = nextId
         /\ disk' = chat' \/ disk' = disk
         /\ bus' \in Seq(Envelope)
         /\ Len(bus) <= Len(bus')
         /\ \A i \in 1..Len(bus) : bus'[i] = bus[i]
         /\ \A i \in (Len(bus) + 1)..Len(bus') : bus'[i].type = "error"
         /\ disk' = chat' \/ Len(bus') > Len(bus)
<1>. DEFINE e == [id |-> nextId, parent |-> ParentOf(chat), kind |-> kind, ref |-> ref]
<1>1. /\ chat \in Chat /\ chat.events \in Seq(Event) /\ nextId \in Nat \ {0}
      /\ disk \in Chat /\ stored \in BOOLEAN /\ lastUsed \in BOOLEAN
      /\ bus \in Seq(Envelope) /\ faults \in 0..MaxFaults
  BY DEF TypeOK, Chat
<1>2. e \in Event
  BY <1>1, LastIdType DEF ParentOf, Event
<1>3. chat' = [events |-> Append(chat.events, e), head |-> nextId]
  BY DEF Push, Pushed
<1>4. chat' \in Chat /\ chat'.events = Append(chat.events, e)
  BY <1>1, <1>2, <1>3, AppendEvent DEF Chat
<1>5. nextId' \in Nat \ {0}
  BY <1>1 DEF Push
<1>6. PICK a \in BOOLEAN, b \in BOOLEAN : Persist(chat', a, b)
  BY DEF Push
<1>7. disk' = (IF a THEN chat' ELSE disk) /\ stored' \in BOOLEAN /\ lastUsed' \in BOOLEAN
  BY <1>1, <1>6 DEF Persist
<1>8. faults' \in 0..MaxFaults
  BY <1>1, <1>6, RunnerAssumption DEF Persist
<1>9. bus' = bus \o Failures(a, b)
  BY <1>6 DEF Persist
<1>10. /\ bus' \in Seq(Envelope)
       /\ Len(bus') = Len(bus) + Len(Failures(a, b))
       /\ \A i \in 1..Len(bus) : bus'[i] = bus[i]
       /\ \A i \in (Len(bus) + 1)..Len(bus') : bus'[i] = Failures(a, b)[i - Len(bus)]
  BY <1>1, <1>9, FailuresType
<1>11. \A i \in (Len(bus) + 1)..Len(bus') : bus'[i].type = "error"
  <2>1. SUFFICES ASSUME NEW i \in (Len(bus) + 1)..Len(bus')
                 PROVE  bus'[i].type = "error"
    OBVIOUS
  <2>2. i - Len(bus) \in DOMAIN Failures(a, b)
    <3>1. /\ Len(bus) \in Nat /\ Len(Failures(a, b)) \in Nat
          /\ DOMAIN Failures(a, b) = 1..Len(Failures(a, b))
      <4>1. Failures(a, b) \in Seq(Envelope)
        BY FailuresType
      <4>2. ASSUME NEW f \in Seq(Envelope)
            PROVE  Len(f) \in Nat /\ DOMAIN f = 1..Len(f)
        OBVIOUS
      <4>3. QED
        BY <1>1, <4>1, <4>2
    <3>2. i \in (Len(bus) + 1)..(Len(bus) + Len(Failures(a, b)))
      BY <1>10, <2>1
    <3>3. QED
      BY <3>1, <3>2
  <2>3. Failures(a, b)[i - Len(bus)].type = "error"
    BY <2>2, FailuresType
  <2>4. bus'[i] = Failures(a, b)[i - Len(bus)]
    BY <1>10, <2>1
  <2>5. QED
    BY <2>3, <2>4
<1>12. ~a => Len(bus') > Len(bus)
  BY <1>1, <1>10, FailuresType
<1>13. Len(bus) <= Len(bus')
  BY <1>1, <1>10, FailuresType
<1>. HIDE DEF e
<1>14. /\ chat'.events # <<>>
       /\ Len(chat.events) \in Nat
       /\ Len(chat'.events) = Len(chat.events) + 1
       /\ \A i \in 1..Len(chat.events) : chat'.events[i] = chat.events[i]
       /\ Last(chat'.events) = chat'.events[Len(chat.events) + 1]
       /\ Last(chat'.events) = e
  BY <1>1, <1>2, <1>4, AppendEvent
<1>15. e.kind = kind /\ e.ref = ref /\ e.id = nextId
  BY DEF e
<1>16. (disk' = chat' \/ disk' = disk) /\ disk' \in Chat
  BY <1>1, <1>4, <1>7
<1>17. disk' = chat' \/ Len(bus') > Len(bus)
  BY <1>7, <1>12
<1>18. QED
  BY <1>4, <1>5, <1>7, <1>8, <1>10, <1>11, <1>13, <1>14, <1>15, <1>16, <1>17

(* Publishing puts the given envelopes at the end of the bus.              *)
LEMMA PublishEffect ==
  ASSUME TypeOK, NEW es \in Seq(Envelope), Publish(es)
  PROVE  /\ bus' \in Seq(Envelope)
         /\ Len(bus) \in Nat /\ Len(es) \in Nat
         /\ Len(bus') = Len(bus) + Len(es)
         /\ \A i \in 1..Len(bus) : bus'[i] = bus[i]
         /\ \A i \in (Len(bus) + 1)..Len(bus') :
                /\ i - Len(bus) \in 1..Len(es)
                /\ bus'[i] = es[i - Len(bus)]
<1>1. bus \in Seq(Envelope) /\ bus' = bus \o es
  BY DEF TypeOK, Publish
<1>2. QED
  BY <1>1

LEMMA EnvType ==
  ASSUME NEW ref \in Nat,
         NEW type \in {"message", "tool", "turnStarted", "turnFinished",
                       "thinking", "error", "shutdown"}
  PROVE  /\ Env(type, ref) \in Envelope
         /\ Env(type, ref).type = type
         /\ Env(type, ref).ref = ref
BY DEF Env, Envelope

LEMMA ChatFields ==
  TypeOK => /\ chat.events \in Seq(Event) /\ disk.events \in Seq(Event)
            /\ Len(chat.events) \in Nat /\ Len(disk.events) \in Nat
            /\ Len(bus) \in Nat /\ DOMAIN bus = 1..Len(bus)
            /\ DOMAIN chat.events = 1..Len(chat.events)
            /\ DOMAIN disk.events = 1..Len(disk.events)
            /\ chat.events # <<>> => Last(chat.events) = chat.events[Len(chat.events)]
            /\ chat.events = <<>> <=> Len(chat.events) = 0
            /\ disk.events = <<>> <=> Len(disk.events) = 0
BY DEF TypeOK, Chat, Last

(* The part of it that is about positions in the transcript.               *)
LEMMA PushShape ==
  ASSUME TypeOK, NEW kind \in Kinds, NEW ref \in Nat, Push(kind, ref)
  PROVE  /\ Len(chat.events) \in Nat
         /\ chat'.events \in Seq(Event)
         /\ DOMAIN chat.events = 1..Len(chat.events)
         /\ DOMAIN chat'.events = 1..(Len(chat.events) + 1)
         /\ \A i \in 1..Len(chat.events) : chat'.events[i] = chat.events[i]
         /\ chat'.events[Len(chat.events) + 1].kind = kind
         /\ chat'.events[Len(chat.events) + 1].ref = ref
         /\ disk' = chat' \/ disk' = disk
<1>1. /\ chat' \in Chat
      /\ Len(chat'.events) = Len(chat.events) + 1
      /\ Last(chat'.events) = chat'.events[Len(chat.events) + 1]
      /\ Last(chat'.events).kind = kind
      /\ Last(chat'.events).ref = ref
      /\ \A i \in 1..Len(chat.events) : chat'.events[i] = chat.events[i]
      /\ disk' = chat' \/ disk' = disk
  BY PushEffect
<1>2. chat'.events \in Seq(Event)
  BY <1>1 DEF Chat
<1>3. Len(chat.events) \in Nat /\ DOMAIN chat.events = 1..Len(chat.events)
  BY ChatFields
<1>4. DOMAIN chat'.events = 1..(Len(chat.events) + 1)
  BY <1>1, <1>2
<1>5. QED
  BY <1>1, <1>2, <1>3, <1>4

-----------------------------------------------------------------------------
(* The initial states *)

LEMMA InitIInv == Init => IInv
<1>. SUFFICES ASSUME Init PROVE IInv
  OBVIOUS
<1>1. NoEvents \in Chat /\ NoEvents.events = <<>>
  BY DEF NoEvents, Chat
<1>2. TypeOK
  <2>1. /\ pc \in {"unborn", "exited", "down"} \cup Receiving
        /\ mailbox \in Seq(0..MaxMessages) /\ bus \in Seq(Envelope)
        /\ handoff \in [sent: BOOLEAN, summary: Nat]
        /\ stored \in BOOLEAN /\ lastUsed \in BOOLEAN
        /\ cuts \in SUBSET Nat
    <3>1. pc \in {"unborn", "exited", "down"} \cup Receiving
      BY DEF Init
    <3>2. mailbox \in Seq(0..MaxMessages) /\ bus \in Seq(Envelope)
      BY DEF Init
    <3>3. handoff \in [sent: BOOLEAN, summary: Nat]
      BY DEF Init
    <3>4. stored \in BOOLEAN /\ lastUsed \in BOOLEAN /\ cuts \in SUBSET Nat
      BY DEF Init
    <3>5. QED
      BY <3>1, <3>2, <3>3, <3>4
  <2>2. /\ calls \in 0..MaxCalls /\ call \in Nat /\ rounds \in 0..MaxRounds
        /\ nextId \in Nat \ {0} /\ sent \in 0..MaxMessages
        /\ crashes \in 0..MaxCrashes /\ faults \in 0..MaxFaults
    BY RunnerAssumption DEF Init
  <2>3. chat \in Chat /\ disk \in Chat
    BY <1>1 DEF Init
  <2>4. QED
    BY <2>1, <2>2, <2>3 DEF TypeOK
<1>3. chat.events = <<>> /\ disk.events = <<>> /\ mailbox = <<>> /\ bus = <<>>
      /\ pc = "unborn" /\ calls = 0
  BY <1>1 DEF Init
<1>4. Standing /\ Counting
  BY <1>3 DEF Standing, Counting, InToolRound
<1>5. Durability
  BY <1>3 DEF Durability, Extends
<1>6. Numbering /\ InOrderOnce
  BY <1>3 DEF Numbering, InOrderOnce, OrderedUsers
<1>7. TurnGrammar /\ Grammatical(disk.events)
  BY <1>3 DEF TurnGrammar, Grammatical
<1>8. ObservedIsDurable
  BY <1>3 DEF ObservedIsDurable
<1>9. QED
  BY <1>2, <1>4, <1>5, <1>6, <1>7, <1>8 DEF IInv

-----------------------------------------------------------------------------
(* What every push preserves *)

(* Storage keeps holding a beginning of the transcript, and more of it     *)
(* than before.                                                            *)
LEMMA PushDurability ==
  ASSUME IInv, pc # "down",
         NEW kind \in Kinds, NEW ref \in Nat, Push(kind, ref)
  PROVE  /\ Extends(chat'.events, disk'.events)
         /\ Extends(disk'.events, disk.events)
         /\ disk'.events = chat'.events \/ \E j \in DOMAIN bus' : bus'[j].type = "error"
<1>1. TypeOK /\ Extends(chat.events, disk.events)
  BY DEF IInv, Durability
<1>2. Extends(chat'.events, chat'.events)
  <2>1. chat'.events \in Seq(Event)
    BY <1>1, PushEffect DEF Chat
  <2>2. QED
    BY <2>1 DEF Extends
<1>3. Extends(chat'.events, chat.events)
  BY <1>1, PushEffect DEF Extends
<1>4. Extends(chat'.events, disk.events) /\ Extends(disk.events, disk.events)
  BY <1>1, <1>3, ChatFields DEF Extends
<1>5. disk' = chat' \/ disk' = disk
  BY <1>1, PushEffect
<1>6. disk' = chat' \/ \E j \in DOMAIN bus' : bus'[j].type = "error"
  <2>1. /\ Len(bus) \in Nat /\ bus' \in Seq(Envelope)
        /\ disk' = chat' \/ Len(bus') > Len(bus)
        /\ \A j \in (Len(bus) + 1)..Len(bus') : bus'[j].type = "error"
    BY <1>1, PushEffect, ChatFields
  <2>2. CASE Len(bus') > Len(bus)
    <3>1. /\ Len(bus') \in DOMAIN bus'
          /\ Len(bus') \in (Len(bus) + 1)..Len(bus')
      BY <2>1, <2>2
    <3>2. QED
      BY <2>1, <3>1
  <2>3. QED
    BY <2>1, <2>2
<1>7. QED
  BY <1>2, <1>4, <1>5, <1>6

(* Observers keep seeing only what is in storage.                          *)
LEMMA PushObserved ==
  ASSUME IInv, pc # "down",
         NEW kind \in Kinds, NEW ref \in Nat, Push(kind, ref)
  PROVE  ObservedIsDurable'
<1>1. TypeOK /\ ObservedIsDurable
  BY DEF IInv
<1>2. Extends(disk'.events, disk.events)
  BY PushDurability
<1>3. SUFFICES ASSUME NEW i \in DOMAIN bus', Announces(bus'[i])
               PROVE  \/ \E k \in DOMAIN disk'.events : disk'.events[k].id = bus'[i].ref
                      \/ \E j \in 1..(i - 1) : bus'[j].type = "error"
  BY DEF ObservedIsDurable, Announces
<1>4. DOMAIN bus' = 1..Len(bus') /\ Len(bus') \in Nat
  BY <1>1, PushEffect
<1>5. i \in DOMAIN bus /\ bus'[i] = bus[i]
  <2>1. bus'[i].type # "error"
    BY <1>3 DEF Announces
  <2>2. QED
    BY <1>1, <1>4, <2>1, PushEffect, ChatFields
<1>6. \A j \in 1..(i - 1) : bus'[j] = bus[j]
  BY <1>1, <1>5, PushEffect, ChatFields
<1>7. CASE \E j \in 1..(i - 1) : bus[j].type = "error"
  BY <1>6, <1>7
<1>8. CASE \E k \in DOMAIN disk.events : disk.events[k].id = bus[i].ref
  <2>1. PICK k \in DOMAIN disk.events : disk.events[k].id = bus[i].ref
    BY <1>8
  <2>2. disk' \in Chat
    BY <1>1, PushEffect
  <2>3. k \in DOMAIN disk'.events /\ disk'.events[k] = disk.events[k]
    <3>1. k \in 1..Len(disk.events) /\ Len(disk.events) \in Nat
      BY <1>1, <2>1, ChatFields
    <3>2. disk'.events \in Seq(Event)
      BY <2>2 DEF Chat
    <3>3. QED
      BY <1>2, <3>1, <3>2 DEF Extends
  <2>4. QED
    BY <1>5, <2>1, <2>3
<1>9. QED
  BY <1>1, <1>3, <1>5, <1>7, <1>8 DEF ObservedIsDurable

(* The transcript and the snapshot stay well formed when the new event may *)
(* follow the last one.                                                    *)
LEMMA PushGrammar ==
  ASSUME IInv, NEW kind \in Kinds, NEW ref \in Nat, Push(kind, ref),
         cuts' = cuts,
         chat.events = <<>> => kind = "user",
         chat.events # <<>> =>
             \/ MayFollow(Last(chat.events), Last(chat'.events))
             \/ kind = "user" /\ Len(chat.events) \in cuts
  PROVE  TurnGrammar' /\ Grammatical(disk.events)'
<1>. DEFINE n == Len(chat.events)
<1>1. /\ TypeOK /\ n \in Nat
      /\ chat'.events \in Seq(Event)
      /\ Len(chat'.events) = n + 1
      /\ \A i \in 1..n : chat'.events[i] = chat.events[i]
      /\ chat'.events[n + 1] = Last(chat'.events)
      /\ chat'.events[n + 1].kind = kind
      /\ disk' = chat' \/ disk' = disk
  BY PushEffect DEF IInv, Chat
<1>2. Grammatical(chat.events) /\ Grammatical(disk.events)
  BY DEF IInv, TurnGrammar
<1>3. chat'.events[1].kind = "user"
  <2>1. CASE n = 0
    BY <1>1, <2>1, ChatFields
  <2>2. CASE n > 0
    BY <1>1, <1>2, <2>2, ChatFields DEF Grammatical
  <2>3. QED
    BY <1>1, <2>1, <2>2
<1>4. ASSUME NEW i \in 1..n
      PROVE  \/ MayFollow(chat'.events[i], chat'.events[i + 1])
             \/ chat'.events[i + 1].kind = "user" /\ i \in cuts
  <2>1. CASE i = n
    <3>1. chat.events # <<>> /\ chat'.events[i] = Last(chat.events)
      BY <1>1, <2>1, ChatFields
    <3>2. QED
      BY <1>1, <2>1, <3>1
  <2>2. CASE i # n
    <3>1. i \in 1..(n - 1) /\ chat'.events[i] = chat.events[i]
          /\ chat'.events[i + 1] = chat.events[i + 1]
      BY <1>1, <2>2
    <3>2. QED
      BY <1>2, <3>1 DEF Grammatical
  <2>3. QED
    BY <2>1, <2>2
<1>5. Grammatical(chat'.events)
  BY <1>1, <1>3, <1>4 DEF Grammatical
<1>6. TurnGrammar'
  BY <1>5 DEF TurnGrammar, Grammatical
<1>7. Grammatical(disk.events)'
  BY <1>1, <1>2, <1>5 DEF Grammatical
<1>8. QED
  BY <1>6, <1>7

(* A push of anything but a user message leaves the numbering alone.       *)
LEMMA PushNumbering ==
  ASSUME IInv, NEW kind \in Kinds \ {"user"}, NEW ref \in Nat, Push(kind, ref),
         UNCHANGED <<mailbox, sent>>, pc \notin {"unborn", "down"},
         pc' \notin {"unborn", "down"}
  PROVE  Numbering' /\ InOrderOnce'
<1>. DEFINE n == Len(chat.events)
<1>1. /\ TypeOK /\ n \in Nat
      /\ chat'.events \in Seq(Event)
      /\ DOMAIN chat.events = 1..n
      /\ DOMAIN chat'.events = 1..(n + 1)
      /\ \A i \in 1..n : chat'.events[i] = chat.events[i]
      /\ chat'.events[n + 1].kind = kind
      /\ disk' = chat' \/ disk' = disk
  <2>1. TypeOK
    BY DEF IInv
  <2>2. QED
    BY <2>1, PushShape
<1>2. Numbering /\ InOrderOnce
  BY DEF IInv
<1>3. \A i \in DOMAIN chat'.events :
         chat'.events[i].kind = "user" =>
             i \in DOMAIN chat.events /\ chat'.events[i] = chat.events[i]
  BY <1>1
<1>4. OrderedUsers(chat'.events)
  BY <1>2, <1>3 DEF OrderedUsers, InOrderOnce
<1>5. OrderedUsers(disk'.events)
  BY <1>1, <1>2, <1>4 DEF Numbering
<1>6. \A i \in DOMAIN chat'.events :
         chat'.events[i].kind = "user" => chat'.events[i].ref <= sent
  BY <1>2, <1>3 DEF Numbering
<1>7. \A i \in DOMAIN disk'.events :
         disk'.events[i].kind = "user" => disk'.events[i].ref <= sent
  BY <1>1, <1>2, <1>6 DEF Numbering
<1>8. InOrderOnce'
  BY <1>2, <1>3, <1>4 DEF InOrderOnce, OrderedUsers
<1>9. Numbering'
  BY <1>2, <1>5, <1>6, <1>7 DEF Numbering, OrderedUsers
<1>10. QED
  BY <1>8, <1>9

(* So does a step that touches neither transcript nor channel.             *)
LEMMA SameNumbering ==
  ASSUME IInv, UNCHANGED <<chat, disk, mailbox, sent>>, pc' \notin {"unborn", "down"}
  PROVE  Numbering' /\ InOrderOnce'
BY DEF IInv, Numbering, InOrderOnce, OrderedUsers

(* Publishing: an announcement of the transcript's last event is backed by *)
(* storage, or preceded by the error that says why not.                    *)
LEMMA PublishKeeps ==
  ASSUME IInv, NEW es \in Seq(Envelope), Publish(es),
         UNCHANGED <<chat, durable, cuts>>, pc # "down",
         \A i \in 1..Len(es) : Announces(es[i]) =>
             chat.events # <<>> /\ es[i].ref = Last(chat.events).id
  PROVE  Durability' /\ ObservedIsDurable' /\ TurnGrammar' /\ Grammatical(disk.events)'
<1>. DEFINE n == Len(bus)
<1>1. /\ TypeOK /\ n \in Nat /\ Len(es) \in Nat
      /\ bus' \in Seq(Envelope) /\ DOMAIN bus = 1..n
      /\ Len(bus') = n + Len(es) /\ DOMAIN bus' = 1..(n + Len(es))
      /\ \A i \in 1..n : bus'[i] = bus[i]
      /\ \A i \in (n + 1)..Len(bus') :
             i - n \in 1..Len(es) /\ bus'[i] = es[i - n]
  BY PublishEffect, ChatFields DEF IInv
<1>2. TurnGrammar' /\ Grammatical(disk.events)'
  BY DEF IInv, TurnGrammar, Grammatical, durable
<1>3. Extends(chat.events, disk.events)
  BY DEF IInv, Durability
<1>4. disk.events = chat.events \/ \E j \in 1..n : bus[j].type = "error"
  BY <1>1 DEF IInv, Durability
<1>5. Durability'
  BY <1>1, <1>3, <1>4 DEF Durability, Extends, durable
<1>6. ASSUME NEW i \in 1..Len(bus'), Announces(bus'[i])
      PROVE  \/ \E k \in DOMAIN disk.events : disk.events[k].id = bus'[i].ref
             \/ \E j \in 1..(i - 1) : bus'[j].type = "error"
  <2>1. CASE i <= n
    <3>1. i \in DOMAIN bus /\ bus'[i] = bus[i] /\ \A j \in 1..(i - 1) : bus'[j] = bus[j]
      BY <1>1, <2>1
    <3>2. \/ \E k \in DOMAIN disk.events : disk.events[k].id = bus[i].ref
          \/ \E j \in 1..(i - 1) : bus[j].type = "error"
      BY <1>6, <3>1 DEF IInv, ObservedIsDurable
    <3>3. QED
      BY <3>1, <3>2
  <2>2. CASE i > n
    <3>1. chat.events # <<>> /\ bus'[i].ref = Last(chat.events).id
      BY <1>1, <1>6, <2>2
    <3>2. CASE disk.events = chat.events
      <4>1. /\ Len(chat.events) \in DOMAIN disk.events
            /\ disk.events[Len(chat.events)] = Last(chat.events)
        BY <1>1, <3>1, <3>2, ChatFields
      <4>2. QED
        BY <3>1, <4>1
    <3>3. CASE \E j \in 1..n : bus[j].type = "error"
      BY <1>1, <2>2, <3>3
    <3>4. QED
      BY <1>4, <3>2, <3>3
  <2>3. QED
    BY <1>1, <2>1, <2>2
<1>7. ObservedIsDurable'
  BY <1>1, <1>6 DEF ObservedIsDurable, Announces, durable
<1>8. QED
  BY <1>2, <1>5, <1>7

(* A save whose failure nobody is told of.                                 *)
LEMMA SaveQuietlyEffect ==
  ASSUME TypeOK, NEW c \in Chat, NEW ok \in BOOLEAN, SaveQuietly(c, ok)
  PROVE  /\ disk' = c \/ disk' = disk
         /\ disk' \in Chat
         /\ stored' \in BOOLEAN
         /\ faults' \in 0..MaxFaults
BY RunnerAssumption DEF TypeOK, SaveQuietly

-----------------------------------------------------------------------------
(* Every action preserves the invariant: the pushes *)

LEMMA RecvUserKeeps == IInv /\ RecvUser => IInv'
<1>. SUFFICES ASSUME IInv, RecvUser PROVE IInv'
  OBVIOUS
<1>. DEFINE n == Len(chat.events)
            m == Head(mailbox)
<1>1. /\ TypeOK /\ Standing /\ Numbering /\ InOrderOnce
      /\ pc = "recv" /\ pc' = "accepted"
      /\ mailbox # <<>> /\ m # Shutdown /\ mailbox' = Tail(mailbox)
      /\ Push("user", m)
      /\ UNCHANGED <<calls, call, rounds, handoff, sent, cuts, crashes>>
  BY DEF IInv, RecvUser, Listening, Ready, TakeOne
<1>2. /\ mailbox \in Seq(0..MaxMessages) /\ m \in 1..MaxMessages /\ m \in Nat
      /\ mailbox' \in Seq(0..MaxMessages)
      /\ DOMAIN mailbox' = 1..(Len(mailbox) - 1)
      /\ 1 \in DOMAIN mailbox /\ m = mailbox[1]
      /\ \A j \in DOMAIN mailbox' : j + 1 \in DOMAIN mailbox /\ 1 < j + 1
                                  /\ mailbox'[j] = mailbox[j + 1]
  BY <1>1, RunnerAssumption DEF TypeOK, Shutdown
<1>3. "user" \in Kinds
  BY DEF Kinds
<1>4. /\ n \in Nat
      /\ chat'.events \in Seq(Event)
      /\ chat'.events # <<>>
      /\ DOMAIN chat.events = 1..n
      /\ DOMAIN chat'.events = 1..(n + 1)
      /\ \A i \in 1..n : chat'.events[i] = chat.events[i]
      /\ Last(chat'.events) = chat'.events[n + 1]
      /\ chat'.events[n + 1].kind = "user"
      /\ chat'.events[n + 1].ref = m
      /\ disk' = chat' \/ disk' = disk
  <2>. HIDE DEF m
  <2>1. chat'.events # <<>> /\ Last(chat'.events) = chat'.events[Len(chat.events) + 1]
    BY <1>1, <1>2, <1>3, PushEffect
  <2>2. QED
    BY <1>1, <1>2, <1>3, <2>1, PushShape
<1>5. TypeOK'
  BY <1>1, <1>2, <1>3, PushEffect DEF TypeOK, Receiving
<1>6. Standing'
  BY <1>1, <1>4 DEF Standing
<1>7. Counting'
  BY <1>1 DEF Counting, InToolRound
<1>8. Durability'
  BY <1>1, <1>2, <1>3, PushDurability DEF Durability
<1>9. Numbering' /\ InOrderOnce'
  <2>. HIDE DEF m
  <2>1. \A i \in DOMAIN chat.events : chat.events[i].kind = "user" => chat.events[i].ref < m
    BY <1>1, <1>2 DEF InOrderOnce
  <2>2. \A i \in DOMAIN chat.events : chat.events[i].ref \in Nat
    <3>1. \A i \in DOMAIN chat.events : chat.events[i] \in Event
      BY <1>1, ChatFields
    <3>2. QED
      BY <3>1 DEF Event
  <2>3. m <= sent /\ sent \in Nat /\ m \in Nat
    <3>1. \A i \in DOMAIN mailbox : mailbox[i] <= sent
      BY <1>1 DEF Numbering
    <3>2. sent \in Nat
      BY <1>1, RunnerAssumption DEF TypeOK
    <3>3. QED
      BY <1>2, <3>1, <3>2
  <2>4. OrderedUsers(chat'.events)
    <3>1. SUFFICES ASSUME NEW i \in 1..(n + 1), NEW j \in 1..(n + 1), i < j,
                          chat'.events[i].kind = "user", chat'.events[j].kind = "user"
                   PROVE  chat'.events[i].ref < chat'.events[j].ref
      BY <1>4 DEF OrderedUsers
    <3>2. i \in 1..n /\ chat'.events[i] = chat.events[i]
      BY <1>4, <3>1
    <3>3. CASE j = n + 1
      BY <1>4, <2>1, <3>1, <3>2, <3>3
    <3>4. CASE j # n + 1
      <4>1. j \in 1..n /\ chat'.events[j] = chat.events[j]
        BY <1>4, <3>1, <3>4
      <4>2. QED
        BY <1>1, <1>4, <3>1, <3>2, <4>1 DEF OrderedUsers, InOrderOnce
    <3>5. QED
      BY <3>3, <3>4
  <2>5. \A i \in DOMAIN chat'.events :
           chat'.events[i].kind = "user" =>
               chat'.events[i].ref <= m /\ chat'.events[i].ref \in Nat
    <3>1. SUFFICES ASSUME NEW i \in 1..(n + 1), chat'.events[i].kind = "user"
                   PROVE  chat'.events[i].ref <= m /\ chat'.events[i].ref \in Nat
      BY <1>4
    <3>2. CASE i = n + 1
      BY <1>4, <2>3, <3>2
    <3>3. CASE i # n + 1
      <4>1. i \in DOMAIN chat.events /\ chat'.events[i] = chat.events[i]
        BY <1>4, <3>1, <3>3
      <4>2. QED
        BY <2>1, <2>2, <2>3, <3>1, <4>1
    <3>4. QED
      BY <3>2, <3>3
  <2>6. \A j \in DOMAIN mailbox' : mailbox'[j] # Shutdown => m < mailbox'[j]
    <3>1. \A i, j \in DOMAIN mailbox :
             i < j /\ mailbox[i] # Shutdown /\ mailbox[j] # Shutdown
             => mailbox[i] < mailbox[j]
      BY <1>1 DEF Numbering
    <3>2. mailbox[1] # Shutdown
      BY <1>1, <1>2
    <3>3. QED
      BY <1>2, <3>1, <3>2
  <2>7. \A j \in DOMAIN mailbox' : mailbox'[j] \in Nat
    <3>1. SUFFICES ASSUME NEW j \in DOMAIN mailbox'
                   PROVE  mailbox'[j] \in Nat
      OBVIOUS
    <3>2. mailbox'[j] = mailbox[j + 1] /\ j + 1 \in DOMAIN mailbox
      BY <1>2
    <3>3. mailbox[j + 1] \in 0..MaxMessages
      BY <1>2, <3>2, ElementOf
    <3>4. QED
      BY <3>2, <3>3, RunnerAssumption
  <2>8. InOrderOnce'
    <3>1. \A i \in DOMAIN chat'.events, j \in DOMAIN mailbox' :
             chat'.events[i].kind = "user" /\ mailbox'[j] # Shutdown
             => chat'.events[i].ref < mailbox'[j]
      BY <2>3, <2>5, <2>6, <2>7
    <3>2. QED
      BY <2>4, <3>1 DEF InOrderOnce, OrderedUsers
  <2>9. OrderedUsers(disk'.events)
    BY <1>1, <1>4, <2>4 DEF Numbering
  <2>10. \A i \in DOMAIN chat'.events :
           chat'.events[i].kind = "user" => chat'.events[i].ref <= sent
    BY <1>2, <2>3, <2>5
  <2>11. \A i \in DOMAIN disk'.events :
           disk'.events[i].kind = "user" => disk'.events[i].ref <= sent
    BY <1>1, <1>4, <2>10 DEF Numbering
  <2>12. \A i \in DOMAIN mailbox' : mailbox'[i] <= sent
    BY <1>1, <1>2 DEF Numbering
  <2>13. \A i, j \in DOMAIN mailbox' :
            i < j /\ mailbox'[i] # Shutdown /\ mailbox'[j] # Shutdown
            => mailbox'[i] < mailbox'[j]
    BY <1>1, <1>2 DEF Numbering
  <2>14. Numbering'
    BY <1>1, <2>9, <2>10, <2>11, <2>12, <2>13 DEF Numbering, OrderedUsers
  <2>15. QED
    BY <2>8, <2>14
<1>10. TurnGrammar' /\ Grammatical(disk.events)'
  <2>1. chat.events # <<>> =>
             \/ MayFollow(Last(chat.events), Last(chat'.events))
             \/ Len(chat.events) \in cuts
    BY <1>1, <1>4 DEF Standing, MayFollow, TurnSteps
  <2>2. QED
    BY <1>1, <1>2, <1>3, <2>1, PushGrammar
<1>11. ObservedIsDurable'
  BY <1>1, <1>2, <1>3, PushObserved
<1>12. QED
  BY <1>5, <1>6, <1>7, <1>8, <1>9, <1>10, <1>11 DEF IInv

(* The pushes of anything else, once it is known that the new event may    *)
(* follow the last and that the counters stay in place.                    *)
LEMMA OtherPushKeeps ==
  ASSUME IInv, NEW kind \in Kinds \ {"user"}, NEW ref \in Nat, Push(kind, ref),
         UNCHANGED <<mailbox, handoff, sent, cuts, crashes>>,
         pc \notin {"unborn", "down"}, pc' \in Receiving,
         calls' \in 0..MaxCalls, call' \in Nat, rounds' \in 0..MaxRounds,
         chat.events # <<>>,
         MayFollow(Last(chat.events), Last(chat'.events)),
         Standing', Counting'
  PROVE  IInv'
<1>1. pc' \notin {"unborn", "down"} /\ TypeOK
  BY DEF Receiving, IInv
<1>2. TypeOK'
  BY <1>1, PushEffect DEF TypeOK
<1>3. Durability'
  BY <1>1, PushDurability DEF Durability
<1>4. Numbering' /\ InOrderOnce'
  BY <1>1, PushNumbering
<1>5. TurnGrammar' /\ Grammatical(disk.events)'
  BY PushGrammar
<1>6. ObservedIsDurable'
  BY PushObserved
<1>7. QED
  BY <1>2, <1>3, <1>4, <1>5, <1>6 DEF IInv

LEMMA ReplyKeeps ==
  ASSUME IInv, NEW kind \in AgentRole, NEW k \in 0..MaxCalls, Reply(kind, k),
         k > 0 => rounds < MaxRounds,
         kind = "error" => k = 0
  PROVE  IInv'
<1>1. /\ TypeOK /\ Standing
      /\ pc = "completing" /\ pc' = "replied" /\ calls' = k
      /\ Push(kind, k)
      /\ UNCHANGED <<mailbox, call, rounds, handoff, sent, cuts, crashes>>
  BY DEF IInv, Reply, Goto
<1>2. /\ kind \in Kinds \ {"user"} /\ k \in Nat
  BY RunnerAssumption DEF AgentRole, Kinds
<1>3. /\ chat'.events # <<>>
      /\ Last(chat'.events).kind = kind
      /\ Last(chat'.events).ref = k
  BY <1>1, <1>2, PushEffect
<1>4. chat.events # <<>> /\ Last(chat.events).kind \in UserRole
  BY <1>1 DEF Standing
<1>5. MayFollow(Last(chat.events), Last(chat'.events))
  BY <1>3, <1>4 DEF MayFollow, TurnSteps, AgentRole, UserRole
<1>6. Standing' /\ Counting'
  BY <1>1, <1>3 DEF Standing, Counting, InToolRound, AgentRole
<1>7. calls' \in 0..MaxCalls /\ call' \in Nat /\ rounds' \in 0..MaxRounds
  BY <1>1 DEF TypeOK
<1>8. QED
  BY <1>1, <1>2, <1>4, <1>5, <1>6, <1>7, OtherPushKeeps DEF Receiving

LEMMA CompleteKeeps == IInv /\ Complete => IInv'
<1>. SUFFICES ASSUME IInv, Complete PROVE IInv'
  OBVIOUS
<1>1. 0 \in 0..MaxCalls
  BY RunnerAssumption
<1>2. CASE CompleteStop
  BY <1>1, <1>2, ReplyKeeps DEF CompleteStop, AgentRole
<1>3. CASE CompleteError
  BY <1>1, <1>3, ReplyKeeps DEF CompleteError, AgentRole
<1>4. CASE CompleteTools
  <2>1. PICK k \in 1..MaxCalls : Reply("agent", k)
    BY <1>4 DEF CompleteTools
  <2>2. k \in 0..MaxCalls /\ rounds < MaxRounds
    BY <1>4, RunnerAssumption DEF CompleteTools
  <2>3. QED
    BY <2>1, <2>2, ReplyKeeps DEF AgentRole
<1>5. QED
  BY <1>2, <1>3, <1>4 DEF Complete

LEMMA StartCallKeeps == IInv /\ StartCall => IInv'
<1>. SUFFICES ASSUME IInv, StartCall PROVE IInv'
  OBVIOUS
<1>1. /\ TypeOK /\ Standing /\ Counting
      /\ pc = "dispatching" /\ pc' = "started" /\ calls # 0 /\ call' = nextId
      /\ Push("started", nextId)
      /\ UNCHANGED <<mailbox, calls, rounds, handoff, sent, cuts, crashes>>
  BY DEF IInv, StartCall, Goto, RoundDone
<1>2. /\ "started" \in Kinds \ {"user"} /\ nextId \in Nat
      /\ calls \in 0..MaxCalls /\ calls > 0
  BY <1>1, RunnerAssumption DEF Kinds, TypeOK
<1>3. /\ chat'.events # <<>>
      /\ Last(chat'.events).kind = "started"
      /\ Last(chat'.events).ref = nextId
  BY <1>1, <1>2, PushEffect
<1>4. chat.events # <<>>
  BY <1>1 DEF Standing
<1>5. MayFollow(Last(chat.events), Last(chat'.events))
  BY <1>1, <1>3, <1>4 DEF MayFollow, TurnSteps, Outcomes, Standing
<1>6. Standing' /\ Counting'
  BY <1>1, <1>2, <1>3 DEF Standing, Counting, InToolRound
<1>7. calls' \in 0..MaxCalls /\ call' \in Nat /\ rounds' \in 0..MaxRounds
  BY <1>1, <1>2 DEF TypeOK
<1>8. QED
  BY <1>1, <1>2, <1>4, <1>5, <1>6, <1>7, OtherPushKeeps DEF Receiving

LEMMA FinishCallKeeps == IInv /\ FinishCall => IInv'
<1>. SUFFICES ASSUME IInv, FinishCall PROVE IInv'
  OBVIOUS
<1>1. PICK kind \in Outcomes : Push(kind, call)
  BY DEF FinishCall
<1>2. /\ TypeOK /\ Standing /\ Counting
      /\ pc = "executing" /\ pc' = "finished"
      /\ UNCHANGED <<mailbox, calls, call, rounds, handoff, sent, cuts, crashes>>
  BY DEF IInv, FinishCall, Goto
<1>3. kind \in Kinds \ {"user"} /\ call \in Nat
  BY <1>2 DEF Kinds, Outcomes, TypeOK
<1>4. /\ chat'.events # <<>>
      /\ Last(chat'.events).kind = kind
      /\ Last(chat'.events).ref = call
  BY <1>1, <1>2, <1>3, PushEffect
<1>5. /\ chat.events # <<>>
      /\ Last(chat.events).kind = "started" /\ Last(chat.events).ref = call
  BY <1>2 DEF Standing
<1>6. MayFollow(Last(chat.events), Last(chat'.events))
  BY <1>4, <1>5 DEF MayFollow, TurnSteps, Outcomes
<1>7. Standing' /\ Counting'
  BY <1>2, <1>4 DEF Standing, Counting, InToolRound
<1>8. calls' \in 0..MaxCalls /\ call' \in Nat /\ rounds' \in 0..MaxRounds
  BY <1>2 DEF TypeOK
<1>9. QED
  BY <1>1, <1>2, <1>3, <1>5, <1>6, <1>7, <1>8, OtherPushKeeps DEF Receiving

LEMMA PushResultsKeeps == IInv /\ PushResults => IInv'
<1>. SUFFICES ASSUME IInv, PushResults PROVE IInv'
  OBVIOUS
<1>1. /\ TypeOK /\ Standing /\ Counting
      /\ pc = "dispatching" /\ pc' = "completing" /\ calls = 0
      /\ rounds' = rounds + 1
      /\ Push("results", 0)
      /\ UNCHANGED <<mailbox, calls, call, handoff, sent, cuts, crashes>>
  BY DEF IInv, PushResults, Goto, RoundDone
<1>2. "results" \in Kinds \ {"user"}
  BY DEF Kinds
<1>3. chat'.events # <<>> /\ Last(chat'.events).kind = "results"
  BY <1>1, <1>2, PushEffect
<1>4. chat.events # <<>> /\ Last(chat.events).kind \in Outcomes
  BY <1>1 DEF Standing
<1>5. MayFollow(Last(chat.events), Last(chat'.events))
  BY <1>3, <1>4 DEF MayFollow, TurnSteps, Outcomes
<1>6. Standing' /\ Counting'
  BY <1>1, <1>3 DEF Standing, Counting, InToolRound, UserRole
<1>7. rounds < MaxRounds
  BY <1>1 DEF Counting, InToolRound
<1>8. calls' \in 0..MaxCalls /\ call' \in Nat /\ rounds' \in 0..MaxRounds
  BY <1>1, <1>7, RunnerAssumption DEF TypeOK
<1>9. QED
  BY <1>1, <1>2, <1>4, <1>5, <1>6, <1>8, OtherPushKeeps DEF Receiving

-----------------------------------------------------------------------------
(* The steps that publish *)

(* A step that publishes at most an announcement of the last event, once   *)
(* it is known where it leaves the runner.                                 *)
LEMMA PublishStepKeeps ==
  ASSUME IInv, NEW es \in Seq(Envelope), Publish(es),
         UNCHANGED <<chat, durable, observed, handoff>>,
         pc \notin {"unborn", "down"}, pc' \in Receiving,
         \A i \in 1..Len(es) : Announces(es[i]) =>
             chat.events # <<>> /\ es[i].ref = Last(chat.events).id,
         UNCHANGED mailbox \/ (Numbering' /\ InOrderOnce'),
         mailbox' \in Seq(0..MaxMessages),
         calls' \in 0..MaxCalls, call' \in Nat, rounds' \in 0..MaxRounds,
         Standing', Counting'
  PROVE  IInv'
<1>1. pc' \notin {"unborn", "down"} /\ pc # "down" /\ TypeOK
  BY DEF Receiving, IInv
<1>2. TypeOK'
  <2>1. bus' \in Seq(Envelope)
    BY <1>1, PublishEffect
  <2>2. QED
    BY <1>1, <2>1 DEF TypeOK, durable, observed
<1>3. Durability' /\ ObservedIsDurable' /\ TurnGrammar' /\ Grammatical(disk.events)'
  BY <1>1, PublishKeeps DEF observed
<1>4. Numbering' /\ InOrderOnce'
  BY <1>1, SameNumbering DEF durable, observed
<1>5. QED
  BY <1>2, <1>3, <1>4 DEF IInv

(* One announcement, possibly followed by a turn event.                    *)
LEMMA AnnouncementType ==
  ASSUME NEW ref \in Nat, NEW type \in {"message", "tool"},
         NEW turn \in {"turnStarted", "turnFinished"}
  PROVE  /\ <<Env(type, ref)>> \in Seq(Envelope)
         /\ <<Env(type, ref), Env(turn, 0)>> \in Seq(Envelope)
         /\ \A i \in 1..Len(<<Env(type, ref)>>) :
                Announces(<<Env(type, ref)>>[i]) => <<Env(type, ref)>>[i].ref = ref
         /\ \A i \in 1..Len(<<Env(type, ref), Env(turn, 0)>>) :
                Announces(<<Env(type, ref), Env(turn, 0)>>[i]) =>
                    <<Env(type, ref), Env(turn, 0)>>[i].ref = ref
<1>. DEFINE a == Env(type, ref)
            t == Env(turn, 0)
<1>1. a \in Envelope /\ a.ref = ref
  BY EnvType
<1>2. t \in Envelope /\ ~Announces(t)
  BY EnvType DEF Announces
<1>. HIDE DEF a, t
<1>3. <<a>> \in Seq(Envelope) /\ <<a, t>> \in Seq(Envelope)
  BY <1>1, <1>2
<1>4. \A i \in 1..Len(<<a>>) : <<a>>[i].ref = ref
  BY <1>1
<1>5. \A i \in 1..Len(<<a, t>>) : Announces(<<a, t>>[i]) => <<a, t>>[i].ref = ref
  <2>1. Len(<<a, t>>) = 2 /\ <<a, t>>[1] = a /\ <<a, t>>[2] = t
    OBVIOUS
  <2>2. QED
    BY <1>1, <1>2, <2>1
<1>6. QED
  BY <1>3, <1>4, <1>5 DEF a, t

LEMMA PublishUserKeeps == IInv /\ PublishUser => IInv'
<1>. SUFFICES ASSUME IInv, PublishUser PROVE IInv'
  OBVIOUS
<1>. DEFINE id == Last(chat.events).id
            es == <<Env("message", id), Env("turnStarted", 0)>>
<1>1. /\ TypeOK /\ Standing /\ pc = "accepted" /\ pc' = "completing"
      /\ Publish(es) /\ rounds' = 0
      /\ UNCHANGED <<mailbox, chat, calls, call, handoff, durable, observed>>
  BY DEF IInv, PublishUser, Goto
<1>2. chat.events # <<>> /\ Last(chat.events).kind = "user"
  BY <1>1 DEF Standing
<1>3. id \in Nat
  BY <1>1, <1>2, ChatFields, LastType DEF Event
<1>4. /\ es \in Seq(Envelope)
      /\ \A i \in 1..Len(es) : Announces(es[i]) => es[i].ref = id
  BY <1>3, AnnouncementType
<1>5. Standing' /\ Counting'
  BY <1>1, <1>2 DEF Standing, Counting, InToolRound, UserRole
<1>6. /\ mailbox' \in Seq(0..MaxMessages) /\ calls' \in 0..MaxCalls
      /\ call' \in Nat /\ rounds' \in 0..MaxRounds
  BY <1>1, RunnerAssumption DEF TypeOK
<1>. HIDE DEF es, id
<1>7. \A i \in 1..Len(es) : Announces(es[i]) =>
             chat.events # <<>> /\ es[i].ref = Last(chat.events).id
  BY <1>2, <1>4 DEF id
<1>8. QED
  BY <1>1, <1>4, <1>5, <1>6, <1>7, PublishStepKeeps DEF Receiving

LEMMA PublishReplyKeeps == IInv /\ PublishReply => IInv'
<1>. SUFFICES ASSUME IInv, PublishReply PROVE IInv'
  OBVIOUS
<1>. DEFINE id == Last(chat.events).id
<1>1. /\ TypeOK /\ Standing /\ Counting /\ pc = "replied"
      /\ UNCHANGED <<mailbox, chat, calls, call, rounds, handoff, durable, observed>>
  BY DEF IInv, PublishReply
<1>2. chat.events # <<>>
  BY <1>1 DEF Standing
<1>3. id \in Nat
  BY <1>1, <1>2, ChatFields, LastType DEF Event
<1>4. PICK es \in {<<Env("message", id), Env("turnFinished", 0)>>, <<Env("message", id)>>} :
        Publish(es)
  BY DEF PublishReply
<1>5. /\ es \in Seq(Envelope)
      /\ \A i \in 1..Len(es) : Announces(es[i]) => es[i].ref = id
  <2>. HIDE DEF id
  <2>1. CASE es = <<Env("message", id)>>
    BY <1>3, <2>1, AnnouncementType
  <2>2. CASE es = <<Env("message", id), Env("turnFinished", 0)>>
    BY <1>3, <2>2, AnnouncementType
  <2>3. QED
    BY <1>4, <2>1, <2>2
<1>6. pc' = IF calls = 0 THEN "recv" ELSE "dispatching"
  BY DEF PublishReply
<1>7. calls \in Nat
  BY <1>1 DEF TypeOK
<1>8. Standing' /\ Counting'
  BY <1>1, <1>2, <1>6, <1>7 DEF Standing, Counting, InToolRound, durable, observed
<1>9. /\ mailbox' \in Seq(0..MaxMessages) /\ calls' \in 0..MaxCalls
      /\ call' \in Nat /\ rounds' \in 0..MaxRounds
  BY <1>1 DEF TypeOK
<1>10. \A i \in 1..Len(es) : Announces(es[i]) =>
             chat.events # <<>> /\ es[i].ref = Last(chat.events).id
  BY <1>2, <1>5
<1>11. QED
  BY <1>1, <1>4, <1>5, <1>6, <1>8, <1>9, <1>10, PublishStepKeeps DEF Receiving

LEMMA PublishStartedKeeps == IInv /\ PublishStarted => IInv'
<1>. SUFFICES ASSUME IInv, PublishStarted PROVE IInv'
  OBVIOUS
<1>. DEFINE id == Last(chat.events).id
            es == <<Env("tool", id)>>
<1>1. /\ TypeOK /\ Standing /\ Counting /\ pc = "started" /\ pc' = "executing"
      /\ Publish(es)
      /\ UNCHANGED <<mailbox, chat, calls, call, rounds, handoff, durable, observed>>
  BY DEF IInv, PublishStarted, Goto
<1>2. chat.events # <<>>
  BY <1>1 DEF Standing
<1>3. id \in Nat
  BY <1>1, <1>2, ChatFields, LastType DEF Event
<1>4. /\ es \in Seq(Envelope)
      /\ \A i \in 1..Len(es) : Announces(es[i]) => es[i].ref = id
  BY <1>3, AnnouncementType
<1>5. Standing' /\ Counting'
  BY <1>1, <1>2 DEF Standing, Counting, InToolRound
<1>6. /\ mailbox' \in Seq(0..MaxMessages) /\ calls' \in 0..MaxCalls
      /\ call' \in Nat /\ rounds' \in 0..MaxRounds
  BY <1>1 DEF TypeOK
<1>. HIDE DEF es, id
<1>7. \A i \in 1..Len(es) : Announces(es[i]) =>
             chat.events # <<>> /\ es[i].ref = Last(chat.events).id
  BY <1>2, <1>4 DEF id
<1>8. QED
  BY <1>1, <1>4, <1>5, <1>6, <1>7, PublishStepKeeps DEF Receiving

LEMMA PublishOutcomeKeeps == IInv /\ PublishOutcome => IInv'
<1>. SUFFICES ASSUME IInv, PublishOutcome PROVE IInv'
  OBVIOUS
<1>. DEFINE id == Last(chat.events).id
            es == <<Env("tool", id)>>
<1>1. /\ TypeOK /\ Standing /\ Counting /\ pc = "finished" /\ pc' = "dispatching"
      /\ Publish(es) /\ calls' = calls - 1 /\ call' = 0
      /\ UNCHANGED <<mailbox, chat, rounds, handoff, durable, observed>>
  BY DEF IInv, PublishOutcome, Goto, AnnounceOutcome
<1>2. chat.events # <<>> /\ Last(chat.events).kind \in Outcomes
  BY <1>1 DEF Standing
<1>3. id \in Nat
  BY <1>1, <1>2, ChatFields, LastType DEF Event
<1>4. /\ es \in Seq(Envelope)
      /\ \A i \in 1..Len(es) : Announces(es[i]) => es[i].ref = id
  BY <1>3, AnnouncementType
<1>5. Standing' /\ Counting'
  BY <1>1, <1>2 DEF Standing, Counting, InToolRound
<1>6. calls > 0 /\ calls \in 0..MaxCalls
  BY <1>1 DEF Counting, TypeOK
<1>7. /\ mailbox' \in Seq(0..MaxMessages) /\ calls' \in 0..MaxCalls
      /\ call' \in Nat /\ rounds' \in 0..MaxRounds
  BY <1>1, <1>6, RunnerAssumption DEF TypeOK
<1>. HIDE DEF es, id
<1>8. \A i \in 1..Len(es) : Announces(es[i]) =>
             chat.events # <<>> /\ es[i].ref = Last(chat.events).id
  BY <1>2, <1>4 DEF id
<1>9. QED
  BY <1>1, <1>4, <1>5, <1>7, <1>8, PublishStepKeeps DEF Receiving

LEMMA StreamDeltaKeeps == IInv /\ StreamDelta => IInv'
<1>. SUFFICES ASSUME IInv, StreamDelta PROVE IInv'
  OBVIOUS
<1>. DEFINE es == <<Env("thinking", 0)>>
<1>1. /\ TypeOK /\ Standing /\ Counting /\ pc = "completing" /\ Publish(es)
      /\ UNCHANGED <<pc, mailbox, chat, calls, call, rounds, handoff, durable, observed>>
  BY DEF IInv, StreamDelta
<1>2. es \in Seq(Envelope) /\ \A i \in 1..Len(es) : ~Announces(es[i])
  <2>1. Env("thinking", 0) \in Envelope /\ ~Announces(Env("thinking", 0))
    BY EnvType DEF Announces
  <2>2. QED
    BY <2>1
<1>3. Standing' /\ Counting'
  BY <1>1 DEF Standing, Counting, InToolRound, observed
<1>4. /\ mailbox' \in Seq(0..MaxMessages) /\ calls' \in 0..MaxCalls
      /\ call' \in Nat /\ rounds' \in 0..MaxRounds
  BY <1>1 DEF TypeOK
<1>. HIDE DEF es
<1>5. QED
  BY <1>1, <1>2, <1>3, <1>4, PublishStepKeeps DEF Receiving

LEMMA RecvShutdownKeeps == IInv /\ RecvShutdown => IInv'
<1>. SUFFICES ASSUME IInv, RecvShutdown PROVE IInv'
  OBVIOUS
<1>. DEFINE es == <<Env("shutdown", 0)>>
<1>1. /\ TypeOK /\ Standing /\ Counting /\ Numbering /\ InOrderOnce
      /\ pc = "recv" /\ pc' = "closing"
      /\ mailbox # <<>> /\ mailbox' = Tail(mailbox) /\ Publish(es)
      /\ UNCHANGED <<chat, calls, call, rounds, handoff, durable, observed>>
  BY DEF IInv, RecvShutdown, Listening, Ready, TakeOne
<1>2. es \in Seq(Envelope) /\ \A i \in 1..Len(es) : ~Announces(es[i])
  <2>1. Env("shutdown", 0) \in Envelope /\ ~Announces(Env("shutdown", 0))
    BY EnvType DEF Announces
  <2>2. QED
    BY <2>1
<1>3. Standing' /\ Counting'
  BY <1>1 DEF Standing, Counting, InToolRound
<1>4. /\ mailbox \in Seq(0..MaxMessages)
      /\ mailbox' \in Seq(0..MaxMessages)
      /\ \A j \in DOMAIN mailbox' : j \in Nat /\ j + 1 \in DOMAIN mailbox
                                  /\ mailbox'[j] = mailbox[j + 1]
  BY <1>1 DEF TypeOK
<1>5. /\ calls' \in 0..MaxCalls /\ call' \in Nat /\ rounds' \in 0..MaxRounds
  BY <1>1 DEF TypeOK
<1>6. InOrderOnce'
  <2>1. \A i \in DOMAIN chat.events, j \in DOMAIN mailbox' :
           chat.events[i].kind = "user" /\ mailbox'[j] # Shutdown
           => chat.events[i].ref < mailbox'[j]
    BY <1>1, <1>4 DEF InOrderOnce
  <2>2. QED
    BY <1>1, <2>1 DEF InOrderOnce, OrderedUsers
<1>7. Numbering'
  <2>1. /\ \A j \in DOMAIN mailbox' : mailbox'[j] <= sent
        /\ \A i, j \in DOMAIN mailbox' :
               i < j /\ mailbox'[i] # Shutdown /\ mailbox'[j] # Shutdown
               => mailbox'[i] < mailbox'[j]
    BY <1>1, <1>4 DEF Numbering
  <2>2. QED
    BY <1>1, <2>1 DEF Numbering, OrderedUsers, durable, observed
<1>. HIDE DEF es
<1>8. QED
  BY <1>1, <1>2, <1>3, <1>4, <1>5, <1>6, <1>7, PublishStepKeeps DEF Receiving

-----------------------------------------------------------------------------
(* The holders of a handle, and the process *)

LEMMA SpawnKeeps == IInv /\ Spawn => IInv'
<1>. SUFFICES ASSUME IInv, Spawn PROVE IInv'
  OBVIOUS
<1>1. /\ TypeOK /\ Standing /\ Durability /\ Numbering /\ InOrderOnce
      /\ pc = "unborn" /\ pc' = "recv" /\ lastUsed' \in BOOLEAN
      /\ UNCHANGED <<mailbox, chat, calls, call, rounds, bus, handoff,
                     nextId, sent, cuts, crashes>>
  BY RunnerAssumption DEF IInv, Spawn, Goto
<1>2. PICK ok \in BOOLEAN : SaveQuietly(NoEvents, ok)
  BY DEF Spawn
<1>3. NoEvents \in Chat /\ NoEvents.events = <<>>
  BY DEF NoEvents, Chat
<1>4. /\ disk' = NoEvents \/ disk' = disk
      /\ disk' \in Chat /\ stored' \in BOOLEAN /\ faults' \in 0..MaxFaults
  BY <1>1, <1>2, <1>3, SaveQuietlyEffect
<1>5. chat.events = <<>>
  BY <1>1 DEF Standing
<1>6. disk.events = <<>> /\ disk'.events = <<>>
  BY <1>1, <1>3, <1>4, <1>5, ChatFields DEF Durability, Extends
<1>7. TypeOK'
  BY <1>1, <1>4 DEF TypeOK, Receiving
<1>8. Standing' /\ Counting'
  BY <1>1, <1>5 DEF Standing, Counting, InToolRound
<1>9. Durability'
  BY <1>1, <1>5, <1>6 DEF Durability, Extends
<1>10. InOrderOnce' /\ Numbering'
  BY <1>1, <1>5, <1>6 DEF InOrderOnce, Numbering, OrderedUsers
<1>11. TurnGrammar' /\ Grammatical(disk.events)'
  BY <1>1, <1>5, <1>6 DEF TurnGrammar, Grammatical
<1>12. ObservedIsDurable'
  BY <1>1, <1>6 DEF IInv, ObservedIsDurable, Announces
<1>13. QED
  BY <1>7, <1>8, <1>9, <1>10, <1>11, <1>12 DEF IInv

(* A new command in the channel: the transcript does not notice.           *)
LEMMA EnqueueKeeps ==
  ASSUME IInv, NEW c \in 0..MaxMessages, pc \in Receiving,
         mailbox' = Append(mailbox, c),
         c # Shutdown => c = sent + 1 /\ sent' = c,
         c = Shutdown => sent' = sent,
         UNCHANGED <<pc, chat, calls, call, rounds, bus, handoff, durable,
                     nextId, cuts, crashes, faults>>
  PROVE  IInv'
<1>. DEFINE n == Len(mailbox)
<1>1. /\ TypeOK /\ Numbering /\ InOrderOnce /\ pc \notin {"unborn", "down"}
      /\ sent \in Nat /\ sent' \in 0..MaxMessages /\ sent <= sent'
      /\ c # Shutdown => sent < c /\ c <= sent'
      /\ c \in Nat
  BY RunnerAssumption DEF IInv, TypeOK, Receiving, Shutdown
<1>2. /\ mailbox' \in Seq(0..MaxMessages) /\ n \in Nat
      /\ DOMAIN mailbox = 1..n /\ DOMAIN mailbox' = 1..(n + 1)
      /\ \A j \in 1..n : mailbox'[j] = mailbox[j]
      /\ mailbox'[n + 1] = c
      /\ \A j \in 1..n : mailbox[j] \in 0..MaxMessages
  <2>. DEFINE M == 0..MaxMessages
  <2>1. mailbox \in Seq(M) /\ c \in M /\ mailbox' = Append(mailbox, c)
    BY <1>1 DEF TypeOK
  <2>. HIDE DEF M, n
  <2>2. /\ Append(mailbox, c) \in Seq(M)
        /\ Len(mailbox) \in Nat
        /\ DOMAIN mailbox = 1..Len(mailbox)
        /\ DOMAIN Append(mailbox, c) = 1..(Len(mailbox) + 1)
        /\ \A j \in 1..Len(mailbox) : Append(mailbox, c)[j] = mailbox[j]
        /\ Append(mailbox, c)[Len(mailbox) + 1] = c
    BY <2>1, AppendTo
  <2>3. \A j \in DOMAIN mailbox : mailbox[j] \in M
    BY <2>1, ElementOf
  <2>4. QED
    BY <2>1, <2>2, <2>3 DEF M, n
<1>3. TypeOK' /\ Standing' /\ Counting' /\ Durability' /\ TurnGrammar'
      /\ Grammatical(disk.events)' /\ ObservedIsDurable'
  <2>1. TypeOK'
    BY <1>1, <1>2 DEF TypeOK, durable
  <2>2. Standing' /\ Counting'
    BY DEF IInv, Standing, Counting, InToolRound
  <2>3. Durability' /\ ObservedIsDurable'
    BY DEF IInv, Durability, ObservedIsDurable, Extends, Announces, durable
  <2>4. TurnGrammar' /\ Grammatical(disk.events)'
    BY DEF IInv, TurnGrammar, Grammatical, durable
  <2>5. QED
    BY <2>1, <2>2, <2>3, <2>4
<1>4. \A i \in DOMAIN chat.events :
         chat.events[i].kind = "user" =>
             chat.events[i].ref <= sent /\ chat.events[i].ref \in Nat
  <2>1. \A i \in DOMAIN chat.events : chat.events[i] \in Event
    BY <1>1, ChatFields
  <2>2. QED
    BY <1>1, <2>1 DEF Numbering, Event
<1>5. \A i \in DOMAIN disk.events :
         disk.events[i].kind = "user" =>
             disk.events[i].ref <= sent /\ disk.events[i].ref \in Nat
  <2>1. \A i \in DOMAIN disk.events : disk.events[i] \in Event
    BY <1>1, ChatFields
  <2>2. QED
    BY <1>1, <2>1 DEF Numbering, Event
<1>6. InOrderOnce'
  <2>1. ASSUME NEW i \in DOMAIN chat.events, NEW j \in DOMAIN mailbox',
               chat.events[i].kind = "user", mailbox'[j] # Shutdown
        PROVE  chat.events[i].ref < mailbox'[j]
    <3>1. CASE j = n + 1
      BY <1>1, <1>2, <1>4, <2>1, <3>1
    <3>2. CASE j # n + 1
      BY <1>1, <1>2, <2>1, <3>2 DEF InOrderOnce
    <3>3. QED
      BY <3>1, <3>2
  <2>2. QED
    BY <1>1, <2>1 DEF InOrderOnce, OrderedUsers
<1>7. Numbering'
  <2>1. \A j \in DOMAIN mailbox' : mailbox'[j] <= sent'
    <3>1. \A j \in 1..n : mailbox[j] <= sent
      BY <1>1, <1>2 DEF Numbering
    <3>2. SUFFICES ASSUME NEW j \in 1..(n + 1) PROVE mailbox'[j] <= sent'
      BY <1>2
    <3>3. CASE j = n + 1
      <4>1. c <= sent'
        BY <1>1 DEF Shutdown
      <4>2. QED
        BY <1>2, <3>3, <4>1
    <3>4. CASE j # n + 1
      <4>1. j \in 1..n
        BY <1>2, <3>4
      <4>2. mailbox[j] <= sent /\ mailbox[j] \in Nat /\ mailbox'[j] = mailbox[j]
        BY <1>2, <3>1, <4>1
      <4>3. QED
        BY <1>1, <4>2
    <3>5. QED
      BY <3>3, <3>4
  <2>2. ASSUME NEW i \in DOMAIN mailbox', NEW j \in DOMAIN mailbox', i < j,
               mailbox'[i] # Shutdown, mailbox'[j] # Shutdown
        PROVE  mailbox'[i] < mailbox'[j]
    <3>1. i \in 1..n /\ mailbox'[i] = mailbox[i] /\ mailbox[i] <= sent
          /\ mailbox[i] \in Nat
      BY <1>1, <1>2, <2>2 DEF Numbering
    <3>2. CASE j = n + 1
      BY <1>1, <1>2, <2>2, <3>1, <3>2
    <3>3. CASE j # n + 1
      <4>1. j \in 1..n /\ mailbox'[j] = mailbox[j]
        BY <1>2, <2>2, <3>3
      <4>2. QED
        BY <1>1, <1>2, <2>2, <3>1, <4>1 DEF Numbering
    <3>4. QED
      BY <3>2, <3>3
  <2>3. /\ \A i \in DOMAIN disk.events :
               disk.events[i].kind = "user" => disk.events[i].ref <= sent'
        /\ \A i \in DOMAIN chat.events :
               chat.events[i].kind = "user" => chat.events[i].ref <= sent'
    BY <1>1, <1>4, <1>5
  <2>4. QED
    BY <1>1, <2>1, <2>2, <2>3 DEF Numbering, OrderedUsers, durable
<1>8. QED
  BY <1>3, <1>6, <1>7 DEF IInv

LEMMA SendKeeps == IInv /\ (Send \/ SendShutdown) => IInv'
<1>. SUFFICES ASSUME IInv, Send \/ SendShutdown PROVE IInv'
  OBVIOUS
<1>1. CASE Send
  <2>1. sent + 1 \in 0..MaxMessages /\ sent + 1 # Shutdown
    BY <1>1, RunnerAssumption DEF IInv, TypeOK, Send, Shutdown
  <2>2. QED
    BY <1>1, <2>1, EnqueueKeeps DEF Send
<1>2. CASE SendShutdown
  <2>1. Shutdown \in 0..MaxMessages
    BY RunnerAssumption DEF Shutdown
  <2>2. QED
    BY <1>2, <2>1, EnqueueKeeps DEF SendShutdown, observed
<1>3. QED
  BY <1>1, <1>2

LEMMA CloseKeeps == IInv /\ Close => IInv'
<1>. SUFFICES ASSUME IInv, Close PROVE IInv'
  OBVIOUS
<1>1. /\ TypeOK /\ Standing /\ Durability /\ Numbering /\ InOrderOnce
      /\ pc = "closing" /\ pc' = "exited" /\ mailbox' = <<>>
      /\ UNCHANGED <<chat, calls, call, rounds, bus, lastUsed, nextId, sent, cuts, crashes>>
  BY DEF IInv, Close, Goto
<1>2. PICK ok \in BOOLEAN : SaveQuietly(chat, ok)
  BY DEF Close
<1>3. chat \in Chat
  BY <1>1 DEF TypeOK
<1>4. /\ disk' = chat \/ disk' = disk
      /\ disk' \in Chat /\ stored' \in BOOLEAN /\ faults' \in 0..MaxFaults
  BY <1>1, <1>2, <1>3, SaveQuietlyEffect
<1>5. Summary(chat.events) \in Nat
  <2>1. \A i \in DOMAIN chat.events : chat.events[i].id \in Nat
    <3>1. \A i \in DOMAIN chat.events : chat.events[i] \in Event
      BY <1>1, ChatFields
    <3>2. QED
      BY <3>1 DEF Event
  <2>2. CASE {i \in DOMAIN chat.events : chat.events[i].kind \in AgentRole} = {}
    BY <2>2 DEF Summary
  <2>3. CASE {i \in DOMAIN chat.events : chat.events[i].kind \in AgentRole} # {}
    <3>. DEFINE replies == {i \in DOMAIN chat.events : chat.events[i].kind \in AgentRole}
                isLast(i) == \A j \in replies : j <= i
    <3>1. replies \in SUBSET (1..Len(chat.events)) /\ Len(chat.events) \in Nat
      BY <1>1, ChatFields
    <3>2. \E i \in replies : isLast(i)
      <4>1. replies \in SUBSET Int /\ replies # {}
        BY <2>3, <3>1
      <4>2. \A j \in replies : j <= Len(chat.events)
        BY <3>1
      <4>3. QED
        BY <3>1, <4>1, <4>2, LargestOf
    <3>3. (CHOOSE i \in replies : isLast(i)) \in replies
      BY <3>2
    <3>4. QED
      BY <2>1, <2>3, <3>3 DEF Summary
  <2>4. QED
    BY <2>2, <2>3
<1>6. handoff' \in [sent: BOOLEAN, summary: Nat]
  BY <1>1, <1>5 DEF Close, TypeOK
<1>7. TypeOK'
  BY <1>1, <1>4, <1>6 DEF TypeOK
<1>8. Standing' /\ Counting'
  BY <1>1 DEF Standing, Counting, InToolRound
<1>9. disk'.events = chat.events \/ disk'.events = disk.events
  BY <1>4
<1>10. Extends(chat.events, disk'.events) /\ Extends(disk'.events, disk.events)
  BY <1>1, <1>9, ChatFields DEF Durability, Extends
<1>11. Durability'
  BY <1>1, <1>9, <1>10 DEF Durability, Extends
<1>12. InOrderOnce' /\ Numbering'
  BY <1>1, <1>9 DEF InOrderOnce, Numbering, OrderedUsers
<1>13. TurnGrammar' /\ Grammatical(disk.events)'
  BY <1>1, <1>9 DEF IInv, TurnGrammar, Grammatical
<1>14. ObservedIsDurable'
  <2>1. SUFFICES ASSUME NEW i \in DOMAIN bus, Announces(bus[i])
                 PROVE  \/ \E k \in DOMAIN disk'.events : disk'.events[k].id = bus[i].ref
                        \/ \E j \in 1..(i - 1) : bus[j].type = "error"
    BY <1>1 DEF ObservedIsDurable, Announces
  <2>2. \A k \in DOMAIN disk.events :
            k \in DOMAIN disk'.events /\ disk'.events[k] = disk.events[k]
    <3>1. /\ Len(disk.events) \in Nat /\ DOMAIN disk.events = 1..Len(disk.events)
          /\ Len(chat.events) \in Nat /\ DOMAIN chat.events = 1..Len(chat.events)
      BY <1>1, ChatFields
    <3>2. Len(disk.events) <= Len(disk'.events) /\ DOMAIN disk'.events = 1..Len(disk'.events)
      BY <1>9, <1>10, <3>1 DEF Extends
    <3>3. Len(disk'.events) \in Nat
      BY <1>9, <3>1
    <3>4. QED
      BY <1>10, <3>1, <3>2, <3>3 DEF Extends
  <2>3. QED
    BY <2>1, <2>2 DEF IInv, ObservedIsDurable
<1>15. QED
  BY <1>7, <1>8, <1>11, <1>12, <1>13, <1>14 DEF IInv

LEMMA CrashKeeps == IInv /\ Crash => IInv'
<1>. SUFFICES ASSUME IInv, Crash PROVE IInv'
  OBVIOUS
<1>1. /\ TypeOK /\ pc' = "down" /\ crashes' = crashes + 1 /\ crashes < MaxCrashes
      /\ mailbox' = <<>> /\ chat' = NoEvents /\ bus' = <<>>
      /\ calls' = 0 /\ call' = 0 /\ rounds' = 0
      /\ UNCHANGED <<handoff, durable, nextId, sent, cuts, faults>>
  BY DEF IInv, Crash
<1>2. NoEvents \in Chat /\ NoEvents.events = <<>>
  BY DEF NoEvents, Chat
<1>3. TypeOK'
  <2>1. /\ pc' \in {"unborn", "exited", "down"} \cup Receiving
        /\ mailbox' \in Seq(0..MaxMessages) /\ bus' \in Seq(Envelope)
        /\ chat' \in Chat
    BY <1>1, <1>2
  <2>2. /\ calls' \in 0..MaxCalls /\ call' \in Nat /\ rounds' \in 0..MaxRounds
        /\ crashes' \in 0..MaxCrashes
    BY <1>1, RunnerAssumption DEF TypeOK
  <2>3. QED
    BY <1>1, <2>1, <2>2 DEF TypeOK, durable
<1>4. Standing' /\ Counting'
  BY <1>1, <1>2 DEF Standing, Counting, InToolRound
<1>5. Durability'
  BY <1>1 DEF Durability
<1>6. InOrderOnce' /\ Numbering'
  BY <1>1, <1>2 DEF IInv, InOrderOnce, Numbering, OrderedUsers, durable
<1>7. TurnGrammar' /\ Grammatical(disk.events)'
  BY <1>1, <1>2 DEF IInv, TurnGrammar, Grammatical, durable
<1>8. ObservedIsDurable'
  BY <1>1 DEF ObservedIsDurable
<1>9. QED
  BY <1>3, <1>4, <1>5, <1>6, <1>7, <1>8 DEF IInv

LEMMA RestoreKeeps == IInv /\ Restore => IInv'
<1>. SUFFICES ASSUME IInv, Restore PROVE IInv'
  OBVIOUS
<1>1. /\ TypeOK /\ Standing /\ Numbering
      /\ pc = "down" /\ pc' = "recv" /\ lastUsed' \in BOOLEAN
      /\ chat' = disk /\ cuts' = cuts \cup {Len(disk.events)}
      /\ UNCHANGED <<mailbox, calls, call, rounds, bus, handoff, nextId, sent, crashes>>
  BY DEF IInv, Restore, Goto, LoadedChat, TypeOK
<1>2. PICK ok \in BOOLEAN : SaveQuietly(disk, ok)
  BY DEF Restore, LoadedChat
<1>3. disk' = disk /\ disk \in Chat /\ stored' \in BOOLEAN /\ faults' \in 0..MaxFaults
  BY <1>1, <1>2, SaveQuietlyEffect DEF TypeOK
<1>4. TypeOK'
  BY <1>1, <1>3, ChatFields DEF TypeOK, Receiving
<1>5. Standing' /\ Counting'
  BY <1>1, <1>3 DEF Standing, Counting, InToolRound
<1>6. Durability'
  BY <1>1, <1>3 DEF Durability, Extends
<1>7. mailbox' = <<>>
  BY <1>1 DEF Numbering
<1>8. InOrderOnce' /\ Numbering'
  BY <1>1, <1>3, <1>7 DEF Numbering, InOrderOnce, OrderedUsers
<1>9. TurnGrammar' /\ Grammatical(disk.events)'
  BY <1>1, <1>3 DEF IInv, TurnGrammar, Grammatical
<1>10. ObservedIsDurable'
  BY <1>1, <1>3 DEF IInv, ObservedIsDurable, Announces
<1>11. QED
  BY <1>4, <1>5, <1>6, <1>8, <1>9, <1>10 DEF IInv

-----------------------------------------------------------------------------
(* The theorems *)

LEMMA NextKeeps == IInv /\ [Next]_vars => IInv'
<1>. SUFFICES ASSUME IInv, [Next]_vars PROVE IInv'
  OBVIOUS
<1>1. CASE UNCHANGED vars
  BY <1>1 DEF vars, volatile, durable, observed, IInv, TypeOK, Standing, Counting,
              InToolRound, Durability, Extends, Numbering, InOrderOnce, OrderedUsers,
              TurnGrammar, Grammatical, ObservedIsDurable, Announces
<1>2. CASE Spawn
  BY <1>2, SpawnKeeps
<1>3. CASE Send \/ SendShutdown
  BY <1>3, SendKeeps
<1>4. CASE Run
  BY <1>4, RecvUserKeeps, PublishUserKeeps, StreamDeltaKeeps, CompleteKeeps,
     PublishReplyKeeps, StartCallKeeps, PublishStartedKeeps, FinishCallKeeps,
     PublishOutcomeKeeps, PushResultsKeeps, RecvShutdownKeeps, CloseKeeps DEF Run
<1>5. CASE Crash
  BY <1>5, CrashKeeps
<1>6. CASE Restore
  BY <1>6, RestoreKeeps
<1>7. QED
  BY <1>1, <1>2, <1>3, <1>4, <1>5, <1>6 DEF Next

(* The inductive invariant holds in every reachable state.                 *)
THEOREM Invariance == Spec => []IInv
<1>1. Init => IInv
  BY InitIInv
<1>2. IInv /\ [Next]_vars => IInv'
  BY NextKeeps
<1>3. QED
  BY <1>1, <1>2, PTL DEF Spec

(* The variables keep their types: in particular no counter of tool calls  *)
(* or tool rounds leaves its range.                                        *)
THEOREM TypeCorrect == Spec => []TypeOK
<1>1. IInv => TypeOK
  BY DEF IInv
<1>2. QED
  BY <1>1, Invariance, PTL

(* Messages are taken up in order and at most once, across restarts.       *)
THEOREM MessagesInOrder == Spec => []InOrderOnce
<1>1. IInv => InOrderOnce
  BY DEF IInv
<1>2. QED
  BY <1>1, Invariance, PTL

(* The transcript is always a succession of well-formed turns.             *)
THEOREM TurnsWellFormed == Spec => []TurnGrammar
<1>1. IInv => TurnGrammar
  BY DEF IInv
<1>2. QED
  BY <1>1, Invariance, PTL

(* What observers saw can be reloaded from storage.                        *)
THEOREM ObserversCanReload == Spec => []ObservedIsDurable
<1>1. IInv => ObservedIsDurable
  BY DEF IInv
<1>2. QED
  BY <1>1, Invariance, PTL

(* A push, whatever it pushes, extends the snapshot or leaves it.          *)
LEMMA PushGrows ==
  ASSUME IInv, pc # "down", NEW kind \in Kinds, NEW ref \in Nat, Push(kind, ref)
  PROVE  Extends(disk'.events, disk.events)
BY PushDurability

LEMMA NextGrows == IInv /\ [Next]_vars => Extends(disk'.events, disk.events)
<1>. SUFFICES ASSUME IInv, [Next]_vars PROVE Extends(disk'.events, disk.events)
  OBVIOUS
<1>1. TypeOK /\ disk \in Chat /\ chat \in Chat /\ NoEvents \in Chat
  BY DEF IInv, TypeOK, Chat, NoEvents
<1>2. ASSUME disk' = disk PROVE Extends(disk'.events, disk.events)
  BY <1>1, <1>2, ChatFields DEF Extends
<1>3. CASE UNCHANGED vars
  BY <1>2, <1>3 DEF vars, durable
<1>4. CASE \/ Send \/ SendShutdown \/ PublishUser \/ StreamDelta \/ PublishReply
           \/ PublishStarted \/ PublishOutcome \/ RecvShutdown \/ Crash
  BY <1>2, <1>4 DEF Send, SendShutdown, PublishUser, StreamDelta, PublishReply,
                    PublishStarted, PublishOutcome, RecvShutdown, Crash, durable
<1>5. CASE RecvUser
  <2>1. pc # "down" /\ Push("user", Head(mailbox)) /\ mailbox # <<>>
    BY <1>5 DEF RecvUser, Listening, Ready
  <2>2. Head(mailbox) \in Nat /\ "user" \in Kinds
    <3>1. mailbox \in Seq(0..MaxMessages)
      BY <1>1 DEF TypeOK
    <3>2. 1 \in DOMAIN mailbox /\ Head(mailbox) = mailbox[1]
      BY <2>1, <3>1
    <3>3. mailbox[1] \in 0..MaxMessages
      BY <3>1, <3>2, ElementOf
    <3>4. QED
      BY <3>2, <3>3 DEF Kinds
  <2>3. QED
    BY <2>1, <2>2, PushGrows
<1>6. CASE Complete
  <2>1. PICK kind \in {"agent", "error"}, n \in 0..MaxCalls : Reply(kind, n)
    BY <1>6, RunnerAssumption DEF Complete, CompleteStop, CompleteError, CompleteTools
  <2>2. pc # "down" /\ Push(kind, n) /\ kind \in Kinds /\ n \in Nat
    BY <2>1, RunnerAssumption DEF Reply, Goto, Kinds
  <2>3. QED
    BY <2>2, PushGrows
<1>7. CASE StartCall
  <2>1. pc # "down" /\ Push("started", nextId) /\ "started" \in Kinds /\ nextId \in Nat
    BY <1>1, <1>7 DEF StartCall, Goto, Kinds, TypeOK
  <2>2. QED
    BY <2>1, PushGrows
<1>8. CASE FinishCall
  <2>1. PICK kind \in Outcomes : Push(kind, call)
    BY <1>8 DEF FinishCall
  <2>2. pc # "down" /\ kind \in Kinds /\ call \in Nat
    BY <1>1, <1>8 DEF FinishCall, Goto, Kinds, Outcomes, TypeOK
  <2>3. QED
    BY <2>1, <2>2, PushGrows
<1>9. CASE PushResults
  <2>1. pc # "down" /\ Push("results", 0) /\ "results" \in Kinds /\ 0 \in Nat
    BY <1>9 DEF PushResults, Goto, Kinds
  <2>2. QED
    BY <2>1, PushGrows
<1>10. CASE Spawn
  <2>1. pc = "unborn" /\ \E ok \in BOOLEAN : SaveQuietly(NoEvents, ok)
    BY <1>10 DEF Spawn, Goto
  <2>2. disk' = NoEvents \/ disk' = disk
    BY <1>1, <2>1, SaveQuietlyEffect
  <2>3. chat.events = <<>> /\ Extends(chat.events, disk.events)
    BY <2>1 DEF IInv, Standing, Durability
  <2>4. disk.events \in Seq(Event) /\ Len(disk.events) = 0
    BY <1>1, <2>3, ChatFields DEF Extends
  <2>5. Extends(NoEvents.events, disk.events)
    BY <2>4 DEF Extends, NoEvents
  <2>6. QED
    BY <1>2, <2>2, <2>5
<1>11. CASE Close
  <2>1. pc # "down" /\ \E ok \in BOOLEAN : SaveQuietly(chat, ok)
    BY <1>11 DEF Close, Goto
  <2>2. disk' = chat \/ disk' = disk
    BY <1>1, <2>1, SaveQuietlyEffect
  <2>3. QED
    BY <1>2, <2>1, <2>2 DEF IInv, Durability
<1>12. CASE Restore
  <2>1. \E ok \in BOOLEAN : SaveQuietly(disk, ok)
    BY <1>12 DEF Restore, LoadedChat
  <2>2. QED
    BY <1>1, <1>2, <2>1, SaveQuietlyEffect
<1>13. QED
  BY <1>3, <1>4, <1>5, <1>6, <1>7, <1>8, <1>9, <1>10, <1>11, <1>12 DEF Next, Run

(* No step of the agent, a crash and a restart included, takes an event    *)
(* out of the snapshot in storage.                                         *)
THEOREM StorageGrows == Spec => SnapshotsOnlyGrow
<1>1. IInv /\ [Next]_vars => [Extends(disk'.events, disk.events)]_vars
  BY NextGrows
<1>2. QED
  BY <1>1, Invariance, PTL DEF Spec, SnapshotsOnlyGrow

-----------------------------------------------------------------------------
(* Tool rounds                                                           *)

LEMMA CoveredPush ==
  ASSUME NEW s \in Seq(Event), NEW t \in Seq(Event), Len(t) = Len(s) + 1,
         \A i \in 1..Len(s) : t[i] = s[i], Covered(s),
         t[Len(t)].kind = "results" => RoundAt(s, 0, 0)
  PROVE  Covered(t)
<1>1. /\ Len(s) \in Nat /\ DOMAIN s = 1..Len(s) /\ DOMAIN t = 1..(Len(s) + 1)
      /\ Len(t) = Len(s) + 1
  OBVIOUS
<1>2. SUFFICES ASSUME NEW i \in DOMAIN t, t[i].kind = "results"
               PROVE  \E r \in 1..(i - 1) :
                          /\ t[r].kind = "agent"
                          /\ i = r + 2 * t[r].ref + 1
                          /\ \A k \in (r + 1)..(i - 1) : t[k].kind \in ToolKinds
  BY DEF Covered
<1>3. CASE i \in 1..Len(s)
  <2>1. s[i].kind = "results" /\ i \in DOMAIN s
    BY <1>1, <1>2, <1>3
  <2>2. PICK r \in 1..(i - 1) :
            /\ s[r].kind = "agent"
            /\ i = r + 2 * s[r].ref + 1
            /\ \A k \in (r + 1)..(i - 1) : s[k].kind \in ToolKinds
    BY <2>1 DEF Covered
  <2>3. t[r] = s[r] /\ \A k \in (r + 1)..(i - 1) : t[k] = s[k]
    BY <1>1, <1>3
  <2>4. QED
    BY <2>2, <2>3
<1>4. CASE i = Len(s) + 1
  <2>1. RoundAt(s, 0, 0)
    BY <1>1, <1>2, <1>4
  <2>2. PICK r \in DOMAIN s :
            /\ s[r].kind = "agent"
            /\ Len(s) + 2 * 0 = r + 2 * s[r].ref + 0
            /\ \A k \in (r + 1)..Len(s) : s[k].kind \in ToolKinds
    BY <2>1 DEF RoundAt
  <2>3. s[r].ref \in Nat
    <3>1. s[r] \in Event
      BY ElementOf
    <3>2. QED
      BY <3>1 DEF Event
  <2>4. /\ r \in 1..(i - 1) /\ t[r] = s[r] /\ i - 1 = Len(s)
        /\ \A k \in (r + 1)..(i - 1) : t[k] = s[k]
    BY <1>1, <1>4
  <2>5. i = r + 2 * t[r].ref + 1
    BY <1>1, <1>4, <2>2, <2>3, <2>4
  <2>6. QED
    BY <2>2, <2>4, <2>5
<1>5. QED
  BY <1>1, <1>3, <1>4

(* One more tool event.                                                    *)
LEMMA RoundGoesOn ==
  ASSUME NEW s \in Seq(Event), NEW t \in Seq(Event), Len(t) = Len(s) + 1,
         \A i \in 1..Len(s) : t[i] = s[i], t[Len(t)].kind \in ToolKinds,
         NEW left \in Nat, NEW under \in Nat, RoundAt(s, left, under)
  PROVE  RoundAt(t, left, under + 1)
<1>1. /\ Len(s) \in Nat /\ DOMAIN s = 1..Len(s) /\ DOMAIN t = 1..(Len(s) + 1)
      /\ Len(t) = Len(s) + 1
  OBVIOUS
<1>2. PICK r \in DOMAIN s :
          /\ s[r].kind = "agent"
          /\ Len(s) + 2 * left = r + 2 * s[r].ref + under
          /\ \A k \in (r + 1)..Len(s) : s[k].kind \in ToolKinds
  BY DEF RoundAt
<1>3. s[r].ref \in Nat
  <2>1. s[r] \in Event
    BY ElementOf
  <2>2. QED
    BY <2>1 DEF Event
<1>4. r \in DOMAIN t /\ t[r] = s[r]
  BY <1>1
<1>5. Len(t) + 2 * left = r + 2 * t[r].ref + (under + 1)
  <2>1. ASSUME NEW a \in Nat, NEW b \in Nat, NEW c \in Nat,
               a + 2 * left = c + 2 * b + under
        PROVE  (a + 1) + 2 * left = c + 2 * b + (under + 1)
    BY <2>1
  <2>2. r \in Nat /\ Len(s) \in Nat /\ t[r].ref = s[r].ref /\ Len(t) = Len(s) + 1
    BY <1>1, <1>4
  <2>3. (Len(s) + 1) + 2 * left = r + 2 * s[r].ref + (under + 1)
    BY <1>2, <1>3, <2>1, <2>2
  <2>4. QED
    BY <2>2, <2>3
<1>6. ASSUME NEW k \in (r + 1)..Len(t) PROVE t[k].kind \in ToolKinds
  <2>1. CASE k = Len(t)
    BY <2>1
  <2>2. CASE k # Len(t)
    <3>1. k \in (r + 1)..Len(s) /\ t[k] = s[k]
      BY <1>1, <2>2
    <3>2. QED
      BY <1>2, <3>1
  <2>3. QED
    BY <2>1, <2>2
<1>7. QED
  BY <1>2, <1>4, <1>5, <1>6 DEF RoundAt

LEMMA PushedEvents ==
  ASSUME IInv, NEW kind \in Kinds, NEW ref \in Nat, Push(kind, ref)
  PROVE  /\ chat.events \in Seq(Event) /\ chat'.events \in Seq(Event)
         /\ Len(chat.events) \in Nat /\ Len(chat'.events) = Len(chat.events) + 1
         /\ \A i \in 1..Len(chat.events) : chat'.events[i] = chat.events[i]
         /\ chat'.events[Len(chat'.events)].kind = kind
         /\ chat'.events[Len(chat'.events)].ref = ref
         /\ chat'.events[Len(chat'.events)].id = nextId
         /\ disk' = chat' \/ disk' = disk
<1>1. TypeOK
  BY DEF IInv
<1>2. /\ chat.events \in Seq(Event) /\ chat' \in Chat
      /\ Len(chat.events) \in Nat /\ Len(chat'.events) = Len(chat.events) + 1
      /\ \A i \in 1..Len(chat.events) : chat'.events[i] = chat.events[i]
      /\ Last(chat'.events) = chat'.events[Len(chat.events) + 1]
      /\ Last(chat'.events).kind = kind
      /\ Last(chat'.events).ref = ref
      /\ Last(chat'.events).id = nextId
      /\ disk' = chat' \/ disk' = disk
  BY <1>1, ChatFields, PushEffect
<1>3. chat'.events \in Seq(Event)
  BY <1>2 DEF Chat
<1>4. QED
  BY <1>2, <1>3

LEMMA CoverageKept ==
  ASSUME IInv, RoundInv, NEW kind \in Kinds, NEW ref \in Nat, Push(kind, ref),
         kind = "results" => RoundAt(chat.events, 0, 0)
  PROVE  Covered(chat.events)' /\ Covered(disk.events)'
<1>. DEFINE s == chat.events
            t == chat'.events
<1>1. /\ s \in Seq(Event) /\ t \in Seq(Event) /\ Len(t) = Len(s) + 1
      /\ \A i \in 1..Len(s) : t[i] = s[i]
      /\ t[Len(t)].kind = kind
      /\ disk' = chat' \/ disk' = disk
  BY PushedEvents
<1>2. Covered(s) /\ Covered(disk.events)
  BY DEF RoundInv
<1>. HIDE DEF s, t
<1>3. Covered(t)
  BY <1>1, <1>2, CoveredPush DEF s
<1>4. Covered(chat'.events) /\ Covered(disk'.events)
  BY <1>1, <1>2, <1>3 DEF t
<1>5. QED
  BY <1>4 DEF Covered

LEMMA RoundKeeps == IInv /\ RoundInv /\ [Next]_vars => RoundInv'
<1>. SUFFICES ASSUME IInv, RoundInv, [Next]_vars PROVE RoundInv'
  OBVIOUS
<1>1. /\ TypeOK /\ calls \in Nat /\ nextId \in Nat /\ call \in Nat
      /\ RoundStands /\ Covered(chat.events) /\ Covered(disk.events)
  BY RunnerAssumption DEF IInv, TypeOK, RoundInv
<1>2. ASSUME UNCHANGED <<chat, disk>>, RoundStands' PROVE RoundInv'
  BY <1>1, <1>2 DEF RoundInv, Covered
<1>3. CASE UNCHANGED vars
  BY <1>1, <1>2, <1>3 DEF vars, volatile, durable, RoundStands, RoundAt
<1>4. CASE Spawn
  <2>1. pc' = "recv" /\ chat' = chat
    BY <1>4 DEF Spawn, Goto
  <2>2. disk' = NoEvents \/ disk' = disk
    BY <1>4 DEF Spawn, SaveQuietly
  <2>3. Covered(NoEvents.events)
    BY DEF Covered, NoEvents
  <2>4. QED
    BY <1>1, <2>1, <2>2, <2>3 DEF RoundInv, RoundStands, Covered
<1>5. CASE Send \/ SendShutdown
  <2>1. UNCHANGED <<pc, chat, calls, disk>>
    BY <1>5 DEF Send, SendShutdown, durable
  <2>2. RoundStands'
    BY <1>1, <2>1 DEF RoundStands, RoundAt
  <2>3. QED
    BY <1>2, <2>1, <2>2
<1>6. CASE RecvUser
  <2>1. pc' = "accepted" /\ Push("user", Head(mailbox)) /\ mailbox # <<>>
    BY <1>6 DEF RecvUser, Ready
  <2>2. Head(mailbox) \in Nat /\ "user" \in Kinds
    <3>1. mailbox \in Seq(0..MaxMessages)
      BY <1>1 DEF TypeOK
    <3>2. 1 \in DOMAIN mailbox /\ Head(mailbox) = mailbox[1]
      BY <2>1, <3>1
    <3>3. mailbox[1] \in 0..MaxMessages
      BY <3>1, <3>2, ElementOf
    <3>4. QED
      BY <3>2, <3>3 DEF Kinds
  <2>3. Covered(chat.events)' /\ Covered(disk.events)'
    BY <2>1, <2>2, CoverageKept
  <2>4. RoundStands'
    BY <2>1 DEF RoundStands
  <2>5. QED
    BY <2>3, <2>4 DEF RoundInv
<1>7. CASE PublishUser \/ StreamDelta \/ RecvShutdown
  <2>1. pc' \in {"completing", "closing"} /\ UNCHANGED <<chat, disk>>
    BY <1>7 DEF PublishUser, StreamDelta, RecvShutdown, Goto, durable
  <2>2. RoundStands'
    BY <2>1 DEF RoundStands
  <2>3. QED
    BY <1>2, <2>1, <2>2
<1>8. CASE Complete
  <2>1. PICK kind \in {"agent", "error"}, n \in 0..MaxCalls :
            Reply(kind, n) /\ (kind = "error" => n = 0)
    BY <1>8, RunnerAssumption DEF Complete, CompleteStop, CompleteError, CompleteTools
  <2>2. /\ pc' = "replied" /\ calls' = n /\ Push(kind, n) /\ kind \in Kinds /\ n \in Nat
    BY <2>1, RunnerAssumption DEF Reply, Goto, Kinds
  <2>3. Covered(chat.events)' /\ Covered(disk.events)'
    BY <2>1, <2>2, CoverageKept
  <2>4. ASSUME n > 0 PROVE RoundAt(chat'.events, n, 0)
    <3>. DEFINE t == chat'.events
    <3>1. /\ t \in Seq(Event) /\ Len(t) \in Nat \ {0}
          /\ t[Len(t)].kind = kind /\ t[Len(t)].ref = n
      BY <2>2, PushedEvents
    <3>2. kind = "agent"
      BY <2>1, <2>4
    <3>. HIDE DEF t
    <3>3. Len(t) \in DOMAIN t /\ Len(t) + 2 * n = Len(t) + 2 * t[Len(t)].ref + 0
      BY <2>2, <3>1
    <3>4. \A k \in (Len(t) + 1)..Len(t) : t[k].kind \in ToolKinds
      BY <3>1
    <3>5. QED
      BY <3>1, <3>2, <3>3, <3>4 DEF RoundAt, t
  <2>5. RoundStands'
    BY <2>2, <2>4 DEF RoundStands, RoundAt
  <2>6. QED
    BY <2>3, <2>5 DEF RoundInv
<1>9. CASE PublishReply
  <2>1. pc = "replied" /\ UNCHANGED <<chat, disk, calls>>
        /\ (pc' = "recv" \/ (calls # 0 /\ pc' = "dispatching"))
    BY <1>9 DEF PublishReply, durable
  <2>2. pc' = "dispatching" => RoundAt(chat.events, calls, 0)
    BY <1>1, <2>1 DEF RoundStands
  <2>3. RoundStands'
    BY <2>1, <2>2 DEF RoundStands, RoundAt
  <2>4. QED
    BY <1>2, <2>1, <2>3
<1>10. CASE StartCall
  <2>1. /\ pc = "dispatching" /\ pc' = "started" /\ calls' = calls
        /\ Push("started", nextId) /\ "started" \in Kinds
    BY <1>10 DEF StartCall, Goto, Kinds
  <2>2. Covered(chat.events)' /\ Covered(disk.events)'
    BY <1>1, <2>1, CoverageKept
  <2>3. RoundAt(chat'.events, calls, 1)
    <3>. DEFINE s == chat.events
                t == chat'.events
    <3>1. /\ s \in Seq(Event) /\ t \in Seq(Event) /\ Len(t) = Len(s) + 1
          /\ \A i \in 1..Len(s) : t[i] = s[i] /\ t[Len(t)].kind = "started"
      BY <1>1, <2>1, PushedEvents
    <3>2. RoundAt(s, calls, 0)
      BY <1>1, <2>1 DEF RoundStands
    <3>3. t[Len(t)].kind \in ToolKinds
      <4>1. t[Len(t)].kind = "started"
        BY <1>1, <2>1, PushedEvents
      <4>2. QED
        BY <4>1 DEF ToolKinds
    <3>. HIDE DEF s, t
    <3>4. RoundAt(t, calls, 0 + 1)
      BY <1>1, <3>1, <3>2, <3>3, RoundGoesOn
    <3>5. QED
      BY <3>4 DEF t
  <2>4. RoundStands'
    BY <2>1, <2>3 DEF RoundStands, RoundAt
  <2>5. QED
    BY <2>2, <2>4 DEF RoundInv
<1>11. CASE PublishStarted
  <2>1. /\ pc = "started" /\ pc' = "executing" /\ UNCHANGED <<chat, disk, calls>>
    BY <1>11 DEF PublishStarted, Goto, durable
  <2>2. RoundStands'
    BY <1>1, <2>1 DEF RoundStands, RoundAt
  <2>3. QED
    BY <1>2, <2>1, <2>2
<1>12. CASE FinishCall
  <2>1. PICK kind \in Outcomes : Push(kind, call)
    BY <1>12 DEF FinishCall
  <2>2. /\ pc = "executing" /\ pc' = "finished" /\ calls' = calls
        /\ kind \in Kinds /\ kind \in ToolKinds /\ kind # "results"
    BY <1>12 DEF FinishCall, Goto, Kinds, Outcomes, ToolKinds
  <2>3. Covered(chat.events)' /\ Covered(disk.events)'
    BY <1>1, <2>1, <2>2, CoverageKept
  <2>4. RoundAt(chat'.events, calls, 2)
    <3>. DEFINE s == chat.events
                t == chat'.events
    <3>1. /\ s \in Seq(Event) /\ t \in Seq(Event) /\ Len(t) = Len(s) + 1
          /\ \A i \in 1..Len(s) : t[i] = s[i]
          /\ t[Len(t)].kind \in ToolKinds
      BY <1>1, <2>1, <2>2, PushedEvents
    <3>2. RoundAt(s, calls, 1)
      BY <1>1, <2>2 DEF RoundStands
    <3>. HIDE DEF s, t
    <3>3. RoundAt(t, calls, 1 + 1)
      BY <1>1, <3>1, <3>2, RoundGoesOn
    <3>4. QED
      BY <3>3 DEF t
  <2>5. RoundStands'
    BY <2>2, <2>4 DEF RoundStands, RoundAt
  <2>6. QED
    BY <2>3, <2>5 DEF RoundInv
<1>13. CASE PublishOutcome
  <2>1. /\ pc = "finished" /\ pc' = "dispatching" /\ UNCHANGED <<chat, disk>>
        /\ calls' = calls - 1
    BY <1>13 DEF PublishOutcome, Goto, durable
  <2>2. calls > 0 /\ chat.events \in Seq(Event)
    BY <1>1, <2>1, ChatFields DEF IInv, Counting
  <2>3. PICK r \in DOMAIN chat.events :
            /\ chat.events[r].kind = "agent"
            /\ Len(chat.events) + 2 * calls = r + 2 * chat.events[r].ref + 2
            /\ \A k \in (r + 1)..Len(chat.events) : chat.events[k].kind \in ToolKinds
    BY <1>1, <2>1 DEF RoundStands, RoundAt
  <2>4. chat.events[r].ref \in Nat /\ Len(chat.events) \in Nat /\ r \in Nat
    <3>1. chat.events[r] \in Event
      BY <2>2, ElementOf
    <3>2. QED
      BY <2>2, <3>1 DEF Event
  <2>5. Len(chat.events) + 2 * (calls - 1) = r + 2 * chat.events[r].ref + 0
    <3>. DEFINE n == Len(chat.events)
                f == chat.events[r].ref
    <3>1. n \in Nat /\ f \in Nat /\ r \in Nat /\ calls \in Nat
          /\ n + 2 * calls = r + 2 * f + 2
      BY <1>1, <2>3, <2>4
    <3>. HIDE DEF n, f
    <3>2. n + 2 * (calls - 1) = r + 2 * f + 0
      BY <3>1
    <3>3. QED
      BY <3>2 DEF n, f
  <2>6. RoundAt(chat.events, calls - 1, 0)
    BY <2>3, <2>5 DEF RoundAt
  <2>7. RoundStands'
    BY <2>1, <2>6 DEF RoundStands, RoundAt
  <2>8. QED
    BY <1>2, <2>1, <2>7
<1>14. CASE PushResults
  <2>1. /\ pc = "dispatching" /\ pc' = "completing" /\ calls = 0
        /\ Push("results", 0) /\ "results" \in Kinds
    BY <1>14 DEF PushResults, Goto, RoundDone, Kinds
  <2>2. RoundAt(chat.events, 0, 0)
    BY <1>1, <2>1 DEF RoundStands
  <2>3. Covered(chat.events)' /\ Covered(disk.events)'
    BY <2>1, <2>2, CoverageKept
  <2>4. RoundStands'
    BY <2>1 DEF RoundStands
  <2>5. QED
    BY <2>3, <2>4 DEF RoundInv
<1>15. CASE Close
  <2>1. pc' = "exited" /\ chat' = chat
    BY <1>15 DEF Close, Goto
  <2>2. disk' = chat \/ disk' = disk
    BY <1>15 DEF Close, SaveQuietly
  <2>3. QED
    BY <1>1, <2>1, <2>2 DEF RoundInv, RoundStands, Covered
<1>16. CASE Crash
  <2>1. pc' = "down" /\ chat' = NoEvents /\ disk' = disk
    BY <1>16 DEF Crash, durable
  <2>2. Covered(NoEvents.events)
    BY DEF Covered, NoEvents
  <2>3. QED
    BY <1>1, <2>1, <2>2 DEF RoundInv, RoundStands, Covered
<1>17. CASE Restore
  <2>1. pc' = "recv" /\ chat' = disk
    BY <1>17 DEF Restore, Goto, LoadedChat
  <2>2. disk' = disk
    BY <1>17 DEF Restore, SaveQuietly, LoadedChat
  <2>3. QED
    BY <1>1, <2>1, <2>2 DEF RoundInv, RoundStands, Covered
<1>18. QED
  BY <1>3, <1>4, <1>5, <1>6, <1>7, <1>8, <1>9, <1>10, <1>11, <1>12, <1>13, <1>14,
     <1>15, <1>16, <1>17 DEF Next, Run

(* The results that go back to the model cover every call it asked for.    *)
THEOREM ResultsAreComplete == Spec => []ResultsCoverTheCalls
<1>1. Init => RoundInv
  BY DEF Init, NoEvents, RoundInv, RoundStands, Covered
<1>2. IInv /\ RoundInv /\ [Next]_vars => RoundInv'
  BY RoundKeeps
<1>3. RoundInv => ResultsCoverTheCalls
  BY DEF RoundInv, ResultsCoverTheCalls
<1>4. QED
  BY <1>1, <1>2, <1>3, Invariance, PTL DEF Spec

-----------------------------------------------------------------------------
(* What the bus has told                                                 *)

(* Ids *)

LEMMA LinkedLonger ==
  ASSUME NEW s \in Seq(Event), NEW n \in Nat, NEW m \in Nat, n <= m, Linked(s, n)
  PROVE  Linked(s, m)
<1>1. \A i \in 1..(n - 1) : i \in 1..(m - 1)
  OBVIOUS
<1>2. QED
  BY <1>1 DEF Linked

LEMMA LinkedPush ==
  ASSUME NEW s \in Seq(Event), NEW n \in Nat \ {0}, Linked(s, n), NEW e \in Event,
         e.id = n, e.parent = LastId(s)
  PROVE  Linked(Append(s, e), n + 1)
<1>. DEFINE t == Append(s, e)
<1>1. /\ Len(s) \in Nat /\ DOMAIN s = 1..Len(s) /\ DOMAIN t = 1..(Len(s) + 1)
      /\ \A i \in 1..Len(s) : t[i] = s[i]
      /\ t[Len(s) + 1] = e
  BY AppendEvent
<1>. HIDE DEF t
<1>2. \A k \in 1..Len(s) : s[k].id \in 1..(n - 1)
  BY <1>1 DEF Linked
<1>3. ASSUME NEW l \in DOMAIN t, NEW k \in 1..(l - 1) PROVE t[k].id < t[l].id
  <2>1. k \in 1..Len(s) /\ t[k] = s[k]
    BY <1>1
  <2>2. CASE l = Len(s) + 1
    <3>1. s[k].id \in 1..(n - 1) /\ t[l].id = n
      BY <1>1, <1>2, <2>1, <2>2
    <3>2. QED
      BY <2>1, <3>1
  <2>3. CASE l # Len(s) + 1
    <3>1. l \in DOMAIN s /\ t[l] = s[l]
      BY <1>1, <2>3
    <3>2. QED
      BY <2>1, <3>1 DEF Linked, IdsCountUp
  <2>4. QED
    BY <2>2, <2>3
<1>4. ASSUME NEW k \in DOMAIN t
      PROVE  t[k].id \in 1..((n + 1) - 1) /\ t[k].parent = IF k = 1 THEN 0 ELSE t[k - 1].id
  <2>1. CASE k = Len(s) + 1
    <3>1. t[k] = e /\ n \in 1..((n + 1) - 1)
      BY <1>1, <2>1
    <3>2. CASE k = 1
      <4>1. s = <<>>
        BY <1>1, <2>1, <3>2
      <4>2. e.parent = 0
        BY <4>1 DEF LastId
      <4>3. QED
        BY <3>1, <3>2, <4>2
    <3>3. CASE k # 1
      <4>1. s # <<>> /\ k - 1 = Len(s) /\ k - 1 \in 1..Len(s)
        BY <1>1, <2>1, <3>3
      <4>2. e.parent = s[k - 1].id
        BY <4>1 DEF LastId, Last
      <4>3. t[k - 1] = s[k - 1]
        BY <1>1, <4>1
      <4>4. QED
        BY <3>1, <3>3, <4>2, <4>3
    <3>4. QED
      BY <3>2, <3>3
  <2>2. CASE k # Len(s) + 1
    <3>1. k \in DOMAIN s /\ k \in 1..Len(s) /\ t[k] = s[k]
      BY <1>1, <2>2
    <3>2. s[k].id \in 1..((n + 1) - 1)
      <4>1. s[k].id \in 1..(n - 1)
        BY <1>2, <3>1
      <4>2. QED
        BY <4>1
    <3>3. s[k].parent = IF k = 1 THEN 0 ELSE s[k - 1].id
      BY <3>1 DEF Linked
    <3>4. k # 1 => t[k - 1] = s[k - 1]
      BY <1>1, <3>1
    <3>5. QED
      BY <3>1, <3>2, <3>3, <3>4
  <2>3. QED
    BY <2>1, <2>2
<1>5. QED
  BY <1>3, <1>4 DEF Linked, IdsCountUp, t

LEMMA PushLinks ==
  ASSUME IInv, NEW kind \in Kinds, NEW ref \in Nat, Push(kind, ref),
         Linked(chat.events, nextId), Linked(disk.events, nextId)
  PROVE  Linked(chat'.events, nextId') /\ Linked(disk'.events, nextId')
<1>. DEFINE e == [id |-> nextId, parent |-> ParentOf(chat), kind |-> kind, ref |-> ref]
<1>1. /\ TypeOK /\ chat.events \in Seq(Event) /\ disk.events \in Seq(Event)
      /\ nextId \in Nat \ {0}
  BY ChatFields DEF IInv, TypeOK
<1>2. e \in Event /\ e.id = nextId /\ e.parent = LastId(chat.events)
  BY <1>1, LastIdType DEF ParentOf, Event
<1>3. chat'.events = Append(chat.events, e) /\ nextId' = nextId + 1
  BY DEF Push, Pushed
<1>. HIDE DEF e
<1>4. Linked(chat'.events, nextId')
  BY <1>1, <1>2, <1>3, LinkedPush
<1>5. Linked(disk.events, nextId')
  BY <1>1, <1>3, LinkedLonger
<1>6. disk' = chat' \/ disk' = disk
  BY PushedEvents
<1>7. QED
  BY <1>4, <1>5, <1>6

-----------------------------------------------------------------------------
(* Where the process resumed *)

LEMMA GreatestOf ==
  ASSUME NEW n \in Nat, NEW C \in SUBSET (0..n), C # {}
  PROVE  \E i \in C : \A j \in C : j <= i
<1>. DEFINE S == {c + 1 : c \in C}
<1>1. S \in SUBSET (1..(n + 1)) /\ S # {}
  OBVIOUS
<1>2. PICK i \in S : \A j \in S : j <= i
  <2>. HIDE DEF S
  <2>1. n + 1 \in Nat
    OBVIOUS
  <2>2. QED
    BY <1>1, <2>1, LargestOf
<1>3. PICK c \in C : i = c + 1
  OBVIOUS
<1>4. ASSUME NEW d \in C PROVE d <= c
  <2>1. d + 1 \in S
    OBVIOUS
  <2>2. d + 1 <= c + 1 /\ d \in Nat /\ c \in Nat
    BY <1>2, <1>3, <2>1
  <2>3. QED
    BY <2>2
<1>5. QED
  BY <1>4

LEMMA ResumedType ==
  ASSUME TypeOK, \A n \in cuts : n <= Len(disk.events)
  PROVE  /\ Resumed \in Nat /\ Resumed <= Len(disk.events)
         /\ cuts \in SUBSET (0..Len(disk.events))
<1>1. Len(disk.events) \in Nat
  BY ChatFields
<1>2. cuts \in SUBSET (0..Len(disk.events))
  BY <1>1 DEF TypeOK
<1>3. CASE cuts = {}
  BY <1>1, <1>2, <1>3 DEF Resumed
<1>4. CASE cuts # {}
  <2>1. \E n \in cuts : \A m \in cuts : m <= n
    BY <1>1, <1>2, <1>4, GreatestOf
  <2>2. Resumed = CHOOSE n \in cuts : \A m \in cuts : m <= n
    BY <1>4 DEF Resumed
  <2>3. Resumed \in cuts
    BY <2>1, <2>2
  <2>4. QED
    BY <1>1, <1>2, <2>3
<1>5. QED
  BY <1>3, <1>4

LEMMA ResumedNow ==
  ASSUME TypeOK, \A n \in cuts : n <= Len(disk.events),
         cuts' = cuts \cup {Len(disk.events)}
  PROVE  Resumed' = Len(disk.events)
<1>. DEFINE l == Len(disk.events)
<1>1. l \in Nat /\ cuts \in SUBSET (0..l)
  BY ResumedType, ChatFields
<1>2. cuts' # {} /\ l \in cuts' /\ \A m \in cuts' : m <= l
  BY <1>1
<1>3. Resumed' = CHOOSE n \in cuts' : \A m \in cuts' : m <= n
  BY <1>2 DEF Resumed
<1>4. Resumed' \in cuts' /\ \A m \in cuts' : m <= Resumed'
  BY <1>2, <1>3
<1>5. l <= Resumed' /\ Resumed' <= l /\ Resumed' \in Nat
  BY <1>1, <1>2, <1>4
<1>. HIDE DEF l
<1>6. QED
  BY <1>1, <1>5 DEF l

-----------------------------------------------------------------------------
(* What has been announced *)

(* Envelopes that announce nothing.                                        *)
LEMMA QuietBus ==
  ASSUME NEW b \in Seq(Envelope), NEW c \in Seq(Envelope), Len(b) <= Len(c),
         \A i \in 1..Len(b) : c[i] = b[i],
         \A i \in (Len(b) + 1)..Len(c) : ~Announces(c[i])
  PROVE  /\ Announced(c) = Announced(b)
         /\ {c[i].ref : i \in Announced(c)} = {b[i].ref : i \in Announced(b)}
         /\ RefsCountUp(b) => RefsCountUp(c)
<1>1. /\ Len(b) \in Nat /\ Len(c) \in Nat
      /\ DOMAIN b = 1..Len(b) /\ DOMAIN c = 1..Len(c)
  OBVIOUS
<1>2. \A i \in Announced(c) : i \in Announced(b)
  BY <1>1 DEF Announced
<1>3. \A i \in Announced(b) : i \in Announced(c) /\ c[i] = b[i]
  BY <1>1 DEF Announced
<1>4. Announced(c) = Announced(b)
  BY <1>2, <1>3
<1>5. {c[i].ref : i \in Announced(c)} = {b[i].ref : i \in Announced(b)}
  BY <1>3, <1>4
<1>6. RefsCountUp(b) => RefsCountUp(c)
  BY <1>3, <1>4 DEF RefsCountUp
<1>7. QED
  BY <1>4, <1>5, <1>6

(* One that announces an event newer than those announced before.          *)
LEMMA NewsOnBus ==
  ASSUME NEW b \in Seq(Envelope), NEW c \in Seq(Envelope), Len(b) < Len(c),
         \A i \in 1..Len(b) : c[i] = b[i],
         Announces(c[Len(b) + 1]),
         \A i \in (Len(b) + 2)..Len(c) : ~Announces(c[i]),
         \A i \in Announced(b) : b[i].ref < c[Len(b) + 1].ref,
         RefsCountUp(b)
  PROVE  /\ {c[i].ref : i \in Announced(c)}
                = {b[i].ref : i \in Announced(b)} \cup {c[Len(b) + 1].ref}
         /\ RefsCountUp(c)
<1>. DEFINE n == Len(b) + 1
            ref == c[Len(b) + 1].ref
<1>1. /\ Len(b) \in Nat /\ Len(c) \in Nat /\ n \in DOMAIN c
      /\ DOMAIN b = 1..Len(b) /\ DOMAIN c = 1..Len(c)
  OBVIOUS
<1>2. ASSUME NEW i \in Announced(c) PROVE i \in Announced(b) \/ i = n
  <2>1. i \in 1..Len(c) /\ Announces(c[i])
    BY <1>1 DEF Announced
  <2>2. CASE i \in 1..Len(b)
    BY <1>1, <2>1, <2>2 DEF Announced
  <2>3. CASE i \notin 1..Len(b) /\ i # n
    <3>1. i \in (Len(b) + 2)..Len(c)
      BY <1>1, <2>1, <2>3
    <3>2. QED
      BY <2>1, <3>1
  <2>4. QED
    BY <2>2, <2>3
<1>3. \A i \in Announced(b) : i \in Announced(c) /\ c[i] = b[i] /\ i \in Nat /\ i < n
  BY <1>1 DEF Announced
<1>4. n \in Announced(c) /\ c[n].ref = ref
  BY <1>1 DEF Announced
<1>4b. \A i \in Announced(b) : b[i].ref < ref
  OBVIOUS
<1>. HIDE DEF n, ref
<1>5. {c[i].ref : i \in Announced(c)} = {b[i].ref : i \in Announced(b)} \cup {ref}
  BY <1>2, <1>3, <1>4
<1>6. ASSUME NEW i \in Announced(c), NEW j \in Announced(c), i < j
      PROVE  c[i].ref < c[j].ref
  <2>1. CASE j \in Announced(b)
    <3>1. i \in Announced(b)
      BY <1>2, <1>3, <1>6, <1>1, <2>1 DEF n
    <3>2. QED
      BY <1>3, <1>6, <2>1, <3>1 DEF RefsCountUp
  <2>2. CASE j = n
    <3>1. i \in Announced(b)
      BY <1>1, <1>2, <1>6, <2>2 DEF n
    <3>2. QED
      BY <1>3, <1>4, <1>4b, <2>2, <3>1
  <2>3. QED
    BY <1>2, <2>1, <2>2
<1>7. QED
  BY <1>5, <1>6 DEF RefsCountUp, ref

Known(s, from, pending) == {s[k].id : k \in Public(s, from, pending)}

(* An event that joins the transcript is not to be known of yet.           *)
LEMMA PublicAfterPush ==
  ASSUME NEW s \in Seq(Event), NEW t \in Seq(Event), Len(t) = Len(s) + 1,
         \A i \in 1..Len(s) : t[i] = s[i], NEW from \in Nat
  PROVE  /\ Known(t, from, TRUE)
                = Known(s, from, FALSE)
         /\ t[Len(t)].kind = "results" =>
                Known(t, from, FALSE)
                  = Known(s, from, FALSE)
<1>. SUFFICES ASSUME NEW pending \in BOOLEAN, pending \/ t[Len(t)].kind = "results"
              PROVE  Known(t, from, pending)
                       = Known(s, from, FALSE)
  BY Zenon
<1>1. Len(s) \in Nat /\ Len(t) = Len(s) + 1
  OBVIOUS
<1>2. ASSUME NEW k \in Public(t, from, pending)
      PROVE  k \in Public(s, from, FALSE) /\ t[k] = s[k]
  <2>1. k \in (from + 1)..Len(t) /\ t[k].kind # "results" /\ (pending => k # Len(t))
    BY DEF Public
  <2>2. k # Len(t)
    BY <2>1
  <2>3. k \in (from + 1)..Len(s) /\ k \in 1..Len(s)
    BY <1>1, <2>1, <2>2
  <2>4. QED
    BY <2>1, <2>3 DEF Public
<1>3. ASSUME NEW k \in Public(s, from, FALSE)
      PROVE  k \in Public(t, from, pending) /\ t[k] = s[k]
  <2>1. k \in (from + 1)..Len(s) /\ s[k].kind # "results"
    BY DEF Public
  <2>2. k \in (from + 1)..Len(t) /\ k \in 1..Len(s) /\ k # Len(t)
    BY <1>1, <2>1
  <2>3. QED
    BY <2>1, <2>2 DEF Public
<1>4. QED
  BY <1>2, <1>3 DEF Known

LEMMA PublicAfterAnnouncing ==
  ASSUME NEW s \in Seq(Event), NEW from \in Nat, from < Len(s), s[Len(s)].kind # "results"
  PROVE  Known(s, from, FALSE)
           = Known(s, from, TRUE) \cup {s[Len(s)].id}
<1>. DEFINE n == Len(s)
<1>1. n \in Nat /\ n \in (from + 1)..n
  OBVIOUS
<1>2. \A k : k \in Public(s, from, FALSE) <=> k \in Public(s, from, TRUE) \/ k = n
  BY <1>1 DEF Public
<1>. HIDE DEF n
<1>3. QED
  BY <1>2 DEF n, Known

LEMMA BusPush ==
  ASSUME IInv, BusInv, NEW kind \in Kinds, NEW ref \in Nat, Push(kind, ref),
         ~Pending, pc # "down", pc' # "down", Pending' \/ kind = "results",
         UNCHANGED cuts, Len(disk.events) <= Len(disk'.events)
  PROVE  BusInv'
<1>. DEFINE s == chat.events
            t == chat'.events
<1>1. /\ TypeOK /\ s \in Seq(Event) /\ t \in Seq(Event) /\ Len(t) = Len(s) + 1
      /\ Len(s) \in Nat
      /\ \A i \in 1..Len(s) : t[i] = s[i]
      /\ t[Len(t)].kind = kind
      /\ disk' = chat' \/ disk' = disk
      /\ bus \in Seq(Envelope)
  BY PushedEvents DEF IInv, TypeOK
<1>2. /\ Linked(chat.events, nextId) /\ Linked(disk.events, nextId)
      /\ \A n \in cuts : n <= Len(disk.events)
      /\ BusFollowsTranscript
  BY DEF BusInv
<1>3. Linked(chat'.events, nextId') /\ Linked(disk'.events, nextId')
  BY <1>2, PushLinks
<1>4. \A n \in cuts' : n <= Len(disk'.events)
  <2>1. ASSUME NEW n \in cuts PROVE n <= Len(disk'.events)
    <3>1. n \in Nat /\ n <= Len(disk.events) /\ Len(disk.events) \in Nat
      BY <1>1, <1>2, ChatFields DEF TypeOK
    <3>2. Len(disk'.events) \in Nat
      BY <1>1, ChatFields
    <3>3. QED
      BY <3>1, <3>2
  <2>2. QED
    BY <2>1
<1>5. Resumed \in Nat /\ Resumed <= Len(s) /\ Resumed' = Resumed
  <2>1. Resumed \in Nat /\ Resumed <= Len(disk.events)
    BY <1>1, <1>2, ResumedType
  <2>2. Len(disk.events) \in Nat /\ Len(disk.events) <= Len(s)
    BY <1>1, ChatFields DEF IInv, Durability, Extends
  <2>3. Resumed' = Resumed
    BY DEF Resumed
  <2>4. QED
    BY <1>1, <2>1, <2>2, <2>3
<1>6. Resumed' < Len(t)
  BY <1>1, <1>5
<1>7. BusFollowsTranscript'
  <2>1. /\ bus' \in Seq(Envelope) /\ Len(bus) <= Len(bus')
        /\ \A i \in 1..Len(bus) : bus'[i] = bus[i]
        /\ \A i \in (Len(bus) + 1)..Len(bus') : bus'[i].type = "error"
    BY <1>1, PushEffect
  <2>2. \A i \in (Len(bus) + 1)..Len(bus') : ~Announces(bus'[i])
    BY <2>1 DEF Announces
  <2>3. /\ {bus'[i].ref : i \in Announced(bus')} = {bus[i].ref : i \in Announced(bus)}
        /\ RefsCountUp(bus')
    <3>1. RefsCountUp(bus)
      BY <1>2 DEF BusFollowsTranscript
    <3>2. QED
      BY <1>1, <2>1, <2>2, <3>1, QuietBus
  <2>4. Pending' \in BOOLEAN /\ (Pending' \/ t[Len(t)].kind = "results")
    BY <1>1 DEF Pending
  <2>5. Pending = FALSE
    BY DEF Pending
  <2>6. {bus[i].ref : i \in Announced(bus)} = Known(s, Resumed, FALSE)
    BY <1>2, <2>5 DEF BusFollowsTranscript, Known
  <2>. HIDE DEF s, t
  <2>7. Known(t, Resumed, Pending') = Known(s, Resumed, FALSE)
    <3>1. Known(t, Resumed, TRUE) = Known(s, Resumed, FALSE)
      BY <1>1, <1>5, PublicAfterPush
    <3>2. t[Len(t)].kind = "results" =>
              Known(t, Resumed, FALSE) = Known(s, Resumed, FALSE)
      BY <1>1, <1>5, PublicAfterPush
    <3>3. CASE Pending' = TRUE
      BY <3>1, <3>3
    <3>4. CASE Pending' = FALSE
      BY <2>4, <3>2, <3>4
    <3>5. QED
      BY <2>4, <3>3, <3>4
  <2>8. IdsCountUp(t)
    BY <1>3 DEF Linked, t
  <2>9. {bus'[i].ref : i \in Announced(bus')} = Known(t, Resumed', Pending')
    BY <1>5, <2>3, <2>6, <2>7
  <2>10. QED
    BY <2>3, <2>8, <2>9 DEF BusFollowsTranscript, t, Known, Announced, RefsCountUp, Public, IdsCountUp
<1>8. QED
  BY <1>3, <1>4, <1>6, <1>7 DEF BusInv, Linked, IdsCountUp

LEMMA BusAnnounce ==
  ASSUME IInv, BusInv, NEW es \in Seq(Envelope), Publish(es), es # <<>>,
         Announces(es[1]), es[1].ref = Last(chat.events).id,
         \A i \in 2..Len(es) : ~Announces(es[i]),
         Last(chat.events).kind # "results", Pending, ~Pending', pc' # "down",
         UNCHANGED <<chat, disk, nextId, cuts>>
  PROVE  BusInv'
<1>. DEFINE s == chat.events
            ref == s[Len(s)].id
<1>1. /\ TypeOK /\ s \in Seq(Event) /\ Len(s) \in Nat /\ bus \in Seq(Envelope)
      /\ DOMAIN s = 1..Len(s) /\ DOMAIN bus = 1..Len(bus)
  BY ChatFields DEF IInv, TypeOK
<1>2. /\ Linked(s, nextId) /\ Linked(disk.events, nextId)
      /\ \A n \in cuts : n <= Len(disk.events)
      /\ BusFollowsTranscript /\ Resumed < Len(s)
  BY DEF BusInv
<1>3. Resumed \in Nat /\ Resumed' = Resumed
  <2>1. Resumed \in Nat
    BY <1>1, <1>2, ResumedType
  <2>2. QED
    BY <2>1 DEF Resumed
<1>4. Len(s) \in DOMAIN s /\ Last(s) = s[Len(s)]
  BY <1>1, <1>2, <1>3 DEF Last
<1>5. {bus[i].ref : i \in Announced(bus)} = Known(s, Resumed, TRUE)
  <2>1. Pending = TRUE
    BY DEF Pending
  <2>2. QED
    BY <1>2, <2>1 DEF BusFollowsTranscript, Known
<1>6. \A k \in Public(s, Resumed, TRUE) : s[k].id < ref
  <2>1. ASSUME NEW k \in Public(s, Resumed, TRUE) PROVE k \in 1..(Len(s) - 1)
    <3>1. k \in (Resumed + 1)..Len(s) /\ k # Len(s)
      BY DEF Public
    <3>2. QED
      BY <1>1, <1>3, <3>1
  <2>2. QED
    BY <1>2, <1>4, <2>1 DEF Linked, IdsCountUp
<1>7. \A i \in Announced(bus) : bus[i].ref < ref
  <2>. HIDE DEF s, ref
  <2>1. ASSUME NEW i \in Announced(bus) PROVE bus[i].ref \in Known(s, Resumed, TRUE)
    BY <1>5
  <2>2. QED
    BY <1>6, <2>1 DEF Known
<1>8. /\ bus' \in Seq(Envelope) /\ Len(bus) \in Nat /\ Len(es) \in Nat \ {0}
      /\ Len(bus') = Len(bus) + Len(es)
      /\ \A i \in 1..Len(bus) : bus'[i] = bus[i]
      /\ \A i \in (Len(bus) + 1)..Len(bus') :
             i - Len(bus) \in 1..Len(es) /\ bus'[i] = es[i - Len(bus)]
  <2>1. Len(es) \in Nat \ {0}
    OBVIOUS
  <2>2. QED
    BY <1>1, <2>1, PublishEffect
<1>9. bus'[Len(bus) + 1] = es[1]
  <2>1. Len(bus) + 1 \in (Len(bus) + 1)..Len(bus') /\ (Len(bus) + 1) - Len(bus) = 1
    BY <1>8
  <2>2. QED
    BY <1>8, <2>1
<1>10. \A i \in (Len(bus) + 2)..Len(bus') : ~Announces(bus'[i])
  <2>1. ASSUME NEW i \in (Len(bus) + 2)..Len(bus') PROVE ~Announces(bus'[i])
    <3>1. i \in (Len(bus) + 1)..Len(bus')
      BY <1>8
    <3>2. i - Len(bus) \in 2..Len(es)
      BY <1>8, <3>1
    <3>3. QED
      BY <1>8, <3>1, <3>2
  <2>2. QED
    BY <2>1
<1>11. es[1].ref = ref
  BY <1>4
<1>. HIDE DEF ref
<1>12. /\ {bus'[i].ref : i \in Announced(bus')} = {bus[i].ref : i \in Announced(bus)} \cup {ref}
       /\ RefsCountUp(bus')
  <2>1. RefsCountUp(bus) /\ Len(bus) < Len(bus')
    BY <1>2, <1>8 DEF BusFollowsTranscript
  <2>2. Announces(bus'[Len(bus) + 1]) /\ bus'[Len(bus) + 1].ref = ref
    BY <1>9, <1>11
  <2>3. QED
    BY <1>1, <1>7, <1>8, <1>10, <2>1, <2>2, NewsOnBus
<1>13. Known(s, Resumed, FALSE)
         = Known(s, Resumed, TRUE) \cup {ref}
  <2>1. s[Len(s)].kind # "results"
    BY <1>4
  <2>. HIDE DEF s
  <2>2. Known(s, Resumed, FALSE)
         = Known(s, Resumed, TRUE) \cup {s[Len(s)].id}
    <3>1. ASSUME NEW f \in Nat, f < Len(s)
          PROVE  Known(s, f, FALSE)
                   = Known(s, f, TRUE) \cup {s[Len(s)].id}
      BY <1>1, <2>1, <3>1, PublicAfterAnnouncing
    <3>2. QED
      BY <1>2, <1>3, <3>1
  <2>3. QED
    BY <2>2 DEF ref
<1>14. BusFollowsTranscript'
  <2>1. Pending' = FALSE /\ chat'.events = s
    BY DEF Pending
  <2>2. {bus'[i].ref : i \in Announced(bus')} = Known(s, Resumed', Pending')
    BY <1>3, <1>5, <1>12, <1>13, <2>1
  <2>3. IdsCountUp(s)
    BY <1>2 DEF Linked
  <2>4. QED
    BY <1>12, <2>1, <2>2, <2>3 DEF BusFollowsTranscript, Known, Announced, RefsCountUp, Public, IdsCountUp
<1>15. QED
  BY <1>2, <1>14 DEF BusInv, Linked, IdsCountUp

(* Nothing that matters to an observer happens.                            *)
LEMMA BusCalm ==
  ASSUME IInv, BusInv, Linked(disk.events, nextId)', Len(disk.events) <= Len(disk'.events),
         disk' \in Chat, UNCHANGED <<chat, nextId, cuts>>,
         Pending' = Pending, pc' # "down",
         Len(bus) <= Len(bus'), bus' \in Seq(Envelope), \A i \in 1..Len(bus) : bus'[i] = bus[i],
         \A i \in (Len(bus) + 1)..Len(bus') : ~Announces(bus'[i])
  PROVE  BusInv'
<1>1. TypeOK /\ bus \in Seq(Envelope) /\ Len(disk.events) \in Nat /\ Len(disk'.events) \in Nat
  <2>1. disk'.events \in Seq(Event)
    BY DEF Chat
  <2>2. QED
    BY <2>1, ChatFields DEF IInv, TypeOK
<1>2. BusFollowsTranscript /\ (Pending => Resumed < Len(chat.events)) /\ Resumed' = Resumed
  BY DEF BusInv, Resumed
<1>3. /\ {bus'[i].ref : i \in Announced(bus')} = {bus[i].ref : i \in Announced(bus)}
      /\ RefsCountUp(bus')
  <2>1. RefsCountUp(bus)
    BY <1>2 DEF BusFollowsTranscript
  <2>2. QED
    BY <1>1, <2>1, QuietBus
<1>4. {bus'[i].ref : i \in Announced(bus')}
        = {chat'.events[k].id : k \in Public(chat'.events, Resumed', Pending')}
  BY <1>2, <1>3 DEF BusFollowsTranscript
<1>5. \A n \in cuts' : n <= Len(disk'.events)
  <2>1. ASSUME NEW n \in cuts PROVE n <= Len(disk'.events)
    <3>1. n \in Nat /\ n <= Len(disk.events)
      BY <1>1 DEF TypeOK, BusInv
    <3>2. QED
      BY <1>1, <3>1
  <2>2. QED
    BY <2>1
<1>6. Linked(chat'.events, nextId') /\ IdsCountUp(chat'.events)
  BY DEF BusInv, Linked
<1>7. BusFollowsTranscript'
  BY <1>3, <1>4, <1>6 DEF BusFollowsTranscript, Known, Announced, RefsCountUp, Public, IdsCountUp
<1>8. QED
  BY <1>2, <1>5, <1>6, <1>7 DEF BusInv, Linked, IdsCountUp

(* A step that leaves the transcript, the bus and the resumption alone.    *)
LEMMA BusUntouched ==
  ASSUME IInv, BusInv, disk' \in {disk, chat}, Len(disk.events) <= Len(disk'.events),
         UNCHANGED <<chat, bus, nextId, cuts>>, Pending' = Pending, pc' # "down"
  PROVE  BusInv'
<1>1. disk' \in Chat /\ bus \in Seq(Envelope) /\ Len(bus) \in Nat
  BY DEF IInv, TypeOK
<1>2. Linked(disk'.events, nextId)
  BY DEF BusInv
<1>3. Linked(disk.events, nextId)'
  BY <1>2 DEF Linked, IdsCountUp
<1>4. QED
  BY <1>1, <1>3, BusCalm

(* Publishing something that announces no event.                           *)
LEMMA BusChatter ==
  ASSUME IInv, BusInv, NEW env \in Envelope, Publish(<<env>>), ~Announces(env),
         UNCHANGED <<chat, disk, nextId, cuts>>, Pending' = Pending, pc' # "down"
  PROVE  BusInv'
<1>1. /\ bus' \in Seq(Envelope) /\ Len(bus) \in Nat /\ Len(bus') = Len(bus) + 1
      /\ \A i \in 1..Len(bus) : bus'[i] = bus[i]
      /\ bus'[Len(bus) + 1] = env
  <2>1. bus \in Seq(Envelope) /\ bus' = bus \o <<env>>
    BY DEF IInv, TypeOK, Publish
  <2>2. QED
    BY <2>1
<1>2. \A i \in (Len(bus) + 1)..Len(bus') : ~Announces(bus'[i])
  BY <1>1
<1>3. Linked(disk.events, nextId)' /\ disk' \in Chat /\ Len(disk.events) <= Len(disk'.events)
  <2>1. Len(disk.events) \in Nat /\ disk \in Chat
    BY ChatFields DEF IInv, TypeOK
  <2>2. QED
    BY <2>1 DEF BusInv, Linked, IdsCountUp
<1>4. QED
  BY <1>1, <1>2, <1>3, BusCalm

(* Announcing the event at the end of the transcript, and perhaps the turn. *)
LEMMA BusNews ==
  ASSUME IInv, BusInv, chat.events # <<>>, Last(chat.events).kind # "results",
         NEW type \in {"message", "tool"}, NEW turn \in {"turnStarted", "turnFinished"},
         \/ Publish(<<Env(type, Last(chat.events).id)>>)
         \/ Publish(<<Env(type, Last(chat.events).id), Env(turn, 0)>>),
         Pending, ~Pending', pc' # "down", UNCHANGED <<chat, disk, nextId, cuts>>
  PROVE  BusInv'
<1>. DEFINE id == Last(chat.events).id
            a == Env(type, id)
            b == Env(turn, 0)
<1>1. id \in Nat
  BY ChatFields, LastType DEF Event, IInv
<1>2. a \in Envelope /\ Announces(a) /\ a.ref = id
  BY <1>1, EnvType DEF Announces
<1>3. b \in Envelope /\ ~Announces(b)
  BY EnvType DEF Announces
<1>4. Publish(<<a>>) \/ Publish(<<a, b>>)
  OBVIOUS
<1>. HIDE DEF a, b
<1>5. ASSUME NEW es \in {<<a>>, <<a, b>>}
      PROVE  /\ es \in Seq(Envelope) /\ es # <<>> /\ Announces(es[1]) /\ es[1].ref = id
             /\ \A i \in 2..Len(es) : ~Announces(es[i])
  <2>1. CASE es = <<a>>
    BY <1>2, <2>1
  <2>2. CASE es = <<a, b>>
    BY <1>2, <1>3, <2>2
  <2>3. QED
    BY <2>1, <2>2
<1>6. PICK es \in {<<a>>, <<a, b>>} : Publish(es)
  BY <1>4
<1>. HIDE DEF id
<1>7. es[1].ref = Last(chat.events).id
  BY <1>5 DEF id
<1>8. QED
  BY <1>5, <1>6, <1>7, BusAnnounce

LEMMA BusKeeps == IInv /\ BusInv /\ [Next]_vars => BusInv'
<1>. SUFFICES ASSUME IInv, BusInv, [Next]_vars PROVE BusInv'
  OBVIOUS
<1>1. /\ TypeOK /\ nextId \in Nat /\ call \in Nat /\ MaxCalls \in Nat
      /\ Standing
  BY RunnerAssumption DEF IInv, TypeOK
<1>2. Len(disk.events) \in Nat /\ Len(disk.events) <= Len(disk'.events)
  BY <1>1, NextGrows, ChatFields DEF Extends
<1>3. CASE UNCHANGED vars
  <2>1. UNCHANGED <<pc, chat, bus, disk, nextId, cuts>>
    BY <1>3 DEF vars, volatile, durable, observed
  <2>2. Resumed' = Resumed /\ Pending' = Pending
    BY <2>1 DEF Resumed, Pending
  <2>3. BusFollowsTranscript'
    <3>. DEFINE Carried(b) == {b[i].ref : i \in Announced(b)}
    <3>1. Carried(bus) = Known(chat.events, Resumed, Pending)
      BY DEF BusInv, BusFollowsTranscript, Known
    <3>2. RefsCountUp(bus) /\ IdsCountUp(chat.events)
      BY DEF BusInv, BusFollowsTranscript
    <3>. HIDE DEF Carried
    <3>3. Carried(bus') = Known(chat'.events, Resumed', Pending')
      BY <2>1, <2>2, <3>1
    <3>4. RefsCountUp(bus') /\ IdsCountUp(chat'.events)
      BY <2>1, <3>2
    <3>5. QED
      BY <3>3, <3>4 DEF Carried, Known, BusFollowsTranscript, Announced, RefsCountUp, Public, IdsCountUp
  <2>4. QED
    BY <2>1, <2>2, <2>3 DEF BusInv, Linked, IdsCountUp
<1>4. CASE Spawn
  <2>1. UNCHANGED <<chat, bus, nextId, cuts>> /\ Pending' = Pending /\ pc' # "down"
    BY <1>4 DEF Spawn, Goto, Pending
  <2>2. disk' = NoEvents \/ disk' = disk
    BY <1>4 DEF Spawn, SaveQuietly
  <2>3. Linked(disk.events, nextId)' /\ disk' \in Chat
    <3>1. NoEvents \in Chat /\ disk \in Chat
      BY <1>1 DEF NoEvents, Chat, TypeOK
    <3>2. Linked(NoEvents.events, nextId) /\ Linked(disk.events, nextId)
      BY DEF NoEvents, Linked, IdsCountUp, BusInv
    <3>3. QED
      BY <2>1, <2>2, <3>1, <3>2 DEF Linked, IdsCountUp
  <2>4. bus \in Seq(Envelope) /\ Len(bus) \in Nat
    BY <1>1 DEF TypeOK
  <2>5. QED
    BY <1>2, <2>1, <2>3, <2>4, BusCalm
<1>5. CASE Send \/ SendShutdown
  <2>1. UNCHANGED <<pc, disk, chat, bus, nextId, cuts>> /\ pc' # "down"
    BY <1>5 DEF Send, SendShutdown, durable, observed, Receiving
  <2>2. QED
    BY <1>2, <2>1, BusUntouched DEF Pending
<1>6. CASE RecvUser
  <2>1. /\ Push("user", Head(mailbox)) /\ mailbox # <<>> /\ UNCHANGED cuts
        /\ ~Pending /\ Pending' /\ pc # "down" /\ pc' # "down"
    BY <1>6 DEF RecvUser, Ready, Listening, Pending
  <2>2. Head(mailbox) \in Nat /\ "user" \in Kinds
    <3>1. mailbox \in Seq(0..MaxMessages)
      BY <1>1 DEF TypeOK
    <3>2. 1 \in DOMAIN mailbox /\ Head(mailbox) = mailbox[1]
      BY <2>1, <3>1
    <3>3. mailbox[1] \in 0..MaxMessages
      BY <3>1, <3>2, ElementOf
    <3>4. QED
      BY <3>2, <3>3 DEF Kinds
  <2>3. QED
    BY <1>2, <2>1, <2>2, BusPush
<1>7. CASE Complete
  <2>1. PICK kind \in {"agent", "error"}, n \in 0..MaxCalls : Reply(kind, n)
    BY <1>1, <1>7 DEF Complete, CompleteStop, CompleteError, CompleteTools
  <2>2. /\ Push(kind, n) /\ kind \in Kinds /\ n \in Nat /\ UNCHANGED cuts
        /\ ~Pending /\ Pending' /\ pc # "down" /\ pc' # "down"
    BY <1>1, <2>1 DEF Reply, Goto, Kinds, Pending
  <2>3. QED
    BY <1>2, <2>2, BusPush
<1>8. CASE StartCall
  <2>1. /\ Push("started", nextId) /\ "started" \in Kinds /\ UNCHANGED cuts
        /\ ~Pending /\ Pending' /\ pc # "down" /\ pc' # "down"
    BY <1>8 DEF StartCall, Goto, Kinds, Pending
  <2>2. QED
    BY <1>1, <1>2, <2>1, BusPush
<1>9. CASE FinishCall
  <2>1. PICK kind \in Outcomes : Push(kind, call)
    BY <1>9 DEF FinishCall
  <2>2. /\ kind \in Kinds /\ UNCHANGED cuts
        /\ ~Pending /\ Pending' /\ pc # "down" /\ pc' # "down"
    BY <1>9 DEF FinishCall, Goto, Kinds, Outcomes, Pending
  <2>3. QED
    BY <1>1, <1>2, <2>1, <2>2, BusPush
<1>10. CASE PushResults
  <2>1. /\ Push("results", 0) /\ "results" \in Kinds /\ UNCHANGED cuts
        /\ ~Pending /\ pc # "down" /\ pc' # "down" /\ 0 \in Nat
    BY <1>10 DEF PushResults, Goto, Kinds, Pending
  <2>2. QED
    BY <1>1, <1>2, <2>1, BusPush
<1>11. CASE PublishUser
  <2>1. /\ pc = "accepted" /\ pc' = "completing" /\ UNCHANGED <<chat, disk, nextId, cuts>>
        /\ Publish(<<Env("message", Last(chat.events).id), Env("turnStarted", 0)>>)
    BY <1>11 DEF PublishUser, Goto, durable, observed
  <2>2. chat.events # <<>> /\ Last(chat.events).kind = "user"
    BY <1>1, <2>1 DEF Standing
  <2>3. Pending /\ ~Pending' /\ pc' # "down"
    BY <2>1 DEF Pending
  <2>4. QED
    BY <2>1, <2>2, <2>3, BusNews
<1>12. CASE PublishReply
  <2>1. /\ pc = "replied" /\ pc' \in {"recv", "dispatching"}
        /\ UNCHANGED <<chat, disk, nextId, cuts>>
        /\ \/ Publish(<<Env("message", Last(chat.events).id)>>)
           \/ Publish(<<Env("message", Last(chat.events).id), Env("turnFinished", 0)>>)
    BY <1>12 DEF PublishReply, durable, observed
  <2>2. chat.events # <<>> /\ Last(chat.events).kind # "results"
    BY <1>1, <2>1 DEF Standing
  <2>3. Pending /\ ~Pending' /\ pc' # "down"
    BY <2>1 DEF Pending
  <2>4. QED
    BY <2>1, <2>2, <2>3, BusNews
<1>13. CASE PublishStarted
  <2>1. /\ pc = "started" /\ pc' = "executing" /\ UNCHANGED <<chat, disk, nextId, cuts>>
        /\ Publish(<<Env("tool", Last(chat.events).id)>>)
    BY <1>13 DEF PublishStarted, Goto, durable, observed
  <2>2. chat.events # <<>> /\ Last(chat.events).kind # "results"
    BY <1>1, <2>1 DEF Standing
  <2>3. Pending /\ ~Pending' /\ pc' # "down"
    BY <2>1 DEF Pending
  <2>4. QED
    BY <2>1, <2>2, <2>3, BusNews
<1>14. CASE PublishOutcome
  <2>1. /\ pc = "finished" /\ pc' = "dispatching" /\ UNCHANGED <<chat, disk, nextId, cuts>>
        /\ Publish(<<Env("tool", Last(chat.events).id)>>)
    BY <1>14 DEF PublishOutcome, AnnounceOutcome, Goto, durable, observed
  <2>2. chat.events # <<>> /\ Last(chat.events).kind # "results"
    BY <1>1, <2>1 DEF Standing, Outcomes
  <2>3. Pending /\ ~Pending' /\ pc' # "down"
    BY <2>1 DEF Pending
  <2>4. QED
    BY <2>1, <2>2, <2>3, BusNews
<1>15. CASE StreamDelta \/ RecvShutdown
  <2>1. PICK env \in {Env("thinking", 0), Env("shutdown", 0)} :
          /\ Publish(<<env>>) /\ ~Pending /\ ~Pending' /\ pc' # "down"
          /\ UNCHANGED <<chat, disk, nextId, cuts>>
    BY <1>15 DEF StreamDelta, RecvShutdown, Listening, durable, observed, Pending
  <2>2. env \in Envelope /\ ~Announces(env)
    BY <2>1, EnvType DEF Announces
  <2>3. Pending' = Pending
    BY <2>1 DEF Pending
  <2>4. QED
    BY <2>1, <2>2, <2>3, BusChatter
<1>16. CASE Close
  <2>1. UNCHANGED <<chat, bus, nextId, cuts>> /\ pc = "closing" /\ pc' = "exited"
    BY <1>16 DEF Close, Goto
  <2>2. disk' \in {disk, chat}
    BY <1>16 DEF Close, SaveQuietly
  <2>3. Pending' = Pending /\ pc' # "down"
    BY <2>1 DEF Pending
  <2>4. QED
    BY <1>2, <2>1, <2>2, <2>3, BusUntouched
<1>17. CASE Crash
  <2>1. /\ pc' = "down" /\ chat' = NoEvents /\ bus' = <<>>
        /\ UNCHANGED <<disk, nextId, cuts>>
    BY <1>17 DEF Crash, durable
  <2>2. ~Pending'
    BY <2>1 DEF Pending
  <2>3. Resumed \in Nat /\ Resumed' = Resumed
    BY <1>1, <2>1, ResumedType DEF BusInv, Resumed
  <2>4. BusFollowsTranscript'
    <3>1. Public(chat.events, Resumed, Pending)' = {}
      BY <2>1, <2>3 DEF Public, NoEvents
    <3>2. Announced(bus)' = {}
      BY <2>1 DEF Announced
    <3>3. IdsCountUp(chat.events)'
      BY <2>1 DEF NoEvents, IdsCountUp
    <3>4. QED
      BY <3>1, <3>2, <3>3 DEF BusFollowsTranscript, RefsCountUp
  <2>5. Linked(chat.events, nextId)' /\ Linked(disk.events, nextId)'
    BY <2>1 DEF BusInv, Linked, IdsCountUp, NoEvents
  <2>6. \A n \in cuts' : n <= Len(disk'.events)
    BY <2>1 DEF BusInv
  <2>7. QED
    BY <2>1, <2>2, <2>4, <2>5, <2>6 DEF BusInv
<1>18. CASE Restore
  <2>1. /\ pc = "down" /\ pc' = "recv" /\ chat' = disk /\ bus' = bus /\ nextId' = nextId
        /\ cuts' = cuts \cup {Len(disk.events)}
    BY <1>18 DEF Restore, Goto, LoadedChat
  <2>2. disk' = disk
    BY <1>18 DEF Restore, SaveQuietly, LoadedChat
  <2>3. Resumed' = Len(disk.events) /\ bus = <<>> /\ Linked(disk.events, nextId)
    BY <1>1, <2>1, ResumedNow DEF BusInv
  <2>4. ~Pending'
    BY <2>1 DEF Pending
  <2>5. BusFollowsTranscript'
    <3>1. Public(chat.events, Resumed, Pending)' = {}
      BY <1>2, <2>1, <2>3 DEF Public
    <3>2. Announced(bus)' = {}
      BY <2>1, <2>3 DEF Announced
    <3>3. IdsCountUp(chat.events)'
      BY <2>1, <2>3 DEF Linked, IdsCountUp
    <3>4. QED
      BY <3>1, <3>2, <3>3 DEF BusFollowsTranscript, RefsCountUp
  <2>6. \A n \in cuts' : n <= Len(disk'.events)
    BY <1>2, <2>1, <2>2 DEF BusInv
  <2>7. Linked(chat.events, nextId)' /\ Linked(disk.events, nextId)'
    BY <2>1, <2>2, <2>3 DEF Linked, IdsCountUp
  <2>8. QED
    BY <2>1, <2>4, <2>5, <2>6, <2>7 DEF BusInv
<1>19. QED
  BY <1>3, <1>4, <1>5, <1>6, <1>7, <1>8, <1>9, <1>10, <1>11, <1>12, <1>13, <1>14,
     <1>15, <1>16, <1>17, <1>18 DEF Next, Run

LEMMA InitBusInv == Init => BusInv
<1>. SUFFICES ASSUME Init PROVE BusInv
  OBVIOUS
<1>1. /\ pc = "unborn" /\ chat.events = <<>> /\ disk.events = <<>>
      /\ bus = <<>> /\ cuts = {}
  BY DEF Init, NoEvents
<1>2. Public(chat.events, Resumed, Pending) = {} /\ Announced(bus) = {} /\ ~Pending
  BY <1>1 DEF Public, Announced, Resumed, Pending
<1>3. BusFollowsTranscript
  BY <1>1, <1>2 DEF BusFollowsTranscript, RefsCountUp, IdsCountUp
<1>4. QED
  BY <1>1, <1>2, <1>3 DEF BusInv, Linked, IdsCountUp

(* The bus, the two copies of the transcript and the place where the       *)
(* process resumed it stay in step.                                        *)
THEOREM BusInvariance == Spec => []BusInv
<1>1. Init => BusInv
  BY InitBusInv
<1>2. IInv /\ BusInv /\ [Next]_vars => BusInv'
  BY BusKeeps
<1>3. QED
  BY <1>1, <1>2, Invariance, PTL DEF Spec

(* What an observer has seen is the transcript, without gaps, each event   *)
(* once and in its order (publish_message, publish_tool_call_event).       *)
THEOREM BusIsFaithful == Spec => []BusFollowsTranscript
<1>1. BusInv => BusFollowsTranscript
  BY DEF BusInv
<1>2. QED
  BY <1>1, BusInvariance, PTL

-----------------------------------------------------------------------------
(* Picking from a sequence                                               *)

(* The rank of a member is a number from 1 to the size of the set, and     *)
(* grows with the member.                                                  *)
LEMMA RankIn ==
  ASSUME NEW P \in SUBSET Nat, IsFiniteSet(P)
  PROVE  /\ Cardinality(P) \in Nat
         /\ \A i \in P : Rank(P, i) \in 1..Cardinality(P)
         /\ \A i, j \in P : i < j => Rank(P, i) < Rank(P, j)
<1>. DEFINE Upto(i) == {j \in P : j <= i}
<1>1. Cardinality(P) \in Nat
  BY FS_CardinalityType
<1>2. \A i \in P : IsFiniteSet(Upto(i)) /\ Cardinality(Upto(i)) \in Nat
                   /\ Cardinality(Upto(i)) <= Cardinality(P)
  <2>1. SUFFICES ASSUME NEW i \in P
                 PROVE  IsFiniteSet(Upto(i)) /\ Cardinality(Upto(i)) \in Nat
                        /\ Cardinality(Upto(i)) <= Cardinality(P)
    OBVIOUS
  <2>2. Upto(i) \in SUBSET P
    OBVIOUS
  <2>3. QED
    BY <2>2, FS_Subset, FS_CardinalityType
<1>3. \A i \in P : Rank(P, i) = Cardinality(Upto(i))
  BY DEF Rank
<1>4. ASSUME NEW i \in P PROVE Cardinality(Upto(i)) # 0
  <2>1. i \in Upto(i)
    OBVIOUS
  <2>2. QED
    BY <1>2, <2>1, FS_EmptySet
<1>5. ASSUME NEW i \in P, NEW j \in P, i < j
      PROVE  Cardinality(Upto(i)) < Cardinality(Upto(j))
  <2>1. Upto(i) \in SUBSET Upto(j)
    <3>1. i \in Nat /\ j \in Nat
      OBVIOUS
    <3>2. ASSUME NEW k \in P, k <= i PROVE k <= j
      BY <1>5, <3>1, <3>2
    <3>3. QED
      BY <3>2
  <2>2. j \in Upto(j) /\ j \notin Upto(i)
    BY <1>5
  <2>3. Cardinality(Upto(i)) <= Cardinality(Upto(j)) /\ Cardinality(Upto(i)) # Cardinality(Upto(j))
    BY <1>2, <2>1, <2>2, FS_Subset
  <2>4. QED
    BY <1>2, <2>3
<1>. HIDE DEF Upto
<1>6. QED
  BY <1>1, <1>2, <1>3, <1>4, <1>5

(* The k-th member exists, and is the only one of rank k.                  *)
LEMMA NthIs ==
  ASSUME NEW P \in SUBSET Nat, IsFiniteSet(P)
  PROVE  /\ \A k \in 1..Cardinality(P) : Nth(P, k) \in P /\ Rank(P, Nth(P, k)) = k
         /\ \A i \in P : Nth(P, Rank(P, i)) = i
<1>. DEFINE n == Cardinality(P)
            r == [i \in P |-> Rank(P, i)]
<1>1. /\ n \in Nat
      /\ \A i \in P : Rank(P, i) \in 1..n
      /\ \A i, j \in P : i < j => Rank(P, i) < Rank(P, j)
  BY RankIn
<1>2. \A i, j \in P : Rank(P, i) = Rank(P, j) => i = j
  <2>1. SUFFICES ASSUME NEW i \in P, NEW j \in P, Rank(P, i) = Rank(P, j), i # j PROVE FALSE
    OBVIOUS
  <2>2. i < j \/ j < i
    BY <2>1
  <2>3. QED
    BY <1>1, <2>1, <2>2
<1>3. r \in Injection(P, 1..n)
  <2>1. r \in [P -> 1..n]
    BY <1>1
  <2>2. \A i, j \in P : r[i] = r[j] => i = j
    BY <1>2
  <2>3. QED
    BY <2>1, <2>2 DEF Injection, IsInjective
<1>4. IsFiniteSet(1..n) /\ Cardinality(1..n) = n
  BY <1>1, FS_Interval
<1>5. r \in Surjection(P, 1..n)
  <2>. HIDE DEF r
  <2>1. QED
    BY <1>3, <1>4, FS_Injection
<1>6. \A k \in 1..n : \E i \in P : Rank(P, i) = k
  <2>1. \A k \in 1..n : \E i \in P : r[i] = k
    <3>. HIDE DEF r
    <3>1. QED
      BY <1>5 DEF Surjection
  <2>2. QED
    BY <2>1
<1>. HIDE DEF n, r
<1>7. \A k \in 1..n : Nth(P, k) \in P /\ Rank(P, Nth(P, k)) = k
  BY <1>6 DEF Nth
<1>8. \A i \in P : Nth(P, Rank(P, i)) = i
  BY <1>1, <1>2, <1>7
<1>9. QED
  BY <1>7, <1>8 DEF n

LEMMA NthOrder ==
  ASSUME NEW P \in SUBSET Nat, IsFiniteSet(P)
  PROVE  /\ \A k, l \in 1..Cardinality(P) : k < l => Nth(P, k) < Nth(P, l)
         /\ \A k \in 1..Cardinality(P) : \A i \in P :
                Nth(P, k) < i /\ k + 1 <= Cardinality(P) => Nth(P, k + 1) <= i
         /\ \A i \in P : Cardinality(P) \in 1..Cardinality(P) /\ i <= Nth(P, Cardinality(P))
<1>. DEFINE n == Cardinality(P)
<1>1. /\ n \in Nat
      /\ \A i \in P : Rank(P, i) \in 1..n
      /\ \A i, j \in P : i < j => Rank(P, i) < Rank(P, j)
  BY RankIn
<1>2. \A k \in 1..n : Nth(P, k) \in P /\ Rank(P, Nth(P, k)) = k
  BY NthIs
<1>. HIDE DEF n
<1>3. \A k, l \in 1..n : k < l => Nth(P, k) < Nth(P, l)
  <2>1. SUFFICES ASSUME NEW k \in 1..n, NEW l \in 1..n, k < l, ~(Nth(P, k) < Nth(P, l))
                 PROVE  FALSE
    OBVIOUS
  <2>2. /\ Nth(P, k) \in P /\ Nth(P, l) \in P
        /\ Rank(P, Nth(P, k)) = k /\ Rank(P, Nth(P, l)) = l
    BY <1>2
  <2>3. Nth(P, l) < Nth(P, k) \/ Nth(P, l) = Nth(P, k)
    <3>1. Nth(P, k) \in Nat /\ Nth(P, l) \in Nat
      BY <2>2
    <3>2. QED
      BY <2>1, <3>1
  <2>4. l < k \/ l = k
    BY <1>1, <2>2, <2>3
  <2>5. k \in Nat /\ l \in Nat
    BY <1>1
  <2>6. QED
    BY <2>1, <2>4, <2>5
<1>4. ASSUME NEW k \in 1..n, NEW i \in P, Nth(P, k) < i, k + 1 <= n
      PROVE  Nth(P, k + 1) <= i
  <2>1. k + 1 \in 1..n
    BY <1>1, <1>4
  <2>2. /\ Nth(P, k) \in P /\ Nth(P, k + 1) \in P
        /\ Rank(P, Nth(P, k)) = k /\ Rank(P, Nth(P, k + 1)) = k + 1
    BY <1>2, <2>1
  <2>3. k < Rank(P, i) /\ Rank(P, i) \in 1..n
    BY <1>1, <1>4, <2>2
  <2>4. ASSUME i < Nth(P, k + 1) PROVE FALSE
    <3>1. Rank(P, i) < k + 1
      BY <1>1, <2>2, <2>4
    <3>2. Rank(P, i) \in Nat /\ k \in Nat
      BY <1>1, <2>3
    <3>3. QED
      BY <2>3, <3>1, <3>2
  <2>5. i \in Nat /\ Nth(P, k + 1) \in Nat
    BY <2>2
  <2>6. QED
    BY <2>4, <2>5
<1>5. ASSUME NEW i \in P PROVE n \in 1..n /\ i <= Nth(P, n)
  <2>1. Rank(P, i) \in 1..n /\ n \in 1..n
    BY <1>1
  <2>2. Nth(P, n) \in P /\ Rank(P, Nth(P, n)) = n
    BY <1>2, <2>1
  <2>3. ASSUME Nth(P, n) < i PROVE FALSE
    <3>1. n < Rank(P, i)
      BY <1>1, <2>2, <2>3
    <3>2. QED
      BY <1>1, <2>1, <3>1
  <2>4. i \in Nat /\ Nth(P, n) \in Nat
    BY <2>2
  <2>5. QED
    BY <2>1, <2>3, <2>4
<1>6. QED
  BY <1>3, <1>4, <1>5 DEF n

(* The members up to a bound are the first ones.                           *)
LEMMA NthBelow ==
  ASSUME NEW Q \in SUBSET Nat, IsFiniteSet(Q), NEW n \in Nat,
         NEW P, P = {i \in Q : i <= n}
  PROVE  /\ P \in SUBSET Nat /\ IsFiniteSet(P)
         /\ Cardinality(P) \in Nat /\ Cardinality(Q) \in Nat
         /\ Cardinality(P) <= Cardinality(Q)
         /\ \A k \in 1..Cardinality(P) : k \in 1..Cardinality(Q) /\ Nth(P, k) = Nth(Q, k)
<1>1. P \in SUBSET Q /\ P \in SUBSET Nat
  OBVIOUS
<1>2. /\ IsFiniteSet(P) /\ Cardinality(P) <= Cardinality(Q)
      /\ Cardinality(P) \in Nat /\ Cardinality(Q) \in Nat
  BY <1>1, FS_Subset, FS_CardinalityType
<1>3. \A i \in P : Rank(P, i) = Rank(Q, i)
  <2>1. SUFFICES ASSUME NEW i \in P PROVE {j \in P : j <= i} = {j \in Q : j <= i}
    BY DEF Rank
  <2>2. ASSUME NEW j \in Q, j <= i PROVE j \in P
    <3>1. i \in Nat /\ j \in Nat /\ i <= n
      OBVIOUS
    <3>2. QED
      BY <2>2, <3>1
  <2>3. QED
    BY <1>1, <2>2
<1>4. ASSUME NEW k \in 1..Cardinality(P)
      PROVE  k \in 1..Cardinality(Q) /\ Nth(P, k) = Nth(Q, k)
  <2>1. Nth(P, k) \in P /\ Rank(P, Nth(P, k)) = k
    BY <1>1, <1>2, NthIs
  <2>2. Rank(Q, Nth(P, k)) = k /\ Nth(P, k) \in Q
    BY <1>1, <1>3, <2>1
  <2>3. Nth(Q, Rank(Q, Nth(P, k))) = Nth(P, k)
    BY <2>2, NthIs
  <2>4. QED
    BY <1>2, <2>2, <2>3
<1>5. QED
  BY <1>1, <1>2, <1>4

(* A new member beyond the others leaves their numbers as they are.        *)
LEMMA NthKept ==
  ASSUME NEW n \in Nat, NEW P \in SUBSET (1..n), NEW m \in Nat, n < m,
         NEW Q, Q = P \cup {m}
  PROVE  \A k \in 1..Cardinality(P) : Nth(Q, k) = Nth(P, k)
<1>1. IsFiniteSet(P)
  <2>1. IsFiniteSet(1..n)
    BY FS_Interval
  <2>2. QED
    BY <2>1, FS_Subset
<1>2. Q \in SUBSET Nat /\ IsFiniteSet(Q)
  BY <1>1, FS_AddElement
<1>3. P = {i \in Q : i <= n}
  <2>1. \A i \in Q : i <= n <=> i # m
    OBVIOUS
  <2>2. P \subseteq Q /\ m \notin P
    OBVIOUS
  <2>3. QED
    BY <2>1, <2>2
<1>4. QED
  BY <1>2, <1>3, NthBelow

(* It is the last one.                                                     *)
LEMMA NthAdded ==
  ASSUME NEW n \in Nat, NEW P \in SUBSET (1..n), NEW m \in Nat, n < m,
         NEW Q, Q = P \cup {m}
  PROVE  /\ IsFiniteSet(P) /\ IsFiniteSet(Q)
         /\ P \in SUBSET Nat /\ Q \in SUBSET Nat
         /\ Cardinality(P) \in Nat
         /\ Cardinality(Q) = Cardinality(P) + 1
         /\ Nth(Q, Cardinality(P) + 1) = m
<1>1. IsFiniteSet(P) /\ Cardinality(P) \in Nat
  <2>1. IsFiniteSet(1..n)
    BY FS_Interval
  <2>2. QED
    BY <2>1, FS_Subset, FS_CardinalityType
<1>2. P \in SUBSET Nat /\ Q \in SUBSET Nat /\ m \notin P
  OBVIOUS
<1>3. IsFiniteSet(Q) /\ Cardinality(Q) = Cardinality(P) + 1
  BY <1>1, <1>2, FS_AddElement
<1>4. Nth(Q, Cardinality(Q)) = m
  <2>1. m \in Q /\ \A i \in Q : i <= m
    OBVIOUS
  <2>2. Cardinality(Q) \in 1..Cardinality(Q) /\ m <= Nth(Q, Cardinality(Q))
    BY <1>2, <1>3, <2>1, NthOrder
  <2>3. Nth(Q, Cardinality(Q)) \in Q
    BY <1>2, <1>3, <2>2, NthIs
  <2>4. Nth(Q, Cardinality(Q)) <= m /\ Nth(Q, Cardinality(Q)) \in Nat
    BY <1>2, <2>1, <2>3
  <2>5. QED
    BY <2>2, <2>4
<1>5. QED
  BY <1>1, <1>2, <1>3, <1>4

(* Without its least member 1 and moved down by one.                       *)
LEMMA NthMoved ==
  ASSUME NEW n \in Nat, NEW P \in SUBSET (1..n), 1 \in P,
         NEW Q, Q = {i \in 1..(n - 1) : i + 1 \in P}
  PROVE  /\ Cardinality(P) \in Nat /\ Cardinality(Q) \in Nat
         /\ Cardinality(P) = Cardinality(Q) + 1
         /\ \A k \in 1..Cardinality(Q) : Nth(P, k + 1) = Nth(Q, k) + 1
         /\ Nth(P, 1) = 1
<1>1. IsFiniteSet(1..n)
  BY FS_Interval
<1>2. P \in SUBSET Nat /\ IsFiniteSet(P) /\ Cardinality(P) \in Nat
  <2>1. IsFiniteSet(P)
    BY <1>1, FS_Subset
  <2>2. QED
    BY <2>1, FS_CardinalityType
<1>3. Q \in SUBSET (1..n) /\ Q \in SUBSET Nat
  OBVIOUS
<1>4. IsFiniteSet(Q) /\ Cardinality(Q) \in Nat
  BY <1>1, <1>3, FS_Subset, FS_CardinalityType
(* Counting on either side of the move.                                    *)
<1>5. ASSUME NEW a \in Nat
      PROVE  Cardinality({j \in P : j <= a + 1}) = Cardinality({j \in Q : j <= a}) + 1
  <2>. DEFINE A == {j \in P : j <= a + 1}
              B == {j \in Q : j <= a}
              f == [j \in B |-> j + 1]
  <2>1. IsFiniteSet(A) /\ IsFiniteSet(B)
    BY <1>2, <1>4, FS_Subset
  <2>2. 1 \in A
    OBVIOUS
  <2>3. Cardinality(A) \in Nat /\ Cardinality(A \ {1}) = Cardinality(A) - 1
        /\ IsFiniteSet(A \ {1})
    <3>. HIDE DEF A
    <3>1. QED
      BY <2>1, <2>2, FS_RemoveElement, FS_CardinalityType
  <2>4. f \in Bijection(B, A \ {1})
    <3>1. \A j \in B : j + 1 \in A \ {1}
      OBVIOUS
    <3>2. \A j, k \in B : j + 1 = k + 1 => j = k
      OBVIOUS
    <3>3. ASSUME NEW i \in A \ {1} PROVE \E j \in B : j + 1 = i
      <4>1. i \in 1..n /\ i # 1 /\ i <= a + 1 /\ i \in P
        OBVIOUS
      <4>2. i - 1 \in 1..(n - 1) /\ (i - 1) + 1 = i /\ i - 1 <= a
        BY <4>1
      <4>3. i - 1 \in B
        BY <4>1, <4>2
      <4>4. QED
        BY <4>2, <4>3
    <3>. HIDE DEF A, B
    <3>4. f \in [B -> A \ {1}]
      BY <3>1
    <3>5. \A j \in B : f[j] = j + 1
      OBVIOUS
    <3>. HIDE DEF f
    <3>6. \A i \in A \ {1} : \E j \in B : f[j] = i
      BY <3>3, <3>5
    <3>7. \A j, k \in B : f[j] = f[k] => j = k
      BY <3>2, <3>5
    <3>8. QED
      BY <3>4, <3>6, <3>7 DEF Bijection, Injection, Surjection, IsInjective
  <2>5. Cardinality(B) = Cardinality(A \ {1})
    <3>. HIDE DEF A, B, f
    <3>1. ExistsBijection(B, A \ {1})
      BY <2>4 DEF ExistsBijection
    <3>2. IsFiniteSet(B)
      BY <2>1
    <3>3. QED
      BY <3>1, <3>2, FS_Bijection
  <2>. HIDE DEF A, B, f
  <2>6. Cardinality(A) = Cardinality(B) + 1
    BY <2>3, <2>5
  <2>7. QED
    BY <2>6 DEF A, B
<1>6. Cardinality(P) = Cardinality(Q) + 1
  <2>1. P = {j \in P : j <= n + 1}
    <3>1. \A j \in P : j <= n + 1
      OBVIOUS
    <3>2. QED
      BY <3>1
  <2>2. Q = {j \in Q : j <= n}
    <3>1. \A j \in Q : j <= n
      OBVIOUS
    <3>2. QED
      BY <3>1
  <2>3. QED
    BY <1>5, <2>1, <2>2
<1>7. ASSUME NEW k \in 1..Cardinality(Q) PROVE Nth(P, k + 1) = Nth(Q, k) + 1
  <2>1. Nth(Q, k) \in Q /\ Rank(Q, Nth(Q, k)) = k
    BY <1>3, <1>4, NthIs
  <2>2. Nth(Q, k) + 1 \in P /\ Nth(Q, k) \in Nat
    BY <2>1
  <2>3. Rank(P, Nth(Q, k) + 1) = k + 1
    BY <1>5, <2>1, <2>2 DEF Rank
  <2>4. QED
    BY <1>2, <2>2, <2>3, NthIs
<1>8. Nth(P, 1) = 1
  <2>1. {j \in P : j <= 1} = {1}
    <3>1. \A j \in P : j <= 1 <=> j = 1
      OBVIOUS
    <3>2. QED
      BY <3>1
  <2>2. Rank(P, 1) = 1
    BY <2>1, FS_Singleton DEF Rank
  <2>3. QED
    BY <1>2, <2>2, NthIs
<1>9. QED
  BY <1>2, <1>4, <1>6, <1>7, <1>8

(* What is picked depends on the picked positions only.                    *)
LEMMA PickedSame ==
  ASSUME NEW P \in SUBSET Nat, IsFiniteSet(P), NEW s, NEW t, \A i \in P : t[i] = s[i]
  PROVE  Picked(t, P) = Picked(s, P)
<1>1. \A k \in 1..Cardinality(P) : t[Nth(P, k)] = s[Nth(P, k)]
  BY NthIs
<1>2. QED
  BY <1>1 DEF Picked

LEMMA PickedType ==
  ASSUME NEW P \in SUBSET Nat, IsFiniteSet(P), NEW s, NEW S, \A i \in P : s[i] \in S
  PROVE  /\ Picked(s, P) \in Seq(S)
         /\ Len(Picked(s, P)) = Cardinality(P) /\ Cardinality(P) \in Nat
         /\ \A k \in 1..Cardinality(P) :
                Nth(P, k) \in P /\ Picked(s, P)[k] = s[Nth(P, k)]
<1>. DEFINE n == Cardinality(P)
<1>1. n \in Nat
  BY FS_CardinalityType
<1>2. \A k \in 1..n : Nth(P, k) \in P
  BY NthIs
<1>3. Picked(s, P) = [k \in 1..n |-> s[Nth(P, k)]]
  BY DEF Picked
<1>. HIDE DEF n
<1>4. Picked(s, P) \in [1..n -> S]
  BY <1>2, <1>3
<1>5. Picked(s, P) \in Seq(S) /\ Len(Picked(s, P)) = n
  BY <1>1, <1>4
<1>6. \A k \in 1..n : Picked(s, P)[k] = s[Nth(P, k)]
  BY <1>3
<1>7. QED
  BY <1>1, <1>2, <1>5, <1>6 DEF n

(* Picking the element that joins at the end, too.                         *)
LEMMA PickedMore ==
  ASSUME NEW S, NEW s \in Seq(S), NEW t \in Seq(S), Len(t) = Len(s) + 1,
         \A i \in 1..Len(s) : t[i] = s[i], NEW P \in SUBSET (1..Len(s))
  PROVE  Picked(t, P \cup {Len(t)}) = Append(Picked(s, P), t[Len(t)])
<1>. DEFINE n == Len(s)
            m == Len(t)
            Q == P \cup {m}
<1>0. /\ n \in Nat /\ P \in SUBSET (1..n) /\ m \in Nat /\ n < m /\ Q = P \cup {m}
      /\ (\A i \in P : t[i] = s[i] /\ s[i] \in S) /\ t[m] \in S
  OBVIOUS
<1>. HIDE DEF n, m, Q
<1>. DEFINE c == Cardinality(P)
<1>1. /\ IsFiniteSet(P) /\ IsFiniteSet(Q) /\ P \in SUBSET Nat /\ Q \in SUBSET Nat
      /\ c \in Nat /\ Cardinality(Q) = c + 1
      /\ \A k \in 1..c : Nth(Q, k) = Nth(P, k)
      /\ Nth(Q, c + 1) = m
  <2>1. \A k \in 1..c : Nth(Q, k) = Nth(P, k)
    BY <1>0, NthKept
  <2>2. Nth(Q, c + 1) = m
    BY <1>0, NthAdded
  <2>3. c \in Nat /\ Cardinality(Q) = c + 1
    BY <1>0, NthAdded
  <2>4. IsFiniteSet(P) /\ IsFiniteSet(Q)
    BY <1>0, NthAdded
  <2>5. P \in SUBSET Nat /\ Q \in SUBSET Nat
    BY <1>0
  <2>6. QED
    BY <2>1, <2>2, <2>3, <2>4, <2>5
<1>2. /\ Picked(s, P) \in Seq(S) /\ Len(Picked(s, P)) = c
      /\ \A k \in 1..c : Nth(P, k) \in P /\ Picked(s, P)[k] = s[Nth(P, k)]
  BY <1>0, <1>1, PickedType
<1>3. Picked(t, Q) = [k \in 1..(c + 1) |-> t[Nth(Q, k)]]
  BY <1>1 DEF Picked
<1>. HIDE DEF c
<1>4. Append(Picked(s, P), t[m]) = [k \in 1..(c + 1) |-> IF k = c + 1 THEN t[m] ELSE Picked(s, P)[k]]
  BY <1>0, <1>1, <1>2
<1>5. ASSUME NEW k \in 1..(c + 1)
      PROVE  t[Nth(Q, k)] = IF k = c + 1 THEN t[m] ELSE Picked(s, P)[k]
  <2>1. CASE k = c + 1
    BY <1>1, <2>1
  <2>2. CASE k # c + 1
    <3>1. k \in 1..c
      BY <1>1, <2>2
    <3>2. QED
      BY <1>0, <1>1, <1>2, <2>2, <3>1
  <2>3. QED
    BY <2>1, <2>2
<1>6. QED
  BY <1>3, <1>4, <1>5 DEF m, Q

(* Taking the first element away, picked or not.                           *)
LEMMA PickedTail ==
  ASSUME NEW S, NEW s \in Seq(S), s # <<>>, NEW P \in SUBSET (1..Len(s)), 1 \in P,
         NEW Q, Q = {i \in 1..(Len(s) - 1) : i + 1 \in P}
  PROVE  /\ Picked(s, P) # <<>> /\ Head(Picked(s, P)) = s[1]
         /\ Picked(Tail(s), Q) = Tail(Picked(s, P))
<1>. DEFINE n == Len(s)
            c == Cardinality(Q)
<1>1. n \in Nat /\ n >= 1 /\ DOMAIN s = 1..n
  OBVIOUS
<1>2. IsFiniteSet(P) /\ P \in SUBSET Nat /\ \A i \in P : s[i] \in S
  <2>1. IsFiniteSet(1..n)
    BY <1>1, FS_Interval
  <2>2. IsFiniteSet(P)
    BY <2>1, FS_Subset
  <2>3. P \in SUBSET Nat /\ \A i \in P : s[i] \in S
    BY <1>1
  <2>4. QED
    BY <2>2, <2>3
<1>3. IsFiniteSet(Q) /\ Q \in SUBSET Nat /\ Q \in SUBSET (1..(n - 1))
  <2>1. IsFiniteSet(1..(n - 1))
    BY <1>1, FS_Interval
  <2>2. Q \in SUBSET (1..(n - 1))
    OBVIOUS
  <2>3. IsFiniteSet(Q)
    BY <2>1, <2>2, FS_Subset
  <2>4. Q \in SUBSET Nat
    BY <1>1, <2>2
  <2>5. QED
    BY <2>2, <2>3, <2>4
<1>4. /\ c \in Nat /\ Cardinality(P) = c + 1
      /\ \A k \in 1..c : Nth(P, k + 1) = Nth(Q, k) + 1
      /\ Nth(P, 1) = 1
  BY <1>1, NthMoved
<1>5. /\ Picked(s, P) \in Seq(S) /\ Len(Picked(s, P)) = c + 1
      /\ \A k \in 1..(c + 1) : Nth(P, k) \in P /\ Picked(s, P)[k] = s[Nth(P, k)]
  BY <1>2, <1>4, PickedType
<1>6. /\ Tail(s) \in Seq(S) /\ Len(Tail(s)) = n - 1
      /\ \A i \in 1..(n - 1) : Tail(s)[i] = s[i + 1]
  BY <1>1
<1>7. \A k \in 1..c : Nth(Q, k) \in Q
  BY <1>3, NthIs
<1>8. Picked(Tail(s), Q) = [k \in 1..c |-> Tail(s)[Nth(Q, k)]]
  BY DEF Picked
<1>. HIDE DEF n, c
<1>9. \A k \in 1..c : Tail(s)[Nth(Q, k)] = Picked(s, P)[k + 1]
  <2>1. SUFFICES ASSUME NEW k \in 1..c PROVE Tail(s)[Nth(Q, k)] = Picked(s, P)[k + 1]
    OBVIOUS
  <2>2. Nth(Q, k) \in 1..(n - 1) /\ Nth(P, k + 1) = Nth(Q, k) + 1
    BY <1>3, <1>4, <1>7
  <2>3. Tail(s)[Nth(Q, k)] = s[Nth(P, k + 1)]
    BY <1>6, <2>2
  <2>4. k + 1 \in 1..(c + 1)
    BY <1>4
  <2>5. QED
    BY <1>5, <2>3, <2>4
<1>10. Tail(Picked(s, P)) = [k \in 1..c |-> Picked(s, P)[k + 1]]
  <2>1. ASSUME NEW q \in Seq(S), Len(q) = c + 1
        PROVE  Tail(q) = [k \in 1..c |-> q[k + 1]]
    <3>1. Tail(q) \in Seq(S) /\ Len(Tail(q)) = c
      BY <1>4, <2>1
    <3>2. \A k \in 1..c : Tail(q)[k] = q[k + 1]
      BY <1>4, <2>1
    <3>3. Tail(q) = [k \in 1..c |-> Tail(q)[k]]
      <4>1. DOMAIN Tail(q) = 1..c
        BY <1>4, <3>1
      <4>2. ASSUME NEW t \in Seq(S), DOMAIN t = 1..c PROVE t = [k \in 1..c |-> t[k]]
        BY <4>2
      <4>3. QED
        BY <3>1, <4>1, <4>2
    <3>4. QED
      BY <3>2, <3>3
  <2>2. QED
    BY <1>5, <2>1
<1>11. Picked(Tail(s), Q) = Tail(Picked(s, P))
  BY <1>8, <1>9, <1>10
<1>12. Picked(s, P) # <<>> /\ Head(Picked(s, P)) = s[1]
  <2>1. 1 \in 1..(c + 1)
    BY <1>4
  <2>2. Picked(s, P)[1] = s[1]
    BY <1>4, <1>5, <2>1
  <2>3. Picked(s, P) # <<>> /\ Head(Picked(s, P)) = Picked(s, P)[1]
    BY <1>4, <1>5
  <2>4. QED
    BY <2>2, <2>3
<1>13. QED
  BY <1>11, <1>12

-----------------------------------------------------------------------------
(* What the model is shown                                               *)

(* Two messages with nothing but tool events between them.                 *)
LEMMA NeighbouringMessages ==
  ASSUME NEW s \in Seq(Event), Grammatical(s), NEW p \in DOMAIN s, NEW q \in DOMAIN s,
         p < q, s[p].kind \notin ToolKinds, s[q].kind \notin ToolKinds,
         \A i \in (p + 1)..(q - 1) : s[i].kind \in ToolKinds
  PROVE  /\ ~(s[p].kind \in AgentRole /\ s[q].kind \in AgentRole)
         /\ s[p].kind \in UserRole /\ s[q].kind \in UserRole => q - 1 \in cuts
<1>1. /\ Len(s) \in Nat /\ p \in 1..Len(s) /\ q \in 1..Len(s)
      /\ q - 1 \in 1..(Len(s) - 1) /\ (q - 1) + 1 = q /\ q - 1 \in DOMAIN s
  OBVIOUS
<1>2. MayFollow(s[q - 1], s[q]) \/ (s[q].kind = "user" /\ q - 1 \in cuts)
  BY <1>1 DEF Grammatical
<1>3. CASE s[q].kind = "user" /\ q - 1 \in cuts
  BY <1>3 DEF AgentRole
<1>4. CASE MayFollow(s[q - 1], s[q])
  <2>1. <<s[q - 1].kind, s[q].kind>> \in TurnSteps
    BY <1>4 DEF MayFollow
  <2>2. CASE p = q - 1
    BY <2>1, <2>2 DEF TurnSteps, AgentRole, UserRole, ToolKinds
  <2>3. CASE p # q - 1
    <3>1. q - 1 \in (p + 1)..(q - 1) /\ p + 1 \in (p + 1)..(q - 1)
      BY <1>1, <2>3
    <3>2. s[q - 1].kind \in ToolKinds /\ s[p + 1].kind \in ToolKinds
      BY <3>1
    <3>3. s[q].kind = "results"
      BY <2>1, <3>2 DEF TurnSteps, ToolKinds
    <3>4. p \in 1..(Len(s) - 1)
      BY <1>1
    <3>5. MayFollow(s[p], s[p + 1])
      BY <3>2, <3>4 DEF Grammatical, ToolKinds
    <3>6. s[p].kind = "agent"
      BY <3>2, <3>5 DEF MayFollow, TurnSteps, ToolKinds
    <3>7. QED
      BY <3>3, <3>6 DEF AgentRole, UserRole
  <2>4. QED
    BY <2>2, <2>3
<1>5. QED
  BY <1>2, <1>3, <1>4

Pairs(c, role) == {i \in 1..(Len(c) - 1) : c[i].kind \in role /\ c[i + 1].kind \in role}

LEMMA ContextOf ==
  ASSUME NEW s \in Seq(Event), Grammatical(s), s # <<>>, Last(s).kind \in UserRole,
         IsFiniteSet(cuts)
  PROVE  /\ Last(Context(s)).kind \in UserRole
         /\ Pairs(Context(s), AgentRole) = {}
         /\ Cardinality(Pairs(Context(s), UserRole)) <= Cardinality(cuts)
<1>. DEFINE context == Context(s)
            P == {i \in DOMAIN s : s[i].kind \notin ToolKinds}
            n == Cardinality(P)
<1>1. Len(s) \in Nat /\ DOMAIN s = 1..Len(s) /\ Len(s) \in DOMAIN s /\ Last(s) = s[Len(s)]
  BY DEF Last
<1>2. P \in SUBSET Nat /\ IsFiniteSet(P) /\ Len(s) \in P
  <2>1. IsFiniteSet(1..Len(s))
    BY <1>1, FS_Interval
  <2>2. P \in SUBSET (1..Len(s))
    BY <1>1
  <2>3. IsFiniteSet(P)
    BY <2>1, <2>2, FS_Subset
  <2>4. Len(s) \in P
    BY <1>1 DEF UserRole, ToolKinds
  <2>5. QED
    BY <2>2, <2>3, <2>4
<1>3. \A i \in P : i \in DOMAIN s /\ s[i].kind \notin ToolKinds /\ s[i] \in Event
  <2>1. \A i \in DOMAIN s : s[i] \in Event
    BY ElementOf
  <2>2. QED
    BY <2>1
<1>4. \A i \in DOMAIN s : i \notin P => s[i].kind \in ToolKinds
  OBVIOUS
<1>5. context = Picked(s, P)
  BY DEF Context
<1>. HIDE DEF P, context
<1>6. /\ context \in Seq(Event) /\ Len(context) = n /\ n \in Nat
      /\ \A k \in 1..n : Nth(P, k) \in P /\ context[k] = s[Nth(P, k)]
  BY <1>2, <1>3, <1>5, PickedType
<1>7. /\ \A k, l \in 1..n : k < l => Nth(P, k) < Nth(P, l)
      /\ \A k \in 1..n : \A i \in P : Nth(P, k) < i /\ k + 1 <= n => Nth(P, k + 1) <= i
      /\ \A i \in P : n \in 1..n /\ i <= Nth(P, n)
  BY <1>2, NthOrder
<1>. HIDE DEF n
<1>8. Last(context).kind \in UserRole
  <2>1. n \in 1..n /\ Len(s) <= Nth(P, n) /\ Nth(P, n) \in 1..Len(s)
    BY <1>1, <1>2, <1>3, <1>6, <1>7
  <2>2. Nth(P, n) = Len(s)
    BY <1>1, <2>1
  <2>3. Last(context) = context[n]
    BY <1>6 DEF Last
  <2>4. QED
    BY <1>1, <1>6, <2>1, <2>2, <2>3
<1>9. ASSUME NEW k \in 1..(n - 1)
      PROVE  /\ ~(context[k].kind \in AgentRole /\ context[k + 1].kind \in AgentRole)
             /\ context[k].kind \in UserRole /\ context[k + 1].kind \in UserRole
                  => Nth(P, k + 1) - 1 \in cuts
  <2>. DEFINE p == Nth(P, k)
              q == Nth(P, k + 1)
  <2>1. k \in 1..n /\ k + 1 \in 1..n /\ k < k + 1 /\ k + 1 <= n
    BY <1>6
  <2>2. /\ p \in P /\ q \in P /\ p < q
        /\ context[k] = s[p] /\ context[k + 1] = s[q]
    BY <1>6, <1>7, <2>1
  <2>3. \A i \in P : p < i => q <= i
    BY <1>7, <2>1
  <2>. HIDE DEF p, q
  <2>4. p \in DOMAIN s /\ q \in DOMAIN s /\ s[p].kind \notin ToolKinds /\ s[q].kind \notin ToolKinds
    BY <1>3, <2>2
  <2>5. \A i \in (p + 1)..(q - 1) : s[i].kind \in ToolKinds
    <3>1. ASSUME NEW i \in (p + 1)..(q - 1) PROVE i \in DOMAIN s /\ p < i /\ ~(q <= i)
      BY <1>1, <2>4
    <3>2. QED
      BY <1>4, <2>3, <3>1
  <2>6. /\ ~(s[p].kind \in AgentRole /\ s[q].kind \in AgentRole)
        /\ s[p].kind \in UserRole /\ s[q].kind \in UserRole => q - 1 \in cuts
    BY <2>2, <2>4, <2>5, NeighbouringMessages
  <2>7. QED
    BY <2>2, <2>6 DEF q
<1>10. Pairs(context, AgentRole) = {}
  BY <1>6, <1>9 DEF Pairs
<1>11. Cardinality(Pairs(context, UserRole)) <= Cardinality(cuts)
  <2>. DEFINE U == Pairs(context, UserRole)
              f == [k \in U |-> Nth(P, k + 1) - 1]
  <2>1. \A k \in U : /\ k \in 1..(n - 1) /\ k \in Nat /\ k + 1 \in 1..n
                     /\ Nth(P, k + 1) - 1 \in cuts /\ Nth(P, k + 1) \in Nat
    <3>1. ASSUME NEW k \in U PROVE k \in 1..(n - 1) /\ context[k].kind \in UserRole
                                   /\ context[k + 1].kind \in UserRole
      BY <1>6 DEF Pairs
    <3>2. ASSUME NEW k \in U PROVE k \in Nat /\ k + 1 \in 1..n
      BY <1>6, <3>1
    <3>3. ASSUME NEW k \in U PROVE Nth(P, k + 1) \in Nat /\ Nth(P, k + 1) - 1 \in cuts
      BY <1>2, <1>6, <1>9, <3>1, <3>2
    <3>4. QED
      BY <3>1, <3>2, <3>3
  <2>. HIDE DEF U
  <2>2. ASSUME NEW k \in U, NEW l \in U, k < l PROVE Nth(P, k + 1) < Nth(P, l + 1)
    <3>1. k + 1 \in 1..n /\ l + 1 \in 1..n /\ k + 1 < l + 1
      BY <2>1, <2>2
    <3>2. QED
      BY <1>7, <3>1
  <2>3. f \in [U -> cuts]
    BY <2>1
  <2>4. ASSUME NEW k \in U, NEW l \in U, f[k] = f[l] PROVE k = l
    <3>1. /\ Nth(P, k + 1) - 1 = Nth(P, l + 1) - 1 /\ k \in Nat /\ l \in Nat
          /\ Nth(P, k + 1) \in Nat /\ Nth(P, l + 1) \in Nat
      BY <2>1, <2>4
    <3>2. Nth(P, k + 1) = Nth(P, l + 1)
      BY <3>1
    <3>3. ~(k < l) /\ ~(l < k)
      BY <2>2, <3>1, <3>2
    <3>4. QED
      BY <3>1, <3>3
  <2>5. f \in Injection(U, cuts)
    BY <2>3, <2>4 DEF Injection, IsInjective
  <2>6. Cardinality(U) <= Cardinality(cuts)
    BY <2>5, FS_Injection
  <2>7. QED
    BY <2>6 DEF U
<1>12. QED
  BY <1>8, <1>10, <1>11 DEF context

(* Every completion is asked for with a well-formed conversation: the last *)
(* message is the user's, the model never answers itself, and two user     *)
(* messages meet only where a restart cut a turn (completion_messages).    *)
THEOREM ContextIsWellFormed == Spec => []ContextAlternates
<1>1. IInv /\ BusInv => ContextAlternates
  <2>. SUFFICES ASSUME IInv, BusInv, pc = "completing" PROVE ContextAlternates
    BY DEF ContextAlternates
  <2>1. /\ chat.events \in Seq(Event) /\ Grammatical(chat.events)
        /\ chat.events # <<>> /\ Last(chat.events).kind \in UserRole
    BY ChatFields DEF IInv, TurnGrammar, Standing
  <2>2. IsFiniteSet(cuts)
    <3>1. cuts \in SUBSET (0..Len(disk.events)) /\ Len(disk.events) \in Nat
      BY ResumedType, ChatFields DEF IInv, BusInv
    <3>2. IsFiniteSet(0..Len(disk.events))
      BY <3>1, FS_Interval
    <3>3. QED
      BY <3>1, <3>2, FS_Subset
  <2>3. /\ Last(Context(chat.events)).kind \in UserRole
        /\ Pairs(Context(chat.events), AgentRole) = {}
        /\ Cardinality(Pairs(Context(chat.events), UserRole)) <= Cardinality(cuts)
    BY <2>1, <2>2, ContextOf
  <2>4. QED
    BY <2>3 DEF ContextAlternates, Pairs
<1>2. QED
  BY <1>1, Invariance, BusInvariance, PTL

-----------------------------------------------------------------------------
(* What a reload shows                                                   *)

(* The first n values of f are the members of R, climbing.                 *)
Lists(f, n, R) ==
  /\ n \in Nat /\ f \in [1..n -> Nat]
  /\ \A k, l \in 1..n : k < l => f[k] < f[l]
  /\ \A k \in 1..n : f[k] \in R
  /\ \A r \in R : \E k \in 1..n : r = f[k]

LEMMA ListedByRank ==
  ASSUME NEW f, NEW n, NEW R, Lists(f, n, R)
  PROVE  Cardinality(R) = n /\ \A k \in 1..n : f[k] = Nth(R, k)
<1>. USE DEF Lists
<1>. DEFINE Below(m) == {r \in R : \E k \in 1..m : r = f[k]}
<1>1. ASSUME NEW m \in 0..n PROVE IsFiniteSet(Below(m)) /\ Cardinality(Below(m)) = m
  <2>1. m \in Nat /\ 1..m \subseteq 1..n
    OBVIOUS
  <2>2. IsFiniteSet(1..m) /\ Cardinality(1..m) = m
    BY <2>1, FS_Interval
  <2>. DEFINE g == [k \in 1..m |-> f[k]]
              B == Below(m)
  <2>3. \A k \in 1..m : f[k] \in B /\ f[k] \in Nat
    BY <2>1
  <2>4. \A r \in B : \E k \in 1..m : r = f[k]
    OBVIOUS
  <2>. HIDE DEF B
  <2>5. g \in [1..m -> B] /\ \A r \in B : \E k \in 1..m : g[k] = r
    BY <2>3, <2>4
  <2>6. ASSUME NEW k \in 1..m, NEW l \in 1..m, g[k] = g[l] PROVE k = l
    <3>1. /\ k \in 1..n /\ l \in 1..n /\ f[k] = f[l] /\ f[k] \in Nat /\ f[l] \in Nat
          /\ k \in Nat /\ l \in Nat
      BY <2>1, <2>3, <2>6
    <3>2. ~(k < l) /\ ~(l < k)
      BY <3>1 DEF Lists
    <3>3. QED
      BY <3>1, <3>2
  <2>7. g \in Bijection(1..m, B)
    BY <2>5, <2>6 DEF Bijection, Injection, IsInjective, Surjection
  <2>8. ExistsBijection(1..m, B)
    BY <2>7 DEF ExistsBijection
  <2>9. IsFiniteSet(B) /\ Cardinality(B) = m
    BY <2>2, <2>8, FS_Bijection
  <2>10. QED
    BY <2>9 DEF B
<1>2. R \in SUBSET Nat
  OBVIOUS
<1>3. Below(n) = R
  OBVIOUS
<1>4. IsFiniteSet(R) /\ Cardinality(R) = n
  <2>1. n \in 0..n
    OBVIOUS
  <2>2. QED
    BY <1>1, <1>3, <2>1
<1>5. ASSUME NEW k \in 1..n PROVE f[k] = Nth(R, k)
  <2>1. f[k] \in R /\ k \in 0..n
    OBVIOUS
  <2>2. ASSUME NEW r \in R PROVE r <= f[k] <=> \E j \in 1..k : r = f[j]
    <3>1. PICK j \in 1..n : r = f[j]
      OBVIOUS
    <3>2. f[j] \in Nat /\ f[k] \in Nat /\ j \in Nat /\ k \in Nat
      OBVIOUS
    <3>3. CASE j <= k
      <4>1. j = k \/ j < k
        BY <3>2, <3>3
      <4>2. f[j] <= f[k]
        BY <3>2, <4>1 DEF Lists
      <4>3. j \in 1..k
        BY <3>2, <3>3
      <4>4. QED
        BY <3>1, <4>2, <4>3
    <3>4. CASE ~(j <= k)
      <4>1. f[k] < f[j]
        BY <3>2, <3>4 DEF Lists
      <4>2. ASSUME NEW i \in 1..k PROVE f[i] # f[j]
        <5>1. i \in 1..n /\ i < j /\ f[i] \in Nat
          BY <3>2, <3>4
        <5>2. f[i] < f[j]
          BY <5>1 DEF Lists
        <5>3. QED
          BY <3>2, <5>1, <5>2
      <4>3. QED
        BY <3>1, <3>2, <4>1, <4>2
    <3>5. QED
      BY <3>3, <3>4
  <2>3. {r \in R : r <= f[k]} = Below(k)
    BY <2>2
  <2>4. Rank(R, f[k]) = k
    BY <1>1, <2>1, <2>3 DEF Rank
  <2>5. Nth(R, Rank(R, f[k])) = f[k]
    BY <1>2, <1>4, <2>1, NthIs
  <2>6. QED
    BY <2>4, <2>5
<1>6. QED
  BY <1>2, <1>4, <1>5

LEMMA ListsAgree ==
  ASSUME NEW f, NEW n, NEW g, NEW m, NEW R, Lists(f, n, R), Lists(g, m, R)
  PROVE  f = g
<1>1. Cardinality(R) = n /\ \A k \in 1..n : f[k] = Nth(R, k)
  BY ListedByRank
<1>2. Cardinality(R) = m /\ \A k \in 1..m : g[k] = Nth(R, k)
  BY ListedByRank
<1>3. f \in [1..n -> Nat] /\ g \in [1..n -> Nat]
  BY <1>1, <1>2 DEF Lists
<1>4. n = m
  BY <1>1, <1>2
<1>5. \A k \in 1..n : f[k] = g[k]
  BY <1>1, <1>2, <1>4
<1>6. ASSUME NEW D, NEW a \in [D -> Nat], NEW b \in [D -> Nat], \A k \in D : a[k] = b[k]
      PROVE  a = b
  BY <1>6
<1>7. QED
  BY <1>3, <1>5, <1>6

(* A field of what is picked, when it climbs with the position.            *)
LEMMA PickedLists ==
  ASSUME NEW P \in SUBSET Nat, IsFiniteSet(P), NEW v \in [P -> Nat],
         \A i, j \in P : i < j => v[i] < v[j],
         NEW R, \A i \in P : v[i] \in R, \A r \in R : \E i \in P : r = v[i]
  PROVE  Lists([k \in 1..Cardinality(P) |-> v[Nth(P, k)]], Cardinality(P), R)
<1>. DEFINE n == Cardinality(P)
            f == [k \in 1..n |-> v[Nth(P, k)]]
<1>1. n \in Nat /\ \A i \in P : Rank(P, i) \in 1..n
  BY RankIn
<1>2. /\ \A k \in 1..n : Nth(P, k) \in P
      /\ \A i \in P : Nth(P, Rank(P, i)) = i
  BY NthIs
<1>3. \A k, l \in 1..n : k < l => Nth(P, k) < Nth(P, l)
  BY NthOrder
<1>. HIDE DEF n
<1>4. f \in [1..n -> Nat] /\ \A k \in 1..n : f[k] = v[Nth(P, k)]
  BY <1>2
<1>. HIDE DEF f
<1>5. \A k, l \in 1..n : k < l => f[k] < f[l]
  BY <1>2, <1>3, <1>4
<1>6. ASSUME NEW r \in R PROVE \E k \in 1..n : r = f[k]
  <2>1. PICK i \in P : r = v[i]
    OBVIOUS
  <2>2. Rank(P, i) \in 1..n /\ f[Rank(P, i)] = v[i]
    BY <1>1, <1>2, <1>4
  <2>3. QED
    BY <2>1, <2>2
<1>7. \A k \in 1..n : f[k] \in R
  BY <1>2, <1>4
<1>8. Lists(f, n, R)
  BY <1>1, <1>4, <1>5, <1>6, <1>7 DEF Lists
<1>9. QED
  BY <1>8 DEF f, n

-----------------------------------------------------------------------------
(* While no restart cut a turn, the reload hides the tool results and      *)
(* nothing else.                                                           *)
LEMMA HiddenAreResults ==
  ASSUME NEW s \in Seq(Event), Grammatical(s), cuts = {}, NEW supply \in Nat, Linked(s, supply),
         NEW i \in DOMAIN s
  PROVE  Hides(s, s[i]) <=> s[i].kind = "results"
<1>1. Len(s) \in Nat /\ DOMAIN s = 1..Len(s)
  OBVIOUS
<1>2. /\ \A k, l \in DOMAIN s : k < l => s[k].id < s[l].id
      /\ \A k \in DOMAIN s : s[k].id \in Nat /\ s[k].id > 0
  <2>1. ASSUME NEW k \in DOMAIN s, NEW l \in DOMAIN s, k < l PROVE s[k].id < s[l].id
    <3>1. k \in 1..(l - 1)
      BY <1>1, <2>1
    <3>2. QED
      BY <3>1 DEF Linked, IdsCountUp
  <2>2. ASSUME NEW k \in DOMAIN s PROVE s[k].id \in Nat /\ s[k].id > 0
    <3>1. s[k].id \in 1..(supply - 1)
      BY DEF Linked
    <3>2. QED
      BY <3>1
  <2>3. QED
    BY <2>1, <2>2
<1>3. ToolEventIds(s) = {s[k].id : k \in {j \in DOMAIN s : s[j].kind \in ToolKinds}}
  BY DEF ToolEventIds
<1>4. CASE i = 1
  <2>1. s[i].kind = "user" /\ s[i].parent = 0
    <3>1. s # <<>>
      BY <1>1, <1>4
    <3>2. QED
      BY <1>4, <3>1 DEF Grammatical, Linked
  <2>2. s[i].parent \notin ToolEventIds(s)
    BY <1>2, <1>3, <2>1
  <2>3. QED
    BY <2>1, <2>2 DEF Hides
<1>5. CASE i # 1
  <2>1. /\ i - 1 \in DOMAIN s /\ i - 1 \in 1..(Len(s) - 1) /\ (i - 1) + 1 = i
        /\ s[i].parent = s[i - 1].id
    BY <1>1, <1>5 DEF Linked
  <2>2. MayFollow(s[i - 1], s[i])
    BY <2>1 DEF Grammatical
  <2>3. s[i].parent \in ToolEventIds(s) <=> s[i - 1].kind \in ToolKinds
    <3>1. ASSUME NEW k \in DOMAIN s, s[k].id = s[i - 1].id PROVE k = i - 1
      <4>1. k \in Nat /\ i - 1 \in Nat /\ s[k].id \in Nat
        BY <1>1, <1>2, <2>1
      <4>2. ~(k < i - 1) /\ ~(i - 1 < k)
        BY <1>2, <2>1, <3>1, <4>1
      <4>3. QED
        BY <4>1, <4>2
    <3>2. QED
      BY <1>3, <2>1, <3>1
  <2>4. QED
    BY <2>2, <2>3 DEF Hides, MayFollow, TurnSteps, UserRole, ToolKinds
<1>6. QED
  BY <1>4, <1>5

(* Induction over the numbers, with a set in the place of a predicate.     *)
LEMMA NatInductionSet ==
  ASSUME NEW S, 0 \in S, \A n \in Nat : n \in S => n + 1 \in S
  PROVE  Nat \subseteq S
<1>. SUFFICES ASSUME Nat \ S # {} PROVE FALSE
  OBVIOUS
<1>1. PICK x \in Nat \ S : \A y \in Nat \ S : <<y, x>> \notin OpToRel(<, Nat)
  <2>. DEFINE T == Nat \ S
  <2>1. T \subseteq Nat /\ T # {}
    OBVIOUS
  <2>. HIDE DEF T
  <2>2. \E x \in T : \A y \in T : <<y, x>> \notin OpToRel(<, Nat)
    BY <2>1, WFMin, NatLessThanWellFounded, Zenon
  <2>3. QED
    BY <2>2 DEF T
<1>2. x # 0 /\ x - 1 \in Nat /\ x - 1 < x
  OBVIOUS
<1>3. x - 1 \notin S
  BY <1>2
<1>4. <<x - 1, x>> \in OpToRel(<, Nat)
  BY <1>2 DEF OpToRel
<1>5. QED
  BY <1>1, <1>2, <1>3, <1>4

(* The terminal's view of the bus, one envelope after the other: there is  *)
(* a function that follows its handler, so Views is one.                   *)
Viewed(b, f, n) == f = [k \in 0..n |-> IF k = 0 THEN EmptyView ELSE Handled(f[k - 1], b[k])]

LEMMA ViewedStep ==
  ASSUME NEW b, NEW n \in Nat, NEW f, Viewed(b, f, n)
  PROVE  \E g : Viewed(b, g, n + 1)
<1>. DEFINE g == [k \in 0..(n + 1) |-> IF k = n + 1 THEN Handled(f[n], b[n + 1]) ELSE f[k]]
            h == [k \in 0..(n + 1) |-> IF k = 0 THEN EmptyView ELSE Handled(g[k - 1], b[k])]
            e == [k \in 0..n |-> IF k = 0 THEN EmptyView ELSE Handled(f[k - 1], b[k])]
<1>1. \A k \in 0..n : f[k] = IF k = 0 THEN EmptyView ELSE Handled(f[k - 1], b[k])
  <2>1. \A k \in 0..n : e[k] = IF k = 0 THEN EmptyView ELSE Handled(f[k - 1], b[k])
    OBVIOUS
  <2>2. f = e
    BY DEF Viewed
  <2>3. QED
    BY ONLY <2>1, <2>2
<1>2. ASSUME NEW k \in 0..(n + 1) PROVE g[k] = h[k]
  <2>1. CASE k = 0
    <3>1. k \in 0..n /\ k # n + 1
      BY <2>1
    <3>2. g[k] = f[k] /\ h[k] = EmptyView
      BY <2>1, <3>1
    <3>3. QED
      BY <1>1, <2>1, <3>1, <3>2
  <2>2. CASE k # 0
    <3>1. k - 1 \in 0..n /\ k - 1 # n + 1 /\ k - 1 \in 0..(n + 1)
      BY <2>2
    <3>2. g[k - 1] = f[k - 1]
      BY <3>1
    <3>3. h[k] = Handled(g[k - 1], b[k])
      BY <2>2
    <3>4. g[k] = Handled(f[k - 1], b[k])
      <4>1. CASE k = n + 1
        <5>1. k - 1 = n
          BY <4>1
        <5>2. QED
          BY <4>1, <5>1
      <4>2. CASE k # n + 1
        <5>1. k \in 0..n
          BY <4>2
        <5>2. QED
          BY <1>1, <2>2, <4>2, <5>1
      <4>3. QED
        BY <4>1, <4>2
    <3>. HIDE DEF g, h
    <3>5. QED
      BY <3>2, <3>3, <3>4
  <2>3. QED
    BY <2>1, <2>2
<1>3. g = h
  <2>1. g = [k \in 0..(n + 1) |-> g[k]] /\ h = [k \in 0..(n + 1) |-> h[k]]
    OBVIOUS
  <2>. HIDE DEF g, h
  <2>2. QED
    BY <1>2, <2>1
<1>4. QED
  BY <1>3 DEF Viewed

LEMMA ViewedExists == \A b : \A n \in Nat : \E f : Viewed(b, f, n)
<1>. TAKE b
<1>. DEFINE Ns == {n \in Nat : \E f : Viewed(b, f, n)}
<1>1. 0 \in Ns
  <2>. DEFINE f == [k \in 0..0 |-> EmptyView]
  <2>1. Viewed(b, f, 0)
    BY DEF Viewed
  <2>2. QED
    BY <2>1
<1>2. \A n \in Nat : n \in Ns => n + 1 \in Ns
  BY ViewedStep
<1>. HIDE DEF Ns
<1>3. Nat \subseteq Ns
  BY <1>1, <1>2, NatInductionSet
<1>4. QED
  BY <1>3 DEF Ns

LEMMA ViewsAre ==
  ASSUME NEW b, Len(b) \in Nat
  PROVE  /\ Views(b)[0] = EmptyView
         /\ \A k \in 1..Len(b) : Views(b)[k] = Handled(Views(b)[k - 1], b[k])
<1>. DEFINE f == Views(b)
            e == [k \in 0..Len(b) |-> IF k = 0 THEN EmptyView ELSE Handled(f[k - 1], b[k])]
<1>1. Viewed(b, f, Len(b))
  <2>1. f = CHOOSE g : Viewed(b, g, Len(b))
    BY DEF Views, Viewed
  <2>. HIDE DEF f
  <2>2. \E g : Viewed(b, g, Len(b))
    BY ViewedExists, Zenon
  <2>3. QED
    BY <2>1, <2>2
<1>2. f = e
  BY <1>1 DEF Viewed
<1>3. \A k \in 0..Len(b) : e[k] = IF k = 0 THEN EmptyView ELSE Handled(f[k - 1], b[k])
  OBVIOUS
<1>. HIDE DEF f, e
<1>4. \A k \in 0..Len(b) : f[k] = IF k = 0 THEN EmptyView ELSE Handled(f[k - 1], b[k])
  BY <1>2, <1>3
<1>5. 0 \in 0..Len(b) /\ \A k \in 1..Len(b) : k \in 0..Len(b) /\ k # 0
  OBVIOUS
<1>6. QED
  BY <1>4, <1>5 DEF f

(* Append, as a function.                                                   *)
LEMMA AppendedFunction ==
  ASSUME NEW X, NEW s \in Seq(X), NEW x
  PROVE  Append(s, x) = [i \in 1..(Len(s) + 1) |-> IF i = Len(s) + 1 THEN x ELSE s[i]]
<1> DEFINE Y == X \cup {x}
<1>1. s \in Seq(Y) /\ x \in Y
  OBVIOUS
<1> HIDE DEF Y
<1>2. Append(s, x) \in Seq(Y) /\ Len(Append(s, x)) = Len(s) + 1
  BY <1>1
<1>3. Append(s, x) = [i \in 1..(Len(s) + 1) |-> Append(s, x)[i]]
  BY <1>2, LenProperties
<1>4. \A i \in 1..(Len(s) + 1) : Append(s, x)[i] = IF i = Len(s) + 1 THEN x ELSE s[i]
  <2>1. Len(s) \in Nat
    OBVIOUS
  <2>2. \A i \in 1..Len(s) : Append(s, x)[i] = s[i] /\ i # Len(s) + 1
    BY <1>1, <2>1
  <2>3. \A i \in 1..(Len(s) + 1) : i \in 1..Len(s) \/ i = Len(s) + 1
    BY <2>1
  <2>4. Append(s, x)[Len(s) + 1] = x
    BY <1>1
  <2> QED
    BY <2>2, <2>3, <2>4
<1> QED
  BY <1>3, <1>4

-----------------------------------------------------------------------------
(* What is told when one envelope, or one entry, comes after the others.   *)
LEMMA ToldMore ==
  ASSUME NEW b \in Seq(Envelope), NEW env \in Envelope
  PROVE  /\ ~Announces(env) => Told(Append(b, env)) = Told(b)
         /\ Announces(env) => Told(Append(b, env)) = Append(Told(b), env.ref)
<1>. DEFINE c == Append(b, env)
            n == Len(b)
            A == Announced(b)
            m == Cardinality(A)
<1>1. /\ c \in Seq(Envelope) /\ n \in Nat /\ Len(c) = n + 1
      /\ DOMAIN b = 1..n /\ DOMAIN c = 1..(n + 1)
      /\ \A i \in 1..n : c[i] = b[i]
      /\ c[n + 1] = env
  OBVIOUS
<1>2. A \in SUBSET (1..n) /\ A \in SUBSET Nat /\ IsFiniteSet(A)
  <2>1. A \in SUBSET (1..n)
    BY <1>1 DEF Announced
  <2>2. IsFiniteSet(1..n)
    BY <1>1, FS_Interval
  <2>. HIDE DEF A, n
  <2>3. IsFiniteSet(A)
    BY <2>1, <2>2, FS_Subset
  <2>4. QED
    BY <1>1, <2>1, <2>3
<1>3. \A i : i \in Announced(c) <=> i \in A \/ (i = n + 1 /\ Announces(env))
  <2>1. \A i : i \in Announced(c) <=> i \in 1..(n + 1) /\ Announces(c[i])
    BY <1>1 DEF Announced
  <2>2. \A i : i \in A <=> i \in 1..n /\ Announces(b[i])
    BY <1>1 DEF Announced
  <2>3. \A i : i \in 1..(n + 1) <=> i \in 1..n \/ i = n + 1
    BY <1>1
  <2>4. n + 1 \notin 1..n
    BY <1>1
  <2>. HIDE DEF A, c, n
  <2>5. QED
    BY <1>1, <2>1, <2>2, <2>3, <2>4
<1>. HIDE DEF c, n, A
<1>4. /\ Picked(b, A) \in Seq(Envelope) /\ DOMAIN Picked(b, A) = 1..Len(Picked(b, A))
      /\ Len(Picked(b, A)) \in Nat
  <2>1. \A i \in A : b[i] \in Envelope
    BY <1>1, <1>2
  <2>2. Picked(b, A) \in Seq(Envelope)
    BY <1>2, <2>1, PickedType
  <2>3. QED
    BY <2>2
<1>5. ASSUME ~Announces(env) PROVE Told(c) = Told(b)
  <2>1. Announced(c) = A
    BY <1>3, <1>5
  <2>2. Picked(c, A) = Picked(b, A)
    <3>1. \A i \in A : c[i] = b[i]
      BY <1>1, <1>2
    <3>2. QED
      BY <1>2, <3>1, PickedSame
  <2>3. QED
    BY <2>1, <2>2 DEF Told, A
<1>6. ASSUME Announces(env) PROVE Told(c) = Append(Told(b), env.ref)
  <2>1. Announced(c) = A \cup {Len(c)}
    BY <1>1, <1>3, <1>6
  <2>2. Picked(c, A \cup {Len(c)}) = Append(Picked(b, A), env)
    <3>1. Len(c) = Len(b) + 1 /\ A \in SUBSET (1..Len(b)) /\ (\A i \in 1..Len(b) : c[i] = b[i])
          /\ c[Len(c)] = env
      BY <1>1, <1>2 DEF n
    <3>2. QED
      BY <1>1, <3>1, PickedMore
  <2>. DEFINE p == Picked(b, A)
              q == Append(p, env)
              k == Len(p)
  <2>3. Told(c) = [i \in DOMAIN q |-> q[i].ref]
    BY <2>1, <2>2 DEF Told
  <2>4. Told(b) = [i \in DOMAIN p |-> p[i].ref]
    BY DEF Told, A
  <2>5. /\ p \in Seq(Envelope) /\ k \in Nat /\ DOMAIN p = 1..k /\ DOMAIN q = 1..(k + 1)
        /\ \A i \in 1..k : q[i] = p[i]
        /\ q[k + 1] = env
    BY <1>4
  <2>. HIDE DEF p, q, k
  <2>6. Told(b) = [i \in 1..k |-> p[i].ref] /\ Told(c) = [i \in 1..(k + 1) |-> q[i].ref]
    BY <2>3, <2>4, <2>5
  <2>7. /\ Told(b) \in Seq({p[i].ref : i \in 1..k}) /\ Len(Told(b)) = k
        /\ \A i \in 1..k : Told(b)[i] = p[i].ref
    <3>1. Told(b) \in [1..k -> {p[i].ref : i \in 1..k}]
      BY <2>6
    <3>2. Told(b) \in Seq({p[i].ref : i \in 1..k}) /\ Len(Told(b)) = k
      <4>1. ASSUME NEW X, NEW f \in [1..k -> X] PROVE f \in Seq(X) /\ Len(f) = k
        BY <2>5
      <4>2. QED
        BY <3>1, <4>1
    <3>3. QED
      BY <2>6, <3>2
  <2>8. Append(Told(b), env.ref) = [i \in 1..(k + 1) |-> IF i = k + 1 THEN env.ref ELSE Told(b)[i]]
    BY <2>7, AppendedFunction
  <2>9. \A i \in 1..(k + 1) : q[i].ref = IF i = k + 1 THEN env.ref ELSE Told(b)[i]
    <3>1. \A i \in 1..(k + 1) : i = k + 1 \/ i \in 1..k
      BY <2>5
    <3>2. \A i \in 1..k : i # k + 1
      BY <2>5
    <3>3. QED
      BY <2>5, <2>7, <3>1, <3>2
  <2>10. QED
    BY <2>6, <2>8, <2>9
<1>7. QED
  BY <1>5, <1>6 DEF c

(* The handler adds to the history what tells as much as the envelope.     *)
LEMMA HandledTold ==
  ASSUME NEW view, view.history \in Seq(Envelope), NEW env \in Envelope
  PROVE  /\ Handled(view, env).history \in Seq(Envelope)
         /\ ~Announces(env) => Told(Handled(view, env).history) = Told(view.history)
         /\ Announces(env) => Told(Handled(view, env).history) = Append(Told(view.history), env.ref)
<1>. DEFINE h == view.history
            t == ThoughtsBefore(view, env)
            thought == Env("thinking", 0)
<1>1. thought \in Envelope /\ ~Announces(thought)
  BY EnvType DEF Announces
<1>2. /\ h \o t \in Seq(Envelope)
      /\ Told(h \o t) = Told(h)
  <2>1. CASE t = <<>>
    BY <2>1
  <2>2. CASE t = <<thought>>
    <3>1. h \o t = Append(h, thought)
      <4>. HIDE DEF thought
      <4>1. QED
        BY <1>1, <2>2
    <3>2. Append(h, thought) \in Seq(Envelope)
      <4>. HIDE DEF thought
      <4>1. QED
        BY <1>1
    <3>3. QED
      BY <1>1, <3>1, <3>2, ToldMore
  <2>3. QED
    BY <2>1, <2>2 DEF ThoughtsBefore
<1>3. CASE env.type \in Silent
  <2>1. ~Announces(env) /\ Handled(view, env).history = h
    BY <1>3 DEF Silent, Announces, Handled
  <2>2. QED
    BY <2>1
<1>4. CASE env.type \notin Silent
  <2>1. Handled(view, env).history = Append(h \o t, env)
    BY <1>4 DEF Handled
  <2>. DEFINE q == h \o t
  <2>2. q \in Seq(Envelope) /\ Told(q) = Told(view.history)
    BY <1>2
  <2>3. Handled(view, env).history = Append(q, env)
    BY <2>1
  <2>. HIDE DEF q
  <2>4. Append(q, env) \in Seq(Envelope)
    BY <2>2, AppendTo
  <2>5. /\ ~Announces(env) => Told(Append(q, env)) = Told(q)
        /\ Announces(env) => Told(Append(q, env)) = Append(Told(q), env.ref)
    BY <2>2, ToldMore
  <2>6. QED
    BY <2>2, <2>3, <2>4, <2>5
<1>5. QED
  BY <1>3, <1>4

(* So the history tells what the bus tells, no more and no less.           *)
LEMMA HistoryTellsTheBus ==
  ASSUME NEW b \in Seq(Envelope)
  PROVE  Told(Views(b)[Len(b)].history) = Told(b)
<1>. DEFINE N == Len(b)
            v == Views(b)
            S == {n \in Nat : n <= N => /\ v[n].history \in Seq(Envelope)
                                        /\ Told(v[n].history) = Told(SubSeq(b, 1, n))}
<1>1. N \in Nat /\ DOMAIN b = 1..N /\ \A i \in 1..N : b[i] \in Envelope
  OBVIOUS
<1>2. v[0] = EmptyView /\ \A k \in 1..N : v[k] = Handled(v[k - 1], b[k])
  BY <1>1, ViewsAre
<1>3. 0 \in S
  <2>1. v[0].history = <<>>
    BY <1>2 DEF EmptyView
  <2>2. SubSeq(b, 1, 0) = <<>> /\ <<>> \in Seq(Envelope)
    OBVIOUS
  <2>. HIDE DEF v
  <2>3. Told(v[0].history) = Told(SubSeq(b, 1, 0))
    BY <2>1, <2>2
  <2>4. v[0].history \in Seq(Envelope)
    BY <2>1, <2>2
  <2>5. QED
    BY <2>3, <2>4
<1>4. ASSUME NEW n \in Nat, n \in S PROVE n + 1 \in S
  <2>. SUFFICES ASSUME n + 1 <= N
                PROVE  /\ v[n + 1].history \in Seq(Envelope)
                       /\ Told(v[n + 1].history) = Told(SubSeq(b, 1, n + 1))
    BY <1>4
  <2>. DEFINE p == SubSeq(b, 1, n)
  <2>1. /\ n <= N /\ n + 1 \in 1..N /\ (n + 1) - 1 = n
        /\ v[n].history \in Seq(Envelope) /\ Told(v[n].history) = Told(p)
    BY <1>1, <1>4
  <2>2. v[n + 1] = Handled(v[n], b[n + 1]) /\ b[n + 1] \in Envelope
    BY <1>1, <1>2, <2>1
  <2>3. p \in Seq(Envelope) /\ SubSeq(b, 1, n + 1) = Append(p, b[n + 1])
    <3>1. p \in Seq(Envelope) /\ Len(p) = n /\ \A i \in 1..n : p[i] = b[i]
      BY <1>1, <2>1
    <3>2. /\ SubSeq(b, 1, n + 1) \in Seq(Envelope) /\ Len(SubSeq(b, 1, n + 1)) = n + 1
          /\ \A i \in 1..(n + 1) : SubSeq(b, 1, n + 1)[i] = b[i]
      BY <1>1, <2>1
    <3>3. /\ Append(p, b[n + 1]) \in Seq(Envelope) /\ Len(Append(p, b[n + 1])) = n + 1
          /\ \A i \in 1..(n + 1) : Append(p, b[n + 1])[i] = b[i]
      BY <2>2, <3>1
    <3>. HIDE DEF p
    <3>4. QED
      BY <3>1, <3>2, <3>3, SeqEqual
  <2>. HIDE DEF v, p
  <2>4. /\ Handled(v[n], b[n + 1]).history \in Seq(Envelope)
        /\ Told(Handled(v[n], b[n + 1]).history) = Told(Append(p, b[n + 1]))
    <3>. DEFINE env == b[n + 1]
                view == v[n]
    <3>1. env \in Envelope /\ view.history \in Seq(Envelope) /\ Told(view.history) = Told(p)
      BY <2>1, <2>2
    <3>. HIDE DEF env, view
    <3>2. /\ Handled(view, env).history \in Seq(Envelope)
          /\ ~Announces(env) => Told(Handled(view, env).history) = Told(view.history)
          /\ Announces(env) =>
                 Told(Handled(view, env).history) = Append(Told(view.history), env.ref)
      BY <3>1, HandledTold
    <3>3. /\ ~Announces(env) => Told(Append(p, env)) = Told(p)
          /\ Announces(env) => Told(Append(p, env)) = Append(Told(p), env.ref)
      BY <2>3, <3>1, ToldMore
    <3>4. Told(Handled(view, env).history) = Told(Append(p, env))
      BY <3>1, <3>2, <3>3
    <3>5. QED
      BY <3>2, <3>4 DEF env, view
  <2>5. QED
    BY <2>2, <2>3, <2>4
<1>. HIDE DEF v
<1>5. Nat \subseteq S
  <2>. HIDE DEF S
  <2>1. QED
    BY <1>3, <1>4, NatInductionSet
<1>6. SubSeq(b, 1, N) = b
  BY <1>1
<1>7. N \in S
  BY <1>1, <1>5
<1>8. Told(v[N].history) = Told(SubSeq(b, 1, N))
  BY <1>1, <1>7
<1>9. QED
  BY <1>6, <1>8 DEF v

(* Between turns, when no restart and no failed write came between, the    *)
(* session reloaded from storage shows the same messages and tool calls in *)
(* the same order as the live one (history_from_chat against               *)
(* handle_bus_event).                                                      *)
THEOREM ReloadIsFaithful == Spec => []ReloadShowsTheSame
<1>1. IInv /\ BusInv => ReloadShowsTheSame
  <2>. SUFFICES ASSUME IInv, BusInv, pc \in {"recv", "exited"}, cuts = {},
                       \A i \in DOMAIN bus : bus[i].type # "error"
                PROVE  HistoryFromChat(disk.events) = Told(LiveHistory)
    BY DEF ReloadShowsTheSame
  <2>. DEFINE s == chat.events
              P == {i \in DOMAIN s : ~Hides(s, s[i])}
              A == Announced(bus)
              ids == [i \in P |-> s[i].id]
              refs == [i \in A |-> bus[i].ref]
              n == Cardinality(P)
              m == Cardinality(A)
              f == [k \in 1..n |-> ids[Nth(P, k)]]
              g == [k \in 1..m |-> refs[Nth(A, k)]]
  <2>1. /\ TypeOK /\ s \in Seq(Event) /\ Len(s) \in Nat /\ DOMAIN s = 1..Len(s)
        /\ bus \in Seq(Envelope) /\ Len(bus) \in Nat /\ DOMAIN bus = 1..Len(bus)
        /\ disk.events = s /\ Grammatical(s) /\ nextId \in Nat /\ Linked(s, nextId)
    <3>1. disk.events = s
      BY DEF IInv, Durability
    <3>2. Grammatical(s) /\ Linked(s, nextId) /\ TypeOK
      BY DEF IInv, TurnGrammar, BusInv
    <3>3. QED
      BY <3>1, <3>2, ChatFields DEF TypeOK
  <2>2. P = Public(s, Resumed, Pending)
    <3>1. Resumed = 0 /\ ~Pending
      BY DEF Resumed, Pending
    <3>2. \A i \in DOMAIN s : Hides(s, s[i]) <=> s[i].kind = "results"
      BY <2>1, HiddenAreResults
    <3>3. \A i : i \in P <=> i \in 1..Len(s) /\ s[i].kind # "results"
      BY <2>1, <3>2
    <3>4. \A i : i \in Public(s, Resumed, Pending) <=> i \in 1..Len(s) /\ s[i].kind # "results"
      BY <2>1, <3>1 DEF Public
    <3>. HIDE DEF P
    <3>5. QED
      BY <3>3, <3>4
  <2>3. {bus[i].ref : i \in A} = {s[k].id : k \in P}
    BY <2>2 DEF BusInv, BusFollowsTranscript
  <2>4. /\ P \in SUBSET Nat /\ IsFiniteSet(P) /\ P \subseteq DOMAIN s
        /\ A \in SUBSET Nat /\ IsFiniteSet(A) /\ A \subseteq DOMAIN bus
    <3>1. IsFiniteSet(1..Len(s)) /\ IsFiniteSet(1..Len(bus))
      <4>1. ASSUME NEW l \in Nat PROVE IsFiniteSet(1..l)
        BY FS_Interval
      <4>2. QED
        BY <2>1, <4>1
    <3>2. P \in SUBSET (1..Len(s)) /\ A \in SUBSET (1..Len(bus))
      BY <2>1 DEF Announced
    <3>. HIDE DEF P, A
    <3>3. IsFiniteSet(P)
      BY <3>1, <3>2, FS_Subset
    <3>4. IsFiniteSet(A)
      BY <3>1, <3>2, FS_Subset
    <3>5. QED
      BY <2>1, <3>2, <3>3, <3>4
  <2>5. HistoryFromChat(disk.events) = f
    <3>1. Picked(s, P) = [k \in 1..n |-> s[Nth(P, k)]]
      BY DEF Picked
    <3>2. \A k \in 1..n : Nth(P, k) \in P
      BY <2>4, NthIs
    <3>3. HistoryFromChat(s) = [k \in 1..n |-> s[Nth(P, k)].id]
      <4>1. HistoryFromChat(s) = [k \in DOMAIN Picked(s, P) |-> Picked(s, P)[k].id]
        BY DEF HistoryFromChat
      <4>. HIDE DEF P, n
      <4>2. QED
        BY <3>1, <4>1
    <3>. HIDE DEF P, n
    <3>4. QED
      BY <2>1, <3>2, <3>3
  <2>6. Told(LiveHistory) = g
    <3>0. Told(LiveHistory) = Told(bus)
      BY <2>1, HistoryTellsTheBus DEF LiveHistory
    <3>1. Picked(bus, A) = [k \in 1..m |-> bus[Nth(A, k)]]
      BY DEF Picked
    <3>2. \A k \in 1..m : Nth(A, k) \in A
      BY <2>4, NthIs
    <3>3. Told(bus) = [k \in 1..m |-> bus[Nth(A, k)].ref]
      <4>1. Told(bus) = [k \in DOMAIN Picked(bus, A) |-> Picked(bus, A)[k].ref]
        BY DEF Told
      <4>. HIDE DEF A, m
      <4>2. QED
        BY <3>1, <4>1
    <3>. HIDE DEF A, m
    <3>4. QED
      BY <3>0, <3>2, <3>3
  <2>7. /\ ids \in [P -> Nat] /\ \A i, j \in P : i < j => ids[i] < ids[j]
    <3>. HIDE DEF P
    <3>1. \A i \in DOMAIN s : s[i].id \in Nat
      <4>1. \A i \in DOMAIN s : s[i] \in Event
        BY <2>1, ElementOf
      <4>2. QED
        BY <4>1 DEF Event
    <3>2. ASSUME NEW i \in P, NEW j \in P, i < j PROVE s[i].id < s[j].id
      <4>1. j \in DOMAIN s /\ i \in 1..(j - 1)
        BY <2>1, <2>4, <3>2
      <4>2. QED
        BY <2>1, <4>1 DEF Linked, IdsCountUp
    <3>3. QED
      BY <2>4, <3>1, <3>2
  <2>8. /\ refs \in [A -> Nat] /\ \A i, j \in A : i < j => refs[i] < refs[j]
    <3>1. \A i, j \in A : i < j => bus[i].ref < bus[j].ref
      BY DEF BusInv, BusFollowsTranscript, RefsCountUp
    <3>. HIDE DEF A
    <3>2. \A i \in DOMAIN bus : bus[i].ref \in Nat
      <4>1. \A i \in DOMAIN bus : bus[i] \in Envelope
        BY <2>1, ElementOf
      <4>2. QED
        BY <4>1 DEF Envelope
    <3>3. QED
      BY <2>4, <3>1, <3>2
  <2>. DEFINE R == {bus[i].ref : i \in A}
  <2>9. Lists(f, n, R)
    <3>1. \A i \in P : ids[i] \in R
      BY <2>3
    <3>2. \A r \in R : \E i \in P : r = ids[i]
      BY <2>3
    <3>. HIDE DEF P, ids, R
    <3>3. QED
      BY <2>4, <2>7, <3>1, <3>2, PickedLists
  <2>10. Lists(g, m, R)
    <3>1. \A i \in A : refs[i] \in R
      OBVIOUS
    <3>2. \A r \in R : \E i \in A : r = refs[i]
      OBVIOUS
    <3>. HIDE DEF A, refs, R
    <3>3. QED
      BY <2>4, <2>8, <3>1, <3>2, PickedLists
  <2>. HIDE DEF P, A, n, m, f, g, R
  <2>13. f = g
    BY <2>9, <2>10, ListsAgree
  <2>14. QED
    BY <2>5, <2>6, <2>13
<1>2. QED
  BY <1>1, Invariance, BusInvariance, PTL

-----------------------------------------------------------------------------
(* The conversation that the agent promises                              *)

(* The turns of a transcript *)

LEMMA UsersIn ==
  ASSUME NEW s \in Seq(Event)
  PROVE  /\ Users(s) \in SUBSET (1..Len(s)) /\ Users(s) \in SUBSET Nat
         /\ IsFiniteSet(Users(s)) /\ Cardinality(Users(s)) \in Nat /\ Len(s) \in Nat
         /\ \A k \in 1..Cardinality(Users(s)) : Nth(Users(s), k) \in Users(s)
<1>1. Len(s) \in Nat /\ Users(s) \in SUBSET (1..Len(s))
  BY DEF Users
<1>2. IsFiniteSet(Users(s))
  <2>1. IsFiniteSet(1..Len(s))
    BY <1>1, FS_Interval
  <2>2. QED
    BY <1>1, <2>1, FS_Subset
<1>3. Users(s) \in SUBSET Nat
  BY <1>1
<1>4. QED
  BY <1>1, <1>2, <1>3, FS_CardinalityType, NthIs

(* The end of a turn is a position of the transcript.                      *)
LEMMA EndIn ==
  ASSUME NEW s \in Seq(Event), NEW k \in 1..Cardinality(Users(s))
  PROVE  /\ EndOf(s, k) \in 1..Len(s) /\ EndOf(s, k) \in DOMAIN s
         /\ Nth(Users(s), k) <= EndOf(s, k) /\ Nth(Users(s), k) \in 1..Len(s)
         /\ k # Cardinality(Users(s)) =>
                /\ k + 1 \in 1..Cardinality(Users(s))
                /\ EndOf(s, k) = Nth(Users(s), k + 1) - 1
                /\ EndOf(s, k) < Len(s)
                /\ s[EndOf(s, k) + 1].kind = "user"
<1>. DEFINE U == Users(s)
            c == Cardinality(U)
<1>1. /\ U \in SUBSET (1..Len(s)) /\ U \in SUBSET Nat /\ IsFiniteSet(U)
      /\ c \in Nat /\ Len(s) \in Nat /\ \A l \in 1..c : Nth(U, l) \in U
      /\ DOMAIN s = 1..Len(s)
  BY UsersIn
<1>2. \A l, m \in 1..c : l < m => Nth(U, l) < Nth(U, m)
  BY <1>1, NthOrder
<1>3. Nth(U, k) \in 1..Len(s)
  BY <1>1
<1>4. CASE k = c
  <2>1. EndOf(s, k) = Len(s)
    BY <1>4 DEF EndOf
  <2>. HIDE DEF U, c
  <2>2. QED
    BY <1>1, <1>3, <1>4, <2>1 DEF U, c
<1>5. CASE k # c
  <2>1. EndOf(s, k) = Nth(U, k + 1) - 1
    BY <1>5 DEF EndOf
  <2>2. k + 1 \in 1..c /\ k < k + 1 /\ k \in 1..c
    BY <1>1, <1>5
  <2>3. /\ Nth(U, k + 1) \in 1..Len(s) /\ Nth(U, k + 1) \in U
        /\ Nth(U, k) < Nth(U, k + 1)
    BY <1>1, <1>2, <2>2
  <2>4. s[Nth(U, k + 1)].kind = "user"
    BY <2>3 DEF Users
  <2>. HIDE DEF U, c
  <2>5. /\ EndOf(s, k) \in 1..Len(s) /\ EndOf(s, k) < Len(s)
        /\ Nth(U, k) <= EndOf(s, k) /\ EndOf(s, k) + 1 = Nth(U, k + 1)
    BY <1>1, <1>3, <2>1, <2>3
  <2>6. QED
    BY <1>1, <1>3, <2>1, <2>2, <2>4, <2>5 DEF U, c
<1>6. QED
  BY <1>4, <1>5

LEMMA FunctionIsSeq ==
  ASSUME NEW S, NEW c \in Nat, NEW f \in [1..c -> S]
  PROVE  f \in Seq(S) /\ Len(f) = c /\ DOMAIN f = 1..c
OBVIOUS

TurnStates == {"failed", "answered", "open", "cut"}

(* One turn: its message, and what came of it.                             *)
LEMMA TurnAt ==
  ASSUME NEW s \in Seq(Event), NEW inside \in BOOLEAN
  PROVE  /\ TurnsOf(s, inside) \in Seq([message : Nat, state : TurnStates])
         /\ Len(TurnsOf(s, inside)) = Cardinality(Users(s))
         /\ Cardinality(Users(s)) \in Nat
         /\ DOMAIN TurnsOf(s, inside) = 1..Cardinality(Users(s))
         /\ \A k \in 1..Cardinality(Users(s)) :
                TurnsOf(s, inside)[k] =
                    [message |-> s[Nth(Users(s), k)].ref,
                     state   |-> Outcome(s[EndOf(s, k)],
                                         inside /\ k = Cardinality(Users(s)))]
<1>. DEFINE c == Cardinality(Users(s))
            turn(k) == [message |-> s[Nth(Users(s), k)].ref,
                        state   |-> Outcome(s[EndOf(s, k)], inside /\ k = c)]
<1>1. c \in Nat
  BY UsersIn
<1>2. TurnsOf(s, inside) = [k \in 1..c |-> turn(k)]
  BY DEF TurnsOf
<1>3. ASSUME NEW k \in 1..c PROVE turn(k) \in [message : Nat, state : TurnStates]
  <2>1. s[Nth(Users(s), k)].ref \in Nat
    <3>1. Nth(Users(s), k) \in DOMAIN s
      BY EndIn
    <3>2. s[Nth(Users(s), k)] \in Event
      BY <3>1, ElementOf
    <3>3. QED
      BY <3>2 DEF Event
  <2>2. \A e : \A b \in BOOLEAN : Outcome(e, b) \in TurnStates
    BY DEF Outcome, TurnStates
  <2>3. (inside /\ k = c) \in BOOLEAN
    OBVIOUS
  <2>4. Outcome(s[EndOf(s, k)], inside /\ k = c) \in TurnStates
    BY <2>2, <2>3
  <2>5. QED
    BY <2>1, <2>4
<1>. HIDE DEF turn, c
<1>4. TurnsOf(s, inside) \in [1..c -> [message : Nat, state : TurnStates]]
  BY <1>2, <1>3
<1>5. /\ TurnsOf(s, inside) \in Seq([message : Nat, state : TurnStates])
      /\ Len(TurnsOf(s, inside)) = c
      /\ DOMAIN TurnsOf(s, inside) = 1..c
  BY <1>1, <1>4, FunctionIsSeq
<1>6. \A k \in 1..c : TurnsOf(s, inside)[k] = turn(k)
  BY <1>2
<1>7. QED
  BY <1>1, <1>5, <1>6 DEF c, turn

(* A beginning of a transcript has the same first turns.                   *)
LEMMA TurnsOfPrefix ==
  ASSUME NEW s \in Seq(Event), NEW t \in Seq(Event), Extends(t, s)
  PROVE  /\ Cardinality(Users(s)) <= Cardinality(Users(t))
         /\ \A k \in 1..Cardinality(Users(s)) :
                /\ k \in 1..Cardinality(Users(t))
                /\ Nth(Users(t), k) = Nth(Users(s), k)
                /\ t[Nth(Users(t), k)] = s[Nth(Users(s), k)]
                /\ k # Cardinality(Users(s)) =>
                       /\ k # Cardinality(Users(t))
                       /\ EndOf(t, k) = EndOf(s, k)
                       /\ t[EndOf(t, k)] = s[EndOf(s, k)]
                /\ k = Cardinality(Users(s)) => EndOf(s, k) = Len(s)
<1>. DEFINE n == Len(s)
            c == Cardinality(Users(s))
            d == Cardinality(Users(t))
<1>1. /\ n \in Nat /\ Len(t) \in Nat /\ n <= Len(t) /\ \A i \in 1..n : t[i] = s[i]
      /\ DOMAIN s = 1..n /\ DOMAIN t = 1..Len(t)
  BY DEF Extends
<1>2. /\ Users(s) \in SUBSET (1..n) /\ Users(t) \in SUBSET Nat /\ IsFiniteSet(Users(t))
      /\ c \in Nat /\ d \in Nat
  BY UsersIn
<1>3. Users(s) = {i \in Users(t) : i <= n}
  <2>1. \A i \in Users(s) : i \in Users(t) /\ i <= n
    BY <1>1 DEF Users
  <2>2. ASSUME NEW i \in Users(t), i <= n PROVE i \in Users(s)
    <3>1. i \in 1..n
      BY <1>1, <2>2 DEF Users
    <3>2. QED
      BY <1>1, <2>2, <3>1 DEF Users
  <2>3. QED
    BY <2>1, <2>2
<1>4. /\ c <= d
      /\ \A k \in 1..c : k \in 1..d /\ Nth(Users(s), k) = Nth(Users(t), k)
  BY <1>1, <1>2, <1>3, NthBelow
<1>. HIDE DEF n, c, d
<1>5. ASSUME NEW k \in 1..c
      PROVE  /\ t[Nth(Users(t), k)] = s[Nth(Users(s), k)]
             /\ k # c => k # d /\ EndOf(t, k) = EndOf(s, k) /\ t[EndOf(t, k)] = s[EndOf(s, k)]
             /\ k = c => EndOf(s, k) = n
  <2>1. Nth(Users(s), k) \in 1..n /\ EndOf(s, k) \in 1..n
    BY EndIn DEF n, c
  <2>2. t[Nth(Users(t), k)] = s[Nth(Users(s), k)]
    BY <1>1, <1>4, <2>1
  <2>3. CASE k = c
    BY <2>2, <2>3 DEF EndOf, n, c
  <2>4. CASE k # c
    <3>1. k # d /\ k + 1 \in 1..c
      BY <1>2, <1>4, <2>4
    <3>2. EndOf(s, k) = Nth(Users(s), k + 1) - 1 /\ EndOf(t, k) = Nth(Users(t), k + 1) - 1
      BY <2>4, <3>1 DEF EndOf, c, d
    <3>3. EndOf(t, k) = EndOf(s, k)
      BY <1>4, <3>1, <3>2
    <3>4. QED
      BY <1>1, <2>1, <2>2, <2>4, <3>1, <3>3
  <2>5. QED
    BY <2>3, <2>4
<1>6. QED
  BY <1>4, <1>5 DEF n, c, d

(* What appending an event does to the positions of the user messages.     *)
LEMMA UsersGrow ==
  ASSUME NEW s \in Seq(Event), NEW t \in Seq(Event), Len(t) = Len(s) + 1,
         \A i \in 1..Len(s) : t[i] = s[i]
  PROVE  /\ t[Len(t)].kind # "user" => Users(t) = Users(s)
         /\ t[Len(t)].kind = "user" => Users(t) = Users(s) \cup {Len(t)}
<1>1. /\ Len(s) \in Nat /\ DOMAIN s = 1..Len(s) /\ DOMAIN t = 1..(Len(s) + 1)
      /\ Len(t) = Len(s) + 1
  OBVIOUS
<1>2. \A i \in 1..Len(s) : i \in Users(t) <=> i \in Users(s)
  BY <1>1 DEF Users
<1>3. Len(t) \in Users(t) <=> t[Len(t)].kind = "user"
  BY <1>1 DEF Users
<1>4. \A i \in Users(t) : i \in 1..Len(s) \/ i = Len(t)
  BY <1>1 DEF Users
<1>5. \A i \in Users(s) : i \in 1..Len(s)
  BY <1>1 DEF Users
<1>6. QED
  BY <1>2, <1>3, <1>4, <1>5

(* An event that is no user message may change what came of the last turn, *)
(* and nothing else.                                                       *)
LEMMA TurnsOtherPush ==
  ASSUME NEW s \in Seq(Event), NEW t \in Seq(Event), Len(t) = Len(s) + 1,
         \A i \in 1..Len(s) : t[i] = s[i],
         t[Len(t)].kind # "user", s # <<>>, s[1].kind = "user",
         NEW a \in BOOLEAN, NEW b \in BOOLEAN
  PROVE  /\ Len(TurnsOf(s, a)) \in Nat \ {0}
         /\ TurnsOf(s, a) \in Seq([message : Nat, state : TurnStates])
         /\ TurnsOf(s, a)[Len(TurnsOf(s, a))].state = Outcome(s[Len(s)], a)
         /\ TurnsOf(t, b) = [TurnsOf(s, a) EXCEPT ![Len(TurnsOf(s, a))].state
                                 = Outcome(t[Len(t)], b)]
<1>. DEFINE U == Users(s)
            c == Cardinality(U)
            x == TurnsOf(s, a)
            y == TurnsOf(t, b)
            o == Outcome(t[Len(t)], b)
<1>1. /\ Len(s) \in Nat /\ Len(t) = Len(s) + 1 /\ DOMAIN s = 1..Len(s)
      /\ Len(s) > 0
  OBVIOUS
<1>2. Users(t) = U
  BY UsersGrow
<1>3. c \in Nat /\ c # 0
  <2>1. 1 \in U
    BY <1>1 DEF Users
  <2>2. IsFiniteSet(U)
    BY UsersIn
  <2>3. QED
    BY <2>1, <2>2, FS_EmptySet, UsersIn
<1>4. /\ x \in Seq([message : Nat, state : TurnStates]) /\ Len(x) = c /\ DOMAIN x = 1..c
      /\ \A k \in 1..c : x[k] = [message |-> s[Nth(U, k)].ref,
                                 state   |-> Outcome(s[EndOf(s, k)], a /\ k = c)]
  BY TurnAt
<1>5. /\ y \in Seq([message : Nat, state : TurnStates]) /\ Len(y) = c /\ DOMAIN y = 1..c
      /\ \A k \in 1..c : y[k] = [message |-> t[Nth(U, k)].ref,
                                 state   |-> Outcome(t[EndOf(t, k)], b /\ k = c)]
  <2>. DEFINE W == Users(t)
  <2>1. /\ y \in Seq([message : Nat, state : TurnStates]) /\ Len(y) = Cardinality(W)
        /\ DOMAIN y = 1..Cardinality(W)
        /\ \A k \in 1..Cardinality(W) :
               y[k] = [message |-> t[Nth(W, k)].ref,
                       state   |-> Outcome(t[EndOf(t, k)], b /\ k = Cardinality(W))]
    BY TurnAt
  <2>2. W = U
    BY <1>2
  <2>. HIDE DEF W, U, y
  <2>3. QED
    BY <2>1, <2>2
<1>6. EndOf(s, c) = Len(s) /\ EndOf(t, c) = Len(t)
  BY <1>2 DEF EndOf
<1>7. x[c].state = Outcome(s[Len(s)], a)
  <2>1. c \in 1..c /\ (a /\ c = c) = a
    BY <1>3
  <2>2. x[c].state = Outcome(s[EndOf(s, c)], a /\ c = c)
    BY <1>4, <2>1
  <2>3. QED
    BY <1>6, <2>1, <2>2
<1>8. ASSUME NEW k \in 1..c
      PROVE  y[k] = [x EXCEPT ![c].state = o][k]
  <2>1. t[Nth(U, k)] = s[Nth(U, k)]
    <3>1. Nth(U, k) \in 1..Len(s)
      BY EndIn
    <3>2. QED
      BY <3>1
  <2>2. CASE k = c
    <3>1. (b /\ k = c) = b
      BY <2>2
    <3>2. y[k] = [message |-> s[Nth(U, k)].ref, state |-> o]
      BY <1>5, <1>6, <2>1, <2>2, <3>1
    <3>3. x[k].message = s[Nth(U, k)].ref /\ x[k] \in [message : Nat, state : TurnStates]
      <4>1. x[k].message = s[Nth(U, k)].ref
        BY <1>4
      <4>2. QED
        BY <1>4, <4>1, ElementOf
    <3>4. [x EXCEPT ![c].state = o][k] = [x[k] EXCEPT !.state = o]
      BY <1>4, <2>2
    <3>. HIDE DEF x, y, o, c, U
    <3>5. [x[k] EXCEPT !.state = o] = [message |-> s[Nth(U, k)].ref, state |-> o]
      BY <3>3
    <3>6. QED
      BY <3>2, <3>4, <3>5
  <2>3. CASE k # c
    <3>1. EndOf(t, k) = EndOf(s, k) /\ EndOf(s, k) \in 1..Len(s)
      BY <1>2, <2>3, EndIn DEF EndOf
    <3>2. t[EndOf(t, k)] = s[EndOf(s, k)]
      BY <3>1
    <3>3. (a /\ k = c) = FALSE /\ (b /\ k = c) = FALSE
      BY <2>3
    <3>4. y[k] = x[k]
      BY <1>4, <1>5, <2>1, <3>2, <3>3
    <3>5. [x EXCEPT ![c].state = o][k] = x[k]
      BY <1>4, <2>3
    <3>6. QED
      BY <3>4, <3>5
  <2>4. QED
    BY <2>2, <2>3
<1>9. y = [x EXCEPT ![c].state = o]
  <2>. DEFINE z == [x EXCEPT ![c].state = o]
  <2>1. DOMAIN z = 1..c /\ z = [k \in 1..c |-> z[k]]
    BY <1>4
  <2>2. y = [k \in 1..c |-> y[k]]
    BY <1>5
  <2>3. \A k \in 1..c : y[k] = z[k]
    BY <1>8
  <2>. HIDE DEF z, y, x, c, o, U
  <2>4. QED
    BY <2>1, <2>2, <2>3 DEF z
<1>10. QED
  <2>. HIDE DEF c, x, y, o, U
  <2>1. x[Len(x)].state = Outcome(s[Len(s)], a) /\ y = [x EXCEPT ![Len(x)].state = o]
    BY <1>4, <1>7, <1>9
  <2>2. Len(x) \in Nat \ {0}
    BY <1>3, <1>4
  <2>3. QED
    BY <1>4, <2>1, <2>2 DEF x, y, o

(* A user message begins a turn and breaks off the one before, if that is  *)
(* still open.                                                             *)
LEMMA TurnsUserPush ==
  ASSUME NEW s \in Seq(Event), NEW t \in Seq(Event), Len(t) = Len(s) + 1,
         \A i \in 1..Len(s) : t[i] = s[i],
         t[Len(t)].kind = "user"
  PROVE  TurnsOf(t, TRUE) = Append(TurnsOf(s, FALSE),
                                   [message |-> t[Len(t)].ref, state |-> "open"])
<1>. DEFINE U == Users(s)
            V == Users(t)
            c == Cardinality(U)
            x == TurnsOf(s, FALSE)
            y == TurnsOf(t, TRUE)
            m == [message |-> t[Len(t)].ref, state |-> "open"]
<1>1. /\ Len(s) \in Nat /\ Len(t) = Len(s) + 1 /\ DOMAIN s = 1..Len(s)
      /\ Len(t) \in Nat /\ Len(s) < Len(t) /\ Len(t) \in DOMAIN t
  OBVIOUS
<1>2. V = U \cup {Len(t)}
  BY UsersGrow
<1>3. /\ c \in Nat /\ Cardinality(V) = c + 1
      /\ \A k \in 1..c : Nth(V, k) = Nth(U, k)
      /\ Nth(V, c + 1) = Len(t)
  <2>1. U \in SUBSET (1..Len(s))
    BY UsersIn
  <2>2. /\ Cardinality(U) \in Nat /\ Cardinality(V) = Cardinality(U) + 1
        /\ \A k \in 1..Cardinality(U) : Nth(V, k) = Nth(U, k)
        /\ Nth(V, Cardinality(U) + 1) = Len(t)
    <3>. HIDE DEF U, V
    <3>1. Len(s) \in Nat /\ Len(t) \in Nat /\ Len(s) < Len(t)
      BY <1>1
    <3>. DEFINE p == Len(s)
                q == Len(t)
    <3>2. /\ p \in Nat /\ q \in Nat /\ p < q
          /\ U \in SUBSET (1..p) /\ V = U \cup {q}
      BY <1>2, <2>1, <3>1
    <3>. HIDE DEF p, q
    <3>3. Nth(V, Cardinality(U) + 1) = q
      BY <3>2, NthAdded
    <3>4. Cardinality(U) \in Nat /\ Cardinality(V) = Cardinality(U) + 1
      BY <3>2, NthAdded
    <3>5. \A k \in 1..Cardinality(U) : Nth(V, k) = Nth(U, k)
      BY <3>2, NthKept
    <3>6. QED
      BY <3>3, <3>4, <3>5 DEF q
  <2>3. QED
    BY <2>2
<1>4. /\ x \in Seq([message : Nat, state : TurnStates]) /\ Len(x) = c /\ DOMAIN x = 1..c
      /\ \A k \in 1..c : x[k] = [message |-> s[Nth(U, k)].ref,
                                 state   |-> Outcome(s[EndOf(s, k)], FALSE)]
  <2>1. \A k \in 1..c : (FALSE /\ k = c) = FALSE
    OBVIOUS
  <2>2. QED
    BY <2>1, TurnAt
<1>5. /\ y \in Seq([message : Nat, state : TurnStates]) /\ Len(y) = c + 1
      /\ DOMAIN y = 1..(c + 1)
      /\ \A k \in 1..(c + 1) :
             y[k] = [message |-> t[Nth(V, k)].ref,
                     state   |-> Outcome(t[EndOf(t, k)], TRUE /\ k = c + 1)]
  <2>1. /\ y \in Seq([message : Nat, state : TurnStates]) /\ Len(y) = Cardinality(V)
        /\ DOMAIN y = 1..Cardinality(V)
        /\ \A k \in 1..Cardinality(V) :
               y[k] = [message |-> t[Nth(V, k)].ref,
                       state   |-> Outcome(t[EndOf(t, k)], TRUE /\ k = Cardinality(V))]
    BY TurnAt
  <2>2. Cardinality(V) = c + 1
    BY <1>3
  <2>. HIDE DEF V, U, y, c
  <2>3. QED
    BY <2>1, <2>2
<1>6. y[c + 1] = m
  <2>1. EndOf(t, c + 1) = Len(t)
    BY <1>3 DEF EndOf
  <2>2. Outcome(t[Len(t)], TRUE) = "open"
    BY DEF Outcome
  <2>3. (TRUE /\ c + 1 = c + 1) = TRUE /\ c + 1 \in 1..(c + 1)
    BY <1>3
  <2>4. y[c + 1] = [message |-> t[Nth(V, c + 1)].ref,
                    state   |-> Outcome(t[EndOf(t, c + 1)], TRUE /\ c + 1 = c + 1)]
    BY <1>5, <2>3
  <2>5. QED
    BY <1>3, <2>1, <2>2, <2>3, <2>4
<1>7. ASSUME NEW k \in 1..c PROVE y[k] = x[k]
  <2>1. Nth(U, k) \in 1..Len(s) /\ EndOf(s, k) \in 1..Len(s)
    BY EndIn
  <2>2. EndOf(t, k) = EndOf(s, k)
    <3>1. CASE k = c
      <4>1. EndOf(s, k) = Len(s)
        BY <3>1 DEF EndOf
      <4>2. EndOf(t, k) = Len(t) - 1
        BY <1>3, <3>1 DEF EndOf
      <4>3. QED
        BY <1>1, <4>1, <4>2
    <3>2. CASE k # c
      <4>1. k + 1 \in 1..c /\ k # c + 1
        BY <1>3, <3>2
      <4>2. EndOf(s, k) = Nth(U, k + 1) - 1 /\ EndOf(t, k) = Nth(V, k + 1) - 1
        BY <1>3, <3>2, <4>1 DEF EndOf
      <4>3. QED
        BY <1>3, <4>1, <4>2
    <3>3. QED
      BY <3>1, <3>2
  <2>3. t[Nth(V, k)] = s[Nth(U, k)] /\ t[EndOf(t, k)] = s[EndOf(s, k)]
    BY <1>3, <2>1, <2>2
  <2>4. k \in 1..(c + 1) /\ (TRUE /\ k = c + 1) = FALSE
    BY <1>3
  <2>5. QED
    BY <1>4, <1>5, <2>3, <2>4
<1>8. m \in [message : Nat, state : TurnStates]
  <2>1. t[Len(t)] \in Event
    BY <1>1, ElementOf
  <2>2. QED
    BY <2>1 DEF Event, TurnStates
<1>9. QED
  <2>. HIDE DEF x, y, m, c, U, V
  <2>1. /\ Append(x, m) \in Seq([message : Nat, state : TurnStates])
        /\ DOMAIN Append(x, m) = 1..(c + 1)
        /\ \A k \in 1..c : Append(x, m)[k] = x[k]
        /\ Append(x, m)[c + 1] = m
    BY <1>4, <1>8
  <2>2. ASSUME NEW k \in 1..(c + 1) PROVE y[k] = Append(x, m)[k]
    <3>1. k \in 1..c \/ k = c + 1
      BY <1>3
    <3>2. QED
      BY <1>6, <1>7, <2>1, <3>1
  <2>3. y = Append(x, m)
    <3>. DEFINE z == Append(x, m)
    <3>1. DOMAIN y = DOMAIN z /\ DOMAIN y = 1..(c + 1) /\ \A k \in DOMAIN y : y[k] = z[k]
      BY <1>5, <2>1, <2>2
    <3>2. y \in Seq([message : Nat, state : TurnStates]) /\ z \in Seq([message : Nat, state : TurnStates])
      BY <1>5, <2>1
    <3>. HIDE DEF z
    <3>3. y = [k \in DOMAIN y |-> y[k]] /\ z = [k \in DOMAIN z |-> z[k]]
      BY <3>2
    <3>4. y = z
      BY <3>1, <3>3
    <3>5. QED
      BY <3>4 DEF z
  <2>4. y = Append(x, m)
    BY <2>3
  <2>5. QED
    BY <2>4 DEF x, y, m

LEMMA FirstOnes ==
  ASSUME NEW S, NEW w \in Seq(S), NEW m \in 0..Len(w)
  PROVE  /\ SubSeq(w, 1, m) \in Seq(S)
         /\ DOMAIN SubSeq(w, 1, m) = 1..m
         /\ \A k \in 1..m : SubSeq(w, 1, m)[k] = w[k]
<1>1. m \in Nat /\ Len(w) \in Nat /\ m <= Len(w) /\ \A k \in 1..m : k \in 1..Len(w)
  OBVIOUS
<1>2. \A k \in 1..m : w[k] \in S
  BY <1>1
<1>3. SubSeq(w, 1, m) \in Seq(S) /\ Len(SubSeq(w, 1, m)) = m
  BY <1>1, <1>2, SubSeqProperties
<1>4. \A k \in 1..m : SubSeq(w, 1, m)[k] = w[k]
  BY <1>1, SubSeqProperties
<1>5. QED
  BY <1>3, <1>4

(* The fields of a turn.                                                   *)
LEMMA TurnFields ==
  ASSUME NEW x, NEW p, NEW o, x = [message |-> p, state |-> o]
  PROVE  /\ x.message = p /\ x.state = o
         /\ \A q : [x EXCEPT !.state = q] = [message |-> p, state |-> q]
OBVIOUS

LEMMA SameElements ==
  ASSUME NEW S, NEW x \in Seq(S), NEW y \in Seq(S), DOMAIN x = DOMAIN y,
         \A k \in DOMAIN x : x[k] = y[k]
  PROVE  x = y
<1>1. x = [k \in DOMAIN x |-> x[k]] /\ y = [k \in DOMAIN y |-> y[k]]
  OBVIOUS
<1>2. QED
  BY <1>1

(* Nothing is open in a transcript the runner is not inside of, nor in one *)
(* that ends with a result.                                                *)
LEMMA NothingOpen ==
  ASSUME NEW s \in Seq(Event)
  PROVE  /\ TurnsOf(s, FALSE) # <<>> =>
                TurnsOf(s, FALSE)[Len(TurnsOf(s, FALSE))].state # "open"
         /\ (s = <<>> \/ Outcome(s[Len(s)], TRUE) # "open") =>
                TurnsOf(s, TRUE) = TurnsOf(s, FALSE)
<1>. DEFINE c == Cardinality(Users(s))
            x == TurnsOf(s, FALSE)
            y == TurnsOf(s, TRUE)
<1>1. /\ c \in Nat /\ x \in Seq([message : Nat, state : TurnStates]) /\ Len(x) = c
      /\ DOMAIN x = 1..c
      /\ \A k \in 1..c : x[k] = [message |-> s[Nth(Users(s), k)].ref,
                                 state   |-> Outcome(s[EndOf(s, k)], FALSE)]
  <2>1. \A k \in 1..c : (FALSE /\ k = c) = FALSE
    OBVIOUS
  <2>2. QED
    BY <2>1, TurnAt
<1>2. /\ y \in Seq([message : Nat, state : TurnStates]) /\ DOMAIN y = 1..c
      /\ \A k \in 1..c : y[k] = [message |-> s[Nth(Users(s), k)].ref,
                                 state   |-> Outcome(s[EndOf(s, k)], TRUE /\ k = c)]
  BY TurnAt
<1>3. x # <<>> => x[Len(x)].state # "open"
  <2>1. SUFFICES ASSUME x # <<>> PROVE x[Len(x)].state # "open"
    OBVIOUS
  <2>2. c \in 1..c
    <3>. HIDE DEF x, c
    <3>1. QED
      BY <1>1, <2>1
  <2>3. x[c].state = Outcome(s[EndOf(s, c)], FALSE)
    <3>1. x[c] = [message |-> s[Nth(Users(s), c)].ref,
                  state   |-> Outcome(s[EndOf(s, c)], FALSE)]
      BY <1>1, <2>2
    <3>. HIDE DEF x, c
    <3>2. QED
      BY <3>1
  <2>4. Outcome(s[EndOf(s, c)], FALSE) # "open"
    BY DEF Outcome
  <2>5. QED
    BY <1>1, <2>3, <2>4
<1>4. ASSUME s = <<>> \/ Outcome(s[Len(s)], TRUE) # "open" PROVE y = x
  <2>1. ASSUME NEW k \in 1..c PROVE y[k] = x[k]
    <3>1. CASE k # c
      <4>1. (TRUE /\ k = c) = FALSE
        BY <3>1
      <4>2. QED
        BY <1>1, <1>2, <4>1
    <3>2. CASE k = c
      <4>1. EndOf(s, k) = Len(s) /\ (TRUE /\ k = c) = TRUE
        BY <3>2 DEF EndOf
      <4>2. s # <<>>
        <5>1. EndOf(s, k) \in DOMAIN s
          BY EndIn
        <5>2. QED
          BY <5>1
      <4>3. Outcome(s[Len(s)], TRUE) = Outcome(s[Len(s)], FALSE)
        BY <1>4, <4>2 DEF Outcome
      <4>4. QED
        BY <1>1, <1>2, <4>1, <4>3
    <3>3. QED
      BY <3>1, <3>2
  <2>. HIDE DEF x, y, c
  <2>2. QED
    BY <1>1, <1>2, <2>1, SameElements
<1>5. QED
  BY <1>3, <1>4

(* What Conversation calls the whole of the turns is the same transcript   *)
(* seen from outside.                                                      *)
LEMMA WholeTurns ==
  ASSUME NEW s \in Seq(Event), NEW a \in BOOLEAN
  PROVE  TurnsOf(s, FALSE) = [k \in DOMAIN TurnsOf(s, a) |->
                                  Promised!BrokenOff(TurnsOf(s, a)[k])]
<1>. DEFINE c == Cardinality(Users(s))
            x == TurnsOf(s, FALSE)
            y == TurnsOf(s, a)
<1>1. /\ c \in Nat /\ x \in Seq([message : Nat, state : TurnStates])
      /\ DOMAIN x = 1..c
      /\ \A k \in 1..c : x[k] = [message |-> s[Nth(Users(s), k)].ref,
                                 state   |-> Outcome(s[EndOf(s, k)], FALSE)]
  <2>1. \A k \in 1..c : (FALSE /\ k = c) = FALSE
    OBVIOUS
  <2>2. QED
    BY <2>1, TurnAt
<1>2. /\ y \in Seq([message : Nat, state : TurnStates]) /\ DOMAIN y = 1..c
      /\ \A k \in 1..c : y[k] = [message |-> s[Nth(Users(s), k)].ref,
                                 state   |-> Outcome(s[EndOf(s, k)], a /\ k = c)]
  BY TurnAt
<1>3. ASSUME NEW m, NEW e, NEW b \in BOOLEAN
      PROVE  Promised!BrokenOff([message |-> m, state |-> Outcome(e, b)])
                 = [message |-> m, state |-> Outcome(e, FALSE)]
  <2>. DEFINE r == [message |-> m, state |-> Outcome(e, b)]
  <2>1. CASE Outcome(e, b) = "open"
    <3>1. Outcome(e, FALSE) = "cut"
      BY <2>1 DEF Outcome
    <3>2. Promised!BrokenOff(r) = [r EXCEPT !.state = "cut"]
      BY <2>1 DEF Promised!BrokenOff
    <3>3. QED
      BY <3>1, <3>2
  <2>2. CASE Outcome(e, b) # "open"
    <3>1. Outcome(e, FALSE) = Outcome(e, b)
      BY <2>2 DEF Outcome
    <3>2. Promised!BrokenOff(r) = r
      BY <2>2 DEF Promised!BrokenOff
    <3>3. QED
      BY <3>1, <3>2
  <2>3. QED
    BY <2>1, <2>2
<1>4. ASSUME NEW k \in 1..c PROVE x[k] = Promised!BrokenOff(y[k])
  <2>. DEFINE m == s[Nth(Users(s), k)].ref
              e == s[EndOf(s, k)]
              b == a /\ k = c
  <2>1. b \in BOOLEAN
    OBVIOUS
  <2>2. /\ x[k] = [message |-> m, state |-> Outcome(e, FALSE)]
        /\ y[k] = [message |-> m, state |-> Outcome(e, b)]
    BY <1>1, <1>2
  <2>. HIDE DEF m, e, b, x, y, c
  <2>3. QED
    BY <1>3, <2>1, <2>2
<1>. HIDE DEF x, y, c
<1>5. x = [k \in 1..c |-> x[k]]
  BY <1>1
<1>6. x = [k \in DOMAIN y |-> Promised!BrokenOff(y[k])]
  BY <1>2, <1>4, <1>5
<1>7. QED
  BY <1>6 DEF x, y

(* The user messages of t beyond its beginning s come after it, and there  *)
(* are none between the last one of s and the end of that turn.            *)
LEMMA BeyondPrefix ==
  ASSUME NEW s \in Seq(Event), NEW t \in Seq(Event), Extends(t, s),
         NEW k \in 1..Cardinality(Users(t)), k > Cardinality(Users(s))
  PROVE  Nth(Users(t), k) > Len(s)
<1>. DEFINE n == Len(s)
            P == Users(s)
            Q == Users(t)
<1>1. /\ n \in Nat /\ P \in SUBSET (1..n) /\ P \in SUBSET Nat /\ IsFiniteSet(P)
      /\ Q \in SUBSET Nat /\ IsFiniteSet(Q) /\ Nth(Q, k) \in Q /\ Nth(Q, k) \in Nat
      /\ Cardinality(P) \in Nat /\ Cardinality(Q) \in Nat
  BY UsersIn
<1>2. SUFFICES ASSUME Nth(Q, k) <= n PROVE FALSE
  BY <1>1
<1>3. Nth(Q, k) \in P
  <2>1. Nth(Q, k) \in 1..n /\ t[Nth(Q, k)].kind = "user"
    BY <1>1, <1>2 DEF Users
  <2>2. s[Nth(Q, k)] = t[Nth(Q, k)]
    BY <2>1 DEF Extends
  <2>3. QED
    BY <2>1, <2>2 DEF Users
<1>4. PICK l \in 1..Cardinality(P) : Nth(P, l) = Nth(Q, k)
  BY <1>1, <1>3, RankIn, NthIs
<1>5. l \in 1..Cardinality(Q) /\ Nth(Q, l) = Nth(P, l)
  BY TurnsOfPrefix
<1>6. l < k
  BY <1>1, <1>4
<1>7. Nth(Q, l) < Nth(Q, k)
  BY <1>1, <1>5, <1>6, NthOrder
<1>8. QED
  BY <1>1, <1>4, <1>5, <1>7

LEMMA NoUserInside ==
  ASSUME NEW s \in Seq(Event), NEW t \in Seq(Event), Extends(t, s),
         NEW i \in Users(t), i > Len(s),
         Cardinality(Users(s)) \in 1..Cardinality(Users(t)),
         i <= EndOf(t, Cardinality(Users(s)))
  PROVE  FALSE
<1>. DEFINE m == Cardinality(Users(s))
            Q == Users(t)
            k == Rank(Q, i)
<1>1. /\ Q \in SUBSET Nat /\ IsFiniteSet(Q) /\ i \in Nat
      /\ Cardinality(Q) \in Nat /\ m \in Nat /\ Len(s) \in Nat
  BY UsersIn
<1>2. k \in 1..Cardinality(Q) /\ Nth(Q, k) = i
  BY <1>1, RankIn, NthIs
<1>3. k > m
  <2>1. SUFFICES ASSUME k <= m PROVE FALSE
    BY <1>1, <1>2
  <2>2. k \in 1..m
    BY <1>1, <1>2, <2>1
  <2>3. Nth(Q, k) = Nth(Users(s), k) /\ Nth(Users(s), k) \in 1..Len(s)
    BY <2>2, TurnsOfPrefix, UsersIn
  <2>4. i <= Len(s)
    <3>. HIDE DEF k, Q
    <3>1. QED
      BY <1>1, <1>2, <2>3
  <2>5. QED
    BY <1>1, <2>4
<1>4. m # Cardinality(Q) /\ m + 1 \in 1..Cardinality(Q)
  BY <1>1, <1>2, <1>3
<1>5. EndOf(t, m) = Nth(Q, m + 1) - 1
  BY <1>4 DEF EndOf
<1>6. Nth(Q, m + 1) <= Nth(Q, k) /\ Nth(Q, m + 1) \in Nat
  <2>1. Nth(Q, m + 1) \in Q
    BY <1>1, <1>4, NthIs
  <2>2. CASE m + 1 = k
    BY <1>1, <2>1, <2>2
  <2>3. CASE m + 1 # k
    <3>1. m + 1 < k
      BY <1>1, <1>2, <1>3, <2>3
    <3>2. QED
      BY <1>1, <1>2, <1>4, <2>1, <3>1, NthOrder
  <2>4. QED
    BY <2>2, <2>3
<1>7. QED
  BY <1>1, <1>2, <1>5, <1>6

(* What storage holds when the process dies is what Conversation lets      *)
(* survive: the turns up to where storage got, the last one cut off unless *)
(* storage has its result.                                                 *)
LEMMA StorageSurvives ==
  ASSUME NEW t \in Seq(Event), NEW s \in Seq(Event), NEW a \in BOOLEAN,
         Extends(t, s), Grammatical(t), Grammatical(s), TurnsOf(t, a) = Turns,
         s # t => Unsaved
  PROVE  TurnsOf(s, FALSE) \in Promised!Survivors(Turns)
<1>. DEFINE y == TurnsOf(t, a)
            x == TurnsOf(s, FALSE)
            c == Cardinality(Users(t))
            m == Cardinality(Users(s))
            whole == [k \in DOMAIN y |-> Promised!BrokenOff(y[k])]
            short(l) == [k \in 1..l |-> IF k = l THEN [y[k] EXCEPT !.state = "cut"]
                                                 ELSE Promised!BrokenOff(y[k])]
<1>1. TurnsOf(t, FALSE) = whole
  BY WholeTurns
<1>2. Promised!Survivors(y) = {whole} \cup
          (IF Unsaved THEN {short(l) : l \in DOMAIN y} \cup
                           {SubSeq(whole, 1, l) : l \in 0..Len(y)}
           ELSE {})
  BY DEF Promised!Survivors
<1>3. CASE s = t
  BY <1>1, <1>2, <1>3
<1>4. ASSUME s # t PROVE x \in Promised!Survivors(y)
  <2>1. Unsaved
    BY <1>4
  <2>2. /\ m \in Nat /\ x \in Seq([message : Nat, state : TurnStates])
        /\ DOMAIN x = 1..m /\ Len(x) = m
        /\ \A k \in 1..m : x[k] = [message |-> s[Nth(Users(s), k)].ref,
                                   state   |-> Outcome(s[EndOf(s, k)], FALSE)]
    <3>1. \A k \in 1..m : (FALSE /\ k = m) = FALSE
      OBVIOUS
    <3>2. QED
      BY <3>1, TurnAt
  <2>3. /\ c \in Nat /\ y \in Seq([message : Nat, state : TurnStates])
        /\ DOMAIN y = 1..c /\ Len(y) = c
        /\ \A k \in 1..c : y[k] = [message |-> t[Nth(Users(t), k)].ref,
                                   state   |-> Outcome(t[EndOf(t, k)], a /\ k = c)]
    BY TurnAt
  <2>4. /\ whole \in Seq([message : Nat, state : TurnStates])
        /\ DOMAIN whole = 1..c /\ Len(whole) = c
        /\ \A k \in 1..c : whole[k] = [message |-> t[Nth(Users(t), k)].ref,
                                       state   |-> Outcome(t[EndOf(t, k)], FALSE)]
    <3>1. /\ TurnsOf(t, FALSE) \in Seq([message : Nat, state : TurnStates])
          /\ DOMAIN TurnsOf(t, FALSE) = 1..c /\ Len(TurnsOf(t, FALSE)) = c
          /\ \A k \in 1..c :
                 TurnsOf(t, FALSE)[k] = [message |-> t[Nth(Users(t), k)].ref,
                                         state   |-> Outcome(t[EndOf(t, k)], FALSE)]
      <4>1. \A k \in 1..c : (FALSE /\ k = c) = FALSE
        OBVIOUS
      <4>2. QED
        BY <4>1, TurnAt
    <3>. HIDE DEF whole
    <3>2. QED
      BY <1>1, <3>1
  <2>5. \A k \in 1..c : whole[k] = Promised!BrokenOff(y[k])
    BY <2>3
  <2>6. /\ m <= c
        /\ \A k \in 1..m :
              /\ k \in 1..c
              /\ t[Nth(Users(t), k)] = s[Nth(Users(s), k)]
              /\ k # m => t[EndOf(t, k)] = s[EndOf(s, k)]
              /\ k = m => EndOf(s, k) = Len(s)
    BY TurnsOfPrefix
  <2>. HIDE DEF x, y, c, m, whole
  <2>7. \A k \in 1..m : k # m => x[k] = whole[k]
    BY <2>2, <2>4, <2>6
  <2>8. ASSUME m # 0 => x[m] = whole[m] PROVE x \in Promised!Survivors(y)
    <3>1. \A k \in 1..m : x[k] = whole[k]
      BY <2>2, <2>7, <2>8
    <3>2. m \in 0..Len(y)
      BY <2>2, <2>3, <2>6
    <3>3. /\ SubSeq(whole, 1, m) \in Seq([message : Nat, state : TurnStates])
          /\ DOMAIN SubSeq(whole, 1, m) = 1..m
          /\ \A k \in 1..m : SubSeq(whole, 1, m)[k] = whole[k]
      <4>1. m \in 0..Len(whole)
        BY <2>3, <2>4, <3>2
      <4>2. QED
        BY <2>4, <4>1, FirstOnes
    <3>4. x = SubSeq(whole, 1, m)
      BY <2>2, <3>1, <3>3, SameElements
    <3>5. QED
      BY <1>2, <2>1, <3>2, <3>4 DEF whole, y
  <2>9. ASSUME m # 0, x[m].state = "cut" PROVE x \in Promised!Survivors(y)
    <3>1. m \in 1..c /\ m \in 1..m
      BY <2>2, <2>3, <2>6, <2>9
    <3>2. x[m] = [y[m] EXCEPT !.state = "cut"]
      <4>1. x[m] = [message |-> s[Nth(Users(s), m)].ref,
                    state   |-> Outcome(s[EndOf(s, m)], FALSE)]
        BY <2>2, <3>1
      <4>2. y[m] = [message |-> t[Nth(Users(t), m)].ref,
                    state   |-> Outcome(t[EndOf(t, m)], a /\ m = c)]
        BY <2>3, <3>1
      <4>3. t[Nth(Users(t), m)].ref = s[Nth(Users(s), m)].ref
        BY <2>6, <3>1
      <4>4. x[m].state = Outcome(s[EndOf(s, m)], FALSE)
        BY <4>1, TurnFields
      <4>5. x[m] = [message |-> s[Nth(Users(s), m)].ref, state |-> "cut"]
        BY <2>9, <4>1, <4>4
      <4>6. [y[m] EXCEPT !.state = "cut"]
                = [message |-> t[Nth(Users(t), m)].ref, state |-> "cut"]
        BY <4>2, TurnFields
      <4>7. QED
        BY <4>3, <4>5, <4>6
    <3>3. \A k \in 1..m : x[k] = short(m)[k]
      BY <2>5, <2>6, <2>7, <3>2
    <3>4. x = short(m)
      <4>1. DOMAIN short(m) = 1..m
        OBVIOUS
      <4>2. x = [k \in 1..m |-> x[k]]
        BY <2>2
      <4>3. QED
        BY <3>3, <4>2
    <3>5. m \in DOMAIN y
      BY <2>3, <3>1
    <3>. HIDE DEF short
    <3>6. x \in {short(l) : l \in DOMAIN y}
      BY <3>4, <3>5
    <3>7. QED
      BY <1>2, <2>1, <3>6 DEF whole, y, short
  <2>10. ASSUME m # 0, x[m].state # "cut" PROVE x[m] = whole[m]
    <3>1. m \in 1..m /\ m \in 1..c
      BY <2>2, <2>6, <2>10
    <3>2. EndOf(s, m) = Len(s)
      BY <2>6, <3>1
    <3>. DEFINE d == s[Len(s)]
    <3>3. x[m] = [message |-> s[Nth(Users(s), m)].ref, state |-> Outcome(d, FALSE)]
      BY <2>2, <3>1, <3>2
    <3>4. d.kind = "error" \/ (d.kind = "agent" /\ d.ref = 0)
      <4>1. Outcome(d, FALSE) # "cut"
        <5>1. x[m].state = Outcome(d, FALSE)
          BY <3>3, TurnFields
        <5>2. QED
          BY <2>10, <5>1
      <4>. HIDE DEF d
      <4>2. QED
        BY <4>1 DEF Outcome
    <3>5. Len(s) \in 1..Len(t) /\ t[Len(s)] = d /\ Len(t) \in Nat /\ Len(s) \in Nat
      <4>1. EndOf(s, m) \in 1..Len(s)
        BY <3>1, EndIn DEF m
      <4>2. QED
        BY <3>2, <4>1 DEF Extends
    <3>6. EndOf(t, m) \in 1..Len(t) /\ Len(s) <= EndOf(t, m)
      <4>1. EndOf(t, m) \in 1..Len(t) /\ Nth(Users(t), m) <= EndOf(t, m)
        BY <3>1, EndIn DEF c
      <4>2. CASE m = c
        BY <3>5, <4>1, <4>2 DEF EndOf, c
      <4>3. CASE m # c
        <5>1. m + 1 \in 1..c /\ EndOf(t, m) = Nth(Users(t), m + 1) - 1
          BY <3>1, <4>3, EndIn DEF c
        <5>2. Nth(Users(t), m + 1) \in Nat
          BY <5>1, UsersIn DEF c
        <5>3. ~(Nth(Users(t), m + 1) <= Len(s))
          <6>1. m + 1 > m
            BY <2>2
          <6>2. Nth(Users(t), m + 1) > Len(s)
            BY <5>1, <6>1, BeyondPrefix DEF m, c
          <6>3. QED
            BY <3>5, <5>2, <6>2
        <5>4. QED
          BY <3>5, <4>1, <5>1, <5>2, <5>3
      <4>4. QED
        BY <4>2, <4>3
    <3>7. EndOf(t, m) = Len(s)
      <4>1. SUFFICES ASSUME Len(s) < EndOf(t, m) PROVE FALSE
        BY <3>5, <3>6
      <4>2. Len(s) + 1 \in 1..Len(t) /\ Len(s) \in 1..(Len(t) - 1)
        BY <3>5, <3>6, <4>1
      <4>3. t[Len(s) + 1].kind = "user"
        <5>1. \/ MayFollow(t[Len(s)], t[Len(s) + 1])
              \/ t[Len(s) + 1].kind = "user"
          BY <4>2 DEF Grammatical
        <5>. HIDE DEF d
        <5>2. QED
          BY <3>4, <3>5, <5>1 DEF MayFollow, TurnSteps
      <4>4. Len(s) + 1 \in Users(t) /\ Len(s) + 1 <= EndOf(t, m) /\ Len(s) + 1 > Len(s)
        BY <3>5, <3>6, <4>1, <4>2, <4>3 DEF Users
      <4>5. FALSE
        BY <3>1, <3>5, <4>4, NoUserInside DEF m, c
      <4>6. QED
        BY <4>5
    <3>8. whole[m] = [message |-> t[Nth(Users(t), m)].ref, state |-> Outcome(d, FALSE)]
      BY <2>4, <3>1, <3>5, <3>7
    <3>9. QED
      BY <2>6, <3>1, <3>3, <3>8
  <2>11. QED
    BY <2>8, <2>9, <2>10
<1>5. QED
  BY <1>3, <1>4

(* Where a turn is on.                                                     *)
MidTurn == {"accepted", "completing", "replied", "dispatching",
            "started", "executing", "finished"}

LEMMA NothingWaits ==
  ASSUME NEW box, box = <<>> PROVE Picked(box, MessagesIn(box)) = <<>>
<1>1. MessagesIn(box) = {}
  BY DEF MessagesIn
<1>2. Cardinality({}) = 0 /\ IsFiniteSet({})
  BY FS_EmptySet
<1>3. Picked(box, {}) \in Seq(Nat) /\ Len(Picked(box, {})) = 0
  BY <1>2, PickedType
<1>4. ASSUME NEW x \in Seq(Nat), Len(x) = 0 PROVE x = <<>>
  BY <1>4
<1>5. QED
  BY <1>1, <1>3, <1>4

(* The mapping, by where the runner is.                                    *)
LEMMA MappedUp ==
  /\ pc \in MidTurn =>
        /\ Up = "up" /\ Inside = TRUE /\ Waiting = Picked(mailbox, MessagesIn(mailbox))
        /\ Turns = TurnsOf(chat.events, TRUE)
        /\ Unsaved = (disk # chat \/ ~stored)
  /\ pc = "recv" =>
        /\ Up = "up" /\ Inside = FALSE /\ Waiting = Picked(mailbox, MessagesIn(mailbox))
        /\ Turns = TurnsOf(chat.events, FALSE)
        /\ Unsaved = (disk # chat \/ ~stored)
  /\ pc \in {"closing", "exited"} =>
        /\ Up = "closed" /\ Inside = FALSE /\ Turns = TurnsOf(chat.events, FALSE)
        /\ Unsaved = (disk # chat \/ ~stored)
  /\ pc = "down" =>
        /\ Up = "down" /\ Turns = TurnsOf(disk.events, FALSE) /\ Unsaved = FALSE
        /\ Waiting = Picked(mailbox, MessagesIn(mailbox))
  /\ pc = "unborn" =>
        /\ Up = "none" /\ Inside = FALSE /\ Turns = TurnsOf(chat.events, FALSE)
        /\ Unsaved = FALSE /\ Waiting = Picked(mailbox, MessagesIn(mailbox))
  /\ pc = "closing" => Waiting = <<>>
  /\ pc = "exited" => Waiting = Picked(mailbox, MessagesIn(mailbox))
<1>1. CASE pc \in MidTurn
  BY <1>1 DEF MidTurn, Up, Inside, Waiting, Turns, Unsaved
<1>2. CASE pc = "recv"
  BY <1>2 DEF MidTurn, Up, Inside, Waiting, Turns, Unsaved
<1>3. CASE pc \in {"closing", "exited"}
  BY <1>3 DEF MidTurn, Up, Inside, Waiting, Turns, Unsaved
<1>4. CASE pc = "down"
  BY <1>4 DEF MidTurn, Up, Inside, Waiting, Turns, Unsaved
<1>5. CASE pc = "unborn"
  BY <1>5 DEF MidTurn, Up, Inside, Waiting, Turns, Unsaved
<1>6. CASE pc \notin MidTurn \cup {"recv", "closing", "exited", "down", "unborn"}
  BY <1>6 DEF MidTurn
<1>7. QED
  BY <1>1, <1>2, <1>3, <1>4, <1>5, <1>6

LEMMA MappedUpPrimed ==
  /\ pc' \in MidTurn =>
        /\ Up' = "up" /\ Waiting' = Picked(mailbox', MessagesIn(mailbox'))
        /\ Turns' = TurnsOf(chat'.events, TRUE)
        /\ Unsaved' = (disk' # chat' \/ ~stored')
  /\ pc' = "recv" =>
        /\ Up' = "up" /\ Waiting' = Picked(mailbox', MessagesIn(mailbox'))
        /\ Turns' = TurnsOf(chat'.events, FALSE)
        /\ Unsaved' = (disk' # chat' \/ ~stored')
  /\ pc' \in {"closing", "exited"} =>
        /\ Up' = "closed" /\ Turns' = TurnsOf(chat'.events, FALSE)
        /\ Unsaved' = (disk' # chat' \/ ~stored')
  /\ pc' = "down" =>
        /\ Up' = "down" /\ Turns' = TurnsOf(disk'.events, FALSE) /\ Unsaved' = FALSE
        /\ Waiting' = Picked(mailbox', MessagesIn(mailbox'))
  /\ pc' = "closing" => Waiting' = <<>>
  /\ pc' = "exited" => Waiting' = Picked(mailbox', MessagesIn(mailbox'))
<1>1. CASE pc' \in MidTurn
  BY <1>1 DEF MidTurn, Up, Inside, Waiting, Turns, Unsaved, TurnsOf, Users, EndOf, MessagesIn
<1>2. CASE pc' = "recv"
  BY <1>2 DEF MidTurn, Up, Inside, Waiting, Turns, Unsaved
<1>3. CASE pc' \in {"closing", "exited"}
  BY <1>3 DEF MidTurn, Up, Inside, Waiting, Turns, Unsaved
<1>4. CASE pc' = "down"
  BY <1>4 DEF MidTurn, Up, Inside, Waiting, Turns, Unsaved
<1>5. QED
  BY <1>1, <1>2, <1>3, <1>4 DEF MidTurn

LEMMA UnsavedType == Unsaved \in BOOLEAN /\ Unsaved' \in BOOLEAN
BY DEF Unsaved

(* Steps that Conversation does not see.                                   *)
LEMMA Unseen ==
  ASSUME UNCHANGED <<mailbox, chat, disk, stored>>,
         \/ pc \in MidTurn /\ pc' \in MidTurn
         \/ pc' = pc /\ pc \in {"recv", "closing", "exited", "down"}
  PROVE  UNCHANGED Promised!vars
<1>1. CASE pc \in MidTurn /\ pc' \in MidTurn
  BY <1>1, MappedUp, MappedUpPrimed DEF Promised!vars
<1>2. CASE pc' = pc /\ pc \in {"recv", "closing", "exited", "down"}
  BY <1>2, MappedUp, MappedUpPrimed DEF Promised!vars
<1>3. QED
  BY <1>1, <1>2

LEMMA MidTurnSteps ==
  IInv /\ (PublishUser \/ StreamDelta \/ PublishStarted \/ PublishOutcome)
      => UNCHANGED Promised!vars
<1>. SUFFICES ASSUME PublishUser \/ StreamDelta \/ PublishStarted \/ PublishOutcome
              PROVE  UNCHANGED Promised!vars
  OBVIOUS
<1>1. pc \in MidTurn /\ pc' \in MidTurn
  BY DEF PublishUser, StreamDelta, PublishStarted, PublishOutcome, Goto, MidTurn
<1>2. UNCHANGED <<mailbox, chat, disk, stored>>
  BY DEF PublishUser, StreamDelta, PublishStarted, PublishOutcome, durable
<1>3. QED
  BY <1>1, <1>2, Unseen

(* Publishing the reply: back to the channel when there was a result.      *)
LEMMA PublishReplyStep == IInv /\ PublishReply => UNCHANGED Promised!vars
<1>. SUFFICES ASSUME IInv, PublishReply PROVE UNCHANGED Promised!vars
  OBVIOUS
<1>1. pc = "replied" /\ pc \in MidTurn /\ UNCHANGED <<mailbox, chat, disk, stored>>
  BY DEF PublishReply, MidTurn, durable
<1>2. CASE pc' = "dispatching"
  BY <1>1, <1>2, Unseen DEF MidTurn
<1>3. CASE calls = 0 /\ pc' = "recv"
  <2>1. chat.events \in Seq(Event) /\ Standing
    BY ChatFields DEF IInv
  <2>2. chat.events # <<>> => Outcome(chat.events[Len(chat.events)], TRUE) # "open"
    BY <1>1, <1>3, <2>1 DEF Standing, Last, Outcome
  <2>3. TurnsOf(chat.events, TRUE) = TurnsOf(chat.events, FALSE)
    BY <2>1, <2>2, NothingOpen
  <2>4. Turns' = Turns
    BY <1>1, <1>3, <2>3, MappedUp, MappedUpPrimed
  <2>5. Up' = Up /\ Waiting' = Waiting /\ Unsaved' = Unsaved
    BY <1>1, <1>3, MappedUp, MappedUpPrimed
  <2>6. QED
    BY <2>4, <2>5 DEF Promised!vars
<1>4. QED
  BY <1>2, <1>3 DEF PublishReply

LEMMA SeqParts ==
  ASSUME NEW S, NEW x \in Seq(S)
  PROVE  /\ x = [k \in DOMAIN x |-> x[k]]
         /\ Len(x) \in Nat \ {0} => Len(x) \in DOMAIN x /\ x[Len(x)] \in S
OBVIOUS

(* Pushing anything but a user message in mid-turn.                        *)
LEMMA MidTurnPush ==
  ASSUME IInv, pc \in MidTurn, pc' \in MidTurn, UNCHANGED mailbox,
         NEW kind \in Kinds \ {"user"}, NEW ref \in Nat, Push(kind, ref),
         chat.events # <<>>, Outcome(Last(chat.events), TRUE) = "open"
  PROVE  \/ /\ Promised!Save
            /\ ~(kind = "error" \/ (kind = "agent" /\ ref = 0))
         \/ Promised!Finish
<1>. DEFINE s == chat.events
            t == chat'.events
            n == Len(Turns)
            o == Outcome(t[Len(t)], TRUE)
<1>1. /\ s \in Seq(Event) /\ t \in Seq(Event) /\ Len(t) = Len(s) + 1 /\ s # <<>>
      /\ \A i \in 1..Len(s) : t[i] = s[i]
      /\ t[Len(t)].kind = kind /\ t[Len(t)].ref = ref /\ t[Len(t)].kind # "user"
      /\ s[1].kind = "user"
  <2>1. TypeOK /\ Grammatical(s)
    BY DEF IInv, TurnGrammar
  <2>2. s \in Seq(Event)
    BY <2>1, ChatFields
  <2>3. /\ t \in Seq(Event) /\ Len(t) = Len(s) + 1 /\ Len(s) \in Nat
        /\ \A i \in 1..Len(s) : t[i] = s[i]
        /\ t[Len(s) + 1].kind = kind /\ t[Len(s) + 1].ref = ref
    BY <2>1, PushShape, PushEffect
  <2>4. QED
    BY <2>1, <2>2, <2>3 DEF Grammatical
<1>2. /\ Turns = TurnsOf(s, TRUE) /\ Turns' = TurnsOf(t, TRUE)
      /\ Up = "up" /\ Up' = "up" /\ Waiting' = Waiting
  BY MappedUp, MappedUpPrimed
<1>. HIDE DEF s, t
<1>3. /\ n \in Nat \ {0}
      /\ Turns \in Seq([message : Nat, state : TurnStates])
      /\ Turns[n].state = Outcome(s[Len(s)], TRUE)
      /\ Turns' = [Turns EXCEPT ![n].state = o]
  BY <1>1, <1>2, TurnsOtherPush
<1>4. Turns[n].state = "open" /\ Turns # <<>>
  <2>1. Turns # <<>>
    BY <1>3
  <2>2. Last(s) = s[Len(s)]
    BY DEF Last
  <2>3. QED
    BY <1>3, <2>1, <2>2 DEF s
<1>5. Promised!HasOpenTurn
  BY <1>4 DEF Promised!HasOpenTurn
<1>6. Unsaved' \in BOOLEAN
  BY UnsavedType
<1>7. CASE kind = "error" \/ (kind = "agent" /\ ref = 0)
  <2>1. o \in Promised!Results
    BY <1>1, <1>7 DEF Outcome, Promised!Results
  <2>2. QED
    BY <1>2, <1>3, <1>5, <1>6, <2>1 DEF Promised!Finish
<1>8. CASE ~(kind = "error" \/ (kind = "agent" /\ ref = 0))
  <2>1. o = "open"
    BY <1>1, <1>8 DEF Outcome
  <2>2. Turns' = Turns
    <3>1. /\ n \in DOMAIN Turns /\ Turns[n] \in [message : Nat, state : TurnStates]
          /\ Turns = [k \in DOMAIN Turns |-> Turns[k]]
      BY <1>3, SeqParts
    <3>2. [Turns[n] EXCEPT !.state = "open"] = Turns[n]
      BY <1>4, <3>1
    <3>3. [Turns EXCEPT ![n].state = "open"] = Turns
      BY <3>1, <3>2
    <3>4. QED
      BY <1>3, <2>1, <3>3
  <2>3. QED
    BY <1>2, <1>5, <1>6, <1>8, <2>2 DEF Promised!Save
<1>9. QED
  BY <1>7, <1>8

LEMMA CompleteStep == IInv /\ Complete => Promised!Next
<1>. SUFFICES ASSUME IInv, Complete PROVE Promised!Next
  OBVIOUS
<1>1. PICK kind \in {"agent", "error"}, n \in 0..MaxCalls : Reply(kind, n)
  BY RunnerAssumption DEF Complete, CompleteStop, CompleteError, CompleteTools
<1>2. /\ pc = "completing" /\ pc' = "replied" /\ Push(kind, n) /\ mailbox' = mailbox
      /\ kind \in Kinds \ {"user"} /\ n \in Nat
  BY <1>1, RunnerAssumption DEF Reply, Goto, Kinds
<1>3. chat.events # <<>> /\ Last(chat.events).kind \in UserRole
  BY <1>2 DEF IInv, Standing
<1>4. Outcome(Last(chat.events), TRUE) = "open"
  BY <1>3 DEF UserRole, Outcome
<1>5. Promised!Save \/ Promised!Finish
  BY <1>2, <1>3, <1>4, MidTurnPush DEF MidTurn
<1>6. QED
  BY <1>5 DEF Promised!Next

LEMMA CallSteps == IInv /\ (StartCall \/ FinishCall \/ PushResults) => Promised!Next
<1>. SUFFICES ASSUME IInv, StartCall \/ FinishCall \/ PushResults PROVE Promised!Next
  OBVIOUS
<1>1. PICK kind \in {"started", "completed", "failed", "results"}, ref \in Nat : Push(kind, ref)
  BY DEF StartCall, FinishCall, PushResults, Outcomes, IInv, TypeOK
<1>2. kind \in Kinds \ {"user"}
  BY DEF Kinds
<1>3. /\ pc \in {"dispatching", "executing"}
      /\ pc' \in {"started", "finished", "completing"} /\ mailbox' = mailbox
  BY DEF StartCall, FinishCall, PushResults, Goto
<1>4. chat.events # <<>> /\ Outcome(Last(chat.events), TRUE) = "open"
  BY <1>3 DEF IInv, Standing, Outcome, Outcomes
<1>5. Promised!Save \/ Promised!Finish
  BY <1>1, <1>2, <1>3, <1>4, MidTurnPush DEF MidTurn
<1>6. QED
  BY <1>5 DEF Promised!Next

(* The messages in the channel.                                            *)
LEMMA MessagesAre ==
  ASSUME NEW box \in Seq(0..MaxMessages)
  PROVE  /\ MessagesIn(box) \in SUBSET (1..Len(box)) /\ MessagesIn(box) \in SUBSET Nat
         /\ IsFiniteSet(MessagesIn(box))
         /\ \A i \in MessagesIn(box) : box[i] \in 1..MaxMessages
         /\ Picked(box, MessagesIn(box)) \in Seq(1..MaxMessages)
         /\ \A k \in DOMAIN Picked(box, MessagesIn(box)) :
                \E i \in MessagesIn(box) : Picked(box, MessagesIn(box))[k] = box[i]
<1>. DEFINE P == MessagesIn(box)
<1>1. Len(box) \in Nat /\ P \in SUBSET (1..Len(box)) /\ P \in SUBSET Nat
  BY DEF MessagesIn
<1>2. IsFiniteSet(P)
  <2>1. IsFiniteSet(1..Len(box))
    BY <1>1, FS_Interval
  <2>2. QED
    BY <1>1, <2>1, FS_Subset
<1>3. \A i \in P : box[i] \in 1..MaxMessages
  <2>1. \A i \in P : i \in DOMAIN box /\ box[i] # 0
    BY DEF MessagesIn, Shutdown
  <2>2. \A i \in DOMAIN box : box[i] \in 0..MaxMessages
    BY ElementOf
  <2>3. \A m \in 0..MaxMessages : m # 0 => m \in 1..MaxMessages
    BY RunnerAssumption
  <2>4. QED
    BY <2>1, <2>2, <2>3
<1>. HIDE DEF P
<1>4. /\ Picked(box, P) \in Seq(1..MaxMessages)
      /\ Len(Picked(box, P)) = Cardinality(P) /\ Cardinality(P) \in Nat
      /\ \A k \in 1..Cardinality(P) : Nth(P, k) \in P /\ Picked(box, P)[k] = box[Nth(P, k)]
  BY <1>1, <1>2, <1>3, PickedType
<1>5. DOMAIN Picked(box, P) = 1..Cardinality(P)
  BY <1>4
<1>6. \A k \in DOMAIN Picked(box, P) : \E i \in P : Picked(box, P)[k] = box[i]
  BY <1>4, <1>5
<1>7. QED
  BY <1>1, <1>2, <1>3, <1>4, <1>6 DEF P

(* A message that joins the channel joins those that wait.                 *)
LEMMA MessageJoins ==
  ASSUME NEW box \in Seq(0..MaxMessages), NEW m \in 0..MaxMessages
  PROVE  Picked(Append(box, m), MessagesIn(Append(box, m)))
             = IF m = Shutdown THEN Picked(box, MessagesIn(box))
               ELSE Append(Picked(box, MessagesIn(box)), m)
<1>. DEFINE b == Append(box, m)
            P == MessagesIn(box)
            Q == MessagesIn(b)
            l == Len(box) + 1
<1>1. /\ Len(box) \in Nat /\ l \in Nat /\ Len(box) < l
      /\ DOMAIN b = 1..l /\ b[l] = m /\ \A i \in 1..Len(box) : b[i] = box[i]
      /\ DOMAIN box = 1..Len(box)
  OBVIOUS
<1>2. /\ P \in SUBSET (1..Len(box)) /\ P \in SUBSET Nat /\ IsFiniteSet(P)
      /\ \A i \in P : box[i] \in 1..MaxMessages
  BY MessagesAre
<1>3. /\ \A i \in 1..Len(box) : i \in Q <=> i \in P
      /\ l \in Q <=> m # Shutdown
      /\ \A i \in Q : i \in 1..Len(box) \/ i = l
  BY <1>1 DEF MessagesIn
<1>. HIDE DEF b, l, P, Q
<1>4. \A i \in P : b[i] = box[i]
  BY <1>1, <1>2
<1>5. CASE m = Shutdown
  <2>1. Q = P
    BY <1>2, <1>3, <1>5
  <2>2. Picked(b, P) = Picked(box, P)
    BY <1>2, <1>4, PickedSame
  <2>3. QED
    BY <1>5, <2>1, <2>2 DEF b, P, Q
<1>6. CASE m # Shutdown
  <2>1. Q = P \cup {l}
    BY <1>2, <1>3, <1>6
  <2>2. b[l] \in 1..MaxMessages
    BY <1>1, <1>6, RunnerAssumption DEF Shutdown
  <2>3. b \in Seq(0..MaxMessages) /\ l = Len(b)
    BY DEF b, l
  <2>4. Picked(b, P \cup {Len(b)}) = Append(Picked(box, P), b[Len(b)])
    <3>1. \A i \in 1..Len(box) : b[i] = box[i]
      BY <1>1
    <3>2. Len(b) = Len(box) + 1
      BY DEF b
    <3>3. QED
      BY <1>2, <2>3, <3>1, <3>2, PickedMore
  <2>5. Picked(b, Q) = Append(Picked(box, P), b[l])
    BY <2>1, <2>3, <2>4
  <2>6. QED
    BY <1>1, <1>6, <2>5 DEF b, P, Q
<1>7. QED
  BY <1>5, <1>6

(* Taking the first message away.                                          *)
LEMMA MessageLeaves ==
  ASSUME NEW box \in Seq(0..MaxMessages), box # <<>>, Head(box) # Shutdown
  PROVE  /\ Picked(box, MessagesIn(box)) # <<>>
         /\ Head(Picked(box, MessagesIn(box))) = Head(box)
         /\ Picked(Tail(box), MessagesIn(Tail(box))) = Tail(Picked(box, MessagesIn(box)))
<1>. DEFINE P == MessagesIn(box)
            Q == MessagesIn(Tail(box))
<1>1. /\ Len(box) \in Nat \ {0} /\ DOMAIN box = 1..Len(box) /\ Head(box) = box[1]
      /\ DOMAIN Tail(box) = 1..(Len(box) - 1)
      /\ \A i \in 1..(Len(box) - 1) : Tail(box)[i] = box[i + 1]
  OBVIOUS
<1>2. P \in SUBSET (1..Len(box)) /\ 1 \in P
  BY <1>1 DEF MessagesIn
<1>3. \A i \in 1..(Len(box) - 1) : i \in Q <=> i + 1 \in P
  BY <1>1 DEF MessagesIn
<1>4. \A i \in Q : i \in 1..(Len(box) - 1)
  BY <1>1 DEF MessagesIn
<1>. HIDE DEF P, Q
<1>5. Q = {i \in 1..(Len(box) - 1) : i + 1 \in P}
  BY <1>3, <1>4
<1>6. /\ Picked(box, P) # <<>> /\ Head(Picked(box, P)) = box[1]
      /\ Picked(Tail(box), Q) = Tail(Picked(box, P))
  BY <1>2, <1>5, PickedTail
<1>7. QED
  BY <1>1, <1>6 DEF P, Q

LEMMA SendStep == IInv /\ Send => [Promised!Next]_(Promised!vars)
<1>. SUFFICES ASSUME IInv, Send PROVE [Promised!Next]_(Promised!vars)
  OBVIOUS
<1>1. /\ TypeOK /\ Numbering /\ pc \in Receiving /\ pc' = pc
      /\ sent < MaxMessages /\ sent \in 0..MaxMessages
      /\ mailbox \in Seq(0..MaxMessages) /\ mailbox' = Append(mailbox, sent + 1)
      /\ UNCHANGED <<chat, disk, stored>>
  BY DEF IInv, TypeOK, Send, durable
<1>2. sent + 1 \in 1..MaxMessages /\ sent + 1 \in 0..MaxMessages /\ sent + 1 # Shutdown
  BY <1>1, RunnerAssumption DEF Shutdown
<1>3. CASE pc = "closing"
  BY <1>1, <1>3, MappedUp, MappedUpPrimed DEF Promised!vars
<1>4. CASE pc # "closing"
  <2>1. pc \in MidTurn \/ pc = "recv"
    BY <1>1, <1>4 DEF Receiving, MidTurn
  <2>2. /\ Up = "up" /\ Up' = "up" /\ Turns' = Turns /\ Unsaved' = Unsaved
        /\ Waiting = Picked(mailbox, MessagesIn(mailbox))
        /\ Waiting' = Picked(mailbox', MessagesIn(mailbox'))
        /\ Turns = TurnsOf(chat.events, TRUE) \/ Turns = TurnsOf(chat.events, FALSE)
    BY <1>1, <2>1, MappedUp, MappedUpPrimed
  <2>3. Waiting' = Append(Waiting, sent + 1)
    BY <1>1, <1>2, <2>2, MessageJoins
  <2>4. \A i \in DOMAIN Waiting : Waiting[i] # sent + 1
    <3>1. SUFFICES ASSUME NEW i \in DOMAIN Waiting PROVE Waiting[i] # sent + 1
      OBVIOUS
    <3>2. PICK j \in MessagesIn(mailbox) : Waiting[i] = mailbox[j]
      BY <1>1, <2>2, <3>1, MessagesAre
    <3>3. j \in DOMAIN mailbox
      BY <3>2 DEF MessagesIn
    <3>4. mailbox[j] <= sent /\ mailbox[j] \in Nat
      <4>1. mailbox[j] \in 0..MaxMessages
        BY <1>1, <3>3, ElementOf
      <4>2. QED
        BY <1>1, <3>3, <4>1 DEF Numbering
    <3>5. QED
      BY <1>1, <3>2, <3>4
  <2>5. \A i \in DOMAIN Turns : Turns[i].message # sent + 1
    <3>1. SUFFICES ASSUME NEW i \in DOMAIN Turns PROVE Turns[i].message # sent + 1
      OBVIOUS
    <3>2. chat.events \in Seq(Event)
      BY <1>1, ChatFields
    <3>3. PICK a \in BOOLEAN : Turns = TurnsOf(chat.events, a)
      BY <2>2
    <3>4. /\ i \in 1..Cardinality(Users(chat.events))
          /\ Turns[i].message = chat.events[Nth(Users(chat.events), i)].ref
      <4>. DEFINE s == chat.events
                  c == Cardinality(Users(s))
      <4>1. DOMAIN Turns = 1..c
        BY <3>2, <3>3, TurnAt
      <4>2. Turns[i] = [message |-> s[Nth(Users(s), i)].ref,
                        state   |-> Outcome(s[EndOf(s, i)], a /\ i = c)]
        BY <3>1, <3>2, <3>3, <4>1, TurnAt
      <4>3. QED
        BY <3>1, <4>1, <4>2, TurnFields
    <3>5. Nth(Users(chat.events), i) \in Users(chat.events)
      BY <3>2, <3>4, UsersIn
    <3>6. /\ Nth(Users(chat.events), i) \in DOMAIN chat.events
          /\ chat.events[Nth(Users(chat.events), i)].kind = "user"
      BY <3>5 DEF Users
    <3>7. chat.events[Nth(Users(chat.events), i)].ref <= sent
      BY <1>1, <3>6 DEF Numbering
    <3>8. chat.events[Nth(Users(chat.events), i)].ref \in Nat
      <4>1. chat.events[Nth(Users(chat.events), i)] \in Event
        BY <3>2, <3>6, ElementOf
      <4>2. QED
        BY <4>1 DEF Event
    <3>9. QED
      BY <1>1, <3>4, <3>7, <3>8
  <2>6. Promised!Accept(sent + 1)
    BY <2>2, <2>3, <2>4, <2>5 DEF Promised!Accept
  <2>7. QED
    BY <1>2, <2>6 DEF Promised!Next
<1>5. QED
  BY <1>3, <1>4

LEMMA SendShutdownStep == IInv /\ SendShutdown => UNCHANGED Promised!vars
<1>. SUFFICES ASSUME IInv, SendShutdown PROVE UNCHANGED Promised!vars
  OBVIOUS
<1>1. /\ pc \in Receiving \ {"closing"} /\ pc' = pc
      /\ mailbox \in Seq(0..MaxMessages) /\ mailbox' = Append(mailbox, Shutdown)
      /\ UNCHANGED <<chat, disk, stored>>
  BY DEF IInv, TypeOK, SendShutdown, durable
<1>2. Shutdown \in 0..MaxMessages
  BY RunnerAssumption DEF Shutdown
<1>3. Picked(mailbox', MessagesIn(mailbox')) = Picked(mailbox, MessagesIn(mailbox))
  BY <1>1, <1>2, MessageJoins
<1>4. pc \in MidTurn \/ pc = "recv"
  BY <1>1 DEF Receiving, MidTurn
<1>5. QED
  BY <1>1, <1>3, <1>4, MappedUp, MappedUpPrimed DEF Promised!vars

LEMMA RecvUserStep == IInv /\ RecvUser => Promised!Next
<1>. SUFFICES ASSUME IInv, RecvUser PROVE Promised!Next
  OBVIOUS
<1>1. /\ TypeOK /\ pc = "recv" /\ pc' = "accepted" /\ mailbox # <<>> /\ Head(mailbox) # Shutdown
      /\ mailbox' = Tail(mailbox) /\ Push("user", Head(mailbox))
      /\ mailbox \in Seq(0..MaxMessages)
  BY DEF IInv, TypeOK, RecvUser, Listening, Ready, TakeOne
<1>2. Head(mailbox) \in Nat /\ "user" \in Kinds
  <2>1. 1 \in DOMAIN mailbox /\ Head(mailbox) = mailbox[1]
    BY <1>1
  <2>2. mailbox[1] \in 0..MaxMessages
    BY <1>1, <2>1, ElementOf
  <2>3. QED
    BY <2>1, <2>2 DEF Kinds
<1>3. /\ Up = "up" /\ Up' = "up"
      /\ Waiting = Picked(mailbox, MessagesIn(mailbox))
      /\ Waiting' = Picked(mailbox', MessagesIn(mailbox'))
      /\ Turns = TurnsOf(chat.events, FALSE) /\ Turns' = TurnsOf(chat'.events, TRUE)
  BY <1>1, MappedUp, MappedUpPrimed DEF MidTurn
<1>4. Waiting # <<>> /\ Head(Waiting) = Head(mailbox) /\ Waiting' = Tail(Waiting)
  BY <1>1, <1>3, MessageLeaves
<1>5. Turns' = Append(Turns, [message |-> Head(Waiting), state |-> "open"])
  <2>. DEFINE s == chat.events
              t == chat'.events
  <2>1. /\ s \in Seq(Event) /\ t \in Seq(Event) /\ Len(t) = Len(s) + 1
        /\ \A i \in 1..Len(s) : t[i] = s[i]
        /\ t[Len(t)].kind = "user" /\ t[Len(t)].ref = Head(mailbox)
    <3>1. s \in Seq(Event)
      BY <1>1, ChatFields
    <3>2. /\ t \in Seq(Event) /\ Len(t) = Len(s) + 1
          /\ \A i \in 1..Len(s) : t[i] = s[i]
          /\ t[Len(s) + 1].kind = "user" /\ t[Len(s) + 1].ref = Head(mailbox)
      BY <1>1, <1>2, PushShape, PushEffect
    <3>3. QED
      BY <3>1, <3>2
  <2>. HIDE DEF s, t
  <2>2. TurnsOf(t, TRUE) = Append(TurnsOf(s, FALSE), [message |-> t[Len(t)].ref, state |-> "open"])
    BY <2>1, TurnsUserPush
  <2>3. QED
    BY <1>3, <1>4, <2>1, <2>2 DEF s, t
<1>6. ~Promised!HasOpenTurn
  <2>1. chat.events \in Seq(Event)
    BY <1>1, ChatFields
  <2>2. QED
    BY <1>3, <2>1, NothingOpen DEF Promised!HasOpenTurn
<1>7. Promised!TakeUp
  BY <1>3, <1>4, <1>5, <1>6, UnsavedType DEF Promised!TakeUp
<1>8. QED
  BY <1>7 DEF Promised!Next

LEMMA ShutdownSteps == IInv /\ (RecvShutdown \/ Close) => Promised!Next
<1>. SUFFICES ASSUME IInv, RecvShutdown \/ Close PROVE Promised!Next
  OBVIOUS
<1>1. CASE RecvShutdown
  <2>1. pc = "recv" /\ pc' = "closing" /\ UNCHANGED <<chat, disk, stored>>
    BY <1>1 DEF RecvShutdown, Listening, durable
  <2>2. /\ Up = "up" /\ Up' = "closed" /\ Waiting' = <<>> /\ Turns' = Turns
        /\ Unsaved' = Unsaved /\ Turns = TurnsOf(chat.events, FALSE)
    BY <2>1, MappedUp, MappedUpPrimed
  <2>3. chat.events \in Seq(Event)
    BY ChatFields DEF IInv
  <2>4. ~Promised!HasOpenTurn
    BY <2>2, <2>3, NothingOpen DEF Promised!HasOpenTurn
  <2>5. QED
    BY <2>2, <2>4 DEF Promised!Close, Promised!Next
<1>2. CASE Close
  <2>1. pc = "closing" /\ pc' = "exited" /\ mailbox' = <<>> /\ chat' = chat
    BY <1>2 DEF Close, Goto
  <2>2. /\ Up = "closed" /\ Up' = "closed" /\ Turns' = Turns /\ Waiting = <<>>
        /\ Waiting' = Picked(mailbox', MessagesIn(mailbox'))
    BY <2>1, MappedUp, MappedUpPrimed
  <2>3. Waiting' = <<>>
    BY <2>1, <2>2, NothingWaits
  <2>4. QED
    BY <2>2, <2>3, UnsavedType DEF Promised!Save, Promised!Next
<1>3. QED
  BY <1>1, <1>2

LEMMA SpawnStep == IInv /\ Spawn => Promised!Next
<1>. SUFFICES ASSUME IInv, Spawn PROVE Promised!Next
  OBVIOUS
<1>1. pc = "unborn" /\ pc' = "recv" /\ UNCHANGED <<mailbox, chat>>
  BY DEF Spawn, Goto
<1>2. Up = "none" /\ Up' = "up" /\ Waiting' = Waiting /\ Turns' = Turns
  BY <1>1, MappedUp, MappedUpPrimed
<1>3. QED
  BY <1>2, UnsavedType DEF Promised!Begin, Promised!Next

LEMMA RestoreStep == IInv /\ Restore => Promised!Next
<1>. SUFFICES ASSUME IInv, Restore PROVE Promised!Next
  OBVIOUS
<1>1. /\ pc = "down" /\ pc' = "recv" /\ mailbox' = mailbox /\ chat' = disk /\ stored
  BY DEF Restore, Goto, LoadedChat
<1>2. disk' = disk /\ stored' = TRUE
  <2>1. PICK ok \in BOOLEAN : SaveQuietly(disk, ok)
    BY DEF Restore, LoadedChat
  <2>2. QED
    BY <1>1, <2>1 DEF SaveQuietly
<1>3. /\ Up = "down" /\ Up' = "up" /\ Waiting' = Waiting /\ Turns' = Turns
      /\ Unsaved' = Unsaved
  BY <1>1, <1>2, MappedUp, MappedUpPrimed
<1>4. QED
  BY <1>3 DEF Promised!Return, Promised!Next

LEMMA CrashStep == IInv /\ Crash => Promised!Next
<1>. SUFFICES ASSUME IInv, Crash PROVE Promised!Next
  OBVIOUS
<1>1. /\ pc \notin {"unborn", "down"} /\ pc' = "down" /\ mailbox' = <<>> /\ disk' = disk
      /\ TypeOK
  BY DEF Crash, durable, IInv
<1>2. pc \in MidTurn \cup {"recv", "closing", "exited"}
  BY <1>1 DEF TypeOK, Receiving, MidTurn
<1>3. /\ Up \in {"up", "closed"}
      /\ Turns = TurnsOf(chat.events, TRUE) \/ Turns = TurnsOf(chat.events, FALSE)
      /\ Unsaved = (disk # chat \/ ~stored)
  BY <1>2, MappedUp
<1>4. /\ Up' = "down" /\ Turns' = TurnsOf(disk.events, FALSE) /\ Unsaved' = FALSE
      /\ Waiting' = <<>>
  BY <1>1, MappedUpPrimed, NothingWaits
<1>5. /\ chat.events \in Seq(Event) /\ disk.events \in Seq(Event)
      /\ Extends(chat.events, disk.events)
      /\ Grammatical(chat.events) /\ Grammatical(disk.events)
  BY <1>1, ChatFields DEF IInv, Durability, TurnGrammar
<1>6. disk.events # chat.events => Unsaved
  BY <1>3
<1>7. PICK a \in BOOLEAN : TurnsOf(chat.events, a) = Turns
  BY <1>3
<1>8. Turns' \in Promised!Survivors(Turns)
  BY <1>4, <1>5, <1>6, <1>7, StorageSurvives
<1>9. QED
  BY <1>3, <1>4, <1>8 DEF Promised!Die, Promised!Next

LEMMA EveryStepIsPromised == IInv /\ [Next]_vars => [Promised!Next]_(Promised!vars)
<1>. SUFFICES ASSUME IInv, [Next]_vars PROVE [Promised!Next]_(Promised!vars)
  OBVIOUS
<1>1. CASE UNCHANGED vars
  BY <1>1 DEF vars, volatile, durable, Promised!vars, Up, Waiting, MessagesIn, Turns,
              TurnsOf, Users, EndOf, Inside, Unsaved
<1>2. CASE Spawn \/ Crash \/ Restore
  BY <1>2, SpawnStep, CrashStep, RestoreStep
<1>3. CASE Send \/ SendShutdown
  BY <1>3, SendStep, SendShutdownStep
<1>4. CASE Run
  BY <1>4, RecvUserStep, MidTurnSteps, CompleteStep, PublishReplyStep, CallSteps,
     ShutdownSteps DEF Run
<1>5. QED
  BY <1>1, <1>2, <1>3, <1>4 DEF Next

LEMMA PromisedAtFirst == Init => Promised!Init
<1>. SUFFICES ASSUME Init PROVE Promised!Init
  OBVIOUS
<1>1. pc = "unborn" /\ mailbox = <<>> /\ chat.events = <<>>
  BY DEF Init, NoEvents
<1>2. /\ Up = "none" /\ Unsaved = FALSE /\ Waiting = <<>>
      /\ Turns = TurnsOf(chat.events, FALSE)
  BY <1>1, MappedUp, NothingWaits
<1>3. Turns = <<>>
  <2>1. <<>> \in Seq(Event) /\ Users(<<>>) = {}
    BY DEF Users
  <2>2. Len(TurnsOf(<<>>, FALSE)) = 0 /\ TurnsOf(<<>>, FALSE) \in Seq([message : Nat, state : TurnStates])
    BY <2>1, FS_EmptySet, TurnAt
  <2>3. ASSUME NEW S, NEW x \in Seq(S), Len(x) = 0 PROVE x = <<>>
    BY <2>3
  <2>4. QED
    BY <1>1, <1>2, <2>2, <2>3
<1>4. QED
  BY <1>2, <1>3 DEF Promised!Init

(* Every step of the runner, of a client, of a crash or of a restart is a  *)
(* step that Conversation allows, or changes nothing it speaks of          *)
(* (AgentRunner::run, restore_root).                                       *)
THEOREM ConversationIsKept == Spec => ImplementsConversation
<1>1. Init => Promised!Init
  BY PromisedAtFirst
<1>2. IInv /\ [Next]_vars => [Promised!Next]_(Promised!vars)
  BY EveryStepIsPromised
<1>3. QED
  BY <1>1, <1>2, Invariance, PTL DEF Spec, ImplementsConversation, Promised!Safety
=============================================================================
