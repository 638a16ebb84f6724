------------------------ MODULE ResourceUsageProofs ------------------------
(* Proofs about ResourceUsage: that failures reach the exit status, and that the tree   *)
(* of classes, types and elements is sound whatever is published meanwhile.             *)
EXTENDS ResourceUsage, SequenceTheorems, FiniteSetTheorems, TLAPS

-----------------------------------------------------------------------------
(* Exit status *)

\* A failure leaves no way but out; the loop starts with the code of an error, which its
\* low 8 bits do not change.
ReportInv ==
  /\ failed => pc \in {"disconnect", "ended"} /\ rc # 0
  /\ pc = "loop" => rc = ERROR_RETURN
  /\ pc = "disconnect" => rc \in {0, ERROR_RETURN}

LEMMA ReasonsAreNotZero ==
  \A r \in FailReasons \cup {MQRC_NO_MSG_AVAILABLE} : r # 0 /\ ExitStatus(r) # 0
<1>1. 0 % 256 = 0 /\ MQRC_NO_MSG_AVAILABLE % 256 = 241 /\ MQRC_NO_MSG_AVAILABLE # 0
  BY DEF MQRC_NO_MSG_AVAILABLE
<1> QED
  BY <1>1, ReasonAssumption DEF ExitStatus

LEMMA CodesOfItsOwn ==
  /\ ERROR_RETURN # 0 /\ ExitStatus(0) = 0
  /\ ExitStatus(ERROR_RETURN) = ERROR_RETURN /\ ExitStatus(-1) # 0
<1>1. (-1) % 256 # 0 /\ 20 % 256 = 20 /\ 0 % 256 = 0
  OBVIOUS
<1> QED
  BY <1>1 DEF ExitStatus, ERROR_RETURN

LEMMA ReportStartAndDiscovery ==
  ASSUME ReportInv, Start \/ DiscoverClasses \/ DiscoverTypes \/ DiscoverElements
  PROVE  ReportInv'
<1> USE ReasonsAreNotZero, CodesOfItsOwn DEF ReportInv
<1>1. CASE ParseOption \/ BadOption \/ OptionsParsed \/ MQCONN \/ QueryQMName \/ OpenQueue
  BY <1>1 DEF ParseOption, BadOption, OptionsParsed, MQCONN, QueryQMName, OpenQueue, Fails,
     Works, Exit, qmgr, result
<1>2. CASE SubClasses \/ SubDefault \/ SubTypes \/ SubElements
  BY <1>2 DEF SubClasses, SubDefault, SubTypes, SubElements, Subscribe, MQSUB, Fails,
     DiscoveryEnds, Exit
<1>3. CASE GetClasses \/ GetDefault \/ GetTypes \/ GetElements
  BY <1>3 DEF GetClasses, GetDefault, GetTypes, GetElements, Receive, MQGET, Fails,
     NothingCame, DiscoveryEnds, Exit
<1>4. CASE CloseClasses \/ CloseTypes \/ CloseElements
  BY <1>4 DEF CloseClasses, CloseTypes, CloseElements, CloseSubscription, MQCLOSE, Fails,
     DiscoveryEnds, Exit
<1>5. CASE LanguageMissing
  BY <1>5 DEF LanguageMissing, MQCLOSE, result
<1>6. CASE ParseClass \/ ClassesRead \/ TypesRead \/ TypesDone \/ NextClass \/ ElementsDone
  BY <1>6 DEF ParseClass, ClassesRead, TypesRead, TypesDone, NextClass, ElementsDone,
     DiscoveryEnds, qmgr, result
<1>7. CASE ParseType
  BY <1>7 DEF ParseType, ReadType, Remember, DiscoveryEnds, qmgr
<1>8. CASE ParseElement \/ ElementsRead
  BY <1>8 DEF ParseElement, ReadElement, Remember, ElementsRead, DiscoveryEnds, qmgr
<1> QED
  BY <1>1, <1>2, <1>3, <1>4, <1>5, <1>6, <1>7, <1>8
     DEF Start, DiscoverClasses, DiscoverTypes, DiscoverElements

LEMMA ReportRest ==
  ASSUME ReportInv,
         \/ Subscriptions \/ Publications \/ UNCHANGED vars
         \/ \E top \in DOMAIN Content : Publish(top) \/ PublishData(top)
  PROVE  ReportInv'
<1> USE ReasonsAreNotZero, CodesOfItsOwn DEF ReportInv
<1>1. CASE PromptForClass \/ PromptForType
  BY <1>1 DEF PromptForClass, PromptForType, Exit, qmgr
<1>2. CASE SubscribeType
  <2>1. pc = "subscribe" /\ \E top, obj : SubscribeData(top, obj)
    BY <1>2 DEF SubscribeType
  <2>2. PICK top, obj : SubscribeData(top, obj)
    BY <2>1
  <2> QED
    BY <2>1, <2>2 DEF SubscribeData, MQSUB, Fails, Exit
<1>3. CASE NotRecognised \/ ClassSubscribed \/ AllSubscribed
  BY <1>3 DEF NotRecognised, ClassSubscribed, AllSubscribed, Exit, qmgr, result
<1>4. CASE PrintPublication
  BY <1>4 DEF PrintPublication
<1>5. CASE GetFails
  BY <1>5 DEF GetFails, Fails, NothingCame, result
<1>6. CASE EnoughPrinted \/ MQDISC
  BY <1>6 DEF EnoughPrinted, MQDISC, Works, Fails, Exit, qmgr
<1>7. CASE \E top \in DOMAIN Content : Publish(top) \/ PublishData(top)
  BY <1>7 DEF Publish, PublishData, result
<1>8. CASE UNCHANGED vars
  BY <1>8 DEF vars, qmgr, result
<1> QED
  BY <1>1, <1>2, <1>3, <1>4, <1>5, <1>6, <1>7, <1>8 DEF Subscriptions, Publications

LEMMA NextCases ==
  ASSUME [Next]_vars
  PROVE  \/ Start \/ DiscoverClasses \/ DiscoverTypes \/ DiscoverElements
         \/ Subscriptions \/ Publications \/ UNCHANGED vars
         \/ \E top \in DOMAIN Content : Publish(top) \/ PublishData(top)
BY TopicAssumption DEF Next, Program

\* A program that ends with status 0 has had no call fail and no wait go unanswered that
\* matters, when no reason of a failure is 0 in its low 8 bits.
THEOREM FailedCallsAreReported == Spec => []FailuresAreReported
<1>1. Init => ReportInv
  BY DEF Init, ReportInv
<1>2. ReportInv /\ [Next]_vars => ReportInv'
  BY NextCases, ReportStartAndDiscovery, ReportRest
<1>3. ReportInv => FailuresAreReported
  BY DEF ReportInv, FailuresAreReported
<1> QED
  BY <1>1, <1>2, <1>3, PTL DEF Spec

-----------------------------------------------------------------------------
(* The temporary queue *)

QueueInv ==
  /\ retained \subseteq DOMAIN Content
  /\ tdq \in Seq(DOMAIN Content)
  /\ \E S : subs \in Seq(S)

\* What an action may do to the queue and the subscriptions.
QueueStep ==
  \/ UNCHANGED <<retained, subs, tdq>>
  \/ \E top : MQSUB(top)
  \/ MQCLOSE
  \/ tdq # <<>> /\ tdq' = Tail(tdq) /\ UNCHANGED <<retained, subs>>
  \/ \E top \in DOMAIN Content : /\ tdq' = tdq \o Copies(top)
                                 /\ retained' \in {retained, retained \cup {top}}
                                 /\ UNCHANGED subs

LEMMA CopiesAreSequences ==
  ASSUME QueueInv, NEW top \in DOMAIN Content
  PROVE  Copies(top) \in Seq(DOMAIN Content)
<1> DEFINE T == {j \in DOMAIN subs : subs[j] = top}
<1>1. PICK S : subs \in Seq(S)
  BY DEF QueueInv
<1>2. DOMAIN subs = 1..Len(subs) /\ Len(subs) \in Nat
  BY <1>1
<1>3. IsFiniteSet(DOMAIN subs)
  BY <1>2, FS_Interval
<1>4. T \in SUBSET DOMAIN subs
  OBVIOUS
<1>5. IsFiniteSet(T)
  BY <1>3, <1>4, FS_Subset
<1>6. Cardinality(T) \in Nat
  BY <1>5, FS_CardinalityType
<1> HIDE DEF T
<1>7. [i \in 1..Cardinality(T) |-> top] \in Seq(DOMAIN Content)
  BY <1>6
<1> QED
  BY <1>7 DEF Copies, T

LEMMA QueueStepKeepsQueue ==
  ASSUME QueueInv, QueueStep
  PROVE  QueueInv'
<1>1. CASE UNCHANGED <<retained, subs, tdq>>
  BY <1>1 DEF QueueInv
<1>2. CASE \E top : MQSUB(top)
  <2>1. PICK top : MQSUB(top)
    BY <1>2
  <2>a. tdq \in Seq(DOMAIN Content) /\ retained \subseteq DOMAIN Content
    BY DEF QueueInv
  <2>b. top \in retained => Append(tdq, top) \in Seq(DOMAIN Content)
    BY <2>a
  <2>2. retained' \subseteq DOMAIN Content /\ tdq' \in Seq(DOMAIN Content)
    BY <2>1, <2>a, <2>b DEF MQSUB
  <2>3. PICK S : subs \in Seq(S)
    BY DEF QueueInv
  <2>4. subs \in Seq(S \cup {top})
    BY <2>3
  <2>5. subs' \in Seq(S \cup {top})
    BY <2>1, <2>4 DEF MQSUB
  <2> QED
    BY <2>2, <2>5 DEF QueueInv
<1>3. CASE MQCLOSE
  <2>1. PICK S : subs \in Seq(S)
    BY DEF QueueInv
  <2>2. \A i \in 1..Len(subs) - 1 : subs[i] \in S
    BY <2>1
  <2>3. Len(subs) - 1 \in Int
    BY <2>1
  <2>4. SubSeq(subs, 1, Len(subs) - 1) \in Seq(S)
    BY <2>2, <2>3, SubSeqProperties
  <2> QED
    BY <1>3, <2>4 DEF MQCLOSE, QueueInv
<1>4. CASE tdq # <<>> /\ tdq' = Tail(tdq) /\ UNCHANGED <<retained, subs>>
  BY <1>4, HeadTailProperties DEF QueueInv
<1>5. ASSUME NEW top \in DOMAIN Content, tdq' = tdq \o Copies(top),
             retained' \in {retained, retained \cup {top}}, UNCHANGED subs
      PROVE  QueueInv'
  <2>1. tdq' \in Seq(DOMAIN Content)
    BY <1>5, CopiesAreSequences, ConcatProperties DEF QueueInv
  <2> QED
    BY <1>5, <2>1 DEF QueueInv
<1> QED
  BY <1>1, <1>2, <1>3, <1>4, <1>5 DEF QueueStep

LEMMA NextIsQueueStep ==
  ASSUME [Next]_vars
  PROVE  QueueStep
<1> USE DEF QueueStep
<1>1. CASE Start
  BY <1>1 DEF Start, ParseOption, BadOption, OptionsParsed, MQCONN, QueryQMName, OpenQueue,
     Works, Fails, qmgr
<1>2. ASSUME NEW top, NEW next, Subscribe(top, next)
      PROVE  QueueStep
  BY <1>2 DEF Subscribe, Fails
<1>3. ASSUME NEW next, NEW final, Receive(next, final)
      PROVE  QueueStep
  BY <1>3 DEF Receive, MQGET, Fails, NothingCame
<1>4. ASSUME NEW next, CloseSubscription(next)
      PROVE  QueueStep
  BY <1>4 DEF CloseSubscription, Fails
<1>5. CASE DiscoverClasses
  BY <1>5, <1>2, <1>3, <1>4 DEF DiscoverClasses, SubClasses, GetClasses, LanguageMissing,
     SubDefault, GetDefault, CloseClasses, ParseClass, ClassesRead, qmgr
<1>6. CASE DiscoverTypes
  BY <1>6, <1>2, <1>3, <1>4 DEF DiscoverTypes, SubTypes, GetTypes, CloseTypes, ParseType,
     TypesRead, TypesDone, qmgr
<1>7. CASE DiscoverElements
  BY <1>7, <1>2, <1>3, <1>4 DEF DiscoverElements, SubElements, GetElements, CloseElements,
     ParseElement, ElementsRead, NextClass, ElementsDone, qmgr
<1>8. CASE SubscribeType
  <2>1. PICK top, obj : SubscribeData(top, obj)
    BY <1>8 DEF SubscribeType
  <2> QED
    BY <2>1 DEF SubscribeData, Fails
<1>9. CASE Subscriptions /\ ~SubscribeType
  BY <1>9 DEF Subscriptions, PromptForClass, PromptForType, NotRecognised, ClassSubscribed,
     AllSubscribed, qmgr
<1>10. CASE Publications
  BY <1>10 DEF Publications, PrintPublication, GetFails, EnoughPrinted, MQDISC, Works, Fails,
     NothingCame, qmgr
<1>11. CASE \E top \in DOMAIN Content : Publish(top) \/ PublishData(top)
  BY <1>11 DEF Publish, PublishData
<1>12. CASE UNCHANGED vars
  BY <1>12 DEF vars, qmgr
<1> QED
  BY NextCases, <1>1, <1>5, <1>6, <1>7, <1>8, <1>9, <1>10, <1>11, <1>12

-----------------------------------------------------------------------------
(* The tree *)

AllElems == UNION {ElemsOf[q] : q \in DOMAIN ElemsOf}

\* A chain of types: a sequence of records that have these fields.
IsChain(s) ==
  /\ \E S : s \in Seq(S)
  /\ \A i \in DOMAIN s : s[i] = [id |-> s[i].id, topic |-> s[i].topic, flags |-> s[i].flags]

TreeShape ==
  /\ typeChain = [c \in Classes |-> typeChain[c]]
  /\ \A c \in Classes : IsChain(typeChain[c])
  /\ elemChain \in [DOMAIN ElemsOf -> Seq(AllElems)]
  /\ local = [class_id |-> local.class_id, type_id |-> local.type_id,
              flags |-> local.flags, topic |-> local.topic]

\* How far a message is read.
Reading(kind) ==
  /\ buffer \in DOMAIN Content
  /\ walk.idx \in 0..Message.count
  /\ \E pos \in [0..Message.count -> 1..Len(Message.params) + 1] :
       IsWalk(Message, kind, pos) /\ walk.cfin = pos[walk.idx]

\* What is read of a message is about the class, and the type, that it began with.
ParseInv ==
  /\ pc \in {"closeTypes", "closeElements"} =>
       buffer \in DOMAIN Content /\ walk = [idx |-> 0, cfin |-> 1]
  /\ pc = "parseTypes" =>
       /\ Reading("typeGroup")
       /\ Has(Message, "typeGroup") /\ walk.idx > 0 => local.class_id = Message.params[1].v
  /\ pc = "parseElements" =>
       /\ Reading("elemGroup")
       /\ Has(Message, "elemGroup") /\ walk.idx > 0 => local.class_id = Message.params[1].v
       /\ Has(Message, "elemGroup") /\ walk.idx > 1 => local.type_id = Message.params[2].v

TreeInv == TreeShape /\ TreeIsSound /\ ParseInv

\* A chain that grows is a chain, and its old records keep their ids.
LEMMA ChainGrows ==
  ASSUME NEW s, IsChain(s), NEW r, r = [id |-> r.id, topic |-> r.topic, flags |-> r.flags]
  PROVE  LET s2 == Append(s, r) IN
         /\ IsChain(s2)
         /\ \A i \in DOMAIN s2 : s2[i].id = r.id \/ (i \in DOMAIN s /\ s2[i].id = s[i].id)
<1> DEFINE s2 == Append(s, r)
<1>1. PICK S : s \in Seq(S)
  BY DEF IsChain
<1>2. s \in Seq(S \cup {r}) /\ r \in S \cup {r}
  BY <1>1
<1>3. s2 \in Seq(S \cup {r})
  BY <1>2
<1>4. \A i \in DOMAIN s2 : s2[i] = r \/ (i \in DOMAIN s /\ s2[i] = s[i])
  BY <1>2
<1> HIDE DEF s2
<1>6. \A i \in DOMAIN s2 : s2[i] = [id |-> s2[i].id, topic |-> s2[i].topic, flags |-> s2[i].flags]
  <2> TAKE i \in DOMAIN s2
  <2>1. CASE s2[i] = r
    BY <2>1
  <2>2. CASE i \in DOMAIN s /\ s2[i] = s[i]
    <3>1. s[i] = [id |-> s[i].id, topic |-> s[i].topic, flags |-> s[i].flags]
      BY <2>2 DEF IsChain
    <3> QED
      BY <2>2, <3>1
  <2> QED
    BY <1>4, <2>1, <2>2
<1>7. \E T : s2 \in Seq(T)
  BY <1>3
<1>8. IsChain(s2)
  BY <1>6, <1>7 DEF IsChain
<1> QED
  BY <1>4, <1>8 DEF s2

\* So is one with another topic in a record, and the ids are the same.
WithTopic(s, k, topic) == [s EXCEPT ![k].topic = topic]
LEMMA ChainIsUpdated ==
  ASSUME NEW s, IsChain(s), NEW k, NEW topic
  PROVE  LET s2 == WithTopic(s, k, topic) IN
         IsChain(s2) /\ DOMAIN s2 = DOMAIN s /\ \A i \in DOMAIN s2 : s2[i].id = s[i].id
<1> DEFINE s2 == WithTopic(s, k, topic)
           r == [s[k] EXCEPT !.topic = topic]
<1>0. CASE k \notin DOMAIN s
  <2>1. s2 = s
    BY <1>0 DEF WithTopic, IsChain
  <2> QED
    BY <2>1
<1> SUFFICES ASSUME k \in DOMAIN s
             PROVE  IsChain(s2) /\ DOMAIN s2 = DOMAIN s /\ \A i \in DOMAIN s2 : s2[i].id = s[i].id
  BY <1>0
<1>1. PICK S : s \in Seq(S)
  BY DEF IsChain
<1>2. s2 = [s EXCEPT ![k] = r]
  BY DEF WithTopic
<1>3. s \in Seq(S \cup {r})
  BY <1>1
<1>4. s[k] = [id |-> s[k].id, topic |-> s[k].topic, flags |-> s[k].flags]
  BY DEF IsChain
<1>5. r = [id |-> r.id, topic |-> r.topic, flags |-> r.flags] /\ r.id = s[k].id
  BY <1>4
<1> HIDE DEF r, s2
<1>6. s2 \in Seq(S \cup {r}) /\ DOMAIN s2 = DOMAIN s
      /\ \A i \in DOMAIN s2 : s2[i] = IF i = k THEN r ELSE s[i]
  BY <1>2, <1>3
<1>7. \A i \in DOMAIN s2 : s2[i].id = s[i].id
  BY <1>5, <1>6
<1>8. \A i \in DOMAIN s2 : s2[i] = [id |-> s2[i].id, topic |-> s2[i].topic, flags |-> s2[i].flags]
  BY <1>5, <1>6 DEF IsChain
<1>9. IsChain(s2)
  BY <1>6, <1>8 DEF IsChain
<1> QED
  BY <1>6, <1>7, <1>9 DEF s2

\* The steps that do not read a message, by what they change.
Parsing == {"closeTypes", "closeElements", "parseTypes", "parseElements"}
Elsewhere ==
  /\ UNCHANGED <<typeChain, elemChain>>
  /\ \/ local' = local
     \/ \E top : local' = [local EXCEPT !.topic = top]
     \/ \E i, f, top : local' = [local EXCEPT !.class_id = i, !.flags = f, !.topic = top]
  /\ UNCHANGED <<pc, buffer, walk, local>> \/ pc' \notin Parsing

LEMMA ElsewhereKeepsTree ==
  ASSUME TreeInv, Elsewhere
  PROVE  TreeInv'
<1>1. local' = [class_id |-> local'.class_id, type_id |-> local'.type_id,
                flags |-> local'.flags, topic |-> local'.topic]
  BY DEF Elsewhere, TreeInv, TreeShape
<1>2. TreeShape' /\ TreeIsSound'
  BY <1>1 DEF Elsewhere, TreeInv, TreeShape, TreeIsSound
<1>3. ParseInv'
  BY DEF Elsewhere, Parsing, TreeInv, ParseInv, Reading, Message
<1> QED
  BY <1>2, <1>3 DEF TreeInv

\* An answer is taken from the queue.
LEMMA ReceiveSteps ==
  ASSUME TreeInv, QueueInv, NEW next, NEW final, Receive(next, final),
         next \notin {"parseTypes", "parseElements"}
  PROVE  TreeInv'
<1>1. CASE UNCHANGED parse /\ pc' \in {"promptClass", "ended"}
  <2>1. UNCHANGED <<typeChain, elemChain>>
    BY DEF Receive, tree
  <2> QED
    BY <1>1, <2>1, ElsewhereKeepsTree DEF Elsewhere, Parsing, parse
<1>2. CASE MQGET /\ pc' = next
  <2>1. buffer' \in DOMAIN Content /\ walk' = [idx |-> 0, cfin |-> 1]
    BY <1>2, HeadTailProperties DEF MQGET, QueueInv
  <2>2. UNCHANGED <<typeChain, elemChain>> /\ \E top : local' = [local EXCEPT !.topic = top]
    BY <1>2 DEF Receive, tree, MQGET
  <2>3. TreeShape' /\ TreeIsSound'
    BY <2>2 DEF TreeInv, TreeShape, TreeIsSound
  <2>4. ParseInv'
    BY <1>2, <2>1 DEF ParseInv
  <2> QED
    BY <2>3, <2>4 DEF TreeInv
<1> QED
  BY <1>1, <1>2 DEF Receive, DiscoveryEnds, Exit

\* The message that was received is about to be read.
LEMMA CloseSteps ==
  ASSUME TreeInv, NEW next, CloseSubscription(next),
         pc \in {"closeTypes", "closeElements"}, next \in {"parseTypes", "parseElements"}
  PROVE  TreeInv'
<1>0. UNCHANGED <<typeChain, elemChain, buffer, walk, local>>
  BY DEF CloseSubscription, tree, parse
<1>1. CASE pc' \in {"promptClass", "ended"}
  BY <1>0, <1>1, ElsewhereKeepsTree DEF Elsewhere, Parsing
<1>2. CASE pc' = next
  <2>1. buffer \in DOMAIN Content /\ walk.idx = 0 /\ walk.cfin = 1
    BY DEF TreeInv, ParseInv
  <2>2. ASSUME NEW kind \in GroupKinds
        PROVE  Reading(kind)'
    <3>1. /\ Message.count \in Nat
          /\ \E pos \in [0..Message.count -> 1..Len(Message.params) + 1] :
               IsWalk(Message, kind, pos)
      BY <2>1, <2>2, WalkAssumption DEF Message
    <3>2. PICK pos \in [0..Message.count -> 1..Len(Message.params) + 1] :
            IsWalk(Message, kind, pos)
      BY <3>1
    <3>3. pos[0] = 1
      BY <3>2 DEF IsWalk
    <3>4. walk.idx \in 0..Message.count /\ walk.cfin = pos[walk.idx]
      BY <2>1, <3>1, <3>3
    <3>5. Reading(kind)
      BY <2>1, <3>2, <3>4 DEF Reading
    <3> QED
      BY <1>0, <3>5 DEF Reading, Message
  <2>3. Reading("typeGroup")' /\ Reading("elemGroup")'
    BY <2>2 DEF GroupKinds
  <2>4. ParseInv'
    BY <1>0, <1>2, <2>1, <2>3 DEF ParseInv
  <2>5. TreeShape' /\ TreeIsSound'
    BY <1>0 DEF TreeInv, TreeShape, TreeIsSound
  <2> QED
    BY <2>4, <2>5 DEF TreeInv
<1> QED
  BY <1>1, <1>2 DEF CloseSubscription, DiscoveryEnds, Exit

\* A turn of the loop finds a parameter of the message and leaves for the next one.
LEMMA ReadingAdvances ==
  ASSUME NEW kind, Reading(kind), MoreParams, Advance(kind), UNCHANGED buffer
  PROVE  /\ walk.cfin \in DOMAIN Message.params
         /\ Reading(kind)' /\ walk'.idx = walk.idx + 1
         /\ walk.idx = 0 => walk.cfin = 1
         /\ walk.idx = 1 /\ Message.params[1].p # kind => walk.cfin = 2
<1>1. PICK pos \in [0..Message.count -> 1..Len(Message.params) + 1] :
        IsWalk(Message, kind, pos) /\ walk.cfin = pos[walk.idx]
  BY DEF Reading
<1>2. walk.idx \in 0..Message.count - 1 /\ Message.count \in Nat
  BY WalkAssumption DEF Reading, MoreParams, Message, GroupKinds
<1>3. walk.cfin \in DOMAIN Message.params /\ pos[0] = 1
  BY <1>1, <1>2 DEF IsWalk
<1>4. walk'.idx = walk.idx + 1 /\ walk'.cfin = pos[walk.idx + 1]
  BY <1>1, <1>2 DEF IsWalk, Advance, Param
<1>5. Reading(kind)'
  BY <1>1, <1>2, <1>4, SMTT(30) DEF Reading, Message
<1>6. ASSUME walk.idx = 1, Message.params[1].p # kind
      PROVE  walk.cfin = 2
  <2>1. 0 \in 0..Message.count - 1
    BY <1>2, <1>6
  <2>2. pos[0 + 1] = pos[0] + 1 + 0
    BY <1>1, <1>3, <1>6, <2>1 DEF IsWalk
  <2> QED
    BY <1>1, <1>3, <1>6, <2>2
<1> QED
  BY <1>1, <1>3, <1>4, <1>5, <1>6

\* What a group says of its name is a value in the message that is found there.
LEMMA FieldIsInGroup ==
  ASSUME NEW kind, NEW name, NEW old, Groups(Message, kind, name),
         walk.cfin \in DOMAIN Message.params, Param.p = kind
  PROVE  \E j \in DOMAIN Message.params :
           Message.params[j].p = name /\ Field(name, old) = Message.params[j].v
<1> DEFINE range == walk.cfin + 1..walk.cfin + Param.v
           given == {i \in range : Message.params[i].p = name}
<1>1. range \subseteq DOMAIN Message.params
  BY DEF Groups, Param
<1>2. PICK j \in range : Message.params[j].p = name /\ \A k \in range :
        Message.params[k].p = name => k = j
  BY DEF Groups, Param
<1>3. given = {j}
  BY <1>2
<1>4. (CHOOSE i \in given : \A k \in given : k <= i) = j
  BY <1>2, <1>3
<1>5. Field(name, old) = Message.params[j].v
  BY <1>3, <1>4 DEF Field
<1> QED
  BY <1>1, <1>2, <1>5

\* A type goes to the class that its message began with.
LEMMA ParseTypeStep ==
  ASSUME TreeInv, ParseType
  PROVE  TreeInv'
<1> DEFINE m == Message
<1>1. pc = "parseTypes" /\ MoreParams /\ Advance("typeGroup")
      /\ UNCHANGED <<buffer, elemChain>> /\ buffer \in DOMAIN Content
  BY DEF ParseType, tree, ReadType, Remember, sruRegisterType, TreeInv, ParseInv, Reading
<1>2. /\ walk.cfin \in DOMAIN m.params /\ Reading("typeGroup")'
      /\ walk'.idx = walk.idx + 1 /\ (walk.idx = 0 => walk.cfin = 1)
      /\ walk.idx \in Nat
  BY <1>1, ReadingAdvances DEF TreeInv, ParseInv, Reading
<1>3. Message' = m
  BY <1>1 DEF Message
<1>4. Has(m, "typeGroup") =>
        /\ Says(m, 1, "class") /\ m.params[1].v \in Classes
        /\ \A i \in DOMAIN m.params :
             m.params[i].p = "type" => m.params[i].v \in TypesOf[m.params[1].v]
  BY <1>1, LayoutAssumption DEF Message
<1>5. CASE Param.p # "typeGroup"
  <2>1. UNCHANGED <<pc, tree>>
        /\ local' = [f \in DOMAIN local |->
              IF <<Param.p, f>> \in {<<"class", "class_id">>, <<"flags", "flags">>}
              THEN Param.v ELSE local[f]]
    BY <1>5 DEF ParseType, Remember
  <2>2. local' = [class_id |-> IF Param.p = "class" THEN Param.v ELSE local.class_id,
                  type_id |-> local.type_id,
                  flags |-> IF Param.p = "flags" THEN Param.v ELSE local.flags,
                  topic |-> local.topic]
    BY <2>1 DEF TreeInv, TreeShape
  <2>3. Has(m, "typeGroup") => local'.class_id = m.params[1].v
    BY <1>1, <1>2, <1>4, <2>2 DEF TreeInv, ParseInv, Says, Param
  <2>4. ParseInv'
    BY <1>1, <1>2, <1>3, <2>1, <2>3 DEF ParseInv
  <2>5. TreeShape' /\ TreeIsSound'
    BY <2>1, <2>2 DEF TreeInv, TreeShape, TreeIsSound, tree
  <2> QED
    BY <2>4, <2>5 DEF TreeInv
<1>6. CASE Param.p = "typeGroup"
  <2>1. Has(m, "typeGroup")
    BY <1>2, <1>6 DEF Has, Param
  <2>2. local.class_id = m.params[1].v /\ m.params[1].v \in Classes
    BY <1>1, <1>2, <1>4, <1>6, <2>1 DEF TreeInv, ParseInv, Says, Param
  <2>3. local' = [local EXCEPT !.type_id = Field("type", local.type_id),
                               !.topic = Field("topic", NoTopic)]
    BY <1>6 DEF ParseType, ReadType
  <2>4. local'.class_id = local.class_id /\ local'.type_id = Field("type", local.type_id)
        /\ local' = [class_id |-> local'.class_id, type_id |-> local'.type_id,
                     flags |-> local'.flags, topic |-> local'.topic]
    BY <2>3 DEF TreeInv, TreeShape
  <2>5. Groups(m, "typeGroup", "type")
    BY <1>1, LayoutAssumption DEF Message
  <2>6. Field("type", local.type_id) \in TypesOf[m.params[1].v]
    BY <1>2, <1>4, <1>6, <2>1, <2>5, FieldIsInGroup
  <2> DEFINE c == local.class_id
             r == [id |-> local'.type_id, topic |-> local'.topic, flags |-> local'.flags]
  <2>7. CASE UNCHANGED tree /\ pc' = "promptClass"
    <3>1. ParseInv'
      BY <2>7 DEF ParseInv
    <3>2. TreeShape' /\ TreeIsSound'
      BY <2>4, <2>7 DEF TreeInv, TreeShape, TreeIsSound, tree
    <3> QED
      BY <3>1, <3>2 DEF TreeInv
  <2>8. CASE UNCHANGED pc /\ typeChain' = [typeChain EXCEPT ![c] = Append(typeChain[c], r)]
    <3>1. IsChain(typeChain[c])
      BY <2>2 DEF TreeInv, TreeShape
    <3>2. IsChain(Append(typeChain[c], r))
          /\ \A i \in DOMAIN Append(typeChain[c], r) :
               \/ Append(typeChain[c], r)[i].id = local'.type_id
               \/ i \in DOMAIN typeChain[c] /\ Append(typeChain[c], r)[i].id = typeChain[c][i].id
      <4> DEFINE s == typeChain[c]
      <4>1. r = [id |-> r.id, topic |-> r.topic, flags |-> r.flags] /\ r.id = local'.type_id
        OBVIOUS
      <4> HIDE DEF r, s
      <4>2. IsChain(s)
        BY <3>1 DEF s
      <4>3. IsChain(Append(s, r)) /\ \A i \in DOMAIN Append(s, r) :
              Append(s, r)[i].id = r.id
              \/ (i \in DOMAIN s /\ Append(s, r)[i].id = s[i].id)
        BY <4>1, <4>2, ChainGrows
      <4> QED
        BY <4>1, <4>3 DEF s
    <3>3. typeChain' = [d \in Classes |-> typeChain'[d]]
          /\ \A d \in Classes :
               typeChain'[d] = IF d = c THEN Append(typeChain[c], r) ELSE typeChain[d]
      BY <2>8 DEF TreeInv, TreeShape
    <3> HIDE DEF c, r
    <3>6. TreeShape'
      <4>1. \A d \in Classes : IsChain(typeChain'[d])
        BY <3>2, <3>3 DEF TreeInv, TreeShape
      <4> QED
        BY <1>1, <2>4, <3>3, <4>1 DEF TreeInv, TreeShape
    <3>7. TreeIsSound'
      <4>1. local'.type_id \in TypesOf[c]
        BY <2>2, <2>4, <2>6 DEF c
      <4>2. \A d \in Classes : \A i \in DOMAIN typeChain'[d] : typeChain'[d][i].id \in TypesOf[d]
        BY <3>2, <3>3, <4>1 DEF TreeInv, TreeIsSound
      <4> QED
        BY <1>1, <4>2 DEF TreeInv, TreeIsSound
    <3>8. ParseInv'
      BY <1>1, <1>2, <1>3, <2>2, <2>4, <2>8 DEF ParseInv
    <3> QED
      BY <3>6, <3>7, <3>8 DEF TreeInv
  <2> QED
    BY <1>6, <2>4, <2>7, <2>8 DEF ParseType, ReadType, DiscoveryEnds, sruRegisterType
<1> QED
  BY <1>5, <1>6

\* An element goes to the class and the type that its message began with.
LEMMA ParseElementStep ==
  ASSUME TreeInv, ParseElement
  PROVE  TreeInv'
<1> DEFINE m == Message
           q == <<local.class_id, local.type_id>>
<1>1. pc = "parseElements" /\ MoreParams /\ Advance("elemGroup")
      /\ UNCHANGED <<buffer, typeChain>> /\ buffer \in DOMAIN Content
  BY DEF ParseElement, tree, ReadElement, Remember, sruRegisterElement, TreeInv, ParseInv, Reading
<1>2. /\ walk.cfin \in DOMAIN m.params /\ Reading("elemGroup")'
      /\ walk'.idx = walk.idx + 1 /\ (walk.idx = 0 => walk.cfin = 1)
      /\ (walk.idx = 1 /\ m.params[1].p # "elemGroup" => walk.cfin = 2)
      /\ walk.idx \in Nat
  BY <1>1, ReadingAdvances DEF TreeInv, ParseInv, Reading
<1>3. Message' = m
  BY <1>1 DEF Message
<1>4. Has(m, "elemGroup") =>
        /\ Says(m, 1, "class") /\ Says(m, 2, "type")
        /\ <<m.params[1].v, m.params[2].v>> \in DOMAIN ElemsOf
        /\ \A i \in DOMAIN m.params :
             m.params[i].p = "elem" => m.params[i].v \in ElemsOf[<<m.params[1].v, m.params[2].v>>]
  BY <1>1, LayoutAssumption DEF Message
<1>5. /\ Has(m, "elemGroup") /\ walk.idx > 0 => local.class_id = m.params[1].v
      /\ Has(m, "elemGroup") /\ walk.idx > 1 => local.type_id = m.params[2].v
  BY <1>1 DEF TreeInv, ParseInv
<1>6. CASE Param.p # "elemGroup"
  <2>1. UNCHANGED <<pc, tree>>
        /\ local' = [f \in DOMAIN local |->
              IF <<Param.p, f>> \in {<<"class", "class_id">>, <<"type", "type_id">>,
                                    <<"topic", "topic">>}
              THEN Param.v ELSE local[f]]
    BY <1>6 DEF ParseElement, Remember
  <2>2. local' = [class_id |-> IF Param.p = "class" THEN Param.v ELSE local.class_id,
                  type_id |-> IF Param.p = "type" THEN Param.v ELSE local.type_id,
                  flags |-> local.flags,
                  topic |-> IF Param.p = "topic" THEN Param.v ELSE local.topic]
    BY <2>1 DEF TreeInv, TreeShape
  <2>3. Has(m, "elemGroup") => local'.class_id = m.params[1].v
    BY <1>2, <1>4, <1>5, <2>2 DEF Says, Param
  <2>4. Has(m, "elemGroup") /\ walk'.idx > 1 => local'.type_id = m.params[2].v
    BY <1>2, <1>4, <1>5, <2>2 DEF Says, Param
  <2>5. ParseInv'
    BY <1>1, <1>2, <1>3, <2>1, <2>3, <2>4 DEF ParseInv
  <2>6. TreeShape' /\ TreeIsSound'
    BY <2>1, <2>2 DEF TreeInv, TreeShape, TreeIsSound, tree
  <2> QED
    BY <2>5, <2>6 DEF TreeInv
<1>7. CASE Param.p = "elemGroup"
  <2>1. Has(m, "elemGroup")
    BY <1>2, <1>7 DEF Has, Param
  <2>2. walk.idx > 1
    <3>1. m.params[1].p # "elemGroup" /\ m.params[2].p # "elemGroup"
      BY <1>4, <2>1 DEF Says
    <3> QED
      BY <1>2, <1>7, <3>1 DEF Param
  <2>3. q = <<m.params[1].v, m.params[2].v>> /\ q \in DOMAIN ElemsOf
    BY <1>2, <1>4, <1>5, <2>1, <2>2
  <2>4. local' = [local EXCEPT !.topic = NoTopic]
    BY <1>7 DEF ParseElement, ReadElement
  <2>5. /\ local'.class_id = local.class_id /\ local'.type_id = local.type_id
        /\ local' = [class_id |-> local'.class_id, type_id |-> local'.type_id,
                     flags |-> local'.flags, topic |-> local'.topic]
    BY <2>4 DEF TreeInv, TreeShape
  <2>6. Groups(m, "elemGroup", "elem")
    BY <1>1, LayoutAssumption DEF Message
  <2>7. Field("elem", None) \in ElemsOf[q]
    BY <1>2, <1>4, <1>7, <2>1, <2>3, <2>6, FieldIsInGroup
  <2>8. CASE UNCHANGED tree /\ pc' = "promptClass"
    <3>1. ParseInv'
      BY <2>8 DEF ParseInv
    <3>2. TreeShape' /\ TreeIsSound'
      BY <2>5, <2>8 DEF TreeInv, TreeShape, TreeIsSound, tree
    <3> QED
      BY <3>1, <3>2 DEF TreeInv
  <2>9. CASE UNCHANGED pc
             /\ elemChain' = [elemChain EXCEPT ![q] = Append(elemChain[q], Field("elem", None))]
    <3> DEFINE e == Field("elem", None)
               s == elemChain[q]
    <3>1. e \in AllElems /\ s \in Seq(AllElems) /\ e \in ElemsOf[q]
      BY <2>3, <2>7 DEF TreeInv, TreeShape, AllElems
    <3>2. /\ elemChain' \in [DOMAIN ElemsOf -> Seq(AllElems)]
          /\ \A d \in DOMAIN ElemsOf : elemChain'[d] = IF d = q THEN Append(s, e) ELSE elemChain[d]
      <4>1. Append(s, e) \in Seq(AllElems)
        BY <3>1
      <4> HIDE DEF e
      <4> QED
        BY <2>3, <2>9, <4>1 DEF TreeInv, TreeShape, e
    <3>3. TreeShape'
      BY <1>1, <2>5, <3>2 DEF TreeInv, TreeShape
    <3>4. TreeIsSound'
      <4>1. \A i \in DOMAIN s : s[i] \in ElemsOf[q]
        BY <2>3 DEF TreeInv, TreeIsSound
      <4>2. \A i \in DOMAIN Append(s, e) : Append(s, e)[i] \in ElemsOf[q]
        BY <3>1, <4>1
      <4> HIDE DEF e, q, s
      <4>3. \A d \in DOMAIN ElemsOf : \A i \in DOMAIN elemChain'[d] : elemChain'[d][i] \in ElemsOf[d]
        BY <3>2, <4>2 DEF TreeInv, TreeIsSound
      <4> QED
        BY <1>1, <4>3 DEF TreeInv, TreeIsSound
    <3>5. ParseInv'
      BY <1>1, <1>2, <1>3, <1>5, <2>2, <2>5, <2>9 DEF ParseInv
    <3> QED
      BY <3>3, <3>4, <3>5 DEF TreeInv
  <2> QED
    BY <1>7, <2>4, <2>8, <2>9 DEF ParseElement, ReadElement, DiscoveryEnds, sruRegisterElement
<1> QED
  BY <1>6, <1>7

\* The topic of a type is replaced.
LEMMA ElementsReadStep ==
  ASSUME TreeInv, ElementsRead
  PROVE  TreeInv'
<1>1. UNCHANGED <<elemChain, buffer, walk, local>>
  BY DEF ElementsRead, parse, tree, sruUpdateType
<1>2. CASE UNCHANGED tree /\ pc' = "promptClass"
  BY <1>1, <1>2, ElsewhereKeepsTree DEF Elsewhere, Parsing, tree
<1>3. CASE Known(local) /\ sruUpdateType(local) /\ pc' = "subElements"
  <2> DEFINE c == local.class_id
             k == FirstType(c, local.type_id)
             s == typeChain[c]
             s2 == WithTopic(s, k, local.topic)
  <2>0. CASE c \notin Classes
    <3>1. UNCHANGED typeChain
      BY <1>3, <2>0 DEF sruUpdateType, TreeInv, TreeShape
    <3> QED
      BY <1>1, <1>3, <3>1, ElsewhereKeepsTree DEF Elsewhere, Parsing
  <2>1. CASE c \in Classes
    <3>1. IsChain(s)
      BY <2>1 DEF TreeInv, TreeShape
    <3>3. /\ typeChain' = [d \in Classes |-> typeChain'[d]]
          /\ \A d \in Classes : typeChain'[d] = IF d = c THEN s2 ELSE typeChain[d]
      BY <1>3, <2>1 DEF TreeInv, TreeShape, sruUpdateType, WithTopic
    <3> HIDE DEF k, s
    <3>5. IsChain(s2) /\ DOMAIN s2 = DOMAIN s /\ \A i \in DOMAIN s2 : s2[i].id = s[i].id
      BY <3>1, ChainIsUpdated
    <3> HIDE DEF s2
    <3>6. \A d \in Classes : IsChain(typeChain'[d])
      BY <3>3, <3>5 DEF TreeInv, TreeShape
    <3>7. \A d \in Classes : \A i \in DOMAIN typeChain'[d] : typeChain'[d][i].id \in TypesOf[d]
      BY <3>3, <3>5 DEF TreeInv, TreeIsSound, s
    <3>8. TreeShape'
      BY <1>1, <3>3, <3>6 DEF TreeInv, TreeShape
    <3>9. TreeIsSound'
      BY <1>1, <3>7 DEF TreeInv, TreeIsSound
    <3>10. ParseInv'
      BY <1>3 DEF ParseInv
    <3> QED
      BY <3>8, <3>9, <3>10 DEF TreeInv
  <2> QED
    BY <2>0, <2>1
<1> QED
  BY <1>2, <1>3 DEF ElementsRead, DiscoveryEnds

\* These steps are of that kind.
LEMMA StepsElsewhere ==
  ASSUME \/ Start \/ Subscriptions \/ Publications \/ UNCHANGED vars
         \/ \E top \in DOMAIN Content : Publish(top) \/ PublishData(top)
  PROVE  Elsewhere
<1> USE DEF Elsewhere, Parsing, tree, parse
<1>1. CASE Start
  BY <1>1 DEF Start, ParseOption, BadOption, OptionsParsed, MQCONN, QueryQMName, OpenQueue, Exit
<1>2. CASE SubscribeType
  BY <1>2 DEF SubscribeType, SubscribeData, Exit
<1>3. CASE Subscriptions /\ ~SubscribeType
  BY <1>3 DEF Subscriptions, PromptForClass, PromptForType, NotRecognised, ClassSubscribed,
     AllSubscribed, Exit
<1>4. CASE Publications
  BY <1>4 DEF Publications, PrintPublication, GetFails, EnoughPrinted, MQDISC, Exit
<1>5. CASE \E top \in DOMAIN Content : Publish(top) \/ PublishData(top)
  BY <1>5 DEF Publish, PublishData
<1>6. CASE UNCHANGED vars
  BY <1>6 DEF vars
<1> QED
  BY <1>1, <1>2, <1>3, <1>4, <1>5, <1>6

LEMMA DiscoveryElsewhere ==
  ASSUME \/ SubClasses \/ LanguageMissing \/ SubDefault \/ CloseClasses \/ ParseClass
         \/ ClassesRead \/ SubTypes \/ TypesRead \/ TypesDone \/ SubElements
         \/ NextClass \/ ElementsDone
  PROVE  Elsewhere
<1> USE DEF Elsewhere, Parsing, tree, parse
<1>1. CASE SubClasses \/ SubDefault \/ SubTypes \/ SubElements
  BY <1>1 DEF SubClasses, SubDefault, SubTypes, SubElements, Subscribe, DiscoveryEnds, Exit
<1>2. CASE CloseClasses
  BY <1>2 DEF CloseClasses, CloseSubscription, DiscoveryEnds, Exit
<1>3. CASE ParseClass
  BY <1>3 DEF ParseClass, sruRegisterClass
<1>4. CASE LanguageMissing \/ ClassesRead \/ TypesRead \/ TypesDone \/ NextClass \/ ElementsDone
  BY <1>4 DEF LanguageMissing, ClassesRead, TypesRead, TypesDone, NextClass, ElementsDone,
     DiscoveryEnds, Exit
<1> QED
  BY <1>1, <1>2, <1>3, <1>4

LEMMA QueueAndTree == Spec => [](QueueInv /\ TreeInv)
<1>1. Init => QueueInv /\ TreeInv
  <2> SUFFICES ASSUME Init
               PROVE  QueueInv /\ TreeInv
    OBVIOUS
  <2>1. QueueInv
    BY TopicAssumption DEF Init, QueueInv
  <2>2. \A c \in Classes : IsChain(typeChain[c])
    BY DEF Init, IsChain
  <2>3. TreeShape
    BY <2>2 DEF Init, TreeShape
  <2>4. TreeIsSound /\ ParseInv
    BY DEF Init, TreeIsSound, ParseInv
  <2> QED
    BY <2>1, <2>3, <2>4 DEF TreeInv
<1>2. QueueInv /\ TreeInv /\ [Next]_vars => (QueueInv /\ TreeInv)'
  <2> SUFFICES ASSUME QueueInv, TreeInv, [Next]_vars
               PROVE  QueueInv' /\ TreeInv'
    OBVIOUS
  <2>1. QueueInv'
    BY NextIsQueueStep, QueueStepKeepsQueue
  <2> SUFFICES TreeInv'
    BY <2>1
  <2>2. CASE Elsewhere
    BY <2>2, ElsewhereKeepsTree
  <2>3. CASE GetClasses \/ GetDefault \/ GetTypes \/ GetElements
    <3>1. \E final : \E next \in {"closeClasses", "closeTypes", "closeElements"} :
            Receive(next, final)
      BY <2>3 DEF GetClasses, GetDefault, GetTypes, GetElements
    <3> QED
      BY <3>1, ReceiveSteps
  <2>4. CASE CloseTypes \/ CloseElements
    <3>1. \E next \in {"parseTypes", "parseElements"} :
            CloseSubscription(next) /\ pc \in {"closeTypes", "closeElements"}
      BY <2>4 DEF CloseTypes, CloseElements
    <3> QED
      BY <3>1, CloseSteps
  <2>5. CASE ParseType \/ ParseElement \/ ElementsRead
    BY <2>5, ParseTypeStep, ParseElementStep, ElementsReadStep
  <2> QED
    BY <2>2, <2>3, <2>4, <2>5, NextCases, StepsElsewhere, DiscoveryElsewhere
       DEF DiscoverClasses, DiscoverTypes, DiscoverElements
<1> QED
  BY <1>1, <1>2, PTL DEF Spec

\* The types known of a class are its own, and the elements those of the type, although
\* answers to earlier questions may be read as the answer to the present one.
THEOREM TreeStaysSound == Spec => []TreeIsSound
<1>1. TreeInv => TreeIsSound
  BY DEF TreeInv
<1> QED
  BY <1>1, QueueAndTree, PTL
=============================================================================
