---------------------- MODULE ResourceUsageTypeProofs ----------------------
(* Proofs about ResourceUsage: the types of its variables. *)
EXTENDS ResourceUsageProofs

-----------------------------------------------------------------------------
(* Types *)

ClassNames == [0..MaxClassCount - 1 -> Names]
ClassCounts == [0..MaxClassCount - 1 -> Nat]
TypeNames == [0..MaxTypeCount - 1 -> Names]
InputType ==
  [ClassCount : 0..MaxClassCount, TypeCount : 0..MaxTypeCount, MaxGets : Int,
   Class : ClassNames, ClassTypeCount : ClassCounts, ClassObjName : ClassNames,
   Type : TypeNames, TypeObjName : TypeNames]

CommandInv ==
  /\ command \in Commands
  /\ count \in 1..Len(command) + 1

\* The subscription loop starts when the classes it goes through are known.
InputInv ==
  /\ input \in InputType
  /\ want = [idx1 |-> want.idx1, idx2 |-> want.idx2, idx3 |-> want.idx3, pObjName |-> want.pObjName]
  /\ want.idx1 \in Nat /\ want.idx2 \in Nat /\ want.idx3 \in Nat
  /\ want.idx1 <= input.ClassCount
  /\ pc \notin {"subscribe", "loop", "disconnect", "ended"} => want.idx1 = 0

\* The classes come from messages read to the end of each group, and the loop that asks for
\* their types is at one of them.
ClassInv ==
  /\ \E T : ClassChain \in Seq([id : Classes, topic : T])
  /\ at \in [class : 1..Len(ClassChain) + 1, type : Nat]
  /\ pc \in {"getTypes", "closeTypes", "parseTypes"} => at.class <= Len(ClassChain)
  /\ pc = "closeClasses" => buffer \in DOMAIN Content /\ walk = [idx |-> 0, cfin |-> 1]
  /\ pc = "parseClasses" => Reading("classGroup")

CountInv ==
  /\ faults \in 0..MaxFaults /\ published \in 0..MaxPublish
  /\ GetCount = Len(printed) /\ \E S : printed \in Seq(S)

TypeInv == CommandInv /\ InputInv /\ ClassInv /\ CountInv

LEMMA TypeInvImpliesTypeOK ==
  ASSUME TypeInv, TreeInv
  PROVE  TypeOK
<1>1. PICK T : ClassChain \in Seq([id : Classes, topic : T])
  BY DEF TypeInv, ClassInv
<1>2. \A i \in DOMAIN ClassChain : ClassChain[i].id \in Classes
  <2> TAKE i \in DOMAIN ClassChain
  <2> DEFINE R == [id : Classes, topic : T]
  <2>0. ClassChain \in Seq(R)
    BY <1>1
  <2>1. ClassChain[i] \in R
    <3> HIDE DEF R
    <3> QED
      BY <2>0
  <2> QED
    BY <2>1
<1>3. /\ input.ClassCount \in 0..MaxClassCount /\ input.TypeCount \in 0..MaxTypeCount
      /\ input.Class \in [0..MaxClassCount - 1 -> Names]
      /\ input.ClassTypeCount \in [0..MaxClassCount - 1 -> Nat]
      /\ input.ClassObjName \in [0..MaxClassCount - 1 -> Names]
      /\ input.Type \in [0..MaxTypeCount - 1 -> Names]
      /\ input.TypeObjName \in [0..MaxTypeCount - 1 -> Names]
  BY DEF TypeInv, InputInv, InputType, ClassNames, ClassCounts, TypeNames
<1>4. DOMAIN typeChain = Classes /\ DOMAIN elemChain = DOMAIN ElemsOf
  BY DEF TreeInv, TreeShape
<1>5. at.class \in 1..Len(ClassChain) + 1
  BY DEF TypeInv, ClassInv
<1>6. want.idx1 \in 0..input.ClassCount
  BY <1>3 DEF TypeInv, InputInv
<1> QED
  BY <1>2, <1>3, <1>4, <1>5, <1>6 DEF TypeInv, CommandInv, CountInv, TypeOK

LEMMA CommandIsSequence ==
  ASSUME CommandInv
  PROVE  /\ \E S : command \in Seq(S)
         /\ Len(command) \in Nat /\ DOMAIN command = 1..Len(command)
         /\ \A i \in DOMAIN command :
              /\ command[i].opt \in {"-c", "-t"} => command[i].arg \in Names \ {None}
              /\ command[i].opt = "-o" => command[i].arg \in Objects
              /\ command[i].opt = "-n" => command[i].arg \in Int
<1>1. command \in Seq({command[i] : i \in DOMAIN command})
  BY CommandAssumption DEF CommandInv
<1> QED
  BY <1>1, CommandAssumption DEF CommandInv

\* Which steps change what; the others leave it alone.
LEMMA Frame ==
  ASSUME [Next]_vars
  PROVE  /\ UNCHANGED <<command, nls>>
         /\ UNCHANGED count \/ ParseOption
         /\ UNCHANGED input \/ ParseOption \/ PromptForClass \/ PromptForType
         /\ UNCHANGED want \/ SubscribeType \/ ClassSubscribed
         /\ UNCHANGED ClassChain \/ ParseClass
         /\ UNCHANGED at \/ TypesRead \/ TypesDone \/ NextClass \/ ElementsRead
         /\ UNCHANGED <<GetCount, printed>> \/ PrintPublication
<1>1. CASE Start
  BY <1>1 DEF Start, ParseOption, BadOption, OptionsParsed, MQCONN, QueryQMName, OpenQueue,
     options, tree, result
<1>2. CASE DiscoverClasses
  BY <1>2 DEF DiscoverClasses, SubClasses, GetClasses, LanguageMissing, SubDefault, GetDefault,
     CloseClasses, ParseClass, ClassesRead, Subscribe, Receive, CloseSubscription, options,
     tree, result
<1>3. CASE DiscoverTypes
  BY <1>3 DEF DiscoverTypes, SubTypes, GetTypes, CloseTypes, ParseType, TypesRead, TypesDone,
     Subscribe, Receive, CloseSubscription, Remember, ReadType, sruRegisterType, options, tree,
     result
<1>4. CASE DiscoverElements
  BY <1>4 DEF DiscoverElements, SubElements, GetElements, CloseElements, ParseElement,
     ElementsRead, NextClass, ElementsDone, Subscribe, Receive, CloseSubscription, Remember,
     ReadElement, sruRegisterElement, sruUpdateType, options, tree, result
<1>5. CASE Subscriptions
  BY <1>5 DEF Subscriptions, PromptForClass, PromptForType, SubscribeType, NotRecognised,
     ClassSubscribed, AllSubscribed, options, tree, result
<1>6. CASE Publications
  BY <1>6 DEF Publications, PrintPublication, GetFails, EnoughPrinted, MQDISC, options, tree,
     result
<1>7. CASE UNCHANGED vars
  BY <1>7 DEF vars, options, tree, result
<1>8. CASE \E top \in DOMAIN Content : Publish(top) \/ PublishData(top)
  BY <1>8 DEF Publish, PublishData, options, tree, result
<1> QED
  BY NextCases, <1>1, <1>2, <1>3, <1>4, <1>5, <1>6, <1>7, <1>8

\* Once the subscription loop is reached there is no way back.
Late == {"subscribe", "loop", "disconnect", "ended"}
LEMMA LateStaysLate ==
  ASSUME [Next]_vars, pc \in Late
  PROVE  pc' \in Late
<1> USE DEF Late
<1>1. CASE Start
  BY <1>1 DEF Start, ParseOption, BadOption, OptionsParsed, MQCONN, QueryQMName, OpenQueue
<1>2. CASE DiscoverClasses \/ DiscoverTypes \/ DiscoverElements
  BY <1>2 DEF DiscoverClasses, SubClasses, GetClasses, LanguageMissing, SubDefault, GetDefault,
     CloseClasses, ParseClass, ClassesRead, DiscoverTypes, SubTypes, GetTypes, CloseTypes,
     ParseType, TypesRead, TypesDone, DiscoverElements, SubElements, GetElements,
     CloseElements, ParseElement, ElementsRead, NextClass, ElementsDone
<1>3. CASE SubscribeType
  BY <1>3 DEF SubscribeType, SubscribeData, Exit
<1>4. CASE Subscriptions /\ ~SubscribeType
  BY <1>4 DEF Subscriptions, PromptForClass, PromptForType, NotRecognised, ClassSubscribed,
     AllSubscribed, Exit
<1>5. CASE Publications
  BY <1>5 DEF Publications, PrintPublication, GetFails, EnoughPrinted, MQDISC, Exit
<1>6. CASE UNCHANGED vars \/ \E top \in DOMAIN Content : Publish(top) \/ PublishData(top)
  BY <1>6 DEF vars, Publish, PublishData
<1> QED
  BY NextCases, <1>1, <1>2, <1>3, <1>4, <1>5, <1>6

LEMMA CommandStep ==
  ASSUME CommandInv, [Next]_vars
  PROVE  CommandInv'
BY Frame, CommandIsSequence DEF CommandInv, ParseOption

\* The fields of a record of options are replaced, an array together with its counter.
InputRecords(C, T) ==
  [ClassCount : C, TypeCount : T, MaxGets : Int,
   Class : ClassNames, ClassTypeCount : ClassCounts, ClassObjName : ClassNames,
   Type : TypeNames, TypeObjName : TypeNames]
LEMMA FieldsAreReplaced ==
  ASSUME NEW C, NEW T, NEW r \in InputRecords(C, T)
  PROVE  /\ \A d \in ClassNames, a \in C :
              [r EXCEPT !.Class = d, !.ClassCount = a] \in InputRecords(C, T)
         /\ \A g \in TypeNames, b \in T :
              [r EXCEPT !.Type = g, !.TypeCount = b] \in InputRecords(C, T)
         /\ \A e \in ClassCounts : [r EXCEPT !.ClassTypeCount = e] \in InputRecords(C, T)
         /\ \A h \in TypeNames : [r EXCEPT !.TypeObjName = h] \in InputRecords(C, T)
         /\ \A f \in ClassNames : [r EXCEPT !.ClassObjName = f] \in InputRecords(C, T)
         /\ \A k \in Int : [r EXCEPT !.MaxGets = k] \in InputRecords(C, T)
BY DEF InputRecords

LEMMA CountsGrow ==
  ASSUME NEW D, NEW f \in [D -> Nat], NEW x
  PROVE  [f EXCEPT ![x] = f[x] + 1] \in [D -> Nat]
<1>1. ASSUME NEW y \in D
      PROVE  [f EXCEPT ![x] = f[x] + 1][y] \in Nat
  BY <1>1
<1> QED
  BY <1>1

\* What an option or an answer adds fits into the arrays.
LEMMA InputGrows ==
  ASSUME input \in InputType
  PROVE  /\ \A name \in Names : SetClass(name) \in InputType
         /\ \A name \in Names : SetType(name) \in InputType
         /\ \A name \in Names : SetObject(name) \in InputType
         /\ \A n \in Int : [input EXCEPT !.MaxGets = n] \in InputType
         /\ \A name \in Names : input.TypeCount = 0 => AddType(name) \in InputType
<1> DEFINE c == input.ClassCount
           n == input.TypeCount
<1>0. /\ c \in 0..MaxClassCount /\ n \in 0..MaxTypeCount /\ input.MaxGets \in Int
      /\ input.Class \in ClassNames /\ input.ClassTypeCount \in ClassCounts
      /\ input.ClassObjName \in ClassNames
      /\ input.Type \in TypeNames /\ input.TypeObjName \in TypeNames
  BY DEF InputType
<1>i. InputType = InputRecords(0..MaxClassCount, 0..MaxTypeCount)
  BY DEF InputType, InputRecords
<1>c. \A r \in InputType :
        /\ \A d \in ClassNames, a \in 0..MaxClassCount :
             [r EXCEPT !.Class = d, !.ClassCount = a] \in InputType
        /\ \A g \in TypeNames, b \in 0..MaxTypeCount :
             [r EXCEPT !.Type = g, !.TypeCount = b] \in InputType
        /\ \A e \in ClassCounts : [r EXCEPT !.ClassTypeCount = e] \in InputType
        /\ \A h \in TypeNames : [r EXCEPT !.TypeObjName = h] \in InputType
        /\ \A f \in ClassNames : [r EXCEPT !.ClassObjName = f] \in InputType
        /\ \A k \in Int : [r EXCEPT !.MaxGets = k] \in InputType
  BY <1>i, FieldsAreReplaced, Zenon
<1>b. /\ c < MaxClassCount => c + 1 \in 0..MaxClassCount
      /\ n < MaxTypeCount => n + 1 \in 0..MaxTypeCount
  BY <1>0, BoundsAssumption
<1>1. ASSUME NEW name \in Names
      PROVE  SetClass(name) \in InputType
  <2>1. [input.Class EXCEPT ![c] = name] \in ClassNames
    BY <1>0 DEF ClassNames
  <2>2. SetClass(name) = IF c < MaxClassCount
          THEN [input EXCEPT !.Class = [input.Class EXCEPT ![c] = name], !.ClassCount = c + 1]
          ELSE input
    BY DEF SetClass, InputType
  <2>3. [input EXCEPT !.Class = [input.Class EXCEPT ![c] = name], !.ClassCount = c + 1]
          \in InputType \/ ~(c < MaxClassCount)
    <3> HIDE DEF c
    <3> QED
      BY <1>0, <1>c, <1>b, <2>1
  <2> QED
    BY <2>2, <2>3
<1>2. ASSUME NEW name \in Names
      PROVE  SetType(name) \in InputType
  <2> DEFINE stored == IF n < MaxTypeCount
                       THEN [input EXCEPT !.Type = [input.Type EXCEPT ![n] = name],
                                          !.TypeCount = n + 1]
                       ELSE input
  <2>1. [input.Type EXCEPT ![n] = name] \in TypeNames
    BY <1>0 DEF TypeNames
  <2>2. stored \in InputType
    <3> HIDE DEF n
    <3> QED
      BY <1>0, <1>c, <1>b, <2>1
  <2>3. [stored.ClassTypeCount EXCEPT ![c - 1] = stored.ClassTypeCount[c - 1] + 1] \in ClassCounts
    <3>1. stored.ClassTypeCount \in ClassCounts
      BY <2>2 DEF InputType
    <3> HIDE DEF stored, c
    <3> QED
      BY <3>1, CountsGrow DEF ClassCounts
  <2>4. SetType(name) = IF c = 0 THEN stored
          ELSE [stored EXCEPT !.ClassTypeCount = [stored.ClassTypeCount EXCEPT ![c - 1] = @ + 1]]
    BY <2>2 DEF SetType, InputType
  <2> HIDE DEF stored, c
  <2> DEFINE counts == [stored.ClassTypeCount EXCEPT ![c - 1] = stored.ClassTypeCount[c - 1] + 1]
  <2>5. [stored EXCEPT !.ClassTypeCount = counts] \in InputType
    <3> HIDE DEF counts, n
    <3>1. counts \in ClassCounts
      BY <2>3 DEF counts
    <3> QED
      BY <1>c, <2>2, <3>1
  <2> QED
    BY <2>2, <2>4, <2>5
<1>3. ASSUME NEW name \in Names
      PROVE  SetObject(name) \in InputType
  <2>1. [input.TypeObjName EXCEPT ![n - 1] = name] \in TypeNames
    BY <1>0 DEF TypeNames
  <2> DEFINE typed == IF n = 0 THEN input
                      ELSE [input EXCEPT !.TypeObjName = [input.TypeObjName EXCEPT ![n - 1] = name]]
  <2>2. typed \in InputType
    <3> HIDE DEF n
    <3> QED
      BY <1>0, <1>c, <2>1
  <2>3. [typed.ClassObjName EXCEPT ![c - 1] = name] \in ClassNames
    BY <2>2 DEF ClassNames, InputType
  <2>4. SetObject(name) \in
          {typed, [typed EXCEPT !.ClassObjName = [typed.ClassObjName EXCEPT ![c - 1] = name]]}
    BY <2>2 DEF SetObject, InputType
  <2> HIDE DEF typed, c
  <2> DEFINE names == [typed.ClassObjName EXCEPT ![c - 1] = name]
  <2>5. [typed EXCEPT !.ClassObjName = names] \in InputType
    <3> HIDE DEF names, n
    <3>1. names \in ClassNames
      BY <2>3 DEF names
    <3> QED
      BY <1>c, <2>2, <3>1
  <2> QED
    BY <2>2, <2>4, <2>5
<1>4. ASSUME NEW k \in Int
      PROVE  [input EXCEPT !.MaxGets = k] \in InputType
  BY <1>0, <1>c, <1>4
<1>5. ASSUME NEW name \in Names, input.TypeCount = 0
      PROVE  AddType(name) \in InputType
  <2> DEFINE counts == [input.ClassTypeCount EXCEPT ![c - 1] = @ + 1]
             names == [input.Type EXCEPT ![c - 1] = name]
             total == n + 1
             stored == [input EXCEPT !.Type = names, !.TypeCount = total]
  <2>1. AddType(name) = [stored EXCEPT !.ClassTypeCount = counts]
    BY DEF AddType, InputType
  <2>2. names \in TypeNames
    BY <1>0 DEF TypeNames
  <2>3. counts \in ClassCounts
    BY <1>0, CountsGrow DEF ClassCounts
  <2>4. total \in 0..MaxTypeCount
    BY <1>5, BoundsAssumption
  <2> HIDE DEF counts, names, total
  <2>5. stored \in InputType
    BY <1>c, <2>2, <2>4
  <2> HIDE DEF stored
  <2> QED
    BY <1>c, <2>1, <2>3, <2>5
<1> QED
  BY <1>1, <1>2, <1>3, <1>4, <1>5

LEMMA InputStep ==
  ASSUME CommandInv, InputInv, [Next]_vars
  PROVE  InputInv'
<1>0. /\ want = [idx1 |-> want.idx1, idx2 |-> want.idx2, idx3 |-> want.idx3,
                pObjName |-> want.pObjName]
      /\ want.idx1 \in Nat /\ want.idx2 \in Nat /\ want.idx3 \in Nat
  BY DEF InputInv
<1>1. input' \in InputType
  <2>1. CASE ParseOption
    <3> DEFINE o == command[count]
    <3>1. /\ count \in DOMAIN command
          /\ \/ o.opt = "-c" /\ input' = SetClass(o.arg)
             \/ o.opt = "-t" /\ input' = SetType(o.arg)
             \/ o.opt = "-o" /\ input' = SetObject(o.arg)
             \/ o.opt = "-n" /\ input' = [input EXCEPT !.MaxGets = o.arg]
             \/ input' = input
      BY <2>1, CommandIsSequence DEF ParseOption, CommandInv, Refused, OtherOptions
    <3>2. /\ o.opt \in {"-c", "-t", "-o"} => o.arg \in Names
          /\ o.opt = "-n" => o.arg \in Int
      BY <3>1, CommandIsSequence DEF Names
    <3> HIDE DEF o
    <3> QED
      BY <3>1, <3>2, InputGrows DEF InputInv
  <2>2. CASE PromptForClass \/ PromptForType
    BY <2>2, InputGrows DEF InputInv, PromptForClass, PromptForType
  <2> QED
    BY <2>1, <2>2, Frame DEF InputInv
<1>2. /\ want' = [idx1 |-> want'.idx1, idx2 |-> want'.idx2, idx3 |-> want'.idx3,
                  pObjName |-> want'.pObjName]
      /\ want'.idx1 \in Nat /\ want'.idx2 \in Nat /\ want'.idx3 \in Nat
      /\ \/ want'.idx1 = want.idx1
         \/ pc = "subscribe" /\ want'.idx1 = want.idx1 + 1 /\ want.idx1 < input.ClassCount
  <2>1. CASE UNCHANGED want
    BY <1>0, <2>1
  <2>2. CASE SubscribeType
    <3>1. want' = want
          \/ \E obj : want' = [want EXCEPT !.idx2 = @ + 1, !.idx3 = @ + 1, !.pObjName = obj]
      BY <2>2 DEF SubscribeType, SubscribeData
    <3>2. CASE want' = want
      BY <1>0, <3>2
    <3>3. ASSUME NEW obj, want' = [want EXCEPT !.idx2 = @ + 1, !.idx3 = @ + 1, !.pObjName = obj]
          PROVE  want' = [idx1 |-> want.idx1, idx2 |-> want.idx2 + 1, idx3 |-> want.idx3 + 1,
                          pObjName |-> obj]
      BY <1>0, <3>3
    <3>4. want.idx1 \in Nat /\ want.idx2 + 1 \in Nat /\ want.idx3 + 1 \in Nat
      BY <1>0
    <3> QED
      BY <3>1, <3>2, <3>3, <3>4
  <2>3. CASE ClassSubscribed
    <3>1. want' = [idx1 |-> want.idx1 + 1, idx2 |-> 0, idx3 |-> want.idx3,
                   pObjName |-> want.pObjName]
          /\ pc = "subscribe" /\ want.idx1 < input.ClassCount
      BY <1>0, <2>3 DEF ClassSubscribed
    <3>2. want.idx1 + 1 \in Nat /\ want.idx3 \in Nat
      BY <1>0
    <3> QED
      BY <3>1, <3>2
  <2> QED
    BY <2>1, <2>2, <2>3, Frame
<1>3. CASE pc \notin Late
  <2>1. want'.idx1 = 0
    BY <1>2, <1>3 DEF InputInv, Late
  <2> QED
    BY <1>1, <1>2, <2>1 DEF InputInv, InputType
<1>4. CASE pc \in Late
  <2>1. pc' \in Late
    BY <1>4, LateStaysLate
  <2>2. input' = input
    BY <1>4, Frame DEF Late, ParseOption, PromptForClass, PromptForType
  <2>3. want'.idx1 <= input'.ClassCount
    <3>1. want.idx1 \in Nat /\ input.ClassCount \in Int /\ want.idx1 <= input.ClassCount
      BY DEF InputInv, InputType
    <3> QED
      BY <1>2, <2>2, <3>1
  <2> QED
    BY <1>1, <1>2, <2>1, <2>3 DEF InputInv, Late
<1> QED
  BY <1>3, <1>4

LEMMA FaultsAreCounted ==
  ASSUME [Next]_vars
  PROVE  \/ UNCHANGED faults /\ UNCHANGED published
         \/ faults < MaxFaults /\ faults' = faults + 1 /\ UNCHANGED published
         \/ \E top \in DOMAIN Content : Publish(top)
<1>1. CASE Start
  BY <1>1 DEF Start, ParseOption, BadOption, OptionsParsed, MQCONN, QueryQMName, OpenQueue,
     Works, Fails, qmgr
<1>2. CASE DiscoverClasses
  BY <1>2 DEF DiscoverClasses, SubClasses, GetClasses, LanguageMissing, SubDefault, GetDefault,
     CloseClasses, ParseClass, ClassesRead, Subscribe, Receive, CloseSubscription, MQSUB, MQGET,
     MQCLOSE, NothingCame, Fails, qmgr
<1>3. CASE DiscoverTypes
  BY <1>3 DEF DiscoverTypes, SubTypes, GetTypes, CloseTypes, ParseType, TypesRead, TypesDone,
     Subscribe, Receive, CloseSubscription, MQSUB, MQGET, MQCLOSE, NothingCame, Fails, qmgr
<1>4. CASE DiscoverElements
  BY <1>4 DEF DiscoverElements, SubElements, GetElements, CloseElements, ParseElement,
     ElementsRead, NextClass, ElementsDone, Subscribe, Receive, CloseSubscription, MQSUB, MQGET,
     MQCLOSE, NothingCame, Fails, qmgr
<1>5. CASE SubscribeType
  <2>1. PICK top, obj : SubscribeData(top, obj)
    BY <1>5 DEF SubscribeType
  <2> QED
    BY <2>1 DEF SubscribeData, MQSUB, Fails
<1>6. CASE Subscriptions /\ ~SubscribeType
  BY <1>6 DEF Subscriptions, PromptForClass, PromptForType, NotRecognised, ClassSubscribed,
     AllSubscribed, qmgr
<1>7. CASE Publications
  BY <1>7 DEF Publications, PrintPublication, GetFails, EnoughPrinted, MQDISC, Works, Fails,
     NothingCame, qmgr
<1>8. CASE UNCHANGED vars
  BY <1>8 DEF vars, qmgr
<1>9. CASE \E top \in DOMAIN Content : Publish(top) \/ PublishData(top)
  BY <1>9 DEF Publish, PublishData
<1> QED
  BY NextCases, <1>1, <1>2, <1>3, <1>4, <1>5, <1>6, <1>7, <1>8, <1>9

LEMMA CountStep ==
  ASSUME CountInv, [Next]_vars
  PROVE  CountInv'
<1>1. faults' \in 0..MaxFaults /\ published' \in 0..MaxPublish
  <2>1. CASE UNCHANGED faults /\ UNCHANGED published
    BY <2>1 DEF CountInv
  <2>2. CASE faults < MaxFaults /\ faults' = faults + 1 /\ UNCHANGED published
    BY <2>2, BoundsAssumption DEF CountInv
  <2>3. CASE \E top \in DOMAIN Content : Publish(top)
    BY <2>3, BoundsAssumption DEF Publish, CountInv
  <2> QED
    BY <2>1, <2>2, <2>3, FaultsAreCounted
<1>2. GetCount' = Len(printed') /\ \E S : printed' \in Seq(S)
  <2>1. PICK S : printed \in Seq(S)
    BY DEF CountInv
  <2>2. CASE PrintPublication /\ ~UNCHANGED <<GetCount, printed>>
    <3> DEFINE r == [topic |-> Head(tdq), values |-> sruFormatMessage(Content[Head(tdq)])]
    <3>1. GetCount' = GetCount + 1 /\ printed' = Append(printed, r)
      BY <2>2 DEF PrintPublication
    <3> HIDE DEF r
    <3>2. printed \in Seq(S \cup {r})
      BY <2>1
    <3>3. printed' \in Seq(S \cup {r}) /\ Len(printed') = Len(printed) + 1
      BY <3>1, <3>2
    <3> QED
      BY <3>1, <3>3 DEF CountInv
  <2> QED
    BY <2>1, <2>2, Frame DEF CountInv
<1> QED
  BY <1>1, <1>2 DEF CountInv

\* A class of the message joins the chain.
LEMMA ClassesAreRead ==
  ASSUME TreeShape, ClassInv, ParseClass
  PROVE  /\ \E T : ClassChain' \in Seq([id : Classes, topic : T])
         /\ Len(ClassChain) <= Len(ClassChain') /\ Reading("classGroup")'
<1>1. PICK T : ClassChain \in Seq([id : Classes, topic : T])
  BY DEF ClassInv
<1>2. Reading("classGroup") /\ MoreParams /\ Advance("classGroup") /\ UNCHANGED buffer
  BY DEF ParseClass, ClassInv
<1>3. walk.cfin \in DOMAIN Message.params /\ Reading("classGroup")'
  BY <1>2, ReadingAdvances
<1>4. CASE Param.p # "classGroup"
  <2>1. ClassChain' = ClassChain
    BY <1>4 DEF ParseClass, tree
  <2>2. Len(ClassChain) \in Nat
    BY <1>1
  <2>3. \E S : ClassChain \in Seq([id : Classes, topic : S])
    BY <1>1, Zenon
  <2>4. Len(ClassChain) <= Len(ClassChain')
    BY <2>1, <2>2
  <2> QED
    BY <1>3, <2>1, <2>3, <2>4, Zenon
<1>5. CASE Param.p = "classGroup"
  <2> DEFINE r == [id |-> local'.class_id, topic |-> local'.topic]
             S == [id : Classes, topic : T \cup {local'.topic}]
  <2>1. ClassChain' = Append(ClassChain, r)
    BY <1>5 DEF ParseClass, sruRegisterClass
  <2>2. local'.class_id = Field("class", local.class_id)
    BY <1>5 DEF ParseClass, TreeShape
  <2>3. buffer \in DOMAIN Content
    BY <1>2 DEF Reading
  <2>4. Groups(Message, "classGroup", "class") /\ Has(Message, "classGroup")
    BY <1>3, <1>5, <2>3, LayoutAssumption DEF Message, Has, Param
  <2>5. PICK j \in DOMAIN Message.params :
          Message.params[j].p = "class" /\ Field("class", local.class_id) = Message.params[j].v
    BY <1>3, <1>5, <2>4, FieldIsInGroup
  <2>6. Message.params[j].v \in Classes
    BY <2>3, <2>4, <2>5, LayoutAssumption DEF Message
  <2>7. r \in S
    BY <2>2, <2>5, <2>6
  <2>8. ClassChain \in Seq(S)
    <3> DEFINE R == [id : Classes, topic : T]
    <3>1. R \subseteq S
      OBVIOUS
    <3>2. ClassChain \in Seq(R)
      BY <1>1
    <3> HIDE DEF R, S
    <3> QED
      BY <3>1, <3>2
  <2> HIDE DEF r, S
  <2>9. ClassChain' \in Seq(S) /\ Len(ClassChain') = Len(ClassChain) + 1
    BY <2>1, <2>7, <2>8
  <2>10. Len(ClassChain) \in Nat
    BY <2>8
  <2>11. Len(ClassChain) <= Len(ClassChain')
    BY <2>9, <2>10
  <2>12. ClassChain' \in Seq([id : Classes, topic : T \cup {local'.topic}])
    BY <2>9 DEF S
  <2> QED
    BY <1>3, <2>11, <2>12
<1> QED
  BY <1>4, <1>5

LEMMA ClassStep ==
  ASSUME QueueInv, TreeInv, ClassInv, [Next]_vars
  PROVE  ClassInv'
<1> DEFINE asking == {"getTypes", "closeTypes", "parseTypes"}
<1>0. Len(ClassChain) \in Nat
  <2>1. \E T : ClassChain \in Seq([id : Classes, topic : T])
    BY DEF ClassInv
  <2> QED
    BY <2>1
<1>1. CASE UNCHANGED <<ClassChain, at, buffer, walk>> /\ (UNCHANGED pc
           \/ pc' \notin asking \cup {"closeClasses", "parseClasses"})
  BY <1>1 DEF ClassInv, Reading, Message
<1>2. CASE ParseClass
  <2>1. /\ \E T : ClassChain' \in Seq([id : Classes, topic : T])
        /\ Len(ClassChain) <= Len(ClassChain') /\ Reading("classGroup")'
        /\ UNCHANGED <<pc, at>> /\ pc = "parseClasses"
    BY <1>2, ClassesAreRead DEF TreeInv, ParseClass
  <2>2. Len(ClassChain') \in Nat
    BY <2>1
  <2>3. at' \in [class : 1..Len(ClassChain') + 1, type : Nat]
    <3>1. at.class \in 1..Len(ClassChain') + 1 /\ at.type \in Nat
          /\ at = [class |-> at.class, type |-> at.type]
      BY <1>0, <2>1, <2>2 DEF ClassInv
    <3> QED
      BY <2>1, <3>1
  <2> QED
    BY <2>1, <2>3 DEF ClassInv
<1>3. CASE CloseClasses \/ CloseTypes
  <2>1. UNCHANGED <<ClassChain, at, buffer, walk>>
    BY <1>3 DEF CloseClasses, CloseTypes, CloseSubscription, tree, parse
  <2>2. CASE pc = "closeClasses" /\ pc' = "parseClasses"
    <3>1. buffer \in DOMAIN Content /\ walk.idx = 0 /\ walk.cfin = 1
      BY <2>2 DEF ClassInv
    <3>2. /\ Message.count \in Nat
          /\ \E pos \in [0..Message.count -> 1..Len(Message.params) + 1] :
               IsWalk(Message, "classGroup", pos)
      BY <3>1, WalkAssumption DEF Message, GroupKinds
    <3>3. Reading("classGroup")
      <4>1. PICK pos \in [0..Message.count -> 1..Len(Message.params) + 1] :
              IsWalk(Message, "classGroup", pos)
        BY <3>2
      <4>2. pos[walk.idx] = walk.cfin /\ walk.idx \in 0..Message.count
        BY <3>1, <3>2, <4>1 DEF IsWalk
      <4> QED
        BY <3>1, <4>1, <4>2 DEF Reading
    <3> QED
      BY <2>1, <2>2, <3>3 DEF ClassInv, Reading, Message
  <2>3. CASE pc = "closeTypes" /\ pc' = "parseTypes"
    BY <2>1, <2>3 DEF ClassInv
  <2>4. CASE pc' \in {"promptClass", "ended"}
    BY <1>1, <2>1, <2>4
  <2> QED
    BY <1>3, <2>2, <2>3, <2>4 DEF CloseClasses, CloseTypes, CloseSubscription, DiscoveryEnds, Exit
<1>4. CASE GetClasses \/ GetDefault \/ GetTypes \/ GetElements
  <2>1. UNCHANGED <<ClassChain, at>>
    BY <1>4 DEF GetClasses, GetDefault, GetTypes, GetElements, Receive, tree
  <2>2. CASE MQGET
    <3>1. buffer' \in DOMAIN Content /\ walk' = [idx |-> 0, cfin |-> 1]
      BY <2>2, HeadTailProperties DEF MQGET, QueueInv
    <3>2. pc' \in {"closeTypes", "closeElements", "closeClasses"} \/ pc' \in {"promptClass", "ended"}
      BY <1>4 DEF GetClasses, GetDefault, GetTypes, GetElements, Receive, DiscoveryEnds, Exit
    <3>3. pc' = "closeTypes" => pc = "getTypes"
      BY <1>4 DEF GetClasses, GetDefault, GetTypes, GetElements, Receive, DiscoveryEnds, Exit
    <3> QED
      BY <2>1, <3>1, <3>2, <3>3 DEF ClassInv
  <2>3. CASE UNCHANGED parse /\ pc' \in {"promptClass", "ended"}
    BY <1>1, <2>1, <2>3 DEF parse
  <2> QED
    BY <1>4, <2>2, <2>3 DEF GetClasses, GetDefault, GetTypes, GetElements, Receive, DiscoveryEnds,
       Exit
<1>5. CASE SubTypes
  <2>1. UNCHANGED <<ClassChain, at>> /\ pc' \in {"getTypes", "promptClass", "ended"}
        /\ at.class <= Len(ClassChain)
    BY <1>5 DEF SubTypes, Subscribe, tree, DiscoveryEnds, Exit
  <2> QED
    BY <2>1 DEF ClassInv
<1>6. CASE TypesRead
  <2>1. UNCHANGED ClassChain /\ pc' = "subTypes" /\ at' = [at EXCEPT !.class = @ + 1]
        /\ at.class <= Len(ClassChain)
    BY <1>6 DEF TypesRead, tree, ClassInv
  <2>2. at' \in [class : 1..Len(ClassChain) + 1, type : Nat]
    BY <1>0, <2>1 DEF ClassInv
  <2> QED
    BY <2>1, <2>2 DEF ClassInv
<1>7. CASE TypesDone \/ NextClass
  <2>1. UNCHANGED ClassChain /\ pc' = "subElements"
        /\ \E c \in {1, at.class + 1} : at' = [class |-> c, type |-> 1] /\ c \in 1..Len(ClassChain) + 1
    BY <1>0, <1>7 DEF TypesDone, NextClass, tree, ClassInv
  <2>2. at' \in [class : 1..Len(ClassChain) + 1, type : Nat]
    BY <2>1
  <2> QED
    BY <2>1, <2>2 DEF ClassInv
<1>8. CASE ElementsRead
  <2>1. UNCHANGED ClassChain /\ pc' \in {"subElements", "promptClass"}
        /\ (at' = at \/ at' = [at EXCEPT !.type = @ + 1])
    BY <1>8 DEF ElementsRead, tree, sruUpdateType, DiscoveryEnds
  <2>2. at' \in [class : 1..Len(ClassChain) + 1, type : Nat]
    BY <2>1 DEF ClassInv
  <2> QED
    BY <2>1, <2>2 DEF ClassInv
<1>9. CASE ParseType \/ ParseElement
  <2>1. UNCHANGED <<ClassChain, at>> /\ (pc' \in {"promptClass"} \/ UNCHANGED pc)
        /\ pc \in {"parseTypes", "parseElements"}
    BY <1>9 DEF ParseType, ParseElement, ReadType, ReadElement, Remember, sruRegisterType,
       sruRegisterElement, DiscoveryEnds, tree
  <2> QED
    BY <2>1 DEF ClassInv
<1>10. CASE SubClasses \/ LanguageMissing \/ SubDefault \/ ClassesRead \/ SubElements \/ ElementsDone
            \/ CloseElements
  <2>1. UNCHANGED <<ClassChain, at, buffer, walk>>
        /\ pc' \notin asking \cup {"closeClasses", "parseClasses"}
    BY <1>10 DEF SubClasses, LanguageMissing, SubDefault, ClassesRead, SubElements, ElementsDone,
       CloseElements, CloseSubscription, Subscribe, DiscoveryEnds, Exit, tree, parse
  <2> QED
    BY <1>1, <2>1
<1>11. CASE Start \/ Subscriptions \/ Publications \/ UNCHANGED vars
            \/ \E top \in DOMAIN Content : Publish(top) \/ PublishData(top)
  <2>1. UNCHANGED <<ClassChain, at, buffer, walk>>
        /\ (UNCHANGED pc \/ pc' \notin asking \cup {"closeClasses", "parseClasses"})
    <3> USE DEF tree, parse
    <3>1. CASE Start
      BY <3>1 DEF Start, ParseOption, BadOption, OptionsParsed, MQCONN, QueryQMName, OpenQueue, Exit
    <3>2. CASE SubscribeType
      BY <3>2 DEF SubscribeType, SubscribeData, Exit
    <3>3. CASE Subscriptions /\ ~SubscribeType
      BY <3>3 DEF Subscriptions, PromptForClass, PromptForType, NotRecognised, ClassSubscribed,
         AllSubscribed, Exit
    <3>4. CASE Publications
      BY <3>4 DEF Publications, PrintPublication, GetFails, EnoughPrinted, MQDISC, Exit
    <3>5. CASE UNCHANGED vars \/ \E top \in DOMAIN Content : Publish(top) \/ PublishData(top)
      BY <3>5 DEF Publish, PublishData, vars
    <3> QED
      BY <1>11, <3>1, <3>2, <3>3, <3>4, <3>5
  <2> QED
    BY <1>1, <2>1
<1> QED
  BY NextCases, <1>2, <1>3, <1>4, <1>5, <1>6, <1>7, <1>8, <1>9, <1>10, <1>11
     DEF DiscoverClasses, DiscoverTypes, DiscoverElements

LEMMA TypesAndTree == Spec => [](QueueInv /\ TreeInv /\ TypeInv)
<1> DEFINE Inv == QueueInv /\ TreeInv /\ TypeInv
<1>1. Init => TypeInv
  <2> SUFFICES ASSUME Init
               PROVE  TypeInv
    OBVIOUS
  <2>1. CommandInv
    <3>1. Len(command) \in Nat
      BY CommandAssumption DEF Init
    <3> QED
      BY <3>1 DEF Init, CommandInv
  <2>2. InputInv
    <3>1. NoInput \in InputType
      <4>1. [k \in 0..MaxClassCount - 1 |-> None] \in ClassNames
            /\ [k \in 0..MaxTypeCount - 1 |-> None] \in TypeNames
            /\ [k \in 0..MaxClassCount - 1 |-> 0] \in ClassCounts
        BY DEF ClassNames, TypeNames, ClassCounts, Names
      <4>2. 0 \in 0..MaxClassCount /\ 0 \in 0..MaxTypeCount /\ -1 \in Int
        BY BoundsAssumption
      <4> QED
        BY <4>1, <4>2 DEF NoInput, InputType
    <3>2. NoInput.ClassCount = 0
      BY DEF NoInput
    <3> QED
      BY <3>1, <3>2 DEF Init, InputInv
  <2>3. ClassInv
    <3>1. ClassChain \in Seq([id : Classes, topic : {}]) /\ Len(ClassChain) = 0
      BY DEF Init
    <3> QED
      BY <3>1 DEF Init, ClassInv
  <2>4. CountInv
    <3>1. printed \in Seq({}) /\ Len(printed) = 0
      BY DEF Init
    <3> QED
      BY <3>1, BoundsAssumption DEF Init, CountInv
  <2> QED
    BY <2>1, <2>2, <2>3, <2>4 DEF TypeInv
<1>2. Inv /\ [Next]_vars => TypeInv'
  BY CommandStep, InputStep, ClassStep, CountStep DEF TypeInv
<1>3. Spec => [](QueueInv /\ TreeInv)
  BY QueueAndTree
<1> QED
  BY <1>1, <1>2, <1>3, PTL DEF Spec

\* The variables keep their types, whatever the command line, the metadata and the order in
\* which it is published: no option is stored beyond MAX_CLASS_COUNT or MAX_TYPE_COUNT, and
\* the discovery's loop over the classes stays within the chain that it reads.
THEOREM TypeCorrect == Spec => []TypeOK
<1>1. QueueInv /\ TreeInv /\ TypeInv => TypeOK
  BY TypeInvImpliesTypeOK
<1> QED
  BY <1>1, TypesAndTree, PTL
=============================================================================
