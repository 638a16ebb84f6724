--------------------------- MODULE ResourceUsage ---------------------------
(***************************************************************************)
(* amqsruaa.c, the sample that the exporter starts as amqsruac: it reads   *)
(* the queue manager's metadata (classes, the types of a class, the        *)
(* elements of a type), subscribes to the data of the classes and types it *)
(* was asked for and prints a number of publications.                      *)
(*                                                                         *)
(* All its subscriptions deliver to one temporary queue. A subscription is *)
(* closed when its answer was read, but what has arrived on the queue      *)
(* stays: a late or repeated answer is read as the answer to the next      *)
(* question, and the program relies on the ids in the messages.            *)
(*                                                                         *)
(* A message is the sequence of its PCF parameters, each with a name p and *)
(* a value v. The parameters of a group follow the group's header, whose v *)
(* is their number; they are not in the message's count. Ids stand for the *)
(* names that come with them. A topic is the sequence of its levels, and   *)
(* their number stands for the length of the string.                       *)
(***************************************************************************)
EXTENDS Integers, Sequences, FiniteSets

CONSTANTS
  Commands,       \* command lines: sequences of options
  TypesOf,        \* the types of each class
  ElemsOf,        \* the elements of each <<class, type>>
  TypesTopic,     \* where the metadata about the types of each class is
  ElementsTopic,  \* where that about the elements of each <<class, type>> is
  DataTopic,      \* where the data of each <<class, type>> is published, %s for the object
  Content,        \* what is published on each topic
  Metadata,       \* the topics that carry metadata
  RootTopic,      \* .../METADATA/CLASSES
  LangTopic,      \* .../METADATA/CLASSES/<language>
  InitialTopics,  \* sets of topics retained when the program starts
  Objects,        \* names of queues and applications
  None,           \* an unset name: NULL, the empty string, an id of -1
  FailReasons,    \* reason codes of failed MQ calls
  MaxClassCount,  \* MAX_CLASS_COUNT
  MaxTypeCount,   \* MAX_TYPE_COUNT; no command has more types
  MaxPublish,     \* bound: metadata published while the program runs
  MaxFaults,      \* bound: failed MQ calls
  MaxDepth        \* bound: messages on the queue when data is published

Classes == DOMAIN TypesOf
Types == UNION {TypesOf[c] : c \in Classes}
Pairs == {q \in Classes \X Types : q[2] \in TypesOf[q[1]]}
Names == Classes \cup Types \cup Objects \cup {None}
NoTopic == <<>>
ERROR_RETURN == 20
MQRC_NO_MSG_AVAILABLE == 2033

Has(m, name) == \E i \in DOMAIN m.params : m.params[i].p = name
Says(m, i, name) == /\ i \in DOMAIN m.params
                    /\ m.params[i].p = name
                    /\ \A j \in DOMAIN m.params :
                         m.params[j].p = name => m.params[j].v = m.params[i].v

\* The groups of that kind lie within the message and have each of the names once.
Groups(m, kind, name) ==
  \A i \in DOMAIN m.params : m.params[i].p = kind =>
    /\ m.params[i].v \in Nat /\ i + 1..i + m.params[i].v \subseteq DOMAIN m.params
    /\ \E j \in i + 1..i + m.params[i].v :
         /\ m.params[j].p = name
         /\ \A k \in i + 1..i + m.params[i].v : m.params[k].p = name => k = j

\* Where the turns of a loop find the parameters, when it steps over groups of that kind.
IsWalk(m, kind, pos) ==
  /\ pos[0] = 1
  /\ \A k \in 0..m.count - 1 :
       LET param == m.params[pos[k]] IN
       /\ pos[k] \in DOMAIN m.params
       /\ pos[k + 1] = pos[k] + 1 + (IF param.p = kind THEN param.v ELSE 0)

GroupKinds == {"classGroup", "typeGroup", "elemGroup"}

(* What the code takes for granted about IBM MQ's messages. No loop over the count of a    *)
(* message leaves it. A message about types names its class first and only once, one about *)
(* elements its class and then its type, and what a group describes belongs to them.       *)
ASSUME WalkAssumption ==
  \A top \in DOMAIN Content, kind \in GroupKinds : LET m == Content[top] IN
    /\ m.count \in Nat /\ Len(m.params) \in Nat /\ DOMAIN m.params = 1..Len(m.params)
    /\ \E pos \in [0..m.count -> 1..Len(m.params) + 1] : IsWalk(m, kind, pos)
ASSUME LayoutAssumption ==
  \A top \in DOMAIN Content : LET m == Content[top] IN
    /\ Groups(m, "classGroup", "class")
    /\ Groups(m, "typeGroup", "type") /\ Groups(m, "elemGroup", "elem")
    /\ Has(m, "classGroup") =>
         \A i \in DOMAIN m.params : m.params[i].p = "class" => m.params[i].v \in Classes
    /\ Has(m, "typeGroup") =>
         /\ Says(m, 1, "class") /\ m.params[1].v \in Classes
         /\ \A i \in DOMAIN m.params :
              m.params[i].p = "type" => m.params[i].v \in TypesOf[m.params[1].v]
    /\ Has(m, "elemGroup") =>
         /\ Says(m, 1, "class") /\ Says(m, 2, "type")
         /\ <<m.params[1].v, m.params[2].v>> \in DOMAIN ElemsOf
         /\ \A i \in DOMAIN m.params :
              m.params[i].p = "elem" => m.params[i].v \in ElemsOf[<<m.params[1].v, m.params[2].v>>]

\* A topic for the data of an object, or for all of them. sprintf() with a string that is
\* not a topic with %s yields none of the right length.
WithObject(top, obj) ==
  IF \E i \in DOMAIN top : top[i] = "%s"
  THEN [i \in DOMAIN top |-> IF top[i] = "%s" THEN obj ELSE top[i]]
  ELSE [i \in DOMAIN top |-> "?"]
PerObject(q) == \E i \in DOMAIN DataTopic[q] : DataTopic[q][i] = "%s"
TopicFor(q, obj) == IF PerObject(q) THEN WithObject(DataTopic[q], obj) ELSE DataTopic[q]

(* Metadata has topics of its own, and only metadata is retained. *)
ASSUME TopicAssumption ==
  /\ DOMAIN ElemsOf = Pairs /\ DOMAIN DataTopic = Pairs
  /\ \A q \in Pairs : Len(DataTopic[q]) \in Nat
  /\ Metadata \subseteq DOMAIN Content /\ NoTopic \notin Metadata
  /\ InitialTopics \subseteq SUBSET Metadata
  /\ RootTopic \in Metadata /\ LangTopic \in Metadata
  /\ TypesTopic \in [Classes -> Metadata] /\ ElementsTopic \in [Pairs -> Metadata]
  /\ \A q \in Pairs, obj \in Objects \cup {None} : TopicFor(q, obj) \notin Metadata \cup {NoTopic}

\* The group whose header is at i says that of the name.
Gives(m, i, name, value) ==
  \E j \in i + 1..i + m.params[i].v : m.params[j].p = name /\ m.params[j].v = value

\* Groups of that kind are not nested, and the loop over the count reads the whole message.
IsRead(m, kind) ==
  /\ \A i, j \in DOMAIN m.params :
       m.params[i].p = kind /\ m.params[j].p = kind /\ i < j => i + m.params[i].v < j
  /\ \A pos \in [0..m.count -> 1..Len(m.params) + 1] :
       IsWalk(m, kind, pos) => pos[m.count] = Len(m.params) + 1

NamedOnce(m, name) ==
  \A i, j \in DOMAIN m.params :
    m.params[i].p = name /\ m.params[j].p = name /\ m.params[i].v = m.params[j].v => i = j

(* What the answers say: the classes and where their types are found, the types of a class *)
(* and where their elements are found, the elements of a type and where its data is found. *)
AboutClasses(m) ==
  /\ Groups(m, "classGroup", "topic") /\ NamedOnce(m, "class")
  /\ \A i \in DOMAIN m.params : m.params[i].p = "classGroup" =>
       \E c \in Classes : Gives(m, i, "class", c) /\ Gives(m, i, "topic", TypesTopic[c])
AboutTypes(m, c) ==
  /\ Groups(m, "typeGroup", "topic")
  /\ Says(m, 1, "class") /\ m.params[1].v = c
  /\ Says(m, 2, "flags") /\ \A q \in Pairs : q[1] = c => m.params[2].v = PerObject(q)
  /\ \A i \in DOMAIN m.params : m.params[i].p = "typeGroup" =>
       \E t \in TypesOf[c] : Gives(m, i, "type", t) /\ Gives(m, i, "topic", ElementsTopic[<<c, t>>])
\* The program forgets a topic that comes before a group, and one that is too long.
AboutElements(m, q) ==
  /\ IsRead(m, "elemGroup")
  /\ Says(m, 1, "class") /\ m.params[1].v = q[1]
  /\ Says(m, 2, "type") /\ m.params[2].v = q[2]
  /\ m.params[Len(m.params)] = [p |-> "topic", v |-> DataTopic[q]]
  /\ \A i \in DOMAIN m.params : m.params[i].p = "elemGroup" => i + m.params[i].v < Len(m.params)
  /\ \A e \in ElemsOf[q] : \E i \in DOMAIN m.params :
       m.params[i].p = "elemGroup" /\ Gives(m, i, "elem", e)
  /\ Len(DataTopic[q]) <= Len(ElementsTopic[q])
ASSUME MetadataAssumption ==
  /\ AboutClasses(Content[RootTopic]) /\ AboutClasses(Content[LangTopic])
  /\ \A c \in Classes : AboutTypes(Content[TypesTopic[c]], c)
  /\ \A q \in Pairs : AboutElements(Content[ElementsTopic[q]], q)

(* The reason of a failed call, which is not MQRC_NONE, is some number that is not 0 as an   *)
(* exit status either. MQ has three reasons that are: 2048, 2304 and 2560                    *)
(* (MQRC_MULTICAST_ONLY). A discovery that ends with one of them looks like a success to the *)
(* parent of the process: what is said about the exit status leaves such a run out.          *)
ASSUME ReasonAssumption == FailReasons \subseteq Int /\ \A r \in FailReasons : r % 256 # 0
ASSUME BoundsAssumption ==
  /\ MaxClassCount \in Nat \ {0} /\ MaxTypeCount \in Nat \ {0}
  /\ MaxPublish \in Nat /\ MaxFaults \in Nat
  /\ None \notin Classes \cup Types \cup Objects
ASSUME CommandAssumption ==
  \A cmd \in Commands :
    /\ cmd \in Seq({cmd[i] : i \in DOMAIN cmd})
    /\ \A i \in DOMAIN cmd :
         /\ cmd[i].opt \in {"-c", "-t"} => cmd[i].arg \in Names \ {None}
         /\ cmd[i].opt = "-o" => cmd[i].arg \in Objects
         /\ cmd[i].opt = "-n" => cmd[i].arg \in Int

VARIABLES
  pc,           \* the next statement that matters
  command,      \* argv
  count,        \* the option main() looks at
  input,        \* Class, Type, ... : what the options ask for
  ClassChain,   \* the first level of the tree
  typeChain,    \* pClass->type of each class
  elemChain,    \* pType->elem of each <<class, type>>
  at,           \* the discovery loops' pClass and pType, by position
  buffer,       \* the topic of the message in Buffer
  walk,         \* idx and cfin: how far Buffer is parsed
  local,        \* class_id, type_id, flags and topic of sruDiscover()
  want,         \* idx1, idx2, idx3 and pObjName of sruSubscribe()
  GetCount,
  rc,           \* what main() will return, in the end the exit status
  retained,     \* topics with a retained publication
  subs,         \* open subscriptions, by topic, oldest first
  tdq,          \* the temporary queue: the topic of each message
  nls,          \* LANG names a language
  faults,       \* number of failed calls so far
  published,    \* number of metadata publications since the start
  failed,       \* history: a call that matters has failed
  printed       \* history: the publications formatted

options == <<command, count, input, nls>>
tree == <<ClassChain, typeChain, elemChain>>
parse == <<buffer, walk, local>>
result == <<GetCount, rc, printed>>
qmgr == <<retained, subs, tdq, faults, published, failed>>
vars == <<pc, options, tree, at, parse, want, result, qmgr>>

NoInput == [ClassCount |-> 0, TypeCount |-> 0, MaxGets |-> -1,
            Class |-> [k \in 0..MaxClassCount - 1 |-> None],
            ClassTypeCount |-> [k \in 0..MaxClassCount - 1 |-> 0],
            ClassObjName |-> [k \in 0..MaxClassCount - 1 |-> None],
            Type |-> [k \in 0..MaxTypeCount - 1 |-> None],
            TypeObjName |-> [k \in 0..MaxTypeCount - 1 |-> None]]

Init ==
  /\ pc = "args"
  /\ command \in Commands
  /\ count = 1
  /\ input = NoInput
  /\ ClassChain = <<>>
  /\ typeChain = [c \in Classes |-> <<>>]
  /\ elemChain = [q \in DOMAIN ElemsOf |-> <<>>]
  /\ at = [class |-> 1, type |-> 1]
  /\ buffer = NoTopic
  /\ walk = [idx |-> 0, cfin |-> 1]
  /\ local = [class_id |-> None, type_id |-> None, flags |-> FALSE, topic |-> NoTopic]
  /\ want = [idx1 |-> 0, idx2 |-> 0, idx3 |-> 0, pObjName |-> None]
  /\ GetCount = 0
  /\ rc = 0
  /\ retained \in InitialTopics
  /\ subs = <<>>
  /\ tdq = <<>>
  /\ nls \in BOOLEAN
  /\ faults = 0
  /\ published = 0
  /\ failed = FALSE
  /\ printed = <<>>

\* The process ends. Of what main() returns its parent sees the low 8 bits.
ExitStatus(code) == code % 256
Exit(code) == pc' = "ended" /\ rc' = ExitStatus(code)

-----------------------------------------------------------------------------
(* The command line *)

\* mutant: no look at MAX_CLASS_COUNT.
SetClassUnchecked(name) ==
  [input EXCEPT !.Class[input.ClassCount] = name, !.ClassCount = @ + 1]

SetClass(name) ==
  IF input.ClassCount < MaxClassCount
  THEN [input EXCEPT !.Class[input.ClassCount] = name, !.ClassCount = @ + 1]
  ELSE input

SetType(name) ==
  LET n == input.TypeCount
      stored == IF n < MaxTypeCount
                THEN [input EXCEPT !.Type[n] = name, !.TypeCount = @ + 1] ELSE input
  IN  IF input.ClassCount = 0 THEN stored
      ELSE [stored EXCEPT !.ClassTypeCount[input.ClassCount - 1] = @ + 1]

SetObject(name) ==
  LET typed == IF input.TypeCount = 0 THEN input
               ELSE [input EXCEPT !.TypeObjName[input.TypeCount - 1] = name]
      c == input.ClassCount - 1
  IN  IF c >= 0 /\ input.ClassObjName[c] = None
      THEN [typed EXCEPT !.ClassObjName[c] = name] ELSE typed

\* -m, -s and -d name the queue manager and the model queue and ask for debug output. All
\* topics are below the prefix that -p gives, which must not end with '/'.
OtherOptions == {"-m", "-s", "-d", "-p"}
Refused(o) == \/ o.opt \notin {"-c", "-t", "-o", "-n"} \cup OtherOptions
              \/ o.opt = "-p" /\ o.arg = "/"

ParseOption ==
  /\ pc = "args" /\ count <= Len(command)
  /\ LET o == command[count] IN
       /\ ~Refused(o)
       /\ input' = CASE o.opt = "-c" -> SetClass(o.arg)
                     [] o.opt = "-t" -> SetType(o.arg)
                     [] o.opt = "-o" -> SetObject(o.arg)
                     [] o.opt = "-n" -> [input EXCEPT !.MaxGets = o.arg]
                     [] o.opt \in OtherOptions -> input
  /\ count' = count + 1
  /\ UNCHANGED <<pc, command, nls, tree, at, parse, want, result, qmgr>>

BadOption ==
  /\ pc = "args" /\ count <= Len(command)
  /\ Refused(command[count])
  /\ Exit(ERROR_RETURN)
  /\ UNCHANGED <<options, tree, at, parse, want, GetCount, printed, qmgr>>

OptionsParsed ==
  /\ pc = "args" /\ count > Len(command)
  /\ pc' = "connect"
  /\ UNCHANGED <<options, tree, at, parse, want, result, qmgr>>

-----------------------------------------------------------------------------
(* Calls of IBM MQ. A call fails as long as MaxFaults allows it, or for certain. *)

Fails(r, certain) ==
  /\ r \in FailReasons
  /\ failed' = TRUE
  /\ IF certain THEN UNCHANGED faults ELSE faults < MaxFaults /\ faults' = faults + 1
  /\ UNCHANGED <<retained, subs, tdq, published>>

\* A call that the program must survive, and does.
Works == UNCHANGED qmgr

MQSUB(top) ==
  /\ subs' = Append(subs, top)
  /\ tdq' = IF top \in retained THEN Append(tdq, top) ELSE tdq
  /\ UNCHANGED <<retained, faults, published, failed>>

\* The newest subscription is the one that Hsub is the handle of.
MQCLOSE ==
  /\ subs' = SubSeq(subs, 1, Len(subs) - 1)
  /\ UNCHANGED <<retained, tdq, faults, published, failed>>

\* What a pointer into Buffer finds there when Buffer has been overwritten.
Stale(top) == {top, [i \in DOMAIN top |-> "?"]}

\* The message is now in Buffer, into which topic may point.
MQGET ==
  /\ tdq # <<>>
  /\ buffer' = Head(tdq) /\ tdq' = Tail(tdq)
  /\ walk' = [idx |-> 0, cfin |-> 1]
  /\ \E top \in Stale(local.topic) : local' = [local EXCEPT !.topic = top]
  /\ UNCHANGED <<retained, subs, faults, published, failed>>

NothingCame(r) ==
  /\ tdq = <<>>
  /\ r = MQRC_NO_MSG_AVAILABLE
  /\ failed' = TRUE
  /\ UNCHANGED <<retained, subs, tdq, faults, published>>

\* One for each subscription.
Copies(top) == [i \in 1..Cardinality({j \in DOMAIN subs : subs[j] = top}) |-> top]

\* The queue manager publishes a piece of its metadata (again) while the program runs.
Publish(top) ==
  /\ published < MaxPublish /\ pc # "ended"
  /\ top \in Metadata
  /\ \/ top \notin retained
     \/ \E i \in DOMAIN subs : subs[i] = top
  /\ retained' = retained \cup {top}
  /\ tdq' = tdq \o Copies(top)
  /\ published' = published + 1
  /\ UNCHANGED <<pc, options, tree, at, parse, want, result, subs, faults, failed>>

\* Data is published at intervals and not retained.
PublishData(top) ==
  /\ pc # "ended" /\ Len(tdq) < MaxDepth
  /\ top \in DOMAIN Content \ Metadata
  /\ \E i \in DOMAIN subs : subs[i] = top
  /\ tdq' = tdq \o Copies(top)
  /\ UNCHANGED <<pc, options, tree, at, parse, want, result>>
  /\ UNCHANGED <<retained, subs, faults, published, failed>>

-----------------------------------------------------------------------------
(* main() before the discovery *)

MQCONN ==
  /\ pc = "connect"
  /\ \/ Works /\ pc' = "inquire" /\ UNCHANGED rc
     \/ \E r \in FailReasons : Fails(r, FALSE) /\ Exit(ERROR_RETURN)
  /\ UNCHANGED <<options, tree, at, parse, want, GetCount, printed>>

\* MQOPEN, MQINQ and MQCLOSE of the queue manager object. An MQINQ that fails is
\* followed by the MQCLOSE all the same.
QueryQMName ==
  /\ pc = "inquire"
  /\ \/ Works /\ pc' = "open" /\ UNCHANGED rc
     \/ \E r \in FailReasons : Fails(r, FALSE) /\ Exit(ERROR_RETURN)
  /\ UNCHANGED <<options, tree, at, parse, want, GetCount, printed>>

OpenQueue ==
  /\ pc = "open"
  /\ \/ Works /\ pc' = "subClasses" /\ UNCHANGED rc
     \/ \E r \in FailReasons : Fails(r, FALSE) /\ Exit(ERROR_RETURN)
  /\ UNCHANGED <<options, tree, at, parse, want, GetCount, printed>>

-----------------------------------------------------------------------------
(* sruDiscover(). It returns the Reason of its last MQ call, so that what goes wrong *)
(* while a message is parsed ends the discovery but not the program.                 *)

\* mutant: returns its rc, which a failed MQSUB of the second level does not set.
ReturnsLocalRc(Reason) ==
  IF Reason = 0 \/ pc = "subTypes" THEN pc' = "promptClass" /\ UNCHANGED rc
  ELSE Exit(ERROR_RETURN)

DiscoveryEnds(Reason) ==
  IF Reason = 0 THEN pc' = "promptClass" /\ UNCHANGED rc ELSE Exit(Reason)

Subscribe(top, next) ==
  /\ \/ top # NoTopic /\ MQSUB(top) /\ pc' = next /\ UNCHANGED rc
     \/ \E r \in FailReasons : Fails(r, top \notin DOMAIN Content) /\ DiscoveryEnds(r)
  /\ UNCHANGED <<options, tree, parse, want, GetCount, printed>>

\* final: the discovery ends when no message has come within ten seconds.
Receive(next, final) ==
  /\ \/ MQGET /\ pc' = next /\ UNCHANGED rc
     \/ /\ \E r \in FailReasons \cup {MQRC_NO_MSG_AVAILABLE} :
             (Fails(r, FALSE) \/ (final /\ NothingCame(r))) /\ DiscoveryEnds(r)
        /\ UNCHANGED parse
  /\ UNCHANGED <<options, tree, at, want, GetCount, printed>>

CloseSubscription(next) ==
  /\ \/ MQCLOSE /\ pc' = next /\ UNCHANGED rc
     \/ \E r \in FailReasons : Fails(r, FALSE) /\ DiscoveryEnds(r)
  /\ UNCHANGED <<options, tree, at, parse, want, GetCount, printed>>

SubClasses == /\ pc = "subClasses"
              /\ Subscribe(IF nls THEN LangTopic ELSE RootTopic, "getClasses")
              /\ UNCHANGED at
GetClasses == pc = "getClasses" /\ Receive("closeClasses", ~nls)

\* Nothing came in this language. Whether the subscription can be closed is not looked at.
LanguageMissing ==
  /\ pc = "getClasses" /\ nls /\ tdq = <<>>
  /\ pc' = "subDefault"
  /\ \/ MQCLOSE
     \/ /\ faults < MaxFaults /\ faults' = faults + 1
        /\ UNCHANGED <<retained, subs, tdq, published, failed>>
  /\ UNCHANGED <<options, tree, at, parse, want, result>>

SubDefault == pc = "subDefault" /\ Subscribe(RootTopic, "getDefault") /\ UNCHANGED at
GetDefault == pc = "getDefault" /\ Receive("closeClasses", TRUE)
CloseClasses == pc = "closeClasses" /\ CloseSubscription("parseClasses")

(* Parsing. One step is one turn of the loop over the message's parameters: a group that *)
(* the loop knows with all that is in it, or one parameter. The header of another group  *)
(* is passed over alone, so that what follows is read as if it were not in a group.      *)

Message == Content[buffer]
Param == Message.params[walk.cfin]
MoreParams == walk.idx < Message.count
Advance(group) ==
  walk' = [idx |-> walk.idx + 1,
           cfin |-> walk.cfin + 1 + (IF Param.p = group THEN Param.v ELSE 0)]

\* The value that the group at hand gives a field, or the old one.
Field(name, old) ==
  LET given == {i \in walk.cfin + 1..walk.cfin + Param.v : Message.params[i].p = name}
  IN  IF given = {} THEN old
      ELSE Message.params[CHOOSE i \in given : \A j \in given : j <= i].v

sruIdToClass(id) == \E i \in DOMAIN ClassChain : ClassChain[i].id = id
sruIdToType(c, id) == \E i \in DOMAIN typeChain[c] : typeChain[c][i].id = id
FirstType(c, id) ==
  CHOOSE i \in DOMAIN typeChain[c] :
    /\ typeChain[c][i].id = id
    /\ \A j \in 1..i - 1 : typeChain[c][j].id # id

sruRegisterClass(l) ==
  /\ ClassChain' = Append(ClassChain, [id |-> l.class_id, topic |-> l.topic])
  /\ UNCHANGED <<typeChain, elemChain>>

\* mutant: takes the message for the answer to the question asked last.
RegisterUnderQuestion(l) ==
  /\ typeChain' = [typeChain EXCEPT ![ClassChain[at.class].id] =
                     Append(@, [id |-> l.type_id, topic |-> l.topic, flags |-> l.flags])]
  /\ UNCHANGED <<ClassChain, elemChain>>

sruRegisterType(l) ==
  /\ typeChain' = [typeChain EXCEPT ![l.class_id] =
                     Append(@, [id |-> l.type_id, topic |-> l.topic, flags |-> l.flags])]
  /\ UNCHANGED <<ClassChain, elemChain>>

\* mutant: the chain keeps its last element only.
KeepsOneElement(l, id) ==
  /\ elemChain' = [elemChain EXCEPT ![<<l.class_id, l.type_id>>] = <<id>>]
  /\ UNCHANGED <<ClassChain, typeChain>>

sruRegisterElement(l, id) ==
  /\ elemChain' = [elemChain EXCEPT ![<<l.class_id, l.type_id>>] = Append(@, id)]
  /\ UNCHANGED <<ClassChain, typeChain>>

sruUpdateType(l) ==
  /\ typeChain' = [typeChain EXCEPT ![l.class_id][FirstType(l.class_id, l.type_id)].topic =
                     l.topic]
  /\ UNCHANGED <<ClassChain, elemChain>>

Known(l) == sruIdToClass(l.class_id) /\ sruIdToType(l.class_id, l.type_id)

ParseClass ==
  /\ pc = "parseClasses" /\ MoreParams
  /\ IF Param.p # "classGroup" THEN UNCHANGED <<tree, local>>
     ELSE /\ local' = [local EXCEPT !.class_id = Field("class", @),
                                    !.flags = Field("flags", @),
                                    !.topic = Field("topic", NoTopic)]
          /\ sruRegisterClass(local')
  /\ Advance("classGroup")
  /\ UNCHANGED <<pc, options, at, buffer, want, result, qmgr>>

ClassesRead ==
  /\ pc = "parseClasses" /\ ~MoreParams
  /\ pc' = "subTypes"
  /\ UNCHANGED <<options, tree, at, parse, want, result, qmgr>>

SubTypes ==
  /\ pc = "subTypes"
  /\ at.class <= Len(ClassChain)
  /\ Subscribe(ClassChain[at.class].topic, "getTypes")
  /\ UNCHANGED at
GetTypes == pc = "getTypes" /\ Receive("closeTypes", TRUE)
CloseTypes == pc = "closeTypes" /\ CloseSubscription("parseTypes")

TypesDone ==
  /\ pc = "subTypes" /\ at.class > Len(ClassChain)
  /\ pc' = "subElements"
  /\ at' = [class |-> 1, type |-> 1]
  /\ UNCHANGED <<options, tree, parse, want, result, qmgr>>

\* A parameter that is not a group of the level: remembered when the level knows it.
Remember(fields) ==
  /\ local' = [f \in DOMAIN local |->
                 IF <<Param.p, f>> \in fields THEN Param.v ELSE local[f]]
  /\ UNCHANGED <<pc, rc, tree>>

ReadType ==
  /\ local' = [local EXCEPT !.type_id = Field("type", @), !.topic = Field("topic", NoTopic)]
  /\ IF sruIdToClass(local'.class_id)
     THEN sruRegisterType(local') /\ UNCHANGED <<pc, rc>>
     ELSE UNCHANGED tree /\ DiscoveryEnds(0)

ParseType ==
  /\ pc = "parseTypes" /\ MoreParams
  /\ IF Param.p = "typeGroup" THEN ReadType
     ELSE Remember({<<"class", "class_id">>, <<"flags", "flags">>})
  /\ Advance("typeGroup")
  /\ UNCHANGED <<options, at, buffer, want, GetCount, printed, qmgr>>

TypesRead ==
  /\ pc = "parseTypes" /\ ~MoreParams
  /\ pc' = "subTypes"
  /\ at' = [at EXCEPT !.class = @ + 1]
  /\ UNCHANGED <<options, tree, parse, want, result, qmgr>>

Chain(c) == typeChain[ClassChain[c].id]

SubElements ==
  /\ pc = "subElements"
  /\ at.class <= Len(ClassChain) /\ at.type <= Len(Chain(at.class))
  /\ Subscribe(Chain(at.class)[at.type].topic, "getElements")
  /\ UNCHANGED at
GetElements == pc = "getElements" /\ Receive("closeElements", TRUE)
CloseElements == pc = "closeElements" /\ CloseSubscription("parseElements")

NextClass ==
  /\ pc = "subElements"
  /\ at.class <= Len(ClassChain) /\ at.type > Len(Chain(at.class))
  /\ at' = [class |-> at.class + 1, type |-> 1]
  /\ UNCHANGED <<pc, options, tree, parse, want, result, qmgr>>

ElementsDone ==
  /\ pc = "subElements" /\ at.class > Len(ClassChain)
  /\ DiscoveryEnds(0)
  /\ UNCHANGED <<options, tree, at, parse, want, GetCount, printed, qmgr>>

ReadElement ==
  /\ local' = [local EXCEPT !.topic = NoTopic]
  /\ IF Known(local)
     THEN sruRegisterElement(local, Field("elem", None)) /\ UNCHANGED <<pc, rc>>
     ELSE UNCHANGED tree /\ DiscoveryEnds(0)

ParseElement ==
  /\ pc = "parseElements" /\ MoreParams
  /\ IF Param.p = "elemGroup" THEN ReadElement
     ELSE Remember({<<"class", "class_id">>, <<"type", "type_id">>, <<"topic", "topic">>})
  /\ Advance("elemGroup")
  /\ UNCHANGED <<options, at, buffer, want, GetCount, printed, qmgr>>

\* The topic of the data must not be longer than that of the metadata it replaces.
ElementsRead ==
  /\ pc = "parseElements" /\ ~MoreParams
  /\ IF /\ Known(local)
        /\ LET c == local.class_id IN
            Len(local.topic) <= Len(typeChain[c][FirstType(c, local.type_id)].topic)
     THEN /\ sruUpdateType(local)
          /\ at' = [at EXCEPT !.type = @ + 1]
          /\ pc' = "subElements" /\ UNCHANGED rc
     ELSE UNCHANGED <<tree, at>> /\ DiscoveryEnds(0)
  /\ UNCHANGED <<options, parse, want, GetCount, printed, qmgr>>

-----------------------------------------------------------------------------
(* main() asks for what the command line did not say, then sruSubscribe(). *)

PromptForClass ==
  /\ pc = "promptClass"
  /\ \/ /\ input.ClassCount > 0
        /\ pc' = "promptType" /\ UNCHANGED <<input, rc>>
     \/ /\ input.ClassCount = 0
        /\ \E name \in Names :
             IF sruIdToClass(name)
             THEN input' = SetClass(name) /\ pc' = "promptType" /\ UNCHANGED rc
             ELSE Exit(ERROR_RETURN) /\ UNCHANGED input
  /\ UNCHANGED <<command, count, nls, tree, at, parse, want, GetCount, printed, qmgr>>

\* The type is looked up in the first class and counted to the last one.
AddType(name) ==
  LET c == input.ClassCount - 1 IN
  [input EXCEPT !.Type[c] = name, !.ClassTypeCount[c] = @ + 1, !.TypeCount = @ + 1]

PromptForType ==
  /\ pc = "promptType"
  /\ \/ /\ input.TypeCount > 0
        /\ pc' = "subscribe" /\ UNCHANGED <<input, rc>>
     \/ /\ input.TypeCount = 0
        /\ \E name \in Names :
             IF sruIdToClass(input.Class[0]) /\ sruIdToType(input.Class[0], name)
             THEN input' = AddType(name) /\ pc' = "subscribe" /\ UNCHANGED rc
             ELSE Exit(ERROR_RETURN) /\ UNCHANGED input
  /\ UNCHANGED <<command, count, nls, tree, at, parse, want, GetCount, printed, qmgr>>

WantedClass == input.Class[want.idx1]
WantedType == input.Type[want.idx3]
MoreTypes == want.idx2 < input.ClassTypeCount[want.idx1]

\* The object for a topic: the type's, the class's, or the one used last.
ObjectFor ==
  IF input.TypeObjName[want.idx3] # None THEN input.TypeObjName[want.idx3]
  ELSE IF input.ClassObjName[want.idx1] # None THEN input.ClassObjName[want.idx1]
  ELSE want.pObjName

SubscribeData(top, obj) ==
  \/ /\ top # NoTopic /\ MQSUB(top)
     /\ want' = [want EXCEPT !.idx2 = @ + 1, !.idx3 = @ + 1, !.pObjName = obj]
     /\ UNCHANGED <<pc, rc>>
  \/ /\ \E r \in FailReasons : Fails(r, top \notin DOMAIN Content)
     /\ Exit(ERROR_RETURN) /\ UNCHANGED want

SubscribeType ==
  /\ pc = "subscribe" /\ want.idx1 < input.ClassCount
  /\ sruIdToClass(WantedClass) /\ MoreTypes
  /\ sruIdToType(WantedClass, WantedType)
  /\ LET type == typeChain[WantedClass][FirstType(WantedClass, WantedType)] IN
       IF ~type.flags THEN SubscribeData(type.topic, want.pObjName)
       ELSE \E obj \in IF ObjectFor = None THEN Objects ELSE {ObjectFor} :
              SubscribeData(WithObject(type.topic, obj), obj)
  /\ UNCHANGED <<options, tree, at, parse, GetCount, printed>>

\* -1 or 20, which main() returns.
NotRecognised ==
  /\ pc = "subscribe" /\ want.idx1 < input.ClassCount
  /\ \/ ~sruIdToClass(WantedClass) /\ Exit(-1)
     \/ /\ sruIdToClass(WantedClass) /\ MoreTypes
        /\ ~sruIdToType(WantedClass, WantedType) /\ Exit(ERROR_RETURN)
  /\ UNCHANGED <<options, tree, at, parse, want, GetCount, printed, qmgr>>

\* mutant: idx3 starts over with each class.
IndexStartsOver ==
  /\ pc = "subscribe" /\ want.idx1 < input.ClassCount
  /\ sruIdToClass(WantedClass) /\ ~MoreTypes
  /\ want' = [want EXCEPT !.idx1 = @ + 1, !.idx2 = 0, !.idx3 = 0]
  /\ UNCHANGED <<pc, options, tree, at, parse, result, qmgr>>

ClassSubscribed ==
  /\ pc = "subscribe" /\ want.idx1 < input.ClassCount
  /\ sruIdToClass(WantedClass) /\ ~MoreTypes
  /\ want' = [want EXCEPT !.idx1 = @ + 1, !.idx2 = 0]
  /\ UNCHANGED <<pc, options, tree, at, parse, result, qmgr>>

\* rc has its default for the loop that follows.
AllSubscribed ==
  /\ pc = "subscribe" /\ want.idx1 = input.ClassCount
  /\ pc' = "loop" /\ rc' = ERROR_RETURN
  /\ UNCHANGED <<options, tree, at, parse, want, GetCount, printed, qmgr>>

-----------------------------------------------------------------------------
(* main()'s loop. Publications are counted, and kept in printed, when there is a limit. *)

Given(m, name) ==
  LET is == {i \in 1..m.count : m.params[i].p = name} IN
  IF is = {} THEN None ELSE m.params[CHOOSE i \in is : \A j \in is : j <= i].v

\* The elements of a publication that are printed under their name.
sruFormatMessage(m) ==
  LET l == [class_id |-> Given(m, "class"), type_id |-> Given(m, "type")]
      chain == elemChain[<<l.class_id, l.type_id>>]
  IN  IF ~Known(l) THEN {}
      ELSE {e \in {chain[i] : i \in DOMAIN chain} : \E i \in 1..m.count : m.params[i].p = e}

(* The data published for a type names its class and type and has all of its elements. *)
ASSUME DataAssumption ==
  \A q \in Pairs, obj \in Objects \cup {None} : TopicFor(q, obj) \in DOMAIN Content =>
    LET m == Content[TopicFor(q, obj)] IN
    /\ Given(m, "class") = q[1] /\ Given(m, "type") = q[2]
    /\ \A e \in ElemsOf[q] : \E i \in 1..m.count : m.params[i].p = e

Limited == input.MaxGets >= 0

\* mutant: what is printed is not counted.
CountsNothing ==
  /\ pc = "loop" /\ (Limited => GetCount < input.MaxGets)
  /\ tdq # <<>> /\ tdq' = Tail(tdq)
  /\ UNCHANGED <<pc, options, tree, at, parse, want, result>>
  /\ UNCHANGED <<retained, subs, faults, published, failed>>

\* An MQGET that ends with a warning is counted and formatted like any other. Messages are
\* taken to arrive as they were published: a warning that their data could not be converted
\* is not modelled, and one that they are truncated is a failure to the program.
PrintPublication ==
  /\ pc = "loop" /\ (Limited => GetCount < input.MaxGets)
  /\ tdq # <<>> /\ tdq' = Tail(tdq)
  /\ IF Limited
     THEN /\ GetCount' = GetCount + 1
          /\ printed' = Append(printed, [topic |-> Head(tdq),
                                         values |-> sruFormatMessage(Content[Head(tdq)])])
     ELSE UNCHANGED <<GetCount, printed>>
  /\ UNCHANGED <<pc, rc, options, tree, at, parse, want>>
  /\ UNCHANGED <<retained, subs, faults, published, failed>>

\* The thirty seconds are over, or another reason.
GetFails ==
  /\ pc = "loop" /\ (Limited => GetCount < input.MaxGets)
  /\ \E r \in FailReasons \cup {MQRC_NO_MSG_AVAILABLE} : Fails(r, FALSE) \/ NothingCame(r)
  /\ pc' = "disconnect"
  /\ UNCHANGED <<options, tree, at, parse, want, result>>

EnoughPrinted ==
  /\ pc = "loop" /\ Limited /\ GetCount >= input.MaxGets
  /\ pc' = "disconnect" /\ rc' = 0
  /\ UNCHANGED <<options, tree, at, parse, want, GetCount, printed, qmgr>>

MQDISC ==
  /\ pc = "disconnect"
  /\ \/ Works /\ Exit(rc)
     \/ \E r \in FailReasons : Fails(r, FALSE) /\ Exit(ERROR_RETURN)
  /\ UNCHANGED <<options, tree, at, parse, want, GetCount, printed>>

-----------------------------------------------------------------------------
Start == ParseOption \/ BadOption \/ OptionsParsed \/ MQCONN \/ QueryQMName \/ OpenQueue
DiscoverClasses ==
  \/ SubClasses \/ GetClasses \/ LanguageMissing \/ SubDefault \/ GetDefault \/ CloseClasses
  \/ ParseClass \/ ClassesRead
DiscoverTypes ==
  SubTypes \/ GetTypes \/ CloseTypes \/ ParseType \/ TypesRead \/ TypesDone
DiscoverElements ==
  \/ SubElements \/ GetElements \/ CloseElements \/ ParseElement \/ ElementsRead
  \/ NextClass \/ ElementsDone
Subscriptions ==
  \/ PromptForClass \/ PromptForType \/ SubscribeType \/ NotRecognised
  \/ ClassSubscribed \/ AllSubscribed
Publications == PrintPublication \/ GetFails \/ EnoughPrinted \/ MQDISC

Program ==
  \/ Start \/ DiscoverClasses \/ DiscoverTypes \/ DiscoverElements
  \/ Subscriptions \/ Publications

Next == Program \/ (\E top \in Metadata : Publish(top))
                \/ (\E top \in DOMAIN Content \ Metadata : PublishData(top))

Spec == Init /\ [][Next]_vars

\* The process runs, and whoever is asked for a class, a type or an object answers.
FairSpec == Spec /\ WF_vars(Program)

-----------------------------------------------------------------------------
(* Properties *)

TypeOK ==
  /\ count \in 1..Len(command) + 1
  /\ input.ClassCount \in 0..MaxClassCount /\ input.TypeCount \in 0..MaxTypeCount
  /\ input.Class \in [0..MaxClassCount - 1 -> Names]
  /\ input.ClassTypeCount \in [0..MaxClassCount - 1 -> Nat]
  /\ input.ClassObjName \in [0..MaxClassCount - 1 -> Names]
  /\ input.Type \in [0..MaxTypeCount - 1 -> Names]
  /\ input.TypeObjName \in [0..MaxTypeCount - 1 -> Names]
  /\ \A i \in DOMAIN ClassChain : ClassChain[i].id \in Classes
  /\ DOMAIN typeChain = Classes /\ DOMAIN elemChain = DOMAIN ElemsOf
  /\ at.class \in 1..Len(ClassChain) + 1
  /\ want.idx1 \in 0..input.ClassCount
  /\ faults \in 0..MaxFaults /\ published \in 0..MaxPublish
  /\ GetCount = Len(printed)

\* Whatever is published while the program asks, and in which order its answers come, the
\* types it knows of a class are types of that class, and the elements those of the type:
\* a late or repeated answer may leave the tree incomplete, but never mixes it up.
TreeIsSound ==
  /\ \A c \in Classes : \A i \in DOMAIN typeChain[c] : typeChain[c][i].id \in TypesOf[c]
  /\ \A q \in DOMAIN ElemsOf : \A i \in DOMAIN elemChain[q] : elemChain[q][i] \in ElemsOf[q]

\* When a call that matters has failed (all but the close of a language's subscription),
\* or an answer has not come in time, the program ends with another status than 0. The
\* exporter uses the output of a process that ends with 0 (mq.py:817, check=True). This is
\* so of the reasons that ReasonAssumption allows, and of no others.
FailuresAreReported == pc = "ended" /\ failed => rc # 0

Positions(opt) == {i \in DOMAIN command : command[i].opt = opt}

\* The class of a type is the last one before it.
ClassPosition(i) ==
  LET before == {j \in Positions("-c") : j < i} IN
  IF before = {} THEN 0 ELSE CHOOSE j \in before : \A k \in before : k <= j
AskedPair(i) ==
  <<IF ClassPosition(i) = 0 THEN None ELSE command[ClassPosition(i)].arg, command[i].arg>>

\* The objects named after an option and before the next one of its kind.
ObjectsAfter(i, opt) ==
  {j \in Positions("-o") : j > i /\ \A k \in i + 1..j : command[k].opt # opt}

\* A type's object is the last one named for it, or else the first one for its class.
AskedObject(i) ==
  LET own == ObjectsAfter(i, "-t")
      ofClass == ObjectsAfter(ClassPosition(i), "-c")
  IN  IF own # {} THEN command[CHOOSE j \in own : \A k \in own : k <= j].arg
      ELSE IF ofClass # {} THEN command[CHOOSE j \in ofClass : \A k \in ofClass : j <= k].arg
      ELSE None

AskedTopic(i) == TopicFor(AskedPair(i), AskedObject(i))
AskedTopics == {AskedTopic(i) : i \in Positions("-t")}

\* A line that the program can store and that leaves nothing to ask for, with types that
\* exist in their classes.
Complete ==
  /\ Cardinality(Positions("-c")) <= MaxClassCount
  /\ Cardinality(Positions("-t")) \in 1..MaxTypeCount
  /\ \A i \in Positions("-t") :
       AskedPair(i) \in Pairs /\ (PerObject(AskedPair(i)) => AskedObject(i) # None)

Quiet == published = 0

\* Unless metadata is published while it runs, the program waits for the data of exactly
\* the classes and types on its command line: the three indices of sruSubscribe() pair
\* them as they were given, and every topic found in the metadata has been replaced by the
\* one that the data is published on.
SubscribesAsAsked ==
  Quiet /\ Complete /\ pc = "loop" =>
    {subs[i] : i \in DOMAIN subs} \ Metadata = AskedTopics

\* Unless metadata is published while it runs, an exit status of 0 means that the asked
\* number of publications was printed, all of them data of what was asked for and with
\* every element under its name: nothing left from the discovery is counted, and a
\* discovery that failed half way does not look like a result.
ZeroMeansData ==
  Quiet /\ Complete /\ pc = "ended" /\ rc = 0 =>
    /\ Len(printed) = input.MaxGets
    /\ \A i \in DOMAIN printed :
         \E j \in Positions("-t") : /\ printed[i].topic = AskedTopic(j)
                                    /\ printed[i].values = ElemsOf[AskedPair(j)]

\* With a limit on the publications the program ends: every wait is bounded, whatever is
\* published meanwhile, and no loop is entered again without progress.
Terminates == (Limited /\ pc = "connect") ~> (pc = "ended")
=============================================================================
