--------------------------- MODULE MCResourceUsage ---------------------------
(* Two classes: A with the types a1, of two elements, and a2; B with b1, which has data *)
(* for each object.                                                                     *)
EXTENDS ResourceUsage, TLC

P(name, value) == [p |-> name, v |-> value]
Opt(o, a) == [opt |-> o, arg |-> a]

MCTypesOf == [A |-> {"a1", "a2"}, B |-> {"b1"}]
MCElemsOf == (<<"A", "a1">> :> {"e1", "e4"}) @@ (<<"A", "a2">> :> {"e2"}) @@ (<<"B", "b1">> :> {"e3"})
MCDataTopic == [q \in DOMAIN MCElemsOf |->
                 IF q[1] = "B" THEN <<"DATA", "B", "b1", "%s">> ELSE <<"DATA", q[1], q[2]>>]
MCTypesTopic == [c \in DOMAIN MCTypesOf |-> <<"META", "TYPES", c>>]
MCElementsTopic == [q \in DOMAIN MCElemsOf |-> <<"META", "ELEMENTS", q[1], q[2]>>]
MCRootTopic == <<"META", "CLASSES">>
MCLangTopic == <<"META", "CLASSES", "nls">>

ClassesAnswer ==
  [count |-> 2,
   params |-> <<P("classGroup", 3), P("class", "A"), P("flags", FALSE), P("topic", MCTypesTopic["A"]),
                P("classGroup", 3), P("class", "B"), P("flags", TRUE), P("topic", MCTypesTopic["B"])>>]
TypeGroup(c, t) == <<P("typeGroup", 2), P("type", t), P("topic", MCElementsTopic[<<c, t>>])>>
TypesA == [count |-> 4, params |-> <<P("class", "A"), P("flags", FALSE)>> \o TypeGroup("A", "a1") \o TypeGroup("A", "a2")]
TypesB == [count |-> 3, params |-> <<P("class", "B"), P("flags", TRUE)>> \o TypeGroup("B", "b1")]
ElemGroup(e) == <<P("elemGroup", 1), P("elem", e)>>
Elements(c, t, groups) ==
  [count |-> 3 + Len(groups) \div 2,
   params |-> <<P("class", c), P("type", t)>> \o groups \o <<P("topic", MCDataTopic[<<c, t>>])>>]
Data(c, t, values) == [count |-> 2 + Len(values), params |-> <<P("class", c), P("type", t)>> \o values]

MetaContent ==
  (MCRootTopic :> ClassesAnswer) @@ (MCLangTopic :> ClassesAnswer) @@
  (MCTypesTopic["A"] :> TypesA) @@ (MCTypesTopic["B"] :> TypesB) @@
  (MCElementsTopic[<<"A", "a1">>] :> Elements("A", "a1", ElemGroup("e1") \o ElemGroup("e4"))) @@
  (MCElementsTopic[<<"A", "a2">>] :> Elements("A", "a2", ElemGroup("e2"))) @@
  (MCElementsTopic[<<"B", "b1">>] :> Elements("B", "b1", ElemGroup("e3")))
MCMetadata == DOMAIN MetaContent
MCContent ==
  MetaContent @@ (<<"DATA", "A", "a1">> :> Data("A", "a1", <<P("e1", 0), P("e4", 0)>>)) @@
  (<<"DATA", "A", "a2">> :> Data("A", "a2", <<P("e2", 0)>>)) @@
  [top \in {<<"DATA", "B", "b1", "q">>, <<"DATA", "B", "b1", "r">>} |->
    Data("B", "b1", <<P("e3", 0)>>)]

MCInitialTopics ==
  {MCMetadata, MCMetadata \ {MCLangTopic}, MCMetadata \ {MCElementsTopic[<<"A", "a2">>]}}

MCCommands ==
  {<<Opt("-m", "QM"), Opt("-c", "A"), Opt("-t", "a1"), Opt("-n", 1)>>,
   <<Opt("-m", "QM"), Opt("-c", "B"), Opt("-t", "b1"), Opt("-n", 1), Opt("-o", "q")>>,
   <<Opt("-c", "A"), Opt("-t", "a2"), Opt("-c", "B"), Opt("-t", "b1"), Opt("-o", "q"), Opt("-n", 2)>>,
   <<Opt("-c", "B"), Opt("-c", "A"), Opt("-c", "B"), Opt("-n", 1)>>,
   <<Opt("-s", "MODEL"), Opt("-t", "a1"), Opt("-n", 0), Opt("-p", "$SYS"), Opt("-d", 1)>>,
   <<Opt("-n", 1)>>,
   <<Opt("-c", "q"), Opt("-t", "a1")>>,
   <<Opt("-c", "A"), Opt("-t", "a1"), Opt("-c", "A"), Opt("-t", "a2"), Opt("-n", 2)>>,
   <<Opt("-c", "B"), Opt("-o", "q"), Opt("-t", "b1"), Opt("-c", "B"), Opt("-t", "b1"), Opt("-o", "r"), Opt("-n", 2)>>,
   <<Opt("-c", "A"), Opt("-t", "b1")>>,
   <<Opt("-c", "B"), Opt("-t", "b1")>>,
   <<Opt("-p", "/")>>,
   <<Opt("-x", "")>>}
=============================================================================
