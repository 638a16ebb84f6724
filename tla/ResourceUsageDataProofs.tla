---------------------- MODULE ResourceUsageDataProofs ----------------------
(* Proofs about ResourceUsage: that an undisturbed run waits for the data that its command *)
(* line asks for, and that an exit status of 0 means that this data was printed.           *)
EXTENDS ResourceUsageTypeProofs, WellFoundedInduction

-----------------------------------------------------------------------------
(* What the options up to the k-th have stored. cpos and tpos are the positions on the  *)
(* command line of the classes and the types, start[c] is the number of types that      *)
(* classes before the one in slot c have.                                               *)

UpTo(opt, k) == {i \in Positions(opt) : i <= k}

\* The slots 0..n-1 hold the options of the kind in their order.
Slots(k, opt, pos, n) ==
  /\ n = Cardinality(UpTo(opt, k))
  /\ pos \in [0..n - 1 -> UpTo(opt, k)]
  /\ \A i \in UpTo(opt, k) : \E s \in 0..n - 1 : pos[s] = i
  /\ \A s, u \in 0..n - 1 : s < u => pos[s] < pos[u]

IsFirst(js, name) ==
  \/ js = {} /\ name = None
  \/ \E j \in js : (\A i \in js : j <= i) /\ name = command[j].arg
IsLast(js, name) ==
  \/ js = {} /\ name = None
  \/ \E j \in js : (\A i \in js : i <= j) /\ name = command[j].arg
ObjectsUpTo(i, opt, k) == {j \in ObjectsAfter(i, opt) : j <= k}

ClassSlots(in, k, cpos) ==
  /\ Slots(k, "-c", cpos, in.ClassCount)
  /\ \A c \in 0..in.ClassCount - 1 :
       /\ in.Class[c] = command[cpos[c]].arg
       /\ IsFirst(ObjectsUpTo(cpos[c], "-c", k), in.ClassObjName[c])
  /\ \A c \in in.ClassCount..MaxClassCount - 1 :
       in.ClassTypeCount[c] = 0 /\ in.ClassObjName[c] = None

TypeSlots(in, k, tpos) ==
  /\ Slots(k, "-t", tpos, in.TypeCount)
  /\ \A n \in 0..in.TypeCount - 1 :
       /\ in.Type[n] = command[tpos[n]].arg
       /\ IsLast(ObjectsUpTo(tpos[n], "-t", k), in.TypeObjName[n])
  /\ \A n \in in.TypeCount..MaxTypeCount - 1 : in.TypeObjName[n] = None

Paired(in, cpos, tpos, start) ==
  /\ start \in [0..in.ClassCount -> Nat]
  /\ start[0] = 0 /\ start[in.ClassCount] = in.TypeCount
  /\ \A c \in 0..in.ClassCount : start[c] <= in.TypeCount
  /\ \A c \in 0..in.ClassCount - 1 :
       /\ start[c + 1] = start[c] + in.ClassTypeCount[c]
       /\ \A n \in 0..in.TypeCount - 1 :
            start[c] <= n /\ n < start[c + 1] => ClassPosition(tpos[n]) = cpos[c]

Stored(in, k, cpos, tpos, start) ==
  ClassSlots(in, k, cpos) /\ TypeSlots(in, k, tpos) /\ Paired(in, cpos, tpos, start)

\* A function on 0..n - 1 gets a value at n.
Extended(f, n, x) == [i \in 0..n |-> IF i = n THEN x ELSE f[i]]

LEMMA UpToGrows ==
  ASSUME CommandInv, NEW k \in Nat, NEW next, next = k + 1, NEW opt
  PROVE  /\ IsFiniteSet(UpTo(opt, k)) /\ IsFiniteSet(Positions(opt))
         /\ UpTo(opt, k) \subseteq 1..k
         /\ Cardinality(UpTo(opt, k)) \in Nat
         /\ Cardinality(UpTo(opt, k)) <= Cardinality(Positions(opt))
         /\ next \in Positions(opt) =>
              /\ UpTo(opt, next) = UpTo(opt, k) \cup {next}
              /\ Cardinality(UpTo(opt, next)) = Cardinality(UpTo(opt, k)) + 1
              /\ Cardinality(UpTo(opt, k)) < Cardinality(Positions(opt))
         /\ next \notin Positions(opt) => UpTo(opt, next) = UpTo(opt, k)
<1> DEFINE U(i) == UpTo(opt, i)
           P == Positions(opt)
<1>1. DOMAIN command = 1..Len(command) /\ Len(command) \in Nat
  BY CommandIsSequence
<1>2. IsFiniteSet(P) /\ P \subseteq Nat \ {0}
  <2>1. IsFiniteSet(1..Len(command))
    BY <1>1, FS_Interval
  <2>2. P \subseteq 1..Len(command)
    BY <1>1 DEF Positions
  <2> QED
    BY <2>1, <2>2, FS_Subset
<1>3. \A i \in Nat : U(i) \subseteq P /\ IsFiniteSet(U(i)) /\ Cardinality(U(i)) \in Nat
                     /\ Cardinality(U(i)) <= Cardinality(P) /\ U(i) \subseteq 1..i
  <2> TAKE i \in Nat
  <2>1. U(i) \subseteq P
    BY DEF UpTo
  <2>2. IsFiniteSet(U(i)) /\ Cardinality(U(i)) <= Cardinality(P)
    BY <1>2, <2>1, FS_Subset
  <2>3. U(i) \subseteq 1..i
    BY <1>2 DEF UpTo
  <2> QED
    BY <2>1, <2>2, <2>3, FS_CardinalityType
<1>4. ASSUME next \in P
      PROVE  /\ U(next) = U(k) \cup {next}
             /\ Cardinality(U(next)) = Cardinality(U(k)) + 1
             /\ Cardinality(U(k)) < Cardinality(P)
  <2>1. U(next) = U(k) \cup {next} /\ next \notin U(k)
    BY <1>2, <1>4 DEF UpTo
  <2>2. Cardinality(U(next)) = Cardinality(U(k)) + 1
    BY <1>3, <2>1, FS_AddElement
  <2>3. Cardinality(U(next)) <= Cardinality(P) /\ Cardinality(U(k)) \in Nat
        /\ Cardinality(P) \in Nat
    BY <1>2, <1>3, FS_CardinalityType
  <2> HIDE DEF U, P
  <2> QED
    BY <2>1, <2>2, <2>3
<1>5. next \notin P => U(next) = U(k)
  BY <1>2 DEF UpTo
<1> QED
  BY <1>2, <1>3, <1>4, <1>5

LEMMA SlotIsAdded ==
  ASSUME CommandInv, NEW k \in Nat, NEW next, next = k + 1, NEW opt, NEW pos, NEW n, Slots(k, opt, pos, n),
         next \in Positions(opt)
  PROVE  Slots(next, opt, Extended(pos, n, next), n + 1)
<1> DEFINE pos2 == Extended(pos, n, next)
           U == UpTo(opt, k)
<1>1. n \in Nat /\ n + 1 = Cardinality(UpTo(opt, next)) /\ UpTo(opt, next) = U \cup {next}
      /\ U \subseteq 1..k
  <2>1. n = Cardinality(UpTo(opt, k))
    BY DEF Slots
  <2>2. /\ UpTo(opt, k) \subseteq 1..k /\ Cardinality(UpTo(opt, k)) \in Nat
        /\ UpTo(opt, next) = UpTo(opt, k) \cup {next}
        /\ Cardinality(UpTo(opt, next)) = Cardinality(UpTo(opt, k)) + 1
    BY UpToGrows
  <2> QED
    BY <2>1, <2>2
<1>2. /\ pos \in [0..n - 1 -> U]
      /\ \A i \in U : \E s \in 0..n - 1 : pos[s] = i
      /\ \A s, u \in 0..n - 1 : s < u => pos[s] < pos[u]
  BY DEF Slots
<1>3. DOMAIN pos2 = 0..n /\ pos2[n] = next /\ \A s \in 0..n - 1 : pos2[s] = pos[s]
  BY <1>1 DEF Extended
<1>4. pos2 = [s \in 0..n |-> pos2[s]]
  BY DEF Extended
<1> HIDE DEF pos2, U
<1>5. pos2 \in [0..n -> U \cup {next}]
  <2>1. \A s \in 0..n : s = n \/ s \in 0..n - 1
    BY <1>1
  <2>2. \A s \in 0..n : pos2[s] \in U \cup {next}
    BY <1>2, <1>3, <2>1
  <2> QED
    BY <1>4, <2>2
<1>6. \A i \in U \cup {next} : \E s \in 0..n : pos2[s] = i
  <2> TAKE i \in U \cup {next}
  <2>1. CASE i = next
    BY <1>1, <1>3, <2>1
  <2>2. CASE i \in U
    <3>1. PICK s \in 0..n - 1 : pos[s] = i
      BY <1>2, <2>2
    <3>2. s \in 0..n
      BY <1>1, <3>1
    <3> QED
      BY <1>3, <3>1, <3>2
  <2> QED
    BY <2>1, <2>2
<1>7. \A s, u \in 0..n : s < u => pos2[s] < pos2[u]
  <2> TAKE s, u \in 0..n
  <2> HAVE s < u
  <2>1. s \in 0..n - 1 /\ (u = n \/ u \in 0..n - 1)
    BY <1>1
  <2>2. pos[s] \in 1..k
    BY <1>1, <1>2, <2>1
  <2> QED
    BY <1>2, <1>3, <2>1, <2>2
<1>8. (n + 1) - 1 = n
  BY <1>1
<1> QED
  BY <1>1, <1>5, <1>6, <1>7, <1>8 DEF Slots, pos2

LEMMA SlotsAreKept ==
  ASSUME CommandInv, NEW k \in Nat, NEW next, next = k + 1, NEW opt, NEW pos, NEW n, Slots(k, opt, pos, n),
         next \notin Positions(opt)
  PROVE  Slots(next, opt, pos, n)
BY UpToGrows DEF Slots

\* An object belongs to the options that come last.
ObjectsGrow(k, next, opt, pos, n) ==
  \A s \in 0..n - 1 : \A j :
    j \in ObjectsUpTo(pos[s], opt, next) <=>
      \/ j \in ObjectsUpTo(pos[s], opt, k)
      \/ j = next /\ command[next].opt = "-o" /\ s = n - 1

LEMMA LastSlotGetsObject ==
  ASSUME CommandInv, NEW k \in Nat, NEW next, next = k + 1, next \in DOMAIN command, NEW opt, opt # "-o",
         NEW n, NEW pos, Slots(k, opt, pos, n)
  PROVE  ObjectsGrow(k, next, opt, pos, n)
<1> SUFFICES ASSUME NEW s \in 0..n - 1
             PROVE  \A j : j \in ObjectsUpTo(pos[s], opt, next) <=>
                             \/ j \in ObjectsUpTo(pos[s], opt, k)
                             \/ j = next /\ command[next].opt = "-o" /\ s = n - 1
  BY DEF ObjectsGrow
<1>0. n \in Nat /\ UpTo(opt, k) \subseteq 1..k
  BY UpToGrows DEF Slots
<1>1. pos[s] \in Positions(opt) /\ pos[s] \in 1..k
  BY <1>0 DEF Slots, UpTo
<1>2. DOMAIN command = 1..Len(command) /\ Len(command) \in Nat
  BY CommandIsSequence
<1>3. \A j \in ObjectsAfter(pos[s], opt) : j \in Nat \ {0}
  BY <1>2 DEF ObjectsAfter, Positions
<1>4. next \in ObjectsAfter(pos[s], opt) <=> command[next].opt = "-o" /\ s = n - 1
  <2>1. ASSUME s = n - 1, NEW i \in pos[s] + 1..k
        PROVE  i \in DOMAIN command => command[i].opt # opt
    <3>1. SUFFICES ASSUME i \in DOMAIN command, command[i].opt = opt
                   PROVE  FALSE
      OBVIOUS
    <3>2. i \in UpTo(opt, k)
      BY <1>1, <2>1, <3>1 DEF UpTo, Positions
    <3>3. PICK u \in 0..n - 1 : pos[u] = i
      BY <3>2 DEF Slots
    <3>4. u = s \/ u < s
      BY <1>0, <2>1
    <3>5. u < s => pos[u] < pos[s]
      BY DEF Slots
    <3> QED
      BY <1>1, <2>1, <3>3, <3>4, <3>5
  <2>2. ASSUME s # n - 1
        PROVE  \E i \in pos[s] + 1..next : i \in DOMAIN command /\ command[i].opt = opt
    <3>1. n - 1 \in 0..n - 1 /\ s < n - 1
      BY <1>0, <2>2
    <3>2. pos[s] < pos[n - 1] /\ pos[n - 1] \in UpTo(opt, k)
      BY <3>1 DEF Slots
    <3>3. pos[n - 1] \in 1..k /\ pos[n - 1] \in Positions(opt)
      BY <1>0, <3>2 DEF UpTo
    <3> QED
      BY <1>1, <3>2, <3>3 DEF Positions
  <2>3. \A i \in pos[s] + 1..k : i \in DOMAIN command
    BY <1>1, <1>2
  <2>4. next > pos[s] /\ \A i \in pos[s] + 1..next : i = next \/ i \in pos[s] + 1..k
    BY <1>1
  <2> QED
    BY <1>1, <2>1, <2>2, <2>3, <2>4 DEF ObjectsAfter, Positions
<1>5. \A j \in ObjectsAfter(pos[s], opt) : j <= next <=> j <= k \/ j = next
  BY <1>3
<1> QED
  BY <1>1, <1>3, <1>4, <1>5 DEF ObjectsUpTo

LEMMA ObjectsAreKept ==
  ASSUME CommandInv, NEW k \in Nat, NEW next, next = k + 1, next \in DOMAIN command, command[next].opt # "-o",
         NEW opt, opt # "-o", NEW n, NEW pos, Slots(k, opt, pos, n)
  PROVE  \A s \in 0..n - 1 :
           ObjectsUpTo(pos[s], opt, next) = ObjectsUpTo(pos[s], opt, k)
<1>1. ObjectsGrow(k, next, opt, pos, n)
  BY LastSlotGetsObject, Zenon
<1> QED
  BY <1>1 DEF ObjectsGrow

\* The fields after each of the options.
LEMMA FieldsSet ==
  ASSUME input \in InputType, NEW name
  PROVE  LET C == input.ClassCount
             N == input.TypeCount
             c == SetClass(name)
             t == SetType(name)
             o == SetObject(name)
         IN  /\ C < MaxClassCount =>
                  /\ c.ClassCount = C + 1 /\ c.TypeCount = N
                  /\ c.Class = [input.Class EXCEPT ![C] = name] /\ c.Type = input.Type
                  /\ c.ClassTypeCount = input.ClassTypeCount
                  /\ c.ClassObjName = input.ClassObjName /\ c.TypeObjName = input.TypeObjName
             /\ N < MaxTypeCount /\ C # 0 =>
                  /\ t.ClassCount = C /\ t.TypeCount = N + 1
                  /\ t.Class = input.Class /\ t.Type = [input.Type EXCEPT ![N] = name]
                  /\ t.ClassTypeCount =
                       [input.ClassTypeCount EXCEPT ![C - 1] = input.ClassTypeCount[C - 1] + 1]
                  /\ t.ClassObjName = input.ClassObjName /\ t.TypeObjName = input.TypeObjName
             /\ o.ClassCount = C /\ o.TypeCount = N
             /\ o.Class = input.Class /\ o.Type = input.Type
             /\ o.ClassTypeCount = input.ClassTypeCount
             /\ o.ClassObjName = IF C >= 1 /\ input.ClassObjName[C - 1] = None
                                 THEN [input.ClassObjName EXCEPT ![C - 1] = name]
                                 ELSE input.ClassObjName
             /\ o.TypeObjName = IF N = 0 THEN input.TypeObjName
                                ELSE [input.TypeObjName EXCEPT ![N - 1] = name]
<1> DEFINE C == input.ClassCount
           N == input.TypeCount
<1>0. C \in 0..MaxClassCount /\ N \in 0..MaxTypeCount
  BY DEF InputType
<1>1. C < MaxClassCount =>
        /\ SetClass(name).ClassCount = C + 1 /\ SetClass(name).TypeCount = N
        /\ SetClass(name).Class = [input.Class EXCEPT ![C] = name]
        /\ SetClass(name).Type = input.Type
        /\ SetClass(name).ClassTypeCount = input.ClassTypeCount
        /\ SetClass(name).ClassObjName = input.ClassObjName
        /\ SetClass(name).TypeObjName = input.TypeObjName
  BY DEF SetClass, InputType
<1>2. N < MaxTypeCount /\ C # 0 =>
        /\ SetType(name).ClassCount = C /\ SetType(name).TypeCount = N + 1
        /\ SetType(name).Class = input.Class
        /\ SetType(name).Type = [input.Type EXCEPT ![N] = name]
        /\ SetType(name).ClassTypeCount =
             [input.ClassTypeCount EXCEPT ![C - 1] = input.ClassTypeCount[C - 1] + 1]
        /\ SetType(name).ClassObjName = input.ClassObjName
        /\ SetType(name).TypeObjName = input.TypeObjName
  BY DEF SetType, InputType
<1>3. /\ SetObject(name).ClassCount = C /\ SetObject(name).TypeCount = N
      /\ SetObject(name).Class = input.Class /\ SetObject(name).Type = input.Type
      /\ SetObject(name).ClassTypeCount = input.ClassTypeCount
      /\ SetObject(name).ClassObjName =
           IF C >= 1 /\ input.ClassObjName[C - 1] = None
           THEN [input.ClassObjName EXCEPT ![C - 1] = name] ELSE input.ClassObjName
      /\ SetObject(name).TypeObjName =
           IF N = 0 THEN input.TypeObjName ELSE [input.TypeObjName EXCEPT ![N - 1] = name]
  <2>1. C - 1 >= 0 <=> C >= 1
    BY <1>0
  <2> QED
    BY <2>1 DEF SetObject, InputType
<1> QED
  BY <1>1, <1>2, <1>3

LEMMA ClassSlotsKept ==
  ASSUME CommandInv, NEW k \in Nat, NEW next, next = k + 1, next \in DOMAIN command,
         command[next].opt \notin {"-c", "-o"},
         NEW in, NEW in2, NEW cpos, ClassSlots(in, k, cpos),
         in2.ClassCount = in.ClassCount, in2.Class = in.Class,
         in2.ClassObjName = in.ClassObjName,
         \A c \in in.ClassCount..MaxClassCount - 1 : in2.ClassTypeCount[c] = in.ClassTypeCount[c]
  PROVE  ClassSlots(in2, next, cpos)
<1>1. Slots(k, "-c", cpos, in.ClassCount)
  BY DEF ClassSlots
<1>2. Slots(next, "-c", cpos, in.ClassCount)
  BY <1>1, SlotsAreKept DEF Positions
<1>3. \A c \in 0..in.ClassCount - 1 :
        ObjectsUpTo(cpos[c], "-c", next) = ObjectsUpTo(cpos[c], "-c", k)
  BY <1>1, ObjectsAreKept
<1> QED
  BY <1>2, <1>3 DEF ClassSlots

LEMMA TypeSlotsKept ==
  ASSUME CommandInv, NEW k \in Nat, NEW next, next = k + 1, next \in DOMAIN command,
         command[next].opt \notin {"-t", "-o"},
         NEW in, NEW in2, NEW tpos, TypeSlots(in, k, tpos),
         in2.TypeCount = in.TypeCount, in2.Type = in.Type, in2.TypeObjName = in.TypeObjName
  PROVE  TypeSlots(in2, next, tpos)
<1>1. Slots(k, "-t", tpos, in.TypeCount)
  BY DEF TypeSlots
<1>2. Slots(next, "-t", tpos, in.TypeCount)
  BY <1>1, SlotsAreKept DEF Positions
<1>3. \A n \in 0..in.TypeCount - 1 :
        ObjectsUpTo(tpos[n], "-t", next) = ObjectsUpTo(tpos[n], "-t", k)
  BY <1>1, ObjectsAreKept
<1> QED
  BY <1>2, <1>3 DEF TypeSlots

\* Options that come at the end have no objects yet.
LEMMA NoObjectsYet ==
  ASSUME CommandInv, NEW k \in Nat, NEW opt
  PROVE  ObjectsUpTo(k, opt, k) = {}
BY CommandIsSequence DEF ObjectsUpTo, ObjectsAfter, Positions

LEMMA ClassIsStored ==
  ASSUME CommandInv, input \in InputType, NEW k \in Nat, NEW next, next = k + 1, next \in DOMAIN command,
         command[next].opt = "-c", Cardinality(Positions("-c")) <= MaxClassCount,
         NEW cpos, NEW tpos, NEW start, Stored(input, k, cpos, tpos, start)
  PROVE  Stored(SetClass(command[next].arg), next, Extended(cpos, input.ClassCount, next), tpos,
                Extended(start, input.ClassCount + 1, input.TypeCount))
<1> DEFINE C == input.ClassCount
           N == input.TypeCount
           in == SetClass(command[next].arg)
           cpos2 == Extended(cpos, C, next)
           start2 == Extended(start, C + 1, N)
<1>1. next \in Positions("-c") /\ next \notin Positions("-t")
  BY DEF Positions
<1>2. Slots(k, "-c", cpos, C) /\ Slots(k, "-t", tpos, N)
  BY DEF Stored, ClassSlots, TypeSlots
<1>3. C \in Nat /\ C < MaxClassCount /\ MaxClassCount \in Nat /\ N \in Nat
  <2>1. C = Cardinality(UpTo("-c", k)) /\ N = Cardinality(UpTo("-t", k))
    BY <1>2 DEF Slots
  <2>2. Cardinality(Positions("-c")) \in Nat
    BY UpToGrows, FS_CardinalityType
  <2> QED
    BY <1>1, <2>1, <2>2, UpToGrows, BoundsAssumption
<1>4. /\ in.ClassCount = C + 1 /\ in.TypeCount = N
      /\ in.Class = [input.Class EXCEPT ![C] = command[next].arg] /\ in.Type = input.Type
      /\ in.ClassTypeCount = input.ClassTypeCount
      /\ in.ClassObjName = input.ClassObjName /\ in.TypeObjName = input.TypeObjName
  BY <1>3, FieldsSet
<1>5. input.Class \in ClassNames
  BY DEF InputType
<1> HIDE DEF C, N, in
<1>6. /\ DOMAIN cpos2 = 0..C /\ cpos2[C] = next /\ \A c \in 0..C - 1 : cpos2[c] = cpos[c]
      /\ start2 \in [0..C + 1 -> Nat] /\ start2[C + 1] = N /\ \A c \in 0..C : start2[c] = start[c]
  <2>1. start \in [0..C -> Nat]
    BY DEF Stored, Paired, C
  <2> QED
    BY <1>3, <2>1 DEF Extended
<1>7. ClassSlots(in, next, cpos2)
  <2>1. Slots(next, "-c", cpos2, C + 1)
    BY <1>1, <1>2, SlotIsAdded
  <2> HIDE DEF cpos2, start2
  <2>2. ASSUME NEW c \in 0..C
        PROVE  /\ in.Class[c] = command[cpos2[c]].arg
               /\ IsFirst(ObjectsUpTo(cpos2[c], "-c", next), in.ClassObjName[c])
    <3>1. CASE c = C
      <4>1. ObjectsUpTo(next, "-c", next) = {}
        <5>1. next \in Nat
          OBVIOUS
        <5> QED
          BY <5>1, NoObjectsYet, Zenon
      <4>2. input.ClassObjName[C] = None
        BY <1>3 DEF Stored, ClassSlots, C
      <4>3. in.Class[C] = command[next].arg
        BY <1>3, <1>4, <1>5 DEF ClassNames
      <4> QED
        BY <1>4, <1>6, <3>1, <4>1, <4>2, <4>3 DEF IsFirst
    <3>2. CASE c \in 0..C - 1
      <4>1. ObjectsUpTo(cpos[c], "-c", next) = ObjectsUpTo(cpos[c], "-c", k)
        BY <1>2, <3>2, ObjectsAreKept
      <4>2. input.Class[c] = command[cpos[c]].arg
            /\ IsFirst(ObjectsUpTo(cpos[c], "-c", k), input.ClassObjName[c])
        BY <3>2 DEF Stored, ClassSlots, C
      <4>3. in.Class[c] = input.Class[c]
        BY <1>3, <1>4, <1>5, <3>2 DEF ClassNames
      <4> QED
        BY <1>4, <1>6, <3>2, <4>1, <4>2, <4>3
    <3> QED
      BY <1>3, <3>1, <3>2
  <2>3. \A c \in C + 1..MaxClassCount - 1 : in.ClassTypeCount[c] = 0 /\ in.ClassObjName[c] = None
    <3>1. \A c \in C..MaxClassCount - 1 :
            input.ClassTypeCount[c] = 0 /\ input.ClassObjName[c] = None
      BY DEF Stored, ClassSlots, C
    <3> QED
      BY <1>3, <1>4, <3>1
  <2>4. 0..(C + 1) - 1 = 0..C
    BY <1>3
  <2> QED
    BY <1>4, <2>1, <2>2, <2>3, <2>4 DEF ClassSlots
<1>8. TypeSlots(in, next, tpos)
  BY <1>4, TypeSlotsKept DEF Stored, N
<1>9. Paired(in, cpos2, tpos, start2)
  <2> HIDE DEF cpos2, start2
  <2>1. /\ start[0] = 0 /\ start[C] = N /\ \A c \in 0..C : start[c] <= N
        /\ \A c \in 0..C - 1 :
             /\ start[c + 1] = start[c] + input.ClassTypeCount[c]
             /\ \A n \in 0..N - 1 :
                  start[c] <= n /\ n < start[c + 1] => ClassPosition(tpos[n]) = cpos[c]
    BY DEF Stored, Paired, C, N
  <2>2. input.ClassTypeCount[C] = 0
    BY <1>3 DEF Stored, ClassSlots, C
  <2>3. \A c \in 0..C + 1 : start2[c] <= N
    <3>1. \A c \in 0..C + 1 : c = C + 1 \/ c \in 0..C
      BY <1>3
    <3>2. \A c \in 0..C : start2[c] <= N
      BY <1>6, <2>1
    <3>3. start2[C + 1] <= N
      BY <1>3, <1>6
    <3> QED
      BY <3>1, <3>2, <3>3
  <2>4. ASSUME NEW c \in 0..C
        PROVE  /\ start2[c + 1] = start2[c] + in.ClassTypeCount[c]
               /\ \A n \in 0..N - 1 :
                    start2[c] <= n /\ n < start2[c + 1] => ClassPosition(tpos[n]) = cpos2[c]
    <3>1. CASE c = C
      BY <1>3, <1>4, <1>6, <2>1, <2>2, <3>1
    <3>2. CASE c \in 0..C - 1
      <4>1. c \in 0..C /\ c + 1 \in 0..C
        BY <1>3, <3>2
      <4> QED
        BY <1>4, <1>6, <2>1, <3>2, <4>1
    <3> QED
      BY <1>3, <3>1, <3>2
  <2>5. 0..(C + 1) - 1 = 0..C /\ 0 \in 0..C
    BY <1>3
  <2> QED
    BY <1>4, <1>6, <2>1, <2>3, <2>4, <2>5 DEF Paired
<1> QED
  BY <1>7, <1>8, <1>9 DEF Stored, in, C, N

\* The class of a type that comes at the end is the last one.
LEMMA LastClass ==
  ASSUME CommandInv, NEW k \in Nat, NEW next, next = k + 1,
         NEW n, NEW cpos, Slots(k, "-c", cpos, n)
  PROVE  /\ n >= 1 => ClassPosition(next) = cpos[n - 1]
         /\ n = 0 => ClassPosition(next) = 0
<1> DEFINE before == {j \in Positions("-c") : j < next}
           latest == CHOOSE j \in before : \A i \in before : i <= j
<1>0. n \in Nat /\ UpTo("-c", k) \subseteq 1..k /\ DOMAIN command \subseteq Nat
  BY UpToGrows, CommandIsSequence DEF Slots
<1>1. before = UpTo("-c", k)
  BY <1>0 DEF UpTo, Positions
<1>2. CASE n >= 1
  <2> DEFINE last == cpos[n - 1]
  <2>1. n - 1 \in 0..n - 1
    BY <1>0, <1>2
  <2>2. last \in before
    BY <1>1, <2>1 DEF Slots
  <2>3. ASSUME NEW j \in before
        PROVE  j <= last /\ (last <= j => j = last)
    <3>1. PICK s \in 0..n - 1 : cpos[s] = j
      BY <1>1 DEF Slots
    <3>2. s = n - 1 \/ s < n - 1
      BY <1>0
    <3>3. s < n - 1 => j < last
      BY <2>1, <3>1 DEF Slots
    <3>4. j \in Nat /\ last \in Nat
      BY <1>0, <1>1, <2>2
    <3> QED
      BY <3>1, <3>2, <3>3, <3>4
  <2> HIDE DEF before, last
  <2>4. latest = last
    BY <2>2, <2>3
  <2>5. before # {}
    BY <2>2
  <2>6. ClassPosition(next) = IF before = {} THEN 0 ELSE latest
    BY DEF ClassPosition, before
  <2> HIDE DEF latest
  <2>7. ClassPosition(next) = last /\ n # 0
    BY <1>2, <2>4, <2>5, <2>6
  <2> QED
    BY <2>7 DEF last
<1>3. CASE n = 0
  <2>1. before = {}
    BY <1>1, <1>3 DEF Slots
  <2> QED
    BY <1>3, <2>1 DEF ClassPosition
<1> QED
  BY <1>2, <1>3

LEMMA TypeIsStored ==
  ASSUME CommandInv, input \in InputType, NEW k \in Nat, NEW next, next = k + 1,
         next \in DOMAIN command, command[next].opt = "-t", Complete,
         NEW cpos, NEW tpos, NEW start, Stored(input, k, cpos, tpos, start)
  PROVE  Stored(SetType(command[next].arg), next, cpos, Extended(tpos, input.TypeCount, next),
                [start EXCEPT ![input.ClassCount] = input.TypeCount + 1])
<1> DEFINE C == input.ClassCount
           N == input.TypeCount
           in == SetType(command[next].arg)
           tpos2 == Extended(tpos, N, next)
           start2 == [start EXCEPT ![C] = N + 1]
<1>1. next \in Positions("-t") /\ next \notin Positions("-c")
  BY DEF Positions
<1>2. Slots(k, "-c", cpos, C) /\ Slots(k, "-t", tpos, N)
  BY DEF Stored, ClassSlots, TypeSlots
<1>3. N \in Nat /\ N < MaxTypeCount /\ MaxTypeCount \in Nat /\ C \in Nat /\ MaxClassCount \in Nat
  <2>1. C = Cardinality(UpTo("-c", k)) /\ N = Cardinality(UpTo("-t", k))
    BY <1>2 DEF Slots
  <2>2. Cardinality(Positions("-t")) \in Nat /\ Cardinality(Positions("-t")) <= MaxTypeCount
    BY DEF Complete
  <2>3. N \in Nat /\ N < Cardinality(Positions("-t")) /\ C \in Nat
    BY <1>1, <2>1, UpToGrows
  <2> QED
    BY <2>2, <2>3, BoundsAssumption
<1>4. C >= 1 /\ ClassPosition(next) = cpos[C - 1]
  <2>1. AskedPair(next) \in Pairs
    BY <1>1 DEF Complete
  <2>2. ClassPosition(next) # 0
    BY <2>1, BoundsAssumption DEF AskedPair, Pairs
  <2> QED
    BY <1>2, <1>3, <2>2, LastClass
<1>5. /\ in.ClassCount = C /\ in.TypeCount = N + 1
      /\ in.Class = input.Class /\ in.Type = [input.Type EXCEPT ![N] = command[next].arg]
      /\ in.ClassTypeCount =
           [input.ClassTypeCount EXCEPT ![C - 1] = input.ClassTypeCount[C - 1] + 1]
      /\ in.ClassObjName = input.ClassObjName /\ in.TypeObjName = input.TypeObjName
  <2>1. C # 0 /\ N < MaxTypeCount
    BY <1>3, <1>4
  <2> QED
    BY <2>1, FieldsSet
<1>6. /\ input.Type \in TypeNames /\ input.ClassTypeCount \in ClassCounts /\ C <= MaxClassCount
  BY DEF InputType
<1>7. /\ \A c \in 0..MaxClassCount - 1 :
           in.ClassTypeCount[c] = input.ClassTypeCount[c] + (IF c = C - 1 THEN 1 ELSE 0)
      /\ \A n \in 0..N : in.Type[n] = IF n = N THEN command[next].arg ELSE input.Type[n]
  <2>1. \A c \in 0..MaxClassCount - 1 : input.ClassTypeCount[c] \in Nat
    BY <1>6 DEF ClassCounts
  <2>2. \A c \in 0..MaxClassCount - 1 :
          in.ClassTypeCount[c] = input.ClassTypeCount[c] + (IF c = C - 1 THEN 1 ELSE 0)
    <3> HIDE DEF in, C
    <3> QED
      BY <1>3, <1>5, <1>6, <2>1 DEF ClassCounts
  <2>3. \A n \in 0..N : in.Type[n] = IF n = N THEN command[next].arg ELSE input.Type[n]
    <3> HIDE DEF in, N
    <3> QED
      BY <1>3, <1>5, <1>6 DEF TypeNames
  <2> QED
    BY <2>2, <2>3
<1> HIDE DEF C, N, in
<1>8. /\ DOMAIN tpos2 = 0..N /\ tpos2[N] = next /\ \A n \in 0..N - 1 : tpos2[n] = tpos[n]
      /\ start \in [0..C -> Nat]
      /\ start2 \in [0..C -> Nat] /\ start2[C] = N + 1 /\ \A c \in 0..C - 1 : start2[c] = start[c]
  <2>1. start \in [0..C -> Nat]
    BY DEF Stored, Paired, C
  <2> QED
    BY <1>3, <2>1 DEF Extended
<1>9. ClassSlots(in, next, cpos)
  <2>1. \A c \in C..MaxClassCount - 1 : in.ClassTypeCount[c] = input.ClassTypeCount[c]
    <3>1. \A c \in 0..MaxClassCount - 1 : input.ClassTypeCount[c] \in Nat
      BY <1>6 DEF ClassCounts
    <3> QED
      BY <1>3, <1>4, <1>7, <3>1
  <2> QED
    BY <1>5, <2>1, ClassSlotsKept DEF Stored, C
<1>10. TypeSlots(in, next, tpos2)
  <2>1. Slots(next, "-t", tpos2, N + 1)
    BY <1>1, <1>2, SlotIsAdded
  <2> HIDE DEF tpos2, start2
  <2>2. ASSUME NEW n \in 0..N
        PROVE  /\ in.Type[n] = command[tpos2[n]].arg
               /\ IsLast(ObjectsUpTo(tpos2[n], "-t", next), in.TypeObjName[n])
    <3>1. CASE n = N
      <4>1. ObjectsUpTo(next, "-t", next) = {}
        <5>1. next \in Nat
          OBVIOUS
        <5> QED
          BY <5>1, NoObjectsYet, Zenon
      <4>2. input.TypeObjName[N] = None
        BY <1>3 DEF Stored, TypeSlots, N
      <4> QED
        BY <1>3, <1>5, <1>7, <1>8, <3>1, <4>1, <4>2 DEF IsLast
    <3>2. CASE n \in 0..N - 1
      <4>1. ObjectsUpTo(tpos[n], "-t", next) = ObjectsUpTo(tpos[n], "-t", k)
        BY <1>2, <3>2, ObjectsAreKept
      <4>2. input.Type[n] = command[tpos[n]].arg
            /\ IsLast(ObjectsUpTo(tpos[n], "-t", k), input.TypeObjName[n])
        BY <3>2 DEF Stored, TypeSlots, N
      <4>3. in.Type[n] = input.Type[n]
        BY <1>3, <1>7, <3>2
      <4> QED
        BY <1>5, <1>8, <3>2, <4>1, <4>2, <4>3
    <3> QED
      BY <1>3, <3>1, <3>2
  <2>3. \A n \in N + 1..MaxTypeCount - 1 : in.TypeObjName[n] = None
    <3>1. \A n \in N..MaxTypeCount - 1 : input.TypeObjName[n] = None
      BY DEF Stored, TypeSlots, N
    <3> QED
      BY <1>3, <1>5, <3>1
  <2>4. 0..(N + 1) - 1 = 0..N
    BY <1>3
  <2> QED
    BY <1>5, <2>1, <2>2, <2>3, <2>4 DEF TypeSlots
<1>11. Paired(in, cpos, tpos2, start2)
  <2> HIDE DEF tpos2, start2
  <2>1. /\ start[0] = 0 /\ start[C] = N /\ \A c \in 0..C : start[c] <= N
        /\ \A c \in 0..C - 1 :
             /\ start[c + 1] = start[c] + input.ClassTypeCount[c]
             /\ \A n \in 0..N - 1 :
                  start[c] <= n /\ n < start[c + 1] => ClassPosition(tpos[n]) = cpos[c]
    BY DEF Stored, Paired, C, N
  <2>2. \A c \in 0..C : start2[c] <= N + 1
    <3>1. \A c \in 0..C : c = C \/ c \in 0..C - 1
      BY <1>3
    <3> QED
      BY <1>3, <1>8, <2>1, <3>1
  <2>3. ASSUME NEW c \in 0..C - 1
        PROVE  start2[c + 1] = start2[c] + in.ClassTypeCount[c]
    <3>1. c \in 0..MaxClassCount - 1 /\ input.ClassTypeCount[c] \in Nat
      BY <1>3, <1>6 DEF ClassCounts
    <3>2. start[c + 1] = start[c] + input.ClassTypeCount[c] /\ start2[c] = start[c]
      BY <1>8, <2>1
    <3>3. CASE c = C - 1
      <4>1. start[c + 1] = N /\ start2[c + 1] = N + 1 /\ start[c] \in Nat
        BY <1>3, <1>8, <2>1, <3>3
      <4>2. in.ClassTypeCount[c] = input.ClassTypeCount[c] + 1
        BY <1>7, <3>1, <3>3
      <4> QED
        BY <1>3, <3>1, <3>2, <4>1, <4>2
    <3>4. CASE c + 1 \in 0..C - 1
      <4>1. start2[c + 1] = start[c + 1]
        BY <1>8, <3>4
      <4>2. c # C - 1
        BY <1>3, <3>4
      <4>3. in.ClassTypeCount[c] = input.ClassTypeCount[c]
        BY <1>7, <3>1, <4>2
      <4> QED
        BY <3>2, <4>1, <4>3
    <3> QED
      BY <1>3, <3>3, <3>4
  <2>4. ASSUME NEW c \in 0..C - 1, NEW n \in 0..N, start2[c] <= n, n < start2[c + 1]
        PROVE  ClassPosition(tpos2[n]) = cpos[c]
    <3>1. c \in 0..C /\ c + 1 \in 0..C /\ start[c] \in Nat /\ start[c + 1] \in Nat
      BY <1>3, <1>8
    <3>2. CASE n = N
      <4>1. c = C - 1
        <5>1. SUFFICES ASSUME c + 1 \in 0..C - 1
                       PROVE  FALSE
          BY <1>3
        <5>2. start2[c + 1] = start[c + 1] /\ start[c + 1] <= N
          BY <1>8, <2>1, <3>1, <5>1
        <5> QED
          BY <1>3, <2>4, <3>1, <3>2, <5>2
      <4> QED
        BY <1>4, <1>8, <3>2, <4>1
    <3>3. CASE n \in 0..N - 1
      <4>1. start[c] <= n /\ n < start[c + 1]
        <5>1. CASE c = C - 1
          <6>1. start2[c] = start[c]
            BY <1>8
          <6>2. start[c + 1] = N
            BY <1>3, <2>1, <5>1
          <6>3. n < N
            BY <1>3, <3>3
          <6> QED
            BY <2>4, <6>1, <6>2, <6>3
        <5>2. CASE c + 1 \in 0..C - 1
          BY <1>8, <2>4, <5>2
        <5> QED
          BY <1>3, <5>1, <5>2
      <4> QED
        BY <1>8, <2>1, <3>3, <4>1
    <3> QED
      BY <1>3, <3>2, <3>3
  <2>5. 0..(N + 1) - 1 = 0..N /\ start2[0] = 0
    BY <1>3, <1>4, <1>8, <2>1
  <2> QED
    BY <1>5, <1>8, <2>2, <2>3, <2>4, <2>5 DEF Paired
<1> QED
  BY <1>9, <1>10, <1>11 DEF Stored, in, C, N

\* A name joins the names that are first, or last.
LEMMA ObjectJoins ==
  ASSUME NEW k \in Nat, NEW next, next = k + 1, command[next].arg # None,
         NEW js, js \subseteq 1..k, NEW name, \A j \in js : command[j].arg # None
  PROVE  /\ IsFirst(js, name) =>
              IsFirst(js \cup {next}, IF name = None THEN command[next].arg ELSE name)
         /\ IsLast(js \cup {next}, command[next].arg)
<1>1. \A j \in js : j <= next
  OBVIOUS
<1>2. IsLast(js \cup {next}, command[next].arg)
  BY <1>1 DEF IsLast
<1>3. ASSUME IsFirst(js, name)
      PROVE  IsFirst(js \cup {next}, IF name = None THEN command[next].arg ELSE name)
  <2>1. CASE js = {}
    BY <1>3, <2>1 DEF IsFirst
  <2>2. CASE js # {}
    <3>1. PICK j \in js : (\A i \in js : j <= i) /\ name = command[j].arg
      BY <1>3, <2>2 DEF IsFirst
    <3>2. name # None /\ \A i \in js \cup {next} : j <= i
      BY <1>1, <3>1
    <3> QED
      BY <3>1, <3>2 DEF IsFirst
  <2> QED
    BY <2>1, <2>2
<1> QED
  BY <1>2, <1>3

LEMMA ObjectIsStored ==
  ASSUME CommandInv, input \in InputType, NEW k \in Nat, NEW next, next = k + 1,
         next \in DOMAIN command, command[next].opt = "-o",
         NEW cpos, NEW tpos, NEW start, Stored(input, k, cpos, tpos, start)
  PROVE  Stored(SetObject(command[next].arg), next, cpos, tpos, start)
<1> DEFINE C == input.ClassCount
           N == input.TypeCount
           name == command[next].arg
           in == SetObject(name)
<1>1. next \notin Positions("-t") /\ next \notin Positions("-c")
  BY DEF Positions
<1>2. Slots(k, "-c", cpos, C) /\ Slots(k, "-t", tpos, N)
  BY DEF Stored, ClassSlots, TypeSlots
<1>3. Slots(next, "-c", cpos, C) /\ Slots(next, "-t", tpos, N)
  BY <1>1, <1>2, SlotsAreKept
<1>4. /\ in.ClassCount = C /\ in.TypeCount = N
      /\ in.Class = input.Class /\ in.Type = input.Type
      /\ in.ClassTypeCount = input.ClassTypeCount
      /\ in.ClassObjName = IF C >= 1 /\ input.ClassObjName[C - 1] = None
                           THEN [input.ClassObjName EXCEPT ![C - 1] = name]
                           ELSE input.ClassObjName
      /\ in.TypeObjName = IF N = 0 THEN input.TypeObjName
                          ELSE [input.TypeObjName EXCEPT ![N - 1] = name]
  BY FieldsSet
<1>5. /\ input.ClassObjName \in ClassNames /\ input.TypeObjName \in TypeNames
      /\ C \in 0..MaxClassCount /\ N \in 0..MaxTypeCount
      /\ MaxClassCount \in Nat /\ MaxTypeCount \in Nat
  BY BoundsAssumption DEF InputType
<1>6. name # None /\ \A j \in Positions("-o") : command[j].arg # None
  BY CommandIsSequence, BoundsAssumption DEF Positions
<1> HIDE DEF C, N, in, name
<1>7. /\ \A c \in 0..MaxClassCount - 1 :
           in.ClassObjName[c] = IF c = C - 1 /\ input.ClassObjName[c] = None THEN name
                                ELSE input.ClassObjName[c]
      /\ \A n \in 0..MaxTypeCount - 1 :
           in.TypeObjName[n] = IF n = N - 1 THEN name ELSE input.TypeObjName[n]
  <2>1. ASSUME NEW c \in 0..MaxClassCount - 1
        PROVE  in.ClassObjName[c] = IF c = C - 1 /\ input.ClassObjName[c] = None THEN name
                                    ELSE input.ClassObjName[c]
    BY <1>4, <1>5 DEF ClassNames
  <2>2. ASSUME NEW n \in 0..MaxTypeCount - 1
        PROVE  in.TypeObjName[n] = IF n = N - 1 THEN name ELSE input.TypeObjName[n]
    BY <1>4, <1>5 DEF TypeNames
  <2> QED
    BY <2>1, <2>2
<1>8. ClassSlots(in, next, cpos)
  <2>1. ASSUME NEW c \in 0..C - 1
        PROVE  /\ in.Class[c] = command[cpos[c]].arg
               /\ IsFirst(ObjectsUpTo(cpos[c], "-c", next), in.ClassObjName[c])
    <3> DEFINE js == ObjectsUpTo(cpos[c], "-c", k)
    <3>1. input.Class[c] = command[cpos[c]].arg /\ IsFirst(js, input.ClassObjName[c])
      BY DEF Stored, ClassSlots, C
    <3>2. c \in 0..MaxClassCount - 1
      BY <1>5
    <3>3. ObjectsUpTo(cpos[c], "-c", next) = IF c = C - 1 THEN js \cup {next} ELSE js
      <4>1. "-c" # "-o" /\ Slots(k, "-c", cpos, C)
        BY <1>2
      <4>2. ObjectsGrow(k, next, "-c", cpos, C)
        BY <4>1, LastSlotGetsObject, Zenon
      <4> QED
        BY <4>2 DEF ObjectsGrow
    <3>4. js \subseteq 1..k /\ \A j \in js : command[j].arg # None
      BY <1>6, CommandIsSequence DEF ObjectsUpTo, ObjectsAfter, Positions
    <3> HIDE DEF js
    <3>5. IsFirst(js \cup {next}, IF input.ClassObjName[c] = None THEN name
                                  ELSE input.ClassObjName[c])
      BY <1>6, <3>1, <3>4, ObjectJoins DEF name
    <3> QED
      BY <1>4, <1>7, <3>1, <3>2, <3>3, <3>5
  <2>2. \A c \in C..MaxClassCount - 1 : in.ClassTypeCount[c] = 0 /\ in.ClassObjName[c] = None
    <3>1. \A c \in C..MaxClassCount - 1 :
            input.ClassTypeCount[c] = 0 /\ input.ClassObjName[c] = None
      BY DEF Stored, ClassSlots, C
    <3> QED
      BY <1>4, <1>5, <1>7, <3>1
  <2> QED
    BY <1>3, <1>4, <2>1, <2>2 DEF ClassSlots
<1>9. TypeSlots(in, next, tpos)
  <2>1. ASSUME NEW n \in 0..N - 1
        PROVE  /\ in.Type[n] = command[tpos[n]].arg
               /\ IsLast(ObjectsUpTo(tpos[n], "-t", next), in.TypeObjName[n])
    <3> DEFINE js == ObjectsUpTo(tpos[n], "-t", k)
    <3>1. input.Type[n] = command[tpos[n]].arg /\ IsLast(js, input.TypeObjName[n])
      BY DEF Stored, TypeSlots, N
    <3>2. n \in 0..MaxTypeCount - 1
      BY <1>5
    <3>3. ObjectsUpTo(tpos[n], "-t", next) = IF n = N - 1 THEN js \cup {next} ELSE js
      <4>1. "-t" # "-o" /\ Slots(k, "-t", tpos, N)
        BY <1>2
      <4>2. ObjectsGrow(k, next, "-t", tpos, N)
        BY <4>1, LastSlotGetsObject, Zenon
      <4> QED
        BY <4>2 DEF ObjectsGrow
    <3>4. js \subseteq 1..k /\ \A j \in js : command[j].arg # None
      BY <1>6, CommandIsSequence DEF ObjectsUpTo, ObjectsAfter, Positions
    <3> HIDE DEF js
    <3>5. IsLast(js \cup {next}, name)
      BY <1>6, <3>4, ObjectJoins DEF name
    <3> QED
      BY <1>4, <1>7, <3>1, <3>2, <3>3, <3>5
  <2>2. \A n \in N..MaxTypeCount - 1 : in.TypeObjName[n] = None
    <3>1. \A n \in N..MaxTypeCount - 1 : input.TypeObjName[n] = None
      BY DEF Stored, TypeSlots, N
    <3> QED
      BY <1>5, <1>7, <3>1
  <2> QED
    BY <1>3, <1>4, <2>1, <2>2 DEF TypeSlots
<1>10. Paired(in, cpos, tpos, start)
  BY <1>4 DEF Stored, Paired, C, N
<1> QED
  BY <1>8, <1>9, <1>10 DEF Stored, in, name

\* Neither the limit nor an option that the subscriptions do not depend on.
LEMMA OtherIsStored ==
  ASSUME CommandInv, input \in InputType, NEW k \in Nat, NEW next, next = k + 1,
         next \in DOMAIN command, command[next].opt \notin {"-c", "-t", "-o"},
         NEW in, in = input \/ \E m : in = [input EXCEPT !.MaxGets = m],
         NEW cpos, NEW tpos, NEW start, Stored(input, k, cpos, tpos, start)
  PROVE  Stored(in, next, cpos, tpos, start)
<1>1. /\ in.ClassCount = input.ClassCount /\ in.TypeCount = input.TypeCount
      /\ in.Class = input.Class /\ in.Type = input.Type
      /\ in.ClassTypeCount = input.ClassTypeCount
      /\ in.ClassObjName = input.ClassObjName /\ in.TypeObjName = input.TypeObjName
  BY DEF InputType
<1>2. ClassSlots(in, next, cpos)
  BY <1>1, ClassSlotsKept DEF Stored
<1>3. TypeSlots(in, next, tpos)
  BY <1>1, TypeSlotsKept DEF Stored
<1>4. Paired(in, cpos, tpos, start)
  BY <1>1 DEF Stored, Paired
<1> QED
  BY <1>2, <1>3, <1>4 DEF Stored

\* The command line stays what it is.
LEMMA LineIsFixed ==
  ASSUME UNCHANGED command
  PROVE  \A in, k, cpos, tpos, start :
           Stored(in, k, cpos, tpos, start) <=> Stored(in, k, cpos, tpos, start)'
BY DEF Stored, ClassSlots, TypeSlots, Paired, Slots, UpTo, Positions, IsFirst, IsLast,
   ObjectsUpTo, ObjectsAfter, ClassPosition

\* All options are looked at before anything else is done, and a complete line is stored
\* as it stands.
LineInv ==
  /\ pc \notin {"args", "ended"} => count = Len(command) + 1
  /\ Complete => \E cpos, tpos, start : Stored(input, count - 1, cpos, tpos, start)

LEMMA AskedIsFixed ==
  ASSUME UNCHANGED command
  PROVE  /\ \A opt : Positions(opt) = Positions(opt)'
         /\ \A i : AskedPair(i) = AskedPair(i)' /\ AskedObject(i) = AskedObject(i)'
         /\ \A i : AskedTopic(i) = AskedTopic(i)'
         /\ Complete <=> Complete'
<1>1. \A opt : Positions(opt) = Positions(opt)'
  BY DEF Positions
<1>2. \A i : ClassPosition(i) = ClassPosition(i)'
  BY DEF ClassPosition, Positions
<1>4. \A i : AskedPair(i) = AskedPair(i)'
  BY <1>2 DEF AskedPair
<1>5. \A i : AskedObject(i) = AskedObject(i)'
  BY DEF AskedObject, ObjectsAfter, ClassPosition, Positions
<1>6. \A i : AskedTopic(i) = AskedTopic(i)'
  BY <1>4, <1>5 DEF AskedTopic
<1>7. Complete <=> Complete'
  BY <1>1, <1>4, <1>5 DEF Complete
<1> QED
  BY <1>1, <1>4, <1>5, <1>6, <1>7

\* The options come first, and nothing comes after the end.
LEMMA OptionsComeFirst ==
  ASSUME [Next]_vars
  PROVE  /\ pc = "ended" => pc' = "ended"
         /\ pc = "args" => ParseOption \/ pc' = "ended" \/ OptionsParsed \/ UNCHANGED <<pc, count>>
         /\ pc # "args" => pc' # "args" /\ UNCHANGED count
<1>1. CASE Start
  BY <1>1 DEF Start, ParseOption, BadOption, OptionsParsed, MQCONN, QueryQMName, OpenQueue,
     Exit, options
<1>2. CASE DiscoverClasses
  BY <1>2 DEF DiscoverClasses, SubClasses, GetClasses, LanguageMissing, SubDefault, GetDefault,
     CloseClasses, ParseClass, ClassesRead, Subscribe, Receive, CloseSubscription,
     DiscoveryEnds, Exit, options
<1>3. CASE DiscoverTypes
  BY <1>3 DEF DiscoverTypes, SubTypes, GetTypes, CloseTypes, ParseType, TypesRead, TypesDone,
     Subscribe, Receive, CloseSubscription, Remember, ReadType, DiscoveryEnds, Exit, options
<1>4. CASE DiscoverElements
  BY <1>4 DEF DiscoverElements, SubElements, GetElements, CloseElements, ParseElement,
     ElementsRead, NextClass, ElementsDone, Subscribe, Receive, CloseSubscription, Remember,
     ReadElement, DiscoveryEnds, Exit, options
<1>5. CASE SubscribeType
  BY <1>5 DEF SubscribeType, SubscribeData, Exit, options
<1>6. CASE Subscriptions /\ ~SubscribeType
  BY <1>6 DEF Subscriptions, PromptForClass, PromptForType, NotRecognised, ClassSubscribed,
     AllSubscribed, Exit, options
<1>7. CASE Publications
  BY <1>7 DEF Publications, PrintPublication, GetFails, EnoughPrinted, MQDISC, Exit, options
<1>8. CASE UNCHANGED vars \/ \E top \in DOMAIN Content : Publish(top) \/ PublishData(top)
  BY <1>8 DEF vars, Publish, PublishData, options
<1> QED
  BY NextCases, <1>1, <1>2, <1>3, <1>4, <1>5, <1>6, <1>7, <1>8

\* A complete line has a type, and a class before it.
LEMMA CompleteHasClassAndType ==
  ASSUME CommandInv, Complete, NEW k, k = Len(command),
         NEW cpos, NEW tpos, NEW start, Stored(input, k, cpos, tpos, start)
  PROVE  /\ UpTo("-c", k) = Positions("-c") /\ UpTo("-t", k) = Positions("-t")
         /\ input.ClassCount \in Nat \ {0} /\ input.TypeCount \in Nat \ {0}
<1>1. k \in Nat /\ UpTo("-c", k) = Positions("-c") /\ UpTo("-t", k) = Positions("-t")
  BY CommandIsSequence DEF UpTo, Positions
<1>2. /\ input.ClassCount = Cardinality(Positions("-c"))
      /\ input.TypeCount = Cardinality(Positions("-t"))
  BY <1>1 DEF Stored, ClassSlots, TypeSlots, Slots
<1>3. IsFiniteSet(Positions("-c")) /\ IsFiniteSet(Positions("-t"))
  BY UpToGrows, 0 \in Nat, 0 + 1 \in Nat
<1>4. Cardinality(Positions("-t")) \in Nat \ {0}
  BY DEF Complete
<1>5. PICK i : i \in Positions("-t")
  BY <1>4, FS_EmptySet
<1>6. Positions("-c") # {}
  <2>1. AskedPair(i)[1] # None
    BY <1>5, BoundsAssumption DEF Complete, Pairs
  <2>2. ClassPosition(i) # 0
    BY <2>1 DEF AskedPair
  <2> QED
    BY <2>2 DEF ClassPosition
<1> QED
  BY <1>1, <1>2, <1>3, <1>4, <1>6, FS_EmptySet, FS_CardinalityType

LEMMA LineStep ==
  ASSUME CommandInv, InputInv, LineInv, [Next]_vars
  PROVE  LineInv'
<1>1. UNCHANGED command /\ (Complete <=> Complete')
  BY Frame, AskedIsFixed
<1>2. (pc \notin {"args", "ended"} => count = Len(command) + 1)'
  <2>1. OptionsParsed => count = Len(command) + 1 /\ UNCHANGED count
    BY CommandIsSequence DEF OptionsParsed, CommandInv, options
  <2>2. ParseOption => pc' = "args"
    BY OptionsComeFirst DEF ParseOption
  <2> QED
    BY <1>1, <2>1, <2>2, OptionsComeFirst DEF LineInv
<1>3. ASSUME Complete
      PROVE  \E cpos, tpos, start : Stored(input', count' - 1, cpos, tpos, start)
  <2>1. PICK cpos, tpos, start : Stored(input, count - 1, cpos, tpos, start)
    BY <1>3 DEF LineInv
  <2>2. CASE ParseOption
    <3> DEFINE k == count - 1
               o == command[count]
    <3>1. /\ count \in DOMAIN command
          /\ count' = count + 1
          /\ \/ o.opt = "-c" /\ input' = SetClass(o.arg)
             \/ o.opt = "-t" /\ input' = SetType(o.arg)
             \/ o.opt = "-o" /\ input' = SetObject(o.arg)
             \/ /\ o.opt \notin {"-c", "-t", "-o"}
                /\ input' = input \/ \E m : input' = [input EXCEPT !.MaxGets = m]
      <4>1. /\ count \in DOMAIN command /\ count' = count + 1 /\ ~Refused(o)
            /\ o.opt = "-c" => input' = SetClass(o.arg)
            /\ o.opt = "-t" => input' = SetType(o.arg)
            /\ o.opt = "-o" => input' = SetObject(o.arg)
            /\ o.opt = "-n" => input' = [input EXCEPT !.MaxGets = o.arg]
            /\ o.opt \in OtherOptions => input' = input
        BY <2>2, CommandIsSequence DEF ParseOption, CommandInv, Refused, OtherOptions
      <4> HIDE DEF o
      <4>2. o.opt \in {"-c", "-t", "-o", "-n"} \cup OtherOptions
        BY <4>1 DEF Refused
      <4> QED
        BY <4>1, <4>2 DEF OtherOptions
    <3>2. k \in Nat /\ count = k + 1 /\ count' - 1 = count
      BY <3>1 DEF CommandInv
    <3>3. input \in InputType /\ Cardinality(Positions("-c")) <= MaxClassCount
      BY <1>3 DEF InputInv, Complete
    <3>4. Stored(input, k, cpos, tpos, start)
      BY <2>1
    <3> HIDE DEF k
    <3>5. CASE o.opt = "-c"
      <4>1. Stored(SetClass(o.arg), count, Extended(cpos, input.ClassCount, count), tpos,
                   Extended(start, input.ClassCount + 1, input.TypeCount))
        BY <3>1, <3>2, <3>3, <3>4, <3>5, ClassIsStored
      <4> QED
        BY <3>1, <3>2, <3>5, <4>1
    <3>6. CASE o.opt = "-t"
      <4>1. Stored(SetType(o.arg), count, cpos, Extended(tpos, input.TypeCount, count),
                   [start EXCEPT ![input.ClassCount] = input.TypeCount + 1])
        BY <1>3, <3>1, <3>2, <3>3, <3>4, <3>6, TypeIsStored
      <4> QED
        BY <3>1, <3>2, <3>6, <4>1
    <3>7. CASE o.opt = "-o"
      <4>1. Stored(SetObject(o.arg), count, cpos, tpos, start)
        BY <3>1, <3>2, <3>3, <3>4, <3>7, ObjectIsStored
      <4> QED
        BY <3>1, <3>2, <3>7, <4>1
    <3>8. CASE o.opt \notin {"-c", "-t", "-o"}
      <4>1. Stored(input', count, cpos, tpos, start)
        BY <3>1, <3>2, <3>3, <3>4, <3>8, OtherIsStored
      <4> QED
        BY <3>2, <4>1
    <3> QED
      BY <3>1, <3>5, <3>6, <3>7, <3>8
  <2>3. CASE ~ParseOption /\ UNCHANGED <<input, count>>
    BY <2>1, <2>3
  <2>4. CASE PromptForClass \/ PromptForType
    <3>1. count = Len(command) + 1 /\ UNCHANGED count
      BY <2>4, OptionsComeFirst DEF LineInv, PromptForClass, PromptForType
    <3>2. count - 1 = Len(command)
      BY <3>1, CommandIsSequence
    <3>3. input.ClassCount # 0 /\ input.TypeCount # 0
      BY <1>3, <2>1, <3>2, CompleteHasClassAndType
    <3>4. UNCHANGED input
      BY <2>4, <3>3 DEF PromptForClass, PromptForType
    <3> QED
      BY <2>1, <3>1, <3>4
  <2> QED
    BY <2>2, <2>3, <2>4, Frame DEF PromptForClass, PromptForType
<1> QED
  BY <1>1, <1>2, <1>3, LineIsFixed DEF LineInv

-----------------------------------------------------------------------------
(* What the stored line says. *)

\* The type in slot n, counted from start[c] for the class in slot c, is the one at tpos[n].
Plan(in, tpos, start) ==
  /\ tpos \in [0..in.TypeCount - 1 -> Positions("-t")]
  /\ \A i \in Positions("-t") : \E n \in 0..in.TypeCount - 1 : tpos[n] = i
  /\ start \in [0..in.ClassCount -> Nat]
  /\ start[0] = 0 /\ start[in.ClassCount] = in.TypeCount
  /\ \A c \in 0..in.ClassCount : start[c] <= in.TypeCount
  /\ \A c \in 0..in.ClassCount - 1 :
       /\ start[c + 1] = start[c] + in.ClassTypeCount[c]
       /\ \A n \in 0..in.TypeCount - 1 : start[c] <= n /\ n < start[c + 1] =>
            /\ AskedPair(tpos[n]) = <<in.Class[c], in.Type[n]>>
            /\ AskedObject(tpos[n]) = IF in.TypeObjName[n] # None THEN in.TypeObjName[n]
                                      ELSE in.ClassObjName[c]

LEMMA FirstAndLastAreChosen ==
  ASSUME NEW js, js \subseteq Nat, NEW name, \A j \in js : command[j].arg # None
  PROVE  /\ IsFirst(js, name) =>
              name = IF js = {} THEN None ELSE command[CHOOSE j \in js : \A k \in js : j <= k].arg
         /\ IsLast(js, name) =>
              name = IF js = {} THEN None ELSE command[CHOOSE j \in js : \A k \in js : k <= j].arg
<1>1. ASSUME NEW j \in js, \A k \in js : j <= k
      PROVE  (CHOOSE i \in js : \A k \in js : i <= k) = j
  <2> DEFINE i == CHOOSE i \in js : \A k \in js : i <= k
  <2>1. i \in js /\ \A k \in js : i <= k
    BY <1>1
  <2> HIDE DEF i
  <2>2. i <= j /\ j <= i /\ i \in Nat /\ j \in Nat
    BY <1>1, <2>1
  <2>3. i = j
    BY <2>2
  <2> QED
    BY <2>3 DEF i
<1>2. ASSUME NEW j \in js, \A k \in js : k <= j
      PROVE  (CHOOSE i \in js : \A k \in js : k <= i) = j
  <2> DEFINE i == CHOOSE i \in js : \A k \in js : k <= i
  <2>1. i \in js /\ \A k \in js : k <= i
    BY <1>2
  <2> HIDE DEF i
  <2>2. i <= j /\ j <= i /\ i \in Nat /\ j \in Nat
    BY <1>2, <2>1
  <2>3. i = j
    BY <2>2
  <2> QED
    BY <2>3 DEF i
<1>3. ASSUME IsFirst(js, name), js # {}
      PROVE  name = command[CHOOSE j \in js : \A k \in js : j <= k].arg
  <2>1. PICK j \in js : (\A k \in js : j <= k) /\ name = command[j].arg
    BY <1>3 DEF IsFirst
  <2>2. (CHOOSE i \in js : \A k \in js : i <= k) = j
    BY <1>1, <2>1
  <2> QED
    BY <2>1, <2>2
<1>4. ASSUME IsLast(js, name), js # {}
      PROVE  name = command[CHOOSE j \in js : \A k \in js : k <= j].arg
  <2>1. PICK j \in js : (\A k \in js : k <= j) /\ name = command[j].arg
    BY <1>4 DEF IsLast
  <2>2. (CHOOSE i \in js : \A k \in js : k <= i) = j
    BY <1>2, <2>1
  <2> QED
    BY <2>1, <2>2
<1>5. js = {} => (IsFirst(js, name) \/ IsLast(js, name) => name = None)
  BY DEF IsFirst, IsLast
<1> QED
  BY <1>3, <1>4, <1>5

LEMMA LineIsPlan ==
  ASSUME CommandInv, InputInv, LineInv, Complete, pc \notin {"args", "ended"}
  PROVE  /\ \E tpos, start : Plan(input, tpos, start)
         /\ input.ClassCount # 0 /\ input.TypeCount # 0
<1>1. count - 1 = Len(command) /\ Len(command) \in Nat /\ DOMAIN command = 1..Len(command)
  BY CommandIsSequence DEF LineInv
<1>2. PICK cpos, tpos, start : Stored(input, count - 1, cpos, tpos, start)
  BY DEF LineInv
<1> DEFINE k == Len(command)
           C == input.ClassCount
           N == input.TypeCount
<1>3. Stored(input, k, cpos, tpos, start)
  BY <1>1, <1>2
<1>4. C \in Nat \ {0} /\ N \in Nat \ {0}
      /\ UpTo("-c", k) = Positions("-c") /\ UpTo("-t", k) = Positions("-t")
  BY <1>3, CompleteHasClassAndType
<1>5. \A i, opt : /\ ObjectsUpTo(i, opt, k) = ObjectsAfter(i, opt)
                  /\ ObjectsAfter(i, opt) \subseteq Nat
                  /\ \A j \in ObjectsAfter(i, opt) : command[j].arg # None
  BY <1>1, CommandIsSequence, BoundsAssumption DEF ObjectsUpTo, ObjectsAfter, Positions
<1> HIDE DEF k
<1>6. /\ tpos \in [0..N - 1 -> Positions("-t")]
      /\ \A i \in Positions("-t") : \E n \in 0..N - 1 : tpos[n] = i
      /\ \A n \in 0..N - 1 :
           /\ input.Type[n] = command[tpos[n]].arg
           /\ IsLast(ObjectsUpTo(tpos[n], "-t", k), input.TypeObjName[n])
  BY <1>3, <1>4 DEF Stored, TypeSlots, Slots
<1>7. /\ \A c \in 0..C - 1 : cpos[c] \in Positions("-c")
      /\ \A c \in 0..C - 1 :
           /\ input.Class[c] = command[cpos[c]].arg
           /\ IsFirst(ObjectsUpTo(cpos[c], "-c", k), input.ClassObjName[c])
  BY <1>3, <1>4 DEF Stored, ClassSlots, Slots
<1>8. Paired(input, cpos, tpos, start)
  BY <1>3 DEF Stored
<1> HIDE DEF C, N
<1>9. ASSUME NEW c \in 0..C - 1, NEW n \in 0..N - 1, ClassPosition(tpos[n]) = cpos[c]
      PROVE  /\ AskedPair(tpos[n]) = <<input.Class[c], input.Type[n]>>
             /\ AskedObject(tpos[n]) = IF input.TypeObjName[n] # None THEN input.TypeObjName[n]
                                       ELSE input.ClassObjName[c]
  <2>1. cpos[c] # 0
    BY <1>1, <1>7 DEF Positions
  <2>2. AskedPair(tpos[n]) = <<input.Class[c], input.Type[n]>>
    BY <1>6, <1>7, <1>9, <2>1 DEF AskedPair
  <2> DEFINE own == ObjectsAfter(tpos[n], "-t")
             ofClass == ObjectsAfter(cpos[c], "-c")
             latest == CHOOSE j \in own : \A i \in own : i <= j
             earliest == CHOOSE j \in ofClass : \A i \in ofClass : j <= i
  <2>3. AskedObject(tpos[n]) = IF own # {} THEN command[latest].arg
                               ELSE IF ofClass # {} THEN command[earliest].arg ELSE None
    BY <1>9 DEF AskedObject
  <2>a. /\ own \subseteq Nat /\ \A j \in own : command[j].arg # None
        /\ ofClass \subseteq Nat /\ \A j \in ofClass : command[j].arg # None
        /\ IsLast(own, input.TypeObjName[n]) /\ IsFirst(ofClass, input.ClassObjName[c])
    BY <1>5, <1>6, <1>7
  <2> HIDE DEF own, ofClass
  <2>4. input.TypeObjName[n] = IF own = {} THEN None ELSE command[latest].arg
    BY <2>a, FirstAndLastAreChosen
  <2>5. input.ClassObjName[c] = IF ofClass = {} THEN None ELSE command[earliest].arg
    BY <2>a, FirstAndLastAreChosen
  <2>6. own # {} => command[latest].arg # None
    <3> HIDE DEF latest
    <3> QED
      BY <2>4, <2>a DEF IsLast
  <2> HIDE DEF latest, earliest
  <2> QED
    BY <2>2, <2>3, <2>4, <2>5, <2>6
<1>10. Plan(input, tpos, start)
  BY <1>6, <1>8, <1>9 DEF Plan, Paired, C, N
<1> QED
  BY <1>4, <1>10 DEF C, N

-----------------------------------------------------------------------------
(* The discovery, as long as no metadata is published: the answers are those to the *)
(* questions, and the tree is what the metadata says.                               *)

Over == {"disconnect", "ended"}
Before == {"args", "connect", "inquire", "open", "subClasses", "getClasses", "subDefault",
           "getDefault", "closeClasses"}
AskClasses == {"getClasses", "getDefault", "closeClasses", "parseClasses"}
AskTypes == {"getTypes", "closeTypes", "parseTypes"}
AskElements == {"getElements", "closeElements", "parseElements"}
Getting == {"getClasses", "getDefault", "getTypes", "getElements"}
Answered == {"closeClasses", "closeTypes", "closeElements",
             "parseClasses", "parseTypes", "parseElements"}
Finished == {"promptClass", "promptType", "subscribe", "loop"}

\* The class and the type that the loops are at.
AtClass == ClassChain[at.class].id
AtPair == <<AtClass, typeChain[AtClass][at.type].id>>

\* The answer for this type has been read to its end.
Visited(c, i) ==
  /\ pc \in {"subElements"} \cup AskElements \cup Finished
  /\ \E k \in DOMAIN ClassChain : /\ ClassChain[k].id = c
                                  /\ k < at.class \/ (k = at.class /\ i < at.type)
IsFirstOf(c, i) == \A j \in 1..i - 1 : typeChain[c][j].id # typeChain[c][i].id
ElemsFound(q) == {elemChain[q][j] : j \in DOMAIN elemChain[q]}

\* A type has the topic of its elements until their answer, which has that of its data.
Entry(c, i) ==
  LET type == typeChain[c][i]
      q == <<c, type.id>>
  IN  /\ type.flags = PerObject(q)
      /\ ~Visited(c, i) => type.topic = ElementsTopic[q]
      /\ Visited(c, i) /\ IsFirstOf(c, i) =>
           type.topic = DataTopic[q] /\ ElemsOf[q] \subseteq ElemsFound(q)

ChainInv ==
  /\ \A i \in DOMAIN ClassChain : ClassChain[i].topic = TypesTopic[ClassChain[i].id]
  /\ \A i, j \in DOMAIN ClassChain : ClassChain[i].id = ClassChain[j].id => i = j
  /\ \A c \in Classes : \A i \in DOMAIN typeChain[c] : Entry(c, i)
  /\ pc \in Before => ClassChain = <<>>
  /\ at.type >= 1
  /\ pc \in Finished => at.class > Len(ClassChain)
  /\ pc \in AskElements => at.class <= Len(ClassChain) /\ at.type <= Len(typeChain[AtClass])

IsQuestion(top) ==
  \/ pc \in AskClasses /\ top \in {RootTopic, LangTopic}
  \/ pc \in AskTypes /\ top = TypesTopic[AtClass]
  \/ pc \in AskElements /\ top = ElementsTopic[AtPair]

\* Nothing but the answer to the question is on the queue, and in Buffer.
AskingInv ==
  /\ retained \subseteq Metadata
  /\ \A i \in DOMAIN subs : subs[i] \in Metadata
  /\ \/ tdq = <<>>
     \/ pc \in Getting /\ \E top \in Metadata : IsQuestion(top) /\ tdq = <<top>>
  /\ pc \in Answered => IsQuestion(buffer)

\* What has been read of the answer.
ParsedInv ==
  /\ pc = "parseClasses" =>
       \A i \in DOMAIN ClassChain : \E j \in DOMAIN Message.params :
         /\ j < walk.cfin
         /\ Message.params[j].p = "class" /\ Message.params[j].v = ClassChain[i].id
  /\ pc = "parseTypes" =>
       /\ walk.cfin > 1 => local.class_id = AtClass
       /\ walk.cfin > 2 => local.flags = Message.params[2].v
  /\ pc = "parseElements" =>
       /\ walk.cfin > 1 => local.class_id = AtClass
       /\ walk.cfin > 2 => local.type_id = AtPair[2]
       /\ walk.cfin > Len(Message.params) => local.topic = DataTopic[AtPair]
       /\ \A h \in DOMAIN Message.params :
            h < walk.cfin /\ Message.params[h].p = "elemGroup" =>
              \A e \in ElemsOf[AtPair] :
                Gives(Message, h, "elem", e) => e \in ElemsFound(AtPair)

DiscoveryInv == ChainInv /\ AskingInv /\ ParsedInv

\* Steps that leave the tree alone and go on within a phase.
LEMMA ChainIsKept ==
  ASSUME ChainInv, UNCHANGED <<ClassChain, typeChain, elemChain, at>>,
         pc' \in {"subElements"} \cup AskElements \cup Finished <=>
           pc \in {"subElements"} \cup AskElements \cup Finished,
         pc' \in Before => pc \in Before,
         pc' \in Finished => pc \in Finished \/ at.class > Len(ClassChain),
         pc' \in AskElements =>
           \/ pc \in AskElements
           \/ at.class <= Len(ClassChain) /\ at.type <= Len(typeChain[AtClass])
  PROVE  ChainInv'
<1>1. \A c, i : Visited(c, i) <=> Visited(c, i)'
  BY DEF Visited
<1>2. \A c, i : IsFirstOf(c, i) <=> IsFirstOf(c, i)'
  BY DEF IsFirstOf
<1>3. \A q : ElemsFound(q) = ElemsFound(q)'
  BY DEF ElemsFound
<1>4. \A c, i : Entry(c, i) => Entry(c, i)'
  <2> TAKE c, i
  <2> HAVE Entry(c, i)
  <2> DEFINE q == <<c, typeChain[c][i].id>>
  <2>1. ElemsFound(q) = ElemsFound(q)' /\ q' = q
    BY DEF ElemsFound
  <2> QED
    BY <1>1, <1>2, <2>1 DEF Entry
<1> QED
  BY <1>4 DEF ChainInv, AtClass

LEMMA SubscribeOutcome ==
  ASSUME NEW top, NEW next, Subscribe(top, next)
  PROVE  \/ pc' = "ended"
         \/ pc' = next /\ MQSUB(top) /\ UNCHANGED <<tree, parse, result>>
BY ReasonsAreNotZero DEF Subscribe, Fails, DiscoveryEnds, Exit, result

LEMMA ReceiveOutcome ==
  ASSUME NEW next, NEW final, Receive(next, final)
  PROVE  \/ pc' = "ended"
         \/ pc' = next /\ MQGET /\ UNCHANGED <<tree, at, result>>
BY ReasonsAreNotZero DEF Receive, Fails, NothingCame, DiscoveryEnds, Exit, result

LEMMA CloseOutcome ==
  ASSUME NEW next, CloseSubscription(next)
  PROVE  \/ pc' = "ended"
         \/ pc' = next /\ MQCLOSE /\ UNCHANGED <<tree, at, parse, result>>
BY ReasonsAreNotZero DEF CloseSubscription, Fails, DiscoveryEnds, Exit, result

\* A question is asked, answered and closed.
LEMMA AskStep ==
  ASSUME QueueInv, AskingInv, pc \notin Getting, NEW top \in Metadata, MQSUB(top),
         pc' \in Getting, IsQuestion(top)'
  PROVE  AskingInv' /\ ParsedInv'
<1>1. \E S : subs \in Seq(S)
  BY DEF QueueInv
<1>2. \A i \in DOMAIN subs' : subs'[i] \in Metadata
  BY <1>1 DEF AskingInv, MQSUB
<1>3. tdq = <<>>
  BY DEF AskingInv
<1>4. tdq' = <<>> \/ tdq' = <<top>>
  BY <1>3 DEF MQSUB
<1>5. pc' \notin Answered
  BY DEF Getting, Answered
<1>6. retained' \subseteq Metadata
  BY DEF AskingInv, MQSUB
<1> QED
  BY <1>2, <1>4, <1>5, <1>6 DEF AskingInv, ParsedInv, Answered

LEMMA AnswerStep ==
  ASSUME QueueInv, AskingInv, MQGET, pc' \in Answered \ {"parseClasses", "parseTypes", "parseElements"},
         \A top \in Metadata : IsQuestion(top) => IsQuestion(top)'
  PROVE  AskingInv' /\ ParsedInv'
<1>1. tdq # <<>> /\ buffer' = Head(tdq) /\ tdq' = Tail(tdq) /\ UNCHANGED <<retained, subs>>
  BY DEF MQGET
<1>2. PICK top \in Metadata : IsQuestion(top) /\ tdq = <<top>>
  BY <1>1 DEF AskingInv
<1>3. buffer' = top /\ tdq' = <<>>
  BY <1>1, <1>2
<1>4. IsQuestion(buffer)'
  BY <1>2, <1>3 DEF IsQuestion
<1>5. ParsedInv'
  BY DEF ParsedInv, Answered
<1> QED
  BY <1>1, <1>3, <1>4, <1>5 DEF AskingInv

LEMMA SubscriptionCloses ==
  ASSUME QueueInv, MQCLOSE
  PROVE  \A i \in DOMAIN subs' : \E j \in DOMAIN subs : subs'[i] = subs[j]
<1>1. PICK S : subs \in Seq(S)
  BY DEF QueueInv
<1>2. Len(subs) \in Nat /\ \A i \in 1..Len(subs) - 1 : subs[i] \in S
  BY <1>1
<1>3. subs' = SubSeq(subs, 1, Len(subs) - 1)
  BY DEF MQCLOSE
<1>4. \A i \in 1..Len(subs) - 1 : subs'[i] = subs[i]
  BY <1>2, <1>3, SubSeqProperties
<1>5. DOMAIN subs' = 1..Len(subs) - 1
  BY <1>2, <1>3, SubSeqProperties
<1> QED
  BY <1>1, <1>2, <1>4, <1>5

\* A group gives a field its value, found between the header and the next parameter.
LEMMA FieldIsGiven ==
  ASSUME NEW kind, NEW name, NEW old, NEW value, Groups(Message, kind, name),
         walk.cfin \in DOMAIN Message.params, Param.p = kind, Gives(Message, walk.cfin, name, value)
  PROVE  /\ Field(name, old) = value
         /\ \E j \in DOMAIN Message.params :
              /\ j \in walk.cfin + 1..walk.cfin + Param.v
              /\ Message.params[j].p = name /\ Message.params[j].v = value
<1> DEFINE range == walk.cfin + 1..walk.cfin + Param.v
           given == {i \in range : Message.params[i].p = name}
<1>1. range \subseteq DOMAIN Message.params
  BY DEF Groups, Param
<1>2. PICK j \in range : Message.params[j].p = name /\ \A k \in range :
        Message.params[k].p = name => k = j
  BY DEF Groups, Param
<1>3. given = {j}
  BY <1>2
<1>4. (CHOOSE i \in given : \A k \in given : k <= i) = j
  BY <1>2, <1>3
<1>5. Message.params[j].v = value
  BY <1>2 DEF Gives, Param
<1>6. Field(name, old) = value
  BY <1>3, <1>4, <1>5 DEF Field
<1> QED
  BY <1>1, <1>2, <1>5, <1>6

Base == QueueInv /\ TreeInv /\ TypeInv

LEMMA ParseClassStep ==
  ASSUME Base, DiscoveryInv, ParseClass
  PROVE  DiscoveryInv'
<1> DEFINE m == Message
<1>1. /\ pc = "parseClasses" /\ MoreParams /\ Advance("classGroup") /\ Reading("classGroup")
      /\ UNCHANGED <<pc, at, buffer, retained, subs, tdq, typeChain, elemChain>>
  BY DEF Base, TypeInv, ClassInv, ParseClass, tree, qmgr, sruRegisterClass
<1>2. walk.cfin \in DOMAIN m.params /\ m' = m
  BY <1>1, ReadingAdvances DEF Message
<1>3. buffer \in DOMAIN Content /\ AboutClasses(m)
  BY <1>1, MetadataAssumption, TopicAssumption DEF DiscoveryInv, AskingInv, IsQuestion, Answered,
     AskTypes, AskElements, Message
<1>4. Len(m.params) \in Nat /\ DOMAIN m.params = 1..Len(m.params)
  BY <1>3, WalkAssumption DEF Message, GroupKinds
<1>5. AskingInv'
  BY <1>1 DEF DiscoveryInv, AskingInv, IsQuestion, AskClasses, AskTypes, AskElements
<1>6. CASE Param.p # "classGroup"
  <2>1. UNCHANGED tree
    BY <1>6 DEF ParseClass
  <2>2. ChainInv'
    BY <1>1, <2>1, ChainIsKept DEF DiscoveryInv, tree
  <2>3. walk'.cfin = walk.cfin + 1
    BY <1>1, <1>2, <1>4, <1>6 DEF Advance
  <2>4. ParsedInv'
    BY <1>1, <1>2, <1>4, <2>1, <2>3 DEF DiscoveryInv, ParsedInv, tree
  <2> QED
    BY <1>5, <2>2, <2>4 DEF DiscoveryInv
<1>7. CASE Param.p = "classGroup"
  <2> DEFINE r == [id |-> local'.class_id, topic |-> local'.topic]
  <2>1. /\ local'.class_id = Field("class", local.class_id)
        /\ local'.topic = Field("topic", NoTopic)
    BY <1>7 DEF ParseClass, Base, TreeInv, TreeShape
  <2>2. ClassChain' = Append(ClassChain, r)
    BY <1>7 DEF ParseClass, sruRegisterClass
  <2>3. PICK c \in Classes : /\ Gives(m, walk.cfin, "class", c)
                             /\ Gives(m, walk.cfin, "topic", TypesTopic[c])
    BY <1>2, <1>3, <1>7 DEF AboutClasses, Param
  <2>4. Groups(m, "classGroup", "class") /\ Groups(m, "classGroup", "topic")
    BY <1>3, LayoutAssumption DEF Message, AboutClasses
  <2>5. local'.class_id = c /\ local'.topic = TypesTopic[c]
    BY <1>2, <1>7, <2>1, <2>3, <2>4, FieldIsGiven
  <2>6. PICK j \in DOMAIN m.params : /\ j \in walk.cfin + 1..walk.cfin + Param.v
                                     /\ m.params[j].p = "class" /\ m.params[j].v = c
    BY <1>2, <1>7, <2>3, <2>4, FieldIsGiven
  <2>7. walk'.cfin = walk.cfin + 1 + Param.v /\ Param.v \in Nat /\ walk.cfin \in Nat
    BY <1>1, <1>2, <1>4, <1>7, <2>4 DEF Advance, Groups, Param
  <2>8. PICK T : ClassChain \in Seq(T)
    BY DEF Base, TypeInv, ClassInv
  <2> DEFINE n == Len(ClassChain) + 1
  <2>9. /\ n \in Nat /\ DOMAIN ClassChain = 1..n - 1 /\ DOMAIN ClassChain' = 1..n
        /\ ClassChain'[n] = r
        /\ \A i \in 1..n - 1 : ClassChain'[i] = ClassChain[i]
    <3>1. r \in T \cup {r} /\ ClassChain \in Seq(T \cup {r})
      BY <2>8
    <3> HIDE DEF r
    <3> QED
      BY <2>2, <3>1
  <2>10. r.id = c /\ r.topic = TypesTopic[c]
    BY <2>5
  <2> HIDE DEF n, r
  <2>11. ASSUME NEW i \in 1..n - 1
         PROVE  \E k \in DOMAIN m.params :
                  /\ k < walk.cfin /\ m.params[k].p = "class" /\ m.params[k].v = ClassChain[i].id
    BY <1>1, <2>9 DEF DiscoveryInv, ParsedInv
  <2>12. \A i \in 1..n - 1 : ClassChain[i].id # c
    <3> SUFFICES ASSUME NEW i \in 1..n - 1, ClassChain[i].id = c
                 PROVE  FALSE
      OBVIOUS
    <3>1. PICK k \in DOMAIN m.params :
            k < walk.cfin /\ m.params[k].p = "class" /\ m.params[k].v = c
      BY <2>11
    <3>2. k = j
      BY <1>3, <2>6, <3>1 DEF AboutClasses, NamedOnce
    <3> QED
      BY <1>4, <2>6, <2>7, <3>1, <3>2
  <2>13. \A i, k \in DOMAIN ClassChain' : ClassChain'[i].id = ClassChain'[k].id => i = k
    <3>1. \A i, k \in 1..n - 1 : ClassChain[i].id = ClassChain[k].id => i = k
      BY <2>9 DEF DiscoveryInv, ChainInv
    <3>2. \A i \in 1..n : i = n \/ i \in 1..n - 1
      BY <2>9
    <3> QED
      BY <2>9, <2>10, <2>12, <3>1, <3>2
  <2>14. \A i \in DOMAIN ClassChain' : ClassChain'[i].topic = TypesTopic[ClassChain'[i].id]
    <3>1. \A i \in 1..n - 1 : ClassChain[i].topic = TypesTopic[ClassChain[i].id]
      BY <2>9 DEF DiscoveryInv, ChainInv
    <3>2. \A i \in 1..n : i = n \/ i \in 1..n - 1
      BY <2>9
    <3> QED
      BY <2>9, <2>10, <3>1, <3>2
  <2>15. \A d \in Classes : \A i \in DOMAIN typeChain'[d] : Entry(d, i)'
    BY <1>1 DEF DiscoveryInv, ChainInv, Entry, Visited, AskElements, Finished
  <2>16. ChainInv'
    BY <1>1, <2>13, <2>14, <2>15 DEF DiscoveryInv, ChainInv, Before, Finished, AskElements
  <2>17. ParsedInv'
    <3>1. ASSUME NEW i \in 1..n
          PROVE  \E k \in DOMAIN m.params :
                   /\ k < walk'.cfin /\ m.params[k].p = "class" /\ m.params[k].v = ClassChain'[i].id
      <4>1. CASE i = n
        <5>1. j < walk'.cfin
          BY <2>6, <2>7
        <5>2. ClassChain'[i].id = c
          BY <2>9, <2>10, <4>1
        <5> QED
          BY <2>6, <5>1, <5>2
      <4>2. CASE i \in 1..n - 1
        <5>1. PICK k \in DOMAIN m.params :
                k < walk.cfin /\ m.params[k].p = "class" /\ m.params[k].v = ClassChain[i].id
          BY <2>11, <4>2
        <5>2. ClassChain'[i] = ClassChain[i]
          BY <2>9, <4>2
        <5>3. k < walk'.cfin
          BY <1>4, <2>7, <5>1
        <5> QED
          BY <5>1, <5>2, <5>3
      <4> QED
        BY <2>9, <4>1, <4>2
    <3> QED
      BY <1>1, <1>2, <2>9, <3>1 DEF ParsedInv
  <2> QED
    BY <1>5, <2>16, <2>17 DEF DiscoveryInv
<1> QED
  BY <1>6, <1>7

LEMMA ClassesStep ==
  ASSUME Base, DiscoveryInv, DiscoverClasses
  PROVE  pc' = "ended" \/ DiscoveryInv'
<1> SUFFICES ASSUME pc' # "ended"
             PROVE  DiscoveryInv'
  OBVIOUS
<1> USE DEF DiscoveryInv
<1>0. QueueInv
  BY DEF Base
<1>1. CASE SubClasses \/ SubDefault
  <2>1. PICK top \in {RootTopic, LangTopic} :
          Subscribe(top, "getClasses") \/ Subscribe(top, "getDefault")
    BY <1>1 DEF SubClasses, SubDefault
  <2>2. /\ MQSUB(top) /\ UNCHANGED <<tree, at>>
        /\ pc \in {"subClasses", "subDefault"} /\ pc' \in {"getClasses", "getDefault"}
    BY <1>1, <2>1, SubscribeOutcome DEF SubClasses, SubDefault
  <2>3. top \in Metadata
    BY TopicAssumption
  <2>4. AskingInv' /\ ParsedInv'
    BY <1>0, <2>2, <2>3, AskStep DEF Getting, IsQuestion, AskClasses
  <2>5. ChainInv'
    BY <2>2, ChainIsKept DEF tree, AskElements, Finished, Before
  <2> QED
    BY <2>4, <2>5
<1>2. CASE GetClasses \/ GetDefault
  <2>1. /\ MQGET /\ UNCHANGED <<tree, at>>
        /\ pc \in {"getClasses", "getDefault"} /\ pc' = "closeClasses"
    BY <1>2, ReceiveOutcome DEF GetClasses, GetDefault
  <2>2. AskingInv' /\ ParsedInv'
    BY <1>0, <2>1, AnswerStep DEF Answered, IsQuestion, AskClasses, AskTypes, AskElements
  <2>3. ChainInv'
    BY <2>1, ChainIsKept DEF tree, AskElements, Finished, Before
  <2> QED
    BY <2>2, <2>3
<1>3. CASE LanguageMissing
  <2>1. /\ pc = "getClasses" /\ pc' = "subDefault" /\ UNCHANGED <<tree, at, retained, tdq>>
        /\ tdq = <<>> /\ (MQCLOSE \/ UNCHANGED subs)
    BY <1>3 DEF LanguageMissing, MQCLOSE
  <2>2. AskingInv' /\ ParsedInv'
    BY <1>0, <2>1, SubscriptionCloses DEF AskingInv, ParsedInv, Answered
  <2>3. ChainInv'
    BY <2>1, ChainIsKept DEF tree, AskElements, Finished, Before
  <2> QED
    BY <2>2, <2>3
<1>4. CASE CloseClasses
  <2>1. /\ pc = "closeClasses" /\ pc' = "parseClasses" /\ UNCHANGED <<tree, at, parse>>
        /\ MQCLOSE /\ UNCHANGED <<retained, tdq>>
    BY <1>4, CloseOutcome DEF CloseClasses, MQCLOSE
  <2>2. ClassChain' = <<>>
    BY <2>1 DEF ChainInv, Before, tree
  <2>3. AskingInv' /\ ParsedInv'
    BY <1>0, <2>1, <2>2, SubscriptionCloses DEF AskingInv, ParsedInv, IsQuestion, Answered,
       Getting, AskClasses, AskTypes, AskElements, parse
  <2>4. ChainInv'
    BY <2>1, ChainIsKept DEF tree, AskElements, Finished, Before
  <2> QED
    BY <2>3, <2>4
<1>5. CASE ClassesRead
  <2>1. /\ pc = "parseClasses" /\ pc' = "subTypes"
        /\ UNCHANGED <<tree, at, retained, subs, tdq>>
    BY <1>5 DEF ClassesRead, qmgr
  <2>2. AskingInv' /\ ParsedInv'
    BY <2>1 DEF AskingInv, ParsedInv, Answered, Getting
  <2>3. ChainInv'
    BY <2>1, ChainIsKept DEF tree, AskElements, Finished, Before
  <2> QED
    BY <2>2, <2>3
<1> QED
  BY <1>1, <1>2, <1>3, <1>4, <1>5, ParseClassStep DEF DiscoverClasses

\* The positions that the loops are at.
LEMMA ChainPositions ==
  ASSUME Base
  PROVE  /\ Len(ClassChain) \in Nat /\ DOMAIN ClassChain = 1..Len(ClassChain)
         /\ \A k \in DOMAIN ClassChain : ClassChain[k].id \in Classes
         /\ at = [class |-> at.class, type |-> at.type]
         /\ at.class \in Nat \ {0} /\ at.type \in Nat
         /\ at.class <= Len(ClassChain) => at.class \in DOMAIN ClassChain /\ AtClass \in Classes
         /\ \A c \in Classes :
              /\ Len(typeChain[c]) \in Nat /\ DOMAIN typeChain[c] = 1..Len(typeChain[c])
              /\ \A i \in DOMAIN typeChain[c] : <<c, typeChain[c][i].id>> \in Pairs
<1>1. PICK T : ClassChain \in Seq(T)
  BY DEF Base, TypeInv, ClassInv
<1>2. Len(ClassChain) \in Nat /\ DOMAIN ClassChain = 1..Len(ClassChain)
  BY <1>1
<1>3. \A k \in DOMAIN ClassChain : ClassChain[k].id \in Classes
  BY TypeInvImpliesTypeOK DEF Base, TypeOK
<1>4. /\ at = [class |-> at.class, type |-> at.type]
      /\ at.class \in 1..Len(ClassChain) + 1 /\ at.type \in Nat
  BY DEF Base, TypeInv, ClassInv
<1>5. ASSUME NEW c \in Classes
      PROVE  /\ Len(typeChain[c]) \in Nat /\ DOMAIN typeChain[c] = 1..Len(typeChain[c])
             /\ \A i \in DOMAIN typeChain[c] : <<c, typeChain[c][i].id>> \in Pairs
  <2>1. \E S : typeChain[c] \in Seq(S)
    BY DEF Base, TreeInv, TreeShape, IsChain
  <2>2. \A i \in DOMAIN typeChain[c] : typeChain[c][i].id \in TypesOf[c]
    BY DEF Base, TreeInv, TreeIsSound
  <2>3. \A t \in TypesOf[c] : <<c, t>> \in Pairs
    BY DEF Pairs, Types
  <2> QED
    BY <2>1, <2>2, <2>3
<1> QED
  BY <1>2, <1>3, <1>4, <1>5 DEF AtClass

LEMMA ParseTypeOfClass ==
  ASSUME Base, DiscoveryInv, ParseType
  PROVE  DiscoveryInv'
<1> DEFINE m == Message
           c == AtClass
<1>1. /\ pc = "parseTypes" /\ MoreParams /\ Advance("typeGroup") /\ Reading("typeGroup")
      /\ UNCHANGED <<at, buffer, retained, subs, tdq, ClassChain, elemChain>>
  BY DEF Base, TreeInv, ParseInv, ParseType, tree, qmgr, ReadType, Remember, sruRegisterType
<1>2. walk.cfin \in DOMAIN m.params /\ m' = m
  BY <1>1, ReadingAdvances DEF Message
<1>3. at.class \in DOMAIN ClassChain /\ c \in Classes
  BY <1>1, ChainPositions DEF Base, TypeInv, ClassInv
<1>4. buffer \in DOMAIN Content /\ AboutTypes(m, c)
  BY <1>1, <1>3, MetadataAssumption, TopicAssumption DEF DiscoveryInv, AskingInv, IsQuestion,
     Answered, AskClasses, AskElements, Message
<1>5. Len(m.params) \in Nat /\ DOMAIN m.params = 1..Len(m.params)
  BY <1>4, WalkAssumption DEF Message, GroupKinds
<1>6. /\ m.params[1].p = "class" /\ m.params[2].p = "flags"
      /\ \A j \in DOMAIN m.params : m.params[j].p = "class" => m.params[j].v = c
      /\ \A j \in DOMAIN m.params : m.params[j].p = "flags" => m.params[j].v = m.params[2].v
  BY <1>4 DEF AboutTypes, Says
<1>7. /\ walk.cfin > 1 => local.class_id = c
      /\ walk.cfin > 2 => local.flags = m.params[2].v
  BY <1>1 DEF DiscoveryInv, ParsedInv
<1>8. pc' = pc => AskingInv'
  BY <1>1 DEF DiscoveryInv, AskingInv, IsQuestion, AskClasses, AskTypes, AskElements, AtClass
<1>9. c' = c
  BY <1>1 DEF AtClass
<1>10. CASE Param.p # "typeGroup"
  <2>1. /\ UNCHANGED <<pc, tree>>
        /\ local' = [f \in DOMAIN local |->
              IF <<Param.p, f>> \in {<<"class", "class_id">>, <<"flags", "flags">>}
              THEN Param.v ELSE local[f]]
    BY <1>10 DEF ParseType, Remember
  <2>2. /\ local'.class_id = IF Param.p = "class" THEN Param.v ELSE local.class_id
        /\ local'.flags = IF Param.p = "flags" THEN Param.v ELSE local.flags
    BY <2>1 DEF Base, TreeInv, TreeShape
  <2>3. walk'.cfin = walk.cfin + 1
    BY <1>1, <1>2, <1>5, <1>10 DEF Advance
  <2>4. local'.class_id = c
    <3>1. walk.cfin = 1 \/ walk.cfin > 1
      BY <1>2, <1>5
    <3> QED
      BY <1>2, <1>6, <1>7, <2>2, <3>1 DEF Param
  <2>5. walk'.cfin > 2 => local'.flags = m.params[2].v
    <3>1. walk'.cfin > 2 => walk.cfin = 2 \/ walk.cfin > 2
      BY <1>2, <1>5, <2>3
    <3> QED
      BY <1>2, <1>6, <1>7, <2>2, <3>1 DEF Param
  <2>6. ParsedInv'
    BY <1>1, <1>2, <1>9, <2>1, <2>4, <2>5 DEF ParsedInv
  <2>7. ChainInv'
    BY <1>1, <2>1, ChainIsKept DEF DiscoveryInv, tree
  <2> QED
    BY <1>8, <2>1, <2>6, <2>7 DEF DiscoveryInv
<1>11. CASE Param.p = "typeGroup"
  <2>1. walk.cfin > 1 /\ walk.cfin > 2
    BY <1>2, <1>5, <1>6, <1>11 DEF Param
  <2>2. PICK t \in TypesOf[c] : /\ Gives(m, walk.cfin, "type", t)
                                /\ Gives(m, walk.cfin, "topic", ElementsTopic[<<c, t>>])
    BY <1>2, <1>4, <1>11 DEF AboutTypes, Param
  <2>3. Groups(m, "typeGroup", "type") /\ Groups(m, "typeGroup", "topic")
    BY <1>4, LayoutAssumption DEF Message, AboutTypes
  <2>4. Field("type", local.type_id) = t /\ Field("topic", NoTopic) = ElementsTopic[<<c, t>>]
    BY <1>2, <1>11, <2>2, <2>3, FieldIsGiven
  <2>5. /\ local' = [local EXCEPT !.type_id = Field("type", local.type_id),
                                  !.topic = Field("topic", NoTopic)]
        /\ IF sruIdToClass(local'.class_id)
           THEN sruRegisterType(local') /\ UNCHANGED <<pc, rc>>
           ELSE UNCHANGED tree /\ DiscoveryEnds(0)
    BY <1>11 DEF ParseType, ReadType
  <2>6. /\ local'.class_id = c /\ local'.type_id = t /\ local'.flags = m.params[2].v
        /\ local'.topic = ElementsTopic[<<c, t>>]
    <3>1. /\ local'.class_id = local.class_id /\ local'.flags = local.flags
          /\ local'.type_id = Field("type", local.type_id) /\ local'.topic = Field("topic", NoTopic)
      BY <2>5 DEF Base, TreeInv, TreeShape
    <3> QED
      BY <1>7, <2>1, <2>4, <3>1
  <2>7. sruIdToClass(c)
    BY <1>3 DEF sruIdToClass, AtClass
  <2> DEFINE r == [id |-> t, topic |-> ElementsTopic[<<c, t>>], flags |-> m.params[2].v]
             s == typeChain[c]
  <2>8. UNCHANGED pc /\ typeChain' = [typeChain EXCEPT ![c] = Append(typeChain[c], r)]
    BY <2>5, <2>6, <2>7 DEF sruRegisterType
  <2>9. <<c, t>> \in Pairs /\ m.params[2].v = PerObject(<<c, t>>)
    BY <1>3, <1>4, <2>2 DEF Pairs, Types, AboutTypes
  <2>10. /\ r.id = t /\ r.flags = PerObject(<<c, t>>) /\ r.topic = ElementsTopic[<<c, t>>]
    BY <2>9
  <2>11. /\ \A d \in Classes : typeChain'[d] = IF d = c THEN Append(s, r) ELSE typeChain[d]
    BY <1>3, <2>8 DEF Base, TreeInv, TreeShape
  <2>12. PICK S : s \in Seq(S)
    BY <1>3 DEF Base, TreeInv, TreeShape, IsChain
  <2> HIDE DEF r, s
  <2>13. \A i \in DOMAIN Append(s, r) : Append(s, r)[i] = r \/ (i \in DOMAIN s /\ Append(s, r)[i] = s[i])
    <3>1. s \in Seq(S \cup {r}) /\ r \in S \cup {r}
      BY <2>12
    <3> QED
      BY <3>1
  <2>14. \A d \in Classes : \A i \in DOMAIN typeChain[d] :
           /\ typeChain[d][i].flags = PerObject(<<d, typeChain[d][i].id>>)
           /\ typeChain[d][i].topic = ElementsTopic[<<d, typeChain[d][i].id>>]
    BY <1>1 DEF DiscoveryInv, ChainInv, Entry, Visited, AskElements, Finished
  <2>15. ASSUME NEW d \in Classes, NEW i \in DOMAIN typeChain'[d]
         PROVE  Entry(d, i)'
    <3>1. /\ typeChain'[d][i].flags = PerObject(<<d, typeChain'[d][i].id>>)
          /\ typeChain'[d][i].topic = ElementsTopic[<<d, typeChain'[d][i].id>>]
      <4>1. CASE d # c
        BY <2>11, <2>14, <4>1
      <4>2. CASE d = c
        <5>1. \A j \in DOMAIN s : /\ s[j].flags = PerObject(<<c, s[j].id>>)
                                  /\ s[j].topic = ElementsTopic[<<c, s[j].id>>]
          BY <1>3, <2>14 DEF s
        <5>2. typeChain'[d] = Append(s, r)
          BY <2>11, <4>2
        <5>3. typeChain'[d][i] = r \/ (i \in DOMAIN s /\ typeChain'[d][i] = s[i])
          BY <2>13, <5>2
        <5> HIDE DEF c
        <5> QED
          BY <2>10, <4>2, <5>1, <5>3
      <4> QED
        BY <4>1, <4>2
    <3>2. ~Visited(d, i)'
      BY <1>1, <2>8 DEF Visited, AskElements, Finished
    <3> QED
      BY <3>1, <3>2 DEF Entry
  <2>16. ChainInv'
    BY <1>1, <2>8, <2>15 DEF DiscoveryInv, ChainInv, Before, Finished, AskElements
  <2>17. ParsedInv'
    BY <1>1, <1>2, <1>9, <2>6, <2>8 DEF ParsedInv
  <2> QED
    BY <1>8, <2>8, <2>16, <2>17 DEF DiscoveryInv
<1> QED
  BY <1>10, <1>11

LEMMA TypesStep ==
  ASSUME Base, DiscoveryInv, DiscoverTypes
  PROVE  pc' = "ended" \/ DiscoveryInv'
<1> SUFFICES ASSUME pc' # "ended"
             PROVE  DiscoveryInv'
  OBVIOUS
<1> USE DEF DiscoveryInv
<1>0. QueueInv
  BY DEF Base
<1>1. CASE SubTypes
  <2> DEFINE top == ClassChain[at.class].topic
  <2>1. /\ Subscribe(top, "getTypes") /\ UNCHANGED at
        /\ pc = "subTypes" /\ at.class <= Len(ClassChain)
    BY <1>1 DEF SubTypes
  <2>2. MQSUB(top) /\ UNCHANGED tree /\ pc' = "getTypes"
    BY <2>1, SubscribeOutcome
  <2>3. at.class \in DOMAIN ClassChain /\ AtClass \in Classes /\ top = TypesTopic[AtClass]
    BY <2>1, ChainPositions DEF ChainInv, AtClass
  <2>4. top \in Metadata
    BY <2>3, TopicAssumption
  <2>5. AtClass' = AtClass
    BY <2>1, <2>2 DEF AtClass, tree
  <2> HIDE DEF top
  <2>7. \E tt \in Metadata : MQSUB(tt) /\ IsQuestion(tt)'
    <3>1. PICK tt : tt = top
      OBVIOUS
    <3>2. IsQuestion(tt)'
      BY <2>2, <2>3, <2>5, <3>1 DEF IsQuestion, AskTypes
    <3> QED
      BY <2>2, <2>4, <3>1, <3>2
  <2>8. PICK tt \in Metadata : MQSUB(tt) /\ IsQuestion(tt)'
    BY <2>7
  <2>9. AskingInv' /\ ParsedInv'
    BY <1>0, <2>1, <2>2, <2>8, AskStep DEF Getting
  <2>10. ChainInv'
    BY <2>1, <2>2, ChainIsKept DEF tree, AskElements, Finished, Before
  <2> QED
    BY <2>9, <2>10
<1>2. CASE GetTypes
  <2>1. /\ MQGET /\ UNCHANGED <<tree, at>> /\ pc = "getTypes" /\ pc' = "closeTypes"
    BY <1>2, ReceiveOutcome DEF GetTypes
  <2>2. AtClass' = AtClass
    BY <2>1 DEF AtClass, tree
  <2>3. AskingInv' /\ ParsedInv'
    BY <1>0, <2>1, <2>2, AnswerStep DEF Answered, IsQuestion, AskClasses, AskTypes, AskElements
  <2>4. ChainInv'
    BY <2>1, ChainIsKept DEF tree, AskElements, Finished, Before
  <2> QED
    BY <2>3, <2>4
<1>3. CASE CloseTypes
  <2>1. /\ pc = "closeTypes" /\ pc' = "parseTypes" /\ UNCHANGED <<tree, at, parse>>
        /\ MQCLOSE /\ UNCHANGED <<retained, tdq>>
    BY <1>3, CloseOutcome DEF CloseTypes, MQCLOSE
  <2>2. AtClass' = AtClass
    BY <2>1 DEF AtClass, tree
  <2>3. walk'.cfin = 1
    BY <2>1 DEF Base, TreeInv, ParseInv, parse
  <2>4. ParsedInv'
    BY <2>1, <2>3 DEF ParsedInv
  <2>5. AskingInv'
    BY <1>0, <2>1, <2>2, SubscriptionCloses DEF AskingInv, IsQuestion, Answered,
       Getting, AskClasses, AskTypes, AskElements, parse
  <2>6. ChainInv'
    BY <2>1, ChainIsKept DEF tree, AskElements, Finished, Before
  <2> QED
    BY <2>4, <2>5, <2>6
<1>4. CASE TypesRead \/ TypesDone
  <2>1. /\ pc \in {"parseTypes", "subTypes"} /\ pc' \in {"subTypes", "subElements"}
        /\ UNCHANGED <<tree, retained, subs, tdq>>
        /\ \/ pc' = "subTypes" /\ at' = [at EXCEPT !.class = @ + 1]
           \/ at' = [class |-> 1, type |-> 1]
    BY <1>4 DEF TypesRead, TypesDone, qmgr
  <2>2. AskingInv' /\ ParsedInv'
    BY <2>1 DEF AskingInv, ParsedInv, Answered, Getting
  <2>3. at'.type >= 1
    BY <2>1, ChainPositions DEF ChainInv
  <2>4. ASSUME NEW c \in Classes, NEW i \in DOMAIN typeChain'[c]
        PROVE  Entry(c, i)'
    <3>1. i \in DOMAIN typeChain[c] /\ ~(i < 1)
      BY <2>1, ChainPositions DEF tree
    <3>2. \A k \in DOMAIN ClassChain : ~(k < 1)
      BY ChainPositions
    <3>3. ~Visited(c, i) /\ ~Visited(c, i)'
      BY <2>1, <3>1, <3>2 DEF Visited, AskElements, Finished, tree
    <3> QED
      BY <2>1, <3>1, <3>3 DEF ChainInv, Entry, tree
  <2>5. ChainInv'
    BY <2>1, <2>3, <2>4 DEF ChainInv, tree, AskElements, Finished, Before
  <2> QED
    BY <2>2, <2>5
<1> QED
  BY <1>1, <1>2, <1>3, <1>4, ParseTypeOfClass DEF DiscoverTypes

\* The type that the loops are at has not been asked for before.
LEMMA AtPairIsNew ==
  ASSUME Base, ChainInv, at.class <= Len(ClassChain), at.type <= Len(typeChain[AtClass])
  PROVE  /\ at.class \in DOMAIN ClassChain /\ AtClass \in Classes
         /\ at.type \in DOMAIN typeChain[AtClass] /\ AtPair \in Pairs
         /\ ~Visited(AtClass, at.type)
<1>1. /\ at.class \in DOMAIN ClassChain /\ AtClass \in Classes
      /\ at.class \in Nat /\ at.type \in Nat
  BY ChainPositions
<1>2. at.type \in DOMAIN typeChain[AtClass] /\ AtPair \in Pairs
  <2>1. Len(typeChain[AtClass]) \in Nat /\ DOMAIN typeChain[AtClass] = 1..Len(typeChain[AtClass])
    BY <1>1, ChainPositions
  <2>2. at.type \in DOMAIN typeChain[AtClass]
    BY <1>1, <2>1 DEF ChainInv
  <2> QED
    BY <1>1, <2>2, ChainPositions DEF AtPair
<1>3. \A k \in DOMAIN ClassChain : ClassChain[k].id = AtClass => k = at.class
  BY <1>1 DEF ChainInv, AtClass
<1>4. ~Visited(AtClass, at.type)
  BY <1>1, <1>3 DEF Visited
<1> QED
  BY <1>1, <1>2, <1>4

\* The values in a chain of elements are still there when it has grown.
LEMMA FoundGrows ==
  ASSUME NEW S, NEW s \in Seq(S), NEW e
  PROVE  /\ \A i \in DOMAIN s : i \in DOMAIN Append(s, e) /\ Append(s, e)[i] = s[i]
         /\ \E i \in DOMAIN Append(s, e) : Append(s, e)[i] = e
<1>1. s \in Seq(S \cup {e}) /\ e \in S \cup {e} /\ Len(s) \in Nat
  OBVIOUS
<1>2. DOMAIN Append(s, e) = 1..Len(s) + 1 /\ Append(s, e)[Len(s) + 1] = e
  BY <1>1
<1>3. Len(s) + 1 \in 1..Len(s) + 1
  BY <1>1
<1> QED
  BY <1>1, <1>2, <1>3

LEMMA ParseElementOfType ==
  ASSUME Base, DiscoveryInv, ParseElement
  PROVE  DiscoveryInv'
<1> DEFINE m == Message
           q == AtPair
<1>1. /\ pc = "parseElements" /\ MoreParams /\ Advance("elemGroup") /\ Reading("elemGroup")
      /\ UNCHANGED <<at, buffer, retained, subs, tdq, ClassChain, typeChain>>
  BY DEF Base, TreeInv, ParseInv, ParseElement, tree, qmgr, ReadElement, Remember,
     sruRegisterElement
<1>2. walk.cfin \in DOMAIN m.params /\ m' = m
  BY <1>1, ReadingAdvances DEF Message
<1>3. /\ at.class <= Len(ClassChain) /\ at.type <= Len(typeChain[AtClass])
      /\ at.class \in DOMAIN ClassChain /\ AtClass \in Classes
      /\ at.type \in DOMAIN typeChain[AtClass] /\ q \in Pairs
  BY <1>1, AtPairIsNew DEF DiscoveryInv, ChainInv, AskElements
<1>4. buffer \in DOMAIN Content /\ AboutElements(m, q)
  BY <1>1, <1>3, MetadataAssumption, TopicAssumption DEF DiscoveryInv, AskingInv, IsQuestion,
     Answered, AskClasses, AskTypes, Message
<1>5. Len(m.params) \in Nat /\ DOMAIN m.params = 1..Len(m.params)
  BY <1>4, WalkAssumption DEF Message, GroupKinds
<1>6. /\ m.params[1].p = "class" /\ m.params[2].p = "type"
      /\ \A j \in DOMAIN m.params : m.params[j].p = "class" => m.params[j].v = AtClass
      /\ \A j \in DOMAIN m.params : m.params[j].p = "type" => m.params[j].v = q[2]
      /\ m.params[Len(m.params)].p = "topic" /\ m.params[Len(m.params)].v = DataTopic[q]
  BY <1>4 DEF AboutElements, Says, AtPair
<1>7. /\ walk.cfin > 1 => local.class_id = AtClass
      /\ walk.cfin > 2 => local.type_id = q[2]
      /\ \A h \in DOMAIN m.params : h < walk.cfin /\ m.params[h].p = "elemGroup" =>
           \A e \in ElemsOf[q] : Gives(m, h, "elem", e) => e \in ElemsFound(q)
  <2>1. ParsedInv /\ pc = "parseElements"
    BY <1>1 DEF DiscoveryInv
  <2> QED
    BY <2>1, Zenon DEF ParsedInv
<1>8. pc' = pc => AskingInv'
  BY <1>1 DEF DiscoveryInv, AskingInv, IsQuestion, AskClasses, AskTypes, AskElements, AtClass,
     AtPair
<1>9. q' = q /\ AtClass' = AtClass
  BY <1>1 DEF AtPair, AtClass
<1>10. CASE Param.p # "elemGroup"
  <2>1. /\ UNCHANGED <<pc, tree>>
        /\ local' = [f \in DOMAIN local |->
              IF <<Param.p, f>> \in {<<"class", "class_id">>, <<"type", "type_id">>,
                                    <<"topic", "topic">>}
              THEN Param.v ELSE local[f]]
    BY <1>10 DEF ParseElement, Remember
  <2>2. /\ local'.class_id = IF Param.p = "class" THEN Param.v ELSE local.class_id
        /\ local'.type_id = IF Param.p = "type" THEN Param.v ELSE local.type_id
        /\ local'.topic = IF Param.p = "topic" THEN Param.v ELSE local.topic
    BY <2>1 DEF Base, TreeInv, TreeShape
  <2>3. walk'.cfin = walk.cfin + 1 /\ walk.cfin \in Nat \ {0} /\ walk.cfin <= Len(m.params)
    BY <1>1, <1>2, <1>5, <1>10 DEF Advance
  <2>4. local'.class_id = AtClass
    <3>1. walk.cfin = 1 \/ walk.cfin > 1
      BY <2>3
    <3> QED
      BY <1>2, <1>6, <1>7, <2>2, <3>1 DEF Param
  <2>5. walk'.cfin > 2 => local'.type_id = q[2]
    <3>1. walk'.cfin > 2 => walk.cfin = 2 \/ walk.cfin > 2
      BY <2>3
    <3> QED
      BY <1>2, <1>6, <1>7, <2>2, <3>1 DEF Param
  <2>6. walk'.cfin > Len(m.params) => local'.topic = DataTopic[q]
    <3>1. walk'.cfin > Len(m.params) => walk.cfin = Len(m.params)
      BY <1>5, <2>3
    <3> QED
      BY <1>6, <2>2, <3>1 DEF Param
  <2>7. ElemsFound(q)' = ElemsFound(q)
    BY <1>9, <2>1 DEF ElemsFound, tree
  <2>8. \A h \in DOMAIN m.params : h < walk'.cfin /\ m.params[h].p = "elemGroup" =>
           \A e \in ElemsOf[q] : Gives(m, h, "elem", e) => e \in ElemsFound(q)'
    <3>1. \A h \in DOMAIN m.params : h < walk'.cfin /\ h # walk.cfin => h < walk.cfin
      BY <1>5, <2>3
    <3> QED
      BY <1>7, <1>10, <2>7, <3>1 DEF Param
  <2>9. ParsedInv'
    BY <1>1, <1>2, <1>9, <2>1, <2>4, <2>5, <2>6, <2>8 DEF ParsedInv
  <2>10. ChainInv'
    BY <1>1, <2>1, ChainIsKept DEF DiscoveryInv, tree
  <2> QED
    BY <1>8, <2>1, <2>9, <2>10 DEF DiscoveryInv
<1>11. CASE Param.p = "elemGroup"
  <2>1. /\ walk.cfin > 1 /\ walk.cfin > 2 /\ walk.cfin \in Nat
        /\ local.class_id = AtClass /\ local.type_id = q[2]
    <3>1. walk.cfin \in Nat \ {0} /\ walk.cfin # 1 /\ walk.cfin # 2
      BY <1>2, <1>5, <1>6, <1>11 DEF Param
    <3>2. walk.cfin > 1 /\ walk.cfin > 2
      BY <3>1
    <3> QED
      BY <1>7, <3>1, <3>2
  <2>2. local' = [local EXCEPT !.topic = NoTopic]
    BY <1>11 DEF ParseElement, ReadElement
  <2>3. local'.class_id = AtClass /\ local'.type_id = q[2] /\ q = <<local.class_id, local.type_id>>
    <3>1. local'.class_id = local.class_id /\ local'.type_id = local.type_id
      BY <2>2 DEF Base, TreeInv, TreeShape
    <3> QED
      BY <2>1, <3>1 DEF AtPair
  <2>4. Known(local)
    BY <1>3, <2>1 DEF Known, sruIdToClass, sruIdToType, AtClass, AtPair
  <2> DEFINE f == Field("elem", None)
             s == elemChain[q]
  <2>5. UNCHANGED pc /\ elemChain' = [elemChain EXCEPT ![q] = Append(s, f)]
    BY <1>11, <2>3, <2>4 DEF ParseElement, ReadElement, sruRegisterElement
  <2>6. Groups(m, "elemGroup", "elem")
    BY <1>4, LayoutAssumption DEF Message
  <2>7. \A e : Gives(m, walk.cfin, "elem", e) => f = e
    BY <1>2, <1>11, <2>6, FieldIsGiven
  <2>8. s \in Seq(AllElems) /\ q \in DOMAIN elemChain
    BY <1>3, TopicAssumption DEF Base, TreeInv, TreeShape
  <2>9. \A d : elemChain'[d] = IF d = q THEN Append(s, f) ELSE elemChain[d]
    <3>1. ASSUME NEW d PROVE elemChain'[d] = IF d = q THEN Append(s, f) ELSE elemChain[d]
      BY <2>5, <2>8
    <3> QED
      BY <3>1
  <2> HIDE DEF f, s
  <2>10. \A i \in DOMAIN s : i \in DOMAIN Append(s, f) /\ Append(s, f)[i] = s[i]
    BY <2>8, FoundGrows
  <2>11. \A d : ElemsFound(d) \subseteq ElemsFound(d)'
    <3> SUFFICES ASSUME NEW d, NEW i \in DOMAIN elemChain[d]
                 PROVE  \E j \in DOMAIN elemChain'[d] : elemChain'[d][j] = elemChain[d][i]
      BY DEF ElemsFound
    <3>1. CASE d = q
      BY <2>9, <2>10, <3>1 DEF s
    <3>2. CASE d # q
      BY <2>9, <3>2
    <3> QED
      BY <3>1, <3>2
  <2>12. f \in ElemsFound(q)'
    <3>1. PICK i \in DOMAIN Append(s, f) : Append(s, f)[i] = f
      BY <2>8, FoundGrows
    <3>2. elemChain'[q] = Append(s, f)
      BY <2>9
    <3> QED
      BY <1>9, <3>1, <3>2 DEF ElemsFound
  <2>13. walk'.cfin = walk.cfin + 1 + Param.v /\ Param.v \in Nat /\ walk.cfin + Param.v < Len(m.params)
    BY <1>1, <1>2, <1>4, <1>11, <2>6 DEF Advance, Groups, Param, AboutElements
  <2>14. ~(walk'.cfin > Len(m.params)) /\ walk'.cfin > 2
    BY <1>5, <2>1, <2>13
  <2>15. ASSUME NEW h \in DOMAIN m.params, h < walk'.cfin, m.params[h].p = "elemGroup",
                NEW e \in ElemsOf[q], Gives(m, h, "elem", e)
         PROVE  e \in ElemsFound(q)'
    <3>1. CASE h < walk.cfin
      BY <1>7, <1>9, <2>11, <2>15, <3>1
    <3>2. CASE h = walk.cfin
      BY <2>7, <2>12, <2>15, <3>2
    <3>3. CASE h > walk.cfin
      <4>1. walk.cfin + Param.v < h
        BY <1>2, <1>4, <1>11, <2>15, <3>3 DEF AboutElements, IsRead, Param
      <4> QED
        BY <1>5, <2>1, <2>13, <2>15, <4>1
    <3> QED
      BY <1>5, <2>1, <3>1, <3>2, <3>3
  <2>16. ParsedInv'
    BY <1>1, <1>2, <1>9, <2>3, <2>5, <2>14, <2>15 DEF ParsedInv
  <2>17. ASSUME NEW d \in Classes, NEW i \in DOMAIN typeChain[d]
         PROVE  Entry(d, i)'
    <3>1. Entry(d, i)
      BY DEF DiscoveryInv, ChainInv
    <3>2. (Visited(d, i) <=> Visited(d, i)') /\ (IsFirstOf(d, i) <=> IsFirstOf(d, i)')
      BY <1>1, <2>5 DEF Visited, IsFirstOf
    <3> QED
      BY <1>1, <2>11, <3>1, <3>2 DEF Entry
  <2>18. ChainInv'
    BY <1>1, <1>3, <1>9, <2>5, <2>17 DEF DiscoveryInv, ChainInv, Before, Finished
  <2> QED
    BY <1>8, <2>5, <2>16, <2>18 DEF DiscoveryInv
<1> QED
  BY <1>10, <1>11

LEMMA LeastMember ==
  ASSUME NEW T, T \subseteq Nat, T # {}
  PROVE  \E x \in T : \A y \in T : x <= y
<1> DEFINE R == OpToRel(<, Nat)
<1>1. IsWellFoundedOn(R, Nat)
  BY NatLessThanWellFounded
<1>2. \A x, y \in Nat : x < y => <<x, y>> \in R
  BY DEF OpToRel
<1> HIDE DEF R
<1>3. PICK x \in T : \A y \in T : ~(<<y, x>> \in R)
  BY <1>1, WFMin
<1>4. \A y \in T : ~(y < x) /\ y \in Nat /\ x \in Nat
  BY <1>2, <1>3
<1>5. \A y \in T : x <= y
  BY <1>4
<1> QED
  BY <1>3, <1>5

\* The type that sruIdToType() finds.
LEMMA FirstTypeIsFirst ==
  ASSUME Base, NEW c \in Classes, NEW t, NEW i \in DOMAIN typeChain[c], typeChain[c][i].id = t
  PROVE  /\ FirstType(c, t) \in DOMAIN typeChain[c] /\ FirstType(c, t) <= i
         /\ typeChain[c][FirstType(c, t)].id = t /\ IsFirstOf(c, FirstType(c, t))
<1> DEFINE T == {j \in DOMAIN typeChain[c] : typeChain[c][j].id = t}
           k == FirstType(c, t)
<1>1. Len(typeChain[c]) \in Nat /\ DOMAIN typeChain[c] = 1..Len(typeChain[c])
  BY ChainPositions
<1>2. T \subseteq Nat /\ i \in T
  BY <1>1
<1> HIDE DEF T
<1>3. PICK x \in T : \A y \in T : x <= y
  BY <1>2, LeastMember
<1>4. \A j \in 1..x - 1 : typeChain[c][j].id # t
  <2> SUFFICES ASSUME NEW j \in 1..x - 1, typeChain[c][j].id = t
               PROVE  FALSE
    OBVIOUS
  <2>1. j \in DOMAIN typeChain[c] /\ ~(x <= j)
    BY <1>1, <1>3 DEF T
  <2> QED
    BY <1>3, <2>1 DEF T
<1>5. x \in DOMAIN typeChain[c] /\ typeChain[c][x].id = t
  BY <1>3 DEF T
<1>6. /\ k \in DOMAIN typeChain[c] /\ typeChain[c][k].id = t
      /\ \A j \in 1..k - 1 : typeChain[c][j].id # t
  BY <1>4, <1>5 DEF FirstType
<1> HIDE DEF k
<1>7. k <= i
  <2> SUFFICES ASSUME ~(k <= i)
               PROVE  FALSE
    OBVIOUS
  <2>1. i \in 1..k - 1
    BY <1>1, <1>6
  <2> QED
    BY <1>6, <2>1
<1> QED
  BY <1>6, <1>7 DEF k, IsFirstOf

LEMMA TopicIsReplaced ==
  ASSUME NEW s, IsChain(s), NEW k \in DOMAIN s, NEW topic
  PROVE  LET s2 == WithTopic(s, k, topic) IN
         /\ DOMAIN s2 = DOMAIN s
         /\ \A i \in DOMAIN s : s2[i].id = s[i].id
         /\ \A i \in DOMAIN s : s2[i].flags = s[i].flags
         /\ \A i \in DOMAIN s : s2[i].topic = IF i = k THEN topic ELSE s[i].topic
<1> DEFINE s2 == WithTopic(s, k, topic)
           r == [s[k] EXCEPT !.topic = topic]
<1>1. PICK S : s \in Seq(S)
  BY DEF IsChain
<1>2. s2 = [s EXCEPT ![k] = r]
  BY DEF WithTopic
<1>3. s[k] = [id |-> s[k].id, topic |-> s[k].topic, flags |-> s[k].flags]
  BY DEF IsChain
<1>4. r.id = s[k].id /\ r.flags = s[k].flags /\ r.topic = topic
  BY <1>3
<1> HIDE DEF r, s2
<1>5. DOMAIN s2 = DOMAIN s /\ \A i \in DOMAIN s : s2[i] = IF i = k THEN r ELSE s[i]
  BY <1>1, <1>2
<1> QED
  BY <1>4, <1>5 DEF s2

\* At the end of an answer the topic and all elements of its type are known.
LEMMA AnswerIsComplete ==
  ASSUME Base, DiscoveryInv, pc = "parseElements", ~MoreParams
  PROVE  /\ local.class_id = AtClass /\ local.type_id = AtPair[2] /\ local.topic = DataTopic[AtPair]
         /\ ElemsOf[AtPair] \subseteq ElemsFound(AtPair)
         /\ Len(DataTopic[AtPair]) <= Len(ElementsTopic[AtPair])
<1> DEFINE m == Message
           q == AtPair
<1>1. q \in Pairs
  BY AtPairIsNew DEF DiscoveryInv, ChainInv, AskElements
<1>2. buffer \in DOMAIN Content /\ AboutElements(m, q)
  BY <1>1, MetadataAssumption, TopicAssumption DEF DiscoveryInv, AskingInv, IsQuestion,
     Answered, AskClasses, AskTypes, Message
<1>3. Len(m.params) \in Nat /\ DOMAIN m.params = 1..Len(m.params) /\ m.count \in Nat
  BY <1>2, WalkAssumption DEF Message, GroupKinds
<1>4. walk.cfin = Len(m.params) + 1
  <2>1. PICK pos \in [0..m.count -> 1..Len(m.params) + 1] :
          IsWalk(m, "elemGroup", pos) /\ walk.cfin = pos[walk.idx] /\ walk.idx \in 0..m.count
    BY DEF Base, TreeInv, ParseInv, Reading
  <2>2. walk.idx = m.count
    BY <1>3, <2>1 DEF MoreParams
  <2> QED
    BY <1>2, <2>1, <2>2 DEF AboutElements, IsRead
<1>5. 1 \in DOMAIN m.params /\ 2 \in DOMAIN m.params
  BY <1>2 DEF AboutElements, Says
<1>6. walk.cfin > 1 /\ walk.cfin > 2 /\ walk.cfin > Len(m.params)
  BY <1>3, <1>4, <1>5
<1>7. /\ local.class_id = AtClass /\ local.type_id = q[2] /\ local.topic = DataTopic[q]
      /\ \A h \in DOMAIN m.params : h < walk.cfin /\ m.params[h].p = "elemGroup" =>
           \A e \in ElemsOf[q] : Gives(m, h, "elem", e) => e \in ElemsFound(q)
  BY <1>6 DEF DiscoveryInv, ParsedInv
<1>8. \A h \in DOMAIN m.params : h < walk.cfin
  BY <1>3, <1>4
<1>9. ElemsOf[q] \subseteq ElemsFound(q)
  BY <1>2, <1>7, <1>8 DEF AboutElements
<1> QED
  BY <1>2, <1>7, <1>9 DEF AboutElements

LEMMA ElementsReadOfType ==
  ASSUME Base, DiscoveryInv, ElementsRead
  PROVE  DiscoveryInv'
<1> DEFINE c == AtClass
           t == AtPair[2]
           q == AtPair
           k == FirstType(c, t)
           s == typeChain[c]
           s2 == WithTopic(s, k, DataTopic[q])
<1>1. /\ pc = "parseElements" /\ ~MoreParams
      /\ UNCHANGED <<retained, subs, tdq, ClassChain, elemChain>>
  BY DEF ElementsRead, tree, qmgr, sruUpdateType
<1>2. /\ at.class \in DOMAIN ClassChain /\ c \in Classes
      /\ at.type \in DOMAIN s /\ q \in Pairs
      /\ at.class <= Len(ClassChain) /\ at.type <= Len(s)
  BY <1>1, AtPairIsNew DEF DiscoveryInv, ChainInv, AskElements
<1>3. /\ local.class_id = c /\ local.type_id = t /\ local.topic = DataTopic[q]
      /\ ElemsOf[q] \subseteq ElemsFound(q)
      /\ Len(DataTopic[q]) <= Len(ElementsTopic[q])
  BY <1>1, AnswerIsComplete
<1>4. s[at.type].id = t /\ q = <<c, t>>
  BY DEF AtPair
<1>5. k \in DOMAIN s /\ k <= at.type /\ s[k].id = t /\ IsFirstOf(c, k)
  BY <1>2, <1>4, FirstTypeIsFirst
<1>6. Known(local)
  BY <1>2, <1>3, <1>4 DEF Known, sruIdToClass, sruIdToType, AtClass
<1>7. Len(DataTopic[q]) <= Len(s[k].topic)
  <2>1. Entry(c, k)
    BY <1>2, <1>5 DEF DiscoveryInv, ChainInv
  <2>2. s[k].topic = ElementsTopic[q] \/ s[k].topic = DataTopic[q]
    BY <1>4, <1>5, <2>1 DEF Entry
  <2>3. Len(DataTopic[q]) \in Nat
    BY <1>2, TopicAssumption
  <2> QED
    BY <1>3, <2>2, <2>3
<1>8. /\ pc' = "subElements" /\ at' = [at EXCEPT !.type = @ + 1]
      /\ typeChain' = [typeChain EXCEPT ![c][k].topic = DataTopic[q]]
  BY <1>3, <1>6, <1>7 DEF ElementsRead, sruUpdateType
<1>9. \A d \in Classes : typeChain'[d] = IF d = c THEN s2 ELSE typeChain[d]
  BY <1>2, <1>8 DEF Base, TreeInv, TreeShape, WithTopic
<1>10. IsChain(s)
  BY <1>2 DEF Base, TreeInv, TreeShape
<1> HIDE DEF k, s
<1>11. /\ DOMAIN s2 = DOMAIN s
       /\ \A i \in DOMAIN s : s2[i].id = s[i].id
       /\ \A i \in DOMAIN s : s2[i].flags = s[i].flags
       /\ \A i \in DOMAIN s : s2[i].topic = IF i = k THEN DataTopic[q] ELSE s[i].topic
  BY <1>5, <1>10, TopicIsReplaced
<1> HIDE DEF s2
<1>12. ASSUME NEW d \in Classes
       PROVE  /\ DOMAIN typeChain'[d] = DOMAIN typeChain[d]
              /\ \A i \in DOMAIN typeChain[d] : typeChain'[d][i].id = typeChain[d][i].id
              /\ \A i \in DOMAIN typeChain[d] : typeChain'[d][i].flags = typeChain[d][i].flags
              /\ \A i \in DOMAIN typeChain[d] : typeChain'[d][i].topic =
                   IF d = c /\ i = k THEN DataTopic[q] ELSE typeChain[d][i].topic
  BY <1>9, <1>11 DEF s
<1>13. /\ at'.class = at.class /\ at'.type = at.type + 1
       /\ at.class \in Nat /\ at.type \in Nat
  BY <1>8, ChainPositions
<1>14. ASSUME NEW d \in Classes, NEW i \in DOMAIN typeChain[d]
       PROVE  Visited(d, i)' <=> Visited(d, i) \/ (d = c /\ i <= at.type)
  <2>1. i \in Nat /\ \A j \in DOMAIN ClassChain : j \in Nat
    BY ChainPositions
  <2>2. \A j \in DOMAIN ClassChain : ClassChain[j].id = c => j = at.class
    BY <1>2 DEF DiscoveryInv, ChainInv, AtClass
  <2>3. i < at.type + 1 <=> i <= at.type
    BY <1>13, <2>1
  <2>4. ClassChain[at.class].id = c
    BY DEF AtClass
  <2>5. i <= at.type <=> i < at.type \/ i = at.type
    BY <1>13, <2>1
  <2> HIDE DEF c
  <2> QED
    BY <1>1, <1>2, <1>8, <1>13, <2>1, <2>2, <2>3, <2>4, <2>5 DEF Visited, AskElements
<1>15. ASSUME NEW d \in Classes, NEW i \in DOMAIN typeChain[d]
       PROVE  Entry(d, i)'
  <2>1. Entry(d, i)
    BY DEF DiscoveryInv, ChainInv
  <2>2. IsFirstOf(d, i)' <=> IsFirstOf(d, i)
    <3>1. \A j \in 1..i - 1 : j \in DOMAIN typeChain[d]
      BY ChainPositions
    <3> QED
      BY <1>12, <3>1 DEF IsFirstOf
  <2>3. \A p : ElemsFound(p)' = ElemsFound(p)
    BY <1>1 DEF ElemsFound
  <2>4. CASE d = c /\ i = k
    <3>1. Visited(d, i)'
      BY <1>5, <1>14, <2>4
    <3>2. <<d, typeChain[d][i].id>> = q /\ typeChain'[d][i].topic = DataTopic[q]
      BY <1>4, <1>5, <1>12, <2>4 DEF s
    <3> QED
      BY <1>3, <1>12, <2>1, <2>3, <3>1, <3>2 DEF Entry
  <2>5. CASE ~(d = c /\ i = k)
    <3>1. typeChain'[d][i].topic = typeChain[d][i].topic
      BY <1>12, <2>5
    <3>2. Visited(d, i)' /\ IsFirstOf(d, i) => Visited(d, i)
      <4> SUFFICES ASSUME IsFirstOf(d, i), d = c, i <= at.type, ~Visited(d, i)
                   PROVE  FALSE
        BY <1>14
      <4>1. i = at.type
        <5>1. i \in Nat /\ (i < at.type => Visited(d, i))
          <6>1. i \in Nat
            BY ChainPositions
          <6>2. ClassChain[at.class].id = d
            BY DEF AtClass
          <6> QED
            BY <1>1, <1>2, <6>1, <6>2 DEF Visited, AskElements
        <5> QED
          BY <1>13, <5>1
      <4>2. k \in 1..i - 1
        <5>1. k \in Nat \ {0} /\ k # i /\ k <= i /\ i \in Nat
          BY <1>2, <1>5, <1>13, <2>5, <4>1, ChainPositions DEF s
        <5> QED
          BY <5>1
      <4> QED
        BY <1>4, <1>5, <4>1, <4>2 DEF IsFirstOf, s
    <3> QED
      BY <1>12, <1>14, <2>1, <2>2, <2>3, <3>1, <3>2 DEF Entry
  <2> QED
    BY <2>4, <2>5
<1>16. ChainInv'
  BY <1>1, <1>8, <1>12, <1>13, <1>15 DEF DiscoveryInv, ChainInv, Before, Finished, AskElements
<1>17. AskingInv' /\ ParsedInv'
  BY <1>1, <1>8 DEF DiscoveryInv, AskingInv, ParsedInv, Answered, Getting
<1> QED
  BY <1>16, <1>17 DEF DiscoveryInv

LEMMA ElementsStep ==
  ASSUME Base, DiscoveryInv, DiscoverElements
  PROVE  pc' = "ended" \/ DiscoveryInv'
<1> SUFFICES ASSUME pc' # "ended"
             PROVE  DiscoveryInv'
  OBVIOUS
<1> USE DEF DiscoveryInv
<1>0. QueueInv
  BY DEF Base
<1>1. CASE SubElements
  <2> DEFINE top == typeChain[AtClass][at.type].topic
  <2>1. /\ Subscribe(top, "getElements") /\ UNCHANGED at /\ pc = "subElements"
        /\ at.class <= Len(ClassChain) /\ at.type <= Len(typeChain[AtClass])
    BY <1>1 DEF SubElements, Chain, AtClass
  <2>2. MQSUB(top) /\ UNCHANGED tree /\ pc' = "getElements"
    BY <2>1, SubscribeOutcome
  <2>3. AtClass \in Classes /\ AtPair \in Pairs /\ Entry(AtClass, at.type) /\ ~Visited(AtClass, at.type)
    BY <2>1, AtPairIsNew DEF ChainInv
  <2>4. top = ElementsTopic[AtPair] /\ top \in Metadata
    <3>1. top = ElementsTopic[AtPair]
      BY <2>3 DEF Entry, AtPair
    <3> QED
      BY <2>3, <3>1, TopicAssumption
  <2>5. AtPair' = AtPair /\ AtClass' = AtClass
    BY <2>1, <2>2 DEF AtClass, AtPair, tree
  <2> HIDE DEF top
  <2>7. \E tt \in Metadata : MQSUB(tt) /\ IsQuestion(tt)'
    <3>1. PICK tt : tt = top
      OBVIOUS
    <3>2. IsQuestion(tt)'
      BY <2>2, <2>4, <2>5, <3>1 DEF IsQuestion, AskElements
    <3> QED
      BY <2>2, <2>4, <3>1, <3>2
  <2>8. PICK tt \in Metadata : MQSUB(tt) /\ IsQuestion(tt)'
    BY <2>7
  <2>9. AskingInv' /\ ParsedInv'
    BY <1>0, <2>1, <2>2, <2>8, AskStep DEF Getting
  <2>10. ChainInv'
    BY <2>1, <2>2, ChainIsKept DEF tree, AskElements, Finished, Before
  <2> QED
    BY <2>9, <2>10
<1>2. CASE GetElements
  <2>1. /\ MQGET /\ UNCHANGED <<tree, at>> /\ pc = "getElements" /\ pc' = "closeElements"
    BY <1>2, ReceiveOutcome DEF GetElements
  <2>2. AtPair' = AtPair
    BY <2>1 DEF AtClass, AtPair, tree
  <2>3. AskingInv' /\ ParsedInv'
    BY <1>0, <2>1, <2>2, AnswerStep DEF Answered, IsQuestion, AskClasses, AskTypes, AskElements
  <2>4. ChainInv'
    BY <2>1, ChainIsKept DEF tree, AskElements, Finished, Before
  <2> QED
    BY <2>3, <2>4
<1>3. CASE CloseElements
  <2>1. /\ pc = "closeElements" /\ pc' = "parseElements" /\ UNCHANGED <<tree, at, parse>>
        /\ MQCLOSE /\ UNCHANGED <<retained, tdq>>
    BY <1>3, CloseOutcome DEF CloseElements, MQCLOSE
  <2>2. AtPair' = AtPair
    BY <2>1 DEF AtClass, AtPair, tree
  <2>3. walk'.cfin = 1 /\ buffer \in DOMAIN Content /\ UNCHANGED buffer
    BY <2>1 DEF Base, TreeInv, ParseInv, parse
  <2>4. AtPair \in Pairs /\ IsQuestion(buffer)
    BY <2>1, AtPairIsNew DEF ChainInv, AskingInv, AskElements, Answered
  <2>5. buffer = ElementsTopic[AtPair]
    BY <2>1, <2>4 DEF IsQuestion, AskClasses, AskTypes
  <2>6. DOMAIN Message.params = 1..Len(Message.params) /\ Message' = Message
        /\ Len(Message.params) \in DOMAIN Message.params
    <3>1. DOMAIN Message.params = 1..Len(Message.params) /\ Len(Message.params) \in Nat
      <4>1. "elemGroup" \in GroupKinds
        BY DEF GroupKinds
      <4> QED
        BY <2>3, <4>1, WalkAssumption DEF Message
    <3>2. 1 \in DOMAIN Message.params
      BY <2>4, <2>5, MetadataAssumption DEF Message, AboutElements, Says
    <3> QED
      BY <2>3, <3>1, <3>2 DEF Message
  <2>7. ParsedInv'
    BY <2>1, <2>3, <2>6 DEF ParsedInv
  <2>8. AskingInv'
    BY <1>0, <2>1, <2>2, SubscriptionCloses DEF AskingInv, IsQuestion, Answered,
       Getting, AskClasses, AskTypes, AskElements, parse
  <2>9. ChainInv'
    BY <2>1, ChainIsKept DEF tree, AskElements, Finished, Before
  <2> QED
    BY <2>7, <2>8, <2>9
<1>4. CASE NextClass
  <2>1. /\ pc = "subElements" /\ pc' = pc /\ UNCHANGED <<tree, retained, subs, tdq>>
        /\ at.class <= Len(ClassChain) /\ at.type > Len(typeChain[AtClass])
        /\ at' = [class |-> at.class + 1, type |-> 1]
    BY <1>4 DEF NextClass, qmgr, Chain, AtClass
  <2>2. AskingInv' /\ ParsedInv'
    BY <2>1 DEF AskingInv, ParsedInv, Answered, Getting
  <2>3. at.class \in Nat /\ at.type \in Nat /\ at.class \in DOMAIN ClassChain
    BY <2>1, ChainPositions
  <2>4. ASSUME NEW c \in Classes, NEW i \in DOMAIN typeChain[c]
        PROVE  Visited(c, i)' <=> Visited(c, i)
    <3>1. i \in Nat /\ i >= 1 /\ i <= Len(typeChain[c]) /\ Len(typeChain[c]) \in Nat
          /\ \A k \in DOMAIN ClassChain : k \in Nat
      BY ChainPositions
    <3>2. ClassChain[at.class].id = c => i < at.type
      <4>1. ClassChain[at.class].id = c => at.type > Len(typeChain[c])
        BY <2>1 DEF AtClass
      <4> QED
        BY <2>3, <3>1, <4>1
    <3>3. \A k \in DOMAIN ClassChain :
            (k < at.class + 1 \/ (k = at.class + 1 /\ i < 1)) <=> (k < at.class \/ k = at.class)
      BY <2>3, <3>1
    <3> QED
      BY <2>1, <2>3, <3>2, <3>3 DEF Visited, tree
  <2>5. ASSUME NEW c \in Classes, NEW i \in DOMAIN typeChain[c]
        PROVE  Entry(c, i)'
    <3>1. Entry(c, i) /\ (IsFirstOf(c, i)' <=> IsFirstOf(c, i)) /\ \A q : ElemsFound(q)' = ElemsFound(q)
      BY <2>1 DEF ChainInv, IsFirstOf, ElemsFound, tree
    <3> QED
      BY <2>1, <2>4, <3>1 DEF Entry, tree
  <2>6. ChainInv'
    BY <2>1, <2>5 DEF ChainInv, tree, AskElements, Finished, Before
  <2> QED
    BY <2>2, <2>6
<1>5. CASE ElementsDone
  <2>1. /\ pc = "subElements" /\ pc' = "promptClass" /\ at.class > Len(ClassChain)
        /\ UNCHANGED <<tree, at, retained, subs, tdq>>
    BY <1>5 DEF ElementsDone, DiscoveryEnds, qmgr
  <2>2. AskingInv' /\ ParsedInv'
    BY <2>1 DEF AskingInv, ParsedInv, Answered, Getting
  <2>3. ChainInv'
    BY <2>1, ChainIsKept DEF tree, AskElements, Finished, Before
  <2> QED
    BY <2>2, <2>3
<1> QED
  BY <1>1, <1>2, <1>3, <1>4, <1>5, ParseElementOfType, ElementsReadOfType DEF DiscoverElements

-----------------------------------------------------------------------------
(* The same for all steps of an undisturbed run. *)

FoundInv ==
  /\ retained \subseteq Metadata
  /\ Quiet /\ pc \notin Over => ChainInv
  /\ Quiet /\ pc \notin Late => AskingInv /\ ParsedInv

\* Only the queue manager makes a publication retained, and only of metadata.
LEMMA RetainedStep ==
  ASSUME [Next]_vars
  PROVE  UNCHANGED retained \/ \E top \in DOMAIN Content : Publish(top)
<1>1. CASE Start
  BY <1>1 DEF Start, ParseOption, BadOption, OptionsParsed, MQCONN, QueryQMName, OpenQueue,
     Works, Fails, qmgr
<1>2. CASE DiscoverClasses
  BY <1>2 DEF DiscoverClasses, SubClasses, GetClasses, LanguageMissing, SubDefault, GetDefault,
     CloseClasses, ParseClass, ClassesRead, Subscribe, Receive, CloseSubscription, MQSUB, MQGET,
     MQCLOSE, NothingCame, Fails, qmgr
<1>3. CASE DiscoverTypes
  BY <1>3 DEF DiscoverTypes, SubTypes, GetTypes, CloseTypes, ParseType, TypesRead, TypesDone,
     Subscribe, Receive, CloseSubscription, MQSUB, MQGET, MQCLOSE, NothingCame, Fails, qmgr
<1>4. CASE DiscoverElements
  BY <1>4 DEF DiscoverElements, SubElements, GetElements, CloseElements, ParseElement,
     ElementsRead, NextClass, ElementsDone, Subscribe, Receive, CloseSubscription, MQSUB, MQGET,
     MQCLOSE, NothingCame, Fails, qmgr
<1>5. CASE SubscribeType
  <2>1. PICK top, obj : SubscribeData(top, obj)
    BY <1>5 DEF SubscribeType
  <2> QED
    BY <2>1 DEF SubscribeData, MQSUB, Fails
<1>6. CASE Subscriptions /\ ~SubscribeType
  BY <1>6 DEF Subscriptions, PromptForClass, PromptForType, NotRecognised, ClassSubscribed,
     AllSubscribed, qmgr
<1>7. CASE Publications
  BY <1>7 DEF Publications, PrintPublication, GetFails, EnoughPrinted, MQDISC, Works, Fails,
     NothingCame, qmgr
<1>8. CASE UNCHANGED vars
  BY <1>8 DEF vars, qmgr
<1>9. CASE \E top \in DOMAIN Content : Publish(top) \/ PublishData(top)
  BY <1>9 DEF Publish, PublishData
<1> QED
  BY NextCases, <1>1, <1>2, <1>3, <1>4, <1>5, <1>6, <1>7, <1>8, <1>9

LEMMA QuietFromStart ==
  ASSUME Base, [Next]_vars, Quiet'
  PROVE  Quiet /\ ~\E top \in DOMAIN Content : Publish(top)
<1>1. published \in Nat
  BY BoundsAssumption DEF Base, TypeInv, CountInv
<1>2. ASSUME NEW top, Publish(top)
      PROVE  FALSE
  BY <1>1, <1>2 DEF Publish, Quiet
<1>3. UNCHANGED published
  BY <1>2, FaultsAreCounted
<1> QED
  BY <1>2, <1>3 DEF Quiet

LEMMA FoundStep ==
  ASSUME Base, FoundInv, [Next]_vars
  PROVE  FoundInv'
<1>1. retained' \subseteq Metadata
  BY RetainedStep DEF FoundInv, Publish
<1> SUFFICES ASSUME Quiet', pc' \notin Over
             PROVE  ChainInv' /\ (pc' \notin Late => AskingInv' /\ ParsedInv')
  BY <1>1 DEF FoundInv, Over, Late
<1>2. Quiet /\ ~\E top \in DOMAIN Content : Publish(top)
  BY QuietFromStart
<1> USE DEF Over, Late
<1>3. CASE Start
  <2>1. /\ pc \in {"args", "connect", "inquire", "open"}
        /\ pc' \in {"args", "connect", "inquire", "open", "subClasses"}
        /\ UNCHANGED <<tree, at, subs, tdq>>
    BY <1>3 DEF Start, ParseOption, BadOption, OptionsParsed, MQCONN, QueryQMName, OpenQueue,
       Works, Fails, Exit, qmgr
  <2>2. ChainInv /\ AskingInv
    BY <1>2, <2>1 DEF FoundInv
  <2>3. ChainInv'
    BY <2>1, <2>2, ChainIsKept DEF AskElements, Finished, Before, tree
  <2>4. AskingInv' /\ ParsedInv'
    BY <1>1, <2>1, <2>2 DEF AskingInv, ParsedInv, Answered, Getting
  <2> QED
    BY <2>3, <2>4
<1>4. CASE DiscoverClasses \/ DiscoverTypes \/ DiscoverElements
  <2>1. pc \notin Late
    BY <1>4 DEF DiscoverClasses, SubClasses, GetClasses, LanguageMissing, SubDefault, GetDefault,
       CloseClasses, ParseClass, ClassesRead, DiscoverTypes, SubTypes, GetTypes, CloseTypes,
       ParseType, TypesRead, TypesDone, DiscoverElements, SubElements, GetElements,
       CloseElements, ParseElement, ElementsRead, NextClass, ElementsDone
  <2>2. DiscoveryInv
    BY <1>2, <2>1 DEF FoundInv, DiscoveryInv
  <2>3. DiscoveryInv'
    BY <1>4, <2>2, ClassesStep, TypesStep, ElementsStep
  <2> QED
    BY <2>3 DEF DiscoveryInv
<1>5. CASE PromptForClass \/ PromptForType
  <2>1. /\ pc \in {"promptClass", "promptType"} /\ pc' \in {"promptType", "subscribe"}
        /\ UNCHANGED <<tree, at, subs, tdq>>
    BY <1>5 DEF PromptForClass, PromptForType, Exit, qmgr
  <2>2. ChainInv /\ AskingInv
    BY <1>2, <2>1 DEF FoundInv
  <2>3. ChainInv'
    BY <2>1, <2>2, ChainIsKept DEF AskElements, Finished, Before, tree
  <2>4. AskingInv' /\ ParsedInv'
    BY <1>1, <2>1, <2>2 DEF AskingInv, ParsedInv, Answered, Getting
  <2> QED
    BY <2>3, <2>4
<1>6. CASE SubscribeType
  <2>1. pc = "subscribe" /\ pc' = "subscribe" /\ UNCHANGED <<tree, at>>
    BY <1>6 DEF SubscribeType, SubscribeData, Exit
  <2>2. ChainInv
    BY <1>2, <2>1 DEF FoundInv
  <2>3. /\ pc \in Finished /\ pc' \in Finished /\ pc' \in Late
        /\ pc' \notin Before /\ pc' \notin AskElements
    BY <2>1 DEF AskElements, Finished, Before
  <2>4. UNCHANGED <<ClassChain, typeChain, elemChain, at>>
    BY <2>1 DEF tree
  <2> QED
    BY <2>2, <2>3, <2>4, ChainIsKept
<1>7. CASE NotRecognised \/ ClassSubscribed \/ AllSubscribed
  <2>1. pc = "subscribe" /\ pc' \in {"subscribe", "loop"} /\ UNCHANGED <<tree, at>>
    BY <1>7 DEF NotRecognised, ClassSubscribed, AllSubscribed, Exit
  <2>2. ChainInv
    BY <1>2, <2>1 DEF FoundInv
  <2>3. /\ pc \in Finished /\ pc' \in Finished /\ pc' \in Late
        /\ pc' \notin Before /\ pc' \notin AskElements
    BY <2>1 DEF AskElements, Finished, Before
  <2>4. UNCHANGED <<ClassChain, typeChain, elemChain, at>>
    BY <2>1 DEF tree
  <2> QED
    BY <2>2, <2>3, <2>4, ChainIsKept
<1>8. CASE Publications
  <2>1. pc = "loop" /\ pc' = "loop" /\ UNCHANGED <<tree, at>>
    BY <1>8 DEF Publications, PrintPublication, GetFails, EnoughPrinted, MQDISC, Exit
  <2>2. ChainInv
    BY <1>2, <2>1 DEF FoundInv
  <2>3. /\ pc \in Finished /\ pc' \in Finished /\ pc' \in Late
        /\ pc' \notin Before /\ pc' \notin AskElements
    BY <2>1 DEF AskElements, Finished, Before
  <2>4. UNCHANGED <<ClassChain, typeChain, elemChain, at>>
    BY <2>1 DEF tree
  <2> QED
    BY <2>2, <2>3, <2>4, ChainIsKept
<1>9. CASE UNCHANGED vars
  <2>1. UNCHANGED <<pc, tree, at, subs, tdq, retained, buffer, walk, local>>
    BY <1>9 DEF vars, qmgr, parse
  <2>2. ChainInv /\ (pc \notin Late => AskingInv /\ ParsedInv)
    BY <1>2, <2>1 DEF FoundInv
  <2>3. ChainInv'
    <3>1. UNCHANGED <<pc, ClassChain, typeChain, elemChain, at>>
      BY <2>1 DEF tree
    <3>2. pc \in AskElements => at.class <= Len(ClassChain) /\ at.type <= Len(typeChain[AtClass])
      BY <2>2 DEF ChainInv
    <3> QED
      BY <2>2, <3>1, <3>2, ChainIsKept
  <2>4. AskingInv => AskingInv'
    BY <2>1 DEF AskingInv, IsQuestion, AtClass, AtPair, tree
  <2>5. ParsedInv => ParsedInv'
    <3>1. Message' = Message /\ AtPair' = AtPair /\ AtClass' = AtClass
          /\ ElemsFound(AtPair)' = ElemsFound(AtPair)
      BY <2>1 DEF Message, AtPair, AtClass, ElemsFound, tree
    <3> QED
      BY <2>1, <3>1 DEF ParsedInv, tree
  <2> QED
    BY <2>1, <2>2, <2>3, <2>4, <2>5
<1>10. ASSUME NEW top \in DOMAIN Content, PublishData(top)
       PROVE  ChainInv' /\ pc' \in Late
  <2>1. UNCHANGED <<pc, tree, at>> /\ top \notin Metadata /\ \E i \in DOMAIN subs : subs[i] = top
    BY <1>10 DEF PublishData
  <2>2. ChainInv
    BY <1>2, <2>1 DEF FoundInv
  <2>3. ChainInv'
    BY <2>1, <2>2, ChainIsKept DEF tree
  <2>4. pc \in Late
    BY <1>2, <2>1 DEF FoundInv, AskingInv
  <2> QED
    BY <2>1, <2>3, <2>4
<1> QED
  BY <1>2, <1>3, <1>4, <1>5, <1>6, <1>7, <1>8, <1>9, <1>10, NextCases DEF Subscriptions

-----------------------------------------------------------------------------
(* The subscriptions to the data, as long as no metadata is published *)

LEMMA GreatestMember ==
  ASSUME NEW N \in Nat, NEW T, T \subseteq 1..N, T # {}
  PROVE  \E x \in T : \A y \in T : y <= x
<1> DEFINE U == {N - y : y \in T}
<1>1. U \subseteq Nat /\ U # {}
  <2>1. \A y \in T : N - y \in Nat
    OBVIOUS
  <2>2. PICK y : y \in T
    OBVIOUS
  <2>3. N - y \in U
    BY <2>2
  <2> QED
    BY <2>1, <2>3
<1>2. \A y \in T : N - y \in U
  OBVIOUS
<1>3. \A u \in U : \E y \in T : u = N - y
  OBVIOUS
<1> HIDE DEF U
<1>4. PICK u \in U : \A w \in U : u <= w
  BY <1>1, LeastMember
<1>5. PICK x \in T : u = N - x
  BY <1>3, <1>4
<1>6. \A y \in T : N - x <= N - y /\ x \in Nat /\ y \in Nat
  BY <1>2, <1>4, <1>5
<1>7. \A y \in T : y <= x
  BY <1>6
<1> QED
  BY <1>7

\* What a complete line asks for is data.
LEMMA AskedIsData ==
  ASSUME CommandInv, Complete, NEW i \in Positions("-t")
  PROVE  /\ AskedPair(i) \in Pairs /\ AskedObject(i) \in Objects \cup {None}
         /\ PerObject(AskedPair(i)) => AskedObject(i) # None
         /\ AskedTopic(i) \notin Metadata \cup {NoTopic}
<1>1. AskedPair(i) \in Pairs /\ (PerObject(AskedPair(i)) => AskedObject(i) # None)
  BY DEF Complete
<1>2. Len(command) \in Nat /\ \A k, opt : ObjectsAfter(k, opt) \subseteq 1..Len(command)
  BY CommandIsSequence DEF ObjectsAfter, Positions
<1>3. \A k, opt : \A j \in ObjectsAfter(k, opt) : command[j].arg \in Objects
  BY CommandIsSequence DEF ObjectsAfter, Positions
<1>4. AskedObject(i) \in Objects \cup {None}
  <2> DEFINE own == ObjectsAfter(i, "-t")
             ofClass == ObjectsAfter(ClassPosition(i), "-c")
             latest == CHOOSE j \in own : \A k \in own : k <= j
             earliest == CHOOSE j \in ofClass : \A k \in ofClass : j <= k
  <2>1. /\ own \subseteq 1..Len(command) /\ \A j \in own : command[j].arg \in Objects
        /\ ofClass \subseteq 1..Len(command) /\ \A j \in ofClass : command[j].arg \in Objects
    BY <1>2, <1>3
  <2>2. AskedObject(i) = IF own # {} THEN command[latest].arg
                         ELSE IF ofClass # {} THEN command[earliest].arg ELSE None
    BY DEF AskedObject
  <2> HIDE DEF own, ofClass
  <2>3. own # {} => latest \in own
    BY <1>2, <2>1, GreatestMember
  <2>4. ofClass # {} => earliest \in ofClass
    <3>1. ofClass \subseteq Nat
      BY <2>1
    <3> QED
      BY <3>1, LeastMember
  <2> HIDE DEF latest, earliest
  <2> QED
    BY <2>1, <2>2, <2>3, <2>4
<1>5. AskedTopic(i) \notin Metadata \cup {NoTopic}
  BY <1>1, <1>4, TopicAssumption DEF AskedTopic
<1> QED
  BY <1>1, <1>4, <1>5

\* The type is in the tree.
InTree(q) == Known([class_id |-> q[1], type_id |-> q[2]])

\* After the discovery the first entry of a type has what is needed of its data.
LEMMA DataIsKnown ==
  ASSUME Base, ChainInv, pc \in Finished, NEW q \in Pairs, InTree(q)
  PROVE  /\ typeChain[q[1]][FirstType(q[1], q[2])].topic = DataTopic[q]
         /\ typeChain[q[1]][FirstType(q[1], q[2])].flags = PerObject(q)
         /\ ElemsOf[q] \subseteq ElemsFound(q)
<1> DEFINE c == q[1]
           t == q[2]
           k == FirstType(c, t)
<1>1. q = <<c, t>> /\ c \in Classes
  BY DEF Pairs
<1>2. sruIdToClass(c) /\ sruIdToType(c, t)
  BY DEF InTree, Known
<1>3. PICK i \in DOMAIN typeChain[c] : typeChain[c][i].id = t
  BY <1>2 DEF sruIdToType
<1>4. PICK j \in DOMAIN ClassChain : ClassChain[j].id = c
  BY <1>2 DEF sruIdToClass
<1>5. k \in DOMAIN typeChain[c] /\ typeChain[c][k].id = t /\ IsFirstOf(c, k)
  BY <1>1, <1>3, FirstTypeIsFirst
<1>6. j < at.class
  <2>1. at.class > Len(ClassChain)
    BY DEF ChainInv
  <2> QED
    BY <1>4, <2>1, ChainPositions
<1>7. Visited(c, k)
  BY <1>4, <1>6 DEF Visited
<1>8. Entry(c, k)
  BY <1>1, <1>5 DEF ChainInv
<1> HIDE DEF k
<1> QED
  BY <1>1, <1>5, <1>7, <1>8 DEF Entry, k

\* How far sruSubscribe() has come.
Subscribed == {subs[i] : i \in DOMAIN subs} \ Metadata
Progress(in, tpos, start) ==
  /\ want.idx3 = start[want.idx1] + want.idx2
  /\ want.idx1 < in.ClassCount => want.idx2 <= in.ClassTypeCount[want.idx1]
  /\ want.idx1 = in.ClassCount => want.idx2 = 0
  /\ Subscribed = {AskedTopic(tpos[n]) : n \in {k \in 0..in.TypeCount - 1 : k < want.idx3}}
  /\ \A n \in 0..in.TypeCount - 1 : n < want.idx3 => InTree(AskedPair(tpos[n]))

Waiting == \A i \in DOMAIN tdq : tdq[i] \in Subscribed

SubscribedInv ==
  /\ pc \notin Late => want.idx2 = 0 /\ want.idx3 = 0
  /\ Quiet /\ Complete /\ pc \in {"subscribe", "loop"} => Waiting
  /\ Quiet /\ Complete /\ pc = "subscribe" =>
       \E tpos, start : Plan(input, tpos, start) /\ Progress(input, tpos, start)
  /\ Quiet /\ Complete /\ pc = "loop" =>
       /\ Subscribed = AskedTopics
       /\ \A i \in Positions("-t") : InTree(AskedPair(i))

LEMMA PlanIsKept ==
  ASSUME UNCHANGED <<command, input>>, NEW tpos, NEW start, Plan(input, tpos, start)
  PROVE  Plan(input, tpos, start)'
<1>1. \A i : AskedPair(i) = AskedPair(i)' /\ AskedObject(i) = AskedObject(i)'
  BY AskedIsFixed
<1>2. Positions("-t") = Positions("-t")'
  BY AskedIsFixed
<1> QED
  BY <1>1, <1>2 DEF Plan

\* The next type is the next one on the line, and the subscription is to its data.
LEMMA SubscribesNext ==
  ASSUME Base, ChainInv, Complete, SubscribeType, pc' # "ended",
         NEW tpos, NEW start, Plan(input, tpos, start), Progress(input, tpos, start)
  PROVE  /\ want.idx3 \in 0..input.TypeCount - 1
         /\ MQSUB(AskedTopic(tpos[want.idx3])) /\ InTree(AskedPair(tpos[want.idx3]))
         /\ \E obj : want' = [want EXCEPT !.idx2 = @ + 1, !.idx3 = @ + 1, !.pObjName = obj]
         /\ pc' = "subscribe"
<1> DEFINE c == want.idx1
           n == want.idx3
           i == tpos[n]
           q == AskedPair(i)
<1>1. /\ pc = "subscribe" /\ c < input.ClassCount /\ MoreTypes
      /\ sruIdToClass(WantedClass) /\ sruIdToType(WantedClass, WantedType)
  BY DEF SubscribeType
<1>2. /\ c \in Nat /\ want.idx2 \in Nat /\ n \in Nat
      /\ input.ClassCount \in Nat /\ input.TypeCount \in Nat
      /\ input.ClassTypeCount \in [0..MaxClassCount - 1 -> Nat]
      /\ input.ClassCount <= MaxClassCount /\ MaxClassCount \in Nat
  BY BoundsAssumption DEF Base, TypeInv, InputInv, InputType, ClassCounts
<1>3. c \in 0..input.ClassCount - 1 /\ c + 1 \in 0..input.ClassCount /\ c \in 0..input.ClassCount
      /\ input.ClassTypeCount[c] \in Nat
  BY <1>1, <1>2, SMTT(30)
<1>4. /\ start[c] \in Nat /\ start[c + 1] = start[c] + input.ClassTypeCount[c]
      /\ start[c + 1] <= input.TypeCount
  BY <1>3 DEF Plan
<1>5. n = start[c] + want.idx2 /\ want.idx2 < input.ClassTypeCount[c]
  BY <1>1 DEF Progress, MoreTypes
<1>6. start[c] <= n /\ n < start[c + 1] /\ n \in 0..input.TypeCount - 1
  <2> DEFINE first == start[c]
             next == start[c + 1]
             size == input.ClassTypeCount[c]
             N == input.TypeCount
             j == want.idx2
  <2>1. /\ first \in Nat /\ size \in Nat /\ N \in Nat /\ j \in Nat
        /\ next = first + size /\ next <= N /\ n = first + j /\ j < size
    BY <1>2, <1>3, <1>4, <1>5
  <2> HIDE DEF first, next, size, N, j, n
  <2>2. first <= n /\ n < next /\ n \in 0..N - 1
    BY <2>1
  <2> QED
    BY <2>2 DEF first, next, N
<1>7. /\ q = <<WantedClass, WantedType>> /\ i \in Positions("-t")
      /\ AskedObject(i) = IF input.TypeObjName[n] # None THEN input.TypeObjName[n]
                          ELSE input.ClassObjName[c]
  BY <1>3, <1>6 DEF Plan, WantedClass, WantedType
<1>8. InTree(q)
  BY <1>1, <1>7 DEF InTree, Known
<1>9. q \in Pairs /\ (PerObject(q) => AskedObject(i) # None)
  BY <1>7, AskedIsData DEF Base, TypeInv
<1> DEFINE type == typeChain[WantedClass][FirstType(WantedClass, WantedType)]
<1>10. type.topic = DataTopic[q] /\ type.flags = PerObject(q)
  BY <1>1, <1>7, <1>8, <1>9, DataIsKnown DEF Finished
<1>11. /\ ~type.flags => SubscribeData(type.topic, want.pObjName)
       /\ type.flags => \E obj \in IF ObjectFor = None THEN Objects ELSE {ObjectFor} :
                          SubscribeData(WithObject(type.topic, obj), obj)
  BY DEF SubscribeType
<1> HIDE DEF type, c, n, i, q
<1>12. PerObject(q) => ObjectFor = AskedObject(i) /\ ObjectFor # None
  BY <1>7, <1>9 DEF ObjectFor, c, n
<1>13. \E obj : SubscribeData(AskedTopic(i), obj)
  <2>1. CASE PerObject(q)
    <3>1. SubscribeData(WithObject(DataTopic[q], AskedObject(i)), AskedObject(i))
      BY <1>10, <1>11, <1>12, <2>1
    <3>2. AskedTopic(i) = WithObject(DataTopic[q], AskedObject(i))
      BY <2>1 DEF AskedTopic, TopicFor, q
    <3> QED
      BY <3>1, <3>2
  <2>2. CASE ~PerObject(q)
    <3>1. AskedTopic(i) = DataTopic[q]
      BY <2>2 DEF AskedTopic, TopicFor, q
    <3> QED
      BY <1>10, <1>11, <2>2, <3>1
  <2> QED
    BY <2>1, <2>2
<1>14. PICK obj : SubscribeData(AskedTopic(i), obj)
  BY <1>13
<1>15. /\ MQSUB(AskedTopic(i)) /\ UNCHANGED pc
       /\ want' = [want EXCEPT !.idx2 = @ + 1, !.idx3 = @ + 1, !.pObjName = obj]
  BY <1>14 DEF SubscribeData, Exit
<1> QED
  BY <1>1, <1>6, <1>8, <1>15 DEF i, n, q

LEMMA LoopSteps ==
  ASSUME [Next]_vars, pc' \in {"subscribe", "loop"}
  PROVE  \/ PromptForType \/ SubscribeType \/ ClassSubscribed \/ AllSubscribed
         \/ PrintPublication \/ UNCHANGED vars
         \/ \E top \in DOMAIN Content : Publish(top) \/ PublishData(top)
<1>1. ~Start
  BY DEF Start, ParseOption, BadOption, OptionsParsed, MQCONN, QueryQMName, OpenQueue, Exit
<1>2. ~DiscoverClasses
  BY DEF DiscoverClasses, SubClasses, GetClasses, LanguageMissing, SubDefault, GetDefault,
     CloseClasses, ParseClass, ClassesRead, Subscribe, Receive, CloseSubscription,
     DiscoveryEnds, Exit
<1>3. ~DiscoverTypes
  BY DEF DiscoverTypes, SubTypes, GetTypes, CloseTypes, ParseType, TypesRead, TypesDone,
     Subscribe, Receive, CloseSubscription, Remember, ReadType, DiscoveryEnds, Exit
<1>4. ~DiscoverElements
  BY DEF DiscoverElements, SubElements, GetElements, CloseElements, ParseElement, ElementsRead,
     NextClass, ElementsDone, Subscribe, Receive, CloseSubscription, Remember, ReadElement,
     DiscoveryEnds, Exit
<1>5. ~PromptForClass /\ ~NotRecognised
  BY DEF PromptForClass, NotRecognised, Exit
<1>6. ~GetFails /\ ~EnoughPrinted /\ ~MQDISC
  BY DEF GetFails, EnoughPrinted, MQDISC, Exit
<1> QED
  BY NextCases, <1>1, <1>2, <1>3, <1>4, <1>5, <1>6 DEF Subscriptions, Publications

LEMMA SubscribedGrows ==
  ASSUME QueueInv, FoundInv, NEW top, top \notin Metadata, MQSUB(top)
  PROVE  Subscribed' = Subscribed \cup {top} /\ (Waiting => Waiting')
<1>1. PICK S : subs \in Seq(S)
  BY DEF QueueInv
<1>2. /\ \A i \in DOMAIN subs : i \in DOMAIN subs' /\ subs'[i] = subs[i]
      /\ \E i \in DOMAIN subs' : subs'[i] = top
  BY <1>1, FoundGrows DEF MQSUB
<1>3. \A i \in DOMAIN subs' : subs'[i] = top \/ \E j \in DOMAIN subs : subs'[i] = subs[j]
  <2>1. subs \in Seq(S \cup {top}) /\ top \in S \cup {top}
    BY <1>1
  <2> QED
    BY <2>1 DEF MQSUB
<1>4. Subscribed' = Subscribed \cup {top}
  BY <1>2, <1>3 DEF Subscribed
<1>5. tdq' = tdq
  BY DEF MQSUB, FoundInv
<1> QED
  BY <1>4, <1>5 DEF Waiting

\* Publications of what is subscribed to arrive, and are read one by one.
LEMMA WaitingIsKept ==
  ASSUME QueueInv, Waiting, UNCHANGED subs,
         \/ UNCHANGED tdq
         \/ tdq # <<>> /\ tdq' = Tail(tdq)
         \/ \E top \in DOMAIN Content : PublishData(top)
  PROVE  Waiting'
<1>1. tdq \in Seq(DOMAIN Content) /\ Subscribed' = Subscribed
  BY DEF QueueInv, Subscribed
<1>2. CASE UNCHANGED tdq
  BY <1>1, <1>2 DEF Waiting
<1>3. CASE tdq # <<>> /\ tdq' = Tail(tdq)
  <2>1. \A i \in DOMAIN Tail(tdq) : i + 1 \in DOMAIN tdq /\ Tail(tdq)[i] = tdq[i + 1]
    BY <1>1, <1>3
  <2> QED
    BY <1>1, <1>3, <2>1 DEF Waiting
<1>4. CASE \E top \in DOMAIN Content : PublishData(top)
  <2>1. PICK top \in DOMAIN Content : PublishData(top)
    BY <1>4
  <2>2. top \in Subscribed /\ tdq' = tdq \o Copies(top)
    BY <2>1 DEF PublishData, Subscribed
  <2>3. Copies(top) \in Seq(DOMAIN Content) /\ \A i \in DOMAIN Copies(top) : Copies(top)[i] = top
    BY CopiesAreSequences DEF Copies
  <2> DEFINE s == Copies(top)
  <2> HIDE DEF s
  <2>4. \A i \in DOMAIN (tdq \o s) : \/ i \in DOMAIN tdq /\ (tdq \o s)[i] = tdq[i]
                                     \/ \E j \in DOMAIN s : (tdq \o s)[i] = s[j]
    <3>1. tdq \in Seq(DOMAIN Content) /\ s \in Seq(DOMAIN Content)
      BY <1>1, <2>3 DEF s
    <3>2. ASSUME NEW i \in DOMAIN (tdq \o s), i \notin DOMAIN tdq
          PROVE  i - Len(tdq) \in DOMAIN s /\ (tdq \o s)[i] = s[i - Len(tdq)]
      BY <3>1, <3>2
    <3>3. \A i \in DOMAIN tdq : (tdq \o s)[i] = tdq[i]
      BY <3>1
    <3> QED
      BY <3>2, <3>3
  <2> QED
    BY <1>1, <2>2, <2>3, <2>4 DEF Waiting, s
<1> QED
  BY <1>2, <1>3, <1>4

LEMMA InTreeIsKept ==
  ASSUME UNCHANGED tree
  PROVE  \A q : InTree(q) <=> InTree(q)'
BY DEF InTree, Known, sruIdToClass, sruIdToType, tree

LEMMA SubscribedStep ==
  ASSUME Base, LineInv, FoundInv, SubscribedInv, [Next]_vars
  PROVE  SubscribedInv'
<1>1. pc' \notin Late => want'.idx2 = 0 /\ want'.idx3 = 0
  <2> SUFFICES ASSUME pc' \notin Late
               PROVE  want'.idx2 = 0 /\ want'.idx3 = 0
    OBVIOUS
  <2>1. pc \notin Late
    BY LateStaysLate
  <2>2. UNCHANGED want
    BY <2>1, Frame DEF SubscribeType, ClassSubscribed, Late
  <2> QED
    BY <2>1, <2>2 DEF SubscribedInv
<1>2. UNCHANGED command /\ (Complete' <=> Complete)
      /\ (\A i : AskedTopic(i)' = AskedTopic(i) /\ AskedPair(i)' = AskedPair(i))
      /\ Positions("-t")' = Positions("-t") /\ AskedTopics' = AskedTopics
  BY Frame, AskedIsFixed DEF AskedTopics
<1> SUFFICES ASSUME Quiet', Complete', pc' \in {"subscribe", "loop"}
             PROVE  /\ Waiting'
                    /\ pc' = "subscribe" =>
                         \E tpos, start : Plan(input, tpos, start)' /\ Progress(input, tpos, start)'
                    /\ pc' = "loop" =>
                         /\ Subscribed' = AskedTopics
                         /\ \A i \in Positions("-t") : InTree(AskedPair(i))'
  BY <1>1, <1>2 DEF SubscribedInv
<1>3. /\ Quiet /\ Complete /\ ~\E top \in DOMAIN Content : Publish(top)
      /\ QueueInv /\ CommandInv /\ InputInv
  BY <1>2, QuietFromStart DEF Base, TypeInv
<1>4. CASE PromptForType
  <2>1. /\ pc = "promptType" /\ pc' = "subscribe" /\ UNCHANGED <<tree, want, subs, tdq>>
    BY <1>4 DEF PromptForType, Exit, qmgr
  <2>2. /\ \E tpos, start : Plan(input, tpos, start)
        /\ input.ClassCount # 0 /\ input.TypeCount # 0
    BY <1>3, <2>1, LineIsPlan
  <2>3. PICK tpos, start : Plan(input, tpos, start)
    BY <2>2
  <2>4. UNCHANGED input
    BY <1>4, <2>2 DEF PromptForType
  <2>5. Plan(input, tpos, start)'
    BY <1>2, <2>3, <2>4, PlanIsKept
  <2>6. tdq' = <<>> /\ Subscribed' = {}
    BY <1>3, <2>1 DEF FoundInv, Late, AskingInv, Getting, Subscribed
  <2>7. /\ want'.idx1 = 0 /\ want'.idx2 = 0 /\ want'.idx3 = 0 /\ start[0] = 0
        /\ input'.ClassTypeCount[0] \in Nat
    <3>1. /\ want.idx1 = 0 /\ want.idx2 = 0 /\ want.idx3 = 0
      BY <1>3, <2>1 DEF InputInv, SubscribedInv, Late
    <3>2. input.ClassTypeCount \in [0..MaxClassCount - 1 -> Nat] /\ 0 \in 0..MaxClassCount - 1
      BY <1>3, BoundsAssumption DEF InputInv, InputType, ClassCounts
    <3> QED
      BY <2>1, <2>3, <2>4, <3>1, <3>2 DEF Plan
  <2>8. Progress(input, tpos, start)'
    <3>1. {k \in 0..input'.TypeCount - 1 : k < want'.idx3} = {}
      BY <2>7
    <3>2. 0 <= input'.ClassTypeCount[0]
      BY <2>7
    <3> QED
      BY <2>6, <2>7, <3>1, <3>2 DEF Progress
  <2>9. Waiting'
    BY <2>6 DEF Waiting
  <2> QED
    BY <2>1, <2>5, <2>8, <2>9
<1>5. CASE SubscribeType
  <2>1. pc = "subscribe" /\ UNCHANGED <<input, tree>> /\ ChainInv /\ Waiting
    BY <1>3, <1>5 DEF SubscribeType, options, FoundInv, Over, SubscribedInv
  <2>2. PICK tpos, start : Plan(input, tpos, start) /\ Progress(input, tpos, start)
    BY <1>3, <2>1 DEF SubscribedInv
  <2> DEFINE n == want.idx3
             top == AskedTopic(tpos[n])
  <2>3. /\ n \in 0..input.TypeCount - 1
        /\ MQSUB(top) /\ InTree(AskedPair(tpos[n])) /\ pc' = "subscribe"
        /\ \E obj : want' = [want EXCEPT !.idx2 = @ + 1, !.idx3 = @ + 1, !.pObjName = obj]
    BY <1>3, <1>5, <2>1, <2>2, SubscribesNext
  <2>4. want'.idx1 = want.idx1 /\ want'.idx2 = want.idx2 + 1 /\ want'.idx3 = n + 1
    BY <1>3, <2>3 DEF InputInv
  <2>5. top \notin Metadata
    <3>1. tpos[n] \in Positions("-t")
      BY <2>2, <2>3 DEF Plan
    <3> QED
      BY <1>3, <3>1, AskedIsData
  <2>6. Subscribed' = Subscribed \cup {top} /\ Waiting'
    <3> HIDE DEF top
    <3> QED
      BY <1>3, <2>1, <2>3, <2>5, SubscribedGrows
  <2>7. Plan(input, tpos, start)'
    BY <1>2, <2>1, <2>2, PlanIsKept
  <2>8. /\ n \in Nat /\ want.idx2 \in Nat /\ want.idx1 \in Nat
        /\ want.idx1 < input.ClassCount /\ want.idx2 < input.ClassTypeCount[want.idx1]
        /\ input.ClassCount \in Nat
        /\ input.ClassTypeCount[want.idx1] \in Nat /\ start[want.idx1] \in Nat
    <3>1. /\ input.ClassCount \in Nat /\ input.ClassCount <= MaxClassCount /\ MaxClassCount \in Nat
          /\ input.ClassTypeCount \in [0..MaxClassCount - 1 -> Nat]
          /\ want.idx1 \in Nat /\ want.idx2 \in Nat /\ n \in Nat
      BY <1>3, BoundsAssumption DEF InputInv, InputType, ClassCounts
    <3>2. want.idx1 < input.ClassCount /\ want.idx2 < input.ClassTypeCount[want.idx1]
      BY <1>5 DEF SubscribeType, MoreTypes
    <3>3. want.idx1 \in 0..MaxClassCount - 1 /\ want.idx1 \in 0..input.ClassCount
      BY <3>1, <3>2
    <3>4. start \in [0..input.ClassCount -> Nat]
      BY <2>2 DEF Plan
    <3> HIDE DEF n
    <3> QED
      BY <3>1, <3>2, <3>3, <3>4
  <2>9. {k \in 0..input.TypeCount - 1 : k < n + 1} = {k \in 0..input.TypeCount - 1 : k < n} \cup {n}
    BY <2>3, <2>8
  <2>10. Subscribed' = {AskedTopic(tpos[k]) : k \in {k \in 0..input.TypeCount - 1 : k < n + 1}}
    <3>1. Subscribed = {AskedTopic(tpos[k]) : k \in {k \in 0..input.TypeCount - 1 : k < n}}
      BY <2>2 DEF Progress
    <3> QED
      BY <2>6, <2>9, <3>1
  <2>11. \A k \in 0..input.TypeCount - 1 : k < n + 1 => InTree(AskedPair(tpos[k]))
    <3>1. \A k \in 0..input.TypeCount - 1 : k < n + 1 => k < n \/ k = n
      BY <2>8
    <3> QED
      BY <2>2, <2>3, <3>1 DEF Progress
  <2>12. /\ want'.idx3 = start[want'.idx1] + want'.idx2
         /\ want'.idx2 <= input.ClassTypeCount[want'.idx1] /\ want'.idx1 # input.ClassCount
    <3>1. n = start[want.idx1] + want.idx2
      BY <2>2 DEF Progress
    <3> QED
      BY <2>4, <2>8, <3>1
  <2>13. \A k : InTree(AskedPair(tpos[k])) => InTree(AskedPair(tpos[k]))'
    BY <1>2, <2>1, InTreeIsKept
  <2> HIDE DEF n, top
  <2>14. Progress(input, tpos, start)'
    BY <1>2, <2>1, <2>4, <2>10, <2>11, <2>12, <2>13 DEF Progress
  <2> QED
    BY <2>3, <2>6, <2>7, <2>14
<1>6. CASE ClassSubscribed
  <2>1. /\ pc = "subscribe" /\ pc' = "subscribe" /\ UNCHANGED <<input, tree, subs, tdq>>
        /\ want.idx1 < input.ClassCount /\ ~(want.idx2 < input.ClassTypeCount[want.idx1])
    BY <1>6 DEF ClassSubscribed, options, qmgr, MoreTypes
  <2>2. PICK tpos, start : Plan(input, tpos, start) /\ Progress(input, tpos, start)
    BY <1>3, <2>1 DEF SubscribedInv
  <2>3. Waiting' /\ Subscribed' = Subscribed
    BY <1>3, <2>1, WaitingIsKept DEF SubscribedInv, Subscribed
  <2>4. want'.idx1 = want.idx1 + 1 /\ want'.idx2 = 0 /\ want'.idx3 = want.idx3
    BY <1>3, <1>6 DEF ClassSubscribed, InputInv
  <2>5. Plan(input, tpos, start)'
    BY <1>2, <2>1, <2>2, PlanIsKept
  <2> DEFINE c == want.idx1
             C == input.ClassCount
             size == input.ClassTypeCount
  <2>6. /\ size \in [0..MaxClassCount - 1 -> Nat] /\ C \in Nat /\ MaxClassCount \in Nat
        /\ C <= MaxClassCount /\ c \in Nat /\ want.idx2 \in Nat /\ c < C
    BY <1>3, <2>1, BoundsAssumption DEF InputInv, InputType, ClassCounts
  <2> HIDE DEF c, C, size
  <2>7. /\ c \in 0..C - 1 /\ c + 1 \in 0..C /\ c \in 0..C /\ size[c] \in Nat
        /\ c + 1 < C => size[c + 1] \in Nat
    BY <2>6
  <2>8. start[c] \in Nat /\ start[c + 1] = start[c] + size[c]
    BY <2>2, <2>7 DEF Plan, c, C, size
  <2>9. want.idx3 = start[c] + want.idx2 /\ want.idx2 <= size[c] /\ ~(want.idx2 < size[c])
    BY <2>1, <2>2 DEF Progress, c, size
  <2>10. want.idx3 = start[c + 1] + 0 /\ (c + 1 < C => 0 <= size[c + 1])
    BY <2>6, <2>7, <2>8, <2>9
  <2>11. /\ want'.idx3 = start[want'.idx1] + want'.idx2
         /\ want'.idx1 < input'.ClassCount => want'.idx2 <= input'.ClassTypeCount[want'.idx1]
         /\ want'.idx2 = 0
    BY <2>1, <2>4, <2>10 DEF c, C, size
  <2>12. \A k : InTree(AskedPair(tpos[k])) => InTree(AskedPair(tpos[k]))'
    BY <1>2, <2>1, InTreeIsKept
  <2>13. Progress(input, tpos, start)'
    BY <1>2, <2>1, <2>2, <2>3, <2>4, <2>11, <2>12 DEF Progress
  <2> QED
    BY <2>1, <2>3, <2>5, <2>13
<1>7. CASE AllSubscribed
  <2>1. /\ pc = "subscribe" /\ pc' = "loop" /\ UNCHANGED <<input, tree, subs, tdq>>
        /\ want.idx1 = input.ClassCount
    BY <1>7 DEF AllSubscribed, options, qmgr
  <2>2. PICK tpos, start : Plan(input, tpos, start) /\ Progress(input, tpos, start)
    BY <1>3, <2>1 DEF SubscribedInv
  <2>3. Waiting' /\ Subscribed' = Subscribed
    BY <1>3, <2>1, WaitingIsKept DEF SubscribedInv, Subscribed
  <2>4. want.idx3 = input.TypeCount /\ input.TypeCount \in Nat
    <3>1. /\ want.idx3 = start[input.ClassCount] + want.idx2 /\ want.idx2 = 0
          /\ start[input.ClassCount] = input.TypeCount
      BY <2>1, <2>2 DEF Progress, Plan
    <3>2. input.TypeCount \in Nat
      BY <1>3, BoundsAssumption DEF InputInv, InputType
    <3> QED
      BY <3>1, <3>2
  <2>5. \A n \in 0..input.TypeCount - 1 : n < want.idx3
    BY <2>4
  <2>6. /\ \A i \in Positions("-t") : \E n \in 0..input.TypeCount - 1 : tpos[n] = i
        /\ \A n \in 0..input.TypeCount - 1 : tpos[n] \in Positions("-t")
    BY <2>2 DEF Plan
  <2>7. Subscribed = AskedTopics
    <3>1. Subscribed = {AskedTopic(tpos[n]) : n \in 0..input.TypeCount - 1}
      BY <2>2, <2>5 DEF Progress
    <3> QED
      BY <2>6, <3>1 DEF AskedTopics
  <2>8. \A i \in Positions("-t") : InTree(AskedPair(i))
    BY <2>2, <2>5, <2>6 DEF Progress
  <2> QED
    BY <1>2, <2>1, <2>3, <2>7, <2>8, InTreeIsKept
<1>8. CASE \/ PrintPublication \/ UNCHANGED vars
           \/ \E top \in DOMAIN Content : PublishData(top)
  <2>1. /\ UNCHANGED <<pc, input, tree, subs, want>>
        /\ \/ UNCHANGED tdq
           \/ tdq # <<>> /\ tdq' = Tail(tdq)
           \/ \E top \in DOMAIN Content : PublishData(top)
    BY <1>8 DEF PrintPublication, PublishData, vars, options, qmgr
  <2>2. Waiting' /\ Subscribed' = Subscribed
    BY <1>3, <2>1, WaitingIsKept DEF SubscribedInv, Subscribed
  <2>3. CASE pc = "loop"
    BY <1>2, <1>3, <2>1, <2>2, <2>3, InTreeIsKept DEF SubscribedInv
  <2>4. CASE pc = "subscribe"
    <3>1. PICK tpos, start : Plan(input, tpos, start) /\ Progress(input, tpos, start)
      BY <1>3, <2>4 DEF SubscribedInv
    <3>2. Plan(input, tpos, start)'
      BY <1>2, <2>1, <3>1, PlanIsKept
    <3>3. \A k : InTree(AskedPair(tpos[k])) => InTree(AskedPair(tpos[k]))'
      BY <1>2, <2>1, InTreeIsKept
    <3>4. Progress(input, tpos, start)'
      BY <1>2, <2>1, <2>2, <3>1, <3>3 DEF Progress
    <3> QED
      BY <2>1, <2>2, <2>4, <3>2, <3>4
  <2> QED
    BY <2>1, <2>2, <2>3, <2>4
<1> QED
  BY <1>3, <1>4, <1>5, <1>6, <1>7, <1>8, LoopSteps

-----------------------------------------------------------------------------
(* What is printed *)

\* Publications are counted up to the limit, and 0 means that it was reached.
CountedInv ==
  /\ pc \notin {"loop"} \cup Over => GetCount = 0
  /\ Limited => GetCount <= input.MaxGets
  /\ pc \in Over /\ rc = 0 => Limited /\ GetCount = input.MaxGets

PrintedInv ==
  Quiet /\ Complete =>
    \A i \in DOMAIN printed :
      \E j \in Positions("-t") : /\ printed[i].topic = AskedTopic(j)
                                 /\ printed[i].values = ElemsOf[AskedPair(j)]

LEMMA OverStaysOver ==
  ASSUME [Next]_vars, pc \in Over
  PROVE  pc' \in Over
<1> USE DEF Over
<1>1. CASE Start
  BY <1>1 DEF Start, ParseOption, BadOption, OptionsParsed, MQCONN, QueryQMName, OpenQueue
<1>2. CASE DiscoverClasses \/ DiscoverTypes \/ DiscoverElements
  BY <1>2 DEF DiscoverClasses, SubClasses, GetClasses, LanguageMissing, SubDefault, GetDefault,
     CloseClasses, ParseClass, ClassesRead, DiscoverTypes, SubTypes, GetTypes, CloseTypes,
     ParseType, TypesRead, TypesDone, DiscoverElements, SubElements, GetElements,
     CloseElements, ParseElement, ElementsRead, NextClass, ElementsDone
<1>3. CASE Subscriptions
  BY <1>3 DEF Subscriptions, PromptForClass, PromptForType, SubscribeType, NotRecognised,
     ClassSubscribed, AllSubscribed
<1>4. CASE Publications
  BY <1>4 DEF Publications, PrintPublication, GetFails, EnoughPrinted, MQDISC, Exit
<1>5. CASE UNCHANGED vars \/ \E top \in DOMAIN Content : Publish(top) \/ PublishData(top)
  BY <1>5 DEF vars, Publish, PublishData
<1> QED
  BY NextCases, <1>1, <1>2, <1>3, <1>4, <1>5

\* The only way to an exit status of 0.
LEMMA ZeroSteps ==
  ASSUME ReportInv, [Next]_vars, pc' \in Over, rc' = 0
  PROVE  EnoughPrinted \/ (pc \in Over /\ rc = 0)
<1> USE ReasonsAreNotZero, CodesOfItsOwn DEF Over
<1>1. CASE Start
  BY <1>1 DEF Start, ParseOption, BadOption, OptionsParsed, MQCONN, QueryQMName, OpenQueue,
     Exit
<1>2. CASE DiscoverClasses
  BY <1>2 DEF DiscoverClasses, SubClasses, GetClasses, LanguageMissing, SubDefault, GetDefault,
     CloseClasses, ParseClass, ClassesRead, Subscribe, Receive, CloseSubscription,
     DiscoveryEnds, Exit, Fails, NothingCame
<1>3. CASE DiscoverTypes
  BY <1>3 DEF DiscoverTypes, SubTypes, GetTypes, CloseTypes, ParseType, TypesRead, TypesDone,
     Subscribe, Receive, CloseSubscription, Remember, ReadType, DiscoveryEnds, Exit, Fails,
     NothingCame
<1>4. CASE DiscoverElements
  BY <1>4 DEF DiscoverElements, SubElements, GetElements, CloseElements, ParseElement,
     ElementsRead, NextClass, ElementsDone, Subscribe, Receive, CloseSubscription, Remember,
     ReadElement, DiscoveryEnds, Exit, Fails, NothingCame
<1>5. CASE Subscriptions
  <2>2. ~PromptForClass /\ ~PromptForType
    BY DEF PromptForClass, PromptForType, Exit
  <2>3. ~SubscribeType
    <3> SUFFICES ASSUME NEW top, NEW obj, SubscribeData(top, obj), pc = "subscribe"
                 PROVE  FALSE
      BY DEF SubscribeType
    <3> QED
      BY DEF SubscribeData, Exit
  <2>4. ~NotRecognised /\ ~ClassSubscribed /\ ~AllSubscribed
    BY DEF NotRecognised, ClassSubscribed, AllSubscribed, Exit
  <2> QED
    BY <1>5, <2>2, <2>3, <2>4 DEF Subscriptions
<1>6. CASE Publications
  <2>2. MQDISC => pc \in Over /\ rc = 0
    BY DEF MQDISC, Exit, ReportInv
  <2>3. ~PrintPublication /\ ~GetFails
    BY DEF PrintPublication, GetFails, ReportInv, result
  <2> QED
    BY <1>6, <2>2, <2>3 DEF Publications
<1>7. CASE UNCHANGED vars \/ \E top \in DOMAIN Content : Publish(top) \/ PublishData(top)
  BY <1>7 DEF vars, Publish, PublishData, result
<1> QED
  BY NextCases, <1>1, <1>2, <1>3, <1>4, <1>5, <1>6, <1>7

LEMMA CountedStep ==
  ASSUME Base, ReportInv, CountedInv, [Next]_vars
  PROVE  CountedInv'
<1>1. /\ input \in InputType /\ GetCount \in Nat
      /\ ParseOption \/ PromptForClass \/ PromptForType => GetCount = 0
  <2>1. \E S : printed \in Seq(S)
    BY DEF Base, TypeInv, CountInv
  <2>2. GetCount \in Nat
    BY <2>1 DEF Base, TypeInv, CountInv
  <2> QED
    BY <2>2 DEF Base, TypeInv, InputInv, ParseOption, PromptForClass, PromptForType,
       CountedInv, Over
<1>2. input.MaxGets \in Int
  BY <1>1 DEF InputType
<1>3. pc' \notin {"loop"} \cup Over => GetCount' = 0
  <2> SUFFICES ASSUME pc' \notin {"loop"} \cup Over
               PROVE  GetCount' = 0
    OBVIOUS
  <2>1. pc \notin {"loop"} \cup Over
    <3>1. pc # "loop"
      <4> SUFFICES ASSUME pc = "loop"
                   PROVE  FALSE
        OBVIOUS
      <4>1. pc' = "subscribe"
        BY LateStaysLate DEF Late, Over
      <4>2. ~PromptForType /\ ~SubscribeType /\ ~ClassSubscribed /\ ~AllSubscribed
            /\ ~PrintPublication
        BY <4>1 DEF PromptForType, SubscribeType, ClassSubscribed, AllSubscribed, PrintPublication
      <4>3. ~UNCHANGED vars /\ ~\E top \in DOMAIN Content : Publish(top) \/ PublishData(top)
        BY <4>1 DEF vars, Publish, PublishData
      <4> QED
        BY <4>1, <4>2, <4>3, LoopSteps
    <3>2. pc \notin Over
      BY LateStaysLate, OverStaysOver DEF Over
    <3> QED
      BY <3>1, <3>2
  <2>2. UNCHANGED GetCount
    BY <2>1, Frame DEF PrintPublication
  <2> QED
    BY <2>1, <2>2 DEF CountedInv
<1>4. Limited' => GetCount' <= input'.MaxGets
  <2> SUFFICES ASSUME Limited'
               PROVE  GetCount' <= input'.MaxGets
    OBVIOUS
  <2>1. CASE PrintPublication
    <3>1. Limited /\ GetCount < input.MaxGets /\ GetCount' = GetCount + 1 /\ UNCHANGED input
      BY <2>1 DEF PrintPublication, options, Limited
    <3> QED
      BY <1>1, <1>2, <3>1
  <2>2. CASE UNCHANGED GetCount /\ UNCHANGED input
    BY <2>2 DEF CountedInv, Limited
  <2>3. CASE UNCHANGED GetCount /\ GetCount = 0
    BY <2>3 DEF Limited
  <2> QED
    BY <1>1, <2>1, <2>2, <2>3, Frame
<1>5. pc' \in Over /\ rc' = 0 => Limited' /\ GetCount' = input'.MaxGets
  <2> SUFFICES ASSUME pc' \in Over, rc' = 0
               PROVE  Limited' /\ GetCount' = input'.MaxGets
    OBVIOUS
  <2>1. CASE EnoughPrinted
    <3>1. Limited /\ GetCount >= input.MaxGets /\ UNCHANGED <<input, GetCount>>
      BY <2>1 DEF EnoughPrinted, options
    <3> QED
      BY <1>1, <1>2, <3>1 DEF CountedInv, Limited
  <2>2. CASE pc \in Over /\ rc = 0
    <3>1. UNCHANGED <<input, GetCount>>
      BY <2>2, Frame DEF Over, ParseOption, PromptForClass, PromptForType, PrintPublication
    <3> QED
      BY <2>2, <3>1 DEF CountedInv, Limited
  <2> QED
    BY <2>1, <2>2, ZeroSteps
<1> QED
  BY <1>3, <1>4, <1>5 DEF CountedInv

\* What is formatted of the data that was asked for is all of its elements.
LEMMA DataIsFormatted ==
  ASSUME Base, ChainInv, pc \in Finished, NEW q \in Pairs, InTree(q),
         NEW obj \in Objects \cup {None}, TopicFor(q, obj) \in DOMAIN Content
  PROVE  sruFormatMessage(Content[TopicFor(q, obj)]) = ElemsOf[q]
<1> DEFINE m == Content[TopicFor(q, obj)]
           l == [class_id |-> Given(m, "class"), type_id |-> Given(m, "type")]
           named == {e \in ElemsFound(q) : \E i \in 1..m.count : m.params[i].p = e}
<1>1. /\ Given(m, "class") = q[1] /\ Given(m, "type") = q[2]
      /\ \A e \in ElemsOf[q] : \E i \in 1..m.count : m.params[i].p = e
  BY DataAssumption
<1>2. q = <<q[1], q[2]>> /\ q \in DOMAIN ElemsOf
  BY TopicAssumption DEF Pairs
<1>3. l = [class_id |-> q[1], type_id |-> q[2]] /\ Known(l) /\ <<l.class_id, l.type_id>> = q
  BY <1>1, <1>2 DEF InTree
<1>4. sruFormatMessage(m) = named
  <2> HIDE DEF m
  <2> QED
    BY <1>3 DEF sruFormatMessage, ElemsFound
<1>5. ElemsFound(q) = ElemsOf[q]
  <2>1. ElemsOf[q] \subseteq ElemsFound(q)
    BY DataIsKnown
  <2>2. ElemsFound(q) \subseteq ElemsOf[q]
    BY <1>2 DEF Base, TreeInv, TreeIsSound, ElemsFound
  <2> QED
    BY <2>1, <2>2
<1> HIDE DEF m
<1>6. named = ElemsOf[q]
  BY <1>1, <1>5
<1> QED
  BY <1>4, <1>6 DEF m

LEMMA PrintedStep ==
  ASSUME Base, FoundInv, SubscribedInv, PrintedInv, [Next]_vars
  PROVE  PrintedInv'
<1>1. /\ Complete' <=> Complete
      /\ \A i : AskedTopic(i)' = AskedTopic(i) /\ AskedPair(i)' = AskedPair(i)
      /\ Positions("-t")' = Positions("-t")
  BY Frame, AskedIsFixed
<1> SUFFICES ASSUME Quiet', Complete', NEW i \in DOMAIN printed'
             PROVE  \E j \in Positions("-t") : /\ printed'[i].topic = AskedTopic(j)
                                               /\ printed'[i].values = ElemsOf[AskedPair(j)]
  BY <1>1 DEF PrintedInv
<1>2. Quiet /\ Complete
  BY <1>1, QuietFromStart
<1>3. CASE UNCHANGED printed
  BY <1>2, <1>3 DEF PrintedInv
<1>4. CASE ~UNCHANGED printed
  <2> DEFINE top == Head(tdq)
             r == [topic |-> top, values |-> sruFormatMessage(Content[top])]
  <2>1. pc = "loop" /\ tdq # <<>> /\ printed' = Append(printed, r)
    BY <1>4, Frame DEF PrintPublication
  <2>2. ChainInv /\ Waiting /\ Subscribed = AskedTopics
        /\ \A j \in Positions("-t") : InTree(AskedPair(j))
    BY <1>2, <2>1 DEF FoundInv, SubscribedInv, Over
  <2>3. top \in Subscribed /\ top \in DOMAIN Content
    <3>1. tdq \in Seq(DOMAIN Content)
      BY DEF Base, QueueInv
    <3>2. 1 \in DOMAIN tdq /\ top = tdq[1] /\ top \in DOMAIN Content
      BY <2>1, <3>1
    <3> QED
      BY <2>2, <3>2 DEF Waiting
  <2>4. PICK j \in Positions("-t") : top = AskedTopic(j)
    BY <2>2, <2>3 DEF AskedTopics
  <2> HIDE DEF top
  <2>5. AskedPair(j) \in Pairs /\ AskedObject(j) \in Objects \cup {None}
    BY <1>2, AskedIsData DEF Base, TypeInv
  <2>6. sruFormatMessage(Content[top]) = ElemsOf[AskedPair(j)]
    BY <2>1, <2>2, <2>3, <2>4, <2>5, DataIsFormatted DEF AskedTopic, Finished
  <2>7. r.topic = AskedTopic(j) /\ r.values = ElemsOf[AskedPair(j)]
    BY <2>4, <2>6
  <2> HIDE DEF r
  <2>8. printed'[i] = r \/ (i \in DOMAIN printed /\ printed'[i] = printed[i])
    <3>1. PICK S : printed \in Seq(S)
      BY DEF Base, TypeInv, CountInv
    <3>2. printed \in Seq(S \cup {r}) /\ r \in S \cup {r}
      BY <3>1
    <3> QED
      BY <2>1, <3>2
  <2> QED
    BY <1>2, <2>7, <2>8 DEF PrintedInv
<1> QED
  BY <1>3, <1>4

-----------------------------------------------------------------------------
(* The results *)

AllInv ==
  /\ Base /\ ReportInv /\ LineInv
  /\ FoundInv /\ SubscribedInv /\ CountedInv /\ PrintedInv

LEMMA LineStarts ==
  ASSUME Init
  PROVE  LineInv
<1> DEFINE none == [s \in 0..0 - 1 |-> 0]
           start == [c \in 0..0 |-> 0]
<1>1. /\ NoInput.ClassCount = 0 /\ NoInput.TypeCount = 0
      /\ NoInput.ClassTypeCount = [k \in 0..MaxClassCount - 1 |-> 0]
      /\ NoInput.ClassObjName = [k \in 0..MaxClassCount - 1 |-> None]
      /\ NoInput.TypeObjName = [k \in 0..MaxTypeCount - 1 |-> None]
  BY DEF NoInput
<1>2. \A opt : UpTo(opt, 0) = {}
  <2>1. \A i \in DOMAIN command : i \in Nat \ {0}
    <3>1. Len(command) \in Nat
      BY CommandAssumption DEF Init
    <3>2. CommandInv
      BY <3>1 DEF Init, CommandInv
    <3> QED
      BY <3>2, CommandIsSequence
  <2> QED
    BY <2>1 DEF UpTo, Positions
<1>3. \A opt : Slots(0, opt, none, 0)
  BY <1>2, FS_EmptySet DEF Slots
<1>4. ClassSlots(NoInput, 0, none)
  <2> HIDE DEF none
  <2> QED
    BY <1>1, <1>3, BoundsAssumption DEF ClassSlots
<1>5. TypeSlots(NoInput, 0, none)
  <2> HIDE DEF none
  <2> QED
    BY <1>1, <1>3, BoundsAssumption DEF TypeSlots
<1>6. Paired(NoInput, none, none, start)
  BY <1>1 DEF Paired
<1>7. Stored(NoInput, 0, none, none, start)
  BY <1>4, <1>5, <1>6 DEF Stored
<1> HIDE DEF none, start
<1> QED
  BY <1>7 DEF Init, LineInv

LEMMA RestStarts ==
  ASSUME Init
  PROVE  FoundInv /\ SubscribedInv /\ CountedInv /\ PrintedInv
<1>1. ChainInv
  BY DEF Init, ChainInv, Finished, AskElements
<1>2. AskingInv /\ ParsedInv
  BY TopicAssumption DEF Init, AskingInv, ParsedInv, Answered
<1>3. FoundInv
  BY <1>1, <1>2 DEF FoundInv, AskingInv
<1>4. SubscribedInv
  BY DEF Init, SubscribedInv
<1>5. CountedInv
  BY DEF Init, CountedInv, Over, Limited, NoInput
<1>6. PrintedInv
  BY DEF Init, PrintedInv
<1> QED
  BY <1>3, <1>4, <1>5, <1>6

LEMMA AllInvHolds == Spec => []AllInv
<1>1. Init => ReportInv /\ LineInv /\ FoundInv /\ SubscribedInv /\ CountedInv /\ PrintedInv
  BY LineStarts, RestStarts DEF Init, ReportInv
<1>2. AllInv /\ [Next]_vars =>
        /\ ReportInv' /\ LineInv' /\ FoundInv' /\ SubscribedInv' /\ CountedInv' /\ PrintedInv'
  <2> SUFFICES ASSUME AllInv, [Next]_vars
               PROVE  /\ ReportInv' /\ LineInv' /\ FoundInv' /\ SubscribedInv'
                      /\ CountedInv' /\ PrintedInv'
    OBVIOUS
  <2>1. ReportInv'
    BY NextCases, ReportStartAndDiscovery, ReportRest DEF AllInv
  <2>2. LineInv'
    BY LineStep DEF AllInv, Base, TypeInv
  <2>3. FoundInv'
    BY FoundStep DEF AllInv
  <2>4. SubscribedInv'
    BY SubscribedStep DEF AllInv
  <2>5. CountedInv'
    BY CountedStep DEF AllInv
  <2>6. PrintedInv'
    BY PrintedStep DEF AllInv
  <2> QED
    BY <2>1, <2>2, <2>3, <2>4, <2>5, <2>6
<1>3. Spec => []Base
  BY TypesAndTree, PTL DEF Base
<1>4. Base /\ ReportInv /\ LineInv /\ FoundInv /\ SubscribedInv /\ CountedInv /\ PrintedInv <=> AllInv
  BY DEF AllInv
<1> QED
  BY <1>1, <1>2, <1>3, <1>4, PTL DEF Spec

\* As long as no metadata is published, whatever the metadata, the line and the order of the
\* answers, a program that starts to wait has subscribed to the data of exactly the classes
\* and types on its line, each for its own object, and to no topic of the metadata's.
THEOREM SubscribesToWhatIsAsked == Spec => []SubscribesAsAsked
<1>1. AllInv => SubscribesAsAsked
  BY DEF AllInv, SubscribedInv, Subscribed, SubscribesAsAsked
<1> QED
  BY <1>1, AllInvHolds, PTL

\* And an exit status of 0 means that the asked number of publications was printed, each of
\* them data of what was asked for, with every element under its name.
THEOREM ZeroMeansDataWasPrinted == Spec => []ZeroMeansData
<1>1. AllInv => ZeroMeansData
  BY DEF AllInv, Base, TypeInv, CountInv, CountedInv, PrintedInv, ZeroMeansData, Over
<1> QED
  BY <1>1, AllInvHolds, PTL
=============================================================================
