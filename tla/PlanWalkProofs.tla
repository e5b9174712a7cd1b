---------------------------- MODULE PlanWalkProofs ----------------------------
(***************************************************************************)
(* What PlanWalk promises for any configurations that load, and however    *)
(* its vertices run and fail.                                              *)
(***************************************************************************)
EXTENDS PlanWalkInvariant, SequenceTheorems, TLAPS

-----------------------------------------------------------------------------
(* Addresses.                                                              *)

\* A vertex of the configuration has the fields it was given.
LEMMA StaticFields ==
  \A k, m, n : /\ Static(k, m, n).kind = k /\ Static(k, m, n).mod = m
               /\ Static(k, m, n).name = n
BY DEF Static

\* The two vertices of a module have its path.
LEMMA ModuleVertexFields ==
  \A m : /\ Expander(m).kind = "expandModule" /\ Expander(m).mod = m
         /\ Closer(m).kind = "closeModule" /\ Closer(m).mod = m
BY DEF Expander, Closer, Static

\* An instance keeps the address of its resource.
LEMMA InstanceFields ==
  ASSUME NEW m, NEW n, NEW i, NEW k, NEW v, v = Static("resource", m, n)
  PROVE  LET w == Instance(v, i, k)
         IN  /\ w.kind = "instance" /\ w.mod = m /\ w.name = n /\ w.inst = i /\ w.key = k
             /\ Owner(w) = v
BY StaticFields DEF Instance, Owner

\* An assertion, or the object of a check, keeps the address of the check.
LEMMA AssertFields ==
  ASSUME NEW m, NEW n, NEW i, NEW v, v = Static("expandCheck", m, n)
  PROVE  LET w == CheckAssert(v, i)
         IN  /\ w.kind = "assert" /\ w.mod = m /\ w.name = n /\ w.inst = i
             /\ Owner(w) = v
BY StaticFields DEF CheckAssert, Owner

\* A resource owns itself.
LEMMA ResourceOwner == \A m, n : Owner(Static("resource", m, n)) = Static("resource", m, n)
BY StaticFields DEF Owner

-----------------------------------------------------------------------------
(* Module paths and their instances.                                       *)

\* The name of a call, the path of a module, and a call with its key.
Name == STRING
Path == Seq(Name)
Call == Name \X Key

\* Intervals from 1 are equal when they end at the same number.
LEMMA IntervalsEqual == ASSUME NEW a \in Nat, NEW b \in Nat, 1..a = 1..b PROVE a = b
<1>1. a \in 1..a \/ a = 0
  OBVIOUS
<1>2. b \in 1..b \/ b = 0
  OBVIOUS
<1> QED BY <1>1, <1>2

\* A sequence is all but its last element, and that.
LEMMA FrontAndLast ==
  ASSUME NEW S, NEW m \in Seq(S), m # <<>>
  PROVE  /\ Len(m) \in Nat \ {0} /\ Front(m) \in Seq(S) /\ Len(Front(m)) = Len(m) - 1
         /\ Last(m) = m[Len(m)] /\ Last(m) \in S
         /\ \A j \in 1..(Len(m) - 1) : Front(m)[j] = m[j]
         /\ m = Append(Front(m), Last(m))
<1>1. Len(m) \in Nat \ {0}
  BY EmptySeq
<1>2. Front(m) \in Seq(S)
  BY <1>1 DEF Front
<1>3. DOMAIN Front(m) = 1..(Len(m) - 1)
  BY <1>1 DEF Front
<1>4. Len(Front(m)) \in Nat /\ DOMAIN Front(m) = 1..Len(Front(m))
  BY <1>2, LenProperties
<1>5. Len(Front(m)) = Len(m) - 1
  BY <1>1, <1>3, <1>4, IntervalsEqual
<1>6. \A j \in 1..(Len(m) - 1) : Front(m)[j] = m[j]
  BY <1>1 DEF Front
<1>7. Last(m) = m[Len(m)]
  BY DEF Last
<1>8. Last(m) \in S
  BY <1>1, <1>7, ElementOfSeq
<1>9. m = Append(Front(m), Last(m))
  BY <1>1 DEF Front, Last
<1> QED BY <1>1, <1>2, <1>5, <1>6, <1>7, <1>8, <1>9

\* A sequence and one more element.
LEMMA AppendParts ==
  ASSUME NEW S, NEW m \in Seq(S), NEW n \in S
  PROVE  /\ Front(Append(m, n)) = m /\ Last(Append(m, n)) = n /\ Append(m, n) # <<>>
         /\ Append(m, n) \in Seq(S) /\ Len(Append(m, n)) = Len(m) + 1
         /\ Append(m, n)[Len(m) + 1] = n
         /\ \A j \in 1..Len(m) : Append(m, n)[j] = m[j]
<1>1. Append(m, n) \in Seq(S)
  OBVIOUS
<1>2. Len(Append(m, n)) = Len(m) + 1
  OBVIOUS
<1>3. Append(m, n) # <<>>
  BY <1>2, LenProperties, EmptySeq
<1>4. Front(Append(m, n)) = m
  BY DEF Front
<1>5. Last(Append(m, n)) = n
  BY DEF Last
<1>6. Append(m, n)[Len(m) + 1] = n
  OBVIOUS
<1>7. \A j \in 1..Len(m) : Append(m, n)[j] = m[j]
  OBVIOUS
<1> QED BY <1>1, <1>2, <1>3, <1>4, <1>5, <1>6, <1>7

\* What is on the way to m.
LEMMA PrefixParts ==
  ASSUME NEW m \in Path, NEW j \in 0..(Len(m) - 1)
  PROVE  LET q == SubSeq(m, 1, j + 1)
         IN  /\ q \in Path /\ q # <<>> /\ Front(q) = SubSeq(m, 1, j) /\ Last(q) = m[j + 1]
             /\ Len(q) = j + 1
BY DEF Path, Front, Last

\* What is on the way to all but the last is on the way to m.
LEMMA PrefixOfFront ==
  ASSUME NEW m \in Path, m # <<>>, NEW j \in 1..(Len(m) - 1)
  PROVE  SubSeq(Front(m), 1, j) = SubSeq(m, 1, j)
BY DEF Path, Front

\* A path that begins with another is it, or has it on its way.
LEMMA PrefixIsOnTheWay ==
  ASSUME NEW p \in Path, NEW m \in Path, IsPrefix(p, m), p # m
  PROVE  Len(p) \in 0..(Len(m) - 1) /\ p = SubSeq(m, 1, Len(p))
<1>1. Len(p) \in Nat /\ Len(m) \in Nat /\ Len(p) <= Len(m) /\ SubSeq(p, 1, Len(p)) = SubSeq(m, 1, Len(p))
  BY LenProperties DEF IsPrefix, Path
<1>2. SubSeq(p, 1, Len(p)) = p /\ SubSeq(m, 1, Len(m)) = m
  BY SubSeqFull DEF Path
<1> QED BY <1>1, <1>2

\* The instances of a module: its path, with a key for every call.
LEMMA InstancePaths ==
  ASSUME NEW m \in Path, NEW i \in ModuleInstances(m)
  PROVE  /\ Len(i) = Len(m) /\ i \in Seq(Call) /\ Names(i) = m
         /\ \A j \in 1..Len(m) : i[j] \in {m[j]} \X config.keys[m[j]]
<1>1. PICK f \in {f \in [DOMAIN m -> Key] : \A j \in DOMAIN m : f[j] \in config.keys[m[j]]} :
        i = [j \in DOMAIN m |-> <<m[j], f[j]>>]
  BY DEF ModuleInstances
<1>2. DOMAIN m = 1..Len(m) /\ Len(m) \in Nat
  BY LenProperties DEF Path
<1>3. \A j \in 1..Len(m) : m[j] \in Name
  BY ElementOfSeq DEF Path
<1>4. \A j \in 1..Len(m) : f[j] \in Key /\ f[j] \in config.keys[m[j]]
  BY <1>2
<1>5. i = [j \in DOMAIN i |-> i[j]] /\ DOMAIN i = 1..Len(m)
  <2>1. \A j \in DOMAIN m : m[j] \in Name /\ f[j] \in Key
    BY <1>2, <1>3, <1>4
  <2>2. i \in [DOMAIN m -> Name \X Key]
    BY <1>1, <2>1
  <2> QED BY <1>2, <2>2
<1>6. \A j \in 1..Len(m) : i[j] = <<m[j], f[j]>>
  BY <1>1, <1>2
<1>7. \A j \in 1..Len(m) : i[j] \in Call /\ i[j][1] = m[j] /\ i[j] \in {m[j]} \X config.keys[m[j]]
  <2> SUFFICES ASSUME NEW j \in 1..Len(m)
               PROVE  i[j] \in Call /\ i[j][1] = m[j] /\ i[j] \in {m[j]} \X config.keys[m[j]]
    OBVIOUS
  <2>1. i[j] = <<m[j], f[j]>> /\ m[j] \in Name /\ f[j] \in Key /\ f[j] \in config.keys[m[j]]
    BY <1>3, <1>4, <1>6
  <2>2. i[j] \in Call
    BY <2>1 DEF Call
  <2>3. i[j] \in {m[j]} \X config.keys[m[j]]
    BY <2>1
  <2> QED BY <2>1, <2>2, <2>3
<1>8. i \in [1..Len(m) -> Call]
  BY <1>5, <1>7
<1>9. i \in Seq(Call) /\ Len(i) = Len(m)
  BY <1>2, <1>8
<1>10. Names(i) = m
  <2>1. DOMAIN Names(i) = 1..Len(m) /\ Names(i) = [j \in DOMAIN Names(i) |-> Names(i)[j]]
    BY <1>5 DEF Names
  <2>2. \A j \in 1..Len(m) : Names(i)[j] = m[j]
    BY <1>5, <1>7 DEF Names
  <2>3. Names(i) \in [1..Len(m) -> Name]
    BY <1>3, <2>1, <2>2
  <2>4. Names(i) \in Seq(Name) /\ Len(Names(i)) = Len(m)
    BY <1>2, <2>3
  <2> QED BY <2>2, <2>4, SeqEqual DEF Path
<1> QED BY <1>7, <1>9, <1>10

\* The root is there once.
LEMMA RootInstance == ModuleInstances(<<>>) = {<<>>}
<1>1. <<>> \in ModuleInstances(<<>>)
  <2> DEFINE f == [j \in {} |-> {}]
  <2>1. f \in [DOMAIN <<>> -> Key] /\ DOMAIN <<>> = {}
    OBVIOUS
  <2>2. [j \in DOMAIN <<>> |-> <<(<<>>)[j], f[j]>>] \in ModuleInstances(<<>>)
    BY <2>1 DEF ModuleInstances
  <2>3. [j \in DOMAIN <<>> |-> <<(<<>>)[j], f[j]>>] = <<>>
    BY <2>1
  <2> QED BY <2>2, <2>3
<1>2. ASSUME NEW i \in ModuleInstances(<<>>) PROVE i = <<>>
  <2>1. Len(i) = 0 /\ i \in Seq(Call)
    BY <1>2, InstancePaths, EmptySeq DEF Path
  <2> QED BY <2>1, EmptySeq
<1> QED BY <1>1, <1>2

\* An instance of a call: one of the module around it, with a key.
LEMMA InstancesOfCall ==
  ASSUME NEW m \in Path, m # <<>>, NEW x,
         \A j \in DOMAIN m : config.keys[m[j]] \subseteq Key
  PROVE  x \in ModuleInstances(m) <=>
         \E i \in ModuleInstances(Front(m)), k \in config.keys[Last(m)] : x = Append(i, <<Last(m), k>>)
<1>1. /\ Len(m) \in Nat \ {0} /\ Len(Front(m)) = Len(m) - 1 /\ Front(m) \in Path /\ Last(m) = m[Len(m)]
      /\ Last(m) \in Name /\ \A j \in 1..(Len(m) - 1) : Front(m)[j] = m[j]
  BY FrontAndLast DEF Path
<1>2. DOMAIN m = 1..Len(m) /\ DOMAIN Front(m) = 1..(Len(m) - 1)
  BY <1>1, LenProperties DEF Path
<1>3. \A j \in 1..Len(m) : m[j] \in Name
  BY ElementOfSeq DEF Path
<1>4. ASSUME x \in ModuleInstances(m)
      PROVE  \E i \in ModuleInstances(Front(m)), k \in config.keys[Last(m)] : x = Append(i, <<Last(m), k>>)
  <2>1. PICK f \in [DOMAIN m -> Key] : /\ \A j \in DOMAIN m : f[j] \in config.keys[m[j]]
                                     /\ x = [j \in DOMAIN m |-> <<m[j], f[j]>>]
    BY <1>4 DEF ModuleInstances
  <2> DEFINE g == [j \in DOMAIN Front(m) |-> f[j]]
             i == [j \in DOMAIN Front(m) |-> <<Front(m)[j], g[j]>>]
  <2>2. \A j \in 1..Len(m) : f[j] \in Key /\ f[j] \in config.keys[m[j]] /\ x[j] = <<m[j], f[j]>>
    BY <1>2, <2>1
  <2>3. g \in [DOMAIN Front(m) -> Key] /\ \A j \in DOMAIN Front(m) : g[j] \in config.keys[Front(m)[j]]
    BY <1>1, <1>2, <2>2
  <2>5. \A j \in 1..(Len(m) - 1) : i[j] = x[j]
    BY <1>1, <1>2, <2>2
  <2> HIDE DEF i, g
  <2>4. i \in ModuleInstances(Front(m))
    <3>1. [j \in DOMAIN Front(m) |-> <<Front(m)[j], g[j]>>] \in ModuleInstances(Front(m))
      BY <2>3 DEF ModuleInstances
    <3> QED BY <3>1 DEF i
  <2>6. i \in Seq(Call) /\ Len(i) = Len(m) - 1
    BY <1>1, <2>4, InstancePaths
  <2>7. x \in Seq(Call) /\ Len(x) = Len(m)
    BY <1>4, InstancePaths
  <2>8. x[Len(m)] = <<Last(m), f[Len(m)]>> /\ f[Len(m)] \in config.keys[Last(m)] /\ f[Len(m)] \in Key
    BY <1>1, <2>2
  <2>9. <<Last(m), f[Len(m)]>> \in Call
    BY <1>1, <2>8 DEF Call
  <2> DEFINE y == Append(i, <<Last(m), f[Len(m)]>>)
  <2>10. /\ y \in Seq(Call) /\ Len(y) = Len(i) + 1 /\ y[Len(i) + 1] = <<Last(m), f[Len(m)]>>
         /\ \A j \in 1..Len(i) : y[j] = i[j]
    BY <2>6, <2>9, AppendParts
  <2> HIDE DEF y
  <2>11. x = y
    <3>1. \A j \in 1..Len(x) : x[j] = y[j]
      <4> SUFFICES ASSUME NEW j \in 1..Len(x) PROVE x[j] = y[j]
        OBVIOUS
      <4>1. CASE j = Len(m)
        <5>1. j = Len(i) + 1
          BY <1>1, <2>6, <4>1
        <5> QED BY <2>8, <2>10, <4>1, <5>1
      <4>2. CASE j \in 1..(Len(m) - 1)
        BY <1>1, <2>5, <2>6, <2>10, <4>2
      <4> QED BY <1>1, <2>7, <4>1, <4>2
    <3> QED BY <1>1, <2>6, <2>7, <2>10, <3>1, SeqEqual
  <2> QED BY <2>4, <2>8, <2>11 DEF y
<1>5. ASSUME NEW i \in ModuleInstances(Front(m)), NEW k \in config.keys[Last(m)]
      PROVE  Append(i, <<Last(m), k>>) \in ModuleInstances(m)
  <2> DEFINE y == Append(i, <<Last(m), k>>)
             f == [j \in DOMAIN m |-> y[j][2]]
             z == [j \in DOMAIN m |-> <<m[j], f[j]>>]
  <2>1. i \in Seq(Call) /\ Len(i) = Len(m) - 1
    BY <1>1, InstancePaths
  <2>2. k \in Key /\ <<Last(m), k>> \in Call
    BY <1>1, <1>2 DEF Call
  <2>3. \A j \in 1..(Len(m) - 1) : i[j] \in {m[j]} \X config.keys[m[j]]
    <3>1. \A j \in 1..Len(Front(m)) : i[j] \in {Front(m)[j]} \X config.keys[Front(m)[j]]
      BY <1>1, InstancePaths
    <3> QED BY <1>1, <3>1
  <2>4. /\ y \in Seq(Call) /\ Len(y) = Len(i) + 1 /\ y[Len(i) + 1] = <<Last(m), k>>
        /\ \A j \in 1..Len(i) : y[j] = i[j]
    BY <2>1, <2>2, AppendParts
  <2> HIDE DEF y
  <2>5. \A j \in 1..Len(m) : y[j] \in {m[j]} \X config.keys[m[j]]
    <3> SUFFICES ASSUME NEW j \in 1..Len(m) PROVE y[j] \in {m[j]} \X config.keys[m[j]]
      OBVIOUS
    <3>1. CASE j = Len(m)
      <4>1. y[j] = <<m[j], k>> /\ k \in config.keys[m[j]]
        BY <1>1, <2>1, <2>4, <3>1
      <4> QED BY <4>1
    <3>2. CASE j \in 1..(Len(m) - 1)
      BY <1>1, <2>1, <2>3, <2>4, <3>2
    <3> QED BY <1>1, <3>1, <3>2
  <2>6. \A j \in 1..Len(m) : y[j] = <<m[j], y[j][2]>> /\ y[j][2] \in config.keys[m[j]] /\ y[j][2] \in Key
    BY <1>2, <2>5
  <2>7. f \in [DOMAIN m -> Key] /\ \A j \in DOMAIN m : f[j] \in config.keys[m[j]]
    BY <1>2, <2>6
  <2>9. \A j \in 1..Len(m) : z[j] = y[j]
    BY <1>2, <2>6
  <2> HIDE DEF z, f
  <2>8. z \in ModuleInstances(m)
    <3>1. [j \in DOMAIN m |-> <<m[j], f[j]>>] \in ModuleInstances(m)
      BY <2>7 DEF ModuleInstances
    <3> QED BY <3>1 DEF z
  <2>10. z \in Seq(Call) /\ Len(z) = Len(m)
    BY <2>8, InstancePaths
  <2>11. z = y
    BY <1>1, <2>1, <2>4, <2>9, <2>10, SeqEqual
  <2> QED BY <2>8, <2>11 DEF y
<1> QED BY <1>4, <1>5

-----------------------------------------------------------------------------
(* What the vertices of a configuration are.                               *)

\* The modules, the root one with them.
Around == config.module \cup {<<>>}

\* The paths of modules, and the keys of their calls.
LEMMA ModulePaths ==
  ASSUME config \in Configs, NEW m \in config.module
  PROVE  /\ m \in Path /\ m # <<>> /\ Len(m) \in Nat \ {0}
         /\ Front(m) \in Around /\ (Len(m) > 1 => Front(m) \in config.module)
         /\ (Len(m) = 1 => Front(m) = <<>>)
         /\ \A j \in DOMAIN m : config.keys[m[j]] \subseteq Key
         /\ Last(m) \in Name /\ config.keys[Last(m)] \subseteq Key
<1>0. /\ m \in Seq(STRING) \ {<<>>} /\ (Len(m) > 1 => Front(m) \in config.module)
      /\ \A j \in DOMAIN m : config.keys[m[j]] \subseteq Key
  <2>1. Called(m, config)
    BY ConfigsAssumption DEF WellFormed
  <2> QED BY <2>1 DEF Called
<1>1. m \in Path /\ m # <<>> /\ (Len(m) > 1 => Front(m) \in config.module)
  BY <1>0, Zenon DEF Path, Name
<1>2. \A j \in DOMAIN m : config.keys[m[j]] \subseteq Key
  BY <1>0, Zenon
<1>3. /\ Len(m) \in Nat \ {0} /\ Last(m) = m[Len(m)] /\ Last(m) \in Name
      /\ Len(Front(m)) = Len(m) - 1 /\ Front(m) \in Path
  BY <1>1, FrontAndLast DEF Path
<1>4. Len(m) = 1 => Front(m) = <<>>
  BY <1>3, EmptySeq DEF Path
<1>5. DOMAIN m = 1..Len(m)
  BY <1>1, LenProperties DEF Path
<1>6. config.keys[Last(m)] \subseteq Key
  BY <1>2, <1>3, <1>5
<1> QED BY <1>1, <1>2, <1>3, <1>4, <1>6 DEF Around

\* The root has a path too.
LEMMA AroundIsPath == ASSUME config \in Configs, NEW m \in Around PROVE m \in Path
BY ModulePaths, EmptySeq DEF Around, Path

\* The vertices of resources.
LEMMA ResourceShape ==
  ASSUME config \in Configs, NEW v \in Resources
  PROVE  /\ v = Static("resource", v.mod, v.name) /\ v.kind = "resource"
         /\ v.mod \in Around /\ Owner(v) = v
<1>1. PICK r \in config.resource : v = Static("resource", r.mod, r.name)
  BY DEF Resources, Resource
<1>2. r.mod \in Around
  BY ConfigsAssumption DEF WellFormed, Around
<1> QED BY <1>1, <1>2, StaticFields, ResourceOwner

\* The vertices of checks.
LEMMA CheckShape ==
  ASSUME config \in Configs, NEW v \in CheckVertices
  PROVE  /\ v = Static("expandCheck", v.mod, v.name) /\ v.kind = "expandCheck"
         /\ v.mod \in Around
         /\ \E c \in config.check : v.mod = c.mod /\ v.name = c.name /\ v = CheckOf(c)
<1>1. PICK c \in config.check : v = Static("expandCheck", c.mod, c.name)
  BY DEF CheckVertices, CheckOf
<1>2. c.mod \in Around
  BY ConfigsAssumption DEF WellFormed, Around
<1> QED BY <1>1, <1>2, StaticFields DEF CheckOf

\* The instances of a resource.
LEMMA InstanceShape ==
  ASSUME config \in Configs, NEW v \in Resources, NEW w
  PROVE  /\ w \in Expected(v) =>
              /\ w.kind = "instance" /\ w.mod = v.mod /\ w.name = v.name /\ Owner(w) = v
              /\ w.inst \in ModuleInstances(v.mod) /\ w.key \in config.keys[v.name]
              /\ w = Instance(v, w.inst, w.key)
         /\ \A i \in ModuleInstances(v.mod), k \in config.keys[v.name] : Instance(v, i, k) \in Expected(v)
<1>1. v = Static("resource", v.mod, v.name) /\ v.kind = "resource"
  BY ResourceShape
<1>2. Expected(v) = {Instance(v, p[1], p[2]) : p \in ModuleInstances(v.mod) \X config.keys[v.name]}
  BY <1>1 DEF Expected
<1>3. ASSUME NEW i \in ModuleInstances(v.mod), NEW k \in config.keys[v.name]
      PROVE  Instance(v, i, k) \in Expected(v)
  <2>1. <<i, k>> \in ModuleInstances(v.mod) \X config.keys[v.name] /\ <<i, k>>[1] = i /\ <<i, k>>[2] = k
    OBVIOUS
  <2> QED BY <1>2, <2>1
<1>4. ASSUME w \in Expected(v)
      PROVE  /\ w.kind = "instance" /\ w.mod = v.mod /\ w.name = v.name /\ Owner(w) = v
             /\ w.inst \in ModuleInstances(v.mod) /\ w.key \in config.keys[v.name]
             /\ w = Instance(v, w.inst, w.key)
  <2>1. PICK p \in ModuleInstances(v.mod) \X config.keys[v.name] : w = Instance(v, p[1], p[2])
    BY <1>2, <1>4
  <2>2. p[1] \in ModuleInstances(v.mod) /\ p[2] \in config.keys[v.name]
    BY <2>1
  <2> QED BY <1>1, <2>1, <2>2, InstanceFields
<1> QED BY <1>3, <1>4

\* The objects of a check.
LEMMA AssertShape ==
  ASSUME config \in Configs, NEW v \in CheckVertices, NEW w
  PROVE  /\ w \in Expected(v) =>
              /\ w.kind = "assert" /\ w.mod = v.mod /\ w.name = v.name /\ Owner(w) = v
              /\ w.inst \in ModuleInstances(v.mod) /\ w = CheckAssert(v, w.inst)
         /\ \A i \in ModuleInstances(v.mod) : CheckAssert(v, i) \in Expected(v)
<1>1. v = Static("expandCheck", v.mod, v.name) /\ v.kind = "expandCheck"
  BY CheckShape
<1>2. Expected(v) = {CheckAssert(v, i) : i \in ModuleInstances(v.mod)}
  BY <1>1 DEF Expected
<1>3. ASSUME w \in Expected(v)
      PROVE  /\ w.kind = "assert" /\ w.mod = v.mod /\ w.name = v.name /\ Owner(w) = v
             /\ w.inst \in ModuleInstances(v.mod) /\ w = CheckAssert(v, w.inst)
  <2>1. PICK i \in ModuleInstances(v.mod) : w = CheckAssert(v, i)
    BY <1>2, <1>3
  <2> QED BY <1>1, <2>1, AssertFields
<1> QED BY <1>2, <1>3

\* The vertices that are neither an instance nor an assertion.
LEMMA FixedShape ==
  ASSUME config \in Configs, NEW v \in Fixed
  PROVE  /\ v.kind \notin {"instance", "assert"} /\ v.mod \in Around
         /\ v.kind = "resource" => v \in Resources
         /\ v.kind = "expandCheck" => v \in CheckVertices
         /\ v.kind = "expandModule" => v.mod \in config.module /\ v = Expander(v.mod)
         /\ v.kind = "closeModule" => v.mod \in config.module /\ v = Closer(v.mod)
         /\ v.kind = "reportCheck" =>
              \E c \in config.check : v = Report(c) /\ v.mod = c.mod /\ v.name = c.name
<1>1. CASE v \in Resources
  BY <1>1, ResourceShape
<1>2. CASE v \in CheckVertices
  BY <1>2, CheckShape
<1>3. CASE v \in {Expander(m) : m \in config.module}
  <2>1. PICK m \in config.module : v = Static("expandModule", m, "")
    BY <1>3 DEF Expander
  <2>2. v.kind = "expandModule" /\ v.mod = m
    BY <2>1 DEF Static
  <2> QED BY <2>1, <2>2 DEF Expander, Around
<1>4. CASE v \in {Closer(m) : m \in config.module}
  <2>1. PICK m \in config.module : v = Static("closeModule", m, "")
    BY <1>4 DEF Closer
  <2>2. v.kind = "closeModule" /\ v.mod = m
    BY <2>1 DEF Static
  <2> QED BY <2>1, <2>2 DEF Closer, Around
<1>5. CASE v \in ReportVertices
  <2>1. PICK c \in config.check : v = Static("reportCheck", c.mod, c.name)
    BY <1>5 DEF ReportVertices, Report
  <2>2. c.mod \in Around
    BY ConfigsAssumption DEF WellFormed, Around
  <2> QED BY <2>1, <2>2, StaticFields DEF Report
<1>6. CASE v = Start
  <2>2. v.kind = "checkStart" /\ v.mod = <<>>
    BY <1>6 DEF Start, Static
  <2> QED BY <2>2 DEF Around
<1> QED BY <1>1, <1>2, <1>3, <1>4, <1>5, <1>6 DEF Fixed, ConfigVertices

\* A data resource nested in a check is there once beside each object of
\* the check, and no other data resource is.
LEMMA NestedShape ==
  ASSUME config \in Configs, NEW d \in Nested
  PROVE  /\ d \in Resources /\ d \in Data
         /\ CheckAround(d) \in CheckVertices /\ CheckAround(d).mod = d.mod
         /\ \E k \in Key : config.keys[d.name] = {k}
         /\ \A e \in Nested : CheckAround(e) = CheckAround(d) => e = d
<1> DEFINE AroundIt(x, v) ==
             /\ v \in CheckVertices
             /\ \E c \in config.check : v = CheckOf(c) /\ x = Static("resource", c.mod, c.data)
<1>1. ASSUME NEW x \in Nested PROVE AroundIt(x, CheckAround(x))
  <2>1. PICK c \in config.check : c.data # "none" /\ x = Static("resource", c.mod, c.data)
    BY DEF Nested
  <2>2. CheckOf(c) \in CheckVertices
    BY DEF CheckVertices
  <2>3. \E v \in CheckVertices : \E e \in config.check :
         v = CheckOf(e) /\ x = Static("resource", e.mod, e.data)
    BY <2>1, <2>2
  <2> QED BY <2>3 DEF CheckAround
<1>2. PICK c \in config.check : c.data # "none" /\ d = Static("resource", c.mod, c.data)
  BY DEF Nested
<1>3. PICK r \in config.resource : r.mod = c.mod /\ r.name = c.data /\ r.mode = "data"
  BY <1>2, ConfigsAssumption DEF WellFormed
<1>4. d \in Resources /\ d \in Data
  BY <1>2, <1>3 DEF Resources, Data, Resource
<1>5. \E k \in Key : config.keys[d.name] = {k}
  <2>1. \E k \in Key : config.keys[c.data] = {k}
    BY <1>2, ConfigsAssumption DEF WellFormed
  <2> QED BY <1>2, <2>1, StaticFields
<1>6. CheckAround(d) \in CheckVertices /\ CheckAround(d).mod = d.mod
  BY <1>1, StaticFields DEF CheckOf
<1>7. ASSUME NEW e \in Nested, CheckAround(e) = CheckAround(d) PROVE e = d
  <2>1. PICK a \in config.check : CheckAround(e) = CheckOf(a) /\ e = Static("resource", a.mod, a.data)
    BY <1>1
  <2>2. PICK b \in config.check : CheckAround(d) = CheckOf(b) /\ d = Static("resource", b.mod, b.data)
    BY <1>1
  <2>3. a.mod = b.mod /\ a.name = b.name
    <3>1. Static("expandCheck", a.mod, a.name) = Static("expandCheck", b.mod, b.name)
      BY <1>7, <2>1, <2>2 DEF CheckOf
    <3> QED BY <3>1, StaticFields
  <2>4. a = b
    BY <2>3, ConfigsAssumption DEF WellFormed
  <2> QED BY <2>1, <2>2, <2>4
<1> QED BY <1>4, <1>5, <1>6, <1>7

-----------------------------------------------------------------------------
(* What a step of the walk leaves as it is.                                *)

\* All that is said of the configuration stays true.
LEMMA ConfigKept ==
  ASSUME config' = config
  PROVE  /\ Resources' = Resources /\ CheckVertices' = CheckVertices
         /\ ConfigVertices' = ConfigVertices /\ ReportVertices' = ReportVertices
         /\ Fixed' = Fixed /\ Expandable' = Expandable /\ ReportEdges' = ReportEdges
         /\ Checked' = Checked /\ Data' = Data /\ Nested' = Nested
         /\ CheckableVertices' = CheckableVertices
         /\ \A m : ModuleInstances(m)' = ModuleInstances(m)
         /\ \A v : /\ CheckAround(v)' = CheckAround(v) /\ Expected(v)' = Expected(v)
                   /\ Types(v)' = Types(v) /\ ObjectOf(v)' = ObjectOf(v)
                   /\ IsNested(v)' <=> IsNested(v)
                   /\ ClosesAfter(v)' <=> ClosesAfter(v)
         /\ \A v, S : Rules(v, S)' = Rules(v, S)
<1>1. Resources' = Resources /\ CheckVertices' = CheckVertices /\ ReportVertices' = ReportVertices
  BY DEF Resources, CheckVertices, ReportVertices
<1>2. ConfigVertices' = ConfigVertices
  BY <1>1 DEF ConfigVertices
<1>3. Fixed' = Fixed /\ Expandable' = Expandable
  BY <1>1, <1>2 DEF Fixed, Expandable
<1>4. Checked' = Checked /\ Data' = Data /\ Nested' = Nested
  BY DEF Checked, Data, Nested
<1>5. CheckableVertices' = CheckableVertices
  BY <1>1, <1>4 DEF CheckableVertices
<1>6. \A m : ModuleInstances(m)' = ModuleInstances(m)
  BY DEF ModuleInstances
<1>7. \A v : CheckAround(v)' = CheckAround(v)
  BY <1>1 DEF CheckAround
<1>8. ReportEdges' = ReportEdges
  BY <1>4, <1>7 DEF ReportEdges
<1>9. \A v : Expected(v)' = Expected(v)
  BY <1>6 DEF Expected
<1>10. \A v : Types(v)' = Types(v)
  BY <1>4, <1>7 DEF Types
<1>11. \A v : ObjectOf(v)' = ObjectOf(v)
  BY <1>7 DEF ObjectOf
<1>12. \A v : IsNested(v)' <=> IsNested(v)
  BY <1>4 DEF IsNested
<1>13. \A v : ClosesAfter(v)' <=> ClosesAfter(v)
  BY <1>12 DEF ClosesAfter
<1>14. \A v, S : Rules(v, S)' = Rules(v, S)
  BY <1>10 DEF Rules
<1> QED BY <1>1, <1>2, <1>3, <1>4, <1>5, <1>6, <1>7, <1>8, <1>9, <1>10, <1>11, <1>12, <1>13, <1>14

-----------------------------------------------------------------------------
(* The order of the visits.                                                *)

\* What a vertex of the graph can be.
LEMMA VertexShape ==
  ASSUME config \in Configs, VerticesFit, NEW w \in DOMAIN status
  PROVE  /\ w.mod \in Around
         /\ \/ w \in Fixed /\ w.kind \notin {"instance", "assert"}
            \/ /\ w.kind = "instance" /\ Owner(w) \in Resources /\ w \in Expected(Owner(w))
               /\ Owner(w) \in DOMAIN status /\ Owner(w) \in Fixed /\ Owner(w).mod = w.mod
            \/ /\ w.kind = "assert" /\ Owner(w) \in CheckVertices /\ w \in Expected(Owner(w))
               /\ Owner(w) \in DOMAIN status /\ Owner(w) \in Fixed /\ Owner(w).mod = w.mod
<1>1. w \in Fixed \/ (Owner(w) \in Expandable /\ w \in Expected(Owner(w)))
  BY DEF VerticesFit
<1>2. Expandable \subseteq DOMAIN status /\ Expandable \subseteq Fixed
  BY DEF VerticesFit, Expandable, ConfigVertices, Fixed
<1>3. CASE w \in Fixed
  BY <1>3, FixedShape
<1>4. CASE Owner(w) \in Resources /\ w \in Expected(Owner(w))
  <2>1. w.kind = "instance" /\ w.mod = Owner(w).mod
    BY <1>4, InstanceShape
  <2>2. Owner(w).mod \in Around
    BY <1>4, ResourceShape
  <2> QED BY <1>2, <1>4, <2>1, <2>2 DEF Expandable
<1>5. CASE Owner(w) \in CheckVertices /\ w \in Expected(Owner(w))
  <2>1. w.kind = "assert" /\ w.mod = Owner(w).mod
    BY <1>5, AssertShape
  <2>2. Owner(w).mod \in Around
    BY <1>5, CheckShape
  <2> QED BY <1>2, <1>5, <2>1, <2>2 DEF Expandable
<1> QED BY <1>1, <1>3, <1>4, <1>5 DEF Expandable

\* A module's closer may be visited when all behind it is done.
LEMMA BehindCloser ==
  ASSUME config \in Configs, GraphFits, SubsFit, ClosersFit, NEW m \in config.module,
         \A w \in Waits(Closer(m)) : status[w] = "done",
         NEW w \in DOMAIN status, IsPrefix(m, w.mod), w # Closer(m), ~IsCheck(w), ~IsNested(w)
  PROVE  status[w] = "done"
<1>1. m \in Path /\ m # <<>> /\ Len(m) \in Nat \ {0} /\ w.mod \in Path
  BY ModulePaths, VertexShape, AroundIsPath DEF GraphFits
<1>2. w.mod # <<>>
  <2>1. IsPrefix(m, <<>>) => Len(m) <= 0
    BY DEF IsPrefix
  <2> QED BY <1>1, <2>1
<1>3. w.mod \in config.module
  BY <1>2, VertexShape DEF GraphFits, Around
<1>4. w.kind # "assert"
  BY DEF IsCheck
<1>5. w.kind = "closeModule" => w = Closer(w.mod)
  BY FixedShape, VertexShape DEF GraphFits
<1>6. CASE w.mod = m
  <2>1. CASE ~Made(w)
    <3>1. ClosesAfter(w)
      BY <1>5, <1>6 DEF ClosesAfter
    <3>2. w \in Waits(Closer(m))
      BY <1>2, <1>6, <2>1, <3>1 DEF GraphFits, EdgesFit
    <3> QED BY <3>2
  <2>2. CASE Made(w)
    <3>1. w.kind = "instance"
      BY <1>4, <2>2 DEF Made
    <3> DEFINE d == Owner(w)
    <3>2. d \in Resources /\ d \in DOMAIN status /\ d \in Fixed /\ d.mod = w.mod
      BY <3>1, VertexShape DEF GraphFits
    <3>3. d.kind = "resource" /\ Owner(d) = d
      BY <3>2, ResourceShape
    <3>4. ~IsCheck(d) /\ ~IsNested(d) /\ ~Made(d)
      BY <3>1, <3>3 DEF IsCheck, IsNested, Made
    <3>5. ClosesAfter(d)
      BY <3>3, <3>4 DEF ClosesAfter
    <3>6. d \in Waits(Closer(m))
      BY <1>2, <1>6, <3>2, <3>4, <3>5 DEF GraphFits, EdgesFit
    <3> QED BY <2>2, <3>6 DEF SubsFit
  <2> QED BY <2>1, <2>2
<1>7. CASE w.mod # m
  <2> DEFINE q == w.mod
  <2>1. Len(m) \in 1..(Len(q) - 1) /\ m = SubSeq(q, 1, Len(m))
    BY <1>1, <1>7, PrefixIsOnTheWay
  <2>2. Closer(q) \in Waits(Closer(m))
    BY <1>3, <2>1 DEF GraphFits, EdgesFit
  <2>3. status[Closer(q)] = "done" /\ Closer(q) \in DOMAIN status
    BY <1>3, <2>2 DEF GraphFits, VerticesFit, ConfigVertices
  <2>4. CASE w = Closer(q)
    BY <2>3, <2>4
  <2>5. CASE w # Closer(q)
    <3>1. Closer(q) \in Visited
      BY <2>3 DEF Visited
    <3>2. IsPrefix(q, q)
      BY <1>1 DEF IsPrefix, Path
    <3> QED BY <1>3, <2>5, <3>1, <3>2 DEF ClosersFit
  <2> QED BY <2>4, <2>5
<1> QED BY <1>6, <1>7

\* The modules around one whose expander may be visited are expanded.
LEMMA AroundExpander ==
  ASSUME config \in Configs, GraphFits, AncestorsExpanded, NEW m \in config.module,
         \A w \in Waits(Expander(m)) : status[w] = "done",
         NEW j \in 1..(Len(m) - 1)
  PROVE  SubSeq(m, 1, j) \in config.module /\ status[Expander(SubSeq(m, 1, j))] = "done"
<1>1. m \in Path /\ m # <<>> /\ Len(m) \in Nat \ {0} /\ (Len(m) > 1 => Front(m) \in config.module)
  BY ModulePaths
<1>2. Front(m) \in config.module /\ Len(m) > 1
  BY <1>1
<1>3. status[Expander(Front(m))] = "done" /\ Expander(Front(m)) \in DOMAIN status
  BY <1>2 DEF GraphFits, EdgesFit, VerticesFit, ConfigVertices
<1>4. CASE j = Len(m) - 1
  BY <1>2, <1>3, <1>4 DEF Front
<1>5. CASE j \in 1..(Len(Front(m)) - 1)
  <2>1. SubSeq(Front(m), 1, j) = SubSeq(m, 1, j)
    BY <1>1, PrefixOfFront
  <2>2. Expander(Front(m)) \in Visited
    BY <1>3 DEF Visited
  <2> QED BY <1>2, <1>5, <2>1, <2>2 DEF AncestorsExpanded
<1>6. Len(Front(m)) = Len(m) - 1
  BY <1>1, FrontAndLast DEF Path
<1> QED BY <1>1, <1>4, <1>5, <1>6

\* What was visited keeps how it ended, and a subgraph is not left.
Onward ==
  /\ DOMAIN status \subseteq DOMAIN status'
  /\ \A w \in DOMAIN status :
       /\ status[w] \in {"done", "failed"} => status'[w] = status[w]
       /\ status[w] = "walking" => status'[w] \in {"walking", "done", "failed"}

\* How a visit goes on, but for making a subgraph.
Goes(v, how) ==
  \/ how = "executing" /\ Ready(v) /\ ~Expands(v)
  \/ how = "skipped" /\ status[v] = "pending" /\ \E w \in Waits(v) : status[w] # "done"
  \/ how = "failed" /\ Ready(v)
  \/ how \in {"done", "failed"} /\ status[v] = "executing"
  \/ /\ how \in {"done", "failed"} /\ status[v] = "walking"
     /\ how = "done" => \A w \in Sub(v) : status[w] = "done"

\* In whatever way a visit goes on, the order of the visits is kept.
LEMMA VisitKeeps ==
  ASSUME config \in Configs, GraphFits, VisitsFit, op \in {"plan", "apply"},
         config' = config, op' = op, edges' = edges,
         NEW v \in DOMAIN status, NEW how, Goes(v, how), End(v, how)
  PROVE  GraphFits' /\ VisitsFit' /\ Onward
<1>1. DOMAIN status' = DOMAIN status /\ status'[v] = how
      /\ \A w \in DOMAIN status : w # v => status'[w] = status[w]
  BY DEF End
<1>2. status[v] \in {"pending", "executing", "walking"} /\ how \in {"executing", "skipped", "failed", "done"}
  BY DEF Goes, Ready
<1>3. Onward
  <2>1. status[v] = "walking" => how \in {"done", "failed"}
    BY DEF Goes, Ready
  <2> QED BY <1>1, <1>2, <2>1 DEF Onward
<1>4. \A w : /\ Waits(w)' = Waits(w) /\ (Made(w)' <=> Made(w)) /\ (Expands(w)' <=> Expands(w))
             /\ (ClosesAfter(w)' <=> ClosesAfter(w)) /\ Expected(w)' = Expected(w)
             /\ (IsNested(w)' <=> IsNested(w))
  BY ConfigKept DEF Waits, Made, Expands
<1>5. \A w \in DOMAIN status : status[w] = "done" => status'[w] = "done"
  BY <1>3 DEF Onward
<1>6. \A x : \A w \in Waits(x) : w \in DOMAIN status
  BY DEF GraphFits, EdgesFit, Waits
<1>7. v \in Visited' \ Visited => \A w \in Waits(v) : status[w] = "done"
  BY <1>1 DEF Goes, Ready, Visited
<1>8. \A x \in Visited' : x = v \/ x \in Visited
  BY <1>1 DEF Visited
<1>9. VerticesFit'
  BY <1>1, ConfigKept DEF GraphFits, VerticesFit
<1>10. EdgesFit'
  BY <1>1, <1>4, ConfigKept DEF GraphFits, EdgesFit
<1>11. StatusFits'
  <2>1. how = "executing" => ~Expands(v)
    BY <1>2 DEF Goes
  <2> QED BY <1>1, <1>2, <1>4, <2>1 DEF VisitsFit, StatusFits, Ended
<1>12. WalkOrder'
  <2> SUFFICES ASSUME NEW x \in Visited', NEW w \in Waits(x) PROVE status'[w] = "done"
    BY <1>4 DEF WalkOrder
  <2>1. status[w] = "done"
    BY <1>7, <1>8 DEF VisitsFit, WalkOrder
  <2> QED BY <1>5, <1>6, <2>1
<1>13. SubsFit'
  <2>1. ASSUME NEW w \in DOMAIN status, Made(w)
        PROVE  /\ status'[w] # "skipped" /\ status'[Owner(w)] \in {"walking", "done", "failed"}
               /\ status'[Owner(w)] = "done" => status'[w] = "done"
    <3>1. /\ status[w] # "skipped" /\ status[Owner(w)] \in {"walking", "done", "failed"}
          /\ status[Owner(w)] = "done" => status[w] = "done"
      BY <2>1 DEF VisitsFit, SubsFit
    <3>2. Owner(w) \in DOMAIN status
      BY <2>1, VertexShape, FixedShape DEF GraphFits, Made
    <3>3. Waits(w) = {}
      BY <2>1 DEF GraphFits, EdgesFit, Waits
    <3>4. status'[w] # "skipped"
      <4>1. CASE w = v
        <5>1. how # "skipped"
          BY <1>2, <3>3, <4>1 DEF Goes
        <5> QED BY <1>1, <4>1, <5>1
      <4> QED BY <1>1, <3>1, <4>1
    <3>5. status'[Owner(w)] \in {"walking", "done", "failed"}
      BY <1>3, <3>1, <3>2 DEF Onward
    <3>6. ASSUME status'[Owner(w)] = "done" PROVE status[w] = "done"
      <4>1. CASE Owner(w) = v
        <5>1. how = "done" /\ status[v] = "walking"
          BY <1>1, <1>2, <3>1, <3>6, <4>1
        <5>2. w \in Sub(v)
          BY <2>1, <4>1 DEF Made, Sub
        <5> QED BY <5>1, <5>2 DEF Goes
      <4> QED BY <1>1, <3>1, <3>2, <3>6, <4>1
    <3> QED BY <1>5, <3>4, <3>5, <3>6
  <2>2. ASSUME NEW x \in Expandable, Expands(x), status'[x] \in {"walking", "done"}
        PROVE  Expected(x) \subseteq DOMAIN status
    <3>1. x \in DOMAIN status
      BY DEF GraphFits, VerticesFit, Expandable, ConfigVertices
    <3>2. status[x] # "executing"
      BY <2>2, <3>1 DEF VisitsFit, StatusFits
    <3>3. status[x] \in {"walking", "done"}
      BY <1>1, <1>2, <2>2, <3>1, <3>2 DEF Goes, Ready
    <3> QED BY <2>2, <3>3 DEF VisitsFit, SubsFit
  <2> QED BY <1>1, <1>4, <2>1, <2>2, ConfigKept DEF SubsFit
<1>14. ClosersFit'
  <2> SUFFICES ASSUME NEW m \in config.module, Closer(m) \in Visited', NEW w \in DOMAIN status,
                      IsPrefix(m, w.mod), w # Closer(m), ~IsCheck(w), ~IsNested(w)
               PROVE  status'[w] = "done"
    BY <1>1, <1>4, Zenon DEF ClosersFit, IsCheck
  <2>1. status[w] = "done"
    <3>1. CASE Closer(m) \in Visited
      BY <3>1 DEF VisitsFit, ClosersFit
    <3>2. CASE Closer(m) \notin Visited
      <4>1. \A x \in Waits(Closer(m)) : status[x] = "done"
        BY <1>7, <1>8, <3>2
      <4> QED BY <4>1, BehindCloser DEF VisitsFit
    <3> QED BY <3>1, <3>2
  <2> QED BY <1>5, <2>1
<1>15. AncestorsExpanded'
  <2> SUFFICES ASSUME NEW m \in config.module, Expander(m) \in Visited', NEW j \in 1..(Len(m) - 1)
               PROVE  SubSeq(m, 1, j) \in config.module /\ status'[Expander(SubSeq(m, 1, j))] = "done"
    BY DEF AncestorsExpanded
  <2>1. SubSeq(m, 1, j) \in config.module /\ status[Expander(SubSeq(m, 1, j))] = "done"
    <3>1. CASE Expander(m) \in Visited
      BY <3>1 DEF VisitsFit, AncestorsExpanded
    <3>2. CASE Expander(m) \notin Visited
      <4>1. \A x \in Waits(Expander(m)) : status[x] = "done"
        BY <1>7, <1>8, <3>2
      <4> QED BY <4>1, AroundExpander DEF VisitsFit
    <3> QED BY <3>1, <3>2
  <2>2. Expander(SubSeq(m, 1, j)) \in DOMAIN status
    BY <2>1 DEF GraphFits, VerticesFit, ConfigVertices
  <2> QED BY <1>5, <2>1, <2>2
<1>16. StatusIsMap'
  BY DEF End, VisitsFit, StatusIsMap
<1> QED BY <1>3, <1>9, <1>10, <1>11, <1>12, <1>13, <1>14, <1>15, <1>16 DEF GraphFits, VisitsFit

\* A vertex makes a graph of itself: nothing of it was there before.
LEMMA WalkKeeps ==
  ASSUME config \in Configs, GraphFits, VisitsFit, op \in {"plan", "apply"},
         config' = config, op' = op, edges' = edges,
         NEW v \in Expandable, Ready(v), Expands(v), Walk(v, Expected(v))
  PROVE  /\ GraphFits' /\ VisitsFit' /\ Onward /\ v \in DOMAIN status
         /\ Expected(v) \cap DOMAIN status = {}
         /\ DOMAIN status' = DOMAIN status \cup Expected(v)
         /\ \A w \in Expected(v) : status'[w] = "pending" /\ Owner(w) = v /\ Made(w)
         /\ status'[v] = "walking"
         /\ \A w \in DOMAIN status : w # v => status'[w] = status[w]
<1>1. v \in DOMAIN status /\ status[v] = "pending" /\ v \in Fixed
  BY DEF GraphFits, VerticesFit, Expandable, ConfigVertices, Fixed, Ready
<1>2. ASSUME NEW w \in Expected(v)
      PROVE  /\ Owner(w) = v /\ Made(w) /\ w \notin Fixed /\ w.mod = v.mod
             /\ w.kind \in {"instance", "assert"}
             /\ w.kind = "instance" => v \in Resources
  <2>1. CASE v \in Resources
    <3>1. w.kind = "instance" /\ Owner(w) = v /\ w.mod = v.mod
      BY <2>1, InstanceShape
    <3>2. op = "plan"
      BY <2>1, ResourceShape DEF Expands
    <3> QED BY <2>1, <3>1, <3>2, FixedShape DEF Made
  <2>2. CASE v \in CheckVertices
    <3>1. w.kind = "assert" /\ Owner(w) = v /\ w.mod = v.mod
      BY <2>2, AssertShape
    <3> QED BY <3>1, FixedShape DEF Made
  <2> QED BY <2>1, <2>2 DEF Expandable
<1>3. Expected(v) \cap DOMAIN status = {}
  BY <1>1, <1>2 DEF VisitsFit, SubsFit
<1>4. /\ DOMAIN status' = DOMAIN status \cup Expected(v) /\ status'[v] = "walking"
      /\ \A w \in Expected(v) : status'[w] = "pending"
      /\ \A w \in DOMAIN status : w # v => status'[w] = status[w]
  <2> DEFINE f == [w \in Expected(v) |-> "pending"]
             g == [status EXCEPT ![v] = "walking"]
  <2>1. /\ DOMAIN f = Expected(v) /\ DOMAIN g = DOMAIN status /\ g[v] = "walking"
        /\ \A w \in Expected(v) : f[w] = "pending"
        /\ \A w \in DOMAIN status : w # v => g[w] = status[w]
    BY <1>1
  <2>2. status' = Merge(f, g)
    BY DEF Walk
  <2> HIDE DEF f, g
  <2>3. v \notin Expected(v)
    BY <1>1, <1>3
  <2> QED BY <1>1, <1>3, <2>1, <2>2, <2>3 DEF Merge
<1>5. Onward
  BY <1>1, <1>4 DEF Onward
<1>6. \A w : /\ Waits(w)' = Waits(w) /\ (Made(w)' <=> Made(w)) /\ (Expands(w)' <=> Expands(w))
             /\ (ClosesAfter(w)' <=> ClosesAfter(w)) /\ Expected(w)' = Expected(w)
             /\ (IsNested(w)' <=> IsNested(w))
  BY ConfigKept DEF Waits, Made, Expands
<1>7. \A w \in DOMAIN status : status[w] = "done" => status'[w] = "done"
  BY <1>5 DEF Onward
<1>8. \A x : \A w \in Waits(x) : w \in DOMAIN status
  BY DEF GraphFits, EdgesFit, Waits
<1>9. \A x \in Visited' : x = v \/ x \in Visited
  BY <1>4 DEF Visited
<1>10. VerticesFit'
  <2>1. \A w \in DOMAIN status' : w \in Fixed \/ (Owner(w) \in Expandable /\ w \in Expected(Owner(w)))
    BY <1>2, <1>4 DEF GraphFits, VerticesFit
  <2> QED BY <1>4, <1>6, <2>1, ConfigKept DEF GraphFits, VerticesFit
<1>11. EdgesFit'
  <2>1. \A w \in DOMAIN status' : w \in DOMAIN status \/ (Made(w) /\ w \notin Fixed)
    BY <1>2, <1>4
  <2> QED BY <1>4, <1>6, <2>1, ConfigKept DEF GraphFits, EdgesFit
<1>12. StatusFits'
  BY <1>2, <1>4, <1>6 DEF VisitsFit, StatusFits
<1>13. WalkOrder'
  <2> SUFFICES ASSUME NEW x \in Visited', NEW w \in Waits(x) PROVE status'[w] = "done"
    BY <1>6 DEF WalkOrder
  <2>1. status[w] = "done"
    BY <1>9 DEF VisitsFit, WalkOrder, Ready
  <2> QED BY <1>7, <1>8, <2>1
<1>14. SubsFit'
  <2>1. ASSUME NEW w \in DOMAIN status', Made(w)
        PROVE  /\ status'[w] # "skipped" /\ status'[Owner(w)] \in {"walking", "done", "failed"}
               /\ status'[Owner(w)] = "done" => status'[w] = "done"
    <3>1. CASE w \in Expected(v)
      BY <1>2, <1>4, <3>1
    <3>2. CASE w \in DOMAIN status
      <4>1. /\ status[w] # "skipped" /\ status[Owner(w)] \in {"walking", "done", "failed"}
            /\ status[Owner(w)] = "done" => status[w] = "done"
        BY <2>1, <3>2 DEF VisitsFit, SubsFit
      <4>2. Owner(w) \in DOMAIN status /\ Owner(w) # v
        BY <1>1, <2>1, <3>2, <4>1, VertexShape, FixedShape DEF GraphFits, Made
      <4> QED BY <1>4, <1>7, <3>2, <4>1, <4>2
    <3> QED BY <1>4, <3>1, <3>2
  <2>2. ASSUME NEW x \in Expandable, Expands(x), status'[x] \in {"walking", "done"}
        PROVE  Expected(x) \subseteq DOMAIN status'
    <3>1. x \in DOMAIN status
      BY DEF GraphFits, VerticesFit, Expandable, ConfigVertices
    <3> QED BY <1>4, <2>2, <3>1 DEF VisitsFit, SubsFit
  <2> QED BY <1>6, <2>1, <2>2, ConfigKept DEF SubsFit
<1>15. ClosersFit'
  <2> SUFFICES ASSUME NEW m \in config.module, Closer(m) \in Visited', NEW w \in DOMAIN status',
                      IsPrefix(m, w.mod), w # Closer(m), ~IsCheck(w), ~IsNested(w)
               PROVE  status'[w] = "done"
    BY <1>6, Zenon DEF ClosersFit, IsCheck
  <2>1. Closer(m).kind = "closeModule" /\ v.kind \in {"resource", "expandCheck"}
    BY ModuleVertexFields, ResourceShape, CheckShape DEF Expandable
  <2>2. Closer(m) # v /\ Closer(m) \in Visited
    BY <1>9, <2>1
  <2>3. CASE w \in DOMAIN status
    BY <1>7, <2>2, <2>3 DEF VisitsFit, ClosersFit
  <2>4. CASE w \in Expected(v)
    <3>1. w.kind = "instance" /\ v \in Resources /\ v.mod = w.mod /\ Owner(w) = v
      BY <1>2, <2>4 DEF IsCheck
    <3>2. v.kind = "resource" /\ Owner(v) = v
      BY <3>1, ResourceShape
    <3>3. ~IsCheck(v) /\ ~IsNested(v)
      BY <3>1, <3>2 DEF IsCheck, IsNested
    <3>4. status[v] = "done"
      BY <1>1, <2>2, <3>1, <3>3 DEF VisitsFit, ClosersFit
    <3> QED BY <1>1, <3>4
  <2> QED BY <1>4, <2>3, <2>4
<1>16. AncestorsExpanded'
  <2> SUFFICES ASSUME NEW m \in config.module, Expander(m) \in Visited', NEW j \in 1..(Len(m) - 1)
               PROVE  SubSeq(m, 1, j) \in config.module /\ status'[Expander(SubSeq(m, 1, j))] = "done"
    BY DEF AncestorsExpanded
  <2>1. Expander(m).kind = "expandModule" /\ v.kind \in {"resource", "expandCheck"}
    BY ModuleVertexFields, ResourceShape, CheckShape DEF Expandable
  <2>2. SubSeq(m, 1, j) \in config.module /\ status[Expander(SubSeq(m, 1, j))] = "done"
    BY <1>9, <2>1 DEF VisitsFit, AncestorsExpanded
  <2>3. Expander(SubSeq(m, 1, j)) \in DOMAIN status
    BY <2>2 DEF GraphFits, VerticesFit, ConfigVertices
  <2> QED BY <1>7, <2>2, <2>3
<1>17. StatusIsMap'
  BY DEF Walk, Merge, StatusIsMap
<1> QED BY <1>1, <1>2, <1>3, <1>4, <1>5, <1>10, <1>11, <1>12, <1>13, <1>14, <1>15, <1>16, <1>17
        DEF GraphFits, VisitsFit

-----------------------------------------------------------------------------
(* The instances of the modules.                                           *)

\* What the expander knows is what the configuration has.
LEMMA KnownShape ==
  ASSUME config \in Configs, CallsFit, NEW i \in Known
  PROVE  /\ Names(i) \in Around /\ Names(i) \in Path /\ i \in ModuleInstances(Names(i))
         /\ i \in Seq(Call) /\ Len(i) \in Nat /\ Len(i) = Len(Names(i))
<1>1. i \in ModuleInstances(Names(i)) /\ Names(i) \in Around
  BY DEF CallsFit, Around
<1>2. Names(i) \in Path
  BY <1>1, AroundIsPath
<1>3. Len(i) = Len(Names(i)) /\ i \in Seq(Call)
  BY <1>1, <1>2, InstancePaths
<1> QED BY <1>1, <1>2, <1>3, LenProperties

\* The module m is expanded.
Opened(m) == m = <<>> \/ (m \in config.module /\ status[Expander(m)] = "done")

\* A vertex that may be visited is in a module that is expanded, and an
\* expander in one around it.
LEMMA ModuleOpened ==
  ASSUME config \in Configs, GraphFits, NEW v \in DOMAIN status, v \in Fixed,
         \A w \in Waits(v) : status[w] = "done"
  PROVE  IF v.kind = "expandModule" THEN Opened(Front(v.mod)) ELSE Opened(v.mod)
<1>1. CASE v.kind = "expandModule"
  <2>1. v.mod \in config.module /\ v = Expander(v.mod)
    BY <1>1, FixedShape
  <2>2. Len(v.mod) \in Nat \ {0} /\ (Len(v.mod) > 1 => Front(v.mod) \in config.module)
        /\ (Len(v.mod) = 1 => Front(v.mod) = <<>>)
    BY <2>1, ModulePaths
  <2>3. CASE Len(v.mod) > 1
    <3>1. Expander(Front(v.mod)) \in Waits(v)
      BY <2>1, <2>3 DEF GraphFits, EdgesFit
    <3> QED BY <1>1, <2>2, <2>3, <3>1 DEF Opened
  <2>4. CASE Len(v.mod) = 1
    BY <1>1, <2>2, <2>4 DEF Opened
  <2>5. \A n \in Nat \ {0} : n > 1 \/ n = 1
    OBVIOUS
  <2> QED BY <2>2, <2>3, <2>4, <2>5, Zenon
<1>2. CASE v.kind # "expandModule" /\ v.mod # <<>>
  <2>1. v # Expander(v.mod)
    BY <1>2, ModuleVertexFields
  <2>2. Expander(v.mod) \in Waits(v)
    BY <1>2, <2>1 DEF GraphFits, EdgesFit
  <2>3. v.mod \in config.module
    BY <1>2, FixedShape DEF Around
  <2> QED BY <1>2, <2>2, <2>3 DEF Opened
<1>3. CASE v.kind # "expandModule" /\ v.mod = <<>>
  BY <1>3 DEF Opened
<1> QED BY <1>1, <1>2, <1>3

\* A module that is expanded has the instances of the configuration, and
\* to ask for them is no panic.
LEMMA OpenedModule ==
  ASSUME config \in Configs, GraphFits, AncestorsExpanded, CallsFit, ExpandersFit,
         NEW m, Opened(m)
  PROVE  ExpandModule(m) = ModuleInstances(m) /\ ~Unexpanded(m)
<1>1. m \in Path
  BY AroundIsPath DEF Opened, Around
<1>2. ASSUME NEW i \in ExpandModule(m) PROVE i \in ModuleInstances(m)
  BY <1>2, KnownShape DEF ExpandModule
<1>3. ASSUME NEW i \in ModuleInstances(m) PROVE i \in ExpandModule(m)
  <2>1. Names(i) = m
    BY <1>1, InstancePaths
  <2>2. CASE m = <<>>
    BY <1>3, <2>1, <2>2, RootInstance DEF ExpandModule, Known
  <2>3. CASE m \in config.module /\ status[Expander(m)] = "done"
    <3>1. m # <<>> /\ \A j \in DOMAIN m : config.keys[m[j]] \subseteq Key
      BY <2>3, ModulePaths
    <3>2. PICK h \in ModuleInstances(Front(m)), k \in config.keys[Last(m)] : i = Append(h, <<Last(m), k>>)
      BY <1>1, <3>1, InstancesOfCall
    <3> DEFINE p == <<h, Last(m)>>
    <3>3. p \in DOMAIN calls
      BY <2>3 DEF ExpandersFit
    <3>4. k \in calls[p] /\ p[1] = h /\ p[2] = Last(m)
      BY <3>3 DEF CallsFit
    <3>5. i \in Known
      BY <3>2, <3>3, <3>4 DEF Known
    <3> QED BY <2>1, <3>5 DEF ExpandModule
  <2> QED BY <2>2, <2>3 DEF Opened
<1>4. ASSUME NEW i \in Known, Len(i) < Len(m), Names(i) = SubSeq(m, 1, Len(i))
      PROVE  <<i, m[Len(i) + 1]>> \in DOMAIN calls
  <2> DEFINE j == Len(i)
             q == SubSeq(m, 1, j + 1)
  <2>1. j \in Nat /\ Len(m) \in Nat /\ i \in ModuleInstances(Names(i))
    BY <1>1, KnownShape, LenProperties DEF Path
  <2>2. j \in 0..(Len(m) - 1)
    BY <1>4, <2>1
  <2>3. Front(q) = Names(i) /\ Last(q) = m[j + 1]
    BY <1>1, <1>4, <2>2, PrefixParts
  <2>4. m \in config.module /\ status[Expander(m)] = "done"
    <3>1. m # <<>>
      BY <2>1, <2>2, EmptySeq
    <3> QED BY <3>1 DEF Opened
  <2>5. q \in config.module /\ status[Expander(q)] = "done"
    <3>1. CASE j + 1 = Len(m)
      <4>1. q = m
        BY <1>1, <3>1, SubSeqFull DEF Path
      <4> QED BY <2>4, <4>1
    <3>2. CASE j + 1 \in 1..(Len(m) - 1)
      <4>1. Expander(m) \in Visited
        BY <2>4 DEF GraphFits, VerticesFit, ConfigVertices, Visited
      <4> QED BY <2>4, <3>2, <4>1 DEF AncestorsExpanded
    <3> QED BY <2>1, <2>2, <3>1, <3>2
  <2>6. <<i, Last(q)>> \in DOMAIN calls
    BY <2>1, <2>3, <2>5 DEF ExpandersFit
  <2> QED BY <2>3, <2>6
<1> QED BY <1>2, <1>3, <1>4 DEF Unexpanded

\* What is said of the expander stays true when nobody registers.
LEMMA ExpanderKept ==
  ASSUME config' = config, ExpanderFits, calls' = calls, expansion' = expansion, Onward, VerticesFit,
         \A m \in config.module : status'[Expander(m)] = "done" => status[Expander(m)] = "done"
  PROVE  ExpanderFits'
<1>1. Known' = Known /\ \A m : ModuleInstances(m)' = ModuleInstances(m)
  BY ConfigKept DEF Known
<1>2. \A v : Tried(v) => Tried(v)'
  BY DEF Tried, Onward
<1>3. CallsFit'
  BY <1>1, <1>2 DEF ExpanderFits, CallsFit
<1>4. ExpandersFit'
  BY <1>1 DEF ExpanderFits, ExpandersFit
<1>5. ExpansionFits'
  BY <1>1 DEF ExpanderFits, ExpansionFits, Onward
<1> QED BY <1>3, <1>4, <1>5 DEF ExpanderFits

\* A resource is registered once, by its own vertex.
LEMMA ResourceRegisters ==
  ASSUME config \in Configs, GraphFits, AncestorsExpanded, ExpanderFits, Onward,
         config' = config, calls' = calls,
         NEW v \in Resources, status[v] \notin {"walking", "done", "failed"}, Opened(v.mod),
         status'[v] \in {"walking", "done", "failed"},
         \A m \in config.module : status'[Expander(m)] = "done" => status[Expander(m)] = "done",
         NEW M, M \subseteq ExpandModule(v.mod), expansion' = Expand(expansion, M, v.name)
  PROVE  /\ ExpanderFits' /\ ~Unexpanded(v.mod)
         /\ ~Registered(expansion, ExpandModule(v.mod), v.name)
<1>1. v \in DOMAIN status /\ v \in DOMAIN status' /\ v = Static("resource", v.mod, v.name)
  BY ResourceShape DEF GraphFits, VerticesFit, ConfigVertices, Onward
<1>2. ~Unexpanded(v.mod)
  BY OpenedModule DEF ExpanderFits
<1>3. ~Registered(expansion, ExpandModule(v.mod), v.name)
  <2> SUFFICES ASSUME NEW i \in ExpandModule(v.mod), <<i, v.name>> \in DOMAIN expansion PROVE FALSE
    BY DEF Registered
  <2>1. Names(i) = v.mod
    BY DEF ExpandModule
  <2>2. status[Static("resource", Names(i), v.name)] \in {"walking", "done", "failed"}
    BY DEF ExpanderFits, ExpansionFits
  <2> QED BY <1>1, <2>1, <2>2
<1>4. Known' = Known /\ \A m : ModuleInstances(m)' = ModuleInstances(m)
  BY ConfigKept DEF Known
<1>5. \A w : Tried(w) => Tried(w)'
  BY DEF Tried, Onward
<1>6. CallsFit'
  BY <1>4, <1>5 DEF ExpanderFits, CallsFit
<1>7. ExpandersFit'
  BY <1>4 DEF ExpanderFits, ExpandersFit
<1>8. ExpansionFits'
  <2>1. DOMAIN expansion' = DOMAIN expansion \cup (M \X {v.name})
    BY DEF Expand, Merge
  <2>2. ASSUME NEW p \in DOMAIN expansion
        PROVE  /\ p = <<p[1], p[2]>> /\ p[1] \in Known
               /\ LET w == Static("resource", Names(p[1]), p[2])
                  IN  w \in DOMAIN status' /\ status'[w] \in {"walking", "done", "failed"}
    BY DEF ExpanderFits, ExpansionFits, Onward
  <2>3. ASSUME NEW p \in M \X {v.name}
        PROVE  /\ p = <<p[1], p[2]>> /\ p[1] \in Known
               /\ LET w == Static("resource", Names(p[1]), p[2])
                  IN  w \in DOMAIN status' /\ status'[w] \in {"walking", "done", "failed"}
    <3>1. p = <<p[1], p[2]>> /\ p[1] \in ExpandModule(v.mod) /\ p[2] = v.name
      OBVIOUS
    <3>2. Names(p[1]) = v.mod /\ p[1] \in Known
      BY <3>1 DEF ExpandModule
    <3> QED BY <1>1, <3>1, <3>2
  <2> QED BY <1>4, <2>1, <2>2, <2>3 DEF ExpansionFits
<1> QED BY <1>2, <1>3, <1>6, <1>7, <1>8 DEF ExpanderFits

\* A call is registered once, by the vertex of its module.
LEMMA CallRegisters ==
  ASSUME config \in Configs, GraphFits, AncestorsExpanded, ExpanderFits, Onward,
         config' = config, expansion' = expansion,
         NEW m \in config.module, status[Expander(m)] = "executing", Opened(Front(m)),
         NEW M, M \subseteq ExpandModule(Front(m)), calls' = Expand(calls, M, Last(m)),
         NEW how \in {"done", "failed"}, how = "done" => M = ExpandModule(Front(m)),
         End(Expander(m), how)
  PROVE  ExpanderFits' /\ ~Unexpanded(Front(m)) /\ ~Registered(calls, M, Last(m))
<1> DEFINE v == Expander(m)
<1>1. v \in DOMAIN status /\ v \in DOMAIN status' /\ status'[v] = how
      /\ \A w \in DOMAIN status : w # v => status'[w] = status[w]
  BY DEF End, GraphFits, VerticesFit, ConfigVertices, Onward
<1>2. ~Unexpanded(Front(m)) /\ ExpandModule(Front(m)) = ModuleInstances(Front(m))
  BY OpenedModule DEF ExpanderFits
<1>3. /\ m \in Path /\ m # <<>> /\ Last(m) \in Name /\ config.keys[Last(m)] \subseteq Key
      /\ Front(m) \in Path /\ \A j \in DOMAIN m : config.keys[m[j]] \subseteq Key
  BY ModulePaths, AroundIsPath
<1>4. m = Append(Front(m), Last(m))
  BY <1>3, FrontAndLast DEF Path
<1>5. \A i \in M : i \in Known /\ Names(i) = Front(m) /\ i \in ModuleInstances(Front(m)) /\ i \in Seq(Call)
  BY <1>2, KnownShape DEF ExpandModule, ExpanderFits
<1>6. ~Registered(calls, M, Last(m))
  <2> SUFFICES ASSUME NEW i \in M, <<i, Last(m)>> \in DOMAIN calls PROVE FALSE
    BY DEF Registered
  <2>1. Tried(Expander(Append(Names(i), Last(m))))
    BY DEF ExpanderFits, CallsFit
  <2> QED BY <1>4, <1>5, <2>1 DEF Tried
<1>7. \A w : Tried(w) => Tried(w)'
  BY DEF Tried, Onward
<1>8. \A q : ModuleInstances(q)' = ModuleInstances(q)
  BY ConfigKept
<1>9. /\ DOMAIN calls' = DOMAIN calls \cup (M \X {Last(m)})
      /\ \A p \in M \X {Last(m)} : calls'[p] = config.keys[Last(m)]
      /\ \A p \in DOMAIN calls : p \notin M \X {Last(m)} => calls'[p] = calls[p]
  <2> DEFINE f == [p \in M \X {Last(m)} |-> config.keys[Last(m)]]
  <2>1. DOMAIN f = M \X {Last(m)} /\ \A p \in M \X {Last(m)} : f[p] = config.keys[Last(m)]
    OBVIOUS
  <2>2. calls' = Merge(f, calls)
    BY DEF Expand
  <2> HIDE DEF f
  <2> QED BY <2>1, <2>2 DEF Merge
<1>10. \A p \in DOMAIN calls : calls'[p] = calls[p]
  <2>1. \A p \in DOMAIN calls : calls[p] = config.keys[p[2]]
    BY DEF ExpanderFits, CallsFit
  <2>2. \A p \in M \X {Last(m)} : p[2] = Last(m)
    OBVIOUS
  <2> QED BY <1>9, <2>1, <2>2
<1>11. Known \subseteq Known'
  BY <1>9, <1>10 DEF Known
<1>12. ASSUME NEW p \in M \X {Last(m)}
       PROVE  /\ p = <<p[1], p[2]>> /\ p[1] \in M /\ p[2] = Last(m)
              /\ Append(Names(p[1]), p[2]) = m
  <2>1. p = <<p[1], p[2]>> /\ p[1] \in M /\ p[2] = Last(m)
    OBVIOUS
  <2> QED BY <1>4, <1>5, <2>1
<1>13. ASSUME NEW i \in Known', i \notin Known
       PROVE  i \in ModuleInstances(m) /\ Names(i) = m
  <2>1. PICK p \in DOMAIN calls' : \E k \in calls'[p] : i = Append(p[1], <<p[2], k>>)
    BY <1>13 DEF Known
  <2>2. PICK k \in calls'[p] : i = Append(p[1], <<p[2], k>>)
    BY <2>1
  <2>3. p \notin DOMAIN calls
    BY <1>10, <1>13, <2>2 DEF Known
  <2>4. p \in M \X {Last(m)}
    BY <1>9, <2>3
  <2>5. p[1] \in ModuleInstances(Front(m)) /\ p[2] = Last(m) /\ k \in config.keys[Last(m)]
    BY <1>5, <1>9, <1>12, <2>2, <2>4
  <2>6. i \in ModuleInstances(m)
    BY <1>3, <2>2, <2>5, InstancesOfCall
  <2> QED BY <1>3, <2>6, InstancePaths
<1>14. CallsFit'
  <2>1. ASSUME NEW p \in DOMAIN calls'
        PROVE  /\ p = <<p[1], p[2]>> /\ p[1] \in Known'
               /\ Append(Names(p[1]), p[2]) \in config.module
               /\ Tried(Expander(Append(Names(p[1]), p[2])))'
               /\ calls'[p] = config.keys[p[2]]
    <3>1. CASE p \in DOMAIN calls
      BY <1>7, <1>10, <1>11, <3>1 DEF ExpanderFits, CallsFit
    <3>2. CASE p \in M \X {Last(m)}
      <4>1. Tried(Expander(m))'
        BY <1>1 DEF Tried
      <4> QED BY <1>5, <1>9, <1>11, <1>12, <3>2, <4>1
    <3> QED BY <1>9, <3>1, <3>2
  <2>2. ASSUME NEW i \in Known'
        PROVE  /\ i \in ModuleInstances(Names(i))
               /\ Names(i) = <<>> \/ (Names(i) \in config.module /\ Tried(Expander(Names(i)))')
    <3>1. CASE i \in Known
      BY <1>7, <3>1 DEF ExpanderFits, CallsFit
    <3>2. CASE i \notin Known
      <4>1. Tried(Expander(m))'
        BY <1>1 DEF Tried
      <4> QED BY <1>13, <3>2, <4>1
    <3> QED BY <3>1, <3>2
  <2> QED BY <1>8, <2>1, <2>2 DEF CallsFit
<1>15. ExpandersFit'
  <2> SUFFICES ASSUME NEW q \in config.module, status'[Expander(q)] = "done",
                      NEW i \in ModuleInstances(Front(q))
               PROVE  i \in Known' /\ <<i, Last(q)>> \in DOMAIN calls'
    BY <1>8 DEF ExpandersFit
  <2>1. CASE status[Expander(q)] = "done"
    <3>1. i \in Known /\ <<i, Last(q)>> \in DOMAIN calls
      BY <2>1 DEF ExpanderFits, ExpandersFit
    <3> QED BY <1>9, <1>11, <3>1
  <2>2. CASE status[Expander(q)] # "done"
    <3>1. Expander(q) = v
      BY <1>1, <2>2 DEF GraphFits, VerticesFit, ConfigVertices
    <3>2. q = m
      BY <3>1, ModuleVertexFields
    <3>3. i \in M
      BY <1>1, <1>2, <3>2
    <3>4. <<i, Last(m)>> \in M \X {Last(m)}
      BY <3>3
    <3> QED BY <1>5, <1>9, <1>11, <3>2, <3>3, <3>4
  <2> QED BY <2>1, <2>2
<1>16. ExpansionFits'
  BY <1>11 DEF ExpanderFits, ExpansionFits, Onward
<1> QED BY <1>2, <1>6, <1>14, <1>15, <1>16 DEF ExpanderFits

-----------------------------------------------------------------------------
(* The results of the checks.                                              *)

\* The objects of what can be checked.
LEMMA ObjectShape ==
  ASSUME config \in Configs, NEW v \in CheckableVertices, NEW o \in Expected(v)
  PROVE  Owner(o) = v
BY InstanceShape, AssertShape DEF CheckableVertices, Checked, Resources

\* Each object has the results of its rules.
LEMMA ResultDomain ==
  ASSUME config \in Configs, ObjectsFit, NEW v \in DOMAIN objects, NEW o \in Expected(v), NEW t \in Types(v)
  PROVE  <<o, t>> \in DOMAIN result /\ v \in CheckableVertices /\ objects[v] = Expected(v) /\ Owner(o) = v
<1>1. v \in CheckableVertices /\ objects[v] = Expected(v) /\ Owner(o) = v
  BY ObjectShape DEF ObjectsFit
<1>2. <<o, t>> \in Rules(v, objects[v])
  BY <1>1 DEF Rules
<1> QED BY <1>1, <1>2 DEF ObjectsFit

\* The object of a check that nested data reports to.
LEMMA ObjectOfShape ==
  ASSUME config \in Configs, VerticesFit, NEW w \in DOMAIN status, w.kind = "instance", IsNested(w)
  PROVE  /\ Owner(w) \in Nested /\ Owner(w) \in Resources
         /\ CheckAround(Owner(w)) \in CheckVertices
         /\ ObjectOf(w) \in Expected(CheckAround(Owner(w)))
         /\ Owner(ObjectOf(w)) = CheckAround(Owner(w))
         /\ ObjectOf(w).kind = "assert" /\ ObjectOf(w).inst = w.inst
         /\ "data" \in Types(CheckAround(Owner(w)))
<1> DEFINE d == Owner(w)
           v == CheckAround(d)
<1>1. d \in Nested /\ d \in Resources /\ w \in Expected(d)
  BY VertexShape DEF IsNested
<1>2. v \in CheckVertices /\ v.mod = d.mod
  BY <1>1, NestedShape
<1>3. w.inst \in ModuleInstances(v.mod)
  BY <1>1, <1>2, InstanceShape
<1>4. ObjectOf(w) = CheckAssert(v, w.inst)
  BY DEF ObjectOf
<1>5. ObjectOf(w) \in Expected(v)
  BY <1>2, <1>3, <1>4, AssertShape
<1>6. v = Static("expandCheck", v.mod, v.name) /\ v.kind = "expandCheck"
  BY <1>2, CheckShape
<1>7. ObjectOf(w).kind = "assert" /\ ObjectOf(w).inst = w.inst /\ Owner(ObjectOf(w)) = v
  BY <1>4, <1>6, AssertFields
<1>8. "data" \in Types(v)
  BY <1>1, <1>6 DEF Types
<1> QED BY <1>1, <1>2, <1>5, <1>7, <1>8

\* The check of an assertion, or around nested data, has its objects
\* reported when these execute.
LEMMA CheckReported ==
  ASSUME config \in Configs, GraphFits, WalkOrder, SubsFit, ObjectsReported, op \in {"plan", "apply"},
         NEW w \in DOMAIN status, NEW v,
         \/ w.kind = "assert" /\ v = Owner(w)
         \/ w.kind = "instance" /\ IsNested(w) /\ v = CheckAround(Owner(w))
  PROVE  v \in DOMAIN objects
<1>1. v \in CheckVertices /\ Owner(w) \in DOMAIN status
  BY VertexShape, ObjectOfShape, FixedShape DEF GraphFits
<1>2. CASE op = "apply"
  BY <1>1, <1>2 DEF ObjectsReported, CheckableVertices
<1>3. CASE op = "plan"
  <2>1. PICK c \in config.check : v.mod = c.mod /\ v.name = c.name /\ v = CheckOf(c)
    BY <1>1, CheckShape
  <2>2. Report(c) \in Waits(Owner(w))
    <3>1. CASE w.kind = "assert"
      <4>1. Owner(w) = CheckOf(c)
        BY <2>1, <3>1
      <4>2. <<Owner(w), Report(c)>> \in ReportEdges
        BY <4>1 DEF ReportEdges
      <4> QED BY <1>3, <4>2 DEF GraphFits, EdgesFit, Waits
    <3>2. CASE w.kind = "instance"
      <4>1. Owner(w) \in Nested /\ v = CheckAround(Owner(w))
        BY <3>2, ObjectOfShape DEF GraphFits
      <4>2. Owner(w).mod = v.mod
        BY <4>1, NestedShape
      <4>3. Report([mod |-> Owner(w).mod, name |-> v.name]) = Report(c)
        BY <2>1, <4>2 DEF Report
      <4>4. <<Owner(w), Report(c)>> \in ReportEdges
        BY <4>1, <4>3 DEF ReportEdges
      <4> QED BY <1>3, <4>4 DEF GraphFits, EdgesFit, Waits
    <3> QED BY <3>1, <3>2
  <2>3. Owner(w) \in Visited
    BY <1>1, <1>3 DEF SubsFit, Made, Visited
  <2>4. Report(c) \in DOMAIN status /\ status[Report(c)] = "done"
    BY <1>3, <2>2, <2>3 DEF GraphFits, VerticesFit, ReportVertices, WalkOrder
  <2> QED BY <2>1, <2>4 DEF ObjectsReported
<1> QED BY <1>2, <1>3

\* Results that are known are kept, and those that come to be known come
\* from who may report them.
Grows ==
  /\ DOMAIN objects \subseteq DOMAIN objects'
  /\ \A x \in DOMAIN result :
       x \in DOMAIN result' /\ (result[x] # "Unknown" => result'[x] = result[x])
  /\ \A x \in DOMAIN result' : result'[x] # "Unknown" =>
       \/ x \in DOMAIN result /\ result[x] # "Unknown"
       \/ x[2] # "data" /\ Tried(x[1])'
       \/ x[2] = "data" /\ \E w \in DOMAIN status :
            w.kind = "instance" /\ IsNested(w) /\ ObjectOf(w) = x[1] /\ Tried(w)'

\* Where new visits leave the checks as they have to.
LEMMA ChecksGrow ==
  ASSUME config \in Configs, config' = config, op' = op, op \in {"plan", "apply"},
         VerticesFit, ChecksFit, Onward, Grows, ObjectsFit', NoopFits',
         \A c \in config.check : Report(c) \in DOMAIN status' /\ status'[Report(c)] = "done" =>
           \/ CheckOf(c) \in DOMAIN objects'
           \/ Report(c) \in DOMAIN status /\ status[Report(c)] = "done",
         \A v \in Checked : status'[v] \in {"walking", "done"} =>
           op = "apply" \/ v \in DOMAIN objects' \/ status[v] \in {"walking", "done"},
         \A w \in DOMAIN status' : w.kind = "instance" /\ Owner(w) \in Checked =>
           Owner(w) \in DOMAIN objects' \/ w \in DOMAIN status,
         op = "apply" => \A w \in DOMAIN status' : status'[w] = "done" =>
           \/ w.kind \notin {"instance", "assert"}
           \/ w \in DOMAIN status /\ status[w] = "done"
           \/ Settled(w)'
  PROVE  ChecksFit'
<1>1. \A v, w : /\ Checked' = Checked /\ Data' = Data /\ (IsNested(w)' <=> IsNested(w))
                /\ ObjectOf(w)' = ObjectOf(w) /\ Types(w)' = Types(w)
                /\ CheckableVertices' = CheckableVertices
  BY ConfigKept
<1>2. ObjectsReported'
  <2>1. op = "apply" => CheckableVertices \subseteq DOMAIN objects'
    BY DEF ChecksFit, ObjectsReported, Grows
  <2>2. \A c \in config.check :
          Report(c) \in DOMAIN status' /\ status'[Report(c)] = "done" => CheckOf(c) \in DOMAIN objects'
    BY DEF ChecksFit, ObjectsReported, Grows
  <2>3. \A v \in Checked : status'[v] \in {"walking", "done"} => v \in DOMAIN objects'
    BY <2>1 DEF ChecksFit, ObjectsReported, Grows, CheckableVertices
  <2>4. \A w \in DOMAIN status' : w.kind = "instance" /\ Owner(w) \in Checked => Owner(w) \in DOMAIN objects'
    BY DEF ChecksFit, ObjectsReported, Grows
  <2> QED BY <1>1, <2>1, <2>2, <2>3, <2>4 DEF ObjectsReported
<1>3. ResultsFit'
  <2> SUFFICES ASSUME NEW x \in DOMAIN result', result'[x] # "Unknown"
               PROVE  \/ x[2] # "data" /\ Tried(x[1])'
                      \/ x[2] = "data" /\ \E w \in DOMAIN status' :
                           w.kind = "instance" /\ IsNested(w) /\ ObjectOf(w) = x[1] /\ Tried(w)'
    BY <1>1 DEF ResultsFit
  <2>1. \A w : Tried(w) => Tried(w)'
    BY DEF Tried, Onward
  <2>2. CASE x \in DOMAIN result /\ result[x] # "Unknown"
    BY <2>1, <2>2 DEF ChecksFit, ResultsFit, Onward
  <2> QED BY <2>2 DEF Grows, Onward
<1>4. Answered'
  <2> SUFFICES ASSUME op = "apply", NEW w \in DOMAIN status, w.kind \in {"instance", "assert"}, Settled(w)
               PROVE  Settled(w)'
    <3>1. \A w \in DOMAIN status' : w.kind \notin {"instance", "assert"} => Settled(w)'
      BY DEF Settled
    <3> QED BY <3>1 DEF Answered, ChecksFit
  <2>1. ASSUME NEW x \in DOMAIN result, result[x] # "Unknown"
       PROVE result'[x] # "Unknown" /\ result'[x] = result[x]
    BY <2>1 DEF Grows
  <2>2. CheckableVertices \subseteq DOMAIN objects /\ ObjectsFit
    BY DEF ChecksFit, ObjectsReported
  <2>3. ASSUME w.kind = "instance", Owner(w) \in Checked \ Data, NEW t \in {"pre", "post"}
        PROVE  result'[<<w, t>>] # "Unknown"
    <3>1. Owner(w) \in Resources /\ w \in Expected(Owner(w)) /\ Owner(w) \in DOMAIN objects
      BY <2>2, <2>3, VertexShape DEF CheckableVertices
    <3>2. t \in Types(Owner(w))
      BY <3>1, ResourceShape DEF Types
    <3> QED BY <2>1, <2>2, <2>3, <3>1, <3>2, ResultDomain DEF Settled
  <2>4. ASSUME w.kind = "instance", IsNested(w) PROVE result'[<<ObjectOf(w), "data">>] # "Unknown"
    <3>1. CheckAround(Owner(w)) \in DOMAIN objects
      BY <2>2, <2>4, ObjectOfShape DEF CheckableVertices
    <3>2. <<ObjectOf(w), "data">> \in DOMAIN result
      BY <2>2, <2>4, <3>1, ObjectOfShape, ResultDomain
    <3> QED BY <2>1, <2>4, <3>2 DEF Settled
  <2>5. ASSUME w.kind = "assert"
        PROVE  \/ result'[<<w, "assert">>] # "Unknown"
               \/ \E t \in Types(Owner(w)) : result'[<<w, t>>] \in {"Fail", "Error"}
    <3>1. Owner(w) \in CheckVertices /\ w \in Expected(Owner(w)) /\ Owner(w) \in DOMAIN objects
      BY <2>2, <2>5, VertexShape, FixedShape DEF CheckableVertices
    <3>2. "assert" \in Types(Owner(w))
      BY <3>1, CheckShape DEF Types
    <3>3. CASE result[<<w, "assert">>] # "Unknown"
      BY <2>1, <2>2, <3>1, <3>2, <3>3, ResultDomain
    <3>4. ASSUME NEW t \in Types(Owner(w)), result[<<w, t>>] \in {"Fail", "Error"}
          PROVE  result'[<<w, t>>] \in {"Fail", "Error"}
      BY <2>1, <2>2, <3>1, <3>4, ResultDomain
    <3> QED BY <2>5, <3>3, <3>4 DEF Settled
  <2> QED BY <1>1, <2>3, <2>4, <2>5 DEF Settled
<1> QED BY <1>2, <1>3, <1>4 DEF ChecksFit

\* Steps that report nothing and after which nobody owes a result.
LEMMA ChecksKept ==
  ASSUME config \in Configs, config' = config, op' = op, op \in {"plan", "apply"},
         VerticesFit, ChecksFit, Onward, UNCHANGED <<objects, result, noop>>,
         \A w \in DOMAIN status' :
           /\ w.kind = "instance" => w \in DOMAIN status
           /\ w.kind \in {"instance", "assert", "reportCheck"} /\ status'[w] = "done" =>
                w \in DOMAIN status /\ status[w] = "done"
           /\ op = "plan" /\ w \in Checked /\ status'[w] \in {"walking", "done"} =>
                status[w] \in {"walking", "done"}
  PROVE  ChecksFit'
<1>1. Grows
  BY DEF Grows
<1>2. ObjectsFit'
  BY ConfigKept DEF ChecksFit, ObjectsFit
<1>3. NoopFits'
  BY ConfigKept DEF ChecksFit, NoopFits
<1>4. \A c : Report(c).kind = "reportCheck"
  BY StaticFields DEF Report
<1>5. Checked \subseteq DOMAIN status'
  BY DEF Onward, VerticesFit, ConfigVertices, Checked, Resources
<1>6. \A w \in DOMAIN status' : w.kind = "instance" => w \in DOMAIN status
  OBVIOUS
<1>7. \A w \in DOMAIN status' : w.kind \in {"instance", "assert", "reportCheck"} /\ status'[w] = "done" =>
                                  w \in DOMAIN status /\ status[w] = "done"
  OBVIOUS
<1>8. \A v \in Checked : status'[v] \in {"walking", "done"} => op = "apply" \/ status[v] \in {"walking", "done"}
  BY <1>5
<1> QED BY <1>1, <1>2, <1>3, <1>4, <1>6, <1>7, <1>8, ChecksGrow

\* The first report of the objects of v opens their results.
LEMMA ObjectsReport ==
  ASSUME config \in Configs, config' = config, ObjectsFit, NEW v \in CheckableVertices,
         ReportObjects(v, Expected(v))
  PROVE  ObjectsFit' /\ Grows /\ v \in DOMAIN objects'
<1>1. CASE v \in DOMAIN objects
  <2>1. objects' = objects /\ result' = result
    BY <1>1 DEF ReportObjects
  <2> QED BY <1>1, <2>1, ConfigKept DEF ObjectsFit, Grows
<1>2. CASE v \notin DOMAIN objects
  <2>1. /\ DOMAIN objects' = DOMAIN objects \cup {v} /\ objects'[v] = Expected(v)
        /\ \A u \in DOMAIN objects : objects'[u] = objects[u]
    <3> DEFINE f == [x \in {v} |-> Expected(v)]
    <3>1. DOMAIN f = {v} /\ f[v] = Expected(v)
      OBVIOUS
    <3>2. objects' = Merge(f, objects)
      BY <1>2 DEF ReportObjects
    <3> HIDE DEF f
    <3> QED BY <1>2, <3>1, <3>2 DEF Merge
  <2>2. Rules(v, Expected(v)) \cap DOMAIN result = {}
    <3> SUFFICES ASSUME NEW x \in Rules(v, Expected(v)), x \in DOMAIN result PROVE FALSE
      OBVIOUS
    <3>1. PICK u \in DOMAIN objects : x \in Rules(u, objects[u])
      BY DEF ObjectsFit
    <3>2. x[1] \in Expected(v) /\ x[1] \in Expected(u) /\ u \in CheckableVertices
      BY <3>1 DEF Rules, ObjectsFit
    <3> QED BY <1>2, <3>1, <3>2, ObjectShape
  <2>3. /\ DOMAIN result' = DOMAIN result \cup Rules(v, Expected(v))
        /\ \A x \in DOMAIN result : result'[x] = result[x]
        /\ \A x \in Rules(v, Expected(v)) : result'[x] = "Unknown"
    <3>1. DOMAIN Pending(v, Expected(v)) = Rules(v, Expected(v))
          /\ \A x \in Rules(v, Expected(v)) : Pending(v, Expected(v))[x] = "Unknown"
      BY DEF Pending
    <3>2. result' = Merge(Pending(v, Expected(v)), result)
      BY <1>2 DEF ReportObjects
    <3> QED BY <2>2, <3>1, <3>2 DEF Merge
  <2>4. Grows
    BY <2>1, <2>3 DEF Grows
  <2>5. ObjectsFit'
    <3>1. \A u, S : /\ Rules(u, S)' = Rules(u, S) /\ Expected(u)' = Expected(u)
                    /\ CheckableVertices' = CheckableVertices
      BY ConfigKept
    <3>2. DOMAIN objects' \subseteq CheckableVertices /\ \A u \in DOMAIN objects' : objects'[u] = Expected(u)
      BY <2>1 DEF ObjectsFit
    <3>3. DOMAIN result' = UNION {Rules(u, objects'[u]) : u \in DOMAIN objects'}
      <4>1. DOMAIN result = UNION {Rules(u, objects[u]) : u \in DOMAIN objects}
        BY DEF ObjectsFit
      <4> QED BY <1>2, <2>1, <2>3, <4>1
    <3>4. \A x \in DOMAIN result' : result'[x] \in Status
      BY <2>3 DEF ObjectsFit, Status
    <3> QED BY <3>1, <3>2, <3>3, <3>4 DEF ObjectsFit, Status
  <2> QED BY <2>1, <2>4, <2>5
<1> QED BY <1>1, <1>2

\* What is reported of an object that has no result of the kind yet.
LEMMA ReportsKept ==
  ASSUME config \in Configs, config' = config, ObjectsFit, NEW o, NEW f, Reports(o, f),
         \A t \in DOMAIN f : /\ t \in Types(Owner(o)) /\ f[t] \in Status
                             /\ Owner(o) \in DOMAIN objects /\ o \in Expected(Owner(o))
                             /\ result[<<o, t>>] = "Unknown"
  PROVE  /\ ~panicked' /\ ObjectsFit' /\ DOMAIN result' = DOMAIN result
         /\ UNCHANGED <<calls, expansion, objects>>
         /\ \A t \in DOMAIN f : result'[<<o, t>>] = f[t]
         /\ \A x \in DOMAIN result :
              \/ result'[x] = result[x]
              \/ x[1] = o /\ x[2] \in DOMAIN f /\ result[x] = "Unknown"
<1>1. UNCHANGED <<calls, expansion, objects>>
  BY DEF Reports
<1>2. \A t \in DOMAIN f : <<o, t>> \in DOMAIN result
  BY ResultDomain
<1>3. ~panicked'
  BY <1>2 DEF Reports, BadReport
<1>4. /\ DOMAIN result' = DOMAIN result
      /\ \A x \in {o} \X DOMAIN f : result'[x] = f[x[2]]
      /\ \A x \in DOMAIN result : x \notin {o} \X DOMAIN f => result'[x] = result[x]
  <2> DEFINE g == [x \in {o} \X DOMAIN f |-> f[x[2]]]
  <2>1. DOMAIN g = {o} \X DOMAIN f /\ \A x \in {o} \X DOMAIN f : g[x] = f[x[2]]
    OBVIOUS
  <2>2. result' = Merge(g, result)
    BY DEF Reports
  <2> HIDE DEF g
  <2>3. {o} \X DOMAIN f \subseteq DOMAIN result
    BY <1>2
  <2> QED BY <2>1, <2>2, <2>3 DEF Merge
<1>5. ASSUME NEW x \in {o} \X DOMAIN f
      PROVE  x = <<o, x[2]>> /\ x[1] = o /\ x[2] \in DOMAIN f
  OBVIOUS
<1>6. \A t \in DOMAIN f : result'[<<o, t>>] = f[t]
  <2> SUFFICES ASSUME NEW t \in DOMAIN f PROVE result'[<<o, t>>] = f[t]
    OBVIOUS
  <2>1. <<o, t>> \in {o} \X DOMAIN f /\ <<o, t>>[2] = t
    OBVIOUS
  <2> QED BY <1>4, <2>1
<1>7. ASSUME NEW x \in {o} \X DOMAIN f PROVE result[x] = "Unknown" /\ result'[x] \in Status
  <2>1. result[<<o, x[2]>>] = "Unknown" /\ f[x[2]] \in Status
    BY <1>5
  <2> QED BY <1>4, <1>5, <2>1
<1>8. ObjectsFit'
  <2>1. \A u, S : /\ Rules(u, S)' = Rules(u, S) /\ Expected(u)' = Expected(u)
                  /\ CheckableVertices' = CheckableVertices
    BY ConfigKept
  <2>2. \A x \in DOMAIN result' : result'[x] \in Status
    BY <1>4, <1>7 DEF ObjectsFit
  <2> QED BY <1>1, <1>4, <2>1, <2>2 DEF ObjectsFit, Status
<1> QED BY <1>1, <1>3, <1>4, <1>5, <1>6, <1>7, <1>8

-----------------------------------------------------------------------------
(* The steps, one by one.                                                  *)

\* A step that is no panic and keeps the invariant.
Stays == config' = config /\ op' = op /\ ~panicked' /\ Under'

\* A vertex takes its slot.
LEMMA AcquireStays ==
  ASSUME config \in Configs, Under, op \in {"plan", "apply"}, ~panicked,
         NEW v \in DOMAIN status, Acquire(v)
  PROVE  Stays
<1>1. UNCHANGED <<config, calls, expansion, objects, result, panicked, op, edges, noop>>
  BY DEF Acquire, registers
<1>2. Goes(v, "executing") /\ End(v, "executing")
  BY DEF Acquire, Goes
<1>3. GraphFits' /\ VisitsFit' /\ Onward
  BY <1>1, <1>2, VisitKeeps DEF Under
<1>4. DOMAIN status' = DOMAIN status /\ \A w \in DOMAIN status : status'[w] \in {"executing", status[w]}
  BY <1>2 DEF End
<1>5. ExpanderFits'
  <2>1. \A m \in config.module : Expander(m) \in DOMAIN status
    BY DEF Under, GraphFits, VerticesFit, ConfigVertices
  <2> QED BY <1>1, <1>3, <1>4, <2>1, ExpanderKept DEF Under, GraphFits
<1>6. ChecksFit'
  BY <1>1, <1>3, <1>4, ChecksKept DEF Under, GraphFits
<1> QED BY <1>1, <1>3, <1>5, <1>6 DEF Stays, Under

\* A vertex is skipped.
LEMMA SkipStays ==
  ASSUME config \in Configs, Under, op \in {"plan", "apply"}, ~panicked,
         NEW v \in DOMAIN status, Skip(v)
  PROVE  Stays
<1>1. UNCHANGED <<config, calls, expansion, objects, result, panicked, op, edges, noop>>
  BY DEF Skip, registers
<1>2. Goes(v, "skipped") /\ End(v, "skipped")
  BY DEF Skip, Goes
<1>3. GraphFits' /\ VisitsFit' /\ Onward
  BY <1>1, <1>2, VisitKeeps DEF Under
<1>4. DOMAIN status' = DOMAIN status /\ \A w \in DOMAIN status : status'[w] \in {"skipped", status[w]}
  BY <1>2 DEF End
<1>5. ExpanderFits'
  <2>1. \A m \in config.module : Expander(m) \in DOMAIN status
    BY DEF Under, GraphFits, VerticesFit, ConfigVertices
  <2> QED BY <1>1, <1>3, <1>4, <2>1, ExpanderKept DEF Under, GraphFits
<1>6. ChecksFit'
  BY <1>1, <1>3, <1>4, ChecksKept DEF Under, GraphFits
<1> QED BY <1>1, <1>3, <1>5, <1>6 DEF Stays, Under

\* What cannot have a result to report, nor a module to register.
LEMMA WalkerOf ==
  ASSUME config \in Configs, Under, NEW v \in DOMAIN status, Expands(v)
  PROVE  v \in Expandable /\ v \in Fixed /\ v.kind \in {"resource", "expandCheck"}
<1>1. v.kind \in {"resource", "expandCheck"}
  BY DEF Expands
<1>2. v \in Fixed
  BY <1>1, VertexShape DEF Under, GraphFits
<1> QED BY <1>1, <1>2, FixedShape DEF Expandable

\* The walk of a vertex's own graph ends.
LEMMA EndWalkStays ==
  ASSUME config \in Configs, Under, op \in {"plan", "apply"}, ~panicked,
         NEW v \in DOMAIN status, EndWalk(v)
  PROVE  Stays
<1> DEFINE how == IF \A w \in Sub(v) : status[w] # "failed" THEN "done" ELSE "failed"
<1>1. UNCHANGED <<config, calls, expansion, objects, result, panicked, op, edges, noop>>
      /\ status[v] = "walking" /\ End(v, how) /\ how \in {"done", "failed"}
  BY DEF EndWalk, registers
<1>2. Goes(v, how)
  <2> SUFFICES ASSUME how = "done", NEW w \in Sub(v) PROVE status[w] = "done"
    BY <1>1 DEF Goes
  <2>1. status[w] \in Ended /\ status[w] # "failed"
    BY DEF EndWalk, Walked
  <2>2. w \in DOMAIN status /\ Made(w)
    BY DEF Sub, Made
  <2>3. status[w] # "skipped"
    BY <2>2 DEF Under, VisitsFit, SubsFit
  <2> QED BY <2>1, <2>3 DEF Ended
<1> HIDE DEF how
<1>3. GraphFits' /\ VisitsFit' /\ Onward
  BY <1>1, <1>2, VisitKeeps DEF Under
<1>4. DOMAIN status' = DOMAIN status /\ \A w \in DOMAIN status : w # v => status'[w] = status[w]
  BY <1>1 DEF End
<1>5. Expands(v)
  BY <1>1 DEF Under, VisitsFit, StatusFits
<1>6. v.kind \in {"resource", "expandCheck"}
  BY <1>5, WalkerOf
<1>7. ExpanderFits'
  <2>1. \A m \in config.module : Expander(m) \in DOMAIN status /\ Expander(m) # v
    BY <1>6, ModuleVertexFields DEF Under, GraphFits, VerticesFit, ConfigVertices
  <2> QED BY <1>1, <1>3, <1>4, <2>1, ExpanderKept DEF Under, GraphFits
<1>8. ChecksFit'
  BY <1>1, <1>3, <1>4, <1>6, ChecksKept DEF Under, GraphFits
<1> QED BY <1>1, <1>3, <1>7, <1>8 DEF Stays, Under

\* A check makes a graph of its assertions.
LEMMA ExpandCheckStays ==
  ASSUME config \in Configs, Under, op \in {"plan", "apply"}, ~panicked,
         NEW v \in DOMAIN status, ExpandCheck(v)
  PROVE  Stays
<1>1. UNCHANGED <<config, calls, expansion, objects, result, op, edges, noop>>
      /\ Ready(v) /\ v.kind = "expandCheck" /\ Expands(v) /\ Walk(v, AssertsOf(v))
      /\ panicked' = Unexpanded(v.mod)
  BY DEF ExpandCheck, registers, Expands
<1>2. v \in CheckVertices /\ v \in Expandable /\ v \in Fixed
  BY <1>1, WalkerOf, FixedShape
<1>3. Opened(v.mod)
  BY <1>1, <1>2, ModuleOpened DEF Under, Ready
<1>4. ExpandModule(v.mod) = ModuleInstances(v.mod) /\ ~Unexpanded(v.mod)
  BY <1>3, OpenedModule DEF Under, VisitsFit, ExpanderFits
<1>5. AssertsOf(v) = Expected(v)
  BY <1>1, <1>4 DEF AssertsOf, Expected
<1>6. /\ GraphFits' /\ VisitsFit' /\ Onward
      /\ DOMAIN status' = DOMAIN status \cup Expected(v)
      /\ \A w \in Expected(v) : status'[w] = "pending"
      /\ status'[v] = "walking"
      /\ \A w \in DOMAIN status : w # v => status'[w] = status[w]
  BY <1>1, <1>2, <1>5, WalkKeeps DEF Under
<1>7. ExpanderFits'
  <2>1. \A m \in config.module : Expander(m) \in DOMAIN status /\ Expander(m) # v
    BY <1>1, ModuleVertexFields DEF Under, GraphFits, VerticesFit, ConfigVertices
  <2> QED BY <1>1, <1>6, <2>1, ExpanderKept DEF Under, GraphFits
<1>8. ChecksFit'
  <2>1. \A w \in Expected(v) : w.kind = "assert"
    BY <1>2, AssertShape
  <2>2. \A w \in Checked : w.kind = "resource"
    BY ResourceShape DEF Checked, Resources
  <2>3. \A w \in DOMAIN status' :
           /\ w.kind = "instance" => w \in DOMAIN status
           /\ w.kind \in {"instance", "assert", "reportCheck"} /\ status'[w] = "done" =>
                w \in DOMAIN status /\ status[w] = "done"
           /\ op = "plan" /\ w \in Checked /\ status'[w] \in {"walking", "done"} =>
                status[w] \in {"walking", "done"}
    BY <1>1, <1>6, <2>1, <2>2
  <2> QED BY <1>1, <1>6, <2>3, ChecksKept DEF Under, GraphFits
<1> QED BY <1>1, <1>4, <1>6, <1>7, <1>8 DEF Stays, Under

\* A resource is registered, and in a plan makes a graph of its instances.
LEMMA ExpandResourceStays ==
  ASSUME config \in Configs, Under, op \in {"plan", "apply"}, ~panicked,
         NEW v \in DOMAIN status, ExpandResource(v)
  PROVE  Stays
<1> DEFINE modules == ExpandModule(v.mod)
<1>1. UNCHANGED <<config, calls, op, edges, noop>> /\ Ready(v) /\ v.kind = "resource" /\ Expands(v)
      /\ panicked' = (Unexpanded(v.mod) \/ Registered(expansion, modules, v.name))
  BY DEF ExpandResource
<1>2. PICK M \in SUBSET modules :
        /\ expansion' = Expand(expansion, M, v.name)
        /\ IF M = modules
           THEN /\ Walk(v, InstancesOf(v))
                /\ IF v \in Checked THEN ReportObjects(v, InstancesOf(v))
                   ELSE UNCHANGED <<objects, result>>
           ELSE End(v, "failed") /\ UNCHANGED <<objects, result>>
  BY DEF ExpandResource
<1>3. v \in Resources /\ v \in Expandable /\ v \in Fixed
  BY <1>1, WalkerOf, FixedShape
<1>4. Opened(v.mod)
  BY <1>1, <1>3, ModuleOpened DEF Under, Ready
<1>5. ExpandModule(v.mod) = ModuleInstances(v.mod)
  BY <1>4, OpenedModule DEF Under, VisitsFit, ExpanderFits
<1>6. InstancesOf(v) = Expected(v)
  BY <1>1, <1>5 DEF InstancesOf, Expected
<1>7. \A m \in config.module : Expander(m) \in DOMAIN status /\ Expander(m) # v
  BY <1>1, ModuleVertexFields DEF Under, GraphFits, VerticesFit, ConfigVertices
<1>8. CASE M # modules
  <2>1. End(v, "failed") /\ UNCHANGED <<objects, result>>
    BY <1>2, <1>8
  <2>2. Goes(v, "failed")
    BY <1>1 DEF Goes
  <2>3. GraphFits' /\ VisitsFit' /\ Onward
    BY <1>1, <2>1, <2>2, VisitKeeps DEF Under
  <2>4. /\ DOMAIN status' = DOMAIN status /\ status'[v] = "failed"
        /\ \A w \in DOMAIN status : w # v => status'[w] = status[w]
    BY <2>1 DEF End
  <2>5. ExpanderFits' /\ ~Unexpanded(v.mod) /\ ~Registered(expansion, modules, v.name)
    BY <1>1, <1>2, <1>3, <1>4, <1>7, <2>3, <2>4, ResourceRegisters DEF Under, VisitsFit, Ready
  <2>6. ChecksFit'
    BY <1>1, <2>1, <2>3, <2>4, ChecksKept DEF Under, GraphFits
  <2> QED BY <1>1, <2>3, <2>5, <2>6 DEF Stays, Under
<1>9. CASE M = modules
  <2>1. /\ Walk(v, Expected(v))
       /\ IF v \in Checked THEN ReportObjects(v, Expected(v)) ELSE UNCHANGED <<objects, result>>
    BY <1>2, <1>6, <1>9
  <2>2. /\ GraphFits' /\ VisitsFit' /\ Onward
        /\ DOMAIN status' = DOMAIN status \cup Expected(v)
        /\ \A w \in Expected(v) : status'[w] = "pending" /\ Owner(w) = v
        /\ status'[v] = "walking"
        /\ \A w \in DOMAIN status : w # v => status'[w] = status[w]
    BY <1>1, <1>3, <2>1, WalkKeeps DEF Under
  <2>3. ExpanderFits' /\ ~Unexpanded(v.mod) /\ ~Registered(expansion, modules, v.name)
    BY <1>1, <1>2, <1>3, <1>4, <1>7, <2>2, ResourceRegisters DEF Under, VisitsFit, Ready
  <2>4. ObjectsFit' /\ Grows /\ (v \in Checked => v \in DOMAIN objects')
    <3>1. CASE v \in Checked
      <4>1. v \in CheckableVertices
        BY <3>1 DEF CheckableVertices
      <4> QED BY <1>1, <2>1, <3>1, <4>1, ObjectsReport DEF Under, ChecksFit
    <3>2. CASE v \notin Checked
      BY <1>1, <2>1, <3>2, ConfigKept DEF Under, ChecksFit, ObjectsFit, Grows
    <3> QED BY <3>1, <3>2
  <2>5. NoopFits'
    BY <1>1, ConfigKept DEF Under, ChecksFit, NoopFits
  <2>6. Checked \subseteq DOMAIN status
    BY DEF Under, GraphFits, VerticesFit, ConfigVertices, Checked, Resources
  <2>7. /\ \A c \in config.check : Report(c) \in DOMAIN status' /\ status'[Report(c)] = "done" =>
             Report(c) \in DOMAIN status /\ status[Report(c)] = "done"
        /\ \A x \in Checked : status'[x] \in {"walking", "done"} =>
             x \in DOMAIN objects' \/ status[x] \in {"walking", "done"}
        /\ \A w \in DOMAIN status' : w.kind = "instance" /\ Owner(w) \in Checked =>
             Owner(w) \in DOMAIN objects' \/ w \in DOMAIN status
        /\ \A w \in DOMAIN status' : status'[w] = "done" => w \in DOMAIN status /\ status[w] = "done"
    BY <2>2, <2>4, <2>6
  <2>8. ChecksFit'
    BY <1>1, <2>2, <2>4, <2>5, <2>7, ChecksGrow DEF Under, GraphFits
  <2> QED BY <1>1, <2>2, <2>3, <2>8 DEF Stays, Under
<1> QED BY <1>8, <1>9

\* What the steps of a vertex that executes have in common.
LEMMA Executing ==
  ASSUME config \in Configs, Under, op \in {"plan", "apply"}, NEW v \in DOMAIN status,
         status[v] = "executing", config' = config, op' = op, edges' = edges,
         NEW how \in {"done", "failed"}, End(v, how)
  PROVE  /\ GraphFits' /\ VisitsFit' /\ Onward /\ ~Expands(v)
         /\ DOMAIN status' = DOMAIN status /\ status'[v] = how
         /\ \A w \in DOMAIN status : w # v => status'[w] = status[w]
         /\ \A w \in Waits(v) : status[w] = "done"
         /\ v.kind # "expandModule" =>
              \A m \in config.module : status'[Expander(m)] = "done" => status[Expander(m)] = "done"
<1>1. Goes(v, how)
  BY DEF Goes
<1>2. GraphFits' /\ VisitsFit' /\ Onward
  BY <1>1, VisitKeeps DEF Under
<1>3. /\ DOMAIN status' = DOMAIN status /\ status'[v] = how
      /\ \A w \in DOMAIN status : w # v => status'[w] = status[w]
  BY DEF End
<1>4. ~Expands(v)
  BY DEF Under, VisitsFit, StatusFits
<1>5. \A w \in Waits(v) : status[w] = "done"
  BY DEF Under, VisitsFit, WalkOrder, Visited
<1>6. \A m \in config.module : Expander(m) \in DOMAIN status /\ Expander(m).kind = "expandModule"
  BY ModuleVertexFields DEF Under, GraphFits, VerticesFit, ConfigVertices
<1> QED BY <1>2, <1>3, <1>4, <1>5, <1>6

\* The expansion of a module is executed.
LEMMA ExpanderStays ==
  ASSUME config \in Configs, Under, op \in {"plan", "apply"}, ~panicked, UNCHANGED <<config, op, edges>>,
         NEW v \in DOMAIN status, status[v] = "executing", ExecuteExpander(v)
  PROVE  Stays
<1> DEFINE m == v.mod
           parents == ExpandModule(Front(m))
<1>1. v.kind = "expandModule" /\ UNCHANGED <<expansion, objects, result, noop>>
  BY DEF ExecuteExpander
<1>2. PICK M \in SUBSET parents :
        /\ calls' = Expand(calls, M, Last(m))
        /\ End(v, IF M = parents THEN "done" ELSE "failed")
        /\ panicked' = (Unexpanded(Front(m)) \/ Registered(calls, M, Last(m)))
  BY DEF ExecuteExpander
<1> DEFINE how == IF M = parents THEN "done" ELSE "failed"
<1>3. how \in {"done", "failed"} /\ (how = "done" => M = parents) /\ End(v, how)
  BY <1>2
<1> HIDE DEF how
<1>4. v \in Fixed /\ m \in config.module /\ v = Expander(m)
  BY <1>1, VertexShape, FixedShape DEF Under, GraphFits
<1>5. /\ GraphFits' /\ VisitsFit' /\ Onward /\ DOMAIN status' = DOMAIN status
      /\ \A w \in DOMAIN status : w # v => status'[w] = status[w]
      /\ \A w \in Waits(v) : status[w] = "done"
  BY <1>3, Executing
<1>6. Opened(Front(m))
  BY <1>1, <1>4, <1>5, ModuleOpened DEF Under
<1>7. ExpanderFits' /\ ~Unexpanded(Front(m)) /\ ~Registered(calls, M, Last(m))
  BY <1>1, <1>2, <1>3, <1>4, <1>5, <1>6, CallRegisters DEF Under, VisitsFit
<1>8. ChecksFit'
  <2>1. v \notin Checked
    BY <1>1, ResourceShape DEF Checked, Resources
  <2> QED BY <1>1, <1>5, <2>1, ChecksKept DEF Under, GraphFits
<1> QED BY <1>2, <1>5, <1>7, <1>8 DEF Stays, Under

\* A resource is registered in an apply.
LEMMA ResourceStays ==
  ASSUME config \in Configs, Under, op \in {"plan", "apply"}, ~panicked, UNCHANGED <<config, op, edges>>,
         NEW v \in DOMAIN status, status[v] = "executing", ExecuteResource(v)
  PROVE  Stays
<1> DEFINE modules == ExpandModule(v.mod)
<1>1. v.kind = "resource" /\ UNCHANGED <<calls, objects, result, noop>>
      /\ panicked' = (Unexpanded(v.mod) \/ Registered(expansion, modules, v.name))
  BY DEF ExecuteResource
<1>2. PICK M \in SUBSET modules :
        /\ expansion' = Expand(expansion, M, v.name)
        /\ End(v, IF M = modules THEN "done" ELSE "failed")
  BY DEF ExecuteResource
<1> DEFINE how == IF M = modules THEN "done" ELSE "failed"
<1>3. how \in {"done", "failed"} /\ End(v, how)
  BY <1>2
<1> HIDE DEF how
<1>4. v \in Fixed /\ v \in Resources
  BY <1>1, VertexShape, FixedShape DEF Under, GraphFits
<1>5. /\ GraphFits' /\ VisitsFit' /\ Onward /\ DOMAIN status' = DOMAIN status /\ status'[v] = how
      /\ \A w \in DOMAIN status : w # v => status'[w] = status[w]
      /\ \A w \in Waits(v) : status[w] = "done"
      /\ \A m \in config.module : status'[Expander(m)] = "done" => status[Expander(m)] = "done"
      /\ ~Expands(v)
  BY <1>1, <1>3, Executing
<1>6. Opened(v.mod)
  BY <1>1, <1>4, <1>5, ModuleOpened DEF Under
<1>7. ExpanderFits' /\ ~Unexpanded(v.mod) /\ ~Registered(expansion, modules, v.name)
  BY <1>1, <1>2, <1>3, <1>4, <1>5, <1>6, ResourceRegisters DEF Under, VisitsFit
<1>8. ChecksFit'
  <2>1. op # "plan"
    BY <1>1, <1>5 DEF Expands
  <2> QED BY <1>1, <1>5, <2>1, ChecksKept DEF Under, GraphFits
<1> QED BY <1>1, <1>5, <1>7, <1>8 DEF Stays, Under

\* The closer of a module, and the start of the checks.
LEMMA NothingStays ==
  ASSUME config \in Configs, Under, op \in {"plan", "apply"}, ~panicked, UNCHANGED <<config, op, edges>>,
         NEW v \in DOMAIN status, status[v] = "executing", ExecuteNothing(v)
  PROVE  Stays
<1>1. /\ v.kind \in {"closeModule", "checkStart"} /\ End(v, "done")
      /\ UNCHANGED <<calls, expansion, objects, result, panicked, noop>>
  BY DEF ExecuteNothing, registers
<1>2. /\ GraphFits' /\ VisitsFit' /\ Onward /\ DOMAIN status' = DOMAIN status
      /\ \A w \in DOMAIN status : w # v => status'[w] = status[w]
      /\ \A m \in config.module : status'[Expander(m)] = "done" => status[Expander(m)] = "done"
  BY <1>1, Executing
<1>3. ExpanderFits'
  BY <1>1, <1>2, ExpanderKept DEF Under, GraphFits
<1>4. ChecksFit'
  <2>1. v \notin Checked
    BY <1>1, ResourceShape DEF Checked, Resources
  <2> QED BY <1>1, <1>2, <2>1, ChecksKept DEF Under, GraphFits
<1> QED BY <1>1, <1>2, <1>3, <1>4 DEF Stays, Under

\* The objects of a check are reported.
LEMMA ReportStays ==
  ASSUME config \in Configs, Under, op \in {"plan", "apply"}, ~panicked, UNCHANGED <<config, op, edges>>,
         NEW v \in DOMAIN status, status[v] = "executing", ExecuteReport(v)
  PROVE  Stays
<1> DEFINE k == Static("expandCheck", v.mod, v.name)
<1>1. /\ v.kind = "reportCheck" /\ End(v, "done") /\ panicked' = Unexpanded(v.mod)
      /\ ReportObjects(k, AssertsOf(k)) /\ UNCHANGED <<calls, expansion, noop>>
  BY DEF ExecuteReport
<1>2. /\ GraphFits' /\ VisitsFit' /\ Onward /\ DOMAIN status' = DOMAIN status
      /\ \A w \in DOMAIN status : w # v => status'[w] = status[w]
      /\ \A m \in config.module : status'[Expander(m)] = "done" => status[Expander(m)] = "done"
      /\ \A w \in Waits(v) : status[w] = "done"
  BY <1>1, Executing
<1>3. PICK c \in config.check : v = Report(c) /\ v.mod = c.mod /\ v.name = c.name
  BY <1>1, VertexShape, FixedShape DEF Under, GraphFits
<1>4. v \in Fixed
  BY <1>3 DEF Fixed, ReportVertices
<1>5. Opened(v.mod)
  BY <1>1, <1>2, <1>4, ModuleOpened DEF Under
<1>6. ExpandModule(v.mod) = ModuleInstances(v.mod) /\ ~Unexpanded(v.mod)
  BY <1>5, OpenedModule DEF Under, VisitsFit, ExpanderFits
<1>7. k = CheckOf(c) /\ k \in CheckableVertices /\ k.kind = "expandCheck" /\ k.mod = v.mod
  BY <1>3, StaticFields DEF CheckOf, CheckVertices, CheckableVertices
<1>8. AssertsOf(k) = Expected(k)
  BY <1>6, <1>7 DEF AssertsOf, Expected
<1>9. ObjectsFit' /\ Grows /\ k \in DOMAIN objects'
  BY <1>1, <1>7, <1>8, ObjectsReport DEF Under, ChecksFit
<1>10. ExpanderFits'
  BY <1>1, <1>2, ExpanderKept DEF Under, GraphFits
<1>11. ChecksFit'
  <2>1. v \notin Checked
    BY <1>1, ResourceShape DEF Checked, Resources
  <2>2. \A e \in config.check : Report(e) = v => CheckOf(e) = k
    BY StaticFields DEF Report, CheckOf
  <2>3. NoopFits'
    BY <1>1, ConfigKept DEF Under, ChecksFit, NoopFits
  <2>4. /\ \A e \in config.check : Report(e) \in DOMAIN status' /\ status'[Report(e)] = "done" =>
             \/ CheckOf(e) \in DOMAIN objects'
             \/ Report(e) \in DOMAIN status /\ status[Report(e)] = "done"
        /\ \A x \in Checked : status'[x] \in {"walking", "done"} => status[x] \in {"walking", "done"}
        /\ \A w \in DOMAIN status' : w \in DOMAIN status
        /\ \A w \in DOMAIN status' : status'[w] = "done" =>
             w.kind \notin {"instance", "assert"} \/ (w \in DOMAIN status /\ status[w] = "done")
    <3>1. Checked \subseteq DOMAIN status
      BY DEF Under, GraphFits, VerticesFit, ConfigVertices, Checked, Resources
    <3> QED BY <1>1, <1>2, <1>9, <2>1, <2>2, <3>1
  <2> QED BY <1>1, <1>2, <1>9, <2>3, <2>4, ChecksGrow DEF Under, GraphFits
<1> QED BY <1>1, <1>2, <1>6, <1>10, <1>11 DEF Stays, Under

\* An instance or an assertion that has executed: it reports what nobody
\* has, and in an apply all it has to.
LEMMA Reporting ==
  ASSUME config \in Configs, Under, op \in {"plan", "apply"}, UNCHANGED <<config, op, edges>>,
         NEW v \in DOMAIN status, status[v] = "executing", v.kind \in {"instance", "assert"},
         NEW how \in {"done", "failed"}, End(v, how), NEW o, NEW f, Reports(o, f),
         \A t \in DOMAIN f :
           /\ t \in Types(Owner(o)) /\ f[t] \in Status
           /\ Owner(o) \in DOMAIN objects /\ o \in Expected(Owner(o))
           /\ result[<<o, t>>] = "Unknown"
           /\ \/ t # "data" /\ o = v
              \/ t = "data" /\ v.kind = "instance" /\ IsNested(v) /\ o = ObjectOf(v),
         NoopFits', op = "apply" /\ how = "done" => Settled(v)'
  PROVE  Stays
<1>1. /\ GraphFits' /\ VisitsFit' /\ Onward /\ DOMAIN status' = DOMAIN status /\ status'[v] = how
      /\ \A w \in DOMAIN status : w # v => status'[w] = status[w]
      /\ \A m \in config.module : status'[Expander(m)] = "done" => status[Expander(m)] = "done"
  BY Executing
<1>2. \A t \in DOMAIN f : /\ t \in Types(Owner(o)) /\ f[t] \in Status
                          /\ Owner(o) \in DOMAIN objects /\ o \in Expected(Owner(o))
                          /\ result[<<o, t>>] = "Unknown"
  OBVIOUS
<1>3. /\ ~panicked' /\ ObjectsFit' /\ DOMAIN result' = DOMAIN result
      /\ UNCHANGED <<calls, expansion, objects>>
      /\ \A x \in DOMAIN result :
           \/ result'[x] = result[x]
           \/ x[1] = o /\ x[2] \in DOMAIN f /\ result[x] = "Unknown"
  BY <1>2, ReportsKept DEF Under, ChecksFit
<1>4. Tried(v)'
  BY <1>1 DEF Tried
<1>5. Grows
  <2>1. ASSUME NEW x \in DOMAIN result', result'[x] # "Unknown"
        PROVE  \/ x \in DOMAIN result /\ result[x] # "Unknown"
               \/ x[2] # "data" /\ Tried(x[1])'
               \/ x[2] = "data" /\ \E w \in DOMAIN status :
                    w.kind = "instance" /\ IsNested(w) /\ ObjectOf(w) = x[1] /\ Tried(w)'
    <3>1. CASE result'[x] = result[x]
      BY <1>3, <2>1, <3>1
    <3>2. CASE x[1] = o /\ x[2] \in DOMAIN f
      <4>1. \/ x[2] # "data" /\ x[1] = v
            \/ x[2] = "data" /\ v.kind = "instance" /\ IsNested(v) /\ x[1] = ObjectOf(v)
        BY <3>2
      <4> QED BY <1>4, <4>1
    <3> QED BY <1>3, <3>1, <3>2
  <2>2. \A x \in DOMAIN result : result[x] # "Unknown" => result'[x] = result[x]
    BY <1>3
  <2> QED BY <1>3, <2>1, <2>2 DEF Grows
<1>6. ExpanderFits'
  BY <1>1, <1>3, ExpanderKept DEF Under, GraphFits
<1>7. ChecksFit'
  <2>1. v \notin Checked /\ v.kind # "reportCheck"
    BY ResourceShape DEF Checked, Resources
  <2>2. \A c \in config.check : Report(c).kind = "reportCheck"
    BY StaticFields DEF Report
  <2>3. Checked \subseteq DOMAIN status
    BY DEF Under, GraphFits, VerticesFit, ConfigVertices, Checked, Resources
  <2>4. /\ \A c \in config.check : Report(c) \in DOMAIN status' /\ status'[Report(c)] = "done" =>
             Report(c) \in DOMAIN status /\ status[Report(c)] = "done"
        /\ \A x \in Checked : status'[x] \in {"walking", "done"} => status[x] \in {"walking", "done"}
        /\ \A w \in DOMAIN status' : w \in DOMAIN status
        /\ op = "apply" => \A w \in DOMAIN status' : status'[w] = "done" =>
             (w \in DOMAIN status /\ status[w] = "done") \/ Settled(w)'
    BY <1>1, <2>1, <2>2, <2>3
  <2> QED BY <1>1, <1>3, <1>5, <2>4, ChecksGrow DEF Under, GraphFits
<1> QED BY <1>1, <1>3, <1>6, <1>7 DEF Stays, Under

\* One status for one type of checks.
LEMMA OnlyOne == \A t, s : DOMAIN Only(t, s) = {t} /\ Only(t, s)[t] = s
BY DEF Only

\* Nothing to report.
LEMMA NothingReported == DOMAIN <<>> = {}
OBVIOUS

\* What an instance with conditions reports.
LEMMA ConditionsReported ==
  ASSUME NEW v, Owner(v) \in Checked, NEW x \in InstanceOutcomes(v)
  PROVE  /\ x[2] \in {"done", "failed"} /\ DOMAIN x[1] \subseteq {"pre", "post"}
         /\ \A t \in DOMAIN x[1] : x[1][t] \in Status
         /\ op = "apply" /\ x[2] = "done" =>
              \A t \in {"pre", "post"} : t \in DOMAIN x[1] /\ x[1][t] # "Unknown"
<1>1. Outcomes \subseteq Status /\ (op = "apply" => Outcomes \subseteq {"Pass", "Fail"})
  BY DEF Outcomes, Status
<1>2. CASE x = << <<>>, "failed">>
  <2>1. x[1] = <<>> /\ x[2] = "failed"
    BY <1>2
  <2> QED BY <2>1, NothingReported
<1>3. ASSUME NEW s \in Outcomes, x = <<Only("pre", s), "failed">>
      PROVE  DOMAIN x[1] = {"pre"} /\ x[1]["pre"] = s /\ x[2] = "failed"
  <2>1. x[1] = Only("pre", s) /\ x[2] = "failed"
    BY <1>3
  <2> QED BY <2>1, OnlyOne
<1>4. ASSUME NEW s \in Outcomes \ {"Fail"}, NEW t \in Outcomes,
             x = <<Merge(Only("pre", s), Only("post", t)), IF t = "Fail" THEN "failed" ELSE "done">>
      PROVE  /\ DOMAIN x[1] = {"pre", "post"} /\ x[1]["pre"] = s /\ x[1]["post"] = t
             /\ x[2] \in {"done", "failed"}
  <2>1. x[1] = Merge(Only("pre", s), Only("post", t)) /\ x[2] \in {"done", "failed"}
    BY <1>4
  <2> DEFINE f == Only("pre", s)
             g == Only("post", t)
  <2>2. DOMAIN f = {"pre"} /\ f["pre"] = s /\ DOMAIN g = {"post"} /\ g["post"] = t
    BY DEF Only
  <2>3. x[1] = Merge(f, g)
    BY <2>1
  <2> HIDE DEF f, g
  <2>4. DOMAIN x[1] = {"pre", "post"} /\ x[1]["pre"] = s /\ x[1]["post"] = t
    BY <2>2, <2>3 DEF Merge
  <2> QED BY <2>1, <2>4
<1>5. \/ x = << <<>>, "failed">>
      \/ \E s \in Outcomes : x = <<Only("pre", s), "failed">>
      \/ \E s \in Outcomes \ {"Fail"}, t \in Outcomes :
           x = <<Merge(Only("pre", s), Only("post", t)), IF t = "Fail" THEN "failed" ELSE "done">>
  BY DEF InstanceOutcomes
<1>6. ASSUME NEW s \in Outcomes, x = <<Only("pre", s), "failed">>
      PROVE  /\ x[2] \in {"done", "failed"} /\ DOMAIN x[1] \subseteq {"pre", "post"}
             /\ \A t \in DOMAIN x[1] : x[1][t] \in Status
             /\ x[2] # "done"
  BY <1>1, <1>3, <1>6
<1>7. ASSUME NEW s \in Outcomes \ {"Fail"}, NEW t \in Outcomes,
             x = <<Merge(Only("pre", s), Only("post", t)), IF t = "Fail" THEN "failed" ELSE "done">>
      PROVE  /\ x[2] \in {"done", "failed"} /\ DOMAIN x[1] \subseteq {"pre", "post"}
             /\ \A u \in DOMAIN x[1] : x[1][u] \in Status
             /\ op = "apply" => \A u \in {"pre", "post"} : u \in DOMAIN x[1] /\ x[1][u] # "Unknown"
  <2>1. op = "apply" => s # "Unknown" /\ t # "Unknown"
    BY <1>1
  <2> QED BY <1>1, <1>4, <1>7, <2>1
<1> QED BY <1>2, <1>5, <1>6, <1>7

\* An instance is planned or applied.
LEMMA InstanceStays ==
  ASSUME config \in Configs, Under, op \in {"plan", "apply"}, ~panicked, UNCHANGED <<config, op, edges>>,
         NEW v \in DOMAIN status, status[v] = "executing", ExecuteInstance(v)
  PROVE  Stays
<1>1. v.kind = "instance" /\ ~IsNested(v)
  BY DEF ExecuteInstance
<1>2. PICK x \in InstanceOutcomes(v) :
        /\ Reports(v, x[1]) /\ End(v, x[2])
        /\ \/ UNCHANGED noop
           \/ op = "plan" /\ x[2] = "done" /\ noop' = noop \cup {v}
  BY DEF ExecuteInstance
<1>3. NoopFits'
  BY <1>1, <1>2, ConfigKept DEF Under, ChecksFit, NoopFits
<1>4. Owner(v) \in Resources /\ v \in Expected(Owner(v))
  BY <1>1, VertexShape DEF Under, GraphFits
<1>5. IsNested(v)' <=> IsNested(v)
  BY ConfigKept
<1>6. CASE Owner(v) \notin Checked
  <2>1. x[1] = <<>> /\ x[2] \in {"done", "failed"}
    BY <1>6 DEF InstanceOutcomes
  <2>2. DOMAIN x[1] = {}
    BY <2>1, NothingReported
  <2>3. Settled(v)'
    BY <1>1, <1>5, <1>6, ConfigKept DEF Settled
  <2> QED BY <1>1, <1>2, <1>3, <2>1, <2>2, <2>3, Reporting
<1>7. CASE Owner(v) \in Checked
  <2>1. /\ x[2] \in {"done", "failed"} /\ DOMAIN x[1] \subseteq {"pre", "post"}
        /\ \A t \in DOMAIN x[1] : x[1][t] \in Status
        /\ op = "apply" /\ x[2] = "done" =>
             \A t \in {"pre", "post"} : t \in DOMAIN x[1] /\ x[1][t] # "Unknown"
    BY <1>7, ConditionsReported
  <2>2. Types(Owner(v)) = {"pre", "post"}
    BY <1>4, ResourceShape DEF Types
  <2>3. Owner(v) \in DOMAIN objects
    BY <1>1, <1>7 DEF Under, ChecksFit, ObjectsReported
  <2>4. ASSUME NEW t \in {"pre", "post"} PROVE result[<<v, t>>] = "Unknown"
    <3>1. <<v, t>> \in DOMAIN result
      BY <1>4, <2>2, <2>3, ResultDomain DEF Under, ChecksFit
    <3>2. ~Tried(v) /\ <<v, t>>[1] = v /\ <<v, t>>[2] # "data"
      BY DEF Tried
    <3> QED BY <3>1, <3>2 DEF Under, ChecksFit, ResultsFit
  <2>5. \A t \in DOMAIN x[1] :
           /\ t \in Types(Owner(v)) /\ x[1][t] \in Status
           /\ Owner(v) \in DOMAIN objects /\ v \in Expected(Owner(v))
           /\ result[<<v, t>>] = "Unknown"
           /\ t # "data" /\ v = v
    BY <1>4, <2>1, <2>2, <2>3, <2>4
  <2>6. \A t \in DOMAIN x[1] : result'[<<v, t>>] = x[1][t]
    BY <1>2, <2>5, ReportsKept DEF Under, ChecksFit
  <2>7. op = "apply" /\ x[2] = "done" => Settled(v)'
    BY <1>1, <1>5, <2>1, <2>6 DEF Settled
  <2> QED BY <1>1, <1>2, <1>3, <2>1, <2>5, <2>7, Reporting
<1> QED BY <1>6, <1>7

\* Data nested in a check is read.
LEMMA NestedStays ==
  ASSUME config \in Configs, Under, op \in {"plan", "apply"}, ~panicked, UNCHANGED <<config, op, edges>>,
         NEW v \in DOMAIN status, status[v] = "executing", ExecuteNested(v)
  PROVE  Stays
<1> DEFINE o == ObjectOf(v)
           k == CheckAround(Owner(v))
<1>1. v.kind = "instance" /\ IsNested(v) /\ noop' = noop
  BY DEF ExecuteNested
<1> DEFINE Read(f, how) == /\ Reports(o, f) /\ End(v, how) /\ how \in {"done", "failed"}
                           /\ \/ f = <<>> /\ (how = "done" => op = "plan")
                              \/ \E s \in {"Pass", "Fail"} : f = Only("data", s)
<1>2. PICK f, how : Read(f, how)
  <2>1. \/ Reports(o, <<>>) /\ End(v, "failed")
        \/ op = "plan" /\ Reports(o, <<>>) /\ End(v, "done")
        \/ Reports(o, Only("data", "Pass")) /\ End(v, "done")
        \/ Reports(o, Only("data", "Fail")) /\ End(v, "done")
    BY DEF ExecuteNested, ObjectOf
  <2>2. \/ Read(<<>>, "failed") \/ Read(<<>>, "done")
        \/ Read(Only("data", "Pass"), "done") \/ Read(Only("data", "Fail"), "done")
    BY <2>1
  <2> HIDE DEF Read
  <2> QED BY <2>2
<1>3. NoopFits'
  BY <1>1, ConfigKept DEF Under, ChecksFit, NoopFits
<1>4. /\ Owner(v) \in Nested /\ Owner(v) \in Resources /\ k \in CheckVertices /\ o \in Expected(k)
      /\ Owner(o) = k /\ o.kind = "assert" /\ o.inst = v.inst /\ "data" \in Types(k)
  BY <1>1, ObjectOfShape DEF Under, GraphFits
<1>5. k \in DOMAIN objects
  BY <1>1, CheckReported DEF Under, VisitsFit, ChecksFit
<1>6. result[<<o, "data">>] = "Unknown"
  <2> SUFFICES ASSUME result[<<o, "data">>] # "Unknown" PROVE FALSE
    OBVIOUS
  <2>1. <<o, "data">> \in DOMAIN result /\ <<o, "data">>[1] = o /\ <<o, "data">>[2] = "data"
    BY <1>4, <1>5, ResultDomain DEF Under, ChecksFit
  <2>2. PICK w \in DOMAIN status : w.kind = "instance" /\ IsNested(w) /\ ObjectOf(w) = o /\ Tried(w)
    BY <2>1 DEF Under, ChecksFit, ResultsFit
  <2>3. Owner(w) \in Nested /\ Owner(o) = CheckAround(Owner(w)) /\ o.inst = w.inst
    BY <2>2, ObjectOfShape DEF Under, GraphFits
  <2>4. Owner(w) = Owner(v)
    BY <1>4, <2>3, NestedShape
  <2>5. w \in Expected(Owner(v)) /\ v \in Expected(Owner(v))
    BY <1>1, <2>2, <2>4, VertexShape DEF Under, GraphFits
  <2>6. w.key = v.key
    <3>1. \E a \in Key : config.keys[Owner(v).name] = {a}
      BY <1>4, NestedShape
    <3>2. w.key \in config.keys[Owner(v).name] /\ v.key \in config.keys[Owner(v).name]
      BY <1>4, <2>5, InstanceShape
    <3> QED BY <3>1, <3>2
  <2>7. w = v
    <3>1. w = Instance(Owner(v), w.inst, w.key) /\ v = Instance(Owner(v), v.inst, v.key)
      BY <1>4, <2>5, InstanceShape
    <3>2. w.inst = v.inst
      BY <1>4, <2>3
    <3> QED BY <2>6, <3>1, <3>2
  <2> QED BY <2>2, <2>7 DEF Tried
<1>7. \A t \in DOMAIN f : t = "data" /\ f[t] \in {"Pass", "Fail"}
  BY <1>2, NothingReported DEF Only
<1>8. (\E s \in {"Pass", "Fail"} : f = Only("data", s)) => "data" \in DOMAIN f
  BY DEF Only
<1>9. \A t \in DOMAIN f :
        /\ t \in Types(Owner(o)) /\ f[t] \in Status
        /\ Owner(o) \in DOMAIN objects /\ o \in Expected(Owner(o))
        /\ result[<<o, t>>] = "Unknown"
        /\ t = "data" /\ v.kind = "instance" /\ IsNested(v) /\ o = ObjectOf(v)
  BY <1>1, <1>4, <1>5, <1>6, <1>7 DEF Status
<1>10. \A t \in DOMAIN f : result'[<<o, t>>] = f[t]
  BY <1>2, <1>9, ReportsKept DEF Under, ChecksFit
<1>11. ASSUME op = "apply", how = "done" PROVE Settled(v)'
  <2>1. "data" \in DOMAIN f
    BY <1>2, <1>8, <1>11
  <2>2. result'[<<o, "data">>] # "Unknown"
    BY <1>7, <1>10, <2>1
  <2>3. Owner(v) \in Data
    BY <1>4, NestedShape
  <2>4. ObjectOf(v)' = ObjectOf(v) /\ Data' = Data
    BY ConfigKept
  <2> QED BY <1>1, <2>2, <2>3, <2>4 DEF Settled
<1> QED BY <1>1, <1>2, <1>3, <1>9, <1>11, Reporting

\* The assertion of a check is evaluated.
LEMMA AssertStays ==
  ASSUME config \in Configs, Under, op \in {"plan", "apply"}, ~panicked, UNCHANGED <<config, op, edges>>,
         NEW v \in DOMAIN status, status[v] = "executing", ExecuteAssert(v)
  PROVE  Stays
<1>1. v.kind = "assert" /\ noop' = noop
  BY DEF ExecuteAssert
<1>2. Owner(v) \in CheckVertices /\ v \in Expected(Owner(v))
  BY <1>1, VertexShape, FixedShape DEF Under, GraphFits
<1>3. Owner(v) \in DOMAIN objects
  BY <1>1, CheckReported DEF Under, VisitsFit, ChecksFit
<1>4. "assert" \in Types(Owner(v))
  BY <1>2, CheckShape DEF Types
<1>5. <<v, "assert">> \in DOMAIN result /\ result[<<v, "assert">>] = "Unknown"
  <2>1. <<v, "assert">> \in DOMAIN result
    BY <1>2, <1>3, <1>4, ResultDomain DEF Under, ChecksFit
  <2>2. ~Tried(v) /\ <<v, "assert">>[1] = v /\ <<v, "assert">>[2] # "data"
    BY DEF Tried
  <2> QED BY <2>1, <2>2 DEF Under, ChecksFit, ResultsFit
<1>6. ~BadReport(v, "assert")
  BY <1>3, <1>5 DEF BadReport
<1> DEFINE Evaluated(f, how) == /\ Reports(v, f) /\ End(v, how) /\ how \in {"done", "failed"}
                                /\ \/ f = <<>> /\ ObjectStatus(v) \in {"Fail", "Error"}
                                   \/ \E s \in Outcomes \cup {"Error"} : f = Only("assert", s)
<1>7. PICK f, how : Evaluated(f, how)
  <2>1. CASE ObjectStatus(v) \in {"Fail", "Error"}
    <3>1. Evaluated(<<>>, "done")
      BY <1>6, <2>1 DEF ExecuteAssert
    <3> HIDE DEF Evaluated
    <3> QED BY <3>1
  <2>2. CASE ObjectStatus(v) \notin {"Fail", "Error"}
    <3>1. PICK s \in Outcomes \cup {"Error"} :
            Reports(v, Only("assert", s)) /\ End(v, IF s = "Error" THEN "failed" ELSE "done")
      BY <1>6, <2>2 DEF ExecuteAssert
    <3>2. Evaluated(Only("assert", s), "failed") \/ Evaluated(Only("assert", s), "done")
      BY <3>1
    <3> HIDE DEF Evaluated
    <3> QED BY <3>2
  <2> QED BY <2>1, <2>2
<1>8. NoopFits'
  BY <1>1, ConfigKept DEF Under, ChecksFit, NoopFits
<1>9. \A t \in DOMAIN f : t = "assert" /\ f[t] \in Outcomes \cup {"Error"}
  BY <1>7, NothingReported DEF Only
<1>10. Outcomes \subseteq Status /\ "Error" \in Status /\ (op = "apply" => "Unknown" \notin Outcomes)
  BY DEF Outcomes, Status
<1>11. \A t \in DOMAIN f :
        /\ t \in Types(Owner(v)) /\ f[t] \in Status
        /\ Owner(v) \in DOMAIN objects /\ v \in Expected(Owner(v))
        /\ result[<<v, t>>] = "Unknown"
        /\ t # "data" /\ v = v
  BY <1>2, <1>3, <1>4, <1>5, <1>9, <1>10
<1>12. /\ \A t \in DOMAIN f : result'[<<v, t>>] = f[t]
       /\ \A x \in DOMAIN result : result'[x] = result[x] \/ (x[1] = v /\ x[2] \in DOMAIN f)
  BY <1>7, <1>11, ReportsKept DEF Under, ChecksFit
<1>13. ASSUME op = "apply" PROVE Settled(v)'
  <2>1. Types(Owner(v))' = Types(Owner(v))
    BY ConfigKept
  <2>2. \/ result'[<<v, "assert">>] # "Unknown"
        \/ \E t \in Types(Owner(v)) : result'[<<v, t>>] \in {"Fail", "Error"}
    <3>1. CASE f = <<>> /\ ObjectStatus(v) \in {"Fail", "Error"}
      <4>1. PICK t \in Types(Owner(v)) : result[<<v, t>>] \in {"Fail", "Error"}
        BY <3>1 DEF ObjectStatus, Summarize
      <4>2. <<v, t>> \in DOMAIN result
        BY <1>2, <1>3, ResultDomain DEF Under, ChecksFit
      <4>3. result'[<<v, t>>] = result[<<v, t>>]
        BY <1>12, <3>1, <4>2, NothingReported
      <4> QED BY <4>1, <4>3
    <3>2. CASE \E s \in Outcomes \cup {"Error"} : f = Only("assert", s)
      <4>1. "assert" \in DOMAIN f /\ f["assert"] # "Unknown"
        BY <1>10, <1>13, <3>2 DEF Only
      <4> QED BY <1>12, <4>1
    <3> QED BY <1>7, <3>1, <3>2
  <2> QED BY <1>1, <2>1, <2>2 DEF Settled
<1> QED BY <1>1, <1>7, <1>8, <1>11, <1>13, Reporting

\* Whatever a visit does: it is no panic, and keeps the invariant.
LEMMA StepStays ==
  ASSUME config \in Configs, Under, op \in {"plan", "apply"}, ~panicked,
         NEW v \in DOMAIN status, Step(v)
  PROVE  Stays
<1>1. CASE Execute(v)
  BY <1>1, ExpanderStays, ResourceStays, ReportStays, NothingStays, InstanceStays, NestedStays,
     AssertStays DEF Execute
<1> QED BY <1>1, AcquireStays, SkipStays, ExpandResourceStays, ExpandCheckStays, EndWalkStays DEF Step

-----------------------------------------------------------------------------
(* The graphs.                                                             *)

\* The edges that keep a module together.
LEMMA ModuleEdgesFit ==
  ASSUME config \in Configs, NEW V, ConfigVertices \subseteq V, \A v \in V : v.mod \in Around
  PROVE  LET E == ModuleEdges(V)
         IN  /\ \A v \in V : v.mod # <<>> /\ v # Expander(v.mod) => <<v, Expander(v.mod)>> \in E
             /\ \A m \in config.module : Len(m) > 1 => <<Expander(m), Expander(Front(m))>> \in E
             /\ \A v \in V : v.mod # <<>> /\ ClosesAfter(v) => <<Closer(v.mod), v>> \in E
             /\ \A m \in config.module : \A j \in 1..(Len(m) - 1) :
                  <<Closer(SubSeq(m, 1, j)), Closer(m)>> \in E
             /\ \A e \in E : e[2] \in V /\ (e[1] \in V \/ e[1].kind \in {"expandModule", "closeModule"})
<1>1. \A m \in config.module :
        /\ Expander(m) \in V /\ Closer(m) \in V /\ Len(m) \in Nat \ {0}
        /\ (Len(m) > 1 => Front(m) \in config.module)
  BY ModulePaths DEF ConfigVertices
<1>2. \A v \in V : v.mod # <<>> => v.mod \in config.module
  BY DEF Around
<1>3. ASSUME NEW m \in config.module, NEW j \in 1..(Len(m) - 1)
      PROVE  <<Closer(SubSeq(m, 1, j)), Closer(m)>> \in ModuleEdges(V)
  <2>1. Len(m) > 1
    BY <1>1
  <2>2. <<Closer(SubSeq(m, 1, j)), Closer(m)>>
         \in {<<Closer(SubSeq(m, 1, i)), Closer(m)>> : i \in 1..(Len(m) - 1)}
    OBVIOUS
  <2> QED BY <2>1, <2>2 DEF ModuleEdges
<1>4. \A v \in V : v.mod # <<>> /\ v # Expander(v.mod) => <<v, Expander(v.mod)>> \in ModuleEdges(V)
  BY DEF ModuleEdges
<1>5. \A m \in config.module : Len(m) > 1 => <<Expander(m), Expander(Front(m))>> \in ModuleEdges(V)
  BY DEF ModuleEdges
<1>6. \A v \in V : v.mod # <<>> /\ ClosesAfter(v) => <<Closer(v.mod), v>> \in ModuleEdges(V)
  BY DEF ModuleEdges
<1>7. ASSUME NEW e \in ModuleEdges(V)
      PROVE  e[2] \in V /\ (e[1] \in V \/ e[1].kind \in {"expandModule", "closeModule"})
  <2>1. CASE e \in {<<v, Expander(v.mod)>> : v \in {v \in {v \in V : v.mod # <<>>} : v # Expander(v.mod)}}
    BY <1>1, <1>2, <2>1
  <2>2. CASE e \in {<<Expander(m), Expander(Front(m))>> : m \in {m \in config.module : Len(m) > 1}}
    BY <1>1, <2>2, ModuleVertexFields
  <2>3. CASE e \in {<<Closer(v.mod), v>> : v \in {v \in {v \in V : v.mod # <<>>} : ClosesAfter(v)}}
    BY <2>3, ModuleVertexFields
  <2>4. ASSUME NEW m \in config.module,
               e \in {<<Closer(SubSeq(m, 1, i)), Closer(m)>> : i \in 1..(Len(m) - 1)}
        PROVE  e[2] \in V /\ e[1].kind = "closeModule"
    <3>1. PICK i \in 1..(Len(m) - 1) : e = <<Closer(SubSeq(m, 1, i)), Closer(m)>>
      BY <2>4
    <3> QED BY <1>1, <3>1, ModuleVertexFields
  <2> QED BY <1>7, <2>1, <2>2, <2>3, <2>4 DEF ModuleEdges
<1> QED BY <1>3, <1>4, <1>5, <1>6, <1>7

\* What an edge of a reference joins.
LEMMA ReferenceEdgesFit ==
  ASSUME config \in Configs, NEW V, ConfigVertices \subseteq V, NEW e \in ReferenceEdges(V)
  PROVE  e[1] \in V /\ e[2] \in V
<1> DEFINE Of(x) == {x} \cup {v \in V : v.kind = "instance" /\ Owner(v) = x}
           refs == config.refs \cup {<<CheckAround(d), d>> : d \in Nested}
<1>1. e \in UNION {Of(r[1]) \X Of(r[2]) : r \in refs}
  BY DEF ReferenceEdges
<1>2. PICK r \in refs : e \in Of(r[1]) \X Of(r[2])
  BY <1>1
<1>3. config.refs \subseteq ConfigVertices \X ConfigVertices
  <2>1. WellFormed(config)
    BY ConfigsAssumption
  <2>2. config.refs \subseteq
          ({Resource(s) : s \in config.resource} \cup {CheckOf(x) : x \in config.check}
            \cup {Expander(m) : m \in config.module} \cup {Closer(m) : m \in config.module})
          \X ({Resource(s) : s \in config.resource} \cup {CheckOf(x) : x \in config.check}
            \cup {Expander(m) : m \in config.module} \cup {Closer(m) : m \in config.module})
    BY <2>1 DEF WellFormed
  <2> QED BY <2>2 DEF ConfigVertices, Resources, CheckVertices
<1>4. \A d \in Nested : CheckAround(d) \in ConfigVertices /\ d \in ConfigVertices
  BY NestedShape DEF ConfigVertices
<1>5. r[1] \in ConfigVertices /\ r[2] \in ConfigVertices
  BY <1>3, <1>4
<1>6. e[1] \in Of(r[1]) /\ e[2] \in Of(r[2])
  BY <1>2
<1> QED BY <1>5, <1>6

\* A vertex of the configuration is none of the others.
LEMMA ConfigIsFixed ==
  ASSUME config \in Configs, NEW v \in ConfigVertices \cup ReportVertices \cup {Start}
  PROVE  v \in Fixed /\ v.kind \notin {"instance", "assert"} /\ v.mod \in Around
BY FixedShape DEF Fixed

\* An edge of the graph is something to wait for.
LEMMA EdgeIsWait == \A v, w : <<v, w>> \in edges => w \in Waits(v)
BY DEF Waits

\* Before anything is visited, nothing of a graph that is made is there.
LEMMA NothingVisited ==
  ASSUME \A v \in DOMAIN status : status[v] = "pending" /\ ~Made(v),
         VerticesFit, StatusIsMap
  PROVE  VisitsFit
<1>1. Visited = {}
  BY DEF Visited
<1>2. StatusFits /\ WalkOrder
  BY <1>1 DEF StatusFits, WalkOrder
<1>3. SubsFit
  BY DEF SubsFit, VerticesFit, Expandable, ConfigVertices
<1>4. ClosersFit /\ AncestorsExpanded
  BY <1>1 DEF ClosersFit, AncestorsExpanded
<1> QED BY <1>2, <1>3, <1>4 DEF VisitsFit

\* An expander that nobody has told anything knows the root.
LEMMA NothingExpanded ==
  ASSUME calls = <<>>, expansion = <<>>, \A m \in config.module : status[Expander(m)] # "done"
  PROVE  ExpanderFits
<1>1. DOMAIN calls = {} /\ DOMAIN expansion = {}
  OBVIOUS
<1>2. Known = {<<>>}
  BY <1>1 DEF Known
<1>3. <<>> \in ModuleInstances(<<>>)
  BY RootInstance
<1>4. Names(<<>>) = <<>>
  BY <1>3, InstancePaths, EmptySeq DEF Path
<1>5. CallsFit
  BY <1>1, <1>2, <1>3, <1>4 DEF CallsFit
<1>6. ExpandersFit /\ ExpansionFits
  BY <1>1 DEF ExpandersFit, ExpansionFits
<1> QED BY <1>5, <1>6 DEF ExpanderFits

\* A plan begins with its graph.
LEMMA InitFits == Init => PlanWalkInv
<1> SUFFICES ASSUME Init PROVE PlanWalkInv
  OBVIOUS
<1> DEFINE V == ConfigVertices \cup ReportVertices
<1>1. /\ config \in Configs /\ calls = <<>> /\ expansion = <<>> /\ objects = <<>> /\ result = <<>>
      /\ ~panicked /\ op = "plan" /\ noop = {}
  BY DEF Init
<1>2. edges = ModuleEdges(V) \cup ReportEdges \cup ReferenceEdges(V)
  BY DEF Init, PlanGraph, ReportVertices
<1>3. DOMAIN status = V /\ \A v \in V : status[v] = "pending"
  BY DEF Init, PlanGraph, ReportVertices
<1>4. \A v \in V : v \in Fixed /\ v.kind \notin {"instance", "assert"} /\ v.mod \in Around
  BY <1>1, ConfigIsFixed
<1>5. VerticesFit
  BY <1>1, <1>3, <1>4 DEF VerticesFit
<1>6. EdgesFit
  <2>1. \A c \in config.check : Report(c) \in V /\ CheckOf(c) \in V
    BY DEF ReportVertices, ConfigVertices, CheckVertices
  <2>2. ASSUME NEW d \in Nested
        PROVE  d \in V /\ Report([mod |-> d.mod, name |-> CheckAround(d).name]) \in V
    <3>1. d \in Resources /\ CheckAround(d) \in CheckVertices /\ CheckAround(d).mod = d.mod
      BY <1>1, NestedShape
    <3>2. PICK c \in config.check : CheckAround(d).mod = c.mod /\ CheckAround(d).name = c.name
      BY <1>1, <3>1, CheckShape
    <3>3. Report([mod |-> d.mod, name |-> CheckAround(d).name]) = Report(c)
      BY <3>1, <3>2 DEF Report
    <3> QED BY <2>1, <3>1, <3>3 DEF ConfigVertices
  <2>3. ASSUME NEW e \in ReportEdges PROVE e[1] \in V /\ e[2] \in V
    <3>1. CASE e \in {<<CheckOf(c), Report(c)>> : c \in config.check}
      BY <2>1, <3>1
    <3>2. CASE e \in {<<d, Report([mod |-> d.mod, name |-> CheckAround(d).name])>> : d \in Nested}
      <4>1. PICK d \in Nested : e = <<d, Report([mod |-> d.mod, name |-> CheckAround(d).name])>>
        BY <3>2
      <4>2. e[1] = d /\ e[2] = Report([mod |-> d.mod, name |-> CheckAround(d).name])
        BY <4>1
      <4> QED BY <2>2, <4>2
    <3> QED BY <2>3, <3>1, <3>2 DEF ReportEdges
  <2>4. \A e \in edges : e[2] \in V /\ (e[1] \in V \/ e[1].kind \in {"expandModule", "closeModule"})
    BY <1>1, <1>2, <1>4, <2>3, ModuleEdgesFit, ReferenceEdgesFit
  <2>5. \A e \in edges : ~Made(e[1]) /\ e[2] \in DOMAIN status
    BY <1>3, <1>4, <2>4 DEF Made
  <2> DEFINE E == ModuleEdges(V)
  <2>6. E \subseteq edges
    BY <1>2
  <2>7. /\ \A v \in V : v.mod # <<>> /\ v # Expander(v.mod) => <<v, Expander(v.mod)>> \in E
        /\ \A m \in config.module : Len(m) > 1 => <<Expander(m), Expander(Front(m))>> \in E
        /\ \A v \in V : v.mod # <<>> /\ ClosesAfter(v) => <<Closer(v.mod), v>> \in E
        /\ \A m \in config.module : \A j \in 1..(Len(m) - 1) :
             <<Closer(SubSeq(m, 1, j)), Closer(m)>> \in E
    BY <1>1, <1>4, ModuleEdgesFit
  <2> HIDE DEF E
  <2>8. \A v, w : <<v, w>> \in E => w \in Waits(v)
    BY <2>6, EdgeIsWait
  <2> QED BY <1>2, <1>3, <2>5, <2>7, <2>8 DEF EdgesFit
<1>7. VisitsFit
  <2>1. StatusIsMap
    BY DEF Init, StatusIsMap
  <2> QED BY <1>3, <1>4, <1>5, <2>1, NothingVisited DEF Made
<1>8. ExpanderFits
  BY <1>1, <1>3, NothingExpanded DEF ConfigVertices
<1>9. ChecksFit
  <2>1. ObjectsFit
    BY <1>1 DEF ObjectsFit
  <2>2. ObjectsReported
    BY <1>1, <1>3, <1>4 DEF ObjectsReported, ConfigVertices, Checked, Resources
  <2>3. ResultsFit /\ NoopFits /\ Answered
    BY <1>1 DEF ResultsFit, NoopFits, Answered
  <2> QED BY <2>1, <2>2, <2>3 DEF ChecksFit
<1> QED BY <1>1, <1>5, <1>6, <1>7, <1>8, <1>9 DEF PlanWalkInv, Under, GraphFits

\* What a plan leaves to its apply.
LEMMA ApplyNeeds ==
  ASSUME config \in Configs, Under, op = "plan", \A v \in DOMAIN status : status[v] = "done",
         NEW v \in Resources, v \in (Checked \ Data) \cup Nested, NEW w \in Expected(v)
  PROVE  w \in DOMAIN status /\ w.kind = "instance" /\ HasVertex(w)
<1>1. w.kind = "instance" /\ Owner(w) = v
  BY InstanceShape
<1>2. w \in DOMAIN status
  <2>1. v \in DOMAIN status /\ v \in Expandable
    BY DEF Under, GraphFits, VerticesFit, Expandable, ConfigVertices
  <2>2. Expands(v)
    BY ResourceShape DEF Expands
  <2> QED BY <2>1, <2>2 DEF Under, VisitsFit, SubsFit
<1>3. HasVertex(w)
  <2>1. CASE v \in Nested
    <3>1. IsNested(w)
      BY <1>1, <2>1 DEF IsNested
    <3> QED BY <3>1 DEF Under, ChecksFit, NoopFits, HasVertex
  <2>2. CASE v \in Checked \ Data
    BY <1>1, <2>2 DEF HasVertex, Managed
  <2> QED BY <2>1, <2>2
<1> QED BY <1>1, <1>2, <1>3

\* An apply begins with the graph of what was planned.
LEMMA BeginApplyFits ==
  ASSUME config \in Configs, Under, ~panicked, BeginApply
  PROVE  config' = config /\ op' = "apply" /\ ~panicked' /\ Under'
<1> DEFINE I == {v \in DOMAIN status : v.kind = "instance" /\ HasVertex(v)}
           V == ConfigVertices \cup I
           E == ModuleEdges(V) \cup ReferenceEdges(V) \cup {<<v, Owner(v)>> : v \in I}
<1>1. /\ op = "plan" /\ op' = "apply" /\ \A v \in DOMAIN status : status[v] = "done"
      /\ config' = config /\ objects' = objects /\ panicked' = panicked /\ noop' = noop
      /\ calls' = <<>> /\ expansion' = <<>> /\ result' = [x \in DOMAIN result |-> "Unknown"]
      /\ edges' = ApplyGraph.edge /\ status' = [v \in ApplyGraph.node |-> "pending"]
  BY DEF BeginApply, Begin
<1>2. \/ ApplyGraph = [node |-> V \cup {Start}, edge |-> E \cup StartEdges(V, E)]
      \/ ApplyGraph = [node |-> V, edge |-> E]
  BY DEF ApplyGraph
<1>3. PICK N \in {V, V \cup {Start}} :
        N = ApplyGraph.node /\ DOMAIN status' = N /\ \A v \in N : status'[v] = "pending"
  <2>1. ApplyGraph.node \in {V, V \cup {Start}}
    BY <1>2
  <2>2. DOMAIN status' = ApplyGraph.node /\ \A v \in ApplyGraph.node : status'[v] = "pending"
    BY <1>1
  <2> QED BY <2>1, <2>2
<1>4. E \subseteq edges' /\ \A e \in edges' : e \in E \/ (e \in StartEdges(V, E) /\ Start \in N)
  <2>1. CASE ApplyGraph = [node |-> V \cup {Start}, edge |-> E \cup StartEdges(V, E)]
    BY <1>1, <1>3, <2>1
  <2>2. CASE ApplyGraph = [node |-> V, edge |-> E]
    BY <1>1, <2>2
  <2> QED BY <1>2, <2>1, <2>2
<1>5. ASSUME NEW v \in I
      PROVE  /\ v.kind = "instance" /\ v \in DOMAIN status /\ Owner(v) \in Resources
             /\ v \in Expected(Owner(v)) /\ v.mod \in Around /\ v \notin Fixed
  BY VertexShape, FixedShape DEF Under, GraphFits
<1>6. \A v \in ConfigVertices \cup {Start} : v \in Fixed /\ v.kind \notin {"instance", "assert"} /\ v.mod \in Around
  BY ConfigIsFixed
<1>7. \A v \in V : v.mod \in Around
  BY <1>5, <1>6
<1>8. /\ \A v \in V : v.mod # <<>> /\ v # Expander(v.mod) => <<v, Expander(v.mod)>> \in ModuleEdges(V)
      /\ \A m \in config.module : Len(m) > 1 => <<Expander(m), Expander(Front(m))>> \in ModuleEdges(V)
      /\ \A v \in V : v.mod # <<>> /\ ClosesAfter(v) => <<Closer(v.mod), v>> \in ModuleEdges(V)
      /\ \A m \in config.module : \A j \in 1..(Len(m) - 1) :
           <<Closer(SubSeq(m, 1, j)), Closer(m)>> \in ModuleEdges(V)
      /\ \A e \in ModuleEdges(V) : e[2] \in V /\ (e[1] \in V \/ e[1].kind \in {"expandModule", "closeModule"})
  BY <1>7, ModuleEdgesFit
<1>9. \A e \in E : e[2] \in V /\ (e[1] \in V \/ e[1].kind \in {"expandModule", "closeModule"})
  <2>1. \A e \in {<<v, Owner(v)>> : v \in I} : e[1] \in I /\ e[2] \in Resources
    BY <1>5
  <2>2. \A e \in ReferenceEdges(V) : e[1] \in V /\ e[2] \in V
    BY ReferenceEdgesFit
  <2> QED BY <1>8, <2>1, <2>2 DEF ConfigVertices
<1>10. \A e \in StartEdges(V, E) : e[1] \in V \cup {Start} /\ e[2] \in V \cup {Start}
  BY DEF StartEdges, Leaves
<1> DEFINE F == ModuleEdges(V)
<1>11. F \subseteq edges'
  BY <1>4
<1>12. \A v, w : <<v, w>> \in F => w \in Waits(v)'
  BY <1>11 DEF Waits
<1> HIDE DEF I, V, E, F
<1>13. V = ConfigVertices \cup I
  BY DEF V
<1>14. \A v, w : /\ Expected(w)' = Expected(w) /\ (IsNested(w)' <=> IsNested(w))
                 /\ (ClosesAfter(w)' <=> ClosesAfter(w)) /\ (Made(w)' <=> w.kind = "assert")
                 /\ (Expands(w)' <=> w.kind = "expandCheck")
  BY <1>1, ConfigKept DEF Made, Expands
<1>15. VerticesFit'
  <2>1. \A w \in N : w \in Fixed \/ (Owner(w) \in Expandable /\ w \in Expected(Owner(w)))
    BY <1>3, <1>5, <1>6, <1>13 DEF Expandable
  <2>2. ASSUME NEW v \in Resources, v \in (Checked \ Data) \cup Nested PROVE Expected(v) \subseteq N
    <3>1. \A w \in Expected(v) : w \in I
      BY <1>1, <2>2, ApplyNeeds DEF I
    <3> QED BY <1>3, <1>13, <3>1
  <2>3. ConfigVertices \subseteq N
    BY <1>3, <1>13
  <2> QED BY <1>1, <1>3, <1>14, <2>1, <2>2, <2>3, ConfigKept DEF VerticesFit
<1>16. EdgesFit'
  <2>1. \A e \in edges' :
         e[2] \in N /\ (e[1] \in V \cup {Start} \/ e[1].kind \in {"expandModule", "closeModule"})
    BY <1>3, <1>4, <1>9, <1>10
  <2>2. \A e \in edges' : e[1].kind # "assert" /\ e[2] \in N
    BY <1>5, <1>6, <1>13, <2>1
  <2>3. \A v \in N : v = Start \/ v \in V
    BY <1>3
  <2>4. Start.mod = <<>>
    BY DEF Start, Static
  <2>5. /\ \A v \in N : v.mod # <<>> /\ v # Expander(v.mod) => Expander(v.mod) \in Waits(v)'
        /\ \A v \in N : v.mod # <<>> /\ ClosesAfter(v) => v \in Waits(Closer(v.mod))'
    BY <1>8, <1>12, <2>3, <2>4 DEF F
  <2>6. /\ \A m \in config.module : Len(m) > 1 => Expander(Front(m)) \in Waits(Expander(m))'
        /\ \A m \in config.module : \A j \in 1..(Len(m) - 1) : Closer(m) \in Waits(Closer(SubSeq(m, 1, j)))'
    BY <1>8, <1>12 DEF F
  <2> QED BY <1>1, <1>3, <1>14, <2>2, <2>5, <2>6 DEF EdgesFit
<1>17. \A v \in DOMAIN status' : status'[v] = "pending" /\ v.kind # "assert"
  BY <1>3, <1>5, <1>6, <1>13
<1>18. VisitsFit'
  <2>1. Visited' = {}
    BY <1>17 DEF Visited
  <2>2. StatusFits' /\ WalkOrder'
    BY <1>17, <2>1 DEF StatusFits, WalkOrder
  <2>3. SubsFit'
    BY <1>14, <1>15, <1>17 DEF SubsFit, VerticesFit, Expandable, ConfigVertices
  <2>4. ClosersFit' /\ AncestorsExpanded'
    BY <2>1 DEF ClosersFit, AncestorsExpanded
  <2>5. StatusIsMap'
    BY <1>1 DEF StatusIsMap
  <2> QED BY <2>2, <2>3, <2>4, <2>5 DEF VisitsFit
<1>19. ExpanderFits'
  <2>1. DOMAIN calls' = {} /\ DOMAIN expansion' = {}
    BY <1>1
  <2>2. Known' = {<<>>}
    BY <2>1 DEF Known
  <2>3. <<>> \in ModuleInstances(<<>>) /\ ModuleInstances(<<>>)' = ModuleInstances(<<>>)
    BY <1>1, RootInstance, ConfigKept
  <2>4. Names(<<>>) = <<>>
    BY <2>3, InstancePaths, EmptySeq DEF Path
  <2>5. CallsFit'
    BY <2>1, <2>2, <2>3, <2>4 DEF CallsFit
  <2>6. \A m \in config.module : status'[Expander(m)] # "done"
    BY <1>1, <1>15, <1>17 DEF VerticesFit, ConfigVertices
  <2>7. ExpandersFit'
    BY <1>1, <2>6 DEF ExpandersFit
  <2>8. ExpansionFits'
    BY <2>1 DEF ExpansionFits
  <2> QED BY <2>5, <2>7, <2>8 DEF ExpanderFits
<1>20. ChecksFit'
  <2>1. DOMAIN result' = DOMAIN result /\ \A x \in DOMAIN result : result'[x] = "Unknown"
    BY <1>1
  <2>2. ObjectsFit'
    BY <1>1, <2>1, ConfigKept DEF Under, ChecksFit, ObjectsFit, Status
  <2>3. CheckableVertices \subseteq DOMAIN objects
    <3>1. \A v \in Checked : v \in DOMAIN objects
      BY <1>1 DEF Under, ChecksFit, ObjectsReported, GraphFits, VerticesFit, ConfigVertices,
                  Checked, Resources
    <3>2. \A c \in config.check : CheckOf(c) \in DOMAIN objects
      BY <1>1 DEF Under, ChecksFit, ObjectsReported, GraphFits, VerticesFit, ReportVertices
    <3> QED BY <3>1, <3>2 DEF CheckableVertices, CheckVertices
  <2>4. ObjectsReported'
    <3>1. Checked' = Checked /\ CheckableVertices' = CheckableVertices
      BY <1>1, ConfigKept
    <3>2. \A c \in config.check : CheckOf(c) \in CheckableVertices
      BY DEF CheckableVertices, CheckVertices
    <3> QED BY <1>1, <2>3, <3>1, <3>2 DEF ObjectsReported, CheckableVertices
  <2>5. ResultsFit'
    BY <2>1 DEF ResultsFit
  <2>6. NoopFits'
    BY <1>1, <1>14 DEF Under, ChecksFit, NoopFits
  <2>7. Answered'
    BY <1>17 DEF Answered
  <2> QED BY <2>2, <2>4, <2>5, <2>6, <2>7 DEF ChecksFit
<1> QED BY <1>1, <1>15, <1>16, <1>18, <1>19, <1>20 DEF Under, GraphFits

-----------------------------------------------------------------------------
(* What the invariant says of the checks and of the modules.               *)

\* What a pass, or an answer, of a whole check or resource says of its parts.
LEMMA SummaryParts ==
  \A S : /\ Summarize(S) = "Pass" => S \cap {"Unknown", "Fail", "Error"} = {}
         /\ Summarize(S) = "Unknown" => "Unknown" \in S /\ S \cap {"Fail", "Error"} = {}
BY DEF Summarize

\* The result of each rule of each object is in the summary.
LEMMA InSummary ==
  ASSUME config \in Configs, ObjectsFit, NEW v \in DOMAIN objects, NEW o \in Expected(v), NEW t \in Types(v)
  PROVE  result[<<o, t>>] \in {result[x] : x \in Rules(v, objects[v])}
<1>1. <<o, t>> \in Rules(v, objects[v])
  BY DEF ObjectsFit, Rules
<1> QED BY <1>1

\* A pass needs a result of each object, from a visit.
LEMMA PassFits == ASSUME config \in Configs, Under PROVE PassIsProven
<1> SUFFICES ASSUME NEW v \in CheckableVertices, Aggregate(v) = "Pass"
             PROVE  /\ objects[v] = Expected(v)
                    /\ \A o \in objects[v] : o \in DOMAIN status /\ status[o] \in {"done", "failed"}
  BY DEF PassIsProven
<1> DEFINE S == {result[x] : x \in Rules(v, objects[v])}
<1>1. v \in DOMAIN objects /\ Summarize(S) = "Pass"
  BY DEF Aggregate
<1>2. S \cap {"Unknown", "Fail", "Error"} = {}
  BY <1>1, SummaryParts
<1>3. ObjectsFit /\ objects[v] = Expected(v)
  BY <1>1 DEF Under, ChecksFit, ObjectsFit
<1> HIDE DEF S
<1>4. ASSUME NEW o \in Expected(v) PROVE Tried(o)
  <2>1. \E t \in Types(v) : t # "data"
    <3>1. CASE v \in Resources
      BY <3>1, ResourceShape DEF Types
    <3>2. CASE v \in CheckVertices
      BY <3>2, CheckShape DEF Types
    <3> QED BY <3>1, <3>2 DEF CheckableVertices, Checked, Resources
  <2>2. PICK t \in Types(v) : t # "data"
    BY <2>1
  <2>3. result[<<o, t>>] # "Unknown"
    BY <1>1, <1>2, <1>3, InSummary DEF S
  <2>4. <<o, t>> \in DOMAIN result /\ <<o, t>>[1] = o /\ <<o, t>>[2] = t
    BY <1>1, <1>3, ResultDomain
  <2> QED BY <2>2, <2>3, <2>4 DEF Under, ChecksFit, ResultsFit
<1> QED BY <1>3, <1>4 DEF Tried

\* The registers hold what they are for.
LEMMA TypeFits == ASSUME config \in Configs, Under, op \in {"plan", "apply"} PROVE TypeOK
<1>1. status \in [DOMAIN status -> {"pending", "executing", "walking"} \cup Ended]
  BY DEF Under, VisitsFit, StatusIsMap, StatusFits
<1>2. \A p \in DOMAIN calls \cup DOMAIN expansion : p[1] \in Known
  BY DEF Under, ExpanderFits, CallsFit, ExpansionFits
<1>3. \A v \in DOMAIN objects : \A o \in objects[v] : Owner(o) = v
  BY ObjectShape DEF Under, ChecksFit, ObjectsFit
<1> QED BY <1>1, <1>2, <1>3 DEF TypeOK, Under, ChecksFit, ObjectsFit

\* What waits for a closer runs after all that the module holds.
LEMMA ClosedFits == ASSUME config \in Configs, Under PROVE ModuleClosedLast
<1> SUFFICES ASSUME NEW v \in Visited, NEW c \in Waits(v), c.kind = "closeModule",
                    NEW w \in DOMAIN status, IsPrefix(c.mod, w.mod), ~IsCheck(w), ~IsNested(w)
             PROVE  status[w] = "done"
  BY DEF ModuleClosedLast
<1>1. c \in DOMAIN status /\ status[c] = "done"
  BY DEF Under, GraphFits, EdgesFit, VisitsFit, WalkOrder, Waits
<1>2. c.mod \in config.module /\ c = Closer(c.mod)
  BY <1>1, VertexShape, FixedShape DEF Under, GraphFits
<1>3. Closer(c.mod) \in Visited
  BY <1>1, <1>2 DEF Visited
<1> QED BY <1>1, <1>2, <1>3 DEF Under, VisitsFit, ClosersFit

\* An apply without an error leaves nothing unknown.
LEMMA AnsweredFits == ASSUME config \in Configs, Under PROVE AppliedChecksAnswered
<1> SUFFICES ASSUME op = "apply", \A v \in DOMAIN status : status[v] = "done",
                    NEW v \in CheckableVertices \ Data, Aggregate(v) = "Unknown"
             PROVE  FALSE
  BY DEF AppliedChecksAnswered, Applied
<1> DEFINE S == {result[x] : x \in Rules(v, objects[v])}
<1>1. v \in DOMAIN objects /\ objects[v] = Expected(v) /\ ObjectsFit
  BY DEF Under, ChecksFit, ObjectsReported, ObjectsFit
<1>2. "Unknown" \in S /\ S \cap {"Fail", "Error"} = {}
  <2>1. Summarize(S) = "Unknown"
    BY <1>1 DEF Aggregate
  <2> QED BY <2>1, SummaryParts
<1>3. PICK o \in Expected(v), t \in Types(v) : result[<<o, t>>] = "Unknown"
  <2>1. PICK x \in Rules(v, objects[v]) : result[x] = "Unknown"
    BY <1>2
  <2>2. x = <<x[1], x[2]>> /\ x[1] \in Expected(v) /\ x[2] \in Types(v)
    BY <1>1, <2>1 DEF Rules
  <2> QED BY <2>1, <2>2
<1>4. \A u \in Types(v) : result[<<o, u>>] \notin {"Fail", "Error"}
  BY <1>1, <1>2, InSummary
<1> HIDE DEF S
<1>5. v \in DOMAIN status
  BY DEF Under, GraphFits, VerticesFit, ConfigVertices, CheckableVertices, Checked, Resources
<1>6. \A w \in DOMAIN status : Settled(w)
  BY DEF Under, ChecksFit, Answered
<1>7. CASE v \in Checked
  <2>1. v \in Resources /\ v \in Checked \ Data
    BY <1>7 DEF Checked, Resources
  <2>2. o \in DOMAIN status
    BY <2>1 DEF Under, GraphFits, VerticesFit
  <2>3. o.kind = "instance" /\ Owner(o) = v
    BY <2>1, InstanceShape
  <2>4. t \in {"pre", "post"}
    BY <2>1, ResourceShape DEF Types
  <2> QED BY <1>3, <1>6, <2>1, <2>2, <2>3, <2>4 DEF Settled
<1>8. CASE v \in CheckVertices
  <2>1. v.kind = "expandCheck" /\ v = Static("expandCheck", v.mod, v.name)
    BY <1>8, CheckShape
  <2>2. o.kind = "assert" /\ Owner(o) = v /\ o.inst \in ModuleInstances(v.mod) /\ o = CheckAssert(v, o.inst)
    BY <1>8, AssertShape
  <2>3. o \in DOMAIN status
    <3>1. Expands(v) /\ v \in Expandable
      BY <1>8, <2>1 DEF Expands, Expandable
    <3> QED BY <1>5, <3>1 DEF Under, VisitsFit, SubsFit
  <2>4. result[<<o, "assert">>] # "Unknown"
    BY <1>4, <1>6, <2>2, <2>3 DEF Settled
  <2>5. t = "data" /\ \E d \in Nested : CheckAround(d) = v
    <3>1. t \in {"assert"} \cup {"data" : d \in {d \in Nested : CheckAround(d) = v}}
      BY <2>1 DEF Types
    <3> QED BY <1>3, <2>4, <3>1
  <2>6. PICK d \in Nested : CheckAround(d) = v
    BY <2>5
  <2>7. d \in Resources /\ d.mod = v.mod /\ \E k \in Key : config.keys[d.name] = {k}
    BY <2>6, NestedShape
  <2>8. PICK k : k \in config.keys[d.name]
    BY <2>7
  <2> DEFINE w == Instance(d, o.inst, k)
  <2>9. w \in Expected(d)
    BY <2>2, <2>7, <2>8, InstanceShape
  <2>10. w.kind = "instance" /\ w.inst = o.inst /\ Owner(w) = d
    <3>1. d = Static("resource", d.mod, d.name)
      BY <2>7, ResourceShape
    <3> QED BY <3>1, InstanceFields
  <2> HIDE DEF w
  <2>11. w \in DOMAIN status
    BY <2>6, <2>7, <2>9 DEF Under, GraphFits, VerticesFit
  <2>12. IsNested(w) /\ ObjectOf(w) = o
    BY <2>2, <2>6, <2>10 DEF IsNested, ObjectOf
  <2> QED BY <1>3, <1>6, <2>5, <2>10, <2>11, <2>12 DEF Settled
<1> QED BY <1>7, <1>8 DEF CheckableVertices

\* The registers keep their types when a walk is over.
LEMMA TypeKept ==
  ASSUME TypeOK, UNCHANGED <<config, calls, expansion, objects, result, status>>,
         op' \in {"plan", "apply", "over"}
  PROVE  TypeOK'
<1>1. Known' = Known
  BY DEF Known
<1>2. \A v, S : Rules(v, S)' = Rules(v, S) /\ CheckableVertices' = CheckableVertices
  BY ConfigKept
<1> QED BY <1>1, <1>2 DEF TypeOK, Status

\* The walk ends.
LEMMA FinishFits ==
  ASSUME config \in Configs, Under, op \in {"plan", "apply"}, ~panicked, Finish
  PROVE  PlanWalkInv'
<1>1. /\ UNCHANGED <<config, calls, expansion, objects, result, panicked, edges, status>>
      /\ op' = "over" /\ \A v \in DOMAIN status : status[v] \in Ended
  BY DEF Finish, registers
<1>2. TypeOK /\ PassIsProven /\ ModuleClosedLast
  BY TypeFits, PassFits, ClosedFits
<1>3. PassIsProven'
  <2>1. \A v : /\ Aggregate(v)' = Aggregate(v) /\ Expected(v)' = Expected(v)
              /\ CheckableVertices' = CheckableVertices
    <3>1. \A v, S : Rules(v, S)' = Rules(v, S)
      BY <1>1, ConfigKept
    <3>2. \A v : Aggregate(v)' = Aggregate(v)
      BY <1>1, <3>1 DEF Aggregate
    <3> QED BY <1>1, <3>2, ConfigKept
  <2> QED BY <1>1, <1>2, <2>1 DEF PassIsProven
<1>4. ModuleClosedLast'
  <2>1. \A v : Waits(v)' = Waits(v) /\ (IsNested(v)' <=> IsNested(v))
    BY <1>1, ConfigKept DEF Waits
  <2>2. Visited' = Visited
    BY <1>1 DEF Visited
  <2> QED BY <1>1, <1>2, <2>1, <2>2 DEF ModuleClosedLast, IsCheck
<1>5. TypeOK'
  BY <1>1, <1>2, TypeKept
<1> QED BY <1>1, <1>3, <1>4, <1>5 DEF PlanWalkInv

\* Once the walk is over, nothing happens.
LEMMA NothingAfter ==
  ASSUME op = "over", \A v \in DOMAIN status : status[v] \in Ended
  PROVE  ~Next
<1>1. ASSUME NEW v \in DOMAIN status, Step(v) PROVE FALSE
  <2>1. status[v] \notin {"pending", "executing", "walking"}
    BY DEF Ended
  <2> QED BY <1>1, <2>1 DEF Step, Acquire, Skip, Execute, ExpandResource, ExpandCheck, EndWalk, Ready
<1> QED BY <1>1 DEF Next, BeginApply, Finish

\* When nothing changes, the invariant holds still.
LEMMA UnchangedKeeps == PlanWalkInv /\ UNCHANGED vars => PlanWalkInv'
<1> SUFFICES ASSUME PlanWalkInv, UNCHANGED vars PROVE PlanWalkInv'
  OBVIOUS
<1>1. UNCHANGED <<config, calls, expansion, objects, result, panicked, op, edges, status, noop>>
      /\ config \in Configs /\ ~panicked
  BY DEF vars, registers, PlanWalkInv
<1>2. \A v : /\ Waits(v)' = Waits(v) /\ (IsNested(v)' <=> IsNested(v)) /\ (Made(v)' <=> Made(v))
             /\ (Expands(v)' <=> Expands(v)) /\ (Tried(v)' <=> Tried(v))
  BY <1>1, ConfigKept DEF Waits, Made, Expands, Tried
<1>3. Visited' = Visited /\ Known' = Known
  BY <1>1 DEF Visited, Known
<1>4. \A v : Aggregate(v)' = Aggregate(v)
  <2>1. \A v, S : Rules(v, S)' = Rules(v, S)
    BY <1>1, ConfigKept
  <2> QED BY <1>1, <2>1 DEF Aggregate
<1>5. CASE op \in {"plan", "apply"} /\ Under
  <2>1. GraphFits'
    <3>1. VerticesFit'
      BY <1>1, <1>5, ConfigKept DEF Under, GraphFits, VerticesFit
    <3>2. EdgesFit'
      BY <1>1, <1>2, <1>5, ConfigKept DEF Under, GraphFits, EdgesFit
    <3> QED BY <3>1, <3>2 DEF GraphFits
  <2>2. VisitsFit'
    <3>1. StatusFits' /\ WalkOrder'
      BY <1>1, <1>2, <1>3, <1>5 DEF Under, VisitsFit, StatusFits, WalkOrder
    <3>2. SubsFit'
      BY <1>1, <1>2, <1>5, ConfigKept DEF Under, VisitsFit, SubsFit
    <3>3. ClosersFit' /\ AncestorsExpanded'
      BY <1>1, <1>2, <1>3, <1>5 DEF Under, VisitsFit, ClosersFit, AncestorsExpanded, IsCheck
    <3>4. StatusIsMap'
      BY <1>1, <1>5 DEF Under, VisitsFit, StatusIsMap
    <3> QED BY <3>1, <3>2, <3>3, <3>4 DEF VisitsFit
  <2>3. Onward
    BY <1>1 DEF Onward
  <2>4. ExpanderFits'
    BY <1>1, <1>5, <2>3, ExpanderKept DEF Under, GraphFits
  <2>5. ChecksFit'
    BY <1>1, <1>5, <2>3, ChecksKept DEF Under, GraphFits
  <2> QED BY <1>1, <1>5, <2>1, <2>2, <2>4, <2>5 DEF PlanWalkInv, Under
<1>6. CASE op = "over" /\ (\A v \in DOMAIN status : status[v] \in Ended)
          /\ TypeOK /\ PassIsProven /\ ModuleClosedLast
  <2>1. PassIsProven'
    BY <1>1, <1>4, <1>6, ConfigKept DEF PassIsProven
  <2>2. ModuleClosedLast'
    BY <1>1, <1>2, <1>3, <1>6 DEF ModuleClosedLast, IsCheck
  <2>3. TypeOK'
    BY <1>1, <1>6, TypeKept
  <2> QED BY <1>1, <1>6, <2>1, <2>2, <2>3 DEF PlanWalkInv
<1> QED BY <1>5, <1>6 DEF PlanWalkInv

\* The invariant is inductive.
LEMMA NextKeeps == PlanWalkInv /\ [Next]_vars => PlanWalkInv'
<1> SUFFICES ASSUME PlanWalkInv, [Next]_vars PROVE PlanWalkInv'
  OBVIOUS
<1>1. config \in Configs /\ ~panicked
  BY DEF PlanWalkInv
<1>2. CASE op \in {"plan", "apply"} /\ Under /\ Next
  <2>1. ASSUME NEW v \in DOMAIN status, Step(v) PROVE PlanWalkInv'
    <3>1. Stays
      BY <1>1, <1>2, <2>1, StepStays
    <3> QED BY <1>1, <1>2, <3>1 DEF Stays, PlanWalkInv
  <2>2. CASE BeginApply
    <3>1. config' = config /\ op' = "apply" /\ ~panicked' /\ Under'
      BY <1>1, <1>2, <2>2, BeginApplyFits
    <3> QED BY <1>1, <3>1 DEF PlanWalkInv
  <2>3. CASE Finish
    BY <1>1, <1>2, <2>3, FinishFits
  <2> QED BY <1>2, <2>1, <2>2, <2>3 DEF Next
<1>3. CASE op = "over" /\ (\A v \in DOMAIN status : status[v] \in Ended) /\ Next
  BY <1>3, NothingAfter
<1>4. CASE UNCHANGED vars
  BY <1>4, UnchangedKeeps
<1> QED BY <1>2, <1>3, <1>4 DEF PlanWalkInv

-----------------------------------------------------------------------------
(* The theorems.                                                           *)

\* In every state of a plan and its apply the invariant holds.
THEOREM Invariant == Spec => []PlanWalkInv
BY InitFits, NextKeeps, PTL DEF Spec

\* The registers hold what they are for, and the results are those of the
\* objects that were reported.
THEOREM TypeCorrect == Spec => []TypeOK
<1>1. PlanWalkInv => TypeOK
  BY TypeFits DEF PlanWalkInv
<1> QED BY <1>1, Invariant, PTL

\* Whatever the configuration, in whatever order the vertices run and
\* whichever of them fail, the expander and the checks are never used so
\* that they panic.
THEOREM NeverPanics == Spec => []NoPanic
<1>1. PlanWalkInv => NoPanic
  BY DEF PlanWalkInv, NoPanic
<1> QED BY <1>1, Invariant, PTL

\* Checks that are summed up as passed were made, all of them and for each
\* object that the configuration declares.
THEOREM PassesAreProven == Spec => []PassIsProven
<1>1. PlanWalkInv => PassIsProven
  BY PassFits DEF PlanWalkInv
<1> QED BY <1>1, Invariant, PTL

\* What refers to a module runs after everything in it.
THEOREM ModulesCloseLast == Spec => []ModuleClosedLast
<1>1. PlanWalkInv => ModuleClosedLast
  BY ClosedFits DEF PlanWalkInv
<1> QED BY <1>1, Invariant, PTL

\* An apply that is done without an error leaves no check of a managed
\* object, and no check block, unknown.
THEOREM ApplyAnswersChecks == Spec => []AppliedChecksAnswered
<1>1. PlanWalkInv => AppliedChecksAnswered
  BY AnsweredFits DEF PlanWalkInv, AppliedChecksAnswered, Applied
<1> QED BY <1>1, Invariant, PTL
==============================================================================
