------------------------- MODULE ResourceApplyProofs -------------------------
(***************************************************************************)
(* Theorems about ResourceApply, for every set of resources and            *)
(* configurations, any number of rounds and every failure: no object that  *)
(* exists is lost or recorded twice, a walk without an error leaves what   *)
(* was planned, and what refers to an object goes before it does.          *)
(***************************************************************************)
EXTENDS ResourceApply, FiniteSetTheorems, TLAPS

\* What the state may record of an instance: objects that were made.
Objects == [obj : 1..MaxRounds, tainted : BOOLEAN, deps : SUBSET Resource, cbd : BOOLEAN]
Instances == [cur : Objects \cup {None}, dep : [Key -> Objects \cup {None}]]

\* The instance records an object with number n.
Has(s, n) == \/ s.cur # None /\ s.cur.obj = n
             \/ \E k \in Key : s.dep[k] # None /\ s.dep[k].obj = n

\* No two records of the instance are of one object.
Distinct(s) == \A k \in Key : s.dep[k] # None =>
                 /\ s.dep[k].obj # s.cur.obj
                 /\ \A j \in Key : k # j => s.dep[k].obj # s.dep[j].obj

StatusOf == {"pending", "running", "done", "failed"}

Typed == /\ round \in 0..MaxRounds /\ phase \in {"idle", "walk"}
         /\ phase = "walk" => round # 0
         /\ DOMAIN real \subseteq Ids
         /\ state \in [Resource -> Instances]
         /\ status \in [graph.node -> StatusOf]

\* What exists is recorded, once; no number is ahead of its round.
Recorded == /\ \A id \in DOMAIN real : Has(state[id[1]], id[2])
            /\ \A r \in Resource : Distinct(state[r])
            /\ \A r \in Resource, n \in 1..MaxRounds : Has(state[r], n) => n <= round

\* The plan that is walked: what its actions and keys go with.
PlanFits == phase = "walk" =>
  /\ plan.config \in Configs /\ DOMAIN plan.config \subseteq Resource
  /\ plan.action \in [Resource -> Actions] /\ plan.key \in [Resource -> Key \cup {0}]
  /\ \A r \in Resource :
       /\ plan.key[r] # 0 <=> plan.action[r] = "CreateThenDelete"
       /\ IF r \in DOMAIN plan.config THEN plan.action[r] \in New \cup {"NoOp", "Update"}
          ELSE plan.action[r] \in {"None", "Delete"}

\* The graph of a plan: the vertices the actions ask for, and the edges of one
\* address and of a reference.
Fitting(G, p) ==
  /\ G.node \subseteq [kind : {"create", "destroy"}, res : Resource, key : Key \cup {0}]
  /\ \A r \in Resource :
       /\ Creator(r) \in G.node <=> HasCreator(p, r)
       /\ Destroyer(r) \in G.node <=> p.action[r] \in {"Delete", "DeleteThenCreate"}
       /\ p.action[r] = "CreateThenDelete" => Deposed(r, p.key[r]) \in G.node
       /\ p.action[r] = "DeleteThenCreate" => <<Creator(r), Destroyer(r)>> \in G.edge
       /\ \A k \in Key : Creator(r) \in G.node /\ Deposed(r, k) \in G.node
                           => <<Deposed(r, k), Creator(r)>> \in G.edge
  /\ \A r \in DOMAIN p.config : \A b \in p.config[r].deps :
       Creator(r) \in G.node /\ Creator(b) \in G.node
         => <<Creator(r), Creator(b)>> \in G.edge

GraphFits == phase = "walk" => Fitting(graph, plan)

\* Nothing runs outside a walk, nor before what it waits for succeeded.
WalkOrder == \A v \in graph.node : status[v] # "pending" =>
               phase = "walk" /\ \A w \in Waits(v) : status[w] = "done"

Unfinished(r) == Creator(r) \in graph.node /\ status[Creator(r)] \in {"pending", "running"}

\* An update failed, and may have left nothing to record.
UpdateFailed(r) == /\ plan.action[r] = "Update" /\ Creator(r) \in graph.node
                   /\ status[Creator(r)] = "failed"

\* What a creator finds: no object of its own yet, an unused key to depose
\* under, and in the end no current object but one to update.
Finds(r) ==
  /\ Unfinished(r) /\ plan.action[r] \in New =>
       /\ \A n \in 1..MaxRounds : Has(state[r], n) => n < round
       /\ plan.action[r] = "Create" => state[r].cur = None
       /\ plan.action[r] = "CreateThenDelete" =>
            IF status[Creator(r)] = "pending" THEN state[r].dep[plan.key[r]] = None
            ELSE state[r].cur = None
       /\ plan.action[r] = "DeleteThenCreate" /\ status[Destroyer(r)] = "done" =>
            state[r].cur = None
  /\ plan.action[r] \in {"NoOp", "Update"} /\ ~UpdateFailed(r) =>
       state[r].cur # None /\ CurId(state, r) \in DOMAIN real

CreatorFinds == phase = "walk" => \A r \in Resource : Finds(r)

RecordInv == Typed /\ Recorded /\ PlanFits /\ GraphFits /\ WalkOrder /\ CreatorFinds

-----------------------------------------------------------------------------
(* Towards a walk without errors.                                          *)

Succeeded(v) == v \in graph.node /\ status[v] = "done"

\* The current object of b is the one that it has at the end of the walk.
Settled(b) == plan.action[b] \in {"NoOp", "Update"} \/ Succeeded(Creator(b))

\* What destroyers are there for, and what they have done.
Destroying == phase = "walk" =>
  \A r \in Resource :
    /\ \A k \in Key : state[r].dep[k] # None =>
         Deposed(r, k) \in graph.node /\ status[Deposed(r, k)] # "done"
    /\ r \notin DOMAIN plan.config /\ (plan.action[r] = "None" \/ Succeeded(Destroyer(r))) =>
         state[r].cur = None

\* The object refers to what the configuration says, and to what is current; an
\* update that failed may have lost what it refers to.
RefersRight(r) ==
  LET refs == real[CurId(state, r)]
  IN  /\ \A i \in refs : /\ i[1] \in plan.config[r].deps
                         /\ i \in DOMAIN real => i \in Refers(plan.config, state, r)
      /\ (\A b \in plan.config[r].deps : ~UpdateFailed(b)) =>
           refs = Refers(plan.config, state, r)

\* The object is as the configuration says, and what it refers to is settled.
Converges(r) ==
  LET cur == state[r].cur
  IN  /\ cur # None /\ ~cur.tainted /\ CurId(state, r) \in DOMAIN real
      /\ cur.deps = Dependencies(plan.config, r)
      /\ \A b \in plan.config[r].deps : Settled(b)
      /\ RefersRight(r)

Converging == phase = "walk" =>
  \A r \in DOMAIN plan.config :
    plan.action[r] = "NoOp" \/ Succeeded(Creator(r)) => Converges(r)

ConvergeInv == Destroying /\ Converging

-----------------------------------------------------------------------------
(* The records of one instance.                                            *)

\* No object is no record of one.
LEMMA NoObject == /\ None.obj = 0 /\ None \notin Objects
                  /\ \A o \in Objects : o # None /\ o.obj \in 1..MaxRounds /\ o.obj # 0
  BY RoundsAssumption DEF None, Objects

\* Writing the current object of an instance.
LEMMA CurrentWritten ==
  ASSUME NEW s \in Instances, NEW o \in Objects \cup {None}, NEW t, t = [s EXCEPT !.cur = o]
  PROVE  t \in Instances /\ t.cur = o /\ t.dep = s.dep
  BY DEF Instances

\* deposeCurrentObject under an unused key: the object has another record.
LEMMA DeposeKeeps ==
  ASSUME NEW s \in Instances, Distinct(s), NEW k \in Key, s.dep[k] = None,
         NEW t, t = Depose(s, k)
  PROVE  /\ t \in Instances /\ Distinct(t) /\ t.cur = None
         /\ \A j \in Key : t.dep[j] = IF j = k THEN s.cur ELSE s.dep[j]
         /\ \A n : Has(t, n) <=> Has(s, n)
<1>1. /\ t \in Instances /\ t.cur = None
      /\ \A j \in Key : t.dep[j] = IF j = k THEN s.cur ELSE s.dep[j]
  BY DEF Depose, Instances
<1>2. Distinct(t)
  BY <1>1, NoObject DEF Distinct, Instances
<1>3. \A n : Has(t, n) <=> Has(s, n)
  BY <1>1 DEF Has
<1>4. QED
  BY <1>1, <1>2, <1>3

\* maybeRestoreResourceInstanceDeposed: the same objects, and none lost.
LEMMA RestoreKeeps ==
  ASSUME NEW s \in Instances, Distinct(s), NEW k \in Key \cup {0},
         NEW t, t = MaybeRestore(s, k)
  PROVE  /\ t \in Instances /\ Distinct(t)
         /\ \A n : Has(t, n) <=> Has(s, n)
         /\ \A j \in Key : t.dep[j] # None => t.dep[j] = s.dep[j]
         /\ t.cur = s.cur \/ (k # 0 /\ t.cur = s.dep[k])
<1>1. CASE ~(k # 0 /\ s.cur = None /\ s.dep[k] # None)
  <2>1. t = s
    BY <1>1 DEF MaybeRestore
  <2>2. QED
    BY <2>1
<1>2. CASE k # 0 /\ s.cur = None /\ s.dep[k] # None
  <2>1. /\ t \in Instances /\ t.cur = s.dep[k] /\ k \in Key
        /\ \A j \in Key : t.dep[j] = IF j = k THEN None ELSE s.dep[j]
    BY <1>2 DEF MaybeRestore, Instances
  <2>2. Distinct(t)
    BY <1>2, <2>1, NoObject DEF Distinct, Instances
  <2>3. \A n : Has(t, n) <=> Has(s, n)
    BY <1>2, <2>1 DEF Has
  <2>4. QED
    BY <1>2, <2>1, <2>2, <2>3
<1>3. QED
  BY <1>1, <1>2

\* A new object where there is no current one.
LEMMA CreateKeeps ==
  ASSUME NEW s \in Instances, Distinct(s), s.cur = None,
         NEW o \in Objects, ~Has(s, o.obj), NEW t, t = [s EXCEPT !.cur = o]
  PROVE  Distinct(t) /\ \A n : Has(t, n) <=> Has(s, n) \/ n = o.obj
<1>1. t.cur = o /\ t.dep = s.dep
  BY CurrentWritten
<1>2. \A k \in Key : s.dep[k] # None => s.dep[k].obj # o.obj
  BY DEF Has
<1>3. Distinct(t)
  BY <1>1, <1>2 DEF Distinct
<1>4. \A n : Has(t, n) <=> Has(s, n) \/ n = o.obj
  BY <1>1, NoObject DEF Has
<1>5. QED
  BY <1>3, <1>4

\* A current object written back.
LEMMA UpdateKeeps ==
  ASSUME NEW s \in Instances, Distinct(s), s.cur # None,
         NEW o \in Objects, o.obj = s.cur.obj, NEW t, t = [s EXCEPT !.cur = o]
  PROVE  Distinct(t) /\ \A n : Has(t, n) <=> Has(s, n)
<1>1. t.cur = o /\ t.dep = s.dep
  BY CurrentWritten
<1>2. QED
  BY <1>1, NoObject DEF Distinct, Has

\* The record of the current object removed.
LEMMA RemoveKeeps ==
  ASSUME NEW s \in Instances, Distinct(s), NEW t, t = [s EXCEPT !.cur = None]
  PROVE  Distinct(t) /\ \A n : Has(t, n) <=> Has(s, n) /\ n # s.cur.obj
<1>1. t.cur = None /\ t.dep = s.dep
  BY CurrentWritten
<1>2. Distinct(t)
  BY <1>1, NoObject DEF Distinct, Instances
<1>3. \A n : Has(t, n) <=> Has(s, n) /\ n # s.cur.obj
  BY <1>1, NoObject DEF Has, Distinct, Instances
<1>4. QED
  BY <1>2, <1>3

\* A deposed object written back, and its record removed.
LEMMA DeposedKeeps ==
  ASSUME NEW s \in Instances, Distinct(s), NEW k \in Key, s.dep[k] # None,
         NEW o \in Objects \cup {None}, o = None \/ o.obj = s.dep[k].obj,
         NEW t, t = [s EXCEPT !.dep[k] = o]
  PROVE  /\ Distinct(t)
         /\ \A n : Has(t, n) <=> Has(s, n) /\ (o = None => n # s.dep[k].obj)
<1>1. t.cur = s.cur /\ \A j \in Key : t.dep[j] = IF j = k THEN o ELSE s.dep[j]
  BY DEF Instances
<1>2. Distinct(t)
  BY <1>1, NoObject DEF Distinct, Instances
<1>3. \A n : Has(t, n) <=> Has(s, n) /\ (o = None => n # s.dep[k].obj)
  <2>1. CASE o = None
    BY <1>1, <2>1, NoObject DEF Has, Distinct, Instances
  <2>2. CASE o # None
    BY <1>1, <2>2, NoObject DEF Has
  <2>3. QED
    BY <2>1, <2>2
<1>4. QED
  BY <1>2, <1>3

\* There is a key to depose under: one round makes one object at most, and one
\* of those there are is current.
LEMMA KeyIsFound ==
  ASSUME NEW s \in Instances, Distinct(s), s.cur # None, NEW m \in Nat, m < MaxRounds,
         \A n \in 1..MaxRounds : Has(s, n) => n <= m
  PROVE  \E k \in Key : s.dep[k] = None
<1> SUFFICES ASSUME \A k \in Key : s.dep[k] # None PROVE FALSE
  OBVIOUS
<1> DEFINE T == (1..m) \ {s.cur.obj}
           f == [k \in Key |-> s.dep[k].obj]
<1>1. s.cur.obj \in 1..m
  BY NoObject DEF Has, Instances
<1>2. f \in [Key -> T]
  <2>1. ASSUME NEW k \in Key PROVE s.dep[k].obj \in T
    BY <1>1, NoObject DEF Has, Distinct, Instances
  <2>2. QED
    BY <2>1
<1>3. IsFiniteSet(T) /\ Cardinality(T) = m - 1
  <2>1. IsFiniteSet(1..m) /\ Cardinality(1..m) = m
    BY FS_Interval
  <2>2. /\ IsFiniteSet((1..m) \ {s.cur.obj})
        /\ Cardinality((1..m) \ {s.cur.obj}) = Cardinality(1..m) - 1
    BY <1>1, <2>1, FS_RemoveElement, Zenon
  <2>3. QED
    BY <2>1, <2>2
<1>4. IsFiniteSet(Key) /\ Cardinality(Key) \in Nat /\ Cardinality(T) < Cardinality(Key)
  BY <1>3, RoundsAssumption, FS_CardinalityType
<1> HIDE DEF T, f
<1>5. PICK k \in Key, j \in Key : k # j /\ f[k] = f[j]
  BY <1>2, <1>3, <1>4, FS_PigeonHole
<1>6. QED
  BY <1>5 DEF f, Distinct

-----------------------------------------------------------------------------
(* Planning.                                                               *)

\* What an object depends on is declared, and holds its direct references.
LEMMA DependenciesDeclared ==
  ASSUME NEW c \in Configs, NEW r
  PROVE  /\ Dependencies(c, r) \subseteq Resource
         /\ r \in DOMAIN c => c[r].deps \subseteq Dependencies(c, r)
  BY RoundsAssumption DEF Dependencies

\* The refresh only drops records, of objects that are gone.
LEMMA RefreshKeeps ==
  ASSUME Typed, Recorded, NEW r \in Resource, NEW s, s = Refreshed[r]
  PROVE  /\ s \in Instances /\ Distinct(s)
         /\ s.cur # None => <<r, s.cur.obj>> \in DOMAIN real
         /\ \A n : Has(s, n) <=> Has(state[r], n) /\ <<r, n>> \in DOMAIN real
<1> DEFINE Seen(o) == IF <<r, o.obj>> \in DOMAIN real THEN o ELSE None
<1>1. state[r] \in Instances /\ Distinct(state[r])
  BY DEF Typed, Recorded
<1>2. s = [cur |-> Seen(state[r].cur), dep |-> [k \in Key |-> Seen(state[r].dep[k])]]
  BY DEF Refreshed
<1>3. /\ s.cur = Seen(state[r].cur)
      /\ \A k \in Key : s.dep[k] = Seen(state[r].dep[k])
      /\ s \in Instances
  BY <1>1, <1>2 DEF Instances
<1>4. <<r, 0>> \notin DOMAIN real
  BY DEF Typed, Ids
<1>5. Distinct(s)
  BY ZenonT(60), <1>1, <1>3, NoObject DEF Distinct, Instances
<1>6. s.cur # None => <<r, s.cur.obj>> \in DOMAIN real
  BY <1>3
<1>7. \A n : Has(s, n) <=> Has(state[r], n) /\ <<r, n>> \in DOMAIN real
  BY <1>3, <1>4, NoObject DEF Has
<1>8. QED
  BY <1>3, <1>5, <1>6, <1>7

\* What the plan writes into the refreshed state: the same objects.
LEMMA PlannedKeeps ==
  ASSUME NEW c \in Configs, NEW s, NEW action, NEW r \in Resource,
         s[r] \in Instances, Distinct(s[r]), NEW t, t = Planned(c, s, action)[r]
  PROVE  /\ t \in Instances /\ Distinct(t) /\ t.dep = s[r].dep
         /\ t.cur = None <=> s[r].cur = None
         /\ t.cur.obj = s[r].cur.obj
         /\ \A n : Has(t, n) <=> Has(s[r], n)
         /\ r \notin DOMAIN c => t = s[r]
         /\ s[r].cur # None => t.cur.tainted = s[r].cur.tainted
         /\ r \in DOMAIN c /\ s[r].cur # None =>
              /\ t.cur.cbd = PlannedCBD(c, r)
              /\ action[r] = "NoOp" => t.cur.deps = Dependencies(c, r)
              /\ Dependencies(c, r) \subseteq t.cur.deps
<1>1. CASE r \notin DOMAIN c \/ s[r].cur = None
  <2>1. t = s[r]
    BY <1>1 DEF Planned
  <2>2. QED
    BY <1>1, <2>1
<1>2. CASE r \in DOMAIN c /\ s[r].cur # None
  <2>1. PICK x \in Objects : x = s[r].cur
    BY <1>2 DEF Instances
  <2>2. PICK f \in BOOLEAN : f = PlannedCBD(c, r)
    BY DEF PlannedCBD
  <2>3. PICK D \in SUBSET Resource :
          D = Dependencies(c, r) \cup IF action[r] = "NoOp" THEN {} ELSE x.deps
    BY DependenciesDeclared DEF Objects
  <2>4. t = [s[r] EXCEPT !.cur.cbd = f, !.cur.deps = D]
    BY <1>2, <2>1, <2>2, <2>3 DEF Planned, Instances
  <2>5. PICK y \in Objects : y = [x EXCEPT !.cbd = f, !.deps = D]
    BY DEF Objects
  <2>6. t = [s[r] EXCEPT !.cur = y]
    <3>1. t = [s[r] EXCEPT !.cur = [x EXCEPT !.cbd = f, !.deps = D]]
      BY <2>1, <2>4 DEF Instances
    <3>2. QED
      BY <2>5, <3>1
  <2>7. y.obj = x.obj /\ y.tainted = x.tainted /\ y.cbd = f /\ y.deps = D
    BY <2>5 DEF Objects
  <2>8. t \in Instances /\ t.cur = y /\ t.dep = s[r].dep
    BY <2>6, CurrentWritten
  <2>9. Distinct(t) /\ \A n : Has(t, n) <=> Has(s[r], n)
    BY <1>2, <2>1, <2>7, <2>6, UpdateKeeps
  <2>10. y # None
    BY NoObject
  <2>11. /\ action[r] = "NoOp" => D = Dependencies(c, r)
         /\ Dependencies(c, r) \subseteq D
    BY <2>3
  <2>12. QED
    BY <1>2, <2>1, <2>2, <2>7, <2>8, <2>9, <2>10, <2>11
<1>3. QED
  BY <1>1, <1>2

-----------------------------------------------------------------------------
(* The graph of a plan.                                                    *)

\* Vertices differ when their kind, resource or key does.
LEMMA VerticesDiffer ==
  /\ \A r, q : Creator(r) # Destroyer(q)
  /\ \A r, q, k : Creator(r) # Deposed(q, k)
  /\ \A r, q : Creator(r) = Creator(q) => r = q
  /\ \A r, q : Destroyer(r) = Destroyer(q) => r = q
  /\ \A r, q, k : k # 0 => Destroyer(r) # Deposed(q, k)
  /\ \A r, q, k, j : Deposed(r, k) = Deposed(q, j) => r = q /\ k = j
  /\ \A r : ~IsDestroyer(Creator(r)) /\ IsDestroyer(Destroyer(r))
  /\ \A r, k : IsDestroyer(Deposed(r, k))
  BY DEF Creator, Destroyer, Deposed, IsDestroyer

\* ApplyGraphBuilder.Steps: the vertices and edges a plan's actions ask for.
LEMMA BuildFits ==
  ASSUME NEW t, NEW p, p.config \in Configs,
         p.key \in [Resource -> Key \cup {0}],
         \A r \in Resource : p.key[r] # 0 <=> p.action[r] = "CreateThenDelete",
         \A r \in Resource : p.action[r] = "DeleteThenCreate" => t[r].cur.cbd = FALSE,
         NEW G, G = Build(t, p)
  PROVE  /\ Fitting(G, p)
         /\ \A r \in Resource, k \in Key : t[r].dep[k] # None => Deposed(r, k) \in G.node
<1> DEFINE V == Vertices(t, p)
           E == DestroyEdges(t, p, V)
           Turned(e) == /\ IsDestroyer(e[2]) /\ ~IsDestroyer(e[1])
                        /\ DestroyerCBD(t, p, e[2])
<1>1. G.node = V /\ G.edge = ReferenceEdges(p, V) \cup Inverted(t, p, E)
  BY DEF Build
<1>2. 0 \notin Key
  BY KeyAssumption
<1>3. V \subseteq [kind : {"create", "destroy"}, res : Resource, key : Key \cup {0}]
  BY DEF Vertices, Creator, Destroyer, Deposed
<1>4. ASSUME NEW r \in Resource
      PROVE  /\ Creator(r) \in V <=> HasCreator(p, r)
             /\ Destroyer(r) \in V <=> p.action[r] \in {"Delete", "DeleteThenCreate"}
             /\ p.action[r] = "CreateThenDelete" => Deposed(r, p.key[r]) \in V
             /\ \A k \in Key : t[r].dep[k] # None => Deposed(r, k) \in V
  <2>1. Creator(r) \in V <=> HasCreator(p, r)
    BY DEF Vertices, Creator, Destroyer, Deposed
  <2>2. Destroyer(r) \in V <=> p.action[r] \in {"Delete", "DeleteThenCreate"}
    BY <1>2 DEF Vertices, Creator, Destroyer, Deposed
  <2>3. p.action[r] = "CreateThenDelete" => Deposed(r, p.key[r]) \in V
    BY DEF Vertices
  <2>4. \A k \in Key : t[r].dep[k] # None => Deposed(r, k) \in V
    <3>1. ASSUME NEW k \in Key, t[r].dep[k] # None PROVE Deposed(r, k) \in V
      <4>1. <<r, k>> \in {x \in Resource \X Key : t[x[1]].dep[x[2]] # None}
        BY <3>1
      <4>2. QED
        BY <4>1 DEF Vertices
    <3>2. QED
      BY <3>1
  <2>5. QED
    BY <2>1, <2>2, <2>3, <2>4
<1>5. ASSUME NEW e \in E
      PROVE  (IF Turned(e) THEN <<e[2], e[1]>> ELSE e) \in G.edge
  BY <1>1 DEF Inverted
<1>6. ASSUME NEW r \in Resource, p.action[r] = "DeleteThenCreate"
      PROVE  <<Creator(r), Destroyer(r)>> \in G.edge
  <2>1. Creator(r) \in V /\ Destroyer(r) \in V
    BY <1>4, <1>6 DEF HasCreator, Replaces
  <2>2. <<Creator(r), Destroyer(r)>> \in E
    BY <2>1 DEF DestroyEdges, Creator, Destroyer, IsDestroyer
  <2>3. ~DestroyerCBD(t, p, Destroyer(r))
    BY <1>6 DEF DestroyerCBD, Destroyer
  <2>4. ~Turned(<<Creator(r), Destroyer(r)>>)
    BY <2>3
  <2>5. QED
    BY <1>5, <2>2, <2>4
<1>7. ASSUME NEW r \in Resource, NEW k \in Key, Creator(r) \in V, Deposed(r, k) \in V
      PROVE  <<Deposed(r, k), Creator(r)>> \in G.edge
  <2>1. <<Creator(r), Deposed(r, k)>> \in E
    BY <1>7 DEF DestroyEdges, Creator, Deposed, IsDestroyer
  <2>2. DestroyerCBD(t, p, Deposed(r, k))
    BY <1>2 DEF DestroyerCBD, Deposed
  <2>3. Turned(<<Creator(r), Deposed(r, k)>>)
    BY <2>2, VerticesDiffer
  <2>4. QED
    BY <1>5, <2>1, <2>3
<1>8. ASSUME NEW r \in DOMAIN p.config, NEW b \in p.config[r].deps,
             Creator(r) \in V, Creator(b) \in V
      PROVE  <<Creator(r), Creator(b)>> \in G.edge
  <2>1. b \in Dependencies(p.config, r)
    BY DependenciesDeclared
  <2>2. <<Creator(r), Creator(b)>> \in ReferenceEdges(p, V)
    BY <1>8, <2>1 DEF ReferenceEdges, Creator, IsDestroyer
  <2>3. QED
    BY <1>1, <2>2
<1> HIDE DEF V
<1>9. QED
  BY <1>1, <1>3, <1>4, <1>6, <1>7, <1>8 DEF Fitting

\* The action for a resource that the configuration no longer declares, for one
\* without an object, and for one with it.
LEMMA FitsActions ==
  ASSUME NEW c \in Configs, NEW s, NEW action, NEW r \in Resource, Fits(c, s, action, r)
  PROVE  /\ r \notin DOMAIN c =>
              action[r] = IF s[r].cur = None THEN "None" ELSE "Delete"
         /\ r \in DOMAIN c => action[r] \in New \cup {"NoOp", "Update"}
         /\ action[r] \in New \cup {"NoOp", "Update"} => r \in DOMAIN c
         /\ action[r] = "Create" => s[r].cur = None
         /\ action[r] \in Replaces \cup {"NoOp", "Update"} => s[r].cur # None
         /\ action[r] = "CreateThenDelete" => PlannedCBD(c, r)
         /\ action[r] = "DeleteThenCreate" => ~PlannedCBD(c, r)
         /\ action[r] = "NoOp" =>
              /\ ~s[r].cur.tainted /\ real[CurId(s, r)] = Refers(c, s, r)
              /\ \A b \in c[r].deps : action[b] \notin New
<1> DEFINE replace == IF PlannedCBD(c, r) THEN "CreateThenDelete" ELSE "DeleteThenCreate"
<1>1. CASE r \notin DOMAIN c
  BY <1>1 DEF Fits, New, Replaces
<1>2. CASE r \in DOMAIN c /\ s[r].cur = None
  BY <1>2 DEF Fits, New, Replaces
<1>3. CASE r \in DOMAIN c /\ s[r].cur # None
  <2>1. \/ action[r] = replace
        \/ action[r] = "Update"
        \/ /\ action[r] = "NoOp" /\ ~s[r].cur.tainted
           /\ real[CurId(s, r)] = Refers(c, s, r)
           /\ \A b \in c[r].deps : action[b] \notin New
    BY <1>3 DEF Fits
  <2>2. QED
    BY <1>3, <2>1 DEF New, Replaces
<1>4. QED
  BY <1>1, <1>2, <1>3

\* What is planned, with a name for the planned state.
LEMMA PlanParts ==
  ASSUME RecordInv, NEW c \in Configs, PlanAndBuild(c)
  PROVE  \E t :
           /\ plan'.action \in [Resource -> Actions]
           /\ \A r \in Resource : Fits(c, Refreshed, plan'.action, r)
           /\ t = Planned(c, Refreshed, plan'.action)
           /\ plan'.config = c
           /\ plan'.key = [r \in Resource |-> IF plan'.action[r] = "CreateThenDelete"
                             THEN UnusedKey(Refreshed[r].dep) ELSE 0]
           /\ graph' = Build(t, plan') /\ status' = [v \in graph'.node |-> "pending"]
           /\ \/ phase' = "walk" /\ state' = t
              \/ phase' = "idle" /\ state' = state
           /\ round' = round + 1 /\ round < MaxRounds /\ real' = real /\ lost' = lost
<1>1. PICK action \in [Resource -> Actions] :
        /\ \A r \in Resource : Fits(c, Refreshed, action, r)
        /\ plan' = [config |-> c, action |-> action,
                    key |-> [r \in Resource |-> IF action[r] = "CreateThenDelete"
                               THEN UnusedKey(Refreshed[r].dep) ELSE 0]]
        /\ graph' = Build(Planned(c, Refreshed, action), plan')
        /\ status' = [v \in graph'.node |-> "pending"]
        /\ \/ phase' = "walk" /\ state' = Planned(c, Refreshed, action)
           \/ phase' = "idle" /\ state' = state
  BY DEF PlanAndBuild
<1>2. /\ phase = "idle" /\ round' = round + 1 /\ round < MaxRounds
      /\ real' = real /\ lost' = lost
  BY DEF PlanAndBuild
<1>3. plan'.action = action
  BY <1>1
<1>4. QED
  BY <1>1, <1>2, <1>3

\* The key to depose under is an unused one.
LEMMA KeysFit ==
  ASSUME RecordInv, NEW r \in Resource, Refreshed[r].cur # None, round < MaxRounds
  PROVE  /\ UnusedKey(Refreshed[r].dep) \in Key
         /\ Refreshed[r].dep[UnusedKey(Refreshed[r].dep)] = None
<1>1. /\ Typed /\ Recorded /\ round \in Nat
      /\ \A n \in 1..MaxRounds : Has(state[r], n) => n <= round
  BY DEF RecordInv, Typed, Recorded
<1>2. PICK s : s = Refreshed[r]
  OBVIOUS
<1>3. s \in Instances /\ Distinct(s) /\ \A n \in 1..MaxRounds : Has(s, n) => n <= round
  BY <1>1, <1>2, RefreshKeeps
<1>4. \E k \in Key : s.dep[k] = None
  BY <1>1, <1>2, <1>3, KeyIsFound
<1>5. QED
  BY <1>2, <1>4 DEF UnusedKey

\* What an instance is like in the planned state.
LEMMA PlannedInstance ==
  ASSUME RecordInv, NEW c \in Configs, NEW action, NEW r \in Resource,
         NEW t, t = Planned(c, Refreshed, action)
  PROVE  /\ t[r] \in Instances /\ Distinct(t[r]) /\ t[r].dep = Refreshed[r].dep
         /\ t[r].cur = None <=> Refreshed[r].cur = None
         /\ t[r].cur.obj = Refreshed[r].cur.obj
         /\ \A n : Has(t[r], n) <=> Has(state[r], n) /\ <<r, n>> \in DOMAIN real
         /\ t[r].cur # None => CurId(t, r) \in DOMAIN real
         /\ Refreshed[r].cur # None => t[r].cur.tainted = Refreshed[r].cur.tainted
         /\ r \in DOMAIN c /\ Refreshed[r].cur # None =>
              /\ t[r].cur.cbd = PlannedCBD(c, r)
              /\ action[r] = "NoOp" => t[r].cur.deps = Dependencies(c, r)
              /\ Dependencies(c, r) \subseteq t[r].cur.deps
<1>1. Typed /\ Recorded
  BY DEF RecordInv
<1>2. PICK s : s = Refreshed
  OBVIOUS
<1>3. /\ s[r] \in Instances /\ Distinct(s[r])
      /\ s[r].cur # None => <<r, s[r].cur.obj>> \in DOMAIN real
      /\ \A n : Has(s[r], n) <=> Has(state[r], n) /\ <<r, n>> \in DOMAIN real
  BY <1>1, <1>2, RefreshKeeps
<1>4. PICK u : u = t[r] /\ u = Planned(c, s, action)[r]
  BY <1>2
<1>5. s[r] \in Instances /\ Distinct(s[r])
  BY <1>3
<1>6. u \in Instances /\ Distinct(u) /\ u.dep = s[r].dep
  BY <1>4, <1>5, PlannedKeeps
<1>7. (u.cur = None <=> s[r].cur = None) /\ u.cur.obj = s[r].cur.obj
  BY <1>4, <1>5, PlannedKeeps
<1>8. \A n : Has(u, n) <=> Has(s[r], n)
  BY <1>4, <1>5, PlannedKeeps
<1>9. s[r].cur # None => u.cur.tainted = s[r].cur.tainted
  BY <1>4, <1>5, PlannedKeeps
<1>10. r \in DOMAIN c /\ s[r].cur # None =>
         /\ u.cur.cbd = PlannedCBD(c, r)
         /\ action[r] = "NoOp" => u.cur.deps = Dependencies(c, r)
         /\ Dependencies(c, r) \subseteq u.cur.deps
  BY <1>4, <1>5, PlannedKeeps
<1>11. QED
  BY <1>2, <1>3, <1>4, <1>6, <1>7, <1>8, <1>9, <1>10 DEF CurId

\* The plan, the graph and the state that it is made for go together, whether
\* it is walked or not.
LEMMA PlanFitsTogether ==
  ASSUME RecordInv, NEW c \in Configs, PlanAndBuild(c)
  PROVE  \E t : 
           /\ t = Planned(c, Refreshed, plan'.action)
           /\ \/ phase' = "walk" /\ state' = t
              \/ phase' = "idle" /\ state' = state
           /\ PlanFits' /\ Fitting(graph, plan)'
           /\ \A r \in Resource, k \in Key :
                t[r].dep[k] # None => Deposed(r, k) \in graph'.node
           /\ \A r \in Resource : Fits(c, Refreshed, plan'.action, r)
           /\ \A r \in Resource : plan'.action[r] = "CreateThenDelete" =>
                t[r].dep[plan'.key[r]] = None
           /\ plan'.config = c
<1> DEFINE action == plan'.action
<1>1. PICK t :
           /\ action \in [Resource -> Actions]
           /\ \A r \in Resource : Fits(c, Refreshed, action, r)
           /\ t = Planned(c, Refreshed, action)
           /\ plan'.config = c
           /\ plan'.key = [r \in Resource |-> IF action[r] = "CreateThenDelete"
                             THEN UnusedKey(Refreshed[r].dep) ELSE 0]
           /\ graph' = Build(t, plan') /\ status' = [v \in graph'.node |-> "pending"]
           /\ \/ phase' = "walk" /\ state' = t
              \/ phase' = "idle" /\ state' = state
           /\ round' = round + 1 /\ round < MaxRounds /\ real' = real
  BY PlanParts
<1>2. \A r \in Resource : action[r] = "CreateThenDelete" =>
        /\ UnusedKey(Refreshed[r].dep) \in Key
        /\ Refreshed[r].dep[UnusedKey(Refreshed[r].dep)] = None
  BY <1>1, FitsActions, KeysFit DEF Replaces
<1>3. /\ plan'.key \in [Resource -> Key \cup {0}]
      /\ \A r \in Resource : plan'.key[r] # 0 <=> action[r] = "CreateThenDelete"
  BY <1>1, <1>2, KeyAssumption
<1>4. ASSUME NEW r \in Resource, action[r] = "DeleteThenCreate"
      PROVE  t[r].cur.cbd = FALSE
  <2>1. r \in DOMAIN c /\ Refreshed[r].cur # None /\ ~PlannedCBD(c, r)
    BY <1>1, <1>4, FitsActions DEF Replaces, New
  <2>2. t[r].cur.cbd = PlannedCBD(c, r)
    BY <1>1, <2>1, PlannedInstance
  <2>3. PlannedCBD(c, r) \in BOOLEAN
    BY DEF PlannedCBD
  <2>4. QED
    BY <2>1, <2>2, <2>3
<1>5. /\ Fitting(graph', plan')
      /\ \A r \in Resource, k \in Key :
                t[r].dep[k] # None => Deposed(r, k) \in graph'.node
  BY <1>1, <1>3, <1>4, BuildFits
<1>6. PlanFits'
  <2>1. plan'.config \in Configs /\ DOMAIN plan'.config \subseteq Resource
    BY <1>1, RoundsAssumption
  <2>2. ASSUME NEW r \in Resource
        PROVE  IF r \in DOMAIN c THEN action[r] \in New \cup {"NoOp", "Update"}
               ELSE action[r] \in {"None", "Delete"}
    BY <1>1, FitsActions
  <2>3. QED
    BY <1>1, <1>3, <2>1, <2>2 DEF PlanFits
<1>7. \A r \in Resource : action[r] = "CreateThenDelete" => t[r].dep[plan'.key[r]] = None
  BY <1>1, <1>2, PlannedInstance
<1>8. QED
  BY <1>1, <1>5, <1>6, <1>7

\* Planning keeps what the records and the walk rely on.
LEMMA PlanKeeps ==
  ASSUME RecordInv, NEW c \in Configs, PlanAndBuild(c)
  PROVE  RecordInv'
<1>1. PICK t : 
           /\ t = Planned(c, Refreshed, plan'.action)
           /\ \/ phase' = "walk" /\ state' = t
              \/ phase' = "idle" /\ state' = state
           /\ PlanFits' /\ Fitting(graph, plan)'
           /\ \A r \in Resource : Fits(c, Refreshed, plan'.action, r)
           /\ \A r \in Resource : plan'.action[r] = "CreateThenDelete" =>
                t[r].dep[plan'.key[r]] = None
  BY PlanFitsTogether
<1>2. /\ status' = [v \in graph'.node |-> "pending"]
      /\ round' = round + 1 /\ round < MaxRounds /\ real' = real
  BY DEF PlanAndBuild
<1>3. /\ \A r \in Resource : Distinct(state[r])
      /\ \A r \in Resource, n \in 1..MaxRounds : Has(state[r], n) => n <= round
      /\ \A id \in DOMAIN real : Has(state[id[1]], id[2])
      /\ DOMAIN real \subseteq Ids /\ round \in 0..MaxRounds
      /\ state \in [Resource -> Instances]
  BY DEF RecordInv, Recorded, Typed
<1>4. \A r \in Resource :
           /\ t[r] \in Instances /\ Distinct(t[r])
           /\ t[r].cur = None <=> Refreshed[r].cur = None
           /\ \A n : Has(t[r], n) <=> Has(state[r], n) /\ <<r, n>> \in DOMAIN real
           /\ t[r].cur # None => CurId(t, r) \in DOMAIN real
  BY <1>1, PlannedInstance
<1>5. t \in [Resource -> Instances]
  <2>1. DOMAIN t = Resource /\ t = [r \in Resource |-> t[r]]
    BY <1>1 DEF Planned
  <2>2. QED
    BY <1>4, <2>1
<1>6. /\ state' \in [Resource -> Instances]
      /\ \A r \in Resource : Distinct(state'[r])
      /\ \A r \in Resource, n \in 1..MaxRounds : Has(state'[r], n) => n <= round
      /\ \A id \in DOMAIN real : Has(state'[id[1]], id[2])
  <2>1. ASSUME NEW id \in DOMAIN real PROVE Has(t[id[1]], id[2])
    <3>1. id[1] \in Resource /\ <<id[1], id[2]>> = id
      BY <1>3 DEF Ids
    <3>2. QED
      BY <1>3, <1>4, <3>1
  <2>2. CASE state' = t
    BY <1>3, <1>4, <1>5, <2>1, <2>2
  <2>3. CASE state' = state
    BY <1>3, <2>3
  <2>4. QED
    BY <1>1, <2>2, <2>3
<1>7. Typed'
  <2>1. round' \in 0..MaxRounds
    BY <1>2, <1>3, RoundsAssumption
  <2>2. status' \in [graph'.node -> StatusOf]
    BY <1>2 DEF StatusOf
  <2>3. QED
    BY <1>1, <1>2, <1>3, <1>6, <2>1, <2>2 DEF Typed
<1>8. Recorded'
  BY <1>2, <1>3, <1>6 DEF Recorded
<1>9. GraphFits' /\ WalkOrder'
  BY <1>1, <1>2 DEF GraphFits, WalkOrder
<1>10. CreatorFinds'
  <2> SUFFICES ASSUME phase' = "walk", NEW r \in Resource PROVE Finds(r)'
    BY DEF CreatorFinds
  <2>1. state' = t
    BY <1>1
  <2>2. \A n \in 1..MaxRounds : Has(state'[r], n) => n < round'
    BY <1>2, <1>3, <1>6
  <2>3. plan'.action[r] = "Create" => state'[r].cur = None
    BY <1>1, <1>4, <2>1, FitsActions
  <2>4. plan'.action[r] \in {"NoOp", "Update"} =>
                 state'[r].cur # None /\ CurId(state', r) \in DOMAIN real'
    BY <1>1, <1>2, <1>4, <2>1, FitsActions
  <2>5. Unfinished(r)' => status'[Creator(r)] = "pending"
    BY <1>2 DEF Unfinished
  <2>6. plan'.action[r] = "DeleteThenCreate" => status'[Destroyer(r)] = "pending"
    BY <1>1, <1>2 DEF Fitting
  <2>7. plan'.action[r] = "CreateThenDelete" => state'[r].dep[plan'.key[r]] = None
    BY <1>1, <2>1
  <2>8. QED
    BY <2>2, <2>3, <2>4, <2>5, <2>6, <2>7 DEF Finds
<1>11. QED
  BY <1>1, <1>7, <1>8, <1>9, <1>10 DEF RecordInv

-----------------------------------------------------------------------------
(* The walk.                                                               *)

\* A vertex's status changes: what is done stays done, and what runs has what
\* it waits for.
LEMMA OrderKept ==
  ASSUME Typed, WalkOrder, phase = "walk", NEW v \in graph.node, NEW o \in StatusOf,
         Ends(v, o), status[v] # "done", \A w \in Waits(v) : status[w] = "done",
         UNCHANGED <<graph, phase>>
  PROVE  /\ status' \in [graph'.node -> StatusOf] /\ WalkOrder'
         /\ \A w \in graph.node : status'[w] = IF w = v THEN o ELSE status[w]
<1>1. status' = [status EXCEPT ![v] = o]
  BY DEF Ends
<1>2. \A w \in graph.node : status'[w] = IF w = v THEN o ELSE status[w]
  BY <1>1 DEF Typed
<1>3. status' \in [graph'.node -> StatusOf]
  BY <1>1 DEF Typed
<1>4. WalkOrder'
  BY <1>2 DEF WalkOrder, Waits
<1>5. QED
  BY <1>2, <1>3, <1>4

\* A vertex of one resource changes its status and what that resource records.
LEMMA StepKeeps ==
  ASSUME RecordInv, phase = "walk", NEW r \in Resource, NEW v \in graph.node, v.res = r,
         NEW o \in StatusOf, Ends(v, o), status[v] # "done",
         \A w \in Waits(v) : status[w] = "done",
         NEW t \in Instances, Distinct(t), state' = [state EXCEPT ![r] = t],
         DOMAIN real' \subseteq Ids,
         \A id \in Ids : id[1] # r => (id \in DOMAIN real' <=> id \in DOMAIN real),
         \A n \in 1..MaxRounds : /\ <<r, n>> \in DOMAIN real' => Has(t, n)
                                 /\ Has(t, n) => n <= round,
         UNCHANGED <<plan, graph, phase, round>>, Finds(r)'
  PROVE  RecordInv'
<1>1. /\ Typed /\ Recorded /\ PlanFits /\ GraphFits /\ WalkOrder /\ CreatorFinds
  BY DEF RecordInv
<1>2. /\ status' \in [graph'.node -> StatusOf] /\ WalkOrder'
      /\ \A w \in graph.node : status'[w] = IF w = v THEN o ELSE status[w]
  BY <1>1, OrderKept
<1>3. state' \in [Resource -> Instances]
      /\ \A q \in Resource : state'[q] = IF q = r THEN t ELSE state[q]
  BY <1>1 DEF Typed
<1>4. Typed'
  BY <1>1, <1>2, <1>3 DEF Typed
<1>5. Recorded'
  <2>1. ASSUME NEW id \in DOMAIN real' PROVE Has(state'[id[1]], id[2])
    <3>1. id \in Ids /\ id[1] \in Resource /\ id[2] \in 1..MaxRounds /\ id = <<id[1], id[2]>>
      BY DEF Ids
    <3>2. CASE id[1] = r
      BY <1>3, <3>1, <3>2
    <3>3. CASE id[1] # r
      BY <1>1, <1>3, <3>1, <3>3 DEF Recorded
    <3>4. QED
      BY <3>2, <3>3
  <2>2. \A q \in Resource : Distinct(state'[q])
    BY <1>1, <1>3 DEF Recorded
  <2>3. \A q \in Resource, n \in 1..MaxRounds : Has(state'[q], n) => n <= round
    BY <1>1, <1>3 DEF Recorded
  <2>4. QED
    BY <2>1, <2>2, <2>3 DEF Recorded
<1>6. PlanFits' /\ GraphFits'
  BY <1>1 DEF PlanFits, GraphFits, Fitting
<1>7. CreatorFinds'
  <2>1. ASSUME NEW q \in Resource, q # r PROVE Finds(q)'
    <3>1. Finds(q)
      BY <1>1 DEF CreatorFinds
    <3>2. state'[q] = state[q]
      BY <1>3, <2>1
    <3>3. Creator(q) # v /\ Destroyer(q) # v
      BY <2>1 DEF Creator, Destroyer
    <3>4. Unfinished(q)' => Unfinished(q) /\ status'[Creator(q)] = status[Creator(q)]
      BY <1>2, <3>3 DEF Unfinished
    <3>5. plan.action[q] = "DeleteThenCreate" =>
            status'[Destroyer(q)] = status[Destroyer(q)]
      BY <1>1, <1>2, <3>3 DEF GraphFits, Fitting
    <3>6. CurId(state, q) = CurId(state', q)
      BY <3>2 DEF CurId
    <3>7. CurId(state, q) \in DOMAIN real => CurId(state', q) \in DOMAIN real'
      BY <1>1, <2>1, <3>6 DEF CurId, Typed
    <3>8. UpdateFailed(q) => UpdateFailed(q)'
      BY <1>2, <3>3 DEF UpdateFailed
    <3>9. QED
      BY <3>1, <3>2, <3>4, <3>5, <3>7, <3>8 DEF Finds
  <2>2. QED
    BY <2>1 DEF CreatorFinds
<1>8. QED
  BY <1>2, <1>4, <1>5, <1>6, <1>7 DEF RecordInv

\* What a creator has when it starts: either it leaves the state, or it deposes
\* the current object under the unused key of the plan.
LEMMA CreatorStarts ==
  ASSUME RecordInv, NEW r \in Resource, StartCreator(r)
  PROVE  \/ /\ plan.action[r] = "CreateThenDelete" /\ state[r].cur # None
            /\ plan.key[r] \in Key /\ state[r].dep[plan.key[r]] = None
            /\ state' = [state EXCEPT ![r] = Depose(state[r], plan.key[r])]
         \/ /\ state' = state
            /\ plan.action[r] = "CreateThenDelete" => state[r].cur = None
<1>1. /\ PlanFits /\ GraphFits /\ Finds(r) /\ Typed
      /\ phase = "walk" /\ Creator(r) \in graph.node /\ Ready(Creator(r)) /\ Unfinished(r)
  BY DEF RecordInv, CreatorFinds, StartCreator, Ready, Unfinished
<1>2. CASE plan.action[r] = "CreateThenDelete"
  <2>1. DeposesFirst(r) /\ plan.key[r] # 0 /\ plan.key[r] \in Key
    BY <1>1, <1>2 DEF DeposesFirst, PlanFits
  <2>2. state[r].dep[plan.key[r]] = None
    BY <1>1, <1>2 DEF Finds, Ready, New, Replaces
  <2>3. QED
    BY <1>2, <2>1, <2>2 DEF StartCreator
<1>3. CASE plan.action[r] # "CreateThenDelete" /\ DeposesFirst(r)
  <2>1. plan.action[r] = "DeleteThenCreate"
    BY <1>3 DEF DeposesFirst, Replaces
  <2>2. Destroyer(r) \in Waits(Creator(r))
    BY <1>1, <2>1 DEF GraphFits, Fitting, Waits
  <2>3. state[r].cur = None
    BY <1>1, <2>1, <2>2 DEF Finds, Ready, New, Replaces
  <2>4. QED
    BY <1>3, <2>3 DEF StartCreator
<1>4. CASE ~DeposesFirst(r)
  BY <1>4 DEF DeposesFirst, StartCreator
<1>5. QED
  BY <1>2, <1>3, <1>4

\* The state's record of a resource replaced by itself.
LEMMA SameRecord ==
  ASSUME Typed, NEW r \in Resource
  PROVE  state[r] \in Instances /\ state = [state EXCEPT ![r] = state[r]]
  BY DEF Typed

\* A creator starts.
LEMMA StartCreatorKeeps ==
  ASSUME RecordInv, NEW r \in Resource, StartCreator(r)
  PROVE  RecordInv'
<1>1. /\ Typed /\ Recorded /\ PlanFits /\ GraphFits /\ WalkOrder /\ Finds(r)
      /\ phase = "walk" /\ Creator(r) \in graph.node /\ Ready(Creator(r)) /\ Unfinished(r)
      /\ Ends(Creator(r), "running") /\ UNCHANGED <<real, plan, graph, phase, round>>
  BY DEF RecordInv, CreatorFinds, StartCreator, Ready, Unfinished
<1>2. /\ status[Creator(r)] = "pending" /\ \A w \in Waits(Creator(r)) : status[w] = "done"
      /\ Creator(r).res = r /\ "running" \in StatusOf
  BY <1>1 DEF Ready, Creator, StatusOf
<1>3. \A w \in graph.node : status'[w] = IF w = Creator(r) THEN "running" ELSE status[w]
  BY <1>1, <1>2, OrderKept
<1>4. PICK t \in Instances :
        /\ state' = [state EXCEPT ![r] = t] /\ Distinct(t) /\ \A n : Has(t, n) <=> Has(state[r], n)
        /\ plan.action[r] = "CreateThenDelete" => t.cur = None
        /\ plan.action[r] # "CreateThenDelete" => t = state[r]
  <2>1. state[r] \in Instances /\ Distinct(state[r])
    BY <1>1 DEF Typed, Recorded
  <2>2. CASE /\ plan.action[r] = "CreateThenDelete" /\ state[r].cur # None
             /\ plan.key[r] \in Key /\ state[r].dep[plan.key[r]] = None
             /\ state' = [state EXCEPT ![r] = Depose(state[r], plan.key[r])]
    <3>1. PICK u : u = Depose(state[r], plan.key[r])
      OBVIOUS
    <3>2. u \in Instances /\ Distinct(u) /\ u.cur = None /\ \A n : Has(u, n) <=> Has(state[r], n)
      BY <2>1, <2>2, <3>1, DeposeKeeps
    <3>3. QED
      BY <2>2, <3>1, <3>2
  <2>3. CASE state' = state /\ (plan.action[r] = "CreateThenDelete" => state[r].cur = None)
    BY <1>1, <2>1, <2>3, SameRecord
  <2>4. QED
    BY <2>2, <2>3, CreatorStarts
<1>5. state'[r] = t
  BY <1>1, <1>4 DEF Typed
<1>6. Finds(r)'
  <2>1. \A n \in 1..MaxRounds : plan.action[r] \in New /\ Has(t, n) => n < round
    BY <1>1, <1>4 DEF Finds
  <2>2. plan.action[r] = "DeleteThenCreate" => status'[Destroyer(r)] = status[Destroyer(r)]
    BY <1>1, <1>3, VerticesDiffer DEF GraphFits, Fitting
  <2>3. status'[Creator(r)] = "running"
    BY <1>1, <1>3
  <2>4. plan.action[r] \in {"NoOp", "Update"} => CurId(state', r) = CurId(state, r)
    BY <1>4, <1>5 DEF CurId
  <2>5. ~UpdateFailed(r)
    BY <1>2 DEF UpdateFailed
  <2>6. QED
    BY <1>1, <1>4, <1>5, <2>1, <2>2, <2>3, <2>4, <2>5 DEF Finds, New, Replaces
<1>7. \A n \in 1..MaxRounds : /\ <<r, n>> \in DOMAIN real' => Has(t, n)
                              /\ Has(t, n) => n <= round
  BY <1>1, <1>4 DEF Recorded
<1>8. DOMAIN real' \subseteq Ids
  BY <1>1 DEF Typed
<1>9. QED
  BY <1>1, <1>2, <1>4, <1>6, <1>7, <1>8, StepKeeps

\* A destroyer starts.
LEMMA StartDestroyerKeeps ==
  ASSUME RecordInv, NEW v \in graph.node, StartDestroyer(v)
  PROVE  RecordInv'
<1>1. /\ Typed /\ Recorded /\ PlanFits /\ GraphFits /\ WalkOrder /\ CreatorFinds
      /\ phase = "walk" /\ Ready(v) /\ IsDestroyer(v)
      /\ Ends(v, "running") /\ UNCHANGED <<real, state, plan, graph, phase, round>>
  BY DEF RecordInv, StartDestroyer
<1>2. /\ status[v] = "pending" /\ \A w \in Waits(v) : status[w] = "done"
      /\ v.res \in Resource /\ "running" \in StatusOf
  BY <1>1 DEF Ready, StatusOf, GraphFits, Fitting
<1>3. \A w \in graph.node : status'[w] = IF w = v THEN "running" ELSE status[w]
  BY <1>1, <1>2, OrderKept
<1>4. PICK r \in Resource : r = v.res
  BY <1>2
<1>5. /\ state[r] \in Instances /\ state' = [state EXCEPT ![r] = state[r]]
      /\ Distinct(state[r]) /\ DOMAIN real \subseteq Ids
      /\ \A n \in 1..MaxRounds : /\ <<r, n>> \in DOMAIN real' => Has(state[r], n)
                                 /\ Has(state[r], n) => n <= round
  BY <1>1, SameRecord DEF Recorded, Typed
<1>6. Finds(r)'
  <2>1. Finds(r) /\ Creator(r) # v
    BY <1>1, VerticesDiffer DEF CreatorFinds
  <2>2. Unfinished(r)' => Unfinished(r) /\ status'[Creator(r)] = status[Creator(r)]
    BY <1>1, <1>3, <2>1 DEF Unfinished
  <2>3. plan.action[r] = "DeleteThenCreate" /\ status'[Destroyer(r)] = "done" =>
          status[Destroyer(r)] = "done"
    BY <1>1, <1>3 DEF GraphFits, Fitting
  <2>4. CurId(state', r) = CurId(state, r)
    BY <1>1
  <2>5. UpdateFailed(r) => UpdateFailed(r)'
    BY <1>1, <1>3, <2>1 DEF UpdateFailed
  <2>6. QED
    BY <1>1, <2>1, <2>2, <2>3, <2>4, <2>5 DEF Finds
<1>7. QED
  BY <1>1, <1>2, <1>4, <1>5, <1>6, StepKeeps

\* A vertex returns before the provider's call.
LEMMA FailEarlyKeeps ==
  ASSUME RecordInv, NEW v \in graph.node, FailEarly(v)
  PROVE  RecordInv'
<1>1. /\ Typed /\ Recorded /\ PlanFits /\ GraphFits /\ WalkOrder /\ CreatorFinds
      /\ status[v] = "running"
      /\ Ends(v, "failed") /\ UNCHANGED <<real, state, plan, graph, phase, round>>
  BY DEF RecordInv, FailEarly
<1>2. phase = "walk" /\ \A w \in Waits(v) : status[w] = "done"
  BY <1>1 DEF WalkOrder
<1>3. v.res \in Resource /\ "failed" \in StatusOf
  BY <1>1, <1>2 DEF StatusOf, GraphFits, Fitting
<1>4. \A w \in graph.node : status'[w] = IF w = v THEN "failed" ELSE status[w]
  BY <1>1, <1>2, <1>3, OrderKept
<1>5. PICK r \in Resource : r = v.res
  BY <1>3
<1>6. /\ state[r] \in Instances /\ state' = [state EXCEPT ![r] = state[r]]
      /\ Distinct(state[r]) /\ DOMAIN real \subseteq Ids
      /\ \A n \in 1..MaxRounds : /\ <<r, n>> \in DOMAIN real' => Has(state[r], n)
                                 /\ Has(state[r], n) => n <= round
  BY <1>1, SameRecord DEF Recorded, Typed
<1>7. Finds(r)'
  <2>1. Finds(r)
    BY <1>1, <1>2 DEF CreatorFinds
  <2>2. Unfinished(r)' => Unfinished(r) /\ status'[Creator(r)] = status[Creator(r)]
    BY <1>1, <1>4 DEF Unfinished
  <2>3. plan.action[r] = "DeleteThenCreate" /\ status'[Destroyer(r)] = "done" =>
          status[Destroyer(r)] = "done"
    BY <1>1, <1>2, <1>4 DEF GraphFits, Fitting
  <2>4. CurId(state', r) = CurId(state, r)
    BY <1>1
  <2>5. UpdateFailed(r) => UpdateFailed(r)'
    BY <1>1, <1>4 DEF UpdateFailed
  <2>6. QED
    BY <1>1, <2>1, <2>2, <2>3, <2>4, <2>5 DEF Finds
<1>8. QED
  BY <1>1, <1>2, <1>3, <1>5, <1>6, <1>7, StepKeeps

\* What a creator makes can be recorded.
LEMMA MadeTyped ==
  ASSUME PlanFits, phase = "walk", NEW r \in Resource, NEW n \in 1..MaxRounds,
         NEW tainted \in BOOLEAN
  PROVE  /\ Made(r, n, tainted) \in Objects /\ Made(r, n, tainted).obj = n
         /\ Made(r, n, tainted).tainted = tainted
         /\ Made(r, n, tainted).deps = Dependencies(plan.config, r)
<1>1. Dependencies(plan.config, r) \in SUBSET Resource
  BY DependenciesDeclared DEF PlanFits
<1>2. CreatorCBD(plan, r) \in BOOLEAN
  BY DEF CreatorCBD
<1>3. PICK D \in SUBSET Resource, f \in BOOLEAN :
        D = Dependencies(plan.config, r) /\ f = CreatorCBD(plan, r)
  BY <1>1, <1>2
<1>4. Made(r, n, tainted) = [obj |-> n, tainted |-> tainted, deps |-> D, cbd |-> f]
  BY <1>3 DEF Made, Object
<1>5. QED
  BY <1>3, <1>4 DEF Objects

\* A creator returns; what is left to show is what it records.
LEMMA FinishedKeeps ==
  ASSUME RecordInv, NEW r \in Resource, FinishCreator(r),
         NEW o \in {"done", "failed"}, Ends(Creator(r), o),
         NEW t \in Instances, Distinct(t), state' = [state EXCEPT ![r] = t],
         DOMAIN real' \subseteq Ids,
         \A id \in Ids : id[1] # r => (id \in DOMAIN real' <=> id \in DOMAIN real),
         \A n \in 1..MaxRounds : /\ <<r, n>> \in DOMAIN real' => Has(t, n)
                                 /\ Has(t, n) => n <= round,
         plan.action[r] \in {"NoOp", "Update"} =>
           \/ t.cur # None /\ <<r, t.cur.obj>> \in DOMAIN real'
           \/ plan.action[r] = "Update" /\ o = "failed"
  PROVE  RecordInv'
<1>1. /\ Typed /\ GraphFits /\ WalkOrder
      /\ phase = "walk" /\ Creator(r) \in graph.node /\ status[Creator(r)] = "running"
      /\ UNCHANGED <<plan, graph, phase, round>>
  BY DEF RecordInv, FinishCreator
<1>2. \A w \in Waits(Creator(r)) : status[w] = "done"
  BY <1>1 DEF WalkOrder
<1>3. Creator(r).res = r /\ o \in StatusOf
  BY DEF Creator, StatusOf
<1>4. status'[Creator(r)] = o
  BY <1>1, <1>2, <1>3, OrderKept
<1>5. state'[r] = t
  BY <1>1 DEF Typed
<1>6. Finds(r)'
  BY <1>1, <1>4, <1>5 DEF Finds, Unfinished, UpdateFailed, CurId, New, Replaces
<1>7. QED
  BY <1>1, <1>2, <1>3, <1>6, StepKeeps

\* What the return of a creator is: t is the new record of its resource, and o
\* how it ends.
CreatorLeaves(r, o, t) ==
  /\ o \in {"done", "failed"} /\ Ends(Creator(r), o)
  /\ t \in Instances /\ Distinct(t) /\ state' = [state EXCEPT ![r] = t]
  /\ DOMAIN real' \subseteq Ids
  /\ \A id \in Ids : id[1] # r => /\ id \in DOMAIN real' <=> id \in DOMAIN real
                                  /\ id \in DOMAIN real => real'[id] = real[id]
  /\ \A id \in DOMAIN real' : \/ real'[id] = Refers(plan.config, state, r)
                              \/ id \in DOMAIN real /\ real'[id] = real[id]
  /\ \A n \in 1..MaxRounds : /\ <<r, n>> \in DOMAIN real' => Has(t, n)
                             /\ Has(t, n) => n <= round
  /\ \A k \in Key : t.dep[k] # None => t.dep[k] = state[r].dep[k]
  /\ \/ t.cur \in {None, state[r].cur}
     \/ t.cur.deps = Dependencies(plan.config, r)
     \/ plan.key[r] # 0 /\ t.cur = state[r].dep[plan.key[r]]
  /\ \A id \in DOMAIN real' :
       id \in DOMAIN real \/ (id = <<r, round>> /\ plan.action[r] \in New)
  /\ plan.action[r] \in {"NoOp", "Update"} =>
       \/ /\ t.cur # None /\ t.cur.obj = state[r].cur.obj
          /\ <<r, t.cur.obj>> \in DOMAIN real'
       \/ /\ plan.action[r] = "Update" /\ o = "failed"
          /\ CurId(state, r) \notin DOMAIN real'
  /\ plan.action[r] = "NoOp" => t = state[r] /\ real' = real
  /\ o = "done" /\ plan.action[r] # "NoOp" =>
       /\ t.cur # None /\ ~t.cur.tainted /\ t.cur.deps = Dependencies(plan.config, r)
       /\ <<r, t.cur.obj>> \in DOMAIN real'
       /\ real'[<<r, t.cur.obj>>] = Refers(plan.config, state, r)

\* Nothing changes.
LEMMA NoOpReturns ==
  ASSUME RecordInv, NEW r \in Resource, FinishCreator(r), plan.action[r] = "NoOp"
  PROVE  CreatorLeaves(r, "done", state[r])
<1>1. /\ Typed /\ Recorded /\ Finds(r) /\ Ends(Creator(r), "done") /\ real' = real /\ state' = state
  BY DEF RecordInv, CreatorFinds, FinishCreator
<1>2. /\ state[r] \in Instances /\ state' = [state EXCEPT ![r] = state[r]]
      /\ Distinct(state[r]) /\ DOMAIN real \subseteq Ids
      /\ \A n \in 1..MaxRounds : /\ <<r, n>> \in DOMAIN real => Has(state[r], n)
                                 /\ Has(state[r], n) => n <= round
  BY <1>1, SameRecord DEF Recorded, Typed
<1>3. /\ state[r].cur # None /\ CurId(state, r) \in DOMAIN real
      /\ CurId(state, r) = <<r, state[r].cur.obj>>
  BY <1>1 DEF Finds, UpdateFailed, CurId
<1>4. QED
  BY <1>1, <1>2, <1>3 DEF CreatorLeaves

\* The real objects without one.
LEMMA WithoutOne ==
  ASSUME NEW id
  PROVE  /\ DOMAIN Without(id) = DOMAIN real \ {id}
         /\ \A i \in DOMAIN Without(id) : Without(id)[i] = real[i]
  BY DEF Without

\* An update, after which the record is gone.
Drops(r) == /\ real' = Without(CurId(state, r))
            /\ state' = [state EXCEPT ![r].cur = None] /\ Ends(Creator(r), "failed")

LEMMA UpdateDrops ==
  ASSUME RecordInv, NEW r \in Resource, FinishCreator(r), plan.action[r] = "Update", Drops(r)
  PROVE  \E o, t : CreatorLeaves(r, o, t)
<1>1. /\ Typed /\ Recorded /\ Finds(r) /\ status[Creator(r)] = "running"
  BY DEF RecordInv, CreatorFinds, FinishCreator
<1>2. /\ state[r] \in Instances /\ Distinct(state[r]) /\ DOMAIN real \subseteq Ids
      /\ \A n \in 1..MaxRounds : /\ <<r, n>> \in DOMAIN real => Has(state[r], n)
                                 /\ Has(state[r], n) => n <= round
  BY <1>1 DEF Recorded, Typed
<1>3. PICK s \in Instances : s = state[r]
  BY <1>2
<1>4. CurId(state, r) = <<r, s.cur.obj>>
  BY <1>3 DEF CurId
<1>5. /\ DOMAIN real' = DOMAIN real \ {CurId(state, r)}
      /\ \A i \in DOMAIN real' : real'[i] = real[i]
  BY WithoutOne DEF Drops
<1>6. PICK t : t = [s EXCEPT !.cur = None]
  OBVIOUS
<1>7. t \in Instances /\ t.cur = None /\ t.dep = s.dep
  BY <1>6, CurrentWritten
<1>8. Distinct(t) /\ \A n : Has(t, n) <=> Has(s, n) /\ n # s.cur.obj
  BY <1>2, <1>3, <1>6, RemoveKeeps
<1>9. state' = [state EXCEPT ![r] = t] /\ Ends(Creator(r), "failed")
  BY <1>1, <1>3, <1>6 DEF Drops, Typed
<1>10. \A n \in 1..MaxRounds : /\ <<r, n>> \in DOMAIN real' => Has(t, n)
                               /\ Has(t, n) => n <= round
  BY <1>2, <1>3, <1>4, <1>5, <1>8
<1>11. \A id \in Ids : id[1] # r => /\ id \in DOMAIN real' <=> id \in DOMAIN real
                                    /\ id \in DOMAIN real => real'[id] = real[id]
  BY <1>4, <1>5
<1>12. CreatorLeaves(r, "failed", t)
  BY <1>2, <1>3, <1>5, <1>7, <1>8, <1>9, <1>10, <1>11 DEF CreatorLeaves
<1>13. QED
  BY <1>12

\* An update.
LEMMA UpdateReturns ==
  ASSUME RecordInv, NEW r \in Resource, FinishCreator(r), plan.action[r] = "Update"
  PROVE  \E o, t : CreatorLeaves(r, o, t)
<1> SUFFICES ASSUME ~Drops(r) PROVE \E o, t : CreatorLeaves(r, o, t)
  BY UpdateDrops
<1>1. /\ Typed /\ Recorded /\ Finds(r) /\ PlanFits /\ phase = "walk" /\ Updated(r)
      /\ status[Creator(r)] = "running"
  BY DEF RecordInv, CreatorFinds, FinishCreator
<1>2. /\ state[r] \in Instances /\ Distinct(state[r]) /\ DOMAIN real \subseteq Ids
      /\ \A n \in 1..MaxRounds : /\ <<r, n>> \in DOMAIN real => Has(state[r], n)
                                 /\ Has(state[r], n) => n <= round
  BY <1>1 DEF Recorded, Typed
<1>3. PICK s \in Instances : s = state[r]
  BY <1>2
<1>4. s.cur # None /\ CurId(state, r) = <<r, s.cur.obj>> /\ <<r, s.cur.obj>> \in DOMAIN real
  BY <1>1, <1>3 DEF Finds, UpdateFailed, CurId
<1>5. PICK cur \in Objects : cur = s.cur
  BY <1>3, <1>4 DEF Instances
<1>6. cur.obj \in 1..MaxRounds
  BY <1>4, <1>5, NoObject
<1>7. PICK after \in Objects : /\ after = Made(r, cur.obj, FALSE) /\ after.obj = cur.obj
                               /\ ~after.tainted /\ after.deps = Dependencies(plan.config, r)
  BY <1>1, <1>6, MadeTyped
<1>8. PICK changed : changed = [real EXCEPT ![<<r, cur.obj>>] = Refers(plan.config, state, r)]
  OBVIOUS
<1>9. /\ DOMAIN changed = DOMAIN real
      /\ \A id \in Ids : id[1] # r /\ id \in DOMAIN real => changed[id] = real[id]
      /\ changed[<<r, cur.obj>>] = Refers(plan.config, state, r)
      /\ \A id \in DOMAIN real : changed[id] \in {real[id], Refers(plan.config, state, r)}
  BY <1>4, <1>5, <1>8
<1>10. PICK o \in {"done", "failed"}, x \in Objects :
         /\ Ends(Creator(r), o) /\ real' \in {real, changed} /\ x.obj = cur.obj
         /\ x.deps = Dependencies(plan.config, r)
         /\ state' = [state EXCEPT ![r].cur = x]
         /\ o = "done" => x = after /\ real' = changed
  <2>1. CASE /\ real' = changed /\ state' = [state EXCEPT ![r].cur = after]
             /\ EndsAfter(Creator(r))
    BY <1>7, <2>1 DEF EndsAfter
  <2>2. ASSUME NEW x \in {after, [cur EXCEPT !.deps = after.deps]},
               state' = [state EXCEPT ![r].cur = x],
               real' \in {real, changed}, Ends(Creator(r), "failed")
        PROVE  \E y \in Objects : /\ state' = [state EXCEPT ![r].cur = y]
                                  /\ y.obj = cur.obj /\ y.deps = after.deps
    <3>1. PICK D \in SUBSET Resource : D = after.deps
      BY DEF Objects
    <3>2. PICK y \in Objects : y = [cur EXCEPT !.deps = D]
      BY DEF Objects
    <3>3. y.obj = cur.obj /\ y.deps = D
      BY <3>2 DEF Objects
    <3>4. QED
      BY <1>7, <2>2, <3>1, <3>2, <3>3
  <2>3. \/ /\ real' = changed /\ state' = [state EXCEPT ![r].cur = after]
           /\ EndsAfter(Creator(r))
        \/ /\ real' \in {real, changed}
           /\ \E x \in {after, [cur EXCEPT !.deps = after.deps]} :
                state' = [state EXCEPT ![r].cur = x]
           /\ Ends(Creator(r), "failed")
    BY <1>1, <1>3, <1>4, <1>5, <1>7, <1>8 DEF Updated, Drops
  <2>4. QED
    BY <1>7, <2>1, <2>2, <2>3
<1>11. PICK t : t = [s EXCEPT !.cur = x]
  OBVIOUS
<1>12. t \in Instances /\ t.cur = x /\ t.dep = s.dep
  BY <1>11, CurrentWritten
<1>13. Distinct(t) /\ \A n : Has(t, n) <=> Has(s, n)
  BY <1>2, <1>3, <1>4, <1>5, <1>10, <1>11, UpdateKeeps
<1>14. state' = [state EXCEPT ![r] = t]
  BY <1>1, <1>3, <1>10, <1>11 DEF Typed
<1>15. t.cur # None
  BY <1>12, NoObject
<1>16. /\ DOMAIN real' = DOMAIN real
       /\ \A id \in Ids : id[1] # r /\ id \in DOMAIN real => real'[id] = real[id]
       /\ \A id \in DOMAIN real : real'[id] \in {real[id], Refers(plan.config, state, r)}
  BY <1>9, <1>10
<1>17. o = "done" =>
         /\ ~t.cur.tainted /\ t.cur.deps = Dependencies(plan.config, r)
         /\ real'[<<r, t.cur.obj>>] = Refers(plan.config, state, r)
  BY <1>7, <1>9, <1>10, <1>12
<1>18. \A n \in 1..MaxRounds : /\ <<r, n>> \in DOMAIN real' => Has(t, n)
                               /\ Has(t, n) => n <= round
  BY <1>2, <1>3, <1>13, <1>16
<1>19. t.cur.obj = s.cur.obj /\ <<r, t.cur.obj>> \in DOMAIN real'
  BY <1>4, <1>5, <1>10, <1>12, <1>16
<1>20. \A id \in DOMAIN real' : \/ real'[id] = Refers(plan.config, state, r)
                                \/ id \in DOMAIN real /\ real'[id] = real[id]
  BY <1>16
<1>21. DOMAIN real' \subseteq Ids /\ plan.action[r] # "NoOp"
  BY <1>2, <1>16
<1>22. /\ \A k \in Key : t.dep[k] # None => t.dep[k] = state[r].dep[k]
       /\ t.cur.deps = Dependencies(plan.config, r)
  BY <1>3, <1>10, <1>12
<1>23. CreatorLeaves(r, o, t)
  BY <1>3, <1>10, <1>12, <1>13, <1>14, <1>15, <1>16, <1>17, <1>18, <1>19, <1>20, <1>21, <1>22
     DEF CreatorLeaves
<1>24. QED
  BY <1>23

\* Where a creator of a new object runs there is no current one, nor one of this
\* round.
LEMMA CreatorHasRoom ==
  ASSUME RecordInv, NEW r \in Resource, phase = "walk", Creator(r) \in graph.node,
         status[Creator(r)] = "running", plan.action[r] \in New
  PROVE  /\ state[r] \in Instances /\ Distinct(state[r]) /\ state[r].cur = None
         /\ round \in 1..MaxRounds /\ ~Has(state[r], round) /\ <<r, round>> \notin DOMAIN real
<1>1. /\ Typed /\ Recorded /\ Finds(r) /\ WalkOrder /\ GraphFits
  BY DEF RecordInv, CreatorFinds
<1>2. round \in 1..MaxRounds
  BY <1>1, RoundsAssumption DEF Typed
<1>3. ~Has(state[r], round)
  BY <1>1, <1>2 DEF Finds, Unfinished
<1>4. <<r, round>> \notin DOMAIN real
  BY <1>1, <1>3 DEF Recorded
<1>5. plan.action[r] = "DeleteThenCreate" => status[Destroyer(r)] = "done"
  BY <1>1 DEF WalkOrder, Waits, GraphFits, Fitting
<1>6. state[r].cur = None
  BY <1>1, <1>5 DEF Finds, Unfinished, New, Replaces
<1>7. QED
  BY <1>1, <1>2, <1>3, <1>4, <1>6 DEF Typed, Recorded

\* A create, or the create of a replacement.
LEMMA CreateReturns ==
  ASSUME RecordInv, NEW r \in Resource, FinishCreator(r), plan.action[r] \in New
  PROVE  \E o, t : CreatorLeaves(r, o, t)
<1>1. /\ Typed /\ Recorded /\ PlanFits /\ phase = "walk" /\ Created(r)
      /\ Creator(r) \in graph.node /\ status[Creator(r)] = "running"
      /\ plan.action[r] \notin {"NoOp", "Update"}
  BY DEF RecordInv, FinishCreator, New, Replaces
<1>2. /\ state[r] \in Instances /\ Distinct(state[r]) /\ state[r].cur = None
      /\ round \in 1..MaxRounds /\ ~Has(state[r], round) /\ <<r, round>> \notin DOMAIN real
  BY <1>1, CreatorHasRoom
<1>3. /\ DOMAIN real \subseteq Ids
      /\ \A n \in 1..MaxRounds : /\ <<r, n>> \in DOMAIN real => Has(state[r], n)
                                 /\ Has(state[r], n) => n <= round
  BY <1>1 DEF Recorded, Typed
<1>4. PICK s \in Instances, key \in Key \cup {0} : s = state[r] /\ key = plan.key[r]
  BY <1>1, <1>2 DEF PlanFits
<1>5. ASSUME NEW tainted \in BOOLEAN, NEW t, t = [s EXCEPT !.cur = Made(r, round, tainted)]
      PROVE  /\ t \in Instances /\ Distinct(t)
             /\ \A n : Has(t, n) <=> Has(s, n) \/ n = round
             /\ t.dep = s.dep /\ t.cur # None /\ t.cur.tainted = tainted
             /\ t.cur.obj = round /\ t.cur.deps = Dependencies(plan.config, r)
  <2>1. PICK x \in Objects : /\ x = Made(r, round, tainted) /\ x.obj = round
                             /\ x.tainted = tainted
                             /\ x.deps = Dependencies(plan.config, r)
    BY <1>1, <1>2, MadeTyped
  <2>2. t = [s EXCEPT !.cur = x]
    BY <1>5, <2>1
  <2>3. t \in Instances /\ t.cur = x /\ t.dep = s.dep
    BY <2>2, CurrentWritten
  <2>4. Distinct(t) /\ \A n : Has(t, n) <=> Has(s, n) \/ n = x.obj
    BY <1>2, <1>4, <2>1, <2>2, CreateKeeps
  <2>5. QED
    BY <2>1, <2>3, <2>4, NoObject
<1>6. PICK made : made = NewReal(r, round)
  OBVIOUS
<1>7. /\ DOMAIN made = DOMAIN real \cup {<<r, round>>}
      /\ \A id \in Ids : id[1] # r /\ id \in DOMAIN real => made[id] = real[id]
      /\ made[<<r, round>>] = Refers(plan.config, state, r)
      /\ \A id \in DOMAIN real : id # <<r, round>> => made[id] = real[id]
  BY <1>6 DEF NewReal
<1>8. <<r, round>> \in Ids
  BY <1>2 DEF Ids
<1>9. CASE /\ real' = made /\ state' = [state EXCEPT ![r].cur = Made(r, round, FALSE)]
           /\ EndsAfter(Creator(r))
  <2>1. PICK t : t = [s EXCEPT !.cur = Made(r, round, FALSE)]
    OBVIOUS
  <2>2. state' = [state EXCEPT ![r] = t]
    BY <1>1, <1>4, <1>9, <2>1 DEF Typed
  <2>3. /\ t \in Instances /\ Distinct(t)
        /\ \A n : Has(t, n) <=> Has(s, n) \/ n = round
        /\ t.dep = s.dep /\ t.cur # None /\ t.cur.tainted = FALSE
        /\ t.cur.obj = round /\ t.cur.deps = Dependencies(plan.config, r)
    BY <1>5, <2>1
  <2>4. PICK o \in {"done", "failed"} : Ends(Creator(r), o)
    BY <1>9 DEF EndsAfter
  <2>5. \A n \in 1..MaxRounds : /\ <<r, n>> \in DOMAIN made => Has(t, n)
                                /\ Has(t, n) => n <= round
    BY <1>2, <1>3, <1>4, <1>7, <2>3
  <2>6. /\ DOMAIN made \subseteq Ids
        /\ \A id \in Ids : id[1] # r => (id \in DOMAIN made <=> id \in DOMAIN real)
    BY <1>3, <1>7, <1>8
  <2>7. <<r, t.cur.obj>> \in DOMAIN made /\ made[<<r, t.cur.obj>>] = Refers(plan.config, state, r)
    BY <1>7, <2>3
  <2>8. CreatorLeaves(r, o, t)
    BY <1>1, <1>4, <1>7, <1>9, <2>2, <2>3, <2>4, <2>5, <2>6, <2>7 DEF CreatorLeaves
  <2>9. QED
    BY <2>8
<1>10. ASSUME NEW u \in Instances, Distinct(u), u.dep = s.dep,
              u.cur = None \/ u.cur.deps = Dependencies(plan.config, r),
              \/ \A n : Has(u, n) <=> Has(s, n) \/ n = round
              \/ /\ real' = real /\ \A n \in 1..MaxRounds : Has(u, n) <=> Has(s, n),
              real' \in {real, made},
              state' = [state EXCEPT ![r] = IF DeposesFirst(r) THEN MaybeRestore(u, key) ELSE u],
              Ends(Creator(r), "failed")
       PROVE  \E o, t : CreatorLeaves(r, o, t)
  <2>1. PICK t : t = IF DeposesFirst(r) THEN MaybeRestore(u, key) ELSE u
    OBVIOUS
  <2>2. /\ t \in Instances /\ Distinct(t) /\ \A n : Has(t, n) <=> Has(u, n)
        /\ \A k \in Key : t.dep[k] # None => t.dep[k] = u.dep[k]
        /\ t.cur = u.cur \/ (key # 0 /\ t.cur = s.dep[key])
    <3>1. CASE DeposesFirst(r)
      BY <1>10, <2>1, <3>1, RestoreKeeps
    <3>2. CASE ~DeposesFirst(r)
      <4>1. t = u
        BY <2>1, <3>2
      <4>2. QED
        BY <1>10, <4>1
    <3>3. QED
      BY <3>1, <3>2
  <2>3. \A n \in 1..MaxRounds : /\ <<r, n>> \in DOMAIN real' => Has(t, n)
                                /\ Has(t, n) => n <= round
    BY <1>2, <1>3, <1>4, <1>7, <1>10, <2>2
  <2>4. /\ DOMAIN real' \subseteq Ids
        /\ \A id \in Ids : id[1] # r => /\ id \in DOMAIN real' <=> id \in DOMAIN real
                                        /\ id \in DOMAIN real => real'[id] = real[id]
        /\ \A id \in DOMAIN real' : \/ real'[id] = Refers(plan.config, state, r)
                                    \/ id \in DOMAIN real /\ real'[id] = real[id]
    BY <1>3, <1>7, <1>8, <1>10
  <2>5. \A id \in DOMAIN real' : id \in DOMAIN real \/ id = <<r, round>>
    BY <1>7, <1>10
  <2>6. CreatorLeaves(r, "failed", t)
    BY <1>1, <1>4, <1>10, <2>1, <2>2, <2>3, <2>4, <2>5 DEF CreatorLeaves
  <2>7. QED
    BY <2>6
<1>11. CASE /\ real' = made
            /\ state' = [state EXCEPT ![r] =
                 IF DeposesFirst(r)
                 THEN MaybeRestore([@ EXCEPT !.cur = Made(r, round, TRUE)], plan.key[r])
                 ELSE [@ EXCEPT !.cur = Made(r, round, TRUE)]]
            /\ Ends(Creator(r), "failed")
  <2>1. PICK u : u = [s EXCEPT !.cur = Made(r, round, TRUE)]
    OBVIOUS
  <2>2. /\ u \in Instances /\ Distinct(u) /\ u.dep = s.dep
        /\ \A n : Has(u, n) <=> Has(s, n) \/ n = round
        /\ u.cur.deps = Dependencies(plan.config, r)
    BY <1>5, <2>1
  <2>3. state' = [state EXCEPT ![r] = IF DeposesFirst(r) THEN MaybeRestore(u, key) ELSE u]
    BY <1>4, <1>11, <2>1
  <2>4. QED
    BY <1>10, <1>11, <2>2, <2>3
<1>12. CASE /\ real' = real
            /\ state' = [state EXCEPT ![r] =
                 IF DeposesFirst(r) THEN MaybeRestore([@ EXCEPT !.cur = None], plan.key[r])
                 ELSE [@ EXCEPT !.cur = None]]
            /\ Ends(Creator(r), "failed")
  <2>1. PICK u : u = [s EXCEPT !.cur = None]
    OBVIOUS
  <2>2. u = s
    BY <1>2, <1>4, <2>1 DEF Instances
  <2>3. state' = [state EXCEPT ![r] = IF DeposesFirst(r) THEN MaybeRestore(u, key) ELSE u]
    BY <1>4, <1>12, <2>1
  <2>4. QED
    BY <1>2, <1>4, <1>10, <1>12, <2>2, <2>3
<1>13. QED
  BY <1>1, <1>6, <1>9, <1>11, <1>12 DEF Created

\* A creator returns.
LEMMA CreatorReturns ==
  ASSUME RecordInv, NEW r \in Resource, FinishCreator(r)
  PROVE  \E o, t : CreatorLeaves(r, o, t)
<1>1. plan.action[r] \in New \cup {"NoOp", "Update"}
  <2>1. HasCreator(plan, r)
    BY DEF RecordInv, FinishCreator, GraphFits, Fitting
  <2>2. QED
    BY <2>1 DEF HasCreator, New, Replaces
<1>2. QED
  BY <1>1, NoOpReturns, UpdateReturns, CreateReturns

\* So the records and the walk's order survive managedResourceExecute.
LEMMA FinishCreatorKeeps ==
  ASSUME RecordInv, NEW r \in Resource, FinishCreator(r)
  PROVE  RecordInv'
<1>1. PICK o, t : CreatorLeaves(r, o, t)
  BY CreatorReturns
<1>2. QED
  BY ZenonT(60), <1>1, FinishedKeeps DEF CreatorLeaves

\* What the return of a destroyer v of resource r is: t is the new record of the
\* resource, and o how it ends.
DestroyerLeaves(r, v, o, t) ==
  /\ o \in {"done", "failed"} /\ Ends(v, o)
  /\ t \in Instances /\ Distinct(t) /\ state' = [state EXCEPT ![r] = t]
  /\ DOMAIN real' \subseteq DOMAIN real
  /\ \A id \in DOMAIN real' : real'[id] = real[id]
  /\ \A id \in Ids : id[1] # r /\ id \in DOMAIN real => id \in DOMAIN real'
  /\ \A n \in 1..MaxRounds : /\ <<r, n>> \in DOMAIN real' => Has(t, n)
                             /\ Has(t, n) => Has(state[r], n)
  /\ t.cur # None => state[r].cur # None /\ t.cur.deps = state[r].cur.deps
  /\ \A k \in Key : t.dep[k] # None =>
       state[r].dep[k] # None /\ t.dep[k].deps = state[r].dep[k].deps
  /\ v.key = 0 => /\ t.dep = state[r].dep
                  /\ state[r].cur = None \/ o = "done" => t.cur = None
  /\ v.key # 0 =>
       /\ t.cur = state[r].cur
       /\ CurId(state, r) \in DOMAIN real => CurId(state, r) \in DOMAIN real'
       /\ \A k \in Key : k # v.key => t.dep[k] = state[r].dep[k]
       /\ state[r].dep[v.key] = None \/ o = "done" => t.dep[v.key] = None

\* A failed destroy writes the object back.
LEMMA WrittenBack ==
  ASSUME NEW v, NEW o \in Objects, DestroyFailed(v, o)
  PROVE  \E x \in Objects : x.obj = o.obj /\ x.deps = o.deps /\ state' = Put(state, v, x)
<1>1. PICK flag \in BOOLEAN : state' = Put(state, v, [o EXCEPT !.cbd = flag])
  BY DEF DestroyFailed, Objects
<1>2. PICK x \in Objects : x = [o EXCEPT !.cbd = flag]
  BY DEF Objects
<1>3. x.obj = o.obj /\ x.deps = o.deps
  BY <1>2 DEF Objects
<1>4. QED
  BY <1>1, <1>2, <1>3

\* The destroyer of a current object returns.
LEMMA CurrentDestroyed ==
  ASSUME RecordInv, NEW v \in graph.node, FinishDestroyer(v), v.key = 0,
         NEW r \in Resource, r = v.res
  PROVE  \E o, t : DestroyerLeaves(r, v, o, t)
<1>1. Typed /\ Recorded
  BY DEF RecordInv
<1>2. /\ state[r] \in Instances /\ Distinct(state[r]) /\ DOMAIN real \subseteq Ids
      /\ \A n \in 1..MaxRounds : <<r, n>> \in DOMAIN real => Has(state[r], n)
  BY <1>1 DEF Typed, Recorded
<1>3. PICK s \in Instances : s = state[r]
  BY <1>2
<1>4. PICK id : id = <<r, s.cur.obj>>
  OBVIOUS
<1>5. \/ s.cur = None /\ Ends(v, "done") /\ UNCHANGED <<real, state>>
      \/ s.cur # None /\ real' = Without(id) /\ state' = Put(state, v, None) /\ EndsAfter(v)
      \/ /\ s.cur # None /\ real' \in {real, Without(id)} /\ DestroyFailed(v, s.cur)
         /\ Ends(v, "failed")
  BY <1>3, <1>4 DEF FinishDestroyer, Slot, EndsAfter
<1>6. CASE s.cur = None /\ Ends(v, "done") /\ UNCHANGED <<real, state>>
  <2>1. state' = [state EXCEPT ![r] = s]
    BY <1>1, <1>3, <1>6, SameRecord
  <2>2. DestroyerLeaves(r, v, "done", s)
    BY <1>2, <1>3, <1>6, <2>1 DEF DestroyerLeaves
  <2>3. QED
    BY <2>2
<1>7. CASE s.cur # None /\ real' = Without(id) /\ state' = Put(state, v, None) /\ EndsAfter(v)
  <2>1. PICK t : t = [s EXCEPT !.cur = None]
    OBVIOUS
  <2>2. t \in Instances /\ t.cur = None /\ t.dep = s.dep
    BY <2>1, CurrentWritten
  <2>3. Distinct(t) /\ \A n : Has(t, n) <=> Has(s, n) /\ n # s.cur.obj
    BY <1>2, <1>3, <2>1, RemoveKeeps
  <2>4. state' = [state EXCEPT ![r] = t]
    BY <1>1, <1>3, <1>7, <2>1 DEF Put, Typed
  <2>5. PICK o \in {"done", "failed"} : Ends(v, o)
    BY <1>7 DEF EndsAfter
  <2>6. /\ DOMAIN real' = DOMAIN real \ {id}
        /\ \A i \in DOMAIN real' : real'[i] = real[i]
    BY <1>7, WithoutOne
  <2>7. \A n \in 1..MaxRounds : /\ <<r, n>> \in DOMAIN real' => Has(t, n)
                                /\ Has(t, n) => Has(state[r], n)
    BY <1>2, <1>3, <1>4, <2>3, <2>6
  <2>8. \A i \in Ids : i[1] # r /\ i \in DOMAIN real => i \in DOMAIN real'
    BY <1>4, <2>6
  <2>9. DestroyerLeaves(r, v, o, t)
    BY <1>3, <2>2, <2>3, <2>4, <2>5, <2>6, <2>7, <2>8 DEF DestroyerLeaves
  <2>10. QED
    BY <2>9
<1>8. CASE /\ s.cur # None /\ real' \in {real, Without(id)} /\ DestroyFailed(v, s.cur)
           /\ Ends(v, "failed")
  <2>1. s.cur \in Objects
    BY <1>3, <1>8 DEF Instances
  <2>2. PICK x \in Objects : /\ x.obj = s.cur.obj /\ x.deps = s.cur.deps
                             /\ state' = Put(state, v, x)
    BY <1>8, <2>1, WrittenBack
  <2>3. PICK t : t = [s EXCEPT !.cur = x]
    OBVIOUS
  <2>4. t \in Instances /\ t.cur = x /\ t.dep = s.dep
    BY <2>3, CurrentWritten
  <2>5. Distinct(t) /\ \A n : Has(t, n) <=> Has(s, n)
    BY <1>2, <1>3, <1>8, <2>2, <2>3, UpdateKeeps
  <2>6. state' = [state EXCEPT ![r] = t]
    BY <1>1, <1>3, <2>2, <2>3 DEF Put, Typed
  <2>7. /\ DOMAIN real' \in {DOMAIN real, DOMAIN real \ {id}}
        /\ \A i \in DOMAIN real' : real'[i] = real[i]
    BY <1>8, WithoutOne
  <2>8. \A n \in 1..MaxRounds : /\ <<r, n>> \in DOMAIN real' => Has(t, n)
                                /\ Has(t, n) => Has(state[r], n)
    BY <1>2, <1>3, <2>5, <2>7
  <2>9. \A i \in Ids : i[1] # r /\ i \in DOMAIN real => i \in DOMAIN real'
    BY <1>4, <2>7
  <2>10. DestroyerLeaves(r, v, "failed", t)
    BY <1>3, <1>8, <2>2, <2>4, <2>5, <2>6, <2>7, <2>8, <2>9 DEF DestroyerLeaves
  <2>11. QED
    BY <2>10
<1>9. QED
  BY <1>5, <1>6, <1>7, <1>8

\* The destroyer of a deposed object returns.
LEMMA DeposedDestroyed ==
  ASSUME RecordInv, NEW v \in graph.node, FinishDestroyer(v), v.key # 0,
         NEW r \in Resource, r = v.res
  PROVE  \E o, t : DestroyerLeaves(r, v, o, t)
<1>1. Typed /\ Recorded /\ v.key \in Key
  BY DEF RecordInv, FinishDestroyer, GraphFits, Fitting
<1>2. /\ state[r] \in Instances /\ Distinct(state[r]) /\ DOMAIN real \subseteq Ids
      /\ \A n \in 1..MaxRounds : <<r, n>> \in DOMAIN real => Has(state[r], n)
  BY <1>1 DEF Typed, Recorded
<1>3. PICK s \in Instances, k \in Key : s = state[r] /\ k = v.key
  BY <1>1, <1>2
<1>4. PICK id : id = <<r, s.dep[k].obj>>
  OBVIOUS
<1>5. \/ s.dep[k] = None /\ Ends(v, "failed") /\ UNCHANGED <<real, state>>
      \/ s.dep[k] # None /\ real' = Without(id) /\ state' = Put(state, v, None) /\ EndsAfter(v)
      \/ /\ s.dep[k] # None /\ real' \in {real, Without(id)} /\ DestroyFailed(v, s.dep[k])
         /\ Ends(v, "failed")
  BY <1>3, <1>4 DEF FinishDestroyer, Slot, EndsAfter
<1>6. s.dep[k] # None => CurId(state, r) # id
  BY <1>2, <1>3, <1>4 DEF CurId, Distinct
<1>7. CASE s.dep[k] = None /\ Ends(v, "failed") /\ UNCHANGED <<real, state>>
  <2>1. state' = [state EXCEPT ![r] = s]
    BY <1>1, <1>3, <1>7, SameRecord
  <2>2. DestroyerLeaves(r, v, "failed", s)
    BY <1>2, <1>3, <1>7, <2>1 DEF DestroyerLeaves
  <2>3. QED
    BY <2>2
<1>8. CASE s.dep[k] # None /\ real' = Without(id) /\ state' = Put(state, v, None) /\ EndsAfter(v)
  <2>1. PICK t : t = [s EXCEPT !.dep[k] = None]
    OBVIOUS
  <2>2. /\ t \in Instances /\ t.cur = s.cur
        /\ \A j \in Key : t.dep[j] = IF j = k THEN None ELSE s.dep[j]
    BY <2>1 DEF Instances
  <2>3. Distinct(t) /\ \A n : Has(t, n) <=> Has(s, n) /\ n # s.dep[k].obj
    BY <1>2, <1>3, <1>8, <2>1, DeposedKeeps
  <2>4. state' = [state EXCEPT ![r] = t]
    BY <1>1, <1>3, <1>8, <2>1 DEF Put, Typed
  <2>5. PICK o \in {"done", "failed"} : Ends(v, o)
    BY <1>8 DEF EndsAfter
  <2>6. /\ DOMAIN real' = DOMAIN real \ {id}
        /\ \A i \in DOMAIN real' : real'[i] = real[i]
    BY <1>8, WithoutOne
  <2>7. \A n \in 1..MaxRounds : /\ <<r, n>> \in DOMAIN real' => Has(t, n)
                                /\ Has(t, n) => Has(state[r], n)
    BY <1>2, <1>3, <1>4, <2>3, <2>6
  <2>8. \A i \in Ids : i[1] # r /\ i \in DOMAIN real => i \in DOMAIN real'
    BY <1>4, <2>6
  <2>9. CurId(state, r) \in DOMAIN real => CurId(state, r) \in DOMAIN real'
    BY <1>6, <1>8, <2>6
  <2>10. DestroyerLeaves(r, v, o, t)
    BY <1>3, <2>2, <2>3, <2>4, <2>5, <2>6, <2>7, <2>8, <2>9 DEF DestroyerLeaves
  <2>11. QED
    BY <2>10
<1>9. CASE /\ s.dep[k] # None /\ real' \in {real, Without(id)} /\ DestroyFailed(v, s.dep[k])
           /\ Ends(v, "failed")
  <2>1. s.dep[k] \in Objects
    BY <1>3, <1>9 DEF Instances
  <2>2. PICK x \in Objects : /\ x.obj = s.dep[k].obj /\ x.deps = s.dep[k].deps
                             /\ state' = Put(state, v, x)
    BY <1>9, <2>1, WrittenBack
  <2>3. PICK t : t = [s EXCEPT !.dep[k] = x]
    OBVIOUS
  <2>4. /\ t \in Instances /\ t.cur = s.cur
        /\ \A j \in Key : t.dep[j] = IF j = k THEN x ELSE s.dep[j]
    BY <2>3 DEF Instances
  <2>5. Distinct(t) /\ \A n : Has(t, n) <=> Has(s, n) 
    <3>1. x.obj = s.dep[k].obj /\ Distinct(s)
      BY <1>2, <1>3, <2>2
    <3>2. QED
      BY <1>9, <2>3, <3>1, DeposedKeeps, NoObject
  <2>6. state' = [state EXCEPT ![r] = t]
    BY <1>1, <1>3, <2>2, <2>3 DEF Put, Typed
  <2>7. /\ DOMAIN real' \in {DOMAIN real, DOMAIN real \ {id}}
        /\ \A i \in DOMAIN real' : real'[i] = real[i]
    BY ZenonT(60), <1>9, WithoutOne
  <2>8. \A n \in 1..MaxRounds : /\ <<r, n>> \in DOMAIN real' => Has(t, n)
                                /\ Has(t, n) => Has(state[r], n)
    BY <1>2, <1>3, <2>5, <2>7
  <2>9. \A i \in Ids : i[1] # r /\ i \in DOMAIN real => i \in DOMAIN real'
    BY <1>4, <2>7
  <2>10. CurId(state, r) \in DOMAIN real => CurId(state, r) \in DOMAIN real'
    BY <1>6, <1>9, <2>7
  <2>11. DestroyerLeaves(r, v, "failed", t)
    BY <1>3, <1>9, <2>2, <2>4, <2>5, <2>6, <2>7, <2>8, <2>9, <2>10 DEF DestroyerLeaves
  <2>12. QED
    BY <2>11
<1>10. QED
  BY <1>5, <1>7, <1>8, <1>9

\* A destroyer returns.
LEMMA DestroyerReturns ==
  ASSUME RecordInv, NEW v \in graph.node, FinishDestroyer(v)
  PROVE  v.res \in Resource /\ \E o, t : DestroyerLeaves(v.res, v, o, t)
<1>1. v.res \in Resource
  BY DEF RecordInv, FinishDestroyer, GraphFits, Fitting
<1>2. QED
  BY <1>1, CurrentDestroyed, DeposedDestroyed

\* A destroyer is one of the two that there are for its resource.
LEMMA DestroyerIs ==
  ASSUME GraphFits, phase = "walk", NEW v \in graph.node, IsDestroyer(v)
  PROVE  /\ v.key = 0 => v = Destroyer(v.res)
         /\ v.key # 0 => v.key \in Key /\ v = Deposed(v.res, v.key)
<1>1. v \in [kind : {"create", "destroy"}, res : Resource, key : Key \cup {0}]
  BY DEF GraphFits, Fitting
<1>2. v = [kind |-> "destroy", res |-> v.res, key |-> v.key]
  BY <1>1 DEF IsDestroyer
<1>3. QED
  BY <1>1, <1>2 DEF Destroyer, Deposed

\* So they survive NodeDestroyResourceInstance and its deposed kin.
LEMMA FinishDestroyerKeeps ==
  ASSUME RecordInv, NEW v \in graph.node, FinishDestroyer(v)
  PROVE  RecordInv'
<1>1. PICK r, o, t : r \in Resource /\ r = v.res /\ DestroyerLeaves(r, v, o, t)
  BY DestroyerReturns
<1>2. /\ Typed /\ Recorded /\ PlanFits /\ GraphFits /\ WalkOrder /\ CreatorFinds /\ Finds(r)
      /\ phase = "walk" /\ IsDestroyer(v) /\ status[v] = "running"
      /\ UNCHANGED <<plan, graph, phase, round>>
  BY <1>1 DEF RecordInv, FinishDestroyer, CreatorFinds
<1>3. \A w \in Waits(v) : status[w] = "done"
  BY <1>2 DEF WalkOrder
<1>4. o \in StatusOf /\ t \in Instances /\ Distinct(t) /\ state' = [state EXCEPT ![r] = t]
      /\ Ends(v, o)
  BY <1>1 DEF DestroyerLeaves, StatusOf
<1>5. \A w \in graph.node : status'[w] = IF w = v THEN o ELSE status[w]
  BY <1>2, <1>3, <1>4, OrderKept
<1>6. state'[r] = t
  BY <1>1, <1>2, <1>4 DEF Typed
<1>7. Finds(r)'
  <2>1. Creator(r) # v
    BY <1>2, VerticesDiffer
  <2>2. Unfinished(r)' => Unfinished(r) /\ status'[Creator(r)] = status[Creator(r)]
    BY <1>2, <1>5, <2>1 DEF Unfinished
  <2>3. /\ \A n \in 1..MaxRounds : Has(t, n) => Has(state[r], n)
        /\ UpdateFailed(r) => UpdateFailed(r)'
    BY <1>1, <1>2, <1>5, <2>1 DEF DestroyerLeaves, UpdateFailed
  <2>4. CASE v.key = 0
    <3>1. v = Destroyer(r) /\ plan.action[r] \in {"Delete", "DeleteThenCreate"}
      BY <1>1, <1>2, <2>4, DestroyerIs DEF GraphFits, Fitting
    <3>2. o = "done" => t.cur = None
      BY <1>1, <2>4 DEF DestroyerLeaves
    <3>3. status'[Destroyer(r)] = o
      BY <1>5, <3>1
    <3>4. QED
      BY <1>2, <1>6, <2>2, <2>3, <3>1, <3>2, <3>3 DEF Finds, New, Replaces
  <2>5. CASE v.key # 0
    <3>1. v.key \in Key /\ v = Deposed(r, v.key)
      BY <1>1, <1>2, <2>5, DestroyerIs
    <3>2. /\ t.cur = state[r].cur
          /\ CurId(state, r) \in DOMAIN real => CurId(state, r) \in DOMAIN real'
          /\ \A k \in Key : k # v.key => t.dep[k] = state[r].dep[k]
      BY <1>1, <2>5 DEF DestroyerLeaves
    <3>3. ~Unfinished(r)
      <4>1. Creator(r) \in graph.node => <<Deposed(r, v.key), Creator(r)>> \in graph.edge
        BY <1>1, <1>2, <3>1 DEF GraphFits, Fitting
      <4>2. Creator(r) \in graph.node => Creator(r) \in Waits(v)
        BY <3>1, <4>1 DEF Waits
      <4>3. QED
        BY <1>3, <4>2 DEF Unfinished
    <3>4. CurId(state', r) = CurId(state, r)
      BY <1>6, <3>2 DEF CurId
    <3>5. QED
      BY <1>2, <1>6, <2>2, <2>3, <3>2, <3>3, <3>4 DEF Finds
  <2>6. QED
    BY <2>4, <2>5
<1>8. DOMAIN real' \subseteq Ids
  BY <1>1, <1>2 DEF DestroyerLeaves, Typed
<1>9. \A id \in Ids : id[1] # r => (id \in DOMAIN real' <=> id \in DOMAIN real)
  BY <1>1 DEF DestroyerLeaves
<1>10. \A n \in 1..MaxRounds : /\ <<r, n>> \in DOMAIN real' => Has(t, n)
                               /\ Has(t, n) => n <= round
  BY <1>1, <1>2 DEF DestroyerLeaves, Recorded
<1>11. QED
  BY <1>1, <1>2, <1>3, <1>4, <1>7, <1>8, <1>9, <1>10, StepKeeps

\* The walk is over.
LEMMA WalkEndsKeeps ==
  ASSUME RecordInv, WalkEnds PROVE RecordInv'
<1>1. /\ Typed /\ Recorded /\ phase' = "idle" /\ graph'.node = {} /\ status' = <<>>
      /\ UNCHANGED <<real, state, round>>
  BY DEF RecordInv, WalkEnds
<1>2. status' \in [graph'.node -> StatusOf]
  BY <1>1
<1>3. Typed' /\ Recorded'
  BY <1>1, <1>2 DEF Typed, Recorded
<1>4. PlanFits' /\ GraphFits' /\ WalkOrder' /\ CreatorFinds'
  BY <1>1 DEF PlanFits, GraphFits, WalkOrder, CreatorFinds
<1>5. QED
  BY <1>3, <1>4 DEF RecordInv

\* At first there is nothing.
LEMMA RecordInit ==
  ASSUME Init PROVE RecordInv
<1>1. /\ DOMAIN real = {} /\ phase = "idle" /\ round = 0 /\ graph.node = {} /\ status = <<>>
      /\ state = [r \in Resource |-> [cur |-> None, dep |-> [k \in Key |-> None]]]
  BY DEF Init
<1>2. \A r \in Resource :
        state[r] \in Instances /\ state[r].cur = None /\ \A k \in Key : state[r].dep[k] = None
  BY <1>1 DEF Instances
<1>3. state \in [Resource -> Instances]
  BY <1>1, <1>2
<1>4. Typed
  <2>1. status \in [graph.node -> StatusOf]
    BY <1>1
  <2>2. round \in 0..MaxRounds
    BY <1>1, RoundsAssumption
  <2>3. QED
    BY <1>1, <1>3, <2>1, <2>2 DEF Typed
<1>5. Recorded
  BY <1>1, <1>2 DEF Recorded, Distinct, Has
<1>6. PlanFits /\ GraphFits /\ WalkOrder /\ CreatorFinds
  BY <1>1 DEF PlanFits, GraphFits, WalkOrder, CreatorFinds
<1>7. QED
  BY <1>4, <1>5, <1>6 DEF RecordInv

\* Nothing changes when nothing is done.
LEMMA RecordStutters ==
  ASSUME RecordInv, UNCHANGED vars PROVE RecordInv'
  BY DEF vars, RecordInv, Typed, Recorded, PlanFits, GraphFits, WalkOrder, Waits,
         CreatorFinds, Finds, Unfinished, UpdateFailed

\* What an object's record, the plan, the graph and the walk's progress have to do
\* with each other, in every reachable state.
THEOREM RecordInvariant == Spec => []RecordInv
<1>1. Init => RecordInv
  BY RecordInit
<1>2. RecordInv /\ [Next]_vars => RecordInv'
  <2> SUFFICES ASSUME RecordInv, [Next]_vars PROVE RecordInv'
    OBVIOUS
  <2>1. CASE \E c \in Configs : PlanAndBuild(c)
    BY <2>1, PlanKeeps
  <2>2. CASE \E r \in Resource : StartCreator(r) \/ FinishCreator(r)
    BY <2>2, StartCreatorKeeps, FinishCreatorKeeps
  <2>3. CASE \E v \in graph.node : StartDestroyer(v) \/ FailEarly(v) \/ FinishDestroyer(v)
    BY <2>3, StartDestroyerKeeps, FailEarlyKeeps, FinishDestroyerKeeps
  <2>4. CASE WalkEnds
    BY <2>4, WalkEndsKeeps
  <2>5. CASE Rest \/ UNCHANGED vars
    BY <2>5, RecordStutters DEF Rest
  <2>6. QED
    BY <2>1, <2>2, <2>3, <2>4, <2>5 DEF Next
<1>3. QED
  BY <1>1, <1>2, PTL DEF Spec

\* An object that a record names is tracked.
LEMMA HasIsTracked ==
  ASSUME NEW r \in Resource, NEW n, Has(state[r], n)
  PROVE  <<r, n>> \in Tracked(state)
<1>1. PICK o \in Records(state, r) : o.obj = n
  BY DEF Has, Records
<1>2. QED
  BY <1>1 DEF Tracked

\* However the steps around a provider's calls fail and interleave, every object
\* that exists is recorded, and none twice: managedResourceExecute deposes under
\* a key of its own, and restores only where there is no current object.
THEOREM ObjectsAreRecorded == Spec => []EveryObjectRecorded
<1>1. RecordInv => EveryObjectRecorded
  <2> SUFFICES ASSUME RecordInv PROVE EveryObjectRecorded
    OBVIOUS
  <2>1. Typed /\ Recorded
    BY DEF RecordInv
  <2>2. ASSUME NEW id \in DOMAIN real PROVE id \in Tracked(state)
    <3>1. id[1] \in Resource /\ id = <<id[1], id[2]>> /\ Has(state[id[1]], id[2])
      BY <2>1 DEF Typed, Recorded, Ids
    <3>2. QED
      BY <3>1, HasIsTracked
  <2>3. \A r \in Resource : Distinct(state[r])
    BY <2>1 DEF Recorded
  <2>4. QED
    BY <2>2, <2>3 DEF EveryObjectRecorded, Distinct
<1>2. QED
  BY <1>1, RecordInvariant, PTL

-----------------------------------------------------------------------------
(* A walk without errors.                                                  *)

\* What an object refers to depends only on the current objects of others.
LEMMA RefersAlike ==
  ASSUME NEW c, NEW r, NEW s, NEW t,
         \A b \in c[r].deps : /\ t[b].cur = None <=> s[b].cur = None
                              /\ t[b].cur.obj = s[b].cur.obj
  PROVE  Refers(c, t, r) = Refers(c, s, r)
<1>1. \A b \in c[r].deps : CurId(t, b) = CurId(s, b)
  BY DEF CurId
<1>2. {b \in c[r].deps : t[b].cur # None} = {b \in c[r].deps : s[b].cur # None}
  OBVIOUS
<1>3. QED
  BY <1>1, <1>2 DEF Refers

\* What an object refers to is declared and current.
LEMMA RefersIs ==
  ASSUME NEW c, NEW s, NEW r
  PROVE  /\ \A i : i \in Refers(c, s, r) <=>
                   \E b \in c[r].deps : s[b].cur # None /\ i = CurId(s, b)
         /\ \A i \in Refers(c, s, r) : i[1] \in c[r].deps
<1>1. \A b : CurId(s, b)[1] = b
  BY DEF CurId
<1>2. QED
  BY <1>1 DEF Refers

\* An object stays as the configuration says, when it stays, and what it refers to
\* stays or is lost.
LEMMA ConvergesStays ==
  ASSUME NEW q \in DOMAIN plan.config, Converges(q),
         state'[q].cur = state[q].cur, plan' = plan,
         CurId(state, q) \in DOMAIN real', real'[CurId(state, q)] = real[CurId(state, q)],
         \A i \in DOMAIN real' : i[1] \in plan.config[q].deps => i \in DOMAIN real,
         \A b \in plan.config[q].deps : Settled(b) =>
           /\ Settled(b)' /\ (UpdateFailed(b) => UpdateFailed(b)')
           /\ \/ /\ state'[b].cur = None <=> state[b].cur = None
                 /\ state'[b].cur.obj = state[b].cur.obj
              \/ UpdateFailed(b)' /\ CurId(state, b) \notin DOMAIN real'
  PROVE  Converges(q)'
<1>1. \A b \in plan.config[q].deps : Settled(b)
  BY DEF Converges
<1>2. CurId(state', q) = CurId(state, q) /\ RefersRight(q)
  BY DEF CurId, Converges
<1>3. ASSUME NEW i \in real[CurId(state, q)]
      PROVE  /\ i[1] \in plan.config[q].deps
             /\ i \in DOMAIN real' => i \in Refers(plan.config, state', q)
  <2>1. i[1] \in plan.config[q].deps
    BY <1>2 DEF RefersRight
  <2>2. ASSUME i \in DOMAIN real' PROVE i \in Refers(plan.config, state', q)
    <3>1. i \in Refers(plan.config, state, q)
      BY <1>2, <2>1, <2>2 DEF RefersRight
    <3>2. PICK b \in plan.config[q].deps : state[b].cur # None /\ i = CurId(state, b)
      BY <3>1, RefersIs
    <3>3. state'[b].cur # None /\ i = CurId(state', b)
      BY <1>1, <2>2, <3>2 DEF CurId
    <3>4. QED
      BY <3>3, RefersIs
  <2>3. QED
    BY <2>1, <2>2
<1>4. ASSUME \A b \in plan.config[q].deps : ~UpdateFailed(b)'
      PROVE  real[CurId(state, q)] = Refers(plan.config, state', q)
  <2>1. real[CurId(state, q)] = Refers(plan.config, state, q)
    BY <1>1, <1>2, <1>4 DEF RefersRight
  <2>2. Refers(plan.config, state', q) = Refers(plan.config, state, q)
    BY <1>1, <1>4, RefersAlike
  <2>3. QED
    BY <2>1, <2>2
<1>5. RefersRight(q)'
  BY <1>2, <1>3, <1>4 DEF RefersRight
<1>6. QED
  BY <1>1, <1>2, <1>5 DEF Converges

\* A creator that is under way finds what it refers to settled.
LEMMA CreatorsWaitForReferences ==
  ASSUME PlanFits, GraphFits, WalkOrder, phase = "walk", NEW r \in DOMAIN plan.config,
         Creator(r) \in graph.node, status[Creator(r)] # "pending",
         NEW b \in plan.config[r].deps
  PROVE  Settled(b)
<1>1. b \in DOMAIN plan.config /\ b \in Resource
  BY RoundsAssumption DEF PlanFits
<1>2. plan.action[b] \in New \cup {"NoOp", "Update"}
  BY <1>1 DEF PlanFits
<1>3. CASE Creator(b) \in graph.node
  BY <1>3 DEF GraphFits, Fitting, WalkOrder, Waits, Settled, Succeeded
<1>4. CASE Creator(b) \notin graph.node
  BY <1>1, <1>2, <1>4 DEF GraphFits, Fitting, HasCreator, New, Settled
<1>5. QED
  BY <1>3, <1>4

\* A plan starts from objects as they are to be where it changes nothing, and
\* has a destroyer for each deposed one.
LEMMA PlanConverges ==
  ASSUME RecordInv, NEW c \in Configs, PlanAndBuild(c)
  PROVE  ConvergeInv'
<1> SUFFICES ASSUME phase' = "walk" PROVE ConvergeInv'
  BY DEF ConvergeInv, Destroying, Converging
<1>1. PICK t :
           /\ t = Planned(c, Refreshed, plan'.action)
           /\ \/ phase' = "walk" /\ state' = t
              \/ phase' = "idle" /\ state' = state
           /\ PlanFits' /\ Fitting(graph, plan)'
           /\ \A r \in Resource, k \in Key :
                t[r].dep[k] # None => Deposed(r, k) \in graph'.node
           /\ \A r \in Resource : Fits(c, Refreshed, plan'.action, r)
           /\ plan'.config = c
  BY PlanFitsTogether
<1>2. /\ status' = [v \in graph'.node |-> "pending"] /\ real' = real
      /\ state' = t
  BY <1>1 DEF PlanAndBuild
<1>3. \A v : ~Succeeded(v)'
  BY <1>2 DEF Succeeded
<1>4. \A r \in Resource :
           /\ t[r].cur = None <=> Refreshed[r].cur = None
           /\ t[r].cur.obj = Refreshed[r].cur.obj
           /\ t[r].cur # None => CurId(t, r) \in DOMAIN real
           /\ Refreshed[r].cur # None => t[r].cur.tainted = Refreshed[r].cur.tainted
           /\ r \in DOMAIN c /\ Refreshed[r].cur # None =>
                (plan'.action[r] = "NoOp" => t[r].cur.deps = Dependencies(c, r))
  BY <1>1, PlannedInstance
<1>5. Destroying'
  <2>1. ASSUME NEW r \in Resource, NEW k \in Key, state'[r].dep[k] # None
        PROVE  Deposed(r, k) \in graph'.node /\ status'[Deposed(r, k)] # "done"
    BY <1>1, <1>2, <2>1
  <2>2. ASSUME NEW r \in Resource, r \notin DOMAIN plan'.config, plan'.action[r] = "None"
        PROVE  state'[r].cur = None
    BY <1>1, <1>2, <1>4, <2>2, FitsActions
  <2>3. QED
    BY <1>3, <2>1, <2>2 DEF Destroying
<1>6. ASSUME NEW r \in DOMAIN plan'.config, plan'.action[r] = "NoOp"
      PROVE  Converges(r)'
  <2>1. r \in Resource /\ r \in DOMAIN c /\ c[r].deps \subseteq DOMAIN c /\ DOMAIN c \subseteq Resource
    BY <1>1, RoundsAssumption
  <2>2. /\ Refreshed[r].cur # None /\ ~Refreshed[r].cur.tainted
        /\ real[CurId(Refreshed, r)] = Refers(c, Refreshed, r)
        /\ \A b \in c[r].deps : plan'.action[b] \notin New
    BY <1>1, <1>6, <2>1, FitsActions
  <2>3. Refers(c, t, r) = Refers(c, Refreshed, r)
    BY <1>4, <2>1, RefersAlike
  <2>4. CurId(t, r) = CurId(Refreshed, r)
    BY <1>4, <2>1 DEF CurId
  <2>5. \A b \in c[r].deps : Settled(b)'
    BY <1>1, <2>1, <2>2, FitsActions DEF Settled
  <2>6. /\ t[r].cur # None /\ ~t[r].cur.tainted /\ CurId(t, r) \in DOMAIN real
        /\ t[r].cur.deps = Dependencies(c, r)
    BY <1>4, <1>6, <2>1, <2>2
  <2>7. RefersRight(r)'
    BY <1>1, <1>2, <2>2, <2>3, <2>4, RefersIs DEF RefersRight
  <2>8. QED
    BY <1>1, <1>2, <2>5, <2>6, <2>7 DEF Converges
<1>7. QED
  BY <1>3, <1>5, <1>6 DEF ConvergeInv, Converging

\* What is done stays done, and nothing else is.
LEMMA SucceededStays ==
  ASSUME RecordInv, phase = "walk", NEW v \in graph.node, NEW o \in StatusOf, Ends(v, o),
         status[v] \in {"pending", "running"}, \A w \in Waits(v) : status[w] = "done",
         UNCHANGED <<plan, graph, phase>>
  PROVE  /\ \A w : Succeeded(w)' <=> Succeeded(w) \/ (w = v /\ o = "done")
         /\ \A b : Settled(b) => Settled(b)'
         /\ \A b : UpdateFailed(b) => UpdateFailed(b)'
         /\ \A w \in graph.node : status'[w] = IF w = v THEN o ELSE status[w]
<1>1. \A w \in graph.node : status'[w] = IF w = v THEN o ELSE status[w]
  BY OrderKept DEF RecordInv
<1>2. ASSUME NEW w PROVE Succeeded(w)' <=> Succeeded(w) \/ (w = v /\ o = "done")
  <2>1. Succeeded(w)' <=> w \in graph.node /\ status'[w] = "done"
    BY DEF Succeeded
  <2>2. Succeeded(w) <=> w \in graph.node /\ status[w] = "done"
    BY DEF Succeeded
  <2>3. QED
    BY <1>1, <2>1, <2>2
<1>3. ASSUME NEW b, Settled(b) PROVE Settled(b)'
  <2>1. plan.action[b] \in {"NoOp", "Update"} \/ Succeeded(Creator(b))
    BY <1>3 DEF Settled
  <2>2. plan.action[b] \in {"NoOp", "Update"} \/ Succeeded(Creator(b))'
    BY <1>2, <2>1
  <2>3. QED
    BY <2>2 DEF Settled, Creator
<1>4. ASSUME NEW b, UpdateFailed(b) PROVE UpdateFailed(b)'
  <2>1. Creator(b) \in graph.node /\ Creator(b) # v
    BY <1>4 DEF UpdateFailed
  <2>2. QED
    BY <1>1, <1>4, <2>1 DEF UpdateFailed, Creator
<1>5. QED
  BY <1>1, <1>2, <1>3, <1>4

\* A creator starts: what is settled is not its own.
LEMMA StartCreatorConverges ==
  ASSUME RecordInv, ConvergeInv, NEW r \in Resource, StartCreator(r)
  PROVE  ConvergeInv'
<1>1. /\ Typed /\ PlanFits /\ GraphFits /\ WalkOrder /\ Destroying /\ Converging
      /\ phase = "walk" /\ Creator(r) \in graph.node /\ Ready(Creator(r))
      /\ Ends(Creator(r), "running") /\ UNCHANGED <<real, plan, graph, phase, round>>
  BY DEF RecordInv, ConvergeInv, StartCreator
<1>2. /\ status[Creator(r)] = "pending" /\ \A w \in Waits(Creator(r)) : status[w] = "done"
      /\ "running" \in StatusOf
  BY <1>1 DEF Ready, StatusOf
<1>3. /\ \A w : Succeeded(w)' <=> Succeeded(w)
      /\ \A b : Settled(b) => Settled(b)'
      /\ \A b : UpdateFailed(b) => UpdateFailed(b)'
      /\ \A w \in graph.node : status'[w] = IF w = Creator(r) THEN "running" ELSE status[w]
  BY <1>1, <1>2, SucceededStays
<1>4. /\ \A q \in Resource : q # r => state'[q] = state[q]
      /\ plan.action[r] # "CreateThenDelete" => state' = state
      /\ \/ /\ plan.action[r] = "CreateThenDelete" /\ plan.key[r] \in Key
            /\ state'[r] = Depose(state[r], plan.key[r])
         \/ state' = state
  BY <1>1, CreatorStarts DEF Typed
<1>5. ~Settled(r) \/ state' = state
  BY <1>1, <1>2, <1>4 DEF Settled, Succeeded
<1>6. Destroying'
  <2>1. ASSUME NEW q \in Resource, NEW k \in Key, state'[q].dep[k] # None
        PROVE  Deposed(q, k) \in graph.node /\ status'[Deposed(q, k)] # "done"
    <3>1. CASE state[q].dep[k] # None
      <4>1. Deposed(q, k) \in graph.node /\ status[Deposed(q, k)] # "done"
        BY <1>1, <3>1 DEF Destroying
      <4>2. QED
        BY <1>3, <4>1
    <3>2. CASE state[q].dep[k] = None
      <4>1. /\ q = r /\ plan.action[r] = "CreateThenDelete" /\ plan.key[r] \in Key
            /\ state'[r] = Depose(state[r], plan.key[r])
        BY <1>4, <2>1, <3>2
      <4>2. state'[r].dep[k] = IF k = plan.key[r] THEN state[r].cur ELSE state[r].dep[k]
        BY <1>1, <4>1 DEF Depose, Typed, Instances
      <4>3. k = plan.key[r]
        BY <2>1, <3>2, <4>1, <4>2
      <4>4. Deposed(r, k) \in graph.node /\ <<Deposed(r, k), Creator(r)>> \in graph.edge
        BY <1>1, <4>1, <4>3 DEF GraphFits, Fitting
      <4>5. Creator(r) \in Waits(Deposed(r, k))
        BY <1>1, <4>4 DEF Waits
      <4>6. status[Deposed(r, k)] = "pending"
        BY <1>1, <1>2, <4>4, <4>5 DEF WalkOrder
      <4>7. QED
        BY <1>3, <4>1, <4>4, <4>6
    <3>3. QED
      BY <3>1, <3>2
  <2>2. ASSUME NEW q \in Resource, q \notin DOMAIN plan.config,
               plan.action[q] = "None" \/ Succeeded(Destroyer(q))'
        PROVE  state'[q].cur = None
    <3>1. state[q].cur = None
      BY <1>1, <1>3, <2>2 DEF Destroying
    <3>2. plan.action[q] # "CreateThenDelete"
      BY <1>1, <2>2 DEF PlanFits
    <3>3. QED
      BY <1>4, <3>1, <3>2
  <2>3. QED
    BY <1>1, <2>1, <2>2 DEF Destroying
<1>7. ASSUME NEW q \in DOMAIN plan.config, plan.action[q] = "NoOp" \/ Succeeded(Creator(q))'
      PROVE  Converges(q)'
  <2>1. /\ Converges(q) /\ Settled(q) /\ q \in Resource
        /\ plan.config[q].deps \subseteq Resource
    BY <1>1, <1>3, <1>7, RoundsAssumption DEF Converging, Settled, PlanFits
  <2>2. \A b \in Resource : Settled(b) => state'[b] = state[b]
    BY <1>4, <1>5
  <2>3. CurId(state, q) \in DOMAIN real' /\ real'[CurId(state, q)] = real[CurId(state, q)]
    BY <1>1, <2>1 DEF Converges
  <2>4. \A b \in plan.config[q].deps : Settled(b) =>
           /\ Settled(b)' /\ (UpdateFailed(b) => UpdateFailed(b)')
           /\ state'[b].cur = None <=> state[b].cur = None
           /\ state'[b].cur.obj = state[b].cur.obj
    BY <1>3, <2>1, <2>2
  <2>5. state'[q].cur = state[q].cur /\ plan' = plan /\ real' = real
    BY <1>1, <2>1, <2>2
  <2>6. QED
    BY <2>1, <2>3, <2>4, <2>5, ConvergesStays
<1>8. QED
  BY <1>1, <1>6, <1>7 DEF ConvergeInv, Converging

\* A vertex starts or fails, and no object is touched.
LEMMA NothingTouched ==
  ASSUME RecordInv, ConvergeInv, phase = "walk", NEW v \in graph.node,
         status[v] \in {"pending", "running"}, NEW o \in {"running", "failed"}, Ends(v, o), \A w \in Waits(v) : status[w] = "done",
         UNCHANGED <<real, state, plan, graph, phase>>
  PROVE  ConvergeInv'
<1>1. Destroying /\ Converging /\ o \in StatusOf /\ o # "done"
  BY DEF ConvergeInv, StatusOf
<1>2. /\ \A w : Succeeded(w)' <=> Succeeded(w)
      /\ \A b : Settled(b) => Settled(b)'
      /\ \A b : UpdateFailed(b) => UpdateFailed(b)'
      /\ \A w \in graph.node : status'[w] = IF w = v THEN o ELSE status[w]
  BY <1>1, SucceededStays
<1>3. Destroying'
  <2>1. ASSUME NEW q \in Resource, NEW k \in Key, state[q].dep[k] # None
        PROVE  Deposed(q, k) \in graph.node /\ status'[Deposed(q, k)] # "done"
    <3>1. Deposed(q, k) \in graph.node /\ status[Deposed(q, k)] # "done"
      BY <1>1, <2>1 DEF Destroying
    <3>2. QED
      BY <1>1, <1>2, <3>1
  <2>2. \A q \in Resource : Succeeded(Destroyer(q))' <=> Succeeded(Destroyer(q))
    BY <1>2
  <2>3. QED
    BY <1>1, <2>1, <2>2 DEF Destroying
<1>4. Converging'
  <2>1. ASSUME NEW q \in DOMAIN plan.config, plan.action[q] = "NoOp" \/ Succeeded(Creator(q))'
        PROVE  Converges(q)'
    <3>1. Converges(q)
      BY <1>1, <1>2, <2>1 DEF Converging
    <3>2. CurId(state, q) \in DOMAIN real
      BY <3>1 DEF Converges
    <3>3. QED
      BY <1>2, <3>1, <3>2, ConvergesStays
  <2>2. QED
    BY <2>1 DEF Converging
<1>5. QED
  BY <1>3, <1>4 DEF ConvergeInv

\* A destroyer starts.
LEMMA StartDestroyerConverges ==
  ASSUME RecordInv, ConvergeInv, NEW v \in graph.node, StartDestroyer(v)
  PROVE  ConvergeInv'
  BY NothingTouched DEF StartDestroyer, Ready

\* A vertex returns before the provider's call.
LEMMA FailEarlyConverges ==
  ASSUME RecordInv, ConvergeInv, NEW v \in graph.node, FailEarly(v)
  PROVE  ConvergeInv'
<1>1. phase = "walk" /\ \A w \in Waits(v) : status[w] = "done"
  BY DEF RecordInv, FailEarly, WalkOrder
<1>2. QED
  BY <1>1, NothingTouched DEF FailEarly

\* A creator returns: its own object is as the configuration says, and those that
\* refer to a settled object still refer to it.
LEMMA FinishCreatorConverges ==
  ASSUME RecordInv, ConvergeInv, NEW r \in Resource, FinishCreator(r)
  PROVE  ConvergeInv'
<1>1. /\ Typed /\ PlanFits /\ GraphFits /\ WalkOrder /\ Destroying /\ Converging /\ Finds(r)
      /\ phase = "walk" /\ Creator(r) \in graph.node /\ status[Creator(r)] = "running"
      /\ UNCHANGED <<plan, graph, phase, round>>
  BY DEF RecordInv, ConvergeInv, FinishCreator, CreatorFinds
<1>2. PICK o, t : CreatorLeaves(r, o, t)
  BY CreatorReturns
<1>3. /\ o \in StatusOf /\ o \in {"done", "failed"} /\ Ends(Creator(r), o)
      /\ \A w \in Waits(Creator(r)) : status[w] = "done"
  BY <1>1, <1>2 DEF CreatorLeaves, StatusOf, WalkOrder
<1>4. /\ \A w : Succeeded(w)' <=> Succeeded(w) \/ (w = Creator(r) /\ o = "done")
      /\ \A b : Settled(b) => Settled(b)'
      /\ \A b : UpdateFailed(b) => UpdateFailed(b)'
      /\ \A w \in graph.node : status'[w] = IF w = Creator(r) THEN o ELSE status[w]
  BY <1>1, <1>3, SucceededStays
<1>5. \A q \in Resource : state'[q] = IF q = r THEN t ELSE state[q]
  BY <1>1, <1>2 DEF CreatorLeaves, Typed
<1>6. r \in DOMAIN plan.config
  <2>1. HasCreator(plan, r)
    BY <1>1 DEF GraphFits, Fitting
  <2>2. QED
    BY <1>1, <2>1 DEF HasCreator, PlanFits, Replaces
<1>7. Destroying'
  <2>1. ASSUME NEW q \in Resource, NEW k \in Key, state'[q].dep[k] # None
        PROVE  Deposed(q, k) \in graph.node /\ status'[Deposed(q, k)] # "done"
    <3>1. state[q].dep[k] # None
      BY <1>2, <1>5, <2>1 DEF CreatorLeaves
    <3>2. Deposed(q, k) \in graph.node /\ status[Deposed(q, k)] # "done"
      BY <1>1, <3>1 DEF Destroying
    <3>3. QED
      BY <1>4, <3>2, VerticesDiffer
  <2>2. ASSUME NEW q \in Resource, q \notin DOMAIN plan.config,
               plan.action[q] = "None" \/ Succeeded(Destroyer(q))'
        PROVE  state'[q].cur = None
    <3>1. Succeeded(Destroyer(q))' => Succeeded(Destroyer(q))
      BY <1>4, VerticesDiffer DEF Destroyer
    <3>2. state[q].cur = None
      BY <1>1, <2>2, <3>1 DEF Destroying
    <3>3. QED
      BY <1>5, <1>6, <2>2, <3>2
  <2>3. QED
    BY <1>1, <2>1, <2>2 DEF Destroying
<1>8. \A b \in Resource : Settled(b) =>
           /\ Settled(b)' /\ (UpdateFailed(b) => UpdateFailed(b)')
           /\ \/ /\ state'[b].cur = None <=> state[b].cur = None
                 /\ state'[b].cur.obj = state[b].cur.obj
              \/ UpdateFailed(b)' /\ CurId(state, b) \notin DOMAIN real'
           /\ \A i \in DOMAIN real' : i[1] = b => i \in DOMAIN real
  <2>1. Settled(r) => plan.action[r] \in {"NoOp", "Update"}
    BY <1>1 DEF Settled, Succeeded
  <2>2. plan.action[r] \in {"NoOp", "Update"} =>
          \/ t.cur # None /\ state[r].cur # None /\ t.cur.obj = state[r].cur.obj
          \/ UpdateFailed(r)' /\ CurId(state, r) \notin DOMAIN real'
    <3>1. status'[Creator(r)] = o /\ ~UpdateFailed(r)
      BY <1>1, <1>4 DEF UpdateFailed
    <3>2. QED
      BY <1>1, <1>2, <3>1 DEF CreatorLeaves, Finds, UpdateFailed
  <2>3. \A i \in DOMAIN real' : i[1] = r /\ Settled(r) => i \in DOMAIN real
    BY <1>2, <2>1 DEF CreatorLeaves, New, Replaces
  <2>4. \A i \in DOMAIN real' : i[1] # r => i \in DOMAIN real
    BY <1>2 DEF CreatorLeaves
  <2>5. QED
    BY <1>4, <1>5, <2>1, <2>2, <2>3, <2>4
<1>9. ASSUME NEW q \in DOMAIN plan.config, plan.action[q] = "NoOp" \/ Succeeded(Creator(q))'
      PROVE  Converges(q)'
  <2>1. q \in Resource /\ plan.config[q].deps \subseteq Resource \ {q}
    BY <1>1, RoundsAssumption DEF PlanFits
  <2>2. CASE q # r
    <3>1. Succeeded(Creator(q))' => Succeeded(Creator(q))
      BY <1>4, <2>2, VerticesDiffer DEF Creator
    <3>2. Converges(q)
      BY <1>1, <1>9, <3>1 DEF Converging
    <3>3. state'[q].cur = state[q].cur /\ plan' = plan
      BY <1>1, <1>5, <2>1, <2>2
    <3>4. CurId(state, q) \in DOMAIN real /\ CurId(state, q)[1] = q /\ CurId(state, q) \in Ids
      BY <1>1, <3>2 DEF Converges, CurId, Typed
    <3>5. CurId(state, q) \in DOMAIN real' /\ real'[CurId(state, q)] = real[CurId(state, q)]
      BY <1>2, <2>2, <3>4 DEF CreatorLeaves
    <3>6. \A i \in DOMAIN real' : i[1] \in plan.config[q].deps => i \in DOMAIN real
      BY <1>8, <2>1, <3>2 DEF Converges
    <3>7. QED
      BY <1>8, <2>1, <3>2, <3>3, <3>5, <3>6, ConvergesStays
  <2>3. CASE q = r /\ plan.action[r] = "NoOp"
    <3>1. Converges(q) /\ t = state[r] /\ real' = real
      BY <1>1, <1>2, <2>3 DEF Converging, CreatorLeaves
    <3>2. state'[q].cur = state[q].cur /\ plan' = plan
      BY <1>1, <1>5, <2>3, <3>1
    <3>3. CurId(state, q) \in DOMAIN real
      BY <3>1 DEF Converges
    <3>4. QED
      BY <1>8, <2>1, <3>1, <3>2, <3>3, ConvergesStays
  <2>4. CASE q = r /\ plan.action[r] # "NoOp"
    <3>1. o = "done"
      BY <1>1, <1>4, <1>9, <2>4 DEF Succeeded
    <3>2. /\ t.cur # None /\ ~t.cur.tainted /\ t.cur.deps = Dependencies(plan.config, r)
          /\ <<r, t.cur.obj>> \in DOMAIN real'
          /\ real'[<<r, t.cur.obj>>] = Refers(plan.config, state, r)
      BY <1>2, <2>4, <3>1 DEF CreatorLeaves
    <3>3. \A b \in plan.config[r].deps : Settled(b)'
      BY <1>1, <1>4, <1>6, CreatorsWaitForReferences
    <3>4. \A b \in plan.config[r].deps : state'[b] = state[b]
      BY <1>5, <2>1, <2>4
    <3>5. Refers(plan.config, state', r) = Refers(plan.config, state, r)
      BY <3>4, RefersAlike
    <3>6. CurId(state', r) = <<r, t.cur.obj>> /\ state'[r].cur = t.cur
      BY <1>5 DEF CurId
    <3>7. RefersRight(r)'
      BY <1>1, <3>2, <3>5, <3>6, RefersIs DEF RefersRight
    <3>8. QED
      BY <1>1, <2>4, <3>2, <3>3, <3>6, <3>7 DEF Converges
  <2>5. QED
    BY <2>2, <2>3, <2>4
<1>10. QED
  BY <1>1, <1>7, <1>9 DEF ConvergeInv, Converging

\* A destroyer returns: what it destroys is neither settled nor referred to by the
\* configuration's objects.
LEMMA FinishDestroyerConverges ==
  ASSUME RecordInv, ConvergeInv, NEW v \in graph.node, FinishDestroyer(v)
  PROVE  ConvergeInv'
<1>1. PICK r, o, t : r \in Resource /\ r = v.res /\ DestroyerLeaves(r, v, o, t)
  BY DestroyerReturns
<1>2. /\ Typed /\ PlanFits /\ GraphFits /\ WalkOrder /\ Destroying /\ Converging
      /\ phase = "walk" /\ IsDestroyer(v) /\ status[v] = "running"
      /\ UNCHANGED <<plan, graph, phase, round>>
  BY <1>1 DEF RecordInv, FinishDestroyer, ConvergeInv
<1>3. /\ o \in StatusOf /\ Ends(v, o) /\ \A w \in Waits(v) : status[w] = "done"
  BY <1>1, <1>2 DEF DestroyerLeaves, StatusOf, WalkOrder
<1>4. /\ \A w : Succeeded(w)' <=> Succeeded(w) \/ (w = v /\ o = "done")
      /\ \A b : Settled(b) => Settled(b)'
      /\ \A b : UpdateFailed(b) => UpdateFailed(b)'
      /\ \A w \in graph.node : status'[w] = IF w = v THEN o ELSE status[w]
  BY <1>2, <1>3, SucceededStays
<1>5. \A q \in Resource : state'[q] = IF q = r THEN t ELSE state[q]
  BY <1>1, <1>2 DEF DestroyerLeaves, Typed
<1>6. /\ v.key = 0 => v = Destroyer(r)
      /\ v.key # 0 => v.key \in Key /\ v = Deposed(r, v.key)
  BY <1>1, <1>2, DestroyerIs
<1>7. 0 \notin Key
  BY KeyAssumption
<1>8. \A q : Succeeded(Creator(q))' <=> Succeeded(Creator(q))
  <2>1. ASSUME NEW q PROVE Succeeded(Creator(q))' <=> Succeeded(Creator(q))
    <3>1. Creator(q) # v
      BY <1>2, VerticesDiffer
    <3>2. QED
      BY <1>4, <3>1 DEF Creator
  <2>2. QED
    BY <2>1
<1>9. Destroying'
  <2>1. ASSUME NEW q \in Resource, NEW k \in Key, state'[q].dep[k] # None
        PROVE  Deposed(q, k) \in graph.node /\ status'[Deposed(q, k)] # "done"
    <3>1. state[q].dep[k] # None
      BY <1>1, <1>5, <2>1 DEF DestroyerLeaves
    <3>2. Deposed(q, k) \in graph.node /\ status[Deposed(q, k)] # "done"
      BY <1>2, <3>1 DEF Destroying
    <3>3. CASE v = Deposed(q, k)
      <4>1. q = r /\ v.key = k /\ k # 0
        BY <1>1, <1>7, <3>3 DEF Deposed
      <4>2. o # "done"
        BY <1>1, <1>5, <2>1, <4>1 DEF DestroyerLeaves
      <4>3. QED
        BY <1>4, <3>2, <3>3, <4>2
    <3>4. CASE v # Deposed(q, k)
      BY <1>4, <3>2, <3>4
    <3>5. QED
      BY <3>3, <3>4
  <2>2. ASSUME NEW q \in Resource, q \notin DOMAIN plan.config,
               plan.action[q] = "None" \/ Succeeded(Destroyer(q))'
        PROVE  state'[q].cur = None
    <3>1. CASE v = Destroyer(q) /\ o = "done"
      <4>1. q = r /\ v.key = 0
        BY <1>1, <3>1 DEF Destroyer
      <4>2. QED
        BY <1>1, <1>5, <3>1, <4>1 DEF DestroyerLeaves
    <3>2. CASE ~(v = Destroyer(q) /\ o = "done")
      <4>1. Succeeded(Destroyer(q))' => Succeeded(Destroyer(q))
        BY <1>4, <3>2 DEF Destroyer
      <4>2. state[q].cur = None
        BY <1>2, <2>2, <4>1 DEF Destroying
      <4>3. QED
        BY <1>1, <1>5, <4>2 DEF DestroyerLeaves
    <3>3. QED
      BY <3>1, <3>2
  <2>3. QED
    BY <1>2, <2>1, <2>2 DEF Destroying
<1>10. ASSUME NEW q \in Resource, Settled(q) \/ plan.action[q] = "NoOp"
       PROVE  state'[q].cur = state[q].cur /\ (q = r => v.key # 0)
  <2>1. CASE q = r /\ v.key = 0
    <3>1. plan.action[r] \in {"Delete", "DeleteThenCreate"} /\ status[Destroyer(r)] # "done"
      BY <1>1, <1>2, <1>6, <2>1 DEF GraphFits, Fitting
    <3>2. Succeeded(Creator(r))
      BY <1>10, <2>1, <3>1 DEF Settled
    <3>3. plan.action[r] = "DeleteThenCreate"
      BY <1>1, <1>2, <3>1, <3>2 DEF GraphFits, Fitting, Succeeded, HasCreator, Replaces
    <3>4. Destroyer(r) \in Waits(Creator(r))
      BY <1>1, <1>2, <3>3 DEF GraphFits, Fitting, Waits
    <3>5. QED
      BY <1>2, <3>1, <3>2, <3>4 DEF WalkOrder, Succeeded
  <2>2. CASE q = r /\ v.key # 0
    BY <1>1, <1>5, <2>2 DEF DestroyerLeaves
  <2>3. CASE q # r
    BY <1>5, <2>3
  <2>4. QED
    BY <2>1, <2>2, <2>3
<1>11. ASSUME NEW q \in DOMAIN plan.config, plan.action[q] = "NoOp" \/ Succeeded(Creator(q))'
       PROVE  Converges(q)'
  <2>1. q \in Resource /\ plan.config[q].deps \subseteq Resource
    BY <1>2, RoundsAssumption DEF PlanFits
  <2>2. Converges(q) /\ Settled(q)
    BY <1>2, <1>8, <1>11 DEF Converging, Settled
  <2>3. state'[q].cur = state[q].cur /\ plan' = plan
    BY <1>2, <1>10, <2>1, <2>2
  <2>4. CurId(state, q) \in DOMAIN real /\ CurId(state, q)[1] = q /\ CurId(state, q) \in Ids
    BY <1>2, <2>2 DEF Converges, CurId, Typed
  <2>5. CurId(state, q) \in DOMAIN real'
    <3>1. CASE q = r
      BY <1>1, <1>10, <2>1, <2>2, <2>4, <3>1 DEF DestroyerLeaves
    <3>2. CASE q # r
      BY <1>1, <2>4, <3>2 DEF DestroyerLeaves
    <3>3. QED
      BY <3>1, <3>2
  <2>6. real'[CurId(state, q)] = real[CurId(state, q)]
    BY <1>1, <2>5 DEF DestroyerLeaves
  <2>7. \A b \in plan.config[q].deps : Settled(b) =>
           /\ Settled(b)' /\ (UpdateFailed(b) => UpdateFailed(b)')
           /\ state'[b].cur = None <=> state[b].cur = None
           /\ state'[b].cur.obj = state[b].cur.obj
    BY <1>4, <1>10, <2>1
  <2>8. \A i \in DOMAIN real' : i \in DOMAIN real
    BY <1>1 DEF DestroyerLeaves
  <2>9. QED
    BY <2>2, <2>3, <2>5, <2>6, <2>7, <2>8, ConvergesStays
<1>12. QED
  BY <1>2, <1>9, <1>11 DEF ConvergeInv, Converging

\* Where no walk is on there is nothing to show.
LEMMA ConvergeIdle == phase' = "idle" => ConvergeInv'
  BY DEF ConvergeInv, Destroying, Converging

\* Nothing changes when nothing is done.
LEMMA ConvergeStutters ==
  ASSUME ConvergeInv, UNCHANGED vars PROVE ConvergeInv'
  BY DEF vars, ConvergeInv, Destroying, Converging, Converges, Settled, Succeeded,
         RefersRight, UpdateFailed, Refers, CurId

\* What is recorded, and how far a walk is on its way.
THEOREM ConvergeInvariant == Spec => [](RecordInv /\ ConvergeInv)
<1>1. Init => ConvergeInv
  BY DEF Init, ConvergeInv, Destroying, Converging
<1>2. RecordInv /\ ConvergeInv /\ [Next]_vars => ConvergeInv'
  <2> SUFFICES ASSUME RecordInv, ConvergeInv, [Next]_vars PROVE ConvergeInv'
    OBVIOUS
  <2>1. CASE \E c \in Configs : PlanAndBuild(c)
    BY <2>1, PlanConverges
  <2>2. CASE \E r \in Resource : StartCreator(r) \/ FinishCreator(r)
    BY <2>2, StartCreatorConverges, FinishCreatorConverges
  <2>3. CASE \E v \in graph.node : StartDestroyer(v) \/ FailEarly(v) \/ FinishDestroyer(v)
    BY <2>3, StartDestroyerConverges, FailEarlyConverges, FinishDestroyerConverges
  <2>4. CASE WalkEnds
    BY <2>4, ConvergeIdle DEF WalkEnds
  <2>5. CASE Rest \/ UNCHANGED vars
    BY <2>5, ConvergeStutters DEF Rest
  <2>6. QED
    BY <2>1, <2>2, <2>3, <2>4, <2>5 DEF Next
<1>3. QED
  BY <1>1, <1>2, RecordInvariant, PTL DEF Spec

\* When every vertex of an apply succeeded, each resource of the configuration has
\* one object, made from the objects that are there now, and nothing else is left.
THEOREM AppliesConverge == Spec => []ConvergesWithoutErrors
<1>1. RecordInv /\ ConvergeInv => ConvergesWithoutErrors
  <2> SUFFICES ASSUME RecordInv, ConvergeInv, phase = "walk",
                      \A v \in graph.node : status[v] = "done",
                      NEW r \in Resource
      PROVE /\ \A k \in Key : state[r].dep[k] = None
            /\ IF r \in DOMAIN plan.config
               THEN LET cur == state[r].cur
                    IN  /\ cur # None /\ ~cur.tainted
                        /\ cur.deps = Dependencies(plan.config, r)
                        /\ real[<<r, cur.obj>>] = Refers(plan.config, state, r)
               ELSE state[r].cur = None
    BY DEF ConvergesWithoutErrors
  <2>1. PlanFits /\ GraphFits /\ Destroying /\ Converging
    BY DEF RecordInv, ConvergeInv
  <2>2. \A v \in graph.node : Succeeded(v)
    BY DEF Succeeded
  <2>3. \A k \in Key : state[r].dep[k] = None
    BY <2>1 DEF Destroying
  <2>4. CASE r \in DOMAIN plan.config
    <3>1. plan.action[r] = "NoOp" \/ Creator(r) \in graph.node
      BY <2>1, <2>4 DEF PlanFits, GraphFits, Fitting, HasCreator, New
    <3>2. Converges(r)
      BY <2>1, <2>2, <2>4, <3>1 DEF Converging
    <3>3. \A b : ~UpdateFailed(b)
      BY DEF UpdateFailed
    <3>4. QED
      BY <2>3, <2>4, <3>2, <3>3 DEF Converges, RefersRight, CurId
  <2>5. CASE r \notin DOMAIN plan.config
    <3>1. plan.action[r] = "None" \/ Destroyer(r) \in graph.node
      BY <2>1, <2>5 DEF PlanFits, GraphFits, Fitting
    <3>2. QED
      BY <2>1, <2>2, <2>3, <2>5, <3>1 DEF Destroying
  <2>6. QED
    BY <2>4, <2>5
<1>2. QED
  BY <1>1, ConvergeInvariant, PTL

-----------------------------------------------------------------------------
(* Types.                                                                  *)

\* What objects refer to, what a plan holds, and what edges join.
Shapes == /\ lost \subseteq Ids /\ \A i \in DOMAIN real : real[i] \subseteq Ids
          /\ plan.action \in [Resource -> Actions] /\ plan.key \in [Resource -> Key \cup {0}]
          /\ graph.edge \subseteq graph.node \X graph.node

\* The edges of a graph that is built join its vertices.
LEMMA EdgesJoinVertices ==
  ASSUME NEW t, NEW p, NEW G, G = Build(t, p)
  PROVE  G.edge \subseteq G.node \X G.node
<1> DEFINE V == Vertices(t, p)
           E == DestroyEdges(t, p, V)
<1>1. G.node = V /\ G.edge = ReferenceEdges(p, V) \cup Inverted(t, p, E)
  BY DEF Build
<1>2. ReferenceEdges(p, V) \subseteq V \X V /\ E \subseteq V \X V
  BY DEF ReferenceEdges, DestroyEdges
<1> HIDE DEF V, E
<1>3. Inverted(t, p, E) \subseteq V \X V
  BY <1>2 DEF Inverted
<1>4. QED
  BY <1>1, <1>2, <1>3

\* What a resource's object refers to are objects.
LEMMA ReferencesTyped ==
  ASSUME Typed, PlanFits, phase = "walk", NEW r \in Resource, r \in DOMAIN plan.config
  PROVE  Refers(plan.config, state, r) \subseteq Ids
<1>1. plan.config[r].deps \subseteq Resource
  BY RoundsAssumption DEF PlanFits
<1>2. ASSUME NEW b \in Resource, state[b].cur # None PROVE CurId(state, b) \in Ids
  <2>1. state[b].cur \in Objects
    BY <1>2 DEF Typed, Instances
  <2>2. QED
    BY <1>2, <2>1, NoObject DEF CurId, Ids
<1>3. QED
  BY <1>1, <1>2 DEF Refers

\* A creator has a configuration.
LEMMA CreatorDeclared ==
  ASSUME PlanFits, GraphFits, phase = "walk", NEW r \in Resource, Creator(r) \in graph.node
  PROVE  r \in DOMAIN plan.config
<1>1. HasCreator(plan, r)
  BY DEF GraphFits, Fitting
<1>2. QED
  BY <1>1 DEF HasCreator, PlanFits, Replaces

\* Every action keeps the types.
LEMMA ShapesStay ==
  ASSUME RecordInv, Shapes, [Next]_vars
  PROVE  Shapes'
<1>1. ASSUME NEW c \in Configs, PlanAndBuild(c) PROVE Shapes'
  <2>1. PICK t :
           /\ plan'.action \in [Resource -> Actions]
           /\ plan'.key = [r \in Resource |-> IF plan'.action[r] = "CreateThenDelete"
                             THEN UnusedKey(Refreshed[r].dep) ELSE 0]
           /\ \A r \in Resource : Fits(c, Refreshed, plan'.action, r)
           /\ graph' = Build(t, plan') /\ round < MaxRounds
           /\ real' = real /\ lost' = lost
    BY <1>1, PlanParts
  <2>2. \A r \in Resource : plan'.action[r] = "CreateThenDelete" =>
          UnusedKey(Refreshed[r].dep) \in Key
    BY <2>1, FitsActions, KeysFit DEF Replaces
  <2>3. plan'.key \in [Resource -> Key \cup {0}]
    BY <2>1, <2>2
  <2>4. graph'.edge \subseteq graph'.node \X graph'.node
    BY <2>1, EdgesJoinVertices
  <2>5. QED
    BY <2>1, <2>3, <2>4 DEF Shapes
<1>2. ASSUME NEW r \in Resource, FinishCreator(r) PROVE Shapes'
  <2>1. /\ Typed /\ PlanFits /\ GraphFits /\ phase = "walk" /\ Creator(r) \in graph.node
        /\ UNCHANGED <<plan, graph>>
    BY <1>2 DEF RecordInv, FinishCreator
  <2>2. Refers(plan.config, state, r) \subseteq Ids
    BY <2>1, CreatorDeclared, ReferencesTyped
  <2>3. PICK o, t : CreatorLeaves(r, o, t)
    BY <1>2, CreatorReturns
  <2>4. \A i \in DOMAIN real' : real'[i] \subseteq Ids
    BY <2>2, <2>3 DEF CreatorLeaves, Shapes
  <2>5. lost' \subseteq Ids
    <3>1. <<r, round>> \in Ids
      BY <2>1, RoundsAssumption DEF Typed, Ids
    <3>2. Finds(r) /\ status[Creator(r)] = "running"
      BY <1>2 DEF RecordInv, CreatorFinds, FinishCreator
    <3>3. plan.action[r] = "Update" => CurId(state, r) \in Ids
      BY <2>1, <3>2 DEF Finds, UpdateFailed, Typed
    <3>4. QED
      BY <1>2, <3>1, <3>3 DEF FinishCreator, Created, Updated, Lose, Shapes
  <2>6. QED
    BY <2>1, <2>4, <2>5 DEF Shapes
<1>3. ASSUME NEW v \in graph.node, FinishDestroyer(v) PROVE Shapes'
  <2>1. PICK o, t : DestroyerLeaves(v.res, v, o, t)
    BY <1>3, DestroyerReturns
  <2>2. \A i \in DOMAIN real' : real'[i] \subseteq Ids
    BY <2>1 DEF DestroyerLeaves, Shapes
  <2>3. Slot(state, v) # None => <<v.res, Slot(state, v).obj>> \in Ids
    <3>1. v.res \in Resource /\ v.key \in Key \cup {0} /\ state[v.res] \in Instances
      BY <1>3, DestroyerReturns DEF RecordInv, GraphFits, Fitting, Typed, FinishDestroyer
    <3>2. QED
      BY <3>1, NoObject DEF Slot, Instances, Ids
  <2>4. lost' \subseteq Ids
    BY <1>3, <2>3 DEF FinishDestroyer, Lose, Shapes
  <2>5. QED
    BY <1>3, <2>2, <2>4 DEF Shapes, FinishDestroyer
<1>4. ASSUME UNCHANGED <<real, lost, plan, graph>> PROVE Shapes'
  BY <1>4 DEF Shapes
<1>5. ASSUME WalkEnds PROVE Shapes'
  <2>1. /\ plan' = NoPlan /\ graph' = [node |-> {}, edge |-> {}]
        /\ real' = real /\ lost' = lost
    BY <1>5 DEF WalkEnds
  <2>2. NoPlan.action \in [Resource -> Actions] /\ NoPlan.key \in [Resource -> Key \cup {0}]
    BY DEF NoPlan, Actions
  <2>3. QED
    BY <2>1, <2>2 DEF Shapes
<1>6. QED
  BY <1>1, <1>2, <1>3, <1>4, <1>5
     DEF Next, StartCreator, StartDestroyer, FailEarly, Rest, vars

\* Types: what is recorded is of the resource's configuration, what a plan, its
\* graph and the walk's progress hold is of them, and round stays bounded.
THEOREM ApplyTypesCorrect == Spec => []TypeOK
<1>1. Init => Shapes
  <2> SUFFICES ASSUME Init PROVE Shapes
    OBVIOUS
  <2>1. NoPlan.action \in [Resource -> Actions] /\ NoPlan.key \in [Resource -> Key \cup {0}]
    BY DEF NoPlan, Actions
  <2>2. QED
    BY <2>1 DEF Init, Shapes
<1>2. RecordInv /\ Shapes /\ [Next]_vars => Shapes'
  BY ShapesStay
<1>3. RecordInv /\ Shapes => TypeOK
  <2> SUFFICES ASSUME RecordInv, Shapes PROVE TypeOK
    OBVIOUS
  <2>1. Objects \subseteq Slots
    <3>1. 1..MaxRounds \subseteq 0..MaxRounds
      BY RoundsAssumption
    <3>2. QED
      BY <3>1 DEF Objects, Slots
  <2>2. state \in [Resource -> [cur : Slots \cup {None}, dep : [Key -> Slots \cup {None}]]]
    <3>1. [Key -> Objects \cup {None}] \subseteq [Key -> Slots \cup {None}]
      BY <2>1
    <3>2. Instances \subseteq [cur : Slots \cup {None}, dep : [Key -> Slots \cup {None}]]
      BY <2>1, <3>1 DEF Instances
    <3>3. QED
      BY <3>2 DEF RecordInv, Typed
  <2>3. QED
    BY <2>2 DEF RecordInv, Typed, Shapes, TypeOK, StatusOf
<1>4. QED
  BY <1>1, <1>2, <1>3, RecordInvariant, PTL DEF Spec

-----------------------------------------------------------------------------
(* The order of destruction.                                               *)

\* The resources whose destroyers are ordered with the vertices of r: they wait
\* for the destroyers of r, and for its creator or, where it waits for them, they
\* are of current objects.
After(r) ==
  {a \in Resource : \A v \in graph.node : IsDestroyer(v) /\ v.res = a =>
     /\ plan.action[r] # "Create" =>
          \A w \in graph.node : IsDestroyer(w) /\ w.res = r => <<v, w>> \in graph.edge
     /\ Creator(r) \in graph.node /\ plan.action[r] # "NoOp" =>
          \/ <<v, Creator(r)>> \in graph.edge
          \/ <<Creator(r), v>> \in graph.edge /\ v.key = 0}

\* No object refers to one of its own resource.
Elsewhere == \A u \in DOMAIN real : \A i \in real[u] : i[1] # u[1]

\* What is recorded as a dependency is ordered, of the current object and of the
\* one that is being replaced, and so is what a creator is going to record.
Ordered == phase = "walk" =>
  \A r \in Resource :
    /\ Creator(r) \in graph.node => Dependencies(plan.config, r) \subseteq After(r)
    /\ state[r].cur # None => state[r].cur.deps \subseteq After(r) \cup {r}
    /\ plan.key[r] # 0 /\ state[r].dep[plan.key[r]] # None =>
         state[r].dep[plan.key[r]].deps \subseteq After(r) \cup {r}

\* The destroyer of a has not ended.
Destructible(a) == /\ Destroyer(a) \in graph.node
                   /\ status[Destroyer(a)] \in {"pending", "running"}

\* A creator waits only for the destroyer of what is not create_before_destroy.
Straight == phase = "walk" =>
  \A r, a \in Resource :
    Destructible(a) /\ <<Creator(r), Destroyer(a)>> \in graph.edge
      => state[a].cur = None \/ ~state[a].cur.cbd

OrderInv == Elsewhere /\ Ordered /\ Straight

\* DestroyEdgeTransformer orders what goes by the stored dependencies, and
\* CBDEdgeTransformer leaves a creator waiting only for what is not
\* create_before_destroy.
LEMMA BuildOrders ==
  ASSUME NEW t, NEW p, NEW G, G = Build(t, p), NEW v \in G.node, NEW w \in G.node,
         IsDestroyer(v)
  PROVE  /\ IsDestroyer(w) /\ v.res \in StateDependencies(t, p, w) => <<v, w>> \in G.edge
         /\ ~IsDestroyer(w) /\ p.action[w.res] # "NoOp"
              /\ v.res \in StateDependencies(t, p, w)
            => <<v, w>> \in G.edge \/ (<<w, v>> \in G.edge /\ v.key = 0)
         /\ ~IsDestroyer(w) /\ <<w, v>> \in G.edge => v.key = 0 /\ ~t[v.res].cur.cbd
<1> DEFINE V == Vertices(t, p)
           E == DestroyEdges(t, p, V)
           Turned(e) == /\ IsDestroyer(e[2]) /\ ~IsDestroyer(e[1])
                        /\ DestroyerCBD(t, p, e[2])
<1>1. G.node = V /\ G.edge = ReferenceEdges(p, V) \cup Inverted(t, p, E)
  BY DEF Build
<1>2. Inverted(t, p, E) = {IF Turned(e) THEN <<e[2], e[1]>> ELSE e : e \in E}
  BY DEF Inverted
<1>3. v \in V /\ w \in V
  BY <1>1
<1>4. ASSUME IsDestroyer(w), v.res \in StateDependencies(t, p, w)
      PROVE  <<v, w>> \in G.edge
  <2>1. <<v, w>> \in E
    BY <1>3, <1>4 DEF DestroyEdges
  <2>2. ~Turned(<<v, w>>)
    OBVIOUS
  <2>3. QED
    BY <1>1, <1>2, <2>1, <2>2
<1>5. ASSUME ~IsDestroyer(w), p.action[w.res] # "NoOp", v.res \in StateDependencies(t, p, w)
      PROVE  <<v, w>> \in G.edge \/ (<<w, v>> \in G.edge /\ v.key = 0)
  <2>1. <<w, v>> \in E
    BY <1>3, <1>5 DEF DestroyEdges
  <2>2. CASE Turned(<<w, v>>)
    BY <1>1, <1>2, <2>1, <2>2
  <2>3. CASE ~Turned(<<w, v>>)
    <3>1. ~DestroyerCBD(t, p, v)
      BY <1>5, <2>3
    <3>2. <<w, v>> \in G.edge
      BY <1>1, <1>2, <2>1, <2>3
    <3>3. QED
      BY <3>1, <3>2 DEF DestroyerCBD
  <2>4. QED
    BY <2>2, <2>3
<1>6. ASSUME ~IsDestroyer(w), <<w, v>> \in G.edge
      PROVE  v.key = 0 /\ ~t[v.res].cur.cbd
  <2>1. <<w, v>> \notin ReferenceEdges(p, V)
    BY DEF ReferenceEdges
  <2>2. PICK e \in E : <<w, v>> = IF Turned(e) THEN <<e[2], e[1]>> ELSE e
    BY <1>1, <1>2, <1>6, <2>1
  <2>3. ~Turned(e)
    BY <1>6, <2>2
  <2>4. e[1] = w /\ e[2] = v
    BY <2>2, <2>3
  <2>5. ~DestroyerCBD(t, p, v)
    BY <1>6, <2>3, <2>4
  <2>6. QED
    BY <2>5 DEF DestroyerCBD
<1>7. QED
  BY <1>4, <1>5, <1>6

\* A plan orders what it reads from the state and from the configuration.
LEMMA PlanOrders ==
  ASSUME RecordInv, OrderInv, NEW c \in Configs, PlanAndBuild(c)
  PROVE  OrderInv'
<1>1. PICK t :
        /\ \A r \in Resource : Fits(c, Refreshed, plan'.action, r)
        /\ t = Planned(c, Refreshed, plan'.action) /\ plan'.config = c
        /\ graph' = Build(t, plan') /\ real' = real
        /\ phase' = "walk" => state' = t
  BY PlanParts
<1>2. PlanFits' /\ Fitting(graph, plan)'
  BY PlanFitsTogether
<1>3. \A r \in Resource : plan'.action[r] = "CreateThenDelete" =>
        t[r].dep[plan'.key[r]] = None
  BY <1>1, PlanFitsTogether
<1>4. Elsewhere'
  BY <1>1 DEF OrderInv, Elsewhere
<1> SUFFICES ASSUME phase' = "walk" PROVE Ordered' /\ Straight'
  BY <1>4 DEF OrderInv, Ordered, Straight
<1>5. state' = t
  BY <1>1
<1>6. ASSUME NEW r \in Resource, t[r].cur # None
      PROVE  t[r].cur.deps \subseteq After(r)'
  <2>1. t[r].cur.deps \subseteq Resource
    <3>1. t[r] \in Instances
      BY <1>1, PlannedInstance
    <3>2. t[r].cur \in Objects
      BY <1>6, <3>1 DEF Instances
    <3>3. QED
      BY <3>2 DEF Objects
  <2>2. ASSUME NEW a \in t[r].cur.deps, NEW v \in graph'.node, IsDestroyer(v), v.res = a,
               NEW w \in graph'.node, w.res = r
        PROVE  /\ IsDestroyer(w) => <<v, w>> \in graph'.edge
               /\ ~IsDestroyer(w) /\ plan'.action[r] # "NoOp" =>
                    <<v, w>> \in graph'.edge \/ (<<w, v>> \in graph'.edge /\ v.key = 0)
    <3>1. v.res \in StateDependencies(t, plan', w)
      BY <1>6, <2>2 DEF StateDependencies
    <3>2. QED
      BY <1>1, <2>2, <3>1, BuildOrders
  <2>3. Creator(r).res = r /\ ~IsDestroyer(Creator(r))
    BY DEF Creator, IsDestroyer
  <2>4. QED
    BY <2>1, <2>2, <2>3 DEF After
<1>7. ASSUME NEW r \in Resource, Creator(r) \in graph'.node
      PROVE  Dependencies(c, r) \subseteq After(r)'
  <2>1. HasCreator(plan', r)
    BY <1>2, <1>7 DEF Fitting
  <2>2. r \in DOMAIN c
    BY <1>1, <1>2, <2>1 DEF HasCreator, PlanFits, Replaces
  <2>3. CASE t[r].cur # None
    <3>1. Refreshed[r].cur # None
      BY <1>1, <2>3, PlannedInstance
    <3>2. Dependencies(c, r) \subseteq t[r].cur.deps
      BY <1>1, <2>2, <3>1, PlannedInstance
    <3>3. QED
      BY <1>6, <2>3, <3>2
  <2>4. CASE t[r].cur = None
    <3>1. Refreshed[r].cur = None
      BY <1>1, <2>4, PlannedInstance
    <3>2. plan'.action[r] = "Create"
      BY <1>1, <2>2, <3>1 DEF Fits
    <3>3. Creator(r).res = r /\ ~IsDestroyer(Creator(r))
      BY DEF Creator, IsDestroyer
    <3>4. StateDependencies(t, plan', Creator(r)) = Dependencies(c, r)
      BY <1>1, <2>4, <3>3 DEF StateDependencies
    <3>5. ASSUME NEW v \in graph'.node, IsDestroyer(v), v.res \in Dependencies(c, r)
          PROVE  \/ <<v, Creator(r)>> \in graph'.edge
                 \/ <<Creator(r), v>> \in graph'.edge /\ v.key = 0
      BY <1>1, <1>7, <3>2, <3>3, <3>4, <3>5, BuildOrders
    <3>6. Dependencies(c, r) \subseteq Resource
      BY DependenciesDeclared
    <3>7. QED
      BY <3>2, <3>5, <3>6 DEF After
  <2>5. QED
    BY <2>3, <2>4
<1>8. \A r \in Resource : plan'.key[r] # 0 => t[r].dep[plan'.key[r]] = None
  BY <1>2, <1>3 DEF PlanFits
<1>9. Ordered'
  BY <1>1, <1>5, <1>6, <1>7, <1>8 DEF Ordered
<1>10. Straight'
  <2>1. ASSUME NEW r \in Resource, NEW a \in Resource,
               Destroyer(a) \in graph'.node, <<Creator(r), Destroyer(a)>> \in graph'.edge
        PROVE  ~t[a].cur.cbd
    <3>1. Creator(r) \in graph'.node
      BY <1>1, <2>1, EdgesJoinVertices
    <3>2. /\ IsDestroyer(Destroyer(a)) /\ ~IsDestroyer(Creator(r))
          /\ Destroyer(a).res = a
      BY DEF IsDestroyer, Destroyer, Creator
    <3>3. PICK v \in graph'.node, w \in graph'.node : v = Destroyer(a) /\ w = Creator(r)
      BY <2>1, <3>1
    <3>4. ~t[v.res].cur.cbd
      BY <1>1, <2>1, <3>2, <3>3, BuildOrders
    <3>5. QED
      BY <3>2, <3>3, <3>4
  <2>2. QED
    BY <1>5, <2>1 DEF Straight, Destructible
<1>11. QED
  BY <1>9, <1>10

\* A step of the walk writes into the records of one resource: what depends on
\* what stays, but for what a creator gives its object.
LEMMA OrderStays ==
  ASSUME RecordInv, OrderInv, phase = "walk", UNCHANGED <<plan, graph, phase>>, Elsewhere',
         NEW r \in Resource, NEW t \in Instances, state' = [state EXCEPT ![r] = t],
         NEW k, k = plan.key[r],
         t.cur # None =>
           \/ Creator(r) \in graph.node /\ t.cur.deps = Dependencies(plan.config, r)
           \/ state[r].cur # None /\ t.cur.deps = state[r].cur.deps
           \/ k # 0 /\ state[r].dep[k] # None /\ t.cur.deps = state[r].dep[k].deps,
         k # 0 /\ t.dep[k] # None =>
           \/ state[r].cur # None /\ t.dep[k].deps = state[r].cur.deps
           \/ state[r].dep[k] # None /\ t.dep[k].deps = state[r].dep[k].deps,
         \A a \in Resource : Destructible(a)' => Destructible(a),
         Destructible(r)' => t.cur \in {None, state[r].cur}
  PROVE  OrderInv'
<1>1. \A q \in Resource : state'[q] = IF q = r THEN t ELSE state[q]
  BY DEF RecordInv, Typed
<1>2. \A q : After(q)' = After(q)
  BY DEF After
<1>3. Ordered'
  <2>1. ASSUME NEW q \in Resource
        PROVE  /\ Creator(q) \in graph.node => Dependencies(plan.config, q) \subseteq After(q)
               /\ state'[q].cur # None => state'[q].cur.deps \subseteq After(q) \cup {q}
               /\ plan.key[q] # 0 /\ state'[q].dep[plan.key[q]] # None =>
                    state'[q].dep[plan.key[q]].deps \subseteq After(q) \cup {q}
    <3>1. /\ Creator(q) \in graph.node => Dependencies(plan.config, q) \subseteq After(q)
          /\ state[q].cur # None => state[q].cur.deps \subseteq After(q) \cup {q}
          /\ plan.key[q] # 0 /\ state[q].dep[plan.key[q]] # None =>
               state[q].dep[plan.key[q]].deps \subseteq After(q) \cup {q}
      BY DEF OrderInv, Ordered
    <3>2. CASE q = r
      BY <1>1, <3>1, <3>2
    <3>3. CASE q # r
      BY <1>1, <3>1, <3>3
    <3>4. QED
      BY <3>2, <3>3
  <2>2. QED
    BY <1>2, <2>1 DEF Ordered
<1>4. Straight'
  <2>1. ASSUME NEW q \in Resource, NEW a \in Resource, Destructible(a)',
               <<Creator(q), Destroyer(a)>> \in graph.edge
        PROVE  state'[a].cur = None \/ ~state'[a].cur.cbd
    <3>1. state[a].cur = None \/ ~state[a].cur.cbd
      BY <2>1 DEF OrderInv, Straight
    <3>2. state'[a].cur \in {None, state[a].cur}
      BY <1>1, <2>1
    <3>3. QED
      BY <3>1, <3>2
  <2>2. QED
    BY <2>1 DEF Straight
<1>5. QED
  BY <1>3, <1>4 DEF OrderInv

\* No vertex becomes pending or running again.
LEMMA DestructibleBefore ==
  ASSUME RecordInv, phase = "walk", NEW v \in graph.node, NEW o \in StatusOf, Ends(v, o),
         UNCHANGED graph, status[v] \in {"pending", "running"}, NEW a
  PROVE  /\ Destructible(a)' => Destructible(a)
         /\ Destructible(a)' /\ v = Destroyer(a) => o \in {"pending", "running"}
<1>1. \A w \in graph.node : status'[w] = IF w = v THEN o ELSE status[w]
  BY DEF RecordInv, Typed, Ends
<1>2. QED
  BY <1>1 DEF Destructible

\* A creator deposes an object with what it depends on.
LEMMA StartCreatorOrders ==
  ASSUME RecordInv, OrderInv, NEW r \in Resource, StartCreator(r)
  PROVE  OrderInv'
<1>1. /\ phase = "walk" /\ Creator(r) \in graph.node /\ status[Creator(r)] = "pending"
      /\ Ends(Creator(r), "running") /\ UNCHANGED <<real, plan, graph, phase>>
  BY DEF StartCreator, Ready
<1>2. Elsewhere' /\ Typed
  BY <1>1 DEF OrderInv, Elsewhere, RecordInv
<1>3. \A a \in Resource : Destructible(a)' => Destructible(a)
  BY <1>1, DestructibleBefore DEF StatusOf
<1>4. PICK s \in Instances, k \in {plan.key[r]} : s = state[r]
  BY <1>2 DEF Typed
<1>5. CASE /\ s.cur # None /\ k \in Key \ {0}
           /\ state' = [state EXCEPT ![r] = Depose(s, k)]
  <2>1. PICK t : t = Depose(s, k)
    OBVIOUS
  <2>2. t \in Instances /\ t.cur = None /\ t.dep[k] = s.cur
    BY <1>5, <2>1 DEF Depose, Instances
  <2>3. QED
    BY <1>1, <1>2, <1>3, <1>4, <1>5, <2>1, <2>2, OrderStays
<1>6. CASE state' = state
  <2>1. state' = [state EXCEPT ![r] = s]
    BY <1>2, <1>4, <1>6, SameRecord
  <2>2. QED
    BY <1>1, <1>2, <1>3, <1>4, <2>1, OrderStays
<1>7. QED
  BY <1>4, <1>5, <1>6, CreatorStarts, KeyAssumption

\* A vertex that only changes its status changes no order.
LEMMA WaitsOrder ==
  ASSUME RecordInv, OrderInv, phase = "walk", NEW v \in graph.node, v.res \in Resource,
         NEW o \in StatusOf, Ends(v, o), status[v] \in {"pending", "running"},
         UNCHANGED <<real, state, plan, graph, phase>>
  PROVE  OrderInv'
<1>1. Elsewhere' /\ Typed
  BY DEF OrderInv, Elsewhere, RecordInv
<1>2. \A a \in Resource : Destructible(a)' => Destructible(a)
  BY DestructibleBefore
<1>3. PICK r \in Resource, s \in Instances : s = state[r]
  BY <1>1 DEF Typed
<1>4. state' = [state EXCEPT ![r] = s]
  BY <1>1, <1>3, SameRecord
<1>5. QED
  BY <1>1, <1>2, <1>3, <1>4, OrderStays

\* A destroyer starts, or fails early.
LEMMA StartDestroyerOrders ==
  ASSUME RecordInv, OrderInv, NEW v \in graph.node, StartDestroyer(v) \/ FailEarly(v)
  PROVE  OrderInv'
<1>1. phase = "walk"
  BY DEF StartDestroyer, FailEarly, RecordInv, WalkOrder
<1>2. v.res \in Resource
  BY <1>1 DEF RecordInv, GraphFits, Fitting
<1>3. \E o \in StatusOf : Ends(v, o) /\ status[v] \in {"pending", "running"}
  BY DEF StartDestroyer, FailEarly, Ready, StatusOf
<1>4. UNCHANGED <<real, state, plan, graph, phase>>
  BY DEF StartDestroyer, FailEarly
<1>5. QED
  BY <1>1, <1>2, <1>3, <1>4, WaitsOrder

\* A creator gives its object the dependencies of the configuration, or leaves
\* one with those it had; its own destroyer has ended.
LEMMA FinishCreatorOrders ==
  ASSUME RecordInv, OrderInv, NEW r \in Resource, FinishCreator(r)
  PROVE  OrderInv'
<1>1. /\ phase = "walk" /\ Creator(r) \in graph.node /\ status[Creator(r)] = "running"
      /\ UNCHANGED <<plan, graph, phase>>
      /\ Typed /\ PlanFits /\ GraphFits /\ WalkOrder
  BY DEF FinishCreator, RecordInv
<1>2. PICK o, t : CreatorLeaves(r, o, t)
  BY CreatorReturns
<1>3. r \in DOMAIN plan.config
  BY <1>1, CreatorDeclared
<1>4. Elsewhere'
  <2>1. \A i \in Refers(plan.config, state, r) : i[1] # r
    BY <1>1, <1>3, RoundsAssumption DEF Refers, CurId, PlanFits
  <2>2. ASSUME NEW u \in DOMAIN real', NEW i \in real'[u] PROVE i[1] # u[1]
    <3>1. u \in Ids
      BY <1>2 DEF CreatorLeaves
    <3>2. CASE u \in DOMAIN real /\ real'[u] = real[u]
      BY <2>2, <3>2 DEF OrderInv, Elsewhere
    <3>3. CASE ~(u \in DOMAIN real /\ real'[u] = real[u])
      <4>1. u[1] = r /\ real'[u] = Refers(plan.config, state, r)
        BY <1>2, <3>1, <3>3 DEF CreatorLeaves
      <4>2. QED
        BY <2>1, <2>2, <4>1
    <3>4. QED
      BY <3>2, <3>3
  <2>3. QED
    BY <2>2 DEF Elsewhere
<1>5. /\ t \in Instances /\ state' = [state EXCEPT ![r] = t]
      /\ o \in StatusOf /\ Ends(Creator(r), o)
  BY <1>2 DEF CreatorLeaves, StatusOf
<1>6. \A a \in Resource : Destructible(a)' => Destructible(a)
  BY <1>1, <1>5, DestructibleBefore
<1>7. ~Destructible(r)
  <2>1. SUFFICES ASSUME Destructible(r) PROVE FALSE
    OBVIOUS
  <2>2. Destroyer(r) \in graph.node /\ status[Destroyer(r)] # "done"
    BY <2>1 DEF Destructible
  <2>3. plan.action[r] = "DeleteThenCreate"
    BY <1>1, <2>2 DEF GraphFits, Fitting, HasCreator, Replaces
  <2>4. Destroyer(r) \in Waits(Creator(r))
    BY <1>1, <2>2, <2>3 DEF GraphFits, Fitting, Waits
  <2>5. QED
    BY <1>1, <2>2, <2>4 DEF WalkOrder
<1>8. PICK k \in Key \cup {0} : k = plan.key[r]
  BY <1>1 DEF PlanFits
<1>9. t.cur # None =>
        \/ Creator(r) \in graph.node /\ t.cur.deps = Dependencies(plan.config, r)
        \/ state[r].cur # None /\ t.cur.deps = state[r].cur.deps
        \/ k # 0 /\ state[r].dep[k] # None /\ t.cur.deps = state[r].dep[k].deps
  BY <1>1, <1>2, <1>8 DEF CreatorLeaves
<1>10. k # 0 /\ t.dep[k] # None =>
         \/ state[r].cur # None /\ t.dep[k].deps = state[r].cur.deps
         \/ state[r].dep[k] # None /\ t.dep[k].deps = state[r].dep[k].deps
  BY <1>2, <1>8 DEF CreatorLeaves
<1>11. Destructible(r)' => t.cur \in {None, state[r].cur}
  BY <1>6, <1>7
<1>12. QED
  BY <1>1, <1>4, <1>5, <1>6, <1>8, <1>9, <1>10, <1>11, OrderStays

\* A destroyer removes a record or writes it back with its dependencies, and has
\* ended.
LEMMA FinishDestroyerOrders ==
  ASSUME RecordInv, OrderInv, NEW v \in graph.node, FinishDestroyer(v)
  PROVE  OrderInv'
<1>1. /\ phase = "walk" /\ IsDestroyer(v) /\ status[v] = "running"
      /\ UNCHANGED <<plan, graph, phase>>
      /\ Typed /\ PlanFits /\ GraphFits
  BY DEF FinishDestroyer, RecordInv
<1>2. PICK r, o, t : r \in Resource /\ r = v.res /\ DestroyerLeaves(r, v, o, t)
  BY DestroyerReturns
<1>3. Elsewhere'
  BY <1>2 DEF DestroyerLeaves, OrderInv, Elsewhere
<1>4. /\ t \in Instances /\ state' = [state EXCEPT ![r] = t]
      /\ o \in StatusOf /\ Ends(v, o) /\ o \notin {"pending", "running"}
  BY <1>2 DEF DestroyerLeaves, StatusOf
<1>5. \A a \in Resource : Destructible(a)' => Destructible(a)
  BY <1>1, <1>4, DestructibleBefore
<1>6. Destructible(r)' => t.cur \in {None, state[r].cur}
  <2>1. CASE v.key = 0
    <3>1. v = Destroyer(r)
      BY <1>1, <1>2, <2>1, DestroyerIs
    <3>2. ~Destructible(r)'
      BY <1>1, <1>4, <3>1, DestructibleBefore
    <3>3. QED
      BY <3>2
  <2>2. CASE v.key # 0
    BY <1>2, <2>2 DEF DestroyerLeaves
  <2>3. QED
    BY <2>1, <2>2
<1>7. PICK k \in Key \cup {0} : k = plan.key[r]
  BY <1>1, <1>2 DEF PlanFits
<1>8. t.cur # None =>
        \/ Creator(r) \in graph.node /\ t.cur.deps = Dependencies(plan.config, r)
        \/ state[r].cur # None /\ t.cur.deps = state[r].cur.deps
        \/ k # 0 /\ state[r].dep[k] # None /\ t.cur.deps = state[r].dep[k].deps
  BY <1>2 DEF DestroyerLeaves
<1>9. k # 0 /\ t.dep[k] # None =>
        \/ state[r].cur # None /\ t.dep[k].deps = state[r].cur.deps
        \/ state[r].dep[k] # None /\ t.dep[k].deps = state[r].dep[k].deps
  BY <1>2, <1>7 DEF DestroyerLeaves
<1>10. r \in Resource
  BY <1>2
<1>11. QED
  BY <1>1, <1>3, <1>4, <1>5, <1>6, <1>7, <1>8, <1>9, <1>10, OrderStays

\* The order of destruction holds in every round.
LEMMA OrderInvariant == Spec => [](RecordInv /\ ConvergeInv /\ OrderInv)
<1>1. Init => OrderInv
  BY DEF Init, OrderInv, Elsewhere, Ordered, Straight
<1>2. RecordInv /\ OrderInv /\ [Next]_vars => OrderInv'
  <2> SUFFICES ASSUME RecordInv, OrderInv, [Next]_vars PROVE OrderInv'
    OBVIOUS
  <2>1. CASE \E c \in Configs : PlanAndBuild(c)
    BY <2>1, PlanOrders
  <2>2. CASE \E r \in Resource : StartCreator(r) \/ FinishCreator(r)
    BY <2>2, StartCreatorOrders, FinishCreatorOrders
  <2>3. CASE \E v \in graph.node : StartDestroyer(v) \/ FailEarly(v) \/ FinishDestroyer(v)
    BY <2>3, StartDestroyerOrders, FinishDestroyerOrders
  <2>4. CASE WalkEnds
    BY <2>4 DEF WalkEnds, OrderInv, Elsewhere, Ordered, Straight
  <2>5. CASE Rest \/ UNCHANGED vars
    <3>1. UNCHANGED vars
      BY <2>5 DEF Rest
    <3>2. \A r : After(r)' = After(r) /\ Destructible(r)' = Destructible(r)
      BY <3>1 DEF vars, After, Destructible
    <3>3. Elsewhere' /\ Straight'
      BY <3>1, <3>2 DEF vars, OrderInv, Elsewhere, Straight
    <3>4. Ordered'
      BY <3>1, <3>2 DEF vars, OrderInv, Ordered
    <3>5. QED
      BY <3>3, <3>4 DEF OrderInv
  <2>6. QED
    BY <2>1, <2>2, <2>3, <2>4, <2>5 DEF Next
<1>3. QED
  BY <1>1, <1>2, ConvergeInvariant, PTL DEF Spec

\* What refers to the object of a destroyer that runs, and depends on it by its
\* record, has an update to come.
LEMMA UsersAreGone ==
  ASSUME RecordInv, ConvergeInv, OrderInv, phase = "walk",
         NEW v \in graph.node, IsDestroyer(v), status[v] = "running",
         Slot(state, v) # None, NEW id \in DOMAIN real, id = <<v.res, Slot(state, v).obj>>,
         NEW user \in DOMAIN real, id \in real[user],
         Record(user) # None, v.res \in Record(user).deps
  PROVE  /\ plan.action[user[1]] = "Update" /\ status[Creator(user[1])] = "pending"
         /\ state[v.res].cur.obj = id[2] /\ ~state[v.res].cur.cbd
<1>1. /\ Typed /\ Recorded /\ PlanFits /\ GraphFits /\ WalkOrder /\ CreatorFinds
      /\ Destroying /\ Converging /\ Elsewhere /\ Ordered /\ Straight
  BY DEF RecordInv, ConvergeInv, OrderInv
<1>2. PICK a, r : a = v.res /\ r = user[1] /\ a \in Resource /\ r \in Resource /\ a # r
                  /\ user = <<r, user[2]>>
  BY <1>1 DEF Typed, Ids, Elsewhere, GraphFits, Fitting
<1>3. /\ v.key = 0 => v = Destroyer(a)
      /\ v.key # 0 => v.key \in Key /\ v = Deposed(a, v.key)
  BY <1>1, <1>2, DestroyerIs
<1>4. \A w \in graph.node : <<v, w>> \in graph.edge => status[w] = "done"
  BY <1>1 DEF WalkOrder, Waits
<1>5. a \in After(r)
  BY <1>1, <1>2 DEF Record, Ordered
<1>6. plan.action[r] # "Create" =>
        \A w \in graph.node : IsDestroyer(w) /\ w.res = r => status[w] = "done"
  BY <1>2, <1>4, <1>5 DEF After
<1>7. Creator(r) \in graph.node /\ plan.action[r] # "NoOp" =>
        \/ status[Creator(r)] = "done"
        \/ /\ status[Creator(r)] = "pending" /\ v.key = 0
           /\ <<Creator(r), v>> \in graph.edge
  <2>1. SUFFICES ASSUME Creator(r) \in graph.node, plan.action[r] # "NoOp",
                        status[Creator(r)] # "done"
                 PROVE  /\ status[Creator(r)] = "pending" /\ v.key = 0
                        /\ <<Creator(r), v>> \in graph.edge
    OBVIOUS
  <2>2. <<Creator(r), v>> \in graph.edge /\ v.key = 0
    BY <1>2, <1>4, <1>5, <2>1 DEF After
  <2>3. v \in Waits(Creator(r))
    BY <2>2 DEF Waits
  <2>4. status[Creator(r)] = "pending"
    BY <1>1, <2>1, <2>3 DEF WalkOrder
  <2>5. QED
    BY <2>2, <2>4
<1>8. state[r].cur # None /\ user = CurId(state, r)
  <2>1. CASE plan.key[r] # 0 /\ state[r].dep[plan.key[r]].obj = user[2]
    <3>1. /\ plan.key[r] \in Key /\ state[r].dep[plan.key[r]] # None
          /\ plan.action[r] = "CreateThenDelete"
      BY <1>1, <1>2, <2>1 DEF Record, PlanFits
    <3>2. Deposed(r, plan.key[r]) \in graph.node /\ status[Deposed(r, plan.key[r])] # "done"
      BY <1>1, <1>2, <3>1 DEF Destroying
    <3>3. IsDestroyer(Deposed(r, plan.key[r])) /\ Deposed(r, plan.key[r]).res = r
      BY DEF IsDestroyer, Deposed
    <3>4. QED
      BY <1>6, <3>1, <3>2, <3>3
  <2>2. CASE ~(plan.key[r] # 0 /\ state[r].dep[plan.key[r]].obj = user[2])
    BY <1>2, <2>2 DEF Record, CurId
  <2>3. QED
    BY <2>1, <2>2
<1>9. r \in DOMAIN plan.config
  <2>1. SUFFICES ASSUME r \notin DOMAIN plan.config PROVE FALSE
    OBVIOUS
  <2>2. plan.action[r] \in {"None", "Delete"}
    BY <1>1, <1>2, <2>1 DEF PlanFits
  <2>3. plan.action[r] = "Delete" => Succeeded(Destroyer(r))
    <3>1. IsDestroyer(Destroyer(r)) /\ Destroyer(r).res = r
      BY DEF IsDestroyer, Destroyer
    <3>2. QED
      BY <1>1, <1>2, <1>6, <3>1 DEF GraphFits, Fitting, Succeeded
  <2>4. QED
    BY <1>1, <1>2, <1>8, <2>1, <2>2, <2>3 DEF Destroying
<1>10. ~Converges(r)
  <2>1. SUFFICES ASSUME Converges(r) PROVE FALSE
    OBVIOUS
  <2>2. PICK b \in plan.config[r].deps : state[b].cur # None /\ id = CurId(state, b)
    <3>1. id \in Refers(plan.config, state, r)
      BY <1>8, <2>1 DEF Converges, RefersRight
    <3>2. QED
      BY <3>1, RefersIs
  <2>3. b = a /\ state[a].cur # None /\ state[a].cur.obj = Slot(state, v).obj /\ Settled(a)
    BY <1>2, <2>1, <2>2 DEF CurId, Converges
  <2>4. v = Destroyer(a)
    <3>1. v.key # 0 => state[a].dep[v.key] # None /\ state[a].dep[v.key].obj = state[a].cur.obj
      BY <1>2, <2>3 DEF Slot
    <3>2. Distinct(state[a])
      BY <1>1, <1>2 DEF Recorded
    <3>3. QED
      BY <1>3, <3>1, <3>2 DEF Distinct
  <2>5. plan.action[a] \in {"Delete", "DeleteThenCreate"}
    BY <1>1, <1>2, <2>4 DEF GraphFits, Fitting
  <2>6. Creator(a) \in graph.node /\ status[Creator(a)] = "done"
    BY <2>3, <2>5 DEF Settled, Succeeded
  <2>7. plan.action[a] = "DeleteThenCreate"
    BY <1>1, <1>2, <2>5, <2>6 DEF GraphFits, Fitting, HasCreator, Replaces
  <2>8. v \in Waits(Creator(a))
    BY <1>1, <1>2, <2>4, <2>7 DEF GraphFits, Fitting, Waits
  <2>9. QED
    BY <1>1, <2>6, <2>8 DEF WalkOrder
<1>11. /\ plan.action[r] \in New \cup {"Update"} /\ Creator(r) \in graph.node
       /\ status[Creator(r)] # "done"
  BY <1>1, <1>2, <1>9, <1>10
     DEF PlanFits, Converging, Succeeded, GraphFits, Fitting, HasCreator, New
<1>12. /\ status[Creator(r)] = "pending" /\ v.key = 0 /\ v = Destroyer(a)
       /\ <<Creator(r), Destroyer(a)>> \in graph.edge
  BY <1>3, <1>7, <1>11 DEF New, Replaces
<1>13. plan.action[r] = "Update"
  <2>1. Finds(r) /\ Unfinished(r)
    BY <1>1, <1>2, <1>11, <1>12 DEF CreatorFinds, Unfinished
  <2>2. plan.action[r] # "Create"
    BY <1>8, <2>1 DEF Finds, New
  <2>3. plan.action[r] # "DeleteThenCreate"
    <3>1. SUFFICES ASSUME plan.action[r] = "DeleteThenCreate" PROVE FALSE
      OBVIOUS
    <3>2. IsDestroyer(Destroyer(r)) /\ Destroyer(r).res = r
      BY DEF IsDestroyer, Destroyer
    <3>3. status[Destroyer(r)] = "done"
      BY <1>1, <1>2, <1>6, <3>1, <3>2 DEF GraphFits, Fitting
    <3>4. QED
      BY <1>8, <2>1, <3>1, <3>3 DEF Finds, New, Replaces
  <2>4. plan.action[r] # "CreateThenDelete"
    <3>1. SUFFICES ASSUME plan.action[r] = "CreateThenDelete" PROVE FALSE
      OBVIOUS
    <3>2. PICK k \in Key : k = plan.key[r]
      BY <1>1, <1>2, <3>1 DEF PlanFits
    <3>3. IsDestroyer(Deposed(r, k)) /\ Deposed(r, k).res = r
      BY DEF IsDestroyer, Deposed
    <3>4. Deposed(r, k) \in graph.node /\ <<Deposed(r, k), Creator(r)>> \in graph.edge
      BY <1>1, <1>2, <1>11, <3>1, <3>2 DEF GraphFits, Fitting
    <3>5. status[Deposed(r, k)] = "done"
      BY <1>6, <3>1, <3>3, <3>4
    <3>6. Creator(r) \in Waits(Deposed(r, k))
      BY <1>11, <3>4 DEF Waits
    <3>7. QED
      BY <1>1, <1>11, <3>4, <3>5, <3>6 DEF WalkOrder
  <2>5. QED
    BY <1>11, <2>2, <2>3, <2>4 DEF New, Replaces
<1>14. state[a].cur # None /\ state[a].cur.obj = id[2]
  BY <1>2, <1>12 DEF Slot
<1>15. ~state[a].cur.cbd
  BY <1>1, <1>2, <1>12, <1>14 DEF Straight, Destructible
<1>16. QED
  BY <1>2, <1>12, <1>13, <1>14, <1>15

\* An object is destroyed while another refers to it, and is recorded to, only if
\* the other is about to be updated and the destroyed one is not
\* create_before_destroy, in every round and however the calls before it failed
\* (DestroyEdgeTransformer, CBDEdgeTransformer).
THEOREM DependentsGoFirst == Spec => UsersGoFirst
<1>1. ASSUME RecordInv, ConvergeInv, OrderInv, [Next]_vars, NEW id \in DOMAIN real,
             Destroyed(id), NEW user \in DOMAIN real', id \in real[user],
             Record(user) # None, id[1] \in Record(user).deps
      PROVE  /\ plan.action[user[1]] = "Update"
             /\ status[Creator(user[1])] = "pending"
             /\ state[id[1]].cur.obj = id[2] /\ ~state[id[1]].cur.cbd
  <2>1. \A r \in Resource : ~FinishCreator(r)
    <3>1. ASSUME NEW r \in Resource, FinishCreator(r) PROVE DOMAIN real \subseteq DOMAIN real' \cup lost'
      BY <3>1 DEF FinishCreator, Created, Updated, NewReal, Without, Lose
    <3>2. QED
      BY <1>1, <3>1 DEF Destroyed
  <2>2. PICK v \in graph.node : FinishDestroyer(v)
    BY <1>1, <2>1 DEF Next, PlanAndBuild, StartCreator, StartDestroyer, FailEarly,
       WalkEnds, Rest, vars, Destroyed
  <2>3. /\ phase = "walk" /\ IsDestroyer(v) /\ status[v] = "running"
        /\ Slot(state, v) # None /\ id = <<v.res, Slot(state, v).obj>>
        /\ DOMAIN real' \subseteq DOMAIN real
    BY <1>1, <2>2 DEF FinishDestroyer, Without, Destroyed
  <2>4. id[1] = v.res /\ user \in DOMAIN real
    BY <1>1, <2>3
  <2>5. QED
    BY <1>1, <2>3, <2>4, UsersAreGone
<1>2. RecordInv /\ ConvergeInv /\ OrderInv /\ [Next]_vars =>
        [\A id \in DOMAIN real : Destroyed(id) =>
           \A user \in DOMAIN real' :
             (id \in real[user] /\ Record(user) # None /\ id[1] \in Record(user).deps) =>
               /\ plan.action[user[1]] = "Update"
               /\ status[Creator(user[1])] = "pending"
               /\ state[id[1]].cur.obj = id[2] /\ ~state[id[1]].cur.cbd]_vars
  BY <1>1
<1>3. QED
  BY <1>2, OrderInvariant, PTL DEF Spec, UsersGoFirst
=============================================================================
