---------------------------- MODULE Keyspace_proofs ----------------------------
(***************************************************************************)
(* What the names of keys keep apart, for every org and every argument.    *)
(***************************************************************************)
EXTENDS Keyspace, SequenceTheorems, TLAPS

LEMMA ConcatIs ==
  ASSUME NEW S, NEW s \in Seq(S), NEW t \in Seq(S), NEW u \in Seq(S),
         Len(u) = Len(s) + Len(t),
         \A i \in 1 .. Len(s) : u[i] = s[i],
         \A i \in 1 .. Len(t) : u[Len(s) + i] = t[i]
  PROVE  s \o t = u
<1>1. s \o t \in Seq(S) /\ Len(s \o t) = Len(u)
  BY ConcatProperties
<1>2. \A i \in 1 .. Len(u) : (s \o t)[i] = u[i]
  <2>1. SUFFICES ASSUME NEW i \in 1 .. Len(u) PROVE (s \o t)[i] = u[i]
    OBVIOUS
  <2>2. CASE i <= Len(s)
    BY <2>2, ConcatProperties, LenProperties
  <2>3. CASE i > Len(s)
    <3>1. i - Len(s) \in 1 .. Len(t) /\ Len(s) + (i - Len(s)) = i
      BY <2>3, LenProperties
    <3>2. (s \o t)[i] = t[i - Len(s)]
      BY <2>3, ConcatProperties, LenProperties
    <3> QED BY <3>1, <3>2
  <2> QED BY <2>2, <2>3, LenProperties
<1> QED BY <1>1, <1>2, SeqEqual

LEMMA ConcatIndexes ==
  ASSUME NEW S, NEW p \in Seq(S), NEW s \in Seq(S)
  PROVE  /\ Len(p \o s) = Len(p) + Len(s)
         /\ \A i \in 1 .. Len(p) : (p \o s)[i] = p[i]
         /\ \A i \in 1 .. Len(s) : (p \o s)[Len(p) + i] = s[i]
<1>1. Len(p) \in Nat /\ Len(s) \in Nat
  BY LenProperties
<1>2. Len(p \o s) = Len(p) + Len(s)
  BY ConcatProperties
<1>3. \A i \in 1 .. Len(p) + Len(s) :
        (p \o s)[i] = IF i <= Len(p) THEN p[i] ELSE s[i - Len(p)]
  BY ConcatProperties
<1>4. ASSUME NEW i \in 1 .. Len(s) PROVE (p \o s)[Len(p) + i] = s[i]
  <2>1. Len(p) + i \in 1 .. Len(p) + Len(s) /\ ~(Len(p) + i <= Len(p)) /\ (Len(p) + i) - Len(p) = i
    BY <1>1
  <2> QED BY <1>3, <2>1
<1> QED BY <1>1, <1>2, <1>3, <1>4

\* The segments of a key.
LEMMA FleetKey ==
  ASSUME NEW S, NEW s \in Seq(S), Len(s) > 0
  PROVE  LET key == Scoped(Fleet, s) IN
         /\ Len(key) = 1 + Len(s)
         /\ key[2] = s[1]
         /\ Len(s) > 1 => key[3] = s[2]
<1> DEFINE T == S \cup {PREFIX}
           p == <<PREFIX>>
<1>1. p \in Seq(T) /\ Len(p) = 1 /\ s \in Seq(T)
  BY SeqMonotonic
<1>2. Scoped(Fleet, s) = p \o s
  BY DEF Scoped
<1> HIDE DEF T, p
<1>3. Len(s) \in Nat /\ 1 \in 1 .. Len(s) /\ (Len(s) > 1 => 2 \in 1 .. Len(s))
  BY LenProperties
<1>4. /\ Len(p \o s) = Len(p) + Len(s)
      /\ \A i \in 1 .. Len(s) : (p \o s)[Len(p) + i] = s[i]
  BY <1>1, ConcatIndexes
<1>5. (p \o s)[1 + 1] = s[1] /\ (Len(s) > 1 => (p \o s)[1 + 2] = s[2])
  BY <1>1, <1>3, <1>4
<1> QED BY <1>1, <1>2, <1>4, <1>5

LEMMA HostedKey ==
  ASSUME NEW org, org # Fleet, NEW S, NEW s \in Seq(S), Len(s) > 0
  PROVE  LET key == Scoped(org, s) IN
         /\ Len(key) = 2 + Len(s)
         /\ key[2] = org
         /\ key[3] = s[1]
<1> DEFINE T == S \cup {PREFIX, org}
           p == <<PREFIX, org>>
<1>1. p \in Seq(T) /\ s \in Seq(T)
  BY SeqMonotonic
<1>2. Len(p) = 2 /\ p[2] = org
  OBVIOUS
<1>3. Scoped(org, s) = p \o s
  BY DEF Scoped
<1> HIDE DEF T, p
<1>4. /\ Len(p \o s) = Len(p) + Len(s)
      /\ \A i \in 1 .. Len(p) : (p \o s)[i] = p[i]
      /\ \A i \in 1 .. Len(s) : (p \o s)[Len(p) + i] = s[i]
  BY <1>1, ConcatIndexes
<1>5. 2 \in 1 .. Len(p) /\ 1 \in 1 .. Len(s)
  BY <1>1, <1>2, LenProperties
<1>6. (p \o s)[2] = p[2] /\ (p \o s)[2 + 1] = s[1]
  BY <1>2, <1>4, <1>5
<1> QED BY <1>2, <1>3, <1>4, <1>6

\* The two ways of making a key agree (redis_keys.py:287 and bus_redis.py:101).
LEMMA FullStreamIsScoped ==
  \A org, stream : FullStream(org, stream) = Scoped(org, stream)
BY DEF FullStream, StreamPrefix, Scoped

\* One keyspace never gives two suffixes the same key.
LEMMA SameOrgKeys ==
  ASSUME NEW org, NEW S, NEW s \in Seq(S), NEW t \in Seq(S),
         Scoped(org, s) = Scoped(org, t)
  PROVE  s = t
<1> DEFINE T == S \cup {PREFIX, org}
           p == IF org = Fleet THEN <<PREFIX>> ELSE <<PREFIX, org>>
<1>1. p \in Seq(T)
  <2>1. <<PREFIX>> \in Seq(T) /\ <<PREFIX, org>> \in Seq(T)
    OBVIOUS
  <2> QED BY <2>1
<1>2. s \in Seq(T) /\ t \in Seq(T)
  BY SeqMonotonic
<1>3. p \o s = p \o t
  BY DEF Scoped
<1> HIDE DEF T, p
<1> QED BY <1>1, <1>2, <1>3, ConcatSimplifications

-----------------------------------------------------------------------------

\* The keys of two hosted orgs are different, whatever they are the keys of
\* (class Keyspace, redis_keys.py:230-234).
THEOREM HostedOrgsApart ==
  ASSUME NEW org, NEW other, org # Fleet, other # Fleet, org # other,
         NEW S, NEW s \in Seq(S), NEW t \in Seq(S), Len(s) > 0, Len(t) > 0
  PROVE  Scoped(org, s) # Scoped(other, t)
BY HostedKey

\* A hosted org's keys are none of the fleet's, unless the org is called like
\* the fleet's subsystem: "plans", say (Keyspace._scoped).
THEOREM FleetApart ==
  ASSUME NEW org, org # Fleet,
         NEW S, NEW s \in Seq(S), NEW t \in Seq(S), Len(s) > 0, Len(t) > 0, s[1] # org
  PROVE  Scoped(Fleet, s) # Scoped(org, t)
BY FleetKey, HostedKey

\* Within a subsystem whose keys do not repeat its name, no two keyspaces share
\* a key, whatever their orgs are called.
THEOREM SubsystemApart ==
  ASSUME NEW org, NEW other, NEW S, NEW s \in Seq(S), NEW t \in Seq(S),
         Len(s) > 1, Len(t) > 1, s[1] = t[1],
         Len(s) = 2 \/ s[2] # s[1],
         Len(t) = 2 \/ t[2] # t[1],
         Scoped(org, s) = Scoped(other, t)
  PROVE  org = other /\ s = t
<1>1. CASE org = other
  BY <1>1, SameOrgKeys
<1>2. CASE org # Fleet /\ other # Fleet /\ org # other
  BY <1>2, HostedOrgsApart
<1>3. CASE org = Fleet /\ other # Fleet
  <2>1. 1 + Len(s) = 2 + Len(t) /\ s[2] = t[1]
    BY <1>3, FleetKey, HostedKey
  <2> QED BY <2>1, LenProperties
<1>4. CASE org # Fleet /\ other = Fleet
  <2>1. 2 + Len(s) = 1 + Len(t) /\ t[2] = s[1]
    BY <1>4, FleetKey, HostedKey
  <2> QED BY <2>1, LenProperties
<1> QED BY <1>1, <1>2, <1>3, <1>4

-----------------------------------------------------------------------------
(* The fleet's keys.                                                       *)

LEMMA FleetKeyIs ==
  ASSUME NEW S, PREFIX \in S, NEW s \in Seq(S), NEW u \in Seq(S),
         Len(u) = 1 + Len(s), u[1] = PREFIX, \A i \in 1 .. Len(s) : u[1 + i] = s[i]
  PROVE  Scoped(Fleet, s) = u
<1> DEFINE p == <<PREFIX>>
<1>1. p \in Seq(S)
  OBVIOUS
<1>2. Len(p) = 1 /\ p[1] = PREFIX
  OBVIOUS
<1>3. Scoped(Fleet, s) = p \o s
  BY DEF Scoped
<1> HIDE DEF p
<1>4. /\ Len(u) = Len(p) + Len(s)
      /\ \A i \in 1 .. Len(p) : u[i] = p[i]
      /\ \A i \in 1 .. Len(s) : u[Len(p) + i] = s[i]
  BY <1>2
<1>5. p \o s = u
  BY <1>1, <1>4, ConcatIs
<1> QED BY <1>3, <1>5

LEMMA FleetKey1 ==
  ASSUME NEW a
  PROVE  Scoped(Fleet, <<a>>) = <<PREFIX, a>>
<1> DEFINE S == {PREFIX, a}
           s == <<a>>
           u == <<PREFIX, a>>
<1>1. s \in Seq(S) /\ u \in Seq(S) /\ Len(s) = 1 /\ Len(u) = 2 /\ PREFIX \in S
  OBVIOUS
<1>2. u[1] = PREFIX /\ u[2] = s[1]
  OBVIOUS
<1> HIDE DEF S, s, u
<1>3. Len(u) = 1 + Len(s) /\ \A i \in 1 .. Len(s) : u[1 + i] = s[i]
  BY <1>1, <1>2
<1>4. Scoped(Fleet, s) = u
  BY <1>1, <1>2, <1>3, FleetKeyIs
<1> QED BY <1>4 DEF s, u

LEMMA FleetKey2 ==
  ASSUME NEW a, NEW b
  PROVE  Scoped(Fleet, <<a, b>>) = <<PREFIX, a, b>>
<1> DEFINE S == {PREFIX, a, b}
           s == <<a, b>>
           u == <<PREFIX, a, b>>
<1>1. s \in Seq(S) /\ u \in Seq(S) /\ Len(s) = 2 /\ Len(u) = 3 /\ PREFIX \in S
  OBVIOUS
<1>2. u[1] = PREFIX /\ u[2] = s[1] /\ u[3] = s[2]
  OBVIOUS
<1> HIDE DEF S, s, u
<1>3. Len(u) = 1 + Len(s) /\ \A i \in 1 .. Len(s) : u[1 + i] = s[i]
  BY <1>1, <1>2
<1>4. Scoped(Fleet, s) = u
  BY <1>1, <1>2, <1>3, FleetKeyIs
<1> QED BY <1>4 DEF s, u

LEMMA FleetKey3 ==
  ASSUME NEW a, NEW b, NEW c
  PROVE  Scoped(Fleet, <<a, b, c>>) = <<PREFIX, a, b, c>>
<1> DEFINE S == {PREFIX, a, b, c}
           s == <<a, b, c>>
           u == <<PREFIX, a, b, c>>
<1>1. s \in Seq(S) /\ u \in Seq(S) /\ Len(s) = 3 /\ Len(u) = 4 /\ PREFIX \in S
  OBVIOUS
<1>2. u[1] = PREFIX /\ u[2] = s[1] /\ u[3] = s[2] /\ u[4] = s[3]
  OBVIOUS
<1> HIDE DEF S, s, u
<1>3. Len(u) = 1 + Len(s) /\ \A i \in 1 .. Len(s) : u[1 + i] = s[i]
  BY <1>1, <1>2
<1>4. Scoped(Fleet, s) = u
  BY <1>1, <1>2, <1>3, FleetKeyIs
<1> QED BY <1>4 DEF s, u

LEMMA FleetKey4 ==
  ASSUME NEW a, NEW b, NEW c, NEW d
  PROVE  Scoped(Fleet, <<a, b, c, d>>) = <<PREFIX, a, b, c, d>>
<1> DEFINE S == {PREFIX, a, b, c, d}
           s == <<a, b, c, d>>
           u == <<PREFIX, a, b, c, d>>
<1>1. s \in Seq(S) /\ u \in Seq(S) /\ Len(s) = 4 /\ Len(u) = 5 /\ PREFIX \in S
  OBVIOUS
<1>2. u[1] = PREFIX /\ u[2] = s[1] /\ u[3] = s[2] /\ u[4] = s[3] /\ u[5] = s[4]
  OBVIOUS
<1> HIDE DEF S, s, u
<1>3. Len(u) = 1 + Len(s) /\ \A i \in 1 .. Len(s) : u[1 + i] = s[i]
  BY <1>1, <1>2
<1>4. Scoped(Fleet, s) = u
  BY <1>1, <1>2, <1>3, FleetKeyIs
<1> QED BY <1>4 DEF s, u

\* A Keyspace of the fleet yields exactly the module-level names, whatever the
\* arguments (docstring of Keyspace, redis_keys.py:253-255).  A plan's decision
\* and a workflow's cron have no module-level name.
THEOREM FleetKeysAreGlobal ==
  ASSUME NEW x, NEW y
  PROVE  /\ \A n \in DOMAIN MeshSuffixes(x, y) :
              Scoped(Fleet, MeshSuffixes(x, y)[n]) = GlobalMesh(x, y)[n]
         /\ \A n \in DOMAIN TaskSuffixes(x) :
              Scoped(Fleet, TaskSuffixes(x)[n]) = GlobalTasks(x)[n]
         /\ \A n \in DOMAIN ThreadSuffixes(x) \cap DOMAIN GlobalThreads(x) :
              Scoped(Fleet, ThreadSuffixes(x)[n]) = GlobalThreads(x)[n]
         /\ \A n \in DOMAIN ThreadSuffixes(x) \cap DOMAIN GlobalRecords(x, y) :
              Scoped(Fleet, ThreadSuffixes(x)[n]) = GlobalRecords(x, y)[n]
         /\ \A n \in DOMAIN PlanSuffixes(x) \ {"plan_decision_key"} :
              Scoped(Fleet, PlanSuffixes(x)[n]) = GlobalRecords(x, y)[n]
         /\ \A n \in DOMAIN ScheduleSuffixes(x) \ {"workflow_cron_prefix"} :
              Scoped(Fleet, ScheduleSuffixes(x)[n]) = GlobalControl(x)[n]
<1>1. \A n \in DOMAIN MeshSuffixes(x, y) :
        Scoped(Fleet, MeshSuffixes(x, y)[n]) = GlobalMesh(x, y)[n]
  BY FleetKey1, FleetKey2, FleetKey3, FleetKey4 DEF MeshSuffixes, GlobalMesh
<1>2. \A n \in DOMAIN TaskSuffixes(x) :
        Scoped(Fleet, TaskSuffixes(x)[n]) = GlobalTasks(x)[n]
  BY FleetKey1, FleetKey2, FleetKey3 DEF TaskSuffixes, GlobalTasks
<1>3. \A n \in DOMAIN ThreadSuffixes(x) \cap DOMAIN GlobalThreads(x) :
        Scoped(Fleet, ThreadSuffixes(x)[n]) = GlobalThreads(x)[n]
  BY FleetKey1, FleetKey2, FleetKey3 DEF ThreadSuffixes, GlobalThreads
<1>4. \A n \in DOMAIN ThreadSuffixes(x) \cap DOMAIN GlobalRecords(x, y) :
        Scoped(Fleet, ThreadSuffixes(x)[n]) = GlobalRecords(x, y)[n]
  BY FleetKey1, FleetKey2 DEF ThreadSuffixes, GlobalRecords
<1>5. \A n \in DOMAIN PlanSuffixes(x) \ {"plan_decision_key"} :
        Scoped(Fleet, PlanSuffixes(x)[n]) = GlobalRecords(x, y)[n]
  BY FleetKey1, FleetKey2, FleetKey3 DEF PlanSuffixes, GlobalRecords
<1>6. \A n \in DOMAIN ScheduleSuffixes(x) \ {"workflow_cron_prefix"} :
        Scoped(Fleet, ScheduleSuffixes(x)[n]) = GlobalControl(x)[n]
  BY FleetKey1, FleetKey2 DEF ScheduleSuffixes, GlobalControl
<1> QED BY <1>1, <1>2, <1>3, <1>4, <1>5, <1>6

=============================================================================
