------------------------- MODULE SessionManager_proofs -------------------------
(***************************************************************************)
(* Theorems about callers of one SessionManager that interleave, for any   *)
(* number of them, any requests and any topics.                            *)
(***************************************************************************)
EXTENDS SessionManager, FiniteSetTheorems, SequenceTheorems, TLAPS

\* Where a caller is inside get_or_create().
Requesting == {"synthetic", "touch", "set", "lookup", "create"}

\* The steps of get_or_create(), and those about domain contexts.
RequestStep(c) ==
  \/ GetOrCreate(c) \/ GetSynthetic(c) \/ TouchSynthetic(c) \/ SetSynthetic(c)
  \/ Lookup(c) \/ Create(c)

DomainStep(c) ==
  \/ Prompt(c) \/ Read(c) \/ Keep(c) \/ Context(c)
  \/ Update(c) \/ Add(c) \/ Invalidate(c)

\* TypeOK without the keys, whose type rests on how threads are numbered.
Types ==
  /\ saved \in [Sessions -> SessionObjects \cup {NoSession}]
  /\ index \in [Threads -> Sessions \cup {NoSession}]
  /\ minted \in [Senders -> Nat]
  /\ \A k \in Senders : synthetic[k] \in {None} \cup {<<k, n>> : n \in 1 .. minted[k]}
  /\ pc \in [Callers -> Steps]
  /\ request \in [Callers -> Requests \cup {None}]
  /\ topic \in [Callers -> Topics \cup {None}]
  /\ answer \in [Callers -> Contexts \cup {None}]
  /\ cache \in Contexts \cup {None}
  /\ recent \in Seq(Topics) /\ Len(recent) <= RecentLimit
  /\ missed \subseteq told /\ told \subseteq Topics

\* What TypeOK leaves open: synthetic and key are functions, calls and faults
\* numbers.
Shapes ==
  /\ DOMAIN synthetic = Senders
  /\ synthetic = [k \in Senders |-> synthetic[k]]
  /\ DOMAIN key = Callers
  /\ key = [c \in Callers |-> key[c]]
  /\ calls \in Nat /\ calls <= MaxCalls
  /\ faults \in Nat

-----------------------------------------------------------------------------
(* Requests and their keys.                                                *)

\* A key with a synthetic thread of the caller's own sender.
Numbered(c) ==
  /\ request[c].thread = None
  /\ \E n \in 1 .. minted[SenderKey(c)] :
       key[c] = <<DomainOf(request[c]), <<SenderKey(c), n>>>>

KeyOK(c) ==
  /\ pc[c] \in Requesting =>
       request[c] \in Requests /\ DomainOf(request[c]) # Raises
  /\ pc[c] = "synthetic" =>
       request[c].thread = None /\ key[c] = <<DomainOf(request[c]), None>>
  /\ pc[c] \in {"touch", "set"} => Numbered(c)
  /\ pc[c] \in {"lookup", "create"} =>
       \/ Numbered(c)
       \/ /\ request[c].thread # None
          /\ key[c] = <<DomainOf(request[c]), request[c].thread>>

KeyInv == \A c \in Callers : KeyOK(c)

\* The steps about domain contexts do not touch requests.
LEMMA DomainStepFrame ==
  ASSUME Types, NEW c \in Callers, DomainStep(c)
  PROVE  /\ UNCHANGED <<storeVars, request, key, threadVars>>
         /\ \A b \in Callers : pc[b] \in Requesting \/ pc'[b] \in Requesting
                                 => pc'[b] = pc[b]
<1>1. pc \in [Callers -> Steps]
  BY DEF Types
<1> QED
  BY <1>1 DEF DomainStep, Prompt, Read, Keep, Context, Update, Add, Invalidate,
              UpdateReturns, Goto, Requesting

\* A request's steps change the caller's own place, request and key only.
LEMMA RequestStepFrame ==
  ASSUME Types, Shapes, NEW c \in Callers, RequestStep(c)
  PROVE  /\ UNCHANGED domainVars
         /\ \A b \in Callers \ {c} :
              pc'[b] = pc[b] /\ request'[b] = request[b] /\ key'[b] = key[b]
<1>1. /\ pc \in [Callers -> Steps]
      /\ request \in [Callers -> Requests \cup {None}]
      /\ key = [d \in Callers |-> key[d]]
  BY DEF Types, Shapes
<1> USE <1>1 DEF Goto, End, Broken, Serve
<1>2. CASE GetOrCreate(c)
  BY <1>2 DEF GetOrCreate
<1>3. CASE GetSynthetic(c)
  BY <1>3 DEF GetSynthetic
<1>4. CASE TouchSynthetic(c)
  BY <1>4 DEF TouchSynthetic
<1>5. CASE SetSynthetic(c)
  BY <1>5 DEF SetSynthetic
<1>6. CASE Lookup(c)
  BY <1>6 DEF Lookup
<1>7. CASE Create(c)
  BY <1>7 DEF Create
<1> QED BY <1>2, <1>3, <1>4, <1>5, <1>6, <1>7 DEF RequestStep

\* Second element of a pair.
LEMMA PairExcept ==
  ASSUME NEW a, NEW b, NEW x
  PROVE  [<<a, b>> EXCEPT ![2] = x] = <<a, x>>
OBVIOUS

LEMMA SenderKnown ==
  ASSUME NEW r \in Requests
  PROVE  <<r.channel, r.sender>> \in Senders
BY DEF Senders

LEMMA MintedGrows ==
  ASSUME Types, [Next]_managerVars
  PROVE  \A k \in Senders : minted'[k] >= minted[k] /\ minted'[k] \in Nat
<1>0. minted \in [Senders -> Nat]
  BY DEF Types
<1>1. ASSUME NEW c \in Callers, GetSynthetic(c)
      PROVE  minted' = minted \/ minted' = [minted EXCEPT ![SenderKey(c)] = @ + 1]
  BY <1>1 DEF GetSynthetic, Broken
<1>2. ASSUME NEW c \in Callers, RequestStep(c), ~GetSynthetic(c)
      PROVE  minted' = minted
  BY <1>2 DEF RequestStep, GetOrCreate, TouchSynthetic, SetSynthetic, Lookup,
              Create, threadVars
<1>3. ASSUME \/ \E c \in Callers : DomainStep(c)
             \/ \E k \in Senders : Expire(k)
             \/ Clear
             \/ UNCHANGED managerVars
      PROVE  minted' = minted
  BY <1>3, DomainStepFrame DEF Expire, Clear, threadVars, managerVars
<1> QED BY <1>0, <1>1, <1>2, <1>3 DEF Next, RequestStep, DomainStep

LEMMA KeyStep ==
  ASSUME Types, Shapes, KeyInv, [Next]_managerVars
  PROVE  KeyInv'
<1>0. /\ pc \in [Callers -> Steps]
      /\ request \in [Callers -> Requests \cup {None}]
      /\ key = [d \in Callers |-> key[d]]
      /\ minted \in [Senders -> Nat]
      /\ \A k \in Senders : minted'[k] >= minted[k] /\ minted'[k] \in Nat
  BY MintedGrows DEF Types, Shapes
<1>1. ASSUME NEW b \in Callers,
             pc'[b] = pc[b], request'[b] = request[b], key'[b] = key[b]
      PROVE  KeyOK(b)'
  <2>1. pc[b] \in Requesting => SenderKey(b) \in Senders
    BY <1>1, SenderKnown DEF KeyInv, KeyOK, SenderKey
  <2>2. pc[b] \in Requesting /\ Numbered(b) => Numbered(b)'
    BY <1>0, <1>1, <2>1 DEF Numbered, SenderKey
  <2> QED BY <1>1, <2>2 DEF KeyInv, KeyOK, Requesting
<1>2. ASSUME NEW c \in Callers, DomainStep(c) PROVE KeyInv'
  <2> SUFFICES ASSUME NEW b \in Callers PROVE KeyOK(b)'
    BY DEF KeyInv
  <2>1. /\ request'[b] = request[b] /\ key'[b] = key[b]
        /\ pc[b] \in Requesting \/ pc'[b] \in Requesting => pc'[b] = pc[b]
    BY <1>2, DomainStepFrame
  <2> QED BY <1>1, <2>1 DEF Requesting, KeyOK
<1>3. ASSUME NEW c \in Callers, RequestStep(c) PROVE KeyInv'
  <2> SUFFICES ASSUME NEW b \in Callers PROVE KeyOK(b)'
    BY DEF KeyInv
  <2>1. CASE b # c
    BY <1>1, <1>3, <2>1, RequestStepFrame
  <2>2. CASE b = c
    <3> USE <1>0, <2>2 DEF Goto, Requesting, KeyOK
    <3>1. CASE pc'[c] = "idle"
      BY <3>1
    <3>2. CASE GetOrCreate(c)
      BY <3>2 DEF GetOrCreate
    <3>3. CASE GetSynthetic(c) /\ pc'[c] # "idle"
      <4> DEFINE r == request[c]
                 k == SenderKey(c)
                 id == IF synthetic[k] # None THEN synthetic[k] ELSE <<k, minted[k] + 1>>
      <4>1. /\ pc[c] = "synthetic" /\ request' = request
            /\ key' = [key EXCEPT ![c][2] = id]
            /\ pc'[c] \in {"touch", "set"}
            /\ minted' = IF synthetic[k] # None THEN minted ELSE [minted EXCEPT ![k] = @ + 1]
        BY <3>3 DEF GetSynthetic, Broken, End
      <4>2. /\ r \in Requests /\ DomainOf(r) # Raises /\ r.thread = None
            /\ key[c] = <<DomainOf(r), None>> /\ k \in Senders
        BY <4>1, SenderKnown DEF KeyInv, KeyOK, SenderKey
      <4>3. key'[c] = <<DomainOf(r), id>>
        BY <4>1, <4>2, PairExcept
      <4>4. \E n \in 1 .. minted'[k] : id = <<k, n>>
        BY <4>1, <4>2 DEF Types
      <4>5. Numbered(c)'
        BY <4>1, <4>2, <4>3, <4>4 DEF Numbered, SenderKey
      <4> QED BY <4>1, <4>2, <4>5
    <3>4. CASE (TouchSynthetic(c) \/ SetSynthetic(c)) /\ pc'[c] # "idle"
      <4>1. /\ pc[c] \in {"touch", "set"} /\ pc'[c] = "lookup"
            /\ UNCHANGED <<request, key, minted>>
        BY <3>4 DEF TouchSynthetic, SetSynthetic, Broken, End, threadVars
      <4> QED BY <4>1 DEF KeyInv, KeyOK, Numbered, SenderKey
    <3>5. CASE Lookup(c) /\ pc'[c] # "idle"
      <4>1. /\ pc[c] = "lookup" /\ pc'[c] = "create"
            /\ UNCHANGED <<request, key, minted>>
        BY <3>5 DEF Lookup, Broken, End, Serve
      <4> QED BY <4>1 DEF KeyInv, KeyOK, Numbered, SenderKey
    <3>6. CASE Create(c)
      <4>1. pc'[c] = "idle"
        BY <3>6 DEF Create, Serve, Broken, End
      <4> QED BY <3>1, <4>1
    <3> QED BY <1>3, <3>1, <3>2, <3>3, <3>4, <3>5, <3>6 DEF RequestStep
  <2> QED BY <2>1, <2>2
<1>4. CASE UNCHANGED <<pc, request, key>>
  <2> SUFFICES ASSUME NEW b \in Callers PROVE KeyOK(b)'
    BY DEF KeyInv
  <2> QED BY <1>1, <1>4
<1> QED
  BY <1>2, <1>3, <1>4
     DEF Next, RequestStep, DomainStep, Expire, Clear, callVars, managerVars

-----------------------------------------------------------------------------
(* Counting callers.                                                       *)

LEMMA CallersCount ==
  /\ Cardinality(Callers) \in Nat
  /\ \A S \in SUBSET Callers :
       /\ IsFiniteSet(S)
       /\ Cardinality(S) \in Nat
       /\ Cardinality(S) <= Cardinality(Callers)
BY LimitsAssumption, FS_Subset, FS_CardinalityType

LEMMA Fewer ==
  ASSUME NEW S, IsFiniteSet(S), NEW T, T \subseteq S
  PROVE  Cardinality(T) <= Cardinality(S)
BY FS_Subset

LEMMA OneMore ==
  ASSUME NEW S, IsFiniteSet(S), NEW c, NEW T, T \subseteq S \cup {c}
  PROVE  Cardinality(T) <= Cardinality(S) + 1 /\ IsFiniteSet(T)
<1>1. /\ IsFiniteSet(S \cup {c})
      /\ Cardinality(S \cup {c}) <= Cardinality(S) + 1
      /\ Cardinality(S) \in Nat
  BY FS_AddElement, FS_CardinalityType
<1>2. /\ IsFiniteSet(T) /\ Cardinality(T) <= Cardinality(S \cup {c})
      /\ Cardinality(T) \in Nat /\ Cardinality(S \cup {c}) \in Nat
  BY <1>1, FS_Subset, FS_CardinalityType
<1> QED BY <1>1, <1>2

LEMMA OneLess ==
  ASSUME NEW S, IsFiniteSet(S), NEW c \in S, NEW T, T \subseteq S \ {c}
  PROVE  Cardinality(T) + 1 <= Cardinality(S)
<1>1. /\ IsFiniteSet(S \ {c})
      /\ Cardinality(S \ {c}) = Cardinality(S) - 1
      /\ Cardinality(S) \in Nat
  BY FS_RemoveElement, FS_CardinalityType
<1>2. /\ Cardinality(T) <= Cardinality(S \ {c})
      /\ Cardinality(T) \in Nat /\ Cardinality(S \ {c}) \in Nat
  BY <1>1, FS_Subset, FS_CardinalityType
<1> QED BY <1>1, <1>2

-----------------------------------------------------------------------------
(* Every id that is made for a sender is paid for by a call.               *)

Askers(k) == {c \in Callers : pc[c] = "synthetic" /\ SenderKey(c) = k}

MintedInv ==
  /\ calls \in Nat /\ calls <= MaxCalls
  /\ \A k \in Senders : minted[k] + Cardinality(Askers(k)) <= calls

\* Only a call makes a caller one that asks.
LEMMA AskersStep ==
  ASSUME Types, Shapes, [Next]_managerVars, NEW k
  PROVE  \/ Askers(k)' \subseteq Askers(k)
         \/ \E c \in Callers : GetOrCreate(c) /\ Askers(k)' \subseteq Askers(k) \cup {c}
<1>0. pc \in [Callers -> Steps]
  BY DEF Types
<1>1. ASSUME NEW c \in Callers, RequestStep(c)
      PROVE  /\ Askers(k)' \subseteq Askers(k) \cup {c}
             /\ ~GetOrCreate(c) => pc'[c] # "synthetic"
  <2>1. Askers(k)' \subseteq Askers(k) \cup {c}
    BY <1>1, RequestStepFrame DEF Askers, SenderKey
  <2>2. ASSUME ~GetOrCreate(c) PROVE pc'[c] # "synthetic"
    BY <1>0, <1>1, <2>2 DEF RequestStep, GetSynthetic, TouchSynthetic,
       SetSynthetic, Lookup, Create, Serve, Broken, End, Goto
  <2> QED BY <2>1, <2>2
<1>2. ASSUME NEW c \in Callers, RequestStep(c), ~GetOrCreate(c)
      PROVE  Askers(k)' \subseteq Askers(k)
  BY <1>1, <1>2, RequestStepFrame DEF Askers, SenderKey
<1>3. ASSUME NEW c \in Callers, DomainStep(c)
      PROVE  Askers(k)' \subseteq Askers(k)
  BY <1>3, DomainStepFrame DEF Askers, SenderKey, Requesting
<1>4. ASSUME UNCHANGED <<pc, request>>
      PROVE  Askers(k)' \subseteq Askers(k)
  BY <1>4 DEF Askers, SenderKey
<1> QED
  BY <1>1, <1>2, <1>3, <1>4
     DEF Next, RequestStep, DomainStep, Expire, Clear, callVars, managerVars

LEMMA CallsStep ==
  ASSUME MintedInv, [Next]_managerVars
  PROVE  /\ calls' \in Nat /\ calls' <= MaxCalls /\ calls <= calls'
         /\ \A c \in Callers : GetOrCreate(c) => calls' = calls + 1
<1>1. Called \/ UNCHANGED calls
  <2>1. ASSUME NEW c \in Callers, RequestStep(c) PROVE Called \/ UNCHANGED calls
    BY <2>1 DEF RequestStep, GetOrCreate, GetSynthetic, TouchSynthetic,
                SetSynthetic, Lookup, Create
  <2>2. ASSUME NEW c \in Callers, DomainStep(c) PROVE Called \/ UNCHANGED calls
    BY <2>2 DEF DomainStep, Prompt, Read, Keep, Context, Update, Add, Invalidate
  <2> QED
    BY <2>1, <2>2 DEF Next, RequestStep, DomainStep, Expire, Clear, managerVars
<1>2. ASSUME NEW c \in Callers, GetOrCreate(c) PROVE Called
  BY <1>2 DEF GetOrCreate
<1> QED BY <1>1, <1>2, LimitsAssumption DEF MintedInv, Called

LEMMA MintedStep ==
  ASSUME Types, Shapes, KeyInv, MintedInv, [Next]_managerVars
  PROVE  MintedInv'
<1>0. /\ calls \in Nat /\ calls' \in Nat /\ calls' <= MaxCalls /\ calls <= calls'
      /\ minted \in [Senders -> Nat]
  BY CallsStep DEF Types, MintedInv
<1> SUFFICES ASSUME NEW k \in Senders
             PROVE  minted'[k] + Cardinality(Askers(k)') <= calls'
  BY <1>0 DEF MintedInv
<1> DEFINE n == Cardinality(Askers(k))
           m == Cardinality(Askers(k)')
<1>1. /\ n \in Nat /\ m \in Nat
      /\ IsFiniteSet(Askers(k))
      /\ minted[k] + n <= calls /\ minted[k] \in Nat
  BY <1>0, CallersCount DEF Askers, MintedInv
<1>2. CASE minted'[k] = minted[k]
  <2>1. CASE Askers(k)' \subseteq Askers(k)
    <3>1. m <= n
      BY <1>1, <2>1, Fewer
    <3> QED BY <1>0, <1>1, <1>2, <3>1
  <2>2. CASE \E c \in Callers : GetOrCreate(c) /\ Askers(k)' \subseteq Askers(k) \cup {c}
    <3>1. m <= n + 1 /\ calls' = calls + 1
      BY <1>1, <2>2, OneMore, CallsStep
    <3> QED BY <1>0, <1>1, <1>2, <3>1
  <2> QED BY <2>1, <2>2, AskersStep
<1>3. CASE minted'[k] # minted[k]
  <2>1. PICK c \in Callers :
          GetSynthetic(c) /\ SenderKey(c) = k /\ minted'[k] = minted[k] + 1
    <3>1. ASSUME NEW c \in Callers, RequestStep(c), ~GetSynthetic(c)
          PROVE  minted' = minted
      BY <3>1 DEF RequestStep, GetOrCreate, TouchSynthetic, SetSynthetic, Lookup,
                  Create, threadVars
    <3>2. ASSUME \/ \E c \in Callers : DomainStep(c)
                 \/ \E d \in Senders : Expire(d)
                 \/ Clear
                 \/ UNCHANGED managerVars
          PROVE  minted' = minted
      BY <3>2, DomainStepFrame DEF Expire, Clear, threadVars, managerVars
    <3>3. PICK c \in Callers : GetSynthetic(c)
      BY <1>3, <3>1, <3>2 DEF Next, RequestStep, DomainStep
    <3> QED BY <1>0, <1>3, <3>3 DEF GetSynthetic, Broken
  <2>2. c \in Askers(k)
    BY <2>1 DEF GetSynthetic, Askers
  <2>3. Askers(k)' \subseteq Askers(k) \ {c}
    <3>1. pc'[c] # "synthetic" /\ ~\E d \in Callers : GetOrCreate(d)
      BY <1>0, <2>1 DEF Types, GetSynthetic, GetOrCreate, Broken, End, Goto
    <3> QED BY <3>1, AskersStep DEF Askers
  <2>4. m + 1 <= n
    BY <1>1, <2>2, <2>3, OneLess
  <2> QED BY <1>0, <1>1, <2>1, <2>4
<1> QED BY <1>2, <1>3

\* A request's key is a thread.
LEMMA KeyIsThread ==
  ASSUME Types, KeyInv, MintedInv, NEW c \in Callers, pc[c] \in {"lookup", "create"}
  PROVE  key[c] \in Threads
<1> DEFINE r == request[c]
<1>1. r \in Requests /\ DomainOf(r) # Raises
  BY DEF KeyInv, KeyOK, Requesting
<1>2. CASE Numbered(c)
  <2>1. PICK n \in 1 .. minted[SenderKey(c)] :
          key[c] = <<DomainOf(r), <<SenderKey(c), n>>>>
    BY <1>2 DEF Numbered
  <2>2. SenderKey(c) \in Senders
    BY <1>1, SenderKnown DEF SenderKey
  <2>3. /\ minted[SenderKey(c)] \in Nat
        /\ Cardinality(Askers(SenderKey(c))) \in Nat
        /\ minted[SenderKey(c)] <= MaxCalls
    <3>1. Askers(SenderKey(c)) \in SUBSET Callers
      BY DEF Askers
    <3>2. Cardinality(Askers(SenderKey(c))) \in Nat
      BY <3>1, CallersCount
    <3>3. minted[SenderKey(c)] \in Nat
      BY <2>2 DEF Types
    <3> QED BY <2>2, <3>2, <3>3, LimitsAssumption DEF MintedInv
  <2>4. n \in 1 .. MaxCalls
    BY <2>3, LimitsAssumption
  <2> QED BY <1>1, <1>2, <2>1, <2>4, ThreadsAssumption DEF Numbered, SenderKey
<1>3. CASE r.thread # None /\ key[c] = <<DomainOf(r), r.thread>>
  BY <1>1, <1>3, ThreadsAssumption
<1> QED BY <1>2, <1>3 DEF KeyInv, KeyOK

-----------------------------------------------------------------------------
(* Types.                                                                  *)

LEMMA RequestTypes ==
  ASSUME Types, Shapes, KeyInv, MintedInv, NEW c \in Callers, RequestStep(c)
  PROVE  Types'
<1>0. /\ UNCHANGED domainVars
      /\ synthetic = [k \in Senders |-> synthetic[k]]
      /\ pc \in [Callers -> Steps]
      /\ request \in [Callers -> Requests \cup {None}]
      /\ pc[c] \in Requesting => SenderKey(c) \in Senders
  BY RequestStepFrame, SenderKnown DEF Types, Shapes, KeyInv, KeyOK, SenderKey
<1>1. /\ topic' \in [Callers -> Topics \cup {None}]
      /\ answer' \in [Callers -> Contexts \cup {None}]
      /\ cache' \in Contexts \cup {None}
      /\ recent' \in Seq(Topics) /\ Len(recent') <= RecentLimit
      /\ missed' \subseteq told' /\ told' \subseteq Topics
  BY <1>0 DEF Types, domainVars
<1>2. pc' \in [Callers -> Steps] /\ request' \in [Callers -> Requests \cup {None}]
  BY <1>0 DEF RequestStep, GetOrCreate, GetSynthetic, TouchSynthetic,
     SetSynthetic, Lookup, Create, Serve, Broken, End, Goto, Steps
<1>3. /\ saved' \in [Sessions -> SessionObjects \cup {NoSession}]
      /\ index' \in [Threads -> Sessions \cup {NoSession}]
  <2>1. CASE UNCHANGED storeVars
    BY <2>1 DEF storeVars, Types
  <2>2. CASE Create(c)
    <3>1. pc[c] = "create" /\ key[c] \in Threads
      BY <2>2, KeyIsThread DEF Create
    <3>2. CASE \E s \in Sessions : StoreCreate(key[c], s)
      BY <3>1, <3>2 DEF StoreCreate, Types, SessionObjects, States
    <3> QED BY <2>1, <2>2, <3>2 DEF Create, Broken
  <2> QED
    BY <2>1, <2>2 DEF RequestStep, GetOrCreate, GetSynthetic, TouchSynthetic,
                      SetSynthetic, Lookup
<1>4. /\ minted' \in [Senders -> Nat]
      /\ \A k \in Senders : synthetic'[k] \in {None} \cup {<<k, n>> : n \in 1 .. minted'[k]}
  <2>1. CASE UNCHANGED <<synthetic, minted>>
    BY <2>1 DEF Types
  <2>2. CASE GetSynthetic(c)
    <3>1. /\ synthetic' = synthetic
          /\ minted' = minted \/ minted' = [minted EXCEPT ![SenderKey(c)] = @ + 1]
      BY <2>2 DEF GetSynthetic, Broken
    <3> QED BY <3>1 DEF Types
  <2>3. CASE SetSynthetic(c)
    <3>1. /\ minted' = minted
          /\ \/ synthetic' = synthetic
             \/ synthetic' = [synthetic EXCEPT ![SenderKey(c)] = key[c][2]]
      BY <2>3 DEF SetSynthetic, Broken
    <3>2. Numbered(c)
      BY <2>3 DEF SetSynthetic, KeyInv, KeyOK
    <3>3. key[c][2] \in {<<SenderKey(c), n>> : n \in 1 .. minted[SenderKey(c)]}
      BY <3>2 DEF Numbered
    <3> QED BY <1>0, <3>1, <3>3 DEF Types
  <2> QED
    BY <2>1, <2>2, <2>3 DEF RequestStep, GetOrCreate, TouchSynthetic, Lookup,
                            Create, threadVars
<1> QED BY <1>1, <1>2, <1>3, <1>4 DEF Types

\* A caller that updates has a topic of its own, which no update has had.
TopicInv ==
  /\ \A c \in Callers : pc[c] \in {"add", "invalidate"} <=> topic[c] # None
  /\ \A c \in Callers : topic[c] # None => topic[c] \notin told
  /\ \A b, c \in Callers : topic[b] = topic[c] /\ topic[c] # None => b = c

LEMMA DomainTypes ==
  ASSUME Types, TopicInv, NEW c \in Callers, DomainStep(c)
  PROVE  Types'
<1>0. /\ pc \in [Callers -> Steps]
      /\ topic \in [Callers -> Topics \cup {None}]
      /\ answer \in [Callers -> Contexts \cup {None}]
      /\ recent \in Seq(Topics) /\ Len(recent) <= RecentLimit
      /\ RecentLimit \in Nat \ {0}
      /\ UNCHANGED <<storeVars, request, threadVars>>
  BY DomainStepFrame, LimitsAssumption DEF Types
<1>1. /\ saved' \in [Sessions -> SessionObjects \cup {NoSession}]
      /\ index' \in [Threads -> Sessions \cup {NoSession}]
      /\ minted' \in [Senders -> Nat]
      /\ \A k \in Senders : synthetic'[k] \in {None} \cup {<<k, n>> : n \in 1 .. minted'[k]}
      /\ request' \in [Callers -> Requests \cup {None}]
  BY <1>0 DEF Types, storeVars, threadVars
<1>2. pc' \in [Callers -> Steps]
  BY <1>0 DEF DomainStep, Prompt, Read, Keep, Context, Update, Add, Invalidate,
     UpdateReturns, Goto, Steps
<1>3. topic' \in [Callers -> Topics \cup {None}]
  BY <1>0 DEF DomainStep, Prompt, Read, Keep, Context, Update, Add, Invalidate,
     UpdateReturns, domainVars
<1>4. answer' \in [Callers -> Contexts \cup {None}]
  <2>1. Range(recent) \subseteq Topics
    BY <1>0 DEF Range
  <2>2. CASE Read(c)
    <3>1. PICK x \in Contexts : answer' = [answer EXCEPT ![c] = x]
      BY <2>1, <2>2 DEF Read, Contexts
    <3> QED BY <1>0, <3>1
  <2>3. answer' = answer \/ answer' = [answer EXCEPT ![c] = None] \/ Read(c)
    BY DEF DomainStep, Prompt, Keep, Context, Update, Add, Invalidate, domainVars
  <2> QED BY <1>0, <2>2, <2>3
<1>5. cache' \in Contexts \cup {None}
  <2>1. cache \in Contexts \cup {None}
    BY DEF Types
  <2>2. cache' \in {cache, answer[c], None}
    BY DEF DomainStep, Prompt, Read, Keep, Context, Update, Add, Invalidate,
           domainVars
  <2> QED BY <1>0, <2>1, <2>2
<1>6. recent' \in Seq(Topics) /\ Len(recent') <= RecentLimit
  <2>1. CASE UNCHANGED recent
    BY <1>0, <2>1
  <2>2. CASE Add(c)
    <3>1. topic[c] \in Topics
      BY <1>0, <2>2 DEF Add, TopicInv
    <3>2. Append(recent, topic[c]) \in Seq(Topics)
          /\ Len(Append(recent, topic[c])) = Len(recent) + 1
      BY <1>0, <3>1, AppendProperties
    <3> DEFINE longer == Append(recent, topic[c])
    <3>3. CASE Len(longer) > RecentLimit /\ recent' = Tail(longer)
      <4>1. longer # <<>>
        BY <1>0, <3>2
      <4>2. Tail(longer) \in Seq(Topics) /\ Len(Tail(longer)) = Len(longer) - 1
        BY <3>2, <4>1, HeadTailProperties
      <4> QED BY <1>0, <3>2, <3>3, <4>2
    <3>4. CASE ~(Len(longer) > RecentLimit) /\ recent' = longer
      BY <1>0, <3>2, <3>4
    <3> QED BY <2>1, <2>2, <3>3, <3>4 DEF Add
  <2> QED BY <2>1, <2>2 DEF DomainStep, Prompt, Read, Keep, Context, Update, Add,
             Invalidate, domainVars
<1>7. missed' \subseteq told' /\ told' \subseteq Topics
  BY <1>0 DEF Types, TopicInv, DomainStep, Prompt, Read, Keep, Context, Update, Add,
     Invalidate, domainVars
<1> QED BY <1>1, <1>2, <1>3, <1>4, <1>5, <1>6, <1>7 DEF Types

LEMMA FaultsStep ==
  ASSUME Shapes, [Next]_managerVars
  PROVE  faults \in Nat /\ (faults' = faults \/ faults' = faults + 1)
<1>1. ASSUME NEW c \in Callers, RequestStep(c) PROVE Fault \/ faults' = faults
  BY <1>1 DEF RequestStep, GetOrCreate, GetSynthetic, TouchSynthetic,
              SetSynthetic, Lookup, Create, Broken
<1>2. ASSUME NEW c \in Callers, DomainStep(c) PROVE Fault \/ faults' = faults
  BY <1>2 DEF DomainStep, Prompt, Read, Keep, Context, Update, Add, Invalidate
<1>3. Fault \/ faults' = faults
  BY <1>1, <1>2 DEF Next, RequestStep, DomainStep, Expire, Clear, managerVars
<1> QED BY <1>3 DEF Fault, Shapes

LEMMA ShapesStep ==
  ASSUME Types, Shapes, MintedInv, [Next]_managerVars
  PROVE  Shapes'
<1>1. /\ calls' \in Nat /\ calls' <= MaxCalls
      /\ faults \in Nat
      /\ DOMAIN key = Callers /\ DOMAIN synthetic = Senders
  BY CallsStep DEF Shapes
<1>2. faults' \in Nat
  BY FaultsStep
<1>3. DOMAIN key' = Callers /\ key' = [c \in Callers |-> key'[c]]
  <2>1. ASSUME NEW c \in Callers, RequestStep(c)
        PROVE  \/ key' = key
               \/ \E x : key' = [key EXCEPT ![c] = x]
    BY <2>1 DEF RequestStep, GetOrCreate, GetSynthetic, TouchSynthetic,
                SetSynthetic, Lookup, Create, Serve, Broken, End
  <2>2. ASSUME NEW c \in Callers, DomainStep(c) PROVE key' = key
    BY <2>2, DomainStepFrame
  <2>3. key' = key \/ \E c \in Callers : \E x : key' = [key EXCEPT ![c] = x]
    BY <2>1, <2>2 DEF Next, RequestStep, DomainStep, Expire, Clear, callVars, managerVars
  <2> QED BY <2>3 DEF Shapes
<1>4. DOMAIN synthetic' = Senders /\ synthetic' = [k \in Senders |-> synthetic'[k]]
  <2>1. ASSUME NEW c \in Callers, RequestStep(c)
        PROVE  \/ synthetic' = synthetic
               \/ \E k, x : synthetic' = [synthetic EXCEPT ![k] = x]
    BY <2>1 DEF RequestStep, GetOrCreate, GetSynthetic, TouchSynthetic,
                SetSynthetic, Lookup, Create, Broken, threadVars
  <2>2. ASSUME NEW c \in Callers, DomainStep(c) PROVE synthetic' = synthetic
    BY <2>2, DomainStepFrame DEF threadVars
  <2>3. synthetic' = synthetic \/ \E k, x : synthetic' = [synthetic EXCEPT ![k] = x]
    BY <2>1, <2>2 DEF Next, RequestStep, DomainStep, Expire, Clear, threadVars, managerVars
  <2> QED BY <2>3 DEF Shapes
<1> QED BY <1>1, <1>2, <1>3, <1>4 DEF Shapes

LEMMA TopicStep ==
  ASSUME Types, Shapes, TopicInv, [Next]_managerVars
  PROVE  TopicInv'
<1>0. /\ pc \in [Callers -> Steps]
      /\ topic \in [Callers -> Topics \cup {None}]
      /\ None \notin Topics
  BY NoneAssumption DEF Types
<1> USE <1>0 DEF TopicInv
<1>1. ASSUME NEW c \in Callers, RequestStep(c) PROVE TopicInv'
  <2>1. /\ UNCHANGED <<topic, told>>
        /\ \A b \in Callers \ {c} : pc'[b] = pc[b]
    BY <1>1, RequestStepFrame DEF domainVars
  <2>2. pc[c] \notin {"add", "invalidate"} /\ pc'[c] \notin {"add", "invalidate"}
    BY <1>1 DEF RequestStep, GetOrCreate, GetSynthetic, TouchSynthetic,
       SetSynthetic, Lookup, Create, Serve, Broken, End, Goto
  <2> QED BY <2>1, <2>2
<1>2. ASSUME NEW c \in Callers, DomainStep(c) PROVE TopicInv'
  <2>1. CASE Prompt(c) \/ Read(c) \/ Keep(c) \/ Context(c)
    BY <2>1 DEF Prompt, Read, Keep, Context, Goto, domainVars
  <2>2. CASE Update(c)
    BY <2>2 DEF Update, Goto
  <2>3. CASE Add(c)
    BY <2>3 DEF Add, UpdateReturns, Goto
  <2>4. CASE Invalidate(c)
    BY <2>4 DEF Invalidate, UpdateReturns, Goto
  <2> QED BY <1>2, <2>1, <2>2, <2>3, <2>4 DEF DomainStep
<1>3. CASE UNCHANGED <<pc, topic, told>>
  BY <1>3
<1> QED
  BY <1>1, <1>2, <1>3
     DEF Next, RequestStep, DomainStep, Expire, Clear, callVars, domainVars, managerVars

TypesInv == Types /\ Shapes /\ KeyInv /\ MintedInv /\ TopicInv

LEMMA TypesInit == Init => TypesInv
<1> SUFFICES ASSUME Init PROVE TypesInv
  OBVIOUS
<1> USE LimitsAssumption DEF Init, StoreInit
<1>1. Types
  BY DEF Types, Steps
<1>2. Shapes
  BY DEF Shapes
<1>3. KeyInv
  BY DEF KeyInv, KeyOK, Requesting
<1>4. MintedInv
  <2> SUFFICES ASSUME NEW k \in Senders
               PROVE  minted[k] + Cardinality(Askers(k)) <= calls
    BY DEF MintedInv
  <2>1. Askers(k) = {}
    BY DEF Askers
  <2> QED BY <2>1, FS_EmptySet
<1>5. TopicInv
  BY DEF TopicInv
<1> QED BY <1>1, <1>2, <1>3, <1>4, <1>5 DEF TypesInv

LEMMA TypesStep == TypesInv /\ [Next]_managerVars => TypesInv'
<1> SUFFICES ASSUME TypesInv, [Next]_managerVars PROVE TypesInv'
  OBVIOUS
<1>0. Types /\ Shapes /\ KeyInv /\ MintedInv /\ TopicInv
  BY DEF TypesInv
<1>1. ASSUME NEW k \in Senders, Expire(k) PROVE Types'
  BY <1>0, <1>1 DEF Expire, Types, Shapes, storeVars, callVars, domainVars
<1>2. ASSUME Clear \/ UNCHANGED managerVars PROVE Types'
  BY <1>0, <1>2 DEF Clear, Types, storeVars, callVars, threadVars, domainVars, managerVars
<1>3. Types'
  BY <1>0, <1>1, <1>2, RequestTypes, DomainTypes DEF Next, RequestStep, DomainStep
<1> QED
  BY <1>0, <1>3, ShapesStep, KeyStep, MintedStep, TopicStep DEF TypesInv

LEMMA TypesInvariant == Spec => []TypesInv
BY TypesInit, TypesStep, PTL DEF Spec

\* Every variable keeps its type; in particular every key that is looked up or
\* created is a thread, synthetic ones included.
THEOREM ManagerTypes == Spec => []TypeOK
<1>1. TypesInv => TypeOK
  BY KeyIsThread DEF TypesInv, Types, TypeOK
<1> QED
  BY <1>1, TypesInvariant, PTL

-----------------------------------------------------------------------------
(* Few synthetic threads.                                                  *)

\* The callers about to keep a new id for sender k.
Setters(k) == {c \in Callers : pc[c] = "set" /\ SenderKey(c) = k}

\* The ids that f faults allow a sender.
Limit(f) == Cardinality(Callers) * (1 + f)

\* While a sender has no synthetic thread, each id made since it had none is in
\* the hands of a caller that will keep it.
SettersInv ==
  \A k \in Senders :
    IF synthetic[k] = None
    THEN minted[k] + Cardinality(Callers) <= Limit(faults) + Cardinality(Setters(k))
    ELSE minted[k] <= Limit(faults)

LEMMA LimitGrows ==
  ASSUME NEW f \in Nat
  PROVE  /\ Limit(f) \in Nat
         /\ Limit(f + 1) = Limit(f) + Cardinality(Callers)
BY CallersCount DEF Limit

LEMMA SettersCount ==
  ASSUME NEW k
  PROVE  /\ IsFiniteSet(Setters(k)) /\ Cardinality(Setters(k)) \in Nat
         /\ Cardinality(Setters(k)) <= Cardinality(Callers)
         /\ Setters(k)' \in SUBSET Callers
         /\ IsFiniteSet(Setters(k)') /\ Cardinality(Setters(k)') \in Nat
<1>1. Setters(k) \in SUBSET Callers /\ Setters(k)' \in SUBSET Callers
  BY DEF Setters
<1> QED BY <1>1, CallersCount

\* A step of another kind than these two leaves the setters alone.
LEMMA SettersStep ==
  ASSUME Types, Shapes, [Next]_managerVars, NEW k
  PROVE  \/ Setters(k)' = Setters(k)
         \/ \E c \in Callers :
              /\ GetSynthetic(c) \/ SetSynthetic(c)
              /\ SenderKey(c) = k
              /\ \A b \in Callers \ {c} : b \in Setters(k) <=> b \in Setters(k)'
<1>0. pc \in [Callers -> Steps]
  BY DEF Types
<1>1. ASSUME NEW c \in Callers, RequestStep(c)
      PROVE  \A b \in Callers \ {c} : b \in Setters(k) <=> b \in Setters(k)'
  BY <1>1, RequestStepFrame DEF Setters, SenderKey
<1>2. ASSUME NEW c \in Callers, GetSynthetic(c) \/ SetSynthetic(c), SenderKey(c) # k
      PROVE  Setters(k)' = Setters(k)
  <2>1. c \notin Setters(k)
    BY <1>2 DEF Setters
  <2>2. c \notin Setters(k)'
    BY <1>0, <1>2 DEF Setters, SenderKey, GetSynthetic, SetSynthetic, Broken, End, Goto
  <2> QED BY <1>1, <1>2, <2>1, <2>2 DEF Setters, RequestStep
<1>3. ASSUME NEW c \in Callers,
             GetOrCreate(c) \/ TouchSynthetic(c) \/ Lookup(c) \/ Create(c)
      PROVE  Setters(k)' = Setters(k)
  <2>1. pc[c] # "set" /\ pc'[c] # "set"
    BY <1>0, <1>3 DEF GetOrCreate, TouchSynthetic, Lookup, Create, Serve, Broken, End, Goto
  <2>2. c \notin Setters(k) /\ c \notin Setters(k)'
    BY <2>1 DEF Setters
  <2> QED BY <1>1, <1>3, <2>2 DEF Setters, RequestStep
<1>4. ASSUME NEW c \in Callers, DomainStep(c) PROVE Setters(k)' = Setters(k)
  BY <1>4, DomainStepFrame DEF Setters, SenderKey, Requesting
<1>5. CASE UNCHANGED <<pc, request>>
  BY <1>5 DEF Setters, SenderKey
<1> QED
  BY <1>1, <1>2, <1>3, <1>4, <1>5
     DEF Next, RequestStep, DomainStep, Expire, Clear, callVars, managerVars

\* Threads are set and lost one by one.
LEMMA SyntheticStep ==
  ASSUME Types, Shapes, [Next]_managerVars, NEW k \in Senders
  PROVE  \/ UNCHANGED <<synthetic[k], minted[k]>>
         \/ \E c \in Callers : (GetSynthetic(c) \/ SetSynthetic(c)) /\ SenderKey(c) = k
         \/ Expire(k)
<1>0. /\ synthetic = [d \in Senders |-> synthetic[d]]
      /\ minted \in [Senders -> Nat]
  BY DEF Types, Shapes
<1>1. ASSUME NEW c \in Callers, GetSynthetic(c) \/ SetSynthetic(c), SenderKey(c) # k
      PROVE  UNCHANGED <<synthetic[k], minted[k]>>
  BY <1>0, <1>1 DEF GetSynthetic, SetSynthetic, Broken
<1>2. ASSUME NEW c \in Callers,
             GetOrCreate(c) \/ TouchSynthetic(c) \/ Lookup(c) \/ Create(c)
      PROVE  UNCHANGED <<synthetic[k], minted[k]>>
  BY <1>2 DEF GetOrCreate, TouchSynthetic, Lookup, Create, threadVars
<1>3. ASSUME NEW c \in Callers, DomainStep(c)
      PROVE  UNCHANGED <<synthetic[k], minted[k]>>
  BY <1>3, DomainStepFrame DEF threadVars
<1>4. ASSUME NEW d \in Senders, d # k, Expire(d)
      PROVE  UNCHANGED <<synthetic[k], minted[k]>>
  BY <1>0, <1>4 DEF Expire
<1>5. ASSUME Clear \/ UNCHANGED managerVars
      PROVE  UNCHANGED <<synthetic[k], minted[k]>>
  BY <1>5 DEF Clear, threadVars, managerVars
<1> QED
  BY <1>1, <1>2, <1>3, <1>4, <1>5 DEF Next, DomainStep

LEMMA SettersInvStep ==
  ASSUME Types, Shapes, KeyInv, SettersInv, [Next]_managerVars
  PROVE  SettersInv'
<1> SUFFICES ASSUME NEW k \in Senders
             PROVE  IF synthetic'[k] = None
                    THEN minted'[k] + Cardinality(Callers)
                           <= Limit(faults') + Cardinality(Setters(k)')
                    ELSE minted'[k] <= Limit(faults')
  BY DEF SettersInv, Limit
<1> DEFINE B == Cardinality(Callers)
           n == Cardinality(Setters(k))
           m == Cardinality(Setters(k)')
           L == Limit(faults)
           M == Limit(faults')
           Goal == IF synthetic'[k] = None THEN minted'[k] + B <= M + m
                                           ELSE minted'[k] <= M
<1>0. /\ B \in Nat /\ n \in Nat /\ m \in Nat /\ L \in Nat /\ M \in Nat
      /\ n <= B
      /\ M = L \/ M = L + B
      /\ faults' = faults + 1 => M = L + B
      /\ minted \in [Senders -> Nat] /\ minted[k] \in Nat
      /\ pc \in [Callers -> Steps]
      /\ synthetic = [d \in Senders |-> synthetic[d]]
      /\ IF synthetic[k] = None THEN minted[k] + B <= L + n ELSE minted[k] <= L
  BY CallersCount, SettersCount, FaultsStep, LimitGrows DEF Types, Shapes, SettersInv
<1> HIDE DEF B, n, m, L, M
<1>1. ASSUME UNCHANGED <<synthetic[k], minted[k]>>, n <= m PROVE Goal
  BY <1>0, <1>1 DEF Goal
<1>2. ASSUME NEW c \in Callers, GetSynthetic(c), SenderKey(c) = k PROVE Goal
  <2>1. \A b \in Callers \ {c} : b \in Setters(k) <=> b \in Setters(k)'
    BY <1>2, RequestStepFrame DEF RequestStep, Setters, SenderKey
  <2>2. c \notin Setters(k) /\ synthetic' = synthetic
    BY <1>2 DEF Setters, GetSynthetic
  <2>3. CASE minted' = minted
    <3>1. Setters(k) \subseteq Setters(k)'
      BY <2>1, <2>2 DEF Setters
    <3>2. n <= m
      BY <3>1, SettersCount, Fewer DEF n, m
    <3> QED BY <1>1, <2>2, <2>3, <3>2
  <2>4. CASE minted' # minted
    <3>1. /\ synthetic[k] = None /\ minted'[k] = minted[k] + 1
          /\ faults' = faults /\ pc'[c] = "set" /\ request' = request
      BY <1>0, <1>2, <2>4 DEF GetSynthetic, Broken, Goto
    <3>2. c \in Setters(k)'
      BY <1>2, <3>1 DEF Setters, SenderKey
    <3>3. Setters(k) \subseteq Setters(k)' \ {c}
      BY <2>1, <2>2 DEF Setters
    <3>4. n + 1 <= m
      BY <3>2, <3>3, SettersCount, OneLess DEF n, m
    <3>5. M = L
      BY <3>1 DEF M, L
    <3> QED BY <1>0, <2>2, <3>1, <3>4, <3>5 DEF Goal
  <2> QED BY <2>3, <2>4
<1>3. ASSUME NEW c \in Callers, SetSynthetic(c), SenderKey(c) = k PROVE Goal
  <2>1. minted' = minted
    BY <1>3 DEF SetSynthetic
  <2>2. CASE synthetic'[k] # None
    BY <1>0, <2>1, <2>2 DEF Goal
  <2>3. CASE synthetic'[k] = None
    <3>1. key[c][2] # None
      BY <1>3, NoneAssumption DEF SetSynthetic, KeyInv, KeyOK, Numbered, Types
    <3>2. synthetic' = synthetic /\ faults' = faults + 1
      BY <1>0, <1>3, <2>3, <3>1 DEF SetSynthetic, Broken, Fault
    <3>3. Setters(k) \subseteq Setters(k)' \cup {c}
      BY <1>3, RequestStepFrame DEF RequestStep, Setters, SenderKey
    <3>4. n <= m + 1
      BY <3>3, SettersCount, OneMore DEF n, m
    <3>5. B >= 1
      <4>1. Callers # {}
        OBVIOUS
      <4> QED BY <1>0, <4>1, LimitsAssumption, FS_EmptySet DEF B
    <3> QED BY <1>0, <2>1, <2>3, <3>2, <3>4, <3>5 DEF Goal
  <2> QED BY <2>2, <2>3
<1>4. ASSUME Expire(k) PROVE Goal
  <2>1. /\ synthetic[k] # None /\ synthetic'[k] = None /\ minted' = minted
        /\ faults' = faults + 1
    BY <1>0, <1>4 DEF Expire, Fault
  <2> QED BY <1>0, <2>1 DEF Goal
<1>5. ASSUME Setters(k)' = Setters(k) PROVE Goal
  <2>1. n = m
    BY <1>5 DEF n, m
  <2> QED BY <1>0, <1>1, <1>2, <1>3, <1>4, <2>1, SyntheticStep
<1>6. Goal
  BY <1>2, <1>3, <1>5, SettersStep
<1> QED BY <1>6 DEF Goal, B, m, M

\* A sender without threads is given at most one synthetic thread for each
\* caller, and again for each time one is lost or not kept.
THEOREM ThreadsAreKept == Spec => []FewThreads
<1>1. Init => SettersInv
  <2> SUFFICES ASSUME Init, NEW k \in Senders
               PROVE  minted[k] + Cardinality(Callers) <= Limit(faults) + Cardinality(Setters(k))
                      /\ synthetic[k] = None
    BY DEF SettersInv
  <2>1. Setters(k) = {} /\ synthetic[k] = None /\ minted[k] = 0 /\ faults = 0
    BY DEF Init, Setters
  <2>2. Limit(faults) = Cardinality(Callers)
    BY <2>1, CallersCount DEF Limit
  <2> QED BY <2>1, <2>2, FS_EmptySet, CallersCount
<1>2. TypesInv /\ SettersInv /\ [Next]_managerVars => SettersInv'
  BY SettersInvStep DEF TypesInv
<1>3. TypesInv /\ SettersInv => FewThreads
  <2> SUFFICES ASSUME TypesInv, SettersInv, NEW k \in Senders
               PROVE  minted[k] <= Limit(faults)
    BY DEF FewThreads, Limit
  <2>1. /\ Cardinality(Callers) \in Nat /\ Cardinality(Setters(k)) \in Nat
        /\ Cardinality(Setters(k)) <= Cardinality(Callers)
        /\ minted[k] \in Nat /\ Limit(faults) \in Nat
    BY CallersCount, SettersCount, LimitGrows DEF TypesInv, Types, Shapes
  <2> QED BY <2>1 DEF SettersInv
<1> QED
  BY <1>1, <1>2, <1>3, TypesInvariant, PTL DEF Spec

-----------------------------------------------------------------------------
(* The conversation of a request.                                          *)

\* The thread t is one that request r may be served on.
Fits(r, t) ==
  /\ t[1] = DomainOf(r)
  /\ IF r.thread # None THEN t[2] = r.thread ELSE t[2][1] = <<r.channel, r.sender>>

\* What a thread finds is a session of that thread.
Linked ==
  \A t \in Threads : index[t] # NoSession =>
    Exists(index[t]) /\ saved[index[t]].thread = t

ServedInv ==
  \A p \in served :
    p[2] \in Sessions /\ Exists(p[2]) /\ Fits(p[1], saved[p[2]].thread)

\* A session is made by create(), or nothing happens at the store.
LEMMA StoreStep ==
  ASSUME TypesInv, [Next]_managerVars
  PROVE  \/ UNCHANGED storeVars
         \/ \E c \in Callers, s \in Sessions :
              Create(c) /\ StoreCreate(key[c], s) /\ key[c] \in Threads
<1>1. ASSUME NEW c \in Callers, RequestStep(c), ~Create(c) PROVE UNCHANGED storeVars
  BY <1>1 DEF RequestStep, GetOrCreate, GetSynthetic, TouchSynthetic,
              SetSynthetic, Lookup
<1>2. ASSUME NEW c \in Callers, Create(c), ~UNCHANGED storeVars
      PROVE  /\ \E s \in Sessions : StoreCreate(key[c], s)
             /\ key[c] \in Threads
  <2>1. key[c] \in Threads
    BY <1>2, KeyIsThread DEF Create, TypesInv
  <2> QED BY <1>2, <2>1 DEF Create, Broken
<1>3. ASSUME NEW c \in Callers, DomainStep(c) PROVE UNCHANGED storeVars
  BY <1>3, DomainStepFrame DEF TypesInv
<1> QED
  BY <1>1, <1>2, <1>3 DEF Next, RequestStep, DomainStep, Expire, Clear, managerVars

\* Sessions stay as they are created.
LEMMA SessionsStay ==
  ASSUME TypesInv, [Next]_managerVars, NEW s \in Sessions, Exists(s)
  PROVE  saved'[s] = saved[s] /\ Exists(s)'
BY StoreStep DEF StoreCreate, Exists, storeVars, TypesInv, Types

LEMMA LinkedStep ==
  ASSUME TypesInv, Linked, [Next]_managerVars
  PROVE  Linked'
<1>0. /\ saved \in [Sessions -> SessionObjects \cup {NoSession}]
      /\ index \in [Threads -> Sessions \cup {NoSession}]
  BY DEF TypesInv, Types
<1>1. CASE UNCHANGED storeVars
  BY <1>1 DEF Linked, storeVars, Exists
<1>2. ASSUME NEW c \in Callers, NEW s \in Sessions, NEW t \in Threads, StoreCreate(t, s)
      PROVE  Linked'
  <2> DEFINE object == [id |-> s, thread |-> t, turns |-> 0, state |-> "active"]
  <2>1. /\ ~Exists(s)
        /\ saved' = [saved EXCEPT ![s] = object]
        /\ index' = [index EXCEPT ![t] = s]
    BY <1>2 DEF StoreCreate
  <2>2. object \in SessionObjects /\ object.thread = t
    BY DEF SessionObjects, States
  <2>3. object # NoSession
    BY <2>2, SessionsAssumption
  <2> HIDE DEF object
  <2> QED BY <1>0, <2>1, <2>2, <2>3, SessionsAssumption DEF Linked, Exists
<1> QED BY <1>1, <1>2, StoreStep

\* The key of a request about to be served fits it.
LEMMA KeyFits ==
  ASSUME KeyInv, NEW c \in Callers, pc[c] \in {"lookup", "create"}
  PROVE  Fits(request[c], key[c])
<1> DEFINE r == request[c]
<1>1. CASE Numbered(c)
  <2>1. PICK n \in 1 .. minted[SenderKey(c)] :
          r.thread = None /\ key[c] = <<DomainOf(r), <<SenderKey(c), n>>>>
    BY <1>1 DEF Numbered
  <2> QED BY <2>1 DEF Fits, SenderKey
<1>2. CASE r.thread # None /\ key[c] = <<DomainOf(r), r.thread>>
  BY <1>2 DEF Fits
<1> QED BY <1>1, <1>2 DEF KeyInv, KeyOK

LEMMA ServedStep ==
  ASSUME TypesInv, Linked, ServedInv, [Next]_managerVars
  PROVE  ServedInv'
<1>0. /\ saved \in [Sessions -> SessionObjects \cup {NoSession}]
      /\ index \in [Threads -> Sessions \cup {NoSession}]
      /\ KeyInv /\ Types /\ MintedInv
  BY DEF TypesInv, Types
<1>1. ASSUME NEW p \in served
      PROVE  p[2] \in Sessions /\ Exists(p[2])' /\ Fits(p[1], saved'[p[2]].thread)
  BY SessionsStay DEF ServedInv
<1>2. ASSUME NEW c \in Callers, Lookup(c) PROVE ServedInv'
  <2>1. CASE served' = served
    BY <1>1, <2>1 DEF ServedInv, Fits
  <2>2. CASE served' # served
    <3>1. PICK s \in Sessions :
            index[key[c]] = s /\ served' = served \cup {<<request[c], s>>}
      <4>1. /\ index[key[c]] # NoSession
            /\ served' = served \cup {<<request[c], index[key[c]]>>}
        BY <1>2, <2>2 DEF Lookup, Serve, Broken
      <4>2. key[c] \in Threads
        BY <1>0, <1>2, KeyIsThread DEF Lookup
      <4> QED BY <1>0, <4>1, <4>2
    <3>2. /\ key[c] \in Threads /\ Fits(request[c], key[c])
          /\ saved' = saved
      BY <1>0, <1>2, KeyIsThread, KeyFits DEF Lookup, storeVars
    <3>3. saved[s] # NoSession /\ saved[s].thread = key[c]
      BY <3>1, <3>2, SessionsAssumption DEF Linked, Exists
    <3>4. Exists(s)' /\ Fits(request[c], saved'[s].thread)
      BY <3>2, <3>3 DEF Exists
    <3> QED BY <1>1, <3>1, <3>4 DEF ServedInv, Fits
  <2> QED BY <2>1, <2>2
<1>3. ASSUME NEW c \in Callers, Create(c) PROVE ServedInv'
  <2>1. CASE served' = served
    BY <1>1, <2>1 DEF ServedInv, Fits
  <2>2. CASE served' # served
    <3>1. PICK s \in Sessions :
            StoreCreate(key[c], s) /\ served' = served \cup {<<request[c], s>>}
      BY <1>3, <2>2 DEF Create, Serve, Broken
    <3>2. Fits(request[c], key[c])
      BY <1>0, <1>3, KeyFits DEF Create
    <3> DEFINE object == [id |-> s, thread |-> key[c], turns |-> 0, state |-> "active"]
    <3>3. key[c] \in Threads
      BY <1>0, <1>3, KeyIsThread DEF Create
    <3>4. object \in SessionObjects /\ object.thread = key[c]
      BY <3>3 DEF SessionObjects, States
    <3>5. saved'[s] = object /\ object # NoSession
      BY <1>0, <3>1, <3>4, SessionsAssumption DEF StoreCreate
    <3>6. Exists(s)' /\ Fits(request[c], saved'[s].thread)
      BY <3>2, <3>4, <3>5 DEF Exists
    <3> QED BY <1>1, <3>1, <3>6 DEF ServedInv, Fits
  <2> QED BY <2>1, <2>2
<1>4. ASSUME NEW c \in Callers, RequestStep(c), ~Lookup(c), ~Create(c)
      PROVE  served' = served
  BY <1>4 DEF RequestStep, GetOrCreate, GetSynthetic, TouchSynthetic,
              SetSynthetic, threadVars
<1>5. ASSUME \/ \E c \in Callers : DomainStep(c)
             \/ \E k \in Senders : Expire(k)
             \/ Clear
             \/ UNCHANGED managerVars
      PROVE  served' = served
  BY <1>0, <1>5, DomainStepFrame DEF Expire, Clear, threadVars, managerVars
<1>6. served' = served => ServedInv'
  BY <1>1 DEF ServedInv, Fits
<1> QED
  BY <1>2, <1>3, <1>4, <1>5, <1>6 DEF Next, RequestStep, DomainStep

LinkedInv == TypesInv /\ Linked /\ ServedInv

LEMMA LinkedInvariant == Spec => []LinkedInv
<1>1. Init => Linked /\ ServedInv
  BY DEF Init, StoreInit, Linked, ServedInv
<1>2. LinkedInv /\ [Next]_managerVars => LinkedInv'
  BY TypesStep, LinkedStep, ServedStep DEF LinkedInv
<1>3. Init => LinkedInv
  BY <1>1, TypesInit DEF LinkedInv
<1> QED
  BY <1>2, <1>3, PTL DEF Spec

\* However callers interleave in get_or_create(), each is served with a
\* session of its domain, on its thread or on its own sender's synthetic one.
THEOREM ConversationsAreOwn == Spec => []OwnConversation
<1>1. LinkedInv => OwnConversation
  BY DEF LinkedInv, ServedInv, Fits, OwnConversation
<1> QED
  BY <1>1, LinkedInvariant, PTL

-----------------------------------------------------------------------------
(* Few sessions.                                                           *)

SessionsOf(t) == {s \in Sessions : Exists(s) /\ saved[s].thread = t}

\* The callers that found no session on thread t.
Creators(t) == {c \in Callers : pc[c] = "create" /\ key[c] = t}

\* Once a thread has a session, only those that looked before make another.
CreatorsInv ==
  \A t \in Threads :
    IF index[t] = NoSession
    THEN SessionsOf(t) = {}
    ELSE /\ IsFiniteSet(SessionsOf(t))
         /\ Cardinality(SessionsOf(t)) + Cardinality(Creators(t)) <= Cardinality(Callers)

LEMMA CreatorsCount ==
  ASSUME NEW t
  PROVE  /\ IsFiniteSet(Creators(t)) /\ Cardinality(Creators(t)) \in Nat
         /\ Cardinality(Creators(t)) <= Cardinality(Callers)
         /\ IsFiniteSet(Creators(t)') /\ Cardinality(Creators(t)') \in Nat
         /\ Cardinality(Callers) \in Nat
<1>1. Creators(t) \in SUBSET Callers /\ Creators(t)' \in SUBSET Callers
  BY DEF Creators
<1> QED BY <1>1, CallersCount

\* A caller comes to create only from a lookup that finds nothing.
LEMMA CreatorsStep ==
  ASSUME TypesInv, [Next]_managerVars, NEW t, index[t] # NoSession
  PROVE  Creators(t)' \subseteq Creators(t)
<1>0. Types /\ Shapes /\ pc \in [Callers -> Steps]
  BY DEF TypesInv, Types
<1>1. ASSUME NEW c \in Callers, RequestStep(c)
      PROVE  Creators(t)' \subseteq Creators(t)
  <2>1. \A b \in Callers \ {c} : b \in Creators(t)' => b \in Creators(t)
    BY <1>0, <1>1, RequestStepFrame DEF Creators
  <2>2. c \notin Creators(t)'
    <3> SUFFICES ASSUME pc'[c] = "create", key'[c] = t PROVE FALSE
      BY DEF Creators
    <3>1. Lookup(c) /\ index[key[c]] = NoSession /\ key' = key
      BY <1>0, <1>1 DEF RequestStep, GetOrCreate, GetSynthetic, TouchSynthetic,
         SetSynthetic, Lookup, Create, Serve, Broken, End, Goto
    <3> QED BY <3>1
  <2> QED BY <2>1, <2>2 DEF Creators
<1>2. ASSUME NEW c \in Callers, DomainStep(c)
      PROVE  Creators(t)' \subseteq Creators(t)
  BY <1>0, <1>2, DomainStepFrame DEF Creators, Requesting
<1>3. CASE UNCHANGED <<pc, key>>
  BY <1>3 DEF Creators
<1> QED
  BY <1>1, <1>2, <1>3
     DEF Next, RequestStep, DomainStep, Expire, Clear, callVars, managerVars

LEMMA CreatorsInvStep ==
  ASSUME TypesInv, CreatorsInv, [Next]_managerVars
  PROVE  CreatorsInv'
<1> DEFINE B == Cardinality(Callers)
           Goal(t) == IF index'[t] = NoSession
                      THEN SessionsOf(t)' = {}
                      ELSE /\ IsFiniteSet(SessionsOf(t)')
                           /\ Cardinality(SessionsOf(t)') + Cardinality(Creators(t)') <= B
<1> SUFFICES ASSUME NEW t \in Threads PROVE Goal(t)
  BY DEF CreatorsInv
<1>0. /\ saved \in [Sessions -> SessionObjects \cup {NoSession}]
      /\ index \in [Threads -> Sessions \cup {NoSession}]
      /\ pc \in [Callers -> Steps]
      /\ IF index[t] = NoSession
         THEN SessionsOf(t) = {}
         ELSE /\ IsFiniteSet(SessionsOf(t))
              /\ Cardinality(SessionsOf(t)) + Cardinality(Creators(t)) <= B
  BY DEF TypesInv, Types, CreatorsInv
<1>1. /\ Cardinality(Creators(t)) \in Nat /\ Cardinality(Creators(t)') \in Nat /\ B \in Nat
      /\ IsFiniteSet(Creators(t)) /\ Cardinality(Creators(t)) <= B
  BY CreatorsCount
<1>2. ASSUME SessionsOf(t)' = SessionsOf(t), index'[t] = index[t]
      PROVE  Goal(t)
  <2>1. CASE index[t] = NoSession
    BY <1>0, <1>2, <2>1
  <2>2. CASE index[t] # NoSession
    <3>1. Cardinality(Creators(t)') <= Cardinality(Creators(t))
      BY <1>1, <2>2, CreatorsStep, Fewer
    <3>2. Cardinality(SessionsOf(t)) \in Nat
      BY <1>0, <2>2, FS_CardinalityType
    <3> QED BY <1>0, <1>1, <1>2, <2>2, <3>1, <3>2
  <2> QED BY <2>1, <2>2
<1>3. ASSUME UNCHANGED storeVars PROVE Goal(t)
  BY <1>2, <1>3 DEF storeVars, SessionsOf, Exists
<1>4. ASSUME NEW c \in Callers, NEW s \in Sessions, Create(c),
             StoreCreate(key[c], s), key[c] \in Threads
      PROVE  Goal(t)
  <2> DEFINE object == [id |-> s, thread |-> key[c], turns |-> 0, state |-> "active"]
  <2>1. /\ ~Exists(s) /\ pc[c] = "create"
        /\ saved' = [saved EXCEPT ![s] = object]
        /\ index' = [index EXCEPT ![key[c]] = s]
    BY <1>4 DEF StoreCreate, Create
  <2>2. object \in SessionObjects /\ object.thread = key[c]
    BY <1>4 DEF SessionObjects, States
  <2>3. object # NoSession /\ s # NoSession
    BY <2>2, SessionsAssumption
  <2> HIDE DEF object
  <2>4. CASE key[c] # t
    <3>1. SessionsOf(t)' = SessionsOf(t) /\ index'[t] = index[t]
      BY <1>0, <2>1, <2>2, <2>3, <2>4 DEF SessionsOf, Exists
    <3> QED BY <1>2, <3>1
  <2>5. CASE key[c] = t
    <3>1. SessionsOf(t)' = SessionsOf(t) \cup {s} /\ index'[t] # NoSession
      BY <1>0, <2>1, <2>2, <2>3, <2>5 DEF SessionsOf, Exists
    <3>2. c \in Creators(t)
      BY <2>1, <2>5 DEF Creators
    <3>3. Creators(t)' \subseteq Creators(t) \ {c}
      <4>1. \A b \in Callers \ {c} : b \in Creators(t)' => b \in Creators(t)
        BY <1>4, RequestStepFrame DEF TypesInv, RequestStep, Creators
      <4>2. pc'[c] # "create"
        BY <1>0, <1>4 DEF Create, Serve, Broken, End, Goto
      <4> QED BY <4>1, <4>2 DEF Creators
    <3>4. Cardinality(Creators(t)') + 1 <= Cardinality(Creators(t))
      BY <1>1, <3>2, <3>3, OneLess
    <3>5. CASE index[t] = NoSession
      <4>1. SessionsOf(t)' = {s}
        BY <1>0, <3>1, <3>5
      <4>2. IsFiniteSet(SessionsOf(t)') /\ Cardinality(SessionsOf(t)') = 1
        BY <4>1, FS_Singleton
      <4> QED BY <1>1, <3>1, <3>4, <4>2
    <3>6. CASE index[t] # NoSession
      <4>1. /\ IsFiniteSet(SessionsOf(t)')
            /\ Cardinality(SessionsOf(t)') <= Cardinality(SessionsOf(t)) + 1
        BY <1>0, <3>1, <3>6, OneMore
      <4>2. Cardinality(SessionsOf(t)) \in Nat /\ Cardinality(SessionsOf(t)') \in Nat
        BY <1>0, <3>6, <4>1, FS_CardinalityType
      <4> QED BY <1>0, <1>1, <3>1, <3>4, <3>6, <4>1, <4>2
    <3> QED BY <3>5, <3>6
  <2> QED BY <2>4, <2>5
<1> QED BY <1>3, <1>4, StoreStep

\* Callers that look a new thread up together may each make a session on it,
\* but a thread never has more of them than there are callers.
THEOREM SessionsAreFew == Spec => []FewSessions
<1>1. Init => CreatorsInv
  BY DEF Init, StoreInit, CreatorsInv, SessionsOf, Exists
<1>2. TypesInv /\ CreatorsInv /\ [Next]_managerVars => CreatorsInv'
  BY CreatorsInvStep
<1>3. CreatorsInv => FewSessions
  <2> SUFFICES ASSUME CreatorsInv, NEW t \in Threads
               PROVE  Cardinality(SessionsOf(t)) <= Cardinality(Callers)
    BY DEF FewSessions, SessionsOf
  <2>1. Cardinality(Creators(t)) \in Nat /\ Cardinality(Callers) \in Nat
    BY CreatorsCount
  <2>2. CASE index[t] = NoSession
    <3>1. SessionsOf(t) = {}
      BY <2>2 DEF CreatorsInv
    <3>2. Cardinality(SessionsOf(t)) = 0
      BY <3>1, FS_EmptySet, Zenon
    <3> QED BY <2>1, <3>2
  <2>3. CASE index[t] # NoSession
    BY <2>1, <2>3, FS_CardinalityType DEF CreatorsInv
  <2> QED BY <2>2, <2>3
<1> QED
  BY <1>1, <1>2, <1>3, TypesInvariant, PTL DEF Spec

-----------------------------------------------------------------------------
(* The cached domain context.                                              *)

\* What a load that was read may go without.
Current(context) ==
  \/ ~context.read
  \/ (told \ missed) \cap Range(recent) \subseteq context.topics

LoadsInv ==
  /\ \A c \in Callers : pc[c] = "keep" => answer[c] \in Contexts /\ Current(answer[c])
  /\ cache # None => Current(cache)

\* What the sequence has after the oldest gives way to a new element.
LEMMA RangeAppend ==
  ASSUME NEW s \in Seq(Topics), NEW x \in Topics
  PROVE  /\ Range(Append(s, x)) \subseteq Range(s) \cup {x}
         /\ Range(Tail(Append(s, x))) \subseteq Range(s) \cup {x}
<1>1. /\ Append(s, x) \in Seq(Topics)
      /\ Len(Append(s, x)) = Len(s) + 1
      /\ \A i \in 1 .. Len(s) : Append(s, x)[i] = s[i]
      /\ Append(s, x)[Len(s) + 1] = x
  BY AppendProperties
<1>2. Range(Append(s, x)) \subseteq Range(s) \cup {x}
  BY <1>1 DEF Range
<1> DEFINE l == Append(s, x)
<1>3. l # <<>> /\ Len(s) \in Nat
  BY <1>1
<1>4. /\ Tail(l) \in Seq(Topics)
      /\ Len(Tail(l)) = Len(l) - 1
      /\ \A i \in 1 .. Len(Tail(l)) : Tail(l)[i] = l[i + 1]
  BY <1>1, <1>3, HeadTailProperties
<1>5. Range(Tail(l)) \subseteq Range(l)
  <2> SUFFICES ASSUME NEW i \in DOMAIN Tail(l) PROVE Tail(l)[i] \in Range(l)
    BY DEF Range
  <2>1. i \in 1 .. Len(Tail(l)) /\ i + 1 \in 1 .. Len(l)
    BY <1>1, <1>3, <1>4
  <2> QED BY <1>1, <1>4, <2>1 DEF Range
<1> QED BY <1>2, <1>5

LEMMA LoadsStep ==
  ASSUME TypesInv, LoadsInv, [Next]_managerVars
  PROVE  LoadsInv'
<1>0. /\ pc \in [Callers -> Steps]
      /\ topic \in [Callers -> Topics \cup {None}]
      /\ answer \in [Callers -> Contexts \cup {None}]
      /\ recent \in Seq(Topics)
      /\ TopicInv
  BY DEF TypesInv, Types
<1> USE <1>0 DEF LoadsInv, Current
<1>1. ASSUME NEW c \in Callers, RequestStep(c) PROVE LoadsInv'
  <2>1. UNCHANGED domainVars /\ \A b \in Callers \ {c} : pc'[b] = pc[b]
    BY <1>1, RequestStepFrame DEF TypesInv
  <2>2. pc'[c] # "keep"
    BY <1>1 DEF RequestStep, GetOrCreate, GetSynthetic, TouchSynthetic,
       SetSynthetic, Lookup, Create, Serve, Broken, End, Goto
  <2> QED BY <2>1, <2>2 DEF domainVars
<1>2. ASSUME NEW c \in Callers, Prompt(c) \/ Context(c) \/ Update(c)
      PROVE  LoadsInv'
  BY <1>2 DEF Prompt, Context, Update, Goto, domainVars
<1>3. ASSUME NEW c \in Callers, Read(c) PROVE LoadsInv'
  <2>1. Range(recent) \subseteq Topics
    BY DEF Range
  <2>2. PICK x \in Contexts :
          /\ answer' = [answer EXCEPT ![c] = x]
          /\ ~x.read \/ x.topics = Range(recent)
    BY <1>3, <2>1 DEF Read, Contexts
  <2> QED BY <1>3, <2>2 DEF Read, Goto
<1>4. ASSUME NEW c \in Callers, Keep(c) PROVE LoadsInv'
  BY <1>4 DEF Keep, Goto
<1>5. ASSUME NEW c \in Callers, Add(c) PROVE LoadsInv'
  <2>1. topic[c] \in Topics /\ topic[c] \notin told
    BY <1>5 DEF Add, TopicInv
  <2>2. Range(recent') \subseteq Range(recent) \cup {topic[c]}
    BY <1>5, <2>1, RangeAppend DEF Add
  <2>3. (told \ missed) \cap Range(recent') \subseteq (told \ missed) \cap Range(recent)
    BY <2>1, <2>2
  <2>4. /\ UNCHANGED <<answer, cache, told, missed>>
        /\ \A b \in Callers : pc'[b] = "keep" => pc[b] = "keep"
    BY <1>5 DEF Add, UpdateReturns, Goto
  <2> QED BY <2>3, <2>4
<1>6. ASSUME NEW c \in Callers, Invalidate(c) PROVE LoadsInv'
  <2>1. /\ cache' = None /\ UNCHANGED <<answer, recent>>
        /\ told' = told \cup {topic[c]}
        /\ missed' = IF \E a \in LoadsInHand : topic[c] \notin a.topics
                     THEN missed \cup {topic[c]} ELSE missed
        /\ \A b \in Callers : pc'[b] = "keep" => pc[b] = "keep"
    BY <1>6 DEF Invalidate, UpdateReturns, Goto
  <2>2. ASSUME NEW b \in Callers, pc[b] = "keep"
        PROVE  Current(answer[b])' /\ answer[b] \in LoadsInHand
    <3>1. answer[b] \in LoadsInHand
      BY <2>2 DEF LoadsInHand
    <3> QED BY <2>1, <2>2, <3>1
  <2> QED BY <2>1, <2>2
<1>7. CASE UNCHANGED <<pc, answer, cache, recent, told, missed>>
  BY <1>7
<1>8. CASE Clear
  BY <1>8 DEF Clear, callVars
<1> QED
  BY <1>1, <1>2, <1>3, <1>4, <1>5, <1>6, <1>7, <1>8
     DEF Next, RequestStep, Expire, callVars, domainVars, managerVars

\* The cache never hides a recent topic whose update returned, but for a
\* failed read and for the load that was under way at the time.
THEOREM CacheIsFresh == Spec => []FreshCache
<1>1. Init => LoadsInv
  BY DEF Init, LoadsInv
<1>2. TypesInv /\ LoadsInv /\ [Next]_managerVars => LoadsInv'
  BY LoadsStep
<1>3. LoadsInv => FreshCache
  BY DEF LoadsInv, Current, FreshCache
<1> QED
  BY <1>1, <1>2, <1>3, TypesInvariant, PTL DEF Spec

=============================================================================
