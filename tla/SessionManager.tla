---------------------------- MODULE SessionManager ----------------------------
(***************************************************************************)
(* SessionManager (session/manager.py) used directly by several coroutines *)
(* of a process: get_or_create() with its domain resolution and synthetic  *)
(* threads, get_context_for_prompt() with the cache of domain contexts,    *)
(* update_domain_activity() and invalidate_domain_cache().  What a caller  *)
(* does at each await:                                                     *)
(*                                                                         *)
(*   "synthetic", "touch", "set", "lookup", "create"   in get_or_create()  *)
(*   "read", "keep", "context"       in get_context_for_prompt()           *)
(*   "add", "invalidate"             in update_domain_activity()           *)
(*                                                                         *)
(* ContextRuntime.tla has the manager's other operations.  Prompts and     *)
(* topics are about one domain; its memory files, read without an await,   *)
(* are left out.                                                           *)
(***************************************************************************)
EXTENDS SessionStore, Domains, Sequences, Functions

CONSTANTS
  Callers,      \* coroutines
  Requests,     \* get_or_create's: [channel, thread, sender, name, room, domain]
  Resolver,     \* _domain_resolver: the domains of the names it knows
  Topics,       \* topics of update_domain_activity, each used once
  None,
  RecentLimit,  \* domain_recent_limit
  MaxCalls,     \* how many calls there are
  MaxFaults     \* how often the store raises or a synthetic thread expires

ASSUME LimitsAssumption ==
  /\ IsFiniteSet(Callers)
  /\ RecentLimit \in Nat \ {0} /\ MaxCalls \in Nat /\ MaxFaults \in Nat

VARIABLES
  synthetic,  \* synthetic thread of each <<channel, sender>>
  minted,     \* how many ids were made for each
  pc,
  request,    \* the request of each caller
  key,        \* the <<domain, thread>> it resolved to
  topic,      \* the topic it adds
  answer,     \* the domain context it has read
  served,     \* <<request, session>> returned
  recent,     \* the domain's recent topics at the store
  cache,      \* _domain_cache
  told,       \* topics whose update returned
  missed,     \* those that a load had read too early for and still had in hand
  calls, faults

callVars == <<pc, request, key>>
threadVars == <<synthetic, minted, served>>
domainVars == <<topic, answer, recent, cache, told, missed>>
managerVars == <<storeVars, callVars, threadVars, domainVars, calls, faults>>

Senders == {<<r.channel, r.sender>> : r \in Requests}
Contexts == [topics : SUBSET Topics, read : BOOLEAN]
Steps == {"idle", "synthetic", "touch", "set", "lookup", "create", "read", "keep",
          "context", "add", "invalidate"}

TypeOK ==
  /\ saved \in [Sessions -> SessionObjects \cup {NoSession}]
  /\ index \in [Threads -> Sessions \cup {NoSession}]
  /\ minted \in [Senders -> Nat]
  /\ \A k \in Senders : synthetic[k] \in {None} \cup {<<k, n>> : n \in 1 .. minted[k]}
  /\ pc \in [Callers -> Steps]
  /\ request \in [Callers -> Requests \cup {None}]
  /\ \A c \in Callers : pc[c] \in {"lookup", "create"} => key[c] \in Threads
  /\ topic \in [Callers -> Topics \cup {None}]
  /\ answer \in [Callers -> Contexts \cup {None}]
  /\ cache \in Contexts \cup {None}
  /\ recent \in Seq(Topics) /\ Len(recent) <= RecentLimit
  /\ missed \subseteq told /\ told \subseteq Topics

Init ==
  /\ StoreInit
  /\ synthetic = [k \in Senders |-> None]
  /\ minted = [k \in Senders |-> 0]
  /\ pc = [c \in Callers |-> "idle"]
  /\ request = [c \in Callers |-> None]
  /\ key = [c \in Callers |-> None]
  /\ topic = [c \in Callers |-> None]
  /\ answer = [c \in Callers |-> None]
  /\ served = {}
  /\ recent = <<>>
  /\ cache = None
  /\ told = {}
  /\ missed = {}
  /\ calls = 0
  /\ faults = 0

Goto(c, step) == pc' = [pc EXCEPT ![c] = step]
Called == calls < MaxCalls /\ calls' = calls + 1
Fault == faults < MaxFaults /\ faults' = faults + 1

-----------------------------------------------------------------------------
(* Domains.                                                                *)

\* What is left when the resolver knows neither the channel's name nor the room.
OfChannel(channel) ==
  CASE channel = "slack" -> "business"
    [] channel = "synapse" -> Raises
    [] OTHER -> "personal"

\* The domain of a request, given or resolved.
DomainOf(r) ==
  LET known == SelectSeq(<<r.name, r.room>>, LAMBDA n : n \in DOMAIN Resolver) IN
  CASE r.domain # None -> Coerce(r.domain)
    [] r.domain = None /\ known # <<>> -> Resolver[Head(known)]
    [] OTHER -> OfChannel(r.channel)

\* Threads has every thread a request may come to.
ASSUME ThreadsAssumption ==
  \A r \in Requests : DomainOf(r) # Raises =>
    IF r.thread # None
    THEN <<DomainOf(r), r.thread>> \in Threads
    ELSE \A n \in 1 .. MaxCalls :
           <<DomainOf(r), <<<<r.channel, r.sender>>, n>>>> \in Threads

ASSUME NoneAssumption ==
  None \notin Topics \cup Requests \cup Contexts \cup (Senders \X Nat)

-----------------------------------------------------------------------------
(* get_or_create()                                                         *)

\* Defect: one synthetic thread for a channel.
ChannelKey(c) == CHOOSE k \in Senders : k[1] = request[c].channel

SenderKey(c) == <<request[c].channel, request[c].sender>>

End(c) ==
  /\ Goto(c, "idle")
  /\ request' = [request EXCEPT ![c] = None]
  /\ key' = [key EXCEPT ![c] = None]

\* What the store raises ends the call; it may have happened all the same.
Broken(c, effect, unchanged) ==
  /\ Fault
  /\ End(c)
  /\ effect \/ unchanged

\* Defect: a domain that cannot be resolved does not end the call.
GetOrCreateAnyway(c) ==
  /\ pc[c] = "idle"
  /\ Called
  /\ \E r \in Requests :
       /\ request' = [request EXCEPT ![c] = r]
       /\ key' = [key EXCEPT ![c] = <<DomainOf(r), r.thread>>]
       /\ Goto(c, IF r.thread = None THEN "synthetic" ELSE "lookup")
  /\ UNCHANGED <<storeVars, threadVars, domainVars, faults>>

\* The domain is resolved first: a request without one raises.
GetOrCreate(c) ==
  /\ pc[c] = "idle"
  /\ Called
  /\ \E r \in Requests :
       /\ DomainOf(r) # Raises
       /\ request' = [request EXCEPT ![c] = r]
       /\ key' = [key EXCEPT ![c] = <<DomainOf(r), r.thread>>]
       /\ Goto(c, IF r.thread = None THEN "synthetic" ELSE "lookup")
  /\ UNCHANGED <<storeVars, threadVars, domainVars, faults>>

\* get_synthetic_thread(): none means a new id.
GetSynthetic(c) ==
  LET k == SenderKey(c)
      id == IF synthetic[k] # None THEN synthetic[k] ELSE <<k, minted[k] + 1>>
  IN
  /\ pc[c] = "synthetic"
  /\ \/ /\ key' = [key EXCEPT ![c][2] = id]
        /\ Goto(c, IF synthetic[k] # None THEN "touch" ELSE "set")
        /\ minted' = IF synthetic[k] # None THEN minted ELSE [minted EXCEPT ![k] = @ + 1]
        /\ UNCHANGED <<request, faults>>
     \/ Broken(c, FALSE, UNCHANGED minted)
  /\ UNCHANGED <<storeVars, synthetic, served, domainVars, calls>>

\* touch_synthetic_thread(): its time is extended, if it is still there.
TouchSynthetic(c) ==
  /\ pc[c] = "touch"
  /\ \/ Goto(c, "lookup") /\ UNCHANGED <<request, key, faults>>
     \/ Broken(c, FALSE, TRUE)
  /\ UNCHANGED <<storeVars, threadVars, domainVars, calls>>

\* Defect: the new id is not kept.
ForgetSynthetic(c) ==
  /\ pc[c] = "set"
  /\ Goto(c, "lookup")
  /\ UNCHANGED <<request, key, storeVars, threadVars, domainVars, calls, faults>>

SetSynthetic(c) ==
  LET set == synthetic' = [synthetic EXCEPT ![SenderKey(c)] = key[c][2]] IN
  /\ pc[c] = "set"
  /\ \/ set /\ Goto(c, "lookup") /\ UNCHANGED <<request, key, faults>>
     \/ Broken(c, set, UNCHANGED synthetic)
  /\ UNCHANGED <<storeVars, minted, served, domainVars, calls>>

Serve(c, s) == End(c) /\ served' = served \cup {<<request[c], s>>}

\* get_by_thread(domain, thread)
Lookup(c) ==
  /\ pc[c] = "lookup"
  /\ \/ /\ index[key[c]] # NoSession
        /\ Serve(c, index[key[c]])
        /\ UNCHANGED faults
     \/ /\ index[key[c]] = NoSession
        /\ Goto(c, "create")
        /\ UNCHANGED <<request, key, served, faults>>
     \/ Broken(c, FALSE, UNCHANGED served)
  /\ UNCHANGED <<storeVars, synthetic, minted, domainVars, calls>>

\* Defect: the next call will not find the session by its thread.
CreateUnindexed(c) ==
  /\ pc[c] = "create"
  /\ \E s \in Sessions :
       /\ ~Exists(s)
       /\ saved' = [saved EXCEPT
            ![s] = [id |-> s, thread |-> key[c], turns |-> 0, state |-> "active"]]
       /\ Serve(c, s)
  /\ UNCHANGED <<index, transcript, synthetic, minted, domainVars, calls, faults>>

Create(c) ==
  /\ pc[c] = "create"
  /\ \E s \in Sessions :
       \/ StoreCreate(key[c], s) /\ Serve(c, s) /\ UNCHANGED faults
       \/ Broken(c, StoreCreate(key[c], s), UNCHANGED storeVars) /\ UNCHANGED served
  /\ UNCHANGED <<synthetic, minted, domainVars, calls>>

\* The store forgets a synthetic thread that was not touched for an hour.
Expire(k) ==
  /\ Fault
  /\ synthetic[k] # None
  /\ synthetic' = [synthetic EXCEPT ![k] = None]
  /\ UNCHANGED <<storeVars, callVars, minted, served, domainVars, calls>>

-----------------------------------------------------------------------------
(* Domain contexts.                                                        *)

\* get_context_for_prompt(): load_domain_memory() returns what is cached.
Prompt(c) ==
  /\ pc[c] = "idle"
  /\ Called
  /\ Goto(c, IF cache = None THEN "read" ELSE "context")
  /\ UNCHANGED <<storeVars, request, key, threadVars, domainVars, faults>>

\* get_domain_recent_topics(): none, if it raises.
Read(c) ==
  /\ pc[c] = "read"
  /\ \/ /\ answer' = [answer EXCEPT ![c] = [topics |-> Range(recent), read |-> TRUE]]
        /\ UNCHANGED faults
     \/ /\ Fault
        /\ answer' = [answer EXCEPT ![c] = [topics |-> {}, read |-> FALSE]]
  /\ Goto(c, "keep")
  /\ UNCHANGED <<storeVars, request, key, threadVars, topic, recent, cache, told, missed, calls>>

\* Back from the await: the context goes to the cache, whatever it is.
Keep(c) ==
  /\ pc[c] = "keep"
  /\ cache' = answer[c]
  /\ answer' = [answer EXCEPT ![c] = None]
  /\ Goto(c, "context")
  /\ UNCHANGED <<storeVars, request, key, threadVars, topic, recent, told, missed, calls, faults>>

\* get_context(), which may raise.
Context(c) ==
  /\ pc[c] = "context"
  /\ Goto(c, "idle")
  /\ Fault \/ UNCHANGED faults
  /\ UNCHANGED <<storeVars, request, key, threadVars, domainVars, calls>>

LoadsInHand == {answer[c] : c \in {b \in Callers : pc[b] = "keep"}}

Update(c) ==
  /\ pc[c] = "idle"
  /\ Called
  /\ \E t \in Topics \ {topic[b] : b \in Callers} :
       /\ t \notin told
       /\ topic' = [topic EXCEPT ![c] = t]
  /\ Goto(c, "add")
  /\ UNCHANGED <<storeVars, request, key, threadVars, answer, recent, cache, told, missed, faults>>

UpdateReturns(c) == Goto(c, "idle") /\ topic' = [topic EXCEPT ![c] = None]

\* add_domain_recent_topic(): the oldest goes when there are too many.  If it
\* raises, the cache stays.
Add(c) ==
  LET longer == Append(recent, topic[c])
      added == recent' = IF Len(longer) > RecentLimit THEN Tail(longer) ELSE longer
  IN
  /\ pc[c] = "add"
  /\ \/ added /\ Goto(c, "invalidate") /\ UNCHANGED <<topic, faults>>
     \/ Fault /\ UpdateReturns(c) /\ (added \/ UNCHANGED recent)
  /\ UNCHANGED <<storeVars, request, key, threadVars, answer, cache, told, missed, calls>>

\* Defect: the cache stays.
UpdateOnly(c) ==
  /\ pc[c] = "invalidate"
  /\ UpdateReturns(c)
  /\ told' = told \cup {topic[c]}
  /\ UNCHANGED <<storeVars, request, key, threadVars, answer, recent, cache, missed, calls, faults>>

\* Back from the await: invalidate_domain_cache(domain).
Invalidate(c) ==
  /\ pc[c] = "invalidate"
  /\ cache' = None
  /\ UpdateReturns(c)
  /\ told' = told \cup {topic[c]}
  /\ missed' = IF \E a \in LoadsInHand : topic[c] \notin a.topics
               THEN missed \cup {topic[c]} ELSE missed
  /\ UNCHANGED <<storeVars, request, key, threadVars, answer, recent, calls, faults>>

\* invalidate_domain_cache() by someone else.
Clear ==
  /\ cache # None
  /\ cache' = None
  /\ UNCHANGED <<storeVars, callVars, threadVars, topic, answer, recent, told, missed, calls, faults>>

Next ==
  \/ \E c \in Callers :
       \/ GetOrCreate(c) \/ GetSynthetic(c) \/ TouchSynthetic(c) \/ SetSynthetic(c)
       \/ Lookup(c) \/ Create(c)
       \/ Prompt(c) \/ Read(c) \/ Keep(c) \/ Context(c)
       \/ Update(c) \/ Add(c) \/ Invalidate(c)
  \/ \E k \in Senders : Expire(k)
  \/ Clear

Spec == Init /\ [][Next]_managerVars

-----------------------------------------------------------------------------

\* A request is served with a session of its domain, on its thread, or on a
\* synthetic thread of its own sender if it has none: callers that interleave
\* in get_or_create never get one another's conversation.
OwnConversation ==
  \A p \in served :
    LET session == saved[p[2]] r == p[1] IN
    /\ session.thread[1] = DomainOf(r)
    /\ IF r.thread # None
       THEN session.thread[2] = r.thread
       ELSE session.thread[2][1] = <<r.channel, r.sender>>

\* A sender without threads is given a new one only after the last expired,
\* or by callers that had all found none: at most one per caller, again for
\* each time a thread is lost.
FewThreads == \A k \in Senders : minted[k] <= Cardinality(Callers) * (1 + faults)

\* get_by_thread and create are two awaits: callers that look up a new thread
\* together each make a session, but nobody makes one later on.
FewSessions ==
  \A t \in Threads :
    Cardinality({s \in Sessions : Exists(s) /\ saved[s].thread = t}) <= Cardinality(Callers)

\* A cached domain context has every recent topic whose update returned,
\* except when its read failed, and when the update returned between a load's
\* read and its writing to the cache.
FreshCache ==
  cache # None => \/ ~cache.read
                  \/ (told \ missed) \cap Range(recent) \subseteq cache.topics

=============================================================================
