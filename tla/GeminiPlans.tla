----------------------------- MODULE GeminiPlans -----------------------------
(***************************************************************************)
(* How ALT gets Gemini's plan for a form (background/gemini.ts): the cache *)
(* in the knowledge store (background/store.ts), one call per signature,   *)
(* calls chained one after the other, the back-off after a failure.        *)
(*                                                                         *)
(* An ask is one planForm() of the session's enrich().  The ask that finds *)
(* no call to share creates a job, named by the ask.  chrome.storage       *)
(* answers its requests in the order they were made.  All forms are of one *)
(* origin: others have a knowledge entry of their own.                     *)
(***************************************************************************)
EXTENDS Naturals, Sequences, FiniteSets, SequencesExt

CONSTANTS
    Asks,         \* the calls of planForm
    Signatures,   \* of forms
    SignatureOf,  \* the signature each ask is about
    NoAsk,
    MaxPlans,     \* MAX_PLANS, the plans kept per origin
    Faults,       \* bound: storage requests that reject
    Crashes       \* bound: deaths of the service worker

ASSUME GeminiPlansAssumption ==
    /\ SignatureOf \in [Asks -> Signatures] /\ NoAsk \notin Asks
    /\ MaxPlans \in Nat \ {0} /\ Faults \in Nat /\ Crashes \in Nat

VARIABLES
    ask,        \* of each ask: "new", "reading" the cache, "waiting" for its job, "answered", "lost"
    waitsFor,   \* the job whose promise it awaits
    job,        \* of each job: "none", "queued", "fetching", "storing", "done"
    chain,      \* the jobs in the order they were chained; `chain` itself is the last one's promise
    inflight,   \* signature -> its job
    offline,    \* now() < offlineUntil
    storage,    \* chrome.storage.local: the requests it has not answered
    order,      \* the signatures whose plans are stored, oldest first (kn.order; kn.plans has the same)
    puts,       \* observed: the signatures stored, in order
    blind,      \* observed: the asks whose look into the cache failed
    faults, crashes

jobVars == <<job, chain, inflight>>
storeVars == <<storage, order, puts>>
geminiVars == <<ask, waitsFor, jobVars, offline, storeVars, blind, faults, crashes>>

GeminiInit ==
    /\ ask = [a \in Asks |-> "new"] /\ waitsFor = [a \in Asks |-> NoAsk]
    /\ job = [a \in Asks |-> "none"] /\ chain = <<>>
    /\ inflight = [s \in Signatures |-> NoAsk]
    /\ offline = FALSE
    /\ storage = <<>> /\ order = <<>> /\ puts = <<>>
    /\ blind = {} /\ faults = 0 /\ crashes = 0

Request(op, a, plans) == [op |-> op, by |-> a, order |-> plans]

-----------------------------------------------------------------------------
(* Asking. *)

\* planForm() looks into the cache first.
Ask(a) ==
    /\ ask[a] = "new" /\ ask' = [ask EXCEPT ![a] = "reading"]
    /\ storage' = Append(storage, Request("getPlan", a, <<>>))
    /\ UNCHANGED <<waitsFor, jobVars, offline, order, puts, blind, faults, crashes>>

\* The cache has the plan.
Cached(a) ==
    /\ ask' = [ask EXCEPT ![a] = "answered"]
    /\ UNCHANGED <<waitsFor, jobVars>>

\* It has not, or cannot be read: share the call in flight, or chain a new one.
ShareOrCall(a) ==
    LET s == SignatureOf[a] IN
    /\ ask' = [ask EXCEPT ![a] = "waiting"]
    /\ IF inflight[s] # NoAsk
       THEN waitsFor' = [waitsFor EXCEPT ![a] = inflight[s]] /\ UNCHANGED jobVars
       ELSE /\ waitsFor' = [waitsFor EXCEPT ![a] = a]
            /\ inflight' = [inflight EXCEPT ![s] = a]
            /\ job' = [job EXCEPT ![a] = "queued"]
            /\ chain' = Append(chain, a)

-----------------------------------------------------------------------------
(* Jobs. *)

\* p has settled: everyone who awaits it goes on, and its creator takes it out of `inflight`.
Settle(j) ==
    /\ job' = [job EXCEPT ![j] = "done"]
    /\ inflight' = [inflight EXCEPT ![SignatureOf[j]] = NoAsk]
    /\ ask' = [a \in Asks |-> IF waitsFor[a] = j /\ ask[a] = "waiting" THEN "answered" ELSE ask[a]]
    /\ UNCHANGED <<waitsFor, chain>>

\* Mutant of PredecessorDone: the chain does not wait for the plan to be stored.
PredecessorCalled(j) ==
    \A i \in 2..Len(chain) : chain[i] = j => job[chain[i - 1]] \in {"storing", "done"}

PredecessorDone(j) == \A i \in 2..Len(chain) : chain[i] = j => job[chain[i - 1]] = "done"

\* call(), when its turn comes: nothing is asked of a service that has just failed.
Call(j) ==
    /\ job[j] = "queued" /\ PredecessorDone(j)
    /\ IF offline
       THEN Settle(j)
       ELSE job' = [job EXCEPT ![j] = "fetching"] /\ UNCHANGED <<ask, waitsFor, chain, inflight>>
    /\ UNCHANGED <<offline, storeVars, blind, faults, crashes>>

\* A well-formed plan arrives; putPlan() first reads the origin's knowledge.
Answer(j) ==
    /\ job[j] = "fetching" /\ job' = [job EXCEPT ![j] = "storing"]
    /\ storage' = Append(storage, Request("read", j, <<>>))
    /\ UNCHANGED <<ask, waitsFor, chain, inflight, offline, order, puts, blind, faults, crashes>>

\* fail(): back-off, and null for everyone who waits.
CallFails(j) ==
    /\ job[j] = "fetching"
    /\ offline' = TRUE /\ Settle(j)
    /\ UNCHANGED <<storeVars, blind, faults, crashes>>

\* An error status, a malformed answer or no network.
Refused(j) == CallFails(j)

\* Mutant of TimedOut: no abort.
NeverTimedOut(j) == FALSE /\ CallFails(j)

\* The 20 s timer aborts the fetch.
TimedOut(j) == CallFails(j)

\* The back-off (60 s, or what Retry-After says) is over.
BackoffOver ==
    /\ offline /\ offline' = FALSE
    /\ UNCHANGED <<ask, waitsFor, jobVars, storeVars, blind, faults, crashes>>

-----------------------------------------------------------------------------
(* Storage. *)

\* The newest MaxPlans signatures of a sequence without duplicates.
Newest(s) == IF Len(s) > MaxPlans THEN SubSeq(s, Len(s) - MaxPlans + 1, Len(s)) ELSE s

Without(stored, s) ==
    IF Contains(stored, s) THEN RemoveAt(stored, CHOOSE i \in DOMAIN stored : stored[i] = s) ELSE stored

\* The signature becomes the newest; the oldest beyond MaxPlans are evicted.
WithPlan(stored, s) == Newest(Append(Without(stored, s), s))

\* The first request is answered.
StorageAnswers ==
    /\ storage # <<>>
    /\ LET r == Head(storage) s == SignatureOf[r.by] IN
       \/ /\ r.op = "getPlan" /\ storage' = Tail(storage)
          /\ IF Contains(order, s) THEN Cached(r.by) ELSE ShareOrCall(r.by)
          /\ UNCHANGED <<order, puts>>
       \/ /\ r.op = "read"
          /\ storage' = Append(Tail(storage), Request("write", r.by, WithPlan(order, s)))
          /\ UNCHANGED <<ask, waitsFor, jobVars, order, puts>>
       \/ /\ r.op = "write" /\ storage' = Tail(storage)
          /\ order' = r.order /\ puts' = Append(puts, s)
          /\ Settle(r.by)
    /\ UNCHANGED <<offline, blind, faults, crashes>>

\* It rejects: planForm() goes on without the cache, putPlan() gives up.
StorageRejects ==
    /\ storage # <<>> /\ storage' = Tail(storage)
    /\ faults < Faults /\ faults' = faults + 1
    /\ LET r == Head(storage) IN
       IF r.op = "getPlan"
       THEN ShareOrCall(r.by) /\ blind' = blind \cup {r.by}
       ELSE Settle(r.by) /\ UNCHANGED blind
    /\ UNCHANGED <<offline, order, puts, crashes>>

\* The service worker dies: only what is stored remains, and no one asks again for the forms whose
\* plan was on its way.
Crash ==
    /\ crashes < Crashes /\ crashes' = crashes + 1
    /\ ask' = [a \in Asks |-> IF ask[a] \in {"reading", "waiting"} THEN "lost" ELSE ask[a]]
    /\ waitsFor' = [a \in Asks |-> NoAsk]
    /\ job' = [a \in Asks |-> "none"] /\ chain' = <<>>
    /\ inflight' = [s \in Signatures |-> NoAsk]
    /\ offline' = FALSE /\ storage' = <<>>
    /\ UNCHANGED <<order, puts, blind, faults>>

-----------------------------------------------------------------------------
GeminiNext ==
    \/ \E a \in Asks : Ask(a) \/ Call(a) \/ Answer(a) \/ Refused(a) \/ TimedOut(a)
    \/ BackoffOver \/ StorageAnswers \/ StorageRejects \/ Crash

GeminiSpec == GeminiInit /\ [][GeminiNext]_geminiVars

\* Storage answers, promises go on, and the abort timer fires.  The service owes nothing.
FairGeminiSpec ==
    /\ GeminiSpec
    /\ WF_geminiVars(StorageAnswers)
    /\ \A a \in Asks : WF_geminiVars(Call(a)) /\ WF_geminiVars(TimedOut(a))

-----------------------------------------------------------------------------
(* Properties. *)

Stages == {"none", "queued", "fetching", "storing", "done"}

\* Every variable keeps the shape the source gives it; `inflight` names unfinished jobs of the
\* signature, and no plan is stored twice or beyond the limit.
GeminiTypeOK ==
    /\ ask \in [Asks -> {"new", "reading", "waiting", "answered", "lost"}]
    /\ waitsFor \in [Asks -> Asks \cup {NoAsk}]
    /\ job \in [Asks -> Stages] /\ chain \in Seq(Asks) /\ IsInjective(chain)
    /\ inflight \in [Signatures -> Asks \cup {NoAsk}]
    /\ \A s \in Signatures :
         inflight[s] # NoAsk => SignatureOf[inflight[s]] = s /\ job[inflight[s]] \notin {"none", "done"}
    /\ order \in Seq(Signatures) /\ IsInjective(order) /\ Len(order) <= MaxPlans
    /\ offline \in BOOLEAN /\ blind \subseteq Asks

\* "at most one call in flight" (gemini.ts), whatever asks, failures and restarts come.
OneCallAtATime == Cardinality({j \in Asks : job[j] = "fetching"}) <= 1

\* "One call per unique form signature, cached per origin" (gemini.ts): no call is made for a form
\* whose plan is stored, unless its look into the cache failed.
StoredIsNotCalled ==
    [][\A j \in Asks :
         job[j] = "queued" /\ job'[j] = "fetching" /\ Contains(order, SignatureOf[j]) => j \in blind]_geminiVars

\* What is stored are the plans put last, one per signature, up to the limit: no put undoes
\* another, though each reads, changes and writes the origin's whole knowledge.
LastPut(s) == CHOOSE i \in DOMAIN puts : puts[i] = s /\ \A k \in (i + 1)..Len(puts) : puts[k] # s
NewerThan(s) == {puts[i] : i \in (LastPut(s) + 1)..Len(puts)}
StoredAreNewest ==
    \A s \in Signatures :
        Contains(order, s) <=> Contains(puts, s) /\ Cardinality(NewerThan(s)) < MaxPlans

\* "Never throws": every ask is answered, also by a service that hangs, unless the worker dies.
EveryAskIsAnswered == \A a \in Asks : (ask[a] # "new") ~> (ask[a] \in {"answered", "lost"})
==============================================================================
