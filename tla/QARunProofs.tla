----------------------------- MODULE QARunProofs -----------------------------
(***************************************************************************)
(* What a run of the QA agent leaves behind, for any number of runs,       *)
(* launches and cancellations and any replies of the model: only what a    *)
(* cancellation or a failure of Chromium's cut off while the page opened   *)
(* or closed.  The argument: whoever launches a Chromium holds the lock    *)
(* and knows of no other that runs, and a run is cut at most once.         *)
(*                                                                         *)
(* And what the model is shown: an answer for each of its calls, and the   *)
(* newest screenshots, although every asking prunes what an earlier one    *)
(* has left.  The argument: what was dropped had Keep newer ones behind    *)
(* it, so that counting the images that are left and counting those that   *)
(* were ever taken decide alike.                                           *)
(***************************************************************************)
EXTENDS QARun, FiniteSetTheorems, TLAPS

\* The phases in which a run may hold a context.
Holding == {"going", "asking", "turn", "acting", "closing"}
Steps == Holding \cup {"needs", "launching", "opening", "ended"}

LockInv ==
    /\ pc \in Steps /\ preflight \in {"idle", "launching"} /\ lock \in {"free", "run", "preflight"}
    /\ lock = "run" <=> pc = "launching"
    /\ lock = "preflight" <=> preflight = "launching"
    /\ lock # "free" => browser \notin procs

ContextInv == \A c \in contexts : c[1] \in cut \cup failed \/ (c[1] = run /\ pc \in Holding)

CutInv ==
    /\ run \in Nat /\ cut \subseteq 0..run /\ (pc # "ended" => run \notin cut)

ProcInv ==
    /\ IsFiniteSet(procs) /\ IsFiniteSet(cut)
    /\ Cardinality(procs \ {browser}) <= Cardinality(cut)

Inv == LockInv /\ ContextInv /\ CutInv /\ ProcInv

-----------------------------------------------------------------------------
\* With nothing lost, a Chromium that starts loses nothing: the one known before does not run.
LEMMA LaunchKeeps ==
  ASSUME ProcInv, browser \notin procs, Launch, UNCHANGED cut
  PROVE  ProcInv' /\ contexts' = contexts /\ failed' = failed
<1>1. procs' = procs \cup {launched'} /\ browser' = launched'
  BY DEF Launch
<1>2. procs' \ {browser'} \subseteq procs \ {browser}
  BY <1>1
<1>3. IsFiniteSet(procs') /\ IsFiniteSet(procs \ {browser})
  BY <1>1, FS_AddElement, FS_RemoveElement DEF ProcInv
<1>4. Cardinality(procs' \ {browser'}) <= Cardinality(procs \ {browser})
  BY <1>2, <1>3, FS_Subset
<1>5. /\ Cardinality(procs' \ {browser'}) \in Nat /\ Cardinality(procs \ {browser}) \in Nat
      /\ Cardinality(cut) \in Nat
  BY <1>2, <1>3, FS_Subset, FS_CardinalityType DEF ProcInv
<1> QED BY <1>3, <1>4, <1>5 DEF ProcInv, Launch

\* A run that is cut while it launches may lose the Chromium it has started.
LEMMA CutKeeps ==
  ASSUME LockInv, CutInv, ProcInv, cancelled, CutOpening PROVE ProcInv'
<1>1. CASE pc = "needs"
  BY <1>1 DEF CutOpening, chromium, ProcInv
<1>2. CASE pc # "needs"
  <2>1. /\ run \notin cut /\ cut' = cut \cup {run} /\ pc \in {"launching", "opening"}
        /\ Cardinality(cut) \in Nat
    BY <1>2, FS_CardinalityType DEF CutOpening, CutInv, ProcInv
  <2>2. IsFiniteSet(cut') /\ Cardinality(cut') = Cardinality(cut) + 1
    BY <2>1, FS_AddElement DEF ProcInv
  <2>3. IsFiniteSet(procs \ {browser}) /\ Cardinality(procs \ {browser}) \in Nat
    BY FS_RemoveElement, FS_CardinalityType DEF ProcInv
  <2>4. CASE procs' = procs /\ browser' = browser
    BY <2>1, <2>2, <2>3, <2>4 DEF ProcInv
  <2>5. CASE ~(procs' = procs /\ browser' = browser)
    <3>1. procs' = procs \cup {launched'} /\ browser' \in {browser, launched'} /\ pc = "launching"
      BY <1>2, <2>5 DEF CutOpening, chromium
    <3>2. browser \notin procs
      BY <3>1 DEF LockInv
    <3>3. procs' \ {browser'} \subseteq (procs \ {browser}) \cup {launched'} /\ IsFiniteSet(procs')
      BY <3>1, <3>2, FS_AddElement DEF ProcInv
    <3>4. /\ IsFiniteSet((procs \ {browser}) \cup {launched'})
          /\ Cardinality((procs \ {browser}) \cup {launched'}) <= Cardinality(procs \ {browser}) + 1
      <4>1. /\ IsFiniteSet((procs \ {browser}) \cup {launched'})
            /\ Cardinality((procs \ {browser}) \cup {launched'})
                 \in {Cardinality(procs \ {browser}), Cardinality(procs \ {browser}) + 1}
        BY <2>3, FS_AddElement
      <4> QED BY <2>3, <4>1
    <3>5. /\ Cardinality(procs' \ {browser'}) <= Cardinality((procs \ {browser}) \cup {launched'})
          /\ Cardinality(procs' \ {browser'}) \in Nat
          /\ Cardinality((procs \ {browser}) \cup {launched'}) \in Nat
      BY <3>3, <3>4, FS_Subset, FS_CardinalityType
    <3> QED BY <2>1, <2>2, <2>3, <3>3, <3>4, <3>5 DEF ProcInv
  <2> QED BY <2>4, <2>5
<1> QED BY <1>1, <1>2

\* A Chromium that dies was the one the session knows.
LEMMA DeathKeeps == ASSUME Inv, ChromiumDies PROVE Inv'
<1>1. procs' = procs \ {browser} /\ browser' = browser /\ contexts' \subseteq contexts
      /\ UNCHANGED <<run, pc, lock, preflight, cut, failed>>
  BY DEF ChromiumDies
<1>2. procs' \ {browser'} = procs \ {browser} /\ IsFiniteSet(procs')
  BY <1>1, FS_RemoveElement DEF Inv, ProcInv
<1> QED BY <1>1, <1>2 DEF Inv, LockInv, ContextInv, CutInv, ProcInv, Steps, Holding

-----------------------------------------------------------------------------
\* What happens between the opening and the closing of a run's page loses nothing.
LEMMA WorkKeeps ==
  ASSUME Inv, pc \in Holding, pc' \in Holding, UNCHANGED <<run, cut, chromium, lock, preflight>>
  PROVE  Inv'
BY DEF Inv, LockInv, ContextInv, CutInv, ProcInv, chromium, Holding, Steps

LEMMA OpenStepKeeps == ASSUME Inv, OpenStep PROVE Inv'
<1>1. CASE Begins
  <2>1. pc = "ended" /\ pc' = "needs" /\ run' = run + 1 /\ UNCHANGED <<cut, chromium, lock, preflight>>
    BY <1>1 DEF Begins
  <2>2. LockInv' /\ ProcInv'
    BY <2>1 DEF Inv, LockInv, ProcInv, chromium, Holding, Steps
  <2>3. ContextInv'
    BY <2>1 DEF Inv, ContextInv, chromium, Holding
  <2>4. cut' = cut /\ run \in Nat /\ cut \subseteq 0..run
    BY <2>1 DEF Inv, CutInv
  <2>5. CutInv'
    BY <2>1, <2>4 DEF CutInv
  <2> QED BY <2>2, <2>3, <2>5 DEF Inv
<1>2. CASE RunEnsures
  <2>1. /\ pc = "needs" /\ lock = "free" /\ UNCHANGED <<run, cut, chromium, preflight>>
        /\ \/ pc' = "opening" /\ lock' = lock
           \/ pc' = "launching" /\ lock' = "run" /\ browser \notin procs
    BY <1>2 DEF RunEnsures, At, Free, Connected, Goto
  <2>2. LockInv'
    BY <2>1 DEF Inv, LockInv, chromium, Holding, Steps
  <2> QED BY <2>1, <2>2 DEF Inv, ContextInv, CutInv, ProcInv, chromium, Holding
<1>3. CASE PreflightEnsures
  <2>1. /\ lock = "free" /\ preflight' = "launching" /\ lock' = "preflight" /\ browser \notin procs
        /\ UNCHANGED <<run, pc, cut, chromium>>
    BY <1>3 DEF PreflightEnsures, Free, Connected
  <2>2. LockInv'
    BY <2>1 DEF Inv, LockInv, chromium, Holding, Steps
  <2> QED BY <2>1, <2>2 DEF Inv, ContextInv, CutInv, ProcInv, chromium, Holding
<1>4. CASE RunLaunches
  <2>1. /\ pc = "launching" /\ lock' = "free" /\ preflight' = preflight /\ browser \notin procs
        /\ UNCHANGED <<run, cut>> /\ pc' \in {"opening", "ended"}
    BY <1>4 DEF RunLaunches, At, Goto, Inv, LockInv
  <2>2. ProcInv' /\ contexts' = contexts /\ failed' = failed
    BY <1>4, <2>1, LaunchKeeps DEF RunLaunches, chromium, Inv, ProcInv
  <2> QED BY <2>1, <2>2 DEF Inv, LockInv, ContextInv, CutInv, Holding, Steps
<1>5. CASE PreflightLaunches
  <2>1. /\ preflight = "launching" /\ preflight' = "idle" /\ lock' = "free" /\ browser \notin procs
        /\ UNCHANGED <<run, pc, cut>>
    BY <1>5 DEF PreflightLaunches, Inv, LockInv
  <2>2. ProcInv' /\ contexts' = contexts /\ failed' = failed
    BY <1>5, <2>1, LaunchKeeps DEF PreflightLaunches, chromium, Inv, ProcInv
  <2> QED BY <2>1, <2>2 DEF Inv, LockInv, ContextInv, CutInv, Holding, Steps
<1>6. CASE Opens \/ OpenFails
  <2>1. /\ pc = "opening" /\ pc' \in {"going", "ended"} /\ UNCHANGED <<run, cut, procs, browser, lock, preflight>>
        /\ \/ contexts' = contexts /\ failed' = failed
           \/ /\ contexts' = contexts \cup {<<run, browser>>}
              /\ (pc' = "going" /\ failed' = failed) \/ failed' = failed \cup {run}
    BY <1>6 DEF Opens, OpenFails, Own, At, Goto
  <2>2. ContextInv'
    BY <2>1 DEF Inv, ContextInv, Holding
  <2> QED BY <2>1, <2>2 DEF Inv, LockInv, CutInv, ProcInv, Holding, Steps
<1>7. CASE ChromiumDies
  BY <1>7, DeathKeeps
<1> QED BY <1>1, <1>2, <1>3, <1>4, <1>5, <1>6, <1>7 DEF OpenStep

LEMMA EndStepKeeps == ASSUME Inv, EndStep PROVE Inv'
<1>1. CASE TimesOut
  BY <1>1, WorkKeeps DEF TimesOut, Timed, Finish, Goto, Holding
<1>2. CASE IsCancelled
  BY <1>2 DEF IsCancelled, chromium, Inv, LockInv, ContextInv, CutInv, ProcInv, Holding, Steps
<1>3. CASE CutWorking
  BY <1>3, WorkKeeps DEF CutWorking, Holding
<1>4. CASE CutOpening
  <2>1. /\ pc \in {"needs", "launching", "opening"} /\ pc' = "ended" /\ run' = run /\ preflight' = preflight
        /\ lock' = IF pc = "launching" THEN "free" ELSE lock
        /\ cut' = IF pc = "needs" THEN cut ELSE cut \cup {run}
    BY <1>4 DEF CutOpening
  <2>2. ProcInv'
    BY <1>4, CutKeeps DEF CutOpening, Inv
  <2>3. ContextInv'
    <3>1. /\ contexts' = contexts \/ (pc = "opening" /\ contexts' = contexts \cup {<<run, browser>>})
          /\ failed' = failed
      BY <1>4 DEF CutOpening, chromium, Own
    <3> QED BY <2>1, <3>1 DEF Inv, ContextInv, Holding
  <2>4. LockInv'
    <3>1. lock' # "free" => procs' = procs /\ browser' = browser
      BY <1>4, <2>1 DEF CutOpening, chromium, Inv, LockInv
    <3> QED BY <2>1, <3>1 DEF Inv, LockInv, Steps, Holding
  <2> QED BY <2>1, <2>2, <2>3, <2>4 DEF Inv, CutInv
<1>5. CASE Closes
  <2>1. /\ pc = "closing" /\ pc' = "ended"
        /\ \/ contexts' = {c \in contexts : c[1] # run} /\ failed' = failed
           \/ contexts' = contexts /\ failed' = failed \cup {run}
        /\ UNCHANGED <<run, cut, procs, browser, lock, preflight>>
    BY <1>5 DEF Closes, At, Goto, Closed
  <2>2. ContextInv'
    BY <2>1 DEF Inv, ContextInv
  <2> QED BY <2>1, <2>2 DEF Inv, LockInv, CutInv, ProcInv, Holding, Steps
<1>6. CASE CutClosing
  <2>1. /\ pc = "closing" /\ pc' = "ended" /\ cut' = cut \cup {run} /\ contexts' \subseteq contexts
        /\ UNCHANGED <<run, procs, browser, failed, lock, preflight>>
    BY <1>6 DEF CutClosing, Closed
  <2>2. ProcInv'
    <3>1. IsFiniteSet(cut') /\ Cardinality(cut) <= Cardinality(cut')
      BY <2>1, FS_AddElement, FS_Subset DEF Inv, ProcInv
    <3>2. Cardinality(cut) \in Nat /\ Cardinality(cut') \in Nat
      BY <3>1, FS_CardinalityType DEF Inv, ProcInv
    <3>3. Cardinality(procs \ {browser}) \in Nat
      BY FS_RemoveElement, FS_CardinalityType DEF Inv, ProcInv
    <3> QED BY <2>1, <3>1, <3>2, <3>3 DEF Inv, ProcInv
  <2>3. ContextInv'
    BY <2>1 DEF Inv, ContextInv
  <2> QED BY <2>1, <2>2, <2>3 DEF Inv, LockInv, CutInv, Holding, Steps
<1> QED BY <1>1, <1>2, <1>3, <1>4, <1>5, <1>6 DEF EndStep

LEMMA TalkAndCallsKeep == ASSUME Inv, TalkStep \/ CallStep PROVE Inv'
<1>1. /\ pc \in Holding /\ pc' \in Holding /\ UNCHANGED <<run, cut, chromium, lock, preflight>>
  <2>1. CASE Started \/ Acted \/ TurnDone \/ CallActs
    BY <2>1 DEF Started, Acted, TurnDone, CallActs, At, Goto, Holding
  <2>2. CASE Reports \/ ModelFails \/ CallLimited \/ CallStops \/ PageFails
    BY <2>2 DEF Reports, ModelFails, CallLimited, CallStops, PageFails, Finish, At, Goto, Holding
  <2>3. CASE Calls
    BY <2>3 DEF Calls, Finish, At, Goto, Holding
  <2>4. CASE CallBlocked
    BY <2>4 DEF CallBlocked, At, Holding
  <2> QED BY <2>1, <2>2, <2>3, <2>4 DEF TalkStep, CallStep
<1> QED BY <1>1, WorkKeeps

\* What is left behind never exceeds what was cut off.
THEOREM RunInvariant == Spec => []Inv
<1>1. Init => Inv
  <2> SUFFICES ASSUME Init PROVE Inv
    OBVIOUS
  <2>1. IsFiniteSet({}) /\ Cardinality({}) = 0 /\ procs \ {browser} = {} /\ procs = {} /\ cut = {}
    BY FS_EmptySet DEF Init
  <2>2. ProcInv
    BY <2>1 DEF ProcInv
  <2> QED BY <2>2 DEF Init, Inv, LockInv, ContextInv, CutInv, Holding, Steps
<1>2. Inv /\ [Next]_vars => Inv'
  <2> SUFFICES ASSUME Inv, [Next]_vars PROVE Inv'
    OBVIOUS
  <2>1. CASE UNCHANGED vars
    BY <2>1 DEF vars, chromium, Inv, LockInv, ContextInv, CutInv, ProcInv, Holding, Steps
  <2> QED BY <2>1, OpenStepKeeps, TalkAndCallsKeep, EndStepKeeps DEF Next
<1> QED BY <1>1, <1>2, PTL DEF Spec

\* "a fresh BrowserContext (no cookies/storage carried over)" and "One warm Chromium shared by runs"
\* (browser.py:8, 38), but for runs cut off while their page opened or closed, however many.
THEOREM RunsLeaveNothing == Spec => []NothingLeaks
<1>1. Inv => NothingLeaks
  BY DEF Inv, ContextInv, ProcInv, NothingLeaks, Holding
<1> QED BY <1>1, RunInvariant, PTL

-----------------------------------------------------------------------------
(* The conversation: which screenshots are in it. *)

Part == [shot : BOOLEAN, error : BOOLEAN]
ModelTurn == [role : {"model"}, parts : Seq(Call)]
UserTurn == [role : {"user"}, parts : Seq(Part)]
TurnSet == ModelTurn \cup UserTurn

\* Finitely many finite sets have a finite union.
LEMMA FiniteUnion ==
  ASSUME NEW n \in Nat, NEW f, \A j \in 1..n : IsFiniteSet(f[j])
  PROVE  IsFiniteSet(UNION {f[j] : j \in 1..n})
<1> DEFINE T == {f[j] : j \in 1..n}
           g == [j \in 1..n |-> f[j]]
<1>1. IsFiniteSet(1..n)
  BY 1 \in Int, n \in Int, FS_Interval
<1>2. g \in Surjection(1..n, T)
  BY DEF Surjection
<1>3. IsFiniteSet(T)
  BY <1>1, <1>2, FS_Surjection
<1> QED BY <1>3, FS_UNION

\* What TakenAfter and ShotsAfter hold, without their comprehensions.
LEMMA TakenMembers ==
  ASSUME NEW h, NEW i, NEW k, NEW x
  PROVE  x \in TakenAfter(h, i, k) <=>
           \E j \in DOMAIN h : \E m \in DOMAIN h[j].parts :
             x = <<j, m>> /\ Taken(h, j, m) /\ (j > i \/ (j = i /\ m > k))
BY DEF TakenAfter

LEMMA ShotMembers ==
  ASSUME NEW h, NEW i, NEW k, NEW x
  PROVE  x \in ShotsAfter(h, i, k) <=>
           \E j \in DOMAIN h : h[j].role = "user" /\ \E m \in DOMAIN h[j].parts :
             x = <<j, m>> /\ h[j].parts[m].shot /\ (j > i \/ (j = i /\ m > k))
BY DEF ShotsAfter

\* What was taken in one conversation and in another, too.
LEMMA TakenMonotone ==
  ASSUME NEW g, NEW h, NEW i, NEW k,
         \A j \in DOMAIN g : \A m \in DOMAIN g[j].parts : Taken(g, j, m) =>
             j \in DOMAIN h /\ m \in DOMAIN h[j].parts /\ Taken(h, j, m)
  PROVE  TakenAfter(g, i, k) \subseteq TakenAfter(h, i, k)
<1> SUFFICES ASSUME NEW x \in TakenAfter(g, i, k) PROVE x \in TakenAfter(h, i, k)
  OBVIOUS
<1>1. PICK j \in DOMAIN g : \E m \in DOMAIN g[j].parts :
        x = <<j, m>> /\ Taken(g, j, m) /\ (j > i \/ (j = i /\ m > k))
  BY TakenMembers
<1>2. PICK m \in DOMAIN g[j].parts :
        x = <<j, m>> /\ Taken(g, j, m) /\ (j > i \/ (j = i /\ m > k))
  BY <1>1
<1>3. j \in DOMAIN h /\ m \in DOMAIN h[j].parts /\ Taken(h, j, m)
  BY <1>2
<1> QED BY <1>2, <1>3, TakenMembers

\* A conversation has finitely many screenshots.
LEMMA TakenFinite ==
  ASSUME NEW h \in Seq(TurnSet), NEW i, NEW k PROVE IsFiniteSet(TakenAfter(h, i, k))
<1> DEFINE Of(j) == {m \in DOMAIN h[j].parts : Taken(h, j, m) /\ (j > i \/ (j = i /\ m > k))}
           f == [j \in 1..Len(h) |-> {j} \X Of(j)]
<1>1. ASSUME NEW j \in 1..Len(h) PROVE IsFiniteSet(f[j])
  <2>1. DOMAIN h[j].parts = 1..Len(h[j].parts) /\ Len(h[j].parts) \in Nat
    BY DEF TurnSet, ModelTurn, UserTurn
  <2>2. IsFiniteSet(Of(j))
    <3>1. IsFiniteSet(1..Len(h[j].parts))
      BY <2>1, 1 \in Int, Len(h[j].parts) \in Int, FS_Interval
    <3>2. Of(j) \in SUBSET (1..Len(h[j].parts))
      BY <2>1
    <3> HIDE DEF Of
    <3> QED BY <3>1, <3>2, FS_Subset
  <2>3. IsFiniteSet({j} \X Of(j))
    BY <2>2, FS_Singleton, FS_Product
  <2> QED BY <2>3
<1>2. Len(h) \in Nat
  OBVIOUS
<1>3. IsFiniteSet(UNION {f[j] : j \in 1..Len(h)})
  <2> HIDE DEF f
  <2> QED BY <1>1, <1>2, FiniteUnion
<1>4. TakenAfter(h, i, k) = UNION {f[j] : j \in 1..Len(h)}
  BY DEF TakenAfter
<1> QED BY <1>3, <1>4

\* What pruning leaves as it is, and what it makes of a screenshot.
LEMMA PrunedTurns ==
  ASSUME NEW h \in Seq(TurnSet)
  PROVE  /\ Pruned(h) \in Seq(TurnSet) /\ Len(Pruned(h)) = Len(h)
         /\ \A i \in 1..Len(h) :
              /\ Pruned(h)[i].role = h[i].role
              /\ h[i].role = "model" => Pruned(h)[i] = h[i]
              /\ Len(Pruned(h)[i].parts) = Len(h[i].parts) /\ DOMAIN Pruned(h)[i].parts = DOMAIN h[i].parts
              /\ h[i].role = "user" => \A k \in DOMAIN h[i].parts :
                   /\ Pruned(h)[i].parts[k].error = h[i].parts[k].error
                   /\ Pruned(h)[i].parts[k].shot
                        <=> h[i].parts[k].shot /\ Cardinality(ShotsAfter(h, i, k)) < Keep
<1> DEFINE p == Pruned(h)
<1>1. ASSUME NEW i \in 1..Len(h)
      PROVE  /\ p[i] \in TurnSet /\ p[i].role = h[i].role
             /\ h[i].role = "model" => p[i] = h[i]
             /\ Len(p[i].parts) = Len(h[i].parts) /\ DOMAIN p[i].parts = DOMAIN h[i].parts
             /\ h[i].role = "user" => \A k \in DOMAIN h[i].parts :
                  /\ p[i].parts[k].error = h[i].parts[k].error
                  /\ p[i].parts[k].shot <=> h[i].parts[k].shot /\ Cardinality(ShotsAfter(h, i, k)) < Keep
  <2>1. CASE h[i].role = "model"
    BY <2>1 DEF Pruned, TurnSet, ModelTurn, UserTurn
  <2>2. CASE h[i].role # "model"
    <3> DEFINE few(k) == Cardinality(ShotsAfter(h, i, k)) < Keep
               parts == [k \in DOMAIN h[i].parts |-> [h[i].parts[k] EXCEPT !.shot = @ /\ few(k)]]
    <3>1. h[i] \in UserTurn /\ h[i].parts \in Seq(Part)
      BY <2>2 DEF TurnSet, ModelTurn, UserTurn
    <3>2. p[i] = [role |-> "user", parts |-> parts]
      <4>1. i \in DOMAIN h
        OBVIOUS
      <4> QED BY <2>2, <4>1, Zenon DEF Pruned, Turn
    <3> HIDE DEF few
    <3>3. ASSUME NEW k \in DOMAIN h[i].parts
          PROVE  /\ parts[k] \in Part /\ parts[k].error = h[i].parts[k].error
                 /\ parts[k].shot <=> h[i].parts[k].shot /\ few(k)
      <4>1. h[i].parts[k] \in Part
        BY <3>1
      <4> QED BY <4>1 DEF Part
    <3>4. parts \in Seq(Part) /\ Len(parts) = Len(h[i].parts) /\ DOMAIN parts = DOMAIN h[i].parts
      <4>1. DOMAIN h[i].parts = 1..Len(h[i].parts) /\ Len(h[i].parts) \in Nat
        BY <3>1
      <4> HIDE DEF Part
      <4>2. parts \in [1..Len(h[i].parts) -> Part]
        BY <3>3, <4>1
      <4> HIDE DEF parts
      <4> QED BY <4>1, <4>2
    <3> HIDE DEF parts
    <3>5. p[i] \in UserTurn
      BY <3>2, <3>4 DEF UserTurn
    <3>6. h[i].role = "user"
      BY <3>1 DEF UserTurn
    <3> QED BY <2>2, <3>2, <3>3, <3>4, <3>5, <3>6 DEF TurnSet, few
  <2> QED BY <2>1, <2>2
<1>2. p \in Seq(TurnSet) /\ Len(p) = Len(h)
  <2>1. DOMAIN h = 1..Len(h) /\ Len(h) \in Nat
    OBVIOUS
  <2>2. p = [i \in 1..Len(h) |-> p[i]]
    BY <2>1 DEF Pruned
  <2>3. p \in [1..Len(h) -> TurnSet]
    BY <1>1, <2>2
  <2> HIDE DEF p
  <2> QED BY <2>1, <2>3
<1> QED BY <1>1, <1>2

\* The screenshots are the newest Keep of those that were taken.
ShotsRight(h) ==
    \A i \in 1..Len(h) : h[i].role = "user" =>
        \A k \in DOMAIN h[i].parts :
            h[i].parts[k].shot <=> Taken(h, i, k) /\ Cardinality(TakenAfter(h, i, k)) < Keep

\* A user turn answers a model turn.
UserAnswers(h) == \A i \in 2..Len(h) : h[i].role = "user" => h[i - 1].role = "model"

\* A screenshot that an earlier asking has dropped was followed by Keep newer ones, and so is every
\* screenshot before it: counting those that are left or those that were taken comes to the same.
LEMMA PruneKeepsNewest ==
  ASSUME NEW old \in Seq(TurnSet), NEW u \in UserTurn, NEW h \in Seq(TurnSet),
         Len(h) = Len(old) + 1, \A i \in 1..Len(old) : h[i] = old[i], h[Len(h)] = u,
         ShotsRight(old), UserAnswers(h),
         \A k \in DOMAIN u.parts : u.parts[k].shot <=> Taken(h, Len(h), k)
  PROVE  ShotsRight(Pruned(h))
<1>1. /\ h \in Seq(TurnSet) /\ Len(h) = Len(old) + 1 /\ Len(old) \in Nat
      /\ \A i \in 1..Len(old) : h[i] = old[i]
      /\ h[Len(h)] = u
  OBVIOUS
<1>2. \A i \in 1..Len(old) : \A k : Taken(h, i, k) <=> Taken(old, i, k)
  <2>1. ASSUME NEW i \in 1..Len(old), i > 1 PROVE h[i - 1] = old[i - 1]
    BY <1>1, <2>1
  <2> QED BY <1>1, <2>1 DEF Taken
<1>3. ASSUME NEW i, NEW k PROVE TakenAfter(old, i, k) \subseteq TakenAfter(h, i, k)
  <2>1. DOMAIN old = 1..Len(old) /\ DOMAIN old \subseteq DOMAIN h
    BY <1>1
  <2> QED BY <1>1, <1>2, <2>1, TakenMonotone
<1>4. ASSUME NEW i \in 1..Len(h), h[i].role = "user", NEW k \in DOMAIN h[i].parts
      PROVE  /\ h[i].parts[k].shot => Taken(h, i, k)
             /\ i > Len(old) => (h[i].parts[k].shot <=> Taken(h, i, k))
             /\ i <= Len(old) => (h[i].parts[k].shot
                                    <=> Taken(h, i, k) /\ Cardinality(TakenAfter(old, i, k)) < Keep)
  <2>1. CASE i > Len(old)
    <3>1. i = Len(h)
      BY <1>1, <2>1
    <3> QED BY <1>1, <1>4, <2>1, <3>1
  <2>2. CASE i <= Len(old)
    <3>1. i \in 1..Len(old) /\ h[i] = old[i]
      BY <1>1, <2>2
    <3> QED BY <1>1, <1>2, <1>4, <2>2, <3>1 DEF ShotsRight
  <2> QED BY <1>1, <2>1, <2>2
<1>5. ASSUME NEW i, NEW k PROVE ShotsAfter(h, i, k) \subseteq TakenAfter(h, i, k)
  <2> SUFFICES ASSUME NEW x \in ShotsAfter(h, i, k) PROVE x \in TakenAfter(h, i, k)
    OBVIOUS
  <2>1. PICK j \in DOMAIN h : h[j].role = "user" /\ \E m \in DOMAIN h[j].parts :
          x = <<j, m>> /\ h[j].parts[m].shot /\ (j > i \/ (j = i /\ m > k))
    BY ShotMembers
  <2>2. PICK m \in DOMAIN h[j].parts :
          x = <<j, m>> /\ h[j].parts[m].shot /\ (j > i \/ (j = i /\ m > k))
    BY <2>1
  <2>3. j \in 1..Len(h)
    BY <1>1
  <2>4. Taken(h, j, m)
    BY <1>4, <2>1, <2>2, <2>3
  <2> QED BY <2>2, <2>4, TakenMembers
<1>6. ASSUME NEW i, NEW k, NEW x \in TakenAfter(h, i, k)
       PROVE  \E j \in DOMAIN h : \E m \in DOMAIN h[j].parts :
                x = <<j, m>> /\ Taken(h, j, m) /\ (j > i \/ (j = i /\ m > k))
  BY TakenMembers
<1>7. ASSUME NEW i, NEW k
      PROVE  /\ IsFiniteSet(TakenAfter(h, i, k)) /\ IsFiniteSet(TakenAfter(old, i, k))
             /\ Cardinality(TakenAfter(h, i, k)) \in Nat /\ Cardinality(TakenAfter(old, i, k)) \in Nat
             /\ Cardinality(ShotsAfter(h, i, k)) \in Nat
             /\ Cardinality(TakenAfter(old, i, k)) <= Cardinality(TakenAfter(h, i, k))
             /\ Cardinality(ShotsAfter(h, i, k)) <= Cardinality(TakenAfter(h, i, k))
  <2>1. IsFiniteSet(TakenAfter(h, i, k)) /\ IsFiniteSet(TakenAfter(old, i, k))
    BY <1>1, TakenFinite
  <2>2. TakenAfter(old, i, k) \in SUBSET TakenAfter(h, i, k)
    BY <1>3
  <2>3. ShotsAfter(h, i, k) \in SUBSET TakenAfter(h, i, k)
    BY <1>5
  <2>4. /\ IsFiniteSet(ShotsAfter(h, i, k))
        /\ Cardinality(ShotsAfter(h, i, k)) <= Cardinality(TakenAfter(h, i, k))
    BY <2>1, <2>3, FS_Subset
  <2>5. Cardinality(TakenAfter(old, i, k)) <= Cardinality(TakenAfter(h, i, k))
    BY <2>1, <2>2, FS_Subset
  <2> QED BY <2>1, <2>4, <2>5, FS_CardinalityType
<1>8. Keep \in Nat
  BY QARunAssumption
<1>9. ASSUME NEW i \in 1..Len(h), h[i].role = "user", NEW k \in DOMAIN h[i].parts
      PROVE  Pruned(h)[i].parts[k].shot <=> Taken(h, i, k) /\ Cardinality(TakenAfter(h, i, k)) < Keep
  <2>1. Pruned(h)[i].parts[k].shot <=> h[i].parts[k].shot /\ Cardinality(ShotsAfter(h, i, k)) < Keep
    BY <1>1, <1>9, PrunedTurns
  <2>2. CASE Taken(h, i, k) /\ Cardinality(TakenAfter(h, i, k)) < Keep
    <3>1. Cardinality(ShotsAfter(h, i, k)) < Keep /\ Cardinality(TakenAfter(old, i, k)) < Keep
      BY <1>7, <1>8, <2>2
    <3>2. i > Len(old) \/ i <= Len(old)
      BY <1>1
    <3> QED BY <1>4, <1>9, <2>1, <2>2, <3>1, <3>2
  <2>3. CASE h[i].parts[k].shot /\ Cardinality(ShotsAfter(h, i, k)) < Keep
    <3>1. TakenAfter(h, i, k) \subseteq ShotsAfter(h, i, k)
      <4>0. SUFFICES ASSUME NEW x, x \in TakenAfter(h, i, k), x \notin ShotsAfter(h, i, k) PROVE FALSE
        OBVIOUS
      <4>1. PICK j \in DOMAIN h : \E m \in DOMAIN h[j].parts :
              x = <<j, m>> /\ Taken(h, j, m) /\ (j > i \/ (j = i /\ m > k))
        BY <4>0, <1>6
      <4>2. PICK m \in DOMAIN h[j].parts :
              x = <<j, m>> /\ Taken(h, j, m) /\ (j > i \/ (j = i /\ m > k))
        BY <4>1
      <4>3. h[j].role = "user" /\ j \in 1..Len(h)
        BY <1>1, <4>2 DEF Taken
      <4>4. ~h[j].parts[m].shot
        BY <4>0, <4>2, <4>3, ShotMembers
      <4>5. j <= Len(old) /\ ~(Cardinality(TakenAfter(old, j, m)) < Keep)
        <5>1. j > Len(old) \/ j <= Len(old)
          BY <1>1, <4>3
        <5> QED BY <1>4, <4>2, <4>3, <4>4, <5>1
      <4>6. i <= Len(old)
        BY <1>1, <4>2, <4>3, <4>5
      <4>7. Cardinality(TakenAfter(old, i, k)) < Keep
        BY <1>4, <1>9, <2>3, <4>6
      <4>8. m \in Nat /\ k \in Nat
        <5>1. h[i] \in TurnSet /\ h[j] \in TurnSet
          BY <1>1, <4>3
        <5>2. DOMAIN h[i].parts \subseteq Nat /\ DOMAIN h[j].parts \subseteq Nat
          BY <5>1 DEF TurnSet, ModelTurn, UserTurn
        <5> QED BY <1>9, <4>2, <5>2
      <4>9. TakenAfter(old, j, m) \subseteq TakenAfter(old, i, k)
        <5> SUFFICES ASSUME NEW y \in TakenAfter(old, j, m) PROVE y \in TakenAfter(old, i, k)
          OBVIOUS
        <5>1. PICK a \in DOMAIN old : \E b \in DOMAIN old[a].parts :
                y = <<a, b>> /\ Taken(old, a, b) /\ (a > j \/ (a = j /\ b > m))
          BY TakenMembers
        <5>2. PICK b \in DOMAIN old[a].parts :
                y = <<a, b>> /\ Taken(old, a, b) /\ (a > j \/ (a = j /\ b > m))
          BY <5>1
        <5>3. a \in Nat /\ b \in Nat
          <6>1. old[a] \in TurnSet /\ a \in Nat
            OBVIOUS
          <6>2. DOMAIN old[a].parts \subseteq Nat
            BY <6>1 DEF TurnSet, ModelTurn, UserTurn
          <6> QED BY <6>1, <6>2
        <5>4. a > i \/ (a = i /\ b > k)
          BY <4>2, <4>3, <4>8, <5>2, <5>3
        <5> QED BY <5>2, <5>4, TakenMembers
      <4>10. Cardinality(TakenAfter(old, j, m)) <= Cardinality(TakenAfter(old, i, k))
        BY <1>7, <4>9, FS_Subset
      <4>11. Cardinality(TakenAfter(old, j, m)) \in Nat /\ Cardinality(TakenAfter(old, i, k)) \in Nat
        BY <1>7
      <4> QED BY <1>8, <4>5, <4>7, <4>10, <4>11
    <3>2. TakenAfter(h, i, k) = ShotsAfter(h, i, k)
      BY <1>5, <3>1
    <3> QED BY <1>4, <1>9, <2>1, <2>3, <3>2
  <2> QED BY <2>1, <2>2, <2>3
<1>10. \A i \in 1..Len(h) : \A k : h[i].role = "user" => (Taken(Pruned(h), i, k) <=> Taken(h, i, k))
  <2>1. ASSUME NEW i \in 1..Len(h), h[i].role = "user", i > 1 PROVE Pruned(h)[i - 1] = h[i - 1]
    <3>1. i - 1 \in 1..Len(h) /\ i \in 2..Len(h)
      BY <1>1, <2>1
    <3>2. h[i - 1].role = "model"
      BY <2>1, <3>1 DEF UserAnswers
    <3> QED BY <1>1, <3>1, <3>2, PrunedTurns
  <2>2. \A i \in 1..Len(h) : Pruned(h)[i].role = h[i].role
    BY <1>1, PrunedTurns
  <2> QED BY <2>1, <2>2 DEF Taken
<1>11. ASSUME NEW i, NEW k PROVE TakenAfter(Pruned(h), i, k) = TakenAfter(h, i, k)
  <2>1. DOMAIN Pruned(h) = 1..Len(h) /\ DOMAIN h = 1..Len(h)
    <3>1. DOMAIN h = 1..Len(h)
      BY <1>1
    <3> QED BY <3>1 DEF Pruned
  <2>2. \A j \in 1..Len(h) : DOMAIN Pruned(h)[j].parts = DOMAIN h[j].parts /\ Pruned(h)[j].role = h[j].role
    BY <1>1, PrunedTurns
  <2>3. \A j \in 1..Len(h) : \A m : Taken(Pruned(h), j, m) <=> Taken(h, j, m)
    <3>1. ASSUME NEW j \in 1..Len(h), NEW m PROVE Taken(Pruned(h), j, m) <=> Taken(h, j, m)
      <4>1. CASE h[j].role = "user"
        BY <1>10, <3>1, <4>1
      <4>2. CASE h[j].role # "user"
        BY <2>2, <3>1, <4>2 DEF Taken
      <4> QED BY <4>1, <4>2
    <3> QED BY <3>1
  <2>4. TakenAfter(Pruned(h), i, k) \subseteq TakenAfter(h, i, k)
    BY <2>1, <2>2, <2>3, TakenMonotone
  <2>5. TakenAfter(h, i, k) \subseteq TakenAfter(Pruned(h), i, k)
    BY <2>1, <2>2, <2>3, TakenMonotone
  <2> QED BY <2>4, <2>5
<1> QED
  <2>1. /\ Len(Pruned(h)) = Len(h)
        /\ \A j \in 1..Len(h) : DOMAIN Pruned(h)[j].parts = DOMAIN h[j].parts /\ Pruned(h)[j].role = h[j].role
    BY <1>1, PrunedTurns
  <2> QED BY <1>9, <1>10, <1>11, <2>1 DEF ShotsRight

-----------------------------------------------------------------------------
(* The conversation: one answer for each call. *)

Alternates(h) == \A i \in 1..Len(h) : h[i].role = (IF i % 2 = 1 THEN "user" ELSE "model")

\* The calls of turn i are answered in the turn after it, each at its place.
Answered(h) ==
    \A i \in 1..Len(h) : h[i].role = "model" =>
        /\ i < Len(h) /\ Len(h[i + 1].parts) = Len(h[i].parts)
        /\ \A k \in DOMAIN h[i].parts : h[i + 1].parts[k].error = (h[i].parts[k].kind # "fine")

\* A conversation that the model can be asked about.
Fit(h) ==
    /\ h \in Seq(TurnSet) /\ Len(h) % 2 = 1
    /\ Alternates(h) /\ Answered(h) /\ ShotsRight(h)

\* What the outcomes say of the first calls of a reply.
Outcome(reply, done) ==
    /\ done \in Seq(Part) /\ Len(done) <= Len(reply)
    /\ \A k \in 1..Len(done) : /\ done[k].error = (reply[k].kind # "fine")
                               /\ done[k].shot = (Check(reply[k]) = "allow")

\* Turns alternate.
LEMMA Parity == ASSUME NEW n \in Nat PROVE n % 2 \in {0, 1} /\ (n + 1) % 2 = 1 - (n % 2)
OBVIOUS

\* The turn that answers a reply.
LEMMA AnswersFit ==
  ASSUME NEW old, Fit(old), NEW reply \in Seq(Call), NEW done, Outcome(reply, done), Len(done) = Len(reply)
  PROVE  Fit(Pruned(Append(Append(old, Turn("model", reply)), Turn("user", done))))
<1> DEFINE a == Turn("model", reply)
           u == Turn("user", done)
           mid == Append(old, a)
           h == Append(mid, u)
<1>1. /\ a \in TurnSet /\ a.role = "model" /\ a.parts = reply
      /\ u \in UserTurn /\ u \in TurnSet /\ u.role = "user" /\ u.parts = done
  BY DEF Turn, TurnSet, ModelTurn, UserTurn, Outcome
<1>2. old \in Seq(TurnSet) /\ Len(old) \in Nat /\ Len(old) % 2 = 1
  BY DEF Fit
<1> HIDE DEF a, u
<1>3. /\ mid \in Seq(TurnSet) /\ Len(mid) = Len(old) + 1 /\ mid[Len(old) + 1] = a
      /\ \A i \in 1..Len(old) : mid[i] = old[i]
  BY <1>1, <1>2
<1> HIDE DEF mid
<1>4. /\ h \in Seq(TurnSet) /\ Len(h) = Len(old) + 2 /\ h[Len(old) + 2] = u /\ h[Len(old) + 1] = a
      /\ Len(h) = Len(mid) + 1 /\ \A i \in 1..Len(mid) : h[i] = mid[i]
      /\ \A i \in 1..Len(old) : h[i] = old[i]
  BY <1>1, <1>2, <1>3
<1> HIDE DEF h
<1>5. ShotsRight(mid)
  <2>1. ASSUME NEW i \in 1..Len(mid), mid[i].role = "user" PROVE i \in 1..Len(old)
    BY <1>1, <1>2, <1>3, <2>1
  <2>2. ASSUME NEW i \in 1..Len(old), NEW k PROVE Taken(mid, i, k) <=> Taken(old, i, k)
    <3>1. i > 1 => mid[i - 1] = old[i - 1]
      BY <1>2, <1>3
    <3> QED BY <1>3, <3>1 DEF Taken
  <2>3. DOMAIN old = 1..Len(old) /\ DOMAIN mid = 1..Len(mid)
    BY <1>2, <1>3
  <2>4. ASSUME NEW i, NEW k PROVE TakenAfter(mid, i, k) = TakenAfter(old, i, k)
    <3>1. TakenAfter(old, i, k) \subseteq TakenAfter(mid, i, k)
      BY <1>2, <1>3, <2>2, <2>3, TakenMonotone
    <3>2. TakenAfter(mid, i, k) \subseteq TakenAfter(old, i, k)
      <4>1. ASSUME NEW j \in DOMAIN mid, NEW m \in DOMAIN mid[j].parts, Taken(mid, j, m)
            PROVE  j \in DOMAIN old /\ m \in DOMAIN old[j].parts /\ Taken(old, j, m)
        <5>1. j \in 1..Len(old)
          BY <2>1, <2>3, <4>1 DEF Taken
        <5> QED BY <1>3, <2>2, <2>3, <4>1, <5>1
      <4> QED BY <4>1, TakenMonotone
    <3> QED BY <3>1, <3>2
  <2> QED BY <1>3, <2>1, <2>2, <2>4 DEF Fit, ShotsRight
<1>6. Alternates(h) /\ Len(h) % 2 = 1
  <2>1. (Len(old) + 1) % 2 = 0 /\ (Len(old) + 2) % 2 = 1
    BY <1>2, Parity
  <2>2. ASSUME NEW i \in 1..Len(h) PROVE i \in 1..Len(old) \/ i = Len(old) + 1 \/ i = Len(old) + 2
    BY <1>2, <1>4
  <2> QED BY <1>1, <1>4, <2>1, <2>2 DEF Fit, Alternates
<1>7. UserAnswers(h)
  <2> SUFFICES ASSUME NEW i \in 2..Len(h), h[i].role = "user" PROVE h[i - 1].role = "model"
    BY DEF UserAnswers
  <2>1. i \in 1..Len(h) /\ i - 1 \in 1..Len(h) /\ i - 1 \in Nat /\ (i - 1) + 1 = i
    BY <1>2, <1>4
  <2>2. i % 2 = 1
    BY <1>6, <2>1 DEF Alternates
  <2>3. (i - 1) % 2 = 0
    BY <2>1, <2>2, Parity
  <2> QED BY <1>6, <2>1, <2>3 DEF Alternates
<1>8. ShotsRight(Pruned(h))
  <2>1. \A k \in DOMAIN u.parts : u.parts[k].shot <=> Taken(h, Len(h), k)
    <3>1. DOMAIN done = 1..Len(done)
      BY DEF Outcome
    <3>2. Len(h) > 1 /\ Len(h) - 1 = Len(old) + 1
      BY <1>2, <1>4
    <3>3. h[Len(h)] = u /\ h[Len(h) - 1] = a
      BY <1>4, <3>2
    <3>4. \A k : Taken(h, Len(h), k) <=> Check(reply[k]) = "allow"
      BY <1>1, <3>2, <3>3 DEF Taken
    <3>5. ASSUME NEW k \in 1..Len(done) PROVE done[k].shot <=> Check(reply[k]) = "allow"
      <4>1. done[k] \in Part
        BY DEF Outcome
      <4>2. done[k].shot = (Check(reply[k]) = "allow")
        BY DEF Outcome
      <4> QED BY <4>2
    <3> QED BY <1>1, <3>1, <3>4, <3>5
  <2> QED BY <1>1, <1>3, <1>4, <1>5, <1>7, <2>1, PruneKeepsNewest
<1>9. Answered(h)
  <2> SUFFICES ASSUME NEW i \in 1..Len(h), h[i].role = "model"
               PROVE  /\ i < Len(h) /\ Len(h[i + 1].parts) = Len(h[i].parts)
                      /\ \A k \in DOMAIN h[i].parts : h[i + 1].parts[k].error = (h[i].parts[k].kind # "fine")
    BY DEF Answered
  <2>1. CASE i \in 1..Len(old)
    <3>1. i < Len(old)
      BY <1>4, <2>1 DEF Fit, Answered
    <3>2. i + 1 \in 1..Len(old)
      BY <1>2, <2>1, <3>1
    <3>3. h[i] = old[i] /\ h[i + 1] = old[i + 1] /\ i < Len(h)
      BY <1>2, <1>4, <2>1, <3>1, <3>2
    <3>4. old[i].role = "model" /\ Answered(old)
      BY <3>3 DEF Fit
    <3> QED BY <2>1, <3>3, <3>4 DEF Answered
  <2>2. CASE i = Len(old) + 1
    <3>1. i + 1 = Len(old) + 2 /\ i < Len(h) /\ DOMAIN reply = 1..Len(reply)
      BY <1>2, <1>4, <2>2
    <3>2. h[i].parts = reply /\ h[i + 1].parts = done
      BY <1>1, <1>4, <2>2, <3>1
    <3>3. \A k \in 1..Len(done) : done[k].error = (reply[k].kind # "fine")
      BY DEF Outcome
    <3> QED BY <3>1, <3>2, <3>3
  <2> QED BY <1>1, <1>2, <1>4, <2>1, <2>2
<1>10. Fit(Pruned(h))
  <2>1. Alternates(Pruned(h)) /\ Len(Pruned(h)) % 2 = 1 /\ Pruned(h) \in Seq(TurnSet)
    BY <1>4, <1>6, PrunedTurns DEF Alternates
  <2>2. Answered(Pruned(h))
    <3> SUFFICES ASSUME NEW i \in 1..Len(h), Pruned(h)[i].role = "model"
                 PROVE  /\ i < Len(h) /\ Len(Pruned(h)[i + 1].parts) = Len(Pruned(h)[i].parts)
                        /\ \A k \in DOMAIN Pruned(h)[i].parts :
                              Pruned(h)[i + 1].parts[k].error = (Pruned(h)[i].parts[k].kind # "fine")
      <4>1. Len(Pruned(h)) = Len(h)
        BY <1>4, PrunedTurns
      <4> QED BY <4>1, Zenon DEF Answered
    <3>1. h[i].role = "model" /\ Pruned(h)[i] = h[i]
      <4>1. Pruned(h)[i].role = h[i].role /\ (h[i].role = "model" => Pruned(h)[i] = h[i])
        BY <1>4, PrunedTurns
      <4> QED BY <4>1
    <3>2. i < Len(h) /\ i + 1 \in 1..Len(h)
      BY <1>4, <1>9, <3>1 DEF Answered
    <3>3. i % 2 = 0 /\ (i + 1) % 2 = 1
      BY <1>6, <3>1, Parity DEF Alternates
    <3>4. h[i + 1].role = "user"
      BY <1>6, <3>2, <3>3 DEF Alternates
    <3>5. h[i] \in ModelTurn /\ h[i + 1] \in UserTurn
      BY <1>4, <3>1, <3>2, <3>4 DEF TurnSet, ModelTurn, UserTurn
    <3>6. Len(h[i + 1].parts) = Len(h[i].parts) /\ DOMAIN h[i + 1].parts = DOMAIN h[i].parts
      BY <1>9, <3>1, <3>5 DEF Answered, ModelTurn, UserTurn
    <3>7. /\ Len(Pruned(h)[i + 1].parts) = Len(h[i + 1].parts)
          /\ \A k \in DOMAIN h[i + 1].parts : Pruned(h)[i + 1].parts[k].error = h[i + 1].parts[k].error
      BY <1>4, <3>2, <3>4, PrunedTurns
    <3>8. \A k \in DOMAIN h[i].parts : h[i + 1].parts[k].error = (h[i].parts[k].kind # "fine")
      BY <1>9, <3>1 DEF Answered
    <3> QED BY <3>1, <3>2, <3>6, <3>7, <3>8
  <2> QED BY <1>8, <2>1, <2>2 DEF Fit
<1> QED BY <1>10 DEF h, mid, a, u

\* The page at the start URL is the first thing the model is shown.
LEMMA StartFits == Fit(Asked(<<Turn("user", <<Shot(FALSE)>>)>>, <<>>))
<1> DEFINE u == Turn("user", <<Shot(FALSE)>>)
           h == <<u>>
<1>1. u \in UserTurn /\ u \in TurnSet /\ u.role = "user" /\ \A k \in DOMAIN u.parts : u.parts[k].shot
  BY DEF Turn, Shot, TurnSet, UserTurn, Part
<1> HIDE DEF u
<1>2. h \in Seq(TurnSet) /\ Len(h) = 1 /\ h[1] = u
  BY <1>1
<1> HIDE DEF h
<1>3. \A k : Taken(h, 1, k)
  BY <1>1, <1>2 DEF Taken
<1>4. PICK old \in Seq(TurnSet) : Len(old) = 0
  <2>1. <<>> \in Seq(TurnSet) /\ Len(<<>>) = 0
    OBVIOUS
  <2> QED BY <2>1
<1>5. ShotsRight(old) /\ UserAnswers(h)
  BY <1>2, <1>4 DEF ShotsRight, UserAnswers
<1>6. ShotsRight(Pruned(h))
  <2>1. Len(h) = Len(old) + 1 /\ h[Len(h)] = u /\ \A i \in 1..Len(old) : h[i] = old[i]
    BY <1>2, <1>4
  <2>2. \A k \in DOMAIN u.parts : u.parts[k].shot <=> Taken(h, Len(h), k)
    BY <1>1, <1>2, <1>3
  <2> QED BY <1>1, <1>2, <1>5, <2>1, <2>2, PruneKeepsNewest
<1>7. /\ Len(Pruned(h)) = 1 /\ Pruned(h) \in Seq(TurnSet) /\ Pruned(h)[1].role = "user"
  BY <1>1, <1>2, PrunedTurns
<1>8. Alternates(Pruned(h)) /\ Answered(Pruned(h))
  BY <1>7 DEF Alternates, Answered
<1>9. Asked(<<u>>, <<>>) = Pruned(h)
  BY DEF Asked, h
<1>10. Fit(Pruned(h))
  BY <1>6, <1>7, <1>8 DEF Fit
<1> QED BY <1>9, <1>10 DEF u

\* A reply at work: outcomes for its first calls, the others left.
Underway(reply) ==
    /\ reply \in Seq(Call) \ {<<>>} /\ Outcome(reply, outcomes)
    /\ calls \in Seq(Call) /\ Len(outcomes) + Len(calls) = Len(reply)
    /\ \A k \in 1..Len(calls) : calls[k] = reply[Len(outcomes) + k]

AtWork == \E old, reply :
    Fit(old) /\ history = Append(old, Turn("model", reply)) /\ Underway(reply)

TalkInv ==
    /\ pc = "asking" => Fit(history)
    /\ pc \in {"turn", "acting"} => AtWork
    /\ pc = "acting" => calls # <<>> /\ Check(Head(calls)) = "allow"

\* A call is answered: the outcome is of the call at its place.
LEMMA AnswerKeeps ==
  ASSUME AtWork, calls # <<>>, history' = history, calls' = Tail(calls),
         NEW answer \in Part, outcomes' = Append(outcomes, answer),
         answer.error = (Head(calls).kind # "fine"), answer.shot = (Check(Head(calls)) = "allow")
  PROVE  AtWork'
<1>1. PICK old, reply : Fit(old) /\ history = Append(old, Turn("model", reply)) /\ Underway(reply)
  BY DEF AtWork
<1>2. /\ reply \in Seq(Call) \ {<<>>} /\ outcomes \in Seq(Part) /\ calls \in Seq(Call)
      /\ Len(outcomes) + Len(calls) = Len(reply)
      /\ \A k \in 1..Len(calls) : calls[k] = reply[Len(outcomes) + k]
      /\ \A k \in 1..Len(outcomes) : /\ outcomes[k].error = (reply[k].kind # "fine")
                                     /\ outcomes[k].shot = (Check(reply[k]) = "allow")
  BY <1>1 DEF Underway, Outcome
<1>3. /\ outcomes' \in Seq(Part) /\ Len(outcomes') = Len(outcomes) + 1
      /\ outcomes'[Len(outcomes) + 1] = answer
      /\ \A k \in 1..Len(outcomes) : outcomes'[k] = outcomes[k]
  BY <1>2
<1>4. /\ calls' \in Seq(Call) /\ Len(calls') = Len(calls) - 1 /\ Len(calls) \in Nat \ {0}
      /\ \A k \in 1..Len(calls') : calls'[k] = calls[k + 1]
      /\ Head(calls) = reply[Len(outcomes) + 1]
  BY <1>2
<1>5. Len(outcomes) \in Nat
  BY <1>2
<1>6. \A k \in 1..Len(calls') : calls'[k] = reply[Len(outcomes') + k]
  <2> SUFFICES ASSUME NEW k \in 1..Len(calls') PROVE calls'[k] = reply[Len(outcomes') + k]
    OBVIOUS
  <2>1. k + 1 \in 1..Len(calls) /\ Len(outcomes) + (k + 1) = Len(outcomes') + k
    BY <1>3, <1>4, <1>5
  <2> QED BY <1>2, <1>4, <2>1
<1>7. ASSUME NEW k \in 1..Len(outcomes')
      PROVE  outcomes'[k].error = (reply[k].kind # "fine") /\ outcomes'[k].shot = (Check(reply[k]) = "allow")
  <2>1. CASE k \in 1..Len(outcomes)
    BY <1>2, <1>3, <2>1
  <2>2. CASE k = Len(outcomes) + 1
    BY <1>3, <1>4, <2>2
  <2> QED BY <1>3, <1>5, <2>1, <2>2
<1>8. Len(outcomes') + Len(calls') = Len(reply) /\ Len(outcomes') <= Len(reply)
  BY <1>2, <1>3, <1>4, <1>5
<1>9. Underway(reply)'
  BY <1>2, <1>3, <1>4, <1>6, <1>7, <1>8 DEF Underway, Outcome
<1> QED BY <1>1, <1>9 DEF AtWork

\* Steps that leave the conversation alone, or that are its end.
LEMMA TalkSame == ASSUME TalkInv, UNCHANGED <<pc, history, calls, outcomes>> PROVE TalkInv'
BY DEF TalkInv, AtWork, Underway

LEMMA TalkOver == ASSUME pc' \notin {"asking", "turn", "acting"} PROVE TalkInv'
BY DEF TalkInv

LEMMA TalkOutside == ASSUME TalkInv, OpenStep \/ EndStep PROVE TalkInv'
<1>1. pc' \notin {"asking", "turn", "acting"} \/ UNCHANGED <<pc, history, calls, outcomes>>
  <2>1. CASE OpenStep
    BY <2>1 DEF OpenStep, Begins, RunEnsures, PreflightEnsures, RunLaunches, PreflightLaunches, Opens,
                OpenFails, ChromiumDies, Goto, talk
  <2>2. CASE EndStep
    BY <2>2 DEF EndStep, TimesOut, IsCancelled, CutOpening, CutWorking, Closes, CutClosing, Finish,
                Goto, talk
  <2> QED BY <2>1, <2>2
<1> QED BY <1>1, TalkSame, TalkOver

LEMMA TalkStepKeeps == ASSUME TalkInv, TalkStep PROVE TalkInv'
<1>1. CASE Started
  BY <1>1, StartFits DEF Started, Goto, TalkInv
<1>2. CASE Reports \/ ModelFails
  BY <1>2, TalkOver DEF Reports, ModelFails, Finish, Goto
<1>3. CASE Calls
  <2>1. PICK reply \in Replies :
          /\ history' = Append(history, Turn("model", reply))
          /\ IF SafetyOf(reply) = "require_confirmation" THEN pc' = "closing"
             ELSE calls' = reply /\ outcomes' = <<>> /\ pc' = "turn"
    BY <1>3 DEF Calls, Finish, Goto
  <2>2. Fit(history) /\ reply \in Seq(Call) \ {<<>>}
    BY <1>3, QARunAssumption DEF Calls, At, TalkInv
  <2>3. CASE pc' = "closing"
    BY <2>3, TalkOver
  <2>4. CASE pc' # "closing"
    <3>1. calls' = reply /\ outcomes' = <<>> /\ pc' = "turn"
      BY <2>1, <2>4
    <3>2. Underway(reply)'
      BY <2>2, <3>1 DEF Underway, Outcome
    <3> QED BY <2>1, <2>2, <3>1, <3>2 DEF TalkInv, AtWork
  <2> QED BY <2>3, <2>4
<1> QED BY <1>1, <1>2, <1>3 DEF TalkStep

LEMMA CallStepKeeps == ASSUME TalkInv, CallStep PROVE TalkInv'
<1>1. CASE CallLimited \/ CallStops \/ PageFails
  BY <1>1, TalkOver DEF CallLimited, CallStops, PageFails, Finish, Goto
<1>2. CASE CallBlocked
  <2>1. /\ pc = "turn" /\ pc' = pc /\ calls # <<>> /\ Check(Head(calls)) = "block" /\ history' = history
        /\ calls' = Tail(calls) /\ outcomes' = Append(outcomes, Blocked) /\ AtWork
    BY <1>2 DEF CallBlocked, OutcomeOfBlocked, At, TalkInv
  <2>2. Blocked \in Part /\ Blocked.error = (Head(calls).kind # "fine")
        /\ Blocked.shot = (Check(Head(calls)) = "allow")
    BY <2>1 DEF Blocked, Part, Check
  <2> QED BY <2>1, <2>2, AnswerKeeps DEF TalkInv
<1>3. CASE CallActs
  BY <1>3 DEF CallActs, At, Goto, TalkInv, AtWork, Underway
<1>4. CASE Acted
  <2>1. /\ pc = "acting" /\ pc' = "turn" /\ calls # <<>> /\ Check(Head(calls)) = "allow"
        /\ history' = history /\ calls' = Tail(calls) /\ AtWork
        /\ outcomes' = Append(outcomes, Shot(Head(calls).kind = "odd"))
    BY <1>4 DEF Acted, At, Goto, TalkInv
  <2>2. Head(calls) \in Call
    BY <2>1 DEF AtWork, Underway
  <2>3. Head(calls).kind \in {"fine", "odd"}
    BY <2>1, <2>2 DEF Check, Call, CallKinds
  <2>4. Shot(Head(calls).kind = "odd") \in Part
        /\ Shot(Head(calls).kind = "odd").error = (Head(calls).kind # "fine")
        /\ Shot(Head(calls).kind = "odd").shot = (Check(Head(calls)) = "allow")
    BY <2>1, <2>3 DEF Shot, Part
  <2> QED BY <2>1, <2>4, AnswerKeeps DEF TalkInv
<1>5. CASE TurnDone
  <2>1. calls = <<>> /\ pc' = "asking" /\ history' = Asked(history, outcomes) /\ AtWork
    BY <1>5 DEF TurnDone, At, Goto, TalkInv
  <2>2. PICK old, reply : Fit(old) /\ history = Append(old, Turn("model", reply)) /\ Underway(reply)
    BY <2>1 DEF AtWork
  <2>3. reply \in Seq(Call) \ {<<>>} /\ Len(outcomes) = Len(reply) /\ Outcome(reply, outcomes)
    BY <2>1, <2>2 DEF Underway, Outcome
  <2>4. outcomes # <<>>
    BY <2>3
  <2>5. history' = Pruned(Append(Append(old, Turn("model", reply)), Turn("user", outcomes)))
    BY <2>1, <2>2, <2>4 DEF Asked
  <2>6. Fit(history')
    BY <2>2, <2>3, <2>5, AnswersFit
  <2> QED BY <2>1, <2>6 DEF TalkInv
<1> QED BY <1>1, <1>2, <1>3, <1>4, <1>5 DEF CallStep

\* Whatever the model replies and however often: each call is answered once, at its place, and the
\* newest Keep screenshots go along, as agent.py's turns and prune_screenshots mean it.
THEOREM EveryCallIsAnswered == Spec => []TurnsMatch
<1>1. Init => TalkInv
  BY DEF Init, TalkInv
<1>2. TalkInv /\ [Next]_vars => TalkInv'
  <2> SUFFICES ASSUME TalkInv, [Next]_vars PROVE TalkInv'
    OBVIOUS
  <2>1. CASE UNCHANGED vars
    BY <2>1, TalkSame DEF vars, talk
  <2> QED BY <2>1, TalkOutside, TalkStepKeeps, CallStepKeeps DEF Next
<1>3. TalkInv => TurnsMatch
  <2> SUFFICES ASSUME Fit(history) PROVE EachCallAnswered /\ NewestShotsKept
    BY DEF TalkInv, TurnsMatch
  <2>1. DOMAIN history = 1..Len(history)
    BY DEF Fit
  <2>2. EachCallAnswered
    BY <2>1 DEF Fit, Alternates, Answered, EachCallAnswered
  <2>3. NewestShotsKept
    BY <2>1 DEF Fit, ShotsRight, NewestShotsKept
  <2> QED BY <2>2, <2>3
<1> QED BY <1>1, <1>2, <1>3, PTL DEF Spec
=============================================================================
