------------------------- MODULE ClusterUpdaterProofs --------------------------
(***************************************************************************)
(* However many runs of clusterUpdater were started and halted, one at     *)
(* most has a live context, and every variable keeps its type.             *)
(***************************************************************************)
EXTENDS ClusterUpdater, SequenceTheorems, TLAPS

(* Where the UI goroutine stands while there is a run it can halt, and     *)
(* where it stands between Halt and Resume.                                *)
Attended ==
    {"idle", "switch", "switched", "version", "reached", "deferred", "clear dClient",
     "clear client", "reset flag", "ok", "lost", "set dClient", "get dClient", "dialled", "halt"}
Halted == {"resume", "shell", "goto", "push"}

Control ==
    /\ at = [t \in Threads |-> at[t]]
    /\ at[UI] \in Attended \union Halted
    /\ cancelFn \in Updaters \union {None}
    /\ at[UI] \in Attended <=> cancelFn # None

OneLive == \A u \in Updaters : at[u] # "idle" /\ u \notin cancelled => u = cancelFn

Lead == Control /\ OneLive

LEMMA UIIsAThread == UI \in Threads /\ UI \notin Updaters /\ Updaters \subseteq Threads
BY UpdaterAssumption

LEMMA InitLead == Init => Lead
<1> SUFFICES ASSUME Init PROVE Lead
    OBVIOUS
<1>1. at[UI] = "resume" /\ \A u \in Updaters : at[u] = "idle"
    BY UIIsAThread DEF Init
<1>2. Control
    BY <1>1 DEF Init, Control, Attended, Halted
<1>3. OneLive
    BY <1>1 DEF OneLive
<1> QED
    BY <1>2, <1>3 DEF Lead

(* A run of clusterUpdater that has begun takes a step, its last one too.  *)
LEMMA UpdaterMoves ==
    ASSUME Lead, NEW u \in Updaters, at[u] # "idle", NEW step,
           Goto(u, step),
           UNCHANGED cancelled \/ (step = "idle" /\ cancelled' = cancelled \ {u}),
           UNCHANGED cancelFn
    PROVE  Lead'
<1> USE UpdaterAssumption DEF Lead, Goto
<1>1. u \in Threads /\ u # UI
    OBVIOUS
<1>2. Control'
    BY <1>1 DEF Control
<1>3. OneLive'
    BY <1>1 DEF OneLive, Control
<1> QED
    BY <1>2, <1>3

(* The UI goroutine takes a step that neither halts nor resumes.           *)
LEMMA UIMoves ==
    ASSUME Lead, NEW step \in Attended \union Halted,
           Goto(UI, step), at[UI] \in Attended <=> step \in Attended,
           UNCHANGED <<cancelled, cancelFn>>
    PROVE  Lead'
<1> USE UIIsAThread, UpdaterAssumption DEF Lead, Goto
<1>1. Control'
  <2>1. at'[UI] = step
      BY DEF Control
  <2> QED
      BY <2>1 DEF Control
<1>2. OneLive'
    BY DEF OneLive, Control
<1> QED
    BY <1>1, <1>2

LEMMA UIHalts ==
    ASSUME Lead, NEW step \in Halted, Halt, Goto(UI, step)
    PROVE  Lead'
<1> USE UpdaterAssumption DEF Lead, Goto, Halt
<1>1. Control'
    BY DEF Control, Attended, Halted
<1>2. OneLive'
    BY DEF OneLive, Control
<1> QED
    BY <1>1, <1>2

LEMMA UIResumes == ASSUME Lead, Resume PROVE Lead'
<1> USE UpdaterAssumption DEF Lead, Resume
<1>1. PICK u \in Updaters :
        /\ at[u] = "idle"
        /\ cancelFn' = u
        /\ at' = [at EXCEPT ![UI] = "idle", ![u] = "start"]
    OBVIOUS
<1>2. Control'
    BY <1>1 DEF Control, Attended, Halted
<1>3. cancelFn = None
    BY DEF Control, Attended
<1>4. OneLive'
    BY <1>1, <1>3 DEF OneLive, Control
<1> QED
    BY <1>2, <1>4

(* What leaves every goroutine where it is.                                *)
LEMMA LeadStays == ASSUME Lead, UNCHANGED <<at, cancelled, cancelFn>> PROVE Lead'
BY DEF Lead, Control, OneLive

(* The steps of the client, for whichever goroutine takes them.            *)
ClientSteps ==
    {"version", "reached", "deferred", "clear dClient", "clear client", "reset flag", "switched",
     "ok", "lost"}

LEMMA CheckStepGoes ==
    ASSUME NEW t, CheckStep(t)
    PROVE  at[t] \in ClientSteps /\ \E step \in ClientSteps : Goto(t, step)
<1> USE DEF ClientSteps
<1>1. CASE CheckAnswered(t)
    BY <1>1 DEF CheckAnswered
<1>2. CASE CheckFailed(t)
    BY <1>2 DEF CheckFailed
<1>3. CASE CheckResets(t)
  <2>1. CASE connOK
      BY <1>3, <2>1 DEF CheckResets
  <2>2. CASE ~connOK
      BY <1>3, <2>2 DEF CheckResets, Clearing
  <2> QED
      BY <2>1, <2>2
<1>4. CASE CheckDeferred(t)
  <2>1. CASE connOK
      BY <1>4, <2>1 DEF CheckDeferred, Done
  <2>2. CASE ~connOK
      BY <1>4, <2>2 DEF CheckDeferred, Done
  <2> QED
      BY <2>1, <2>2
<1>5. CASE ResetFlag(t)
  <2>1. CASE held[t] = None
      BY <1>5, <2>1 DEF ResetFlag
  <2>2. CASE held[t] # None
      BY <1>5, <2>2 DEF ResetFlag
  <2> QED
      BY <2>1, <2>2
<1>6. ASSUME NEW s \in Slots, ResetHandle(t, s)
      PROVE  at[t] \in ClientSteps /\ \E step \in ClientSteps : Goto(t, step)
  <2>1. CASE s = "dClient"
      BY <1>6, <2>1 DEF ResetHandle, Clearing, Slots
  <2>2. CASE s = "client"
      BY <1>6, <2>2 DEF ResetHandle, Clearing, Slots
  <2> QED
      BY <2>1, <2>2 DEF Slots
<1> QED
    BY <1>1, <1>2, <1>3, <1>4, <1>5, <1>6 DEF CheckStep

(* CanI is only called by a run that has begun.                            *)
LEMMA CanIStepGoes ==
    ASSUME NEW t, CanIStep(t)
    PROVE  at[t] # "idle" /\ \E step : Goto(t, step)
<1>1. CASE CanI(t)
    BY <1>1 DEF CanI
<1>2. CASE CanIDial(t)
    BY <1>2 DEF CanIDial, Dial
<1>3. CASE CanIReview(t)
    BY <1>3 DEF CanIReview, Done
<1>4. CASE DialSet(t, "client")
    BY <1>4 DEF DialSet, Setting
<1>5. CASE DialGet(t, "client", "review")
    BY <1>5 DEF DialGet, Getting
<1> QED
    BY <1>1, <1>2, <1>3, <1>4, <1>5 DEF CanIStep

LEMMA UpdaterStepLead ==
    ASSUME Lead, NEW u \in Updaters, UpdaterStep(u) \/ UpdaterCancelled(u)
    PROVE  Lead'
<1>1. CASE UpdaterStarts(u)
    BY <1>1, UpdaterMoves DEF UpdaterStarts, Stays, Ends
<1>2. CASE RefreshTop(u)
    BY <1>2, UpdaterMoves DEF RefreshTop
<1>3. CASE RefreshCheck(u)
  <2>1. UNCHANGED <<cancelled, cancelFn>>
      BY <1>3 DEF RefreshCheck, appVars, updaterVars
  <2>2. CASE at[u] = "check" /\ CheckBegin(u)
      BY <2>1, <2>2, UpdaterMoves DEF CheckBegin
  <2>3. CASE CheckStep(u)
      BY <2>1, <2>3, CheckStepGoes, UpdaterMoves DEF ClientSteps
  <2> QED
      BY <1>3, <2>2, <2>3 DEF RefreshCheck
<1>4. CASE ConnectionOK(u)
    BY <1>4, UpdaterMoves DEF ConnectionOK, appVars, updaterVars
<1>5. CASE Restart(u)
    BY <1>5, UpdaterMoves DEF Restart
<1>6. CASE ConnectionLost(u)
    BY <1>6, UpdaterMoves DEF ConnectionLost
<1>7. CASE CountRetries(u)
    BY <1>7, UpdaterMoves DEF CountRetries, Stays, Ends
<1>8. CASE ClusterInfo(u)
    BY <1>8, CanIStepGoes, UpdaterMoves DEF ClusterInfo, appVars, updaterVars
<1>9. CASE Refreshed(u)
    BY <1>9, UpdaterMoves DEF Refreshed
<1>10. CASE NilHandle(u)
    BY <1>10, LeadStays DEF NilHandle, vars, threadVars, updaterVars
<1>11. CASE NextBackOff(u)
    BY <1>11, UpdaterMoves DEF NextBackOff, updaterVars
<1>12. CASE UpdaterTimer(u)
    BY <1>12, UpdaterMoves DEF UpdaterTimer, appVars, updaterVars
<1>13. CASE UpdaterCancelled(u)
    BY <1>13, UpdaterMoves DEF UpdaterCancelled, Ends
<1> QED
    BY <1>1, <1>2, <1>3, <1>4, <1>5, <1>6, <1>7, <1>8, <1>9, <1>10, <1>11, <1>12, <1>13
    DEF UpdaterStep

LEMMA ClientSwitchesLead == ASSUME Lead, ClientSwitches PROVE Lead'
<1> USE DEF Attended, ClientSteps
<1>1. UNCHANGED <<cancelled, cancelFn>>
    BY DEF ClientSwitches, appVars, updaterVars
<1>2. CASE at[UI] = "switch" /\ SwitchConfig(UI, target)
    BY <1>1, <1>2, UIMoves DEF SwitchConfig, Clearing
<1>3. CASE at[UI] = "switched" /\ CheckBegin(UI)
    BY <1>1, <1>3, UIMoves DEF CheckBegin
<1>4. CASE CheckStep(UI)
    BY <1>1, <1>4, CheckStepGoes, UIMoves
<1>5. CASE at[UI] \in {"ok", "lost"} /\ Dial(UI, "dClient", "dialled")
  <2>1. CASE handle["dClient"] = None
      BY <1>1, <1>5, <2>1, UIMoves DEF Dial, Setting
  <2>2. CASE handle["dClient"] # None
      BY <1>1, <1>5, <2>2, UIMoves DEF Dial
  <2> QED
      BY <2>1, <2>2
<1>6. CASE DialSet(UI, "dClient")
    BY <1>1, <1>6, UIMoves DEF DialSet, Setting, Getting
<1>7. CASE DialGet(UI, "dClient", "dialled")
    BY <1>1, <1>7, UIMoves DEF DialGet, Getting
<1> QED
    BY <1>2, <1>3, <1>4, <1>5, <1>6, <1>7 DEF ClientSwitches

LEMMA UIStepLead == ASSUME Lead, UIStep PROVE Lead'
<1> USE DEF Attended, Halted
<1>1. CASE Resume
    BY <1>1, UIResumes
<1>2. CASE ShellEnds
    BY <1>2, UIMoves DEF ShellEnds, appVars, updaterVars
<1>3. CASE ClientSwitches
    BY <1>3, ClientSwitchesLead
<1>4. CASE ClientSwitched
    BY <1>4, UIMoves DEF ClientSwitched, Done, updaterVars
<1>5. CASE SwitchHalts
    BY <1>5, UIHalts DEF SwitchHalts
<1>6. CASE SwitchFails
    BY <1>6, UIMoves DEF SwitchFails, updaterVars
<1>7. CASE SwitchClears
    BY <1>7, UIMoves DEF SwitchClears, updaterVars
<1>8. ASSUME NEW p \in Pages, SwitchPushes(p) PROVE Lead'
    BY <1>8, UIMoves DEF SwitchPushes, updaterVars
<1> QED
    BY <1>1, <1>2, <1>3, <1>4, <1>5, <1>6, <1>7, <1>8 DEF UIStep

LEMMA UserActsLead == ASSUME Lead, UserActs PROVE Lead'
<1> USE DEF Attended, Halted, vars, threadVars, updaterVars
<1>1. ASSUME NEW p \in Pages, Push(p) PROVE Lead'
    BY <1>1, LeadStays DEF Push
<1>2. CASE Pop
    BY <1>2, LeadStays DEF Pop
<1>3. CASE ShellBegins
    BY <1>3, UIHalts DEF ShellBegins
<1>4. CASE UseUnknownContext
    BY <1>4, LeadStays DEF UseUnknownContext
<1>5. ASSUME NEW c \in Contexts, UseContext(c) PROVE Lead'
    BY <1>5, UIMoves DEF UseContext, UIMayHalt, UIReady
<1> QED
    BY <1>1, <1>2, <1>3, <1>4, <1>5 DEF UserActs

LEMMA StepLead == ASSUME Lead, [Next]_allVars PROVE Lead'
<1>1. CASE UIStep
    BY <1>1, UIStepLead
<1>2. CASE UserActs
    BY <1>2, UserActsLead
<1>3. ASSUME NEW c \in Contexts, ClusterFlips(c) PROVE Lead'
    BY <1>3, LeadStays DEF ClusterFlips, Flip, threadVars, updaterVars
<1>4. ASSUME NEW u \in Updaters, UpdaterStep(u) \/ UpdaterCancelled(u) PROVE Lead'
    BY <1>4, UpdaterStepLead
<1>5. CASE UNCHANGED allVars
    BY <1>5, LeadStays DEF allVars, vars, threadVars, appVars, updaterVars
<1> QED
    BY <1>1, <1>2, <1>3, <1>4, <1>5 DEF Next

(* Of any number of runs of clusterUpdater one at most is not cancelled,   *)
(* the one Halt can cancel, and there is one whenever a key is taken.      *)
THEOREM ConnectionOneUpdater == Spec => []OneUpdater
<1>1. Lead => OneUpdater
    BY DEF Lead, Control, OneLive, OneUpdater, Attended, UIReady
<1> QED
    BY <1>1, InitLead, StepLead, PTL DEF Spec

-----------------------------------------------------------------------------
(* Types.  The stack is a sequence of pages, and the UI goroutine that is  *)
(* to switch knows the context it switches to.                             *)
AppTypeOK ==
    /\ cancelFn \in Updaters \union {None}
    /\ {cancelled, looping} \subseteq SUBSET Updaters
    /\ top \in [Updaters -> Pages \union {None}]
    /\ conRetry \in Nat
    /\ stack \in Seq(Pages)
    /\ running \subseteq Pages
    /\ target \in Contexts \union {None}
    /\ stranded \in BOOLEAN
    /\ ended \in {"no", "bailed out", "panicked"}

Named == at[UI] = "switch" => target \in Contexts

Typed == Lead /\ ClientTypeOK /\ AppTypeOK /\ Named

LEMMA TypedImplies == Typed => TypeOK
<1> SUFFICES ASSUME Typed PROVE TypeOK
    OBVIOUS
<1>1. stack \in Seq(Pages)
    BY DEF Typed, AppTypeOK
<1>2. stack \in [1 .. Len(stack) -> Pages]
    BY <1>1, LenProperties
<1>3. Range(stack) \subseteq Pages
    BY <1>2 DEF Range
<1> QED
    BY <1>3 DEF Typed, AppTypeOK, TypeOK

(* The ends of a stack of pages.                                           *)
LEMMA LastIsAPage ==
    ASSUME NEW s \in Seq(Pages), s # <<>> PROVE Last(s) \in Pages
<1>1. Len(s) \in 1 .. Len(s) /\ s \in [1 .. Len(s) -> Pages]
    BY LenProperties, EmptySeq
<1> QED
    BY <1>1 DEF Last

LEMMA OnePageIsAStack == \A p \in Pages : <<p>> \in Seq(Pages)
OBVIOUS

LEMMA FrontIsAStack ==
    ASSUME NEW s \in Seq(Pages), Len(s) > 1
    PROVE  Front(s) \in Seq(Pages) /\ Front(s) # <<>>
<1>1. Len(s) \in Nat /\ s \in [1 .. Len(s) -> Pages]
    BY LenProperties
<1>2. \A i \in 1 .. Len(s) - 1 : s[i] \in Pages
    BY <1>1
<1>3. Front(s) \in Seq(Pages) /\ Len(Front(s)) = Len(s) - 1
    BY <1>1, <1>2, SubSeqProperties DEF Front
<1> QED
    BY <1>1, <1>3, EmptySeq

LEMMA ClientTypeStays ==
    ASSUME ClientTypeOK, UNCHANGED <<up, clientVars, held>> PROVE ClientTypeOK'
BY DEF ClientTypeOK, clientVars

LEMMA HoldType ==
    ASSUME ClientTypeOK, NEW t \in Threads, NEW c \in Contexts \union {None}, Hold(t, c),
           UNCHANGED <<up, clientVars>>
    PROVE  ClientTypeOK'
BY DEF ClientTypeOK, clientVars, Hold

LEMMA DialType ==
    ASSUME ClientTypeOK, NEW t \in Threads, NEW s \in Slots, NEW then,
           Dial(t, s, then) \/ DialSet(t, s) \/ DialGet(t, s, then)
    PROVE  ClientTypeOK'
<1>1. CASE Dial(t, s, then)
    BY <1>1 DEF Dial, ClientTypeOK, clientVars
<1>2. CASE DialSet(t, s)
    BY <1>2 DEF DialSet, ClientTypeOK
<1>3. CASE DialGet(t, s, then)
  <2>1. handle[s] \in Contexts \union {None}
      BY DEF ClientTypeOK
  <2> QED
      BY <1>3, <2>1, HoldType DEF DialGet
<1> QED
    BY <1>1, <1>2, <1>3

LEMMA CheckStepType ==
    ASSUME ClientTypeOK, NEW t \in Threads, CheckStep(t)
    PROVE  ClientTypeOK'
<1>1. CASE CheckAnswered(t)
    BY <1>1 DEF CheckAnswered, ClientTypeOK
<1>2. CASE CheckFailed(t)
    BY <1>2 DEF CheckFailed, ClientTypeOK
<1>3. CASE CheckResets(t)
    BY <1>3, ClientTypeStays DEF CheckResets
<1>4. CASE CheckDeferred(t)
    BY <1>4, HoldType DEF CheckDeferred, Done
<1>5. CASE ResetFlag(t)
    BY <1>5 DEF ResetFlag, ClientTypeOK
<1>6. ASSUME NEW s \in Slots, ResetHandle(t, s) PROVE ClientTypeOK'
    BY <1>6 DEF ResetHandle, ClientTypeOK
<1> QED
    BY <1>1, <1>2, <1>3, <1>4, <1>5, <1>6 DEF CheckStep

LEMMA CanIStepType ==
    ASSUME ClientTypeOK, NEW t \in Threads, CanIStep(t)
    PROVE  ClientTypeOK'
<1> "client" \in Slots
    BY DEF Slots
<1>1. CASE CanI(t)
    BY <1>1, ClientTypeStays DEF CanI
<1>2. CASE CanIDial(t)
  <2>1. CASE connOK
      BY <1>2, <2>1, DialType DEF CanIDial
  <2>2. CASE ~connOK
      BY <1>2, <2>2, ClientTypeStays DEF CanIDial
  <2> QED
      BY <2>1, <2>2
<1>3. CASE CanIReview(t)
    BY <1>3, HoldType DEF CanIReview, Done
<1>4. CASE DialSet(t, "client") \/ DialGet(t, "client", "review")
    BY <1>4, DialType
<1> QED
    BY <1>1, <1>2, <1>3, <1>4 DEF CanIStep

LEMMA InitTyped == Init => Typed
<1> SUFFICES ASSUME Init PROVE Typed
    OBVIOUS
<1>1. ClientTypeOK
    BY DEF Init, ClientInit, ClientTypeOK
<1>2. AppTypeOK
  <2>1. PICK p \in Pages : stack = <<p>> /\ running = {p}
      BY DEF Init
  <2>2. stack \in Seq(Pages) /\ running \subseteq Pages
      BY <2>1
  <2> QED
      BY <2>2 DEF Init, AppTypeOK
<1>3. Named
    BY UIIsAThread DEF Init, Named
<1> QED
    BY <1>1, <1>2, <1>3, InitLead DEF Typed

(* A run of clusterUpdater moves, and the UI goroutine stays where it is.  *)
LEMMA UpdaterNamed ==
    ASSUME Typed, NEW u \in Updaters, (\E step : Goto(u, step)) \/ UNCHANGED at, UNCHANGED target
    PROVE  Named'
BY UIIsAThread DEF Typed, Lead, Control, Named, Goto

LEMMA RetriesCount ==
    ASSUME conRetry \in Nat, NEW u \in Updaters, ConnectionLost(u) PROVE conRetry' \in Nat
BY DEF ConnectionLost

LEMMA UpdaterStepAppType ==
    ASSUME Typed, NEW u \in Updaters, UpdaterStep(u) \/ UpdaterCancelled(u)
    PROVE  AppTypeOK'
<1>0. AppTypeOK /\ u \in Threads
    BY UIIsAThread DEF Typed
<1> USE <1>0 DEF AppTypeOK, updaterVars, pageVars, switchVars, appVars
<1>1. CASE UpdaterStarts(u)
    BY <1>1 DEF UpdaterStarts, Stays, Ends
<1>2. CASE RefreshTop(u)
  <2>1. Top \in Pages \union {None}
      BY LastIsAPage DEF Top
  <2> QED
      BY <1>2, <2>1 DEF RefreshTop
<1>3. CASE RefreshCheck(u)
    BY <1>3 DEF RefreshCheck
<1>4. CASE ConnectionOK(u)
    BY <1>4 DEF ConnectionOK
<1>5. CASE Restart(u)
    BY <1>5 DEF Restart
<1>6. CASE ConnectionLost(u)
  <2>1. conRetry' \in Nat
      BY <1>6, RetriesCount
  <2> QED
      BY <1>6, <2>1 DEF ConnectionLost
<1>7. CASE CountRetries(u)
  <2>1. ended' \in {"no", "bailed out", "panicked"}
      BY <1>7 DEF CountRetries, BailOut
  <2>2. {cancelled, looping}' \subseteq SUBSET Updaters
      BY <1>7 DEF CountRetries, Stays, Ends
  <2>3. top' \in [Updaters -> Pages \union {None}]
      BY <1>7 DEF CountRetries
  <2> QED
      BY <1>7, <2>1, <2>2, <2>3 DEF CountRetries
<1>8. CASE ClusterInfo(u)
    BY <1>8 DEF ClusterInfo
<1>9. CASE Refreshed(u)
    BY <1>9 DEF Refreshed
<1>10. CASE NilHandle(u)
    BY <1>10 DEF NilHandle
<1>11. CASE NextBackOff(u)
    BY <1>11 DEF NextBackOff, BailOut
<1>12. CASE UpdaterTimer(u)
    BY <1>12 DEF UpdaterTimer
<1>13. CASE UpdaterCancelled(u)
    BY <1>13 DEF UpdaterCancelled, Ends
<1> QED
    BY <1>1, <1>2, <1>3, <1>4, <1>5, <1>6, <1>7, <1>8, <1>9, <1>10, <1>11, <1>12, <1>13
    DEF UpdaterStep

LEMMA UpdaterStepTyped ==
    ASSUME Typed, NEW u \in Updaters, UpdaterStep(u) \/ UpdaterCancelled(u)
    PROVE  Typed'
<1>0. ClientTypeOK /\ u \in Threads /\ context \in Contexts
    BY UIIsAThread DEF Typed, ClientTypeOK
<1>1. ClientTypeOK'
  <2>1. CASE RefreshCheck(u)
      BY <1>0, <2>1, CheckStepType, HoldType DEF RefreshCheck, CheckBegin
  <2>2. CASE ClusterInfo(u)
      BY <1>0, <2>2, CanIStepType DEF ClusterInfo
  <2>3. CASE ~RefreshCheck(u) /\ ~ClusterInfo(u)
    <3>1. UNCHANGED <<up, clientVars, held>>
        BY <2>3 DEF UpdaterStep, UpdaterStarts, RefreshTop, ConnectionOK, Restart, ConnectionLost,
           CountRetries, Refreshed, NilHandle, NextBackOff, UpdaterTimer, UpdaterCancelled,
           vars, threadVars
    <3> QED
        BY <1>0, <3>1, ClientTypeStays
  <2> QED
      BY <2>1, <2>2, <2>3
<1>2. (\E step : Goto(u, step)) \/ UNCHANGED at
  <2>1. CASE RefreshCheck(u)
      BY <2>1, CheckStepGoes DEF RefreshCheck, CheckBegin
  <2>2. CASE ClusterInfo(u)
      BY <2>2, CanIStepGoes DEF ClusterInfo
  <2>3. CASE ~RefreshCheck(u) /\ ~ClusterInfo(u)
      BY <2>3 DEF UpdaterStep, UpdaterStarts, RefreshTop, ConnectionOK, Restart, ConnectionLost,
         CountRetries, Refreshed, NilHandle, NextBackOff, UpdaterTimer, UpdaterCancelled,
         vars, threadVars
  <2> QED
      BY <2>1, <2>2, <2>3
<1>3. UNCHANGED target
    BY DEF UpdaterStep, UpdaterStarts, RefreshTop, RefreshCheck, ConnectionOK, Restart,
       ConnectionLost, CountRetries, ClusterInfo, Refreshed, NilHandle, NextBackOff, UpdaterTimer,
       UpdaterCancelled, switchVars, appVars
<1>4. Named'
    BY <1>2, <1>3, UpdaterNamed
<1> QED
    BY <1>1, <1>4, UpdaterStepAppType, UpdaterStepLead DEF Typed

LEMMA UIStepTyped == ASSUME Typed, UIStep PROVE Typed'
<1>0. ClientTypeOK /\ AppTypeOK /\ Named /\ UI \in Threads /\ context \in Contexts /\ "dClient" \in Slots
    BY UIIsAThread DEF Typed, ClientTypeOK, Slots
<1>1. Lead'
    BY UIStepLead DEF Typed
<1> USE <1>0
<1>2. CASE Resume
  <2>1. ClientTypeOK' /\ AppTypeOK'
      BY <1>2, ClientTypeStays DEF Resume, AppTypeOK, pageVars, switchVars
  <2>2. Named'
      BY <1>2, UIIsAThread DEF Resume, Named, Typed, Lead, Control
  <2> QED
      BY <1>1, <2>1, <2>2 DEF Typed
<1>3. CASE ClientSwitches
  <2>1. UNCHANGED appVars
      BY <1>3 DEF ClientSwitches
  <2>2. AppTypeOK'
      BY <2>1 DEF AppTypeOK, appVars, updaterVars, pageVars, switchVars
  <2>3. ClientTypeOK'
    <3>1. CASE at[UI] = "switch" /\ SwitchConfig(UI, target)
        BY <3>1 DEF SwitchConfig, Named, ClientTypeOK
    <3>2. CASE at[UI] = "switched" /\ CheckBegin(UI)
        BY <3>2, HoldType DEF CheckBegin
    <3>3. CASE CheckStep(UI)
        BY <3>3, CheckStepType
    <3>4. CASE Dial(UI, "dClient", "dialled") \/ DialSet(UI, "dClient") \/ DialGet(UI, "dClient", "dialled")
        BY <3>4, DialType
    <3> QED
        BY <1>3, <3>1, <3>2, <3>3, <3>4 DEF ClientSwitches
  <2>4. at'[UI] # "switch"
    <3> USE DEF Goto, Typed, Lead, Control
    <3>1. CASE CheckStep(UI)
        BY <3>1, CheckStepGoes DEF ClientSteps
    <3>2. CASE ~CheckStep(UI)
        BY <1>3, <3>2 DEF ClientSwitches, SwitchConfig, CheckBegin, Dial, DialSet, DialGet, Clearing,
           Setting, Getting
    <3> QED
        BY <3>1, <3>2
  <2> QED
      BY <1>1, <2>2, <2>3, <2>4 DEF Typed, Named
<1>4. CASE ShellEnds \/ ClientSwitched \/ SwitchHalts \/ SwitchFails \/ SwitchClears
           \/ \E p \in Pages : SwitchPushes(p)
  <2>1. ClientTypeOK'
    <3>1. CASE ClientSwitched
        BY <3>1, HoldType DEF ClientSwitched, Done
    <3>2. CASE ~ClientSwitched
        BY <1>4, <3>2, ClientTypeStays DEF ShellEnds, SwitchHalts, SwitchFails, SwitchClears, SwitchPushes
    <3> QED
        BY <3>1, <3>2
  <2>2. AppTypeOK'
    <3> USE DEF AppTypeOK, updaterVars, pageVars, switchVars, appVars
    <3>1. CASE ShellEnds \/ ClientSwitched \/ SwitchFails
        BY <3>1 DEF ShellEnds, ClientSwitched, SwitchFails
    <3>2. CASE SwitchHalts
        BY <3>2 DEF SwitchHalts, Halt
    <3>3. CASE SwitchClears
      <4>1. stack' \in Seq(Pages)
          BY <3>3, EmptySeq DEF SwitchClears
      <4> QED
          BY <3>3, <4>1 DEF SwitchClears
    <3>4. ASSUME NEW p \in Pages, SwitchPushes(p) PROVE AppTypeOK'
      <4>1. <<p>> \in Seq(Pages)
          BY OnePageIsAStack
      <4> QED
          BY <3>4, <4>1 DEF SwitchPushes
    <3> QED
        BY <1>4, <3>1, <3>2, <3>3, <3>4
  <2>3. at'[UI] # "switch"
      BY <1>4 DEF ShellEnds, ClientSwitched, SwitchHalts, SwitchFails, SwitchClears, SwitchPushes,
         Done, Goto, Typed, Lead, Control
  <2> QED
      BY <1>1, <2>1, <2>2, <2>3 DEF Typed, Named
<1> QED
    BY <1>2, <1>3, <1>4 DEF UIStep

LEMMA UserActsTyped == ASSUME Typed, UserActs PROVE Typed'
<1>0. ClientTypeOK /\ AppTypeOK /\ Named /\ UI \in Threads
    BY UIIsAThread DEF Typed
<1>1. Lead'
    BY UserActsLead DEF Typed
<1>2. ClientTypeOK'
    BY <1>0, ClientTypeStays DEF UserActs, Push, Pop, ShellBegins, UseUnknownContext, UseContext,
       vars, threadVars
<1>3. AppTypeOK'
  <2> USE <1>0 DEF AppTypeOK, updaterVars, pageVars, switchVars, appVars
  <2>1. ASSUME NEW p \in Pages, Push(p) PROVE AppTypeOK'
    <3>1. Append(stack, p) \in Seq(Pages)
        BY AppendProperties
    <3> QED
        BY <2>1, <3>1 DEF Push
  <2>2. CASE Pop
    <3>1. Front(stack) \in Seq(Pages) /\ Last(Front(stack)) \in Pages
        BY <2>2, FrontIsAStack, LastIsAPage DEF Pop
    <3> QED
        BY <2>2, <3>1 DEF Pop
  <2>3. CASE ShellBegins
      BY <2>3 DEF ShellBegins, Halt
  <2>4. CASE UseUnknownContext
      BY <2>4 DEF UseUnknownContext
  <2>5. ASSUME NEW c \in Contexts, UseContext(c) PROVE AppTypeOK'
      BY <2>5 DEF UseContext
  <2> QED
      BY <2>1, <2>2, <2>3, <2>4, <2>5 DEF UserActs
<1>4. Named'
    BY <1>0 DEF UserActs, Push, Pop, ShellBegins, UseUnknownContext, UseContext, Goto, Named, Typed,
       Lead, Control, vars, threadVars, updaterVars
<1> QED
    BY <1>1, <1>2, <1>3, <1>4 DEF Typed

LEMMA StepTyped == ASSUME Typed, [Next]_allVars PROVE Typed'
<1>1. CASE UIStep
    BY <1>1, UIStepTyped
<1>2. CASE UserActs
    BY <1>2, UserActsTyped
<1>3. ASSUME NEW c \in Contexts, ClusterFlips(c) PROVE Typed'
  <2>1. Lead'
      BY <1>3, LeadStays DEF ClusterFlips, Flip, threadVars, updaterVars, Typed
  <2>2. ClientTypeOK'
      BY <1>3 DEF ClusterFlips, Flip, Typed, ClientTypeOK, clientVars, threadVars
  <2>3. AppTypeOK' /\ Named'
      BY <1>3 DEF ClusterFlips, Flip, Typed, AppTypeOK, Named, threadVars, updaterVars, pageVars, switchVars
  <2> QED
      BY <2>1, <2>2, <2>3 DEF Typed
<1>4. ASSUME NEW u \in Updaters, UpdaterStep(u) \/ UpdaterCancelled(u) PROVE Typed'
    BY <1>4, UpdaterStepTyped
<1>5. CASE UNCHANGED allVars
  <2>1. Lead'
      BY <1>5, LeadStays DEF allVars, vars, threadVars, appVars, updaterVars, Typed
  <2> QED
      BY <1>5, <2>1 DEF allVars, vars, clientVars, threadVars, appVars, updaterVars, pageVars,
         switchVars, Typed, ClientTypeOK, AppTypeOK, Named
<1> QED
    BY <1>1, <1>2, <1>3, <1>4, <1>5 DEF Next

(* Every variable keeps its type: the stack holds pages although a switch  *)
(* of the context empties it and pushes anew, and a switch knows its       *)
(* context whenever it reads it.                                           *)
THEOREM ConnectionTypeOK == Spec => []TypeOK
BY InitTyped, StepTyped, TypedImplies, PTL DEF Spec
=============================================================================
