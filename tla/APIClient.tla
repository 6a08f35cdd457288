------------------------------- MODULE APIClient -------------------------------
(***************************************************************************)
(* internal/client/client.go: the handles to the API server, the cached    *)
(* authorisations and the connection flag, used by many goroutines while   *)
(* one of them switches the context or checks the connection.              *)
(*                                                                         *)
(* Every accessor takes the lock for itself (getConnOK, setClient, ...):   *)
(* what an operation checks may be over when it acts on it.                *)
(***************************************************************************)
EXTENDS Naturals

CONSTANTS
    Contexts,       \* the contexts of the kubeconfig
    Threads,        \* the goroutines that use the client
    None

ASSUME ClientAssumption == None \notin Contexts

(* client stands for the two handles that need a connection (client,       *)
(* logClient), dClient for those that do not (dClient, mxsClient); the     *)
(* discovery handle is dialled like client and is part of it.              *)
Slots == {"client", "dClient"}
Setting == [client |-> "set client", dClient |-> "set dClient"]
Getting == [client |-> "get client", dClient |-> "get dClient"]
Clearing == [client |-> "clear client", dClient |-> "clear dClient"]

VARIABLES
    up,             \* the contexts whose API server answers
    context,        \* the context a.config points to
    connOK,
    handle,         \* handle[s]: the context the handle was made for, or None
    at,             \* at[t]: where t stands in its operation
    held,           \* held[t]: the context of the config or handle t holds
    ended           \* how the program ended

clientVars == <<context, connOK, handle>>
threadVars == <<at, held>>
vars == <<up, clientVars, threadVars>>

(* The program has checked the connection once before it starts (cmd/root).*)
ClientInit ==
    /\ up \in SUBSET Contexts
    /\ context \in Contexts
    /\ connOK = (context \in up)
    /\ handle = [s \in Slots |-> IF s = "client" /\ connOK THEN context ELSE None]
    /\ held = [t \in Threads |-> None]

(* No goroutine takes a step once the program has ended.                   *)
Goto(t, step) == ended = "no" /\ at' = [at EXCEPT ![t] = step]
Hold(t, c) == held' = [held EXCEPT ![t] = c]
(* t returns from its operation: to idle, or to where it was called.       *)
Done(t, step) == Goto(t, step) /\ Hold(t, None)

-----------------------------------------------------------------------------
(* Dial and DynDial: look, build from the current config, set, get.        *)

Dial(t, s, then) ==
    /\ held' = [held EXCEPT ![t] = IF handle[s] = None THEN context ELSE handle[s]]
    /\ Goto(t, IF handle[s] = None THEN Setting[s] ELSE then)
    /\ UNCHANGED <<up, clientVars>>

DialSet(t, s) ==
    /\ at[t] = Setting[s]
    /\ handle' = [handle EXCEPT ![s] = held[t]]
    /\ Goto(t, Getting[s])
    /\ UNCHANGED <<up, context, connOK, held>>

(* The handle is read back from the client: a reset in between leaves nil. *)
DialGet(t, s, then) ==
    /\ at[t] = Getting[s]
    /\ Hold(t, handle[s])
    /\ Goto(t, then)
    /\ UNCHANGED <<up, clientVars>>

-----------------------------------------------------------------------------
(* CanI: a cached answer, or a review sent through a dialled handle.  What *)
(* was answered is not told apart.                                         *)

CanI(t) ==
    /\ at[t] = "ask"
    /\ \/ Goto(t, "answered")
       \/ connOK /\ Goto(t, "dial")
    /\ UNCHANGED <<up, clientVars, held>>

CanIDial(t) ==
    /\ at[t] = "dial"
    /\ IF connOK
       THEN Dial(t, "client", "review")
       ELSE Goto(t, "answered") /\ UNCHANGED <<up, clientVars, held>>

CanIReview(t) ==
    /\ at[t] = "review"
    /\ held[t] # None
    /\ Done(t, "answered")
    /\ UNCHANGED <<up, clientVars>>

CanIStep(t) ==
    \/ CanI(t) \/ CanIDial(t) \/ CanIReview(t)
    \/ DialSet(t, "client") \/ DialGet(t, "client", "review")

-----------------------------------------------------------------------------
(* CheckConnectivity: ask the server of the config as it is now for its    *)
(* version.  A connection that is back resets the client.                  *)

CheckBegin(t) ==
    /\ Hold(t, context)
    /\ Goto(t, "version")
    /\ UNCHANGED <<up, clientVars>>

CheckAnswered(t) ==
    /\ at[t] = "version"
    /\ held[t] \in up
    /\ handle' = [handle EXCEPT !["client"] = held[t]]
    /\ Goto(t, "reached")
    /\ UNCHANGED <<up, context, connOK, held>>

CheckOnlyLogs(t) ==         \* mistake: a failure is logged and the flag kept
    /\ at[t] = "version"
    /\ held[t] \notin up
    /\ Goto(t, "deferred")
    /\ UNCHANGED <<up, clientVars, held>>

CheckFailed(t) ==
    /\ at[t] = "version"
    /\ held[t] \notin up
    /\ connOK' = FALSE
    /\ Goto(t, "deferred")
    /\ UNCHANGED <<up, context, handle, held>>

CheckResets(t) ==
    /\ at[t] = "reached"
    /\ Goto(t, IF connOK THEN "deferred" ELSE Clearing["dClient"])
    /\ UNCHANGED <<up, clientVars, held>>

(* The flag is read again for the result.                                  *)
CheckDeferred(t) ==
    /\ at[t] = "deferred"
    /\ Done(t, IF connOK THEN "ok" ELSE "lost")
    /\ UNCHANGED <<up, clientVars>>

(* reset: one field after the other, the flag last.  It was called by the  *)
(* check of the config t holds, or by SwitchContext before any check.      *)
ResetHandle(t, s) ==
    /\ at[t] = Clearing[s]
    /\ handle' = [handle EXCEPT ![s] = None]
    /\ Goto(t, IF s = "dClient" THEN Clearing["client"] ELSE "reset flag")
    /\ UNCHANGED <<up, context, connOK, held>>

ResetFlag(t) ==
    /\ at[t] = "reset flag"
    /\ connOK' = TRUE
    /\ Goto(t, IF held[t] = None THEN "switched" ELSE "deferred")
    /\ UNCHANGED <<up, context, handle, held>>

CheckStep(t) ==
    \/ CheckAnswered(t) \/ CheckFailed(t) \/ CheckResets(t) \/ CheckDeferred(t)
    \/ ResetFlag(t) \/ \E s \in Slots : ResetHandle(t, s)

-----------------------------------------------------------------------------
(* SwitchContext: point the config at c, reset, check, dial.  It fails     *)
(* without a trace for a context the kubeconfig does not have, and with    *)
(* the client already switched when the new server does not answer.        *)

SwitchConfig(t, c) ==
    /\ context' = c
    /\ Goto(t, Clearing["dClient"])
    /\ UNCHANGED <<up, connOK, handle, held>>

Flip(c) ==
    /\ up' = IF c \in up THEN up \ {c} ELSE up \union {c}
    /\ UNCHANGED <<clientVars, threadVars>>

ClientTypeOK ==
    /\ up \subseteq Contexts
    /\ context \in Contexts
    /\ connOK \in BOOLEAN
    /\ handle \in [Slots -> Contexts \union {None}]
    /\ held \in [Threads -> Contexts \union {None}]
=============================================================================
