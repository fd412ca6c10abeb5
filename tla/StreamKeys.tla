----------------------------- MODULE StreamKeys -----------------------------
(***************************************************************************)
(* Where the key of a session made with POST /streams comes from: drawn    *)
(* here, or issued by the infra team's registry over HTTP with a budget of *)
(* five seconds.  The registry is external; its answer may be lost after   *)
(* it has stored the key.                                                  *)
(*                                                                         *)
(* A key is named by the request it was issued for and by its origin.      *)
(***************************************************************************)
EXTENDS Integers, FiniteSets

CONSTANTS Requests       \* "start live" taps, the retried ones included

VARIABLES
  provider,      \* "local", "infra", and whether the latter is configured
  fallback,      \* STREAM_KEY_PROVIDER_FALLBACK
  step,          \* where each request is
  key,           \* the keys each request holds
  registry,      \* the keys the registry knows
  sessions,      \* keys of live_sessions
  strayed        \* history: registered keys whose request got no use of them

vars == <<provider, fallback, step, key, registry, sessions, strayed>>

Local(r) == [by |-> "local", for |-> r]
Infra(r) == [by |-> "infra", for |-> r]
Keys == [by : {"local", "infra"}, for : Requests]

TypeOK ==
  /\ provider \in {"local", "infra", "unconfigured"} /\ fallback \in BOOLEAN
  /\ step \in [Requests -> {"idle", "asking", "issued", "created", "failed"}]
  /\ key \in [Requests -> SUBSET Keys] /\ \A r \in Requests : Cardinality(key[r]) <= 1
  /\ registry \cup sessions \cup strayed \subseteq Keys

Init ==
  /\ provider \in {"local", "infra", "unconfigured"} /\ fallback \in BOOLEAN
  /\ step = [r \in Requests |-> "idle"]
  /\ key = [r \in Requests |-> {}]
  /\ registry = {} /\ sessions = {} /\ strayed = {}

-----------------------------------------------------------------------------
Goto(r, s) == step' = [step EXCEPT ![r] = s]
Issued(r, k) == key' = [key EXCEPT ![r] = {k}] /\ Goto(r, "issued")
Fails(r) == Goto(r, "failed") /\ UNCHANGED key

\* The seller's tap: a local key at once, or a call to the registry.
Begin(r) ==
  /\ step[r] = "idle"
  /\ IF provider = "local" THEN Issued(r, Local(r)) ELSE Goto(r, "asking") /\ UNCHANGED key
  /\ UNCHANGED <<provider, fallback, registry, sessions, strayed>>

FallbackOrFail(r) == IF fallback THEN Issued(r, Local(r)) ELSE Fails(r)

\* 201: the registry stored the key and answered with it.
Accept(r) ==
  /\ provider = "infra" /\ Issued(r, Infra(r))
  /\ registry' = registry \cup {Infra(r)}
  /\ UNCHANGED strayed

\* It stored the key, and the backend does not learn of it.
Stray(r) ==
  /\ registry' = registry \cup {Infra(r)}
  /\ strayed' = strayed \cup {Infra(r)}

\* No fallback: 4xx, or a key was stored but the answer cannot be read or
\* holds none.
Reject(r) ==
  /\ provider = "infra" /\ Fails(r)
  /\ \/ UNCHANGED <<registry, strayed>>
     \/ Stray(r)

\* 5xx, unreachable or out of time, before the key was stored or after; and a
\* registry that is not configured is not asked.
Unavailable(r) ==
  /\ FallbackOrFail(r)
  /\ \/ UNCHANGED <<registry, strayed>>
     \/ provider = "infra" /\ Stray(r)

Issue(r) ==
  /\ step[r] = "asking"
  /\ Accept(r) \/ Reject(r) \/ Unavailable(r)
  /\ UNCHANGED <<provider, fallback, sessions>>

\* repo.Create inserts the session with the key, or fails and the key is lost.
Create(r) ==
  /\ step[r] = "issued"
  /\ \/ /\ sessions' = sessions \cup key[r]
        /\ Goto(r, "created")
        /\ UNCHANGED strayed
     \/ /\ strayed' = strayed \cup (key[r] \cap registry)
        /\ Goto(r, "failed")
        /\ UNCHANGED sessions
  /\ UNCHANGED <<provider, fallback, key, registry>>

Next == \E r \in Requests : Begin(r) \/ Issue(r) \/ Create(r)

Spec == Init /\ [][Next]_vars

-----------------------------------------------------------------------------
(* Properties *)

\* With the registry in charge and no fallback allowed, it knows the key of
\* every session; a key it does not know is one that was drawn here because
\* the operator allowed that.
RegistryKnowsKeys == \A k \in sessions : k \in registry \/ provider = "local" \/ fallback

\* A key the registry keeps belongs to a session or a request on its way, or
\* was lost with an answer or an insert that failed; none is in two sessions.
KeysAccounted ==
  \A k \in registry :
    \/ k \in sessions /\ step[k.for] = "created"
    \/ step[k.for] = "issued" /\ key[k.for] = {k}
    \/ k \in strayed /\ k \notin sessions

KeysHold == RegistryKnowsKeys /\ KeysAccounted
=============================================================================
