---------------------------- MODULE GoogleSignIn ----------------------------
(***************************************************************************)
(* The hand-over of a Google login to the mobile application: a state that *)
(* the callback consumes, a one-time code that the application exchanges,  *)
(* and the PKCE challenge that travels from the first to the second.       *)
(*                                                                         *)
(* Each member of Calls is one HTTP request; a state is named after the    *)
(* request that started the login, a code after the callback that made it. *)
(* Browsers reload and applications retry, so any request may present any  *)
(* state or code that was ever issued.  A verifier is named after the      *)
(* start whose challenge it satisfies.                                     *)
(***************************************************************************)
CONSTANTS
  Calls,
  NoCall

VARIABLES
  states,      \* oauth:state:* in Redis
  codes,       \* oauth:otc:* in Redis
  bound,       \* starts that sent a PKCE challenge
  started,     \* all starts (history)
  stage,       \* next step of each request
  origin,      \* start whose state a callback consumed
  handed       \* exchanges that returned a pair: request, code, verifier

vars == <<states, codes, bound, started, stage, origin, handed>>

Exchanges == [by : Calls, code : Calls, verifier : Calls \cup {NoCall}]

TypeOK ==
  /\ bound \in SUBSET started /\ started \in SUBSET Calls
  /\ states \in SUBSET started /\ codes \in SUBSET Calls
  /\ stage \in [Calls -> {"idle", "google", "account", "store", "done"}]
  /\ origin \in [Calls -> started \cup {NoCall}]
  /\ handed \in SUBSET Exchanges

Init ==
  /\ states = {} /\ codes = {} /\ bound = {} /\ started = {}
  /\ stage = [c \in Calls |-> "idle"]
  /\ origin = [c \in Calls |-> NoCall]
  /\ handed = {}

GoTo(c, s) == stage' = [stage EXCEPT ![c] = s]

\* newState: the value under the key is the challenge or the sentinel "-".
Start(c) ==
  /\ stage[c] = "idle"
  /\ GoTo(c, "done")
  /\ started' = started \cup {c}
  /\ bound' \in {bound, bound \cup {c}}
  /\ states' \in {states, states \cup {c}}
  /\ UNCHANGED <<codes, origin, handed>>

\* consumeState, one GETDEL.
ConsumeState(c, s) ==
  /\ stage[c] = "idle"
  /\ s \in started
  /\ GoTo(c, IF s \in states THEN "google" ELSE "done")
  /\ origin' = [origin EXCEPT ![c] = IF s \in states THEN s ELSE NoCall]
  /\ states' = states \ {s}
  /\ UNCHANGED <<codes, bound, started, handed>>

\* The code exchange with Google and the request for the profile.
FetchGoogleProfile(c) ==
  /\ stage[c] = "google"
  /\ GoTo(c, "account") \/ GoTo(c, "done")
  /\ UNCHANGED <<states, codes, bound, started, origin, handed>>

\* LoginOrRegisterGoogle: Accounts and SignUp say what it does to the account.
LoginOrRegister(c) ==
  /\ stage[c] = "account"
  /\ GoTo(c, "store") \/ GoTo(c, "done")
  /\ UNCHANGED <<states, codes, bound, started, origin, handed>>

StoreOAuthOTC(c) ==
  /\ stage[c] = "store"
  /\ GoTo(c, "done")
  /\ codes' \in {codes, codes \cup {c}}
  /\ UNCHANGED <<states, bound, started, origin, handed>>

Callback(c) ==
  \/ \E s \in Calls : ConsumeState(c, s)
  \/ FetchGoogleProfile(c) \/ LoginOrRegister(c) \/ StoreOAuthOTC(c)

\* verifyPKCE, skipped for a login without a challenge.
Verified(k, v) == origin[k] \in bound => v = origin[k]

\* Mutant: the code is deleted only when the exchange succeeds (GET, then DEL
\* by a request that may fail in between).
TakeCodeLater(c, k, v) ==
  /\ stage[c] = "idle"
  /\ origin[k] # NoCall
  /\ GoTo(c, "done")
  /\ IF k \in codes /\ Verified(k, v)
       THEN /\ handed' = handed \cup {[by |-> c, code |-> k, verifier |-> v]}
            /\ codes' \in {codes, codes \ {k}}
       ELSE UNCHANGED <<handed, codes>>
  /\ UNCHANGED <<states, bound, started, origin>>

\* ExchangeOTC: GETDEL spends the code even if the verifier is wrong.
TakeCode(c, k, v) ==
  /\ stage[c] = "idle"
  /\ origin[k] # NoCall
  /\ GoTo(c, "done")
  /\ codes' = codes \ {k}
  /\ handed' = IF k \in codes /\ Verified(k, v)
                 THEN handed \cup {[by |-> c, code |-> k, verifier |-> v]} ELSE handed
  /\ UNCHANGED <<states, bound, started, origin>>

GoogleExchange(c) ==
  \E k \in Calls, v \in Calls \cup {NoCall} : TakeCode(c, k, v)

Next == \E c \in Calls : Start(c) \/ Callback(c) \/ GoogleExchange(c)

Spec == Init /\ [][Next]_vars

------------------------------------------------------------------------------
\* One login, one pair: however often the redirect and the exchange are
\* repeated, a start leads to at most one pair of tokens, and a start with a
\* challenge only to the holder of its verifier.
OnePairPerStart ==
  \A x, y \in handed :
    /\ origin[x.code] = origin[y.code] => x = y
    /\ origin[x.code] \in bound => x.verifier = origin[x.code]
==============================================================================
