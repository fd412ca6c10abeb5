------------------------------ MODULE UrlTokens ------------------------------
(***************************************************************************)
(* The signed URLs of token.go and the rotation of their keys.  Each       *)
(* instance of the API signs with the key its configuration names; SRS     *)
(* (external) verifies with the keys it was given, by the same rule as     *)
(* Verify.  The operator (external) follows the order TokenSigner asks     *)
(* for: a key is with SRS before an instance signs with it, and leaves SRS *)
(* when the last token signed with it has expired; but a configuration may *)
(* name a key that is not in it, or none.                                  *)
(*                                                                         *)
(* The path and the action are part of what is signed: one URL stands for  *)
(* all, and a token is its key and the second it expires at.               *)
(***************************************************************************)
EXTENDS Integers, FiniteSets

CONSTANTS
  Instances,     \* of the API
  Kids, NoKid,   \* names of keys; the empty name
  TTL,           \* SRS_TOKEN_TTL
  MaxTime,       \* bound: the clock
  MaxTokens      \* bound: URLs handed out

VARIABLES
  clock,
  srsKeys,       \* the keys SRS verifies with
  config,        \* SRS_TOKEN_KEYS_JSON and SRS_TOKEN_CURRENT_KID of each instance
  up,            \* does the instance run?
  lastUse,       \* when a key was last the current one of an instance that runs
  tokens,        \* the signed URLs
  unasked        \* history: a URL was handed out unsigned with keys and a name set

vars == <<clock, srsKeys, config, up, lastUse, tokens, unasked>>

Configs == [keys : SUBSET Kids, current : Kids \cup {NoKid}]
NoConfig == [keys |-> {}, current |-> NoKid]

TypeOK ==
  /\ clock \in 0..MaxTime /\ srsKeys \subseteq Kids
  /\ config \in [Instances -> Configs] /\ up \in [Instances -> BOOLEAN]
  /\ lastUse \in [Kids -> 0..MaxTime]
  /\ tokens \subseteq [kid : Kids, expire : 0..(MaxTime + TTL)]
  /\ unasked \in BOOLEAN

Init ==
  /\ clock = 0 /\ srsKeys = {} /\ tokens = {} /\ unasked = FALSE
  /\ config = [i \in Instances |-> NoConfig]
  /\ up = [i \in Instances |-> FALSE]
  /\ lastUse = [k \in Kids |-> 0]

-----------------------------------------------------------------------------
(* The signer *)

\* NewTokenSigner signs only with a key it has;
Enabled(c) == c.current \in c.keys

\* keys and a name that do not fit are an error, and main does not start.
SigningOff(c) == c.keys = {} \/ c.current = NoKid

Starts(c) == Enabled(c) \/ SigningOff(c)

Verify(keys, t) == t.kid \in keys /\ clock <= t.expire

\* A URL is handed out: signed, or as it is when signing is off.
Sign(i) ==
  /\ up[i]
  /\ IF Enabled(config[i])
       THEN /\ Cardinality(tokens) < MaxTokens
            /\ tokens' = tokens \cup {[kid |-> config[i].current, expire |-> clock + TTL]}
            /\ UNCHANGED unasked
       ELSE unasked' = (unasked \/ ~SigningOff(config[i])) /\ UNCHANGED tokens
  /\ UNCHANGED <<clock, srsKeys, config, up, lastUse>>

-----------------------------------------------------------------------------
(* The operator *)

InUse(k) == \E i \in Instances : up[i] /\ Enabled(config[i]) /\ config[i].current = k

\* One instance is restarted with the keys SRS has, or with none.
Deploy(i) ==
  /\ \E keys \in {srsKeys, {}} : \E current \in Kids \cup {NoKid} :
       LET c == [keys |-> keys, current |-> current] IN
       /\ config' = [config EXCEPT ![i] = IF Starts(c) THEN c ELSE NoConfig]
       /\ up' = [up EXCEPT ![i] = Starts(c)]
  /\ lastUse' = [k \in Kids |-> IF InUse(k) THEN clock ELSE lastUse[k]]
  /\ UNCHANGED <<clock, srsKeys, tokens, unasked>>

IntroduceKey(k) ==
  /\ k \notin srsKeys
  /\ srsKeys' = srsKeys \cup {k}
  /\ UNCHANGED <<clock, config, up, lastUse, tokens, unasked>>

RetireKey(k) ==
  /\ k \in srsKeys /\ ~InUse(k) /\ clock > lastUse[k] + TTL
  /\ srsKeys' = srsKeys \ {k}
  /\ UNCHANGED <<clock, config, up, lastUse, tokens, unasked>>

Tick == clock < MaxTime /\ clock' = clock + 1 /\ UNCHANGED <<srsKeys, config, up, lastUse, tokens, unasked>>

Next ==
  \/ Tick
  \/ \E i \in Instances : Deploy(i) \/ Sign(i)
  \/ \E k \in Kids : IntroduceKey(k) \/ RetireKey(k)

Spec == Init /\ [][Next]_vars

-----------------------------------------------------------------------------
(* Properties *)

\* A key is rotated without a viewer noticing: whatever instance signed it, a
\* URL is good at SRS up to its last second (token.go).
RotationIsSeamless == \A t \in tokens : clock <= t.expire => Verify(srsKeys, t)

\* A URL goes out unsigned only when the operator gave no keys or named none:
\* a name that is not among the keys never turns signing off unnoticed.
UnsignedWasAskedFor == ~unasked

TokensHold == RotationIsSeamless /\ UnsignedWasAskedFor
=============================================================================
