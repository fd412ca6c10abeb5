-------------------------------- MODULE Seed --------------------------------
(***************************************************************************)
(* cmd/seed: the fixtures of a fresh database, statement by statement.     *)
(* Rows with a unique key are upserted; the variants of a product are      *)
(* wiped and inserted again; the products of the demo session are inserted *)
(* ON CONFLICT DO NOTHING into a table without a key to conflict on.  A    *)
(* run may fail at any statement, or meet its limit of 120 s, and the next *)
(* one starts over; two may also overlap.                                  *)
(*                                                                         *)
(* One product stands for all; a variant and a listed product are named by *)
(* the run that inserted them.                                             *)
(***************************************************************************)
EXTENDS Integers, FiniteSets

CONSTANTS
  Runs, NoRun,
  Skus           \* the variants of the product

VARIABLES
  step,          \* the statement each run is at
  left,          \* the variants it has still to insert
  keyed,         \* the groups of rows with a unique key that are there
  variants,      \* product_variants
  listed,        \* live_session_products
  latest,        \* history: the run started last
  overlapped     \* history: the runs that were not alone

vars == <<step, left, keyed, variants, listed, latest, overlapped>>

Steps == {"idle", "users", "product", "wipe", "variants", "session", "coupons", "done", "failed"}
Keyed == {"users", "product", "session", "coupons"}
Running(r) == step[r] \notin {"idle", "done", "failed"}

TypeOK ==
  /\ step \in [Runs -> Steps] /\ left \in [Runs -> SUBSET Skus]
  /\ keyed \subseteq Keyed
  /\ variants \subseteq Runs \X Skus /\ listed \subseteq Runs
  /\ latest \in Runs \cup {NoRun} /\ overlapped \subseteq Runs

Init ==
  /\ step = [r \in Runs |-> "idle"] /\ left = [r \in Runs |-> {}]
  /\ keyed = {} /\ variants = {} /\ listed = {}
  /\ latest = NoRun /\ overlapped = {}

-----------------------------------------------------------------------------
Goto(r, from, to) == step[r] = from /\ step' = [step EXCEPT ![r] = to]

Start(r) ==
  /\ Goto(r, "idle", "users")
  /\ latest' = r
  /\ LET others == {o \in Runs : Running(o)}
     IN  overlapped' = overlapped \cup others \cup (IF others = {} THEN {} ELSE {r})
  /\ UNCHANGED <<left, keyed, variants, listed>>

\* Upserts by e-mail, slug, name and code; the step names the next one.
Upsert(r, rows, next) ==
  /\ Goto(r, rows, next)
  /\ keyed' = keyed \cup {rows}
  /\ UNCHANGED <<left, variants, latest, overlapped>>

SeedUsers(r) == Upsert(r, "users", "product") /\ UNCHANGED listed

SeedProducts(r) == Upsert(r, "product", "wipe") /\ UNCHANGED listed

\* The session is upserted by its stream key, its products are added once more.
SeedLiveSession(r) == Upsert(r, "session", "coupons") /\ listed' = listed \cup {r}

SeedCoupons(r) == Upsert(r, "coupons", "done") /\ UNCHANGED listed

DeleteVariants(r) ==
  /\ Goto(r, "wipe", "variants")
  /\ variants' = {}
  /\ left' = [left EXCEPT ![r] = Skus]
  /\ UNCHANGED <<keyed, listed, latest, overlapped>>

\* Every insert is a statement of its own.
InsertVariant(r) ==
  /\ step[r] = "variants"
  /\ \E s \in left[r] :
       /\ variants' = variants \cup {<<r, s>>}
       /\ left' = [left EXCEPT ![r] = @ \ {s}]
  /\ step' = [step EXCEPT ![r] = IF left'[r] = {} THEN "session" ELSE @]
  /\ UNCHANGED <<keyed, listed, latest, overlapped>>

\* log.Fatalf ends the run; what was written stays.
Fail(r) ==
  /\ Running(r)
  /\ step' = [step EXCEPT ![r] = "failed"] /\ left' = [left EXCEPT ![r] = {}]
  /\ UNCHANGED <<keyed, variants, listed, latest, overlapped>>

Next ==
  \E r \in Runs :
    \/ Start(r) \/ SeedUsers(r) \/ SeedProducts(r) \/ DeleteVariants(r) \/ InsertVariant(r)
    \/ SeedLiveSession(r) \/ SeedCoupons(r) \/ Fail(r)

Spec == Init /\ [][Next]_vars

-----------------------------------------------------------------------------
(* Properties *)

\* Whatever earlier runs left behind, half a product included, a run that comes
\* to its end undisturbed leaves each variant once, its own, and every row with
\* a key.
SeedConverges ==
  \A r \in Runs : step[r] = "done" /\ latest = r /\ r \notin overlapped =>
    variants = {r} \X Skus /\ keyed = Keyed

\* While no two runs overlap no variant is there twice.
NoVariantTwice ==
  overlapped = {} => \A s \in Skus : Cardinality({r \in Runs : <<r, s>> \in variants}) <= 1

SeedHolds == SeedConverges /\ NoVariantTwice
=============================================================================
