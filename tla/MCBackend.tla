------------------------------ MODULE MCBackend ------------------------------
(***************************************************************************)
(* Backend under TLC: the values of its constants that a configuration     *)
(* cannot write, and the initial states of the part that moves.            *)
(***************************************************************************)
EXTENDS Backend, TLC

CONSTANTS u1, u2

Form(v, a, p) == [via |-> v, address |-> a, phone |-> p]
\* SignUp leaves out the phone form whose address is not the one it derives.
MCAsked == {Form("seller", "a", NoPhone), Form("web", "a", "1"), Form("phone", "1", "+1"),
          Form("phone", "+1", "+1"), Form("phone", "1", "1"), Form("google", "a", NoPhone)}
MCDigits(p) == IF p = "+1" THEN "1" ELSE p

MCGoogleCalls == Calls \cup {"fourth"}
MCCatalog == "rose" :> 1 @@ "car" :> 2
MCSelections == UNION {[1..n -> Items] : n \in 0..2}

\* The two sizes of the hosts' cameras.
MCFrames == {<<720, 1280>>, <<1080, 1920>>}

\* A part that does not move starts in one of its initial states, not in each.
MCInit ==
  /\ BackendInit
  /\ part # "accounts" => role = "buyer"
  /\ part # "overlays" => storage
  /\ part # "keys" => provider = "local" /\ ~fallback
  /\ part # "envelope" => route = "bare" /\ act = "json"
  /\ part # "pictures" => video = <<720, 1280>> /\ cards = 0
  /\ part # "limiter" => failClosed
  /\ part # "cache" => \A r \in Twins : reader[r].key = "page1"

MCSpec == MCInit /\ [][BackendNext]_allVars

Symmetry == Permutations(Calls)
==============================================================================
