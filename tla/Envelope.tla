------------------------------ MODULE Envelope ------------------------------
(***************************************************************************)
(* One request on its way through the middleware of the API and back:      *)
(* Recovery, AuditLog, EnvelopeWrapper, ErrorHandler, the guards and the   *)
(* handler.  Whatever the handler writes goes to the connection's writer,  *)
(* or to a buffer that EnvelopeWrapper has put in its place and from which *)
(* it makes the answer on the way back.  A panic skips that way back, and  *)
(* Recovery answers with the writer it finds.                              *)
(*                                                                         *)
(* gin and net/http (external): the connection's writer sends its status,  *)
(* 200 unless one was set, with the first byte or when the request is      *)
(* over, and no body with a 204.  For a path without a route gin sets 404  *)
(* before the middleware and sends its page after it, if nothing was sent. *)
(***************************************************************************)
EXTENDS Integers

CONSTANT NoStatus        \* 0 in bodyCapture, "not sent" on the connection

VARIABLES
  route,         \* wrapped, or left alone by skipEnvelope
  act,           \* what the handler or a guard before it does
  at,            \* where the request is
  captured,      \* is the buffer in place?
  buffer,        \* bodyCapture: status and body
  hijacked,
  errors,        \* c.Errors: the status of the last one
  sent,          \* what the client has got: status and body
  logged         \* the status in the request log

vars == <<route, act, at, captured, buffer, hijacked, errors, sent, logged>>

Statuses == {200, 204, 302, 401, 404, 413, 500, NoStatus}
Bodies == {"none", "data", "error", "page", "frames", "success", "failure"}
Answers == [status : Statuses, body : Bodies]
Nothing == [status |-> NoStatus, body |-> "none"]

Acts == {"json", "no_content", "not_found", "unknown_error", "redirect", "page",
         "upgrade", "refuse", "too_large", "panic", "unmatched"}

TypeOK ==
  /\ route \in {"wrapped", "bare"} /\ act \in Acts
  /\ at \in {"in", "handler", "errors", "envelope", "audit", "over", "panicking"}
  /\ captured \in BOOLEAN /\ hijacked \in BOOLEAN
  /\ buffer \in Answers /\ sent \in Answers
  /\ errors \in Statuses /\ logged \in Statuses

Init ==
  /\ route \in {"wrapped", "bare"} /\ act \in Acts
  /\ act = "upgrade" => route = "bare"
  /\ at = "in" /\ captured = FALSE /\ hijacked = FALSE
  /\ buffer = Nothing /\ sent = Nothing
  /\ errors = NoStatus /\ logged = NoStatus

-----------------------------------------------------------------------------
\* bodyCapture keeps the status and what is written;
\* the connection sends the first status, and the body with it.
Write(status, body) ==
  IF captured
    THEN buffer' = [status |-> status, body |-> body] /\ UNCHANGED sent
    ELSE /\ sent' = IF sent.status = NoStatus THEN [status |-> status, body |-> body] ELSE sent
         /\ UNCHANGED buffer

\* Sockets, streams, callbacks of SRS and the system's own pages.
SkipEnvelope == route = "bare"

\* EnvelopeWrapper puts the buffer in place.
Wrap ==
  /\ at = "in"
  /\ captured' = ~SkipEnvelope
  /\ at' = "handler"
  /\ UNCHANGED <<route, act, buffer, hijacked, errors, sent, logged>>

\* A guard writes its refusal itself, and the handler is not called.
Respond(status, body) ==
  /\ at = "handler" /\ at' = "errors"
  /\ Write(status, body)
  /\ UNCHANGED <<route, act, captured, hijacked, errors, logged>>

Refuse == act = "refuse" /\ Respond(401, "error")

TooLarge == act = "too_large" /\ Respond(413, "error")

\* The handler writes its payload,
Handle ==
  \/ act = "json" /\ Respond(200, "data")
  \/ act = "no_content" /\ Respond(204, "none")
  \/ act = "redirect" /\ Respond(302, "page")
  \/ act = "page" /\ Respond(200, "page")

\* or leaves an error: one that knows its status, or any other one,
Raise ==
  /\ act \in {"not_found", "unknown_error"}
  /\ at = "handler" /\ at' = "errors"
  /\ errors' = IF act = "not_found" THEN 404 ELSE 500
  /\ UNCHANGED <<route, act, captured, buffer, hijacked, sent, logged>>

\* or takes the connection.
Upgrade ==
  /\ act = "upgrade"
  /\ at = "handler" /\ at' = "errors"
  /\ hijacked' = TRUE
  /\ sent' = [status |-> 200, body |-> "frames"]
  /\ UNCHANGED <<route, act, captured, buffer, errors, logged>>

\* A path without a route runs the middleware alone, and nothing is written.
NoRoute ==
  /\ act = "unmatched"
  /\ at = "handler" /\ at' = "errors"
  /\ UNCHANGED <<route, act, captured, buffer, hijacked, errors, sent, logged>>

\* The last error becomes an answer with its status.
ErrorHandler ==
  /\ at = "errors"
  /\ IF errors = NoStatus THEN UNCHANGED <<buffer, sent>> ELSE Write(errors, "error")
  /\ at' = "envelope"
  /\ UNCHANGED <<route, act, captured, hijacked, errors, logged>>

Success(status) == status \in 200..399

\* A buffer without a status was answered with 200; redirects and what is not
\* JSON are passed on, the rest is wrapped with the status kept.
BuildEnvelope(b) ==
  IF b.status = 302 \/ b.body = "page" THEN b
  ELSE [status |-> b.status, body |-> IF Success(b.status) THEN "success" ELSE "failure"]

OnWire(a) == IF a.status = 204 THEN [a EXCEPT !.body = "none"] ELSE a

EnvelopeWrapper ==
  /\ at = "envelope"
  /\ captured' = FALSE
  /\ sent' = IF captured /\ ~hijacked
               THEN OnWire(BuildEnvelope([buffer EXCEPT !.status = IF @ = NoStatus THEN 200 ELSE @]))
               ELSE sent
  /\ at' = "audit"
  /\ UNCHANGED <<route, act, buffer, hijacked, errors, logged>>

\* The connection's status while nothing is sent.
Preset == IF act = "unmatched" THEN 404 ELSE 200

AuditLog ==
  /\ at = "audit"
  /\ logged' = IF sent.status = NoStatus THEN Preset ELSE sent.status
  /\ at' = "over"
  /\ UNCHANGED <<route, act, captured, buffer, hijacked, errors, sent>>

\* Recovery aborts with 500 on the writer in place.  On the buffer that stores
\* the status only, and nobody reads the buffer any more.
Panic ==
  /\ at = "handler" /\ act = "panic"
  /\ at' = "panicking"
  /\ UNCHANGED <<route, act, captured, buffer, hijacked, errors, sent, logged>>

Recovery ==
  /\ at = "panicking"
  /\ Write(500, "none")
  /\ at' = "over"
  /\ UNCHANGED <<route, act, captured, hijacked, errors, logged>>

\* The connection sends what it has not sent yet.
Finish ==
  /\ at = "over" /\ sent.status = NoStatus
  /\ sent' = [status |-> Preset, body |-> IF act = "unmatched" THEN "page" ELSE "none"]
  /\ UNCHANGED <<route, act, at, captured, buffer, hijacked, errors, logged>>

Next ==
  \/ Wrap \/ Refuse \/ TooLarge \/ Handle \/ Raise \/ Upgrade \/ NoRoute \/ Panic
  \/ ErrorHandler \/ EnvelopeWrapper \/ AuditLog \/ Recovery \/ Finish

Spec == Init /\ [][Next]_vars

-----------------------------------------------------------------------------
(* Properties *)

Over == at = "over" /\ sent.status # NoStatus

Failures == {"not_found", "unknown_error", "refuse", "too_large", "panic", "unmatched"}

\* Failures of which the buffer's status is never read or never written: a
\* handler that panics on a wrapped route, and a path without a route there.
Masked == act \in {"panic", "unmatched"} /\ route = "wrapped"

\* Whatever fails is answered with its own status, in an envelope on a wrapped
\* route, and logged with the status the client got: "failures keep their status
\* so proxies/log tooling still see the real code" (envelope.go, middleware.go).
\* It does not hold of the masked ones, which are answered with 200: the panic
\* with an empty body, the path without a route with an envelope of success.
FailuresAreSeen ==
  Over /\ act \in Failures =>
    IF Masked
      THEN sent = [status |-> 200, body |-> IF act = "panic" THEN "none" ELSE "success"]
      ELSE /\ sent.status = CASE act \in {"not_found", "unmatched"} -> 404
                              [] act = "refuse" -> 401 [] act = "too_large" -> 413
                              [] OTHER -> 500
           /\ act # "panic" =>
                /\ sent.body = CASE act = "unmatched" -> "page"
                                 [] route = "wrapped" -> "failure" [] OTHER -> "error"
                /\ logged = sent.status

\* What succeeds arrives: payloads in an envelope, redirects and pages as they
\* are, and a hijacked connection is left alone.
AnswersArrive ==
  Over /\ act \in {"json", "no_content", "redirect", "page", "upgrade"} =>
    /\ Success(sent.status) /\ logged = sent.status
    /\ act = "json" => sent.body = IF route = "wrapped" THEN "success" ELSE "data"
    /\ act = "no_content" => sent = [status |-> 204, body |-> "none"]
    /\ act \in {"redirect", "page"} => sent.body = "page"
    /\ act = "upgrade" => sent.body = "frames"

AnswersAreTrue == FailuresAreSeen /\ AnswersArrive
=============================================================================
