------------------------------- MODULE SignUp -------------------------------
(***************************************************************************)
(* How accounts come into being: the web sign-up with its one-time code by *)
(* e-mail, the mobile sign-up that is verified at once, and the first      *)
(* Google login.  profiles.email is UNIQUE, profiles.phone is not; who     *)
(* signs up with a phone number gets an address derived from it.           *)
(*                                                                         *)
(* Each member of Calls is one request, and an account or a one-time code  *)
(* is named after the call that made it.  A call takes a step per          *)
(* statement.  Codes are taken to differ; a call may use a code only if it *)
(* was mailed.                                                             *)
(***************************************************************************)
CONSTANTS
  Calls,
  NoCall,
  Emails,
  Phones,
  NoPhone,
  Digits(_),   \* a phone number without its leading +
  Asked        \* the forms that are filled in

VARIABLES
  form,      \* what a sign-up asks for
  rows,      \* calls whose profile was inserted
  verified,  \* profiles whose e-mail is verified
  shops,     \* sellers who have their shop
  otp,       \* email_otp:<account> in Redis, NoCall if none
  mailed,    \* codes that reached their owner
  step,      \* next step of each call
  target,    \* account that a call verifies or mails to
  code       \* code that a call presents

accountVars == <<form, rows, verified, shops, otp, mailed>>
vars == <<accountVars, step, target, code>>

\* phoneEmail, the address of who has none.
PhoneEmailAsTyped(p) == p   \* Mutant: the leading + is kept.

PhoneEmail(p) == Digits(p)

\* The four cases of RegisterSpec are two: an address and perhaps a phone, or a phone only.
Forms ==
  [via : {"web", "seller", "mobile"}, address : Emails, phone : Phones \cup {NoPhone}]
  \cup {[via |-> "phone", address |-> PhoneEmail(p), phone |-> p] : p \in Phones}
  \cup [via : {"google"}, address : Emails, phone : {NoPhone}]

TypeOK ==
  /\ DOMAIN form \subseteq Calls /\ \A c \in DOMAIN form : form[c] \in Asked \cap Forms
  /\ rows \in SUBSET DOMAIN form
  /\ verified \in SUBSET rows /\ shops \in SUBSET rows
  /\ otp \in [Calls -> Calls \cup {NoCall}] /\ mailed \in SUBSET Calls
  /\ step \in [Calls -> {"idle", "checkPhone", "checkEmail", "insert", "shop",
                         "store", "drop", "consume", "mark", "done"}]
  /\ target \in [Calls -> Calls] /\ code \in [Calls -> Calls \cup {NoCall}]

Init ==
  /\ form = [c \in {} |-> NoCall]
  /\ rows = {} /\ verified = {} /\ shops = {}
  /\ otp = [c \in Calls |-> NoCall] /\ mailed = {}
  /\ step = [c \in Calls |-> "idle"]
  /\ target = [c \in Calls |-> c] /\ code = [c \in Calls |-> NoCall]

GoTo(c, s) == step' = [step EXCEPT ![c] = s]

\* EmailExists and FindByEmail.
Holders(a) == {u \in rows : form[u].address = a}

\* FindByPhone.
PhoneHolders(p) == {u \in rows : form[u].phone = p}

------------------------------------------------------------------------------
\* The request is bound and its fields are sorted into a form.
Begin(c, f) ==
  /\ step[c] = "idle"
  /\ form' = [d \in DOMAIN form \cup {c} |-> IF d = c THEN f ELSE form[d]]
  /\ GoTo(c, IF f.via = "phone" THEN "checkPhone" ELSE "checkEmail")
  /\ UNCHANGED <<rows, verified, shops, otp, mailed, target, code>>

\* "reject a phone that already has an account".
CheckPhone(c) ==
  /\ step[c] = "checkPhone"
  /\ GoTo(c, IF PhoneHolders(form[c].phone) = {} THEN "checkEmail" ELSE "done")
  /\ UNCHANGED <<accountVars, target, code>>

\* EmailExists, and for Google the login of an account that exists.
CheckEmail(c) ==
  /\ step[c] = "checkEmail"
  /\ GoTo(c, IF Holders(form[c].address) = {} THEN "insert" ELSE "done")
  /\ UNCHANGED <<accountVars, target, code>>

\* CreateProfile and CreateGoogleProfile: the UNIQUE address decides a race.
CreateProfile(c) ==
  /\ step[c] = "insert"
  /\ \/ /\ Holders(form[c].address) = {}
        /\ rows' = rows \cup {c}
        /\ verified' = IF form[c].via = "google" THEN verified \cup {c} ELSE verified
        /\ GoTo(c, CASE form[c].via = "google" -> "done"
                     [] form[c].via = "seller" -> "shop"
                     [] OTHER -> "store")
     \/ GoTo(c, "done") /\ UNCHANGED <<rows, verified>>
  /\ UNCHANGED <<form, shops, otp, mailed, target, code>>

\* CreateShopForSeller, its error discarded.
CreateShopForSeller(c) ==
  /\ step[c] = "shop"
  /\ GoTo(c, "store")
  /\ shops' \in {shops, shops \cup {c}}
  /\ UNCHANGED <<form, rows, verified, otp, mailed, target, code>>

\* The code is stored and mailed through the bus, which may lose it; if it
\* cannot be stored the request fails, and the profile stays.
StoreOTP(c) ==
  /\ step[c] = "store"
  /\ \/ /\ otp' = [otp EXCEPT ![target[c]] = c]
        /\ mailed' \in {mailed, mailed \cup {c}}
        /\ GoTo(c, IF target[c] = c /\ form[c].via \in {"mobile", "phone"}
                     THEN "drop" ELSE "done")
     \/ GoTo(c, "done") /\ UNCHANGED <<otp, mailed>>
  /\ UNCHANGED <<form, rows, verified, shops, target, code>>

\* MarkVerified of the mobile flow drops the code first.
DropOTP(c) ==
  /\ step[c] = "drop"
  /\ GoTo(c, "mark")
  /\ otp' \in {otp, [otp EXCEPT ![c] = NoCall]}
  /\ UNCHANGED <<form, rows, verified, shops, mailed, target, code>>

\* MarkEmailVerified, the last statement of both flows; it may fail.
MarkEmailVerified(c) ==
  /\ step[c] = "mark"
  /\ GoTo(c, "done")
  /\ verified' \in {verified, verified \cup {target[c]}}
  /\ UNCHANGED <<form, rows, shops, otp, mailed, target, code>>

------------------------------------------------------------------------------
\* The code in Redis is the one that the user typed.
AnyCode(u, k) == otp[u] # NoCall   \* Mutant: any code will do.

CodeMatches(u, k) == otp[u] = k

\* VerifyEmailOTP: an account that is verified already is left alone.
BeginVerify(c, u, k) ==
  /\ step[c] = "idle"
  /\ u \in rows /\ k \in mailed
  /\ target' = [target EXCEPT ![c] = u]
  /\ code' = [code EXCEPT ![c] = k]
  /\ GoTo(c, IF u \notin verified /\ CodeMatches(u, k) THEN "consume" ELSE "done")
  /\ UNCHANGED accountVars

\* The key is deleted whatever it holds by now, its error discarded.
ConsumeOTP(c) ==
  /\ step[c] = "consume"
  /\ GoTo(c, "mark")
  /\ otp' \in {otp, [otp EXCEPT ![target[c]] = NoCall]}
  /\ UNCHANGED <<form, rows, verified, shops, mailed, target, code>>

\* ResendOTP: silent if the account is verified or does not exist.
ResendOTP(c, u) ==
  /\ step[c] = "idle"
  /\ u \in rows
  /\ target' = [target EXCEPT ![c] = u]
  /\ GoTo(c, IF u \in verified THEN "done" ELSE "store")
  /\ UNCHANGED <<accountVars, code>>

OTPExpires(u) ==
  /\ otp[u] # NoCall
  /\ otp' = [otp EXCEPT ![u] = NoCall]
  /\ UNCHANGED <<form, rows, verified, shops, mailed, step, target, code>>

Register(c) ==
  \/ CheckEmail(c) \/ CreateProfile(c) \/ CreateShopForSeller(c) \/ StoreOTP(c)

RegisterSpec(c) ==
  \/ \E f \in Asked \cap Forms : Begin(c, f)
  \/ CheckPhone(c) \/ DropOTP(c) \/ MarkEmailVerified(c)

Verify(c) == \E u \in rows :
  \/ \E k \in mailed : BeginVerify(c, u, k)
  \/ ResendOTP(c, u)

Next ==
  \/ \E c \in Calls : Register(c) \/ RegisterSpec(c) \/ Verify(c) \/ ConsumeOTP(c)
  \/ \E u \in Calls : OTPExpires(u)

Spec == Init /\ [][Next]_vars

------------------------------------------------------------------------------
\* Two accounts that were opened with a phone number have different numbers,
\* although the check and the insert are apart and the column is not UNIQUE:
\* the derived address decides ("so phone-login stays unambiguous").
PhoneAccountsDiffer ==
  \A u, w \in rows :
    /\ form[u].via = "phone" /\ form[w].via = "phone"
    /\ Digits(form[u].phone) = Digits(form[w].phone)
    => u = w

\* An account that was opened on the web is verified only after somebody
\* presented a code that was mailed for this very account (VerifyEmailOTP),
\* whatever other sign-ups and new codes did meanwhile.
VerifiedByOwnCode ==
  \A u \in verified : form[u].via \in {"web", "seller"} =>
    \E c \in Calls : target[c] = u /\ code[c] # NoCall /\ target[code[c]] = u
==============================================================================
