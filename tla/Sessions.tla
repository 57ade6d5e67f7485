------------------------------ MODULE Sessions ------------------------------
(***************************************************************************)
(* One account of the API gateway: its one-time codes (otp.service.ts), its *)
(* password, and its sessions and tokens (session.service.ts,               *)
(* tokenBlacklist.service.ts), under the handlers of controllers/auth, none *)
(* of which uses a transaction.  A handler is a sequence of statements, one *)
(* step each: what it has read is in its locals, and may have changed.      *)
(*                                                                         *)
(* Codes, sessions and access tokens are numbered as they are made.  That a *)
(* caller knows a code or a password is its choice; that it is refused for  *)
(* a reason not modelled (a code or token expired, wrong password, failure  *)
(* of a statement, end of the process) is the step Fails.  A definition     *)
(* Mut_X is a mutated form of the definition it precedes.                   *)
(***************************************************************************)
EXTENDS Integers, FiniteSets

CONSTANTS
  Requests,     \* requests that are handled at one time
  Passwords,
  MaxAttempts,  \* MAX_LOGIN_ATTEMPTS
  MaxCodes,     \* bounds: codes, sessions and access tokens made
  MaxSessions,
  MaxTokens

ASSUME SessionsAssumption ==
  /\ IsFiniteSet(Requests) /\ Requests # {}
  /\ MaxAttempts \in Nat \ {0}
  /\ MaxCodes \in Nat /\ MaxSessions \in Nat /\ MaxTokens \in Nat

Codes == 1 .. MaxCodes
SessionIds == 1 .. MaxSessions
Tokens == 1 .. MaxTokens
Purposes == {"email", "reset"}

CONSTANT NoPassword
ASSUME NoPasswordAssumption == NoPassword \notin Passwords

VARIABLES
  emailVerified, password,  \* users
  otp,        \* otp_verifications: per code "none", "open", or "used" when verified
  purpose,
  attempts,
  session,    \* sessions: "none", "valid" or "invalid"
  issued,     \* access tokens made so far
  revoked,    \* token_blacklist
  at,         \* what each request is doing
  code, what, known, sess, token,  \* what it has read, or was sent
  under,      \* history: the password each valid session was opened with
  late,       \* history: valid sessions opened with a password replaced by then
  neglected,  \* history: a password was written, and the sessions left
  spent,      \* history: codes that were accepted, or retired
  overtaken   \* history: requests whose reading another has overwritten

codes == <<otp, purpose, attempts>>
access == <<session, issued, revoked>>
locals == <<code, what, known, sess, token>>
history == <<under, late, neglected, spent, overtaken>>
vars == <<emailVerified, password, codes, access, at, locals, history>>

-----------------------------------------------------------------------------
Made(table, ids) == {i \in ids : table[i] # "none"}
Newest(i, ids) == i \in ids /\ \A j \in ids : j <= i
Open(p) == {c \in Codes : otp[c] = "open" /\ purpose[c] = p}

(* A registered account, whose first code may have failed to be made.       *)
Init ==
  /\ emailVerified = FALSE /\ password = NoPassword
  /\ \E first \in {"none", "open"} : otp = [c \in Codes |-> IF c = 1 THEN first ELSE "none"]
  /\ purpose = [c \in Codes |-> "email"]
  /\ attempts = [c \in Codes |-> 0]
  /\ session = [s \in SessionIds |-> "none"]
  /\ issued = 0 /\ revoked = {}
  /\ at = [w \in Requests |-> "idle"]
  /\ code = [w \in Requests |-> 0] /\ what = [w \in Requests |-> "email"]
  /\ known = [w \in Requests |-> NoPassword]
  /\ sess = [w \in Requests |-> 0] /\ token = [w \in Requests |-> 0]
  /\ under = [s \in SessionIds |-> NoPassword]
  /\ late = {} /\ neglected = FALSE /\ spent = {} /\ overtaken = {}

Goto(w, stage) == at' = [at EXCEPT ![w] = stage]

(* A request that ends forgets what it had read; Marks and Ends name the    *)
(* requests whose reading the step overwrites.                              *)
Marks(others) == overtaken' = overtaken \cup others
Ends(w, others) ==
  /\ Goto(w, "idle")
  /\ code' = [code EXCEPT ![w] = 0] /\ what' = [what EXCEPT ![w] = "email"]
  /\ known' = [known EXCEPT ![w] = NoPassword]
  /\ sess' = [sess EXCEPT ![w] = 0] /\ token' = [token EXCEPT ![w] = 0]
  /\ overtaken' = (overtaken \cup others) \ {w}

At(stages) == {w \in Requests : at[w] \in stages}
Answering(ids) == {w \in At({"checked", "counted"}) : code[w] \in ids}
Replacing == At({"unset", "changing"})
Refreshing == {w \in At({"live"}) : session[sess[w]] = "valid"}
Acting(t) == {w \in At({"authenticated", "changing"}) : token[w] = t}

-----------------------------------------------------------------------------
(* otp.service.ts                                                           *)

(* createOTP does not retire the codes made before. *)
CreateOTP(p) ==
  \E c \in Codes :
    /\ otp[c] = "none" /\ \A d \in Codes : d < c => otp[d] # "none"
    /\ otp' = [otp EXCEPT ![c] = "open"]
    /\ purpose' = [purpose EXCEPT ![c] = p]
    /\ UNCHANGED attempts

(* verifyOTP: the newest open code, and the attempts at it so far. *)
ReadCode(w, p) ==
  /\ at[w] = "idle"
  /\ \E c \in Codes : /\ Newest(c, Open(p))
                      /\ attempts[c] < MaxAttempts
                      /\ code' = [code EXCEPT ![w] = c]
  /\ Goto(w, "checked")
  /\ UNCHANGED <<emailVerified, password, codes, access, what, known, sess, token, history>>

(* The attempt counts before the code is compared. *)
CountAttempt(w) ==
  /\ at[w] = "checked"
  /\ attempts' = [attempts EXCEPT ![code[w]] = @ + 1]
  /\ \/ Goto(w, "counted") /\ UNCHANGED <<locals, overtaken>>
     \/ Ends(w, {})  \* Invalid OTP
  /\ UNCHANGED <<emailVerified, password, otp, purpose, access, under, late, neglected, spent>>

Mut_NotMarked(w) ==
  /\ at[w] = "counted"
  /\ spent' = spent \cup {code[w]}
  /\ Goto(w, "accepted")
  /\ Marks(Answering({code[w]}) \ {w})
  /\ UNCHANGED <<emailVerified, password, codes, access, locals, under, late, neglected>>

MarkVerified(w) ==
  /\ at[w] = "counted"
  /\ otp' = [otp EXCEPT ![code[w]] = "used"]
  /\ spent' = spent \cup {code[w]}
  /\ Goto(w, "accepted")
  /\ Marks(Answering({code[w]}) \ {w})
  /\ UNCHANGED <<emailVerified, password, purpose, attempts, access, locals, under, late, neglected>>

(* resendOTP, in two statements: the codes of this purpose are retired, and *)
(* a new one is made.                                                       *)
RetireCodes(w, p) ==
  /\ at[w] = "idle"
  /\ otp' = [c \in Codes |-> IF c \in Open(p) THEN "used" ELSE otp[c]]
  /\ spent' = spent \cup Open(p)
  /\ what' = [what EXCEPT ![w] = p]
  /\ Goto(w, "retired")
  /\ Marks(Answering(Open(p)))
  /\ UNCHANGED <<emailVerified, password, purpose, attempts, access, code, known, sess, token,
                 under, late, neglected>>

MakeCode(w) ==
  /\ at[w] = "retired"
  /\ CreateOTP(what[w])
  /\ Ends(w, {})
  /\ UNCHANGED <<emailVerified, password, access, under, late, neglected, spent>>

(* forgotPasswordController makes a code and retires none. *)
Forgot ==
  /\ CreateOTP("reset")
  /\ UNCHANGED <<emailVerified, password, access, at, locals, history>>

(* verifyOTPController, once the code is accepted. *)
VerifyEmail(w) ==
  /\ at[w] = "accepted" /\ purpose[code[w]] = "email"
  /\ emailVerified' = TRUE
  /\ Ends(w, {})
  /\ UNCHANGED <<password, codes, access, under, late, neglected, spent>>

-----------------------------------------------------------------------------
(* authenticate: a token that is not revoked, and nothing about its session.*)
Authenticate(w) ==
  /\ at[w] = "idle"
  /\ \E t \in Tokens : /\ t <= issued /\ t \notin revoked
                       /\ token' = [token EXCEPT ![w] = t]
  /\ Goto(w, "authenticated")
  /\ UNCHANGED <<emailVerified, password, codes, access, code, what, known, sess, history>>

(* password.controller.ts.  Two handlers read the account first ...         *)

LookForNoPassword(w) ==
  /\ at[w] = "idle"
  /\ emailVerified /\ password = NoPassword
  /\ known' = [known EXCEPT ![w] = password]
  /\ Goto(w, "unset")
  /\ UNCHANGED <<emailVerified, password, codes, access, code, what, sess, token, history>>

CheckCurrent(w) ==
  /\ at[w] = "authenticated"
  /\ password # NoPassword
  /\ known' = [known EXCEPT ![w] = password]
  /\ Goto(w, "changing")
  /\ UNCHANGED <<emailVerified, password, codes, access, code, what, sess, token, history>>

(* ... and none asks again when it writes.                                  *)

SetPassword(w, new) ==
  /\ at[w] = "unset"
  /\ password' = new
  /\ neglected' = TRUE
  /\ Ends(w, Replacing)
  /\ UNCHANGED <<emailVerified, codes, access, under, late, spent>>

ReplacePassword(w, new) ==
  /\ \/ at[w] = "changing" /\ new # known[w]
     \/ at[w] = "accepted" /\ purpose[code[w]] = "reset"
  /\ password' = new
  /\ Goto(w, "replaced")
  /\ Marks(Replacing \ {w})
  /\ UNCHANGED <<emailVerified, codes, access, locals, under, late, neglected, spent>>

Mut_KeepsTheNewest(w) ==
  /\ \E kept \in SessionIds :
       /\ Newest(kept, Made(session, SessionIds))
       /\ session' = [s \in SessionIds |->
            IF session[s] = "valid" /\ s # kept THEN "invalid" ELSE session[s]]
       /\ under' = [s \in SessionIds |-> IF s = kept THEN under[s] ELSE NoPassword]
       /\ late' = late \cap {kept}
  /\ neglected' = FALSE
  /\ Ends(w, Refreshing)
  /\ UNCHANGED <<emailVerified, password, codes, issued, revoked, spent>>

(* invalidateAllUserSessions *)
InvalidateAll(w) ==
  /\ session' = [s \in SessionIds |-> IF session[s] = "valid" THEN "invalid" ELSE session[s]]
  /\ under' = [s \in SessionIds |-> NoPassword] /\ late' = {}
  /\ neglected' = FALSE
  /\ Ends(w, Refreshing)
  /\ UNCHANGED <<emailVerified, password, codes, issued, revoked, spent>>

AfterReplacing(w) == at[w] = "replaced" /\ InvalidateAll(w)

-----------------------------------------------------------------------------
(* login.controller.ts                                                      *)

Mut_NoPasswordNeeded(w) ==
  /\ at[w] = "idle"
  /\ emailVerified
  /\ known' = [known EXCEPT ![w] = password]
  /\ Goto(w, "entering")
  /\ UNCHANGED <<emailVerified, password, codes, access, code, what, sess, token, history>>

ReadAccount(w) ==
  /\ at[w] = "idle"
  /\ emailVerified /\ password # NoPassword
  /\ known' = [known EXCEPT ![w] = password]
  /\ Goto(w, "entering")
  /\ UNCHANGED <<emailVerified, password, codes, access, code, what, sess, token, history>>

IssueToken == issued < MaxTokens /\ issued' = issued + 1

OpenSession(w) ==
  /\ at[w] = "entering"
  /\ \E s \in SessionIds :
       /\ session[s] = "none" /\ \A r \in SessionIds : r < s => session[r] # "none"
       /\ session' = [session EXCEPT ![s] = "valid"]
       /\ under' = [under EXCEPT ![s] = known[w]]
       /\ late' = IF known[w] = password THEN late ELSE late \cup {s}
  /\ IssueToken
  /\ Ends(w, {})
  /\ UNCHANGED <<emailVerified, password, codes, revoked, neglected, spent>>

-----------------------------------------------------------------------------
(* token.controller.ts                                                      *)

(* The session is read once, and the account once more. *)
ReadSession(w) ==
  /\ at[w] = "idle"
  /\ \E s \in SessionIds : session[s] = "valid" /\ sess' = [sess EXCEPT ![w] = s]
  /\ Goto(w, "live")
  /\ UNCHANGED <<emailVerified, password, codes, access, code, what, known, token, history>>

(* The number of the new token is kept in the session, where nothing reads it. *)
Refresh(w) ==
  /\ at[w] = "live"
  /\ IssueToken
  /\ Ends(w, {})
  /\ UNCHANGED <<emailVerified, password, codes, session, revoked, under, late, neglected, spent>>

(* logout, with or without a refresh token: that one is revoked as well,    *)
(* though nothing asks for it but the session.                              *)
Revoke(w) ==
  /\ at[w] = "authenticated"
  /\ revoked' = revoked \cup {token[w]}
  /\ \/ Goto(w, "leaving") /\ UNCHANGED locals /\ Marks(Acting(token[w]) \ {w})
     \/ Ends(w, Acting(token[w]))
  /\ UNCHANGED <<emailVerified, password, codes, session, issued, under, late, neglected, spent>>

Leave(w) ==
  /\ at[w] = "leaving"
  /\ \E s \in Made(session, SessionIds) :
       /\ session' = [session EXCEPT ![s] = "invalid"]
       /\ under' = [under EXCEPT ![s] = NoPassword] /\ late' = late \ {s}
       /\ Ends(w, {r \in Refreshing : sess[r] = s})
  /\ UNCHANGED <<emailVerified, password, codes, issued, revoked, neglected, spent>>

LogoutAll(w) == at[w] = "authenticated" /\ InvalidateAll(w)

-----------------------------------------------------------------------------
(* A request is refused, fails or ends with the process.                    *)
Fails(w) ==
  /\ at[w] # "idle"
  /\ neglected' = (neglected \/ at[w] = "replaced")
  /\ Ends(w, {})
  /\ UNCHANGED <<emailVerified, password, codes, access, under, late, spent>>

Next ==
  \/ Forgot
  \/ \E w \in Requests :
       \/ \E p \in Purposes : ReadCode(w, p) \/ RetireCodes(w, p)
       \/ CountAttempt(w) \/ MarkVerified(w) \/ MakeCode(w) \/ VerifyEmail(w)
       \/ Authenticate(w) \/ LookForNoPassword(w) \/ CheckCurrent(w)
       \/ \E new \in Passwords : SetPassword(w, new) \/ ReplacePassword(w, new)
       \/ AfterReplacing(w)
       \/ ReadAccount(w) \/ OpenSession(w) \/ ReadSession(w) \/ Refresh(w)
       \/ Revoke(w) \/ Leave(w) \/ LogoutAll(w)
       \/ Fails(w)

Spec == Init /\ [][Next]_vars

-----------------------------------------------------------------------------
Stages == {"idle", "checked", "counted", "accepted", "retired", "authenticated", "unset",
           "changing", "replaced", "entering", "live", "leaving"}

TypeOK ==
  /\ emailVerified \in BOOLEAN /\ password \in Passwords \cup {NoPassword}
  /\ otp \in [Codes -> {"none", "open", "used"}]
  /\ purpose \in [Codes -> Purposes] /\ attempts \in [Codes -> Nat]
  /\ session \in [SessionIds -> {"none", "valid", "invalid"}]
  /\ issued \in 0 .. MaxTokens /\ revoked \subseteq 1 .. issued
  /\ at \in [Requests -> Stages]
  /\ code \in [Requests -> Codes \cup {0}] /\ what \in [Requests -> Purposes]
  /\ known \in [Requests -> Passwords \cup {NoPassword}]
  /\ sess \in [Requests -> SessionIds \cup {0}] /\ token \in [Requests -> Tokens \cup {0}]
  /\ under \in [SessionIds -> Passwords \cup {NoPassword}]
  /\ late \subseteq SessionIds /\ neglected \in BOOLEAN /\ spent \subseteq Codes /\ overtaken \subseteq Requests
  /\ \A w \in Requests :
       /\ at[w] \in {"checked", "counted", "accepted"} => code[w] \in Codes
       /\ at[w] \in {"changing", "entering"} => known[w] \in Passwords
       /\ at[w] = "live" => sess[w] \in SessionIds
       /\ at[w] \in {"authenticated", "changing", "leaving"} => token[w] \in 1 .. issued

(* The limit of attempts at a code is exceeded only by the requests that    *)
(* are handled at one time: each reads the count before it adds to it.      *)
GuessesAreBounded ==
  \A c \in Codes : attempts[c] <= MaxAttempts + Cardinality(Requests) - 1

(* A code that was accepted or retired is accepted again only for a request *)
(* that had read it before.                                                 *)
AnsweredOnce ==
  \A w \in Requests : at[w] = "counted" /\ at'[w] = "accepted" =>
    code[w] \notin spent \/ w \in overtaken
CodesAreAnsweredOnce == [][AnsweredOnce]_vars

(* Without a code, a password is replaced only by a request that knew it,   *)
(* or whose reading of it another one's write had overtaken.                *)
ReplacedKnowingly ==
  \A w \in Requests : at[w] \in {"unset", "changing"} /\ at'[w] # at[w] /\ password' # password =>
    known[w] = password \/ w \in overtaken
PasswordReplacedKnowingly == [][ReplacedKnowingly]_vars

(* A session opened with a password that was replaced since is valid only   *)
(* while the change is underway, if it stopped there or was a first         *)
(* password set twice, or if the session was opened after it by a login     *)
(* that had read the old password.                                          *)
SessionsFollowThePassword ==
  \A s \in SessionIds : session[s] = "valid" /\ under[s] # password =>
    s \in late \/ neglected \/ \E w \in Requests : at[w] = "replaced"

(* What failed guesses and replaced passwords may still open is bounded. *)
LimitsHold == GuessesAreBounded /\ SessionsFollowThePassword

(* A session that has ended gives a token, and a revoked token changes a    *)
(* password or ends the sessions, only in a request that was past its check *)
(* when that happened.                                                      *)
EndedIsInert ==
  \A w \in Requests \ overtaken :
    /\ at[w] = "live" /\ at'[w] # at[w] /\ issued' # issued => session[sess[w]] = "valid"
    /\ at[w] \in {"authenticated", "changing"} /\ at'[w] # at[w]
         /\ (password' # password \/ session' # session) => token[w] \notin revoked
NothingFromTheEnded == [][EndedIsInert]_vars

(* What no longer counts, an answered code, a replaced password, an ended   *)
(* session or a revoked token, has an effect only through a request that    *)
(* had read it while it did.                                                *)
NothingStaleCounts == [][AnsweredOnce /\ ReplacedKnowingly /\ EndedIsInert]_vars
=============================================================================
