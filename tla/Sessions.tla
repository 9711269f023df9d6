------------------------------ MODULE Sessions ------------------------------
(***************************************************************************)
(* AuthService: an account, its one-time code and its refresh tokens.      *)
(* register, login, verifyOtp, refreshToken, logout, logoutAll,            *)
(* forgotPassword and resetPassword are handlers whose awaits on the       *)
(* repositories interleave; save() of a row is one step, as it runs its    *)
(* statements in one transaction.                                          *)
(*                                                                         *)
(* All tables are keyed by the user, so this is one user, known by one     *)
(* email address.  Hashes are what they hash; JWTs are their kind or, for  *)
(* a refresh token, the row they belong to.  Access tokens are tied to no  *)
(* session.                                                                *)
(***************************************************************************)
EXTENDS Integers, FiniteSets

CONSTANTS
    Passwords,
    Tokens,         \* BOUND: refresh tokens ever signed
    Codes,          \* BOUND: one-time codes ever generated, all different
    MaxAttempts,    \* AUTH_CONSTANTS.OTP.MAX_ATTEMPTS
    Handlers,       \* BOUND: requests at a time
    MaxCrashes,     \* BOUND: crashes of the server
    MaxRequests,    \* BOUND: requests handled, logouts not counted
    Null

\* The uses of the JWTs that are not refresh tokens.
Grants == {"email_verification", "password_reset_verification", "password_reset"}

RequestKinds ==
    {"register", "login", "verifyEmail", "refresh", "forgot", "verifyReset", "reset"}

ASSUME SessionsAssumption ==
    /\ IsFiniteSet(Handlers) /\ Handlers # {}
    /\ MaxAttempts \in Nat /\ MaxCrashes \in Nat /\ MaxRequests \in Nat
    /\ Null \notin Passwords \cup Tokens \cup Codes
    /\ Tokens \cap Grants = {} /\ Null \notin Grants \cup RequestKinds

VARIABLES
    account,    \* users: the row of the email address, or Null
    tokens,     \* refresh_tokens: the row of a token's hash, or Null
    otp,        \* otps: the row of the user, or Null
    op,         \* the local state of every handler
    delivered,  \* the tokens and grants that reached a client
    issued,     \* the codes generated so far
    requests,   \* requests so far
    crashes,    \* crashes so far
    opened,     \* HISTORY: how a token's session was opened, or Null
    ended,      \* HISTORY: the sessions ended by revoking all tokens
    contended,  \* HISTORY: tokens two requests used at the same moment
    overlapped, \* HISTORY: tokens being signed while a reset revoked all
    cutShort,   \* HISTORY: a crash came between a new password and the revocation
    guesses,    \* HISTORY: how often a code was compared with a wrong one
    used        \* HISTORY: the codes accepted

tables == <<account, tokens, otp>>
sessionHistory == <<opened, ended, contended, overlapped, cutShort>>
codeHistory == <<issued, guesses, used>>
counters == <<requests, crashes>>
vars == <<tables, op, delivered, counters, sessionHistory, codeHistory>>

\* available: neither removed, deactivated nor suspended.
Accounts == [password: Passwords, verified: BOOLEAN, available: BOOLEAN]

\* replacedByTokenHash is written and never read.
TokenRows == [revoked: BOOLEAN, expired: BOOLEAN]

\* id is the code the row was inserted with.
OtpRows == [id: Codes, code: Codes, attempts: Nat, expired: BOOLEAN]

ASSUME NullIsNoRow == Null \notin Accounts \cup TokenRows \cup OtpRows

\* The session of a token: its first token, and the password the account had
\* when it was opened.
Openings == [root: Tokens, password: Passwords]

ASSUME NullIsNoOpening == Null \notin Openings

\* gives is what the answer will carry, refresh tokens included.
Ops ==
    [kind: RequestKinds \cup {Null},
     pc: {"idle", "create", "otpFind", "otpSave", "otpRead", "count", "reject",
          "verified", "dropCode", "password", "revoke", "store", "consume",
          "replace", "answer"},
     password: Passwords \cup {Null}, gives: Tokens \cup Grants \cup {Null},
     old: Tokens \cup {Null}, code: Codes \cup {Null}, row: OtpRows \cup {Null}]

Idle ==
    [kind |-> Null, pc |-> "idle", password |-> Null, gives |-> Null,
     old |-> Null, code |-> Null, row |-> Null]

TypeOK ==
    /\ account \in Accounts \cup {Null}
    /\ tokens \in [Tokens -> TokenRows \cup {Null}]
    /\ otp \in OtpRows \cup {Null}
    /\ op \in [Handlers -> Ops]
    /\ delivered \subseteq Tokens \cup Grants
    /\ requests \in 0..MaxRequests /\ crashes \in 0..MaxCrashes
    /\ opened \in [Tokens -> Openings \cup {Null}]
    /\ ended \subseteq Tokens /\ contended \subseteq Tokens /\ overlapped \subseteq Tokens
    /\ cutShort \in BOOLEAN
    /\ issued \subseteq Codes /\ used \subseteq Codes
    /\ guesses \in [Codes -> Nat]

Init ==
    /\ account = Null
    /\ tokens = [t \in Tokens |-> Null]
    /\ otp = Null
    /\ op = [h \in Handlers |-> Idle]
    /\ delivered = {}
    /\ requests = 0 /\ crashes = 0
    /\ opened = [t \in Tokens |-> Null]
    /\ ended = {} /\ contended = {} /\ overlapped = {} /\ cutShort = FALSE
    /\ issued = {} /\ used = {} /\ guesses = [c \in Codes |-> 0]

-----------------------------------------------------------------------------
\* canAccountAuthenticate, of an account that was found.
CanAuthenticate == account # Null /\ account.available

Unrevoked(t) == tokens[t] # Null /\ ~tokens[t].revoked
Active(t) == Unrevoked(t) /\ ~tokens[t].expired
Live == {t \in Tokens: opened[t] # Null /\ Unrevoked(t)}

\* verifyRefreshToken: a client has the JWT and it is not expired.  Whether it
\* is revoked is up to the table.
ValidJwt(t) == t \in delivered /\ ~tokens[t].expired

\* A client has a JWT for this use; it does not expire in the model.
Presented(grant) == grant \in delivered

\* A token just signed: never stored, and of no other handler.
Fresh(t) == tokens[t] = Null /\ \A h \in Handlers: op[h].gives # t

Goto(h, state) == op' = [op EXCEPT ![h] = state]
At(h, pc) == op[h].pc = pc
Proceed(h, pc) == Goto(h, [op[h] EXCEPT !.pc = pc])

\* Handler h takes a request.  Reads and checks up to its first write are
\* part of the step, since they are one query and no await changes the rest.
Begin(h, state) ==
    /\ op[h] = Idle
    /\ requests < MaxRequests
    /\ requests' = requests + 1
    /\ Goto(h, state)
    /\ UNCHANGED <<tables, delivered, crashes, sessionHistory, codeHistory>>

\* A step of a handler that touches no table.
Local(h, state) ==
    /\ Goto(h, state)
    /\ UNCHANGED <<tables, delivered, counters, sessionHistory, codeHistory>>

\* An exception: the client gets an error.
Throw(h) == Local(h, Idle)

-----------------------------------------------------------------------------
(* Accounts that come and go by other services.                            *)

\* EmployeesService.enroll and the seed create verified accounts.
Enrol(password) ==
    /\ account = Null
    /\ account' = [password |-> password, verified |-> TRUE, available |-> TRUE]
    /\ UNCHANGED <<tokens, otp, op, delivered, counters, sessionHistory, codeHistory>>

\* UserService.delete: the row goes, the tokens and the code stay.  A later
\* account of this address is another user, with other tokens.
RemoveAccount ==
    /\ CanAuthenticate
    /\ account' = [account EXCEPT !.available = FALSE]
    /\ UNCHANGED <<tokens, otp, op, delivered, counters, sessionHistory, codeHistory>>

-----------------------------------------------------------------------------
(* Requests, up to their first write.                                      *)

Register(h) ==
    /\ account = Null
    /\ \E password \in Passwords:
         Begin(h, [Idle EXCEPT !.kind = "register", !.pc = "create", !.password = password,
                               !.gives = "email_verification"])

\* With the right password: the row as it was read decides.
Login(h) ==
    /\ CanAuthenticate
    /\ \/ /\ account.verified
          /\ \E t \in Tokens:
               /\ Fresh(t)
               /\ Begin(h, [Idle EXCEPT !.kind = "login", !.pc = "store", !.gives = t,
                                        !.password = account.password])
       \/ /\ ~account.verified
          /\ Begin(h, [Idle EXCEPT !.kind = "login", !.pc = "revoke",
                                   !.gives = "email_verification"])

\* An address that is verified already opens a session without the code.
VerifyEmail(h) ==
    /\ Presented("email_verification")
    /\ CanAuthenticate
    /\ \E t \in Tokens, code \in issued \cup {Null}:
         /\ Fresh(t)
         /\ Begin(h, [Idle EXCEPT !.kind = "verifyEmail",
                                  !.pc = IF account.verified THEN "dropCode" ELSE "otpRead",
                                  !.gives = t, !.code = code,
                                  !.password = account.password])

VerifyReset(h) ==
    /\ Presented("password_reset_verification")
    /\ CanAuthenticate
    /\ \E code \in issued \cup {Null}:
         Begin(h, [Idle EXCEPT !.kind = "verifyReset", !.pc = "otpRead", !.code = code,
                               !.gives = "password_reset"])

Forgot(h) ==
    /\ CanAuthenticate
    /\ Begin(h, [Idle EXCEPT !.kind = "forgot", !.pc = "otpFind",
                             !.gives = "password_reset_verification"])

Reset(h) ==
    /\ Presented("password_reset")
    /\ CanAuthenticate
    /\ \E password \in Passwords:
         Begin(h, [Idle EXCEPT !.kind = "reset", !.pc = "password", !.password = password])

\* Any refresh token a client ever got, while its JWT is valid.
Refresh(h) ==
    /\ CanAuthenticate
    /\ \E old, t \in Tokens:
         /\ ValidJwt(old)
         /\ Fresh(t)
         /\ Begin(h, [Idle EXCEPT !.kind = "refresh", !.pc = "store", !.old = old, !.gives = t])

\* One update, whatever the row holds.
Logout(t) ==
    /\ CanAuthenticate /\ account.verified
    /\ ValidJwt(t)
    /\ tokens' = [tokens EXCEPT ![t].revoked = TRUE]
    /\ contended' = IF \E h \in Handlers: At(h, "replace") /\ op[h].old = t
                    THEN contended \cup {t} ELSE contended
    /\ UNCHANGED <<account, otp, op, delivered, counters, opened, ended, overlapped, cutShort,
                   codeHistory>>

-----------------------------------------------------------------------------
(* Steps on users and refresh_tokens.                                      *)

\* The unique index on the email address.
CreateAccount(h) ==
    /\ At(h, "create")
    /\ account = Null
    /\ account' = [password |-> op[h].password, verified |-> FALSE, available |-> TRUE]
    /\ Proceed(h, "otpFind")
    /\ UNCHANGED <<tokens, otp, delivered, counters, sessionHistory, codeHistory>>

EmailTaken(h) == At(h, "create") /\ account # Null /\ Throw(h)

MarkVerified(h) ==
    /\ At(h, "verified")
    /\ account' = [account EXCEPT !.verified = TRUE]
    /\ Proceed(h, "dropCode")
    /\ UNCHANGED <<tokens, otp, delivered, counters, sessionHistory, codeHistory>>

\* FAULT: the sessions opened with the old password go on.
SetPasswordOnly(h) ==
    /\ At(h, "password")
    /\ account' = [account EXCEPT !.password = op[h].password]
    /\ Proceed(h, "dropCode")
    /\ UNCHANGED <<tokens, otp, delivered, counters, sessionHistory, codeHistory>>

SetPassword(h) ==
    /\ At(h, "password")
    /\ account' = [account EXCEPT !.password = op[h].password]
    /\ Proceed(h, "revoke")
    /\ UNCHANGED <<tokens, otp, delivered, counters, sessionHistory, codeHistory>>

\* FAULT: isRevoked has no default.
NewRowWithoutDefault == [revoked |-> Null, expired |-> FALSE]

NewRow == [revoked |-> FALSE, expired |-> FALSE]

\* storeRefreshToken.  A session opened by a password or a code begins here;
\* the token of a refresh is not yet anybody's.
StoreToken(h) ==
    /\ At(h, "store")
    /\ LET t == op[h].gives
       IN  /\ tokens' = [tokens EXCEPT ![t] = NewRow]
           /\ IF op[h].kind = "refresh"
              THEN Proceed(h, "consume") /\ UNCHANGED opened
              ELSE /\ Proceed(h, "answer")
                   /\ opened' = [opened EXCEPT ![t] = [root |-> t, password |-> op[h].password]]
    /\ UNCHANGED <<account, otp, delivered, counters, ended, contended, overlapped, cutShort,
                   codeHistory>>

\* FAULT: the old token is looked up by its hash alone.
ConsumeFindsAny(h) ==
    /\ At(h, "consume")
    /\ Proceed(h, "replace")
    /\ UNCHANGED <<tables, delivered, counters, sessionHistory, codeHistory>>

\* consumeActiveByTokenHash: the query.
ConsumeFinds(h) ==
    /\ At(h, "consume")
    /\ Active(op[h].old)
    /\ Proceed(h, "replace")
    /\ contended' = IF \E other \in Handlers: At(other, "replace") /\ op[other].old = op[h].old
                    THEN contended \cup {op[h].old} ELSE contended
    /\ UNCHANGED <<tables, delivered, counters, opened, ended, overlapped, cutShort, codeHistory>>

\* A superseded, revoked or expired token ends all sessions.
ConsumeFindsNone(h) ==
    /\ At(h, "consume")
    /\ ~Active(op[h].old)
    /\ Local(h, [op[h] EXCEPT !.pc = "revoke"])

\* FAULT: the new token is stored once the old one is consumed.
ReplaceAndStore(h) ==
    /\ At(h, "replace")
    /\ tokens' = [tokens EXCEPT ![op[h].old].revoked = TRUE,
                                ![op[h].gives] = NewRow]
    /\ opened' = [opened EXCEPT ![op[h].gives] = opened[op[h].old]]
    /\ Proceed(h, "answer")
    /\ UNCHANGED <<account, otp, delivered, counters, ended, contended, overlapped, cutShort,
                   codeHistory>>

\* consumeActiveByTokenHash: the save of the row as it was found.
ReplaceToken(h) ==
    /\ At(h, "replace")
    /\ tokens' = [tokens EXCEPT ![op[h].old].revoked = TRUE]
    /\ opened' = [opened EXCEPT ![op[h].gives] = opened[op[h].old]]
    /\ Proceed(h, "answer")
    /\ UNCHANGED <<account, otp, delivered, counters, ended, contended, overlapped, cutShort,
                   codeHistory>>

\* Handlers whose answer will open a session.
Opening(h) == op[h].kind \in {"login", "verifyEmail"} /\ op[h].gives \in Tokens

Revoked == [t \in Tokens |-> IF tokens[t] = Null THEN Null
                             ELSE [tokens[t] EXCEPT !.revoked = TRUE]]

Roots == {opened[t].root: t \in {u \in Tokens: opened[u] # Null}}

\* revokeAllByUserId, and the handler that called it goes on.
RevokeAll(h) ==
    /\ At(h, "revoke")
    /\ tokens' = Revoked
    /\ ended' = ended \cup Roots
    /\ IF op[h].kind = "reset"
       THEN /\ overlapped' = overlapped \cup {op[g].gives: g \in {g \in Handlers: Opening(g)}}
            /\ cutShort' = FALSE
       ELSE UNCHANGED <<overlapped, cutShort>>
    /\ Goto(h, CASE op[h].kind = "login" -> [op[h] EXCEPT !.pc = "otpFind"]
                 [] op[h].kind = "reset" -> [op[h] EXCEPT !.pc = "dropCode"]
                 [] OTHER -> Idle)
    /\ UNCHANGED <<account, otp, delivered, counters, opened, contended, codeHistory>>

LogoutAll ==
    /\ CanAuthenticate /\ account.verified
    /\ tokens' = Revoked
    /\ ended' = ended \cup Roots
    /\ UNCHANGED <<account, otp, op, delivered, counters, opened, contended, overlapped, cutShort,
                   codeHistory>>

\* The response, after a last update of lastLoginAt or the signing of a JWT.
Answer(h) ==
    /\ At(h, "answer")
    /\ delivered' = delivered \cup ({op[h].gives} \ {Null})
    /\ Goto(h, Idle)
    /\ UNCHANGED <<tables, counters, sessionHistory, codeHistory>>

-----------------------------------------------------------------------------
(* Steps on otps.                                                          *)

\* The row that handler h has read is still there, whatever it holds by now.
SameRow(h) == op[h].row # Null /\ otp # Null /\ otp.id = op[h].row.id

\* upsertForUser: the query for the user's row, with a code just generated.
OtpFinds(h) ==
    /\ At(h, "otpFind")
    /\ \E code \in Codes \ issued:
         /\ issued' = issued \cup {code}
         /\ Goto(h, [op[h] EXCEPT !.pc = "otpSave", !.row = otp, !.code = code])
    /\ UNCHANGED <<tables, delivered, counters, sessionHistory, guesses, used>>

\* upsertForUser: the row found is written, even if it is gone by now; else
\* a row is inserted.
OtpSaves(h) ==
    /\ At(h, "otpSave")
    /\ otp = Null \/ SameRow(h)
    /\ otp' = [id |-> IF op[h].row = Null THEN op[h].code ELSE op[h].row.id,
               code |-> op[h].code, attempts |-> 0, expired |-> FALSE]
    /\ Goto(h, [op[h] EXCEPT !.pc = "answer", !.row = Null, !.code = Null])
    /\ UNCHANGED <<account, tokens, delivered, counters, sessionHistory, codeHistory>>

\* The unique index on the user.
OtpSaveFails(h) ==
    /\ At(h, "otpSave")
    /\ otp # Null /\ ~SameRow(h)
    /\ Throw(h)

OtpMissing(h) == At(h, "otpRead") /\ otp = Null /\ Throw(h)

\* FAULT: one guess too many.
SpentAbove(row) == row.expired \/ row.attempts > MaxAttempts

Spent(row) == row.expired \/ row.attempts >= MaxAttempts

\* verifyOtpOrThrow: the row as it was read decides.
OtpSpent(h) ==
    /\ At(h, "otpRead")
    /\ otp # Null /\ Spent(otp)
    /\ Local(h, [op[h] EXCEPT !.pc = "reject"])

OtpWrong(h) ==
    /\ At(h, "otpRead")
    /\ otp # Null /\ ~Spent(otp)
    /\ op[h].code # otp.code
    /\ guesses' = [guesses EXCEPT ![otp.code] = @ + 1]
    /\ Goto(h, [op[h] EXCEPT !.pc = "count", !.row = otp])
    /\ UNCHANGED <<tables, delivered, counters, sessionHistory, issued, used>>

OtpRight(h) ==
    /\ At(h, "otpRead")
    /\ otp # Null /\ ~Spent(otp)
    /\ op[h].code = otp.code
    /\ used' = used \cup {otp.code}
    /\ Proceed(h, IF op[h].kind = "verifyEmail" THEN "verified" ELSE "dropCode")
    /\ UNCHANGED <<tables, delivered, counters, sessionHistory, issued, guesses>>

\* incrementAttempts: of the row that was read, if it is still there.
CountAttempt(h) ==
    /\ At(h, "count")
    /\ otp' = IF SameRow(h) THEN [otp EXCEPT !.attempts = @ + 1] ELSE otp
    /\ Goto(h, Idle)
    /\ UNCHANGED <<account, tokens, delivered, counters, sessionHistory, codeHistory>>

\* FAULT: an accepted code is kept until it expires.
DropRejectedCode(h) ==
    /\ op[h].pc \in {"reject", "dropCode"}
    /\ otp' = IF op[h].pc = "reject" THEN Null ELSE otp
    /\ Goto(h, IF op[h].pc = "reject" THEN Idle
               ELSE [op[h] EXCEPT !.pc = IF op[h].kind = "verifyEmail" THEN "store" ELSE "answer"])
    /\ UNCHANGED <<account, tokens, delivered, counters, sessionHistory, codeHistory>>

\* deleteByUserId: whatever row the user has by now.
DropCode(h) ==
    /\ op[h].pc \in {"reject", "dropCode"}
    /\ otp' = Null
    /\ Goto(h, IF op[h].pc = "reject" THEN Idle
               ELSE [op[h] EXCEPT !.pc = IF op[h].kind = "verifyEmail" THEN "store" ELSE "answer"])
    /\ UNCHANGED <<account, tokens, delivered, counters, sessionHistory, codeHistory>>

-----------------------------------------------------------------------------
(* Time and crashes.                                                       *)

TokenExpires(t) ==
    /\ Active(t)
    /\ tokens' = [tokens EXCEPT ![t].expired = TRUE]
    /\ UNCHANGED <<account, otp, op, delivered, counters, sessionHistory, codeHistory>>

CodeExpires ==
    /\ otp # Null /\ ~otp.expired
    /\ otp' = [otp EXCEPT !.expired = TRUE]
    /\ UNCHANGED <<account, tokens, op, delivered, counters, sessionHistory, codeHistory>>

Crash ==
    /\ crashes < MaxCrashes
    /\ crashes' = crashes + 1
    /\ op' = [h \in Handlers |-> Idle]
    /\ cutShort' = (cutShort \/ \E h \in Handlers: op[h].kind = "reset" /\ At(h, "revoke"))
    /\ UNCHANGED <<tables, delivered, requests, opened, ended, contended, overlapped, codeHistory>>

Request(h) ==
    \/ Register(h) \/ Login(h) \/ VerifyEmail(h) \/ VerifyReset(h)
    \/ Forgot(h) \/ Reset(h) \/ Refresh(h)

TokenSteps(h) ==
    \/ CreateAccount(h) \/ EmailTaken(h) \/ MarkVerified(h) \/ SetPassword(h)
    \/ StoreToken(h) \/ ConsumeFinds(h) \/ ConsumeFindsNone(h) \/ ReplaceToken(h)
    \/ RevokeAll(h) \/ Answer(h)

CodeSteps(h) ==
    \/ OtpFinds(h) \/ OtpSaves(h) \/ OtpSaveFails(h)
    \/ OtpMissing(h) \/ OtpSpent(h) \/ OtpWrong(h) \/ OtpRight(h)
    \/ CountAttempt(h) \/ DropCode(h)

Next ==
    \/ \E h \in Handlers: Request(h) \/ TokenSteps(h) \/ CodeSteps(h)
    \/ \E t \in Tokens: Logout(t) \/ TokenExpires(t)
    \/ \E password \in Passwords: Enrol(password)
    \/ LogoutAll \/ RemoveAccount \/ CodeExpires
    \/ Crash

Spec == Init /\ [][Next]_vars

-----------------------------------------------------------------------------
(* What must hold.                                                         *)

Chains == INSTANCE RefreshChains WITH
    live <- Live, contended <- contended,
    session <- [t \in Tokens |-> IF opened[t] = Null THEN Null ELSE opened[t].root]

\* The table of tokens, its awaits and its crashes implement the rotation of
\* RefreshChains: the token a refresh stores before it consumes the old one
\* belongs to no session until then, whatever happens to the refresh; a
\* superseded or revoked token opens nothing; a session branches only when
\* one token is used twice at the same moment (refreshToken,
\* consumeActiveByTokenHash, revokeAllByUserId).
ImplementsChains == Chains!Spec

\* A session that existed when all sessions were revoked is never usable
\* again, though refreshes of it were anywhere between storing the new token
\* and saving the old one (refreshToken, resetPassword, logoutAll, login).
SessionsStayEnded == \A t \in Live: opened[t].root \notin ended

Resetting(h) == op[h].kind = "reset" /\ At(h, "revoke")

\* After a password reset the sessions opened under an earlier password are
\* gone, but for those whose login was under way when the reset revoked them
\* and for a crash between the two writes (resetPassword, login,
\* verifyEmailOtp).
OldPasswordOpensNothing ==
    (~cutShort /\ \A h \in Handlers: ~Resetting(h)) =>
        \A t \in Live:
            opened[t].password = account.password \/ opened[t].root \in overlapped

\* A code is compared with at most MaxAttempts wrong ones, one more for each
\* further request that read the row before the last attempt was counted,
\* and those whose counting a crash prevented (verifyOtpOrThrow,
\* incrementAttempts, upsertForUser).
GuessesBounded ==
    \A c \in Codes:
        guesses[c] <= MaxAttempts + Cardinality(Handlers) - 1 + crashes * Cardinality(Handlers)

\* An accepted code is not accepted again once the request that used it has
\* dropped it, and no later request brings it back (verifyEmailOtp,
\* verifyPasswordResetOtp, upsertForUser); a crash in between keeps it.
UsedCodesAreGone ==
    (crashes = 0 /\ otp # Null /\ otp.code \in used) =>
        \E h \in Handlers:
            op[h].code = otp.code /\ op[h].pc \in {"verified", "dropCode"}
=============================================================================
