--------------------------- MODULE SessionsProofs ---------------------------
(***************************************************************************)
(* Sessions proved for any passwords, tokens, codes and numbers of         *)
(* handlers, requests and crashes.                                         *)
(*                                                                         *)
(* TypeOK is not inductive: that a row is only updated where there is one  *)
(* needs what each pc guarantees.  TypeInv adds it, and whose token a      *)
(* token is before a client gets it.  On it rest                           *)
(*   CodesInv      where the guesses at a code are: counted, about to be   *)
(*                 counted, or lost in a crash,                            *)
(*   ChainInv      that ended sessions stay ended, though a handler has    *)
(*                 found one of their tokens before they were ended,       *)
(*   RotationInv   by whom the token a refresh is about to replace may     *)
(*                 have been revoked: with it, Sessions implements         *)
(*                 RefreshChains,                                          *)
(*   PasswordInv   which sessions a password reset has to end.             *)
(***************************************************************************)
EXTENDS Sessions, FiniteSetTheorems, TLAPS

\* What the pc and the kind of a handler say of its other fields.
OpSound(o) ==
    /\ o.pc \in {"create", "password"} => o.password \in Passwords
    /\ o.pc = "password" => o.kind = "reset"
    /\ o.pc = "verified" => o.kind = "verifyEmail"
    /\ o.pc = "otpSave" => o.code \in Codes
    /\ o.pc = "store" => o.gives \in Tokens
    /\ o.pc \in {"consume", "replace"} => o.kind = "refresh"
    /\ o.gives \in Tokens => o.kind \in {"login", "verifyEmail", "refresh"}
    /\ o.gives \in Tokens /\ o.kind # "refresh" => o.password \in Passwords
    /\ o.gives \in Tokens /\ o.kind = "login" => o.pc \in {"store", "answer"}
    /\ o.kind = "verifyEmail" => o.gives \in Tokens
    /\ o.kind = "verifyEmail" =>
         o.pc \in {"otpRead", "count", "reject", "verified", "dropCode", "store", "answer"}
    /\ o.kind = "refresh" => o.gives \in Tokens /\ o.old \in Tokens
    /\ o.kind = "refresh" => o.pc \in {"store", "consume", "replace", "revoke", "answer"}

\* The token a handler is to give is stored or not, but nobody has it; the
\* one it was given is of a client.
TokensSound(h) ==
    /\ op[h].gives \in Tokens =>
         /\ op[h].gives \notin delivered
         /\ tokens[op[h].gives] # Null <=>
              op[h].pc \in {"consume", "replace", "revoke", "answer"}
         /\ \A g \in Handlers \ {h}: op[g].gives # op[h].gives
    /\ op[h].kind = "refresh" => op[h].old \in delivered

\* Clients only have tokens that are stored.
DeliveredStored == \A t \in delivered \cap Tokens: tokens[t] # Null

\* An account that is being changed is still there.
AccountSound == \A h \in Handlers: op[h].kind \in {"verifyEmail", "reset"} => account # Null

TypeInv ==
    /\ TypeOK
    /\ \A h \in Handlers: OpSound(op[h]) /\ TokensSound(h)
    /\ DeliveredStored
    /\ AccountSound

-----------------------------------------------------------------------------
(* Requests.                                                               *)

\* A handler that takes a request keeps the invariant if its local state is
\* sound and the token it is to give is fresh.
LEMMA BeginKeepsTypes ==
    ASSUME TypeInv, NEW h \in Handlers, NEW state \in Ops, Begin(h, state),
           OpSound(state),
           state.kind \in {"verifyEmail", "reset"} => account # Null,
           state.gives \in Tokens =>
              Fresh(state.gives) /\ state.pc \notin {"consume", "replace", "revoke", "answer"},
           state.kind = "refresh" => state.old \in delivered
    PROVE  TypeInv'
<1> USE DEF TypeInv, Begin, Goto, tables, sessionHistory, codeHistory
<1>1. TypeOK'
  BY SessionsAssumption DEF TypeOK
<1>2. \A g \in Handlers: op'[g] = IF g = h THEN state ELSE op[g]
  BY DEF TypeOK
<1>3. \A g \in Handlers: OpSound(op'[g])
  BY <1>2
<1>4. ASSUME NEW g \in Handlers PROVE TokensSound(g)'
  BY <1>2 DEF TokensSound, Fresh, DeliveredStored
<1>5. DeliveredStored' /\ AccountSound'
  BY <1>2 DEF DeliveredStored, AccountSound
<1> QED
  BY <1>1, <1>3, <1>4, <1>5

\* Every request keeps the invariant.
LEMMA RequestKeepsTypes ==
    ASSUME TypeInv, NEW h \in Handlers, Request(h)
    PROVE  TypeInv'
<1> USE SessionsAssumption DEF OpSound, Idle, Ops, RequestKinds
<1>0. Idle \in Ops
  OBVIOUS
<1>1. CASE Register(h)
  <2> PICK password \in Passwords:
        Begin(h, [Idle EXCEPT !.kind = "register", !.pc = "create", !.password = password,
                              !.gives = "email_verification"])
    BY <1>1 DEF Register
  <2> QED
    BY BeginKeepsTypes DEF Grants
<1>2. CASE Login(h)
  <2>1. CASE account.verified
    <3> PICK t \in Tokens:
          /\ Fresh(t)
          /\ Begin(h, [Idle EXCEPT !.kind = "login", !.pc = "store", !.gives = t,
                                   !.password = account.password])
      BY <1>2, <2>1 DEF Login
    <3>1. account.password \in Passwords
      BY <1>2 DEF Login, CanAuthenticate, TypeInv, TypeOK, Accounts
    <3> QED
      BY <3>1, BeginKeepsTypes
  <2>2. CASE ~account.verified
    <3>1. Begin(h, [Idle EXCEPT !.kind = "login", !.pc = "revoke",
                                !.gives = "email_verification"])
      BY <1>2, <2>2 DEF Login
    <3> QED
      BY <3>1, BeginKeepsTypes DEF Grants
  <2> QED
    BY <2>1, <2>2
<1>3. CASE VerifyEmail(h)
  <2> PICK t \in Tokens, code \in issued \cup {Null}:
        /\ Fresh(t)
        /\ Begin(h, [Idle EXCEPT !.kind = "verifyEmail",
                                 !.pc = IF account.verified THEN "dropCode" ELSE "otpRead",
                                 !.gives = t, !.code = code,
                                 !.password = account.password])
    BY <1>3 DEF VerifyEmail
  <2>1. account.password \in Passwords /\ code \in Codes \cup {Null}
    BY <1>3 DEF VerifyEmail, CanAuthenticate, TypeInv, TypeOK, Accounts
  <2>2. account # Null
    BY <1>3 DEF VerifyEmail, CanAuthenticate
  <2> QED
    BY <2>1, <2>2, BeginKeepsTypes
<1>4. CASE VerifyReset(h)
  <2> PICK code \in issued \cup {Null}:
        Begin(h, [Idle EXCEPT !.kind = "verifyReset", !.pc = "otpRead", !.code = code,
                              !.gives = "password_reset"])
    BY <1>4 DEF VerifyReset
  <2>1. code \in Codes \cup {Null}
    BY DEF TypeInv, TypeOK
  <2> QED
    BY <2>1, BeginKeepsTypes DEF Grants
<1>5. CASE Forgot(h)
  BY <1>5, BeginKeepsTypes DEF Forgot, Grants
<1>6. CASE Reset(h)
  <2> PICK password \in Passwords:
        Begin(h, [Idle EXCEPT !.kind = "reset", !.pc = "password", !.password = password])
    BY <1>6 DEF Reset
  <2> QED
    BY <1>6, BeginKeepsTypes DEF Reset, CanAuthenticate
<1>7. CASE Refresh(h)
  <2> PICK old \in Tokens, t \in Tokens:
        /\ ValidJwt(old)
        /\ Fresh(t)
        /\ Begin(h, [Idle EXCEPT !.kind = "refresh", !.pc = "store", !.old = old, !.gives = t])
    BY <1>7 DEF Refresh
  <2> QED
    BY BeginKeepsTypes DEF ValidJwt
<1> QED
  BY <1>1, <1>2, <1>3, <1>4, <1>5, <1>6, <1>7 DEF Request

-----------------------------------------------------------------------------
(* Steps.                                                                  *)

\* What TypeInv adds to TypeOK.
Sound ==
    /\ \A h \in Handlers: OpSound(op[h]) /\ TokensSound(h)
    /\ DeliveredStored
    /\ AccountSound

\* pcs at which a handler's token is in the table.
StoredAt == {"consume", "replace", "revoke", "answer"}

\* A handler that moves on without inserting a token or giving one to a client
\* stays sound.
LEMMA MovesOnSoundly ==
    ASSUME TypeInv, NEW h \in Handlers, NEW state \in Ops,
           op' = [op EXCEPT ![h] = state],
           delivered' = delivered,
           \A t \in Tokens: tokens'[t] = Null <=> tokens[t] = Null,
           account # Null => account' # Null,
           OpSound(state),
           state.kind \in {"verifyEmail", "reset"} => account # Null,
           state.gives \in Tokens =>
              /\ state.gives = op[h].gives
              /\ state.pc \in StoredAt <=> op[h].pc \in StoredAt,
           state.kind = "refresh" => op[h].kind = "refresh" /\ state.old = op[h].old
    PROVE  Sound'
<1> USE DEF TypeInv
<1>1. \A g \in Handlers: op'[g] = IF g = h THEN state ELSE op[g]
  BY DEF TypeOK
<1>2. \A g \in Handlers: OpSound(op'[g])
  BY <1>1
<1>3. ASSUME NEW g \in Handlers PROVE TokensSound(g)'
  BY <1>1 DEF TokensSound, StoredAt
<1>4. DeliveredStored' /\ AccountSound'
  BY <1>1 DEF DeliveredStored, AccountSound
<1> QED
  BY <1>2, <1>3, <1>4 DEF Sound

\* A handler that returns or throws.
LEMMA IdleSound == Idle \in Ops /\ OpSound(Idle) /\ Idle.gives \notin Tokens
BY SessionsAssumption DEF Idle, Ops, OpSound, RequestKinds

\* Revoking all tokens inserts and deletes none, and ends sessions there are.
LEMMA RevokedTokens ==
    ASSUME TypeOK
    PROVE  /\ Revoked \in [Tokens -> TokenRows \cup {Null}]
           /\ \A t \in Tokens: Revoked[t] = Null <=> tokens[t] = Null
           /\ Roots \subseteq Tokens
<1>1. ASSUME NEW t \in Tokens, tokens[t] # Null
      PROVE  [tokens[t] EXCEPT !.revoked = TRUE] \in TokenRows
  BY <1>1 DEF TypeOK, TokenRows
<1>2. Roots \subseteq Tokens
  BY DEF Roots, TypeOK, Openings
<1> QED
  BY <1>1, <1>2, NullIsNoRow DEF Revoked

\* Every step of a handler on users and refresh tokens keeps the invariant.
LEMMA TokenStepKeepsTypes ==
    ASSUME TypeInv, NEW h \in Handlers, TokenSteps(h)
    PROVE  TypeInv'
<1> USE NullIsNoRow DEF Goto, Proceed, At, tables, counters, sessionHistory, codeHistory
<1>0. /\ op[h] \in Ops /\ OpSound(op[h]) /\ TokensSound(h) /\ TypeOK
      /\ op[h].kind \in {"verifyEmail", "reset"} => account # Null
  BY DEF TypeInv, TypeOK, AccountSound
<1>1. CASE CreateAccount(h)
  <2>1. [op[h] EXCEPT !.pc = "otpFind"] \in Ops /\ OpSound([op[h] EXCEPT !.pc = "otpFind"])
    BY <1>0, <1>1 DEF CreateAccount, Ops, OpSound
  <2>2. account' \in Accounts
    BY <1>0, <1>1 DEF CreateAccount, Accounts, OpSound
  <2>3. TypeOK'
    BY <1>0, <1>1, <2>1, <2>2 DEF CreateAccount, TypeOK
  <2>4. [op[h] EXCEPT !.pc = "otpFind"].gives \notin Tokens
    BY <1>0, <1>1 DEF CreateAccount, Ops, OpSound
  <2>5. Sound'
    BY <1>0, <1>1, <2>1, <2>2, <2>4, MovesOnSoundly DEF CreateAccount, Ops, OpSound
  <2> QED
    BY <2>3, <2>5 DEF TypeInv, Sound
<1>2. CASE EmailTaken(h)
  <2>1. TypeOK'
    BY <1>0, <1>2, IdleSound DEF EmailTaken, Throw, Local, TypeOK
  <2>2. Sound'
    BY <1>0, <1>2, IdleSound, MovesOnSoundly, SessionsAssumption
    DEF EmailTaken, Throw, Local, Idle, RequestKinds
  <2> QED
    BY <2>1, <2>2 DEF TypeInv, Sound
<1>3. CASE MarkVerified(h)
  <2> DEFINE state == [op[h] EXCEPT !.pc = "dropCode"]
  <2>1. state \in Ops /\ OpSound(state)
    BY <1>0, <1>3 DEF MarkVerified, Ops, OpSound
  <2>2. account' \in Accounts
    BY <1>0, <1>3 DEF MarkVerified, Accounts, TypeOK, OpSound
  <2>3. TypeOK'
    BY <1>0, <1>3, <2>1, <2>2 DEF MarkVerified, TypeOK
  <2>4. Sound'
    BY <1>0, <1>3, <2>1, <2>2, MovesOnSoundly DEF MarkVerified, Ops, StoredAt
  <2> QED
    BY <2>3, <2>4 DEF TypeInv, Sound
<1>4. CASE SetPassword(h)
  <2> DEFINE state == [op[h] EXCEPT !.pc = "revoke"]
  <2>1. state \in Ops /\ OpSound(state) /\ state.gives \notin Tokens
    BY <1>0, <1>4 DEF SetPassword, Ops, OpSound
  <2>2. account' \in Accounts
    BY <1>0, <1>4 DEF SetPassword, Accounts, TypeOK, OpSound
  <2>3. TypeOK'
    BY <1>0, <1>4, <2>1, <2>2 DEF SetPassword, TypeOK
  <2>4. Sound'
    BY <1>0, <1>4, <2>1, <2>2, MovesOnSoundly DEF SetPassword, Ops
  <2> QED
    BY <2>3, <2>4 DEF TypeInv, Sound
<1>5. CASE StoreToken(h)
  <2> DEFINE t == op[h].gives
             state == [op[h] EXCEPT !.pc = IF op[h].kind = "refresh" THEN "consume" ELSE "answer"]
  <2>1. t \in Tokens /\ tokens[t] = Null /\ t \notin delivered
    BY <1>0, <1>5 DEF StoreToken, OpSound, TokensSound
  <2>2. state \in Ops /\ OpSound(state)
    BY <1>0, <1>5 DEF StoreToken, Ops, OpSound
  <2>3. op' = [op EXCEPT ![h] = state]
    BY <1>5 DEF StoreToken
  <2>4. NewRow \in TokenRows
    BY DEF NewRow, TokenRows
  <2>5. opened' \in [Tokens -> Openings \cup {Null}]
    <3>1. CASE op[h].kind = "refresh"
      BY <1>0, <1>5, <3>1 DEF StoreToken, TypeOK
    <3>2. CASE op[h].kind # "refresh"
      <4>1. [root |-> t, password |-> op[h].password] \in Openings
        BY <1>0, <2>1, <3>2 DEF Openings, OpSound
      <4> QED
        BY <1>0, <1>5, <2>1, <3>2, <4>1 DEF StoreToken, TypeOK
    <3> QED
      BY <3>1, <3>2
  <2>6. TypeOK'
    BY <1>0, <1>5, <2>2, <2>3, <2>4, <2>5 DEF StoreToken, TypeOK
  <2>7. \A g \in Handlers: op'[g] = IF g = h THEN state ELSE op[g]
    BY <1>0, <2>3 DEF TypeOK
  <2>8. \A u \in Tokens: tokens'[u] = IF u = t THEN NewRow ELSE tokens[u]
    BY <1>0, <1>5 DEF StoreToken, TypeOK
  <2>9. NewRow # Null /\ delivered' = delivered /\ account' = account
    BY <1>5, <2>4 DEF StoreToken
  <2>10. \A g \in Handlers:
           /\ op'[g].gives = op[g].gives /\ op'[g].old = op[g].old
           /\ op'[g].kind = op[g].kind
           /\ g # h => op'[g].pc = op[g].pc
    BY <1>0, <2>7 DEF Ops
  <2>11. op'[h].pc \in {"consume", "answer"}
    BY <1>0, <2>7 DEF Ops
  <2>12. ASSUME NEW g \in Handlers PROVE TokensSound(g)'
    BY <2>1, <2>8, <2>9, <2>10, <2>11 DEF TypeInv, TokensSound
  <2>13. DeliveredStored' /\ AccountSound'
    BY <2>8, <2>9, <2>10, <2>11 DEF TypeInv, DeliveredStored, AccountSound
  <2> QED
    BY <2>2, <2>6, <2>7, <2>12, <2>13 DEF TypeInv
<1>6. CASE ConsumeFinds(h)
  <2> DEFINE state == [op[h] EXCEPT !.pc = "replace"]
  <2>1. state \in Ops /\ OpSound(state)
    BY <1>0, <1>6 DEF ConsumeFinds, Ops, OpSound
  <2>2. TypeOK'
    BY <1>0, <1>6, <2>1 DEF ConsumeFinds, TypeOK, OpSound
  <2>3. Sound'
    BY <1>0, <1>6, <2>1, MovesOnSoundly DEF ConsumeFinds, Ops, StoredAt
  <2> QED
    BY <2>2, <2>3 DEF TypeInv, Sound
<1>7. CASE ConsumeFindsNone(h)
  <2> DEFINE state == [op[h] EXCEPT !.pc = "revoke"]
  <2>1. state \in Ops /\ OpSound(state)
    BY <1>0, <1>7 DEF ConsumeFindsNone, Ops, OpSound
  <2>2. TypeOK'
    BY <1>0, <1>7, <2>1 DEF ConsumeFindsNone, Local, TypeOK
  <2>3. Sound'
    BY <1>0, <1>7, <2>1, MovesOnSoundly DEF ConsumeFindsNone, Local, Ops, StoredAt
  <2> QED
    BY <2>2, <2>3 DEF TypeInv, Sound
<1>8. CASE ReplaceToken(h)
  <2> DEFINE state == [op[h] EXCEPT !.pc = "answer"]
             old == op[h].old
             new == op[h].gives
  <2>1. state \in Ops /\ OpSound(state)
    BY <1>0, <1>8 DEF ReplaceToken, Ops, OpSound
  <2>2. /\ old \in Tokens /\ new \in Tokens
        /\ tokens[old] \in TokenRows
    BY <1>0, <1>8 DEF ReplaceToken, TypeInv, OpSound, TokensSound, DeliveredStored, TypeOK
  <2>3. [tokens[old] EXCEPT !.revoked = TRUE] \in TokenRows
    BY <2>2 DEF TokenRows
  <2>4. tokens' \in [Tokens -> TokenRows \cup {Null}]
    BY <1>0, <1>8, <2>3 DEF ReplaceToken, TypeOK
  <2>5. opened' \in [Tokens -> Openings \cup {Null}]
    BY <1>0, <1>8, <2>2 DEF ReplaceToken, TypeOK
  <2>6. TypeOK'
    BY <1>0, <1>8, <2>1, <2>4, <2>5 DEF ReplaceToken, TypeOK
  <2>7. \A t \in Tokens: tokens'[t] = Null <=> tokens[t] = Null
    BY <1>0, <1>8, <2>2, <2>3 DEF ReplaceToken, TypeOK
  <2>8. Sound'
    BY <1>0, <1>8, <2>1, <2>7, MovesOnSoundly DEF ReplaceToken, Ops, StoredAt
  <2> QED
    BY <2>6, <2>8 DEF TypeInv, Sound
<1>9. CASE RevokeAll(h)
  <2>1. PICK state \in Ops:
          /\ op' = [op EXCEPT ![h] = state]
          /\ OpSound(state) /\ state.kind \in {op[h].kind, Null}
          /\ state.gives \notin Tokens /\ state.kind # "refresh"
    <3>1. CASE op[h].kind = "login"
      <4> DEFINE state == [op[h] EXCEPT !.pc = "otpFind"]
      <4>1. op' = [op EXCEPT ![h] = state]
        BY <1>9, <3>1 DEF RevokeAll
      <4>2. state \in Ops /\ OpSound(state) /\ state.gives \notin Tokens
        BY <1>0, <1>9, <3>1 DEF RevokeAll, Ops, OpSound
      <4>3. state.kind = op[h].kind /\ state.kind # "refresh"
        BY <1>0, <3>1 DEF Ops
      <4> QED
        BY <4>1, <4>2, <4>3
    <3>2. CASE op[h].kind = "reset"
      <4> DEFINE state == [op[h] EXCEPT !.pc = "dropCode"]
      <4>1. op' = [op EXCEPT ![h] = state]
        BY <1>9, <3>2 DEF RevokeAll
      <4>2. state \in Ops /\ OpSound(state) /\ state.gives \notin Tokens
        BY <1>0, <1>9, <3>2 DEF RevokeAll, Ops, OpSound
      <4>3. state.kind = op[h].kind /\ state.kind # "refresh"
        BY <1>0, <3>2 DEF Ops
      <4> QED
        BY <4>1, <4>2, <4>3
    <3>3. CASE op[h].kind \notin {"login", "reset"}
      BY <1>9, <3>3, IdleSound, SessionsAssumption DEF RevokeAll, Idle, RequestKinds
    <3> QED
      BY <3>1, <3>2, <3>3
  <2>2. /\ Revoked \in [Tokens -> TokenRows \cup {Null}]
        /\ \A t \in Tokens: Revoked[t] = Null <=> tokens[t] = Null
    BY <1>0, RevokedTokens
  <2>3. TypeOK'
    <3>1. overlapped' \subseteq Tokens /\ cutShort' \in BOOLEAN
      <4>1. CASE op[h].kind = "reset"
        <5>1. {op[g].gives: g \in {g \in Handlers: Opening(g)}} \subseteq Tokens
          BY DEF Opening
        <5>2. /\ overlapped' = overlapped \cup {op[g].gives: g \in {g \in Handlers: Opening(g)}}
              /\ cutShort' = FALSE
          BY <1>9, <4>1 DEF RevokeAll
        <5> QED
          BY <1>0, <5>1, <5>2 DEF TypeOK
      <4>2. CASE op[h].kind # "reset"
        BY <1>0, <1>9, <4>2 DEF RevokeAll, TypeOK
      <4> QED
        BY <4>1, <4>2
    <3>2. ended' \subseteq Tokens
      BY <1>0, <1>9, RevokedTokens DEF RevokeAll, TypeOK
    <3> QED
      BY <1>0, <1>9, <2>1, <2>2, <3>1, <3>2 DEF RevokeAll, TypeOK
  <2>4. Sound'
    BY <1>0, <1>9, <2>1, <2>2, MovesOnSoundly, SessionsAssumption DEF RevokeAll, RequestKinds
  <2> QED
    BY <2>3, <2>4 DEF TypeInv, Sound
<1>10. CASE Answer(h)
  <2>1. TypeOK'
    BY <1>0, <1>10, IdleSound DEF Answer, TypeOK, Ops
  <2>2. \A g \in Handlers: op'[g] = IF g = h THEN Idle ELSE op[g]
    BY <1>0, <1>10 DEF Answer, TypeOK
  <2>3. /\ tokens' = tokens /\ account' = account
        /\ delivered' = delivered \cup ({op[h].gives} \ {Null})
    BY <1>10 DEF Answer
  <2>4. ASSUME NEW g \in Handlers PROVE TokensSound(g)'
    BY <1>0, <2>2, <2>3, IdleSound, SessionsAssumption
    DEF TypeInv, TokensSound, Idle, RequestKinds
  <2>5. op[h].gives \in Tokens => tokens[op[h].gives] # Null
    BY <1>0, <1>10 DEF Answer, TokensSound
  <2>6. DeliveredStored' /\ AccountSound'
    BY <2>2, <2>3, <2>5, SessionsAssumption
    DEF TypeInv, DeliveredStored, AccountSound, Idle, RequestKinds
  <2>7. \A g \in Handlers: OpSound(op'[g])
    BY <2>2, IdleSound DEF TypeInv
  <2> QED
    BY <2>1, <2>4, <2>6, <2>7 DEF TypeInv
<1> QED
  BY <1>1, <1>2, <1>3, <1>4, <1>5, <1>6, <1>7, <1>8, <1>9, <1>10 DEF TokenSteps

\* Every step of a handler on one-time codes keeps the invariant.
LEMMA CodeStepKeepsTypes ==
    ASSUME TypeInv, NEW h \in Handlers, CodeSteps(h)
    PROVE  TypeInv'
<1> USE NullIsNoRow DEF Goto, Proceed, At, tables, counters, sessionHistory, codeHistory
<1>0. /\ op[h] \in Ops /\ OpSound(op[h]) /\ TokensSound(h) /\ TypeOK
      /\ op[h].kind \in {"verifyEmail", "reset"} => account # Null
  BY DEF TypeInv, TypeOK, AccountSound
<1>1. ASSUME Throw(h) PROVE TypeInv'
  <2>1. TypeOK'
    BY <1>0, <1>1, IdleSound DEF Throw, Local, TypeOK
  <2>2. Sound'
    BY <1>0, <1>1, IdleSound, MovesOnSoundly, SessionsAssumption
    DEF Throw, Local, Idle, RequestKinds
  <2> QED
    BY <2>1, <2>2 DEF TypeInv, Sound
<1>2. CASE OtpFinds(h)
  <2> PICK code \in Codes \ issued:
        /\ issued' = issued \cup {code}
        /\ op' = [op EXCEPT ![h] = [op[h] EXCEPT !.pc = "otpSave", !.row = otp, !.code = code]]
    BY <1>2 DEF OtpFinds
  <2> DEFINE state == [op[h] EXCEPT !.pc = "otpSave", !.row = otp, !.code = code]
  <2>1. state \in Ops /\ OpSound(state)
    BY <1>0, <1>2 DEF OtpFinds, TypeOK, Ops, OpSound
  <2>2. TypeOK'
    BY <1>0, <1>2, <2>1 DEF OtpFinds, TypeOK
  <2>3. Sound'
    BY <1>0, <1>2, <2>1, MovesOnSoundly DEF OtpFinds, Ops, StoredAt, OpSound
  <2> QED
    BY <2>2, <2>3 DEF TypeInv, Sound
<1>3. CASE OtpSaves(h)
  <2> DEFINE state == [op[h] EXCEPT !.pc = "answer", !.row = Null, !.code = Null]
  <2>1. state \in Ops /\ OpSound(state)
    BY <1>0, <1>3 DEF OtpSaves, Ops, OpSound
  <2>2. op[h].code \in Codes /\ (op[h].row # Null => op[h].row.id \in Codes)
    BY <1>0, <1>3 DEF OtpSaves, Ops, OpSound, OtpRows
  <2>3. otp' \in OtpRows
    BY <1>3, <2>2 DEF OtpSaves, OtpRows
  <2>4. TypeOK'
    BY <1>0, <1>3, <2>1, <2>3 DEF OtpSaves, TypeOK
  <2>5. Sound'
    BY <1>0, <1>3, <2>1, MovesOnSoundly DEF OtpSaves, Ops, OpSound
  <2> QED
    BY <2>4, <2>5 DEF TypeInv, Sound
<1>4. CASE OtpSpent(h)
  <2> DEFINE state == [op[h] EXCEPT !.pc = "reject"]
  <2>1. state \in Ops /\ OpSound(state)
    BY <1>0, <1>4 DEF OtpSpent, Ops, OpSound
  <2>2. TypeOK'
    BY <1>0, <1>4, <2>1 DEF OtpSpent, Local, TypeOK
  <2>3. Sound'
    BY <1>0, <1>4, <2>1, MovesOnSoundly DEF OtpSpent, Local, Ops, StoredAt
  <2> QED
    BY <2>2, <2>3 DEF TypeInv, Sound
<1>5. CASE OtpWrong(h)
  <2> DEFINE state == [op[h] EXCEPT !.pc = "count", !.row = otp]
  <2>1. state \in Ops /\ OpSound(state)
    BY <1>0, <1>5 DEF OtpWrong, TypeOK, Ops, OpSound
  <2>2. otp.code \in Codes
    BY <1>0, <1>5 DEF OtpWrong, TypeOK, OtpRows
  <2>3. guesses' \in [Codes -> Nat]
    BY <1>0, <1>5, <2>2 DEF OtpWrong, TypeOK
  <2>4. TypeOK'
    BY <1>0, <1>5, <2>1, <2>3 DEF OtpWrong, TypeOK
  <2>5. Sound'
    BY <1>0, <1>5, <2>1, MovesOnSoundly DEF OtpWrong, Ops, StoredAt
  <2> QED
    BY <2>4, <2>5 DEF TypeInv, Sound
<1>6. CASE OtpRight(h)
  <2> DEFINE pc == IF op[h].kind = "verifyEmail" THEN "verified" ELSE "dropCode"
             state == [op[h] EXCEPT !.pc = pc]
  <2>1. state \in Ops /\ OpSound(state)
    BY <1>0, <1>6 DEF OtpRight, Ops, OpSound
  <2>2. otp.code \in Codes
    BY <1>0, <1>6 DEF OtpRight, TypeOK, OtpRows
  <2>3. TypeOK'
    BY <1>0, <1>6, <2>1, <2>2 DEF OtpRight, TypeOK
  <2>4. Sound'
    BY <1>0, <1>6, <2>1, MovesOnSoundly DEF OtpRight, Ops, StoredAt, AccountSound
  <2> QED
    BY <2>3, <2>4 DEF TypeInv, Sound
<1>7. CASE CountAttempt(h)
  <2>1. otp' \in OtpRows \cup {Null}
    BY <1>0, <1>7 DEF CountAttempt, SameRow, TypeOK, OtpRows
  <2>2. TypeOK'
    BY <1>0, <1>7, <2>1, IdleSound DEF CountAttempt, TypeOK
  <2>3. Sound'
    BY <1>0, <1>7, IdleSound, MovesOnSoundly, SessionsAssumption
    DEF CountAttempt, Idle, RequestKinds
  <2> QED
    BY <2>2, <2>3 DEF TypeInv, Sound
<1>8. CASE DropCode(h)
  <2>1. CASE op[h].pc = "reject"
    <3>1. op' = [op EXCEPT ![h] = Idle]
      BY <1>8, <2>1 DEF DropCode
    <3>2. TypeOK'
      BY <1>0, <1>8, <3>1, IdleSound DEF DropCode, TypeOK
    <3>3. Sound'
      BY <1>0, <1>8, <3>1, IdleSound, MovesOnSoundly, SessionsAssumption
      DEF DropCode, Idle, RequestKinds
    <3> QED
      BY <3>2, <3>3 DEF TypeInv, Sound
  <2>2. CASE op[h].pc = "dropCode"
    <3> DEFINE pc == IF op[h].kind = "verifyEmail" THEN "store" ELSE "answer"
               state == [op[h] EXCEPT !.pc = pc]
    <3>1. op' = [op EXCEPT ![h] = state]
      BY <1>8, <2>2 DEF DropCode
    <3>2. state \in Ops /\ OpSound(state)
      BY <1>0, <2>2 DEF Ops, OpSound
    <3>3. TypeOK'
      BY <1>0, <1>8, <3>1, <3>2 DEF DropCode, TypeOK
    <3>4. state.gives \in Tokens => state.pc = "store"
      BY <1>0, <2>2 DEF Ops, OpSound
    <3>5. state.gives = op[h].gives /\ state.kind = op[h].kind /\ state.old = op[h].old
      BY <1>0 DEF Ops
    <3>6. Sound'
      BY <1>0, <1>8, <2>2, <3>1, <3>2, <3>4, <3>5, MovesOnSoundly DEF DropCode, StoredAt
    <3> QED
      BY <3>3, <3>6 DEF TypeInv, Sound
  <2> QED
    BY <1>8, <2>1, <2>2 DEF DropCode
<1> QED
  BY <1>1, <1>2, <1>3, <1>4, <1>5, <1>6, <1>7, <1>8
  DEF CodeSteps, OtpSaveFails, OtpMissing

-----------------------------------------------------------------------------
(* Time, crashes, and what no handler does.                                *)

\* So do logouts, time, crashes and accounts that come and go.
LEMMA OtherStepKeepsTypes ==
    ASSUME TypeInv,
           \/ \E t \in Tokens: Logout(t) \/ TokenExpires(t)
           \/ \E password \in Passwords: Enrol(password)
           \/ LogoutAll \/ RemoveAccount \/ CodeExpires
           \/ Crash
    PROVE  TypeInv'
<1> USE NullIsNoRow DEF At, tables, counters, sessionHistory, codeHistory
<1>0. TypeOK /\ Sound
  BY DEF TypeInv, Sound
\* Whoever leaves op, delivered and the set of stored tokens as they are
\* leaves the handlers sound.
<1>1. ASSUME op' = op, delivered' = delivered, account # Null => account' # Null,
             \A t \in Tokens: tokens'[t] = Null <=> tokens[t] = Null
      PROVE  Sound'
  BY <1>0, <1>1 DEF Sound, TokensSound, DeliveredStored, AccountSound
<1>2. ASSUME NEW t \in Tokens, Logout(t) PROVE TypeInv'
  <2>1. tokens[t] \in TokenRows
    BY <1>0, <1>2 DEF Logout, ValidJwt, Sound, DeliveredStored, TypeOK
  <2>2. [tokens[t] EXCEPT !.revoked = TRUE] \in TokenRows
    BY <2>1 DEF TokenRows
  <2>3. TypeOK'
    BY <1>0, <1>2, <2>2 DEF Logout, TypeOK
  <2>4. Sound'
    BY <1>0, <1>1, <1>2, <2>1, <2>2 DEF Logout, TypeOK
  <2> QED
    BY <2>3, <2>4 DEF TypeInv, Sound
<1>3. ASSUME NEW t \in Tokens, TokenExpires(t) PROVE TypeInv'
  <2>1. tokens[t] \in TokenRows
    BY <1>0, <1>3 DEF TokenExpires, Active, Unrevoked, TypeOK
  <2>2. [tokens[t] EXCEPT !.expired = TRUE] \in TokenRows
    BY <2>1 DEF TokenRows
  <2>3. TypeOK'
    BY <1>0, <1>3, <2>2 DEF TokenExpires, TypeOK
  <2>4. Sound'
    BY <1>0, <1>1, <1>3, <2>1, <2>2 DEF TokenExpires, TypeOK
  <2> QED
    BY <2>3, <2>4 DEF TypeInv, Sound
<1>4. ASSUME NEW password \in Passwords, Enrol(password) PROVE TypeInv'
  <2>1. account' \in Accounts
    BY <1>4 DEF Enrol, Accounts
  <2>2. TypeOK' /\ Sound'
    BY <1>0, <1>1, <1>4, <2>1 DEF Enrol, TypeOK
  <2> QED
    BY <2>2 DEF TypeInv, Sound
<1>5. CASE LogoutAll
  <2>1. TypeOK'
    BY <1>0, <1>5, RevokedTokens DEF LogoutAll, TypeOK
  <2>2. Sound'
    BY <1>0, <1>1, <1>5, RevokedTokens DEF LogoutAll
  <2> QED
    BY <2>1, <2>2 DEF TypeInv, Sound
<1>6. CASE RemoveAccount
  <2>1. account' \in Accounts
    BY <1>0, <1>6 DEF RemoveAccount, CanAuthenticate, TypeOK, Accounts
  <2>2. TypeOK' /\ Sound'
    BY <1>0, <1>1, <1>6, <2>1 DEF RemoveAccount, TypeOK
  <2> QED
    BY <2>2 DEF TypeInv, Sound
<1>7. CASE CodeExpires
  <2>1. otp' \in OtpRows
    BY <1>0, <1>7 DEF CodeExpires, TypeOK, OtpRows
  <2>2. TypeOK' /\ Sound'
    BY <1>0, <1>1, <1>7, <2>1 DEF CodeExpires, TypeOK
  <2> QED
    BY <2>2 DEF TypeInv, Sound
<1>8. CASE Crash
  <2>1. TypeOK'
    BY <1>0, <1>8, IdleSound, SessionsAssumption DEF Crash, TypeOK
  <2>2. \A h \in Handlers: op'[h] = Idle
    BY <1>8 DEF Crash
  <2>3. Sound'
    BY <1>0, <1>8, <2>2, IdleSound, SessionsAssumption
    DEF Crash, Sound, TokensSound, DeliveredStored, AccountSound, Idle, RequestKinds
  <2> QED
    BY <2>1, <2>3 DEF TypeInv, Sound
<1> QED
  BY <1>2, <1>3, <1>4, <1>5, <1>6, <1>7, <1>8

\* TypeInv is inductive.
LEMMA TypeInvStep == TypeInv /\ [Next]_vars => TypeInv'
<1> SUFFICES ASSUME TypeInv, [Next]_vars PROVE TypeInv'
  OBVIOUS
<1>1. CASE UNCHANGED vars
  BY <1>1 DEF TypeInv, TypeOK, TokensSound, DeliveredStored, AccountSound, vars, tables,
     counters, sessionHistory, codeHistory, At
<1>2. CASE Next
  BY <1>2, RequestKeepsTypes, TokenStepKeepsTypes, CodeStepKeepsTypes, OtherStepKeepsTypes
  DEF Next
<1> QED
  BY <1>1, <1>2

\* Initially all handlers are idle and all tables empty.
LEMMA TypeInvInit == Init => TypeInv
<1> SUFFICES ASSUME Init PROVE TypeInv
  OBVIOUS
<1>1. TypeOK
  <2>1. /\ tokens \in [Tokens -> TokenRows \cup {Null}]
        /\ opened \in [Tokens -> Openings \cup {Null}]
        /\ guesses \in [Codes -> Nat]
    BY DEF Init
  <2>2. op \in [Handlers -> Ops]
    BY IdleSound DEF Init
  <2>3. requests \in 0..MaxRequests /\ crashes \in 0..MaxCrashes
    BY SessionsAssumption DEF Init
  <2> QED
    BY <2>1, <2>2, <2>3 DEF Init, TypeOK
<1>2. \A h \in Handlers: op[h] = Idle
  BY DEF Init
<1> QED
  BY <1>1, <1>2, IdleSound, SessionsAssumption
  DEF Init, TypeInv, TokensSound, DeliveredStored, AccountSound, Idle, RequestKinds

\* TypeInv is an invariant.
LEMMA TypeInvariance == Spec => []TypeInv
BY TypeInvInit, TypeInvStep, PTL DEF Spec

\* The tables and the local state of every handler keep their types, for any
\* passwords, tokens, codes and numbers of handlers: a row is only updated
\* where there is one.
THEOREM TypeCorrect == Spec => []TypeOK
<1>1. TypeInv => TypeOK
  BY DEF TypeInv
<1> QED
  BY <1>1, TypeInvariance, PTL

-----------------------------------------------------------------------------
(* One-time codes.                                                         *)

Lost == crashes * Cardinality(Handlers)

\* The handlers that compared code c with a wrong one and have not counted it.
Counting(c) == {h \in Handlers: op[h].pc = "count" /\ op[h].row.code = c}

\* A code is known to nobody before it is generated, nor used.
CodesIssued ==
    /\ otp # Null => otp.code \in issued
    /\ used \subseteq issued
    /\ \A c \in Codes \ issued: guesses[c] = 0

\* A code that is still to be saved is in no row and was never compared.
Unsaved(h) ==
    op[h].pc = "otpSave" =>
        /\ op[h].code \in issued \ used /\ guesses[op[h].code] = 0
        /\ otp # Null => otp.code # op[h].code
        /\ \A g \in Handlers: op[g].pc = "count" => op[g].row.code # op[h].code

OwnCode(g, h) == op[g].pc = "otpSave" /\ op[h].pc = "otpSave" => op[g].code # op[h].code

\* A code is saved once, so the row with a code is the one that was read with it.
RowRead(h) ==
    op[h].pc = "count" =>
        /\ op[h].row \in OtpRows /\ op[h].row.code \in issued
        /\ (otp # Null /\ otp.code = op[h].row.code) => otp.id = op[h].row.id

\* Every wrong guess at the current code is counted, to be counted, or lost in
\* a crash.
GuessesCounted ==
    otp # Null =>
        guesses[otp.code] <= otp.attempts + Cardinality(Counting(otp.code)) + Lost

CodesInv ==
    /\ CodesIssued
    /\ \A h \in Handlers: Unsaved(h) /\ RowRead(h)
    /\ \A g, h \in Handlers: g # h => OwnCode(g, h)
    /\ GuessesCounted
    /\ GuessesBounded
    /\ UsedCodesAreGone

\* What the handlers count is finite.
LEMMA CountingIsFinite ==
    ASSUME NEW c
    PROVE  /\ IsFiniteSet(Counting(c)) /\ Cardinality(Counting(c)) \in Nat
           /\ Cardinality(Handlers) \in Nat
<1>1. Counting(c) \subseteq Handlers /\ IsFiniteSet(Handlers)
  BY SessionsAssumption DEF Counting
<1> QED
  BY <1>1, FS_Subset, FS_CardinalityType

\* Guesses lost are a number, and a crash loses at most one of each handler.
LEMMA LostCount ==
    ASSUME TypeInv
    PROVE  /\ Lost \in Nat
           /\ crashes' = crashes => Lost' = Lost
           /\ crashes' = crashes + 1 => Lost' = Lost + Cardinality(Handlers)
<1>1. crashes \in Nat /\ Cardinality(Handlers) \in Nat
  BY CountingIsFinite, SessionsAssumption DEF TypeInv, TypeOK
<1>2. ASSUME NEW m \in Nat, NEW n \in Nat PROVE m * n \in Nat /\ (m + 1) * n = m * n + n
  OBVIOUS
<1> QED
  BY <1>1, <1>2 DEF Lost

\* The steps on the code.
CodeWrites(h) ==
    \/ OtpFinds(h) \/ OtpSaves(h) \/ OtpWrong(h) \/ OtpRight(h)
    \/ CountAttempt(h) \/ DropCode(h)

\* A step that leaves the code and everybody who has to do with it alone.
LeavesCodes ==
    /\ UNCHANGED <<issued, guesses, used, crashes>>
    /\ otp' = Null <=> otp = Null
    /\ otp # Null => otp'.id = otp.id /\ otp'.code = otp.code /\ otp'.attempts = otp.attempts
    /\ \A h \in Handlers:
         /\ op'[h].pc \in {"otpSave", "count"} => op'[h] = op[h]
         /\ op[h].pc = "count" => op'[h] = op[h]
         /\ op[h].pc \in {"verified", "dropCode"} =>
              op'[h].pc \in {"verified", "dropCode"} /\ op'[h].code = op[h].code

\* All other steps but crashes do.
LEMMA OthersLeaveCodes ==
    ASSUME TypeInv, Next, ~Crash, \A h \in Handlers: ~CodeWrites(h)
    PROVE  LeavesCodes
<1> USE DEF tables, sessionHistory, codeHistory, counters, Goto, Proceed, At
<1>0. op \in [Handlers -> Ops]
  BY DEF TypeInv, TypeOK
<1>1. ASSUME NEW h \in Handlers, NEW state, op' = [op EXCEPT ![h] = state],
             state.pc \notin {"otpSave", "count"},
             op[h].pc \notin {"count", "verified", "dropCode"},
             UNCHANGED <<otp, issued, guesses, used, crashes>>
      PROVE  LeavesCodes
  BY <1>0, <1>1 DEF LeavesCodes
<1>2. ASSUME NEW h \in Handlers, Request(h) PROVE LeavesCodes
  <2>0. ASSUME NEW state, Begin(h, state), state.pc \notin {"otpSave", "count"}
        PROVE  LeavesCodes
    <3>1. op[h].pc = "idle" /\ op' = [op EXCEPT ![h] = state]
      BY <2>0 DEF Begin, Idle
    <3>2. UNCHANGED <<otp, issued, guesses, used, crashes>>
      BY <2>0 DEF Begin
    <3> QED
      BY <1>1, <2>0, <3>1, <3>2
  <2>1. CASE Register(h)
    BY <2>0, <2>1 DEF Register, Idle
  <2>2. CASE Login(h)
    BY <2>0, <2>2 DEF Login, Idle
  <2>3. CASE VerifyEmail(h)
    BY <2>0, <2>3 DEF VerifyEmail, Idle
  <2>4. CASE VerifyReset(h)
    BY <2>0, <2>4 DEF VerifyReset, Idle
  <2>5. CASE Forgot(h)
    BY <2>0, <2>5 DEF Forgot, Idle
  <2>6. CASE Reset(h)
    BY <2>0, <2>6 DEF Reset, Idle
  <2>7. CASE Refresh(h)
    BY <2>0, <2>7 DEF Refresh, Idle
  <2> QED
    BY <1>2, <2>1, <2>2, <2>3, <2>4, <2>5, <2>6, <2>7 DEF Request
<1>3. ASSUME NEW h \in Handlers, TokenSteps(h) PROVE LeavesCodes
  <2>0. op[h] \in Ops
    BY <1>0
  <2>1. CASE CreateAccount(h)
    BY <1>1, <2>0, <2>1 DEF CreateAccount, Ops
  <2>2. CASE EmailTaken(h)
    BY <1>1, <2>0, <2>2 DEF EmailTaken, Throw, Local, Idle, Ops
  <2>3. CASE MarkVerified(h)
    BY <1>0, <2>0, <2>3 DEF MarkVerified, Ops, LeavesCodes
  <2>4. CASE SetPassword(h)
    BY <1>1, <2>0, <2>4 DEF SetPassword, Ops
  <2>5. CASE StoreToken(h)
    BY <1>1, <2>0, <2>5 DEF StoreToken, Ops
  <2>6. CASE ConsumeFinds(h)
    BY <1>1, <2>0, <2>6 DEF ConsumeFinds, Ops
  <2>7. CASE ConsumeFindsNone(h)
    BY <1>1, <2>0, <2>7 DEF ConsumeFindsNone, Local, Ops
  <2>8. CASE ReplaceToken(h)
    BY <1>1, <2>0, <2>8 DEF ReplaceToken, Ops
  <2>9. CASE RevokeAll(h)
    <3> DEFINE state == CASE op[h].kind = "login" -> [op[h] EXCEPT !.pc = "otpFind"]
                          [] op[h].kind = "reset" -> [op[h] EXCEPT !.pc = "dropCode"]
                          [] OTHER -> Idle
    <3>1. op' = [op EXCEPT ![h] = state] /\ UNCHANGED <<otp, issued, guesses, used, crashes>>
      BY <2>9 DEF RevokeAll
    <3>2. state.pc \in {"otpFind", "dropCode", "idle"}
      BY <2>0 DEF Ops, Idle
    <3> HIDE DEF state
    <3> QED
      BY <1>1, <2>9, <3>1, <3>2 DEF RevokeAll
  <2>10. CASE Answer(h)
    BY <1>1, <2>0, <2>10 DEF Answer, Idle, Ops
  <2> QED
    BY <1>3, <2>1, <2>2, <2>3, <2>4, <2>5, <2>6, <2>7, <2>8, <2>9, <2>10 DEF TokenSteps
<1>4. ASSUME NEW h \in Handlers, CodeSteps(h), ~CodeWrites(h) PROVE LeavesCodes
  <2>0. op[h] \in Ops
    BY <1>0
  <2>1. CASE OtpSaveFails(h)
    BY <1>1, <2>0, <2>1 DEF OtpSaveFails, Throw, Local, Idle, Ops
  <2>2. CASE OtpMissing(h)
    BY <1>1, <2>0, <2>2 DEF OtpMissing, Throw, Local, Idle, Ops
  <2>3. CASE OtpSpent(h)
    BY <1>1, <2>0, <2>3 DEF OtpSpent, Local, Ops
  <2> QED
    BY <1>4, <2>1, <2>2, <2>3 DEF CodeSteps, CodeWrites
<1>5. ASSUME NEW t \in Tokens, Logout(t) \/ TokenExpires(t) PROVE LeavesCodes
  BY <1>5 DEF Logout, TokenExpires, LeavesCodes
<1>6. ASSUME \/ \E password \in Passwords: Enrol(password)
             \/ RemoveAccount \/ LogoutAll
      PROVE  LeavesCodes
  BY <1>6 DEF Enrol, RemoveAccount, LogoutAll, LeavesCodes
<1>7. CASE CodeExpires
  BY <1>7, NullIsNoRow DEF CodeExpires, LeavesCodes, TypeInv, TypeOK, OtpRows
<1> QED
  BY <1>2, <1>3, <1>4, <1>5, <1>6, <1>7 DEF Next

\* And then nothing changes about the code.
LEMMA CodesLeft ==
    ASSUME TypeInv, CodesInv, LeavesCodes
    PROVE  CodesInv'
<1> USE DEF LeavesCodes
<1>1. CodesIssued'
  BY DEF CodesInv, CodesIssued
<1>2. \A h \in Handlers: Unsaved(h)' /\ RowRead(h)'
  BY DEF CodesInv, Unsaved, RowRead
<1>3. \A g, h \in Handlers: g # h => OwnCode(g, h)'
  BY DEF CodesInv, OwnCode
<1>4. \A c: Counting(c)' = Counting(c)
  BY DEF Counting
<1>5. GuessesCounted' /\ GuessesBounded'
  BY <1>4, LostCount DEF CodesInv, GuessesCounted, GuessesBounded
<1>6. UsedCodesAreGone'
  BY DEF CodesInv, UsedCodesAreGone
<1> QED
  BY <1>1, <1>2, <1>3, <1>5, <1>6 DEF CodesInv

\* A code that was just generated is in nobody's hands but its handler's.
LEMMA NewCodeIsUnsaved ==
    ASSUME TypeInv, CodesInv, NEW h \in Handlers, OtpFinds(h)
    PROVE  CodesInv'
<1> USE DEF Goto, At, tables, counters, sessionHistory
<1>0. op \in [Handlers -> Ops] /\ op[h] \in Ops
  BY DEF TypeInv, TypeOK
<1> PICK code \in Codes \ issued:
      /\ issued' = issued \cup {code}
      /\ op' = [op EXCEPT ![h] = [op[h] EXCEPT !.pc = "otpSave", !.row = otp, !.code = code]]
  BY DEF OtpFinds
<1>1. UNCHANGED <<otp, guesses, used, crashes>> /\ op[h].pc = "otpFind"
  BY DEF OtpFinds
<1>2. /\ op'[h].pc = "otpSave" /\ op'[h].code = code
      /\ \A g \in Handlers \ {h}: op'[g] = op[g]
  BY <1>0 DEF Ops
<1>3. CodesIssued'
  BY <1>1 DEF CodesInv, CodesIssued
<1>4. ASSUME NEW g \in Handlers PROVE RowRead(g)'
  BY <1>1, <1>2 DEF CodesInv, RowRead
<1>5. ASSUME NEW g \in Handlers PROVE Unsaved(g)'
  <2>1. CASE g = h
    BY <1>1, <1>2, <2>1 DEF CodesInv, CodesIssued, Unsaved, RowRead
  <2>2. CASE g # h
    BY <1>1, <1>2, <2>2 DEF CodesInv, Unsaved
  <2> QED
    BY <2>1, <2>2
<1>6. ASSUME NEW f \in Handlers, NEW g \in Handlers, f # g PROVE OwnCode(f, g)'
  BY <1>2, <1>6 DEF CodesInv, OwnCode, Unsaved
<1>7. \A c: Counting(c)' = Counting(c)
  BY <1>1, <1>2 DEF Counting
<1>8. GuessesCounted' /\ GuessesBounded'
  BY <1>1, <1>7, LostCount DEF CodesInv, GuessesCounted, GuessesBounded
<1>9. UsedCodesAreGone'
  BY <1>1, <1>2 DEF CodesInv, UsedCodesAreGone
<1> QED
  BY <1>3, <1>4, <1>5, <1>6, <1>8, <1>9 DEF CodesInv

\* A code that is saved was never compared with anything.
LEMMA SavedCodeIsNew ==
    ASSUME TypeInv, CodesInv, NEW h \in Handlers, OtpSaves(h)
    PROVE  CodesInv'
<1> USE DEF Goto, At, tables, counters, sessionHistory, codeHistory
<1>0. op \in [Handlers -> Ops] /\ op[h] \in Ops
  BY DEF TypeInv, TypeOK
<1>1. UNCHANGED <<issued, guesses, used, crashes>> /\ op[h].pc = "otpSave"
  BY DEF OtpSaves
<1>2. /\ op'[h].pc = "answer"
      /\ \A g \in Handlers \ {h}: op'[g] = op[g]
  BY <1>0 DEF OtpSaves, Ops
<1>3. otp' # Null /\ otp'.code = op[h].code /\ otp'.attempts = 0
  <2>1. op[h].code \in Codes /\ (op[h].row # Null => op[h].row.id \in Codes)
    BY <1>0, <1>1 DEF TypeInv, OpSound, Ops, OtpRows
  <2>2. otp' = [id |-> IF op[h].row = Null THEN op[h].code ELSE op[h].row.id,
                code |-> op[h].code, attempts |-> 0, expired |-> FALSE]
    BY DEF OtpSaves
  <2>3. otp' \in OtpRows
    BY <2>1, <2>2 DEF OtpRows
  <2> QED
    BY <2>2, <2>3, NullIsNoRow
<1>4. CodesIssued'
  BY <1>1, <1>3 DEF CodesInv, CodesIssued, Unsaved
<1>5. ASSUME NEW g \in Handlers PROVE Unsaved(g)' /\ RowRead(g)'
  BY <1>1, <1>2, <1>3 DEF CodesInv, Unsaved, OwnCode, RowRead
<1>6. ASSUME NEW f \in Handlers, NEW g \in Handlers, f # g PROVE OwnCode(f, g)'
  BY <1>2, <1>6 DEF CodesInv, OwnCode
<1>7. GuessesCounted'
  <2>1. guesses'[otp'.code] = 0 /\ otp'.attempts = 0
    BY <1>1, <1>3 DEF CodesInv, Unsaved
  <2>2. Lost' \in Nat
    BY <1>1, LostCount
  <2>3. \A c: Cardinality(Counting(c)') \in Nat
    <3>1. \A c: Counting(c)' \subseteq Handlers
      BY DEF Counting
    <3> QED
      BY <3>1, FS_Subset, FS_CardinalityType, SessionsAssumption
  <2> QED
    BY <2>1, <2>2, <2>3 DEF GuessesCounted
<1>8. GuessesBounded'
  BY <1>1 DEF CodesInv, GuessesBounded
<1>9. UsedCodesAreGone'
  BY <1>1, <1>3 DEF CodesInv, Unsaved, UsedCodesAreGone
<1> QED
  BY <1>4, <1>5, <1>6, <1>7, <1>8, <1>9 DEF CodesInv

\* The row is compared while its attempts are below the limit, by a handler
\* that is not yet to count anything.
LEMMA WrongGuessIsBounded ==
    ASSUME TypeInv, CodesInv, NEW h \in Handlers, OtpWrong(h)
    PROVE  CodesInv'
<1> USE DEF Goto, At, tables, counters, sessionHistory
<1>0. /\ op \in [Handlers -> Ops] /\ op[h] \in Ops
      /\ otp \in OtpRows /\ guesses \in [Codes -> Nat]
  BY DEF OtpWrong, TypeInv, TypeOK
<1>1. UNCHANGED <<otp, issued, used, crashes>> /\ op[h].pc = "otpRead"
  BY DEF OtpWrong
<1>2. /\ op'[h].pc = "count" /\ op'[h].row = otp
      /\ \A g \in Handlers \ {h}: op'[g] = op[g]
  BY <1>0 DEF OtpWrong, Ops
<1>3. /\ guesses' = [guesses EXCEPT ![otp.code] = @ + 1]
      /\ otp.attempts < MaxAttempts /\ otp.attempts \in Nat /\ otp.code \in Codes
      /\ otp # Null
  BY <1>0, SessionsAssumption DEF OtpWrong, Spent, OtpRows
<1>4. CodesIssued'
  BY <1>0, <1>1, <1>3 DEF CodesInv, CodesIssued
<1>5. ASSUME NEW g \in Handlers PROVE Unsaved(g)' /\ RowRead(g)'
  <2>1. RowRead(g)'
    BY <1>0, <1>1, <1>2, <1>3 DEF CodesInv, CodesIssued, RowRead
  <2>2. Unsaved(g)'
    BY <1>0, <1>1, <1>2, <1>3 DEF CodesInv, Unsaved
  <2> QED
    BY <2>1, <2>2
<1>6. ASSUME NEW f \in Handlers, NEW g \in Handlers, f # g PROVE OwnCode(f, g)'
  BY <1>2, <1>6 DEF CodesInv, OwnCode
<1> DEFINE n == Cardinality(Counting(otp.code))
           N == Cardinality(Handlers)
<1>7. /\ Counting(otp.code)' = Counting(otp.code) \cup {h} /\ h \notin Counting(otp.code)
      /\ Counting(otp.code) \subseteq Handlers \ {h}
  BY <1>1, <1>2 DEF Counting
<1>8. n \in Nat /\ N \in Nat /\ Cardinality(Counting(otp.code)') = n + 1 /\ n <= N - 1
  <2>1. IsFiniteSet(Handlers \ {h}) /\ Cardinality(Handlers \ {h}) = N - 1
    BY FS_RemoveElement, SessionsAssumption
  <2> QED
    BY <1>7, <2>1, CountingIsFinite, FS_AddElement, FS_Subset
<1>9. guesses[otp.code] \in Nat /\ guesses[otp.code] <= otp.attempts + n + Lost
  BY <1>0, <1>3 DEF CodesInv, GuessesCounted
<1>10. Lost \in Nat /\ Lost' = Lost
  BY <1>1, LostCount
<1>11. GuessesCounted'
  BY <1>0, <1>1, <1>3, <1>8, <1>9, <1>10 DEF GuessesCounted
<1>12. GuessesBounded'
  <2> SUFFICES ASSUME NEW c \in Codes PROVE guesses'[c] <= MaxAttempts + N - 1 + Lost
    BY <1>1 DEF GuessesBounded, Lost
  <2>1. CASE c = otp.code
    <3>1. guesses'[c] = guesses[otp.code] + 1
      BY <1>0, <1>3, <2>1
    <3>2. MaxAttempts \in Nat
      BY SessionsAssumption
    <3> QED
      BY <1>3, <1>8, <1>9, <1>10, <3>1, <3>2
  <2>2. CASE c # otp.code
    BY <1>0, <1>3, <2>2 DEF CodesInv, GuessesBounded, Lost
  <2> QED
    BY <2>1, <2>2
<1>13. UsedCodesAreGone'
  BY <1>1, <1>2 DEF CodesInv, UsedCodesAreGone
<1> QED
  BY <1>4, <1>5, <1>6, <1>11, <1>12, <1>13 DEF CodesInv

\* An accepted code is in the hands of the handler that accepted it.
LEMMA AcceptedCodeIsDropped ==
    ASSUME TypeInv, CodesInv, NEW h \in Handlers, OtpRight(h)
    PROVE  CodesInv'
<1> USE DEF Goto, Proceed, At, tables, counters, sessionHistory
<1>0. op \in [Handlers -> Ops] /\ op[h] \in Ops
  BY DEF TypeInv, TypeOK
<1>1. /\ UNCHANGED <<otp, issued, guesses, crashes>> /\ op[h].pc = "otpRead"
      /\ otp # Null /\ op[h].code = otp.code /\ used' = used \cup {otp.code}
  BY DEF OtpRight
<1>2. /\ op'[h].pc \in {"verified", "dropCode"} /\ op'[h].code = op[h].code
      /\ \A g \in Handlers \ {h}: op'[g] = op[g]
  BY <1>0 DEF OtpRight, Ops
<1>3. CodesIssued'
  BY <1>1 DEF CodesInv, CodesIssued
<1>4. ASSUME NEW g \in Handlers PROVE Unsaved(g)' /\ RowRead(g)'
  BY <1>1, <1>2 DEF CodesInv, Unsaved, RowRead
<1>5. ASSUME NEW f \in Handlers, NEW g \in Handlers, f # g PROVE OwnCode(f, g)'
  BY <1>2, <1>5 DEF CodesInv, OwnCode
<1>6. \A c: Counting(c)' = Counting(c)
  BY <1>1, <1>2 DEF Counting
<1>7. GuessesCounted' /\ GuessesBounded'
  BY <1>1, <1>6, LostCount DEF CodesInv, GuessesCounted, GuessesBounded
<1>8. UsedCodesAreGone'
  BY <1>1, <1>2 DEF UsedCodesAreGone
<1> QED
  BY <1>3, <1>4, <1>5, <1>7, <1>8 DEF CodesInv

\* An attempt that is counted no longer has to be; one at an earlier code of
\* the row is counted against the present one.
LEMMA CountedGuess ==
    ASSUME TypeInv, CodesInv, NEW h \in Handlers, CountAttempt(h)
    PROVE  CodesInv'
<1> USE DEF Goto, At, tables, counters, sessionHistory, codeHistory
<1>0. op \in [Handlers -> Ops] /\ op[h] \in Ops /\ otp \in OtpRows \cup {Null}
  BY DEF TypeInv, TypeOK
<1>1. UNCHANGED <<issued, guesses, used, crashes>> /\ op[h].pc = "count"
  BY DEF CountAttempt
<1>2. op'[h].pc = "idle" /\ \A g \in Handlers \ {h}: op'[g] = op[g]
  BY <1>0 DEF CountAttempt, Idle
<1>3. /\ otp' = Null <=> otp = Null
      /\ otp # Null =>
           /\ otp'.id = otp.id /\ otp'.code = otp.code
           /\ otp.attempts \in Nat
           /\ otp'.attempts = otp.attempts + IF SameRow(h) THEN 1 ELSE 0
  <2>1. CASE SameRow(h)
    BY <1>0, <2>1, NullIsNoRow DEF CountAttempt, SameRow, OtpRows
  <2>2. CASE ~SameRow(h)
    BY <1>0, <2>2 DEF CountAttempt, OtpRows
  <2> QED
    BY <2>1, <2>2
<1>4. CodesIssued'
  BY <1>1, <1>3 DEF CodesInv, CodesIssued
<1>5. ASSUME NEW g \in Handlers PROVE Unsaved(g)' /\ RowRead(g)'
  BY <1>1, <1>2, <1>3 DEF CodesInv, Unsaved, RowRead
<1>6. ASSUME NEW f \in Handlers, NEW g \in Handlers, f # g PROVE OwnCode(f, g)'
  BY <1>2, <1>6 DEF CodesInv, OwnCode
<1>7. GuessesCounted'
  <2> SUFFICES ASSUME otp # Null
               PROVE  guesses[otp.code] <= otp'.attempts + Cardinality(Counting(otp.code)') + Lost
    BY <1>1, <1>3, LostCount DEF GuessesCounted
  <2> DEFINE n == Cardinality(Counting(otp.code))
  <2>1. /\ guesses[otp.code] <= otp.attempts + n + Lost
        /\ guesses[otp.code] \in Nat /\ Lost \in Nat /\ n \in Nat
    BY <1>0, LostCount, CountingIsFinite
    DEF CodesInv, GuessesCounted, TypeInv, TypeOK, OtpRows
  <2>2. CASE op[h].row.code = otp.code
    <3>1. SameRow(h)
      BY <1>1, <2>2, NullIsNoRow DEF CodesInv, RowRead, SameRow
    <3>2. h \in Counting(otp.code) /\ Counting(otp.code)' = Counting(otp.code) \ {h}
      BY <1>1, <1>2, <1>3, <2>2 DEF Counting
    <3>3. Cardinality(Counting(otp.code)') = n - 1
      BY <3>2, CountingIsFinite, FS_RemoveElement
    <3> QED
      BY <1>3, <2>1, <3>1, <3>3
  <2>3. CASE op[h].row.code # otp.code
    <3>1. Counting(otp.code)' = Counting(otp.code)
      BY <1>1, <1>2, <1>3, <2>3 DEF Counting
    <3> QED
      BY <1>3, <2>1, <3>1
  <2> QED
    BY <2>2, <2>3
<1>8. GuessesBounded'
  BY <1>1 DEF CodesInv, GuessesBounded
<1>9. UsedCodesAreGone'
  BY <1>1, <1>2, <1>3 DEF CodesInv, UsedCodesAreGone
<1> QED
  BY <1>4, <1>5, <1>6, <1>7, <1>8, <1>9 DEF CodesInv

\* Without a code there is nothing to guess or to use.
LEMMA DroppedCode ==
    ASSUME TypeInv, CodesInv, NEW h \in Handlers, DropCode(h)
    PROVE  CodesInv'
<1> USE DEF Goto, At, tables, counters, sessionHistory, codeHistory
<1>0. op \in [Handlers -> Ops] /\ op[h] \in Ops
  BY DEF TypeInv, TypeOK
<1>1. /\ UNCHANGED <<issued, guesses, used, crashes>> /\ otp' = Null
      /\ op[h].pc \in {"reject", "dropCode"}
  BY DEF DropCode
<1>2. /\ op'[h].pc \in {"idle", "store", "answer"}
      /\ \A g \in Handlers \ {h}: op'[g] = op[g]
  BY <1>0 DEF DropCode, Idle, Ops
<1>3. CodesIssued'
  BY <1>1 DEF CodesInv, CodesIssued
<1>4. ASSUME NEW g \in Handlers PROVE Unsaved(g)' /\ RowRead(g)'
  BY <1>1, <1>2 DEF CodesInv, Unsaved, RowRead
<1>5. ASSUME NEW f \in Handlers, NEW g \in Handlers, f # g PROVE OwnCode(f, g)'
  BY <1>2, <1>5 DEF CodesInv, OwnCode
<1>6. GuessesCounted' /\ GuessesBounded' /\ UsedCodesAreGone'
  BY <1>1 DEF CodesInv, GuessesCounted, GuessesBounded, UsedCodesAreGone
<1> QED
  BY <1>3, <1>4, <1>5, <1>6 DEF CodesInv

\* A crash loses the guesses that are still to be counted, one of each handler
\* at most.
LEMMA CrashLosesCounts ==
    ASSUME TypeInv, CodesInv, Crash
    PROVE  CodesInv'
<1> USE DEF tables, codeHistory
<1>1. /\ UNCHANGED <<otp, issued, guesses, used>> /\ crashes' = crashes + 1
      /\ \A h \in Handlers: op'[h] = Idle
  BY DEF Crash
<1>2. CodesIssued'
  BY <1>1 DEF CodesInv, CodesIssued
<1>3. \A h \in Handlers: Unsaved(h)' /\ RowRead(h)' /\ \A g \in Handlers: OwnCode(g, h)'
  BY <1>1 DEF Unsaved, RowRead, OwnCode, Idle
<1> DEFINE N == Cardinality(Handlers)
<1>4. Lost \in Nat /\ Lost' = Lost + N /\ N \in Nat
  BY <1>1, LostCount, CountingIsFinite
<1>5. GuessesCounted'
  <2> SUFFICES ASSUME otp # Null
               PROVE  guesses[otp.code] <= otp.attempts + Cardinality(Counting(otp.code)') + Lost'
    BY <1>1 DEF GuessesCounted
  <2>1. Counting(otp.code)' = {}
    BY <1>1 DEF Counting, Idle
  <2>2. Cardinality(Counting(otp.code)) <= N /\ Cardinality(Counting(otp.code)) \in Nat
    <3>1. Counting(otp.code) \subseteq Handlers
      BY DEF Counting
    <3> QED
      BY <3>1, FS_Subset, CountingIsFinite, SessionsAssumption
  <2>3. otp.attempts \in Nat /\ guesses[otp.code] \in Nat
    BY DEF TypeInv, TypeOK, OtpRows
  <2>4. guesses[otp.code] <= otp.attempts + Cardinality(Counting(otp.code)) + Lost
    BY DEF CodesInv, GuessesCounted
  <2> QED
    BY <1>4, <2>1, <2>2, <2>3, <2>4, FS_EmptySet
<1>6. GuessesBounded'
  <2> SUFFICES ASSUME NEW c \in Codes PROVE guesses[c] <= MaxAttempts + N - 1 + Lost'
    BY <1>1 DEF GuessesBounded, Lost
  <2>1. guesses[c] <= MaxAttempts + N - 1 + Lost /\ guesses[c] \in Nat /\ MaxAttempts \in Nat
    BY SessionsAssumption DEF CodesInv, GuessesBounded, Lost, TypeInv, TypeOK
  <2> QED
    BY <1>4, <2>1
<1>7. UsedCodesAreGone'
  BY <1>1, SessionsAssumption DEF UsedCodesAreGone, TypeInv, TypeOK
<1> QED
  BY <1>2, <1>3, <1>5, <1>6, <1>7 DEF CodesInv

\* CodesInv is inductive relative to TypeInv.
LEMMA CodesStep ==
    ASSUME TypeInv, CodesInv, [Next]_vars
    PROVE  CodesInv'
<1>1. CASE UNCHANGED vars
  <2>1. LeavesCodes
    BY <1>1 DEF LeavesCodes, vars, tables, codeHistory, counters
  <2> QED
    BY <2>1, CodesLeft
<1>2. CASE Next /\ ~Crash /\ \A h \in Handlers: ~CodeWrites(h)
  BY <1>2, OthersLeaveCodes, CodesLeft
<1>3. CASE Crash
  BY <1>3, CrashLosesCounts
<1>4. ASSUME NEW h \in Handlers, CodeWrites(h) PROVE CodesInv'
  BY <1>4, NewCodeIsUnsaved, SavedCodeIsNew, WrongGuessIsBounded, AcceptedCodeIsDropped,
     CountedGuess, DroppedCode
  DEF CodeWrites
<1> QED
  BY <1>1, <1>2, <1>3, <1>4

\* Initially there are no codes.
LEMMA CodesInit == Init => CodesInv
<1> SUFFICES ASSUME Init PROVE CodesInv
  OBVIOUS
<1>1. \A h \in Handlers: op[h].pc = "idle"
  BY DEF Init, Idle
<1>2. CodesIssued /\ GuessesCounted /\ UsedCodesAreGone
  BY DEF Init, CodesIssued, GuessesCounted, UsedCodesAreGone
<1>3. GuessesBounded
  <2>1. Cardinality(Handlers) \in Nat \ {0} /\ MaxAttempts \in Nat
    BY SessionsAssumption, FS_CardinalityType, FS_EmptySet
  <2>2. crashes = 0 /\ \A c \in Codes: guesses[c] = 0
    BY DEF Init
  <2>3. crashes * Cardinality(Handlers) = 0
    BY <2>1, <2>2
  <2> QED
    BY <2>1, <2>2, <2>3 DEF GuessesBounded
<1> QED
  BY <1>1, <1>2, <1>3 DEF CodesInv, Unsaved, RowRead, OwnCode

\* A code is compared with at most MaxAttempts wrong ones, one more for each
\* further request that read the row before the last attempt was counted, and
\* those whose counting a crash prevented, for any numbers of all of these: a
\* guess is counted in the row it was compared with, since a row gets another
\* code but a code never another row.
THEOREM GuessesBoundedTheorem == Spec => []GuessesBounded
<1>1. TypeInv /\ CodesInv /\ [Next]_vars => CodesInv'
  BY CodesStep
<1>2. CodesInv => GuessesBounded
  BY DEF CodesInv
<1> QED
  BY <1>1, <1>2, CodesInit, TypeInvariance, PTL DEF Spec

\* An accepted code is not accepted again once the request that used it has
\* dropped it, and no later request brings it back, crashes in between aside:
\* a request that saves a code over the row saves its own.
THEOREM UsedCodesTheorem == Spec => []UsedCodesAreGone
<1>1. TypeInv /\ CodesInv /\ [Next]_vars => CodesInv'
  BY CodesStep
<1>2. CodesInv => UsedCodesAreGone
  BY DEF CodesInv
<1> QED
  BY <1>1, <1>2, CodesInit, TypeInvariance, PTL DEF Spec

-----------------------------------------------------------------------------
(* Ended sessions.                                                         *)

\* A refresh that found its old token active, in a session that was ended
\* since, is to give a token that was revoked with it: the new token was
\* stored before the old one was looked up.
Overtaken(h) ==
    LET old == op[h].old
    IN  (op[h].pc = "replace" /\ opened[old] # Null /\ opened[old].root \in ended) =>
            ~Unrevoked(op[h].gives)

\* Sessions are of tokens that were stored.
SessionsStored ==
    /\ \A t \in Tokens: opened[t] # Null =>
         tokens[t] # Null /\ tokens[opened[t].root] # Null
    /\ \A t \in ended: tokens[t] # Null

ChainInv ==
    /\ SessionsStored
    /\ SessionsStayEnded
    /\ \A h \in Handlers: Overtaken(h)

\* The steps that touch a token or a session, or find an old token.
TokenWrites(h) ==
    StoreToken(h) \/ ConsumeFinds(h) \/ ReplaceToken(h) \/ RevokeAll(h)

\* All other steps leave the tokens and sessions alone.
LEMMA OthersLeaveTokens ==
    ASSUME TypeInv, Next,
           \A h \in Handlers: ~TokenWrites(h),
           \A t \in Tokens: ~Logout(t) /\ ~TokenExpires(t),
           ~LogoutAll
    PROVE  /\ UNCHANGED <<tokens, opened, ended>>
           /\ \A h \in Handlers: op'[h].pc = "replace" =>
                op'[h].pc = op[h].pc /\ op'[h].old = op[h].old /\ op'[h].gives = op[h].gives
<1> DEFINE Quiet ==
             /\ UNCHANGED <<tokens, opened, ended>>
             /\ \A h \in Handlers: op'[h].pc = "replace" =>
                  op'[h].pc = op[h].pc /\ op'[h].old = op[h].old /\ op'[h].gives = op[h].gives
<1> USE DEF tables, sessionHistory, codeHistory, counters
<1>0. op \in [Handlers -> Ops]
  BY DEF TypeInv, TypeOK
<1>1. ASSUME NEW h \in Handlers, NEW state, op' = [op EXCEPT ![h] = state],
             state.pc # "replace", UNCHANGED <<tokens, opened, ended>>
      PROVE  Quiet
  BY <1>0, <1>1
<1>2. ASSUME NEW h \in Handlers, Request(h) PROVE Quiet
  <2>0. ASSUME NEW state, Begin(h, state), state.pc # "replace" PROVE Quiet
    BY <1>1, <2>0 DEF Begin, Goto
  <2>1. CASE Register(h)
    BY <2>0, <2>1 DEF Register, Idle
  <2>2. CASE Login(h)
    BY <2>0, <2>2 DEF Login, Idle
  <2>3. CASE VerifyEmail(h)
    BY <2>0, <2>3 DEF VerifyEmail, Idle
  <2>4. CASE VerifyReset(h)
    BY <2>0, <2>4 DEF VerifyReset, Idle
  <2>5. CASE Forgot(h)
    BY <2>0, <2>5 DEF Forgot, Idle
  <2>6. CASE Reset(h)
    BY <2>0, <2>6 DEF Reset, Idle
  <2>7. CASE Refresh(h)
    BY <2>0, <2>7 DEF Refresh, Idle
  <2> QED
    BY <1>2, <2>1, <2>2, <2>3, <2>4, <2>5, <2>6, <2>7 DEF Request
<1>3. ASSUME NEW h \in Handlers, TokenSteps(h), ~TokenWrites(h) PROVE Quiet
  <2>0. op[h] \in Ops
    BY <1>0
  <2>1. CASE CreateAccount(h)
    BY <1>1, <2>0, <2>1 DEF CreateAccount, Goto, Proceed, Ops
  <2>2. CASE EmailTaken(h)
    BY <1>1, <2>0, <2>2 DEF EmailTaken, Throw, Local, Idle, Goto, Proceed, Ops
  <2>3. CASE MarkVerified(h)
    BY <1>1, <2>0, <2>3 DEF MarkVerified, Goto, Proceed, Ops
  <2>4. CASE SetPassword(h)
    BY <1>1, <2>0, <2>4 DEF SetPassword, Goto, Proceed, Ops
  <2>5. CASE ConsumeFindsNone(h)
    BY <1>1, <2>0, <2>5 DEF ConsumeFindsNone, Local, Goto, Proceed, Ops
  <2>6. CASE Answer(h)
    BY <1>1, <2>0, <2>6 DEF Answer, Idle, Goto, Proceed, Ops
  <2> QED
    BY <1>3, <2>1, <2>2, <2>3, <2>4, <2>5, <2>6 DEF TokenSteps, TokenWrites
<1>4. ASSUME NEW h \in Handlers, CodeSteps(h) PROVE Quiet
  <2>0. op[h] \in Ops
    BY <1>0
  <2>1. CASE OtpFinds(h)
    BY <1>1, <2>0, <2>1 DEF OtpFinds, Goto, Proceed, Ops
  <2>2. CASE OtpSaves(h)
    BY <1>1, <2>0, <2>2 DEF OtpSaves, Goto, Proceed, Ops
  <2>3. CASE OtpSaveFails(h)
    BY <1>1, <2>0, <2>3 DEF OtpSaveFails, Throw, Local, Idle, Goto, Proceed, Ops
  <2>4. CASE OtpMissing(h)
    BY <1>1, <2>0, <2>4 DEF OtpMissing, Throw, Local, Idle, Goto, Proceed, Ops
  <2>5. CASE OtpSpent(h)
    BY <1>1, <2>0, <2>5 DEF OtpSpent, Local, Goto, Proceed, Ops
  <2>6. CASE OtpWrong(h)
    BY <1>1, <2>0, <2>6 DEF OtpWrong, Goto, Proceed, Ops
  <2>7. CASE OtpRight(h)
    BY <1>1, <2>0, <2>7 DEF OtpRight, Goto, Proceed, Ops
  <2>8. CASE CountAttempt(h)
    BY <1>1, <2>0, <2>8 DEF CountAttempt, Idle, Goto, Proceed, Ops
  <2>9. CASE DropCode(h)
    BY <1>1, <2>0, <2>9 DEF DropCode, Idle, Goto, Proceed, Ops
  <2> QED
    BY <1>4, <2>1, <2>2, <2>3, <2>4, <2>5, <2>6, <2>7, <2>8, <2>9 DEF CodeSteps
<1>5. ASSUME \/ \E password \in Passwords: Enrol(password)
             \/ RemoveAccount \/ CodeExpires \/ Crash
      PROVE  Quiet
  BY <1>0, <1>5 DEF Enrol, RemoveAccount, CodeExpires, Crash, Idle
<1> QED
  BY <1>2, <1>3, <1>4, <1>5 DEF Next

\* A token that is stored stays stored, and one that is revoked stays revoked,
\* whatever rows are inserted besides.
LEMMA ChainsKeptByQuietSteps ==
    ASSUME TypeInv, ChainInv, UNCHANGED <<opened, ended>>,
           \A t \in Tokens: tokens[t] # Null =>
              tokens'[t] # Null /\ (tokens[t].revoked => tokens'[t].revoked),
           \A h \in Handlers: op'[h].pc = "replace" =>
              op'[h].pc = op[h].pc /\ op'[h].old = op[h].old /\ op'[h].gives = op[h].gives
    PROVE  ChainInv'
<1>1. SessionsStored'
  BY DEF ChainInv, SessionsStored, TypeInv, TypeOK, Openings
<1>2. SessionsStayEnded'
  BY DEF ChainInv, SessionsStored, SessionsStayEnded, Live, Unrevoked
<1>3. ASSUME NEW h \in Handlers PROVE Overtaken(h)'
  <2> SUFFICES ASSUME op'[h].pc = "replace"
               PROVE  Overtaken(h)'
    BY DEF Overtaken
  <2>1. op[h].gives \in Tokens /\ tokens[op[h].gives] # Null /\ op[h].pc = "replace"
    BY DEF TypeInv, OpSound, TokensSound
  <2> QED
    BY <2>1 DEF ChainInv, Overtaken, Unrevoked
<1> QED
  BY <1>1, <1>2, <1>3 DEF ChainInv

\* Once everything is revoked nothing is live.
LEMMA ChainsKeptByRevocation ==
    ASSUME TypeInv, ChainInv, tokens' = Revoked, ended' = ended \cup Roots, opened' = opened,
           \A h \in Handlers: op'[h].pc = "replace" => op'[h] = op[h]
    PROVE  ChainInv'
<1>1. \A t \in Tokens: tokens'[t] = Null <=> tokens[t] = Null
  BY RevokedTokens DEF TypeInv
<1>2. \A t \in Tokens: tokens'[t] # Null => tokens'[t].revoked
  BY <1>1 DEF Revoked, TypeInv, TypeOK, TokenRows
<1>3. \A t \in Roots: t \in Tokens /\ tokens[t] # Null
  BY DEF Roots, ChainInv, SessionsStored, TypeInv, TypeOK, Openings
<1>4. SessionsStored'
  BY <1>1, <1>3 DEF ChainInv, SessionsStored, TypeInv, TypeOK, Openings
<1>5. SessionsStayEnded'
  BY <1>2 DEF SessionsStayEnded, Live, Unrevoked
<1>6. ASSUME NEW h \in Handlers PROVE Overtaken(h)'
  <2> SUFFICES ASSUME op'[h].pc = "replace" PROVE Overtaken(h)'
    BY DEF Overtaken
  <2>1. op'[h].gives \in Tokens
    BY DEF TypeInv, OpSound
  <2> QED
    BY <1>2, <2>1 DEF Overtaken, Unrevoked
<1> QED
  BY <1>4, <1>5, <1>6 DEF ChainInv

\* ChainInv is inductive relative to TypeInv.
LEMMA ChainStep ==
    ASSUME TypeInv, ChainInv, [Next]_vars
    PROVE  ChainInv'
<1> USE DEF Goto, Proceed, At, tables, counters, sessionHistory, codeHistory
<1>0. TypeOK /\ (\A h \in Handlers: op[h] \in Ops /\ OpSound(op[h]) /\ TokensSound(h))
  BY DEF TypeInv, TypeOK
<1>1. ASSUME NEW h \in Handlers, StoreToken(h) PROVE ChainInv'
  <2> DEFINE t == op[h].gives
  <2>1. t \in Tokens /\ tokens[t] = Null
    BY <1>0, <1>1 DEF StoreToken, OpSound, TokensSound
  <2>2. \A u \in Tokens: tokens'[u] = IF u = t THEN NewRow ELSE tokens[u]
    BY <1>0, <1>1 DEF StoreToken, TypeOK
  <2>3. NewRow # Null
    <3>1. NewRow \in TokenRows
      BY DEF NewRow, TokenRows
    <3> QED
      BY <3>1, NullIsNoRow
  <2>4. op'[h].pc # "replace" /\ (\A g \in Handlers \ {h}: op'[g] = op[g])
    BY <1>0, <1>1 DEF StoreToken, TypeOK, Ops
  <2>5. CASE op[h].kind = "refresh"
    <3>1. UNCHANGED <<opened, ended>>
      BY <1>1, <2>5 DEF StoreToken
    <3>2. \A u \in Tokens: tokens[u] # Null =>
            tokens'[u] # Null /\ (tokens[u].revoked => tokens'[u].revoked)
      BY <2>1, <2>2
    <3>3. \A g \in Handlers: op'[g].pc = "replace" =>
            op'[g].pc = op[g].pc /\ op'[g].old = op[g].old /\ op'[g].gives = op[g].gives
      BY <2>4
    <3> QED
      BY <3>1, <3>2, <3>3, ChainsKeptByQuietSteps
  <2>6. CASE op[h].kind # "refresh"
    <3> DEFINE opening == [root |-> t, password |-> op[h].password]
    <3>1. \A u \in Tokens: opened'[u] = IF u = t THEN opening ELSE opened[u]
      BY <1>0, <1>1, <2>6 DEF StoreToken, TypeOK
    <3>2. ended' = ended /\ opening.root = t
      BY <1>1 DEF StoreToken
    <3>3. t \notin ended /\ ended \subseteq Tokens
      BY <1>0, <2>1 DEF ChainInv, SessionsStored, TypeOK
    <3>4. \A u \in Tokens: opened[u] # Null => opened[u].root \in Tokens
      BY <1>0 DEF TypeOK, Openings
    <3> HIDE DEF opening
    <3>5. SessionsStored'
      BY <2>1, <2>2, <2>3, <3>1, <3>2, <3>3, <3>4 DEF ChainInv, SessionsStored
    <3>6. SessionsStayEnded'
      BY <2>1, <2>2, <3>1, <3>2, <3>3 DEF ChainInv, SessionsStayEnded, Live, Unrevoked
    <3>7. ASSUME NEW g \in Handlers PROVE Overtaken(g)'
      <4> SUFFICES ASSUME op'[g].pc = "replace" PROVE Overtaken(g)'
        BY DEF Overtaken
      <4>1. g # h /\ op'[g] = op[g] /\ op[g].pc = "replace"
        BY <2>4
      <4>2. op[g].gives \in Tokens /\ op[g].gives # t
        BY <1>0, <2>1, <4>1 DEF OpSound, TokensSound
      <4>3. op[g].old \in Tokens /\ op[g].old # t
        BY <1>0, <2>1, <4>1 DEF OpSound, TokensSound, TypeInv, DeliveredStored
      <4> QED
        BY <2>2, <3>1, <3>2, <4>1, <4>2, <4>3 DEF ChainInv, Overtaken, Unrevoked
    <3> QED
      BY <3>5, <3>6, <3>7 DEF ChainInv
  <2> QED
    BY <2>5, <2>6
<1>2. ASSUME NEW h \in Handlers, ConsumeFinds(h) PROVE ChainInv'
  <2>1. UNCHANGED <<tokens, opened, ended>>
    BY <1>2 DEF ConsumeFinds
  <2>2. /\ \A g \in Handlers \ {h}: op'[g] = op[g]
        /\ op'[h].old = op[h].old
    BY <1>0, <1>2 DEF ConsumeFinds, TypeOK, Ops
  <2>3. SessionsStored' /\ SessionsStayEnded'
    BY <2>1 DEF ChainInv, SessionsStored, SessionsStayEnded, Live, Unrevoked
  <2>4. op[h].old \in Tokens /\ Unrevoked(op[h].old)
    BY <1>0, <1>2 DEF ConsumeFinds, Active, OpSound
  <2>5. opened[op[h].old] # Null => opened[op[h].old].root \notin ended
    BY <2>4 DEF ChainInv, SessionsStayEnded, Live
  <2>6. Overtaken(h)'
    BY <2>1, <2>2, <2>5 DEF Overtaken
  <2>7. ASSUME NEW g \in Handlers \ {h} PROVE Overtaken(g)'
    BY <2>1, <2>2 DEF ChainInv, Overtaken, Unrevoked
  <2> QED
    BY <2>3, <2>6, <2>7 DEF ChainInv
<1>3. ASSUME NEW h \in Handlers, ReplaceToken(h) PROVE ChainInv'
  <2> DEFINE old == op[h].old
             new == op[h].gives
  <2>1. /\ old \in Tokens /\ new \in Tokens
        /\ new \notin delivered /\ old \in delivered
        /\ tokens[old] \in TokenRows /\ tokens[new] # Null
    BY <1>0, <1>3 DEF ReplaceToken, TypeInv, OpSound, TokensSound, DeliveredStored, TypeOK
  <2>2. PICK row \in TokenRows: row.revoked /\ tokens' = [tokens EXCEPT ![old] = row]
    <3>1. [tokens[old] EXCEPT !.revoked = TRUE] \in TokenRows
      BY <2>1 DEF TokenRows
    <3>2. [tokens[old] EXCEPT !.revoked = TRUE].revoked
      BY <2>1 DEF TokenRows
    <3> QED
      BY <1>3, <3>1, <3>2 DEF ReplaceToken
  <2>3. row # Null
    BY NullIsNoRow
  <2>4. \A u \in Tokens: tokens'[u] = IF u = old THEN row ELSE tokens[u]
    BY <1>0, <2>2 DEF TypeOK
  <2>5. \A u \in Tokens: opened'[u] = IF u = new THEN opened[old] ELSE opened[u]
    BY <1>0, <1>3 DEF ReplaceToken, TypeOK
  <2>6. ended' = ended /\ ended \subseteq Tokens
    BY <1>0, <1>3 DEF ReplaceToken, TypeOK
  <2>7. op'[h].pc # "replace" /\ (\A g \in Handlers \ {h}: op'[g] = op[g])
    BY <1>0, <1>3 DEF ReplaceToken, TypeOK, Ops
  <2>8. \A u \in Tokens: opened[u] # Null => opened[u].root \in Tokens
    BY <1>0 DEF TypeOK, Openings
  <2>9. SessionsStored'
    BY <2>1, <2>3, <2>4, <2>5, <2>6, <2>8 DEF ChainInv, SessionsStored
  <2>10. opened[old] # Null /\ opened[old].root \in ended => ~Unrevoked(new)
    BY <1>3 DEF ReplaceToken, ChainInv, Overtaken
  <2>11. SessionsStayEnded'
    BY <2>1, <2>2, <2>4, <2>5, <2>6, <2>10
    DEF ChainInv, SessionsStayEnded, Live, Unrevoked
  <2>12. ASSUME NEW g \in Handlers PROVE Overtaken(g)'
    <3> SUFFICES ASSUME op'[g].pc = "replace" PROVE Overtaken(g)'
      BY DEF Overtaken
    <3>1. g # h /\ op'[g] = op[g] /\ op[g].pc = "replace"
      BY <2>7
    <3>2. op[g].gives \in Tokens /\ op[g].old \in Tokens /\ op[g].old # new
      BY <1>0, <2>1, <3>1 DEF OpSound, TokensSound
    <3> QED
      BY <2>2, <2>3, <2>4, <2>5, <2>6, <3>1, <3>2 DEF ChainInv, Overtaken, Unrevoked
  <2> QED
    BY <2>9, <2>11, <2>12 DEF ChainInv
<1>4. ASSUME NEW h \in Handlers, RevokeAll(h) PROVE ChainInv'
  <2>1. \A g \in Handlers: op'[g].pc = "replace" => op'[g] = op[g]
    <3>1. op'[h].pc # "replace"
      BY <1>0, <1>4 DEF RevokeAll, TypeOK, Ops, Idle
    <3>2. \A g \in Handlers \ {h}: op'[g] = op[g]
      BY <1>0, <1>4 DEF RevokeAll, TypeOK
    <3> QED
      BY <3>1, <3>2
  <2> QED
    BY <1>4, <2>1, ChainsKeptByRevocation DEF RevokeAll
<1>5. CASE LogoutAll
  BY <1>5, ChainsKeptByRevocation DEF LogoutAll
<1>6. ASSUME NEW t \in Tokens, Logout(t) \/ TokenExpires(t) PROVE ChainInv'
  <2>1. tokens[t] \in TokenRows
    BY <1>0, <1>6 DEF Logout, ValidJwt, TypeInv, DeliveredStored, TokenExpires, Active,
       Unrevoked, TypeOK
  <2>2. UNCHANGED <<opened, ended, op>>
    BY <1>6 DEF Logout, TokenExpires
  <2>3. ASSUME NEW row \in TokenRows, tokens' = [tokens EXCEPT ![t] = row],
               tokens[t].revoked => row.revoked
        PROVE  ChainInv'
    <3>1. \A u \in Tokens: tokens'[u] = IF u = t THEN row ELSE tokens[u]
      BY <1>0, <2>3 DEF TypeOK
    <3>2. row # Null
      BY NullIsNoRow
    <3> QED
      BY <2>2, <2>3, <3>1, <3>2, ChainsKeptByQuietSteps
  <2>4. [tokens[t] EXCEPT !.revoked = TRUE] \in TokenRows
    BY <2>1 DEF TokenRows
  <2>5. [tokens[t] EXCEPT !.expired = TRUE] \in TokenRows
    BY <2>1 DEF TokenRows
  <2>6. CASE Logout(t)
    BY <2>1, <2>3, <2>4, <2>6 DEF Logout, TokenRows
  <2>7. CASE TokenExpires(t)
    BY <2>1, <2>3, <2>5, <2>7 DEF TokenExpires, TokenRows
  <2> QED
    BY <1>6, <2>6, <2>7
<1>7. CASE UNCHANGED vars
  <2>1. UNCHANGED <<tokens, opened, ended, op>>
    BY <1>7 DEF vars
  <2> QED
    BY <2>1, ChainsKeptByQuietSteps
<1>8. CASE Next /\ (\A h \in Handlers: ~TokenWrites(h))
           /\ (\A t \in Tokens: ~Logout(t) /\ ~TokenExpires(t)) /\ ~LogoutAll
  BY <1>8, OthersLeaveTokens, ChainsKeptByQuietSteps
<1> QED
  BY <1>1, <1>2, <1>3, <1>4, <1>5, <1>6, <1>7, <1>8 DEF TokenWrites

\* Initially there are no tokens.
LEMMA ChainInit == Init => ChainInv
<1> SUFFICES ASSUME Init PROVE ChainInv
  OBVIOUS
<1>1. SessionsStored /\ SessionsStayEnded
  BY DEF Init, SessionsStored, SessionsStayEnded, Live
<1>2. \A h \in Handlers: Overtaken(h)
  BY DEF Init, Overtaken, Idle
<1> QED
  BY <1>1, <1>2 DEF ChainInv

\* A session that existed when all sessions were revoked is never usable
\* again, for any number of tokens, requests and crashes: a refresh stores
\* its new token before it looks the old one up, so a revocation that comes
\* between the two writes revokes both.
THEOREM SessionsStayEndedTheorem == Spec => []SessionsStayEnded
<1>1. TypeInv /\ ChainInv /\ [Next]_vars => ChainInv'
  BY ChainStep
<1>2. ChainInv => SessionsStayEnded
  BY DEF ChainInv
<1> QED
  BY <1>1, <1>2, ChainInit, TypeInvariance, PTL DEF Spec
-----------------------------------------------------------------------------
(* Rotation.                                                               *)

\* A refresh has not opened its new token yet.
Unopened(h) ==
    (op[h].kind = "refresh" /\ op[h].pc \in {"store", "consume"}) \/ op[h].pc = "replace"
        => opened[op[h].gives] = Null

\* A refresh about to save its old token found it active.  If it is revoked by
\* now, another request had it in hands too, or all tokens were revoked, the
\* new one included.
Superseding(h) ==
    op[h].pc = "replace" =>
        \/ op[h].old \in contended
        \/ Unrevoked(op[h].old)
        \/ ~Unrevoked(op[h].gives)

\* A token in two hands is contended.
InTwoHands(g, h) ==
    (op[g].pc = "replace" /\ op[h].pc = "replace" /\ op[g].old = op[h].old) =>
        op[h].old \in contended

\* A token is of a session before its client gets it.
AnswersOpened(h) ==
    (op[h].pc = "answer" /\ op[h].gives \in Tokens) => opened[op[h].gives] # Null

DeliveredOpened == \A t \in delivered \cap Tokens: opened[t] # Null

RotationInv ==
    /\ \A h \in Handlers: Unopened(h) /\ Superseding(h) /\ AnswersOpened(h)
    /\ \A g, h \in Handlers: g # h => InTwoHands(g, h)
    /\ DeliveredOpened

\* All that is known of a state.
Inv == TypeInv /\ ChainInv /\ RotationInv

\* Initially there are no tokens.
LEMMA RotationInit == Init => RotationInv
BY SessionsAssumption
DEF Init, RotationInv, Unopened, Superseding, InTwoHands, AnswersOpened, DeliveredOpened, Idle,
    RequestKinds

-----------------------------------------------------------------------------
(* The invariant.                                                          *)

\* A handler that has a token to replace after the step had it before.
Holds(h) ==
    op'[h].pc = "replace" =>
        op[h].pc = "replace" /\ op'[h].old = op[h].old /\ op'[h].gives = op[h].gives

\* A token a refresh is to open is not of a session, before a step of it.
Prepares(h) ==
    (op'[h].kind = "refresh" /\ op'[h].pc \in {"store", "consume"}) =>
        \/ tokens[op'[h].gives] = Null
        \/ /\ op[h].kind = "refresh" /\ op[h].pc \in {"store", "consume"}
           /\ op'[h].gives = op[h].gives

\* A token a handler is to answer with after the step, it was to before.
Repeats(h) ==
    (op'[h].pc = "answer" /\ op'[h].gives \in Tokens) =>
        op[h].pc = "answer" /\ op'[h].gives = op[h].gives

\* Only answers give tokens to clients.
Delivers ==
    \A t \in delivered' \cap Tokens:
        t \in delivered \/ \E h \in Handlers: op[h].pc = "answer" /\ op[h].gives = t

Quiet ==
    /\ UNCHANGED <<opened, contended>>
    /\ \A h \in Handlers: Holds(h) /\ Prepares(h) /\ Repeats(h)
    /\ Delivers

\* The steps that write no token keep the invariant's parts in place.
LEMMA OthersAreQuiet ==
    ASSUME TypeInv, Next,
           \A h \in Handlers: ~TokenWrites(h),
           \A t \in Tokens: ~Logout(t),
           ~LogoutAll
    PROVE  Quiet
<1> USE DEF tables, sessionHistory, codeHistory, counters
<1>0. op \in [Handlers -> Ops]
  BY DEF TypeInv, TypeOK
<1>1. ASSUME NEW h \in Handlers, \A g \in Handlers \ {h}: op'[g] = op[g],
             UNCHANGED <<opened, contended, delivered>>,
             op'[h].pc # "replace",
             op'[h].kind = "refresh" =>
                \/ op'[h].pc \notin {"store", "consume"}
                \/ tokens[op'[h].gives] = Null,
             op'[h].pc # "answer" \/ op'[h].gives \notin Tokens
      PROVE  Quiet
  BY <1>1 DEF Quiet, Holds, Prepares, Repeats, Delivers
<1>2. ASSUME NEW h \in Handlers, Request(h) PROVE Quiet
  <2>0. ASSUME NEW state, Begin(h, state), state.pc \notin {"replace", "answer"},
               state.kind = "refresh" => tokens[state.gives] = Null
        PROVE Quiet
    BY <1>0, <1>1, <2>0 DEF Begin, Goto
  <2>1. CASE Register(h)
    BY <2>0, <2>1 DEF Register, Idle
  <2>2. CASE Login(h)
    BY <2>0, <2>2 DEF Login, Idle
  <2>3. CASE VerifyEmail(h)
    BY <2>0, <2>3 DEF VerifyEmail, Idle
  <2>4. CASE VerifyReset(h)
    BY <2>0, <2>4 DEF VerifyReset, Idle
  <2>5. CASE Forgot(h)
    BY <2>0, <2>5 DEF Forgot, Idle
  <2>6. CASE Reset(h)
    BY <2>0, <2>6 DEF Reset, Idle
  <2>7. CASE Refresh(h)
    BY <2>0, <2>7 DEF Refresh, Idle, Fresh
  <2> QED
    BY <1>2, <2>1, <2>2, <2>3, <2>4, <2>5, <2>6, <2>7 DEF Request
<1>3. ASSUME NEW h \in Handlers, TokenSteps(h), ~TokenWrites(h) PROVE Quiet
  <2>0. op[h] \in Ops /\ OpSound(op[h])
    BY <1>0 DEF TypeInv
  <2>1. CASE CreateAccount(h)
    BY <1>0, <1>1, <2>0, <2>1 DEF CreateAccount, Goto, Proceed, Ops, OpSound, At
  <2>2. CASE EmailTaken(h)
    BY <1>0, <1>1, <2>0, <2>2 DEF EmailTaken, Throw, Local, Idle, Goto
  <2>3. CASE MarkVerified(h)
    BY <1>0, <1>1, <2>0, <2>3 DEF MarkVerified, Goto, Proceed, Ops, OpSound, At
  <2>4. CASE SetPassword(h)
    BY <1>0, <1>1, <2>0, <2>4 DEF SetPassword, Goto, Proceed, Ops, OpSound, At
  <2>5. CASE ConsumeFindsNone(h)
    BY <1>0, <1>1, <2>0, <2>5 DEF ConsumeFindsNone, Local, Goto, Proceed, Ops
  <2>6. CASE Answer(h)
    <3>1. Delivers
      BY <2>6 DEF Answer, At, Delivers
    <3>2. op' = [op EXCEPT ![h] = Idle] /\ UNCHANGED <<opened, contended>>
      BY <2>6 DEF Answer, Goto
    <3> QED
      BY <1>0, <3>1, <3>2, SessionsAssumption
      DEF Idle, RequestKinds, Quiet, Holds, Prepares, Repeats
  <2> QED
    BY <1>3, <2>1, <2>2, <2>3, <2>4, <2>5, <2>6 DEF TokenSteps, TokenWrites
<1>4. ASSUME NEW h \in Handlers, CodeSteps(h) PROVE Quiet
  <2>0. op[h] \in Ops /\ OpSound(op[h])
    BY <1>0 DEF TypeInv
  <2>1. CASE OtpFinds(h)
    BY <1>0, <1>1, <2>0, <2>1 DEF OtpFinds, Goto, Ops
  <2>2. CASE OtpSaves(h)
    BY <1>0, <1>1, <2>0, <2>2 DEF OtpSaves, Goto, At, Ops, OpSound
  <2>3. CASE OtpSaveFails(h)
    BY <1>0, <1>1, <2>0, <2>3 DEF OtpSaveFails, Throw, Local, Idle, Goto
  <2>4. CASE OtpMissing(h)
    BY <1>0, <1>1, <2>0, <2>4 DEF OtpMissing, Throw, Local, Idle, Goto
  <2>5. CASE OtpSpent(h)
    BY <1>0, <1>1, <2>0, <2>5 DEF OtpSpent, Local, Goto, Ops
  <2>6. CASE OtpWrong(h)
    BY <1>0, <1>1, <2>0, <2>6 DEF OtpWrong, Goto, Ops
  <2>7. CASE OtpRight(h)
    BY <1>0, <1>1, <2>0, <2>7 DEF OtpRight, Goto, Proceed, Ops
  <2>8. CASE CountAttempt(h)
    BY <1>0, <1>1, <2>0, <2>8 DEF CountAttempt, Idle, Goto
  <2>9. CASE DropCode(h)
    BY <1>0, <1>1, <2>0, <2>9 DEF DropCode, Idle, Goto, Ops, OpSound
  <2> QED
    BY <1>4, <2>1, <2>2, <2>3, <2>4, <2>5, <2>6, <2>7, <2>8, <2>9 DEF CodeSteps
<1>5. ASSUME \/ \E password \in Passwords: Enrol(password)
             \/ \E t \in Tokens: TokenExpires(t)
             \/ RemoveAccount \/ CodeExpires \/ Crash
      PROVE  Quiet
  BY <1>0, <1>5, SessionsAssumption
  DEF Enrol, TokenExpires, RemoveAccount, CodeExpires, Crash, Idle, Quiet, Holds, Prepares,
      Repeats, Delivers, RequestKinds
<1> QED
  BY <1>2, <1>3, <1>4, <1>5 DEF Next

\* Quiet steps that revoke nothing, or everything, keep the invariant.
LEMMA QuietKeepsRotation ==
    ASSUME Inv, [Next]_vars, Quiet,
           \/ \A t \in Tokens: tokens[t] # Null => (Unrevoked(t)' <=> Unrevoked(t))
           \/ \A t \in Tokens: ~Unrevoked(t)'
    PROVE  RotationInv'
<1> USE DEF Inv, Quiet
<1>1. \A h \in Handlers: op[h].pc = "replace" =>
        /\ op[h].old \in Tokens /\ op[h].gives \in Tokens
        /\ tokens[op[h].old] # Null /\ tokens[op[h].gives] # Null
  BY DEF TypeInv, OpSound, TokensSound, DeliveredStored
<1>2. \A h \in Handlers: op'[h].kind = "refresh" => op'[h].gives \in Tokens
  BY TypeInvStep DEF TypeInv, OpSound
<1>3. ASSUME NEW h \in Handlers PROVE Unopened(h)'
  BY <1>1, <1>2 DEF RotationInv, Unopened, Holds, Prepares, ChainInv, SessionsStored
<1>4. ASSUME NEW h \in Handlers PROVE Superseding(h)'
  BY <1>1 DEF RotationInv, Superseding, Holds, Unrevoked
<1>5. ASSUME NEW h \in Handlers PROVE AnswersOpened(h)'
  BY DEF RotationInv, AnswersOpened, Repeats
<1>6. ASSUME NEW g \in Handlers, NEW h \in Handlers, g # h PROVE InTwoHands(g, h)'
  BY <1>6 DEF RotationInv, InTwoHands, Holds
<1>7. DeliveredOpened'
  BY DEF RotationInv, DeliveredOpened, AnswersOpened, Delivers
<1> QED
  BY <1>3, <1>4, <1>5, <1>6, <1>7 DEF RotationInv

\* A token that expires is not revoked by that.
LEMMA ExpiryRevokesNothing ==
    ASSUME TypeOK, NEW t \in Tokens, TokenExpires(t), NEW u \in Tokens
    PROVE  Unrevoked(u)' <=> Unrevoked(u)
<1>1. tokens[t] \in TokenRows
  BY DEF TokenExpires, Active, Unrevoked, TypeOK
<1>2. [tokens[t] EXCEPT !.expired = TRUE] \in TokenRows
  BY <1>1 DEF TokenRows
<1>3. tokens'[u] = IF u = t THEN [tokens[t] EXCEPT !.expired = TRUE] ELSE tokens[u]
  BY DEF TokenExpires, TypeOK
<1> QED
  BY <1>1, <1>2, <1>3, NullIsNoRow DEF Unrevoked, TokenRows

\* RotationInv is inductive relative to the other invariants.
LEMMA RotationStep ==
    ASSUME Inv, [Next]_vars
    PROVE  RotationInv'
<1> USE DEF Goto, Proceed, At, tables, counters, sessionHistory, codeHistory
<1>0. /\ TypeOK
      /\ \A h \in Handlers: op[h] \in Ops /\ OpSound(op[h]) /\ TokensSound(h)
  BY DEF Inv, TypeInv, TypeOK
<1>1. ASSUME NEW h \in Handlers, StoreToken(h) PROVE RotationInv'
  <2> DEFINE t == op[h].gives
  <2>1. t \in Tokens /\ tokens[t] = Null /\ t \notin delivered
    BY <1>0, <1>1 DEF StoreToken, OpSound, TokensSound
  <2>2. \A u \in Tokens: u # t => tokens'[u] = tokens[u]
    BY <1>0, <1>1 DEF StoreToken, TypeOK
  <2>3. \A g \in Handlers \ {h}: op'[g] = op[g]
    BY <1>0, <1>1 DEF StoreToken, TypeOK
  <2>4. \A u \in Tokens: tokens[u] # Null => (Unrevoked(u)' <=> Unrevoked(u))
    BY <2>1, <2>2 DEF Unrevoked
  <2>5. op'[h].gives = t /\ UNCHANGED <<contended, delivered>>
    BY <1>0, <1>1 DEF StoreToken, TypeOK, Ops
  <2>6. CASE op[h].kind = "refresh"
    <3>1. op'[h].pc = "consume" /\ opened' = opened
      BY <1>0, <1>1, <2>6 DEF StoreToken, TypeOK, Ops
    <3>2. Quiet
      BY <1>1, <2>3, <2>5, <2>6, <3>1
      DEF Quiet, Holds, Prepares, Repeats, Delivers, StoreToken
    <3> QED
      BY <2>4, <3>2, QuietKeepsRotation
  <2>7. CASE op[h].kind # "refresh"
    <3>1. op'[h].pc = "answer" /\ op'[h].kind # "refresh"
      BY <1>0, <1>1, <2>7 DEF StoreToken, TypeOK, Ops
    <3>2. opened'[t] # Null /\ \A u \in Tokens: u # t => opened'[u] = opened[u]
      <4>1. [root |-> t, password |-> op[h].password] \in Openings
        BY <1>0, <2>1, <2>7 DEF OpSound, Openings
      <4>2. /\ opened'[t] = [root |-> t, password |-> op[h].password]
            /\ \A u \in Tokens: u # t => opened'[u] = opened[u]
        BY <1>0, <1>1, <2>1, <2>7 DEF StoreToken, TypeOK
      <4> QED
        BY <4>1, <4>2, NullIsNoOpening
    <3>3. \A g \in Handlers \ {h}:
            /\ op[g].gives # t
            /\ op[g].kind = "refresh" => op[g].gives \in Tokens /\ op[g].old \in Tokens
            /\ op[g].kind = "refresh" => op[g].old # t /\ tokens[op[g].old] # Null
            /\ op[g].pc = "replace" => op[g].kind = "refresh" /\ tokens[op[g].gives] # Null
      BY <1>0, <2>1 DEF OpSound, TokensSound, Inv, TypeInv, DeliveredStored
    <3>4. ASSUME NEW g \in Handlers PROVE Unopened(g)'
      BY <2>3, <3>1, <3>2, <3>3 DEF Inv, RotationInv, Unopened
    <3>5. ASSUME NEW g \in Handlers PROVE Superseding(g)'
      BY <2>3, <2>4, <2>5, <3>1, <3>3 DEF Inv, RotationInv, Superseding
    <3>6. ASSUME NEW g \in Handlers PROVE AnswersOpened(g)'
      BY <2>3, <2>5, <3>1, <3>2, <3>3 DEF Inv, RotationInv, AnswersOpened
    <3>7. ASSUME NEW f \in Handlers, NEW g \in Handlers, f # g PROVE InTwoHands(f, g)'
      BY <2>3, <2>5, <3>1, <3>7 DEF Inv, RotationInv, InTwoHands
    <3>8. DeliveredOpened'
      BY <2>1, <2>5, <3>2 DEF Inv, RotationInv, DeliveredOpened
    <3> QED
      BY <3>4, <3>5, <3>6, <3>7, <3>8 DEF RotationInv
  <2> QED
    BY <2>6, <2>7
<1>2. ASSUME NEW h \in Handlers, ConsumeFinds(h) PROVE RotationInv'
  <2>1. UNCHANGED <<tokens, opened, delivered>> /\ contended \subseteq contended'
    BY <1>2 DEF ConsumeFinds
  <2>2. \A g \in Handlers \ {h}: op'[g] = op[g]
    BY <1>0, <1>2 DEF ConsumeFinds, TypeOK
  <2>3. /\ op[h].pc = "consume" /\ op[h].kind = "refresh" /\ Unrevoked(op[h].old)
        /\ op'[h].pc = "replace" /\ op'[h].kind = "refresh"
        /\ op'[h].old = op[h].old /\ op'[h].gives = op[h].gives
    BY <1>0, <1>2 DEF ConsumeFinds, TypeOK, Ops, OpSound, Active
  <2>4. ASSUME NEW g \in Handlers PROVE (Unopened(g) /\ Superseding(g) /\ AnswersOpened(g))'
    BY <2>1, <2>2, <2>3
    DEF Inv, RotationInv, Unopened, Superseding, AnswersOpened, Unrevoked
  <2>5. ASSUME NEW g \in Handlers \ {h}, op[g].pc = "replace", op[g].old = op[h].old
        PROVE  op[h].old \in contended'
    BY <1>2, <2>5 DEF ConsumeFinds
  <2>6. ASSUME NEW f \in Handlers, NEW g \in Handlers, f # g PROVE InTwoHands(f, g)'
    BY <2>1, <2>2, <2>3, <2>5, <2>6 DEF Inv, RotationInv, InTwoHands
  <2>7. DeliveredOpened'
    BY <2>1 DEF Inv, RotationInv, DeliveredOpened
  <2> QED
    BY <2>4, <2>6, <2>7 DEF RotationInv
<1>3. ASSUME NEW h \in Handlers, ReplaceToken(h) PROVE RotationInv'
  <2> DEFINE old == op[h].old
             new == op[h].gives
  <2>1. /\ old \in Tokens /\ new \in Tokens /\ new \notin delivered /\ old \in delivered
        /\ op[h].pc = "replace" /\ op[h].kind = "refresh"
    BY <1>0, <1>3 DEF ReplaceToken, OpSound, TokensSound
  <2>2. \A u \in Tokens: u # old => tokens'[u] = tokens[u]
    BY <1>0, <1>3 DEF ReplaceToken, TypeOK
  <2>3. /\ opened'[new] = opened[old] /\ opened[old] # Null
        /\ \A u \in Tokens: u # new => opened'[u] = opened[u]
    BY <1>0, <1>3, <2>1 DEF ReplaceToken, TypeOK, Inv, RotationInv, DeliveredOpened
  <2>4. \A g \in Handlers \ {h}: op'[g] = op[g]
    BY <1>0, <1>3 DEF ReplaceToken, TypeOK
  <2>5. /\ op'[h].pc = "answer" /\ op'[h].gives = new
        /\ UNCHANGED <<contended, delivered>>
    BY <1>0, <1>3 DEF ReplaceToken, TypeOK, Ops
  <2>6. \A g \in Handlers \ {h}:
          /\ op[g].gives # new
          /\ op[g].kind = "refresh" => op[g].gives \in Tokens /\ op[g].old \in Tokens
          /\ op[g].kind = "refresh" => op[g].gives # old
          /\ op[g].pc = "replace" => op[g].kind = "refresh"
    BY <1>0, <2>1 DEF OpSound, TokensSound
  <2>7. ASSUME NEW g \in Handlers PROVE Unopened(g)'
    BY <2>3, <2>4, <2>5, <2>6 DEF Inv, RotationInv, Unopened
  <2>8. ASSUME NEW g \in Handlers PROVE Superseding(g)'
    <3>1. CASE g # h /\ op[g].pc = "replace" /\ op[g].old = old
      BY <2>1, <2>4, <2>5, <3>1 DEF Inv, RotationInv, InTwoHands, Superseding
    <3>2. CASE g # h /\ op[g].pc = "replace" /\ op[g].old # old
      BY <2>2, <2>4, <2>5, <2>6, <3>2 DEF Inv, RotationInv, Superseding, Unrevoked
    <3> QED
      BY <2>4, <2>5, <3>1, <3>2 DEF Superseding
  <2>9. ASSUME NEW g \in Handlers PROVE AnswersOpened(g)'
    BY <2>3, <2>4, <2>5, <2>6 DEF Inv, RotationInv, AnswersOpened
  <2>10. ASSUME NEW f \in Handlers, NEW g \in Handlers, f # g PROVE InTwoHands(f, g)'
    BY <2>4, <2>5, <2>10 DEF Inv, RotationInv, InTwoHands
  <2>11. DeliveredOpened'
    BY <2>1, <2>3, <2>5 DEF Inv, RotationInv, DeliveredOpened
  <2> QED
    BY <2>7, <2>8, <2>9, <2>10, <2>11 DEF RotationInv
<1>4. ASSUME tokens' = Revoked PROVE \A t \in Tokens: ~Unrevoked(t)'
  <2> SUFFICES ASSUME NEW t \in Tokens PROVE ~Unrevoked(t)'
    OBVIOUS
  <2>1. CASE tokens[t] = Null
    BY <1>4, <2>1 DEF Revoked, Unrevoked
  <2>2. CASE tokens[t] # Null
    <3>1. tokens'[t].revoked
      BY <1>0, <1>4, <2>2 DEF Revoked, TypeOK, TokenRows
    <3> QED
      BY <3>1 DEF Unrevoked
  <2> QED
    BY <2>1, <2>2
<1>5. ASSUME NEW h \in Handlers, RevokeAll(h) PROVE RotationInv'
  <2>1. \A g \in Handlers \ {h}: op'[g] = op[g]
    BY <1>0, <1>5 DEF RevokeAll, TypeOK
  <2>2. op'[h].pc \in {"otpFind", "dropCode", "idle"}
    BY <1>0, <1>5 DEF RevokeAll, TypeOK, Ops, Idle
  <2>3. UNCHANGED <<opened, contended, delivered>> /\ tokens' = Revoked
    BY <1>5 DEF RevokeAll
  <2>4. Quiet
    BY <2>1, <2>2, <2>3 DEF Quiet, Holds, Prepares, Repeats, Delivers
  <2> QED
    BY <1>4, <2>3, <2>4, QuietKeepsRotation
<1>6. CASE LogoutAll
  <2>1. UNCHANGED <<op, opened, contended, delivered>> /\ tokens' = Revoked
    BY <1>6 DEF LogoutAll
  <2>2. Quiet
    BY <2>1 DEF Quiet, Holds, Prepares, Repeats, Delivers
  <2> QED
    BY <1>4, <2>1, <2>2, QuietKeepsRotation
<1>7. ASSUME NEW t \in Tokens, Logout(t) PROVE RotationInv'
  <2>1. UNCHANGED <<op, opened, delivered>> /\ contended \subseteq contended' /\ t \in delivered
    BY <1>7 DEF Logout, ValidJwt
  <2>2. \A u \in Tokens: u # t => tokens'[u] = tokens[u]
    BY <1>0, <1>7 DEF Logout, TypeOK
  <2>3. ASSUME NEW h \in Handlers PROVE (Unopened(h) /\ AnswersOpened(h))'
    BY <2>1 DEF Inv, RotationInv, Unopened, AnswersOpened
  <2>4. ASSUME NEW h \in Handlers PROVE Superseding(h)'
    <3>1. CASE op[h].pc = "replace" /\ op[h].old = t
      BY <1>7, <2>1, <3>1 DEF Logout, Superseding
    <3>2. CASE op[h].pc = "replace" /\ op[h].old # t
      <4>1. op[h].old \in Tokens /\ op[h].gives \in Tokens /\ op[h].gives # t
        BY <1>0, <2>1, <3>2 DEF OpSound, TokensSound
      <4> QED
        BY <2>1, <2>2, <3>2, <4>1 DEF Inv, RotationInv, Superseding, Unrevoked
    <3> QED
      BY <2>1, <3>1, <3>2 DEF Superseding
  <2>5. ASSUME NEW g \in Handlers, NEW h \in Handlers, g # h PROVE InTwoHands(g, h)'
    BY <2>1, <2>5 DEF Inv, RotationInv, InTwoHands
  <2>6. DeliveredOpened'
    BY <2>1 DEF Inv, RotationInv, DeliveredOpened
  <2> QED
    BY <2>3, <2>4, <2>5, <2>6 DEF RotationInv
<1>8. ASSUME NEW t \in Tokens, TokenExpires(t) PROVE RotationInv'
  <2>1. UNCHANGED <<op, opened, contended, delivered>>
    BY <1>8 DEF TokenExpires
  <2>2. Quiet
    BY <2>1 DEF Quiet, Holds, Prepares, Repeats, Delivers
  <2>3. \A u \in Tokens: Unrevoked(u)' <=> Unrevoked(u)
    BY <1>8, ExpiryRevokesNothing DEF Inv, TypeInv
  <2> QED
    BY <2>2, <2>3, QuietKeepsRotation
<1>9. CASE UNCHANGED vars
  <2>1. UNCHANGED <<tokens, op, opened, contended, delivered>>
    BY <1>9 DEF vars
  <2>2. Quiet
    BY <2>1 DEF Quiet, Holds, Prepares, Repeats, Delivers
  <2>3. \A u \in Tokens: Unrevoked(u)' <=> Unrevoked(u)
    BY <2>1 DEF Unrevoked
  <2> QED
    BY <2>2, <2>3, QuietKeepsRotation
<1>10. CASE Next /\ (\A h \in Handlers: ~TokenWrites(h))
            /\ (\A t \in Tokens: ~Logout(t) /\ ~TokenExpires(t)) /\ ~LogoutAll
  <2>1. Quiet
    BY <1>10, OthersAreQuiet DEF Inv
  <2>2. tokens' = tokens
    BY <1>10, OthersLeaveTokens DEF Inv
  <2>3. \A u \in Tokens: Unrevoked(u)' <=> Unrevoked(u)
    BY <2>2 DEF Unrevoked
  <2> QED
    BY <2>1, <2>3, QuietKeepsRotation
<1> QED
  BY <1>1, <1>2, <1>3, <1>5, <1>6, <1>7, <1>8, <1>9, <1>10 DEF TokenWrites

\* Inv is an invariant.
LEMMA Invariance == Spec => []Inv
<1>1. Init => Inv
  BY TypeInvInit, ChainInit, RotationInit DEF Inv
<1>2. Inv /\ [Next]_vars => Inv'
  BY TypeInvStep, ChainStep, RotationStep DEF Inv
<1> QED
  BY <1>1, <1>2, PTL DEF Spec

-----------------------------------------------------------------------------
(* The refinement.                                                         *)

\* The session of a token, as RefreshChains sees it.
SessionOf == [t \in Tokens |-> IF opened[t] = Null THEN Null ELSE opened[t].root]

\* The tokens RefreshChains has seen are those of a session.
LEMMA SeenAreOpened ==
    ASSUME TypeOK
    PROVE  Chains!Seen = {t \in Tokens: opened[t] # Null}
BY SessionsAssumption DEF Chains!Seen, TypeOK, Openings

\* A step that opens no session, revokes no token of one and contends none
\* stutters.
LEMMA StutterStep ==
    ASSUME UNCHANGED <<opened, contended>>, Live' = Live
    PROVE  UNCHANGED Chains!vars
BY DEF Chains!vars

\* Every step is one of RefreshChains, or stutters.
LEMMA ChainsStep ==
    ASSUME Inv, [Next]_vars
    PROVE  [Chains!Next]_(Chains!vars)
<1> USE DEF Goto, Proceed, At, tables, counters, sessionHistory, codeHistory
<1>0. /\ TypeOK
      /\ \A h \in Handlers: op[h] \in Ops /\ OpSound(op[h]) /\ TokensSound(h)
  BY DEF Inv, TypeInv, TypeOK
<1>a. \A t \in Tokens: opened[t] # Null => tokens[t] # Null
  BY DEF Inv, ChainInv, SessionsStored
<1>b. ASSUME NEW t \in Tokens, NEW u \in Tokens,
             Chains!Open(t) \/ Chains!Rotate(t, u) \/ Chains!RotateEnded(t, u)
             \/ Chains!Branch(t, u)
      PROVE  Chains!Next
  BY <1>b DEF Chains!Next
<1>1. ASSUME NEW h \in Handlers, StoreToken(h) PROVE [Chains!Next]_(Chains!vars)
  <2> PICK t \in Tokens: t = op[h].gives
    BY <1>0, <1>1 DEF StoreToken, OpSound
  <2>1. tokens[t] = Null /\ opened[t] = Null
    BY <1>0, <1>1, <1>a DEF StoreToken, OpSound, TokensSound
  <2>2. /\ \A u \in Tokens: u # t => tokens'[u] = tokens[u]
        /\ tokens'[t] = NewRow /\ contended' = contended
    BY <1>0, <1>1, <2>1 DEF StoreToken, TypeOK
  <2>3. CASE op[h].kind = "refresh"
    <3>1. opened' = opened
      BY <1>1, <2>3 DEF StoreToken
    <3>2. Live' = Live
      BY <2>1, <2>2, <3>1 DEF Live, Unrevoked
    <3> QED
      BY <2>2, <3>1, <3>2, StutterStep
  <2>4. CASE op[h].kind # "refresh"
    <3> DEFINE opening == [root |-> t, password |-> op[h].password]
    <3>1. opening \in Openings /\ opening.root = t
      BY <1>0, <2>1, <2>4 DEF OpSound, Openings
    <3>2. opened' = [opened EXCEPT ![t] = opening]
      BY <1>1, <2>4 DEF StoreToken
    <3> HIDE DEF opening
    <3>3. opened'[t] = opening /\ \A u \in Tokens: u # t => opened'[u] = opened[u]
      BY <1>0, <2>1, <3>2 DEF TypeOK
    <3>4. NewRow # Null /\ ~NewRow.revoked
      <4>1. NewRow \in TokenRows
        BY DEF NewRow, TokenRows
      <4> QED
        BY <4>1, NullIsNoRow DEF NewRow
    <3>5. opening # Null
      BY <3>1, NullIsNoOpening
    <3>6. Live' = Live \cup {t}
      BY <2>1, <2>2, <3>3, <3>4, <3>5 DEF Live, Unrevoked
    <3>7. SessionOf' = [SessionOf EXCEPT ![t] = t]
      BY <2>1, <3>1, <3>3, <3>5 DEF SessionOf
    <3>8. t \notin Chains!Seen
      BY <1>0, <2>1, SeenAreOpened
    <3>9. Chains!Open(t)
      BY <2>2, <3>6, <3>7, <3>8 DEF Chains!Open, SessionOf
    <3> QED
      BY <1>b, <3>9
  <2> QED
    BY <2>3, <2>4
<1>2. ASSUME NEW h \in Handlers, ConsumeFinds(h) PROVE [Chains!Next]_(Chains!vars)
  <2>1. UNCHANGED <<tokens, opened>>
    BY <1>2 DEF ConsumeFinds
  <2>2. Live' = Live
    BY <2>1 DEF Live, Unrevoked
  <2>3. op[h].old \in Tokens
    BY <1>0, <1>2 DEF ConsumeFinds, OpSound
  <2>4. CASE contended' = contended
    BY <2>1, <2>2, <2>4, StutterStep
  <2>5. CASE contended' = contended \cup {op[h].old}
    <3>1. Chains!Contend(op[h].old)
      BY <2>1, <2>2, <2>5 DEF Chains!Contend
    <3> QED
      BY <2>3, <3>1 DEF Chains!Next
  <2> QED
    BY <1>2, <2>4, <2>5 DEF ConsumeFinds
<1>3. ASSUME NEW h \in Handlers, ReplaceToken(h) PROVE [Chains!Next]_(Chains!vars)
  <2> PICK old \in Tokens, new \in Tokens: old = op[h].old /\ new = op[h].gives
    BY <1>0, <1>3 DEF ReplaceToken, OpSound
  <2>1. /\ new \notin delivered /\ old \in delivered
        /\ op[h].pc = "replace"
    BY <1>0, <1>3 DEF ReplaceToken, OpSound, TokensSound
  <2>2. opened[old] # Null /\ opened[new] = Null
    BY <2>1 DEF Inv, RotationInv, DeliveredOpened, Unopened
  <2>3. tokens[old] \in TokenRows
    BY <1>0, <1>a, <2>1, <2>2 DEF TypeOK
  <2>4. tokens'[old].revoked /\ \A u \in Tokens: u # old => tokens'[u] = tokens[u]
    BY <1>0, <1>3, <2>1, <2>3 DEF ReplaceToken, TypeOK, TokenRows
  <2>5. opened' = [opened EXCEPT ![new] = opened[old]] /\ contended' = contended
    BY <1>3 DEF ReplaceToken
  <2>6. opened'[new] = opened[old] /\ \A u \in Tokens: u # new => opened'[u] = opened[u]
    BY <1>0, <2>1, <2>5 DEF TypeOK
  <2>7. SessionOf' = [SessionOf EXCEPT ![new] = SessionOf[old]]
    BY <2>1, <2>2, <2>6 DEF SessionOf
  <2>8. old \in Chains!Seen /\ new \notin Chains!Seen
    BY <1>0, <2>1, <2>2, SeenAreOpened
  <2>9. Chains!Succeeds(new, old)
    BY <2>5, <2>7, <2>8 DEF Chains!Succeeds, SessionOf
  <2>10. CASE Unrevoked(new)
    <3>1. Live' = (Live \ {old}) \cup {new}
      BY <2>1, <2>2, <2>4, <2>6, <2>10 DEF Live, Unrevoked
    <3>2. CASE Unrevoked(old)
      <4>1. Chains!Rotate(old, new)
        BY <2>1, <2>2, <2>9, <3>1, <3>2 DEF Chains!Rotate, Live
      <4> QED
        BY <1>b, <4>1
    <3>3. CASE ~Unrevoked(old)
      <4>1. old \in contended
        BY <2>1, <2>10, <3>3 DEF Inv, RotationInv, Superseding
      <4>2. Chains!Branch(old, new)
        BY <2>9, <3>1, <4>1 DEF Chains!Branch
      <4> QED
        BY <1>b, <4>2
    <3> QED
      BY <3>2, <3>3
  <2>11. CASE ~Unrevoked(new)
    <3>1. Live' = Live \ {old}
      BY <2>1, <2>2, <2>4, <2>6, <2>11 DEF Live, Unrevoked
    <3>2. Chains!RotateEnded(old, new)
      BY <2>9, <3>1 DEF Chains!RotateEnded
    <3> QED
      BY <1>b, <3>2
  <2> QED
    BY <2>10, <2>11
<1>4. ASSUME tokens' = Revoked, UNCHANGED <<opened, contended>>
      PROVE  [Chains!Next]_(Chains!vars)
  <2>1. ASSUME NEW t \in Tokens PROVE ~Unrevoked(t)'
    <3>1. CASE tokens[t] = Null
      BY <1>4, <3>1 DEF Revoked, Unrevoked
    <3>2. CASE tokens[t] # Null
      <4>1. tokens'[t].revoked
        BY <1>0, <1>4, <3>2 DEF Revoked, TypeOK, TokenRows
      <4> QED
        BY <4>1 DEF Unrevoked
    <3> QED
      BY <3>1, <3>2
  <2>2. Live' = {}
    BY <2>1 DEF Live
  <2>3. CASE Live = {}
    BY <1>4, <2>2, <2>3, StutterStep
  <2>4. CASE Live # {}
    <3>1. Chains!End(Live)
      BY <1>4, <2>2, <2>4 DEF Chains!End
    <3> QED
      BY <3>1 DEF Chains!Next
  <2> QED
    BY <2>3, <2>4
<1>5. ASSUME NEW t \in Tokens, Logout(t) PROVE [Chains!Next]_(Chains!vars)
  <2>1. t \in delivered /\ opened[t] # Null /\ opened' = opened
    BY <1>5 DEF Logout, ValidJwt, Inv, RotationInv, DeliveredOpened
  <2>2. tokens[t] \in TokenRows
    BY <1>0, <1>a, <2>1 DEF TypeOK
  <2>3. tokens'[t].revoked /\ \A u \in Tokens: u # t => tokens'[u] = tokens[u]
    BY <1>0, <1>5, <2>2 DEF Logout, TypeOK, TokenRows
  <2>4. Live' = Live \ {t}
    BY <2>1, <2>3 DEF Live, Unrevoked
  <2>5. CASE contended' = contended \cup {t}
    <3>1. Chains!Contend(t)
      BY <2>1, <2>4, <2>5 DEF Chains!Contend
    <3> QED
      BY <3>1 DEF Chains!Next
  <2>6. CASE contended' = contended
    <3>1. CASE t \in Live
      <4>1. Chains!End({t})
        BY <2>1, <2>4, <2>6 DEF Chains!End
      <4> QED
        BY <3>1, <4>1 DEF Chains!Next
    <3>2. CASE t \notin Live
      BY <2>1, <2>4, <2>6, <3>2, StutterStep
    <3> QED
      BY <3>1, <3>2
  <2> QED
    BY <1>5, <2>5, <2>6 DEF Logout
<1>6. ASSUME UNCHANGED <<opened, contended>>,
             \A t \in Tokens: Unrevoked(t)' <=> Unrevoked(t)
      PROVE  [Chains!Next]_(Chains!vars)
  <2>1. Live' = Live
    BY <1>6 DEF Live
  <2> QED
    BY <1>6, <2>1, StutterStep
<1>7. ASSUME NEW t \in Tokens, TokenExpires(t) PROVE [Chains!Next]_(Chains!vars)
  BY <1>0, <1>6, <1>7, ExpiryRevokesNothing DEF TokenExpires
<1>8. CASE UNCHANGED vars
  BY <1>6, <1>8 DEF vars, Unrevoked
<1>9. CASE Next /\ (\A h \in Handlers: ~TokenWrites(h))
           /\ (\A t \in Tokens: ~Logout(t) /\ ~TokenExpires(t)) /\ ~LogoutAll
  <2>1. Quiet
    BY <1>9, OthersAreQuiet DEF Inv
  <2>2. tokens' = tokens
    BY <1>9, OthersLeaveTokens DEF Inv
  <2> QED
    BY <1>6, <2>1, <2>2 DEF Quiet, Unrevoked
<1>10. ASSUME NEW h \in Handlers, RevokeAll(h) PROVE [Chains!Next]_(Chains!vars)
  BY <1>4, <1>10 DEF RevokeAll
<1>11. CASE LogoutAll
  BY <1>4, <1>11 DEF LogoutAll
<1> QED
  BY <1>1, <1>2, <1>3, <1>5, <1>7, <1>8, <1>9, <1>10, <1>11 DEF TokenWrites

\* Initially there are no tokens.
LEMMA ChainsInit == Init => Chains!Init
BY DEF Init, Chains!Init, Live

\* The token table with its awaits, its crashes and any number of requests at
\* a time implements the rotation of RefreshChains: a token has one successor,
\* unless two requests used it at the same moment, and nothing that was ended
\* comes back (refreshToken, consumeActiveByTokenHash, revokeAllByUserId).
THEOREM ImplementsChainsTheorem == Spec => ImplementsChains
<1>1. Inv /\ [Next]_vars => [Chains!Next]_(Chains!vars)
  BY ChainsStep
<1> QED
  BY <1>1, ChainsInit, Invariance, PTL DEF Spec, ImplementsChains, Chains!Spec

-----------------------------------------------------------------------------
(* A password reset ends the sessions opened before it.                    *)
(*                                                                         *)
(* OldPasswordOpensNothing is about tokens in the table.  A session is     *)
(* longer than that: it begins when a login has read the account, before   *)
(* its token is stored, and goes on in a refresh that has found its old    *)
(* token though that may be revoked by now.  PasswordInv follows it there. *)

\* A session opened with password p and first token r is none the reset has to
\* end, or none it could.
Good(p, r) ==
    \/ p = account.password
    \/ r \in overlapped
    \/ cutShort
    \/ \E h \in Handlers: Resetting(h)

GoodOpening(t) == Good(opened[t].password, opened[t].root)

\* Nothing happens before there is an account.
AccountFirst ==
    account = Null =>
        /\ \A t \in Tokens: tokens[t] = Null
        /\ \A h \in Handlers: op[h].gives \notin Tokens

PasswordInv ==
    /\ AccountFirst
    /\ \A t \in Live: GoodOpening(t)
    /\ \A h \in Handlers: Opening(h) => Good(op[h].password, op[h].gives)
    /\ \A h \in Handlers:
         (op[h].pc = "replace" /\ Unrevoked(op[h].gives)) => GoodOpening(op[h].old)

\* Sessions that were good are good after the step.
KeepsGood == \A p \in Passwords, r \in Tokens: Good(p, r) => Good(p, r)'

\* A handler that is to open a session after the step was to before, or has
\* just read the password.
KeepsOpening(h) ==
    Opening(h)' =>
        \/ Opening(h) /\ op'[h].gives = op[h].gives /\ op'[h].password = op[h].password
        \/ op'[h].password = account'.password

\* There is no token and none to come.
Nothing ==
    /\ \A t \in Tokens: tokens[t] = Null
    /\ \A h \in Handlers: op[h].gives \notin Tokens

-----------------------------------------------------------------------------
\* Steps that store no token, open no session and find no old token.
LEMMA QuietKeepsPasswords ==
    ASSUME Inv, PasswordInv, AccountFirst', KeepsGood, opened' = opened,
           \A t \in Tokens: tokens[t] # Null => (Unrevoked(t)' => Unrevoked(t)),
           \A h \in Handlers: Holds(h) /\ KeepsOpening(h)
    PROVE  PasswordInv'
<1>1. \A t \in Tokens: opened[t] # Null =>
        /\ opened[t].password \in Passwords /\ opened[t].root \in Tokens /\ tokens[t] # Null
  BY DEF Inv, TypeInv, TypeOK, Openings, ChainInv, SessionsStored
<1>2. ASSUME NEW t \in Live' PROVE GoodOpening(t)'
  <2>1. t \in Tokens /\ opened[t] # Null /\ Unrevoked(t)'
    BY <1>2 DEF Live
  <2>2. t \in Live
    BY <1>1, <2>1 DEF Live
  <2>3. Good(opened[t].password, opened[t].root)
    BY <2>2 DEF PasswordInv, GoodOpening
  <2> QED
    BY <1>1, <2>1, <2>3 DEF KeepsGood, GoodOpening, Good
<1>3. ASSUME NEW h \in Handlers, Opening(h)' PROVE Good(op[h].password, op[h].gives)'
  <2>1. CASE op'[h].password = account'.password
    BY <2>1 DEF Good
  <2>2. CASE Opening(h) /\ op'[h].gives = op[h].gives /\ op'[h].password = op[h].password
    <3>1. op[h].password \in Passwords /\ op[h].gives \in Tokens
      BY <2>2 DEF Opening, Inv, TypeInv, OpSound
    <3>2. Good(op[h].password, op[h].gives)
      BY <2>2 DEF PasswordInv
    <3> QED
      BY <2>2, <3>1, <3>2 DEF KeepsGood, Good
  <2> QED
    BY <1>3, <2>1, <2>2 DEF KeepsOpening
<1>4. ASSUME NEW h \in Handlers, op'[h].pc = "replace", Unrevoked(op[h].gives)'
      PROVE  GoodOpening(op[h].old)'
  <2>1. /\ op[h].pc = "replace" /\ op'[h].old = op[h].old /\ op'[h].gives = op[h].gives
        /\ op[h].old \in Tokens /\ op[h].gives \in Tokens /\ tokens[op[h].gives] # Null
        /\ op[h].old \in delivered
    BY <1>4 DEF Holds, Inv, TypeInv, OpSound, TokensSound
  <2>2. opened[op[h].old] # Null
    BY <2>1 DEF Inv, RotationInv, DeliveredOpened
  <2>3. Unrevoked(op[h].gives)
    BY <1>4, <2>1 DEF Unrevoked
  <2>4. Good(opened[op[h].old].password, opened[op[h].old].root)
    BY <2>1, <2>3 DEF PasswordInv, GoodOpening
  <2> QED
    BY <1>1, <2>1, <2>2, <2>4 DEF KeepsGood, GoodOpening, Good
<1> QED
  BY <1>2, <1>3, <1>4 DEF PasswordInv

\* Where there is no token there is no session to end.
LEMMA NothingIsGood ==
    ASSUME Inv', Nothing'
    PROVE  PasswordInv'
<1>1. AccountFirst'
  BY DEF Nothing, AccountFirst
<1>2. Live' = {}
  BY DEF Nothing, Live, Unrevoked
<1>3. \A h \in Handlers: ~Opening(h)' /\ op'[h].pc # "replace"
  BY DEF Nothing, Opening, Inv, TypeInv, OpSound
<1> QED
  BY <1>1, <1>2, <1>3 DEF PasswordInv

\* A step of one handler that is not about to revoke everything.
LEMMA OneMoves ==
    ASSUME Inv, PasswordInv, account # Null, account' # Null,
           account'.password = account.password,
           NEW h \in Handlers, \A g \in Handlers \ {h}: op'[g] = op[g],
           UNCHANGED <<tokens, opened, overlapped, cutShort>>,
           ~Resetting(h), op'[h].pc # "replace", KeepsOpening(h)
    PROVE  PasswordInv'
<1>1. AccountFirst'
  BY DEF AccountFirst
<1>2. \A g \in Handlers: Resetting(g) => Resetting(g)'
  BY DEF Resetting, At
<1>3. KeepsGood
  BY <1>2 DEF KeepsGood, Good
<1>4. \A t \in Tokens: tokens[t] # Null => (Unrevoked(t)' => Unrevoked(t))
  BY DEF Unrevoked
<1>5. \A g \in Handlers: Holds(g) /\ KeepsOpening(g)
  BY DEF Holds, KeepsOpening, Opening
<1> QED
  BY <1>1, <1>3, <1>4, <1>5, QuietKeepsPasswords

-----------------------------------------------------------------------------
(* Steps without an account.                                               *)

\* No token comes to be before there is an account.
LEMMA NothingStays ==
    ASSUME Inv, Nothing, account = Null, [Next]_vars
    PROVE  Nothing'
<1> USE DEF tables, counters, sessionHistory, codeHistory, At, Goto, Proceed
<1>0. /\ op \in [Handlers -> Ops]
      /\ \A h \in Handlers: op[h] \in Ops /\ OpSound(op[h]) /\ op[h].gives \notin Tokens
      /\ ~CanAuthenticate
      /\ Grants \cap Tokens = {} /\ Null \notin Tokens
  BY SessionsAssumption DEF Inv, TypeInv, TypeOK, Nothing, CanAuthenticate
<1>1. ASSUME NEW h \in Handlers, tokens' = tokens, \A g \in Handlers \ {h}: op'[g] = op[g],
             op'[h].gives \in {op[h].gives, Null, "email_verification"}
      PROVE  Nothing'
  BY <1>0, <1>1 DEF Nothing, Grants
<1>2. ASSUME NEW h \in Handlers, Request(h) PROVE Nothing'
  <2>1. Register(h)
    BY <1>0, <1>2 DEF Request, Login, VerifyEmail, VerifyReset, Forgot, Reset, Refresh
  <2> QED
    BY <1>0, <1>1, <2>1 DEF Register, Begin, Idle
<1>3. ASSUME NEW h \in Handlers, TokenSteps(h) PROVE Nothing'
  <2>0. op[h] \in Ops /\ OpSound(op[h]) /\ op[h].gives \notin Tokens
    BY <1>0
  <2>1. CASE CreateAccount(h)
    BY <1>0, <1>1, <2>0, <2>1 DEF CreateAccount, Ops
  <2>2. CASE EmailTaken(h)
    BY <1>0, <2>2 DEF EmailTaken
  <2>3. CASE MarkVerified(h)
    BY <1>0, <1>1, <2>0, <2>3 DEF MarkVerified, Ops
  <2>4. CASE SetPassword(h)
    BY <1>0, <1>1, <2>0, <2>4 DEF SetPassword, Ops
  <2>5. ~StoreToken(h) /\ ~ConsumeFinds(h) /\ ~ConsumeFindsNone(h) /\ ~ReplaceToken(h)
    BY <2>0 DEF StoreToken, ConsumeFinds, ConsumeFindsNone, ReplaceToken, OpSound
  <2>6. CASE RevokeAll(h)
    <3>1. tokens' = Revoked
      BY <2>6 DEF RevokeAll
    <3>2. \A t \in Tokens: tokens'[t] = Null
      BY <3>1 DEF Revoked, Nothing
    <3>3. op'[h].gives \in {op[h].gives, Null} /\ \A g \in Handlers \ {h}: op'[g] = op[g]
      BY <1>0, <2>0, <2>6 DEF RevokeAll, Idle, Ops
    <3> QED
      BY <1>0, <3>2, <3>3 DEF Nothing
  <2>7. CASE Answer(h)
    BY <1>0, <1>1, <2>7 DEF Answer, Idle
  <2> QED
    BY <1>3, <2>1, <2>2, <2>3, <2>4, <2>5, <2>6, <2>7 DEF TokenSteps
<1>4. ASSUME NEW h \in Handlers, CodeSteps(h) PROVE Nothing'
  <2>0. op[h] \in Ops
    BY <1>0
  <2>1. CASE OtpFinds(h)
    BY <1>0, <1>1, <2>0, <2>1 DEF OtpFinds, Ops
  <2>2. CASE OtpSaves(h)
    BY <1>0, <1>1, <2>0, <2>2 DEF OtpSaves, Ops
  <2>3. CASE OtpSaveFails(h)
    BY <1>0, <1>1, <2>0, <2>3 DEF OtpSaveFails, Throw, Local, Idle
  <2>4. CASE OtpMissing(h)
    BY <1>0, <1>1, <2>0, <2>4 DEF OtpMissing, Throw, Local, Idle
  <2>5. CASE OtpSpent(h)
    BY <1>0, <1>1, <2>0, <2>5 DEF OtpSpent, Local, Ops
  <2>6. CASE OtpWrong(h)
    BY <1>0, <1>1, <2>0, <2>6 DEF OtpWrong, Ops
  <2>7. CASE OtpRight(h)
    BY <1>0, <1>1, <2>0, <2>7 DEF OtpRight, Ops
  <2>8. CASE CountAttempt(h)
    BY <1>0, <1>1, <2>0, <2>8 DEF CountAttempt, Idle
  <2>9. CASE DropCode(h)
    BY <1>0, <1>1, <2>0, <2>9 DEF DropCode, Idle, Ops
  <2> QED
    BY <1>4, <2>1, <2>2, <2>3, <2>4, <2>5, <2>6, <2>7, <2>8, <2>9 DEF CodeSteps
<1>5. ASSUME NEW t \in Tokens, Logout(t) \/ TokenExpires(t) PROVE Nothing'
  BY <1>0, <1>5 DEF Logout, TokenExpires, Active, Unrevoked, Nothing
<1>6. ASSUME \/ \E password \in Passwords: Enrol(password)
             \/ LogoutAll \/ RemoveAccount \/ CodeExpires \/ UNCHANGED vars
      PROVE  Nothing'
  BY <1>0, <1>6 DEF Enrol, LogoutAll, RemoveAccount, CodeExpires, vars, Nothing
<1>7. CASE Crash
  BY <1>0, <1>7 DEF Crash, Idle, Nothing
<1> QED
  BY <1>2, <1>3, <1>4, <1>5, <1>6, <1>7 DEF Next

-----------------------------------------------------------------------------
(* Steps of a handler.                                                     *)

\* A login or verification reads the password of the account it opens a
\* session for.
LEMMA RequestKeepsPasswords ==
    ASSUME Inv, PasswordInv, account # Null, NEW h \in Handlers, Request(h)
    PROVE  PasswordInv'
<1>0. op \in [Handlers -> Ops]
  BY DEF Inv, TypeInv, TypeOK
<1>1. ASSUME NEW state, Begin(h, state), state.pc # "replace",
             \/ state.gives \notin Tokens
             \/ state.kind = "refresh"
             \/ state.password = account.password
      PROVE  PasswordInv'
  <2>1. op'[h] = state /\ \A g \in Handlers \ {h}: op'[g] = op[g]
    BY <1>0, <1>1 DEF Begin, Goto
  <2>2. UNCHANGED <<account, tokens, opened, overlapped, cutShort>>
    BY <1>1 DEF Begin, tables, sessionHistory
  <2>3. ~Resetting(h)
    BY <1>1 DEF Begin, Resetting, Idle, At
  <2>4. KeepsOpening(h)
    BY <1>1, <2>1, <2>2 DEF KeepsOpening, Opening
  <2> QED
    BY <1>1, <2>1, <2>2, <2>3, <2>4, OneMoves
<1> USE SessionsAssumption DEF Idle, Grants
<1>2. CASE Register(h)
  BY <1>1, <1>2 DEF Register
<1>3. CASE Login(h)
  BY <1>1, <1>3 DEF Login
<1>4. CASE VerifyEmail(h)
  BY <1>1, <1>4 DEF VerifyEmail
<1>5. CASE VerifyReset(h)
  BY <1>1, <1>5 DEF VerifyReset
<1>6. CASE Forgot(h)
  BY <1>1, <1>6 DEF Forgot
<1>7. CASE Reset(h)
  BY <1>1, <1>7 DEF Reset
<1>8. CASE Refresh(h)
  BY <1>1, <1>8 DEF Refresh
<1> QED
  BY <1>2, <1>3, <1>4, <1>5, <1>6, <1>7, <1>8 DEF Request

\* Steps on the code revoke no token and open no session.
LEMMA CodeStepKeepsPasswords ==
    ASSUME Inv, PasswordInv, account # Null, NEW h \in Handlers, CodeSteps(h)
    PROVE  PasswordInv'
<1> USE DEF At, Goto, Proceed, Throw, Local, tables, counters, sessionHistory
<1>0. op \in [Handlers -> Ops] /\ op[h] \in Ops /\ OpSound(op[h]) /\ Null \notin Tokens
  BY SessionsAssumption DEF Inv, TypeInv, TypeOK
<1>1. ASSUME \A g \in Handlers \ {h}: op'[g] = op[g],
             UNCHANGED <<account, tokens, opened, overlapped, cutShort>>,
             op[h].pc # "revoke", op'[h].pc # "replace",
             \/ op'[h].gives = Null
             \/ /\ op'[h].kind = op[h].kind /\ op'[h].gives = op[h].gives
                /\ op'[h].password = op[h].password
      PROVE  PasswordInv'
  <2>1. ~Resetting(h)
    BY <1>1 DEF Resetting
  <2>2. KeepsOpening(h)
    BY <1>0, <1>1 DEF KeepsOpening, Opening
  <2> QED
    BY <1>1, <2>1, <2>2, OneMoves
<1>2. CASE OtpFinds(h)
  BY <1>0, <1>1, <1>2 DEF OtpFinds, Ops
<1>3. CASE OtpSaves(h)
  BY <1>0, <1>1, <1>3 DEF OtpSaves, Ops
<1>4. CASE OtpSaveFails(h)
  BY <1>0, <1>1, <1>4 DEF OtpSaveFails, Idle
<1>5. CASE OtpMissing(h)
  BY <1>0, <1>1, <1>5 DEF OtpMissing, Idle
<1>6. CASE OtpSpent(h)
  BY <1>0, <1>1, <1>6 DEF OtpSpent, Ops
<1>7. CASE OtpWrong(h)
  BY <1>0, <1>1, <1>7 DEF OtpWrong, Ops
<1>8. CASE OtpRight(h)
  BY <1>0, <1>1, <1>8 DEF OtpRight, Ops
<1>9. CASE CountAttempt(h)
  BY <1>0, <1>1, <1>9 DEF CountAttempt, Idle
<1>10. CASE DropCode(h)
  BY <1>0, <1>1, <1>10 DEF DropCode, Idle, Ops
<1> QED
  BY <1>2, <1>3, <1>4, <1>5, <1>6, <1>7, <1>8, <1>9, <1>10 DEF CodeSteps

\* A new token is not of a session yet, or of the one its login opens.
LEMMA StoreKeepsPasswords ==
    ASSUME Inv, PasswordInv, account # Null, NEW h \in Handlers, StoreToken(h)
    PROVE  PasswordInv'
<1> PICK t \in Tokens: t = op[h].gives
  BY DEF StoreToken, At, Inv, TypeInv, OpSound
<1>0. /\ op \in [Handlers -> Ops] /\ tokens \in [Tokens -> TokenRows \cup {Null}]
      /\ opened \in [Tokens -> Openings \cup {Null}]
      /\ op[h] \in Ops /\ op[h].pc = "store" /\ tokens[t] = Null /\ opened[t] = Null
      /\ op[h].kind # "refresh" => Opening(h)
      /\ \A g \in Handlers: OpSound(op[g]) /\ TokensSound(g)
  BY DEF StoreToken, At, Inv, TypeInv, TypeOK, OpSound, TokensSound, ChainInv, SessionsStored,
         Opening
<1>1. /\ UNCHANGED <<account, overlapped, cutShort>>
      /\ \A u \in Tokens: u # t => tokens'[u] = tokens[u]
      /\ \A g \in Handlers \ {h}: op'[g] = op[g]
      /\ op'[h].pc \in {"consume", "answer"}
      /\ op'[h].kind = op[h].kind /\ op'[h].gives = t /\ op'[h].password = op[h].password
  BY <1>0 DEF StoreToken, Proceed, Goto, Ops
<1>2. /\ AccountFirst' /\ KeepsGood /\ ~Resetting(h)
      /\ \A g \in Handlers: Resetting(g)' <=> Resetting(g)
  BY <1>0, <1>1 DEF AccountFirst, KeepsGood, Good, Resetting, At
<1>3. \A u \in Tokens: u # t => opened'[u] = opened[u]
  BY <1>0 DEF StoreToken
<1>4. \/ opened'[t] = Null
      \/ opened'[t] = [root |-> t, password |-> op[h].password] /\ Opening(h)
  <2>1. CASE op[h].kind = "refresh"
    BY <1>0, <2>1 DEF StoreToken
  <2>2. CASE op[h].kind # "refresh"
    BY <1>0, <2>2 DEF StoreToken
  <2> QED
    BY <2>1, <2>2
<1>5. \A u \in Tokens: opened[u] # Null =>
        opened[u].password \in Passwords /\ opened[u].root \in Tokens
  BY <1>0 DEF Openings
<1>6. ASSUME NEW u \in Live' PROVE GoodOpening(u)'
  <2>1. CASE u = t
    <3>1. opened'[t] = [root |-> t, password |-> op[h].password] /\ Good(op[h].password, t)
      BY <1>4, <1>6, <2>1 DEF Live, PasswordInv
    <3>2. opened'[t].password = op[h].password /\ opened'[t].root = t
      BY <3>1
    <3> QED
      BY <1>1, <1>2, <2>1, <3>1, <3>2 DEF GoodOpening, Good
  <2>2. CASE u # t
    <3>1. u \in Live /\ opened'[u] = opened[u]
      BY <1>1, <1>3, <1>6, <2>2 DEF Live, Unrevoked
    <3>2. Good(opened[u].password, opened[u].root) /\ opened[u] # Null /\ u \in Tokens
      BY <3>1 DEF PasswordInv, GoodOpening, Live
    <3> QED
      BY <1>2, <1>5, <3>1, <3>2 DEF GoodOpening, KeepsGood, Good
  <2> QED
    BY <2>1, <2>2
<1>7. ASSUME NEW g \in Handlers, Opening(g)' PROVE Good(op[g].password, op[g].gives)'
  <2>1. Opening(g) /\ op'[g].password = op[g].password /\ op'[g].gives = op[g].gives
    BY <1>1, <1>7 DEF Opening
  <2>2. op[g].password \in Passwords /\ op[g].gives \in Tokens
    BY <1>0, <2>1 DEF Opening, OpSound
  <2>3. Good(op[g].password, op[g].gives)
    BY <2>1 DEF PasswordInv
  <2> QED
    BY <1>2, <2>1, <2>2, <2>3 DEF KeepsGood, Good
<1>8. ASSUME NEW g \in Handlers, op'[g].pc = "replace", Unrevoked(op[g].gives)'
      PROVE  GoodOpening(op[g].old)'
  <2>1. g # h /\ op'[g] = op[g] /\ op[g].pc = "replace" /\ op[g].gives # t
    BY <1>0, <1>1, <1>8 DEF TokensSound
  <2>2. op[g].old \in Tokens /\ op[g].gives \in Tokens /\ op[g].old \in delivered
    BY <1>0, <2>1 DEF OpSound, TokensSound
  <2>3. opened[op[g].old] # Null
    BY <2>2 DEF Inv, RotationInv, DeliveredOpened
  <2>4. Unrevoked(op[g].gives)
    BY <1>1, <1>8, <2>1, <2>2 DEF Unrevoked
  <2>5. Good(opened[op[g].old].password, opened[op[g].old].root)
    BY <2>1, <2>4 DEF PasswordInv, GoodOpening
  <2>6. opened'[op[g].old] = opened[op[g].old]
    BY <1>0, <1>3, <2>2, <2>3
  <2> QED
    BY <1>2, <1>5, <2>1, <2>2, <2>3, <2>5, <2>6 DEF KeepsGood, GoodOpening, Good
<1> QED
  BY <1>2, <1>6, <1>7, <1>8 DEF PasswordInv

\* The token that a refresh finds is live.
LEMMA ConsumeKeepsPasswords ==
    ASSUME Inv, PasswordInv, account # Null, NEW h \in Handlers, ConsumeFinds(h)
    PROVE  PasswordInv'
<1>0. /\ op \in [Handlers -> Ops] /\ op[h] \in Ops /\ op[h].pc = "consume"
      /\ op[h].kind = "refresh"
      /\ op[h].old \in Tokens /\ op[h].old \in delivered /\ Unrevoked(op[h].old)
  BY DEF ConsumeFinds, At, Active, Inv, TypeInv, TypeOK, OpSound, TokensSound
<1>1. /\ UNCHANGED <<account, tokens, opened, overlapped, cutShort>>
      /\ \A g \in Handlers \ {h}: op'[g] = op[g]
      /\ op'[h].kind = "refresh" /\ op'[h].pc = "replace" /\ op'[h].old = op[h].old
  BY <1>0 DEF ConsumeFinds, Proceed, Goto, Ops, tables
<1>2. AccountFirst' /\ \A g \in Handlers: Resetting(g)' <=> Resetting(g)
  BY <1>0, <1>1 DEF AccountFirst, Resetting, At
<1>3. ASSUME NEW p, NEW r PROVE Good(p, r)' <=> Good(p, r)
  BY <1>1, <1>2 DEF Good
<1>4. \A t \in Live': GoodOpening(t)'
  BY <1>1, <1>2 DEF PasswordInv, Live, Unrevoked, GoodOpening, Good
<1>5. \A g \in Handlers: Opening(g)' => Good(op[g].password, op[g].gives)'
  BY <1>1, <1>2 DEF PasswordInv, Opening, Good
<1>6. ASSUME NEW g \in Handlers, op'[g].pc = "replace", Unrevoked(op[g].gives)'
      PROVE  GoodOpening(op[g].old)'
  <2>1. CASE g = h
    <3>1. op[h].old \in Live
      BY <1>0 DEF Live, Inv, RotationInv, DeliveredOpened
    <3> QED
      BY <1>1, <1>2, <2>1, <3>1 DEF PasswordInv, GoodOpening, Good
  <2>2. CASE g # h
    BY <1>1, <1>2, <1>6, <2>2 DEF PasswordInv, Unrevoked, GoodOpening, Good
  <2> QED
    BY <2>1, <2>2
<1> QED
  BY <1>2, <1>4, <1>5, <1>6 DEF PasswordInv

\* A new token goes on with the session of the old one; if everything was
\* revoked in between it is revoked too.
LEMMA ReplaceKeepsPasswords ==
    ASSUME Inv, PasswordInv, account # Null, NEW h \in Handlers, ReplaceToken(h)
    PROVE  PasswordInv'
<1> PICK old \in Tokens, new \in Tokens: old = op[h].old /\ new = op[h].gives
  BY DEF ReplaceToken, At, Inv, TypeInv, OpSound
<1>0. /\ op \in [Handlers -> Ops] /\ op[h] \in Ops /\ op[h].pc = "replace"
      /\ op[h].kind = "refresh"
      /\ tokens \in [Tokens -> TokenRows \cup {Null}]
      /\ opened \in [Tokens -> Openings \cup {Null}]
      /\ old \in delivered /\ new \notin delivered
      /\ opened[new] = Null /\ opened[old] # Null /\ tokens[old] \in TokenRows
      /\ \A g \in Handlers: OpSound(op[g]) /\ TokensSound(g)
  BY DEF ReplaceToken, At, Inv, TypeInv, TypeOK, OpSound, TokensSound, RotationInv, Unopened,
         DeliveredOpened, DeliveredStored
<1>1. /\ UNCHANGED <<account, overlapped, cutShort>>
      /\ \A g \in Handlers \ {h}: op'[g] = op[g]
      /\ op'[h].kind = "refresh" /\ op'[h].pc = "answer"
      /\ \A u \in Tokens: u # new => opened'[u] = opened[u]
      /\ opened'[new] = opened[old]
      /\ \A u \in Tokens: Unrevoked(u)' => Unrevoked(u)
  <2>1. \A u \in Tokens: Unrevoked(u)' => Unrevoked(u)
    BY <1>0 DEF ReplaceToken, Unrevoked, TokenRows
  <2> QED
    BY <1>0, <2>1 DEF ReplaceToken, Proceed, Goto, Ops
<1>2. AccountFirst' /\ \A g \in Handlers: Resetting(g)' <=> Resetting(g)
  BY <1>0, <1>1 DEF AccountFirst, Resetting, At
<1>3. ASSUME NEW t \in Live' PROVE GoodOpening(t)'
  <2>1. CASE t = new
    <3>1. Unrevoked(new)
      BY <1>1, <1>3, <2>1 DEF Live
    <3>2. GoodOpening(old)
      BY <1>0, <3>1 DEF PasswordInv
    <3> QED
      BY <1>1, <1>2, <2>1, <3>2 DEF GoodOpening, Good
  <2>2. CASE t # new
    <3>1. t \in Live /\ opened'[t] = opened[t]
      BY <1>1, <1>3, <2>2 DEF Live
    <3> QED
      BY <1>1, <1>2, <3>1 DEF PasswordInv, GoodOpening, Good
  <2> QED
    BY <2>1, <2>2
<1>4. \A g \in Handlers: Opening(g)' => Good(op[g].password, op[g].gives)'
  BY <1>1, <1>2 DEF PasswordInv, Opening, Good
<1>5. ASSUME NEW g \in Handlers, op'[g].pc = "replace", Unrevoked(op[g].gives)'
      PROVE  GoodOpening(op[g].old)'
  <2>1. g # h /\ op'[g] = op[g] /\ op[g].pc = "replace"
    BY <1>1, <1>5
  <2>2. op[g].old \in Tokens /\ op[g].gives \in Tokens /\ op[g].old \in delivered
    BY <1>0, <2>1 DEF OpSound, TokensSound
  <2>3. GoodOpening(op[g].old) /\ op[g].old # new
    BY <1>0, <1>1, <1>5, <2>1, <2>2 DEF PasswordInv
  <2> QED
    BY <1>1, <1>2, <2>1, <2>2, <2>3 DEF GoodOpening, Good
<1> QED
  BY <1>2, <1>3, <1>4, <1>5 DEF PasswordInv

\* What revokes every token leaves none that is live.
LEMMA RevokedIsGood ==
    ASSUME Inv, AccountFirst', tokens' = Revoked,
           \A h \in Handlers: Opening(h)' => Good(op[h].password, op[h].gives)',
           \A h \in Handlers: Holds(h)
    PROVE  PasswordInv'
<1>1. ASSUME NEW t \in Tokens PROVE ~Unrevoked(t)'
  <2>1. CASE tokens[t] = Null
    BY <2>1 DEF Revoked, Unrevoked
  <2>2. CASE tokens[t] # Null
    <3>1. tokens'[t].revoked
      BY <2>2 DEF Revoked, Inv, TypeInv, TypeOK, TokenRows
    <3> QED
      BY <3>1 DEF Unrevoked
  <2> QED
    BY <2>1, <2>2
<1>2. Live' = {}
  BY <1>1 DEF Live
<1>3. ASSUME NEW h \in Handlers, op'[h].pc = "replace" PROVE ~Unrevoked(op[h].gives)'
  <2>1. op'[h].gives \in Tokens
    BY <1>3 DEF Holds, Inv, TypeInv, OpSound
  <2> QED
    BY <1>1, <2>1 DEF Unrevoked
<1> QED
  BY <1>2, <1>3 DEF PasswordInv

\* A reset leaves no session of an earlier password but those being opened;
\* any other revocation leaves the resets under way.
LEMMA RevocationKeepsPasswords ==
    ASSUME Inv, PasswordInv, account # Null, NEW h \in Handlers, RevokeAll(h)
    PROVE  PasswordInv'
<1>0. /\ op \in [Handlers -> Ops] /\ op[h] \in Ops /\ op[h].pc = "revoke" /\ OpSound(op[h])
      /\ Null \notin Tokens
  BY SessionsAssumption DEF RevokeAll, At, Inv, TypeInv, TypeOK
<1>1. /\ account' = account /\ tokens' = Revoked
      /\ \A g \in Handlers \ {h}: op'[g] = op[g]
  BY <1>0 DEF RevokeAll, Goto
<1>2. op'[h].pc # "replace" /\ ~Opening(h)'
  BY <1>0 DEF RevokeAll, Goto, Idle, Ops, Opening, OpSound
<1>3. AccountFirst' /\ \A g \in Handlers: Holds(g)
  BY <1>1, <1>2 DEF AccountFirst, Holds
<1>4. ASSUME NEW g \in Handlers, Opening(g)' PROVE Good(op[g].password, op[g].gives)'
  <2>1. g # h /\ op'[g] = op[g] /\ Opening(g)
    BY <1>1, <1>2, <1>4 DEF Opening
  <2>2. CASE op[h].kind = "reset"
    <3>1. overlapped' = overlapped \cup {op[f].gives: f \in {f \in Handlers: Opening(f)}}
      BY <2>2 DEF RevokeAll
    <3> QED
      BY <2>1, <3>1 DEF Good
  <2>3. CASE op[h].kind # "reset"
    <3>1. UNCHANGED <<overlapped, cutShort>>
      BY <2>3 DEF RevokeAll
    <3>2. \A f \in Handlers: Resetting(f) => Resetting(f)'
      BY <1>1, <2>3 DEF Resetting, At
    <3>3. Good(op[g].password, op[g].gives)
      BY <2>1 DEF PasswordInv
    <3> QED
      BY <1>1, <2>1, <3>1, <3>2, <3>3 DEF Good
  <2> QED
    BY <2>2, <2>3
<1> QED
  BY <1>1, <1>3, <1>4, RevokedIsGood

\* A new password makes its reset one under way.
LEMMA NewPasswordKeepsPasswords ==
    ASSUME Inv, PasswordInv, account # Null, NEW h \in Handlers, SetPassword(h)
    PROVE  PasswordInv'
<1>0. op \in [Handlers -> Ops] /\ op[h] \in Ops /\ op[h].pc = "password" /\ OpSound(op[h])
  BY DEF SetPassword, At, Inv, TypeInv, TypeOK
<1>1. op'[h].kind = "reset" /\ op'[h].pc = "revoke"
  BY <1>0 DEF SetPassword, Proceed, Goto, Ops, OpSound
<1>2. \A p, r: Good(p, r)'
  BY <1>1 DEF Good, Resetting, At
<1>3. account' # Null
  <2>1. account' \in Accounts
    BY <1>0 DEF SetPassword, Inv, TypeInv, TypeOK, Accounts, OpSound
  <2> QED
    BY <2>1, NullIsNoRow
<1>4. AccountFirst'
  BY <1>3 DEF AccountFirst
<1> QED
  BY <1>2, <1>4 DEF PasswordInv, GoodOpening

\* Every step of a handler on users and refresh tokens.
LEMMA TokenStepKeepsPasswords ==
    ASSUME Inv, PasswordInv, account # Null, NEW h \in Handlers, TokenSteps(h)
    PROVE  PasswordInv'
<1> USE DEF At, Goto, Proceed, Throw, Local, tables, counters, sessionHistory
<1>0. /\ op \in [Handlers -> Ops] /\ op[h] \in Ops /\ OpSound(op[h]) /\ Null \notin Tokens
      /\ account \in Accounts
  BY SessionsAssumption DEF Inv, TypeInv, TypeOK
<1>1. ~CreateAccount(h)
  BY DEF CreateAccount
<1>2. CASE EmailTaken(h)
  BY <1>0, <1>2, OneMoves DEF EmailTaken, Idle, KeepsOpening, Opening, Resetting
<1>3. CASE MarkVerified(h)
  <2>1. account' \in Accounts /\ account'.password = account.password
    BY <1>0, <1>3 DEF MarkVerified, Accounts
  <2>2. ~Resetting(h) /\ op'[h].pc # "replace" /\ KeepsOpening(h)
    BY <1>0, <1>3 DEF MarkVerified, Resetting, KeepsOpening, Opening, Ops
  <2>3. /\ UNCHANGED <<tokens, opened, overlapped, cutShort>>
        /\ \A g \in Handlers \ {h}: op'[g] = op[g]
    BY <1>0, <1>3 DEF MarkVerified
  <2> QED
    BY <2>1, <2>2, <2>3, NullIsNoRow, OneMoves
<1>4. CASE ConsumeFindsNone(h)
  <2>1. ~Resetting(h) /\ op'[h].pc # "replace" /\ KeepsOpening(h)
    BY <1>0, <1>4 DEF ConsumeFindsNone, Resetting, KeepsOpening, Opening, Ops
  <2>2. /\ UNCHANGED <<account, tokens, opened, overlapped, cutShort>>
        /\ \A g \in Handlers \ {h}: op'[g] = op[g]
    BY <1>0, <1>4 DEF ConsumeFindsNone
  <2> QED
    BY <2>1, <2>2, OneMoves
<1>5. CASE Answer(h)
  <2>1. ~Resetting(h) /\ op'[h].pc # "replace" /\ KeepsOpening(h)
    BY <1>0, <1>5 DEF Answer, Resetting, KeepsOpening, Opening, Idle
  <2>2. /\ UNCHANGED <<account, tokens, opened, overlapped, cutShort>>
        /\ \A g \in Handlers \ {h}: op'[g] = op[g]
    BY <1>0, <1>5 DEF Answer
  <2> QED
    BY <2>1, <2>2, OneMoves
<1> QED
  BY <1>1, <1>2, <1>3, <1>4, <1>5, StoreKeepsPasswords, ConsumeKeepsPasswords,
     ReplaceKeepsPasswords, RevocationKeepsPasswords, NewPasswordKeepsPasswords
  DEF TokenSteps

-----------------------------------------------------------------------------
(* The invariant.                                                          *)

\* Steps of no handler: a crash that loses a reset says so.
LEMMA OtherStepKeepsPasswords ==
    ASSUME Inv, PasswordInv, account # Null,
           \/ \E t \in Tokens: Logout(t) \/ TokenExpires(t)
           \/ \E password \in Passwords: Enrol(password)
           \/ LogoutAll \/ RemoveAccount \/ CodeExpires \/ Crash
           \/ UNCHANGED vars
    PROVE  PasswordInv'
<1> USE DEF tables, counters, sessionHistory, codeHistory
<1>0. /\ op \in [Handlers -> Ops] /\ tokens \in [Tokens -> TokenRows \cup {Null}]
      /\ account \in Accounts /\ Null \notin Tokens /\ TypeOK
  BY SessionsAssumption DEF Inv, TypeInv, TypeOK
<1>1. ASSUME UNCHANGED <<op, opened, overlapped, cutShort>>, account' # Null,
             account'.password = account.password,
             \A t \in Tokens: tokens[t] # Null => (Unrevoked(t)' => Unrevoked(t))
      PROVE  PasswordInv'
  <2>1. AccountFirst' /\ KeepsGood
    BY <1>1 DEF AccountFirst, KeepsGood, Good, Resetting, At
  <2>2. \A h \in Handlers: Holds(h) /\ KeepsOpening(h)
    BY <1>1 DEF Holds, KeepsOpening, Opening
  <2> QED
    BY <1>1, <2>1, <2>2, QuietKeepsPasswords
<1>2. ASSUME NEW t \in Tokens, Logout(t) PROVE PasswordInv'
  <2>1. tokens[t] \in TokenRows
    BY <1>0, <1>2 DEF Logout, ValidJwt, Inv, TypeInv, DeliveredStored
  <2>2. \A u \in Tokens: Unrevoked(u)' => Unrevoked(u)
    BY <1>0, <1>2, <2>1 DEF Logout, Unrevoked, TokenRows
  <2> QED
    BY <1>1, <1>2, <2>2 DEF Logout
<1>3. ASSUME NEW t \in Tokens, TokenExpires(t) PROVE PasswordInv'
  BY <1>0, <1>1, <1>3, ExpiryRevokesNothing DEF TokenExpires
<1>4. ASSUME NEW password \in Passwords PROVE ~Enrol(password)
  BY DEF Enrol
<1>5. CASE LogoutAll
  <2>1. UNCHANGED <<account, op, overlapped, cutShort>> /\ tokens' = Revoked
    BY <1>5 DEF LogoutAll
  <2>2. AccountFirst' /\ \A h \in Handlers: Holds(h)
    BY <2>1 DEF AccountFirst, Holds
  <2>3. \A h \in Handlers: Opening(h)' => Good(op[h].password, op[h].gives)'
    BY <2>1 DEF PasswordInv, Opening, Good, Resetting, At
  <2> QED
    BY <2>1, <2>2, <2>3, RevokedIsGood
<1>6. CASE RemoveAccount
  <2>1. account' \in Accounts /\ account'.password = account.password
    BY <1>0, <1>6 DEF RemoveAccount, Accounts
  <2> QED
    BY <1>1, <1>6, <2>1, NullIsNoRow DEF RemoveAccount, Unrevoked
<1>7. CASE CodeExpires \/ UNCHANGED vars
  BY <1>1, <1>7 DEF CodeExpires, vars, Unrevoked
<1>8. CASE Crash
  <2>1. /\ UNCHANGED <<account, tokens, opened, overlapped>>
        /\ \A h \in Handlers: op'[h] = Idle
        /\ cutShort' = (cutShort \/ \E h \in Handlers: Resetting(h))
    BY <1>8 DEF Crash, Resetting
  <2>2. KeepsGood
    BY <2>1 DEF KeepsGood, Good
  <2>3. AccountFirst' /\ \A h \in Handlers: Holds(h) /\ KeepsOpening(h)
    BY <1>0, <2>1 DEF AccountFirst, Holds, KeepsOpening, Opening, Idle
  <2> QED
    BY <2>1, <2>2, <2>3, QuietKeepsPasswords DEF Unrevoked
<1> QED
  BY <1>2, <1>3, <1>4, <1>5, <1>6, <1>7, <1>8

\* Every step keeps the invariant.
LEMMA PasswordStep == Inv /\ Inv' /\ PasswordInv /\ [Next]_vars => PasswordInv'
<1> SUFFICES ASSUME Inv, Inv', PasswordInv, [Next]_vars
             PROVE  PasswordInv'
  OBVIOUS
<1>1. CASE account = Null
  BY <1>1, NothingStays, NothingIsGood DEF PasswordInv, AccountFirst, Nothing
<1>2. CASE account # Null
  BY <1>2, RequestKeepsPasswords, CodeStepKeepsPasswords, TokenStepKeepsPasswords,
     OtherStepKeepsPasswords
  DEF Next
<1> QED
  BY <1>1, <1>2

\* Initially there are no tokens.
LEMMA PasswordInit == Init => PasswordInv
BY SessionsAssumption DEF Init, PasswordInv, AccountFirst, Live, Opening, Idle

\* After a password reset no session opened under an earlier password can be
\* used, but for those whose login was under way when the reset revoked them
\* and for a crash between the two writes; whatever refreshes, logouts and
\* further resets interleave with it (resetPassword, login, refreshToken).
THEOREM OldPasswordTheorem == Spec => []OldPasswordOpensNothing
<1>1. PasswordInv => OldPasswordOpensNothing
  BY DEF PasswordInv, GoodOpening, Good, OldPasswordOpensNothing
<1> QED
  BY <1>1, Invariance, PasswordInit, PasswordStep, PTL DEF Spec
=============================================================================
