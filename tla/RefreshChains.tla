--------------------------- MODULE RefreshChains ---------------------------
(***************************************************************************)
(* What refresh-token rotation promises, without handlers, tables or       *)
(* awaits: a token opens a session, is replaced by one successor at a      *)
(* time, and never comes back once its session was ended.                  *)
(*                                                                         *)
(* The promise is qualified in one way.  A token is contended when two     *)
(* requests used it at the same moment: then, and only then, the session   *)
(* may branch or outlive its logout.                                       *)
(***************************************************************************)
CONSTANTS Tokens, Null

VARIABLES
    live,       \* the tokens that a refresh would accept
    session,    \* the first token of the session a token belongs to, or Null
    contended   \* the tokens two requests used at the same moment

vars == <<live, session, contended>>

Seen == {t \in Tokens: session[t] # Null}

TypeOK ==
    /\ session \in [Tokens -> Tokens \cup {Null}]
    /\ live \subseteq Seen
    /\ contended \subseteq Tokens

Init ==
    /\ live = {}
    /\ session = [t \in Tokens |-> Null]
    /\ contended = {}

\* A login, or the verification of an email address.
Open(t) ==
    /\ t \notin Seen
    /\ live' = live \cup {t}
    /\ session' = [session EXCEPT ![t] = t]
    /\ UNCHANGED contended

\* Token u carries on the session of t, which is used up.
Succeeds(u, t) ==
    /\ t \in Seen /\ u \notin Seen
    /\ session' = [session EXCEPT ![u] = session[t]]
    /\ UNCHANGED contended

\* A refresh.
Rotate(t, u) ==
    /\ t \in live
    /\ Succeeds(u, t)
    /\ live' = (live \ {t}) \cup {u}

\* A refresh that a revocation of all sessions overtakes: its answer carries
\* a token that is of no use.
RotateEnded(t, u) ==
    /\ Succeeds(u, t)
    /\ live' = live \ {t}

\* A refresh of a token that another request used at the same moment.
Branch(t, u) ==
    /\ t \in contended
    /\ Succeeds(u, t)
    /\ live' = (live \ {t}) \cup {u}

\* Logout of one session, or the end of all of them.
End(ended) ==
    /\ ended # {}
    /\ live' = live \ ended
    /\ UNCHANGED <<session, contended>>

Contend(t) ==
    /\ contended' = contended \cup {t}
    /\ live' \in {live, live \ {t}}
    /\ UNCHANGED session

Next ==
    \/ \E t \in Tokens: Open(t)
    \/ \E t, u \in Tokens: Rotate(t, u) \/ RotateEnded(t, u) \/ Branch(t, u)
    \/ \E ended \in SUBSET live: End(ended)
    \/ \E t \in Tokens: Contend(t)

Spec == Init /\ [][Next]_vars
=============================================================================
