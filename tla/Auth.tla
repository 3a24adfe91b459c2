-------------------------------- MODULE Auth --------------------------------
(****************************************************************************)
(* Users, invites, sessions and view grants (index auth.rs, server auth.rs, *)
(* admin.rs): requests of several clients interleave at every database      *)
(* access, passwords are hashed and verified outside of them, and the clock *)
(* moves meanwhile.                                                         *)
(****************************************************************************)
EXTENDS Naturals, FiniteSets

CONSTANTS Names,        \* usernames
          Invites,      \* invite tokens, each minted at most once
          Clients,      \* concurrent requests to the open endpoints
          Views,        \* view names
          SessionTtl,   \* lifetime of a session, in ticks of the clock
          MaxClock,     \* bound: the last tick
          MaxSessions   \* bound: session tokens minted

VARIABLES
    clock,
    users,        \* username -> role; "none" without a row
    invites,      \* invite -> its row
    sessions,     \* session rows
    grants,       \* view_grant rows: <<username, view>>
    minted,       \* session tokens minted so far
    reqPc, reqName, reqInvite,  \* per client: its step and what it asked for
    reqRole,      \* per client: the role that login's read found
    made          \* history: invite -> the accounts created with it

avars == <<clock, users, invites, sessions, grants, minted, reqPc, reqName, reqInvite, reqRole, made>>
table == <<users, invites, sessions, grants, minted>>
request == <<reqPc, reqName, reqInvite, reqRole>>

Role == {"owner", "friend"}
NoInvite == [st |-> "none"]

TypeOK ==
    /\ clock \in 0 .. MaxClock
    /\ users \in [Names -> Role \cup {"none"}]
    /\ \A i \in Invites : invites[i] = NoInvite \/ invites[i].st = "deleted"
          \/ invites[i] \in [st : {"pending", "used"}, role : Role, exp : Nat]
    /\ sessions \subseteq [tok : 1 .. MaxSessions, name : Names, exp : Nat]
    /\ grants \subseteq Names \X Views
    /\ minted \in 0 .. MaxSessions
    /\ reqPc \in [Clients -> {"idle", "accept", "verify", "session"}]
    /\ reqName \in [Clients -> Names] /\ reqInvite \in [Clients -> Invites]
    /\ reqRole \in [Clients -> Role \cup {"none"}]
    /\ made \in [Invites -> SUBSET Names]

Tick ==
    /\ clock < MaxClock /\ clock' = clock + 1
    /\ UNCHANGED <<table, request, made>>

(****************************************************************************)
(* The admin surface and the CLI.                                           *)
(****************************************************************************)
\* invite_create and `datboi user invite`: a fresh token with its own expiry.
MintInvite(i, role, days) ==
    /\ invites[i] = NoInvite
    /\ invites' = [invites EXCEPT ![i] = [st |-> "pending", role |-> role, exp |-> clock + days]]
    /\ UNCHANGED <<clock, users, sessions, grants, minted, request, made>>

\* Mutant: a consumed invite can be deleted.
DeleteInviteUsed(i) ==
    /\ invites[i] # NoInvite /\ invites[i].st \in {"pending", "used"}
    /\ invites' = [invites EXCEPT ![i] = [st |-> "deleted"]]
    /\ UNCHANGED <<clock, users, sessions, grants, minted, request, made>>

\* delete_invite: only an unused one; the others are provenance.
DeleteInvite(i) ==
    /\ invites[i].st = "pending"
    /\ invites' = [invites EXCEPT ![i] = [st |-> "deleted"]]
    /\ UNCHANGED <<clock, users, sessions, grants, minted, request, made>>

\* sessions_delete: every session of the user.
RevokeSessions(n) ==
    /\ users[n] # "none"
    /\ sessions' = {s \in sessions : s.name # n} /\ sessions' # sessions
    /\ UNCHANGED <<clock, users, invites, grants, minted, request, made>>

\* grant_create and grant_delete.
SetGrant(n, v, on) ==
    /\ users[n] # "none"
    /\ grants' = IF on THEN grants \cup {<<n, v>>} ELSE grants \ {<<n, v>>}
    /\ grants' # grants
    /\ UNCHANGED <<clock, users, invites, sessions, minted, request, made>>

(****************************************************************************)
(* The open endpoints.                                                      *)
(****************************************************************************)
\* invite_accept has checked the form and hashed the password.
AcceptStart(c, n, i) ==
    /\ reqPc[c] = "idle"
    /\ reqPc' = [reqPc EXCEPT ![c] = "accept"]
    /\ reqName' = [reqName EXCEPT ![c] = n] /\ reqInvite' = [reqInvite EXCEPT ![c] = i]
    /\ UNCHANGED <<clock, table, reqRole, made>>

\* Mutant: the role is read without asking whether the invite is used.
RedeemableTwice(i) == invites[i].st \in {"pending", "used"} /\ invites[i].exp > clock

Redeemable(i) == invites[i].st = "pending" /\ invites[i].exp > clock

\* accept_invite, one IMMEDIATE transaction: user row and used_by together. An
\* invalid invite answers; a taken name leaves the invite for another try.
AcceptInvite(c) ==
    /\ reqPc[c] = "accept"
    /\ LET n == reqName[c] i == reqInvite[c] IN
       \/ /\ Redeemable(i) /\ users[n] = "none"
          /\ users' = [users EXCEPT ![n] = invites[i].role]
          /\ invites' = [invites EXCEPT ![i].st = "used"]
          /\ made' = [made EXCEPT ![i] = @ \cup {n}]
          /\ reqPc' = [reqPc EXCEPT ![c] = "session"]
       \/ /\ ~(Redeemable(i) /\ users[n] = "none")
          /\ reqPc' = [reqPc EXCEPT ![c] = "idle"]
          /\ UNCHANGED <<users, invites, made>>
    /\ UNCHANGED <<clock, sessions, grants, minted, reqName, reqInvite, reqRole>>

\* login reads the user row, and verifies the password outside the lock.
LoginRead(c, n) ==
    /\ reqPc[c] = "idle"
    /\ reqPc' = [reqPc EXCEPT ![c] = "verify"]
    /\ reqName' = [reqName EXCEPT ![c] = n] /\ reqRole' = [reqRole EXCEPT ![c] = users[n]]
    /\ UNCHANGED <<clock, table, reqInvite, made>>

\* Mutant: the sweep takes sessions that expire on the next tick.
SweptEarly(s) == s.exp <= clock + 1

\* delete_expired_sessions.
Swept(s) == s.exp <= clock

\* Mutant: an unknown user passes like a known one.
LoginVerifyAnyone(c) ==
    /\ reqPc[c] = "verify"
    /\ sessions' = {s \in sessions : ~Swept(s)}
    /\ reqPc' = [reqPc EXCEPT ![c] = "session"]
    /\ UNCHANGED <<clock, users, invites, grants, minted, reqName, reqInvite, reqRole, made>>

\* The password was right: the expired sessions are swept. Unknown users and
\* wrong passwords get the same answer after the same work.
LoginVerify(c) ==
    /\ reqPc[c] = "verify"
    /\ \/ /\ reqRole[c] # "none"
          /\ sessions' = {s \in sessions : ~Swept(s)}
          /\ reqPc' = [reqPc EXCEPT ![c] = "session"]
       \/ /\ reqPc' = [reqPc EXCEPT ![c] = "idle"]
          /\ UNCHANGED sessions
    /\ UNCHANGED <<clock, users, invites, grants, minted, reqName, reqInvite, reqRole, made>>

\* session_response: a fresh token that lives for the TTL.
StartSession(c) ==
    /\ reqPc[c] = "session" /\ minted < MaxSessions
    /\ minted' = minted + 1
    /\ sessions' = sessions \cup {[tok |-> minted + 1, name |-> reqName[c], exp |-> clock + SessionTtl]}
    /\ reqPc' = [reqPc EXCEPT ![c] = "idle"]
    /\ UNCHANGED <<clock, users, invites, grants, reqName, reqInvite, reqRole, made>>

\* logout deletes the presented session.
Logout(s) ==
    /\ sessions' = sessions \ {s}
    /\ UNCHANGED <<clock, users, invites, grants, minted, request, made>>

AInit ==
    /\ clock = 0 /\ users = [n \in Names |-> "none"] /\ invites = [i \in Invites |-> NoInvite]
    /\ sessions = {} /\ grants = {} /\ minted = 0
    /\ reqPc = [c \in Clients |-> "idle"] /\ reqRole = [c \in Clients |-> "none"]
    /\ reqName = [c \in Clients |-> CHOOSE n \in Names : TRUE]
    /\ reqInvite = [c \in Clients |-> CHOOSE i \in Invites : TRUE]
    /\ made = [i \in Invites |-> {}]

ANext ==
    \/ Tick
    \/ \E i \in Invites : DeleteInvite(i) \/ \E role \in Role, days \in 1 .. 2 : MintInvite(i, role, days)
    \/ \E n \in Names : RevokeSessions(n) \/ \E v \in Views, on \in BOOLEAN : SetGrant(n, v, on)
    \/ \E c \in Clients :
        \/ \E n \in Names : LoginRead(c, n) \/ \E i \in Invites : AcceptStart(c, n, i)
        \/ AcceptInvite(c) \/ LoginVerify(c) \/ StartSession(c)
    \/ \E s \in sessions : Logout(s)

ASpec == AInit /\ [][ANext]_avars

(****************************************************************************)
(* Properties.                                                              *)
(****************************************************************************)
\* resolve and session_user: whom the gate takes a token for, now.
Accepts(s) == s \in sessions /\ s.exp > clock

\* view_allowed for a caller the gate resolved to the session.
MaySee(s, v) == Accepts(s) /\ (users[s.name] = "owner" \/ <<s.name, v>> \in grants)

\* "A token can never mint two accounts however racy its presenters are", and
\* the account has the invite's role.
OneAccountPerInvite ==
    \A i \in Invites :
        /\ Cardinality(made[i]) <= 1
        /\ \A n \in made[i] : invites[i].st = "used" /\ users[n] = invites[i].role

\* A session the gate accepts ends by its expiry, a logout or a revocation of
\* that user, never by the sweep of another user's login.
SweepSparesLive ==
    [][\A c \in Clients : LoginVerify(c) => \A s \in sessions : Accepts(s) => s \in sessions']_avars

\* Only an invite makes an account, and only a user row carries a session or a
\* grant: no interleaving of revocations and late logins leaves one without.
NoStrayAuthority ==
    /\ \A s \in sessions : users[s.name] # "none"
    /\ \A g \in grants : users[g[1]] # "none"
    /\ \A n \in Names : users[n] # "none" <=> \E i \in Invites : n \in made[i]
    /\ \A s \in sessions, v \in Views : MaySee(s, v) => \E i \in Invites : s.name \in made[i]
=============================================================================
