------------------------------- MODULE Access -------------------------------
(***************************************************************************)
(* Who may reach the household (services/auth.py, deps.py, agent/tokens.py, *)
(* api/auth.py, api/agent_tokens.py, api/agent.py): the open signup under  *)
(* its advisory lock, the sessions of a browser, and the tokens an agent   *)
(* acts with.                                                              *)
(*                                                                         *)
(* A browser's request is one transaction: it reads the session, writes    *)
(* last_seen_at (and so holds the row) and commits only when its handler   *)
(* did not raise.  An agent's call resolves its token in a transaction of  *)
(* its own and acts in a second one.  Roles are changed by hand: no code   *)
(* of the application promotes, demotes or removes anybody.                *)
(***************************************************************************)
EXTENDS Integers, Sequences, FiniteSets

CONSTANTS
  Emails,      \* the people
  Browsers,    \* the browser requests that may be under way at once
  Calls,       \* the agent calls that may be under way at once
  SessionIds,  \* bound: the sessions ever opened
  TokenIds,    \* bound: the tokens ever issued
  Idle,        \* session_idle_minutes
  Absolute,    \* session_absolute_hours
  TokenLife,   \* expires_in_days
  Resolution,  \* LAST_USED_RESOLUTION
  MaxTime,     \* bound: the clock
  MaxEdits,    \* bound: the changes of a role by hand
  Scenarios,   \* bound: the kinds of step one behaviour takes, sets of Kinds
  Null         \* SQL NULL

VARIABLES
  now,
  kinds,      \* the kinds of step this behaviour takes
  households, \* how many households there are; the oldest is 1
  users,      \* the user with an email, with her membership, or Null
  signing,    \* the signup under way for an email, or Null
  sessions,   \* the sessions table
  requests,   \* the browser requests under way
  over,       \* the sessions a person was told are over
  tokens,     \* the agent_tokens table; asRole is what its issuer was then
  calls,      \* the agent calls under way
  written,    \* the entries agents have added, with the token and the time of the call
  edits       \* how often a role was changed by hand

people == <<kinds, households, users, signing, edits>>
webs   == <<sessions, requests, over>>
agents == <<tokens, calls, written>>
accessVars   == <<now, kinds, households, users, signing, edits, sessions, requests, over, tokens, calls, written>>

Scopes == {"read", "write"}   \* "write" stands for every scope of OWNER_SCOPES
Roles  == {"owner", "member"}

\* a membership removed by hand leaves a user with no home and no role
User    == [home : {Null, 1}, role : Roles \union {Null}, admin : BOOLEAN]
Signup  == [home : {Null, 1}]
Session == [user : Emails, seen : Nat, expires : Nat]
Request == [session : SessionIds, at : Nat, holds : BOOLEAN]
Token   == [by : Emails, scopes : SUBSET Scopes, expires : Nat, revoked : Nat \union {Null},
            used : Nat \union {Null}, asRole : Roles \union {Null}]
Call    == [token : TokenIds, scope : Scopes, role : Roles \union {Null}, at : Nat]
Entry   == [token : TokenIds, at : Nat]

ASSUME TimesAssumption ==
  {Idle, Absolute, TokenLife, Resolution, MaxTime, MaxEdits} \subseteq Nat
ASSUME NullAssumption ==
  Null \notin Nat \union Roles \union User \union Signup \union Session \union Request
                  \union Token \union Call

Manages(user) == user # Null /\ user.home # Null /\ (user.admin \/ user.role = "owner")

\* the new row; an id is not used again
OpenedBy(e, s) ==
  /\ sessions[s] = Null /\ s \notin over
  /\ sessions' = [sessions EXCEPT ![s] = [user |-> e, seen |-> now, expires |-> now + Absolute]]

-----------------------------------------------------------------------------
(* Signup                                                                  *)

BeginSignup_NoLock(e) ==
  /\ signing[e] = Null
  /\ users[e] = Null
  /\ signing' = [signing EXCEPT ![e] = [home |-> IF households = 0 THEN Null ELSE 1]]
  /\ UNCHANGED <<now, kinds, households, users, edits, webs, agents>>

\* the advisory lock is held to the end of the transaction, and what decides
\* who is first is read under it; a known email is a 409
BeginSignup(e) ==
  /\ \A other \in Emails : signing[other] = Null
  /\ users[e] = Null
  /\ signing' = [signing EXCEPT ![e] = [home |-> IF households = 0 THEN Null ELSE 1]]
  /\ UNCHANGED <<now, kinds, households, users, edits, webs, agents>>

\* the first one makes the household and owns it; she is logged in at once
FinishSignup(e, s) ==
  /\ signing[e] # Null
  /\ OpenedBy(e, s)
  /\ LET first == signing[e].home = Null IN
       /\ households' = IF first THEN households + 1 ELSE households
       /\ users' = [users EXCEPT ![e] =
                      [home |-> IF first THEN households + 1 ELSE signing[e].home,
                       role |-> IF first THEN "owner" ELSE "member", admin |-> first]]
  /\ signing' = [signing EXCEPT ![e] = Null]
  /\ UNCHANGED <<now, kinds, edits, requests, over, agents>>

\* any error, a crash included, rolls the whole signup back
AbortSignup(e) ==
  /\ signing[e] # Null
  /\ signing' = [signing EXCEPT ![e] = Null]
  /\ UNCHANGED <<now, kinds, households, users, edits, webs, agents>>

-----------------------------------------------------------------------------
(* Sessions                                                                *)

\* a login without a membership raises, and its session goes with it
Login(e, s) ==
  /\ users[e] # Null /\ users[e].home # Null
  /\ OpenedBy(e, s)
  /\ UNCHANGED <<now, people, requests, over, agents>>

Expired(s) == sessions[s].expires < now \/ sessions[s].seen + Idle < now
On(s)      == {r \in Browsers : requests[r] # Null /\ requests[r].session = s}
Holder(s)  == {r \in On(s) : requests[r].holds}

\* get_context: the check reads what is committed; the new last_seen_at waits
\* for the row
BeginRequest(r, s) ==
  /\ requests[r] = Null
  /\ sessions[s] # Null /\ ~Expired(s)
  /\ requests' = [requests EXCEPT ![r] = [session |-> s, at |-> now, holds |-> Holder(s) = {}]]
  /\ UNCHANGED <<now, people, sessions, over, agents>>

Refuse_Touched(s) ==
  /\ sessions[s] # Null /\ Expired(s)
  /\ sessions' = [sessions EXCEPT ![s].seen = now]
  /\ over' = IF On(s) = {} THEN over \union {s} ELSE over
  /\ UNCHANGED <<now, people, requests, agents>>

\* a 401: raised inside the transaction, so that the delete of the expired
\* session is rolled back with everything else
Refuse(s) ==
  /\ sessions[s] # Null /\ Expired(s)
  /\ over' = IF On(s) = {} THEN over \union {s} ELSE over
  /\ UNCHANGED <<now, people, sessions, requests, agents>>

\* the row is free again: a request that waited for it goes on, or finds the
\* session deleted and fails
Acquire(r) ==
  /\ requests[r] # Null /\ ~requests[r].holds
  /\ Holder(requests[r].session) = {}
  /\ requests' = [requests EXCEPT ![r] = IF sessions[@.session] = Null THEN Null
                                          ELSE [@ EXCEPT !.holds = TRUE]]
  /\ UNCHANGED <<now, people, sessions, over, agents>>

\* the handler is done; anything it raises, a missing membership or a wrong
\* CSRF header included, takes last_seen_at back
EndRequest(r, raised) ==
  /\ requests[r] # Null /\ requests[r].holds
  /\ users[sessions[requests[r].session].user].home = Null => raised
  /\ sessions' = IF raised THEN sessions
                 ELSE [sessions EXCEPT ![requests[r].session].seen = requests[r].at]
  /\ requests' = [requests EXCEPT ![r] = Null]
  /\ UNCHANGED <<now, people, over, agents>>

\* the row goes, once no request holds it
Logout(s) ==
  /\ sessions[s] # Null
  /\ Holder(s) = {}
  /\ sessions' = [sessions EXCEPT ![s] = Null]
  /\ over' = over \union {s}
  /\ UNCHANGED <<now, people, requests, agents>>

-----------------------------------------------------------------------------
(* Agent tokens                                                            *)

Active(t) == tokens[t].revoked = Null /\ tokens[t].expires > now

\* require_admin: an administrator or the owner, with a session of her own;
\* her request goes through and keeps the session alive
Asks(e, s) ==
  /\ sessions[s] # Null /\ sessions[s].user = e /\ ~Expired(s) /\ On(s) = {}
  /\ Manages(users[e])
  /\ sessions' = [sessions EXCEPT ![s].seen = now]

NewToken(e, t, scopes) ==
  /\ tokens[t] = Null
  /\ tokens' = [tokens EXCEPT ![t] = [by |-> e, scopes |-> scopes, expires |-> now + TokenLife,
                                      revoked |-> Null, used |-> Null, asRole |-> users[e].role]]

CreateToken_AnyScope(e, s, t, scopes) ==
  /\ Asks(e, s)
  /\ NewToken(e, t, scopes)
  /\ UNCHANGED <<now, people, requests, over, calls, written>>

\* create_token: a scope that is the owner's is refused to anybody else
CreateToken(e, s, t, scopes) ==
  /\ Asks(e, s)
  /\ "write" \in scopes => users[e].role = "owner"
  /\ NewToken(e, t, scopes)
  /\ UNCHANGED <<now, people, requests, over, calls, written>>

\* revoke: only through the issuer's membership; the first revoked_at is kept
RevokeToken(e, s, t) ==
  /\ Asks(e, s)
  /\ tokens[t] # Null
  /\ users[tokens[t].by].home = users[e].home
  /\ tokens' = IF tokens[t].revoked # Null THEN tokens ELSE [tokens EXCEPT ![t].revoked = now]
  /\ UNCHANGED <<now, people, requests, over, calls, written>>

\* the token and its issuer's standing now; a use is noted at most once per
\* Resolution, whatever becomes of the call
Resolve(t) ==
  /\ tokens[t] # Null /\ Active(t)
  /\ Manages(users[tokens[t].by])
  /\ tokens' = IF tokens[t].used = Null \/ now - tokens[t].used >= Resolution
               THEN [tokens EXCEPT ![t].used = now] ELSE tokens

BeginCall(c, t, scope) ==
  /\ calls[c] = Null
  /\ Resolve(t)
  /\ calls' = IF scope \notin tokens[t].scopes THEN calls
              ELSE [calls EXCEPT ![c] = [token |-> t, scope |-> scope, role |-> users[tokens[t].by].role,
                                         at |-> now]]
  /\ UNCHANGED <<now, people, webs, written>>

\* the role the principal was resolved with decides, not the one she has by now
MayAdd(call) == call.scope = "write" /\ call.role = "owner"

\* the route adds its one entry; a read's transaction is READ ONLY and adds none
EndCall(c) ==
  /\ calls[c] # Null
  /\ written' = IF MayAdd(calls[c])
                THEN written \union {[token |-> calls[c].token, at |-> calls[c].at]} ELSE written
  /\ calls' = [calls EXCEPT ![c] = Null]
  /\ UNCHANGED <<now, people, webs, tokens>>

-----------------------------------------------------------------------------
ClockTicks ==
  /\ now < MaxTime
  /\ now' = now + 1
  /\ UNCHANGED <<people, webs, agents>>

\* a role, the administrator's flag or the membership itself, by hand
EditByHand(e, home, role, admin) ==
  /\ users[e] # Null
  /\ edits < MaxEdits
  /\ edits' = edits + 1
  /\ users' = [users EXCEPT ![e] = [home |-> home, role |-> role, admin |-> admin]]
  /\ UNCHANGED <<now, kinds, households, signing, webs, agents>>
-----------------------------------------------------------------------------
NewInstance == /\ "signup" \in kinds
               /\ households = 0
               /\ users = [e \in Emails |-> Null]

\* an instance its first person has set up already
OwnedBy(e) == /\ "signup" \notin kinds
              /\ households = 1
              /\ users = [f \in Emails |-> IF f = e THEN [home |-> 1, role |-> "owner", admin |-> TRUE]
                                           ELSE [home |-> 1, role |-> "member", admin |-> TRUE]]

AccessInit ==
  /\ now = 0
  /\ kinds \in Scenarios
  /\ NewInstance \/ \E e \in Emails : OwnedBy(e)
  /\ signing = [e \in Emails |-> Null]
  /\ sessions = [s \in SessionIds |-> Null]
  /\ requests = [r \in Browsers |-> Null]
  /\ over = {}
  /\ tokens = [t \in TokenIds |-> Null]
  /\ calls = [c \in Calls |-> Null]
  /\ written = {}
  /\ edits = 0

SigningUp == \E e \in Emails :
  \/ BeginSignup(e)
  \/ \E s \in SessionIds : FinishSignup(e, s)
  \/ AbortSignup(e)

Opening == \E s \in SessionIds, e \in Emails : Login(e, s)

Browsing ==
  \/ \E s \in SessionIds : Refuse(s) \/ Logout(s) \/ \E r \in Browsers : BeginRequest(r, s)
  \/ \E r \in Browsers : Acquire(r) \/ \E raised \in BOOLEAN : EndRequest(r, raised)

Acting ==
  \/ \E e \in Emails, s \in SessionIds, t \in TokenIds :
       RevokeToken(e, s, t) \/ \E scopes \in SUBSET Scopes \ {{}} : CreateToken(e, s, t, scopes)
  \/ \E c \in Calls : EndCall(c) \/ \E t \in TokenIds, scope \in Scopes : BeginCall(c, t, scope)

Editing == \E e \in Emails :
  \/ EditByHand(e, Null, Null, FALSE)
  \/ \E admin \in BOOLEAN, role \in {"owner", "member"} : EditByHand(e, 1, role, admin)

AccessNext ==
  \/ Opening
  \/ "time" \in kinds /\ (ClockTicks \/ Editing)
  \/ "signup" \in kinds /\ SigningUp
  \/ "web" \in kinds /\ Browsing
  \/ "agent" \in kinds /\ Acting

AccessSpec == AccessInit /\ [][AccessNext]_accessVars

-----------------------------------------------------------------------------
(* Who may reach the household                                             *)

\* The module's variables hold what their columns hold, and a request under
\* way holds a session that is still in the table.
AccessTypeOK ==
  /\ now \in 0..MaxTime
  /\ households \in Nat
  /\ edits \in 0..MaxEdits
  /\ users \in [Emails -> User \union {Null}]
  /\ signing \in [Emails -> Signup \union {Null}]
  /\ sessions \in [SessionIds -> Session \union {Null}]
  /\ requests \in [Browsers -> Request \union {Null}]
  /\ over \subseteq SessionIds
  /\ tokens \in [TokenIds -> Token \union {Null}]
  /\ calls \in [Calls -> Call \union {Null}]
  /\ written \subseteq Entry
  /\ \A s \in SessionIds : sessions[s] # Null => sessions[s].seen <= now /\ users[sessions[s].user] # Null
  /\ \A r \in Browsers : requests[r] # Null /\ requests[r].holds => sessions[requests[r].session] # Null
  /\ \A t \in TokenIds : tokens[t] # Null => users[tokens[t].by] # Null

\* However signups overlap there is one household, everybody who signed up is
\* in it, and one of them founded it ("one of them would be stranded",
\* services/auth.py at SIGNUP_LOCK_KEY).
OneHousehold ==
  /\ AccessTypeOK
  /\ households <= 1
  /\ edits = 0 => /\ \A e \in Emails : users[e] # Null => users[e].home = 1
                  /\ households = Cardinality({e \in Emails : users[e] # Null /\ users[e].role = "owner"})

\* A session a person was told is over, by a logout or by a refusal that no
\* request of hers overlapped, answers nothing more; and none outlives its
\* absolute limit however busy it is.
OverIsOver ==
  \A r \in Browsers : requests[r] # Null /\ requests[r].holds =>
    /\ requests[r].session \notin over
    /\ requests[r].at <= sessions[requests[r].session].expires

\* What an agent adds it adds for the owner: with a token issued by one who was
\* the owner then ("such a token cannot sit dormant and turn live on
\* promotion", api/agent_tokens.py), by a call begun before the token was
\* revoked or ran out.
AgentsActForTheOwner ==
  \A entry \in written :
    LET token == tokens[entry.token] IN
      /\ token.asRole = "owner"
      /\ entry.at < token.expires
      /\ token.revoked # Null => entry.at <= token.revoked
=============================================================================
