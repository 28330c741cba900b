------------------------------ MODULE Accounts ------------------------------
(***************************************************************************)
(* Accounts, BioIDs and the session of one phone.  The backend registers a *)
(* user in two commits, the user and then the BioID; the app logs in or    *)
(* registers, keeps its tokens in the secure storage, restores them when   *)
(* it starts, and fetches or issues the BioID its provider accounts are    *)
(* named after.                                                            *)
(*                                                                         *)
(* The app is one event loop: an action is the code between two awaits.    *)
(* The storage is a platform channel that answers its calls in order and   *)
(* does not fail; each task of the app waits for one call at a time.  A    *)
(* token is named by its user.                                             *)
(***************************************************************************)
EXTENDS Naturals, Sequences, FiniteSets

CONSTANTS
    Users,        \* people, by the email they log in with
    Tasks,        \* restore, login and logout calls under way in the app
    Requests,     \* slots for POST /auth/register and POST /bioid
    MaxLogins,    \* bound: taps on "Log in"
    MaxRestarts,  \* bound: how often the app is killed and started again
    None

ASSUME NoneIsNew == None \notin Users \cup Tasks \cup Requests \cup {"bio"}
ASSUME BioIsNoTask == "bio" \notin Tasks
ASSUME BoundsAreNaturals == MaxLogins \in Nat /\ MaxRestarts \in Nat

VARIABLES
    account,     \* the committed users
    bioID,       \* the users with a committed BioID
    request,     \* the requests at the server that write
    stored,      \* the secure storage: access and refresh token
    channel,     \* the tasks waiting for their storage call, in order
    task,        \* where each task of the app is
    token,       \* the ApiClient's access token
    screen,      \* the AuthState
    bio,         \* the bioIdProvider: its request under way or its result
    logins, restarts,     \* bounds
    overlap, trouble      \* history: a login was tapped during a restore or a logout;
                          \* a request failed for an outside reason

server == <<account, bioID, request, trouble>>
session == <<stored, channel, token, screen, overlap, logins>>
vars == <<server, session, task, bio, restarts>>

NoTask == [kind |-> "none", step |-> "none", user |-> None]
\* A restore or a logout begins with a call to the storage.
Calling(kind) == [kind |-> kind, step |-> "access", user |-> None]
NoRequest == [kind |-> "none", step |-> "none", user |-> None, by |-> None]
SignedOut == [auth |-> FALSE, loading |-> FALSE, email |-> None]
NoBio == [step |-> "none", user |-> None]
Loaded(u) == [step |-> "data", user |-> u]

\* Nobody waits for the answer of by's request any more.
Abandon(by) ==
    [q \in Requests |-> IF request[q].by \in by THEN [request[q] EXCEPT !.by = None]
                        ELSE request[q]]
Ended == {"ok", "refused", "conflict", "failed"}

Waiting(t, kind, step) == task[t].kind = kind /\ task[t].step = step
GoOn(t, step) == task' = [task EXCEPT ![t].step = step]
Done(t) == task' = [task EXCEPT ![t] = NoTask]
Busy == \E t \in Tasks : task[t] # NoTask

KeepBio(s) == screen' = s /\ UNCHANGED <<bio, request>>   \* mutant: no watch on the session
\* The new AuthState; the bioIdProvider starts anew when isAuthenticated flips.
SetScreen(s) ==
    /\ screen' = s
    /\ IF s.auth = screen.auth THEN UNCHANGED <<bio, request>>
       ELSE bio' = NoBio /\ request' = Abandon({"bio"})

(* ------------------------------ the server ----------------------------- *)

Serve(q, step) ==
    /\ request' = [request EXCEPT ![q].step = step]
    /\ UNCHANGED <<session, task, bio, restarts>>

\* POST /auth/register: the user is committed before the BioID is issued.
CreateUser(q) ==
    /\ request[q].step = "create"
    /\ account' = account \cup {request[q].user}
    /\ Serve(q, IF request[q].user \in account THEN "refused" ELSE "insert")
    /\ UNCHANGED <<bioID, trouble>>

\* POST /bioid returns the BioID it finds ...
CheckBioID(q) ==
    /\ request[q].step = "check"
    /\ Serve(q, IF request[q].user \in bioID THEN "ok" ELSE "insert")
    /\ UNCHANGED <<account, bioID, trouble>>

\* ... or issues one, which fails when another request was faster: the
\* user_id of a BioID is unique.
IssueBioID(q) ==
    /\ request[q].step = "insert"
    /\ bioID' = bioID \cup {request[q].user}
    /\ Serve(q, IF request[q].user \in bioID THEN "conflict" ELSE "ok")
    /\ UNCHANGED <<account, trouble>>

\* An exception or a restart of the server; what was committed stays.
CrashRequest(q) ==
    /\ request[q].step \in {"create", "check", "insert"}
    /\ Serve(q, "failed")
    /\ trouble' = TRUE
    /\ UNCHANGED <<account, bioID>>

DropAnswer(q) ==
    /\ request[q].step \in Ended
    /\ request[q].by = None
    /\ request' = [request EXCEPT ![q] = NoRequest]
    /\ UNCHANGED <<account, bioID, trouble, session, task, bio, restarts>>

Send(q, kind, step, u, by) ==
    /\ request[q] = NoRequest
    /\ request' = [request EXCEPT ![q] = [kind |-> kind, step |-> step, user |-> u, by |-> by]]

\* Another device of the user asks for the BioID, or a fetch of this one that
\* was abandoned before its POST.
IssueElsewhere(q, u) ==
    /\ u \in account
    /\ Send(q, "issue", "check", u, None)
    /\ UNCHANGED <<account, bioID, trouble, session, task, bio, restarts>>

(* ------------------------------- logging in ---------------------------- *)

\* The button is on the login screen and disabled while isLoading.
Login(t, u) ==
    /\ ~screen.auth /\ ~screen.loading
    /\ task[t] = NoTask
    /\ logins < MaxLogins
    /\ logins' = logins + 1
    /\ screen' = [screen EXCEPT !.loading = TRUE]
    /\ task' = [task EXCEPT ![t] = [kind |-> "login", step |-> "login", user |-> u]]
    /\ overlap' = (overlap \/ Busy)
    /\ UNCHANGED <<server, stored, channel, token, bio, restarts>>

Authenticated(t) == GoOn(t, "access") /\ channel' = Append(channel, t)

LoginAnswered(t) ==
    /\ Waiting(t, "login", "login")
    /\ task[t].user \in account
    /\ Authenticated(t)
    /\ UNCHANGED <<server, stored, token, screen, overlap, logins, bio, restarts>>

\* Any exception of the login, a 401 or a lost connection, tries to register.
LoginFails(t) ==
    /\ Waiting(t, "login", "login")
    /\ GoOn(t, "register")
    /\ \E q \in Requests : Send(q, "register", "create", task[t].user, t)
    /\ UNCHANGED <<account, bioID, trouble, session, bio, restarts>>

RegisterAnswered(t) ==
    /\ Waiting(t, "login", "register")
    /\ \E q \in Requests :
        /\ request[q].by = t /\ request[q].step = "ok"
        /\ request' = [request EXCEPT ![q] = NoRequest]
    /\ Authenticated(t)
    /\ UNCHANGED <<account, bioID, trouble, stored, token, screen, overlap, logins,
                   bio, restarts>>

KeepLoading(t) ==     \* mutant: the error does not reset isLoading
    /\ Waiting(t, "login", "register")
    /\ Done(t)
    /\ request' = Abandon({t})
    /\ UNCHANGED <<account, bioID, trouble, session, bio, restarts>>

\* Refused, failed, or the connection lost while the server goes on.
RegisterFails(t) ==
    /\ Waiting(t, "login", "register")
    /\ Done(t)
    /\ request' = Abandon({t})
    /\ screen' = [screen EXCEPT !.loading = FALSE]
    /\ UNCHANGED <<account, bioID, trouble, stored, channel, token, overlap, logins,
                   bio, restarts>>

(* ------------------------- the session's storage ----------------------- *)

\* The storage answers the call at the head of the channel.
Answered(t, kind, step) ==
    /\ Waiting(t, kind, step)
    /\ channel # <<>> /\ Head(channel) = t
    /\ UNCHANGED <<account, bioID, trouble, overlap, logins, restarts>>

RestoreAlways(t) ==   \* mutant: no null check on the restored token
    /\ Answered(t, "restore", "access")
    /\ token' = stored.access
    /\ SetScreen([screen EXCEPT !.auth = TRUE])
    /\ channel' = Tail(channel) /\ Done(t)
    /\ UNCHANGED stored

RestoreSession(t) ==
    /\ Answered(t, "restore", "access")
    /\ token' = stored.access
    /\ SetScreen([screen EXCEPT !.auth = @ \/ stored.access # None])
    /\ channel' = Tail(channel) /\ Done(t)
    /\ UNCHANGED stored

WriteAccess(t) ==
    /\ Answered(t, "login", "access")
    /\ stored' = [stored EXCEPT !.access = task[t].user]
    /\ channel' = Append(Tail(channel), t) /\ GoOn(t, "refresh")
    /\ UNCHANGED <<token, screen, bio, request>>

\* ... and then the session begins: the client's token, the AuthState.
WriteRefresh(t) ==
    /\ Answered(t, "login", "refresh")
    /\ stored' = [stored EXCEPT !.refresh = task[t].user]
    /\ token' = task[t].user
    /\ SetScreen([auth |-> TRUE, loading |-> FALSE, email |-> task[t].user])
    /\ channel' = Tail(channel) /\ Done(t)

Logout(t) ==
    /\ screen.auth
    /\ task[t] = NoTask
    /\ task' = [task EXCEPT ![t] = Calling("logout")]
    /\ channel' = Append(channel, t)
    /\ UNCHANGED <<server, stored, token, screen, overlap, logins, bio, restarts>>

KeepAccess(t) ==      \* mutant: only the refresh token is deleted
    /\ Answered(t, "logout", "access")
    /\ channel' = Append(Tail(channel), t) /\ GoOn(t, "refresh")
    /\ UNCHANGED <<stored, token, screen, bio, request>>

DeleteAccess(t) ==
    /\ Answered(t, "logout", "access")
    /\ stored' = [stored EXCEPT !.access = None]
    /\ channel' = Append(Tail(channel), t) /\ GoOn(t, "refresh")
    /\ UNCHANGED <<token, screen, bio, request>>

KeepToken(t) ==       \* mutant: the ApiClient keeps its token
    /\ Answered(t, "logout", "refresh")
    /\ stored' = [stored EXCEPT !.refresh = None]
    /\ SetScreen(SignedOut)
    /\ channel' = Tail(channel) /\ Done(t)
    /\ UNCHANGED token

DeleteRefresh(t) ==
    /\ Answered(t, "logout", "refresh")
    /\ stored' = [stored EXCEPT !.refresh = None]
    /\ token' = None
    /\ SetScreen(SignedOut)
    /\ channel' = Tail(channel) /\ Done(t)

\* The app is killed and started again: only the storage is left, and what
\* the server is doing goes on.
Restart(t) ==
    /\ restarts < MaxRestarts
    /\ restarts' = restarts + 1
    /\ task' = [u \in Tasks |-> IF u = t THEN Calling("restore")
                               ELSE NoTask]
    /\ channel' = <<t>>
    /\ token' = None
    /\ screen' = SignedOut
    /\ bio' = NoBio
    /\ request' = Abandon(Tasks \cup {"bio"})
    /\ UNCHANGED <<account, bioID, trouble, stored, overlap, logins>>

(* ------------------------------- the BioID ----------------------------- *)

FetchBioID ==
    /\ screen.auth /\ bio = NoBio
    /\ bio' = [step |-> "get", user |-> token]
    /\ UNCHANGED <<server, session, task, restarts>>

BioIDFound ==
    /\ bio.step = "get" /\ bio.user \in bioID
    /\ bio' = Loaded(bio.user)
    /\ UNCHANGED <<server, session, task, restarts>>

GiveUp ==             \* mutant: the 404 is shown, no BioID is asked for
    /\ bio.step = "get"
    /\ bio' = [bio EXCEPT !.step = "error"]
    /\ UNCHANGED <<server, session, task, restarts>>

\* Any exception, the 404 among them, asks for a new BioID, with the token the
\* client has by then.
IssueInstead ==
    /\ bio.step = "get"
    /\ bio' = [step |-> "post", user |-> token]
    /\ \E q \in Requests : Send(q, "issue", "check", token, "bio")
    /\ UNCHANGED <<account, bioID, trouble, session, task, restarts>>

BioIDIssued ==
    /\ \E q \in Requests :
        /\ request[q].by = "bio" /\ request[q].step = "ok"
        /\ request' = [request EXCEPT ![q] = NoRequest]
    /\ bio' = Loaded(bio.user)
    /\ UNCHANGED <<account, bioID, trouble, session, task, restarts>>

\* The server's error arrives, or the connection is lost before its answer.
IssueFails ==
    /\ bio.step = "post"
    /\ bio' = [bio EXCEPT !.step = "error"]
    /\ request' = Abandon({"bio"})
    /\ trouble' = (trouble \/ \E q \in Requests : request[q].by = "bio" /\ request[q].step \notin Ended)
    /\ UNCHANGED <<account, bioID, session, task, restarts>>

\* Pull to refresh: the provider starts anew, an older request is forgotten.
Refresh ==
    /\ screen.auth /\ bio # NoBio
    /\ bio' = NoBio
    /\ request' = Abandon({"bio"})
    /\ UNCHANGED <<account, bioID, trouble, session, task, restarts>>

(* ---------------------------- specification ---------------------------- *)

Init ==
    /\ account = {} /\ bioID = {}
    /\ request = [q \in Requests |-> NoRequest]
    /\ stored = [access |-> None, refresh |-> None]
    /\ \E t \in Tasks :
        /\ task = [u \in Tasks |-> IF u = t THEN Calling("restore")
                                  ELSE NoTask]
        /\ channel = <<t>>
    /\ token = None /\ screen = SignedOut /\ bio = NoBio
    /\ logins = 0 /\ restarts = 0
    /\ overlap = FALSE /\ trouble = FALSE

Server(q) == CreateUser(q) \/ CheckBioID(q) \/ IssueBioID(q) \/ DropAnswer(q)
Call(t) == LoginAnswered(t) \/ LoginFails(t) \/ RegisterAnswered(t) \/ RegisterFails(t)
Storage(t) == RestoreSession(t) \/ WriteAccess(t) \/ WriteRefresh(t) \/ DeleteAccess(t) \/ DeleteRefresh(t)
BioIDProvider == FetchBioID \/ BioIDFound \/ IssueInstead \/ BioIDIssued \/ IssueFails

Next ==
    \/ \E q \in Requests : Server(q) \/ CrashRequest(q) \/ \E u \in Users : IssueElsewhere(q, u)
    \/ \E t \in Tasks : Call(t) \/ Storage(t) \/ Logout(t) \/ Restart(t)
                        \/ \E u \in Users : Login(t, u)
    \/ BioIDProvider \/ Refresh

Spec == Init /\ [][Next]_vars

(* ------------------------------ properties ----------------------------- *)

Steps == {"none", "create", "check", "insert"} \cup Ended

TypeOK ==
    /\ account \subseteq Users /\ bioID \subseteq account
    /\ request \in [Requests -> [kind : {"none", "register", "issue"}, step : Steps,
                                 user : Users \cup {None}, by : Tasks \cup {"bio", None}]]
    /\ stored \in [access : Users \cup {None}, refresh : Users \cup {None}]
    /\ channel \in Seq(Tasks)
    /\ task \in [Tasks -> [kind : {"none", "restore", "login", "logout"},
                           step : {"none", "login", "register", "access", "refresh"},
                           user : Users \cup {None}]]
    /\ token \in Users \cup {None}
    /\ screen \in [auth : BOOLEAN, loading : BOOLEAN, email : Users \cup {None}]
    /\ bio \in {NoBio} \cup [step : {"get", "post", "data", "error"}, user : Users]
    /\ logins \in 0 .. MaxLogins /\ restarts \in 0 .. MaxRestarts
    /\ overlap \in BOOLEAN /\ trouble \in BOOLEAN

\* However restore, logins and logouts overlap, the app shows its inner screens
\* exactly while the client sends a token, and the email shown is the token's.
ScreenFollowsToken ==
    /\ screen.auth <=> token # None
    /\ screen.email # None => screen.email = token

\* Whenever no storage call is under way, a restart would bring back exactly
\* the session of the client, also after the app was killed between two writes.
StorageFollowsToken ==
    channel = <<>> => /\ stored.access = token
                      /\ restarts = 0 => stored.refresh = token

\* A registration that crashed after its first commit is repaired by the first
\* fetch of the BioID that nothing outside disturbs, even if the fetch itself
\* shows the error of a lost race.
FetchRepairs ==
    bio.step = "data" \/ (bio.step = "error" /\ ~trouble) => bio.user \in bioID

\* The BioID on screen is the one of the token's user, and so is every provider
\* account connected under its name: two users never share one.  A login tapped
\* while a restore or a logout is under way is the exception: isAuthenticated may
\* not flip when it ends, and nothing is fetched again.
BioIDIsOwn == screen.auth /\ ~overlap => bio = NoBio \/ bio.user = token

\* The login button is never left disabled: it waits only while some login is
\* under way, even when a logout or a second login comes before its end.
LoadingMeansLogin == screen.loading => \E t \in Tasks : task[t].kind = "login"
=============================================================================
