------------------------------ MODULE Sessions ------------------------------
(***************************************************************************)
(* Users, their tokens, the gates in front of the routes, and the cleanup  *)
(* of demo users: src/routes/auth.ts, src/middleware/auth.ts, the          *)
(* handshake of src/ws/server.ts, src/queue/cleanup.ts and                 *)
(* src/workers/cleanup.worker.ts.  Time is counted in the tops of hours a  *)
(* row or a token has seen, so that it need not be bounded.                *)
(***************************************************************************)
EXTENDS Registry, Integers, FiniteSets

CONSTANTS
    DemoUsers,   \* the users whose email starts with "demo+"
    AdminUsers,  \* the users that ask POST /auth/dev-token for role admin
    Replicas,    \* the server processes
    NODE_ENV,    \* "production" or another environment
    TokenLife,   \* DEMO_TOKEN_TTL, in hours
    UserLife,    \* DEMO_USER_TTL_MS, in hours
    SignDelay    \* bound: hours from the insert of a demo user to its token

ASSUME SessionsAssumption ==
    /\ DemoUsers \subseteq Users /\ AdminUsers \subseteq Users
    /\ TokenLife \in Nat \ {0} /\ UserLife \in Nat /\ SignDelay \in Nat
    /\ SignDelay + TokenLife < UserLife

VARIABLES
    users,     \* the rows of table User; an id is a cuid, never used twice
    gone,      \* history: the users that were deleted
    owners,    \* the users with rows in Notification
    age,       \* demo user -> hours since createdAt, up to UserLife + 1
    signing,   \* demo users inserted by a request that has not signed yet
    left,      \* demo user -> hours in which its demo token may be valid
    granted,   \* the users with a token of POST /auth/dev-token
    delayed,   \* the job schedulers whose next job waits for its hour
    due,       \* the job schedulers whose job waits for a worker
    ticking,   \* the replicas whose cleanup worker is running a job
    proven     \* history: socket -> the user of the token it presented, if
               \* that was valid when it shook hands, or None

userVars == <<users, gone, owners, age, signing>>
tokenVars == <<left, granted>>
cronVars == <<delayed, due, ticking>>
sessionVars == <<userVars, tokenVars, cronVars>>
socketVars == <<vars, proven>>
allVars == <<socketVars, sessionVars>>

SessionsTypeOK ==
    /\ TypeOK
    /\ users \subseteq Users /\ gone \subseteq DemoUsers /\ users \cap gone = {}
    /\ owners \subseteq users
    /\ age \in [DemoUsers -> 0 .. UserLife + 1]
    /\ signing \subseteq DemoUsers
    /\ left \in [DemoUsers -> 0 .. TokenLife + 1]
    /\ granted \subseteq Users
    /\ ticking \subseteq Replicas
    /\ proven \in [Sockets -> Users \cup {None}]

SessionsInit ==
    /\ Init
    /\ users = {} /\ gone = {} /\ owners = {} /\ signing = {} /\ granted = {}
    /\ age = [u \in DemoUsers |-> 0]
    /\ left = [u \in DemoUsers |-> 0]
    /\ delayed = {} /\ due = {} /\ ticking = {}
    /\ proven = [s \in Sockets |-> None]

-----------------------------------------------------------------------------
(***************************************************************************)
(* What a caller may present: nothing, or a token with these claims, valid *)
(* if the secret signed it and it has not expired.                         *)
(***************************************************************************)
Credentials ==
    {None} \cup [id : AdminUsers, role : {"admin"}]
           \cup [id : Users \ AdminUsers, role : {"none"}]
           \cup [id : DemoUsers, role : {"demo"}]

valid(c) ==
    /\ c # None
    /\ IF c.role = "demo" THEN left[c.id] > 0 ELSE c.id \in granted

(***************************************************************************)
(* The preHandlers: the status a hook replies with, or 0 to go on.  What   *)
(* request.user is depends on a hook before that verified the token.       *)
(***************************************************************************)
authenticate(c) == IF valid(c) THEN 0 ELSE 401

requireAdmin(c) ==
    IF ~valid(c) THEN 401 ELSE IF c.role # "admin" THEN 403 ELSE 0

blockDemoRole(user) == IF user # None /\ user.role = "demo" THEN 403 ELSE 0

limiterFirst ==  \* mutant: unauthenticated traffic consumes the budget
    [history |-> <<"authenticate">>,
     create  |-> <<"rateLimit", "authenticate">>,
     fanout  |-> <<"authenticate", "blockDemoRole">>,
     admin   |-> <<"requireAdmin">>]

preHandler ==
    [history |-> <<"authenticate">>,
     create  |-> <<"authenticate", "rateLimit">>,
     fanout  |-> <<"authenticate", "blockDemoRole">>,
     admin   |-> <<"requireAdmin">>]

(***************************************************************************)
(* A request of route r with credential c: the reply of the first hook     *)
(* that stops it, 0 if none does and the handler runs, and whether the     *)
(* rate limiter was asked (its own 429 is in module RateLimiter).          *)
(***************************************************************************)
gate(r, c) ==
    LET hooks == preHandler[r]
        user(i) == IF valid(c) /\ \E k \in 1 .. i - 1 : hooks[k] = "authenticate"
                   THEN c ELSE None
        reply(i) == CASE hooks[i] = "authenticate"  -> authenticate(c)
                      [] hooks[i] = "requireAdmin"  -> requireAdmin(c)
                      [] hooks[i] = "blockDemoRole" -> blockDemoRole(user(i))
                      [] hooks[i] = "rateLimit"     -> 0
        reached == {i \in DOMAIN hooks : \A k \in 1 .. i - 1 : reply(k) = 0}
        stopped == {i \in reached : reply(i) # 0}
    IN [status  |-> IF stopped = {} THEN 0 ELSE reply(CHOOSE i \in stopped : TRUE),
        limited |-> \E i \in reached : hooks[i] = "rateLimit"]

-----------------------------------------------------------------------------
(***************************************************************************)
(* POST /auth/dev-token: an upsert by email and a token without an expiry, *)
(* unless the process ends in between.  The email may be one of the        *)
(* cleanup's; that of a deleted user makes a user with another id.         *)
(***************************************************************************)
devToken(u) ==
    /\ NODE_ENV # "production"
    /\ u \notin gone
    /\ users' = users \cup {u}
    /\ granted' \in {granted, granted \cup {u}}
    /\ UNCHANGED <<socketVars, gone, owners, age, signing, left, cronVars>>

(***************************************************************************)
(* POST /auth/demo-token: the insert, then the token; the process may end  *)
(* in between.                                                             *)
(***************************************************************************)
createDemoUser(u) ==
    /\ u \in DemoUsers \ (users \cup gone)
    /\ users' = users \cup {u}
    /\ signing' = signing \cup {u}
    /\ UNCHANGED <<socketVars, gone, owners, age, tokenVars, cronVars>>

signDemoToken(u) ==
    /\ u \in signing
    /\ signing' = signing \ {u}
    /\ left' = [left EXCEPT ![u] = TokenLife + 1]
    /\ UNCHANGED <<socketVars, users, gone, owners, age, granted, cronVars>>

crashBeforeSigning(u) ==
    /\ u \in signing
    /\ signing' = signing \ {u}
    /\ UNCHANGED <<socketVars, users, gone, owners, age, tokenVars, cronVars>>

(***************************************************************************)
(* A notification for user v gets past a gate; its insert fails on the     *)
(* foreign key if v has no row.                                            *)
(***************************************************************************)
notify(c, v) ==
    /\ gate("create", c).status = 0 \/ gate("fanout", c).status = 0
    /\ v \in users
    /\ owners' = owners \cup {v}
    /\ UNCHANGED <<socketVars, users, gone, age, signing, tokenVars, cronVars>>

(***************************************************************************)
(* The handshake of a socket: auth.token if there is one, else ?token=.    *)
(***************************************************************************)
extractToken(auth, query) == IF auth # None THEN auth ELSE query

jwtDecode(token) == token # None  \* mutant: the claims are read, not checked

jwtVerify(token) == valid(token)

Proven(token) == IF valid(token) THEN token.id ELSE None

handshake(s) ==
    /\ \E auth, query \in Credentials :
         LET token == extractToken(auth, query) IN
         /\ \/ jwtVerify(token) /\ accept(s, token.id)
            \/ ~jwtVerify(token) /\ reject(s)
         /\ proven' = [proven EXCEPT ![s] = Proven(token)]
    /\ UNCHANGED sessionVars

-----------------------------------------------------------------------------
(***************************************************************************)
(* The job scheduler of the cleanup.  External, BullMQ: an upsert replaces *)
(* the job its scheduler has not handed out yet by one for the next hour,  *)
(* and handing out a job arms the next.                                    *)
(***************************************************************************)
upsertJobScheduler(i) ==
    /\ delayed' = delayed \cup {i}
    /\ due' = due \ {i}

idOfThisBoot(r) == r  \* mutant: the id is not stable

schedulerId(r) == "demo-cleanup"

scheduleCleanup(r) ==
    /\ upsertJobScheduler(schedulerId(r))
    /\ UNCHANGED <<socketVars, userVars, tokenVars, ticking>>

takeTick(r) ==
    /\ r \notin ticking
    /\ \E i \in due : due' = due \ {i} /\ delayed' = delayed \cup {i}
    /\ ticking' = ticking \cup {r}
    /\ UNCHANGED <<socketVars, userVars, tokenVars>>

anyDemoUser ==  \* mutant: the cutoff is now
    {{u \in users \cap DemoUsers : age[u] > 0}}

(***************************************************************************)
(* Whom the cutoff may select: a row that has seen one top of an hour more *)
(* than UserLife is older, one that has seen as many may be.               *)
(***************************************************************************)
expiredUsers ==
    {U \in SUBSET (users \cap DemoUsers) :
       \A u \in users \cap DemoUsers :
         (u \in U => age[u] >= UserLife) /\ (age[u] > UserLife => u \in U)}

DeleteUsers(U) ==
    /\ users' = users \ U
    /\ gone' = gone \cup U
    /\ owners' = owners \ U

restrictDelete(U) ==  \* mutant: onDelete: Restrict, so the statement fails
    IF U \cap owners = {} THEN DeleteUsers(U) ELSE UNCHANGED <<users, gone, owners>>

(***************************************************************************)
(* One deleteMany; the rows of Notification go by cascade.                 *)
(***************************************************************************)
deleteMany(U) == DeleteUsers(U)

runCleanup(r) ==
    /\ r \in ticking
    /\ \E U \in expiredUsers : deleteMany(U)
    /\ ticking' = ticking \ {r}
    /\ UNCHANGED <<socketVars, age, signing, tokenVars, delayed, due>>

(***************************************************************************)
(* A database error, or the end of the process: one attempt, no retry.     *)
(***************************************************************************)
tickFails(r) ==
    /\ r \in ticking
    /\ ticking' = ticking \ {r}
    /\ UNCHANGED <<socketVars, userVars, tokenVars, delayed, due>>

(***************************************************************************)
(* The top of an hour.  A token signed within an hour is valid until some  *)
(* time in the hour of its expiry.                                         *)
(***************************************************************************)
hour ==
    /\ \A u \in signing : age[u] < SignDelay
    /\ age' = [u \in DemoUsers |->
                 IF u \in users /\ age[u] <= UserLife THEN age[u] + 1 ELSE age[u]]
    /\ left' = [u \in DemoUsers |-> IF left[u] = 0 THEN 0 ELSE left[u] - 1]
    /\ due' = due \cup delayed
    /\ delayed' = {}
    /\ UNCHANGED <<socketVars, users, gone, owners, signing, granted, ticking>>

expire(u) ==
    /\ left[u] = 1
    /\ left' = [left EXCEPT ![u] = 0]
    /\ UNCHANGED <<socketVars, userVars, granted, cronVars>>

SessionsNext ==
    \/ \E s \in Sockets : handshake(s)
    \/ \E s \in Sockets : connection(s) /\ UNCHANGED <<proven, sessionVars>>
    \/ \E s \in Sockets : disconnect(s) /\ UNCHANGED <<proven, sessionVars>>
    \/ \E s \in Sockets : giveUp(s) /\ UNCHANGED <<proven, sessionVars>>
    \/ \E u \in Users : devToken(u)
    \/ \E u \in DemoUsers : createDemoUser(u) \/ signDemoToken(u)
                              \/ crashBeforeSigning(u) \/ expire(u)
    \/ \E c \in Credentials, v \in Users : notify(c, v)
    \/ \E r \in Replicas : scheduleCleanup(r) \/ takeTick(r)
                             \/ runCleanup(r) \/ tickFails(r)
    \/ hour

SessionsSpec == SessionsInit /\ [][SessionsNext]_allVars

(***************************************************************************)
(* Time passes, a request of POST /auth/demo-token ends, a due job is      *)
(* taken though boots may replace it again and again, and not every        *)
(* cleanup fails.                                                          *)
(***************************************************************************)
FairSessions ==
    /\ SessionsSpec
    /\ WF_allVars(hour)
    /\ \A u \in DemoUsers : WF_allVars(signDemoToken(u) \/ crashBeforeSigning(u))
    /\ SF_allVars(\E r \in Replicas : takeTick(r))
    /\ SF_allVars(\E r \in Replicas : runCleanup(r))

-----------------------------------------------------------------------------
(***************************************************************************)
(* "Bad/missing tokens are rejected before `connection` fires" (server.ts):*)
(* a socket that is in the room of a user, or under the user in either map *)
(* of the registry, presented a token of that user that was valid when it  *)
(* shook hands, whatever became of token and user since.                   *)
(***************************************************************************)
RoomsAreAuthenticated ==
    \A u \in Users, s \in Sockets :
      s \in room[u] \cup getSockets(u) \/ socketToUser[s] = u => proven[s] = u

(***************************************************************************)
(* "24h is well past the demo JWT's 1h expiry, so anything being deleted   *)
(* here is dead-session detritus" (cleanup.worker.ts): a deleted user has  *)
(* no demo token that is valid or about to be signed, also when the        *)
(* signing came late, a cleanup was missed or two ran at once.             *)
(***************************************************************************)
OnlyDeadSessionsDeleted ==
    \A u \in gone : u \notin signing /\ left[u] = 0

(***************************************************************************)
(* "replaces by id, so calling this on every boot is safe and won't pile   *)
(* up duplicates if multiple replicas race" (cleanup.ts): there is never   *)
(* more than one cleanup job to come.                                      *)
(***************************************************************************)
OneSchedule == Cardinality(delayed) + Cardinality(due) <= 1

(***************************************************************************)
(* Without a valid token every gate says 401 and no budget of the rate     *)
(* limiter is spent (notifications.ts); with one it never does, and a      *)
(* demo caller gets past neither fanout nor admin.                         *)
(***************************************************************************)
GatesHold ==
    \A r \in DOMAIN preHandler, c \in Credentials :
      LET answer == gate(r, c) IN
      IF ~valid(c) THEN answer.status = 401 /\ ~answer.limited
      ELSE /\ answer.status # 401
           /\ c.role = "demo" /\ r \in {"fanout", "admin"} => answer.status = 403

(***************************************************************************)
(* "the next hourly tick will pick up anything we miss" (cleanup.ts): once *)
(* the cleanup is scheduled every demo user goes, notifications and all,   *)
(* though ticks fail, replicas die in them and boots replace them.         *)
(***************************************************************************)
DemoUsersGo ==
    \A u \in DemoUsers :
      (u \in users /\ delayed \cup due # {}) ~> u \notin users

=============================================================================
