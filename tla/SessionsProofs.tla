--------------------------- MODULE SessionsProofs ---------------------------
(***************************************************************************)
(* Proofs about sockets and sessions, for any users, sockets and replicas  *)
(* and any lifetimes: the registry mirrors the rooms, Sessions implements  *)
(* Registry, and the cleanup deletes dead sessions only.                   *)
(***************************************************************************)
EXTENDS Sessions, FiniteSetTheorems, TLAPS

(***************************************************************************)
(* The inductive invariant.  That the maps mirror the rooms is not         *)
(* inductive without the fact that an open socket, and no other, is        *)
(* registered, and under the user of its token.                            *)
(***************************************************************************)
Registered ==
    \A s \in Sockets :
      /\ phase[s] \in {"verified", "open"} => claims[s] \in Users
      /\ socketToUser[s] = IF phase[s] = "open" THEN claims[s] ELSE None

RoomOf ==
    \A u \in Users, s \in Sockets :
      s \in room[u] <=> phase[s] = "open" /\ claims[s] = u

Mirror ==
    \A u \in Users :
      /\ u \in keys <=> room[u] # {}
      /\ u \in keys => userToSockets[u] = room[u]

RegistryInv == TypeOK /\ Registered /\ RoomOf /\ Mirror

(***************************************************************************)
(* What the registry answers under the invariant.                          *)
(***************************************************************************)
LEMMA GetSocketsIsRoom ==
    ASSUME RegistryInv, NEW u \in Users
    PROVE  getSockets(u) = room[u]
  BY DEF RegistryInv, Mirror, getSockets

LEMMA InitRegistry == Init => RegistryInv
  BY DEF Init, RegistryInv, TypeOK, Registered, RoomOf, Mirror

LEMMA VerifyStep ==
    ASSUME RegistryInv, NEW s \in Sockets, verify(s)
    PROVE  RegistryInv'
  BY DEF RegistryInv, TypeOK, Registered, RoomOf, Mirror, maps, verify, accept, reject

LEMMA GiveUpStep ==
    ASSUME RegistryInv, NEW s \in Sockets, giveUp(s)
    PROVE  RegistryInv'
  BY DEF RegistryInv, TypeOK, Registered, RoomOf, Mirror, maps, giveUp

LEMMA ConnectionStep ==
    ASSUME RegistryInv, NEW s \in Sockets, connection(s)
    PROVE  RegistryInv'
<1> DEFINE u == claims[s]
<1>1. u \in Users /\ phase[s] = "verified"
  BY DEF RegistryInv, Registered, connection
<1>2. getSockets(u) = room[u]
  BY <1>1, GetSocketsIsRoom
<1>3. /\ userToSockets' = [userToSockets EXCEPT ![u] = room[u] \cup {s}]
      /\ keys' = keys \cup {u}
      /\ socketToUser' = [socketToUser EXCEPT ![s] = u]
      /\ room' = [room EXCEPT ![u] = @ \cup {s}]
      /\ phase' = [phase EXCEPT ![s] = "open"]
      /\ claims' = claims
  BY <1>2 DEF connection, add
<1>4. TypeOK'
  BY <1>1, <1>3 DEF RegistryInv, TypeOK
<1>5. Registered' /\ RoomOf'
  BY <1>1, <1>3 DEF RegistryInv, TypeOK, Registered, RoomOf
<1>6. Mirror'
  BY <1>1, <1>3 DEF RegistryInv, TypeOK, Mirror
<1> QED
  BY <1>4, <1>5, <1>6 DEF RegistryInv

LEMMA DisconnectStep ==
    ASSUME RegistryInv, NEW s \in Sockets, disconnect(s)
    PROVE  RegistryInv'
<1> DEFINE u == claims[s]
<1>1. u \in Users /\ phase[s] = "open" /\ socketToUser[s] = u
  BY DEF RegistryInv, Registered, disconnect
<1>2. u # None
  BY <1>1, RegistryAssumption
<1>3. s \in room[u] /\ u \in keys /\ userToSockets[u] = room[u]
  BY <1>1 DEF RegistryInv, RoomOf, Mirror
<1>4. /\ userToSockets' = [userToSockets EXCEPT ![u] = room[u] \ {s}]
      /\ keys' = IF room[u] \ {s} = {} THEN keys \ {u} ELSE keys
      /\ socketToUser' = [socketToUser EXCEPT ![s] = None]
      /\ room' = [room EXCEPT ![u] = @ \ {s}]
      /\ phase' = [phase EXCEPT ![s] = "closed"]
      /\ claims' = claims
  BY <1>1, <1>2, <1>3 DEF disconnect, remove
<1>5. TypeOK'
  BY <1>1, <1>4 DEF RegistryInv, TypeOK
<1>6. Registered' /\ RoomOf'
  BY <1>1, <1>4 DEF RegistryInv, TypeOK, Registered, RoomOf
<1>7. Mirror'
  BY <1>1, <1>4 DEF RegistryInv, TypeOK, Mirror
<1> QED
  BY <1>5, <1>6, <1>7 DEF RegistryInv

(***************************************************************************)
(* The invariant holds in every reachable state.                           *)
(***************************************************************************)
THEOREM RegistryInvariant == Spec => []RegistryInv
<1>1. RegistryInv /\ [Next]_vars => RegistryInv'
  <2> SUFFICES ASSUME RegistryInv, [Next]_vars
               PROVE  RegistryInv'
    OBVIOUS
  <2>1. ASSUME NEW s \in Sockets, verify(s) PROVE RegistryInv'
    BY <2>1, VerifyStep
  <2>2. ASSUME NEW s \in Sockets, connection(s) PROVE RegistryInv'
    BY <2>2, ConnectionStep
  <2>3. ASSUME NEW s \in Sockets, disconnect(s) PROVE RegistryInv'
    BY <2>3, DisconnectStep
  <2>4. ASSUME NEW s \in Sockets, giveUp(s) PROVE RegistryInv'
    BY <2>4, GiveUpStep
  <2>5. CASE UNCHANGED vars
    BY <2>5 DEF vars, maps, RegistryInv, TypeOK, Registered, RoomOf, Mirror
  <2> QED
    BY <2>1, <2>2, <2>3, <2>4, <2>5 DEF Next
<1> QED
  BY <1>1, InitRegistry, PTL DEF Spec

(***************************************************************************)
(* The registry (src/ws/registry.ts) says of every user what the user's    *)
(* room says, and keeps no key for a user without sockets.                 *)
(***************************************************************************)
THEOREM RegistryIsMirror == Spec => []RegistryMirrorsRooms
<1>1. RegistryInv => RegistryMirrorsRooms
  <2> SUFFICES ASSUME RegistryInv, NEW u \in Users
               PROVE  /\ getSockets(u) = room[u]
                      /\ isOnline(u) <=> room[u] # {}
                      /\ u \in keys <=> room[u] # {}
    BY DEF RegistryMirrorsRooms
  <2>1. getSockets(u) = room[u]
    BY GetSocketsIsRoom
  <2>2. (isOnline(u) <=> room[u] # {}) /\ (u \in keys <=> room[u] # {})
    BY DEF RegistryInv, Mirror, isOnline
  <2> QED
    BY <2>1, <2>2
<1> QED
  BY <1>1, RegistryInvariant, PTL

(***************************************************************************)
(* The two maps of the registry are inverse to each other.                 *)
(***************************************************************************)
THEOREM RegistryMapsAgree == Spec => []MapsAgree
<1>1. RegistryInv => MapsAgree
  <2> SUFFICES ASSUME RegistryInv, NEW u \in Users, NEW s \in Sockets
               PROVE  s \in getSockets(u) <=> socketToUser[s] = u
    BY DEF MapsAgree
  <2>1. getSockets(u) = room[u]
    BY GetSocketsIsRoom
  <2> QED
    BY <2>1, RegistryAssumption DEF RegistryInv, Registered, RoomOf
<1> QED
  BY <1>1, RegistryInvariant, PTL

-----------------------------------------------------------------------------
(***************************************************************************)
(* Sessions implements Registry: a handshake that presents a token is a    *)
(* verify of Registry, and nothing else but the sockets' own steps touches *)
(* the sockets.                                                            *)
(***************************************************************************)
LEMMA ClaimsNameUsers ==
    ASSUME NEW c \in Credentials, c # None
    PROVE  c.id \in Users
  BY SessionsAssumption DEF Credentials

LEMMA HandshakeVerifies ==
    ASSUME NEW s \in Sockets, handshake(s)
    PROVE  /\ verify(s)
           /\ \E u \in Users \cup {None} :
                /\ proven' = [proven EXCEPT ![s] = u]
                /\ accept(s, u) \/ reject(s)
<1>1. PICK token \in Credentials :
        /\ \/ jwtVerify(token) /\ accept(s, token.id)
           \/ ~jwtVerify(token) /\ reject(s)
        /\ proven' = [proven EXCEPT ![s] = Proven(token)]
  BY DEF handshake, extractToken
<1>2. CASE valid(token)
  <2>1. token.id \in Users /\ Proven(token) = token.id
    BY <1>2, ClaimsNameUsers DEF valid, Proven
  <2>2. accept(s, token.id)
    BY <1>1, <1>2 DEF jwtVerify
  <2>3. verify(s)
    BY <2>1, <2>2 DEF verify
  <2> QED
    BY <1>1, <2>1, <2>2, <2>3
<1>3. CASE ~valid(token)
  <2>1. Proven(token) = None
    BY <1>3 DEF Proven
  <2>2. reject(s)
    BY <1>1, <1>3 DEF jwtVerify
  <2> QED
    BY <1>1, <2>1, <2>2 DEF verify
<1> QED
  BY <1>2, <1>3

LEMMA SessionsStepIsRegistryStep ==
    ASSUME [SessionsNext]_allVars
    PROVE  [Next]_vars
<1>1. ASSUME NEW s \in Sockets, handshake(s) PROVE Next
  BY <1>1, HandshakeVerifies DEF Next
<1>2. ASSUME NEW s \in Sockets, connection(s) \/ disconnect(s) \/ giveUp(s)
      PROVE Next
  BY <1>2 DEF Next
<1>3. ASSUME NEW u \in Users, devToken(u) PROVE  UNCHANGED socketVars
  BY <1>3 DEF devToken
<1>4. ASSUME NEW u \in DemoUsers,
             \/ createDemoUser(u) \/ signDemoToken(u)
             \/ crashBeforeSigning(u) \/ expire(u)
      PROVE  UNCHANGED socketVars
  BY <1>4 DEF createDemoUser, signDemoToken, crashBeforeSigning, expire
<1>5. ASSUME NEW c \in Credentials, NEW v \in Users, notify(c, v)
      PROVE  UNCHANGED socketVars
  BY <1>5 DEF notify
<1>6. ASSUME NEW r \in Replicas,
             scheduleCleanup(r) \/ takeTick(r) \/ runCleanup(r) \/ tickFails(r)
      PROVE  UNCHANGED socketVars
  BY <1>6 DEF scheduleCleanup, takeTick, runCleanup, tickFails
<1>7. ASSUME hour PROVE  UNCHANGED socketVars
  BY <1>7 DEF hour
<1>8. ASSUME UNCHANGED allVars PROVE  UNCHANGED socketVars
  BY <1>8 DEF allVars
<1> QED
  BY <1>1, <1>2, <1>3, <1>4, <1>5, <1>6, <1>7, <1>8 DEF SessionsNext, socketVars

(***************************************************************************)
(* The tokens and the gates of src/ws/server.ts, with users that come and  *)
(* go, implement the registry's specification, where any handshake may     *)
(* succeed.                                                                *)
(***************************************************************************)
THEOREM SessionsImplementRegistry == SessionsSpec => Spec
<1>1. SessionsInit => Init
  BY DEF SessionsInit
<1>2. [SessionsNext]_allVars => [Next]_vars
  BY SessionsStepIsRegistryStep
<1> QED
  BY <1>1, <1>2, PTL DEF SessionsSpec, Spec

(***************************************************************************)
(* With the handshake checking the tokens of the routes the maps are still *)
(* inverse to each other.                                                  *)
(***************************************************************************)
THEOREM SessionsMapsAgree == SessionsSpec => []MapsAgree
  BY SessionsImplementRegistry, RegistryMapsAgree, PTL

(***************************************************************************)
(* With the handshake checking the tokens of the routes the registry still *)
(* says what the rooms say.                                                *)
(***************************************************************************)
THEOREM SessionsRegistryIsMirror == SessionsSpec => []RegistryMirrorsRooms
  BY SessionsImplementRegistry, RegistryIsMirror, PTL

(***************************************************************************)
(* The claims of a socket that got past the handshake are those of the     *)
(* valid token it presented: nothing rewrites them, and no token is asked  *)
(* for again.                                                              *)
(***************************************************************************)
Authentic ==
    /\ proven \in [Sockets -> Users \cup {None}]
    /\ \A s \in Sockets : phase[s] \in {"verified", "open"} => claims[s] = proven[s]

LEMMA AuthenticStep ==
    ASSUME RegistryInv, Authentic, [SessionsNext]_allVars
    PROVE  Authentic'
<1> USE DEF Authentic, RegistryInv, TypeOK
<1>1. ASSUME NEW s \in Sockets, handshake(s)
      PROVE  Authentic'
  <2>1. PICK u \in Users \cup {None} :
          /\ proven' = [proven EXCEPT ![s] = u]
          /\ accept(s, u) \/ reject(s)
    BY <1>1, HandshakeVerifies
  <2> QED BY <2>1 DEF accept, reject
<1>2. ASSUME NEW s \in Sockets, UNCHANGED proven,
             connection(s) \/ disconnect(s) \/ giveUp(s)
      PROVE  Authentic'
  BY <1>2 DEF connection, disconnect, giveUp
<1>3. ASSUME UNCHANGED socketVars
      PROVE  Authentic'
  BY <1>3 DEF socketVars, vars
<1>4. ASSUME NEW u \in Users, devToken(u) PROVE UNCHANGED socketVars
  BY <1>4 DEF devToken
<1>5. ASSUME NEW u \in DemoUsers,
             \/ createDemoUser(u) \/ signDemoToken(u)
             \/ crashBeforeSigning(u) \/ expire(u)
      PROVE  UNCHANGED socketVars
  BY <1>5 DEF createDemoUser, signDemoToken, crashBeforeSigning, expire
<1>6. ASSUME NEW c \in Credentials, NEW v \in Users, notify(c, v)
      PROVE  UNCHANGED socketVars
  BY <1>6 DEF notify
<1>7. ASSUME NEW r \in Replicas,
             scheduleCleanup(r) \/ takeTick(r) \/ runCleanup(r) \/ tickFails(r)
      PROVE  UNCHANGED socketVars
  BY <1>7 DEF scheduleCleanup, takeTick, runCleanup, tickFails
<1>8. ASSUME hour \/ UNCHANGED allVars PROVE UNCHANGED socketVars
  BY <1>8 DEF hour, allVars
<1> QED
  BY <1>1, <1>2, <1>3, <1>4, <1>5, <1>6, <1>7, <1>8 DEF SessionsNext

LEMMA AuthenticInvariant == SessionsSpec => [](RegistryInv /\ Authentic)
<1>1. SessionsInit => Authentic
  BY DEF SessionsInit, Init, Authentic
<1>2. RegistryInv /\ Authentic /\ [SessionsNext]_allVars => Authentic'
  BY AuthenticStep
<1>3. SessionsSpec => []RegistryInv
  BY SessionsImplementRegistry, RegistryInvariant, PTL
<1> QED
  BY <1>1, <1>2, <1>3, PTL DEF SessionsSpec

(***************************************************************************)
(* A socket in a user's room or in the registry under a user has presented *)
(* a token of that user that was valid at its handshake, also when token   *)
(* and user are gone since: a token the secret did not sign, or one that   *)
(* had expired, leads to no room.                                          *)
(***************************************************************************)
THEOREM SessionsRoomsAuthenticated == SessionsSpec => []RoomsAreAuthenticated
<1>1. ASSUME RegistryInv, Authentic PROVE RoomsAreAuthenticated
  <2> SUFFICES ASSUME NEW u \in Users, NEW s \in Sockets,
                      s \in room[u] \cup getSockets(u) \/ socketToUser[s] = u
               PROVE  proven[s] = u
    BY DEF RoomsAreAuthenticated
  <2>1. getSockets(u) = room[u]
    BY <1>1, GetSocketsIsRoom
  <2>2. phase[s] = "open" /\ claims[s] = u
    BY <1>1, <2>1, RegistryAssumption DEF RegistryInv, Registered, RoomOf
  <2> QED BY <1>1, <2>2 DEF Authentic
<1> QED BY <1>1, AuthenticInvariant, PTL

-----------------------------------------------------------------------------
(***************************************************************************)
(* Type correctness.  Of the registry's variables it is the registry's     *)
(* invariant that says it.                                                 *)
(***************************************************************************)
SessionTypes ==
    /\ users \subseteq Users /\ gone \subseteq DemoUsers /\ users \cap gone = {}
    /\ owners \subseteq users
    /\ age \in [DemoUsers -> 0 .. UserLife + 1]
    /\ signing \subseteq DemoUsers
    /\ left \in [DemoUsers -> 0 .. TokenLife + 1]
    /\ granted \subseteq Users
    /\ ticking \subseteq Replicas

LEMMA InitSessionTypes == SessionsInit => SessionTypes
  BY SessionsAssumption DEF SessionsInit, SessionTypes

LEMMA UserStepTypes ==
    ASSUME SessionTypes,
           \/ \E u \in Users : devToken(u)
           \/ \E u \in DemoUsers : createDemoUser(u) \/ signDemoToken(u)
                                     \/ crashBeforeSigning(u) \/ expire(u)
           \/ \E c \in Credentials, v \in Users : notify(c, v)
    PROVE  SessionTypes'
<1>1. ASSUME NEW u \in Users, devToken(u) PROVE SessionTypes'
  BY <1>1 DEF SessionTypes, devToken, cronVars
<1>2. ASSUME NEW u \in DemoUsers, createDemoUser(u) PROVE SessionTypes'
  BY <1>2, SessionsAssumption DEF SessionTypes, createDemoUser, tokenVars, cronVars
<1>3. ASSUME NEW u \in DemoUsers, signDemoToken(u) PROVE SessionTypes'
  BY <1>3, SessionsAssumption DEF SessionTypes, signDemoToken, cronVars
<1>4. ASSUME NEW u \in DemoUsers, crashBeforeSigning(u) PROVE SessionTypes'
  BY <1>4 DEF SessionTypes, crashBeforeSigning, tokenVars, cronVars
<1>5. ASSUME NEW u \in DemoUsers, expire(u) PROVE SessionTypes'
  BY <1>5, SessionsAssumption DEF SessionTypes, expire, userVars, cronVars
<1>6. ASSUME NEW c \in Credentials, NEW v \in Users, notify(c, v)
      PROVE  SessionTypes'
  BY <1>6 DEF SessionTypes, notify, tokenVars, cronVars
<1> QED
  BY <1>1, <1>2, <1>3, <1>4, <1>5, <1>6

LEMMA CleanupStepTypes ==
    ASSUME SessionTypes,
           \E r \in Replicas : scheduleCleanup(r) \/ takeTick(r)
                                 \/ runCleanup(r) \/ tickFails(r)
    PROVE  SessionTypes'
<1>1. ASSUME NEW r \in Replicas, scheduleCleanup(r) PROVE SessionTypes'
  BY <1>1 DEF SessionTypes, scheduleCleanup, userVars, tokenVars
<1>2. ASSUME NEW r \in Replicas, takeTick(r) PROVE SessionTypes'
  BY <1>2 DEF SessionTypes, takeTick, userVars, tokenVars
<1>3. ASSUME NEW r \in Replicas, runCleanup(r) PROVE SessionTypes'
  BY <1>3 DEF SessionTypes, runCleanup, deleteMany, DeleteUsers, expiredUsers, tokenVars
<1>4. ASSUME NEW r \in Replicas, tickFails(r) PROVE SessionTypes'
  BY <1>4 DEF SessionTypes, tickFails, userVars, tokenVars
<1> QED
  BY <1>1, <1>2, <1>3, <1>4

LEMMA HourTypes ==
    ASSUME SessionTypes, hour
    PROVE  SessionTypes'
<1>1. age' \in [DemoUsers -> 0 .. UserLife + 1]
  BY SessionsAssumption DEF SessionTypes, hour
<1>2. left' \in [DemoUsers -> 0 .. TokenLife + 1]
  BY SessionsAssumption DEF SessionTypes, hour
<1> QED
  BY <1>1, <1>2 DEF SessionTypes, hour

LEMMA IdleTypes ==
    ASSUME SessionTypes, UNCHANGED sessionVars
    PROVE  SessionTypes'
  BY DEF SessionTypes, sessionVars, userVars, tokenVars, cronVars

LEMMA SessionTypesStep ==
    ASSUME SessionTypes, [SessionsNext]_allVars
    PROVE  SessionTypes'
<1>1. ASSUME NEW s \in Sockets,
             \/ handshake(s)
             \/ (connection(s) \/ disconnect(s) \/ giveUp(s)) /\ UNCHANGED sessionVars
      PROVE  UNCHANGED sessionVars
  BY <1>1 DEF handshake
<1>2. ASSUME UNCHANGED allVars PROVE UNCHANGED sessionVars
  BY <1>2 DEF allVars
<1> QED
  BY <1>1, <1>2, UserStepTypes, CleanupStepTypes, HourTypes, IdleTypes DEF SessionsNext

LEMMA SessionTypesInvariant == SessionsSpec => []SessionTypes
<1>1. SessionTypes /\ [SessionsNext]_allVars => SessionTypes'
  BY SessionTypesStep
<1> QED
  BY <1>1, InitSessionTypes, PTL DEF SessionsSpec

(***************************************************************************)
(* Every variable keeps its type; in particular no id of a deleted user    *)
(* comes back, and only users that exist have notifications.               *)
(***************************************************************************)
THEOREM SessionsTypes == SessionsSpec => []SessionsTypeOK
<1>1. RegistryInv /\ Authentic /\ SessionTypes => SessionsTypeOK
  BY DEF RegistryInv, Authentic, SessionTypes, SessionsTypeOK
<1> QED
  BY <1>1, AuthenticInvariant, SessionTypesInvariant, PTL

-----------------------------------------------------------------------------
(***************************************************************************)
(* The one scheduler id of queue/cleanup.ts: its job waits for its hour or *)
(* for a worker, not for both.                                             *)
(***************************************************************************)
ScheduleInv ==
    /\ delayed \cup due \subseteq {"demo-cleanup"}
    /\ delayed \cap due = {}

LEMMA ScheduleStep ==
    ASSUME ScheduleInv, [SessionsNext]_allVars
    PROVE  ScheduleInv'
<1>1. ASSUME NEW r \in Replicas, scheduleCleanup(r) PROVE ScheduleInv'
  BY <1>1 DEF ScheduleInv, scheduleCleanup, upsertJobScheduler, schedulerId
<1>2. ASSUME NEW r \in Replicas, takeTick(r) PROVE ScheduleInv'
  BY <1>2 DEF ScheduleInv, takeTick
<1>3. ASSUME hour PROVE ScheduleInv'
  BY <1>3 DEF ScheduleInv, hour
<1>4. ASSUME NEW r \in Replicas, runCleanup(r) \/ tickFails(r)
      PROVE  UNCHANGED <<delayed, due>>
  BY <1>4 DEF runCleanup, tickFails
<1>5. ASSUME NEW u \in Users, devToken(u) PROVE UNCHANGED <<delayed, due>>
  BY <1>5 DEF devToken, cronVars
<1>6. ASSUME NEW u \in DemoUsers,
             \/ createDemoUser(u) \/ signDemoToken(u)
             \/ crashBeforeSigning(u) \/ expire(u)
      PROVE  UNCHANGED <<delayed, due>>
  BY <1>6 DEF createDemoUser, signDemoToken, crashBeforeSigning, expire, cronVars
<1>7. ASSUME NEW c \in Credentials, NEW v \in Users, notify(c, v)
      PROVE  UNCHANGED <<delayed, due>>
  BY <1>7 DEF notify, cronVars
<1>8. ASSUME NEW s \in Sockets, handshake(s) PROVE UNCHANGED <<delayed, due>>
  BY <1>8 DEF handshake, sessionVars, cronVars
<1>9. ASSUME UNCHANGED sessionVars \/ UNCHANGED allVars
      PROVE  UNCHANGED <<delayed, due>>
  BY <1>9 DEF allVars, sessionVars, cronVars
<1>10. ASSUME UNCHANGED <<delayed, due>> PROVE ScheduleInv'
  BY <1>10 DEF ScheduleInv
<1> QED
  BY <1>1, <1>2, <1>3, <1>4, <1>5, <1>6, <1>7, <1>8, <1>9, <1>10 DEF SessionsNext

(***************************************************************************)
(* However many replicas boot, and whenever they do, there is at most one  *)
(* cleanup job to come.                                                    *)
(***************************************************************************)
THEOREM OneCleanupToCome == SessionsSpec => []OneSchedule
<1>1. SessionsInit => ScheduleInv
  BY DEF SessionsInit, ScheduleInv
<1>2. ScheduleInv /\ [SessionsNext]_allVars => ScheduleInv'
  BY ScheduleStep
<1>3. ScheduleInv => OneSchedule
  <2> SUFFICES ASSUME ScheduleInv PROVE OneSchedule
    OBVIOUS
  <2>1. Cardinality({}) = 0 /\ Cardinality({"demo-cleanup"}) = 1
    BY FS_EmptySet, FS_Singleton
  <2>2. \/ delayed = {} /\ due = {}
        \/ delayed = {"demo-cleanup"} /\ due = {}
        \/ delayed = {} /\ due = {"demo-cleanup"}
    BY DEF ScheduleInv
  <2> QED
    BY <2>1, <2>2 DEF OneSchedule
<1> QED
  BY <1>1, <1>2, <1>3, PTL DEF SessionsSpec

-----------------------------------------------------------------------------
(***************************************************************************)
(* Why the cutoff of 24 hours is long enough for a token of one hour: a    *)
(* request that has yet to sign is young, and as long as a demo user       *)
(* exists its age and the time left to its token add up to no more than    *)
(* the delay of the signing and the token's whole life.                    *)
(***************************************************************************)
TokensDieFirst ==
    \A u \in DemoUsers :
      /\ u \in signing => u \in users /\ age[u] <= SignDelay
      /\ (u \in users /\ left[u] > 0) => left[u] + age[u] <= SignDelay + TokenLife + 1
      /\ u \notin users => left[u] = 0
      /\ u \notin users \cup gone => age[u] = 0

LEMMA InitTokens == SessionsInit => TokensDieFirst
  BY DEF SessionsInit, TokensDieFirst

LEMMA NewUserTokens ==
    ASSUME SessionTypes, TokensDieFirst,
           NEW u \in Users, devToken(u) \/ (u \in DemoUsers /\ createDemoUser(u))
    PROVE  TokensDieFirst'
<1>1. /\ u \notin gone /\ gone' = gone
      /\ users' = users \cup {u}
      /\ signing' = signing \/ (u \notin users /\ signing' = signing \cup {u})
      /\ age' = age /\ left' = left
  BY DEF devToken, createDemoUser, tokenVars
<1>2. u \in DemoUsers \ users => age[u] = 0 /\ left[u] = 0
  BY <1>1 DEF TokensDieFirst
<1> QED
  BY <1>1, <1>2, SessionsAssumption DEF TokensDieFirst, SessionTypes

LEMMA SignTokens ==
    ASSUME SessionTypes, TokensDieFirst, NEW u \in DemoUsers,
           signDemoToken(u) \/ crashBeforeSigning(u) \/ expire(u)
    PROVE  TokensDieFirst'
<1>1. CASE signDemoToken(u)
  <2>1. u \in users /\ age[u] \in Nat /\ age[u] <= SignDelay
    BY <1>1 DEF signDemoToken, TokensDieFirst, SessionTypes
  <2> QED
    BY <1>1, <2>1, SessionsAssumption DEF signDemoToken, TokensDieFirst, SessionTypes
<1>2. CASE crashBeforeSigning(u)
  BY <1>2 DEF crashBeforeSigning, tokenVars, TokensDieFirst
<1>3. CASE expire(u)
  BY <1>3 DEF expire, userVars, TokensDieFirst, SessionTypes
<1> QED
  BY <1>1, <1>2, <1>3

(***************************************************************************)
(* The cutoff: who is deleted has no token left, and none is under way.    *)
(***************************************************************************)
LEMMA CleanupTokens ==
    ASSUME SessionTypes, TokensDieFirst, NEW r \in Replicas, runCleanup(r)
    PROVE  TokensDieFirst'
<1>1. PICK U \in expiredUsers :
        /\ users' = users \ U /\ gone' = gone \cup U
        /\ UNCHANGED <<age, signing, left>>
  BY DEF runCleanup, deleteMany, DeleteUsers, tokenVars
<1>2. ASSUME NEW u \in U
      PROVE  u \notin signing /\ left[u] = 0
  <2>1. u \in DemoUsers /\ u \in users /\ age[u] >= UserLife
    BY DEF expiredUsers
  <2>2. age[u] \in Nat /\ left[u] \in Nat
    BY <2>1 DEF SessionTypes
  <2>3. u \notin signing
    BY <2>1, <2>2, SessionsAssumption DEF TokensDieFirst
  <2>4. ~ (left[u] > 0)
    BY <2>1, <2>2, SessionsAssumption DEF TokensDieFirst
  <2> QED
    BY <2>2, <2>3, <2>4
<1> QED
  BY <1>1, <1>2 DEF TokensDieFirst

LEMMA HourTokens ==
    ASSUME SessionTypes, TokensDieFirst, hour
    PROVE  TokensDieFirst'
<1> SUFFICES ASSUME NEW u \in DemoUsers
             PROVE  /\ u \in signing' => u \in users' /\ age'[u] <= SignDelay
                    /\ (u \in users' /\ left'[u] > 0) =>
                         left'[u] + age'[u] <= SignDelay + TokenLife + 1
                    /\ u \notin users' => left'[u] = 0
                    /\ u \notin users' \cup gone' => age'[u] = 0
  BY DEF TokensDieFirst
<1>1. /\ users' = users /\ gone' = gone /\ signing' = signing
      /\ u \in signing => age[u] < SignDelay
      /\ age'[u] = IF u \in users /\ age[u] <= UserLife THEN age[u] + 1 ELSE age[u]
      /\ left'[u] = IF left[u] = 0 THEN 0 ELSE left[u] - 1
  BY DEF hour
<1>2. age[u] \in Nat /\ left[u] \in Nat
  BY DEF SessionTypes
<1>3. /\ u \in signing => u \in users /\ age[u] <= SignDelay
      /\ (u \in users /\ left[u] > 0) => left[u] + age[u] <= SignDelay + TokenLife + 1
      /\ u \notin users => left[u] = 0
      /\ u \notin users \cup gone => age[u] = 0
  BY DEF TokensDieFirst
<1> QED
  BY <1>1, <1>2, <1>3, SessionsAssumption

LEMMA TokensStep ==
    ASSUME SessionTypes, TokensDieFirst, [SessionsNext]_allVars
    PROVE  TokensDieFirst'
<1>1. ASSUME NEW s \in Sockets, handshake(s)
      PROVE  UNCHANGED sessionVars
  BY <1>1 DEF handshake
<1>2. ASSUME NEW r \in Replicas, scheduleCleanup(r) \/ takeTick(r) \/ tickFails(r)
      PROVE  UNCHANGED <<users, gone, age, signing, left>>
  BY <1>2 DEF scheduleCleanup, takeTick, tickFails, userVars, tokenVars
<1>3. ASSUME NEW c \in Credentials, NEW v \in Users, notify(c, v)
      PROVE  UNCHANGED <<users, gone, age, signing, left>>
  BY <1>3 DEF notify, tokenVars
<1>4. ASSUME UNCHANGED sessionVars \/ UNCHANGED allVars
      PROVE  UNCHANGED <<users, gone, age, signing, left>>
  BY <1>4 DEF allVars, sessionVars, userVars, tokenVars
<1>5. ASSUME UNCHANGED <<users, gone, age, signing, left>> PROVE TokensDieFirst'
  BY <1>5 DEF TokensDieFirst
<1>6. DemoUsers \subseteq Users
  BY SessionsAssumption
<1> QED
  BY <1>1, <1>2, <1>3, <1>4, <1>5, <1>6, NewUserTokens, SignTokens, CleanupTokens,
     HourTokens DEF SessionsNext

(***************************************************************************)
(* Whatever the lifetimes, as long as a demo user's exceeds its token's by *)
(* the delay of the signing, the cleanup deletes dead sessions only.       *)
(***************************************************************************)
THEOREM CleanupSparesSessions == SessionsSpec => []OnlyDeadSessionsDeleted
<1>1. (SessionTypes /\ TokensDieFirst) /\ [SessionsNext]_allVars => TokensDieFirst'
  BY TokensStep
<1>2. SessionTypes /\ TokensDieFirst => OnlyDeadSessionsDeleted
  BY DEF SessionTypes, TokensDieFirst, OnlyDeadSessionsDeleted
<1> QED
  BY <1>1, <1>2, InitTokens, SessionTypesInvariant, PTL DEF SessionsSpec

-----------------------------------------------------------------------------
(***************************************************************************)
(* The gates, from here on: what a request meets on a route with one hook, *)
(* and on a route with a hook behind authenticate.                         *)
(***************************************************************************)
LEMMA GateOfOneHook ==
    ASSUME NEW c, NEW r, NEW h \in {"authenticate", "requireAdmin"},
           preHandler[r] = <<h>>
    PROVE  /\ gate(r, c).status =
                IF h = "authenticate" THEN authenticate(c) ELSE requireAdmin(c)
           /\ ~gate(r, c).limited
<1> DEFINE hooks == preHandler[r]
           user(i) == IF valid(c) /\ \E k \in 1 .. i - 1 : hooks[k] = "authenticate"
                      THEN c ELSE None
           reply(i) == CASE hooks[i] = "authenticate"  -> authenticate(c)
                         [] hooks[i] = "requireAdmin"  -> requireAdmin(c)
                         [] hooks[i] = "blockDemoRole" -> blockDemoRole(user(i))
                         [] hooks[i] = "rateLimit"     -> 0
           reached == {i \in DOMAIN hooks : \A k \in 1 .. i - 1 : reply(k) = 0}
           stopped == {i \in reached : reply(i) # 0}
           answer == IF h = "authenticate" THEN authenticate(c) ELSE requireAdmin(c)
<1>1. /\ gate(r, c).status = IF stopped = {} THEN 0 ELSE reply(CHOOSE i \in stopped : TRUE)
      /\ gate(r, c).limited = \E i \in reached : hooks[i] = "rateLimit"
  BY DEF gate
<1>2. DOMAIN hooks = {1} /\ hooks[1] = h
  OBVIOUS
<1>3. reply(1) = answer
  BY <1>2
<1> HIDE DEF hooks, reply, answer
<1>4. reached = {1}
  BY <1>2
<1>5. CASE answer = 0
  <2>1. stopped = {}
    BY <1>3, <1>4, <1>5
  <2> QED BY <1>1, <1>2, <1>4, <1>5, <2>1 DEF answer
<1>6. CASE answer # 0
  <2>1. stopped = {1}
    BY <1>3, <1>4, <1>6
  <2>2. (CHOOSE i \in stopped : TRUE) = 1
    BY <2>1
  <2> QED BY <1>1, <1>2, <1>3, <1>4, <2>1, <2>2 DEF answer
<1> QED BY <1>5, <1>6

LEMMA GateOfTwoHooks ==
    ASSUME NEW c, NEW r, NEW h \in {"rateLimit", "blockDemoRole"},
           preHandler[r] = <<"authenticate", h>>
    PROVE  /\ gate(r, c).status =
                IF ~valid(c) THEN 401
                ELSE IF h = "blockDemoRole" THEN blockDemoRole(c) ELSE 0
           /\ gate(r, c).limited => valid(c)
<1> DEFINE hooks == preHandler[r]
           user(i) == IF valid(c) /\ \E k \in 1 .. i - 1 : hooks[k] = "authenticate"
                      THEN c ELSE None
           reply(i) == CASE hooks[i] = "authenticate"  -> authenticate(c)
                         [] hooks[i] = "requireAdmin"  -> requireAdmin(c)
                         [] hooks[i] = "blockDemoRole" -> blockDemoRole(user(i))
                         [] hooks[i] = "rateLimit"     -> 0
           reached == {i \in DOMAIN hooks : \A k \in 1 .. i - 1 : reply(k) = 0}
           stopped == {i \in reached : reply(i) # 0}
           second == IF h = "blockDemoRole" THEN blockDemoRole(c) ELSE 0
<1>1. /\ gate(r, c).status = IF stopped = {} THEN 0 ELSE reply(CHOOSE i \in stopped : TRUE)
      /\ gate(r, c).limited = \E i \in reached : hooks[i] = "rateLimit"
  BY DEF gate
<1>2. DOMAIN hooks = {1, 2} /\ hooks[1] = "authenticate" /\ hooks[2] = h
  OBVIOUS
<1>3. reply(1) = authenticate(c)
  BY <1>2
<1>4. valid(c) => reply(2) = second
  <2>1. valid(c) => user(2) = c
    BY <1>2
  <2>2. h = "rateLimit" => reply(2) = 0
    BY <1>2
  <2>3. h = "blockDemoRole" => reply(2) = blockDemoRole(user(2))
    BY <1>2
  <2> HIDE DEF hooks, user, reply
  <2> QED BY <2>1, <2>2, <2>3
<1> HIDE DEF hooks, reply, second
<1>5. CASE ~valid(c)
  <2>1. reply(1) = 401
    BY <1>3, <1>5 DEF authenticate
  <2>2. reached = {1}
    BY <1>2, <2>1
  <2>3. stopped = {1}
    BY <2>1, <2>2
  <2>4. (CHOOSE i \in stopped : TRUE) = 1
    BY <2>3
  <2> QED BY <1>1, <1>2, <1>5, <2>1, <2>2, <2>3, <2>4
<1>6. CASE valid(c)
  <2>1. reply(1) = 0 /\ reply(2) = second
    BY <1>3, <1>4, <1>6 DEF authenticate
  <2>2. reached = {1, 2}
    BY <1>2, <2>1
  <2>3. CASE second = 0
    <3>1. stopped = {}
      BY <2>1, <2>2, <2>3
    <3> QED BY <1>1, <1>6, <2>3, <3>1 DEF second
  <2>4. CASE second # 0
    <3>1. stopped = {2}
      BY <2>1, <2>2, <2>4
    <3>2. (CHOOSE i \in stopped : TRUE) = 2
      BY <3>1
    <3> QED BY <1>1, <1>6, <2>1, <3>1, <3>2 DEF second
  <2> QED BY <2>3, <2>4
<1> QED BY <1>5, <1>6

(***************************************************************************)
(* No valid token, no way in and no budget spent; a demo caller is kept    *)
(* from fanout and admin.  What the gates say depends on nothing but the   *)
(* caller's token, so this holds in every state.                           *)
(***************************************************************************)
THEOREM EveryGateHolds == SessionsSpec => []GatesHold
<1>1. GatesHold
  <2>1. SUFFICES ASSUME NEW r \in DOMAIN preHandler, NEW c \in Credentials
                 PROVE  IF ~valid(c) THEN gate(r, c).status = 401 /\ ~gate(r, c).limited
                        ELSE /\ gate(r, c).status # 401
                             /\ c.role = "demo" /\ r \in {"fanout", "admin"}
                                  => gate(r, c).status = 403
    BY DEF GatesHold
  <2>2. r \in {"history", "create", "fanout", "admin"}
    BY DEF preHandler
  <2>3. valid(c) => c # None
    BY DEF valid
  <2>4. CASE r = "history"
    <3>1. preHandler[r] = <<"authenticate">>
      BY <2>4 DEF preHandler
    <3>2. gate(r, c).status = authenticate(c) /\ ~gate(r, c).limited
      BY <3>1, GateOfOneHook
    <3> QED BY <2>4, <3>2 DEF authenticate
  <2>5. CASE r = "create"
    <3>1. preHandler[r] = <<"authenticate", "rateLimit">>
      BY <2>5 DEF preHandler
    <3>2. /\ gate(r, c).status = IF ~valid(c) THEN 401 ELSE 0
          /\ gate(r, c).limited => valid(c)
      BY <3>1, GateOfTwoHooks
    <3> QED BY <2>5, <3>2
  <2>6. CASE r = "fanout"
    <3>1. preHandler[r] = <<"authenticate", "blockDemoRole">>
      BY <2>6 DEF preHandler
    <3>2. /\ gate(r, c).status = IF ~valid(c) THEN 401 ELSE blockDemoRole(c)
          /\ gate(r, c).limited => valid(c)
      BY <3>1, GateOfTwoHooks
    <3> QED BY <2>3, <2>6, <3>2 DEF blockDemoRole
  <2>7. CASE r = "admin"
    <3>1. preHandler[r] = <<"requireAdmin">>
      BY <2>7 DEF preHandler
    <3>2. gate(r, c).status = requireAdmin(c) /\ ~gate(r, c).limited
      BY <3>1, GateOfOneHook
    <3> QED BY <2>7, <3>2 DEF requireAdmin
  <2> QED BY <2>2, <2>4, <2>5, <2>6, <2>7
<1> QED BY <1>1, PTL

=============================================================================
