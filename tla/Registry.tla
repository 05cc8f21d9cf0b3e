------------------------------ MODULE Registry ------------------------------
(***************************************************************************)
(* The sockets of one server process: the handshake and the connection     *)
(* handlers of src/ws/server.ts, and the two maps of src/ws/registry.ts    *)
(* that mirror them for diagnostics.  Delivery asks the rooms, not the     *)
(* maps; the maps are right as long as they say what the rooms say.        *)
(***************************************************************************)
CONSTANTS
    Users,     \* the users
    Sockets,   \* the socket ids; Socket.io never uses one twice
    None       \* no user: a missing key of a map, a token that is not valid

ASSUME RegistryAssumption == None \notin Users

VARIABLES
    keys,           \* the keys of the map userToSockets
    userToSockets,  \* user -> its set of socket ids, if it has a key
    socketToUser,   \* socket id -> its user, or None
    claims,         \* socket -> the user its verified token names, or None
    phase,          \* socket -> "new", "verified", "open" or "closed"
    room            \* user -> the sockets in room user:<id>

maps == <<keys, userToSockets, socketToUser>>
vars == <<maps, claims, phase, room>>

TypeOK ==
    /\ keys \subseteq Users
    /\ userToSockets \in [Users -> SUBSET Sockets]
    /\ socketToUser \in [Sockets -> Users \cup {None}]
    /\ claims \in [Sockets -> Users \cup {None}]
    /\ phase \in [Sockets -> {"new", "verified", "open", "closed"}]
    /\ room \in [Users -> SUBSET Sockets]

Init ==
    /\ keys = {}
    /\ userToSockets = [u \in Users |-> {}]
    /\ socketToUser = [s \in Sockets |-> None]
    /\ claims = [s \in Sockets |-> None]
    /\ phase = [s \in Sockets |-> "new"]
    /\ room = [u \in Users |-> {}]

-----------------------------------------------------------------------------
getSockets(u) == IF u \in keys THEN userToSockets[u] ELSE {}

isOnline(u) == u \in keys /\ userToSockets[u] # {}

addSwapped(u, s) ==  \* mutant: key and value swapped
    /\ keys' = keys \cup {u}
    /\ userToSockets' = [userToSockets EXCEPT ![u] = getSockets(u) \cup {s}]
    /\ socketToUser' = [socketToUser EXCEPT ![s] = s]

add(u, s) ==
    /\ keys' = keys \cup {u}
    /\ userToSockets' = [userToSockets EXCEPT ![u] = getSockets(u) \cup {s}]
    /\ socketToUser' = [socketToUser EXCEPT ![s] = u]

keepEmptySet(s) ==  \* mutant: the key of the user stays
    LET u == socketToUser[s] IN
    IF u = None THEN UNCHANGED maps
    ELSE /\ socketToUser' = [socketToUser EXCEPT ![s] = None]
         /\ userToSockets' = [userToSockets EXCEPT ![u] = @ \ {s}]
         /\ UNCHANGED keys

keepUser(s) ==  \* mutant: one of the two maps is forgotten
    LET u == socketToUser[s] IN
    IF u = None THEN UNCHANGED maps
    ELSE /\ socketToUser' = [socketToUser EXCEPT ![s] = None]
         /\ UNCHANGED <<keys, userToSockets>>

(***************************************************************************)
(* A socket that is not registered is ignored; the last socket of a user   *)
(* takes the user's key with it.                                           *)
(***************************************************************************)
remove(s) ==
    LET u == socketToUser[s] IN
    IF u = None THEN UNCHANGED maps
    ELSE /\ socketToUser' = [socketToUser EXCEPT ![s] = None]
         /\ userToSockets' = [userToSockets EXCEPT ![u] = @ \ {s}]
         /\ keys' = IF userToSockets[u] \ {s} = {} THEN keys \ {u} ELSE keys

(***************************************************************************)
(* The io.use middleware: a missing or invalid token ends the handshake    *)
(* before 'connection' fires.  Which tokens are valid is left open here    *)
(* and settled by module Sessions.                                         *)
(***************************************************************************)
accept(s, u) ==
    /\ phase[s] = "new"
    /\ claims' = [claims EXCEPT ![s] = u]
    /\ phase' = [phase EXCEPT ![s] = "verified"]
    /\ UNCHANGED <<maps, room>>

reject(s) ==
    /\ phase[s] = "new"
    /\ phase' = [phase EXCEPT ![s] = "closed"]
    /\ UNCHANGED <<maps, claims, room>>

verify(s) == (\E u \in Users : accept(s, u)) \/ reject(s)

connection(s) ==
    /\ phase[s] = "verified"
    /\ phase' = [phase EXCEPT ![s] = "open"]
    /\ room' = [room EXCEPT ![claims[s]] = @ \cup {s}]
    /\ add(claims[s], s)
    /\ UNCHANGED claims

(***************************************************************************)
(* Socket.io takes the socket out of its rooms and fires 'disconnect'.     *)
(***************************************************************************)
disconnect(s) ==
    /\ phase[s] = "open"
    /\ phase' = [phase EXCEPT ![s] = "closed"]
    /\ room' = [room EXCEPT ![claims[s]] = @ \ {s}]
    /\ remove(s)
    /\ UNCHANGED claims

(***************************************************************************)
(* A client that goes away between the handshake and the connection.       *)
(***************************************************************************)
giveUp(s) ==
    /\ phase[s] = "verified"
    /\ phase' = [phase EXCEPT ![s] = "closed"]
    /\ UNCHANGED <<maps, claims, room>>

Next ==
    \E s \in Sockets : verify(s) \/ connection(s) \/ disconnect(s) \/ giveUp(s)

Spec == Init /\ [][Next]_vars

-----------------------------------------------------------------------------
(***************************************************************************)
(* Each map is the inverse of the other.                                   *)
(***************************************************************************)
MapsAgree ==
    \A u \in Users, s \in Sockets :
      s \in getSockets(u) <=> socketToUser[s] = u

(***************************************************************************)
(* The registry says what the rooms say: its sockets of a user are those   *)
(* in the user's room, and a user with no socket left is offline and has   *)
(* no key (the maps do not grow with every user ever seen).                *)
(***************************************************************************)
RegistryMirrorsRooms ==
    \A u \in Users :
      /\ getSockets(u) = room[u]
      /\ isOnline(u) <=> room[u] # {}
      /\ u \in keys <=> room[u] # {}

=============================================================================
