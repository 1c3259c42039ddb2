---------------------------- MODULE SocketsProofs ----------------------------
(***************************************************************************)
(* The socket registries for every number of connections, users, channels  *)
(* and frames in flight, and every connection limit.                       *)
(***************************************************************************)
EXTENDS Sockets, ChatFeed, FiniteSetTheorems, SequenceTheorems, TLAPS

(* A join is asked for by an authenticated socket, and identities stay.       *)
JoinersKnown == \A f \in Frames : frames[f].type = "join" => userId[frames[f].ws] # NoUser

(* The inductive invariant.  What a close or an eviction cleans up is         *)
(* conns[userId[ws]], so LeaksAreOvertaken and PresenceMatchesConnections     *)
(* rest on RegistryMatchesSockets, which itself needs JoinersKnown.           *)
SInv ==
    /\ TypeOK
    /\ JoinersKnown
    /\ ConnectionLimit
    /\ RegistryMatchesSockets
    /\ PresenceMatchesConnections
    /\ LeaksAreOvertaken

------------------------------------------------------------------------------
(* Lemmas about the operators.                                                *)

\* A frame that waits for its query is what its type says.
LEMMA FrameShape ==
    ASSUME TypeOK, NEW f \in Frames
    PROVE  /\ frames[f].type = "authenticate" => frames[f] \in Authenticates
           /\ frames[f].type = "join" => frames[f] \in Joins
<1>1. frames[f] \in Authenticates \cup Joins \cup {NoFrame} BY DEF TypeOK
<1>2. CASE frames[f] \in Authenticates BY <1>2 DEF Authenticates
<1>3. CASE frames[f] \in Joins BY <1>3 DEF Joins
<1>4. CASE frames[f] = NoFrame BY <1>4 DEF NoFrame
<1> QED BY <1>1, <1>2, <1>3, <1>4

\* close() opens no socket and ends none.
LEMMA CloseShape ==
    ASSUME TypeOK, NEW S, Close(S)
    PROVE  /\ ready' \in [Sockets -> {"open", "closing", "closed"}]
           /\ \A ws \in Sockets : ready'[ws] = "closed" <=> ready[ws] = "closed"
           /\ \A ws \in Sockets : ready'[ws] = "open" <=> ready[ws] = "open" /\ ws \notin S
<1> USE DEF TypeOK, Close
<1>1. ASSUME NEW ws \in Sockets
      PROVE  /\ ready'[ws] \in {"open", "closing", "closed"}
             /\ ready'[ws] = "closed" <=> ready[ws] = "closed"
             /\ ready'[ws] = "open" <=> ready[ws] = "open" /\ ws \notin S
  <2>1. ready[ws] \in {"open", "closing", "closed"} OBVIOUS
  <2>2. CASE ws \in S /\ ready[ws] = "open" BY <2>2
  <2>3. CASE ~(ws \in S /\ ready[ws] = "open") BY <2>1, <2>3
  <2> QED BY <2>2, <2>3
<1>2. ready' = [ws \in Sockets |-> ready'[ws]] OBVIOUS
<1> QED BY <1>1, <1>2

\* A user's connections are finitely many, so counting them makes sense.
LEMMA ConnectionsAreFinite ==
    ASSUME TypeOK, NEW u \in Users
    PROVE  IsFiniteSet(conns[u]) /\ getConnectionCount(u) \in Nat
<1>1. conns[u] \subseteq Sockets BY DEF TypeOK
<1> QED BY <1>1, SocketsAssumption, FS_Subset, FS_CardinalityType DEF getConnectionCount

\* One more element is at most one more, within any bound that leaves room.
LEMMA AtMostOneMore ==
    ASSUME NEW S, IsFiniteSet(S), NEW x, NEW n \in Nat, Cardinality(S) + 1 <= n
    PROVE  Cardinality(S \cup {x}) <= n
<1>1. Cardinality(S) \in Nat BY FS_CardinalityType
<1>2. CASE x \in S
  <2>1. S \cup {x} = S BY <1>2
  <2> QED BY <1>1, <2>1
<1>3. CASE x \notin S BY <1>1, <1>3, FS_AddElement
<1> QED BY <1>2, <1>3

------------------------------------------------------------------------------
(* Every action keeps the invariant.                                          *)

\* The server starts without connections.
LEMMA SocketsInit == Init => SInv
<1> SUFFICES ASSUME Init PROVE SInv OBVIOUS
<1>1. TypeOK
  <2>1. 0 \in 0 .. MaxDisables BY LimitAssumption
  <2> QED BY <2>1 DEF Init, TypeOK, NoFrame
<1>2. ConnectionLimit
  <2>1. Cardinality({}) = 0 BY FS_EmptySet
  <2> QED BY <2>1, LimitAssumption DEF Init, ConnectionLimit, getConnectionCount
<1>3. JoinersKnown BY DEF Init, JoinersKnown, NoFrame
<1>4. RegistryMatchesSockets BY SocketsAssumption DEF Init, RegistryMatchesSockets
<1>5. PresenceMatchesConnections /\ LeaksAreOvertaken
  BY DEF Init, PresenceMatchesConnections, LeaksAreOvertaken, Closed
<1> QED BY <1>1, <1>2, <1>3, <1>4, <1>5 DEF SInv

\* Shrinking a user's connections keeps within the limit.
LEMMA FewerConnections ==
    ASSUME TypeOK, ConnectionLimit, \A u \in Users : conns'[u] \subseteq conns[u]
    PROVE  ConnectionLimit'
<1> SUFFICES ASSUME NEW u \in Users PROVE Cardinality(conns'[u]) <= MaxConnectionsPerUser
  BY DEF ConnectionLimit, getConnectionCount
<1>1. Cardinality(conns'[u]) \in Nat /\ Cardinality(conns'[u]) <= Cardinality(conns[u])
  BY ConnectionsAreFinite, FS_Subset, FS_CardinalityType
<1> QED BY <1>1, ConnectionsAreFinite, LimitAssumption DEF ConnectionLimit, getConnectionCount

\* A close takes the socket out of its user's connections, of every room, and,
\* with the last one, takes the user offline.
LEMMA OnCloseKeeps == ASSUME SInv, NEW ws \in Sockets, OnClose(ws) PROVE SInv'
<1> USE DEF SInv
<1>1. Live(ws) /\ ready' = [ready EXCEPT ![ws] = "closed"] /\ userId' = userId /\ frames' = frames
  BY DEF OnClose
<1>2. \A x \in Sockets : x # ws => ready'[x] = ready[x]
  BY <1>1 DEF TypeOK
<1>3. ready'[ws] = "closed"
  BY <1>1 DEF TypeOK
<1>4. JoinersKnown'
  BY <1>1 DEF JoinersKnown
<1>5. missed' = missed \ {ws} /\ phantom' = {u \in phantom : presence'[u] # "offline"}
  BY DEF OnClose
<1>6. UNCHANGED database
  BY DEF OnClose
<1>7. CASE userId[ws] = NoUser
  <2>1. UNCHANGED registries BY <1>7 DEF OnClose
  <2>2. \A u \in Users : ws \notin conns[u]
    BY <1>1, <1>7, SocketsAssumption DEF RegistryMatchesSockets
  <2>3. \A c \in Channels : ws \notin rooms[c]
    BY <1>1, <1>7 DEF RegistryMatchesSockets
  <2>4. TypeOK' BY <1>1, <1>5, <1>6, <2>1 DEF TypeOK, registries, database
  <2>5. ConnectionLimit' BY <2>1 DEF ConnectionLimit, registries, getConnectionCount
  <2>6. RegistryMatchesSockets'
    BY <1>1, <1>2, <1>3, <2>1 DEF RegistryMatchesSockets, registries, Live
  <2>7. PresenceMatchesConnections'
    BY <1>5, <2>1 DEF PresenceMatchesConnections, registries
  <2>8. LeaksAreOvertaken'
    BY <1>1, <1>2, <1>3, <1>5, <1>6, <2>1, <2>2, <2>3
       DEF LeaksAreOvertaken, registries, database, Closed
  <2> QED BY <1>4, <2>4, <2>5, <2>6, <2>7, <2>8
<1>8. CASE userId[ws] # NoUser
  <2> DEFINE u == userId[ws]
  <2>1. u \in Users BY <1>8 DEF TypeOK
  <2>2. /\ rooms' = [c \in Channels |-> rooms[c] \ {ws}]
        /\ conns' = [conns EXCEPT ![u] = @ \ {ws}]
        /\ presence' = [presence EXCEPT ![u] = PresenceAfterDisconnect(u)]
    BY <1>8 DEF OnClose
  <2>3. conns'[u] = conns[u] \ {ws} /\ \A v \in Users \ {u} : conns'[v] = conns[v]
    BY <2>1, <2>2 DEF TypeOK
  <2>4. ws \in conns[u] /\ \A v \in Users \ {u} : ws \notin conns[v]
    BY <1>1, <2>1 DEF RegistryMatchesSockets
  <2>5. presence'[u] = PresenceAfterDisconnect(u) /\ \A v \in Users \ {u} : presence'[v] = presence[v]
    BY <2>1, <2>2 DEF TypeOK
  <2>6. presence'[u] = IF conns'[u] = {} THEN "offline" ELSE presence[u]
    BY <2>5 DEF PresenceAfterDisconnect
  <2>7. TypeOK'
    <3>1. PresenceAfterDisconnect(u) \in {"offline", "online", "away"}
      BY <2>1 DEF PresenceAfterDisconnect, TypeOK
    <3>2. presence' \in [Users -> {"offline", "online", "away"}]
      BY <2>2, <3>1 DEF TypeOK
    <3>3. conns' \in [Users -> SUBSET Sockets] BY <2>2 DEF TypeOK
    <3>4. rooms' \in [Channels -> SUBSET Sockets] BY <2>2 DEF TypeOK
    <3> QED BY <1>1, <1>5, <1>6, <3>2, <3>3, <3>4 DEF TypeOK, database
  <2>8. ConnectionLimit'
    <3>1. \A v \in Users : conns'[v] \subseteq conns[v] BY <2>3
    <3> QED BY <3>1, FewerConnections
  <2>9. RegistryMatchesSockets'
    <3> SUFFICES ASSUME NEW x \in Sockets, Live(x)'
                 PROVE  /\ \A v \in Users : x \in conns'[v] <=> userId'[x] = v
                        /\ (\E c \in Channels : x \in rooms'[c]) => userId'[x] # NoUser
      BY DEF RegistryMatchesSockets
    <3>1. x # ws /\ Live(x) BY <1>2, <1>3 DEF Live
    <3>2. \A v \in Users : x \in conns'[v] <=> x \in conns[v] BY <2>3, <3>1
    <3>3. \A c \in Channels : x \in rooms'[c] <=> x \in rooms[c] BY <2>2, <3>1
    <3> QED BY <1>1, <3>1, <3>2, <3>3 DEF RegistryMatchesSockets
  <2>10. PresenceMatchesConnections'
    <3> SUFFICES ASSUME NEW v \in Users
                 PROVE  presence'[v] # "offline" <=> conns'[v] # {} \/ v \in phantom'
      BY DEF PresenceMatchesConnections
    <3>1. CASE v # u BY <1>5, <2>3, <2>5, <3>1 DEF PresenceMatchesConnections
    <3>2. CASE v = u
      <4>1. presence[u] # "offline" BY <2>1, <2>4 DEF PresenceMatchesConnections
      <4> QED BY <1>5, <2>6, <3>2, <4>1
    <3> QED BY <3>1, <3>2
  <2>11. LeaksAreOvertaken'
    <3> SUFFICES ASSUME NEW x \in Sockets \ missed'
                 PROVE  /\ Closed(x)' => \A v \in Users, c \in Channels : x \notin conns'[v] \cup rooms'[c]
                        /\ ready'[x] = "open" /\ userId'[x] # NoUser => userId'[x] \in (active \cup disabling)'
      BY DEF LeaksAreOvertaken
    <3>1. CASE x = ws BY <1>3, <2>2, <2>3, <2>4, <3>1
    <3>2. CASE x # ws
      <4>1. x \notin missed /\ ready'[x] = ready[x] BY <1>2, <1>5, <3>2
      <4>2. \A v \in Users : conns'[v] \subseteq conns[v] BY <2>3
      <4>3. \A c \in Channels : rooms'[c] \subseteq rooms[c] BY <2>2
      <4>4. Closed(x)' => Closed(x) BY <4>1 DEF Closed
      <4> QED BY <1>1, <1>6, <4>1, <4>2, <4>3, <4>4 DEF LeaksAreOvertaken, database
    <3> QED BY <3>1, <3>2
  <2> QED BY <1>4, <2>7, <2>8, <2>9, <2>10, <2>11
<1> QED BY <1>7, <1>8

\* Closing sockets, while frames are finished and evictions end, keeps the
\* invariant if the evicted users' sockets are among the closed ones.
LEMMA CloseKeeps ==
    ASSUME SInv, NEW S, Close(S),
           UNCHANGED <<userId, registries, active, disables, leaks>>,
           frames' \in [Frames -> Authenticates \cup Joins \cup {NoFrame}], JoinersKnown',
           disabling' \subseteq disabling,
           \A ws \in Sockets \ missed :
              ready[ws] = "open" /\ userId[ws] \in disabling \ disabling' => ws \in S
    PROVE  SInv'
<1> USE DEF SInv, registries, leaks
<1>1. ready' \in [Sockets -> {"open", "closing", "closed"}] BY CloseShape
<1>2. \A ws \in Sockets : ready'[ws] = "closed" <=> ready[ws] = "closed" BY CloseShape
<1>3. \A ws \in Sockets : ready'[ws] = "open" <=> ready[ws] = "open" /\ ws \notin S BY CloseShape
<1>4. \A ws \in Sockets : Live(ws)' => Live(ws)
  BY <1>1, <1>2 DEF Live, TypeOK
<1>5. TypeOK' BY <1>1 DEF TypeOK
<1>6. ConnectionLimit' BY DEF ConnectionLimit, getConnectionCount
<1>7. RegistryMatchesSockets' BY <1>4 DEF RegistryMatchesSockets
<1>8. PresenceMatchesConnections' BY DEF PresenceMatchesConnections
<1>9. LeaksAreOvertaken' BY <1>2, <1>3 DEF LeaksAreOvertaken, Closed
<1> QED BY <1>5, <1>6, <1>7, <1>8, <1>9

\* A frame that goes off to its query changes nothing else.
LEMMA FramesKeep ==
    ASSUME SInv, UNCHANGED <<socketVars, registries, database, leaks>>,
           frames' \in [Frames -> Authenticates \cup Joins \cup {NoFrame}], JoinersKnown'
    PROVE  SInv'
BY DEF SInv, socketVars, registries, database, leaks, TypeOK, ConnectionLimit, getConnectionCount,
       RegistryMatchesSockets, Live, PresenceMatchesConnections, LeaksAreOvertaken, Closed

\* Ending a frame keeps the frames' types and JoinersKnown while no identity is
\* lost.
LEMMA FinishKeeps ==
    ASSUME TypeOK, JoinersKnown, NEW f \in Frames, Finish(f),
           \A ws \in Sockets : userId[ws] # NoUser => userId'[ws] # NoUser
    PROVE  /\ frames' \in [Frames -> Authenticates \cup Joins \cup {NoFrame}]
           /\ JoinersKnown'
<1>1. frames' \in [Frames -> Authenticates \cup Joins \cup {NoFrame}]
  BY DEF Finish, TypeOK
<1>2. ASSUME NEW g \in Frames, frames'[g].type = "join" PROVE userId'[frames'[g].ws] # NoUser
  <2>1. g # f BY <1>2 DEF Finish, TypeOK, NoFrame
  <2>2. frames'[g] = frames[g] BY <2>1 DEF Finish, TypeOK
  <2>3. frames[g].ws \in Sockets BY <1>2, <2>2, FrameShape DEF Joins
  <2> QED BY <1>2, <2>2, <2>3 DEF JoinersKnown
<1> QED BY <1>1, <1>2 DEF JoinersKnown

\* An authenticate frame's query.
LEMMA AuthenticateKeeps ==
    ASSUME SInv, NEW f \in Frames, NEW ws \in Sockets, NEW u \in Users, Authenticate(f, ws, u)
    PROVE  SInv'
<1>1. [type |-> "authenticate", ws |-> ws, user |-> u] \in Authenticates BY DEF Authenticates
<1>2. frames' \in [Frames -> Authenticates \cup Joins \cup {NoFrame}]
  BY <1>1 DEF Authenticate, SInv, TypeOK
<1>3. JoinersKnown'
  BY DEF Authenticate, SInv, TypeOK, JoinersKnown, socketVars
<1> QED BY <1>2, <1>3, FramesKeep DEF Authenticate

\* A join frame's query, asked for an authenticated socket only.
LEMMA JoinKeeps ==
    ASSUME SInv, NEW f \in Frames, NEW ws \in Sockets, NEW c \in Channels, Join(f, ws, c)
    PROVE  SInv'
<1>1. [type |-> "join", ws |-> ws, channel |-> c] \in Joins BY DEF Joins
<1>2. frames' \in [Frames -> Authenticates \cup Joins \cup {NoFrame}]
  BY <1>1 DEF Join, SInv, TypeOK
<1>3. JoinersKnown'
  BY DEF Join, SInv, TypeOK, JoinersKnown, socketVars
<1> QED BY <1>2, <1>3, FramesKeep DEF Join

\* An unauthenticated or unverifiable frame closes its socket.
LEMMA RejectKeeps == ASSUME SInv, NEW ws \in Sockets, RejectFrame(ws) PROVE SInv'
BY CloseKeeps DEF RejectFrame, SInv, TypeOK, JoinersKnown, database

\* A refused handshake closes its socket.
LEMMA RefuseKeeps == ASSUME SInv, NEW f \in Frames, AuthenticateRefused(f) PROVE SInv'
<1>1. /\ frames' \in [Frames -> Authenticates \cup Joins \cup {NoFrame}]
      /\ JoinersKnown'
  BY FinishKeeps DEF AuthenticateRefused, SInv
<1> QED BY <1>1, CloseKeeps DEF AuthenticateRefused, database

\* The expiry sweep closes sockets.
LEMMA SweepExpiredKeeps == ASSUME SInv, SweepExpiredTokens PROVE SInv'
<1>1. PICK S : Close(S) BY DEF SweepExpiredTokens
<1> QED BY <1>1, CloseKeeps DEF SweepExpiredTokens, SInv, TypeOK, JoinersKnown, database

\* An eviction reaches every open socket of its user: all of them are registered.
LEMMA DisconnectKeeps == ASSUME SInv, NEW u \in Users, disconnectUser(u) PROVE SInv'
<1>1. \A ws \in Sockets : ready[ws] = "open" /\ userId[ws] = u => ws \in conns[u]
  BY DEF SInv, RegistryMatchesSockets, Live
<1>2. \A ws \in Sockets : ready[ws] = "open" /\ userId[ws] \in disabling \ disabling' => ws \in conns[u]
  BY <1>1 DEF disconnectUser
<1> QED BY <1>2, CloseKeeps DEF disconnectUser, ToDisconnect, SInv, TypeOK, JoinersKnown

\* A successful handshake registers the socket under one user, within the limit;
\* if it comes too late the socket or the user is recorded as left behind.
LEMMA AuthenticatedKeeps == ASSUME SInv, NEW f \in Frames, Authenticated(f) PROVE SInv'
<1> DEFINE ws == frames[f].ws
           u == frames[f].user
<1> USE DEF SInv
<1>1. ws \in Sockets /\ u \in Users
  BY FrameShape DEF Authenticated, Authenticates
<1>2. userId[ws] \in {NoUser, u}
  BY DEF Authenticated, Unwelcome, IdentityMismatch
<1>3. /\ userId' = [userId EXCEPT ![ws] = u]
      /\ conns' = IF userId[ws] = NoUser THEN [conns EXCEPT ![u] = @ \cup {ws}] ELSE conns
      /\ presence' = [presence EXCEPT ![u] = "online"]
      /\ missed' = IF Closed(ws) \/ u \notin active \cup disabling THEN missed \cup {ws} ELSE missed
      /\ phantom' = IF conns'[u] = {} THEN phantom \cup {u} ELSE phantom
      /\ Finish(f)
      /\ UNCHANGED <<ready, rooms, database>>
  BY DEF Authenticated
<1>4. u # NoUser
  BY <1>1, SocketsAssumption
<1>5. userId'[ws] = u /\ \A x \in Sockets \ {ws} : userId'[x] = userId[x]
  BY <1>1, <1>3 DEF TypeOK
<1>6. \A v \in Users : conns'[v] = IF v = u /\ userId[ws] = NoUser THEN conns[v] \cup {ws} ELSE conns[v]
  BY <1>1, <1>3 DEF TypeOK
<1>7. frames' \in [Frames -> Authenticates \cup Joins \cup {NoFrame}] /\ JoinersKnown'
  <2>1. \A x \in Sockets : userId[x] # NoUser => userId'[x] # NoUser BY <1>4, <1>5
  <2> QED BY <1>3, <2>1, FinishKeeps
<1>8. TypeOK'
  <2>1. userId' \in [Sockets -> Users \cup {NoUser}] BY <1>1, <1>3 DEF TypeOK
  <2>2. conns' \in [Users -> SUBSET Sockets] BY <1>1, <1>3 DEF TypeOK
  <2>3. presence' \in [Users -> {"offline", "online", "away"}] BY <1>3 DEF TypeOK
  <2>4. missed' \subseteq Sockets BY <1>1, <1>3 DEF TypeOK
  <2>5. phantom' \subseteq Users BY <1>1, <1>3 DEF TypeOK
  <2> QED BY <1>3, <1>7, <2>1, <2>2, <2>3, <2>4, <2>5 DEF TypeOK, database
<1>9. ConnectionLimit'
  <2> SUFFICES ASSUME NEW v \in Users PROVE Cardinality(conns'[v]) <= MaxConnectionsPerUser
    BY DEF ConnectionLimit, getConnectionCount
  <2>1. CASE v = u /\ userId[ws] = NoUser
    <3>1. ~(getConnectionCount(u) >= MaxConnectionsPerUser)
      BY <2>1 DEF Authenticated, Unwelcome, TooMany
    <3>2. IsFiniteSet(conns[u]) /\ Cardinality(conns[u]) \in Nat
      BY <1>1, ConnectionsAreFinite DEF getConnectionCount
    <3>3. Cardinality(conns[u]) + 1 <= MaxConnectionsPerUser
      BY <3>1, <3>2, LimitAssumption DEF getConnectionCount
    <3>4. conns'[v] = conns[u] \cup {ws}
      BY <1>1, <1>6, <2>1
    <3> QED BY <3>2, <3>3, <3>4, AtMostOneMore, LimitAssumption
  <2>2. CASE ~(v = u /\ userId[ws] = NoUser)
    BY <1>6, <2>2 DEF ConnectionLimit, getConnectionCount
  <2> QED BY <2>1, <2>2
<1>10. RegistryMatchesSockets'
  <2> SUFFICES ASSUME NEW x \in Sockets, Live(x)
               PROVE  /\ \A v \in Users : x \in conns'[v] <=> userId'[x] = v
                      /\ (\E c \in Channels : x \in rooms[c]) => userId'[x] # NoUser
    BY <1>3 DEF RegistryMatchesSockets, Live
  <2>1. \A v \in Users : x \in conns[v] <=> userId[x] = v
    BY DEF RegistryMatchesSockets
  <2>2. CASE x # ws
    <3>1. \A v \in Users : x \in conns'[v] <=> x \in conns[v] BY <1>6, <2>2
    <3> QED BY <1>5, <2>1, <2>2, <3>1 DEF RegistryMatchesSockets
  <2>3. CASE x = ws
    <3>1. \A v \in Users : x \in conns'[v] <=> v = u
      <4>1. CASE userId[ws] = NoUser
        <5>1. \A v \in Users : x \notin conns[v] BY <2>1, <2>3, <4>1, SocketsAssumption
        <5> QED BY <1>1, <1>6, <2>3, <4>1, <5>1
      <4>2. CASE userId[ws] = u
        BY <1>4, <1>6, <2>1, <2>3, <4>2
      <4> QED BY <1>2, <4>1, <4>2
    <3> QED BY <1>4, <1>5, <2>3, <3>1
  <2> QED BY <2>2, <2>3
<1>11. PresenceMatchesConnections'
  <2> SUFFICES ASSUME NEW v \in Users
               PROVE  presence'[v] # "offline" <=> conns'[v] # {} \/ v \in phantom'
    BY DEF PresenceMatchesConnections
  <2>1. CASE v = u
    <3>1. presence'[u] = "online" BY <1>1, <1>3 DEF TypeOK
    <3> QED BY <1>3, <2>1, <3>1
  <2>2. CASE v # u
    <3>1. presence'[v] = presence[v] BY <1>3, <2>2 DEF TypeOK
    <3>2. conns'[v] = conns[v] BY <1>6, <2>2
    <3>3. v \in phantom' <=> v \in phantom BY <1>3, <2>2
    <3> QED BY <3>1, <3>2, <3>3 DEF PresenceMatchesConnections
  <2> QED BY <2>1, <2>2
<1>12. LeaksAreOvertaken'
  <2> SUFFICES ASSUME NEW x \in Sockets \ missed'
               PROVE  /\ Closed(x) => \A v \in Users, c \in Channels : x \notin conns'[v] \cup rooms[c]
                      /\ ready[x] = "open" /\ userId'[x] # NoUser => userId'[x] \in active \cup disabling
    BY <1>3 DEF LeaksAreOvertaken, Closed, database
  <2>1. x \notin missed BY <1>3
  <2>2. CASE x # ws
    <3>1. \A v \in Users : x \in conns'[v] <=> x \in conns[v] BY <1>6, <2>2
    <3> QED BY <1>5, <2>1, <2>2, <3>1 DEF LeaksAreOvertaken
  <2>3. CASE x = ws
    <3>1. ~Closed(ws) /\ u \in active \cup disabling BY <1>3, <2>3
    <3> QED BY <1>5, <2>3, <3>1
  <2> QED BY <2>2, <2>3
<1> QED BY <1>7, <1>8, <1>9, <1>10, <1>11, <1>12

\* A granted join puts an authenticated socket in a room; a closed one is
\* recorded as left behind.
LEMMA JoinedKeeps == ASSUME SInv, NEW f \in Frames, Joined(f) PROVE SInv'
<1> DEFINE ws == frames[f].ws
           c == frames[f].channel
<1> USE DEF SInv, Joined, socketVars, database
<1>1. ws \in Sockets /\ c \in Channels
  BY FrameShape DEF Joins
<1>2. userId[ws] # NoUser
  BY DEF JoinersKnown
<1>3. frames' \in [Frames -> Authenticates \cup Joins \cup {NoFrame}] /\ JoinersKnown'
  BY FinishKeeps
<1>4. \A d \in Channels : rooms'[d] = IF d = c THEN rooms[d] \cup {ws} ELSE rooms[d]
  BY <1>1 DEF TypeOK
<1>5. TypeOK'
  <2>1. rooms' \in [Channels -> SUBSET Sockets] BY <1>1 DEF TypeOK
  <2>2. missed' \subseteq Sockets BY <1>1 DEF TypeOK
  <2> QED BY <1>3, <2>1, <2>2 DEF TypeOK
<1>6. ConnectionLimit' BY DEF ConnectionLimit, getConnectionCount
<1>7. RegistryMatchesSockets' BY <1>2, <1>4 DEF RegistryMatchesSockets, Live
<1>8. PresenceMatchesConnections' BY DEF PresenceMatchesConnections
<1>9. LeaksAreOvertaken'
  <2> SUFFICES ASSUME NEW x \in Sockets \ missed'
               PROVE  /\ Closed(x) => \A v \in Users, d \in Channels : x \notin conns[v] \cup rooms'[d]
                      /\ ready[x] = "open" /\ userId[x] # NoUser => userId[x] \in active \cup disabling
    BY DEF LeaksAreOvertaken, Closed
  <2>1. x \notin missed BY DEF Joined
  <2>2. Closed(x) => x # ws BY DEF Joined
  <2> QED BY <1>4, <2>1, <2>2 DEF LeaksAreOvertaken
<1> QED BY <1>3, <1>5, <1>6, <1>7, <1>8, <1>9

\* Leaving a room keeps the invariant.
LEMMA LeaveKeeps ==
    ASSUME SInv, NEW ws \in Sockets, NEW c \in Channels, Leave(ws, c) PROVE SInv'
<1> USE DEF SInv, Leave, socketVars, database, leaks
<1>1. \A d \in Channels : rooms'[d] \subseteq rooms[d] BY DEF TypeOK
<1>2. TypeOK' BY DEF TypeOK
<1>3. RegistryMatchesSockets' BY <1>1 DEF RegistryMatchesSockets, Live
<1>4. LeaksAreOvertaken' BY <1>1 DEF LeaksAreOvertaken, Closed
<1> QED BY <1>2, <1>3, <1>4
        DEF JoinersKnown, ConnectionLimit, getConnectionCount, PresenceMatchesConnections

\* Presence may move between online and away, and online comes only from users
\* with a connection.
LEMMA PresenceKeeps ==
    ASSUME SInv, UNCHANGED <<socketVars, frames, conns, rooms, database, leaks>>,
           presence' \in [Users -> {"offline", "online", "away"}],
           \A u \in Users : presence'[u] # "offline" <=> presence[u] # "offline" \/ conns[u] # {},
           \A u \in Users : conns[u] # {} => presence'[u] # "offline"
    PROVE  SInv'
<1> USE DEF SInv, socketVars, database, leaks
<1>1. PresenceMatchesConnections' BY DEF PresenceMatchesConnections
<1> QED BY <1>1 DEF TypeOK, JoinersKnown, ConnectionLimit, getConnectionCount,
                    RegistryMatchesSockets, Live, LeaksAreOvertaken, Closed

\* A heartbeat comes from a live, hence registered, socket.
LEMMA HeartbeatKeeps == ASSUME SInv, NEW ws \in Sockets, Heartbeat(ws) PROVE SInv'
<1> DEFINE u == userId[ws]
<1>1. u \in Users /\ presence' = [presence EXCEPT ![u] = "online"]
  BY DEF Heartbeat, SInv, TypeOK
<1>2. conns[u] # {}
  BY <1>1 DEF Heartbeat, SInv, RegistryMatchesSockets
<1>3. presence'[u] = "online" /\ \A v \in Users \ {u} : presence'[v] = presence[v]
  BY <1>1 DEF SInv, TypeOK
<1>4. \A v \in Users : conns[v] # {} => presence[v] # "offline"
  BY DEF SInv, PresenceMatchesConnections
<1>5. presence' \in [Users -> {"offline", "online", "away"}]
  BY <1>1 DEF SInv, TypeOK
<1>6. ASSUME NEW v \in Users
      PROVE  /\ presence'[v] # "offline" <=> presence[v] # "offline" \/ conns[v] # {}
             /\ conns[v] # {} => presence'[v] # "offline"
  BY <1>2, <1>3, <1>4
<1> QED BY <1>5, <1>6, PresenceKeeps DEF Heartbeat

\* The staleness sweep turns only online users away.
LEMMA SweepStaleKeeps == ASSUME SInv, SweepStalePresence PROVE SInv'
<1>1. PICK stale \in SUBSET {u \in Users : presence[u] = "online"} :
          presence' = [u \in Users |-> IF u \in stale THEN "away" ELSE presence[u]]
  BY DEF SweepStalePresence
<1>2. presence' \in [Users -> {"offline", "online", "away"}]
  BY <1>1 DEF SInv, TypeOK
<1>3. \A u \in Users : presence'[u] # "offline" <=> presence[u] # "offline"
  BY <1>1
<1>4. \A u \in Users : conns[u] # {} => presence[u] # "offline"
  BY DEF SInv, PresenceMatchesConnections
<1> QED BY <1>2, <1>3, <1>4, PresenceKeeps DEF SweepStalePresence

\* The rest of disable and enable touches no registry.
LEMMA AccountKeeps ==
    ASSUME SInv, NEW u \in Users, Disable(u) \/ DisableFails(u) \/ Enable(u) PROVE SInv'
<1> USE DEF SInv, Disable, DisableFails, Enable, socketVars, registries, leaks
<1>1. TypeOK'
  <2>1. disables' \in 0 .. MaxDisables BY LimitAssumption DEF TypeOK
  <2>2. active' \subseteq Users /\ disabling' \subseteq Users BY DEF TypeOK
  <2>3. missed' \subseteq Sockets BY DEF TypeOK
  <2> QED BY <2>1, <2>2, <2>3 DEF TypeOK
<1>2. LeaksAreOvertaken'
  <2>1. \A ws \in Sockets : ready[ws] = "open" /\ userId[ws] = u => ws \in conns[u]
    BY DEF RegistryMatchesSockets, Live
  <2> QED BY <2>1 DEF LeaksAreOvertaken, Closed
<1> QED BY <1>1, <1>2 DEF JoinersKnown, ConnectionLimit, getConnectionCount,
                          RegistryMatchesSockets, Live, PresenceMatchesConnections

\* A process that died begins again with empty registries.
LEMMA DeathKeeps == ASSUME SInv, StatusQueryFails PROVE SInv'
<1> USE DEF SInv, StatusQueryFails
<1>1. TypeOK' BY DEF TypeOK
<1>2. JoinersKnown' BY DEF JoinersKnown, NoFrame
<1>3. ConnectionLimit'
  <2>1. Cardinality({}) = 0 BY FS_EmptySet
  <2> QED BY <2>1, LimitAssumption DEF ConnectionLimit, getConnectionCount
<1>4. RegistryMatchesSockets' BY DEF RegistryMatchesSockets, Live
<1>5. PresenceMatchesConnections' BY DEF PresenceMatchesConnections
<1>6. LeaksAreOvertaken' BY DEF LeaksAreOvertaken, Closed
<1> QED BY <1>1, <1>2, <1>3, <1>4, <1>5, <1>6

\* Every step keeps the invariant.
LEMMA SocketsStep == ASSUME SInv, [Next]_vars PROVE SInv'
<1>1. CASE UNCHANGED vars
  BY <1>1 DEF vars, SInv, TypeOK, JoinersKnown, ConnectionLimit, getConnectionCount,
              RegistryMatchesSockets, Live, PresenceMatchesConnections, LeaksAreOvertaken, Closed
<1>2. ASSUME NEW f \in Frames, Continue(f) PROVE SInv'
  BY <1>2, RefuseKeeps, AuthenticatedKeeps, JoinedKeeps DEF Continue
<1>3. ASSUME NEW u \in Users, Account(u) PROVE SInv'
  BY <1>3, AccountKeeps, DisconnectKeeps DEF Account
<1>4. ASSUME NEW ws \in Sockets, Socket(ws) PROVE SInv'
  BY <1>4, OnCloseKeeps, RejectKeeps, HeartbeatKeeps DEF Socket
<1>5. CASE StatusQueryFails \/ SweepStalePresence \/ SweepExpiredTokens
  BY <1>5, DeathKeeps, SweepStaleKeeps, SweepExpiredKeeps
<1> QED BY <1>1, <1>2, <1>3, <1>4, <1>5, AuthenticateKeeps, JoinKeeps, LeaveKeeps DEF Next

------------------------------------------------------------------------------
(* The theorems.                                                              *)

\* The registries, the sockets' fields and the frames in flight satisfy the
\* inductive invariant of the server at all times.
THEOREM SocketsInvariance == Spec => []SInv
<1>1. SInv /\ [Next]_vars => SInv' BY SocketsStep
<1> QED BY <1>1, SocketsInit, PTL DEF Spec

\* All state has its type.
THEOREM TypeCorrect == Spec => []TypeOK
<1>1. SInv => TypeOK BY DEF SInv
<1> QED BY <1>1, SocketsInvariance, PTL

\* No interleaving of handshakes gives a user more connections than
\* maxConnectionsPerUser.
THEOREM LimitHolds == Spec => []ConnectionLimit
<1>1. SInv => ConnectionLimit BY DEF SInv
<1> QED BY <1>1, SocketsInvariance, PTL

\* A live socket is registered under the user it authenticated as and under no
\* other, whatever frames are in flight.
THEOREM RegistryIsFaithful == Spec => []RegistryMatchesSockets
<1>1. SInv => RegistryMatchesSockets BY DEF SInv
<1> QED BY <1>1, SocketsInvariance, PTL

\* A user is shown as connected exactly while connections are registered, except
\* for those an overtaken handshake put back.
THEOREM PresenceIsFaithful == Spec => []PresenceMatchesConnections
<1>1. SInv => PresenceMatchesConnections BY DEF SInv
<1> QED BY <1>1, SocketsInvariance, PTL

\* Cleanup and eviction are complete but for what overtaken continuations and
\* failed evictions leave behind.
THEOREM CleanupIsComplete == Spec => []LeaksAreOvertaken
<1>1. SInv => LeaksAreOvertaken BY DEF SInv
<1> QED BY <1>1, SocketsInvariance, PTL

\* No step changes the identity of an authenticated socket.
LEMMA IdentityStep == ASSUME SInv, [Next]_vars PROVE KeepsIdentity
<1>1. ASSUME NEW f \in Frames, Authenticated(f) PROVE KeepsIdentity
  <2>1. frames[f].ws \in Sockets BY <1>1, FrameShape DEF Authenticated, Authenticates, SInv
  <2>2. userId[frames[f].ws] \in {NoUser, frames[f].user}
    BY <1>1 DEF Authenticated, Unwelcome, IdentityMismatch
  <2>3. userId' = [userId EXCEPT ![frames[f].ws] = frames[f].user] BY <1>1 DEF Authenticated
  <2> QED BY <2>1, <2>2, <2>3 DEF KeepsIdentity, SInv, TypeOK
<1>2. CASE UNCHANGED userId BY <1>2 DEF KeepsIdentity
<1>3. [Next]_vars => UNCHANGED userId \/ \E f \in Frames : Authenticated(f)
  BY DEF Next, vars, socketVars, Continue, Account, Socket, AuthenticateRefused, Joined, Disable, disconnectUser,
         DisableFails, Enable, OnClose, RejectFrame, Heartbeat, StatusQueryFails, SweepStalePresence,
         SweepExpiredTokens, Authenticate, Join, Leave
<1> QED BY <1>1, <1>2, <1>3

\* A socket keeps the identity it authenticated with for as long as it lives.
THEOREM IdentityNeverChanges == Spec => IdentityIsFixed
<1>1. SInv /\ [Next]_vars => [KeepsIdentity]_vars BY IdentityStep
<1> QED BY <1>1, SocketsInvariance, PTL DEF Spec, IdentityIsFixed

------------------------------------------------------------------------------
(* The conversation of ChatFeed.  Of a sequence of frames or entries the      *)
(* proofs mostly need the set of its elements.                                *)

LEMMA Entry ==
    ASSUME NEW S, NEW s \in Seq(S)
    PROVE  /\ Len(s) \in Nat /\ DOMAIN s = 1 .. Len(s)
           /\ ToSet(s) \subseteq S
           /\ \A x : x \in ToSet(s) <=> \E i \in 1 .. Len(s) : s[i] = x
BY DEF ToSet

LEMMA Appended ==
    ASSUME NEW S, NEW s \in Seq(S), NEW e \in S
    PROVE  Append(s, e) \in Seq(S) /\ ToSet(Append(s, e)) = ToSet(s) \cup {e}
<1> DEFINE t == Append(s, e)
<1>1. /\ t \in Seq(S) /\ Len(t) = Len(s) + 1 /\ Len(s) \in Nat
      /\ \A i \in 1 .. Len(s) : t[i] = s[i]
      /\ t[Len(s) + 1] = e
  BY AppendProperties
<1> HIDE DEF t
<1>2. \A x : x \in ToSet(t) <=> \E i \in 1 .. Len(t) : t[i] = x
  BY <1>1, Entry
<1>3. \A x : x \in ToSet(s) <=> \E i \in 1 .. Len(s) : s[i] = x
  BY Entry
<1>4. \A i \in 1 .. Len(t) : i \in 1 .. Len(s) \/ i = Len(s) + 1
  BY <1>1
<1>5. ToSet(t) \subseteq ToSet(s) \cup {e}
  BY <1>1, <1>2, <1>3, <1>4
<1>6. \A i \in 1 .. Len(s) : i \in 1 .. Len(t)
  BY <1>1
<1>7. Len(s) + 1 \in 1 .. Len(t)
  BY <1>1
<1>8. ToSet(s) \cup {e} \subseteq ToSet(t)
  BY <1>1, <1>2, <1>3, <1>6, <1>7
<1> QED BY <1>1, <1>5, <1>8 DEF t

LEMMA Taken ==
    ASSUME NEW S, NEW s \in Seq(S), s # <<>>
    PROVE  Head(s) \in S /\ Tail(s) \in Seq(S) /\ ToSet(s) = ToSet(Tail(s)) \cup {Head(s)}
<1> DEFINE t == Tail(s)
<1>1. /\ Head(s) \in S /\ t \in Seq(S) /\ Len(t) = Len(s) - 1 /\ Len(s) \in Nat \ {0}
      /\ \A i \in 1 .. Len(t) : t[i] = s[i + 1]
  BY HeadTailProperties, EmptySeq
<1>2. Head(s) = s[1]
  OBVIOUS
<1> HIDE DEF t
<1>3. \A x : x \in ToSet(t) <=> \E i \in 1 .. Len(t) : t[i] = x
  BY <1>1, Entry
<1>4. \A x : x \in ToSet(s) <=> \E i \in 1 .. Len(s) : s[i] = x
  BY Entry
<1>5. \A i \in 1 .. Len(s) : i = 1 \/ (i - 1 \in 1 .. Len(t) /\ s[i] = t[i - 1])
  BY <1>1
<1>6. \A i \in 1 .. Len(t) : i + 1 \in 1 .. Len(s)
  BY <1>1
<1>7. ToSet(s) \subseteq ToSet(t) \cup {Head(s)}
  BY <1>2, <1>3, <1>4, <1>5
<1>8. 1 \in 1 .. Len(s)
  BY <1>1
<1>9. ToSet(t) \cup {Head(s)} \subseteq ToSet(s)
  BY <1>1, <1>2, <1>3, <1>4, <1>6, <1>8
<1> QED BY <1>1, <1>7, <1>9 DEF t

LEMMA Parted ==
    ASSUME NEW S, NEW s \in Seq(S), NEW k \in 0 .. Len(s)
    PROVE  /\ SubSeq(s, 1, k) \in Seq(S) /\ SubSeq(s, k + 1, Len(s)) \in Seq(S)
           /\ Len(SubSeq(s, 1, k)) = k /\ \A i \in 1 .. k : SubSeq(s, 1, k)[i] = s[i]
           /\ ToSet(s) = ToSet(SubSeq(s, 1, k)) \cup ToSet(SubSeq(s, k + 1, Len(s)))
<1> DEFINE a == SubSeq(s, 1, k)
           b == SubSeq(s, k + 1, Len(s))
<1>0. Len(s) \in Nat /\ k \in Int /\ \A i \in 1 .. Len(s) : s[i] \in S
  OBVIOUS
<1>1. a \in Seq(S) /\ Len(a) = k /\ \A i \in 1 .. k : a[i] = s[i]
  <2>1. \A i \in 1 .. k : s[i] \in S
    BY <1>0
  <2>2. /\ a \in Seq(S) /\ Len(a) = IF 1 <= k THEN k - 1 + 1 ELSE 0
        /\ \A i \in 1 .. k - 1 + 1 : a[i] = s[1 + i - 1]
    BY <1>0, <2>1, SubSeqProperties
  <2> HIDE DEF a
  <2>3. k - 1 + 1 = k /\ \A i \in 1 .. k : 1 + i - 1 = i
    BY <1>0
  <2> QED BY <1>0, <2>2, <2>3
<1>2. b \in Seq(S) /\ Len(b) = Len(s) - k /\ \A i \in 1 .. Len(s) - k : b[i] = s[k + i]
  <2>1. \A i \in k + 1 .. Len(s) : s[i] \in S
    BY <1>0
  <2>2. /\ b \in Seq(S) /\ Len(b) = IF k + 1 <= Len(s) THEN Len(s) - (k + 1) + 1 ELSE 0
        /\ \A i \in 1 .. Len(s) - (k + 1) + 1 : b[i] = s[(k + 1) + i - 1]
    BY <1>0, <2>1, SubSeqProperties
  <2> HIDE DEF b
  <2>3. Len(s) - (k + 1) + 1 = Len(s) - k /\ \A i \in 1 .. Len(s) - k : (k + 1) + i - 1 = k + i
    BY <1>0
  <2>4. Len(b) = Len(s) - k
    BY <1>0, <2>2
  <2>5. \A i \in 1 .. Len(s) - k : b[i] = s[k + i]
    BY <2>2, <2>3
  <2> QED BY <2>2, <2>4, <2>5
<1> HIDE DEF a, b
<1>3. /\ \A x : x \in ToSet(a) <=> \E i \in 1 .. Len(a) : a[i] = x
      /\ \A x : x \in ToSet(b) <=> \E i \in 1 .. Len(b) : b[i] = x
      /\ \A x : x \in ToSet(s) <=> \E i \in 1 .. Len(s) : s[i] = x
  BY <1>1, <1>2, Entry
<1>4. \A i \in 1 .. Len(s) : i \in 1 .. k \/ (i - k \in 1 .. Len(s) - k /\ b[i - k] = s[i])
  <2> SUFFICES ASSUME NEW i \in 1 .. Len(s), i \notin 1 .. k
               PROVE  i - k \in 1 .. Len(s) - k /\ b[i - k] = s[i]
    OBVIOUS
  <2>1. i - k \in 1 .. Len(s) - k /\ k + (i - k) = i
    BY <1>0
  <2> QED BY <1>2, <2>1
<1>5. ToSet(s) \subseteq ToSet(a) \cup ToSet(b)
  BY <1>1, <1>2, <1>3, <1>4
<1>6. \A i \in 1 .. k : i \in 1 .. Len(s)
  BY <1>0
<1>7. \A i \in 1 .. Len(s) - k : k + i \in 1 .. Len(s)
  BY <1>0
<1>8. ToSet(a) \subseteq ToSet(s)
  BY <1>1, <1>3, <1>6
<1>9. ToSet(b) \subseteq ToSet(s)
  BY <1>2, <1>3, <1>7
<1> QED BY <1>1, <1>2, <1>5, <1>8, <1>9 DEF a, b

\* A message frame stands in a sequence once; a log holds a message once; a feed shows
\* a message once, as itself or as its placeholder.
OnceIn(s) ==
    \A i, j \in 1 .. Len(s) :
        s[i].type = "message" /\ s[i] = s[j] => i = j

OneEach(s) == \A i, j \in 1 .. Len(s) : s[i] = s[j] => i = j

Single(s) == \A i, j \in 1 .. Len(s) : s[i] \in {s[j], -s[j]} => i = j

LEMMA OnceAppended ==
    ASSUME NEW S, NEW s \in Seq(S), NEW e \in S, OnceIn(s), e.type = "message" => e \notin ToSet(s)
    PROVE  OnceIn(Append(s, e))
<1> DEFINE t == Append(s, e)
<1>1. /\ Len(t) = Len(s) + 1 /\ Len(s) \in Nat
      /\ \A i \in 1 .. Len(s) : t[i] = s[i]
      /\ t[Len(s) + 1] = e
  BY AppendProperties
<1> HIDE DEF t
<1>2. \A i \in 1 .. Len(t) : i \in 1 .. Len(s) \/ i = Len(s) + 1
  BY <1>1
<1>3. \A i \in 1 .. Len(s) : s[i] \in ToSet(s)
  BY Entry
<1>4. ASSUME NEW i \in 1 .. Len(t), NEW j \in 1 .. Len(t), t[i].type = "message", t[i] = t[j]
      PROVE  i = j
  <2>1. CASE i \in 1 .. Len(s) /\ j \in 1 .. Len(s)
    BY <1>1, <1>4, <2>1 DEF OnceIn
  <2>2. CASE i = Len(s) + 1 /\ j = Len(s) + 1
    BY <2>2
  <2>3. CASE i \in 1 .. Len(s) /\ j = Len(s) + 1
    BY <1>1, <1>3, <1>4, <2>3
  <2>4. CASE i = Len(s) + 1 /\ j \in 1 .. Len(s)
    BY <1>1, <1>3, <1>4, <2>4
  <2> QED BY <1>2, <2>1, <2>2, <2>3, <2>4
<1> QED BY <1>4 DEF OnceIn, t

LEMMA OnceTaken ==
    ASSUME NEW S, NEW s \in Seq(S), s # <<>>, OnceIn(s)
    PROVE  OnceIn(Tail(s)) /\ (Head(s).type = "message" => Head(s) \notin ToSet(Tail(s)))
<1> DEFINE t == Tail(s)
<1>1. /\ t \in Seq(S) /\ Len(t) = Len(s) - 1 /\ Len(s) \in Nat \ {0}
      /\ \A i \in 1 .. Len(t) : t[i] = s[i + 1]
  BY HeadTailProperties, EmptySeq
<1>2. Head(s) = s[1]
  OBVIOUS
<1> HIDE DEF t
<1>3. \A i \in 1 .. Len(t) : i + 1 \in 1 .. Len(s) /\ i + 1 # 1
  BY <1>1
<1>4. 1 \in 1 .. Len(s)
  BY <1>1
<1>5. \A x : x \in ToSet(t) <=> \E i \in 1 .. Len(t) : t[i] = x
  BY <1>1, Entry
<1>6. ASSUME Head(s).type = "message" PROVE Head(s) \notin ToSet(t)
  BY <1>1, <1>2, <1>3, <1>4, <1>5, <1>6 DEF OnceIn
<1>7. ASSUME NEW i \in 1 .. Len(t), NEW j \in 1 .. Len(t), t[i].type = "message", t[i] = t[j]
      PROVE  i = j
  <2>1. i + 1 = j + 1
    BY <1>1, <1>3, <1>7 DEF OnceIn
  <2> QED BY <2>1
<1> QED BY <1>6, <1>7 DEF OnceIn, t

LEMMA OneMore ==
    ASSUME NEW S, NEW s \in Seq(S), NEW e \in S, OneEach(s), e \notin ToSet(s)
    PROVE  OneEach(Append(s, e))
<1> DEFINE t == Append(s, e)
<1>1. /\ Len(t) = Len(s) + 1 /\ Len(s) \in Nat
      /\ \A i \in 1 .. Len(s) : t[i] = s[i]
      /\ t[Len(s) + 1] = e
  BY AppendProperties
<1> HIDE DEF t
<1>2. \A i \in 1 .. Len(t) : i \in 1 .. Len(s) \/ i = Len(s) + 1
  BY <1>1
<1>3. \A i \in 1 .. Len(s) : s[i] \in ToSet(s)
  BY Entry
<1>4. ASSUME NEW i \in 1 .. Len(t), NEW j \in 1 .. Len(t), t[i] = t[j]
      PROVE  i = j
  <2>1. CASE i \in 1 .. Len(s) /\ j \in 1 .. Len(s)
    BY <1>1, <1>4, <2>1 DEF OneEach
  <2>2. CASE i = Len(s) + 1 /\ j = Len(s) + 1
    BY <2>2
  <2>3. CASE i \in 1 .. Len(s) /\ j = Len(s) + 1
    BY <1>1, <1>3, <1>4, <2>3
  <2>4. CASE i = Len(s) + 1 /\ j \in 1 .. Len(s)
    BY <1>1, <1>3, <1>4, <2>4
  <2> QED BY <1>2, <2>1, <2>2, <2>3, <2>4
<1> QED BY <1>4 DEF OneEach, t

LEMMA EntriesAre == Entries \subseteq Int /\ Messages \subseteq Entries /\ \A n \in Messages : n > 0
BY ChatFeedAssumption DEF Entries, Messages

\* What a history shows is a part of the log, so it shows a message once.
LEMMA HistorySingle ==
    ASSUME NEW s \in Seq(Messages), NEW k \in 0 .. Len(s), OneEach(s)
    PROVE  Single(SubSeq(s, 1, k))
<1> DEFINE t == SubSeq(s, 1, k)
<1>1. t \in Seq(Messages) /\ Len(t) = k /\ \A i \in 1 .. k : t[i] = s[i]
  BY Parted
<1> HIDE DEF t
<1>2. \A i \in 1 .. k : i \in 1 .. Len(s)
  OBVIOUS
<1>3. \A i \in 1 .. k : t[i] \in Int /\ t[i] > 0
  <2> SUFFICES ASSUME NEW i \in 1 .. k PROVE t[i] \in Int /\ t[i] > 0
    OBVIOUS
  <2>1. t[i] \in Messages
    BY <1>1
  <2> QED BY <2>1, ChatFeedAssumption DEF Messages
<1>4. ASSUME NEW i \in 1 .. k, NEW j \in 1 .. k, t[i] \in {t[j], -t[j]} PROVE i = j
  <2>1. t[i] = t[j]
    BY <1>3, <1>4
  <2> QED BY <1>1, <1>2, <2>1 DEF OneEach
<1> QED BY <1>1, <1>4 DEF Single, t

LEMMA SingleMore ==
    ASSUME NEW s \in Seq(Entries), NEW e \in Entries, Single(s), e \notin ToSet(s), -e \notin ToSet(s)
    PROVE  Single(Append(s, e))
<1> DEFINE t == Append(s, e)
<1>1. /\ Len(t) = Len(s) + 1 /\ Len(s) \in Nat
      /\ \A i \in 1 .. Len(s) : t[i] = s[i]
      /\ t[Len(s) + 1] = e
  BY AppendProperties
<1> HIDE DEF t
<1>2. \A i \in 1 .. Len(t) : i \in 1 .. Len(s) \/ i = Len(s) + 1
  BY <1>1
<1>3. \A i \in 1 .. Len(s) : s[i] \in ToSet(s) /\ s[i] \in Int
  BY Entry, EntriesAre
<1>4. e \in Int
  BY EntriesAre
<1>5. \A i \in 1 .. Len(s) : s[i] # e /\ s[i] # -e
  BY <1>3
<1>6. ASSUME NEW i \in 1 .. Len(t), NEW j \in 1 .. Len(t), t[i] \in {t[j], -t[j]}
      PROVE  i = j
  <2>1. CASE i \in 1 .. Len(s) /\ j \in 1 .. Len(s)
    BY <1>1, <1>6, <2>1 DEF Single
  <2>2. CASE i = Len(s) + 1 /\ j = Len(s) + 1
    BY <2>2
  <2>3. CASE i \in 1 .. Len(s) /\ j = Len(s) + 1
    BY <1>1, <1>5, <1>6, <2>3
  <2>4. CASE i = Len(s) + 1 /\ j \in 1 .. Len(s)
    <3>1. e = s[j] \/ e = -s[j]
      BY <1>1, <1>6, <2>4
    <3> QED BY <1>3, <1>4, <1>5, <2>4, <3>1
  <2> QED BY <1>2, <2>1, <2>2, <2>3, <2>4
<1> QED BY <1>6 DEF Single, t

\* reconcileMessage shows the message and loses no other, and shows none twice.
LEMMA ReconciledIs ==
    ASSUME NEW s \in Seq(Entries), NEW n \in Messages, Single(s), NEW t, t = Reconciled(s, n)
    PROVE  /\ t \in Seq(Entries) /\ Single(t)
           /\ n \in ToSet(t)
           /\ \A x \in ToSet(s) : x > 0 => x \in ToSet(t)
           /\ ToSet(t) \subseteq ToSet(s) \cup {n}
<1>1. n \in Entries /\ n \in Int /\ n > 0
  BY ChatFeedAssumption DEF Messages, Entries
<1>2. \A e : Contains(s, e) <=> e \in ToSet(s)
  BY Entry DEF Contains
<1>3. /\ Len(s) \in Nat /\ \A i \in 1 .. Len(s) : s[i] \in Entries /\ s[i] \in Int
      /\ \A x : x \in ToSet(s) <=> \E i \in 1 .. Len(s) : s[i] = x
  BY Entry, EntriesAre
<1>4. CASE -n \in ToSet(s)
  <2>1. t = [i \in 1 .. Len(s) |-> IF s[i] = -n THEN n ELSE s[i]]
    <3>1. Contains(s, -n) /\ DOMAIN s = 1 .. Len(s)
      BY <1>2, <1>4, Entry
    <3> QED BY <3>1 DEF Reconciled
  <2>2. t \in Seq(Entries) /\ Len(t) = Len(s)
    <3>1. \A i \in 1 .. Len(s) : (IF s[i] = -n THEN n ELSE s[i]) \in Entries
      BY <1>1, <1>3
    <3> QED BY <1>3, <2>1, <3>1
  <2>3. \A i \in 1 .. Len(s) : t[i] = IF s[i] = -n THEN n ELSE s[i]
    BY <2>1
  <2>4. \A x : x \in ToSet(t) <=> \E i \in 1 .. Len(s) : t[i] = x
    BY <2>2, Entry
  <2>5. PICK k \in 1 .. Len(s) : s[k] = -n
    BY <1>3, <1>4
  <2>6. t[k] = n
    BY <2>3, <2>5
  <2>7. n \in ToSet(t)
    BY <2>4, <2>6
  <2>8. \A x \in ToSet(s) : x > 0 => x \in ToSet(t)
    BY <1>1, <1>3, <2>3, <2>4
  <2>9. ToSet(t) \subseteq ToSet(s) \cup {n}
    BY <1>3, <2>3, <2>4
  <2>10. Single(t)
    <3> SUFFICES ASSUME NEW i \in 1 .. Len(s), NEW j \in 1 .. Len(s), t[i] \in {t[j], -t[j]}
                 PROVE  i = j
      BY <2>2 DEF Single
    <3>1. s[i] \in {s[j], -s[j]}
      <4>1. s[i] \in Int /\ s[j] \in Int
        BY <1>3
      <4>2. (t[i] = s[i] \/ t[i] = -s[i]) /\ (t[j] = s[j] \/ t[j] = -s[j])
        BY <1>1, <2>3
      <4> QED BY <4>1, <4>2
    <3> QED BY <3>1 DEF Single
  <2> QED BY <2>2, <2>7, <2>8, <2>9, <2>10
<1>5. CASE -n \notin ToSet(s) /\ n \in ToSet(s)
  <2>1. t = s
    BY <1>2, <1>5 DEF Reconciled
  <2> QED BY <1>5, <2>1
<1>6. CASE -n \notin ToSet(s) /\ n \notin ToSet(s)
  <2>1. t = Append(s, n)
    BY <1>2, <1>6 DEF Reconciled
  <2>2. t \in Seq(Entries) /\ ToSet(t) = ToSet(s) \cup {n}
    BY <1>1, <2>1, Appended
  <2>3. Single(t)
    BY <1>1, <1>6, <2>1, SingleMore
  <2> QED BY <2>2, <2>3
<1> QED BY <1>4, <1>5, <1>6

LEMMA FrameIs ==
    ASSUME NEW t \in FrameTypes, NEW c \in OwnChannels \cup {NoChannel}, NEW n \in 0 .. MaxMessages
    PROVE  /\ Frame(t, c, n) \in FeedFrames
           /\ Frame(t, c, n).type = t /\ Frame(t, c, n).channel = c /\ Frame(t, c, n).message = n
BY DEF Frame, FeedFrames

------------------------------------------------------------------------------
(* The inductive invariant of a conversation.                                 *)

\* What the two ends of a connection know of each other: a joined frame on its way to
\* the client is of a channel it is in, and a client without a connection has neither
\* joined channels nor frames to come.
Connected ==
    /\ up => socket \in {"OPEN", "CLOSING"}
    /\ ~up => \A w \in work : w.type \in {"message", "broadcast"}
    /\ \A w \in work : w.type = "join" => authenticated
    /\ socket \in {"CONNECTING", "CLOSED"} => joined = {} /\ toClient = <<>>
    /\ reconnecting => socket = "CLOSED"
    /\ up => \A f \in ToSet(toClient) : f.type = "joined" => f.channel \in subscribed

\* What frames to the client are about, and how far the log reaches that a request read.
Wired ==
    /\ \A f \in ToSet(toClient) :
          /\ f.type = "joined" => f.channel \in OwnChannels
          /\ f.type = "message_created" => f.channel \in OwnChannels /\ f.message \in Messages
    /\ \A k \in 1 .. Len(request) :
          request[k].state = "read" => request[k].upto \in 0 .. Len(log[request[k].channel])

\* Nothing on its way, stored or shown has a number that was not given yet.
Numbered ==
    /\ \A f \in ToSet(toServer) \cup work \cup ToSet(toClient) : f.message <= posted
    /\ \A c \in OwnChannels : \A n \in ToSet(log[c]) : n <= posted
    /\ \A c \in OwnChannels : \A e \in ToSet(feed[c]) : -posted <= e /\ e <= posted

\* A message is on its way to the server, at its handler or stored, and only once;
\* it is stored in one channel.
StoredOnce ==
    /\ OnceIn(toServer)
    /\ \A f, g \in ToSet(toServer) \cup work :
          f.type = "message" /\ g.type = "message" /\ f.message = g.message => f = g
    /\ \A f \in ToSet(toServer) : f.type = "message" => f \notin work
    /\ \A f \in ToSet(toServer) \cup work, c \in OwnChannels :
          f.type = "message" => f.message \notin ToSet(log[c])
    /\ \A c \in OwnChannels : OneEach(log[c])
    /\ \A c, d \in OwnChannels : \A n \in ToSet(log[c]) : n \in ToSet(log[d]) => c = d

ShownOnce == \A c \in OwnChannels : Single(feed[c])

\* A stored message is shown, known not to be, or a broadcast or a frame brings it.
NothingForgotten ==
    mounted => \A c \in OwnChannels : \A n \in ToSet(log[c]) :
        \/ n \in unseen \cup overwritten \cup ToSet(feed[c])
        \/ Frame("broadcast", c, n) \in work
        \/ Frame("message_created", c, n) \in ToSet(toClient)

FeedInv ==
    /\ FeedTypeOK
    /\ Connected
    /\ JoinedIsSubscribed
    /\ Wired
    /\ Numbered
    /\ StoredOnce
    /\ ShownOnce
    /\ NothingForgotten

\* A message is shown once, and complete when nothing more is to come.
LEMMA FeedInvSuffices == FeedInv => FeedComplete
<1> SUFFICES ASSUME FeedInv, NEW c \in OwnChannels
             PROVE  /\ \A i, j \in DOMAIN feed[c] : feed[c][i] \in {feed[c][j], -feed[c][j]} => i = j
                    /\ mounted /\ Settled(c) =>
                           ToSet(log[c]) \ (unseen \cup overwritten) \subseteq ToSet(feed[c])
  BY DEF FeedComplete
<1>1. DOMAIN feed[c] = 1 .. Len(feed[c]) /\ log[c] \in Seq(Messages)
  BY DEF FeedInv, FeedTypeOK
<1>2. \A i, j \in DOMAIN feed[c] : feed[c][i] \in {feed[c][j], -feed[c][j]} => i = j
  BY <1>1 DEF FeedInv, ShownOnce, Single
<1>3. ASSUME mounted, Settled(c), NEW n \in ToSet(log[c]), n \notin unseen \cup overwritten
      PROVE  n \in ToSet(feed[c])
  <2>1. \/ n \in ToSet(feed[c])
        \/ Frame("broadcast", c, n) \in work
        \/ Frame("message_created", c, n) \in ToSet(toClient)
    BY <1>3 DEF FeedInv, NothingForgotten
  <2>2. n \in 0 .. MaxMessages
    <3>1. n \in Messages
      BY <1>1, <1>3, Entry
    <3> QED BY <3>1, ChatFeedAssumption DEF Messages
  <2>3. \A t \in FrameTypes : Frame(t, c, n).type = t /\ Frame(t, c, n).channel = c
    BY <2>2, FrameIs
  <2>4. "broadcast" \in FrameTypes /\ "message_created" \in FrameTypes
    BY DEF FrameTypes
  <2>5. Frame("broadcast", c, n) \notin work
    BY <1>3, <2>3, <2>4 DEF Settled
  <2>6. Frame("message_created", c, n) \notin ToSet(toClient)
    BY <1>3, <2>3, <2>4 DEF Settled
  <2> QED BY <2>1, <2>5, <2>6
<1> QED BY <1>2, <1>3

------------------------------------------------------------------------------
(* What the steps have in common.                                             *)

LEMMA Lone ==
    ASSUME NEW S, NEW x \in S
    PROVE  <<x>> \in Seq(S) /\ ToSet(<<x>>) = {x} /\ Len(<<x>>) = 1
<1>1. <<x>> \in Seq(S) /\ Len(<<x>>) = 1 /\ <<x>>[1] = x
  OBVIOUS
<1>2. \A y : y \in ToSet(<<x>>) <=> \E i \in 1 .. Len(<<x>>) : <<x>>[i] = y
  BY <1>1, Entry
<1>3. \A i \in 1 .. 1 : i = 1
  OBVIOUS
<1> QED BY <1>1, <1>2, <1>3

LEMMA NoneIn == \A x : x \notin ToSet(<<>>)
BY DEF ToSet

\* The frames that carry no message.
Joining(c) == Frame("join", c, 0)

LEMMA HandshakeIs ==
    /\ Handshake \in FeedFrames /\ Handshake.type = "authenticate" /\ Handshake.message = 0
    /\ \A c \in OwnChannels : /\ Joining(c) \in FeedFrames /\ Joining(c).type = "join"
                              /\ Joining(c).channel = c /\ Joining(c).message = 0
BY ChatFeedAssumption DEF Handshake, Joining, Frame, FeedFrames, FrameTypes

\* socket.send adds a frame at most.
LEMMA SentIs ==
    ASSUME FeedInv, NEW f \in FeedFrames, f.type = "message" => f \notin ToSet(toServer)
    PROVE  /\ Sent(f) \in Seq(FeedFrames) /\ ToSet(Sent(f)) \subseteq ToSet(toServer) \cup {f}
           /\ ~up => Sent(f) = toServer
           /\ OnceIn(Sent(f))
<1>1. toServer \in Seq(FeedFrames) /\ OnceIn(toServer)
  BY DEF FeedInv, FeedTypeOK, StoredOnce
<1>2. Sent(f) = toServer \/ (up /\ Sent(f) = Append(toServer, f))
  BY DEF Sent
<1>3. Append(toServer, f) \in Seq(FeedFrames) /\ ToSet(Append(toServer, f)) = ToSet(toServer) \cup {f}
  BY <1>1, Appended
<1>4. OnceIn(Append(toServer, f))
  BY <1>1, OnceAppended
<1> QED BY <1>1, <1>2, <1>3, <1>4

\* A step that sends and stores no message.
LEMMA NoNewMessages ==
    ASSUME StoredOnce, log' = log, OnceIn(toServer'),
           \A f \in ToSet(toServer') : f.type = "message" => f \in ToSet(toServer),
           \A f \in work' : f.type = "message" => f \in work
    PROVE  StoredOnce'
BY DEF StoredOnce

LEMMA SameMessages == ASSUME StoredOnce, UNCHANGED <<toServer, work, log>> PROVE StoredOnce'
BY DEF StoredOnce

LEMMA NoNewNumbers ==
    ASSUME Numbered, UNCHANGED <<log, feed, posted>>, posted \in Nat,
           \A f \in ToSet(toServer') \cup work' \cup ToSet(toClient') :
               f \in ToSet(toServer) \cup work \cup ToSet(toClient) \/ f.message = 0
    PROVE  Numbered'
BY DEF Numbered

LEMMA SameWires ==
    ASSUME Wired, UNCHANGED <<request, log>>, ToSet(toClient') \subseteq ToSet(toClient)
    PROVE  Wired'
BY DEF Wired

\* What a conversation shows changes with its wires, its work and its feeds only.
LEMMA SameShown ==
    ASSUME ShownOnce, NothingForgotten, mounted' => mounted,
           UNCHANGED <<log, feed, unseen, overwritten>>,
           \A c \in OwnChannels, n \in Messages :
               /\ Frame("broadcast", c, n) \in work => Frame("broadcast", c, n) \in work'
               /\ Frame("message_created", c, n) \in ToSet(toClient)
                      => Frame("message_created", c, n) \in ToSet(toClient'),
           FeedTypeOK
    PROVE  ShownOnce' /\ NothingForgotten'
<1>1. ShownOnce'
  BY DEF ShownOnce
<1>2. \A c \in OwnChannels : ToSet(log[c]) \subseteq Messages
  BY Entry DEF FeedTypeOK
<1>3. NothingForgotten'
  BY <1>2 DEF NothingForgotten
<1> QED BY <1>1, <1>3

LEMMA PostedIs == FeedTypeOK => posted \in Nat /\ posted \in Int
BY ChatFeedAssumption DEF FeedTypeOK

------------------------------------------------------------------------------
(* Every action keeps the invariant.                                          *)

LEMMA ConversationStarts == FeedInit => FeedInv
<1> SUFFICES ASSUME FeedInit PROVE FeedInv
  OBVIOUS
<1>1. \A c \in OwnChannels : feed[c] = <<>> /\ log[c] = <<>>
  BY DEF FeedInit
<1>2. 0 \in 0 .. MaxDrops /\ 0 \in 0 .. MaxMessages
  BY ChatFeedAssumption
<1>3. FeedTypeOK
  <2>1. feed \in [OwnChannels -> Seq(Entries)] /\ log \in [OwnChannels -> Seq(Messages)]
    BY DEF FeedInit
  <2>2. toServer = <<>> /\ toClient = <<>> /\ request = <<>>
    BY DEF FeedInit
  <2>3. toServer \in Seq(FeedFrames) /\ toClient \in Seq(FeedFrames) /\ request \in Seq(Requests)
    BY <2>2
  <2> QED BY <1>2, <2>1, <2>3 DEF FeedInit, FeedTypeOK
<1>4. Len(<<>>) = 0 /\ \A i \in 1 .. 0 : FALSE
  OBVIOUS
<1>5. Connected /\ JoinedIsSubscribed
  BY NoneIn DEF FeedInit, Connected, JoinedIsSubscribed
<1>6. Wired /\ Numbered
  BY NoneIn, <1>1, <1>4 DEF FeedInit, Wired, Numbered
<1>7. StoredOnce /\ ShownOnce
  BY NoneIn, <1>1, <1>4 DEF FeedInit, StoredOnce, OnceIn, OneEach, ShownOnce, Single
<1>8. NothingForgotten
  BY NoneIn, <1>1 DEF NothingForgotten
<1> QED BY <1>3, <1>5, <1>6, <1>7, <1>8 DEF FeedInv

LEMMA OpenedKeeps == ASSUME FeedInv, Opened PROVE FeedInv'
<1> USE DEF browser, feeds, server, verdicts, wires
<1>1. /\ ~up /\ joined = {} /\ toClient = <<>> /\ toServer = <<>> /\ subscribed = {}
      /\ ~authenticated
  BY DEF Opened, FeedInv, Connected, FeedTypeOK
<1>2. toServer' = <<Handshake>> /\ toClient' = toClient
  BY <1>1 DEF Opened, Handshake
<1>3. toServer' \in Seq(FeedFrames) /\ ToSet(toServer') = {Handshake} /\ Len(toServer') = 1
  BY <1>2, Lone, HandshakeIs
<1>4. FeedTypeOK'
  BY <1>1, <1>2, <1>3 DEF FeedInv, FeedTypeOK, Opened
<1>5. Connected' /\ JoinedIsSubscribed'
  BY <1>1, <1>2, NoneIn DEF FeedInv, Connected, JoinedIsSubscribed, Opened
<1>6. Wired'
  BY <1>2, SameWires DEF FeedInv, Opened
<1>7. Numbered'
  BY <1>2, <1>3, HandshakeIs, NoNewNumbers, PostedIs DEF FeedInv, Opened
<1>8. StoredOnce'
  <2>1. OnceIn(toServer')
    <3>1. \A i \in 1 .. 1 : i = 1
      OBVIOUS
    <3> QED BY <1>3, <3>1 DEF OnceIn
  <2> QED BY <1>3, <2>1, HandshakeIs, NoNewMessages DEF FeedInv, Opened
<1>9. ShownOnce' /\ NothingForgotten'
  BY <1>2, SameShown DEF FeedInv, Opened
<1> QED BY <1>4, <1>5, <1>6, <1>7, <1>8, <1>9 DEF FeedInv

LEMMA ReauthenticateKeeps == ASSUME FeedInv, Reauthenticate PROVE FeedInv'
<1> USE DEF browser, feeds, server, verdicts, wires
<1>1. toServer' = Sent(Handshake)
  BY DEF Reauthenticate, Handshake
<1>2. /\ toServer' \in Seq(FeedFrames) /\ ToSet(toServer') \subseteq ToSet(toServer) \cup {Handshake}
      /\ ~up => toServer' = toServer
      /\ OnceIn(toServer')
  BY <1>1, HandshakeIs, SentIs
<1>3. FeedTypeOK'
  BY <1>2 DEF FeedInv, FeedTypeOK, Reauthenticate
<1>4. Connected' /\ JoinedIsSubscribed'
  BY DEF FeedInv, Connected, JoinedIsSubscribed, Reauthenticate
<1>5. Wired'
  BY SameWires DEF FeedInv, Reauthenticate
<1>6. Numbered'
  BY <1>2, HandshakeIs, NoNewNumbers, PostedIs DEF FeedInv, Reauthenticate
<1>7. StoredOnce'
  BY <1>2, HandshakeIs, NoNewMessages DEF FeedInv, Reauthenticate
<1>8. ShownOnce' /\ NothingForgotten'
  BY SameShown DEF FeedInv, Reauthenticate
<1> QED BY <1>3, <1>4, <1>5, <1>6, <1>7, <1>8 DEF FeedInv

\* The client's end of a connection opens and closes without a frame.
LEMMA ClientKeeps == ASSUME FeedInv, Disconnected \/ Refused \/ Reconnect PROVE FeedInv'
<1> USE DEF browser, feeds, server, verdicts, wires
<1>1. UNCHANGED <<mounted, selected, loaded, feed, request, overwritten, up, authenticated,
                  subscribed, work, log, unseen, toServer, toClient, posted>>
  BY DEF Disconnected, Refused, Reconnect
<1>2. joined' \subseteq joined /\ drops' \in 0 .. MaxDrops
  <2>1. joined' \subseteq joined
    BY DEF Disconnected, Refused, Reconnect
  <2>2. drops \in 0 .. MaxDrops
    BY DEF FeedInv, FeedTypeOK
  <2>3. drops' = drops \/ (drops < MaxDrops /\ drops' = drops + 1)
    BY DEF Disconnected, Refused, Reconnect
  <2> QED BY <2>1, <2>2, <2>3, ChatFeedAssumption
<1>3. /\ socket' \in {"CONNECTING", "CLOSED"} /\ reconnecting' \in BOOLEAN
      /\ ~up /\ joined' = {} /\ toClient = <<>>
      /\ reconnecting' => socket' = "CLOSED"
  BY DEF Disconnected, Refused, Reconnect, FeedInv, FeedTypeOK, Connected
<1>4. FeedTypeOK'
  BY <1>1, <1>2, <1>3 DEF FeedInv, FeedTypeOK
<1>5. Connected' /\ JoinedIsSubscribed'
  BY <1>1, <1>3 DEF FeedInv, Connected, JoinedIsSubscribed
<1>6. Wired'
  BY <1>1, SameWires DEF FeedInv
<1>7. Numbered' /\ StoredOnce'
  BY <1>1, NoNewNumbers, SameMessages, PostedIs DEF FeedInv
<1>8. ShownOnce' /\ NothingForgotten'
  BY <1>1, SameShown DEF FeedInv
<1> QED BY <1>4, <1>5, <1>6, <1>7, <1>8 DEF FeedInv

LEMMA UnmountKeeps == ASSUME FeedInv, Unmount PROVE FeedInv'
<1> USE DEF browser, feeds, server, verdicts, wires
<1>1. UNCHANGED <<up, authenticated, subscribed, work, log, unseen, toServer, toClient, posted,
                  drops>>
  BY DEF Unmount
<1>2. /\ mounted' = FALSE /\ selected' = NoChannel /\ joined' = {} /\ loaded' = {}
      /\ request' = <<>> /\ overwritten' = {} /\ reconnecting' = FALSE
      /\ feed' = [c \in OwnChannels |-> <<>>]
      /\ socket' = IF socket = "CLOSED" THEN "CLOSED" ELSE "CLOSING"
  BY DEF Unmount
<1>3. \A c \in OwnChannels : feed'[c] = <<>>
  BY <1>2
<1>4. FeedTypeOK'
  <2>1. feed' \in [OwnChannels -> Seq(Entries)]
    BY <1>2
  <2>2. request' \in Seq(Requests)
    BY <1>2
  <2> QED BY <1>1, <1>2, <2>1, <2>2 DEF FeedInv, FeedTypeOK
<1>5. Connected' /\ JoinedIsSubscribed'
  BY <1>1, <1>2 DEF FeedInv, FeedTypeOK, Connected, JoinedIsSubscribed
<1>6. Len(<<>>) = 0 /\ \A i \in 1 .. 0 : FALSE
  OBVIOUS
<1>7. Wired' /\ Numbered'
  BY <1>1, <1>2, <1>3, <1>6, NoneIn DEF FeedInv, Wired, Numbered
<1>8. StoredOnce'
  BY <1>1, SameMessages DEF FeedInv
<1>9. ShownOnce' /\ NothingForgotten'
  BY <1>2, <1>3, <1>6 DEF ShownOnce, Single, NothingForgotten
<1> QED BY <1>4, <1>5, <1>7, <1>8, <1>9 DEF FeedInv

\* A connection that ends: what the client does not get any more is known unseen.
LEMMA CutKeeps ==
    ASSUME FeedInv, up, NEW k \in 0 .. Len(toClient), Cut(k), drops' \in 0 .. MaxDrops
    PROVE  FeedInv'
<1> USE DEF browser, feeds, server, verdicts, wires
<1> DEFINE lost == SubSeq(toClient, k + 1, Len(toClient))
<1>1. /\ up' = FALSE /\ authenticated' = FALSE /\ subscribed' = {} /\ toServer' = <<>>
      /\ work' = {w \in work : w.type \in {"message", "broadcast"}}
      /\ toClient' = SubSeq(toClient, 1, k)
      /\ unseen' = unseen \cup MessagesOf(lost)
      /\ UNCHANGED <<mounted, socket, reconnecting, selected, joined, loaded, feed, request,
                     overwritten, log, posted>>
  BY DEF Cut
<1>2. toClient \in Seq(FeedFrames)
  BY DEF FeedInv, FeedTypeOK
<1>3. /\ toClient' \in Seq(FeedFrames) /\ lost \in Seq(FeedFrames)
      /\ ToSet(toClient) = ToSet(toClient') \cup ToSet(lost)
  BY <1>1, <1>2, Parted
<1> HIDE DEF lost
<1>4. MessagesOf(lost) \subseteq Messages
  BY <1>3 DEF MessagesOf, FeedInv, Wired
<1>5. FeedTypeOK'
  <2>1. work' \subseteq FeedFrames
    BY <1>1 DEF FeedInv, FeedTypeOK
  <2>2. unseen' \subseteq Messages
    BY <1>1, <1>4 DEF FeedInv, FeedTypeOK
  <2>3. UNCHANGED <<mounted, socket, reconnecting, selected, joined, loaded, feed, request,
                    overwritten, log, posted>>
    BY <1>1
  <2>4. up' = FALSE /\ authenticated' = FALSE /\ subscribed' = {} /\ toServer' = <<>>
    BY <1>1
  <2>5. toServer' \in Seq(FeedFrames)
    BY <2>4
  <2> QED BY <1>3, <2>1, <2>2, <2>3, <2>4, <2>5 DEF FeedInv, FeedTypeOK
<1>6. Connected' /\ JoinedIsSubscribed'
  BY <1>1 DEF FeedInv, Connected, JoinedIsSubscribed
<1>7. Wired'
  BY <1>1, <1>3, SameWires DEF FeedInv
<1>8. Numbered'
  BY <1>1, <1>3, NoneIn, NoNewNumbers, PostedIs DEF FeedInv
<1>9. StoredOnce'
  <2>1. OnceIn(<<>>)
    BY DEF OnceIn
  <2> QED BY <1>1, <2>1, NoneIn, NoNewMessages DEF FeedInv
<1>10. ShownOnce'
  BY <1>1 DEF FeedInv, ShownOnce
<1>11. NothingForgotten'
  <2> SUFFICES ASSUME mounted, NEW c \in OwnChannels, NEW n \in ToSet(log[c])
               PROVE  \/ n \in unseen' \cup overwritten \cup ToSet(feed[c])
                      \/ Frame("broadcast", c, n) \in work'
                      \/ Frame("message_created", c, n) \in ToSet(toClient')
    BY <1>1 DEF NothingForgotten
  <2>1. \/ n \in unseen \cup overwritten \cup ToSet(feed[c])
        \/ Frame("broadcast", c, n) \in work
        \/ Frame("message_created", c, n) \in ToSet(toClient)
    BY DEF FeedInv, NothingForgotten
  <2>2. n \in 0 .. MaxMessages
    <3>1. n \in Messages
      BY Entry DEF FeedInv, FeedTypeOK
    <3> QED BY <3>1, ChatFeedAssumption DEF Messages
  <2>3. "broadcast" \in FrameTypes /\ "message_created" \in FrameTypes
    BY DEF FrameTypes
  <2>4. /\ Frame("broadcast", c, n).type = "broadcast"
        /\ Frame("message_created", c, n).type = "message_created"
        /\ Frame("message_created", c, n).message = n
    BY <2>2, <2>3, FrameIs
  <2>5. CASE Frame("broadcast", c, n) \in work
    BY <1>1, <2>4, <2>5
  <2>6. CASE Frame("message_created", c, n) \in ToSet(lost)
    <3>1. n \in MessagesOf(lost)
      BY <2>4, <2>6 DEF MessagesOf
    <3> QED BY <1>1, <3>1
  <2> QED BY <1>1, <1>3, <2>1, <2>5, <2>6
<1> QED BY <1>5, <1>6, <1>7, <1>8, <1>9, <1>10, <1>11 DEF FeedInv

LEMMA BreaksKeep == ASSUME FeedInv, Breaks PROVE FeedInv'
<1>1. toClient \in Seq(FeedFrames) /\ drops \in 0 .. MaxDrops
  BY DEF FeedInv, FeedTypeOK
<1>2. Len(toClient) \in 0 .. Len(toClient)
  BY <1>1
<1>3. CASE Drop
  <2>1. PICK k \in 0 .. Len(toClient) : Cut(k)
    BY <1>3 DEF Drop
  <2>2. up /\ drops' \in 0 .. MaxDrops
    BY <1>1, <1>3, ChatFeedAssumption DEF Drop
  <2> QED BY <2>1, <2>2, CutKeeps
<1>4. CASE Hangup
  BY <1>1, <1>2, <1>4, CutKeeps DEF Hangup
<1>5. CASE TurnedAway
  BY <1>1, <1>2, <1>5, CutKeeps DEF TurnedAway
<1>6. CASE TurnAway
  <2>1. up
    BY <1>6, HandshakeIs DEF TurnAway, FeedInv, Connected
  <2> QED BY <1>1, <1>2, <1>6, <2>1, CutKeeps DEF TurnAway
<1>7. CASE Swept
  BY <1>1, <1>2, <1>7, CutKeeps DEF Swept
<1> QED BY <1>3, <1>4, <1>5, <1>6, <1>7 DEF Breaks

\* What the server would say of the tab's token, and a join that is refused, touch nothing
\* else of the conversation.
LEMMA StandingKeeps ==
    ASSUME FeedInv, drops' \in 0 .. MaxDrops, work' \subseteq work,
           \A w \in work : w.type = "broadcast" => w \in work',
           UNCHANGED <<mounted, socket, reconnecting, selected, joined, loaded, feed, request,
                       overwritten, up, authenticated, subscribed, log, unseen, toServer,
                       toClient, posted>>
    PROVE  FeedInv'
<1>1. FeedTypeOK' /\ Connected' /\ JoinedIsSubscribed'
  BY DEF FeedInv, FeedTypeOK, Connected, JoinedIsSubscribed
<1>2. Wired'
  BY SameWires DEF FeedInv
<1>3. Numbered'
  BY NoNewNumbers, PostedIs DEF FeedInv
<1>4. StoredOnce'
  <2>1. OnceIn(toServer')
    BY DEF FeedInv, StoredOnce
  <2> QED BY <2>1, NoNewMessages DEF FeedInv
<1>5. ShownOnce' /\ NothingForgotten'
  <2>1. \A c \in OwnChannels, n \in Messages : Frame("broadcast", c, n).type = "broadcast"
    BY DEF Frame
  <2> QED BY <2>1, SameShown DEF FeedInv
<1> QED BY <1>1, <1>2, <1>3, <1>4, <1>5 DEF FeedInv

LEMMA VerdictsKeep ==
    ASSUME FeedInv, Standing \/ \E c \in OwnChannels : DeclineJoin(c)
    PROVE  FeedInv'
<1> USE DEF browser, feeds, wires
<1>1. drops \in 0 .. MaxDrops
  BY DEF FeedInv, FeedTypeOK
<1>2. drops' = drops \/ (drops < MaxDrops /\ drops' = drops + 1)
  BY DEF Standing, Lapse, Relent, DeclineJoin
<1>3. drops' \in 0 .. MaxDrops
  BY <1>1, <1>2, ChatFeedAssumption
<1>4. CASE Standing
  BY <1>3, <1>4, StandingKeeps DEF Standing, Lapse, Relent
<1>5. ASSUME NEW c \in OwnChannels, DeclineJoin(c) PROVE FeedInv'
  <2>1. work' = work \ {Joining(c)}
    BY <1>5 DEF DeclineJoin, Joining
  <2>2. \A w \in work : w.type = "broadcast" => w \in work'
    BY <2>1, HandshakeIs
  <2> QED BY <1>3, <1>5, <2>1, <2>2, StandingKeeps DEF DeclineJoin
<1> QED BY <1>4, <1>5

LEMMA ReceiveKeeps == ASSUME FeedInv, Receive PROVE FeedInv'
<1> USE DEF browser, feeds, server, verdicts, wires
<1> DEFINE frame == Head(toServer)
<1>1. /\ up /\ toServer # <<>> /\ toServer' = Tail(toServer)
      /\ authenticated \/ frame.type = "authenticate"
      /\ work' = work \/ work' = work \cup {frame}
      /\ UNCHANGED <<mounted, socket, reconnecting, selected, joined, loaded, feed, request,
                     overwritten, up, authenticated, subscribed, log, unseen, toClient, posted,
                     drops>>
  BY DEF Receive
<1>2. toServer \in Seq(FeedFrames) /\ OnceIn(toServer)
  BY DEF FeedInv, FeedTypeOK, StoredOnce
<1>3. /\ frame \in FeedFrames /\ toServer' \in Seq(FeedFrames)
      /\ ToSet(toServer) = ToSet(toServer') \cup {frame}
  BY <1>1, <1>2, Taken
<1>4. OnceIn(toServer') /\ (frame.type = "message" => frame \notin ToSet(toServer'))
  BY <1>1, <1>2, OnceTaken
<1> HIDE DEF frame
<1>5. FeedTypeOK'
  <2>1. work' \subseteq FeedFrames
    BY <1>1, <1>3 DEF FeedInv, FeedTypeOK
  <2> QED BY <1>1, <1>3, <2>1 DEF FeedInv, FeedTypeOK
<1>6. Connected' /\ JoinedIsSubscribed'
  BY <1>1 DEF FeedInv, Connected, JoinedIsSubscribed
<1>7. Wired'
  BY <1>1, SameWires DEF FeedInv
<1>8. Numbered'
  BY <1>1, <1>3, NoNewNumbers, PostedIs DEF FeedInv
<1>9. StoredOnce'
  <2>1. \A f \in ToSet(toServer') \cup work' : f \in ToSet(toServer) \cup work
    BY <1>1, <1>3
  <2>2. ASSUME NEW f \in ToSet(toServer'), f.type = "message" PROVE f \notin work'
    <3>1. f \in ToSet(toServer) /\ f # frame
      BY <1>3, <1>4, <2>2
    <3> QED BY <1>1, <2>2, <3>1 DEF FeedInv, StoredOnce
  <2> QED BY <1>1, <1>4, <2>1, <2>2 DEF FeedInv, StoredOnce
<1>10. ShownOnce' /\ NothingForgotten'
  BY <1>1, SameShown DEF FeedInv
<1> QED BY <1>5, <1>6, <1>7, <1>8, <1>9, <1>10 DEF FeedInv

LEMMA HandleAuthenticateKeeps == ASSUME FeedInv, HandleAuthenticate PROVE FeedInv'
<1> USE DEF browser, feeds, server, verdicts, wires
<1> DEFINE told == Frame("authenticated", NoChannel, 0)
<1>1. /\ Handshake \in work /\ work' = work \ {Handshake} /\ authenticated' = TRUE
      /\ toClient' = Append(toClient, told)
      /\ UNCHANGED <<mounted, socket, reconnecting, selected, joined, loaded, feed, request,
                     overwritten, up, subscribed, log, unseen, toServer, posted, drops>>
  BY DEF HandleAuthenticate, Handshake, verdicts
<1>2. told \in FeedFrames /\ told.type = "authenticated" /\ told.message = 0
  BY ChatFeedAssumption DEF Frame, FeedFrames, FrameTypes
<1> HIDE DEF told
<1>3. toClient' \in Seq(FeedFrames) /\ ToSet(toClient') = ToSet(toClient) \cup {told}
  BY <1>1, <1>2, Appended DEF FeedInv, FeedTypeOK
<1>4. up
  BY <1>1, HandshakeIs DEF FeedInv, Connected
<1>5. FeedTypeOK'
  <2>1. work' \subseteq FeedFrames
    BY <1>1 DEF FeedInv, FeedTypeOK
  <2> QED BY <1>1, <1>3, <1>4, <2>1 DEF FeedInv, FeedTypeOK
<1>6. Connected' /\ JoinedIsSubscribed'
  BY <1>1, <1>2, <1>3, <1>4 DEF FeedInv, Connected, JoinedIsSubscribed
<1>7. Wired'
  BY <1>1, <1>2, <1>3 DEF FeedInv, Wired
<1>8. Numbered'
  BY <1>1, <1>2, <1>3, NoNewNumbers, PostedIs DEF FeedInv
<1>9. StoredOnce'
  <2>1. OnceIn(toServer')
    BY <1>1 DEF FeedInv, StoredOnce
  <2> QED BY <1>1, <2>1, NoNewMessages DEF FeedInv
<1>10. ShownOnce' /\ NothingForgotten'
  <2>1. \A c \in OwnChannels, n \in Messages : Frame("broadcast", c, n) # Handshake
    BY DEF Frame, Handshake
  <2> QED BY <1>1, <1>3, <2>1, SameShown DEF FeedInv
<1> QED BY <1>5, <1>6, <1>7, <1>8, <1>9, <1>10 DEF FeedInv

LEMMA HandleJoinKeeps == ASSUME FeedInv, NEW c \in OwnChannels, HandleJoin(c) PROVE FeedInv'
<1> USE DEF browser, feeds, server, verdicts, wires
<1> DEFINE told == Frame("joined", c, 0)
<1>1. /\ Joining(c) \in work /\ work' = work \ {Joining(c)} /\ subscribed' = subscribed \cup {c}
      /\ toClient' = Append(toClient, told)
      /\ UNCHANGED <<mounted, socket, reconnecting, selected, joined, loaded, feed, request,
                     overwritten, up, authenticated, log, unseen, toServer, posted, drops>>
  BY DEF HandleJoin, Joining
<1>2. told \in FeedFrames /\ told.type = "joined" /\ told.message = 0 /\ told.channel = c
  BY ChatFeedAssumption DEF Frame, FeedFrames, FrameTypes
<1> HIDE DEF told
<1>3. toClient' \in Seq(FeedFrames) /\ ToSet(toClient') = ToSet(toClient) \cup {told}
  BY <1>1, <1>2, Appended DEF FeedInv, FeedTypeOK
<1>4. up /\ authenticated
  BY <1>1, HandshakeIs DEF FeedInv, Connected
<1>5. FeedTypeOK'
  <2>1. work' \subseteq FeedFrames /\ subscribed' \subseteq OwnChannels
    BY <1>1 DEF FeedInv, FeedTypeOK
  <2> QED BY <1>1, <1>3, <1>4, <2>1 DEF FeedInv, FeedTypeOK
<1>6. Connected' /\ JoinedIsSubscribed'
  BY <1>1, <1>2, <1>3, <1>4 DEF FeedInv, Connected, JoinedIsSubscribed
<1>7. Wired'
  BY <1>1, <1>2, <1>3 DEF FeedInv, Wired
<1>8. Numbered'
  BY <1>1, <1>2, <1>3, NoNewNumbers, PostedIs DEF FeedInv
<1>9. StoredOnce'
  <2>1. OnceIn(toServer')
    BY <1>1 DEF FeedInv, StoredOnce
  <2> QED BY <1>1, <2>1, NoNewMessages DEF FeedInv
<1>10. ShownOnce' /\ NothingForgotten'
  <2>1. \A d \in OwnChannels, n \in Messages : Frame("broadcast", d, n) # Joining(c)
    BY DEF Frame, Joining
  <2> QED BY <1>1, <1>3, <2>1, SameShown DEF FeedInv
<1> QED BY <1>5, <1>6, <1>7, <1>8, <1>9, <1>10 DEF FeedInv

\* A message is stored: its broadcast is under way.
LEMMA StoreKeeps ==
    ASSUME FeedInv, NEW c \in OwnChannels, NEW n \in Messages,
           log' = [log EXCEPT ![c] = Append(@, n)],
           \A d \in OwnChannels : n \notin ToSet(log[d]),
           posted' \in {posted, posted + 1}, posted' <= MaxMessages, n <= posted',
           Frame("broadcast", c, n) \in work', work' \subseteq work \cup {Frame("broadcast", c, n)},
           \A f \in work : f.type # "message" => f \in work',
           \A f \in ToSet(toServer) \cup work' : f.type = "message" => f.message # n,
           UNCHANGED <<mounted, socket, reconnecting, selected, joined, loaded, feed, request,
                       overwritten, up, authenticated, subscribed, unseen, toServer, toClient,
                       drops>>
    PROVE  FeedInv'
<1> DEFINE b == Frame("broadcast", c, n)
<1>1. n \in 0 .. MaxMessages /\ n \in Nat /\ posted \in Nat /\ posted' \in 0 .. MaxMessages
  BY ChatFeedAssumption DEF Messages, FeedInv, FeedTypeOK
<1>2. b \in FeedFrames /\ b.type = "broadcast" /\ b.channel = c /\ b.message = n
  BY <1>1, FrameIs DEF FrameTypes
<1> HIDE DEF b
<1>3. /\ log \in [OwnChannels -> Seq(Messages)]
      /\ log'[c] = Append(log[c], n) /\ \A d \in OwnChannels \ {c} : log'[d] = log[d]
  BY DEF FeedInv, FeedTypeOK
<1>4. /\ log'[c] \in Seq(Messages) /\ ToSet(log'[c]) = ToSet(log[c]) \cup {n}
      /\ Len(log'[c]) = Len(log[c]) + 1 /\ Len(log[c]) \in Nat
  BY <1>3, Appended, AppendProperties
<1>5. log' \in [OwnChannels -> Seq(Messages)]
  BY <1>3, <1>4
<1>6. \A d \in OwnChannels : ToSet(log'[d]) = ToSet(log[d]) \/ (d = c /\ ToSet(log'[d]) = ToSet(log[d]) \cup {n})
  BY <1>3, <1>4
<1>7. FeedTypeOK'
  <2>1. work' \subseteq FeedFrames
    BY <1>2 DEF FeedInv, FeedTypeOK, b
  <2> QED BY <1>1, <1>5, <2>1 DEF FeedInv, FeedTypeOK
<1>8. Connected' /\ JoinedIsSubscribed'
  BY <1>2 DEF FeedInv, Connected, JoinedIsSubscribed, b
<1>9. Wired'
  <2>1. \A d \in OwnChannels : Len(log[d]) \in Nat /\ Len(log'[d]) \in Nat /\ Len(log[d]) <= Len(log'[d])
    BY <1>3, <1>4
  <2>2. \A k \in 1 .. Len(request) : request[k].channel \in OwnChannels
    <3>1. request \in Seq(Requests)
      BY DEF FeedInv, FeedTypeOK
    <3>2. \A k \in 1 .. Len(request) : request[k] \in Requests
      BY <3>1, ElementOfSeq
    <3> QED BY <3>2 DEF Requests
  <2>3. \A k \in 1 .. Len(request) :
            request[k].state = "read" => request[k].upto \in 0 .. Len(log'[request[k].channel])
    BY <2>1, <2>2 DEF FeedInv, Wired
  <2> QED BY <2>3 DEF FeedInv, Wired
<1>10. Numbered'
  <2>1. posted <= posted'
    BY <1>1
  <2>2. ASSUME NEW f \in ToSet(toServer) \cup work' \cup ToSet(toClient) PROVE f.message <= posted'
    <3>1. f = b \/ f \in ToSet(toServer) \cup work \cup ToSet(toClient)
      BY DEF b
    <3>2. CASE f \in ToSet(toServer) \cup work \cup ToSet(toClient)
      <4>1. f \in FeedFrames
        BY <3>2, Entry DEF FeedInv, FeedTypeOK
      <4>2. f.message \in Int
        BY <4>1, ChatFeedAssumption DEF FeedFrames
      <4>3. f.message <= posted
        BY <3>2 DEF FeedInv, Numbered
      <4> QED BY <1>1, <2>1, <4>2, <4>3
    <3> QED BY <1>2, <3>1, <3>2
  <2>3. ASSUME NEW d \in OwnChannels, NEW m \in ToSet(log'[d]) PROVE m <= posted'
    <3>1. m = n \/ m \in ToSet(log[d])
      BY <1>6
    <3>2. m \in Int
      <4>1. m \in Messages
        BY <1>5, Entry
      <4> QED BY <4>1, ChatFeedAssumption DEF Messages
    <3> QED BY <1>1, <2>1, <3>1, <3>2 DEF FeedInv, Numbered
  <2>4. ASSUME NEW d \in OwnChannels, NEW e \in ToSet(feed[d]) PROVE -posted' <= e /\ e <= posted'
    <3>1. e \in Int
      BY EntriesAre, Entry DEF FeedInv, FeedTypeOK
    <3>2. -posted <= e /\ e <= posted
      BY DEF FeedInv, Numbered
    <3> QED BY <1>1, <2>1, <3>1, <3>2
  <2> QED BY <2>2, <2>3, <2>4 DEF Numbered
<1>11. StoredOnce'
  <2>1. \A f \in ToSet(toServer) \cup work' : f.type = "message" => f \in ToSet(toServer) \cup work
    BY <1>2 DEF b
  <2>2. \A f \in work' : f.type = "message" => f \in work
    BY <1>2 DEF b
  <2>3. \A f \in ToSet(toServer) \cup work', d \in OwnChannels :
            f.type = "message" => f.message \notin ToSet(log'[d])
    <3>1. \A f \in ToSet(toServer) \cup work, d \in OwnChannels :
              f.type = "message" => f.message \notin ToSet(log[d])
      BY DEF FeedInv, StoredOnce
    <3> QED BY <1>6, <2>1, <3>1
  <2>4. \A d \in OwnChannels : OneEach(log'[d])
    <3>1. OneEach(log'[c])
      BY <1>3, OneMore DEF FeedInv, StoredOnce
    <3> QED BY <1>3, <3>1 DEF FeedInv, StoredOnce
  <2>5. \A d, e \in OwnChannels : \A m \in ToSet(log'[d]) : m \in ToSet(log'[e]) => d = e
    <3>1. \A d, e \in OwnChannels : \A m \in ToSet(log[d]) : m \in ToSet(log[e]) => d = e
      BY DEF FeedInv, StoredOnce
    <3> QED BY <1>6, <3>1
  <2> QED BY <2>1, <2>2, <2>3, <2>4, <2>5 DEF FeedInv, StoredOnce
<1>12. ShownOnce'
  BY DEF FeedInv, ShownOnce
<1>13. NothingForgotten'
  <2> SUFFICES ASSUME mounted, NEW d \in OwnChannels, NEW m \in ToSet(log'[d])
               PROVE  \/ m \in unseen \cup overwritten \cup ToSet(feed[d])
                      \/ Frame("broadcast", d, m) \in work'
                      \/ Frame("message_created", d, m) \in ToSet(toClient)
    BY DEF NothingForgotten
  <2>1. CASE m \in ToSet(log[d])
    <3>1. Frame("broadcast", d, m).type = "broadcast"
      BY DEF Frame
    <3> QED BY <2>1, <3>1 DEF FeedInv, NothingForgotten
  <2>2. CASE m \notin ToSet(log[d])
    BY <1>6, <2>2
  <2> QED BY <2>1, <2>2
<1> QED BY <1>7, <1>8, <1>9, <1>10, <1>11, <1>12, <1>13 DEF FeedInv

LEMMA HandleMessageKeeps ==
    ASSUME FeedInv, NEW c \in OwnChannels, NEW n \in Messages, HandleMessage(c, n)
    PROVE  FeedInv'
<1> USE DEF browser, feeds, server, verdicts, wires
<1> DEFINE w == Frame("message", c, n)
           b == Frame("broadcast", c, n)
<1>1. /\ w \in work
      /\ \/ work' = work \ {w} /\ UNCHANGED log
         \/ work' = (work \ {w}) \cup {b} /\ log' = [log EXCEPT ![c] = Append(@, n)]
      /\ UNCHANGED <<mounted, socket, reconnecting, selected, joined, loaded, feed, request,
                     overwritten, up, authenticated, subscribed, unseen, toServer, toClient,
                     posted, drops>>
  BY DEF HandleMessage
<1>2. /\ n \in 0 .. MaxMessages
      /\ w.type = "message" /\ w.channel = c /\ w.message = n /\ b.type = "broadcast"
      /\ posted \in Nat /\ posted <= MaxMessages
  BY ChatFeedAssumption DEF Messages, Frame, FeedInv, FeedTypeOK
<1> HIDE DEF w
<1>3. CASE work' = work \ {w} /\ UNCHANGED log
  <2>1. FeedTypeOK'
    <3>1. work' \subseteq FeedFrames
      BY <1>3 DEF FeedInv, FeedTypeOK
    <3> QED BY <1>1, <1>3, <3>1 DEF FeedInv, FeedTypeOK
  <2>2. Connected' /\ JoinedIsSubscribed'
    BY <1>1, <1>3 DEF FeedInv, Connected, JoinedIsSubscribed
  <2>3. Wired'
    BY <1>1, <1>3, SameWires DEF FeedInv
  <2>4. Numbered'
    BY <1>1, <1>3, NoNewNumbers, PostedIs DEF FeedInv
  <2>5. StoredOnce'
    <3>1. OnceIn(toServer')
      BY <1>1 DEF FeedInv, StoredOnce
    <3> QED BY <1>1, <1>3, <3>1, NoNewMessages DEF FeedInv
  <2>6. ShownOnce' /\ NothingForgotten'
    <3>1. \A d \in OwnChannels, m \in Messages : Frame("broadcast", d, m) # w
      BY DEF Frame, w
    <3> QED BY <1>1, <1>3, <3>1, SameShown DEF FeedInv
  <2> QED BY <2>1, <2>2, <2>3, <2>4, <2>5, <2>6 DEF FeedInv
<1>4. CASE work' = (work \ {w}) \cup {b} /\ log' = [log EXCEPT ![c] = Append(@, n)]
  <2>1. \A f \in ToSet(toServer) \cup work' : f.type = "message" => f.message # n
    <3> SUFFICES ASSUME NEW f \in ToSet(toServer) \cup work', f.type = "message", f.message = n
                 PROVE  FALSE
      OBVIOUS
    <3>1. f \in ToSet(toServer) \cup work /\ (f \in work' => f # w)
      BY <1>2, <1>4
    <3>2. f = w
      BY <1>1, <1>2, <3>1 DEF FeedInv, StoredOnce
    <3> QED BY <1>1, <1>2, <3>1, <3>2 DEF FeedInv, StoredOnce
  <2>2. \A d \in OwnChannels : n \notin ToSet(log[d])
    BY <1>1, <1>2 DEF FeedInv, StoredOnce
  <2>3. n <= posted
    BY <1>1, <1>2 DEF FeedInv, Numbered
  <2>4. \A f \in work : f.type # "message" => f \in work'
    BY <1>2, <1>4
  <2>5. /\ Frame("broadcast", c, n) \in work' /\ work' \subseteq work \cup {Frame("broadcast", c, n)}
        /\ posted' \in {posted, posted + 1} /\ posted' <= MaxMessages /\ n <= posted'
    BY <1>1, <1>2, <1>4, <2>3
  <2> QED BY <1>1, <1>4, <2>1, <2>2, <2>4, <2>5, StoreKeeps
<1> QED BY <1>1, <1>3, <1>4

LEMMA PostKeeps == ASSUME FeedInv, NEW c \in OwnChannels, Post(c) PROVE FeedInv'
<1> USE DEF browser, feeds, server, verdicts, wires
<1> DEFINE n == posted + 1
<1>1. /\ mounted /\ posted < MaxMessages /\ posted' = n
      /\ log' = [log EXCEPT ![c] = Append(@, n)]
      /\ work' = work \cup {Frame("broadcast", c, n)}
      /\ UNCHANGED <<mounted, socket, reconnecting, selected, joined, loaded, feed, request,
                     overwritten, up, authenticated, subscribed, unseen, toServer, toClient,
                     drops>>
  BY DEF Post
<1>2. posted \in Nat /\ n \in Messages /\ n > posted /\ posted' <= MaxMessages /\ n <= posted'
  BY <1>1, PostedIs, ChatFeedAssumption DEF Messages, FeedInv
<1>3. PICK m : m = n
  OBVIOUS
<1> HIDE DEF n
<1>4. \A d \in OwnChannels : m \notin ToSet(log[d])
  <2> SUFFICES ASSUME NEW d \in OwnChannels, m \in ToSet(log[d]) PROVE FALSE
    OBVIOUS
  <2>1. m <= posted
    BY DEF FeedInv, Numbered
  <2> QED BY <1>2, <1>3, <2>1 DEF n
<1>5. Frame("broadcast", c, m).type = "broadcast"
  BY DEF Frame
<1>6. \A f \in ToSet(toServer) \cup work' : f.type = "message" => f.message # m
  <2> SUFFICES ASSUME NEW f \in ToSet(toServer) \cup work', f.type = "message", f.message = m
               PROVE  FALSE
    OBVIOUS
  <2>1. f \in ToSet(toServer) \cup work
    BY <1>1, <1>3, <1>5
  <2>2. m <= posted
    BY <2>1 DEF FeedInv, Numbered
  <2> QED BY <1>2, <1>3, <2>2 DEF n
<1>7. /\ Frame("broadcast", c, m) \in work' /\ work' \subseteq work \cup {Frame("broadcast", c, m)}
      /\ \A f \in work : f.type # "message" => f \in work'
      /\ posted' \in {posted, posted + 1} /\ posted' <= MaxMessages /\ m <= posted'
      /\ log' = [log EXCEPT ![c] = Append(@, m)] /\ m \in Messages
  BY <1>1, <1>2, <1>3 DEF n
<1> QED BY <1>1, <1>4, <1>6, <1>7, StoreKeeps

LEMMA BroadcastKeeps ==
    ASSUME FeedInv, NEW c \in OwnChannels, NEW n \in Messages, Broadcast(c, n) PROVE FeedInv'
<1> USE DEF browser, feeds, server, verdicts, wires
<1> DEFINE w == Frame("broadcast", c, n)
           told == Frame("message_created", c, n)
<1>1. /\ w \in work /\ work' = work \ {w}
      /\ \/ c \in subscribed /\ toClient' = Append(toClient, told) /\ UNCHANGED unseen
         \/ unseen' = unseen \cup {n} /\ UNCHANGED toClient
      /\ UNCHANGED <<mounted, socket, reconnecting, selected, joined, loaded, feed, request,
                     overwritten, up, authenticated, subscribed, log, toServer, posted, drops>>
  BY DEF Broadcast
<1>2. n \in 0 .. MaxMessages
  BY ChatFeedAssumption DEF Messages
<1>3. /\ told \in FeedFrames /\ told.type = "message_created" /\ told.channel = c
      /\ told.message = n /\ w.type = "broadcast" /\ w.channel = c /\ w.message = n
  BY <1>2 DEF Frame, FeedFrames, FrameTypes
<1>4. \A d \in OwnChannels, m \in Messages :
          (d # c \/ m # n) => Frame("broadcast", d, m) # w
  BY DEF Frame
<1> HIDE DEF w
<1>5. n <= posted
  BY <1>1, <1>3 DEF FeedInv, Numbered
<1>6. /\ toClient' \in Seq(FeedFrames)
      /\ ToSet(toClient) \subseteq ToSet(toClient')
      /\ ToSet(toClient') \subseteq ToSet(toClient) \cup {told}
      /\ unseen \subseteq unseen' /\ unseen' \subseteq unseen \cup {n}
      /\ told \in ToSet(toClient') \/ n \in unseen'
      /\ toClient' # toClient => up
  <2>1. toClient \in Seq(FeedFrames)
    BY DEF FeedInv, FeedTypeOK
  <2>2. CASE c \in subscribed /\ toClient' = Append(toClient, told) /\ UNCHANGED unseen
    <3>1. toClient' \in Seq(FeedFrames) /\ ToSet(toClient') = ToSet(toClient) \cup {told}
      BY <1>3, <2>1, <2>2, Appended
    <3>2. up
      BY <2>2 DEF FeedInv, FeedTypeOK
    <3> QED BY <2>2, <3>1, <3>2
  <2>3. CASE unseen' = unseen \cup {n} /\ UNCHANGED toClient
    BY <2>1, <2>3
  <2> QED BY <1>1, <2>2, <2>3
<1> HIDE DEF told
<1>7. FeedTypeOK'
  <2>1. work' \subseteq FeedFrames /\ unseen' \subseteq Messages
    BY <1>1, <1>6 DEF FeedInv, FeedTypeOK
  <2> QED BY <1>1, <1>6, <2>1 DEF FeedInv, FeedTypeOK
<1>8. Connected' /\ JoinedIsSubscribed'
  BY <1>1, <1>3, <1>6 DEF FeedInv, Connected, JoinedIsSubscribed
<1>9. Wired'
  BY <1>1, <1>3, <1>6 DEF FeedInv, Wired
<1>10. Numbered'
  BY <1>1, <1>3, <1>5, <1>6 DEF FeedInv, Numbered
<1>11. StoredOnce'
  <2>1. OnceIn(toServer')
    BY <1>1 DEF FeedInv, StoredOnce
  <2> QED BY <1>1, <2>1, NoNewMessages DEF FeedInv
<1>12. ShownOnce'
  BY <1>1 DEF FeedInv, ShownOnce
<1>13. NothingForgotten'
  <2> SUFFICES ASSUME mounted, NEW d \in OwnChannels, NEW m \in ToSet(log[d])
               PROVE  \/ m \in unseen' \cup overwritten \cup ToSet(feed[d])
                      \/ Frame("broadcast", d, m) \in work'
                      \/ Frame("message_created", d, m) \in ToSet(toClient')
    BY <1>1 DEF NothingForgotten
  <2>1. \/ m \in unseen \cup overwritten \cup ToSet(feed[d])
        \/ Frame("broadcast", d, m) \in work
        \/ Frame("message_created", d, m) \in ToSet(toClient)
    BY DEF FeedInv, NothingForgotten
  <2>2. m \in Messages
    BY Entry DEF FeedInv, FeedTypeOK
  <2>3. CASE d = c /\ m = n
    BY <1>6, <2>3 DEF told
  <2>4. CASE d # c \/ m # n
    BY <1>1, <1>4, <1>6, <2>1, <2>2, <2>4
  <2> QED BY <2>3, <2>4
<1> QED BY <1>7, <1>8, <1>9, <1>10, <1>11, <1>12, <1>13 DEF FeedInv

\* ChatShell hears a frame: its answer joins the selected channel.
LEMMA AnswerIs ==
    ASSUME FeedInv, NEW f, NEW t, t = Answer(f)
    PROVE  /\ t \in Seq(FeedFrames) /\ OnceIn(t)
           /\ ~up => t = toServer
           /\ ToSet(t) \subseteq ToSet(toServer) \cup {Joining(selected)}
           /\ selected = NoChannel => t = toServer
<1>1. toServer \in Seq(FeedFrames) /\ OnceIn(toServer) /\ selected \in OwnChannels \cup {NoChannel}
  BY DEF FeedInv, FeedTypeOK, StoredOnce
<1>2. CASE t = toServer
  BY <1>1, <1>2
<1>3. CASE selected # NoChannel /\ t = Sent(Joining(selected))
  <2>1. Joining(selected) \in FeedFrames /\ Joining(selected).type = "join"
    BY <1>1, <1>3, HandshakeIs
  <2> QED BY <1>3, <2>1, SentIs
<1> QED BY <1>2, <1>3 DEF Answer, Joining

LEMMA HearKeeps == ASSUME FeedInv, Hear PROVE FeedInv'
<1> USE DEF browser, feeds, server, verdicts, wires
<1> DEFINE frame == Head(toClient)
           c == frame.channel
           n == frame.message
<1>1. /\ mounted /\ toClient # <<>> /\ toClient' = Tail(toClient)
      /\ toServer' = Answer(frame)
      /\ joined' = IF frame.type = "joined" THEN joined \cup {c} ELSE joined
      /\ IF frame.type = "message_created"
         THEN /\ feed' = [feed EXCEPT ![c] = Reconciled(@, n)]
              /\ loaded' = loaded \cup {c}
         ELSE UNCHANGED <<feed, loaded>>
      /\ UNCHANGED <<mounted, socket, reconnecting, selected, request, overwritten, up,
                     authenticated, subscribed, work, log, unseen, posted, drops>>
  BY DEF Hear
<1>2. toClient \in Seq(FeedFrames)
  BY DEF FeedInv, FeedTypeOK
<1>3. /\ frame \in FeedFrames /\ toClient' \in Seq(FeedFrames)
      /\ ToSet(toClient) = ToSet(toClient') \cup {frame}
  BY <1>1, <1>2, Taken
<1> HIDE DEF frame
<1>4. /\ toServer' \in Seq(FeedFrames) /\ OnceIn(toServer')
      /\ ~up => toServer' = toServer
      /\ ToSet(toServer') \subseteq ToSet(toServer) \cup {Joining(selected)}
      /\ selected = NoChannel => toServer' = toServer
  BY <1>1, AnswerIs
<1>5. /\ selected \in OwnChannels \cup {NoChannel} /\ joined \subseteq OwnChannels
      /\ feed \in [OwnChannels -> Seq(Entries)] /\ loaded \subseteq OwnChannels
      /\ log \in [OwnChannels -> Seq(Messages)]
  BY DEF FeedInv, FeedTypeOK
<1>6. selected # NoChannel => Joining(selected).type = "join" /\ Joining(selected).message = 0
  BY <1>5, HandshakeIs
<1>7. /\ frame.type = "joined" => c \in OwnChannels
      /\ frame.type = "message_created" => c \in OwnChannels /\ n \in Messages /\ n <= posted
  BY <1>3 DEF FeedInv, Wired, Numbered
<1>8. joined' \subseteq OwnChannels /\ loaded' \subseteq OwnChannels
  BY <1>1, <1>5, <1>7
<1>9. \A d \in OwnChannels :
          \/ feed'[d] = feed[d] /\ ~(frame.type = "message_created" /\ d = c)
          \/ /\ d = c /\ frame.type = "message_created"
             /\ feed'[d] = Reconciled(feed[d], n)
  BY <1>1, <1>5
<1>10. \A d \in OwnChannels :
           /\ feed'[d] \in Seq(Entries) /\ Single(feed'[d])
           /\ \A x \in ToSet(feed[d]) : x > 0 => x \in ToSet(feed'[d])
           /\ ToSet(feed'[d]) \subseteq ToSet(feed[d]) \cup
                  (IF frame.type = "message_created" /\ d = c THEN {n} ELSE {})
           /\ frame.type = "message_created" /\ d = c => n \in ToSet(feed'[d])
  <2> SUFFICES ASSUME NEW d \in OwnChannels
               PROVE  /\ feed'[d] \in Seq(Entries) /\ Single(feed'[d])
                      /\ \A x \in ToSet(feed[d]) : x > 0 => x \in ToSet(feed'[d])
                      /\ ToSet(feed'[d]) \subseteq ToSet(feed[d]) \cup
                             (IF frame.type = "message_created" /\ d = c THEN {n} ELSE {})
                      /\ frame.type = "message_created" /\ d = c => n \in ToSet(feed'[d])
    OBVIOUS
  <2>1. feed[d] \in Seq(Entries) /\ Single(feed[d])
    BY <1>5 DEF FeedInv, ShownOnce
  <2>2. CASE feed'[d] = feed[d] /\ ~(frame.type = "message_created" /\ d = c)
    BY <2>1, <2>2
  <2>3. CASE d = c /\ frame.type = "message_created" /\ feed'[d] = Reconciled(feed[d], n)
    BY <1>7, <2>1, <2>3, ReconciledIs
  <2> QED BY <1>9, <2>2, <2>3
<1>11. FeedTypeOK'
  <2>1. feed' \in [OwnChannels -> Seq(Entries)]
    <3>1. feed' = [d \in OwnChannels |-> feed'[d]]
      BY <1>1, <1>5
    <3> QED BY <1>10, <3>1
  <2> QED BY <1>1, <1>3, <1>4, <1>8, <2>1 DEF FeedInv, FeedTypeOK
<1>12. Connected' /\ JoinedIsSubscribed'
  <2>1. ToSet(toClient) # {}
    BY <1>3
  <2>2. socket \in {"OPEN", "CLOSING"}
    BY <1>1 DEF FeedInv, FeedTypeOK, Connected
  <2>3. up => (frame.type = "joined" => c \in subscribed)
    BY <1>3 DEF FeedInv, Connected
  <2> QED BY <1>1, <1>3, <2>2, <2>3 DEF FeedInv, Connected, JoinedIsSubscribed
<1>13. Wired'
  BY <1>1, <1>3, SameWires DEF FeedInv
<1>14. Numbered'
  <2>1. \A f \in ToSet(toServer') \cup work' \cup ToSet(toClient') : f.message <= posted
    BY <1>1, <1>3, <1>4, <1>6, PostedIs DEF FeedInv, Numbered
  <2>2. \A d \in OwnChannels : \A e \in ToSet(feed'[d]) : -posted <= e /\ e <= posted
    <3> SUFFICES ASSUME NEW d \in OwnChannels, NEW e \in ToSet(feed'[d])
                 PROVE  -posted <= e /\ e <= posted
      OBVIOUS
    <3>1. CASE e \in ToSet(feed[d])
      BY <3>1 DEF FeedInv, Numbered
    <3>2. CASE e \notin ToSet(feed[d])
      <4>1. e = n /\ frame.type = "message_created"
        BY <1>10, <3>2
      <4>2. n \in Int /\ n > 0 /\ n <= posted /\ posted \in Nat
        BY <1>7, <4>1, EntriesAre, PostedIs DEF FeedInv
      <4> QED BY <4>1, <4>2
    <3> QED BY <3>1, <3>2
  <2> QED BY <1>1, <2>1, <2>2 DEF FeedInv, Numbered
<1>15. StoredOnce'
  BY <1>1, <1>4, <1>6, NoNewMessages DEF FeedInv
<1>16. ShownOnce'
  BY <1>10 DEF ShownOnce
<1>17. NothingForgotten'
  <2> SUFFICES ASSUME NEW d \in OwnChannels, NEW m \in ToSet(log[d])
               PROVE  \/ m \in unseen \cup overwritten \cup ToSet(feed'[d])
                      \/ Frame("broadcast", d, m) \in work
                      \/ Frame("message_created", d, m) \in ToSet(toClient')
    BY <1>1 DEF NothingForgotten
  <2>1. \/ m \in unseen \cup overwritten \cup ToSet(feed[d])
        \/ Frame("broadcast", d, m) \in work
        \/ Frame("message_created", d, m) \in ToSet(toClient)
    BY <1>1 DEF FeedInv, NothingForgotten
  <2>2. m \in Messages /\ m > 0
    BY <1>5, Entry, EntriesAre
  <2>3. CASE m \in ToSet(feed[d])
    BY <1>10, <2>2, <2>3
  <2>4. CASE Frame("message_created", d, m) = frame
    <3>1. frame.type = "message_created" /\ d = c /\ m = n
      BY <2>4 DEF Frame
    <3> QED BY <1>10, <3>1
  <2> QED BY <1>3, <2>1, <2>3, <2>4
<1> QED BY <1>11, <1>12, <1>13, <1>14, <1>15, <1>16, <1>17 DEF FeedInv

LEMMA IgnoreKeeps == ASSUME FeedInv, Ignore PROVE FeedInv'
<1> USE DEF browser, feeds, server, verdicts, wires
<1>1. /\ ~mounted /\ toClient # <<>> /\ toClient' = Tail(toClient)
      /\ UNCHANGED <<mounted, socket, reconnecting, selected, joined, loaded, feed, request,
                     overwritten, up, authenticated, subscribed, work, log, unseen, toServer,
                     posted, drops>>
  BY DEF Ignore
<1>2. toClient \in Seq(FeedFrames)
  BY DEF FeedInv, FeedTypeOK
<1>3. toClient' \in Seq(FeedFrames) /\ ToSet(toClient') \subseteq ToSet(toClient)
  BY <1>1, <1>2, Taken
<1>4. FeedTypeOK'
  BY <1>1, <1>3 DEF FeedInv, FeedTypeOK
<1>5. Connected' /\ JoinedIsSubscribed'
  BY <1>1, <1>3 DEF FeedInv, Connected, JoinedIsSubscribed
<1>6. Wired'
  BY <1>1, <1>3, SameWires DEF FeedInv
<1>7. Numbered' /\ StoredOnce'
  BY <1>1, <1>3, NoNewNumbers, SameMessages, PostedIs DEF FeedInv
<1>8. ShownOnce' /\ NothingForgotten'
  BY <1>1 DEF FeedInv, ShownOnce, NothingForgotten
<1> QED BY <1>4, <1>5, <1>6, <1>7, <1>8 DEF FeedInv

\* A request is a record of what it asked for and how far it is.
LEMMA RequestsAre ==
    ASSUME FeedInv
    PROVE  /\ Len(request) \in Nat /\ DOMAIN request = 1 .. Len(request)
           /\ \A k \in 1 .. Len(request) :
                 request[k] \in Requests /\ request[k].channel \in OwnChannels
           /\ \A c \in OwnChannels : log[c] \in Seq(Messages) /\ Len(log[c]) \in Nat
<1>1. request \in Seq(Requests) /\ log \in [OwnChannels -> Seq(Messages)]
  BY DEF FeedInv, FeedTypeOK
<1>2. \A k \in 1 .. Len(request) : request[k] \in Requests
  BY <1>1, ElementOfSeq
<1>3. \A k \in 1 .. Len(request) : request[k].channel \in OwnChannels
  BY <1>2 DEF Requests
<1> QED BY <1>1, <1>2, <1>3

\* One more request, or another state of one, reads nothing beyond the log.
RequestFine(r) == r \in Requests /\ (r.state = "read" => r.upto \in 0 .. Len(log[r.channel]))

LEMMA Changing ==
    ASSUME FeedInv, NEW k \in 1 .. Len(request), NEW r, RequestFine(r),
           request' = [request EXCEPT ![k] = r], log' = log, toClient' = toClient
    PROVE  request' \in Seq(Requests) /\ Wired'
<1>1. request \in Seq(Requests) /\ r \in Requests
  BY DEF FeedInv, FeedTypeOK, RequestFine
<1>2. /\ request' \in Seq(Requests) /\ Len(request') = Len(request)
      /\ \A j \in 1 .. Len(request) : request'[j] = IF j = k THEN r ELSE request[j]
  BY <1>1, ExceptSeq
<1>3. ASSUME NEW j \in 1 .. Len(request)
      PROVE  request'[j].state = "read" => request'[j].upto \in 0 .. Len(log[request'[j].channel])
  <2>1. CASE j = k
    BY <1>2, <2>1 DEF RequestFine
  <2>2. CASE j # k
    BY <1>2, <2>2 DEF FeedInv, Wired
  <2> QED BY <2>1, <2>2
<1>4. Wired'
  BY <1>2, <1>3 DEF FeedInv, Wired
<1> QED BY <1>2, <1>4

LEMMA Asking ==
    ASSUME FeedInv, NEW r, RequestFine(r),
           request' = Append(request, r), log' = log, toClient' = toClient
    PROVE  request' \in Seq(Requests) /\ Wired'
<1>1. request \in Seq(Requests) /\ r \in Requests
  BY DEF FeedInv, FeedTypeOK, RequestFine
<1>2. /\ request' \in Seq(Requests) /\ Len(request') = Len(request) + 1 /\ Len(request) \in Nat
      /\ \A j \in 1 .. Len(request) : request'[j] = request[j]
      /\ request'[Len(request) + 1] = r
  BY <1>1, AppendProperties
<1>3. \A j \in 1 .. Len(request') : j \in 1 .. Len(request) \/ j = Len(request) + 1
  BY <1>2
<1>4. ASSUME NEW j \in 1 .. Len(request')
      PROVE  request'[j].state = "read" => request'[j].upto \in 0 .. Len(log[request'[j].channel])
  <2>1. CASE j = Len(request) + 1
    BY <1>2, <2>1 DEF RequestFine
  <2>2. CASE j \in 1 .. Len(request)
    BY <1>2, <2>2 DEF FeedInv, Wired
  <2> QED BY <1>3, <2>1, <2>2
<1>5. Wired'
  BY <1>2, <1>4 DEF FeedInv, Wired
<1> QED BY <1>2, <1>5

LEMMA OverIs ==
    ASSUME FeedInv, NEW c \in OwnChannels
    PROVE  /\ RequestFine(Over(c)) /\ RequestFine([Over(c) EXCEPT !.state = "asked"])
           /\ Over(c).channel = c
BY DEF Over, RequestFine, Requests

LEMMA SelectChannelKeeps ==
    ASSUME FeedInv, NEW c \in OwnChannels, SelectChannel(c) PROVE FeedInv'
<1> USE DEF browser, feeds, server, verdicts, wires
<1>1. /\ selected' = c
      /\ toServer' = toServer \/ toServer' = Sent(Joining(c))
      /\ UNCHANGED <<mounted, socket, reconnecting, joined, loaded, feed, overwritten, up,
                     authenticated, subscribed, work, log, unseen, toClient, posted, drops>>
  BY DEF SelectChannel, Joining
<1>2. PICK r : RequestFine(r) /\ request' = Append(request, r)
  <2>1. \/ request' = Append(request, Over(c))
        \/ request' = Append(request, [Over(c) EXCEPT !.state = "asked"])
    BY DEF SelectChannel
  <2> QED BY <2>1, OverIs
<1>3. request' \in Seq(Requests) /\ Wired'
  BY <1>1, <1>2, Asking
<1>4. /\ toServer' \in Seq(FeedFrames) /\ ToSet(toServer') \subseteq ToSet(toServer) \cup {Joining(c)}
      /\ ~up => toServer' = toServer
      /\ OnceIn(toServer')
  <2>1. toServer \in Seq(FeedFrames) /\ OnceIn(toServer)
    BY DEF FeedInv, FeedTypeOK, StoredOnce
  <2>2. Joining(c) \in FeedFrames /\ Joining(c).type = "join"
    BY HandshakeIs
  <2>3. CASE toServer' = Sent(Joining(c))
    BY <2>2, <2>3, SentIs
  <2>4. CASE toServer' = toServer
    BY <2>1, <2>4
  <2> QED BY <1>1, <2>3, <2>4
<1>5. FeedTypeOK'
  BY <1>1, <1>3, <1>4 DEF FeedInv, FeedTypeOK
<1>6. Connected' /\ JoinedIsSubscribed'
  BY <1>1 DEF FeedInv, Connected, JoinedIsSubscribed
<1>7. Numbered'
  BY <1>1, <1>4, HandshakeIs, NoNewNumbers, PostedIs DEF FeedInv
<1>8. StoredOnce'
  BY <1>1, <1>4, HandshakeIs, NoNewMessages DEF FeedInv
<1>9. ShownOnce' /\ NothingForgotten'
  BY <1>1, SameShown DEF FeedInv
<1> QED BY <1>3, <1>5, <1>6, <1>7, <1>8, <1>9 DEF FeedInv

LEMMA GoHomeKeeps == ASSUME FeedInv, GoHome PROVE FeedInv'
<1> USE DEF browser, feeds, server, verdicts, wires
<1>1. /\ selected' = NoChannel
      /\ UNCHANGED <<mounted, socket, reconnecting, joined, loaded, feed, request, overwritten,
                     up, authenticated, subscribed, work, log, unseen, toServer, toClient, posted,
                     drops>>
  BY DEF GoHome
<1>2. FeedTypeOK'
  BY <1>1 DEF FeedInv, FeedTypeOK
<1>3. Connected' /\ JoinedIsSubscribed' /\ Wired' /\ Numbered' /\ StoredOnce'
  BY <1>1, SameWires, NoNewNumbers, SameMessages, PostedIs
     DEF FeedInv, Connected, JoinedIsSubscribed
<1>4. ShownOnce' /\ NothingForgotten'
  BY <1>1, SameShown DEF FeedInv
<1> QED BY <1>2, <1>3, <1>4 DEF FeedInv

\* A message that is sent has a number of its own, so its placeholder is shown once.
LEMMA SendKeeps == ASSUME FeedInv, Send PROVE FeedInv'
<1> USE DEF browser, feeds, server, verdicts, wires
<1> DEFINE n == posted + 1
           f == Frame("message", selected, n)
<1>1. /\ mounted /\ selected # NoChannel /\ posted < MaxMessages /\ posted' = n
      /\ feed' = [feed EXCEPT ![selected] = Append(@, -n)]
      /\ loaded' = loaded \cup {selected}
      /\ toServer' = Sent(f)
      /\ UNCHANGED <<mounted, socket, reconnecting, selected, joined, request, overwritten, up,
                     authenticated, subscribed, work, log, unseen, toClient, drops>>
  BY DEF Send
<1>2. /\ posted \in Nat /\ n \in 1 .. MaxMessages /\ n \in 0 .. MaxMessages /\ n = posted + 1
      /\ n \in Nat
  BY <1>1, PostedIs, ChatFeedAssumption DEF FeedInv
<1> HIDE DEF n
<1>3. selected \in OwnChannels /\ feed \in [OwnChannels -> Seq(Entries)]
  BY <1>1 DEF FeedInv, FeedTypeOK
<1>4. f \in FeedFrames /\ f.type = "message" /\ f.message = n
  BY <1>2, <1>3, FrameIs DEF FrameTypes
<1> HIDE DEF f
<1>5. \A g \in ToSet(toServer) \cup work \cup ToSet(toClient) : g.message <= posted /\ g.message \in Int
  <2> SUFFICES ASSUME NEW g \in ToSet(toServer) \cup work \cup ToSet(toClient)
               PROVE  g.message <= posted /\ g.message \in Int
    OBVIOUS
  <2>1. g \in FeedFrames
    BY Entry DEF FeedInv, FeedTypeOK
  <2>2. g.message \in Int
    BY <2>1, ChatFeedAssumption DEF FeedFrames
  <2> QED BY <2>2 DEF FeedInv, Numbered
<1>6. f \notin ToSet(toServer) \cup work \cup ToSet(toClient)
  BY <1>2, <1>4, <1>5
<1>7. /\ toServer' \in Seq(FeedFrames) /\ ToSet(toServer') \subseteq ToSet(toServer) \cup {f}
      /\ ~up => toServer' = toServer
      /\ OnceIn(toServer')
  BY <1>1, <1>4, <1>6, SentIs
<1>8. -n \in Entries /\ n \in Entries
  BY <1>2, ChatFeedAssumption DEF Entries
<1>9. \A d \in OwnChannels : \A e \in ToSet(feed[d]) : e \in Int /\ e # n /\ e # -n
  <2> SUFFICES ASSUME NEW d \in OwnChannels, NEW e \in ToSet(feed[d])
               PROVE  e \in Int /\ e # n /\ e # -n
    OBVIOUS
  <2>1. e \in Int
    BY <1>3, EntriesAre, Entry
  <2>2. -posted <= e /\ e <= posted
    BY DEF FeedInv, Numbered
  <2> QED BY <1>2, <2>1, <2>2
<1>10. /\ feed'[selected] = Append(feed[selected], -n)
       /\ \A d \in OwnChannels \ {selected} : feed'[d] = feed[d]
  BY <1>1, <1>3
<1>11. /\ feed'[selected] \in Seq(Entries)
       /\ ToSet(feed'[selected]) = ToSet(feed[selected]) \cup {-n}
  BY <1>3, <1>8, <1>10, Appended
<1>12. Single(feed'[selected])
  <2>1. -n \notin ToSet(feed[selected])
    BY <1>3, <1>9
  <2>2. -(-n) \notin ToSet(feed[selected])
    <3>1. -(-n) = n
      BY <1>2
    <3> QED BY <1>3, <1>9, <3>1
  <2>3. feed[selected] \in Seq(Entries) /\ Single(feed[selected])
    BY <1>3 DEF FeedInv, ShownOnce
  <2> QED BY <1>8, <1>10, <2>1, <2>2, <2>3, SingleMore
<1>13. FeedTypeOK'
  <2>1. feed' \in [OwnChannels -> Seq(Entries)]
    BY <1>1, <1>3, <1>11, <1>10
  <2>2. loaded' \subseteq OwnChannels /\ posted' \in 0 .. MaxMessages
    BY <1>1, <1>2, <1>3 DEF FeedInv, FeedTypeOK
  <2> QED BY <1>1, <1>7, <2>1, <2>2 DEF FeedInv, FeedTypeOK
<1>14. Connected' /\ JoinedIsSubscribed'
  BY <1>1 DEF FeedInv, Connected, JoinedIsSubscribed
<1>15. Wired'
  BY <1>1, SameWires DEF FeedInv
<1>16. Numbered'
  <2>1. \A g \in ToSet(toServer') \cup work \cup ToSet(toClient) : g.message <= n
    <3> SUFFICES ASSUME NEW g \in ToSet(toServer') \cup work \cup ToSet(toClient) PROVE g.message <= n
      OBVIOUS
    <3>1. CASE g = f
      BY <1>2, <1>4, <3>1
    <3>2. CASE g # f
      BY <1>2, <1>5, <1>7, <3>2
    <3> QED BY <3>1, <3>2
  <2>2. \A d \in OwnChannels : \A m \in ToSet(log[d]) : m <= n
    <3> SUFFICES ASSUME NEW d \in OwnChannels, NEW m \in ToSet(log[d]) PROVE m <= n
      OBVIOUS
    <3>1. m \in Messages
      BY Entry DEF FeedInv, FeedTypeOK
    <3>2. m \in Int /\ m <= posted
      BY <3>1, EntriesAre DEF FeedInv, Numbered
    <3> QED BY <1>2, <3>2
  <2>3. \A d \in OwnChannels : \A e \in ToSet(feed'[d]) : -n <= e /\ e <= n
    <3> SUFFICES ASSUME NEW d \in OwnChannels, NEW e \in ToSet(feed'[d]) PROVE -n <= e /\ e <= n
      OBVIOUS
    <3>1. e \in ToSet(feed[d]) \/ e = -n
      BY <1>10, <1>11
    <3>2. CASE e \in ToSet(feed[d])
      <4>1. e \in Int /\ -posted <= e /\ e <= posted
        BY <1>9, <3>2 DEF FeedInv, Numbered
      <4> QED BY <1>2, <4>1
    <3>3. CASE e = -n
      BY <1>2, <3>3
    <3> QED BY <3>1, <3>2, <3>3
  <2> QED BY <1>1, <2>1, <2>2, <2>3 DEF Numbered
<1>17. StoredOnce'
  <2>1. \A g \in ToSet(toServer') \cup work : g = f \/ (g \in ToSet(toServer) \cup work /\ g.message # n)
    BY <1>2, <1>5, <1>7
  <2>2. \A d \in OwnChannels : n \notin ToSet(log[d])
    <3> SUFFICES ASSUME NEW d \in OwnChannels, n \in ToSet(log[d]) PROVE FALSE
      OBVIOUS
    <3>1. n <= posted
      BY DEF FeedInv, Numbered
    <3> QED BY <1>2, <3>1
  <2>3. \A g, h \in ToSet(toServer') \cup work :
            g.type = "message" /\ h.type = "message" /\ g.message = h.message => g = h
    BY <1>4, <2>1 DEF FeedInv, StoredOnce
  <2>4. \A g \in ToSet(toServer') : g.type = "message" => g \notin work
    BY <1>6, <1>7 DEF FeedInv, StoredOnce
  <2>5. \A g \in ToSet(toServer') \cup work, d \in OwnChannels :
            g.type = "message" => g.message \notin ToSet(log[d])
    BY <1>4, <2>1, <2>2 DEF FeedInv, StoredOnce
  <2> QED BY <1>1, <1>7, <2>3, <2>4, <2>5 DEF FeedInv, StoredOnce
<1>18. ShownOnce'
  BY <1>10, <1>12 DEF FeedInv, ShownOnce
<1>19. NothingForgotten'
  <2>1. \A d \in OwnChannels : ToSet(feed[d]) \subseteq ToSet(feed'[d])
    BY <1>10, <1>11
  <2> QED BY <1>1, <2>1 DEF FeedInv, NothingForgotten
<1> QED BY <1>13, <1>14, <1>15, <1>16, <1>17, <1>18, <1>19 DEF FeedInv

LEMMA RequestKeeps ==
    ASSUME FeedInv, NEW k \in DOMAIN request, ReadHistory(k) \/ HistoryFails(k)
    PROVE  FeedInv'
<1> USE DEF browser, feeds, server, verdicts, wires
<1>1. UNCHANGED <<mounted, socket, reconnecting, selected, joined, loaded, feed, overwritten, up,
                  authenticated, subscribed, work, log, unseen, toServer, toClient, posted, drops>>
  BY DEF ReadHistory, HistoryFails
<1>2. /\ k \in 1 .. Len(request) /\ request[k] \in Requests /\ request[k].channel \in OwnChannels
      /\ Len(log[request[k].channel]) \in Nat
  BY RequestsAre
<1>3. PICK r : RequestFine(r) /\ request' = [request EXCEPT ![k] = r]
  <2>1. CASE ReadHistory(k)
    <3> DEFINE q == [request[k] EXCEPT !.state = "read", !.upto = Len(log[request[k].channel])]
    <3>1. request' = [request EXCEPT ![k].state = "read", ![k].upto = Len(log[request[k].channel])]
      BY <2>1 DEF ReadHistory
    <3>2. request' = [request EXCEPT ![k] = q]
      BY <1>2, <3>1
    <3>3. q \in Requests /\ q.upto = Len(log[request[k].channel]) /\ q.channel = request[k].channel
      BY <1>2 DEF Requests
    <3>4. RequestFine(q)
      BY <1>2, <3>3 DEF RequestFine
    <3> QED BY <3>2, <3>4
  <2>2. CASE HistoryFails(k)
    BY <1>2, <2>2, OverIs DEF HistoryFails
  <2> QED BY <2>1, <2>2
<1>4. request' \in Seq(Requests) /\ Wired'
  BY <1>1, <1>2, <1>3, Changing
<1>5. FeedTypeOK'
  BY <1>1, <1>4 DEF FeedInv, FeedTypeOK
<1>6. Connected' /\ JoinedIsSubscribed'
  BY <1>1 DEF FeedInv, Connected, JoinedIsSubscribed
<1>7. Numbered' /\ StoredOnce'
  BY <1>1, NoNewNumbers, SameMessages, PostedIs DEF FeedInv
<1>8. ShownOnce' /\ NothingForgotten'
  BY <1>1, SameShown DEF FeedInv
<1> QED BY <1>4, <1>5, <1>6, <1>7, <1>8 DEF FeedInv

\* A history that arrives shows what it brings; what it takes off the screen is known.
LEMMA HistoryArrivesKeeps ==
    ASSUME FeedInv, NEW k \in DOMAIN request, HistoryArrives(k) PROVE FeedInv'
<1> USE DEF browser, feeds, server, verdicts, wires
<1>1. /\ k \in 1 .. Len(request) /\ request[k] \in Requests /\ request[k].channel \in OwnChannels
      /\ Len(log[request[k].channel]) \in Nat
  BY RequestsAre
<1>2. PICK c \in OwnChannels : c = request[k].channel
  BY <1>1
<1>3. PICK rows : rows = SubSeq(log[c], 1, request[k].upto)
  OBVIOUS
<1>4. /\ request[k].state = "read" /\ request' = [request EXCEPT ![k] = Over(c)]
      /\ feed' = [feed EXCEPT ![c] = rows]
      /\ loaded' = loaded \cup {c} /\ unseen' = unseen \ ToSet(rows)
      /\ overwritten' = (overwritten \cup {n \in ToSet(feed[c]) : n > 0}) \ ToSet(rows)
      /\ UNCHANGED <<mounted, socket, reconnecting, selected, joined, up, authenticated,
                     subscribed, work, log, toServer, toClient, posted, drops>>
  BY <1>2, <1>3 DEF HistoryArrives
<1>5. /\ feed \in [OwnChannels -> Seq(Entries)] /\ log \in [OwnChannels -> Seq(Messages)]
      /\ log[c] \in Seq(Messages) /\ OneEach(log[c])
  BY DEF FeedInv, FeedTypeOK, StoredOnce
<1>6. request[k].upto \in 0 .. Len(log[c])
  BY <1>1, <1>2, <1>4 DEF FeedInv, Wired
<1>7. rows \in Seq(Messages) /\ ToSet(rows) \subseteq ToSet(log[c]) /\ Single(rows)
  <2>1. rows \in Seq(Messages) /\ ToSet(rows) \subseteq ToSet(log[c])
    BY <1>3, <1>5, <1>6, Parted
  <2> QED BY <1>3, <1>5, <1>6, <2>1, HistorySingle
<1>8. rows \in Seq(Entries)
  BY <1>7, EntriesAre, SeqMonotonic
<1>9. feed'[c] = rows /\ \A d \in OwnChannels \ {c} : feed'[d] = feed[d]
  BY <1>4, <1>5
<1>10. request' \in Seq(Requests) /\ Wired'
  <2>1. RequestFine(Over(c))
    BY OverIs
  <2> QED BY <1>1, <1>4, <2>1, Changing
<1>11. FeedTypeOK'
  <2>1. feed' \in [OwnChannels -> Seq(Entries)]
    BY <1>4, <1>5, <1>8
  <2>2. overwritten' \subseteq Messages /\ unseen' \subseteq Messages
    <3>1. \A e \in ToSet(feed[c]) : e > 0 => e \in Messages
      <4> SUFFICES ASSUME NEW e \in ToSet(feed[c]), e > 0 PROVE e \in Messages
        OBVIOUS
      <4>1. e \in Entries
        BY <1>5, Entry
      <4> QED BY <4>1, ChatFeedAssumption DEF Entries, Messages
    <3> QED BY <1>4, <3>1 DEF FeedInv, FeedTypeOK
  <2>3. loaded' \subseteq OwnChannels
    BY <1>4 DEF FeedInv, FeedTypeOK
  <2> QED BY <1>4, <1>10, <2>1, <2>2, <2>3 DEF FeedInv, FeedTypeOK
<1>12. Connected' /\ JoinedIsSubscribed'
  BY <1>4 DEF FeedInv, Connected, JoinedIsSubscribed
<1>13. Numbered'
  <2>1. \A d \in OwnChannels : \A e \in ToSet(feed'[d]) : -posted <= e /\ e <= posted
    <3> SUFFICES ASSUME NEW d \in OwnChannels, NEW e \in ToSet(feed'[d])
                 PROVE  -posted <= e /\ e <= posted
      OBVIOUS
    <3>1. CASE d = c
      <4>1. e \in ToSet(log[c]) /\ e \in Messages
        BY <1>5, <1>7, <1>9, <3>1, Entry
      <4>2. e \in Int /\ e > 0 /\ e <= posted /\ posted \in Nat
        BY <4>1, EntriesAre, PostedIs DEF FeedInv, Numbered
      <4> QED BY <4>2
    <3>2. CASE d # c
      BY <1>9, <3>2 DEF FeedInv, Numbered
    <3> QED BY <3>1, <3>2
  <2> QED BY <1>4, <2>1 DEF FeedInv, Numbered
<1>14. StoredOnce'
  BY <1>4, SameMessages DEF FeedInv
<1>15. ShownOnce'
  BY <1>7, <1>9 DEF FeedInv, ShownOnce
<1>16. NothingForgotten'
  <2> SUFFICES ASSUME mounted, NEW d \in OwnChannels, NEW m \in ToSet(log[d])
               PROVE  \/ m \in unseen' \cup overwritten' \cup ToSet(feed'[d])
                      \/ Frame("broadcast", d, m) \in work
                      \/ Frame("message_created", d, m) \in ToSet(toClient)
    BY <1>4 DEF NothingForgotten
  <2>1. \/ m \in unseen \cup overwritten \cup ToSet(feed[d])
        \/ Frame("broadcast", d, m) \in work
        \/ Frame("message_created", d, m) \in ToSet(toClient)
    BY DEF FeedInv, NothingForgotten
  <2>2. m > 0
    BY <1>5, Entry, EntriesAre
  <2>3. CASE d = c
    BY <1>4, <1>9, <2>1, <2>2, <2>3
  <2>4. CASE d # c
    <3>1. m \notin ToSet(rows)
      BY <1>7, <2>4 DEF FeedInv, StoredOnce
    <3> QED BY <1>4, <1>9, <2>1, <2>4, <3>1
  <2> QED BY <2>3, <2>4
<1> QED BY <1>10, <1>11, <1>12, <1>13, <1>14, <1>15, <1>16 DEF FeedInv

LEMMA FeedStep == ASSUME FeedInv, [FeedNext]_feedVars PROVE FeedInv'
<1>1. CASE Connection
  BY <1>1, OpenedKeeps, ReauthenticateKeeps, ClientKeeps, UnmountKeeps DEF Connection
<1>2. CASE Breaks
  BY <1>2, BreaksKeep
<1>3. CASE Serving
  BY <1>3, ReceiveKeeps, HandleAuthenticateKeeps, HandleJoinKeeps, HandleMessageKeeps,
     PostKeeps, BroadcastKeeps, VerdictsKeep DEF Serving
<1>4. CASE Listening
  BY <1>4, HearKeeps, IgnoreKeeps DEF Listening
<1>5. CASE History
  BY <1>5, RequestKeeps, HistoryArrivesKeeps DEF History
<1>6. CASE User
  BY <1>6, SelectChannelKeeps, GoHomeKeeps, SendKeeps DEF User
<1>7. CASE UNCHANGED feedVars
  <2>1. UNCHANGED <<mounted, socket, reconnecting, selected, joined, loaded, feed, request,
                    overwritten, up, authenticated, subscribed, work, log, unseen, toServer,
                    toClient, posted, drops>>
    BY <1>7 DEF feedVars, browser, feeds, server, verdicts, wires
  <2>2. FeedTypeOK' /\ Connected' /\ JoinedIsSubscribed' /\ Wired' /\ Numbered'
    BY <2>1, SameWires, NoNewNumbers, PostedIs
       DEF FeedInv, FeedTypeOK, Connected, JoinedIsSubscribed
  <2>3. StoredOnce' /\ ShownOnce' /\ NothingForgotten'
    BY <2>1, SameMessages, SameShown DEF FeedInv
  <2> QED BY <2>2, <2>3 DEF FeedInv
<1>8. CASE Standing
  BY <1>8, VerdictsKeep
<1> QED BY <1>1, <1>2, <1>3, <1>4, <1>5, <1>6, <1>7, <1>8 DEF FeedNext

\* The invariant of a conversation holds in every state.
THEOREM FeedInvariance == FeedSpec => []FeedInv
<1>1. FeedInit => FeedInv
  BY ConversationStarts
<1>2. FeedInv /\ [FeedNext]_feedVars => FeedInv'
  BY FeedStep
<1> QED BY <1>1, <1>2, PTL DEF FeedSpec

\* Its verdicts keep their types.
LEMMA VerdictsHold == FeedSpec => []VerdictsOK
<1>1. FeedInit => VerdictsOK
  BY DEF FeedInit, VerdictsOK
<1>2. ASSUME VerdictsOK, [FeedNext]_feedVars PROVE VerdictsOK'
  <2>1. refusal' = refusal \/ refusal' \in {"none", "token", "full"}
    BY <1>2 DEF FeedNext, Connection, Opened, Reauthenticate, Renewed, Disconnected, Refused,
       Reconnect, Unmount, Breaks, Drop, Hangup, TurnedAway, TurnAway, Swept, Cut, Standing, Lapse,
       Relent, Serving, Receive, HandleAuthenticate, HandleJoin, DeclineJoin, Post, HandleMessage,
       Broadcast, Listening, Hear, Ignore, History, ReadHistory, HistoryArrives, HistoryFails,
       User, GoHome, Send, SelectChannel, feedVars, server, verdicts
  <2>2. declined' \subseteq declined \/ \E c \in OwnChannels : declined' \subseteq declined \cup {c}
    BY <1>2 DEF FeedNext, Connection, Opened, Reauthenticate, Renewed, Disconnected, Refused,
       Reconnect, Unmount, Breaks, Drop, Hangup, TurnedAway, TurnAway, Swept, Cut, Standing, Lapse,
       Relent, Serving, Receive, HandleAuthenticate, HandleJoin, DeclineJoin, Post, HandleMessage,
       Broadcast, Listening, Hear, Ignore, History, ReadHistory, HistoryArrives, HistoryFails,
       User, GoHome, Send, SelectChannel, feedVars, server, verdicts
  <2> QED BY <1>2, <2>1, <2>2 DEF VerdictsOK
<1> QED BY <1>1, <1>2, PTL DEF FeedSpec

\* On a live connection the client counts no channel as joined whose frames the server
\* does not send it (socket.js and ChatShell.jsx against ws/server.js).
THEOREM JoinedChannelsAreServed == FeedSpec => []JoinedIsSubscribed
<1>1. FeedInv => JoinedIsSubscribed
  BY DEF FeedInv
<1> QED BY <1>1, FeedInvariance, PTL

\* A conversation shows every message once and, when settled, every message that was
\* not broadcast past the client or taken off the screen by a late history.
THEOREM FeedsAreComplete == FeedSpec => []FeedComplete
<1>1. FeedInv => FeedComplete
  BY FeedInvSuffices
<1> QED BY <1>1, FeedInvariance, PTL

==============================================================================
