--------------------------- MODULE McpCatalogProofs --------------------------
(***************************************************************************)
(* For any number of agents and servers, however the configuration changes,  *)
(* and however many clients are built, a server has one client that is ever  *)
(* started, and that shakes hands before it is asked anything.               *)
(***************************************************************************)
EXTENDS McpCatalog, TLAPS

Client == DOMAIN clients
Untouched(k) == k \notin started /\ holder[k] = Nobody /\ link[k] = "new"

(* Whoever is in a call has its job.                                        *)
Employed == \A c \in Callers : at[c] # "idle" => job[c] \in Jobs

(* The map holds a server's own clients.                                    *)
Known == \A s \in Servers : sessions[s] # 0 => clients[sessions[s]] = s

(* A client that its builder has not put in the map yet is nobody else's.   *)
HasNew(c) ==
    /\ mine[c] # 0 /\ clients[mine[c]] = Server(c) /\ Untouched(mine[c])
    /\ \A s \in Servers : sessions[s] # mine[c]
    /\ \A d \in Callers : d # c => mine[d] # mine[c]
Fresh == \A c \in Callers : at[c] = "adopt" => HasNew(c)

(* The mutex is with the caller that shakes hands.                          *)
Held ==
    /\ \A c \in Callers : at[c] = "start" => holder[mine[c]] = c
    /\ \A k \in Client : holder[k] # Nobody => k \notin started

Flagged == \A k \in Client : k \in started <=> link[k] # "new"
Asking == \A c \in Callers : at[c] = "ask" => mine[c] \in started

IInv ==
    /\ TypeOK /\ Employed /\ Known /\ Fresh /\ Held /\ Flagged /\ Asking
    /\ OneClientPerServer

Places == {"idle", "cache", "session", "build", "adopt", "connect", "start", "ask", "store"}
Aims == {Nothing, "version", "tools", "invoke"}

LEMMA JobTypes ==
    /\ \A j \in Jobs : j.server \in Servers /\ j # NoJob
    /\ NoJob \notin Jobs
  BY DEF Jobs, NoJob

LEMMA InRange ==
    ASSUME TypeOK
    PROVE  /\ Client = 1..Len(clients) /\ Len(clients) \in Nat
           /\ \A k \in Client : /\ clients[k] \in Servers
                                /\ holder[k] \in Callers \cup {Nobody}
                                /\ link[k] \in {"new", "up", "dead"}
           /\ \A c \in Callers : mine[c] # 0 => mine[c] \in Client
           /\ \A s \in Servers : sessions[s] # 0 => sessions[s] \in Client
  <1>1. Len(clients) \in Nat /\ Len(holder) = Len(clients)
        /\ Len(link) = Len(clients)
    BY DEF TypeOK
  <1>2. \A k \in 1..Len(clients) : /\ clients[k] \in Servers
                                   /\ holder[k] \in Callers \cup {Nobody}
                                   /\ link[k] \in {"new", "up", "dead"}
    BY <1>1 DEF TypeOK
  <1> QED BY <1>1, <1>2 DEF TypeOK, Client

(* A caller that goes from one place to another, and leaves everything that  *)
(* is shared alone, keeps the invariant if it takes with it what is needed   *)
(* there.                                                                    *)
MovesTo(c, place, j, purpose, m) ==
    /\ at' = [at EXCEPT ![c] = place] /\ job' = [job EXCEPT ![c] = j]
    /\ aim' = [aim EXCEPT ![c] = purpose] /\ mine' = [mine EXCEPT ![c] = m]
    /\ UNCHANGED <<sessions, connections>>
Equipped(c, place, j, purpose, m) ==
    /\ place \in Places \ {"adopt", "start"} /\ j \in Jobs \cup {NoJob}
    /\ purpose \in Aims /\ m \in 0..Len(clients)
    /\ place # "idle" => j \in Jobs
    /\ place \in {"connect", "ask", "store"} => m # 0 /\ m = sessions[j.server]
    /\ place = "ask" => m \in started
    /\ \A d \in Callers : at[d] = "adopt" /\ d # c => mine[d] # m

LEMMA Moves ==
    ASSUME IInv, NEW c \in Callers, NEW place, NEW j, NEW purpose, NEW m,
           MovesTo(c, place, j, purpose, m), Equipped(c, place, j, purpose, m)
    PROVE  IInv'
  <1>0. /\ at' = [at EXCEPT ![c] = place] /\ job' = [job EXCEPT ![c] = j]
        /\ aim' = [aim EXCEPT ![c] = purpose] /\ mine' = [mine EXCEPT ![c] = m]
        /\ place \in Places \ {"adopt", "start"} /\ j \in Jobs \cup {NoJob}
        /\ purpose \in Aims /\ m \in 0..Len(clients)
        /\ place # "idle" => j \in Jobs
        /\ place \in {"connect", "ask", "store"} => m # 0 /\ m = sessions[j.server]
        /\ place = "ask" => m \in started
        /\ \A d \in Callers : at[d] = "adopt" /\ d # c => mine[d] # m
    BY DEF MovesTo, Equipped
  <1>1. /\ clients' = clients /\ started' = started /\ holder' = holder /\ link' = link
        /\ sessions' = sessions
    BY DEF connections, MovesTo
  <1>2. /\ at \in [Callers -> Places] /\ job \in [Callers -> Jobs \cup {NoJob}]
        /\ aim \in [Callers -> Aims] /\ mine \in [Callers -> 0..Len(clients)]
    BY DEF IInv, TypeOK, Places, Aims
  <1>3. /\ at'[c] = place /\ job'[c] = j /\ mine'[c] = m
        /\ \A d \in Callers : d # c => at'[d] = at[d] /\ job'[d] = job[d] /\ mine'[d] = mine[d]
    BY <1>0, <1>2
  <1>4. TypeOK'
    <2>1. /\ at' \in [Callers -> Places] /\ job' \in [Callers -> Jobs \cup {NoJob}]
          /\ aim' \in [Callers -> Aims] /\ mine' \in [Callers -> 0..Len(clients)]
      BY <1>0, <1>2
    <2> QED BY <1>1, <2>1 DEF IInv, TypeOK, Places, Aims
  <1>5. Employed'
    BY <1>0, <1>3 DEF IInv, Employed
  <1>6. Known' /\ Flagged'
    BY <1>1 DEF IInv, Known, Flagged, Client
  <1>7. Fresh'
    <2> SUFFICES ASSUME NEW d \in Callers, at'[d] = "adopt" PROVE HasNew(d)'
      BY DEF Fresh
    <2>1. d # c /\ at[d] = "adopt" /\ job'[d] = job[d] /\ mine'[d] = mine[d] /\ HasNew(d)
      BY <1>0, <1>3 DEF IInv, Fresh
    <2>2. \A e \in Callers : e # d => mine'[e] # mine'[d]
      BY <1>0, <1>3, <2>1 DEF HasNew
    <2> QED BY <1>1, <2>1, <2>2 DEF HasNew, Untouched, Server
  <1>8. Held'
    BY <1>0, <1>1, <1>3 DEF IInv, Held, Client
  <1>9. Asking'
    BY <1>0, <1>1, <1>3 DEF IInv, Asking
  <1>10. OneClientPerServer'
    <2>1. ASSUME NEW d \in Callers, Connecting(d)'
          PROVE  mine'[d] # 0 /\ mine'[d] = sessions'[Server(d)']
      <3>1. CASE d = c
        BY <1>0, <1>1, <1>3, <2>1, <3>1 DEF Connecting, Server
      <3>2. CASE d # c
        BY <1>1, <1>3, <2>1, <3>2 DEF Connecting, Server, IInv, OneClientPerServer
      <3> QED BY <3>1, <3>2
    <2> QED BY <1>1, <2>1 DEF IInv, OneClientPerServer
  <1> QED BY <1>4, <1>5, <1>6, <1>7, <1>8, <1>9, <1>10 DEF IInv

(* A call that ends is such a move.                                         *)
LEMMA Returns ==
    ASSUME IInv, NEW c \in Callers, NEW value, Return(c, value),
           UNCHANGED <<sessions, connections>>
    PROVE  IInv'
  <1>1. Equipped(c, "idle", NoJob, Nothing, 0)
    BY InRange DEF IInv, Fresh, HasNew, Equipped, Places, Aims
  <1>2. MovesTo(c, "idle", NoJob, Nothing, 0)
    BY DEF Return, Goto, MovesTo
  <1> QED BY <1>1, <1>2, Moves

(* So is a caller that looks for a client.                                  *)
LEMMA Wants ==
    ASSUME IInv, NEW c \in Callers, NEW j \in Jobs, NEW purpose \in Aims, Want(c, purpose),
           job' = [job EXCEPT ![c] = j], UNCHANGED <<sessions, connections>>
    PROVE  IInv'
  <1>1. Equipped(c, "session", j, purpose, 0)
    BY InRange DEF IInv, Fresh, HasNew, Equipped, Places
  <1>2. MovesTo(c, "session", j, purpose, 0)
    BY DEF Want, Goto, MovesTo
  <1> QED BY <1>1, <1>2, Moves

LEMMA Own ==
    ASSUME IInv, NEW c \in Callers
    PROVE  /\ job[c] \in Jobs \cup {NoJob} /\ job = [job EXCEPT ![c] = job[c]]
           /\ aim[c] \in Aims /\ aim = [aim EXCEPT ![c] = aim[c]]
           /\ mine[c] \in 0..Len(clients) /\ mine = [mine EXCEPT ![c] = mine[c]]
           /\ \A d \in Callers : at[d] = "adopt" /\ d # c => mine[d] # mine[c]
  <1>1. /\ job \in [Callers -> Jobs \cup {NoJob}] /\ aim \in [Callers -> Aims]
        /\ mine \in [Callers -> 0..Len(clients)]
    BY DEF IInv, TypeOK, Aims
  <1>2. \A d \in Callers : at[d] = "adopt" /\ d # c => mine[d] # mine[c]
    BY DEF IInv, Fresh, HasNew
  <1> QED BY <1>1, <1>2

LEMMA CallKeeps == ASSUME IInv, NEW c \in Callers, NEW j \in Jobs, Call(c, j) PROVE IInv'
  <1>1. UNCHANGED <<sessions, connections>>
    BY DEF Call, shared
  <1>2. CASE UNCHANGED <<at, job, aim, mine, list>>
    BY <1>1, <1>2
    DEF IInv, TypeOK, Employed, Known, Fresh, HasNew, Untouched, Held, Flagged, Asking, Client,
        OneClientPerServer, Connecting, Server, connections
  <1>3. CASE job' = [job EXCEPT ![c] = j] /\ (Want(c, "version") \/ Want(c, "invoke"))
    BY <1>1, <1>3, Wants DEF Aims
  <1>4. CASE job' = [job EXCEPT ![c] = j] /\ Goto(c, "cache") /\ UNCHANGED <<aim, mine>>
    <2>1. MovesTo(c, "cache", j, aim[c], mine[c])
      BY <1>1, <1>4, Own DEF MovesTo, Goto
    <2>2. Equipped(c, "cache", j, aim[c], mine[c])
      BY Own DEF Equipped, Places
    <2> QED BY <2>1, <2>2, Moves
  <1> QED
    <2>1. j.op \in {"list", "describe", "invoke"}
      BY DEF Jobs
    <2> QED BY <1>2, <1>3, <1>4, <2>1 DEF Call

LEMMA ReadCacheKeeps == ASSUME IInv, NEW c \in Callers, ReadCache(c) PROVE IInv'
  <1>1. UNCHANGED <<sessions, connections>>
    BY DEF ReadCache, shared
  <1>2. CASE \E value : Return(c, value)
    BY <1>1, <1>2, Returns
  <1>3. CASE Want(c, "tools") /\ UNCHANGED <<job, list, answer>>
    <2>1. job[c] \in Jobs /\ job' = [job EXCEPT ![c] = job[c]]
      BY <1>3, Own DEF IInv, Employed, ReadCache
    <2> QED BY <1>1, <1>3, <2>1, Wants DEF Aims
  <1> QED BY <1>2, <1>3 DEF ReadCache, ReturnTools, Fail

LEMMA FindSessionKeeps == ASSUME IInv, NEW c \in Callers, FindSession(c) PROVE IInv'
  <1>1. job[c] \in Jobs /\ Server(c) \in Servers
    BY JobTypes DEF IInv, Employed, FindSession, Server
  <1> DEFINE found == sessions[Server(c)]
             place == IF found # 0 THEN "connect" ELSE "build"
  <1>2. found \in 0..Len(clients)
    BY <1>1 DEF IInv, TypeOK
  <1>3. \A d \in Callers : at[d] = "adopt" => mine[d] # found
    BY <1>1 DEF IInv, Fresh, HasNew
  <1>4. MovesTo(c, place, job[c], aim[c], found)
    BY Own DEF FindSession, MovesTo, Goto, shared
  <1>5. Equipped(c, place, job[c], aim[c], found)
    BY <1>1, <1>2, <1>3, Own DEF Equipped, Places, Server
  <1> HIDE DEF place, found
  <1> QED BY <1>4, <1>5, Moves

(* A client that is built is new to everybody.                              *)
LEMMA BuildClientKeeps == ASSUME IInv, NEW c \in Callers, BuildClient(c) PROVE IInv'
  <1>1. CASE (\E value : Return(c, value)) /\ UNCHANGED connections
    BY <1>1, Returns DEF BuildClient, shared
  <1>2. CASE /\ clients' = Append(clients, Server(c)) /\ started' = started
             /\ holder' = Append(holder, Nobody) /\ link' = Append(link, "new")
             /\ mine' = [mine EXCEPT ![c] = Len(clients) + 1]
             /\ Goto(c, "adopt") /\ UNCHANGED <<job, aim, list, answer>>
    <2> DEFINE n == Len(clients) + 1
    <2>1. /\ sessions' = sessions /\ job[c] \in Jobs /\ Server(c) \in Servers
          /\ \A d \in Callers : Server(d)' = Server(d)
      BY <1>2, JobTypes DEF BuildClient, shared, IInv, Employed, Server
    <2>2. /\ n \in Nat /\ clients \in Seq(Servers) /\ started \subseteq 1..(n - 1)
          /\ holder \in Seq(Callers \cup {Nobody}) /\ link \in Seq({"new", "up", "dead"})
          /\ Len(holder) = n - 1 /\ Len(link) = n - 1
      BY DEF IInv, TypeOK
    <2>3. /\ Len(clients') = n /\ Client' = 1..n /\ Client = 1..(n - 1)
          /\ Len(holder') = n /\ Len(link') = n
      BY <1>2, <2>2 DEF Client
    <2>4. /\ started' = started
          /\ \A k \in Client : /\ clients'[k] = clients[k]
                              /\ holder'[k] = holder[k] /\ link'[k] = link[k]
      <3>1. \A k \in 1..(n - 1) : k \in 1..Len(clients)
                                  /\ k \in 1..Len(holder) /\ k \in 1..Len(link)
        BY <2>2
      <3>2. ASSUME NEW k \in 1..(n - 1) PROVE clients'[k] = clients[k]
        BY <1>2, <2>2, <3>1
      <3>4. ASSUME NEW k \in 1..(n - 1) PROVE holder'[k] = holder[k]
        BY <1>2, <2>2, <3>1
      <3>5. ASSUME NEW k \in 1..(n - 1) PROVE link'[k] = link[k]
        BY <1>2, <2>2, <3>1
      <3> QED BY <1>2, <2>3, <3>2, <3>4, <3>5
    <2>5. clients'[n] = Server(c) /\ n \notin started' /\ holder'[n] = Nobody /\ link'[n] = "new"
      BY <1>2, <2>2
    <2>6. /\ at'[c] = "adopt" /\ mine'[c] = n
          /\ \A d \in Callers : d # c => at'[d] = at[d] /\ mine'[d] = mine[d]
          /\ job' = job /\ aim' = aim
      BY <1>2 DEF IInv, TypeOK, Goto
    <2>7. /\ \A d \in Callers : mine[d] \in 0..(n - 1)
          /\ \A s \in Servers : sessions[s] \in 0..(n - 1)
      BY <2>2 DEF IInv, TypeOK
    <2>8. TypeOK'
      <3>1. /\ clients' \in Seq(Servers) /\ started' \subseteq Client'
            /\ holder' \in Seq(Callers \cup {Nobody}) /\ link' \in Seq({"new", "up", "dead"})
        <4>1. started' \subseteq Client'
          BY <2>2, <2>3, <2>4
        <4>2. clients' \in Seq(Servers)
          BY <1>2, <2>1, <2>2
        <4>3. holder' \in Seq(Callers \cup {Nobody})
          BY <1>2, <2>2
        <4>4. link' \in Seq({"new", "up", "dead"})
          BY <1>2, <2>2
        <4> QED BY <4>1, <4>2, <4>3, <4>4
      <3>2. sessions' \in [Servers -> 0..n] /\ mine' \in [Callers -> 0..n]
        BY <1>2, <2>1, <2>2, <2>7 DEF IInv, TypeOK
      <3>3. at' \in [Callers -> Places]
        BY <1>2 DEF IInv, TypeOK, Places, Goto
      <3> QED BY <2>3, <2>6, <3>1, <3>2, <3>3 DEF IInv, TypeOK, Places, Client
    <2>9. Employed'
      BY <2>1, <2>6 DEF IInv, Employed
    <2>10. Known'
      BY <2>1, <2>2, <2>3, <2>4, <2>7 DEF IInv, Known
    <2>11. Fresh'
      <3> SUFFICES ASSUME NEW d \in Callers, at'[d] = "adopt" PROVE HasNew(d)'
        BY DEF Fresh
      <3>1. CASE d = c
        BY <2>1, <2>2, <2>5, <2>6, <2>7, <3>1 DEF HasNew, Untouched
      <3>2. CASE d # c
        <4>1. at[d] = "adopt" /\ mine'[d] = mine[d] /\ mine[d] \in Client /\ HasNew(d)
          BY <2>2, <2>3, <2>6, <2>7, <3>2 DEF IInv, Fresh, HasNew
        <4> QED BY <2>1, <2>2, <2>4, <2>6, <2>7, <4>1 DEF HasNew, Untouched
      <3> QED BY <3>1, <3>2
    <2>12. Held'
      <3>1. ASSUME NEW d \in Callers, at'[d] = "start" PROVE holder'[mine'[d]] = d
        <4>1. at[d] = "start" /\ mine'[d] = mine[d] /\ mine[d] \in Client
          BY <2>2, <2>3, <2>6, <2>7, <3>1 DEF IInv, OneClientPerServer, Connecting
        <4> QED BY <2>4, <4>1 DEF IInv, Held
      <3>2. \A k \in Client' : k \in Client \/ k = n
        BY <2>2, <2>3
      <3>3. \A k \in Client' : holder'[k] # Nobody => k \notin started'
        BY <2>4, <2>5, <3>2 DEF IInv, Held
      <3> QED BY <3>1, <3>3 DEF Held
    <2>13. Flagged'
      BY <2>2, <2>3, <2>4, <2>5 DEF IInv, Flagged
    <2>14. Asking'
      <3>1. ASSUME NEW d \in Callers, at'[d] = "ask" PROVE mine'[d] \in started'
        <4>1. at[d] = "ask" /\ mine'[d] = mine[d] /\ mine[d] \in Client
          BY <2>2, <2>3, <2>6, <2>7, <3>1 DEF IInv, OneClientPerServer, Connecting
        <4> QED BY <2>4, <4>1 DEF IInv, Asking
      <3> QED BY <3>1 DEF Asking
    <2>15. OneClientPerServer'
      <3>1. \A d \in Callers : Connecting(d)' => mine'[d] # 0 /\ mine'[d] = sessions'[Server(d)']
        BY <2>1, <2>6 DEF IInv, OneClientPerServer, Connecting
      <3>2. \A k \in Client' : k \in started' \/ holder'[k] # Nobody \/ link'[k] # "new"
                               => sessions'[clients'[k]] = k
        BY <2>1, <2>2, <2>3, <2>4, <2>5 DEF IInv, OneClientPerServer, Client
      <3> QED BY <3>1, <3>2 DEF OneClientPerServer, Client
    <2> QED BY <2>8, <2>9, <2>10, <2>11, <2>12, <2>13, <2>14, <2>15 DEF IInv
  <1> QED BY <1>1, <1>2 DEF BuildClient, Fail

(* The one that adopts a client finds another in the map, or puts its own    *)
(* there, which nobody has used.                                             *)
LEMMA AdoptKeeps == ASSUME IInv, NEW c \in Callers, Adopt(c) PROVE IInv'
  <1> DEFINE s == Server(c)
             k == mine[c]
  <1>1. /\ job[c] \in Jobs /\ s \in Servers /\ HasNew(c) /\ at[c] = "adopt"
        /\ UNCHANGED <<connections, job, aim>>
    BY JobTypes DEF IInv, Employed, Fresh, Adopt, Server
  <1>2. /\ sessions \in [Servers -> 0..Len(clients)] /\ k \in Client /\ Len(clients) \in Nat
        /\ mine \in [Callers -> 0..Len(clients)] /\ at \in [Callers -> Places]
    BY <1>1, InRange DEF IInv, TypeOK, Places, HasNew
  <1>3. CASE sessions[s] # 0
    <2>1. sessions' = sessions
      BY <1>2, <1>3 DEF Adopt
    <2>2. MovesTo(c, "connect", job[c], aim[c], sessions[s])
      BY <1>1, <1>3, <2>1, Own DEF MovesTo, Adopt, Goto
    <2>3. Equipped(c, "connect", job[c], aim[c], sessions[s])
      BY <1>1, <1>2, <1>3, Own DEF Equipped, Places, IInv, Fresh, HasNew, Server
    <2> QED BY <2>2, <2>3, Moves
  <1>4. CASE sessions[s] = 0
    <2>1. /\ sessions' = [sessions EXCEPT ![s] = k] /\ mine' = mine
          /\ at' = [at EXCEPT ![c] = "connect"]
      BY <1>2, <1>4 DEF Adopt, Goto
    <2>2. /\ clients' = clients /\ started' = started /\ holder' = holder /\ link' = link
          /\ job' = job /\ aim' = aim
      BY <1>1 DEF connections
    <2>3. /\ sessions'[s] = k /\ \A x \in Servers : x # s => sessions'[x] = sessions[x]
          /\ at'[c] = "connect" /\ \A d \in Callers : d # c => at'[d] = at[d]
      BY <1>1, <1>2, <2>1
    <2>4. TypeOK'
      <3>1. sessions' \in [Servers -> 0..Len(clients)] /\ at' \in [Callers -> Places]
        BY <1>1, <1>2, <2>1 DEF Places, Client
      <3> QED BY <2>1, <2>2, <3>1 DEF IInv, TypeOK, Places
    <2>5. Employed' /\ Flagged' /\ Held' /\ Asking'
      BY <1>1, <2>1, <2>2, <2>3 DEF IInv, Employed, Flagged, Held, Asking, Client
    <2>6. Known'
      BY <1>1, <2>2, <2>3 DEF IInv, Known, HasNew
    <2>7. Fresh'
      <3> SUFFICES ASSUME NEW d \in Callers, at'[d] = "adopt" PROVE HasNew(d)'
        BY DEF Fresh
      <3>1. d # c /\ HasNew(d)
        BY <2>3 DEF IInv, Fresh
      <3> QED BY <1>1, <2>1, <2>2, <2>3, <3>1 DEF HasNew, Untouched, Server
    <2>8. OneClientPerServer'
      <3>1. ASSUME NEW d \in Callers, Connecting(d)'
            PROVE  mine'[d] # 0 /\ mine'[d] = sessions'[Server(d)']
        <4>1. CASE d = c
          BY <1>1, <2>1, <2>2, <2>3, <4>1 DEF Server, HasNew
        <4>2. CASE d # c
          <5>1. Connecting(d) /\ Server(d)' = Server(d) /\ mine[d] # 0
                /\ mine[d] = sessions[Server(d)]
            BY <2>2, <2>3, <3>1, <4>2 DEF Connecting, Server, IInv, OneClientPerServer
          <5>2. Server(d) \in Servers /\ Server(d) # s
            BY <1>4, <5>1, JobTypes DEF IInv, Employed, Connecting, Server
          <5> QED BY <2>1, <2>3, <5>1, <5>2
        <4> QED BY <4>1, <4>2
      <3>2. ASSUME NEW n \in Client, n \in started \/ holder[n] # Nobody \/ link[n] # "new"
            PROVE  sessions'[clients[n]] = n
        <4>1. sessions[clients[n]] = n /\ clients[n] \in Servers /\ n # 0
          BY <3>2, InRange DEF IInv, OneClientPerServer, Client
        <4>2. clients[n] # s
          BY <1>4, <4>1
        <4> QED BY <2>3, <4>1, <4>2
      <3> QED BY <2>2, <3>1, <3>2 DEF OneClientPerServer, Client
    <2> QED BY <2>4, <2>5, <2>6, <2>7, <2>8 DEF IInv
  <1> QED BY <1>3, <1>4

(* Who goes on from a client that is started may ask it.                    *)
LEMMA LockKeeps == ASSUME IInv, NEW c \in Callers, Lock(c) PROVE IInv'
  <1> DEFINE k == mine[c]
  <1>1. /\ at[c] = "connect" /\ holder[k] = Nobody /\ job[c] \in Jobs
        /\ UNCHANGED <<sessions, clients, started, link, job, aim, mine>>
    BY DEF Lock, IInv, Employed, shared
  <1>2. k # 0 /\ k = sessions[Server(c)] /\ k \in Client /\ sessions[clients[k]] = k
    <2>1. k # 0 /\ k = sessions[Server(c)] /\ Server(c) \in Servers
      BY <1>1, JobTypes DEF IInv, OneClientPerServer, Connecting, Server
    <2> QED BY <2>1, InRange DEF IInv, Known
  <1>3. CASE k \in started
    <2> DEFINE place == IF aim[c] = "version" THEN "cache" ELSE "ask"
    <2>1. MovesTo(c, place, job[c], aim[c], k)
      BY <1>1, <1>3, Own DEF MovesTo, Lock, Proceed, Goto, connections
    <2>2. Equipped(c, place, job[c], aim[c], k)
      BY <1>1, <1>2, <1>3, Own DEF Equipped, Places, Server
    <2> HIDE DEF place, k
    <2> QED BY <2>1, <2>2, Moves DEF k
  <1>4. CASE k \notin started
    <2>1. holder' = [holder EXCEPT ![k] = c] /\ at' = [at EXCEPT ![c] = "start"]
      BY <1>4 DEF Lock, Goto
    <2>2. /\ at \in [Callers -> Places] /\ holder \in Seq(Callers \cup {Nobody})
          /\ Client = 1..Len(holder) /\ Len(holder) = Len(clients)
      BY DEF IInv, TypeOK, Places, Client
    <2>3. /\ holder'[k] = c /\ \A n \in Client : n # k => holder'[n] = holder[n]
          /\ at'[c] = "start" /\ \A d \in Callers : d # c => at'[d] = at[d]
      BY <1>2, <2>1, <2>2
    <2>4. TypeOK'
      <3>1. holder' \in Seq(Callers \cup {Nobody}) /\ Len(holder') = Len(holder)
        BY <1>2, <2>1, <2>2
      <3>2. at' \in [Callers -> Places]
        BY <2>1, <2>2 DEF Places
      <3> QED BY <1>1, <3>1, <3>2 DEF IInv, TypeOK, Places
    <2>5. Employed' /\ Known' /\ Flagged' /\ Asking'
      BY <1>1, <2>3 DEF IInv, Employed, Known, Flagged, Asking, Client
    <2>6. Fresh'
      <3> SUFFICES ASSUME NEW d \in Callers, at'[d] = "adopt" PROVE HasNew(d)'
        BY DEF Fresh
      <3>1. d # c /\ HasNew(d) /\ mine[d] # k /\ mine[d] \in Client
        BY <2>3, InRange DEF IInv, Fresh, HasNew
      <3> QED BY <1>1, <2>3, <3>1 DEF HasNew, Untouched, Server
    <2>7. Held'
      <3>1. ASSUME NEW d \in Callers, at'[d] = "start" PROVE holder'[mine'[d]] = d
        <4>1. CASE d = c
          BY <1>1, <2>3, <4>1
        <4>2. CASE d # c
          <5>1. holder[mine[d]] = d /\ mine[d] \in Client
            BY <2>3, <3>1, <4>2, InRange DEF IInv, Held, OneClientPerServer, Connecting
          <5>2. d # Nobody
            BY CatalogAssumption
          <5> QED BY <1>1, <2>3, <5>1, <5>2
        <4> QED BY <4>1, <4>2
      <3>2. \A n \in Client : holder'[n] # Nobody => n \notin started
        BY <1>4, <2>3 DEF IInv, Held
      <3> QED BY <1>1, <3>1, <3>2 DEF Held, Client
    <2>8. OneClientPerServer'
      <3>1. \A d \in Callers : Connecting(d)' => mine'[d] # 0 /\ mine'[d] = sessions'[Server(d)']
        BY <1>1, <2>3 DEF IInv, OneClientPerServer, Connecting, Server
      <3>2. \A n \in Client : n \in started \/ holder'[n] # Nobody \/ link[n] # "new"
                              => sessions[clients[n]] = n
        BY <1>2, <2>3 DEF IInv, OneClientPerServer, Client
      <3> QED BY <1>1, <3>1, <3>2 DEF OneClientPerServer, Client
    <2> QED BY <2>4, <2>5, <2>6, <2>7, <2>8 DEF IInv
  <1> QED BY <1>3, <1>4

(* Whoever shakes hands has the only client of its server, and lets go of    *)
(* the mutex.                                                                *)
LEMMA AtTheDoor ==
    ASSUME IInv, NEW c \in Callers, at[c] = "start"
    PROVE  /\ mine[c] \in Client /\ mine[c] = sessions[Server(c)] /\ mine[c] # 0
           /\ holder[mine[c]] = c /\ c # Nobody /\ job[c] \in Jobs
           /\ sessions[clients[mine[c]]] = mine[c] /\ mine[c] \notin started
  <1>1. mine[c] # 0 /\ mine[c] = sessions[Server(c)] /\ holder[mine[c]] = c /\ job[c] \in Jobs
    BY DEF IInv, OneClientPerServer, Connecting, Held, Employed
  <1>2. c # Nobody /\ mine[c] \in Client
    BY <1>1, CatalogAssumption, InRange DEF IInv
  <1> QED BY <1>1, <1>2 DEF IInv, Held, OneClientPerServer, Client

LEMMA StartEnds ==
    ASSUME IInv, NEW c \in Callers, at[c] = "start",
           NEW place \in {"cache", "ask", "idle"}, NEW j \in Jobs \cup {NoJob},
           NEW purpose \in Aims, NEW m \in {0, mine[c]}, NEW up \in BOOLEAN,
           sessions' = sessions, clients' = clients,
           at' = [at EXCEPT ![c] = place], job' = [job EXCEPT ![c] = j],
           aim' = [aim EXCEPT ![c] = purpose], mine' = [mine EXCEPT ![c] = m],
           holder' = [holder EXCEPT ![mine[c]] = Nobody],
           up => /\ started' = started \cup {mine[c]}
                 /\ link' = [link EXCEPT ![mine[c]] = "up"],
           ~up => started' = started /\ link' = link,
           place # "idle" => j = job[c] /\ m = mine[c] /\ up
    PROVE  IInv'
  <1> DEFINE k == mine[c]
  <1>1. /\ k \in Client /\ k = sessions[Server(c)] /\ k # 0 /\ holder[k] = c /\ c # Nobody
        /\ job[c] \in Jobs /\ sessions[clients[k]] = k /\ k \notin started
    BY AtTheDoor
  <1>2. /\ at \in [Callers -> Places] /\ holder \in Seq(Callers \cup {Nobody})
        /\ link \in Seq({"new", "up", "dead"}) /\ Client = 1..Len(clients)
        /\ Len(holder) = Len(clients) /\ Len(link) = Len(clients) /\ Len(clients) \in Nat
        /\ mine \in [Callers -> 0..Len(clients)] /\ job \in [Callers -> Jobs \cup {NoJob}]
        /\ aim \in [Callers -> Aims] /\ started \subseteq Client
    BY DEF IInv, TypeOK, Places, Aims, Client
  <1>3. /\ at'[c] = place /\ job'[c] = j /\ mine'[c] = m
        /\ \A d \in Callers : d # c => at'[d] = at[d] /\ job'[d] = job[d] /\ mine'[d] = mine[d]
    BY <1>2
  <1>4. /\ holder'[k] = Nobody /\ \A n \in Client : n # k => holder'[n] = holder[n]
        /\ \A n \in Client : n # k => link'[n] = link[n]
        /\ started \subseteq started' /\ \A n \in Client : n # k /\ n \in started' => n \in started
        /\ up => link'[k] = "up" /\ k \in started'
        /\ ~up => link'[k] = link[k] /\ k \notin started'
    <2>1. CASE up
      BY <1>1, <1>2, <2>1
    <2>2. CASE ~up
      BY <1>1, <1>2, <2>2
    <2> QED BY <2>1, <2>2
  <1>5. TypeOK'
    <2>1. holder' \in Seq(Callers \cup {Nobody}) /\ Len(holder') = Len(holder)
      BY <1>1, <1>2
    <2>2. link' \in Seq({"new", "up", "dead"}) /\ Len(link') = Len(link)
      <3>1. CASE up
        <4>1. link' = [link EXCEPT ![k] = "up"]
          BY <3>1
        <4> HIDE DEF k
        <4> QED BY <1>1, <1>2, <4>1
      <3>2. CASE ~up
        BY <1>2, <3>2
      <3> QED BY <3>1, <3>2
    <2>3. /\ at' \in [Callers -> Places] /\ job' \in [Callers -> Jobs \cup {NoJob}]
          /\ aim' \in [Callers -> Aims] /\ mine' \in [Callers -> 0..Len(clients)]
      BY <1>2 DEF Places
    <2>4. started' \subseteq Client
      BY <1>1, <1>2
    <2> QED BY <1>2, <2>1, <2>2, <2>3, <2>4 DEF IInv, TypeOK, Places, Aims, Client
  <1>6. Employed' /\ Known'
    BY <1>1, <1>3 DEF IInv, Employed, Known
  <1>7. Fresh'
    <2> SUFFICES ASSUME NEW d \in Callers, at'[d] = "adopt" PROVE HasNew(d)'
      BY DEF Fresh
    <2>1. d # c /\ HasNew(d) /\ mine[d] # k /\ mine[d] \in Client /\ mine[d] # 0
      BY <1>3, InRange DEF IInv, Fresh, HasNew
    <2>2. Untouched(mine[d]) /\ mine[d] \notin started'
          /\ holder'[mine[d]] = Nobody /\ link'[mine[d]] = "new"
      BY <1>4, <2>1 DEF HasNew, Untouched
    <2> QED BY <1>3, <2>1, <2>2 DEF HasNew, Untouched, Server
  <1>8. Held'
    <2>1. ASSUME NEW d \in Callers, at'[d] = "start" PROVE holder'[mine'[d]] = d
      <3>1. d # c /\ holder[mine[d]] = d /\ mine[d] \in Client
        BY <1>3, <2>1, InRange DEF IInv, Held, OneClientPerServer, Connecting
      <3> QED BY <1>1, <1>3, <1>4, <3>1
    <2>2. \A n \in Client : holder'[n] # Nobody => n \notin started'
      BY <1>4 DEF IInv, Held
    <2> QED BY <2>1, <2>2 DEF Held, Client
  <1>9. Flagged'
    <2>1. \A n \in Client : n \in started' <=> link'[n] # "new"
      BY <1>1, <1>4 DEF IInv, Flagged
    <2> QED BY <2>1 DEF Flagged, Client
  <1>10. Asking'
    BY <1>3, <1>4 DEF IInv, Asking
  <1>11. OneClientPerServer'
    <2>1. ASSUME NEW d \in Callers, Connecting(d)'
          PROVE  mine'[d] # 0 /\ mine'[d] = sessions'[Server(d)']
      <3>1. CASE d = c
        BY <1>1, <1>3, <2>1, <3>1 DEF Connecting, Server
      <3>2. CASE d # c
        BY <1>3, <2>1, <3>2 DEF Connecting, Server, IInv, OneClientPerServer
      <3> QED BY <3>1, <3>2
    <2>2. \A n \in Client : n \in started' \/ holder'[n] # Nobody \/ link'[n] # "new"
                            => sessions[clients[n]] = n
      BY <1>1, <1>4 DEF IInv, OneClientPerServer, Client
    <2> QED BY <2>1, <2>2 DEF OneClientPerServer, Client
  <1> QED BY <1>5, <1>6, <1>7, <1>8, <1>9, <1>10, <1>11 DEF IInv

LEMMA StartKeeps ==
    ASSUME IInv, NEW c \in Callers, Started(c) \/ StartFailed(c) PROVE IInv'
  <1>1. CASE Started(c)
    <2> DEFINE place == IF aim[c] = "version" THEN "cache" ELSE "ask"
    <2>1. /\ at' = [at EXCEPT ![c] = place] /\ place \in {"cache", "ask", "idle"}
          /\ at[c] = "start" /\ sessions' = sessions /\ clients' = clients
          /\ holder' = [holder EXCEPT ![mine[c]] = Nobody]
          /\ started' = started \cup {mine[c]} /\ link' = [link EXCEPT ![mine[c]] = "up"]
      BY <1>1 DEF Started, Proceed, Goto, Unlock, shared
    <2>2. /\ job[c] \in Jobs \cup {NoJob} /\ job' = [job EXCEPT ![c] = job[c]]
          /\ aim[c] \in Aims /\ aim' = [aim EXCEPT ![c] = aim[c]]
          /\ mine' = [mine EXCEPT ![c] = mine[c]]
      BY <1>1, Own DEF Started
    <2> HIDE DEF place
    <2> QED BY <2>1, <2>2, StartEnds
  <1>2. CASE StartFailed(c)
    <2>1. /\ at[c] = "start" /\ sessions' = sessions /\ clients' = clients
          /\ holder' = [holder EXCEPT ![mine[c]] = Nobody]
          /\ started' = started /\ link' = link
      BY <1>2 DEF StartFailed, Unlock, shared
    <2>2. /\ at' = [at EXCEPT ![c] = "idle"] /\ job' = [job EXCEPT ![c] = NoJob]
          /\ aim' = [aim EXCEPT ![c] = Nothing] /\ mine' = [mine EXCEPT ![c] = 0]
      BY <1>2 DEF StartFailed, Fail, Return, Goto
    <2>3. Nothing \in Aims /\ NoJob \in Jobs \cup {NoJob} /\ 0 \in {0, mine[c]}
          /\ "idle" \in {"cache", "ask", "idle"} /\ FALSE \in BOOLEAN
      BY DEF Aims
    <2> QED BY <2>1, <2>2, <2>3, StartEnds
  <1> QED BY <1>1, <1>2

LEMMA AskKeeps ==
    ASSUME IInv, NEW c \in Callers, Answered(c) \/ AskFailed(c) \/ Store(c) PROVE IInv'
  <1>1. UNCHANGED <<sessions, connections>>
    BY DEF Answered, AskFailed, Store, shared
  <1>2. CASE \E value : Return(c, value)
    BY <1>1, <1>2, Returns
  <1>3. CASE at[c] = "ask" /\ Goto(c, "store") /\ UNCHANGED <<job, aim, mine, answer>>
    <2>1. MovesTo(c, "store", job[c], aim[c], mine[c])
      BY <1>1, <1>3, Own DEF MovesTo, Goto
    <2>2. job[c] \in Jobs /\ mine[c] # 0 /\ mine[c] = sessions[Server(c)]
      BY <1>3 DEF IInv, Employed, OneClientPerServer, Connecting
    <2>3. Equipped(c, "store", job[c], aim[c], mine[c])
      BY <2>2, Own DEF Equipped, Places, Server
    <2> QED BY <2>1, <2>3, Moves
  <1> QED BY <1>2, <1>3 DEF Answered, AskFailed, Store, ReturnTools, Fail

(* Around the catalog nothing it keeps changes, but that clients die.       *)
LEMMA WorldKeeps ==
    ASSUME IInv, UNCHANGED <<shared, connections, callers>> PROVE IInv'
  BY DEF IInv, TypeOK, Employed, Known, Fresh, HasNew, Untouched, Held, Flagged, Asking, Client,
         OneClientPerServer, Connecting, Server, shared, connections, callers

LEMMA DieKeeps == ASSUME IInv, NEW k \in Client, Die(k) PROVE IInv'
  <1>1. /\ UNCHANGED <<sessions, clients, started, holder, at, job, aim, mine>>
        /\ link[k] = "up" /\ link' = [link EXCEPT ![k] = "dead"]
    BY DEF Die, shared, callers
  <1>2. link \in Seq({"new", "up", "dead"}) /\ Client = 1..Len(link)
    BY DEF IInv, TypeOK, Client
  <1>3. /\ link' \in Seq({"new", "up", "dead"}) /\ Len(link') = Len(link)
        /\ \A n \in Client : link'[n] # "new" <=> link[n] # "new"
        /\ \A n \in Client : link[n] = "new" => link'[n] = "new"
    BY <1>1, <1>2
  <1>4. TypeOK' /\ Employed' /\ Known' /\ Held' /\ Asking'
    BY <1>1, <1>3 DEF IInv, TypeOK, Employed, Known, Held, Asking, Client
  <1>5. Fresh'
    <2> SUFFICES ASSUME NEW d \in Callers, at'[d] = "adopt" PROVE HasNew(d)'
      BY DEF Fresh
    <2>1. HasNew(d) /\ mine[d] \in Client
      BY <1>1, InRange DEF IInv, Fresh, HasNew
    <2> QED BY <1>1, <1>3, <2>1 DEF HasNew, Untouched, Server
  <1>6. Flagged'
    BY <1>1, <1>3 DEF IInv, Flagged, Client
  <1>7. OneClientPerServer'
    BY <1>1, <1>3 DEF IInv, OneClientPerServer, Connecting, Server, Client
  <1> QED BY <1>4, <1>5, <1>6, <1>7 DEF IInv

LEMMA Starting == ASSUME Init PROVE IInv
  <1>1. Len(clients) = 0 /\ Client = {} /\ clients \in Seq(Servers)
        /\ holder \in Seq(Callers \cup {Nobody}) /\ link \in Seq({"new", "up", "dead"})
        /\ Len(holder) = 0 /\ Len(link) = 0
    BY DEF Init, Client
  <1>2. TypeOK
    BY <1>1 DEF Init, TypeOK
  <1>3. Employed /\ Known /\ Fresh /\ Asking /\ (\A c \in Callers : ~Connecting(c))
    BY DEF Init, Employed, Known, Fresh, Asking, Connecting
  <1>4. Held /\ Flagged /\ OneClientPerServer
    BY <1>1, <1>3 DEF Init, Held, Flagged, OneClientPerServer, Client
  <1> QED BY <1>2, <1>3, <1>4 DEF IInv

LEMMA Inductive == IInv /\ [Next]_vars => IInv'
  <1> SUFFICES ASSUME IInv, [Next]_vars PROVE IInv'
    OBVIOUS
  <1>1. ASSUME NEW c \in Callers, Step(c) PROVE IInv'
    BY <1>1, ReadCacheKeeps, FindSessionKeeps, BuildClientKeeps, AdoptKeeps, LockKeeps,
       StartKeeps, AskKeeps DEF Step
  <1>2. ASSUME NEW c \in Callers, NEW j \in Jobs, Call(c, j) PROVE IInv'
    BY <1>2, CallKeeps
  <1>3. ASSUME NEW s \in Servers, NEW x, Reconfigure(s, x) \/ Reoffer(s, x) PROVE IInv'
    BY <1>3, WorldKeeps DEF Reconfigure, Reoffer
  <1>4. ASSUME NEW k \in Client, Die(k) PROVE IInv'
    BY <1>4, DieKeeps
  <1>5. CASE UNCHANGED vars
    BY <1>5, WorldKeeps DEF vars
  <1> QED BY <1>1, <1>2, <1>3, <1>4, <1>5 DEF Next, Client

LEMMA Invariant == Spec => []IInv
  BY Starting, Inductive, PTL DEF Spec

(* For any number of callers and servers: of all the clients that callers    *)
(* have built for a server at the same time, all use one, and no other was   *)
(* ever started (McpCatalog::session).                                       *)
THEOREM OneClientIsUsed == Spec => []OneClientPerServer
  BY Invariant, PTL DEF IInv

(* No client is asked anything before its handshake, which one caller makes  *)
(* once, whatever handshakes fail (McpClientSession::connect).               *)
THEOREM HandshakeIsFirst == Spec => []HandshakeComesFirst
  <1>1. ASSUME IInv PROVE HandshakeComesFirst
    <2>1. ASSUME NEW c \in Callers, at[c] = "ask" PROVE link[mine[c]] # "new"
      BY <1>1, <2>1, InRange DEF IInv, Asking, Flagged, OneClientPerServer, Connecting
    <2>2. ASSUME NEW c \in Callers, at[c] = "start"
          PROVE  /\ link[mine[c]] = "new"
                 /\ \A d \in Callers : at[d] = "start" /\ mine[d] = mine[c] => d = c
      BY <1>1, <2>2, AtTheDoor DEF IInv, Flagged
    <2> QED BY <2>1, <2>2 DEF HandshakeComesFirst
  <1> QED BY <1>1, Invariant, PTL

=============================================================================
