------------------------- MODULE BrightLinkProofs -------------------------
(***************************************************************************)
(* Proofs about BrightLink, for every set of identities of the bridge and  *)
(* every number of connections, calls, sessions and restarts: sessions are *)
(* only made with the pinned bridge, success means that the delivery is    *)
(* stored, and between calls the counter of the client is that of the      *)
(* bridge or behind it by deliveries it has not seen confirmed.            *)
(***************************************************************************)
EXTENDS BrightLink, TLAPS

(* The client by itself: a message is under way only for a builtin that    *)
(* waits for it, a registration is under way only without a session, a     *)
(* delivery only with one, and while the registration is answered the key  *)
(* fetched is the pinned one if there is one.                              *)
ClientOK ==
    /\ wire # None => sent
    /\ sent => pc # "idle" /\ sockfd # 0
    /\ pc \in {"pubkey", "sepkey", "register"} => session = None /\ calls >= 1
    /\ pc = "deliver" => session # None /\ counter >= 1
    /\ counter <= calls
    /\ pc = "register" => sep \in Idents /\ pinned \in {None, sep}

(* What the message under way says of the two ends: a request repeats the  *)
(* state of the client, which waits for the answer; an answer is of the    *)
(* kind that was asked for, a new session starts at 0 and a delivery that  *)
(* is confirmed is stored.                                                 *)
Request == [at |-> "bridge", cmd |-> pc, pub |-> pub, session |-> session,
            counter |-> counter, call |-> calls]

KeyAnswer ==
    /\ pc \in {"pubkey", "sepkey"}
    /\ \E i \in Idents : wire = [at |-> "client", ident |-> i]

SessionAnswer ==
    /\ pc = "register"
    /\ \E k \in Keys : /\ wire = [at |-> "client", key |-> k, sig |-> k[1]]
                       /\ key[sockfd] = k => lastIn[sockfd] = 0

RefusedAnswer ==
    /\ pc = "register"
    /\ wire = [at |-> "client", key |-> None, sig |-> None]

DeliveryAnswer ==
    /\ pc = "deliver"
    /\ \E e \in {"no", "echo", "session", "other"} :
          /\ wire = [at |-> "client", error |-> e]
          /\ e \in {"no", "echo"} => <<calls, session>> \in stored

GeoAnswer == pc = "geo" /\ wire = [at |-> "client"]

WireOK == wire # None => \/ wire = Request
                         \/ KeyAnswer \/ SessionAnswer \/ RefusedAnswer
                         \/ DeliveryAnswer \/ GeoAnswer

(* The bridge knows no session of a connection still to be made, and a     *)
(* request or answer is only lost with the connection.                     *)
BridgeOK ==
    /\ \A c \in Conns : c > conns => key[c] = None
    /\ wire = None /\ sent => sockfd \notin open

(* The counter n of a shell whose calls seen returned 0, against that of   *)
(* the connection fd if the bridge knows its session s there.              *)
InStep(fd, s, n, seen) ==
    s # None /\ fd \in open /\ key[fd] = s =>
        /\ n <= lastIn[fd]
        /\ AllSeen(s, seen) => n = lastIn[fd]

(* The bridge confirms a delivery that the client has counted.  Until then *)
(* it may still be taken back.                                             *)
Confirmed == pc = "deliver" /\ wire # None /\ wire.at = "client" /\ wire.error = "no"

CounterOK ==
    IF Confirmed
    THEN InStep(sockfd, session, counter, ok \cup {calls})
    ELSE InStep(sockfd, session, IF pc = "deliver" THEN counter - 1 ELSE counter, ok)

(* A call returns once.                                                    *)
InCall == pc \in {"pubkey", "sepkey", "register", "deliver"}
CallsOK == InCall => calls \notin ok

(* What the shell that waits for a forked one keeps: it is as between two  *)
(* calls, and if the forked shell uses the same connection, the session    *)
(* the bridge knows there is still the one both had.                       *)
ForkOK ==
    parent # None =>
        /\ parent.sockfd <= conns /\ parent.counter <= calls
        /\ parent.ok \subseteq 1..calls
        /\ \A c \in parent.ok : \E k \in Keys : <<c, k>> \in stored
        /\ parent.session # None => parent.session[1] = parent.pinned
        /\ InCall => calls \notin parent.ok
        /\ sockfd = parent.sockfd /\ sockfd # 0 /\ parent.session # None =>
               session = parent.session
        /\ InStep(parent.sockfd, parent.session, parent.counter, parent.ok)

(* The inductive invariant.                                                *)
IInv == /\ TypeOK /\ ClientOK /\ WireOK /\ BridgeOK /\ CounterOK
        /\ SessionIsPinned /\ SuccessMeansStored /\ CallsOK /\ ForkOK

-----------------------------------------------------------------------------
(* A call runs on one of the connections made (the socket is not closed    *)
(* while an answer is awaited), and the messages are told from None.       *)
LEMMA OnConnection ==
    ASSUME IInv
    PROVE  /\ sent => sockfd \in Conns /\ pc \in Pcs \ {"idle"}
           /\ open \subseteq Conns /\ 0 \notin open
           /\ None \notin Keys /\ None \notin Idents
           /\ MaxConns \in Nat /\ MaxCalls \in Nat /\ MaxRegs \in Nat
           /\ conns \in Nat /\ calls \in Nat /\ sockfd \in Nat /\ counter \in Nat
<1> QED BY BrightLinkAssumption, NoneAssumption
        DEF IInv, TypeOK, ClientOK, Conns, Pcs

(* The bridge reads the request of the client as it was sent, for the      *)
(* client waits (link_send_request()).                                     *)
LEMMA RequestRead ==
    ASSUME IInv, NEW c, Asked(c)
    PROVE  sent /\ wire = Request /\ pc = c
<1> QED BY DEF IInv, ClientOK, WireOK, Asked, Request, KeyAnswer,
               SessionAnswer,
               RefusedAnswer, DeliveryAnswer, GeoAnswer

(* The client reads the answer to what it asked (the one connection is     *)
(* used for one request at a time).                                        *)
LEMMA AnswerRead ==
    ASSUME IInv, wire # None, wire.at = "client"
    PROVE  /\ sent
           /\ KeyAnswer \/ SessionAnswer \/ RefusedAnswer \/ DeliveryAnswer \/ GeoAnswer
<1> QED BY DEF IInv, ClientOK, WireOK, Request

(* Nothing is under way between two calls.                                 *)
LEMMA IdleQuiet ==
    ASSUME IInv, pc = "idle"
    PROVE  wire = None /\ ~sent
<1> QED BY DEF IInv, ClientOK

(* A message is never taken for the absence of one.                        *)
LEMMA Messages ==
    ASSUME IInv
    PROVE  /\ Request # None
           /\ \A i \in Idents : [at |-> "client", ident |-> i] # None
           /\ \A k \in Keys \cup {None}, s \in Idents \cup {None} :
                 [at |-> "client", key |-> k, sig |-> s] # None
           /\ \A e \in {"no", "echo", "session", "other"} : [at |-> "client", error |-> e] # None
           /\ [at |-> "client"] # None
<1>1. Request \in Requests
  BY OnConnection DEF IInv, TypeOK, Request, Requests
<1> QED BY <1>1, NoneAssumption DEF Answers

(* The counter that is taken back has been taken (bin_bsh_inject()).       *)
LEMMA FailsLemma ==
    ASSUME IInv, Fails
    PROVE  counter' \in 0..MaxCalls /\ counter' <= calls'
<1>1. CASE pc = "deliver"
  BY <1>1, OnConnection DEF IInv, ClientOK, TypeOK, Fails
<1>2. CASE pc # "deliver"
  BY <1>2, OnConnection DEF IInv, ClientOK, TypeOK, Fails
<1> QED BY <1>1, <1>2

-----------------------------------------------------------------------------
USE DEF client, bridge, link, socket, user

(* A delivery takes its counter, or a registration begins without session. *)
LEMMA bsh_injectKeeps == IInv /\ bsh_inject => IInv'
<1> SUFFICES ASSUME IInv, bsh_inject PROVE IInv'
  OBVIOUS
<1>0. wire = None /\ ~sent
  BY IdleQuiet DEF bsh_inject
<1>1. TypeOK'
  BY OnConnection, <1>0, SMTT(30) DEF IInv, bsh_inject, TypeOK, ClientOK, Conns, Keys,
                            Pcs
<1>2. ClientOK'
  BY OnConnection, <1>0 DEF IInv, bsh_inject, TypeOK, ClientOK
<1>3. WireOK'
  BY OnConnection, <1>0 DEF IInv, bsh_inject, TypeOK, ClientOK, WireOK, Conns,
                            Keys, Request, KeyAnswer, SessionAnswer,
                            RefusedAnswer, DeliveryAnswer, GeoAnswer
<1>4. BridgeOK'
  BY OnConnection, <1>0 DEF IInv, bsh_inject, TypeOK, ClientOK, BridgeOK,
                            Conns
<1>5. CounterOK'
  BY OnConnection, <1>0 DEF IInv, bsh_inject, TypeOK, ClientOK, BridgeOK,
                            CounterOK, InStep, AllSeen, Confirmed, Conns
<1>6. SessionIsPinned'
  BY OnConnection, <1>0 DEF IInv, bsh_inject, TypeOK, ClientOK,
                            SessionIsPinned
<1>7. SuccessMeansStored'
  BY OnConnection, <1>0 DEF IInv, bsh_inject, TypeOK, SuccessMeansStored
<1>8. CallsOK'
  BY OnConnection, <1>0 DEF IInv, bsh_inject, TypeOK, ClientOK, CallsOK,
     InCall
<1>9. ForkOK'
  <2> SUFFICES ASSUME parent # None PROVE ForkOK'
    BY DEF bsh_inject, ForkOK
  <2>1. calls' = calls + 1 /\ parent.ok \subseteq 1..calls /\ parent.counter <= calls
    BY DEF IInv, ForkOK, bsh_inject
  <2>2. calls' \notin parent.ok /\ parent.ok \subseteq 1..calls'
    BY <2>1, OnConnection
  <2>3. parent \in Shells /\ parent.counter <= calls'
    BY <2>1, OnConnection DEF IInv, TypeOK, Shells
  <2>4. InStep(parent.sockfd, parent.session, parent.counter, parent.ok)'
    BY DEF IInv, ForkOK, bsh_inject, InStep, AllSeen
  <2> QED BY <2>2, <2>3, <2>4 DEF IInv, ForkOK, bsh_inject
<1> QED BY <1>1, <1>2, <1>3, <1>4, <1>5, <1>6, <1>7, <1>8, <1>9 DEF IInv

(* A request without session changes nothing that the two ends share.      *)
LEMMA link_geoKeeps == IInv /\ link_geo => IInv'
<1> SUFFICES ASSUME IInv, link_geo PROVE IInv'
  OBVIOUS
<1>0. wire = None /\ ~sent
  BY IdleQuiet DEF link_geo
<1>1. TypeOK'
  BY OnConnection, <1>0 DEF IInv, link_geo, TypeOK, ClientOK, Conns, Keys, Pcs
<1>2. ClientOK'
  BY OnConnection, <1>0 DEF IInv, link_geo, TypeOK, ClientOK
<1>3. WireOK'
  BY OnConnection, <1>0 DEF IInv, link_geo, TypeOK, ClientOK, WireOK, Conns,
                            Keys, Request, KeyAnswer, SessionAnswer,
                            RefusedAnswer, DeliveryAnswer, GeoAnswer
<1>4. BridgeOK'
  BY OnConnection, <1>0 DEF IInv, link_geo, TypeOK, ClientOK, BridgeOK, Conns
<1>5. CounterOK'
  BY OnConnection, <1>0 DEF IInv, link_geo, TypeOK, ClientOK, BridgeOK,
                            CounterOK, InStep, AllSeen, Confirmed, Conns
<1>6. SessionIsPinned'
  BY OnConnection, <1>0 DEF IInv, link_geo, TypeOK, ClientOK, SessionIsPinned
<1>7. SuccessMeansStored'
  BY OnConnection, <1>0 DEF IInv, link_geo, TypeOK, SuccessMeansStored
<1>8. CallsOK'
  BY OnConnection, <1>0 DEF IInv, link_geo, TypeOK, ClientOK, CallsOK, InCall
<1>9. ForkOK'
  BY OnConnection, <1>0 DEF IInv, link_geo, TypeOK, ClientOK, BridgeOK,
     InStep, AllSeen, Conns, ForkOK, InCall, Shells
<1> QED BY <1>1, <1>2, <1>3, <1>4, <1>5, <1>6, <1>7, <1>8, <1>9 DEF IInv

(* A forked shell begins with a copy.                                      *)
LEMMA ForkKeeps == IInv /\ Fork => IInv'
<1> SUFFICES ASSUME IInv, Fork PROVE IInv'
  OBVIOUS
<1>0. wire = None /\ ~sent
  BY IdleQuiet DEF Fork
<1>1. TypeOK'
  <2>1. ok \in SUBSET (1..MaxCalls)
    BY OnConnection DEF IInv, TypeOK
  <2>2. parent' \in Shells
    BY <2>1, OnConnection DEF IInv, Fork, TypeOK, Shells, Conns
  <2> QED BY <2>2 DEF IInv, Fork, TypeOK
<1>2. ClientOK'
  BY <1>0 DEF IInv, Fork, ClientOK
<1>3. WireOK'
  BY <1>0 DEF Fork, WireOK
<1>4. BridgeOK'
  BY <1>0 DEF IInv, Fork, BridgeOK
<1>5. CounterOK'
  BY <1>0 DEF IInv, Fork, CounterOK, InStep, AllSeen, Confirmed
<1>6. SessionIsPinned'
  BY DEF IInv, Fork, SessionIsPinned
<1>7. SuccessMeansStored'
  BY DEF IInv, Fork, SuccessMeansStored
<1>8. CallsOK'
  BY DEF Fork, CallsOK, InCall
<1>9. ForkOK'
  <2>1. /\ parent'.sockfd = sockfd /\ parent'.session = session
        /\ parent'.counter = counter /\ parent'.pinned = pinned /\ parent'.ok = ok
    BY DEF Fork
  <2>2. InStep(parent.sockfd, parent.session, parent.counter, parent.ok)'
    BY <2>1 DEF IInv, Fork, CounterOK, Confirmed, InStep, AllSeen
  <2>3. sockfd <= conns /\ counter <= calls /\ ok \subseteq 1..calls
    BY OnConnection DEF IInv, TypeOK, ClientOK
  <2> QED BY <2>1, <2>2, <2>3 DEF IInv, Fork, ForkOK, InCall, SessionIsPinned,
                                  SuccessMeansStored
<1> QED BY <1>1, <1>2, <1>3, <1>4, <1>5, <1>6, <1>7, <1>8, <1>9 DEF IInv

(* The shell that has waited finds its counter as the bridge left it.      *)
LEMMA ForkEndsKeeps == IInv /\ ForkEnds => IInv'
<1> SUFFICES ASSUME IInv, ForkEnds PROVE IInv'
  OBVIOUS
<1>0. wire = None /\ ~sent
  BY IdleQuiet DEF ForkEnds
<1>a. parent \in Shells
  BY DEF IInv, TypeOK, ForkEnds
<1>b. /\ parent.sockfd \notin OwnConns
      /\ open' = open \ OwnConns
      /\ \A k \in Conns : key'[k] = IF k \in OwnConns THEN None ELSE key[k]
  BY DEF ForkEnds, OwnConns
<1>1. TypeOK'
  <2>1. key' \in [Conns -> Keys \cup {None}]
    BY DEF IInv, TypeOK, ForkEnds
  <2>2. sockfd' \in 0..conns /\ counter' \in 0..MaxCalls /\ ok' \subseteq 1..calls
    BY <1>a, OnConnection DEF IInv, TypeOK, ForkEnds, ForkOK, Shells, Conns
  <2> QED BY <1>a, <2>1, <2>2 DEF IInv, TypeOK, ForkEnds, Shells
<1>2. ClientOK'
  BY <1>0 DEF IInv, ForkEnds, ClientOK, ForkOK
<1>3. WireOK'
  BY <1>0 DEF ForkEnds, WireOK
<1>4. BridgeOK'
  BY <1>0, <1>b DEF IInv, ForkEnds, BridgeOK
<1>5. CounterOK'
  <2>1. InStep(parent.sockfd, parent.session, parent.counter, parent.ok)
    BY DEF IInv, ForkOK, ForkEnds
  <2>2. ~Confirmed' /\ pc' # "deliver"
    BY DEF ForkEnds, Confirmed
  <2>3. open \subseteq Conns
    BY OnConnection
  <2>4. InStep(sockfd, session, counter, ok)'
    BY <1>b, <2>1, <2>3 DEF ForkEnds, InStep, AllSeen
  <2> QED BY <2>2, <2>4 DEF CounterOK
<1>6. SessionIsPinned'
  BY DEF IInv, ForkEnds, SessionIsPinned, ForkOK
<1>7. SuccessMeansStored'
  BY DEF IInv, ForkEnds, SuccessMeansStored, ForkOK
<1>8. CallsOK'
  BY DEF ForkEnds, CallsOK, InCall
<1>9. ForkOK'
  BY DEF ForkEnds, ForkOK
<1> QED BY <1>1, <1>2, <1>3, <1>4, <1>5, <1>6, <1>7, <1>8, <1>9 DEF IInv

(* The module goes with its session, whether the pinned key goes or not.   *)
LEMMA finishKeeps == IInv /\ finish => IInv'
<1> SUFFICES ASSUME IInv, finish PROVE IInv'
  OBVIOUS
<1>0. wire = None /\ ~sent
  BY IdleQuiet DEF finish
<1>1. TypeOK'
  BY OnConnection, <1>0 DEF IInv, finish, OwnConns, TypeOK, ClientOK, Conns, Keys, Pcs
<1>2. ClientOK'
  BY OnConnection, <1>0 DEF IInv, finish, OwnConns, TypeOK, ClientOK
<1>3. WireOK'
  BY OnConnection, <1>0 DEF IInv, finish, OwnConns, TypeOK, ClientOK, WireOK, Conns,
                            Keys, Request, KeyAnswer, SessionAnswer,
                            RefusedAnswer, DeliveryAnswer, GeoAnswer
<1>4. BridgeOK'
  BY OnConnection, <1>0 DEF IInv, finish, OwnConns, TypeOK, ClientOK, BridgeOK, Conns
<1>5. CounterOK'
  BY OnConnection, <1>0 DEF IInv, finish, OwnConns, TypeOK, ClientOK, BridgeOK,
                            CounterOK, InStep, AllSeen, Confirmed, Conns
<1>6. SessionIsPinned'
  BY OnConnection, <1>0 DEF IInv, finish, OwnConns, TypeOK, ClientOK, SessionIsPinned
<1>7. SuccessMeansStored'
  BY OnConnection, <1>0 DEF IInv, finish, OwnConns, TypeOK, SuccessMeansStored
<1>8. CallsOK'
  BY OnConnection, <1>0 DEF IInv, finish, OwnConns, TypeOK, ClientOK, CallsOK, InCall
<1>9. ForkOK'
  BY OnConnection, <1>0 DEF IInv, finish, OwnConns, TypeOK, ClientOK, BridgeOK, InStep,
     AllSeen, Conns, ForkOK, InCall, Shells
<1> QED BY <1>1, <1>2, <1>3, <1>4, <1>5, <1>6, <1>7, <1>8, <1>9 DEF IInv

(* A delivery that finds no connection takes its counter back.             *)
LEMMA ConnectFailsKeeps == IInv /\ ConnectFails => IInv'
<1> SUFFICES ASSUME IInv, ConnectFails PROVE IInv'
  OBVIOUS
<1>1. TypeOK'
  <2>1. counter' \in 0..MaxCalls
    BY FailsLemma DEF ConnectFails
  <2> QED BY <2>1, OnConnection DEF IInv, ConnectFails, Fails, TypeOK, Pcs
<1>2. ClientOK'
  BY OnConnection DEF IInv, ConnectFails, Fails, TypeOK, ClientOK
<1>3. WireOK'
  BY OnConnection DEF IInv, ConnectFails, Fails, TypeOK, ClientOK, WireOK,
                      Conns, Keys, Request, KeyAnswer, SessionAnswer,
                      RefusedAnswer, DeliveryAnswer, GeoAnswer
<1>4. BridgeOK'
  BY OnConnection DEF IInv, ConnectFails, Fails, TypeOK, ClientOK, BridgeOK,
                      Conns
<1>5. CounterOK'
  BY OnConnection DEF IInv, ConnectFails, Fails, TypeOK, ClientOK, BridgeOK,
                      CounterOK, InStep, AllSeen, Confirmed, Conns
<1>6. SessionIsPinned'
  BY OnConnection DEF IInv, ConnectFails, Fails, TypeOK, ClientOK,
                      SessionIsPinned
<1>7. SuccessMeansStored'
  BY OnConnection DEF IInv, ConnectFails, Fails, TypeOK, SuccessMeansStored
<1>8. CallsOK'
  BY OnConnection DEF IInv, ConnectFails, Fails, TypeOK, ClientOK, CallsOK,
     InCall
<1>9. ForkOK'
  BY OnConnection DEF IInv, ConnectFails, Fails, TypeOK, ClientOK, BridgeOK,
     InStep, AllSeen, Conns, ForkOK, InCall, Shells
<1> QED BY <1>1, <1>2, <1>3, <1>4, <1>5, <1>6, <1>7, <1>8, <1>9 DEF IInv

(* The bridge knows no session of a connection that is new.                *)
LEMMA link_socket_connectKeeps == IInv /\ link_socket_connect => IInv'
<1> SUFFICES ASSUME IInv, link_socket_connect PROVE IInv'
  OBVIOUS
<1>1. TypeOK'
  BY OnConnection DEF IInv, link_socket_connect, TypeOK, ClientOK, Pcs
<1>2. ClientOK'
  BY OnConnection DEF IInv, link_socket_connect, TypeOK, ClientOK
<1>3. WireOK'
  BY OnConnection DEF IInv, link_socket_connect, TypeOK, ClientOK, WireOK,
                      Conns, Keys, Request, KeyAnswer, SessionAnswer,
                      RefusedAnswer, DeliveryAnswer, GeoAnswer
<1>4. BridgeOK'
  BY OnConnection DEF IInv, link_socket_connect, TypeOK, ClientOK, BridgeOK,
                      Conns
<1>5. CounterOK'
  BY OnConnection DEF IInv, link_socket_connect, TypeOK, ClientOK, BridgeOK,
                      CounterOK, InStep, AllSeen, Confirmed, Conns
<1>6. SessionIsPinned'
  BY OnConnection DEF IInv, link_socket_connect, TypeOK, ClientOK,
                      SessionIsPinned
<1>7. SuccessMeansStored'
  BY OnConnection DEF IInv, link_socket_connect, TypeOK, SuccessMeansStored
<1>8. CallsOK'
  BY OnConnection DEF IInv, link_socket_connect, TypeOK, ClientOK, CallsOK,
     InCall
<1>9. ForkOK'
  <2> SUFFICES ASSUME parent # None PROVE ForkOK'
    BY DEF link_socket_connect, ForkOK
  <2>1. parent.sockfd <= conns /\ parent.sockfd \in Nat /\ parent.sockfd # conns'
    BY OnConnection DEF IInv, ForkOK, TypeOK, Shells, Conns, link_socket_connect
  <2>2. parent.sockfd <= conns' /\ sockfd' # parent.sockfd
    BY <2>1, OnConnection DEF link_socket_connect
  <2>3. InStep(parent.sockfd, parent.session, parent.counter, parent.ok)'
    BY <2>1 DEF IInv, ForkOK, link_socket_connect, InStep, AllSeen
  <2> QED BY <2>2, <2>3 DEF IInv, ForkOK, link_socket_connect, InCall
<1> QED BY <1>1, <1>2, <1>3, <1>4, <1>5, <1>6, <1>7, <1>8, <1>9 DEF IInv

(* The request under way repeats the state of the client.                  *)
LEMMA SendKeeps == IInv /\ Send => IInv'
<1> SUFFICES ASSUME IInv, Send PROVE IInv'
  OBVIOUS
<1>1. TypeOK'
  BY OnConnection DEF IInv, Send, TypeOK, ClientOK, Conns, Keys, Pcs
<1>2. ClientOK'
  BY OnConnection DEF IInv, Send, TypeOK, ClientOK
<1>3. WireOK'
  BY OnConnection, Messages DEF IInv, Send, TypeOK, ClientOK, WireOK, Conns,
                                Keys, Request, KeyAnswer, SessionAnswer,
                                RefusedAnswer, DeliveryAnswer, GeoAnswer
<1>4. BridgeOK'
  <2>1. wire' # None
    BY Messages DEF Send, Request
  <2> QED BY <2>1 DEF IInv, BridgeOK, Send
<1>5. CounterOK'
  BY OnConnection DEF IInv, Send, TypeOK, ClientOK, BridgeOK, CounterOK, InStep, AllSeen, Confirmed, Conns
<1>6. SessionIsPinned'
  BY OnConnection DEF IInv, Send, TypeOK, ClientOK, SessionIsPinned
<1>7. SuccessMeansStored'
  BY OnConnection DEF IInv, Send, TypeOK, SuccessMeansStored
<1>8. CallsOK'
  BY OnConnection DEF IInv, Send, TypeOK, ClientOK, CallsOK, InCall
<1>9. ForkOK'
  BY OnConnection DEF IInv, Send, TypeOK, ClientOK, BridgeOK, InStep, AllSeen,
     Conns, ForkOK, InCall, Shells
<1> QED BY <1>1, <1>2, <1>3, <1>4, <1>5, <1>6, <1>7, <1>8, <1>9 DEF IInv

(* The connection is gone, and the session of the bridge with it.          *)
LEMMA TransportFailsKeeps == IInv /\ TransportFails => IInv'
<1> SUFFICES ASSUME IInv, TransportFails PROVE IInv'
  OBVIOUS
<1>1. TypeOK'
  <2>1. counter' \in 0..MaxCalls
    BY FailsLemma DEF TransportFails
  <2>2. sockfd' \in 0..conns' /\ conns' = conns
    BY OnConnection DEF TransportFails
  <2> QED BY <2>1, <2>2 DEF IInv, TransportFails, Fails, TypeOK, Pcs
<1>2. ClientOK'
  BY OnConnection DEF IInv, TransportFails, Fails, TypeOK, ClientOK
<1>3. WireOK'
  BY OnConnection DEF IInv, TransportFails, Fails, TypeOK, ClientOK, WireOK,
                      Conns, Keys, Request, KeyAnswer, SessionAnswer,
                      RefusedAnswer, DeliveryAnswer, GeoAnswer
<1>4. BridgeOK'
  BY OnConnection DEF IInv, TransportFails, Fails, TypeOK, ClientOK, BridgeOK,
                      Conns
<1>5. CounterOK'
  BY OnConnection DEF IInv, TransportFails, Fails, TypeOK, ClientOK, BridgeOK,
                      CounterOK, InStep, AllSeen, Confirmed, Conns
<1>6. SessionIsPinned'
  BY OnConnection DEF IInv, TransportFails, Fails, TypeOK, ClientOK,
                      SessionIsPinned
<1>7. SuccessMeansStored'
  BY OnConnection DEF IInv, TransportFails, Fails, TypeOK, SuccessMeansStored
<1>8. CallsOK'
  BY OnConnection DEF IInv, TransportFails, Fails, TypeOK, ClientOK, CallsOK,
     InCall
<1>9. ForkOK'
  BY OnConnection DEF IInv, TransportFails, Fails, TypeOK, ClientOK, BridgeOK,
     InStep, AllSeen, Conns, ForkOK, InCall, Shells
<1> QED BY <1>1, <1>2, <1>3, <1>4, <1>5, <1>6, <1>7, <1>8, <1>9 DEF IInv

(* The public key is read; there is still no session.                      *)
LEMMA ReadPubKeeps == IInv /\ ReadPub => IInv'
<1> SUFFICES ASSUME IInv, ReadPub PROVE IInv'
  OBVIOUS
<1>0. sent /\ KeyAnswer
  BY AnswerRead DEF ReadPub, Answered, Request, KeyAnswer, SessionAnswer,
                    RefusedAnswer, DeliveryAnswer, GeoAnswer
<1>1. TypeOK'
  <2>1. pub' \in Idents
    BY <1>0 DEF KeyAnswer, ReadPub
  <2> QED BY <2>1 DEF IInv, ReadPub, Read, TypeOK, Pcs
<1>2. ClientOK'
  BY OnConnection, <1>0 DEF IInv, ReadPub, Answered, Read, TypeOK, ClientOK,
                            KeyAnswer
<1>3. WireOK'
  BY OnConnection, <1>0 DEF IInv, ReadPub, Answered, Read, TypeOK, ClientOK,
                            WireOK, Conns, Keys, Request, KeyAnswer,
                            SessionAnswer, RefusedAnswer, DeliveryAnswer,
                            GeoAnswer
<1>4. BridgeOK'
  BY OnConnection, <1>0 DEF IInv, ReadPub, Answered, Read, TypeOK, ClientOK,
                            BridgeOK, Conns, KeyAnswer
<1>5. CounterOK'
  BY OnConnection, <1>0 DEF IInv, ReadPub, Answered, Read, TypeOK, ClientOK,
                            BridgeOK, CounterOK, InStep, AllSeen, Confirmed,
                            Conns, KeyAnswer
<1>6. SessionIsPinned'
  BY OnConnection, <1>0 DEF IInv, ReadPub, Answered, Read, TypeOK, ClientOK,
                            SessionIsPinned, KeyAnswer
<1>7. SuccessMeansStored'
  BY OnConnection, <1>0 DEF IInv, ReadPub, Answered, Read, TypeOK,
                            SuccessMeansStored, KeyAnswer
<1>8. CallsOK'
  BY OnConnection, <1>0 DEF IInv, ReadPub, Answered, Read, TypeOK, ClientOK,
     KeyAnswer, CallsOK, InCall
<1>9. ForkOK'
  BY OnConnection, <1>0 DEF IInv, ReadPub, Answered, Read, TypeOK, ClientOK,
     BridgeOK, InStep, AllSeen, Conns, KeyAnswer, ForkOK, InCall, Shells
<1> QED BY <1>1, <1>2, <1>3, <1>4, <1>5, <1>6, <1>7, <1>8, <1>9 DEF IInv

(* The signing key is only used for a registration if it may be pinned.    *)
LEMMA ReadSepKeeps == IInv /\ ReadSep => IInv'
<1> SUFFICES ASSUME IInv, ReadSep PROVE IInv'
  OBVIOUS
<1>0. sent /\ KeyAnswer
  BY AnswerRead DEF ReadSep, Answered, Request, KeyAnswer, SessionAnswer,
                    RefusedAnswer, DeliveryAnswer, GeoAnswer
<1>1. TypeOK'
  <2>1. wire.ident \in Idents
    BY <1>0 DEF KeyAnswer
  <2>2. CASE TrustedKey
    BY <2>1, <2>2 DEF IInv, ReadSep, TypeOK, Pcs
  <2>3. CASE ~TrustedKey
    <3>1. counter' \in 0..MaxCalls
      BY <2>3, FailsLemma DEF ReadSep
    <3> QED BY <2>3, <3>1 DEF IInv, ReadSep, Fails, TypeOK, Pcs
  <2> QED BY <2>2, <2>3
<1>2. ClientOK'
  BY OnConnection, <1>0 DEF IInv, ReadSep, Answered, Fails, TrustedKey,
                            TypeOK, ClientOK, KeyAnswer
<1>3. WireOK'
  BY OnConnection, <1>0 DEF IInv, ReadSep, Answered, Fails, TrustedKey,
                            TypeOK, ClientOK, WireOK, Conns, Keys, Request,
                            KeyAnswer, SessionAnswer, RefusedAnswer,
                            DeliveryAnswer, GeoAnswer
<1>4. BridgeOK'
  BY OnConnection, <1>0 DEF IInv, ReadSep, Answered, Fails, TrustedKey,
                            TypeOK, ClientOK, BridgeOK, Conns, KeyAnswer
<1>5. CounterOK'
  BY OnConnection, <1>0 DEF IInv, ReadSep, Answered, Fails, TrustedKey,
                            TypeOK, ClientOK, BridgeOK, CounterOK, InStep, AllSeen, Confirmed, Conns, KeyAnswer
<1>6. SessionIsPinned'
  BY OnConnection, <1>0 DEF IInv, ReadSep, Answered, Fails, TrustedKey,
                            TypeOK, ClientOK, SessionIsPinned, KeyAnswer
<1>7. SuccessMeansStored'
  BY OnConnection, <1>0 DEF IInv, ReadSep, Answered, Fails, TrustedKey,
                            TypeOK, SuccessMeansStored, KeyAnswer
<1>8. CallsOK'
  BY OnConnection, <1>0 DEF IInv, ReadSep, Answered, Fails, TrustedKey,
     TypeOK, ClientOK, KeyAnswer, CallsOK, InCall
<1>9. ForkOK'
  BY OnConnection, <1>0 DEF IInv, ReadSep, Answered, Fails, TrustedKey,
     TypeOK, ClientOK, BridgeOK, InStep, AllSeen, Conns, KeyAnswer, ForkOK,
     InCall, Shells
<1> QED BY <1>1, <1>2, <1>3, <1>4, <1>5, <1>6, <1>7, <1>8, <1>9 DEF IInv

(* A new session starts with counter 0 at the bridge and 1 at the client.  *)
LEMMA ReadSessionKeeps == IInv /\ ReadSession => IInv'
<1> SUFFICES ASSUME IInv, ReadSession PROVE IInv'
  OBVIOUS
<1>0. sent /\ (SessionAnswer \/ RefusedAnswer)
  BY AnswerRead DEF ReadSession, Answered, Request, KeyAnswer, SessionAnswer,
                    RefusedAnswer, DeliveryAnswer, GeoAnswer
<1>1. TypeOK'
  <2>1. CASE Verified
    <3>1. SessionAnswer /\ pc = "register"
      BY <1>0, <2>1 DEF Verified, SessionAnswer, RefusedAnswer
    <3>2. session' \in Keys
      BY <3>1, <2>1 DEF SessionAnswer, ReadSession
    <3>3. 1 \in 0..MaxCalls
      BY <3>1, OnConnection DEF IInv, ClientOK, TypeOK
    <3>4. refused' \in Nat
      BY <2>1 DEF ReadSession
    <3> QED BY <2>1, <3>2, <3>3, <3>4 DEF IInv, ReadSession, TypeOK, Pcs
  <2>2. CASE ~Verified
    <3>1. counter' \in 0..MaxCalls
      BY <2>2, FailsLemma DEF ReadSession
    <3> QED BY <2>2, <3>1 DEF IInv, ReadSession, Fails, TypeOK, Pcs
  <2> QED BY <2>1, <2>2
<1>2. ClientOK'
  BY OnConnection, <1>0 DEF IInv, ReadSession, Answered, Fails, Verified,
                            TypeOK, ClientOK, SessionAnswer, RefusedAnswer
<1>3. WireOK'
  BY OnConnection, <1>0 DEF IInv, ReadSession, Answered, Fails, Verified,
                            TypeOK, ClientOK, WireOK, Conns, Keys, Request,
                            KeyAnswer, SessionAnswer, RefusedAnswer,
                            DeliveryAnswer, GeoAnswer
<1>4. BridgeOK'
  BY OnConnection, <1>0 DEF IInv, ReadSession, Answered, Fails, Verified,
                            TypeOK, ClientOK, BridgeOK, Conns, SessionAnswer,
                            RefusedAnswer
<1>5. CounterOK'
  BY OnConnection, <1>0 DEF IInv, ReadSession, Answered, Fails, Verified,
                            TypeOK, ClientOK, BridgeOK, CounterOK, InStep, AllSeen, Confirmed, Conns, SessionAnswer,
                            RefusedAnswer
<1>6. SessionIsPinned'
  BY OnConnection, <1>0 DEF IInv, ReadSession, Answered, Fails, Verified,
                            TypeOK, ClientOK, SessionIsPinned, SessionAnswer,
                            RefusedAnswer
<1>7. SuccessMeansStored'
  BY OnConnection, <1>0 DEF IInv, ReadSession, Answered, Fails, Verified,
                            TypeOK, SuccessMeansStored, SessionAnswer,
                            RefusedAnswer
<1>8. CallsOK'
  BY OnConnection, <1>0 DEF IInv, ReadSession, Answered, Fails, Verified,
     TypeOK, ClientOK, SessionAnswer, RefusedAnswer, CallsOK, InCall
<1>9. ForkOK'
  BY OnConnection, <1>0 DEF IInv, ReadSession, Answered, Fails, Verified,
     TypeOK, ClientOK, BridgeOK, InStep, AllSeen, Conns, SessionAnswer,
     RefusedAnswer, ForkOK, InCall, Shells
<1> QED BY <1>1, <1>2, <1>3, <1>4, <1>5, <1>6, <1>7, <1>8, <1>9 DEF IInv

(* The counter is kept if and only if the bridge confirms the delivery.    *)
LEMMA ReadDeliveryKeeps == IInv /\ ReadDelivery => IInv'
<1> SUFFICES ASSUME IInv, ReadDelivery PROVE IInv'
  OBVIOUS
<1>0. sent /\ DeliveryAnswer
  BY AnswerRead DEF ReadDelivery, Answered, Request, KeyAnswer, SessionAnswer,
                    RefusedAnswer, DeliveryAnswer, GeoAnswer
<1>1. TypeOK'
  <2>0. calls \in 1..calls /\ refused' \in Nat
    BY <1>0, OnConnection DEF IInv, ClientOK, TypeOK, ReadDelivery,
                              DeliveryAnswer
  <2>1. CASE Delivered
    BY <2>0, <2>1 DEF IInv, ReadDelivery, TypeOK, Pcs
  <2>2. CASE ~Delivered
    <3>1. counter' \in 0..MaxCalls
      BY <2>2, FailsLemma DEF ReadDelivery
    <3> QED BY <2>0, <2>2, <3>1 DEF IInv, ReadDelivery, Fails, TypeOK, Pcs
  <2> QED BY <2>1, <2>2
<1>2. ClientOK'
  BY OnConnection, <1>0 DEF IInv, ReadDelivery, Answered, Fails, Delivered,
                            TypeOK, ClientOK, DeliveryAnswer
<1>3. WireOK'
  BY OnConnection, <1>0 DEF IInv, ReadDelivery, Answered, Fails, Delivered,
                            TypeOK, ClientOK, WireOK, Conns, Keys, Request,
                            KeyAnswer, SessionAnswer, RefusedAnswer,
                            DeliveryAnswer, GeoAnswer
<1>4. BridgeOK'
  BY OnConnection, <1>0 DEF IInv, ReadDelivery, Answered, Fails, Delivered,
                            TypeOK, ClientOK, BridgeOK, Conns, DeliveryAnswer
<1>5. CounterOK'
  BY OnConnection, <1>0 DEF IInv, ReadDelivery, Answered, Fails, Delivered,
                            TypeOK, ClientOK, BridgeOK, CounterOK, InStep, AllSeen, Confirmed, Conns, DeliveryAnswer
<1>6. SessionIsPinned'
  BY OnConnection, <1>0 DEF IInv, ReadDelivery, Answered, Fails, Delivered,
                            TypeOK, ClientOK, SessionIsPinned, DeliveryAnswer
<1>7. SuccessMeansStored'
  <2>1. stored' = stored
    BY DEF ReadDelivery
  <2>2. CASE Delivered
    <3>1. <<calls, session>> \in stored /\ session \in Keys
      BY <1>0, <2>2 DEF DeliveryAnswer, Delivered, IInv, ClientOK, TypeOK
    <3>2. ok' = ok \cup {calls}
      BY <2>2 DEF ReadDelivery
    <3> QED BY <2>1, <3>1, <3>2 DEF IInv, SuccessMeansStored
  <2>3. CASE ~Delivered
    <3>1. ok' = ok
      BY <2>3 DEF ReadDelivery, Fails
    <3> QED BY <2>1, <3>1 DEF IInv, SuccessMeansStored
  <2> QED BY <2>2, <2>3
<1>8. CallsOK'
  BY OnConnection, <1>0 DEF IInv, ReadDelivery, Answered, Fails, Delivered,
     TypeOK, ClientOK, DeliveryAnswer, CallsOK, InCall
<1>9. ForkOK'
  BY OnConnection, <1>0 DEF IInv, ReadDelivery, Answered, Fails, Delivered,
     TypeOK, ClientOK, BridgeOK, InStep, AllSeen, Conns, DeliveryAnswer,
     ForkOK, InCall, Shells
<1> QED BY <1>1, <1>2, <1>3, <1>4, <1>5, <1>6, <1>7, <1>8, <1>9 DEF IInv

(* The answer to a request without session changes nothing else.           *)
LEMMA ReadGeoKeeps == IInv /\ ReadGeo => IInv'
<1> SUFFICES ASSUME IInv, ReadGeo PROVE IInv'
  OBVIOUS
<1>0. sent /\ GeoAnswer
  BY AnswerRead DEF ReadGeo, Answered, Request, KeyAnswer, SessionAnswer,
                    RefusedAnswer, DeliveryAnswer, GeoAnswer
<1>1. TypeOK'
  BY OnConnection, <1>0 DEF IInv, ReadGeo, Answered, Read, TypeOK, ClientOK,
                            Conns, Keys, Pcs, GeoAnswer
<1>2. ClientOK'
  BY OnConnection, <1>0 DEF IInv, ReadGeo, Answered, Read, TypeOK, ClientOK,
                            GeoAnswer
<1>3. WireOK'
  BY OnConnection, <1>0 DEF IInv, ReadGeo, Answered, Read, TypeOK, ClientOK,
                            WireOK, Conns, Keys, Request, KeyAnswer,
                            SessionAnswer, RefusedAnswer, DeliveryAnswer,
                            GeoAnswer
<1>4. BridgeOK'
  BY OnConnection, <1>0 DEF IInv, ReadGeo, Answered, Read, TypeOK, ClientOK,
                            BridgeOK, Conns, GeoAnswer
<1>5. CounterOK'
  BY OnConnection, <1>0 DEF IInv, ReadGeo, Answered, Read, TypeOK, ClientOK,
                            BridgeOK, CounterOK, InStep, AllSeen, Confirmed,
                            Conns, GeoAnswer
<1>6. SessionIsPinned'
  BY OnConnection, <1>0 DEF IInv, ReadGeo, Answered, Read, TypeOK, ClientOK,
                            SessionIsPinned, GeoAnswer
<1>7. SuccessMeansStored'
  BY OnConnection, <1>0 DEF IInv, ReadGeo, Answered, Read, TypeOK,
                            SuccessMeansStored, GeoAnswer
<1>8. CallsOK'
  BY OnConnection, <1>0 DEF IInv, ReadGeo, Answered, Read, TypeOK, ClientOK,
     GeoAnswer, CallsOK, InCall
<1>9. ForkOK'
  BY OnConnection, <1>0 DEF IInv, ReadGeo, Answered, Read, TypeOK, ClientOK,
     BridgeOK, InStep, AllSeen, Conns, GeoAnswer, ForkOK, InCall, Shells
<1> QED BY <1>1, <1>2, <1>3, <1>4, <1>5, <1>6, <1>7, <1>8, <1>9 DEF IInv

(* The bridge gives its key of the moment.                                 *)
LEMMA BridgeKeyKeeps == IInv /\ BridgeKey => IInv'
<1> SUFFICES ASSUME IInv, BridgeKey PROVE IInv'
  OBVIOUS
<1>0. sent /\ wire = Request /\ pc \in {"pubkey", "sepkey"}
  BY RequestRead DEF BridgeKey
<1>1. TypeOK'
  BY OnConnection, <1>0 DEF IInv, BridgeKey, Answer, TypeOK, ClientOK, Conns,
                            Keys, Pcs, Request
<1>2. ClientOK'
  BY OnConnection, <1>0 DEF IInv, BridgeKey, Answer, TypeOK, ClientOK, Request
<1>3. WireOK'
  BY OnConnection, <1>0, Messages DEF IInv, BridgeKey, Answer, TypeOK,
                                      ClientOK, WireOK, Conns, Keys, Request,
                                      KeyAnswer, SessionAnswer, RefusedAnswer,
                                      DeliveryAnswer, GeoAnswer
<1>4. BridgeOK'
  BY OnConnection, <1>0, Messages DEF IInv, BridgeKey, Answer, TypeOK,
                                      ClientOK, BridgeOK, Conns, Request
<1>5. CounterOK'
  BY OnConnection, <1>0 DEF IInv, BridgeKey, Answer, TypeOK, ClientOK,
                            BridgeOK, CounterOK, InStep, AllSeen, Confirmed,
                            Conns, Request
<1>6. SessionIsPinned'
  BY OnConnection, <1>0 DEF IInv, BridgeKey, Answer, TypeOK, ClientOK,
                            SessionIsPinned, Request
<1>7. SuccessMeansStored'
  BY OnConnection, <1>0 DEF IInv, BridgeKey, Answer, TypeOK,
                            SuccessMeansStored, Request
<1>8. CallsOK'
  BY OnConnection, <1>0 DEF IInv, BridgeKey, Answer, TypeOK, ClientOK,
     Request, CallsOK, InCall
<1>9. ForkOK'
  BY OnConnection, <1>0 DEF IInv, BridgeKey, Answer, TypeOK, ClientOK,
     BridgeOK, InStep, AllSeen, Conns, Request, ForkOK, InCall, Shells
<1> QED BY <1>1, <1>2, <1>3, <1>4, <1>5, <1>6, <1>7, <1>8, <1>9 DEF IInv

(* The bridge makes a session that it signs, or refuses.                   *)
LEMMA BridgeRegisterKeeps == IInv /\ BridgeRegister => IInv'
<1> SUFFICES ASSUME IInv, BridgeRegister PROVE IInv'
  OBVIOUS
<1>0. sent /\ wire = Request /\ pc = "register"
  BY RequestRead DEF BridgeRegister
<1>1. TypeOK'
  <2>0. sockfd \in Conns
    BY <1>0, OnConnection
  <2>1. CASE wire.pub = ident /\ regs < MaxRegs
    <3>1. <<ident, regs'>> \in Keys /\ regs' \in 0..MaxRegs /\ 0 \in 0..MaxCalls
      BY <2>1, OnConnection DEF IInv, TypeOK, BridgeRegister, Keys
    <3>2. key' \in [Conns -> Keys \cup {None}] /\ lastIn' \in [Conns -> 0..MaxCalls]
      BY <2>0, <2>1, <3>1 DEF IInv, TypeOK, BridgeRegister
    <3> QED BY <3>1, <3>2 DEF IInv, BridgeRegister, TypeOK
  <2>2. CASE ~(wire.pub = ident /\ regs < MaxRegs)
    BY <2>2 DEF IInv, BridgeRegister, TypeOK
  <2> QED BY <2>1, <2>2
<1>2. ClientOK'
  BY OnConnection, <1>0 DEF IInv, BridgeRegister, Answer, TypeOK, ClientOK,
                            Request
<1>3. WireOK'
  <2>0. sockfd \in Conns
    BY <1>0, OnConnection
  <2>1. CASE wire.pub = ident /\ regs < MaxRegs
    <3> DEFINE k == <<ident, regs'>>
    <3>1. k \in Keys /\ k[1] = ident
      BY <2>1, OnConnection DEF IInv, TypeOK, BridgeRegister, Keys
    <3>2. wire' = [at |-> "client", key |-> k, sig |-> k[1]]
      BY <2>1, <3>1 DEF BridgeRegister, Answer
    <3>3. lastIn'[sockfd'] = 0 /\ pc' = "register"
      BY <1>0, <2>0, <2>1 DEF BridgeRegister, IInv, TypeOK
    <3> QED BY <3>1, <3>2, <3>3 DEF WireOK, SessionAnswer
  <2>2. CASE ~(wire.pub = ident /\ regs < MaxRegs)
    BY <1>0, <2>2 DEF BridgeRegister, Answer, WireOK, RefusedAnswer
  <2> QED BY <2>1, <2>2
<1>4. BridgeOK'
  <2>1. wire' # None
    <3>1. CASE wire.pub = ident /\ regs < MaxRegs
      <4>1. <<ident, regs'>> \in Keys /\ ident \in Idents
        BY <3>1, OnConnection DEF IInv, TypeOK, BridgeRegister, Keys
      <4> QED BY <3>1, <4>1, Messages DEF BridgeRegister, Answer
    <3>2. CASE ~(wire.pub = ident /\ regs < MaxRegs)
      BY <3>2, Messages DEF BridgeRegister, Answer
    <3> QED BY <3>1, <3>2
  <2>2. sockfd \in Conns /\ sockfd <= conns
    BY <1>0, OnConnection DEF IInv, TypeOK
  <2>3. conns' = conns /\ \A c \in Conns : c # sockfd => key'[c] = key[c]
    BY DEF IInv, TypeOK, BridgeRegister
  <2> QED BY <2>1, <2>2, <2>3, OnConnection DEF IInv, BridgeOK, Conns
<1>5. CounterOK'
  BY OnConnection, <1>0 DEF IInv, BridgeRegister, Answer, TypeOK, ClientOK,
                            BridgeOK, CounterOK, InStep, AllSeen, Confirmed,
                            Conns, Request
<1>6. SessionIsPinned'
  BY OnConnection, <1>0 DEF IInv, BridgeRegister, Answer, TypeOK, ClientOK,
                            SessionIsPinned, Request
<1>7. SuccessMeansStored'
  BY OnConnection, <1>0 DEF IInv, BridgeRegister, Answer, TypeOK,
                            SuccessMeansStored, Request
<1>8. CallsOK'
  BY OnConnection, <1>0 DEF IInv, BridgeRegister, Answer, TypeOK, ClientOK,
     Request, CallsOK, InCall
<1>9. ForkOK'
  BY OnConnection, <1>0 DEF IInv, BridgeRegister, Answer, TypeOK, ClientOK,
     BridgeOK, InStep, AllSeen, Conns, Request, ForkOK, InCall, Shells
<1> QED BY <1>1, <1>2, <1>3, <1>4, <1>5, <1>6, <1>7, <1>8, <1>9 DEF IInv

(* What is stored is the delivery of the call that waits, at its counter.  *)
LEMMA BridgeStoreKeeps == IInv /\ BridgeStore => IInv'
<1> SUFFICES ASSUME IInv, BridgeStore PROVE IInv'
  OBVIOUS
<1>0. sent /\ wire = Request /\ pc = "deliver"
  BY RequestRead DEF BridgeStore
<1>1. TypeOK'
  <2>1. sockfd \in Conns /\ wire.counter \in 0..MaxCalls /\ wire.call \in 1..calls
        /\ wire.session \in Keys
    BY <1>0, OnConnection DEF IInv, TypeOK, ClientOK, Request
  <2>2. lastIn' \in [Conns -> 0..MaxCalls]
    BY <2>1 DEF IInv, TypeOK, BridgeStore
  <2> QED BY <2>1, <2>2 DEF IInv, BridgeStore, TypeOK
<1>2. ClientOK'
  BY OnConnection, <1>0 DEF IInv, BridgeStore, Answer, TypeOK, ClientOK,
                            Request
<1>3. WireOK'
  BY OnConnection, <1>0, Messages DEF IInv, BridgeStore, Answer, TypeOK,
                                      ClientOK, WireOK, Conns, Keys, Request,
                                      KeyAnswer, SessionAnswer, RefusedAnswer,
                                      DeliveryAnswer, GeoAnswer
<1>4. BridgeOK'
  BY OnConnection, <1>0, Messages DEF IInv, BridgeStore, Answer, TypeOK,
                                      ClientOK, BridgeOK, Conns, Request
<1>5. CounterOK'
  <2>1. sockfd \in Conns /\ wire.counter = counter
    BY <1>0, OnConnection DEF Request
  <2>2. lastIn'[sockfd'] = counter'
    BY <2>1 DEF IInv, TypeOK, BridgeStore
  <2>3. <<calls, session>> \in stored' /\ calls \notin ok
    BY <1>0 DEF IInv, BridgeStore, Request, CallsOK, InCall
  <2>4. ~AllSeen(session, ok)'
    BY <2>3 DEF AllSeen, BridgeStore
  <2>5. counter - 1 <= counter /\ counter <= counter
    BY OnConnection
  <2> QED BY <1>0, <2>2, <2>4, <2>5 DEF CounterOK, InStep, BridgeStore
<1>6. SessionIsPinned'
  BY OnConnection, <1>0 DEF IInv, BridgeStore, Answer, TypeOK, ClientOK,
                            SessionIsPinned, Request
<1>7. SuccessMeansStored'
  BY OnConnection, <1>0 DEF IInv, BridgeStore, Answer, TypeOK,
                            SuccessMeansStored, Request
<1>8. CallsOK'
  BY OnConnection, <1>0 DEF IInv, BridgeStore, Answer, TypeOK, ClientOK,
     Request, CallsOK, InCall
<1>9. ForkOK'
  <2> SUFFICES ASSUME parent # None PROVE ForkOK'
    BY DEF BridgeStore, ForkOK
  <2>1. /\ sockfd \in Conns /\ wire.counter = counter /\ wire.session = session
        /\ wire.call = calls
    BY <1>0, OnConnection DEF Request
  <2>2. InStep(parent.sockfd, parent.session, parent.counter, parent.ok)'
    <3>1. CASE parent.sockfd = sockfd /\ key[sockfd] = parent.session
      <4>1. session = parent.session /\ calls \notin parent.ok
        BY <1>0, <2>1, <3>1 DEF IInv, ForkOK, InCall, BridgeStore
      <4>2. ~AllSeen(parent.session, parent.ok)'
        <5>1. <<calls, session>> \in stored' /\ parent' = parent
          BY <2>1 DEF BridgeStore
        <5> QED BY <4>1, <5>1 DEF AllSeen
      <4>3. parent.session # None /\ parent.sockfd \in open =>
               parent.counter <= lastIn[sockfd]
        BY <3>1 DEF IInv, ForkOK, InStep
      <4>4. lastIn'[sockfd] = counter /\ lastIn[sockfd] < counter /\ lastIn[sockfd] \in Nat
        BY <2>1, OnConnection DEF IInv, TypeOK, BridgeStore
      <4>5. parent \in Shells
        BY DEF IInv, TypeOK
      <4>6. parent.session # None /\ parent.sockfd \in open => parent.counter <= counter
        BY <4>3, <4>4, <4>5, OnConnection DEF Shells
      <4> QED BY <3>1, <4>2, <4>4, <4>6 DEF InStep, BridgeStore
    <3>2. CASE parent.sockfd = sockfd /\ key[sockfd] # parent.session
      BY <3>2 DEF InStep, BridgeStore
    <3>3. CASE parent.sockfd # sockfd
      <4>1. lastIn'[parent.sockfd] = lastIn[parent.sockfd] \/ parent.sockfd \notin Conns
        BY <3>3 DEF IInv, TypeOK, BridgeStore
      <4>2. InStep(parent.sockfd, parent.session, parent.counter, parent.ok)
        BY DEF IInv, ForkOK
      <4>3. AllSeen(parent.session, parent.ok)' => AllSeen(parent.session, parent.ok)
        BY DEF AllSeen, BridgeStore
      <4> QED BY <4>1, <4>2, <4>3, OnConnection DEF InStep, BridgeStore
    <3> QED BY <3>1, <3>2, <3>3
  <2>3. \A c \in parent.ok : \E k \in Keys : <<c, k>> \in stored'
    BY DEF IInv, ForkOK, BridgeStore
  <2> QED BY <2>2, <2>3 DEF IInv, ForkOK, BridgeStore, InCall
<1> QED BY <1>1, <1>2, <1>3, <1>4, <1>5, <1>6, <1>7, <1>8, <1>9 DEF IInv

(* A delivery that is refused leaves the counter of the bridge alone.      *)
LEMMA BridgeRefuseKeeps == IInv /\ BridgeRefuse => IInv'
<1> SUFFICES ASSUME IInv, BridgeRefuse PROVE IInv'
  OBVIOUS
<1>0. sent /\ wire = Request /\ pc = "deliver"
  BY RequestRead DEF BridgeRefuse
<1>1. TypeOK'
  BY OnConnection, <1>0 DEF IInv, BridgeRefuse, Answer, TypeOK, ClientOK,
                            Conns, Keys, Pcs, Request
<1>2. ClientOK'
  BY OnConnection, <1>0 DEF IInv, BridgeRefuse, Answer, TypeOK, ClientOK,
                            Request
<1>3. WireOK'
  BY OnConnection, <1>0, Messages DEF IInv, BridgeRefuse, Answer, TypeOK,
                                      ClientOK, WireOK, Conns, Keys, Request,
                                      KeyAnswer, SessionAnswer, RefusedAnswer,
                                      DeliveryAnswer, GeoAnswer
<1>4. BridgeOK'
  BY OnConnection, <1>0, Messages DEF IInv, BridgeRefuse, Answer, TypeOK,
                                      ClientOK, BridgeOK, Conns, Request
<1>5. CounterOK'
  BY OnConnection, <1>0 DEF IInv, BridgeRefuse, Answer, TypeOK, ClientOK,
                            BridgeOK, CounterOK, InStep, AllSeen, Confirmed,
                            Conns, Request
<1>6. SessionIsPinned'
  BY OnConnection, <1>0 DEF IInv, BridgeRefuse, Answer, TypeOK, ClientOK,
                            SessionIsPinned, Request
<1>7. SuccessMeansStored'
  BY OnConnection, <1>0 DEF IInv, BridgeRefuse, Answer, TypeOK,
                            SuccessMeansStored, Request
<1>8. CallsOK'
  BY OnConnection, <1>0 DEF IInv, BridgeRefuse, Answer, TypeOK, ClientOK,
     Request, CallsOK, InCall
<1>9. ForkOK'
  BY OnConnection, <1>0 DEF IInv, BridgeRefuse, Answer, TypeOK, ClientOK,
     BridgeOK, InStep, AllSeen, Conns, Request, ForkOK, InCall, Shells
<1> QED BY <1>1, <1>2, <1>3, <1>4, <1>5, <1>6, <1>7, <1>8, <1>9 DEF IInv

(* The bridge answers a request without session.                           *)
LEMMA BridgeGeoKeeps == IInv /\ BridgeGeo => IInv'
<1> SUFFICES ASSUME IInv, BridgeGeo PROVE IInv'
  OBVIOUS
<1>0. sent /\ wire = Request /\ pc = "geo"
  BY RequestRead DEF BridgeGeo
<1>1. TypeOK'
  BY OnConnection, <1>0 DEF IInv, BridgeGeo, Answer, TypeOK, ClientOK, Conns,
                            Keys, Pcs, Request
<1>2. ClientOK'
  BY OnConnection, <1>0 DEF IInv, BridgeGeo, Answer, TypeOK, ClientOK, Request
<1>3. WireOK'
  BY OnConnection, <1>0, Messages DEF IInv, BridgeGeo, Answer, TypeOK,
                                      ClientOK, WireOK, Conns, Keys, Request,
                                      KeyAnswer, SessionAnswer, RefusedAnswer,
                                      DeliveryAnswer, GeoAnswer
<1>4. BridgeOK'
  BY OnConnection, <1>0, Messages DEF IInv, BridgeGeo, Answer, TypeOK,
                                      ClientOK, BridgeOK, Conns, Request
<1>5. CounterOK'
  BY OnConnection, <1>0 DEF IInv, BridgeGeo, Answer, TypeOK, ClientOK,
                            BridgeOK, CounterOK, InStep, AllSeen, Confirmed,
                            Conns, Request
<1>6. SessionIsPinned'
  BY OnConnection, <1>0 DEF IInv, BridgeGeo, Answer, TypeOK, ClientOK,
                            SessionIsPinned, Request
<1>7. SuccessMeansStored'
  BY OnConnection, <1>0 DEF IInv, BridgeGeo, Answer, TypeOK,
                            SuccessMeansStored, Request
<1>8. CallsOK'
  BY OnConnection, <1>0 DEF IInv, BridgeGeo, Answer, TypeOK, ClientOK,
     Request, CallsOK, InCall
<1>9. ForkOK'
  BY OnConnection, <1>0 DEF IInv, BridgeGeo, Answer, TypeOK, ClientOK,
     BridgeOK, InStep, AllSeen, Conns, Request, ForkOK, InCall, Shells
<1> QED BY <1>1, <1>2, <1>3, <1>4, <1>5, <1>6, <1>7, <1>8, <1>9 DEF IInv

(* A session that has expired is no longer one both ends know.             *)
LEMMA BridgeExpireKeeps == IInv /\ BridgeExpire => IInv'
<1> SUFFICES ASSUME IInv, BridgeExpire PROVE IInv'
  OBVIOUS
<1>1. TypeOK'
  BY OnConnection DEF IInv, BridgeExpire, TypeOK, ClientOK, Conns, Keys, Pcs
<1>2. ClientOK'
  BY OnConnection DEF IInv, BridgeExpire, TypeOK, ClientOK
<1>3. WireOK'
  BY OnConnection DEF IInv, BridgeExpire, TypeOK, ClientOK, WireOK, Conns,
                      Keys, Request, KeyAnswer, SessionAnswer, RefusedAnswer,
                      DeliveryAnswer, GeoAnswer
<1>4. BridgeOK'
  BY OnConnection DEF IInv, BridgeExpire, TypeOK, ClientOK, BridgeOK, Conns
<1>5. CounterOK'
  BY OnConnection DEF IInv, BridgeExpire, TypeOK, ClientOK, BridgeOK,
                      CounterOK, InStep, AllSeen, Confirmed, Conns
<1>6. SessionIsPinned'
  BY OnConnection DEF IInv, BridgeExpire, TypeOK, ClientOK, SessionIsPinned
<1>7. SuccessMeansStored'
  BY OnConnection DEF IInv, BridgeExpire, TypeOK, SuccessMeansStored
<1>8. CallsOK'
  BY OnConnection DEF IInv, BridgeExpire, TypeOK, ClientOK, CallsOK, InCall
<1>9. ForkOK'
  BY OnConnection DEF IInv, BridgeExpire, TypeOK, ClientOK, BridgeOK, InStep,
     AllSeen, Conns, ForkOK, InCall, Shells
<1> QED BY <1>1, <1>2, <1>3, <1>4, <1>5, <1>6, <1>7, <1>8, <1>9 DEF IInv

(* A restart loses sessions and requests with their connections.           *)
LEMMA BridgeRestartKeeps == IInv /\ BridgeRestart => IInv'
<1> SUFFICES ASSUME IInv, BridgeRestart PROVE IInv'
  OBVIOUS
<1>1. TypeOK'
  BY OnConnection, BrightLinkAssumption DEF IInv, BridgeRestart, TypeOK,
                                            ClientOK, Conns, Keys, Pcs
<1>2. ClientOK'
  BY OnConnection DEF IInv, BridgeRestart, TypeOK, ClientOK
<1>3. WireOK'
  BY OnConnection DEF IInv, BridgeRestart, TypeOK, ClientOK, WireOK, Conns,
                      Keys, Request, KeyAnswer, SessionAnswer, RefusedAnswer,
                      DeliveryAnswer, GeoAnswer
<1>4. BridgeOK'
  BY OnConnection DEF IInv, BridgeRestart, TypeOK, ClientOK, BridgeOK, Conns
<1>5. CounterOK'
  BY OnConnection DEF IInv, BridgeRestart, TypeOK, ClientOK, BridgeOK,
                      CounterOK, InStep, AllSeen, Confirmed, Conns
<1>6. SessionIsPinned'
  BY OnConnection DEF IInv, BridgeRestart, TypeOK, ClientOK, SessionIsPinned
<1>7. SuccessMeansStored'
  BY OnConnection DEF IInv, BridgeRestart, TypeOK, SuccessMeansStored
<1>8. CallsOK'
  BY OnConnection DEF IInv, BridgeRestart, TypeOK, ClientOK, CallsOK, InCall
<1>9. ForkOK'
  BY OnConnection DEF IInv, BridgeRestart, TypeOK, ClientOK, BridgeOK, InStep,
     AllSeen, Conns, ForkOK, InCall, Shells
<1> QED BY <1>1, <1>2, <1>3, <1>4, <1>5, <1>6, <1>7, <1>8, <1>9 DEF IInv

-----------------------------------------------------------------------------
(* The client starts without session and the bridge without connection.    *)
LEMMA InitOK == Init => IInv
<1> SUFFICES ASSUME Init PROVE IInv
  OBVIOUS
<1>0. {0} \subseteq Nat /\ MaxConns \in Nat /\ MaxCalls \in Nat /\ MaxRegs \in Nat
  BY BrightLinkAssumption
<1>1. TypeOK
  <2>1. key \in [Conns -> Keys \cup {None}] /\ lastIn \in [Conns -> 0..MaxCalls]
    BY <1>0 DEF Init
  <2>2. /\ sockfd \in 0..conns /\ conns \in 0..MaxConns /\ open \subseteq 1..conns
        /\ counter \in 0..MaxCalls /\ calls \in 0..MaxCalls /\ regs \in 0..MaxRegs
    BY <1>0 DEF Init
  <2> QED BY <2>1, <2>2 DEF Init, TypeOK, Pcs
<1>2. ClientOK /\ WireOK /\ BridgeOK
  BY DEF Init, ClientOK, WireOK, BridgeOK, Conns
<1>3. CounterOK /\ SessionIsPinned /\ SuccessMeansStored /\ CallsOK /\ ForkOK
  BY DEF Init, CounterOK, Confirmed, InStep, SessionIsPinned, SuccessMeansStored,
         CallsOK, InCall, ForkOK
<1> QED BY <1>1, <1>2, <1>3 DEF IInv

(* Each step of the client and of the bridge keeps the invariant.          *)
LEMMA NextOK == IInv /\ [Next]_vars => IInv'
<1> SUFFICES ASSUME IInv, [Next]_vars PROVE IInv'
  OBVIOUS
<1>1. CASE bsh_inject \/ link_geo \/ finish \/ Fork \/ ForkEnds
  BY <1>1, bsh_injectKeeps, link_geoKeeps, finishKeeps, ForkKeeps, ForkEndsKeeps
<1>2. CASE Transport
  BY <1>2, ConnectFailsKeeps, link_socket_connectKeeps, SendKeeps,
     TransportFailsKeeps DEF Transport
<1>3. CASE Receive
  BY <1>3, ReadPubKeeps, ReadSepKeeps, ReadSessionKeeps, ReadDeliveryKeeps,
     ReadGeoKeeps DEF Receive
<1>4. CASE Serve
  BY <1>4, BridgeKeyKeeps, BridgeRegisterKeeps, BridgeStoreKeeps,
     BridgeRefuseKeeps, BridgeGeoKeeps DEF Serve
<1>5. CASE BridgeExpire \/ BridgeRestart
  BY <1>5, BridgeExpireKeeps, BridgeRestartKeeps
<1>6. CASE UNCHANGED vars
  BY <1>6 DEF vars, IInv, TypeOK, ClientOK,
              WireOK, BridgeOK, CounterOK, SessionIsPinned, SuccessMeansStored,
              Request, KeyAnswer, SessionAnswer, RefusedAnswer, DeliveryAnswer,
              GeoAnswer, Confirmed, InStep, AllSeen, CallsOK, InCall, ForkOK
<1> QED BY <1>1, <1>2, <1>3, <1>4, <1>5, <1>6 DEF Next

(* Between two calls no delivery is outstanding (bin_bsh_inject() has given *)
(* the counter back or kept it).                                            *)
LEMMA CounterLemma == IInv => CounterInStep
<1> QED BY IdleQuiet DEF IInv, CounterOK, Confirmed, InStep, CounterInStep

-----------------------------------------------------------------------------
(* The inductive invariant holds in every behaviour of the client of       *)
(* brightlink.c and the bridge.                                            *)
THEOREM Inductive == Spec => []IInv
<1> QED BY InitOK, NextOK, PTL DEF Spec

(* The variables keep their types: the counter never becomes negative,     *)
(* however often bin_bsh_inject() takes it back.                           *)
THEOREM TypesCorrect == Spec => []TypeOK
<1>1. IInv => TypeOK
  BY DEF IInv
<1> QED BY <1>1, Inductive, PTL

(* link_register_if_needed() makes sessions with the pinned bridge only,   *)
(* even if another bridge takes its place while the registration runs.     *)
THEOREM SessionsArePinned == Spec => []SessionIsPinned
<1>1. IInv => SessionIsPinned
  BY DEF IInv
<1> QED BY <1>1, Inductive, PTL

(* bsh-inject returns 0 only for a delivery the bridge has stored          *)
(* (link_emit_deliver()), whatever is lost, refused or restarted.          *)
THEOREM SuccessIsStored == Spec => []SuccessMeansStored
<1>1. IInv => SuccessMeansStored
  BY DEF IInv
<1> QED BY <1>1, Inductive, PTL

(* Between two calls the counter of a session that both ends know is never *)
(* ahead of the bridge, and the same as that of the bridge if the calls of *)
(* this shell have returned 0 for all that is stored: it falls behind only *)
(* by an answer that is misread and by a forked shell (bin_bsh_inject(),   *)
(* link_emit_deliver(), link_register_if_needed()).                        *)
THEOREM CountersInStep == Spec => []CounterInStep
<1> QED BY CounterLemma, Inductive, PTL

=============================================================================
