---------------------------- MODULE BrightLink ----------------------------
(***************************************************************************)
(* The BrightLink client of src/Src/Modules/brightlink.c: the one          *)
(* connection to the bridge, the session that is registered when it is     *)
(* first needed, the pinned key of the bridge, the counter of deliveries   *)
(* and the builtins bsh-inject and link-geo.                               *)
(*                                                                         *)
(* The bridge is another program.  It is modelled from what the client     *)
(* sends and expects: it keeps one session per connection, forgets it when *)
(* the connection closes, when it is restarted and when the session        *)
(* expires, and takes only counters greater than the last one.  It may be  *)
(* restarted between any two steps, with the same identity or another.     *)
(*                                                                         *)
(* The shell may fork: a subshell works with the connection and with its   *)
(* own copy of the rest, while the shell waits for it.                     *)
(*                                                                         *)
(* Keys are not computed: a session key is the pair of the identity that   *)
(* signed it and a number, a signature is the identity that made it.       *)
(***************************************************************************)
EXTENDS Integers, FiniteSets

CONSTANTS
    Idents,         \* the identities the bridge may have
    None,           \* no key, no message
    MaxConns,       \* bound: connections made
    MaxCalls,       \* bound: calls of bsh-inject
    MaxRegs,        \* bound: sessions the bridge hands out
    MaxRestarts     \* bound: restarts of the bridge

ASSUME BrightLinkAssumption ==
    /\ None \notin Idents
    /\ {MaxConns, MaxCalls, MaxRegs, MaxRestarts} \subseteq Nat

Conns == 1..MaxConns
Keys == Idents \X (1..MaxRegs)
Pcs == {"idle", "pubkey", "sepkey", "register", "deliver", "geo"}

Requests == [at : {"bridge"}, cmd : Pcs, pub : Idents \cup {None},
             session : Keys \cup {None}, counter : Nat, call : Nat]
Answers == [at : {"client"}, ident : Idents]
             \cup [at : {"client"}, key : Keys \cup {None}, sig : Idents \cup {None}]
             \cup [at : {"client"}, error : {"no", "echo", "session", "other"}]
             \cup [at : {"client"}]

\* What a shell keeps while it waits for a forked one.
Shells == [sockfd : Conns \cup {0}, session : Keys \cup {None}, counter : 0..MaxCalls,
           pinned : Idents \cup {None}, ok : SUBSET (1..MaxCalls)]

ASSUME NoneAssumption == None \notin Keys \cup Requests \cup Answers \cup Shells

VARIABLES
    pc,         \* what the client is asking the bridge for, or "idle"
    sent,       \* the request is written, its answer is being read
    conns,      \* connections made so far
    sockfd,     \* link_sockfd: the connection, 0 when there is none
    session,    \* link_session_key while link_session_active, or None
    counter,    \* link_c_shell_to_agent
    pinned,     \* link_pinned_sep_pub, or None
    pub, sep,   \* bridge_pub and sep_pub while registering
    calls,      \* calls of bsh-inject so far
    ok,         \* history: the calls that returned 0 in this shell
    parent,     \* in a forked shell: what the shell that waits for it keeps
    refused,    \* history: deliveries refused for want of a session, in a row
    ident,      \* the identity of the bridge
    open,       \* the connections the bridge has open
    key,        \* the session of each connection at the bridge, or None
    lastIn,     \* the counter of the last delivery on each connection
    stored,     \* the deliveries the bridge has stored, each with its session
    regs,       \* sessions handed out so far
    restarts,   \* restarts so far
    wire        \* the message under way, or None

link == <<session, counter, pinned, pub, sep>>
socket == <<conns, sockfd>>
user == <<calls, ok, refused, parent>>
client == <<pc, sent, link, socket, user>>
bridge == <<ident, open, key, lastIn, stored, regs, restarts>>
vars == <<client, bridge, wire>>

Init ==
    /\ pc = "idle" /\ sent = FALSE /\ conns = 0 /\ sockfd = 0
    /\ session = None /\ counter = 0 /\ pinned = None
    /\ pub = None /\ sep = None
    /\ calls = 0 /\ ok = {} /\ refused = 0 /\ parent = None
    /\ ident \in Idents
    /\ open = {}
    /\ key = [k \in Conns |-> None]
    /\ lastIn = [k \in Conns |-> 0]
    /\ stored = {} /\ regs = 0 /\ restarts = 0
    /\ wire = None

-----------------------------------------------------------------------------
(* The builtins.                                                           *)

\* bin_bsh_inject(): a session is used if there is one and registered first
\* otherwise.  The counter is taken before the delivery is sent.
bsh_inject ==
    /\ pc = "idle"
    /\ calls < MaxCalls
    /\ calls' = calls + 1
    /\ IF session # None
       THEN pc' = "deliver" /\ counter' = counter + 1
       ELSE pc' = "pubkey" /\ UNCHANGED counter
    /\ UNCHANGED <<sent, session, pinned, pub, sep, socket, ok, refused,
                   parent, bridge, wire>>

\* bin_link_geo(): a request that needs no session, on the same connection.
link_geo ==
    /\ pc = "idle"
    /\ pc' = "geo"
    /\ UNCHANGED <<sent, link, socket, user, bridge, wire>>

\* Mutant: every failure takes the counter back.
Fails_always ==
    /\ pc' = "idle" /\ sent' = FALSE
    /\ counter' = counter - 1
    /\ pub' = None /\ sep' = None
    /\ UNCHANGED <<session, pinned, calls, ok, parent>>

\* Mutant: no failure takes it back.
Fails_never ==
    /\ pc' = "idle" /\ sent' = FALSE
    /\ pub' = None /\ sep' = None
    /\ UNCHANGED <<counter, session, pinned, calls, ok, parent>>

\* A builtin that fails keeps the session it had; bin_bsh_inject() takes the
\* counter of its delivery back.
Fails ==
    /\ pc' = "idle" /\ sent' = FALSE
    /\ counter' = IF pc = "deliver" THEN counter - 1 ELSE counter
    /\ pub' = None /\ sep' = None
    /\ UNCHANGED <<session, pinned, calls, ok, parent>>

-----------------------------------------------------------------------------
(* link_send_request(): connect if there is no connection, write, read.    *)

ConnectFails ==
    /\ pc # "idle" /\ sockfd = 0
    /\ Fails
    /\ UNCHANGED <<socket, refused, bridge, wire>>

link_socket_connect ==
    /\ pc # "idle" /\ sockfd = 0
    /\ conns < MaxConns
    /\ conns' = conns + 1
    /\ sockfd' = conns'
    /\ open' = open \cup {conns'}
    /\ UNCHANGED <<pc, sent, link, user, ident, key, lastIn, stored, regs,
                   restarts, wire>>

Send ==
    /\ pc # "idle" /\ ~sent /\ sockfd \in open
    /\ sent' = TRUE
    /\ wire' = [at |-> "bridge", cmd |-> pc, pub |-> pub, session |-> session,
                counter |-> counter, call |-> calls]
    /\ UNCHANGED <<pc, link, socket, user, bridge>>

\* Mutant: the end of the stream is taken for an interrupted read.
TransportFails_eof ==
    /\ pc # "idle" /\ sockfd # 0 /\ sockfd \notin open /\ ~sent
    /\ sockfd' = 0
    /\ Fails
    /\ UNCHANGED <<conns, refused, bridge, wire>>

\* The bridge has closed the connection: the write fails, or the read ends.
TransportFails ==
    /\ pc # "idle" /\ sockfd # 0 /\ sockfd \notin open /\ wire = None
    /\ sockfd' = 0
    /\ Fails
    /\ UNCHANGED <<conns, refused, bridge, wire>>

Answered(cmd) == pc = cmd /\ wire # None /\ wire.at = "client"
Read == sent' = FALSE /\ wire' = None

\* Mutant: the pinned key is only looked at when the session is used.
TrustedKey_any == TRUE

\* The key of the bridge must be the one pinned, if there is one.
TrustedKey == pinned \in {None, wire.ident}

\* GET_PUBLIC_KEY, then GET_ENCLAVE_PUBLIC_KEY.
ReadPub ==
    /\ Answered("pubkey")
    /\ Read
    /\ pub' = wire.ident
    /\ pc' = "sepkey"
    /\ UNCHANGED <<session, counter, pinned, sep, socket, user, bridge>>

ReadSep ==
    /\ Answered("sepkey")
    /\ wire' = None
    /\ IF TrustedKey
       THEN /\ sent' = FALSE /\ sep' = wire.ident /\ pc' = "register"
            /\ UNCHANGED <<session, counter, pinned, pub, calls, ok, parent>>
       ELSE Fails
    /\ UNCHANGED <<socket, refused, bridge>>

\* The transcript of the registration is signed by the key just fetched.
Verified == wire.key # None /\ wire.sig = sep

\* LINK_REGISTER: the key is pinned and the session starts at counter 0, of
\* which the delivery that waits takes the next value.
ReadSession ==
    /\ Answered("register")
    /\ wire' = None
    /\ IF Verified
       THEN /\ sent' = FALSE /\ pc' = "deliver"
            /\ pinned' = IF pinned = None THEN sep ELSE pinned
            /\ session' = wire.key
            /\ counter' = 1
            /\ pub' = None /\ sep' = None
            /\ refused' = 0
            /\ UNCHANGED <<calls, ok, parent>>
       ELSE Fails /\ UNCHANGED refused
    /\ UNCHANGED <<socket, bridge>>

\* Mutant: any answer will do.
Delivered_any == TRUE

\* LINK_DELIVER: an answer that holds the word "error" fails the builtin, and
\* that may be the type or the context of the delivery, which is stored.
Delivered == wire.error = "no"

ReadDelivery ==
    /\ Answered("deliver")
    /\ wire' = None
    /\ IF Delivered
       THEN /\ sent' = FALSE /\ pc' = "idle"
            /\ ok' = ok \cup {calls}
            /\ UNCHANGED <<link, calls, parent>>
       ELSE Fails
    /\ refused' = IF wire.error = "session" THEN refused + 1 ELSE refused
    /\ UNCHANGED <<socket, bridge>>

ReadGeo ==
    /\ Answered("geo")
    /\ Read
    /\ pc' = "idle"
    /\ UNCHANGED <<link, socket, user, bridge>>

-----------------------------------------------------------------------------
(* A subshell, a command substitution or the like: a process of its own    *)
(* that begins with what the shell has and shares its connection.          *)

\* The connections that end when this process closes its end.
OwnConns == IF parent # None THEN {sockfd} \ {parent.sockfd} ELSE {sockfd}

Fork ==
    /\ pc = "idle" /\ parent = None
    /\ parent' = [sockfd |-> sockfd, session |-> session, counter |-> counter,
                  pinned |-> pinned, ok |-> ok]
    /\ UNCHANGED <<pc, sent, link, socket, calls, ok, refused, bridge, wire>>

\* The forked shell ends, and the other one goes on with its own copy.
ForkEnds ==
    /\ pc = "idle" /\ parent # None
    /\ sockfd' = parent.sockfd /\ session' = parent.session
    /\ counter' = parent.counter /\ pinned' = parent.pinned /\ ok' = parent.ok
    /\ parent' = None
    /\ open' = open \ OwnConns
    /\ key' = [k \in Conns |-> IF k \in OwnConns THEN None ELSE key[k]]
    /\ UNCHANGED <<pc, sent, conns, pub, sep, calls, refused, ident, lastIn,
                   stored, regs, restarts, wire>>

\* finish_(): the module is unloaded.  The pinned key goes if the library is
\* unmapped with it.
finish ==
    /\ pc = "idle"
    /\ sockfd' = 0
    /\ open' = open \ OwnConns
    /\ key' = [k \in Conns |-> IF k \in OwnConns THEN None ELSE key[k]]
    /\ session' = None
    /\ pinned' \in {pinned, None}
    /\ UNCHANGED <<pc, sent, conns, counter, pub, sep, user, ident, lastIn,
                   stored, regs, restarts, wire>>

-----------------------------------------------------------------------------
(* The bridge.                                                             *)

Asked(cmd) == wire # None /\ wire.at = "bridge" /\ wire.cmd = cmd
Answer(m) == wire' = m

BridgeKey ==
    /\ Asked("pubkey") \/ Asked("sepkey")
    /\ Answer([at |-> "client", ident |-> ident])
    /\ UNCHANGED <<client, bridge>>

\* The request is encrypted to the public key the client has fetched.
BridgeRegister ==
    /\ Asked("register")
    /\ IF wire.pub = ident /\ regs < MaxRegs
       THEN /\ regs' = regs + 1
            /\ key' = [key EXCEPT ![sockfd] = <<ident, regs'>>]
            /\ lastIn' = [lastIn EXCEPT ![sockfd] = 0]
            /\ Answer([at |-> "client", key |-> <<ident, regs'>>, sig |-> ident])
       ELSE /\ Answer([at |-> "client", key |-> None, sig |-> None])
            /\ UNCHANGED <<key, lastIn, regs>>
    /\ UNCHANGED <<client, ident, open, stored, restarts>>

\* The answer to a delivery that is stored repeats its type and context, which
\* may be the word "error".
BridgeStore ==
    /\ Asked("deliver")
    /\ key[sockfd] = wire.session
    /\ wire.counter > lastIn[sockfd]
    /\ lastIn' = [lastIn EXCEPT ![sockfd] = wire.counter]
    /\ stored' = stored \cup {<<wire.call, wire.session>>}
    /\ \E e \in {"no", "echo"} : Answer([at |-> "client", error |-> e])
    /\ UNCHANGED <<client, ident, open, key, regs, restarts>>

\* A delivery is refused without a session, out of order, or by a policy.
BridgeRefuse ==
    /\ Asked("deliver")
    /\ Answer([at |-> "client",
               error |-> IF key[sockfd] = wire.session THEN "other" ELSE "session"])
    /\ UNCHANGED <<client, bridge>>

BridgeGeo ==
    /\ Asked("geo")
    /\ Answer([at |-> "client"])
    /\ UNCHANGED <<client, bridge>>

\* The time of a session is over, or it is torn down.
BridgeExpire ==
    /\ \E c \in Conns : key[c] # None /\ key' = [key EXCEPT ![c] = None]
    /\ UNCHANGED <<client, ident, open, lastIn, stored, regs, restarts, wire>>

\* Connections are closed and sessions forgotten; a request is lost, and so is
\* an answer that is not written yet.
BridgeRestart ==
    /\ restarts < MaxRestarts
    /\ restarts' = restarts + 1
    /\ ident' \in Idents
    /\ open' = {}
    /\ key' = [k \in Conns |-> None]
    /\ wire' \in IF wire # None /\ wire.at = "client" THEN {wire, None} ELSE {None}
    /\ UNCHANGED <<client, lastIn, stored, regs>>

-----------------------------------------------------------------------------
Receive == ReadPub \/ ReadSep \/ ReadSession \/ ReadDelivery \/ ReadGeo
Transport == ConnectFails \/ link_socket_connect \/ Send \/ TransportFails
Serve == BridgeKey \/ BridgeRegister \/ BridgeStore \/ BridgeRefuse \/ BridgeGeo

Next == \/ bsh_inject \/ link_geo \/ finish \/ Fork \/ ForkEnds
        \/ Transport \/ Receive
        \/ Serve \/ BridgeExpire \/ BridgeRestart

Spec == Init /\ [][Next]_vars

\* A builtin that has begun runs on, and a bridge that is there answers.
FairSpec == Spec /\ WF_vars(Transport \/ Receive) /\ WF_vars(Serve)

-----------------------------------------------------------------------------
(* Properties.                                                             *)

\* The variables have their types.
TypeOK ==
    /\ pc \in Pcs /\ sent \in BOOLEAN
    /\ sockfd \in 0..conns /\ conns \in 0..MaxConns /\ open \subseteq 1..conns
    /\ session \in Keys \cup {None}
    /\ counter \in 0..MaxCalls
    /\ {pinned, pub, sep} \subseteq Idents \cup {None}
    /\ ident \in Idents
    /\ key \in [Conns -> Keys \cup {None}]
    /\ lastIn \in [Conns -> 0..MaxCalls]
    /\ calls \in 0..MaxCalls /\ regs \in 0..MaxRegs /\ refused \in Nat
    /\ ok \subseteq 1..calls /\ stored \subseteq (1..calls) \X Keys
    /\ parent \in Shells \cup {None}

\* A session is always one with the bridge whose key was pinned first, even if
\* another one has taken its place since, between two registrations or in the
\* middle of one (the check of the pinned key in link_register_if_needed()).
SessionIsPinned == session # None => session[1] = pinned

\* bsh-inject returns 0 only for what the bridge has stored (link_emit_deliver()
\* looks for an error in the answer).
SuccessMeansStored == \A c \in ok : \E k \in Keys : <<c, k>> \in stored

\* Whatever the bridge has stored of session s is among the calls seen.
AllSeen(s, seen) == \A d \in stored : d[2] = s => d[1] \in seen

\* While both ends know the session, the counter of the shell is never ahead of
\* that of the bridge, and it is behind only if the bridge has stored deliveries
\* of the session that did not return 0 in this shell: those whose answer was
\* misread, and those of forked shells (the counter taken and taken back in
\* bin_bsh_inject()).
CounterInStep ==
    pc = "idle" /\ session # None /\ sockfd \in open /\ key[sockfd] = session =>
        /\ counter <= lastIn[sockfd]
        /\ AllSeen(session, ok) => counter = lastIn[sockfd]

\* A builtin comes to an end, with an answer or an error, if the bridge answers
\* or goes away (link_send_request(); there is no time-out).
CallEnds == pc # "idle" ~> pc = "idle"

\* A session that the bridge does not know any more is registered again and
\* not used a second time.  link_register_if_needed() does not keep this: see
\* README.md, disagreements.
Reregisters == refused <= 1

=============================================================================
