------------------------- MODULE DhcpClient_proofs -------------------------
(***************************************************************************)
(* Proofs about DhcpClient, for any servers, any deadline and any number   *)
(* of calls and faults.                                                    *)
(***************************************************************************)
EXTENDS DhcpClient, FiniteSetTheorems, TLAPS

USE DEF Calls, Addresses, ServerIds, Errors, Outcomes

-----------------------------------------------------------------------------
(* The datagrams of the model are of the type of datagrams.                *)

(* What the client sends under its current transaction.                    *)
LEMMA DiscoverType ==
    ASSUME TypeOK, NEW s \in Servers
    PROVE  BuildDiscover(s) \in Packet
BY DEF TypeOK, BuildDiscover, Packet

(* A REQUEST built from an offer is a packet.                              *)
LEMMA RequestType ==
    ASSUME TypeOK, NEW s \in Servers, NEW m \in net
    PROVE  BuildRequest(s, m) \in Packet
BY DEF TypeOK, BuildRequest, Packet

(* So is a RELEASE built from a lease.                                     *)
LEMMA ReleaseType ==
    ASSUME TypeOK, lease # None, NEW s \in Servers, NEW x \in 0 .. MaxCalls
    PROVE  BuildRelease(s, x) \in Packet
BY DEF TypeOK, BuildRelease, Packet

(* What a server answers to a datagram it received.                        *)
LEMMA ReplyType ==
    ASSUME TypeOK, NEW s \in Servers, NEW m \in net,
           NEW t \in {"Offer", "Ack", "Nak"}, NEW a \in Addresses
    PROVE  Reply(s, m, t, a) \in Packet
BY DEF TypeOK, Reply, Packet

(* A second copy of a datagram.                                            *)
LEMMA CopyType ==
    ASSUME TypeOK, NEW m \in net
    PROVE  [m EXCEPT !.copy = 2] \in Packet
BY DEF TypeOK, Packet

(* What a server sends to another client.                                  *)
LEMMA ForeignType ==
    ASSUME TypeOK, NEW s \in Servers, NEW t \in {"Offer", "Ack"}
    PROVE  [to |-> "client", xid |-> xid, type |-> t, mac |-> "other",
            server |-> s, addr |-> AddrOf[s], copy |-> 1] \in Packet
BY DEF TypeOK, Packet

-----------------------------------------------------------------------------
(* The inductive invariant. TypeOK alone does not bound the index of the   *)
(* outcomes a failing exit writes, the sum of the two clocks does what     *)
(* each of them alone does not, and the lease is only as good as the       *)
(* acknowledgements still on their way.                                    *)

(* A call under way has a number.                                          *)
CallNumbered == pc # "idle" => xid > 0

(* Time that has passed and time that is left never exceed the deadline.   *)
SharedDeadline == elapsed + left <= Timeout

(* Sockets and datagrams belong to calls already made.                     *)
NothingFromTheFuture == sockets \subseteq 1 .. xid /\ \A m \in net : m.xid <= xid

(* An acknowledgement of ours still in flight was granted.                 *)
AcksAreGranted ==
    \A m \in net :
        m.type = "Ack" /\ m.mac = "us" /\ m.addr # None =>
            \E g \in granted : g.xid = m.xid /\ g.mac = "us" /\ g.addr = m.addr

IInv ==
    /\ TypeOK /\ CallNumbered /\ SharedDeadline /\ NothingFromTheFuture
    /\ OnlyUnansweredLeak /\ AcksAreGranted /\ LeaseIsOurs

(* The steps of the system, one disjunct for each action.                  *)
LEMMA StepCases ==
    ASSUME [Next]_vars
    PROVE  \/ Acquire \/ Release \/ SendDiscover \/ WaitFails \/ Tick
           \/ UNCHANGED vars
           \/ \E m \in net :
                 \/ m.to = "client" /\ SkipPacket(m)
                 \/ m.to = "client" /\ OfferReceived(m)
                 \/ m.to = "client" /\ AckReceived(m)
                 \/ Discard(m) \/ Duplicate(m) \/ Lose(m)
                 \/ \E s \in Servers : Serve(s, m)
           \/ \E s \in Servers, t \in {"Offer", "Ack"} : ForeignReply(s, t)
BY DEF Next, ClientStep, Done, Receive, Network

(* Every failing exit keeps the types and leaves the client idle.          *)
LEMMA FailTypes ==
    ASSUME TypeOK, CallNumbered, pc # "idle", NEW e \in Errors,
           NEW c \in BOOLEAN, Fail(e, c)
    PROVE  /\ pc' = "idle" /\ xid' = xid /\ left' = left /\ elapsed' = elapsed
           /\ sockets' \subseteq sockets
           /\ outcome' \in [1 .. MaxCalls -> Outcomes] /\ lease' = lease
BY DEF TypeOK, CallNumbered, Fail

(* A fault, and its absence, keep the account of the faults.               *)
LEMMA FaultTypes ==
    ASSUME TypeOK, Fault \/ NoFault
    PROVE  faults' \in 0 .. MaxFaults /\ hurt' \in BOOLEAN
<1>1. faults' \in 0 .. MaxFaults
  BY DhcpAssumption DEF TypeOK, Fault, NoFault
<1>2. hurt' \in BOOLEAN
  BY Zenon DEF TypeOK, Fault, NoFault
<1> QED BY <1>1, <1>2

(* No step leaves the types, nor the numbering of the calls.               *)
LEMMA StepTypes ==
    ASSUME TypeOK, CallNumbered, [Next]_vars
    PROVE  TypeOK' /\ CallNumbered'
<1> USE DhcpAssumption DEF TypeOK, CallNumbered
<1>1. CASE Acquire
  <2>1. xid + 1 \in 1 .. MaxCalls /\ left' \in 0 .. Timeout
    BY <1>1 DEF Acquire
  <2>2. sockets' \subseteq 1 .. MaxCalls
    <3>1. OpenSocket(xid + 1, TRUE) \/ OpenSocket(xid + 1, FALSE)
      BY <1>1 DEF Acquire
    <3> QED BY <2>1, <3>1 DEF OpenSocket
  <2>3. pc' \in {"idle", "opened"}
    BY <1>1 DEF Acquire
  <2>4. outcome' \in [1 .. MaxCalls -> Outcomes]
    BY <1>1, <2>1 DEF Acquire
  <2>5. faults' \in 0 .. MaxFaults
    BY <1>1, FaultTypes DEF Acquire
  <2>6. hurt' \in BOOLEAN
    BY <1>1, FaultTypes DEF Acquire
  <2> QED BY <1>1, <2>1, <2>2, <2>3, <2>4, <2>5, <2>6 DEF Acquire
<1>2. CASE Release
  <2>1. xid + 1 \in 1 .. MaxCalls /\ lease # None /\ pc' = "idle"
    BY <1>2 DEF Release
  <2>2. sockets' \subseteq 1 .. MaxCalls
    BY <1>2, <2>1 DEF Release, OpenSocket
  <2>3. net' \subseteq Packet
    <3> DEFINE to == IF lease.server = None THEN Servers ELSE {lease.server}
               sent == { BuildRelease(s, xid + 1) : s \in to }
    <3>1. \A s \in to : BuildRelease(s, xid + 1) \in Packet
      BY <2>1, ReleaseType
    <3>2. sent \subseteq Packet
      BY <3>1
    <3>3. net' = net \cup sent \/ net' = net
      BY <1>2 DEF Release
    <3> QED BY <3>2, <3>3
  <2>4. outcome' \in [1 .. MaxCalls -> Outcomes]
    BY <1>2, <2>1 DEF Release
  <2>5. faults' \in 0 .. MaxFaults
    BY <1>2, FaultTypes DEF Release
  <2>6. hurt' \in BOOLEAN
    BY <1>2, FaultTypes DEF Release
  <2> QED BY <1>2, <2>1, <2>2, <2>3, <2>4, <2>5, <2>6 DEF Release
<1>3. CASE SendDiscover
  <2>1. { BuildDiscover(s) : s \in Servers } \subseteq Packet
    BY DiscoverType
  <2>2. net' \subseteq Packet /\ (Fault \/ NoFault) /\ pc # "idle"
    BY <1>3, <2>1 DEF SendDiscover
  <2>3. CASE Fail("Io", FALSE)
    BY <1>3, <2>2, <2>3, FailTypes, FaultTypes DEF SendDiscover
  <2>4. CASE ~Fail("Io", FALSE)
    BY <1>3, <2>2, <2>4, FaultTypes DEF SendDiscover
  <2> QED BY <2>3, <2>4
<1>4. CASE WaitFails
  <2>1. \E e \in Errors : Fail(e, FALSE)
    BY <1>4 DEF WaitFails
  <2>2. (Fault \/ NoFault) /\ pc # "idle" /\ UNCHANGED <<net, granted>>
    BY <1>4 DEF WaitFails
  <2> QED BY <2>1, <2>2, FailTypes, FaultTypes
<1>5. CASE Tick
  <2>1. hurt' \in BOOLEAN
    BY <1>5 DEF Tick
  <2> QED BY <1>5, <2>1 DEF Tick
<1>6. CASE UNCHANGED vars
  BY <1>6 DEF vars
<1>7. ASSUME NEW m \in net, m.to = "client", SkipPacket(m)
      PROVE  TypeOK' /\ CallNumbered'
  BY <1>7, FaultTypes DEF SkipPacket, client
<1>8. ASSUME NEW m \in net, m.to = "client", OfferReceived(m)
      PROVE  TypeOK' /\ CallNumbered'
  <2>1. net' \subseteq Packet
    <3>1. { BuildRequest(s, m) : s \in Servers } \subseteq Packet
      BY RequestType
    <3> QED BY <1>8, <3>1 DEF OfferReceived, RequestLease
  <2>2. \/ \E e \in Errors, c \in BOOLEAN : Fail(e, c)
        \/ pc' = "ack" /\ UNCHANGED <<xid, left, elapsed, sockets, outcome, lease>>
    BY <1>8 DEF OfferReceived, RequestLease
  <2>3. pc # "idle" /\ granted' = granted
    BY <1>8 DEF OfferReceived, Waiting
  <2>4. faults' \in 0 .. MaxFaults /\ hurt' \in BOOLEAN
    <3>1. Fault \/ NoFault
      BY <1>8 DEF OfferReceived, RequestLease
    <3> QED BY <3>1, FaultTypes
  <2> QED BY <2>1, <2>2, <2>3, <2>4, FailTypes
<1>9. ASSUME NEW m \in net, m.to = "client", AckReceived(m)
      PROVE  TypeOK' /\ CallNumbered'
  <2>1. CASE \E e \in Errors, c \in BOOLEAN : Fail(e, c)
    BY <1>9, <2>1, FailTypes, FaultTypes DEF AckReceived, Waiting
  <2>2. CASE ~\E e \in Errors, c \in BOOLEAN : Fail(e, c)
    <3>1. /\ lease' = [addr |-> m.addr, server |-> m.server, xid |-> xid]
          /\ outcome' = [outcome EXCEPT ![xid] = "Leased"]
          /\ pc' = "idle" /\ sockets' = sockets \ {xid}
          /\ m.addr # None
          /\ UNCHANGED <<xid, left, elapsed>>
      BY <1>9, <2>2 DEF AckReceived, Refused, ToLease
    <3>2. xid \in 1 .. MaxCalls /\ granted' = granted /\ NoFault
      BY <1>9 DEF AckReceived, Waiting
    <3>3. m.addr \in Addresses \ {None} /\ m.server \in ServerIds
      BY <3>1 DEF Packet
    <3> QED BY <1>9, <3>1, <3>2, <3>3, FaultTypes DEF AckReceived
  <2> QED BY <2>1, <2>2
<1>10. ASSUME NEW m \in net, Discard(m) \/ Lose(m)
       PROVE  TypeOK' /\ CallNumbered'
  BY <1>10, FaultTypes DEF Discard, Lose, client
<1>11. ASSUME NEW m \in net, Duplicate(m)
       PROVE  TypeOK' /\ CallNumbered'
  BY <1>11, CopyType, FaultTypes DEF Duplicate, client
<1>12. ASSUME NEW m \in net, NEW s \in Servers, Serve(s, m)
       PROVE  TypeOK' /\ CallNumbered'
  <2>1. net' \subseteq Packet
    BY <1>12, ReplyType DEF Serve
  <2>2. granted' \subseteq [xid : 0 .. MaxCalls, mac : {"us", "other"},
                            addr : Addresses]
    <3>1. m.xid \in 0 .. MaxCalls /\ m.mac \in {"us", "other"}
      BY DEF Packet
    <3> QED BY <1>12, <3>1 DEF Serve
  <2>3. faults' \in 0 .. MaxFaults /\ hurt' \in BOOLEAN
    <3>1. Fault \/ NoFault
      BY <1>12 DEF Serve
    <3> QED BY <3>1, FaultTypes
  <2> QED BY <1>12, <2>1, <2>2, <2>3 DEF Serve, client
<1>13. ASSUME NEW s \in Servers, NEW t \in {"Offer", "Ack"}, ForeignReply(s, t)
       PROVE  TypeOK' /\ CallNumbered'
  BY <1>13, ForeignType, FaultTypes DEF ForeignReply, client
<1> QED BY <1>1, <1>2, <1>3, <1>4, <1>5, <1>6, <1>7, <1>8, <1>9, <1>10,
           <1>11, <1>12, <1>13, StepCases

-----------------------------------------------------------------------------
(* Deadline, sockets, datagrams and grants, one lemma for each part.       *)

(* The steps that leave the client alone.                                  *)
LEMMA NetworkKeepsClient ==
    ASSUME NEW m, \/ SkipPacket(m) \/ Discard(m) \/ Duplicate(m) \/ Lose(m)
                  \/ \E s \in Servers : Serve(s, m)
                  \/ \E s \in Servers, t \in {"Offer", "Ack"} : ForeignReply(s, t)
    PROVE  UNCHANGED client
BY DEF SkipPacket, Discard, Duplicate, Lose, Serve, ForeignReply

(* What acquire leaves by: another transaction number is never involved,   *)
(* the clocks stand still, and either the socket is closed, or the wait    *)
(* goes on, or the outcome is one of those the ? operator leaves by.       *)
LEMMA ReceiveExits ==
    ASSUME TypeOK, CallNumbered, NEW m \in net, OfferReceived(m) \/ AckReceived(m)
    PROVE  /\ pc # "idle" /\ UNCHANGED <<xid, left, elapsed>>
           /\ \A x \in Calls \ {xid} : outcome'[x] = outcome[x]
           /\ \/ pc' = "ack" /\ UNCHANGED <<sockets, outcome>>
              \/ pc' = "idle" /\ sockets' = sockets \ {xid}
              \/ /\ pc' = "idle" /\ sockets' = sockets
                 /\ outcome'[xid] \in {"Io", "Timeout", "NoAddress", "OtherClient"}
<1> USE DhcpAssumption DEF TypeOK, CallNumbered
<1>1. pc # "idle" /\ xid \in Calls
  <2>1. Waiting("offer") \/ Waiting("ack")
    BY DEF OfferReceived, AckReceived
  <2> QED BY <2>1 DEF Waiting
<1>2. CASE OfferReceived(m)
  <2>1. \/ pc' = "ack" /\ UNCHANGED <<xid, left, elapsed, sockets, outcome>>
        \/ \E e \in Errors : Fail(e, TRUE)
        \/ Fail("Io", FALSE)
    BY <1>2 DEF OfferReceived, RequestLease
  <2> QED BY <1>1, <2>1 DEF Fail
<1>3. CASE AckReceived(m)
  <2>1. \/ \E e \in Errors : Fail(e, TRUE)
        \/ \E e \in {"NoAddress", "OtherClient"} : Fail(e, FALSE)
        \/ /\ outcome' = [outcome EXCEPT ![xid] = "Leased"]
           /\ pc' = "idle" /\ sockets' = sockets \ {xid}
           /\ UNCHANGED <<xid, left, elapsed>>
    BY <1>3 DEF AckReceived, Refused, ToLease
  <2> QED BY <1>1, <2>1 DEF Fail
<1> QED BY <1>2, <1>3

(* The two waits never outlast the one deadline.                           *)
LEMMA StepDeadline ==
    ASSUME TypeOK, CallNumbered, SharedDeadline, [Next]_vars
    PROVE  SharedDeadline'
<1> USE DhcpAssumption DEF TypeOK, SharedDeadline
<1>1. CASE Acquire
  BY <1>1 DEF Acquire
<1>2. CASE Tick
  BY <1>2 DEF Tick
<1>3. CASE Release \/ SendDiscover \/ WaitFails \/ UNCHANGED vars
  BY <1>3 DEF Release, SendDiscover, WaitFails, Fail, vars
<1>4. ASSUME NEW m \in net, OfferReceived(m) \/ AckReceived(m)
      PROVE  SharedDeadline'
  BY <1>4, ReceiveExits
<1>5. CASE UNCHANGED client
  BY <1>5 DEF client
<1> QED BY <1>1, <1>2, <1>3, <1>4, <1>5, StepCases, NetworkKeepsClient

(* Sockets are opened under the number of the call, and only the exits     *)
(* through ? keep one.                                                     *)
LEMMA StepSockets ==
    ASSUME TypeOK, CallNumbered, sockets \subseteq 1 .. xid, OnlyUnansweredLeak,
           [Next]_vars
    PROVE  sockets' \subseteq 1 .. xid' /\ OnlyUnansweredLeak'
<1> USE DhcpAssumption DEF TypeOK, CallNumbered, OnlyUnansweredLeak
<1>1. CASE Acquire
  <2>1. xid' = xid + 1 /\ pc = "idle" /\ xid + 1 \in Calls
    BY <1>1 DEF Acquire
  <2>2. xid + 1 \notin sockets
    BY <2>1
  <2>3. sockets' \subseteq sockets \cup {xid + 1}
    <3>1. OpenSocket(xid + 1, TRUE) \/ OpenSocket(xid + 1, FALSE)
      BY <1>1 DEF Acquire
    <3> QED BY <3>1 DEF OpenSocket
  <2>4. \/ pc' = "opened" /\ outcome' = outcome
        \/ pc' = "idle" /\ outcome' = [outcome EXCEPT ![xid + 1] = "Io"]
    BY <1>1, <2>1 DEF Acquire
  <2>5. sockets' \subseteq 1 .. xid'
    BY <2>1, <2>3
  <2>6. OnlyUnansweredLeak'
    BY <2>1, <2>2, <2>3, <2>4
  <2> QED BY <2>5, <2>6
<1>2. CASE Release
  <2>1. /\ xid' = xid + 1 /\ pc = "idle" /\ pc' = "idle" /\ xid + 1 \in Calls
        /\ xid + 1 \notin sockets /\ sockets' \subseteq sockets \cup {xid + 1}
    BY <1>2 DEF Release, OpenSocket
  <2>2. \/ sockets' = sockets /\ outcome' = [outcome EXCEPT ![xid + 1] = "Released"]
        \/ outcome' = [outcome EXCEPT ![xid + 1] = "Io"]
    BY <1>2 DEF Release
  <2> QED BY <2>1, <2>2
<1>3. CASE SendDiscover
  BY <1>3 DEF SendDiscover, Fail
<1>4. CASE WaitFails
  BY <1>4 DEF WaitFails, Fail
<1>5. CASE Tick \/ UNCHANGED vars
  BY <1>5 DEF Tick, vars
<1>6. ASSUME NEW m \in net, OfferReceived(m) \/ AckReceived(m)
      PROVE  sockets' \subseteq 1 .. xid' /\ OnlyUnansweredLeak'
  BY <1>6, ReceiveExits
<1>7. CASE UNCHANGED client
  BY <1>7 DEF client
<1> QED BY <1>1, <1>2, <1>3, <1>4, <1>5, <1>6, <1>7, StepCases, NetworkKeepsClient

(* Where a datagram comes from: the client sent it in the current call, it *)
(* repeats one, it is addressed to somebody else, or it answers one; and   *)
(* an acknowledgement that answers one is granted in the same step.        *)
Sent(m)    == m.xid = xid' /\ m.type \in {"Discover", "Request", "Release"}
Repeat(m)  == \E n \in net : /\ m.xid = n.xid /\ m.type = n.type
                             /\ m.mac = n.mac /\ m.addr = n.addr
Foreign(m) == m.xid = xid' /\ m.mac = "other"
Answer(m)  ==
    \E n \in net :
        /\ m.xid = n.xid /\ m.mac = n.mac
        /\ m.type = "Ack" /\ m.addr # None =>
               [xid |-> m.xid, mac |-> m.mac, addr |-> m.addr] \in granted'

(* A datagram on the wire was there before, or was sent, doubled, meant    *)
(* for another client, or is a server's answer.                            *)
LEMMA NetSources ==
    ASSUME TypeOK, [Next]_vars, NEW m \in net'
    PROVE  m \in net \/ Sent(m) \/ Repeat(m) \/ Foreign(m) \/ Answer(m)
<1>1. CASE Acquire \/ WaitFails \/ Tick \/ UNCHANGED vars
  BY <1>1 DEF Acquire, WaitFails, Tick, vars
<1>2. CASE Release
  <2> DEFINE to == IF lease.server = None THEN Servers ELSE {lease.server}
  <2>1. CASE m \in { BuildRelease(s, xid + 1) : s \in to }
    BY <1>2, <2>1 DEF Release, BuildRelease, Sent
  <2>2. CASE m \notin { BuildRelease(s, xid + 1) : s \in to }
    BY <1>2, <2>2 DEF Release
  <2> QED BY <2>1, <2>2
<1>3. CASE SendDiscover
  <2>1. xid' = xid
    BY <1>3 DEF SendDiscover, Fail
  <2>2. m \in net \/ \E s \in Servers : m = BuildDiscover(s)
    BY <1>3 DEF SendDiscover
  <2> QED BY <2>1, <2>2 DEF BuildDiscover, Sent
<1>4. ASSUME NEW n \in net, OfferReceived(n)
      PROVE  m \in net \/ Sent(m)
  <2>1. xid' = xid
    BY <1>4 DEF OfferReceived, RequestLease, Fail
  <2>2. m \in net \/ \E s \in Servers : m = BuildRequest(s, n)
    BY <1>4 DEF OfferReceived, RequestLease
  <2> QED BY <2>1, <2>2 DEF BuildRequest, Sent
<1>5. ASSUME NEW n \in net, SkipPacket(n) \/ AckReceived(n) \/ Discard(n) \/ Lose(n)
      PROVE  m \in net
  BY <1>5 DEF SkipPacket, AckReceived, Discard, Lose
<1>6. ASSUME NEW n \in net, Duplicate(n)
      PROVE  m \in net \/ Repeat(m)
  <2>1. CASE m = [n EXCEPT !.copy = 2]
    <3>1. m.xid = n.xid /\ m.type = n.type /\ m.mac = n.mac /\ m.addr = n.addr
      BY <2>1 DEF TypeOK, Packet
    <3> QED BY <3>1 DEF Repeat
  <2>2. CASE m # [n EXCEPT !.copy = 2]
    BY <1>6, <2>2 DEF Duplicate
  <2> QED BY <2>1, <2>2
<1>7. ASSUME NEW n \in net, NEW s \in Servers, Serve(s, n)
      PROVE  m \in net \/ Answer(m)
  <2>1. CASE \E t \in {"Offer", "Ack", "Nak"} : m = Reply(s, n, t, None)
    BY <2>1 DEF Reply, Answer
  <2>2. CASE m = Reply(s, n, "Offer", AddrOf[s])
    BY <2>2 DEF Reply, Answer
  <2>3. CASE /\ m = Reply(s, n, "Ack", AddrOf[s])
             /\ [xid |-> n.xid, mac |-> n.mac, addr |-> AddrOf[s]] \in granted'
    BY <2>3 DEF Reply, Answer
  <2>4. CASE m \in net
    BY <2>4
  <2> QED BY <1>7, <2>1, <2>2, <2>3, <2>4 DEF Serve
<1>8. ASSUME NEW s \in Servers, NEW t \in {"Offer", "Ack"}, ForeignReply(s, t)
      PROVE  m \in net \/ Foreign(m)
  BY <1>8 DEF ForeignReply, client, Foreign
<1> QED BY <1>1, <1>2, <1>3, <1>4, <1>5, <1>6, <1>7, <1>8, StepCases

(* Transaction numbers never run backwards, and nothing granted is taken   *)
(* back.                                                                   *)
LEMMA Monotone ==
    ASSUME TypeOK, CallNumbered, [Next]_vars
    PROVE  xid <= xid' /\ granted \subseteq granted'
<1>1. xid' = xid \/ xid' = xid + 1
  <2>1. CASE Acquire \/ Release \/ SendDiscover \/ WaitFails \/ Tick \/ UNCHANGED vars
    BY <2>1 DEF Acquire, Release, SendDiscover, WaitFails, Tick, vars, Fail
  <2>2. ASSUME NEW m \in net, OfferReceived(m) \/ AckReceived(m)
        PROVE  xid' = xid
    BY <2>2, ReceiveExits
  <2>3. CASE UNCHANGED client
    BY <2>3 DEF client
  <2> QED BY <2>1, <2>2, <2>3, StepCases, NetworkKeepsClient
<1>2. granted \subseteq granted'
  <2>1. CASE Acquire \/ Release \/ SendDiscover \/ WaitFails \/ Tick \/ UNCHANGED vars
    BY <2>1 DEF Acquire, Release, SendDiscover, WaitFails, Tick, vars
  <2>2. ASSUME NEW m \in net, \/ SkipPacket(m) \/ OfferReceived(m) \/ AckReceived(m)
                              \/ Discard(m) \/ Duplicate(m) \/ Lose(m)
        PROVE  granted' = granted
    BY <2>2 DEF SkipPacket, OfferReceived, AckReceived, Discard, Duplicate, Lose
  <2>3. ASSUME NEW m \in net, NEW s \in Servers, Serve(s, m)
        PROVE  granted \subseteq granted'
    BY <2>3 DEF Serve
  <2>4. ASSUME NEW s \in Servers, NEW t \in {"Offer", "Ack"}, ForeignReply(s, t)
        PROVE  granted' = granted
    BY <2>4 DEF ForeignReply
  <2> QED BY <2>1, <2>2, <2>3, <2>4, StepCases
<1> QED BY <1>1, <1>2 DEF TypeOK

(* No datagram is ahead of the client, and every acknowledgement of ours   *)
(* was granted.                                                            *)
LEMMA StepNet ==
    ASSUME TypeOK, CallNumbered, NothingFromTheFuture, AcksAreGranted, [Next]_vars
    PROVE  (\A m \in net' : m.xid <= xid') /\ AcksAreGranted'
<1>1. TypeOK' /\ xid \in Nat /\ xid' \in Nat /\ xid <= xid' /\ granted \subseteq granted'
  BY StepTypes, Monotone DEF TypeOK
<1>2. \A n \in net : n.xid \in Nat /\ n.xid <= xid
  BY DEF NothingFromTheFuture, TypeOK, Packet
<1>3. ASSUME NEW m \in net' PROVE m.xid <= xid'
  <2>1. m.xid = xid' \/ \E n \in net : m.xid = n.xid
    BY NetSources DEF Sent, Repeat, Foreign, Answer
  <2> QED BY <1>1, <1>2, <2>1
<1>4. ASSUME NEW m \in net', m.type = "Ack", m.mac = "us", m.addr # None
      PROVE  \E g \in granted' : g.xid = m.xid /\ g.mac = "us" /\ g.addr = m.addr
  <2>1. CASE m \in net \/ Repeat(m)
    BY <1>1, <1>4, <2>1 DEF AcksAreGranted, Repeat
  <2>2. CASE Answer(m)
    BY <1>4, <2>2 DEF Answer
  <2>3. ~Sent(m) /\ ~Foreign(m)
    BY <1>4 DEF Sent, Foreign
  <2> QED BY <2>1, <2>2, <2>3, NetSources
<1> QED BY <1>3, <1>4 DEF AcksAreGranted

(* A lease is only ever taken from an acknowledgement of ours.             *)
LEMMA StepLease ==
    ASSUME TypeOK, CallNumbered, AcksAreGranted, LeaseIsOurs, [Next]_vars
    PROVE  LeaseIsOurs'
<1>1. granted \subseteq granted'
  BY Monotone
<1>2. CASE lease' = lease \/ lease' = None
  BY <1>1, <1>2 DEF LeaseIsOurs
<1>3. ASSUME NEW m \in net, AckReceived(m), lease' # lease
      PROVE  LeaseIsOurs'
  <2>1. /\ m.type = "Ack" /\ m.mac = "us" /\ m.addr # None /\ m.xid = xid
        /\ lease' = [addr |-> m.addr, server |-> m.server, xid |-> xid]
    BY <1>3 DEF AckReceived, Matches, Refused, ToLease, Fail
  <2> QED BY <1>1, <2>1 DEF AcksAreGranted, LeaseIsOurs
<1>4. CASE Acquire \/ Release \/ SendDiscover \/ WaitFails \/ Tick \/ UNCHANGED vars
  BY <1>2, <1>4 DEF Acquire, Release, SendDiscover, WaitFails, Tick, vars, Fail
<1>5. ASSUME NEW m \in net, OfferReceived(m) PROVE lease' = lease
  BY <1>5 DEF OfferReceived, RequestLease, Fail
<1>6. CASE UNCHANGED client
  BY <1>2, <1>6 DEF client
<1> QED BY <1>2, <1>3, <1>4, <1>5, <1>6, StepCases, NetworkKeepsClient

-----------------------------------------------------------------------------
(* The theorems of the exchange.                                           *)

(* The invariant holds at the start.                                       *)
LEMMA InitIInv == Init => IInv
<1> SUFFICES ASSUME Init PROVE IInv
  OBVIOUS
<1>1. TypeOK
  <2>1. hurt \in BOOLEAN
    BY DEF Init
  <2> QED BY <2>1, DhcpAssumption DEF Init, TypeOK
<1>2. CallNumbered /\ SharedDeadline /\ NothingFromTheFuture
  BY DhcpAssumption DEF Init, CallNumbered, SharedDeadline, NothingFromTheFuture
<1>3. OnlyUnansweredLeak /\ AcksAreGranted /\ LeaseIsOurs
  BY DEF Init, OnlyUnansweredLeak, AcksAreGranted, LeaseIsOurs
<1> QED BY <1>1, <1>2, <1>3 DEF IInv

(* Every step of the client, the servers and the network keeps it.         *)
LEMMA NextIInv == IInv /\ [Next]_vars => IInv'
BY StepTypes, StepDeadline, StepSockets, StepNet, StepLease
   DEF IInv, NothingFromTheFuture

(* The inductive invariant holds throughout every execution.               *)
THEOREM Invariance == Spec => []IInv
BY InitIInv, NextIInv, PTL DEF Spec

(* The types of the client's state, of every datagram and of every grant.  *)
THEOREM TypeCorrect == Spec => []TypeOK
<1>1. IInv => TypeOK
  BY DEF IInv
<1> QED BY <1>1, Invariance, PTL

(* A lease acquire returns was acknowledged by a server for this client    *)
(* and this transaction, whatever the network loses, repeats or delays.    *)
THEOREM LeaseOwned == Spec => []LeaseIsOurs
<1>1. IInv => LeaseIsOurs
  BY DEF IInv
<1> QED BY <1>1, Invariance, PTL

(* Both waits of acquire together stay within effective_timeout.           *)
THEOREM OneDeadline == Spec => []SingleDeadline
<1>1. IInv => SingleDeadline
  BY DhcpAssumption DEF IInv, TypeOK, SharedDeadline, SingleDeadline
<1> QED BY <1>1, Invariance, PTL

(* An exchange that was answered leaves no socket open: those still open   *)
(* between calls belong to calls that left through the ? operator.         *)
THEOREM AnsweredCallsClose == Spec => []OnlyUnansweredLeak
<1>1. IInv => OnlyUnansweredLeak
  BY DEF IInv
<1> QED BY <1>1, Invariance, PTL

-----------------------------------------------------------------------------
(* Why acquire fails. In a call nothing went wrong in, the datagrams of    *)
(* its transaction are exactly those of the exchange, one that moves the   *)
(* exchange on is always among them, so that time cannot pass without      *)
(* being a delay; and where there is one server, there is one datagram.    *)

Alone == \A a, b \in Servers : a = b
Ours  == { m \in net : m.xid = xid }

Asking(m)     == m.type = "Discover" /\ m.to \in Servers /\ m.server = None
Offering(m)   == m.type = "Offer" /\ m.to = "client" /\ m.addr # None
Requesting(m) == m.type = "Request" /\ m.to \in Servers
Acking(m)     == m.type = "Ack" /\ m.to = "client" /\ m.addr # None

OfferPhase ==
    /\ Ours # {}
    /\ \A m \in Ours : m.mac = "us" /\ (Asking(m) \/ Offering(m))
    /\ Alone => \A m, n \in Ours : m = n

AckPhase ==
    /\ \E m \in Ours : Acking(m) \/ (Requesting(m) /\ Answers(m.to, m))
    /\ \A m \in Ours :
          /\ m.mac = "us"
          /\ \/ Requesting(m) \/ Acking(m)
             \/ ~Alone /\ (Asking(m) \/ Offering(m))

Explained ==
    xid > 0 => \/ outcome[xid] \in {"Leased", "Released"}
               \/ outcome[xid] = "NotAck" /\ ~Alone

Undisturbed ==
    ~hurt =>
        /\ pc = "idle" => Explained
        /\ pc # "idle" => left = Timeout
        /\ pc = "opened" => Ours = {}
        /\ pc = "offer" => OfferPhase
        /\ pc = "ack" => AckPhase

(* Without a second server there is none to answer twice.                  *)
LEMMA NotAlone ==
    ASSUME ~Alone
    PROVE  Cardinality(Servers) > 1
<1>1. PICK a \in Servers, b \in Servers : a # b
  BY DEF Alone
<1>2. IsFiniteSet({a}) /\ Cardinality({a}) = 1
  BY FS_Singleton
<1>3. Cardinality({a} \cup {b}) = 2
  BY <1>1, <1>2, FS_AddElement
<1>4. Cardinality({a} \cup {b}) <= Cardinality(Servers) /\ Cardinality(Servers) \in Nat
  <2>1. ({a} \cup {b}) \in SUBSET Servers
    OBVIOUS
  <2> QED BY <2>1, DhcpAssumption, FS_Subset, FS_CardinalityType
<1> QED BY <1>3, <1>4

(* A step is a fault or it is not.                                         *)
LEMMA FaultOrNot ==
    ASSUME TypeOK
    PROVE  ~(Fault /\ NoFault)
BY DhcpAssumption DEF TypeOK, Fault, NoFault

(* The offer taken when nothing went wrong is followed by a request that   *)
(* the server it names will answer.                                        *)
LEMMA RequestAnswered ==
    ASSUME TypeOK, Servers # {}, NEW m \in net
    PROVE  \E s \in Servers : Answers(s, BuildRequest(s, m))
<1>1. m.server \in Servers \cup {None}
  BY DEF TypeOK, Packet
<1>2. CASE m.server = None
  BY <1>2 DEF Answers, BuildRequest
<1>3. CASE m.server # None
  BY <1>1, <1>3 DEF Answers, BuildRequest
<1> QED BY <1>2, <1>3

(* The offer phase ends in a request, and what else is on its way comes    *)
(* from a second server.                                                   *)
LEMMA OfferTaken ==
    ASSUME IInv, Servers # {}, NoFault, pc = "offer", OfferPhase,
           NEW m \in net, m.to = "client", OfferReceived(m)
    PROVE  pc' = "ack" /\ left' = left /\ AckPhase'
<1> DEFINE sent == { BuildRequest(s, m) : s \in Servers }
<1>1. m \in Ours
  BY DEF OfferReceived, Matches, Ours
<1>2. Offering(m) /\ m.mac = "us"
  BY <1>1, DhcpAssumption DEF OfferPhase, Asking, Offering
<1>3. ~Fault
  BY FaultOrNot DEF IInv
<1>4. /\ pc' = "ack" /\ net' = (net \ {m}) \cup sent
      /\ xid' = xid /\ left' = left
  BY <1>2, <1>3 DEF OfferReceived, RequestLease, Offering
<1>5. \A n \in sent : n.xid = xid /\ n.mac = "us" /\ Requesting(n)
  BY DEF BuildRequest, Requesting
<1>6. \E n \in sent : Answers(n.to, n)
  <2>1. PICK s \in Servers : Answers(s, BuildRequest(s, m))
    BY RequestAnswered DEF IInv
  <2>2. BuildRequest(s, m).to = s
    BY DEF BuildRequest
  <2> QED BY <2>1, <2>2
<1>7. ASSUME NEW n \in net \ {m}, n.xid = xid
      PROVE  n.mac = "us" /\ ~Alone /\ (Asking(n) \/ Offering(n))
  BY <1>1, <1>7 DEF OfferPhase, Ours
<1>8. Ours' = { n \in net \ {m} : n.xid = xid } \cup sent
  BY <1>4, <1>5 DEF Ours
<1> HIDE DEF sent
<1>9. \E n \in Ours' : Requesting(n) /\ Answers(n.to, n)
  BY <1>5, <1>6, <1>8
<1>10. \A n \in Ours' : /\ n.mac = "us"
                        /\ Requesting(n) \/ (~Alone /\ (Asking(n) \/ Offering(n)))
  BY <1>5, <1>7, <1>8
<1> QED BY <1>4, <1>9, <1>10
        DEF AckPhase, Requesting, Acking, Asking, Offering, Answers

(* In a call nothing went wrong in, the acknowledgement is the lease, and  *)
(* what else arrives is the offer of a second server.                      *)
LEMMA AckTaken ==
    ASSUME IInv, pc = "ack", AckPhase,
           NEW m \in net, m.to = "client", AckReceived(m)
    PROVE  pc' = "idle" /\ Explained'
<1>1. m \in Ours
  BY DEF AckReceived, Matches, Ours
<1>2. m.mac = "us" /\ (Acking(m) \/ (~Alone /\ Offering(m)))
  BY <1>1, DhcpAssumption DEF AckPhase, Requesting, Asking
<1>3. xid \in Calls /\ outcome \in [Calls -> Outcomes]
  BY DhcpAssumption DEF IInv, CallNumbered, TypeOK
<1>4. CASE Acking(m)
  <2>1. pc' = "idle" /\ outcome' = [outcome EXCEPT ![xid] = "Leased"] /\ xid' = xid
    BY <1>2, <1>4 DEF AckReceived, Refused, ToLease, Acking
  <2> QED BY <1>3, <2>1 DEF Explained
<1>5. CASE ~Alone /\ Offering(m)
  <2>1. pc' = "idle" /\ outcome' = [outcome EXCEPT ![xid] = "NotAck"] /\ xid' = xid
    BY <1>5 DEF AckReceived, Refused, ToLease, Offering, Fail
  <2> QED BY <1>3, <1>5, <2>1 DEF Explained, Alone
<1> QED BY <1>2, <1>4, <1>5

(* A server that does what it should moves the exchange on, and adds       *)
(* nothing that is not part of it.                                         *)
LEMMA Served ==
    ASSUME IInv, NoFault, NEW s \in Servers, NEW n \in net, Serve(s, n)
    PROVE  /\ pc = "opened" /\ Ours = {} => Ours' = {}
           /\ pc = "offer" /\ OfferPhase => OfferPhase'
           /\ pc = "ack" /\ AckPhase => AckPhase'
<1> DEFINE t == IF n.type = "Discover" THEN "Offer" ELSE "Ack"
           r == Reply(s, n, t, AddrOf[s])
<1>1. n.to = s /\ xid' = xid /\ n.to # "client"
  BY DhcpAssumption DEF Serve, client
<1>2. ~Fault
  BY FaultOrNot DEF IInv
<1>3. \/ /\ n.type \in {"Discover", "Request"} /\ Answers(s, n)
         /\ net' = (net \ {n}) \cup {r}
      \/ /\ n.type = "Release" \/ ~Answers(s, n)
         /\ net' = net \ {n}
  BY <1>2 DEF Serve
<1>4. /\ r.xid = n.xid /\ r.mac = n.mac /\ r.to = "client" /\ r.type = t
      /\ r.addr # None
  BY DhcpAssumption DEF Reply
<1> HIDE DEF r
<1>5. CASE n \notin Ours
  <2>1. Ours' = Ours
    BY <1>1, <1>3, <1>4, <1>5 DEF Ours
  <2> QED BY <2>1 DEF OfferPhase, AckPhase, Asking, Offering, Requesting, Acking,
                      Answers, Alone
<1>6. ASSUME n \in Ours, OfferPhase PROVE OfferPhase'
  <2>1. Asking(n) /\ n.mac = "us"
    BY <1>1, <1>6 DEF OfferPhase, Offering
  <2>2. Answers(s, n)
    BY <2>1 DEF Asking, Answers
  <2>3. net' = (net \ {n}) \cup {r} /\ t = "Offer"
    BY <1>3, <2>1, <2>2 DEF Asking
  <2>4. Ours' = (Ours \ {n}) \cup {r}
    BY <1>1, <1>4, <1>6, <2>3 DEF Ours
  <2>5. Offering(r) /\ r.mac = "us"
    BY <1>4, <2>1, <2>3 DEF Offering
  <2>6. Alone => \A a, b \in Ours' : a = b
    BY <1>6, <2>4 DEF OfferPhase
  <2>7. \A m \in Ours' : m.mac = "us" /\ (Asking(m) \/ Offering(m))
    BY <1>6, <2>4, <2>5 DEF OfferPhase
  <2> QED BY <2>4, <2>6, <2>7 DEF OfferPhase, Asking, Offering, Alone
<1>7. ASSUME n \in Ours, AckPhase PROVE AckPhase'
  <2>1. PICK w \in Ours : Acking(w) \/ (Requesting(w) /\ Answers(w.to, w))
    BY <1>7 DEF AckPhase
  <2>2. n.mac = "us" /\ (Requesting(n) \/ (~Alone /\ Asking(n)))
    BY <1>1, <1>7 DEF AckPhase, Acking, Offering
  <2>3. CASE net' = net \ {n} /\ ~Answers(s, n)
    <3>1. Ours' = Ours \ {n}
      BY <1>1, <2>3 DEF Ours
    <3>2. w # n
      BY <1>1, <2>1, <2>3 DEF Acking
    <3>3. \E m \in Ours' : Acking(m) \/ (Requesting(m) /\ Answers(m.to, m))
      BY <2>1, <3>1, <3>2
    <3>4. \A m \in Ours' : /\ m.mac = "us"
                           /\ \/ Requesting(m) \/ Acking(m)
                              \/ ~Alone /\ (Asking(m) \/ Offering(m))
      BY <1>7, <3>1 DEF AckPhase
    <3> QED BY <3>3, <3>4
            DEF AckPhase, Asking, Offering, Requesting, Acking, Answers, Alone
  <2>4. CASE net' = (net \ {n}) \cup {r}
    <3>1. Ours' = (Ours \ {n}) \cup {r}
      BY <1>1, <1>4, <1>7, <2>4 DEF Ours
    <3>2. r.mac = "us"
      BY <1>4, <2>2
    <3>3. Requesting(n) => Acking(r)
      BY <1>4 DEF Requesting, Acking
    <3>4. Asking(n) => Offering(r) /\ w # n
      BY <1>4, <2>1 DEF Asking, Offering, Acking, Requesting
    <3>5. \E m \in Ours' : Acking(m) \/ (Requesting(m) /\ Answers(m.to, m))
      BY <2>1, <2>2, <3>1, <3>3, <3>4
    <3>6. \A m \in Ours' : /\ m.mac = "us"
                           /\ \/ Requesting(m) \/ Acking(m)
                              \/ ~Alone /\ (Asking(m) \/ Offering(m))
      BY <1>7, <2>2, <3>1, <3>2, <3>3, <3>4 DEF AckPhase
    <3> QED BY <3>5, <3>6
            DEF AckPhase, Asking, Offering, Requesting, Acking, Answers, Alone
  <2>5. n.type # "Release"
    BY <2>2 DEF Requesting, Asking
  <2> QED BY <1>3, <2>3, <2>4, <2>5
<1> QED BY <1>5, <1>6, <1>7

(* A step without a fault is explained whatever the client is doing.       *)
LEMMA StepUndisturbed ==
    ASSUME IInv, Undisturbed, Servers # {}, [Next]_vars
    PROVE  Undisturbed'
<1> DEFINE Calm ==
        /\ pc = "idle" => Explained
        /\ pc # "idle" => left = Timeout
        /\ pc = "opened" => Ours = {}
        /\ pc = "offer" => OfferPhase
        /\ pc = "ack" => AckPhase
<1>0. SUFFICES ASSUME ~hurt' PROVE Calm'
  BY DEF Undisturbed
<1>a. hurt \/ Calm
  BY DEF Undisturbed
<1>b. ~Fault
  BY <1>0 DEF Fault
<1>c. NoFault => Calm
  BY <1>0, <1>a DEF NoFault
<1>d. Timeout > 0 /\ xid \in Nat
  BY DhcpAssumption DEF IInv, TypeOK
<1> HIDE DEF Calm
<1>1. CASE Acquire
  <2>1. pc' = "opened" /\ left' = Timeout /\ net' = net /\ xid' = xid + 1
    BY <1>1, <1>b DEF Acquire
  <2>2. Ours' = {}
    BY <2>1, <1>d DEF IInv, NothingFromTheFuture, TypeOK, Packet, Ours
  <2> QED BY <2>1, <2>2 DEF Calm
<1>2. CASE Release
  <2>1. pc' = "idle" /\ xid' = xid + 1 /\ xid < MaxCalls
    BY <1>2 DEF Release
  <2>2. outcome' = [outcome EXCEPT ![xid + 1] = "Released"]
    BY <1>2, <1>b DEF Release
  <2>3. xid + 1 \in Calls
    BY <1>d, <2>1, DhcpAssumption
  <2> QED BY <2>1, <2>2, <2>3 DEF Calm, Explained, IInv, TypeOK
<1>3. CASE SendDiscover
  <2> DEFINE sent == { BuildDiscover(s) : s \in Servers }
  <2>1. pc = "opened" /\ pc' = "offer" /\ net' = net \cup sent
        /\ UNCHANGED <<xid, left>> /\ NoFault
    BY <1>3, <1>b DEF SendDiscover
  <2>2. left = Timeout /\ Ours = {}
    BY <1>c, <2>1 DEF Calm
  <2>3. \A m \in sent : m.xid = xid /\ m.mac = "us" /\ Asking(m)
    BY DEF BuildDiscover, Asking
  <2>4. sent # {} /\ (Alone => \A m, n \in sent : m = n)
    BY DEF Alone
  <2>5. Ours' = sent
    BY <2>1, <2>2, <2>3 DEF Ours
  <2> HIDE DEF sent
  <2>6. OfferPhase'
    BY <2>3, <2>4, <2>5 DEF OfferPhase, Asking, Offering, Alone
  <2> QED BY <2>1, <2>2, <2>6 DEF Calm
<1>4. CASE WaitFails
  <2>1. left = 0 /\ NoFault /\ pc # "idle"
    BY <1>4, <1>b DEF WaitFails
  <2> QED BY <1>c, <1>d, <2>1 DEF Calm
<1>5. CASE Tick
  <2>1. ~hurt /\ Quiet /\ pc \in {"offer", "ack"}
    BY <1>0, <1>5 DEF Tick
  <2>2. Ours # {}
    BY <1>a, <2>1 DEF Calm, OfferPhase, AckPhase
  <2> QED BY <2>1, <2>2 DEF Ours, Quiet
<1>6. CASE UNCHANGED vars
  <2>1. NoFault /\ UNCHANGED <<pc, xid, left, net, outcome>>
    BY <1>6 DEF vars, NoFault
  <2> QED BY <1>c, <2>1
          DEF Calm, Explained, Ours, OfferPhase, AckPhase, Asking, Offering,
              Requesting, Acking, Answers, Alone
<1>7. ASSUME NEW m \in net, SkipPacket(m) PROVE Calm'
  <2>1. /\ NoFault /\ UNCHANGED <<pc, xid, left, outcome>>
        /\ net' = net \ {m} /\ m.xid # xid
    BY <1>7 DEF SkipPacket, client
  <2>2. Ours' = Ours
    BY <2>1 DEF Ours
  <2> QED BY <1>c, <2>1, <2>2
          DEF Calm, Explained, OfferPhase, AckPhase, Asking, Offering,
              Requesting, Acking, Answers, Alone
<1>8. ASSUME NEW m \in net, m.to = "client", OfferReceived(m) PROVE Calm'
  <2>1. pc = "offer" /\ NoFault
    BY <1>8, <1>b DEF OfferReceived, RequestLease, Waiting
  <2>2. OfferPhase /\ left = Timeout
    BY <1>c, <2>1 DEF Calm
  <2>3. pc' = "ack" /\ left' = left /\ AckPhase'
    BY <1>8, <2>1, <2>2, OfferTaken
  <2> QED BY <2>2, <2>3 DEF Calm
<1>9. ASSUME NEW m \in net, m.to = "client", AckReceived(m) PROVE Calm'
  <2>1. pc = "ack" /\ NoFault
    BY <1>9 DEF AckReceived, Waiting
  <2>2. AckPhase
    BY <1>c, <2>1 DEF Calm
  <2>3. pc' = "idle" /\ Explained'
    BY <1>9, <2>1, <2>2, AckTaken
  <2> QED BY <2>3 DEF Calm
<1>10. ASSUME NEW m \in net, Discard(m) PROVE Calm'
  <2>1. NoFault /\ pc = "idle" /\ UNCHANGED <<pc, xid, outcome>>
    BY <1>10 DEF Discard, client
  <2> QED BY <1>c, <2>1 DEF Calm, Explained, Alone
<1>11. ASSUME NEW m \in net, Duplicate(m) \/ Lose(m) PROVE FALSE
  BY <1>11, <1>b DEF Duplicate, Lose
<1>12. ASSUME NEW m \in net, NEW s \in Servers, Serve(s, m) PROVE Calm'
  <2>1. NoFault /\ UNCHANGED <<pc, xid, left, outcome>>
    BY <1>12, <1>b DEF Serve, client
  <2>2. /\ pc = "opened" => Ours' = {}
        /\ pc = "offer" => OfferPhase'
        /\ pc = "ack" => AckPhase'
    BY <1>12, <1>c, <2>1, Served DEF Calm
  <2>3. pc = "idle" => Explained'
    BY <1>c, <2>1 DEF Calm, Explained, Alone
  <2>4. pc # "idle" => left' = Timeout
    BY <1>c, <2>1 DEF Calm
  <2> QED BY <2>1, <2>2, <2>3, <2>4 DEF Calm
<1>13. ASSUME NEW s \in Servers, NEW t \in {"Offer", "Ack"}, ForeignReply(s, t)
       PROVE  FALSE
  BY <1>13, <1>b DEF ForeignReply
<1> QED BY <1>1, <1>2, <1>3, <1>4, <1>5, <1>6, <1>7, <1>8, <1>9, <1>10,
           <1>11, <1>12, <1>13, StepCases

(* On a link with a server, acquire fails only for a cause: something was  *)
(* lost, delayed, repeated, refused or mistaken for another client's while *)
(* it ran, a system call failed, or a second server answered too.          *)
THEOREM FailuresExplained ==
    ASSUME Servers # {}
    PROVE  Spec => []FailureHasCause
<1>1. Init => IInv /\ Undisturbed
  <2>1. ASSUME Init PROVE Undisturbed
    BY <2>1 DEF Init, Undisturbed, Explained
  <2> QED BY <2>1, InitIInv
<1>2. IInv /\ Undisturbed /\ [Next]_vars => (IInv /\ Undisturbed)'
  BY NextIInv, StepUndisturbed
<1>3. IInv /\ Undisturbed => FailureHasCause
  BY NotAlone DEF Undisturbed, Explained, FailureHasCause
<1> QED BY <1>1, <1>2, <1>3, PTL DEF Spec
=============================================================================
