----------------------------- MODULE DhcpClient -----------------------------
(***************************************************************************)
(* The DHCPv4 client (linux/dhcp/mod.rs): one DISCOVER and one REQUEST     *)
(* under a single deadline, with no retransmission, over a socket that     *)
(* every exit of acquire should close; and the release of a lease.         *)
(*                                                                         *)
(* The servers are those of examples/dhcp_test_server.rs, which answer     *)
(* every REQUEST, or selective ones, which answer only a REQUEST that      *)
(* names them or nobody. The network may lose, duplicate and delay, a      *)
(* system call may fail and a server may misbehave: each is a fault, and   *)
(* at most MaxFaults of them happen.                                       *)
(*                                                                         *)
(* A datagram is a record; server is the identifier option 54 carries,     *)
(* addr is yiaddr, with None for 0.0.0.0. A server that sends no option    *)
(* 54 leaves siaddr empty too, so that the fallback of acquire to siaddr   *)
(* finds nothing. The transaction id, nanoseconds mixed with the process   *)
(* id in the code, is a number that does not repeat.                       *)
(***************************************************************************)
EXTENDS Integers, Sequences, FiniteSets

CONSTANTS
    None,
    Servers,      \* DHCP servers on the link
    Selective,    \* those that answer only a REQUEST meant for them
    Anonymous,    \* those that send neither option 54 nor siaddr
    AddrOf,       \* the address each one leases
    Timeout,      \* effective_timeout, in ticks
    MaxCalls,     \* bound: calls of acquire and release
    MaxFaults     \* bound: faults

ASSUME DhcpAssumption ==
    /\ Selective \subseteq Servers /\ Anonymous \subseteq Servers
    /\ Timeout \in Nat \ {0} /\ MaxCalls \in Nat /\ MaxFaults \in Nat
    /\ IsFiniteSet(Servers) /\ {None, "client"} \cap Servers = {}
    /\ \A s \in Servers : AddrOf[s] # None

VARIABLES
    pc,        \* where the client is: idle, opened, offer, ack
    xid,       \* transaction id of the latest call
    left,      \* ticks to the deadline
    elapsed,   \* ticks since the deadline was set
    net,       \* datagrams in flight or queued on a socket
    sockets,   \* open sockets, each named by the transaction that opened it
    outcome,   \* what each call returned
    lease,     \* the lease held
    granted,   \* external: what the servers acknowledged
    faults,    \* faults so far
    hurt       \* whether one of them fell in the current call

vars == <<pc, xid, left, elapsed, net, sockets, outcome, lease, granted,
          faults, hurt>>
client == <<pc, xid, left, elapsed, sockets, outcome, lease>>

Calls == 1 .. MaxCalls
Addresses == { AddrOf[s] : s \in Servers } \cup {None}
ServerIds == Servers \cup {None}

Errors   == {"Io", "Timeout", "NotOffer", "NotAck", "Nak", "NoAddress", "OtherClient"}
Outcomes == Errors \cup {"none", "Leased", "Released"}

Packet == [to : Servers \cup {"client"}, xid : 0 .. MaxCalls,
           type : {"Discover", "Offer", "Request", "Ack", "Nak", "Release"},
           mac : {"us", "other"}, server : ServerIds, addr : Addresses,
           copy : {1, 2}]

Fault   == faults < MaxFaults /\ faults' = faults + 1 /\ hurt' = TRUE
NoFault == UNCHANGED <<faults, hurt>>

-----------------------------------------------------------------------------
(* Messages the client builds, one copy for each server that hears it.     *)

BuildDiscover(s) ==
    [to |-> s, xid |-> xid, type |-> "Discover", mac |-> "us",
     server |-> None, addr |-> None, copy |-> 1]

BuildRequest(s, offer) ==
    [to |-> s, xid |-> xid, type |-> "Request", mac |-> "us",
     server |-> offer.server, addr |-> offer.addr, copy |-> 1]

BuildRelease(s, x) ==
    [to |-> s, xid |-> x, type |-> "Release", mac |-> "us",
     server |-> lease.server, addr |-> lease.addr, copy |-> 1]

-----------------------------------------------------------------------------
(* Exits of acquire. Those that take the ? operator leave the socket open. *)

Fail(e, closed) ==
    /\ pc' = "idle"
    /\ outcome' = [outcome EXCEPT ![xid] = e]
    /\ sockets' = IF closed THEN sockets \ {xid} ELSE sockets
    /\ UNCHANGED <<xid, left, elapsed, lease>>

(* open_socket: fails before there is a socket, fails in an option and     *)
(* leaves it open, or fails in bind and closes it.                         *)
OpenSocket(x, opened) ==
    \/ opened /\ sockets' = sockets \cup {x}
    \/ ~opened /\ \E kept \in SUBSET {x} : sockets' = sockets \cup kept

(* acquire up to the deadline: read_mac_address, transaction_id,           *)
(* open_socket.                                                            *)
Acquire ==
    /\ pc = "idle" /\ xid < MaxCalls /\ lease = None
    /\ xid' = xid + 1
    /\ left' = Timeout /\ elapsed' = 0
    /\ \/ /\ OpenSocket(xid + 1, TRUE)
          /\ pc' = "opened"
          /\ hurt' = FALSE
          /\ UNCHANGED <<outcome, faults>>
       \/ /\ OpenSocket(xid + 1, FALSE)
          /\ Fault
          /\ outcome' = [outcome EXCEPT ![xid + 1] = "Io"]
          /\ UNCHANGED pc
    /\ UNCHANGED <<net, lease, granted>>

SendDiscover ==
    /\ pc = "opened"
    /\ \/ /\ pc' = "offer"
          /\ net' = net \cup { BuildDiscover(s) : s \in Servers }
          /\ NoFault
          /\ UNCHANGED <<xid, left, elapsed, sockets, outcome, lease>>
       \/ Fail("Io", FALSE) /\ Fault /\ UNCHANGED net
    /\ UNCHANGED granted

Waiting(phase) == pc = phase /\ left > 0

(* Bug: a datagram of another transaction ends the wait.                   *)
MutSkipPacket(m) ==
    /\ pc \in {"offer", "ack"} /\ left > 0
    /\ m.xid # xid
    /\ Fail("NotOffer", TRUE)
    /\ net' = net \ {m} /\ NoFault
    /\ UNCHANGED granted

(* wait_for_packet goes back to poll on a datagram of another transaction. *)
SkipPacket(m) ==
    /\ Waiting("offer") \/ Waiting("ack")
    /\ m.xid # xid
    /\ net' = net \ {m} /\ NoFault
    /\ UNCHANGED <<client, granted>>

(* Bug: the wait trusts whatever arrives on its port.                      *)
MutMatches(m) == TRUE

Matches(m) == m.xid = xid

(* Bug: every wait gets a deadline of its own.                             *)
MutRequestLease(m, rest) ==
    /\ m.type = "Offer" /\ m.addr # None
    /\ pc' = "ack" /\ left' = Timeout
    /\ net' = rest \cup { BuildRequest(s, m) : s \in Servers }
    /\ NoFault
    /\ UNCHANGED <<xid, elapsed, sockets, outcome, lease>>

(* The offer is taken from whoever sent it, whomever it is addressed to;   *)
(* rest is what is still in flight.                                        *)
RequestLease(m, rest) ==
    /\ m.type = "Offer" /\ m.addr # None
    /\ \/ /\ pc' = "ack"
          /\ net' = rest \cup { BuildRequest(s, m) : s \in Servers }
          /\ NoFault
          /\ UNCHANGED <<xid, left, elapsed, sockets, outcome, lease>>
       \/ Fail("Io", FALSE) /\ Fault /\ net' = rest

OfferReceived(m) ==
    /\ Waiting("offer") /\ Matches(m)
    /\ \/ RequestLease(m, net \ {m})
       \/ /\ m.type # "Offer" /\ Fail("NotOffer", TRUE)
          /\ NoFault /\ net' = net \ {m}
       \/ /\ m.type = "Offer" /\ m.addr = None /\ Fail("NoAddress", TRUE)
          /\ NoFault /\ net' = net \ {m}
    /\ UNCHANGED granted

(* Bug: a refusal returns without closing.                                 *)
MutRefused(m) ==
    \/ m.type = "Nak" /\ Fail("Nak", FALSE)
    \/ m.type \notin {"Ack", "Nak"} /\ Fail("NotAck", TRUE)

Refused(m) ==
    \/ m.type = "Nak" /\ Fail("Nak", TRUE)
    \/ m.type \notin {"Ack", "Nak"} /\ Fail("NotAck", TRUE)

(* to_lease checks the address and chaddr before the socket is closed.     *)
ToLease(m) ==
    /\ m.type = "Ack"
    /\ \/ m.addr = None /\ Fail("NoAddress", FALSE)
       \/ m.addr # None /\ m.mac # "us" /\ Fail("OtherClient", FALSE)
       \/ /\ m.addr # None /\ m.mac = "us"
          /\ lease' = [addr |-> m.addr, server |-> m.server, xid |-> xid]
          /\ outcome' = [outcome EXCEPT ![xid] = "Leased"]
          /\ pc' = "idle" /\ sockets' = sockets \ {xid}
          /\ UNCHANGED <<xid, left, elapsed>>

AckReceived(m) ==
    /\ Waiting("ack") /\ Matches(m)
    /\ Refused(m) \/ ToLease(m)
    /\ net' = net \ {m} /\ NoFault
    /\ UNCHANGED granted

(* Bug: a poll without a timeout.                                          *)
MutWaitFails ==
    /\ pc \in {"offer", "ack"}
    /\ Fail("Io", FALSE) /\ Fault
    /\ UNCHANGED <<net, granted>>

(* The deadline, looked at before the socket; a failing poll or recvfrom.  *)
WaitFails ==
    /\ pc \in {"offer", "ack"}
    /\ \/ left = 0 /\ Fail("Timeout", FALSE) /\ NoFault
       \/ left > 0 /\ Fail("Io", FALSE) /\ Fault
    /\ UNCHANGED <<net, granted>>

(* release: sent to the server of the lease, or to everybody when the      *)
(* lease names none. The caller drops the lease whatever comes of it.      *)
Release ==
    LET x == xid + 1
        to == IF lease.server = None THEN Servers ELSE {lease.server}
    IN  /\ pc = "idle" /\ lease # None /\ xid < MaxCalls
        /\ xid' = x /\ lease' = None
        /\ \/ /\ net' = net \cup { BuildRelease(s, x) : s \in to }
              /\ outcome' = [outcome EXCEPT ![x] = "Released"]
              /\ UNCHANGED <<sockets, faults>> /\ hurt' = FALSE
           \/ /\ OpenSocket(x, FALSE)
              /\ outcome' = [outcome EXCEPT ![x] = "Io"]
              /\ Fault /\ UNCHANGED net
        /\ UNCHANGED <<pc, left, elapsed, granted>>

-----------------------------------------------------------------------------
(* External: the servers and the network.                                  *)

Reply(s, m, type, addr) ==
    [to |-> "client", xid |-> m.xid, type |-> type, mac |-> m.mac,
     server |-> IF s \in Anonymous THEN None ELSE s, addr |-> addr,
     copy |-> m.copy]

Answers(s, m) ==
    s \notin Selective \/ m.server \in {None, s}

(* A server answers what it receives: DISCOVER with OFFER, REQUEST with    *)
(* ACK. As a fault it refuses, or sends no address.                        *)
Serve(s, m) ==
    LET rest == net \ {m}
        type == IF m.type = "Discover" THEN "Offer" ELSE "Ack"
        grant == [xid |-> m.xid, mac |-> m.mac, addr |-> AddrOf[s]]
    IN  /\ m.to = s
        /\ \/ /\ m.type \in {"Discover", "Request"} /\ Answers(s, m)
              /\ net' = rest \cup {Reply(s, m, type, AddrOf[s])}
              /\ granted' = IF type = "Ack" THEN granted \cup {grant} ELSE granted
              /\ NoFault
           \/ /\ m.type \in {"Discover", "Request"} /\ Answers(s, m)
              /\ \E bad \in {type, "Nak"} :
                    net' = rest \cup {Reply(s, m, bad, None)}
              /\ Fault /\ UNCHANGED granted
           \/ /\ m.type = "Release" \/ ~Answers(s, m)
              /\ net' = rest /\ NoFault /\ UNCHANGED granted
        /\ UNCHANGED client

(* With no call under way a reply finds no socket that anybody reads.      *)
Discard(m) ==
    /\ pc = "idle"
    /\ m.to = "client"
    /\ net' = net \ {m} /\ NoFault
    /\ UNCHANGED <<client, granted>>

(* A datagram arrives twice.                                               *)
Duplicate(m) ==
    /\ m.copy = 1
    /\ net' = net \cup {[m EXCEPT !.copy = 2]} /\ Fault
    /\ UNCHANGED <<client, granted>>

Lose(m) ==
    /\ net' = net \ {m} /\ Fault
    /\ UNCHANGED <<client, granted>>

(* A reply to another client of the link under the same transaction id.    *)
ForeignReply(s, type) ==
    /\ net' = net \cup {[to |-> "client", xid |-> xid, type |-> type,
                         mac |-> "other", server |-> s, addr |-> AddrOf[s],
                         copy |-> 1]}
    /\ Fault
    /\ UNCHANGED <<client, granted>>

(* Time passes. To let it pass while datagrams are on their way is a       *)
(* delay, which may cost the call its deadline.                            *)
Quiet == \A m \in net : m.xid # xid

(* Bug: the remaining time is computed without looking at the deadline.    *)
MutTick ==
    /\ pc \in {"offer", "ack"}
    /\ left' = left - 1 /\ elapsed' = elapsed + 1
    /\ hurt' = (hurt \/ ~Quiet)
    /\ UNCHANGED <<pc, xid, net, sockets, outcome, lease, granted, faults>>

Tick ==
    /\ pc \in {"offer", "ack"} /\ left > 0
    /\ left' = left - 1 /\ elapsed' = elapsed + 1
    /\ hurt' = (hurt \/ ~Quiet)
    /\ UNCHANGED <<pc, xid, net, sockets, outcome, lease, granted, faults>>

-----------------------------------------------------------------------------
Init ==
    /\ pc = "idle" /\ xid = 0 /\ left = 0 /\ elapsed = 0
    /\ net = {} /\ sockets = {}
    /\ outcome = [x \in Calls |-> "none"]
    /\ lease = None /\ granted = {} /\ faults = 0 /\ hurt = FALSE

Receive(m) ==
    /\ m.to = "client"
    /\ SkipPacket(m) \/ OfferReceived(m) \/ AckReceived(m)

ClientStep == SendDiscover \/ WaitFails

Network(m) ==
    Discard(m) \/ Duplicate(m) \/ Lose(m) \/ \E s \in Servers : Serve(s, m)

(* Every call has been made and everything sent has been dealt with.       *)
Done == pc = "idle" /\ xid = MaxCalls /\ net = {} /\ UNCHANGED vars

Next ==
    \/ Acquire \/ Release \/ ClientStep \/ Tick \/ Done
    \/ \E m \in net : Receive(m) \/ Network(m)
    \/ \E s \in Servers, type \in {"Offer", "Ack"} : ForeignReply(s, type)

(* The client is a thread that runs, and time passes. Nothing is assumed   *)
(* of the network and the servers, not even that datagrams arrive.         *)
Fairness == WF_vars(ClientStep) /\ WF_vars(Tick)

Spec == Init /\ [][Next]_vars /\ Fairness

-----------------------------------------------------------------------------
(* Properties.                                                             *)

TypeOK ==
    /\ pc \in {"idle", "opened", "offer", "ack"}
    /\ xid \in 0 .. MaxCalls
    /\ left \in 0 .. Timeout /\ elapsed \in Nat
    /\ net \subseteq Packet
    /\ sockets \subseteq Calls
    /\ outcome \in [Calls -> Outcomes]
    /\ lease \in {None} \cup [addr : Addresses \ {None}, server : ServerIds,
                              xid : Calls]
    /\ granted \subseteq [xid : 0 .. MaxCalls, mac : {"us", "other"},
                          addr : Addresses]
    /\ faults \in 0 .. MaxFaults /\ hurt \in BOOLEAN

(* Whatever else arrives, late acknowledgements of an earlier call and     *)
(* replies to other clients under the same transaction id included, the    *)
(* lease acquire returns was granted to this client in this call.          *)
LeaseIsOurs ==
    lease # None =>
        \E g \in granted :
            g.xid = lease.xid /\ g.mac = "us" /\ g.addr = lease.addr

(* An acquisition fails only for a cause: something was lost, delayed,     *)
(* repeated or refused, or another client clashed with it, while it ran.   *)
(* The exception is a second server: its offer arrives when an             *)
(* acknowledgement is expected, and acquire gives up.                      *)
FailureHasCause ==
    pc = "idle" /\ xid > 0 /\ ~hurt =>
        \/ outcome[xid] \in {"Leased", "Released"}
        \/ outcome[xid] = "NotAck" /\ Cardinality(Servers) > 1

(* No exchange outlives its deadline: both waits share one.                *)
SingleDeadline == elapsed <= Timeout

(* Between calls the only sockets still open are those of calls that left  *)
(* through the ? of a system call, of a wait or of to_lease: an exchange   *)
(* that was answered, even by a refusal, leaves none.                      *)
OnlyUnansweredLeak ==
    \A x \in sockets \ (IF pc = "idle" THEN {} ELSE {xid}) :
        outcome[x] \in {"Io", "Timeout", "NoAddress", "OtherClient"}

(* Whatever the network does, acquire returns.                             *)
AcquireEnds == (pc # "idle") ~> (pc = "idle")

=============================================================================
