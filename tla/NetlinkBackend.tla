--------------------------- MODULE NetlinkBackend ---------------------------
(***************************************************************************)
(* The rtnetlink and nl80211 backend: dumps (linux/netlink.rs,             *)
(* linux/nl80211.rs, linux/wifi.rs), acknowledged changes                  *)
(* (linux/ipconfig.rs) and the event source under `nmd monitor`.           *)
(*                                                                         *)
(* Two threads of the program use the kernel: one runs one operation at a  *)
(* time, the other the monitor. The kernel's tables change under both: a   *)
(* dump takes a datagram per recv and sees the table as it is then, and    *)
(* every change is multicast to the monitor's socket, whose buffer is      *)
(* finite. The kernel's own behaviour is external.                         *)
(*                                                                         *)
(* An object is an entry of a kernel table: kind and key (its place in the *)
(* order the operation sorts by), and what the parsers tell apart.         *)
(***************************************************************************)
EXTENDS Naturals, Sequences, FiniteSets, SequencesExt

CONSTANTS
    Objects,     \* every entry a table may hold
    Initial,     \* the entries there are at first
    Configs,     \* configurations: addr, route (or NoObject), and valid
    NoObject,
    ScanGroups,  \* ids the nl80211 "scan" multicast group may have
    Batch,       \* entries in a datagram of a dump
    QueueMax,    \* datagrams in the monitor's receive buffer
    MaxChanges,  \* bound: changes of the kernel's tables by others
    MaxOps,      \* bound: operations
    MaxFaults    \* bound: failing system calls

Kinds      == {"link", "addr", "route", "iface", "wiphy", "bss"}
Keyed      == {"link", "route"}     \* walked by key, the others by position
Multicast  == {"link", "addr", "route"}
Unsorted   == {"bss"}

ASSUME NetlinkAssumption ==
    /\ Initial \subseteq Objects /\ IsFiniteSet(Initial)
    /\ \A o \in Objects : o.kind \in Kinds /\ o.key \in Nat \ {0}
    /\ \A a, b \in Initial : a.kind = b.kind /\ a.kind \in Keyed /\ a.key = b.key => a = b
    /\ \A c \in Configs : /\ c.addr \in Objects /\ c.addr.kind = "addr"
                          /\ c.route # NoObject =>
                                c.route \in Objects /\ c.route.kind = "route"
    /\ ScanGroups \subseteq Nat \ {0} /\ Batch \in Nat \ {0}
    /\ QueueMax \in Nat \ {0} /\ {MaxChanges, MaxOps, MaxFaults} \subseteq Nat

VARIABLES
    tab,       \* external: the kernel's tables, in the kernel's order
    wifi,      \* external: whether nl80211 is there
    group,     \* external: the id of its scan group, once looked up
    scanning,  \* external: whether a scan is running
    pc,        \* the operation's thread: idle, send, recv or stuck
    todo,      \* the requests the operation still has to make
    walk,      \* the dump under way, with what it could have seen
    got,       \* the entries received so far
    ifaces,    \* the interfaces dumped before a scan or the wiphys
    res,       \* what the last operation returned
    mpc,       \* the monitor: off, ready, loop, recv, stuck, ended or failed
    source,    \* which events it has subscribed to
    pending,   \* events parsed and not yet returned, last first
    shown,     \* events returned
    queue,     \* external: datagrams in its socket
    overrun,   \* external: whether one has been dropped
    shutdown,  \* SHUTDOWN_REQUESTED
    sent,      \* messages multicast since it subscribed
    asked,     \* whether SIGINT came since it subscribed
    changes, ops, faults

kernel  == <<tab, wifi, group, scanning>>
client  == <<pc, todo, walk, got, ifaces, res, ops>>
monitor == <<mpc, source, pending, shown, queue, overrun, shutdown, sent, asked>>
vars    == <<kernel, client, monitor, changes, faults>>

NoWalk == [kind |-> "none"]
Present(k) == ToSet(tab[k])

(* The members of S among the elements of s, in their order: what a loop   *)
(* that pushes what it could parse leaves.                                 *)
Kept(s, S) ==
    LET f[i \in 0 .. Len(s)] ==
          IF i = 0 THEN <<>>
          ELSE IF s[i] \in S THEN Append(f[i - 1], s[i]) ELSE f[i - 1]
    IN  f[Len(s)]

(* How many elements of s come no later than key in the order of keys.     *)
Upto(s, key) == Cardinality({ i \in DOMAIN s : s[i].key <= key })

(* sort_by_key, which is stable.                                           *)
ByKey(s) ==
    LET f[i \in 0 .. Len(s)] ==
          IF i = 0 THEN <<>>
          ELSE InsertAt(f[i - 1], Upto(f[i - 1], s[i].key) + 1, s[i])
    IN  f[Len(s)]

-----------------------------------------------------------------------------
(* What is taken from a message: the parsers.                              *)

ParseLink(o) == o.named

ParseAddress(o) == o.family \in {"V4", "V6"}

ParseRoute(o) ==
    /\ o.family \in {"V4", "V6"} /\ o.main
    /\ o.type \in {"unicast", "blackhole", "unreachable"}

(* One entry whose information elements do not parse fails the dump.       *)
ParseSecurity(o) == o.ies = "wellformed"

Parsed(o) ==
    CASE o.kind = "link"  -> ParseLink(o)
      [] o.kind = "addr"  -> ParseAddress(o)
      [] o.kind = "route" -> ParseRoute(o)
      [] OTHER            -> TRUE

Readable == { o \in Objects : Parsed(o) }

Malformed(entries) == \E i \in DOMAIN entries :
                        entries[i].kind = "bss" /\ ~ParseSecurity(entries[i])

(* parse_network_events: a datagram longer than the buffer was truncated   *)
(* by recv, and fails as a whole.                                          *)
Truncated(datagram) == \E i \in DOMAIN datagram : datagram[i].obj.long

EventKind(m) ==
    CASE m.obj.kind = "bss"        -> IF m.del THEN "ScanAborted" ELSE "ScanResults"
      [] m.obj.kind = "addr"       -> IF m.del THEN "Removed" ELSE "Added"
      [] OTHER                     -> IF m.del THEN "Removed"
                                      ELSE IF m.create THEN "Added" ELSE "Changed"

Messages == [obj : Objects, del : BOOLEAN, create : BOOLEAN]
Tellable == { m \in Messages : Parsed(m.obj) }

ParseEvents(ms) ==
    LET good == Kept(ms, Tellable)
    IN  [i \in DOMAIN good |-> [kind |-> EventKind(good[i]), obj |-> good[i].obj]]

-----------------------------------------------------------------------------
(* External: the kernel.                                                   *)

(* A socket hears group g when bit g - 1 of the mask it was bound with is  *)
(* set. Nl80211Connection::open binds with the group's id as the mask.     *)
Bit(mask, g) == (mask \div 2^(g - 1)) % 2 = 1

Hears(kind) ==
    /\ mpc \in {"loop", "recv"}
    /\ IF kind = "scan" THEN source = "wifi" /\ Bit(group, group)
                        ELSE source = "route" /\ kind \in Multicast

Heard(o) == Hears(IF o.kind = "bss" THEN "scan" ELSE o.kind)

(* A notification joins the last datagram or is one of its own; a full     *)
(* buffer drops it, and the next recv reports that.                        *)
Notify(m) ==
    IF ~Heard(m.obj)
    THEN UNCHANGED <<queue, overrun, sent>>
    ELSE /\ sent' = Append(sent, m)
         /\ \/ /\ Len(queue) < QueueMax
               /\ queue' = Append(queue, <<m>>)
               /\ UNCHANGED overrun
            \/ /\ queue # <<>>
               /\ queue' = [queue EXCEPT ![Len(queue)] = Append(@, m)]
               /\ UNCHANGED overrun
            \/ /\ Len(queue) = QueueMax
               /\ overrun' = TRUE
               /\ UNCHANGED queue

Message(o, del, create) == [obj |-> o, del |-> del, create |-> create]

(* The dump under way, seen by the table of o gaining or losing it.        *)
Gains(w, o) == IF w.kind # o.kind THEN w
               ELSE [w EXCEPT !.during = @ \cup {o}, !.shifted = TRUE]
Loses(w, o) == IF w.kind # o.kind THEN w
               ELSE [w EXCEPT !.through = @ \ {o}, !.shifted = TRUE]

Insert(o) ==
    \E i \in 1 .. Len(tab[o.kind]) + 1 :
        /\ o.kind \in Keyed => i = Upto(tab[o.kind], o.key) + 1
        /\ tab' = [tab EXCEPT ![o.kind] = InsertAt(@, i, o)]

Delete(o) ==
    \E i \in DOMAIN tab[o.kind] :
        /\ tab[o.kind][i] = o
        /\ tab' = [tab EXCEPT ![o.kind] = RemoveAt(@, i)]

(* Entries of a table that is walked by key differ in their keys. The same *)
(* address may be there with two prefix lengths.                           *)
Free(o) == \A x \in Present(o.kind) :
              x # o /\ (o.kind \in Keyed => x.key # o.key)

(* The tables the running operation still uses. A change of another one    *)
(* that the monitor does not hear of either makes no difference.           *)
Uses ==
    UNION { CASE r.do = "dump" -> IF r.kind = "bss" THEN {"bss", "iface"} ELSE {r.kind}
              [] r.do = "scan" -> {"iface"}
              [] r.do = "resolve" -> {}
              [] OTHER -> {r.obj.kind} : r \in ToSet(todo) }

SomeoneElse(o) ==
    /\ o.kind \in Uses \/ Heard(o)
    /\ changes < MaxChanges /\ changes' = changes + 1
    /\ UNCHANGED <<wifi, group, pc, todo, got, ifaces, res, ops, mpc, source,
                   pending, shown, shutdown, asked, faults>>

KernelAdd(o) ==
    /\ SomeoneElse(o) /\ UNCHANGED scanning
    /\ o.kind # "bss" /\ Free(o)
    /\ Insert(o) /\ walk' = Gains(walk, o)
    /\ \E create \in (IF o.kind = "link" THEN BOOLEAN ELSE {TRUE}) :
          Notify(Message(o, FALSE, create))

KernelRemove(o) ==
    /\ SomeoneElse(o) /\ UNCHANGED scanning
    /\ o \in Present(o.kind)
    /\ Delete(o) /\ walk' = Loses(walk, o)
    /\ IF o.kind = "bss" THEN UNCHANGED <<queue, overrun, sent>>
                         ELSE Notify(Message(o, TRUE, FALSE))

(* A scan ends, with a result or aborted; the socket of a running dump     *)
(* drops the event.                                                        *)
ScanEnds(o, aborted) ==
    /\ SomeoneElse(o)
    /\ scanning /\ scanning' = FALSE
    /\ IF aborted \/ o \in Present("bss") THEN UNCHANGED <<tab, walk>>
                                          ELSE Insert(o) /\ walk' = Gains(walk, o)
    /\ Notify(Message(o, aborted, TRUE))

-----------------------------------------------------------------------------
(* Operations: a list of requests, each answered before the next is sent.  *)

Dump(k)      == [do |-> "dump", kind |-> k]
Resolve      == [do |-> "resolve"]
TriggerScan  == [do |-> "scan"]
Change(v, o) == [do |-> v, obj |-> o]

WifiInterfaces == <<Resolve, Dump("iface"), Dump("wiphy")>>
AccessPoints   == <<Resolve, Dump("iface"), Dump("bss")>>
ScanWifi       == <<Resolve, Dump("iface"), TriggerScan, Dump("bss")>>

(* configure_ipv4, configure_ipv6: the address, then the default route.    *)
Configure(c) ==
    <<Change("add", c.addr)>>
    \o (IF c.route = NoObject THEN <<>> ELSE <<Change("replace", c.route)>>)

(* remove_ipv4, remove_ipv6: a route that cannot be removed is ignored.    *)
RemoveConfig(c) ==
    (IF c.route = NoObject THEN <<>> ELSE <<Change("tryDel", c.route)>>)
    \o <<Change("del", c.addr)>>

Programs ==
    { <<Dump(k)>> : k \in Multicast }
    \cup { WifiInterfaces, AccessPoints, ScanWifi }
    \cup { Configure(c) : c \in { d \in Configs : d.valid } } \cup { RemoveConfig(c) : c \in Configs }

Start(p) ==
    /\ pc = "idle" /\ ops < MaxOps /\ ops' = ops + 1
    /\ pc' = "send" /\ todo' = p /\ got' = <<>> /\ ifaces' = <<>>
    /\ res' = "none"
    /\ UNCHANGED <<walk, kernel, monitor, changes, faults>>

(* A prefix length that is too long is refused before any request.         *)
Refuse(c) ==
    /\ pc = "idle" /\ ops < MaxOps /\ ops' = ops + 1
    /\ ~c.valid
    /\ res' = "InvalidConfig" /\ got' = <<>>
    /\ UNCHANGED <<pc, todo, walk, ifaces, kernel, monitor, changes, faults>>

Finish(r) == pc' = "idle" /\ todo' = <<>> /\ walk' = NoWalk /\ res' = r

(* The answer to the request is complete: the next one, or Ok.             *)
Advance ==
    /\ todo' = Tail(todo) /\ walk' = NoWalk
    /\ IF Len(todo) = 1 THEN pc' = "idle" /\ res' = "Ok"
                        ELSE pc' = "send" /\ UNCHANGED res

(* scan_interface_index: the first station, or else the first interface    *)
(* that is not a monitor.                                                  *)
ScanInterface ==
    LET stations == { i \in DOMAIN ifaces : ifaces[i].type = "station" }
        others   == { i \in DOMAIN ifaces : ifaces[i].type # "monitor" }
        best     == IF stations # {} THEN stations ELSE others
    IN  IF best = {} THEN NoObject ELSE ifaces[Min(best)]

(* open_socket_with_groups, send_all, recv_into: a socket, a bind, a       *)
(* send or a recv fails, or a datagram is longer than the buffer and what  *)
(* is left of it does not parse.                                           *)
Fails ==
    /\ pc \in {"send", "recv"} /\ faults < MaxFaults /\ faults' = faults + 1
    /\ \/ Finish("Io")
       \/ pc = "recv" /\ Finish("Malformed")
    /\ UNCHANGED <<got, ifaces, ops, kernel, monitor, changes>>

(* The kernel answers in the call of send: a dump begins, the family is    *)
(* looked up. Without nl80211 it answers NLMSG_ERROR, which                *)
(* resolve_nl80211_family does not look at: it waits for ever.             *)
SendDump ==
    LET k == Head(todo).kind IN
    /\ pc = "send" /\ Head(todo).do = "dump"
    /\ k = "bss" => ScanInterface # NoObject
    /\ IF k = "bss" /\ ScanInterface \notin Present("iface")
       THEN Finish("Kernel") /\ UNCHANGED got
       ELSE /\ pc' = "recv" /\ got' = <<>>
            /\ walk' = [kind |-> k, pos |-> 0, through |-> Present(k),
                        during |-> Present(k), shifted |-> FALSE]
            /\ UNCHANGED <<todo, res>>
    /\ UNCHANGED <<ifaces, ops, kernel, monitor, changes, faults>>

ResolveFamily ==
    /\ pc = "send" /\ Head(todo).do = "resolve"
    /\ IF wifi THEN Advance ELSE pc' = "stuck" /\ UNCHANGED <<todo, walk, res>>
    /\ UNCHANGED <<got, ifaces, ops, kernel, monitor, changes, faults>>

NoScanInterface ==
    /\ pc = "send" /\ ScanInterface = NoObject
    /\ Head(todo) \in {TriggerScan, Dump("bss")}
    /\ Finish("NoInterface")
    /\ UNCHANGED <<got, ifaces, ops, kernel, monitor, changes, faults>>

(* trigger_scan: busy, gone, or started; scan_wifi dumps the cache next,   *)
(* without waiting for the results.                                        *)
SendTrigger ==
    /\ pc = "send" /\ Head(todo).do = "scan" /\ ScanInterface # NoObject
    /\ IF scanning \/ ScanInterface \notin Present("iface")
       THEN Finish("Kernel") /\ UNCHANGED scanning
       ELSE Advance /\ scanning' = TRUE
    /\ UNCHANGED <<got, ifaces, ops, tab, wifi, group, monitor, changes, faults>>

(* What the next recv of a dump returns: the entries after the last one,   *)
(* by key or by position.                                                  *)
Chunk ==
    LET t    == tab[walk.kind]
        skip == IF walk.kind \in Keyed THEN Upto(t, walk.pos) ELSE walk.pos
        last == IF skip + Batch < Len(t) THEN skip + Batch ELSE Len(t)
    IN  SubSeq(t, skip + 1, last)

Sorted(k, s) == IF k \in Unsorted THEN s ELSE ByKey(s)

Accept(chunk) ==
    /\ got' = got \o Kept(chunk, Readable)
    /\ walk' = [walk EXCEPT !.pos = IF walk.kind \in Keyed THEN chunk[Len(chunk)].key
                                    ELSE walk.pos + Len(chunk)]
    /\ UNCHANGED <<pc, todo, res, ifaces>>

(* lookup_wiphy: an interface whose wiphy is gone has no capabilities.     *)
Merge(wiphys) ==
    [i \in DOMAIN ifaces |->
        [ifaces[i] EXCEPT !.caps = \E w \in ToSet(wiphys) : w.key = ifaces[i].wiphy]]

(* NLMSG_DONE: sorted, kept for the next request or returned.              *)
Done ==
    /\ got' = Sorted(walk.kind, got)
    /\ ifaces' = CASE walk.kind = "iface" -> got'
                   [] walk.kind = "wiphy" -> Merge(got')
                   [] OTHER               -> ifaces
    /\ Advance

(* Bug: one recv is taken for the whole dump.                              *)
MutRecvDump ==
    /\ pc = "recv"
    /\ IF Chunk # <<>> /\ walk.pos = 0 THEN Accept(Chunk)
       ELSE IF Malformed(got) THEN Finish("Malformed") /\ UNCHANGED <<got, ifaces>>
       ELSE Done
    /\ UNCHANGED <<ops, kernel, monitor, changes, faults>>

(* transact_dump collects every datagram; dump_scan looks inside last.     *)
RecvDump ==
    /\ pc = "recv"
    /\ IF Chunk # <<>> THEN Accept(Chunk)
       ELSE IF Malformed(got) THEN Finish("Malformed") /\ UNCHANGED <<got, ifaces>>
       ELSE Done
    /\ UNCHANGED <<ops, kernel, monitor, changes, faults>>

(* transact_rtnetlink: the kernel makes the change or refuses it, and the  *)
(* error code of its acknowledgement is the answer. RTM_NEWADDR is         *)
(* exclusive; RTM_NEWROUTE replaces a route to the same destination.       *)
Refused ==
    /\ Finish("Kernel")
    /\ UNCHANGED <<tab, queue, overrun, sent>>

Made(o, del, create) ==
    /\ Advance
    /\ Notify(Message(o, del, create))

Transact ==
    LET verb == Head(todo).do
        o    == Head(todo).obj
        there == o \in Present(o.kind)
        same == { x \in Present(o.kind) : x.key = o.key }
    IN  /\ pc = "send" /\ verb \in {"add", "replace", "del", "tryDel"}
        /\ \/ verb = "add" /\ there /\ Refused
           \/ verb = "add" /\ ~there /\ Insert(o) /\ Made(o, FALSE, TRUE)
           \/ verb = "replace" /\ Refused      \* unreachable gateway
           \/ verb = "replace" /\ same = {} /\ Insert(o) /\ Made(o, FALSE, TRUE)
           \/ /\ verb = "replace"
              /\ \E i \in DOMAIN tab[o.kind] :
                    /\ tab[o.kind][i] \in same
                    /\ tab' = [tab EXCEPT ![o.kind][i] = o]
              /\ Made(o, FALSE, FALSE)
           \/ verb \in {"del", "tryDel"} /\ there /\ Delete(o) /\ Made(o, TRUE, FALSE)
           \/ verb = "del" /\ ~there /\ Refused
           \/ /\ verb = "tryDel" /\ ~there
              /\ Advance /\ UNCHANGED <<tab, queue, overrun, sent>>
        /\ UNCHANGED <<wifi, group, scanning, got, ifaces, ops, mpc, source, pending,
                       shown, shutdown, asked, changes, faults>>

-----------------------------------------------------------------------------
(* The monitor: RtnetlinkEventSource, and WifiEventSource, which has the   *)
(* same loop over another socket.                                          *)

InstallHandler ==
    /\ mpc = "off" /\ mpc' = "ready"
    /\ UNCHANGED <<source, pending, shown, queue, overrun, shutdown, sent, asked,
                   kernel, client, changes, faults>>

RequestShutdown ==
    /\ mpc \notin {"off", "ended", "failed"}
    /\ shutdown' = TRUE
    /\ asked' = (asked \/ mpc # "ready")
    /\ UNCHANGED <<mpc, source, pending, shown, queue, overrun, sent,
                   kernel, client, changes, faults>>

(* open_link_event_source clears the flag; WifiEventSource::open does not. *)
OpenSource(s) ==
    /\ mpc = "ready"
    /\ source' = s
    /\ shutdown' = (s = "wifi" /\ shutdown)
    /\ asked' = shutdown'
    /\ \/ /\ mpc' = IF s = "wifi" /\ ~wifi THEN "stuck" ELSE "loop"
          /\ group' \in (IF s = "wifi" /\ wifi THEN ScanGroups ELSE {group})
          /\ UNCHANGED faults
       \/ /\ faults < MaxFaults /\ faults' = faults + 1
          /\ mpc' = "failed" /\ UNCHANGED group
    /\ UNCHANGED <<pending, shown, queue, overrun, sent, tab, wifi, scanning,
                   client, changes>>

MStays == UNCHANGED <<source, overrun, shutdown, sent, asked, kernel, client,
                      changes, faults>>

(* next_event: pending events, then the flag, then the socket.             *)
Show ==
    /\ mpc = "loop" /\ pending # <<>>
    /\ shown' = Append(shown, pending[Len(pending)])
    /\ pending' = SubSeq(pending, 1, Len(pending) - 1)
    /\ UNCHANGED <<mpc, queue>> /\ MStays

CheckShutdown ==
    /\ mpc = "loop" /\ pending = <<>>
    /\ mpc' = IF shutdown THEN "ended" ELSE "recv"
    /\ UNCHANGED <<pending, shown, queue>> /\ MStays

(* Bug: an overrun is retried like an empty buffer.                        *)
MutRecvEvents ==
    /\ mpc = "recv" /\ queue # <<>>
    /\ queue' = Tail(queue)
    /\ IF Truncated(queue[1])
       THEN mpc' = "failed" /\ UNCHANGED pending
       ELSE mpc' = "loop" /\ pending' = Reverse(ParseEvents(queue[1]))
    /\ UNCHANGED shown /\ MStays

RecvEvents ==
    /\ mpc = "recv" /\ (queue # <<>> \/ overrun)
    /\ IF overrun \/ Truncated(queue[1])
       THEN mpc' = "failed" /\ UNCHANGED <<pending, queue>>
       ELSE /\ mpc' = "loop" /\ queue' = Tail(queue)
            /\ pending' = Reverse(ParseEvents(queue[1]))
    /\ UNCHANGED shown /\ MStays

(* Bug: after the sleep the socket is read again, the flag is not.         *)
MutWouldBlock ==
    /\ mpc = "recv" /\ queue = <<>> /\ ~overrun
    /\ mpc' = "recv"
    /\ UNCHANGED <<pending, shown, queue>> /\ MStays

(* Nothing there: end, or sleep and start over.                            *)
WouldBlock ==
    /\ mpc = "recv" /\ queue = <<>> /\ ~overrun
    /\ mpc' = IF shutdown THEN "ended" ELSE "loop"
    /\ UNCHANGED <<pending, shown, queue>> /\ MStays

-----------------------------------------------------------------------------

Init ==
    /\ tab = [k \in Kinds |-> ByKey(SetToSeq({ o \in Initial : o.kind = k }))]
    /\ wifi \in BOOLEAN /\ group = 0
    /\ scanning = FALSE
    /\ pc = "idle" /\ todo = <<>> /\ walk = NoWalk /\ got = <<>> /\ ifaces = <<>>
    /\ res = "none"
    /\ mpc = "off" /\ source = "none" /\ pending = <<>> /\ shown = <<>>
    /\ queue = <<>> /\ overrun = FALSE /\ shutdown = FALSE
    /\ sent = <<>> /\ asked = FALSE
    /\ changes = 0 /\ ops = 0 /\ faults = 0

MonitorStep == Show \/ CheckShutdown \/ RecvEvents \/ WouldBlock

Next ==
    \/ \E o \in Objects : KernelAdd(o) \/ KernelRemove(o)
    \/ \E o \in Objects, aborted \in BOOLEAN : o.kind = "bss" /\ ScanEnds(o, aborted)
    \/ \E p \in Programs : Start(p)
    \/ \E c \in Configs : Refuse(c)
    \/ Fails \/ SendDump \/ ResolveFamily \/ NoScanInterface \/ SendTrigger
    \/ RecvDump \/ Transact
    \/ InstallHandler \/ RequestShutdown
    \/ \E s \in {"route", "wifi"} : OpenSource(s)
    \/ MonitorStep

(* The monitor's thread keeps running, and its sleep ends.                 *)
Spec == Init /\ [][Next]_vars /\ WF_vars(MonitorStep)

-----------------------------------------------------------------------------
(* Properties.                                                             *)

Ends == walk.kind # "none" /\ walk' = NoWalk /\ res' \in {"none", "Ok"}

(* However the table changes during a dump, what it returns was in the     *)
(* table at some time during it. An entry that the program reads and that  *)
(* was there throughout is returned, exactly once and in order, when the   *)
(* kernel walks by key, or when the table kept still: the datagrams of one *)
(* dump are put together whole (get_links, get_addresses, get_routes,      *)
(* transact_dump). An entry shifted by another's removal may be missing,   *)
(* since NLM_F_DUMP_INTR is not looked at.                                 *)
DumpIsFair ==
    [][ Ends =>
          LET back == ToSet(got') IN
          /\ back \subseteq walk.during
          /\ (walk.kind \in Keyed \/ ~walk.shifted) =>
                /\ { o \in walk.through : Parsed(o) } \subseteq back
                /\ Len(got') = Cardinality(back)
                /\ walk.kind \notin Unsorted =>
                     \A i, j \in DOMAIN got' : i < j => got'[i].key <= got'[j].key
      ]_vars

(* What the monitor shows is always a prefix, without a gap, of what the   *)
(* kernel announced since it subscribed: nothing is reordered within a     *)
(* datagram or across them, and after an overrun nothing more is shown. As *)
(* long as there was none, nothing is lost on the way either. It ends      *)
(* without an error only after SIGINT.                                     *)
EventsInOrder ==
    /\ IsPrefix(shown, ParseEvents(sent))
    /\ (mpc \in {"loop", "recv"} /\ ~overrun) =>
         shown \o Reverse(pending) \o ParseEvents(FlattenSeq(queue)) = ParseEvents(sent)
    /\ mpc = "ended" => asked

(* SIGINT stops a monitor that is open, whether it is idle or busy.        *)
ShutdownStops == (asked /\ mpc \in {"loop", "recv"}) ~> mpc \in {"ended", "failed"}

=============================================================================
