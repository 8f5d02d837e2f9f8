-------------------- MODULE LinuxActivationEngine_proofs --------------------
(***************************************************************************)
(* Proofs about LinuxActivationEngine, for every set of profiles and every *)
(* configuration of them.                                                  *)
(***************************************************************************)
EXTENDS LinuxActivationEngine, TLAPS

-----------------------------------------------------------------------------
(* Lists of calls and the resources they visit.                            *)

(* The parts of a nonempty list.                                           *)
LEMMA HeadAndTail ==
    ASSUME NEW S, NEW t \in Seq(S), t # <<>>
    PROVE  /\ Len(t) \in Nat \ {0}
           /\ DOMAIN t = 1..Len(t)
           /\ Head(t) = t[1] /\ Head(t) \in S
           /\ Tail(t) \in Seq(S)
           /\ Len(Tail(t)) = Len(t) - 1
           /\ DOMAIN Tail(t) = 1..(Len(t) - 1)
           /\ \A i \in 1..(Len(t) - 1) : Tail(t)[i] = t[i + 1]
OBVIOUS

(* A list visits what its first call and the rest of it visit.             *)
LEMMA TargetsTail ==
    ASSUME NEW t \in Seq(Calls), t # <<>>
    PROVE  Targets(t) = {Head(t).res} \cup Targets(Tail(t))
<1>1. ASSUME NEW i \in DOMAIN t
      PROVE  t[i].res \in {Head(t).res} \cup Targets(Tail(t))
  <2>1. CASE i = 1
    BY <2>1, HeadAndTail
  <2>2. CASE i # 1
    <3>1. i - 1 \in DOMAIN Tail(t) /\ Tail(t)[i - 1] = t[i]
      BY <2>2, HeadAndTail
    <3> QED BY <3>1 DEF Targets
  <2> QED BY <2>1, <2>2
<1>2. ASSUME NEW i \in DOMAIN Tail(t)
      PROVE  Tail(t)[i].res \in Targets(t)
  <2>1. i + 1 \in DOMAIN t /\ Tail(t)[i] = t[i + 1]
    BY HeadAndTail
  <2> QED BY <2>1 DEF Targets
<1>3. Head(t).res \in Targets(t)
  BY HeadAndTail DEF Targets
<1> QED BY <1>1, <1>2, <1>3 DEF Targets

(* The elements of a concatenation.                                        *)
LEMMA Concat ==
    ASSUME NEW S, NEW s \in Seq(S), NEW t \in Seq(S)
    PROVE  /\ s \o t \in Seq(S)
           /\ Len(s) \in Nat /\ Len(t) \in Nat
           /\ Len(s \o t) = Len(s) + Len(t)
           /\ DOMAIN s = 1..Len(s) /\ DOMAIN t = 1..Len(t)
           /\ DOMAIN (s \o t) = 1..(Len(s) + Len(t))
           /\ \A i \in 1..Len(s) : (s \o t)[i] = s[i]
           /\ \A i \in 1..Len(t) : (s \o t)[Len(s) + i] = t[i]
           /\ \A i \in (Len(s) + 1)..(Len(s) + Len(t)) :
                  (s \o t)[i] = t[i - Len(s)] /\ i - Len(s) \in 1..Len(t)
OBVIOUS

(* Two lists one after the other visit what each of them visits.           *)
LEMMA TargetsConcat ==
    ASSUME NEW s \in Seq(Calls), NEW t \in Seq(Calls)
    PROVE  /\ s \o t \in Seq(Calls)
           /\ Targets(s \o t) = Targets(s) \cup Targets(t)
<1> DEFINE u == s \o t
<1>1. /\ u \in Seq(Calls)
      /\ Len(s) \in Nat /\ Len(t) \in Nat
      /\ DOMAIN s = 1..Len(s) /\ DOMAIN t = 1..Len(t)
      /\ DOMAIN u = 1..(Len(s) + Len(t))
      /\ \A i \in 1..Len(s) : u[i] = s[i]
      /\ \A i \in 1..Len(t) : u[Len(s) + i] = t[i]
      /\ \A i \in (Len(s) + 1)..(Len(s) + Len(t)) :
             u[i] = t[i - Len(s)] /\ i - Len(s) \in 1..Len(t)
  BY Concat
<1> HIDE DEF u
<1>2. ASSUME NEW i \in DOMAIN u PROVE u[i].res \in Targets(s) \cup Targets(t)
  <2>1. CASE i <= Len(s)
    BY <1>1, <2>1 DEF Targets
  <2>2. CASE ~(i <= Len(s))
    <3>1. i \in (Len(s) + 1)..(Len(s) + Len(t))
      BY <1>1, <2>2
    <3> QED BY <1>1, <3>1 DEF Targets
  <2> QED BY <2>1, <2>2
<1>3. ASSUME NEW i \in DOMAIN s PROVE s[i].res \in Targets(u)
  <2>1. i \in DOMAIN u /\ u[i] = s[i]
    BY <1>1
  <2> QED BY <2>1 DEF Targets
<1>4. ASSUME NEW i \in DOMAIN t PROVE t[i].res \in Targets(u)
  <2>1. Len(s) + i \in DOMAIN u /\ u[Len(s) + i] = t[i]
    BY <1>1
  <2> QED BY <2>1 DEF Targets
<1>5. Targets(u) = Targets(s) \cup Targets(t)
  BY <1>2, <1>3, <1>4 DEF Targets
<1> QED BY <1>1, <1>5 DEF u

(* A step of a known kind on a known resource is a call.                   *)
LEMMA StepCall ==
    ASSUME NEW o \in Ops, NEW r \in Resources
    PROVE  /\ Step(o, r) \in Calls
           /\ Step(o, r).op = o
           /\ Step(o, r).res = r
BY DEF Step, Calls

(* A list of one call visits the resource of that call.                    *)
LEMMA TargetsOne ==
    ASSUME NEW x \in Calls
    PROVE  /\ <<x>> \in Seq(Calls) /\ Targets(<<x>>) = {x.res}
           /\ <<>> \in Seq(Calls) /\ Targets(<<>>) = {}
<1>1. <<x>> \in Seq(Calls) /\ DOMAIN <<x>> = {1} /\ <<x>>[1] = x
  OBVIOUS
<1>2. <<>> \in Seq(Calls) /\ DOMAIN <<>> = {}
  OBVIOUS
<1> QED BY <1>1, <1>2 DEF Targets

(* The same for a step.                                                    *)
LEMMA OneCall ==
    ASSUME NEW o \in Ops, NEW r \in Resources
    PROVE  <<Step(o, r)>> \in Seq(Calls) /\ Targets(<<Step(o, r)>>) = {r}
<1>1. Step(o, r) \in Calls /\ Step(o, r).res = r
  BY StepCall
<1> QED BY <1>1, TargetsOne

(* The empty list visits nothing.                                          *)
LEMMA EmptyCalls == <<>> \in Seq(Calls) /\ Targets(<<>>) = {}
<1>1. <<>> \in Seq(Calls) /\ DOMAIN <<>> = {}
  OBVIOUS
<1> QED BY <1>1 DEF Targets

RouteSet(rs) == { Route(rs[i]) : i \in DOMAIN rs }

(* A call per route visits exactly the routes of the list.                 *)
LEMMA EachRoute ==
    ASSUME NEW o \in Ops, NEW rs \in Seq(Routes)
    PROVE  /\ Each(o, rs) \in Seq(Calls)
           /\ Len(Each(o, rs)) = Len(rs)
           /\ DOMAIN Each(o, rs) = DOMAIN rs
           /\ \A i \in DOMAIN rs :
                  Each(o, rs)[i].op = o /\ Each(o, rs)[i].res = Route(rs[i])
           /\ Targets(Each(o, rs)) = RouteSet(rs)
<1>1. Len(rs) \in Nat /\ DOMAIN rs = 1..Len(rs)
  OBVIOUS
<1>2. \A i \in DOMAIN rs : Route(rs[i]) \in Resources
  BY <1>1 DEF Resources, Shared
<1>3. \A i \in DOMAIN rs : /\ Step(o, Route(rs[i])) \in Calls
                           /\ Step(o, Route(rs[i])).op = o
                           /\ Step(o, Route(rs[i])).res = Route(rs[i])
  BY <1>2, StepCall
<1>4. /\ Each(o, rs) = [i \in 1..Len(rs) |-> Step(o, Route(rs[i]))]
      /\ DOMAIN Each(o, rs) = 1..Len(rs)
  BY DEF Each
<1>5. \A i \in DOMAIN rs : Each(o, rs)[i] = Step(o, Route(rs[i]))
  BY <1>1, <1>4
<1>6. Each(o, rs) \in [1..Len(rs) -> Calls]
  BY <1>1, <1>3, <1>4
<1>7. Each(o, rs) \in Seq(Calls) /\ Len(Each(o, rs)) = Len(rs)
  <2> DEFINE e == Each(o, rs)
  <2> HIDE DEF e
  <2>1. e \in [1..Len(rs) -> Calls]
    BY <1>6 DEF e
  <2>2. e \in Seq(Calls) /\ Len(e) = Len(rs)
    BY <1>1, <2>1
  <2> QED BY <2>2 DEF e
<1>8. Targets(Each(o, rs)) = RouteSet(rs)
  BY <1>1, <1>3, <1>4, <1>5 DEF Targets, RouteSet
<1> QED BY <1>1, <1>3, <1>4, <1>5, <1>7, <1>8

-----------------------------------------------------------------------------
(* What the programs visit.                                                *)

R4(p, w) == RouteSet(Routes4(p, w))
R6(p) == RouteSet(Routes6(p))
A4(p) == Address(Config[p].v4.address)
A6(p) == Address(Config[p].v6.address)
Flags == [gateway : BOOLEAN, dns : BOOLEAN]
IpStates == [v4 : BOOLEAN, lease : BOOLEAN, dns : BOOLEAN, v6 : BOOLEAN]

(* The resources a profile names are resources of the host.                *)
LEMMA ProfileResources ==
    ASSUME NEW p \in Profiles
    PROVE  /\ Config[p].v4.routes \in Seq(Routes)
           /\ Config[p].v6.routes \in Seq(Routes)
           /\ Config[p].v4.method \in Methods
           /\ A4(p) \in Resources /\ A6(p) \in Resources
           /\ Resolv \in Resources /\ Route(Default4) \in Resources
           /\ Lease(p) \in Resources
<1>1. Config[p].v4 \in IpConfig /\ Config[p].v6 \in IpConfig
  BY EngineAssumption
<1>2. /\ Config[p].v4.routes \in Seq(Routes) /\ Config[p].v6.routes \in Seq(Routes)
      /\ Config[p].v4.address \in Addresses /\ Config[p].v6.address \in Addresses
      /\ Config[p].v4.method \in Methods
  BY <1>1 DEF IpConfig
<1>3. Default4 \in Routes
  BY EngineAssumption
<1> QED BY <1>2, <1>3 DEF A4, A6, Resources, Shared

(* So are wpa_supplicant's networks.                                       *)
LEMMA NetworkResource == \A n \in Networks : Network(n) \in Resources
BY DEF Resources

(* The route lists of a profile hold routes.                               *)
LEMMA RouteLists ==
    ASSUME NEW p \in Profiles, NEW w \in Flags
    PROVE  Routes4(p, w) \in Seq(Routes) /\ Routes6(p) \in Seq(Routes)
<1>1. {Default4, Default6} \subseteq Routes
  BY EngineAssumption
<1>2. /\ <<Default4>> \in Seq(Routes) /\ <<Default6>> \in Seq(Routes)
      /\ <<>> \in Seq(Routes)
  BY <1>1
<1>3. /\ If(w.gateway, <<Default4>>) \in Seq(Routes)
      /\ If(Config[p].v6.gateway, <<Default6>>) \in Seq(Routes)
  BY <1>2 DEF If
<1> QED BY <1>3, ProfileResources, Concat DEF Routes4, Routes6

(* An optional part visits its resources or nothing.                       *)
LEMMA IfCalls ==
    ASSUME NEW s \in Seq(Calls), NEW b
    PROVE  /\ If(b, s) \in Seq(Calls)
           /\ Targets(If(b, s)) = IF b THEN Targets(s) ELSE {}
BY EmptyCalls DEF If

(* What LinuxIpEngine::teardown visits, as a set: the parts that are       *)
(* recorded, each with all its routes and its address.                     *)
LEMMA TargetsTeardown ==
    ASSUME NEW p \in Profiles, NEW s \in IpStates, NEW w \in Flags
    PROVE  /\ Teardown(p, s, w) \in Seq(Calls)
           /\ Targets(Teardown(p, s, w)) =
                  (IF s.dns THEN {Resolv} ELSE {})
                  \cup (IF s.v4
                        THEN R4(p, w) \cup (IF s.lease THEN {Lease(p)} ELSE {})
                             \cup (IF w.gateway \/ Config[p].v4.via
                                   THEN {Route(Default4)} ELSE {})
                             \cup {A4(p)}
                        ELSE {})
                  \cup (IF s.v6 THEN R6(p) \cup {A6(p)} ELSE {})
<1> DEFINE d  == << Step("dns_owner", Resolv) >>
           e4 == Each("remove_route", Routes4(p, w))
           l  == << Step("release", Lease(p)) >>
           g  == << Step("remove_route", Route(Default4)) >>
           a4 == << Step("remove_address", A4(p)) >>
           e6 == Each("remove_route", Routes6(p))
           a6 == << Step("remove_address", A6(p)) >>
           dd == If(s.dns, d)
           ll == If(s.lease, l)
           gg == If(w.gateway \/ Config[p].v4.via, g)
           t4 == e4 \o ll \o gg \o a4
           t6 == e6 \o a6
<1>1. /\ Resolv \in Resources /\ Lease(p) \in Resources
      /\ Route(Default4) \in Resources /\ A4(p) \in Resources /\ A6(p) \in Resources
  BY ProfileResources
<1>2. /\ d \in Seq(Calls) /\ Targets(d) = {Resolv}
      /\ l \in Seq(Calls) /\ Targets(l) = {Lease(p)}
      /\ g \in Seq(Calls) /\ Targets(g) = {Route(Default4)}
      /\ a4 \in Seq(Calls) /\ Targets(a4) = {A4(p)}
      /\ a6 \in Seq(Calls) /\ Targets(a6) = {A6(p)}
  <2>1. /\ "dns_owner" \in Ops /\ "release" \in Ops
        /\ "remove_route" \in Ops /\ "remove_address" \in Ops
    BY DEF Ops
  <2> QED BY <1>1, <2>1, OneCall
<1>3. /\ e4 \in Seq(Calls) /\ Targets(e4) = R4(p, w)
      /\ e6 \in Seq(Calls) /\ Targets(e6) = R6(p)
  <2>1. "remove_route" \in Ops
    BY DEF Ops
  <2> QED BY <2>1, RouteLists, EachRoute DEF R4, R6
<1>4. /\ dd \in Seq(Calls) /\ Targets(dd) = IF s.dns THEN {Resolv} ELSE {}
      /\ ll \in Seq(Calls) /\ Targets(ll) = IF s.lease THEN {Lease(p)} ELSE {}
      /\ gg \in Seq(Calls)
      /\ Targets(gg) = IF w.gateway \/ Config[p].v4.via
                       THEN {Route(Default4)} ELSE {}
  <2> HIDE DEF d, l, g
  <2> QED BY <1>2, IfCalls
<1> HIDE DEF d, l, g, a4, a6, e4, e6, dd, ll, gg
<1>5. /\ t4 \in Seq(Calls)
      /\ Targets(t4) = Targets(e4) \cup Targets(ll) \cup Targets(gg) \cup Targets(a4)
  <2>1. /\ e4 \o ll \in Seq(Calls)
        /\ Targets(e4 \o ll) = Targets(e4) \cup Targets(ll)
    BY <1>3, <1>4, TargetsConcat
  <2>2. /\ (e4 \o ll) \o gg \in Seq(Calls)
        /\ Targets((e4 \o ll) \o gg) = Targets(e4) \cup Targets(ll) \cup Targets(gg)
    BY <1>4, <2>1, TargetsConcat
  <2> QED BY <1>2, <2>2, TargetsConcat
<1>6. t6 \in Seq(Calls) /\ Targets(t6) = Targets(e6) \cup Targets(a6)
  BY <1>2, <1>3, TargetsConcat
<1>7. Teardown(p, s, w) = (dd \o If(s.v4, t4)) \o If(s.v6, t6)
  BY DEF Teardown, dd, d, e4, ll, l, gg, g, a4, e6, a6, A4, A6
<1> HIDE DEF t4, t6
<1>8. /\ If(s.v4, t4) \in Seq(Calls) /\ If(s.v6, t6) \in Seq(Calls)
      /\ Targets(If(s.v4, t4)) = IF s.v4 THEN Targets(t4) ELSE {}
      /\ Targets(If(s.v6, t6)) = IF s.v6 THEN Targets(t6) ELSE {}
  BY <1>5, <1>6, IfCalls
<1>9. /\ dd \o If(s.v4, t4) \in Seq(Calls)
      /\ Targets(dd \o If(s.v4, t4)) = Targets(dd) \cup Targets(If(s.v4, t4))
  BY <1>4, <1>8, TargetsConcat
<1>10. /\ (dd \o If(s.v4, t4)) \o If(s.v6, t6) \in Seq(Calls)
       /\ Targets((dd \o If(s.v4, t4)) \o If(s.v6, t6)) =
             Targets(dd) \cup Targets(If(s.v4, t4)) \cup Targets(If(s.v6, t6))
  BY <1>8, <1>9, TargetsConcat
<1> QED BY <1>2, <1>3, <1>4, <1>5, <1>6, <1>7, <1>8, <1>10

-----------------------------------------------------------------------------
(* The inductive invariant.                                                *)

(* Calls that bring the IP configuration of profile p up, with s recorded  *)
(* so far: a route comes after the record that makes a teardown visit it.  *)
Programmed(t, p, s, w) ==
    \A i \in DOMAIN t :
        /\ t[i].op \in {"configure_ipv4", "configure_ipv6", "add_route",
                        "dns_check", "dns_write"}
        /\ t[i].op = "configure_ipv4" => t[i].res = A4(p)
        /\ t[i].op = "configure_ipv6" => t[i].res = A6(p)
        /\ t[i].op = "add_route" =>
              \/ /\ t[i].res \in R4(p, w)
                 /\ s.v4 \/ \E j \in DOMAIN t : j < i /\ t[j].op = "configure_ipv4"
              \/ /\ t[i].res \in R6(p)
                 /\ s.v6 \/ \E j \in DOMAIN t : j < i /\ t[j].op = "configure_ipv6"

(* The three slots: who holds a connection, and who works on which.        *)
SlotsAgree ==
    /\ slot # None => mode = "idle" /\ slot = job
    /\ mode # "idle" => job \in Profiles
    /\ network \in {None, job}
    /\ mode = "idle" => slot = network
    /\ job # None => link \in Networks

(* While the link comes up only the network can be in place, and it is not *)
(* before it has been added; nothing of the IP configuration is recorded.  *)
LinkComing ==
    mode = "up" /\ network # job =>
        /\ ip = NoIp
        /\ \/ /\ todo = LinkUp(link)
              /\ \A r \in Resources : host[r] \in Profiles => r \in residue
           \/ todo \in {Tail(LinkUp(link)), Tail(Tail(LinkUp(link)))}

(* With the link up, either the lease is next and nothing is recorded yet, *)
(* or the rest of the program is known.                                    *)
IpComing ==
    mode = "up" /\ network = job =>
        \/ /\ todo = << Step("acquire", Lease(job)) >>
           /\ ip = NoIp
        \/ Programmed(todo, job, ip, want)

(* A teardown ends with the removal of the network; until then the         *)
(* supplicant engine's slot may be taken.                                  *)
Closes(t, n) ==
    /\ \A i \in DOMAIN t : t[i].op = "disconnect" => t[i].res = Network(n)
    /\ t # <<>> => t[Len(t)] = Step("remove_network", Network(n))

LinkGoing ==
    mode \in {"undo", "down"} =>
        /\ Closes(todo, link)
        /\ network # None => todo # <<>>

IInv ==
    /\ TypeOK
    /\ SlotsAgree
    /\ LinkComing
    /\ IpComing
    /\ LinkGoing
    /\ NothingForgotten

-----------------------------------------------------------------------------
(* How the lists of calls evolve.                                          *)

(* After its first call the rest of a program is in order, given what that *)
(* call recorded.                                                          *)
LEMMA ProgrammedTail ==
    ASSUME NEW t \in Seq(Calls), t # <<>>, NEW p, NEW s, NEW n, NEW w,
           Programmed(t, p, s, w),
           s.v4 \/ Head(t).op = "configure_ipv4" => n.v4,
           s.v6 \/ Head(t).op = "configure_ipv6" => n.v6
    PROVE  Programmed(Tail(t), p, n, w)
<1> DEFINE u == Tail(t)
<1>1. /\ Len(t) \in Nat \ {0} /\ DOMAIN t = 1..Len(t) /\ Head(t) = t[1]
      /\ DOMAIN u = 1..(Len(t) - 1)
      /\ \A i \in 1..(Len(t) - 1) : u[i] = t[i + 1]
  BY HeadAndTail
<1> HIDE DEF u
<1>2. ASSUME NEW i \in DOMAIN u, u[i].op = "add_route"
      PROVE  \/ /\ u[i].res \in R4(p, w)
                /\ n.v4 \/ \E j \in DOMAIN u : j < i /\ u[j].op = "configure_ipv4"
             \/ /\ u[i].res \in R6(p)
                /\ n.v6 \/ \E j \in DOMAIN u : j < i /\ u[j].op = "configure_ipv6"
  <2>1. i + 1 \in DOMAIN t /\ u[i] = t[i + 1]
    BY <1>1
  <2>2. ASSUME NEW o, NEW j \in DOMAIN t, j < i + 1, t[j].op = o
        PROVE  Head(t).op = o \/ \E k \in DOMAIN u : k < i /\ u[k].op = o
    <3>1. CASE j = 1
      BY <1>1, <2>2, <3>1
    <3>2. CASE j # 1
      <4>1. j - 1 \in DOMAIN u /\ j - 1 < i /\ u[j - 1] = t[j]
        BY <1>1, <2>2, <3>2
      <4> QED BY <2>2, <4>1
    <3> QED BY <3>1, <3>2
  <2>3. \/ /\ u[i].res \in R4(p, w)
           /\ s.v4 \/ \E j \in DOMAIN t : j < i + 1 /\ t[j].op = "configure_ipv4"
        \/ /\ u[i].res \in R6(p)
           /\ s.v6 \/ \E j \in DOMAIN t : j < i + 1 /\ t[j].op = "configure_ipv6"
    BY <1>2, <2>1 DEF Programmed
  <2> QED BY <2>2, <2>3
<1>3. ASSUME NEW i \in DOMAIN u
      PROVE  /\ u[i].op \in {"configure_ipv4", "configure_ipv6", "add_route",
                              "dns_check", "dns_write"}
             /\ u[i].op = "configure_ipv4" => u[i].res = A4(p)
             /\ u[i].op = "configure_ipv6" => u[i].res = A6(p)
  <2>1. i + 1 \in DOMAIN t /\ u[i] = t[i + 1]
    BY <1>1
  <2> QED BY <2>1 DEF Programmed
<1>4. Programmed(u, p, n, w)
  BY <1>2, <1>3 DEF Programmed
<1> QED BY <1>4 DEF u

(* Two programs in order make one program in order.                        *)
LEMMA ProgrammedConcat ==
    ASSUME NEW t \in Seq(Calls), NEW u \in Seq(Calls), NEW p, NEW s, NEW w,
           Programmed(t, p, s, w), Programmed(u, p, s, w)
    PROVE  Programmed(t \o u, p, s, w)
<1> DEFINE v == t \o u
<1>1. /\ Len(t) \in Nat /\ Len(u) \in Nat
      /\ DOMAIN t = 1..Len(t) /\ DOMAIN u = 1..Len(u)
      /\ DOMAIN v = 1..(Len(t) + Len(u))
      /\ \A i \in 1..Len(t) : v[i] = t[i]
      /\ \A i \in 1..Len(u) : v[Len(t) + i] = u[i]
      /\ \A i \in (Len(t) + 1)..(Len(t) + Len(u)) :
             v[i] = u[i - Len(t)] /\ i - Len(t) \in 1..Len(u)
  BY Concat
<1> HIDE DEF v
<1>2. ASSUME NEW i \in DOMAIN v
      PROVE  /\ v[i].op \in {"configure_ipv4", "configure_ipv6", "add_route",
                              "dns_check", "dns_write"}
             /\ v[i].op = "configure_ipv4" => v[i].res = A4(p)
             /\ v[i].op = "configure_ipv6" => v[i].res = A6(p)
             /\ v[i].op = "add_route" =>
                  \/ /\ v[i].res \in R4(p, w)
                     /\ s.v4 \/ \E j \in DOMAIN v : j < i /\ v[j].op = "configure_ipv4"
                  \/ /\ v[i].res \in R6(p)
                     /\ s.v6 \/ \E j \in DOMAIN v : j < i /\ v[j].op = "configure_ipv6"
  <2>1. CASE i <= Len(t)
    <3>1. i \in DOMAIN t /\ v[i] = t[i]
      BY <1>1, <2>1
    <3>2. \A j \in DOMAIN t : j \in DOMAIN v /\ v[j] = t[j]
      BY <1>1
    <3> QED BY <3>1, <3>2 DEF Programmed
  <2>2. CASE ~(i <= Len(t))
    <3>1. i - Len(t) \in DOMAIN u /\ v[i] = u[i - Len(t)]
      BY <1>1, <2>2
    <3>2. \A j \in DOMAIN u : j < i - Len(t) =>
             Len(t) + j \in DOMAIN v /\ Len(t) + j < i /\ v[Len(t) + j] = u[j]
      BY <1>1
    <3> QED BY <3>1, <3>2 DEF Programmed
  <2> QED BY <2>1, <2>2
<1>3. Programmed(v, p, s, w)
  BY <1>2 DEF Programmed
<1> QED BY <1>3 DEF v

(* So does a program that may be left out.                                 *)
LEMMA ProgrammedIf ==
    ASSUME NEW t \in Seq(Calls), NEW b, NEW p, NEW s, NEW w,
           b => Programmed(t, p, s, w)
    PROVE  If(b, t) \in Seq(Calls) /\ Programmed(If(b, t), p, s, w)
<1>1. Programmed(<<>>, p, s, w)
  BY DEF Programmed
<1> QED BY <1>1, IfCalls DEF If

(* An address followed by its routes is in order.                          *)
LEMMA ProgrammedFamily ==
    ASSUME NEW p \in Profiles, NEW s, NEW w \in Flags
    PROVE  /\ LET t == << Step("configure_ipv4", A4(p)) >>
                       \o Each("add_route", Routes4(p, w))
              IN  t \in Seq(Calls) /\ Programmed(t, p, s, w)
           /\ LET t == << Step("configure_ipv6", A6(p)) >>
                       \o Each("add_route", Routes6(p))
              IN  t \in Seq(Calls) /\ Programmed(t, p, s, w)
<1>1. ASSUME NEW o \in {"configure_ipv4", "configure_ipv6"}, NEW a \in Resources,
             NEW rs \in Seq(Routes)
      PROVE  LET t == << Step(o, a) >> \o Each("add_route", rs)
             IN  /\ t \in Seq(Calls)
                 /\ DOMAIN t = 1..(Len(rs) + 1) /\ Len(rs) \in Nat
                 /\ t[1].op = o /\ t[1].res = a
                 /\ \A i \in 2..(Len(rs) + 1) :
                        t[i].op = "add_route" /\ t[i].res \in RouteSet(rs)
  <2> DEFINE f == << Step(o, a) >>
             e == Each("add_route", rs)
  <2>1. "add_route" \in Ops /\ o \in Ops
    BY DEF Ops
  <2>2. /\ f \in Seq(Calls) /\ Len(f) = 1 /\ f[1].op = o /\ f[1].res = a
    <3>1. /\ Step(o, a) \in Calls /\ Step(o, a).op = o /\ Step(o, a).res = a
      BY <2>1, StepCall
    <3>2. f \in Seq(Calls) /\ Len(f) = 1 /\ f[1] = Step(o, a)
      <4> HIDE DEF Step
      <4> QED BY <3>1
    <3> QED BY <3>1, <3>2
  <2>3. /\ e \in Seq(Calls) /\ Len(e) = Len(rs)
        /\ \A i \in DOMAIN rs : e[i].op = "add_route" /\ e[i].res = Route(rs[i])
    BY <2>1, EachRoute
  <2>4. Len(rs) \in Nat /\ DOMAIN rs = 1..Len(rs)
    OBVIOUS
  <2> HIDE DEF f, e
  <2>5. /\ f \o e \in Seq(Calls)
        /\ DOMAIN (f \o e) = 1..(1 + Len(rs))
        /\ (f \o e)[1] = f[1]
        /\ \A i \in 2..(1 + Len(rs)) : (f \o e)[i] = e[i - 1] /\ i - 1 \in DOMAIN rs
    <3>1. /\ f \o e \in Seq(Calls)
          /\ DOMAIN (f \o e) = 1..(Len(f) + Len(e))
          /\ \A i \in 1..Len(f) : (f \o e)[i] = f[i]
          /\ \A i \in (Len(f) + 1)..(Len(f) + Len(e)) :
                 (f \o e)[i] = e[i - Len(f)] /\ i - Len(f) \in 1..Len(e)
      <4>1. f \in Seq(Calls) /\ e \in Seq(Calls)
        BY <2>2, <2>3
      <4> QED BY <4>1, Concat
    <3>2. Len(f) = 1 /\ Len(e) = Len(rs)
      BY <2>2, <2>3
    <3> QED BY <3>1, <3>2, <2>4
  <2>6. \A i \in 2..(Len(rs) + 1) :
            (f \o e)[i].op = "add_route" /\ (f \o e)[i].res \in RouteSet(rs)
    BY <2>3, <2>4, <2>5 DEF RouteSet
  <2> QED BY <2>2, <2>4, <2>5, <2>6 DEF f, e
<1>2. /\ A4(p) \in Resources /\ A6(p) \in Resources
      /\ Routes4(p, w) \in Seq(Routes) /\ Routes6(p) \in Seq(Routes)
  BY ProfileResources, RouteLists
<1>3. LET t == << Step("configure_ipv4", A4(p)) >> \o Each("add_route", Routes4(p, w))
      IN  t \in Seq(Calls) /\ Programmed(t, p, s, w)
  <2> DEFINE t == << Step("configure_ipv4", A4(p)) >>
                  \o Each("add_route", Routes4(p, w))
             n == Len(Routes4(p, w))
  <2>1. /\ t \in Seq(Calls)
        /\ DOMAIN t = 1..(n + 1) /\ n \in Nat
        /\ t[1].op = "configure_ipv4" /\ t[1].res = A4(p)
        /\ \A i \in 2..(n + 1) : t[i].op = "add_route" /\ t[i].res \in R4(p, w)
    BY <1>1, <1>2 DEF R4
  <2> HIDE DEF t, n
  <2>2. ASSUME NEW i \in DOMAIN t, i # 1
        PROVE  /\ t[i].op = "add_route" /\ t[i].res \in R4(p, w)
               /\ 1 \in DOMAIN t /\ 1 < i
    BY <2>1, <2>2
  <2>3. Programmed(t, p, s, w)
    BY <2>1, <2>2 DEF Programmed
  <2> QED BY <2>1, <2>3 DEF t
<1>4. LET t == << Step("configure_ipv6", A6(p)) >> \o Each("add_route", Routes6(p))
      IN  t \in Seq(Calls) /\ Programmed(t, p, s, w)
  <2> DEFINE t == << Step("configure_ipv6", A6(p)) >>
                  \o Each("add_route", Routes6(p))
             n == Len(Routes6(p))
  <2>1. /\ t \in Seq(Calls)
        /\ DOMAIN t = 1..(n + 1) /\ n \in Nat
        /\ t[1].op = "configure_ipv6" /\ t[1].res = A6(p)
        /\ \A i \in 2..(n + 1) : t[i].op = "add_route" /\ t[i].res \in R6(p)
    BY <1>1, <1>2 DEF R6
  <2> HIDE DEF t, n
  <2>2. ASSUME NEW i \in DOMAIN t, i # 1
        PROVE  /\ t[i].op = "add_route" /\ t[i].res \in R6(p)
               /\ 1 \in DOMAIN t /\ 1 < i
    BY <2>1, <2>2
  <2>3. Programmed(t, p, s, w)
    BY <2>1, <2>2 DEF Programmed
  <2> QED BY <2>1, <2>3 DEF t
<1> QED BY <1>3, <1>4

(* configure_ipv4 with its routes and DNS, and configure_ipv6 with its     *)
(* routes, are in order.                                                   *)
LEMMA ProgrammedConfigure ==
    ASSUME NEW p \in Profiles, NEW s, NEW w \in Flags
    PROVE  /\ Configure4(p, w) \o Configure6(p) \in Seq(Calls)
           /\ Programmed(Configure4(p, w) \o Configure6(p), p, s, w)
           /\ Configure6(p) \in Seq(Calls)
           /\ Programmed(Configure6(p), p, s, w)
<1> DEFINE a == << Step("configure_ipv4", A4(p)) >>
                \o Each("add_route", Routes4(p, w))
           b == << Step("configure_ipv6", A6(p)) >> \o Each("add_route", Routes6(p))
           d == << Step("dns_check", Resolv), Step("dns_write", Resolv) >>
<1>1. /\ a \in Seq(Calls) /\ Programmed(a, p, s, w)
      /\ b \in Seq(Calls) /\ Programmed(b, p, s, w)
  BY ProgrammedFamily
<1>2. d \in Seq(Calls) /\ Programmed(d, p, s, w)
  <2>1. "dns_check" \in Ops /\ "dns_write" \in Ops /\ Resolv \in Resources
    BY ProfileResources DEF Ops
  <2>2. /\ Step("dns_check", Resolv) \in Calls
        /\ Step("dns_write", Resolv) \in Calls
        /\ Step("dns_check", Resolv).op = "dns_check"
        /\ Step("dns_write", Resolv).op = "dns_write"
    BY <2>1, StepCall
  <2>3. /\ d \in Seq(Calls) /\ DOMAIN d = {1, 2}
        /\ d[1] = Step("dns_check", Resolv) /\ d[2] = Step("dns_write", Resolv)
    BY <2>2
  <2> HIDE DEF d
  <2>4. \A i \in DOMAIN d : d[i].op \in {"dns_check", "dns_write"}
    BY <2>2, <2>3
  <2> QED BY <2>3, <2>4 DEF Programmed
<1> HIDE DEF d
<1>3. If(w.dns, d) \in Seq(Calls) /\ Programmed(If(w.dns, d), p, s, w)
  BY <1>2, ProgrammedIf
<1> HIDE DEF a, b
<1>4. /\ a \o If(w.dns, d) \in Seq(Calls)
      /\ Programmed(a \o If(w.dns, d), p, s, w)
  BY <1>1, <1>3, TargetsConcat, ProgrammedConcat
<1>5. Configure4(p, w) = a \o If(w.dns, d)
  BY DEF Configure4, a, d, A4
<1>6. Configure6(p) = If(Config[p].v6.method = "Manual", b)
  BY DEF Configure6, b, A6
<1>7. Configure6(p) \in Seq(Calls) /\ Programmed(Configure6(p), p, s, w)
  BY <1>1, <1>6, ProgrammedIf
<1> QED BY <1>4, <1>5, <1>7, TargetsConcat, ProgrammedConcat

(* IpUp of an automatic profile waits for the lease; the others are set.   *)
LEMMA IpUpProgrammed ==
    ASSUME NEW p \in Profiles, NEW s
    PROVE  /\ IpUp(p) \in Seq(Calls)
           /\ \/ IpUp(p) = << Step("acquire", Lease(p)) >>
              \/ Programmed(IpUp(p), p, s, ManualWant(p))
<1>1. ManualWant(p) \in Flags
  <2>1. Config[p].v4.gateway \in BOOLEAN /\ Config[p].v4.dns \in BOOLEAN
    <3>1. Config[p].v4 \in IpConfig
      BY EngineAssumption
    <3> QED BY <3>1 DEF IpConfig
  <2> QED BY <2>1 DEF ManualWant, Flags
<1>2. Config[p].v4.method \in Methods
  BY ProfileResources
<1>3. << Step("acquire", Lease(p)) >> \in Seq(Calls)
  <2>1. "acquire" \in Ops /\ Lease(p) \in Resources
    BY ProfileResources DEF Ops
  <2> QED BY <2>1, OneCall
<1>4. \/ IpUp(p) = Configure6(p)
      \/ IpUp(p) = << Step("acquire", Lease(p)) >>
      \/ IpUp(p) = Configure4(p, ManualWant(p)) \o Configure6(p)
  BY <1>2 DEF IpUp, Methods
<1> QED BY <1>1, <1>3, <1>4, ProgrammedConfigure

(* A teardown still closes after its first call. A disconnect is never the *)
(* last call, so the network it names is visited again.                    *)
LEMMA ClosesTail ==
    ASSUME NEW t \in Seq(Calls), t # <<>>, NEW n, Closes(t, n)
    PROVE  /\ Closes(Tail(t), n)
           /\ Head(t).op # "remove_network" => Tail(t) # <<>>
           /\ Head(t).op = "disconnect" => Network(n) \in Targets(Tail(t))
           /\ Network(n) \in Resources
<1> DEFINE u == Tail(t)
<1>1. /\ Len(t) \in Nat \ {0} /\ DOMAIN t = 1..Len(t) /\ Head(t) = t[1]
      /\ u \in Seq(Calls) /\ Len(u) = Len(t) - 1
      /\ DOMAIN u = 1..(Len(t) - 1)
      /\ \A i \in 1..(Len(t) - 1) : u[i] = t[i + 1]
  BY HeadAndTail
<1>2. t[Len(t)] = Step("remove_network", Network(n))
  BY DEF Closes
<1>3. /\ t[Len(t)].op = "remove_network" /\ t[Len(t)].res = Network(n)
      /\ Network(n) \in Resources
  <2>1. t[Len(t)] \in Calls
    BY <1>1
  <2> QED BY <1>2, <2>1 DEF Step, Calls
<1> HIDE DEF u
<1>4. u # <<>> => u[Len(u)] = t[Len(t)] /\ Len(u) \in DOMAIN u
  <2> SUFFICES ASSUME u # <<>> PROVE u[Len(u)] = t[Len(t)] /\ Len(u) \in DOMAIN u
    OBVIOUS
  <2>1. Len(u) \in 1..(Len(t) - 1)
    BY <1>1
  <2> QED BY <1>1, <2>1
<1>5. \A i \in DOMAIN u : u[i].op = "disconnect" => u[i].res = Network(n)
  <2> SUFFICES ASSUME NEW i \in DOMAIN u, u[i].op = "disconnect"
               PROVE  u[i].res = Network(n)
    OBVIOUS
  <2>1. i + 1 \in DOMAIN t /\ u[i] = t[i + 1]
    BY <1>1
  <2> QED BY <2>1 DEF Closes
<1>6. Closes(u, n)
  BY <1>2, <1>4, <1>5 DEF Closes
<1>7. Head(t).op # "remove_network" => u # <<>>
  <2>1. CASE Len(t) = 1
    BY <1>1, <1>3, <2>1
  <2>2. CASE Len(t) # 1
    <3>1. Len(u) # 0
      BY <1>1, <2>2
    <3> QED BY <3>1
  <2> QED BY <2>1, <2>2
<1>8. Head(t).op = "disconnect" => Network(n) \in Targets(u)
  <2> SUFFICES ASSUME Head(t).op = "disconnect" PROVE Network(n) \in Targets(u)
    OBVIOUS
  <2>1. u # <<>>
    BY <1>7
  <2> QED BY <1>3, <1>4, <2>1 DEF Targets
<1> QED BY <1>3, <1>6, <1>7, <1>8 DEF u

(* A call put in front of a teardown leaves its end alone.                 *)
LEMMA ClosesCons ==
    ASSUME NEW c \in Calls, NEW t \in Seq(Calls), t # <<>>, NEW n, Closes(t, n),
           c.op # "disconnect"
    PROVE  /\ Closes(<<c>> \o t, n) /\ <<c>> \o t # <<>>
           /\ <<c>> \o t \in Seq(Calls)
           /\ Targets(<<c>> \o t) = {c.res} \cup Targets(t)
<1> DEFINE f == <<c>>
           u == f \o t
<1>1. f \in Seq(Calls) /\ Len(f) = 1 /\ f[1] = c
  OBVIOUS
<1>2. Targets(f) = {c.res}
  BY TargetsOne
<1> HIDE DEF f
<1>3. u \in Seq(Calls) /\ Targets(u) = {c.res} \cup Targets(t)
  BY <1>1, <1>2, TargetsConcat
<1>4. /\ Len(t) \in Nat \ {0} /\ DOMAIN t = 1..Len(t)
      /\ Len(u) = 1 + Len(t) /\ DOMAIN u = 1..(1 + Len(t))
      /\ u[1] = c
      /\ \A i \in 2..(1 + Len(t)) : u[i] = t[i - 1] /\ i - 1 \in DOMAIN t
  <2>1. /\ Len(t) \in Nat /\ DOMAIN t = 1..Len(t)
        /\ Len(u) = Len(f) + Len(t) /\ DOMAIN u = 1..(Len(f) + Len(t))
        /\ \A i \in 1..Len(f) : u[i] = f[i]
        /\ \A i \in (Len(f) + 1)..(Len(f) + Len(t)) :
               u[i] = t[i - Len(f)] /\ i - Len(f) \in 1..Len(t)
    BY <1>1, Concat
  <2>2. Len(t) # 0
    OBVIOUS
  <2> QED BY <1>1, <2>1, <2>2
<1> HIDE DEF u
<1>5. \A i \in DOMAIN u : u[i].op = "disconnect" => u[i].res = Network(n)
  BY <1>4 DEF Closes
<1>6. u[Len(u)] = t[Len(t)] /\ u # <<>>
  BY <1>3, <1>4
<1>7. Closes(u, n)
  BY <1>5, <1>6 DEF Closes
<1> QED BY <1>3, <1>6, <1>7 DEF u, f

(* A teardown of the IP configuration never disconnects.                   *)
Kept == [op : Ops \ {"disconnect"}, res : Resources]

(* LinuxIpEngine::teardown leaves the supplicant alone.                    *)
LEMMA TeardownKeepsLink ==
    ASSUME NEW p \in Profiles, NEW s \in IpStates, NEW w \in Flags
    PROVE  Teardown(p, s, w) \in Seq(Kept)
<1>1. ASSUME NEW o \in Ops \ {"disconnect"}, NEW r \in Resources
      PROVE  Step(o, r) \in Kept /\ <<Step(o, r)>> \in Seq(Kept)
  <2>1. Step(o, r) \in Kept
    BY DEF Step, Kept
  <2> QED BY <2>1
<1>2. ASSUME NEW b, NEW t \in Seq(Kept)
      PROVE  If(b, t) \in Seq(Kept)
  BY DEF If
<1>3. ASSUME NEW rs \in Seq(Routes)
      PROVE  Each("remove_route", rs) \in Seq(Kept)
  <2>1. Len(rs) \in Nat /\ DOMAIN rs = 1..Len(rs)
    OBVIOUS
  <2>2. "remove_route" \in Ops \ {"disconnect"}
    BY DEF Ops
  <2>3. \A i \in 1..Len(rs) : Step("remove_route", Route(rs[i])) \in Kept
    <3>1. \A i \in 1..Len(rs) : Route(rs[i]) \in Resources
      BY <2>1 DEF Resources, Shared
    <3> QED BY <1>1, <2>2, <3>1
  <2> DEFINE e == Each("remove_route", rs)
  <2>4. e \in [1..Len(rs) -> Kept]
    BY <2>3 DEF Each
  <2> HIDE DEF e
  <2>5. e \in Seq(Kept)
    BY <2>1, <2>4
  <2> QED BY <2>5 DEF e
<1>4. ASSUME NEW t \in Seq(Kept), NEW u \in Seq(Kept)
      PROVE  t \o u \in Seq(Kept)
  OBVIOUS
<1> DEFINE d  == If(s.dns, << Step("dns_owner", Resolv) >>)
           e4 == Each("remove_route", Routes4(p, w))
           l  == If(s.lease, << Step("release", Lease(p)) >>)
           g  == If(w.gateway \/ Config[p].v4.via,
                    << Step("remove_route", Route(Default4)) >>)
           a4 == << Step("remove_address", A4(p)) >>
           e6 == Each("remove_route", Routes6(p))
           a6 == << Step("remove_address", A6(p)) >>
<1>5. /\ "dns_owner" \in Ops \ {"disconnect"} /\ "release" \in Ops \ {"disconnect"}
      /\ "remove_route" \in Ops \ {"disconnect"}
      /\ "remove_address" \in Ops \ {"disconnect"}
      /\ Resolv \in Resources /\ Lease(p) \in Resources
      /\ Route(Default4) \in Resources /\ A4(p) \in Resources /\ A6(p) \in Resources
  BY ProfileResources DEF Ops
<1>6. /\ d \in Seq(Kept) /\ l \in Seq(Kept) /\ g \in Seq(Kept)
      /\ a4 \in Seq(Kept) /\ a6 \in Seq(Kept)
  BY <1>1, <1>2, <1>5
<1>7. e4 \in Seq(Kept) /\ e6 \in Seq(Kept)
  BY <1>3, RouteLists
<1>8. Teardown(p, s, w) =
        (d \o If(s.v4, ((e4 \o l) \o g) \o a4)) \o If(s.v6, e6 \o a6)
  BY DEF Teardown, A4, A6
<1> HIDE DEF d, e4, l, g, a4, e6, a6
<1>9. ((e4 \o l) \o g) \o a4 \in Seq(Kept) /\ e6 \o a6 \in Seq(Kept)
  BY <1>4, <1>6, <1>7
<1>10. /\ If(s.v4, ((e4 \o l) \o g) \o a4) \in Seq(Kept)
       /\ If(s.v6, e6 \o a6) \in Seq(Kept)
  BY <1>2, <1>9
<1>11. (d \o If(s.v4, ((e4 \o l) \o g) \o a4)) \o If(s.v6, e6 \o a6) \in Seq(Kept)
  BY <1>4, <1>6, <1>10
<1> QED BY <1>8, <1>11

(* The whole way down: it closes with the network, and visits everything   *)
(* that is recorded.                                                       *)
LEMMA WayDown ==
    ASSUME NEW p \in Profiles, NEW n \in Networks, NEW s \in IpStates, NEW w \in Flags
    PROVE  LET t == Teardown(p, s, w) \o LinkDown(n)
           IN  /\ t \in Seq(Calls) /\ t # <<>>
               /\ Closes(t, n)
               /\ Targets(t) = Targets(Teardown(p, s, w)) \cup {Network(n)}
<1> DEFINE a == Teardown(p, s, w)
           b == LinkDown(n)
           t == a \o b
<1>1. a \in Seq(Calls) /\ a \in Seq(Kept)
  BY TargetsTeardown, TeardownKeepsLink
<1>2. /\ Step("disconnect", Network(n)) \in Calls
      /\ Step("disconnect", Network(n)).res = Network(n)
      /\ Step("remove_network", Network(n)) \in Calls
      /\ Step("remove_network", Network(n)).res = Network(n)
      /\ Step("remove_network", Network(n)).op = "remove_network"
  <2>1. "disconnect" \in Ops /\ "remove_network" \in Ops /\ Network(n) \in Resources
    BY NetworkResource DEF Ops
  <2> QED BY <2>1, StepCall
<1>3. /\ b \in Seq(Calls) /\ Len(b) = 2 /\ DOMAIN b = {1, 2}
      /\ b[1] = Step("disconnect", Network(n))
      /\ b[2] = Step("remove_network", Network(n))
  BY <1>2 DEF LinkDown
<1> HIDE DEF a, b
<1>4. Targets(b) = {Network(n)}
  BY <1>2, <1>3 DEF Targets
<1>5. t \in Seq(Calls) /\ Targets(t) = Targets(a) \cup {Network(n)}
  BY <1>1, <1>3, <1>4, TargetsConcat
<1>6. /\ Len(a) \in Nat /\ DOMAIN a = 1..Len(a)
      /\ Len(t) = Len(a) + 2 /\ DOMAIN t = 1..(Len(a) + 2)
      /\ \A i \in 1..Len(a) : t[i] = a[i]
      /\ t[Len(a) + 1] = b[1] /\ t[Len(a) + 2] = b[2]
  <2>1. /\ Len(a) \in Nat /\ DOMAIN a = 1..Len(a)
        /\ Len(t) = Len(a) + Len(b) /\ DOMAIN t = 1..(Len(a) + Len(b))
        /\ \A i \in 1..Len(a) : t[i] = a[i]
        /\ \A i \in 1..Len(b) : t[Len(a) + i] = b[i]
    <3>1. a \in Seq(Calls) /\ b \in Seq(Calls)
      BY <1>1, <1>3
    <3> QED BY <3>1, Concat
  <2> QED BY <1>3, <2>1
<1> HIDE DEF t
<1>7. \A i \in DOMAIN a : a[i].op # "disconnect"
  <2>1. \A i \in DOMAIN a : a[i] \in Kept
    BY <1>1
  <2> QED BY <2>1 DEF Kept
<1>8. ASSUME NEW i \in DOMAIN t, t[i].op = "disconnect"
      PROVE  t[i].res = Network(n)
  <2>1. CASE i \in 1..Len(a)
    BY <1>6, <1>7, <1>8, <2>1
  <2>2. CASE i \notin 1..Len(a)
    <3>1. i = Len(a) + 1 \/ i = Len(a) + 2
      BY <1>6, <2>2
    <3> QED BY <1>2, <1>3, <1>6, <3>1
  <2> QED BY <2>1, <2>2
<1>9. Closes(t, n)
  BY <1>3, <1>6, <1>8 DEF Closes
<1>10. t # <<>>
  BY <1>5, <1>6
<1> QED BY <1>5, <1>9, <1>10 DEF t, a, b

(* The calls that bring the link up, and what is left after each.          *)
LEMMA LinkUpCalls ==
    ASSUME NEW n \in Networks
    PROVE  /\ LinkUp(n) \in Seq(Calls) /\ LinkUp(n) # <<>>
           /\ Head(LinkUp(n)).op = "add_network"
           /\ Head(LinkUp(n)).res = Network(n)
           /\ Tail(LinkUp(n)) \in Seq(Calls) /\ Tail(LinkUp(n)) # <<>>
           /\ Head(Tail(LinkUp(n))).op = "select_network"
           /\ Tail(Tail(LinkUp(n))) \in Seq(Calls) /\ Tail(Tail(LinkUp(n))) # <<>>
           /\ Head(Tail(Tail(LinkUp(n)))).op = "wait_for_completed"
<1> DEFINE x == Step("add_network", Network(n))
           y == Step("select_network", Network(n))
           z == Step("wait_for_completed", Network(n))
<1>1. /\ x \in Calls /\ x.op = "add_network" /\ x.res = Network(n)
      /\ y \in Calls /\ y.op = "select_network"
      /\ z \in Calls /\ z.op = "wait_for_completed"
  <2>1. /\ "add_network" \in Ops /\ "select_network" \in Ops
        /\ "wait_for_completed" \in Ops /\ Network(n) \in Resources
    BY NetworkResource DEF Ops
  <2> QED BY <2>1, StepCall
<1>2. LinkUp(n) = <<x, y, z>>
  BY DEF LinkUp
<1> HIDE DEF x, y, z
<1>3. Tail(<<x, y, z>>) = <<y, z>> /\ Tail(<<y, z>>) = <<z>>
  OBVIOUS
<1> QED BY <1>1, <1>2, <1>3

-----------------------------------------------------------------------------
(* What the engine has on the host and has not lost track of.              *)

Mine == { r \in Resources : host[r] \in Profiles /\ r \notin residue }

Visits(p, n, s, w) == Targets(Teardown(p, s, w) \o LinkDown(n))

(* The way down visits every part that is recorded.                        *)
LEMMA VisitsAre ==
    ASSUME NEW p \in Profiles, NEW n \in Networks, NEW s \in IpStates, NEW w \in Flags
    PROVE  /\ Network(n) \in Visits(p, n, s, w)
           /\ s.dns => Resolv \in Visits(p, n, s, w)
           /\ s.v4 => R4(p, w) \cup {A4(p)} \subseteq Visits(p, n, s, w)
           /\ s.v4 /\ s.lease => Lease(p) \in Visits(p, n, s, w)
           /\ s.v6 => R6(p) \cup {A6(p)} \subseteq Visits(p, n, s, w)
<1>1. Visits(p, n, s, w) = Targets(Teardown(p, s, w)) \cup {Network(n)}
  BY WayDown DEF Visits
<1> QED BY <1>1, TargetsTeardown

(* It visits more when more is recorded.                                   *)
LEMMA VisitsGrow ==
    ASSUME NEW p \in Profiles, NEW n \in Networks, NEW w \in Flags,
           NEW s \in IpStates, NEW u \in IpStates,
           s.v4 => u.v4, s.lease => u.lease, s.dns => u.dns, s.v6 => u.v6
    PROVE  Visits(p, n, s, w) \subseteq Visits(p, n, u, w)
<1>1. /\ Visits(p, n, s, w) = Targets(Teardown(p, s, w)) \cup {Network(n)}
      /\ Visits(p, n, u, w) = Targets(Teardown(p, u, w)) \cup {Network(n)}
  BY WayDown DEF Visits
<1>2. Targets(Teardown(p, s, w)) \subseteq Targets(Teardown(p, u, w))
  BY TargetsTeardown
<1> QED BY <1>1, <1>2

(* With nothing recorded it only visits the network.                       *)
LEMMA VisitsNothingRecorded ==
    ASSUME NEW p \in Profiles, NEW n \in Networks, NEW w \in Flags
    PROVE  NoIp \in IpStates /\ Visits(p, n, NoIp, w) = {Network(n)}
<1>1. /\ NoIp \in IpStates
      /\ ~NoIp.v4 /\ ~NoIp.dns /\ ~NoIp.v6
  BY DEF NoIp, IpStates
<1>2. Visits(p, n, NoIp, w) = Targets(Teardown(p, NoIp, w)) \cup {Network(n)}
  BY <1>1, WayDown DEF Visits
<1> QED BY <1>1, <1>2, TargetsTeardown

(* Installing a resource adds it to the engine's own.                      *)
LEMMA InstallMine ==
    ASSUME TypeOK, job \in Profiles, NEW r \in Resources, Install(r)
    PROVE  /\ host' \in [Resources -> Owners] /\ residue' \subseteq Resources
           /\ Mine' = Mine \cup {r}
<1>1. host \in [Resources -> Owners] /\ residue \subseteq Resources
  BY DEF TypeOK
<1> QED BY <1>1 DEF Install, Mine, Owners

(* A removal takes the resource from the engine's own, whether it succeeds *)
(* or leaves a residue.                                                    *)
LEMMA UninstallMine ==
    ASSUME TypeOK, NEW r \in Resources, NEW gone \in BOOLEAN, Uninstall(r, gone)
    PROVE  /\ host' \in [Resources -> Owners] /\ residue' \subseteq Resources
           /\ faults' \in 0..MaxFaults
           /\ Mine' \subseteq Mine \ {r}
<1>1. /\ host \in [Resources -> Owners] /\ residue \subseteq Resources
      /\ faults \in 0..MaxFaults /\ MaxFaults \in Nat /\ None \notin Profiles
  BY EngineAssumption DEF TypeOK
<1>2. host' = [host EXCEPT ![r] = IF gone THEN None ELSE host[r]]
  BY DEF Uninstall
<1>3. /\ host' \in [Resources -> Owners]
      /\ \A q \in Resources \ {r} : host'[q] = host[q]
      /\ gone => host'[r] \notin Profiles
      /\ ~gone => host'[r] = host[r]
  BY <1>1, <1>2 DEF Owners
<1>4. /\ residue' \subseteq Resources
      /\ \A q \in Resources \ {r} : q \in residue' <=> q \in residue
      /\ ~gone /\ host[r] \in Profiles => r \in residue'
  BY <1>1 DEF Uninstall
<1>5. faults' \in 0..MaxFaults
  BY <1>1 DEF Uninstall, Fault
<1>6. Mine' \subseteq Mine \ {r}
  BY <1>3, <1>4 DEF Mine
<1> QED BY <1>3, <1>4, <1>5, <1>6

-----------------------------------------------------------------------------
(* The invariant, phase by phase: what a step has to show when it ends in  *)
(* the link phase, the IP phase, a teardown, or between two calls.         *)

Typed == /\ host \in [Resources -> Owners] /\ residue \subseteq Resources
         /\ touched \subseteq Shared /\ faults \in 0..MaxFaults
         /\ failed \in BOOLEAN /\ outcome \subseteq Resources

(* The type invariant in the form the lemmas below use.                    *)
LEMMA TypedOK ==
    ASSUME TypeOK
    PROVE  /\ Typed /\ ip \in IpStates /\ want \in Flags /\ todo \in Seq(Calls)
           /\ slot \in Profiles \cup {None} /\ network \in Profiles \cup {None}
           /\ job \in Profiles \cup {None}
           /\ mode \in {"idle", "up", "undo", "down"}
           /\ link \in Networks \cup {None} /\ None \notin Profiles
BY EngineAssumption DEF TypeOK, Typed, IpStates, Flags

(* A step that ends while the link comes up.                               *)
LEMMA InLinkPhase ==
    ASSUME Typed', job' \in Profiles, link' \in Networks,
           network' = None, slot' = None, mode' = "up",
           ip' = NoIp, want' \in Flags,
           \/ todo' = LinkUp(link') /\ Mine' = {}
           \/ /\ todo' \in {Tail(LinkUp(link')), Tail(Tail(LinkUp(link')))}
              /\ Mine' \subseteq {Network(link')}
    PROVE  IInv'
<1>1. None \notin Profiles
  BY EngineAssumption
<1>2. todo' \in Seq(Calls)
  BY LinkUpCalls
<1>3. TypeOK'
  BY <1>2 DEF TypeOK, Typed, NoIp, Flags
<1>4. SlotsAgree'
  BY DEF SlotsAgree
<1>5. LinkComing'
  BY LinkUpCalls DEF LinkComing, Mine
<1>6. IpComing' /\ LinkGoing'
  BY <1>1 DEF IpComing, LinkGoing
<1>7. Reachable' = {Network(link')}
  BY <1>1 DEF Reachable
<1>8. NothingForgotten'
  BY <1>7 DEF NothingForgotten, Mine
<1> QED BY <1>3, <1>4, <1>5, <1>6, <1>8 DEF IInv

(* A step that ends while the IP configuration is installed.               *)
LEMMA InIpPhase ==
    ASSUME Typed', job' \in Profiles, link' \in Networks,
           network' = job', slot' = None, mode' = "up",
           ip' \in IpStates, want' \in Flags, todo' \in Seq(Calls),
           \/ todo' = << Step("acquire", Lease(job')) >> /\ ip' = NoIp
           \/ Programmed(todo', job', ip', want'),
           Mine' \subseteq Visits(job', link', ip', want')
    PROVE  IInv'
<1>1. TypeOK'
  BY DEF TypeOK, Typed, IpStates, Flags
<1>2. SlotsAgree'
  BY DEF SlotsAgree
<1>3. LinkComing' /\ LinkGoing'
  BY DEF LinkComing, LinkGoing
<1>4. IpComing'
  BY DEF IpComing
<1>5. Reachable' = Visits(job', link', ip', want')
  BY DEF Reachable, Visits
<1>6. NothingForgotten'
  BY <1>5 DEF NothingForgotten, Mine
<1> QED BY <1>1, <1>2, <1>3, <1>4, <1>6 DEF IInv

(* A step that ends within a rollback or a deactivation.                   *)
LEMMA InTeardown ==
    ASSUME Typed', job' \in Profiles, link' \in Networks,
           network' \in {None, job'}, slot' = None,
           mode' \in {"undo", "down"},
           ip' \in IpStates, want' \in Flags, todo' \in Seq(Calls),
           Closes(todo', link'), network' # None => todo' # <<>>,
           Mine' \subseteq Targets(todo')
    PROVE  IInv'
<1>1. TypeOK'
  BY DEF TypeOK, Typed, IpStates, Flags
<1>2. SlotsAgree'
  BY DEF SlotsAgree
<1>3. LinkComing' /\ IpComing'
  BY DEF LinkComing, IpComing
<1>4. LinkGoing'
  BY DEF LinkGoing
<1>5. Reachable' = Targets(todo')
  BY DEF Reachable
<1>6. NothingForgotten'
  BY <1>5 DEF NothingForgotten, Mine
<1> QED BY <1>1, <1>2, <1>3, <1>4, <1>6 DEF IInv

(* A step that ends with no job.                                           *)
LEMMA BetweenCalls ==
    ASSUME Typed', mode' = "idle", slot' = network', network' \in {None, job'},
           job' \in Profiles \cup {None},
           link' \in Networks \cup {None}, job' # None => link' \in Networks,
           ip' \in IpStates, want' \in Flags, todo' \in Seq(Calls),
           \/ slot' = None /\ Mine' = {}
           \/ /\ slot' # None /\ link' \in Networks
              /\ Mine' \subseteq Visits(job', link', ip', want')
    PROVE  IInv'
<1>1. TypeOK'
  BY DEF TypeOK, Typed, IpStates, Flags
<1>2. SlotsAgree'
  BY DEF SlotsAgree
<1>3. LinkComing' /\ IpComing' /\ LinkGoing'
  BY DEF LinkComing, IpComing, LinkGoing
<1>4. /\ slot' = None => Reachable' = {}
      /\ slot' # None => Reachable' = Visits(job', link', ip', want')
  BY DEF Reachable, Visits
<1>5. NothingForgotten'
  BY <1>4 DEF NothingForgotten, Mine
<1> QED BY <1>1, <1>2, <1>3, <1>5 DEF IInv

(* What the invariant says now, in the same four phases.                   *)
LEMMA Phases ==
    ASSUME IInv
    PROVE  /\ Typed /\ ip \in IpStates /\ want \in Flags /\ todo \in Seq(Calls)
           /\ job \in Profiles \cup {None} /\ None \notin Profiles
           /\ job # None => link \in Networks
           /\ mode # "idle" => slot = None /\ job \in Profiles /\ link \in Networks
           /\ network \in {None, job}
           /\ mode = "idle" /\ slot = None => Mine = {}
           /\ mode = "idle" /\ slot # None =>
                 /\ job \in Profiles /\ link \in Networks
                 /\ slot = job /\ network = job
                 /\ Mine \subseteq Visits(job, link, ip, want)
           /\ mode = "up" /\ network = job =>
                 /\ Mine \subseteq Visits(job, link, ip, want)
                 /\ \/ todo = << Step("acquire", Lease(job)) >> /\ ip = NoIp
                    \/ Programmed(todo, job, ip, want)
           /\ mode = "up" /\ network # job =>
                 /\ network = None /\ ip = NoIp
                 /\ Mine \subseteq {Network(link)}
                 /\ \/ todo = LinkUp(link) /\ Mine = {}
                    \/ todo \in {Tail(LinkUp(link)), Tail(Tail(LinkUp(link)))}
           /\ mode \in {"undo", "down"} =>
                 /\ Closes(todo, link) /\ (network # None => todo # <<>>)
                 /\ Mine \subseteq Targets(todo)
<1>1. TypeOK /\ SlotsAgree /\ LinkComing /\ IpComing /\ LinkGoing /\ NothingForgotten
  BY DEF IInv
<1>2. /\ Typed /\ ip \in IpStates /\ want \in Flags /\ todo \in Seq(Calls)
      /\ job \in Profiles \cup {None} /\ None \notin Profiles
      /\ slot \in Profiles \cup {None}
      /\ mode \in {"idle", "up", "undo", "down"}
  BY <1>1, TypedOK
<1>3. /\ job # None => link \in Networks
      /\ mode # "idle" => slot = None /\ job \in Profiles /\ link \in Networks
      /\ network \in {None, job}
      /\ mode = "idle" => slot = network
      /\ slot # None => slot = job /\ job \in Profiles /\ link \in Networks
  BY <1>1, <1>2 DEF SlotsAgree
<1>4. Mine \subseteq Reachable
  BY <1>1 DEF NothingForgotten, Mine
<1>5. /\ mode = "idle" /\ slot = None => Reachable = {}
      /\ mode \in {"undo", "down"} => Reachable = Targets(todo)
      /\ mode = "up" /\ network # job => Reachable = {Network(link)}
      /\ mode = "up" /\ network = job => Reachable = Visits(job, link, ip, want)
      /\ mode = "idle" /\ slot # None => Reachable = Visits(job, link, ip, want)
  BY DEF Reachable, Visits
<1>6. mode = "up" /\ network # job =>
         /\ ip = NoIp
         /\ \/ todo = LinkUp(link) /\ Mine = {}
            \/ todo \in {Tail(LinkUp(link)), Tail(Tail(LinkUp(link)))}
  BY <1>1 DEF LinkComing, Mine
<1>7. mode = "up" /\ network = job =>
         \/ todo = << Step("acquire", Lease(job)) >> /\ ip = NoIp
         \/ Programmed(todo, job, ip, want)
  BY <1>1 DEF IpComing
<1>8. mode \in {"undo", "down"} =>
         Closes(todo, link) /\ (network # None => todo # <<>>)
  BY <1>1 DEF LinkGoing
<1> QED BY <1>2, <1>3, <1>4, <1>5, <1>6, <1>7, <1>8

-----------------------------------------------------------------------------
(* Steps of an activation.                                                 *)

(* Which call is next tells the phase of an activation and the resource.   *)
LEMMA UpHead ==
    ASSUME IInv, mode = "up", todo # <<>>
    PROVE  /\ Target \in Resources
           /\ Head(todo).op = "add_network" =>
                 network # job /\ todo = LinkUp(link) /\ Target = Network(link)
           /\ Head(todo).op = "select_network" =>
                 network # job /\ todo = Tail(LinkUp(link))
           /\ Head(todo).op = "wait_for_completed" => network # job
           /\ Head(todo).op = "acquire" =>
                 network = job /\ ip = NoIp /\ Target = Lease(job)
           /\ Head(todo).op \in {"configure_ipv4", "configure_ipv6", "add_route",
                                 "dns_check", "dns_write"} =>
                 network = job /\ Programmed(todo, job, ip, want)
           /\ Head(todo).op = "configure_ipv4" => Target = A4(job)
           /\ Head(todo).op = "configure_ipv6" => Target = A6(job)
           /\ Head(todo).op = "add_route" =>
                 \/ Target \in R4(job, want) /\ ip.v4
                 \/ Target \in R6(job) /\ ip.v6
<1>1. job \in Profiles /\ link \in Networks /\ todo \in Seq(Calls)
  BY Phases
<1>2. /\ Head(todo) = todo[1] /\ Head(todo) \in Calls /\ 1 \in DOMAIN todo
      /\ DOMAIN todo \subseteq Nat \ {0}
  BY <1>1, HeadAndTail
<1>3. Target \in Resources
  BY <1>2 DEF Target, Calls
<1>4. CASE network # job
  <2>1. todo \in {LinkUp(link), Tail(LinkUp(link)), Tail(Tail(LinkUp(link)))}
    BY <1>4, Phases
  <2> QED BY <1>1, <1>3, <1>4, <2>1, LinkUpCalls DEF Target
<1>5. CASE network = job /\ todo = << Step("acquire", Lease(job)) >> /\ ip = NoIp
  <2>1. "acquire" \in Ops /\ Lease(job) \in Resources
    BY <1>1, ProfileResources DEF Ops
  <2>2. Step("acquire", Lease(job)).op = "acquire"
        /\ Step("acquire", Lease(job)).res = Lease(job)
    BY <2>1, StepCall
  <2>3. Head(todo) = Step("acquire", Lease(job))
    BY <1>5
  <2> QED BY <1>3, <1>5, <2>2, <2>3 DEF Target
<1>6. CASE network = job /\ Programmed(todo, job, ip, want)
  <2>1. /\ todo[1].op \in {"configure_ipv4", "configure_ipv6", "add_route",
                            "dns_check", "dns_write"}
        /\ todo[1].op = "configure_ipv4" => todo[1].res = A4(job)
        /\ todo[1].op = "configure_ipv6" => todo[1].res = A6(job)
        /\ todo[1].op = "add_route" =>
              \/ todo[1].res \in R4(job, want) /\ ip.v4
              \/ todo[1].res \in R6(job) /\ ip.v6
    <3>1. \A j \in DOMAIN todo : ~(j < 1)
      BY <1>2
    <3> QED BY <1>2, <1>6, <3>1 DEF Programmed
  <2> QED BY <1>2, <1>3, <1>6, <2>1 DEF Target
<1> QED BY <1>4, <1>5, <1>6, Phases

(* An activation starts on a host that is clean but for residues.          *)
LEMMA ActivateIInv ==
    ASSUME IInv, NEW p \in Profiles, NEW n \in Networks, Activate(p, n)
    PROVE  IInv'
<1>1. Typed /\ Mine = {} /\ network = None /\ slot = None
  BY Phases DEF Activate
<1>2. /\ mode' = "up" /\ job' = p /\ link' = n /\ todo' = LinkUp(n)
      /\ ip' = NoIp
      /\ want' = [gateway |-> FALSE, dns |-> FALSE]
      /\ slot' = None /\ network' = None
      /\ Typed' /\ Mine' = {}
  BY <1>1 DEF Activate, Typed, Mine
<1>3. ip' \in IpStates /\ want' \in Flags
  BY <1>2 DEF NoIp, IpStates, Flags
<1> QED BY <1>2, <1>3, InLinkPhase

(* Adding and selecting the network.                                       *)
LEMMA LinkStepIInv ==
    ASSUME IInv, AddNetwork \/ SelectNetwork
    PROVE  IInv'
<1>1. /\ mode = "up" /\ todo # <<>> /\ todo' = Tail(todo)
      /\ UNCHANGED <<slot, network, link, ip, want, mode, job, failed, outcome,
                     touched, faults>>
  BY DEF AddNetwork, SelectNetwork, Doing
<1>2. /\ Typed /\ job \in Profiles /\ link \in Networks /\ slot = None
      /\ ip \in IpStates /\ want \in Flags
  BY <1>1, Phases
<1>3. CASE AddNetwork
  <2>1. network # job /\ todo = LinkUp(link) /\ Target = Network(link)
    BY <1>1, <1>3, UpHead DEF AddNetwork, Doing
  <2>2. network = None /\ ip = NoIp /\ Mine \subseteq {Network(link)}
    BY <1>1, <2>1, Phases
  <2>3. TypeOK /\ Network(link) \in Resources /\ Install(Network(link))
    BY <1>2, <1>3, <2>1, NetworkResource DEF AddNetwork, IInv
  <2>4. Typed' /\ Mine' = Mine \cup {Network(link)}
    BY <1>1, <1>2, <2>3, InstallMine DEF Typed
  <2> QED BY <1>1, <1>2, <2>1, <2>2, <2>4, InLinkPhase
<1>4. CASE SelectNetwork
  <2>1. network # job /\ todo = Tail(LinkUp(link))
    BY <1>1, <1>4, UpHead DEF SelectNetwork, Doing
  <2>2. network = None /\ ip = NoIp /\ Mine \subseteq {Network(link)}
    BY <1>1, <2>1, Phases
  <2>3. Typed' /\ Mine' = Mine
    BY <1>2, <1>4 DEF SelectNetwork, Typed, Mine
  <2> QED BY <1>1, <1>2, <2>1, <2>2, <2>3, InLinkPhase
<1> QED BY <1>3, <1>4

(* The link is up: from here the whole way down is at hand.                *)
LEMMA WaitForCompletedIInv ==
    ASSUME IInv, WaitForCompleted
    PROVE  IInv'
<1>1. /\ mode = "up" /\ todo # <<>>
      /\ network' = job /\ want' = ManualWant(job) /\ todo' = IpUp(job)
      /\ UNCHANGED <<slot, link, ip, mode, job, failed, outcome, host, residue,
                     touched, faults>>
  BY DEF WaitForCompleted, Doing
<1>2. network # job
  BY <1>1, UpHead DEF WaitForCompleted, Doing
<1>3. /\ Typed /\ job \in Profiles /\ link \in Networks /\ slot = None
      /\ ip \in IpStates
      /\ Mine \subseteq {Network(link)}
  BY <1>1, <1>2, Phases
<1>4. want' \in Flags
  <2>1. Config[job].v4 \in IpConfig
    BY <1>3, EngineAssumption
  <2>2. Config[job].v4.gateway \in BOOLEAN /\ Config[job].v4.dns \in BOOLEAN
    BY <2>1 DEF IpConfig
  <2> QED BY <1>1, <2>2 DEF ManualWant, Flags
<1>5. Typed' /\ Mine' = Mine
  BY <1>1, <1>3 DEF Typed, Mine
<1>6. Mine' \subseteq Visits(job, link, ip, want')
  BY <1>3, <1>4, <1>5, VisitsAre
<1>7. /\ todo' \in Seq(Calls)
      /\ \/ todo' = << Step("acquire", Lease(job)) >>
         \/ Programmed(todo', job, ip, want')
  BY <1>1, <1>3, IpUpProgrammed
<1>8. CASE Programmed(todo', job, ip, want')
  BY <1>1, <1>3, <1>4, <1>5, <1>6, <1>7, <1>8, InIpPhase
<1>9. CASE todo' = << Step("acquire", Lease(job)) >>
  <2>1. ip = NoIp
    BY <1>1, <1>2, Phases
  <2> QED BY <1>1, <1>3, <1>4, <1>5, <1>6, <1>7, <1>9, <2>1, InIpPhase
<1> QED BY <1>7, <1>8, <1>9

(* The lease is recorded as it is taken, before the router and the DNS     *)
(* servers it brings are installed; nothing else was recorded before it.   *)
LEMMA AcquireIInv ==
    ASSUME IInv, NEW gateway \in BOOLEAN, NEW dns \in BOOLEAN, Acquire(gateway, dns)
    PROVE  IInv'
<1>1. /\ mode = "up" /\ todo # <<>> /\ Head(todo).op = "acquire"
      /\ Install(Target)
      /\ want' = [gateway |-> gateway, dns |-> dns]
      /\ ip' = [ip EXCEPT !.v4 = TRUE, !.lease = TRUE]
      /\ todo' = Configure4(job, want') \o Configure6(job)
      /\ UNCHANGED <<slot, network, link, mode, job, failed, outcome, touched, faults>>
  BY DEF Acquire, Doing
<1>2. network = job /\ ip = NoIp /\ Target = Lease(job)
  BY <1>1, UpHead
<1>3. /\ Typed /\ TypeOK /\ job \in Profiles /\ link \in Networks /\ slot = None
      /\ want \in Flags
      /\ Mine \subseteq Visits(job, link, ip, want)
  BY <1>1, <1>2, Phases DEF IInv
<1>4. want' \in Flags
  BY <1>1 DEF Flags
<1>5. ip' \in IpStates /\ ip'.v4 /\ ip'.lease
  BY <1>1, <1>2 DEF NoIp, IpStates
<1>6. Mine \subseteq {Network(link)}
  BY <1>2, <1>3, VisitsNothingRecorded
<1>7. Typed' /\ Mine' = Mine \cup {Lease(job)}
  <2>1. Lease(job) \in Resources /\ Install(Lease(job))
    BY <1>1, <1>2, <1>3, ProfileResources
  <2> QED BY <1>1, <1>3, <2>1, InstallMine DEF Typed
<1>8. {Network(link), Lease(job)} \subseteq Visits(job, link, ip', want')
  BY <1>3, <1>4, <1>5, VisitsAre
<1>9. todo' \in Seq(Calls) /\ Programmed(todo', job, ip', want')
  BY <1>1, <1>3, <1>4, ProgrammedConfigure
<1> QED BY <1>1, <1>2, <1>3, <1>4, <1>5, <1>6, <1>7, <1>8, <1>9, InIpPhase

(* Recording a part never makes the way down shorter.                      *)
LEMMA RecordedGrows ==
    ASSUME ip \in IpStates, todo # <<>>
    PROVE  /\ Recorded \in IpStates
           /\ ip.v4 => Recorded.v4
           /\ Recorded.lease = ip.lease /\ Recorded.dns = ip.dns
           /\ ip.v6 => Recorded.v6
           /\ Head(todo).op = "configure_ipv4" => Recorded.v4
           /\ Head(todo).op = "configure_ipv6" => Recorded.v6
BY DEF Recorded, IpStates, Doing

(* Addresses, routes and resolv.conf are installed only once the record    *)
(* makes the way down visit them.                                          *)
LEMMA IpStepIInv ==
    ASSUME IInv, AddAddress \/ AddRoute \/ DnsCheck \/ DnsWrite
    PROVE  IInv'
<1>1. /\ mode = "up" /\ todo # <<>> /\ todo' = Tail(todo)
      /\ UNCHANGED <<slot, network, link, want, mode, job, failed, outcome,
                     touched, faults>>
      /\ Head(todo).op \in {"configure_ipv4", "configure_ipv6", "add_route",
                            "dns_check", "dns_write"}
  BY DEF AddAddress, AddRoute, DnsCheck, DnsWrite, Doing
<1>2. network = job /\ Programmed(todo, job, ip, want) /\ Target \in Resources
  BY <1>1, UpHead
<1>3. /\ Typed /\ TypeOK /\ job \in Profiles /\ link \in Networks /\ slot = None
      /\ want \in Flags
      /\ ip \in IpStates /\ todo \in Seq(Calls)
      /\ Mine \subseteq Visits(job, link, ip, want)
  BY <1>1, <1>2, Phases DEF IInv
<1>4. todo' \in Seq(Calls)
  BY <1>1, <1>3, HeadAndTail
<1>5. ASSUME ip' \in IpStates, ip.v4 => ip'.v4, ip.v6 => ip'.v6,
             ip.lease => ip'.lease, ip.dns => ip'.dns,
             Head(todo).op = "configure_ipv4" => ip'.v4,
             Head(todo).op = "configure_ipv6" => ip'.v6,
             Typed', NEW r \in Visits(job, link, ip', want), Mine' \subseteq Mine \cup {r}
      PROVE  IInv'
  <2>1. Visits(job, link, ip, want) \subseteq Visits(job, link, ip', want)
    BY <1>3, <1>5, VisitsGrow
  <2>2. Programmed(todo', job, ip', want)
    BY <1>1, <1>2, <1>3, <1>5, ProgrammedTail
  <2>3. Mine' \subseteq Visits(job, link, ip', want)
    BY <1>3, <1>5, <2>1
  <2> QED BY <1>1, <1>2, <1>3, <1>4, <1>5, <2>2, <2>3, InIpPhase
<1>6. CASE AddAddress
  <2>1. ip' = Recorded /\ Install(Target)
        /\ Head(todo).op \in {"configure_ipv4", "configure_ipv6"}
    BY <1>6 DEF AddAddress, Doing
  <2>2. /\ ip' \in IpStates /\ (ip.v4 => ip'.v4) /\ (ip.v6 => ip'.v6)
        /\ (ip.lease => ip'.lease) /\ (ip.dns => ip'.dns)
        /\ (Head(todo).op = "configure_ipv4" => ip'.v4)
        /\ (Head(todo).op = "configure_ipv6" => ip'.v6)
    BY <1>1, <1>3, <2>1, RecordedGrows
  <2>3. Typed' /\ Mine' = Mine \cup {Target}
    BY <1>1, <1>2, <1>3, <2>1, InstallMine DEF Typed
  <2>4. Target \in Visits(job, link, ip', want)
    <3>1. \/ Head(todo).op = "configure_ipv4" /\ Target = A4(job)
          \/ Head(todo).op = "configure_ipv6" /\ Target = A6(job)
      BY <1>1, <2>1, UpHead
    <3> QED BY <1>3, <2>2, <3>1, VisitsAre
  <2> QED BY <1>5, <2>2, <2>3, <2>4
<1>7. CASE AddRoute
  <2>1. ip' = ip /\ Install(Target) /\ Head(todo).op = "add_route"
    BY <1>7 DEF AddRoute, Doing
  <2>2. Typed' /\ Mine' = Mine \cup {Target}
    BY <1>1, <1>2, <1>3, <2>1, InstallMine DEF Typed
  <2>3. Target \in Visits(job, link, ip', want)
    <3>1. \/ Target \in R4(job, want) /\ ip.v4
          \/ Target \in R6(job) /\ ip.v6
      BY <1>1, <2>1, UpHead
    <3> QED BY <1>3, <2>1, <3>1, VisitsAre
  <2> QED BY <1>3, <1>5, <2>1, <2>2, <2>3
<1>8. CASE DnsCheck
  <2>1. ip' = ip /\ UNCHANGED <<host, residue>> /\ Head(todo).op = "dns_check"
    BY <1>8 DEF DnsCheck, Doing
  <2>2. Typed' /\ Mine' = Mine
    BY <1>1, <1>3, <2>1 DEF Typed, Mine
  <2>3. Network(link) \in Visits(job, link, ip', want)
    BY <1>3, <2>1, VisitsAre
  <2> QED BY <1>3, <1>5, <2>1, <2>2, <2>3
<1>9. CASE DnsWrite
  <2>1. /\ ip' = [ip EXCEPT !.dns = TRUE] /\ Install(Resolv)
        /\ Head(todo).op = "dns_write"
    BY <1>9 DEF DnsWrite, Doing
  <2>2. /\ ip' \in IpStates /\ (ip.v4 => ip'.v4) /\ (ip.v6 => ip'.v6)
        /\ (ip.lease => ip'.lease) /\ ip'.dns
    BY <1>3, <2>1 DEF IpStates
  <2>3. Resolv \in Resources
    BY DEF Resources, Shared
  <2>4. Typed' /\ Mine' = Mine \cup {Resolv}
    BY <1>1, <1>3, <2>1, <2>3, InstallMine DEF Typed
  <2>5. Resolv \in Visits(job, link, ip', want)
    BY <1>3, <2>2, VisitsAre
  <2> QED BY <1>5, <2>1, <2>2, <2>4, <2>5
<1> QED BY <1>6, <1>7, <1>8, <1>9

(* A failure at any call leaves a teardown that visits all there is.       *)
LEMMA StepFailsIInv ==
    ASSUME IInv, StepFails
    PROVE  IInv'
<1>1. /\ mode = "up" /\ todo # <<>> /\ mode' = "undo" /\ ip' = Recorded
      /\ UNCHANGED <<slot, network, link, want, job, failed, outcome, host, residue,
                     touched, faults>>
      /\ network = job => todo' = Teardown(job, Recorded, want) \o LinkDown(link)
      /\ network # job => todo' = If(Head(todo).op # "add_network",
                                    << Step("remove_network", Network(link)) >>)
  BY DEF StepFails
<1>2. /\ Typed /\ job \in Profiles /\ link \in Networks /\ slot = None
      /\ want \in Flags
      /\ ip \in IpStates /\ network \in {None, job} /\ None \notin Profiles
  BY <1>1, Phases
<1>3. /\ ip' \in IpStates
      /\ (ip.v4 => ip'.v4) /\ (ip.lease => ip'.lease)
      /\ (ip.dns => ip'.dns) /\ (ip.v6 => ip'.v6)
  BY <1>1, <1>2, RecordedGrows
<1>4. Typed' /\ Mine' = Mine
  BY <1>1, <1>2 DEF Typed, Mine
<1>5. CASE network = job
  <2>1. Mine \subseteq Visits(job, link, ip, want)
    BY <1>1, <1>5, Phases
  <2>2. Mine \subseteq Visits(job, link, ip', want)
    BY <1>2, <1>3, <2>1, VisitsGrow
  <2>3. /\ todo' \in Seq(Calls) /\ todo' # <<>> /\ Closes(todo', link)
        /\ Targets(todo') = Visits(job, link, ip', want)
    <3>1. todo' = Teardown(job, ip', want) \o LinkDown(link)
      BY <1>1, <1>5
    <3>2. Targets(todo') = Visits(job, link, ip', want)
      BY <3>1 DEF Visits
    <3>3. /\ Teardown(job, ip', want) \o LinkDown(link) \in Seq(Calls)
          /\ Teardown(job, ip', want) \o LinkDown(link) # <<>>
          /\ Closes(Teardown(job, ip', want) \o LinkDown(link), link)
      BY <1>2, <1>3, WayDown
    <3> QED BY <3>1, <3>2, <3>3
  <2> QED BY <1>1, <1>2, <1>3, <1>4, <1>5, <2>2, <2>3, InTeardown
<1>6. CASE network # job
  <2>1. /\ network = None /\ Mine \subseteq {Network(link)}
        /\ Head(todo).op = "add_network" => Mine = {}
    <3>1. /\ network = None /\ Mine \subseteq {Network(link)}
          /\ \/ todo = LinkUp(link) /\ Mine = {}
             \/ todo \in {Tail(LinkUp(link)), Tail(Tail(LinkUp(link)))}
      BY <1>1, <1>6, Phases
    <3> QED BY <1>2, <3>1, LinkUpCalls
  <2> DEFINE x == Step("remove_network", Network(link))
  <2>2. x \in Calls /\ x.op = "remove_network" /\ x.res = Network(link)
    <3>1. "remove_network" \in Ops /\ Network(link) \in Resources
      BY <1>2, NetworkResource DEF Ops
    <3> QED BY <3>1, StepCall
  <2>3. <<x>> \in Seq(Calls) /\ Closes(<<x>>, link) /\ Targets(<<x>>) = {Network(link)}
    <3>1. DOMAIN <<x>> = {1} /\ <<x>>[1] = x /\ Len(<<x>>) = 1
      OBVIOUS
    <3>2. <<x>> \in Seq(Calls) /\ Targets(<<x>>) = {Network(link)}
      BY <2>2, TargetsOne
    <3>3. Closes(<<x>>, link)
      BY <2>2, <3>1 DEF Closes
    <3> QED BY <3>2, <3>3
  <2>4. <<>> \in Seq(Calls) /\ Closes(<<>>, link) /\ Targets(<<>>) = {}
    BY EmptyCalls DEF Closes
  <2>5. todo' = IF Head(todo).op # "add_network" THEN <<x>> ELSE <<>>
    BY <1>1, <1>6 DEF If
  <2> HIDE DEF x
  <2>6. /\ todo' \in Seq(Calls) /\ Closes(todo', link)
        /\ Mine \subseteq Targets(todo')
    BY <2>1, <2>3, <2>4, <2>5
  <2> QED BY <1>1, <1>2, <1>3, <1>4, <2>1, <2>6, InTeardown
<1> QED BY <1>5, <1>6

-----------------------------------------------------------------------------
(* Steps of a rollback or a deactivation.                                  *)

(* A deactivation visits all there is.                                     *)
LEMMA DeactivateIInv ==
    ASSUME IInv, NEW p \in Profiles, Deactivate(p)
    PROVE  IInv'
<1>1. /\ mode = "idle" /\ slot = p
      /\ slot' = None /\ mode' = "down" /\ job' = p /\ failed' = FALSE
      /\ todo' = Teardown(p, ip, want) \o LinkDown(link)
      /\ outcome' = {} /\ touched' = {}
      /\ UNCHANGED <<network, link, ip, want, host, residue, faults>>
  BY DEF Deactivate
<1>2. /\ Typed /\ ip \in IpStates /\ want \in Flags
      /\ job = p /\ network = p /\ link \in Networks
      /\ Mine \subseteq Visits(p, link, ip, want)
  BY <1>1, Phases
<1>3. Typed' /\ Mine' = Mine
  BY <1>1, <1>2 DEF Typed, Mine
<1>4. /\ todo' \in Seq(Calls) /\ todo' # <<>> /\ Closes(todo', link)
      /\ Targets(todo') = Visits(p, link, ip, want)
  BY <1>1, <1>2, WayDown DEF Visits
<1> QED BY <1>1, <1>2, <1>3, <1>4, InTeardown

(* Each call of a teardown, failed or not, leaves the rest to the calls    *)
(* after it.                                                               *)
LEMMA RemoveIInv ==
    ASSUME IInv, NEW b \in BOOLEAN,
           \/ RemoveBestEffort(b) \/ RemoveAddress(b) \/ DnsOwner(b)
           \/ Disconnect(b) \/ RemoveNetwork(b)
    PROVE  IInv'
<1>1. /\ mode \in {"undo", "down"} /\ todo # <<>>
      /\ UNCHANGED <<slot, link, ip, want, mode, job, outcome, touched>>
      /\ failed' \in BOOLEAN
  <2>1. failed \in BOOLEAN
    BY DEF IInv, TypeOK
  <2> QED BY <2>1 DEF RemoveBestEffort, RemoveAddress, DnsOwner, Disconnect,
                      RemoveNetwork, Removing, Doing
<1>2. /\ Typed /\ TypeOK /\ job \in Profiles /\ link \in Networks /\ slot = None
      /\ ip \in IpStates
      /\ want \in Flags /\ network \in {None, job} /\ todo \in Seq(Calls)
      /\ Closes(todo, link) /\ Mine \subseteq Targets(todo)
  BY <1>1, Phases DEF IInv
<1>3. /\ Closes(Tail(todo), link) /\ Tail(todo) \in Seq(Calls)
      /\ Head(todo).op # "remove_network" => Tail(todo) # <<>>
      /\ Head(todo).op = "disconnect" => Network(link) \in Targets(Tail(todo))
  BY <1>1, <1>2, ClosesTail, HeadAndTail
<1>4. Targets(todo) = {Target} \cup Targets(Tail(todo))
  BY <1>1, <1>2, TargetsTail DEF Target
<1>5. Target \in Resources
  <2>1. Head(todo) \in Calls
    BY <1>1, <1>2, HeadAndTail
  <2> QED BY <2>1 DEF Calls, Target
<1>6. ASSUME Uninstall(Target, b) PROVE Typed' /\ Mine' \subseteq Mine \ {Target}
  BY <1>1, <1>2, <1>5, <1>6, UninstallMine DEF Typed
<1>7. CASE RemoveBestEffort(b) \/ RemoveAddress(b)
  <2>1. /\ Uninstall(Target, b) /\ todo' = Tail(todo) /\ network' = network
        /\ Head(todo).op # "remove_network"
    BY <1>7 DEF RemoveBestEffort, RemoveAddress, Removing, Doing
  <2>2. Typed' /\ Mine' \subseteq Targets(todo')
    BY <1>2, <1>4, <1>6, <2>1
  <2> QED BY <1>1, <1>2, <1>3, <2>1, <2>2, InTeardown
<1>8. CASE RemoveNetwork(b)
  <2>1. Uninstall(Target, b) /\ todo' = Tail(todo) /\ network' = None
    BY <1>8 DEF RemoveNetwork
  <2>2. Typed' /\ Mine' \subseteq Targets(todo')
    BY <1>2, <1>4, <1>6, <2>1
  <2> QED BY <1>1, <1>2, <1>3, <2>1, <2>2, InTeardown
<1>9. CASE Disconnect(b)
  <2>1. /\ todo' = Tail(todo) /\ network' = network /\ Head(todo).op = "disconnect"
        /\ UNCHANGED <<host, residue, faults>>
    BY <1>9 DEF Disconnect, Removing, Doing
  <2>2. Typed' /\ Mine' = Mine
    BY <1>1, <1>2, <2>1 DEF Typed, Mine
  <2>3. Target = Network(link)
    <3>1. Head(todo) = todo[1] /\ 1 \in DOMAIN todo
      BY <1>1, <1>2, HeadAndTail
    <3> QED BY <1>2, <2>1, <3>1 DEF Closes, Target
  <2> QED BY <1>1, <1>2, <1>3, <1>4, <2>1, <2>2, <2>3, InTeardown
<1>10. CASE DnsOwner(b)
  <2>1. /\ network' = network /\ Head(todo).op = "dns_owner"
        /\ \/ /\ todo' = << Step("dns_unlink", Target) >> \o Tail(todo)
              /\ UNCHANGED <<host, residue, faults>>
           \/ /\ todo' = Tail(todo)
              /\ Uninstall(Target, FALSE)
    BY <1>10 DEF DnsOwner, Removing, Doing
  <2>2. Tail(todo) # <<>>
    BY <1>3, <2>1
  <2>3. CASE /\ todo' = << Step("dns_unlink", Target) >> \o Tail(todo)
             /\ UNCHANGED <<host, residue, faults>>
    <3> DEFINE x == Step("dns_unlink", Target)
    <3>1. Typed' /\ Mine' = Mine
      BY <1>1, <1>2, <2>3 DEF Typed, Mine
    <3>2. x \in Calls /\ x.op # "disconnect" /\ x.res = Target
      <4>1. "dns_unlink" \in Ops
        BY DEF Ops
      <4> QED BY <1>5, <4>1, StepCall
    <3> HIDE DEF x
    <3>3. /\ <<x>> \o Tail(todo) \in Seq(Calls) /\ <<x>> \o Tail(todo) # <<>>
          /\ Closes(<<x>> \o Tail(todo), link)
          /\ Targets(<<x>> \o Tail(todo)) = {Target} \cup Targets(Tail(todo))
      BY <1>3, <2>2, <3>2, ClosesCons
    <3>4. todo' = <<x>> \o Tail(todo)
      BY <2>3 DEF x
    <3> QED BY <1>1, <1>2, <1>4, <2>1, <3>1, <3>3, <3>4, InTeardown
  <2>4. CASE todo' = Tail(todo) /\ Uninstall(Target, FALSE)
    <3>1. Typed' /\ Mine' \subseteq Mine \ {Target}
      BY <1>1, <1>2, <1>5, <2>4, UninstallMine DEF Typed
    <3> QED BY <1>1, <1>2, <1>3, <1>4, <2>1, <2>2, <2>4, <3>1, InTeardown
  <2> QED BY <2>1, <2>3, <2>4
<1> QED BY <1>7, <1>8, <1>9, <1>10

-----------------------------------------------------------------------------
(* The end of a call, and what happens around the engine.                  *)

(* An outcome lists resources of the host.                                 *)
LEMMA ReportedResources ==
    ASSUME NEW p \in Profiles, want \in Flags
    PROVE  Reported(p) \subseteq Resources
<1>1. /\ A4(p) \in Resources /\ A6(p) \in Resources /\ Resolv \in Resources
      /\ Routes4(p, want) \in Seq(Routes) /\ Routes6(p) \in Seq(Routes)
  BY ProfileResources, RouteLists
<1>2. Range(Routes4(p, want)) \subseteq Routes /\ Range(Routes6(p)) \subseteq Routes
  BY <1>1 DEF Range
<1>3. \A r \in Routes : Route(r) \in Resources
  BY DEF Resources, Shared
<1>4. Configured(p) \subseteq Resources
  BY <1>1, <1>2, <1>3 DEF Configured, A4, A6
<1> QED BY <1>1, <1>4 DEF Reported

(* A job that returns leaves a connection or a clean host.                 *)
LEMMA ReturnIInv ==
    ASSUME IInv, Return
    PROVE  IInv'
<1>1. /\ mode # "idle" /\ todo = <<>> /\ mode' = "idle"
      /\ slot' = IF mode = "up" THEN job ELSE slot
      /\ outcome' = IF mode = "up" THEN Reported(job) ELSE {}
      /\ UNCHANGED <<network, link, ip, want, job, todo, failed, host, residue,
                     touched, faults>>
  BY DEF Return
<1>2. /\ Typed /\ job \in Profiles /\ link \in Networks /\ slot = None
      /\ ip \in IpStates
      /\ want \in Flags /\ network \in {None, job} /\ todo \in Seq(Calls)
      /\ None \notin Profiles /\ mode \in {"up", "undo", "down"}
  <2>1. mode \in {"idle", "up", "undo", "down"}
    BY DEF IInv, TypeOK
  <2> QED BY <1>1, <2>1, Phases
<1>3. Typed' /\ Mine' = Mine
  BY <1>1, <1>2, ReportedResources DEF Typed, Mine
<1>4. CASE mode = "up"
  <2>1. network = job
    BY <1>1, <1>2, <1>4, Phases, LinkUpCalls
  <2>2. Mine \subseteq Visits(job, link, ip, want)
    BY <1>4, <2>1, Phases
  <2> QED BY <1>1, <1>2, <1>3, <1>4, <2>1, <2>2, BetweenCalls
<1>5. CASE mode \in {"undo", "down"}
  <2>1. network = None /\ Mine = {}
    BY <1>1, <1>5, Phases, EmptyCalls
  <2> QED BY <1>1, <1>2, <1>3, <1>5, <2>1, BetweenCalls
<1> QED BY <1>2, <1>4, <1>5

(* Other programs only take from the engine's own.                         *)
LEMMA InterfereIInv ==
    ASSUME IInv, NEW r \in Shared, NEW owner \in {None, Foreign}, Interfere(r, owner)
    PROVE  IInv'
<1>1. /\ UNCHANGED <<slot, network, link, ip, want, mode, job, todo, failed, outcome>>
      /\ host' = [host EXCEPT ![r] = owner]
      /\ residue' = residue \ {r} /\ touched' = touched \cup {r}
  BY DEF Interfere, engineVars
<1>2. TypeOK /\ r \in Resources
  BY DEF IInv, Resources
<1>3. None \notin Profiles /\ Foreign \notin Profiles /\ MaxFaults \in Nat
  BY EngineAssumption
<1>4. TypeOK'
  <2>1. host' \in [Resources -> Owners] /\ residue' \subseteq Resources
        /\ touched' \subseteq Shared
    BY <1>1, <1>2 DEF TypeOK, Owners
  <2>2. faults' \in 0..MaxFaults
    BY <1>2, <1>3 DEF Interfere, Fault, TypeOK
  <2> QED BY <1>1, <1>2, <2>1, <2>2 DEF TypeOK
<1>5. /\ Mine' \subseteq Mine
      /\ \A q \in Resources : host'[q] \in Profiles /\ q \notin residue'
                             => host[q] \in Profiles /\ q \notin residue
  BY <1>1, <1>2, <1>3 DEF Mine, TypeOK
<1>6. SlotsAgree' /\ IpComing' /\ LinkGoing'
  BY <1>1 DEF IInv, SlotsAgree, IpComing, LinkGoing
<1>7. LinkComing'
  BY <1>1, <1>5 DEF IInv, LinkComing
<1>8. Reachable' = Reachable
  BY <1>1 DEF Reachable
<1>9. NothingForgotten'
  BY <1>5, <1>8 DEF IInv, NothingForgotten
<1> QED BY <1>4, <1>6, <1>7, <1>9 DEF IInv

(* An ended process leaves residues.                                       *)
LEMMA ProcessEndsIInv ==
    ASSUME IInv, ProcessEnds
    PROVE  IInv'
<1>1. /\ slot' = None /\ network' = None /\ link' = None /\ ip' = NoIp
      /\ want' = [gateway |-> FALSE, dns |-> FALSE]
      /\ mode' = "idle" /\ job' = None /\ todo' = <<>> /\ failed' = FALSE
      /\ outcome' = {} /\ residue' = { r \in Resources : host[r] \in Profiles }
      /\ UNCHANGED <<host, touched>>
  BY DEF ProcessEnds
<1>2. Typed /\ MaxFaults \in Nat
  BY EngineAssumption, Phases
<1>3. Typed' /\ Mine' = {}
  <2>1. faults' \in 0..MaxFaults
    BY <1>2 DEF ProcessEnds, Fault, Typed
  <2> QED BY <1>1, <1>2, <2>1 DEF Typed, Mine
<1>4. ip' \in IpStates /\ want' \in Flags /\ todo' \in Seq(Calls)
  BY <1>1, EmptyCalls DEF NoIp, IpStates, Flags
<1> QED BY <1>1, <1>3, <1>4, BetweenCalls

(* The invariant holds at the start.                                       *)
LEMMA InitIInv == Init => IInv
<1> SUFFICES ASSUME Init PROVE IInv
  OBVIOUS
<1>1. None \in Owners /\ None \notin Profiles /\ MaxFaults \in Nat
  BY EngineAssumption DEF Owners
<1>2. TypeOK
  <2>1. host \in [Resources -> Owners] /\ faults \in 0..MaxFaults
    BY <1>1 DEF Init
  <2>2. todo \in Seq(Calls)
    BY EmptyCalls DEF Init
  <2> QED BY <2>1, <2>2 DEF Init, TypeOK, NoIp
<1>3. SlotsAgree /\ LinkComing /\ IpComing /\ LinkGoing
  BY DEF Init, SlotsAgree, LinkComing, IpComing, LinkGoing
<1>4. NothingForgotten
  BY <1>1 DEF Init, NothingForgotten
<1> QED BY <1>2, <1>3, <1>4 DEF IInv

(* A step that changes nothing keeps the invariant.                        *)
LEMMA StutterIInv == IInv /\ UNCHANGED vars => IInv'
<1> SUFFICES ASSUME IInv, UNCHANGED vars PROVE IInv'
  OBVIOUS
<1>1. UNCHANGED <<slot, network, link, ip, want, mode, job, todo, failed, result,
                  outcome, host, residue, touched, faults>>
  BY DEF vars, engineVars
<1>2. TypeOK' /\ SlotsAgree' /\ LinkComing' /\ IpComing' /\ LinkGoing'
  BY <1>1 DEF IInv, TypeOK, SlotsAgree, LinkComing, IpComing, LinkGoing
<1>3. Reachable' = Reachable
  BY <1>1 DEF Reachable
<1>4. NothingForgotten'
  BY <1>1, <1>3 DEF IInv, NothingForgotten
<1> QED BY <1>2, <1>4 DEF IInv

(* Every step of the engine, of other programs and of the process keeps    *)
(* the invariant.                                                          *)
LEMMA NextIInv == IInv /\ Next => IInv'
<1> SUFFICES ASSUME IInv, Next PROVE IInv'
  OBVIOUS
<1>1. ASSUME NEW p \in Profiles,
             Deactivate(p) \/ \E n \in Networks : Activate(p, n)
      PROVE  IInv'
  BY <1>1, ActivateIInv, DeactivateIInv
<1>2. CASE AddNetwork \/ SelectNetwork \/ WaitForCompleted
  BY <1>2, LinkStepIInv, WaitForCompletedIInv
<1>3. ASSUME NEW gateway \in BOOLEAN, NEW dns \in BOOLEAN, Acquire(gateway, dns)
      PROVE  IInv'
  BY <1>3, AcquireIInv
<1>4. CASE AddAddress \/ AddRoute \/ DnsCheck \/ DnsWrite
  BY <1>4, IpStepIInv
<1>5. CASE StepFails
  BY <1>5, StepFailsIInv
<1>6. ASSUME NEW b \in BOOLEAN,
             \/ RemoveBestEffort(b) \/ RemoveAddress(b) \/ DnsOwner(b)
             \/ Disconnect(b) \/ RemoveNetwork(b)
      PROVE  IInv'
  BY <1>6, RemoveIInv
<1>7. CASE Return
  BY <1>7, ReturnIInv
<1>8. ASSUME NEW r \in Shared, NEW owner \in {None, Foreign}, Interfere(r, owner)
      PROVE  IInv'
  BY <1>8, InterfereIInv
<1>9. CASE ProcessEnds
  BY <1>9, ProcessEndsIInv
<1> QED BY <1>1, <1>2, <1>3, <1>4, <1>5, <1>6, <1>7, <1>8, <1>9
        DEF Next, EngineStep

(* The invariant holds at every moment, for any profiles, any number of    *)
(* faults and any interference.                                            *)
THEOREM Invariance == Spec => []IInv
<1>1. IInv /\ [Next]_vars => IInv'
  BY NextIInv, StutterIInv
<1> QED BY InitIInv, <1>1, PTL DEF Spec

(* The fields of the engine keep their types.                              *)
THEOREM TypeCorrect == Spec => []TypeOK
<1>1. IInv => TypeOK
  BY DEF IInv
<1> QED BY Invariance, <1>1, PTL

(* LinuxActivationEngine and the parts it calls never lose track of what   *)
(* they have installed: the recorded state reaches all of it, at whichever *)
(* system call an error, a fault or another program strikes.               *)
THEOREM NeverForgets == Spec => []NothingForgotten
<1>1. IInv => NothingForgotten
  BY DEF IInv
<1> QED BY Invariance, <1>1, PTL

(* The slot of the composite engine and the one of the supplicant engine   *)
(* agree between calls, so no failure makes later activations impossible.  *)
THEOREM SlotsNeverWedge == Spec => []NeverWedged
<1>1. IInv => NeverWedged
  BY DEF IInv, SlotsAgree, NeverWedged
<1> QED BY Invariance, <1>1, PTL

-----------------------------------------------------------------------------
(* What has been done: the second inductive invariant. The first one says  *)
(* that the way down reaches what is in place; this one that what is to be *)
(* in place is there or still to come, and what is to be gone is gone or   *)
(* still to go.                                                            *)

(* What the calls of the given kinds in a list are about.                  *)
By(ops, t) == { t[i].res : i \in { j \in DOMAIN t : t[j].op \in ops } }

Installing == {"configure_ipv4", "configure_ipv6", "add_route", "dns_write"}
Reporting == {"remove_address", "remove_network"}
Adding == {"configure_ipv4", "configure_ipv6"}

(* What a profile asks for, given the gateway and DNS of its lease.        *)
Asked(p, w) ==
    (IF Config[p].v4.method = "Disabled" THEN {}
     ELSE {A4(p)} \cup R4(p, w) \cup (IF w.dns THEN {Resolv} ELSE {}))
    \cup (IF Config[p].v6.method # "Manual" THEN {} ELSE {A6(p)} \cup R6(p))

(* Every address and route a profile asks for is in place, was changed by  *)
(* another program, or will be installed by a call that is still to come.  *)
ComingUp ==
    /\ mode = "up" /\ ~Doing("add_network") => host[Network(link)] = job
    /\ mode = "up" /\ network = job /\ ~Doing("acquire") =>
          \A r \in Asked(job, want) :
              host[r] = job \/ r \in touched \/ r \in By(Installing, todo)

AllThere ==
    mode = "idle" /\ slot # None =>
        \A r \in Asked(slot, want) \cup {Network(link)} :
            host[r] = slot \/ r \in touched

(* The addresses a profile may own.                                        *)
Addrs(p) ==
    (IF Config[p].v4.method = "Disabled" THEN {} ELSE {A4(p)})
    \cup (IF Config[p].v6.method # "Manual" THEN {} ELSE {A6(p)})

(* No profile owns an address that is not its own.                         *)
Confined ==
    \A r \in Resources :
        host[r] \in Profiles => (r[1] = "addr" => r \in Addrs(host[r]))

(* A family that is configured is recorded, or will be.                    *)
Complete(p, s, t) ==
    /\ Config[p].v4.method # "Disabled" => s.v4 \/ By({"configure_ipv4"}, t) # {}
    /\ Config[p].v6.method = "Manual" => s.v6 \/ By({"configure_ipv6"}, t) # {}

Recording ==
    /\ mode = "up" /\ network = job =>
          /\ By(Adding, todo) \subseteq Addrs(job)
          /\ Doing("acquire") => Config[job].v4.method # "Disabled"
          /\ ~Doing("acquire") => Complete(job, ip, todo)
    /\ mode = "idle" /\ slot # None => Complete(slot, ip, <<>>)

(* What a deactivation of the connection over network n answers for.       *)
AnsweredFor(n, r) == r[1] = "addr" \/ r = Network(n)

(* A deactivation without an error yet will still visit, with a call that  *)
(* reports errors, every address the profile owns, and its network.        *)
GoingDown ==
    mode = "down" /\ ~failed =>
        \A r \in Resources :
            host[r] = job /\ AnsweredFor(link, r) => r \in By(Reporting, todo)

Ours == host[Resolv] \in {None, job} \/ Resolv \in touched

(* A write of resolv.conf follows its check, or the check has been made.   *)
Checked(t, b) ==
    \A i \in DOMAIN t :
        t[i].op = "dns_write" =>
            /\ t[i].res = Resolv
            /\ \/ i > 1 /\ t[i - 1].op = "dns_check"
               \/ i = 1 /\ b

(* An unlink has just been decided on.                                     *)
Owned(t, b) ==
    \A i \in DOMAIN t :
        /\ t[i].op # "dns_write"
        /\ t[i].op = "dns_unlink" => i = 1 /\ b
        /\ t[i].op = "dns_owner" => t[i].res = Resolv

DnsGuarded ==
    /\ mode = "idle" => todo = <<>>
    /\ mode = "up" => Checked(todo, Ours)
    /\ mode \in {"undo", "down"} => Owned(todo, Ours)

Done ==
    /\ ComingUp /\ Confined /\ Recording /\ GoingDown /\ DnsGuarded
    /\ AllThere /\ ReportedCleanIsClean


(* The calls of some kinds in a list and in the rest of it.                *)
LEMMA ByTail ==
    ASSUME NEW o, NEW t \in Seq(Calls), t # <<>>
    PROVE  /\ Head(t).op \in o => By(o, t) = {Head(t).res} \cup By(o, Tail(t))
           /\ Head(t).op \notin o => By(o, t) = By(o, Tail(t))
<1> DEFINE u == Tail(t)
<1>1. /\ Len(t) \in Nat \ {0} /\ DOMAIN t = 1..Len(t) /\ Head(t) = t[1]
      /\ DOMAIN u = 1..(Len(t) - 1)
      /\ \A i \in 1..(Len(t) - 1) : u[i] = t[i + 1]
  BY HeadAndTail
<1> HIDE DEF u
<1>2. ASSUME NEW i \in DOMAIN t, t[i].op \in o
      PROVE  i = 1 \/ t[i].res \in By(o, u)
  <2>1. CASE i # 1
    <3>1. i - 1 \in DOMAIN u /\ u[i - 1] = t[i]
      BY <1>1, <2>1
    <3> QED BY <1>2, <3>1 DEF By
  <2> QED BY <2>1
<1>3. ASSUME NEW i \in DOMAIN u, u[i].op \in o
      PROVE  u[i].res \in By(o, t)
  <2>1. i + 1 \in DOMAIN t /\ u[i] = t[i + 1]
    BY <1>1
  <2> QED BY <1>3, <2>1 DEF By
<1>4. By(o, u) \subseteq By(o, t)
  BY <1>3 DEF By
<1>5. By(o, t) \subseteq {Head(t).res} \cup By(o, u)
  BY <1>1, <1>2 DEF By
<1>6. Head(t).op \in o => Head(t).res \in By(o, t)
  BY <1>1 DEF By
<1>7. Head(t).op \notin o => By(o, t) \subseteq By(o, u)
  BY <1>1, <1>2 DEF By
<1>8. /\ Head(t).op \in o => By(o, t) = {Head(t).res} \cup By(o, u)
      /\ Head(t).op \notin o => By(o, t) = By(o, u)
  BY <1>4, <1>5, <1>6, <1>7
<1> QED BY <1>8 DEF u

(* The calls of some kinds in two lists one after the other.               *)
LEMMA ByConcat ==
    ASSUME NEW o, NEW s \in Seq(Calls), NEW t \in Seq(Calls)
    PROVE  s \o t \in Seq(Calls) /\ By(o, s \o t) = By(o, s) \cup By(o, t)
<1> DEFINE u == s \o t
<1>1. /\ u \in Seq(Calls)
      /\ Len(s) \in Nat /\ Len(t) \in Nat
      /\ DOMAIN s = 1..Len(s) /\ DOMAIN t = 1..Len(t)
      /\ DOMAIN u = 1..(Len(s) + Len(t))
      /\ \A i \in 1..Len(s) : u[i] = s[i]
      /\ \A i \in 1..Len(t) : u[Len(s) + i] = t[i]
      /\ \A i \in (Len(s) + 1)..(Len(s) + Len(t)) :
             u[i] = t[i - Len(s)] /\ i - Len(s) \in 1..Len(t)
  BY Concat
<1> HIDE DEF u
<1>2. ASSUME NEW i \in DOMAIN u, u[i].op \in o
      PROVE  u[i].res \in By(o, s) \cup By(o, t)
  <2>1. CASE i <= Len(s)
    BY <1>1, <1>2, <2>1 DEF By
  <2>2. CASE ~(i <= Len(s))
    <3>1. i \in (Len(s) + 1)..(Len(s) + Len(t))
      BY <1>1, <2>2
    <3> QED BY <1>1, <1>2, <3>1 DEF By
  <2> QED BY <2>1, <2>2
<1>3. ASSUME NEW i \in DOMAIN s, s[i].op \in o PROVE s[i].res \in By(o, u)
  <2>1. i \in DOMAIN u /\ u[i] = s[i]
    BY <1>1
  <2> QED BY <1>3, <2>1 DEF By
<1>4. ASSUME NEW i \in DOMAIN t, t[i].op \in o PROVE t[i].res \in By(o, u)
  <2>1. Len(s) + i \in DOMAIN u /\ u[Len(s) + i] = t[i]
    BY <1>1
  <2> QED BY <1>4, <2>1 DEF By
<1>5. By(o, u) = By(o, s) \cup By(o, t)
  BY <1>2, <1>3, <1>4 DEF By
<1> QED BY <1>1, <1>5 DEF u

(* A list of one call, and the empty list.                                 *)
LEMMA ByOne ==
    ASSUME NEW o, NEW k \in Ops, NEW r \in Resources
    PROVE  /\ <<Step(k, r)>> \in Seq(Calls)
           /\ k \in o => By(o, <<Step(k, r)>>) = {r}
           /\ k \notin o => By(o, <<Step(k, r)>>) = {}
<1> DEFINE x == Step(k, r)
<1>1. x \in Calls /\ x.op = k /\ x.res = r
  BY StepCall
<1> HIDE DEF x
<1>2. <<x>> \in Seq(Calls) /\ DOMAIN <<x>> = {1} /\ <<x>>[1] = x
  BY <1>1
<1>3. /\ k \in o => By(o, <<x>>) = {r}
      /\ k \notin o => By(o, <<x>>) = {}
  BY <1>1, <1>2 DEF By
<1> QED BY <1>2, <1>3 DEF x

(* The empty list makes no calls.                                          *)
LEMMA ByNone == \A o : By(o, <<>>) = {}
<1>1. DOMAIN <<>> = {}
  OBVIOUS
<1> QED BY <1>1 DEF By

(* One call per route.                                                     *)
LEMMA ByEach ==
    ASSUME NEW o, NEW k \in Ops, NEW rs \in Seq(Routes)
    PROVE  /\ Each(k, rs) \in Seq(Calls)
           /\ k \in o => By(o, Each(k, rs)) = RouteSet(rs)
           /\ k \notin o => By(o, Each(k, rs)) = {}
<1>1. /\ Each(k, rs) \in Seq(Calls)
      /\ DOMAIN Each(k, rs) = DOMAIN rs
      /\ \A i \in DOMAIN rs :
             Each(k, rs)[i].op = k /\ Each(k, rs)[i].res = Route(rs[i])
  BY EachRoute
<1> QED BY <1>1 DEF By, RouteSet

(* An optional part.                                                       *)
LEMMA ByIf ==
    ASSUME NEW o, NEW b, NEW s \in Seq(Calls)
    PROVE  /\ If(b, s) \in Seq(Calls)
           /\ b => By(o, If(b, s)) = By(o, s)
           /\ ~b => By(o, If(b, s)) = {}
BY ByNone, EmptyCalls DEF If

(* After the first call the rest of a program is still checked.            *)
LEMMA CheckedTail ==
    ASSUME NEW t \in Seq(Calls), t # <<>>, NEW b, NEW c,
           Checked(t, b), Head(t).op = "dns_check" => c
    PROVE  Checked(Tail(t), c)
<1> DEFINE u == Tail(t)
<1>1. /\ Len(t) \in Nat \ {0} /\ DOMAIN t = 1..Len(t) /\ Head(t) = t[1]
      /\ DOMAIN u = 1..(Len(t) - 1)
      /\ \A i \in 1..(Len(t) - 1) : u[i] = t[i + 1]
  BY HeadAndTail
<1> HIDE DEF u
<1>2. ASSUME NEW i \in DOMAIN u, u[i].op = "dns_write"
      PROVE  /\ u[i].res = Resolv
             /\ (i > 1 /\ u[i - 1].op = "dns_check") \/ (i = 1 /\ c)
  <2>1. i + 1 \in DOMAIN t /\ u[i] = t[i + 1] /\ i + 1 > 1 /\ i + 1 # 1
    BY <1>1
  <2>2. t[(i + 1) - 1].op = "dns_check" /\ u[i].res = Resolv
    BY <1>2, <2>1 DEF Checked
  <2>3. t[i].op = "dns_check"
    BY <1>1, <2>2
  <2>4. CASE i = 1
    BY <1>1, <2>2, <2>3, <2>4
  <2>5. CASE i # 1
    <3>1. i > 1 /\ i - 1 \in 1..(Len(t) - 1) /\ (i - 1) + 1 = i
      BY <1>1, <2>5
    <3> QED BY <1>1, <2>2, <2>3, <3>1
  <2> QED BY <2>4, <2>5
<1>3. Checked(u, c)
  BY <1>2 DEF Checked
<1> QED BY <1>3 DEF u

(* Checked programs one after the other.                                   *)
LEMMA CheckedConcat ==
    ASSUME NEW s \in Seq(Calls), NEW t \in Seq(Calls),
           Checked(s, FALSE), Checked(t, FALSE)
    PROVE  Checked(s \o t, FALSE)
<1> DEFINE u == s \o t
<1>1. /\ Len(s) \in Nat /\ Len(t) \in Nat
      /\ DOMAIN s = 1..Len(s) /\ DOMAIN t = 1..Len(t)
      /\ DOMAIN u = 1..(Len(s) + Len(t))
      /\ \A i \in 1..Len(s) : u[i] = s[i]
      /\ \A i \in 1..Len(t) : u[Len(s) + i] = t[i]
      /\ \A i \in (Len(s) + 1)..(Len(s) + Len(t)) :
             u[i] = t[i - Len(s)] /\ i - Len(s) \in 1..Len(t)
  BY Concat
<1> HIDE DEF u
<1>2. ASSUME NEW i \in DOMAIN u, u[i].op = "dns_write"
      PROVE  u[i].res = Resolv /\ i > 1 /\ u[i - 1].op = "dns_check"
  <2>1. CASE i <= Len(s)
    <3>1. i \in DOMAIN s /\ u[i] = s[i]
      BY <1>1, <2>1
    <3>2. u[i].res = Resolv /\ i > 1 /\ s[i - 1].op = "dns_check"
      BY <1>2, <3>1 DEF Checked
    <3>3. i - 1 \in 1..Len(s)
      <4>1. Len(s) \in Nat /\ i \in 1..Len(s) /\ i > 1
        BY <1>1, <3>1, <3>2
      <4> QED BY <4>1
    <3> QED BY <1>1, <3>2, <3>3
  <2>2. CASE ~(i <= Len(s))
    <3> DEFINE k == i - Len(s)
    <3>1. /\ k \in DOMAIN t /\ u[i] = t[k] /\ i = Len(s) + k
      BY <1>1, <2>2
    <3> HIDE DEF k
    <3>2. u[i].res = Resolv /\ k > 1 /\ t[k - 1].op = "dns_check"
      BY <1>2, <3>1 DEF Checked
    <3>3. k - 1 \in 1..Len(t) /\ i - 1 = Len(s) + (k - 1) /\ i > 1
      <4>1. /\ Len(s) \in Nat /\ Len(t) \in Nat /\ k \in 1..Len(t) /\ k > 1
            /\ i = Len(s) + k
        BY <1>1, <3>1, <3>2
      <4> QED BY <4>1
    <3> QED BY <1>1, <3>2, <3>3
  <2> QED BY <2>1, <2>2
<1>3. Checked(u, FALSE)
  BY <1>2 DEF Checked
<1> QED BY <1>3 DEF u

(* The rest of a teardown has no unlink left.                              *)
LEMMA OwnedTail ==
    ASSUME NEW t \in Seq(Calls), t # <<>>, NEW b, Owned(t, b)
    PROVE  Owned(Tail(t), FALSE)
<1> DEFINE u == Tail(t)
<1>1. /\ Len(t) \in Nat \ {0} /\ DOMAIN t = 1..Len(t)
      /\ DOMAIN u = 1..(Len(t) - 1)
      /\ \A i \in 1..(Len(t) - 1) : u[i] = t[i + 1]
  BY HeadAndTail
<1> HIDE DEF u
<1>2. ASSUME NEW i \in DOMAIN u
      PROVE  /\ u[i].op # "dns_write" /\ u[i].op # "dns_unlink"
             /\ u[i].op = "dns_owner" => u[i].res = Resolv
  <2>1. i + 1 \in DOMAIN t /\ u[i] = t[i + 1] /\ i + 1 # 1
    BY <1>1
  <2> QED BY <2>1 DEF Owned
<1>3. Owned(u, FALSE)
  BY <1>2 DEF Owned
<1> QED BY <1>3 DEF u

(* The calls of a teardown as it is planned.                               *)
Planned == { c \in Calls : /\ c.op \notin {"dns_write", "dns_unlink"}
                           /\ c.op = "dns_owner" => c.res = Resolv }

(* Such a list unlinks nothing before it has read the owner.               *)
LEMMA PlannedOwned ==
    ASSUME NEW t \in Seq(Planned)
    PROVE  t \in Seq(Calls) /\ Owned(t, FALSE)
<1>1. DOMAIN t = 1..Len(t) /\ Len(t) \in Nat /\ \A i \in DOMAIN t : t[i] \in Planned
  OBVIOUS
<1>2. \A i \in DOMAIN t : t[i] \in Calls
  BY <1>1 DEF Planned
<1>3. t \in Seq(Calls)
  <2>1. t \in [1..Len(t) -> Calls]
    BY <1>1, <1>2
  <2> QED BY <1>1, <2>1
<1> QED BY <1>1, <1>3 DEF Owned, Planned

-----------------------------------------------------------------------------
(* What the programs do.                                                   *)

(* A program brings up what profile p asks for with lease w, and checks    *)
(* resolv.conf before writing it.                                          *)
Fulfils(t, p, w) ==
    /\ Asked(p, w) \subseteq By(Installing, t)
    /\ By(Adding, t) \subseteq Addrs(p)
    /\ Config[p].v4.method # "Disabled" => By({"configure_ipv4"}, t) # {}
    /\ Config[p].v6.method = "Manual" => By({"configure_ipv6"}, t) # {}
    /\ Checked(t, FALSE)

(* The calls of a family: its address, then its routes.                    *)
LEMMA FamilyDoes ==
    ASSUME NEW k \in Adding, NEW a \in Resources, NEW rs \in Seq(Routes)
    PROVE  LET t == <<Step(k, a)>> \o Each("add_route", rs)
           IN  /\ t \in Seq(Calls)
               /\ By(Installing, t) = {a} \cup RouteSet(rs)
               /\ By(Adding, t) = {a}
               /\ By({"configure_ipv4"}, t) = IF k = "configure_ipv4" THEN {a} ELSE {}
               /\ By({"configure_ipv6"}, t) = IF k = "configure_ipv6" THEN {a} ELSE {}
               /\ Checked(t, FALSE)
<1> DEFINE x == <<Step(k, a)>>
           e == Each("add_route", rs)
<1>1. k \in Ops /\ "add_route" \in Ops /\ k \in Installing /\ "add_route" \in Installing
      /\ "add_route" \notin Adding /\ k \in {"configure_ipv4", "configure_ipv6"}
  BY DEF Adding, Ops, Installing
<1>2. /\ x \in Seq(Calls) /\ By(Installing, x) = {a} /\ By(Adding, x) = {a}
      /\ k = "configure_ipv4" => /\ By({"configure_ipv4"}, x) = {a}
                                 /\ By({"configure_ipv6"}, x) = {}
      /\ k = "configure_ipv6" => /\ By({"configure_ipv4"}, x) = {}
                                 /\ By({"configure_ipv6"}, x) = {a}
  <2>3. x \in Seq(Calls) /\ By(Installing, x) = {a} /\ By(Adding, x) = {a}
    BY <1>1, ByOne
  <2>4. ASSUME k = "configure_ipv4"
        PROVE  By({"configure_ipv4"}, x) = {a} /\ By({"configure_ipv6"}, x) = {}
    <3>1. "configure_ipv4" \in Ops
      BY <1>1, <2>4
    <3>2. By({"configure_ipv4"}, <<Step("configure_ipv4", a)>>) = {a}
      BY <3>1, ByOne
    <3>3. By({"configure_ipv6"}, <<Step("configure_ipv4", a)>>) = {}
      <4>1. "configure_ipv4" \notin {"configure_ipv6"}
        OBVIOUS
      <4> QED BY <3>1, <4>1, ByOne
    <3> QED BY <2>4, <3>2, <3>3
  <2>5. ASSUME k = "configure_ipv6"
        PROVE  By({"configure_ipv4"}, x) = {} /\ By({"configure_ipv6"}, x) = {a}
    <3>1. "configure_ipv6" \in Ops
      BY <1>1, <2>5
    <3>2. By({"configure_ipv6"}, <<Step("configure_ipv6", a)>>) = {a}
      BY <3>1, ByOne
    <3>3. By({"configure_ipv4"}, <<Step("configure_ipv6", a)>>) = {}
      <4>1. "configure_ipv6" \notin {"configure_ipv4"}
        OBVIOUS
      <4> QED BY <3>1, <4>1, ByOne
    <3> QED BY <2>5, <3>2, <3>3
  <2> QED BY <2>3, <2>4, <2>5
<1>3. /\ e \in Seq(Calls) /\ By(Installing, e) = RouteSet(rs) /\ By(Adding, e) = {}
      /\ By({"configure_ipv4"}, e) = {} /\ By({"configure_ipv6"}, e) = {}
  <2>1. e \in Seq(Calls) /\ By(Installing, e) = RouteSet(rs) /\ By(Adding, e) = {}
    BY <1>1, ByEach
  <2>2. By({"configure_ipv4"}, e) = {}
    BY <1>1, ByEach
  <2>3. By({"configure_ipv6"}, e) = {}
    BY <1>1, ByEach
  <2> QED BY <2>1, <2>2, <2>3
<1>4. Checked(x, FALSE)
  <2>1. DOMAIN x = {1} /\ x[1].op = k
    BY <1>1, StepCall
  <2> QED BY <1>1, <2>1 DEF Checked
<1>5. Checked(e, FALSE)
  <2>1. DOMAIN e = DOMAIN rs /\ \A i \in DOMAIN rs : e[i].op = "add_route"
    BY <1>1, EachRoute
  <2> HIDE DEF e
  <2> QED BY <2>1 DEF Checked
<1> HIDE DEF x, e
<1>6. Checked(x \o e, FALSE)
  BY <1>2, <1>3, <1>4, <1>5, CheckedConcat
<1>7. /\ x \o e \in Seq(Calls)
      /\ \A o : By(o, x \o e) = By(o, x) \cup By(o, e)
  BY <1>2, <1>3, ByConcat
<1>8. /\ x \o e \in Seq(Calls)
      /\ By(Installing, x \o e) = {a} \cup RouteSet(rs)
      /\ By(Adding, x \o e) = {a}
      /\ By({"configure_ipv4"}, x \o e) = IF k = "configure_ipv4" THEN {a} ELSE {}
      /\ By({"configure_ipv6"}, x \o e) = IF k = "configure_ipv6" THEN {a} ELSE {}
  BY <1>1, <1>2, <1>3, <1>7
<1> QED BY <1>6, <1>8 DEF x, e

(* The check and the write of resolv.conf.                                 *)
LEMMA DnsDoes ==
    ASSUME NEW b
    PROVE  LET t == If(b, << Step("dns_check", Resolv), Step("dns_write", Resolv) >>)
           IN  /\ t \in Seq(Calls)
               /\ b => By(Installing, t) = {Resolv}
               /\ ~b => By(Installing, t) = {}
               /\ By(Adding, t) = {}
               /\ By({"configure_ipv4"}, t) = {}
               /\ By({"configure_ipv6"}, t) = {}
               /\ Checked(t, FALSE)
<1> DEFINE c == Step("dns_check", Resolv)
           d == Step("dns_write", Resolv)
           cd == <<c, d>>
<1>1. /\ c \in Calls /\ c.op = "dns_check" /\ c.res = Resolv
      /\ d \in Calls /\ d.op = "dns_write" /\ d.res = Resolv
  <2>1. "dns_check" \in Ops /\ "dns_write" \in Ops /\ Resolv \in Resources
    BY DEF Ops, Resources, Shared
  <2> QED BY <2>1, StepCall
<1> HIDE DEF c, d
<1>2. /\ cd \in Seq(Calls) /\ DOMAIN cd = {1, 2} /\ cd[1] = c /\ cd[2] = d
  BY <1>1
<1> HIDE DEF cd
<1>3. By(Installing, cd) = {Resolv} /\ By(Adding, cd) = {}
  BY <1>1, <1>2 DEF By, Installing, Adding
<1>4. By({"configure_ipv4"}, cd) = {} /\ By({"configure_ipv6"}, cd) = {}
  BY <1>1, <1>2 DEF By
<1>5. Checked(cd, FALSE)
  BY <1>1, <1>2 DEF Checked
<1>6. Checked(<<>>, FALSE)
  <2>1. DOMAIN <<>> = {}
    OBVIOUS
  <2> QED BY <2>1 DEF Checked
<1>7. CASE b
  <2>1. If(b, cd) = cd
    BY <1>7 DEF If
  <2>2. If(b, <<c, d>>) = cd
    BY <2>1 DEF cd
  <2> QED BY <1>2, <1>3, <1>4, <1>5, <1>7, <2>2 DEF c, d
<1>8. CASE ~b
  <2>1. If(b, <<c, d>>) = <<>>
    BY <1>8 DEF If
  <2> QED BY <1>6, <1>8, <2>1, ByNone, EmptyCalls DEF c, d
<1> QED BY <1>7, <1>8

(* The IPv6 part of a program.                                             *)
LEMMA Configure6Does ==
    ASSUME NEW p \in Profiles
    PROVE  /\ Configure6(p) \in Seq(Calls)
           /\ Config[p].v6.method = "Manual" =>
                 /\ By(Installing, Configure6(p)) = {A6(p)} \cup R6(p)
                 /\ By(Adding, Configure6(p)) = {A6(p)}
                 /\ By({"configure_ipv6"}, Configure6(p)) = {A6(p)}
           /\ Config[p].v6.method # "Manual" => By(Adding, Configure6(p)) = {}
           /\ Checked(Configure6(p), FALSE)
<1> DEFINE t == <<Step("configure_ipv6", A6(p))>> \o Each("add_route", Routes6(p))
<1>1. Configure6(p) = If(Config[p].v6.method = "Manual", t)
  BY DEF Configure6, A6
<1>2. Routes6(p) \in Seq(Routes) /\ A6(p) \in Resources /\ "configure_ipv6" \in Adding
  <2>1. [gateway |-> FALSE, dns |-> FALSE] \in Flags
    BY DEF Flags
  <2>2. Routes6(p) \in Seq(Routes)
    BY <2>1, RouteLists
  <2> QED BY <2>2, ProfileResources DEF Adding
<1>3. /\ t \in Seq(Calls)
      /\ By(Installing, t) = {A6(p)} \cup R6(p)
      /\ By(Adding, t) = {A6(p)}
      /\ By({"configure_ipv6"}, t) = {A6(p)}
      /\ Checked(t, FALSE)
  BY <1>2, FamilyDoes DEF R6
<1> HIDE DEF t
<1>4. CASE Config[p].v6.method = "Manual"
  <2>1. Configure6(p) = t
    BY <1>1, <1>4 DEF If
  <2> QED BY <1>3, <1>4, <2>1
<1>5. CASE Config[p].v6.method # "Manual"
  <2>1. Configure6(p) = <<>>
    BY <1>1, <1>5 DEF If
  <2>2. Checked(<<>>, FALSE)
    <3>1. DOMAIN <<>> = {}
      OBVIOUS
    <3> QED BY <3>1 DEF Checked
  <2> QED BY <1>5, <2>1, <2>2, ByNone, EmptyCalls
<1> QED BY <1>4, <1>5

(* With IPv4, the program is the IPv4 part, DNS and the IPv6 part.         *)
LEMMA BothDo ==
    ASSUME NEW p \in Profiles, NEW w \in Flags, Config[p].v4.method # "Disabled"
    PROVE  Fulfils(Configure4(p, w) \o Configure6(p), p, w)
<1> DEFINE t4 == <<Step("configure_ipv4", A4(p))>> \o Each("add_route", Routes4(p, w))
           td == If(w.dns, << Step("dns_check", Resolv), Step("dns_write", Resolv) >>)
           t6 == Configure6(p)
<1>1. Configure4(p, w) = t4 \o td
  BY DEF Configure4, A4
<1>2. /\ t4 \in Seq(Calls)
      /\ By(Installing, t4) = {A4(p)} \cup R4(p, w)
      /\ By(Adding, t4) = {A4(p)}
      /\ By({"configure_ipv4"}, t4) = {A4(p)}
      /\ By({"configure_ipv6"}, t4) = {}
      /\ Checked(t4, FALSE)
  <2>1. Routes4(p, w) \in Seq(Routes) /\ A4(p) \in Resources
    BY RouteLists, ProfileResources
  <2>2. "configure_ipv4" \in Adding
    BY DEF Adding
  <2> QED BY <2>1, <2>2, FamilyDoes DEF R4
<1>3. /\ td \in Seq(Calls)
      /\ w.dns => By(Installing, td) = {Resolv}
      /\ ~w.dns => By(Installing, td) = {}
      /\ By(Adding, td) = {}
      /\ Checked(td, FALSE)
  BY DnsDoes
<1>4. /\ t6 \in Seq(Calls)
      /\ Config[p].v6.method = "Manual" =>
            /\ By(Installing, t6) = {A6(p)} \cup R6(p)
            /\ By(Adding, t6) = {A6(p)}
            /\ By({"configure_ipv6"}, t6) = {A6(p)}
      /\ Config[p].v6.method # "Manual" => By(Adding, t6) = {}
      /\ Checked(t6, FALSE)
  BY Configure6Does
<1> HIDE DEF t4, td, t6
<1> DEFINE u == t4 \o td
           v == u \o t6
<1>5. u \in Seq(Calls) /\ Checked(u, FALSE) /\ \A o : By(o, u) = By(o, t4) \cup By(o, td)
  BY <1>2, <1>3, ByConcat, CheckedConcat
<1> HIDE DEF u
<1>6. v \in Seq(Calls) /\ Checked(v, FALSE) /\ \A o : By(o, v) = By(o, u) \cup By(o, t6)
  BY <1>4, <1>5, ByConcat, CheckedConcat
<1> HIDE DEF v
<1>7. \A o : By(o, v) = By(o, t4) \cup By(o, td) \cup By(o, t6)
  BY <1>5, <1>6
<1>8. Asked(p, w) \subseteq By(Installing, v)
  BY <1>2, <1>3, <1>4, <1>7 DEF Asked
<1>9. By(Adding, v) \subseteq Addrs(p)
  BY <1>2, <1>3, <1>4, <1>7 DEF Addrs
<1>10. /\ By({"configure_ipv4"}, v) # {}
       /\ Config[p].v6.method = "Manual" => By({"configure_ipv6"}, v) # {}
  BY <1>2, <1>4, <1>7
<1>11. Fulfils(v, p, w)
  BY <1>6, <1>8, <1>9, <1>10 DEF Fulfils
<1> QED BY <1>1, <1>11 DEF u, v, t6

(* Without IPv4, the program is the IPv6 part.                             *)
LEMMA Configure6Fulfils ==
    ASSUME NEW p \in Profiles, NEW w \in Flags, Config[p].v4.method = "Disabled"
    PROVE  Fulfils(Configure6(p), p, w)
BY Configure6Does DEF Fulfils, Asked, Addrs

(* What a profile asks for is what its outcome must have configured.       *)
LEMMA AskedConfigured == \A p \in Profiles : Configured(p) = Asked(p, want)
<1> SUFFICES ASSUME NEW p \in Profiles PROVE Configured(p) = Asked(p, want)
  OBVIOUS
<1>1. \A rs : { Route(r) : r \in Range(rs) } = RouteSet(rs)
  BY DEF Range, RouteSet
<1>2. /\ { Route(r) : r \in Range(Routes4(p, want)) } = R4(p, want)
      /\ { Route(r) : r \in Range(Routes6(p)) } = R6(p)
  BY <1>1 DEF R4, R6
<1> QED BY <1>2 DEF Configured, Asked, A4, A6

(* A teardown makes no write, reads the owner of resolv.conf before it     *)
(* unlinks it, and removes the recorded addresses and the network with     *)
(* calls whose errors it reports.                                          *)
LEMMA TeardownDoes ==
    ASSUME NEW p \in Profiles, NEW n \in Networks, NEW s \in IpStates, NEW w \in Flags
    PROVE  LET t == Teardown(p, s, w) \o LinkDown(n)
           IN  /\ Owned(t, FALSE)
               /\ Network(n) \in By(Reporting, t)
               /\ s.v4 => A4(p) \in By(Reporting, t)
               /\ s.v6 => A6(p) \in By(Reporting, t)
<1> DEFINE d  == << Step("dns_owner", Resolv) >>
           e4 == Each("remove_route", Routes4(p, w))
           l  == << Step("release", Lease(p)) >>
           g  == << Step("remove_route", Route(Default4)) >>
           a4 == << Step("remove_address", A4(p)) >>
           e6 == Each("remove_route", Routes6(p))
           a6 == << Step("remove_address", A6(p)) >>
           dd == If(s.dns, d)
           ll == If(s.lease, l)
           gg == If(w.gateway \/ Config[p].v4.via, g)
           h4 == e4 \o ll \o gg
           t4 == h4 \o a4
           t6 == e6 \o a6
           k  == LinkDown(n)
<1>1. /\ Resolv \in Resources /\ Lease(p) \in Resources /\ Network(n) \in Resources
      /\ Route(Default4) \in Resources /\ A4(p) \in Resources /\ A6(p) \in Resources
      /\ Routes4(p, w) \in Seq(Routes) /\ Routes6(p) \in Seq(Routes)
  BY ProfileResources, NetworkResource, RouteLists
<1>2. ASSUME NEW o \in {"remove_route", "release", "remove_address", "disconnect",
                        "remove_network"}, NEW r \in Resources
      PROVE  Step(o, r) \in Planned /\ o \in Ops
  <2>1. o \in Ops
    BY DEF Ops
  <2> QED BY <2>1, StepCall DEF Planned
<1>3. Step("dns_owner", Resolv) \in Planned
  <2>1. "dns_owner" \in Ops
    BY DEF Ops
  <2> QED BY <1>1, <2>1, StepCall DEF Planned
<1>4. /\ d \in Seq(Planned) /\ l \in Seq(Planned) /\ g \in Seq(Planned)
      /\ a4 \in Seq(Planned) /\ a6 \in Seq(Planned) /\ <<>> \in Seq(Planned)
  <2>1. /\ Step("release", Lease(p)) \in Planned
        /\ Step("remove_route", Route(Default4)) \in Planned
        /\ Step("remove_address", A4(p)) \in Planned
        /\ Step("remove_address", A6(p)) \in Planned
    BY <1>1, <1>2
  <2>2. \A x \in Planned : <<x>> \in Seq(Planned)
    OBVIOUS
  <2>3. <<>> \in Seq(Planned)
    OBVIOUS
  <2> QED BY <1>3, <2>1, <2>2, <2>3
<1>5. ASSUME NEW rs \in Seq(Routes) PROVE Each("remove_route", rs) \in Seq(Planned)
  <2> DEFINE e == Each("remove_route", rs)
  <2>1. /\ Len(rs) \in Nat /\ DOMAIN rs = 1..Len(rs)
        /\ e = [i \in 1..Len(rs) |-> Step("remove_route", Route(rs[i]))]
    BY DEF Each
  <2>2. \A i \in 1..Len(rs) : Route(rs[i]) \in Resources
    BY <2>1 DEF Resources, Shared
  <2>3. \A i \in 1..Len(rs) : Step("remove_route", Route(rs[i])) \in Planned
    BY <1>2, <2>2
  <2>4. e \in [1..Len(rs) -> Planned]
    BY <2>1, <2>3
  <2> HIDE DEF e
  <2>5. e \in Seq(Planned)
    BY <2>1, <2>4
  <2> QED BY <2>5 DEF e
<1>6. e4 \in Seq(Planned) /\ e6 \in Seq(Planned)
  BY <1>1, <1>5
<1>7. k \in Seq(Planned) /\ Network(n) \in By(Reporting, k)
  <2> DEFINE x == Step("disconnect", Network(n))
             y == Step("remove_network", Network(n))
  <2>1. x \in Planned /\ y \in Planned /\ y.op = "remove_network" /\ y.res = Network(n)
    BY <1>1, <1>2, StepCall
  <2>2. k = <<x, y>>
    BY DEF LinkDown
  <2> HIDE DEF x, y, k
  <2>3. k \in Seq(Planned) /\ 2 \in DOMAIN k /\ k[2] = y
    BY <2>1, <2>2
  <2> QED BY <2>1, <2>3 DEF By, Reporting
<1>8. A4(p) \in By(Reporting, a4) /\ A6(p) \in By(Reporting, a6)
  <2>1. "remove_address" \in Reporting /\ "remove_address" \in Ops
    BY DEF Reporting, Ops
  <2> QED BY <1>1, <2>1, ByOne
<1>9. Teardown(p, s, w) \o k = ((dd \o If(s.v4, t4)) \o If(s.v6, t6)) \o k
  BY DEF Teardown, dd, d, e4, ll, l, gg, g, a4, e6, a6, A4, A6
<1> HIDE DEF d, l, g, a4, a6, e4, e6, k
<1>10. \A b, x \in Seq(Planned) : If(b, x) \in Seq(Planned)
  BY <1>4 DEF If
<1>11. \A x, y \in Seq(Planned) : x \o y \in Seq(Planned)
  BY Concat
<1>12. ASSUME NEW x \in Seq(Planned), NEW y \in Seq(Planned)
       PROVE  /\ x \o y \in Seq(Planned)
              /\ By(Reporting, x \o y) = By(Reporting, x) \cup By(Reporting, y)
  BY <1>11, PlannedOwned, ByConcat
<1>13. dd \in Seq(Planned) /\ ll \in Seq(Planned) /\ gg \in Seq(Planned)
  BY <1>4 DEF If
<1> HIDE DEF dd, ll, gg
<1>14. h4 \in Seq(Planned)
  BY <1>6, <1>11, <1>13
<1> HIDE DEF h4
<1>15. t4 \in Seq(Planned) /\ A4(p) \in By(Reporting, t4)
  BY <1>4, <1>8, <1>12, <1>14
<1>16. t6 \in Seq(Planned) /\ A6(p) \in By(Reporting, t6)
  BY <1>4, <1>6, <1>8, <1>12
<1> HIDE DEF t4, t6
<1> DEFINE i4 == If(s.v4, t4)
           i6 == If(s.v6, t6)
<1>17. /\ i4 \in Seq(Planned) /\ i6 \in Seq(Planned)
       /\ s.v4 => A4(p) \in By(Reporting, i4)
       /\ s.v6 => A6(p) \in By(Reporting, i6)
  BY <1>4, <1>15, <1>16 DEF If
<1> HIDE DEF i4, i6
<1> DEFINE u == dd \o i4
           v == u \o i6
           t == v \o k
<1>18. u \in Seq(Planned) /\ By(Reporting, u) = By(Reporting, dd) \cup By(Reporting, i4)
  BY <1>12, <1>13, <1>17
<1> HIDE DEF u
<1>19. v \in Seq(Planned) /\ By(Reporting, v) = By(Reporting, u) \cup By(Reporting, i6)
  BY <1>12, <1>17, <1>18
<1> HIDE DEF v
<1>20. t \in Seq(Planned) /\ By(Reporting, t) = By(Reporting, v) \cup By(Reporting, k)
  BY <1>7, <1>12, <1>19
<1> HIDE DEF t
<1>21. Owned(t, FALSE)
  BY <1>20, PlannedOwned
<1>22. t = Teardown(p, s, w) \o LinkDown(n)
  BY <1>9 DEF t, v, u, i4, i6, k
<1> QED BY <1>7, <1>17, <1>18, <1>19, <1>20, <1>21, <1>22

-----------------------------------------------------------------------------
(* The invariant phase by phase.                                           *)

First(t, o) == t # <<>> /\ Head(t).op = o

(* A step that ends within an activation.                                  *)
LEMMA UpDone ==
    ASSUME mode' = "up", Confined', Checked(todo', Ours'),
           ~First(todo', "add_network") => host'[Network(link')] = job',
           network' = job' =>
               /\ By(Adding, todo') \subseteq Addrs(job')
               /\ First(todo', "acquire") => Config[job'].v4.method # "Disabled"
               /\ ~First(todo', "acquire") =>
                     /\ Complete(job', ip', todo')
                     /\ \A r \in Asked(job', want') :
                            \/ host'[r] = job' \/ r \in touched'
                            \/ r \in By(Installing, todo')
    PROVE  Done'
<1>1. ComingUp'
  BY DEF ComingUp, Doing, First
<1>2. Recording'
  BY DEF Recording, Doing, First
<1>3. GoingDown' /\ AllThere' /\ ReportedCleanIsClean'
  BY DEF GoingDown, AllThere, ReportedCleanIsClean
<1>4. DnsGuarded'
  BY DEF DnsGuarded
<1> QED BY <1>1, <1>2, <1>3, <1>4 DEF Done

(* A step that ends within a rollback or a deactivation.                   *)
LEMMA DownDone ==
    ASSUME mode' \in {"undo", "down"}, Confined', GoingDown', Owned(todo', Ours')
    PROVE  Done'
<1>1. ComingUp' /\ Recording' /\ AllThere' /\ ReportedCleanIsClean'
  BY DEF ComingUp, Recording, AllThere, ReportedCleanIsClean
<1>2. DnsGuarded'
  BY DEF DnsGuarded
<1> QED BY <1>1, <1>2 DEF Done

(* A step that ends between two calls.                                     *)
LEMMA IdleDone ==
    ASSUME mode' = "idle", todo' = <<>>, Confined', AllThere',
           ReportedCleanIsClean', slot' # None => Complete(slot', ip', <<>>)
    PROVE  Done'
<1>1. ComingUp' /\ GoingDown' /\ DnsGuarded'
  BY DEF ComingUp, GoingDown, DnsGuarded
<1>2. Recording'
  BY DEF Recording
<1> QED BY <1>1, <1>2 DEF Done

(* Owners change to no profile, or not at all.                             *)
LEMMA ConfinedShrinks ==
    ASSUME Confined,
           \A q \in Resources : host'[q] = host[q] \/ host'[q] \notin Profiles
    PROVE  Confined'
BY DEF Confined

(* A resource is installed where it belongs.                               *)
LEMMA ConfinedInstall ==
    ASSUME Confined, host \in [Resources -> Owners], job \in Profiles,
           NEW x \in Resources, Install(x),
           x[1] = "addr" => x \in Addrs(job)
    PROVE  /\ Confined'
           /\ host'[x] = job
           /\ \A q \in Resources : host[q] = job => host'[q] = job
<1>1. /\ host' = [host EXCEPT ![x] = job]
      /\ host'[x] = job
      /\ \A q \in Resources \ {x} : host'[q] = host[q]
  BY DEF Install
<1> QED BY <1>1 DEF Confined

(* The kinds of the resources.                                             *)
LEMMA Kinds ==
    ASSUME NEW p \in Profiles
    PROVE  /\ A4(p)[1] = "addr" /\ A6(p)[1] = "addr"
           /\ Lease(p)[1] = "lease" /\ Resolv[1] = "resolv"
           /\ \A r : Route(r)[1] = "route"
BY DEF A4, A6, Address, Lease, Resolv, Route

(* Other programs leave wpa_supplicant's networks alone.                   *)
LEMMA NotShared == \A n \in Networks : Network(n) \notin Shared
BY DEF Network, Shared, Address, Route, Resolv

(* Networks and addresses are resources a deactivation answers for.        *)
LEMMA AnsweredResources ==
    ASSUME NEW n \in Networks
    PROVE  \A r \in {Network(n)} \cup {Address(a) : a \in Addresses} :
               r \in Resources /\ AnsweredFor(n, r)
<1>1. \A a : Address(a)[1] = "addr"
  BY DEF Address
<1>2. \A a \in Addresses : Address(a) \in Resources
  BY DEF Resources, Shared
<1> QED BY <1>1, <1>2, NetworkResource DEF AnsweredFor

(* What is asked for are addresses and routes of the host, and resolv.conf. *)
LEMMA AskedResources ==
    ASSUME NEW p \in Profiles, NEW w \in Flags
    PROVE  Asked(p, w) \subseteq Resources
<1>1. /\ A4(p) \in Resources /\ A6(p) \in Resources /\ Resolv \in Resources
      /\ Routes4(p, w) \in Seq(Routes) /\ Routes6(p) \in Seq(Routes)
  BY ProfileResources, RouteLists
<1>2. R4(p, w) \subseteq Resources /\ R6(p) \subseteq Resources
  BY <1>1 DEF R4, R6, RouteSet, Resources, Shared
<1> QED BY <1>1, <1>2 DEF Asked

(* An activation starts by adding the network.                             *)
LEMMA LinkUpChecked ==
    ASSUME NEW n \in Networks
    PROVE  Checked(LinkUp(n), FALSE)
<1> DEFINE x == Step("add_network", Network(n))
           y == Step("select_network", Network(n))
           z == Step("wait_for_completed", Network(n))
<1>1. x.op # "dns_write" /\ y.op # "dns_write" /\ z.op # "dns_write"
  BY DEF Step
<1>2. LinkUp(n) = <<x, y, z>>
  BY DEF LinkUp
<1> HIDE DEF x, y, z
<1> QED BY <1>1, <1>2 DEF Checked

(* A check that is not needed does no harm.                                *)
LEMMA CheckedWeaken ==
    ASSUME NEW t, NEW b, NEW c, Checked(t, b), b => c
    PROVE  Checked(t, c)
BY DEF Checked

(* The same for an unlink.                                                 *)
LEMMA OwnedWeaken ==
    ASSUME NEW t, NEW b, NEW c, Owned(t, b), b => c
    PROVE  Owned(t, c)
BY DEF Owned

-----------------------------------------------------------------------------
(* The steps.                                                              *)

(* An activation starts with everything still to come.                     *)
LEMMA ActivateDone ==
    ASSUME IInv, Done, NEW p \in Profiles, NEW n \in Networks,
           Activate(p, n)
    PROVE  Done'
<1>1. /\ network = None /\ None \notin Profiles
      /\ mode' = "up" /\ job' = p /\ link' = n
      /\ todo' = LinkUp(n)
      /\ UNCHANGED <<network, host>>
  BY EngineAssumption DEF Activate
<1>2. Confined'
  BY <1>1, ConfinedShrinks DEF Done
<1>3. Checked(todo', Ours')
  BY <1>1, LinkUpChecked, CheckedWeaken
<1>4. First(todo', "add_network")
  BY <1>1, LinkUpCalls DEF First
<1> QED BY <1>1, <1>2, <1>3, <1>4, UpDone

(* Adding and selecting the network.                                       *)
LEMMA LinkStepDone ==
    ASSUME IInv, Done, AddNetwork \/ SelectNetwork
    PROVE  Done'
<1>1. /\ mode = "up" /\ todo # <<>> /\ todo' = Tail(todo)
      /\ Head(todo).op \in {"add_network", "select_network"}
      /\ UNCHANGED <<network, link, mode, job>>
  BY DEF AddNetwork, SelectNetwork, Doing
<1>2. /\ Typed /\ job \in Profiles /\ link \in Networks /\ network # job /\ todo \in Seq(Calls)
  BY <1>1, Phases, UpHead
<1>3. Checked(todo', Ours')
  BY <1>1, <1>2, CheckedTail DEF Done, DnsGuarded
<1>4. CASE AddNetwork
  <2>1. Install(Network(link)) /\ Network(link) \in Resources
    BY <1>1, <1>2, <1>4, UpHead, ProfileResources, NetworkResource DEF AddNetwork, Doing
  <2>2. Confined' /\ host'[Network(link)] = job
    <3>1. Network(link)[1] # "addr"
      BY DEF Network
    <3> QED BY <1>2, <2>1, <3>1, ConfinedInstall DEF Done, Typed
  <2> QED BY <1>1, <1>2, <1>3, <2>2, UpDone
<1>5. CASE SelectNetwork
  <2>1. host' = host /\ ~Doing("add_network")
    BY <1>5 DEF SelectNetwork, Doing
  <2>2. Confined'
    BY <2>1, ConfinedShrinks DEF Done
  <2>3. host'[Network(link)] = job
    BY <1>1, <2>1 DEF Done, ComingUp
  <2> QED BY <1>1, <1>2, <1>3, <2>2, <2>3, UpDone
<1> QED BY <1>4, <1>5

(* A program that fulfils what is asked for.                               *)
LEMMA FulfilsDone ==
    ASSUME mode' = "up", Confined', job' \in Profiles, network' = job',
           host'[Network(link')] = job', Fulfils(todo', job', want'),
           Programmed(todo', job', ip', want'), todo' \in Seq(Calls)
    PROVE  Done'
<1>1. ~First(todo', "acquire")
  <2>1. todo' # <<>> => 1 \in DOMAIN todo' /\ Head(todo') = todo'[1]
    BY HeadAndTail
  <2> QED BY <2>1 DEF First, Programmed
<1>2. Complete(job', ip', todo')
  BY DEF Fulfils, Complete
<1>3. Checked(todo', Ours')
  BY CheckedWeaken DEF Fulfils
<1>4. /\ By(Adding, todo') \subseteq Addrs(job')
      /\ \A r \in Asked(job', want') : r \in By(Installing, todo')
  BY DEF Fulfils
<1> QED BY <1>1, <1>2, <1>3, <1>4, UpDone

(* The link is up; the IP configuration is planned, or waits for a lease.  *)
LEMMA WaitForCompletedDone ==
    ASSUME IInv, Done, WaitForCompleted
    PROVE  Done'
<1>1. /\ mode = "up" /\ todo # <<>> /\ Head(todo).op = "wait_for_completed"
      /\ network' = job /\ want' = ManualWant(job) /\ todo' = IpUp(job)
      /\ UNCHANGED <<link, ip, mode, job, host, touched>>
  BY DEF WaitForCompleted, Doing
<1>2. job \in Profiles /\ want' \in Flags
  <2>1. job \in Profiles
    BY <1>1, Phases
  <2>2. Config[job].v4 \in IpConfig
    BY <2>1, EngineAssumption
  <2>3. Config[job].v4.gateway \in BOOLEAN /\ Config[job].v4.dns \in BOOLEAN
    BY <2>2 DEF IpConfig
  <2> QED BY <1>1, <2>1, <2>3 DEF ManualWant, Flags
<1>3. Confined' /\ host'[Network(link)] = job
  <2>1. Confined'
    BY <1>1, ConfinedShrinks DEF Done
  <2> QED BY <1>1, <2>1 DEF Done, ComingUp, Doing
<1>4. Config[job].v4.method \in Methods
  BY <1>2, ProfileResources
<1>5. CASE Config[job].v4.method = "Automatic"
  <2>1. todo' = << Step("acquire", Lease(job)) >>
    BY <1>1, <1>5 DEF IpUp
  <2>2. "acquire" \in Ops /\ Lease(job) \in Resources
    BY <1>2, ProfileResources DEF Ops
  <2>3. "acquire" \notin Adding
    BY DEF Adding
  <2>4. First(todo', "acquire")
    BY <2>1, <2>2, StepCall DEF First
  <2>5. By(Adding, todo') = {}
    BY <2>1, <2>2, <2>3, ByOne
  <2>6. Checked(todo', Ours')
    <3> DEFINE x == Step("acquire", Lease(job))
    <3>1. x.op # "dns_write"
      BY DEF Step
    <3> HIDE DEF x
    <3>2. DOMAIN <<x>> = {1} /\ <<x>>[1] = x
      OBVIOUS
    <3>3. Checked(<<x>>, Ours')
      BY <3>1, <3>2 DEF Checked
    <3> QED BY <2>1, <3>3 DEF x
  <2> QED BY <1>1, <1>3, <1>5, <2>4, <2>5, <2>6, UpDone
<1>6. CASE Config[job].v4.method # "Automatic"
  <2>1. Fulfils(IpUp(job), job, want')
    <3>1. CASE Config[job].v4.method = "Disabled"
      <4>1. IpUp(job) = Configure6(job)
        BY <3>1 DEF IpUp
      <4> QED BY <1>2, <3>1, <4>1, Configure6Fulfils
    <3>2. CASE Config[job].v4.method = "Manual"
      <4>1. IpUp(job) = Configure4(job, want') \o Configure6(job)
        BY <1>1, <3>2 DEF IpUp
      <4> QED BY <1>2, <3>2, <4>1, BothDo
    <3> QED BY <1>4, <1>6, <3>1, <3>2 DEF Methods
  <2>2. todo' \in Seq(Calls) /\ Programmed(todo', job, ip, want')
    <3>1. \/ IpUp(job) = Configure6(job)
          \/ IpUp(job) = Configure4(job, want') \o Configure6(job)
      BY <1>1, <1>4, <1>6 DEF IpUp, Methods
    <3> QED BY <1>1, <1>2, <3>1, ProgrammedConfigure
  <2> QED BY <1>1, <1>2, <1>3, <2>1, <2>2, FulfilsDone
<1> QED BY <1>5, <1>6

(* The lease decides what else is asked for.                               *)
LEMMA AcquireDone ==
    ASSUME IInv, Done, NEW gateway \in BOOLEAN, NEW dns \in BOOLEAN,
           Acquire(gateway, dns)
    PROVE  Done'
<1>1. /\ mode = "up" /\ todo # <<>> /\ Head(todo).op = "acquire"
      /\ Install(Target)
      /\ want' = [gateway |-> gateway, dns |-> dns]
      /\ todo' = Configure4(job, want') \o Configure6(job)
      /\ UNCHANGED <<network, link, mode, job, touched>>
  BY DEF Acquire, Doing
<1>2. network = job /\ Target = Lease(job)
  BY <1>1, UpHead
<1>3. Typed /\ job \in Profiles /\ link \in Networks /\ want' \in Flags
  BY <1>1, Phases DEF Flags
<1>4. Config[job].v4.method # "Disabled"
  BY <1>1, <1>2 DEF Done, Recording, Doing
<1>5. host[Network(link)] = job
  BY <1>1 DEF Done, ComingUp, Doing
<1>6. Confined' /\ host'[Network(link)] = job
  <2>1. Lease(job) \in Resources /\ Network(link) \in Resources
        /\ Lease(job)[1] = "lease"
    BY <1>3, ProfileResources, NetworkResource, Kinds
  <2> QED BY <1>1, <1>2, <1>3, <1>5, <2>1, ConfinedInstall DEF Done, Typed
<1>7. Fulfils(todo', job, want')
  BY <1>1, <1>3, <1>4, BothDo
<1>8. todo' \in Seq(Calls) /\ Programmed(todo', job, ip', want')
  BY <1>1, <1>3, ProgrammedConfigure
<1> QED BY <1>1, <1>2, <1>3, <1>6, <1>7, <1>8, FulfilsDone

(* A call of the IP program has installed what it is about.                *)
LEMMA IpStepDone ==
    ASSUME IInv, Done, AddAddress \/ AddRoute \/ DnsCheck \/ DnsWrite
    PROVE  Done'
<1>1. /\ mode = "up" /\ todo # <<>> /\ todo' = Tail(todo)
      /\ UNCHANGED <<network, link, want, mode, job, touched>>
      /\ Head(todo).op \in {"configure_ipv4", "configure_ipv6", "add_route",
                            "dns_check", "dns_write"}
  BY DEF AddAddress, AddRoute, DnsCheck, DnsWrite, Doing
<1>2. network = job /\ Programmed(todo, job, ip, want) /\ Target \in Resources
  BY <1>1, UpHead
<1>3. /\ Typed /\ job \in Profiles /\ link \in Networks /\ want \in Flags
      /\ ip \in IpStates
      /\ todo \in Seq(Calls)
  BY <1>1, Phases
<1>4. /\ host[Network(link)] = job
      /\ By(Adding, todo) \subseteq Addrs(job)
      /\ Complete(job, ip, todo)
      /\ \A r \in Asked(job, want) :
             host[r] = job \/ r \in touched \/ r \in By(Installing, todo)
      /\ Checked(todo, Ours)
  BY <1>1, <1>2 DEF Done, ComingUp, Recording, DnsGuarded, Doing
<1>5. todo' \in Seq(Calls) /\ ~First(todo', "add_network") /\ ~First(todo', "acquire")
  <2>1. Tail(todo) \in Seq(Calls)
    BY <1>1, <1>3, HeadAndTail
  <2>2. Programmed(Tail(todo), job, [v4 |-> TRUE, v6 |-> TRUE], want)
    BY <1>1, <1>2, <1>3, ProgrammedTail
  <2>3. Tail(todo) # <<>> =>
           1 \in DOMAIN Tail(todo) /\ Head(Tail(todo)) = Tail(todo)[1]
    BY <2>1, HeadAndTail
  <2> QED BY <1>1, <2>1, <2>2, <2>3 DEF First, Programmed
<1>6. ASSUME Confined', Head(todo).op = "dns_check" => Ours',
             \A q \in Resources : host[q] = job => host'[q] = job,
             Head(todo).op \in Installing => host'[Target] = job,
             ip.v4 \/ Head(todo).op = "configure_ipv4" => ip'.v4,
             ip.v6 \/ Head(todo).op = "configure_ipv6" => ip'.v6
      PROVE  Done'
  <2>1. Checked(todo', Ours')
    BY <1>1, <1>3, <1>4, <1>6, CheckedTail
  <2>2. host'[Network(link)] = job
    BY <1>3, <1>4, <1>6, ProfileResources, NetworkResource
  <2>3. By(Adding, todo') \subseteq Addrs(job)
    <3>1. By(Adding, Tail(todo)) \subseteq By(Adding, todo)
      BY <1>1, <1>3, ByTail
    <3> QED BY <1>1, <1>4, <3>1
  <2>4. Complete(job, ip', todo')
    <3>1. By({"configure_ipv4"}, todo) # {} =>
             \/ Head(todo).op = "configure_ipv4"
             \/ By({"configure_ipv4"}, Tail(todo)) # {}
      BY <1>1, <1>3, ByTail
    <3>2. By({"configure_ipv6"}, todo) # {} =>
             \/ Head(todo).op = "configure_ipv6"
             \/ By({"configure_ipv6"}, Tail(todo)) # {}
      BY <1>1, <1>3, ByTail
    <3> QED BY <1>1, <1>4, <1>6, <3>1, <3>2 DEF Complete
  <2>5. ASSUME NEW r \in Asked(job, want)
        PROVE  host'[r] = job \/ r \in touched \/ r \in By(Installing, todo')
    <3>1. r \in Resources
      BY <1>3, AskedResources
    <3>2. r \in By(Installing, todo) =>
             \/ Head(todo).op \in Installing /\ r = Target
             \/ r \in By(Installing, Tail(todo))
      BY <1>1, <1>3, ByTail DEF Target
    <3> QED BY <1>1, <1>4, <1>6, <3>1, <3>2
  <2> QED BY <1>1, <1>5, <1>6, <2>1, <2>2, <2>3, <2>4, <2>5, UpDone
<1>7. Confined /\ host \in [Resources -> Owners]
  BY <1>3 DEF Done, Typed
<1>8. CASE AddAddress
  <2>1. ip' = Recorded /\ Install(Target)
        /\ Head(todo).op \in {"configure_ipv4", "configure_ipv6"}
    BY <1>8 DEF AddAddress, Doing
  <2>2. /\ ip.v4 \/ Head(todo).op = "configure_ipv4" => ip'.v4
        /\ ip.v6 \/ Head(todo).op = "configure_ipv6" => ip'.v6
    BY <1>1, <1>3, <2>1, RecordedGrows
  <2>3. Target \in Addrs(job)
    <3>1. Head(todo).op \in Adding
      BY <2>1 DEF Adding
    <3>2. By(Adding, todo) = {Head(todo).res} \cup By(Adding, Tail(todo))
      BY <1>1, <1>3, <3>1, ByTail
    <3> QED BY <1>4, <3>2 DEF Target
  <2>4. Target[1] = "addr"
    BY <1>3, <2>3, Kinds DEF Addrs
  <2>5. /\ Confined' /\ host'[Target] = job
        /\ \A q \in Resources : host[q] = job => host'[q] = job
    BY <1>2, <1>3, <1>7, <2>1, <2>3, <2>4, ConfinedInstall
  <2> QED BY <1>6, <2>1, <2>2, <2>5
<1>9. CASE AddRoute
  <2>1. Install(Target) /\ Head(todo).op = "add_route" /\ ip' = ip
    BY <1>9 DEF AddRoute, Doing
  <2>2. Target[1] = "route"
    <3>1. Target \in R4(job, want) \cup R6(job)
      BY <1>1, <2>1, UpHead
    <3> QED BY <1>3, <3>1, Kinds DEF R4, R6, RouteSet
  <2>3. /\ Confined' /\ host'[Target] = job
        /\ \A q \in Resources : host[q] = job => host'[q] = job
    BY <1>2, <1>3, <1>7, <2>1, <2>2, ConfinedInstall
  <2> QED BY <1>6, <2>1, <2>3
<1>10. CASE DnsCheck
  <2>1. host' = host /\ ip' = ip /\ Head(todo).op = "dns_check"
        /\ host[Resolv] \in {None, job}
    BY <1>10 DEF DnsCheck, Doing
  <2>2. Confined' /\ Ours'
    BY <1>1, <1>7, <2>1, ConfinedShrinks DEF Ours
  <2>3. Head(todo).op \notin Installing
    BY <2>1 DEF Installing
  <2> QED BY <1>6, <2>1, <2>2, <2>3
<1>11. CASE DnsWrite
  <2>1. Install(Resolv) /\ Head(todo).op = "dns_write" /\ ip' = [ip EXCEPT !.dns = TRUE]
    BY <1>11 DEF DnsWrite, Doing
  <2>2. Resolv \in Resources /\ Resolv[1] = "resolv"
    BY <1>3, ProfileResources, NetworkResource, Kinds
  <2>3. /\ Confined' /\ host'[Resolv] = job
        /\ \A q \in Resources : host[q] = job => host'[q] = job
    BY <1>3, <1>7, <2>1, <2>2, ConfinedInstall
  <2>4. ip'.v4 = ip.v4 /\ ip'.v6 = ip.v6
    BY <1>3, <2>1 DEF IpStates
  <2>5. Target = Resolv
    <3>1. 1 \in DOMAIN todo /\ Head(todo) = todo[1]
      BY <1>1, <1>3, HeadAndTail
    <3> QED BY <1>4, <2>1, <3>1 DEF Checked, Target
  <2> QED BY <1>6, <2>1, <2>3, <2>4, <2>5
<1> QED BY <1>8, <1>9, <1>10, <1>11

(* A failed step plans the way down.                                       *)
LEMMA StepFailsDone ==
    ASSUME IInv, Done, StepFails
    PROVE  Done'
<1>1. /\ mode = "up" /\ todo # <<>> /\ mode' = "undo" /\ ip' = Recorded
      /\ todo' = IF network = job
                 THEN Teardown(job, Recorded, want) \o LinkDown(link)
                 ELSE If(Head(todo).op # "add_network",
                         << Step("remove_network", Network(link)) >>)
      /\ UNCHANGED <<link, want, job, host, touched>>
  BY DEF StepFails
<1>2. job \in Profiles /\ link \in Networks /\ want \in Flags /\ ip \in IpStates
  BY <1>1, Phases
<1>3. Confined' /\ GoingDown'
  BY <1>1, ConfinedShrinks DEF Done, GoingDown
<1>4. Owned(todo', FALSE)
  <2>1. CASE network = job
    <3>1. Recorded \in IpStates
      BY <1>1, <1>2, RecordedGrows
    <3> QED BY <1>1, <1>2, <2>1, <3>1, TeardownDoes
  <2>2. CASE network # job
    <3> DEFINE x == Step("remove_network", Network(link))
    <3>1. x.op = "remove_network"
      BY DEF Step
    <3>2. todo' = <<>> \/ todo' = <<x>>
      BY <1>1, <2>2 DEF If
    <3> HIDE DEF x
    <3>3. DOMAIN <<>> = {} /\ DOMAIN <<x>> = {1} /\ <<x>>[1] = x
      OBVIOUS
    <3>4. Owned(<<>>, FALSE) /\ Owned(<<x>>, FALSE)
      BY <3>1, <3>3 DEF Owned
    <3> QED BY <3>2, <3>4
  <2> QED BY <2>1, <2>2
<1>5. Owned(todo', Ours')
  BY <1>4, OwnedWeaken
<1> QED BY <1>1, <1>3, <1>5, DownDone

(* A deactivation plans to visit every address and the network.            *)
LEMMA DeactivateDone ==
    ASSUME IInv, Done, NEW p \in Profiles, Deactivate(p)
    PROVE  Done'
<1>1. /\ mode = "idle" /\ slot = p /\ mode' = "down" /\ job' = p
      /\ todo' = Teardown(p, ip, want) \o LinkDown(link)
      /\ link' = link /\ host' = host
  BY DEF Deactivate
<1>2. /\ ip \in IpStates /\ want \in Flags /\ None \notin Profiles
      /\ link \in Networks
  BY <1>1, Phases
<1>3. /\ Owned(todo', FALSE)
      /\ Network(link) \in By(Reporting, todo')
      /\ ip.v4 => A4(p) \in By(Reporting, todo')
      /\ ip.v6 => A6(p) \in By(Reporting, todo')
  BY <1>1, <1>2, TeardownDoes
<1>4. /\ Config[p].v4.method # "Disabled" => ip.v4
      /\ Config[p].v6.method = "Manual" => ip.v6
  BY <1>1, <1>2, ByNone DEF Done, Recording, Complete
<1>5. Addrs(p) \cup {Network(link)} \subseteq By(Reporting, todo')
  BY <1>3, <1>4 DEF Addrs
<1>6. GoingDown'
  <2>1. \A r \in Resources : host[r] = p /\ AnsweredFor(link, r)
                                => r \in Addrs(p) \cup {Network(link)}
    BY DEF Done, Confined, AnsweredFor
  <2> QED BY <1>1, <1>5, <2>1 DEF GoingDown
<1>7. Confined'
  BY <1>1, ConfinedShrinks DEF Done
<1>8. Owned(todo', Ours')
  BY <1>3, OwnedWeaken
<1> QED BY <1>1, <1>6, <1>7, <1>8, DownDone

(* A call of a teardown removes its target, or the job has an error to     *)
(* report, or the target is none that must be reported.                    *)
LEMMA RemoveDone ==
    ASSUME IInv, Done, NEW b \in BOOLEAN,
           \/ RemoveBestEffort(b) \/ RemoveAddress(b) \/ DnsOwner(b)
           \/ Disconnect(b) \/ RemoveNetwork(b)
    PROVE  Done'
<1>1. /\ mode \in {"undo", "down"} /\ todo # <<>>
      /\ UNCHANGED <<link, mode, job, touched>>
  BY DEF RemoveBestEffort, RemoveAddress, DnsOwner, Disconnect,
         RemoveNetwork, Removing, Doing
<1>2. /\ Typed /\ job \in Profiles /\ todo \in Seq(Calls) /\ None \notin Profiles
      /\ Tail(todo) \in Seq(Calls)
      /\ Head(todo) = todo[1] /\ 1 \in DOMAIN todo
  BY <1>1, Phases, HeadAndTail
<1>3. Target \in Resources
  <2>1. Head(todo) \in Calls
    BY <1>1, <1>2, HeadAndTail
  <2> QED BY <2>1 DEF Calls, Target
<1>4. Owned(todo, Ours) /\ Owned(Tail(todo), FALSE) /\ Confined
      /\ (mode = "down" /\ ~failed =>
            \A r \in Resources :
                host[r] = job /\ AnsweredFor(link, r) => r \in By(Reporting, todo))
  BY <1>1, <1>2, OwnedTail DEF Done, DnsGuarded, GoingDown
<1>5. ASSUME NEW gone \in BOOLEAN, Uninstall(Target, gone)
      PROVE  /\ \A q \in Resources : host'[q] = host[q] \/ host'[q] \notin Profiles
             /\ gone => host'[Target] = None
  BY <1>2, <1>3, <1>5 DEF Uninstall, Typed
<1>6. /\ Head(todo).op \in Reporting =>
            By(Reporting, todo) = {Target} \cup By(Reporting, Tail(todo))
      /\ Head(todo).op \notin Reporting =>
            By(Reporting, todo) = By(Reporting, Tail(todo))
  BY <1>1, <1>2, ByTail DEF Target
<1>7. CASE RemoveBestEffort(b)
  <2>1. /\ Uninstall(Target, b) /\ todo' = Tail(todo) /\ failed' = failed
        /\ Head(todo).op \notin Reporting
    BY <1>7 DEF RemoveBestEffort, Removing, Doing, Reporting
  <2>2. Confined'
    BY <1>4, <1>5, <2>1, ConfinedShrinks
  <2>3. GoingDown'
    BY <1>1, <1>2, <1>4, <1>5, <1>6, <2>1 DEF GoingDown
  <2>4. Owned(todo', Ours')
    BY <1>4, <2>1, OwnedWeaken
  <2> QED BY <1>1, <2>2, <2>3, <2>4, DownDone
<1>8. CASE RemoveAddress(b) \/ RemoveNetwork(b)
  <2>1. /\ Uninstall(Target, b) /\ todo' = Tail(todo) /\ failed' = (failed \/ ~b)
        /\ Head(todo).op \in Reporting
    BY <1>8 DEF RemoveAddress, RemoveNetwork, Removing, Doing, Reporting
  <2>2. Confined'
    BY <1>4, <1>5, <2>1, ConfinedShrinks
  <2>3. GoingDown'
    <3> SUFFICES ASSUME mode = "down", ~failed', NEW r \in Resources,
                        host'[r] = job, AnsweredFor(link, r)
                 PROVE  r \in By(Reporting, todo')
      BY <1>1 DEF GoingDown
    <3>1. ~failed /\ b
      BY <2>1
    <3>2. host'[Target] = None
      BY <1>5, <2>1, <3>1
    <3>3. r # Target /\ host[r] = job
      BY <1>2, <1>5, <2>1, <3>2
    <3> QED BY <1>4, <1>6, <2>1, <3>1, <3>3
  <2>4. Owned(todo', Ours')
    BY <1>4, <2>1, OwnedWeaken
  <2> QED BY <1>1, <2>2, <2>3, <2>4, DownDone
<1>9. CASE Disconnect(b)
  <2>1. /\ host' = host /\ todo' = Tail(todo) /\ failed' = (failed \/ ~b)
        /\ Head(todo).op \notin Reporting
    BY <1>9 DEF Disconnect, Removing, Doing, Reporting
  <2>2. Confined'
    BY <1>4, <2>1, ConfinedShrinks
  <2>3. GoingDown'
    <3>1. ~failed' => ~failed
      BY <2>1
    <3> QED BY <1>1, <1>4, <1>6, <2>1, <3>1 DEF GoingDown
  <2>4. Owned(todo', Ours')
    BY <1>4, <2>1, OwnedWeaken
  <2> QED BY <1>1, <2>2, <2>3, <2>4, DownDone
<1>10. CASE DnsOwner(b)
  <2>1. /\ failed' = (failed \/ b) /\ Head(todo).op = "dns_owner"
        /\ \/ /\ todo' = << Step("dns_unlink", Target) >> \o Tail(todo)
              /\ host[Target] = job /\ host' = host
           \/ /\ todo' = Tail(todo)
              /\ Uninstall(Target, FALSE)
    BY <1>10 DEF DnsOwner, Removing, Doing
  <2>2. Target = Resolv
    BY <1>2, <1>4, <2>1 DEF Owned, Target
  <2>3. \A q \in Resources : host'[q] = host[q] \/ host'[q] \notin Profiles
    BY <1>5, <2>1
  <2>4. Confined'
    BY <1>4, <2>3, ConfinedShrinks
  <2>5. By(Reporting, todo') = By(Reporting, todo) /\ Owned(todo', Ours')
    <3>1. By(Reporting, todo) = By(Reporting, Tail(todo))
      BY <1>6, <2>1 DEF Reporting
    <3>2. CASE /\ todo' = << Step("dns_unlink", Target) >> \o Tail(todo)
               /\ host[Target] = job /\ host' = host
      <4> DEFINE x == Step("dns_unlink", Target)
                 u == Tail(todo)
                 v == <<x>> \o u
      <4>1. "dns_unlink" \in Ops /\ "dns_unlink" \notin Reporting
        BY DEF Ops, Reporting
      <4>2. x \in Calls /\ x.op = "dns_unlink"
        BY <1>3, <4>1, StepCall
      <4>3. <<x>> \in Seq(Calls) /\ By(Reporting, <<x>>) = {}
        BY <1>3, <4>1, ByOne
      <4>4. By(Reporting, v) = By(Reporting, u)
        <5> HIDE DEF x, u
        <5>1. By(Reporting, <<x>> \o u) = By(Reporting, <<x>>) \cup By(Reporting, u)
          <6>1. u \in Seq(Calls)
            BY <1>2 DEF u
          <6> QED BY <4>3, <6>1, ByConcat
        <5> QED BY <4>3, <5>1
      <4>5. Ours'
        BY <1>1, <2>2, <3>2 DEF Ours
      <4> HIDE DEF x, u
      <4>6. /\ Len(u) \in Nat /\ DOMAIN u = 1..Len(u)
            /\ DOMAIN v = 1..(1 + Len(u)) /\ v[1] = x
            /\ \A i \in 2..(1 + Len(u)) : v[i] = u[i - 1] /\ i - 1 \in 1..Len(u)
        <5>1. u \in Seq(Calls)
          BY <1>2 DEF u
        <5> QED BY <4>2, <5>1
      <4> HIDE DEF v
      <4>7. Owned(v, Ours')
        <5>1. Owned(u, FALSE)
          BY <1>4 DEF u
        <5>2. ASSUME NEW i \in DOMAIN v
              PROVE  /\ v[i].op # "dns_write"
                     /\ v[i].op = "dns_unlink" => i = 1
                     /\ v[i].op = "dns_owner" => v[i].res = Resolv
          <6>1. CASE i = 1
            BY <4>2, <4>6, <6>1
          <6>2. CASE i # 1
            <7>1. v[i] = u[i - 1] /\ i - 1 \in DOMAIN u
              BY <4>6, <6>2
            <7> QED BY <5>1, <7>1 DEF Owned
          <6> QED BY <6>1, <6>2
        <5> QED BY <4>5, <5>2 DEF Owned
      <4>8. todo' = v
        BY <3>2 DEF v, u, x
      <4> QED BY <3>1, <4>4, <4>7, <4>8 DEF u
    <3>3. CASE todo' = Tail(todo)
      BY <1>4, <3>1, <3>3, OwnedWeaken
    <3> QED BY <2>1, <3>2, <3>3
  <2>6. GoingDown'
    <3>1. ~failed' => ~failed
      BY <2>1
    <3> QED BY <1>1, <1>2, <1>4, <2>3, <2>5, <3>1 DEF GoingDown
  <2> QED BY <1>1, <2>4, <2>5, <2>6, DownDone
<1> QED BY <1>7, <1>8, <1>9, <1>10

(* Equal answers have equal parts.                                         *)
LEMMA SameAnswer ==
    ASSUME NEW a, NEW b, NEW c, NEW x, NEW y, NEW z,
           [op |-> a, profile |-> b, ok |-> c] = [op |-> x, profile |-> y, ok |-> z]
    PROVE  a = x /\ c = z
<1>1. /\ [op |-> a, profile |-> b, ok |-> c].op = a
      /\ [op |-> a, profile |-> b, ok |-> c].ok = c
      /\ [op |-> x, profile |-> y, ok |-> z].op = x
      /\ [op |-> x, profile |-> y, ok |-> z].ok = z
  OBVIOUS
<1> QED BY <1>1

(* A job that returns with nothing left to do has done what it reports.    *)
LEMMA ReturnDone ==
    ASSUME IInv, Done, Return
    PROVE  Done'
<1>1. /\ mode # "idle" /\ todo = <<>> /\ mode' = "idle"
      /\ slot' = IF mode = "up" THEN job ELSE slot
      /\ result' = [op |-> IF mode = "down" THEN "deactivate" ELSE "activate",
                    profile |-> job,
                    ok |-> mode = "up" \/ (mode = "down" /\ ~failed)]
      /\ UNCHANGED <<network, link, ip, want, job, todo, failed, host, touched>>
  BY DEF Return
<1>2. /\ job \in Profiles /\ link \in Networks /\ slot = None /\ want \in Flags
      /\ mode \in {"up", "undo", "down"}
  <2>1. mode \in {"idle", "up", "undo", "down"}
    BY DEF IInv, TypeOK
  <2> QED BY <1>1, <2>1, Phases
<1>3. ~Doing("add_network") /\ ~Doing("acquire")
  BY <1>1 DEF Doing
<1>4. mode = "up" => network = job
  BY <1>1, <1>2, Phases, LinkUpCalls
<1>5. Confined'
  BY <1>1, ConfinedShrinks DEF Done
<1>6. AllThere'
  <2>1. CASE mode = "up"
    <3>1. host[Network(link)] = job
          /\ \A r \in Asked(job, want) : host[r] = job \/ r \in touched
      BY <1>1, <1>3, <1>4, <2>1, ByNone DEF Done, ComingUp
    <3> QED BY <1>1, <2>1, <3>1 DEF AllThere
  <2>2. CASE mode # "up"
    BY <1>1, <1>2, <2>2 DEF AllThere
  <2> QED BY <2>1, <2>2
<1>7. slot' # None => Complete(slot', ip', <<>>)
  BY <1>1, <1>2, <1>3, <1>4 DEF Done, Recording
<1>8. ReportedCleanIsClean'
  <2> SUFFICES ASSUME result' = [op |-> "deactivate", profile |-> job', ok |-> TRUE]
               PROVE  \A r \in {Network(link')} \cup {Address(a) : a \in Addresses} :
                          host'[r] # job'
    BY DEF ReportedCleanIsClean
  <2>1. result'.op = "deactivate" /\ result'.ok = TRUE
    OBVIOUS
  <2>2. mode = "down"
    BY <1>1, <2>1
  <2>3. ~failed
    <3> DEFINE k == mode = "up" \/ (mode = "down" /\ ~failed)
               o == IF mode = "down" THEN "deactivate" ELSE "activate"
    <3>1. result' = [op |-> o, profile |-> job, ok |-> k]
      BY <1>1
    <3> HIDE DEF k, o
    <3>2. k = TRUE
      BY <3>1, SameAnswer
    <3>3. k
      BY <3>2
    <3> QED BY <2>2, <3>3 DEF k
  <2>4. \A r \in Resources : host[r] = job => ~AnsweredFor(link, r)
    BY <1>1, <2>2, <2>3, ByNone DEF Done, GoingDown
  <2>5. \A r \in {Network(link)} \cup {Address(a) : a \in Addresses} :
            r \in Resources /\ AnsweredFor(link, r)
    BY <1>2, AnsweredResources
  <2> QED BY <1>1, <2>4, <2>5
<1> QED BY <1>1, <1>5, <1>6, <1>7, <1>8, IdleDone

(* Other programs leave a trace where they change what is asked for.       *)
LEMMA InterfereDone ==
    ASSUME IInv, Done, NEW r \in Shared, NEW owner \in {None, Foreign},
           Interfere(r, owner)
    PROVE  Done'
<1>1. /\ UNCHANGED <<slot, network, link, ip, want, mode, job, todo, failed, result>>
      /\ host' = [host EXCEPT ![r] = owner] /\ touched' = touched \cup {r}
  BY DEF Interfere, engineVars
<1>2. Typed /\ r \in Resources /\ job \in Profiles \cup {None}
      /\ (mode # "idle" => job \in Profiles /\ link \in Networks)
      /\ (job # None => link \in Networks)
      /\ (slot # None => slot = job /\ slot \in Profiles)
      /\ want \in Flags
  <2>1. slot \in Profiles \cup {None} /\ (slot # None => slot = job)
    BY DEF IInv, TypeOK, SlotsAgree
  <2> QED BY <2>1, Phases DEF Resources
<1>3. None \notin Profiles /\ Foreign \notin Profiles
  BY EngineAssumption
<1>4. /\ \A q \in Resources : host'[q] = host[q] \/ host'[q] \notin Profiles
      /\ \A q \in Resources : host'[q] = host[q] \/ q \in touched'
      /\ \A q \in touched : q \in touched'
  BY <1>1, <1>2, <1>3 DEF Typed
<1>5. ASSUME NEW n \in Networks PROVE host'[Network(n)] = host[Network(n)]
  <2>1. Network(n) # r /\ Network(n) \in Resources
    BY NotShared, NetworkResource
  <2> QED BY <1>1, <1>2, <2>1 DEF Typed
<1>6. Confined'
  BY <1>4, ConfinedShrinks DEF Done
<1>7. ComingUp'
  <2>1. mode = "up" /\ ~Doing("add_network") => host'[Network(link)] = job
    BY <1>2, <1>5 DEF Done, ComingUp
  <2>2. mode = "up" /\ network = job /\ ~Doing("acquire") =>
           \A q \in Asked(job, want) :
               host'[q] = job \/ q \in touched' \/ q \in By(Installing, todo)
    BY <1>2, <1>4, AskedResources DEF Done, ComingUp
  <2> QED BY <1>1, <2>1, <2>2 DEF ComingUp, Doing
<1>8. Recording'
  BY <1>1 DEF Done, Recording, Doing
<1>9. GoingDown'
  BY <1>1, <1>2, <1>3, <1>4 DEF Done, GoingDown
<1>10. DnsGuarded'
  <2>1. Resolv \in Resources
    BY DEF Resources, Shared
  <2>2. Ours => Ours'
    BY <1>1, <1>4, <2>1 DEF Ours
  <2>3. /\ mode = "idle" => todo = <<>>
        /\ mode = "up" => Checked(todo, Ours')
        /\ mode \in {"undo", "down"} => Owned(todo, Ours')
    BY <2>2, CheckedWeaken, OwnedWeaken DEF Done, DnsGuarded
  <2> QED BY <1>1, <2>3 DEF DnsGuarded
<1>11. AllThere'
  <2>1. mode = "idle" /\ slot # None =>
           \A q \in Asked(slot, want) \cup {Network(link)} :
               host'[q] = slot \/ q \in touched'
    <3>1. ASSUME slot # None
          PROVE  Asked(slot, want) \cup {Network(link)} \subseteq Resources
      BY <1>2, <1>3, <3>1, AskedResources, NetworkResource
    <3> QED BY <1>4, <3>1 DEF Done, AllThere
  <2> QED BY <1>1, <2>1 DEF AllThere
<1>12. ReportedCleanIsClean'
  <2> SUFFICES ASSUME mode' = "idle", job' # None,
                      result' = [op |-> "deactivate", profile |-> job', ok |-> TRUE],
                      NEW q \in {Network(link')} \cup {Address(a) : a \in Addresses}
               PROVE  host'[q] # job'
    BY DEF ReportedCleanIsClean
  <2>1. q \in Resources /\ job \in Profiles
    BY <1>1, <1>2, AnsweredResources
  <2>2. host[q] # job
    BY <1>1 DEF Done, ReportedCleanIsClean
  <2> QED BY <1>1, <1>4, <2>1, <2>2
<1> QED BY <1>6, <1>7, <1>8, <1>9, <1>10, <1>11, <1>12 DEF Done

(* A new process has nothing to report.                                    *)
LEMMA ProcessEndsDone ==
    ASSUME IInv, Done, ProcessEnds
    PROVE  Done'
<1>1. /\ slot' = None /\ mode' = "idle" /\ job' = None /\ todo' = <<>>
      /\ host' = host
  BY DEF ProcessEnds
<1>2. Confined'
  BY <1>1, ConfinedShrinks DEF Done
<1>3. AllThere' /\ ReportedCleanIsClean'
  BY <1>1 DEF AllThere, ReportedCleanIsClean
<1> QED BY <1>1, <1>2, <1>3, IdleDone

(* The second invariant holds at the start.                                *)
LEMMA InitDone == Init => Done
<1> SUFFICES ASSUME Init PROVE Done
  OBVIOUS
<1>1. None \notin Profiles /\ host = [r \in Resources |-> None]
  BY EngineAssumption DEF Init
<1>2. Confined
  BY <1>1 DEF Confined
<1> QED BY <1>2 DEF Init, Done, ComingUp, Recording, GoingDown, DnsGuarded,
                    AllThere, ReportedCleanIsClean

(* What has been done is kept account of by every step.                    *)
LEMMA NextDone == IInv /\ Done /\ [Next]_vars => Done'
<1> SUFFICES ASSUME IInv, Done, [Next]_vars PROVE Done'
  OBVIOUS
<1>1. ASSUME NEW p \in Profiles,
             Deactivate(p) \/ \E n \in Networks : Activate(p, n)
      PROVE  Done'
  BY <1>1, ActivateDone, DeactivateDone
<1>2. CASE AddNetwork \/ SelectNetwork \/ WaitForCompleted
  BY <1>2, LinkStepDone, WaitForCompletedDone
<1>3. ASSUME NEW gateway \in BOOLEAN, NEW dns \in BOOLEAN, Acquire(gateway, dns)
      PROVE  Done'
  BY <1>3, AcquireDone
<1>4. CASE AddAddress \/ AddRoute \/ DnsCheck \/ DnsWrite
  BY <1>4, IpStepDone
<1>5. CASE StepFails
  BY <1>5, StepFailsDone
<1>6. ASSUME NEW b \in BOOLEAN,
             \/ RemoveBestEffort(b) \/ RemoveAddress(b) \/ DnsOwner(b)
             \/ Disconnect(b) \/ RemoveNetwork(b)
      PROVE  Done'
  BY <1>6, RemoveDone
<1>7. CASE Return
  BY <1>7, ReturnDone
<1>8. ASSUME NEW r \in Shared, NEW owner \in {None, Foreign}, Interfere(r, owner)
      PROVE  Done'
  BY <1>8, InterfereDone
<1>9. CASE ProcessEnds
  BY <1>9, ProcessEndsDone
<1>10. CASE UNCHANGED vars
  <2>1. UNCHANGED <<slot, network, link, ip, want, mode, job, todo, failed, result,
                    host, touched>>
    BY <1>10 DEF vars, engineVars
  <2>2. ComingUp' /\ Confined' /\ Recording' /\ GoingDown' /\ AllThere'
    BY <2>1 DEF Done, ComingUp, Confined, Recording, GoingDown, AllThere, Doing
  <2>3. DnsGuarded' /\ ReportedCleanIsClean'
    BY <2>1 DEF Done, DnsGuarded, Ours, ReportedCleanIsClean
  <2> QED BY <2>2, <2>3 DEF Done
<1> QED BY <1>1, <1>2, <1>3, <1>4, <1>5, <1>6, <1>7, <1>8, <1>9, <1>10
        DEF Next, EngineStep

(* At every moment what is asked for is in place, coming or taken by       *)
(* others, and what is to be removed is gone, going or reported.           *)
THEOREM Accounting == Spec => []Done
<1>1. Init => IInv /\ Done
  BY InitIInv, InitDone
<1>2. (IInv /\ Done) /\ [Next]_vars => (IInv /\ Done)'
  BY NextIInv, StutterIInv, NextDone
<1>3. Spec => [](IInv /\ Done)
  BY <1>1, <1>2, PTL DEF Spec
<1> QED BY <1>3, PTL

(* LinuxActivationEngine::activate answers Ok only when every address, the *)
(* routes, resolv.conf and the network of the profile and its lease are in *)
(* place, and they stay there but for what other programs change.          *)
THEOREM SuccessComplete == Spec => []SuccessIsComplete
<1>1. IInv /\ Done => SuccessIsComplete
  <2> SUFFICES ASSUME IInv, Done, mode = "idle", slot # None
               PROVE  \A r \in Configured(slot) \cup {Network(link)} :
                          host[r] = slot \/ r \in touched
    BY DEF SuccessIsComplete
  <2>1. slot \in Profiles
    BY DEF IInv, TypeOK
  <2>2. Configured(slot) = Asked(slot, want)
    BY <2>1, AskedConfigured
  <2> QED BY <2>2 DEF Done, AllThere
<1> QED BY Invariance, Accounting, <1>1, PTL

(* A deactivation that answers Ok has removed the addresses and its own    *)
(* network: teardown and the supplicant engine hand their errors back.     *)
(* Networks under other paths, left by earlier processes, may remain.      *)
THEOREM CleanAsReported == Spec => []ReportedCleanIsClean
<1>1. Done => ReportedCleanIsClean
  BY DEF Done
<1> QED BY Accounting, <1>1, PTL

(* LinuxDnsManager writes or unlinks resolv.conf only when it is free or   *)
(* its own, but for a race with another program in the same job.           *)
THEOREM DnsSpared == Spec => []ForeignDnsSpared
<1>1. IInv /\ Done => ForeignDnsSpared
  <2> SUFFICES ASSUME IInv, Done, Doing("dns_write") \/ Doing("dns_unlink")
               PROVE  Ours
    BY DEF ForeignDnsSpared, Ours
  <2>1. todo # <<>> /\ Head(todo).op \in {"dns_write", "dns_unlink"}
    BY DEF Doing
  <2>2. todo \in Seq(Calls) /\ mode \in {"idle", "up", "undo", "down"}
    BY DEF IInv, TypeOK
  <2>3. 1 \in DOMAIN todo /\ Head(todo) = todo[1]
    BY <2>1, <2>2, HeadAndTail
  <2>4. CASE mode = "up"
    <3>1. Head(todo).op # "dns_unlink"
      <4>1. CASE network # job
        <5>1. link \in Networks /\ todo \in {LinkUp(link), Tail(LinkUp(link)),
                                            Tail(Tail(LinkUp(link)))}
          BY <2>4, <4>1, Phases
        <5> QED BY <5>1, LinkUpCalls
      <4>2. CASE network = job /\ todo = << Step("acquire", Lease(job)) >>
        <5>1. Head(todo) = Step("acquire", Lease(job))
          BY <4>2
        <5> QED BY <5>1 DEF Step
      <4>3. CASE network = job /\ Programmed(todo, job, ip, want)
        BY <2>3, <4>3 DEF Programmed
      <4> QED BY <2>4, <4>1, <4>2, <4>3, Phases
    <3>2. Checked(todo, Ours)
      BY <2>4 DEF Done, DnsGuarded
    <3> QED BY <2>1, <2>3, <3>1, <3>2 DEF Checked
  <2>5. CASE mode \in {"undo", "down"}
    <3>1. Owned(todo, Ours)
      BY <2>5 DEF Done, DnsGuarded
    <3> QED BY <2>1, <2>3, <3>1 DEF Owned
  <2>6. mode # "idle"
    BY <2>1 DEF Done, DnsGuarded
  <2> QED BY <2>2, <2>4, <2>5, <2>6
<1> QED BY Invariance, Accounting, <1>1, PTL

=============================================================================
