--------------------------- MODULE DhcpServerProofs ---------------------------
(***************************************************************************)
(* The DHCP server gives every address to one client, keeps it as long as  *)
(* the client uses it and offers nobody a second, for any number of        *)
(* clients, leases and remembered addresses and any lease time well below  *)
(* half the clock.                                                         *)
(***************************************************************************)
EXTENDS DhcpServer, TLAPS, WellFoundedInduction

(* The times of the firmware, in milliseconds, are as TimeAssumption wants. *)
LEMMA FirmwareTimes == 24 * 60 * 60 * 1000 + 65536 - 1 < (65536 * 65536) \div 2
  OBVIOUS

(* The loop over the leases finds the first of them.                        *)
LEMMA FirstOf ==
  ASSUME NEW s \in SUBSET Nat, s # {}
  PROVE  First(s) \in s /\ \A j \in s : First(s) <= j
<1> DEFINE R == {ss \in Nat \X Nat : ss[1] < ss[2]}
<1>1. IsWellFoundedOn(R, Nat)
  BY NatLessThanWellFounded DEF OpToRel
<1> HIDE DEF R
<1>2. PICK i \in s : \A j \in s : ~(<<j, i>> \in R)
  BY <1>1, WFMin
<1>3. ASSUME NEW j \in s PROVE i <= j
  <2>1. i \in Nat /\ j \in Nat
    OBVIOUS
  <2>2. <<j, i>> \in Nat \X Nat /\ ~(<<j, i>>[1] < <<j, i>>[2])
    BY <1>2, <2>1 DEF R
  <2> QED BY <2>1, <2>2
<1> QED BY <1>3 DEF First

(* What is left of a lease that ends with unit e, at time t. *)
Remains(e, t) == (e * Unit + Unit - 1 - t) % Clock

(* The clock and its half.                                                  *)
LEMMA ClockType == Clock \in Nat /\ Clock > 0 /\ Clock \div 2 \in Nat /\ Clock \div 2 <= Clock
<1>1. Clock \in Nat
  BY TimeAssumption DEF Clock
<1> QED BY <1>1, TimeAssumption

(* The unit a time falls into.                                              *)
LEMMA UnitInClock ==
  ASSUME NEW t \in 0 .. Clock - 1
  PROVE  t \div Unit \in 0 .. Units - 1 /\ (t \div Unit) * Unit <= t /\ t < (t \div Unit) * Unit + Unit
  BY TimeAssumption DEF Clock

(* A tick takes one tick of what remains, also when the clock wraps.        *)
LEMMA RemainsLater ==
  ASSUME NEW e \in 0 .. Units - 1, NEW t \in 0 .. Clock - 1, Remains(e, t) > 0
  PROVE  Remains(e, (t + 1) % Clock) = Remains(e, t) - 1
  BY TimeAssumption DEF Clock, Remains

(* A number that is in the range, or one turn below it.                     *)
LEMMA Modulo ==
  ASSUME NEW m \in Nat, NEW z \in 0 .. m - 1, NEW w \in Int, w = z \/ w = z - m
  PROVE  w % m = z
  OBVIOUS

(* A lease that ends in unit q, the one that holds the time x at which it   *)
(* is to end, ends neither too early nor so late that it counts as past.    *)
LEMMA RemainsFrom ==
  ASSUME NEW t \in 0 .. Clock - 1, NEW x \in 0 .. Clock - 1, NEW q \in 0 .. Units - 1,
         x = t + LeaseTime \/ x = t + LeaseTime - Clock,
         q * Unit <= x, x < q * Unit + Unit
  PROVE  LeaseTime <= Remains(q, t) /\ Remains(q, t) < Clock \div 2
<1>1. /\ Unit \in Nat /\ Clock \in Nat /\ LeaseTime \in Nat /\ q * Unit \in Nat
      /\ Clock \div 2 \in Nat /\ Clock \div 2 <= Clock /\ LeaseTime + Unit - 1 < Clock \div 2
  BY TimeAssumption, ClockType
<1>2. PICK w \in Int : w = q * Unit + Unit - 1 - t
  BY <1>1
<1>3. PICK z \in 0 .. Clock - 1 : /\ z = LeaseTime + (q * Unit + Unit - 1 - x)
                                  /\ LeaseTime <= z /\ z < Clock \div 2
  BY <1>1
<1>4. w = z \/ w = z - Clock
  BY <1>1, <1>2, <1>3
<1>5. w % Clock = z
  BY <1>1, <1>4, Modulo
<1> QED BY <1>2, <1>3, <1>5 DEF Remains

(* The same of the unit that dhcp_server_process stores (dhcpserver.c:263). *)
LEMMA RemainsOfNew ==
  ASSUME NEW t \in 0 .. Clock - 1
  PROVE  LET e == ((t + LeaseTime) % Clock) \div Unit
         IN  /\ e \in 0 .. Units - 1
             /\ LeaseTime <= Remains(e, t) /\ Remains(e, t) < Clock \div 2
<1>1. PICK x \in 0 .. Clock - 1 : /\ x = (t + LeaseTime) % Clock
                                  /\ x = t + LeaseTime \/ x = t + LeaseTime - Clock
  BY TimeAssumption, ClockType
<1>2. PICK q \in 0 .. Units - 1 : q = x \div Unit /\ q * Unit <= x /\ x < q * Unit + Unit
  BY UnitInClock
<1>3. LeaseTime <= Remains(q, t) /\ Remains(q, t) < Clock \div 2
  BY <1>1, <1>2, RemainsFrom
<1> QED BY <1>1, <1>2, <1>3
-----------------------------------------------------------------------------
(* Lease a is c's, for at least as long as c counts on it.                  *)
Counts(c, a) ==
  /\ a \in Leases /\ mac[a] = c
  /\ left[c] <= Remains(expiry[a], now) /\ Remains(expiry[a], now) < Clock \div 2

(* What c uses, or is about to use by an acknowledgement that is not too    *)
(* late, counts.                                                            *)
LeasesCount ==
  \A c \in Clients :
    /\ rep[c][1] = "ack" => rep[c][2] \in Leases
    /\ \A a \in Leases : addr[c] = a => left[c] > 0 /\ Counts(c, a)
    /\ \A a \in Leases : rep[c] = <<"ack", a>> /\ left[c] > 0 => Counts(c, a)

(* The leases a client has without having asked for them from memory.       *)
Unasked(c) == Own(c) \ asked[c]

(* A lease that c may take without adding to those.                         *)
AddsNone(c, a) == a \in Leases => a \in asked[c] \/ Unasked(c) \subseteq {a}

(* Whatever is on the air cannot give a client a second lease it did not    *)
(* ask for from memory: what it is offered, and what it then asks for, is   *)
(* the one it has if it has one.                                            *)
OneEach ==
  \A c \in Clients :
    /\ \A i, j \in Unasked(c) : i = j
    /\ req[c][1] = "request" => AddsNone(c, req[c][2]) /\ rep[c][1] # "offer"
    /\ rep[c][1] = "offer" => AddsNone(c, rep[c][2])

DhcpInv == TypeOK /\ LeasesCount /\ OneEach

(* At power-on.                                                             *)
LEMMA DhcpInvInit == Init => DhcpInv
<1> SUFFICES ASSUME Init PROVE DhcpInv
  OBVIOUS
<1>1. 0 \in 0 .. Units - 1 /\ 0 \in 0 .. Clock - 1 /\ 0 \in 0 .. LeaseTime
  BY TimeAssumption, ClockType
<1>2. TypeOK
  BY <1>1 DEF Init, TypeOK
<1>3. \A c \in Clients : addr[c] \notin Leases /\ Own(c) = {} /\ Quiet(c)
  BY TimeAssumption DEF Init, Leases, NoAddr, Own, Quiet
<1>4. Nothing[1] \notin {"ack", "offer", "request"} /\ \A a : Nothing # <<"ack", a>>
  BY DEF Nothing
<1>5. LeasesCount
  BY <1>3, <1>4 DEF LeasesCount, Quiet
<1>6. OneEach
  BY <1>3, <1>4 DEF OneEach, Quiet, Unasked
<1> QED BY <1>2, <1>5, <1>6 DEF DhcpInv

(* A lease that a DISCOVER takes is not the client's own, and nobody's that *)
(* counts.                                                                  *)
LEMMA FreeIsUnused ==
  ASSUME DhcpInv, NEW c \in Clients, Free(c) # {}
  PROVE  /\ First(Free(c)) \in Leases
         /\ mac[First(Free(c))] # c
         /\ \A d \in Clients : ~Counts(d, First(Free(c)))
<1>1. Free(c) \in SUBSET Nat
  BY DEF Free, Leases
<1>2. First(Free(c)) \in Free(c)
  BY <1>1, FirstOf
<1>3. ASSUME NEW i \in Free(c) PROVE i \in Leases /\ mac[i] # c /\ \A d \in Clients : ~Counts(d, i)
  <2>1. i \in Leases /\ mac[i] # c /\ (mac[i] = NoMac \/ Remains(expiry[i], now) >= Clock \div 2)
    BY DEF Free, Expired, Remains, Leases
  <2>2. Remains(expiry[i], now) \in Int /\ Clock \div 2 \in Int
    BY <2>1, ClockType, TimeAssumption DEF Remains, DhcpInv, TypeOK, Leases
  <2> QED BY <2>1, <2>2, TimeAssumption DEF Counts
<1> QED BY <1>2, <1>3

(* Every step keeps the types. *)
LEMMA TypesKept == DhcpInv /\ [Next]_vars => TypeOK'
<1> SUFFICES ASSUME DhcpInv, [Next]_vars PROVE TypeOK'
  OBVIOUS
<1> USE TimeAssumption DEF TypeOK, DhcpInv
<1>1. ASSUME NEW c \in Clients, ServeDiscover(c) PROVE TypeOK'
  <2>1. Own(c) # {} => First(Own(c)) \in Leases
    <3>1. Own(c) \in SUBSET Nat
      BY DEF Own, Leases
    <3> QED BY <3>1, FirstOf DEF Own
  <2>2. Free(c) # {} => First(Free(c)) \in Leases
    BY FreeIsUnused
  <2>3. Leases \subseteq 0 .. MaxIp
    BY DEF Leases
  <2> QED BY <1>1, <2>1, <2>2, <2>3 DEF ServeDiscover, clientVars, Messages
<1>2. ASSUME NEW c \in Clients, ServeRequest(c) PROVE TypeOK'
  <2>1. LeaseEnd \in 0 .. Units - 1
    BY RemainsOfNew DEF LeaseEnd
  <2>2. Leases \subseteq 0 .. MaxIp
    BY DEF Leases
  <2>3. open' \in BOOLEAN
    BY <1>2, Zenon DEF ServeRequest, serverVars
  <2>4. req' \in [Clients -> {Nothing} \cup Messages({"discover", "request", "renew"})]
    BY <1>2 DEF ServeRequest
  <2>5. CASE UNCHANGED <<serverVars, rep>>
    BY <1>2, <2>4, <2>5 DEF ServeRequest, serverVars, clientVars
  <2>6. CASE MayHave(c, req[c][2]) /\ ~UNCHANGED <<serverVars, rep>>
    <3>1. /\ mac' = [mac EXCEPT ![req[c][2]] = c] /\ expiry' = [expiry EXCEPT ![req[c][2]] = LeaseEnd]
          /\ rep' = [rep EXCEPT ![c] = <<"ack", req[c][2]>>] /\ served' = TRUE
          /\ UNCHANGED <<now, addr, left, asked>>
      BY <1>2, <2>6 DEF ServeRequest, clientVars
    <3>2. <<"ack", req[c][2]>> \in Messages({"offer", "ack"})
      BY <2>2, <2>6 DEF MayHave, Messages
    <3> QED BY <2>1, <2>3, <2>4, <2>6, <3>1, <3>2 DEF MayHave
  <2> QED BY <1>2, <2>5, <2>6 DEF ServeRequest
<1>3. ASSUME NEW c \in Clients,
             \/ IgnoreRenewal(c) \/ Discover(c) \/ AskAgain(c) \/ Renew(c) \/ LoseRequest(c)
             \/ LoseReply(c)
      PROVE  TypeOK'
  <2>1. 0 \in 0 .. MaxIp /\ LeaseTime \in 0 .. LeaseTime
    OBVIOUS
  <2> QED BY <1>3, <2>1 DEF IgnoreRenewal, Discover, AskAgain, Renew, LoseRequest, LoseReply, Messages,
        serverVars, clientVars
<1>4. ASSUME NEW c \in Clients, TakeOffer(c) \/ TakeAck(c) \/ Release(c) PROVE TypeOK'
  <2>1. rep[c][1] \in {"offer", "ack"} => rep[c][2] \in 0 .. MaxIp
    BY DEF Messages, Nothing
  <2>2. rep[c][1] = "ack" => rep[c][2] \in Leases
    BY DEF LeasesCount
  <2> QED BY <1>4, <2>1, <2>2 DEF TakeOffer, TakeAck, Release, Messages, serverVars
<1>5. CASE Tick
  <2>1. (now + 1) % Clock \in 0 .. Clock - 1
    BY ClockType
  <2> QED BY <1>5, <2>1 DEF Tick, serverVars
<1>6. CASE dhcp_server_init
  <2>1. 0 \in 0 .. Units - 1 /\ 0 \in 0 .. Clock - 1 /\ 0 \in 0 .. LeaseTime
    BY ClockType
  <2> QED BY <1>6, <2>1 DEF dhcp_server_init
<1>7. CASE UNCHANGED vars
  BY <1>7 DEF vars
<1> QED BY <1>1, <1>2, <1>3, <1>4, <1>5, <1>6, <1>7 DEF Next

(* No DISCOVER takes a lease that counts.                                   *)
LEMMA DiscoverKeepsCounts ==
  ASSUME DhcpInv, NEW c \in Clients, ServeDiscover(c), NEW d \in Clients, NEW a, Counts(d, a)
  PROVE  Counts(d, a)'
<1>1. a \in Leases /\ (Free(c) # {} => a # First(Free(c)))
  BY FreeIsUnused DEF Counts
<1>2. mac'[a] = mac[a]
  BY <1>1 DEF ServeDiscover
<1> QED BY <1>2 DEF Counts, ServeDiscover, clientVars, Remains

(* A lease given now lasts as long as any client's clock for it.            *)
LEMMA NewLeaseCounts ==
  ASSUME now \in 0 .. Clock - 1, NEW l \in 0 .. LeaseTime
  PROVE  l <= Remains(LeaseEnd, now) /\ Remains(LeaseEnd, now) < Clock \div 2
<1>1. /\ LeaseEnd \in 0 .. Units - 1
      /\ LeaseTime <= Remains(LeaseEnd, now) /\ Remains(LeaseEnd, now) < Clock \div 2
  BY RemainsOfNew DEF LeaseEnd
<1>2. Remains(LeaseEnd, now) \in Int
  BY <1>1, TimeAssumption, ClockType DEF Remains
<1> QED BY <1>1, <1>2, TimeAssumption

(* No REQUEST takes from its client a lease that counts. *)
LEMMA RequestKeepsCounts ==
  ASSUME DhcpInv, NEW c \in Clients, ServeRequest(c), NEW d \in Clients, NEW a, Counts(d, a)
  PROVE  Counts(d, a)'
<1>1. CASE UNCHANGED <<serverVars, rep>>
  BY <1>1 DEF ServeRequest, serverVars, clientVars, Counts, Remains
<1>2. CASE MayHave(c, req[c][2]) /\ ~UNCHANGED <<serverVars, rep>>
  <2>1. /\ mac' = [mac EXCEPT ![req[c][2]] = c] /\ expiry' = [expiry EXCEPT ![req[c][2]] = LeaseEnd]
        /\ UNCHANGED <<now, addr, left>>
    BY <1>2 DEF ServeRequest, clientVars
  <2>2. CASE a = req[c][2]
    <3>1. d = c /\ mac'[a] = c /\ expiry'[a] = LeaseEnd /\ a \in Leases
      BY <1>2, <2>1, <2>2, TimeAssumption DEF MayHave, Counts, DhcpInv, TypeOK
    <3>2. left[c] <= Remains(LeaseEnd, now) /\ Remains(LeaseEnd, now) < Clock \div 2
      BY NewLeaseCounts DEF DhcpInv, TypeOK
    <3> QED BY <2>1, <3>1, <3>2 DEF Counts, Remains
  <2>3. CASE a # req[c][2]
    BY <2>1, <2>3 DEF Counts, Remains, DhcpInv, TypeOK
  <2> QED BY <2>2, <2>3
<1> QED BY <1>1, <1>2 DEF ServeRequest

(* Both clocks of a lease go at the same speed.                             *)
LEMMA TickKeepsCounts ==
  ASSUME DhcpInv, Tick, NEW d \in Clients, NEW a, left[d] > 0, Counts(d, a)
  PROVE  Counts(d, a)'
<1>1. /\ expiry[a] \in 0 .. Units - 1 /\ now \in 0 .. Clock - 1 /\ left[d] \in Nat
      /\ left'[d] = left[d] - 1 /\ now' = (now + 1) % Clock /\ UNCHANGED <<mac, expiry>>
  BY DEF Counts, DhcpInv, TypeOK, Tick, serverVars
<1>2. Remains(expiry[a], now) \in Nat
  BY <1>1, ClockType, TimeAssumption DEF Remains
<1>3. Remains(expiry[a], now') = Remains(expiry[a], now) - 1
  BY <1>1, <1>2, RemainsLater DEF Counts
<1>4. Clock \div 2 \in Nat
  BY ClockType
<1> QED BY <1>1, <1>2, <1>3, <1>4 DEF Counts, Remains

(* Every step keeps what is in use.                                         *)
LEMMA LeasesCountKept == DhcpInv /\ [Next]_vars => LeasesCount'
<1> SUFFICES ASSUME DhcpInv, [Next]_vars PROVE LeasesCount'
  OBVIOUS
<1>0. /\ left \in [Clients -> 0 .. LeaseTime]
      /\ rep \in [Clients -> {Nothing} \cup Messages({"offer", "ack"})]
      /\ addr \in [Clients -> {NoAddr} \cup Leases]
      /\ NoAddr \notin Leases
      /\ \A a : <<"ack", a>> # Nothing
  BY DEF DhcpInv, TypeOK, NoAddr, Leases, Nothing
<1>1. ASSUME NEW c \in Clients, ServeDiscover(c) PROVE LeasesCount'
  <2>1. UNCHANGED <<addr, left>> /\ \A d \in Clients : rep'[d][1] = "ack" => rep'[d] = rep[d]
    BY <1>0, <1>1 DEF ServeDiscover, clientVars, Nothing
  <2>2. \A d \in Clients, a \in Leases : Counts(d, a) => Counts(d, a)'
    BY <1>1, DiscoverKeepsCounts
  <2> QED BY <2>1, <2>2 DEF LeasesCount, DhcpInv
<1>2. ASSUME NEW c \in Clients, ServeRequest(c) PROVE LeasesCount'
  <2>1. \A d \in Clients, a \in Leases : Counts(d, a) => Counts(d, a)'
    BY <1>2, RequestKeepsCounts
  <2>2. CASE UNCHANGED <<serverVars, rep>>
    BY <1>2, <2>1, <2>2 DEF ServeRequest, clientVars, LeasesCount, DhcpInv
  <2>3. ASSUME NEW a \in Leases, a = req[c][2], MayHave(c, a), ~UNCHANGED <<serverVars, rep>>
        PROVE  LeasesCount'
    <3>1. /\ UNCHANGED <<addr, left, now>> /\ rep' = [rep EXCEPT ![c] = <<"ack", a>>]
          /\ mac' = [mac EXCEPT ![a] = c] /\ expiry' = [expiry EXCEPT ![a] = LeaseEnd]
      BY <1>2, <2>3 DEF ServeRequest, clientVars, serverVars
    <3>2. Counts(c, a)'
      <4>1. now \in 0 .. Clock - 1 /\ mac'[a] = c /\ expiry'[a] = LeaseEnd
        BY <3>1 DEF DhcpInv, TypeOK
      <4>2. left[c] <= Remains(LeaseEnd, now) /\ Remains(LeaseEnd, now) < Clock \div 2
        BY <1>0, <4>1, NewLeaseCounts
      <4> QED BY <3>1, <4>1, <4>2 DEF Counts, Remains
    <3>3. \A d \in Clients \ {c} : rep'[d] = rep[d]
      BY <3>1
    <3>4. rep'[c] = <<"ack", a>>
      BY <1>0, <3>1
    <3> QED BY <2>1, <3>1, <3>2, <3>3, <3>4 DEF LeasesCount, DhcpInv
  <2> QED BY <1>2, <2>2, <2>3 DEF ServeRequest, MayHave
<1>3. ASSUME NEW c \in Clients,
             \/ IgnoreRenewal(c) \/ Discover(c) \/ AskAgain(c) \/ Renew(c) \/ LoseRequest(c)
             \/ LoseReply(c) \/ TakeOffer(c) \/ TakeAck(c) \/ Release(c)
      PROVE  LeasesCount'
  <2>1. UNCHANGED <<mac, expiry, now>>
    BY <1>3 DEF IgnoreRenewal, Discover, AskAgain, Renew, LoseRequest, LoseReply, TakeOffer, TakeAck, Release,
       serverVars
  <2>2. \A d \in Clients, a \in Leases : Counts(d, a) /\ left'[d] = left[d] => Counts(d, a)'
    BY <2>1 DEF Counts, Remains
  <2>3. \A d \in Clients \ {c} : left'[d] = left[d] /\ addr'[d] = addr[d] /\ rep'[d] = rep[d]
    <3> USE <1>0 DEF serverVars, clientVars
    <3>1. CASE IgnoreRenewal(c) \/ Renew(c) \/ LoseRequest(c) \/ LoseReply(c)
      BY <3>1 DEF IgnoreRenewal, Renew, LoseRequest, LoseReply
    <3>2. CASE Discover(c) \/ AskAgain(c)
      BY <3>2 DEF Discover, AskAgain
    <3>3. CASE TakeOffer(c) \/ TakeAck(c) \/ Release(c)
      BY <3>3 DEF TakeOffer, TakeAck, Release
    <3> QED BY <1>3, <3>1, <3>2, <3>3
  <2>4. \/ left'[c] = left[c] /\ addr'[c] \in {addr[c], NoAddr} /\ rep'[c] \in {rep[c], Nothing}
        \/ left'[c] = left[c] /\ rep[c][1] = "ack" /\ left[c] > 0 /\ addr'[c] = rep[c][2] /\ rep'[c] = Nothing
        \/ addr'[c] = NoAddr /\ rep'[c] = Nothing
        \/ addr'[c] = NoAddr /\ left'[c] = 0 /\ rep'[c] = rep[c]
    <3> USE <1>0 DEF serverVars, clientVars, Bound
    <3>1. CASE IgnoreRenewal(c) \/ Renew(c) \/ LoseRequest(c)
      BY <3>1 DEF IgnoreRenewal, Renew, LoseRequest
    <3>2. CASE Discover(c) \/ AskAgain(c)
      BY <3>2 DEF Discover, AskAgain, Quiet
    <3>3. CASE LoseReply(c)
      BY <3>3 DEF LoseReply
    <3>4. CASE TakeOffer(c)
      BY <3>4 DEF TakeOffer
    <3>5. CASE TakeAck(c)
      BY <3>5 DEF TakeAck
    <3>6. CASE Release(c)
      BY <3>6 DEF Release
    <3> QED BY <1>3, <3>1, <3>2, <3>3, <3>4, <3>5, <3>6
  <2>5. rep[c][1] = "ack" => rep[c] = <<"ack", rep[c][2]>>
    BY <1>0 DEF Messages, Nothing
  <2>6. Nothing[1] # "ack" /\ \A a : <<"ack", a>>[1] = "ack"
    BY DEF Nothing
  <2> QED BY <1>0, <2>2, <2>3, <2>4, <2>5, <2>6 DEF LeasesCount, DhcpInv
<1>4. CASE Tick
  <2>1. \A d \in Clients, a \in Leases : Counts(d, a) /\ left[d] > 0 => Counts(d, a)'
    BY <1>4, TickKeepsCounts
  <2>2. UNCHANGED rep /\ \A d \in Clients : /\ left'[d] > 0 => left[d] > 0
                                            /\ addr'[d] \in Leases => left'[d] > 0 /\ addr'[d] = addr[d]
    BY <1>0, <1>4, TimeAssumption DEF Tick, Bound
  <2> QED BY <2>1, <2>2 DEF LeasesCount, DhcpInv
<1>5. CASE dhcp_server_init
  BY <1>0, <1>5 DEF dhcp_server_init, LeasesCount, Nothing
<1>6. CASE UNCHANGED vars
  BY <1>6 DEF vars, LeasesCount, Counts, Remains, DhcpInv
<1> QED BY <1>1, <1>2, <1>3, <1>4, <1>5, <1>6 DEF Next

(* Every step keeps the leases apart.                                       *)
LEMMA OneEachKept == DhcpInv /\ [Next]_vars => OneEach'
<1> SUFFICES ASSUME DhcpInv, [Next]_vars PROVE OneEach'
  OBVIOUS
<1>0. /\ req \in [Clients -> {Nothing} \cup Messages({"discover", "request", "renew"})]
      /\ rep \in [Clients -> {Nothing} \cup Messages({"offer", "ack"})]
      /\ asked \in [Clients -> SUBSET Remembered]
      /\ Nothing[1] \notin {"ack", "offer", "request", "discover"}
      /\ \A d \in Clients : rep[d][1] = "ack" => rep[d][2] \in Leases
      /\ OneEach
  BY DEF DhcpInv, LeasesCount, TypeOK, Nothing
<1>1. ASSUME NEW c \in Clients, ServeDiscover(c) PROVE OneEach'
  <2>1. \A d \in Clients : Own(d)' \subseteq Own(d) /\ Unasked(d)' \subseteq Unasked(d)
    BY <1>1, TimeAssumption DEF ServeDiscover, clientVars, Own, Unasked, DhcpInv, TypeOK
  <2>2. /\ UNCHANGED asked /\ req[c][1] = "discover" /\ req'[c] \in {Nothing, req[c]}
        /\ \A d \in Clients \ {c} : req'[d] = req[d] /\ rep'[d] = rep[d]
    BY <1>0, <1>1 DEF ServeDiscover, clientVars
  <2>3. rep'[c][1] = "offer" => AddsNone(c, rep[c][2])'
    <3>1. CASE Own(c) # {}
      <4>1. Own(c) \in SUBSET Nat
        BY DEF Own, Leases
      <4>2. First(Own(c)) \in Own(c)
        BY <3>1, <4>1, FirstOf
      <4>3. rep'[c][2] = First(Own(c))
        BY <1>0, <1>1, <3>1 DEF ServeDiscover
      <4>4. First(Own(c)) \notin asked[c] => Unasked(c)' \subseteq {First(Own(c))}
        BY <1>0, <2>1, <4>2 DEF OneEach, Unasked
      <4> QED BY <2>2, <4>3, <4>4 DEF AddsNone
    <3>2. CASE Own(c) = {}
      BY <2>1, <3>2 DEF AddsNone, Unasked
    <3> QED BY <3>1, <3>2
  <2>4. \A d \in Clients : \A a : AddsNone(d, a) => AddsNone(d, a)'
    BY <2>1, <2>2 DEF AddsNone
  <2> QED BY <1>0, <2>1, <2>2, <2>3, <2>4 DEF OneEach
<1>2. ASSUME NEW c \in Clients, ServeRequest(c) PROVE OneEach'
  <2>1. /\ UNCHANGED asked /\ req[c][1] = "request" /\ req'[c] \in {Nothing, req[c]}
        /\ \A d \in Clients \ {c} : req'[d] = req[d] /\ rep'[d] = rep[d]
    BY <1>0, <1>2 DEF ServeRequest, clientVars
  <2>2. CASE UNCHANGED <<serverVars, rep>>
    <3>1. \A d \in Clients : Own(d)' = Own(d)
      BY <2>2 DEF serverVars, Own
    <3> QED BY <1>0, <2>1, <2>2, <3>1 DEF OneEach, AddsNone, Unasked
  <2>3. ASSUME NEW a \in Leases, a = req[c][2], MayHave(c, a), ~UNCHANGED <<serverVars, rep>>
        PROVE  OneEach'
    <3>1. mac' = [mac EXCEPT ![a] = c] /\ rep'[c] = <<"ack", a>>
      BY <1>0, <1>2, <2>3 DEF ServeRequest
    <3>2. \A d \in Clients \ {c} : Unasked(d)' \subseteq Unasked(d)
      BY <2>1, <3>1 DEF Own, Unasked, DhcpInv, TypeOK
    <3>3. Unasked(c)' \subseteq Unasked(c) \cup ({a} \ asked[c])
      BY <2>1, <2>3, <3>1 DEF Own, Unasked, DhcpInv, TypeOK
    <3>4. a \in asked[c] \/ Unasked(c) \subseteq {a}
      BY <1>0, <2>1, <2>3 DEF OneEach, AddsNone
    <3>5. /\ \A i, j \in Unasked(c)' : i = j
          /\ a \in asked'[c] \/ Unasked(c)' \subseteq {a}
      BY <1>0, <2>1, <3>3, <3>4 DEF OneEach
    <3>6. rep'[c][1] # "offer"
      BY <3>1
    <3> QED BY <1>0, <2>1, <2>3, <3>2, <3>5, <3>6 DEF OneEach, AddsNone
  <2> QED BY <1>2, <2>2, <2>3 DEF ServeRequest, MayHave
<1>3. ASSUME NEW c \in Clients, AskAgain(c) PROVE OneEach'
  <2>1. PICK a \in Remembered :
          /\ req' = [req EXCEPT ![c] = <<"request", a>>]
          /\ asked' = [asked EXCEPT ![c] = @ \cup (({a} \cap Leases) \ Own(c))]
    BY <1>3 DEF AskAgain
  <2>2. /\ UNCHANGED <<rep, mac>> /\ rep[c] = Nothing /\ req'[c] = <<"request", a>>
        /\ asked'[c] = asked[c] \cup (({a} \cap Leases) \ Own(c))
        /\ \A d \in Clients \ {c} : req'[d] = req[d] /\ asked'[d] = asked[d]
        /\ \A d \in Clients : Own(d)' = Own(d)
    BY <1>0, <1>3, <2>1 DEF AskAgain, Quiet, serverVars, Own
  <2>3. Unasked(c)' \subseteq Unasked(c) /\ \A d \in Clients \ {c} : Unasked(d)' = Unasked(d)
    BY <2>2 DEF Unasked
  <2>4. AddsNone(c, a)'
    BY <1>0, <2>2 DEF OneEach, AddsNone, Unasked
  <2>5. rep'[c][1] # "offer" /\ req'[c][2] = a
    BY <1>0, <2>2
  <2>6. \A d \in Clients \ {c} : \A b : AddsNone(d, b)' <=> AddsNone(d, b)
    BY <2>2, <2>3 DEF AddsNone
  <2> QED BY <1>0, <2>2, <2>3, <2>4, <2>5, <2>6 DEF OneEach
<1>4. ASSUME NEW c \in Clients,
             \/ IgnoreRenewal(c) \/ Discover(c) \/ Renew(c) \/ LoseRequest(c)
             \/ LoseReply(c) \/ TakeOffer(c) \/ TakeAck(c) \/ Release(c)
      PROVE  OneEach'
  <2>1. UNCHANGED <<mac, asked>>
    BY <1>4 DEF IgnoreRenewal, Discover, Renew, LoseRequest, LoseReply, TakeOffer, TakeAck, Release,
       serverVars, clientVars
  <2>2. \A d \in Clients : Unasked(d)' = Unasked(d) /\ \A a : AddsNone(d, a)' <=> AddsNone(d, a)
    BY <2>1 DEF Own, Unasked, AddsNone
  <2>3. /\ \A d \in Clients \ {c} : req'[d] = req[d] /\ rep'[d] = rep[d]
        /\ rep'[c][1] = "offer" => rep'[c] = rep[c] /\ (req'[c] = req[c] \/ req'[c][1] # "request")
        /\ req'[c][1] = "request" => \/ req'[c] = req[c]
                                     \/ rep[c][1] = "offer" /\ req'[c][2] = rep[c][2] /\ rep'[c] = Nothing
    <3> USE <1>0 DEF serverVars, clientVars, Quiet
    <3>1. CASE IgnoreRenewal(c) \/ Renew(c) \/ LoseRequest(c)
      BY <3>1 DEF IgnoreRenewal, Renew, LoseRequest, OneEach
    <3>2. CASE Discover(c)
      BY <3>2 DEF Discover, OneEach
    <3>3. CASE LoseReply(c)
      BY <3>3 DEF LoseReply, OneEach
    <3>4. CASE TakeOffer(c)
      BY <3>4 DEF TakeOffer, OneEach
    <3>5. CASE TakeAck(c)
      BY <3>5 DEF TakeAck, OneEach
    <3>6. CASE Release(c)
      BY <3>6 DEF Release, OneEach
    <3> QED BY <1>4, <3>1, <3>2, <3>3, <3>4, <3>5, <3>6
  <2> QED BY <1>0, <2>2, <2>3 DEF OneEach
<1>5. CASE Tick \/ UNCHANGED vars
  <2>1. UNCHANGED <<req, rep, mac, asked>>
    BY <1>5 DEF Tick, serverVars, vars
  <2> QED BY <1>0, <2>1 DEF OneEach, Own, Unasked, AddsNone
<1>6. CASE dhcp_server_init
  <2>1. \A d \in Clients : Own(d)' = {}
    BY <1>6, TimeAssumption DEF dhcp_server_init, Own
  <2> QED BY <1>0, <1>6, <2>1 DEF dhcp_server_init, OneEach, Unasked
<1> QED BY <1>1, <1>2, <1>3, <1>4, <1>5, <1>6 DEF Next

(* The invariant.                                                           *)
LEMMA InvariantHolds == Spec => []DhcpInv
<1>1. DhcpInv /\ [Next]_vars => DhcpInv'
  BY TypesKept, LeasesCountKept, OneEachKept DEF DhcpInv
<1> QED BY <1>1, DhcpInvInit, PTL DEF Spec

(* Types of the leases, the clock, the messages and the clients' leases,    *)
(* for any number of them (dhcpserver.h:31-45).                             *)
THEOREM DhcpTypeCorrect == Spec => []TypeOK
<1>1. DhcpInv => TypeOK
  BY DEF DhcpInv
<1> QED BY <1>1, InvariantHolds, PTL

(* As long as a client uses an address the server has it down as the        *)
(* client's and does not take it for expired, however the clock wraps and   *)
(* whatever is lost or repeated (dhcpserver.c:210-216, 263).                *)
THEOREM LeasesOutlastClients == Spec => []BoundIsRecorded
<1>1. DhcpInv => BoundIsRecorded
  <2> SUFFICES ASSUME DhcpInv, NEW c \in Clients, NEW a \in Leases, a = addr[c]
               PROVE  mac[a] = c /\ ~Expired(a)
    BY DEF BoundIsRecorded, Bound
  <2>1. mac[a] = c /\ Remains(expiry[a], now) < Clock \div 2
    BY DEF DhcpInv, LeasesCount, Counts
  <2>2. Remains(expiry[a], now) \in Int /\ Clock \div 2 \in Int
    BY TimeAssumption, ClockType DEF DhcpInv, TypeOK, Remains
  <2> QED BY <2>1, <2>2 DEF Expired, Remains
<1> QED BY <1>1, InvariantHolds, PTL

(* No two clients use one address, though offers are not reserved           *)
(* (dhcpserver.c:193-263).                                                  *)
THEOREM AddressesAreExclusive == Spec => []Exclusive
<1>1. DhcpInv => Exclusive
  BY DEF DhcpInv, LeasesCount, Counts, Exclusive, Bound
<1> QED BY <1>1, InvariantHolds, PTL

(* By offers no client takes two leases, and any other it asked for from    *)
(* memory, however often it leaves and joins again (dhcpserver.c:196-216,   *)
(* 244-263).                                                                *)
THEOREM NobodyTakesTwo == Spec => []NoHoarding
<1>1. DhcpInv => NoHoarding
  BY DEF DhcpInv, OneEach, Unasked, NoHoarding
<1> QED BY <1>1, InvariantHolds, PTL
===============================================================================
