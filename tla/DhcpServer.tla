------------------------------ MODULE DhcpServer ------------------------------
(***************************************************************************)
(* The DHCP server of the access point (booster/src/dhcpserver):           *)
(* a few leases, a handler for DISCOVER and one for REQUEST, and no memory *)
(* of what was offered.  Its clock is 32 bits of milliseconds; a lease     *)
(* keeps the upper 16 bits of the time it ends, so that both the clock and *)
(* the comparison wrap around.  Time is scaled: Unit ticks make one unit   *)
(* of expiry (65536 ms in the code), Units units make the whole clock.     *)
(*                                                                         *)
(* The clients are external: what a DHCP client sends the handlers, over a *)
(* radio that loses messages and repeats requests.  A client has one       *)
(* exchange under way at a time; an answer that comes after the client     *)
(* gave up has another transaction id and counts as lost.                  *)
(***************************************************************************)
EXTENDS Integers, FiniteSets

CONSTANTS
  Clients,      \* by MAC address
  NoMac,        \* a lease whose mac is all zero
  MaxIp,        \* DHCPS_MAX_IP
  Unit, Units,  \* ticks of the clock in one unit of expiry, units of the clock
  LeaseTime,    \* DEFAULT_LEASE_TIME_S, in ticks
  Remembered,   \* the addresses clients remember (MaxIp: one out of range)
  TimePasses    \* whether the clock runs and the server may restart

VARIABLES
  mac, expiry,  \* lease[i].mac and lease[i].expiry
  served,       \* first_lease_served
  open,         \* udp is bound
  now,          \* cyw43_hal_ticks_ms
  req, rep,     \* for each client, the request and the reply on the air
  addr, left,   \* what each client uses, and the ticks its lease still has
  asked         \* history: what each client asked for without holding it

serverVars == <<mac, expiry, served, open>>
clientVars == <<addr, left, asked>>
vars == <<mac, expiry, served, open, now, req, rep, addr, left, asked>>

Leases == 0 .. MaxIp - 1
Clock == Unit * Units

Nothing == <<"nothing", 0>>   \* nothing on the air
NoAddr == -1
Bound(c) == addr[c] \in Leases
-----------------------------------------------------------------------------
(* Faulty variant: the end of the unit is not added back. *)
Expired_Truncated(i) == (expiry[i] * Unit - now) % Clock >= Clock \div 2

(* (int32_t)((expiry << 16 | 0xffff) - ticks) < 0 *)
Expired(i) == (expiry[i] * Unit + Unit - 1 - now) % Clock >= Clock \div 2

(* The loop over the leases stops at the client's own one; before that it   *)
(* takes the first one that is free or has expired, which it clears.        *)

Own(c) == {i \in Leases : mac[i] = c}

(* Faulty variant: the loop stops one lease early. *)
Free_OffByOne(c) == {i \in 0 .. MaxIp - 2 : /\ mac[i] = NoMac \/ Expired(i)
                                           /\ \A j \in 0 .. i : mac[j] # c}

Free(c) == {i \in Leases : /\ mac[i] = NoMac \/ Expired(i)
                           /\ \A j \in 0 .. i : mac[j] # c}
First(s) == CHOOSE i \in s : \A j \in s : i <= j

(* Faulty variant: a free lease found first is offered to a client that has one. *)
ServeDiscover_FirstFree(c) ==
  /\ open /\ req[c][1] = "discover"
  /\ Free(c) # {}
  /\ mac' = [mac EXCEPT ![First(Free(c))] = NoMac]
  /\ rep' = [rep EXCEPT ![c] = <<"offer", First(Free(c))>>]
  /\ req' = [req EXCEPT ![c] = Nothing]
  /\ UNCHANGED <<expiry, served, open, now, clientVars>>

ServeDiscover(c) ==
  /\ open /\ req[c][1] = "discover"
  /\ mac' = [i \in Leases |-> IF Free(c) # {} /\ i = First(Free(c)) THEN NoMac ELSE mac[i]]
  /\ rep' = [rep EXCEPT ![c] =
               IF Own(c) # {} THEN <<"offer", First(Own(c))>>
               ELSE IF Free(c) # {} THEN <<"offer", First(Free(c))>>
               ELSE Nothing]
  /\ \E again \in {Nothing, req[c]} : req' = [req EXCEPT ![c] = again]
  /\ UNCHANGED <<expiry, served, open, now, clientVars>>

(* Faulty variant: the clock is taken not to wrap. *)
LeaseEnd_NoWrap == (now + LeaseTime) \div Unit

(* The end of a lease given now, rounded down to a unit. *)
LeaseEnd == ((now + LeaseTime) % Clock) \div Unit

(* After the first lease the handler compares the third byte of the magic   *)
(* cookie, 83, with DHCPACK, 5, before it closes the socket.                *)
CookieByte == 83
DHCPACK == 5

(* Faulty variant: the lease is given to whoever asks for it. *)
MayHave_Anyone(c, a) == a \in Leases

(* In range and the client's own, expired or not, or nobody's. *)
MayHave(c, a) == a \in Leases /\ mac[a] \in {c, NoMac}

ServeRequest(c) ==
  /\ open /\ req[c][1] = "request"
  /\ LET a == req[c][2]
     IN  \/ /\ MayHave(c, a)
            /\ mac' = [mac EXCEPT ![a] = c]
            /\ expiry' = [expiry EXCEPT ![a] = LeaseEnd]
            /\ rep' = [rep EXCEPT ![c] = <<"ack", a>>]
            /\ served' = TRUE
            /\ open' = (served \/ CookieByte # DHCPACK)
         \/ /\ ~MayHave(c, a)
            /\ UNCHANGED <<serverVars, rep>>
  /\ \E again \in {Nothing, req[c]} : req' = [req EXCEPT ![c] = again]
  /\ UNCHANGED <<now, clientVars>>

(* A client that extends its lease names its address in ciaddr and not in   *)
(* option 50: the handler ignores the request.                              *)
IgnoreRenewal(c) ==
  /\ open /\ req[c][1] = "renew"
  /\ req' = [req EXCEPT ![c] = Nothing]
  /\ UNCHANGED <<serverVars, now, rep, clientVars>>

(* dhcp_server_init, at power-on and when the manager falls back: the leases *)
(* are gone, the network too, and the clients join again.                    *)
dhcp_server_init ==
  /\ TimePasses
  /\ mac' = [i \in Leases |-> NoMac]
  /\ expiry' = [i \in Leases |-> 0]
  /\ served' = FALSE /\ open' = TRUE /\ now' = 0
  /\ req' = [c \in Clients |-> Nothing]
  /\ rep' = [c \in Clients |-> Nothing]
  /\ addr' = [c \in Clients |-> NoAddr]
  /\ left' = [c \in Clients |-> 0]
  /\ asked' = [c \in Clients |-> {}]
-----------------------------------------------------------------------------
(* The clients and the radio. *)

Quiet(c) == req[c] = Nothing /\ rep[c] = Nothing

Discover(c) ==
  /\ ~Bound(c) /\ Quiet(c)
  /\ req' = [req EXCEPT ![c] = <<"discover", 0>>]
  /\ left' = [left EXCEPT ![c] = 0]
  /\ UNCHANGED <<serverVars, now, rep, addr, asked>>

(* A client that joins, or joins again, may first ask for an address it     *)
(* remembers, from this network or another; the server does not look which  *)
(* leases it has already.  Its lease counts from the time it asks.          *)
AskAgain(c) ==
  /\ ~Bound(c) /\ Quiet(c)
  /\ \E a \in Remembered :
       /\ req' = [req EXCEPT ![c] = <<"request", a>>]
       /\ asked' = [asked EXCEPT ![c] = @ \cup (({a} \cap Leases) \ Own(c))]
  /\ left' = [left EXCEPT ![c] = LeaseTime]
  /\ UNCHANGED <<serverVars, now, rep, addr>>

Renew(c) ==
  /\ Bound(c) /\ Quiet(c)
  /\ req' = [req EXCEPT ![c] = <<"renew", 0>>]
  /\ UNCHANGED <<serverVars, now, rep, clientVars>>

TakeOffer(c) ==
  /\ rep[c][1] = "offer" /\ ~Bound(c)
  /\ req' = [req EXCEPT ![c] = <<"request", rep[c][2]>>]
  /\ rep' = [rep EXCEPT ![c] = Nothing]
  /\ left' = [left EXCEPT ![c] = LeaseTime]
  /\ UNCHANGED <<serverVars, now, addr, asked>>

TakeAck(c) ==
  /\ rep[c][1] = "ack" /\ ~Bound(c) /\ left[c] > 0
  /\ addr' = [addr EXCEPT ![c] = rep[c][2]]
  /\ rep' = [rep EXCEPT ![c] = Nothing]
  /\ UNCHANGED <<serverVars, now, req, left, asked>>

(* Lost on the air, never sent for want of memory, or come too late. *)
LoseRequest(c) ==
  /\ req[c] # Nothing
  /\ req' = [req EXCEPT ![c] = Nothing]
  /\ UNCHANGED <<serverVars, now, rep, clientVars>>

LoseReply(c) ==
  /\ rep[c] # Nothing
  /\ rep' = [rep EXCEPT ![c] = Nothing]
  /\ UNCHANGED <<serverVars, now, req, clientVars>>

Release(c) ==
  /\ Bound(c)
  /\ addr' = [addr EXCEPT ![c] = NoAddr]
  /\ left' = [left EXCEPT ![c] = 0]
  /\ UNCHANGED <<serverVars, now, req, rep, asked>>

Tick ==
  /\ TimePasses
  /\ now' = (now + 1) % Clock
  /\ left' = [c \in Clients |-> IF left[c] > 0 THEN left[c] - 1 ELSE 0]
  /\ addr' = [c \in Clients |-> IF Bound(c) /\ left'[c] = 0 THEN NoAddr ELSE addr[c]]
  /\ UNCHANGED <<serverVars, req, rep, asked>>
-----------------------------------------------------------------------------
Init ==
  /\ mac = [i \in Leases |-> NoMac] /\ expiry = [i \in Leases |-> 0]
  /\ served = FALSE /\ open = TRUE /\ now = 0
  /\ req = [c \in Clients |-> Nothing] /\ rep = [c \in Clients |-> Nothing]
  /\ addr = [c \in Clients |-> NoAddr] /\ left = [c \in Clients |-> 0]
  /\ asked = [c \in Clients |-> {}]

Next ==
  \/ \E c \in Clients :
       \/ ServeDiscover(c) \/ ServeRequest(c) \/ IgnoreRenewal(c)
       \/ Discover(c) \/ AskAgain(c) \/ Renew(c) \/ TakeOffer(c) \/ TakeAck(c)
       \/ LoseRequest(c) \/ LoseReply(c) \/ Release(c)
  \/ Tick
  \/ dhcp_server_init

Spec == Init /\ [][Next]_vars

(* A client keeps trying, and not for what it remembers alone; nothing      *)
(* stays on the air for ever, and of each kind of message, among them the   *)
(* requests for an address the client may have, not every one is lost.      *)
Fairness ==
  \A c \in Clients :
    /\ SF_vars(Discover(c)) /\ WF_vars(LoseRequest(c)) /\ WF_vars(LoseReply(c))
    /\ SF_vars(ServeDiscover(c))
    /\ SF_vars(MayHave(c, req[c][2]) /\ ServeRequest(c))
    /\ SF_vars(TakeOffer(c)) /\ SF_vars(TakeAck(c))

FairSpec == Spec /\ Fairness
-----------------------------------------------------------------------------
Messages(kinds) == kinds \X (0 .. MaxIp)

(* In the code a lease is 1319 units, and half the clock 32768 of them. *)
ASSUME TimeAssumption ==
  /\ MaxIp \in Nat \ {0} /\ Unit \in Nat \ {0} /\ Units \in Nat \ {0} /\ LeaseTime \in Nat \ {0}
  /\ LeaseTime + Unit - 1 < Clock \div 2
  /\ NoMac \notin Clients /\ Remembered \subseteq 0 .. MaxIp
  /\ TimePasses \in BOOLEAN

TypeOK ==
  /\ mac \in [Leases -> Clients \cup {NoMac}]
  /\ expiry \in [Leases -> 0 .. Units - 1]
  /\ served \in BOOLEAN /\ open \in BOOLEAN
  /\ now \in 0 .. Clock - 1
  /\ req \in [Clients -> {Nothing} \cup Messages({"discover", "request", "renew"})]
  /\ rep \in [Clients -> {Nothing} \cup Messages({"offer", "ack"})]
  /\ addr \in [Clients -> {NoAddr} \cup Leases]
  /\ left \in [Clients -> 0 .. LeaseTime]
  /\ asked \in [Clients -> SUBSET Remembered]

(* Two clients never use one address, although offers are not reserved,     *)
(* requests are repeated and late, and the clock wraps                      *)
(* (dhcpserver.c:193-263).                                                  *)
Exclusive == \A c, d \in Clients : Bound(c) /\ addr[c] = addr[d] => c = d

(* As long as a client uses an address the server has it down as the        *)
(* client's and does not take it for expired: rounding the end of a lease   *)
(* to 65536 ms never ends it before the client's own clock does             *)
(* (dhcpserver.c:210-216, 263).                                             *)
BoundIsRecorded == \A c \in Clients : Bound(c) => mac[addr[c]] = c /\ ~Expired(addr[c])

(* By offers no client takes two of the few leases, whatever is lost or     *)
(* repeated and however often it leaves and joins again: each further one   *)
(* is an address it asked for from memory, which the REQUEST handler gives  *)
(* without looking for a lease the client has (dhcpserver.c:196-216,        *)
(* 244-263).                                                                *)
NoHoarding == \A c \in Clients : \A i, j \in Own(c) \ asked[c] : i = j

(* With a lease for everyone, besides those clients ask for from memory,    *)
(* each client that keeps trying gets one, though a request for an address  *)
(* someone else has is ignored and not refused (dhcpserver.c:233-262:       *)
(* "Should be NACK").                                                       *)
EveryoneServed == \A c \in Clients : ~Bound(c) ~> Bound(c)
=============================================================================
