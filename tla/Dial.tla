-------------------------------- MODULE Dial --------------------------------
(***************************************************************************)
(* From a request's host to a connection: the IP strategy.  The client     *)
(* filters literal addresses (handleSOCKS5 and UDPAssociation.loop of      *)
(* cmd/client/main.go) and sends its strategy with the target; the server  *)
(* resolves, filters, orders and dials (internal/relay/dial.go, udp.go),   *)
(* one address after the other or, with concur > 1, in the race DialRace,  *)
(* whose attempts are numbered from 0.                                     *)
(***************************************************************************)
EXTENDS DialRace, SequencesExt

CONSTANTS
  IPv4,            \* addresses whose To4 is not nil
  IPv6,            \* the others
  Mapped,          \* IPv4 addresses an IPv6 literal can stand for (::ffff:a.b.c.d)
  Name,            \* a host that is not a literal address
  MaxAnswer        \* bound: addresses a name has

ASSUME DialAssumption ==
  /\ IPv4 \cap IPv6 = {} /\ Mapped \subseteq IPv4 /\ Name \notin IPv4 \cup IPv6
  /\ Dialers = 0 .. Concur - 1 /\ MaxAnswer \in Nat

VARIABLES
  via,             \* the front end: socks, http or udp
  strategy,        \* conf.IPStrategy
  concur,          \* cfg.Concur
  host,            \* the host asked for, and the SOCKS5 address type
  path,            \* ask, race, plain, then refused, failed or connected
  answer,          \* what the resolver said
  ips,             \* the addresses to try, in order
  tried            \* the addresses dialled

request == <<via, strategy, concur, host>>
choice == <<answer, ips, tried>>
dialVars == <<request, path, choice, vars>>

IPs == IPv4 \cup IPv6
Strategies == {"ipv4_only", "ipv6_only", "ipv4_prefer", "ipv6_prefer", "default"}

\* Type 1 and 4 carry bytes; in type 3, and in HTTP, the host is text.
Hosts ==
  [atyp : {1}, ip : IPv4] \cup [atyp : {4}, ip : IPv6 \cup Mapped]
    \cup [atyp : {3}, ip : IPs \cup {Name}]

\* What the resolver may answer: an error, or distinct addresses.
Answers == {s \in BoundedSeq(IPs, MaxAnswer) : IsInjective(s)}

DialInit ==
  /\ via \in {"socks", "http", "udp"} /\ strategy \in Strategies
  /\ concur \in {0, 1, Concur}
  /\ host \in {h \in Hosts : via = "http" => h.atyp = 3}
  /\ path = "ask"
  /\ answer = <<>> /\ ips = <<>> /\ tried = {}
  /\ Init
-----------------------------------------------------------------------------
(* The choice of the addresses *)

Is4(ip) == ip \in IPv4
Is6(ip) == ip \in IPv6
Literal == host.ip # Name

\* Mutant: only the address type is looked at.
PassesByType ==
  via = "socks" => /\ strategy = "ipv4_only" => host.atyp # 4
                   /\ strategy = "ipv6_only" => host.atyp # 1

\* The filter of addresses in SOCKS5 requests and packets.
LiteralPasses ==
  Literal => /\ strategy = "ipv4_only" => Is4(host.ip)
             /\ strategy = "ipv6_only" => Is6(host.ip)

\* The filters of the front ends; HTTP has none.
Passes ==
  /\ via = "socks" => /\ strategy = "ipv4_only" => host.atyp # 4
                      /\ strategy = "ipv6_only" => host.atyp # 1
  /\ via \in {"socks", "udp"} => LiteralPasses

\* The addresses of one family, in their order.
Only(family, s) ==
  FlattenSeq([i \in DOMAIN s |-> IF s[i] \in family THEN <<s[i]>> ELSE <<>>])

filterIPv4(s) == Only(IPv4, s)
filterIPv6(s) == Only(IPv6, s)

\* Mutant: IPv6 first is taken for IPv4 first.
OrderedFour(s) ==
  CASE strategy = "ipv4_only" -> filterIPv4(s)
    [] strategy = "ipv6_only" -> filterIPv6(s)
    [] strategy = "default" -> s
    [] OTHER -> filterIPv4(s) \o filterIPv6(s)

Ordered(s) ==
  CASE strategy = "ipv4_only" -> filterIPv4(s)
    [] strategy = "ipv6_only" -> filterIPv6(s)
    [] strategy = "ipv4_prefer" -> filterIPv4(s) \o filterIPv6(s)
    [] strategy = "ipv6_prefer" -> filterIPv6(s) \o filterIPv4(s)
    [] strategy = "default" -> s

\* resolveIPsForDial, and the same checks in resolveUDPAddr.
Resolve(s) == Ordered(IF Literal THEN <<host.ip>> ELSE s)
-----------------------------------------------------------------------------
(* Dialling *)

Refuse ==
  /\ path = "ask" /\ ~Passes
  /\ path' = "refused"
  /\ UNCHANGED <<request, choice, vars>>

\* A literal is not looked up.
LookUp ==
  /\ path = "ask" /\ Passes
  /\ IF Literal THEN UNCHANGED answer ELSE answer' \in Answers
  /\ UNCHANGED <<request, vars>>

\* UDP takes the first address.
StartUdp ==
  /\ via = "udp" /\ LookUp
  /\ ips' = Resolve(answer')
  /\ tried' = IF ips' = <<>> THEN {} ELSE {Head(ips')}
  /\ path' = IF ips' = <<>> THEN "failed" ELSE "connected"

\* DialTCPWithRace refuses concur = 0.
NoConcur ==
  /\ via # "udp" /\ concur = 0
  /\ path = "ask" /\ Passes
  /\ path' = "failed"
  /\ UNCHANGED <<request, choice, vars>>

\* The address of attempt d.
Target(s, d) == s[(d % Len(s)) + 1]

StartRace ==
  /\ via # "udp" /\ concur > 1 /\ LookUp
  /\ ips' = Resolve(answer')
  /\ tried' = IF ips' = <<>> THEN {} ELSE {Target(ips', d) : d \in Dialers}
  /\ path' = IF ips' = <<>> THEN "failed" ELSE "race"

RaceStep ==
  /\ path = "race"
  /\ Next
  /\ path' = IF main' = "range" THEN "race"
             ELSE IF winner' = None THEN "failed" ELSE "connected"
  /\ UNCHANGED <<request, choice>>

\* DialTCPWithStrategy: a literal is dialled without a check; an "only"
\* strategy names the family to net.Dial, which resolves by itself.
StartPlain ==
  /\ via # "udp" /\ concur = 1 /\ LookUp
  /\ ips' = IF Literal THEN <<host.ip>> ELSE Ordered(answer')
  /\ path' = "plain"
  /\ UNCHANGED tried

\* The next address; net.Dial has an order of its own.
Candidates ==
  LET left == {i \in DOMAIN ips : ips[i] \notin tried}
  IN  IF strategy \in {"ipv4_prefer", "ipv6_prefer"}
      THEN {i \in left : \A j \in left : i <= j} ELSE left

PlainTry ==
  /\ path = "plain"
  /\ \E i \in Candidates : tried' = tried \cup {ips[i]}
  /\ path' \in {"plain", "connected"}
  /\ UNCHANGED <<request, answer, ips, vars>>

PlainFails ==
  /\ path = "plain" /\ Candidates = {}
  /\ path' = "failed"
  /\ UNCHANGED <<request, choice, vars>>

DialNext ==
  \/ Refuse \/ StartUdp \/ NoConcur \/ StartRace \/ RaceStep
  \/ StartPlain \/ PlainTry \/ PlainFails

DialSpec == DialInit /\ [][DialNext]_dialVars

\* Every lookup and every dial has a timeout; the scheduler runs the rest.
FairDialSpec ==
  /\ DialSpec
  /\ WF_dialVars(Refuse \/ StartUdp \/ NoConcur \/ StartRace \/ StartPlain)
  /\ WF_dialVars(PlainTry \/ PlainFails)
  /\ \A d \in Dialers : WF_dialVars(RaceStep /\ Attempt(d))
  /\ WF_dialVars(RaceStep /\ CloseResult)
  /\ WF_dialVars(RaceStep /\ Caller)
-----------------------------------------------------------------------------
(* Properties *)

\* No address of the family a strategy excludes is dialled, with the one
\* exception the code has: a literal that came by HTTP, which has no filter, and
\* met DialTCPWithStrategy, which has no check.
FamilyHonoured ==
  \/ \A ip \in tried : /\ strategy = "ipv4_only" => Is4(ip)
                       /\ strategy = "ipv6_only" => Is6(ip)
  \/ via = "http" /\ concur = 1 /\ Literal

\* An address of the family that is not preferred is dialled only when all of
\* the preferred family are tried as well, or have been.
PreferenceKept ==
  \A ip \in tried, better \in ToSet(answer) :
    \/ strategy = "ipv4_prefer" /\ Is6(ip) /\ Is4(better)
    \/ strategy = "ipv6_prefer" /\ Is4(ip) /\ Is6(better)
    => better \in tried

\* Every request gets an answer, whatever the resolver and the dials do.
Answered == <>(path \in {"refused", "failed", "connected"})
=============================================================================
