------------------------------- MODULE Hostspec -------------------------------
(***************************************************************************)
(* libsrsbsns/addr.c: splitting "host[:port]", where an IPv6 address is in *)
(* brackets, and turning such a string into a socket address.  A string is *)
(* a sequence over "[", "]", ":", the ten digits and other characters of   *)
(* names, addresses and services.                                          *)
(***************************************************************************)
EXTENDS Naturals, Sequences, SequencesExt

CONSTANTS
  Name,         \* host names and IPv4 addresses
  Addr4,        \* the names inet_pton() accepts as IPv4 addresses
  Addr6,        \* the strings inet_pton() accepts as IPv6 addresses
  Service,      \* services; the empty one stands for a hostspec without
  HostSizes,    \* the sizes of the caller's buffer for the host
  ServiceSizes  \* and for the service; zero stands for none

Digits == <<"0", "1", "2", "3", "4", "5", "6", "7", "8", "9">>
Digit == [d \in Range(Digits) |-> (CHOOSE i \in DOMAIN Digits : Digits[i] = d) - 1]

ASSUME TextAssumption == \A s \in Name \cup Addr6 \cup Service : s \in Seq(Range(s))
ASSUME NamesAssumption ==
  /\ Addr4 \subseteq Name
  /\ \A s \in Name \cup Addr6 \cup Service : ~Contains(s, "[") /\ ~Contains(s, "]")
  /\ \A s \in Name \cup Service : ~Contains(s, ":")
  /\ \A s \in Addr6 : Contains(s, ":")
ASSUME SizesAssumption == HostSizes \subseteq Nat \ {0} /\ ServiceSizes \subseteq Nat

VARIABLE hs     \* the last call: its function, what the caller means by the
                \* text, the buffers' sizes, and what the call stored

\* The documented form: "host", "host:service", "[addr]", "[addr]:service".
Written(s) ==
  LET h == IF Contains(s.host, ":") THEN <<"[">> \o s.host \o <<"]">> ELSE s.host
  IN  IF s.service = <<>> THEN h ELSE h \o <<":">> \o s.service

\* strchr(): the first place of c in s at or after i, or 0.
Strchr(s, c, i) == SelectInSubSeq(s, i, Len(s), LAMBDA x : x = c)

\* strNcpy(): as much of s as fits with the terminating NUL.
StrNcpy(s, size) == SubSeq(s, 1, IF Len(s) < size THEN Len(s) ELSE size - 1)

\* The text from behind a "[" at its beginning on.
Inner(text) == IF text # <<>> /\ Head(text) = "[" THEN Tail(text) ELSE text

ParsedAnyColon(text, hostSz, serviceSz) ==  \* mutant: any colon ends the host
  LET h == StrNcpy(Inner(text), hostSz)
      close == Strchr(h, "]", 1)
      colon == Strchr(h, ":", 1)
      end == IF colon = 0 THEN Len(h) + 1 ELSE colon
  IN  [host |-> SubSeq(h, 1, (IF close > 0 /\ close < end THEN close ELSE end) - 1),
       service |-> IF colon = 0 \/ serviceSz = 0 THEN <<>>
                   ELSE StrNcpy(SubSeq(h, colon + 1, Len(h)), serviceSz)]

\* The copy of the text is cut apart, not the text.
Parsed(text, hostSz, serviceSz) ==
  LET h == StrNcpy(Inner(text), hostSz)
      close == Strchr(h, "]", 1)
      colon == Strchr(h, ":", close + 1)
      end == IF close > 0 THEN close ELSE IF colon > 0 THEN colon ELSE Len(h) + 1
  IN  [host |-> SubSeq(h, 1, end - 1),
       service |-> IF colon = 0 \/ serviceSz = 0 THEN <<>>
                   ELSE StrNcpy(SubSeq(h, colon + 1, Len(h)), serviceSz)]

\* strtoul(): the value of the digits at the beginning.
Strtoul(s) ==
  LET other == SelectInSeq(s, LAMBDA ch : ch \notin DOMAIN Digit)
      digits == IF other = 0 THEN Len(s) ELSE other - 1
      value[n \in 0 .. digits] == IF n = 0 THEN 0 ELSE 10 * value[n - 1] + Digit[s[n]]
  IN  value[digits]

\* addr_parse_hostspec_p(): portstr[6], and a port is an unsigned short.
ParsedP(text, hostSz) ==
  LET p == Parsed(text, hostSz, 6)
  IN  [host |-> p.host, port |-> Strtoul(p.service) % 2 ^ 16]

\* host + 1 up to strlen(host) - 1, when host has a colon
StripEnds(s) == SubSeq(s, 2, Len(s) - 1)

\* host[256]; a failed inet_pton() leaves the port unset.
MadeSockaddr(text) ==
  LET p == ParsedP(text, 256)
      six == Contains(p.host, ":")
      ip == IF six THEN StripEnds(p.host) ELSE p.host
  IN  IF ip \in (IF six THEN Addr6 ELSE Addr4)
      THEN [ok |-> TRUE, addr |-> ip, port |-> p.port]
      ELSE [ok |-> FALSE, addr |-> <<>>, port |-> 0]

NoCall == [func |-> "none"]

addr_parse_hostspec(s, hostSz, serviceSz) ==
  hs' = [func |-> "parse", spec |-> s, hostSz |-> hostSz, serviceSz |-> serviceSz,
         stored |-> Parsed(Written(s), hostSz, serviceSz)]

addr_make_sockaddr(s) ==
  hs' = [func |-> "make", spec |-> s, stored |-> MadeSockaddr(Written(s))]

HostspecNext ==
  \E s \in [host : Name \cup Addr6, service : Service] :
    \/ \E hostSz \in HostSizes, serviceSz \in ServiceSizes :
         addr_parse_hostspec(s, hostSz, serviceSz)
    \/ addr_make_sockaddr(s)

-----------------------------------------------------------------------------
(* Properties *)

ParseInverts ==
  hs.func = "parse" =>
    /\ Len(Written(hs.spec)) < hs.hostSz =>
         /\ hs.stored.host = hs.spec.host
         /\ hs.serviceSz > 0 =>
              hs.stored.service = StrNcpy(hs.spec.service, hs.serviceSz)
    /\ hs.spec.host \in Name =>
         /\ IsPrefix(hs.stored.host, hs.spec.host)
         /\ IsPrefix(hs.stored.service, hs.spec.service)

MakesAddr4 ==
  hs.func = "make" /\ hs.spec.host \in Name /\ Len(Written(hs.spec)) < 256 =>
    /\ hs.stored.ok = (hs.spec.host \in Addr4)
    /\ hs.stored.ok =>
         /\ hs.stored.addr = hs.spec.host
         /\ Len(hs.spec.service) < 6 /\ Strtoul(hs.spec.service) < 2 ^ 16 =>
              hs.stored.port = Strtoul(hs.spec.service)

\* addr_parse_hostspec() inverts the documented form: whatever the caller wrote,
\* with or without brackets and with or without a service, comes back as the
\* host and the service, the latter as far as its buffer goes.  The host's
\* buffer must hold the whole text after "[", as the function cuts the copy
\* apart and not the original; with a smaller one, both results for a name or an
\* IPv4 address are still beginnings of what was written.  (An IPv6 address has
\* no such promise: when the "]" does not fit, a part of the address is taken
\* for the service.)
\* On top of it, addr_make_sockaddr() hands an IPv4 address to inet_pton() as
\* it was written and takes no name for an address, as long as the text fits its
\* buffer of 256; the port in the result is the one that was written, if a port
\* it was, and zero without one.
HostspecsUnderstood == ParseInverts /\ MakesAddr4

\* addr_make_sockaddr() accepts "[a:b:c::h]:port" for an IPv6 address, as the
\* comment above it says.
MakesAddr6 ==
  hs.func = "make" /\ hs.spec.host \in Addr6 =>
    hs.stored.ok /\ hs.stored.addr = hs.spec.host

=============================================================================
