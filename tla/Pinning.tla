------------------------------ MODULE Pinning -------------------------------
(***************************************************************************)
(* SPKI pinning per host (pinning.rs, tls.rs): the pin entries of a config *)
(* are decoded when the client is built, and every handshake after that is *)
(* checked against the entries that match its SNI and have not expired,    *)
(* while the clock runs.                                                   *)
(*                                                                         *)
(* A handshake that is refused ends the request with an error, which the   *)
(* client classifies (TransportErrors).                                    *)
(*                                                                         *)
(* A host is its text in pieces, the dots among them, with the way it was  *)
(* written; a pin is the key it hashes, or a string that decodes to no     *)
(* hash; a certificate is its key, or one that does not parse.  A day has  *)
(* PerDay seconds (86400 in the code), so that TLC's numbers reach past    *)
(* 2038 and the clock meets every midnight.                                *)
(***************************************************************************)
EXTENDS Integers, Sequences, SequencesExt, Sums, TransportErrors

CONSTANTS Configs,    \* pinned_domains: sequences of pin entries
          Starts,     \* dates on which the program starts
          PerDay,     \* seconds in a day
          Ticks,      \* how long it runs, in seconds
          Chains,     \* certificate chains, the leaf first
          Names,      \* server names: a name in pieces, or an IP address
          Bad,        \* a pin or certificate that cannot be read
          Never       \* no expiration, no handshake

VARIABLES config,   \* PqcConfig.pinned_domains
          built,    \* whether PqcHttpClient::new has run, and what became of it
          domains,  \* the decoded entries
          today, time, age,   \* the calendar's date, the time of day, how long it has run
          now,      \* the clock, in seconds since the epoch
          shake     \* the last handshake

vars == <<config, built, domains, today, time, age, now, shake>>

ASSUME PerDayAssumption == PerDay \in Nat \ {0} /\ Ticks \in Nat

ASSUME NeverAssumption == Never \notin Nat

\* Entries are records of their fields, and a date is three whole numbers.
ASSUME ConfigAssumption ==
    \A c \in Configs : \A i \in DOMAIN c :
        /\ DOMAIN c[i].host = {"name", "as"} /\ c[i].host.name \in Seq(STRING)
        /\ c[i].pins = <<>> \/ 1 \in DOMAIN c[i].pins
        /\ c[i].expiration # Never =>
              /\ c[i].expiration.year \in Int
              /\ c[i].expiration.month \in Int /\ c[i].expiration.day \in Int

ASSUME NamesAssumption == \A sni \in Names : sni.name \in Seq(STRING)

-----------------------------------------------------------------------------
(* Dates.                                                                  *)

IsLeapYear(y) == (y % 4 = 0 /\ y % 100 # 0) \/ y % 400 = 0

DaysInMonth(y, m) ==
    CASE m \in {1, 3, 5, 7, 8, 10, 12} -> 31
      [] m \in {4, 6, 9, 11} -> 30
      [] m = 2 -> IF IsLeapYear(y) THEN 29 ELSE 28
      [] OTHER -> 0

DaysFromCivil(y, m, d) ==
    LET s == IF m <= 2 THEN y - 1 ELSE y
        era == s \div 400
        yoe == s - era * 400
        doy == (153 * (IF m > 2 THEN m - 3 ELSE m + 9) + 2) \div 5 + d - 1
    IN era * 146097 + yoe * 365 + yoe \div 4 - yoe \div 100 + doy - 719468

\* A date of three numbers in the right places.
ParsesDate(t) == t.month \in 1 .. 12 /\ t.day >= 1 /\ t.day <= DaysInMonth(t.year, t.month)

\* Mutant: a date before the epoch stays negative.
SecondsUnclamped(t) == DaysFromCivil(t.year, t.month, t.day) * PerDay

\* Days before the epoch count as the epoch.
Seconds(t) ==
    LET n == DaysFromCivil(t.year, t.month, t.day) * PerDay
    IN IF n > 0 THEN n ELSE 0

-----------------------------------------------------------------------------
(* decode_domain_pins.                                                     *)

\* Trimmed and in lower case.
Normal(host) == [host EXCEPT !.as = "plain"]

\* Mutant: an entry without pins is taken.
DecodesAnyList(e) ==
    /\ e.host.name # <<>>
    /\ \A i \in DOMAIN e.pins : e.pins[i] # Bad
    /\ e.expiration # Never => ParsesDate(e.expiration)

Decodes(e) ==
    /\ e.host.name # <<>> /\ e.pins # <<>>
    /\ \A i \in DOMAIN e.pins : e.pins[i] # Bad
    /\ e.expiration # Never => ParsesDate(e.expiration)

Decoded(e) ==
    [host |-> Normal(e.host), sub |-> e.sub, pins |-> e.pins,
     expires |-> IF e.expiration = Never THEN Never ELSE Seconds(e.expiration)]

-----------------------------------------------------------------------------
(* PinningVerifier.                                                        *)

\* Mutant: any name that ends with the host is a subdomain.
MatchesUndotted(d, sni) ==
    \/ sni = d.host
    \/ d.sub /\ sni.as = d.host.as /\ IsStrictSuffix(d.host.name, sni.name)

\* The host, or a name that has more in front of it, which ends in a dot.
Matches(d, sni) ==
    \/ sni = d.host
    \/ /\ d.sub /\ sni.as = d.host.as
       /\ LET n == Len(sni.name) - Len(d.host.name)
          IN /\ n > 0 /\ SubSeq(sni.name, n + 1, Len(sni.name)) = d.host.name
             /\ sni.name[n] = "."

\* Mutant: == in place of >=.
IsExpiredThen(d, t) == d.expires # Never /\ t = d.expires

IsExpired(d, t) == d.expires # Never /\ t >= d.expires

PinsFor(ds, sni, t) ==
    UNION {ToSet(ds[i].pins) : i \in {j \in DOMAIN ds : Matches(ds[j], sni) /\ ~IsExpired(ds[j], t)}}

MatchesPins(chain, pins) ==
    /\ chain[1] # Bad
    /\ \E i \in DOMAIN chain : chain[i] # Bad /\ chain[i] \in pins

\* The name in lower case.
Lowered(sni) == [name |-> sni.name, as |-> "plain"]

\* What the platform verifier may say: nothing against the chain, that it is not to
\* be trusted, or another error of rustls.
Verdicts == {NoRustls, Rustls("InvalidCertificate", FALSE), Rustls("General", FALSE)}

\* verify_server_cert, for a name and for an IP address: no error, or the one that
\* rustls gets.
Verify(ds, sni, chain, verdict, t) ==
    LET pins == PinsFor(ds, Lowered(sni), t)
    IN IF verdict # NoRustls THEN verdict
       ELSE IF sni.ip \/ pins = {} \/ MatchesPins(chain, pins) THEN NoRustls
       ELSE Rustls("General", TRUE)

-----------------------------------------------------------------------------
(* The calendar, which knows nothing of the code.                          *)

MonthLengths == <<31, 28, 31, 30, 31, 30, 31, 31, 30, 31, 30, 31>>
Leap(y) == y % 4 = 0 /\ (y % 100 = 0 => y % 400 = 0)
LastDay(y, m) == IF m = 2 /\ Leap(y) THEN 29 ELSE MonthLengths[m]

Date(y, m, d) == [year |-> y, month |-> m, day |-> d]

Tomorrow(t) ==
    IF t.day < LastDay(t.year, t.month) THEN Date(t.year, t.month, t.day + 1)
    ELSE IF t.month < 12 THEN Date(t.year, t.month + 1, 1)
    ELSE Date(t.year + 1, 1, 1)

\* Days from 1970-01-01, counted, year by year and month by month.
YearDays[n \in Nat] ==
    IF n = 0 THEN 0 ELSE YearDays[n - 1] + (IF Leap(1969 + n) THEN 366 ELSE 365)
MonthDays(y) == [m \in 1 .. 12 |-> LastDay(y, m)]
Counted(t) ==
    YearDays[t.year - 1970] + Total(SubSeq(MonthDays(t.year), 1, t.month - 1)) + t.day - 1

IsDate(t) ==
    /\ t.year \in Int /\ t.month \in 1 .. 12 /\ t.day \in 1 .. LastDay(t.year, t.month)

\* The program starts at or after the epoch.
ASSUME StartAssumption == \A t \in Starts : IsDate(t) /\ t.year >= 1970

OnOrAfter(s, t) ==
    \/ s.year > t.year
    \/ s.year = t.year /\ s.month > t.month
    \/ s.year = t.year /\ s.month = t.month /\ s.day >= t.day

-----------------------------------------------------------------------------
Init ==
    /\ config \in Configs /\ built = "no" /\ domains = <<>>
    /\ today \in Starts /\ time = 0 /\ age = 0
    /\ now = Counted(today) * PerDay
    /\ shake = Never

\* PqcHttpClient::new, through build_tls_config.
Construct ==
    /\ built = "no"
    /\ IF \A i \in DOMAIN config : Decodes(config[i])
       THEN built' = "yes" /\ domains' = [i \in DOMAIN config |-> Decoded(config[i])]
       ELSE built' = "rejected" /\ UNCHANGED domains
    /\ UNCHANGED <<config, today, time, age, now, shake>>

Tick ==
    /\ age < Ticks /\ age' = age + 1
    /\ time' = (time + 1) % PerDay
    /\ today' = IF time' = 0 THEN Tomorrow(today) ELSE today
    /\ now' = now + 1
    /\ UNCHANGED <<config, built, domains, shake>>

Handshake ==
    /\ built = "yes"
    /\ \E sni \in Names, chain \in Chains, verdict \in Verdicts :
          shake' = [sni |-> sni, chain |-> chain, verdict |-> verdict, on |-> today,
                    error |-> Verify(domains, sni, chain, verdict, now)]
    /\ UNCHANGED <<config, built, domains, today, time, age, now>>

Next == Construct \/ Tick \/ Handshake

Spec == Init /\ [][Next]_vars

-----------------------------------------------------------------------------
(* What a config asks for, in terms of the config and the calendar.        *)

Under(name, host) ==
    \E n \in DOMAIN name : name[n] = "." /\ SubSeq(name, n + 1, Len(name)) = host

Covers(e, sni) ==
    ~sni.ip /\ (sni.name = e.host.name \/ (e.sub /\ Under(sni.name, e.host.name)))

Accepted(h) == h.error = NoRustls

InForce(sni, t) ==
    {i \in DOMAIN config :
        /\ Covers(config[i], sni)
        /\ config[i].expiration = Never \/ ~OnOrAfter(t, config[i].expiration)}

Satisfies(chain, sni, t) ==
    /\ chain[1] # Bad
    /\ \E i \in InForce(sni, t) : \E k \in DOMAIN chain :
          chain[k] # Bad /\ chain[k] \in ToSet(config[i].pins)

Flawed(e) ==
    \/ e.host.name = <<>> \/ e.pins = <<>> \/ Bad \in ToSet(e.pins)
    \/ /\ e.expiration # Never
       /\ \/ e.expiration.month \notin 1 .. 12
          \/ e.expiration.day \notin 1 .. LastDay(e.expiration.year, e.expiration.month)

-----------------------------------------------------------------------------
TypeOK ==
    /\ config \in Configs /\ built \in {"no", "yes", "rejected"}
    /\ \A i \in DOMAIN domains : domains[i].expires = Never \/ domains[i].expires \in Nat
    /\ time \in 0 .. PerDay - 1 /\ age \in 0 .. Ticks /\ now \in Nat

\* A client is built exactly when every entry has a host, a pin, only pins that
\* decode and a date that exists (pinning.rs:226-233, 249-251).
ConfigChecked == built # "no" => (built = "rejected" <=> \E i \in DOMAIN config : Flawed(config[i]))

\* A host with entries in force is reached exactly through the chains that the
\* platform trusts and that have a readable leaf and a pinned key, however the
\* host was written, whichever entry names the key, up to the very midnight and
\* no longer; any other host through every chain the platform trusts: no pin
\* lets go early, outlives its date or breaks another host (pinning.rs:11-32).
PinsHold ==
    shake # Never =>
        (Accepted(shake) <=>
            /\ shake.verdict = NoRustls
            /\ InForce(shake.sni, shake.on) # {} => Satisfies(shake.chain, shake.sni, shake.on))

\* What a refused handshake should be told as.
Cause(h) ==
    CASE h.verdict = NoRustls -> "PinningFailure"
      [] h.verdict.variant = "InvalidCertificate" -> "TrustVerification"
      [] OTHER -> "Tls"

\* On the plain backend a handshake refused for a pin or for trust is told as that,
\* and so to a URLSession, in the chain the transport builds and whatever words the
\* URL has: never as the network error that callers retry, nor one as the other.  A
\* rustls error that is a source in the chain is told as what it is by either walk.
\* A time-out and a broken connection are told as such on both backends and in
\* mid-body, though the URL may speak of a certificate (client.rs:630-717).
CausesAreTold ==
    shake # Never /\ ~Accepted(shake) =>
        LET cause == Cause(shake)
        IN \A url \in Urls :
            /\ MapReqwestErr(Typed(shake.error, url)) = cause
            /\ MapMiddlewareErr(TRUE, Boxed(Typed(shake.error, url))) = cause
            /\ cause # "Tls" =>
                  /\ MapReqwestErr(Wrapped(shake.error, url)) = cause
                  /\ MapMiddlewareErr(FALSE, Wrapped(shake.error, url)) = cause
            /\ cause # "Tls" <=> MapError[cause] = "serverCertificateUntrusted"
            /\ \A chain \in {TimedOut(url), Reset(url)} :
                  LET fault == IF chain[1].timedOut THEN "Timeout" ELSE "Network"
                  IN /\ MapReqwestErr(chain) = fault
                     /\ MapMiddlewareErr(TRUE, Boxed(chain)) = fault
                     /\ MapMidBodyErr(chain) = fault
                     /\ MapError[fault] # "serverCertificateUntrusted"

\* The cached backend tells a handshake refused for a pin or for trust as that too,
\* and does not make it the network error that callers retry, when it comes in the
\* chain the transport builds: what the comments say the walk is for
\* (client.rs:644-647, 656-657, 955-958).
CachedTellsRefusals ==
    shake # Never /\ ~Accepted(shake) /\ Cause(shake) # "Tls" =>
        \A url \in Urls : MapMiddlewareErr(TRUE, Boxed(Wrapped(shake.error, url))) = Cause(shake)

\* A name that has no pins in force gets none as time goes on (pinning.rs:79-86,
\* 104-118).
PinsLapseForGood ==
    [][\A sni \in Names :
          built = "yes" /\ PinsFor(domains, Lowered(sni), now) = {}
          => PinsFor(domains', Lowered(sni), now') = {}]_vars
=============================================================================
