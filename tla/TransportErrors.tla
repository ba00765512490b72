--------------------------- MODULE TransportErrors --------------------------
(***************************************************************************)
(* What a caller is told of a failed exchange (client.rs, error.rs and the *)
(* iOS bridge): the transport reports a chain of errors, each the source   *)
(* of the one before it, and the client makes one PqcError of it.  There   *)
(* is a walk for the plain backend, one for the cached backend, and a      *)
(* short cut once a body flows.                                            *)
(*                                                                         *)
(* A link of a chain says whether it can be downcast to a rustls or a      *)
(* reqwest error, whether it timed out, and which of the words the code    *)
(* looks for its text has: in what it says, and in the URL it quotes.  The *)
(* words are "pinning failure", "certificate", "handshake" and "tls".      *)
(***************************************************************************)
EXTENDS Sequences, SequencesExt

\* The URLs, by the words in them: the other words hold blanks or stand between some.
Urls == SUBSET {"certificate", "handshake"}

NoRustls == [variant |-> "none", marked |-> FALSE]
\* marked: the text of a General or Other has "pinning failure" in it.
Rustls(variant, marked) == [variant |-> variant, marked |-> marked]

Link(as, rustls, timedOut, says, url) ==
    [as |-> as, rustls |-> rustls, timedOut |-> timedOut, says |-> says, url |-> url]

-----------------------------------------------------------------------------
(* The classifiers.                                                        *)

\* classify_rustls_error: whatever else the handshake meets is Tls.
ClassifyRustls(e) ==
    IF e.variant \in {"InvalidCertificate", "InvalidCertRevocationList"} THEN "TrustVerification"
    ELSE IF e.variant \in {"General", "Other"} /\ e.marked THEN "PinningFailure"
    ELSE "Tls"

ByText(words) ==
    IF "pinning failure" \in words THEN "PinningFailure"
    ELSE IF "certificate" \in words THEN "TrustVerification"
    ELSE IF words \cap {"handshake", "tls"} # {} THEN "Tls"
    ELSE "Network"

IsRustls(link) == link.as = "rustls"

\* Mutant: the text of a link is looked at with the URL in it.
SeenWhole(link, url) == link.says \cup link.url

\* The words of a link's text, once that URL is cut out of it.
Seen(link, url) == link.says \cup (IF link.url = url THEN {} ELSE link.url)

\* The plain backend: the time-out, then a rustls error, then the first link whose
\* text tells something, without the URL of the request.
MapReqwestErr(chain) ==
    LET url == Head(chain).url
        Tells(link) == ByText(Seen(link, url)) # "Network"
        typed == SelectInSeq(chain, IsRustls)
        told == SelectInSeq(chain, Tells)
    IN IF Head(chain).timedOut THEN "Timeout"
       ELSE IF typed # 0 THEN ClassifyRustls(chain[typed].rustls)
       ELSE IF told # 0 THEN ByText(Seen(chain[told], url))
       ELSE "Network"

\* The cached backend: the first link that is a rustls error or a reqwest error
\* that timed out.
ClassifyErrChain(chain) ==
    LET Decides(link) == IsRustls(link) \/ (link.as = "reqwest" /\ link.timedOut)
        at == SelectInSeq(chain, Decides)
    IN IF at = 0 THEN "Network"
       ELSE IF IsRustls(chain[at]) THEN ClassifyRustls(chain[at].rustls)
       ELSE "Timeout"

\* The middleware hands on a reqwest error as it is, or boxes it.
MapMiddlewareErr(boxed, chain) ==
    IF boxed THEN ClassifyErrChain(chain) ELSE MapReqwestErr(chain)

MapMidBodyErr(chain) == IF Head(chain).timedOut THEN "Timeout" ELSE "Network"

\* PqcURLProtocol.mapError.
MapError ==
    [Timeout |-> "timedOut", PinningFailure |-> "serverCertificateUntrusted",
     TrustVerification |-> "serverCertificateUntrusted", Network |-> "networkConnectionLost",
     Tls |-> "secureConnectionFailed", InvalidRequest |-> "badURL"]

-----------------------------------------------------------------------------
(* The chains the transport builds.                                        *)

\* rustls names the marker and certificates in its text; a plain General has neither.
Text(e) ==
    (IF e.marked THEN {"pinning failure", "certificate"} ELSE {})
    \cup (IF e.variant \in {"InvalidCertificate", "InvalidCertRevocationList"} THEN {"certificate"} ELSE {})

Outermost(timedOut, url) == Link("reqwest", NoRustls, timedOut, {}, url)
Wrapper(says) == Link("other", NoRustls, FALSE, says, {})

\* A rustls error that is a source in the chain, as the walks take it to be.
Typed(e, url) ==
    <<Outermost(FALSE, url), Wrapper({}), Link("rustls", e, FALSE, Text(e), {})>>

\* What the transport builds: hyper-util's error, and an io::Error around the rustls
\* error, which has its text but gives as source what that one has for a source: none.
Wrapped(e, url) == <<Outermost(FALSE, url), Wrapper({}), Wrapper(Text(e))>>

TimedOut(url) == <<Outermost(TRUE, url), Wrapper({})>>
Reset(url) == <<Outermost(FALSE, url), Wrapper({})>>

\* http-cache puts links of its own in front.
Boxed(chain) == <<Wrapper({})>> \o chain
=============================================================================
