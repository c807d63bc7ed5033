----------------------------- MODULE ProxyServer -----------------------------
(***************************************************************************)
(* The proxy between a package manager and the registries                   *)
(* (proxy/proxy.go, proxy/certmanager): from the CA certificate to the       *)
(* response a client gets.                                                  *)
(*                                                                         *)
(* A client either asks for a tunnel (CONNECT), which the interceptors       *)
(* leave opaque or have opened (MITM) with a certificate made for its host,  *)
(* or sends a plain request.  Every request the proxy can read is put to     *)
(* all interceptors, which run in the order of a Go map, and its response to *)
(* the modifier they left.  Certificates are cached per host, and made once  *)
(* for all the connections that wait for one (singleflight).                *)
(*                                                                         *)
(* An interceptor is what it wants to see, what it wants opened, and the     *)
(* answers it may give; those of the registries are ProxyGuard.tla's and     *)
(* RegistryRequest.tla's.  One tick of the clock is the hour of              *)
(* certExpiryThreshold.                                                     *)
(***************************************************************************)
EXTENDS Naturals, Sequences, FiniteSets

CONSTANTS
  Conns,         \* connections of the package manager
  Hosts,
  Interceptors,
  AuditLogger,   \* the interceptor that observes every host
  Intercepts,    \* ShouldIntercept: the hosts each interceptor asks to see
  Decrypts,      \* ShouldMITM: the hosts each interceptor wants opened
  Answers,       \* what HandleRequest of each may return
  Bundles,       \* the readable candidates of the system's CA bundle
  Validity,      \* ticks a host certificate is valid
  Horizon,       \* bound: ticks of the clock
  Requests       \* bound: requests of each connection

AnswerKinds == {"allow", "block", "modifyRequest", "modifyResponse", "error", "nil"}

ASSUME ServerAssumption ==
  /\ Hosts # {} /\ AuditLogger \in Interceptors
  /\ Intercepts \in [Interceptors -> SUBSET Hosts]
  /\ Decrypts \in [Interceptors -> SUBSET Hosts]
  /\ \A i \in Interceptors : Decrypts[i] \subseteq Intercepts[i]
  /\ Answers \in [Interceptors -> SUBSET AnswerKinds]
  /\ Intercepts[AuditLogger] = Hosts /\ Decrypts[AuditLogger] = {}
  /\ Answers[AuditLogger] = {"allow"}
  /\ Validity \in Nat \ {0} /\ Horizon \in Nat /\ Requests \in [Conns -> Nat]

VARIABLES
  server,      \* the life of the proxyServer
  ca,          \* the file the package manager is told to trust
  clock,
  certs,       \* InMemoryCache: NotAfter of each host's certificate, 0 without one
  flight,      \* singleflight.Group: the connection that makes the host's certificate
  observed,    \* the hosts the audit logger has reported
  pc,          \* where the handler of each connection is
  mode,        \* "tunnel", "mitm" or "plain"
  host,        \* the host of its CONNECT
  since,       \* when its handshake began
  cert,        \* NotAfter of the certificate it was given
  todo,        \* interceptors the loop under the read lock has still to visit
  opening,     \* shouldMITM
  judged,      \* a request context could be made
  target,      \* the host of the request's URL, after normalizeRequestURL
  verdicts,    \* what each interceptor said of the request
  modifier,    \* ctx.UserData holds a response modifier
  broken,      \* that modifier has failed
  reply,       \* what the client got
  left         \* requests the client may still send

serverVars  == <<server, ca>>
certVars    == <<certs, flight>>
connVars    == <<mode, host, opening, left>>
shakeVars   == <<cert, since>>
requestVars == <<judged, target, verdicts, modifier, broken, reply>>
vars == <<serverVars, clock, certVars, observed, pc, connVars, shakeVars, todo, requestVars>>

Unasked == [i \in Interceptors |-> "unasked"]
Handshaking == {"lookup", "missed", "waiting", "leading", "generating", "tls"}
Working == Handshaking \cup {"deciding", "asking", "forwarded", "reading"}
Replies == {"none", "refused", "original", "modified", "unavailable", "lost"}

TypeOK ==
  /\ server \in {"new", "certified", "managed", "built", "listening", "stopped", "failed"}
  /\ ca \in {"none", "own", "merged"}
  /\ clock \in 0..Horizon
  /\ certs \in [Hosts -> Nat] /\ cert \in [Conns -> Nat] /\ since \in [Conns -> Nat]
  /\ flight \in [Hosts -> SUBSET Conns]
  /\ observed \subseteq Hosts
  /\ pc \in [Conns -> Working \cup {"idle", "open", "closed"}]
  /\ mode \in [Conns -> {"none", "tunnel", "mitm", "plain"}]
  /\ host \in [Conns -> Hosts] /\ target \in [Conns -> Hosts]
  /\ todo \in [Conns -> SUBSET Interceptors]
  /\ opening \in [Conns -> BOOLEAN] /\ judged \in [Conns -> BOOLEAN]
  /\ verdicts \in [Conns -> [Interceptors -> AnswerKinds \cup {"unasked"}]]
  /\ modifier \in [Conns -> BOOLEAN] /\ broken \in [Conns -> BOOLEAN]
  /\ reply \in [Conns -> Replies]
  /\ left \in [Conns -> Nat]

Init ==
  /\ server = "new" /\ ca = "none" /\ clock = 0
  /\ certs = [h \in Hosts |-> 0] /\ flight = [h \in Hosts |-> {}]
  /\ observed = {}
  /\ pc = [c \in Conns |-> "idle"] /\ mode = [c \in Conns |-> "none"]
  /\ host = [c \in Conns |-> CHOOSE h \in Hosts : TRUE]
  /\ target = host
  /\ since = [c \in Conns |-> 0] /\ cert = [c \in Conns |-> 0]
  /\ todo = [c \in Conns |-> {}]
  /\ opening = [c \in Conns |-> FALSE] /\ judged = [c \in Conns |-> FALSE]
  /\ verdicts = [c \in Conns |-> Unasked]
  /\ modifier = [c \in Conns |-> FALSE] /\ broken = [c \in Conns |-> FALSE]
  /\ reply = [c \in Conns |-> "none"]
  /\ left = Requests

Goto(c, from, to) == pc[c] = from /\ pc' = [pc EXCEPT ![c] = to]

-----------------------------------------------------------------------------
(* The CA, and the life of the server.                                      *)

MaxBundle == 3   \* maxSystemCABundleBytes
OwnSize   == 1   \* the bytes of the PMG certificate and of the line ends

\* systemCABundleCandidatesForOS, firstReadablePath: the environment's two
\* variables first, then the places of the platform; a path that is missing, a
\* directory or closed to us is passed over.  0 stands for none of them.
FirstReadable(candidates) ==
  LET readable == {k \in DOMAIN candidates : candidates[k].opens}
  IN IF readable = {} THEN 0 ELSE CHOOSE k \in readable : \A l \in readable : k <= l

\* A bundle that is too large alone or with our certificate is left out; one
\* that can be opened and then neither examined nor read is an error.
GenerateCAWithSystemCA(candidates) ==
  LET k == FirstReadable(candidates)
  IN IF k = 0 THEN "own"
     ELSE IF candidates[k].gone THEN "error"
     ELSE IF candidates[k].size + OwnSize > MaxBundle THEN "own"
     ELSE "merged"

SetupCA ==
  /\ server = "new"
  /\ \E candidates \in Bundles :
       LET made == GenerateCAWithSystemCA(candidates)
       IN /\ server' = IF made = "error" THEN "failed" ELSE "certified"
          /\ ca' = IF made = "error" THEN ca ELSE made
  /\ UNCHANGED <<clock, certVars, observed, pc, connVars, shakeVars, todo, requestVars>>

\* A configuration that is not valid, or a CA that does not parse or is expired,
\* is refused.
NewCertificateManagerWithCA ==
  /\ server = "certified" /\ server' \in {"managed", "failed"}
  /\ UNCHANGED <<ca, clock, certVars, observed, pc, connVars, shakeVars, todo, requestVars>>

\* Each interceptor is registered once under its name.
NewProxyServer ==
  /\ server = "managed" /\ server' \in {"built", "failed"}
  /\ UNCHANGED <<ca, clock, certVars, observed, pc, connVars, shakeVars, todo, requestVars>>

Start ==
  /\ server = "built" /\ server' \in {"listening", "failed"}
  /\ UNCHANGED <<ca, clock, certVars, observed, pc, connVars, shakeVars, todo, requestVars>>

\* Shutdown: no new connection; it waits for plain requests, and not for what
\* CONNECT has hijacked.
Stop ==
  /\ server = "listening"
  /\ \A c \in Conns : mode[c] = "plain" => pc[c] = "closed"
  /\ server' = "stopped"
  /\ UNCHANGED <<ca, clock, certVars, observed, pc, connVars, shakeVars, todo, requestVars>>

\* Bound: the clock stands while a handshake is older than an hour.
Tick ==
  /\ clock < Horizon /\ clock' = clock + 1
  /\ \A c \in Conns : pc[c] \in Handshaking => since[c] = clock
  /\ UNCHANGED <<serverVars, certVars, observed, pc, connVars, shakeVars, todo, requestVars>>

-----------------------------------------------------------------------------
(* CONNECT.                                                                  *)

\* The audit logger reports a host that no registry interceptor knows.
Unknown(h) == \A i \in Interceptors \ {AuditLogger} : h \notin Intercepts[i]
Observe(i, h) ==
  observed' = IF i = AuditLogger /\ Unknown(h) THEN observed \cup {h} ELSE observed

\* The loops ask ShouldIntercept of every interceptor and skip those that say no.
Interested(h) == {i \in Interceptors : h \in Intercepts[i]}

Connect(c, h) ==
  /\ server = "listening" /\ Goto(c, "idle", "deciding")
  /\ host' = [host EXCEPT ![c] = h]
  /\ todo' = [todo EXCEPT ![c] = Interested(h)]
  /\ judged' = [judged EXCEPT ![c] = TRUE]
  /\ UNCHANGED <<serverVars, clock, certVars, observed, mode, shakeVars, opening, left,
                 target, verdicts, modifier, broken, reply>>

\* newRequestContextFromURL fails: a tunnel, and nobody is asked.
ConnectUnparsed(c, h) ==
  /\ server = "listening" /\ Goto(c, "idle", "open")
  /\ host' = [host EXCEPT ![c] = h]
  /\ mode' = [mode EXCEPT ![c] = "tunnel"]
  /\ UNCHANGED <<serverVars, clock, certVars, observed, shakeVars, opening, left, todo,
                 requestVars>>

\* One turn of the loop over the interceptors: those that do not want the
\* connection opened observe it.
Decide(c, i) ==
  /\ pc[c] = "deciding" /\ i \in todo[c]
  /\ todo' = [todo EXCEPT ![c] = @ \ {i}]
  /\ opening' = [opening EXCEPT ![c] = @ \/ host[c] \in Decrypts[i]]
  /\ IF host[c] \in Decrypts[i] THEN UNCHANGED observed ELSE Observe(i, host[c])
  /\ UNCHANGED <<serverVars, clock, certVars, pc, mode, host, shakeVars, left, requestVars>>

Tunnel(c) ==
  /\ todo[c] = {} /\ ~opening[c]
  /\ Goto(c, "deciding", "open")
  /\ mode' = [mode EXCEPT ![c] = "tunnel"]
  /\ UNCHANGED <<serverVars, clock, certVars, observed, host, shakeVars, opening, left, todo,
                 requestVars>>

Mitm(c) ==
  /\ todo[c] = {} /\ opening[c]
  /\ Goto(c, "deciding", "lookup")
  /\ mode' = [mode EXCEPT ![c] = "mitm"]
  /\ since' = [since EXCEPT ![c] = clock]
  /\ UNCHANGED <<serverVars, clock, certVars, observed, host, cert, opening, left, todo,
                 requestVars>>

-----------------------------------------------------------------------------
(* The certificate of a host.                                               *)

\* Fault: a cached certificate is used until its last hour is over.
FreshToTheEnd(notAfter) == notAfter # 0 /\ notAfter >= clock

\* IsExpired: less than the threshold is left.
Fresh(notAfter) == notAfter # 0 /\ notAfter >= clock + 1

GiveCert(cs, notAfter) ==
  /\ pc' = [c \in Conns |-> IF c \in cs THEN "tls" ELSE pc[c]]
  /\ cert' = [c \in Conns |-> IF c \in cs THEN notAfter ELSE cert[c]]
  /\ UNCHANGED since

\* The client accepts the certificate.
Established(c) ==
  /\ Goto(c, "tls", "open")
  /\ since' = [since EXCEPT ![c] = 0]
  /\ UNCHANGED <<serverVars, clock, certVars, observed, connVars, cert, todo, requestVars>>

\* It does not trust the CA, or hangs up.  A client may also do neither, for ever.
HandshakeFails(c) ==
  /\ Goto(c, "tls", "closed")
  /\ since' = [since EXCEPT ![c] = 0]
  /\ UNCHANGED <<serverVars, clock, certVars, observed, connVars, cert, todo, requestVars>>

CachedCert(c) ==
  /\ pc[c] = "lookup" /\ Fresh(certs[host[c]])
  /\ GiveCert({c}, certs[host[c]])
  /\ UNCHANGED <<serverVars, clock, certVars, observed, connVars, todo, requestVars>>

CacheMiss(c) ==
  /\ ~Fresh(certs[host[c]])
  /\ Goto(c, "lookup", "missed")
  /\ UNCHANGED <<serverVars, clock, certVars, observed, connVars, shakeVars, todo, requestVars>>

\* singleflight: the first leads, the others wait for what it returns.
JoinFlight(c) ==
  /\ Goto(c, "missed", IF flight[host[c]] = {} THEN "leading" ELSE "waiting")
  /\ flight' = [flight EXCEPT ![host[c]] = @ \cup {c}]
  /\ UNCHANGED <<serverVars, clock, certs, observed, connVars, shakeVars, todo, requestVars>>

\* The leader looks into the cache again: a flight may have ended since it missed.
RecheckHit(c) ==
  /\ pc[c] = "leading" /\ Fresh(certs[host[c]])
  /\ GiveCert(flight[host[c]], certs[host[c]])
  /\ flight' = [flight EXCEPT ![host[c]] = {}]
  /\ UNCHANGED <<serverVars, clock, certs, observed, connVars, todo, requestVars>>

RecheckMiss(c) ==
  /\ ~Fresh(certs[host[c]])
  /\ Goto(c, "leading", "generating")
  /\ UNCHANGED <<serverVars, clock, certVars, observed, connVars, shakeVars, todo, requestVars>>

GenerateHostCert(c) ==
  /\ pc[c] = "generating"
  /\ certs' = [certs EXCEPT ![host[c]] = clock + Validity]
  /\ GiveCert(flight[host[c]], clock + Validity)
  /\ flight' = [flight EXCEPT ![host[c]] = {}]
  /\ UNCHANGED <<serverVars, clock, observed, connVars, todo, requestVars>>

\* Fault: the error is returned to the leader only.
GenerateFailsAlone(c) ==
  /\ pc[c] = "generating"
  /\ pc' = [pc EXCEPT ![c] = "closed"]
  /\ flight' = [flight EXCEPT ![host[c]] = {}]
  /\ UNCHANGED <<serverVars, clock, certs, observed, connVars, shakeVars, todo, requestVars>>

\* No key or no signature: the error is everybody's who waits, and nothing is cached.
GenerateFails(c) ==
  /\ pc[c] = "generating"
  /\ pc' = [d \in Conns |-> IF d \in flight[host[c]] THEN "closed" ELSE pc[d]]
  /\ flight' = [flight EXCEPT ![host[c]] = {}]
  /\ UNCHANGED <<serverVars, clock, certs, observed, connVars, shakeVars, todo, requestVars>>

-----------------------------------------------------------------------------
(* A request the proxy can read.                                            *)

NoHost == "no host"

\* The URL goproxy has built: a client that sends an absolute URI inside its
\* tunnel gets "scheme://<connect host><that URI>", whose authority then ends
\* with the client's scheme and whose path begins with the client's host.
RequestForms == {"relative", "absolute", "hostless"}
RawUrl(form, connected, wanted) ==
  [authority |-> connected,
   embedded  |-> form # "relative",
   inPath    |-> IF form = "absolute" THEN wanted ELSE NoHost]

\* normalizeRequestURL: back to the client's URI, with the host in front of it
\* when it names none.
NormalizeRequestURL(url) ==
  IF url.embedded /\ url.inPath # NoHost THEN url.inPath ELSE url.authority

\* The request handler up to the loop: a new context and a new goproxy ctx.
Receive(c, h) ==
  /\ left[c] > 0 /\ left' = [left EXCEPT ![c] = @ - 1]
  /\ target' = [target EXCEPT ![c] = h]
  /\ verdicts' = [verdicts EXCEPT ![c] = Unasked]
  /\ modifier' = [modifier EXCEPT ![c] = FALSE]
  /\ broken' = [broken EXCEPT ![c] = FALSE]
  /\ reply' = [reply EXCEPT ![c] = "none"]
  /\ \/ /\ judged' = [judged EXCEPT ![c] = TRUE]
        /\ todo' = [todo EXCEPT ![c] = Interested(h)]
        /\ pc' = [pc EXCEPT ![c] = "asking"]
     \/ /\ judged' = [judged EXCEPT ![c] = FALSE]   \* newRequestContext fails
        /\ pc' = [pc EXCEPT ![c] = "forwarded"]
        /\ UNCHANGED todo
  /\ UNCHANGED <<serverVars, clock, certVars, observed, host, shakeVars, opening>>

RequestInTunnel(c) ==
  /\ pc[c] = "open" /\ mode[c] = "mitm"
  /\ \E form \in RequestForms, wanted \in Hosts :
       Receive(c, NormalizeRequestURL(RawUrl(form, host[c], wanted)))
  /\ UNCHANGED mode

PlainRequest(c, h) ==
  /\ server = "listening" /\ pc[c] = "idle"
  /\ mode' = [mode EXCEPT ![c] = "plain"]
  /\ Receive(c, h)

\* Fault: the loop ends with the first interceptor that allows the request.
AskUntilAllowed(c, i) ==
  /\ pc[c] = "asking" /\ i \in todo[c]
  /\ \E a \in Answers[i] \ {"block"} :
       /\ verdicts' = [verdicts EXCEPT ![c][i] = a]
       /\ modifier' = [modifier EXCEPT ![c] = @ \/ a = "modifyResponse"]
       /\ todo' = [todo EXCEPT ![c] = IF a = "allow" THEN {} ELSE @ \ {i}]
  /\ Observe(i, target[c])
  /\ UNCHANGED <<serverVars, clock, certVars, pc, connVars, shakeVars, judged, target, broken,
                 reply>>

\* One turn of the loop: an error and nil are passed over.
Ask(c, i) ==
  /\ pc[c] = "asking" /\ i \in todo[c]
  /\ \E a \in Answers[i] \ {"block"} :
       /\ verdicts' = [verdicts EXCEPT ![c][i] = a]
       /\ modifier' = [modifier EXCEPT ![c] = @ \/ a = "modifyResponse"]
  /\ todo' = [todo EXCEPT ![c] = @ \ {i}]
  /\ Observe(i, target[c])
  /\ UNCHANGED <<serverVars, clock, certVars, pc, connVars, shakeVars, judged, target, broken, reply>>

\* ActionBlock returns at once, and the connection is closed after the answer.
Block(c, i) ==
  /\ i \in todo[c] /\ "block" \in Answers[i]
  /\ Goto(c, "asking", "closed")
  /\ verdicts' = [verdicts EXCEPT ![c][i] = "block"]
  /\ reply' = [reply EXCEPT ![c] = "refused"]
  /\ todo' = [todo EXCEPT ![c] = {}]
  /\ UNCHANGED <<serverVars, clock, certVars, observed, connVars, shakeVars, judged, target,
                 modifier, broken>>

Forward(c) ==
  /\ todo[c] = {}
  /\ Goto(c, "asking", "forwarded")
  /\ UNCHANGED <<serverVars, clock, certVars, observed, connVars, shakeVars, todo, requestVars>>

\* No answer within the transport's limits: the response handler gets nil.
UpstreamFails(c) ==
  /\ Goto(c, "forwarded", "closed")
  /\ reply' = [reply EXCEPT ![c] = "lost"]
  /\ UNCHANGED <<serverVars, clock, certVars, observed, connVars, shakeVars, todo, judged, target,
                 verdicts, modifier, broken>>

AfterReply(c) == IF mode[c] = "mitm" /\ left[c] > 0 THEN "open" ELSE "closed"

\* Without a modifier, or without a second context to use it in.
RespondOriginal(c) ==
  /\ Goto(c, "forwarded", AfterReply(c))
  /\ \/ ~modifier[c] /\ UNCHANGED judged
     \/ modifier[c] /\ judged' = [judged EXCEPT ![c] = FALSE]
  /\ reply' = [reply EXCEPT ![c] = "original"]
  /\ UNCHANGED <<serverVars, clock, certVars, observed, connVars, shakeVars, todo, target, verdicts,
                 modifier, broken>>

\* The headers have come, and io.ReadAll waits for the end of the body, for which the
\* transport has no limit.
ReadBody(c) ==
  /\ modifier[c]
  /\ Goto(c, "forwarded", "reading")
  /\ UNCHANGED <<serverVars, clock, certVars, observed, connVars, shakeVars, todo, requestVars>>

\* The body has been read, is modified and sent; 503 if it could not be read; sent as it
\* was read if the modifier fails.
RespondModified(c) ==
  /\ Goto(c, "reading", AfterReply(c))
  /\ \E result \in {"modified", "unavailable", "original"} :
       /\ reply' = [reply EXCEPT ![c] = result]
       /\ broken' = [broken EXCEPT ![c] = result = "original"]
  /\ UNCHANGED <<serverVars, clock, certVars, observed, connVars, shakeVars, todo, judged, target,
                 verdicts, modifier>>

-----------------------------------------------------------------------------
\* What the client or the registry has to do, with no limit on when.
Peer(c) == Established(c) \/ HandshakeFails(c) \/ RespondModified(c)

Handle(c) ==
  \/ \E i \in Interceptors : Decide(c, i) \/ Ask(c, i) \/ Block(c, i)
  \/ Tunnel(c) \/ Mitm(c)
  \/ CachedCert(c) \/ CacheMiss(c) \/ JoinFlight(c) \/ RecheckHit(c) \/ RecheckMiss(c)
  \/ GenerateHostCert(c) \/ GenerateFails(c)
  \/ Forward(c) \/ UpstreamFails(c) \/ RespondOriginal(c) \/ ReadBody(c)

Client(c) ==
  \/ \E h \in Hosts : Connect(c, h) \/ ConnectUnparsed(c, h) \/ PlainRequest(c, h)
  \/ RequestInTunnel(c)

Next ==
  \/ SetupCA \/ NewCertificateManagerWithCA \/ NewProxyServer \/ Start \/ Stop \/ Tick
  \/ \E c \in Conns : Client(c) \/ Handle(c) \/ Peer(c)

Spec == Init /\ [][Next]_vars

\* Handlers run as long as they can, the interceptors return (ProxyGuard's
\* EverybodyIsAnswered), and the transport has limits for connecting to the upstream and
\* for the headers of its response.  Nothing is assumed of Client or Peer.
FairSpec == Spec /\ \A c \in Conns : WF_vars(Handle(c))

-----------------------------------------------------------------------------
(* Properties.                                                              *)

\* What a client gets of an upstream's answer was put to every interceptor that
\* wants the host contacted, whichever order the map gave and whatever the
\* requests before it on the connection got: none refused it, and a modifier one
\* of them left was applied, unless the modifier itself failed.  A refusal is
\* always some interceptor's.  proxy.go, registerHandlers.
BodiesAreFiltered ==
  \A c \in Conns :
    /\ reply[c] \in {"original", "modified"} /\ judged[c] =>
         /\ \A i \in Interceptors : verdicts[c][i] # "unasked" <=> target[c] \in Intercepts[i]
         /\ \A i \in Interceptors : verdicts[c][i] # "block"
         /\ reply[c] = "original" =>
              broken[c] \/ \A i \in Interceptors : verdicts[c][i] # "modifyResponse"
         /\ reply[c] = "modified" => \E i \in Interceptors : verdicts[c][i] = "modifyResponse"
    /\ reply[c] = "refused" => \E i \in Interceptors : verdicts[c][i] = "block"

\* A connection is opened exactly when an interceptor wants its host opened, and
\* an opaque one to a host no registry knows has been reported to the audit log
\* before the first byte passes.  proxy.go, configureMITM.
TunnelsAreRight ==
  \A c \in Conns : judged[c] =>
    /\ mode[c] = "tunnel" =>
         /\ \A i \in Interceptors : host[c] \notin Decrypts[i]
         /\ Unknown(host[c]) => host[c] \in observed
    /\ mode[c] = "mitm" => \E i \in Interceptors : host[c] \in Decrypts[i]

\* Traffic an interceptor asked for is read and filtered, and no other is.
TrafficIsFiltered == BodiesAreFiltered /\ TunnelsAreRight

\* A client is shown a certificate that is valid for as long as the handshake
\* may take, also when it waited for another's or took it from the cache, and a host's
\* certificate is made by one connection at a time.
\* generator.go, GenerateCertForHost.
CertificatesAreFresh ==
  [][ /\ \A c \in Conns : pc[c] = "tls" /\ pc'[c] = "open" => cert[c] >= clock
      /\ \A c, d \in Conns : pc'[c] = "generating" /\ pc'[d] = "generating"
                             /\ host'[c] = host'[d] => c = d ]_vars

\* Every handler whose own client does not stall for ever in the handshake, and whose
\* own registry does not in a body that is to be modified (neither has a time limit),
\* comes to an end, whatever other connections stall in: the connection is open for the
\* next request or closed, and nobody waits for a certificate whose maker has gone.
\* generator.go, GenerateCertForHost, proxy.go, registerHandlers.
HandlersEnd ==
  \A c \in Conns :
    []<>(pc[c] \notin {"tls", "reading"}) => (pc[c] \in Working ~> pc[c] \in {"open", "closed"})

=============================================================================
