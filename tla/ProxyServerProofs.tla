--------------------------- MODULE ProxyServerProofs ---------------------------
(***************************************************************************)
(* The proxy server, for any interceptors, hosts, connections and bounds:   *)
(* traffic is filtered, tunnels are right, and certificates are fresh.       *)
(***************************************************************************)
EXTENDS ProxyServer, TLAPS

-----------------------------------------------------------------------------
(* The inductive invariants                                                 *)

\* While the CONNECT is decided: who has been visited has had his say.
DecidingHolds(c) == pc[c] = "deciding" =>
  /\ mode[c] = "none" /\ judged[c]
  /\ todo[c] \subseteq Interested(host[c])
  /\ opening[c] => \E i \in Interceptors : host[c] \in Decrypts[i]
  /\ \A i \in Interested(host[c]) \ todo[c] : host[c] \in Decrypts[i] => opening[c]
  /\ AuditLogger \notin todo[c] /\ Unknown(host[c]) => host[c] \in observed

\* The mode of a connection goes with where it is.
ModeHolds(c) ==
  /\ pc[c] = "idle" =>
       mode[c] = "none" /\ ~judged[c] /\ ~opening[c] /\ verdicts[c] = Unasked
  /\ pc[c] \in Handshaking => mode[c] = "mitm"
  /\ mode[c] = "tunnel" => pc[c] = "open"
  /\ judged[c] /\ mode[c] = "tunnel" =>
       /\ \A i \in Interceptors : host[c] \notin Decrypts[i]
       /\ Unknown(host[c]) => host[c] \in observed
  /\ mode[c] = "mitm" => \E i \in Interceptors : host[c] \in Decrypts[i]

\* Everybody who has been asked of the request, and nobody else, has a verdict, none
\* refuses it, and the modifier is there that one of them has left.
AskedHolds(c) ==
  /\ todo[c] \subseteq Interested(target[c])
  /\ \A i \in Interceptors :
       /\ verdicts[c][i] # "unasked" <=> i \in Interested(target[c]) \ todo[c]
       /\ verdicts[c][i] # "block"
  /\ modifier[c] <=> \E i \in Interceptors : verdicts[c][i] = "modifyResponse"

\* The request that a connection has at hand.
RequestHolds(c) ==
  /\ reply[c] # "none" => pc[c] \in {"open", "closed"}
  /\ pc[c] = "asking" => judged[c] /\ AskedHolds(c)
  /\ pc[c] \in {"forwarded", "reading"} =>
       IF judged[c] THEN todo[c] = {} /\ AskedHolds(c) ELSE ~modifier[c]
  /\ pc[c] = "reading" => modifier[c]

AnswerHolds(c) ==
  /\ reply[c] \in {"original", "modified"} /\ judged[c] =>
       /\ \A i \in Interceptors : verdicts[c][i] # "unasked" <=> target[c] \in Intercepts[i]
       /\ \A i \in Interceptors : verdicts[c][i] # "block"
       /\ reply[c] = "original" =>
            broken[c] \/ \A i \in Interceptors : verdicts[c][i] # "modifyResponse"
       /\ reply[c] = "modified" => \E i \in Interceptors : verdicts[c][i] = "modifyResponse"
  /\ reply[c] = "refused" => \E i \in Interceptors : verdicts[c][i] = "block"

ConnHolds(c) == DecidingHolds(c) /\ ModeHolds(c) /\ RequestHolds(c) /\ AnswerHolds(c)

Waiting == {"waiting", "leading", "generating"}
Making  == {"leading", "generating"}

\* A flight is those who wait for its certificate, and one of them makes it.
FlightHolds ==
  /\ \A h \in Hosts : \A c \in flight[h] : pc[c] \in Waiting /\ host[c] = h
  /\ \A c \in Conns : pc[c] \in Waiting => c \in flight[host[c]]
  /\ \A c, d \in Conns : pc[c] \in Making /\ pc[d] \in Making /\ host[c] = host[d] => c = d

\* A handshake sees one tick of the clock at most, and its certificate outlives it.
ShakeHolds ==
  \A c \in Conns :
    /\ pc[c] \in Handshaking => since[c] <= clock /\ clock <= since[c] + 1
    /\ pc[c] = "tls" => cert[c] >= since[c] + 1

ServerInv == TypeOK /\ (\A c \in Conns : ConnHolds(c)) /\ FlightHolds /\ ShakeHolds

-----------------------------------------------------------------------------
(* Types                                                                    *)

ConnTypes ==
  /\ pc \in [Conns -> Working \cup {"idle", "open", "closed"}]
  /\ mode \in [Conns -> {"none", "tunnel", "mitm", "plain"}]
  /\ host \in [Conns -> Hosts]
  /\ todo \in [Conns -> SUBSET Interceptors]
  /\ opening \in [Conns -> BOOLEAN]
  /\ left \in [Conns -> Nat]
  /\ observed \subseteq Hosts

RequestTypes ==
  /\ target \in [Conns -> Hosts]
  /\ judged \in [Conns -> BOOLEAN]
  /\ verdicts \in [Conns -> [Interceptors -> AnswerKinds \cup {"unasked"}]]
  /\ modifier \in [Conns -> BOOLEAN] /\ broken \in [Conns -> BOOLEAN]
  /\ reply \in [Conns -> Replies]

CertTypes ==
  /\ server \in {"new", "certified", "managed", "built", "listening", "stopped", "failed"}
  /\ ca \in {"none", "own", "merged"}
  /\ clock \in 0..Horizon
  /\ certs \in [Hosts -> Nat] /\ cert \in [Conns -> Nat] /\ since \in [Conns -> Nat]
  /\ flight \in [Hosts -> SUBSET Conns]

LEMMA TypesOfAll == TypeOK <=> ConnTypes /\ RequestTypes /\ CertTypes
BY DEF TypeOK, ConnTypes, RequestTypes, CertTypes

LEMMA InterestedAre == \A h : Interested(h) \subseteq Interceptors
BY DEF Interested

LEMMA TargetIsHost ==
  ASSUME NEW f \in RequestForms, NEW h \in Hosts, NEW w \in Hosts
  PROVE  NormalizeRequestURL(RawUrl(f, h, w)) \in Hosts
BY DEF NormalizeRequestURL, RawUrl

LEMMA ObserveTypes ==
  ASSUME observed \subseteq Hosts, NEW i, NEW h \in Hosts, Observe(i, h)
  PROVE  observed' \subseteq Hosts /\ observed \subseteq observed'
BY DEF Observe

\* The steps of a handshake touch nothing of the request.
Handshake(c) ==
  CachedCert(c) \/ CacheMiss(c) \/ JoinFlight(c) \/ RecheckHit(c) \/ RecheckMiss(c)
  \/ GenerateHostCert(c) \/ GenerateFails(c) \/ Established(c) \/ HandshakeFails(c)

Serverly == SetupCA \/ NewCertificateManagerWithCA \/ NewProxyServer \/ Start \/ Stop \/ Tick

LEMMA HandshakeKeeps ==
  ASSUME NEW c \in Conns, Handshake(c)
  PROVE  UNCHANGED <<server, ca, clock, observed, mode, host, opening, left, todo, judged, target,
                   verdicts, modifier, broken, reply>>
BY DEF Handshake, CachedCert, CacheMiss, JoinFlight, RecheckHit, RecheckMiss, GenerateHostCert,
       GenerateFails, Established, HandshakeFails, serverVars, connVars, requestVars

LEMMA HandshakeMoves ==
  ASSUME ConnTypes, CertTypes, FlightHolds, NEW c \in Conns, Handshake(c)
  PROVE  \A d \in Conns :
           \/ pc'[d] = pc[d]
           \/ pc[d] \in Handshaking /\ pc'[d] \in Handshaking \cup {"open", "closed"}
<1> USE DEF ConnTypes, Handshaking
<1>1. CASE CachedCert(c)
  BY <1>1 DEF CachedCert, GiveCert
<1>2. CASE CacheMiss(c)
  BY <1>2 DEF CacheMiss, Goto
<1>3. CASE JoinFlight(c)
  BY <1>3 DEF JoinFlight, Goto
<1>4. CASE RecheckHit(c)
  BY <1>4 DEF RecheckHit, GiveCert, FlightHolds, Waiting, CertTypes
<1>5. CASE RecheckMiss(c)
  BY <1>5 DEF RecheckMiss, Goto
<1>6. CASE GenerateHostCert(c)
  BY <1>6 DEF GenerateHostCert, GiveCert, FlightHolds, Waiting, CertTypes
<1>7. CASE GenerateFails(c)
  BY <1>7 DEF GenerateFails, FlightHolds, Waiting, CertTypes
<1>8. CASE Established(c) \/ HandshakeFails(c)
  BY <1>8 DEF Established, HandshakeFails, Goto
<1> QED
  BY <1>1, <1>2, <1>3, <1>4, <1>5, <1>6, <1>7, <1>8 DEF Handshake

LEMMA ServerlyFrame ==
  ASSUME Serverly
  PROVE  UNCHANGED <<certVars, observed, pc, connVars, shakeVars, todo, requestVars>>
BY DEF Serverly, SetupCA, NewCertificateManagerWithCA, NewProxyServer, Start, Stop, Tick

LEMMA InitTypes == Init => TypeOK
<1> SUFFICES ASSUME Init PROVE TypeOK
  OBVIOUS
<1>1. (CHOOSE h \in Hosts : TRUE) \in Hosts
  BY ServerAssumption
<1> QED
  BY <1>1, ServerAssumption DEF Init, TypeOK, Unasked, Replies

LEMMA ServerlyTypes ==
  ASSUME TypeOK, Serverly
  PROVE  TypeOK'
<1> USE ServerAssumption DEF TypeOK, serverVars, certVars, connVars, shakeVars, requestVars
<1>1. CASE SetupCA
  BY <1>1 DEF SetupCA, GenerateCAWithSystemCA
<1>2. CASE NewCertificateManagerWithCA
  BY <1>2 DEF NewCertificateManagerWithCA
<1>3. CASE NewProxyServer
  BY <1>3 DEF NewProxyServer
<1>4. CASE Start
  BY <1>4 DEF Start
<1>5. CASE Stop
  BY <1>5 DEF Stop
<1>6. CASE Tick
  BY <1>6 DEF Tick
<1> QED
  BY <1>1, <1>2, <1>3, <1>4, <1>5, <1>6 DEF Serverly

LEMMA HandshakeTypes ==
  ASSUME TypeOK, NEW c \in Conns, Handshake(c)
  PROVE  TypeOK'
<1>1. RequestTypes'
  BY HandshakeKeeps, TypesOfAll DEF RequestTypes
<1>2. CertTypes' /\ pc' \in [Conns -> Working \cup {"idle", "open", "closed"}]
  <2> USE ServerAssumption DEF TypeOK, CertTypes, certVars, shakeVars, serverVars, Working, Handshaking
  <2>1. CASE CachedCert(c)
    BY <2>1 DEF CachedCert, GiveCert
  <2>2. CASE CacheMiss(c)
    BY <2>2 DEF CacheMiss, Goto
  <2>3. CASE JoinFlight(c)
    BY <2>3 DEF JoinFlight, Goto
  <2>4. CASE RecheckHit(c)
    BY <2>4 DEF RecheckHit, GiveCert
  <2>5. CASE RecheckMiss(c)
    BY <2>5 DEF RecheckMiss, Goto
  <2>6. CASE GenerateHostCert(c)
    BY <2>6 DEF GenerateHostCert, GiveCert
  <2>7. CASE GenerateFails(c)
    BY <2>7 DEF GenerateFails
  <2>8. CASE Established(c)
    BY <2>8 DEF Established, Goto
  <2>9. CASE HandshakeFails(c)
    BY <2>9 DEF HandshakeFails, Goto
  <2> QED
    BY <2>1, <2>2, <2>3, <2>4, <2>5, <2>6, <2>7, <2>8, <2>9 DEF Handshake
<1>3. ConnTypes'
  BY <1>2, HandshakeKeeps, TypesOfAll DEF ConnTypes
<1> QED
  BY <1>1, <1>2, <1>3 DEF TypeOK, ConnTypes, RequestTypes, CertTypes

\* Everything else a connection may do leaves the certificates alone, but for the hour
\* at which a handshake begins.
Asking(c) ==
  \/ \E i \in Interceptors : Decide(c, i) \/ Ask(c, i) \/ Block(c, i)
  \/ Tunnel(c) \/ Mitm(c) \/ Forward(c) \/ UpstreamFails(c) \/ RespondOriginal(c)
  \/ ReadBody(c) \/ RespondModified(c)

LEMMA ReceiveTypes ==
  ASSUME ConnTypes, RequestTypes, NEW c \in Conns, NEW h \in Hosts, Receive(c, h)
  PROVE  /\ pc' \in [Conns -> Working \cup {"idle", "open", "closed"}]
         /\ todo' \in [Conns -> SUBSET Interceptors] /\ left' \in [Conns -> Nat]
         /\ RequestTypes'
         /\ UNCHANGED <<serverVars, clock, certVars, observed, host, shakeVars, opening>>
<1>1. UNCHANGED <<serverVars, clock, certVars, observed, host, shakeVars, opening>>
  BY DEF Receive
<1>2. RequestTypes'
  BY DEF Receive, RequestTypes, Unasked, Replies
<1>3. todo' \in [Conns -> SUBSET Interceptors] /\ left' \in [Conns -> Nat]
  BY InterestedAre DEF Receive, ConnTypes
<1>4. pc' \in [Conns -> Working \cup {"idle", "open", "closed"}]
  BY DEF Receive, ConnTypes, Working
<1> QED
  BY <1>1, <1>2, <1>3, <1>4

LEMMA ClientTypes ==
  ASSUME TypeOK, NEW c \in Conns, Client(c)
  PROVE  TypeOK'
<1> USE DEF TypeOK, serverVars, certVars, connVars, shakeVars, requestVars, ConnTypes, RequestTypes, CertTypes
<1>1. ASSUME NEW h \in Hosts, Connect(c, h) PROVE TypeOK'
  BY <1>1, InterestedAre DEF Connect, Goto, Working
<1>2. ASSUME NEW h \in Hosts, ConnectUnparsed(c, h) PROVE TypeOK'
  BY <1>2 DEF ConnectUnparsed, Goto
<1>3. ASSUME NEW h \in Hosts, PlainRequest(c, h) PROVE TypeOK'
  BY <1>3, ReceiveTypes DEF PlainRequest
<1>4. CASE RequestInTunnel(c)
  <2>1. PICK f \in RequestForms, w \in Hosts : Receive(c, NormalizeRequestURL(RawUrl(f, host[c], w)))
    BY <1>4 DEF RequestInTunnel
  <2>2. NormalizeRequestURL(RawUrl(f, host[c], w)) \in Hosts
    BY TargetIsHost
  <2> QED
    BY <1>4, <2>1, <2>2, ReceiveTypes DEF RequestInTunnel
<1> QED
  BY <1>1, <1>2, <1>3, <1>4 DEF Client

LEMMA AskingTypes ==
  ASSUME TypeOK, NEW c \in Conns, Asking(c)
  PROVE  TypeOK'
<1> USE DEF TypeOK, serverVars, certVars, connVars, shakeVars, requestVars
<1>1. ASSUME NEW i \in Interceptors, Decide(c, i) PROVE TypeOK'
  <2>1. observed' \subseteq Hosts
    BY <1>1, ObserveTypes DEF Decide
  <2> QED
    BY <1>1, <2>1 DEF Decide
<1>2. ASSUME NEW i \in Interceptors, Ask(c, i) PROVE TypeOK'
  <2>1. observed' \subseteq Hosts
    BY <1>2, ObserveTypes DEF Ask
  <2>2. verdicts' \in [Conns -> [Interceptors -> AnswerKinds \cup {"unasked"}]]
    BY <1>2, ServerAssumption DEF Ask
  <2> QED
    BY <1>2, <2>1, <2>2 DEF Ask
<1>3. ASSUME NEW i \in Interceptors, Block(c, i) PROVE TypeOK'
  BY <1>3 DEF Block, Goto, Replies, AnswerKinds
<1>4. CASE Tunnel(c)
  BY <1>4 DEF Tunnel, Goto
<1>5. CASE Mitm(c)
  BY <1>5, ServerAssumption DEF Mitm, Goto, Working, Handshaking
<1>6. CASE Forward(c)
  BY <1>6 DEF Forward, Goto, Working
<1>7. CASE UpstreamFails(c)
  BY <1>7 DEF UpstreamFails, Goto, Replies
<1>8. CASE RespondOriginal(c)
  BY <1>8 DEF RespondOriginal, Goto, AfterReply, Replies
<1>9. CASE RespondModified(c)
  BY <1>9 DEF RespondModified, Goto, AfterReply, Replies
<1>10. CASE ReadBody(c)
  BY <1>10 DEF ReadBody, Goto, Working
<1> QED
  BY <1>1, <1>2, <1>3, <1>4, <1>5, <1>6, <1>7, <1>8, <1>9, <1>10 DEF Asking

-----------------------------------------------------------------------------
(* What a connection has at hand                                            *)

\* A step of another connection, or one that only tells the audit logger something.
Same(d) ==
  /\ pc'[d] = pc[d] /\ mode'[d] = mode[d] /\ host'[d] = host[d] /\ opening'[d] = opening[d]
  /\ todo'[d] = todo[d] /\ judged'[d] = judged[d] /\ target'[d] = target[d]
  /\ verdicts'[d] = verdicts[d] /\ modifier'[d] = modifier[d] /\ broken'[d] = broken[d]
  /\ reply'[d] = reply[d]
  /\ observed \subseteq observed'

LEMMA SameHolds ==
  ASSUME NEW d, ConnHolds(d), Same(d)
  PROVE  ConnHolds(d)'
<1> USE DEF Same
<1>1. DecidingHolds(d)'
  BY DEF ConnHolds, DecidingHolds, Interested, Unknown
<1>2. ModeHolds(d)'
  BY DEF ConnHolds, ModeHolds, Unknown
<1>3. RequestHolds(d)'
  BY DEF ConnHolds, RequestHolds, AskedHolds, Interested
<1>4. AnswerHolds(d)'
  BY DEF ConnHolds, AnswerHolds
<1> QED
  BY <1>1, <1>2, <1>3, <1>4 DEF ConnHolds

\* A step that moves a connection only, out of a handshake.
LEMMA MoveHolds ==
  ASSUME NEW d \in Conns, ConnHolds(d), pc[d] \in Handshaking, pc'[d] \in Handshaking \cup {"open", "closed"},
         UNCHANGED <<observed, mode, host, opening, todo, judged, target, verdicts, modifier, broken, reply>>
  PROVE  ConnHolds(d)'
<1>1. mode[d] = "mitm" /\ reply[d] = "none"
  BY DEF ConnHolds, ModeHolds, RequestHolds, Handshaking
<1>2. DecidingHolds(d)'
  BY DEF DecidingHolds, Handshaking
<1>3. ModeHolds(d)'
  BY <1>1 DEF ConnHolds, ModeHolds, Handshaking
<1>4. RequestHolds(d)'
  BY <1>1 DEF RequestHolds, Handshaking
<1>5. AnswerHolds(d)'
  BY <1>1 DEF AnswerHolds
<1> QED
  BY <1>2, <1>3, <1>4, <1>5 DEF ConnHolds

LEMMA HandshakeHolds ==
  ASSUME ServerInv, NEW c \in Conns, Handshake(c), NEW d \in Conns
  PROVE  ConnHolds(d)'
<1>1. ConnHolds(d) /\ ConnTypes /\ CertTypes /\ FlightHolds
  BY TypesOfAll DEF ServerInv
<1>2. CASE pc'[d] = pc[d]
  BY <1>1, <1>2, HandshakeKeeps, SameHolds DEF Same
<1>3. CASE pc'[d] # pc[d]
  BY <1>1, <1>3, HandshakeKeeps, HandshakeMoves, MoveHolds
<1> QED
  BY <1>2, <1>3

LEMMA ConnectHolds ==
  ASSUME ServerInv, NEW c \in Conns, NEW h \in Hosts, Connect(c, h)
  PROVE  \A d \in Conns : ConnHolds(d)'
<1> USE DEF connVars, requestVars
<1>1. ConnHolds(c) /\ ConnTypes /\ RequestTypes
  BY TypesOfAll DEF ServerInv
<1>2. pc[c] = "idle" /\ pc'[c] = "deciding" /\ host'[c] = h /\ todo'[c] = Interested(h) /\ judged'[c]
  BY <1>1 DEF Connect, Goto, ConnTypes, RequestTypes
<1>3. UNCHANGED <<observed, mode, opening, target, verdicts, modifier, broken, reply>>
  BY DEF Connect
<1>4. mode[c] = "none" /\ ~opening[c] /\ reply[c] = "none"
  BY <1>1, <1>2 DEF ConnHolds, ModeHolds, RequestHolds
<1>5. DecidingHolds(c)'
  <2>1. AuditLogger \in Interested(h)
    BY ServerAssumption DEF Interested
  <2> QED
    BY <1>2, <1>3, <1>4, <2>1 DEF DecidingHolds, Interested
<1>6. ModeHolds(c)' /\ RequestHolds(c)' /\ AnswerHolds(c)'
  BY <1>2, <1>3, <1>4 DEF ModeHolds, RequestHolds, AnswerHolds, Handshaking
<1>7. ASSUME NEW d \in Conns, d # c PROVE ConnHolds(d)'
  BY <1>1, <1>3, <1>7, SameHolds DEF ServerInv, Same, Connect, Goto, ConnTypes, RequestTypes
<1> QED
  BY <1>5, <1>6, <1>7 DEF ConnHolds

LEMMA UnparsedHolds ==
  ASSUME ServerInv, NEW c \in Conns, NEW h \in Hosts, ConnectUnparsed(c, h)
  PROVE  \A d \in Conns : ConnHolds(d)'
<1> USE DEF connVars, requestVars
<1>1. ConnHolds(c) /\ ConnTypes /\ RequestTypes
  BY TypesOfAll DEF ServerInv
<1>2. pc[c] = "idle" /\ pc'[c] = "open" /\ mode'[c] = "tunnel"
  BY <1>1 DEF ConnectUnparsed, Goto, ConnTypes
<1>3. UNCHANGED <<observed, opening, todo, judged, target, verdicts, modifier, broken, reply>>
  BY DEF ConnectUnparsed
<1>4. ~judged[c] /\ reply[c] = "none"
  BY <1>1, <1>2 DEF ConnHolds, ModeHolds, RequestHolds
<1>5. DecidingHolds(c)' /\ ModeHolds(c)' /\ RequestHolds(c)' /\ AnswerHolds(c)'
  BY <1>2, <1>3, <1>4 DEF DecidingHolds, ModeHolds, RequestHolds, AnswerHolds, Handshaking
<1>6. ASSUME NEW d \in Conns, d # c PROVE ConnHolds(d)'
  BY <1>1, <1>3, <1>6, SameHolds DEF ServerInv, Same, ConnectUnparsed, Goto, ConnTypes
<1> QED
  BY <1>5, <1>6 DEF ConnHolds

\* A request on an open connection, or the only one of a plain connection.
LEMMA ReceiveHolds ==
  ASSUME ServerInv, NEW c \in Conns, NEW h \in Hosts, Receive(c, h),
         (mode'[c] = "mitm" /\ mode[c] = "mitm") \/ mode'[c] = "plain",
         \A d \in Conns \ {c} : mode'[d] = mode[d]
  PROVE  \A d \in Conns : ConnHolds(d)'
<1>1. ConnHolds(c) /\ ConnTypes /\ RequestTypes
  BY TypesOfAll DEF ServerInv
<1>2. UNCHANGED <<observed, host, opening>>
  BY DEF Receive
<1>3. /\ target'[c] = h /\ verdicts'[c] = Unasked /\ ~modifier'[c] /\ ~broken'[c] /\ reply'[c] = "none"
      /\ \/ judged'[c] /\ todo'[c] = Interested(h) /\ pc'[c] = "asking"
         \/ ~judged'[c] /\ pc'[c] = "forwarded"
  BY <1>1 DEF Receive, ConnTypes, RequestTypes
<1>4. ModeHolds(c)'
  BY <1>1, <1>2, <1>3 DEF ConnHolds, ModeHolds, Handshaking
<1>5. RequestHolds(c)'
  BY <1>3, InterestedAre DEF RequestHolds, AskedHolds, Unasked
<1>6. DecidingHolds(c)' /\ AnswerHolds(c)'
  BY <1>3 DEF DecidingHolds, AnswerHolds
<1>7. ASSUME NEW d \in Conns, d # c PROVE ConnHolds(d)'
  <2>1. Same(d)
    BY <1>1, <1>2, <1>7 DEF Same, Receive, ConnTypes, RequestTypes
  <2> QED
    BY <2>1, SameHolds DEF ServerInv
<1> QED
  BY <1>4, <1>5, <1>6, <1>7 DEF ConnHolds

LEMMA ClientHolds ==
  ASSUME ServerInv, NEW c \in Conns, Client(c)
  PROVE  \A d \in Conns : ConnHolds(d)'
<1>1. ConnTypes
  BY TypesOfAll DEF ServerInv
<1>2. ASSUME NEW h \in Hosts, PlainRequest(c, h) PROVE \A d \in Conns : ConnHolds(d)'
  BY <1>1, <1>2, ReceiveHolds DEF PlainRequest, ConnTypes
<1>3. CASE RequestInTunnel(c)
  <2>1. PICK f \in RequestForms, w \in Hosts : Receive(c, NormalizeRequestURL(RawUrl(f, host[c], w)))
    BY <1>3 DEF RequestInTunnel
  <2>2. NormalizeRequestURL(RawUrl(f, host[c], w)) \in Hosts
    BY <1>1, TargetIsHost DEF ConnTypes
  <2>3. mode[c] = "mitm" /\ mode' = mode
    BY <1>3 DEF RequestInTunnel
  <2> QED
    BY <2>1, <2>2, <2>3, ReceiveHolds
<1> QED
  BY <1>2, <1>3, ConnectHolds, UnparsedHolds DEF Client

LEMMA DecideHolds ==
  ASSUME ServerInv, NEW c \in Conns, NEW i \in Interceptors, Decide(c, i)
  PROVE  \A d \in Conns : ConnHolds(d)'
<1> USE DEF connVars, requestVars
<1>1. ConnHolds(c) /\ ConnTypes /\ RequestTypes
  BY TypesOfAll DEF ServerInv
<1>2. /\ pc[c] = "deciding" /\ i \in todo[c] /\ todo'[c] = todo[c] \ {i}
      /\ opening'[c] = (opening[c] \/ host[c] \in Decrypts[i])
      /\ UNCHANGED <<pc, mode, host, judged, target, verdicts, modifier, broken, reply>>
  BY <1>1 DEF Decide, ConnTypes
<1>3. observed \subseteq observed' /\ (i = AuditLogger /\ Unknown(host[c]) => host[c] \in observed')
  BY ServerAssumption DEF Decide, Observe
<1>4. DecidingHolds(c) /\ ModeHolds(c) /\ reply[c] = "none"
  BY <1>1, <1>2 DEF ConnHolds, RequestHolds
<1>5. DecidingHolds(c)'
  <2>1. UNCHANGED <<mode[c], judged[c], host[c]>> /\ pc[c] = "deciding"
    BY <1>2
  <2>2. opening'[c] => \E j \in Interceptors : host[c] \in Decrypts[j]
    BY <1>2, <1>4 DEF DecidingHolds
  <2>3. \A j \in Interested(host[c]) \ todo'[c] : host[c] \in Decrypts[j] => opening'[c]
    BY <1>2, <1>4 DEF DecidingHolds
  <2>4. AuditLogger \notin todo'[c] /\ Unknown(host[c]) => host[c] \in observed'
    BY <1>2, <1>3, <1>4 DEF DecidingHolds
  <2>5. todo'[c] \subseteq Interested(host[c]) /\ mode[c] = "none" /\ judged[c]
    BY <1>2, <1>4 DEF DecidingHolds
  <2> QED
    BY <2>1, <2>2, <2>3, <2>4, <2>5 DEF DecidingHolds, Interested, Unknown
<1>6. ModeHolds(c)' /\ RequestHolds(c)' /\ AnswerHolds(c)'
  BY <1>2, <1>4 DEF DecidingHolds, ModeHolds, RequestHolds, AnswerHolds, Handshaking
<1>7. ASSUME NEW d \in Conns, d # c PROVE ConnHolds(d)'
  <2>1. Same(d)
    BY <1>1, <1>2, <1>3, <1>7 DEF Same, Decide, ConnTypes
  <2> QED
    BY <2>1, SameHolds DEF ServerInv
<1> QED
  BY <1>5, <1>6, <1>7 DEF ConnHolds

LEMMA TunnelHolds ==
  ASSUME ServerInv, NEW c \in Conns, Tunnel(c)
  PROVE  \A d \in Conns : ConnHolds(d)'
<1> USE DEF connVars, requestVars
<1>1. ConnHolds(c) /\ ConnTypes
  BY TypesOfAll DEF ServerInv
<1>2. /\ pc[c] = "deciding" /\ pc'[c] = "open" /\ mode'[c] = "tunnel" /\ todo[c] = {} /\ ~opening[c]
      /\ UNCHANGED <<observed, host, opening, todo, judged, target, verdicts, modifier, broken, reply>>
  BY <1>1 DEF Tunnel, Goto, ConnTypes
<1>3. reply[c] = "none"
  BY <1>1, <1>2 DEF ConnHolds, RequestHolds
<1>4. ModeHolds(c)'
  <2>1. \A i \in Interceptors : host[c] \notin Decrypts[i]
    BY <1>1, <1>2, ServerAssumption DEF ConnHolds, DecidingHolds, Interested
  <2>2. Unknown(host[c]) => host[c] \in observed
    BY <1>1, <1>2 DEF ConnHolds, DecidingHolds
  <2> QED
    BY <1>2, <2>1, <2>2 DEF ModeHolds, Unknown, Handshaking
<1>5. DecidingHolds(c)' /\ RequestHolds(c)' /\ AnswerHolds(c)'
  BY <1>2, <1>3 DEF DecidingHolds, RequestHolds, AnswerHolds
<1>6. ASSUME NEW d \in Conns, d # c PROVE ConnHolds(d)'
  <2>1. Same(d)
    BY <1>1, <1>2, <1>6 DEF Same, Tunnel, Goto, ConnTypes
  <2> QED
    BY <2>1, SameHolds DEF ServerInv
<1> QED
  BY <1>4, <1>5, <1>6 DEF ConnHolds

LEMMA MitmHolds ==
  ASSUME ServerInv, NEW c \in Conns, Mitm(c)
  PROVE  \A d \in Conns : ConnHolds(d)'
<1> USE DEF connVars, requestVars
<1>1. ConnHolds(c) /\ ConnTypes
  BY TypesOfAll DEF ServerInv
<1>2. /\ pc[c] = "deciding" /\ pc'[c] = "lookup" /\ mode'[c] = "mitm" /\ opening[c]
      /\ UNCHANGED <<observed, host, opening, todo, judged, target, verdicts, modifier, broken, reply>>
  BY <1>1 DEF Mitm, Goto, ConnTypes
<1>3. reply[c] = "none" /\ \E i \in Interceptors : host[c] \in Decrypts[i]
  BY <1>1, <1>2 DEF ConnHolds, RequestHolds, DecidingHolds
<1>4. DecidingHolds(c)' /\ ModeHolds(c)' /\ RequestHolds(c)' /\ AnswerHolds(c)'
  BY <1>2, <1>3 DEF DecidingHolds, ModeHolds, RequestHolds, AnswerHolds, Handshaking
<1>5. ASSUME NEW d \in Conns, d # c PROVE ConnHolds(d)'
  <2>1. Same(d)
    BY <1>1, <1>2, <1>5 DEF Same, Mitm, Goto, ConnTypes
  <2> QED
    BY <2>1, SameHolds DEF ServerInv
<1> QED
  BY <1>4, <1>5 DEF ConnHolds

\* A verdict joins the others, and a modifier the one that may be there.
LEMMA AskHolds ==
  ASSUME ServerInv, NEW c \in Conns, NEW i \in Interceptors, Ask(c, i)
  PROVE  \A d \in Conns : ConnHolds(d)'
<1> USE DEF connVars, requestVars
<1>1. ConnHolds(c) /\ ConnTypes /\ RequestTypes
  BY TypesOfAll DEF ServerInv
<1>2. PICK a \in Answers[i] \ {"block"} :
        /\ verdicts' = [verdicts EXCEPT ![c][i] = a]
        /\ modifier' = [modifier EXCEPT ![c] = @ \/ a = "modifyResponse"]
  BY DEF Ask
<1>3. a \in AnswerKinds \ {"block"}
  BY ServerAssumption
<1>4. /\ pc[c] = "asking" /\ i \in todo[c] /\ todo'[c] = todo[c] \ {i}
      /\ UNCHANGED <<pc, mode, host, opening, judged, target, broken, reply>>
  BY <1>1 DEF Ask, ConnTypes
<1>5. observed \subseteq observed'
  BY DEF Ask, Observe
<1>6. AskedHolds(c) /\ judged[c] /\ reply[c] = "none"
  BY <1>1, <1>4 DEF ConnHolds, RequestHolds
<1>7. AskedHolds(c)'
  <2>1. \A j \in Interceptors : verdicts'[c][j] = (IF j = i THEN a ELSE verdicts[c][j])
    BY <1>1, <1>2 DEF RequestTypes
  <2>2. modifier'[c] <=> modifier[c] \/ a = "modifyResponse"
    BY <1>1, <1>2 DEF RequestTypes
  <2>3. verdicts[c][i] = "unasked"
    BY <1>4, <1>6 DEF AskedHolds
  <2>4. modifier'[c] <=> \E j \in Interceptors : verdicts'[c][j] = "modifyResponse"
    BY <1>6, <2>1, <2>2, <2>3 DEF AskedHolds
  <2>5. target'[c] = target[c] /\ i \in Interested(target[c])
    BY <1>4, <1>6 DEF AskedHolds
  <2>6. \A j \in Interceptors :
          /\ verdicts'[c][j] # "unasked" <=> j \in Interested(target[c]) \ todo'[c]
          /\ verdicts'[c][j] # "block"
    BY <1>3, <1>4, <1>6, <2>1, <2>5 DEF AskedHolds, AnswerKinds
  <2> QED
    BY <1>4, <1>6, <2>4, <2>5, <2>6 DEF AskedHolds, Interested
<1>8. DecidingHolds(c)' /\ ModeHolds(c)' /\ RequestHolds(c)' /\ AnswerHolds(c)'
  BY <1>1, <1>4, <1>5, <1>6, <1>7 DEF ConnHolds, DecidingHolds, ModeHolds, RequestHolds, AnswerHolds, Handshaking
<1>9. ASSUME NEW d \in Conns, d # c PROVE ConnHolds(d)'
  <2>1. Same(d)
    BY <1>1, <1>2, <1>4, <1>5, <1>9 DEF Same, Ask, ConnTypes, RequestTypes
  <2> QED
    BY <2>1, SameHolds DEF ServerInv
<1> QED
  BY <1>8, <1>9 DEF ConnHolds

LEMMA BlockHolds ==
  ASSUME ServerInv, NEW c \in Conns, NEW i \in Interceptors, Block(c, i)
  PROVE  \A d \in Conns : ConnHolds(d)'
<1> USE DEF connVars, requestVars
<1>1. ConnHolds(c) /\ ConnTypes /\ RequestTypes
  BY TypesOfAll DEF ServerInv
<1>2. /\ pc[c] = "asking" /\ pc'[c] = "closed" /\ reply'[c] = "refused" /\ verdicts'[c][i] = "block"
      /\ UNCHANGED <<observed, mode, host, opening, judged, target, modifier, broken>>
  BY <1>1 DEF Block, Goto, ConnTypes, RequestTypes
<1>3. DecidingHolds(c)' /\ ModeHolds(c)' /\ RequestHolds(c)' /\ AnswerHolds(c)'
  BY <1>1, <1>2 DEF ConnHolds, DecidingHolds, ModeHolds, RequestHolds, AnswerHolds, Handshaking
<1>4. ASSUME NEW d \in Conns, d # c PROVE ConnHolds(d)'
  <2>1. Same(d)
    BY <1>1, <1>2, <1>4 DEF Same, Block, Goto, ConnTypes, RequestTypes
  <2> QED
    BY <2>1, SameHolds DEF ServerInv
<1> QED
  BY <1>3, <1>4 DEF ConnHolds

LEMMA ForwardHolds ==
  ASSUME ServerInv, NEW c \in Conns, Forward(c)
  PROVE  \A d \in Conns : ConnHolds(d)'
<1> USE DEF connVars, requestVars
<1>1. ConnHolds(c) /\ ConnTypes
  BY TypesOfAll DEF ServerInv
<1>2. /\ pc[c] = "asking" /\ pc'[c] = "forwarded" /\ todo[c] = {}
      /\ UNCHANGED <<observed, mode, host, opening, todo, judged, target, verdicts, modifier, broken, reply>>
  BY <1>1 DEF Forward, Goto, ConnTypes
<1>3. reply[c] = "none" /\ judged[c] /\ AskedHolds(c)
  BY <1>1, <1>2 DEF ConnHolds, RequestHolds
<1>4. AskedHolds(c)'
  BY <1>2, <1>3 DEF AskedHolds, Interested
<1>5. DecidingHolds(c)' /\ ModeHolds(c)' /\ RequestHolds(c)' /\ AnswerHolds(c)'
  BY <1>1, <1>2, <1>3, <1>4 DEF ConnHolds, DecidingHolds, ModeHolds, RequestHolds, AnswerHolds, Handshaking
<1>6. ASSUME NEW d \in Conns, d # c PROVE ConnHolds(d)'
  <2>1. Same(d)
    BY <1>1, <1>2, <1>6 DEF Same, Forward, Goto, ConnTypes
  <2> QED
    BY <2>1, SameHolds DEF ServerInv
<1> QED
  BY <1>5, <1>6 DEF ConnHolds

LEMMA ReadBodyHolds ==
  ASSUME ServerInv, NEW c \in Conns, ReadBody(c)
  PROVE  \A d \in Conns : ConnHolds(d)'
<1> USE DEF connVars, requestVars
<1>1. ConnHolds(c) /\ ConnTypes
  BY TypesOfAll DEF ServerInv
<1>2. /\ pc[c] = "forwarded" /\ pc'[c] = "reading" /\ modifier[c]
      /\ UNCHANGED <<observed, mode, host, opening, todo, judged, target, verdicts, modifier, broken, reply>>
  BY <1>1 DEF ReadBody, Goto, ConnTypes
<1>3. RequestHolds(c)'
  BY <1>1, <1>2 DEF ConnHolds, RequestHolds, AskedHolds, Interested
<1>4. DecidingHolds(c)' /\ ModeHolds(c)' /\ AnswerHolds(c)'
  BY <1>1, <1>2 DEF ConnHolds, DecidingHolds, ModeHolds, AnswerHolds, Handshaking
<1>5. ASSUME NEW d \in Conns, d # c PROVE ConnHolds(d)'
  <2>1. Same(d)
    BY <1>1, <1>2, <1>5 DEF Same, ReadBody, Goto, ConnTypes
  <2> QED
    BY <2>1, SameHolds DEF ServerInv
<1> QED
  BY <1>3, <1>4, <1>5 DEF ConnHolds

LEMMA RespondHolds ==
  ASSUME ServerInv, NEW c \in Conns,
         UpstreamFails(c) \/ RespondOriginal(c) \/ RespondModified(c)
  PROVE  \A d \in Conns : ConnHolds(d)'
<1> USE DEF connVars, requestVars
<1>1. ConnHolds(c) /\ ConnTypes /\ RequestTypes
  BY TypesOfAll DEF ServerInv
<1>2. /\ pc[c] \in {"forwarded", "reading"} /\ pc'[c] \in {"open", "closed"}
      /\ mode[c] # "mitm" => pc'[c] = "closed"
      /\ UNCHANGED <<observed, mode, host, opening, todo, target, verdicts, modifier>>
  BY <1>1 DEF UpstreamFails, RespondOriginal, RespondModified, Goto, AfterReply, ConnTypes
<1>3. \/ reply'[c] \in {"lost", "unavailable"} /\ judged'[c] = judged[c]
      \/ reply'[c] = "original" /\ ~modifier[c] /\ judged'[c] = judged[c]
      \/ reply'[c] = "original" /\ ~judged'[c]
      \/ reply'[c] = "original" /\ broken'[c] /\ modifier[c] /\ judged'[c] = judged[c]
      \/ reply'[c] = "modified" /\ modifier[c] /\ judged'[c] = judged[c]
  BY <1>1 DEF UpstreamFails, RespondOriginal, RespondModified, RequestTypes, Goto, ConnHolds, RequestHolds
<1>4. ModeHolds(c) /\ RequestHolds(c)
  BY <1>1 DEF ConnHolds
<1>5. DecidingHolds(c)' /\ RequestHolds(c)'
  BY <1>2 DEF DecidingHolds, RequestHolds
<1>6. ModeHolds(c)'
  BY <1>2, <1>4 DEF ModeHolds, Handshaking
<1>7. AnswerHolds(c)'
  <2>1. CASE ~judged[c]
    BY <1>2, <1>3, <1>4, <2>1 DEF AnswerHolds, RequestHolds
  <2>2. CASE judged[c]
    <3>1. todo[c] = {} /\ AskedHolds(c)
      BY <1>2, <1>4, <2>2 DEF RequestHolds
    <3>2. \A i \in Interceptors :
            (verdicts[c][i] # "unasked" <=> target[c] \in Intercepts[i]) /\ verdicts[c][i] # "block"
      BY <3>1 DEF AskedHolds, Interested
    <3>3. modifier[c] <=> \E i \in Interceptors : verdicts[c][i] = "modifyResponse"
      BY <3>1 DEF AskedHolds
    <3> QED
      BY <1>2, <1>3, <3>2, <3>3 DEF AnswerHolds
  <2> QED
    BY <2>1, <2>2
<1>8. ASSUME NEW d \in Conns, d # c PROVE ConnHolds(d)'
  <2>1. Same(d)
    BY <1>1, <1>2, <1>8 DEF Same, UpstreamFails, RespondOriginal, RespondModified, Goto, ConnTypes, RequestTypes
  <2> QED
    BY <2>1, SameHolds DEF ServerInv
<1> QED
  BY <1>5, <1>6, <1>7, <1>8 DEF ConnHolds

LEMMA AskingHolds ==
  ASSUME ServerInv, NEW c \in Conns, Asking(c)
  PROVE  \A d \in Conns : ConnHolds(d)'
BY DecideHolds, AskHolds, BlockHolds, TunnelHolds, MitmHolds, ForwardHolds, ReadBodyHolds, RespondHolds
  DEF Asking

-----------------------------------------------------------------------------
(* The certificates                                                         *)

LEMMA MakersWait == Making \subseteq Waiting
BY DEF Making, Waiting

\* A step of a connection that waits for no certificate, before or after it.
LEMMA FlightFrame ==
  ASSUME FlightHolds, flight \in [Hosts -> SUBSET Conns], NEW c \in Conns, flight' = flight,
         pc[c] \notin Waiting, pc'[c] \notin Waiting,
         \A d \in Conns \ {c} : pc'[d] = pc[d] /\ host'[d] = host[d]
  PROVE  FlightHolds'
BY MakersWait DEF FlightHolds

LEMMA ClientFlight ==
  ASSUME ServerInv, NEW c \in Conns, Client(c)
  PROVE  FlightHolds'
<1> USE DEF certVars
<1>1. ConnTypes /\ CertTypes /\ FlightHolds
  BY TypesOfAll DEF ServerInv
<1>2. /\ flight' = flight
      /\ pc[c] \in {"idle", "open"} /\ pc'[c] \in {"deciding", "open", "asking", "forwarded"}
      /\ \A d \in Conns \ {c} : pc'[d] = pc[d] /\ host'[d] = host[d]
  BY <1>1 DEF Client, Connect, ConnectUnparsed, PlainRequest, RequestInTunnel, Receive, Goto, ConnTypes
<1> QED
  BY <1>1, <1>2, FlightFrame DEF CertTypes, Waiting

LEMMA AskingFlight ==
  ASSUME ServerInv, NEW c \in Conns, Asking(c)
  PROVE  FlightHolds'
<1> USE DEF certVars, connVars
<1>1. ConnTypes /\ CertTypes /\ FlightHolds
  BY TypesOfAll DEF ServerInv
<1>2. /\ flight' = flight /\ host' = host
      /\ pc[c] \notin Waiting /\ pc'[c] \notin Waiting
      /\ \A d \in Conns \ {c} : pc'[d] = pc[d]
  BY <1>1 DEF Asking, Decide, Ask, Block, Tunnel, Mitm, Forward, UpstreamFails, RespondOriginal,
       ReadBody, RespondModified, AfterReply, Goto, ConnTypes, Waiting
<1> QED
  BY <1>1, <1>2, FlightFrame DEF CertTypes

LEMMA HandshakeFlight ==
  ASSUME ServerInv, NEW c \in Conns, Handshake(c)
  PROVE  FlightHolds'
<1>1. ConnTypes /\ CertTypes /\ FlightHolds /\ host' = host /\ host[c] \in Hosts
  BY TypesOfAll, HandshakeKeeps DEF ServerInv, ConnTypes
<1> USE <1>1, MakersWait DEF ConnTypes, CertTypes, certVars
<1>2. CASE CachedCert(c) \/ CacheMiss(c) \/ Established(c) \/ HandshakeFails(c)
  <2>1. /\ flight' = flight /\ pc[c] \notin Waiting /\ pc'[c] \notin Waiting
        /\ \A d \in Conns \ {c} : pc'[d] = pc[d]
    BY <1>2 DEF CachedCert, CacheMiss, Established, HandshakeFails, GiveCert, Goto, Waiting
  <2> QED
    BY <2>1, FlightFrame
<1>3. CASE JoinFlight(c)
  <2>1. /\ flight' = [flight EXCEPT ![host[c]] = @ \cup {c}] /\ pc[c] = "missed"
        /\ pc' = [pc EXCEPT ![c] = IF flight[host[c]] = {} THEN "leading" ELSE "waiting"]
    BY <1>3 DEF JoinFlight, Goto
  <2>2. c \notin UNION {flight[h] : h \in Hosts}
    BY <2>1 DEF FlightHolds, Waiting
  <2>3. /\ \A h \in Hosts : \A d \in flight'[h] : pc'[d] \in Waiting /\ host'[d] = h
        /\ \A d \in Conns : pc'[d] \in Waiting => d \in flight'[host'[d]]
    BY <2>1, <2>2 DEF FlightHolds, Waiting
  <2>4. \A d \in Conns : pc'[d] \in Making =>
          \/ d # c /\ pc[d] \in Making
          \/ d = c /\ flight[host[c]] = {}
    BY <2>1 DEF Making
  <2>5. \A d \in Conns : pc[d] \in Making => flight[host[d]] # {}
    BY DEF FlightHolds
  <2> QED
    BY <2>3, <2>4, <2>5 DEF FlightHolds
<1>4. CASE RecheckMiss(c)
  <2>1. flight' = flight /\ pc[c] = "leading" /\ pc' = [pc EXCEPT ![c] = "generating"]
    BY <1>4 DEF RecheckMiss, Goto
  <2>2. \A d \in Conns : (pc'[d] \in Making <=> pc[d] \in Making) /\ (pc'[d] \in Waiting <=> pc[d] \in Waiting)
    BY <2>1 DEF Making, Waiting
  <2> QED
    BY <2>1, <2>2 DEF FlightHolds
<1>5. CASE RecheckHit(c) \/ GenerateHostCert(c) \/ GenerateFails(c)
  <2>1. /\ flight' = [flight EXCEPT ![host[c]] = {}]
        /\ \A d \in Conns : IF d \in flight[host[c]] THEN pc'[d] \notin Waiting ELSE pc'[d] = pc[d]
    BY <1>5 DEF RecheckHit, GenerateHostCert, GenerateFails, GiveCert, Waiting
  <2> QED
    BY <2>1 DEF FlightHolds
<1> QED
  BY <1>2, <1>3, <1>4, <1>5 DEF Handshake

\* A handshake that begins, goes on or is over; only its own step gives a certificate.
LEMMA ShakeFrame ==
  ASSUME ShakeHolds, clock' = clock, cert' = cert, clock \in Nat,
         \A d \in Conns : pc'[d] \in Handshaking =>
           /\ pc[d] \in Handshaking /\ since'[d] = since[d]
           /\ pc'[d] = "tls" => pc[d] = "tls"
  PROVE  ShakeHolds'
BY DEF ShakeHolds, Handshaking

LEMMA ServerlyShake ==
  ASSUME ServerInv, Serverly
  PROVE  ShakeHolds'
<1>1. CertTypes /\ ShakeHolds /\ UNCHANGED <<pc, since, cert>>
  BY ServerlyFrame, TypesOfAll DEF ServerInv, shakeVars
<1>2. CASE Tick
  BY <1>1, <1>2, ServerAssumption DEF Tick, ShakeHolds, CertTypes
<1>3. CASE ~Tick
  <2>1. clock' = clock
    BY <1>3 DEF Serverly, SetupCA, NewCertificateManagerWithCA, NewProxyServer, Start, Stop
  <2> QED
    BY <1>1, <2>1 DEF ShakeHolds
<1> QED
  BY <1>2, <1>3

LEMMA ClientShake ==
  ASSUME ServerInv, NEW c \in Conns, Client(c)
  PROVE  ShakeHolds'
<1>1. ConnTypes /\ CertTypes /\ ShakeHolds
  BY TypesOfAll DEF ServerInv
<1>2. UNCHANGED <<clock, cert, since>>
  BY DEF Client, Connect, ConnectUnparsed, PlainRequest, RequestInTunnel, Receive, shakeVars
<1>3. \A d \in Conns : pc'[d] = pc[d] \/ pc'[d] \in {"deciding", "open", "asking", "forwarded"}
  BY <1>1 DEF Client, Connect, ConnectUnparsed, PlainRequest, RequestInTunnel, Receive, Goto, ConnTypes
<1> QED
  BY <1>1, <1>2, <1>3, ShakeFrame, ServerAssumption DEF CertTypes, Handshaking

LEMMA AskingShake ==
  ASSUME ServerInv, NEW c \in Conns, Asking(c)
  PROVE  ShakeHolds'
<1> USE DEF shakeVars
<1>1. ConnTypes /\ CertTypes /\ ShakeHolds
  BY TypesOfAll DEF ServerInv
<1>2. CASE Mitm(c)
  <2>1. /\ clock' = clock /\ cert' = cert /\ since'[c] = clock /\ pc'[c] = "lookup"
        /\ \A d \in Conns \ {c} : pc'[d] = pc[d] /\ since'[d] = since[d]
    BY <1>1, <1>2 DEF Mitm, Goto, ConnTypes, CertTypes
  <2> QED
    BY <1>1, <2>1, ServerAssumption DEF ShakeHolds, CertTypes
<1>3. CASE ~Mitm(c)
  <2>1. UNCHANGED <<clock, cert, since>>
    BY <1>3 DEF Asking, Decide, Ask, Block, Tunnel, Forward, UpstreamFails, RespondOriginal, ReadBody,
         RespondModified
  <2>2. \A d \in Conns : pc'[d] = pc[d] \/ pc'[d] \in {"open", "closed", "forwarded", "reading"}
    BY <1>1, <1>3 DEF Asking, Decide, Ask, Block, Tunnel, Forward, UpstreamFails, RespondOriginal,
         ReadBody, RespondModified, AfterReply, Goto, ConnTypes
  <2> QED
    BY <1>1, <2>1, <2>2, ShakeFrame, ServerAssumption DEF CertTypes, Handshaking
<1> QED
  BY <1>2, <1>3

LEMMA HandshakeShake ==
  ASSUME ServerInv, NEW c \in Conns, Handshake(c)
  PROVE  ShakeHolds'
<1> USE ServerAssumption DEF shakeVars
<1>1. ConnTypes /\ CertTypes /\ ShakeHolds /\ FlightHolds /\ clock' = clock
  BY TypesOfAll, HandshakeKeeps DEF ServerInv
<1>2. CASE CacheMiss(c) \/ JoinFlight(c) \/ RecheckMiss(c)
  BY <1>1, <1>2, ShakeFrame DEF CacheMiss, JoinFlight, RecheckMiss, Goto, Handshaking, ConnTypes, CertTypes
<1>3. CASE CachedCert(c)
  <2>1. /\ since' = since /\ cert'[c] >= clock + 1 /\ cert'[c] \in Nat /\ pc[c] = "lookup"
        /\ \A d \in Conns \ {c} : pc'[d] = pc[d] /\ cert'[d] = cert[d]
    BY <1>1, <1>3 DEF CachedCert, GiveCert, Fresh, CertTypes, ConnTypes
  <2>2. pc[c] \in Handshaking
    BY <2>1 DEF Handshaking
  <2> QED
    BY <1>1, <2>1, <2>2 DEF ShakeHolds, CertTypes
<1>4. CASE RecheckHit(c) \/ GenerateHostCert(c)
  <2>1. /\ since' = since
        /\ \A d \in Conns : IF d \in flight[host[c]] THEN cert'[d] >= clock + 1 /\ cert'[d] \in Nat
                          ELSE pc'[d] = pc[d] /\ cert'[d] = cert[d]
    BY <1>1, <1>4 DEF RecheckHit, GenerateHostCert, GiveCert, Fresh, CertTypes, ConnTypes
  <2>2. \A d \in flight[host[c]] : pc[d] \in Handshaking
    BY <1>1 DEF FlightHolds, Waiting, Handshaking, ConnTypes
  <2> QED
    BY <1>1, <2>1, <2>2 DEF ShakeHolds, CertTypes
<1>5. CASE GenerateFails(c)
  <2>1. cert' = cert /\ since' = since /\ \A d \in Conns : pc'[d] \in {pc[d], "closed"}
    BY <1>5 DEF GenerateFails
  <2> QED
    BY <1>1, <2>1, ShakeFrame DEF CertTypes, Handshaking
<1>6. CASE Established(c) \/ HandshakeFails(c)
  <2>1. /\ cert' = cert
        /\ \A d \in Conns : pc'[d] \in {"open", "closed"} \/ (pc'[d] = pc[d] /\ since'[d] = since[d])
    BY <1>1, <1>6 DEF Established, HandshakeFails, Goto, ConnTypes, CertTypes
  <2> QED
    BY <1>1, <2>1, ShakeFrame DEF CertTypes, Handshaking
<1> QED
  BY <1>2, <1>3, <1>4, <1>5, <1>6 DEF Handshake

-----------------------------------------------------------------------------
(* The theorems                                                             *)

LEMMA NextIs ==
  Next <=> Serverly \/ \E c \in Conns : Client(c) \/ Asking(c) \/ Handshake(c)
BY DEF Next, Serverly, Handle, Peer, Asking, Handshake

LEMMA InitHolds == Init => ServerInv
<1> SUFFICES ASSUME Init PROVE ServerInv
  OBVIOUS
<1>1. \A c \in Conns : ConnHolds(c)
  BY DEF Init, ConnHolds, DecidingHolds, ModeHolds, RequestHolds, AnswerHolds, Handshaking
<1>2. FlightHolds /\ ShakeHolds
  BY DEF Init, FlightHolds, ShakeHolds, Waiting, Making, Handshaking
<1> QED
  BY <1>1, <1>2, InitTypes DEF ServerInv

LEMMA StepHolds == ServerInv /\ [Next]_vars => ServerInv'
<1> SUFFICES ASSUME ServerInv, [Next]_vars PROVE ServerInv'
  OBVIOUS
<1>1. TypeOK /\ ConnTypes /\ CertTypes /\ FlightHolds
  BY TypesOfAll DEF ServerInv
<1>2. CASE Serverly
  <2>1. UNCHANGED <<certVars, observed, pc, connVars, shakeVars, todo, requestVars>>
    BY <1>2, ServerlyFrame
  <2>2. \A d \in Conns : Same(d)
    BY <2>1 DEF Same, connVars, requestVars
  <2>3. FlightHolds'
    BY <1>1, <2>1 DEF FlightHolds, certVars, connVars
  <2> QED
    BY <1>1, <1>2, <2>2, <2>3, SameHolds, ServerlyTypes, ServerlyShake DEF ServerInv
<1>3. ASSUME NEW c \in Conns, Client(c) PROVE ServerInv'
  BY <1>1, <1>3, ClientTypes, ClientHolds, ClientFlight, ClientShake DEF ServerInv
<1>4. ASSUME NEW c \in Conns, Asking(c) PROVE ServerInv'
  BY <1>1, <1>4, AskingTypes, AskingHolds, AskingFlight, AskingShake DEF ServerInv
<1>5. ASSUME NEW c \in Conns, Handshake(c) PROVE ServerInv'
  BY <1>1, <1>5, HandshakeTypes, HandshakeHolds, HandshakeFlight, HandshakeShake DEF ServerInv
<1>6. CASE UNCHANGED vars
  <2> USE <1>6 DEF vars, serverVars, certVars, connVars, shakeVars, requestVars
  <2>1. TypeOK'
    BY <1>1 DEF TypeOK
  <2>2. \A d \in Conns : Same(d)
    BY DEF Same
  <2>3. FlightHolds' /\ ShakeHolds'
    BY DEF ServerInv, FlightHolds, ShakeHolds
  <2> QED
    BY <2>1, <2>2, <2>3, SameHolds DEF ServerInv
<1> QED
  BY <1>2, <1>3, <1>4, <1>5, <1>6, NextIs

\* The inductive invariant: every state of every instance of ProxyServer has it.
THEOREM ServerInvariance == Spec => []ServerInv
BY InitHolds, StepHolds, PTL DEF Spec

\* Every variable of the server and of its connections keeps its type.
THEOREM ServerTypes == Spec => []TypeOK
<1>1. ServerInv => TypeOK
  BY DEF ServerInv
<1> QED
  BY ServerInvariance, <1>1, PTL

\* Whatever interceptors are registered, in whichever order they are visited and however
\* the connections interleave, an upstream's answer is filtered by all that want it, and
\* a connection is opened exactly when one of them wants its host opened.
THEOREM FilteredAlways == Spec => []TrafficIsFiltered
<1>1. ServerInv => TrafficIsFiltered
  <2> SUFFICES ASSUME ServerInv PROVE TrafficIsFiltered
    OBVIOUS
  <2>1. BodiesAreFiltered
    BY DEF ServerInv, ConnHolds, AnswerHolds, BodiesAreFiltered
  <2>2. TunnelsAreRight
    BY DEF ServerInv, ConnHolds, ModeHolds, TunnelsAreRight
  <2> QED
    BY <2>1, <2>2 DEF TrafficIsFiltered
<1> QED
  BY ServerInvariance, <1>1, PTL

\* A certificate outlives the handshake it is shown in, from the cache, from another's
\* flight or fresh, and one connection at a time makes a host's certificate.
THEOREM FreshAlways == Spec => CertificatesAreFresh
<1>1. ServerInv /\ ServerInv' /\ [Next]_vars =>
        [ /\ \A c \in Conns : pc[c] = "tls" /\ pc'[c] = "open" => cert[c] >= clock
          /\ \A c, d \in Conns : pc'[c] = "generating" /\ pc'[d] = "generating"
                                 /\ host'[c] = host'[d] => c = d ]_vars
  <2> SUFFICES ASSUME ServerInv, ServerInv'
               PROVE  /\ \A c \in Conns : pc[c] = "tls" /\ pc'[c] = "open" => cert[c] >= clock
                      /\ \A c, d \in Conns : pc'[c] = "generating" /\ pc'[d] = "generating"
                                             /\ host'[c] = host'[d] => c = d
    OBVIOUS
  <2>1. \A c \in Conns : pc[c] = "tls" => cert[c] >= clock
    BY ServerAssumption DEF ServerInv, ShakeHolds, Handshaking, TypeOK
  <2>2. \A c, d \in Conns : pc'[c] = "generating" /\ pc'[d] = "generating" /\ host'[c] = host'[d] => c = d
    BY DEF ServerInv, FlightHolds, Making
  <2> QED
    BY <2>1, <2>2
<1> QED
  BY ServerInvariance, <1>1, PTL DEF Spec, CertificatesAreFresh
=============================================================================
